----------------------------- MODULE RewardSend -----------------------------
(***************************************************************************)
(* Transactions of the rewards custody signer: credit payouts and refunds  *)
(* (reward-token-send-coordinator.ts over reward-payout-repository.ts) and *)
(* ticket purchases (megapot-purchase-coordinator.ts), which share one     *)
(* nonce row, one effect table, the operator's brake and the run lease of  *)
(* migrations 0053, 0230, 0242 and 0245.                                   *)
(*                                                                         *)
(* A worker is one cycle of the jobs worker handling one effect.  Every    *)
(* database transaction and every call to the node is a step of its own,   *)
(* and a worker may stop between any two of them.  The node is external:   *)
(* a pool, a chain that mines in nonce order and may drop its last blocks  *)
(* below the confirmation depth, and answers that may not arrive.          *)
(***************************************************************************)
EXTENDS Naturals, Sequences, FiniteSets, SequencesExt

CONSTANTS
  Payouts,        \* effects that pay or refund a credit
  Purchases,      \* effects that buy a ticket while its drawing is open
  Workers,        \* cycles that may overlap
  Fees,           \* fee quotes: two signatures of one effect may differ
  Confirmations,  \* options.requiredConfirmations
  LeaseRequired,  \* whether this database requires a run lease
  MaxHead,        \* block heights above this one are not told apart
  MaxFaults,      \* crashes, refusals, lost answers and reorganisations
  None

Effects == Payouts \cup Purchases

\* A nonce is below the number of effects: the row starts at zero.
Nonces == 0..Cardinality(Effects)

Transactions == [effect : Effects, nonce : Nonces, fee : Fees]

ASSUME SendAssumption ==
  /\ Payouts \cap Purchases = {} /\ IsFiniteSet(Effects)
  /\ Confirmations \in Nat \ {0}
  /\ LeaseRequired \in BOOLEAN
  /\ MaxHead \in Nat /\ MaxFaults \in Nat
  /\ None \notin Effects /\ None \notin Nat /\ None \notin Transactions

VARIABLES
  effect,       \* reward_chain_effects: state, nonce and stored signed transaction
  obligation,   \* the credit's or the drawing's own state
  signer,       \* reward_signer_nonces: next nonce, height of the last observation
  paused,       \* reward_operations_control
  leaseLive,    \* reward_operations_run_lease names a run that is not over
  windowOpen,   \* the drawing the purchases are for still sells tickets
  pool,         \* transactions the node holds and has not mined
  chain,        \* mined transactions in nonce order
  head,         \* the node's block height
  fork,         \* names the blocks mined between two reorganisations
  run,          \* what each worker is doing, and what it read
  faults

database == <<effect, obligation, signer>>
control == <<paused, leaseLive>>
node == <<pool, chain, head, fork>>
vars == <<effect, obligation, signer, paused, leaseLive, windowOpen,
          pool, chain, head, fork, run, faults>>

Idle == [pc |-> "idle", e |-> None, tx |-> None, nonce |-> 0, seen |-> 0]

NoEffect == [state |-> "absent", nonce |-> None, tx |-> None]

Mined == {chain[i].tx : i \in DOMAIN chain}
Network == pool \cup Mined

\* readPendingNonce: the first nonce that neither a block nor the pool uses.
IsPendingNonce(n) ==
  /\ Len(chain) <= n
  /\ \A t \in pool : t.nonce # n
  /\ \A m \in Len(chain)..(n - 1) : \E t \in pool : t.nonce = m

\* require_reward_run_authority_v1
Authority == LeaseRequired => ~paused /\ leaseLive

\* The triggers on reward_signer_nonces: brake and, where required, lease.
Admission == ~paused /\ (LeaseRequired => leaseLive)

\* The block that holds a transaction, as the node tells it now; 0 is none.
BlockOf(t) ==
  IF t \in Mined THEN chain[t.nonce + 1].block ELSE 0

Init ==
  /\ effect = [e \in Effects |-> NoEffect]
  /\ obligation = [e \in Effects |-> "owed"]
  /\ signer = [next |-> 0, height |-> 0]
  /\ paused = TRUE
  /\ leaseLive = FALSE
  /\ windowOpen = TRUE
  /\ pool = {}
  /\ chain = <<>>
  /\ head = 0
  /\ fork = 1
  /\ run = [w \in Workers |-> Idle]
  /\ faults = 0

-----------------------------------------------------------------------------
(***************************************************************************)
(* The worker.  pc names what it does next:                                *)
(*   reserve, sign, prepare, submit, send, recordAccepted,                 *)
(*   recordUncertain, block, reconcile, confirm.                           *)
(***************************************************************************)
Goto(w, pc) == run' = [run EXCEPT ![w].pc = pc]
Decide(w, pc) == run' = [run EXCEPT ![w].pc = pc, ![w].seen = 0]
Stop(w) == run' = [run EXCEPT ![w] = Idle]

\* send and purchase find no effect, load the candidate and read the chain.
\* A purchase outside its window goes to ClosePurchase instead.
Observe(w, e) ==
  /\ run[w].pc = "idle"
  /\ effect[e].state = "absent" /\ obligation[e] = "owed"
  /\ e \in Purchases => windowOpen
  /\ \E n \in Nonces :
       /\ IsPendingNonce(n)
       /\ run' = [run EXCEPT ![w] = [pc |-> "reserve", e |-> e, tx |-> None,
                                     nonce |-> n, seen |-> head]]
  /\ UNCHANGED <<database, control, windowOpen, node, faults>>

\* closePreBroadcast: the drawing closed and no purchase was ever reserved.
ClosePurchase(w, e) ==
  /\ run[w].pc = "idle"
  /\ e \in Purchases /\ ~windowOpen
  /\ effect[e].state = "absent" /\ obligation[e] = "owed"
  /\ obligation' = [obligation EXCEPT ![e] = "closed"]
  /\ UNCHANGED <<effect, signer, control, windowOpen, node, run, faults>>

\* resume: by the state findProgress read.
Resume(w, e) ==
  /\ run[w].pc = "idle"
  /\ \E next \in {"sign", "submit"} :
       /\ effect[e].state = IF next = "sign" THEN "nonce_reserved" ELSE "prepared"
       /\ run' = [run EXCEPT ![w] = [pc |-> next, e |-> e, tx |-> effect[e].tx,
                                     nonce |-> effect[e].nonce, seen |-> 0]]
  /\ UNCHANGED <<database, control, windowOpen, node, faults>>

CanReserve_AnyState(w) == Admission /\ run[w].seen >= signer.height

CanReserve(w) ==
  LET e == run[w].e
  IN  /\ Admission
      /\ effect[e].state = "absent" /\ obligation[e] = "owed"
      /\ run[w].seen >= signer.height

NextNonce_Observed(w) == run[w].nonce
NextNonce_Skips(w) == signer.next + Cardinality(Effects)

\* The row's nonce, or the node's where that is ahead.
NextNonce(w) == IF run[w].nonce > signer.next THEN run[w].nonce ELSE signer.next

\* reserveNonceIn, one transaction: the nonce row, the effect, the credit.
Reserve(w) ==
  LET e == run[w].e
      n == NextNonce(w)
  IN  /\ run[w].pc = "reserve" /\ CanReserve(w)
      /\ signer' = [next |-> n + 1, height |-> run[w].seen]
      /\ effect' = [effect EXCEPT ![e] = [state |-> "nonce_reserved", nonce |-> n, tx |-> None]]
      /\ obligation' = [obligation EXCEPT ![e] = "reserved"]
      /\ run' = [run EXCEPT ![w].pc = "sign", ![w].nonce = n, ![w].seen = 0]
      /\ UNCHANGED <<control, windowOpen, node, faults>>

\* assertLivePurchase before a purchase is signed or sent.
Sellable(w) == run[w].e \in Purchases => windowOpen

\* authority.ensure() before the signer call.  The answer holds nothing still.
AskToSign(w) ==
  /\ run[w].pc = "sign" /\ Authority /\ Sellable(w)
  /\ Goto(w, "prepare")
  /\ UNCHANGED <<database, control, windowOpen, node, faults>>

CanPrepare_AnyState(w) == effect[run[w].e].nonce = run[w].nonce /\ Authority
CanPrepare_Unguarded(w) ==
  effect[run[w].e].state = "nonce_reserved" /\ effect[run[w].e].nonce = run[w].nonce

CanPrepare(w) ==
  LET e == run[w].e
  IN  /\ effect[e].state = "nonce_reserved" /\ effect[e].nonce = run[w].nonce
      /\ Authority

\* The signature, and store.prepare under guard_reward_run_lease_signature.
Prepare(w) ==
  LET e == run[w].e
  IN  /\ run[w].pc = "prepare" /\ CanPrepare(w)
      /\ \E f \in Fees :
           LET t == [effect |-> e, nonce |-> run[w].nonce, fee |-> f]
           IN  /\ effect' = [effect EXCEPT ![e].state = "prepared", ![e].tx = t]
               /\ run' = [run EXCEPT ![w].pc = "submit", ![w].tx = t]
      /\ UNCHANGED <<obligation, signer, control, windowOpen, node, faults>>

\* preparedTransactionLanded: a receipt is evidence that it was sent before.
FindLanded(w) ==
  /\ run[w].pc = "submit" /\ run[w].tx \in Mined
  /\ Goto(w, "recordAccepted")
  /\ UNCHANGED <<database, control, windowOpen, node, faults>>

\* No receipt, or the read failed: authority.ensure() before the send.
AskToSend(w) ==
  /\ run[w].pc = "submit" /\ Authority /\ Sellable(w)
  /\ run[w].tx \in Mined => faults < MaxFaults
  /\ faults' = IF run[w].tx \in Mined THEN faults + 1 ELSE faults
  /\ Goto(w, "send")
  /\ UNCHANGED <<database, control, windowOpen, node>>

\* sendRawTransaction.  The node may hold the transaction and the answer be
\* lost, or refuse it; it answers an error to one it already mined.
Send(w) ==
  LET t == run[w].tx
  IN  /\ run[w].pc = "send"
      /\ \/ /\ t \notin Mined
            /\ pool' = pool \cup {t}
            /\ Goto(w, "recordAccepted")
            /\ UNCHANGED faults
         \/ /\ t \notin Network => faults < MaxFaults
            /\ pool' \in IF t \in Network THEN {pool} ELSE {pool, pool \cup {t}}
            /\ faults' = IF t \in Network THEN faults ELSE faults + 1
            /\ Goto(w, "recordUncertain")
      /\ UNCHANGED <<database, control, windowOpen, chain, head, fork>>

CanRecord(w) ==
  LET e == run[w].e IN effect[e].state = "prepared" /\ effect[e].tx = run[w].tx

\* recordSubmission: an uncertain broadcast passes through broadcast_pending
\* to reconciliation_required in the same transaction.
Record(w) ==
  LET e == run[w].e
  IN  /\ run[w].pc \in {"recordAccepted", "recordUncertain"} /\ CanRecord(w)
      /\ IF run[w].pc = "recordAccepted"
         THEN /\ effect' = [effect EXCEPT ![e].state = "broadcast_pending"]
              /\ obligation' = [obligation EXCEPT ![e] = "pending"]
         ELSE /\ effect' = [effect EXCEPT ![e].state = "reconciliation_required"]
              /\ obligation' = [obligation EXCEPT ![e] = "reconcile"]
      /\ Stop(w)
      /\ UNCHANGED <<signer, control, windowOpen, node, faults>>

Recorded_Once(e) == effect[e].state = "broadcast_pending"

\* The states whose receipt is looked for.
Recorded(e) == effect[e].state \in {"broadcast_pending", "reconciliation_required"}

\* reconcilePrepared reads the receipt: reverted, or a block to check.  Without
\* a receipt nothing changes.  A recorded transaction never changes again, so
\* the step starts from the record, in this cycle (after Record) or a later one.
ReadReceipt(w, e) ==
  LET t == effect[e].tx
  IN  /\ run[w].pc = "idle"
      /\ Recorded(e)
      /\ t \in Mined
      /\ run' = [run EXCEPT ![w] =
                   [pc |-> IF chain[t.nonce + 1].ok THEN "block" ELSE "reconcile",
                    e |-> e, tx |-> t, nonce |-> t.nonce,
                    seen |-> IF chain[t.nonce + 1].ok THEN BlockOf(t) ELSE 0]]
      /\ UNCHANGED <<database, control, windowOpen, node, faults>>

Deep_OneShort(t) == chain[t.nonce + 1].depth + 1 >= Confirmations

Deep(t) == chain[t.nonce + 1].depth >= Confirmations

\* readBlock and readHead: another block at that height, or too few on top.
CheckBlock(w) ==
  LET t == run[w].tx
  IN  /\ run[w].pc = "block"
      /\ IF BlockOf(t) # run[w].seen THEN Decide(w, "reconcile")
         ELSE IF ~Deep(t) THEN Stop(w)
         ELSE Decide(w, "confirm")
      /\ UNCHANGED <<database, control, windowOpen, node, faults>>

\* The block or the head cannot be read.
BlockUnavailable(w) ==
  /\ run[w].pc = "block" /\ faults < MaxFaults
  /\ faults' = faults + 1
  /\ Decide(w, "reconcile")
  /\ UNCHANGED <<database, control, windowOpen, node>>

\* requireReconciliation; confirmed in the meantime is a conflict.
RequireReconciliation(w) ==
  LET e == run[w].e
  IN  /\ run[w].pc = "reconcile"
      /\ IF effect[e].state = "broadcast_pending"
         THEN /\ effect' = [effect EXCEPT ![e].state = "reconciliation_required"]
              /\ obligation' = [obligation EXCEPT ![e] = "reconcile"]
         ELSE UNCHANGED <<effect, obligation>>
      /\ Stop(w)
      /\ UNCHANGED <<signer, control, windowOpen, node, faults>>

\* confirm: the effect, its receipt evidence and the credit.
Confirm(w) ==
  LET e == run[w].e
  IN  /\ run[w].pc = "confirm"
      /\ IF effect[e].state \in {"broadcast_pending", "reconciliation_required"}
         THEN /\ effect' = [effect EXCEPT ![e].state = "confirmed"]
              /\ obligation' = [obligation EXCEPT ![e] = "settled"]
         ELSE UNCHANGED <<effect, obligation>>
      /\ Stop(w)
      /\ UNCHANGED <<signer, control, windowOpen, node, faults>>

\* A refused transaction, a refused authority or a closed drawing ends the attempt.
Refused(w) ==
  /\ \/ run[w].pc = "reserve" /\ ~CanReserve(w)
     \/ run[w].pc = "sign" /\ ~(Authority /\ Sellable(w))
     \/ run[w].pc = "prepare" /\ ~CanPrepare(w)
     \/ run[w].pc = "submit" /\ ~(Authority /\ Sellable(w))
     \/ run[w].pc \in {"recordAccepted", "recordUncertain"} /\ ~CanRecord(w)
  /\ Stop(w)
  /\ UNCHANGED <<database, control, windowOpen, node, faults>>

\* A failed read, an exhausted timeout, or the worker is gone.
Abandon(w) ==
  /\ run[w].pc # "idle" /\ faults < MaxFaults
  /\ faults' = faults + 1
  /\ Stop(w)
  /\ UNCHANGED <<database, control, windowOpen, node>>

Step(w) ==
  \/ Reserve(w) \/ AskToSign(w) \/ Prepare(w)
  \/ FindLanded(w) \/ AskToSend(w) \/ Send(w) \/ Record(w)
  \/ CheckBlock(w) \/ RequireReconciliation(w) \/ Confirm(w)
  \/ Refused(w)

-----------------------------------------------------------------------------
(***************************************************************************)
(* The operator, the brake and the lease.                                  *)
(***************************************************************************)
\* set_reward_operations_paused_v1; pausing also happens on its own when a
\* cycle finds a required lease over (pause_reward_operations_on_lease_expiry_v1).
SetPaused ==
  /\ paused' = ~paused
  /\ UNCHANGED <<database, leaseLive, windowOpen, node, run, faults>>

PauseOnLeaseExpiry ==
  /\ LeaseRequired /\ ~paused /\ ~leaseLive
  /\ paused' = TRUE
  /\ UNCHANGED <<database, leaseLive, windowOpen, node, run, faults>>

\* acquire_reward_run_lease_v1: only while paused and none is live.
AcquireLease ==
  /\ paused /\ ~leaseLive
  /\ leaseLive' = TRUE
  /\ UNCHANGED <<database, paused, windowOpen, node, run, faults>>

\* Its expiry, its absolute deadline or release_reward_run_lease_v1.
LeaseEnds ==
  /\ leaseLive
  /\ leaseLive' = FALSE
  /\ UNCHANGED <<database, paused, windowOpen, node, run, faults>>

Unsigned_OrPrepared(e) == effect[e].state \in {"nonce_reserved", "prepared"}

Unsigned(e) == effect[e].state = "nonce_reserved"

\* release_unsigned_test_purchase_v1: the last nonce goes back to the row.  The
\* entry cutoff it asks for has passed for every drawing that has a purchase.
ReleaseUnsigned(e) ==
  LET n == effect[e].nonce
  IN  /\ e \in Purchases
      /\ paused /\ LeaseRequired /\ ~leaseLive
      /\ Unsigned(e)
      /\ signer.next = n + 1
      /\ Len(chain) = n /\ IsPendingNonce(n)
      /\ \A f \in Effects \ {e} : effect[f].nonce # None => effect[f].nonce < n
      /\ head >= signer.height
      /\ effect' = [effect EXCEPT ![e] = [state |-> "terminal_failed",
                                          nonce |-> None, tx |-> None]]
      /\ obligation' = [obligation EXCEPT ![e] = "closed"]
      /\ signer' = [next |-> n, height |-> head]
      /\ UNCHANGED <<control, windowOpen, node, run, faults>>

\* The drawing rolls over, locks or comes too close to its time.
WindowCloses ==
  /\ windowOpen /\ windowOpen' = FALSE
  /\ UNCHANGED <<database, control, node, run, faults>>

-----------------------------------------------------------------------------
(***************************************************************************)
(* The node (external).                                                    *)
(***************************************************************************)
Deeper(c) == [i \in DOMAIN c |-> [c[i] EXCEPT !.depth =
                                     IF @ < Confirmations THEN @ + 1 ELSE @]]
NextHead == IF head < MaxHead THEN head + 1 ELSE head

Mine(t) ==
  /\ t \in pool /\ t.nonce = Len(chain)
  /\ \E ok \in BOOLEAN :
       chain' = Append(Deeper(chain), [tx |-> t, ok |-> ok, depth |-> 1, block |-> fork])
  /\ pool' = pool \ {t}
  /\ head' = NextHead
  /\ UNCHANGED <<database, control, windowOpen, fork, run, faults>>

EmptyBlock ==
  /\ chain' = Deeper(chain)
  /\ head' = NextHead
  /\ <<chain', head'>> # <<chain, head>>
  /\ UNCHANGED <<database, control, windowOpen, pool, fork, run, faults>>

\* Blocks above the confirmation depth are final; the last one below it may
\* go, and its transaction returns to the pool or is forgotten.
Reorganise ==
  /\ Len(chain) > 0 /\ Last(chain).depth < Confirmations
  /\ faults < MaxFaults
  /\ faults' = faults + 1
  /\ chain' = Front(chain)
  /\ pool' \in {pool, pool \cup {Last(chain).tx}}
  /\ fork' = fork + 1
  /\ UNCHANGED <<database, control, windowOpen, head, run>>

Drop(t) ==
  /\ t \in pool /\ faults < MaxFaults
  /\ faults' = faults + 1
  /\ pool' = pool \ {t}
  /\ UNCHANGED <<database, control, windowOpen, chain, head, fork, run>>

Next ==
  \/ \E w \in Workers : Step(w) \/ Abandon(w) \/ BlockUnavailable(w)
  \/ \E w \in Workers, e \in Effects : 
       Observe(w, e) \/ Resume(w, e) \/ ReadReceipt(w, e) \/ ClosePurchase(w, e)
  \/ SetPaused \/ PauseOnLeaseExpiry \/ AcquireLease \/ LeaseEnds \/ WindowCloses
  \/ \E e \in Effects : ReleaseUnsigned(e)
  \/ \E t \in pool : Mine(t) \/ Drop(t)
  \/ EmptyBlock \/ Reorganise

(***************************************************************************)
(* A cycle takes up every listed effect (fewer than its limit of 50) in    *)
(* every round and a worker goes on to the end of its attempt; the node    *)
(* mines what it holds.  Faults are bounded by MaxFaults, nothing is       *)
(* assumed about the operator.                                             *)
(***************************************************************************)
Fairness ==
  /\ \A w \in Workers : WF_vars(Step(w))
  /\ \A e \in Effects : SF_vars(\E w \in Workers : Resume(w, e) \/ ReadReceipt(w, e))
  /\ WF_vars(\E t \in pool : Mine(t))
  /\ WF_vars(EmptyBlock)

Spec == Init /\ [][Next]_vars
FairSpec == Spec /\ Fairness

-----------------------------------------------------------------------------
States == {"absent", "nonce_reserved", "prepared", "broadcast_pending",
           "reconciliation_required", "confirmed", "terminal_failed"}

Steps == {"idle", "reserve", "sign", "prepare", "submit", "send", "recordAccepted",
          "recordUncertain", "block", "reconcile", "confirm"}

Rows == [state : States, nonce : Nonces \cup {None}, tx : Transactions \cup {None}]

Blocks == [tx : Transactions, ok : BOOLEAN, depth : 1..Confirmations,
           block : 1..(MaxFaults + 1)]

Runs == [pc : Steps, e : Effects \cup {None}, tx : Transactions \cup {None},
         nonce : Nonces, seen : Nat]

\* The types of the variables.
TypeOK ==
  /\ effect \in [Effects -> Rows]
  /\ obligation \in [Effects -> {"owed", "reserved", "pending", "reconcile",
                                 "settled", "closed"}]
  /\ signer \in [next : Nonces, height : 0..MaxHead]
  /\ paused \in BOOLEAN /\ leaseLive \in BOOLEAN /\ windowOpen \in BOOLEAN
  /\ pool \subseteq Transactions /\ chain \in Seq(Blocks)
  /\ head \in 0..MaxHead /\ fork \in 1..(MaxFaults + 1) /\ faults \in 0..MaxFaults
  /\ run \in [Workers -> Runs]

\* Whatever the network holds was stored first, byte for byte: no overlap of
\* cycles, crash or second signature leaves money moving that Postgres does
\* not know (signReserved, prepareReserved, store.prepare).
SentIsStored == \A t \in Network : effect[t.effect].tx = t

\* Every nonce the row gave out belongs to exactly one effect.  A nonce shared
\* by two effects would let one replace the other on the chain, and a nonce
\* that belongs to none would hold every later transaction back for good
\* (reserveNonceIn, release_unsigned_test_purchase_v1).
EveryNonceHasOneOwner ==
  \A n \in 0..(signer.next - 1) :
    Cardinality({e \in Effects : effect[e].nonce = n}) = 1

\* Settled means paid: the stored transaction is mined at the confirmation
\* depth and did not revert, although receipt and block are read apart and
\* the chain may change in between.
SettledIsPaid ==
  \A e \in Effects :
    obligation[e] = "settled" =>
      \E i \in DOMAIN chain :
        chain[i].tx = effect[e].tx /\ chain[i].ok /\ chain[i].depth = Confirmations

\* An obligation that is owed again, or given up, has nothing on the network:
\* its money can neither be paid twice nor be paid after it was released.
ReleasedIsUnsent ==
  \A e \in Effects :
    obligation[e] \in {"owed", "closed"} => \A t \in Network : t.effect # e

\* While a required authority is gone, no nonce is given out and no signature
\* is stored, and what still reaches the network is either a transaction a
\* worker asked to send before, or one a reorganisation put back.
HaltIsACutOver ==
  [][ ~Authority /\ ~Authority' =>
        /\ signer'.next <= signer.next
        /\ \A e \in Effects : effect'[e].tx \in {effect[e].tx, None}
        /\ \A t \in pool' \ pool :
             \/ t \in Mined
             \/ \E w \in Workers : run[w].pc = "send" /\ run[w].tx = t
    ]_vars

Sends == INSTANCE SendOnce WITH
  Obligations <- Effects,
  Transactions <- Transactions,
  Nobody <- None,
  choice <- [e \in Effects |-> effect[e].tx],
  sent <- Network,
  settled <- {e \in Effects : effect[e].state = "confirmed"}

\* The workers together implement SendOnce: one transaction per obligation.
ImplementsSendOnce == Sends!Spec

\* What no later cycle repairs: a recorded broadcast the network does not
\* hold is never sent again, and a purchase whose drawing closed before it
\* was sent keeps its nonce.
Stuck(f) ==
  \/ /\ effect[f].state \in {"broadcast_pending", "reconciliation_required"}
     /\ effect[f].tx \notin Network
  \/ /\ f \in Purchases /\ ~windowOpen
     /\ effect[f].state \in {"nonce_reserved", "prepared"}

Ended(e) ==
  \/ effect[e].state \in {"confirmed", "terminal_failed"}
  \/ /\ effect[e].state = "reconciliation_required"
     /\ \E i \in DOMAIN chain : chain[i].tx = effect[e].tx /\ ~chain[i].ok

\* An effect with no later nonce is stuck.
HeldBack(e) ==
  \E f \in Effects :
    {effect[e].nonce, effect[f].nonce} \subseteq Nonces
      /\ effect[f].nonce <= effect[e].nonce /\ Stuck(f)

\* Once authority stays, every reservation is confirmed, or found reverted, or
\* waits for good behind an effect that is stuck: nothing else holds a payment
\* up, whatever crashed or was refused on the way (resume, reconcile).
EveryReservationEnds ==
  <>[]Authority =>
    \A e \in Effects :
      effect[e].state = "nonce_reserved" ~> (Ended(e) \/ []HeldBack(e))
=============================================================================
