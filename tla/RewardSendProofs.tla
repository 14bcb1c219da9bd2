--------------------------- MODULE RewardSendProofs ---------------------------
(***************************************************************************)
(* The signer's ledger, for any number of obligations, cycles, fees and    *)
(* faults and any confirmation depth: what RewardSend keeps true, and that *)
(* it implements SendOnce.                                                 *)
(***************************************************************************)
EXTENDS RewardSend, FiniteSetTheorems, SequenceTheorems, TLAPS

----------------------------------------------------------------------------
\* The inductive invariant.

OnChain(t) == t.nonce + 1 \in DOMAIN chain /\ chain[t.nonce + 1].tx = t

\* Mined, not reverted, and too deep for a reorganisation.
Paid(t) ==
  OnChain(t) /\ chain[t.nonce + 1].ok /\ chain[t.nonce + 1].depth = Confirmations

\* A block seen to hold t without a revert.  If t is in another one now, or
\* in none, there was a reorganisation in between.
Checked(t, b) ==
  /\ b \in 1..fork
  /\ OnChain(t) => chain[t.nonce + 1].block # b \/ chain[t.nonce + 1].ok
  /\ ~OnChain(t) => b < fork

\* All nonces below m were signed for: what a read of the pending nonce shows.
SignedBelow(m) ==
  \A k \in 0..(m - 1) : \E e \in Effects : effect[e].tx # None /\ effect[e].nonce = k

\* State, nonce, signature and obligation of one effect agree.
EffectInv ==
  \A e \in Effects :
    /\ effect[e].state \in {"absent", "terminal_failed"} <=> effect[e].nonce = None
    /\ effect[e].state \in {"absent", "nonce_reserved", "terminal_failed"} <=> effect[e].tx = None
    /\ effect[e].tx # None => effect[e].tx.effect = e /\ effect[e].tx.nonce = effect[e].nonce
    /\ obligation[e] \in {"owed", "closed"} => effect[e].nonce = None
    /\ obligation[e] = "settled" => effect[e].state = "confirmed"

\* The nonces given out are exactly those below the row's, one effect each.
NonceInv ==
  /\ \A e \in Effects : effect[e].nonce # None => effect[e].nonce < signer.next
  /\ \A e, f \in Effects : effect[e].nonce = effect[f].nonce /\ effect[e].nonce # None => e = f
  /\ \A n \in 0..(signer.next - 1) : \E e \in Effects : effect[e].nonce = n

\* The network holds stored transactions, the chain in nonce order.
NetworkInv ==
  /\ \A t \in pool : effect[t.effect].tx = t
  /\ \A i \in DOMAIN chain :
       /\ effect[chain[i].tx.effect].tx = chain[i].tx
       /\ chain[i].tx.nonce + 1 = i
       /\ chain[i].block <= fork
  /\ fork - 1 <= faults

\* What a worker holds is what is stored, or was seen on the chain.
RunInv(w) ==
  LET r == run[w]
  IN  /\ r.pc # "idle" => r.e \in Effects
      /\ r.pc = "reserve" => SignedBelow(r.nonce) /\ r.seen <= MaxHead
      /\ r.pc \in {"submit", "send", "recordAccepted", "recordUncertain",
                   "block", "reconcile", "confirm"} =>
           r.tx # None /\ effect[r.e].tx = r.tx
      /\ r.pc = "block" => Checked(r.tx, r.seen)
      /\ r.pc = "confirm" => Paid(r.tx)

ConfirmedInv == \A e \in Effects : effect[e].state = "confirmed" => Paid(effect[e].tx)

SendInv ==
  /\ TypeOK /\ EffectInv /\ NonceInv /\ NetworkInv /\ ConfirmedInv
  /\ \A w \in Workers : RunInv(w)

----------------------------------------------------------------------------
\* Sequences of blocks, and nonces.

LEMMA DeeperBlocks ==
  ASSUME SendAssumption, NEW c \in Seq(Blocks)
  PROVE  /\ Deeper(c) \in Seq(Blocks) /\ Len(Deeper(c)) = Len(c)
         /\ \A i \in 1..Len(c) :
              /\ Deeper(c)[i].tx = c[i].tx /\ Deeper(c)[i].ok = c[i].ok
              /\ Deeper(c)[i].block = c[i].block
              /\ c[i].depth = Confirmations => Deeper(c)[i].depth = Confirmations
<1>1. /\ Len(c) \in Nat /\ DOMAIN c = 1..Len(c)
      /\ \A i \in 1..Len(c) : c[i] \in Blocks
  BY LenProperties, ElementOfSeq
<1>2. ASSUME NEW i \in 1..Len(c)
      PROVE  /\ Deeper(c)[i] \in Blocks
             /\ Deeper(c)[i].tx = c[i].tx /\ Deeper(c)[i].ok = c[i].ok
             /\ Deeper(c)[i].block = c[i].block
             /\ c[i].depth = Confirmations => Deeper(c)[i].depth = Confirmations
  <2> DEFINE d == IF c[i].depth < Confirmations THEN c[i].depth + 1 ELSE c[i].depth
  <2>1. Deeper(c)[i] = [c[i] EXCEPT !.depth = d] BY <1>1 DEF Deeper
  <2>2. /\ c[i] \in [tx : Transactions, ok : BOOLEAN, depth : 1..Confirmations,
                     block : 1..(MaxFaults + 1)]
        /\ c[i].depth \in 1..Confirmations
    BY <1>1 DEF Blocks
  <2>3. d \in 1..Confirmations /\ (c[i].depth = Confirmations => d = Confirmations)
    BY <2>2 DEF SendAssumption
  <2> HIDE DEF d
  <2> QED BY <2>1, <2>2, <2>3 DEF Blocks
<1>3. Deeper(c) = [i \in 1..Len(c) |-> Deeper(c)[i]] BY <1>1 DEF Deeper
<1>4. Deeper(c) \in Seq(Blocks) /\ Len(Deeper(c)) = Len(c)
  BY <1>1, <1>2, <1>3, IsASeq
<1> QED BY <1>2, <1>4

(* Nonces that each belong to an effect of its own are no more than the    *)
(* effects.                                                                *)
LEMMA NoncesFit ==
  ASSUME SendAssumption, NEW n \in Nat, NEW owner \in [0..(n - 1) -> Effects],
         \A j, k \in 0..(n - 1) : owner[j] = owner[k] => j = k
  PROVE  n \in Nonces
<1>1. owner \in Injection(0..(n - 1), Effects) BY DEF Injection, IsInjective
<1>2. IsFiniteSet(Effects) BY DEF SendAssumption
<1>3. Cardinality(0..(n - 1)) <= Cardinality(Effects) BY <1>1, <1>2, FS_Injection
<1>4. Cardinality(0..(n - 1)) = n BY FS_Interval
<1>5. Cardinality(Effects) \in Nat BY <1>2, FS_CardinalityType
<1> QED BY <1>3, <1>4, <1>5 DEF Nonces

LEMMA NoncesAreNats == ASSUME SendAssumption PROVE Nonces \subseteq Nat /\ 0 \in Nonces
<1>1. IsFiniteSet(Effects) BY DEF SendAssumption
<1> QED BY <1>1, FS_CardinalityType DEF Nonces

----------------------------------------------------------------------------
\* Facts about one state.

(* What TypeOK says of a row, a block and a worker.                        *)
LEMMA Fields ==
  ASSUME SendAssumption
  PROVE  /\ \A t \in Transactions : t.effect \in Effects /\ t.nonce \in Nonces /\ t.nonce \in Nat
         /\ \A r \in Rows : /\ r.state \in States /\ r.nonce \in Nonces \cup {None}
                            /\ r.nonce # None => r.nonce \in Nat
                            /\ r.tx # None => r.tx \in Transactions
         /\ \A b \in Blocks : /\ b.tx \in Transactions /\ b.ok \in BOOLEAN
                              /\ b.depth \in 1..Confirmations /\ b.block \in 1..(MaxFaults + 1)
         /\ \A r \in Runs : /\ r.pc \in Steps /\ r.e \in Effects \cup {None}
                            /\ r.tx \in Transactions \cup {None}
                            /\ r.nonce \in Nonces /\ r.nonce \in Nat /\ r.seen \in Nat
BY NoncesAreNats DEF Transactions, Rows, Blocks, Runs

LEMMA Typed ==
  ASSUME SendAssumption, TypeOK
  PROVE  /\ signer.next \in Nat /\ signer.height \in Nat /\ head \in Nat
         /\ fork \in Nat /\ faults \in Nat /\ MaxFaults \in Nat /\ MaxHead \in Nat
         /\ chain \in Seq(Blocks) /\ Len(chain) \in Nat /\ DOMAIN chain = 1..Len(chain)
         /\ \A i \in 1..Len(chain) : chain[i] \in Blocks
         /\ \A e \in Effects : effect[e] \in Rows
         /\ \A w \in Workers : run[w] \in Runs
<1>1. signer.next \in Nat /\ signer.height \in Nat
  BY NoncesAreNats DEF TypeOK, SendAssumption
<1>2. head \in Nat /\ fork \in Nat /\ faults \in Nat BY DEF TypeOK, SendAssumption
<1>3. chain \in Seq(Blocks) BY DEF TypeOK
<1>4. /\ Len(chain) \in Nat /\ DOMAIN chain = 1..Len(chain)
      /\ \A i \in 1..Len(chain) : chain[i] \in Blocks
  BY <1>3, LenProperties, ElementOfSeq
<1> QED BY <1>1, <1>2, <1>3, <1>4 DEF TypeOK, SendAssumption

LEMMA MinedIsOnChain ==
  ASSUME SendAssumption, TypeOK, NetworkInv, NEW t \in Transactions
  PROVE  /\ t \in Mined <=> OnChain(t)
         /\ OnChain(t) => effect[t.effect].tx = t
<1>1. DOMAIN chain = 1..Len(chain) /\ t.nonce \in Nat BY Typed, Fields
<1>2. \A i \in DOMAIN chain : chain[i].tx = t => i = t.nonce + 1 BY DEF NetworkInv
<1> QED BY <1>1, <1>2 DEF Mined, OnChain, NetworkInv

LEMMA NetworkIsStored ==
  ASSUME SendAssumption, TypeOK, NetworkInv
  PROVE  /\ Network \subseteq Transactions
         /\ \A t \in Network : effect[t.effect].tx = t
<1>1. pool \subseteq Transactions BY DEF TypeOK
<1>2. Mined \subseteq Transactions BY Typed, Fields DEF Mined
<1> QED BY <1>1, <1>2, MinedIsOnChain DEF Network, NetworkInv

(* The pending nonce of the node: everything below it was signed for.      *)
LEMMA PendingIsSigned ==
  ASSUME SendAssumption, TypeOK, EffectInv, NetworkInv, NEW n \in Nonces, IsPendingNonce(n)
  PROVE  SignedBelow(n)
<1> SUFFICES ASSUME NEW k \in 0..(n - 1)
             PROVE  \E e \in Effects : effect[e].tx # None /\ effect[e].nonce = k
  BY DEF SignedBelow
<1>1. /\ n \in Nat /\ Len(chain) \in Nat /\ DOMAIN chain = 1..Len(chain)
      /\ None \notin Transactions
  BY Typed, Fields, NoncesAreNats DEF SendAssumption
<1>2. PICK t \in Network : t.nonce = k
  <2>1. CASE k < Len(chain)
    <3>1. k + 1 \in DOMAIN chain BY <1>1, <2>1
    <3>2. chain[k + 1].tx \in Transactions /\ chain[k + 1].tx.nonce + 1 = k + 1
      BY <1>1, <3>1, Typed, Fields DEF NetworkInv
    <3>3. chain[k + 1].tx.nonce = k BY <3>2, Typed, Fields
    <3> QED BY <3>1, <3>3 DEF Network, Mined
  <2>2. CASE k >= Len(chain)
    <3>1. k \in Len(chain)..(n - 1) BY <1>1, <2>2
    <3> QED BY <3>1 DEF IsPendingNonce, Network
  <2> QED BY <1>1, <2>1, <2>2
<1>3. t \in Transactions /\ effect[t.effect].tx = t BY NetworkIsStored
<1>4. t.effect \in Effects /\ effect[t.effect].tx # None BY <1>1, <1>3, Typed, Fields
<1>5. effect[t.effect].nonce = t.nonce BY <1>3, <1>4 DEF EffectInv
<1> QED BY <1>2, <1>4, <1>5

(* Hence the row is never behind what a cycle observed, even after a       *)
(* release took a nonce back.                                              *)
LEMMA RowIsAhead ==
  ASSUME SendAssumption, TypeOK, EffectInv, NonceInv, NEW n \in Nat, SignedBelow(n)
  PROVE  n <= signer.next
<1>1. signer.next \in Nat BY Typed, Fields
<1> SUFFICES ASSUME n > signer.next PROVE FALSE BY <1>1
<1>2. n - 1 \in 0..(n - 1) /\ n - 1 >= signer.next BY <1>1
<1>3. PICK e \in Effects : effect[e].nonce = n - 1 /\ effect[e].tx # None
  BY <1>2 DEF SignedBelow
<1>4. effect[e].nonce # None BY <1>2, <1>3 DEF SendAssumption
<1> QED BY <1>1, <1>2, <1>3, <1>4 DEF NonceInv

LEMMA InitInv == ASSUME SendAssumption, Init PROVE SendInv
<1>1. 0 \in Nonces /\ Nonces \subseteq Nat BY NoncesAreNats
<1>2. chain \in Seq(Blocks) /\ Len(chain) = 0 /\ DOMAIN chain = {} BY EmptySeq DEF Init
<1>3. TypeOK
  <2>1. NoEffect \in Rows /\ Idle \in Runs
    BY <1>1 DEF NoEffect, Rows, States, Idle, Runs, Steps
  <2>2. signer \in [next : Nonces, height : 0..MaxHead] BY <1>1 DEF Init, SendAssumption
  <2>3. effect \in [Effects -> Rows] /\ run \in [Workers -> Runs] BY <2>1 DEF Init
  <2>4. fork \in 1..(MaxFaults + 1) /\ faults \in 0..MaxFaults /\ head \in 0..MaxHead
    BY DEF Init, SendAssumption
  <2> QED BY <1>2, <2>2, <2>3, <2>4 DEF Init, TypeOK
<1>4. EffectInv /\ ConfirmedInv BY DEF Init, EffectInv, ConfirmedInv, NoEffect
<1>5. NonceInv BY DEF Init, NonceInv, NoEffect
<1>6. NetworkInv BY <1>2 DEF Init, NetworkInv, SendAssumption
<1>7. \A w \in Workers : RunInv(w) BY DEF Init, RunInv, Idle
<1> QED BY <1>3, <1>4, <1>5, <1>6, <1>7 DEF SendInv

----------------------------------------------------------------------------
\* Steps of a worker that change no row, and of those around it.

LEMMA QuietKeeps ==
  ASSUME SendAssumption, SendInv, TypeOK', UNCHANGED <<effect, signer, pool, chain, fork>>,
         faults <= faults',
         \A e \in Effects : \/ obligation'[e] = obligation[e]
                            \/ obligation'[e] = "closed" /\ effect[e].nonce = None,
         \A v \in Workers : run'[v] = run[v] \/ RunInv(v)'
  PROVE  SendInv'
<1> USE DEF SendInv
<1>1. fork \in Nat /\ faults \in Nat /\ faults' \in Nat BY Typed DEF TypeOK, SendAssumption
<1>2. EffectInv' BY DEF EffectInv
<1>3. NonceInv' BY DEF NonceInv
<1>4. NetworkInv'
  <2>1. NetworkInv BY DEF SendInv
  <2>2. fork' - 1 <= faults' BY <1>1, <2>1 DEF NetworkInv
  <2> QED BY ONLY <2>1, <2>2, UNCHANGED <<effect, pool, chain, fork>> DEF NetworkInv
<1>5. ConfirmedInv' BY DEF ConfirmedInv, Paid, OnChain
<1>6. \A v \in Workers : RunInv(v)' BY DEF RunInv, SignedBelow, Checked, Paid, OnChain
<1> QED BY <1>2, <1>3, <1>4, <1>5, <1>6

(* What a worker is given next is typed, and no other worker moves.        *)
LEMMA WorkerMoves ==
  ASSUME TypeOK, NEW w \in Workers, NEW r \in Runs, run' = [run EXCEPT ![w] = r]
  PROVE  /\ run' \in [Workers -> Runs] /\ run'[w] = r
         /\ \A v \in Workers \ {w} : run'[v] = run[v]
BY DEF TypeOK

LEMMA PcMoves ==
  ASSUME SendAssumption, TypeOK, NEW w \in Workers, NEW pc \in Steps, Goto(w, pc)
  PROVE  /\ run' \in [Workers -> Runs] /\ run'[w] = [run[w] EXCEPT !.pc = pc]
         /\ \A v \in Workers \ {w} : run'[v] = run[v]
<1>1. [run[w] EXCEPT !.pc = pc] \in Runs BY Typed DEF Runs
<1>2. run' = [run EXCEPT ![w] = [run[w] EXCEPT !.pc = pc]] BY DEF Goto
<1> QED BY <1>1, <1>2, WorkerMoves

LEMMA Decides ==
  ASSUME SendAssumption, TypeOK, NEW w \in Workers, NEW pc \in Steps, Decide(w, pc)
  PROVE  /\ run' \in [Workers -> Runs] /\ run'[w] = [run[w] EXCEPT !.pc = pc, !.seen = 0]
         /\ \A v \in Workers \ {w} : run'[v] = run[v]
<1>1. [run[w] EXCEPT !.pc = pc, !.seen = 0] \in Runs BY Typed DEF Runs
<1>2. run' = [run EXCEPT ![w] = [run[w] EXCEPT !.pc = pc, !.seen = 0]] BY DEF Decide
<1> QED BY <1>1, <1>2, WorkerMoves

LEMMA Stops ==
  ASSUME SendAssumption, TypeOK, NEW w \in Workers, Stop(w)
  PROVE  /\ run' \in [Workers -> Runs] /\ run'[w] = Idle /\ RunInv(w)'
         /\ \A v \in Workers \ {w} : run'[v] = run[v]
<1>1. Idle \in Runs BY NoncesAreNats DEF Idle, Runs, Steps
<1>2. run' = [run EXCEPT ![w] = Idle] BY DEF Stop
<1>3. run'[w] = Idle BY <1>1, <1>2, WorkerMoves
<1>4. RunInv(w)' BY <1>3 DEF RunInv, Idle
<1> QED BY <1>1, <1>2, <1>3, <1>4, WorkerMoves

LEMMA ObservesKeep ==
  ASSUME SendAssumption, SendInv, NEW w \in Workers, NEW e \in Effects,
         Observe(w, e) \/ Resume(w, e) \/ ClosePurchase(w, e) \/ ReadReceipt(w, e)
  PROVE  SendInv'
<1>1. TypeOK BY DEF SendInv
<1>2. CASE Observe(w, e)
  <2>1. PICK n \in Nonces :
          /\ IsPendingNonce(n)
          /\ run' = [run EXCEPT ![w] = [pc |-> "reserve", e |-> e, tx |-> None,
                                        nonce |-> n, seen |-> head]]
    BY <1>2 DEF Observe
  <2>2. head \in 0..MaxHead /\ head \in Nat BY <1>1, Typed DEF TypeOK
  <2>3. [pc |-> "reserve", e |-> e, tx |-> None, nonce |-> n, seen |-> head] \in Runs
    BY <2>2 DEF Runs, Steps
  <2>4. SignedBelow(n) BY <2>1, PendingIsSigned DEF SendInv
  <2>5. /\ run' \in [Workers -> Runs]
        /\ run'[w] = [pc |-> "reserve", e |-> e, tx |-> None, nonce |-> n, seen |-> head]
        /\ \A v \in Workers \ {w} : run'[v] = run[v]
    BY <1>1, <2>1, <2>3, WorkerMoves
  <2>6. RunInv(w)' BY <1>2, <2>2, <2>4, <2>5 DEF RunInv, SignedBelow, Observe, database
  <2>7. TypeOK' BY <1>1, <1>2, <2>5 DEF TypeOK, Observe, database, control, node
  <2> QED BY <1>1, <1>2, <2>5, <2>6, <2>7, QuietKeeps, Typed
          DEF Observe, database, control, node
<1>3. CASE Resume(w, e)
  <2>1. PICK next \in {"sign", "submit"} :
          /\ effect[e].state = IF next = "sign" THEN "nonce_reserved" ELSE "prepared"
          /\ run' = [run EXCEPT ![w] = [pc |-> next, e |-> e, tx |-> effect[e].tx,
                                        nonce |-> effect[e].nonce, seen |-> 0]]
    BY <1>3 DEF Resume
  <2>2. /\ effect[e].nonce # None /\ effect[e].nonce \in Nonces
        /\ effect[e].tx \in Transactions \cup {None}
        /\ next = "submit" => effect[e].tx # None
    BY <1>1, <2>1, Typed, Fields DEF SendInv, EffectInv
  <2>3. [pc |-> next, e |-> e, tx |-> effect[e].tx,
         nonce |-> effect[e].nonce, seen |-> 0] \in Runs
    BY <2>2 DEF Runs, Steps
  <2>4. /\ run' \in [Workers -> Runs]
        /\ run'[w] = [pc |-> next, e |-> e, tx |-> effect[e].tx,
                      nonce |-> effect[e].nonce, seen |-> 0]
        /\ \A v \in Workers \ {w} : run'[v] = run[v]
    BY <1>1, <2>1, <2>3, WorkerMoves
  <2>5. RunInv(w)' BY <1>3, <2>2, <2>4 DEF RunInv, Resume, database
  <2>6. TypeOK' BY <1>1, <1>3, <2>4 DEF TypeOK, Resume, database, control, node
  <2> QED BY <1>1, <1>3, <2>4, <2>5, <2>6, QuietKeeps, Typed
          DEF Resume, database, control, node
<1>4. CASE ClosePurchase(w, e)
  <2>1. obligation' = [obligation EXCEPT ![e] = "closed"] /\ effect[e].nonce = None
    BY <1>4 DEF ClosePurchase, SendInv, EffectInv
  <2>2. TypeOK' BY <1>1, <1>4, <2>1 DEF TypeOK, ClosePurchase, control, node
  <2> QED BY <1>1, <1>4, <2>1, <2>2, QuietKeeps, Typed
          DEF ClosePurchase, control, node, TypeOK
<1>5. CASE ReadReceipt(w, e)
  <2> DEFINE t == effect[e].tx
             good == chain[t.nonce + 1].ok
             r == [pc |-> IF good THEN "block" ELSE "reconcile",
                   e |-> e, tx |-> t, nonce |-> t.nonce, seen |-> IF good THEN BlockOf(t) ELSE 0]
  <2>1. t \in Mined /\ run' = [run EXCEPT ![w] = r] BY <1>5 DEF ReadReceipt
  <2>2. t # None /\ t \in Transactions
    BY <1>1, <1>5, Typed, Fields DEF ReadReceipt, Recorded, SendInv, EffectInv
  <2>3. OnChain(t) BY <1>1, <2>1, <2>2, MinedIsOnChain DEF SendInv
  <2>4. /\ chain[t.nonce + 1] \in Blocks /\ chain[t.nonce + 1].block <= fork
        /\ BlockOf(t) = chain[t.nonce + 1].block
    BY <1>1, <2>1, <2>3, Typed DEF OnChain, SendInv, NetworkInv, BlockOf
  <2>5. BlockOf(t) \in 1..fork /\ fork \in Nat /\ BlockOf(t) \in Nat /\ good \in BOOLEAN
    BY <1>1, <2>4, Typed, Fields
  <2>6. t.nonce \in Nonces BY <2>2, Fields
  <2>7. r \in Runs
    <3>1. CASE good BY <2>2, <2>5, <2>6, <3>1 DEF Runs, Steps
    <3>2. CASE ~good BY <2>2, <2>6, <3>2 DEF Runs, Steps
    <3> QED BY <3>1, <3>2
  <2>8. /\ run' \in [Workers -> Runs] /\ run'[w] = r
        /\ \A v \in Workers \ {w} : run'[v] = run[v]
    BY <1>1, <2>1, <2>7, WorkerMoves
  <2>9. good => Checked(t, BlockOf(t)) BY <2>3, <2>4, <2>5 DEF Checked
  <2>10. RunInv(w)'
    <3>1. UNCHANGED <<effect, chain, fork>> BY <1>5 DEF ReadReceipt, database, node
    <3>2. CASE good BY <2>2, <2>8, <2>9, <3>1, <3>2 DEF RunInv, Checked, OnChain
    <3>3. CASE ~good BY <2>2, <2>8, <3>1, <3>3 DEF RunInv
    <3> QED BY <3>2, <3>3
  <2>11. TypeOK' BY <1>1, <1>5, <2>8 DEF TypeOK, ReadReceipt, database, control, node
  <2> QED BY <1>1, <1>5, <2>8, <2>10, <2>11, QuietKeeps, Typed
          DEF ReadReceipt, database, control, node
<1> QED BY <1>2, <1>3, <1>4, <1>5

LEMMA AsksKeep ==
  ASSUME SendAssumption, SendInv, NEW w \in Workers,
         AskToSign(w) \/ FindLanded(w) \/ AskToSend(w)
  PROVE  SendInv'
<1>1. TypeOK /\ faults \in Nat /\ faults \in 0..MaxFaults /\ MaxFaults \in Nat
  BY Typed DEF SendInv, TypeOK
<1>2. PICK pc \in {"prepare", "recordAccepted", "send"} :
        /\ Goto(w, pc) /\ UNCHANGED <<database, control, windowOpen, node>>
        /\ faults' \in {faults, faults + 1} /\ faults' <= MaxFaults
        /\ run[w].pc = IF pc = "prepare" THEN "sign" ELSE "submit"
  <2>1. CASE AskToSign(w) BY <1>1, <2>1 DEF AskToSign
  <2>2. CASE FindLanded(w) BY <1>1, <2>2 DEF FindLanded
  <2>3. CASE AskToSend(w) BY <1>1, <2>3 DEF AskToSend
  <2> QED BY <2>1, <2>2, <2>3
<1>3. /\ run' \in [Workers -> Runs] /\ run'[w] = [run[w] EXCEPT !.pc = pc]
      /\ \A v \in Workers \ {w} : run'[v] = run[v]
  BY <1>1, <1>2, PcMoves DEF Steps
<1>4. RunInv(w) BY DEF SendInv
<1>5. run[w] \in Runs BY <1>1, Typed
<1>6. /\ run'[w].pc = pc /\ run'[w].e = run[w].e /\ run'[w].tx = run[w].tx
  BY <1>3, <1>5 DEF Runs
<1>7. RunInv(w)' BY <1>2, <1>4, <1>6 DEF RunInv, database
<1>8. faults' \in 0..MaxFaults /\ faults <= faults' BY <1>1, <1>2
<1>9. TypeOK' BY <1>1, <1>2, <1>3, <1>8 DEF TypeOK, database, control, node
<1> QED BY <1>2, <1>3, <1>7, <1>8, <1>9, QuietKeeps DEF database, node

LEMMA ChecksKeep ==
  ASSUME SendAssumption, SendInv, NEW w \in Workers,
         CheckBlock(w) \/ BlockUnavailable(w) \/ Refused(w) \/ Abandon(w)
  PROVE  SendInv'
<1>1. TypeOK /\ faults \in Nat /\ faults \in 0..MaxFaults /\ MaxFaults \in Nat
  BY Typed DEF SendInv, TypeOK
<1>2. /\ UNCHANGED <<database, control, windowOpen, node>>
      /\ faults' \in {faults, faults + 1} /\ faults' <= MaxFaults
  BY <1>1 DEF CheckBlock, BlockUnavailable, Refused, Abandon
<1>3. faults' \in 0..MaxFaults /\ faults <= faults' BY <1>1, <1>2
<1>4. ASSUME run' \in [Workers -> Runs], RunInv(w)', \A v \in Workers \ {w} : run'[v] = run[v]
      PROVE  SendInv'
  <2>1. TypeOK' BY <1>1, <1>2, <1>3, <1>4 DEF TypeOK, database, control, node
  <2> QED BY <1>2, <1>3, <1>4, <2>1, QuietKeeps DEF database, node
<1>5. CASE Stop(w) BY <1>1, <1>4, <1>5, Stops
<1>6. ASSUME NEW pc \in {"reconcile", "confirm"}, Decide(w, pc), run[w].pc = "block",
             pc = "confirm" => Paid(run[w].tx)
      PROVE  SendInv'
  <2>1. /\ run' \in [Workers -> Runs] /\ run'[w] = [run[w] EXCEPT !.pc = pc, !.seen = 0]
        /\ \A v \in Workers \ {w} : run'[v] = run[v]
    BY <1>1, <1>6, Decides DEF Steps
  <2>2. run[w] \in Runs BY <1>1, Typed
  <2>3. run'[w].pc = pc /\ run'[w].e = run[w].e /\ run'[w].tx = run[w].tx
    BY <2>1, <2>2 DEF Runs
  <2>4. RunInv(w) BY DEF SendInv
  <2>5. RunInv(w)' BY <1>2, <1>6, <2>3, <2>4 DEF RunInv, Paid, OnChain, database, node
  <2> QED BY <1>4, <2>1, <2>5
<1>7. CASE BlockUnavailable(w) BY <1>6, <1>7 DEF BlockUnavailable
<1>8. CASE CheckBlock(w)
  <2> DEFINE t == run[w].tx
  <2>1. run[w].pc = "block" BY <1>8 DEF CheckBlock
  <2>2. t # None /\ Checked(t, run[w].seen)
    BY <2>1 DEF SendInv, RunInv
  <2>3. t \in Transactions BY <1>1, <2>2, Typed, Fields
  <2>4. CASE BlockOf(t) # run[w].seen
    BY <1>6, <1>8, <2>1, <2>4 DEF CheckBlock
  <2>5. CASE BlockOf(t) = run[w].seen
    <3>1. t \in Mined /\ run[w].seen = chain[t.nonce + 1].block
      BY <1>1, <2>2, <2>5, Typed DEF BlockOf, Checked
    <3>2. OnChain(t) /\ chain[t.nonce + 1].ok
      BY <1>1, <2>2, <2>3, <3>1, MinedIsOnChain DEF SendInv, Checked
    <3>3. chain[t.nonce + 1] \in Blocks BY <1>1, <3>2, Typed DEF OnChain
    <3>4. chain[t.nonce + 1].depth \in 1..Confirmations BY <3>3, Fields
    <3>5. Deep(t) => Paid(t) BY <3>2, <3>4 DEF Deep, Paid, SendAssumption
    <3>6. CASE Deep(t) BY <1>6, <1>8, <2>1, <2>5, <3>5, <3>6 DEF CheckBlock
    <3>7. CASE ~Deep(t) BY <1>5, <1>8, <2>5, <3>7 DEF CheckBlock
    <3> QED BY <3>6, <3>7
  <2> QED BY <2>4, <2>5
<1> QED BY <1>5, <1>7, <1>8 DEF Refused, Abandon

LEMMA ControlKeeps ==
  ASSUME SendAssumption, SendInv,
         SetPaused \/ PauseOnLeaseExpiry \/ AcquireLease \/ LeaseEnds \/ WindowCloses
           \/ UNCHANGED vars
  PROVE  SendInv'
<1>1. TypeOK /\ faults \in Nat BY Typed DEF SendInv
<1>2. UNCHANGED <<database, node, run, faults>>
  BY DEF SetPaused, PauseOnLeaseExpiry, AcquireLease, LeaseEnds, WindowCloses, vars,
         database, node
<1>3. paused' \in BOOLEAN /\ leaseLive' \in BOOLEAN /\ windowOpen' \in BOOLEAN
  <2>1. paused \in BOOLEAN /\ leaseLive \in BOOLEAN /\ windowOpen \in BOOLEAN
    BY <1>1 DEF TypeOK
  <2>2. CASE SetPaused BY Zenon, <2>1, <2>2 DEF SetPaused
  <2>3. CASE PauseOnLeaseExpiry BY Zenon, <2>1, <2>3 DEF PauseOnLeaseExpiry
  <2>4. CASE AcquireLease \/ LeaseEnds BY Zenon, <2>1, <2>4 DEF AcquireLease, LeaseEnds
  <2>5. CASE WindowCloses BY Zenon, <2>1, <2>5 DEF WindowCloses, control
  <2>6. CASE UNCHANGED vars BY Zenon, <2>1, <2>6 DEF vars
  <2> QED BY <2>2, <2>3, <2>4, <2>5, <2>6
<1>4. TypeOK' BY <1>1, <1>2, <1>3 DEF TypeOK, database, node
<1> QED BY <1>1, <1>2, <1>4, QuietKeeps DEF database, node

----------------------------------------------------------------------------
\* Steps that write a row.

(* Row and obligation of one effect agree.                                 *)
Agrees(e, row, o) ==
  /\ row.state \in {"absent", "terminal_failed"} <=> row.nonce = None
  /\ row.state \in {"absent", "nonce_reserved", "terminal_failed"} <=> row.tx = None
  /\ row.tx # None => row.tx.effect = e /\ row.tx.nonce = row.nonce
  /\ o \in {"owed", "closed"} => row.nonce = None
  /\ o = "settled" => row.state = "confirmed"

(* A row may be written if what was signed stays and what is confirmed is  *)
(* paid.                                                                   *)
LEMMA WriteKeeps ==
  ASSUME SendAssumption, SendInv, TypeOK', NonceInv', NEW e \in Effects, NEW row \in Rows, NEW o,
         effect' = [effect EXCEPT ![e] = row], obligation' = [obligation EXCEPT ![e] = o],
         UNCHANGED <<pool, chain, fork, faults>>, Agrees(e, row, o),
         effect[e].tx # None => row.tx = effect[e].tx,
         row.state = "confirmed" => effect[e].state = "confirmed" \/ Paid(row.tx),
         \A v \in Workers : run'[v] = run[v] \/ RunInv(v)'
  PROVE  SendInv'
<1>1. /\ TypeOK /\ EffectInv /\ NonceInv /\ NetworkInv /\ ConfirmedInv
      /\ \A w \in Workers : RunInv(w)
  BY DEF SendInv
<1>2. /\ effect \in [Effects -> Rows] /\ obligation \in [Effects -> {"owed", "reserved",
                                           "pending", "reconcile", "settled", "closed"}]
      /\ None \notin Transactions
  BY <1>1 DEF TypeOK, SendAssumption
<1>3. /\ effect'[e] = row /\ obligation'[e] = o
      /\ \A f \in Effects \ {e} : effect'[f] = effect[f] /\ obligation'[f] = obligation[f]
  BY <1>2
<1>4. EffectInv'
  <2> SUFFICES ASSUME NEW f \in Effects PROVE Agrees(f, effect'[f], obligation'[f])
    BY DEF Agrees, EffectInv
  <2>1. CASE f = e BY <1>3, <2>1
  <2>2. CASE f # e BY <1>1, <1>3, <2>2 DEF EffectInv, Agrees
  <2> QED BY <2>1, <2>2
<1>5. \A f \in Effects : effect[f].tx # None => effect'[f].tx = effect[f].tx
  BY <1>3
<1>6. NetworkInv'
  <2>1. \A t \in pool : effect'[t.effect].tx = t
    BY <1>1, <1>2, <1>5, Fields DEF NetworkInv, TypeOK
  <2>2. \A i \in DOMAIN chain : effect'[chain[i].tx.effect].tx = chain[i].tx
    <3> SUFFICES ASSUME NEW i \in DOMAIN chain PROVE effect'[chain[i].tx.effect].tx = chain[i].tx
      OBVIOUS
    <3>1. chain[i].tx \in Transactions BY <1>1, Typed, Fields
    <3> QED BY <1>1, <1>2, <1>5, <3>1, Fields DEF NetworkInv
  <2> QED BY <1>1, <2>1, <2>2 DEF NetworkInv
<1>7. ConfirmedInv'
  <2> SUFFICES ASSUME NEW f \in Effects, effect'[f].state = "confirmed" PROVE Paid(effect'[f].tx)
    BY DEF ConfirmedInv, Paid, OnChain
  <2>1. CASE f = e /\ effect[e].state # "confirmed" BY <1>3, <2>1
  <2>2. CASE effect[f].state = "confirmed"
    <3>1. effect[f].tx # None BY <1>1, <2>2 DEF EffectInv
    <3> QED BY <1>1, <1>5, <2>2, <3>1 DEF ConfirmedInv
  <2> QED BY <1>3, <2>1, <2>2
<1>8. \A f \in Effects : effect[f].tx # None => effect'[f].nonce = effect[f].nonce
  BY <1>1, <1>4, <1>5 DEF EffectInv
<1> DEFINE Kept(m) == \A k \in 0..(m - 1) :
                        \E f \in Effects : effect'[f].tx # None /\ effect'[f].nonce = k
<1>9. ASSUME NEW m, SignedBelow(m) PROVE Kept(m)
  <2> SUFFICES ASSUME NEW k \in 0..(m - 1)
               PROVE  \E f \in Effects : effect'[f].tx # None /\ effect'[f].nonce = k
    OBVIOUS
  <2>1. PICK f \in Effects : effect[f].tx # None /\ effect[f].nonce = k
    BY <1>9 DEF SignedBelow
  <2> QED BY <1>5, <1>8, <2>1
<1>10. ASSUME NEW v \in Workers PROVE RunInv(v)'
  <2>1. CASE run'[v] = run[v]
    <3>1. RunInv(v) BY <1>1
    <3>2. run[v].pc = "reserve" => Kept(run'[v].nonce)
      BY <1>9, <2>1, <3>1 DEF RunInv
    <3>3. run'[v].pc = "reserve" => SignedBelow(run[v].nonce)'
      BY <2>1, <3>2 DEF SignedBelow
    <3>4. run[v].e \in Effects /\ run[v].tx # None /\ effect[run[v].e].tx = run[v].tx
            => effect'[run[v].e].tx = run[v].tx
      BY <1>5
    <3> QED BY <2>1, <3>1, <3>3, <3>4 DEF RunInv, Checked, Paid, OnChain
  <2> QED BY <2>1
<1> QED BY <1>4, <1>6, <1>7, <1>10 DEF SendInv

(* Only the state moves.                                                   *)
LEMMA StateMoves ==
  ASSUME SendAssumption, SendInv, NEW w \in Workers, NEW e \in Effects,
         NEW s \in {"broadcast_pending", "reconciliation_required", "confirmed"},
         NEW o \in {"pending", "reconcile", "settled"},
         effect' = [effect EXCEPT ![e].state = s], obligation' = [obligation EXCEPT ![e] = o],
         effect[e].state \in {"prepared", "broadcast_pending", "reconciliation_required"},
         o = "settled" <=> s = "confirmed", s = "confirmed" => Paid(effect[e].tx),
         Stop(w), UNCHANGED <<signer, control, windowOpen, node, faults>>
  PROVE  SendInv'
<1> DEFINE row == [effect[e] EXCEPT !.state = s]
<1>1. TypeOK /\ effect[e] \in Rows BY Typed DEF SendInv
<1>2. /\ row \in Rows /\ row.state = s /\ row.nonce = effect[e].nonce /\ row.tx = effect[e].tx
      /\ effect' = [effect EXCEPT ![e] = row]
  BY <1>1 DEF Rows, States
<1>3. /\ run' \in [Workers -> Runs] /\ \A v \in Workers : run'[v] = run[v] \/ RunInv(v)'
  BY <1>1, Stops
<1>4. Agrees(e, row, o)
  <2>1. EffectInv BY DEF SendInv
  <2> QED BY <1>2, <2>1 DEF EffectInv, Agrees
<1>5. effect' \in [Effects -> Rows] BY <1>1, <1>2 DEF TypeOK
<1>6. TypeOK' BY <1>1, <1>3, <1>5 DEF TypeOK, control, node
<1>7. NonceInv'
  <2>1. \A f \in Effects : effect'[f].nonce = effect[f].nonce BY <1>1, <1>2 DEF TypeOK
  <2> QED BY <2>1 DEF SendInv, NonceInv
<1> HIDE DEF row
<1> QED BY <1>2, <1>3, <1>4, <1>6, <1>7, WriteKeeps DEF node

LEMMA RecordsKeep ==
  ASSUME SendAssumption, SendInv, NEW w \in Workers,
         Record(w) \/ RequireReconciliation(w) \/ Confirm(w)
  PROVE  SendInv'
<1> DEFINE e == run[w].e
<1>1. TypeOK /\ RunInv(w) BY DEF SendInv
<1>2. e \in Effects BY <1>1 DEF RunInv, Record, RequireReconciliation, Confirm
<1>3. ASSUME UNCHANGED <<effect, obligation, signer, control, windowOpen, node, faults>>, Stop(w)
      PROVE  SendInv'
  <2>1. TypeOK' BY <1>1, <1>3, Stops DEF TypeOK, control, node
  <2> QED BY <1>1, <1>3, <2>1, QuietKeeps, Stops, Typed DEF node
<1>4. CASE Record(w)
  <2>1. effect[e].state = "prepared" BY <1>4 DEF Record, CanRecord
  <2>2. CASE run[w].pc = "recordAccepted"
    BY <1>2, <1>4, <2>1, <2>2, StateMoves DEF Record
  <2>3. CASE run[w].pc # "recordAccepted"
    BY <1>2, <1>4, <2>1, <2>3, StateMoves DEF Record
  <2> QED BY <2>2, <2>3
<1>5. CASE RequireReconciliation(w)
  <2>1. CASE effect[e].state = "broadcast_pending"
    BY <1>2, <1>5, <2>1, StateMoves DEF RequireReconciliation
  <2>2. CASE effect[e].state # "broadcast_pending"
    BY <1>3, <1>5, <2>2 DEF RequireReconciliation
  <2> QED BY <2>1, <2>2
<1>6. CASE Confirm(w)
  <2>1. Paid(effect[e].tx) BY <1>1, <1>6 DEF RunInv, Confirm
  <2>2. CASE effect[e].state \in {"broadcast_pending", "reconciliation_required"}
    BY <1>2, <1>6, <2>1, <2>2, StateMoves DEF Confirm
  <2>3. CASE effect[e].state \notin {"broadcast_pending", "reconciliation_required"}
    BY <1>3, <1>6, <2>3 DEF Confirm
  <2> QED BY <2>2, <2>3
<1> QED BY <1>4, <1>5, <1>6

LEMMA PrepareKeeps ==
  ASSUME SendAssumption, SendInv, NEW w \in Workers, Prepare(w) PROVE SendInv'
<1> DEFINE e == run[w].e
<1>1. TypeOK /\ RunInv(w) /\ run[w] \in Runs /\ None \notin Transactions
  BY Typed DEF SendInv, SendAssumption
<1>2. e \in Effects /\ effect[e] \in Rows /\ run[w].nonce \in Nonces
  BY <1>1, Typed, Fields DEF RunInv, Prepare
<1>3. PICK f \in Fees :
        /\ effect' = [effect EXCEPT ![e].state = "prepared",
                        ![e].tx = [effect |-> e, nonce |-> run[w].nonce, fee |-> f]]
        /\ run' = [run EXCEPT ![w].pc = "submit",
                     ![w].tx = [effect |-> e, nonce |-> run[w].nonce, fee |-> f]]
  BY <1>2 DEF Prepare
<1> DEFINE t == [effect |-> e, nonce |-> run[w].nonce, fee |-> f]
           row == [effect[e] EXCEPT !.state = "prepared", !.tx = t]
           r == [run[w] EXCEPT !.pc = "submit", !.tx = t]
<1>4. t \in Transactions /\ t # None /\ t.effect = e /\ t.nonce = run[w].nonce
  BY <1>1, <1>2 DEF Transactions
<1> HIDE DEF t
<1>5. effect' = [effect EXCEPT ![e] = row] /\ run' = [run EXCEPT ![w] = r] BY <1>3 DEF t
<1>6. effect[e].state = "nonce_reserved" /\ effect[e].nonce = run[w].nonce
  BY DEF Prepare, CanPrepare
<1>7. /\ row \in Rows /\ row.state = "prepared" /\ row.tx = t /\ row.nonce = run[w].nonce
      /\ r \in Runs /\ r.pc = "submit" /\ r.tx = t /\ r.e = e
  BY <1>1, <1>2, <1>4, <1>6 DEF Rows, States, Runs, Steps
<1> HIDE DEF row, r
<1>8. /\ run' \in [Workers -> Runs] /\ run'[w] = r
      /\ \A v \in Workers \ {w} : run'[v] = run[v]
  BY <1>1, <1>5, <1>7, WorkerMoves
<1>9. effect' \in [Effects -> Rows] /\ effect'[e] = row BY <1>1, <1>2, <1>5, <1>7 DEF TypeOK
<1>10. RunInv(w)' BY <1>2, <1>4, <1>7, <1>8, <1>9 DEF RunInv
<1>11. TypeOK' BY <1>1, <1>8, <1>9 DEF TypeOK, Prepare, control, node
<1>12. NonceInv'
  <2>1. \A g \in Effects : effect'[g].nonce = effect[g].nonce
    BY <1>1, <1>2, <1>5, <1>6, <1>7 DEF TypeOK
  <2> QED BY <2>1 DEF SendInv, NonceInv, Prepare
<1>13. EffectInv BY DEF SendInv
<1>14. Agrees(e, row, obligation[e]) /\ effect[e].tx = None
  BY <1>2, <1>4, <1>6, <1>7, <1>13, Fields, NoncesAreNats DEF Agrees, EffectInv, SendAssumption
<1>15. obligation' = [obligation EXCEPT ![e] = obligation[e]] BY <1>1 DEF Prepare, TypeOK
<1> QED BY <1>2, <1>5, <1>7, <1>8, <1>10, <1>11, <1>12, <1>14, <1>15, WriteKeeps DEF Prepare, node

LEMMA ReserveKeeps ==
  ASSUME SendAssumption, SendInv, NEW w \in Workers, Reserve(w) PROVE SendInv'
<1> DEFINE e == run[w].e
           n == NextNonce(w)
           row == [state |-> "nonce_reserved", nonce |-> n, tx |-> None]
           r == [run[w] EXCEPT !.pc = "sign", !.nonce = n, !.seen = 0]
<1>1. /\ TypeOK /\ EffectInv /\ NonceInv /\ RunInv(w) /\ run[w] \in Runs
      /\ signer.next \in Nat /\ signer.next \in Nonces /\ None \notin Nat
      /\ effect \in [Effects -> Rows]
  BY Typed DEF SendInv, SendAssumption, TypeOK
<1>2. /\ e \in Effects /\ effect[e].state = "absent" /\ SignedBelow(run[w].nonce)
      /\ run[w].seen \in 0..MaxHead /\ run[w].nonce \in Nat
  BY <1>1, Fields DEF RunInv, Reserve, CanReserve, SendAssumption
<1>3. n = signer.next
  <2>1. run[w].nonce <= signer.next BY <1>1, <1>2, RowIsAhead
  <2> QED BY <1>1, <1>2, <2>1 DEF NextNonce
<1>4. /\ effect' = [effect EXCEPT ![e] = row]
      /\ obligation' = [obligation EXCEPT ![e] = "reserved"]
      /\ signer' = [next |-> n + 1, height |-> run[w].seen]
      /\ run' = [run EXCEPT ![w] = r]
  BY DEF Reserve
<1>5. n \in Nonces /\ n \in Nat BY <1>1, <1>3
<1> HIDE DEF n
<1>6. row \in Rows /\ r \in Runs /\ r.pc = "sign" /\ r.e = e
  BY <1>1, <1>5 DEF Rows, States, Runs, Steps
<1>7. /\ run' \in [Workers -> Runs] /\ run'[w] = r
      /\ \A v \in Workers \ {w} : run'[v] = run[v]
  BY <1>1, <1>4, <1>6, WorkerMoves
<1>8. /\ effect' \in [Effects -> Rows] /\ effect'[e].nonce = n
      /\ \A f \in Effects \ {e} : effect'[f] = effect[f]
  BY <1>1, <1>2, <1>4, <1>6
<1>9. effect[e].nonce = None /\ effect[e].tx = None BY <1>1, <1>2 DEF EffectInv
<1>10. NonceInv'
  <2>1. signer'.next = n + 1 BY <1>4
  <2>2. \A f \in Effects : effect'[f].nonce # None => effect'[f].nonce \in Nat
    BY <1>8, Fields
  <2>3. \A f \in Effects \ {e} : effect'[f].nonce # None => effect'[f].nonce < n
    BY <1>1, <1>3, <1>8 DEF NonceInv
  <2>4. \A f \in Effects : effect'[f].nonce # None => effect'[f].nonce < n + 1
    BY <1>5, <1>8, <2>2, <2>3
  <2>5. ASSUME NEW f \in Effects, NEW g \in Effects,
               effect'[f].nonce = effect'[g].nonce, effect'[f].nonce # None
        PROVE  f = g
    <3>1. CASE f # e /\ g # e BY <1>1, <1>8, <2>5, <3>1 DEF NonceInv
    <3>2. CASE f = e /\ g # e BY <1>5, <1>8, <2>3, <2>5, <3>2
    <3>3. CASE f # e /\ g = e BY <1>5, <1>8, <2>3, <2>5, <3>3
    <3> QED BY <3>1, <3>2, <3>3
  <2>6. ASSUME NEW k \in 0..n PROVE \E f \in Effects : effect'[f].nonce = k
    <3>1. CASE k = n BY <1>2, <1>8, <3>1
    <3>2. CASE k # n
      <4>1. k \in 0..(signer.next - 1) BY <1>3, <1>5, <3>2
      <4>2. PICK f \in Effects : effect[f].nonce = k BY <1>1, <4>1 DEF NonceInv
      <4>3. f # e BY <1>1, <1>9, <4>2
      <4> QED BY <1>8, <4>2, <4>3
    <3> QED BY <3>1, <3>2
  <2>7. 0..(signer'.next - 1) = 0..n BY <1>5, <2>1
  <2> QED BY <2>1, <2>4, <2>5, <2>6, <2>7 DEF NonceInv
<1>11. signer'.next \in Nonces
  <2> DEFINE owner == [k \in 0..n |-> CHOOSE f \in Effects : effect'[f].nonce = k]
  <2>1. signer'.next = n + 1 /\ 0..n = 0..((n + 1) - 1) BY <1>4, <1>5
  <2>2. \A k \in 0..n : \E f \in Effects : effect'[f].nonce = k
    BY <1>5, <1>10, <2>1 DEF NonceInv
  <2>3. \A k \in 0..n : owner[k] \in Effects /\ effect'[owner[k]].nonce = k BY <2>2
  <2>4. owner \in [0..n -> Effects] BY <2>3
  <2>5. \A j, k \in 0..n : owner[j] = owner[k] => j = k BY <2>3
  <2> HIDE DEF owner
  <2>6. n + 1 \in Nat BY <1>5
  <2> QED BY <2>1, <2>4, <2>5, <2>6, NoncesFit
<1>12. TypeOK'
  <2>1. signer' \in [next : Nonces, height : 0..MaxHead] BY <1>2, <1>4, <1>11
  <2> QED BY <1>1, <1>4, <1>7, <1>8, <2>1 DEF TypeOK, Reserve, control, node
<1>13. RunInv(w)' BY <1>2, <1>6, <1>7 DEF RunInv
<1>14. Agrees(e, row, "reserved") BY <1>1, <1>5 DEF Agrees
<1>15. row.tx = None /\ row.state = "nonce_reserved" OBVIOUS
<1> HIDE DEF row, r
<1> QED BY <1>2, <1>4, <1>6, <1>7, <1>9, <1>10, <1>12, <1>13, <1>14, <1>15, WriteKeeps
        DEF Reserve, node

LEMMA ReleaseKeeps ==
  ASSUME SendAssumption, SendInv, NEW e \in Effects, ReleaseUnsigned(e) PROVE SendInv'
<1> DEFINE n == effect[e].nonce
           row == [state |-> "terminal_failed", nonce |-> None, tx |-> None]
<1>1. /\ TypeOK /\ EffectInv /\ NonceInv /\ effect[e] \in Rows /\ None \notin Nat
      /\ effect \in [Effects -> Rows]
  BY Typed DEF SendInv, SendAssumption, TypeOK
<1>2. /\ effect' = [effect EXCEPT ![e] = row]
      /\ obligation' = [obligation EXCEPT ![e] = "closed"]
      /\ signer' = [next |-> n, height |-> head] /\ signer.next = n + 1
      /\ effect[e].state = "nonce_reserved"
      /\ \A f \in Effects \ {e} : effect[f].nonce # None => effect[f].nonce < n
  BY DEF ReleaseUnsigned, Unsigned
<1>3. n # None /\ n \in Nonces /\ n \in Nat /\ effect[e].tx = None
  BY <1>1, <1>2, Fields DEF EffectInv
<1>4. row \in Rows BY DEF Rows, States
<1>5. /\ effect' \in [Effects -> Rows] /\ effect'[e].nonce = None
      /\ \A f \in Effects \ {e} : effect'[f] = effect[f]
  BY <1>1, <1>2, <1>4
<1>6. NonceInv'
  <2>1. \A f \in Effects : effect'[f].nonce # None => f # e /\ effect'[f].nonce < signer'.next
    BY <1>2, <1>5
  <2>2. \A f, g \in Effects : effect'[f].nonce = effect'[g].nonce /\ effect'[f].nonce # None
                                => f = g
    BY <1>1, <1>5 DEF NonceInv
  <2>3. ASSUME NEW k \in 0..(n - 1) PROVE \E f \in Effects : effect'[f].nonce = k
    <3>1. k \in 0..(signer.next - 1) /\ k # n BY <1>2, <1>3
    <3>2. PICK f \in Effects : effect[f].nonce = k BY <1>1, <3>1 DEF NonceInv
    <3> QED BY <1>5, <3>1, <3>2
  <2>4. signer'.next = n BY <1>2
  <2> QED BY <2>1, <2>2, <2>3, <2>4 DEF NonceInv
<1>7. TypeOK'
  <2>1. signer' \in [next : Nonces, height : 0..MaxHead] BY <1>1, <1>2, <1>3 DEF TypeOK
  <2> QED BY <1>1, <1>2, <1>5, <2>1 DEF TypeOK, ReleaseUnsigned, control, node
<1>8. Agrees(e, row, "closed") BY DEF Agrees
<1>9. row.state = "terminal_failed" OBVIOUS
<1> HIDE DEF row
<1> QED BY <1>2, <1>3, <1>4, <1>6, <1>7, <1>8, <1>9, WriteKeeps DEF ReleaseUnsigned, node

----------------------------------------------------------------------------
\* Steps of the node.

(* The network may move if it stays within what is stored, and what a      *)
(* cycle saw or a confirmation rests on stays true.                        *)
LEMMA NetworkMoves ==
  ASSUME SendAssumption, SendInv, TypeOK', NetworkInv',
         UNCHANGED <<effect, obligation, signer>>,
         \A t \in Transactions : effect[t.effect].tx = t /\ Paid(t) => Paid(t)',
         \A t \in Transactions, b \in Nat :
           effect[t.effect].tx = t /\ Checked(t, b) => Checked(t, b)',
         \A v \in Workers : run'[v] = run[v] \/ RunInv(v)'
  PROVE  SendInv'
<1>1. /\ TypeOK /\ EffectInv /\ NonceInv /\ ConfirmedInv
      /\ \A w \in Workers : RunInv(w)
  BY DEF SendInv
<1>2. EffectInv' /\ NonceInv' BY <1>1 DEF EffectInv, NonceInv
<1>3. ASSUME NEW e \in Effects, effect[e].tx # None
      PROVE  effect[e].tx \in Transactions /\ effect[e].tx.effect = e
  BY <1>1, <1>3, Typed, Fields DEF EffectInv
<1>4. ConfirmedInv'
  <2> SUFFICES ASSUME NEW e \in Effects, effect[e].state = "confirmed"
               PROVE  Paid(effect[e].tx)'
    BY DEF ConfirmedInv
  <2>1. effect[e].tx # None /\ Paid(effect[e].tx) BY <1>1 DEF EffectInv, ConfirmedInv
  <2>2. \A t \in Transactions : t = effect[e].tx => Paid(t)' BY <1>3, <2>1
  <2> QED BY <1>3, <2>1, <2>2 DEF Paid, OnChain
<1>5. ASSUME NEW v \in Workers PROVE RunInv(v)'
  <2>1. CASE run'[v] = run[v]
    <3>1. RunInv(v) /\ run[v] \in Runs BY <1>1, Typed
    <3>2. run[v].e \in Effects /\ run[v].tx # None /\ effect[run[v].e].tx = run[v].tx
            => run[v].tx \in Transactions /\ effect[run[v].tx.effect].tx = run[v].tx
      BY <1>3
    <3>3. run[v].seen \in Nat BY <3>1, Fields
    <3>4. run[v].pc = "block" =>
            \A t \in Transactions, b \in Nat : t = run[v].tx /\ b = run[v].seen => Checked(t, b)'
      BY <3>1, <3>2, <3>3 DEF RunInv
    <3>5. run[v].pc = "confirm" => \A t \in Transactions : t = run[v].tx => Paid(t)'
      BY <3>1, <3>2 DEF RunInv
    <3>6. run'[v].pc = "block" => Checked(run[v].tx, run[v].seen)'
      BY <2>1, <3>1, <3>2, <3>3, <3>4 DEF RunInv, Checked, OnChain
    <3>7. run'[v].pc = "confirm" => Paid(run[v].tx)'
      BY <2>1, <3>1, <3>2, <3>5 DEF RunInv, Paid, OnChain
    <3>8. SignedBelow(run[v].nonce)' <=> SignedBelow(run'[v].nonce)
      BY DEF SignedBelow
    <3>9. run'[v].pc = "reserve" => SignedBelow(run[v].nonce)'
      BY <2>1, <3>1, <3>8 DEF RunInv
    <3> QED BY <2>1, <3>1, <3>6, <3>7, <3>9 DEF RunInv
  <2> QED BY <2>1
<1> QED BY <1>1, <1>2, <1>4, <1>5 DEF SendInv

(* The node mined a block: what was on the chain is as it was, or deeper,  *)
(* and what is new carries the current fork.                               *)
LEMMA Grows ==
  ASSUME SendAssumption, TypeOK, chain' \in Seq(Blocks), fork' = fork,
         Len(chain') >= Len(chain),
         \A i \in 1..Len(chain) :
           /\ chain'[i].tx = chain[i].tx /\ chain'[i].ok = chain[i].ok
           /\ chain'[i].block = chain[i].block
           /\ chain[i].depth = Confirmations => chain'[i].depth = Confirmations,
         \A i \in 1..Len(chain') : i > Len(chain) => chain'[i].block = fork
  PROVE  /\ \A t \in Transactions : Paid(t) => Paid(t)'
         /\ \A t \in Transactions, b \in Nat : Checked(t, b) => Checked(t, b)'
<1>1. /\ Len(chain) \in Nat /\ DOMAIN chain = 1..Len(chain)
      /\ Len(chain') \in Nat /\ DOMAIN chain' = 1..Len(chain') /\ fork \in Nat
  BY Typed, LenProperties
<1>2. \A t \in Transactions : OnChain(t) => OnChain(t)' BY <1>1 DEF OnChain
<1>3. \A t \in Transactions : Paid(t) => Paid(t)' BY <1>1, <1>2 DEF Paid, OnChain
<1>4. ASSUME NEW t \in Transactions, NEW b \in Nat, Checked(t, b) PROVE Checked(t, b)'
  <2>1. b \in 1..fork BY <1>4 DEF Checked
  <2>2. CASE OnChain(t)
    <3>1. chain'[t.nonce + 1].block = chain[t.nonce + 1].block
          /\ chain'[t.nonce + 1].ok = chain[t.nonce + 1].ok
      BY <1>1, <2>2 DEF OnChain
    <3> QED BY <1>2, <1>4, <2>1, <2>2, <3>1 DEF Checked
  <2>3. CASE ~OnChain(t)
    <3>1. b < fork BY <1>4, <2>3 DEF Checked
    <3>2. t.nonce + 1 \in Nat BY Fields
    <3>3. OnChain(t)' => t.nonce + 1 > Len(chain) /\ t.nonce + 1 \in 1..Len(chain')
      BY <1>1, <2>3, <3>2 DEF OnChain
    <3>4. OnChain(t)' => chain'[t.nonce + 1].block = fork BY <3>3
    <3> QED BY <1>1, <2>1, <3>1, <3>4 DEF Checked
  <2> QED BY <2>2, <2>3
<1> QED BY <1>3, <1>4

LEMMA MineKeeps ==
  ASSUME SendAssumption, SendInv, NEW t \in pool, Mine(t) PROVE SendInv'
<1>1. /\ TypeOK /\ NetworkInv /\ t \in Transactions /\ t.nonce = Len(chain)
      /\ fork \in Nat /\ head \in Nat /\ head \in 0..MaxHead /\ MaxHead \in Nat
      /\ Len(chain) \in Nat /\ DOMAIN chain = 1..Len(chain) /\ chain \in Seq(Blocks)
  BY Typed DEF SendInv, TypeOK, Mine
<1>2. PICK ok \in BOOLEAN :
        chain' = Append(Deeper(chain), [tx |-> t, ok |-> ok, depth |-> 1, block |-> fork])
  BY DEF Mine
<1> DEFINE new == [tx |-> t, ok |-> ok, depth |-> 1, block |-> fork]
           c == Deeper(chain)
<1>3. new \in Blocks /\ new.tx = t /\ new.block = fork
  BY <1>1 DEF Blocks, TypeOK, SendAssumption
<1> HIDE DEF new, c
<1>4. /\ c \in Seq(Blocks) /\ Len(c) = Len(chain)
      /\ \A i \in 1..Len(chain) :
           /\ c[i].tx = chain[i].tx /\ c[i].ok = chain[i].ok /\ c[i].block = chain[i].block
           /\ chain[i].depth = Confirmations => c[i].depth = Confirmations
  BY <1>1, DeeperBlocks DEF c
<1>5. chain' = Append(c, new) BY <1>2 DEF c, new
<1>6. /\ chain' \in Seq(Blocks) /\ Len(chain') = Len(chain) + 1
      /\ \A i \in 1..Len(chain) : chain'[i] = c[i]
      /\ chain'[Len(chain) + 1] = new
  BY <1>1, <1>3, <1>4, <1>5, AppendProperties
<1>7. DOMAIN chain' = 1..(Len(chain) + 1) BY <1>6, LenProperties
<1>8. UNCHANGED <<effect, obligation, signer, control, windowOpen, fork, run, faults>>
      /\ pool' = pool \ {t} /\ head' \in 0..MaxHead
  BY <1>1 DEF Mine, database, NextHead
<1>9. TypeOK' BY <1>1, <1>6, <1>8 DEF TypeOK, control
<1>10. NetworkInv'
  <2>1. \A i \in 1..Len(chain) :
          /\ effect[chain'[i].tx.effect].tx = chain'[i].tx
          /\ chain'[i].tx.nonce + 1 = i /\ chain'[i].block <= fork
    BY <1>1, <1>4, <1>6 DEF NetworkInv
  <2>2. /\ effect[new.tx.effect].tx = new.tx /\ new.tx.nonce + 1 = Len(chain) + 1
        /\ new.block <= fork
    BY <1>1, <1>3 DEF NetworkInv
  <2>3. \A i \in DOMAIN chain' : i \in 1..Len(chain) \/ i = Len(chain) + 1
    BY <1>1, <1>7
  <2>4. \A i \in DOMAIN chain' :
          /\ effect[chain'[i].tx.effect].tx = chain'[i].tx
          /\ chain'[i].tx.nonce + 1 = i /\ chain'[i].block <= fork
    BY <1>6, <2>1, <2>2, <2>3
  <2>5. \A x \in pool' : effect[x.effect].tx = x BY <1>1, <1>8 DEF NetworkInv
  <2>6. fork' = fork /\ faults' = faults /\ fork - 1 <= faults BY <1>1, <1>8 DEF NetworkInv
  <2> QED BY <1>8, <2>4, <2>5, <2>6 DEF NetworkInv
<1>11. \A i \in 1..Len(chain') : i > Len(chain) => chain'[i].block = fork
  BY <1>1, <1>3, <1>6
<1>12. /\ \A x \in Transactions : Paid(x) => Paid(x)'
       /\ \A x \in Transactions, b \in Nat : Checked(x, b) => Checked(x, b)'
  BY <1>1, <1>4, <1>6, <1>8, <1>11, Grows
<1> QED BY <1>8, <1>9, <1>10, <1>12, NetworkMoves

LEMMA EmptyBlockKeeps ==
  ASSUME SendAssumption, SendInv, EmptyBlock PROVE SendInv'
<1>1. /\ TypeOK /\ NetworkInv /\ fork \in Nat
      /\ head \in Nat /\ head \in 0..MaxHead /\ MaxHead \in Nat
      /\ Len(chain) \in Nat /\ DOMAIN chain = 1..Len(chain) /\ chain \in Seq(Blocks)
  BY Typed DEF SendInv, TypeOK
<1>2. chain' = Deeper(chain) /\ head' \in 0..MaxHead BY <1>1 DEF EmptyBlock, NextHead
<1>3. /\ chain' \in Seq(Blocks) /\ Len(chain') = Len(chain)
      /\ \A i \in 1..Len(chain) :
           /\ chain'[i].tx = chain[i].tx /\ chain'[i].ok = chain[i].ok
           /\ chain'[i].block = chain[i].block
           /\ chain[i].depth = Confirmations => chain'[i].depth = Confirmations
  BY <1>1, <1>2, DeeperBlocks
<1>4. DOMAIN chain' = DOMAIN chain BY <1>1, <1>3, LenProperties
<1>5. UNCHANGED <<effect, obligation, signer, control, windowOpen, pool, fork, run, faults>>
  BY DEF EmptyBlock, database
<1>6. TypeOK' BY <1>1, <1>2, <1>3, <1>5 DEF TypeOK, control
<1>7. NetworkInv' BY <1>1, <1>3, <1>4, <1>5 DEF NetworkInv
<1>8. \A i \in 1..Len(chain') : i > Len(chain) => chain'[i].block = fork BY <1>1, <1>3
<1>9. /\ \A x \in Transactions : Paid(x) => Paid(x)'
      /\ \A x \in Transactions, b \in Nat : Checked(x, b) => Checked(x, b)'
  BY <1>1, <1>3, <1>5, <1>8, Grows
<1> QED BY <1>5, <1>6, <1>7, <1>9, NetworkMoves

LEMMA ReorganiseKeeps ==
  ASSUME SendAssumption, SendInv, Reorganise PROVE SendInv'
<1>1. /\ TypeOK /\ NetworkInv /\ fork \in Nat /\ faults \in Nat /\ MaxFaults \in Nat
      /\ Len(chain) \in Nat /\ DOMAIN chain = 1..Len(chain) /\ chain \in Seq(Blocks)
      /\ Len(chain) > 0 /\ faults < MaxFaults /\ fork' = fork + 1 /\ faults' = faults + 1
  BY Typed DEF SendInv, Reorganise
<1> DEFINE l == Len(chain)
<1>2. l \in 1..l /\ l - 1 \in Nat /\ chain[l] \in Blocks BY <1>1, Typed
<1>3. chain' = SubSeq(chain, 1, l - 1) BY DEF Reorganise, Front
<1>4. /\ chain' \in Seq(Blocks) /\ Len(chain') = l - 1
      /\ \A i \in 1..(l - 1) : chain'[i] = chain[i]
  <2>1. \A i \in 1..(l - 1) : i \in 1..l /\ chain[i] \in Blocks BY <1>1, Typed
  <2> QED BY <1>1, <1>2, <1>3, <2>1
<1>5. DOMAIN chain' = 1..(l - 1) BY <1>4, LenProperties
<1>6. chain[l].depth # Confirmations
  <2>1. Last(chain) = chain[l] BY DEF Last
  <2>2. chain[l].depth < Confirmations /\ chain[l].depth \in Nat
    BY <1>2, <2>1, Fields DEF Reorganise
  <2> QED BY <2>2 DEF SendAssumption
<1>7. /\ UNCHANGED <<effect, obligation, signer, control, windowOpen, head, run>>
      /\ pool' \in {pool, pool \cup {chain[l].tx}}
  BY DEF Reorganise, database, Last
<1>8. chain[l].tx \in Transactions /\ effect[chain[l].tx.effect].tx = chain[l].tx
  BY <1>1, <1>2, Fields DEF NetworkInv
<1>9. fork - 1 <= faults BY <1>1 DEF NetworkInv
<1>10. fork' \in 1..(MaxFaults + 1) /\ faults' \in 0..MaxFaults /\ fork' - 1 <= faults'
  BY <1>1, <1>9
<1>11. pool' \subseteq Transactions /\ \A t \in pool' : effect[t.effect].tx = t
  BY <1>1, <1>7, <1>8 DEF TypeOK, NetworkInv
<1>12. TypeOK' BY <1>1, <1>4, <1>7, <1>10, <1>11 DEF TypeOK, control
<1>13. NetworkInv'
  <2>1. ASSUME NEW i \in DOMAIN chain'
        PROVE  /\ i \in DOMAIN chain /\ chain'[i] = chain[i]
               /\ chain[i].block <= fork /\ chain[i].block \in Nat
    <3>1. i \in 1..(l - 1) /\ i \in 1..l BY <1>1, <1>2, <1>5
    <3>2. i \in DOMAIN chain /\ chain'[i] = chain[i] BY <1>1, <1>4, <3>1
    <3>3. chain[i] \in Blocks BY <1>1, <3>1, Typed
    <3>4. chain[i].block \in 1..(MaxFaults + 1) BY <3>3 DEF Blocks
    <3>5. chain[i].block \in Nat BY <1>1, <3>4
    <3> QED BY <1>1, <3>2, <3>5 DEF NetworkInv
  <2>2. \A i \in DOMAIN chain' : chain'[i].block <= fork' BY <1>1, <2>1
  <2>3. \A i \in DOMAIN chain' :
          effect'[chain'[i].tx.effect].tx = chain'[i].tx /\ chain'[i].tx.nonce + 1 = i
    BY <1>1, <1>7, <2>1 DEF NetworkInv
  <2>4. \A t \in pool' : effect'[t.effect].tx = t BY <1>7, <1>11
  <2> QED BY <1>10, <2>2, <2>3, <2>4 DEF NetworkInv
<1>14. ASSUME NEW t \in Transactions, Paid(t) PROVE Paid(t)'
  <2>1. t.nonce + 1 \in 1..(l - 1)
    BY <1>1, <1>6, <1>14, Fields DEF Paid, OnChain
  <2> QED BY <1>4, <1>5, <1>14, <2>1 DEF Paid, OnChain
<1>15. ASSUME NEW t \in Transactions, NEW b \in Nat, Checked(t, b) PROVE Checked(t, b)'
  <2>1. b \in 1..fork' /\ b < fork' BY <1>1, <1>15 DEF Checked
  <2>2. ASSUME OnChain(t)'
        PROVE  /\ OnChain(t)
               /\ chain'[t.nonce + 1] = chain[t.nonce + 1]
    <3>1. t.nonce + 1 \in 1..(l - 1) /\ chain'[t.nonce + 1].tx = t
      BY <1>5, <2>2 DEF OnChain
    <3>2. t.nonce + 1 \in 1..l BY <1>1, <3>1
    <3> QED BY <1>1, <1>4, <3>1, <3>2 DEF OnChain
  <2> QED BY <1>15, <2>1, <2>2 DEF Checked
<1> QED BY <1>7, <1>12, <1>13, <1>14, <1>15, NetworkMoves

LEMMA DropKeeps ==
  ASSUME SendAssumption, SendInv, NEW t \in pool, Drop(t) PROVE SendInv'
<1>1. /\ TypeOK /\ NetworkInv /\ fork \in Nat /\ faults \in Nat /\ MaxFaults \in Nat
      /\ faults' = faults + 1 /\ faults < MaxFaults /\ pool' = pool \ {t}
      /\ UNCHANGED <<effect, obligation, signer, control, windowOpen, chain, head, fork, run>>
  BY Typed DEF SendInv, Drop, database
<1>2. faults' \in 0..MaxFaults BY <1>1
<1>3. TypeOK' BY <1>1, <1>2 DEF TypeOK, control
<1>4. NetworkInv'
  <2>1. fork - 1 <= faults BY <1>1 DEF NetworkInv
  <2>2. fork' - 1 <= faults' BY <1>1, <2>1
  <2> QED BY <1>1, <2>2 DEF NetworkInv
<1>5. /\ \A x \in Transactions : Paid(x) => Paid(x)'
      /\ \A x \in Transactions, b \in Nat : Checked(x, b) => Checked(x, b)'
  BY <1>1 DEF Paid, Checked, OnChain
<1> QED BY <1>1, <1>3, <1>4, <1>5, NetworkMoves

LEMMA SendKeeps ==
  ASSUME SendAssumption, SendInv, NEW w \in Workers, Send(w) PROVE SendInv'
<1> DEFINE t == run[w].tx
<1>1. /\ TypeOK /\ EffectInv /\ NetworkInv /\ RunInv(w) /\ run[w] \in Runs
      /\ fork \in Nat /\ faults \in Nat /\ MaxFaults \in Nat /\ faults \in 0..MaxFaults
  BY Typed DEF SendInv, TypeOK
<1>2. /\ run[w].e \in Effects /\ t # None /\ effect[run[w].e].tx = t
  BY <1>1 DEF RunInv, Send
<1>3. t \in Transactions /\ effect[t.effect].tx = t
  BY <1>1, <1>2, Fields DEF EffectInv
<1>4. PICK pc \in {"recordAccepted", "recordUncertain"} :
        /\ Goto(w, pc) /\ pool' \in {pool, pool \cup {t}}
        /\ faults' \in {faults, faults + 1} /\ faults' <= MaxFaults
        /\ UNCHANGED <<effect, obligation, signer, control, windowOpen, chain, head, fork>>
  BY <1>1 DEF Send, database
<1>5. faults' \in 0..MaxFaults /\ faults <= faults' BY <1>1, <1>4
<1>6. /\ run' \in [Workers -> Runs] /\ run'[w] = [run[w] EXCEPT !.pc = pc]
      /\ \A v \in Workers \ {w} : run'[v] = run[v]
  BY <1>1, <1>4, PcMoves DEF Steps
<1>7. run'[w].pc = pc /\ run'[w].e = run[w].e /\ run'[w].tx = t
  BY <1>1, <1>6 DEF Runs
<1>8. RunInv(w)' BY <1>2, <1>4, <1>7 DEF RunInv
<1>9. TypeOK' BY <1>1, <1>3, <1>4, <1>5, <1>6 DEF TypeOK, control
<1>10. NetworkInv'
  <2>1. fork - 1 <= faults BY <1>1 DEF NetworkInv
  <2>2. fork' - 1 <= faults' BY <1>1, <1>4, <1>5, <2>1
  <2>3. \A x \in pool' : effect'[x.effect].tx = x BY <1>1, <1>3, <1>4 DEF NetworkInv
  <2> QED BY <1>1, <1>4, <2>2, <2>3 DEF NetworkInv
<1>11. /\ \A x \in Transactions : Paid(x) => Paid(x)'
       /\ \A x \in Transactions, b \in Nat : Checked(x, b) => Checked(x, b)'
  BY <1>4 DEF Paid, Checked, OnChain
<1> QED BY <1>4, <1>6, <1>8, <1>9, <1>10, <1>11, NetworkMoves

LEMMA SendInvKept ==
  ASSUME SendAssumption, SendInv, [Next]_vars PROVE SendInv'
<1>1. CASE \E w \in Workers : Step(w) \/ Abandon(w) \/ BlockUnavailable(w)
  <2> PICK w \in Workers : Step(w) \/ Abandon(w) \/ BlockUnavailable(w) BY <1>1
  <2> QED BY ReserveKeeps, AsksKeep, PrepareKeeps, SendKeeps, RecordsKeep, ChecksKeep DEF Step
<1>2. CASE \E w \in Workers, e \in Effects :
             Observe(w, e) \/ Resume(w, e) \/ ReadReceipt(w, e) \/ ClosePurchase(w, e)
  BY <1>2, ObservesKeep
<1>3. CASE \E e \in Effects : ReleaseUnsigned(e) BY <1>3, ReleaseKeeps
<1>4. CASE \E t \in pool : Mine(t) \/ Drop(t) BY <1>4, MineKeeps, DropKeeps
<1>5. CASE EmptyBlock \/ Reorganise BY <1>5, EmptyBlockKeeps, ReorganiseKeeps
<1> QED BY <1>1, <1>2, <1>3, <1>4, <1>5, ControlKeeps DEF Next

LEMMA Invariance == ASSUME SendAssumption PROVE Spec => []SendInv
<1>1. Init => SendInv BY InitInv
<1>2. SendInv /\ [Next]_vars => SendInv' BY SendInvKept
<1> QED BY <1>1, <1>2, PTL DEF Spec

----------------------------------------------------------------------------
\* What holds in every state.

(* Every variable keeps its type, the nonces within the effects among them. *)
THEOREM TypeCorrect == ASSUME SendAssumption PROVE Spec => []TypeOK
<1>1. SendInv => TypeOK BY DEF SendInv
<1> QED BY <1>1, Invariance, PTL

(* Whatever the pool or the chain holds was stored first.                  *)
THEOREM SentIsAlwaysStored == ASSUME SendAssumption PROVE Spec => []SentIsStored
<1>1. SendInv => SentIsStored BY NetworkIsStored DEF SendInv, SentIsStored
<1> QED BY <1>1, Invariance, PTL

(* The row gives every nonce to exactly one effect.                        *)
THEOREM NoncesHaveOneOwner == ASSUME SendAssumption PROVE Spec => []EveryNonceHasOneOwner
<1>1. ASSUME SendInv, NEW n \in 0..(signer.next - 1)
      PROVE  Cardinality({e \in Effects : effect[e].nonce = n}) = 1
  <2>1. PICK f \in Effects : effect[f].nonce = n BY <1>1 DEF SendInv, NonceInv
  <2>2. effect[f].nonce # None BY <1>1, <2>1 DEF SendAssumption
  <2>3. {e \in Effects : effect[e].nonce = n} = {f}
    BY <1>1, <2>1, <2>2 DEF SendInv, NonceInv
  <2> QED BY <2>3, FS_Singleton
<1>2. SendInv => EveryNonceHasOneOwner BY <1>1 DEF EveryNonceHasOneOwner
<1> QED BY <1>2, Invariance, PTL

(* What is settled was paid and stays paid.                                *)
THEOREM SettledIsAlwaysPaid == ASSUME SendAssumption PROVE Spec => []SettledIsPaid
<1>1. SendInv => SettledIsPaid
  BY DEF SendInv, EffectInv, ConfirmedInv, Paid, OnChain, SettledIsPaid
<1> QED BY <1>1, Invariance, PTL

(* What is owed or given up has nothing on the network.                    *)
THEOREM ReleasedIsAlwaysUnsent == ASSUME SendAssumption PROVE Spec => []ReleasedIsUnsent
<1>1. ASSUME SendInv, NEW e \in Effects, obligation[e] \in {"owed", "closed"},
             NEW t \in Network, t.effect = e
      PROVE  FALSE
  <2>1. effect[e].tx = None BY <1>1 DEF SendInv, EffectInv
  <2>2. t \in Transactions /\ effect[e].tx = t BY <1>1, NetworkIsStored DEF SendInv
  <2> QED BY <2>1, <2>2 DEF SendAssumption
<1>2. SendInv => ReleasedIsUnsent BY <1>1 DEF ReleasedIsUnsent
<1> QED BY <1>2, Invariance, PTL

----------------------------------------------------------------------------
\* What a step may do while the authority is gone.

Quiet == UNCHANGED <<effect, signer, pool, chain>>

(* Only these steps touch the nonces, the signatures or the network.       *)
LEMMA Touching ==
  ASSUME [Next]_vars
  PROVE  \/ Quiet
         \/ \E w \in Workers : \/ Reserve(w) \/ Prepare(w) \/ Send(w)
                               \/ Record(w) \/ RequireReconciliation(w) \/ Confirm(w)
         \/ \E e \in Effects : ReleaseUnsigned(e)
         \/ \E t \in pool : Mine(t) \/ Drop(t)
         \/ EmptyBlock \/ Reorganise
<1>1. ASSUME NEW w \in Workers, Step(w) \/ Abandon(w) \/ BlockUnavailable(w)
      PROVE  \/ Quiet \/ Reserve(w) \/ Prepare(w) \/ Send(w)
             \/ Record(w) \/ RequireReconciliation(w) \/ Confirm(w)
  BY <1>1 DEF Step, Abandon, BlockUnavailable, AskToSign, FindLanded, AskToSend, CheckBlock,
     Refused, Quiet, database, node
<1>2. ASSUME NEW w \in Workers, NEW e \in Effects,
             Observe(w, e) \/ Resume(w, e) \/ ReadReceipt(w, e) \/ ClosePurchase(w, e)
      PROVE  Quiet
  BY <1>2 DEF Observe, Resume, ReadReceipt, ClosePurchase, Quiet, database, node
<1>3. ASSUME SetPaused \/ PauseOnLeaseExpiry \/ AcquireLease \/ LeaseEnds \/ WindowCloses
             \/ UNCHANGED vars
      PROVE  Quiet
  BY <1>3 DEF SetPaused, PauseOnLeaseExpiry, AcquireLease, LeaseEnds, WindowCloses, vars,
     Quiet, database, node
<1> QED BY <1>1, <1>2, <1>3 DEF Next

(* A record moves the state of its effect, neither nonce nor signature.    *)
LEMMA RecordsTouchStates ==
  ASSUME TypeOK, NEW w \in Workers, Record(w) \/ RequireReconciliation(w) \/ Confirm(w)
  PROVE  /\ UNCHANGED <<signer, pool, chain>>
         /\ \A e \in Effects : effect'[e].tx = effect[e].tx
<1> DEFINE e == run[w].e
<1>1. PICK s : effect' = effect \/ effect' = [effect EXCEPT ![e].state = s]
  BY DEF Record, RequireReconciliation, Confirm
<1>2. effect \in [Effects -> [state : States, nonce : Nonces \cup {None},
                              tx : Transactions \cup {None}]]
  BY DEF TypeOK, Rows
<1>3. \A f \in Effects : effect'[f].tx = effect[f].tx BY <1>1, <1>2
<1>4. UNCHANGED <<signer, pool, chain>> BY DEF Record, RequireReconciliation, Confirm, node
<1> QED BY <1>3, <1>4

(* Without a required authority no nonce is given, no signature stored, and *)
(* nothing sent that was not asked for before, or mined before.            *)
THEOREM HaltIsAlwaysACutOver == ASSUME SendAssumption PROVE Spec => HaltIsACutOver
<1> DEFINE Cut == /\ signer'.next <= signer.next
                  /\ \A e \in Effects : effect'[e].tx \in {effect[e].tx, None}
                  /\ \A t \in pool' \ pool :
                       \/ t \in Mined
                       \/ \E w \in Workers : run[w].pc = "send" /\ run[w].tx = t
<1>1. ASSUME SendInv, [Next]_vars, ~Authority PROVE Cut
  <2>1. TypeOK /\ signer.next \in Nat BY <1>1, Typed DEF SendInv
  <2>2. CASE Quiet BY <2>1, <2>2 DEF Quiet
  <2>3. ASSUME NEW w \in Workers PROVE ~Reserve(w) /\ ~Prepare(w)
    BY <1>1 DEF Reserve, CanReserve, Admission, Authority, Prepare, CanPrepare
  <2>4. ASSUME NEW w \in Workers, Send(w) PROVE Cut
    <3>1. UNCHANGED <<effect, signer>> /\ pool' \subseteq pool \cup {run[w].tx}
          /\ run[w].pc = "send"
      BY <2>4 DEF Send, database
    <3> QED BY <2>1, <3>1
  <2>5. ASSUME NEW w \in Workers, Record(w) \/ RequireReconciliation(w) \/ Confirm(w) PROVE Cut
    BY <2>1, <2>5, RecordsTouchStates
  <2>6. ASSUME NEW e \in Effects, ReleaseUnsigned(e) PROVE Cut
    <3>1. effect[e] \in Rows /\ effect \in [Effects -> Rows] BY <2>1, Typed DEF TypeOK
    <3>2. /\ effect[e].nonce \in Nat /\ signer.next = effect[e].nonce + 1
          /\ signer'.next = effect[e].nonce /\ pool' = pool
          /\ effect' = [effect EXCEPT ![e] = [state |-> "terminal_failed",
                                              nonce |-> None, tx |-> None]]
      BY <1>1, <2>1, <2>6, <3>1, Fields DEF ReleaseUnsigned, Unsigned, SendInv, EffectInv, node
    <3> QED BY <3>1, <3>2
  <2>7. ASSUME NEW t \in pool, Mine(t) \/ Drop(t) PROVE Cut
    BY <2>1, <2>7 DEF Mine, Drop, database
  <2>8. CASE EmptyBlock BY <2>1, <2>8 DEF EmptyBlock, database
  <2>9. CASE Reorganise
    <3>1. UNCHANGED <<effect, signer>> /\ pool' \subseteq pool \cup {Last(chain).tx}
      BY <2>9 DEF Reorganise, database
    <3>2. Len(chain) \in DOMAIN chain BY <2>1, <2>9, Typed DEF Reorganise
    <3>3. Last(chain).tx \in Mined BY <3>2 DEF Last, Mined
    <3> QED BY <2>1, <3>1, <3>3
  <2> QED BY <1>1, <2>2, <2>3, <2>4, <2>5, <2>6, <2>7, <2>8, <2>9, Touching
<1> DEFINE Halt == ~Authority /\ ~Authority' => Cut
<1>2. SendInv /\ [Next]_vars => [Halt]_vars BY <1>1
<1>3. Spec => [][Halt]_vars BY <1>2, Invariance, PTL DEF Spec
<1> QED BY <1>3 DEF HaltIsACutOver

----------------------------------------------------------------------------
\* RewardSend implements SendOnce.

Confirmed == {e \in Effects : effect[e].state = "confirmed"}

(* A step that moves neither signature, network nor confirmation.          *)
LEMMA Stutters ==
  ASSUME \A e \in Effects : effect'[e].tx = effect[e].tx, Network' = Network,
         Confirmed' = Confirmed
  PROVE  UNCHANGED Sends!vars
BY DEF Sends!vars, Confirmed

LEMMA InitRefines == ASSUME SendAssumption, Init PROVE Sends!Init
<1>1. chain = <<>> /\ DOMAIN chain = {} /\ pool = {} BY EmptySeq DEF Init
<1>2. Network = {} BY <1>1 DEF Network, Mined
<1> QED BY <1>2 DEF Init, Sends!Init, NoEffect

LEMMA WorkerRefines ==
  ASSUME SendAssumption, SendInv, NEW w \in Workers,
         Prepare(w) \/ Send(w) \/ Record(w) \/ RequireReconciliation(w) \/ Confirm(w)
  PROVE  [Sends!Next]_(Sends!vars)
<1>1. /\ TypeOK /\ EffectInv /\ NonceInv /\ NetworkInv /\ RunInv(w) /\ effect \in [Effects -> Rows]
  BY DEF SendInv, TypeOK
<1>2. PICK e \in Effects : e = run[w].e /\ effect[e] \in Rows
  BY <1>1, Typed DEF RunInv, Prepare, Send, Record, RequireReconciliation, Confirm
<1>3. CASE Prepare(w)
  <2>1. PICK f \in Fees :
          effect' = [effect EXCEPT ![e].state = "prepared",
                       ![e].tx = [effect |-> e, nonce |-> run[w].nonce, fee |-> f]]
    BY <1>2, <1>3 DEF Prepare
  <2>2. /\ effect[e].state = "nonce_reserved" /\ effect[e].nonce = run[w].nonce
        /\ run[w].nonce \in Nonces /\ None \notin Nonces
    BY <1>1, <1>2, <1>3, Typed, Fields, NoncesAreNats DEF Prepare, CanPrepare, SendAssumption
  <2>3. [effect |-> e, nonce |-> run[w].nonce, fee |-> f] \in Transactions
    BY <1>2, <2>2 DEF Transactions
  <2>4. PICK t \in Transactions : t = [effect |-> e, nonce |-> run[w].nonce, fee |-> f]
    BY <2>3
  <2>5. t.effect = e /\ t.nonce = run[w].nonce BY <2>4
  <2> DEFINE row == [effect[e] EXCEPT !.state = "prepared", !.tx = t]
  <2>6. effect[e].tx = None BY <1>1, <1>2, <2>2 DEF EffectInv
  <2>7. effect' = [effect EXCEPT ![e] = row] BY <2>1, <2>4
  <2>8. row.tx = t /\ row.state = "prepared" BY <1>2 DEF Rows
  <2> HIDE DEF row
  <2>9. effect'[e] = row /\ \A p \in Effects \ {e} : effect'[p] = effect[p]
    BY <1>1, <1>2, <2>7
  <2>10. Confirmed' = Confirmed BY <2>2, <2>8, <2>9 DEF Confirmed
  <2>11. Network' = Network BY <1>3 DEF Prepare, node, Network, Mined
  <2>12. \A p \in Effects : effect[p].tx # None => effect[p].tx.nonce # t.nonce
    BY <1>1, <1>2, <2>2, <2>5, <2>6 DEF EffectInv, NonceInv
  <2>13. [p \in Effects |-> effect'[p].tx] = [[p \in Effects |-> effect[p].tx] EXCEPT ![e] = t]
    BY <1>2, <2>8, <2>9
  <2>14. Sends!Choose(e, t) BY <1>2, <2>5, <2>6, <2>10, <2>11, <2>12, <2>13
                            DEF Sends!Choose, Confirmed
  <2> QED BY <1>2, <2>5, <2>14 DEF Sends!Next
<1>4. CASE Send(w)
  <2>1. effect[e].tx = run[w].tx /\ run[w].tx # None BY <1>1, <1>2, <1>4 DEF RunInv, Send
  <2>2. UNCHANGED <<effect, chain>> /\ pool' \in {pool, pool \cup {run[w].tx}}
    BY <1>4 DEF Send, database
  <2>3. Network' \in {Network, Network \cup {run[w].tx}} BY <2>2 DEF Network, Mined
  <2>4. Confirmed' = Confirmed BY <2>2 DEF Confirmed
  <2>5. CASE Network' = Network BY <2>2, <2>4, <2>5, Stutters
  <2>6. CASE Network' = Network \cup {run[w].tx}
    <3>1. Sends!Send(e) BY <1>2, <2>1, <2>2, <2>4, <2>6 DEF Sends!Send, Confirmed
    <3> QED BY <1>2, <3>1 DEF Sends!Next
  <2> QED BY <2>3, <2>5, <2>6
<1>5. ASSUME NEW s, effect' = [effect EXCEPT ![e].state = s]
      PROVE  /\ effect'[e].state = s /\ effect'[e].tx = effect[e].tx
             /\ \A p \in Effects \ {e} : effect'[p] = effect[p]
  BY <1>1, <1>2, <1>5 DEF Rows
<1>6. CASE Record(w) \/ RequireReconciliation(w)
  <2>1. Network' = Network BY <1>6 DEF Record, RequireReconciliation, node, Network, Mined
  <2>2. CASE effect' = effect BY <2>1, <2>2, Stutters DEF Confirmed
  <2>3. CASE effect' # effect
    <3>1. PICK s \in {"broadcast_pending", "reconciliation_required"} :
            effect' = [effect EXCEPT ![e].state = s]
      BY <1>2, <1>6, <2>3 DEF Record, RequireReconciliation
    <3>2. effect[e].state # "confirmed"
      BY <1>2, <1>6, <2>3 DEF Record, CanRecord, RequireReconciliation
    <3>3. Confirmed' = Confirmed BY <1>5, <3>1, <3>2 DEF Confirmed
    <3> QED BY <1>5, <2>1, <3>1, <3>3, Stutters
  <2> QED BY <2>2, <2>3
<1>7. CASE Confirm(w)
  <2>1. Network' = Network BY <1>7 DEF Confirm, node, Network, Mined
  <2>2. CASE effect' = effect BY <2>1, <2>2, Stutters DEF Confirmed
  <2>3. CASE effect' # effect
    <3>1. effect' = [effect EXCEPT ![e].state = "confirmed"] BY <1>2, <1>7, <2>3 DEF Confirm
    <3>2. Confirmed' = Confirmed \cup {e} BY <1>2, <1>5, <3>1 DEF Confirmed
    <3>3. effect[e].tx # None /\ effect[e].tx = run[w].tx /\ Paid(run[w].tx)
      BY <1>1, <1>2, <1>7 DEF RunInv, Confirm
    <3>4. run[w].tx \in Network BY <3>3 DEF Paid, OnChain, Network, Mined
    <3>5. [p \in Effects |-> effect'[p].tx] = [p \in Effects |-> effect[p].tx]
      BY <1>5, <3>1
    <3>6. Sends!Settle(e) BY <1>2, <2>1, <3>2, <3>3, <3>4, <3>5 DEF Sends!Settle, Confirmed
    <3> QED BY <1>2, <3>6 DEF Sends!Next
  <2> QED BY <2>2, <2>3
<1> QED BY <1>3, <1>4, <1>6, <1>7

(* A row without a signature was given, or given up.                       *)
LEMMA RowRefines ==
  ASSUME SendAssumption, SendInv,
         \/ \E w \in Workers : Reserve(w)
         \/ \E e \in Effects : ReleaseUnsigned(e)
  PROVE  UNCHANGED Sends!vars
<1>1. /\ TypeOK /\ EffectInv /\ effect \in [Effects -> Rows] /\ \A w \in Workers : RunInv(w)
  BY DEF SendInv, TypeOK
<1>2. ASSUME NEW e \in Effects, NEW row, effect' = [effect EXCEPT ![e] = row],
             UNCHANGED <<pool, chain>>, effect[e].tx = None, row.tx = None,
             effect[e].state # "confirmed", row.state # "confirmed"
      PROVE  UNCHANGED Sends!vars
  <2>1. effect'[e] = row /\ \A f \in Effects \ {e} : effect'[f] = effect[f] BY <1>1, <1>2
  <2>2. Confirmed' = Confirmed BY <1>2, <2>1 DEF Confirmed
  <2>3. Network' = Network BY <1>2 DEF Network, Mined
  <2> QED BY <1>2, <2>1, <2>2, <2>3, Stutters
<1>3. ASSUME NEW w \in Workers, Reserve(w) PROVE UNCHANGED Sends!vars
  <2> DEFINE e == run[w].e
             row == [state |-> "nonce_reserved", nonce |-> NextNonce(w), tx |-> None]
  <2>1. e \in Effects BY <1>1, <1>3 DEF RunInv, Reserve
  <2>2. effect' = [effect EXCEPT ![e] = row] /\ UNCHANGED <<pool, chain>>
    BY <1>3 DEF Reserve, node
  <2>3. effect[e].state = "absent" BY <1>3 DEF Reserve, CanReserve
  <2>4. effect[e].tx = None BY <1>1, <2>1, <2>3 DEF EffectInv
  <2>5. row.tx = None /\ row.state = "nonce_reserved" OBVIOUS
  <2> HIDE DEF row, e
  <2> QED BY <1>2, <2>1, <2>2, <2>3, <2>4, <2>5
<1>4. ASSUME NEW e \in Effects, ReleaseUnsigned(e) PROVE UNCHANGED Sends!vars
  <2> DEFINE row == [state |-> "terminal_failed", nonce |-> None, tx |-> None]
  <2>1. effect' = [effect EXCEPT ![e] = row] /\ UNCHANGED <<pool, chain>>
    BY <1>4 DEF ReleaseUnsigned, node
  <2>2. effect[e].state = "nonce_reserved" BY <1>4 DEF ReleaseUnsigned, Unsigned
  <2>3. effect[e].tx = None BY <1>1, <2>2 DEF EffectInv
  <2>4. row.tx = None /\ row.state = "terminal_failed" OBVIOUS
  <2> HIDE DEF row
  <2> QED BY <1>2, <2>1, <2>2, <2>3, <2>4
<1> QED BY <1>3, <1>4

(* The network forgets only what nothing rests on.                         *)
LEMMA NodeRefines ==
  ASSUME SendAssumption, SendInv,
         \/ \E t \in pool : Mine(t) \/ Drop(t)
         \/ EmptyBlock \/ Reorganise
  PROVE  [Sends!Next]_(Sends!vars)
<1>1. /\ TypeOK /\ NetworkInv /\ ConfirmedInv /\ pool \subseteq Transactions
      /\ Len(chain) \in Nat /\ DOMAIN chain = 1..Len(chain) /\ chain \in Seq(Blocks)
  BY Typed DEF SendInv, TypeOK
<1>2. effect' = effect BY DEF Mine, Drop, EmptyBlock, Reorganise, database
<1>3. ASSUME Network' = Network PROVE UNCHANGED Sends!vars
  BY <1>2, <1>3, Stutters DEF Confirmed
<1>4. ASSUME NEW t \in Transactions, t \in Network, Network' = Network \ {t}, ~Paid(t)
      PROVE  Sends!Next
  <2>1. effect[t.effect].tx = t BY <1>1, <1>4, NetworkIsStored
  <2>2. t.effect \notin Confirmed BY <1>1, <1>4, <2>1 DEF Confirmed, ConfirmedInv
  <2>3. Sends!Forget(t) BY <1>2, <1>4, <2>2 DEF Sends!Forget, Confirmed
  <2> QED BY <1>4, <2>3 DEF Sends!Next
<1>5. ASSUME NEW t \in pool, Mine(t) PROVE Network' = Network
  <2>1. PICK b : chain' = Append(Deeper(chain), b) /\ b \in Blocks /\ b.tx = t
    <3>1. PICK ok \in BOOLEAN :
            chain' = Append(Deeper(chain), [tx |-> t, ok |-> ok, depth |-> 1, block |-> fork])
      BY <1>5 DEF Mine
    <3>2. [tx |-> t, ok |-> ok, depth |-> 1, block |-> fork] \in Blocks
      BY <1>1 DEF Blocks, TypeOK, SendAssumption
    <3> QED BY <3>1, <3>2
  <2>2. /\ Deeper(chain) \in Seq(Blocks) /\ Len(Deeper(chain)) = Len(chain)
        /\ \A i \in 1..Len(chain) : Deeper(chain)[i].tx = chain[i].tx
    BY <1>1, DeeperBlocks
  <2>3. /\ chain' \in Seq(Blocks) /\ Len(chain') = Len(chain) + 1
        /\ \A i \in 1..Len(chain) : chain'[i].tx = chain[i].tx
        /\ chain'[Len(chain) + 1].tx = t
    BY <2>1, <2>2, AppendProperties
  <2>4. DOMAIN chain' = 1..(Len(chain) + 1) BY <2>3, LenProperties
  <2>5. Mined' = Mined \cup {t}
    <3>1. \A i \in DOMAIN chain' : i \in 1..Len(chain) \/ i = Len(chain) + 1
      BY <1>1, <2>4
    <3>2. 1..Len(chain) \subseteq DOMAIN chain' /\ Len(chain) + 1 \in DOMAIN chain'
      BY <1>1, <2>4
    <3> QED BY <1>1, <2>3, <3>1, <3>2 DEF Mined
  <2>6. pool' = pool \ {t} BY <1>5 DEF Mine
  <2> QED BY <2>5, <2>6 DEF Network
<1>6. ASSUME EmptyBlock PROVE Network' = Network
  <2>1. chain' = Deeper(chain) /\ pool' = pool BY <1>6 DEF EmptyBlock
  <2>2. /\ chain' \in Seq(Blocks) /\ Len(chain') = Len(chain)
        /\ \A i \in 1..Len(chain) : chain'[i].tx = chain[i].tx
    BY <1>1, <2>1, DeeperBlocks
  <2>3. DOMAIN chain' = DOMAIN chain BY <1>1, <2>2, LenProperties
  <2>4. Mined' = Mined BY <1>1, <2>2, <2>3 DEF Mined
  <2> QED BY <2>1, <2>4 DEF Network
<1>7. ASSUME NEW t \in pool, Drop(t) PROVE [Sends!Next]_(Sends!vars)
  <2>1. t \in Transactions /\ t \in Network BY <1>1 DEF Network
  <2>2. pool' = pool \ {t} /\ Mined' = Mined BY <1>7 DEF Drop, Mined
  <2>3. CASE t \in Mined BY <1>3, <2>2, <2>3 DEF Network
  <2>4. CASE t \notin Mined
    <3>1. ~Paid(t) BY <1>1, <2>1, <2>4, MinedIsOnChain DEF Paid
    <3>2. Network' = Network \ {t} BY <2>2, <2>4 DEF Network
    <3> QED BY <1>4, <2>1, <3>1, <3>2
  <2> QED BY <2>3, <2>4
<1>8. ASSUME Reorganise PROVE [Sends!Next]_(Sends!vars)
  <2> DEFINE l == Len(chain)
             t == chain[l].tx
  <2>1. /\ l > 0 /\ l \in 1..l /\ l - 1 \in Nat /\ chain[l] \in Blocks
        /\ chain' = SubSeq(chain, 1, l - 1)
        /\ pool' \in {pool, pool \cup {t}}
    BY <1>1, <1>8, Typed DEF Reorganise, Front, Last
  <2>2. \A i \in 1..(l - 1) : i \in 1..l /\ chain[i] \in Blocks BY <1>1, <2>1, Typed
  <2>3. /\ chain' \in Seq(Blocks) /\ Len(chain') = l - 1
        /\ \A i \in 1..(l - 1) : chain'[i] = chain[i]
    BY <1>1, <2>1, <2>2
  <2>4. DOMAIN chain' = 1..(l - 1) BY <2>3, LenProperties
  <2>5. Mined = Mined' \cup {t}
    <3>1. \A i \in DOMAIN chain : i \in 1..(l - 1) \/ i = l BY <1>1, <2>1
    <3> QED BY <1>1, <2>1, <2>2, <2>3, <2>4, <3>1 DEF Mined
  <2>6. t \notin Mined'
    <3> SUFFICES ASSUME NEW i \in 1..(l - 1), chain[i].tx = t PROVE FALSE
      BY <2>3, <2>4 DEF Mined
    <3>1. i \in DOMAIN chain /\ l \in DOMAIN chain /\ i # l
      <4>1. \A n \in Nat : \A m \in 1..(n - 1) : m # n OBVIOUS
      <4> QED BY <1>1, <2>1, <2>2, <4>1
    <3>2. chain[i].tx.nonce + 1 = i /\ chain[l].tx.nonce + 1 = l
      BY <1>1, <3>1 DEF NetworkInv
    <3> QED BY <3>1, <3>2
  <2>7. t \in Transactions /\ t \in Network BY <2>1, <2>5, Fields DEF Network
  <2>8. ~Paid(t)
    <3>1. t.nonce + 1 = l BY <1>1, <2>1 DEF NetworkInv
    <3>2. chain[l].depth < Confirmations /\ chain[l].depth \in Nat
      BY <1>8, <2>1, Fields DEF Reorganise, Last
    <3> QED BY <3>1, <3>2 DEF Paid, SendAssumption
  <2>9. CASE t \in pool' BY <1>3, <2>1, <2>5, <2>9 DEF Network
  <2>10. CASE t \notin pool'
    <3>1. Network' = Network \ {t} BY <2>1, <2>5, <2>6, <2>10 DEF Network
    <3> QED BY <1>4, <2>7, <2>8, <3>1
  <2> QED BY <2>9, <2>10
<1> QED BY <1>3, <1>5, <1>6, <1>7, <1>8

(* The cycles, the operator and the node together give each obligation one *)
(* transaction, send only that, and settle by it: RewardSend implements    *)
(* SendOnce.                                                               *)
THEOREM SendsOnce == ASSUME SendAssumption PROVE Spec => ImplementsSendOnce
<1>1. Init => Sends!Init BY InitRefines
<1>2. ASSUME SendInv, [Next]_vars PROVE [Sends!Next]_(Sends!vars)
  <2>1. CASE Quiet BY <2>1, Stutters DEF Quiet, Network, Mined, Confirmed
  <2>2. CASE ~Quiet
    BY <1>2, <2>2, Touching, WorkerRefines, RowRefines, NodeRefines
  <2> QED BY <2>1, <2>2
<1> QED BY <1>1, <1>2, Invariance, PTL DEF Spec, Sends!Spec, ImplementsSendOnce
=============================================================================
