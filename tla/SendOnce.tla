------------------------------ MODULE SendOnce ------------------------------
(***************************************************************************)
(* What the custody signer's ledger promises, without workers, leases,     *)
(* retries or a brake: each obligation is given one transaction for good,  *)
(* no two obligations share a nonce, only given transactions reach the     *)
(* network, and an obligation is settled by its own transaction while that *)
(* is on the network.  RewardSend implements it.                           *)
(***************************************************************************)
EXTENDS Naturals

CONSTANTS Obligations, Transactions, Nobody
  \* Transactions is a set of records with the fields effect and nonce

VARIABLES
  choice,    \* the transaction each obligation was given, or Nobody
  sent,      \* the transactions the network holds, waiting or mined
  settled    \* the obligations that count as paid

vars == <<choice, sent, settled>>

Init ==
  /\ choice = [o \in Obligations |-> Nobody]
  /\ sent = {}
  /\ settled = {}

Choose(o, t) ==
  /\ choice[o] = Nobody
  /\ t.effect = o
  /\ \A p \in Obligations : choice[p] # Nobody => choice[p].nonce # t.nonce
  /\ choice' = [choice EXCEPT ![o] = t]
  /\ UNCHANGED <<sent, settled>>

Send(o) ==
  /\ choice[o] # Nobody
  /\ sent' = sent \cup {choice[o]}
  /\ UNCHANGED <<choice, settled>>

\* The network may forget a transaction, but not one that settled something.
Forget(t) ==
  /\ t \in sent
  /\ t.effect \notin settled
  /\ sent' = sent \ {t}
  /\ UNCHANGED <<choice, settled>>

Settle(o) ==
  /\ choice[o] # Nobody /\ choice[o] \in sent
  /\ settled' = settled \cup {o}
  /\ UNCHANGED <<choice, sent>>

Next ==
  \/ \E o \in Obligations : Send(o) \/ Settle(o)
  \/ \E o \in Obligations, t \in Transactions : Choose(o, t)
  \/ \E t \in Transactions : Forget(t)

Spec == Init /\ [][Next]_vars
=============================================================================
