--------------------------- MODULE SessionOutcome ---------------------------
(***************************************************************************)
(* What a karaoke session is promised once it ends, without the object's   *)
(* outbox, alarm and retries, the sweep and the calls between them: it     *)
(* ends once, for one reason; Postgres records that reason and no other,   *)
(* and reconciles its recording only when it is over; what its object      *)
(* believes of Postgres is so, and is believed for good.                   *)
(* KaraokeFinalization implements it.                                      *)
(***************************************************************************)
CONSTANTS Sessions, Reasons

VARIABLES
  outcome,     \* why each session ended, or "none"
  recorded,    \* the reason Postgres has, or "none"
  reconciled,  \* the sessions whose recording Postgres has reconciled
  believed     \* pairs of a session and the half its object calls stored

vars == <<outcome, recorded, reconciled, believed>>

Halves == {"score", "recording"}

Init ==
  /\ outcome = [s \in Sessions |-> "none"]
  /\ recorded = [s \in Sessions |-> "none"]
  /\ reconciled = {} /\ believed = {}

End(s, r) ==
  /\ outcome[s] = "none"
  /\ outcome' = [outcome EXCEPT ![s] = r]
  /\ UNCHANGED <<recorded, reconciled, believed>>

Record(s) ==
  /\ outcome[s] # "none" /\ recorded[s] = "none"
  /\ recorded' = [recorded EXCEPT ![s] = outcome[s]]
  /\ UNCHANGED <<outcome, reconciled, believed>>

Reconcile(s) ==
  /\ outcome[s] # "none"
  /\ reconciled' = reconciled \cup {s}
  /\ UNCHANGED <<outcome, recorded, believed>>

Believe(s, half) ==
  /\ IF half = "score" THEN recorded[s] # "none" ELSE s \in reconciled
  /\ believed' = believed \cup {<<s, half>>}
  /\ UNCHANGED <<outcome, recorded, reconciled>>

Next ==
  \E s \in Sessions :
    \/ \E r \in Reasons : End(s, r)
    \/ Record(s) \/ Reconcile(s)
    \/ \E half \in Halves : Believe(s, half)

Spec == Init /\ [][Next]_vars
=============================================================================
