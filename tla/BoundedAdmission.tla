-------------------------- MODULE BoundedAdmission --------------------------
(***************************************************************************)
(* What an endpoint's concurrency gate promises its callers: at most Limit *)
(* of them are admitted at any time, and they come and go one at a time.   *)
(***************************************************************************)
EXTENDS Naturals, FiniteSets

CONSTANTS Caller, Limit

VARIABLE admitted

Admit(c) ==
  /\ c \notin admitted
  /\ Cardinality(admitted) < Limit
  /\ admitted' = admitted \cup {c}

Leave(c) ==
  /\ c \in admitted
  /\ admitted' = admitted \ {c}

\* A permit handed directly from a leaving caller to a waiting one.
HandOver(c, d) ==
  /\ c \in admitted /\ d \in Caller \ admitted
  /\ admitted' = (admitted \ {c}) \cup {d}

AdmissionInit == admitted = {}

AdmissionNext == \E c \in Caller : \/ Admit(c)
                                   \/ Leave(c)
                                   \/ \E d \in Caller : HandOver(c, d)

AdmissionSpec == AdmissionInit /\ [][AdmissionNext]_admitted

=============================================================================
