---------------------------- MODULE WorkerLease ----------------------------
(***************************************************************************)
(* What the sandbox pool promises about its workers: each one is leased to *)
(* one call at a time, comes back free, and once dropped is never leased   *)
(* again.                                                                  *)
(***************************************************************************)
CONSTANTS Worker, Call

VARIABLE lease \* of each worker: "unborn", "free", "dropped" or a call

Spawned(w) == lease[w] = "unborn" /\ lease' = [lease EXCEPT ![w] = "free"]

Lease(w, c) ==
  /\ lease[w] = "free"
  /\ \A v \in Worker : lease[v] # c
  /\ lease' = [lease EXCEPT ![w] = c]

Return(w) == lease[w] \in Call /\ lease' = [lease EXCEPT ![w] = "free"]

Drop(w) == lease[w] # "unborn" /\ lease' = [lease EXCEPT ![w] = "dropped"]

LeaseInit == lease = [w \in Worker |-> "unborn"]

LeaseNext ==
  \E w \in Worker : Spawned(w) \/ Return(w) \/ Drop(w) \/ \E c \in Call : Lease(w, c)

LeaseSpec == LeaseInit /\ [][LeaseNext]_lease

=============================================================================
