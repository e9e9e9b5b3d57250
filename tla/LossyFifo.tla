----------------------------- MODULE LossyFifo -----------------------------
(***************************************************************************)
(* What an event forwarder promises its dashboard: events are received in  *)
(* the order they were emitted, each at most once; any of them may be lost.*)
(* Events are numbered in the order of their emission.                     *)
(***************************************************************************)
EXTENDS Naturals, SequencesExt

VARIABLES sent,     \* number of events emitted
          got       \* the events the receiver has seen

FifoInit == sent = 0 /\ got = <<>>

Send == sent' = sent + 1 /\ UNCHANGED got

\* Every event of the delivery is newer than all those before it.
InOrder(s) == \A i, j \in 1 .. Len(s) : i < j => s[i] < s[j]

Deliver ==
  /\ got' # got /\ IsPrefix(got, got')
  /\ InOrder(got')
  /\ ToSet(got') \subseteq 1 .. sent
  /\ UNCHANGED sent

FifoNext == Send \/ Deliver

FifoSpec == FifoInit /\ [][FifoNext]_<<sent, got>>

=============================================================================
