--------------------------- MODULE MCSandboxPool ---------------------------
(* Instances of SandboxPool: one or two workers, two calls. *)
EXTENDS SandboxPool

CONSTANTS w1, w2, c1, c2

MCWorkers == {w1, w2}
MCOneWorker == {w1}
MCTwoCalls == {c1, c2}

=============================================================================
