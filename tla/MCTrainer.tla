----------------------------- MODULE MCTrainer -----------------------------
(* Instances of Trainer: two parameters of one kind, which share its rewriter. *)
EXTENDS Trainer, TLC

CONSTANTS p1, p2

MCTwoParams == {p1, p2}
MCOneKind == [p \in MCTwoParams |-> "role"]
MCSymmetry == Permutations({p1, p2})

=============================================================================
