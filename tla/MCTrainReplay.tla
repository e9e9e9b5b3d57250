--------------------------- MODULE MCTrainReplay ---------------------------
(* Instances of TrainReplay. *)
EXTENDS TrainReplay

\* Two parameters of one leaf.
MCOneLeaf == <<"role", "rules">>

\* The same parameter of two leaves of a composite.
MCTwoLeaves == <<"role", "role">>

\* A batch trains the first of them, or none.
MCGives == {{}, {1}}

=============================================================================
