------------------------------ MODULE MCResume ------------------------------
(* One schedule of each kind, a chain and a sequence of three parts. *)
EXTENDS Resume

Constant == [kind |-> "constant"]
Exponential == [kind |-> "exponential"]
Cosines == [kind |-> "cosine", over |-> "three"]
Warmup == [kind |-> "warmup", epochs |-> 2, final |-> 6]
Alone(s) == [mode |-> "single", parts |-> <<s>>, milestones |-> <<>>]

MCSchedules ==
  {Alone(s) : s \in {Constant, Exponential, Cosines, Warmup, [kind |-> "step", size |-> 2],
                     [kind |-> "multistep", milestones |-> <<1, 3>>]}}
  \cup {[mode |-> "chained", parts |-> <<Constant, Exponential>>, milestones |-> <<>>],
        [mode |-> "sequential", parts |-> <<Warmup, Exponential, Cosines>>, milestones |-> <<1, 3>>]}

=============================================================================
