----------------------------- MODULE MCTraining -----------------------------
(* Training, and the programs that show it: each is independent of the others; *)
(* the initial state picks the one that runs, and the others rest in an       *)
(* initial state of theirs.                                                    *)
EXTENDS MCDashboard, TrainingLauncher, JobFile, MCTrainer, Backprop, MCTrainReplay, MCResume, Fits, Uthereal

VARIABLE program

\* A root of three stages, one of them a Parallel of two leaves that share an
\* agent with the first, one a Router, one an agent that calls a leaf again and again.
MCUp == [q \in {"root", "stage", "fan", "left", "right", "loop", "again", "switch", "select", "branch"} |->
  CASE q \in {"left", "right"}    -> "fan"
    [] q = "again"                -> "loop"
    [] q \in {"select", "branch"} -> "switch"
    [] OTHER                      -> "root"]

MCSplit == [q \in DOMAIN MCUp |-> CASE q \in {"root", "fan", "loop"} -> "all"
                                    [] q = "switch"                  -> "router"
                                    [] OTHER                         -> "leaf"]

MCTrained == [q \in {r \in DOMAIN MCSplit : MCSplit[r] = "leaf"} |->
  CASE q \in {"stage", "right"} -> {"rule"}
    [] q = "left"               -> {"role", "task"}
    [] q = "again"              -> {"goal"}
    [] q = "branch"             -> {"style"}
    [] OTHER                    -> {}]

MCTapes == {<<"root", "stage", "fan", "left", "right">>,
            <<"root", "loop", "again", "loop", "again", "again", "stage">>,
            <<"root", "switch", "select", "branch">>}

\* A message over the limit; one that brings its workspace; one that does not.
MCEntries == {[says |-> "long",  inline |-> FALSE, online |-> FALSE],
              [says |-> "short", inline |-> TRUE,  online |-> TRUE],
              [says |-> "short", inline |-> FALSE, online |-> TRUE]}

MCInit ==
  /\ program \in {"dashboard", "launcher", "file", "fit", "backward", "replay", "resume", "fits", "loop"}
  /\ DashInit /\ LaunchInit /\ JobInit /\ Init /\ BackInit /\ ReplayInit /\ ResumeInit /\ FitsInit /\ LoopInit
  /\ program # "dashboard" => budget = CHOOSE b \in MCBudgets : TRUE
  /\ program # "file" => file = <<>>
  /\ program # "resume" => ~decays /\ schedule = CHOOSE s \in MCSchedules : TRUE
  /\ program # "fits" => ~drop
  /\ program # "loop" => dataset = CHOOSE e \in MCEntries : TRUE

MCNext ==
  \/ /\ program = "dashboard" /\ DashNext
     /\ UNCHANGED <<program, launchvars, jobvars, vars, backvars, replayvars, resumevars, fitsvars, loopvars>>
  \/ /\ program = "launcher" /\ LaunchNext
     /\ UNCHANGED <<program, dashvars, jobvars, vars, backvars, replayvars, resumevars, fitsvars, loopvars>>
  \/ /\ program = "file" /\ JobNext
     /\ UNCHANGED <<program, dashvars, launchvars, vars, backvars, replayvars, resumevars, fitsvars, loopvars>>
  \/ /\ program = "fit" /\ Next
     /\ UNCHANGED <<program, dashvars, launchvars, jobvars, backvars, replayvars, resumevars, fitsvars, loopvars>>
  \/ /\ program = "backward" /\ BackNext
     /\ UNCHANGED <<program, dashvars, launchvars, jobvars, vars, replayvars, resumevars, fitsvars, loopvars>>
  \/ /\ program = "replay" /\ ReplayNext
     /\ UNCHANGED <<program, dashvars, launchvars, jobvars, vars, backvars, resumevars, fitsvars, loopvars>>
  \/ /\ program = "resume" /\ ResumeNext
     /\ UNCHANGED <<program, dashvars, launchvars, jobvars, vars, backvars, replayvars, fitsvars, loopvars>>
  \/ /\ program = "fits" /\ FitsNext
     /\ UNCHANGED <<program, dashvars, launchvars, jobvars, vars, backvars, replayvars, resumevars, loopvars>>
  \/ /\ program = "loop" /\ LoopNext
     /\ UNCHANGED <<program, dashvars, launchvars, jobvars, vars, backvars, replayvars, resumevars, fitsvars>>

MCSpec == MCInit /\ [][MCNext]_<<program, dashvars, launchvars, jobvars, vars, backvars, replayvars,
                                 resumevars, fitsvars, loopvars>>

=============================================================================
