----------------------------- MODULE MCAgentRun -----------------------------
(* Agents that run (AgentRun) and agents that are edited and optimized       *)
(* (AgentTree): the initial state picks one, and the other rests.            *)
EXTENDS AgentRun, AgentTree, TLC

\* A Sequential of a Parallel and a Router with two branches; the Parallel gathers
\* a leaf and a Loop that makes two passes over one stage.
MCSites == {"root", "par", "leaf", "loop", "pass1", "pass2", "route", "pick", "left", "right"}
MCGathers == {"par"}
MCRouters == {"route"}
MCKids == [s \in MCSites |-> CASE s = "root" -> <<"par", "route">>
                               [] s = "par"  -> <<"leaf", "loop">>
                               [] s = "loop" -> <<"pass1", "pass2">>
                               [] s = "route" -> <<"pick", "left", "right">>
                               [] OTHER      -> <<>>]
MCPath == [s \in MCSites |-> IF s \in {"pass1", "pass2"} THEN "stage" ELSE s]

-----------------------------------------------------------------------------
(* A root r with a composite f and a leaf y; x hangs once or twice under f, or y *)
(* hangs under f too; x and y are given one Configuration or two.                *)

Named(name, agent) == [name |-> name, agent |-> agent]
MCAgents == {"r", "f", "x", "y"}
MCFamilies ==
  {[root |-> "r", kids |-> kids, cfg |-> cfg] :
     kids \in {[a \in MCAgents |-> CASE a = "r" -> <<Named("first", "f"), Named("last", "y")>>
                                    [] a = "f" -> f
                                    [] OTHER   -> <<>>] :
                f \in {<<Named("one", "x")>>} \cup
                       {<<Named("one", "x"), Named("two", other)>> : other \in {"x", "y"}}},
     cfg \in {[a \in MCAgents |-> CASE a = "x" -> 1 [] a = "y" -> y [] OTHER -> NoConfig] :
                y \in {1, 2}}}

\* The last one is refused by a composite.
MCEdit == [add  |-> [kind |-> "append", path |-> <<"first", "one">>, arg |-> 1],
           cut  |-> [kind |-> "drop", path |-> <<"first", "two">>, arg |-> 0],
           tell |-> [kind |-> "role", path |-> <<"last">>, arg |-> 1],
           warm |-> [kind |-> "temp", path |-> <<"first", "one">>, arg |-> 2],
           fail |-> [kind |-> "temp", path |-> <<"first">>, arg |-> 2]]
MCCompounds == {<<"add", "cut">>, <<"tell", "warm">>, <<"add", "cut", "fail">>, <<"cut">>}
MCFlagCalls == {[fields |-> {"temp"}, value |-> FALSE, at |-> <<"last">>],
                [fields |-> {"config"}, value |-> TRUE, at |-> <<"first", "one">>],
                [fields |-> {"role", "temp"}, value |-> FALSE, at |-> <<>>]}

-----------------------------------------------------------------------------

VARIABLE program

MCInit ==
  /\ program \in {"run", "tree"}
  /\ Init /\ TreeInit
  /\ program = "run" => \A a \in Agents(tree) : tree.cfg[a] < 2 /\ Resolve(tree, <<"first", "two">>) = {}

MCNext ==
  \/ program = "run" /\ Next /\ UNCHANGED <<program, treevars>>
  \/ program = "tree" /\ TreeNext /\ UNCHANGED <<program, vars>>

MCSpec == /\ MCInit /\ [][MCNext]_<<program, vars, treevars>>
          /\ WF_vars(program = "run" /\ \E i \in Current : Step(i))

\* TreeSound, of the agents that are edited.
EditsSound == program = "tree" => TreeSound

=============================================================================
