---- MODULE MCPrograms ----
\* Five programs that are independent of each other: the initial state picks the
\* one that runs, and the others rest in an initial state of theirs.
EXTENDS Algorithms, Talker, ValueSearch, Evolution, MCBuild, TLC

CONSTANTS a, b, c,  \* nodes: b is the child of a, which may go back to it or on to c
          first, second, \* callers
          p, q      \* parameters

VARIABLE program

vars == <<program, algovars, talkvars, searchvars, evovars, buildvars>>

MCNode     == {a, b, c}
MCChildren == (a :> <<b>>) @@ (b :> <<c, a>>) @@ (c :> <<>>)
MCTerminal == {c}
MCCallers  == {first, second}
MCParam    == {p, q}
Vectors    == [MCParam -> {0, 1}]

\* Each parameter improves the score, or either one but not both.
Additive     == [f \in Vectors |-> f[p] + f[q]]
Interfering  == [f \in Vectors |-> IF f[p] = f[q] THEN 0 ELSE 1 + f[p]]
MCLandscapes == {Additive, Interfering}

MCInit ==
  /\ program \in {"algorithm", "talker", "values", "evolution", "build"}
  /\ Init /\ TalkInit /\ SearchInit /\ EvoInit
  /\ program # "algorithm" => algo = "refine"
  /\ program # "talker"    => current = Root
  /\ value = [r \in Param |-> 0] /\ (method = "opro" => width = 2 /\ landscape = Interfering)
  /\ program # "values"    => /\ method = "ape" /\ width = 1
                              /\ landscape = Additive
  /\ program # "evolution" => root = 0
  /\ (program # "build" => tree = CHOOSE t \in MCTrees : TRUE) /\ BuildInit

\* Bound: the last step of an optimizer is of one parameter.
MCLastStep == taken' = Steps => update'[q] = NoUpdate

MCNext ==
  \/ program = "algorithm" /\ Next /\ UNCHANGED <<program, talkvars, searchvars, evovars, buildvars>>
  \/ program = "talker" /\ TalkNext /\ UNCHANGED <<program, algovars, searchvars, evovars, buildvars>>
  \/ program = "values" /\ SearchNext /\ MCLastStep /\ UNCHANGED <<program, algovars, talkvars, evovars, buildvars>>
  \/ program = "evolution" /\ EvoNext /\ UNCHANGED <<program, algovars, talkvars, searchvars, buildvars>>
  \/ program = "build" /\ BuildNext /\ UNCHANGED <<program, algovars, talkvars, searchvars, evovars>>

MCSpec ==
  /\ MCInit /\ [][MCNext]_vars
  /\ WF_algovars(program = "algorithm" /\ Coordinate)
  /\ \A i \in Branch : WF_algovars(program = "algorithm" /\ Advance(i))
====
