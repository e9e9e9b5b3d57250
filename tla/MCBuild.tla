------------------------------ MODULE MCBuild ------------------------------
\* Trees of a root, two composites f and g and three leaves: each composite calls
\* its children in turn, some of them twice or not at all, or gathers them; g may
\* be the child of f, and agents may be shared.
EXTENDS Build

MCTrees ==
  {[root |-> "r", kind |-> kind, kids |-> kids, bad |-> bad, typed |-> {"x"},
    calls |-> [a \in DOMAIN kids |->
                 IF a = "r" THEN calls ELSE [i \in DOMAIN kids[a] |-> i]]] :
     kind \in {k \in [{"r", "f", "g", "x", "y", "z"} -> {"await", "gather"}] :
                 \A a \in {"x", "y", "z"} : k[a] = "await"},
     kids \in {[a \in {"r", "f", "g", "x", "y", "z"} |->
                  CASE a = "r" -> r [] a = "f" -> f [] a = "g" -> g [] OTHER -> <<>>] :
                 r \in {<<"f", "g">>, <<"g", "f">>, <<"x", "f">>, <<"f", "x">>},
                 f \in {<<"y", "g">>, <<"g", "y">>, <<"y", "y">>},
                 g \in {<<"z">>, <<"z", "x">>}},
     calls \in {<<1, 2>>, <<1, 2, 1, 2>>, <<2>>, <<>>},
     bad \in {{}, {"z"}, {"x"}}}

\* What Sequential and Parallel make of agents of their own.
MCFlowTrees ==
  {t \in MCTrees : t.bad = {} /\ t.calls["r"] = <<1, 2>> /\ t.kids["g"] = <<"z">>
                    /\ ToSet(t.kids["r"]) = {"x", "f"} /\ "g" \in ToSet(t.kids["f"])}
=============================================================================
