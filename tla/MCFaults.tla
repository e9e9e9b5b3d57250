------------------------------ MODULE MCFaults ------------------------------
(* Four programs under the faults of what they depend on: the forwarder that  *)
(* posts events (HttpForward), the stream of an agent (Stream), the sandbox   *)
(* pool (SandboxPool) and calls that are retried and recorded (Cassette).     *)
(* The initial state picks the one that runs, and the others rest in initial  *)
(* states of theirs.                                                          *)
EXTENDS HttpForward, Stream, MCSandboxPool, Cassette

VARIABLE program

MCInit ==
  /\ program \in {"forward", "stream", "pool", "cassette"}
  /\ Init /\ StreamInit /\ PoolInit /\ CassetteInit

\* A stream may stop: it was closed, or left while its queue was full.
StreamStops == (reader = "closed" \/ LeftStuck) /\ UNCHANGED streamvars

\* Workers are alike, and so are calls: they come in one order.
InOrder == /\ proc'[w2] # "none" => proc'[w1] # "none"
           /\ stage'[c2] # "new" => stage'[c1] # "new"

MCNext ==
  \/ program = "forward" /\ Next
     /\ UNCHANGED <<program, streamvars, poolvars, cassettevars>>
  \/ program = "stream" /\ (StreamNext \/ StreamStops)
     /\ UNCHANGED <<program, vars, poolvars, cassettevars>>
  \/ program = "pool" /\ PoolNext /\ InOrder
     /\ UNCHANGED <<program, vars, streamvars, cassettevars>>
  \/ program = "cassette" /\ CassetteNext
     /\ UNCHANGED <<program, vars, streamvars, poolvars>>

Runs(p) == program = p

\* A program that rests owes nothing; of a pool at rest no action is enabled that
\* PoolFairness speaks of.
MCSpec ==
  /\ MCInit /\ [][MCNext]_<<program, vars, streamvars, poolvars, cassettevars>>
  /\ WF_vars(Runs("forward") /\ (Drain \/ Post("drain")))
  /\ WF_vars(Runs("forward") /\ (Flush \/ Post("flush")))
  /\ WF_vars(Runs("forward") /\ \E r \in wire : Serve(r))
  /\ WF_streamvars(Runs("stream") /\ Drive) /\ WF_streamvars(Runs("stream") /\ Receive)
  /\ PoolFairness

=============================================================================
