------------------------------ MODULE Evolution ------------------------------
(***************************************************************************)
(* EvoGradient (src/operad/optim/optimizers/evo.py): a step evaluates the  *)
(* population, keeps the better half, refills it with mutants of those it  *)
(* kept, and writes the best one back onto the root.  The mutants of a     *)
(* generation are built by concurrent tasks, which gather leaves running   *)
(* when one of them fails; a step that failed may be taken again.          *)
(* An individual is [fit, id, parent]: its score, which the dataset        *)
(* determines, its lineage and that of the one it was mutated from.        *)
(***************************************************************************)
EXTENDS Naturals, Sequences, FiniteSets, SequencesExt, FiniteSetsExt

CONSTANTS Size,         \* population_size
          Fitness,      \* scores an individual may have
          MutRetries,   \* max_mutation_retries
          Generations,  \* generations completed (bound)
          Lineages,     \* lineage ids drawn (bound)
          Strays        \* tasks that outlive their gather (bound)

ASSUME EvolutionAssumption ==
  /\ Size \in Nat /\ Size >= 2 /\ Fitness \subseteq Nat /\ Fitness # {}
  /\ {MutRetries, Generations, Lineages} \subseteq Nat \ {0} /\ Strays \in Nat

NoParent == Lineages + 1

VARIABLES root,        \* the score of the root agent
          population,  \* _population, <<>> for None
          origins,     \* _origins: the lineages with a provenance
          nextId,      \* _next_lineage_index
          generation,  \* _generation
          stage,       \* of the step: "idle", "seed", "fresh", "evaluate", "refill", "write"
          parents,     \* whom each task mutates
          task,        \* the tasks of the current gather
          strays,      \* tasks of a gather that failed
          announced    \* history variable: gen_index of the last generation event

evovars == <<root, population, origins, nextId, generation, stage, parents, task, strays, announced>>

Slot     == 1 .. Size
Half     == IF Size \div 2 > 1 THEN Size \div 2 ELSE 1
RootItem == [fit |-> root, id |-> NoParent, parent |-> NoParent]
NoItem   == [fit |-> 0, id |-> NoParent, parent |-> NoParent]
NoTask   == [at |-> "off", tries |-> 0, child |-> NoItem]
Started  == [NoTask EXCEPT !.at = "build", !.tries = MutRetries]

-----------------------------------------------------------------------------
(* Building individuals                                                    *)

TasksDone ==
  /\ task' = [i \in Slot |-> NoTask]
  /\ parents' = [i \in Slot |-> NoItem]

Building == stage \in {"fresh", "refill"}

Child(parent, fit) == [fit |-> fit, id |-> nextId, parent |-> parent.id]

\* _attempt_mutate_and_build: the mutant was built and gets a lineage.
Built(i, fit) ==
  /\ Building /\ task[i].at = "build" /\ nextId <= Lineages
  /\ task' = [task EXCEPT ![i].at = "ok", ![i].child = Child(parents[i], fit)]
  /\ origins' = origins \cup {nextId}
  /\ nextId' = nextId + 1
  /\ UNCHANGED <<root, population, generation, stage, parents, strays, announced>>

\* A BuildError: the operation is undone and another one is tried.
BuildRefused(i) ==
  /\ Building /\ task[i].at = "build" /\ task[i].tries > 0
  /\ task' = [task EXCEPT ![i].tries = @ - 1]
  /\ UNCHANGED <<root, population, origins, nextId, generation, stage, parents, strays, announced>>

\* The retries are used up: an unmutated clone takes the place.
FallBack(i) ==
  /\ Building /\ task[i].at = "build" /\ task[i].tries = 0 /\ nextId <= Lineages
  /\ task' = [task EXCEPT ![i].at = "ok", ![i].child = Child(parents[i], parents[i].fit)]
  /\ origins' = origins \cup {nextId}
  /\ nextId' = nextId + 1
  /\ UNCHANGED <<root, population, generation, stage, parents, strays, announced>>

\* A task of a failed gather is still at work and registers its mutant later on.
StrayBuilds ==
  /\ strays > 0 /\ nextId <= Lineages
  /\ strays' = strays - 1
  /\ origins' = origins \cup {nextId}
  /\ nextId' = nextId + 1
  /\ UNCHANGED <<root, population, generation, stage, parents, task, announced>>

-----------------------------------------------------------------------------
(* A step                                                                  *)

\* The first step scores the root and mutates it; a later one evaluates.
Generate ==
  /\ stage = "idle" /\ generation < Generations
  /\ stage' = IF population = <<>> THEN "seed" ELSE "evaluate"
  /\ UNCHANGED <<root, population, origins, nextId, generation, parents, task, strays, announced>>

Seeded ==
  /\ stage = "seed"
  /\ stage' = "fresh"
  /\ parents' = [i \in Slot |-> RootItem]
  /\ task' = [i \in Slot |-> Started]
  /\ UNCHANGED <<root, population, origins, nextId, generation, strays, announced>>

FirstPopulation ==
  /\ stage = "fresh" /\ \A i \in Slot : task[i].at = "ok"
  /\ population' = [i \in Slot |-> task[i].child]
  /\ TasksDone
  /\ stage' = "evaluate"
  /\ UNCHANGED <<root, origins, nextId, generation, strays, announced>>

\* The order of sorted(key=-score), which is stable.
Better(i, j) ==
  \/ population[i].fit > population[j].fit
  \/ population[i].fit = population[j].fit /\ i < j

\* An individual is placed behind those that are better.
Rank(i) == Cardinality({j \in Slot : Better(j, i)}) + 1
Survivors == [k \in 1 .. Half |-> population[CHOOSE i \in Slot : Rank(i) = k]]

\* Every individual is scored: the generation is announced and the survivors
\* are mutated in turn to refill the population.
Evaluated ==
  /\ stage = "evaluate"
  /\ stage' = "refill"
  /\ announced' = generation
  /\ parents' = [i \in Slot |-> IF i <= Half THEN Survivors[i]
                                ELSE Survivors[((i - Half - 1) % Half) + 1]]
  /\ task' = [i \in Slot |-> IF i > Half THEN Started ELSE NoTask]
  /\ UNCHANGED <<root, population, origins, nextId, generation, strays>>

\* Provenance is kept for the new population only.
Provenance(pop) == {pop[i].id : i \in Slot}

\* Mutant: the newest refill is written back, before it was evaluated.
NewestOf(pop) == pop[Size].fit

\* The first survivor.
FittestOf(pop) == pop[1].fit

\* The mutants are built: survivors and refills are the population, and the
\* best survivor's state is loaded into the root.
Refilled ==
  /\ stage = "refill" /\ \A i \in Half + 1 .. Size : task[i].at = "ok"
  /\ LET pop == [i \in Slot |-> IF i <= Half THEN parents[i] ELSE task[i].child]
     IN /\ population' = pop
        /\ origins' = Provenance(pop)
        /\ root' = FittestOf(pop)
  /\ TasksDone
  /\ stage' = "write"
  /\ UNCHANGED <<nextId, generation, strays, announced>>

\* The root is built again, which may fail: the generation then is not counted.
Rebuilt(built) ==
  /\ stage = "write"
  /\ generation' = IF built THEN generation + 1 ELSE generation
  /\ stage' = "idle"
  /\ UNCHANGED <<root, population, origins, nextId, parents, task, strays, announced>>

Unfilled == population

\* An evaluation, an operation or a build raises, or the step is cancelled; of a
\* gather that failed the other tasks go on.
GenerationFails(cancelled) ==
  /\ stage \in {"seed", "fresh", "evaluate", "refill"}
  /\ stage' = "idle"
  /\ population' = Unfilled
  /\ strays' = IF cancelled \/ ~Building THEN strays
               ELSE strays + Cardinality({i \in Slot : task[i].at = "build"}) - 1
  /\ strays' <= Strays
  /\ ~cancelled /\ Building => \E i \in Slot : task[i].at = "build"
  /\ TasksDone
  /\ UNCHANGED <<root, origins, nextId, generation, announced>>

-----------------------------------------------------------------------------

EvoInit ==
  /\ root \in Fitness
  /\ population = <<>> /\ origins = {} /\ nextId = 1 /\ generation = 0
  /\ stage = "idle" /\ strays = 0 /\ announced = 0
  /\ parents = [i \in Slot |-> NoItem]
  /\ task = [i \in Slot |-> NoTask]

EvoNext ==
  \/ \E i \in Slot : BuildRefused(i) \/ FallBack(i) \/ \E f \in Fitness : Built(i, f)
  \/ StrayBuilds \/ Generate \/ Seeded \/ FirstPopulation \/ Evaluated \/ Refilled
  \/ \E b \in BOOLEAN : Rebuilt(b) \/ GenerationFails(b)

EvoSpec == EvoInit /\ [][EvoNext]_evovars

-----------------------------------------------------------------------------
(* Properties                                                              *)

\* Once a first generation has been written back the root never gets worse,
\* whatever fails in between.  (The first one may be worse than the root it
\* started from, which is no member of its own population.)
RootNeverDeclines ==
  [][generation > 0 => root' >= root]_evovars

\* Whatever failed, the population is whole or absent, its lineages differ and
\* have a provenance, and every refill descends from one that survived with it.
PopulationWhole ==
  population # <<>> =>
    /\ Len(population) = Size
    /\ Cardinality({population[i].id : i \in Slot}) = Size
    /\ \A i \in Slot : population[i].id \in origins
    /\ stage = "write" =>
         \A i \in Half + 1 .. Size : population[i].parent \in {population[j].id : j \in 1 .. Half}

\* A generation that failed is announced again under the same index, and none
\* is left out.
GenerationsInOrder ==
  [][announced' # announced => announced' = announced + 1]_evovars

\* A generation replaces a whole population by a whole one and the root by none worse.
EvolutionSound ==
  /\ [][PopulationWhole']_evovars
  /\ RootNeverDeclines
  /\ GenerationsInOrder

=============================================================================
