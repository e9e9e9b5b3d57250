------------------------------ MODULE Uthereal ------------------------------
(* The prompt-fixing loop of apps/uthereal on one run directory: the commands *)
(* run, feedback, blame, fix and verify, made one after the other, the files  *)
(* they leave for each other, and the workflow that three of them execute. A  *)
(* command may die between two writes or two calls. Commands that stop before *)
(* their first effect (a missing file, a special target, an answer "n") leave *)
(* nothing and are the guards of the actions; one write of a file is atomic.  *)
EXTENDS Integers

CONSTANTS
  Entries,        \* of [says, inline, online]: the message, "long" if over the limit;
                  \* whether it brings a workspace; whether the RAG service is there
  Target,         \* the leaves that people and the Blamer choose
  PromptTexts,    \* texts a leaf's prompt may have; its YAML starts with 0
  Sayings,        \* what the leaves that talk may say
  CommandBound,   \* bound: commands made and kills
  Missing         \* no such file

VARIABLES
  dataset,        \* the entry of this directory, one of Entries
  disk,           \* the files of the run directory, by name, or Missing
  yaml,           \* the prompt in each leaf's YAML
  llm,            \* cassettes/llm/calls.jsonl: answers by key
  rag,            \* cassettes/rag: retrieval results by specification
  cmd,            \* the command that runs and how far it got
  commands,       \* bounded by CommandBound
  killed          \* history: some command was killed

loopvars == <<dataset, disk, yaml, llm, rag, cmd, commands, killed>>

Idle == [step |-> "idle"]
\* metadata is the workspace on the cassette of retrievals; the others are files of
\* the directory. (entry.json never changes; the cassettes are llm and rag.)
File == {"metadata", "trace", "answer", "feedback", "blame", "fix", "verify"}
Exists(f) == disk[f] # Missing

---------------------------------------------------------------------------
(* The workflow. `known` is what a run knows: its message, its workspace,     *)
(* then the answer of each leaf that was called, and the facts it retrieved.  *)

\* What the input of a leaf is rendered from.
Reads ==
  [context_safeguard      |-> {"message"},
   safeguard_talker       |-> {"message", "context_safeguard"},
   reasoner               |-> {"message"},
   conv_talker            |-> {"message", "reasoner"},
   rule_classifier        |-> {"message", "reasoner", "workspace"},
   retrieval_orchestrator |-> {"message", "reasoner", "workspace", "rule_classifier"},
   evidence_planner       |-> {"message", "reasoner", "facts"},
   fact_filter            |-> {"message", "reasoner", "facts"},
   rag_talker             |-> {"message", "reasoner", "workspace", "rule_classifier",
                               "evidence_planner", "fact_filter"}]
Leaf == DOMAIN Reads

ASSUME UtherealAssumption ==
  /\ Target \subseteq Leaf /\ CommandBound \in Nat
  /\ \A e \in Entries : e.inline \in BOOLEAN /\ e.online \in BOOLEAN
  /\ Missing # "fetched"

\* What a leaf may answer, as far as the workflow or a later leaf can tell.
Replies ==
  [l \in Leaf |->
     CASE l = "context_safeguard" -> {"pass", "refuse"}
       [] l = "reasoner" -> {"direct", "rag"}
       [] l = "retrieval_orchestrator" -> {"one", "twins"}
       [] l \in {"safeguard_talker", "conv_talker", "rag_talker"} -> Sayings
       [] OTHER -> {"some"}]

\* The step after a leaf's answer.
After(l, a) ==
  CASE l = "context_safeguard" -> IF a = "pass" THEN "reasoner" ELSE "safeguard_talker"
    [] l = "reasoner" -> IF a = "direct" THEN "conv_talker" ELSE "rule_classifier"
    [] l = "rule_classifier" -> "retrieval_orchestrator"
    [] l = "retrieval_orchestrator" -> "retrieve"
    [] l = "evidence_planner" -> "fact_filter"
    [] l = "fact_filter" -> "rag_talker"
    [] OTHER -> "ran"

FirstStep == IF dataset.says = "long" THEN "ran" ELSE "context_safeguard"

Learn(known, what, value) == [x \in DOMAIN known \cup {what} |-> IF x = what THEN value ELSE known[x]]

\* The key of a call: the leaf, its prompt and its input.
CallKey(l, prompts, known) == <<l, prompts[l], [x \in Reads[l] |-> known[x]]>>
KeyOfNow(l) == CallKey(l, yaml, cmd.known)

\* Mutant: a recording that asks anew and overwrites what is on the cassette.
CallAnew(l) ==
  \E a \in Replies[l] :
    /\ cmd.step = l
    /\ KeyOfNow(l) \in DOMAIN llm => (cmd.records \/ a = llm[KeyOfNow(l)])
    /\ KeyOfNow(l) \notin DOMAIN llm => cmd.records
    /\ llm' = Learn(llm, KeyOfNow(l), a)
    /\ cmd' = [cmd EXCEPT !.known = Learn(@, l, a), !.step = After(l, a)]
    /\ UNCHANGED <<dataset, disk, yaml, rag, commands, killed>>

\* A leaf is called: an answer on the cassette is taken in every mode, any other
\* is asked for and recorded, unless the cassette is only replayed.
CallLeaf(l) ==
  \E a \in Replies[l] :
    /\ cmd.step = l
    /\ IF KeyOfNow(l) \in DOMAIN llm THEN a = llm[KeyOfNow(l)] ELSE cmd.records
    /\ llm' = Learn(llm, KeyOfNow(l), a)
    /\ cmd' = [cmd EXCEPT !.known = Learn(@, l, a), !.step = After(l, a)]
    /\ UNCHANGED <<dataset, disk, yaml, rag, commands, killed>>

\* Two specifications with one key are looked up before either is answered: both
\* are asked for, and the cassette keeps what is written last.
Retrieve ==
  LET spec == cmd.known["retrieval_orchestrator"]
  IN /\ cmd.step = "retrieve"
     /\ \E f, g \in {"f1", "f2"} :
          /\ spec = "one" => f = g
          /\ IF spec \in DOMAIN rag THEN f = rag[spec] /\ g = f
             ELSE dataset.online /\ cmd.records
          /\ \E kept \in {f, g} : rag' = Learn(rag, spec, kept)
          /\ cmd' = [cmd EXCEPT !.known = Learn(@, "facts", <<f, g>>), !.step = "evidence_planner"]
     /\ UNCHANGED <<dataset, disk, yaml, llm, commands, killed>>

\* A provider that fails or a miss of a cassette that is only replayed ends the
\* process where it is, and so does a kill or an assertion anywhere. Of two
\* retrievals one may have been kept when the other fails.
Dies ==
  /\ \/ cmd.step \in Leaf /\ KeyOfNow(cmd.step) \notin DOMAIN llm
        /\ UNCHANGED <<rag, commands, killed>>
     \/ cmd.step = "retrieve" /\ cmd.known["retrieval_orchestrator"] \notin DOMAIN rag
        /\ \/ UNCHANGED rag
           \/ /\ cmd.known["retrieval_orchestrator"] = "twins" /\ dataset.online /\ cmd.records
              /\ \E f \in {"f1", "f2"} : rag' = Learn(rag, "twins", f)
        /\ UNCHANGED <<commands, killed>>
     \/ cmd # Idle /\ commands < CommandBound
        /\ commands' = commands + 1 /\ killed' = TRUE /\ UNCHANGED rag
  /\ cmd' = Idle
  /\ UNCHANGED <<dataset, disk, yaml, llm>>

---------------------------------------------------------------------------
(* The commands.                                                              *)

Starts == cmd = Idle /\ commands < CommandBound /\ commands' = commands + 1
Known(w) == [message |-> dataset.says, workspace |-> w]
RunSoFar == [known |-> cmd.known, yaml |-> yaml]

\* Where an entry brings no workspace: its metadata on the cassette, else what the
\* service tells, else an empty one.
Workspaces(live) ==
  IF Exists("metadata") THEN {"fetched"} ELSE IF live THEN {"fetched", "bare"} ELSE {"bare"}
MetadataAfter(w) == IF w = "fetched" THEN w ELSE disk.metadata

\* entry.json, written first, is the entry as a DatasetEntry: without its workspace.
\* The mode "record-missing" is "record" for the LLM; a recording replays its hits.
RunEntry(records) ==
  /\ Starts
  /\ \E w \in IF dataset.inline THEN {"inline"} ELSE Workspaces(dataset.online /\ records) :
       /\ disk' = [disk EXCEPT !.metadata = MetadataAfter(w)]
       /\ cmd' = [name |-> "run", step |-> FirstStep, records |-> records,
                  known |-> Known(w)]
  /\ UNCHANGED <<dataset, yaml, llm, rag, killed>>

WriteTrace ==
  /\ cmd.step = "ran" /\ cmd.name = "run"
  /\ disk' = [disk EXCEPT !.trace = RunSoFar]
  /\ cmd' = [cmd EXCEPT !.step = "answer"]
  /\ UNCHANGED <<dataset, yaml, llm, rag, commands, killed>>

WriteAnswer ==
  /\ cmd.step = "answer"
  /\ disk' = [disk EXCEPT !.answer = cmd.known]
  /\ cmd' = Idle
  /\ UNCHANGED <<dataset, yaml, llm, rag, commands, killed>>

\* A critique, or the template and what else does not validate: the template has
\* comments, so only another call makes JSON of it.
Feedback ==
  /\ Starts /\ Exists("trace")
  /\ \E f \in {"template", "critique"} : disk' = [disk EXCEPT !.feedback = f]
  /\ UNCHANGED <<dataset, yaml, llm, rag, cmd, killed>>

\* The verdict of --target, of the Blamer or of its editor. (Special verdicts lead
\* nowhere: fix refuses them.)
Blame(l) ==
  /\ Starts /\ Exists("trace") /\ disk.feedback = "critique"
  /\ disk' = [disk EXCEPT !.blame = l]
  /\ UNCHANGED <<dataset, yaml, llm, rag, cmd, killed>>

\* fix replays the run under the prompts and the entry of now; --target goes past
\* blame.json.
Fix(l, manual, dry) ==
  /\ Starts /\ Exists("trace") /\ disk.feedback = "critique"
  /\ manual \/ disk.blame = l
  /\ cmd' = [name |-> "fix", step |-> FirstStep, records |-> FALSE,
             known |-> Known(CHOOSE w \in Workspaces(FALSE) : TRUE), target |-> l, dry |-> dry]
  /\ UNCHANGED <<dataset, disk, yaml, llm, rag, killed>>

\* The gradients reach the parameters of a leaf that the replay has called; the
\* rewritten prompt is dumped before anything is reported.
Rewrite ==
  /\ cmd.step = "ran" /\ cmd.name = "fix"
  /\ \E p \in PromptTexts :
       /\ cmd.target \notin DOMAIN cmd.known => p = yaml[cmd.target]
       /\ yaml' = IF cmd.dry THEN yaml ELSE [yaml EXCEPT ![cmd.target] = p]
       /\ cmd' = [name |-> "fix", step |-> "report", target |-> cmd.target, dry |-> cmd.dry,
                  ran |-> RunSoFar, to |-> p]
  /\ UNCHANGED <<dataset, disk, llm, rag, commands, killed>>

Report ==
  /\ cmd.step = "report"
  /\ disk' = [disk EXCEPT !.fix = [target |-> cmd.target, dry |-> cmd.dry,
                                   ran |-> cmd.ran, to |-> cmd.to]]
  /\ cmd' = Idle
  /\ UNCHANGED <<dataset, yaml, llm, rag, commands, killed>>

\* verify runs the entry again, recording what is missing. It looks for a
\* workspace in entry.json, where run never leaves one.
Verify ==
  /\ Starts /\ Exists("trace") /\ Exists("answer") /\ Exists("fix")
  /\ \E w \in Workspaces(dataset.online) :
       /\ disk' = [disk EXCEPT !.metadata = MetadataAfter(w)]
       /\ cmd' = [name |-> "verify", step |-> FirstStep, records |-> TRUE,
                  known |-> Known(w), before |-> disk.trace, answer |-> disk.answer,
                  target |-> disk.fix.target]
  /\ UNCHANGED <<dataset, yaml, llm, rag, killed>>

WriteVerdict ==
  /\ cmd.step = "ran" /\ cmd.name = "verify"
  /\ disk' = [disk EXCEPT !.verify = [before |-> cmd.before, answer |-> cmd.answer,
                                      after |-> RunSoFar, target |-> cmd.target]]
  /\ cmd' = Idle
  /\ UNCHANGED <<dataset, yaml, llm, rag, commands, killed>>

LoopInit ==
  /\ dataset \in Entries
  /\ disk = [f \in File |-> Missing]
  /\ yaml = [l \in Leaf |-> 0]
  /\ llm = <<>> /\ rag = <<>>
  /\ cmd = Idle /\ commands = 0 /\ killed = FALSE

LoopNext ==
  \/ \E records \in BOOLEAN : RunEntry(records)
  \/ \E l \in Leaf : CallLeaf(l)
  \/ Retrieve \/ Dies
  \/ WriteTrace \/ WriteAnswer
  \/ Feedback
  \/ \E l \in Target : Blame(l)
  \/ \E l \in Target, manual, dry \in BOOLEAN : Fix(l, manual, dry)
  \/ Rewrite \/ Report
  \/ Verify
  \/ WriteVerdict

LoopSpec == LoopInit /\ [][LoopNext]_loopvars

---------------------------------------------------------------------------
(* Properties.                                                                *)

Called(run) == DOMAIN run.known \cap Leaf

OnCassette(run) ==
  \A l \in Called(run) : llm[CallKey(l, run.yaml, run.known)] = run.known[l]

PromptChanged(l, before, after) == before.yaml[l] # after.yaml[l]

\* Whatever commands were made, killed or repeated, each run that a file speaks of
\* can still be replayed, answer by answer, from calls.jsonl: the recordings that
\* run and verify add to one file never take an older answer away.
RunsReplayable ==
  /\ Exists("trace") => OnCassette(disk.trace)
  /\ Exists("fix") => OnCassette(disk.fix.ran)
  /\ Exists("verify") => OnCassette(disk.verify.before) /\ OnCassette(disk.verify.after)

\* A leaf whose answer differs between the two runs that verify.json compares had
\* its prompt rewritten, or was asked something else: what verify shows is the
\* effect of fixes and of inputs, never of a model that answers differently.
VerifyShowsTheFix ==
  Exists("verify") =>
    LET b == disk.verify.before   a == disk.verify.after
    IN \A l \in Called(b) \cap Called(a) :
         b.known[l] # a.known[l] =>
           \/ PromptChanged(l, b, a)
           \/ \E x \in Reads[l] : b.known[x] # a.known[x]

\* A prompt is only rewritten in view of a run in which the leaf answered under
\* the prompt that is replaced: the second fix in a row is refused until verify
\* has recorded the first.
FixSawTheLeaf ==
  Exists("fix") =>
    LET f == disk.fix
    IN f.to # f.ran.yaml[f.target] => f.target \in Called(f.ran)

\* Unless a process died, answer.txt is the answer of trace.jsonl, so the two
\* halves of "before" in verify.json are of one run.
BeforeIsOneRun ==
  ~killed =>
    /\ (Exists("answer") /\ cmd.step # "answer") => disk.answer = disk.trace.known
    /\ Exists("verify") => (disk.verify.answer = disk.verify.before.known)

\* Metadata that the first run saw are seen by verify: a run with fetched metadata
\* is compared with a run with fetched metadata.
MetadataStay ==
  Exists("verify") =>
    (disk.verify.before.known.workspace = "fetched" => disk.verify.after.known.workspace = "fetched")

LoopSound ==
  RunsReplayable /\ VerifyShowsTheFix /\ FixSawTheLeaf /\ BeforeIsOneRun /\ MetadataStay
=============================================================================
