------------------------------ MODULE Cassette ------------------------------
(***************************************************************************)
(* Calls of leaf agents, Agent.forward (core/agent.py), under              *)
(* cassette_context (utils/cassette.py): a call whose key the session      *)
(* knows is answered from it; another one fails in a replay, and in a      *)
(* recording, or without a session, asks the provider by with_retry        *)
(* (runtime/retry.py).  The slot a call waits for and holds is Slots's.    *)
(*                                                                         *)
(* One file, one session at a time.  A key stands for model, prompt and    *)
(* input; no two answers of the provider are the same.                     *)
(***************************************************************************)
EXTENDS Integers, SequencesExt

CONSTANTS Asker,       \* tasks that call
          Key,
          Tries,    \* max_retries + 1
          AnswerBound, \* bound: answers
          SessionBound \* bound: sessions

ASSUME CassetteAssumption ==
  /\ Tries \in Nat \ {0}
  /\ {AnswerBound, SessionBound} \subseteq Nat

VARIABLES cassette, \* the lines of the file: key and answer, and (history) the lines there when it was asked
          broken,   \* a crash has left half a line
          mode,     \* of the session: "none", "record", "replay"
          entries,  \* what the session knows: key -> answer, or 0
          unfiled,  \* history variable: keys whose line could not be written
          asking,   \* of each task: where its call is
          answers,  \* answers given so far
          sessions  \* bounds the sessions

cassettevars == <<cassette, broken, mode, entries, unfiled, asking, answers, sessions>>

NotAsking == [at |-> "idle", key |-> 0, tried |-> 0, since |-> 0]
Unknown == [k \in Key |-> 0]

-----------------------------------------------------------------------------
(* cassette_context *)

LinesOf(lines, k) == {i \in DOMAIN lines : lines[i].key = k}

\* Mutant: the first line of a key counts.
LoadedFirst(lines) ==
  [k \in Key |-> LET own == LinesOf(lines, k) IN IF own = {} THEN 0 ELSE lines[Min(own)].answer]

\* _load: a later line of a key replaces an earlier one.
Loaded(lines) ==
  [k \in Key |-> LET own == LinesOf(lines, k) IN IF own = {} THEN 0 ELSE lines[Max(own)].answer]

\* Half a line does not parse, and the session is not opened.
OpenSession(m) ==
  /\ mode = "none" /\ ~broken /\ sessions < SessionBound
  /\ \A c \in Asker : asking[c] = NotAsking
  /\ sessions' = sessions + 1
  /\ mode' = m /\ entries' = Loaded(cassette) /\ unfiled' = {}
  /\ UNCHANGED <<cassette, broken, asking, answers>>

\* The event loop of the session ends with it, and cancels what still runs.
CloseSession ==
  /\ mode # "none"
  /\ mode' = "none" /\ entries' = Unknown /\ unfiled' = {}
  /\ asking' = [c \in Asker |-> NotAsking]
  /\ UNCHANGED <<cassette, broken, answers, sessions>>

\* Somebody deletes the file.
Discard ==
  /\ mode = "none"
  /\ cassette' = <<>> /\ broken' = FALSE
  /\ UNCHANGED <<mode, entries, unfiled, asking, answers, sessions>>

-----------------------------------------------------------------------------
(* A call *)

Attempt(k, n, since) == [at |-> "trying", key |-> k, tried |-> n, since |-> since]

\* The wrapper: a hit is answered, and a miss in a replay raises, at once and without
\* a trace; any other call goes on to Agent.forward.
AskFor(c, k) ==
  /\ asking[c].at = "idle" /\ mode # "replay" /\ entries[k] = 0
  /\ asking' = [asking EXCEPT ![c] = Attempt(k, 1, Len(cassette))]
  /\ UNCHANGED <<cassette, broken, mode, entries, unfiled, answers, sessions>>

Ended(c) == asking' = [asking EXCEPT ![c] = NotAsking]

\* with_retry: an error or the timeout of an attempt, and the sleep before the next one.
AttemptFails(c) ==
  /\ asking[c].at = "trying"
  /\ IF asking[c].tried = Tries
       THEN Ended(c)
       ELSE asking' = [asking EXCEPT ![c].at = "backoff"]
  /\ UNCHANGED <<cassette, broken, mode, entries, unfiled, answers, sessions>>

RetryNow(c) ==
  /\ asking[c].at = "backoff"
  /\ asking' = [asking EXCEPT ![c] = Attempt(@.key, @.tried + 1, @.since)]
  /\ UNCHANGED <<cassette, broken, mode, entries, unfiled, answers, sessions>>

\* What is not retried: a build or a validation error, and an answer that does not parse.
GiveUp(c) ==
  /\ asking[c].at = "trying" /\ Ended(c)
  /\ UNCHANGED <<cassette, broken, mode, entries, unfiled, answers, sessions>>

\* A sibling has failed, or the caller gives up waiting.
CancelAsk(c) ==
  /\ asking[c].at # "idle" /\ Ended(c)
  /\ UNCHANGED <<cassette, broken, mode, entries, unfiled, answers, sessions>>

Line(c) == [key |-> asking[c].key, answer |-> answers + 1, since |-> asking[c].since]

\* The provider answers.  In a recording the answer is known first and then filed,
\* which may fail: the call raises, and the answer stays known.
Answered(c, filed) ==
  /\ asking[c].at = "trying" /\ answers < AnswerBound
  /\ answers' = answers + 1
  /\ Ended(c)
  /\ IF mode = "record"
       THEN /\ entries' = [entries EXCEPT ![asking[c].key] = answers']
            /\ cassette' = IF filed THEN Append(cassette, Line(c)) ELSE cassette
            /\ unfiled' = IF filed THEN unfiled \ {asking[c].key} ELSE unfiled \cup {asking[c].key}
       ELSE filed /\ UNCHANGED <<entries, cassette, unfiled>>
  /\ UNCHANGED <<broken, mode, sessions>>

\* The process dies, perhaps while it appends.
CassetteCrash ==
  /\ mode # "none" /\ mode' = "none" /\ entries' = Unknown /\ unfiled' = {}
  /\ broken' \in IF mode = "record" /\ \E c \in Asker : asking[c].at = "trying" THEN BOOLEAN ELSE {FALSE}
  /\ asking' = [c \in Asker |-> NotAsking]
  /\ UNCHANGED <<cassette, answers, sessions>>

-----------------------------------------------------------------------------

CassetteInit ==
  /\ cassette = <<>> /\ broken = FALSE /\ mode = "none" /\ entries = Unknown /\ unfiled = {}
  /\ asking = [c \in Asker |-> NotAsking] /\ answers = 0 /\ sessions = 0

Goes(c) == AttemptFails(c) \/ RetryNow(c) \/ \E filed \in BOOLEAN : Answered(c, filed)

CassetteNext ==
  \/ \E m \in {"record", "replay"} : OpenSession(m)
  \/ CloseSession \/ Discard \/ CassetteCrash
  \/ \E c \in Asker : \/ Goes(c) \/ GiveUp(c) \/ CancelAsk(c)
                      \/ \E k \in Key : AskFor(c, k)

CassetteSpec == CassetteInit /\ [][CassetteNext]_cassettevars

-----------------------------------------------------------------------------
(* Properties *)

\* "the original forward executes, the result is serialised to JSON, and a new JSONL
\* line is appended": the provider is asked a second time for what is on file only if
\* both calls were under way at once, whatever sessions and crashes lie between.
AskedOnce ==
  \A i, j \in DOMAIN cassette :
    i < j /\ cassette[i].key = cassette[j].key => cassette[j].since < i

\* What a session answers is what a replay of the file would: of two calls that
\* raced, the later answer; unless the line could not be written.
ReplayAnswersAlike ==
  mode # "none" =>
    \A k \in Key \ unfiled :
      LET own == LinesOf(cassette, k)
      IN entries[k] = IF own = {} THEN 0 ELSE cassette[Max(own)].answer

\* A recording is what its replays will be.
RecordingSound ==
  /\ AskedOnce
  /\ ReplayAnswersAlike

=============================================================================
