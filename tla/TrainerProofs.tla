--------------------------- MODULE TrainerProofs ---------------------------
(***************************************************************************)
(* Trainer.fit, for any parameters, batches, epochs, windows and any       *)
(* number of fits, some of which raise: which gradients an optimizer step  *)
(* is given, and what a step and an epoch leave behind.  After it, what a  *)
(* trainer takes up from a bundle, what a training cassette gives back,    *)
(* which critique the gradient of a parameter is made from, and what the   *)
(* callbacks make of the validations of all fits.                          *)
(***************************************************************************)
EXTENDS Trainer, Resume, TrainReplay, Backprop, Fits, SeqLemmas, FiniteSetTheorems

\* A fit has begun before anything else happens.
Begun == pc # "idle" => fit >= 1

\* No message is of a fit, or a batch, that has not been.
NoneAhead ==
  \A p \in Param : \A m \in Messages(p) :
    /\ m.fit <= fit
    /\ pc # "idle" /\ m.fit = fit => m.batch <= counter

FitInv == TypeOK /\ Begun /\ NoneAhead /\ EpochStartsClean /\ StepSettles

\* The batches of a gradient share no message.
Apart(g) == \A i, j \in 1 .. Len(g) : i # j => g[i] \cap g[j] = {}

\* What this fit has given and no step has taken waits in the gradients; nothing waits between fits.
Waits ==
  \A p \in Param :
    /\ Apart(grad[p])
    /\ pc # "idle" => {m \in Messages(p) : m.fit = fit} = owed[p]
    /\ pc = "idle" => owed[p] = {}

WindowInv == FitInv /\ Waits

-----------------------------------------------------------------------------
(* Messages of a gradient *)

LEMMA NoMessages == ToSet(<<>>) = {} /\ UNION ToSet(<<>>) = {} /\ Apart(<<>>) /\ Len(<<>>) = 0
  BY ToSetEmpty, EmptySeq DEF Apart

LEMMA OneBatch ==
  ASSUME NEW S, NEW x \in S
  PROVE  <<x>> \in Seq(S) /\ Len(<<x>>) = 1 /\ <<x>>[1] = x /\ ToSet(<<x>>) = {x} /\ Apart(<<x>>)
<1>1. <<x>> \in Seq(S) /\ Len(<<x>>) = 1 /\ <<x>>[1] = x /\ DOMAIN <<x>> = {1}
  OBVIOUS
<1>2. ToSet(<<x>>) = {x}
  BY <1>1, Zenon DEF ToSet
<1>3. Apart(<<x>>)
  BY <1>1 DEF Apart
<1>4. QED
  BY <1>1, <1>2, <1>3

\* A batch that is merged goes before those that wait.
LEMMA BatchMerged ==
  ASSUME NEW S, NEW g \in Seq(S), NEW new \in S, \A m \in UNION ToSet(g) : m \notin new, Apart(g)
  PROVE  LET all == <<new>> \o g
         IN  all \in Seq(S) /\ ToSet(all) = {new} \cup ToSet(g) /\ Apart(all) /\ all # <<>>
<1> DEFINE all == <<new>> \o g
<1>1. <<new>> \in Seq(S) /\ Len(<<new>>) = 1 /\ <<new>>[1] = new /\ ToSet(<<new>>) = {new}
  BY OneBatch
<1>2. all \in Seq(S) /\ Len(all) = Len(g) + 1 /\ Len(g) \in Nat
      /\ all[1] = new /\ \A i \in 2 .. Len(g) + 1 : all[i] = g[i - 1]
  BY <1>1
<1>3. ToSet(all) = {new} \cup ToSet(g)
  <2>1. \A s \in Seq(S) : ToSet(s \o g) = ToSet(s) \cup ToSet(g)
    BY ToSetConcat
  <2>2. QED
    BY <1>1, <2>1
<1>4. \A i \in 1 .. Len(g) : g[i] \in ToSet(g)
  BY DEF ToSet
<1> HIDE DEF all
<1>5. Apart(all)
  <2>1. SUFFICES ASSUME NEW i \in 1 .. Len(g) + 1, NEW j \in 1 .. Len(g) + 1, i # j
                 PROVE  all[i] \cap all[j] = {}
    BY <1>2 DEF Apart
  <2>2. \A k \in 1 .. Len(g) : new \cap g[k] = {}
    BY <1>4
  <2>3. \A k \in 1 .. Len(g) + 1 : k = 1 \/ (k \in 2 .. Len(g) + 1 /\ k - 1 \in 1 .. Len(g))
    BY <1>2
  <2>4. CASE i = 1
    BY <1>2, <2>1, <2>2, <2>3, <2>4
  <2>5. CASE j = 1
    BY <1>2, <2>1, <2>2, <2>3, <2>5
  <2>6. CASE i # 1 /\ j # 1
    <3>1. i - 1 \in 1 .. Len(g) /\ j - 1 \in 1 .. Len(g) /\ i - 1 # j - 1
      BY <2>1, <2>3, <2>6
    <3>2. all[i] = g[i - 1] /\ all[j] = g[j - 1]
      BY <1>2, <2>3, <2>6
    <3>3. QED
      BY <3>1, <3>2 DEF Apart
  <2>7. QED
    BY <2>4, <2>5, <2>6
<1>6. QED
  BY <1>2, <1>3, <1>5 DEF all

\* The samples of a batch are those of this fit and of this batch.
LEMMA GivenMessages ==
  ASSUME FitInv, pc = "batch", NEW reach \in [Samples -> SUBSET Param], NEW p \in Param
  PROVE  /\ Given(reach, p) \subseteq Message
         /\ \A m \in Given(reach, p) : m.fit = fit /\ m.batch = counter + 1
<1>1. fit \in 1 .. MaxFits /\ counter + 1 \in Nat
  BY TrainerAssumption DEF FitInv, TypeOK, Begun
<1>2. \A i \in Samples : Sample(i) \in Message /\ Sample(i).fit = fit /\ Sample(i).batch = counter + 1
  BY <1>1 DEF Sample, Message
<1>3. QED
  BY <1>2 DEF Given

\* What a batch makes of the gradient of a parameter.
LEMMA Merges ==
  ASSUME FitInv, NEW reach \in [Samples -> SUBSET Param], RunBatch(reach), NEW p \in Param
  PROVE  /\ grad'[p] \in Seq(SUBSET Message)
         /\ Messages(p)' \subseteq Given(reach, p) \cup Messages(p)
         /\ Given(reach, p) # {} => Messages(p)' = Given(reach, p) \cup Messages(p)
         /\ Apart(grad[p]) => Apart(grad'[p])
<1> DEFINE new == Given(reach, p)
<1>1. pc = "batch" /\ grad'[p] = Merged(reach, p) /\ grad[p] \in Seq(SUBSET Message)
  BY DEF RunBatch, FitInv, TypeOK
<1>2. new \subseteq Message /\ \A m \in new : m.fit = fit /\ m.batch = counter + 1
  BY <1>1, GivenMessages
<1> HIDE DEF new
<1>3. Messages(p) = UNION ToSet(grad[p]) /\ Messages(p)' = UNION ToSet(grad'[p])
  BY DEF Messages
<1>4. CASE new = {}
  <2>1. grad'[p] = <<>>
    BY <1>1, <1>4 DEF Merged, new
  <2>2. QED
    BY <1>3, <1>4, <2>1, NoMessages, EmptySeq DEF new
<1>5. CASE new # {}
  <2>1. grad'[p] = <<new>> \o grad[p]
    BY <1>1, <1>5 DEF Merged, new
  <2>2. \A m \in UNION ToSet(grad[p]) : m \notin new
    <3>1. \A m \in Messages(p) : m.fit = fit => m.batch <= counter
      BY <1>1 DEF FitInv, NoneAhead
    <3>2. counter \in Nat /\ ~(counter + 1 <= counter)
      BY DEF FitInv, TypeOK
    <3>3. QED
      BY <1>2, <1>3, <3>1, <3>2
  <2>3. grad'[p] \in Seq(SUBSET Message) /\ ToSet(grad'[p]) = {new} \cup ToSet(grad[p])
    <3>1. PICK g : g = grad[p]
      OBVIOUS
    <3>2. new \in SUBSET Message /\ g \in Seq(SUBSET Message)
      BY <1>1, <1>2, <3>1
    <3>3. <<new>> \in Seq(SUBSET Message) /\ ToSet(<<new>>) = {new}
      BY <3>2, OneBatch
    <3>4. \A s, t \in Seq(SUBSET Message) : s \o t \in Seq(SUBSET Message) /\ ToSet(s \o t) = ToSet(s) \cup ToSet(t)
      BY ToSetConcat
    <3>5. QED
      BY <2>1, <3>1, <3>2, <3>3, <3>4
  <2>4. Apart(grad[p]) => Apart(grad'[p])
    <3>1. new \in SUBSET Message /\ grad[p] \in Seq(SUBSET Message)
      BY <1>1, <1>2
    <3>2. Apart(grad[p]) => Apart(<<new>> \o grad[p])
      BY <2>2, <3>1, BatchMerged
    <3>3. QED
      BY <2>1, <3>2
  <2>5. Messages(p)' = new \cup Messages(p)
    BY <1>3, <2>3
  <2>6. QED
    BY <2>3, <2>4, <2>5 DEF new
<1>6. QED
  BY <1>4, <1>5

-----------------------------------------------------------------------------
(* Each step keeps the invariant *)

LEMMA FitInit == Init => WindowInv
<1> SUFFICES ASSUME Init PROVE WindowInv
  OBVIOUS
<1>1. /\ pc = "idle" /\ fit = 0 /\ epoch = 0 /\ inEpoch = 0 /\ counter = 0 /\ todo = {} /\ cached = {}
      /\ phase = [p \in Param |-> "none"] /\ owed = [p \in Param |-> {}]
      /\ \A p \in Param : grad[p] = <<>>
  BY DEF Init, NoGrad
<1>2. /\ MaxFits \in Nat /\ 0 \in 0 .. MaxFits /\ 0 \in 0 .. Epochs - 1 /\ 0 \in 0 .. Batches
  BY TrainerAssumption
<1>3. grad \in [Param -> Seq(SUBSET Message)]
  BY EmptySeq DEF Init, NoGrad
<1>4. TypeOK
  BY <1>1, <1>2, <1>3 DEF TypeOK
<1>5. \A p \in Param : Messages(p) = {} /\ Apart(grad[p])
  BY <1>1, NoMessages DEF Messages
<1>6. QED
  BY <1>1, <1>4, <1>5 DEF WindowInv, FitInv, Begun, NoneAhead, EpochStartsClean, StepSettles, InFlight, Waits

LEMMA BeginKeeps ==
  ASSUME FitInv, BeginFit
  PROVE  FitInv' /\ (Waits => Waits')
<1>1. /\ pc = "idle" /\ fit < MaxFits /\ fit' = fit + 1 /\ epoch' = 0 /\ inEpoch' = 0 /\ counter' = 0
      /\ pc' = "batch" /\ UNCHANGED <<grad, todo, phase, cached, owed>>
  BY DEF BeginFit
<1>2. /\ fit \in Nat /\ fit' \in 0 .. MaxFits /\ fit' >= 1 /\ 0 \in 0 .. Epochs - 1 /\ 0 \in 0 .. Batches
  BY <1>1, TrainerAssumption DEF FitInv, TypeOK
<1>3. TypeOK' /\ Begun'
  BY <1>1, <1>2 DEF FitInv, TypeOK, Begun
<1>4. \A p \in Param : \A m \in Messages(p) : m.fit \in Nat /\ m.fit <= fit
  <2>1. ASSUME NEW p \in Param, NEW m \in Messages(p) PROVE m \in Message
    <3>1. grad[p] \in Seq(SUBSET Message)
      BY DEF FitInv, TypeOK
    <3>2. ToSet(grad[p]) \subseteq SUBSET Message
      BY <3>1, ToSetWithin
    <3>3. QED
      BY <2>1, <3>2 DEF Messages
  <2>2. QED
    BY <2>1 DEF FitInv, NoneAhead, Message
<1>5. \A p \in Param : \A m \in Messages(p) : m.fit < fit' /\ m.fit # fit' /\ m.fit <= fit'
  BY <1>1, <1>2, <1>4
<1>6. \A p \in Param : Messages(p)' = Messages(p)
  BY <1>1 DEF Messages
<1>7. NoneAhead' /\ EpochStartsClean'
  BY <1>1, <1>5, <1>6 DEF NoneAhead, EpochStartsClean, Pending
<1>8. StepSettles'
  BY <1>1 DEF FitInv, StepSettles, InFlight
<1>9. Waits => Waits'
  BY <1>1, <1>5, <1>6 DEF Waits
<1>10. QED
  BY <1>3, <1>7, <1>8, <1>9 DEF FitInv

LEMMA BatchKeeps ==
  ASSUME FitInv, NEW reach \in [Samples -> SUBSET Param], RunBatch(reach)
  PROVE  FitInv' /\ (~Sparse /\ Waits => Waits')
<1>1. /\ pc = "batch" /\ inEpoch < Batches /\ counter' = counter + 1 /\ inEpoch' = inEpoch + 1
      /\ Sparse \/ \A p \in Param : Given(reach, p) # {}
      /\ grad' = [p \in Param |-> Merged(reach, p)]
      /\ owed' = [p \in Param |-> owed[p] \cup Given(reach, p)]
      /\ UNCHANGED <<fit, epoch, cached>>
  BY DEF RunBatch
<1>2. \/ pc' = "step" /\ todo' = Pending(grad') /\ phase' = [p \in Param |-> "none"]
      \/ UNCHANGED <<pc, todo, phase>>
  BY DEF RunBatch, StartStep
<1>3. /\ counter \in Nat /\ inEpoch \in 0 .. Batches /\ Batches \in Nat /\ fit \in 0 .. MaxFits
      /\ epoch \in 0 .. Epochs - 1 /\ cached \subseteq KindSet /\ owed \in [Param -> SUBSET Message]
      /\ todo \subseteq Param
      /\ phase \in [Param -> {"none", "building", "rewriting", "written", "failed"}]
  BY TrainerAssumption DEF FitInv, TypeOK
<1>4. ASSUME NEW p \in Param
      PROVE  /\ Given(reach, p) \subseteq Message
             /\ \A m \in Given(reach, p) : m.fit = fit /\ m.batch = counter + 1
             /\ grad'[p] \in Seq(SUBSET Message)
             /\ Messages(p)' \subseteq Given(reach, p) \cup Messages(p)
             /\ Given(reach, p) # {} => Messages(p)' = Given(reach, p) \cup Messages(p)
             /\ Apart(grad[p]) => Apart(grad'[p])
  BY <1>1, GivenMessages, Merges
<1>5. inEpoch' \in 1 .. Batches /\ counter' \in Nat /\ pc' \in {"batch", "step"}
  BY <1>1, <1>2, <1>3
<1>6. /\ grad' \in [Param -> Seq(SUBSET Message)] /\ owed' \in [Param -> SUBSET Message]
      /\ todo' \subseteq Param
      /\ phase' \in [Param -> {"none", "building", "rewriting", "written", "failed"}]
  <2>1. grad' \in [Param -> Seq(SUBSET Message)]
    <3>1. grad' = [p \in Param |-> grad'[p]]
      BY <1>1
    <3>2. QED
      BY <1>4, <3>1
  <2>2. owed' \in [Param -> SUBSET Message]
    BY <1>1, <1>3, <1>4
  <2>3. QED
    BY <1>2, <1>3, <2>1, <2>2 DEF Pending
<1>7. TypeOK' /\ Begun'
  BY <1>1, <1>3, <1>5, <1>6 DEF FitInv, TypeOK, Begun
<1>8. NoneAhead'
  <2>1. ASSUME NEW p \in Param, NEW m \in Messages(p)'
        PROVE  m.fit <= fit /\ (m.fit = fit => m.batch <= counter + 1)
    <3>1. CASE m \in Given(reach, p)
      BY <1>3, <1>4, <3>1
    <3>2. CASE m \in Messages(p)
      <4>1. m \in Message
        <5>1. grad[p] \in Seq(SUBSET Message)
          BY DEF FitInv, TypeOK
        <5>2. ToSet(grad[p]) \subseteq SUBSET Message
          BY <5>1, ToSetWithin
        <5>3. QED
          BY <3>2, <5>2 DEF Messages
      <4>2. m.fit <= fit /\ (m.fit = fit => m.batch <= counter)
        BY <1>1, <3>2 DEF FitInv, NoneAhead
      <4>3. m.batch \in Nat
        BY <4>1 DEF Message
      <4>4. QED
        BY <1>3, <4>2, <4>3
    <3>3. QED
      BY <1>4, <2>1, <3>1, <3>2
  <2>2. QED
    BY <1>1, <2>1 DEF NoneAhead
<1>9. EpochStartsClean' /\ StepSettles'
  BY <1>1, <1>2, <1>3, <1>5 DEF FitInv, EpochStartsClean, StepSettles, InFlight
<1>10. ASSUME ~Sparse, Waits PROVE Waits'
  <2>1. ASSUME NEW p \in Param PROVE Apart(grad'[p]) /\ {m \in Messages(p)' : m.fit = fit} = owed'[p]
    <3>1. Messages(p)' = Given(reach, p) \cup Messages(p) /\ Apart(grad'[p])
      BY <1>1, <1>4, <1>10 DEF Waits
    <3>2. {m \in Messages(p) : m.fit = fit} = owed[p]
      BY <1>1, <1>10 DEF Waits
    <3>3. owed'[p] = owed[p] \cup Given(reach, p)
      BY <1>1
    <3>4. QED
      BY <1>4, <3>1, <3>2, <3>3
  <2>2. QED
    BY <1>1, <1>5, <2>1 DEF Waits
<1>11. QED
  BY <1>7, <1>8, <1>9, <1>10 DEF FitInv

\* The messages of a parameter depend on its gradient alone.
LEMMA SameMessages ==
  ASSUME UNCHANGED grad
  PROVE  \A p \in Param : Messages(p)' = Messages(p)
  BY DEF Messages

LEMMA BatchFailsKeeps ==
  ASSUME FitInv, NEW lost \in SUBSET Param, BatchFails(lost)
  PROVE  FitInv' /\ (Waits => Waits')
<1>1. /\ pc = "batch" /\ pc' = "idle" /\ UNCHANGED <<fit, epoch, inEpoch, counter, todo, phase, cached>>
      /\ grad' = [p \in Param |-> IF p \in lost THEN <<{Sample(1)}>> ELSE <<>>]
      /\ owed' = [p \in Param |-> {}]
  BY DEF BatchFails, batch
<1>2. 1 \in Samples /\ counter + 1 \in Nat /\ fit \in 1 .. MaxFits /\ fit <= fit
  BY <1>1, TrainerAssumption DEF FitInv, TypeOK, Begun, Samples
<1>3. Sample(1) \in Message /\ Sample(1).fit = fit
  BY <1>2 DEF Sample, Message
<1>4. \A p \in Param : /\ grad'[p] \in Seq(SUBSET Message) /\ Apart(grad'[p])
                       /\ \A m \in Messages(p)' : m.fit = fit
  <2>1. {Sample(1)} \in SUBSET Message
    BY <1>3
  <2>2. PICK one : one = {Sample(1)}
    OBVIOUS
  <2>3. <<one>> \in Seq(SUBSET Message) /\ ToSet(<<one>>) = {one} /\ Apart(<<one>>)
    BY <2>1, <2>2, OneBatch
  <2>4. <<>> \in Seq(SUBSET Message)
    BY EmptySeq
  <2>5. ASSUME NEW p \in Param
        PROVE  /\ grad'[p] \in Seq(SUBSET Message) /\ Apart(grad'[p])
               /\ \A m \in Messages(p)' : m.fit = fit
    <3>1. Messages(p)' = UNION ToSet(grad'[p])
      BY DEF Messages
    <3>2. CASE p \in lost
      <4>1. grad'[p] = <<one>>
        BY <1>1, <2>2, <3>2
      <4>2. UNION ToSet(grad'[p]) = {Sample(1)}
        BY <2>2, <2>3, <4>1
      <4>3. QED
        BY <1>3, <2>3, <3>1, <4>1, <4>2
    <3>3. CASE p \notin lost
      <4>1. grad'[p] = <<>>
        BY <1>1, <3>3
      <4>2. QED
        BY <2>4, <3>1, <4>1, NoMessages
    <3>4. QED
      BY <3>2, <3>3
  <2>6. QED
    BY <2>5
<1>5. grad' \in [Param -> Seq(SUBSET Message)] /\ owed' \in [Param -> SUBSET Message]
  <2>1. grad' = [p \in Param |-> grad'[p]]
    BY <1>1
  <2>2. QED
    BY <1>1, <1>4, <2>1
<1>6. TypeOK' /\ Begun'
  BY <1>1, <1>5 DEF FitInv, TypeOK, Begun
<1>7. NoneAhead' /\ EpochStartsClean' /\ StepSettles'
  BY <1>1, <1>2, <1>4 DEF FitInv, NoneAhead, EpochStartsClean, StepSettles, InFlight
<1>8. Waits'
  BY <1>1, <1>4 DEF Waits
<1>9. QED
  BY <1>6, <1>7, <1>8 DEF FitInv

LEMMA FlushKeeps ==
  ASSUME FitInv, Flush
  PROVE  FitInv' /\ (Waits => Waits')
<1>1. /\ pc = "batch" /\ pc' = "step" /\ todo' = Pending(grad) /\ phase' = [p \in Param |-> "none"]
      /\ UNCHANGED <<fit, epoch, inEpoch, counter, grad, cached, owed>>
  BY DEF Flush, StartStep, batch
<1>2. \A p \in Param : Messages(p)' = Messages(p)
  BY <1>1, SameMessages
<1>3. TypeOK' /\ Begun'
  BY <1>1 DEF FitInv, TypeOK, Begun, Pending
<1>4. NoneAhead' /\ EpochStartsClean' /\ StepSettles'
  BY <1>1, <1>2 DEF FitInv, NoneAhead, EpochStartsClean, StepSettles
<1>5. Waits => Waits'
  BY <1>1, <1>2 DEF Waits
<1>6. QED
  BY <1>3, <1>4, <1>5 DEF FitInv

LEMMA EndEpochKeeps ==
  ASSUME FitInv, NEW stop \in BOOLEAN, EndEpoch(stop)
  PROVE  FitInv' /\ (Waits => Waits')
<1>1. /\ pc = "batch" /\ ~HasPending /\ UNCHANGED <<fit, counter, grad, todo, phase, cached, owed>>
      /\ \/ pc' = "idle" /\ UNCHANGED <<epoch, inEpoch>>
         \/ pc' = "batch" /\ epoch' = epoch + 1 /\ inEpoch' = 0 /\ epoch + 1 # Epochs
  BY DEF EndEpoch
<1>2. Pending(grad)' = {} /\ \A p \in Param : grad[p] = <<>>
  BY <1>1 DEF HasPending, Pending
<1>3. \A p \in Param : Messages(p) = {} /\ Messages(p)' = {}
  <2>1. \A p \in Param : Messages(p) = {}
    BY <1>2, NoMessages DEF Messages
  <2>2. QED
    BY <1>1, <2>1, SameMessages
<1>4. epoch' \in 0 .. Epochs - 1 /\ inEpoch' \in 0 .. Batches
  BY <1>1, TrainerAssumption DEF FitInv, TypeOK
<1>5. TypeOK' /\ Begun'
  BY <1>1, <1>4 DEF FitInv, TypeOK, Begun
<1>6. NoneAhead' /\ EpochStartsClean' /\ StepSettles'
  BY <1>1, <1>2, <1>3 DEF FitInv, NoneAhead, EpochStartsClean, StepSettles, InFlight
<1>7. Waits => Waits'
  BY <1>1, <1>3 DEF Waits
<1>8. QED
  BY <1>5, <1>6, <1>7 DEF FitInv

\* The rewrites of a step leave the gradients alone.
LEMMA RewriteKeeps ==
  ASSUME FitInv, NEW p \in Param, Acquire(p) \/ BuildRaises(p) \/ Built(p) \/ Rewritten(p)
  PROVE  FitInv' /\ (Waits => Waits')
<1>1. UNCHANGED <<pc, fit, epoch, inEpoch, counter, grad, owed>> /\ pc = "step"
  <2>1. UNCHANGED <<pc, fit, epoch, inEpoch, counter, grad, owed>>
    BY DEF Acquire, BuildRaises, Built, Rewritten, batch
  <2>2. CASE Acquire(p)
    BY <2>1, <2>2 DEF Acquire
  <2>3. CASE BuildRaises(p) \/ Built(p) \/ Rewritten(p)
    <3>1. p \in InFlight
      BY <2>3 DEF BuildRaises, Built, Rewritten, InFlight
    <3>2. QED
      BY <2>1, <3>1 DEF FitInv, StepSettles
  <2>4. QED
    BY <2>1, <2>2, <2>3
<1>2. /\ todo' \subseteq Param /\ cached' \subseteq KindSet
      /\ phase' \in [Param -> {"none", "building", "rewriting", "written", "failed"}]
  BY DEF Acquire, BuildRaises, Built, Rewritten, At, FitInv, TypeOK, KindSet
<1>3. \A q \in Param : Messages(q)' = Messages(q)
  BY <1>1, SameMessages
<1>4. TypeOK' /\ Begun'
  BY <1>1, <1>2 DEF FitInv, TypeOK, Begun
<1>5. NoneAhead' /\ EpochStartsClean' /\ StepSettles'
  BY <1>1, <1>3 DEF FitInv, NoneAhead, EpochStartsClean, StepSettles
<1>6. Waits => Waits'
  BY <1>1, <1>3 DEF Waits
<1>7. QED
  BY <1>4, <1>5, <1>6 DEF FitInv

LEMMA StepDoneKeeps ==
  ASSUME FitInv, StepDone
  PROVE  FitInv' /\ (Waits => Waits')
<1>1. /\ pc = "step" /\ Settled /\ pc' = "batch" /\ UNCHANGED <<fit, epoch, inEpoch, counter, todo, phase, cached>>
      /\ grad' = [p \in Param |-> <<>>] /\ owed' = [p \in Param |-> {}]
  BY DEF StepDone, batch, NoGrad
<1>2. grad' \in [Param -> Seq(SUBSET Message)] /\ \A p \in Param : grad'[p] = <<>>
  BY <1>1, EmptySeq
<1>3. \A p \in Param : Messages(p)' = {}
  <2>1. ASSUME NEW p \in Param PROVE Messages(p)' = {}
    <3>1. Messages(p)' = UNION ToSet(grad'[p])
      BY DEF Messages
    <3>2. QED
      BY <1>2, <3>1, NoMessages
  <2>2. QED
    BY <2>1
<1>4. TypeOK' /\ Begun'
  BY <1>1, <1>2 DEF FitInv, TypeOK, Begun
<1>5. NoneAhead' /\ EpochStartsClean' /\ StepSettles'
  BY <1>1, <1>2, <1>3 DEF FitInv, NoneAhead, EpochStartsClean, StepSettles, Pending, Settled, InFlight
<1>6. Waits'
  BY <1>1, <1>2, <1>3, NoMessages DEF Waits
<1>7. QED
  BY <1>4, <1>5, <1>6 DEF FitInv

LEMMA StepRaisesKeeps ==
  ASSUME FitInv, StepRaises
  PROVE  FitInv' /\ (Waits => Waits')
<1>1. /\ pc = "step" /\ Settled /\ pc' = "idle" /\ owed' = [p \in Param |-> {}]
      /\ UNCHANGED <<fit, epoch, inEpoch, counter, grad, todo, phase, cached>>
  BY DEF StepRaises, batch
<1>2. \A p \in Param : Messages(p)' = Messages(p)
  BY <1>1, SameMessages
<1>3. TypeOK' /\ Begun'
  BY <1>1 DEF FitInv, TypeOK, Begun
<1>4. NoneAhead' /\ EpochStartsClean' /\ StepSettles'
  BY <1>1, <1>2 DEF FitInv, NoneAhead, EpochStartsClean, StepSettles, Settled, InFlight
<1>5. Waits => Waits'
  BY <1>1 DEF Waits
<1>6. QED
  BY <1>3, <1>4, <1>5 DEF FitInv

LEMMA FitStep ==
  ASSUME FitInv, [Next]_vars
  PROVE  FitInv' /\ (~Sparse /\ Waits => Waits')
<1>1. CASE BeginFit
  BY <1>1, BeginKeeps
<1>2. ASSUME NEW reach \in [Samples -> SUBSET Param], RunBatch(reach)
      PROVE  FitInv' /\ (~Sparse /\ Waits => Waits')
  BY <1>2, BatchKeeps
<1>3. ASSUME NEW lost \in SUBSET Param, BatchFails(lost)
      PROVE  FitInv' /\ (Waits => Waits')
  BY <1>3, BatchFailsKeeps
<1>4. CASE Flush
  BY <1>4, FlushKeeps
<1>5. ASSUME NEW stop \in BOOLEAN, EndEpoch(stop)
      PROVE  FitInv' /\ (Waits => Waits')
  BY <1>5, EndEpochKeeps
<1>6. ASSUME NEW p \in Param, Acquire(p) \/ BuildRaises(p) \/ Built(p) \/ Rewritten(p)
      PROVE  FitInv' /\ (Waits => Waits')
  BY <1>6, RewriteKeeps
<1>7. CASE StepDone
  BY <1>7, StepDoneKeeps
<1>8. CASE StepRaises
  BY <1>8, StepRaisesKeeps
<1>9. CASE Finished \/ UNCHANGED vars
  <2>1. UNCHANGED <<pc, fit, epoch, inEpoch, counter, grad, todo, phase, cached, owed>>
    BY <1>9 DEF Finished, vars, batch
  <2>2. \A p \in Param : Messages(p)' = Messages(p)
    BY <2>1, SameMessages
  <2>3. TypeOK' /\ Begun'
    BY <2>1 DEF FitInv, TypeOK, Begun
  <2>4. NoneAhead' /\ StepSettles'
    BY <2>1, <2>2 DEF FitInv, NoneAhead, StepSettles, InFlight
  <2>5. EpochStartsClean'
    BY <2>1, <2>2 DEF FitInv, EpochStartsClean, Pending
  <2>6. Waits => Waits'
    BY <2>1, <2>2 DEF Waits
  <2>7. QED
    BY <2>3, <2>4, <2>5, <2>6 DEF FitInv
<1>10. QED
  BY <1>1, <1>2, <1>3, <1>4, <1>5, <1>6, <1>7, <1>8, <1>9 DEF Next

-----------------------------------------------------------------------------
(* Theorems *)

\* Whatever fits raise and whichever samples give no gradient, no rewrite runs
\* on once optimizer.step() has returned, and an epoch starts with no gradient
\* of another epoch of its fit.
THEOREM TrainerStepsSound == Spec => []StepsSound
<1>1. Init => FitInv
  BY FitInit DEF WindowInv
<1>2. FitInv /\ [Next]_vars => FitInv'
  BY FitStep
<1>3. FitInv => StepsSound
  BY DEF FitInv, StepsSound
<1>4. QED
  BY <1>1, <1>2, <1>3, PTL DEF Spec

\* Where each batch gives each parameter a gradient, optimizer.step() is given
\* the message of each sample since the last step exactly once, for any number
\* of batches, window and fits: neither _merge_grads nor the flush at the end of
\* an epoch loses one or gives it twice.
THEOREM TrainerStepCovers ==
  ASSUME ~Sparse
  PROVE  Spec => []StepCoversWindow
<1>1. Init => WindowInv
  BY FitInit
<1>2. WindowInv /\ [Next]_vars => WindowInv'
  BY FitStep DEF WindowInv
<1>3. WindowInv => StepCoversWindow
  <2>1. SUFFICES ASSUME WindowInv, pc = "step", NEW p \in Param
                 PROVE  /\ {m \in Messages(p) : m.fit = fit} = owed[p]
                        /\ \A i, j \in DOMAIN grad[p] : i # j => grad[p][i] \cap grad[p][j] = {}
    BY DEF StepCoversWindow
  <2>2. {m \in Messages(p) : m.fit = fit} = owed[p] /\ Apart(grad[p])
    BY <2>1 DEF WindowInv, Waits
  <2>3. DOMAIN grad[p] = 1 .. Len(grad[p])
    <3>1. grad[p] \in Seq(SUBSET Message)
      BY <2>1 DEF WindowInv, FitInv, TypeOK
    <3>2. QED
      BY <3>1
  <2>4. QED
    BY <2>2, <2>3 DEF Apart
<1>4. QED
  BY <1>1, <1>2, <1>3, PTL DEF Spec

-----------------------------------------------------------------------------
(* Training that is saved, lost in a crash and taken up again                *)

Entry == [grad : Nat, decayed : Nat, typed : BOOLEAN]

\* The history after n pushes.
IsWindow(h, n) ==
  /\ h \in Seq(Entry) /\ n \in Nat
  /\ Len(h) = IF HistoryK > 0 THEN AtMost(n, HistoryK) ELSE n
  /\ \A i \in 1 .. Len(h) :
       /\ h[i].grad = n - Len(h) + i
       /\ h[i].decayed = IF decays THEN Len(h) - i ELSE 0

\* The schedule that started from b, after e epochs: a part of a sequence that had its turn,
\* or has it, counts from where it was handed over, and those after it have not begun.
SchedOK(s, b, e) ==
  /\ s = [base |-> b, last |-> e - 1, part |-> s.part] /\ s.part \in [Parts -> Int] /\ e \in Nat
  /\ schedule.mode # "sequential" => \A i \in Parts : s.part[i] = s.last
  /\ schedule.mode = "sequential" =>
       /\ \A i \in Parts : (e = 0 \/ i > Active(s.last)) => s.part[i] = -1
       /\ e > 0 => s.part[Active(s.last)] = s.last - HandedOver(Active(s.last))

\* A rate and a schedule that are where n epochs put them.
OnPlan(r, s, n, l) ==
  /\ n \in Nat /\ l.since \in Nat
  /\ SchedOK(s, l.base, n - l.since) /\ r = Planned(l.base, n - l.since)

BundleOK ==
  bundle.is = "whole" =>
    /\ IsWindow(bundle.history, bundle.pushes)
    /\ bundle.epochs \in Nat
    /\ bundle.sched # None0 => OnPlan(bundle.rate, bundle.sched, bundle.epochs, bundle.plan)

ResumeInv ==
  /\ schedule \in Schedules
  /\ IsWindow(history, pushes)
  /\ OnPlan(rate, sched, epochs, plan)
  /\ BundleOK

-----------------------------------------------------------------------------

\* A set of the first numbers is known by its size.
LEMMA FirstOnes ==
  ASSUME NEW n \in Nat, NEW S, S \subseteq 1 .. n, \A i \in S : \A j \in 1 .. i : j \in S
  PROVE  Cardinality(S) \in 0 .. n /\ S = 1 .. Cardinality(S)
<1> DEFINE K == {i \in 1 .. n + 1 : i \notin S}
<1>1. K \subseteq Nat /\ n + 1 \in K
  OBVIOUS
<1>2. PICK k \in K : \A j \in K : k <= j
  BY <1>1, NatMin
<1>3. k \in 1 .. n + 1 /\ k \notin S /\ \A j \in 1 .. n + 1 : j \notin S => k <= j
  BY <1>2
<1> HIDE DEF K
<1>4. S = 1 .. k - 1
  <2>1. ASSUME NEW i \in S PROVE i \in 1 .. k - 1
    <3>1. i \in 1 .. n /\ \A j \in 1 .. i : j \in S
      BY <2>1
    <3>2. ~(k \in 1 .. i)
      BY <1>3, <3>1
    <3>3. QED
      BY <1>3, <3>1, <3>2
  <2>2. ASSUME NEW i \in 1 .. k - 1 PROVE i \in S
    <3>1. i \in 1 .. n + 1 /\ ~(k <= i)
      BY <1>3, <2>2
    <3>2. QED
      BY <1>3, <3>1
  <2>3. QED
    BY <2>1, <2>2
<1>5. Cardinality(1 .. k - 1) = k - 1
  <2>1. Cardinality(1 .. k - 1) = IF 1 > k - 1 THEN 0 ELSE (k - 1) - 1 + 1
    BY <1>3, FS_Interval
  <2>2. QED
    BY <1>3, <2>1
<1>6. QED
  BY <1>3, <1>4, <1>5

\* What a sequence of schedules is.
LEMMA SequenceIs ==
  ASSUME schedule \in Schedules, schedule.mode = "sequential"
  PROVE  /\ Len(schedule.parts) \in Nat \ {0}
         /\ DOMAIN schedule.milestones = 1 .. Len(schedule.parts) - 1
         /\ \A i \in DOMAIN schedule.milestones :
              /\ schedule.milestones[i] \in Int
              /\ \A j \in 1 .. i : schedule.milestones[j] <= schedule.milestones[i]
  BY ResumeAssumption, Zenon

\* bisect_right: the milestones that are passed are the first ones.
LEMMA PassedOnes ==
  ASSUME schedule \in Schedules, schedule.mode = "sequential", NEW t \in Int
  PROVE  /\ Passed(schedule.milestones, t) \in 0 .. Len(schedule.parts) - 1
         /\ \A i \in 1 .. Len(schedule.parts) - 1 :
              i <= Passed(schedule.milestones, t) <=> schedule.milestones[i] <= t
<1> DEFINE m == schedule.milestones
           n == Len(schedule.parts) - 1
           S == {i \in DOMAIN m : m[i] <= t}
<1>1. /\ n \in Nat /\ DOMAIN m = 1 .. n
      /\ \A i \in 1 .. n : m[i] \in Int /\ \A j \in 1 .. i : m[j] <= m[i]
  <2>1. n \in Nat
    BY SequenceIs
  <2>2. QED
    BY <2>1, SequenceIs
<1>2. Passed(m, t) = Cardinality(S)
  BY DEF Passed
<1> HIDE DEF m, n
<1>3. S \subseteq 1 .. n
  BY <1>1
<1>4. ASSUME NEW i \in S, NEW j \in 1 .. i PROVE j \in S
  <2>1. i \in 1 .. n /\ m[i] <= t /\ j \in 1 .. n
    BY <1>1, <1>4
  <2>2. m[j] <= m[i] /\ m[i] \in Int /\ m[j] \in Int
    BY <1>1, <1>4, <2>1
  <2>3. m[j] <= t
    BY <2>1, <2>2
  <2>4. QED
    BY <1>1, <2>1, <2>3
<1>5. Cardinality(S) \in 0 .. n /\ S = 1 .. Cardinality(S)
  <2> HIDE DEF S
  <2> QED BY <1>1, <1>3, <1>4, FirstOnes
<1>6. \A i \in 1 .. n : i \in S <=> m[i] <= t
  BY <1>1
<1> HIDE DEF S
<1>7. \A i \in 1 .. n : i <= Cardinality(S) <=> m[i] <= t
  BY <1>1, <1>5, <1>6
<1>8. QED
  BY <1>2, <1>5, <1>7 DEF m, n

\* The part of an epoch, and the one of the next.
LEMMA ActiveOnes ==
  ASSUME schedule \in Schedules, schedule.mode = "sequential", NEW t \in Int, t >= -1
  PROVE  /\ Active(t) \in Parts /\ Active(t + 1) \in Parts /\ Active(t) <= Active(t + 1)
         /\ Active(0) \in Parts /\ HandedOver(Active(0)) = 0
         /\ Active(t) \in Int /\ HandedOver(Active(t)) \in Int
         /\ t >= 0 /\ Active(t) < Active(t + 1) => HandedOver(Active(t + 1)) = t + 1
<1> DEFINE m == schedule.milestones
           n == Len(schedule.parts) - 1
           A(u) == Passed(m, u)
<1>1. /\ n \in Nat /\ Parts = 1 .. n + 1
      /\ \A i \in 1 .. n : m[i] \in Int
  <2>1. n \in Nat /\ n + 1 = Len(schedule.parts)
    BY SequenceIs
  <2>2. Parts = 1 .. Len(schedule.parts)
    BY ResumeAssumption, Zenon DEF Parts
  <2>3. QED
    BY <2>1, <2>2, SequenceIs
<1>2. \A u \in Int : A(u) \in 0 .. n /\ \A i \in 1 .. n : i <= A(u) <=> m[i] <= u
  BY PassedOnes
<1>3. \A u \in Int : Active(u) = A(u) + 1
  BY DEF Active
<1>4. \A i \in 1 .. n + 1 : HandedOver(i) = IF i = 1 THEN 0 ELSE IF m[i - 1] < 0 THEN 0 ELSE m[i - 1]
  BY DEF HandedOver, AtLeast0
<1>9. /\ A(t) \in 0 .. n /\ A(t + 1) \in 0 .. n /\ A(0) \in 0 .. n
      /\ \A i \in 1 .. n : (i <= A(t) <=> m[i] <= t) /\ (i <= A(t + 1) <=> m[i] <= t + 1)
                          /\ (i <= A(0) <=> m[i] <= 0)
  <2>1. t \in Int /\ t + 1 \in Int /\ 0 \in Int
    OBVIOUS
  <2> HIDE DEF A, n
  <2>2. QED
    BY <1>2, <2>1
<1> HIDE DEF m, n, A
<1>5. A(t) <= A(t + 1)
  <2>1. CASE A(t) = 0
    BY <1>2, <2>1
  <2>2. CASE A(t) # 0
    <3>1. A(t) \in 1 .. n /\ m[A(t)] <= t /\ m[A(t)] \in Int
      BY <1>1, <1>9, <2>2
    <3>2. m[A(t)] <= t + 1
      BY <3>1
    <3>3. QED
      BY <1>9, <3>1, <3>2
  <2>3. QED
    BY <2>1, <2>2
<1>6. HandedOver(A(0) + 1) = 0
  <2>1. CASE A(0) = 0
    BY <1>1, <1>4, <2>1
  <2>2. CASE A(0) # 0
    <3>1. A(0) \in 1 .. n /\ m[A(0)] <= 0 /\ m[A(0)] \in Int
      BY <1>1, <1>9, <2>2
    <3>2. A(0) + 1 \in 1 .. n + 1 /\ A(0) + 1 # 1 /\ (A(0) + 1) - 1 = A(0)
      BY <1>1, <3>1
    <3>3. QED
      BY <1>4, <3>1, <3>2
  <2>3. QED
    BY <2>1, <2>2
<1>7. ASSUME t >= 0, A(t) < A(t + 1) PROVE HandedOver(A(t + 1) + 1) = t + 1
  <2>1. A(t + 1) \in 1 .. n /\ m[A(t + 1)] <= t + 1 /\ m[A(t + 1)] \in Int
    <3>1. A(t + 1) \in 1 .. n
      BY <1>1, <1>7, <1>9
    <3>2. QED
      BY <1>1, <1>9, <3>1
  <2>2. ~(m[A(t + 1)] <= t)
    BY <1>1, <1>7, <1>9, <2>1
  <2>3. m[A(t + 1)] = t + 1
    BY <2>1, <2>2
  <2>4. A(t + 1) + 1 \in 1 .. n + 1 /\ A(t + 1) + 1 # 1 /\ (A(t + 1) + 1) - 1 = A(t + 1)
    BY <1>1, <2>1
  <2>5. QED
    BY <1>4, <1>7, <2>3, <2>4
<1>8. \A i \in 1 .. n + 1 : HandedOver(i) \in Int
  <2>1. ASSUME NEW i \in 1 .. n + 1, i # 1 PROVE m[i - 1] \in Int
    <3>1. i - 1 \in 1 .. n
      BY <1>1, <2>1
    <3>2. QED
      BY <1>1, <3>1
  <2>2. QED
    BY <1>4, <2>1
<1>10. /\ Active(t) = A(t) + 1 /\ Active(t + 1) = A(t + 1) + 1 /\ Active(0) = A(0) + 1
       /\ A(t) + 1 \in 1 .. n + 1
  BY <1>1, <1>3, <1>9
<1>11. /\ Active(t) \in Parts /\ Active(t + 1) \in Parts /\ Active(0) \in Parts
       /\ Active(t) <= Active(t + 1)
  BY <1>1, <1>5, <1>9, <1>10
<1>12. HandedOver(Active(t)) \in Int
  BY <1>8, <1>10
<1>13. t >= 0 /\ Active(t) < Active(t + 1) => HandedOver(Active(t + 1)) = t + 1
  <2>1. Active(t) < Active(t + 1) => A(t) < A(t + 1)
    BY <1>1, <1>9, <1>10
  <2>2. QED
    BY <1>7, <1>10, <2>1
<1>14. QED
  BY <1>1, <1>6, <1>9, <1>10, <1>11, <1>12, <1>13

\* A step of the scheduler: the rate is the one planned for the next epoch.
LEMMA SchedAdvances ==
  ASSUME schedule \in Schedules, NEW s, NEW b, NEW e, SchedOK(s, b, e)
  PROVE  SchedOK(Advance(s), b, e + 1) /\ Written(Advance(s)) = Planned(b, e + 1)
<1> DEFINE t == Advance(s)
<1>1. /\ s = [base |-> b, last |-> e - 1, part |-> s.part]
      /\ s.part \in [Parts -> Int] /\ e \in Nat /\ s.last = e - 1
  BY DEF SchedOK
<1>2. /\ t = [base |-> b, last |-> e, part |-> t.part]
      /\ t.part \in [Parts -> Int] /\ t.base = b /\ t.last = e
      /\ \A i \in Parts : t.part[i] = IF i \in Stepping(e) THEN s.part[i] + 1 ELSE s.part[i]
  <2>1. s.last + 1 = e /\ e \in Int
    BY <1>1
  <2> DEFINE q == [i \in Parts |-> IF i \in Stepping(s.last + 1) THEN s.part[i] + 1 ELSE s.part[i]]
  <2>2. t = [s EXCEPT !.last = s.last + 1, !.part = q]
    BY Zenon DEF Advance
  <2>3. q \in [Parts -> Int] /\ \A i \in Parts : q[i] = IF i \in Stepping(e) THEN s.part[i] + 1 ELSE s.part[i]
    BY <1>1, <2>1
  <2> HIDE DEF q, t
  <2>4. PICK x : s = [base |-> b, last |-> e - 1, part |-> x]
    BY <1>1
  <2>5. t = [base |-> b, last |-> e, part |-> q]
    <3>1. t = [s EXCEPT !.last = e, !.part = q]
      BY <2>1, <2>2, Zenon
    <3>2. t = [[base |-> b, last |-> e - 1, part |-> x] EXCEPT !.last = e, !.part = q]
      BY <2>4, <3>1, Zenon
    <3>3. QED
      BY <3>2
  <2>6. t.base = b /\ t.last = e /\ t.part = q
    BY <2>5
  <2>7. t = [base |-> b, last |-> e, part |-> t.part]
    BY <2>5, <2>6, Zenon
  <2>8. \A i \in Parts : t.part[i] = IF i \in Stepping(e) THEN s.part[i] + 1 ELSE s.part[i]
    BY <2>3, <2>6, Zenon
  <2>9. QED
    BY <2>3, <2>6, <2>7, <2>8, Zenon
<1>3. Planned(b, e + 1) = LET i == IF schedule.mode = "sequential" THEN Active(e) ELSE Len(schedule.parts)
                       IN GetLr(schedule.parts[i], b,
                                IF schedule.mode = "sequential" THEN e - HandedOver(i) ELSE e)
  BY <1>1 DEF Planned, Active
<1>4. Parts = 1 .. Len(schedule.parts) /\ Len(schedule.parts) \in Nat \ {0}
  <2>1. DOMAIN schedule.parts = 1 .. Len(schedule.parts) /\ Len(schedule.parts) \in Nat \ {0}
    BY ResumeAssumption, Zenon
  <2>2. QED
    BY <2>1 DEF Parts
<1>5. Written(t) = LET i == CHOOSE p \in Stepping(e) : \A q \in Stepping(e) : q <= p
                   IN GetLr(schedule.parts[i], b, t.part[i])
  BY <1>2 DEF Written
<1> HIDE DEF t
<1>6. CASE schedule.mode # "sequential"
  <2>1. Stepping(e) = Parts
    BY <1>6 DEF Stepping
  <2>2. \A i \in Parts : t.part[i] = e
    BY <1>1, <1>2, <1>6, <2>1 DEF SchedOK
  <2>3. (CHOOSE p \in Parts : \A q \in Parts : q <= p) = Len(schedule.parts)
    <3>1. Len(schedule.parts) \in Parts /\ \A q \in Parts : q <= Len(schedule.parts)
      BY <1>4
    <3>2. \A p \in Parts : (\A q \in Parts : q <= p) => p = Len(schedule.parts)
      BY <1>4
    <3>3. QED
      BY <3>1, <3>2
  <2>4. Written(t) = GetLr(schedule.parts[Len(schedule.parts)], b, e)
    <3>1. t.part[Len(schedule.parts)] = e
      BY <1>4, <2>2
    <3>2. QED
      BY <1>5, <2>1, <2>3, <3>1
  <2>5. SchedOK(t, b, e + 1)
    BY <1>1, <1>2, <1>6, <2>2 DEF SchedOK
  <2>6. QED
    BY <1>3, <1>6, <2>4, <2>5 DEF t
<1>7. CASE schedule.mode = "sequential"
  <2>1. Stepping(e) = {Active(e)}
    BY <1>7 DEF Stepping
  <2>2. e - 1 \in Int /\ e - 1 >= -1 /\ (e - 1) + 1 = e
    BY <1>1
  <2>3. /\ Active(e - 1) \in Parts /\ Active(e) \in Parts /\ Active(e - 1) <= Active(e)
        /\ e = 0 => HandedOver(Active(e)) = 0
        /\ HandedOver(Active(e - 1)) \in Int
        /\ e > 0 /\ Active(e - 1) < Active(e) => HandedOver(Active(e)) = e
    BY <1>1, <1>7, <2>2, ActiveOnes
  <2>4. /\ \A i \in Parts : (e = 0 \/ i > Active(e - 1)) => s.part[i] = -1
        /\ e > 0 => s.part[Active(e - 1)] = (e - 1) - HandedOver(Active(e - 1))
    BY <1>1, <1>7 DEF SchedOK
  <2>5. t.part[Active(e)] = e - HandedOver(Active(e))
    <3>1. t.part[Active(e)] = s.part[Active(e)] + 1
      BY <1>2, <2>1, <2>3
    <3>2. CASE e = 0
      BY <2>3, <2>4, <3>1, <3>2
    <3>3. CASE e > 0 /\ Active(e - 1) < Active(e)
      <4>1. s.part[Active(e)] = -1
        BY <2>3, <2>4, <3>3
      <4>2. HandedOver(Active(e)) = e
        BY <2>3, <3>3
      <4>3. QED
        BY <1>1, <3>1, <4>1, <4>2
    <3>4. CASE e > 0 /\ Active(e - 1) = Active(e)
      BY <1>1, <2>3, <2>4, <3>1, <3>4
    <3>5. QED
      BY <1>1, <1>4, <2>3, <3>2, <3>3, <3>4
  <2>6. \A i \in Parts : i > Active(e) => t.part[i] = -1
    <3>1. SUFFICES ASSUME NEW i \in Parts, i > Active(e) PROVE t.part[i] = -1
      OBVIOUS
    <3>2. i # Active(e) /\ i > Active(e - 1)
      BY <1>4, <2>3, <3>1
    <3>3. QED
      BY <1>2, <2>1, <2>4, <3>2
  <2>7. SchedOK(t, b, e + 1)
    <3>1. e + 1 \in Nat /\ e + 1 > 0 /\ e + 1 # 0 /\ (e + 1) - 1 = e
      BY <1>1
    <3>2. QED
      BY <1>2, <1>7, <2>5, <2>6, <3>1 DEF SchedOK
  <2>8. (CHOOSE p \in {Active(e)} : \A q \in {Active(e)} : q <= p) = Active(e)
    BY <1>4, <2>3
  <2>9. Written(t) = GetLr(schedule.parts[Active(e)], b, e - HandedOver(Active(e)))
    BY <1>5, <2>1, <2>5, <2>8
  <2>10. QED
    BY <1>3, <1>7, <2>7, <2>9 DEF t
<1>8. QED
  BY <1>6, <1>7

\* A push: what was there decays once, and the oldest goes when the window is full.
LEMMA PushSlides ==
  ASSUME IsWindow(history, pushes), Push, decays' = decays
  PROVE  IsWindow(history', pushes')
<1> DEFINE new == [grad |-> pushes + 1, decayed |-> 0, typed |-> TRUE]
           h == Decayed(history)
           g == Append(h, new)
           n == Len(history)
<1>1. history \in Seq(Entry) /\ pushes \in Nat /\ n \in Nat /\ HistoryK \in Nat
  BY ResumeAssumption DEF IsWindow
<1>2. pushes' = pushes + 1 /\ history' = LastK(g)
  BY DEF Push
<1>3. /\ n = IF HistoryK > 0 THEN AtMost(pushes, HistoryK) ELSE pushes
      /\ \A i \in 1 .. n : /\ history[i].grad = pushes - n + i
                           /\ history[i].decayed = IF decays THEN n - i ELSE 0
  BY DEF IsWindow
<1>4. h \in Seq(Entry) /\ Len(h) = n
      /\ \A i \in 1 .. n : /\ h[i].grad = history[i].grad
                           /\ h[i].decayed = IF decays THEN history[i].decayed + 1 ELSE history[i].decayed
  <2>1. CASE decays
    <3>1. h = [i \in 1 .. n |-> [history[i] EXCEPT !.decayed = @ + 1]]
      BY <1>1, <2>1 DEF Decayed
    <3>2. ASSUME NEW i \in 1 .. n
          PROVE  /\ [history[i] EXCEPT !.decayed = @ + 1] \in Entry
                 /\ [history[i] EXCEPT !.decayed = @ + 1].grad = history[i].grad
                 /\ [history[i] EXCEPT !.decayed = @ + 1].decayed = history[i].decayed + 1
      <4>1. history[i] \in Entry
        BY <1>1
      <4>2. QED
        BY <4>1 DEF Entry
    <3> HIDE DEF h
    <3>3. h \in [1 .. n -> Entry]
      BY <3>1, <3>2
    <3>4. h \in Seq(Entry) /\ Len(h) = n
      BY <1>1, <3>3
    <3>5. \A i \in 1 .. n : h[i] = [history[i] EXCEPT !.decayed = @ + 1]
      BY <3>1
    <3>6. \A i \in 1 .. n : h[i].grad = history[i].grad /\ h[i].decayed = history[i].decayed + 1
      BY <3>2, <3>5
    <3>7. QED
      BY <2>1, <3>4, <3>6
  <2>2. CASE ~decays
    BY <1>1, <2>2 DEF Decayed
  <2>3. QED
    BY <2>1, <2>2
<1>5. new \in Entry /\ new.grad = pushes + 1 /\ new.decayed = 0
  BY <1>1 DEF Entry
<1> HIDE DEF h, new, n
<1>6. /\ g \in Seq(Entry) /\ Len(g) = n + 1 /\ g[n + 1] = new
      /\ \A i \in 1 .. n : g[i] = h[i]
  BY <1>1, <1>4, <1>5
<1> HIDE DEF g
<1>7. ASSUME NEW i \in 1 .. n + 1
      PROVE  /\ g[i].grad = (pushes + 1) - (n + 1) + i
             /\ g[i].decayed = IF decays THEN (n + 1) - i ELSE 0
  <2>1. CASE i = n + 1
    BY <1>1, <1>5, <1>6, <2>1
  <2>2. CASE i # n + 1
    <3>1. i \in 1 .. n
      BY <1>1, <1>7, <2>2
    <3>2. history[i].grad = pushes - n + i /\ history[i].decayed = IF decays THEN n - i ELSE 0
      BY <1>3, <3>1
    <3>3. g[i] = h[i] /\ h[i].grad = history[i].grad
      BY <1>4, <1>6, <3>1
    <3>4. h[i].decayed = IF decays THEN n - i + 1 ELSE 0
      BY <1>4, <3>1, <3>2
    <3>5. (pushes + 1) - (n + 1) + i = pushes - n + i /\ (n + 1) - i = n - i + 1
      BY <1>1, <3>1
    <3>6. QED
      BY <3>2, <3>3, <3>4, <3>5
  <2>3. QED
    BY <2>1, <2>2
<1>8. CASE HistoryK > 0 /\ n + 1 > HistoryK
  <2> DEFINE k == n + 1 - HistoryK
             s == SubSeq(g, k + 1, n + 1)
  <2>1. n = HistoryK /\ pushes >= HistoryK
    BY <1>1, <1>3, <1>8 DEF AtMost
  <2>2. k = 1 /\ history' = s
    <3>1. Len(g) > HistoryK /\ Len(g) - HistoryK + 1 = 2 /\ Len(g) = n + 1
      BY <1>1, <1>6, <1>8, <2>1
    <3>2. LastK(g) = SubSeq(g, Len(g) - HistoryK + 1, Len(g))
      BY <1>8, <3>1 DEF LastK
    <3>3. k = 1 /\ k + 1 = 2
      BY <1>1, <2>1
    <3>4. QED
      BY <1>2, <3>1, <3>2, <3>3
  <2>3. s \in Seq(Entry) /\ Len(s) = n /\ \A i \in 1 .. n : s[i] = g[i + 1] /\ i + 1 \in 1 .. n + 1
    <3>1. s = SubSeq(g, 2, n + 1) /\ n + 1 <= Len(g)
      BY <1>6, <2>2
    <3> HIDE DEF s
    <3>2. QED
      BY <1>1, <1>6, <3>1
  <2> HIDE DEF s
  <2>4. ASSUME NEW i \in 1 .. n
        PROVE  s[i].grad = (pushes + 1) - n + i /\ s[i].decayed = IF decays THEN n - i ELSE 0
    <3>1. /\ s[i] = g[i + 1]
          /\ g[i + 1].grad = (pushes + 1) - (n + 1) + (i + 1)
          /\ g[i + 1].decayed = IF decays THEN (n + 1) - (i + 1) ELSE 0
      BY <1>7, <2>3
    <3>2. (pushes + 1) - (n + 1) + (i + 1) = (pushes + 1) - n + i /\ (n + 1) - (i + 1) = n - i
      BY <1>1
    <3>3. QED
      BY <3>1, <3>2
  <2>5. n = AtMost(pushes + 1, HistoryK)
    BY <1>1, <2>1 DEF AtMost
  <2>6. QED
    BY <1>1, <1>2, <1>8, <2>2, <2>3, <2>4, <2>5 DEF IsWindow
<1>9. CASE ~(HistoryK > 0 /\ n + 1 > HistoryK)
  <2>1. history' = g
    BY <1>2, <1>6, <1>9 DEF LastK
  <2>2. n + 1 = IF HistoryK > 0 THEN AtMost(pushes + 1, HistoryK) ELSE pushes + 1
    BY <1>1, <1>3, <1>9 DEF AtMost
  <2>3. QED
    <3>1. /\ history' \in Seq(Entry) /\ pushes' \in Nat /\ Len(history') = n + 1
          /\ Len(history') = IF HistoryK > 0 THEN AtMost(pushes', HistoryK) ELSE pushes'
      BY <1>1, <1>2, <1>6, <2>1, <2>2
    <3>2. \A i \in 1 .. n + 1 : /\ history'[i].grad = pushes' - (n + 1) + i
                                /\ history'[i].decayed = IF decays THEN (n + 1) - i ELSE 0
      BY <1>2, <1>7, <2>1
    <3>3. QED
      BY <3>1, <3>2 DEF IsWindow
<1>10. QED
  BY <1>8, <1>9

\* Freezing keeps the window: BaseModels become dicts.
LEMMA DumpKeepsWindow ==
  ASSUME NEW h, NEW n, IsWindow(h, n)
  PROVE  IsWindow([i \in DOMAIN h |-> [h[i] EXCEPT !.typed = FALSE]], n)
<1> DEFINE d == [i \in DOMAIN h |-> [h[i] EXCEPT !.typed = FALSE]]
<1>1. h \in Seq(Entry)
  BY DEF IsWindow
<1>2. d = [i \in 1 .. Len(h) |-> [h[i] EXCEPT !.typed = FALSE]] /\ Len(h) \in Nat
  BY <1>1
<1>3. ASSUME NEW i \in 1 .. Len(h)
      PROVE  /\ [h[i] EXCEPT !.typed = FALSE] \in Entry
             /\ [h[i] EXCEPT !.typed = FALSE].grad = h[i].grad
             /\ [h[i] EXCEPT !.typed = FALSE].decayed = h[i].decayed
  <2>1. h[i] \in Entry
    BY <1>1
  <2>2. QED
    BY <2>1 DEF Entry
<1> HIDE DEF d
<1>4. d \in [1 .. Len(h) -> Entry]
  BY <1>2, <1>3
<1>5. d \in Seq(Entry) /\ Len(d) = Len(h)
  BY <1>2, <1>4
<1>6. \A i \in 1 .. Len(h) : d[i].grad = h[i].grad /\ d[i].decayed = h[i].decayed
  BY <1>2, <1>3
<1>7. IsWindow(d, n)
  BY <1>5, <1>6 DEF IsWindow
<1>8. QED
  BY <1>7 DEF d

-----------------------------------------------------------------------------
(* Each step keeps the invariant *)

LEMMA FreshSchedule ==
  ASSUME schedule \in Schedules, NEW b, NEW n \in Nat
  PROVE  OnPlan(b, FreshSched(b), n, [base |-> b, since |-> n])
<1> DEFINE q == [i \in Parts |-> -1]
<1>1. n - n = 0 /\ FreshSched(b) = [base |-> b, last |-> -1, part |-> q]
  BY DEF FreshSched
<1>2. q \in [Parts -> Int] /\ \A i \in Parts : q[i] = -1
  OBVIOUS
<1>3. Planned(b, 0) = b
  BY DEF Planned
<1> HIDE DEF q
<1>4. SchedOK(FreshSched(b), b, 0)
  BY <1>1, <1>2 DEF SchedOK
<1>5. QED
  BY <1>1, <1>3, <1>4 DEF OnPlan

LEMMA ResumeInitInv == ResumeInit => ResumeInv
<1> SUFFICES ASSUME ResumeInit PROVE ResumeInv
  OBVIOUS
<1>1. schedule \in Schedules /\ bundle.is # "whole" /\ history = <<>> /\ pushes = 0
      /\ sched = FreshSched(BaseRate) /\ rate = BaseRate /\ epochs = 0
      /\ plan = [base |-> BaseRate, since |-> 0]
  BY DEF ResumeInit
<1>2. IsWindow(history, pushes)
  <2>1. 0 = IF HistoryK > 0 THEN AtMost(0, HistoryK) ELSE 0
    BY ResumeAssumption DEF AtMost
  <2>2. QED
    BY <1>1, <2>1 DEF IsWindow
<1>3. QED
  <2>1. BaseRate \in Nat /\ 0 \in Nat
    BY ResumeAssumption
  <2>2. QED
    BY <1>1, <1>2, <2>1, FreshSchedule DEF ResumeInv, BundleOK

\* The program stays what it is, and with it what its plan says.
LEMMA SamePlan ==
  ASSUME schedule' = schedule, decays' = decays
  PROVE  /\ OnPlan(rate', sched', epochs', plan') => OnPlan(rate, sched, epochs, plan)'
         /\ OnPlan(bundle'.rate, bundle'.sched, bundle'.epochs, bundle'.plan)
              => OnPlan(bundle.rate, bundle.sched, bundle.epochs, bundle.plan)'
         /\ IsWindow(history', pushes') => IsWindow(history, pushes)'
         /\ IsWindow(bundle'.history, bundle'.pushes) => IsWindow(bundle.history, bundle.pushes)'
<1>1. OnPlan(rate', sched', epochs', plan') => OnPlan(rate, sched, epochs, plan)'
  BY DEF OnPlan, SchedOK, Planned, Parts, Active, HandedOver
<1>2. OnPlan(bundle'.rate, bundle'.sched, bundle'.epochs, bundle'.plan)
        => OnPlan(bundle.rate, bundle.sched, bundle.epochs, bundle.plan)'
  BY DEF OnPlan, SchedOK, Planned, Parts, Active, HandedOver
<1>3. /\ IsWindow(history', pushes') => IsWindow(history, pushes)'
      /\ IsWindow(bundle'.history, bundle'.pushes) => IsWindow(bundle.history, bundle.pushes)'
  BY DEF IsWindow
<1>4. QED
  BY <1>1, <1>2, <1>3

\* A step that leaves the trainer or its file alone leaves it as it was.
LEMMA TrainerKept ==
  ASSUME ResumeInv, UNCHANGED <<schedule, decays, rate, sched, epochs, plan>>
  PROVE  OnPlan(rate, sched, epochs, plan)'
<1>1. OnPlan(rate', sched', epochs', plan')
  BY DEF ResumeInv
<1>2. QED
  BY <1>1, SamePlan

LEMMA WindowKept ==
  ASSUME ResumeInv, UNCHANGED <<schedule, decays, history, pushes>>
  PROVE  IsWindow(history, pushes)'
<1>1. IsWindow(history', pushes')
  BY DEF ResumeInv
<1>2. QED
  BY <1>1, SamePlan

LEMMA BundleKept ==
  ASSUME ResumeInv, UNCHANGED <<schedule, decays, bundle>>
  PROVE  BundleOK'
<1>1. bundle'.is = "whole" =>
        /\ IsWindow(bundle'.history, bundle'.pushes)
        /\ bundle'.epochs \in Nat
        /\ bundle'.sched # None0 => OnPlan(bundle'.rate, bundle'.sched, bundle'.epochs, bundle'.plan)
  BY DEF ResumeInv, BundleOK
<1>2. QED
  BY <1>1, SamePlan DEF BundleOK

LEMMA ResumeStep == ResumeInv /\ [ResumeNext]_resumevars => ResumeInv'
<1> SUFFICES ASSUME ResumeInv, [ResumeNext]_resumevars PROVE ResumeInv'
  OBVIOUS
<1>1. CASE BeginTraining \/ TrainingFails \/ Crash \/ UNCHANGED resumevars
  <2>1. UNCHANGED <<schedule, decays, rate, sched, history, bundle, epochs, pushes, plan>>
    BY <1>1 DEF BeginTraining, TrainingFails, Crash, resumevars
  <2>2. QED
    BY <2>1, TrainerKept, WindowKept, BundleKept DEF ResumeInv
<1>2. CASE OptimizerStep
  <2>1. Push /\ UNCHANGED <<schedule, decays, rate, sched, bundle, epochs, plan>>
    BY <1>2 DEF OptimizerStep
  <2>2. IsWindow(history', pushes')
    BY <2>1, PushSlides DEF ResumeInv
  <2>3. IsWindow(history, pushes)'
    BY <2>1, <2>2, SamePlan
  <2>4. QED
    BY <2>1, <2>3, TrainerKept, BundleKept DEF ResumeInv
<1>3. CASE EpochEnds
  <2>1. /\ sched' = Advance(sched) /\ rate' = Written(sched') /\ epochs' = epochs + 1
        /\ UNCHANGED <<schedule, decays, history, bundle, pushes, plan>>
    BY <1>3 DEF EpochEnds
  <2>2. OnPlan(rate', sched', epochs', plan')
    <3>1. /\ epochs \in Nat /\ plan.since \in Nat /\ plan' = plan
          /\ (epochs + 1) - plan.since = (epochs - plan.since) + 1
          /\ SchedOK(sched, plan.base, epochs - plan.since)
      BY <2>1 DEF ResumeInv, OnPlan
    <3>2. QED
      BY <2>1, <3>1, SchedAdvances DEF ResumeInv, OnPlan
  <2>3. OnPlan(rate, sched, epochs, plan)'
    BY <2>1, <2>2, SamePlan
  <2>4. QED
    BY <2>1, <2>3, WindowKept, BundleKept DEF ResumeInv
<1>4. CASE SaveBegins \/ Rewrites
  <2>1. bundle'.is # "whole" /\ UNCHANGED <<schedule, decays, rate, sched, history, epochs, pushes, plan>>
    BY <1>4 DEF SaveBegins, Rewrites
  <2>2. BundleOK'
    BY <2>1 DEF BundleOK
  <2>3. QED
    BY <2>1, <2>2, TrainerKept, WindowKept DEF ResumeInv
<1>5. CASE AgentFrozen \/ Saved
  <2>1. /\ UNCHANGED <<schedule, decays, rate, sched, history, epochs, pushes, plan>>
        /\ bundle' = Frozen \/ bundle' = [Frozen EXCEPT !.sched = SchedulerState]
    BY <1>5 DEF AgentFrozen, Saved
  <2>2. /\ bundle'.sched = None0 \/ bundle'.sched = sched
        /\ bundle'.rate = rate /\ bundle'.epochs = epochs /\ bundle'.plan = plan /\ bundle'.pushes = pushes
        /\ bundle'.history = [i \in DOMAIN history |-> [history[i] EXCEPT !.typed = FALSE]]
    <3> DEFINE d == [i \in DOMAIN history |-> [history[i] EXCEPT !.typed = FALSE]]
    <3>1. Frozen = [is |-> "whole", rate |-> rate, sched |-> None0, history |-> d,
                    epochs |-> epochs, pushes |-> pushes, plan |-> plan]
      BY DEF Frozen
    <3> HIDE DEF d
    <3>2. SchedulerState = None0 \/ SchedulerState = sched
      BY DEF SchedulerState
    <3>3. PICK x : (x = None0 \/ x = sched) /\ (bundle' = Frozen \/ bundle' = [Frozen EXCEPT !.sched = x])
      BY <2>1, <3>2
    <3>4. /\ bundle'.sched = None0 \/ bundle'.sched = sched
          /\ bundle'.rate = rate /\ bundle'.epochs = epochs /\ bundle'.plan = plan /\ bundle'.pushes = pushes
          /\ bundle'.history = d
      BY <3>1, <3>3
    <3>5. QED
      BY <3>4 DEF d
  <2>3. IsWindow(bundle'.history, bundle'.pushes)
    BY <2>2, DumpKeepsWindow DEF ResumeInv
  <2>4. /\ bundle'.epochs \in Nat
        /\ bundle'.sched # None0 => OnPlan(bundle'.rate, bundle'.sched, bundle'.epochs, bundle'.plan)
    BY <2>2 DEF ResumeInv, OnPlan
  <2>5. BundleOK'
    BY <2>1, <2>3, <2>4, SamePlan DEF BundleOK
  <2>6. QED
    BY <2>1, <2>5, TrainerKept, WindowKept DEF ResumeInv
<1>6. CASE LoadBundle
  <2>1. /\ bundle.is = "whole"
        /\ rate' = bundle.rate /\ sched' = Rescheduled(bundle) /\ history' = bundle.history
        /\ epochs' = bundle.epochs /\ pushes' = bundle.pushes
        /\ plan' = IF bundle.sched = None0 THEN [base |-> bundle.rate, since |-> bundle.epochs]
                                          ELSE bundle.plan
        /\ UNCHANGED <<schedule, decays, bundle>>
    BY <1>6 DEF LoadBundle
  <2>2. IsWindow(history', pushes')
    BY <2>1 DEF ResumeInv, BundleOK
  <2>3. OnPlan(rate', sched', epochs', plan')
    <3>1. CASE bundle.sched = None0
      BY <2>1, <3>1, FreshSchedule DEF ResumeInv, BundleOK, Rescheduled
    <3>2. CASE bundle.sched # None0
      BY <2>1, <3>2 DEF ResumeInv, BundleOK, Rescheduled
    <3>3. QED
      BY <3>1, <3>2
  <2>4. IsWindow(history, pushes)' /\ OnPlan(rate, sched, epochs, plan)'
    BY <2>1, <2>2, <2>3, SamePlan
  <2>5. QED
    BY <2>1, <2>4, BundleKept DEF ResumeInv
<1>7. QED
  BY <1>1, <1>2, <1>3, <1>4, <1>5, <1>6 DEF ResumeNext

LEMMA ResumeInvSound == ResumeInv => ResumesAsPlanned
<1> SUFFICES ASSUME ResumeInv PROVE ResumesAsPlanned
  OBVIOUS
<1>1. RateAsPlanned
  <2>1. OnPlan(rate, sched, epochs, plan)
    BY DEF ResumeInv
  <2>2. rate = Planned(plan.base, epochs - plan.since)
    BY <2>1 DEF OnPlan
  <2>3. QED
    BY <2>2 DEF RateAsPlanned
<1>2. HistoryIsWindow
  <2> DEFINE n == Len(history)
  <2>1. IsWindow(history, pushes)
    BY DEF ResumeInv
  <2>2. /\ history \in Seq(Entry) /\ pushes \in Nat /\ n \in Nat
        /\ n = IF HistoryK > 0 THEN AtMost(pushes, HistoryK) ELSE pushes
        /\ \A i \in 1 .. n : /\ history[i].grad = pushes - n + i
                             /\ history[i].decayed = IF decays THEN n - i ELSE 0
    BY <2>1 DEF IsWindow
  <2>3. DOMAIN history = 1 .. n
    BY <2>2
  <2> HIDE DEF n
  <2>4. \A i \in 1 .. n : pushes - (pushes - n + i) = n - i
    BY <2>2
  <2>5. QED
    BY <2>2, <2>3, <2>4 DEF HistoryIsWindow, n
<1>3. QED
  BY <1>1, <1>2 DEF ResumesAsPlanned

\* For any schedules that the constructors accept, rates, epochs, steps and crashes: a
\* training that failed, was saved, lost and taken up again has the rate planned for the
\* epochs of its lineage, or, if it took up a bundle without scheduler state, the rate of the
\* schedule begun again from what that bundle holds; and its history is the window of the
\* gradients that the lineage has pushed.
THEOREM ResumeAlwaysAsPlanned == ResumeSpec => []ResumesAsPlanned
<1>1. ResumeInit => ResumeInv
  BY ResumeInitInv
<1>2. ResumeInv /\ [ResumeNext]_resumevars => ResumeInv'
  BY ResumeStep
<1>3. ResumeInv => ResumesAsPlanned
  BY ResumeInvSound
<1>4. QED
  BY <1>1, <1>2, <1>3, PTL DEF ResumeSpec

-----------------------------------------------------------------------------
(* Fits that are recorded and replayed                                       *)

\* The optimizer steps of an epoch, when none is left for the residual flush.
StepsPerEpoch == TapeBatches \div TapeSteps

Vals == [Index -> Nat]

\* The key of a step, from the parameters before it.
KeyOf(c, e, s) == [epoch |-> e, step |-> s, window |-> TapeSteps, agent |-> c[e][s]]

\* c is what the parameters were, epoch by epoch, before each step and after the last of an
\* epoch: a file has these steps up to step n of epoch m.
FiledUpTo(file, c, m, n) ==
  /\ c \in [Nat -> [Nat -> Vals]] /\ c[0][0] = Fresh
  /\ \A e \in 1 .. m : c[e][0] = c[e - 1][StepsPerEpoch]
  /\ \A e, s \in Nat : s < StepsPerEpoch /\ (e < m \/ (e = m /\ s < n)) =>
       KeyOf(c, e, s) \in DOMAIN file /\ file[KeyOf(c, e, s)] = Filed(c[e][s + 1])

\* Parameters at the end of each epoch, as c tells.
Reports(c, r) == \A e \in 1 .. Len(r) : r[e] = c[e - 1][StepsPerEpoch]

Place == [epoch : Nat, counter : Nat, batch : Nat, step : Nat, window : Nat]

TapeType ==
  /\ mode \in {"rest", "record", "replay"} /\ missed \in BOOLEAN
  /\ at \in Place
  /\ values \in Vals /\ writes \in Nat
  /\ report \in Seq(Vals) /\ recorded \in Seq(Vals)
  /\ \A k \in DOMAIN cassette : cassette[k] \in [OwnPaths -> Nat]

\* Batches, steps and window of the epoch under way.
Paced ==
  mode # "rest" =>
    /\ at.epoch < TapeEpochs /\ Len(report) = at.epoch
    /\ at.window < TapeSteps /\ at.batch = at.step * TapeSteps + at.window /\ at.batch <= TapeBatches
    /\ \E q \in Nat : at.counter = q * TapeSteps + at.window
    /\ mode = "record" /\ at.window = 0 => withGrad = {}

RecordOK ==
  mode = "record" =>
    /\ recorded = <<>> /\ ~missed
    /\ \E c : /\ FiledUpTo(cassette, c, at.epoch, at.step) /\ Reports(c, report)
              /\ values = c[at.epoch][at.step]

RecordedOK ==
  recorded # <<>> =>
    /\ ~missed /\ Len(recorded) = TapeEpochs /\ Len(report) <= TapeEpochs
    /\ \E c : /\ FiledUpTo(cassette, c, TapeEpochs - 1, StepsPerEpoch)
              /\ Reports(c, recorded) /\ Reports(c, report)
              /\ mode = "replay" => values = c[at.epoch][at.step]

ReplayInv == TapeType /\ Paced /\ RecordOK /\ RecordedOK

-----------------------------------------------------------------------------
(* Numbers *)

LEMMA Quotient ==
  ASSUME NEW t \in Nat \ {0}, NEW a \in Nat, NEW b \in Nat,
         NEW v \in Nat, NEW w \in Nat, v < t, w < t, a * t + v = b * t + w
  PROVE  a = b /\ v = w
<1>1. ASSUME NEW x \in Nat, NEW y \in Nat, x < y PROVE y * t >= x * t + t
  <2>1. PICK d \in Nat : y = x + 1 + d
    <3>1. y - x - 1 \in Nat /\ y = x + 1 + (y - x - 1)
      BY <1>1
    <3>2. QED
      BY <3>1
  <2>2. y * t = x * t + t + d * t
    BY <2>1
  <2>3. d * t \in Nat /\ x * t \in Nat
    OBVIOUS
  <2>4. QED
    BY <2>2, <2>3
<1>2. a * t \in Nat /\ b * t \in Nat
  OBVIOUS
<1>3. ~(a < b)
  <2>1. SUFFICES ASSUME a < b PROVE FALSE
    OBVIOUS
  <2>2. b * t >= a * t + t
    BY <1>1, <2>1
  <2>3. QED
    BY <1>2, <2>2
<1>4. ~(b < a)
  <2>1. SUFFICES ASSUME b < a PROVE FALSE
    OBVIOUS
  <2>2. a * t >= b * t + t
    BY <1>1, <2>1
  <2>3. QED
    BY <1>2, <2>2
<1>5. a = b
  BY <1>3, <1>4
<1>6. QED
  BY <1>2, <1>5

\* A step is due when the window is full.
LEMMA DueWhenFull ==
  ASSUME NEW t \in Nat \ {0}, NEW q \in Nat, NEW w \in Nat, w < t
  PROVE  ((q * t + w) + 1) % t = 0 <=> w + 1 = t
<1> DEFINE n == (q * t + w) + 1
<1>1. q * t \in Nat /\ n \in Nat
  OBVIOUS
<1> HIDE DEF n
<1>2. n \div t \in Nat /\ n % t \in 0 .. t - 1 /\ n = (n \div t) * t + (n % t)
  BY <1>1
<1>3. CASE w + 1 = t
  <2>1. n = (q + 1) * t + 0
    <3>1. (q + 1) * t = q * t + t
      OBVIOUS
    <3>2. QED
      BY <1>1, <1>3, <3>1 DEF n
  <2>2. n % t = 0
    BY <1>2, <2>1, Quotient
  <2>3. QED
    BY <1>3, <2>2 DEF n
<1>4. CASE w + 1 # t
  <2>1. n = q * t + (w + 1) /\ w + 1 < t
    BY <1>1, <1>4 DEF n
  <2>2. n % t = w + 1
    BY <1>2, <2>1, Quotient
  <2>3. QED
    BY <1>4, <2>2 DEF n
<1>5. QED
  BY <1>3, <1>4

LEMMA StepsNat == StepsPerEpoch \in Nat
<1>1. TapeBatches \in Nat /\ TapeSteps \in Nat \ {0}
  BY TrainReplayAssumption
<1>2. QED
  BY <1>1 DEF StepsPerEpoch

LEMMA WholeSteps ==
  ASSUME TapeBatches % TapeSteps = 0
  PROVE  StepsPerEpoch \in Nat /\ StepsPerEpoch * TapeSteps = TapeBatches
<1>1. TapeBatches \in Nat /\ TapeSteps \in Nat \ {0}
  BY TrainReplayAssumption
<1>2. TapeBatches \div TapeSteps \in Nat
      /\ TapeBatches = (TapeBatches \div TapeSteps) * TapeSteps + (TapeBatches % TapeSteps)
  BY <1>1
<1>3. (TapeBatches \div TapeSteps) * TapeSteps \in Nat
  BY <1>1, <1>2
<1>4. QED
  BY <1>2, <1>3 DEF StepsPerEpoch

\* What is filed of different paths is read back.
LEMMA FiledBack ==
  ASSUME \A i, j \in Index : Owned[i] = Owned[j] => i = j, NEW v \in Vals
  PROVE  Restored(Filed(v)) = v /\ Filed(v) \in [OwnPaths -> Nat]
<1>1. ASSUME NEW i \in Index PROVE Filed(v)[Owned[i]] = v[i]
  <2>1. Owned[i] \in OwnPaths
    BY DEF OwnPaths
  <2>2. (CHOOSE k \in Index : Owned[k] = Owned[i] /\ \A j \in Index : Owned[j] = Owned[i] => j <= k) = i
    <3>1. Index \subseteq Nat
      BY TrainReplayAssumption DEF Index
    <3>2. \A k \in Index : Owned[k] = Owned[i] => k = i
      OBVIOUS
    <3>3. Owned[i] = Owned[i] /\ \A j \in Index : Owned[j] = Owned[i] => j <= i
      BY <3>1, <3>2
    <3>4. QED
      BY <3>2, <3>3
  <2>3. QED
    BY <2>1, <2>2 DEF Filed
<1>2. ASSUME NEW i \in Index PROVE ~\E j \in Index : j < i /\ Owned[j] = Owned[i]
  <2>1. Index \subseteq Nat
    BY TrainReplayAssumption DEF Index
  <2>2. QED
    BY <2>1
<1>3. Restored(Filed(v)) = [i \in Index |-> v[i]]
  BY <1>1, <1>2 DEF Restored
<1>4. \A q \in OwnPaths : \E i \in Index : q = Owned[i]
  BY DEF OwnPaths
<1>5. Filed(v) = [q \in OwnPaths |-> Filed(v)[q]] /\ \A q \in OwnPaths : Filed(v)[q] \in Nat
  <2>1. Filed(v) = [q \in OwnPaths |-> Filed(v)[q]]
    BY DEF Filed
  <2>2. \A q \in OwnPaths : Filed(v)[q] \in Nat
    BY <1>1, <1>4 DEF Vals
  <2>3. QED
    BY <2>1, <2>2
<1>6. QED
  BY <1>3, <1>5 DEF Vals

\* Where a fit stands in its epoch: before a batch there is a step to come, and behind the
\* last the window is empty.
LEMMA StepsAhead ==
  ASSUME TapeBatches % TapeSteps = 0, TapeType, Paced, mode # "rest"
  PROVE  /\ at.batch < TapeBatches => at.step < StepsPerEpoch
         /\ at.batch = TapeBatches => at.step = StepsPerEpoch /\ at.window = 0
         /\ Due <=> at.window + 1 = TapeSteps
<1>1. TapeBatches \in Nat /\ TapeSteps \in Nat \ {0}
  BY TrainReplayAssumption
<1>2. StepsPerEpoch \in Nat /\ StepsPerEpoch * TapeSteps = TapeBatches
  BY WholeSteps
<1>3. /\ at.step \in Nat /\ at.window \in Nat /\ at.window < TapeSteps
      /\ at.batch = at.step * TapeSteps + at.window
  BY DEF TapeType, Paced, Place
<1>4. PICK q \in Nat : at.counter = q * TapeSteps + at.window
  BY DEF Paced
<1>5. Due <=> at.window + 1 = TapeSteps
  <2>1. ((q * TapeSteps + at.window) + 1) % TapeSteps = 0 <=> at.window + 1 = TapeSteps
    BY <1>1, <1>3, DueWhenFull
  <2>2. QED
    BY <1>4, <2>1 DEF Due
<1>6. ASSUME at.batch < TapeBatches PROVE at.step < StepsPerEpoch
  <2>1. SUFFICES ASSUME at.step >= StepsPerEpoch PROVE FALSE
    BY <1>2, <1>3
  <2>2. PICK d \in Nat : at.step = StepsPerEpoch + d
    <3>1. at.step - StepsPerEpoch \in Nat /\ at.step = StepsPerEpoch + (at.step - StepsPerEpoch)
      BY <1>2, <1>3, <2>1
    <3>2. QED
      BY <3>1
  <2>3. at.step * TapeSteps = StepsPerEpoch * TapeSteps + d * TapeSteps /\ d * TapeSteps \in Nat
    BY <1>1, <1>2, <2>2
  <2>4. QED
    BY <1>1, <1>2, <1>3, <1>6, <2>3
<1>7. ASSUME at.batch = TapeBatches PROVE at.step = StepsPerEpoch /\ at.window = 0
  <2>1. at.step * TapeSteps + at.window = StepsPerEpoch * TapeSteps + 0
    BY <1>1, <1>2, <1>3, <1>7
  <2>2. PICK a \in Nat, w \in Nat : a = at.step /\ w = at.window
    BY <1>3
  <2>3. a * TapeSteps + w = StepsPerEpoch * TapeSteps + 0 /\ w < TapeSteps /\ 0 < TapeSteps
    BY <1>1, <1>3, <2>1, <2>2
  <2>4. a = StepsPerEpoch /\ w = 0
    BY <1>1, <1>2, <2>3, Quotient
  <2>5. QED
    BY <2>2, <2>4
<1>8. QED
  BY <1>5, <1>6, <1>7

\* The file takes the next step, and keeps the steps before it: no key comes twice in a fit.
LEMMA FilesNext ==
  ASSUME NEW file, NEW c, NEW m \in Nat, NEW n \in Nat, FiledUpTo(file, c, m, n),
         NEW v \in Vals,
         NEW new, DOMAIN new = {KeyOf(c, m, n)} \cup DOMAIN file,
         \A k \in DOMAIN new : new[k] = IF k = KeyOf(c, m, n) THEN Filed(v) ELSE file[k]
  PROVE  FiledUpTo(new, [c EXCEPT ![m] = [c[m] EXCEPT ![n + 1] = v]], m, n + 1)
<1> DEFINE d == [c EXCEPT ![m] = [c[m] EXCEPT ![n + 1] = v]]
<1>1. c \in [Nat -> [Nat -> Vals]] /\ c[0][0] = Fresh /\ n + 1 \in Nat
  BY DEF FiledUpTo
<1>2. d \in [Nat -> [Nat -> Vals]] /\ d[m][n + 1] = v
      /\ \A e, s \in Nat : e # m \/ s # n + 1 => d[e][s] = c[e][s]
  <2> DEFINE row == [c[m] EXCEPT ![n + 1] = v]
  <2>1. row \in [Nat -> Vals] /\ row[n + 1] = v /\ \A s \in Nat : s # n + 1 => row[s] = c[m][s]
    BY <1>1
  <2> HIDE DEF row
  <2>2. d \in [Nat -> [Nat -> Vals]] /\ d[m] = row /\ \A e \in Nat : e # m => d[e] = c[e]
    BY <1>1, <2>1 DEF row
  <2>3. QED
    BY <2>1, <2>2
<1> HIDE DEF d
<1>3. \A e, s \in Nat : (e < m \/ (e = m /\ s < n + 1)) => KeyOf(d, e, s) = KeyOf(c, e, s)
  BY <1>2 DEF KeyOf
<1>4. \A e, s \in Nat : KeyOf(c, e, s) = KeyOf(c, m, n) => e = m /\ s = n
  BY DEF KeyOf
<1>5. d[0][0] = Fresh
  <2>1. 0 \in Nat /\ 0 # n + 1
    OBVIOUS
  <2>2. d[0][0] = c[0][0]
    BY <1>2, <2>1
  <2>3. QED
    BY <1>1, <2>2
<1>6. \A e \in 1 .. m : d[e][0] = d[e - 1][StepsPerEpoch]
  <2>1. SUFFICES ASSUME NEW e \in 1 .. m PROVE d[e][0] = d[e - 1][StepsPerEpoch]
    OBVIOUS
  <2>2. e \in Nat /\ e - 1 \in Nat /\ e - 1 # m /\ 0 # n + 1
    OBVIOUS
  <2>3. c[e][0] = c[e - 1][StepsPerEpoch]
    BY DEF FiledUpTo
  <2>4. StepsPerEpoch \in Nat
    BY StepsNat
  <2>5. QED
    BY <1>2, <2>2, <2>3, <2>4
<1>7. ASSUME NEW e \in Nat, NEW s \in Nat, s < StepsPerEpoch, e < m \/ (e = m /\ s < n + 1)
      PROVE  KeyOf(d, e, s) \in DOMAIN new /\ new[KeyOf(d, e, s)] = Filed(d[e][s + 1])
  <2>1. KeyOf(d, e, s) = KeyOf(c, e, s)
    BY <1>3, <1>7
  <2>2. CASE e = m /\ s = n
    BY <1>2, <2>1, <2>2
  <2>3. CASE ~(e = m /\ s = n)
    <3>1. e < m \/ (e = m /\ s < n)
      BY <1>7, <2>3
    <3>2. KeyOf(c, e, s) \in DOMAIN file /\ file[KeyOf(c, e, s)] = Filed(c[e][s + 1])
      BY <1>7, <3>1 DEF FiledUpTo
    <3>3. KeyOf(c, e, s) # KeyOf(c, m, n)
      BY <1>4, <2>3
    <3>4. d[e][s + 1] = c[e][s + 1]
      BY <1>2, <2>3
    <3>5. QED
      BY <2>1, <3>2, <3>3, <3>4
  <2>4. QED
    BY <2>2, <2>3
<1>8. FiledUpTo(new, d, m, n + 1)
  BY <1>2, <1>5, <1>6, <1>7 DEF FiledUpTo
<1>9. QED
  BY <1>8 DEF d

\* The next epoch starts where the last one ended.
LEMMA NextEpochFiled ==
  ASSUME NEW file, NEW c, NEW m \in Nat, FiledUpTo(file, c, m, StepsPerEpoch),
         NEW d, d = [c EXCEPT ![m + 1] = [c[m + 1] EXCEPT ![0] = c[m][StepsPerEpoch]]]
  PROVE  FiledUpTo(file, d, m + 1, 0) /\ \A e \in 0 .. m : d[e] = c[e]
<1>1. c \in [Nat -> [Nat -> Vals]] /\ c[0][0] = Fresh /\ m + 1 \in Nat /\ StepsPerEpoch \in Nat
  BY StepsNat DEF FiledUpTo
<1>2. c[m][StepsPerEpoch] \in Vals
  BY <1>1
<1>3. d \in [Nat -> [Nat -> Vals]] /\ d[m + 1][0] = c[m][StepsPerEpoch]
      /\ \A e \in 0 .. m : d[e] = c[e]
  <2> DEFINE row == [c[m + 1] EXCEPT ![0] = c[m][StepsPerEpoch]]
  <2>1. row \in [Nat -> Vals] /\ row[0] = c[m][StepsPerEpoch]
    BY <1>1, <1>2
  <2> HIDE DEF row
  <2>2. d \in [Nat -> [Nat -> Vals]] /\ d[m + 1] = row /\ \A e \in Nat : e # m + 1 => d[e] = c[e]
    BY <1>1, <2>1 DEF row
  <2>3. \A e \in 0 .. m : e \in Nat /\ e # m + 1
    OBVIOUS
  <2>4. QED
    BY <2>1, <2>2, <2>3
<1>4. \A e \in 1 .. m + 1 : d[e][0] = d[e - 1][StepsPerEpoch]
  <2>1. SUFFICES ASSUME NEW e \in 1 .. m + 1 PROVE d[e][0] = d[e - 1][StepsPerEpoch]
    OBVIOUS
  <2>2. CASE e = m + 1
    <3>1. e - 1 = m /\ m \in 0 .. m
      BY <2>2
    <3>2. QED
      BY <1>3, <2>2, <3>1
  <2>3. CASE e # m + 1
    <3>1. e \in 1 .. m /\ e \in 0 .. m /\ e - 1 \in 0 .. m
      BY <2>3
    <3>2. c[e][0] = c[e - 1][StepsPerEpoch]
      BY <3>1 DEF FiledUpTo
    <3>3. QED
      BY <1>3, <3>1, <3>2
  <2>4. QED
    BY <2>2, <2>3
<1>5. ASSUME NEW e \in Nat, NEW s \in Nat, s < StepsPerEpoch, e < m + 1 \/ (e = m + 1 /\ s < 0)
      PROVE  KeyOf(d, e, s) \in DOMAIN file /\ file[KeyOf(d, e, s)] = Filed(d[e][s + 1])
  <2>1. e \in 0 .. m /\ (e < m \/ (e = m /\ s < StepsPerEpoch))
    BY <1>5
  <2>2. KeyOf(d, e, s) = KeyOf(c, e, s) /\ d[e][s + 1] = c[e][s + 1]
    BY <1>3, <2>1 DEF KeyOf
  <2>3. QED
    BY <1>5, <2>1, <2>2 DEF FiledUpTo
<1>6. d[0][0] = Fresh
  <2>1. 0 \in 0 .. m
    OBVIOUS
  <2>2. QED
    BY <1>1, <1>3, <2>1
<1>7. QED
  BY <1>3, <1>4, <1>5, <1>6 DEF FiledUpTo

-----------------------------------------------------------------------------
(* Each step keeps the invariant *)

LEMMA FreshVals == Fresh \in Vals /\ <<>> \in Seq(Vals)
  BY DEF Fresh, Vals

LEMMA StartPlace == Start0 \in Place
  BY DEF Start0, Place

LEMMA PlaceAfter ==
  ASSUME at \in Place
  PROVE  /\ Advanced \in Place /\ Stepped \in Place
         /\ Advanced.epoch = at.epoch /\ Advanced.counter = at.counter + 1 /\ Advanced.batch = at.batch + 1
         /\ Advanced.step = at.step /\ Advanced.window = at.window + 1
         /\ Stepped.epoch = at.epoch /\ Stepped.counter = at.counter + 1 /\ Stepped.batch = at.batch + 1
         /\ Stepped.step = at.step + 1 /\ Stepped.window = 0
<1>1. /\ at.epoch \in Nat /\ at.counter \in Nat /\ at.batch \in Nat /\ at.step \in Nat /\ at.window \in Nat
      /\ at = [f \in {"epoch", "counter", "batch", "step", "window"} |-> at[f]]
  BY DEF Place
<1>2. /\ Advanced.epoch = at.epoch /\ Advanced.counter = at.counter + 1 /\ Advanced.batch = at.batch + 1
      /\ Advanced.step = at.step /\ Advanced.window = at.window + 1
      /\ Advanced = [f \in {"epoch", "counter", "batch", "step", "window"} |-> Advanced[f]]
  BY <1>1 DEF Advanced
<1>3. /\ Stepped.epoch = at.epoch /\ Stepped.counter = at.counter + 1 /\ Stepped.batch = at.batch + 1
      /\ Stepped.step = at.step + 1 /\ Stepped.window = 0
      /\ Stepped = [f \in {"epoch", "counter", "batch", "step", "window"} |-> Stepped[f]]
  BY <1>2 DEF Stepped
<1>4. Advanced \in Place /\ Stepped \in Place
  BY <1>1, <1>2, <1>3 DEF Place
<1>5. QED
  BY <1>2, <1>3, <1>4

LEMMA ReplayInitInv == ReplayInit => ReplayInv
<1> SUFFICES ASSUME ReplayInit PROVE ReplayInv
  OBVIOUS
<1>1. mode = "rest" /\ recorded = <<>> /\ report = <<>> /\ at = Start0 /\ values = Fresh /\ writes = 0 /\ missed = FALSE
      /\ \A k \in DOMAIN cassette : FALSE
  BY DEF ReplayInit
<1>2. TapeType
  BY <1>1, FreshVals, StartPlace DEF TapeType
<1>3. QED
  BY <1>1, <1>2 DEF ReplayInv, Paced, RecordOK, RecordedOK

LEMMA BeginFitKeeps ==
  ASSUME ReplayInv, NEW m \in {"record", "replay"}, NEW bound, BeginFitAs(m, bound)
  PROVE  ReplayInv'
<1>1. /\ mode' = m /\ at' = Start0 /\ values' = Fresh /\ withGrad' = {} /\ report' = <<>> /\ missed' = FALSE
      /\ recorded' = IF m = "record" THEN <<>> ELSE recorded
      /\ UNCHANGED <<writes, cassette>>
  BY DEF BeginFitAs
<1>2. TapeType'
  BY <1>1, FreshVals, StartPlace DEF ReplayInv, TapeType
<1>3. Paced'
  <2>1. TapeEpochs \in Nat \ {0} /\ TapeBatches \in Nat \ {0} /\ TapeSteps \in Nat \ {0}
    BY TrainReplayAssumption
  <2>2. at'.epoch = 0 /\ at'.counter = 0 /\ at'.batch = 0 /\ at'.step = 0 /\ at'.window = 0 /\ Len(report') = 0
    BY <1>1 DEF Start0
  <2>3. 0 = 0 * TapeSteps + 0 /\ 0 \in Nat
    BY <2>1
  <2>4. QED
    BY <1>1, <2>1, <2>2, <2>3 DEF Paced
<1>4. RecordOK'
  <2> DEFINE c == [e \in Nat |-> [s \in Nat |-> Fresh]]
  <2>1. c \in [Nat -> [Nat -> Vals]] /\ c[0][0] = Fresh
    BY FreshVals
  <2> HIDE DEF c
  <2>2. \A e \in 1 .. 0 : FALSE
    OBVIOUS
  <2>3. \A e, s \in Nat : ~(e < 0 \/ (e = 0 /\ s < 0))
    OBVIOUS
  <2>4. FiledUpTo(cassette', c, 0, 0)
    BY <2>1, <2>2, <2>3 DEF FiledUpTo
  <2>5. at'.epoch = 0 /\ at'.step = 0 /\ values' = c[0][0] /\ Reports(c, report')
    BY <1>1, <2>1, <2>2 DEF Start0, Reports
  <2>6. mode' = "record" => recorded' = <<>>
    BY <1>1
  <2>7. QED
    BY <1>1, <2>4, <2>5, <2>6 DEF RecordOK
<1>5. RecordedOK'
  <2>1. SUFFICES ASSUME recorded' # <<>> PROVE RecordedOK'
    BY DEF RecordedOK
  <2>2. mode' = "replay" /\ recorded' = recorded
    BY <1>1, <2>1
  <2>3. Len(recorded) = TapeEpochs
    BY <2>1, <2>2 DEF ReplayInv, RecordedOK
  <2>4. PICK c : FiledUpTo(cassette, c, TapeEpochs - 1, StepsPerEpoch) /\ Reports(c, recorded)
    BY <2>1, <2>2 DEF ReplayInv, RecordedOK
  <2>5. at'.epoch = 0 /\ at'.step = 0 /\ values' = c[0][0] /\ Reports(c, report') /\ Len(report') = 0
    BY <1>1, <2>4 DEF Start0, Reports, FiledUpTo
  <2>6. TapeEpochs \in Nat
    BY TrainReplayAssumption
  <2>7. QED
    BY <1>1, <2>2, <2>3, <2>4, <2>5, <2>6 DEF RecordedOK
<1>6. QED
  BY <1>2, <1>3, <1>4, <1>5 DEF ReplayInv

\* Numbers after a batch, with a step or without.
LEMMA PaceKept ==
  ASSUME TapeBatches % TapeSteps = 0, TapeType, Paced, More, mode' \in {mode, "rest"},
         UNCHANGED report,
         \/ ~Due /\ at' = Advanced
         \/ Due /\ at' = Stepped /\ (mode' = "record" => withGrad' = {})
  PROVE  Paced' /\ at' \in Place
<1>1. TapeBatches \in Nat /\ TapeSteps \in Nat \ {0}
  BY TrainReplayAssumption
<1>2. /\ at \in Place
      /\ mode # "rest" /\ at.batch < TapeBatches
      /\ at.epoch < TapeEpochs /\ Len(report) = at.epoch
      /\ at.window < TapeSteps /\ at.batch = at.step * TapeSteps + at.window
  BY DEF TapeType, Paced, More
<1>8. at.step * TapeSteps \in Nat /\ at.window \in Nat /\ at.batch \in Nat /\ at.step \in Nat
  BY <1>1, <1>2 DEF Place
<1>3. PICK q \in Nat : at.counter = q * TapeSteps + at.window
  BY <1>2 DEF Paced
<1>4. Due <=> at.window + 1 = TapeSteps
  BY <1>2, StepsAhead
<1>5. CASE ~Due /\ at' = Advanced
  <2>1. /\ at' \in Place
        /\ at'.epoch = at.epoch /\ at'.counter = at.counter + 1 /\ at'.batch = at.batch + 1
        /\ at'.step = at.step /\ at'.window = at.window + 1
    BY <1>2, <1>5, PlaceAfter
  <2>2. at.window + 1 # TapeSteps
    BY <1>4, <1>5
  <2>3. at'.window < TapeSteps /\ at'.window # 0 /\ at'.batch <= TapeBatches
    <3>1. at.window < TapeSteps /\ at.batch < TapeBatches
      BY <1>2
    <3>2. at'.window < TapeSteps /\ at'.window # 0
      BY <1>1, <1>8, <2>1, <2>2, <3>1
    <3>3. at'.batch <= TapeBatches
      BY <1>1, <1>8, <2>1, <3>1
    <3>4. QED
      BY <3>2, <3>3
  <2>4. at'.batch = at'.step * TapeSteps + at'.window /\ at'.counter = q * TapeSteps + at'.window
    <3>1. q * TapeSteps \in Nat
      BY <1>1
    <3>2. at'.counter = q * TapeSteps + at.window + 1
      BY <1>3, <1>8, <2>1, <3>1
    <3>3. at'.batch = at.step * TapeSteps + at.window + 1
      BY <1>2, <1>8, <2>1
    <3>4. QED
      BY <1>8, <2>1, <3>1, <3>2, <3>3
  <2>5. QED
    BY <1>2, <2>1, <2>3, <2>4 DEF Paced
<1>6. CASE Due /\ at' = Stepped /\ (mode' = "record" => withGrad' = {})
  <2>1. /\ at' \in Place
        /\ at'.epoch = at.epoch /\ at'.counter = at.counter + 1 /\ at'.batch = at.batch + 1
        /\ at'.step = at.step + 1 /\ at'.window = 0
    BY <1>2, <1>6, PlaceAfter
  <2>2. at.window + 1 = TapeSteps
    BY <1>4, <1>6
  <2>3. 0 < TapeSteps /\ at'.batch <= TapeBatches
    BY <1>1, <1>2, <1>8, <2>1
  <2>4. (at.step + 1) * TapeSteps = at.step * TapeSteps + TapeSteps /\ (q + 1) * TapeSteps = q * TapeSteps + TapeSteps
    BY <1>1, <1>8
  <2>5. at'.batch = at'.step * TapeSteps + at'.window /\ at'.counter = (q + 1) * TapeSteps + at'.window
    <3>1. q * TapeSteps \in Nat
      BY <1>1
    <3>2. at'.counter = q * TapeSteps + TapeSteps
      BY <1>1, <1>3, <1>8, <2>1, <2>2, <3>1
    <3>3. at'.batch = at.step * TapeSteps + TapeSteps
      <4>1. PICK x \in Nat : x = at.step * TapeSteps
        BY <1>8
      <4>2. at.batch = x + at.window
        BY <1>2, <4>1
      <4>3. at.batch + 1 = x + TapeSteps
        BY <1>1, <1>8, <2>2, <4>2
      <4>4. QED
        BY <2>1, <4>1, <4>3
    <3>4. QED
      BY <1>1, <1>8, <2>1, <2>4, <3>1, <3>2, <3>3
  <2>6. q + 1 \in Nat
    OBVIOUS
  <2>7. QED
    BY <1>2, <1>6, <2>1, <2>3, <2>5, <2>6 DEF Paced
<1>7. QED
  BY <1>5, <1>6

LEMMA RecordBatchKeeps ==
  ASSUME TapeBatches % TapeSteps = 0, \A i, j \in Index : Owned[i] = Owned[j] => i = j,
         ReplayInv, NEW given \in Gives, RecordBatch(given)
  PROVE  ReplayInv'
<1>1. /\ More /\ mode = "record" /\ UNCHANGED <<mode, report, recorded, missed>>
      /\ \/ Due /\ TakeStep(given, at.window + 1) /\ at' = Stepped
         \/ ~Due /\ at' = Advanced /\ UNCHANGED <<values, writes, cassette>>
  BY DEF RecordBatch
<1>2. /\ TapeType /\ Paced /\ at \in Place /\ recorded = <<>> /\ ~missed
      /\ at.epoch \in Nat /\ at.step \in Nat
  BY <1>1 DEF ReplayInv, RecordOK, TapeType, Place
<1>3. PICK c : /\ FiledUpTo(cassette, c, at.epoch, at.step) /\ Reports(c, report)
               /\ values = c[at.epoch][at.step]
  BY <1>1 DEF ReplayInv, RecordOK
<1>4. Due => withGrad' = {}
  BY <1>1 DEF TakeStep
<1>5. Paced' /\ at' \in Place
  <2>1. \/ ~Due /\ at' = Advanced
        \/ Due /\ at' = Stepped /\ (mode' = "record" => withGrad' = {})
    BY <1>1, <1>4
  <2>2. QED
    BY <1>1, <1>2, <2>1, PaceKept
<1>6. RecordedOK'
  BY <1>1, <1>2 DEF RecordedOK
<1>7. CASE ~Due /\ at' = Advanced /\ UNCHANGED <<values, writes, cassette>>
  <2>1. at'.epoch = at.epoch /\ at'.step = at.step
    BY <1>2, <1>7, PlaceAfter
  <2>2. RecordOK'
    BY <1>1, <1>2, <1>3, <1>7, <2>1 DEF RecordOK
  <2>3. TapeType'
    BY <1>1, <1>2, <1>5, <1>7 DEF TapeType
  <2>4. QED
    BY <1>5, <1>6, <2>2, <2>3 DEF ReplayInv
<1>8. CASE Due /\ TakeStep(given, at.window + 1) /\ at' = Stepped
  <2>1. at'.epoch = at.epoch /\ at'.step = at.step + 1
    BY <1>2, <1>8, PlaceAfter
  <2>2. /\ writes' = writes + 1
        /\ values' = [i \in Index |-> IF i \in given THEN writes' ELSE values[i]]
        /\ cassette' = Keep(Key(at.window + 1))
    BY <1>8 DEF TakeStep
  <2>3. writes' \in Nat /\ values' \in Vals
    <3>1. writes \in Nat /\ values \in Vals
      BY <1>2 DEF TapeType
    <3>2. QED
      BY <2>2, <3>1 DEF Vals
  <2>4. Key(at.window + 1) = KeyOf(c, at.epoch, at.step)
    BY <1>2, <1>3, <1>8, StepsAhead, <1>1 DEF Key, KeyOf, More
  <2> DEFINE m == at.epoch   n == at.step
             d == [c EXCEPT ![m] = [c[m] EXCEPT ![n + 1] = values']]
  <2>5. /\ DOMAIN cassette' = {KeyOf(c, m, n)} \cup DOMAIN cassette
        /\ \A k \in DOMAIN cassette' : cassette'[k] = IF k = KeyOf(c, m, n) THEN Filed(values') ELSE cassette[k]
    BY <2>2, <2>4 DEF Keep
  <2>6. m \in Nat /\ n \in Nat /\ FiledUpTo(cassette, c, m, n)
    BY <1>2, <1>3
  <2> HIDE DEF m, n
  <2>7. FiledUpTo(cassette', d, m, n + 1)
    BY <2>3, <2>5, <2>6, FilesNext
  <2>8. c \in [Nat -> [Nat -> Vals]]
    BY <2>6 DEF FiledUpTo
  <2>9. d[m][n + 1] = values' /\ \A e \in Nat : e # m => d[e] = c[e]
    BY <2>3, <2>6, <2>8
  <2> HIDE DEF d
  <2>10. Reports(d, report)
    <3>1. ASSUME NEW e \in 1 .. Len(report) PROVE report[e] = d[e - 1][StepsPerEpoch]
      <4>1. Len(report) = m
        BY <1>1, <1>2 DEF Paced, m
      <4>2. e - 1 \in Nat /\ e - 1 # m
        BY <2>6, <4>1, <3>1
      <4>3. report[e] = c[e - 1][StepsPerEpoch]
        BY <1>3, <3>1 DEF Reports
      <4>4. QED
        BY <2>9, <4>2, <4>3
    <3>2. QED
      BY <3>1 DEF Reports
  <2>11. RecordOK'
    BY <1>1, <1>2, <2>1, <2>7, <2>9, <2>10 DEF RecordOK, m, n
  <2>12. TapeType'
    <3>1. \A k \in DOMAIN cassette' : cassette'[k] \in [OwnPaths -> Nat]
      BY <1>2, <2>3, <2>5, FiledBack DEF TapeType
    <3>2. QED
      BY <1>1, <1>2, <1>5, <2>3, <3>1 DEF TapeType
  <2>13. QED
    BY <1>5, <1>6, <2>11, <2>12 DEF ReplayInv
<1>9. QED
  BY <1>1, <1>7, <1>8

LEMMA ReplayBatchKeeps ==
  ASSUME TapeBatches % TapeSteps = 0, ReplayInv, ReplayBatch
  PROVE  ReplayInv'
<1>1. /\ More /\ mode = "replay" /\ ~Due /\ at' = Advanced
      /\ UNCHANGED <<mode, values, withGrad, writes, cassette, report, recorded, missed>>
  BY DEF ReplayBatch
<1>2. TapeType /\ Paced /\ at \in Place
  BY DEF ReplayInv, TapeType
<1>3. Paced' /\ at' \in Place
  BY <1>1, <1>2, PaceKept
<1>4. at'.epoch = at.epoch /\ at'.step = at.step
  BY <1>1, <1>2, PlaceAfter
<1>5. TapeType'
  BY <1>1, <1>2, <1>3 DEF TapeType
<1>6. RecordOK'
  BY <1>1 DEF RecordOK
<1>7. RecordedOK'
  BY <1>1, <1>4 DEF ReplayInv, RecordedOK
<1>8. QED
  BY <1>3, <1>5, <1>6, <1>7 DEF ReplayInv

\* The step that is due is on the file, and what it left is written back.
LEMMA ReplayStepKeeps ==
  ASSUME TapeBatches % TapeSteps = 0, \A i, j \in Index : Owned[i] = Owned[j] => i = j,
         ReplayInv, ReplayStep
  PROVE  ReplayInv'
<1>1. More /\ mode = "replay" /\ Due /\ UNCHANGED <<withGrad, writes, cassette, report, recorded>>
  BY DEF ReplayStep
<1>2. /\ TapeType /\ Paced /\ at \in Place /\ values \in Vals
      /\ at.epoch \in Nat /\ at.step \in Nat /\ at.epoch < TapeEpochs
  BY <1>1 DEF ReplayInv, TapeType, Place, Paced
<1>3. at.step < StepsPerEpoch /\ at.window + 1 = TapeSteps
  BY <1>1, <1>2, StepsAhead DEF More
<1> DEFINE key == Key(at.window + 1)
<1>4. \/ key \in DOMAIN cassette /\ values' = Restored(cassette[key]) /\ at' = Stepped /\ UNCHANGED <<mode, missed>>
      \/ key \notin DOMAIN cassette /\ missed' = TRUE /\ mode' = "rest" /\ UNCHANGED <<values, at>>
  BY DEF ReplayStep
<1>5. key = [epoch |-> at.epoch, step |-> at.step, window |-> TapeSteps, agent |-> values]
  BY <1>3 DEF Key
<1> HIDE DEF key
<1>6. ASSUME recorded # <<>>
      PROVE  \E c : /\ FiledUpTo(cassette, c, TapeEpochs - 1, StepsPerEpoch)
                    /\ Reports(c, recorded) /\ Reports(c, report)
                    /\ key = KeyOf(c, at.epoch, at.step) /\ key \in DOMAIN cassette
                    /\ Restored(cassette[key]) = c[at.epoch][at.step + 1]
  <2>1. PICK c : /\ FiledUpTo(cassette, c, TapeEpochs - 1, StepsPerEpoch)
                 /\ Reports(c, recorded) /\ Reports(c, report)
                 /\ values = c[at.epoch][at.step]
    BY <1>1, <1>6 DEF ReplayInv, RecordedOK
  <2>2. key = KeyOf(c, at.epoch, at.step)
    BY <1>5, <2>1 DEF KeyOf
  <2>3. at.epoch < TapeEpochs - 1 \/ (at.epoch = TapeEpochs - 1 /\ at.step < StepsPerEpoch)
    BY <1>2, <1>3, TrainReplayAssumption
  <2>4. key \in DOMAIN cassette /\ cassette[key] = Filed(c[at.epoch][at.step + 1])
    BY <1>2, <1>3, <2>1, <2>2, <2>3 DEF FiledUpTo
  <2>5. c[at.epoch][at.step + 1] \in Vals
    BY <1>2, <2>1 DEF FiledUpTo
  <2>6. QED
    BY <2>1, <2>2, <2>4, <2>5, FiledBack
<1>7. RecordOK'
  BY <1>1, <1>4 DEF RecordOK
<1>8. RecordedOK'
  <2>1. SUFFICES ASSUME recorded # <<>> PROVE RecordedOK'
    BY <1>1 DEF RecordedOK
  <2>2. PICK c : /\ FiledUpTo(cassette, c, TapeEpochs - 1, StepsPerEpoch)
                 /\ Reports(c, recorded) /\ Reports(c, report)
                 /\ key \in DOMAIN cassette /\ Restored(cassette[key]) = c[at.epoch][at.step + 1]
    BY <1>6, <2>1
  <2>3. values' = c[at.epoch][at.step + 1] /\ at' = Stepped /\ missed' = missed
    BY <1>4, <2>2
  <2>4. at'.epoch = at.epoch /\ at'.step = at.step + 1
    BY <1>2, <2>3, PlaceAfter
  <2>5. ~missed /\ Len(recorded) = TapeEpochs /\ Len(report) <= TapeEpochs
    BY <2>1 DEF ReplayInv, RecordedOK
  <2>6. QED
    BY <1>1, <2>2, <2>3, <2>4, <2>5 DEF RecordedOK
<1>9. Paced' /\ at' \in Place
  <2>1. CASE at' = Stepped /\ mode' = mode
    BY <1>1, <1>2, <2>1, PaceKept
  <2>2. CASE mode' = "rest" /\ at' = at
    BY <1>2, <2>2 DEF Paced
  <2>3. QED
    BY <1>4, <2>1, <2>2
<1>10. TapeType'
  <2>1. values' \in Vals
    <3>1. \A post : Restored(post) = [i \in Index |-> IF \E j \in Index : j < i /\ Owned[j] = Owned[i]
                                                     THEN values[i] ELSE post[Owned[i]]]
      BY DEF Restored
    <3>2. \A k \in DOMAIN cassette : cassette[k] \in [OwnPaths -> Nat]
      BY <1>2 DEF TapeType
    <3>3. \A i \in Index : Owned[i] \in OwnPaths
      BY DEF OwnPaths
    <3>4. \A i \in Index : values[i] \in Nat
      BY <1>2 DEF Vals
    <3>5. CASE key \in DOMAIN cassette /\ values' = Restored(cassette[key])
      <4>1. PICK post \in [OwnPaths -> Nat] : post = cassette[key]
        BY <3>2, <3>5
      <4>2. values' = [i \in Index |-> IF \E j \in Index : j < i /\ Owned[j] = Owned[i]
                                      THEN values[i] ELSE post[Owned[i]]]
        BY <3>1, <3>5, <4>1
      <4>3. QED
        BY <3>3, <3>4, <4>2 DEF Vals
    <3>6. QED
      BY <1>2, <1>4, <3>5
  <2>2. QED
    BY <1>1, <1>2, <1>4, <1>9, <2>1 DEF TapeType
<1>11. QED
  BY <1>7, <1>8, <1>9, <1>10 DEF ReplayInv

LEMMA EndTapeEpochKeeps ==
  ASSUME TapeBatches % TapeSteps = 0, ReplayInv, EndTapeEpoch
  PROVE  ReplayInv'
<1> DEFINE over == at.epoch + 1 = TapeEpochs
<1>1. /\ mode # "rest" /\ at.batch = TapeBatches
      /\ report' = Append(report, values)
      /\ mode' = IF over THEN "rest" ELSE mode
      /\ at' = [at EXCEPT !.epoch = @ + 1, !.batch = 0, !.step = 0, !.window = 0]
      /\ recorded' = IF over /\ mode = "record" THEN report' ELSE recorded
      /\ UNCHANGED <<values, withGrad, writes, cassette, missed>>
      /\ mode = "record" => withGrad = {}
  BY DEF EndTapeEpoch
<1> HIDE DEF over
<1>2. /\ TapeType /\ Paced /\ at \in Place /\ values \in Vals /\ report \in Seq(Vals)
      /\ at.epoch \in Nat /\ at.epoch < TapeEpochs /\ Len(report) = at.epoch
      /\ TapeEpochs \in Nat /\ TapeSteps \in Nat \ {0} /\ TapeBatches \in Nat /\ StepsPerEpoch \in Nat
  BY <1>1, StepsNat, TrainReplayAssumption DEF ReplayInv, TapeType, Place, Paced
<1>3. at.step = StepsPerEpoch /\ at.window = 0
  BY <1>1, <1>2, StepsAhead
<1>4. /\ at' \in Place /\ at'.epoch = at.epoch + 1 /\ at'.batch = 0 /\ at'.step = 0 /\ at'.window = 0
      /\ at'.counter = at.counter
  <2>1. PICK e, c, b, s, w \in Nat : at = [epoch |-> e, counter |-> c, batch |-> b, step |-> s, window |-> w]
    BY <1>2 DEF Place
  <2>2. /\ at'.epoch = e + 1 /\ at'.batch = 0 /\ at'.step = 0 /\ at'.window = 0 /\ at'.counter = c
        /\ at' = [f \in {"epoch", "counter", "batch", "step", "window"} |-> at'[f]]
    BY <1>1, <2>1
  <2>3. e + 1 \in Nat /\ 0 \in Nat
    OBVIOUS
  <2>4. at' \in Place
    BY <2>2, <2>3 DEF Place
  <2>5. QED
    BY <2>1, <2>2, <2>4
<1>5. /\ report' \in Seq(Vals) /\ Len(report') = at.epoch + 1 /\ report'[at.epoch + 1] = values
      /\ \A e \in 1 .. at.epoch : report'[e] = report[e]
  BY <1>1, <1>2
<1>6. Paced'
  <2>1. SUFFICES ASSUME mode' # "rest" PROVE Paced'
    BY DEF Paced
  <2>2. mode' = mode /\ at.epoch + 1 # TapeEpochs
    BY <1>1, <2>1 DEF over
  <2>3. at'.epoch < TapeEpochs /\ Len(report') = at'.epoch
    BY <1>2, <1>4, <1>5, <2>2
  <2>4. at'.window < TapeSteps /\ at'.batch = at'.step * TapeSteps + at'.window /\ at'.batch <= TapeBatches
    <3>1. 0 = 0 * TapeSteps + 0 /\ 0 < TapeSteps /\ 0 <= TapeBatches
      BY <1>2
    <3>2. QED
      BY <1>4, <3>1
  <2>5. \E q \in Nat : at'.counter = q * TapeSteps + at'.window
    BY <1>1, <1>2, <1>3, <1>4 DEF Paced
  <2>6. QED
    BY <1>1, <2>2, <2>3, <2>4, <2>5 DEF Paced
\* What c tells of the epochs so far, it tells with the epoch that ends.
<1>7. ASSUME NEW c, c \in [Nat -> [Nat -> Vals]], Reports(c, report), values = c[at.epoch][at.step]
      PROVE  Reports(c, report')
  <2>1. ASSUME NEW e \in 1 .. at.epoch + 1 PROVE report'[e] = c[e - 1][StepsPerEpoch]
    <3>1. CASE e = at.epoch + 1
      <4>1. e - 1 = at.epoch
        BY <1>2, <3>1
      <4>2. QED
        BY <1>3, <1>5, <1>7, <3>1, <4>1
    <3>2. CASE e # at.epoch + 1
      <4>1. e \in 1 .. at.epoch
        BY <1>2, <2>1, <3>2
      <4>2. report[e] = c[e - 1][StepsPerEpoch]
        BY <1>2, <1>7, <4>1 DEF Reports
      <4>3. QED
        BY <1>5, <4>1, <4>2
    <3>3. QED
      BY <3>1, <3>2
  <2>2. QED
    BY <1>5, <2>1 DEF Reports
<1>8. CASE mode = "record"
  <2>1. PICK c : /\ FiledUpTo(cassette, c, at.epoch, at.step) /\ Reports(c, report)
                 /\ values = c[at.epoch][at.step]
    BY <1>8 DEF ReplayInv, RecordOK
  <2>2. ~missed /\ recorded = <<>> /\ c \in [Nat -> [Nat -> Vals]]
    BY <1>8, <2>1 DEF ReplayInv, RecordOK, FiledUpTo
  <2>3. Reports(c, report')
    BY <1>7, <2>1, <2>2
  <2>4. CASE over
    <3>1. mode' = "rest" /\ recorded' = report' /\ at.epoch = TapeEpochs - 1 /\ Len(report') = TapeEpochs
      BY <1>1, <1>2, <1>5, <1>8, <2>4 DEF over
    <3>2. RecordOK'
      BY <3>1 DEF RecordOK
    <3>3. FiledUpTo(cassette', c, TapeEpochs - 1, StepsPerEpoch)
      BY <1>1, <1>3, <2>1, <3>1
    <3>4. RecordedOK'
      BY <1>1, <1>2, <2>2, <2>3, <3>1, <3>3 DEF RecordedOK
    <3>5. TapeType'
      BY <1>1, <1>2, <1>4, <1>5, <3>1 DEF TapeType
    <3>6. QED
      BY <1>6, <3>2, <3>4, <3>5 DEF ReplayInv
  <2>5. CASE ~over
    <3> DEFINE d == [c EXCEPT ![at.epoch + 1] = [c[at.epoch + 1] EXCEPT ![0] = c[at.epoch][StepsPerEpoch]]]
    <3>1. mode' = mode /\ recorded' = recorded
      BY <1>1, <2>5
    <3>2. FiledUpTo(cassette, d, at.epoch + 1, 0) /\ \A e \in 0 .. at.epoch : d[e] = c[e]
      BY <1>2, <1>3, <2>1, NextEpochFiled
    <3>3. d[at.epoch + 1][0] = values
      BY <1>2, <1>3, <2>1, <2>2
    <3> HIDE DEF d
    <3>4. Reports(d, report')
      <4>1. \A e \in 1 .. Len(report') : e - 1 \in 0 .. at.epoch
        BY <1>2, <1>5
      <4>2. QED
        BY <2>3, <3>2, <4>1 DEF Reports
    <3>5. RecordOK'
      BY <1>1, <1>4, <2>2, <3>1, <3>2, <3>3, <3>4 DEF RecordOK
    <3>6. RecordedOK'
      BY <2>2, <3>1 DEF RecordedOK
    <3>7. TapeType'
      BY <1>1, <1>2, <1>4, <1>5, <3>1 DEF TapeType
    <3>8. QED
      BY <1>6, <3>5, <3>6, <3>7 DEF ReplayInv
  <2>6. QED
    BY <2>4, <2>5
<1>9. CASE mode = "replay"
  <2>1. recorded' = recorded /\ mode' # "record"
    BY <1>1, <1>9
  <2>2. RecordedOK'
    <3>1. SUFFICES ASSUME recorded # <<>> PROVE RecordedOK'
      BY <2>1 DEF RecordedOK
    <3>2. PICK c : /\ FiledUpTo(cassette, c, TapeEpochs - 1, StepsPerEpoch)
                   /\ Reports(c, recorded) /\ Reports(c, report)
                   /\ values = c[at.epoch][at.step]
      BY <1>9, <3>1 DEF ReplayInv, RecordedOK
    <3>3. c \in [Nat -> [Nat -> Vals]]
      BY <3>2 DEF FiledUpTo
    <3>4. Reports(c, report')
      BY <1>7, <3>2, <3>3
    <3>5. ~missed /\ Len(recorded) = TapeEpochs /\ Len(report') <= TapeEpochs
      BY <1>2, <1>5, <3>1 DEF ReplayInv, RecordedOK
    <3>6. mode' = "replay" => values' = c[at'.epoch][at'.step]
      <4>1. SUFFICES ASSUME mode' = "replay" PROVE values' = c[at'.epoch][at'.step]
        OBVIOUS
      <4>2. at.epoch + 1 # TapeEpochs
        BY <1>1, <4>1 DEF over
      <4>3. at.epoch + 1 \in 1 .. TapeEpochs - 1 /\ (at.epoch + 1) - 1 = at.epoch
        BY <1>2, <4>2
      <4>4. c[at.epoch + 1][0] = c[at.epoch][StepsPerEpoch]
        BY <3>2, <4>3 DEF FiledUpTo
      <4>5. QED
        BY <1>1, <1>3, <1>4, <3>2, <4>4
    <3>7. QED
      BY <1>1, <2>1, <3>2, <3>4, <3>5, <3>6 DEF RecordedOK
  <2>3. RecordOK'
    BY <2>1 DEF RecordOK
  <2>4. TapeType'
    BY <1>1, <1>2, <1>4, <1>5, <1>9, <2>1 DEF TapeType
  <2>5. QED
    BY <1>6, <2>2, <2>3, <2>4 DEF ReplayInv
<1>10. QED
  BY <1>1, <1>2, <1>8, <1>9 DEF TapeType

\* With whole windows only, the flush finds nothing.
LEMMA NothingToFlush ==
  ASSUME TapeBatches % TapeSteps = 0, ReplayInv
  PROVE  ~FlushTape
<1>1. SUFFICES ASSUME FlushTape PROVE FALSE
  OBVIOUS
<1>2. mode = "record" /\ at.batch = TapeBatches /\ withGrad # {}
  BY <1>1 DEF FlushTape
<1>3. TapeType /\ Paced
  BY DEF ReplayInv
<1>4. at.window = 0
  BY <1>2, <1>3, StepsAhead
<1>5. QED
  BY <1>2, <1>3, <1>4 DEF Paced

LEMMA ReplayStepInv ==
  ASSUME TapeBatches % TapeSteps = 0, \A i, j \in Index : Owned[i] = Owned[j] => i = j
  PROVE  ReplayInv /\ [ReplayNext]_replayvars => ReplayInv'
<1> SUFFICES ASSUME ReplayInv, [ReplayNext]_replayvars PROVE ReplayInv'
  OBVIOUS
<1>1. CASE BeginFitAs("record", Recordings)
  BY <1>1, BeginFitKeeps
<1>2. CASE BeginFitAs("replay", Replays)
  BY <1>2, BeginFitKeeps
<1>3. ASSUME NEW given \in Gives, RecordBatch(given) PROVE ReplayInv'
  BY <1>3, RecordBatchKeeps
<1>4. CASE ReplayBatch
  BY <1>4, ReplayBatchKeeps
<1>5. CASE ReplayStep
  BY <1>5, ReplayStepKeeps
<1>6. CASE FlushTape
  BY <1>6, NothingToFlush
<1>7. CASE EndTapeEpoch
  BY <1>7, EndTapeEpochKeeps
<1>8. CASE TapeFitRaises
  <2>1. mode' = "rest" /\ UNCHANGED <<at, values, writes, cassette, report, recorded, missed>>
    BY <1>8 DEF TapeFitRaises
  <2>2. TapeType'
    BY <2>1 DEF ReplayInv, TapeType
  <2>3. QED
    BY <2>1, <2>2 DEF ReplayInv, Paced, RecordOK, RecordedOK
<1>9. CASE UNCHANGED replayvars
  BY <1>9 DEF replayvars, ReplayInv, TapeType, Paced, RecordOK, RecordedOK
<1>10. QED
  BY <1>1, <1>2, <1>3, <1>4, <1>5, <1>6, <1>7, <1>8, <1>9 DEF ReplayNext

\* Where a flush is never needed, a replay restores every epoch.
RestoresAll == HasRecording => ~missed /\ \A e \in DOMAIN report : report[e] = recorded[e]

LEMMA ReplayInvRestores == ReplayInv => ReplayRestores /\ RestoresAll
<1> SUFFICES ASSUME ReplayInv, HasRecording PROVE ~missed /\ \A e \in DOMAIN report : report[e] = recorded[e]
  BY DEF ReplayRestores, RestoresAll
<1>1. recorded # <<>>
  BY DEF HasRecording
<1>2. ~missed /\ Len(recorded) = TapeEpochs /\ Len(report) <= TapeEpochs /\ report \in Seq(Vals)
  BY <1>1 DEF ReplayInv, RecordedOK, TapeType
<1>3. PICK c : Reports(c, recorded) /\ Reports(c, report)
  BY <1>1 DEF ReplayInv, RecordedOK
<1>4. DOMAIN report = 1 .. Len(report) /\ Len(report) \in Nat /\ TapeEpochs \in Nat
  BY <1>2, TrainReplayAssumption
<1>5. \A e \in DOMAIN report : e \in 1 .. Len(report) /\ e \in 1 .. Len(recorded)
  BY <1>2, <1>4
<1>6. QED
  BY <1>2, <1>3, <1>5 DEF Reports

\* Where no two parameters share a path, and the batches of an epoch fill their windows:
\* for any parameters, epochs, batches, steps and fits recorded into one file, whole or
\* not, a replay misses no step and restores the parameters of the last whole recording.
\* (What happens without the one or the other condition: see the README.)
THEOREM ReplayAlwaysRestores ==
  ASSUME TapeBatches % TapeSteps = 0, \A i, j \in Index : Owned[i] = Owned[j] => i = j
  PROVE  ReplaySpec => [](ReplayRestores /\ RestoresAll)
<1>1. ReplayInit => ReplayInv
  BY ReplayInitInv
<1>2. ReplayInv /\ [ReplayNext]_replayvars => ReplayInv'
  BY ReplayStepInv
<1>3. ReplayInv => ReplayRestores /\ RestoresAll
  BY ReplayInvRestores
<1>4. QED
  BY <1>1, <1>2, <1>3, PTL DEF ReplaySpec

-----------------------------------------------------------------------------
(* Backpropagation                                                           *)

Gradient == [sample : Nat, entry : Nat, critique : Seq(Nat)]

BackTypeOK ==
  /\ stage \in {"over", "pass1", "pass2"} /\ sample \in Nat /\ entry \in Nat
  /\ tapePaths \in TapePaths \cup {<<>>}
  /\ down \in [DOMAIN Up -> Seq(Nat)] /\ critique \in [DOMAIN Up -> Seq(Nat)]
  /\ task \in [Handles -> {"none", "waiting", "asking", "done"}]
  /\ strays \subseteq [of : Handles, made : Gradient]
  /\ trace \in [Handles -> Gradient \cup {NoTrace}]
  /\ muted \in BOOLEAN /\ troubled \in BOOLEAN

\* A walk stands at an entry of the tape of a sample that has begun.
OnTheTape ==
  /\ sample > 0 => tapePaths \in TapePaths
  /\ stage # "over" => sample > 0 /\ entry \in 1 .. Len(tapePaths)

\* What has come down to a path was refined at each composite above it.
ChainsDown ==
  sample > 0 => \A q \in DOMAIN Up :
    /\ down[q] # <<>> => \/ q = tapePaths[1] /\ down[q] = <<0>>
                         \/ q \in ToSet(tapePaths) /\ Up[q] # q /\ LeadsTo(tapePaths, down[q], Up[q])
    /\ critique[q] # <<>> => LeadsTo(tapePaths, critique[q], q)

\* The tasks are those of the leaf the walk stands at, and no one else's.
TasksOfHere ==
  /\ stage # "pass2" => task = NoTask
  /\ \A p \in Handles : task[p] # "none" => Dispatches /\ p \in Trained[Here]
  /\ Started => \A p \in Trained[Here] : task[p] # "none"
  /\ \A p \in Handles : task[p] = "done" => trace[p] # NoTrace

\* What a gradient g of p is, if it is of this sample.
OfItsLeaf(p, g) ==
  /\ g.sample <= sample
  /\ g.sample = sample =>
       g.entry \in DOMAIN tapePaths /\ p \in Trained[tapePaths[g.entry]] /\ LeadsTo(tapePaths, g.critique, tapePaths[g.entry])

GradsOfTheirLeaf ==
  /\ \A p \in Handles : trace[p] # NoTrace => OfItsLeaf(p, trace[p])
  /\ \A s \in strays : OfItsLeaf(s.of, s.made)

\* Entries of pass 1 that have been walked.
Walked == IF stage = "pass1" THEN entry - 1 ELSE Len(tapePaths)

\* A critique reaches each entry as the walk passes it, and its callees with it.
CritiquesReach ==
  stage # "over" /\ ~muted =>
    /\ down[tapePaths[1]] # <<>>
    /\ \A k \in 1 .. Walked : tapePaths[k] \in Reached =>
         /\ critique[tapePaths[k]] # <<>>
         /\ \A q \in ChildPaths(tapePaths[k]) : q \in Reached => down[q] # <<>>

\* Entries of pass 2 that have been walked are those from here on.
Behind == IF stage = "over" THEN 0 ELSE IF stage = "pass2" THEN entry ELSE Len(tapePaths)

LeavesServed ==
  sample > 0 /\ ~muted /\ ~troubled =>
    \A k \in Behind + 1 .. Len(tapePaths) :
      tapePaths[k] \in Reached /\ Split[tapePaths[k]] = "leaf" => \A p \in Trained[tapePaths[k]] : trace[p] # NoTrace

BackInv ==
  /\ BackTypeOK /\ OnTheTape /\ ChainsDown /\ TasksOfHere /\ GradsOfTheirLeaf
  /\ CritiquesReach /\ LeavesServed /\ GradOfItsSample

-----------------------------------------------------------------------------
(* Paths *)

LEMMA TapeFacts ==
  ASSUME NEW t \in TapePaths
  PROVE  /\ t \in Seq(DOMAIN Up) /\ Len(t) \in Nat \ {0} /\ DOMAIN t = 1 .. Len(t) /\ Up[t[1]] = t[1]
         /\ \A k \in 1 .. Len(t) : t[k] \in DOMAIN Up
         /\ \A k \in 2 .. Len(t) : Up[t[k]] # t[k] /\ \E j \in 1 .. k - 1 : t[j] = Up[t[k]]
<1>1. /\ t \in Seq(DOMAIN Up) /\ t # <<>> /\ Up[t[1]] = t[1]
      /\ \A k \in 2 .. Len(t) : Up[t[k]] # t[k] /\ \E j \in 1 .. k - 1 : t[j] = Up[t[k]]
  BY BackpropAssumption
<1>2. Len(t) \in Nat \ {0} /\ DOMAIN t = 1 .. Len(t) /\ \A k \in 1 .. Len(t) : t[k] \in DOMAIN Up
  BY <1>1
<1> QED BY <1>1, <1>2

LEMMA AboveUp ==
  ASSUME NEW q \in DOMAIN Up
  PROVE  q \in Above[q] /\ Above[Up[q]] \subseteq Above[q]
<1>1. Up[q] \in DOMAIN Up
  BY BackpropAssumption
<1>2. q \in Above[q]
  BY DEF Above
<1>3. ASSUME NEW r \in Above[Up[q]] PROVE r \in Above[q]
  <2>1. r \in DOMAIN Up /\ \A S \in SUBSET DOMAIN Up : Up[q] \in S /\ (\A s \in S : Up[s] \in S) => r \in S
    BY <1>1, <1>3 DEF Above
  <2>2. \A S \in SUBSET DOMAIN Up : q \in S /\ (\A s \in S : Up[s] \in S) => r \in S
    BY <2>1
  <2> QED BY <2>1, <2>2 DEF Above
<1> QED BY <1>2, <1>3

\* What is not called by a selector is none, and is called by what is not either.
LEMMA ReachedUp ==
  ASSUME tapePaths \in TapePaths, NEW q \in Reached, Up[q] \in ToSet(tapePaths)
  PROVE  q \in DOMAIN Up /\ q \notin Selector /\ Up[q] \in Reached
<1>1. /\ DOMAIN tapePaths = 1 .. Len(tapePaths) /\ \A k \in 1 .. Len(tapePaths) : tapePaths[k] \in DOMAIN Up
  BY TapeFacts
<1>2. q \in DOMAIN Up /\ Above[q] \cap Selector = {}
  BY <1>1 DEF Reached
<1>3. q \in Above[q] /\ Above[Up[q]] \subseteq Above[q]
  BY <1>2, AboveUp
<1>4. Up[q] \in {tapePaths[k] : k \in DOMAIN tapePaths}
  BY DEF ToSet
<1> QED BY <1>2, <1>3, <1>4 DEF Reached

LEMMA RefinedAtRoot ==
  ASSUME NEW t \in TapePaths
  PROVE  LeadsTo(t, Append(<<0>>, 1), t[1])
<1>1. Len(t) \in Nat \ {0} /\ DOMAIN t = 1 .. Len(t) /\ Up[t[1]] = t[1]
  BY TapeFacts
<1> DEFINE c == Append(<<0>>, 1)
<1>2. Len(c) = 2 /\ c[2] = 1
  OBVIOUS
<1> HIDE DEF c
<1>3. /\ Len(c) > 1 /\ \A k \in 2 .. Len(c) : c[k] \in DOMAIN t
      /\ Up[t[c[2]]] = t[c[2]] /\ t[c[Len(c)]] = t[1]
  BY <1>1, <1>2
<1>4. \A k \in 3 .. Len(c) : t[c[k]] # t[c[k - 1]] /\ Up[t[c[k]]] = t[c[k - 1]]
  BY <1>2
<1> QED BY <1>3, <1>4 DEF LeadsTo, c

LEMMA RefinedOnce ==
  ASSUME NEW t \in TapePaths, NEW c \in Seq(Nat), NEW e \in DOMAIN t, Up[t[e]] # t[e], LeadsTo(t, c, Up[t[e]])
  PROVE  LeadsTo(t, Append(c, e), t[e])
<1> DEFINE d == Append(c, e)
<1>1. Len(c) \in Nat /\ Len(c) > 1
  BY DEF LeadsTo
<1>2. Len(d) = Len(c) + 1 /\ d[Len(d)] = e /\ \A k \in 1 .. Len(c) : d[k] = c[k]
  BY <1>1, TapeFacts
<1> HIDE DEF d
<1>3. \A k \in 2 .. Len(d) : d[k] \in DOMAIN t
  <2>1. \A k \in 2 .. Len(c) : c[k] \in DOMAIN t
    BY DEF LeadsTo
  <2>2. \A k \in 2 .. Len(d) : k \in 2 .. Len(c) \/ k = Len(d)
    BY <1>1, <1>2
  <2>3. \A k \in 2 .. Len(c) : k \in 1 .. Len(c)
    BY <1>1
  <2>4. QED
    BY <1>2, <2>1, <2>2, <2>3
<1>4. Up[t[d[2]]] = t[d[2]]
  BY <1>1, <1>2 DEF LeadsTo
<1>5. ASSUME NEW k \in 3 .. Len(d) PROVE t[d[k]] # t[d[k - 1]] /\ Up[t[d[k]]] = t[d[k - 1]]
  <2>1. CASE k = Len(d)
    <3>1. d[k] = e /\ d[k - 1] = c[Len(c)]
      BY <2>1, <1>1, <1>2
    <3>2. t[c[Len(c)]] = Up[t[e]]
      BY DEF LeadsTo
    <3> QED BY <3>1, <3>2
  <2>2. CASE k # Len(d)
    <3>1. k \in 3 .. Len(c) /\ d[k] = c[k] /\ d[k - 1] = c[k - 1]
      BY <2>2, <1>1, <1>2
    <3> QED BY <3>1 DEF LeadsTo
  <2> QED BY <2>1, <2>2
<1>6. Len(d) > 1 /\ t[d[Len(d)]] = t[e]
  BY <1>1, <1>2
<1>7. LeadsTo(t, d, t[e])
  BY <1>3, <1>4, <1>5, <1>6 DEF LeadsTo
<1> QED BY <1>7 DEF d

-----------------------------------------------------------------------------
(* Every step keeps the types *)

LEMMA BackStart == BackInit => BackInv
<1> SUFFICES ASSUME BackInit PROVE BackInv
  OBVIOUS
<1> USE DEF BackInit
<1>1. BackTypeOK
  <2>1. <<>> \in Seq(Nat)
    OBVIOUS
  <2>2. down \in [DOMAIN Up -> Seq(Nat)] /\ critique \in [DOMAIN Up -> Seq(Nat)]
    BY <2>1 DEF NoCritique
  <2>3. task \in [Handles -> {"none", "waiting", "asking", "done"}] /\ trace \in [Handles -> Gradient \cup {NoTrace}]
    BY DEF NoTask, NoGradient
  <2> QED BY <2>2, <2>3 DEF BackTypeOK
<1>2. OnTheTape /\ ChainsDown /\ GradsOfTheirLeaf /\ CritiquesReach /\ LeavesServed /\ GradOfItsSample
  BY DEF OnTheTape, ChainsDown, GradsOfTheirLeaf, CritiquesReach, LeavesServed, GradOfItsSample, NoGradient
<1>3. TasksOfHere
  BY DEF TasksOfHere, NoTask, Started
<1> QED BY <1>1, <1>2, <1>3 DEF BackInv

LEMMA MadeIs ==
  ASSUME BackTypeOK, OnTheTape, stage = "pass2"
  PROVE  Made \in Gradient /\ Made.sample = sample /\ Made.entry = entry /\ Made.critique = critique[Here] /\ Here \in DOMAIN Up
<1>1. tapePaths \in TapePaths /\ entry \in 1 .. Len(tapePaths) /\ sample \in Nat /\ entry \in Nat
  BY DEF OnTheTape, BackTypeOK
<1>2. Here \in DOMAIN Up
  BY <1>1, TapeFacts DEF Here
<1>3. critique[Here] \in Seq(Nat)
  BY <1>2 DEF BackTypeOK
<1> QED BY <1>1, <1>2, <1>3 DEF Made, Gradient

LEMMA BackTypes ==
  ASSUME BackTypeOK, OnTheTape, [BackNext]_backvars
  PROVE  BackTypeOK'
<1> USE DEF BackTypeOK
<1> DEFINE MadeOk == stage = "pass2" => Made \in Gradient
<1>0. MadeOk
  BY MadeIs
<1> HIDE DEF MadeOk
<1>1. ASSUME NEW paths \in TapePaths, BeginSample(paths) PROVE BackTypeOK'
  <2>1. <<0>> \in Seq(Nat) /\ <<>> \in Seq(Nat)
    OBVIOUS
  <2>2. down' \in [DOMAIN Up -> Seq(Nat)] /\ critique' \in [DOMAIN Up -> Seq(Nat)]
    BY <1>1, <2>1 DEF BeginSample, NoCritique
  <2>3. task' \in [Handles -> {"none", "waiting", "asking", "done"}] /\ trace' \in [Handles -> Gradient \cup {NoTrace}]
    BY <1>1 DEF BeginSample, NoTask, NoGradient
  <2>4. /\ stage' = "pass1" /\ sample' = sample + 1 /\ entry' = 1 /\ tapePaths' = paths
        /\ strays' = strays /\ muted' = FALSE /\ troubled' = troubled
    BY <1>1 DEF BeginSample
  <2>5. /\ sample' \in Nat /\ entry' \in Nat /\ tapePaths' \in TapePaths \cup {<<>>}
        /\ strays' \subseteq [of : Handles, made : Gradient] /\ muted' \in BOOLEAN /\ troubled' \in BOOLEAN
    <3>1. sample' \in Nat /\ entry' \in Nat /\ tapePaths' \in TapePaths \cup {<<>>}
      BY <2>4
    <3>2. strays' \subseteq [of : Handles, made : Gradient]
      BY <2>4
    <3>3. muted' \in BOOLEAN /\ troubled' \in BOOLEAN
      <4>1. troubled \in BOOLEAN
        OBVIOUS
      <4> QED BY <2>4, <4>1, Zenon
    <3> QED BY <3>1, <3>2, <3>3
  <2> QED BY <2>2, <2>3, <2>4, <2>5
<1>2. CASE Pass
  <2>1. Len(tapePaths) \in Nat /\ entry' \in Nat /\ stage' \in {"over", "pass1", "pass2"}
    BY <1>2, TapeFacts DEF Pass, WalkOn, NextEntry, OnTheTape
  <2> QED BY <1>2, <2>1 DEF Pass
<1>3. ASSUME NEW taken, NEW out \in {<<>>, Append(down[Here], entry)}, stage = "pass1", Propagate(out, taken) PROVE BackTypeOK'
  <2>1. Len(tapePaths) \in Nat /\ entry' \in Nat /\ stage' \in {"over", "pass1", "pass2"} /\ Here \in DOMAIN Up
    BY <1>3, TapeFacts DEF Propagate, WalkOn, NextEntry, OnTheTape, Here
  <2>2. <<>> \in Seq(Nat) /\ out \in Seq(Nat)
    <3>1. down[Here] \in Seq(Nat)
      BY <2>1
    <3>2. entry \in Nat
      OBVIOUS
    <3>3. Append(down[Here], entry) \in Seq(Nat) /\ <<>> \in Seq(Nat)
      BY <3>1, <3>2
    <3> QED BY <1>3, <3>3
  <2>3. critique' \in [DOMAIN Up -> Seq(Nat)]
    BY <1>3, <2>2 DEF Propagate
  <2>4. \A q : Contribution(out, taken, q) \in Seq(Nat)
    BY <2>2 DEF Contribution
  <2>5. down' \in [DOMAIN Up -> Seq(Nat)]
    BY <1>3, <2>4 DEF Propagate
  <2>6. muted' \in BOOLEAN
    BY <1>3 DEF Propagate
  <2> QED BY <1>3, <2>1, <2>3, <2>5, <2>6 DEF Propagate
<1>3a. CASE PropagateAny
  BY <1>3, <1>3a DEF PropagateAny
<1>4. ASSUME stage = "pass2", BackOff PROVE entry' \in Nat /\ stage' \in {"over", "pass2"} /\ task' = NoTask
  BY <1>4 DEF BackOff, OnTheTape
<1>5. CASE SkipEntry
  BY <1>5, <1>4 DEF SkipEntry, NoTask
<1>6. CASE Dispatch
  BY <1>6 DEF Dispatch
<1>7. ASSUME NEW p \in Handles, AskGrad(p) PROVE BackTypeOK'
  BY <1>7 DEF AskGrad
<1>8. ASSUME NEW p \in Handles, WriteGrad(p) PROVE BackTypeOK'
  BY <1>8, <1>0 DEF WriteGrad, MadeOk
<1>9. ASSUME NEW P, P \subseteq Handles, stage = "pass2", strays' = strays \cup {[of |-> p, made |-> Made] : p \in P}
      PROVE  strays' \subseteq [of : Handles, made : Gradient]
  BY <1>9, <1>0 DEF MadeOk
<1>10. CASE Gather
  <2>1. strays' \subseteq [of : Handles, made : Gradient]
    <3>1. Unfinished \subseteq Handles
      BY DEF Unfinished
    <3> QED BY <1>9, <1>10, <3>1 DEF Gather
  <2> QED BY <1>10, <1>4, <2>1 DEF Gather, NoTask
<1>11. ASSUME NEW p \in Handles, GradRaises(p) PROVE BackTypeOK'
  <2>1. strays' \subseteq [of : Handles, made : Gradient]
    <3>1. Unfinished \ {p} \subseteq Handles
      BY DEF Unfinished
    <3> QED BY <1>9, <3>1, <1>11 DEF GradRaises
  <2> QED BY <1>11, <2>1 DEF GradRaises, NoTask
<1>12. CASE Raises
  BY <1>12 DEF Raises, NoTask
<1>13. ASSUME NEW s \in strays, StrayEnds(s) PROVE BackTypeOK'
  <2>1. s.of \in Handles /\ s.made \in Gradient
    OBVIOUS
  <2> QED BY <1>13, <2>1 DEF StrayEnds
<1>14. CASE UNCHANGED backvars
  BY <1>14 DEF backvars
<1> QED BY <1>1, <1>2, <1>3a, <1>5, <1>6, <1>7, <1>8, <1>10, <1>11, <1>12, <1>13, <1>14 DEF BackNext

LEMMA BackTape ==
  ASSUME BackTypeOK, OnTheTape, [BackNext]_backvars
  PROVE  OnTheTape'
<1> USE DEF OnTheTape
<1>0. sample \in Nat
  BY DEF BackTypeOK
<1>1. ASSUME NEW paths \in TapePaths, BeginSample(paths) PROVE OnTheTape'
  <2>1. 1 \in 1 .. Len(paths)
    BY TapeFacts
  <2> QED BY <1>1, <2>1, <1>0 DEF BeginSample
<1>2. ASSUME stage = "pass1", WalkOn, sample' = sample, tapePaths' = tapePaths PROVE OnTheTape'
  <2>1. Len(tapePaths) \in Nat \ {0} /\ entry \in 1 .. Len(tapePaths)
    BY <1>2, TapeFacts
  <2> QED BY <1>2, <2>1 DEF WalkOn, NextEntry
<1>3. CASE Pass \/ PropagateAny
  BY <1>2, <1>3 DEF Pass, PropagateAny, Propagate
<1>4. ASSUME stage = "pass2", BackOff, sample' = sample, tapePaths' = tapePaths PROVE OnTheTape'
  <2>1. Len(tapePaths) \in Nat \ {0} /\ entry \in 1 .. Len(tapePaths)
    BY <1>4, TapeFacts
  <2> QED BY <1>4, <2>1 DEF BackOff
<1>5. CASE SkipEntry \/ Gather
  BY <1>4, <1>5 DEF SkipEntry, Gather
<1>6. CASE UNCHANGED <<sample, tapePaths, entry>> /\ stage' \in {stage, "over"}
  BY <1>6
<1>7. CASE Dispatch \/ Raises \/ UNCHANGED backvars
  BY <1>6, <1>7 DEF Dispatch, Raises, backvars
<1>8. ASSUME NEW p \in Handles, AskGrad(p) \/ WriteGrad(p) \/ GradRaises(p) PROVE OnTheTape'
  BY <1>6, <1>8 DEF AskGrad, WriteGrad, GradRaises
<1>9. ASSUME NEW s \in strays, StrayEnds(s) PROVE OnTheTape'
  BY <1>6, <1>9 DEF StrayEnds
<1> QED BY <1>1, <1>3, <1>5, <1>7, <1>8, <1>9 DEF BackNext

-----------------------------------------------------------------------------
(* Critiques lead from the root *)

\* What propagate makes of what has come down.
LEMMA Refined ==
  ASSUME BackTypeOK, OnTheTape, ChainsDown, stage = "pass1", down[Here] # <<>>
  PROVE  LeadsTo(tapePaths, Append(down[Here], entry), Here)
<1>1. tapePaths \in TapePaths /\ entry \in 1 .. Len(tapePaths) /\ sample > 0
  BY DEF OnTheTape
<1>2. /\ Len(tapePaths) \in Nat \ {0} /\ DOMAIN tapePaths = 1 .. Len(tapePaths) /\ Here = tapePaths[entry] /\ Here \in DOMAIN Up
      /\ Up[tapePaths[1]] = tapePaths[1] /\ \A k \in 2 .. Len(tapePaths) : Up[tapePaths[k]] # tapePaths[k]
  BY <1>1, TapeFacts DEF Here
<1>3. down[Here] \in Seq(Nat)
  BY <1>2 DEF BackTypeOK
<1>4. CASE Here = tapePaths[1] /\ down[Here] = <<0>>
  <2>1. entry = 1
    <3>1. entry \in 2 .. Len(tapePaths) => Up[Here] # Here
      BY <1>2
    <3>2. Up[Here] = Here
      BY <1>2, <1>4
    <3> QED BY <1>1, <1>2, <3>1, <3>2
  <2> QED BY <2>1, <1>1, <1>2, <1>4, RefinedAtRoot
<1>5. CASE Up[Here] # Here /\ LeadsTo(tapePaths, down[Here], Up[Here])
  BY <1>1, <1>2, <1>3, <1>5, RefinedOnce
<1> QED BY <1>1, <1>2, <1>4, <1>5 DEF ChainsDown

LEMMA BackChains ==
  ASSUME BackTypeOK, OnTheTape, ChainsDown, [BackNext]_backvars
  PROVE  ChainsDown'
<1>1. ASSUME NEW paths \in TapePaths, BeginSample(paths) PROVE ChainsDown'
  <2>1. /\ down' = [NoCritique EXCEPT ![paths[1]] = <<0>>] /\ critique' = NoCritique /\ tapePaths' = paths
    BY <1>1 DEF BeginSample
  <2>2. \A q \in DOMAIN Up : critique'[q] = <<>> /\ (down'[q] # <<>> => q = paths[1] /\ down'[q] = <<0>>)
    BY <2>1 DEF NoCritique
  <2> QED BY <2>1, <2>2 DEF ChainsDown
<1>2. ASSUME NEW taken, NEW out \in {<<>>, Append(down[Here], entry)}, stage = "pass1", Propagate(out, taken) PROVE ChainsDown'
  <2>1. tapePaths \in TapePaths /\ entry \in 1 .. Len(tapePaths) /\ sample > 0 /\ tapePaths' = tapePaths /\ down[Here] # <<>>
    BY <1>2 DEF OnTheTape, Propagate
  <2>2. Here \in DOMAIN Up
    BY <2>1, TapeFacts DEF Here
  <2>3. out # <<>> => LeadsTo(tapePaths, out, Here)
    BY <1>2, <2>1, Refined
  <2>4. ASSUME NEW q \in DOMAIN Up
        PROVE  /\ critique'[q] # <<>> => LeadsTo(tapePaths, critique'[q], q)
               /\ down'[q] # <<>> => \/ q = tapePaths[1] /\ down'[q] = <<0>>
                                     \/ q \in ToSet(tapePaths) /\ Up[q] # q /\ LeadsTo(tapePaths, down'[q], Up[q])
    <3>1. critique[q] # <<>> => LeadsTo(tapePaths, critique[q], q)
      BY <2>1 DEF ChainsDown
    <3>2. critique'[q] = IF q = Here THEN out ELSE critique[q]
      BY <1>2, <2>2 DEF Propagate, BackTypeOK
    <3>3. down'[q] = IF q \in ChildPaths(Here) THEN Contribution(out, taken, q) ELSE down[q]
      BY <1>2 DEF Propagate, BackTypeOK
    <3>4. down[q] # <<>> => \/ q = tapePaths[1] /\ down[q] = <<0>>
                            \/ q \in ToSet(tapePaths) /\ Up[q] # q /\ LeadsTo(tapePaths, down[q], Up[q])
      BY <2>1 DEF ChainsDown
    <3>5. CASE q \in ChildPaths(Here)
      <4>1. q \in ToSet(tapePaths) /\ Up[q] = Here /\ q # Here
        BY <3>5 DEF ChildPaths, ToSet
      <4>2. down'[q] \in {<<>>, out}
        BY <3>3, <3>5 DEF Contribution
      <4> QED BY <3>1, <3>2, <2>3, <4>1, <4>2
    <3>6. CASE q \notin ChildPaths(Here)
      BY <3>1, <3>2, <2>3, <3>3, <3>4, <3>6
    <3> QED BY <3>5, <3>6
  <2> QED BY <2>1, <2>4 DEF ChainsDown
<1>2a. CASE PropagateAny
  BY <1>2, <1>2a DEF PropagateAny
<1>3. CASE UNCHANGED <<sample, tapePaths, down, critique>>
  BY <1>3 DEF ChainsDown
<1>4. CASE Pass \/ SkipEntry \/ Dispatch \/ Gather \/ Raises \/ UNCHANGED backvars
  BY <1>3, <1>4 DEF Pass, SkipEntry, Dispatch, Gather, Raises, backvars
<1>5. ASSUME NEW p \in Handles, AskGrad(p) \/ WriteGrad(p) \/ GradRaises(p) PROVE ChainsDown'
  BY <1>3, <1>5 DEF AskGrad, WriteGrad, GradRaises
<1>6. ASSUME NEW s \in strays, StrayEnds(s) PROVE ChainsDown'
  BY <1>3, <1>6 DEF StrayEnds
<1> QED BY <1>1, <1>2a, <1>4, <1>5, <1>6 DEF BackNext

-----------------------------------------------------------------------------
(* Tasks are those of the leaf that is walked *)

LEMMA NotATrace == NoTrace \notin Gradient
  BY BackpropAssumption DEF Gradient

LEMMA NoTaskOfAny ==
  ASSUME task' = NoTask
  PROVE  TasksOfHere'
<1>1. \A p \in Handles : task'[p] = "none"
  BY DEF NoTask
<1> QED BY <1>1 DEF TasksOfHere, Started

LEMMA BackTasks ==
  ASSUME BackTypeOK, OnTheTape, TasksOfHere, [BackNext]_backvars
  PROVE  TasksOfHere'
<1> USE DEF TasksOfHere
<1>1. ASSUME NEW paths \in TapePaths, BeginSample(paths) PROVE TasksOfHere'
  BY <1>1, NoTaskOfAny DEF BeginSample
<1>2. CASE Pass \/ PropagateAny
  <2>1. task' = NoTask
    BY <1>2 DEF Pass, PropagateAny, Propagate
  <2> QED BY <2>1, NoTaskOfAny
<1>3. CASE SkipEntry \/ Gather \/ Raises
  BY <1>3, NoTaskOfAny DEF SkipEntry, Gather, BackOff, Raises
<1>4. CASE Dispatch
  <2>1. /\ stage = "pass2" /\ stage' = "pass2" /\ Here' = Here /\ critique' = critique /\ trace' = trace /\ Dispatches
        /\ task' = [p \in Handles |-> IF p \in Trained[Here] THEN "waiting" ELSE "none"]
    BY <1>4 DEF Dispatch, Here
  <2>2. Dispatches'
    BY <2>1 DEF Dispatches
  <2>3. Trained[Here] \subseteq Handles
    <3>1. Here \in DOMAIN Trained
      <4>1. Here \in DOMAIN Up
        BY <2>1, TapeFacts DEF OnTheTape, Here
      <4> QED BY <2>1, <4>1, BackpropAssumption DEF Dispatches
    <3> QED BY <3>1 DEF Handles
  <2>4. \A p \in Handles : task'[p] = IF p \in Trained[Here] THEN "waiting" ELSE "none"
    BY <2>1
  <2> QED BY <2>1, <2>2, <2>3, <2>4
<1>5. ASSUME NEW p \in Handles, NEW where \in {"asking", "done"}, task[p] # "none", task' = [task EXCEPT ![p] = where],
             UNCHANGED <<stage, tapePaths, entry, critique>>,
             \A r \in Handles : trace[r] # NoTrace => trace'[r] # NoTrace, where = "done" => trace'[p] # NoTrace
      PROVE  TasksOfHere'
  <2>1. Here' = Here /\ (Dispatches => Dispatches')
    BY <1>5 DEF Here, Dispatches
  <2>2. \A r \in Handles : task'[r] = IF r = p THEN where ELSE task[r]
    BY <1>5 DEF BackTypeOK
  <2>3. Started
    BY <1>5 DEF Started
  <2>4. stage = "pass2"
    <3>1. stage # "pass2" => task[p] = "none"
      BY DEF NoTask
    <3> QED BY <1>5, <3>1
  <2>5. stage' = "pass2" /\ Here' = Here
    BY <1>5, <2>1, <2>4
  <2>6. \A r \in Handles : task'[r] # "none" => Dispatches' /\ r \in Trained[Here']
    BY <2>1, <2>2, <1>5
  <2>7. \A r \in Trained[Here'] : task'[r] # "none"
    <3>1. \A r \in Trained[Here] : task[r] # "none"
      BY <2>3
    <3>2. Trained[Here] \subseteq Handles
      <4>1. Here \in DOMAIN Up /\ Dispatches
        BY <2>4, <1>5, TapeFacts DEF OnTheTape, Here
      <4>2. Here \in DOMAIN Trained
        BY <4>1, BackpropAssumption DEF Dispatches
      <4> QED BY <4>2 DEF Handles
    <3> QED BY <3>1, <3>2, <2>1, <2>2
  <2>8. \A r \in Handles : task'[r] = "done" => trace'[r] # NoTrace
    BY <2>2, <1>5
  <2> QED BY <2>5, <2>6, <2>7, <2>8
<1>6. ASSUME NEW p \in Handles, AskGrad(p) PROVE TasksOfHere'
  BY <1>5, <1>6 DEF AskGrad
<1>7. ASSUME NEW p \in Handles, WriteGrad(p) PROVE TasksOfHere'
  <2>1. Made # NoTrace
    BY <1>7, MadeIs, NotATrace DEF WriteGrad
  <2>2. \A r \in Handles : trace'[r] = IF r = p THEN Made ELSE trace[r]
    BY <1>7 DEF WriteGrad, BackTypeOK
  <2> QED BY <1>5, <1>7, <2>1, <2>2 DEF WriteGrad
<1>8. ASSUME NEW p \in Handles, GradRaises(p) PROVE TasksOfHere'
  BY <1>8, NoTaskOfAny DEF GradRaises
<1>9. CASE /\ UNCHANGED <<stage, tapePaths, entry, critique, task>>
           /\ \A r \in Handles : trace[r] # NoTrace => trace'[r] # NoTrace
  <2>1. Here' = Here /\ (Dispatches <=> Dispatches') /\ (Started <=> Started')
    BY <1>9 DEF Here, Dispatches, Started
  <2> QED BY <2>1, <1>9
<1>10. ASSUME NEW s \in strays, StrayEnds(s) PROVE TasksOfHere'
  <2>1. s.of \in Handles /\ s.made # NoTrace
    BY NotATrace DEF BackTypeOK
  <2>2. \A r \in Handles : trace'[r] = trace[r] \/ trace'[r] = s.made
    BY <1>10, <2>1 DEF StrayEnds, BackTypeOK
  <2> QED BY <1>9, <1>10, <2>1, <2>2 DEF StrayEnds
<1>11. CASE UNCHANGED backvars
  BY <1>9, <1>11 DEF backvars
<1> QED BY <1>1, <1>2, <1>3, <1>4, <1>6, <1>7, <1>8, <1>10, <1>11 DEF BackNext

-----------------------------------------------------------------------------
(* Gradients are of their leaf and their sample *)

LEMMA MadeOfItsLeaf ==
  ASSUME BackTypeOK, OnTheTape, ChainsDown, TasksOfHere, stage = "pass2", NEW p \in Handles, task[p] # "none"
  PROVE  OfItsLeaf(p, Made)
<1>1. Dispatches /\ p \in Trained[Here]
  BY DEF TasksOfHere
<1>2. Made.sample = sample /\ Made.entry = entry /\ Made.critique = critique[Here] /\ Here \in DOMAIN Up
  BY MadeIs
<1>3. LeadsTo(tapePaths, critique[Here], Here)
  BY <1>1, <1>2 DEF OnTheTape, ChainsDown, Dispatches
<1>4. entry \in DOMAIN tapePaths /\ sample \in Nat
  BY TapeFacts DEF OnTheTape, BackTypeOK
<1> QED BY <1>1, <1>2, <1>3, <1>4 DEF OfItsLeaf, Here

LEMMA BackGrads ==
  ASSUME BackTypeOK, OnTheTape, ChainsDown, TasksOfHere, GradsOfTheirLeaf, [BackNext]_backvars
  PROVE  GradsOfTheirLeaf'
<1> USE DEF GradsOfTheirLeaf
<1>1. ASSUME NEW paths \in TapePaths, BeginSample(paths) PROVE GradsOfTheirLeaf'
  <2>1. sample \in Nat /\ sample' = sample + 1 /\ strays' = strays /\ \A p \in Handles : trace'[p] = NoTrace
    BY <1>1 DEF BeginSample, NoGradient, BackTypeOK
  <2>2. ASSUME NEW s \in strays PROVE s.made.sample <= sample /\ s.made.sample \in Nat
    BY <2>2 DEF OfItsLeaf, BackTypeOK, Gradient
  <2>3. ASSUME NEW s \in strays PROVE s.made.sample <= sample' /\ s.made.sample # sample'
    BY <2>1, <2>2
  <2> QED BY <2>1, <2>3 DEF OfItsLeaf
<1>2. ASSUME UNCHANGED <<sample, tapePaths>>, NEW p, NEW g, OfItsLeaf(p, g)
      PROVE  OfItsLeaf(p, g)'
  BY <1>2 DEF OfItsLeaf
<1>3. CASE UNCHANGED <<sample, tapePaths, strays, trace>>
  BY <1>3 DEF OfItsLeaf
<1>4. CASE Pass \/ PropagateAny \/ SkipEntry \/ Dispatch \/ Raises \/ UNCHANGED backvars
  BY <1>3, <1>4 DEF Pass, PropagateAny, Propagate, SkipEntry, Dispatch, Raises, backvars
<1>5. ASSUME NEW P, P \subseteq Unfinished, stage = "pass2",
             strays' = strays \cup {[of |-> q, made |-> Made] : q \in P}, UNCHANGED <<sample, tapePaths, trace>>
      PROVE  GradsOfTheirLeaf'
  <2>1. ASSUME NEW s \in strays' PROVE OfItsLeaf(s.of, s.made)'
    <3>1. CASE s \in strays
      BY <3>1, <1>2, <1>5
    <3>2. CASE s \notin strays
      <4>1. PICK q \in P : s = [of |-> q, made |-> Made]
        BY <2>1, <3>2, <1>5
      <4>2. q \in Handles /\ task[q] # "none" /\ s.of = q /\ s.made = Made
        BY <4>1, <1>5 DEF Unfinished
      <4>3. OfItsLeaf(s.of, s.made)
        BY <4>2, <1>5, MadeOfItsLeaf
      <4> QED BY <4>3, <1>2, <1>5
    <3> QED BY <3>1, <3>2
  <2>2. \A p \in Handles : trace'[p] # NoTrace => OfItsLeaf(p, trace[p])'
    BY <1>5 DEF OfItsLeaf
  <2> QED BY <2>1, <2>2 DEF OfItsLeaf
<1>6. CASE Gather
  BY <1>5, <1>6 DEF Gather
<1>7. ASSUME NEW p \in Handles, AskGrad(p) PROVE GradsOfTheirLeaf'
  BY <1>3, <1>7 DEF AskGrad
<1>8. ASSUME NEW p \in Handles, GradRaises(p) PROVE GradsOfTheirLeaf'
  <2>1. Unfinished \ {p} \subseteq Unfinished
    OBVIOUS
  <2> QED BY <1>5, <1>8, <2>1 DEF GradRaises
<1>9. ASSUME NEW p \in Handles, NEW g, OfItsLeaf(p, g), trace' = [trace EXCEPT ![p] = g],
             strays' \subseteq strays, UNCHANGED <<sample, tapePaths>>
      PROVE  GradsOfTheirLeaf'
  <2>1. \A r \in Handles : trace'[r] = IF r = p THEN g ELSE trace[r]
    BY <1>9 DEF BackTypeOK
  <2> QED BY <2>1, <1>9 DEF OfItsLeaf
<1>10. ASSUME NEW p \in Handles, WriteGrad(p) PROVE GradsOfTheirLeaf'
  <2>1. OfItsLeaf(p, Made)
    BY <1>10, MadeOfItsLeaf DEF WriteGrad
  <2> QED BY <2>1, <1>9, <1>10 DEF WriteGrad
<1>11. ASSUME NEW s \in strays, StrayEnds(s) PROVE GradsOfTheirLeaf'
  <2>1. s.of \in Handles /\ OfItsLeaf(s.of, s.made)
    BY DEF BackTypeOK
  <2>2. CASE trace' = [trace EXCEPT ![s.of] = s.made]
    BY <2>1, <2>2, <1>9, <1>11 DEF StrayEnds
  <2>3. CASE trace' = trace
    BY <2>3, <1>11 DEF StrayEnds, OfItsLeaf
  <2> QED BY <2>2, <2>3, <1>11 DEF StrayEnds
<1> QED BY <1>1, <1>4, <1>6, <1>7, <1>8, <1>10, <1>11 DEF BackNext

LEMMA BackSamples ==
  ASSUME BackTypeOK, OnTheTape, GradOfItsSample, [BackNext]_backvars
  PROVE  GradOfItsSample'
<1> USE DEF GradOfItsSample
<1>1. ASSUME NEW paths \in TapePaths, BeginSample(paths) PROVE GradOfItsSample'
  BY <1>1 DEF BeginSample, NoGradient
<1>2. CASE UNCHANGED <<sample, strays, trace, troubled>>
  BY <1>2
<1>3. CASE Pass \/ PropagateAny \/ SkipEntry \/ Dispatch \/ UNCHANGED backvars
  BY <1>2, <1>3 DEF Pass, PropagateAny, Propagate, SkipEntry, Dispatch, backvars
<1>4. CASE Gather
  <2>1. Unfinished = {} /\ strays' = strays
    BY <1>4 DEF Gather, LeafDone
  <2> QED BY <2>1, <1>2, <1>4 DEF Gather
<1>5. CASE Raises
  BY <1>5 DEF Raises
<1>6. ASSUME NEW p \in Handles, AskGrad(p) \/ GradRaises(p) PROVE GradOfItsSample'
  BY <1>2, <1>6 DEF AskGrad, GradRaises
<1>7. ASSUME NEW p \in Handles, WriteGrad(p) PROVE GradOfItsSample'
  <2>1. Made.sample = sample
    BY <1>7, MadeIs DEF WriteGrad
  <2>2. \A r \in Handles : trace'[r] = IF r = p THEN Made ELSE trace[r]
    BY <1>7 DEF WriteGrad, BackTypeOK
  <2> QED BY <2>1, <2>2, <1>7 DEF WriteGrad
<1>8. ASSUME NEW s \in strays, StrayEnds(s) PROVE GradOfItsSample'
  <2>1. troubled /\ troubled' = troubled
    BY <1>8 DEF StrayEnds
  <2> QED BY <2>1
<1> QED BY <1>1, <1>3, <1>4, <1>5, <1>6, <1>7, <1>8 DEF BackNext

-----------------------------------------------------------------------------
(* Critiques reach every leaf *)

\* A path of the tape that is not its root is called by one that was walked before.
LEMMA CalledEarlier ==
  ASSUME OnTheTape, stage = "pass1", Here \in Reached
  PROVE  \/ entry = 1
         \/ \E j \in 1 .. entry - 1 : tapePaths[j] \in Reached /\ Here \in ChildPaths(tapePaths[j])
<1>1. tapePaths \in TapePaths /\ entry \in 1 .. Len(tapePaths)
  BY DEF OnTheTape
<1>2. /\ Len(tapePaths) \in Nat \ {0} /\ DOMAIN tapePaths = 1 .. Len(tapePaths)
      /\ \A k \in 2 .. Len(tapePaths) : /\ Up[tapePaths[k]] # tapePaths[k]
                                        /\ \E j \in 1 .. k - 1 : tapePaths[j] = Up[tapePaths[k]]
  BY <1>1, TapeFacts
<1>3. CASE entry # 1
  <2>1. entry \in 2 .. Len(tapePaths)
    BY <1>1, <1>2, <1>3
  <2>2. PICK j \in 1 .. entry - 1 : tapePaths[j] = Up[Here]
    BY <2>1, <1>2 DEF Here
  <2>3. j \in DOMAIN tapePaths /\ entry \in DOMAIN tapePaths
    BY <1>1, <1>2, <2>2
  <2>4. Up[Here] \in ToSet(tapePaths)
    BY <2>2, <2>3 DEF ToSet
  <2>5. Up[Here] \in Reached
    BY <2>4, <1>1, ReachedUp
  <2>6. Here \in ChildPaths(tapePaths[j])
    BY <2>1, <2>2, <2>3, <1>2 DEF ChildPaths, Here
  <2> QED BY <2>2, <2>5, <2>6
<1> QED BY <1>3

\* Unless a critique came out null, one has come down to each such path.
LEMMA SomethingCameDown ==
  ASSUME OnTheTape, CritiquesReach, stage = "pass1", ~muted, Here \in Reached
  PROVE  down[Here] # <<>>
<1>1. /\ down[tapePaths[1]] # <<>>
      /\ \A k \in 1 .. entry - 1 : tapePaths[k] \in Reached =>
           \A q \in ChildPaths(tapePaths[k]) : q \in Reached => down[q] # <<>>
  BY DEF CritiquesReach, Walked
<1> QED BY <1>1, CalledEarlier DEF Here

LEMMA NextWalked ==
  ASSUME OnTheTape, stage = "pass1", WalkOn, tapePaths' = tapePaths
  PROVE  Walked' = entry /\ Walked = entry - 1 /\ entry \in 1 .. Len(tapePaths)
<1>1. Len(tapePaths) \in Nat \ {0} /\ entry \in 1 .. Len(tapePaths)
  BY TapeFacts DEF OnTheTape
<1> QED BY <1>1 DEF WalkOn, NextEntry, Walked

LEMMA PropagateReaches ==
  ASSUME BackTypeOK, OnTheTape, CritiquesReach, stage = "pass1", NEW taken,
         NEW out \in {<<>>, Append(down[Here], entry)}, Propagate(out, taken), ~muted'
  PROVE  CritiquesReach'
<1>1. /\ tapePaths' = tapePaths /\ tapePaths \in TapePaths /\ entry \in 1 .. Len(tapePaths) /\ Walked' = entry /\ Walked = entry - 1
  <2>1. tapePaths' = tapePaths /\ WalkOn
    BY DEF Propagate
  <2> QED BY <2>1, NextWalked DEF OnTheTape
<1>2. ~muted /\ out # <<>> /\ taken = Branches
  BY DEF Propagate
<1>3. /\ Len(tapePaths) \in Nat \ {0} /\ DOMAIN tapePaths = 1 .. Len(tapePaths) /\ Here \in DOMAIN Up
      /\ \A k \in 1 .. Len(tapePaths) : tapePaths[k] \in DOMAIN Up
      /\ Up[tapePaths[1]] = tapePaths[1]
  BY <1>1, TapeFacts DEF Here
<1>4. \A q \in DOMAIN Up : /\ critique'[q] = IF q = Here THEN out ELSE critique[q]
                           /\ down'[q] = IF q \in ChildPaths(Here) THEN Contribution(out, taken, q) ELSE down[q]
  BY DEF Propagate, BackTypeOK
<1>5. Reached' = Reached /\ \A q : ChildPaths(q)' = ChildPaths(q)
  BY <1>1 DEF Reached, ChildPaths
<1>6. ASSUME NEW q \in ChildPaths(Here), q \in Reached PROVE Contribution(out, taken, q) # <<>>
  <2>1. Up[q] = Here /\ q # Here
    BY DEF ChildPaths
  <2>2. Here \in ToSet(tapePaths)
    BY <1>1, <1>3 DEF Here, ToSet
  <2>3. q \notin Selector
    BY <1>1, <1>6, <2>1, <2>2, ReachedUp
  <2>4. Split[Here] = "router" => q \in taken
    BY <1>2, <1>6, <2>3 DEF Branches
  <2> QED BY <1>2, <2>1, <2>3, <2>4 DEF Contribution
<1>7. /\ down[tapePaths[1]] # <<>>
      /\ \A k \in 1 .. entry - 1 : tapePaths[k] \in Reached =>
           /\ critique[tapePaths[k]] # <<>>
           /\ \A q \in ChildPaths(tapePaths[k]) : q \in Reached => down[q] # <<>>
  BY <1>1, <1>2 DEF CritiquesReach
<1>8. down'[tapePaths[1]] # <<>>
  <2>1. tapePaths[1] \in DOMAIN Up /\ tapePaths[1] \notin ChildPaths(Here)
    BY <1>3 DEF ChildPaths
  <2> QED BY <2>1, <1>4, <1>7
<1>9. ASSUME NEW k \in 1 .. entry, tapePaths[k] \in Reached
      PROVE  /\ critique'[tapePaths[k]] # <<>>
             /\ \A q \in ChildPaths(tapePaths[k]) : q \in Reached => down'[q] # <<>>
  <2>1. tapePaths[k] \in DOMAIN Up
    BY <1>1, <1>3
  <2>2. \A q \in Reached : q \in DOMAIN Up
    BY <1>3 DEF Reached
  <2>3. CASE k = entry
    <3>1. tapePaths[k] = Here
      BY <2>3 DEF Here
    <3> QED BY <3>1, <2>1, <2>2, <1>2, <1>4, <1>6
  <2>4. CASE k # entry
    <3>1. k \in 1 .. entry - 1
      BY <2>4, <1>1, <1>3
    <3>2. /\ critique[tapePaths[k]] # <<>>
          /\ \A q \in ChildPaths(tapePaths[k]) : q \in Reached => down[q] # <<>>
      BY <3>1, <1>7, <1>9
    <3> QED BY <3>2, <2>1, <2>2, <1>2, <1>4, <1>6
  <2> QED BY <2>3, <2>4
<1> QED BY <1>1, <1>5, <1>8, <1>9 DEF CritiquesReach

LEMMA BackReaches ==
  ASSUME BackTypeOK, OnTheTape, CritiquesReach, [BackNext]_backvars
  PROVE  CritiquesReach'
<1>1. ASSUME NEW paths \in TapePaths, BeginSample(paths) PROVE CritiquesReach'
  <2>1. /\ down' = [NoCritique EXCEPT ![paths[1]] = <<0>>] /\ tapePaths' = paths /\ stage' = "pass1" /\ entry' = 1
    BY <1>1 DEF BeginSample
  <2>2. paths[1] \in DOMAIN Up
    BY TapeFacts
  <2>3. down'[paths[1]] # <<>>
    BY <2>1, <2>2 DEF NoCritique
  <2>4. Walked' = 0
    BY <2>1 DEF Walked
  <2> QED BY <2>1, <2>3, <2>4 DEF CritiquesReach
<1>2. CASE Pass
  <2>1. /\ tapePaths' = tapePaths /\ down' = down /\ critique' = critique /\ muted' = muted /\ stage = "pass1"
        /\ Walked' = entry /\ Walked = entry - 1 /\ entry \in 1 .. Len(tapePaths)
    BY <1>2, NextWalked DEF Pass
  <2>2. ~muted => Here \notin Reached
    BY <1>2, SomethingCameDown DEF Pass
  <2>3. Reached' = Reached /\ \A q : ChildPaths(q)' = ChildPaths(q)
    BY <2>1 DEF Reached, ChildPaths
  <2>4. \A k \in 1 .. entry : k \in 1 .. entry - 1 \/ k = entry
    BY <2>1, TapeFacts DEF OnTheTape
  <2> QED BY <2>1, <2>2, <2>3, <2>4 DEF CritiquesReach, Here
<1>3. CASE PropagateAny
  <2>1. PICK taken \in {{}} \cup {{q} : q \in Branches}, out \in {<<>>, Append(down[Here], entry)} : stage = "pass1" /\ Propagate(out, taken)
    BY <1>3 DEF PropagateAny
  <2>2. CASE ~muted'
    BY <2>1, <2>2, PropagateReaches
  <2>3. CASE muted'
    BY <2>3 DEF CritiquesReach
  <2> QED BY <2>2, <2>3
<1>4. CASE UNCHANGED <<tapePaths, down, critique, muted>> /\ (stage' # "over" => stage' = stage) /\ (stage = "pass1" => entry' = entry)
  <2>1. stage' # "over" => Walked' = Walked
    BY <1>4 DEF Walked
  <2>2. Reached' = Reached /\ \A q : ChildPaths(q)' = ChildPaths(q)
    BY <1>4 DEF Reached, ChildPaths
  <2> QED BY <1>4, <2>1, <2>2 DEF CritiquesReach
<1>5. CASE SkipEntry \/ Dispatch \/ Gather \/ Raises \/ UNCHANGED backvars
  BY <1>4, <1>5 DEF SkipEntry, BackOff, Dispatch, Gather, Raises, backvars
<1>6. ASSUME NEW p \in Handles, AskGrad(p) \/ WriteGrad(p) \/ GradRaises(p) PROVE CritiquesReach'
  BY <1>4, <1>6 DEF AskGrad, WriteGrad, GradRaises
<1>7. ASSUME NEW s \in strays, StrayEnds(s) PROVE CritiquesReach'
  BY <1>4, <1>7 DEF StrayEnds
<1> QED BY <1>1, <1>2, <1>3, <1>5, <1>6, <1>7 DEF BackNext

-----------------------------------------------------------------------------
(* Every leaf is served *)

\* The walk of pass 2 goes on to the entry before, its leaf being served.
LEMMA ServedHere ==
  ASSUME BackTypeOK, OnTheTape, LeavesServed, stage = "pass2", BackOff,
         UNCHANGED <<sample, tapePaths, trace, muted, troubled>>,
         ~muted /\ Here \in Reached /\ Split[Here] = "leaf" => \A p \in Trained[Here] : trace[p] # NoTrace
  PROVE  LeavesServed'
<1>1. tapePaths \in TapePaths /\ entry \in 1 .. Len(tapePaths) /\ Len(tapePaths) \in Nat
  BY TapeFacts DEF OnTheTape
<1>2. Behind = entry /\ Behind' = entry - 1
  BY <1>1 DEF BackOff, Behind
<1>3. Reached' = Reached
  BY DEF Reached
<1>4. \A k \in entry .. Len(tapePaths) : k = entry \/ k \in entry + 1 .. Len(tapePaths)
  BY <1>1
<1>5. ASSUME sample > 0, ~muted, ~troubled, NEW k \in entry .. Len(tapePaths), tapePaths[k] \in Reached,
             Split[tapePaths[k]] = "leaf", NEW p \in Trained[tapePaths[k]]
      PROVE  trace[p] # NoTrace
  <2>1. CASE k = entry
    BY <1>5, <2>1 DEF Here
  <2>2. CASE k # entry
    <3>1. k \in Behind + 1 .. Len(tapePaths)
      BY <2>2, <1>2, <1>4
    <3> QED BY <1>5, <3>1 DEF LeavesServed
  <2> QED BY <2>1, <2>2
<1>6. entry - 1 + 1 = entry
  BY <1>1
<1> QED BY <1>2, <1>3, <1>5, <1>6 DEF LeavesServed

LEMMA BackServes ==
  ASSUME BackTypeOK, OnTheTape, TasksOfHere, CritiquesReach, LeavesServed, [BackNext]_backvars
  PROVE  LeavesServed'
<1>1. ASSUME NEW paths \in TapePaths, BeginSample(paths) PROVE LeavesServed'
  <2>1. Behind' = Len(tapePaths') /\ Len(tapePaths') \in Nat
    BY <1>1, TapeFacts DEF BeginSample, Behind
  <2> QED BY <2>1 DEF LeavesServed
<1>2. CASE Pass \/ PropagateAny
  <2>1. tapePaths' = tapePaths /\ stage = "pass1" /\ WalkOn
    BY <1>2 DEF Pass, PropagateAny, Propagate
  <2>2. Len(tapePaths) \in Nat \ {0} /\ entry \in 1 .. Len(tapePaths)
    BY <2>1, TapeFacts DEF OnTheTape
  <2>3. Behind' = Len(tapePaths')
    BY <2>1, <2>2 DEF WalkOn, NextEntry, Behind
  <2> QED BY <2>1, <2>2, <2>3 DEF LeavesServed
<1>3. stage = "pass2" /\ ~muted /\ Here \in Reached => critique[Here] # <<>>
  <2>1. stage = "pass2" => Walked = Len(tapePaths) /\ entry \in 1 .. Len(tapePaths)
    BY DEF Walked, OnTheTape
  <2> QED BY <2>1 DEF CritiquesReach, Here
<1>4. CASE SkipEntry
  BY <1>3, <1>4, ServedHere DEF SkipEntry, Dispatches
<1>5. CASE Gather
  <2>1. Started /\ Unfinished = {} /\ stage = "pass2"
    BY <1>5 DEF Gather, LeafDone
  <2>2. ASSUME NEW p \in Trained[Here], Split[Here] = "leaf" PROVE trace[p] # NoTrace
    <3>1. p \in Handles
      <4>1. Here \in DOMAIN Trained
        BY <2>1, <2>2, TapeFacts, BackpropAssumption DEF OnTheTape, Here
      <4> QED BY <4>1 DEF Handles
    <3>2. task[p] # "none"
      BY <2>1 DEF TasksOfHere
    <3>3. task[p] = "done"
      BY <2>1, <3>1, <3>2 DEF Unfinished, BackTypeOK
    <3> QED BY <3>1, <3>3 DEF TasksOfHere
  <2> QED BY <1>5, <2>1, <2>2, ServedHere DEF Gather
<1>6. CASE /\ UNCHANGED <<sample, tapePaths, stage, entry, muted, troubled>>
           /\ \A r \in Handles : trace[r] # NoTrace => trace'[r] # NoTrace
  <2>1. Reached' = Reached /\ Behind' = Behind
    BY <1>6 DEF Reached, Behind
  <2>2. ASSUME NEW k \in DOMAIN tapePaths, sample > 0, Split[tapePaths[k]] = "leaf" PROVE Trained[tapePaths[k]] \subseteq Handles
    <3>1. tapePaths[k] \in DOMAIN Trained
      BY <2>2, TapeFacts, BackpropAssumption DEF OnTheTape
    <3> QED BY <3>1 DEF Handles
  <2>3. sample > 0 => \A k \in Behind + 1 .. Len(tapePaths) : k \in DOMAIN tapePaths
    <3>1. sample > 0 => Len(tapePaths) \in Nat /\ DOMAIN tapePaths = 1 .. Len(tapePaths)
      BY TapeFacts DEF OnTheTape
    <3>2. sample > 0 => Behind \in Nat
      BY <3>1 DEF Behind, BackTypeOK
    <3> QED BY <3>1, <3>2
  <2> QED BY <2>1, <2>2, <2>3, <1>6 DEF LeavesServed
<1>7. CASE Raises
  BY <1>7 DEF Raises, LeavesServed
<1>8. CASE Dispatch \/ UNCHANGED backvars
  BY <1>6, <1>8 DEF Dispatch, backvars
<1>9. ASSUME NEW p \in Handles, AskGrad(p) \/ GradRaises(p) PROVE LeavesServed'
  BY <1>6, <1>9 DEF AskGrad, GradRaises, LeavesServed
<1>10. ASSUME NEW p \in Handles, WriteGrad(p) PROVE LeavesServed'
  <2>1. Made # NoTrace
    BY <1>10, MadeIs, NotATrace DEF WriteGrad
  <2>2. \A r \in Handles : trace'[r] = IF r = p THEN Made ELSE trace[r]
    BY <1>10 DEF WriteGrad, BackTypeOK
  <2> QED BY <1>6, <1>10, <2>1, <2>2 DEF WriteGrad
<1>11. ASSUME NEW s \in strays, StrayEnds(s) PROVE LeavesServed'
  <2>1. s.of \in Handles /\ s.made # NoTrace
    BY NotATrace DEF BackTypeOK
  <2>2. \A r \in Handles : trace'[r] = trace[r] \/ trace'[r] = s.made
    BY <1>11, <2>1 DEF StrayEnds, BackTypeOK
  <2> QED BY <1>6, <1>11, <2>1, <2>2 DEF StrayEnds
<1> QED BY <1>1, <1>2, <1>4, <1>5, <1>7, <1>8, <1>9, <1>10, <1>11 DEF BackNext

-----------------------------------------------------------------------------

LEMMA BackInductive == BackInv /\ [BackNext]_backvars => BackInv'
  BY BackTypes, BackTape, BackChains, BackTasks, BackGrads, BackReaches, BackServes, BackSamples DEF BackInv

\* The invariant says what was promised.
LEMMA BackInvSound == BackInv => GradientsSound
<1> SUFFICES ASSUME BackInv PROVE GradientsSound
  OBVIOUS
<1> USE DEF BackInv
<1>1. ChainUnbroken
  BY DEF ChainUnbroken, GradsOfTheirLeaf, OfItsLeaf
<1>2. ReachesEveryLeaf
  <2>1. ASSUME stage = "over", ~muted, ~troubled, sample > 0, NEW q \in Reached, Split[q] = "leaf", NEW p \in Trained[q]
        PROVE  trace[p] # NoTrace
    <3>1. PICK k \in DOMAIN tapePaths : tapePaths[k] = q
      BY <2>1 DEF Reached
    <3>2. k \in 0 + 1 .. Len(tapePaths)
      BY <2>1, <3>1, TapeFacts DEF OnTheTape
    <3>3. Behind = 0
      BY <2>1 DEF Behind
    <3> QED BY <2>1, <3>1, <3>2, <3>3 DEF LeavesServed
  <2> QED BY <2>1 DEF ReachesEveryLeaf
<1> QED BY <1>1, <1>2 DEF GradientsSound

\* For any tapes and composites, whatever raises and however the tasks of a leaf
\* interleave: the gradient of a parameter is made from a critique that was refined
\* at each composite from the root to its leaf, every leaf that no selector calls is
\* given one, and none is of another sample unless a backward has raised.
THEOREM BackwardAlwaysSound == BackSpec => []GradientsSound
<1>1. BackInit => BackInv
  BY BackStart
<1>2. BackInv /\ [BackNext]_backvars => BackInv'
  BY BackInductive
<1>3. BackInv => GradientsSound
  BY BackInvSound
<1> QED BY <1>1, <1>2, <1>3, PTL DEF BackSpec

-----------------------------------------------------------------------------
(* Fits: the least of the scores *)

\* A finite set of numbers that is not empty has a greatest.
LEMMA FiniteMax ==
  ASSUME NEW S, S \subseteq Nat, IsFiniteSet(S), S # {}
  PROVE  Max(S) \in S /\ \A s \in S : s <= Max(S)
<1>1. PICK n \in Nat : \E f \in [1 .. n -> S] : \A s \in S : \E i \in 1 .. n : f[i] = s
  <2>1. PICK n \in Nat : ExistsSurjection(1 .. n, S)
    BY FS_NatSurjection
  <2>2. PICK f \in Surjection(1 .. n, S) : TRUE
    BY <2>1 DEF ExistsSurjection
  <2>3. f \in [1 .. n -> S] /\ \A s \in S : \E i \in 1 .. n : f[i] = s
    BY <2>2 DEF Surjection
  <2>4. QED
    BY <2>3
<1> PICK f \in [1 .. n -> S] : \A s \in S : \E i \in 1 .. n : f[i] = s
  BY <1>1
<1>2. n # 0 /\ \A s \in S : \E i \in 1 .. n : f[i] = s
  <2>1. PICK s \in S : TRUE
    OBVIOUS
  <2>2. PICK i \in 1 .. n : f[i] = s
    OBVIOUS
  <2>3. QED
    BY <2>2
<1>3. \A i \in 1 .. n : f[i] \in Nat
  OBVIOUS
<1> DEFINE P == {m \in 0 .. n : m = 0 \/ \E j \in 1 .. m : \A i \in 1 .. m : f[i] <= f[j]}
<1>4. 0 \in P
  OBVIOUS
<1>5. ASSUME NEW m \in 1 .. n, m - 1 \in P PROVE m \in P
  <2>1. CASE m = 1
    <3>1. \A i \in 1 .. m : f[i] <= f[1]
      BY <1>3, <2>1
    <3>2. QED
      BY <2>1, <3>1
  <2>2. CASE m # 1
    <3>1. PICK j \in 1 .. m - 1 : \A i \in 1 .. m - 1 : f[i] <= f[j]
      BY <1>5, <2>2
    <3>2. f[j] \in Nat /\ f[m] \in Nat /\ j \in 1 .. m /\ m \in 1 .. m
      BY <1>3
    <3>3. \A i \in 1 .. m : i \in 1 .. m - 1 \/ i = m
      OBVIOUS
    <3>4. CASE f[m] <= f[j]
      <4>1. \A i \in 1 .. m : f[i] <= f[j]
        BY <3>1, <3>3, <3>4
      <4>2. QED
        BY <3>2, <4>1
    <3>5. CASE f[j] < f[m]
      <4>1. \A i \in 1 .. m - 1 : f[i] \in Nat
        BY <1>3
      <4>2. \A i \in 1 .. m : f[i] <= f[m]
        BY <3>1, <3>2, <3>3, <3>5, <4>1
      <4>3. QED
        BY <3>2, <4>2
    <3>6. QED
      BY <3>2, <3>4, <3>5
  <2>3. QED
    BY <2>1, <2>2
<1>6. \A m \in 0 .. n : m \in P
  <2> HIDE DEF P
  <2> QED  BY <1>4, <1>5, Climb
<1>7. PICK j \in 1 .. n : \A i \in 1 .. n : f[i] <= f[j]
  <2>1. n \in P
    <3>1. n \in 0 .. n
      OBVIOUS
    <3> HIDE DEF P
    <3>2. QED
      BY <1>6, <3>1
  <2>2. QED
    BY <1>2, <2>1
<1>8. f[j] \in S /\ \A s \in S : f[j] >= s
  <2>1. f[j] \in Nat
    BY <1>3
  <2>2. ASSUME NEW s \in S PROVE f[j] >= s
    <3>1. PICK i \in 1 .. n : f[i] = s
      BY <1>2
    <3>2. QED
      BY <1>3, <1>7, <2>1, <3>1
  <2>3. QED
    BY <2>2
<1>9. \E x \in S : \A y \in S : x >= y
  BY <1>8
<1>10. Max(S) \in S /\ \A y \in S : Max(S) >= y
  BY <1>9 DEF Max
<1>11. QED
  BY <1>10

LEMMA ScoreRange ==
  /\ Infinite \in Nat /\ Scores \subseteq Nat
  /\ \A s \in Scores : s < Infinite
<1>1. Scores \subseteq Nat /\ IsFiniteSet(Scores) /\ Scores # {}
  BY FitsAssumption
<1>2. Max(Scores) \in Scores /\ \A s \in Scores : s <= Max(Scores)
  BY <1>1, FiniteMax
<1>3. Infinite = Max(Scores) + 1
  BY DEF Infinite
<1>4. Max(Scores) \in Nat
  BY <1>1, <1>2
<1>5. \A s \in Scores : s \in Nat /\ s <= Max(Scores)
  BY <1>1, <1>2
<1> HIDE DEF Infinite
<1>6. Infinite \in Nat /\ \A s \in Scores : s < Infinite
  BY <1>3, <1>4, <1>5
<1>7. QED
  BY <1>1, <1>6

\* The scores that are numbers.
Proper == Scores \ {NaN}

LEMMA MinOfIs ==
  ASSUME NEW seq \in Seq(Proper)
  PROVE  /\ MinOf(seq) \in Nat /\ MinOf(seq) <= Infinite
         /\ \A i \in 1 .. Len(seq) : MinOf(seq) <= seq[i]
         /\ seq # <<>> => MinOf(seq) < Infinite /\ \E i \in 1 .. Len(seq) : MinOf(seq) = seq[i]
         /\ seq = <<>> => MinOf(seq) = Infinite
<1>1. Infinite \in Nat /\ Scores \subseteq Nat /\ \A s \in Scores : s < Infinite
  BY ScoreRange
<1>2. Len(seq) \in Nat /\ \A i \in 1 .. Len(seq) : seq[i] \in Scores
  BY DEF Proper
<1>3. CASE seq = <<>>
  BY <1>1, <1>3 DEF MinOf
<1>4. CASE seq # <<>>
  <2>1. ToSet(seq) = {seq[i] : i \in 1 .. Len(seq)}
    BY DEF ToSet
  <2>2. 1 \in 1 .. Len(seq)
    BY <1>4
  <2>3. ToSet(seq) \subseteq Nat /\ ToSet(seq) # {}
    BY <1>1, <1>2, <2>1, <2>2
  <2>4. Min(ToSet(seq)) \in ToSet(seq) /\ \A y \in ToSet(seq) : Min(ToSet(seq)) <= y
    BY <2>3, NatMin
  <2>5. MinOf(seq) = Min(ToSet(seq))
    BY <1>4 DEF MinOf
  <2>6. PICK i \in 1 .. Len(seq) : MinOf(seq) = seq[i]
    BY <2>1, <2>4, <2>5
  <2>7. MinOf(seq) \in Nat /\ MinOf(seq) < Infinite
    BY <1>1, <1>2, <2>6
  <2>8. \A j \in 1 .. Len(seq) : MinOf(seq) <= seq[j]
    BY <2>1, <2>4, <2>5
  <2>9. QED
    BY <1>1, <1>4, <2>6, <2>7, <2>8
<1>5. QED
  BY <1>3, <1>4

LEMMA MinOfAppend ==
  ASSUME NEW seq \in Seq(Proper), NEW x \in Proper
  PROVE  /\ MinOf(Append(seq, x)) = IF x < MinOf(seq) THEN x ELSE MinOf(seq)
         /\ Improves(Append(seq, x), Len(seq) + 1) <=> x < MinOf(seq)
         /\ \A n \in 1 .. Len(seq) : Improves(Append(seq, x), n) <=> Improves(seq, n)
<1> DEFINE new == Append(seq, x)
           N == Len(seq)
<1>1. new \in Seq(Proper) /\ Len(new) = N + 1 /\ N \in Nat /\ new[N + 1] = x /\ \A i \in 1 .. N : new[i] = seq[i]
  OBVIOUS
<1>2. x \in Nat /\ x < Infinite /\ Infinite \in Nat
  BY ScoreRange DEF Proper
<1>3. SubSeq(new, 1, N) = seq
  OBVIOUS
<1>4. ASSUME NEW n \in 1 .. N PROVE SubSeq(new, 1, n - 1) = SubSeq(seq, 1, n - 1)
  <2>1. n - 1 \in Nat /\ n - 1 <= N /\ n - 1 <= N + 1
    BY <1>1
  <2>2. /\ SubSeq(new, 1, n - 1) = [i \in 1 .. n - 1 |-> new[i]]
        /\ SubSeq(seq, 1, n - 1) = [i \in 1 .. n - 1 |-> seq[i]]
    BY <2>1, SMTT(30)
  <2>3. \A i \in 1 .. n - 1 : new[i] = seq[i]
    BY <1>1
  <2>4. QED
    BY <2>2, <2>3
<1> HIDE DEF new
<1>5. /\ MinOf(seq) \in Nat /\ MinOf(seq) <= Infinite
      /\ \A i \in 1 .. N : MinOf(seq) <= seq[i]
      /\ seq # <<>> => \E i \in 1 .. N : MinOf(seq) = seq[i]
      /\ seq = <<>> => MinOf(seq) = Infinite
  BY MinOfIs
<1>6. /\ MinOf(new) \in Nat
      /\ \A i \in 1 .. N + 1 : MinOf(new) <= new[i]
      /\ \E i \in 1 .. N + 1 : MinOf(new) = new[i]
  BY <1>1, MinOfIs
<1>7. MinOf(new) <= x /\ \A i \in 1 .. N : MinOf(new) <= seq[i]
  BY <1>1, <1>6
<1>8. MinOf(new) = x \/ \E i \in 1 .. N : MinOf(new) = seq[i]
  BY <1>1, <1>6
<1>9. \A i \in 1 .. N : seq[i] \in Nat
  <2>1. Proper \subseteq Nat
    BY ScoreRange DEF Proper
  <2>2. \A i \in 1 .. N : seq[i] \in Proper
    OBVIOUS
  <2>3. QED
    BY <2>1, <2>2
<1>10. MinOf(new) = IF x < MinOf(seq) THEN x ELSE MinOf(seq)
  <2>1. CASE seq = <<>>
    BY <1>2, <1>5, <1>8, <2>1
  <2>2. CASE seq # <<>>
    <3>1. PICK j \in 1 .. N : MinOf(seq) = seq[j]
      BY <1>5, <2>2
    <3>2. MinOf(new) <= MinOf(seq)
      BY <1>7, <3>1
    <3>3. MinOf(new) = x \/ MinOf(seq) <= MinOf(new)
      BY <1>5, <1>8
    <3>4. QED
      BY <1>2, <1>5, <1>6, <1>7, <3>2, <3>3
  <2>3. QED
    BY <2>1, <2>2
<1>11. Improves(new, N + 1) <=> x < MinOf(seq)
  <2>1. (N + 1) - 1 = N
    BY <1>1
  <2>2. QED
    BY <1>1, <1>3, <2>1 DEF Improves
<1>12. \A n \in 1 .. N : Improves(new, n) <=> Improves(seq, n)
  BY <1>1, <1>4 DEF Improves
<1>13. QED
  BY <1>10, <1>11, <1>12 DEF new

-----------------------------------------------------------------------------
(* What an EarlyStopping knows *)

Stopper == [best : Nat, stale : Nat, told : Seq(Scores)]

\* Its best is the least it was told, its count that of the scores since then.
Counts(e) ==
  LET heard == Numbers(e.told)
  IN /\ Monitored => /\ e.best = MinOf(heard)
                     /\ e.stale <= Len(heard)
                     /\ heard # <<>> => e.stale < Len(heard) /\ Improves(heard, Len(heard) - e.stale)
                     /\ \A n \in Len(heard) - e.stale + 1 .. Len(heard) : ~Improves(heard, n)
     /\ ~Monitored => e.stale = 0

LEMMA NumbersAre ==
  ASSUME NEW seq \in Seq(Scores)
  PROVE  /\ Numbers(seq) \in Seq(Proper)
         /\ \A x \in Scores : Numbers(Append(seq, x)) = IF x = NaN THEN Numbers(seq) ELSE Append(Numbers(seq), x)
<1>1. Among(seq, Proper) \in Seq(Scores) /\ ToSet(Among(seq, Proper)) = ToSet(seq) \cap Proper
  BY AmongSound
<1>2. Among(seq, Proper) \in Seq(Proper)
  <2>1. ToSet(Among(seq, Proper)) \subseteq Proper
    BY <1>1
  <2>2. \A i \in 1 .. Len(Among(seq, Proper)) : Among(seq, Proper)[i] \in Proper
    BY <1>1, <2>1 DEF ToSet
  <2>3. QED
    BY <1>1, <2>2
<1>3. \A x \in Scores : Among(Append(seq, x), Proper) =
                          IF x \in Proper THEN Append(Among(seq, Proper), x) ELSE Among(seq, Proper)
  BY AmongAppend
<1>4. \A x \in Scores : x \in Proper <=> x # NaN
  BY DEF Proper
<1>5. \A s : Numbers(s) = Among(s, Proper)
  BY DEF Numbers, Proper
<1>6. QED
  BY <1>2, <1>3, <1>4, <1>5

\* A new one has heard nothing.
LEMMA NewCounts == NewStopper \in Stopper /\ Counts(NewStopper)
<1>1. Numbers(<<>>) = <<>>
  BY AmongEmpty DEF Numbers
<1>2. MinOf(<<>>) = Infinite /\ Infinite \in Nat
  BY ScoreRange DEF MinOf
<1>3. NewStopper = [best |-> Infinite, stale |-> 0, told |-> <<>>]
  BY DEF NewStopper
<1>4. NewStopper \in Stopper
  BY <1>2, <1>3 DEF Stopper
<1>5. NewStopper.best = Infinite /\ NewStopper.stale = 0 /\ NewStopper.told = <<>>
  BY <1>3
<1>6. QED
  BY <1>1, <1>2, <1>4, <1>5 DEF Counts

\* What one more score does to one.
LEMMA HeardIs ==
  ASSUME NEW e \in Stopper, NEW score \in Scores
  PROVE  /\ Heard(e, score) \in Stopper
         /\ Heard(e, score).told = Append(e.told, score)
         /\ Seen(score) = NaN => Heard(e, score).best = e.best /\ Heard(e, score).stale = e.stale
         /\ Seen(score) # NaN /\ score < e.best => Heard(e, score).best = score /\ Heard(e, score).stale = 0
         /\ Seen(score) # NaN /\ ~(score < e.best) =>
              Heard(e, score).best = e.best /\ Heard(e, score).stale = e.stale + 1
<1>1. e.best \in Nat /\ e.stale \in Nat /\ e.told \in Seq(Scores) /\ score \in Nat
  BY ScoreRange DEF Stopper
<1>2. Heard(e, score) =
        [best  |-> IF Beyond(e, score) THEN score ELSE e.best,
         stale |-> IF Seen(score) = NaN THEN e.stale ELSE IF Beyond(e, score) THEN 0 ELSE e.stale + 1,
         told  |-> Append(e.told, score)]
  <2> DEFINE b == IF Beyond(e, score) THEN score ELSE e.best
             n == IF Seen(score) = NaN THEN e.stale ELSE IF Beyond(e, score) THEN 0 ELSE e.stale + 1
             t == Append(e.told, score)
  <2>1. Heard(e, score) = [e EXCEPT !.told = t, !.best = b, !.stale = n]
    BY DEF Heard
  <2> HIDE DEF b, n, t
  <2>2. [e EXCEPT !.told = t, !.best = b, !.stale = n] = [best |-> b, stale |-> n, told |-> t]
    <3>1. PICK b0, n0, t0 : e = [best |-> b0, stale |-> n0, told |-> t0]
      BY DEF Stopper
    <3>2. [e EXCEPT !.told = t] = [best |-> b0, stale |-> n0, told |-> t]
      BY <3>1
    <3>3. [[best |-> b0, stale |-> n0, told |-> t] EXCEPT !.best = b] = [best |-> b, stale |-> n0, told |-> t]
      OBVIOUS
    <3>4. [[best |-> b, stale |-> n0, told |-> t] EXCEPT !.stale = n] = [best |-> b, stale |-> n, told |-> t]
      OBVIOUS
    <3>5. [e EXCEPT !.told = t, !.best = b, !.stale = n] = [[[e EXCEPT !.told = t] EXCEPT !.best = b] EXCEPT !.stale = n]
      BY <3>1
    <3>6. QED
      BY <3>2, <3>3, <3>4, <3>5
  <2>3. QED
    BY <2>1, <2>2 DEF b, n, t
<1>3. Seen(score) # NaN => Seen(score) = score
  BY DEF Seen
<1>4. Beyond(e, score) <=> Seen(score) # NaN /\ score < e.best
  BY <1>3 DEF Beyond
<1>5. Append(e.told, score) \in Seq(Scores)
  BY <1>1
<1> DEFINE h == Heard(e, score)
<1>6. /\ h.best = IF Beyond(e, score) THEN score ELSE e.best
      /\ h.stale = IF Seen(score) = NaN THEN e.stale ELSE IF Beyond(e, score) THEN 0 ELSE e.stale + 1
      /\ h.told = Append(e.told, score)
  BY <1>2
<1>7. h \in Stopper
  BY <1>1, <1>2, <1>5 DEF Stopper
<1> HIDE DEF h
<1>8. QED
  BY <1>4, <1>6, <1>7 DEF h

\* It goes on counting right.
LEMMA HeardCounts ==
  ASSUME NEW e \in Stopper, Counts(e), NEW score \in Scores
  PROVE  Counts(Heard(e, score))
<1> DEFINE h == Heard(e, score)
           was == Numbers(e.told)
           is == Numbers(h.told)
           N == Len(was)
<1>1. /\ h \in Stopper /\ h.told = Append(e.told, score)
      /\ Seen(score) = NaN => h.best = e.best /\ h.stale = e.stale
      /\ Seen(score) # NaN /\ score < e.best => h.best = score /\ h.stale = 0
      /\ Seen(score) # NaN /\ ~(score < e.best) => h.best = e.best /\ h.stale = e.stale + 1
  BY HeardIs
<1>2. e.stale \in Nat /\ e.told \in Seq(Scores)
  BY DEF Stopper
<1>3. was \in Seq(Proper) /\ is = IF score = NaN THEN was ELSE Append(was, score)
  BY <1>1, <1>2, NumbersAre
<1> HIDE DEF h
<1>4. CASE ~Monitored
  <2>1. h.stale = 0
    BY <1>1, <1>4 DEF Seen, Counts
  <2>2. QED
    BY <1>4, <2>1 DEF Counts, h
<1>5. CASE Monitored /\ score = NaN
  <2>1. is = was /\ h.best = e.best /\ h.stale = e.stale
    BY <1>1, <1>3, <1>5 DEF Seen
  <2>2. QED
    BY <1>5, <2>1 DEF Counts, h
<1>6. CASE Monitored /\ score # NaN
  <2>1. score \in Proper /\ Seen(score) # NaN
    BY <1>6 DEF Proper, Seen
  <2>2. is = Append(was, score) /\ Len(is) = N + 1 /\ N \in Nat
    BY <1>3, <1>6
  <2>3. /\ e.best = MinOf(was) /\ e.stale <= N
        /\ was # <<>> => e.stale < N /\ Improves(was, N - e.stale)
        /\ \A n \in N - e.stale + 1 .. N : ~Improves(was, n)
    BY <1>6 DEF Counts
  <2>4. /\ MinOf(is) = IF score < MinOf(was) THEN score ELSE MinOf(was)
        /\ Improves(is, N + 1) <=> score < MinOf(was)
        /\ \A n \in 1 .. N : Improves(is, n) <=> Improves(was, n)
    BY <1>3, <2>1, <2>2, MinOfAppend
  <2>5. MinOf(was) \in Nat /\ (was = <<>> => MinOf(was) = Infinite) /\ score < Infinite
    BY <1>3, <2>1, MinOfIs, ScoreRange DEF Proper
  <2>6. was = <<>> <=> N = 0
    BY <1>3
  <2> HIDE DEF is, was, N
  <2>7. CASE score < MinOf(was)
    <3>1. h.best = score /\ h.stale = 0
      BY <1>1, <2>1, <2>3, <2>7
    <3>2. h.best = MinOf(is) /\ h.stale <= Len(is) /\ h.stale < Len(is)
      BY <2>2, <2>4, <2>7, <3>1
    <3>3. Improves(is, Len(is) - h.stale)
      <4>1. Len(is) - h.stale = N + 1
        BY <2>2, <3>1
      <4>2. QED
        BY <2>4, <2>7, <4>1
    <3>4. \A n \in Len(is) - h.stale + 1 .. Len(is) : ~Improves(is, n)
      BY <2>2, <3>1
    <3>5. QED
      BY <1>6, <3>2, <3>3, <3>4 DEF Counts, h, is
  <2>8. CASE ~(score < MinOf(was))
    <3>1. h.best = MinOf(was) /\ h.stale = e.stale + 1
      BY <1>1, <2>1, <2>3, <2>8
    <3>2. N # 0 /\ was # <<>>
      BY <2>5, <2>6, <2>8
    <3>3. e.stale < N /\ Improves(was, N - e.stale) /\ N - e.stale \in 1 .. N
      BY <1>2, <2>2, <2>3, <3>2
    <3>4. h.best = MinOf(is) /\ h.stale <= Len(is) /\ h.stale < Len(is)
      BY <1>2, <2>2, <2>4, <2>8, <3>1, <3>3
    <3>5. Improves(is, Len(is) - h.stale)
      <4>1. Len(is) - h.stale = N - e.stale
        BY <1>2, <2>2, <3>1
      <4>2. QED
        BY <2>4, <3>3, <4>1
    <3>6. ASSUME NEW n \in Len(is) - h.stale + 1 .. Len(is) PROVE ~Improves(is, n)
      <4>1. CASE n = N + 1
        BY <2>4, <2>8, <4>1
      <4>2. CASE n # N + 1
        <5>1. n \in N - e.stale + 1 .. N /\ n \in 1 .. N
          BY <1>2, <2>2, <3>1, <3>3, <4>2
        <5>2. QED
          BY <2>3, <2>4, <5>1
      <4>3. QED
        BY <4>1, <4>2
    <3>7. QED
      BY <1>6, <3>4, <3>5, <3>6 DEF Counts, h, is
  <2>9. QED
    BY <2>7, <2>8
<1>7. QED
  BY <1>4, <1>5, <1>6 DEF h

\* Patience is at its end when the count says so.
LEMMA StagnantIs ==
  ASSUME Monitored, NEW e \in Stopper, Counts(e)
  PROVE  Stagnant(Numbers(e.told)) <=> e.stale > 0 /\ e.stale >= Patience
<1> DEFINE heard == Numbers(e.told)
           N == Len(heard)
<1>1. e.stale \in Nat /\ heard \in Seq(Proper) /\ N \in Nat
  BY NumbersAre DEF Stopper
<1>2. /\ e.stale <= N
      /\ heard # <<>> => e.stale < N /\ Improves(heard, N - e.stale)
      /\ \A n \in N - e.stale + 1 .. N : ~Improves(heard, n)
  BY DEF Counts
<1>3. Window \in Nat /\ Window >= 1 /\ (e.stale >= Window <=> e.stale > 0 /\ e.stale >= Patience)
  BY <1>1, FitsAssumption DEF Window
<1>4. heard # <<>> <=> N > 0
  BY <1>1
<1> HIDE DEF heard, N
<1>5. ASSUME e.stale >= Window PROVE N >= Window /\ \A n \in N - Window + 1 .. N : ~Improves(heard, n)
  BY <1>1, <1>2, <1>3, <1>5
<1>6. ASSUME N >= Window, \A n \in N - Window + 1 .. N : ~Improves(heard, n) PROVE e.stale >= Window
  <2>1. e.stale < N /\ Improves(heard, N - e.stale)
    BY <1>1, <1>2, <1>3, <1>4, <1>6
  <2>2. N - e.stale \notin N - Window + 1 .. N
    BY <1>6, <2>1
  <2>3. QED
    BY <1>1, <1>3, <2>1, <2>2
<1>7. QED
  BY <1>3, <1>5, <1>6 DEF Stagnant, heard, N

-----------------------------------------------------------------------------
(* The callbacks are told in turn *)

\* What the callbacks have come to, some of them told.
Heeding == [es : [1 .. Len(es) -> Stopper], stop : BOOLEAN]

AtLimit(e) == e.stale > 0 /\ e.stale >= Patience

LEMMA HearsIs ==
  ASSUME Len(es) \in Nat, NEW acc \in Heeding, NEW k \in 1 .. Len(es), NEW score \in Scores
  PROVE  /\ Hears(acc, k, score) \in Heeding
         /\ Hears(acc, k, score).es[k] = Heard(acc.es[k], score)
         /\ \A j \in 1 .. Len(es) : j # k => Hears(acc, k, score).es[j] = acc.es[j]
         /\ Hears(acc, k, score).stop <=>
              acc.stop \/ (/\ Heard(acc.es[k], score).stale > acc.es[k].stale
                           /\ Heard(acc.es[k], score).stale >= Patience)
<1> DEFINE e == Heard(acc.es[k], score)
           r == Hears(acc, k, score)
<1>1. acc.es \in [1 .. Len(es) -> Stopper] /\ acc.stop \in BOOLEAN /\ acc.es[k] \in Stopper
  BY DEF Heeding
<1>2. e \in Stopper
  BY <1>1, HeardIs
<1>3. r = [es |-> [acc.es EXCEPT ![k] = e],
           stop |-> acc.stop \/ (e.stale > acc.es[k].stale /\ e.stale >= Patience)]
  BY DEF Hears
<1> HIDE DEF r, e
<1>4. /\ r.es = [acc.es EXCEPT ![k] = e]
      /\ r.stop = (acc.stop \/ (e.stale > acc.es[k].stale /\ e.stale >= Patience))
  BY <1>3
<1>5. /\ r.es \in [1 .. Len(es) -> Stopper] /\ r.es[k] = e
      /\ \A j \in 1 .. Len(es) : j # k => r.es[j] = acc.es[j]
  BY <1>1, <1>2, <1>4
<1>6. r.stop \in BOOLEAN
  BY <1>4
<1>7. r \in Heeding
  BY <1>3, <1>4, <1>5, <1>6, Zenon DEF Heeding
<1>8. QED
  BY <1>4, <1>5, <1>7 DEF r, e

\* f[n] is what the first n that are attached have made of it.
Heeds(f, score) ==
  /\ f[0] = [es |-> es, stop |-> stopping]
  /\ \A n \in 1 .. Len(attached) : f[n] = Hears(f[n - 1], attached[n], score)

LEMMA ToldIs ==
  ASSUME es \in Seq(Stopper), attached \in Seq(1 .. Len(es)), stopping \in BOOLEAN, NEW score \in Scores
  PROVE  \E f \in [0 .. Len(attached) -> Heeding] : Heeds(f, score) /\ Told(score) = f[Len(attached)]
<1> DEFINE N == Len(attached)
           base == [es |-> es, stop |-> stopping]
           step == [n \in 1 .. N |-> [acc \in Heeding |-> Hears(acc, attached[n], score)]]
           Runs(f) == f = [n \in 0 .. N |-> IF n = 0 THEN [es |-> es, stop |-> stopping]
                                            ELSE Hears(f[n - 1], attached[n], score)]
           ch == CHOOSE f : Runs(f)
<1>1. N \in Nat /\ Len(es) \in Nat /\ \A n \in 1 .. N : attached[n] \in 1 .. Len(es)
  OBVIOUS
<1>2. base \in Heeding
  <2>1. es \in [1 .. Len(es) -> Stopper]
    OBVIOUS
  <2>2. QED
    BY <2>1 DEF Heeding
<1>3. \A n \in 1 .. N : \A acc \in Heeding : Hears(acc, attached[n], score) \in Heeding
  BY <1>1, HearsIs
<1>4. step \in [1 .. N -> [Heeding -> Heeding]]
  BY <1>3
<1>5. \A n \in 1 .. N : \A acc \in Heeding : step[n][acc] = Hears(acc, attached[n], score)
  OBVIOUS
<1> HIDE DEF N, step, base
<1>6. PICK g \in [0 .. N -> Heeding] : Iterates(g, base, step, N)
  BY <1>1, <1>2, <1>4, IterationExists
<1>7. \A n \in 0 .. N : g[n] = IF n = 0 THEN base ELSE Hears(g[n - 1], attached[n], score)
  <2> SUFFICES ASSUME NEW n \in 0 .. N
               PROVE  g[n] = IF n = 0 THEN base ELSE Hears(g[n - 1], attached[n], score)
    OBVIOUS
  <2>1. g[n] = IF n = 0 THEN base ELSE step[n][g[n - 1]]
    BY <1>6 DEF Iterates
  <2>2. CASE n = 0
    BY <2>1, <2>2
  <2>3. CASE n # 0
    <3>1. n \in 1 .. N /\ n - 1 \in 0 .. N
      BY <1>1, <2>3
    <3>2. g[n - 1] \in Heeding
      BY <3>1
    <3>3. QED
      BY <1>5, <2>1, <2>3, <3>1, <3>2
  <2>4. QED
    BY <2>2, <2>3
<1>8. Runs(g)
  BY <1>7 DEF base
<1>9. Runs(ch)
  <2> HIDE DEF Runs
  <2> QED  BY <1>8
<1>10. Told(score) = ch[N]
  BY DEF Told, N
<1> HIDE DEF ch
<1>11. Heeds(ch, score) /\ ch = [n \in 0 .. N |-> ch[n]]
  <2>1. ch = [n \in 0 .. N |-> IF n = 0 THEN [es |-> es, stop |-> stopping]
                               ELSE Hears(ch[n - 1], attached[n], score)]
    BY <1>9
  <2>2. 0 \in 0 .. N /\ \A n \in 1 .. N : n \in 0 .. N /\ n # 0
    BY <1>1
  <2>3. /\ ch[0] = [es |-> es, stop |-> stopping]
        /\ \A n \in 1 .. N : ch[n] = Hears(ch[n - 1], attached[n], score)
    BY <2>1, <2>2
  <2>4. ch = [n \in 0 .. N |-> ch[n]]
    BY <2>1
  <2>5. QED
    BY <2>3, <2>4 DEF Heeds, N
<1>12. \A n \in 0 .. N : ch[n] \in Heeding
  <2> DEFINE P == {n \in 0 .. N : ch[n] \in Heeding}
  <2>1. 0 \in P
    <3>1. ch[0] \in Heeding
      BY <1>2, <1>11 DEF Heeds, base
    <3>2. QED
      BY <1>1, <3>1
  <2>2. ASSUME NEW n \in 1 .. N, n - 1 \in P  PROVE n \in P
    <3>1. ch[n] = Hears(ch[n - 1], attached[n], score)
      BY <1>11 DEF Heeds, N
    <3>2. ch[n - 1] \in Heeding /\ n \in 0 .. N
      BY <1>1, <2>2
    <3>3. QED
      BY <1>3, <3>1, <3>2
  <2> HIDE DEF P
  <2>3. \A n \in 0 .. N : n \in P
    BY <1>1, <2>1, <2>2, Climb
  <2>4. QED
    BY <2>3 DEF P
<1>13. ch \in [0 .. N -> Heeding]
  BY <1>11, <1>12
<1>14. QED
  BY <1>10, <1>11, <1>13 DEF N

\* All count right then; who is at the limit of its patience has asked to stop, and
\* nobody asks that is not.
LEMMA ToldCounts ==
  ASSUME es \in Seq(Stopper), attached \in Seq(1 .. Len(es)), stopping \in BOOLEAN, NEW score \in Scores,
         \A k \in 1 .. Len(es) : Counts(es[k])
  PROVE  /\ Told(score).es \in Seq(Stopper) /\ Len(Told(score).es) = Len(es)
         /\ Told(score).stop \in BOOLEAN
         /\ \A k \in 1 .. Len(es) : Counts(Told(score).es[k])
         /\ Monitored /\ score # NaN =>
              \A n \in 1 .. Len(attached) : AtLimit(Told(score).es[attached[n]]) => Told(score).stop
         /\ ~Monitored /\ ~stopping => ~Told(score).stop
         /\ Len(attached) = 1 /\ ~stopping /\ Told(score).stop => AtLimit(Told(score).es[attached[1]])
<1> DEFINE N == Len(attached)
           K == 1 .. Len(es)
<1>1. N \in Nat /\ Len(es) \in Nat /\ \A n \in 1 .. N : attached[n] \in K
  OBVIOUS
<1>2. PICK f \in [0 .. N -> Heeding] : Heeds(f, score) /\ Told(score) = f[N]
  BY ToldIs
<1>3. \A n \in 0 .. N : f[n].es \in [K -> Stopper] /\ f[n].stop \in BOOLEAN
  BY <1>2 DEF Heeding
<1>4. f[0].es = es /\ f[0].stop = stopping
  BY <1>2 DEF Heeds
<1>5. ASSUME NEW n \in 1 .. N
      PROVE  LET k == attached[n]
             IN  /\ f[n].es[k] = Heard(f[n - 1].es[k], score)
                 /\ \A j \in K : j # k => f[n].es[j] = f[n - 1].es[j]
                 /\ f[n].stop <=> f[n - 1].stop \/ (/\ f[n].es[k].stale > f[n - 1].es[k].stale
                                                    /\ f[n].es[k].stale >= Patience)
                 /\ k \in K /\ f[n - 1].es[k] \in Stopper /\ n - 1 \in 0 .. N /\ n \in 0 .. N
  <2>1. f[n] = Hears(f[n - 1], attached[n], score)
    BY <1>2 DEF Heeds
  <2>2. n - 1 \in 0 .. N /\ n \in 0 .. N /\ attached[n] \in K
    BY <1>1
  <2>3. f[n - 1] \in Heeding
    BY <2>2
  <2>4. f[n - 1].es[attached[n]] \in Stopper
    BY <1>3, <2>2
  <2>5. /\ f[n].es[attached[n]] = Heard(f[n - 1].es[attached[n]], score)
        /\ \A j \in K : j # attached[n] => f[n].es[j] = f[n - 1].es[j]
        /\ f[n].stop <=> f[n - 1].stop \/ (/\ Heard(f[n - 1].es[attached[n]], score).stale > f[n - 1].es[attached[n]].stale
                                           /\ Heard(f[n - 1].es[attached[n]], score).stale >= Patience)
    BY <1>1, <2>1, <2>2, <2>3, HearsIs
  <2>6. QED
    BY <2>2, <2>4, <2>5
<1> DEFINE Right(n) == \A k \in K : Counts(f[n].es[k])
           Stops(n) == Monitored /\ score # NaN => \A m \in 1 .. n : AtLimit(f[n].es[attached[m]]) => f[n].stop
           Rests(n) == ~Monitored /\ ~stopping => ~f[n].stop
           P == {n \in 0 .. N : Right(n) /\ Stops(n) /\ Rests(n)}
<1>6. 0 \in P
  <2>1. Right(0) /\ Rests(0)
    BY <1>4
  <2>2. Stops(0)
    OBVIOUS
  <2> HIDE DEF Right, Stops, Rests
  <2>3. QED
    BY <1>1, <2>1, <2>2
<1>7. ASSUME NEW n \in 1 .. N, n - 1 \in P  PROVE n \in P
  <2> DEFINE k == attached[n]
             old == f[n - 1].es[k]
             new == f[n].es[k]
  <2>1. /\ new = Heard(old, score)
        /\ \A j \in K : j # k => f[n].es[j] = f[n - 1].es[j]
        /\ f[n].stop <=> f[n - 1].stop \/ (new.stale > old.stale /\ new.stale >= Patience)
        /\ k \in K /\ old \in Stopper /\ n - 1 \in 0 .. N /\ n \in 0 .. N
    BY <1>5
  <2>2. Right(n - 1) /\ Stops(n - 1) /\ Rests(n - 1)
    BY <1>7
  <2> HIDE DEF k, old, new, P
  <2>3. /\ Seen(score) = NaN => new.stale = old.stale
        /\ Seen(score) # NaN => new.stale = 0 \/ new.stale = old.stale + 1
        /\ new \in Stopper /\ old.stale \in Nat /\ new.stale \in Nat
    <3>1. /\ new \in Stopper
          /\ Seen(score) = NaN => new.stale = old.stale
          /\ Seen(score) # NaN => new.stale = 0 \/ new.stale = old.stale + 1
      <4>1. /\ Heard(old, score) \in Stopper
            /\ Seen(score) = NaN => Heard(old, score).stale = old.stale
            /\ Seen(score) # NaN /\ score < old.best => Heard(old, score).stale = 0
            /\ Seen(score) # NaN /\ ~(score < old.best) => Heard(old, score).stale = old.stale + 1
        BY <2>1, HeardIs
      <4>2. QED
        BY <2>1, <4>1
    <3>2. QED
      BY <2>1, <3>1 DEF Stopper
  <2>4. Right(n)
    <3>1. Counts(new)
      BY <2>1, <2>2, HeardCounts DEF old
    <3>2. QED
      BY <2>1, <2>2, <3>1 DEF new
  <2>5. Stops(n)
    <3> SUFFICES ASSUME Monitored, score # NaN, NEW m \in 1 .. n, AtLimit(f[n].es[attached[m]])
                 PROVE  f[n].stop
      OBVIOUS
    <3>1. Seen(score) # NaN
      BY DEF Seen
    <3>2. CASE attached[m] = k
      <4>1. new.stale > 0 /\ new.stale >= Patience
        BY <3>2 DEF AtLimit, new
      <4>2. new.stale > old.stale
        BY <2>3, <3>1, <4>1
      <4>3. QED
        BY <2>1, <4>1, <4>2
    <3>3. CASE attached[m] # k
      <4>1. m \in 1 .. n - 1 /\ attached[m] \in K
        BY <1>1, <3>3 DEF k
      <4>2. f[n].es[attached[m]] = f[n - 1].es[attached[m]]
        BY <2>1, <3>3, <4>1
      <4>3. f[n - 1].stop
        BY <2>2, <4>1, <4>2
      <4>4. QED
        BY <2>1, <4>3
    <3>4. QED
      BY <3>2, <3>3
  <2>6. Rests(n)
    <3> SUFFICES ASSUME ~Monitored, ~stopping PROVE ~f[n].stop
      OBVIOUS
    <3>1. Seen(score) = NaN
      BY DEF Seen
    <3>2. ~(new.stale > old.stale)
      BY <2>3, <3>1
    <3>3. QED
      BY <2>1, <2>2, <3>2
  <2> HIDE DEF Right, Stops, Rests
  <2>7. QED
    BY <2>1, <2>4, <2>5, <2>6 DEF P
<1>8. N \in P
  <2>1. N \in 0 .. N
    BY <1>1
  <2> HIDE DEF P
  <2>2. \A n \in 0 .. N : n \in P
    BY <1>1, <1>6, <1>7, Climb
  <2>3. QED
    BY <2>1, <2>2
<1>9. ASSUME N = 1, ~stopping, f[N].stop PROVE AtLimit(f[N].es[attached[1]])
  <2> DEFINE k == attached[1]
             old == f[0].es[k]
             new == f[1].es[k]
  <2>1. 1 \in 1 .. N /\ 1 - 1 = 0
    BY <1>9
  <2>2. /\ f[1].stop <=> f[0].stop \/ (new.stale > old.stale /\ new.stale >= Patience)
        /\ k \in K /\ old \in Stopper
    BY <1>5, <2>1
  <2>3. new.stale > old.stale /\ new.stale >= Patience
    BY <1>4, <1>9, <2>2
  <2>4. new \in Stopper
    BY <1>1, <1>3, <1>9, <2>2
  <2>5. old.stale \in Nat /\ new.stale \in Nat
    BY <2>2, <2>4 DEF Stopper
  <2>6. new.stale > 0
    BY <2>3, <2>5
  <2>7. QED
    BY <1>9, <2>3, <2>6 DEF AtLimit
<1>10. f[N].es \in Seq(Stopper) /\ Len(f[N].es) = Len(es)
  <2>1. f[N].es \in [K -> Stopper]
    BY <1>1, <1>3
  <2> DEFINE g == f[N].es
             n == Len(es)
  <2>2. g \in [1 .. n -> Stopper] /\ n \in Nat
    BY <1>1, <2>1
  <2> HIDE DEF g, n
  <2>3. g \in Seq(Stopper) /\ Len(g) = n
    BY <2>2
  <2>4. QED
    BY <2>3 DEF g, n
<1>11. Right(N) /\ Stops(N) /\ Rests(N)
  <2> HIDE DEF Right, Stops, Rests
  <2> QED  BY <1>8
<1>12. f[N].stop \in BOOLEAN
  BY <1>1, <1>3
<1>13. QED
  BY <1>2, <1>9, <1>10, <1>11, <1>12

-----------------------------------------------------------------------------
(* The callbacks over all fits *)

FitsType ==
  /\ place \in {"out", "batches", "validated"} /\ drop \in BOOLEAN /\ calls \in Nat
  /\ stopping \in BOOLEAN /\ failedSave \in BOOLEAN
  /\ validations \in Seq(Scores) /\ trained = Len(validations)
  /\ calls = 0 => place = "out" /\ trained = 0
  /\ place = "validated" => trained > 0

\* Who has had enough has asked to stop, and nobody else has.
StopInv ==
  /\ es \in Seq(Stopper) /\ attached \in Seq(1 .. Len(es))
  /\ \A k \in 1 .. Len(es) : Counts(es[k])
  /\ place = "batches" \/ ~Monitored => ~stopping
  /\ place = "validated" /\ stopping /\ Len(attached) = 1 => AtLimit(es[attached[1]])
  /\ Monitored /\ place = "validated" /\ Last(validations) # NaN =>
       \A n \in 1 .. Len(attached) : AtLimit(es[attached[n]]) => stopping

\* n is the first that has the least score of all.
FirstLeast(seq, n) ==
  /\ n \in 1 .. Len(seq)
  /\ seq[n] = MinOf(Numbers(seq))
  /\ \A m \in 1 .. n - 1 : seq[m] # seq[n]

\* The callback knows the least score, the file the agent that had it first.
BestInv ==
  /\ kept \in [agent : Nat, score : Nat]
  /\ Monitored =>
       /\ best = MinOf(Numbers(validations))
       /\ ~failedSave => kept.score = best /\ (best # Infinite => FirstLeast(validations, kept.agent))

Report == [agent : Nat, score : Scores]

\* Reports are of what was validated; in the first fit, of all of it.
ReportInv ==
  /\ reports \in Seq(Report)
  /\ \A n \in 1 .. Len(reports) : reports[n].agent \in 1 .. trained
  /\ calls = 1 /\ place # "out" =>
       /\ Len(reports) = IF place = "validated" THEN trained - 1 ELSE trained
       /\ \A n \in 1 .. Len(reports) : reports[n].agent = n /\ reports[n].score = validations[n]
  /\ chosen \in Nat /\ (place # "out" => chosen = 0)
  /\ chosen # 0 =>
       /\ chosen \in 1 .. trained
       /\ calls = 1 /\ validations[chosen] # NaN => FirstLeast(validations, chosen)

Visit == [index : 1 .. Dataset, by : {0, 1}]

\* The severities are those of the samples the loader has given, from the front.
SamplesInv ==
  /\ perm \in Seq(1 .. Dataset) /\ CurriculumKeepsSamples
  /\ cursor \in 0 .. Len(perm)
  /\ place # "out" =>
       /\ severity \in Seq(Visit) /\ Len(severity) = cursor
       /\ \A n \in 1 .. cursor : severity[n].index = perm[n]
       /\ drop => \E q \in Nat : cursor = q * LoaderSize
  /\ place = "validated" => IF drop THEN Len(perm) - cursor < LoaderSize ELSE cursor = Len(perm)

FitsInv == FitsType /\ StopInv /\ BestInv /\ ReportInv /\ SamplesInv

-----------------------------------------------------------------------------
(* Scores *)

LEMMA LeastOf ==
  ASSUME NEW seq \in Seq(Scores)
  PROVE  /\ MinOf(Numbers(seq)) \in Nat /\ MinOf(Numbers(seq)) <= Infinite
         /\ \A n \in 1 .. Len(seq) : seq[n] # NaN => MinOf(Numbers(seq)) <= seq[n] /\ seq[n] < Infinite
<1> DEFINE r == Numbers(seq)
<1>1. ToSet(r) = ToSet(seq) \cap Proper
  BY AmongSound DEF Numbers, Proper
<1>2. r \in Seq(Proper)
  BY NumbersAre
<1>3. /\ MinOf(r) \in Nat /\ MinOf(r) <= Infinite
      /\ \A i \in 1 .. Len(r) : MinOf(r) <= r[i]
  BY <1>2, MinOfIs
<1>4. ASSUME NEW n \in 1 .. Len(seq), seq[n] # NaN PROVE MinOf(r) <= seq[n] /\ seq[n] < Infinite
  <2>1. seq[n] \in ToSet(r)
    BY <1>1, <1>4 DEF ToSet, Proper
  <2>2. PICK i \in 1 .. Len(r) : r[i] = seq[n]
    BY <1>2, <2>1 DEF ToSet
  <2>3. MinOf(r) <= seq[n]
    BY <1>3, <2>2
  <2>4. seq[n] \in Scores
    OBVIOUS
  <2> HIDE DEF r
  <2>5. QED
    BY <2>3, <2>4, ScoreRange
<1>5. QED
  BY <1>3, <1>4

LEMMA LeastAppend ==
  ASSUME NEW seq \in Seq(Scores), NEW x \in Scores
  PROVE  MinOf(Numbers(Append(seq, x))) =
           IF x # NaN /\ x < MinOf(Numbers(seq)) THEN x ELSE MinOf(Numbers(seq))
<1>1. /\ Numbers(seq) \in Seq(Proper)
      /\ Numbers(Append(seq, x)) = IF x = NaN THEN Numbers(seq) ELSE Append(Numbers(seq), x)
  BY NumbersAre
<1>2. CASE x = NaN
  BY <1>1, <1>2
<1>3. CASE x # NaN
  <2>1. x \in Proper
    BY <1>3 DEF Proper
  <2>2. MinOf(Append(Numbers(seq), x)) = IF x < MinOf(Numbers(seq)) THEN x ELSE MinOf(Numbers(seq))
    BY <1>1, <2>1, MinOfAppend
  <2>3. QED
    BY <1>1, <1>3, <2>2
<1>4. QED
  BY <1>2, <1>3

\* One score more: the first that had the least stays, or the new one is it.
LEMMA FirstLeastAppend ==
  ASSUME NEW seq \in Seq(Scores), NEW x \in Scores
  PROVE  /\ ~(x # NaN /\ x < MinOf(Numbers(seq))) =>
              \A n : FirstLeast(seq, n) => FirstLeast(Append(seq, x), n)
         /\ x # NaN /\ x < MinOf(Numbers(seq)) => FirstLeast(Append(seq, x), Len(seq) + 1)
<1> DEFINE new == Append(seq, x)
           least == MinOf(Numbers(seq))
<1>1. /\ new \in Seq(Scores) /\ Len(new) = Len(seq) + 1 /\ new[Len(seq) + 1] = x /\ Len(seq) \in Nat
      /\ \A i \in 1 .. Len(seq) : new[i] = seq[i]
  OBVIOUS
<1>2. MinOf(Numbers(new)) = IF x # NaN /\ x < least THEN x ELSE least
  BY LeastAppend
<1>3. /\ least \in Nat
      /\ \A n \in 1 .. Len(seq) : seq[n] # NaN => least <= seq[n]
  BY LeastOf
<1>4. x \in Nat /\ \A n \in 1 .. Len(seq) : seq[n] \in Nat
  <2>1. x \in Scores /\ \A n \in 1 .. Len(seq) : seq[n] \in Scores
    OBVIOUS
  <2>2. \A s \in Scores : s \in Nat
    BY ScoreRange
  <2> HIDE DEF new, least
  <2>3. QED
    BY <2>1, <2>2
<1> HIDE DEF new, least
<1>5. ASSUME ~(x # NaN /\ x < least), NEW n, FirstLeast(seq, n) PROVE FirstLeast(new, n)
  <2>1. n \in 1 .. Len(seq) /\ seq[n] = least /\ \A m \in 1 .. n - 1 : seq[m] # seq[n]
    BY <1>5 DEF FirstLeast, least
  <2>2. n \in 1 .. Len(new) /\ \A m \in 1 .. n - 1 : m \in 1 .. Len(seq)
    BY <1>1, <2>1
  <2>3. QED
    BY <1>1, <1>2, <1>5, <2>1, <2>2 DEF FirstLeast
<1>6. ASSUME x # NaN, x < least PROVE FirstLeast(new, Len(seq) + 1)
  <2>1. \A m \in 1 .. Len(seq) : seq[m] # x
    BY <1>3, <1>4, <1>6
  <2>2. (Len(seq) + 1) - 1 = Len(seq) /\ Len(seq) + 1 \in 1 .. Len(new)
    BY <1>1
  <2>3. QED
    BY <1>1, <1>2, <1>6, <2>1, <2>2 DEF FirstLeast
<1>7. QED
  BY <1>5, <1>6 DEF new, least

\* Only one is the first.
LEMMA FirstLeastOnce ==
  ASSUME NEW seq \in Seq(Scores), NEW n, NEW m, FirstLeast(seq, n), FirstLeast(seq, m)
  PROVE  n = m
<1>1. n \in 1 .. Len(seq) /\ m \in 1 .. Len(seq) /\ seq[n] = seq[m]
  BY DEF FirstLeast
<1>2. ~(n < m) /\ ~(m < n)
  BY <1>1 DEF FirstLeast
<1>3. QED
  BY <1>1, <1>2

\* The report picks the first of those that no other is better than.
LEMMA PickedIs ==
  ASSUME NEW rs \in Seq(Report), rs # <<>>
  PROVE  \E n \in 1 .. Len(rs) : /\ Picked(rs) = rs[n].agent
                                 /\ \A m \in 1 .. Len(rs) : Score(rs[n]) <= Score(rs[m])
                                 /\ \A m \in 1 .. n - 1 : Score(rs[n]) < Score(rs[m])
<1> DEFINE D == 1 .. Len(rs)
           All == {Score(rs[n]) : n \in D}
<1>1. Len(rs) \in Nat /\ DOMAIN rs = D /\ 1 \in D
  OBVIOUS
<1>2. \A n \in D : Score(rs[n]) \in Nat
  <2> SUFFICES ASSUME NEW n \in D PROVE Score(rs[n]) \in Nat
    OBVIOUS
  <2>1. rs[n].score \in Scores
    <3>1. rs[n] \in Report
      OBVIOUS
    <3>2. QED
      BY <3>1 DEF Report
  <2>2. rs[n].score \in Nat /\ Infinite \in Nat
    BY <2>1, ScoreRange
  <2>3. QED
    BY <2>2 DEF Score
<1>3. All \subseteq Nat /\ All # {}
  BY <1>1, <1>2
<1>4. PICK s \in All : \A x \in All : s <= x
  <2> HIDE DEF All
  <2> QED  BY <1>3, NatMin
<1> DEFINE Which == {n \in D : Score(rs[n]) = s}
<1>5. Which \subseteq Nat /\ Which # {}
  BY <1>1, <1>4
<1>6. PICK n \in Which : \A m \in Which : n <= m
  <2> HIDE DEF Which
  <2> QED  BY <1>5, NatMin
<1>7. n \in D /\ Score(rs[n]) = s /\ s \in Nat
  BY <1>3, <1>4, <1>6
<1>8. \A m \in D : Score(rs[n]) <= Score(rs[m])
  BY <1>4, <1>7
<1>9. ASSUME NEW m \in 1 .. n - 1 PROVE Score(rs[n]) < Score(rs[m])
  <2>1. m \in D /\ ~(n <= m)
    BY <1>1, <1>7
  <2>2. Score(rs[m]) # s
    BY <1>6, <2>1
  <2>3. Score(rs[m]) \in Nat /\ Score(rs[n]) <= Score(rs[m])
    BY <1>2, <1>8, <2>1
  <2>4. QED
    BY <1>7, <2>2, <2>3
<1> DEFINE Is(k) == /\ \A m \in DOMAIN rs : Score(rs[k]) <= Score(rs[m])
                    /\ \A m \in 1 .. k - 1 : Score(rs[k]) < Score(rs[m])
           k == CHOOSE k \in DOMAIN rs : Is(k)
<1>10. \E i \in DOMAIN rs : Is(i)
  BY <1>1, <1>7, <1>8, <1>9
<1>11. k \in DOMAIN rs /\ Is(k)
  <2> HIDE DEF Is
  <2> QED  BY <1>10
<1>12. Picked(rs) = rs[k].agent
  BY DEF Picked
<1> HIDE DEF k
<1>13. QED
  BY <1>1, <1>11, <1>12

-----------------------------------------------------------------------------
(* The steps *)

LEMMA FitsInitially == FitsInit => FitsInv
<1> SUFFICES ASSUME FitsInit PROVE FitsInv
  OBVIOUS
<1>1. FitsType
  <2>1. <<>> \in Seq(Scores) /\ Len(<<>>) = 0
    OBVIOUS
  <2>2. validations = <<>> /\ trained = 0 /\ place = "out" /\ calls = 0 /\ stopping = FALSE
        /\ failedSave = FALSE /\ drop \in BOOLEAN
    BY DEF FitsInit
  <2>3. validations \in Seq(Scores) /\ trained = Len(validations)
    BY <2>1, <2>2, Zenon
  <2>4. QED
    BY <2>2, <2>3 DEF FitsType
<1>2. StopInv
  <2>1. es = <<>> /\ attached = <<>> /\ stopping = FALSE /\ place = "out" /\ Len(es) = 0
    BY DEF FitsInit
  <2>2. <<>> \in Seq(Stopper) /\ <<>> \in Seq(1 .. 0)
    OBVIOUS
  <2>3. QED
    BY <2>1, <2>2 DEF StopInv
<1>3. BestInv
  <2>1. Numbers(<<>>) = <<>> /\ MinOf(<<>>) = Infinite /\ Infinite \in Nat
    BY AmongEmpty, ScoreRange DEF Numbers, MinOf
  <2>2. kept = [agent |-> 0, score |-> Infinite] /\ best = Infinite /\ validations = <<>>
    BY DEF FitsInit, Nothing
  <2>3. QED
    BY <2>1, <2>2 DEF BestInv
<1>4. ReportInv
  BY DEF FitsInit, ReportInv
<1>5. SamplesInv
  <2>1. Dataset \in Nat /\ LoaderSize \in Nat /\ LoaderSize # 0
    BY FitsAssumption
  <2>2. perm = [i \in 1 .. Dataset |-> i] /\ cursor = 0 /\ place = "out" /\ drop \in BOOLEAN
    BY DEF FitsInit, Sequential0
  <2>3. perm \in Seq(1 .. Dataset) /\ Len(perm) = Dataset /\ IsInjective(perm)
    BY <2>1, <2>2 DEF IsInjective
  <2>4. Dataset - (Dataset % LoaderSize) <= Dataset
    BY <2>1
  <2>5. CurriculumKeepsSamples
    BY <2>1, <2>3, <2>4, ToSetWithin DEF CurriculumKeepsSamples
  <2>6. QED
    BY <2>1, <2>2, <2>3, <2>5 DEF SamplesInv
<1>6. QED
  BY <1>1, <1>2, <1>3, <1>4, <1>5 DEF FitsInv

LEMMA NextStop == FitsType /\ StopInv /\ [FitsNext]_fitsvars => StopInv' /\ stopping' \in BOOLEAN
<1> SUFFICES ASSUME FitsType, StopInv, [FitsNext]_fitsvars PROVE StopInv' /\ stopping' \in BOOLEAN
  OBVIOUS
<1>1. stopping \in BOOLEAN /\ validations \in Seq(Scores)
  BY DEF FitsType
<1>2. /\ es \in Seq(Stopper) /\ attached \in Seq(1 .. Len(es))
      /\ \A k \in 1 .. Len(es) : Counts(es[k])
  BY DEF StopInv
<1>3. CASE CallFit
  <2>1. place' = "batches" /\ stopping' = FALSE
    BY <1>3 DEF CallFit
  <2>2. /\ es' \in Seq(Stopper) /\ attached' \in Seq(1 .. Len(es'))
        /\ \A k \in 1 .. Len(es') : Counts(es'[k])
    <3>1. CASE UNCHANGED <<attached, es>>
      BY <1>2, <3>1
    <3>2. ASSUME NEW k \in 1 .. Len(es) + 1, Attach(k)
          PROVE  /\ es' \in Seq(Stopper) /\ attached' \in Seq(1 .. Len(es'))
                 /\ \A j \in 1 .. Len(es') : Counts(es'[j])
      <4>0. NewStopper \in Stopper /\ Counts(NewStopper)
        BY NewCounts
      <4>1. attached' = Append(attached, k) /\ DOMAIN es = 1 .. Len(es) /\ Len(es) \in Nat
        BY <1>2, <3>2 DEF Attach
      <4>2. CASE k \in DOMAIN es
        <5>1. es' = es
          BY <3>2, <4>2 DEF Attach
        <5>2. QED
          BY <1>2, <4>1, <4>2, <5>1
      <4>3. CASE k \notin DOMAIN es
        <5>1. es' = Append(es, NewStopper)
          BY <3>2, <4>3 DEF Attach
        <5> HIDE DEF NewStopper
        <5>2. /\ es' \in Seq(Stopper) /\ Len(es') = Len(es) + 1 /\ es'[Len(es) + 1] = NewStopper
              /\ \A j \in 1 .. Len(es) : es'[j] = es[j]
          BY <1>2, <4>0, <5>1
        <5>3. attached \in Seq(1 .. Len(es'))
          <6>1. \A n \in 1 .. Len(attached) : attached[n] \in 1 .. Len(es')
            BY <1>2, <4>1, <5>2
          <6>2. QED
            BY <1>2, <6>1
        <5>4. attached' \in Seq(1 .. Len(es'))
          BY <4>1, <5>2, <5>3
        <5>5. \A j \in 1 .. Len(es') : Counts(es'[j])
          <6>1. \A j \in 1 .. Len(es') : j \in 1 .. Len(es) \/ j = Len(es) + 1
            BY <4>1, <5>2
          <6>2. \A j \in 1 .. Len(es) : Counts(es'[j])
            BY <1>2, <5>2
          <6>3. Counts(es'[Len(es) + 1])
            BY <4>0, <5>2
          <6>4. QED
            BY <6>1, <6>2, <6>3
        <5>6. QED
          BY <5>2, <5>4, <5>5
      <4>4. QED
        BY <4>2, <4>3
    <3>3. QED
      BY <1>3, <3>1, <3>2 DEF CallFit
  <2>3. QED
    BY <2>1, <2>2 DEF StopInv
<1>4. CASE Batch
  <2>1. UNCHANGED <<place, attached, stopping, es, validations>>
    BY <1>4 DEF Batch
  <2>2. QED
    BY <1>1, <2>1 DEF StopInv
<1>5. CASE FitFails
  <2>1. UNCHANGED <<attached, stopping, es, validations>> /\ place' = "out"
    BY <1>5 DEF FitFails
  <2>2. QED
    BY <1>1, <2>1 DEF StopInv
<1>6. CASE EpochDone
  <2>1. UNCHANGED <<attached, stopping, es, validations>> /\ (place' = "out" \/ (place' = "batches" /\ ~stopping))
    BY <1>6 DEF EpochDone
  <2>2. QED
    BY <1>1, <2>1 DEF StopInv
<1>7. ASSUME NEW score \in Scores, NEW fails \in BOOLEAN, Validate(score, fails)
      PROVE  StopInv' /\ stopping' \in BOOLEAN
  <2>1. place = "batches" /\ attached' = attached /\ ~stopping
    BY <1>7 DEF Validate, StopInv
  <2>2. CASE Beats(score) /\ fails
    <3>1. UNCHANGED <<es, stopping>> /\ place' = "out"
      BY <1>7, <2>2 DEF Validate
    <3>2. QED
      BY <1>1, <1>2, <2>1, <3>1 DEF StopInv
  <2>3. CASE ~(Beats(score) /\ fails)
    <3>1. es' = Told(score).es /\ stopping' = Told(score).stop /\ place' = "validated"
      BY <1>7, <2>3 DEF Validate
    <3>2. /\ Told(score).es \in Seq(Stopper) /\ Len(Told(score).es) = Len(es)
          /\ Told(score).stop \in BOOLEAN
          /\ \A k \in 1 .. Len(es) : Counts(Told(score).es[k])
          /\ Monitored /\ score # NaN =>
               \A n \in 1 .. Len(attached) : AtLimit(Told(score).es[attached[n]]) => Told(score).stop
          /\ ~Monitored /\ ~stopping => ~Told(score).stop
          /\ Len(attached) = 1 /\ ~stopping /\ Told(score).stop => AtLimit(Told(score).es[attached[1]])
      BY <1>1, <1>2, ToldCounts
    <3>3. /\ es' \in Seq(Stopper) /\ Len(es') = Len(es)
          /\ stopping' \in BOOLEAN
          /\ \A k \in 1 .. Len(es) : Counts(es'[k])
          /\ Monitored /\ score # NaN =>
               \A n \in 1 .. Len(attached) : AtLimit(es'[attached[n]]) => stopping'
          /\ ~Monitored => ~stopping'
          /\ Len(attached) = 1 /\ stopping' => AtLimit(es'[attached[1]])
      BY <2>1, <3>1, <3>2
    <3>4. Last(validations') = score
      <4>1. validations' = Append(validations, score)
        BY <1>7 DEF Validate
      <4>2. QED
        BY <1>1, <4>1 DEF Last
    <3>5. QED
      BY <1>2, <2>1, <3>1, <3>3, <3>4 DEF StopInv
  <2>4. QED
    BY <2>2, <2>3
<1>8. CASE UNCHANGED fitsvars
  BY <1>1, <1>8 DEF fitsvars, StopInv
<1>9. QED
  BY <1>3, <1>4, <1>5, <1>6, <1>7, <1>8 DEF FitsNext

LEMMA NextFitsType == FitsType /\ StopInv /\ [FitsNext]_fitsvars => FitsType'
<1> SUFFICES ASSUME FitsType, StopInv, [FitsNext]_fitsvars PROVE FitsType'
  OBVIOUS
<1>1. CASE CallFit
  <2>1. UNCHANGED <<drop, trained, validations, failedSave>> /\ stopping' = FALSE /\ place' = "batches"
        /\ calls' = calls + 1
    BY <1>1 DEF CallFit
  <2>2. calls' \in Nat /\ calls' # 0 /\ validations \in Seq(Scores) /\ trained = Len(validations)
        /\ drop \in BOOLEAN /\ failedSave \in BOOLEAN
    BY <2>1 DEF FitsType
  <2>3. validations' \in Seq(Scores) /\ trained' = Len(validations')
    BY <2>1, <2>2
  <2>4. QED
    BY <2>1, <2>2, <2>3 DEF FitsType
<1>2. CASE Batch
  BY <1>2 DEF Batch, FitsType
<1>3. CASE FitFails
  BY <1>3 DEF FitFails, FitsType
<1>4. CASE EpochDone
  BY <1>4 DEF EpochDone, FitsType
<1>5. ASSUME NEW score \in Scores, NEW fails \in BOOLEAN, Validate(score, fails) PROVE FitsType'
  <2>1. place = "batches" /\ place' \in {"out", "validated"}
    BY <1>5 DEF Validate
  <2>2. failedSave' \in BOOLEAN
    BY <1>5 DEF Validate, FitsType
  <2>3. validations' \in Seq(Scores) /\ trained' = Len(validations') /\ trained' > 0
    BY <1>5 DEF Validate, FitsType
  <2>4. UNCHANGED <<drop, calls>> /\ stopping' \in BOOLEAN
    <3>1. UNCHANGED <<drop, calls>>
      BY <1>5 DEF Validate
    <3>2. QED
      BY <1>5, <3>1, NextStop DEF FitsNext
  <2>5. QED
    BY <2>1, <2>2, <2>3, <2>4 DEF FitsType
<1>6. CASE UNCHANGED fitsvars
  BY <1>6 DEF fitsvars, FitsType
<1>7. QED
  BY <1>1, <1>2, <1>3, <1>4, <1>5, <1>6 DEF FitsNext

LEMMA NextBest == FitsType /\ BestInv /\ [FitsNext]_fitsvars => BestInv'
<1> SUFFICES ASSUME FitsType, BestInv, [FitsNext]_fitsvars PROVE BestInv'
  OBVIOUS
<1>1. validations \in Seq(Scores) /\ trained = Len(validations) /\ Len(validations) \in Nat /\ failedSave \in BOOLEAN
  BY DEF FitsType
<1>2. ASSUME NEW score \in Scores, NEW fails \in BOOLEAN, Validate(score, fails) PROVE BestInv'
  <2> DEFINE new == Append(validations, score)
             least == MinOf(Numbers(validations))
  <2>1. /\ validations' = new /\ trained' = trained + 1
        /\ best' = IF Beats(score) THEN score ELSE best
    BY <1>2 DEF Validate
  <2>2. MinOf(Numbers(new)) = IF score # NaN /\ score < least THEN score ELSE least
    BY <1>1, LeastAppend
  <2>3. /\ ~(score # NaN /\ score < least) => \A n : FirstLeast(validations, n) => FirstLeast(new, n)
        /\ score # NaN /\ score < least => FirstLeast(new, Len(validations) + 1)
    BY <1>1, FirstLeastAppend
  <2>4. score \in Nat /\ Len(validations) + 1 \in Nat
    BY <1>1, ScoreRange
  <2>5. Monitored => (Beats(score) <=> score # NaN /\ score < least)
    BY DEF Beats, Seen, BestInv
  <2>6. kept \in [agent : Nat, score : Nat]
    BY DEF BestInv
  <2>7. \/ Beats(score) /\ kept' = [agent |-> trained + 1, score |-> score] /\ failedSave' = failedSave
        \/ ~Beats(score) /\ kept' = kept /\ failedSave' = failedSave
        \/ kept' = kept /\ failedSave' = TRUE
    BY <1>2, <2>1 DEF Validate
  <2>8. kept' \in [agent : Nat, score : Nat]
    BY <1>1, <2>4, <2>6, <2>7
  <2> HIDE DEF new, least
  <2>9. ASSUME Monitored
        PROVE  /\ best' = MinOf(Numbers(new))
               /\ ~failedSave' => kept'.score = best' /\ (best' # Infinite => FirstLeast(new, kept'.agent))
    <3>1. /\ best = least
          /\ ~failedSave => kept.score = best /\ (best # Infinite => FirstLeast(validations, kept.agent))
      BY <2>9 DEF BestInv, least
    <3>2. best' = MinOf(Numbers(new))
      BY <2>1, <2>2, <2>5, <2>9, <3>1
    <3>3. ASSUME ~failedSave', Beats(score)
          PROVE  kept'.score = best' /\ (best' # Infinite => FirstLeast(new, kept'.agent))
      <4>1. kept' = [agent |-> trained + 1, score |-> score]
        BY <2>7, <3>3
      <4>2. kept'.agent = Len(validations) + 1 /\ kept'.score = score
        BY <1>1, <4>1
      <4>3. QED
        BY <2>1, <2>3, <2>5, <2>9, <3>3, <4>2
    <3>4. ASSUME ~failedSave', ~Beats(score)
          PROVE  kept'.score = best' /\ (best' # Infinite => FirstLeast(new, kept'.agent))
      <4>1. kept' = kept /\ ~failedSave /\ best' = best
        BY <1>1, <2>1, <2>7, <3>4
      <4>2. QED
        BY <2>3, <2>5, <2>9, <3>1, <3>4, <4>1
    <3>5. QED
      BY <3>2, <3>3, <3>4
  <2>10. QED
    BY <2>1, <2>8, <2>9 DEF BestInv
<1>3. ASSUME UNCHANGED <<validations, best, kept, failedSave>> PROVE BestInv'
  BY <1>3 DEF BestInv
<1>4. QED
  BY <1>2, <1>3 DEF FitsNext, CallFit, Batch, FitFails, EpochDone, fitsvars

LEMMA NextReport == FitsType /\ ReportInv /\ [FitsNext]_fitsvars => ReportInv'
<1> SUFFICES ASSUME FitsType, ReportInv, [FitsNext]_fitsvars PROVE ReportInv'
  OBVIOUS
<1>1. /\ validations \in Seq(Scores) /\ trained = Len(validations) /\ trained \in Nat /\ calls \in Nat
      /\ (calls = 0 => place = "out" /\ trained = 0) /\ place \in {"out", "batches", "validated"}
      /\ (place = "validated" => trained > 0)
  BY DEF FitsType
<1>2. /\ reports \in Seq(Report) /\ Len(reports) \in Nat
      /\ \A n \in 1 .. Len(reports) : reports[n].agent \in 1 .. trained
      /\ chosen \in Nat /\ (place # "out" => chosen = 0)
      /\ calls = 1 /\ place # "out" =>
           /\ Len(reports) = IF place = "validated" THEN trained - 1 ELSE trained
           /\ \A n \in 1 .. Len(reports) : reports[n].agent = n /\ reports[n].score = validations[n]
  BY DEF ReportInv
<1>3. CASE CallFit
  <2>1. /\ reports' = <<>> /\ chosen' = 0 /\ place = "out" /\ place' = "batches" /\ calls' = calls + 1
        /\ trained' = trained /\ validations' = validations
    BY <1>3 DEF CallFit
  <2>2. reports' \in Seq(Report) /\ Len(reports') = 0
    BY <2>1
  <2>3. calls' = 1 => trained' = 0
    BY <1>1, <2>1
  <2>4. QED
    BY <2>1, <2>2, <2>3 DEF ReportInv
<1>4. CASE Batch
  <2>1. UNCHANGED <<reports, chosen, place, calls, trained, validations>>
    BY <1>4 DEF Batch
  <2>2. QED
    BY <2>1 DEF ReportInv
<1>5. CASE FitFails
  <2>1. UNCHANGED <<reports, chosen, calls, trained, validations>> /\ place' = "out" /\ place # "out"
    BY <1>5 DEF FitFails
  <2>2. QED
    BY <1>2, <2>1 DEF ReportInv
<1>6. CASE EpochDone
  <2> DEFINE r == [agent |-> trained, score |-> Last(validations)]
             rs == Append(reports, r)
  <2>1. /\ place = "validated" /\ reports' = rs
        /\ UNCHANGED <<calls, trained, validations>>
        /\ \/ place' = "out" /\ chosen' = Picked(reports')
           \/ place' = "batches" /\ chosen' = chosen
    BY <1>6 DEF EpochDone
  <2>2. Last(validations) = validations[trained] /\ trained \in 1 .. Len(validations) /\ Last(validations) \in Scores
    BY <1>1, <2>1 DEF Last
  <2>3. r \in Report /\ r.agent = trained /\ r.score = validations[trained]
    BY <1>1, <2>2 DEF Report
  <2> HIDE DEF r
  <2>4. /\ rs \in Seq(Report) /\ Len(rs) = Len(reports) + 1 /\ rs[Len(reports) + 1] = r
        /\ \A n \in 1 .. Len(reports) : rs[n] = reports[n]
    BY <1>2, <2>3
  <2> HIDE DEF rs
  <2>5. \A n \in 1 .. Len(rs) : n \in 1 .. Len(reports) \/ n = Len(reports) + 1
    BY <1>2, <2>4
  <2>6. \A n \in 1 .. Len(rs) : rs[n].agent \in 1 .. trained
    BY <1>1, <1>2, <2>2, <2>3, <2>4, <2>5
  <2>7. calls = 1 => /\ Len(rs) = trained
                     /\ \A n \in 1 .. Len(rs) : rs[n].agent = n /\ rs[n].score = validations[n]
    <3> SUFFICES ASSUME calls = 1 PROVE /\ Len(rs) = trained
                                        /\ \A n \in 1 .. Len(rs) : rs[n].agent = n /\ rs[n].score = validations[n]
      OBVIOUS
    <3>1. /\ Len(reports) = trained - 1
          /\ \A n \in 1 .. Len(reports) : reports[n].agent = n /\ reports[n].score = validations[n]
      BY <1>2, <2>1
    <3>2. Len(rs) = trained
      BY <1>1, <2>4, <3>1
    <3>3. ASSUME NEW n \in 1 .. Len(rs) PROVE rs[n].agent = n /\ rs[n].score = validations[n]
      <4>1. CASE n \in 1 .. Len(reports)
        BY <2>4, <3>1, <4>1
      <4>2. CASE n = Len(reports) + 1
        <5>1. n = trained /\ rs[n] = r
          BY <1>1, <2>4, <3>1, <4>2
        <5>2. QED
          BY <2>3, <5>1
      <4>3. QED
        BY <2>5, <4>1, <4>2
    <3>4. QED
      BY <3>2, <3>3
  <2>8. CASE place' = "batches"
    <3>1. chosen' = 0 /\ reports' = rs /\ UNCHANGED <<calls, trained, validations>>
      BY <1>2, <2>1, <2>8
    <3>2. QED
      BY <2>4, <2>6, <2>7, <2>8, <3>1 DEF ReportInv
  <2>9. CASE place' = "out"
    <3>1. chosen' = Picked(rs) /\ reports' = rs /\ UNCHANGED <<calls, trained, validations>>
      BY <2>1, <2>9
    <3>2. rs # <<>>
      BY <1>2, <2>4
    <3>3. PICK n \in 1 .. Len(rs) : /\ Picked(rs) = rs[n].agent
                                    /\ \A m \in 1 .. Len(rs) : Score(rs[n]) <= Score(rs[m])
                                    /\ \A m \in 1 .. n - 1 : Score(rs[n]) < Score(rs[m])
      BY <2>4, <3>2, PickedIs
    <3>4. chosen' \in 1 .. trained
      BY <2>6, <3>1, <3>3
    <3>5. ASSUME calls = 1, validations[chosen'] # NaN PROVE FirstLeast(validations, chosen')
      <4>1. chosen' = n /\ n \in 1 .. Len(validations) /\ Len(rs) = Len(validations)
        BY <1>1, <2>7, <3>1, <3>3, <3>5
      <4>2. \A m \in 1 .. Len(validations) :
              Score(rs[m]) = IF validations[m] = NaN THEN Infinite ELSE validations[m]
        BY <2>7, <3>5, <4>1 DEF Score
      <4>3. Score(rs[n]) = validations[n]
        BY <3>5, <4>1, <4>2
      <4>4. \A m \in 1 .. Len(validations) : validations[m] # NaN => validations[n] <= validations[m]
        BY <3>3, <4>1, <4>2, <4>3
      <4>5. \A m \in 1 .. n - 1 : validations[m] # validations[n]
        <5> SUFFICES ASSUME NEW m \in 1 .. n - 1, validations[m] = validations[n] PROVE FALSE
          OBVIOUS
        <5>1. m \in 1 .. Len(validations) /\ validations[m] # NaN
          BY <3>5, <4>1
        <5>2. Score(rs[m]) = validations[n] /\ Score(rs[n]) < Score(rs[m])
          BY <3>3, <4>2, <5>1
        <5>3. validations[n] \in Nat
          <6>1. validations[n] \in Scores
            BY <1>1, <4>1
          <6>2. QED
            BY <6>1, ScoreRange
        <5>4. QED
          BY <4>3, <5>2, <5>3
      <4>6. validations[n] = MinOf(Numbers(validations))
        <5> DEFINE least == MinOf(Numbers(validations))
        <5>1. Numbers(validations) \in Seq(Proper) /\ ToSet(Numbers(validations)) = ToSet(validations) \cap Proper
          BY <1>1, NumbersAre, AmongSound DEF Numbers, Proper
        <5>2. least \in Nat /\ least <= validations[n] /\ validations[n] < Infinite
          BY <1>1, <3>5, <4>1, LeastOf
        <5>3. Numbers(validations) # <<>>
          <6>1. Numbers(validations) = <<>> => least = Infinite
            BY <5>1, MinOfIs
          <6>2. validations[n] \in Scores
            BY <1>1, <4>1
          <6> HIDE DEF least
          <6>3. validations[n] \in Nat /\ Infinite \in Nat
            BY <6>2, ScoreRange
          <6>4. QED
            BY <5>2, <6>1, <6>3
        <5>4. PICK i \in 1 .. Len(Numbers(validations)) : least = Numbers(validations)[i]
          BY <5>1, <5>3, MinOfIs
        <5>5. least \in ToSet(validations) /\ least \in Proper
          BY <5>1, <5>4 DEF ToSet
        <5>6. PICK m \in 1 .. Len(validations) : validations[m] = least
          BY <1>1, <5>5 DEF ToSet
        <5>7. validations[n] <= least
          BY <4>4, <5>5, <5>6 DEF Proper
        <5>8. validations[n] \in Scores
          BY <1>1, <4>1
        <5> HIDE DEF least
        <5>9. validations[n] \in Nat
          BY <5>8, ScoreRange
        <5>10. QED
          BY <5>2, <5>7, <5>9 DEF least
      <4>7. QED
        BY <4>1, <4>5, <4>6 DEF FirstLeast
    <3>6. chosen' \in Nat
      BY <1>1, <3>4
    <3>7. QED
      BY <2>4, <2>6, <2>9, <3>1, <3>4, <3>5, <3>6 DEF ReportInv
  <2>10. QED
    BY <2>1, <2>8, <2>9
<1>7. ASSUME NEW score \in Scores, NEW fails \in BOOLEAN, Validate(score, fails) PROVE ReportInv'
  <2>1. /\ place = "batches" /\ trained' = trained + 1 /\ validations' = Append(validations, score)
        /\ UNCHANGED <<calls, reports, chosen>> /\ place' \in {"out", "validated"}
    BY <1>7 DEF Validate
  <2>2. chosen' = 0
    BY <1>2, <2>1
  <2>3. \A n \in 1 .. trained : validations'[n] = validations[n]
    BY <1>1, <2>1
  <2>4. \A n \in 1 .. Len(reports) : reports[n].agent \in 1 .. trained + 1
    BY <1>1, <1>2
  <2>5. calls = 1 => /\ Len(reports) = trained
                     /\ \A n \in 1 .. Len(reports) : reports[n].agent = n /\ reports[n].score = validations'[n]
    BY <1>2, <2>1, <2>3
  <2>6. (trained + 1) - 1 = trained
    BY <1>1
  <2>7. QED
    BY <1>2, <2>1, <2>2, <2>4, <2>5, <2>6 DEF ReportInv
<1>8. CASE UNCHANGED fitsvars
  <2>1. UNCHANGED <<reports, chosen, place, calls, trained, validations>>
    BY <1>8 DEF fitsvars
  <2>2. QED
    BY <2>1 DEF ReportInv
<1>9. QED
  BY <1>3, <1>4, <1>5, <1>6, <1>7, <1>8 DEF FitsNext

-----------------------------------------------------------------------------
(* The samples *)

\* The loader's batch: what of the order comes next, a batch of it at most.
LEMMA ChunkIs ==
  ASSUME perm \in Seq(1 .. Dataset), cursor \in 0 .. Len(perm)
  PROVE  /\ Chunk \in Seq(1 .. Dataset)
         /\ Len(Chunk) = IF cursor + LoaderSize > Len(perm) THEN Len(perm) - cursor ELSE LoaderSize
         /\ \A i \in 1 .. Len(Chunk) : Chunk[i] = perm[cursor + i]
         /\ Chunk = <<>> <=> cursor = Len(perm)
<1> DEFINE last == IF cursor + LoaderSize > Len(perm) THEN Len(perm) ELSE cursor + LoaderSize
<1>1. /\ Len(perm) \in Nat /\ cursor \in Nat /\ LoaderSize \in Nat /\ LoaderSize > 0 /\ cursor <= Len(perm)
      /\ \A i \in 1 .. Len(perm) : perm[i] \in 1 .. Dataset
  BY FitsAssumption
<1>2. last \in Nat /\ cursor <= last /\ last <= Len(perm)
  BY <1>1
<1>3. Chunk = SubSeq(perm, cursor + 1, last)
  BY DEF Chunk
<1> HIDE DEF last
<1>4. \A i \in cursor + 1 .. last : perm[i] \in 1 .. Dataset
  BY <1>1, <1>2
<1>5. /\ Chunk \in Seq(1 .. Dataset)
      /\ Len(Chunk) = IF cursor + 1 <= last THEN last - (cursor + 1) + 1 ELSE 0
      /\ \A i \in 1 .. last - (cursor + 1) + 1 : Chunk[i] = perm[cursor + 1 + i - 1]
  <2>1. cursor + 1 \in Int /\ last \in Int
    BY <1>1, <1>2
  <2>2. QED
    BY <1>3, <1>4, <2>1, SubSeqProperties
<1>6. Len(Chunk) = last - cursor
  BY <1>1, <1>2, <1>5
<1>7. \A i \in 1 .. Len(Chunk) : Chunk[i] = perm[cursor + i]
  <2> SUFFICES ASSUME NEW i \in 1 .. Len(Chunk) PROVE Chunk[i] = perm[cursor + i]
    OBVIOUS
  <2>1. i \in 1 .. last - (cursor + 1) + 1 /\ cursor + 1 + i - 1 = cursor + i
    BY <1>1, <1>2, <1>6
  <2>2. QED
    BY <1>5, <2>1
<1>8. Chunk = <<>> <=> last = cursor
  BY <1>1, <1>2, <1>5, <1>6
<1>9. QED
  BY <1>1, <1>5, <1>6, <1>7, <1>8 DEF last

\* Whole batches that leave less than one of them leave the rest of a division.
LEMMA WholeBatches ==
  ASSUME NEW q \in Nat, NEW n \in Nat, n >= Dataset - (Dataset % LoaderSize), n - q * LoaderSize < LoaderSize
  PROVE  q * LoaderSize >= Dataset - (Dataset % LoaderSize)
<1> DEFINE L == LoaderSize
           k == Dataset \div L
<1>1. Dataset \in Nat /\ L \in Nat /\ L > 0
  BY FitsAssumption
<1>2. k \in Nat /\ Dataset - (Dataset % L) = k * L
  BY <1>1
<1> HIDE DEF k, L
<1>3. q * L > k * L - L
  <2>1. q * L \in Nat /\ k * L \in Nat
    BY <1>1, <1>2
  <2>2. n >= k * L /\ n - q * L < L
    BY <1>2 DEF L
  <2>3. QED
    BY <1>1, <2>1, <2>2
<1>4. q >= k
  <2>1. SUFFICES ASSUME q < k PROVE FALSE
    BY <1>2
  <2>2. PICK d \in Nat : k = q + 1 + d
    <3>1. k - q - 1 \in Nat /\ k = q + 1 + (k - q - 1)
      BY <1>2, <2>1
    <3>2. QED
      BY <3>1
  <2>3. k * L = q * L + L + d * L
    BY <1>1, <2>2
  <2>4. d * L \in Nat /\ q * L \in Nat
    BY <1>1
  <2>5. QED
    BY <1>1, <1>3, <2>3, <2>4
<1>5. PICK d \in Nat : q = k + d
  <2>1. q - k \in Nat /\ q = k + (q - k)
    BY <1>2, <1>4
  <2>2. QED
    BY <2>1
<1>6. q * L = k * L + d * L /\ d * L \in Nat /\ k * L \in Nat
  BY <1>1, <1>2, <1>5
<1>7. QED
  <2>1. q * L >= k * L
    BY <1>6
  <2>2. QED
    BY <1>2, <2>1 DEF L

\* What Curriculum sorts stays the same samples.
LEMMA HardFirstIs ==
  ASSUME severity \in Seq(Visit), NEW order \in Seq(1 .. Dataset), IsInjective(order),
         Len(severity) <= Len(order), \A n \in 1 .. Len(severity) : severity[n].index = order[n]
  PROVE  /\ Indices(HardFirst) \in Seq(1 .. Dataset)
         /\ IsInjective(Indices(HardFirst))
         /\ Len(Indices(HardFirst)) = Len(severity)
<1> DEFINE hard == Among(severity, OfSeverity(1))
           easy == Among(severity, OfSeverity(0))
<1>1. Len(severity) \in Nat /\ Len(order) \in Nat /\ \A n \in 1 .. Len(severity) : severity[n] \in Visit
  OBVIOUS
<1>2. \A x \in Visit : x.index \in 1 .. Dataset /\ (x \in OfSeverity(1) <=> x.by = 1) /\ (x \in OfSeverity(0) <=> x.by = 0)
                        /\ x.by \in {0, 1}
  BY DEF Visit, OfSeverity
<1>3. \A n, m \in 1 .. Len(severity) : severity[n].index = severity[m].index => n = m
  BY <1>1 DEF IsInjective
<1>4. \A x, y \in ToSet(severity) : x.index = y.index => x = y
  BY <1>3 DEF ToSet
<1>5. IsInjective(severity)
  BY <1>3 DEF IsInjective
<1>6. /\ hard \in Seq(Visit) /\ ToSet(hard) = ToSet(severity) \cap OfSeverity(1) /\ IsInjective(hard)
      /\ easy \in Seq(Visit) /\ ToSet(easy) = ToSet(severity) \cap OfSeverity(0) /\ IsInjective(easy)
  BY <1>5, AmongSound
<1>7. Len(hard) + Len(easy) = Len(severity)
  <2>1. ToSet(severity) \subseteq Visit
    BY ToSetWithin
  <2>2. ToSet(severity) \subseteq OfSeverity(1) \cup OfSeverity(0)
    BY <1>2, <2>1
  <2>3. OfSeverity(1) \cap OfSeverity(0) = {}
    BY DEF OfSeverity
  <2>4. QED
    BY <2>2, <2>3, AmongParts
<1> HIDE DEF hard, easy
<1>8. HardFirst = hard \o easy
  BY DEF HardFirst, hard, easy
<1> DEFINE s == hard \o easy
<1>9. /\ s \in Seq(Visit) /\ Len(s) = Len(severity) /\ Len(hard) \in Nat /\ Len(easy) \in Nat
      /\ \A i \in 1 .. Len(hard) : s[i] = hard[i]
      /\ \A i \in Len(hard) + 1 .. Len(s) : s[i] = easy[i - Len(hard)]
  BY <1>6, <1>7
<1>10. ToSet(hard) \cap ToSet(easy) = {}
  BY <1>6 DEF OfSeverity
<1> HIDE DEF s
<1>11. IsInjective(s)
  <2>0. DOMAIN s = 1 .. Len(s)
    BY <1>9
  <2> SUFFICES ASSUME NEW i \in 1 .. Len(s), NEW j \in 1 .. Len(s), s[i] = s[j] PROVE i = j
    BY <2>0, Zenon DEF IsInjective
  <2> DEFINE H == 1 .. Len(hard)
  <2>1. \A n \in 1 .. Len(s) : n \in H \/ (n \in Len(hard) + 1 .. Len(s) /\ n - Len(hard) \in 1 .. Len(easy))
    BY <1>7, <1>9
  <2>2. (\A n \in H : hard[n] \in ToSet(hard)) /\ (\A n \in 1 .. Len(easy) : easy[n] \in ToSet(easy))
    BY <1>6 DEF ToSet
  <2>3. CASE i \in H /\ j \in H
    BY <1>6, <1>9, <2>3 DEF IsInjective
  <2>4. CASE i \notin H /\ j \notin H
    <3>1. easy[i - Len(hard)] = easy[j - Len(hard)] /\ i - Len(hard) \in 1 .. Len(easy) /\ j - Len(hard) \in 1 .. Len(easy)
      BY <1>9, <2>1, <2>4
    <3>2. i - Len(hard) = j - Len(hard)
      BY <1>6, <3>1 DEF IsInjective
    <3>3. QED
      BY <1>9, <3>2
  <2>5. CASE i \in H /\ j \notin H
    BY <1>9, <1>10, <2>1, <2>2, <2>5
  <2>6. CASE i \notin H /\ j \in H
    BY <1>9, <1>10, <2>1, <2>2, <2>6
  <2>7. QED
    BY <2>3, <2>4, <2>5, <2>6
<1>12. ToSet(s) \subseteq ToSet(severity)
  BY <1>6, ToSetConcat DEF s
<1> DEFINE t == Indices(s)
<1>13. t = [n \in 1 .. Len(s) |-> s[n].index]
  BY <1>9 DEF Indices
<1>14. \A n \in 1 .. Len(s) : s[n].index \in 1 .. Dataset
  BY <1>2, <1>9
<1>15. t \in Seq(1 .. Dataset) /\ Len(t) = Len(s) /\ \A n \in 1 .. Len(s) : t[n] = s[n].index
  <2> DEFINE n == Len(s)
             D == 1 .. Dataset
  <2>1. t \in [1 .. n -> D] /\ n \in Nat
    BY <1>9, <1>13, <1>14
  <2> HIDE DEF t, n, D
  <2>2. t \in Seq(D) /\ Len(t) = n
    BY <2>1
  <2>3. QED
    BY <1>13, <2>2 DEF n, D
<1>16. IsInjective(t)
  <2> HIDE DEF t
  <2> SUFFICES ASSUME NEW i \in 1 .. Len(t), NEW j \in 1 .. Len(t), t[i] = t[j] PROVE i = j
    BY <1>15 DEF IsInjective
  <2>1. s[i] \in ToSet(severity) /\ s[j] \in ToSet(severity)
    <3>1. s[i] \in ToSet(s) /\ s[j] \in ToSet(s)
      BY <1>9, <1>15 DEF ToSet
    <3>2. QED
      BY <1>12, <3>1
  <2>2. s[i] = s[j]
    BY <1>4, <1>15, <2>1
  <2>3. QED
    BY <1>9, <1>11, <1>15, <2>2 DEF IsInjective
<1>17. QED
  BY <1>8, <1>9, <1>15, <1>16 DEF s

LEMMA NextSamples == FitsType /\ SamplesInv /\ [FitsNext]_fitsvars => SamplesInv'
<1> SUFFICES ASSUME FitsType, SamplesInv, [FitsNext]_fitsvars PROVE SamplesInv'
  OBVIOUS
<1>1. /\ perm \in Seq(1 .. Dataset) /\ CurriculumKeepsSamples /\ cursor \in 0 .. Len(perm)
      /\ place # "out" =>
           /\ severity \in Seq(Visit) /\ Len(severity) = cursor
           /\ \A n \in 1 .. cursor : severity[n].index = perm[n]
           /\ drop => \E q \in Nat : cursor = q * LoaderSize
      /\ place = "validated" => IF drop THEN Len(perm) - cursor < LoaderSize ELSE cursor = Len(perm)
      /\ Len(perm) \in Nat /\ cursor \in Nat
  BY DEF SamplesInv
<1>2. LoaderSize \in Nat /\ LoaderSize > 0 /\ Dataset \in Nat /\ drop \in BOOLEAN
  BY FitsAssumption DEF FitsType
<1>3. /\ Chunk \in Seq(1 .. Dataset)
      /\ Len(Chunk) = IF cursor + LoaderSize > Len(perm) THEN Len(perm) - cursor ELSE LoaderSize
      /\ \A i \in 1 .. Len(Chunk) : Chunk[i] = perm[cursor + i]
      /\ Chunk = <<>> <=> cursor = Len(perm)
  BY <1>1, ChunkIs
<1>4. ASSUME drop' = drop, perm' = perm PROVE CurriculumKeepsSamples'
  BY <1>1, <1>4 DEF CurriculumKeepsSamples
<1>5. CASE CallFit
  <2>1. UNCHANGED <<drop, perm>> /\ place' = "batches" /\ cursor' = 0 /\ severity' = <<>>
    BY <1>5 DEF CallFit
  <2>2. <<>> \in Seq(Visit) /\ Len(<<>>) = 0 /\ 0 = 0 * LoaderSize
    BY <1>2
  <2>3. severity' \in Seq(Visit) /\ Len(severity') = cursor'
    BY <2>1, <2>2, Zenon
  <2>4. \E q \in Nat : cursor' = q * LoaderSize
    BY <2>1, <2>2
  <2>5. cursor' \in 0 .. Len(perm') /\ \A n \in 1 .. cursor' : FALSE
    BY <1>1, <2>1
  <2>6. QED
    BY <1>1, <1>4, <2>1, <2>3, <2>4, <2>5 DEF SamplesInv
<1>6. CASE Batch
  <2>1. /\ place = "batches" /\ UNCHANGED <<drop, perm, place>> /\ cursor' = cursor + Len(Chunk)
        /\ ~(drop /\ Len(Chunk) < LoaderSize)
    BY <1>6 DEF Batch, Exhausted
  <2>2. PICK how \in [DOMAIN Chunk -> {0, 1}] :
          severity' = severity \o [n \in DOMAIN Chunk |-> [index |-> Chunk[n], by |-> how[n]]]
    BY <1>6 DEF Batch
  <2> DEFINE N == Len(Chunk)
             new == [n \in 1 .. N |-> [index |-> Chunk[n], by |-> how[n]]]
  <2>3. N \in Nat /\ DOMAIN Chunk = 1 .. N /\ cursor + N <= Len(perm)
    BY <1>1, <1>2, <1>3
  <2>4. new \in Seq(Visit) /\ Len(new) = N /\ \A n \in 1 .. N : new[n].index = perm[cursor + n]
    <3>1. \A n \in 1 .. N : /\ new[n] = [index |-> Chunk[n], by |-> how[n]]
                            /\ Chunk[n] \in 1 .. Dataset /\ how[n] \in {0, 1} /\ Chunk[n] = perm[cursor + n]
      <4>1. \A n \in 1 .. N : Chunk[n] \in 1 .. Dataset /\ Chunk[n] = perm[cursor + n]
        <5>1. Chunk \in Seq(1 .. Dataset)
          BY <1>3
        <5>2. \A n \in 1 .. Len(Chunk) : Chunk[n] \in 1 .. Dataset
          BY <5>1, ElementOfSeq
        <5>3. \A n \in 1 .. Len(Chunk) : Chunk[n] = perm[cursor + n]
          BY <1>3
        <5>4. QED
          BY <5>2, <5>3
      <4>2. \A n \in 1 .. N : how[n] \in {0, 1}
        BY <2>3
      <4>3. QED
        BY <4>1, <4>2
    <3>2. \A n \in 1 .. N : new[n] \in Visit /\ new[n].index = perm[cursor + n]
      BY <3>1 DEF Visit
    <3>3. new = [n \in 1 .. N |-> new[n]]
      OBVIOUS
    <3> HIDE DEF new, N
    <3>4. new \in [1 .. N -> Visit]
      BY <3>2, <3>3
    <3>5. new \in Seq(Visit) /\ Len(new) = N
      BY <2>3, <3>4
    <3>6. QED
      BY <3>2, <3>5
  <2>5. severity' = severity \o new
    BY <2>2, <2>3
  <2> HIDE DEF new
  <2>6. severity \in Seq(Visit) /\ Len(severity) = cursor /\ \A n \in 1 .. cursor : severity[n].index = perm[n]
    BY <1>1, <2>1
  <2>7. /\ severity' \in Seq(Visit) /\ Len(severity') = cursor + N
        /\ \A n \in 1 .. cursor : severity'[n] = severity[n]
        /\ \A n \in 1 .. N : severity'[cursor + n] = new[n]
    <3> DEFINE old == severity
               all == old \o new
    <3>1. old \in Seq(Visit) /\ Len(old) = cursor /\ new \in Seq(Visit) /\ Len(new) = N
      BY <2>4, <2>6
    <3> HIDE DEF old, N
    <3>2. /\ all \in Seq(Visit) /\ Len(all) = Len(old) + Len(new)
          /\ \A n \in 1 .. Len(old) : all[n] = old[n]
          /\ \A n \in 1 .. Len(new) : all[Len(old) + n] = new[n]
      BY <3>1
    <3>3. severity' = all
      BY <2>5 DEF old
    <3> HIDE DEF all
    <3>4. QED
      BY <3>1, <3>2, <3>3 DEF old
  <2>8. ASSUME NEW n \in 1 .. cursor + N PROVE severity'[n].index = perm[n]
    <3>1. CASE n \in 1 .. cursor
      BY <2>6, <2>7, <3>1
    <3>2. CASE n \notin 1 .. cursor
      <4>1. n - cursor \in 1 .. N /\ n = cursor + (n - cursor)
        BY <1>1, <2>3, <3>2
      <4>2. severity'[n] = new[n - cursor] /\ new[n - cursor].index = perm[n]
        BY <2>4, <2>7, <4>1
      <4>3. QED
        BY <4>2
    <3>3. QED
      BY <3>1, <3>2
  <2>9. ASSUME drop PROVE \E q \in Nat : cursor + N = q * LoaderSize
    <3>1. PICK q \in Nat : cursor = q * LoaderSize
      BY <1>1, <2>1, <2>9
    <3>2. N = LoaderSize
      BY <1>1, <1>2, <1>3, <2>1, <2>3, <2>9
    <3>3. cursor + N = (q + 1) * LoaderSize
      BY <1>2, <3>1, <3>2
    <3>4. QED
      BY <3>3
  <2>10. cursor + N \in 0 .. Len(perm)
    BY <1>1, <2>3
  <2>11. QED
    BY <1>1, <1>4, <2>1, <2>7, <2>8, <2>9, <2>10 DEF SamplesInv
<1>7. CASE FitFails
  <2>1. UNCHANGED <<drop, perm, cursor>> /\ place' = "out"
    BY <1>7 DEF FitFails
  <2>2. QED
    BY <1>1, <1>4, <2>1 DEF SamplesInv
<1>8. CASE EpochDone
  <2>1. /\ place = "validated" /\ drop' = drop /\ cursor' = 0 /\ severity' = <<>> /\ place' \in {"out", "batches"}
        /\ perm' = IF severity = <<>> THEN perm ELSE Indices(HardFirst)
    BY <1>8 DEF EpochDone
  <2>2. perm' \in Seq(1 .. Dataset) /\ CurriculumKeepsSamples' /\ Len(perm') \in Nat
    <3>1. CASE severity = <<>>
      BY <1>1, <1>4, <2>1, <3>1
    <3>2. CASE severity # <<>>
      <4>1. perm' = Indices(HardFirst)
        BY <2>1, <3>2
      <4>2. /\ severity \in Seq(Visit) /\ Len(severity) = cursor /\ cursor <= Len(perm)
            /\ \A n \in 1 .. Len(severity) : severity[n].index = perm[n]
        BY <1>1, <2>1
      <4>3. IsInjective(perm) /\ Len(perm) >= IF drop THEN Dataset - (Dataset % LoaderSize) ELSE Dataset
        BY <1>1 DEF CurriculumKeepsSamples
      <4>4. perm' \in Seq(1 .. Dataset) /\ IsInjective(perm') /\ Len(perm') = cursor
        BY <1>1, <4>1, <4>2, <4>3, HardFirstIs
      <4>5. cursor >= IF drop THEN Dataset - (Dataset % LoaderSize) ELSE Dataset
        <5>1. CASE ~drop
          BY <1>1, <2>1, <4>3, <5>1
        <5>2. CASE drop
          <6>1. PICK q \in Nat : cursor = q * LoaderSize
            BY <1>1, <2>1, <5>2
          <6>2. Len(perm) - q * LoaderSize < LoaderSize
            BY <1>1, <2>1, <5>2, <6>1
          <6>3. Len(perm) >= Dataset - (Dataset % LoaderSize)
            BY <4>3, <5>2
          <6>4. q * LoaderSize >= Dataset - (Dataset % LoaderSize)
            BY <1>1, <6>2, <6>3, WholeBatches
          <6>5. QED
            BY <5>2, <6>1, <6>4
        <5>3. QED
          BY <5>1, <5>2
      <4>6. ToSet(perm') \subseteq 1 .. Dataset
        BY <4>4, ToSetWithin
      <4>7. CurriculumKeepsSamples'
        BY <2>1, <4>4, <4>5, <4>6 DEF CurriculumKeepsSamples
      <4>8. QED
        BY <1>1, <4>4, <4>7
    <3>3. QED
      BY <3>1, <3>2
  <2>3. <<>> \in Seq(Visit) /\ Len(<<>>) = 0 /\ 0 = 0 * LoaderSize
    BY <1>2
  <2>4. severity' \in Seq(Visit) /\ Len(severity') = cursor'
    BY <2>1, <2>3, Zenon
  <2>5. \E q \in Nat : cursor' = q * LoaderSize
    BY <2>1, <2>3
  <2>6. cursor' \in 0 .. Len(perm') /\ \A n \in 1 .. cursor' : FALSE
    BY <2>1, <2>2
  <2>7. place' # "validated"
    BY <2>1
  <2>8. QED
    BY <2>2, <2>4, <2>5, <2>6, <2>7 DEF SamplesInv
<1>9. ASSUME NEW score \in Scores, NEW fails \in BOOLEAN, Validate(score, fails) PROVE SamplesInv'
  <2>1. /\ place = "batches" /\ UNCHANGED <<drop, perm, cursor, severity>>
        /\ Chunk = <<>> \/ (drop /\ Len(Chunk) < LoaderSize)
    BY <1>9 DEF Validate, Exhausted
  <2>2. IF drop THEN Len(perm) - cursor < LoaderSize ELSE cursor = Len(perm)
    BY <1>1, <1>2, <1>3, <2>1
  <2>3. QED
    BY <1>1, <1>4, <2>1, <2>2 DEF SamplesInv
<1>10. CASE UNCHANGED fitsvars
  <2>1. UNCHANGED <<drop, perm, cursor, severity, place>>
    BY <1>10 DEF fitsvars
  <2>2. QED
    BY <1>1, <1>4, <2>1 DEF SamplesInv
<1>11. QED
  BY <1>5, <1>6, <1>7, <1>8, <1>9, <1>10 DEF FitsNext

LEMMA FitsInvSound == FitsInv => CallbacksSound
<1> SUFFICES ASSUME FitsInv PROVE CallbacksSound
  OBVIOUS
<1>1. FitsType /\ StopInv /\ BestInv /\ ReportInv /\ SamplesInv
  BY DEF FitsInv
<1>2. /\ es \in Seq(Stopper) /\ attached \in Seq(1 .. Len(es))
      /\ \A k \in 1 .. Len(es) : Counts(es[k]) /\ es[k] \in Stopper
  BY <1>1 DEF StopInv
<1>3. \A n \in 1 .. Len(attached) : attached[n] \in 1 .. Len(es)
  BY <1>2
<1>4. Monitored => \A n \in 1 .. Len(attached) :
        Stagnant(Numbers(es[attached[n]].told)) <=> AtLimit(es[attached[n]])
  <2> SUFFICES ASSUME Monitored, NEW n \in 1 .. Len(attached)
               PROVE  Stagnant(Numbers(es[attached[n]].told)) <=> AtLimit(es[attached[n]])
    OBVIOUS
  <2>1. es[attached[n]] \in Stopper /\ Counts(es[attached[n]])
    BY <1>2, <1>3
  <2>2. QED
    BY <2>1, StagnantIs DEF AtLimit
<1>5. StopIsDeserved
  <2> SUFFICES ASSUME place = "validated", stopping, Len(attached) = 1
               PROVE  Stagnant(Numbers(es[attached[1]].told))
    BY DEF StopIsDeserved
  <2>1. Monitored /\ AtLimit(es[attached[1]])
    BY <1>1 DEF StopInv
  <2>2. QED
    BY <1>4, <2>1
<1>6. PatienceEnds
  <2> SUFFICES ASSUME Monitored, place = "validated", Last(validations) # NaN, NEW k \in ToSet(attached),
                      Stagnant(Numbers(es[k].told))
               PROVE  stopping
    BY DEF PatienceEnds
  <2>1. PICK n \in 1 .. Len(attached) : attached[n] = k
    BY <1>2 DEF ToSet
  <2>2. AtLimit(es[attached[n]])
    BY <1>4, <2>1
  <2>3. QED
    BY <1>1, <2>2 DEF StopInv
<1>7. validations \in Seq(Scores)
  BY <1>1 DEF FitsType
<1>8. CheckpointIsBest
  <2> SUFFICES ASSUME Monitored, ~failedSave PROVE CheckpointIsBest
    BY DEF CheckpointIsBest
  <2>1. /\ kept.score = MinOf(Numbers(validations))
        /\ MinOf(Numbers(validations)) # Infinite => FirstLeast(validations, kept.agent)
    BY <1>1 DEF BestInv
  <2>2. QED
    BY <2>1 DEF CheckpointIsBest, FirstLeast
<1>9. ReportAgrees
  <2> SUFFICES ASSUME Monitored, chosen # 0, ~failedSave, validations[chosen] # NaN
               PROVE  kept.score <= validations[chosen] /\ (calls = 1 => kept.agent = chosen)
    BY DEF ReportAgrees
  <2>1. /\ kept.score = MinOf(Numbers(validations)) /\ best = MinOf(Numbers(validations))
        /\ best # Infinite => FirstLeast(validations, kept.agent)
    BY <1>1 DEF BestInv
  <2>2. chosen \in 1 .. Len(validations) /\ (calls = 1 => FirstLeast(validations, chosen))
    BY <1>1 DEF ReportInv, FitsType
  <2>3. MinOf(Numbers(validations)) <= validations[chosen] /\ validations[chosen] < Infinite
        /\ MinOf(Numbers(validations)) \in Nat
    BY <1>7, <2>2, LeastOf
  <2>4. validations[chosen] \in Nat /\ Infinite \in Nat
    <3>1. validations[chosen] \in Scores
      BY <1>7, <2>2
    <3>2. QED
      BY <3>1, ScoreRange
  <2>5. best # Infinite
    BY <2>1, <2>3, <2>4
  <2>6. calls = 1 => kept.agent = chosen
    BY <1>7, <2>1, <2>2, <2>5, FirstLeastOnce
  <2>7. QED
    BY <2>1, <2>3, <2>6
<1>10. QED
  BY <1>1, <1>5, <1>6, <1>8, <1>9 DEF CallbacksSound, SamplesInv

\* Stopping, checkpoint, report and curriculum agree with the validations, for any
\* data, scores, patience and number of fits: EarlyStopping, BestCheckpoint and
\* Curriculum of train/callbacks over calls of Trainer.fit.
THEOREM CallbacksAlwaysSound == FitsSpec => []CallbacksSound
<1>1. FitsInit => FitsInv
  BY FitsInitially
<1>2. FitsInv /\ [FitsNext]_fitsvars => FitsInv'
  BY NextFitsType, NextStop, NextBest, NextReport, NextSamples DEF FitsInv
<1>3. QED
  BY <1>1, <1>2, FitsInvSound, PTL DEF FitsSpec

=============================================================================
