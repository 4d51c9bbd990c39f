------------------------- MODULE WorkflowRunnerProofs -------------------------
(***************************************************************************)
(* What the stream and the manifest of a run say is true of its tree, and  *)
(* what a completed run leaves may be relied on, for every workflow and    *)
(* any number of runs, kills, interrupts, errors, edits and damaged files. *)
(*                                                                         *)
(* A run publishes and retires at its own turn of a step only, so what it  *)
(* remembers of the steps behind it stays true until another run has told  *)
(* its first line; by then the stream no longer ends in the terminal line  *)
(* that makes a reader trust the manifest.                                 *)
(***************************************************************************)
EXTENDS WorkflowRunner, ScheduleProofs

\* Where a step is in the middle of its turn, and where the loop is over.
InTurn == {"tell_skip", "retire", "decide", "tell_reuse", "attempt", "published",
           "commit", "complete", "warn"}
Ending == {"finally", "rename", "terminal"}

Lines == [seq: Int, run: Nat, event: Events, step: Steps \cup {"none"},
          word: Words \cup {"none"}]

ContentOver(D, E) == [identity: Int, data: D, evidence: E, intact: BOOLEAN]

-----------------------------------------------------------------------------
(* Types, and what the counters bound.                                     *)

ContentTyped == \E D, E : content \in [Steps -> ContentOver(D, E)]

ProcTyped ==
  /\ pc \in Points /\ pos \in 1..(Length + 1) /\ memory \in [Steps -> Reached]
  /\ failure \in {"none", "exception", "interrupt"} /\ run \in Nat
  /\ pc \in InTurn => pos <= Length

LogTyped == stream \in Seq(Lines) /\ seq \in Int

TreeTyped == live \in [Steps -> SUBSET Nat] /\ past \in [Steps -> SUBSET Nat]

IdentityTyped == identity \in [Steps -> Int]

Typed == ContentTyped /\ ProcTyped /\ LogTyped /\ TreeTyped /\ IdentityTyped

LEMMA OrderFacts ==
  /\ Length \in Nat /\ DOMAIN Order = 1..Length
  /\ \A i \in 1..Length : Order[i] \in Steps
  /\ \A s \in Steps : \E i \in 1..Length : Order[i] = s
  /\ \A i, j \in 1..Length : Order[i] = Order[j] => i = j
<1>1. Order \in Seq(Steps)
  BY OrderAssumption
<1>2. Length \in Nat /\ DOMAIN Order = 1..Length
  BY <1>1, LenProperties DEF Length
<1>3. \A i \in 1..Length : Order[i] \in Steps
  BY <1>1, ElementOfSeq DEF Length
<1> QED
  BY <1>2, <1>3, OrderAssumption

LEMMA StepIsOne ==
  ASSUME ProcTyped, pos <= Length PROVE Step \in Steps
  BY OrderFacts DEF ProcTyped, Step

LEMMA EmitTyped ==
  ASSUME LogTyped, NEW r \in Nat, NEW event \in Events, NEW s \in Steps \cup {"none"},
         NEW word \in Words \cup {"none"}, Emit(r, event, s, word)
  PROVE  LogTyped'
<1> DEFINE line == [seq |-> seq', run |-> r, event |-> event, step |-> s, word |-> word]
<1>1. line \in Lines /\ seq' \in Int /\ stream' = Append(stream, line)
  BY DEF LogTyped, Emit, Lines
<1> HIDE DEF line
<1> QED
  BY <1>1 DEF LogTyped

\* The facts of the line that was told.
LEMMA EmitAppends ==
  ASSUME LogTyped, NEW r, NEW event, NEW s, NEW word, Emit(r, event, s, word)
  PROVE  /\ stream' # <<>> /\ Len(stream) \in Nat
         /\ Len(stream') = Len(stream) + 1
         /\ DOMAIN stream = 1..Len(stream) /\ DOMAIN stream' = 1..Len(stream')
         /\ \A i \in 1..Len(stream) : stream'[i] = stream[i]
         /\ LET last == stream'[Len(stream) + 1]
            IN /\ last.run = r /\ last.event = event /\ last.step = s /\ last.word = word
               /\ last.seq = seq + 1
<1> DEFINE line == [seq |-> seq', run |-> r, event |-> event, step |-> s, word |-> word]
           V == Lines \cup {line}
<1>1. stream \in Seq(V) /\ line \in V
  BY SeqMonotonic DEF LogTyped
<1>2. stream' = Append(stream, line) /\ seq' = seq + 1
  BY DEF Emit
<1>3. line.run = r /\ line.event = event /\ line.step = s /\ line.word = word /\ line.seq = seq'
  OBVIOUS
<1> HIDE DEF line, V
<1>4. /\ Append(stream, line) \in Seq(V) /\ Append(stream, line) # <<>>
      /\ Len(Append(stream, line)) = Len(stream) + 1
      /\ \A i \in 1..Len(stream) : Append(stream, line)[i] = stream[i]
      /\ Append(stream, line)[Len(stream) + 1] = line
  BY <1>1, AppendProperties
<1> QED
  BY <1>1, <1>2, <1>3, <1>4, LenProperties

-----------------------------------------------------------------------------
(* What a step of the runner does to the stream and to the tree.           *)

\* The stream as it was; a cut line only makes it less readable.
StreamKept == stream' = stream /\ torn' \in {torn, TRUE} /\ seq' \in Int
Tells(event) ==
  \E word \in Words \cup {"none"} : Emit(run, event, Step, word)
TreeKept == UNCHANGED treeView

\* The points at which a line about the step is told, and which.
TellsPoint ==
  \/ Tells("phase_started") /\ pc = "turn" /\ pos <= Length
  \/ Tells("phase_completed") /\ pc \in {"tell_skip", "tell_reuse", "complete"}
  \/ Tells("result_committed") /\ pc = "commit"
  \/ Tells("warning") /\ pc = "warn"

LEMMA Segments ==
  ASSUME LogTyped, RunnerNext
  PROVE  \/ StreamKept
         \/ TellsPoint /\ TreeKept /\ UNCHANGED <<manifest, run>> /\ pc' # "idle"
         \/ EndRun /\ failure # "interrupt"
         \/ FreshStream
<1> USE DEF LogTyped, StreamKept, logVars, Words
<1>1. CASE StartRun
  <2>1. Len(stream) \in Int
    BY LenProperties
  <2> QED
    BY <1>1, <2>1 DEF StartRun, OpenLog
<1>2. CASE BeginStep
  <2>1. Tells("phase_started") /\ pc = "turn" /\ pos <= Length
    BY <1>2 DEF BeginStep, Tells
  <2>2. TreeKept /\ UNCHANGED <<manifest, run>> /\ pc' # "idle"
    BY <1>2 DEF BeginStep, TreeKept, runVars
  <2> QED
    BY <2>1, <2>2 DEF TellsPoint
<1>3. CASE TellSkip
  BY <1>3 DEF TellSkip, Goto, Tells, TellsPoint, TreeKept, runVars
<1>4. CASE TellReuse
  BY <1>4 DEF TellReuse, NextStep, Tells, TellsPoint, TreeKept, runVars
<1>5. CASE TellCommitted
  BY <1>5 DEF TellCommitted, Goto, Tells, TellsPoint, TreeKept, runVars
<1>6. CASE TellCompleted
  BY <1>6 DEF TellCompleted, NextStep, Tells, TellsPoint, TreeKept, runVars
<1>7. CASE TellFailed
  BY <1>7 DEF TellFailed, Goto, Tells, TellsPoint, TreeKept, runVars
<1>8. CASE RetireSkippedUnit \/ ReuseStep \/ DoNotReuse \/ PublishStep \/ Remember
  BY <1>8 DEF RetireSkippedUnit, ReuseStep, DoNotReuse, PublishStep, Remember
<1>9. CASE RefuseAttempt \/ LoopEnds \/ WithholdManifest \/ WriteTemporary \/ RenameManifest
  BY <1>9 DEF RefuseAttempt, Fail, LoopEnds, WithholdManifest, WriteTemporary, RenameManifest
<1>10. CASE EndRun
  BY <1>10 DEF EndRun
<1>11. CASE Faulty
  <2>1. ASSUME NEW kind, AttemptRaises(kind) PROVE StreamKept
    BY <2>1 DEF AttemptRaises, Fail
  <2>2. CASE LoopRaises \/ Interrupt \/ ManifestFails
    BY <2>2 DEF LoopRaises, Interrupt, ManifestFails
  <2>3. CASE TellFails
    <3>1. EmitFails
      BY <2>3 DEF TellFails
    <3>2. seq' \in Int
      BY <3>1 DEF EmitFails
    <3> QED
      BY <3>1, <3>2, Zenon DEF EmitFails
  <2>4. CASE Kill
    BY <2>4 DEF Kill, EmitTorn
  <2> QED
    BY <1>11, <2>1, <2>2, <2>3, <2>4 DEF Faulty
<1>12. CASE \E s \in Steps : Edit(s) \/ Damage(s)
  BY <1>12 DEF Edit, Damage
<1>13. CASE FreshStream
  BY <1>13
<1> QED
  BY <1>1, <1>2, <1>3, <1>4, <1>5, <1>6, <1>7, <1>8, <1>9, <1>10, <1>11, <1>12, <1>13
     DEF RunnerNext, RunnerStep

Retires == RetireSkippedUnit /\ live[Step] # {}
Damages == \E s \in Steps : Damage(s)

\* The tree changes when a step is published or retired; a unit's files when
\* they are damaged, and the document between two runs.
LEMMA TreeKinds ==
  ASSUME RunnerNext
  PROVE  /\ TreeKept \/ PublishStep \/ Retires \/ Damages
         /\ UNCHANGED identity \/ \E s \in Steps : Edit(s)
<1> USE DEF TreeKept, treeView, envVars
<1>1. CASE StartRun
  BY <1>1 DEF StartRun
<1>2. CASE BeginStep \/ TellSkip \/ ReuseStep \/ TellReuse \/ DoNotReuse
  BY <1>2 DEF BeginStep, TellSkip, ReuseStep, TellReuse, DoNotReuse
<1>3. CASE RetireSkippedUnit
  BY <1>3 DEF RetireSkippedUnit, Retires
<1>4. CASE PublishStep
  BY <1>4 DEF PublishStep
<1>5. CASE Remember \/ TellCommitted \/ TellCompleted \/ RefuseAttempt \/ TellFailed
  BY <1>5 DEF Remember, TellCommitted, TellCompleted, RefuseAttempt, Fail, TellFailed
<1>6. CASE LoopEnds \/ WithholdManifest \/ WriteTemporary \/ RenameManifest \/ EndRun
  BY <1>6 DEF LoopEnds, WithholdManifest, WriteTemporary, RenameManifest, EndRun
<1>7. CASE Faulty
  <2>1. ASSUME NEW kind, AttemptRaises(kind) PROVE UNCHANGED <<live, past, content, identity>>
    BY <2>1 DEF AttemptRaises, Fail
  <2>2. CASE LoopRaises \/ Interrupt \/ TellFails \/ ManifestFails \/ Kill
    BY <2>2 DEF LoopRaises, Interrupt, TellFails, ManifestFails, Kill
  <2> QED
    BY <1>7, <2>1, <2>2 DEF Faulty
<1>8. ASSUME NEW s \in Steps, Edit(s) PROVE TreeKept
  BY <1>8 DEF Edit
<1>9. ASSUME NEW s \in Steps, Damage(s) PROVE Damages /\ UNCHANGED identity
  BY <1>9 DEF Damage, Damages
<1>10. CASE FreshStream
  BY <1>10 DEF FreshStream
<1> QED
  BY <1>1, <1>2, <1>3, <1>4, <1>5, <1>6, <1>7, <1>8, <1>9, <1>10 DEF RunnerNext, RunnerStep

LEMMA ProcTypedStep == ASSUME Typed, RunnerNext PROVE ProcTyped'
<1> USE DEF ProcTyped, InTurn, procVars, runVars, Points, LoopPoints, EmitPoints, Reached,
            Goto, NextStep, Exit, NoWords
<1>0. Length \in Nat /\ ProcTyped
  BY OrderFacts DEF Typed
<1>1. CASE StartRun
  BY <1>0, <1>1 DEF StartRun
<1>2. CASE BeginStep
  BY <1>0, <1>2 DEF BeginStep
<1>3. CASE TellSkip \/ TellReuse \/ RetireSkippedUnit \/ TellCommitted \/ TellCompleted
  BY <1>0, <1>3 DEF TellSkip, TellReuse, RetireSkippedUnit, TellCommitted, TellCompleted
<1>4. CASE ReuseStep \/ DoNotReuse \/ PublishStep \/ Remember
  BY <1>0, <1>4 DEF ReuseStep, DoNotReuse, PublishStep, Remember
<1>5. CASE RefuseAttempt \/ TellFailed \/ LoopEnds
  BY <1>0, <1>5 DEF RefuseAttempt, Fail, TellFailed, LoopEnds
<1>6. CASE WithholdManifest \/ WriteTemporary \/ RenameManifest \/ EndRun
  BY <1>0, <1>6 DEF WithholdManifest, WriteTemporary, RenameManifest, EndRun
<1>7. CASE Faulty
  <2>1. ASSUME NEW kind \in {"exception", "interrupt"}, AttemptRaises(kind) PROVE ProcTyped'
    BY <1>0, <2>1 DEF AttemptRaises, Fail
  <2>2. CASE LoopRaises \/ Interrupt \/ TellFails \/ ManifestFails \/ Kill
    BY <1>0, <2>2 DEF LoopRaises, Interrupt, TellFails, ManifestFails, Kill
  <2> QED
    BY <1>7, <2>1, <2>2 DEF Faulty
<1>8. CASE (\E s \in Steps : Edit(s) \/ Damage(s)) \/ FreshStream
  BY <1>0, <1>8 DEF Edit, Damage, FreshStream
<1> QED
  BY <1>1, <1>2, <1>3, <1>4, <1>5, <1>6, <1>7, <1>8 DEF RunnerNext, RunnerStep

LEMMA LogTypedStep == ASSUME Typed, RunnerNext PROVE LogTyped'
<1>0. LogTyped /\ ProcTyped
  BY DEF Typed
<1>1. CASE StreamKept
  BY <1>0, <1>1 DEF StreamKept, LogTyped
<1>2. CASE TellsPoint
  <2>1. pos <= Length
    BY <1>0, <1>2 DEF TellsPoint, ProcTyped, InTurn
  <2>2. Step \in Steps /\ run \in Nat
    BY <1>0, <2>1, StepIsOne DEF ProcTyped
  <2>3. \E event \in Events : Tells(event)
    BY <1>2 DEF TellsPoint, Events
  <2> QED
    BY <1>0, <2>2, <2>3, EmitTyped DEF Tells
<1>3. CASE EndRun /\ failure # "interrupt"
  <2>1. \E word \in Words : Emit(run, "campaign_terminal", "none", word)
    BY <1>3 DEF EndRun, Words
  <2>2. run \in Nat /\ "campaign_terminal" \in Events
    BY <1>0 DEF ProcTyped, Events
  <2> QED
    BY <1>0, <2>1, <2>2, EmitTyped
<1>4. CASE FreshStream
  BY <1>0, <1>4 DEF FreshStream, MoveStreamAside, LogTyped
<1> QED
  BY <1>0, <1>1, <1>2, <1>3, <1>4, Segments

LEMMA PublishIs ==
  ASSUME Typed, PublishStep
  PROVE  /\ Step \in Steps /\ pc = "attempt" /\ ReceiptMet(Step)
         /\ live' = [live EXCEPT ![Step] = {run}]
         /\ past' = [past EXCEPT ![Step] = @ \cup live[Step]]
         /\ \E data, evidence :
              content' = [content EXCEPT ![Step] =
                [identity |-> identity[Step], data |-> data, evidence |-> evidence, intact |-> TRUE]]
<1>1. pos <= Length
  BY DEF Typed, ProcTyped, PublishStep, InTurn
<1> QED
  BY <1>1, StepIsOne DEF Typed, PublishStep, Store!PublishUnit, Store!Replace

LEMMA RetireIs ==
  ASSUME Typed, Retires
  PROVE  /\ Step \in Steps /\ pc = "retire"
         /\ live' = [live EXCEPT ![Step] = {}]
         /\ past' = [past EXCEPT ![Step] = @ \cup live[Step]]
         /\ content' = [content EXCEPT ![Step] = Absent]
<1>1. pos <= Length
  BY DEF Typed, ProcTyped, Retires, RetireSkippedUnit, InTurn
<1> QED
  BY <1>1, StepIsOne DEF Typed, Retires, RetireSkippedUnit, Store!RetireUnit, Store!Replace

LEMMA TreeTypedStep == ASSUME Typed, RunnerNext PROVE TreeTyped'
<1>0. TreeTyped /\ run \in Nat
  BY DEF Typed, ProcTyped
<1>1. CASE TreeKept
  BY <1>0, <1>1 DEF TreeKept, treeView, TreeTyped
<1>2. CASE PublishStep
  BY <1>0, <1>2, PublishIs DEF TreeTyped
<1>3. CASE Retires
  BY <1>0, <1>3, RetireIs DEF TreeTyped
<1>4. CASE Damages
  BY <1>0, <1>4 DEF Damages, Damage, TreeTyped
<1> QED
  BY <1>1, <1>2, <1>3, <1>4, TreeKinds

LEMMA ContentOverMore ==
  ASSUME NEW D, NEW E, NEW F, NEW G, content \in [Steps -> ContentOver(D, E)],
         D \subseteq F, E \subseteq G
  PROVE  content \in [Steps -> ContentOver(F, G)]
<1>1. ContentOver(D, E) \subseteq ContentOver(F, G)
  BY DEF ContentOver
<1> QED
  BY <1>1

LEMMA ContentTypedStep == ASSUME Typed, RunnerNext PROVE ContentTyped'
<1>1. PICK D, E : content \in [Steps -> ContentOver(D, E)]
  BY DEF Typed, ContentTyped
<1>2. CASE TreeKept
  BY <1>1, <1>2 DEF TreeKept, treeView, ContentTyped
<1>3. CASE PublishStep
  <2>1. Step \in Steps
    BY <1>3, PublishIs
  <2>2. PICK data, evidence : content' = [content EXCEPT ![Step] =
                [identity |-> identity[Step], data |-> data, evidence |-> evidence, intact |-> TRUE]]
    BY <1>3, PublishIs
  <2> DEFINE F == D \cup {data}
             G == E \cup {evidence}
             new == [identity |-> identity[Step], data |-> data, evidence |-> evidence,
                     intact |-> TRUE]
  <2>3. content \in [Steps -> ContentOver(F, G)]
    BY <1>1, ContentOverMore
  <2>4. new \in ContentOver(F, G)
    BY <2>1 DEF ContentOver, Typed, IdentityTyped
  <2> HIDE DEF F, G, new
  <2>5. content' \in [Steps -> ContentOver(F, G)]
    BY <2>2, <2>3, <2>4 DEF new
  <2> QED
    BY <2>5 DEF ContentTyped
<1>4. CASE Retires
  <2> DEFINE F == D \cup {{}}
             G == E \cup {<<>>}
  <2>1. content \in [Steps -> ContentOver(F, G)]
    BY <1>1, ContentOverMore
  <2>2. Absent \in ContentOver(F, G)
    BY DEF ContentOver, Absent
  <2>3. content' = [content EXCEPT ![Step] = Absent]
    BY <1>4, RetireIs
  <2> HIDE DEF F, G
  <2>4. content' \in [Steps -> ContentOver(F, G)]
    BY <2>1, <2>2, <2>3
  <2> QED
    BY <2>4 DEF ContentTyped
<1>5. CASE Damages
  <2>1. PICK s \in Steps : content' = [content EXCEPT ![s].intact = FALSE]
    BY <1>5 DEF Damages, Damage
  <2>2. [content[s] EXCEPT !.intact = FALSE] \in ContentOver(D, E)
    BY <1>1 DEF ContentOver
  <2>3. content' \in [Steps -> ContentOver(D, E)]
    BY <1>1, <2>1, <2>2
  <2> QED
    BY <2>3 DEF ContentTyped
<1> QED
  BY <1>2, <1>3, <1>4, <1>5, TreeKinds

LEMMA TypedStep == ASSUME Typed, RunnerNext PROVE Typed'
<1>1. IdentityTyped'
  <2>1. CASE UNCHANGED identity
    BY <2>1 DEF Typed, IdentityTyped
  <2>2. ASSUME NEW s \in Steps, Edit(s) PROVE IdentityTyped'
    BY <2>2 DEF Typed, IdentityTyped, Edit
  <2> QED
    BY <2>1, <2>2, TreeKinds
<1> QED
  BY <1>1, ContentTypedStep, ProcTypedStep, LogTypedStep, TreeTypedStep DEF Typed

LEMMA TypedStart == ASSUME RunnerInit PROVE Typed
<1>1. content \in [Steps -> ContentOver({{}}, {<<>>})]
  BY DEF RunnerInit, Absent, ContentOver
<1>2. ProcTyped
  BY OrderFacts DEF RunnerInit, ProcTyped, Points, NoWords, Reached, InTurn
<1>3. LogTyped
  BY DEF RunnerInit, LogInit, LogTyped
<1>4. TreeTyped
  BY DEF RunnerInit, Store!StoreInit, TreeTyped
<1>5. IdentityTyped
  BY DEF RunnerInit, IdentityTyped
<1> QED
  BY <1>1, <1>2, <1>3, <1>4, <1>5 DEF Typed, ContentTyped

-----------------------------------------------------------------------------
(* A unit bears the number of a run, and a line too; what a line says was  *)
(* committed is in the tree.                                               *)

NumbersInv ==
  /\ \A s \in Steps : live[s] \cup past[s] \subseteq 1..run
  /\ \A i \in DOMAIN stream : stream[i].run \in 1..run

CommittedInv ==
  \A i \in DOMAIN stream :
     stream[i].event = "result_committed" =>
       /\ stream[i].step \in Steps
       /\ stream[i].run \in live[stream[i].step] \cup past[stream[i].step]

RunStarted == pc # "idle" => run \in 1..run

LEMMA RunMoves ==
  ASSUME Typed, RunnerNext
  PROVE  /\ run' \in Nat /\ run' >= run
         /\ StartRun \/ UNCHANGED run
<1>1. CASE StartRun
  BY <1>1 DEF StartRun, Typed, ProcTyped
<1>2. CASE RunnerStep
  BY <1>2 DEF RunnerStep, BeginStep, TellSkip, RetireSkippedUnit, ReuseStep, TellReuse, DoNotReuse,
       PublishStep, Remember, TellCommitted, TellCompleted, RefuseAttempt, Fail, TellFailed,
       LoopEnds, WithholdManifest, WriteTemporary, RenameManifest, EndRun, runVars,
       Typed, ProcTyped
<1>3. CASE Faulty
  BY <1>3 DEF Faulty, AttemptRaises, Fail, LoopRaises, Interrupt, TellFails, ManifestFails, Kill,
       runVars, Typed, ProcTyped
<1>4. CASE (\E s \in Steps : Edit(s) \/ Damage(s)) \/ FreshStream
  BY <1>4 DEF Edit, Damage, FreshStream, runVars, Typed, ProcTyped
<1> QED
  BY <1>1, <1>2, <1>3, <1>4 DEF RunnerNext

LEMMA RunStartedStep == ASSUME Typed, RunStarted, RunnerNext PROVE RunStarted'
<1>0. run \in Nat
  BY DEF Typed, ProcTyped
<1>1. CASE StartRun
  BY <1>0, <1>1 DEF StartRun, RunStarted
<1>2. CASE RunnerStep
  <2>1. pc # "idle"
    BY <1>2 DEF RunnerStep, BeginStep, TellSkip, RetireSkippedUnit, ReuseStep, TellReuse,
         DoNotReuse, PublishStep, Remember, TellCommitted, TellCompleted, RefuseAttempt,
         TellFailed, LoopEnds, WithholdManifest, WriteTemporary, RenameManifest, EndRun
  <2> QED
    BY <1>0, <2>1, RunMoves DEF RunStarted, StartRun
<1>3. CASE Faulty
  <2>1. pc # "idle"
    BY <1>3 DEF Faulty, AttemptRaises, LoopRaises, Interrupt, LoopPoints, EmitPoints, TellFails,
         Telling, ManifestFails, Kill
  <2> QED
    BY <1>0, <2>1, RunMoves DEF RunStarted, StartRun
<1>4. CASE (\E s \in Steps : Edit(s) \/ Damage(s)) \/ FreshStream
  BY <1>4 DEF Edit, Damage, FreshStream, procVars, RunStarted
<1> QED
  BY <1>1, <1>2, <1>3, <1>4 DEF RunnerNext

\* No unit leaves the tree.
LEMMA UnitsKept ==
  ASSUME Typed, RunnerNext
  PROVE  \A s \in Steps : /\ live[s] \cup past[s] \subseteq live'[s] \cup past'[s]
                          /\ live'[s] \cup past'[s] \subseteq live[s] \cup past[s] \cup {run}
<1>0. TreeTyped
  BY DEF Typed
<1>1. CASE TreeKept
  BY <1>1 DEF TreeKept, treeView
<1>2. CASE PublishStep
  BY <1>0, <1>2, PublishIs DEF TreeTyped
<1>3. CASE Retires
  BY <1>0, <1>3, RetireIs DEF TreeTyped
<1>4. CASE Damages
  BY <1>4 DEF Damages, Damage
<1> QED
  BY <1>1, <1>2, <1>3, <1>4, TreeKinds

\* A line of the stream was there, or the run has just told it.
LEMMA LineAdded ==
  ASSUME Typed, RunnerNext, NEW i \in DOMAIN stream'
  PROVE  \/ i \in DOMAIN stream /\ stream'[i] = stream[i]
         \/ /\ i = Len(stream) + 1 /\ stream'[i].run = run /\ pc # "idle"
            /\ stream'[i].seq = seq + 1
            /\ UNCHANGED <<live, past, run>>
            /\ stream'[i].event = "result_committed" => pc = "commit" /\ stream'[i].step = Step
<1>0. LogTyped /\ Len(stream) \in Nat
  BY LenProperties DEF Typed, LogTyped
<1>1. CASE StreamKept
  BY <1>1 DEF StreamKept
<1>2. CASE TellsPoint /\ TreeKept /\ UNCHANGED <<manifest, run>>
  <2>1. PICK event \in Events : Tells(event) /\ pc # "idle"
                                /\ (event = "result_committed" => pc = "commit")
    BY <1>2 DEF TellsPoint, Events
  <2>2. PICK word : Emit(run, event, Step, word)
    BY <2>1 DEF Tells
  <2> QED
    BY <1>0, <1>2, <2>1, <2>2, EmitAppends DEF TreeKept, treeView
<1>3. CASE EndRun /\ failure # "interrupt"
  <2>1. PICK word : Emit(run, "campaign_terminal", "none", word)
    BY <1>3 DEF EndRun
  <2>2. UNCHANGED <<live, past, run>> /\ pc # "idle"
    BY <1>3 DEF EndRun, treeView, runVars
  <2> QED
    BY <1>0, <2>1, <2>2, EmitAppends
<1>4. CASE FreshStream
  BY <1>4 DEF FreshStream, MoveStreamAside
<1> QED
  BY <1>0, <1>1, <1>2, <1>3, <1>4, Segments

LEMMA NumbersStep ==
  ASSUME Typed, RunStarted, NumbersInv, RunnerNext PROVE NumbersInv'
<1>0. TreeTyped /\ run \in Nat
  BY DEF Typed, ProcTyped
<1>1. 1..run \subseteq 1..run'
  BY <1>0, RunMoves
<1>2. ASSUME NEW s \in Steps PROVE live'[s] \cup past'[s] \subseteq 1..run
  <2>1. CASE TreeKept
    BY <2>1 DEF TreeKept, treeView, NumbersInv
  <2>2. CASE PublishStep
    <3>1. run \in 1..run
      BY <2>2 DEF RunStarted, PublishStep
    <3> QED
      BY <1>0, <2>2, <3>1, PublishIs DEF TreeTyped, NumbersInv
  <2>3. CASE Retires
    BY <1>0, <2>3, RetireIs DEF TreeTyped, NumbersInv
  <2>4. CASE Damages
    BY <2>4 DEF Damages, Damage, NumbersInv
  <2> QED
    BY <2>1, <2>2, <2>3, <2>4, TreeKinds
<1>3. ASSUME NEW i \in DOMAIN stream' PROVE stream'[i].run \in 1..run
  BY LineAdded DEF NumbersInv, RunStarted
<1> QED
  BY <1>1, <1>2, <1>3 DEF NumbersInv

-----------------------------------------------------------------------------
(* What a run remembers of its steps is true of the tree.                  *)

Honest(s) ==
  /\ memory[s] = "completed" => live[s] = {run}
  /\ memory[s] = "reused" => live[s] # {} /\ run \notin live[s]
  /\ memory[s] = "none" => run \notin live[s]

\* A step published is not remembered yet, and if the run is interrupted there it
\* will not be: no terminal line is told then.
Unsaid(s) == \/ pc = "published" /\ s = Step
             \/ pc \in Ending /\ failure = "interrupt"

HonestInv == pc # "idle" => \A s \in Steps : Honest(s) \/ Unsaid(s)

AheadInv == pc # "idle" => \A i \in 1..Length : i > pos => memory[Order[i]] = "none"

PointInv ==
  /\ pc \in {"turn", "decide", "attempt", "published"} /\ pos <= Length => memory[Step] = "none"
  /\ pc \in {"tell_skip", "retire"} => memory[Step] = "skipped"
  /\ pc = "published" => live[Step] = {run}
  /\ pc = "commit" => memory[Step] = "completed"
  /\ pc = "warn" => failure # "none"
  /\ pc \in Ending /\ failure = "none" => pos > Length
  /\ pc = "rename" => Derived = Classified(memory)
  /\ pc = "terminal" => manifest.run = run /\ manifest.words = Classified(memory)

MemoryInv == HonestInv /\ AheadInv /\ PointInv

LEMMA AheadIsOther ==
  ASSUME Typed, NEW i \in 1..Length, i > pos
  PROVE  pos <= Length /\ Order[i] \in Steps /\ Order[i] # Step
<1>1. pos \in Nat /\ pos >= 1 /\ Length \in Nat
  BY OrderFacts DEF Typed, ProcTyped
<1>2. pos \in 1..Length /\ pos # i
  BY <1>1
<1> QED
  BY <1>2, OrderFacts DEF Step

\* On to the next step, which nothing is remembered of.
LEMMA NextTurn ==
  ASSUME Typed, HonestInv, AheadInv, NextStep, pc \in InTurn, pc # "published", UNCHANGED run,
         NEW now \in Steps, now = Step, Honest(now)',
         \A s \in Steps \ {now} : live'[s] = live[s]
  PROVE  MemoryInv'
<1>0. pc # "idle" /\ pc \notin Ending /\ pos \in 1..Length /\ pos + 1 \in Nat
  BY OrderFacts DEF InTurn, Ending, Typed, ProcTyped
<1>1. pc' = "turn" /\ pos' = pos + 1 /\ memory' = memory
  BY DEF NextStep
<1>2. \A s \in Steps : Honest(s)'
  <2>1. ASSUME NEW s \in Steps \ {now} PROVE Honest(s)'
    <3>1. Honest(s)
      BY <1>0 DEF HonestInv, Unsaid
    <3> QED
      BY <1>1, <3>1 DEF Honest
  <2> QED
    BY <2>1
<1>3. HonestInv'
  BY <1>2 DEF HonestInv
<1>4. AheadInv'
  BY <1>0, <1>1 DEF AheadInv
<1>5. pos' <= Length => memory'[Order[pos']] = "none"
  BY <1>0, <1>1, OrderFacts DEF AheadInv
<1> QED
  BY <1>1, <1>3, <1>4, <1>5 DEF MemoryInv, PointInv, Ending, Step

\* Within a turn, only what is remembered and published of its own step changes.
LEMMA SameTurn ==
  ASSUME Typed, HonestInv, AheadInv, pc # "idle", pc \notin Ending, UNCHANGED <<pos, run>>,
         NEW now \in Steps, pos <= Length => now = Step, pc = "published" => now = Step,
         \A s \in Steps \ {now} : live'[s] = live[s] /\ memory'[s] = memory[s],
         Honest(now)' \/ Unsaid(now)'
  PROVE  HonestInv' /\ AheadInv'
<1>1. ASSUME NEW s \in Steps \ {now} PROVE Honest(s)'
  <2>1. Honest(s)
    BY DEF HonestInv, Unsaid
  <2> QED
    BY <2>1 DEF Honest
<1>2. HonestInv'
  BY <1>1 DEF HonestInv
<1>3. ASSUME NEW i \in 1..Length, i > pos PROVE memory'[Order[i]] = "none"
  <2>1. Order[i] \in Steps /\ Order[i] # now
    BY <1>3, AheadIsOther
  <2> QED
    BY <1>3, <2>1 DEF AheadInv
<1> QED
  BY <1>2, <1>3 DEF AheadInv

LEMMA BeginsTurn ==
  ASSUME Typed, MemoryInv, BeginStep \/ TellSkip \/ DoNotReuse \/ TellCommitted PROVE MemoryInv'
<1> USE DEF BeginStep, TellSkip, DoNotReuse, TellCommitted
<1>1. PICK now \in Steps : now = Step
  BY StepIsOne DEF Typed, ProcTyped, InTurn
<1>2. /\ UNCHANGED <<pos, run, live>> /\ pc # "idle" /\ pc \notin Ending /\ pc' \notin Ending
      /\ pc # "published" /\ pos <= Length
      /\ pc' \in {"tell_skip", "decide", "retire", "attempt", "complete"}
  BY DEF Goto, runVars, treeView, Ending, Typed, ProcTyped, InTurn
<1>3. \/ memory' = memory
      \/ memory' = [memory EXCEPT ![now] = "skipped"] /\ pc' = "tell_skip"
  BY <1>1 DEF Goto
<1>4. Honest(now)
  BY <1>2 DEF MemoryInv, HonestInv, Unsaid
<1>5. Honest(now)'
  BY <1>2, <1>3, <1>4 DEF Honest, Typed, ProcTyped
<1>6. \A s \in Steps \ {now} : live'[s] = live[s] /\ memory'[s] = memory[s]
  BY <1>2, <1>3 DEF Typed, ProcTyped
<1>7. HonestInv' /\ AheadInv'
  BY <1>1, <1>2, <1>5, <1>6, SameTurn DEF MemoryInv
<1>8. Step' = Step
  BY <1>2 DEF Step
<1>9. /\ pc' \in {"decide", "attempt"} => memory'[now] = "none"
      /\ pc' \in {"tell_skip", "retire"} => memory'[now] = "skipped"
  BY <1>1, <1>2, <1>3 DEF MemoryInv, PointInv, Goto, Typed, ProcTyped
<1>10. PointInv'
  BY <1>1, <1>2, <1>8, <1>9 DEF PointInv
<1> QED
  BY <1>7, <1>10 DEF MemoryInv

LEMMA MakesOrReuses ==
  ASSUME Typed, MemoryInv, ReuseStep \/ Remember \/ PublishStep PROVE MemoryInv'
<1>1. PICK now \in Steps : now = Step
  BY StepIsOne DEF ReuseStep, Remember, PublishStep, Typed, ProcTyped, InTurn
<1>2. /\ UNCHANGED <<pos, run>> /\ pc # "idle" /\ pc \notin Ending /\ pos <= Length
      /\ memory[now] = "none"
  BY <1>1 DEF ReuseStep, Remember, PublishStep, Goto, runVars, Ending, Typed, ProcTyped, InTurn,
     MemoryInv, PointInv
<1>3. Step' = now
  BY <1>1, <1>2 DEF Step
<1>4. CASE ReuseStep
  <2>1. /\ memory' = [memory EXCEPT ![now] = "reused"] /\ live' = live /\ live[now] # {}
        /\ pc = "decide" /\ pc' = "tell_reuse"
    BY <1>1, <1>4 DEF ReuseStep, Reusable, treeView
  <2>2. run \notin live[now]
    BY <1>2, <2>1 DEF MemoryInv, HonestInv, Honest, Unsaid
  <2>3. Honest(now)'
    BY <1>2, <2>1, <2>2 DEF Honest, Typed, ProcTyped
  <2>4. \A s \in Steps \ {now} : live'[s] = live[s] /\ memory'[s] = memory[s]
    BY <2>1
  <2>5. HonestInv' /\ AheadInv'
    BY <1>1, <1>2, <2>3, <2>4, SameTurn DEF MemoryInv
  <2> QED
    BY <2>1, <2>5 DEF MemoryInv, PointInv, Ending
<1>5. CASE Remember
  <2>1. /\ memory' = [memory EXCEPT ![now] = "completed"] /\ live' = live
        /\ pc = "published" /\ pc' = "commit"
    BY <1>1, <1>5 DEF Remember, treeView
  <2>2. live[now] = {run}
    BY <1>1, <2>1 DEF MemoryInv, PointInv
  <2>3. memory'[now] = "completed"
    BY <2>1 DEF Typed, ProcTyped
  <2>4. Honest(now)'
    BY <1>2, <2>1, <2>2, <2>3 DEF Honest
  <2>5. \A s \in Steps \ {now} : live'[s] = live[s] /\ memory'[s] = memory[s]
    BY <2>1
  <2>6. HonestInv' /\ AheadInv'
    BY <1>1, <1>2, <2>4, <2>5, SameTurn DEF MemoryInv
  <2> QED
    BY <1>3, <2>1, <2>3, <2>6 DEF MemoryInv, PointInv, Ending
<1>6. CASE PublishStep
  <2>1. /\ memory' = memory /\ live' = [live EXCEPT ![now] = {run}]
        /\ pc = "attempt" /\ pc' = "published"
    BY <1>1, <1>6, PublishIs DEF PublishStep, Goto
  <2>2. live'[now] = {run}
    BY <2>1 DEF Typed, TreeTyped
  <2>3. Unsaid(now)'
    BY <1>3, <2>1 DEF Unsaid
  <2>4. \A s \in Steps \ {now} : live'[s] = live[s] /\ memory'[s] = memory[s]
    BY <2>1 DEF Typed, TreeTyped
  <2>5. HonestInv' /\ AheadInv'
    BY <1>1, <1>2, <2>1, <2>3, <2>4, SameTurn DEF MemoryInv
  <2> QED
    BY <1>2, <1>3, <2>1, <2>2, <2>5 DEF MemoryInv, PointInv, Ending
<1> QED
  BY <1>4, <1>5, <1>6

LEMMA EndsTurn ==
  ASSUME Typed, MemoryInv, RetireSkippedUnit \/ TellReuse \/ TellCompleted PROVE MemoryInv'
<1>1. PICK now \in Steps : now = Step
  BY StepIsOne DEF RetireSkippedUnit, TellReuse, TellCompleted, Typed, ProcTyped, InTurn
<1>2. /\ NextStep /\ UNCHANGED run /\ pc \in InTurn /\ pc # "published"
      /\ pc # "idle" /\ pc \notin Ending
  BY DEF RetireSkippedUnit, TellReuse, TellCompleted, runVars, InTurn, Ending
<1>3. Honest(now) /\ memory' = memory
  BY <1>2 DEF MemoryInv, HonestInv, Unsaid, NextStep
<1>4. CASE live' = live
  <2>1. Honest(now)' /\ \A s \in Steps \ {now} : live'[s] = live[s]
    BY <1>2, <1>3, <1>4 DEF Honest
  <2> QED
    BY <1>1, <1>2, <2>1, NextTurn DEF MemoryInv
<1>5. CASE Retires
  <2>1. live' = [live EXCEPT ![now] = {}] /\ memory[now] = "skipped"
    BY <1>1, <1>5, RetireIs DEF MemoryInv, PointInv
  <2>2. Honest(now)'
    BY <1>3, <2>1 DEF Honest
  <2>3. \A s \in Steps \ {now} : live'[s] = live[s]
    BY <2>1 DEF Typed, TreeTyped
  <2> QED
    BY <1>1, <1>2, <2>2, <2>3, NextTurn DEF MemoryInv
<1> QED
  BY <1>4, <1>5 DEF RetireSkippedUnit, Retires, TellReuse, TellCompleted, treeView

LEMMA FailsTurn ==
  ASSUME Typed, MemoryInv,
         RefuseAttempt \/ \E kind \in {"exception", "interrupt"} : AttemptRaises(kind)
  PROVE  MemoryInv'
<1>1. PICK kind \in {"exception", "interrupt"} : Fail(kind) /\ pc \in {"attempt", "published"}
  BY DEF RefuseAttempt, AttemptRaises
<1>2. PICK now \in Steps : now = Step
  BY <1>1, StepIsOne DEF Typed, ProcTyped, InTurn
<1>3. /\ UNCHANGED <<pos, run, live>> /\ pc # "idle" /\ pc \notin Ending /\ pc' = "warn"
      /\ failure' # "none" /\ memory' = [memory EXCEPT ![now] = "failed"]
  BY <1>1, <1>2 DEF Fail, runVars, treeView, Ending
<1>4. Honest(now)' /\ \A s \in Steps \ {now} : live'[s] = live[s] /\ memory'[s] = memory[s]
  BY <1>3 DEF Honest, Typed, ProcTyped
<1>5. HonestInv' /\ AheadInv'
  BY <1>2, <1>3, <1>4, SameTurn DEF MemoryInv
<1> QED
  BY <1>3, <1>5 DEF MemoryInv, PointInv, Ending

\* The loop is left: nothing is forgotten, and an interrupted run says nothing.
LEMMA LeavesLoop ==
  ASSUME Typed, MemoryInv, pc # "idle", pc \notin Ending, pc' = "finally",
         UNCHANGED <<pos, run, live, memory>>, pc = "published" => failure' = "interrupt",
         failure' = "none" => pos > Length
  PROVE  MemoryInv'
<1>1. HonestInv'
  BY DEF MemoryInv, HonestInv, Honest, Unsaid, Ending
<1>2. AheadInv'
  BY DEF MemoryInv, AheadInv
<1> QED
  BY <1>1, <1>2 DEF MemoryInv, PointInv

LEMMA LoopLeft ==
  ASSUME Typed, MemoryInv,
         TellFailed \/ LoopEnds \/ LoopRaises \/ Interrupt \/ (TellFails /\ pc # "terminal")
  PROVE  MemoryInv'
<1> USE DEF runVars, treeView, Ending
<1>1. CASE TellFailed
  BY <1>1, LeavesLoop DEF TellFailed, Goto, MemoryInv, PointInv
<1>2. CASE LoopEnds
  BY <1>2, LeavesLoop DEF LoopEnds, Goto
<1>3. CASE LoopRaises
  BY <1>3, LeavesLoop DEF LoopRaises
<1>4. CASE Interrupt
  BY <1>4, LeavesLoop DEF Interrupt, LoopPoints, EmitPoints
<1>5. CASE TellFails /\ pc # "terminal"
  BY <1>5, LeavesLoop DEF TellFails, Telling, EmitPoints
<1> QED
  BY <1>1, <1>2, <1>3, <1>4, <1>5

LEMMA IdleRemembersNothing == ASSUME pc' = "idle" PROVE MemoryInv'
  BY DEF MemoryInv, HonestInv, AheadInv, PointInv, Ending

LEMMA MemoryInvStep ==
  ASSUME Typed, NumbersInv, MemoryInv, RunnerNext PROVE MemoryInv'
<1>1. CASE StartRun
  <2>1. /\ pc' = "turn" /\ memory' = NoWords /\ run' = run + 1 /\ live' = live /\ run \in Nat
    BY <1>1 DEF StartRun, treeView, Typed, ProcTyped
  <2>2. \A s \in Steps : memory'[s] = "none" /\ run' \notin live'[s]
    BY <2>1 DEF NumbersInv, NoWords
  <2>3. \A s \in Steps : Honest(s)'
    BY <2>2 DEF Honest
  <2>4. \A i \in 1..Length : Order[i] \in Steps
    BY OrderFacts
  <2>5. pos' = 1 /\ (1 <= Length => Step' \in Steps)
    BY <1>1, OrderFacts DEF StartRun, Step
  <2> QED
    BY <2>1, <2>2, <2>3, <2>4, <2>5 DEF MemoryInv, HonestInv, AheadInv, PointInv, Ending
<1>2. CASE BeginStep \/ TellSkip \/ DoNotReuse \/ TellCommitted
  BY <1>2, BeginsTurn
<1>3. CASE ReuseStep \/ Remember \/ PublishStep
  BY <1>3, MakesOrReuses
<1>4. CASE RetireSkippedUnit \/ TellReuse \/ TellCompleted
  BY <1>4, EndsTurn
<1>5. CASE RefuseAttempt \/ \E kind \in {"exception", "interrupt"} : AttemptRaises(kind)
  BY <1>5, FailsTurn
<1>6. CASE TellFailed \/ LoopEnds \/ LoopRaises \/ Interrupt \/ (TellFails /\ pc # "terminal")
  BY <1>6, LoopLeft
<1>7. CASE \/ WithholdManifest \/ EndRun \/ ManifestFails \/ Kill
           \/ TellFails /\ pc = "terminal"
  BY <1>7, IdleRemembersNothing DEF WithholdManifest, EndRun, ManifestFails, Kill, TellFails, Exit
<1>8. CASE WriteTemporary \/ RenameManifest
  <2>1. /\ UNCHANGED <<pos, memory, failure, run, live>> /\ pc \in Ending /\ pc' \in Ending
        /\ pc # "idle" /\ pc' # "idle"
    BY <1>8 DEF WriteTemporary, RenameManifest, Goto, runVars, treeView, Ending
  <2>2. HonestInv'
    BY <2>1 DEF MemoryInv, HonestInv, Honest, Unsaid, Ending
  <2>3. AheadInv'
    BY <2>1 DEF MemoryInv, AheadInv
  <2>4. CASE WriteTemporary
    <3>1. pc' = "rename" /\ UNCHANGED logVars /\ Derived = Classified(memory)
      BY <2>4 DEF WriteTemporary, Goto
    <3>2. Derived' = Derived
      BY <3>1 DEF Derived, ToldWord, WordLines, OwnLines, logVars
    <3>3. Classified(memory)' = Classified(memory)
      BY <2>1
    <3> QED
      BY <2>1, <2>2, <2>3, <3>1, <3>2, <3>3 DEF MemoryInv, PointInv, Ending
  <2>5. CASE RenameManifest
    <3>1. /\ pc' = "terminal" /\ pc = "rename"
          /\ manifest'.run = run /\ manifest'.words = Derived
      BY <2>5 DEF RenameManifest, Goto
    <3>2. manifest'.words = Classified(memory)
      BY <3>1 DEF MemoryInv, PointInv
    <3> QED
      BY <2>1, <2>2, <2>3, <3>1, <3>2 DEF MemoryInv, PointInv, Ending
  <2> QED
    BY <1>8, <2>4, <2>5
<1>9. CASE (\E s \in Steps : Edit(s) \/ Damage(s)) \/ FreshStream
  <2>1. pc' = "idle"
    BY <1>9 DEF Edit, Damage, FreshStream, procVars
  <2> QED
    BY <2>1, IdleRemembersNothing
<1> QED
  BY <1>1, <1>2, <1>3, <1>4, <1>5, <1>6, <1>7, <1>8, <1>9 DEF RunnerNext, RunnerStep, Faulty

LEMMA CommittedStep ==
  ASSUME Typed, MemoryInv, CommittedInv, RunnerNext PROVE CommittedInv'
<1>1. ASSUME NEW i \in DOMAIN stream', stream'[i].event = "result_committed"
      PROVE  /\ stream'[i].step \in Steps
             /\ stream'[i].run \in live'[stream'[i].step] \cup past'[stream'[i].step]
  <2>1. CASE i \in DOMAIN stream /\ stream'[i] = stream[i]
    <3>1. PICK s \in Steps : s = stream[i].step /\ stream[i].run \in live[s] \cup past[s]
      BY <1>1, <2>1 DEF CommittedInv
    <3> QED
      BY <2>1, <3>1, UnitsKept
  <2>2. CASE ~(i \in DOMAIN stream /\ stream'[i] = stream[i])
    <3>1. /\ pc = "commit" /\ stream'[i].step = Step /\ stream'[i].run = run
          /\ UNCHANGED <<live, past>>
      BY <1>1, <2>2, LineAdded
    <3>2. PICK now \in Steps : now = Step
      BY <3>1, StepIsOne DEF Typed, ProcTyped, InTurn
    <3>3. live[now] = {run}
      BY <3>1, <3>2 DEF MemoryInv, HonestInv, PointInv, Honest, Unsaid, Ending
    <3> QED
      BY <3>1, <3>2, <3>3
  <2> QED
    BY <2>1, <2>2
<1> QED
  BY <1>1 DEF CommittedInv

-----------------------------------------------------------------------------
(* While a step has its turn the stream does not end in a terminal line,   *)
(* and until the run has ended none of its lines is one.                   *)

TellingInv ==
  /\ pc \in InTurn => stream # <<>> /\ LastLine.event # "campaign_terminal"
  /\ pc # "idle" /\ stream # <<>> /\ LastLine.event = "campaign_terminal" => LastLine.run < run

LEMMA PointMoves ==
  ASSUME RunnerNext
  PROVE  /\ pc' \in InTurn => pc \in InTurn \/ BeginStep
         /\ pc' # "idle" => pc # "idle" \/ StartRun
<1> USE DEF InTurn, Goto, NextStep, Exit
<1>1. CASE StartRun \/ BeginStep \/ TellSkip \/ TellReuse \/ RetireSkippedUnit \/ TellCommitted
           \/ TellCompleted
  BY <1>1 DEF StartRun, BeginStep, TellSkip, TellReuse, RetireSkippedUnit, TellCommitted,
     TellCompleted
<1>2. CASE ReuseStep \/ DoNotReuse \/ PublishStep \/ Remember \/ RefuseAttempt \/ TellFailed
  BY <1>2 DEF ReuseStep, DoNotReuse, PublishStep, Remember, RefuseAttempt, Fail, TellFailed
<1>3. CASE LoopEnds \/ WithholdManifest \/ WriteTemporary \/ RenameManifest \/ EndRun
  BY <1>3 DEF LoopEnds, WithholdManifest, WriteTemporary, RenameManifest, EndRun
<1>4. CASE Faulty
  BY <1>4 DEF Faulty, AttemptRaises, Fail, LoopRaises, Interrupt, LoopPoints, EmitPoints,
     TellFails, Telling, ManifestFails, Kill
<1>5. CASE (\E s \in Steps : Edit(s) \/ Damage(s)) \/ FreshStream
  BY <1>5 DEF Edit, Damage, FreshStream, procVars
<1> QED
  BY <1>1, <1>2, <1>3, <1>4, <1>5 DEF RunnerNext, RunnerStep

\* A line that is told of a step becomes the last, and is no terminal line.
LEMMA TellsLast ==
  ASSUME Typed, TellsPoint
  PROVE  stream' # <<>> /\ LastLine'.event # "campaign_terminal"
<1>1. PICK event : Tells(event) /\ event # "campaign_terminal"
  BY DEF TellsPoint
<1>2. PICK word : Emit(run, event, Step, word)
  BY <1>1 DEF Tells
<1> QED
  BY <1>1, <1>2, EmitAppends DEF Typed, LastLine

LEMMA BeginTells == ASSUME BeginStep PROVE TellsPoint
  BY DEF BeginStep, TellsPoint, Tells, Words

LEMMA LastLineTyped == ASSUME Typed, stream # <<>> PROVE Len(stream) \in DOMAIN stream
<1>1. Len(stream) \in Nat /\ DOMAIN stream = 1..Len(stream) /\ Len(stream) # 0
  BY LenProperties, EmptySeq DEF Typed, LogTyped
<1> QED
  BY <1>1

LEMMA TellingStep ==
  ASSUME Typed, NumbersInv, TellingInv, RunnerNext PROVE TellingInv'
<1>1. CASE TellsPoint
  BY <1>1, TellsLast DEF TellingInv
<1>2. CASE StreamKept /\ ~TellsPoint
  <2>1. LastLine' = LastLine /\ stream' = stream
    BY <1>2 DEF StreamKept, LastLine
  <2>2. pc' \in InTurn => pc \in InTurn
    BY <1>2, PointMoves, BeginTells
  <2>3. ASSUME pc' # "idle", stream # <<>>, LastLine.event = "campaign_terminal"
        PROVE  LastLine.run < run'
    <3>1. LastLine.run \in 1..run /\ run \in Nat
      BY <2>3, LastLineTyped DEF NumbersInv, LastLine, Typed, ProcTyped
    <3>2. CASE StartRun
      BY <3>1, <3>2 DEF StartRun
    <3>3. CASE ~StartRun
      BY <2>3, <3>3, PointMoves, RunMoves DEF TellingInv
    <3> QED
      BY <3>2, <3>3
  <2> QED
    BY <2>1, <2>2, <2>3 DEF TellingInv
<1>3. CASE EndRun
  BY <1>3 DEF EndRun, Exit, TellingInv, InTurn
<1>4. CASE FreshStream
  BY <1>4 DEF FreshStream, procVars, TellingInv, InTurn
<1> QED
  BY <1>1, <1>2, <1>3, <1>4, Segments DEF Typed

-----------------------------------------------------------------------------
(* What changes of the tree within a turn, and how the turn moves.         *)

Changes == PublishStep \/ Retires

\* Within a run, only the unit of the step whose turn it is changes.
LEMMA OthersStay ==
  ASSUME Typed, RunnerNext, pc # "idle", NEW s \in Steps, Changes => s # Step
  PROVE  live'[s] = live[s] /\ content'[s] = content[s] /\ identity' = identity
<1>1. PICK D, E : content \in [Steps -> ContentOver(D, E)]
  BY DEF Typed, ContentTyped
<1>2. identity' = identity /\ (TreeKept \/ Changes)
  BY TreeKinds DEF Edit, Damages, Damage, Changes
<1>3. CASE TreeKept
  BY <1>2, <1>3 DEF TreeKept, treeView
<1>4. CASE PublishStep
  <2>1. PICK unit : content' = [content EXCEPT ![Step] = unit]
    BY <1>4, PublishIs
  <2> QED
    BY <1>1, <1>2, <1>4, <2>1, PublishIs DEF Typed, TreeTyped, Changes
<1>5. CASE Retires
  BY <1>1, <1>2, <1>5, RetireIs DEF Typed, TreeTyped, Changes
<1> QED
  BY <1>2, <1>3, <1>4, <1>5 DEF Changes

LEMMA ChangesInTurn ==
  ASSUME Typed, Changes PROVE pos \in 1..Length /\ pc \in {"attempt", "retire"}
<1>1. pc \in {"attempt", "retire"} /\ pos <= Length
  BY DEF Changes, PublishStep, Retires, RetireSkippedUnit, Typed, ProcTyped, InTurn
<1> QED
  BY <1>1, OrderFacts DEF Typed, ProcTyped

Positions == pos' = pos \/ (NextStep /\ pc \in {"retire", "tell_reuse", "complete"})

LEMMA PositionMoves ==
  ASSUME RunnerNext, pc' # "idle" PROVE StartRun \/ (pc # "idle" /\ Positions)
<1> USE DEF Positions, Goto, Exit
<1>1. CASE StartRun \/ BeginStep \/ TellSkip \/ TellReuse \/ RetireSkippedUnit \/ TellCommitted
           \/ TellCompleted
  BY <1>1 DEF BeginStep, TellSkip, TellReuse, RetireSkippedUnit, TellCommitted, TellCompleted
<1>2. CASE ReuseStep \/ DoNotReuse \/ PublishStep \/ Remember \/ RefuseAttempt \/ TellFailed
  BY <1>2 DEF ReuseStep, DoNotReuse, PublishStep, Remember, RefuseAttempt, Fail, TellFailed
<1>3. CASE LoopEnds \/ WithholdManifest \/ WriteTemporary \/ RenameManifest \/ EndRun
  BY <1>3 DEF LoopEnds, WithholdManifest, WriteTemporary, RenameManifest, EndRun
<1>4. CASE Faulty
  BY <1>4, PointMoves DEF Faulty, AttemptRaises, Fail, LoopRaises, Interrupt, LoopPoints,
     EmitPoints, TellFails, Telling, ManifestFails, Kill
<1>5. CASE (\E s \in Steps : Edit(s) \/ Damage(s)) \/ FreshStream
  BY <1>5 DEF Edit, Damage, FreshStream, procVars
<1> QED
  BY <1>1, <1>2, <1>3, <1>4, <1>5 DEF RunnerNext, RunnerStep

\* A turn ends with its step standing: made, reused, or skipped and retired.
\* Where a step stands before its turn is over it was made, reused or stood already.
LEMMA StandingPoints ==
  ASSUME RunnerNext, pc' \in {"tell_reuse", "published", "commit", "complete"}
  PROVE  ReuseStep \/ PublishStep \/ pc \in {"published", "commit"}
<1> USE DEF Goto, NextStep, Exit
<1>1. CASE StartRun \/ BeginStep \/ TellSkip \/ TellReuse \/ RetireSkippedUnit \/ TellCommitted
           \/ TellCompleted
  BY <1>1 DEF StartRun, BeginStep, TellSkip, TellReuse, RetireSkippedUnit, TellCommitted,
     TellCompleted
<1>2. CASE ReuseStep \/ DoNotReuse \/ PublishStep \/ Remember \/ RefuseAttempt \/ TellFailed
  BY <1>2 DEF DoNotReuse, Remember, RefuseAttempt, Fail, TellFailed
<1>3. CASE LoopEnds \/ WithholdManifest \/ WriteTemporary \/ RenameManifest \/ EndRun
  BY <1>3 DEF LoopEnds, WithholdManifest, WriteTemporary, RenameManifest, EndRun
<1>4. CASE Faulty
  BY <1>4 DEF Faulty, AttemptRaises, Fail, LoopRaises, Interrupt, TellFails, ManifestFails, Kill
<1>5. CASE (\E s \in Steps : Edit(s) \/ Damage(s)) \/ FreshStream
  <2>1. pc = "idle" /\ pc' = pc
    BY <1>5 DEF Edit, Damage, FreshStream, procVars
  <2> QED
    BY <2>1
<1> QED
  BY <1>1, <1>2, <1>3, <1>4, <1>5 DEF RunnerNext, RunnerStep

-----------------------------------------------------------------------------
(* What the unit of a step holds, and from what it was made.               *)

\* The steps whose rows the unit of s holds.
RowSteps(s) == IF Children[s] = {} THEN {s} ELSE Children[s]

UnitTyped(s) ==
  /\ content[s].identity \in Identities
  /\ content[s].data \in SUBSET Rows
  /\ \A row \in content[s].data : row[1] \in RowSteps(s)
  /\ DOMAIN content[s].evidence \subseteq Sources(s)
  /\ Deciding(s) => DOMAIN content[s].evidence = {Input[s]}
  /\ \A p \in DOMAIN content[s].evidence :
        content[s].evidence[p] \in [data : SUBSET Rows, identity : Identities]

UnitsInv ==
  \A s \in Steps : IF live[s] = {} THEN content[s] = Absent ELSE UnitTyped(s)

BoundInv ==
  /\ run \in 0..MaxRuns /\ faults \in 0..MaxFaults /\ edits \in 0..MaxEdits
  /\ seq >= -1 /\ resume \in BOOLEAN
  /\ \A s \in Steps : identity[s] \in 1..(edits + 1)
  /\ \A s \in Steps : \A c \in Children[s] : identity[c] = identity[s]

LEMMA ConstantFacts ==
  /\ MaxRuns \in Nat /\ MaxFaults \in Nat /\ MaxEdits \in Nat
  /\ \A s \in Steps : /\ Children[s] \in SUBSET Steps /\ Deps[s] \in SUBSET Steps
                      /\ Sources(s) \in SUBSET Deps[s]
                      /\ Deciding(s) => Input[s] \in Deps[s]
                      /\ \A c \in Children[s] : c \in Deps[s] /\ Children[c] = {}
<1>1. \A s \in Steps : Deps[s] \in SUBSET Steps /\ Children[s] \in SUBSET Deps[s]
  BY RunnerAssumption, DepsAssumption
<1>2. \A s \in Steps : Deciding(s) => Input[s] \in Deps[s]
  BY RunnerAssumption
<1>3. \A s \in Steps : Sources(s) \in SUBSET Deps[s]
  BY <1>1, <1>2 DEF Sources
<1>4. \A s \in Steps : \A c \in Children[s] : Children[c] = {}
  BY ExpansionAssumption
<1> QED
  BY <1>1, <1>2, <1>3, <1>4, RunnerAssumption

LEMMA ChildrenAre ==
  ASSUME NEW s \in Steps, NEW c \in Children[s]
  PROVE  c \in Steps /\ c \in Deps[s] /\ Children[c] = {} /\ Kind[c] = Kind[s]
<1>1. Kind[c] = Kind[s]
  BY ExpansionAssumption
<1> QED
  BY <1>1, ConstantFacts

LEMMA EditsAre ==
  ASSUME Typed, NEW s \in Steps, Edit(s)
  PROVE  /\ edits' = edits + 1 /\ edits < MaxEdits /\ UNCHANGED <<run, faults, resume, seq>>
         /\ \A t \in Steps : identity'[t] = identity[t] + (IF t \in {s} \cup Children[s] THEN 1 ELSE 0)
         /\ \A parent \in Steps : s \notin Children[parent]
BY DEF Edit, runVars, logVars

LEMMA CountersMove ==
  ASSUME Typed, RunnerNext
  PROVE  /\ \/ UNCHANGED edits
            \/ edits' = edits + 1 /\ edits < MaxEdits
         /\ \/ UNCHANGED faults
            \/ faults' = faults + 1 /\ faults < MaxFaults
         /\ \/ UNCHANGED <<run, resume>>
            \/ run' = run + 1 /\ run < MaxRuns /\ resume' \in BOOLEAN
         /\ \/ UNCHANGED seq
            \/ seq' = seq + 1
            \/ seq' = Len(stream) - 1
<1> USE DEF runVars, envVars, logVars, Fault
<1>1. CASE StartRun
  BY <1>1 DEF StartRun, OpenLog
<1>2. CASE BeginStep \/ TellSkip \/ TellReuse \/ TellCommitted \/ TellCompleted \/ TellFailed
  BY <1>2 DEF BeginStep, TellSkip, TellReuse, TellCommitted, TellCompleted, TellFailed, Emit
<1>3. CASE RetireSkippedUnit \/ ReuseStep \/ DoNotReuse \/ PublishStep \/ Remember \/ RefuseAttempt
  BY <1>3 DEF RetireSkippedUnit, ReuseStep, DoNotReuse, PublishStep, Remember, RefuseAttempt, Fail
<1>4. CASE LoopEnds \/ WithholdManifest \/ WriteTemporary \/ RenameManifest
  BY <1>4 DEF LoopEnds, WithholdManifest, WriteTemporary, RenameManifest
<1>5. CASE EndRun
  BY <1>5 DEF EndRun, Emit
<1>6. CASE Faulty
  <2>1. ASSUME NEW kind, AttemptRaises(kind) PROVE /\ UNCHANGED <<edits, run, resume, seq>>
                                                   /\ faults' = faults + 1 /\ faults < MaxFaults
    BY <2>1 DEF AttemptRaises, Fail
  <2>2. CASE LoopRaises \/ Interrupt \/ ManifestFails
    BY <2>2 DEF LoopRaises, Interrupt, ManifestFails
  <2>3. CASE TellFails
    BY <2>3 DEF TellFails, EmitFails
  <2>4. CASE Kill
    BY <2>4 DEF Kill, EmitTorn
  <2> QED
    BY <1>6, <2>1, <2>2, <2>3, <2>4 DEF Faulty
<1>7. CASE \E s \in Steps : Edit(s) \/ Damage(s)
  BY <1>7 DEF Edit, Damage
<1>8. CASE FreshStream
  BY <1>8 DEF FreshStream, MoveStreamAside
<1> QED
  BY <1>1, <1>2, <1>3, <1>4, <1>5, <1>6, <1>7, <1>8 DEF RunnerNext, RunnerStep

LEMMA BoundStep == ASSUME Typed, BoundInv, RunnerNext PROVE BoundInv'
<1>1. Len(stream) \in Nat /\ seq \in Int
  BY LenProperties DEF Typed, LogTyped
<1>2. /\ run' \in 0..MaxRuns /\ faults' \in 0..MaxFaults /\ edits' \in 0..MaxEdits
      /\ edits \in Nat /\ edits' >= edits
  BY CountersMove, ConstantFacts DEF BoundInv
<1>3. seq' >= -1 /\ resume' \in BOOLEAN
  <2>1. seq' >= -1
    BY <1>1, CountersMove DEF BoundInv
  <2>2. resume' \in BOOLEAN
    BY CountersMove DEF BoundInv
  <2> QED
    BY <2>1, <2>2
<1>4. CASE UNCHANGED identity
  BY <1>2, <1>3, <1>4 DEF BoundInv
<1>5. ASSUME NEW s \in Steps, Edit(s) PROVE BoundInv'
  <2>1. \A t \in Steps : identity'[t] \in 1..(edits' + 1)
    BY <1>2, <1>5, EditsAre DEF BoundInv
  <2>2. ASSUME NEW t \in Steps, NEW c \in Children[t] PROVE identity'[c] = identity'[t]
    <3>1. c \in Steps /\ Children[c] = {} /\ identity[c] = identity[t]
      BY ConstantFacts DEF BoundInv
    <3>2. CASE t = s
      BY <1>5, <3>1, <3>2, EditsAre
    <3>3. CASE t # s
      <4>1. c # s /\ t \notin Children[s] /\ c \notin Children[s]
        BY <1>5, <3>1, <3>3, EditsAre, ConstantFacts, ExpansionAssumption
      <4> QED
        BY <1>5, <3>1, <3>3, <4>1, EditsAre
    <3> QED
      BY <3>2, <3>3
  <2> QED
    BY <1>2, <1>3, <2>1, <2>2 DEF BoundInv
<1> QED
  BY <1>4, <1>5, TreeKinds

\* What a publish makes of the unit of the step.
LEMMA PublishMakes ==
  ASSUME Typed, PublishStep, NEW now \in Steps, now = Step
  PROVE  /\ live'[now] = {run} /\ ReceiptMet(now) /\ InputsThere(now) /\ identity' = identity
         /\ \E data \in Results(now) :
              content'[now] = [identity |-> identity[now], data |-> data,
                               evidence |-> Evidence(now, Read(now)), intact |-> TRUE]
         /\ \A s \in Steps \ {now} : live'[s] = live[s] /\ content'[s] = content[s]
<1>1. PICK D, E : content \in [Steps -> ContentOver(D, E)]
  BY DEF Typed, ContentTyped
<1>2. live' = [live EXCEPT ![now] = {run}]
  BY PublishIs
<1>3. PICK data \in Results(now) :
        content' = [content EXCEPT ![now] = [identity |-> identity[now], data |-> data,
                               evidence |-> Evidence(now, Read(now)), intact |-> TRUE]]
  BY DEF PublishStep
<1>4. live'[now] = {run} /\ \A s \in Steps \ {now} : live'[s] = live[s]
  BY <1>2 DEF Typed, TreeTyped
<1>5. /\ content'[now] = [identity |-> identity[now], data |-> data,
                               evidence |-> Evidence(now, Read(now)), intact |-> TRUE]
      /\ \A s \in Steps \ {now} : content'[s] = content[s]
  BY <1>1, <1>3
<1> QED
  BY <1>4, <1>5 DEF PublishStep, envVars

LEMMA RetireMakes ==
  ASSUME Typed, Retires, NEW now \in Steps, now = Step
  PROVE  /\ live'[now] = {} /\ content'[now] = Absent
         /\ \A s \in Steps \ {now} : live'[s] = live[s] /\ content'[s] = content[s]
<1>1. PICK D, E : content \in [Steps -> ContentOver(D, E)]
  BY DEF Typed, ContentTyped
<1>2. live' = [live EXCEPT ![now] = {}] /\ content' = [content EXCEPT ![now] = Absent]
  BY RetireIs
<1> QED
  BY <1>1, <1>2 DEF Typed, TreeTyped

LEMMA DamageMakes ==
  ASSUME Typed, Damages
  PROVE  /\ live' = live
         /\ \A s \in Steps : /\ content'[s].data = content[s].data
                             /\ content'[s].identity = content[s].identity
                             /\ content'[s].evidence = content[s].evidence
                             /\ live[s] = {} => content'[s] = content[s]
<1>1. PICK D, E : content \in [Steps -> ContentOver(D, E)]
  BY DEF Typed, ContentTyped
<1>2. PICK d \in Steps : /\ content' = [content EXCEPT ![d].intact = FALSE] /\ live' = live
                         /\ live[d] # {}
  BY DEF Damages, Damage
<1> QED
  BY <1>1, <1>2 DEF ContentOver

LEMMA TurnOf == ASSUME Typed, Changes PROVE Step \in Steps
  BY ChangesInTurn, StepIsOne, OrderFacts DEF Typed, ProcTyped

\* The unit of s was there before the step and means what it meant.
SameUnit(s) ==
  /\ live'[s] = live[s]
  /\ content'[s].data = content[s].data /\ content'[s].identity = content[s].identity
  /\ content'[s].evidence = content[s].evidence
  /\ live[s] = {} => content'[s] = content[s]

LEMMA UnitsOfStep ==
  ASSUME Typed, RunnerNext
  PROVE  /\ Changes => Step \in Steps
         /\ \A s \in Steps : (Changes => s # Step) => SameUnit(s)
<1>1. CASE TreeKept
  BY <1>1, TurnOf DEF TreeKept, treeView, SameUnit
<1>2. CASE PublishStep
  <2>1. PICK now \in Steps : now = Step
    BY <1>2, TurnOf DEF Changes
  <2> QED
    BY <1>2, <2>1, PublishMakes DEF SameUnit, Changes
<1>3. CASE Retires
  <2>1. PICK now \in Steps : now = Step
    BY <1>3, TurnOf DEF Changes
  <2> QED
    BY <1>3, <2>1, RetireMakes DEF SameUnit, Changes
<1>4. CASE Damages
  BY <1>4, DamageMakes, TurnOf DEF SameUnit
<1> QED
  BY <1>1, <1>2, <1>3, <1>4, TreeKinds

LEMMA UnitStays ==
  ASSUME NEW s \in Steps, SameUnit(s), IF live[s] = {} THEN content[s] = Absent ELSE UnitTyped(s)
  PROVE  IF live'[s] = {} THEN content'[s] = Absent ELSE UnitTyped(s)'
BY DEF SameUnit, UnitTyped

\* The recorded evidence of a unit is of the type of what a unit holds.
LEMMA EvidenceTyped ==
  ASSUME BoundInv, UnitsInv, NEW s \in Steps, NEW sources \in SUBSET Sources(s),
         \A p \in sources : live[p] # {}
  PROVE  /\ DOMAIN Evidence(s, sources) = sources
         /\ \A p \in sources :
               Evidence(s, sources)[p] \in [data : SUBSET Rows, identity : Identities]
<1>1. \A p \in sources : p \in Steps /\ UnitTyped(p)
  BY ConstantFacts DEF UnitsInv
<1>2. ASSUME NEW p \in sources PROVE Recorded(p) \in [data : SUBSET Rows, identity : Identities]
  BY <1>1 DEF Recorded, UnitTyped
<1>3. ASSUME NEW p \in sources, Kind[p] = "decision"
      PROVE  content[p].evidence[Input[p]] \in [data : SUBSET Rows, identity : Identities]
  BY <1>1, <1>3 DEF UnitTyped, Deciding
<1>4. ASSUME NEW p \in sources
      PROVE  EvidenceIdentity(p) \in [data : SUBSET Rows, identity : Identities]
  BY <1>2, <1>3 DEF EvidenceIdentity
<1> QED
  BY <1>2, <1>4 DEF Evidence

LEMMA ResultsTyped ==
  ASSUME UnitsInv, NEW s \in Steps, InputsThere(s), NEW data \in Results(s)
  PROVE  data \in SUBSET Rows /\ \A row \in data : row[1] \in RowSteps(s)
<1>1. CASE Children[s] # {}
  <2>1. data = UNION {content[c].data : c \in Children[s] \ skippedBy}
    BY <1>1 DEF Results
  <2>2. ASSUME NEW c \in Children[s] \ skippedBy
        PROVE  content[c].data \in SUBSET Rows /\ \A row \in content[c].data : row[1] = c
    <3>1. c \in Steps /\ Children[c] = {} /\ live[c] # {}
      BY ConstantFacts DEF InputsThere
    <3> QED
      BY <3>1 DEF UnitsInv, UnitTyped, RowSteps
  <2> QED
    BY <1>1, <2>1, <2>2 DEF RowSteps
<1>2. CASE Children[s] = {}
  <2>1. PICK value \in Measured \cup Outcomes \cup Verdicts : data = {<<s, value>>}
    <3>1. CASE Kind[s] = "decision"
      <4>1. data = {<<s, Passes(content[Input[s]].data, identity[s])>>}
        BY <1>2, <3>1 DEF Results
      <4> QED
        BY <4>1 DEF Passes, Outcomes
    <3>2. CASE Kind[s] = "conditional"
      <4>1. data = {<<s, Verdict(Outcome(Input[s]))>>}
        BY <1>2, <3>2 DEF Results
      <4> QED
        BY <4>1 DEF Verdict, Verdicts
    <3>3. CASE Kind[s] \notin {"decision", "conditional"}
      <4>1. \E value \in Values[s] : data = {<<s, value>>}
        BY <1>2, <3>3 DEF Results
      <4> QED
        BY <4>1 DEF Measured
    <3> QED
      BY <3>1, <3>2, <3>3
  <2> QED
    BY <1>2, <2>1 DEF Rows, RowSteps
<1> QED
  BY <1>1, <1>2

LEMMA UnitsStep ==
  ASSUME Typed, BoundInv, UnitsInv, RunnerNext,
         pc = "attempt" /\ Deciding(Step) => Input[Step] \notin skippedBy
  PROVE  UnitsInv'
<1>1. \A s \in Steps : (Changes => s # Step) => SameUnit(s)
  BY UnitsOfStep
<1>2. \A s \in Steps : (Changes => s # Step) =>
         IF live'[s] = {} THEN content'[s] = Absent ELSE UnitTyped(s)'
  BY <1>1, UnitStays DEF UnitsInv
<1>3. CASE PublishStep
  <2>1. PICK now \in Steps : now = Step
    BY <1>3, TurnOf DEF Changes
  <2>2. PICK data \in Results(now) :
          content'[now] = [identity |-> identity[now], data |-> data,
                           evidence |-> Evidence(now, Read(now)), intact |-> TRUE]
    BY <1>3, <2>1, PublishMakes
  <2>3. live'[now] # {} /\ InputsThere(now)
    BY <1>3, <2>1, PublishMakes
  <2>4. Read(now) \in SUBSET Sources(now) /\ \A p \in Read(now) : live[p] # {}
    BY <2>3 DEF Read, InputsThere
  <2>5. Deciding(now) => Read(now) = {Input[now]}
    BY <1>3, <2>1 DEF Read, Sources, PublishStep
  <2>6. data \in SUBSET Rows /\ \A row \in data : row[1] \in RowSteps(now)
    BY <2>3, ResultsTyped
  <2>7. identity[now] \in Identities
    BY ConstantFacts DEF BoundInv, Identities
  <2> DEFINE evidence == Evidence(now, Read(now))
  <2>8. /\ DOMAIN evidence = Read(now)
        /\ \A p \in Read(now) : evidence[p] \in [data : SUBSET Rows, identity : Identities]
    BY <2>4, EvidenceTyped
  <2> HIDE DEF evidence
  <2>9. /\ content'[now].identity = identity[now] /\ content'[now].data = data
        /\ content'[now].evidence = evidence
    BY <2>2 DEF evidence
  <2>10. UnitTyped(now)'
    BY <2>4, <2>5, <2>6, <2>7, <2>8, <2>9 DEF UnitTyped
  <2> QED
    BY <1>2, <1>3, <2>1, <2>3, <2>10 DEF UnitsInv, Changes
<1>4. CASE Retires
  <2>1. PICK now \in Steps : now = Step
    BY <1>4, TurnOf DEF Changes
  <2> QED
    BY <1>2, <1>4, <2>1, RetireMakes DEF UnitsInv, Changes
<1>5. CASE ~Changes
  BY <1>2, <1>5 DEF UnitsInv
<1> QED
  BY <1>3, <1>4, <1>5 DEF Changes

-----------------------------------------------------------------------------
(* What the verdicts of this run took out, and the words of the steps      *)
(* behind the turn.                                                        *)

Done == {"completed", "reused"}

\* The conditionals whose verdicts count in this run, and what they gate.
Decided == {t \in Steps : Kind[t] = "conditional" /\ memory[t] \in Done}
GatedSoFar == UNION {Gated(t) : t \in Decided}

SkipsInv ==
  IF pc = "idle" THEN skippedBy = {}
  ELSE LeastGrown(skippedBy, Steps, Steps, GatedSoFar, Skipping)

Behind(s) ==
  /\ memory[s] \in Done \cup {"skipped"}
  /\ memory[s] = "skipped" <=> s \in skippedBy
  /\ memory[s] = "skipped" => live[s] = {}

Kept == {"decide", "tell_reuse", "attempt", "published", "commit", "complete", "warn"}

TurnsInv ==
  /\ pc # "idle" => \A i \in 1..Length : i < pos => Behind(Order[i])
  /\ pc \in Kept => Step \notin skippedBy
  /\ pc \in {"tell_skip", "retire"} => Step \in skippedBy
  /\ pc = "tell_reuse" => memory[Step] = "reused"
  /\ pc = "complete" => memory[Step] = "completed"

LEMMA SkippedClosed ==
  ASSUME SkipsInv, pc # "idle", NEW s \in Steps, s \notin skippedBy
  PROVE  /\ skippedBy \in SUBSET Steps
         /\ \A d \in Deps[s] \ SelectedChildren[s] : d \notin skippedBy
         /\ SelectedChildren[s] # {} => \E c \in SelectedChildren[s] : c \notin skippedBy
<1>1. skippedBy \in SUBSET Steps /\ skippedBy \notin Skipping[s]
  BY DEF SkipsInv, LeastGrown, Grown
<1>2. SkippedVia(s, skippedBy) = {}
  BY <1>1 DEF Skipping
<1> QED
  BY <1>1, <1>2 DEF SkippedVia

LEMMA GatedIn ==
  ASSUME UnitsInv, NEW s \in Steps, Kind[s] = "conditional", live[s] # {}
  PROVE  Gated(s) \in SUBSET Steps /\ \A g \in Gated(s) : s \in Deps[g]
<1>1. \A row \in content[s].data : row[1] \in {s} \cup Children[s]
  BY DEF UnitsInv, UnitTyped, RowSteps
<1>2. ASSUME NEW row \in content[s].data
      PROVE  \A g \in WithChildren(OnTrue[row[1]] \cup OnFalse[row[1]]) : s \in Deps[g] /\ g \in Steps
  <2>1. row[1] \in Steps
    BY <1>1, <1>2, ConstantFacts
  <2>2. OnTrue[row[1]] \in SUBSET Steps /\ OnFalse[row[1]] \in SUBSET Steps
    BY <2>1, ExpansionAssumption
  <2>3. \A g \in WithChildren(OnTrue[row[1]] \cup OnFalse[row[1]]) : g \in Steps
    BY <2>2, ConstantFacts DEF WithChildren
  <2> QED
    BY <1>1, <1>2, <2>3, ExpansionAssumption
<1>3. ASSUME NEW g \in Gated(s)
      PROVE  \E row \in content[s].data : g \in WithChildren(OnTrue[row[1]] \cup OnFalse[row[1]])
  BY <1>3 DEF Gated, WithChildren
<1> QED
  BY <1>2, <1>3

LEMMA GatedSame ==
  ASSUME NEW s \in Steps, SameUnit(s) PROVE Gated(s)' = Gated(s)
BY DEF SameUnit, Gated

\* What a step of the runner does to what the run remembers.
Remembers(word) == memory' = [memory EXCEPT ![Step] = word]
MemoryKinds ==
  \/ StartRun
  \/ /\ pc # "idle" /\ (ReuseStep \/ Remember)
  \/ /\ pc # "idle" /\ skippedBy' = skippedBy
     /\ \/ memory' = memory
        \/ Remembers("skipped") /\ BeginStep
        \/ Remembers("failed") /\ pc \in {"attempt", "published"} /\ pc' = "warn" /\ pos' = pos

LEMMA MemoryMoves == ASSUME RunnerNext, pc' # "idle" PROVE MemoryKinds
<1> USE DEF MemoryKinds, Remembers, Goto, NextStep, Exit
<1>1. CASE StartRun \/ ReuseStep \/ Remember
  BY <1>1 DEF ReuseStep, Remember
<1>2. CASE BeginStep
  BY <1>2 DEF BeginStep
<1>3. CASE TellSkip \/ RetireSkippedUnit \/ TellReuse \/ DoNotReuse \/ PublishStep
  BY <1>3 DEF TellSkip, RetireSkippedUnit, TellReuse, DoNotReuse, PublishStep
<1>4. CASE TellCommitted \/ TellCompleted \/ TellFailed \/ LoopEnds
  BY <1>4 DEF TellCommitted, TellCompleted, TellFailed, LoopEnds
<1>5. CASE RefuseAttempt
  BY <1>5 DEF RefuseAttempt, Fail
<1>6. CASE WithholdManifest \/ WriteTemporary \/ RenameManifest \/ EndRun
  BY <1>6 DEF WithholdManifest, WriteTemporary, RenameManifest, EndRun
<1>7. CASE Faulty
  <2>1. ASSUME NEW kind \in {"exception", "interrupt"}, AttemptRaises(kind) PROVE MemoryKinds
    BY <2>1 DEF AttemptRaises, Fail
  <2>2. CASE LoopRaises \/ Interrupt
    BY <2>2 DEF LoopRaises, Interrupt, LoopPoints, EmitPoints
  <2>3. CASE TellFails \/ ManifestFails \/ Kill
    BY <2>3 DEF TellFails, Telling, EmitPoints, ManifestFails, Kill
  <2> QED
    BY <1>7, <2>1, <2>2, <2>3 DEF Faulty
<1>8. CASE (\E s \in Steps : Edit(s) \/ Damage(s)) \/ FreshStream
  BY <1>8 DEF Edit, Damage, FreshStream, procVars
<1> QED
  BY <1>1, <1>2, <1>3, <1>4, <1>5, <1>6, <1>7, <1>8 DEF RunnerNext, RunnerStep

LEMMA NoneDecided == LeastGrown({}, Steps, Steps, {}, Skipping)
<1>1. \A s \in Steps : {} \notin Skipping[s]
  BY DEF Skipping, SkippedVia
<1> QED
  BY <1>1 DEF LeastGrown, Grown

\* What the run decides at a step that was made or reused.
LEMMA Decides ==
  ASSUME Typed, MemoryInv, ReuseStep \/ Remember, NEW now \in Steps, now = Step
  PROVE  /\ UNCHANGED <<live, content, pos>> /\ pos \in 1..Length /\ live[now] # {}
         /\ memory[now] = "none"
         /\ \E word \in Done : memory' = [memory EXCEPT ![now] = word]
         /\ skippedBy' = IF Kind[now] = "conditional"
                            THEN FoldSkips(Gated(now), skippedBy) ELSE skippedBy
<1>1. pos \in 1..Length
  BY OrderFacts DEF ReuseStep, Remember, Typed, ProcTyped, InTurn
<1>2. memory[now] = "none"
  BY <1>1 DEF ReuseStep, Remember, MemoryInv, PointInv
<1>3. live[now] # {}
  BY DEF ReuseStep, Reusable, Remember, MemoryInv, PointInv
<1>4. UNCHANGED <<live, content, pos>>
  BY DEF ReuseStep, Remember, treeView
<1> QED
  BY <1>1, <1>2, <1>3, <1>4 DEF ReuseStep, Remember, Fold, Done

LEMMA GatedSoFarStays ==
  ASSUME Typed, MemoryInv, RunnerNext, pc # "idle"
  PROVE  \A t \in Decided : Gated(t)' = Gated(t)
<1>1. ASSUME NEW t \in Decided PROVE Changes => t # Step
  <2>1. Changes => memory[Step] \in {"none", "skipped"}
    BY ChangesInTurn DEF Changes, PublishStep, Retires, RetireSkippedUnit, MemoryInv, PointInv
  <2> QED
    BY <2>1 DEF Decided, Done
<1> QED
  BY <1>1, UnitsOfStep, GatedSame DEF Decided

\* A process that is gone has taken nothing out.
LEMMA IdleSkipsNothing ==
  ASSUME RunnerNext, pc' = "idle", pc = "idle" => skippedBy = {} PROVE skippedBy' = {}
<1> USE DEF Goto, NextStep, Exit
<1>1. CASE StartRun \/ BeginStep \/ TellSkip \/ TellReuse \/ RetireSkippedUnit \/ TellCommitted
           \/ TellCompleted
  BY <1>1 DEF StartRun, BeginStep, TellSkip, TellReuse, RetireSkippedUnit, TellCommitted,
     TellCompleted
<1>2. CASE ReuseStep \/ DoNotReuse \/ PublishStep \/ Remember \/ RefuseAttempt \/ TellFailed
  BY <1>2 DEF ReuseStep, DoNotReuse, PublishStep, Remember, RefuseAttempt, Fail, TellFailed
<1>3. CASE LoopEnds \/ WithholdManifest \/ WriteTemporary \/ RenameManifest \/ EndRun
  BY <1>3 DEF LoopEnds, WithholdManifest, WriteTemporary, RenameManifest, EndRun
<1>4. CASE Faulty
  BY <1>4 DEF Faulty, AttemptRaises, Fail, LoopRaises, Interrupt, TellFails, ManifestFails, Kill
<1>5. CASE (\E s \in Steps : Edit(s) \/ Damage(s)) \/ FreshStream
  BY <1>5 DEF Edit, Damage, FreshStream, procVars
<1> QED
  BY <1>1, <1>2, <1>3, <1>4, <1>5 DEF RunnerNext, RunnerStep

LEMMA SkipsStep ==
  ASSUME Typed, MemoryInv, UnitsInv, SkipsInv, RunnerNext PROVE SkipsInv'
<1>1. CASE pc' = "idle"
  BY <1>1, IdleSkipsNothing DEF SkipsInv
<1>2. CASE StartRun
  <2>1. memory' = NoWords /\ skippedBy' = {}
    BY <1>2 DEF StartRun
  <2>2. Decided' = {}
    BY <2>1 DEF Decided, NoWords, Done
  <2>3. GatedSoFar' = {} /\ pc' # "idle"
    BY <1>2, <2>2 DEF GatedSoFar, StartRun
  <2> QED
    BY <2>1, <2>3, NoneDecided DEF SkipsInv
<1>3. CASE pc # "idle" /\ pc' # "idle" /\ (ReuseStep \/ Remember)
  <2>1. PICK now \in Steps : now = Step
    BY <1>3, StepIsOne DEF ReuseStep, Remember, Typed, ProcTyped, InTurn
  <2>2. PICK word \in Done : memory' = [memory EXCEPT ![now] = word]
    BY <1>3, <2>1, Decides
  <2>3. Decided' = Decided \cup {t \in {now} : Kind[t] = "conditional"}
    BY <2>2 DEF Decided, Typed, ProcTyped
  <2>4. \A t \in Steps : Gated(t)' = Gated(t)
    BY <1>3, <2>1, Decides DEF Gated
  <2>5. CASE Kind[now] = "conditional"
    <3>1. Gated(now) \in SUBSET Steps
      BY <1>3, <2>1, <2>5, Decides, GatedIn
    <3>2. GatedSoFar' = GatedSoFar \cup Gated(now)
      <4>1. Decided' = Decided \cup {now} /\ Decided \subseteq Steps
        BY <2>3, <2>5 DEF Decided
      <4>2. GatedSoFar' = UNION {Gated(t)' : t \in Decided \cup {now}}
        BY <4>1 DEF GatedSoFar
      <4>3. GatedSoFar' = UNION {Gated(t) : t \in Decided \cup {now}}
        BY <2>4, <4>1, <4>2
      <4> QED
        BY <4>3 DEF GatedSoFar
    <3>3. skippedBy' = FoldSkips(Gated(now), skippedBy)
      BY <1>3, <2>1, <2>5, Decides
    <3>4. LeastGrown(skippedBy, Steps, Steps, GatedSoFar, Skipping) /\ GatedSoFar \in SUBSET Steps
      BY <1>3 DEF SkipsInv, LeastGrown, Grown
    <3>5. LeastGrown(FoldSkips(Gated(now), skippedBy), Steps, Steps, GatedSoFar \cup Gated(now), Skipping)
      BY <3>1, <3>4, FoldMore
    <3> QED
      BY <1>3, <3>2, <3>3, <3>5 DEF SkipsInv
  <2>6. CASE Kind[now] # "conditional"
    <3>1. Decided' = Decided /\ skippedBy' = skippedBy /\ Decided \subseteq Steps
      BY <1>3, <2>1, <2>3, <2>6, Decides DEF Decided
    <3>2. GatedSoFar' = GatedSoFar
      BY <2>4, <3>1 DEF GatedSoFar
    <3> QED
      BY <1>3, <3>1, <3>2 DEF SkipsInv
  <2> QED
    BY <2>5, <2>6
<1>4. CASE pc # "idle" /\ pc' # "idle" /\ skippedBy' = skippedBy /\ Decided' = Decided
  <2>1. GatedSoFar' = GatedSoFar
    BY <1>4, GatedSoFarStays DEF GatedSoFar
  <2> QED
    BY <1>4, <2>1 DEF SkipsInv
<1>5. ASSUME pc # "idle", NEW word \in {"skipped", "failed"}, Remembers(word),
             BeginStep \/ pc \in {"attempt", "published"}
      PROVE  Decided' = Decided
  <2>1. Step \in Steps /\ memory[Step] = "none"
    BY <1>5, StepIsOne DEF BeginStep, Typed, ProcTyped, InTurn, MemoryInv, PointInv
  <2>2. PICK now \in Steps : now = Step
    BY <2>1
  <2>3. memory' = [memory EXCEPT ![now] = word] /\ memory[now] = "none"
    BY <1>5, <2>1, <2>2 DEF Remembers
  <2> QED
    BY <2>3 DEF Decided, Done, Typed, ProcTyped
<1>6. memory' = memory => Decided' = Decided
  BY DEF Decided
<1> QED
  BY <1>1, <1>2, <1>3, <1>4, <1>5, <1>6, MemoryMoves DEF MemoryKinds

\* A verdict takes out steps ahead of the turn only.
LEMMA SkipsStay ==
  ASSUME Typed, MemoryInv, UnitsInv, SkipsInv, RunnerNext, pc # "idle", pc' # "idle",
         NEW k \in 1..Length, k <= pos
  PROVE  Order[k] \in skippedBy' <=> Order[k] \in skippedBy
<1>1. CASE skippedBy' = skippedBy
  BY <1>1
<1>2. CASE ReuseStep \/ Remember
  <2>1. PICK now \in Steps : now = Step
    BY <1>2, StepIsOne DEF ReuseStep, Remember, Typed, ProcTyped, InTurn
  <2>2. CASE Kind[now] = "conditional"
    <3>1. Gated(now) \in SUBSET Steps /\ \A g \in Gated(now) : now \in Deps[g]
      BY <1>2, <2>1, <2>2, Decides, GatedIn
    <3>2. pos \in 1..Length /\ skippedBy' = FoldSkips(Gated(now), skippedBy)
      BY <1>2, <2>1, <2>2, Decides
    <3>3. ASSUME NEW m \in 1..Length, Order[m] \in Gated(now) PROVE m > pos
      <4>1. Order[pos] \in Deps[Order[m]]
        BY <2>1, <3>1, <3>3 DEF Step
      <4>2. PICK j \in 1..(m - 1) : Order[j] = Order[pos]
        BY <4>1, DepsBefore
      <4>3. j \in 1..Length /\ Length \in Nat
        BY OrderFacts
      <4> QED
        BY <3>2, <4>2, <4>3, OrderFacts
    <3>4. LeastGrown(skippedBy, Steps, Steps, GatedSoFar, Skipping) /\ GatedSoFar \in SUBSET Steps
      BY DEF SkipsInv, LeastGrown, Grown
    <3>5. skippedBy \subseteq FoldSkips(Gated(now), skippedBy)
      BY <3>1, <3>4, FoldMore
    <3>6. Order[k] \in FoldSkips(Gated(now), skippedBy) => Order[k] \in skippedBy
      <4>1. pos \in 0..Length
        BY <3>2, OrderFacts
      <4> QED
        BY <3>1, <3>3, <3>4, <4>1, FoldAhead
    <3> QED
      BY <3>2, <3>5, <3>6
  <2>3. CASE Kind[now] # "conditional"
    BY <1>2, <2>1, <2>3, Decides
  <2> QED
    BY <2>2, <2>3
<1>3. ~StartRun
  BY DEF StartRun
<1> QED
  BY <1>1, <1>2, <1>3, MemoryMoves DEF MemoryKinds

\* Only the word of the step whose turn it is changes within a run.
LEMMA WordsBehindStay ==
  ASSUME Typed, RunnerNext, pc # "idle", pc' # "idle", NEW s \in Steps, s # Step
  PROVE  memory'[s] = memory[s]
<1>1. ~StartRun
  BY DEF StartRun
<1>2. CASE ReuseStep \/ Remember
  BY <1>2 DEF ReuseStep, Remember, Typed, ProcTyped
<1>3. ASSUME NEW word, Remembers(word) PROVE memory'[s] = memory[s]
  BY <1>3 DEF Remembers
<1> QED
  BY <1>1, <1>2, <1>3, MemoryMoves DEF MemoryKinds

LEMMA PointKinds ==
  ASSUME RunnerNext, pc' \in Kept \cup {"tell_skip", "retire"}
  PROVE  /\ pos' = pos
         /\ BeginStep \/ (pc \in Kept /\ pc' \in Kept) \/ TellSkip
         /\ pc' = "tell_reuse" => ReuseStep
         /\ pc' = "complete" => TellCommitted
<1> USE DEF Goto, NextStep, Exit, Kept
<1>1. CASE StartRun \/ BeginStep \/ TellSkip \/ TellReuse \/ RetireSkippedUnit \/ TellCommitted
           \/ TellCompleted
  BY <1>1 DEF StartRun, BeginStep, TellSkip, TellReuse, RetireSkippedUnit, TellCommitted,
     TellCompleted
<1>2. CASE ReuseStep \/ DoNotReuse \/ PublishStep \/ Remember \/ RefuseAttempt \/ TellFailed
  BY <1>2 DEF ReuseStep, DoNotReuse, PublishStep, Remember, RefuseAttempt, Fail, TellFailed
<1>3. CASE LoopEnds \/ WithholdManifest \/ WriteTemporary \/ RenameManifest \/ EndRun
  BY <1>3 DEF LoopEnds, WithholdManifest, WriteTemporary, RenameManifest, EndRun
<1>4. CASE Faulty
  BY <1>4 DEF Faulty, AttemptRaises, Fail, LoopRaises, Interrupt, TellFails, ManifestFails, Kill
<1>5. CASE (\E s \in Steps : Edit(s) \/ Damage(s)) \/ FreshStream
  <2>1. pc = "idle" /\ pc' = pc
    BY <1>5 DEF Edit, Damage, FreshStream, procVars
  <2> QED
    BY <2>1
<1> QED
  BY <1>1, <1>2, <1>3, <1>4, <1>5 DEF RunnerNext, RunnerStep

\* The turn of a step ends in a word and, of one taken out, without a unit.
LEMMA TurnSettles ==
  ASSUME Typed, MemoryInv, TurnsInv, RunnerNext, NextStep,
         pc \in {"retire", "tell_reuse", "complete"}, NEW now \in Steps, now = Step
  PROVE  Behind(now)'
<1>1. memory' = memory /\ skippedBy' = skippedBy /\ pc' = "turn" /\ pos' = pos + 1
  BY DEF NextStep
<1>2. CASE pc = "retire"
  <2>1. memory[now] = "skipped" /\ now \in skippedBy
    BY <1>2 DEF MemoryInv, PointInv, TurnsInv
  <2>2. live'[now] = {}
    <3>1. pos \in Nat
      BY OrderFacts DEF Typed, ProcTyped
    <3>2. RetireSkippedUnit
      BY <1>1, <1>2, <3>1 DEF RunnerNext, RunnerStep, StartRun, BeginStep, TellSkip, ReuseStep,
         TellReuse, DoNotReuse, PublishStep, Remember, TellCommitted, TellCompleted,
         RefuseAttempt, TellFailed, LoopEnds, WithholdManifest, WriteTemporary, RenameManifest,
         EndRun, Faulty, AttemptRaises, Fail, LoopRaises, Interrupt, TellFails, Telling,
         EmitPoints, ManifestFails, Kill, Exit, Edit, Damage, FreshStream
    <3>3. CASE Retires
      BY <3>3, RetireMakes
    <3>4. CASE ~Retires
      BY <3>2, <3>4 DEF Retires, RetireSkippedUnit, treeView
    <3> QED
      BY <3>3, <3>4
  <2> QED
    BY <1>1, <2>1, <2>2 DEF Behind
<1>3. CASE pc \in {"tell_reuse", "complete"}
  <2>1. memory[now] \in Done /\ now \notin skippedBy
    BY <1>3 DEF TurnsInv, Kept, Done
  <2> QED
    BY <1>1, <2>1 DEF Behind, Done
<1> QED
  BY <1>2, <1>3

LEMMA BehindStays ==
  ASSUME Typed, MemoryInv, UnitsInv, SkipsInv, TurnsInv, RunnerNext, pc # "idle", pc' # "idle",
         NEW i \in 1..Length, i < pos
  PROVE  Behind(Order[i])'
<1>1. PICK s \in Steps : s = Order[i]
  BY OrderFacts
<1>2. Behind(s)
  BY <1>1 DEF TurnsInv
<1>3. pos \in Nat /\ (pos <= Length => s # Step) /\ (Changes => s # Step)
  BY <1>1, ChangesInTurn, OrderFacts DEF Typed, ProcTyped, Step
<1>4. live'[s] = live[s]
  BY <1>3, OthersStay
<1>5. memory'[s] = memory[s]
  <2>1. CASE memory' = memory
    BY <2>1
  <2>2. CASE memory' # memory
    <3>1. pos <= Length
      BY <2>2, MemoryMoves DEF MemoryKinds, StartRun, ReuseStep, Remember, BeginStep, Typed,
         ProcTyped, InTurn
    <3> QED
      BY <1>3, <3>1, WordsBehindStay
  <2> QED
    BY <2>1, <2>2
<1>6. s \in skippedBy' <=> s \in skippedBy
  BY <1>1, <1>3, SkipsStay
<1>7. Behind(s)'
  BY <1>2, <1>4, <1>5, <1>6 DEF Behind
<1> QED
  BY <1>1, <1>7

LEMMA TurnsStep ==
  ASSUME Typed, MemoryInv, UnitsInv, SkipsInv, TurnsInv, RunnerNext PROVE TurnsInv'
<1> USE DEF Kept
<1>1. CASE pc' = "idle"
  BY <1>1 DEF TurnsInv
<1>2. CASE StartRun
  BY <1>2 DEF StartRun, TurnsInv
<1>3. CASE pc # "idle" /\ pc' # "idle" /\ pos' = pos
  <2>1. ASSUME NEW i \in 1..Length, i < pos' PROVE Behind(Order[i])'
    BY <1>3, <2>1, BehindStays
  <2>2. ASSUME pc' \in Kept \cup {"tell_skip", "retire"}
        PROVE  /\ pc' \in Kept => Step' \notin skippedBy'
               /\ pc' \in {"tell_skip", "retire"} => Step' \in skippedBy'
               /\ pc' = "tell_reuse" => memory'[Step'] = "reused"
               /\ pc' = "complete" => memory'[Step'] = "completed"
    <3>1. pos \in 1..Length /\ Step' = Step
      BY <1>3, <2>2, ProcTypedStep, OrderFacts DEF ProcTyped, InTurn, Step
    <3>2. PICK now \in Steps : now = Step /\ now = Order[pos]
      BY <3>1, OrderFacts DEF Step
    <3>3. now \in skippedBy' <=> now \in skippedBy
      BY <1>3, <3>1, <3>2, SkipsStay
    <3>4. pc' \in Kept => now \notin skippedBy
      BY <2>2, <3>2, PointKinds DEF TurnsInv, BeginStep, TellSkip, Goto
    <3>5. pc' \in {"tell_skip", "retire"} => now \in skippedBy
      BY <2>2, <3>2, PointKinds DEF TurnsInv, BeginStep, TellSkip, Goto
    <3>6. pc' = "tell_reuse" => memory'[now] = "reused"
      BY <2>2, <3>2, PointKinds DEF ReuseStep, Typed, ProcTyped
    <3>7. pc' = "complete" => memory'[now] = "completed"
      BY <2>2, <3>2, PointKinds DEF TellCommitted, Goto, MemoryInv, PointInv
    <3> QED
      BY <3>1, <3>2, <3>3, <3>4, <3>5, <3>6, <3>7
  <2> QED
    BY <2>1, <2>2 DEF TurnsInv
<1>4. CASE pc # "idle" /\ NextStep /\ pc \in {"retire", "tell_reuse", "complete"}
  <2>1. pos \in 1..Length /\ pos' = pos + 1 /\ pc' = "turn"
    BY <1>4, OrderFacts DEF Typed, ProcTyped, InTurn, NextStep
  <2>2. PICK now \in Steps : now = Step /\ now = Order[pos]
    BY <2>1, OrderFacts DEF Step
  <2>3. Behind(now)'
    BY <1>4, <2>2, TurnSettles
  <2>4. ASSUME NEW i \in 1..Length, i < pos' PROVE Behind(Order[i])'
    <3>1. CASE i < pos
      BY <1>4, <2>1, <3>1, BehindStays
    <3>2. CASE i = pos
      BY <2>2, <2>3, <3>2
    <3> QED
      BY <2>1, <2>4, <3>1, <3>2
  <2> QED
    BY <2>1, <2>4 DEF TurnsInv
<1> QED
  BY <1>1, <1>2, <1>3, <1>4, PositionMoves DEF Positions

-----------------------------------------------------------------------------
(* What a run leaves behind a turn stands until the run is over.           *)

Stands(s) ==
  live[s] # {} => /\ content[s].identity = identity[s] /\ content[s].intact
                  /\ EvidenceHolds(s)

StandsInv ==
  pc # "idle" =>
    /\ \A i \in 1..Length : i < pos => Stands(Order[i])
    /\ pc \in {"tell_reuse", "published", "commit", "complete"} => Stands(Step)

LEMMA ReceiptStays ==
  ASSUME NEW s \in Steps, ReceiptMet(s), \A r \in Receipts[s] : SameUnit(r.step)
  PROVE  ReceiptMet(s)'
<1>1. ASSUME NEW r \in Receipts[s] PROVE live'[r.step] # {} /\ Outcome(r.step)' = r.outcome
  BY DEF SameUnit, ReceiptMet, Outcome, Passes
<1> QED
  BY <1>1 DEF ReceiptMet

\* What a step would bind to is as the units it rests on are.
LEMMA RecordsStay ==
  ASSUME NEW s \in Steps, NEW sources, \A p \in sources : SameUnit(p)
  PROVE  Evidence(s, sources)' = Evidence(s, sources)
<1>1. ASSUME NEW p \in sources
      PROVE  Recorded(p)' = Recorded(p) /\ EvidenceIdentity(p)' = EvidenceIdentity(p)
  BY DEF SameUnit, Recorded, EvidenceIdentity
<1> QED
  BY <1>1 DEF Evidence

LEMMA EvidenceStays ==
  ASSUME NEW s \in Steps, EvidenceHolds(s), SameUnit(s), \A d \in Deps[s] : SameUnit(d)
  PROVE  EvidenceHolds(s)'
<1>1. \A r \in Receipts[s] : r.step \in Deps[s]
  BY RunnerAssumption
<1>2. ReceiptMet(s)'
  BY <1>1, ReceiptStays DEF EvidenceHolds
<1> DEFINE there == {p \in Sources(s) : live[p] # {}}
<1>3. \A p \in Sources(s) : SameUnit(p)
  BY ConstantFacts
<1>4. PICK sources : sources = there
  OBVIOUS
<1>7. {p \in Sources(s) : live'[p] # {}} = sources
  BY <1>3, <1>4 DEF SameUnit
<1>8. CurrentEvidence(s)' = Evidence(s, sources)'
  BY <1>7 DEF CurrentEvidence, Sources, Deciding
<1>5. Evidence(s, sources)' = Evidence(s, sources)
  <2>1. \A p \in sources : SameUnit(p)
    BY <1>3, <1>4
  <2> QED
    BY <2>1, RecordsStay
<1>6. content'[s].evidence = CurrentEvidence(s)'
  BY <1>4, <1>5, <1>8 DEF EvidenceHolds, SameUnit, CurrentEvidence
<1> QED
  BY <1>2, <1>6 DEF EvidenceHolds

LEMMA StandsOn ==
  ASSUME Typed, RunnerNext, pc # "idle", NEW i \in 1..Length,
         i < pos \/ ~Changes, i <= pos, Stands(Order[i])
  PROVE  Stands(Order[i])'
<1>1. PICK s \in Steps : s = Order[i]
  BY OrderFacts
<1>2. \A j \in 1..Length : j <= i => (Changes => Order[j] # Step)
  BY ChangesInTurn, OrderFacts DEF Step
<1>3. \A j \in 1..Length : j <= i => SameUnit(Order[j])
  BY <1>2, OrderFacts, OthersStay DEF SameUnit
<1>4. SameUnit(s) /\ content'[s] = content[s] /\ identity' = identity
  BY <1>1, <1>2, <1>3, OthersStay
<1>5. ASSUME NEW d \in Deps[s] PROVE SameUnit(d)
  <2>1. PICK j \in 1..(i - 1) : Order[j] = d
    BY <1>1, DepsBefore
  <2>2. j \in 1..Length /\ j <= i
    BY <2>1, OrderFacts
  <2> QED
    BY <1>3, <2>1, <2>2
<1>6. EvidenceHolds(s) => EvidenceHolds(s)'
  BY <1>4, <1>5, EvidenceStays
<1>7. Stands(s)'
  BY <1>1, <1>4, <1>6 DEF Stands, SameUnit
<1> QED
  BY <1>1, <1>7

\* A step is published on what its inputs say, and they say no more.
LEMMA PublishedStands ==
  ASSUME Typed, TurnsInv, PublishStep, RunnerNext, NEW now \in Steps, now = Step
  PROVE  Stands(now)'
<1>1. pos \in 1..Length /\ pc # "idle"
  BY ChangesInTurn DEF Changes
<1>2. PICK data \in Results(now) :
        content'[now] = [identity |-> identity[now], data |-> data,
                         evidence |-> Evidence(now, Read(now)), intact |-> TRUE]
  BY PublishMakes
<1>3. ASSUME NEW d \in Deps[now]
      PROVE  SameUnit(d) /\ (d \in skippedBy => live[d] = {})
  <2>1. PICK j \in 1..(pos - 1) : Order[j] = d
    BY <1>1, DepsBefore DEF Step
  <2>2. j \in 1..Length /\ j < pos /\ d \in Steps /\ d # Step
    BY <1>1, <2>1, OrderFacts DEF Step
  <2>3. Behind(d)
    BY <1>1, <2>1, <2>2 DEF TurnsInv
  <2> QED
    BY <1>1, <2>2, <2>3, OthersStay DEF SameUnit, Behind
<1>4. ReceiptMet(now)'
  BY <1>3, ReceiptStays, PublishMakes, RunnerAssumption
<1>5. \A p \in Sources(now) : p \in Deps[now]
  BY ConstantFacts
<1>6. PICK sources : sources = Read(now)
  OBVIOUS
<1>7. {p \in Sources(now) : live'[p] # {}} = sources
  BY <1>3, <1>5, <1>6, PublishMakes DEF Read, InputsThere, SameUnit
<1>8. CurrentEvidence(now)' = Evidence(now, sources)'
  BY <1>7 DEF CurrentEvidence, Sources, Deciding
<1>9. Evidence(now, sources)' = Evidence(now, sources)
  BY <1>3, <1>5, <1>6, RecordsStay DEF Read
<1>10. content'[now].evidence = Evidence(now, sources)
  BY <1>2, <1>6
<1>11. EvidenceHolds(now)'
  BY <1>4, <1>8, <1>9, <1>10 DEF EvidenceHolds
<1> QED
  BY <1>2, <1>11, PublishMakes DEF Stands

LEMMA TurnEnds ==
  ASSUME Typed, StandsInv, RunnerNext, NextStep, pc \in {"retire", "tell_reuse", "complete"},
         NEW now \in Steps, now = Step
  PROVE  Stands(now)'
<1>1. pos \in 1..Length /\ now = Order[pos] /\ pc # "idle"
  BY OrderFacts DEF Typed, ProcTyped, InTurn, Step
<1>2. CASE pc = "retire"
  <2>1. live'[now] = {}
    <3>1. RetireSkippedUnit
      BY <1>2 DEF RunnerNext, RunnerStep, StartRun, BeginStep, TellSkip, ReuseStep, TellReuse,
         DoNotReuse, PublishStep, Remember, TellCommitted, TellCompleted, RefuseAttempt,
         TellFailed, LoopEnds, WithholdManifest, WriteTemporary, RenameManifest, EndRun,
         Faulty, AttemptRaises, Fail, LoopRaises, Interrupt, TellFails, Telling, EmitPoints,
         ManifestFails, Kill, Exit, Edit, Damage, FreshStream, NextStep, procVars
    <3>2. CASE Retires
      BY <3>2, RetireIs DEF Typed, TreeTyped
    <3>3. CASE ~Retires
      BY <3>1, <3>3 DEF Retires, RetireSkippedUnit, treeView
    <3> QED
      BY <3>2, <3>3
  <2> QED
    BY <2>1 DEF Stands
<1>3. CASE pc # "retire"
  <2>1. ~Changes
    BY <1>3, ChangesInTurn
  <2>2. Stands(Order[pos])
    BY <1>1, <1>3 DEF StandsInv, Step
  <2>3. Stands(Order[pos]) => \A i \in 1..Length : i = pos => Stands(Order[i])'
    BY <1>1, <2>1, StandsOn
  <2>4. PICK i \in 1..Length : i = pos
    BY <1>1
  <2>5. Stands(Order[i])'
    BY <2>2, <2>3, <2>4
  <2> QED
    BY <1>1, <2>4, <2>5
<1> QED
  BY <1>2, <1>3

LEMMA StandsStep ==
  ASSUME Typed, TurnsInv, StandsInv, RunnerNext PROVE StandsInv'
<1>1. CASE pc' = "idle"
  BY <1>1 DEF StandsInv
<1>2. CASE StartRun
  BY <1>2 DEF StartRun, StandsInv
<1>3. CASE pc # "idle" /\ pc' # "idle" /\ pos' = pos
  <2>1. pos \in Nat
    BY OrderFacts DEF Typed, ProcTyped
  <2>2. ASSUME NEW i \in 1..Length, i < pos PROVE Stands(Order[i])'
    BY <1>3, <2>1, <2>2, StandsOn DEF StandsInv
  <2>3. ASSUME pc' \in {"tell_reuse", "published", "commit", "complete"} PROVE Stands(Step)'
    <3>1. pos \in 1..Length /\ Step' = Step
      BY <1>3, <2>3, ProcTypedStep, OrderFacts DEF ProcTyped, InTurn, Step
    <3>2. PICK now \in Steps : now = Step
      BY <3>1, OrderFacts DEF Step
    <3>3. CASE PublishStep
      BY <3>1, <3>2, <3>3, PublishedStands
    <3>4. CASE ReuseStep \/ pc \in {"published", "commit"}
      <4>1. ~Changes
        BY <3>4, ChangesInTurn DEF ReuseStep
      <4>2. Stands(now)
        <5>1. CASE ReuseStep
          BY <3>2, <5>1 DEF ReuseStep, Reusable, EvidenceHolds, Stands
        <5>2. CASE pc \in {"published", "commit"}
          BY <3>2, <5>2 DEF StandsInv
        <5> QED
          BY <3>4, <5>1, <5>2
      <4>3. PICK i \in 1..Length : i = pos /\ now = Order[i]
        BY <3>1, <3>2 DEF Step
      <4>4. Stands(Order[i])'
        BY <1>3, <2>1, <4>1, <4>2, <4>3, StandsOn
      <4> QED
        BY <3>1, <3>2, <4>3, <4>4
    <3> QED
      BY <2>3, <3>3, <3>4, StandingPoints
  <2> QED
    BY <1>3, <2>2, <2>3 DEF StandsInv
<1>4. CASE pc # "idle" /\ NextStep /\ pc \in {"retire", "tell_reuse", "complete"}
  <2>1. pos \in 1..Length /\ pos' = pos + 1 /\ pc' = "turn"
    BY <1>4, OrderFacts DEF Typed, ProcTyped, InTurn, NextStep
  <2>2. ASSUME NEW i \in 1..Length, i < pos PROVE Stands(Order[i])'
    BY <1>4, <2>1, <2>2, StandsOn DEF StandsInv
  <2>3. PICK now \in Steps : now = Step
    BY <2>1, OrderFacts DEF Step
  <2>4. Stands(now)'
    BY <1>4, <2>3, TurnEnds
  <2>5. now = Order[pos]
    BY <2>3 DEF Step
  <2>6. ASSUME NEW i \in 1..Length, i < pos' PROVE Stands(Order[i])'
    <3>1. CASE i < pos
      BY <2>2, <3>1
    <3>2. CASE i = pos
      BY <2>4, <2>5, <3>2
    <3> QED
      BY <2>1, <2>6, <3>1, <3>2
  <2> QED
    BY <2>1, <2>6 DEF StandsInv
<1> QED
  BY <1>1, <1>2, <1>3, <1>4, PositionMoves DEF Positions

-----------------------------------------------------------------------------
(* From what a unit says it was made, its rows follow.                     *)

Passing(record) == Verdict(Passes(record.data, record.identity))

\* The verdict of a child of a fanned-out conditional over its own rows of a record.
VerdictOn(record, c) ==
  Verdict(Passes({row \in record.data : row[1] = Input[c]}, record.identity))

Made(s) ==
  LET evidence == content[s].evidence
      rows == content[s].data
  IN /\ Kind[s] = "conditional" /\ Children[s] = {} /\ Kind[Input[s]] = "behavioral" =>
          rows = {<<s, Passing(evidence[Input[s]])>>}
     /\ Children[s] # {} /\ ~Deciding(s) =>
          /\ rows = UNION {evidence[c].data : c \in DOMAIN evidence}
          /\ \A c \in DOMAIN evidence : \A row \in evidence[c].data : row[1] = c
     /\ Children[s] # {} /\ Deciding(s) =>
          rows = {<<c, VerdictOn(evidence[Input[s]], c)>> : c \in Children[s]}

MadeInv == \A s \in Steps : live[s] # {} => Made(s)

LEMMA MadeStays == ASSUME NEW s \in Steps, SameUnit(s), Made(s) PROVE Made(s)'
<1>1. content'[s].data = content[s].data /\ content'[s].evidence = content[s].evidence
  BY DEF SameUnit
<1> QED
  BY <1>1 DEF Made, Deciding, Passing, Passes

\* The verdicts of a fanned-out conditional's children are those over the rows of
\* its producer that each is for.
LEMMA VerdictsAgree ==
  ASSUME Typed, BoundInv, UnitsInv, MadeInv,
         NEW s \in Steps, Children[s] # {}, Deciding(s), NEW p, p = Input[s],
         live[p] # {}, Stands(p),
         \A c \in Children[s] : live[c] # {} /\ Stands(c),
         \A c \in Children[p] : Stands(c)
  PROVE  /\ Kind[s] = "conditional" /\ Kind[p] = "behavioral"
         /\ UNION {content[c].data : c \in Children[s]} =
              {<<c, VerdictOn(Recorded(p), c)>> : c \in Children[s]}
<1>1. /\ Kind[s] = "conditional" /\ p \in Steps /\ Kind[p] = "behavioral" /\ Children[p] # {}
      /\ \A c \in Children[s] : Input[c] \in Children[p]
  <2>1. Kind[s] = "conditional"
    BY ExpansionAssumption DEF Deciding
  <2>2. Kind[p] \in {"behavioral", "decision"} /\ \A c \in Children[s] : Input[c] \in Children[p]
    BY <2>1, ExpansionAssumption
  <2>3. p \in Steps
    BY ConstantFacts
  <2>4. Children[p] # {}
    BY <2>2
  <2> QED
    BY <2>1, <2>2, <2>3, <2>4, ExpansionAssumption
<1>2. ASSUME NEW c \in Children[s], NEW k, k = Input[c]
      PROVE  /\ content[c].data = {<<c, Passing(Recorded(k))>>}
             /\ {row \in content[p].data : row[1] = k} = content[k].data
             /\ content[k].identity = content[p].identity
  <2>1. /\ c \in Steps /\ Kind[c] = "conditional" /\ Children[c] = {} /\ Deciding(c)
        /\ k \in Children[p] /\ k \in Steps /\ Kind[k] = "behavioral"
    <3>1. c \in Steps /\ Kind[c] = "conditional" /\ Children[c] = {}
      BY <1>1, ChildrenAre
    <3>2. k \in Children[p] /\ k \in Steps /\ Kind[k] = "behavioral"
      BY <1>1, <1>2, ChildrenAre
    <3> QED
      BY <3>1, <3>2 DEF Deciding
  <2>2. content[c].evidence = CurrentEvidence(c) /\ DOMAIN content[c].evidence = {k}
    BY <1>2, <2>1 DEF Stands, EvidenceHolds, UnitsInv, UnitTyped
  <2>3. live[k] # {} /\ content[c].evidence[k] = Recorded(k)
    BY <1>2, <2>1, <2>2 DEF CurrentEvidence, Evidence, EvidenceIdentity, Sources
  <2>4. content[c].data = {<<c, Passing(Recorded(k))>>}
    BY <1>2, <2>1, <2>3 DEF MadeInv, Made
  <2>5. content[k].identity = content[p].identity
    BY <1>1, <2>1, <2>3 DEF Stands, BoundInv
  <2>6. ~Deciding(p) /\ Made(p) /\ content[p].evidence = CurrentEvidence(p)
    BY <1>1 DEF Deciding, MadeInv, Stands, EvidenceHolds
  <2>7. k \in DOMAIN content[p].evidence /\ content[p].evidence[k].data = content[k].data
    BY <1>1, <2>1, <2>3, <2>6 DEF CurrentEvidence, Evidence, Recorded, Sources
  <2> DEFINE ev == content[p].evidence
  <2>8. /\ content[p].data = UNION {ev[d].data : d \in DOMAIN ev}
        /\ \A d \in DOMAIN ev : \A row \in ev[d].data : row[1] = d
    BY <1>1, <2>6 DEF Made
  <2> HIDE DEF ev
  <2>9. {row \in content[p].data : row[1] = k} = ev[k].data /\ ev[k].data = content[k].data
    BY <2>7, <2>8 DEF ev
  <2> QED
    BY <2>4, <2>5, <2>9
<1>3. ASSUME NEW c \in Children[s]
      PROVE  content[c].data = {<<c, VerdictOn(Recorded(p), c)>>}
  <2>1. PICK k : k = Input[c]
    OBVIOUS
  <2>2. /\ content[c].data = {<<c, Passing(Recorded(k))>>}
        /\ {row \in content[p].data : row[1] = k} = content[k].data
        /\ content[k].identity = content[p].identity
    BY <1>2, <2>1
  <2>3. /\ Recorded(p).data = content[p].data /\ Recorded(p).identity = content[p].identity
        /\ Recorded(k).data = content[k].data /\ Recorded(k).identity = content[k].identity
    BY DEF Recorded
  <2>4. VerdictOn(Recorded(p), c) = Verdict(Passes(content[k].data, content[k].identity))
    BY <2>1, <2>2, <2>3 DEF VerdictOn
  <2>5. Passing(Recorded(k)) = Verdict(Passes(content[k].data, content[k].identity))
    BY <2>3 DEF Passing
  <2> QED
    BY <2>2, <2>4, <2>5
<1> QED
  BY <1>1, <1>3

LEMMA NothingTakenOut ==
  ASSUME TurnsInv, SkipsInv, pc = "attempt", NEW s \in Steps, s = Step
  PROVE  /\ \A d \in Deps[s] \ SelectedChildren[s] : d \notin skippedBy
         /\ SelectedChildren[s] # {} => \E d \in SelectedChildren[s] : d \notin skippedBy
         /\ Deciding(s) => Input[s] \notin skippedBy
<1>1. s \notin skippedBy
  BY DEF TurnsInv, Kept
<1>2. /\ \A d \in Deps[s] \ SelectedChildren[s] : d \notin skippedBy
      /\ SelectedChildren[s] # {} => \E d \in SelectedChildren[s] : d \notin skippedBy
  BY <1>1, SkippedClosed
<1>3. Deciding(s) => Input[s] \in Deps[s] \ SelectedChildren[s]
  BY ConstantFacts, ExpansionAssumption
<1> QED
  BY <1>2, <1>3

LEMMA PublishedIsMade ==
  ASSUME Typed, BoundInv, UnitsInv, SkipsInv, TurnsInv, StandsInv, MadeInv, PublishStep,
         NEW now \in Steps, now = Step
  PROVE  Made(now)'
<1>1. pos \in 1..Length /\ pc = "attempt"
  BY ChangesInTurn DEF Changes, PublishStep
<1>2. PICK data \in Results(now) :
        content'[now] = [identity |-> identity[now], data |-> data,
                         evidence |-> Evidence(now, Read(now)), intact |-> TRUE]
  BY PublishMakes
<1>3. \A d \in Deps[now] : Stands(d)
  <2>1. ASSUME NEW d \in Deps[now] PROVE Stands(d)
    <3>1. PICK j \in 1..(pos - 1) : Order[j] = d
      BY <1>1, DepsBefore DEF Step
    <3>2. j \in 1..Length /\ j < pos
      BY <1>1, <3>1, OrderFacts
    <3> QED
      BY <1>1, <3>1, <3>2 DEF StandsInv
  <2> QED
    BY <2>1
<1>4. PICK evidence : evidence = Evidence(now, Read(now))
  OBVIOUS
<1>5. content'[now].evidence = evidence /\ content'[now].data = data
  BY <1>2, <1>4
<1>6. InputsThere(now)
  BY PublishMakes
<1>7. CASE Children[now] # {} /\ ~Deciding(now)
  <2>1. Read(now) = Children[now] \ skippedBy /\ Kind[now] # "conditional"
    BY <1>7 DEF Read, Sources, Deciding
  <2>2. data = UNION {content[c].data : c \in Read(now)}
    BY <1>2, <1>7, <2>1 DEF Results
  <2>3. DOMAIN evidence = Read(now) /\ \A c \in Read(now) : evidence[c].data = content[c].data
    BY <1>4, <2>1 DEF Evidence, Recorded
  <2>4. ASSUME NEW c \in Read(now) PROVE \A row \in content[c].data : row[1] = c
    <3>1. c \in Steps /\ Children[c] = {} /\ live[c] # {}
      BY <1>6, <2>1, ConstantFacts DEF InputsThere
    <3> QED
      BY <3>1 DEF UnitsInv, UnitTyped, RowSteps
  <2>5. data = UNION {evidence[c].data : c \in DOMAIN evidence}
    BY <2>2, <2>3
  <2>6. \A c \in DOMAIN evidence : \A row \in evidence[c].data : row[1] = c
    BY <2>3, <2>4
  <2> QED
    BY <1>5, <1>7, <2>5, <2>6 DEF Made, Deciding
<1>8. CASE Deciding(now)
  <2>1. PICK p : p = Input[now]
    OBVIOUS
  <2>2. Read(now) = {p} /\ p \in Deps[now] /\ p \in Steps
    BY <1>1, <1>8, <2>1, NothingTakenOut, ConstantFacts DEF Read, Sources
  <2>3. live[p] # {}
    BY <1>6, <2>2 DEF InputsThere
  <2>4. Kind[now] = "conditional" /\ Kind[p] = "behavioral" => evidence[p] = Recorded(p)
    BY <1>4, <2>2 DEF Evidence, EvidenceIdentity
  <2>5. CASE Children[now] = {}
    <3>1. ASSUME Kind[now] = "conditional", Kind[p] = "behavioral"
          PROVE  data = {<<now, Passing(evidence[p])>>}
      <4>1. data = {<<now, Verdict(Outcome(p))>>}
        BY <1>2, <2>1, <2>5, <3>1 DEF Results
      <4>2. Outcome(p) = Passes(content[p].data, content[p].identity)
        BY <3>1 DEF Outcome
      <4> QED
        BY <2>4, <3>1, <4>1, <4>2 DEF Passing, Recorded
    <3> QED
      BY <1>5, <2>1, <2>5, <3>1 DEF Made
  <2>6. CASE Children[now] # {}
    <3>1. \A c \in Children[now] : c \in Deps[now] /\ c \notin skippedBy
      BY <1>1, <1>8, NothingTakenOut, ConstantFacts, ExpansionAssumption
    <3>2. data = UNION {content[c].data : c \in Children[now]}
      <4>1. data = UNION {content[c].data : c \in Children[now] \ skippedBy}
        BY <1>2, <2>6 DEF Results
      <4>2. Children[now] \ skippedBy = Children[now]
        BY <3>1
      <4> QED
        BY <4>1, <4>2
    <3>3. \A c \in Children[now] : live[c] # {} /\ Stands(c)
      BY <1>3, <1>6, <3>1 DEF InputsThere
    <3>4. \A c \in Children[p] : Stands(c)
      <4>1. ASSUME NEW c \in Children[p] PROVE Stands(c)
        <5>1. PICK i \in 1..(pos - 1) : Order[i] = p
          BY <1>1, <2>2, DepsBefore DEF Step
        <5>2. i \in 1..Length /\ c \in Deps[Order[i]]
          BY <1>1, <2>2, <5>1, OrderFacts, ConstantFacts
        <5>3. PICK j \in 1..(i - 1) : Order[j] = c
          BY <5>2, DepsBefore
        <5>4. j \in 1..Length /\ j < pos
          BY <1>1, <5>1, <5>3, OrderFacts
        <5> QED
          BY <1>1, <5>3, <5>4 DEF StandsInv
      <4> QED
        BY <4>1
    <3>5. /\ Kind[now] = "conditional" /\ Kind[p] = "behavioral"
          /\ data = {<<c, VerdictOn(Recorded(p), c)>> : c \in Children[now]}
      BY <1>3, <1>8, <2>1, <2>2, <2>3, <2>6, <3>2, <3>3, <3>4, VerdictsAgree
    <3>6. evidence[p] = Recorded(p)
      BY <2>4, <3>5
    <3>7. data = {<<c, VerdictOn(evidence[p], c)>> : c \in Children[now]}
      BY <3>5, <3>6
    <3> QED
      BY <1>5, <1>8, <2>1, <2>6, <3>7 DEF Made
  <2> QED
    BY <2>5, <2>6
<1>9. CASE Children[now] = {} /\ ~Deciding(now)
  BY <1>9 DEF Made, Deciding
<1> QED
  BY <1>7, <1>8, <1>9

LEMMA MadeStep ==
  ASSUME Typed, BoundInv, UnitsInv, SkipsInv, TurnsInv, StandsInv, MadeInv, RunnerNext
  PROVE  MadeInv'
<1>1. ASSUME NEW s \in Steps, Changes => s # Step, live'[s] # {} PROVE Made(s)'
  BY <1>1, UnitsOfStep, MadeStays DEF MadeInv, SameUnit
<1>2. CASE PublishStep
  <2>1. PICK now \in Steps : now = Step
    BY <1>2, TurnOf DEF Changes
  <2> QED
    BY <1>1, <1>2, <2>1, PublishedIsMade DEF MadeInv
<1>3. CASE Retires
  <2>1. PICK now \in Steps : now = Step
    BY <1>3, TurnOf DEF Changes
  <2> QED
    BY <1>1, <1>3, <2>1, RetireMakes DEF MadeInv
<1>4. CASE ~Changes
  BY <1>1, <1>4 DEF MadeInv
<1> QED
  BY <1>2, <1>3, <1>4 DEF Changes

-----------------------------------------------------------------------------
(* No step is attempted below one that is not settled, and none is given a *)
(* word that it could only have earned below a settled one.                *)

LEMMA SettledAtAttempt ==
  ASSUME Typed, MemoryInv, SkipsInv, TurnsInv PROVE DependenciesSettled
<1> SUFFICES ASSUME pc = "attempt", NEW d \in Deps[Step]
             PROVE  \/ memory[d] \in {"completed", "reused"} /\ live[d] # {}
                    \/ /\ d \in SelectedChildren[Step] /\ memory[d] = "skipped"
                       /\ \E c \in SelectedChildren[Step] : memory[c] # "skipped"
  BY DEF DependenciesSettled
<1>1. pos \in 1..Length /\ pc # "idle"
  BY OrderFacts DEF Typed, ProcTyped, InTurn
<1>2. PICK now \in Steps : now = Step
  BY <1>1, OrderFacts DEF Step
<1>3. ASSUME NEW e \in Deps[now] PROVE e \in Steps /\ Behind(e) /\ Honest(e)
  <2>1. PICK j \in 1..(pos - 1) : Order[j] = e
    BY <1>1, <1>2, DepsBefore DEF Step
  <2>2. j \in 1..Length /\ j < pos
    BY <1>1, <2>1, OrderFacts
  <2>3. e \in Steps
    BY <2>1, <2>2, OrderFacts
  <2> QED
    BY <1>1, <2>1, <2>2, <2>3 DEF TurnsInv, MemoryInv, HonestInv, Unsaid, Ending
<1>4. CASE memory[d] \in Done
  BY <1>2, <1>3, <1>4 DEF Done, Honest
<1>5. CASE memory[d] = "skipped"
  <2>1. d \in SelectedChildren[now] /\ \E c \in SelectedChildren[now] : c \notin skippedBy
    BY <1>2, <1>3, <1>5, NothingTakenOut DEF Behind
  <2>2. \A c \in SelectedChildren[now] : memory[c] = "skipped" => c \in skippedBy
    BY <1>3, DepsAssumption DEF Behind
  <2> QED
    BY <1>2, <1>5, <2>1, <2>2
<1> QED
  BY <1>2, <1>3, <1>4, <1>5 DEF Behind

Follows(words) ==
  \A s \in Steps : \A d \in Deps[s] :
     /\ words[d] \in {"failed", "blocked"} => words[s] \in {"blocked", "skipped"}
     /\ words[d] = "pending" => words[s] \notin {"completed", "reused", "failed"}

\* The words of the steps a run did not reach follow those it did.
LEMMA WordsFollow ==
  ASSUME Typed, MemoryInv, TurnsInv, pc # "idle" PROVE Follows(Classified(memory))
<1> DEFINE skipped == AllSkipped(memory)
           blocked == AllBlocked(memory, skipped)
           words == Classified(memory)
<1>1. ASSUME NEW s \in Steps
      PROVE  words[s] = IF memory[s] # "none" THEN memory[s]
                        ELSE IF s \in skipped THEN "skipped"
                        ELSE IF s \in blocked THEN "blocked"
                        ELSE "pending"
  BY DEF Classified
<1>2. ASSUME NEW s \in Steps, memory[s] = "none", s \notin skipped,
             Deps[s] \cap (With("failed", memory) \cup blocked) # {}
      PROVE  s \in blocked
  <2>1. LeastGrown(blocked, Steps, With("none", memory) \ skipped, {}, Blocking(With("failed", memory)))
    BY AllBlockedIsLeast
  <2> HIDE DEF blocked, skipped
  <2>2. s \in With("none", memory) \ skipped /\ blocked \in SUBSET Steps
    BY <1>2, <2>1 DEF With, LeastGrown
  <2>3. blocked \in Blocking(With("failed", memory))[s]
    BY <1>2, <2>2 DEF Blocking
  <2> QED
    BY <2>1, <2>2, <2>3 DEF LeastGrown, Grown
<1> HIDE DEF blocked, skipped, words
<1>3. \A s \in Steps : memory[s] \in Reached
  BY DEF Typed, ProcTyped
<1>4. ASSUME NEW s \in Steps, NEW d \in Deps[s], memory[d] \notin Done \cup {"skipped"}
      PROVE  memory[s] = "none" /\ d \in Steps
  <2>1. PICK i \in 1..Length : Order[i] = s
    BY OrderFacts
  <2>2. PICK j \in 1..(i - 1) : Order[j] = d
    BY <2>1, DepsBefore
  <2>3. j \in 1..Length /\ j < i /\ pos \in Nat
    BY <2>1, <2>2, OrderFacts DEF Typed, ProcTyped
  <2>4. ~(j < pos)
    BY <1>4, <2>2, <2>3 DEF TurnsInv, Behind
  <2>5. i > pos /\ d \in Steps
    BY <2>2, <2>3, <2>4, OrderFacts
  <2> QED
    BY <2>1, <2>5 DEF MemoryInv, AheadInv
<1>5. ASSUME NEW s \in Steps, NEW d \in Deps[s]
      PROVE  /\ words[d] \in {"failed", "blocked"} => words[s] \in {"blocked", "skipped"}
             /\ words[d] = "pending" => words[s] \notin {"completed", "reused", "failed"}
  <2>1. d \in Steps
    BY DepsAssumption
  <2>2. CASE memory[d] \in Done \cup {"skipped"}
    BY <1>1, <2>1, <2>2 DEF Done
  <2>3. CASE memory[d] = "failed"
    <3>1. memory[s] = "none" /\ d \in With("failed", memory)
      BY <1>4, <2>1, <2>3 DEF Done, With
    <3> QED
      BY <1>1, <1>2, <2>1, <2>3, <3>1
  <2>4. CASE memory[d] = "none"
    <3>1. memory[s] = "none"
      BY <1>4, <2>4 DEF Done
    <3>2. words[d] = "blocked" => d \in blocked
      BY <1>1, <2>1, <2>4
    <3>3. words[d] \in {"skipped", "blocked", "pending"} /\ words[s] \in {"skipped", "blocked", "pending"}
      BY <1>1, <2>1, <2>4, <3>1
    <3> QED
      BY <1>1, <1>2, <3>1, <3>2, <3>3
  <2> QED
    BY <1>3, <2>1, <2>2, <2>3, <2>4 DEF Reached, Done
<1> QED
  BY <1>5 DEF Follows, words

-----------------------------------------------------------------------------
(* What a reader of the stream and the manifest is told stays true until   *)
(* the next run's first line.                                              *)

\* What the manifest says of the tree.
TrueOfTree ==
  /\ \A s \in Said("completed") : live[s] = {manifest.run}
  /\ \A s \in Said("reused") : live[s] # {} /\ manifest.run \notin live[s]
  /\ \A s \in Said("blocked") \cup Said("pending") : manifest.run \notin live[s]
  /\ \A s \in Steps : manifest.words[s] # "none"

\* What a completed run leaves: every unit made from what is there now, a join of
\* the rows of its children, and units of the steps no published verdict takes out.
TreeGated ==
  LET deciding == {s \in Steps : Kind[s] = "conditional" /\ live[s] # {}}
      off == FoldSkips(UNION {Gated(s) : s \in deciding}, {})
  IN \A s \in Steps : live[s] = {} <=> s \in off

JoinHolds(s) ==
  content[s].data = UNION {content[c].data : c \in {c \in Children[s] : live[c] # {}}}

Left ==
  /\ \A s \in Steps : live[s] # {} => EvidenceHolds(s) /\ (Children[s] # {} => JoinHolds(s))
  /\ TreeGated

ReaderInv ==
  /\ Finished /\ manifest.run = LastLine.run => TrueOfTree /\ Follows(manifest.words)
  /\ Complete => Left

LEMMA TrueAtEnd ==
  ASSUME Typed, MemoryInv, pc = "terminal", failure # "interrupt" PROVE TrueOfTree
<1>1. \A s \in Steps : Honest(s)
  BY DEF MemoryInv, HonestInv, Unsaid, Ending
<1>2. manifest.run = run /\ manifest.words = Classified(memory)
  BY DEF MemoryInv, PointInv
<1>3. \A s \in Steps :
         \/ memory[s] # "none" /\ manifest.words[s] = memory[s]
         \/ memory[s] = "none" /\ manifest.words[s] \in {"skipped", "blocked", "pending"}
  BY <1>2 DEF Classified
<1>4. \A s \in Steps : memory[s] \in Reached
  BY DEF Typed, ProcTyped
<1> QED
  BY <1>1, <1>2, <1>3, <1>4 DEF TrueOfTree, Said, Honest, Reached

LEMMA ManifestMoves ==
  ASSUME RunnerNext PROVE UNCHANGED manifest \/ RenameManifest
<1>1. CASE RunnerStep
  BY <1>1 DEF RunnerStep, BeginStep, TellSkip, RetireSkippedUnit, ReuseStep, TellReuse,
     DoNotReuse, PublishStep, Remember, TellCommitted, TellCompleted, RefuseAttempt, Fail,
     TellFailed, LoopEnds, WithholdManifest, WriteTemporary, EndRun
<1>2. CASE Faulty
  BY <1>2 DEF Faulty, AttemptRaises, Fail, LoopRaises, Interrupt, TellFails, ManifestFails, Kill
<1>3. CASE StartRun \/ (\E s \in Steps : Edit(s) \/ Damage(s)) \/ FreshStream
  BY <1>3 DEF StartRun, Edit, Damage, FreshStream
<1> QED
  BY <1>1, <1>2, <1>3 DEF RunnerNext

LEMMA LeastIsOne ==
  ASSUME NEW X, NEW Y, NEW start, LeastGrown(X, Steps, Steps, start, Skipping),
         LeastGrown(Y, Steps, Steps, start, Skipping)
  PROVE  X = Y
<1>1. X \subseteq Y /\ Y \subseteq X
  BY DEF LeastGrown
<1> QED
  BY <1>1

\* A unit that stands where the run is over.
LEMMA JoinAtEnd ==
  ASSUME Typed, BoundInv, UnitsInv, MadeInv, SkipsInv, pc # "idle",
         \A s \in Steps : Stands(s) /\ (live[s] # {} <=> s \notin skippedBy),
         NEW s \in Steps, live[s] # {}, Children[s] # {}
  PROVE  JoinHolds(s)
<1>1. Made(s) /\ content[s].evidence = CurrentEvidence(s)
  BY DEF MadeInv, Stands, EvidenceHolds
<1>2. PICK evidence : evidence = content[s].evidence
  OBVIOUS
<1>3. CASE ~Deciding(s)
  <2> DEFINE there == {c \in Children[s] : live[c] # {}}
  <2>1. content[s].data = UNION {evidence[c].data : c \in DOMAIN evidence}
    BY <1>1, <1>2, <1>3 DEF Made
  <2>2. DOMAIN evidence = there /\ \A c \in there : evidence[c].data = content[c].data
    BY <1>1, <1>2, <1>3 DEF CurrentEvidence, Evidence, Recorded, Sources, Deciding
  <2> HIDE DEF there
  <2>3. content[s].data = UNION {content[c].data : c \in there}
    BY <2>1, <2>2
  <2> QED
    BY <2>3 DEF JoinHolds, there
<1>4. CASE Deciding(s)
  <2>1. PICK p : p = Input[s]
    OBVIOUS
  <2>2. p \in Deps[s] \ SelectedChildren[s] /\ \A c \in Children[s] : c \in Deps[s] \ SelectedChildren[s]
    BY <1>4, <2>1, ConstantFacts, ExpansionAssumption
  <2>3. \A d \in Deps[s] \ SelectedChildren[s] : d \in Steps /\ live[d] # {} /\ Stands(d)
    BY SkippedClosed, ConstantFacts
  <2>4. \A c \in Children[p] : Stands(c)
    BY <2>2, <2>3, ConstantFacts
  <2>5. /\ Kind[s] = "conditional" /\ Kind[p] = "behavioral"
        /\ UNION {content[c].data : c \in Children[s]} =
              {<<c, VerdictOn(Recorded(p), c)>> : c \in Children[s]}
    BY <1>4, <2>1, <2>2, <2>3, <2>4, VerdictsAgree
  <2>6. evidence[p] = Recorded(p)
    <3>1. Sources(s) = {p}
      BY <1>4, <2>1 DEF Sources
    <3>2. evidence[p] = EvidenceIdentity(p)
      BY <1>1, <1>2, <2>2, <2>3, <2>5, <3>1 DEF CurrentEvidence, Evidence
    <3> QED
      BY <2>5, <3>2 DEF EvidenceIdentity
  <2>7. content[s].data = {<<c, VerdictOn(evidence[p], c)>> : c \in Children[s]}
    BY <1>1, <1>2, <1>4, <2>1 DEF Made
  <2>8. content[s].data = UNION {content[c].data : c \in Children[s]}
    BY <2>5, <2>6, <2>7
  <2>9. {c \in Children[s] : live[c] # {}} = Children[s]
    BY <2>2, <2>3
  <2> QED
    BY <2>8, <2>9 DEF JoinHolds
<1> QED
  BY <1>3, <1>4

LEMMA LeftAtEnd ==
  ASSUME Typed, BoundInv, UnitsInv, MemoryInv, SkipsInv, TurnsInv, StandsInv, MadeInv,
         pc = "terminal", failure = "none"
  PROVE  Left
<1>1. ASSUME NEW s \in Steps PROVE Behind(s) /\ Honest(s) /\ Stands(s)
  <2>1. pos > Length
    BY DEF MemoryInv, PointInv, Ending
  <2>2. PICK i \in 1..Length : Order[i] = s
    BY OrderFacts
  <2>3. i < pos
    BY <2>1, OrderFacts DEF Typed, ProcTyped
  <2> QED
    BY <2>2, <2>3 DEF TurnsInv, StandsInv, MemoryInv, HonestInv, Unsaid
<1>2. ASSUME NEW s \in Steps
      PROVE  /\ live[s] # {} <=> s \notin skippedBy
             /\ live[s] # {} <=> memory[s] \in Done
  BY <1>1 DEF Behind, Honest, Done
<1>3. \A s \in Steps : live[s] # {} => EvidenceHolds(s) /\ (Children[s] # {} => JoinHolds(s))
  BY <1>1, <1>2, JoinAtEnd DEF Stands
<1>4. TreeGated
  <2>1. {s \in Steps : Kind[s] = "conditional" /\ live[s] # {}} = Decided
    BY <1>2 DEF Decided
  <2>2. LeastGrown(skippedBy, Steps, Steps, GatedSoFar, Skipping) /\ GatedSoFar \in SUBSET Steps
    BY DEF SkipsInv, LeastGrown, Grown
  <2>3. LeastGrown(FoldSkips(GatedSoFar, {}), Steps, Steps, GatedSoFar, Skipping)
    <3>1. FoldSkips(GatedSoFar, {}) = Skips(Steps, GatedSoFar)
      <4>1. {} \cup GatedSoFar = GatedSoFar
        OBVIOUS
      <4> QED
        BY <4>1 DEF FoldSkips
    <3>2. Steps \in SUBSET Steps
      OBVIOUS
    <3> QED
      BY <2>2, <3>1, <3>2, SkipsIsLeast
  <2>4. FoldSkips(GatedSoFar, {}) = skippedBy
    BY <2>2, <2>3, LeastIsOne
  <2> QED
    BY <1>2, <2>1, <2>4 DEF TreeGated, GatedSoFar
<1> QED
  BY <1>3, <1>4 DEF Left

LEMMA LeftStays ==
  ASSUME Left, \A s \in Steps : SameUnit(s) PROVE Left'
<1>1. \A s \in Steps : (live'[s] = {} <=> live[s] = {}) /\ content'[s].data = content[s].data
  BY DEF SameUnit
<1>2. ASSUME NEW s \in Steps, live'[s] # {} PROVE EvidenceHolds(s)'
  BY <1>1, <1>2, EvidenceStays, ConstantFacts DEF Left
<1>3. ASSUME NEW s \in Steps, live'[s] # {}, Children[s] # {} PROVE JoinHolds(s)'
  <2>1. JoinHolds(s) /\ \A c \in Children[s] : c \in Steps
    BY <1>1, <1>3, ConstantFacts DEF Left
  <2>2. {c \in Children[s] : live'[c] # {}} = {c \in Children[s] : live[c] # {}}
    BY <1>1, <2>1
  <2>3. \A c \in Children[s] : content'[c].data = content[c].data
    BY <1>1, <2>1
  <2> QED
    BY <1>1, <2>1, <2>2, <2>3 DEF JoinHolds
<1>4. TreeGated'
  <2>1. \A s \in Steps : Gated(s)' = Gated(s)
    BY GatedSame
  <2>2. PICK deciding : deciding = {s \in Steps : Kind[s] = "conditional" /\ live[s] # {}}
    OBVIOUS
  <2>3. {s \in Steps : Kind[s] = "conditional" /\ live'[s] # {}} = deciding
    BY <1>1, <2>2
  <2>4. UNION {Gated(s)' : s \in deciding} = UNION {Gated(s) : s \in deciding}
    BY <2>1, <2>2
  <2> QED
    BY <1>1, <2>2, <2>3, <2>4 DEF Left, TreeGated
<1> QED
  BY <1>2, <1>3, <1>4 DEF Left

\* While the stream ends in a terminal line no unit comes, goes or changes its word.
LEMMA FinishedStays ==
  ASSUME Typed, TellingInv, RunnerNext, Finished
  PROVE  \A s \in Steps : SameUnit(s)
<1>1. stream # <<>> /\ LastLine.event = "campaign_terminal"
  BY DEF Finished, LastLine
<1>2. ~Changes
  BY <1>1, ChangesInTurn DEF TellingInv, InTurn
<1> QED
  BY <1>2, UnitsOfStep

\* A reader is told that a run ended by its terminal line, and then nothing that the
\* line vouches for changes.
LEMMA ReaderMoves ==
  ASSUME Typed, TellingInv, RunnerNext, Finished'
  PROVE  \/ /\ Finished /\ LastLine' = LastLine /\ \A s \in Steps : SameUnit(s)
            /\ manifest'.run = LastLine.run => manifest' = manifest
         \/ /\ pc = "terminal" /\ failure # "interrupt" /\ UNCHANGED <<live, content, manifest>>
            /\ LastLine'.word = IF failure = "none" THEN "completed" ELSE "failed"
<1>1. CASE StreamKept
  <2>1. LastLine' = LastLine /\ Finished
    <3>1. stream' = stream /\ torn' \in {torn, TRUE}
      BY <1>1 DEF StreamKept
    <3>2. LastLine' = LastLine
      BY <3>1 DEF LastLine
    <3>3. Finished' => Finished
      BY <3>1, Zenon DEF Finished, Readable
    <3> QED
      BY <3>2, <3>3
  <2>2. ASSUME manifest'.run = LastLine.run PROVE manifest' = manifest
    <3>1. ASSUME RenameManifest PROVE FALSE
      <4>1. manifest'.run = run /\ pc # "idle"
        BY <3>1 DEF RenameManifest
      <4>2. LastLine.run < run /\ run \in Nat
        BY <2>1, <4>1 DEF TellingInv, Finished, LastLine, Typed, ProcTyped
      <4> QED
        BY <2>2, <4>1, <4>2
    <3> QED
      BY <3>1, ManifestMoves
  <2> QED
    BY <2>1, <2>2, FinishedStays
<1>2. CASE TellsPoint
  BY <1>2, TellsLast DEF Finished, LastLine
<1>3. CASE EndRun /\ failure # "interrupt"
  <2>1. /\ pc = "terminal" /\ UNCHANGED <<live, content, manifest>>
        /\ Emit(run, "campaign_terminal", "none",
                IF failure = "none" THEN "completed" ELSE "failed")
    BY <1>3 DEF EndRun, treeView
  <2>2. LastLine'.word = IF failure = "none" THEN "completed" ELSE "failed"
    BY <2>1, EmitAppends DEF LastLine, Typed
  <2> QED
    BY <1>3, <2>1, <2>2
<1>4. CASE FreshStream
  BY <1>4 DEF FreshStream, MoveStreamAside, Finished
<1> QED
  BY <1>1, <1>2, <1>3, <1>4, Segments DEF Typed

LEMMA ReaderStep ==
  ASSUME Typed, BoundInv, UnitsInv, MemoryInv, SkipsInv, TurnsInv, TellingInv, StandsInv,
         MadeInv, ReaderInv, RunnerNext
  PROVE  ReaderInv'
<1>1. CASE /\ Finished /\ LastLine' = LastLine /\ \A s \in Steps : SameUnit(s)
           /\ manifest'.run = LastLine.run => manifest' = manifest
  <2>1. ASSUME Finished', manifest'.run = LastLine'.run
        PROVE  TrueOfTree' /\ Follows(manifest'.words)
    <3>1. manifest' = manifest /\ \A s \in Steps : live'[s] = live[s]
      BY <1>1, <2>1 DEF SameUnit
    <3>2. TrueOfTree /\ Follows(manifest.words)
      BY <1>1, <2>1, <3>1 DEF ReaderInv
    <3> QED
      BY <3>1, <3>2 DEF TrueOfTree, Said
  <2>2. Complete' => Left'
    BY <1>1, LeftStays DEF ReaderInv, Complete
  <2> QED
    BY <2>1, <2>2 DEF ReaderInv
<1>2. CASE /\ pc = "terminal" /\ failure # "interrupt" /\ UNCHANGED <<live, content, manifest>>
           /\ LastLine'.word = IF failure = "none" THEN "completed" ELSE "failed"
  <2>1. TrueOfTree'
    BY <1>2, TrueAtEnd DEF TrueOfTree, Said
  <2>2. Follows(manifest'.words)
    BY <1>2, WordsFollow DEF MemoryInv, PointInv
  <2>3. ASSUME Complete' PROVE Left'
    <3>1. failure = "none"
      BY <1>2, <2>3 DEF Complete
    <3>2. \A s \in Steps : SameUnit(s)
      BY <1>2 DEF SameUnit
    <3> QED
      BY <1>2, <3>1, <3>2, LeftAtEnd, LeftStays
  <2> QED
    BY <2>1, <2>2, <2>3 DEF ReaderInv
<1>3. CASE ~Finished'
  BY <1>3 DEF ReaderInv, Complete
<1> QED
  BY <1>1, <1>2, <1>3, ReaderMoves

-----------------------------------------------------------------------------
(* What the manifest and the stream may say.                               *)

SaidInv ==
  /\ manifest \in [run : 0..MaxRuns, words : [Steps -> Words \cup {"none"}]]
  /\ \A i \in DOMAIN stream : stream[i].seq \in Nat

LEMMA SaidStep == ASSUME Typed, BoundInv, MemoryInv, SaidInv, RunnerNext PROVE SaidInv'
<1>1. manifest' \in [run : 0..MaxRuns, words : [Steps -> Words \cup {"none"}]]
  <2>1. CASE RenameManifest
    <3>1. manifest' = [run |-> run, words |-> Classified(memory)]
      BY <2>1 DEF RenameManifest, MemoryInv, PointInv
    <3>2. Classified(memory) \in [Steps -> Words]
      BY DEF Classified, Typed, ProcTyped, Reached, Words
    <3> QED
      BY <3>1, <3>2 DEF BoundInv
  <2> QED
    BY <2>1, ManifestMoves DEF SaidInv
<1>2. ASSUME NEW i \in DOMAIN stream' PROVE stream'[i].seq \in Nat
  <2>1. seq + 1 \in Nat
    BY DEF BoundInv, Typed, LogTyped
  <2> QED
    BY <2>1, LineAdded DEF SaidInv
<1> QED
  BY <1>1, <1>2 DEF SaidInv

LEMMA RunnerTyped ==
  ASSUME Typed, NumbersInv, BoundInv, UnitsInv, SkipsInv, SaidInv
  PROVE  RunnerTypeOK
<1>1. live \in [Steps -> SUBSET Uids] /\ past \in [Steps -> SUBSET Uids]
  <2>1. 1..run \subseteq Uids
    BY RunnerAssumption DEF BoundInv
  <2> QED
    BY <2>1 DEF Typed, TreeTyped, NumbersInv
<1>2. ASSUME NEW s \in Steps
      PROVE  /\ content[s].identity \in Identities \cup {0}
             /\ content[s].data \subseteq Rows
             /\ content[s].intact \in BOOLEAN
             /\ \A p \in DOMAIN content[s].evidence :
                   content[s].evidence[p] \in [data : SUBSET Rows, identity : Identities]
  <2>1. content[s].intact \in BOOLEAN
    BY DEF Typed, ContentTyped, ContentOver
  <2>2. CASE live[s] = {}
    <3>1. content[s] = Absent
      BY <2>2 DEF UnitsInv
    <3>2. Absent.identity = 0 /\ Absent.data = {} /\ DOMAIN Absent.evidence = {}
      BY DEF Absent
    <3> QED
      BY <2>1, <3>1, <3>2
  <2>3. CASE live[s] # {}
    BY <2>1, <2>3 DEF UnitsInv, UnitTyped
  <2> QED
    BY <2>2, <2>3
<1>3. identity \in [Steps -> Identities]
  <2>1. ASSUME NEW s \in Steps PROVE identity[s] \in Identities
    <3>1. identity[s] \in 1..(edits + 1) /\ edits \in 0..MaxEdits
      BY DEF BoundInv
    <3> QED
      BY <3>1, ConstantFacts DEF Identities
  <2> QED
    BY <2>1 DEF Typed, IdentityTyped
<1>4. /\ pc \in Points /\ pos \in 1..(Length + 1)
      /\ memory \in [Steps -> Reached] /\ failure \in {"none", "exception", "interrupt"}
  BY DEF Typed, ProcTyped
<1>5. skippedBy \subseteq Steps
  BY DEF SkipsInv, LeastGrown
<1>6. \A i \in DOMAIN stream :
         stream[i].seq \in Nat /\ stream[i].run \in 1..run /\ stream[i].event \in Events
  <2>1. \A i \in DOMAIN stream : stream[i] \in Lines
    BY LenProperties, ElementOfSeq DEF Typed, LogTyped
  <2> QED
    BY <2>1 DEF SaidInv, NumbersInv, Lines
<1> QED
  BY <1>1, <1>2, <1>3, <1>4, <1>5, <1>6 DEF RunnerTypeOK, SaidInv, BoundInv

-----------------------------------------------------------------------------

RunnerInv ==
  /\ Typed /\ BoundInv /\ RunStarted /\ NumbersInv /\ CommittedInv /\ UnitsInv
  /\ MemoryInv /\ SkipsInv /\ TurnsInv /\ TellingInv /\ StandsInv /\ MadeInv
  /\ SaidInv /\ ReaderInv

LEMMA RunnerInvStart == ASSUME RunnerInit PROVE RunnerInv
<1>1. Typed
  BY TypedStart
<1>2. /\ pc = "idle" /\ stream = <<>> /\ \A s \in Steps : live[s] = {} /\ past[s] = {}
      /\ \A s \in Steps : content[s] = Absent
      /\ skippedBy = {} /\ memory = NoWords
  BY DEF RunnerInit, Store!StoreInit, LogInit
<1>3. DOMAIN stream = {}
  BY <1>2
<1>4. RunStarted /\ NumbersInv /\ CommittedInv
  BY <1>2, <1>3 DEF RunStarted, NumbersInv, CommittedInv
<1>5. MemoryInv /\ TellingInv /\ StandsInv
  BY <1>2 DEF MemoryInv, HonestInv, AheadInv, PointInv, Ending, TellingInv, InTurn, StandsInv
<1>6. ReaderInv
  BY <1>2 DEF ReaderInv, Complete, Finished
<1>7. BoundInv
  <2>1. run = 0 /\ faults = 0 /\ edits = 0 /\ resume = FALSE
    BY DEF RunnerInit
  <2>2. \A s \in Steps : identity[s] = 1
    BY DEF RunnerInit
  <2>3. \A s \in Steps : \A c \in Children[s] : identity[c] = identity[s]
    BY <2>2, ConstantFacts
  <2>4. edits + 1 = 1 /\ 1 \in 1..1
    BY <2>1
  <2>5. \A s \in Steps : identity[s] \in 1..(edits + 1)
    BY <2>2, <2>4
  <2>6. run \in 0..MaxRuns /\ faults \in 0..MaxFaults /\ edits \in 0..MaxEdits
    BY <2>1, ConstantFacts
  <2>7. seq >= -1
    BY DEF RunnerInit, LogInit
  <2>8. resume \in BOOLEAN
    BY <2>1
  <2> QED
    BY <2>3, <2>5, <2>6, <2>7, <2>8 DEF BoundInv
<1>8. UnitsInv /\ MadeInv
  BY <1>2 DEF UnitsInv, MadeInv
<1>9. SkipsInv
  BY <1>2 DEF SkipsInv
<1>10. TurnsInv
  BY <1>2 DEF TurnsInv, Kept
<1>11. SaidInv
  BY <1>3, ConstantFacts DEF SaidInv, RunnerInit, NoManifest, NoWords
<1> QED
  BY <1>1, <1>4, <1>5, <1>6, <1>7, <1>8, <1>9, <1>10, <1>11 DEF RunnerInv

LEMMA RunnerInvStutters == ASSUME RunnerInv, UNCHANGED runnerVars PROVE RunnerInv'
<1> USE DEF runnerVars, logVars, procVars, runVars, envVars, Ending, InTurn
<1>1. Typed' /\ BoundInv'
  BY DEF RunnerInv, Typed, ContentTyped, ProcTyped, LogTyped, TreeTyped, IdentityTyped, BoundInv
<1>2. RunStarted' /\ NumbersInv' /\ CommittedInv' /\ SaidInv'
  BY DEF RunnerInv, RunStarted, NumbersInv, CommittedInv, SaidInv
<1>3. HonestInv' /\ AheadInv'
  BY DEF RunnerInv, MemoryInv, HonestInv, Honest, Unsaid, Step, AheadInv
<1>4. PointInv'
  <2>1. Derived' = Derived /\ Classified(memory)' = Classified(memory)
    BY DEF Derived, ToldWord, WordLines, OwnLines
  <2> QED
    BY <2>1 DEF RunnerInv, MemoryInv, PointInv, Step
<1>5. TellingInv'
  BY DEF RunnerInv, TellingInv, LastLine
<1>6. \A s \in Steps : SameUnit(s)
  BY DEF SameUnit
<1>7. UnitsInv' /\ MadeInv'
  BY <1>6, UnitStays, MadeStays DEF RunnerInv, UnitsInv, MadeInv
<1>8. StandsInv'
  <2>1. ASSUME NEW s \in Steps, Stands(s) PROVE Stands(s)'
    BY <1>6, <2>1, EvidenceStays, ConstantFacts DEF Stands
  <2>2. Step' = Step
    BY DEF Step
  <2>3. pc # "idle" /\ pc \in InTurn => Step \in Steps
    BY StepIsOne DEF RunnerInv, Typed, ProcTyped
  <2>4. \A i \in 1..Length : Order[i] \in Steps
    BY OrderFacts
  <2>5. \A i \in 1..Length : Stands(Order[i]) => Stands(Order[i])'
    BY <2>1, <2>4
  <2>6. ASSUME pc \in {"tell_reuse", "published", "commit", "complete"} PROVE Stands(Step)'
    <3>1. PICK now \in Steps : now = Step
      BY <2>3, <2>6
    <3>2. Stands(now)'
      BY <2>1, <2>6, <3>1 DEF RunnerInv, StandsInv
    <3> QED
      BY <2>2, <3>1, <3>2
  <2> QED
    BY <2>5, <2>6 DEF RunnerInv, StandsInv
<1>9. SkipsInv'
  <2>1. GatedSoFar' = GatedSoFar
    BY <1>6, GatedSame DEF GatedSoFar, Decided
  <2> QED
    BY <2>1 DEF RunnerInv, SkipsInv
<1>10. TurnsInv'
  BY DEF RunnerInv, TurnsInv, Behind, Step
<1>11. ReaderInv'
  <2>1. Complete' => Complete
    BY DEF Complete, Finished, Readable, LastLine
  <2>2. Complete' => Left'
    BY <1>6, <2>1, LeftStays DEF RunnerInv, ReaderInv
  <2>3. Finished' /\ manifest'.run = LastLine'.run => TrueOfTree' /\ Follows(manifest'.words)
    BY DEF RunnerInv, ReaderInv, TrueOfTree, Said, Finished, Readable, LastLine
  <2> QED
    BY <2>2, <2>3 DEF ReaderInv
<1> QED
  BY <1>1, <1>2, <1>3, <1>4, <1>5, <1>7, <1>8, <1>9, <1>10, <1>11 DEF RunnerInv, MemoryInv

LEMMA RunnerInvSteps == ASSUME RunnerInv, RunnerNext PROVE RunnerInv'
<1>1. Typed' /\ RunStarted' /\ NumbersInv' /\ CommittedInv' /\ MemoryInv' /\ TellingInv'
  BY TypedStep, RunStartedStep, NumbersStep, CommittedStep, MemoryInvStep, TellingStep
     DEF RunnerInv
<1>2. BoundInv' /\ SaidInv'
  BY BoundStep, SaidStep DEF RunnerInv
<1>3. UnitsInv'
  <2>1. pc = "attempt" /\ Deciding(Step) => Input[Step] \notin skippedBy
    BY NothingTakenOut, StepIsOne DEF RunnerInv, Typed, ProcTyped, InTurn
  <2> QED
    BY <2>1, UnitsStep DEF RunnerInv
<1>4. SkipsInv' /\ TurnsInv' /\ StandsInv' /\ MadeInv'
  BY SkipsStep, TurnsStep, StandsStep, MadeStep DEF RunnerInv
<1>5. ReaderInv'
  BY ReaderStep DEF RunnerInv
<1> QED
  BY <1>1, <1>2, <1>3, <1>4, <1>5 DEF RunnerInv

LEMMA RunnerInvAlways == RunnerSpec => []RunnerInv
<1>1. RunnerInit => RunnerInv
  BY RunnerInvStart
<1>2. RunnerInv /\ [RunnerNext]_runnerVars => RunnerInv'
  BY RunnerInvSteps, RunnerInvStutters
<1> QED
  BY <1>1, <1>2, PTL DEF RunnerSpec

\* Whatever the workflow, and however many runs were killed, interrupted or resumed
\* over the tree: a line that says a result was committed is never ahead of the
\* tree.  The unit of that run is published, or superseded, and stays.
THEOREM NarrationIsNeverAhead == RunnerSpec => []NarratedIsPublished
<1>1. RunnerInv => NarratedIsPublished
  BY DEF RunnerInv, CommittedInv, NarratedIsPublished
<1> QED
  BY <1>1, RunnerInvAlways, PTL

\* A manifest that the stream's terminal line vouches for is true of the tree, from
\* the moment the runner is about to tell that line until the next run's first one:
\* nothing in between may touch a unit, and a later run that dies before it has told
\* anything cannot leave a manifest of its own behind under the earlier line.
THEOREM ManifestsAreTrue == RunnerSpec => []ManifestIsTrue
<1>1. RunnerInv => ManifestIsTrue
  BY TrueAtEnd DEF RunnerInv, ReaderInv, ManifestIsTrue, Trusted, TrueOfTree
<1> QED
  BY <1>1, RunnerInvAlways, PTL

\* A run whose loop ended leaves no unit that was made from another version of the
\* document, or whose files no longer digest to their record, whether it made the
\* unit or took it over from a run before.
THEOREM CompletedRunsAreCurrent == RunnerSpec => []IdentitiesCurrent
<1>1. ASSUME RunnerInv, pc = "terminal", failure = "none", NEW s \in Steps, live[s] # {}
      PROVE  content[s].identity = identity[s] /\ content[s].intact
  <2>1. pos > Length
    BY <1>1 DEF RunnerInv, MemoryInv, PointInv, Ending
  <2>2. PICK i \in 1..Length : Order[i] = s
    BY OrderFacts
  <2>3. i < pos
    BY <1>1, <2>1, OrderFacts DEF RunnerInv, Typed, ProcTyped
  <2> QED
    BY <1>1, <2>2, <2>3 DEF RunnerInv, StandsInv, Stands
<1>2. RunnerInv => IdentitiesCurrent
  BY <1>1 DEF IdentitiesCurrent
<1> QED
  BY <1>2, RunnerInvAlways, PTL

\* No unit that a completed run leaves stands on a receipt that failed or flipped
\* since: a receipt is of an earlier step of the schedule, whose turn is over when
\* the receipt is read and whose unit then stays for the rest of the run.
THEOREM ReceiptsAlwaysStand == RunnerSpec => []ReceiptsStand
<1>1. RunnerInv => ReceiptsStand
  BY DEF RunnerInv, ReaderInv, ReceiptsStand, Left, EvidenceHolds
<1> QED
  BY <1>1, RunnerInvAlways, PTL

\* Every variable of the runner and of its tree keeps its type: the bounds of the
\* model, the versions of the document, what a record may hold and the numbers that
\* the stream's lines bear.
THEOREM RunnerIsTyped == RunnerSpec => []RunnerTypeOK
<1>1. RunnerInv => RunnerTypeOK
  BY RunnerTyped DEF RunnerInv
<1> QED
  BY <1>1, RunnerInvAlways, PTL

\* No step is ever attempted below a dependency that this run has not published,
\* verified for reuse or, for a join of selected children, skipped with another child
\* left: what the verdicts have taken out by then is closed under the dependencies,
\* and no later verdict reaches back behind the turn.
THEOREM AttemptsAreSettled == RunnerSpec => []DependenciesSettled
<1>1. RunnerInv => DependenciesSettled
  BY SettledAtAttempt DEF RunnerInv
<1> QED
  BY <1>1, RunnerInvAlways, PTL

\* The words of a manifest that a reader may trust follow the dependencies, whether
\* the run reached a step or classified it: below a failed or a blocked step all is
\* blocked or skipped, and below one not reached nothing ran.
THEOREM WordsAlwaysFollow == RunnerSpec => []WordsFollowDependencies
<1>1. RunnerInv /\ Trusted => Follows(manifest.words)
  <2>1. ASSUME RunnerInv, pc = "terminal" PROVE Follows(manifest.words)
    BY <2>1, WordsFollow DEF RunnerInv, MemoryInv, PointInv
  <2> QED
    BY <2>1 DEF RunnerInv, ReaderInv, Trusted
<1>2. RunnerInv => WordsFollowDependencies
  BY <1>1 DEF WordsFollowDependencies, Follows
<1> QED
  BY <1>2, RunnerInvAlways, PTL

\* Every decision, conditional and join that a completed run leaves was made from
\* what is published now, however the steps it rests on were edited, damaged, retired
\* or made again on the way, and a join holds the rows of the children that are
\* published and of no other: those of the verdicts of a fanned-out conditional too,
\* which read their producer's join and not its children.
THEOREM EvidenceStaysCoherent == RunnerSpec => []EvidenceCoherent
<1>1. RunnerInv => EvidenceCoherent
  BY DEF RunnerInv, ReaderInv, EvidenceCoherent, Left, EvidenceHolds, JoinHolds
<1> QED
  BY <1>1, RunnerInvAlways, PTL

\* A completed run leaves a unit for exactly the steps that the conditionals published
\* in the tree do not gate off, however many runs made them: the skips folded one
\* verdict after another are those of all the verdicts folded at once.
THEOREM VerdictsShapeTheTree == RunnerSpec => []TreeFollowsVerdicts
<1>1. RunnerInv => TreeFollowsVerdicts
  BY DEF RunnerInv, ReaderInv, TreeFollowsVerdicts, Left, TreeGated
<1> QED
  BY <1>1, RunnerInvAlways, PTL

=============================================================================
