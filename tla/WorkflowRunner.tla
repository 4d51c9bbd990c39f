--------------------------- MODULE WorkflowRunner ---------------------------
(***************************************************************************)
(* run_workflow (causalab/workflow/runner.py): one run walks the schedule, *)
(* skips, reuses or attempts each step, narrates it on the event stream    *)
(* and writes workflow.json from what the stream says.  Runs follow one    *)
(* another over one run tree: any of them may be killed, interrupted or    *)
(* stopped by an exception, and between two of them the document is edited *)
(* or a published file damaged.                                            *)
(*                                                                         *)
(* The tree is what PublicationStore promises (RunTree implements it): a   *)
(* unit is named by the run that published it, for a run publishes a step  *)
(* at most once.  content is what the live unit's record and files say.    *)
(***************************************************************************)
EXTENDS Schedule, EventLog

CONSTANTS
  Uids,      \* names of units: the runs
  Kind,      \* script (or protocol), behavioral, decision or conditional
  Children,  \* Children[s]: the steps a fan-out of s expands to, which s joins
  Input,     \* a decision's values producer, a conditional's decision
  OnTrue,    \* the two sides a conditional gates
  OnFalse,
  Receipts,  \* Receipts[s]: the [step, outcome] s requires, at most one
  Values,    \* Values[s]: what s may measure
  Rule,      \* Rule[i]: the values that pass the i-th version of a rule
  MaxRuns,   \* bounds: runs over the tree,
  MaxFaults, \*   kills, interrupts and errors among them,
  MaxEdits   \*   edits of the document and damaged files between them

\* Steps that read one producer's record by name.
Deciding(s) == Kind[s] \in {"decision", "conditional"}

ASSUME RunnerAssumption ==
  /\ MaxRuns \in Nat /\ MaxFaults \in Nat /\ MaxEdits \in Nat
  /\ 1..MaxRuns \subseteq Uids
  /\ Kind \in [Steps -> {"script", "behavioral", "decision", "conditional"}]
  /\ \A s \in Steps : Deciding(s) => Input[s] \in Deps[s]
  /\ \A s \in Steps : \A r \in Receipts[s] : r.step \in Deps[s]
  /\ Children \in [Steps -> SUBSET Steps]
  /\ \A s \in Steps : /\ Children[s] \subseteq Deps[s]
                      /\ SelectedChildren[s] \in {{}, Children[s]}

\* A fanned-out step is gated with its children.
WithChildren(gated) == gated \cup UNION {Children[g] : g \in gated}

\* What load_workflow makes of a fan-out and of a conditional: children are of one
\* step, of its kind, and have none themselves; only document steps and the
\* conditionals over them fan out, and a verdict reads the child its own is for;
\* and all that a conditional gates depends on it.
ASSUME ExpansionAssumption ==
  /\ OnTrue \in [Steps -> SUBSET Steps] /\ OnFalse \in [Steps -> SUBSET Steps]
  /\ \A s \in Steps : \A c \in Children[s] : Children[c] = {} /\ Kind[c] = Kind[s]
  /\ \A s, t \in Steps : s # t => Children[s] \cap Children[t] = {}
  /\ \A s \in Steps : Deciding(s) => SelectedChildren[s] = {}
  /\ \A s \in Steps : Kind[s] = "decision" => Children[s] = {}
  /\ \A s \in Steps : Kind[s] = "conditional" =>
        /\ Kind[Input[s]] \in {"behavioral", "decision"}
        /\ \A c \in Children[s] : Input[c] \in Children[Input[s]]
        /\ \A c \in {s} \cup Children[s] : \A g \in WithChildren(OnTrue[c] \cup OnFalse[c]) :
              s \in Deps[g]

VARIABLES
  live, past, \* the published units of each step, as PublicationStore has them
  content,    \* content[s]: record and files of the live unit of s
  identity,   \* identity[s]: the version of s's canonical entry and code
  manifest,   \* workflow.json
  pc,         \* where the run in progress is, "idle" between runs
  pos,        \* the position of the step whose turn it is
  memory,     \* step_manifest: the words of the steps reached
  skippedBy,  \* the steps a verdict took out of this run
  failure,    \* what is propagating
  resume,     \* --resume
  run,        \* the number of the last run started
  faults,     \* faults and
  edits       \* edits so far

Store == INSTANCE PublicationStore

treeView == <<live, past, content>>
procVars == <<pc, pos, memory, skippedBy, failure>>
runVars  == <<resume, run>>
envVars  == <<identity, edits>>
runnerVars == <<live, past, content, logVars, manifest, procVars, runVars,
                envVars, faults>>

Identities == 1..(MaxEdits + 1)

\* The rows of a unit's files, each by the step that measured it.  A join holds
\* the rows of its children.
Measured == UNION {Values[s] : s \in Steps}
Outcomes == {"pass", "fail"}
Verdicts == {"true", "false"}
Rows == Steps \X (Measured \cup Outcomes \cup Verdicts)
Absent == [identity |-> 0, data |-> {}, evidence |-> <<>>, intact |-> TRUE]

NoWords == [s \in Steps |-> "none"]
NoManifest == [run |-> 0, words |-> NoWords]

\* Where the runner is about to append a line, and where else in its loop.
EmitPoints == {"turn", "tell_skip", "tell_reuse", "commit", "complete", "warn",
               "terminal"}
LoopPoints == (EmitPoints \ {"terminal"}) \cup {"retire", "decide", "published"}
Points == LoopPoints \cup {"idle", "attempt", "finally", "rename", "terminal"}

Step == Order[pos]

\* A line is about to be written.
Telling == /\ pc \in EmitPoints
           /\ pc = "turn" => pos <= Length
           /\ pc = "terminal" => failure # "interrupt"

RunnerInit ==
  /\ Store!StoreInit /\ LogInit
  /\ content = [s \in Steps |-> Absent]
  /\ identity = [s \in Steps |-> 1]
  /\ manifest = NoManifest
  /\ pc = "idle" /\ pos = 1 /\ memory = NoWords /\ skippedBy = {}
  /\ failure = "none" /\ resume = FALSE
  /\ run = 0 /\ faults = 0 /\ edits = 0

Goto(point) == pc' = point /\ UNCHANGED <<pos, memory, skippedBy, failure>>

\* The process is gone, and what it held in memory with it.
Exit ==
  /\ pc' = "idle" /\ pos' = 1 /\ memory' = NoWords /\ skippedBy' = {}
  /\ failure' = "none"

-----------------------------------------------------------------------------
(* What a step reads of the run tree.                                      *)

\* The verdict of a predicate over the producer's current outcome.
Verdict(outcome) == IF outcome = "pass" THEN "true" ELSE "false"

\* Every measured value passes the given version of the rule.
Passes(rows, version) ==
  IF \A row \in rows : row[2] \in Rule[version] THEN "pass" ELSE "fail"

\* The outcome of the decision.json s published.
Outcome(s) ==
  IF Kind[s] = "behavioral" THEN Passes(content[s].data, content[s].identity)
  ELSE IF content[s].data = {<<s, "pass">>} THEN "pass" ELSE "fail"

\* The sides that the verdicts of a conditional's record did not choose.
Gated(s) ==
  WithChildren(UNION {IF row[2] = "true" THEN OnFalse[row[1]] ELSE OnTrue[row[1]] :
                        row \in content[s].data})

\* check_receipt, and a receipt's half of evidence_holds.
ReceiptMet(s) ==
  \A r \in Receipts[s] : live[r.step] # {} /\ Outcome(r.step) = r.outcome

\* The records s rests on: the one its decision or verdict reads, or those of
\* the children it joins.
Sources(s) == IF Deciding(s) THEN {Input[s]} ELSE Children[s]

Recorded(p) == [data |-> content[p].data, identity |-> content[p].identity]

\* The evidence identity in the decision.json of p: of the values a decision
\* read, of the rows a behavioral step itself published.
EvidenceIdentity(p) ==
  IF Kind[p] = "decision" THEN content[p].evidence[Input[p]] ELSE Recorded(p)

\* What s binds to the given sources with.
Evidence(s, sources) ==
  [p \in sources |->
     IF Kind[s] = "conditional" THEN EvidenceIdentity(p) ELSE Recorded(p)]

CurrentEvidence(s) == Evidence(s, {p \in Sources(s) : live[p] # {}})

\* A join reused whatever has become of its children.
JoinUnchecked(s) ==
  /\ ReceiptMet(s)
  /\ Deciding(s) => content[s].evidence = CurrentEvidence(s)

\* A decision or a verdict reused whatever its producer now says.
EvidenceUnchecked(s) ==
  /\ ReceiptMet(s)
  /\ ~Deciding(s) => content[s].evidence = CurrentEvidence(s)

\* The receipt is left to check_receipt, which a reused step never meets.
ReceiptUnchecked(s) == content[s].evidence = CurrentEvidence(s)

\* conditional.evidence_holds and fan_out.evidence_holds: every record s was
\* made from is there as it was, and no child it was made without is back.
EvidenceHolds(s) ==
  /\ ReceiptMet(s)
  /\ content[s].evidence = CurrentEvidence(s)

\* A record taken for the unit's, whatever has become of the document since.
ReusableByContent(s) ==
  /\ resume
  /\ live[s] # {}
  /\ content[s].intact
  /\ EvidenceHolds(s)

\* _reusable: the record's identity is the step's, every file digests to what
\* the record stamped for it, and the evidence holds.
Reusable(s) ==
  /\ resume
  /\ live[s] # {}
  /\ content[s].identity = identity[s]
  /\ content[s].intact
  /\ EvidenceHolds(s)

\* The sources an attempt of s reads.  A step below a skipped producer is itself
\* skipped: only children of a selected join can be missing here.
Read(s) == Sources(s) \ skippedBy

\* What a step can come to write, given the tree.
Results(s) ==
  IF Children[s] # {} THEN {UNION {content[c].data : c \in Children[s] \ skippedBy}}
  ELSE CASE Kind[s] = "decision" ->
              {{<<s, Passes(content[Input[s]].data, identity[s])>>}}
         [] Kind[s] = "conditional" -> {{<<s, Verdict(Outcome(Input[s]))>>}}
         [] OTHER -> {{<<s, value>>} : value \in Values[s]}

InputsThere(s) ==
  \A p \in Read(s) \cup (Children[s] \ skippedBy) : live[p] # {}

-----------------------------------------------------------------------------
(* The run: opening, and the turn of one step.                             *)

StartRun ==
  /\ pc = "idle"
  /\ run < MaxRuns
  /\ OpenLog
  /\ run' = run + 1
  /\ resume' \in BOOLEAN
  /\ pc' = "turn" /\ pos' = 1 /\ memory' = NoWords /\ skippedBy' = {}
  /\ failure' = "none"
  /\ UNCHANGED <<treeView, manifest, envVars, faults>>

\* Every turn begins with its line, before the reuse decision.
BeginStep ==
  /\ pc = "turn" /\ pos <= Length
  /\ Emit(run, "phase_started", Step, "none")
  /\ IF Step \in skippedBy
       THEN /\ memory' = [memory EXCEPT ![Step] = "skipped"]
            /\ pc' = "tell_skip"
       ELSE /\ pc' = "decide"
            /\ UNCHANGED memory
  /\ UNCHANGED <<treeView, manifest, pos, skippedBy, failure, runVars, envVars, faults>>

TellSkip ==
  /\ pc = "tell_skip"
  /\ Emit(run, "phase_completed", Step, "skipped")
  /\ Goto("retire")
  /\ UNCHANGED <<treeView, manifest, runVars, envVars, faults>>

\* On to the next step of the schedule.
NextStep ==
  /\ pc' = "turn" /\ pos' = pos + 1
  /\ UNCHANGED <<memory, skippedBy, failure>>

\* A skip that leaves the earlier unit where it was published.
RetireNothing ==
  /\ pc = "retire"
  /\ NextStep
  /\ UNCHANGED <<treeView, logVars, manifest, runVars, envVars, faults>>

\* A rerun's skip supersedes the step's earlier published unit.
RetireSkippedUnit ==
  /\ pc = "retire"
  /\ IF live[Step] = {}
       THEN UNCHANGED treeView
       ELSE /\ Store!RetireUnit(Step)
            /\ content' = [content EXCEPT ![Step] = Absent]
  /\ NextStep
  /\ UNCHANGED <<logVars, manifest, runVars, envVars, faults>>

\* A conditional's record folds its skips in; no other step has any.
Fold(gated) ==
  skippedBy' = IF Kind[Step] = "conditional"
                 THEN FoldSkips(gated, skippedBy) ELSE skippedBy

\* A reused step narrated as one this run committed.
ReuseAndCommit ==
  /\ pc = "decide"
  /\ Reusable(Step)
  /\ memory' = [memory EXCEPT ![Step] = "reused"]
  /\ Fold(Gated(Step))
  /\ pc' = "commit"
  /\ UNCHANGED <<treeView, logVars, manifest, pos, failure, runVars, envVars, faults>>

\* A record that still holds stands for the attempt.
ReuseStep ==
  /\ pc = "decide"
  /\ Reusable(Step)
  /\ memory' = [memory EXCEPT ![Step] = "reused"]
  /\ Fold(Gated(Step))
  /\ pc' = "tell_reuse"
  /\ UNCHANGED <<treeView, logVars, manifest, pos, failure, runVars, envVars, faults>>

TellReuse ==
  /\ pc = "tell_reuse"
  /\ Emit(run, "phase_completed", Step, "reused")
  /\ NextStep
  /\ UNCHANGED <<treeView, manifest, runVars, envVars, faults>>

DoNotReuse ==
  /\ pc = "decide"
  /\ ~Reusable(Step)
  /\ Goto("attempt")
  /\ UNCHANGED <<treeView, logVars, manifest, runVars, envVars, faults>>

\* The verified attempt is published: a rename, before anything is said.
PublishStep ==
  /\ pc = "attempt"
  /\ ReceiptMet(Step) /\ InputsThere(Step)
  /\ \E data \in Results(Step) :
        content' = [content EXCEPT ![Step] =
                      [identity |-> identity[Step], data |-> data,
                       evidence |-> Evidence(Step, Read(Step)), intact |-> TRUE]]
  /\ Store!PublishUnit(Step, run)
  /\ Goto("published")
  /\ UNCHANGED <<logVars, manifest, runVars, envVars, faults>>

Remember ==
  /\ pc = "published"
  /\ memory' = [memory EXCEPT ![Step] = "completed"]
  /\ Fold(Gated(Step))
  /\ pc' = "commit"
  /\ UNCHANGED <<treeView, logVars, manifest, pos, failure, runVars, envVars, faults>>

TellCommitted ==
  /\ pc = "commit"
  /\ Emit(run, "result_committed", Step, "none")
  /\ Goto("complete")
  /\ UNCHANGED <<treeView, manifest, runVars, envVars, faults>>

TellCompleted ==
  /\ pc = "complete"
  /\ Emit(run, "phase_completed", Step, "completed")
  /\ NextStep
  /\ UNCHANGED <<treeView, manifest, runVars, envVars, faults>>

-----------------------------------------------------------------------------
(* A turn that fails: remembered, told, and raised on.                     *)

\* The failed step given the word of its dependents.
FailAsBlocked(kind) ==
  /\ memory' = [memory EXCEPT ![Step] = "blocked"]
  /\ failure' = kind /\ pc' = "warn"
  /\ UNCHANGED <<treeView, logVars, manifest, pos, skippedBy, runVars, envVars>>

\* The attempt's handler: the word is remembered, then the warning is told.
Fail(kind) ==
  /\ memory' = [memory EXCEPT ![Step] = "failed"]
  /\ failure' = kind /\ pc' = "warn"
  /\ UNCHANGED <<treeView, logVars, manifest, pos, skippedBy, runVars, envVars>>

\* A receipt is not met or an input is missing: nothing was allocated.
RefuseAttempt ==
  /\ pc = "attempt"
  /\ ~(ReceiptMet(Step) /\ InputsThere(Step))
  /\ Fail("exception")
  /\ UNCHANGED faults

\* The warning that says the step failed, before the exception goes on.
TellFailed ==
  /\ pc = "warn"
  /\ Emit(run, "warning", Step, "failed")
  /\ Goto("finally")
  /\ UNCHANGED <<treeView, manifest, runVars, envVars, faults>>

Fault == faults < MaxFaults /\ faults' = faults + 1

\* The attempt raises, or is interrupted; just after its publish, on its way
\* back to the loop, it can only be interrupted.
AttemptRaises(kind) ==
  /\ pc \in {"attempt", "published"}
  /\ pc = "published" => kind = "interrupt"
  /\ Fault
  /\ Fail(kind)

\* Anything else the loop does may raise too, outside the attempt's handler.
LoopRaises ==
  /\ pc \in {"turn", "retire", "decide"} /\ pos <= Length
  /\ Fault
  /\ failure' = "exception" /\ pc' = "finally"
  /\ UNCHANGED <<treeView, logVars, manifest, pos, memory, skippedBy, runVars, envVars>>

\* KeyboardInterrupt or SystemExit between two statements of the loop.
Interrupt ==
  /\ pc \in LoopPoints
  /\ Fault
  /\ failure' = "interrupt" /\ pc' = "finally"
  /\ UNCHANGED <<treeView, logVars, manifest, pos, memory, skippedBy, runVars, envVars>>

\* A line that cannot be written raises like anything else.
TellFails ==
  /\ Telling
  /\ Fault
  /\ EmitFails
  /\ IF pc = "terminal"
       THEN Exit
       ELSE /\ failure' = "exception" /\ pc' = "finally"
            /\ UNCHANGED <<pos, memory, skippedBy>>
  /\ UNCHANGED <<treeView, manifest, runVars, envVars>>

\* The process is killed: what is on disk stays as it is.
Kill ==
  /\ pc # "idle"
  /\ Fault
  /\ IF Telling THEN EmitTorn ELSE UNCHANGED logVars
  /\ Exit
  /\ UNCHANGED <<treeView, manifest, runVars, envVars>>

-----------------------------------------------------------------------------
(* The finally: the manifest is derived from the stream, then the stream   *)
(* says that the run ended.                                                *)

LoopEnds ==
  /\ pc = "turn" /\ pos > Length
  /\ Goto("finally")
  /\ UNCHANGED <<treeView, logVars, manifest, runVars, envVars, faults>>

\* What the lines of this run say of s: its last terminal line.
WordLines(s) ==
  {i \in OwnLines : /\ stream[i].step = s
                    /\ stream[i].event \in {"phase_completed", "warning"}}

ToldWord(s) ==
  IF WordLines(s) = {} THEN "none"
  ELSE stream[CHOOSE i \in WordLines(s) : \A j \in WordLines(s) : j <= i].word

\* derive_statuses over the lines this run appended.
Derived == Classified([s \in Steps |-> ToldWord(s)])

\* An unreadable stream or a disagreement with memory: no manifest.
WithholdManifest ==
  /\ pc = "finally"
  /\ ~Readable \/ Derived # Classified(memory)
  /\ Exit
  /\ UNCHANGED <<treeView, logVars, manifest, runVars, envVars, faults>>

WriteTemporary ==
  /\ pc = "finally"
  /\ Readable /\ Derived = Classified(memory)
  /\ Goto("rename")
  /\ UNCHANGED <<treeView, logVars, manifest, runVars, envVars, faults>>

RenameManifest ==
  /\ pc = "rename"
  /\ manifest' = [run |-> run, words |-> Derived]
  /\ Goto("terminal")
  /\ UNCHANGED <<treeView, logVars, runVars, envVars, faults>>

\* write_manifest raises: nothing more is written.
ManifestFails ==
  /\ pc \in {"finally", "rename"}
  /\ Fault
  /\ Exit
  /\ UNCHANGED <<treeView, logVars, manifest, runVars, envVars>>

\* The terminal line whatever ended the run.
TerminalAlways ==
  /\ pc = "terminal"
  /\ Emit(run, "campaign_terminal", "none",
          IF failure = "none" THEN "completed" ELSE "failed")
  /\ Exit
  /\ UNCHANGED <<treeView, manifest, runVars, envVars, faults>>

\* _terminal: an interrupted run has its manifest and no terminal line.
EndRun ==
  /\ pc = "terminal"
  /\ IF failure = "interrupt"
       THEN UNCHANGED logVars
       ELSE Emit(run, "campaign_terminal", "none",
                 IF failure = "none" THEN "completed" ELSE "failed")
  /\ Exit
  /\ UNCHANGED <<treeView, manifest, runVars, envVars, faults>>

-----------------------------------------------------------------------------
(* Between two runs.                                                       *)

\* The entry or the code of a step changes, and with it the identities of the
\* step and of its children.
Edit(s) ==
  /\ pc = "idle" /\ run \in 1..(MaxRuns - 1)
  /\ edits < MaxEdits /\ edits' = edits + 1
  /\ \A parent \in Steps : s \notin Children[parent]
  /\ identity' = [t \in Steps |->
                    identity[t] + IF t \in {s} \cup Children[s] THEN 1 ELSE 0]
  /\ UNCHANGED <<treeView, logVars, manifest, procVars, runVars, faults>>

\* A published file is truncated or overwritten: it no longer digests to what
\* its record stamped.  A conditional publishes none.
Damage(s) ==
  /\ pc = "idle" /\ run \in 1..(MaxRuns - 1)
  /\ edits < MaxEdits /\ edits' = edits + 1
  /\ live[s] # {} /\ content[s].intact /\ Kind[s] # "conditional"
  /\ content' = [content EXCEPT ![s].intact = FALSE]
  /\ UNCHANGED <<live, past, logVars, manifest, procVars, runVars, identity, faults>>

FreshStream ==
  /\ pc = "idle" /\ run < MaxRuns
  /\ MoveStreamAside
  /\ UNCHANGED <<treeView, manifest, procVars, runVars, envVars, faults>>

-----------------------------------------------------------------------------

\* The run itself, when nothing goes wrong that is not the step's own doing.
RunnerStep ==
  \/ BeginStep \/ TellSkip \/ RetireSkippedUnit
  \/ ReuseStep \/ TellReuse \/ DoNotReuse
  \/ PublishStep \/ Remember \/ TellCommitted \/ TellCompleted
  \/ RefuseAttempt \/ TellFailed
  \/ LoopEnds \/ WithholdManifest \/ WriteTemporary \/ RenameManifest \/ EndRun

Faulty ==
  \/ \E kind \in {"exception", "interrupt"} : AttemptRaises(kind)
  \/ LoopRaises \/ Interrupt \/ TellFails \/ ManifestFails \/ Kill

RunnerNext ==
  \/ StartRun
  \/ RunnerStep
  \/ Faulty
  \/ \E s \in Steps : Edit(s) \/ Damage(s)
  \/ FreshStream

RunnerSpec == RunnerInit /\ [][RunnerNext]_runnerVars

\* The process runs on, and somebody starts it again.
FairRunnerSpec ==
  /\ RunnerSpec
  /\ WF_runnerVars(RunnerStep)
  /\ WF_runnerVars(StartRun)
  /\ WF_runnerVars(FreshStream)

-----------------------------------------------------------------------------
(* Correctness.                                                            *)

RunnerTypeOK ==
  /\ live \in [Steps -> SUBSET Uids] /\ past \in [Steps -> SUBSET Uids]
  /\ \A s \in Steps :
        /\ content[s].identity \in Identities \cup {0}
        /\ content[s].data \subseteq Rows
        /\ content[s].intact \in BOOLEAN
        /\ \A p \in DOMAIN content[s].evidence :
              content[s].evidence[p] \in [data: SUBSET Rows, identity: Identities]
  /\ identity \in [Steps -> Identities]
  /\ manifest \in [run: 0..MaxRuns, words: [Steps -> Words \cup {"none"}]]
  /\ pc \in Points /\ pos \in 1..(Length + 1)
  /\ memory \in [Steps -> Reached] /\ skippedBy \subseteq Steps
  /\ failure \in {"none", "exception", "interrupt"}
  /\ resume \in BOOLEAN
  /\ run \in 0..MaxRuns /\ faults \in 0..MaxFaults /\ edits \in 0..MaxEdits
  /\ \A i \in DOMAIN stream :
        /\ stream[i].seq \in Nat /\ stream[i].run \in 1..run
        /\ stream[i].event \in Events

\* A line that says a result was committed is never ahead of the run tree: the
\* unit it speaks of was published, whatever happened since.
NarratedIsPublished ==
  \A i \in DOMAIN stream :
     stream[i].event = "result_committed" =>
       stream[i].run \in live[stream[i].step] \cup past[stream[i].step]

\* No step is attempted on a missing or a failed dependency, or on one an
\* earlier run left there: each has been published, verified for reuse or, a
\* selected child of a join, skipped in this run; and no join is made of nothing.
DependenciesSettled ==
  pc = "attempt" =>
    \A d \in Deps[Step] :
       \/ memory[d] \in {"completed", "reused"} /\ live[d] # {}
       \/ /\ d \in SelectedChildren[Step] /\ memory[d] = "skipped"
          /\ \E c \in SelectedChildren[Step] : memory[c] # "skipped"

\* The manifest a reader may trust: the stream ends in the terminal line of the
\* run that wrote it, or is about to.
Trusted == \/ Finished /\ manifest.run = LastLine.run
           \/ pc = "terminal" /\ failure # "interrupt"

Said(word) == {s \in Steps : manifest.words[s] = word}

\* A manifest with its terminal line is true of the run tree: completed is a
\* unit of that run, reused one of an earlier run, and what was blocked or not
\* reached published nothing, however many runs were killed before or since.
ManifestIsTrue ==
  Trusted =>
    /\ \A s \in Said("completed") : live[s] = {manifest.run}
    /\ \A s \in Said("reused") : live[s] # {} /\ manifest.run \notin live[s]
    /\ \A s \in Said("blocked") \cup Said("pending") : manifest.run \notin live[s]
    /\ \A s \in Steps : manifest.words[s] # "none"

\* A run that ended in its terminal line left no step below a failure, a block
\* or a step it did not reach as anything it could have produced.
WordsFollowDependencies ==
  Trusted =>
    \A s \in Steps : \A d \in Deps[s] :
       /\ manifest.words[d] \in {"failed", "blocked"} =>
            manifest.words[s] \in {"blocked", "skipped"}
       /\ manifest.words[d] = "pending" =>
            manifest.words[s] \notin {"completed", "reused", "failed"}

\* What the run that completed says of gating and evidence, and what is live.
Complete == Finished /\ LastLine.word = "completed"

\* Every decision, conditional and join a completed run leaves rests on what is
\* published now, through any number of edits, damages, kills and resumes: a join
\* holds the rows of its children, and of no child that a verdict took out.
EvidenceCoherent ==
  Complete =>
    \A s \in Steps : live[s] # {} =>
       /\ content[s].evidence = CurrentEvidence(s)
       /\ Children[s] # {} =>
            content[s].data =
              UNION {content[c].data : c \in {c \in Children[s] : live[c] # {}}}

\* A completed run leaves a unit for exactly the steps that the published
\* conditionals do not gate off, made from the document as it stood.
TreeFollowsVerdicts ==
  Complete =>
    LET deciding == {s \in Steps : Kind[s] = "conditional" /\ live[s] # {}}
        off == FoldSkips(UNION {Gated(s) : s \in deciding}, {})
    IN \A s \in Steps : live[s] = {} <=> s \in off

\* No step a completed run leaves stands on a receipt that failed or flipped.
ReceiptsStand ==
  Complete => \A s \in Steps : live[s] # {} => ReceiptMet(s)

\* What is reused or made is what the document of the day asks for.
IdentitiesCurrent ==
  pc = "terminal" /\ failure = "none" =>
    \A s \in Steps : live[s] # {} =>
       content[s].identity = identity[s] /\ content[s].intact

\* The run ended because a step was not allocated on a receipt it requires.
Refused ==
  /\ Finished /\ LastLine.word = "failed"
  /\ \E s \in Said("failed") : ~ReceiptMet(s)

\* Nothing a run leaves on disk stops the runs after it for good: with the
\* faults over, somebody starting it again, some run ends completed or on a
\* receipt that says no.
RecoversEventually == <>(Complete \/ Refused)

-----------------------------------------------------------------------------
(* What the documents say and the code does not do.                        *)

\* docs/workflow_protocol.md:1569: the stream's numbers are gap-free.
StreamGapFree == \A i \in DOMAIN stream : stream[i].seq = i - 1

\* docs/workflow_protocol.md:1907: a step's skipped status is a conditional's
\* verdict over its producer's decision.json.
VerdictFollowsDecision ==
  Complete =>
    \A s \in Steps :
       Kind[s] = "conditional" /\ Children[s] = {} /\ live[s] # {} =>
          content[s].data = {<<s, Verdict(Outcome(Input[s]))>>}

=============================================================================
