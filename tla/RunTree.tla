------------------------------ MODULE RunTree ------------------------------
(***************************************************************************)
(* The run tree of a workflow (causalab/workflow/manifest.py and the       *)
(* attempt/publish half of runner.py): where the units of every step are,  *)
(* and one step's turn over them.                                          *)
(*                                                                         *)
(* A unit is what one attempt of a step writes.  It is created as          *)
(* `.attempts/<step>/<id>/', renamed onto `<step>/' when it is published,  *)
(* moved aside to `.attempts/<step>/<id>.previous/' by the publish that    *)
(* replaces it and retained as `.attempts/<step>/<n>.superseded/'.  The    *)
(* model follows the unit instead of the directory: a rename changes its   *)
(* field at, so that what is lost, duplicated or left behind shows.        *)
(*                                                                         *)
(* The runner is one process and takes the steps' turns one at a time; it  *)
(* may be killed between any two file-system operations, and any operation *)
(* may raise.                                                              *)
(***************************************************************************)
EXTENDS Integers, FiniteSets

CONSTANTS
  Steps,          \* the scheduled steps (each with its own attempts root)
  MaxAttempts,    \* bound: attempts ever made of one step
  Retained        \* RETAINED_FAILED_ATTEMPTS

ASSUME MaxAttemptsAssumption == MaxAttempts \in Nat \ {0}
ASSUME RetainedAssumption == Retained \in Nat \ {0}

VARIABLES
  units,    \* units[s][u]: the u-th attempt of step s, wherever it is now
  phase,    \* how far the turn in progress has come, "idle" between turns
  turn,     \* the step whose turn it is
  subject,  \* the unit the turn is writing or retaining, 0 if none
  caller    \* who called retain_superseded: the restore, the publish, a skip

treeVars == <<units, phase, turn, subject, caller>>

Uids == 1..MaxAttempts

Places == {"unmade", "attempt", "published", "previous", "superseded", "pruned"}
Outputs == {"none", "partial", "good", "bad"}
Dispositions == {"none", "candidate", "accepted", "torn", "superseded"}

Unit == [at: Places,
         id: Nat,                      \* attempt directory number
         by: Nat,                      \* attempt that displaced it, 0 if none
         n: Nat,                       \* superseded directory number
         outputs: Outputs,
         disposition: Dispositions,    \* of its _step.json
         failed: BOOLEAN]              \* attempt.json written

Unmade == [at |-> "unmade", id |-> 0, by |-> 0, n |-> 0, outputs |-> "none",
           disposition |-> "none", failed |-> FALSE]

\* Phases of the body of _attempt_step's try statement.
TryPhases == {"created", "written", "verified", "recorded", "accepted",
              "displaced", "renamed"}
RetainPhases == {"moved", "marking"}
Phases == {"idle", "restore", "ready", "retire", "prune", "committed"}
            \cup TryPhases \cup RetainPhases

At(s, place) == {u \in Uids : units[s][u].at = place}
StepDir(s)   == At(s, "published")
Displaced(s) == At(s, "previous")
Attempts(s)  == At(s, "attempt")

\* The next number of a counter that continues from the largest one taken.
IsNext(k, taken) == /\ \A t \in taken : t < k
                    /\ IF taken = {} THEN k = 1 ELSE k - 1 \in taken

SetUnit(s, u, unit) == units' = [units EXCEPT ![s][u] = unit]

Subject == units[turn][subject]

TreeInit ==
  /\ units = [s \in Steps |-> [u \in Uids |-> Unmade]]
  /\ phase = "idle"
  /\ turn \in Steps
  /\ subject = 0
  /\ caller = "none"

-----------------------------------------------------------------------------
(* The turn begins: restore_displaced finishes an earlier, killed publish. *)

BeginTurn(s) ==
  /\ phase = "idle"
  /\ phase' = "restore" /\ turn' = s
  /\ UNCHANGED <<units, subject, caller>>

\* The new unit never landed: its predecessor goes back to the step directory.
RestoreBack ==
  /\ phase = "restore"
  /\ StepDir(turn) = {}
  /\ \E u \in Displaced(turn) :
        SetUnit(turn, u, [units[turn][u] EXCEPT !.at = "published", !.by = 0])
  /\ UNCHANGED <<phase, turn, subject, caller>>

\* A retained unit under the number of the attempt that displaced it.
RetainUnderAttemptId(u, who) ==
  /\ SetUnit(turn, u, [units[turn][u] EXCEPT !.at = "superseded",
                                             !.n = units[turn][u].by])
  /\ phase' = "moved" /\ subject' = u /\ caller' = who
  /\ UNCHANGED turn

\* A replaced unit deleted instead of retained.
RetainNothing(u, who) ==
  /\ SetUnit(turn, u, [units[turn][u] EXCEPT !.at = "pruned"])
  /\ phase' = "moved" /\ subject' = u /\ caller' = who
  /\ UNCHANGED turn

\* retain_superseded, first half: the unit u moves to <n>.superseded/.
Retain(u, who) ==
  /\ \E n \in Uids :
        /\ IsNext(n, {units[turn][v].n : v \in At(turn, "superseded")})
        /\ SetUnit(turn, u, [units[turn][u] EXCEPT !.at = "superseded", !.n = n])
  /\ phase' = "moved" /\ subject' = u /\ caller' = who
  /\ UNCHANGED turn

\* The new unit did land: the displaced one is retained.
RestoreRetain ==
  /\ phase = "restore"
  /\ StepDir(turn) # {}
  /\ \E u \in Displaced(turn) : Retain(u, "restore")

\* A turn that goes on without finishing the recovery.
RestoreForgotten ==
  /\ phase = "restore"
  /\ phase' = "ready"
  /\ UNCHANGED <<units, turn, subject, caller>>

RestoreDone ==
  /\ phase = "restore"
  /\ Displaced(turn) = {}
  /\ phase' = "ready"
  /\ UNCHANGED <<units, turn, subject, caller>>

\* retain_superseded, second half: write_text truncates _step.json ...
RetainTruncate ==
  /\ phase = "moved"
  /\ SetUnit(turn, subject, [Subject EXCEPT !.disposition = "torn"])
  /\ phase' = "marking"
  /\ UNCHANGED <<turn, subject, caller>>

\* The mark returning to whoever called it instead of to the restore loop.
RetainMarkReturnsToCaller ==
  /\ phase = "marking"
  /\ SetUnit(turn, subject, [Subject EXCEPT !.disposition = "superseded"])
  /\ phase' = caller
  /\ subject' = 0 /\ caller' = "none"
  /\ UNCHANGED turn

\* ... and fills it with the marked record.
RetainMark ==
  /\ phase = "marking"
  /\ SetUnit(turn, subject, [Subject EXCEPT !.disposition = "superseded"])
  /\ phase' = IF caller = "restore" THEN "restore" ELSE "idle"
  /\ subject' = 0 /\ caller' = "none"
  /\ UNCHANGED turn

-----------------------------------------------------------------------------
(* The three outcomes of a turn: skipped, reused, attempted.               *)

\* A skipped step has no attempt; a unit it published earlier is retired.
Skip ==
  /\ phase = "ready"
  /\ phase' = IF StepDir(turn) = {} THEN "idle" ELSE "retire"
  /\ UNCHANGED <<units, turn, subject, caller>>

RetireSkipped ==
  /\ phase = "retire"
  /\ \E u \in StepDir(turn) : Retain(u, "skip")

\* A reused step's turn ends with the tree as it is.
Reuse ==
  /\ phase = "ready"
  /\ StepDir(turn) # {}
  /\ phase' = "idle"
  /\ UNCHANGED <<units, turn, subject, caller>>

BeginAttempt ==
  /\ phase = "ready"
  /\ phase' = "prune"
  /\ UNCHANGED <<units, turn, subject, caller>>

\* The wrong end of the sorted list pruned.
PruneNewestAttempt ==
  /\ phase = "prune"
  /\ Cardinality(Attempts(turn)) > Retained - 1
  /\ \E u \in Attempts(turn) :
        /\ \A v \in Attempts(turn) : units[turn][u].id >= units[turn][v].id
        /\ SetUnit(turn, u, [units[turn][u] EXCEPT !.at = "pruned"])
  /\ UNCHANGED <<phase, turn, subject, caller>>

\* prune_attempts: the oldest numbered directory goes while there are more
\* than `keep' = RETAINED_FAILED_ATTEMPTS - 1.
PruneAttempt ==
  /\ phase = "prune"
  /\ Cardinality(Attempts(turn)) > Retained - 1
  /\ \E u \in Attempts(turn) :
        /\ \A v \in Attempts(turn) : units[turn][u].id <= units[turn][v].id
        /\ SetUnit(turn, u, [units[turn][u] EXCEPT !.at = "pruned"])
  /\ UNCHANGED <<phase, turn, subject, caller>>

\* new_attempt_dir: the id continues from the largest directory present.
NewAttempt ==
  /\ phase = "prune"
  /\ Cardinality(Attempts(turn)) <= Retained - 1
  /\ \E u, id \in Uids :
        /\ \A v \in Uids : v < u <=> units[turn][v].at # "unmade"
        /\ IsNext(id, {units[turn][v].id : v \in Attempts(turn)})
        /\ SetUnit(turn, u, [Unmade EXCEPT !.at = "attempt", !.id = id])
        /\ subject' = u
  /\ phase' = "created"
  /\ UNCHANGED <<turn, caller>>

-----------------------------------------------------------------------------
(* The attempt: write, verify, record, publish.                            *)

SetSubject(unit, next) ==
  /\ SetUnit(turn, subject, unit)
  /\ phase' = next
  /\ UNCHANGED <<turn, subject, caller>>

\* Some of the declared outputs are on disk, not all.
WritePartial ==
  /\ phase = "created"
  /\ Subject.outputs = "none"
  /\ SetSubject([Subject EXCEPT !.outputs = "partial"], "created")

\* The step's own code returned: its outputs are what they are.
WriteOutputs ==
  /\ phase = "created"
  /\ \E o \in {"good", "bad"} :
        SetSubject([Subject EXCEPT !.outputs = o], "written")

\* Whatever the step wrote is taken as verified.
OutputsUnverified ==
  /\ phase = "written"
  /\ phase' = "verified"
  /\ UNCHANGED <<units, turn, subject, caller>>

\* _verify_outputs raises on an output that does not parse as declared.
VerifyOutputs ==
  /\ phase = "written"
  /\ Subject.outputs = "good"
  /\ phase' = "verified"
  /\ UNCHANGED <<units, turn, subject, caller>>

RecordCandidate ==
  /\ phase = "verified"
  /\ SetSubject([Subject EXCEPT !.disposition = "candidate"], "recorded")

RecordAccepted ==
  /\ phase = "recorded"
  /\ SetSubject([Subject EXCEPT !.disposition = "accepted"], "accepted")

\* The stale step directory removed before the rename, not moved aside.
DisplaceByDeleting ==
  /\ phase = "accepted"
  /\ IF StepDir(turn) = {}
       THEN UNCHANGED units
       ELSE \E u \in StepDir(turn) :
              SetUnit(turn, u, [units[turn][u] EXCEPT !.at = "pruned"])
  /\ phase' = "displaced"
  /\ UNCHANGED <<turn, subject, caller>>

\* publish_attempt, first rename: a unit in the step directory moves aside.
Displace ==
  /\ phase = "accepted"
  /\ IF StepDir(turn) = {}
       THEN UNCHANGED units
       ELSE \E u \in StepDir(turn) :
              SetUnit(turn, u, [units[turn][u] EXCEPT !.at = "previous",
                                                      !.by = Subject.id])
  /\ phase' = "displaced"
  /\ UNCHANGED <<turn, subject, caller>>

\* publish_attempt, second rename: a directory is never renamed onto another.
Publish ==
  /\ phase = "displaced"
  /\ StepDir(turn) = {}
  /\ SetSubject([Subject EXCEPT !.at = "published"], "renamed")

\* _attempt_step has returned; the caller narrates the publish.
AttemptReturns ==
  /\ phase = "renamed"
  /\ phase' = "committed" /\ subject' = 0
  /\ UNCHANGED <<units, turn, caller>>

\* The turn's last act: the unit this publish displaced is retained.
RetainDisplaced ==
  /\ phase = "committed"
  /\ \E u \in Displaced(turn) : Retain(u, "publish")

EndTurn ==
  /\ phase = "committed"
  /\ Displaced(turn) = {}
  /\ phase' = "idle"
  /\ UNCHANGED <<units, turn, subject, caller>>

-----------------------------------------------------------------------------
(* A turn that does not finish.                                            *)

\* An exception or an interrupt inside the try: the attempt keeps its
\* attempt.json.  Once the attempt directory has been renamed away there is
\* nowhere to write it, and the error of that write is swallowed.
AttemptFails ==
  /\ phase \in TryPhases
  /\ IF Subject.at = "attempt"
       THEN SetUnit(turn, subject, [Subject EXCEPT !.failed = TRUE])
       ELSE UNCHANGED units
  /\ phase' = "idle" /\ subject' = 0
  /\ UNCHANGED <<turn, caller>>

\* The process is killed, or an exception leaves the turn outside the try:
\* the tree stays as it is.
Abandon ==
  /\ phase # "idle"
  /\ phase' = "idle" /\ subject' = 0 /\ caller' = "none"
  /\ UNCHANGED <<units, turn>>

-----------------------------------------------------------------------------

Recover == RestoreBack \/ RestoreRetain \/ RestoreDone
RetainRest == RetainTruncate \/ RetainMark
Attempt == \/ PruneAttempt \/ NewAttempt \/ WritePartial \/ WriteOutputs
           \/ VerifyOutputs \/ RecordCandidate \/ RecordAccepted
           \/ Displace \/ Publish \/ AttemptReturns

TreeNext ==
  \/ \E s \in Steps : BeginTurn(s)
  \/ Recover
  \/ RetainRest
  \/ Skip \/ RetireSkipped \/ Reuse \/ BeginAttempt
  \/ Attempt
  \/ RetainDisplaced \/ EndTurn
  \/ AttemptFails \/ Abandon

TreeSpec == TreeInit /\ [][TreeNext]_treeVars

-----------------------------------------------------------------------------
(* Correctness.                                                            *)

TreeTypeOK ==
  /\ units \in [Steps -> [Uids -> Unit]]
  /\ phase \in Phases
  /\ turn \in Steps
  /\ subject \in 0..MaxAttempts
  /\ caller \in {"none", "restore", "publish", "skip"}

\* A step directory is a complete unit or absent: whatever kill, exception or
\* earlier damage to a publish, what is at <step>/ (or waits to be restored
\* there) passed the verification and carries its accepted record.
Complete(unit) == unit.outputs = "good" /\ unit.disposition = "accepted"

CompleteOrAbsent ==
  \A s \in Steps : \A u \in StepDir(s) \cup Displaced(s) : Complete(units[s][u])

\* One step directory, and at most one unit moved aside: no sequence of
\* killed publishes and restores leaves two candidates for the same name.
OnePerPlace ==
  \A s \in Steps : \A place \in {"published", "previous"} :
     \A u, v \in At(s, place) : u = v

\* What prune_attempts deletes is always older than what it keeps.
PrunedAreOldest ==
  \A s \in Steps : \A u \in At(s, "pruned"), v \in Attempts(s) : u < v

\* Supersession preserves: a unit that was once published is never deleted and
\* never goes back to being an attempt, and a superseded unit stays where it is.
Preserved == {"published", "previous", "superseded"}

NoStepLosesAUnit ==
  [][\A s \in Steps : \A u \in Uids :
       /\ units[s][u].at \in Preserved => units'[s][u].at \in Preserved
       /\ units[s][u].at = "superseded" =>
            units'[s][u].at = "superseded" /\ units'[s][u].n = units[s][u].n]_treeVars

\* Two retained units never share a directory.
SupersededNamesDistinct ==
  \A s \in Steps : \A u, v \in At(s, "superseded") :
     units[s][u].n = units[s][v].n => u = v

-----------------------------------------------------------------------------
(* What the documents say and the tree does not do.                        *)

\* manifest.py:299 and docs/workflow_protocol.md:2271: a retained unit's record
\* is marked superseded.  Recovery has run when a turn is ready, so a kill
\* inside retain_superseded should have been made good by then.
RecoveryMarksSuperseded ==
  phase = "ready" =>
    \A u \in At(turn, "superseded") : units[turn][u].disposition = "superseded"

\* What makes CompleteOrAbsent and OnePerPlace inductive: the attempt in
\* flight is still an attempt and has passed every check its phase follows,
\* between the recovery and the first rename nothing is moved aside, and what
\* was published is still there when the turn comes to retain its predecessor.
SubjectInv ==
  /\ phase \in TryPhases => subject \in Uids
  /\ phase \in TryPhases \ {"renamed"} => Subject.at = "attempt"
  /\ phase \in {"verified", "recorded", "accepted", "displaced"} =>
        Subject.outputs = "good"
  /\ phase \in {"accepted", "displaced"} => Subject.disposition = "accepted"
  /\ phase \in RetainPhases => subject \in Uids /\ Subject.at = "superseded"

RecoveredInv ==
  /\ phase \in {"ready", "retire", "prune"} \cup (TryPhases \ {"displaced", "renamed"})
        => Displaced(turn) = {}
  /\ phase = "displaced" => StepDir(turn) = {}
  /\ phase \in {"renamed", "committed"} => StepDir(turn) # {}

TreeInv ==
  TreeTypeOK /\ OnePerPlace /\ CompleteOrAbsent /\ SubjectInv /\ RecoveredInv

-----------------------------------------------------------------------------
(* Refinement: the tree implements the store of published units.  While a  *)
(* publish is between its two renames the unit moved aside is still the    *)
(* live one; once the new unit has landed it is a past one.                *)

LiveUnits(s) == IF StepDir(s) # {} THEN StepDir(s) ELSE Displaced(s)
PastUnits(s) == At(s, "superseded") \cup
                  (IF StepDir(s) # {} THEN Displaced(s) ELSE {})

Store == INSTANCE PublicationStore
           WITH live <- [s \in Steps |-> LiveUnits(s)],
                past <- [s \in Steps |-> PastUnits(s)]

\* A reader sees publishes and retirements only: no attempt, kill, restore or
\* retention changes which unit is live or forgets a past one.
ImplementsStore == Store!StoreSpec

=============================================================================
