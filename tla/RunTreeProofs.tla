--------------------------- MODULE RunTreeProofs ---------------------------
(***************************************************************************)
(* Theorems about RunTree, for every set of steps, every number of         *)
(* attempts and every retention bound.  TreeInv is inductive; the store    *)
(* refinement follows step by step from it.                                *)
(***************************************************************************)
EXTENDS RunTree, TLAPS

\* A changed unit keeps the table well typed and leaves the others alone.
LEMMA SetUnitEffect ==
  ASSUME NEW s \in Steps, NEW u \in Uids, NEW new \in Unit,
         TreeTypeOK, SetUnit(s, u, new)
  PROVE  /\ units' \in [Steps -> [Uids -> Unit]]
         /\ units'[s][u] = new
         /\ \A t \in Steps : \A v \in Uids :
               t # s \/ v # u => units'[t][v] = units[t][v]
BY DEF TreeTypeOK, SetUnit

LEMMA UnmadeType == Unmade \in Unit
BY DEF Unmade, Unit, Places, Outputs, Dispositions

\* The initial run tree is empty.
LEMMA TreeInitInv == TreeInit => TreeInv
<1> SUFFICES ASSUME TreeInit PROVE TreeInv
  OBVIOUS
<1>1. TreeTypeOK
  BY UnmadeType, MaxAttemptsAssumption DEF TreeInit, TreeTypeOK, Phases
<1>2. \A s \in Steps : \A place \in Places \ {"unmade"} : At(s, place) = {}
  BY DEF TreeInit, At, Unmade, Places
<1>3. OnePerPlace /\ CompleteOrAbsent
  BY <1>2 DEF OnePerPlace, CompleteOrAbsent, StepDir, Displaced, Places
<1>4. SubjectInv /\ RecoveredInv
  BY DEF TreeInit, SubjectInv, RecoveredInv, TryPhases, RetainPhases
<1> QED
  BY <1>1, <1>3, <1>4 DEF TreeInv

\* A unit that is, after a step, neither published nor moved aside disturbs
\* neither place: what is left there was there before.
LEMMA QuietStep ==
  ASSUME NEW s \in Steps, NEW u \in Uids, NEW new \in Unit,
         TreeInv, SetUnit(s, u, new), new.at \notin {"published", "previous"}
  PROVE  /\ OnePerPlace' /\ CompleteOrAbsent'
         /\ \A t \in Steps : /\ StepDir(t)' \subseteq StepDir(t)
                             /\ Displaced(t)' \subseteq Displaced(t)
<1>1. /\ units' \in [Steps -> [Uids -> Unit]]
      /\ units'[s][u] = new
      /\ \A t \in Steps : \A v \in Uids :
            t # s \/ v # u => units'[t][v] = units[t][v]
  BY SetUnitEffect DEF TreeInv
<1>2. \A t \in Steps : \A place \in {"published", "previous"} :
         At(t, place)' \subseteq At(t, place)
  BY <1>1 DEF At
<1>3. \A t \in Steps : \A v \in Uids :
         units'[t][v].at \in {"published", "previous"} => units'[t][v] = units[t][v]
  BY <1>1
<1>4. OnePerPlace'
  BY <1>2 DEF OnePerPlace, TreeInv
<1>5. CompleteOrAbsent'
  BY <1>2, <1>3 DEF CompleteOrAbsent, StepDir, Displaced, At, TreeInv
<1> QED
  BY <1>2, <1>4, <1>5 DEF StepDir, Displaced

\* The same when no unit changes.
LEMMA TreeUnchanged ==
  ASSUME TreeInv, UNCHANGED units
  PROVE  /\ OnePerPlace' /\ CompleteOrAbsent'
         /\ \A s \in Steps : /\ StepDir(s)' = StepDir(s)
                             /\ Displaced(s)' = Displaced(s)
BY DEF TreeInv, OnePerPlace, CompleteOrAbsent, StepDir, Displaced, At

-----------------------------------------------------------------------------
(* One lemma per part of the turn: the actions preserve TreeInv.           *)

\* The recovery: a unit goes back only where nothing is published.
LEMMA RestoreBackInv == TreeInv /\ RestoreBack => TreeInv'
<1> SUFFICES ASSUME TreeInv, RestoreBack PROVE TreeInv'
  OBVIOUS
<1>0. PICK s \in Steps : s = turn
  BY DEF TreeInv, TreeTypeOK
<1>1. PICK u \in Displaced(s) :
         SetUnit(s, u, [units[s][u] EXCEPT !.at = "published", !.by = 0])
  BY <1>0 DEF RestoreBack
<1> DEFINE new == [units[s][u] EXCEPT !.at = "published", !.by = 0]
<1>2. u \in Uids /\ units[s][u] \in Unit
  BY <1>1 DEF TreeInv, TreeTypeOK, Displaced, At
<1>3. new \in Unit
  BY <1>2 DEF Unit, Places
<1>4. /\ units' \in [Steps -> [Uids -> Unit]]
      /\ units'[s][u] = new
      /\ \A t \in Steps : \A v \in Uids :
            t # s \/ v # u => units'[t][v] = units[t][v]
  BY <1>1, <1>2, <1>3, SetUnitEffect DEF TreeInv
<1>5. /\ new.at = "published" /\ new.outputs = units[s][u].outputs
      /\ new.disposition = units[s][u].disposition
  BY <1>2 DEF Unit
<1>6. phase = "restore" /\ StepDir(s) = {} /\ UNCHANGED <<phase, turn, subject, caller>>
  BY <1>0 DEF RestoreBack
<1>7. TreeTypeOK'
  BY <1>4, <1>6 DEF TreeInv, TreeTypeOK
<1>8. OnePerPlace'
  <2>1. \A v \in Uids : units'[s][v].at = "published" => v = u
    BY <1>4, <1>6 DEF At, StepDir
  <2>2. \A v \in Uids : units'[s][v].at = "previous" => units[s][v].at = "previous"
    BY <1>2, <1>4, <1>5
  <2>3. \A t \in Steps \ {s} : \A v \in Uids : units'[t][v] = units[t][v]
    BY <1>4
  <2>4. \A place \in {"published", "previous"} :
           \A v, w \in At(s, place)' : v = w
    BY <2>1, <2>2 DEF OnePerPlace, TreeInv, At
  <2>5. \A t \in Steps \ {s} : \A place \in {"published", "previous"} :
           \A v, w \in At(t, place)' : v = w
    BY <2>3 DEF OnePerPlace, TreeInv, At
  <2> QED
    BY <2>4, <2>5 DEF OnePerPlace
<1>9. CompleteOrAbsent'
  <2>1. Complete(units[s][u])
    BY <1>1, <1>2 DEF TreeInv, CompleteOrAbsent
  <2>2. Complete(units'[s][u])
    BY <2>1, <1>4, <1>5 DEF Complete
  <2>3. SUFFICES ASSUME NEW t \in Steps, NEW v \in (StepDir(t) \cup Displaced(t))'
                 PROVE  Complete(units[t][v])'
    BY DEF CompleteOrAbsent
  <2>4. CASE t = s /\ v = u
    BY <2>2, <2>4 DEF Complete
  <2>5. CASE ~(t = s /\ v = u)
    <3>1. v \in Uids /\ units'[t][v] = units[t][v]
      BY <1>4, <2>5 DEF StepDir, Displaced, At
    <3>2. v \in StepDir(t) \cup Displaced(t)
      BY <3>1 DEF StepDir, Displaced, At
    <3> QED
      BY <3>1, <3>2 DEF TreeInv, CompleteOrAbsent, Complete
  <2> QED
    BY <2>4, <2>5
<1>10. SubjectInv' /\ RecoveredInv'
  BY <1>6 DEF SubjectInv, RecoveredInv, TryPhases, RetainPhases
<1> QED
  BY <1>7, <1>8, <1>9, <1>10 DEF TreeInv

\* retain_superseded's rename, whoever calls it.
LEMMA RetainInv ==
  ASSUME NEW u \in Uids, NEW who \in {"restore", "publish", "skip"},
         TreeInv, Retain(u, who)
  PROVE  TreeInv'
<1>1. PICK n \in Uids :
         SetUnit(turn, u, [units[turn][u] EXCEPT !.at = "superseded", !.n = n])
  BY DEF Retain
<1> DEFINE new == [units[turn][u] EXCEPT !.at = "superseded", !.n = n]
<1>2. turn \in Steps /\ units[turn][u] \in Unit
  BY DEF TreeInv, TreeTypeOK
<1>a. n \in Nat
  BY MaxAttemptsAssumption DEF Uids
<1>3. new \in Unit /\ new.at = "superseded"
  BY <1>2, <1>a DEF Unit, Places
<1>4. /\ units' \in [Steps -> [Uids -> Unit]]
      /\ units'[turn][u] = new
  BY <1>1, <1>2, <1>3, SetUnitEffect DEF TreeInv
<1>5. OnePerPlace' /\ CompleteOrAbsent'
  BY <1>1, <1>2, <1>3, QuietStep
<1>6. /\ phase' = "moved" /\ subject' = u /\ caller' = who /\ turn' = turn
  BY DEF Retain
<1>7. TreeTypeOK'
  BY <1>4, <1>6 DEF TreeInv, TreeTypeOK, Phases, RetainPhases, Uids
<1>8. SubjectInv' /\ RecoveredInv'
  BY <1>3, <1>4, <1>6
     DEF SubjectInv, RecoveredInv, TryPhases, RetainPhases, Subject
<1> QED
  BY <1>5, <1>7, <1>8 DEF TreeInv

\* The two halves of the record's rewrite touch a superseded unit only.
LEMMA RetainRestInv == TreeInv /\ RetainRest => TreeInv'
<1> SUFFICES ASSUME TreeInv, RetainRest PROVE TreeInv'
  OBVIOUS
<1>1. PICK d \in {"torn", "superseded"} :
         /\ SetUnit(turn, subject, [Subject EXCEPT !.disposition = d])
         /\ phase \in RetainPhases /\ turn' = turn
         /\ \/ phase' = "marking" /\ subject' = subject /\ caller' = caller
            \/ phase' \in {"restore", "idle"} /\ subject' = 0 /\ caller' = "none"
  <2>1. CASE RetainTruncate
    BY <2>1 DEF RetainTruncate, RetainPhases
  <2>2. CASE RetainMark
    BY <2>2 DEF RetainMark, RetainPhases
  <2> QED
    BY <2>1, <2>2 DEF RetainRest
<1> DEFINE new == [Subject EXCEPT !.disposition = d]
<1>3. /\ turn \in Steps /\ subject \in Uids /\ Subject \in Unit
      /\ Subject.at = "superseded"
  BY <1>1 DEF TreeInv, TreeTypeOK, SubjectInv, Subject
<1>4. new \in Unit /\ new.at = "superseded"
  BY <1>3 DEF Unit, Dispositions
<1>5. units' \in [Steps -> [Uids -> Unit]] /\ units'[turn][subject] = new
  BY <1>1, <1>3, <1>4, SetUnitEffect DEF TreeInv
<1>6. OnePerPlace' /\ CompleteOrAbsent'
  BY <1>1, <1>3, <1>4, QuietStep
<1>7. TreeTypeOK'
  BY <1>1, <1>3, <1>5, MaxAttemptsAssumption
     DEF TreeInv, TreeTypeOK, Phases, RetainPhases, Uids
<1>8. SubjectInv' /\ RecoveredInv'
  BY <1>1, <1>3, <1>4, <1>5
     DEF SubjectInv, RecoveredInv, TryPhases, RetainPhases, Subject
<1> QED
  BY <1>6, <1>7, <1>8 DEF TreeInv

\* The three callers of retain_superseded.
LEMMA RetainCallersInv ==
  TreeInv /\ (RestoreRetain \/ RetireSkipped \/ RetainDisplaced) => TreeInv'
<1> SUFFICES ASSUME TreeInv, RestoreRetain \/ RetireSkipped \/ RetainDisplaced
             PROVE  TreeInv'
  OBVIOUS
<1>1. PICK u \in Uids, who \in {"restore", "publish", "skip"} : Retain(u, who)
  BY DEF RestoreRetain, RetireSkipped, RetainDisplaced, Displaced, StepDir, At
<1> QED
  BY <1>1, RetainInv

\* Steps of control that move no unit.
LEMMA ControlInv ==
  ASSUME TreeInv,
         \/ \E s \in Steps : BeginTurn(s)
         \/ RestoreDone \/ Skip \/ Reuse \/ BeginAttempt \/ VerifyOutputs
         \/ AttemptReturns \/ EndTurn \/ Abandon
  PROVE  TreeInv'
<1>1. UNCHANGED units
  BY DEF BeginTurn, RestoreDone, Skip, Reuse, BeginAttempt, VerifyOutputs,
         AttemptReturns, EndTurn, Abandon
<1>2. OnePerPlace' /\ CompleteOrAbsent'
      /\ \A s \in Steps : StepDir(s)' = StepDir(s) /\ Displaced(s)' = Displaced(s)
  BY <1>1, TreeUnchanged
<1>3. 0 \in 0..MaxAttempts
  BY MaxAttemptsAssumption
<1>4. TreeTypeOK'
  BY <1>1, <1>3
     DEF TreeInv, TreeTypeOK, Phases, TryPhases, RetainPhases,
         BeginTurn, RestoreDone, Skip, Reuse, BeginAttempt, VerifyOutputs,
         AttemptReturns, EndTurn, Abandon
<1>5. SubjectInv'
  BY <1>1
     DEF TreeInv, SubjectInv, Subject, TryPhases, RetainPhases,
         BeginTurn, RestoreDone, Skip, Reuse, BeginAttempt, VerifyOutputs,
         AttemptReturns, EndTurn, Abandon
<1>6. RecoveredInv'
  BY <1>2
     DEF TreeInv, TreeTypeOK, RecoveredInv, TryPhases,
         BeginTurn, RestoreDone, Skip, Reuse, BeginAttempt, VerifyOutputs,
         AttemptReturns, EndTurn, Abandon
<1> QED
  BY <1>2, <1>4, <1>5, <1>6 DEF TreeInv

\* prune_attempts deletes an attempt directory, never another kind.
LEMMA PruneInv == TreeInv /\ PruneAttempt => TreeInv'
<1> SUFFICES ASSUME TreeInv, PruneAttempt PROVE TreeInv'
  OBVIOUS
<1>1. PICK u \in Attempts(turn) :
         SetUnit(turn, u, [units[turn][u] EXCEPT !.at = "pruned"])
  BY DEF PruneAttempt
<1> DEFINE new == [units[turn][u] EXCEPT !.at = "pruned"]
<1>2. turn \in Steps /\ u \in Uids /\ units[turn][u] \in Unit
  BY DEF TreeInv, TreeTypeOK, Attempts, At
<1>3. new \in Unit /\ new.at = "pruned"
  BY <1>2 DEF Unit, Places
<1>4. units' \in [Steps -> [Uids -> Unit]]
  BY <1>1, <1>2, <1>3, SetUnitEffect DEF TreeInv
<1>5. OnePerPlace' /\ CompleteOrAbsent'
      /\ \A s \in Steps : Displaced(s)' \subseteq Displaced(s)
  BY <1>1, <1>2, <1>3, QuietStep
<1>6. phase = "prune" /\ UNCHANGED <<phase, turn, subject, caller>>
  BY DEF PruneAttempt
<1>7. TreeTypeOK'
  BY <1>4, <1>6 DEF TreeInv, TreeTypeOK
<1>8. SubjectInv'
  BY <1>6 DEF SubjectInv, TryPhases, RetainPhases
<1>9. RecoveredInv'
  BY <1>2, <1>5, <1>6 DEF TreeInv, RecoveredInv, TryPhases
<1> QED
  BY <1>5, <1>7, <1>8, <1>9 DEF TreeInv

\* new_attempt_dir makes a unit where there was none.
LEMMA NewAttemptInv == TreeInv /\ NewAttempt => TreeInv'
<1> SUFFICES ASSUME TreeInv, NewAttempt PROVE TreeInv'
  OBVIOUS
<1>1. PICK u \in Uids, id \in Uids :
         /\ SetUnit(turn, u, [Unmade EXCEPT !.at = "attempt", !.id = id])
         /\ subject' = u
  BY DEF NewAttempt
<1> DEFINE new == [Unmade EXCEPT !.at = "attempt", !.id = id]
<1>2. turn \in Steps /\ id \in Nat
  BY MaxAttemptsAssumption DEF TreeInv, TreeTypeOK, Uids
<1>3. new \in Unit /\ new.at = "attempt"
  BY <1>2, UnmadeType DEF Unit, Places
<1>4. units' \in [Steps -> [Uids -> Unit]] /\ units'[turn][u] = new
  BY <1>1, <1>2, <1>3, SetUnitEffect DEF TreeInv
<1>5. OnePerPlace' /\ CompleteOrAbsent'
      /\ \A s \in Steps : Displaced(s)' \subseteq Displaced(s)
  BY <1>1, <1>2, <1>3, QuietStep
<1>6. phase = "prune" /\ phase' = "created" /\ turn' = turn /\ caller' = caller
  BY DEF NewAttempt
<1>7. TreeTypeOK'
  BY <1>1, <1>4, <1>6 DEF TreeInv, TreeTypeOK, Phases, TryPhases, Uids
<1>8. SubjectInv'
  BY <1>1, <1>3, <1>4, <1>6 DEF SubjectInv, Subject, TryPhases, RetainPhases
<1>9. RecoveredInv'
  BY <1>2, <1>5, <1>6 DEF TreeInv, RecoveredInv, TryPhases
<1> QED
  BY <1>5, <1>7, <1>8, <1>9 DEF TreeInv

\* The attempt writes its own directory: outputs, then the record, and on a
\* failure attempt.json.
LEMMA WriteInv ==
  ASSUME TreeInv,
         \/ WritePartial \/ WriteOutputs \/ RecordCandidate \/ RecordAccepted
         \/ AttemptFails
  PROVE  TreeInv'
<1>1. CASE AttemptFails /\ Subject.at # "attempt"
  <2>1. UNCHANGED units /\ phase' = "idle" /\ subject' = 0
        /\ UNCHANGED <<turn, caller>>
    BY <1>1 DEF AttemptFails
  <2>2. TreeTypeOK'
    BY <2>1, MaxAttemptsAssumption DEF TreeInv, TreeTypeOK, Phases
  <2> QED
    BY <2>1, <2>2, TreeUnchanged
       DEF TreeInv, SubjectInv, RecoveredInv, TryPhases, RetainPhases
<1>2. CASE ~(AttemptFails /\ Subject.at # "attempt")
  <2>1. PICK new :
           /\ SetUnit(turn, subject, new)
           /\ \/ \E o \in {"partial", "good", "bad"} :
                    new = [Subject EXCEPT !.outputs = o]
              \/ \E d \in {"candidate", "accepted"} :
                    new = [Subject EXCEPT !.disposition = d]
              \/ new = [Subject EXCEPT !.failed = TRUE]
    BY <1>2 DEF WritePartial, WriteOutputs, RecordCandidate, RecordAccepted,
                AttemptFails, SetSubject
  <2>2. /\ phase \in TryPhases /\ UNCHANGED <<turn, caller>>
        /\ subject' \in {subject, 0}
    BY <1>2 DEF WritePartial, WriteOutputs, RecordCandidate, RecordAccepted,
                AttemptFails, SetSubject, TryPhases
  <2>3. turn \in Steps /\ subject \in Uids /\ Subject \in Unit /\ Subject.at = "attempt"
    BY <1>2, <2>2
       DEF TreeInv, TreeTypeOK, SubjectInv, Subject, TryPhases, WritePartial,
           WriteOutputs, RecordCandidate, RecordAccepted, AttemptFails
  <2>4. new \in Unit /\ new.at = "attempt"
    BY <2>1, <2>3 DEF Unit, Outputs, Dispositions
  <2>5. units' \in [Steps -> [Uids -> Unit]] /\ units'[turn][subject] = new
    BY <2>1, <2>3, <2>4, SetUnitEffect DEF TreeInv
  <2>6. OnePerPlace' /\ CompleteOrAbsent'
        /\ \A s \in Steps : Displaced(s)' \subseteq Displaced(s)
    BY <2>1, <2>3, <2>4, QuietStep
  <2>7. TreeTypeOK'
    BY <1>2, <2>2, <2>3, <2>5, MaxAttemptsAssumption
       DEF TreeInv, TreeTypeOK, Phases, TryPhases, Uids, WritePartial,
           WriteOutputs, RecordCandidate, RecordAccepted, AttemptFails, SetSubject
  <2>8. SubjectInv'
    <3>1. CASE AttemptFails
      BY <3>1 DEF AttemptFails, SubjectInv, TryPhases, RetainPhases
    <3>2. CASE WritePartial \/ WriteOutputs
      BY <3>2, <2>2, <2>3, <2>4, <2>5
         DEF WritePartial, WriteOutputs, SetSubject, SubjectInv, Subject,
             TryPhases, RetainPhases
    <3>3. CASE RecordCandidate \/ RecordAccepted
      <4>1. PICK d \in {"candidate", "accepted"} :
               /\ SetUnit(turn, subject, [Subject EXCEPT !.disposition = d])
               /\ phase' = IF d = "candidate" THEN "recorded" ELSE "accepted"
               /\ subject' = subject
        BY <3>3 DEF RecordCandidate, RecordAccepted, SetSubject
      <4>2. Subject.outputs = "good"
        BY <3>3 DEF TreeInv, SubjectInv, RecordCandidate, RecordAccepted
      <4>3. [Subject EXCEPT !.disposition = d] \in Unit
        BY <2>3 DEF Unit, Dispositions
      <4>4. units'[turn][subject] = [Subject EXCEPT !.disposition = d]
        BY <4>1, <4>3, <2>3, SetUnitEffect DEF TreeInv
      <4>5. /\ Subject'.at = "attempt" /\ Subject'.outputs = "good"
            /\ Subject'.disposition = d
        BY <4>1, <4>2, <4>4, <2>2, <2>3 DEF Subject, Unit
      <4> QED
        BY <4>1, <4>5, <2>2, <2>3 DEF SubjectInv, TryPhases, RetainPhases
    <3> QED
      BY <3>1, <3>2, <3>3
  <2>9. RecoveredInv'
    BY <2>2, <2>3, <2>6
       DEF TreeInv, RecoveredInv, TryPhases, WritePartial, WriteOutputs,
           RecordCandidate, RecordAccepted, AttemptFails, SetSubject
  <2> QED
    BY <2>6, <2>7, <2>8, <2>9 DEF TreeInv
<1> QED
  BY <1>1, <1>2

\* The first rename of a publish: the live unit moves aside, and since the
\* recovery left nothing there it is alone.
LEMMA DisplaceInv == TreeInv /\ Displace => TreeInv'
<1> SUFFICES ASSUME TreeInv, Displace PROVE TreeInv'
  OBVIOUS
<1>0. PICK s \in Steps : s = turn
  BY DEF TreeInv, TreeTypeOK
<1>1. /\ phase = "accepted" /\ phase' = "displaced"
      /\ UNCHANGED <<turn, subject, caller>>
      /\ Displaced(s) = {} /\ subject \in Uids /\ Subject.at = "attempt"
      /\ Subject.outputs = "good" /\ Subject.disposition = "accepted"
  BY <1>0 DEF Displace, TreeInv, SubjectInv, RecoveredInv, TryPhases
<1>2. CASE StepDir(s) = {}
  <2>1. UNCHANGED units
    BY <1>0, <1>2 DEF Displace
  <2>2. TreeTypeOK' /\ SubjectInv'
    BY <1>1, <2>1 DEF TreeInv, TreeTypeOK, SubjectInv, Subject, Phases, TryPhases,
                      RetainPhases
  <2>3. RecoveredInv'
    BY <1>0, <1>1, <1>2, <2>1, TreeUnchanged DEF RecoveredInv, TryPhases
  <2> QED
    BY <2>1, <2>2, <2>3, TreeUnchanged DEF TreeInv
<1>3. CASE StepDir(s) # {}
  <2>1. PICK u \in StepDir(s) :
           SetUnit(s, u, [units[s][u] EXCEPT !.at = "previous", !.by = Subject.id])
    BY <1>0, <1>3 DEF Displace
  <2> DEFINE new == [units[s][u] EXCEPT !.at = "previous", !.by = Subject.id]
  <2>2. /\ u \in Uids /\ units[s][u] \in Unit /\ units[s][u].at = "published"
        /\ Subject \in Unit
    BY <1>0, <1>1, <2>1 DEF TreeInv, TreeTypeOK, StepDir, At, Subject
  <2>3. /\ new \in Unit /\ new.at = "previous"
        /\ new.outputs = units[s][u].outputs
        /\ new.disposition = units[s][u].disposition
    BY <2>2 DEF Unit, Places
  <2>4. /\ units' \in [Steps -> [Uids -> Unit]]
        /\ units'[s][u] = new
        /\ \A t \in Steps : \A v \in Uids :
              t # s \/ v # u => units'[t][v] = units[t][v]
    BY <2>1, <2>2, <2>3, SetUnitEffect DEF TreeInv
  <2>5. \A v \in Uids : /\ units'[s][v].at # "published"
                        /\ units'[s][v].at = "previous" => v = u
    <3>1. \A v \in Uids \ {u} : units[s][v].at # "published"
      BY <2>1, <2>2 DEF TreeInv, OnePerPlace, StepDir, At
    <3>2. \A v \in Uids : units[s][v].at # "previous"
      BY <1>1 DEF Displaced, At
    <3> QED
      BY <2>2, <2>3, <2>4, <3>1, <3>2
  <2>6. OnePerPlace'
    <3>1. \A place \in {"published", "previous"} :
             \A v, w \in At(s, place)' : v = w
      BY <2>5 DEF At
    <3>2. \A t \in Steps \ {s} : \A place \in {"published", "previous"} :
             \A v, w \in At(t, place)' : v = w
      BY <2>4 DEF OnePerPlace, TreeInv, At
    <3> QED
      BY <3>1, <3>2 DEF OnePerPlace
  <2>7. CompleteOrAbsent'
    <3>1. SUFFICES ASSUME NEW t \in Steps, NEW v \in (StepDir(t) \cup Displaced(t))'
                   PROVE  Complete(units[t][v])'
      BY DEF CompleteOrAbsent
    <3>2. CASE t = s /\ v = u
      BY <2>1, <2>3, <2>4, <3>2 DEF Complete, TreeInv, CompleteOrAbsent
    <3>3. CASE ~(t = s /\ v = u)
      <4>1. v \in Uids /\ units'[t][v] = units[t][v]
        BY <2>4, <3>3 DEF StepDir, Displaced, At
      <4>2. v \in StepDir(t) \cup Displaced(t)
        BY <4>1 DEF StepDir, Displaced, At
      <4> QED
        BY <4>1, <4>2 DEF TreeInv, CompleteOrAbsent, Complete
    <3> QED
      BY <3>2, <3>3
  <2>8. TreeTypeOK'
    BY <1>1, <2>4 DEF TreeInv, TreeTypeOK, Phases, TryPhases
  <2>9. SubjectInv'
    <3>1. subject # u
      BY <1>0, <1>1, <2>2 DEF Subject
    <3>2. Subject' = Subject
      BY <1>0, <1>1, <2>4, <3>1 DEF Subject
    <3> QED
      BY <1>1, <3>2 DEF SubjectInv, TryPhases, RetainPhases
  <2>10. RecoveredInv'
    BY <1>0, <1>1, <2>5 DEF RecoveredInv, TryPhases, StepDir, At
  <2> QED
    BY <2>6, <2>7, <2>8, <2>9, <2>10 DEF TreeInv
<1> QED
  BY <1>2, <1>3

\* The second rename: a verified unit with its accepted record takes a free
\* name.
LEMMA PublishInv == TreeInv /\ Publish => TreeInv'
<1> SUFFICES ASSUME TreeInv, Publish PROVE TreeInv'
  OBVIOUS
<1>0. PICK s \in Steps, u \in Uids : s = turn /\ u = subject
  BY DEF TreeInv, TreeTypeOK, SubjectInv, Publish, TryPhases
<1> DEFINE new == [units[s][u] EXCEPT !.at = "published"]
<1>1. /\ phase = "displaced" /\ phase' = "renamed"
      /\ UNCHANGED <<turn, subject, caller>>
      /\ SetUnit(s, u, new) /\ StepDir(s) = {}
      /\ units[s][u].at = "attempt" /\ units[s][u].outputs = "good"
      /\ units[s][u].disposition = "accepted"
  BY <1>0 DEF Publish, SetSubject, Subject, TreeInv, SubjectInv, TryPhases
<1>2. units[s][u] \in Unit
  BY DEF TreeInv, TreeTypeOK
<1>3. new \in Unit /\ new.at = "published" /\ Complete(new)
  BY <1>1, <1>2 DEF Unit, Places, Complete
<1>4. /\ units' \in [Steps -> [Uids -> Unit]]
      /\ units'[s][u] = new
      /\ \A t \in Steps : \A v \in Uids :
            t # s \/ v # u => units'[t][v] = units[t][v]
  BY <1>1, <1>3, SetUnitEffect DEF TreeInv
<1>5. \A v \in Uids : /\ units'[s][v].at = "published" => v = u
                      /\ units'[s][v].at = "previous" => units[s][v].at = "previous"
  BY <1>1, <1>3, <1>4 DEF StepDir, At
<1>6. OnePerPlace'
  <2>1. \A place \in {"published", "previous"} : \A v, w \in At(s, place)' : v = w
    BY <1>5 DEF At, OnePerPlace, TreeInv
  <2>2. \A t \in Steps \ {s} : \A place \in {"published", "previous"} :
           \A v, w \in At(t, place)' : v = w
    BY <1>4 DEF OnePerPlace, TreeInv, At
  <2> QED
    BY <2>1, <2>2 DEF OnePerPlace
<1>7. CompleteOrAbsent'
  <2>1. SUFFICES ASSUME NEW t \in Steps, NEW v \in (StepDir(t) \cup Displaced(t))'
                 PROVE  Complete(units[t][v])'
    BY DEF CompleteOrAbsent
  <2>2. CASE t = s /\ v = u
    BY <1>3, <1>4, <2>2 DEF Complete
  <2>3. CASE ~(t = s /\ v = u)
    <3>1. v \in Uids /\ units'[t][v] = units[t][v]
      BY <1>4, <2>3 DEF StepDir, Displaced, At
    <3>2. v \in StepDir(t) \cup Displaced(t)
      BY <3>1 DEF StepDir, Displaced, At
    <3> QED
      BY <3>1, <3>2 DEF TreeInv, CompleteOrAbsent, Complete
  <2> QED
    BY <2>2, <2>3
<1>8. TreeTypeOK'
  BY <1>1, <1>4 DEF TreeInv, TreeTypeOK, Phases, TryPhases
<1>9. u \in StepDir(s)'
  BY <1>3, <1>4 DEF StepDir, At
<1>10. turn' = s /\ phase' = "renamed" /\ u = subject'
  BY <1>0, <1>1
<1>11. SubjectInv'
  BY <1>10 DEF SubjectInv, TryPhases, RetainPhases
<1>12. RecoveredInv'
  BY <1>9, <1>10 DEF RecoveredInv, TryPhases, StepDir, At
<1> QED
  BY <1>6, <1>7, <1>8, <1>11, <1>12 DEF TreeInv

-----------------------------------------------------------------------------
(* The invariant, for the whole turn.                                      *)

LEMMA TreeNextInv == TreeInv /\ [TreeNext]_treeVars => TreeInv'
<1> SUFFICES ASSUME TreeInv, [TreeNext]_treeVars PROVE TreeInv'
  OBVIOUS
<1>1. CASE UNCHANGED treeVars
  BY <1>1, TreeUnchanged
     DEF treeVars, TreeInv, TreeTypeOK, SubjectInv, RecoveredInv, Subject
<1>2. CASE TreeNext
  BY <1>2, RestoreBackInv, RetainRestInv, RetainCallersInv, ControlInv, PruneInv,
     NewAttemptInv, WriteInv, DisplaceInv, PublishInv
     DEF TreeNext, Recover, Attempt
<1> QED
  BY <1>1, <1>2

\* Every reachable state of the run tree satisfies the inductive invariant:
\* types, one unit per place, complete units only, and what ties the attempt
\* in flight to its phase.
THEOREM TreeInvariance == TreeSpec => []TreeInv
BY TreeInitInv, TreeNextInv, PTL DEF TreeSpec

\* The table of units keeps its type (the field values of manifest.py's closed
\* vocabularies).
THEOREM TreeTypeCorrect == TreeSpec => []TreeTypeOK
<1>1. TreeInv => TreeTypeOK
  BY DEF TreeInv
<1> QED
  BY <1>1, TreeInvariance, PTL

\* A step directory is a complete unit or absent (docs/workflow_protocol.md
\* section 1.1), however publishes are killed, retried and restored.
THEOREM PublishedIsComplete == TreeSpec => []CompleteOrAbsent
<1>1. TreeInv => CompleteOrAbsent
  BY DEF TreeInv
<1> QED
  BY <1>1, TreeInvariance, PTL

\* restore_displaced never has to choose between two units.
THEOREM PublishedIsUnique == TreeSpec => []OnePerPlace
<1>1. TreeInv => OnePerPlace
  BY DEF TreeInv
<1> QED
  BY <1>1, TreeInvariance, PTL

-----------------------------------------------------------------------------
(* Nothing published is lost, and the tree implements the store.           *)

\* The numbers a unit is given: a new attempt follows every unit made before it
\* and every attempt directory present, the attempt that is pruned has the least
\* directory number, and a retained unit's directory is not one in use.
IsNewest(u, id) == /\ \A v \in Uids : units[turn][v].at # "unmade" => v < u
                   /\ \A v \in Attempts(turn) : units[turn][v].id < id
IsOldest(u) == \A v \in Attempts(turn) : units[turn][u].id <= units[turn][v].id
IsUnused(n) == \A v \in At(turn, "superseded") : units[turn][v].n < n

\* What one step may do to the place of one unit of the turn's step.
Moves(u, new) ==
  LET from == units[turn][u].at
      to   == new.at
  IN \/ from = "unmade" /\ to = "attempt" /\ IsNewest(u, new.id)
     \/ from = "attempt" /\ to = "attempt" /\ new.id = units[turn][u].id
     \/ from = "attempt" /\ to = "pruned" /\ IsOldest(u)
     \/ from = "superseded" /\ to = "superseded" /\ new.n = units[turn][u].n
     \/ from = "previous" /\ to = "published" /\ StepDir(turn) = {}
     \/ from = "previous" /\ to = "superseded" /\ StepDir(turn) # {} /\ IsUnused(new.n)
     \/ from = "published" /\ to = "previous" /\ Displaced(turn) = {}
     \/ from = "published" /\ to = "superseded" /\ Displaced(turn) = {}
          /\ IsUnused(new.n)
     \/ from = "attempt" /\ to = "published" /\ StepDir(turn) = {}

\* Every step moves at most one unit, along one of those edges.
LEMMA StepMoves ==
  ASSUME TreeInv, TreeNext
  PROVE  \/ UNCHANGED units
         \/ \E u \in Uids, new \in Unit : SetUnit(turn, u, new) /\ Moves(u, new)
<1>0. turn \in Steps /\ \A u \in Uids : units[turn][u] \in Unit
  BY DEF TreeInv, TreeTypeOK
<1>1. CASE \/ \E s \in Steps : BeginTurn(s)
           \/ RestoreDone \/ Skip \/ Reuse \/ BeginAttempt \/ VerifyOutputs
           \/ AttemptReturns \/ EndTurn \/ Abandon
  BY <1>1 DEF BeginTurn, RestoreDone, Skip, Reuse, BeginAttempt, VerifyOutputs,
              AttemptReturns, EndTurn, Abandon
<1>2. CASE RestoreBack
  <2>1. PICK u \in Displaced(turn) :
           SetUnit(turn, u, [units[turn][u] EXCEPT !.at = "published", !.by = 0])
    BY <1>2 DEF RestoreBack
  <2> DEFINE new == [units[turn][u] EXCEPT !.at = "published", !.by = 0]
  <2>2. u \in Uids /\ units[turn][u].at = "previous" /\ StepDir(turn) = {}
    BY <1>2 DEF RestoreBack, Displaced, At
  <2>3. new \in Unit /\ new.at = "published"
    BY <1>0, <2>2 DEF Unit, Places
  <2> QED
    BY <2>1, <2>2, <2>3 DEF Moves
<1>3. CASE RestoreRetain \/ RetireSkipped \/ RetainDisplaced
  <2>1. PICK u \in Uids, who \in {"restore", "publish", "skip"} :
           /\ Retain(u, who)
           /\ \/ units[turn][u].at = "previous" /\ StepDir(turn) # {}
              \/ units[turn][u].at = "published" /\ Displaced(turn) = {}
    BY <1>3 DEF RestoreRetain, RetireSkipped, RetainDisplaced, TreeInv, RecoveredInv,
                StepDir, Displaced, At
  <2>2. PICK n \in Uids :
           /\ SetUnit(turn, u, [units[turn][u] EXCEPT !.at = "superseded", !.n = n])
           /\ IsUnused(n)
    BY <2>1 DEF Retain, IsNext, IsUnused
  <2>3. n \in Nat
    BY MaxAttemptsAssumption DEF Uids
  <2> DEFINE new == [units[turn][u] EXCEPT !.at = "superseded", !.n = n]
  <2>4. new \in Unit /\ new.at = "superseded" /\ new.n = n
    BY <1>0, <2>3 DEF Unit, Places
  <2> QED
    BY <2>1, <2>2, <2>4 DEF Moves
<1>4. CASE RetainRest
  <2>1. PICK d \in {"torn", "superseded"} :
           SetUnit(turn, subject, [Subject EXCEPT !.disposition = d])
    BY <1>4 DEF RetainRest, RetainTruncate, RetainMark
  <2> DEFINE new == [Subject EXCEPT !.disposition = d]
  <2>2. subject \in Uids /\ Subject.at = "superseded"
    BY <1>4 DEF RetainRest, RetainTruncate, RetainMark, TreeInv, SubjectInv,
                RetainPhases
  <2>3. new \in Unit /\ new.at = "superseded" /\ new.n = Subject.n
    BY <1>0, <2>2 DEF Unit, Dispositions, Subject
  <2> QED
    BY <2>1, <2>2, <2>3 DEF Moves, Subject
<1>5. CASE PruneAttempt
  <2>1. PICK u \in Attempts(turn) :
           /\ SetUnit(turn, u, [units[turn][u] EXCEPT !.at = "pruned"])
           /\ IsOldest(u)
    BY <1>5 DEF PruneAttempt, IsOldest
  <2> DEFINE new == [units[turn][u] EXCEPT !.at = "pruned"]
  <2>2. u \in Uids /\ units[turn][u].at = "attempt"
    BY DEF Attempts, At
  <2>3. new \in Unit /\ new.at = "pruned"
    BY <1>0, <2>2 DEF Unit, Places
  <2> QED
    BY <2>1, <2>2, <2>3 DEF Moves
<1>6. CASE NewAttempt
  <2>1. PICK u \in Uids, id \in Uids :
           /\ \A v \in Uids : v < u <=> units[turn][v].at # "unmade"
           /\ SetUnit(turn, u, [Unmade EXCEPT !.at = "attempt", !.id = id])
           /\ IsNext(id, {units[turn][v].id : v \in Attempts(turn)})
    BY <1>6 DEF NewAttempt
  <2>2. units[turn][u].at = "unmade" /\ id \in Nat
    BY <2>1, MaxAttemptsAssumption DEF Uids
  <2>4. IsNewest(u, id)
    BY <2>1 DEF IsNewest, IsNext
  <2> DEFINE new == [Unmade EXCEPT !.at = "attempt", !.id = id]
  <2>3. new \in Unit /\ new.at = "attempt" /\ new.id = id
    BY <2>2, UnmadeType DEF Unit, Places
  <2> QED
    BY <2>1, <2>2, <2>3, <2>4 DEF Moves
<1>7. CASE WritePartial \/ WriteOutputs \/ RecordCandidate \/ RecordAccepted
           \/ AttemptFails
  <2>1. CASE AttemptFails /\ Subject.at # "attempt"
    BY <2>1 DEF AttemptFails
  <2>2. CASE ~(AttemptFails /\ Subject.at # "attempt")
    <3>1. PICK new :
             /\ SetUnit(turn, subject, new)
             /\ \/ \E o \in Outputs : new = [Subject EXCEPT !.outputs = o]
                \/ \E d \in Dispositions : new = [Subject EXCEPT !.disposition = d]
                \/ new = [Subject EXCEPT !.failed = TRUE]
      BY <1>7, <2>2 DEF WritePartial, WriteOutputs, RecordCandidate, RecordAccepted,
                        AttemptFails, SetSubject, Outputs, Dispositions
    <3>2. subject \in Uids /\ Subject.at = "attempt"
      BY <1>7, <2>2
         DEF WritePartial, WriteOutputs, RecordCandidate, RecordAccepted,
             AttemptFails, TreeInv, SubjectInv, TryPhases
    <3>3. new \in Unit /\ new.at = "attempt" /\ new.id = Subject.id
      BY <1>0, <3>1, <3>2 DEF Unit, Subject
    <3> QED
      BY <3>1, <3>2, <3>3 DEF Moves, Subject
  <2> QED
    BY <2>1, <2>2
<1>8. CASE Displace
  <2>1. Displaced(turn) = {}
    BY <1>8 DEF Displace, TreeInv, RecoveredInv, TryPhases
  <2>2. CASE StepDir(turn) = {}
    BY <1>8, <2>2 DEF Displace
  <2>3. CASE StepDir(turn) # {}
    <3>1. PICK u \in StepDir(turn) :
             SetUnit(turn, u, [units[turn][u] EXCEPT !.at = "previous",
                                                     !.by = Subject.id])
      BY <1>8, <2>3 DEF Displace
    <3> DEFINE new == [units[turn][u] EXCEPT !.at = "previous", !.by = Subject.id]
    <3>2. /\ u \in Uids /\ units[turn][u].at = "published"
          /\ subject \in Uids /\ Subject \in Unit
      BY <1>0, <1>8 DEF StepDir, At, Displace, TreeInv, SubjectInv, TryPhases, Subject
    <3>3. new \in Unit /\ new.at = "previous"
      BY <1>0, <3>2 DEF Unit, Places
    <3> QED
      BY <2>1, <3>1, <3>2, <3>3 DEF Moves
  <2> QED
    BY <2>2, <2>3
<1>9. CASE Publish
  <2> DEFINE new == [Subject EXCEPT !.at = "published"]
  <2>1. /\ SetUnit(turn, subject, new) /\ StepDir(turn) = {}
        /\ subject \in Uids /\ Subject.at = "attempt"
    BY <1>9 DEF Publish, SetSubject, TreeInv, SubjectInv, TryPhases
  <2>2. new \in Unit /\ new.at = "published"
    BY <1>0, <2>1 DEF Unit, Places, Subject
  <2> QED
    BY <2>1, <2>2 DEF Moves, Subject
<1> QED
  BY <1>1, <1>2, <1>3, <1>4, <1>5, <1>6, <1>7, <1>8, <1>9
     DEF TreeNext, Recover, Attempt

\* Supersession preserves: no step of the tree deletes a unit that was once
\* published, returns it to the attempts, or renames a retained one.
THEOREM UnitsPreserved == TreeSpec => NoStepLosesAUnit
<1> DEFINE Keeps == \A s \in Steps : \A u \in Uids :
              /\ units[s][u].at \in Preserved => units'[s][u].at \in Preserved
              /\ units[s][u].at = "superseded" =>
                   units'[s][u].at = "superseded" /\ units'[s][u].n = units[s][u].n
<1>1. TreeInv /\ [TreeNext]_treeVars => [Keeps]_treeVars
  <2> SUFFICES ASSUME TreeInv, TreeNext PROVE Keeps
    OBVIOUS
  <2>0. PICK t \in Steps : t = turn
    BY DEF TreeInv, TreeTypeOK
  <2>1. CASE UNCHANGED units
    BY <2>1
  <2>2. CASE \E u \in Uids, new \in Unit : SetUnit(turn, u, new) /\ Moves(u, new)
    <3>1. PICK u \in Uids, new \in Unit : SetUnit(t, u, new) /\ Moves(u, new)
      BY <2>0, <2>2
    <3>2. /\ units'[t][u] = new
          /\ \A s \in Steps : \A v \in Uids :
                s # t \/ v # u => units'[s][v] = units[s][v]
      BY <3>1, SetUnitEffect DEF TreeInv
    <3>3. /\ units[t][u].at \in Preserved => new.at \in Preserved
          /\ units[t][u].at = "superseded" =>
               new.at = "superseded" /\ new.n = units[t][u].n
      BY <2>0, <3>1 DEF Moves, Preserved
    <3> QED
      BY <3>2, <3>3
  <2> QED
    BY <2>1, <2>2, StepMoves
<1> QED
  BY <1>1, TreeInvariance, PTL DEF TreeSpec, NoStepLosesAUnit

\* How one changed unit changes the population of a place.
LEMMA AtEffect ==
  ASSUME NEW s \in Steps, NEW u \in Uids, NEW new \in Unit,
         TreeTypeOK, SetUnit(s, u, new), NEW place
  PROVE  /\ \A t \in Steps \ {s} : At(t, place)' = At(t, place)
         /\ At(s, place)' = (At(s, place) \ {u})
                               \cup (IF new.at = place THEN {u} ELSE {})
<1>1. /\ units'[s][u] = new
      /\ \A t \in Steps : \A v \in Uids :
            t # s \/ v # u => units'[t][v] = units[t][v]
  BY SetUnitEffect
<1> QED
  BY <1>1 DEF At

\* Seen through the mapping, a step replaces the live unit of one step of the
\* workflow, retires it, or shows nothing.
LEMMA StoreStep ==
  ASSUME TreeInv, TreeNext
  PROVE  \E t \in Steps :
           /\ \A s \in Steps \ {t} : LiveUnits(s)' = LiveUnits(s) /\ PastUnits(s)' = PastUnits(s)
           /\ \/ LiveUnits(t)' = LiveUnits(t) /\ PastUnits(t)' = PastUnits(t)
              \/ /\ LiveUnits(t) # {} /\ LiveUnits(t)' = {}
                 /\ PastUnits(t)' = PastUnits(t) \cup LiveUnits(t)
              \/ \E u \in Uids \ (LiveUnits(t) \cup PastUnits(t)) :
                    /\ LiveUnits(t)' = {u}
                    /\ PastUnits(t)' = PastUnits(t) \cup LiveUnits(t)
<1>0. PICK t \in Steps : t = turn
  BY DEF TreeInv, TreeTypeOK
<1>1. CASE UNCHANGED units
  BY <1>0, <1>1 DEF LiveUnits, PastUnits, StepDir, Displaced, At
<1>2. CASE \E u \in Uids, new \in Unit : SetUnit(turn, u, new) /\ Moves(u, new)
  <2>1. PICK u \in Uids, new \in Unit : SetUnit(t, u, new) /\ Moves(u, new)
    BY <1>0, <1>2
  <2>2. \A place \in {"published", "previous", "superseded"} :
           /\ \A s \in Steps \ {t} : At(s, place)' = At(s, place)
           /\ At(t, place)' = (At(t, place) \ {u})
                                 \cup (IF new.at = place THEN {u} ELSE {})
    BY <2>1, AtEffect DEF TreeInv
  <2>3. \A s \in Steps \ {t} : LiveUnits(s)' = LiveUnits(s) /\ PastUnits(s)' = PastUnits(s)
    BY <2>2 DEF LiveUnits, PastUnits, StepDir, Displaced
  <2> DEFINE P == At(t, "published")   D == At(t, "previous")
             S == At(t, "superseded")  from == units[t][u].at
  <2>4. /\ LiveUnits(t) = IF P # {} THEN P ELSE D
        /\ PastUnits(t) = S \cup (IF P # {} THEN D ELSE {})
        /\ LiveUnits(t)' = IF P' # {} THEN P' ELSE D'
        /\ PastUnits(t)' = S' \cup (IF P' # {} THEN D' ELSE {})
    BY DEF LiveUnits, PastUnits, StepDir, Displaced
  <2>5. /\ P' = (P \ {u}) \cup (IF new.at = "published" THEN {u} ELSE {})
        /\ D' = (D \ {u}) \cup (IF new.at = "previous" THEN {u} ELSE {})
        /\ S' = (S \ {u}) \cup (IF new.at = "superseded" THEN {u} ELSE {})
    BY <2>2
  <2>6. /\ u \in P <=> from = "published"
        /\ u \in D <=> from = "previous"
        /\ u \in S <=> from = "superseded"
        /\ \A v, w \in P : v = w
        /\ \A v, w \in D : v = w
    BY DEF At, TreeInv, OnePerPlace
  <2>7. \/ from \in {"unmade", "attempt"} /\ new.at \in {"attempt", "pruned"}
        \/ from = "superseded" /\ new.at = "superseded"
        \/ from = "previous" /\ new.at = "published" /\ P = {}
        \/ from = "previous" /\ new.at = "superseded" /\ P # {}
        \/ from = "published" /\ new.at \in {"previous", "superseded"} /\ D = {}
        \/ from = "attempt" /\ new.at = "published" /\ P = {}
    BY <1>0, <2>1 DEF Moves, StepDir, Displaced
  <2> HIDE DEF P, D, S, from
  <2>8. CASE \/ from \in {"unmade", "attempt"} /\ new.at \in {"attempt", "pruned"}
             \/ from = "superseded" /\ new.at = "superseded"
    <3>1. P' = P /\ D' = D /\ S' = S
      BY <2>5, <2>6, <2>8
    <3> QED
      BY <2>3, <2>4, <3>1
  <2>9. CASE from = "previous" /\ new.at = "published" /\ P = {}
    <3>1. D = {u} /\ P' = {u} /\ D' = {} /\ S' = S
      BY <2>5, <2>6, <2>9
    <3> QED
      BY <2>3, <2>4, <2>9, <3>1
  <2>10. CASE from = "previous" /\ new.at = "superseded" /\ P # {}
    <3>1. D = {u} /\ P' = P /\ D' = {} /\ S' = S \cup {u}
      BY <2>5, <2>6, <2>10
    <3> QED
      BY <2>3, <2>4, <2>10, <3>1
  <2>11. CASE from = "published" /\ new.at = "previous" /\ D = {}
    <3>1. P = {u} /\ P' = {} /\ D' = {u} /\ S' = S
      BY <2>5, <2>6, <2>11
    <3> QED
      BY <2>3, <2>4, <2>11, <3>1
  <2>12. CASE from = "published" /\ new.at = "superseded" /\ D = {}
    <3>1. P = {u} /\ P' = {} /\ D' = {} /\ S' = S \cup {u}
      BY <2>5, <2>6, <2>12
    <3> QED
      BY <2>3, <2>4, <2>12, <3>1
  <2>13. CASE from = "attempt" /\ new.at = "published" /\ P = {}
    <3>1. /\ u \notin D /\ u \notin S
          /\ P' = {u} /\ D' = D /\ S' = S
      BY <2>5, <2>6, <2>13
    <3> QED
      BY <2>3, <2>4, <2>13, <3>1
  <2> QED
    BY <2>7, <2>8, <2>9, <2>10, <2>11, <2>12, <2>13
<1> QED
  BY <1>1, <1>2, StepMoves

\* The run tree implements the store of published units: whatever is killed,
\* retried or restored, a reader sees units being published and retired, one
\* at a time, and none forgotten.
THEOREM TreeImplementsStore == TreeSpec => ImplementsStore
<1>1. TreeInit => Store!StoreInit
  BY DEF TreeInit, Store!StoreInit, LiveUnits, PastUnits, StepDir, Displaced, At,
         Unmade
<1>2. TreeInv /\ [TreeNext]_treeVars => [Store!StoreNext]_(Store!storeVars)
  <2>1. CASE TreeInv /\ TreeNext
    <3>1. PICK t \in Steps :
           /\ \A s \in Steps \ {t} : LiveUnits(s)' = LiveUnits(s) /\ PastUnits(s)' = PastUnits(s)
           /\ \/ LiveUnits(t)' = LiveUnits(t) /\ PastUnits(t)' = PastUnits(t)
              \/ /\ LiveUnits(t) # {} /\ LiveUnits(t)' = {}
                 /\ PastUnits(t)' = PastUnits(t) \cup LiveUnits(t)
              \/ \E u \in Uids \ (LiveUnits(t) \cup PastUnits(t)) :
                    /\ LiveUnits(t)' = {u}
                    /\ PastUnits(t)' = PastUnits(t) \cup LiveUnits(t)
      BY <2>1, StoreStep
    <3>2. CASE LiveUnits(t)' = LiveUnits(t) /\ PastUnits(t)' = PastUnits(t)
      BY <3>1, <3>2 DEF Store!storeVars
    <3>3. CASE /\ LiveUnits(t) # {} /\ LiveUnits(t)' = {}
               /\ PastUnits(t)' = PastUnits(t) \cup LiveUnits(t)
      <4>1. Store!RetireUnit(t)
        BY <3>1, <3>3 DEF Store!RetireUnit, Store!Replace
      <4> QED
        BY <4>1 DEF Store!StoreNext
    <3>4. CASE \E u \in Uids \ (LiveUnits(t) \cup PastUnits(t)) :
                    /\ LiveUnits(t)' = {u}
                    /\ PastUnits(t)' = PastUnits(t) \cup LiveUnits(t)
      <4>1. PICK u \in Uids : Store!PublishUnit(t, u)
        BY <3>1, <3>4 DEF Store!PublishUnit, Store!Replace
      <4> QED
        BY <4>1 DEF Store!StoreNext
    <3> QED
      BY <3>1, <3>2, <3>3, <3>4
  <2>2. CASE UNCHANGED treeVars
    BY <2>2 DEF treeVars, Store!storeVars, LiveUnits, PastUnits, StepDir, Displaced, At
  <2> QED
    BY <2>1, <2>2
<1> QED
  BY <1>1, <1>2, TreeInvariance, PTL DEF TreeSpec, ImplementsStore, Store!StoreSpec

-----------------------------------------------------------------------------
(* The numbers of the tree: what is pruned, and where a retained unit goes. *)

\* Attempt directories are numbered in the order the attempts were made, and
\* whatever has been pruned came before whatever is kept.
AttemptsOrdered(s) ==
  /\ \A u, v \in Attempts(s) : u < v => units[s][u].id < units[s][v].id
  /\ \A u \in At(s, "pruned"), v \in Attempts(s) : u < v

\* No two retained units of a step share a number.
NamesDistinct(s) ==
  \A u, v \in At(s, "superseded") : units[s][u].n = units[s][v].n => u = v

NumbersInv == \A s \in Steps : AttemptsOrdered(s) /\ NamesDistinct(s)

\* A step of the tree that numbers nothing new keeps the order.
LEMMA OrderKept ==
  ASSUME NEW s \in Steps, AttemptsOrdered(s),
         Attempts(s)' \subseteq Attempts(s),
         At(s, "pruned")' \subseteq At(s, "pruned"),
         \A v \in Attempts(s)' : units'[s][v].id = units[s][v].id
  PROVE  AttemptsOrdered(s)'
BY DEF AttemptsOrdered

\* A new attempt comes after everything, in the order made and in number.
LEMMA OrderGrows ==
  ASSUME NEW s \in Steps, NEW u \in Uids, TreeTypeOK, AttemptsOrdered(s),
         s = turn, IsNewest(u, units'[s][u].id), units[s][u].at = "unmade",
         Attempts(s)' = Attempts(s) \cup {u},
         At(s, "pruned")' = At(s, "pruned"),
         \A v \in Uids : v # u => units'[s][v] = units[s][v]
  PROVE  AttemptsOrdered(s)'
<1>1. u \notin Attempts(s) /\ Attempts(s) \subseteq Uids /\ u \in Int
  BY DEF Attempts, At, Uids
<1>2. \A v \in Attempts(s) : v < u /\ units[s][v].id < units'[s][u].id
                               /\ units'[s][v] = units[s][v] /\ v \in Int
  BY <1>1 DEF IsNewest, Attempts, At, Uids
<1>3. \A v \in At(s, "pruned") : v < u
  BY DEF IsNewest, At
<1>4. \A v, w \in Attempts(s)' : v < w => units'[s][v].id < units'[s][w].id
  <2> SUFFICES ASSUME NEW v \in Attempts(s) \cup {u}, NEW w \in Attempts(s) \cup {u},
                      v < w
               PROVE  units'[s][v].id < units'[s][w].id
    OBVIOUS
  <2>1. CASE v \in Attempts(s) /\ w \in Attempts(s)
    BY <1>2, <2>1 DEF AttemptsOrdered
  <2>2. CASE v \in Attempts(s) /\ w = u
    BY <1>2, <2>2
  <2>3. CASE v = u
    BY <1>1, <1>2, <2>3
  <2> QED
    BY <2>1, <2>2, <2>3
<1>5. \A v \in At(s, "pruned")', w \in Attempts(s)' : v < w
  BY <1>3 DEF AttemptsOrdered
<1> QED
  BY <1>4, <1>5 DEF AttemptsOrdered

\* The attempt of the least number is the one made first.
LEMMA OrderShrinks ==
  ASSUME NEW s \in Steps, NEW u \in Attempts(s), TreeTypeOK, AttemptsOrdered(s),
         s = turn, IsOldest(u),
         Attempts(s)' = Attempts(s) \ {u},
         At(s, "pruned")' = At(s, "pruned") \cup {u},
         \A v \in Uids : v # u => units'[s][v] = units[s][v]
  PROVE  AttemptsOrdered(s)'
<1>a. \A v \in Uids : v \in Int
  BY MaxAttemptsAssumption DEF Uids
<1>b. \A v \in Uids : units[s][v] \in Unit
  BY DEF TreeTypeOK
<1>0. \A v \in Attempts(s) : v \in Uids /\ v \in Int /\ units[s][v] \in Unit
  BY <1>a, <1>b DEF Attempts, At
<1>1. \A v \in Attempts(s) : /\ v \in Uids /\ v \in Int /\ units[s][v].id \in Nat
                             /\ units[s][u].id <= units[s][v].id
  BY <1>0 DEF IsOldest, Unit
<1>2. \A v \in Attempts(s) : v # u => u < v
  BY <1>1 DEF AttemptsOrdered
<1>3. \A v \in Attempts(s)' : v \in Attempts(s) /\ v # u /\ units'[s][v] = units[s][v]
  BY <1>1
<1>4. \A v, w \in Attempts(s)' : v < w => units'[s][v].id < units'[s][w].id
  BY <1>3 DEF AttemptsOrdered
<1>5. \A v \in At(s, "pruned")', w \in Attempts(s)' : v < w
  BY <1>2, <1>3 DEF AttemptsOrdered
<1> QED
  BY <1>4, <1>5 DEF AttemptsOrdered

\* A retained unit that moves in under an unused number.
LEMMA NamesGrow ==
  ASSUME NEW s \in Steps, NEW u \in Uids, TreeTypeOK, NamesDistinct(s),
         s = turn, IsUnused(units'[s][u].n), units'[s][u].n \in Nat,
         At(s, "superseded")' = At(s, "superseded") \cup {u},
         \A v \in Uids : v # u => units'[s][v] = units[s][v]
  PROVE  NamesDistinct(s)'
<1>1. \A v \in At(s, "superseded") :
         /\ units[s][v].n \in Nat /\ units[s][v].n < units'[s][u].n
         /\ v # u => units'[s][v] = units[s][v]
  BY DEF IsUnused, At, TreeTypeOK, Unit
<1>2. \A v \in At(s, "superseded") : v # u => units'[s][v].n # units'[s][u].n
  BY <1>1
<1> QED
  BY <1>1, <1>2 DEF NamesDistinct

\* What leaves the retained units' numbers alone.
LEMMA NamesKept ==
  ASSUME NEW s \in Steps, NamesDistinct(s),
         At(s, "superseded")' \subseteq At(s, "superseded"),
         \A v \in At(s, "superseded")' : units'[s][v].n = units[s][v].n
  PROVE  NamesDistinct(s)'
BY DEF NamesDistinct

LEMMA NumbersStep ==
  ASSUME TreeInv, TreeNext, NumbersInv
  PROVE  NumbersInv'
<1>0. PICK t \in Steps : t = turn
  BY DEF TreeInv, TreeTypeOK
<1>1. CASE UNCHANGED units
  BY <1>1 DEF NumbersInv, AttemptsOrdered, NamesDistinct, Attempts, At
<1>2. CASE \E u \in Uids, new \in Unit : SetUnit(turn, u, new) /\ Moves(u, new)
  <2>1. PICK u \in Uids, new \in Unit : SetUnit(t, u, new) /\ Moves(u, new)
    BY <1>0, <1>2
  <2>2. /\ units'[t][u] = new
        /\ \A v \in Uids : v # u => units'[t][v] = units[t][v]
        /\ \A s \in Steps \ {t} : \A v \in Uids : units'[s][v] = units[s][v]
    BY <2>1, SetUnitEffect DEF TreeInv
  <2>3. \A place \in {"attempt", "pruned", "superseded"} :
           At(t, place)' = (At(t, place) \ {u})
                              \cup (IF new.at = place THEN {u} ELSE {})
    BY <2>1, AtEffect DEF TreeInv
  <2>4. \A s \in Steps \ {t} : AttemptsOrdered(s)' /\ NamesDistinct(s)'
    <3> SUFFICES ASSUME NEW s \in Steps \ {t}
                 PROVE  AttemptsOrdered(s)' /\ NamesDistinct(s)'
      OBVIOUS
    <3>1. \A v \in Uids : units'[s][v] = units[s][v]
      BY <2>2
    <3>2. \A place : At(s, place)' = At(s, place)
      BY <3>1 DEF At
    <3>3. AttemptsOrdered(s) /\ NamesDistinct(s)
      BY DEF NumbersInv
    <3> QED
      BY <3>1, <3>2, <3>3 DEF AttemptsOrdered, NamesDistinct, Attempts, At
  <2>5. AttemptsOrdered(t) /\ NamesDistinct(t) /\ TreeTypeOK /\ new.n \in Nat
    BY DEF NumbersInv, TreeInv, Unit
  <2> DEFINE from == units[t][u].at
  <2>6. \A place \in {"attempt", "pruned", "superseded"} :
           u \in At(t, place) <=> from = place
    BY DEF At
  <2>7. \A v \in At(t, "attempt") \cup At(t, "superseded") : v \in Uids
    BY DEF At
  <2>8. /\ \/ from = "unmade" /\ new.at = "attempt" /\ IsNewest(u, new.id)
           \/ from = "attempt" /\ new.at = "attempt" /\ new.id = units[t][u].id
           \/ from = "attempt" /\ new.at = "pruned" /\ IsOldest(u)
           \/ from \in {"attempt", "previous", "published", "superseded"}
                /\ new.at \in {"published", "previous", "superseded"}
        /\ \/ new.at # "superseded"
           \/ from = "superseded" /\ new.n = units[t][u].n
           \/ IsUnused(new.n)
        /\ from = "superseded" => new.at = "superseded" /\ new.n = units[t][u].n
    BY <1>0, <2>1 DEF Moves
  <2> HIDE DEF from
  <2>9. AttemptsOrdered(t)'
    <3>1. CASE from = "unmade" /\ new.at = "attempt" /\ IsNewest(u, new.id)
      <4>1. Attempts(t)' = Attempts(t) \cup {u} /\ At(t, "pruned")' = At(t, "pruned")
        BY <2>3, <2>6, <3>1 DEF Attempts
      <4> QED
        BY <1>0, <2>2, <2>5, <3>1, <4>1, OrderGrows DEF from
    <3>2. CASE from = "attempt" /\ new.at = "attempt" /\ new.id = units[t][u].id
      <4>1. Attempts(t)' = Attempts(t) /\ At(t, "pruned")' = At(t, "pruned")
        BY <2>3, <2>6, <3>2 DEF Attempts
      <4>2. \A v \in Attempts(t)' : units'[t][v].id = units[t][v].id
        BY <2>2, <2>7, <3>2, <4>1 DEF Attempts
      <4> QED
        BY <2>5, <4>1, <4>2, OrderKept
    <3>3. CASE from = "attempt" /\ new.at = "pruned" /\ IsOldest(u)
      <4>1. /\ Attempts(t)' = Attempts(t) \ {u} /\ u \in Attempts(t)
            /\ At(t, "pruned")' = At(t, "pruned") \cup {u}
        BY <2>3, <2>6, <3>3 DEF Attempts
      <4> QED
        BY <1>0, <2>2, <2>5, <3>3, <4>1, OrderShrinks
    <3>4. CASE from \in {"attempt", "previous", "published", "superseded"}
                 /\ new.at \in {"published", "previous", "superseded"}
      <4>1. /\ Attempts(t)' = Attempts(t) \ {u}
            /\ At(t, "pruned")' \subseteq At(t, "pruned")
        BY <2>3, <2>6, <3>4 DEF Attempts
      <4>2. \A v \in Attempts(t)' : units'[t][v].id = units[t][v].id
        BY <2>2, <2>7, <4>1 DEF Attempts
      <4> QED
        BY <2>5, <4>1, <4>2, OrderKept
    <3> QED
      BY <2>8, <3>1, <3>2, <3>3, <3>4
  <2>10. NamesDistinct(t)'
    <3>1. CASE new.at # "superseded"
      <4>1. At(t, "superseded")' = At(t, "superseded") \ {u}
        BY <2>3, <3>1
      <4>2. \A v \in At(t, "superseded")' : units'[t][v].n = units[t][v].n
        BY <2>2, <2>7, <4>1
      <4> QED
        BY <2>5, <4>1, <4>2, NamesKept
    <3>2. CASE from = "superseded" /\ new.at = "superseded" /\ new.n = units[t][u].n
      <4>1. At(t, "superseded")' = At(t, "superseded")
        BY <2>3, <2>6, <3>2
      <4>2. \A v \in At(t, "superseded")' : units'[t][v].n = units[t][v].n
        BY <2>2, <2>7, <3>2, <4>1
      <4> QED
        BY <2>5, <4>1, <4>2, NamesKept
    <3>3. CASE new.at = "superseded" /\ IsUnused(new.n)
      <4>1. At(t, "superseded")' = At(t, "superseded") \cup {u}
        BY <2>3, <3>3
      <4> QED
        BY <1>0, <2>2, <2>5, <3>3, <4>1, NamesGrow
    <3> QED
      BY <2>8, <3>1, <3>2, <3>3
  <2> QED
    BY <2>4, <2>9, <2>10 DEF NumbersInv
<1> QED
  BY <1>1, <1>2, StepMoves

LEMMA NumbersHold == TreeSpec => []NumbersInv
<1>1. TreeInit => NumbersInv
  BY DEF TreeInit, NumbersInv, AttemptsOrdered, NamesDistinct, Attempts, At, Unmade
<1>2. TreeInv /\ NumbersInv /\ [TreeNext]_treeVars => NumbersInv'
  <2>1. CASE UNCHANGED treeVars
    BY <2>1 DEF treeVars, NumbersInv, AttemptsOrdered, NamesDistinct, Attempts, At
  <2> QED
    BY <2>1, NumbersStep
<1> QED
  BY <1>1, <1>2, TreeInvariance, PTL DEF TreeSpec

\* What prune_attempts deletes is older than every attempt it keeps, although
\* directory numbers start again once the attempts are gone.
THEOREM PruningTakesTheOldest == TreeSpec => []PrunedAreOldest
<1>1. NumbersInv => PrunedAreOldest
  BY DEF NumbersInv, AttemptsOrdered, PrunedAreOldest
<1> QED
  BY <1>1, NumbersHold, PTL

\* Two retained units never share a directory: a publish's retirement never
\* renames one over another, whoever called retain_superseded.
THEOREM RetiredNamesDistinct == TreeSpec => []SupersededNamesDistinct
<1>1. NumbersInv => SupersededNamesDistinct
  BY DEF NumbersInv, NamesDistinct, SupersededNamesDistinct
<1> QED
  BY <1>1, NumbersHold, PTL

=============================================================================
