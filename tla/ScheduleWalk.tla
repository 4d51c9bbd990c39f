---------------------------- MODULE ScheduleWalk ----------------------------
(***************************************************************************)
(* The words of one run, over every schedule of N steps: the loop of       *)
(* run_workflow with nothing but its words, one verdict after another      *)
(* folded into the skips, and the run stopped wherever it stands.  The     *)
(* incremental walks of Schedule are held to definitions that look at the  *)
(* whole graph at once.                                                    *)
(***************************************************************************)
EXTENDS Integers, FiniteSets

CONSTANT N  \* bound: steps in a schedule

ASSUME NAssumption == N \in Nat

VARIABLES
  deps,      \* the derived dependencies
  children,  \* the children of the one join declaring `require: selected'
  words,     \* the words of the steps reached
  skippedBy, \* the skips folded so far
  gated      \* the steps the verdicts named

walkVars == <<deps, children, words, skippedBy, gated>>

Nodes == 1..N

Graph == INSTANCE Schedule
  WITH Steps <- Nodes, Order <- [i \in Nodes |-> i],
       Deps <- deps, SelectedChildren <- children

Unreached == {s \in Nodes : words[s] = "none"}
Failed == {s \in Nodes : words[s] = "failed"}
Turn(s) == Unreached # {} /\ s \in Unreached
              /\ (\A t \in Unreached : s <= t) /\ Failed = {}

\* load_workflow sorts the graph; children are steps the join consumes.
WalkInit ==
  /\ deps \in [Nodes -> SUBSET Nodes]
  /\ \A s \in Nodes : \A d \in deps[s] : d < s
  /\ \E join \in Nodes : \E some \in SUBSET deps[join] :
        children = [s \in Nodes |-> IF s = join THEN some ELSE {}]
  /\ words = [s \in Nodes |-> "none"]
  /\ skippedBy = {} /\ gated = {}

Says(s, word) == words' = [words EXCEPT ![s] = word] /\ UNCHANGED <<deps, children>>

\* A step a verdict took out of this run.
SkipTurn(s) ==
  /\ Turn(s) /\ s \in skippedBy
  /\ Says(s, "skipped")
  /\ UNCHANGED <<skippedBy, gated>>

\* A conditional's verdict skips steps it gates, each a dependent of it; a
\* step that is no conditional names none.
CompleteTurn(s, named) ==
  /\ Turn(s) /\ s \notin skippedBy
  /\ \A t \in named : s \in deps[t]
  /\ Says(s, "completed")
  /\ skippedBy' = Graph!FoldSkips(named, skippedBy)
  /\ gated' = gated \cup named

FailTurn(s) ==
  /\ Turn(s) /\ s \notin skippedBy
  /\ Says(s, "failed")
  /\ UNCHANGED <<skippedBy, gated>>

WalkNext ==
  \E s \in Nodes :
     \/ SkipTurn(s) \/ FailTurn(s)
     \/ \E named \in SUBSET Nodes : CompleteTurn(s, named)

WalkSpec == WalkInit /\ [][WalkNext]_walkVars

-----------------------------------------------------------------------------
(* What the words should be.                                               *)

\* A set every skip in it has taken its dependents into.
Closed(set) ==
  \A s \in Nodes :
     \/ \E d \in deps[s] \ children[s] : d \in set
     \/ children[s] # {} /\ children[s] \subseteq set
     => s \in set

Final == Graph!Classified(words)

\* Verdict upon verdict, the skips folded one at a time are the least set that
\* holds every step a verdict named and every step their skips reach: no step
\* runs on a skipped input and no verdict skips more than it must.
SkipsAreLeast ==
  /\ gated \subseteq skippedBy /\ Closed(skippedBy)
  /\ \A set \in SUBSET Nodes :
        gated \subseteq set /\ Closed(set) => skippedBy \subseteq set

\* s is below a failure along steps that were not reached and not skipped.
BelowFailure(s) ==
  LET lost == {t \in Unreached : Final[t] # "skipped"}
  IN /\ s \in lost
     /\ \A set \in SUBSET lost :
          (\A t \in lost : deps[t] \cap (Failed \cup set) # {} => t \in set)
            => s \in set

\* Wherever the run stops, blocked is said of exactly the steps a failure
\* cuts off and pending of those it merely did not get to.
BlockedIsBelowFailure ==
  \A s \in Nodes : Final[s] = "blocked" <=> BelowFailure(s)

\* What a manifest of the run stopped here calls skipped, the run going on
\* would have skipped: the manifest's second walk never takes out a step the
\* run's own fold would have attempted.
SkipsAgree == \A s \in Nodes : Final[s] = "skipped" => s \in skippedBy

=============================================================================
