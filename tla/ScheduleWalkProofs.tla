-------------------------- MODULE ScheduleWalkProofs --------------------------
(***************************************************************************)
(* The words of a run stopped anywhere, on every schedule of any number of *)
(* steps: what has been folded in is the least set closed under the skips  *)
(* the verdicts named, and the manifest's own walk agrees with it.         *)
(***************************************************************************)
EXTENDS ScheduleWalk, FiniteSetTheorems, SequenceTheorems, TLAPS

Walks == INSTANCE ScheduleProofs
  WITH Steps <- Nodes, Order <- [i \in Nodes |-> i],
       Deps <- deps, SelectedChildren <- children

GraphTyped ==
  /\ deps \in [Nodes -> SUBSET Nodes] /\ children \in [Nodes -> SUBSET Nodes]
  /\ \A s \in Nodes : children[s] \subseteq deps[s] /\ \A d \in deps[s] : d < s

WalkTyped ==
  /\ GraphTyped
  /\ words \in [Nodes -> {"none", "completed", "skipped", "failed"}]
  /\ skippedBy \in SUBSET Nodes /\ gated \in SUBSET Nodes

\* The loaded graph is what Schedule takes a workflow to be.
LEMMA WalkOrder == Walks!OrderAssumption
<1> DEFINE order == [i \in Nodes |-> i]
<1>1. N \in Nat /\ Nodes = 1..N
  BY NAssumption DEF Nodes
<1>2. order \in [1..N -> Nodes] /\ (\A i \in Nodes : order[i] = i) /\ DOMAIN order = Nodes
  BY <1>1
<1>3. order \in Seq(Nodes)
  BY <1>1, <1>2, SeqDef
<1> HIDE DEF order
<1>4. /\ order \in Seq(Nodes)
      /\ \A s \in Nodes : \E i \in DOMAIN order : order[i] = s
      /\ \A i, j \in DOMAIN order : order[i] = order[j] => i = j
  BY <1>2, <1>3
<1> QED
  BY <1>4 DEF Walks!OrderAssumption, order

LEMMA WalkDeps == ASSUME GraphTyped PROVE Walks!DepsAssumption
<1>1. \A i \in Nodes : [k \in Nodes |-> k][i] = i
  OBVIOUS
<1> QED
  BY <1>1 DEF GraphTyped, Walks!DepsAssumption

LEMMA Reaches ==
  ASSUME GraphTyped, NEW set \in SUBSET Nodes, NEW s \in Nodes
  PROVE  set \in Walks!Skipping[s] <=> \/ \E d \in deps[s] \ children[s] : d \in set
                                       \/ children[s] # {} /\ children[s] \subseteq set
BY DEF Walks!Skipping, Walks!SkippedVia

LEMMA ClosedIs ==
  ASSUME GraphTyped, NEW set \in SUBSET Nodes
  PROVE  Closed(set) <=> \A s \in Nodes : set \in Walks!Skipping[s] => s \in set
BY Reaches DEF Closed

LEMMA SameSkips ==
  ASSUME NEW among, NEW start
  PROVE  Graph!Skips(among, start) = Walks!Skips(among, start)
BY DEF Graph!Skips, Walks!Skips, Graph!Length, Walks!Length, Graph!SkippedVia, Walks!SkippedVia

LEMMA SameBlocked ==
  ASSUME NEW reached, NEW skipped
  PROVE  Graph!AllBlocked(reached, skipped) = Walks!AllBlocked(reached, skipped)
BY DEF Graph!AllBlocked, Walks!AllBlocked, Graph!Length, Walks!Length, Graph!With, Walks!With

LEMMA SkipsAre ==
  ASSUME GraphTyped, NEW among \in SUBSET Nodes, NEW start \in SUBSET Nodes
  PROVE  Walks!LeastGrown(Graph!Skips(among, start), Nodes, among, start, Walks!Skipping)
<1>1. Walks!LeastGrown(Walks!Skips(among, start), Nodes, among, start, Walks!Skipping)
  BY WalkOrder, WalkDeps, Walks!SkipsIsLeast
<1> QED
  BY <1>1, SameSkips

LEMMA BlockedAre ==
  ASSUME GraphTyped, NEW skipped
  PROVE  Walks!LeastGrown(Graph!AllBlocked(words, skipped), Nodes, Unreached \ skipped, {},
                          Walks!Blocking(Failed))
<1>1. Walks!LeastGrown(Walks!AllBlocked(words, skipped), Nodes, Walks!With("none", words) \ skipped, {},
                       Walks!Blocking(Walks!With("failed", words)))
  BY WalkOrder, WalkDeps, Walks!AllBlockedIsLeast
<1>2. Walks!With("none", words) = Unreached /\ Walks!With("failed", words) = Failed
  BY DEF Walks!With, Unreached, Failed
<1> QED
  BY <1>1, <1>2, SameBlocked

-----------------------------------------------------------------------------
(* The run.                                                                *)

\* What is folded in is closed under skips, from the steps named on.
Folded ==
  /\ gated \subseteq skippedBy /\ Closed(skippedBy)
  /\ \A set \in SUBSET Nodes : gated \subseteq set /\ Closed(set) => skippedBy \subseteq set

\* Only what was folded in is said to be skipped.
SaidSkipped == \A s \in Nodes : words[s] = "skipped" => s \in skippedBy

WalkInv == WalkTyped /\ Folded /\ SaidSkipped

LEMMA WalkStarts == WalkInit => WalkInv
<1> SUFFICES ASSUME WalkInit PROVE WalkInv
  OBVIOUS
<1>1. WalkTyped
  <2>1. PICK join \in Nodes : \E some \in SUBSET deps[join] :
           children = [s \in Nodes |-> IF s = join THEN some ELSE {}]
    BY DEF WalkInit
  <2>2. PICK some \in SUBSET deps[join] :
           children = [s \in Nodes |-> IF s = join THEN some ELSE {}]
    BY <2>1
  <2>3. deps \in [Nodes -> SUBSET Nodes] /\ \A s \in Nodes : \A d \in deps[s] : d < s
    BY DEF WalkInit
  <2>4. /\ children \in [Nodes -> SUBSET Nodes]
        /\ \A s \in Nodes : children[s] \subseteq deps[s]
    BY <2>2, <2>3
  <2> QED
    BY <2>3, <2>4 DEF WalkInit, WalkTyped, GraphTyped
<1>2. Folded
  <2>1. skippedBy = {} /\ gated = {}
    BY DEF WalkInit
  <2> QED
    BY <2>1 DEF Folded, Closed
<1>3. SaidSkipped
  BY DEF WalkInit, SaidSkipped
<1> QED
  BY <1>1, <1>2, <1>3 DEF WalkInv

\* A verdict's skips folded into those before it.
LEMMA CompleteKeepsFolded ==
  ASSUME WalkInv, NEW s \in Nodes, NEW named \in SUBSET Nodes, CompleteTurn(s, named)
  PROVE  Folded' /\ skippedBy' \in SUBSET Nodes /\ skippedBy \subseteq skippedBy'
<1> DEFINE start == skippedBy \cup named
<1>0. GraphTyped /\ skippedBy \in SUBSET Nodes /\ gated \in SUBSET Nodes
  BY DEF WalkInv, WalkTyped
<1>1. Walks!LeastGrown(Graph!Skips(Nodes, start), Nodes, Nodes, start, Walks!Skipping)
  BY <1>0, SkipsAre
<1>2. skippedBy' = Graph!Skips(Nodes, start) /\ gated' = gated \cup named
  BY DEF CompleteTurn, Graph!FoldSkips
<1>3. deps' = deps /\ children' = children
  BY DEF CompleteTurn, Says
<1> DEFINE after == Graph!Skips(Nodes, start)
<1>4. /\ after \in SUBSET Nodes /\ start \subseteq after
      /\ \A t \in Nodes : after \in Walks!Skipping[t] => t \in after
      /\ \A X \in SUBSET Nodes :
            start \subseteq X /\ (\A t \in Nodes : X \in Walks!Skipping[t] => t \in X) => after \subseteq X
  BY <1>1 DEF Walks!LeastGrown, Walks!Grown
<1> HIDE DEF after
<1>5. Closed(after)
  BY <1>0, <1>4, ClosedIs
<1>6. ASSUME NEW set \in SUBSET Nodes, gated \cup named \subseteq set, Closed(set)
      PROVE  after \subseteq set
  <2>1. skippedBy \subseteq set
    BY <1>6 DEF WalkInv, Folded
  <2>2. \A t \in Nodes : set \in Walks!Skipping[t] => t \in set
    BY <1>0, <1>6, ClosedIs
  <2>3. start \subseteq set
    BY <1>6, <2>1
  <2> QED
    BY <1>4, <2>2, <2>3
<1>7. skippedBy' = after
  BY <1>2 DEF after
<1>8. gated \subseteq skippedBy
  BY DEF WalkInv, Folded
<1>9. gated \cup named \subseteq after /\ skippedBy \subseteq after
  BY <1>4, <1>8
<1>10. \A set : Closed(set)' <=> Closed(set)
  BY <1>3 DEF Closed
<1>11. \A set \in SUBSET Nodes : gated' \subseteq set /\ Closed(set)' => after \subseteq set
  BY <1>2, <1>6, <1>10
<1>12. Closed(skippedBy)'
  BY <1>3, <1>5, <1>7 DEF Closed
<1>13. \A set \in SUBSET Nodes : gated' \subseteq set /\ Closed(set)' => skippedBy' \subseteq set
  BY <1>7, <1>11
<1>14. gated' \subseteq skippedBy'
  BY <1>2, <1>7, <1>9
<1> QED
  BY <1>4, <1>7, <1>9, <1>12, <1>13, <1>14 DEF Folded, Nodes

LEMMA SaysKeeps ==
  ASSUME WalkInv, NEW s \in Nodes, NEW word \in {"completed", "skipped", "failed"},
         Says(s, word), word = "skipped" => s \in skippedBy, skippedBy \subseteq skippedBy',
         skippedBy' \in SUBSET Nodes, gated' \in SUBSET Nodes
  PROVE  WalkTyped' /\ SaidSkipped'
<1>1. /\ words' \in [Nodes -> {"none", "completed", "skipped", "failed"}]
      /\ deps' = deps /\ children' = children
  BY DEF Says, WalkInv, WalkTyped
<1>2. WalkTyped'
  BY <1>1 DEF WalkInv, WalkTyped, GraphTyped, Nodes
<1>3. SaidSkipped'
  BY DEF Says, WalkInv, WalkTyped, SaidSkipped, Nodes
<1> QED
  BY <1>2, <1>3

LEMMA WalkSteps == WalkInv /\ [WalkNext]_walkVars => WalkInv'
<1> SUFFICES ASSUME WalkInv, [WalkNext]_walkVars PROVE WalkInv'
  OBVIOUS
<1>0. skippedBy \in SUBSET Nodes /\ gated \in SUBSET Nodes
  BY DEF WalkInv, WalkTyped
<1>1. ASSUME deps' = deps, children' = children, skippedBy' = skippedBy, gated' = gated
      PROVE  Folded'
  BY <1>1 DEF WalkInv, Folded, Closed, Nodes
<1>2. CASE UNCHANGED walkVars
  BY <1>2 DEF walkVars, WalkInv, WalkTyped, GraphTyped, Folded, SaidSkipped, Closed, Nodes
<1>3. CASE WalkNext
  <2>1. PICK s \in Nodes :
           SkipTurn(s) \/ FailTurn(s) \/ \E named \in SUBSET Nodes : CompleteTurn(s, named)
    BY <1>3 DEF WalkNext
  <2>2. CASE SkipTurn(s)
    <3>1. Says(s, "skipped") /\ s \in skippedBy /\ skippedBy' = skippedBy /\ gated' = gated
      BY <2>2 DEF SkipTurn
    <3> QED
      BY <1>0, <1>1, <3>1, SaysKeeps DEF WalkInv, Says
  <2>3. CASE FailTurn(s)
    <3>1. Says(s, "failed") /\ skippedBy' = skippedBy /\ gated' = gated
      BY <2>3 DEF FailTurn
    <3> QED
      BY <1>0, <1>1, <3>1, SaysKeeps DEF WalkInv, Says
  <2>4. ASSUME NEW named \in SUBSET Nodes, CompleteTurn(s, named) PROVE WalkInv'
    <3>1. Says(s, "completed") /\ gated' = gated \cup named
      BY <2>4 DEF CompleteTurn
    <3>2. Folded' /\ skippedBy' \in SUBSET Nodes /\ skippedBy \subseteq skippedBy'
      BY <2>4, CompleteKeepsFolded
    <3> QED
      BY <1>0, <3>1, <3>2, SaysKeeps DEF WalkInv
  <2> QED
    BY <2>1, <2>2, <2>3, <2>4
<1> QED
  BY <1>2, <1>3

LEMMA WalkInvAlways == WalkSpec => []WalkInv
BY WalkStarts, WalkSteps, PTL DEF WalkSpec

-----------------------------------------------------------------------------
(* The theorems.                                                           *)

\* Verdict upon verdict, the skips run_workflow has folded in are the least set
\* that holds the steps a verdict named and all that a skip reaches, whatever
\* the schedule.
THEOREM SkipsStayLeast == WalkSpec => []SkipsAreLeast
<1>1. WalkInv => SkipsAreLeast
  BY DEF WalkInv, Folded, SkipsAreLeast
<1> QED
  BY <1>1, WalkInvAlways, PTL

LEMMA FinalIs ==
  ASSUME WalkTyped, NEW s \in Nodes
  PROVE  LET skipped == Graph!AllSkipped(words)
             blocked == Graph!AllBlocked(words, skipped)
         IN Final[s] = IF words[s] # "none" THEN words[s]
                       ELSE IF s \in skipped THEN "skipped"
                       ELSE IF s \in blocked THEN "blocked" ELSE "pending"
BY DEF Final, Graph!Classified

\* Wherever the run stops, classify_unreached says blocked of exactly the steps
\* a failure cuts off: no step that only waits its turn, and none but those
\* that follow a failed one along steps neither reached nor skipped.
THEOREM BlockedBelowFailures == WalkSpec => []BlockedIsBelowFailure
<1>1. ASSUME WalkInv PROVE BlockedIsBelowFailure
  <2> DEFINE skipped == Graph!AllSkipped(words)
             blocked == Graph!AllBlocked(words, skipped)
             lost == {t \in Unreached : Final[t] # "skipped"}
  <2>0. GraphTyped /\ WalkTyped
    BY <1>1 DEF WalkInv, WalkTyped
  <2>1. Walks!LeastGrown(blocked, Nodes, Unreached \ skipped, {}, Walks!Blocking(Failed))
    BY <2>0, BlockedAre
  <2>2. \A s \in Nodes : Final[s] = IF words[s] # "none" THEN words[s]
                       ELSE IF s \in skipped THEN "skipped"
                       ELSE IF s \in blocked THEN "blocked" ELSE "pending"
    BY <2>0, FinalIs
  <2> HIDE DEF skipped, blocked
  <2>3. lost = Unreached \ skipped
    BY <2>2 DEF Unreached
  <2>4. \A s \in Nodes : Final[s] = "blocked" <=> s \in Unreached \ skipped /\ s \in blocked
    BY <2>0, <2>2 DEF Unreached, WalkTyped
  <2>5. /\ blocked \in SUBSET Nodes /\ blocked \subseteq lost
        /\ \A t \in lost : blocked \in Walks!Blocking(Failed)[t] => t \in blocked
        /\ \A X \in SUBSET Nodes :
              (\A t \in lost : X \in Walks!Blocking(Failed)[t] => t \in X) => blocked \subseteq X
    BY <2>1, <2>3 DEF Walks!LeastGrown, Walks!Grown
  <2>6. lost \subseteq Nodes
    BY DEF Unreached
  <2> HIDE DEF lost
  <2>7. \A X \in SUBSET Nodes, t \in lost :
           X \in Walks!Blocking(Failed)[t] <=> deps[t] \cap (Failed \cup X) # {}
    BY <2>6 DEF Walks!Blocking
  <2>8. ASSUME NEW s \in Nodes PROVE s \in lost /\ s \in blocked <=> BelowFailure(s)
    <3>1. ASSUME s \in blocked, NEW set \in SUBSET lost,
                 \A t \in lost : deps[t] \cap (Failed \cup set) # {} => t \in set
          PROVE  s \in set
      <4>1. set \in SUBSET Nodes
        BY <2>6
      <4>2. \A t \in lost : set \in Walks!Blocking(Failed)[t] => t \in set
        BY <2>7, <3>1, <4>1
      <4> QED
        BY <2>5, <3>1, <4>1, <4>2
    <3>2. ASSUME \A set \in SUBSET lost :
                    (\A t \in lost : deps[t] \cap (Failed \cup set) # {} => t \in set) => s \in set
          PROVE  s \in blocked
      <4>1. \A t \in lost : deps[t] \cap (Failed \cup blocked) # {} => t \in blocked
        BY <2>5, <2>7
      <4> QED
        BY <2>5, <3>2, <4>1
    <3>3. BelowFailure(s) <=>
            /\ s \in lost
            /\ \A set \in SUBSET lost :
                  (\A t \in lost : deps[t] \cap (Failed \cup set) # {} => t \in set) => s \in set
      BY DEF BelowFailure, lost
    <3> QED
      BY <3>1, <3>2, <3>3
  <2> QED
    BY <2>3, <2>4, <2>8 DEF BlockedIsBelowFailure
<1> QED
  BY <1>1, WalkInvAlways, PTL

\* The manifest of a run stopped anywhere calls no step skipped that the run,
\* going on, would have attempted: classify_unreached walks a second time, from
\* the words alone, and stays within what fold_skips had gathered.
THEOREM ManifestSkipsAgree == WalkSpec => []SkipsAgree
<1>1. ASSUME WalkInv PROVE SkipsAgree
  <2> DEFINE skipped == Graph!AllSkipped(words)
             blocked == Graph!AllBlocked(words, skipped)
             none == Graph!With("none", words)
             said == Graph!With("skipped", words)
  <2>0. GraphTyped /\ WalkTyped /\ skippedBy \in SUBSET Nodes
    BY <1>1 DEF WalkInv, WalkTyped
  <2>1. none \in SUBSET Nodes /\ said \in SUBSET Nodes /\ said \subseteq skippedBy
    BY <1>1 DEF Graph!With, WalkInv, SaidSkipped
  <2>2. Walks!LeastGrown(Graph!Skips(none, said), Nodes, none, said, Walks!Skipping)
    BY <2>0, <2>1, SkipsAre
  <2>3. skipped = Graph!Skips(none, said)
    BY DEF Graph!AllSkipped
  <2>4. \A s \in Nodes : Final[s] = IF words[s] # "none" THEN words[s]
                       ELSE IF s \in skipped THEN "skipped"
                       ELSE IF s \in blocked THEN "blocked" ELSE "pending"
    BY <2>0, FinalIs
  <2> HIDE DEF skipped, blocked, none, said
  <2>5. \A s \in Nodes : skippedBy \in Walks!Skipping[s] => s \in skippedBy
    BY <1>1, <2>0, ClosedIs DEF WalkInv, Folded
  <2>6. skipped \subseteq skippedBy
    BY <2>0, <2>1, <2>2, <2>3, <2>5 DEF Walks!LeastGrown, Walks!Grown
  <2> QED
    BY <1>1, <2>4, <2>6 DEF SkipsAgree, WalkInv, SaidSkipped
<1> QED
  BY <1>1, WalkInvAlways, PTL

=============================================================================
