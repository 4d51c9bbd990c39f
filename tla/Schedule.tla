------------------------------ MODULE Schedule ------------------------------
(***************************************************************************)
(* The graph of a loaded workflow as the runner walks it: the schedule     *)
(* order, the derived dependencies, how a skip travels along them          *)
(* (conditional.fold_skips, manifest.skipped_via) and what is said of a    *)
(* step the run never reached (manifest.classify_unreached).               *)
(***************************************************************************)
EXTENDS Integers, Sequences

CONSTANTS
  Steps,
  Order,            \* the steps in schedule order
  Deps,             \* Deps[s]: the steps s depends on
  SelectedChildren  \* the children of a join declaring `require: selected'

ASSUME OrderAssumption ==
  /\ Order \in Seq(Steps)
  /\ \A s \in Steps : \E i \in DOMAIN Order : Order[i] = s
  /\ \A i, j \in DOMAIN Order : Order[i] = Order[j] => i = j

ASSUME DepsAssumption ==
  /\ Deps \in [Steps -> SUBSET Steps]
  /\ SelectedChildren \in [Steps -> SUBSET Steps]
  /\ \A s \in Steps : SelectedChildren[s] \subseteq Deps[s]
  /\ \A i, j \in DOMAIN Order : Order[j] \in Deps[Order[i]] => j < i

Length == Len(Order)

\* A status word, "none" for a step this run did not reach.
Words == {"completed", "reused", "skipped", "failed", "blocked", "pending"}
Reached == {"none", "completed", "reused", "skipped", "failed"}

\* The skipped dependencies whose skip reaches s: a join that publishes the
\* selected children follows them only when all of them are skipped.
SkippedVia(s, skipped) ==
  LET children == SelectedChildren[s]
  IN ((Deps[s] \cap skipped) \ children)
       \cup (IF children \subseteq skipped THEN children ELSE {})

\* The skip without its dependents.
FoldDirectOnly(named, skipped) == skipped \cup named

\* What skips become: in schedule order, every candidate one of them reaches.
Skips(among, start) ==
  LET fold[i \in 0..Length] ==
        IF i = 0 THEN start
        ELSE LET before == fold[i - 1]
             IN before \cup {s \in {Order[i]} \cap among : SkippedVia(s, before) # {}}
  IN fold[Length]

\* fold_skips: the steps a verdict names, and all that their skips reach.
FoldSkips(named, skipped) == Skips(Steps, skipped \cup named)

With(word, words) == {s \in Steps : words[s] = word}

\* A child's skip followed by its join whatever the join requires.
AllSkippedUnselected(reached) ==
  LET fold[i \in 0..Length] ==
        IF i = 0 THEN With("skipped", reached)
        ELSE fold[i - 1] \cup {s \in {Order[i]} \cap With("none", reached) :
                                 Deps[s] \cap fold[i - 1] # {}}
  IN fold[Length]

\* classify_unreached, the skips: of the steps the run did not reach, those that
\* the skips of the run do.
AllSkipped(reached) == Skips(With("none", reached), With("skipped", reached))

\* Only the direct dependents of a failed step blocked.
BlockedDirectly(reached, skipped) ==
  {s \in With("none", reached) \ skipped : Deps[s] \cap With("failed", reached) # {}}

\* Every step the run did not reach, skips aside, below a failed or a blocked one.
AllBlocked(reached, skipped) ==
  LET unreached == With("none", reached) \ skipped
      fold[i \in 0..Length] ==
        IF i = 0 THEN {}
        ELSE LET before == fold[i - 1]
             IN before \cup {s \in {Order[i]} \cap unreached :
                               Deps[s] \cap (With("failed", reached) \cup before) # {}}
  IN fold[Length]

\* classify_unreached merged with what the run reached: one word per step.
Classified(reached) ==
  LET skipped == AllSkipped(reached)
      blocked == AllBlocked(reached, skipped)
  IN [s \in Steps |-> IF reached[s] # "none" THEN reached[s]
                      ELSE IF s \in skipped THEN "skipped"
                      ELSE IF s \in blocked THEN "blocked"
                      ELSE "pending"]

=============================================================================
