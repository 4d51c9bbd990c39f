------------------------------ MODULE MCGating ------------------------------
(***************************************************************************)
(* A gated workflow: a script measures, a decision holds the value to its  *)
(* rule, a conditional gates one step with a dependent against another.    *)
(* The second version of every rule fails what the first one passed.       *)
(***************************************************************************)
EXTENDS WorkflowRunner

CONSTANTS measure, decide, gate, apply, report, probe

GatingOrder == <<measure, decide, gate, apply, report, probe>>

GatingDeps == [s \in Steps |->
  CASE s = measure -> {} [] s = decide -> {measure} [] s = gate -> {decide}
    [] s = apply -> {gate} [] s = report -> {apply} [] s = probe -> {gate}]

GatingKind == [s \in Steps |->
  CASE s = decide -> "decision" [] s = gate -> "conditional" [] OTHER -> "script"]

GatingInput == [s \in Steps |-> IF s = gate THEN decide ELSE measure]

GatingOnTrue == [s \in Steps |-> IF s = gate THEN {apply} ELSE {}]
GatingOnFalse == [s \in Steps |-> IF s = gate THEN {probe} ELSE {}]

HighOrLow == [s \in Steps |-> {"high", "low"}]

NoSets == [s \in Steps |-> {}]

GatingRule == <<{"high"}, {}, {}>>

=============================================================================
