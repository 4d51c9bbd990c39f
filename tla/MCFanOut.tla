------------------------------ MODULE MCFanOut ------------------------------
(***************************************************************************)
(* A gated fan-out: two children screen, each has its own verdict, and the *)
(* verdicts leave one, both or none of the children to be trained, joined  *)
(* and reported.  The second version of every rule fails what the first    *)
(* one passed.                                                             *)
(***************************************************************************)
EXTENDS WorkflowRunner

CONSTANTS screen0, screen1, screen, gate0, gate1, gate, train0, train1, train, report

FanOutOrder == <<screen0, screen1, screen, gate0, gate1, gate,
                 train0, train1, train, report>>

FanOutDeps == [s \in Steps |->
  CASE s \in {screen0, screen1} -> {}
    [] s = screen -> {screen0, screen1}
    [] s = gate0 -> {screen0} [] s = gate1 -> {screen1}
    [] s = gate -> {screen, gate0, gate1}
    [] s = train0 -> {gate, gate0} [] s = train1 -> {gate, gate1}
    [] s = train -> {gate, train0, train1}
    [] s = report -> {train}]

FanOutChildren == [s \in Steps |->
  CASE s = screen -> {screen0, screen1} [] s = gate -> {gate0, gate1}
    [] s = train -> {train0, train1} [] OTHER -> {}]

Selected == [s \in Steps |-> IF s = train THEN {train0, train1} ELSE {}]

FanOutKind == [s \in Steps |->
  CASE s \in {screen0, screen1, screen} -> "behavioral"
    [] s \in {gate0, gate1, gate} -> "conditional"
    [] OTHER -> "script"]

FanOutInput == [s \in Steps |->
  CASE s = gate0 -> screen0 [] s = gate1 -> screen1 [] OTHER -> screen]

FanOutOnTrue == [s \in Steps |->
  CASE s = gate0 -> {train0} [] s = gate1 -> {train1} [] OTHER -> {}]

NoSets == [s \in Steps |-> {}]

FanOutValues == [s \in Steps |->
  IF s \in {screen0, screen1} THEN {"high", "low"} ELSE {"high"}]

FanOutRule == <<{"high"}, {}>>

=============================================================================
