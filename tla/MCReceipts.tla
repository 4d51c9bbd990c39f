----------------------------- MODULE MCReceipts -----------------------------
(***************************************************************************)
(* A gated allocation: a decision over a measured value, and a step that   *)
(* is allocated only on its passing receipt.                               *)
(***************************************************************************)
EXTENDS WorkflowRunner

CONSTANTS measure, decide, train

ReceiptOrder == <<measure, decide, train>>

ReceiptDeps == [s \in Steps |->
  CASE s = measure -> {} [] s = decide -> {measure}
    [] s = train -> {decide}]

ReceiptKind == [s \in Steps |-> IF s = decide THEN "decision" ELSE "script"]
ReceiptInput == [s \in Steps |-> measure]

RequiredReceipts == [s \in Steps |->
  IF s = train THEN {[step |-> decide, outcome |-> "pass"]} ELSE {}]

HighOrLow == [s \in Steps |-> {"high", "low"}]

NoSets == [s \in Steps |-> {}]

PassHigh == <<{"high"}, {}, {}>>

=============================================================================
