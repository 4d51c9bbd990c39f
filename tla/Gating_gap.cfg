CONSTANTS
  measure = measure
  decide = decide
  gate = gate
  apply = apply
  report = report
  probe = probe
  Steps = {measure, decide, gate, apply, report, probe}
  Order <- GatingOrder
  Deps <- GatingDeps
  SelectedChildren <- NoSets
  Uids = {1, 2, 3}
  Children <- NoSets
  Kind <- GatingKind
  Input <- GatingInput
  OnTrue <- GatingOnTrue
  OnFalse <- GatingOnFalse
  Receipts <- NoSets
  Values <- HighOrLow
  Rule <- GatingRule
  MaxRuns = 2
  MaxFaults = 1
  MaxEdits = 1
SPECIFICATION RunnerSpec
INVARIANT StreamGapFree
CHECK_DEADLOCK FALSE
