CONSTANTS
  measure = measure
  decide = decide
  train = train
  Steps = {measure, decide, train}
  Order <- ReceiptOrder
  Deps <- ReceiptDeps
  SelectedChildren <- NoSets
  Uids = {1, 2, 3}
  Children <- NoSets
  Kind <- ReceiptKind
  Input <- ReceiptInput
  OnTrue <- NoSets
  OnFalse <- NoSets
  Receipts <- RequiredReceipts
  Values <- HighOrLow
  Rule <- PassHigh
  MaxRuns = 3
  MaxFaults = 1
  MaxEdits = 1
SPECIFICATION FairRunnerSpec
INVARIANTS
  EvidenceCoherent
  ReceiptsStand
  IdentitiesCurrent
PROPERTY RecoversEventually
CHECK_DEADLOCK FALSE
