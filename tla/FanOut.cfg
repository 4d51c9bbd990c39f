CONSTANTS
  screen0 = screen0
  screen1 = screen1
  screen = screen
  gate0 = gate0
  gate1 = gate1
  gate = gate
  train0 = train0
  train1 = train1
  train = train
  report = report
  Steps = {screen0, screen1, screen, gate0, gate1, gate, train0, train1, train, report}
  Order <- FanOutOrder
  Deps <- FanOutDeps
  Children <- FanOutChildren
  SelectedChildren <- Selected
  Uids = {1, 2, 3}
  Kind <- FanOutKind
  Input <- FanOutInput
  OnTrue <- FanOutOnTrue
  OnFalse <- NoSets
  Receipts <- NoSets
  Values <- FanOutValues
  Rule <- FanOutRule
  MaxRuns = 2
  MaxFaults = 1
  MaxEdits = 1
SPECIFICATION RunnerSpec
INVARIANTS
  RunnerTypeOK
  NarratedIsPublished
  DependenciesSettled
  ManifestIsTrue
  WordsFollowDependencies
  EvidenceCoherent
  TreeFollowsVerdicts
CHECK_DEADLOCK FALSE
