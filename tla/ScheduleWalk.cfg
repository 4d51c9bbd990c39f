CONSTANT N = 4
SPECIFICATION WalkSpec
INVARIANTS
  SkipsAreLeast
  BlockedIsBelowFailure
  SkipsAgree
CHECK_DEADLOCK FALSE
