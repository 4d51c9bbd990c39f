CONSTANTS
  Steps = {s1}
  MaxAttempts = 3
  Retained = 3
SPECIFICATION TreeSpec
INVARIANT RecoveryMarksSuperseded
