SPECIFICATION Spec
CONSTANTS
  Schedule = {1, 2}
  Cron <- SecondHasGaps
  Policies <- Contradictory
  NoPolicy = NoPolicy
  Window = 2
  Pass = {p1, p2}
  Limit = 2
  MaxResume = 1
  MaxClock = 2
SYMMETRY PassSymmetry
INVARIANTS
  OnePolicyPerKey
  NextIsPlanned
  RepeatedOnlyAfterResume
  ExceededOnlyIfOvertaken
PROPERTIES
  PausedDoesNotFire
