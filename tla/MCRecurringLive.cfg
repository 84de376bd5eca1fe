SPECIFICATION CrossedSpec
CONSTANTS
  Schedule = {1, 2, 3, 4}
  Cron <- EveryInstant
  Policies <- TwoKeys
  NoPolicy = NoPolicy
  Window = 2
  Pass = {p1, p2}
  Limit = 2
  MaxResume = 0
  MaxClock = 1
PROPERTIES
  PassesServe
