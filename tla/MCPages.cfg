SPECIFICATION PagesSpec
CONSTANTS
  Reads = {poll, push}
  Poll = poll
  MaxVersion = 2
  MaxFaults = 1
  Burners = {k1, k2}
  Extension = x
  NoKey = NoKey
  MaxTurns <- TurnsOn
  MaxOutages = 1
PROPERTIES ReadsAreFresh ShowsTheTruth ReadoutsSettle BurnersAreFunded
CHECK_DEADLOCK FALSE
