SPECIFICATION VillageSpec
CONSTANTS
  Makers = {m1, m2}
  Earlier = e
  Standing <- LowIds
  Ids <- SixIds
  Drawn <- DrawnIds
  Lookups = 2
  Attempts = 1
  MaxLost = 1
SYMMETRY MakersAlike
CONSTRAINT ProbedGoesHome
INVARIANTS NoStrangerReads ChallengeIsHonest MakersGetTheirMarkets
CHECK_DEADLOCK FALSE
