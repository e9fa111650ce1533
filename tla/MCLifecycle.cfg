SPECIFICATION FundedLifeSpec
CONSTANTS
  Bidders = {b1, b2}
  Nobody = Nobody
  Author = Author
  Funds = 1
  Transfers = {}
  Rooms = {"GuiltMarket", "BlackmailEscrow", "WhisperIpo"}
  RansomCurves <- TwoRansoms
  Duration = 1
  VrfGrace = 1
  MaxBidders = 2
  Amounts = {1}
  Draws = {0, 1}
  MaxNow = 2
  MaxRequests = 2
  MaxSeals = 2
  Limit = 1
  MaxWrites = 2
  MaxSilences = 1
SYMMETRY BidderSymmetry
INVARIANTS AbsenceIsNotAValue OnlyTheVerdictPublishes OnlyTheChosenRead TombstoneIsTrue AuthorIsPaidOnce BuriedMarketsVerify
PROPERTIES CarvedForGood VerdictWasLit
ACTION_CONSTRAINT OnlyTheBook
CHECK_DEADLOCK FALSE
