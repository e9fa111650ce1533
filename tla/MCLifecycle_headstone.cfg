SPECIFICATION FundedLifeSpec
CONSTANTS
  Bidders = {b1, b2}
  Nobody = Nobody
  Author = Author
  Funds = 1
  Transfers = {}
  Rooms = {"GuiltMarket", "BlackmailEscrow", "WhisperIpo"}
  RansomCurves <- TwoRansoms
  Duration = 1
  VrfGrace = 0
  MaxBidders = 2
  Amounts = {1}
  Draws = {0, 1}
  MaxNow = 1
  MaxRequests = 1
  MaxSeals = 2
  Limit = 1
  MaxWrites = 1
  MaxSilences = 0
SYMMETRY BidderSymmetry
INVARIANT HomeMarketsCanBeCarved
ACTION_CONSTRAINT OnlyTheBook
CHECK_DEADLOCK FALSE
