SPECIFICATION FundedSpec
CONSTANTS
  Bidders = {b1, b2, b3}
  Nobody = Nobody
  Funds = 1
  Transfers = {}
  Rooms = {"WhisperIpo"}
  RansomCurves <- Curves
  Duration = 1
  VrfGrace = 1
  MaxBidders = 3
  Amounts = {1}
  Draws = {0, 1}
  MaxNow = 2
  MaxRequests = 1
INVARIANT OnlyAuthorsDueIsLeft
SYMMETRY BidderSymmetry
ACTION_CONSTRAINT OnlyTheBook
CHECK_DEADLOCK FALSE
