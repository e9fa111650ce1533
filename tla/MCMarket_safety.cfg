SPECIFICATION MCSpec
CONSTANTS
  Bidders = {b1, b2}
  Nobody = Nobody
  Funds = 2
  Transfers = {2}
  Rooms = {"GuiltMarket", "BlackmailEscrow", "WhisperIpo"}
  RansomCurves <- Curves
  Duration = 1
  VrfGrace = 1
  MaxBidders = 2
  Amounts = {1, 2}
  Draws = {0, 1}
  MaxNow = 2
  MaxRequests = 2
SYMMETRY BidderSymmetry
INVARIANTS OffersMatchTheProgram MoneyIsConserved PursesBackBids VerdictFollowsBook OnlyPaidConfessionsAwaitOracle SettledMeansDone
PROPERTY VerdictIsFinal
CHECK_DEADLOCK FALSE
