SPECIFICATION FundedLiveSpec
CONSTANTS
  Bidders = {b1, b2}
  Nobody = Nobody
  Funds = 1
  Transfers = {}
  Rooms = {"GuiltMarket", "BlackmailEscrow"}
  RansomCurves <- Curves
  Duration = 1
  VrfGrace = 1
  MaxBidders = 2
  Amounts = {1}
  Draws = {0, 1}
  MaxNow = 2
  MaxRequests = 2
PROPERTIES VerdictArrives PaidBooksClose
CHECK_DEADLOCK FALSE
