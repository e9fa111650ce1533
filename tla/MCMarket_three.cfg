SPECIFICATION FundedSpec
CONSTANTS
  Bidders = {b1, b2, b3}
  Nobody = Nobody
  Funds = 2
  Transfers = {}
  Rooms = {"GuiltMarket", "BlackmailEscrow", "WhisperIpo"}
  RansomCurves <- Curves
  Duration = 1
  VrfGrace = 1
  MaxBidders = 3
  Amounts = {1, 2}
  Draws = {0, 1, 2}
  MaxNow = 2
  MaxRequests = 2
SYMMETRY BidderSymmetry
INVARIANTS EscrowCoversClaims ReadRanksAreDense SoleReaderPays
PROPERTY ImplementsContract
ACTION_CONSTRAINT OnlyTheBook
CHECK_DEADLOCK FALSE
