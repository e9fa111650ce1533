SPECIFICATION CrankSpec
CONSTANTS
  Bidders = {b1, b2}
  Nobody = Nobody
  Author = Author
  Funds = 1
  Transfers = {}
  Rooms = {"BlackmailEscrow"}
  RansomCurves <- OneRansom
  Duration = 1
  VrfGrace = 1
  MaxBidders = 2
  Amounts = {1}
  Draws = {1}
  MaxNow = 2
  MaxRequests = 1
  MaxSeals = 1
  KeeperGrace = 0
  MaxFaults = 1
INVARIANTS ReaderIsLetIn
PROPERTIES StakesAreAnswered BooksGoHome CarvedUnlessInterrupted
CHECK_DEADLOCK FALSE
