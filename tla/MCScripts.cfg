SPECIFICATION ScriptSpec
CONSTANTS
  b1 = b1
  b2 = b2
  Bidders = {b1, b2}
  Villagers <- TwoVillagers
  Nobody = Nobody
  Author = Author
  Funds = 1
  Transfers = {1}
  Rooms = {"GuiltMarket", "BlackmailEscrow", "WhisperIpo"}
  RansomCurves <- OneRansom
  Duration = 1
  VrfGrace = 1
  MaxBidders = 2
  Amounts = {1}
  Draws = {0, 1}
  MaxNow = 2
  MaxRequests = 1
  MaxSeals = 1
  KeeperGrace = 0
  MaxFaults = 1
INVARIANTS GreenMeansBuried
PROPERTIES RedHasACause ScriptsEnd
CHECK_DEADLOCK FALSE
