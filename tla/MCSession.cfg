SPECIFICATION SessionSpec
CONSTANTS
  Bidders = {b1, b2}
  Nobody = Nobody
  Funds = 2
  Transfers = {}
  Rooms = {"GuiltMarket"}
  RansomCurves <- NoRansom
  Duration = 1
  VrfGrace = 1
  MaxBidders = 1
  Amounts = {1, 2}
  Draws = {0}
  MaxNow = 2
  MaxRequests = 0
  Tabs = {t1, t2}
  Ceilings = {1}
  MinTtl = 1
  MaxKeys = 2
  MaxTurns = 2
SYMMETRY TabSymmetry
INVARIANTS KeyBidsAsGranted SpentIsWhatWasBid StoredKeysAreGranted
PROPERTY DeadKeysPlaceNoBid
CHECK_DEADLOCK FALSE
