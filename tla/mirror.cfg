SPECIFICATION FairSpec
CONSTANTS
  Contents <- MirrorContents
  Doc <- MirrorDoc
  Algs = {"sha256", "sha512"}
  CanonicalAlg = "sha256"
  NoDigest = NoDigest
  Stock <- MirrorStock
  StockNames <- MirrorStockNames
  Offered <- MirrorOffered
  Batch = 1
  MaxTime = 2
  Stamps <- MirrorStamps
  MaxRuns = 2
  MaxFaults = 1
INVARIANTS
  NothingSkipped
  UploadsAccepted
  PerfectMirror
PROPERTIES
  DownloadEnds
