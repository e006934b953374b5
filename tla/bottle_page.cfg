SPECIFICATION Spec
CONSTANTS
  Contents <- PageContents
  Doc <- PageDoc
  Algs = {"sha256", "sha512"}
  CanonicalAlg = "sha256"
  NoDigest = NoDigest
  Offered <- PageOffered
  Known <- PageKnown
  Start <- PageStart
  MaxTime = 1
  URIs = {uri}
  SourceNames = {"a", "b", "c"}
  Sources <- PageSources
  Deprecates <- PageDeprecates
  Puller <- PagePuller
  NoUser = NoUser
  UserLimit = 2
  Asked <- PageAsked
  MaxDepth = 2
  MaxCommits = 2
INVARIANTS
  NothingMissed
  EveryAncestorPoints
  ArrowsGenuine
  DrawnOnce
  DeprecationsListed
