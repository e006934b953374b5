SPECIFICATION Spec
CONSTANTS
  Contents <- SearchContents
  Doc <- SearchDoc
  Algs = {"sha256", "sha512"}
  CanonicalAlg = "sha256"
  NoDigest = NoDigest
  Offered <- SearchOffered
  Known <- SearchKnown
  Start <- SearchStart
  MaxTime = 2
  URIs = {uri}
  SourceNames = {}
  Sources <- SearchSources
  Deprecates <- SearchDeprecates
  About <- SearchAbout
  NumberOf <- SearchNumberOf
  IntegerOf <- SearchIntegerOf
  NaNAboveAll = TRUE
  Asked <- SearchAll
  Malformed <- SearchMalformed
  PageLimit = 2
  NoList = NoList
INVARIANTS
  ScrollComplete
  ListsTrue
  PullsCounted
  
  AliasesAlike
PROPERTIES
  NewBottlesDoNotDisturb
