SPECIFICATION SSpec
CONSTANTS
  Contents <- ChainContents
  Algs = {"sha256"}
  CanonicalAlg = "sha256"
  NoDigest = NoDigest
  NoContent = NoContent
  Doc <- ChainDoc
  Submissions <- ChainSubmissions
  Workers = {w1, w2}
  Versions = {1, 2}
SYMMETRY Symmetric
INVARIANTS NothingBlocksStart PrejoinedBottle SuccessMeansRecorded
PROPERTIES ReferencesFixed
