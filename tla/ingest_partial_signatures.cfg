SPECIFICATION Spec
CONSTANTS
  Contents <- PartialContents
  Algs = {"sha256"}
  CanonicalAlg = "sha256"
  NoDigest = NoDigest
  NoContent = NoContent
  Doc <- PartialDoc
  Submissions <- PartialSubmissions
  Workers = {w1}
  Versions = {1}
INVARIANTS
  SignaturesComplete
