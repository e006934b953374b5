SPECIFICATION Spec
CONSTANTS
  Contents <- SignatureContents
  Algs = {"sha256"}
  CanonicalAlg = "sha256"
  NoDigest = NoDigest
  NoContent = NoContent
  Doc <- SignatureDoc
  Submissions <- SignatureSubmissions
  Workers = {w1, w2}
  Versions = {1}
SYMMETRY Symmetric
INVARIANTS
  ReferencesHold
  CreatedMeansComplete
