SPECIFICATION FairSSpec
CONSTANTS
  Contents <- LifeContents
  Algs = {"sha256"}
  CanonicalAlg = "sha256"
  NoDigest = NoDigest
  NoContent = NoContent
  Doc <- LifeDoc
  Submissions <- LifeSubmissions
  Workers = {w1}
  Versions = {1, 2}
INVARIANTS CurrentWhenServing NoDuplicateObjects
PROPERTIES StartFinishes
