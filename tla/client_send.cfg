SPECIFICATION FairCSpec
CONSTANTS
  Contents <- ClientContents
  Doc <- ClientDoc
  Algs = {"sha256", "sha512"}
  CanonicalAlg = "sha256"
  NoDigest = NoDigest
  NoContent = NoContent
  Workers = {w1, w2}
  Submissions <- Honest
  Versions = {1}
  Calls <- ClientCalls
INVARIANTS
  SentMeansComplete
  FittingIsNotRefused
PROPERTIES
  TryingSucceeds
