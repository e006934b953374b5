SPECIFICATION Spec
CONSTANTS
  Contents <- ArtifactContents
  Algs = {"sha256", "sha512"}
  CanonicalAlg = "sha256"
  NoDigest = NoDigest
  NoContent = NoContent
  Doc <- ArtifactDoc
  Submissions <- ArtifactSubmissions
  Workers = {w1, w2}
  Versions = {1}
SYMMETRY Symmetric
INVARIANTS
  ContentAddressed
  InFlight
PROPERTIES
  LookupsStable
  ImplementsCatalog
