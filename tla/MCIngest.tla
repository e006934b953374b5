------------------------------ MODULE MCIngest -------------------------------
(* Small catalogues and client workloads for Ingest. *)
EXTENDS Ingest, MCDocuments

\* An honest client: the digest belongs to the bytes.
Honest(t, c, a) == [type |-> t, content |-> c, claim |-> <<c, a>>]

Symmetric == Permutations(Workers)

\* A bottle with one part, a manifest for it and an event about it.
ChainContents == {"btl", "man", "evt"}
ChainDoc ==
  ("btl" :> Bottle({}, 1)) @@ ("man" :> Manifest(Sha("btl"), 1)) @@
  ("evt" :> Event(Sha("man")))
ChainSubmissions ==
  {Honest("bottle", "btl", "sha256"), Honest("manifest", "man", "sha256"),
   Honest("event", "evt", "sha256")}

\* Two artifacts, one of them known by two digests; bytes sent under the digest
\* of others; artifact bytes sent to the wrong route, where they leave their
\* data and digest behind.
ArtifactContents == {"txt", "png", "btl"}
ArtifactDoc ==
  ("txt" :> Blank) @@ ("png" :> Blank) @@
  ("btl" :> Bottle({<<"txt", "sha512">>, Sha("png")}, 0))
ArtifactSubmissions ==
  {Honest("blob", "txt", "sha256"), Honest("blob", "txt", "sha512"),
   Honest("bottle", "png", "sha256"), Honest("bottle", "btl", "sha256"),
   [type |-> "blob", content |-> "txt", claim |-> Sha("png")]}

\* A signature summary of two entries, for a manifest and for a bottle that is
\* not the manifest's (nothing in the code demands that it is).
SignatureContents == {"btl", "oth", "man", "sig"}
SignatureDoc ==
  ("btl" :> Bottle({}, 0)) @@ ("oth" :> Bottle({}, 0)) @@
  ("man" :> Manifest(Sha("btl"), 0)) @@
  ("sig" :> Signature(Sha("man"), Sha("oth"), <<TRUE, TRUE>>))
SignatureSubmissions ==
  {Honest("bottle", "btl", "sha256"), Honest("bottle", "oth", "sha256"),
   Honest("manifest", "man", "sha256"), Honest("signature", "sig", "sha256")}

\* A signature summary whose second entry does not verify.
PartialContents == {"btl", "man", "sig"}
PartialDoc ==
  [c \in PartialContents |->
     IF c = "sig" THEN Signature(Sha("man"), Sha("btl"), <<TRUE, FALSE>>)
     ELSE SignatureDoc[c]]
PartialSubmissions ==
  {s \in SignatureSubmissions : s.content \in PartialContents}

\* One upload of each of the documents of FullDoc.
FullSubmissions ==
  {Honest("blob", "txt", "sha256"), Honest("bottle", "btl", "sha256"),
   Honest("manifest", "man", "sha256"), Honest("manifest", "odd", "sha256"),
   Honest("event", "evt", "sha256"), Honest("signature", "sig", "sha256"),
   Honest("signature", "bad", "sha256")}

\* The same without the signatures and the odd manifest, and with the bottle's
\* bytes stored as a blob too.
SerialContents == {"txt", "btl", "man", "evt"}
SerialDoc == [c \in SerialContents |-> FullDoc[c]]
SerialSubmissions ==
  {s \in FullSubmissions : s.content \in SerialContents}
    \cup {Honest("blob", "btl", "sha256")}

=============================================================================
