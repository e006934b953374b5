------------------------------ MODULE MCStartup ------------------------------
(* Small catalogues for Startup, built from the documents of MCIngest. *)
EXTENDS MCIngest, Startup

\* One object of each kind, a manifest with a layer too many, a signature
\* summary whose first entry is saved before the second one is refused, and
\* bytes sent to a route where they do not decode.
LifeContents == {"txt", "btl", "man", "odd", "evt", "sig"}
LifeDoc ==
  [c \in LifeContents |->
     IF c = "sig" THEN Signature(Sha("man"), Sha("btl"), <<TRUE, FALSE>>)
     ELSE FullDoc[c]]
LifeSubmissions ==
  {s \in FullSubmissions : s.content \in LifeContents}
    \cup {Honest("event", "txt", "sha256")}

=============================================================================
