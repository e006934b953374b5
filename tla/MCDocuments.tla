----------------------------- MODULE MCDocuments -----------------------------
(* Documents put together for the small instances. *)
EXTENDS Documents, TLC

Blank == [type |-> "blob", artifacts |-> {}, parts |-> 0,
          subject |-> NoDigest, bottle |-> NoDigest, sigs |-> <<>>]

Bottle(artifacts, parts) ==
  [Blank EXCEPT !.type = "bottle", !.artifacts = artifacts, !.parts = parts]

Manifest(d, parts) ==
  [Blank EXCEPT !.type = "manifest", !.subject = d, !.parts = parts]

Event(d) == [Blank EXCEPT !.type = "event", !.subject = d]

Signature(m, b, sigs) ==
  [Blank EXCEPT !.type = "signature", !.subject = m, !.bottle = b,
                !.sigs = sigs]

Sha(c) == <<c, "sha256">>

\* One of everything: an artifact, a bottle that has it, a manifest that fits,
\* one with a layer too many, an event, a signature summary that verifies and
\* one that does not.
FullContents == {"txt", "btl", "man", "odd", "evt", "sig", "bad"}
FullDoc ==
  ("txt" :> Blank) @@ ("btl" :> Bottle({Sha("txt")}, 1)) @@
  ("man" :> Manifest(Sha("btl"), 1)) @@ ("odd" :> Manifest(Sha("btl"), 2)) @@
  ("evt" :> Event(Sha("man"))) @@
  ("sig" :> Signature(Sha("man"), Sha("btl"), <<TRUE>>)) @@
  ("bad" :> Signature(Sha("man"), Sha("btl"), <<FALSE>>))

=============================================================================
