---------------------------- MODULE MCClientSend -----------------------------
(* Clients that send an event, a manifest that is none, or a signature; the event
   knows its manifest, and the bottle its artifact, by another digest than the
   call uses. *)
EXTENDS ClientSend, MCDocuments

Sha512(c) == <<c, "sha512">>

ClientContents == {"txt", "btl", "man", "evt", "sig"}
ClientDoc ==
  ("txt" :> Blank) @@ ("btl" :> Bottle({Sha512("txt")}, 1)) @@
  ("man" :> Manifest(Sha("btl"), 1)) @@ ("evt" :> Event(Sha512("man"))) @@
  ("sig" :> Signature(Sha("man"), Sha("btl"), <<TRUE>>))

Honest == {s \in [type : Types, content : ClientContents,
                  claim : ClientContents \X Algs] : s.claim[1] = s.content}

Call(t, manifest) == [type |-> t, event |-> "evt", manifest |-> manifest,
                      bottle |-> "btl", signature |-> "sig", alg |-> "sha256"]

ClientCalls == {Call("event", "man"), Call("manifest", "btl"),
                Call("signature", "man")}

=============================================================================
