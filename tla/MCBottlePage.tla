----------------------------- MODULE MCBottlePage -----------------------------
(* Four bottles: mid is made from old, top from both, kid from mid and top;   *)
(* two of them have two digests, and each relation is recorded by one.  The   *)
(* two parents of top are made from the same URI.                             *)
EXTENDS BottlePage, MCDocuments

PageContents == {"old", "mid", "top", "kid", "man", "get", "put"}
Sha2(c) == <<c, "sha512">>
PageDoc ==
  ("man" :> Manifest(Sha("mid"), 1)) @@ ("get" :> Event(Sha("man"))) @@
  ("put" :> Event(Sha("man"))) @@
  [c \in {"old", "mid", "top", "kid"} |-> Bottle({}, 1)]
From(name, to) == [name |-> name, to |-> to]
PageSources ==
  [c \in PageContents |->
     CASE c = "old" -> {From("c", CHOOSE u \in URIs : TRUE)}
       [] c = "mid" -> {From("a", Sha("old")), From("b", CHOOSE u \in URIs : TRUE)}
       [] c = "top" -> {From("a", Sha("mid")), From("b", Sha2("old")),
                        From("c", Sha2("man"))}
       [] c = "kid" -> {From("a", Sha2("top")), From("b", Sha("mid"))}
       [] OTHER -> {}]
PageDeprecates ==
  [c \in PageContents |->
     CASE c = "top" -> {Sha("mid"), Sha2("old")}
       [] c = "kid" -> {Sha2("top")}
       [] OTHER -> {}]
PagePuller == [c \in PageContents |-> IF c \in {"get", "put"} THEN "ann" ELSE NoUser]
PageKnown == {Sha(c) : c \in PageContents}
PageOffered == {Sha2("old"), Sha2("top")}
PageStart == {"mid", "man", "get"}
Ask(d, up, down) == [digest |-> d, up |-> up, down |-> down]
PageAsked == {Ask(Sha("old"), 0, 2), Ask(Sha("mid"), 2, 1),
              Ask(Sha("top"), 2, 1), Ask(Sha2("top"), 2, 0)}

=============================================================================
