------------------------------- MODULE MCMirror -------------------------------
(* The source has a bottle, its manifest and a summary of two signatures, of    *)
(* which the second does not verify; there come an artifact and a bottle that   *)
(* names it by its second digest.                                               *)
EXTENDS Mirror, MCDocuments

MirrorContents == {"old", "man", "sig", "log", "btl"}
MirrorDoc ==
  ("old" :> Bottle({}, 1)) @@ ("man" :> Manifest(Sha("old"), 1)) @@
  ("sig" :> Signature(Sha("man"), Sha("old"), <<TRUE, FALSE>>)) @@
  ("log" :> Blank) @@ ("btl" :> Bottle({<<"log", "sha512">>}, 1))
MirrorStock == ("old" :> 2) @@ ("man" :> 1) @@ ("sig" :> 1)
MirrorStockNames == {Sha(c) : c \in {"old", "man", "sig", "btl"}}
MirrorOffered == {<<"log", "sha512">>}
\* Of what is alone in its table the time makes no difference.
MirrorStamps == [c \in MirrorContents |-> IF c = "btl" THEN {1, 2} ELSE {1}]

=============================================================================
