------------------------------ MODULE MCMembers ------------------------------
(* A document whose members change from version to version. *)
EXTENDS Members, TLC

\* Version 2 reads the member "b" differently and finds one more; version 3
\* does not keep "a" any longer.
ThreeItems ==
  <<("a" :> "x") @@ ("b" :> "x"),
    ("a" :> "x") @@ ("b" :> "y") @@ ("c" :> "x"),
    ("b" :> "y") @@ ("c" :> "x")>>

=============================================================================
