---------------------------- MODULE MCMultiClient ----------------------------
(* Two programs with the same two servers in different orders, and one whose *)
(* configuration lists none.                                                 *)
EXTENDS MultiClient, TLC

CONSTANTS forth, back, alone, s1, s2

MCCallers == {forth, back, alone}
MCServers == (forth :> <<s1, s2>>) @@ (back :> <<s2, s1>>) @@ (alone :> <<>>)

=============================================================================
