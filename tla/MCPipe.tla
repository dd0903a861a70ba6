------------------------------- MODULE MCPipe ------------------------------
(* Instances of Pipe for TLC: two pipes, one of them with two windows, or  *)
(* one pipe with two windows.                                              *)
EXTENDS Pipe, TLC

CONSTANTS p1, p2, w1, w2, w3

TwoAndOne == (w1 :> p1) @@ (w2 :> p1) @@ (w3 :> p2)
BothOnOne == (w1 :> p1) @@ (w2 :> p1)
OnlyFirst == w1 :> p1
=============================================================================
