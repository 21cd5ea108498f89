------------------------------- MODULE MCMain -------------------------------
(* The main goroutine over two generations of one command each.            *)
EXTENDS Main, TLC

CONSTANTS a1, a2

MCDCmd == {a1, a2}
MCGenOf == a1 :> 1 @@ a2 :> 2
=============================================================================
