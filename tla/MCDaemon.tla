------------------------------ MODULE MCDaemon ------------------------------
(***************************************************************************)
(* Instances of Daemon: one generation of two commands that share a        *)
(* channel, and two generations of one command each, for the races a       *)
(* reload can lose.                                                        *)
(***************************************************************************)
EXTENDS DaemonImplements, TLC

CONSTANTS a1, b1, a2

\* one generation
OneGenDCmd == {a1, b1}
OneGenOf == [d \in OneGenDCmd |-> 1]

\* two generations
TwoGenDCmd == {a1, a2}
TwoGenOf == a1 :> 1 @@ a2 :> 2
=============================================================================
