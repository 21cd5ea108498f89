---------------------------- MODULE MCCoordinator ----------------------------
(* Three calls at once, two of which would subscribe one function each and one *)
(* of which would subscribe two, over two contents of the file.                *)
EXTENDS CoordinatorImplements

CONSTANTS c1, c2, c3, s1, s2, s3, s4, v1, v2

MCCaller == {c1, c2, c3}
MCSubscriber == {s1, s2, s3, s4}
MCSs == [c \in MCCaller |-> CASE c = c1 -> <<s1>> [] c = c2 -> <<s2>> [] c = c3 -> <<s3, s4>>]
MCConf == {v1, v2}
=============================================================================
