----------------------------- MODULE MCObservers -----------------------------
(* The readers over one generation of two commands, which a reload may take    *)
(* away under them.                                                            *)
EXTENDS Observers

CONSTANTS a1, b1, p, q

ObsDCmd == {a1, b1}
ObsGenOf == [d \in ObsDCmd |-> 1]
ObsLabel == [d \in ObsDCmd |-> d]
ObsScraped == {a1}
ObsAddr == {p, q}
ObsUnparsable == {q}
ObsListensOn == [d \in ObsDCmd |-> IF d = a1 THEN {p, None} ELSE {p, q, None}]
=============================================================================
