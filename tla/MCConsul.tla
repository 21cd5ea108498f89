------------------------------ MODULE MCConsul ------------------------------
(***************************************************************************)
(* Two commands that come and go, each with a port of its own.             *)
(***************************************************************************)
EXTENDS Consul, TLC

CONSTANTS c1, c2, s1, s2

MCOffers == c1 :> {s1} @@ c2 :> {s2}

\* At most one command runs when Watch begins, and its number is up to date.
MCInit == ConsulInit /\ Cardinality(running) <= 1 /\ runningCount = Cardinality(running)

MCSpec ==
  /\ MCInit
  /\ [][ConsulNext]_vars
  /\ \A w \in Watcher : WF_vars(Watch(w))
=============================================================================
