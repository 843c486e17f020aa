------------------------------- MODULE MCRuns -------------------------------
(***************************************************************************)
(* Two addresses, whose marks two editions of the hosts file give out the  *)
(* other way round.                                                        *)
(***************************************************************************)
EXTENDS Runs

MCAddr == {"a", "b"}
MCHosts == {1, 2}
MCMarkOf == <<[a |-> 20, b |-> 21], [a |-> 21, b |-> 20]>>
=============================================================================
