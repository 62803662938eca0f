------------------------------ MODULE MCGateDesk ------------------------------
(* A small instance of GateDesk for TLC: the daemon and the standalone bot. *)
EXTENDS GateDesk

CONSTANTS g1, easter, standalone

MCBots  == {easter, standalone}
=============================================================================
