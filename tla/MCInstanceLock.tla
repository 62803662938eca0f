---------------------------- MODULE MCInstanceLock ----------------------------
(* A small instance of InstanceLock for TLC: a daemon and its successors.   *)
EXTENDS InstanceLock

CONSTANTS p1, p2, p3

MCProcs == {p1, p2, p3}
=============================================================================
