----------------------------- MODULE MCEnsureRepo -----------------------------
(* Small instance of EnsureRepo for TLC.                                   *)
EXTENDS EnsureRepo

CONSTANTS daemon, ingest, cli, e1, e2

MCProcs == {daemon, ingest, cli}
MCEpics == {e1, e2}
=============================================================================
