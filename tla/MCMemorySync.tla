----------------------------- MODULE MCMemorySync -----------------------------
(* Small instance of MemorySync for TLC.                                   *)
EXTENDS MemorySync

CONSTANTS feedback, project, hook

MCFiles == {feedback, project}
MCOrder == <<feedback, project>>
MCOut   == [f \in MCFiles |-> f]
=============================================================================
