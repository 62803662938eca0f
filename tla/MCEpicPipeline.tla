---------------------------- MODULE MCEpicPipeline ----------------------------
(* Small instances of EpicPipeline for TLC.                                *)
EXTENDS EpicPipeline, TLC

CONSTANTS e1, e2

MCEpics     == {e1, e2}
MCPriority  == e1 :> 1 @@ e2 :> 2
MCBreakable == {{}, {e2}}

(* One node of each kind of the epic and quick cycles: a human gate, an    *)
(* optional node that is skipped, the implement node, an auto-escalate gate. *)
MCNodes   == {"epic-context", "map", "implement", "judge"}
MCOrder   == <<"epic-context", "map", "implement", "judge">>
MCDepends == "epic-context" :> {} @@ "map" :> {"epic-context"}
             @@ "implement" :> {"epic-context"} @@ "judge" :> {"map", "implement"}

(* epic-context is often finished before the daemon takes the epic up: it  *)
(* may be for e1, it is for e2, whose gate is the one judge may open.  A   *)
(* save may be of that node, or of the last one with the one before it.    *)
MCBeforehand == e1 :> {{}, {"epic-context"}} @@ e2 :> {{"epic-context"}}
MCSaves      == {{"epic-context"}, {"implement", "judge"}}
=============================================================================
