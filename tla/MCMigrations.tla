----------------------------- MODULE MCMigrations -----------------------------
(* Small instance of Migrations for TLC: the kinds of the repository's     *)
(* scripts, cut to one table each way a table changes.                     *)
EXTENDS Migrations

CONSTANTS daemon, hook, r1

MCProcs == {daemon, hook}

Of(op, table, cols) == [op |-> op, table |-> table, cols |-> cols]
Only(op) == [op |-> op]

MCOrder == <<"001", "003a", "003b", "009", "013", "016">>

MCScript ==
    [m \in ToSet(MCOrder) |->
        CASE m = "001"  -> <<Of("create", "epics", {"status", "appetite"}), Of("create", "platforms", {"name"})>>
          [] m = "003a" -> <<Of("column", "platforms", {"hash"})>>
          [] m = "003b" -> << >>
          [] m = "009"  -> <<Only("off"), Of("dropNew", "epics", {}),
                             Of("createNew", "epics", {"status", "appetite"}),
                             Of("copy", "epics", {"status", "appetite"}), Of("drop", "epics", {}),
                             Of("rename", "epics", {}), Only("on")>>
          [] m = "013"  -> <<Only("off"), Of("dropNew", "epics", {}),
                             Of("createNew", "epics", {"status"}),
                             Of("copy", "epics", {"status"}), Of("drop", "epics", {}),
                             Of("rename", "epics", {}), Only("on")>>
          [] m = "016"  -> <<Only("off"), Only("begin"),
                             Of("createNew", "platforms", {"name", "hash"}),
                             Of("copy", "platforms", {"name", "hash"}), Of("drop", "platforms", {}),
                             Of("rename", "platforms", {}), Only("commit"), Only("on")>>]
=============================================================================
