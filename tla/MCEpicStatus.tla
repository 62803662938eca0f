---------------------------- MODULE MCEpicStatus ----------------------------
(* The nodes of a short epic cycle, in order: clarify writes the file of   *)
(* specify.                                                                *)
EXTENDS EpicStatus

MCNodes  == {"1-epic-context", "2-specify", "3-clarify", "4-qa"}
MCFirst(ns) == IF "1-epic-context" \in ns THEN "1-epic-context"
               ELSE IF "2-specify" \in ns THEN "2-specify"
               ELSE IF "3-clarify" \in ns THEN "3-clarify" ELSE "4-qa"
MCFiles  == {"pitch.md", "spec.md", "qa-report.md"}
MCOutput == [n \in MCNodes |->
               IF n = "1-epic-context" THEN "pitch.md"
               ELSE IF n = "4-qa" THEN "qa-report.md" ELSE "spec.md"]
=============================================================================
