------------------------------ MODULE MemorySync ------------------------------
(***************************************************************************)
(* The memory of Claude Code is a directory of markdown files; the table   *)
(* memory_entries is to hold the same texts.  sync_memory.py, a hook of    *)
(* every write below a memory directory and a command, imports the files   *)
(* and exports the rows; `platform_cli.py import-memory` and               *)
(* `export-memory` do one half each, memory_consolidate.py marks files as  *)
(* stale.  Several run at once, and claude sessions write meanwhile.       *)
(***************************************************************************)
EXTENDS Naturals, Sequences, SequencesExt

CONSTANTS Files,       \* the paths of a memory directory but MEMORY.md, ...
          Order,       \* ... sorted
          Out,         \* the path a text is exported to: its type and its name
          NoFile,
          Procs,
          MaxTexts,    \* bound: texts written
          MaxRows,     \* bound: rows inserted
          MaxStarts    \* bound: starts of processes


(* A text in a file, as somebody or as the export formats it; one without  *)
(* front matter, or with a type the table refuses, cannot be imported.     *)
Content == [text : 1..MaxTexts, stale : BOOLEAN, form : {"written", "exported", "malformed", "badType"}]

VARIABLES files,         \* the directory
          rows,          \* the table: the path and the hash of the file, where the
                         \* text is exported to, and the text
          proc,          \* the processes and their locals
          texts, starts

vars == <<files, rows, proc, texts, starts>>

Modes == {"sync", "importOnly", "exportOnly", "importAll", "exportAll", "consolidate"}

(* `todo` are the files of the import, or the ids of the export; `read` is *)
(* what a step has read for the next, `seen` the rows of get_memories.     *)
Idle == [pc |-> "off", mode |-> "sync", todo |-> << >>, read |-> NoFile, hash |-> NoFile,
         row |-> 0, seen |-> << >>, present |-> {}]

Init ==
    /\ files = [f \in Files |-> NoFile] /\ rows = << >>
    /\ proc = [p \in Procs |-> Idle]
    /\ texts = 0 /\ starts = 0

-----------------------------------------------------------------------------
(* The sessions                                                             *)

(* claude writes a memory, or somebody edits one.                          *)
WriteMemory(f, form) ==
    /\ texts < MaxTexts /\ texts' = texts + 1
    /\ files' = [files EXCEPT ![f] = [text |-> texts', stale |-> FALSE, form |-> form]]
    /\ UNCHANGED <<rows, proc, starts>>

DeleteMemory(f) ==
    /\ files[f] # NoFile
    /\ files' = [files EXCEPT ![f] = NoFile]
    /\ UNCHANGED <<rows, proc, texts, starts>>

-----------------------------------------------------------------------------
(* sync                                                                     *)

Present == SelectSeq(Order, LAMBDA f : files[f] # NoFile)

(* main: the hook, which passes no option, or somebody at the prompt.      *)
Start(p, mode) ==
    /\ proc[p].pc = "off" /\ starts < MaxStarts /\ starts' = starts + 1
    /\ proc' = [proc EXCEPT ![p] =
           [Idle EXCEPT !.mode = mode, !.todo = Present,
                        !.pc = CASE mode \in {"sync", "importOnly"}  -> "look"
                                 [] mode = "importAll"               -> "parse"
                                 [] mode \in {"exportOnly", "exportAll"} -> "list"
                                 [] OTHER                            -> "mark"]]
    /\ UNCHANGED <<files, rows, texts>>

At(p, pc) == proc[p].pc = pc
Item(p)   == Head(proc[p].todo)
Has(p)    == proc[p].todo # << >>
Frame     == UNCHANGED <<texts, starts>>

Goto(p, pc)       == proc' = [proc EXCEPT ![p].pc = pc]
NextItem(p, pc)   == proc' = [proc EXCEPT ![p].pc = pc, ![p].todo = Tail(@)]
FirstStep(p)      == IF proc[p].mode = "importAll" THEN "parse" ELSE "look"
End(p)            == proc' = [proc EXCEPT ![p] = Idle]

(* The row of a file: of several, the first.                               *)
RowOf(f) ==
    LET own == {r \in DOMAIN rows : rows[r].file = f}
    IN  IF own = {} THEN 0 ELSE CHOOSE r \in own : \A s \in own : r <= s

(* The first reading: a file whose hash the row has is left alone.         *)
Look(p) ==
    /\ At(p, "look") /\ Has(p) /\ files[Item(p)] # NoFile
    /\ LET r == RowOf(Item(p))
       IN  IF r # 0 /\ rows[r].hash = files[Item(p)] THEN NextItem(p, "look") ELSE Goto(p, "parse")
    /\ UNCHANGED <<files, rows>> /\ Frame

(* _parse_memory_markdown, the second: without front matter, no import.    *)
Parse(p) ==
    /\ At(p, "parse") /\ Has(p) /\ files[Item(p)] # NoFile
    /\ IF files[Item(p)].form = "malformed" THEN NextItem(p, FirstStep(p))
       ELSE proc' = [proc EXCEPT ![p].pc = "hash", ![p].read = files[Item(p)]]
    /\ UNCHANGED <<files, rows>> /\ Frame

(* import_memory_from_markdown: the third, for the hash, and the id.       *)
Hash(p) ==
    /\ At(p, "hash") /\ files[Item(p)] # NoFile
    /\ LET r == RowOf(Item(p))
       IN  IF r # 0 /\ rows[r].hash = files[Item(p)] THEN NextItem(p, FirstStep(p))
           ELSE proc' = [proc EXCEPT ![p].pc = "insert", ![p].row = r, ![p].hash = files[Item(p)]]
    /\ UNCHANGED <<files, rows>> /\ Frame

(* insert_memory, a new row or the old one; a type the table refuses       *)
(* raises, without a platform once more, and ends the process.             *)
Insert(p) ==
    LET new == [file |-> Item(p), out |-> Out[Item(p)], text |-> proc[p].read.text,
                stale |-> proc[p].read.stale, hash |-> proc[p].hash]
    IN  /\ At(p, "insert")
        /\ IF proc[p].read.form = "badType" THEN End(p) /\ UNCHANGED rows
           ELSE /\ IF proc[p].row = 0 THEN Len(rows) < MaxRows /\ rows' = Append(rows, new)
                   ELSE rows' = [rows EXCEPT ![proc[p].row] = new]
                /\ NextItem(p, FirstStep(p))
        /\ UNCHANGED files /\ Frame

(* A file that has gone since it was listed raises.                        *)
ImportRaises(p) ==
    /\ proc[p].pc \in {"look", "parse", "hash"} /\ Has(p) /\ files[Item(p)] = NoFile
    /\ End(p)
    /\ UNCHANGED <<files, rows>> /\ Frame

EndImport(p) ==
    /\ proc[p].pc \in {"look", "parse"} /\ ~Has(p)
    /\ IF proc[p].mode = "sync" THEN Goto(p, "list") ELSE End(p)
    /\ UNCHANGED <<files, rows>> /\ Frame

(* get_memories, and what is in the directory.                             *)
List(p) ==
    /\ At(p, "list")
    /\ proc' = [proc EXCEPT ![p].seen = rows, ![p].present = ToSet(Present), ![p].row = 1,
                            ![p].pc = IF rows = << >> THEN "off" ELSE "compare"]
    /\ UNCHANGED <<files, rows>> /\ Frame

Seen(p) == proc[p].seen[proc[p].row]

NextRow(p) ==
    IF proc[p].row = Len(proc[p].seen) THEN End(p)
    ELSE proc' = [proc EXCEPT ![p].row = @ + 1, ![p].pc = "compare"]

(* A row whose file is there and has its hash is left alone; any other one *)
(* is exported, whichever of the two is newer.                             *)
Compare(p) ==
    /\ At(p, "compare")
    /\ IF /\ proc[p].mode # "exportAll" /\ Seen(p).file \in proc[p].present
          /\ files[Seen(p).file] = Seen(p).hash
       THEN NextRow(p) ELSE Goto(p, "write")
    /\ UNCHANGED <<files, rows>> /\ Frame

(* export_memory_to_markdown: the row as it is now is written ...          *)
WriteOut(p) ==
    LET row == rows[proc[p].row]
    IN  /\ At(p, "write") /\ Goto(p, "record")
        /\ files' = [files EXCEPT ![row.out] = [text |-> row.text, stale |-> row.stale, form |-> "exported"]]
        /\ UNCHANGED rows /\ Frame

(* ... and the file read again for the hash.                               *)
RecordHash(p) ==
    LET out == rows[proc[p].row].out
    IN  /\ At(p, "record")
        /\ IF files[out] = NoFile THEN End(p) /\ UNCHANGED rows
           ELSE /\ rows' = [rows EXCEPT ![proc[p].row].file = out, ![proc[p].row].hash = files[out]]
                /\ NextRow(p)
        /\ UNCHANGED files /\ Frame

-----------------------------------------------------------------------------
(* memory_consolidate --apply                                               *)

(* Some of the files that parse are old: they are read again ...           *)
ReadStale(p) ==
    /\ At(p, "mark")
    /\ \/ /\ Has(p) /\ files[Item(p)] # NoFile
          /\ files[Item(p)].form # "malformed" /\ ~files[Item(p)].stale
          /\ proc' = [proc EXCEPT ![p].pc = "marked", ![p].read = files[Item(p)]]
       \/ Has(p) /\ NextItem(p, "mark")
       \/ (Has(p) => files[Item(p)] = NoFile) /\ End(p)
    /\ UNCHANGED <<files, rows>> /\ Frame

(* ... and written with the marker.                                        *)
MarkStale(p) ==
    /\ At(p, "marked") /\ NextItem(p, "mark")
    /\ files' = [files EXCEPT ![Item(p)] = [proc[p].read EXCEPT !.stale = TRUE]]
    /\ UNCHANGED rows /\ Frame

-----------------------------------------------------------------------------
Next ==
    \/ \E f \in Files : DeleteMemory(f)
    \/ \E f \in Files, form \in {"written", "malformed", "badType"} : WriteMemory(f, form)
    \/ \E p \in Procs :
          \/ \E mode \in Modes : Start(p, mode)
          \/ Look(p) \/ Parse(p) \/ Hash(p) \/ Insert(p) \/ ImportRaises(p) \/ EndImport(p)
          \/ List(p) \/ Compare(p) \/ WriteOut(p) \/ RecordHash(p)
          \/ ReadStale(p) \/ MarkStale(p)

Spec == Init /\ [][Next]_vars

(* What a sync writes over is in the database: what claude has written is  *)
(* imported before its file is replaced by what the database had.          *)
FilesystemWins ==
    [][\A p \in Procs :
          proc[p].pc = "write" /\ proc[p].mode = "sync" /\ proc'[p].pc = "record" =>
              \A f \in Files :
                  files'[f] # files[f] /\ files[f] # NoFile /\ files[f].form = "written" =>
                      \E r \in DOMAIN rows : rows[r].text = files[f].text]_vars
=============================================================================
