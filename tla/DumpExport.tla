----------------------------- MODULE DumpExport -----------------------------
(***************************************************************************)
(* `jibs import --dump-to <file>` (client/src/export.rs): the stream is    *)
(* written to `<file>.part`, which is renamed to `<file>` at the end.      *)
(* Exports follow each other; each may fail at any step, be killed, or be  *)
(* cut short with the whole machine.                                       *)
(***************************************************************************)
EXTENDS DumpFormat

CONSTANTS
  MaxExports,  \* bound: exports to the same file
  MaxFaults    \* bound: failures, kills and power losses

ASSUME ExportAssumption == MaxExports \in Nat /\ MaxFaults \in Nat

VARIABLES
  part,     \* <file>.part, what is buffered included
  dump,     \* <file>
  pc,
  gen,      \* the export
  written,  \* records written of each table
  serverOk, \* no thread of the server has failed
  faults,
  lost      \* a power loss has cut the published file

files == <<part, dump>>
vars  == <<files, pc, gen, written, serverOk, faults, lost>>

Write(f, rs) == [f EXCEPT !.recs = @ \o rs]

Fault == faults < MaxFaults /\ faults' = faults + 1

-----------------------------------------------------------------------------
\* File::create truncates what an earlier export left.
CreatePart ==
  /\ pc \in {"idle", "done", "failed", "left", "killed"} /\ gen < MaxExports
  /\ gen' = gen + 1
  /\ part' = Write(EmptyFile, Manifest(gen + 1))
  /\ written' = [t \in Tables |-> 0]
  /\ serverOk' = TRUE
  /\ pc' = "start"
  /\ UNCHANGED <<dump, faults, lost>>

StartServer ==
  /\ pc = "start"
  /\ pc' = "stream"
  /\ UNCHANGED <<files, gen, written, serverOk, faults, lost>>

\* start_process(...)? returns before anything cleans up.
StartFails ==
  /\ pc = "start" /\ Fault
  /\ pc' = "failed"
  /\ UNCHANGED <<files, gen, written, serverOk, lost>>

\* Schema, Data and TableDone, the server's tables interleaved.
RecvTable(t) ==
  /\ pc = "stream" /\ written[t] < Records(t)
  /\ written' = [written EXCEPT ![t] = @ + 1]
  /\ part' = Write(part, <<TableRec(t, written[t] + 1, gen)>>)
  /\ UNCHANGED <<dump, pc, gen, serverOk, faults, lost>>

\* A thread of the server fails, with or without a recoverable Error: the
\* other tables go on, Done never comes (Streaming, DoneMeansAll).
ServerFails ==
  /\ pc = "stream" /\ serverOk /\ Fault
  /\ serverOk' = FALSE
  /\ UNCHANGED <<files, pc, gen, written, lost>>

\* Variant: the end of the stream is taken for Done.
RecvDoneOrEof ==
  /\ pc = "stream"
  /\ ~serverOk \/ \A t \in Tables : written[t] = Records(t)
  /\ pc' = "finish"
  /\ part' = Write(part, PlanTrailer(gen))
  /\ UNCHANGED <<dump, gen, written, serverOk, faults, lost>>

\* Done ends the loop; sets, after statements and foreign keys follow.
RecvDone ==
  /\ pc = "stream" /\ serverOk
  /\ \A t \in Tables : written[t] = Records(t)
  /\ pc' = "finish"
  /\ part' = Write(part, PlanTrailer(gen))
  /\ UNCHANGED <<dump, gen, written, serverOk, faults, lost>>

\* End of file, a fatal Error, or a write that fails.
StreamFails ==
  /\ pc = "stream"
  /\ \/ ~serverOk /\ UNCHANGED faults
     \/ Fault
  /\ pc' = "discard"
  /\ UNCHANGED <<files, gen, written, serverOk, lost>>

\* remove_file, which may fail too.
Discard ==
  /\ pc = "discard"
  /\ \/ part' = NoFile /\ pc' = "failed" /\ UNCHANGED faults
     \/ Fault /\ pc' = "left" /\ UNCHANGED part
  /\ UNCHANGED <<dump, gen, written, serverOk, lost>>

\* Variant: the rename comes first.
FinishLate ==
  /\ pc = "finish"
  /\ dump' = part /\ part' = NoFile
  /\ pc' = "done"
  /\ UNCHANGED <<gen, written, serverOk, faults, lost>>

\* DumpWriter::finish: the terminator, and everything is flushed.
Finish ==
  /\ pc = "finish"
  /\ part' = Write(part, <<End(gen)>>)
  /\ pc' = "rename"
  /\ UNCHANGED <<dump, gen, written, serverOk, faults, lost>>

FinishFails ==
  /\ pc = "finish" /\ Fault
  /\ part' \in Remains(Write(part, <<End(gen)>>))
  /\ pc' = "failed"
  /\ UNCHANGED <<dump, gen, written, serverOk, lost>>

Rename ==
  /\ pc = "rename"
  /\ dump' = part /\ part' = NoFile
  /\ pc' = "done" /\ lost' = FALSE
  /\ UNCHANGED <<gen, written, serverOk, faults>>

RenameFails ==
  /\ pc = "rename" /\ Fault
  /\ pc' = "failed"
  /\ UNCHANGED <<files, gen, written, serverOk, lost>>

Running == pc \in {"start", "stream", "discard", "finish", "rename"}

\* The process is killed: the BufWriter's contents are gone.
Kill ==
  /\ Running /\ Fault
  /\ part' \in IF pc = "rename" THEN {part} ELSE Remains(part)
  /\ pc' = "killed"
  /\ UNCHANGED <<dump, gen, written, serverOk, lost>>

\* The machine stops; nothing was synced.
PowerLoss ==
  /\ Fault
  /\ part' \in Remains(part) /\ dump' \in Remains(dump)
  /\ lost' = (lost \/ dump' # dump)
  /\ pc' = IF Running THEN "killed" ELSE pc
  /\ UNCHANGED <<gen, written, serverOk>>

-----------------------------------------------------------------------------
Init ==
  /\ part = NoFile /\ dump = NoFile
  /\ pc = "idle" /\ gen = 0 /\ written = [t \in Tables |-> 0]
  /\ serverOk = TRUE /\ faults = 0 /\ lost = FALSE

Next ==
  \/ CreatePart \/ StartServer \/ StartFails
  \/ \E t \in Tables : RecvTable(t)
  \/ ServerFails \/ RecvDone \/ StreamFails \/ Discard
  \/ Finish \/ FinishFails \/ Rename \/ RenameFails \/ Kill \/ PowerLoss

Spec == Init /\ [][Next]_vars

-----------------------------------------------------------------------------
(* Properties *)

\* Whatever bears the dump's name is a whole export, unless the disk lost it:
\* the rename publishes nothing half-written (export.rs:11).
PublishedIsWhole == dump.there /\ ~lost => Whole(dump)

\* A file the loader accepts is whole, also a .part left behind or a file that
\* a power loss has cut: the terminator is written after everything else, and
\* only after Done (export.rs:187).
AcceptedIsWhole == \A f \in {part, dump} : Accepted(f) => Whole(f)
=============================================================================
