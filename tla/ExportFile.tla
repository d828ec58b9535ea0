----------------------------- MODULE ExportFile -----------------------------
(***************************************************************************)
(* A Quasar export file end to end: the writer turns records into          *)
(* encrypted frames, the file may be cut or damaged before it is uploaded, *)
(* and the reader yields record after record while it still reads, so what *)
(* it has yielded is imported before it knows how the file ends.           *)
(* Compression is left out, and a frame holds whole records.               *)
(***************************************************************************)
EXTENDS Integers, Sequences, SequencesExt

CONSTANTS ExportedApps,  \* apps a record may be or name
          MaxWritten,  \* bound: records of an export
          MaxDamages   \* bound: damages to a file

ASSUME ExportAssumption == MaxWritten \in Nat /\ MaxDamages \in Nat

VARIABLES
  written,   \* the records the exporter passed to the writer
  buffered,  \* records of the writer that are in no frame yet
  writer,    \* "open", "closed" or "broken"
  file,      \* the file: its header and its frames
  damages,
  reader,    \* the reader: its state, its next frame, what is decrypted and not yet read
  yielded    \* the records it has yielded

exportVars == <<written, buffered, writer, file, damages, reader, yielded>>
written_ == <<written, buffered, writer>>

RECORD_ORDER == <<"manifest", "organization", "app", "transaction", "end">>
COUNTED_TYPES == {"app", "transaction"}
Counts == [COUNTED_TYPES -> 0 .. 1]
Record ==
  [t : {"manifest", "end"}, counts : Counts] \cup [t : {"organization"}]
    \cup [t : COUNTED_TYPES, app : ExportedApps]

Rank(t) == CHOOSE r \in DOMAIN RECORD_ORDER : RECORD_ORDER[r] = t

Follows(t, next) ==
  \/ Rank(next) > Rank(t) /\ (t = "manifest" => next = "organization")
  \/ next = t /\ t \in COUNTED_TYPES

Of(t, records) == SelectSeq(records, LAMBDA record : record.t = t)

Header == {"header", "changed", "unreadable"}

ExportInit ==
  /\ written = <<>> /\ buffered = <<>> /\ writer = "open"
  /\ file = [header |-> "header", frames |-> <<>>] /\ damages = 0
  /\ reader = [at |-> "header", index |-> 0, lines |-> <<>>] /\ yielded = <<>>
-----------------------------------------------------------------------------
(* The writer *)

\* A frame is sealed with the header, its number and its flag.
Seal(records, final) ==
  [final |-> final, records |-> records,
   sealed |-> [header |-> "header", index |-> Len(file.frames), final |-> final]]

AddFrame(final) ==
  /\ file' = [file EXCEPT !.frames = Append(@, Seal(buffered, final))]
  /\ buffered' = <<>>

\* The exporter lists its records in RECORD_ORDER and ends with what it has
\* listed; what it counted for the manifest may have changed since.
WriteRecord(record) ==
  /\ writer = "open" /\ Len(written) < MaxWritten
  /\ IF written = <<>> THEN record.t = "manifest" ELSE Follows(Last(written).t, record.t)
  /\ record.t = "end" => \A t \in COUNTED_TYPES : record.counts[t] = Len(Of(t, written))
  /\ written' = Append(written, record) /\ buffered' = Append(buffered, record)
  /\ UNCHANGED <<writer, file, damages, reader, yielded>>

WriteChunk ==
  /\ writer = "open" /\ buffered # <<>> /\ AddFrame(FALSE)
  /\ UNCHANGED <<written, writer, damages, reader, yielded>>

Flush ==
  /\ writer = "open" /\ writer' = "closed" /\ AddFrame(TRUE)
  /\ UNCHANGED <<written, damages, reader, yielded>>

\* A record that fails its schema, or a lost connection, errors the stream.
BreakOff ==
  /\ writer = "open" /\ writer' = "broken"
  /\ UNCHANGED <<written, buffered, file, damages, reader, yielded>>
-----------------------------------------------------------------------------
(* The way from the writer to the reader *)

Transit(to) ==
  /\ writer # "open" /\ reader.at = "header" /\ damages < MaxDamages
  /\ file' = to /\ damages' = damages + 1
  /\ UNCHANGED <<written_, reader, yielded>>

ChangeHeader(to) == to # file.header /\ Transit([file EXCEPT !.header = to])

Rearrange(frames) == Transit([file EXCEPT !.frames = frames])

DropFrame(i) == Rearrange(RemoveAt(file.frames, i))

RepeatFrame(i) == Rearrange(InsertAt(file.frames, i, file.frames[i]))

SwapFrames(i) ==
  /\ i < Len(file.frames)
  /\ Rearrange([file.frames EXCEPT ![i] = file.frames[i + 1], ![i + 1] = file.frames[i]])

FlipFlag(i) == Rearrange([file.frames EXCEPT ![i].final = ~@])
-----------------------------------------------------------------------------
(* The reader: the envelope *)

Reading(at) == reader.at = at /\ writer # "open"

ReaderGoes(to) == reader' = [reader EXCEPT !.at = to]

\* A header with another date or chunk size reads well and seals no frame.
ReadHeader ==
  /\ Reading("header")
  /\ ReaderGoes(IF file.header = "unreadable" THEN "not-an-export" ELSE "frames")
  /\ UNCHANGED <<written_, file, damages, yielded>>

\* Mutant: the frame number is not part of what is authenticated.
AuthenticAnywhere(frame) ==
  frame.sealed = [header |-> file.header, index |-> frame.sealed.index, final |-> frame.final]

Authentic(frame) ==
  frame.sealed = [header |-> file.header, index |-> reader.index, final |-> frame.final]

ReadFrame ==
  /\ Reading("frames") /\ reader.lines = <<>>
  /\ IF reader.index < Len(file.frames) /\ Authentic(file.frames[reader.index + 1])
       THEN LET frame == file.frames[reader.index + 1]
            IN reader' = [at |-> IF frame.final THEN "trailer" ELSE "frames",
                          index |-> reader.index + 1, lines |-> frame.records]
       ELSE ReaderGoes("corrupt")
  /\ UNCHANGED <<written_, file, damages, yielded>>

\* After the final frame: its records are passed on before the rest is looked at.
ReadTrailer ==
  /\ Reading("trailer")
  /\ ReaderGoes(IF reader.index = Len(file.frames) THEN "finish" ELSE "corrupt")
  /\ UNCHANGED <<written_, file, damages, yielded>>
-----------------------------------------------------------------------------
(* The reader: the gate, whose state is what it has accepted *)

CountOf(t) == Len(Of(t, yielded))
GateEnded == CountOf("end") > 0

InOrder(record) ==
  IF yielded = <<>> THEN record.t = "manifest" ELSE Follows(Last(yielded).t, record.t)

KnownApp(record) ==
  record.t = "transaction" => \E app \in ToSet(Of("app", yielded)) : app.app = record.app

CountsMatch(record) ==
  record.t = "end" =>
    \A t \in COUNTED_TYPES :
      record.counts[t] = CountOf(t) /\ yielded[1].counts[t] = CountOf(t)

Verdict(record) ==
  CASE GateEnded -> "corrupt"
    [] ~InOrder(record) \/ ~KnownApp(record) -> "invalid-record"
    [] ~CountsMatch(record) -> "corrupt"
    [] OTHER -> "ok"

ReadRecord ==
  /\ reader.lines # <<>> /\ reader.at \in {"frames", "trailer", "finish"}
  /\ LET record == Head(reader.lines)
     IN IF Verdict(record) = "ok"
          THEN /\ yielded' = Append(yielded, record)
               /\ reader' = [reader EXCEPT !.lines = Tail(@)]
          ELSE ReaderGoes(Verdict(record)) /\ UNCHANGED yielded
  /\ UNCHANGED <<written_, file, damages>>

FinishReading ==
  /\ Reading("finish") /\ reader.lines = <<>>
  /\ ReaderGoes(IF GateEnded THEN "done" ELSE "corrupt")
  /\ UNCHANGED <<written_, file, damages, yielded>>
-----------------------------------------------------------------------------
ExportNext ==
  \/ \E record \in Record : WriteRecord(record)
  \/ WriteChunk \/ Flush \/ BreakOff
  \/ \E header \in Header : ChangeHeader(header)
  \/ \E i \in DOMAIN file.frames :
       DropFrame(i) \/ RepeatFrame(i) \/ SwapFrames(i) \/ FlipFlag(i)
  \/ ReadHeader \/ ReadFrame \/ ReadTrailer \/ ReadRecord \/ FinishReading

ExportSpec == ExportInit /\ [][ExportNext]_exportVars
-----------------------------------------------------------------------------
\* The type invariant.
ExportTypeOK ==
  /\ {written, buffered, yielded, reader.lines} \subseteq Seq(Record)
  /\ writer \in {"open", "closed", "broken"} /\ damages \in 0 .. MaxDamages
  /\ file.header \in Header /\ reader.index \in 0 .. Len(file.frames)
  /\ reader.at \in {"header", "frames", "trailer", "finish", "done",
                    "not-an-export", "corrupt", "invalid-record"}

(* Whatever happens to the file on the way, the importer is given a prefix *)
(* of what the exporter wrote, so what it has stored when it stops at a    *)
(* damage is the exporter's; and a file it reads to the end without an     *)
(* error is the whole of a finished export.                                *)
ReadIsWritten ==
  /\ IsPrefix(yielded, written)
  /\ reader.at = "done" => writer = "closed" /\ yielded = written
=============================================================================
