----------------------------- MODULE CsvStream -----------------------------
(***************************************************************************)
(* A CSV export: the handler loads every matching object and returns; a    *)
(* goroutine then encodes one row at a time through a buffered csv.Writer  *)
(* into an io.Pipe, while the server copies the pipe's other end to the    *)
(* client (contrib/fiber/export.go, core/exporter.go).  The pipe is a      *)
(* rendezvous: a write returns when all of it has been read, or the read   *)
(* end is closed.  Data is counted in rows; the header is row 0.           *)
(***************************************************************************)
EXTENDS Naturals, Sequences, SequencesExt

CONSTANTS NRows,     \* how many objects match
          Capacity   \* how many rows the csv.Writer's buffer holds

ASSUME CsvAssumption == NRows \in Nat /\ Capacity \in Nat \ {0}

VARIABLES
  pc,        \* the step of the handler, then of its goroutine
  objects,   \* how many objects the export keeps in memory
  next,      \* the next row to encode
  buffer,    \* rows encoded and not yet flushed
  pending,   \* rows of the pipe write in progress, not yet read
  pipe,      \* the writer's end: "open", or how it was closed
  reading,   \* whether the pipe's read end is open
  client,    \* what the client knows of the download
  received   \* the rows it has

csvVars == <<pc, objects, next, buffer, pending, pipe, reading, client, received>>
-----------------------------------------------------------------------------
Writer == <<pc, objects, next, buffer>>
Reader == <<reading, client, received>>

\* handleExportCSV: the whole filtered set is loaded first.  A failed query
\* is an error answer, and no goroutine is started.
Query ==
  /\ pc = "query"
  /\ \/ /\ pc' = "ended" /\ UNCHANGED objects
        /\ client' = IF client = "loading" THEN "refused" ELSE client
     \/ pc' = "rows" /\ objects' = NRows /\ UNCHANGED client
  /\ UNCHANGED <<next, buffer, pending, pipe, reading, received>>

More == next <= NRows

\* writeRows: the header and each object's row go to the buffer while it
\* has room.
Encode ==
  /\ pc = "rows" /\ More /\ Len(buffer) < Capacity
  /\ buffer' = Append(buffer, next)
  /\ next' = next + 1
  /\ UNCHANGED <<pc, objects, pending, pipe, Reader>>

\* Wrong form of StartWrite, which ImplementsDownload refutes: the rows still
\* buffered at the end are never flushed.
StartWriteWhenFull ==
  /\ pc = "rows"
  /\ IF More THEN /\ Len(buffer) = Capacity
                  /\ pending' = buffer /\ buffer' = <<>> /\ pc' = "writing"
             ELSE pc' = "close" /\ UNCHANGED <<pending, buffer>>
  /\ UNCHANGED <<objects, next, pipe, Reader>>

\* A full buffer, and the final Flush, hand the buffer to the pipe; the
\* goroutine blocks until it is read.
StartWrite ==
  /\ pc = "rows"
  /\ More => Len(buffer) = Capacity
  /\ pending' = buffer /\ buffer' = <<>> /\ pc' = "writing"
  /\ UNCHANGED <<objects, next, pipe, Reader>>

\* Wrong form of Rest, which BufferIsBounded refutes: the goroutine goes on
\* encoding without waiting for the reader.
RestUnawaited == pc = "writing" /\ reading

\* All of the write was read.
Rest == pc = "writing" /\ reading /\ pending = <<>>

Written ==
  /\ Rest
  /\ pc' = IF More THEN "rows" ELSE "close"
  /\ UNCHANGED <<objects, next, buffer, pending, pipe, Reader>>

\* The read end was closed under the write: io.ErrClosedPipe.  writeRows
\* returns it, unless it is the last Flush, whose error nothing reads.
WriteFailed ==
  /\ pc = "writing" /\ ~reading
  /\ pending' = <<>>
  /\ pc' = IF More THEN "abort" ELSE "close"
  /\ UNCHANGED <<objects, next, buffer, pipe, Reader>>

\* CloseWithError: a nil error reads as the end of the file.
Close ==
  /\ pc \in {"close", "abort"}
  /\ pc' = "ended" /\ objects' = 0
  /\ pipe' = IF pc = "close" THEN "eof" ELSE "error"
  /\ UNCHANGED <<next, buffer, pending, Reader>>
-----------------------------------------------------------------------------
(* The server's copy loop, in fasthttp.                                    *)

\* Wrong form of Copy, which GoroutineEnds refutes: a failed send leaves the
\* read end open.
CopyUnclosed ==
  /\ reading /\ pending # <<>> /\ client = "loading"
  /\ received' = received \o pending /\ pending' = <<>>
  /\ UNCHANGED <<Writer, pipe, reading, client>>

\* Wrong form of Copy, which InOrder refutes: a partial read is not taken
\* off the write.
CopyAgain ==
  /\ reading /\ pending # <<>> /\ client = "loading"
  /\ \E k \in 1..Len(pending) :
       /\ received' = received \o SubSeq(pending, 1, k)
       /\ pending' = SubSeq(pending, k, Len(pending) - 1)
  /\ UNCHANGED <<Writer, pipe, reading, client>>

\* A read takes as much of the pending write as fits, and sends it on.  If
\* the client is gone the send fails, and the body stream is closed.
Copy ==
  /\ reading /\ pending # <<>>
  /\ \E k \in 1..Len(pending) :
       /\ pending' = SubSeq(pending, k + 1, Len(pending))
       /\ IF client = "loading"
          THEN received' = received \o SubSeq(pending, 1, k) /\ UNCHANGED reading
          ELSE reading' = FALSE /\ UNCHANGED received
  /\ UNCHANGED <<Writer, pipe, client>>

\* The end of the pipe ends the response: properly after an EOF, by
\* breaking the connection after an error.
Finish ==
  /\ reading /\ pending = <<>> /\ pipe # "open"
  /\ reading' = FALSE
  /\ client' = IF client = "loading" THEN IF pipe = "eof" THEN "complete" ELSE "broken" ELSE client
  /\ UNCHANGED <<Writer, pending, pipe, received>>

\* The user cancels the download, or the network does.
Leave ==
  /\ client = "loading"
  /\ client' = "gone"
  /\ UNCHANGED <<Writer, pending, pipe, reading, received>>

Goroutine == Query \/ Encode \/ StartWrite \/ Written \/ WriteFailed \/ Close
Server == Copy \/ Finish

CsvInit ==
  /\ pc = "query" /\ objects = 0 /\ next = 0
  /\ buffer = <<>> /\ pending = <<>> /\ pipe = "open"
  /\ reading = TRUE /\ client = "loading" /\ received = <<>>

CsvNext == Goroutine \/ Server \/ Leave

\* The runtime schedules the goroutine.  Fairness of the server assumes a
\* client that reads or goes away: one that stalls without closing its
\* connection holds Copy back, and no timeout of this code releases it.
CsvSpec == CsvInit /\ [][CsvNext]_csvVars /\ WF_csvVars(Goroutine) /\ WF_csvVars(Server)
-----------------------------------------------------------------------------
\* Every variable holds what the code can put there; rows are encoded in
\* order, none twice.
CsvTypeOK ==
  /\ pc \in {"query", "rows", "writing", "close", "abort", "ended"}
  /\ objects \in {0, NRows} /\ next \in 0..(NRows + 1)
  /\ buffer \in Seq(0..NRows) /\ pending \in Seq(0..NRows) /\ received \in Seq(0..NRows)
  /\ pipe \in {"open", "eof", "error"} /\ reading \in BOOLEAN
  /\ client \in {"loading", "complete", "broken", "gone", "refused"}

Export == [i \in 1..(NRows + 1) |-> i - 1]

\* A download that ends properly is the whole export, in order: a
\* truncated one is never passed off as complete.
CompleteMeansAll ==
  /\ IsPrefix(received, Export)
  /\ client = "complete" => received = Export

\* The goroutine, the pipe and the copy loop together are a Download: what
\* has arrived only grows, a refusal has sent nothing, only a whole file ends
\* properly, and nothing follows the end, also when the client leaves
\* half-way.
Promise == INSTANCE Download WITH Content <- Export
ImplementsDownload == Promise!Spec

\* Nothing is lost, repeated or reordered between the encoder and the
\* client while both are there.
InOrder ==
  reading /\ client = "loading" => received \o pending \o buffer = SubSeq(Export, 1, next)

\* However large the export, what is encoded and not yet sent stays within
\* one buffer: the encoder never runs ahead of the client.
BufferIsBounded == Len(buffer) + Len(pending) <= Capacity

\* The goroutine that outlives its handler ends, and lets go of the
\* objects, also when the client leaves half-way.
GoroutineEnds == <>[](pc = "ended" /\ objects = 0)
=============================================================================
