----------------------------- MODULE JsonlTrace -----------------------------
(***************************************************************************)
(* The event trace of one run, as JsonlEventStore keeps it: a file of      *)
(* lines that several processes append to and read, under flock.           *)
(*                                                                         *)
(* A line is the record of an event, and its form says what of it is in    *)
(* the file: "line" (whole), "noeol" (all but the newline, so it parses),  *)
(* "part" (a beginning that does not parse and has no newline) or          *)
(* "garbled" (bytes of several records in one line that ends).             *)
(*                                                                         *)
(* append writes through a buffered stream.  When the flush fails, the     *)
(* stream keeps the bytes that are not yet written, and closing it, which  *)
(* comes after the unlock, flushes them again.                             *)
(***************************************************************************)
EXTENDS Integers, Sequences, SequencesExt

CONSTANTS
  Writers,     \* processes that append
  Ids,         \* event ids
  MaxLen,      \* bound on the sequence numbers that are tried
  WriteErrors, \* whether write, flush and fsync may fail in a live process
  PowerFails   \* whether the machine may lose what was not synced

ASSUME TraceAssumption ==
  /\ "nobody" \notin Writers
  /\ MaxLen \in Nat
  /\ WriteErrors \in BOOLEAN /\ PowerFails \in BOOLEAN

Events == [id: Ids, sequence: 1..MaxLen]
Pieces == {"part", "noeol"}
Forms  == Pieces \cup {"line", "garbled"}
Lines  == [event: Events, form: Forms]
NoJob  == [id |-> "none", sequence |-> 0]

VARIABLES
  file,    \* the lines
  synced,  \* how many of them are known to be on the disk
  lock,    \* who holds the exclusive lock, or "nobody"
  pc,      \* where each writer is in append
  job,     \* the event it appends
  buffer,  \* what of it its stream still holds: "none", "all" or "rest"
  failed,  \* whether an exception is on its way out of append
  \* history, read by the properties only
  acked,   \* the events whose append returned
  seen     \* what the latest read returned

disk   == <<file, synced>>
writer == <<pc, job, buffer, failed>>
past   == <<acked, seen>>
vars   == <<file, synced, lock, pc, job, buffer, failed, acked, seen>>

Init ==
  /\ file = <<>> /\ synced = 0 /\ lock = "nobody"
  /\ pc = [w \in Writers |-> "idle"]
  /\ job = [w \in Writers |-> NoJob]
  /\ buffer = [w \in Writers |-> "none"]
  /\ failed = [w \in Writers |-> FALSE]
  /\ acked = {} /\ seen = <<>>

-----------------------------------------------------------------------------
(* Reading                                                                 *)

Parses(line) == line.form \in {"line", "noeol"}

\* validate_append: the sequence is contiguous and starts at 1, ids are fresh.
Follows(events, e) ==
  /\ e.sequence = Len(events) + 1
  /\ \A i \in 1..Len(events) : events[i].id # e.id

EventsOf(lines) == [i \in 1..Len(lines) |-> lines[i].event]

\* _read_lines raises: an unreadable line before the last, or one that does not
\* follow.
Corrupt ==
  \E i \in 1..Len(file) :
    IF Parses(file[i]) THEN ~Follows(EventsOf(SubSeq(file, 1, i - 1)), file[i].event)
                       ELSE i < Len(file)

\* _read_lines warns of the last line.
Warning == file # <<>> /\ Last(file).form # "line"

\* The events it returns.
Readable ==
  EventsOf(IF file = <<>> \/ Parses(Last(file)) THEN file ELSE Front(file))

\* read, under the shared lock.
Read ==
  /\ lock = "nobody"
  /\ ~Corrupt
  /\ seen' = Readable
  /\ UNCHANGED <<disk, lock, writer, acked>>

-----------------------------------------------------------------------------
(* Appending                                                               *)

Goto(w, label) == pc' = [pc EXCEPT ![w] = label]

\* The call is over, and its stream is gone.
Leave(w) ==
  /\ Goto(w, "idle")
  /\ job' = [job EXCEPT ![w] = NoJob]
  /\ buffer' = [buffer EXCEPT ![w] = "none"]
  /\ failed' = [failed EXCEPT ![w] = FALSE]

\* A mutant: opening the file empties it.
MutOpenTruncates(w) ==
  /\ pc[w] = "idle"
  /\ \E e \in Events :
       /\ \A v \in Writers : job[v].id # e.id
       /\ job' = [job EXCEPT ![w] = e]
  /\ Goto(w, "open")
  /\ file' = <<>>
  /\ UNCHANGED <<synced, lock, buffer, failed, past>>

\* Ids are fresh UUIDs, so two writers never have the same one in hand; the
\* sequence number is the caller's, and may be stale.
BeginAppend(w) ==
  /\ pc[w] = "idle"
  /\ \E e \in Events :
       /\ \A v \in Writers : job[v].id # e.id
       /\ job' = [job EXCEPT ![w] = e]
  /\ Goto(w, "open")
  /\ UNCHANGED <<disk, lock, buffer, failed, past>>

Appendable(e) == ~Corrupt /\ ~Warning /\ Follows(Readable, e)

\* A mutant: the check does not wait for another writer.
MutCheckUnlocked(w) ==
  /\ pc[w] = "open"
  /\ IF Appendable(job[w])
     THEN Goto(w, "write") /\ UNCHANGED failed
     ELSE Goto(w, "unlock") /\ failed' = [failed EXCEPT ![w] = TRUE]
  /\ UNCHANGED <<disk, lock, job, buffer, past>>

\* flock, and then the trace is read and the event validated.
LockAndCheck(w) ==
  /\ pc[w] = "open"
  /\ lock = "nobody"
  /\ lock' = w
  /\ IF Appendable(job[w])
     THEN Goto(w, "write") /\ UNCHANGED failed
     ELSE Goto(w, "unlock") /\ failed' = [failed EXCEPT ![w] = TRUE]
  /\ UNCHANGED <<disk, job, buffer, past>>

EndsOpen == file # <<>> /\ Last(file).form \in Pieces

\* The file after bytes of e are appended, up to the given form, when the file
\* already has none of them, or a beginning (resuming).
Appended(e, form, resuming) ==
  LET unreadable == [event |-> e, form |-> IF form = "line" THEN "garbled" ELSE "part"]
  IN CASE resuming /\ EndsOpen /\ Last(file).event = e ->
            Append(Front(file), [event |-> e, form |-> form])
       [] ~resuming /\ ~EndsOpen -> Append(file, [event |-> e, form |-> form])
       [] resuming /\ ~EndsOpen -> Append(file, unreadable)
       [] OTHER -> Append(Front(file), unreadable)

\* A mutant: the file is opened for writing from its start.
MutWriteTruncates(w) ==
  /\ pc[w] = "write"
  /\ file' = <<[event |-> job[w], form |-> "line"]>>
  /\ Goto(w, "sync")
  /\ UNCHANGED <<synced, lock, job, buffer, failed, past>>

Write(w) ==
  /\ pc[w] = "write"
  /\ file' = Appended(job[w], "line", FALSE)
  /\ Goto(w, "sync")
  /\ UNCHANGED <<synced, lock, job, buffer, failed, past>>

\* The flush writes nothing, or a part, and raises.
WriteFails(w) ==
  /\ WriteErrors
  /\ pc[w] = "write"
  /\ \/ buffer' = [buffer EXCEPT ![w] = "all"] /\ UNCHANGED file
     \/ /\ buffer' = [buffer EXCEPT ![w] = "rest"]
        /\ \E form \in Pieces : file' = Appended(job[w], form, FALSE)
  /\ failed' = [failed EXCEPT ![w] = TRUE]
  /\ Goto(w, "unlock")
  /\ UNCHANGED <<synced, lock, job, past>>

\* A mutant: append returns without an fsync.
MutSyncSkipped(w) ==
  /\ pc[w] = "sync"
  /\ Goto(w, "unlock")
  /\ UNCHANGED <<disk, lock, job, buffer, failed, past>>

Sync(w) ==
  /\ pc[w] = "sync"
  /\ synced' = Len(file)
  /\ Goto(w, "unlock")
  /\ UNCHANGED <<file, lock, job, buffer, failed, past>>

SyncFails(w) ==
  /\ WriteErrors
  /\ pc[w] = "sync"
  /\ failed' = [failed EXCEPT ![w] = TRUE]
  /\ Goto(w, "unlock")
  /\ UNCHANGED <<disk, lock, job, buffer, past>>

\* A mutant: an exception leaves the lock held.
MutUnlockOnSuccess(w) ==
  /\ pc[w] = "unlock"
  /\ lock' = IF failed[w] THEN lock ELSE "nobody"
  /\ Goto(w, "close")
  /\ UNCHANGED <<disk, job, buffer, failed, past>>

\* The finally clause of _open.
Unlock(w) ==
  /\ pc[w] = "unlock"
  /\ lock' = "nobody"
  /\ Goto(w, "close")
  /\ UNCHANGED <<disk, job, buffer, failed, past>>

\* append returns, or raises what was on its way.
Close(w) ==
  /\ pc[w] = "close"
  /\ buffer[w] = "none"
  /\ acked' = IF failed[w] THEN acked ELSE acked \cup {job[w]}
  /\ Leave(w)
  /\ UNCHANGED <<disk, lock, seen>>

\* Closing the stream flushes what the failed flush left, without the lock;
\* it may fail again, and append raises in any case.
CloseFlushes(w) ==
  /\ pc[w] = "close"
  /\ buffer[w] # "none"
  /\ \/ UNCHANGED file
     \/ \E form \in Pieces \cup {"line"} :
          /\ form = "part" => ~(EndsOpen /\ Last(file) = [event |-> job[w], form |-> "noeol"])
          /\ file' = Appended(job[w], form, buffer[w] = "rest")
  /\ Leave(w)
  /\ UNCHANGED <<synced, lock, past>>

-----------------------------------------------------------------------------
(* Faults                                                                  *)

\* A writer dies; the kernel drops its lock, and its buffer is gone.
Stop(w) ==
  /\ pc[w] # "idle"
  /\ lock' = IF lock = w THEN "nobody" ELSE lock
  /\ Leave(w)
  /\ UNCHANGED <<disk, past>>

\* It dies in the middle of a write.
StopDuringWrite(w) ==
  /\ pc[w] = "write"
  /\ \E form \in Pieces : file' = Appended(job[w], form, FALSE)
  /\ lock' = "nobody"
  /\ Leave(w)
  /\ UNCHANGED <<synced, past>>

\* The file is cut anywhere after what was synced.
PowerFailure ==
  /\ PowerFails
  /\ \E k \in synced..Len(file) :
       /\ \/ file' = SubSeq(file, 1, k)
          \/ /\ k < Len(file)
             /\ \E form \in Pieces :
                  /\ form = "noeol" => Parses(file[k + 1])
                  /\ file' = Append(SubSeq(file, 1, k), [file[k + 1] EXCEPT !.form = form])
  /\ synced' = Len(Readable')
  /\ lock' = "nobody"
  /\ pc' = [w \in Writers |-> "idle"]
  /\ job' = [w \in Writers |-> NoJob]
  /\ buffer' = [w \in Writers |-> "none"]
  /\ failed' = [w \in Writers |-> FALSE]
  /\ UNCHANGED past

Work(w) ==
  \/ LockAndCheck(w) \/ Write(w) \/ WriteFails(w) \/ Sync(w) \/ SyncFails(w)
  \/ Unlock(w) \/ Close(w) \/ CloseFlushes(w)

Next ==
  \/ \E w \in Writers : BeginAppend(w) \/ Work(w) \/ Stop(w) \/ StopDuringWrite(w)
  \/ Read
  \/ PowerFailure

Spec == Init /\ [][Next]_vars

\* A process that runs goes on, and the kernel serves whoever waits for a lock
\* that is free again and again.
FairSpec ==
  /\ Spec
  /\ \A w \in Writers : WF_vars(Work(w)) /\ SF_vars(LockAndCheck(w))

-----------------------------------------------------------------------------
(* Properties                                                              *)

TypeOK ==
  /\ file \in Seq(Lines) /\ synced \in 0..Len(file)
  /\ lock \in Writers \cup {"nobody"}
  /\ pc \in [Writers -> {"idle", "open", "write", "sync", "unlock", "close"}]
  /\ job \in [Writers -> Events \cup {NoJob}]
  /\ buffer \in [Writers -> {"none", "all", "rest"}]
  /\ failed \in [Writers -> BOOLEAN]
  /\ acked \subseteq Events /\ seen \in Seq(Events)

\* "Readers tolerate only a corrupt final record": whatever processes and the
\* machine do, this is all the damage there is, so the trace can be read.
AlwaysReadable == ~Corrupt

\* test_two_writers_cannot_append_the_same_sequence: no sequence number stands
\* in two lines.
OneLinePerSequence ==
  \A i, j \in 1..Len(file) :
    Parses(file[i]) /\ Parses(file[j]) /\ file[i].event.sequence = file[j].event.sequence
      => i = j

\* "stream.flush, os.fsync": an event whose append returned is in every later
\* read, at its place, through any crash and power failure.
AcknowledgedStays ==
  \A e \in acked : e.sequence <= Len(Readable) /\ Readable[e.sequence] = e

\* test_jsonl_appends_without_rewriting_existing_bytes: unless the power fails,
\* what one read returned is the beginning of what every later one returns.
SeenStays == ~PowerFails => IsPrefix(seen, Readable)

Abstract == INSTANCE AppendOnlyTrace WITH
  trace <- Readable, torn <- Warning, stable <- synced

\* The file of lines is an append-only trace.
ImplementsTrace == Abstract!Spec

\* An append returns or raises; its lock does not stay behind.
AppendReturns == \A w \in Writers : pc[w] = "open" ~> pc[w] = "idle"

=============================================================================
