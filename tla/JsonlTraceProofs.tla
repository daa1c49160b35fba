-------------------------- MODULE JsonlTraceProofs --------------------------
(***************************************************************************)
(* For any number of writers that may die anywhere, whose writes may fail, *)
(* and a machine whose power may fail: the file of lines is an append-only *)
(* trace, and what was acknowledged or read stays, as long as no writer    *)
(* writes while the stream of another, whose flush failed, still holds a   *)
(* whole record (Calm).  Closing that stream flushes the record without    *)
(* the lock and without a new check; nothing else can do harm.             *)
(***************************************************************************)
EXTENDS JsonlTrace, SequenceTheorems, TLAPS

\* No writer writes while another's stream still holds a record that its flush
\* could not write.
Calm == \A v, w \in Writers : v # w /\ buffer[w] = "all" => pc[v] # "write"

-----------------------------------------------------------------------------
(* The inductive invariant                                                 *)

\* Every line but the last is whole, each is at its sequence number, and no id
\* comes twice.
Sound(f) ==
  /\ \A i \in 1..Len(f) :
       /\ f[i].event.sequence = i
       /\ f[i].form # "garbled"
       /\ i < Len(f) => f[i].form = "line"
  /\ \A i, j \in 1..Len(f) : f[i].event.id = f[j].event.id => i = j

\* e would be the next line.
Fresh(e) ==
  /\ e \in Events
  /\ e.sequence = Len(file) + 1
  /\ \A i \in 1..Len(file) : file[i].form = "line" /\ file[i].event.id # e.id

\* e is on the disk, at its place.
Held(e) == e.sequence \in 1..synced /\ file[e.sequence].event = e

SyncedInv == \A i \in 1..synced : Parses(file[i])

LockInv == \A w \in Writers : pc[w] \in {"write", "sync", "unlock"} => lock = w

\* The writer's event is the last line, and something of it is missing.
Begun(e) ==
  /\ file # <<>>
  /\ e.sequence = Len(file)
  /\ file[Len(file)].event = e
  /\ file[Len(file)].form \in Pieces

WriterInv ==
  \A w \in Writers :
    /\ buffer[w] # "none" => WriteErrors /\ failed[w] /\ pc[w] \in {"unlock", "close"}
    /\ pc[w] = "write" \/ buffer[w] = "all" => Fresh(job[w])
    /\ buffer[w] = "rest" => Begun(job[w])
    /\ pc[w] = "sync" =>
         /\ job[w].sequence = Len(file)
         /\ file # <<>>
         /\ file[Len(file)] = [event |-> job[w], form |-> "line"]
    /\ pc[w] \in {"unlock", "close"} /\ ~failed[w] => Held(job[w])
    /\ pc[w] # "idle" => job[w] \in Events

AckedInv == \A e \in acked : Held(e)

\* After a failed flush no other stream holds anything, and no other writer has
\* written since when nothing of the record is in the file.
LoneInv ==
  \A v, w \in Writers :
    v # w /\ buffer[w] # "none" =>
      buffer[v] = "none" /\ (buffer[w] = "all" => pc[v] # "sync")

\* What a read returned is still there, unless the power failed.
SeenInv ==
  ~PowerFails => /\ Len(seen) <= Len(Readable)
                 /\ \A i \in 1..Len(seen) : seen[i] = Readable[i]

IInv ==
  /\ TypeOK
  /\ Sound(file) /\ SyncedInv /\ LockInv /\ WriterInv
  /\ LoneInv /\ AckedInv /\ SeenInv

-----------------------------------------------------------------------------
(* What a sound file gives to a reader                                     *)

\* The last element of a sequence, and what comes before it.
LEMMA Ends ==
  ASSUME NEW S, NEW s \in Seq(S), s # <<>>
  PROVE  /\ Len(s) \in Nat \ {0} /\ Last(s) = s[Len(s)] /\ Last(s) \in S
         /\ Front(s) \in Seq(S) /\ Len(Front(s)) = Len(s) - 1
         /\ \A i \in 1..(Len(s) - 1) : Front(s)[i] = s[i]
<1>1. Len(s) \in Nat \ {0}
  OBVIOUS
<1>2. Last(s) = s[Len(s)] /\ Last(s) \in S
  BY <1>1 DEF Last
<1>3. Front(s) = SubSeq(s, 1, Len(s) - 1)
  BY DEF Front
<1>4. Front(s) \in Seq(S) /\ Len(Front(s)) = Len(s) - 1
      /\ \A i \in 1..(Len(s) - 1) : Front(s)[i] = s[i]
  <2>1. PICK n \in Nat : n = Len(s) - 1
    BY <1>1
  <2>2. 1 \in Int /\ n \in Int /\ \A i \in 1..n : s[i] \in S
    BY <1>1, <2>1
  <2>3. /\ SubSeq(s, 1, n) \in Seq(S)
        /\ Len(SubSeq(s, 1, n)) = IF 1 <= n THEN n - 1 + 1 ELSE 0
        /\ \A i \in 1..(n - 1 + 1) : SubSeq(s, 1, n)[i] = s[1 + i - 1]
    BY ONLY <2>2, SubSeqProperties
  <2>4. Len(SubSeq(s, 1, n)) = n /\ \A i \in 1..n : SubSeq(s, 1, n)[i] = s[i]
    BY <2>3
  <2> QED BY <1>3, <2>1, <2>3, <2>4
<1> QED BY <1>1, <1>2, <1>4

ReadFacts ==
  /\ ~Corrupt
  /\ Readable \in Seq(Events)
  /\ Len(Readable) = IF file # <<>> /\ file[Len(file)].form = "part"
                     THEN Len(file) - 1 ELSE Len(file)
  /\ \A i \in 1..Len(Readable) : Readable[i] = file[i].event
  /\ Warning <=> file # <<>> /\ file[Len(file)].form # "line"

-----------------------------------------------------------------------------
(* Types                                                                   *)

\* The events of lines are as many as the lines.
LEMMA EventsOfLines ==
  ASSUME NEW s \in Seq(Lines)
  PROVE  EventsOf(s) \in Seq(Events) /\ Len(EventsOf(s)) = Len(s)
<1>1. \A i \in 1..Len(s) : s[i] \in Lines
  OBVIOUS
<1>2. \A i \in 1..Len(s) : s[i].event \in Events
  BY <1>1 DEF Lines
<1> QED BY <1>2 DEF EventsOf

\* A reader is given events, at most one for each line.
LEMMA ReadableTypes ==
  file \in Seq(Lines) => Readable \in Seq(Events) /\ Len(Readable) \in 0..Len(file)
<1> SUFFICES ASSUME file \in Seq(Lines)
             PROVE  Readable \in Seq(Events) /\ Len(Readable) \in 0..Len(file)
  OBVIOUS
<1>1. CASE file = <<>> \/ Parses(Last(file))
  <2>1. Readable = EventsOf(file)
    BY <1>1 DEF Readable
  <2> QED BY <2>1, EventsOfLines
<1>2. CASE ~(file = <<>> \/ Parses(Last(file)))
  <2>1. Readable = EventsOf(Front(file))
    BY <1>2 DEF Readable
  <2>2. Len(file) \in Nat \ {0} /\ Front(file) \in Seq(Lines) /\ Len(Front(file)) = Len(file) - 1
    BY <1>2, Ends
  <2>3. Readable \in Seq(Events) /\ Len(Readable) = Len(file) - 1
    BY <2>1, <2>2, EventsOfLines
  <2> QED BY <2>2, <2>3
<1> QED BY <1>1, <1>2

\* ReadableTypes in the next state.
LEMMA ReadableTypesNext ==
  file' \in Seq(Lines) => Readable' \in Seq(Events) /\ Len(Readable') \in 0..Len(file')
<1>1. (file \in Seq(Lines) => Readable \in Seq(Events) /\ Len(Readable) \in 0..Len(file))'
  BY ReadableTypes, PTL
<1> QED BY <1>1

\* Whatever is appended to whatever file, no line is lost.
LEMMA AppendedLines ==
  ASSUME file \in Seq(Lines), NEW e \in Events, NEW form \in Pieces \cup {"line"},
         NEW resuming \in BOOLEAN
  PROVE  /\ Appended(e, form, resuming) \in Seq(Lines)
         /\ Len(file) <= Len(Appended(e, form, resuming))
<1> DEFINE whole == [event |-> e, form |-> form]
           unreadable == [event |-> e, form |-> IF form = "line" THEN "garbled" ELSE "part"]
<1>1. whole \in Lines /\ unreadable \in Lines
  BY DEF Lines, Forms, Pieces
<1>2. \/ Appended(e, form, resuming) = Append(file, whole)
      \/ Appended(e, form, resuming) = Append(file, unreadable)
      \/ EndsOpen /\ Appended(e, form, resuming) = Append(Front(file), whole)
      \/ EndsOpen /\ Appended(e, form, resuming) = Append(Front(file), unreadable)
  BY DEF Appended
<1> HIDE DEF whole, unreadable
<1>3. \A x \in Lines : Append(file, x) \in Seq(Lines) /\ Len(Append(file, x)) = Len(file) + 1
  BY AppendProperties
<1>4. ASSUME EndsOpen, NEW x \in Lines
      PROVE  Append(Front(file), x) \in Seq(Lines) /\ Len(Append(Front(file), x)) = Len(file)
  <2>1. /\ Len(file) \in Nat \ {0}
        /\ Front(file) \in Seq(Lines) /\ Len(Front(file)) = Len(file) - 1
    BY <1>4, Ends DEF EndsOpen
  <2> QED BY <2>1, AppendProperties
<1>5. Len(file) \in Nat
  OBVIOUS
<1> QED BY <1>1, <1>2, <1>3, <1>4, <1>5

TypeInv == TypeOK /\ \A w \in Writers : pc[w] # "idle" => job[w] \in Events

\* The steps of a writer that leave the lines alone keep the types.
LEMMA WriterTypes ==
  ASSUME TypeInv, NEW w \in Writers,
         \/ BeginAppend(w) \/ LockAndCheck(w) \/ Unlock(w) \/ Close(w) \/ Stop(w)
         \/ Sync(w) \/ SyncFails(w)
  PROVE  TypeInv'
<1> file \in Seq(Lines) /\ synced \in 0..Len(file) /\ Len(file) \in Nat
  BY DEF TypeInv, TypeOK
<1> USE DEF TypeInv, TypeOK, disk, past, Goto, Leave
<1>1. CASE BeginAppend(w)
  BY <1>1 DEF BeginAppend
<1>2. CASE LockAndCheck(w)
  BY <1>2 DEF LockAndCheck
<1>3. CASE Unlock(w)
  BY <1>3 DEF Unlock
<1>4. CASE Close(w)
  BY <1>4 DEF Close
<1>5. CASE Stop(w)
  BY <1>5 DEF Stop
<1>6. CASE Sync(w)
  BY <1>6 DEF Sync
<1>7. CASE SyncFails(w)
  BY <1>7 DEF SyncFails
<1> QED BY <1>1, <1>2, <1>3, <1>4, <1>5, <1>6, <1>7

\* A writer that changes the file, or tries to.
LEMMA FileTypes ==
  ASSUME TypeInv, NEW w \in Writers,
         Write(w) \/ WriteFails(w) \/ CloseFlushes(w) \/ StopDuringWrite(w)
  PROVE  TypeInv'
<1>1. pc[w] # "idle" /\ synced' = synced
  BY DEF Write, WriteFails, CloseFlushes, StopDuringWrite
<1>2. \/ file' = file
      \/ \E form \in Pieces \cup {"line"}, resuming \in BOOLEAN :
            file' = Appended(job[w], form, resuming)
  BY DEF Write, WriteFails, CloseFlushes, StopDuringWrite
<1>3. file' \in Seq(Lines) /\ synced' \in 0..Len(file')
  <2>1. file \in Seq(Lines) /\ synced \in 0..Len(file) /\ job[w] \in Events
    BY <1>1 DEF TypeInv, TypeOK
  <2>2. CASE file' = file
    BY <1>1, <2>1, <2>2
  <2>3. ASSUME NEW form \in Pieces \cup {"line"}, NEW resuming \in BOOLEAN,
               file' = Appended(job[w], form, resuming)
        PROVE  file' \in Seq(Lines) /\ synced' \in 0..Len(file')
    <3>1. file' \in Seq(Lines) /\ Len(file) <= Len(file')
      BY <2>1, <2>3, AppendedLines
    <3>2. Len(file) \in Nat /\ Len(file') \in Nat
      BY <2>1, <3>1
    <3> QED BY <1>1, <2>1, <3>1, <3>2
  <2> QED BY <1>2, <2>2, <2>3
<1> HIDE <1>2
<1> USE <1>3 DEF TypeInv, TypeOK, past, Goto, Leave
<1>4. CASE Write(w)
  BY <1>4 DEF Write
<1>5. CASE WriteFails(w)
  BY <1>5 DEF WriteFails
<1>6. CASE CloseFlushes(w)
  BY <1>6 DEF CloseFlushes
<1>7. CASE StopDuringWrite(w)
  BY <1>7 DEF StopDuringWrite
<1> QED BY <1>4, <1>5, <1>6, <1>7

\* What a power failure leaves are lines.
LEMMA CutTypes ==
  ASSUME TypeInv, PowerFailure PROVE TypeInv'
<1>1. file \in Seq(Lines) /\ synced \in 0..Len(file) /\ Len(file) \in Nat
      /\ \A i \in 1..Len(file) : file[i] \in Lines
  BY DEF TypeInv, TypeOK
<1>2. PICK k \in synced..Len(file) :
        \/ file' = SubSeq(file, 1, k)
        \/ /\ k < Len(file)
           /\ \E form \in Pieces :
                file' = Append(SubSeq(file, 1, k), [file[k + 1] EXCEPT !.form = form])
  BY DEF PowerFailure
<1>3. SubSeq(file, 1, k) \in Seq(Lines)
  BY <1>1
<1>4. file' \in Seq(Lines)
  <2>1. CASE file' = SubSeq(file, 1, k)
    BY <1>3, <2>1
  <2>2. ASSUME NEW form \in Pieces, k < Len(file),
               file' = Append(SubSeq(file, 1, k), [file[k + 1] EXCEPT !.form = form])
        PROVE  file' \in Seq(Lines)
    <3>1. file[k + 1] \in Lines
      BY <1>1, <2>2
    <3>2. [file[k + 1] EXCEPT !.form = form] \in Lines
      BY <3>1 DEF Lines, Forms
    <3> QED BY <1>3, <2>2, <3>2, AppendProperties
  <2> QED BY <1>2, <2>1, <2>2
<1>5. synced' \in 0..Len(file')
  BY <1>4, ReadableTypesNext DEF PowerFailure
<1> QED BY <1>4, <1>5 DEF TypeInv, TypeOK, PowerFailure, past

\* Every step keeps the types.
LEMMA NextTypes == TypeInv /\ [Next]_vars => TypeInv'
<1> SUFFICES ASSUME TypeInv, [Next]_vars PROVE TypeInv'
  OBVIOUS
<1>1. ASSUME NEW w \in Writers, BeginAppend(w) \/ Work(w) \/ Stop(w) \/ StopDuringWrite(w)
      PROVE  TypeInv'
  BY <1>1, WriterTypes, FileTypes DEF Work
<1>2. CASE Read
  <2>1. seen' \in Seq(Events)
    BY <1>2, ReadableTypes DEF Read, TypeInv, TypeOK
  <2> QED BY <1>2, <2>1 DEF Read, disk, writer, TypeInv, TypeOK
<1>3. CASE PowerFailure
  BY <1>3, CutTypes
<1>4. CASE UNCHANGED vars
  BY <1>4 DEF vars, TypeInv, TypeOK
<1> QED BY <1>1, <1>2, <1>3, <1>4 DEF Next

\* The types hold at the start.
LEMMA InitTypes == Init => TypeInv
BY TraceAssumption DEF Init, TypeInv, TypeOK, NoJob

\* Only the last line can be missing from what a reader gets.
LEMMA SoundRead == file \in Seq(Lines) /\ Sound(file) => ReadFacts
<1> SUFFICES ASSUME file \in Seq(Lines), Sound(file) PROVE ReadFacts
  OBVIOUS
<1> USE DEF ReadFacts
<1>1. file # <<>> =>
        /\ Len(file) \in Nat \ {0} /\ Last(file) = file[Len(file)] /\ Last(file) \in Lines
        /\ Front(file) \in Seq(Lines) /\ Len(Front(file)) = Len(file) - 1
        /\ \A i \in 1..(Len(file) - 1) : Front(file)[i] = file[i]
  BY Ends
<1>2. \A i \in 1..Len(file) : file[i] \in Lines /\ file[i].event \in Events
  <2>1. \A i \in 1..Len(file) : file[i] \in Lines
    OBVIOUS
  <2> QED BY <2>1 DEF Lines
<1>3. ~Corrupt
  <2> SUFFICES ASSUME NEW i \in 1..Len(file), Parses(file[i])
               PROVE  Follows(EventsOf(SubSeq(file, 1, i - 1)), file[i].event)
    BY DEF Corrupt, Sound, Parses, Pieces, Forms, Lines
  <2>1. SubSeq(file, 1, i - 1) \in Seq(Lines) /\ Len(SubSeq(file, 1, i - 1)) = i - 1
        /\ \A j \in 1..(i - 1) : SubSeq(file, 1, i - 1)[j] = file[j]
    OBVIOUS
  <2>2. Len(EventsOf(SubSeq(file, 1, i - 1))) = i - 1
        /\ \A j \in 1..(i - 1) : EventsOf(SubSeq(file, 1, i - 1))[j] = file[j].event
    BY <2>1 DEF EventsOf
  <2> QED BY <2>2 DEF Follows, Sound
<1>4. CASE file = <<>> \/ Parses(Last(file))
  <2>1. Readable = [i \in 1..Len(file) |-> file[i].event]
    BY <1>4 DEF Readable, EventsOf
  <2>2. Readable \in Seq(Events) /\ Len(Readable) = Len(file)
    BY <2>1, <1>2
  <2> QED BY <2>1, <2>2, <1>1, <1>3, <1>4 DEF Warning, Parses
<1>5. CASE ~(file = <<>> \/ Parses(Last(file)))
  <2>1. Readable = [i \in 1..Len(Front(file)) |-> Front(file)[i].event]
    BY <1>5 DEF Readable, EventsOf
  <2>2. Readable \in Seq(Events) /\ Len(Readable) = Len(file) - 1
        /\ \A i \in 1..(Len(file) - 1) : Readable[i] = file[i].event
    BY <2>1, <1>1, <1>2, <1>5
  <2>3. Last(file).form = "part"
    BY <1>1, <1>5 DEF Parses, Sound, Lines, Forms, Pieces
  <2> QED BY <2>2, <2>3, <1>1, <1>3, <1>5 DEF Warning
<1> QED BY <1>4, <1>5

\* SoundRead in the next state.
LEMMA SoundReadNext == file' \in Seq(Lines) /\ Sound(file)' => ReadFacts'
<1>1. (file \in Seq(Lines) /\ Sound(file) => ReadFacts)'
  BY SoundRead, PTL
<1> QED BY <1>1

-----------------------------------------------------------------------------
(* The invariant is inductive                                              *)

\* The invariant holds at the start.
LEMMA InitInv == Init => IInv
<1> SUFFICES ASSUME Init PROVE IInv
  OBVIOUS
<1>1. TypeOK
  BY InitTypes DEF TypeInv
<1>2. Sound(file) /\ SyncedInv /\ LockInv /\ WriterInv /\ LoneInv /\ AckedInv
  BY DEF Init, Sound, SyncedInv, LockInv, WriterInv, LoneInv, AckedInv, NoJob
<1>3. SeenInv
  <2>1. Readable \in Seq(Events)
    BY <1>1, ReadableTypes DEF TypeOK
  <2>2. seen = <<>>
    BY DEF Init
  <2> QED BY <2>1, <2>2 DEF SeenInv
<1> QED BY <1>1, <1>2, <1>3 DEF IInv

\* An event that follows is recorded: the lines before it stand.
LEMMA AppendLine ==
  ASSUME IInv, NEW e, Fresh(e), NEW form \in Pieces \cup {"line"},
         file' = Append(file, [event |-> e, form |-> form])
  PROVE  /\ file' \in Seq(Lines) /\ Len(file') = Len(file) + 1
         /\ file'[Len(file) + 1] = [event |-> e, form |-> form]
         /\ \A i \in 1..Len(file) : file'[i] = file[i]
         /\ Sound(file)'
<1>1. file \in Seq(Lines) /\ [event |-> e, form |-> form] \in Lines
  BY DEF IInv, TypeOK, Fresh, Lines, Forms, Pieces
<1>2. /\ file' \in Seq(Lines) /\ Len(file') = Len(file) + 1 /\ Len(file) \in Nat
      /\ file'[Len(file) + 1] = [event |-> e, form |-> form]
      /\ \A i \in 1..Len(file) : file'[i] = file[i]
  BY <1>1, AppendProperties
<1>3. ASSUME NEW i \in 1..Len(file')
      PROVE  /\ file'[i].event.sequence = i
             /\ file'[i].form # "garbled"
             /\ i < Len(file') => file'[i].form = "line"
  BY <1>2 DEF Fresh, IInv, Sound, Pieces
<1>4. ASSUME NEW i \in 1..Len(file'), NEW j \in 1..Len(file'),
             file'[i].event.id = file'[j].event.id
      PROVE  i = j
  BY <1>2, <1>4 DEF Fresh, IInv, Sound
<1> QED BY <1>2, <1>3, <1>4 DEF Sound

\* A write that follows adds to no other line.
LEMMA AppendedFresh ==
  ASSUME IInv, NEW e, Fresh(e), NEW form
  PROVE  Appended(e, form, FALSE) = Append(file, [event |-> e, form |-> form])
<1>1. ~EndsOpen
  <2> SUFFICES ASSUME file # <<>> PROVE Last(file).form = "line"
    BY DEF EndsOpen, Pieces
  <2>1. file \in Seq(Lines)
    BY DEF IInv, TypeOK
  <2>2. Len(file) \in Nat \ {0} /\ Last(file) = file[Len(file)]
    BY <2>1, Ends
  <2> QED BY <2>2 DEF Fresh
<1> QED BY <1>1 DEF Appended

\* What the writer's check allows to follow.
LEMMA AppendableFresh ==
  ASSUME IInv, NEW e \in Events, Appendable(e) PROVE Fresh(e)
<1>1. file \in Seq(Lines) /\ Sound(file)
  BY DEF IInv, TypeOK
<1>2. Len(Readable) = Len(file) /\ \A i \in 1..Len(file) : Readable[i] = file[i].event
  BY <1>1, SoundRead DEF Appendable, ReadFacts
<1>3. \A i \in 1..Len(file) : file[i].form = "line"
  <2>1. file # <<>> => file[Len(file)].form = "line"
    BY <1>1, SoundRead DEF Appendable, ReadFacts
  <2>2. Len(file) \in Nat /\ (file = <<>> => Len(file) = 0)
    BY <1>1
  <2> QED BY <2>1, <2>2, <1>1 DEF Sound
<1> QED BY <1>2, <1>3 DEF Appendable, Follows, Fresh

\* A power failure keeps what was synced, and lets nothing be added.
LEMMA CutFile ==
  ASSUME IInv, PowerFailure
  PROVE  /\ file' \in Seq(Lines) /\ Sound(file)'
         /\ synced' = Len(Readable)' /\ synced' \in synced..Len(file')
         /\ \A i \in 1..synced' : Parses(file[i])' /\ Parses(file[i])
                                      /\ file'[i].event = file[i].event
         /\ Len(file') <= Len(file)
<1>1. /\ file \in Seq(Lines) /\ Sound(file) /\ SyncedInv
      /\ synced \in 0..Len(file) /\ Len(file) \in Nat
      /\ \A i \in 1..Len(file) : file[i] \in Lines
  BY DEF IInv, TypeOK
<1>2. PICK k \in synced..Len(file) :
        \/ file' = SubSeq(file, 1, k)
        \/ /\ k < Len(file)
           /\ \E form \in Pieces :
                /\ form = "noeol" => Parses(file[k + 1])
                /\ file' = Append(SubSeq(file, 1, k), [file[k + 1] EXCEPT !.form = form])
  BY DEF PowerFailure
<1>3. synced' = Len(Readable)'
  BY DEF PowerFailure
<1>4. /\ SubSeq(file, 1, k) \in Seq(Lines) /\ Len(SubSeq(file, 1, k)) = k
      /\ \A i \in 1..k : SubSeq(file, 1, k)[i] = file[i]
  <2>1. \A i \in 1..k : file[i] \in Lines
    BY <1>1
  <2>2. 1 \in Int /\ k \in Int /\ k \in Nat
    BY <1>1
  <2>3. /\ SubSeq(file, 1, k) \in Seq(Lines)
        /\ Len(SubSeq(file, 1, k)) = IF 1 <= k THEN k - 1 + 1 ELSE 0
        /\ \A i \in 1..(k - 1 + 1) : SubSeq(file, 1, k)[i] = file[1 + i - 1]
    BY ONLY <2>1, <2>2, SubSeqProperties
  <2> QED BY <2>2, <2>3
<1>5. CASE file' = SubSeq(file, 1, k)
  <2>1. file' \in Seq(Lines) /\ Len(file') = k /\ \A i \in 1..k : file'[i] = file[i]
    BY <1>4, <1>5
  <2>2. Sound(file)'
    <3>1. \A i \in 1..k : i \in 1..Len(file) /\ (i < k => i < Len(file))
      BY <1>1
    <3>2. Sound(file)
      BY <1>1
    <3> QED BY ONLY <2>1, <3>1, <3>2 DEF Sound
  <2>3. ReadFacts'
    BY <2>1, <2>2, SoundReadNext
  <2>4. ASSUME NEW i \in 1..synced' PROVE Parses(file'[i])
    BY <1>1, <1>3, <2>1, <2>2, <2>3 DEF ReadFacts, Sound, Parses, Lines, Forms, Pieces
  <2>5. synced' \in synced..k
    <3>1. k \in Nat /\ synced \in 0..k /\ (file' # <<>> => k >= 1)
      BY <1>1, <2>1
    <3>2. Len(Readable)' = IF file' # <<>> /\ file'[k].form = "part" THEN k - 1 ELSE k
      BY <2>1, <2>3 DEF ReadFacts
    <3>3. k >= 1 /\ synced = k => file'[k].form # "part"
      BY <1>1, <2>1, <3>1 DEF SyncedInv, Parses
    <3> QED BY <1>3, <3>1, <3>2, <3>3
  <2>6. synced' \in synced..Len(file') /\ \A i \in 1..synced' : file'[i] = file[i]
    BY <1>1, <2>1, <2>5
  <2>7. \A i \in 1..synced' : Parses(file[i])' /\ Parses(file[i]) /\ file'[i].event = file[i].event
    BY <2>4, <2>6 DEF Parses
  <2>8. synced' \in synced..Len(file') /\ Len(file') <= Len(file)
    BY <1>1, <2>1, <2>6
  <2> QED BY <1>3, <2>1, <2>2, <2>7, <2>8
<1>6. CASE file' # SubSeq(file, 1, k)
  <2>1. PICK form \in Pieces :
          /\ form = "noeol" => Parses(file[k + 1])
          /\ file' = Append(SubSeq(file, 1, k), [file[k + 1] EXCEPT !.form = form])
    BY <1>2, <1>6
  <2>2. k < Len(file) /\ k + 1 \in 1..Len(file)
    BY <1>1, <1>2, <1>6
  <2>3. [file[k + 1] EXCEPT !.form = form] = [event |-> file[k + 1].event, form |-> form]
        /\ [event |-> file[k + 1].event, form |-> form] \in Lines
    BY <1>1, <2>2 DEF Lines, Forms
  <2>4. /\ file' \in Seq(Lines) /\ Len(file') = k + 1
        /\ file'[k + 1] = [event |-> file[k + 1].event, form |-> form]
        /\ \A i \in 1..k : file'[i] = file[i]
    BY <1>4, <2>1, <2>3, AppendProperties
  <2>5. Sound(file)'
    <3>1. k \in Nat /\ k + 1 <= Len(file) /\ form # "garbled"
      BY <1>1, <2>2 DEF Pieces
    <3>2. \A i \in 1..(k + 1) : i \in 1..Len(file) /\ file'[i].event = file[i].event
      BY <1>1, <2>4, <3>1
    <3>3. \A i \in 1..k : file[i].form = "line" /\ file'[i] = file[i]
      BY <1>1, <2>4, <3>1 DEF Sound
    <3>4. \A i \in 1..(k + 1) : file[i].event.sequence = i
      BY <1>1, <3>2 DEF Sound
    <3>5. \A i, j \in 1..(k + 1) : file[i].event.id = file[j].event.id => i = j
      BY <1>1, <3>2 DEF Sound
    <3>6. \A i \in 1..(k + 1) :
            /\ file'[i].event.sequence = i
            /\ file'[i].form # "garbled"
            /\ i < k + 1 => file'[i].form = "line"
      <4> SUFFICES ASSUME NEW i \in 1..(k + 1)
                   PROVE  /\ file'[i].event.sequence = i
                          /\ file'[i].form # "garbled"
                          /\ i < k + 1 => file'[i].form = "line"
        OBVIOUS
      <4>1. file'[i].event.sequence = i
        BY <3>2, <3>4
      <4>2. i \in 1..k \/ i = k + 1
        BY <3>1
      <4>3. CASE i \in 1..k
        BY <3>3, <4>1, <4>3
      <4>4. CASE i = k + 1
        BY <2>4, <3>1, <4>1, <4>4
      <4> QED BY <4>2, <4>3, <4>4
    <3>7. \A i, j \in 1..(k + 1) : file'[i].event.id = file'[j].event.id => i = j
      BY <3>2, <3>5
    <3>8. Len(file') = k + 1
      BY <2>4
    <3> QED BY <3>6, <3>7, <3>8 DEF Sound
  <2>6. ReadFacts'
    BY <2>4, <2>5, SoundReadNext
  <2>7. synced' \in k..(k + 1) /\ (synced' = k + 1 => form = "noeol")
    <3>1. k \in Nat /\ file' # <<>> /\ file'[Len(file')].form = form
      BY <1>1, <2>4
    <3>2. Len(Readable)' = IF form = "part" THEN k ELSE k + 1
      BY <2>4, <2>6, <3>1 DEF ReadFacts
    <3> QED BY <1>3, <3>1, <3>2 DEF Pieces
  <2>8. \A i \in 1..k : Parses(file[i]) /\ file[i] = file'[i]
    BY <1>1, <2>2, <2>4 DEF Sound, Parses
  <2>9. synced' = k + 1 => Parses(file[k + 1]) /\ Parses(file'[k + 1])
                           /\ file'[k + 1].event = file[k + 1].event
    BY <2>1, <2>4, <2>7 DEF Parses
  <2>10. \A i \in 1..synced' : Parses(file'[i]) /\ Parses(file[i]) /\ file'[i].event = file[i].event
    BY <2>7, <2>8, <2>9
  <2>11. \A i \in 1..synced' : Parses(file[i])' /\ Parses(file[i]) /\ file'[i].event = file[i].event
    BY <2>10 DEF Parses
  <2>12. synced' \in synced..Len(file') /\ Len(file') <= Len(file)
    BY <1>1, <2>2, <2>4, <2>7
  <2> QED BY <1>3, <2>4, <2>5, <2>11, <2>12
<1> QED BY <1>5, <1>6

-----------------------------------------------------------------------------
(* What a step does to the file                                            *)

\* e is recorded after the lines, or some of it is.
Recorded(e) ==
  /\ Fresh(e)
  /\ \E form \in Pieces \cup {"line"} : file' = Append(file, [event |-> e, form |-> form])

\* More of e is written, which the last line already has a beginning of.
Resumed(e) ==
  /\ Begun(e)
  /\ \E form \in Pieces \cup {"line"} :
       /\ form = "part" => file[Len(file)].form = "part"
       /\ file' = Append(Front(file), [event |-> e, form |-> form])

FileStep(w) == Write(w) \/ WriteFails(w) \/ CloseFlushes(w) \/ StopDuringWrite(w)

\* The writer's event comes last, and no line changes under another's feet.
LEMMA FileSteps ==
  ASSUME IInv, NEW w \in Writers, FileStep(w)
  PROVE  synced' = synced /\ (file' = file \/ Recorded(job[w]) \/ Resumed(job[w]))
<1>1. synced' = synced
  BY DEF FileStep, Write, WriteFails, CloseFlushes, StopDuringWrite
<1>2. CASE pc[w] = "write"
  <2>1. Fresh(job[w])
    BY <1>2 DEF IInv, WriterInv
  <2>2. \/ file' = file
        \/ \E form \in Pieces \cup {"line"} : file' = Appended(job[w], form, FALSE)
    BY <1>2 DEF FileStep, Write, WriteFails, CloseFlushes, StopDuringWrite
  <2> QED BY <1>1, <2>1, <2>2, AppendedFresh DEF Recorded
<1>3. CASE pc[w] # "write"
  <2>1. CloseFlushes(w)
    BY <1>3 DEF FileStep, Write, WriteFails, StopDuringWrite
  <2>2. buffer[w] \in {"all", "rest"}
    BY <2>1 DEF CloseFlushes, IInv, TypeOK
  <2>3. CASE buffer[w] = "all"
    <3>1. Fresh(job[w])
      BY <2>3 DEF IInv, WriterInv
    <3>2. \/ file' = file
          \/ \E form \in Pieces \cup {"line"} : file' = Appended(job[w], form, FALSE)
      BY <2>1, <2>3 DEF CloseFlushes
    <3> QED BY <1>1, <3>1, <3>2, AppendedFresh DEF Recorded
  <2>4. CASE buffer[w] = "rest"
    <3>1. Begun(job[w]) /\ file \in Seq(Lines)
      BY <2>4 DEF IInv, TypeOK, WriterInv
    <3>2. Last(file) = file[Len(file)] /\ Last(file) \in Lines
      BY <3>1, Ends DEF Begun
    <3>3. EndsOpen /\ Last(file).event = job[w]
      BY <3>1, <3>2 DEF Begun, EndsOpen
    <3>4. file' = file \/ \E form \in Pieces \cup {"line"} :
            /\ form = "part" => ~(EndsOpen /\ Last(file) = [event |-> job[w], form |-> "noeol"])
            /\ file' = Appended(job[w], form, TRUE)
      BY <2>1, <2>4 DEF CloseFlushes
    <3>5. ASSUME NEW form \in Pieces \cup {"line"},
                 form = "part" => ~(EndsOpen /\ Last(file) = [event |-> job[w], form |-> "noeol"]),
                 file' = Appended(job[w], form, TRUE)
          PROVE  Resumed(job[w])
      <4>1. file' = Append(Front(file), [event |-> job[w], form |-> form])
        BY <3>3, <3>5 DEF Appended
      <4>2. Last(file).form = "noeol" => Last(file) = [event |-> job[w], form |-> "noeol"]
        BY <3>2, <3>3 DEF Lines
      <4>3. form = "part" => file[Len(file)].form = "part"
        BY <3>1, <3>2, <3>3, <3>5, <4>2 DEF Begun, Pieces
      <4> QED BY <3>1, <4>1, <4>3 DEF Resumed
    <3> QED BY <1>1, <3>4, <3>5
  <2> QED BY <2>2, <2>3, <2>4
<1> QED BY <1>2, <1>3

\* The last line gains a form, and keeps its event.
LEMMA ResumeLine ==
  ASSUME IInv, NEW e \in Events, Begun(e), NEW form \in Pieces \cup {"line"},
         file' = Append(Front(file), [event |-> e, form |-> form])
  PROVE  /\ file' \in Seq(Lines) /\ Len(file') = Len(file) /\ Len(file) \in Nat \ {0}
         /\ file'[Len(file)] = [event |-> e, form |-> form]
         /\ \A i \in 1..(Len(file) - 1) : file'[i] = file[i]
         /\ Sound(file)'
<1>1. file \in Seq(Lines) /\ [event |-> e, form |-> form] \in Lines
  BY DEF IInv, TypeOK, Lines, Forms, Pieces
<1>2. /\ Len(file) \in Nat \ {0}
      /\ Front(file) \in Seq(Lines) /\ Len(Front(file)) = Len(file) - 1
      /\ \A i \in 1..(Len(file) - 1) : Front(file)[i] = file[i]
  BY <1>1, Ends DEF Begun
<1>3. /\ file' \in Seq(Lines) /\ Len(file') = Len(file)
      /\ file'[Len(file)] = [event |-> e, form |-> form]
      /\ \A i \in 1..(Len(file) - 1) : file'[i] = file[i]
  BY <1>1, <1>2, AppendProperties
<1>4. \A i \in 1..Len(file) : i \in 1..(Len(file) - 1) \/ i = Len(file)
  BY <1>2
<1>5. \A i \in 1..Len(file) : file'[i].event = file[i].event
  BY <1>3, <1>4 DEF Begun
<1>6. ASSUME NEW i \in 1..Len(file)
      PROVE  /\ file'[i].event.sequence = i
             /\ file'[i].form # "garbled"
             /\ i < Len(file) => file'[i].form = "line"
  <2>1. file'[i].event.sequence = i
    BY <1>5 DEF IInv, Sound
  <2>2. CASE i \in 1..(Len(file) - 1)
    BY <1>2, <1>3, <2>1, <2>2 DEF IInv, Sound
  <2>3. CASE i = Len(file)
    BY <1>2, <1>3, <2>1, <2>3 DEF Pieces
  <2> QED BY <1>4, <2>2, <2>3
<1>7. \A i, j \in 1..Len(file) : file'[i].event.id = file'[j].event.id => i = j
  BY <1>5 DEF IInv, Sound
<1>8. Sound(file)'
  BY <1>3, <1>6, <1>7 DEF Sound
<1> QED BY <1>2, <1>3, <1>8

FileGrows ==
  /\ file' \in Seq(Lines) /\ Sound(file)' /\ Len(file) <= Len(file')
  /\ \A i \in 1..Len(file) :
       file'[i].event = file[i].event /\ (Parses(file[i]) => Parses(file'[i]))

\* A new line leaves the lines before it as they are.
LEMMA RecordedGrows ==
  ASSUME IInv, NEW e \in Events, Recorded(e) PROVE FileGrows
<1>1. PICK form \in Pieces \cup {"line"} : file' = Append(file, [event |-> e, form |-> form])
  BY DEF Recorded
<1>2. /\ file' \in Seq(Lines) /\ Len(file') = Len(file) + 1
      /\ \A i \in 1..Len(file) : file'[i] = file[i]
      /\ Sound(file)'
  BY <1>1, AppendLine DEF Recorded
<1>3. Len(file) \in Nat
  BY DEF IInv, TypeOK
<1> QED BY <1>2, <1>3 DEF FileGrows

\* So does the rest of a line whose beginning was there.
LEMMA ResumedGrows ==
  ASSUME IInv, NEW e \in Events, Resumed(e) PROVE FileGrows
<1>1. PICK form \in Pieces \cup {"line"} :
        /\ form = "part" => file[Len(file)].form = "part"
        /\ file' = Append(Front(file), [event |-> e, form |-> form])
  BY DEF Resumed
<1>2. /\ file' \in Seq(Lines) /\ Len(file') = Len(file) /\ Len(file) \in Nat \ {0}
      /\ file'[Len(file)] = [event |-> e, form |-> form]
      /\ \A i \in 1..(Len(file) - 1) : file'[i] = file[i]
      /\ Sound(file)'
  BY <1>1, ResumeLine DEF Resumed
<1>3. /\ file'[Len(file)].event = file[Len(file)].event
      /\ Parses(file[Len(file)]) => Parses(file'[Len(file)])
  <2>1. file'[Len(file)].event = e /\ file'[Len(file)].form = form /\ file[Len(file)].event = e
    BY <1>2 DEF Resumed, Begun
  <2> QED BY <1>1, <2>1 DEF Parses, Pieces
<1>4. \A i \in 1..Len(file) : i \in 1..(Len(file) - 1) \/ i = Len(file)
  BY <1>2
<1> QED BY <1>2, <1>3, <1>4 DEF FileGrows

\* What a reader was given, it is given again.
LEMMA GrowsReads ==
  ASSUME IInv, FileGrows
  PROVE  /\ Len(Readable) <= Len(Readable)'
         /\ \A i \in 1..Len(Readable) : Readable'[i] = Readable[i]
<1>1. ReadFacts /\ ReadFacts' /\ Len(file) \in Nat /\ Len(file') \in Nat
  BY SoundRead, SoundReadNext DEF IInv, TypeOK, FileGrows
<1>2. file # <<>> <=> Len(file) # 0
  BY DEF IInv, TypeOK
<1>3. file' # <<>> <=> Len(file') # 0
  BY DEF FileGrows
<1>4. Len(Readable) \in Nat /\ Len(Readable)' \in Nat
      /\ Len(Readable) <= Len(file) /\ Len(Readable)' <= Len(file')
      /\ Len(file') - 1 <= Len(Readable)'
  BY <1>1, <1>2, <1>3 DEF ReadFacts
<1>5. Len(Readable) <= Len(Readable)'
  <2>1. CASE Len(file) < Len(file')
    BY <1>1, <1>4, <2>1
  <2>2. CASE Len(file) = Len(file') /\ Len(file) # 0 /\ file[Len(file)].form = "part"
    BY <1>1, <1>2, <1>4, <2>2 DEF ReadFacts
  <2>3. CASE Len(file) = Len(file') /\ Len(file) # 0 /\ file[Len(file)].form # "part"
    <3>1. Len(file) \in 1..Len(file) /\ file[Len(file)] \in Lines
      BY <1>1, <2>3 DEF IInv, TypeOK
    <3>2. Parses(file[Len(file)])
      BY <2>3, <3>1 DEF IInv, Sound, Parses, Lines, Forms, Pieces
    <3>3. Parses(file'[Len(file')])
      BY <2>3, <3>1, <3>2 DEF FileGrows
    <3>4. file'[Len(file')].form # "part"
      BY <3>3 DEF Parses
    <3>5. Len(Readable)' = Len(file')
      BY <1>1, <3>4 DEF ReadFacts
    <3> QED BY <1>4, <2>3, <3>5
  <2>4. CASE Len(file) = 0
    BY <1>4, <2>4
  <2>5. Len(file) <= Len(file')
    BY DEF FileGrows
  <2> QED BY <1>1, <2>1, <2>2, <2>3, <2>4, <2>5
<1>6. ASSUME NEW i \in 1..Len(Readable) PROVE Readable'[i] = Readable[i]
  <2>1. i \in 1..Len(file) /\ i \in 1..Len(Readable)'
    BY <1>1, <1>4, <1>5
  <2>2. Readable[i] = file[i].event /\ Readable'[i] = file'[i].event
    BY <1>1, <2>1 DEF ReadFacts
  <2> QED BY <2>1, <2>2 DEF FileGrows
<1> QED BY <1>5, <1>6

\* The invariants of the file alone, when a step does not touch it or adds to it.
LEMMA FileKept ==
  ASSUME IInv, FileGrows \/ file' = file, synced' = synced
  PROVE  /\ Sound(file)' /\ SyncedInv'
         /\ \A e : Held(e) => Held(e)'
         /\ acked' = acked => AckedInv'
         /\ seen' = seen => SeenInv'
<1>1. file \in Seq(Lines) /\ synced \in 0..Len(file) /\ Len(file) \in Nat
  BY DEF IInv, TypeOK
<1>2. CASE file' = file
  <2>1. Readable' = Readable
    BY <1>2 DEF Readable
  <2>2. Sound(file)' /\ SyncedInv'
    BY <1>2 DEF IInv, Sound, SyncedInv, Parses
  <2>3. \A e : Held(e) => Held(e)'
    BY <1>2 DEF Held
  <2> QED BY <2>1, <2>2, <2>3 DEF IInv, AckedInv, SeenInv
<1>3. CASE FileGrows
  <2>1. /\ Len(Readable) <= Len(Readable)' /\ Len(Readable) \in Nat /\ Len(Readable)' \in Nat
        /\ \A i \in 1..Len(Readable) : Readable'[i] = Readable[i]
    BY <1>1, <1>3, GrowsReads, ReadableTypes, ReadableTypesNext DEF FileGrows
  <2>2. \A i \in 1..synced : i \in 1..Len(file)
    BY <1>1
  <2>3. \A i \in 1..synced : Parses(file'[i])
    BY <1>3, <2>2 DEF FileGrows, IInv, SyncedInv
  <2>4. Sound(file)' /\ SyncedInv'
    BY <1>3, <2>3 DEF FileGrows, SyncedInv, Parses
  <2>5. \A e : Held(e) => Held(e)'
    BY <1>3, <2>2 DEF Held, FileGrows
  <2>6. ASSUME seen' = seen PROVE SeenInv'
    <3> SUFFICES ASSUME ~PowerFails
                 PROVE  Len(seen) <= Len(Readable)'
                        /\ \A i \in 1..Len(seen) : seen[i] = Readable'[i]
      BY <2>6 DEF SeenInv
    <3>1. Len(seen) <= Len(Readable) /\ \A i \in 1..Len(seen) : seen[i] = Readable[i]
      BY DEF IInv, SeenInv
    <3>2. Len(seen) \in Nat
      BY DEF IInv, TypeOK
    <3>3. \A i \in 1..Len(seen) : i \in 1..Len(Readable)
      BY <2>1, <3>1, <3>2
    <3> QED BY <2>1, <3>1, <3>2, <3>3
  <2> QED BY <2>4, <2>5, <2>6 DEF IInv, AckedInv
<1> QED BY <1>2, <1>3

-----------------------------------------------------------------------------
(* The invariant is inductive                                              *)

\* While one writer adds to the file, no other is about to.
LEMMA OtherWriters ==
  ASSUME IInv, Calm, NEW w \in Writers, FileStep(w), NEW v \in Writers, v # w
  PROVE  /\ pc[v] \notin {"write", "sync"} /\ buffer[v] = "none"
         /\ pc'[v] = pc[v] /\ job'[v] = job[v] /\ buffer'[v] = buffer[v] /\ failed'[v] = failed[v]
<1>1. pc'[v] = pc[v] /\ job'[v] = job[v] /\ buffer'[v] = buffer[v] /\ failed'[v] = failed[v]
  BY DEF FileStep, Write, WriteFails, CloseFlushes, StopDuringWrite, Leave, Goto, IInv, TypeOK
<1>2. buffer[v] \in {"none", "all", "rest"} /\ buffer[w] \in {"none", "all", "rest"}
  BY DEF IInv, TypeOK
<1>3. \A u \in Writers :
        /\ (pc[u] = "write" \/ buffer[u] = "all") => Fresh(job[u])
        /\ buffer[u] = "rest" => Begun(job[u])
        /\ pc[u] = "sync" => file[Len(file)] = [event |-> job[u], form |-> "line"]
  BY DEF IInv, WriterInv
<1>4. \A d, e : ~(Fresh(d) /\ Begun(e))
  <2>1. file # <<>> => Len(file) \in 1..Len(file)
    BY DEF IInv, TypeOK
  <2> QED BY <2>1 DEF Fresh, Begun, Pieces
<1>5. CASE pc[w] = "write"
  <2>1. lock = w
    BY <1>5 DEF IInv, LockInv
  <2>2. pc[v] \notin {"write", "sync"}
    BY <2>1 DEF IInv, LockInv
  <2>3. buffer[v] # "rest"
    BY <1>3, <1>4, <1>5
  <2>4. buffer[v] # "all"
    BY <1>5 DEF Calm
  <2> QED BY <1>1, <1>2, <2>2, <2>3, <2>4
<1>6. CASE pc[w] # "write"
  <2>1. buffer[w] # "none"
    BY <1>6 DEF FileStep, Write, WriteFails, CloseFlushes, StopDuringWrite
  <2>2. buffer[v] = "none"
    BY <2>1 DEF IInv, LoneInv
  <2>3. CASE buffer[w] = "all"
    BY <1>1, <2>2, <2>3 DEF Calm, IInv, LoneInv
  <2>4. CASE buffer[w] = "rest"
    <3>1. Begun(job[w])
      BY <1>3, <2>4
    <3>2. pc[v] # "write"
      BY <1>3, <1>4, <3>1
    <3>3. pc[v] # "sync"
      <4>1. file[Len(file)].form \in Pieces
        BY <3>1 DEF Begun
      <4>2. pc[v] = "sync" => file[Len(file)] = [event |-> job[v], form |-> "line"]
        BY <1>3
      <4>3. [event |-> job[v], form |-> "line"].form \notin Pieces
        BY DEF Pieces
      <4> QED BY <4>1, <4>2, <4>3
    <3> QED BY <1>1, <2>2, <3>2, <3>3
  <2> QED BY <1>2, <2>1, <2>3, <2>4
<1> QED BY <1>5, <1>6

\* The steps that write to the file keep the invariant, when it is calm.
LEMMA FileStepInv ==
  ASSUME IInv, TypeInv', Calm, NEW w \in Writers, FileStep(w)
  PROVE  IInv'
<1>1. synced' = synced /\ acked' = acked /\ seen' = seen
  BY DEF FileStep, Write, WriteFails, CloseFlushes, StopDuringWrite, past
<1>2. job[w] \in Events /\ pc[w] \in {"write", "close"}
  BY DEF FileStep, Write, WriteFails, CloseFlushes, StopDuringWrite, IInv, WriterInv
<1>3. FileGrows \/ file' = file
  BY <1>2, FileSteps, RecordedGrows, ResumedGrows
<1>4. /\ Sound(file)' /\ SyncedInv' /\ AckedInv' /\ SeenInv'
      /\ \A e : Held(e) => Held(e)'
  BY <1>1, <1>3, FileKept
<1>5. LockInv'
  <2>1. UNCHANGED lock \/ \A v \in Writers \ {w} : pc[v] \notin {"write", "sync", "unlock"}
    BY DEF FileStep, Write, WriteFails, CloseFlushes, StopDuringWrite, IInv, LockInv
  <2>2. pc'[w] \in {"write", "sync", "unlock"} => pc[w] = "write" /\ UNCHANGED lock
    BY DEF FileStep, Write, WriteFails, CloseFlushes, StopDuringWrite, Leave, Goto, IInv, TypeOK
  <2>3. \A v \in Writers \ {w} : pc'[v] = pc[v]
    BY OtherWriters
  <2> QED BY <2>1, <2>2, <2>3 DEF IInv, LockInv
<1>6. WriterInv'
  <2> SUFFICES ASSUME NEW v \in Writers
               PROVE  /\ buffer'[v] # "none" =>
                           WriteErrors /\ failed'[v] /\ pc'[v] \in {"unlock", "close"}
                      /\ pc'[v] = "write" \/ buffer'[v] = "all" => Fresh(job[v])'
                      /\ buffer'[v] = "rest" => Begun(job[v])'
                      /\ pc'[v] = "sync" =>
                           /\ job'[v].sequence = Len(file')
                           /\ file' # <<>>
                           /\ file'[Len(file')] = [event |-> job'[v], form |-> "line"]
                      /\ pc'[v] \in {"unlock", "close"} /\ ~failed'[v] => Held(job[v])'
                      /\ pc'[v] # "idle" => job'[v] \in Events
    BY DEF WriterInv
  <2>1. pc'[v] # "idle" => job'[v] \in Events
    BY DEF TypeInv
  <2>2. CASE v # w
    <3>1. /\ pc[v] \notin {"write", "sync"} /\ buffer[v] = "none"
          /\ pc'[v] = pc[v] /\ job'[v] = job[v] /\ buffer'[v] = buffer[v]
          /\ failed'[v] = failed[v]
      BY <2>2, OtherWriters
    <3>2. pc[v] \in {"unlock", "close"} /\ ~failed[v] => Held(job[v])
      BY DEF IInv, WriterInv
    <3>3. pc'[v] \in {"unlock", "close"} /\ ~failed'[v] => Held(job[v])'
      <4> SUFFICES ASSUME Held(job[v]) PROVE Held(job[v])'
        BY <3>1, <3>2
      <4>1. Held(job[v])' <=> job[v].sequence \in 1..synced' /\ file'[job[v].sequence].event = job[v]
        BY <3>1 DEF Held
      <4> QED BY <1>1, <1>4, <4>1 DEF Held
    <3> QED BY <2>1, <3>1, <3>3
  <2>3. CASE v = w /\ (CloseFlushes(w) \/ StopDuringWrite(w))
    <3>1. pc'[w] = "idle" /\ buffer'[w] = "none"
      BY <2>3 DEF CloseFlushes, StopDuringWrite, Leave, Goto, IInv, TypeOK
    <3> QED BY <2>3, <3>1
  <2>4. CASE v = w /\ Write(w)
    <3>1. pc[w] = "write" /\ pc'[w] = "sync" /\ job' = job /\ buffer' = buffer
      BY <2>4 DEF Write, Goto, IInv, TypeOK
    <3>2. Fresh(job[w]) /\ buffer[w] = "none"
      BY <3>1 DEF IInv, WriterInv
    <3>3. file' = Append(file, [event |-> job[w], form |-> "line"])
      BY <2>4, <3>2, AppendedFresh DEF Write
    <3>4. /\ file' \in Seq(Lines) /\ Len(file') = Len(file) + 1 /\ Len(file) \in Nat
          /\ file'[Len(file) + 1] = [event |-> job[w], form |-> "line"]
      BY <3>2, <3>3, AppendLine DEF IInv, TypeOK
    <3>5. job[w].sequence = Len(file') /\ file' # <<>>
      BY <3>2, <3>4 DEF Fresh
    <3> QED BY <2>1, <2>4, <3>1, <3>2, <3>4, <3>5
  <2>5. CASE v = w /\ WriteFails(w)
    <3>1. /\ WriteErrors /\ pc[w] = "write" /\ pc'[w] = "unlock" /\ job' = job /\ failed'[w]
          /\ \/ buffer'[w] = "all" /\ file' = file
             \/ /\ buffer'[w] = "rest"
                /\ \E form \in Pieces : file' = Appended(job[w], form, FALSE)
      BY <2>5 DEF WriteFails, Goto, IInv, TypeOK
    <3>2. Fresh(job[w])
      BY <3>1 DEF IInv, WriterInv
    <3>3. CASE file' = file /\ buffer'[w] = "all"
      <4>1. Fresh(job[w])'
        BY <3>1, <3>2, <3>3 DEF Fresh
      <4> QED BY <2>1, <2>5, <3>1, <3>3, <4>1
    <3>4. CASE /\ buffer'[w] = "rest"
               /\ \E form \in Pieces : file' = Appended(job[w], form, FALSE)
      <4>1. PICK form \in Pieces : file' = Append(file, [event |-> job[w], form |-> form])
        BY <3>2, <3>4, AppendedFresh
      <4>2. /\ file' \in Seq(Lines) /\ Len(file') = Len(file) + 1 /\ Len(file) \in Nat
            /\ file'[Len(file) + 1] = [event |-> job[w], form |-> form]
        BY <3>2, <4>1, AppendLine DEF IInv, TypeOK
      <4>3. Begun(job[w])'
        BY <3>1, <3>2, <4>2 DEF Begun, Fresh
      <4> QED BY <2>1, <2>5, <3>1, <3>4, <4>3
    <3> QED BY <3>1, <3>3, <3>4
  <2> QED BY <2>2, <2>3, <2>4, <2>5 DEF FileStep
<1>7. LoneInv'
  <2> SUFFICES ASSUME NEW v \in Writers, NEW u \in Writers, v # u, buffer'[u] # "none"
               PROVE  buffer'[v] = "none" /\ pc'[v] # "sync"
    BY DEF LoneInv
  <2>1. u = w
    BY OtherWriters
  <2> QED BY <2>1, OtherWriters
<1> QED BY <1>4, <1>5, <1>6, <1>7 DEF IInv, TypeInv

\* A writer that is through with its event is no concern of the others.
LEMMA IdleWriter ==
  ASSUME IInv, file' = file, synced' = synced, NEW w \in Writers, Leave(w)
  PROVE  WriterInv' /\ LoneInv' /\ pc'[w] = "idle"
         /\ \A v \in Writers : v # w => pc'[v] = pc[v]
<1>1. pc'[w] = "idle" /\ buffer'[w] = "none"
  BY DEF Leave, Goto, IInv, TypeOK
<1>2. ASSUME NEW v \in Writers, v # w
      PROVE  /\ pc'[v] = pc[v] /\ failed'[v] = failed[v]
             /\ job'[v] = job[v] /\ buffer'[v] = buffer[v]
  BY <1>2 DEF Leave, Goto, IInv, TypeOK
<1>3. WriterInv'
  BY <1>1, <1>2 DEF IInv, WriterInv, Fresh, Begun, Held
<1>4. LoneInv'
  BY <1>1, <1>2 DEF IInv, LoneInv
<1> QED BY <1>1, <1>2, <1>3, <1>4

\* A step of a writer that leaves the file alone.
LEMMA QuietStepInv ==
  ASSUME IInv, TypeInv', NEW w \in Writers,
         \/ BeginAppend(w) \/ LockAndCheck(w) \/ Unlock(w) \/ Stop(w) \/ Close(w)
  PROVE  IInv'
<1>1. file' = file /\ synced' = synced /\ seen' = seen
  BY DEF BeginAppend, LockAndCheck, Unlock, Stop, Close, disk, past
<1>2. Sound(file)' /\ SyncedInv' /\ SeenInv' /\ (acked' = acked => AckedInv')
  BY <1>1, FileKept
<1>3. CASE BeginAppend(w)
  <2> USE <1>3 DEF BeginAppend, disk, past, Goto
  <2>1. WriterInv'
    BY DEF IInv, TypeOK, WriterInv, Fresh, Begun, Held
  <2>2. LockInv'
    BY DEF IInv, TypeOK, LockInv
  <2>3. LoneInv'
    BY DEF IInv, TypeOK, LoneInv
  <2> QED BY <1>2, <2>1, <2>2, <2>3 DEF IInv, TypeInv
<1>4. CASE LockAndCheck(w)
  <2> USE <1>4 DEF LockAndCheck, disk, past, Goto
  <2>1. Appendable(job[w]) => Fresh(job[w])
    BY AppendableFresh DEF IInv, WriterInv
  <2>2. /\ file' = file /\ synced' = synced /\ job' = job /\ buffer' = buffer
        /\ \A v \in Writers \ {w} : pc'[v] = pc[v] /\ failed'[v] = failed[v]
        /\ pc'[w] = "write" \/ (pc'[w] = "unlock" /\ failed'[w])
        /\ pc'[w] = "write" => Fresh(job[w])
        /\ pc[w] = "open" /\ job[w] \in Events
    <3>1. pc[w] = "open" /\ job[w] \in Events
      BY DEF IInv, WriterInv
    <3>2. file' = file /\ synced' = synced /\ job' = job /\ buffer' = buffer
      OBVIOUS
    <3>3. \/ pc' = [pc EXCEPT ![w] = "write"] /\ failed' = failed /\ Fresh(job[w])
          \/ pc' = [pc EXCEPT ![w] = "unlock"] /\ failed' = [failed EXCEPT ![w] = TRUE]
      BY <2>1
    <3>4. pc \in [Writers -> {"idle", "open", "write", "sync", "unlock", "close"}]
      BY DEF IInv, TypeOK
    <3>5. failed \in [Writers -> BOOLEAN]
      BY DEF IInv, TypeOK
    <3>6. \A v \in Writers \ {w} : pc'[v] = pc[v]
      BY ONLY <3>3, <3>4
    <3>7. \A v \in Writers \ {w} : failed'[v] = failed[v]
      BY ONLY <3>3, <3>5
    <3>8. pc'[w] = "write" \/ (pc'[w] = "unlock" /\ failed'[w])
      BY ONLY <3>3, <3>4, <3>5
    <3>9. pc'[w] = "write" => Fresh(job[w])
      BY ONLY <3>3, <3>4
    <3>10. \A v \in Writers \ {w} : pc'[v] = pc[v] /\ failed'[v] = failed[v]
      BY ONLY <3>6, <3>7
    <3> QED BY ONLY <3>1, <3>2, <3>8, <3>9, <3>10
  <2>3. WriterInv'
    <3>1. ASSUME NEW v \in Writers, v # w
          PROVE  /\ pc'[v] = pc[v] /\ failed'[v] = failed[v]
                 /\ job'[v] = job[v] /\ buffer'[v] = buffer[v]
      BY <2>2, <3>1
    <3>2. buffer'[w] = "none"
      BY <2>2 DEF IInv, TypeOK, WriterInv
    <3>3. \A e : (Fresh(e) => Fresh(e)') /\ (Begun(e) => Begun(e)') /\ (Held(e) => Held(e)')
      BY <2>2 DEF Fresh, Begun, Held
    <3> QED BY <2>2, <3>1, <3>2, <3>3 DEF IInv, WriterInv, Fresh, Begun, Held
  <2>4. LockInv'
    BY TraceAssumption DEF IInv, TypeOK, LockInv
  <2>5. LoneInv'
    <3>1. buffer' = buffer /\ \A v \in Writers : pc'[v] = "sync" => pc[v] = "sync"
      BY <2>2
    <3> QED BY <3>1 DEF IInv, LoneInv
  <2> QED BY <1>2, <2>3, <2>4, <2>5 DEF IInv, TypeInv
<1>5. CASE Unlock(w)
  <2>1. /\ pc[w] = "unlock" /\ pc' = [pc EXCEPT ![w] = "close"] /\ lock' = "nobody"
        /\ UNCHANGED <<job, buffer, failed, acked>>
    BY <1>5 DEF Unlock, disk, past, Goto
  <2>2. pc'[w] = "close" /\ \A v \in Writers : v # w => pc'[v] = pc[v]
    BY <2>1 DEF IInv, TypeOK
  <2>3. WriterInv'
    <3>1. \A e : (Fresh(e) => Fresh(e)') /\ (Begun(e) => Begun(e)') /\ (Held(e) => Held(e)')
      BY <1>1 DEF Fresh, Begun, Held
    <3> QED BY <1>1, <2>1, <2>2, <3>1 DEF IInv, WriterInv, Fresh, Begun, Held
  <2>4. LockInv'
    BY <2>1, <2>2 DEF IInv, LockInv
  <2>5. LoneInv'
    BY <2>1, <2>2 DEF IInv, LoneInv
  <2> QED BY <1>2, <2>1, <2>3, <2>4, <2>5 DEF IInv, TypeInv
<1>6. CASE Stop(w)
  <2>1. /\ WriterInv' /\ LoneInv' /\ pc'[w] = "idle"
        /\ \A v \in Writers : v # w => pc'[v] = pc[v]
    BY <1>1, <1>6, IdleWriter DEF Stop
  <2>2. lock' = (IF lock = w THEN "nobody" ELSE lock) /\ acked' = acked
    BY <1>6 DEF Stop, past
  <2>3. LockInv'
    BY <2>1, <2>2 DEF IInv, LockInv
  <2> QED BY <1>2, <2>1, <2>2, <2>3 DEF IInv, TypeInv
<1>7. CASE Close(w)
  <2>1. /\ WriterInv' /\ LoneInv' /\ pc'[w] = "idle"
        /\ \A v \in Writers : v # w => pc'[v] = pc[v]
    BY <1>1, <1>7, IdleWriter DEF Close
  <2>2. lock' = lock /\ acked' = (IF failed[w] THEN acked ELSE acked \cup {job[w]})
    BY <1>7 DEF Close, disk
  <2>3. LockInv'
    BY <2>1, <2>2 DEF IInv, LockInv
  <2>4. ~failed[w] => Held(job[w])
    BY <1>7 DEF Close, IInv, WriterInv
  <2>5. AckedInv'
    BY <1>1, <2>2, <2>4 DEF IInv, AckedInv, Held
  <2> QED BY <1>2, <2>1, <2>3, <2>5 DEF IInv, TypeInv
<1> QED BY <1>3, <1>4, <1>5, <1>6, <1>7

\* What is on the disk now is the whole file, which is sound.
LEMMA SyncInv ==
  ASSUME IInv, TypeInv', NEW w \in Writers, Sync(w) PROVE IInv'
<1>1. /\ pc[w] = "sync" /\ synced' = Len(file)
      /\ pc' = [pc EXCEPT ![w] = "unlock"]
      /\ UNCHANGED <<file, lock, job, buffer, failed, acked, seen>>
  BY DEF Sync, past, Goto
<1> file \in Seq(Lines) /\ synced \in 0..Len(file) /\ Len(file) \in Nat
  BY DEF IInv, TypeOK
<1>2. \A e : Held(e) => Held(e)'
  BY <1>1 DEF Held
<1>3. /\ job[w].sequence = Len(file) /\ Len(file) \in Nat \ {0}
      /\ file[Len(file)] = [event |-> job[w], form |-> "line"]
  BY <1>1 DEF IInv, WriterInv
<1>4. Held(job[w])'
  BY <1>1, <1>3 DEF Held
<1>5. \A i \in 1..Len(file) : Parses(file[i])
  BY <1>3 DEF IInv, Sound, Parses
<1>6. WriterInv'
  BY <1>1, <1>2, <1>4 DEF IInv, TypeOK, WriterInv, Fresh, Begun
<1>7. Sound(file)' /\ SyncedInv' /\ LockInv'
  BY <1>1, <1>5 DEF IInv, TypeOK, Sound, SyncedInv, Parses, LockInv
<1>8. AckedInv' /\ SeenInv'
  BY <1>1, <1>2 DEF IInv, AckedInv, SeenInv, Readable
<1>9. LoneInv'
  BY <1>1 DEF IInv, TypeOK, LoneInv
<1> QED BY <1>6, <1>7, <1>8, <1>9 DEF IInv, TypeInv

\* A failed fsync changes no more than that it failed.
LEMMA SyncFailsInv ==
  ASSUME IInv, TypeInv', NEW w \in Writers, SyncFails(w) PROVE IInv'
<1>1. /\ WriteErrors /\ pc[w] = "sync"
      /\ pc' = [pc EXCEPT ![w] = "unlock"] /\ failed' = [failed EXCEPT ![w] = TRUE]
      /\ UNCHANGED <<file, synced, lock, job, buffer, acked, seen>>
  BY DEF SyncFails, disk, past, Goto
<1>2. Sound(file)' /\ SyncedInv' /\ SeenInv' /\ AckedInv'
  BY <1>1, FileKept
<1>3. \A e : (Fresh(e) => Fresh(e)') /\ (Begun(e) => Begun(e)') /\ (Held(e) => Held(e)')
  BY <1>1 DEF Fresh, Begun, Held
<1>4. WriterInv'
  <2>1. pc'[w] = "unlock" /\ failed'[w] /\ job[w] \in Events /\ buffer[w] = "none"
    BY <1>1 DEF IInv, TypeOK, WriterInv
  <2>2. ASSUME NEW v \in Writers, v # w PROVE pc'[v] = pc[v] /\ failed'[v] = failed[v]
    BY <1>1, <2>2 DEF IInv, TypeOK
  <2>3. file' = file /\ synced' = synced /\ job' = job /\ buffer' = buffer
    BY <1>1
  <2> QED BY <1>3, <2>1, <2>2, <2>3 DEF IInv, WriterInv, Fresh, Begun, Held
<1>5. LockInv'
  BY <1>1 DEF IInv, TypeOK, LockInv
<1>6. LoneInv'
  BY <1>1 DEF IInv, TypeOK, LoneInv
<1> QED BY <1>2, <1>4, <1>5, <1>6 DEF IInv, TypeInv

\* What a power failure leaves has all that was synced.
LEMMA PowerFailureInv ==
  ASSUME IInv, TypeInv', PowerFailure PROVE IInv'
<1>1. /\ file' \in Seq(Lines) /\ Sound(file)'
      /\ synced' \in synced..Len(file')
      /\ \A i \in 1..synced' : Parses(file[i])' /\ file'[i].event = file[i].event
  BY CutFile
<1> file \in Seq(Lines) /\ synced \in 0..Len(file) /\ Len(file) \in Nat
  BY DEF IInv, TypeOK
<1> USE DEF PowerFailure, past
<1>2. WriterInv' /\ LockInv' /\ LoneInv'
  BY DEF IInv, TypeOK, WriterInv, LockInv, LoneInv
<1>3. SyncedInv'
  BY <1>1 DEF SyncedInv
<1>4. \A e : Held(e) => Held(e)'
  BY <1>1 DEF Held
<1>5. AckedInv' /\ SeenInv'
  BY <1>4 DEF IInv, AckedInv, SeenInv
<1> QED BY <1>1, <1>2, <1>3, <1>5 DEF IInv, TypeInv

\* A reader gets the events of a sound file.
LEMMA ReadInv ==
  ASSUME IInv, TypeInv', Read PROVE IInv'
<1>1. /\ seen' = Readable
      /\ UNCHANGED <<file, synced, lock, pc, job, buffer, failed, acked>>
  BY DEF Read, disk, writer
<1>2. Sound(file)' /\ SyncedInv' /\ AckedInv'
  BY <1>1, FileKept
<1>3. Readable' = Readable /\ Readable \in Seq(Events)
  BY <1>1, ReadableTypes DEF IInv, TypeOK, Readable
<1>4. SeenInv'
  <2>1. seen' = Readable' /\ Len(Readable) \in Nat
    BY <1>1, <1>3
  <2> QED BY <1>3, <2>1 DEF SeenInv
<1>5. WriterInv' /\ LockInv' /\ LoneInv'
  BY <1>1 DEF IInv, WriterInv, LockInv, LoneInv, Fresh, Begun, Held
<1> QED BY <1>2, <1>4, <1>5 DEF IInv, TypeInv

\* Every step keeps the invariant, when it is calm.
LEMMA NextInv ==
  ASSUME Calm, IInv, [Next]_vars PROVE IInv'
<1>1. TypeInv'
  BY NextTypes DEF IInv, WriterInv, TypeInv
<1>2. ASSUME NEW w \in Writers, BeginAppend(w) \/ Work(w) \/ Stop(w) \/ StopDuringWrite(w)
      PROVE  IInv'
  BY <1>1, <1>2, QuietStepInv, FileStepInv, SyncInv, SyncFailsInv DEF Work, FileStep
<1>3. CASE Read
  BY <1>1, <1>3, ReadInv
<1>4. CASE PowerFailure
  BY <1>1, <1>4, PowerFailureInv
<1>5. CASE UNCHANGED vars
  <2>1. /\ UNCHANGED <<file, synced, lock, pc, job, buffer, failed, acked, seen>>
    BY <1>5 DEF vars
  <2>2. Sound(file)' /\ SyncedInv' /\ AckedInv' /\ SeenInv'
    BY <2>1, FileKept
  <2>3. WriterInv' /\ LockInv' /\ LoneInv'
    BY <2>1 DEF IInv, WriterInv, LockInv, LoneInv, Fresh, Begun, Held
  <2> QED BY <1>1, <2>2, <2>3 DEF IInv, TypeInv
<1> QED BY <1>2, <1>3, <1>4, <1>5 DEF Next

-----------------------------------------------------------------------------
(* The theorems                                                            *)

\* TypeOK, whatever fails.
THEOREM TypeCorrect == Spec => []TypeOK
<1>1. TypeInv => TypeOK
  BY DEF TypeInv
<1> QED BY <1>1, InitTypes, NextTypes, PTL DEF Spec

\* The file keeps its form.
THEOREM InductiveInvariant == Spec /\ []Calm => []IInv
<1>1. Calm /\ IInv /\ [Next]_vars => IInv'
  BY NextInv
<1> QED BY <1>1, InitInv, PTL DEF Spec

\* Whatever dies and whenever the power fails, the trace can be read: a
\* damaged line is the last one.
THEOREM TraceReadable == Spec /\ []Calm => []AlwaysReadable
<1>1. IInv => AlwaysReadable
  BY SoundRead DEF IInv, TypeOK, ReadFacts, AlwaysReadable
<1> QED BY <1>1, InductiveInvariant, PTL

\* An event whose append returned is in every later read.
THEOREM AcknowledgedDurable == Spec /\ []Calm => []AcknowledgedStays
<1>1. IInv => AcknowledgedStays
  <2> SUFFICES ASSUME IInv, NEW e \in acked
               PROVE  e.sequence <= Len(Readable) /\ Readable[e.sequence] = e
    BY DEF AcknowledgedStays
  <2>1. e.sequence \in 1..synced /\ file[e.sequence].event = e /\ Parses(file[e.sequence])
    BY DEF IInv, AckedInv, Held, SyncedInv
  <2>2. synced \in 0..Len(file) /\ Len(file) \in Nat
    BY DEF IInv, TypeOK
  <2>3. ReadFacts
    BY SoundRead DEF IInv, TypeOK
  <2>4. e.sequence \in 1..Len(Readable)
    BY <2>1, <2>2, <2>3 DEF ReadFacts, Parses
  <2> QED BY <2>1, <2>3, <2>4 DEF ReadFacts
<1> QED BY <1>1, InductiveInvariant, PTL

\* Unless the power fails, what one read returned is the beginning of what
\* every later one returns.
THEOREM SeenPrefix == Spec /\ []Calm => []SeenStays
<1>1. IInv => SeenStays
  <2> SUFFICES ASSUME IInv, ~PowerFails PROVE IsPrefix(seen, Readable)
    BY DEF SeenStays
  <2>1. seen \in Seq(Events) /\ Readable \in Seq(Events)
    BY ReadableTypes DEF IInv, TypeOK
  <2>2. Len(seen) <= Len(Readable) /\ \A i \in 1..Len(seen) : seen[i] = Readable[i]
    BY DEF IInv, SeenInv
  <2>3. SubSeq(seen, 1, Len(seen)) = SubSeq(Readable, 1, Len(seen))
    BY <2>1, <2>2
  <2> QED BY <2>2, <2>3 DEF IsPrefix
<1> QED BY <1>1, InductiveInvariant, PTL

\* No two writers append the same sequence number.
THEOREM SequencesUnique == Spec /\ []Calm => []OneLinePerSequence
<1>1. IInv => OneLinePerSequence
  BY DEF IInv, Sound, OneLinePerSequence
<1> QED BY <1>1, InductiveInvariant, PTL

\* It is calm when no write fails in a live process, or one process appends.
Undisturbed == WriteErrors => \A v, w \in Writers : v = w

\* Then a stream is never left with a whole record while another writes.
THEOREM CalmWhenUndisturbed == ASSUME Undisturbed PROVE Spec => []Calm
<1>1. IInv => Calm
  <2> SUFFICES ASSUME IInv, NEW v \in Writers, NEW w \in Writers, v # w, buffer[w] = "all"
               PROVE  FALSE
    BY DEF Calm
  <2>1. WriteErrors
    BY DEF IInv, WriterInv
  <2> QED BY <2>1 DEF Undisturbed
<1>2. IInv /\ [Next]_vars => IInv'
  BY <1>1, NextInv
<1> QED BY <1>1, <1>2, InitInv, PTL DEF Spec

-----------------------------------------------------------------------------
(* The file implements the abstract trace                                  *)

\* The abstract trace starts empty, too.
LEMMA InitAbstract == Init => Abstract!Init
BY DEF Init, Abstract!Init, Readable, Warning, EventsOf

\* A step that leaves the file alone is a stutter.
LEMMA QuietStep ==
  ASSUME UNCHANGED disk PROVE UNCHANGED Abstract!vars
BY DEF disk, Abstract!vars, Readable, Warning

\* A line that follows records its event, or tears the trace.
LEMMA LineStep ==
  ASSUME IInv, NEW e, Fresh(e), NEW form \in Pieces \cup {"line"},
         file' = Append(file, [event |-> e, form |-> form]), synced' = synced
  PROVE  Abstract!Next
<1>1. /\ file' \in Seq(Lines) /\ Len(file') = Len(file) + 1 /\ Len(file) \in Nat
      /\ file'[Len(file) + 1] = [event |-> e, form |-> form]
      /\ \A i \in 1..Len(file) : file'[i] = file[i]
      /\ Sound(file)'
  BY AppendLine DEF IInv, TypeOK
<1>2. ReadFacts /\ ReadFacts'
  BY <1>1, SoundRead, SoundReadNext DEF IInv, TypeOK
<1>3. ~Warning /\ Len(Readable) = Len(file)
  BY <1>2 DEF ReadFacts, Fresh
<1>4. file' # <<>> /\ file'[Len(file')].form = form
  BY <1>1
<1>5. Warning' <=> form # "line"
  BY <1>2, <1>4 DEF ReadFacts
<1>6. CASE form = "part"
  <2>1. Len(Readable)' = Len(Readable)
    BY <1>1, <1>2, <1>3, <1>4, <1>6 DEF ReadFacts
  <2>2. \A i \in 1..Len(Readable) : Readable'[i] = Readable[i]
    BY <1>1, <1>2, <1>3, <2>1 DEF ReadFacts
  <2>3. Readable' = Readable
    <3>1. Readable \in Seq(Events) /\ Readable' \in Seq(Events)
      BY <1>2 DEF ReadFacts
    <3> QED BY ONLY <2>1, <2>2, <3>1
  <2> QED BY <1>3, <1>5, <1>6, <2>3 DEF Abstract!Next, Abstract!Tear
<1>7. CASE form # "part"
  <2>1. Len(Readable)' = Len(Readable) + 1
    BY <1>1, <1>2, <1>3, <1>4, <1>7 DEF ReadFacts
  <2>2. /\ \A i \in 1..Len(Readable) : Readable'[i] = Readable[i]
        /\ Readable'[Len(Readable) + 1] = e
    BY <1>1, <1>2, <1>3, <2>1 DEF ReadFacts
  <2>3. e \in Events /\ e.sequence = Len(Readable) + 1
    BY <1>3 DEF Fresh
  <2>4. Readable' = Append(Readable, e)
    <3>1. Readable \in Seq(Events) /\ Readable' \in Seq(Events)
      BY <1>2 DEF ReadFacts
    <3> QED BY ONLY <2>1, <2>2, <2>3, <3>1
  <2>5. Warning' \in BOOLEAN
    BY DEF Warning
  <2> QED BY <1>3, <2>3, <2>4, <2>5 DEF Abstract!Next, Abstract!Record
<1> QED BY <1>6, <1>7

\* A power failure loses a part that was not synced.
LEMMA LoseStep ==
  ASSUME IInv, PowerFailure PROVE Abstract!Next
<1>1. /\ file' \in Seq(Lines) /\ Sound(file)'
      /\ synced' = Len(Readable)' /\ synced' \in synced..Len(file')
      /\ \A i \in 1..synced' : Parses(file[i])' /\ Parses(file[i]) /\ file'[i].event = file[i].event
  BY CutFile
<1>2. ReadFacts /\ ReadFacts' /\ Len(file) \in Nat /\ synced \in 0..Len(file)
  BY <1>1, SoundRead, SoundReadNext DEF IInv, TypeOK
<1>3. synced' <= Len(Readable)
  <2>1. synced' <= Len(file)
    BY <1>1, <1>2, CutFile
  <2> QED BY <1>1, <1>2, <2>1 DEF ReadFacts, Parses
<1>4. \A i \in 1..synced' : Readable'[i] = Readable[i]
  BY <1>1, <1>2, <1>3 DEF ReadFacts
<1>5. Readable' = SubSeq(Readable, 1, synced')
  BY <1>1, <1>2, <1>3, <1>4 DEF ReadFacts
<1>6. /\ synced' \in synced..Len(Readable) /\ synced' \in synced..Len(Readable')
      /\ Warning' \in BOOLEAN
  BY <1>1, <1>2, <1>3 DEF Warning
<1> QED BY <1>5, <1>6 DEF Abstract!Next, Abstract!Lose

\* Every step is one of the abstract trace, or a stutter.
\* The rest of a record arrives: the trace is completed, or stays as it was.
LEMMA ResumeStep ==
  ASSUME IInv, NEW e \in Events, Resumed(e), synced' = synced
  PROVE  [Abstract!Next]_(Abstract!vars)
<1>1. PICK form \in Pieces \cup {"line"} :
        /\ form = "part" => file[Len(file)].form = "part"
        /\ file' = Append(Front(file), [event |-> e, form |-> form])
  BY DEF Resumed
<1>2. /\ file' \in Seq(Lines) /\ Len(file') = Len(file) /\ Len(file) \in Nat \ {0}
      /\ file'[Len(file)] = [event |-> e, form |-> form]
      /\ \A i \in 1..(Len(file) - 1) : file'[i] = file[i]
      /\ Sound(file)'
  BY <1>1, ResumeLine DEF Resumed
<1>3. ReadFacts /\ ReadFacts'
  BY <1>2, SoundRead, SoundReadNext DEF IInv, TypeOK
<1>4. /\ Len(Readable) <= Len(Readable)'
      /\ \A i \in 1..Len(Readable) : Readable'[i] = Readable[i]
  BY ResumedGrows, GrowsReads
<1>5. file # <<>> /\ e.sequence = Len(file) /\ file[Len(file)].form \in Pieces
  BY DEF Resumed, Begun
<1>6. Warning /\ Warning' \in BOOLEAN
  BY <1>3, <1>5 DEF ReadFacts, Pieces, Warning
<1>7. Len(Readable) \in {Len(file) - 1, Len(file)} /\ Len(Readable)' \in {Len(file) - 1, Len(file)}
  BY <1>2, <1>3 DEF ReadFacts
<1>8. CASE Len(Readable)' = Len(Readable)
  <2>1. Readable' = Readable
    BY <1>3, <1>4, <1>8 DEF ReadFacts
  <2> QED BY <1>6, <2>1 DEF Abstract!Next, Abstract!Complete
<1>9. CASE Len(Readable)' # Len(Readable)
  <2>1. Len(Readable) = Len(file) - 1 /\ Len(Readable)' = Len(file)
    BY <1>2, <1>4, <1>7, <1>9
  <2>2. Readable'[Len(file)] = e
    BY <1>2, <1>3, <2>1 DEF ReadFacts
  <2>3. Readable' = Append(Readable, e)
    BY <1>2, <1>3, <1>4, <2>1, <2>2 DEF ReadFacts
  <2>4. e.sequence = Len(Readable) + 1
    BY <1>2, <1>5, <2>1
  <2> QED BY <1>6, <2>3, <2>4 DEF Abstract!Next, Abstract!Complete
<1> QED BY <1>8, <1>9

\* Every step is one of the abstract trace, or a stutter.
LEMMA StepAbstract ==
  ASSUME IInv, [Next]_vars PROVE [Abstract!Next]_(Abstract!vars)
<1>1. ASSUME NEW w \in Writers,
             \/ BeginAppend(w) \/ LockAndCheck(w) \/ Unlock(w) \/ Close(w) \/ Stop(w)
             \/ SyncFails(w)
      PROVE  UNCHANGED disk
  BY <1>1 DEF BeginAppend, LockAndCheck, Unlock, Close, Stop, SyncFails
<1>2. ASSUME NEW w \in Writers, FileStep(w) PROVE [Abstract!Next]_(Abstract!vars)
  <2>1. job[w] \in Events
    BY <1>2 DEF FileStep, Write, WriteFails, CloseFlushes, StopDuringWrite, IInv, WriterInv
  <2>2. synced' = synced /\ (file' = file \/ Recorded(job[w]) \/ Resumed(job[w]))
    BY <1>2, FileSteps
  <2>3. CASE file' = file
    BY <2>2, <2>3, QuietStep DEF disk
  <2>4. CASE Recorded(job[w])
    BY <2>2, <2>4, LineStep DEF Recorded
  <2>5. CASE Resumed(job[w])
    BY <2>1, <2>2, <2>5, ResumeStep
  <2> QED BY <2>2, <2>3, <2>4, <2>5
<1>3. ASSUME NEW w \in Writers, Sync(w) PROVE Abstract!Next
  <2>1. synced' = Len(file) /\ file' = file /\ pc[w] = "sync"
    BY <1>3 DEF Sync
  <2>2. ReadFacts /\ synced \in 0..Len(file) /\ Len(file) \in Nat
    BY SoundRead DEF IInv, TypeOK
  <2>3. file[Len(file)] = [event |-> job[w], form |-> "line"]
    BY <2>1 DEF IInv, WriterInv
  <2>4. Len(Readable) = Len(file) /\ Readable' = Readable /\ Warning' = Warning
    BY <2>1, <2>2, <2>3 DEF ReadFacts, Readable, Warning
  <2> QED BY <2>1, <2>2, <2>4 DEF Abstract!Next, Abstract!Stabilize
<1>4. CASE Read
  BY <1>4, QuietStep DEF Read
<1>5. CASE PowerFailure
  BY <1>5, LoseStep
<1>6. CASE UNCHANGED vars
  BY <1>6, QuietStep DEF vars, disk
<1> QED BY <1>1, <1>2, <1>3, <1>4, <1>5, <1>6, QuietStep DEF Next, Work, FileStep

\* The file of lines is an append-only trace.
THEOREM TraceRefinement == Spec /\ []Calm => ImplementsTrace
<1>1. IInv /\ [Next]_vars => [Abstract!Next]_(Abstract!vars)
  BY StepAbstract
<1> QED BY <1>1, InitAbstract, InductiveInvariant, PTL DEF Spec, ImplementsTrace, Abstract!Spec

\* Without the hypothesis: where no write of a live process fails, or only one
\* process appends, every behaviour has all of this.
THEOREM UndisturbedTrace ==
  ASSUME Undisturbed
  PROVE  Spec => /\ [](AlwaysReadable /\ AcknowledgedStays)
                 /\ [](SeenStays /\ OneLinePerSequence)
                 /\ ImplementsTrace
BY CalmWhenUndisturbed, TraceReadable, AcknowledgedDurable, SeenPrefix,
   SequencesUnique, TraceRefinement, PTL

=============================================================================
