----------------------------- MODULE EventStore -----------------------------
(***************************************************************************)
(* The append-only JSONL file of events: pipeline/store.py.                *)
(*                                                                         *)
(* Events are numbered in the order append() is called.  The file is the   *)
(* sequence of writes that reached it: a "whole" one is a serialized event *)
(* with its newline, any other is what a write left that broke off.  A     *)
(* line therefore extends to the next whole write, or to the end of file.  *)
(*                                                                         *)
(* One process appends, with or without a persistent handle, and may crash *)
(* at any step; one reader iterates, at any time, also while events are    *)
(* appended.                                                               *)
(***************************************************************************)
EXTENDS Naturals, Sequences

CONSTANT MaxAppends   \* bound on the number of events, for TLC

ASSUME StoreAssumption == MaxAppends \in Nat

VARIABLES
    appended,   \* how many events append() was called for
    file,       \* the writes that reached the file
    buffer,     \* events written to the persistent handle and not yet flushed
    handle,     \* self._handle: none, open, or closed by a close() that failed
    faulted,    \* whether a write has failed or broken off (history variable)
    cursor,     \* where iter_events() is in the file
    out,        \* the events it has yielded
    reading     \* whether it runs, has returned or has raised

storeVars == <<appended, file, buffer, handle, faulted>>
readerVars == <<cursor, out, reading>>
vars == <<storeVars, readerVars>>

\* What a broken-off write leaves: part of the text, all of it but the newline,
\* or a text cut inside a multi-byte character.
Broken == {"prefix", "unterminated", "cut"}
Write == [event : Nat \ {0}, part : {"whole"} \cup Broken]

TypeOK ==
    /\ appended \in Nat
    /\ file \in Seq(Write)
    /\ buffer \in Seq(Nat \ {0})
    /\ handle \in {"none", "open", "broken"}
    /\ faulted \in BOOLEAN
    /\ cursor \in Nat \ {0}
    /\ out \in Seq(Nat \ {0})
    /\ reading \in {"no", "running", "returned", "raised"}

Init ==
    /\ appended = 0
    /\ file = << >>
    /\ buffer = << >>
    /\ handle = "none"
    /\ faulted = FALSE
    /\ cursor = 1
    /\ out = << >>
    /\ reading = "no"

Whole(events) == [i \in DOMAIN events |-> [event |-> events[i], part |-> "whole"]]

-----------------------------------------------------------------------------
(* Writing.                                                                *)

\* The first k of the lines reach the file, as whole lines.
Flush(lines, k) == file' = file \o Whole(SubSeq(lines, 1, k))

\* As Flush, with a part of the line after them.
FlushBroken(lines, k) ==
    \E part \in Broken :
        file' = file \o Whole(SubSeq(lines, 1, k)) \o <<[event |-> lines[k + 1], part |-> part]>>

\* Bug: the file is opened with mode "w".
OpenTruncates ==
    /\ handle' = "open"
    /\ file' = Whole(buffer)
    /\ buffer' = << >>
    /\ UNCHANGED <<appended, faulted, readerVars>>

\* open(): an earlier handle is dropped, which flushes and closes it.
Open ==
    /\ handle' = "open"
    /\ Flush(buffer, Len(buffer))
    /\ buffer' = << >>
    /\ UNCHANGED <<appended, faulted, readerVars>>

\* Bug: close() drops the handle without flushing it.
CloseDiscards ==
    /\ handle # "none"
    /\ handle' = "none"
    /\ buffer' = << >>
    /\ UNCHANGED <<appended, file, faulted, readerVars>>

\* close(): the failed handle is closed already, so closing it again succeeds.
Close ==
    /\ handle # "none"
    /\ handle' = "none"
    /\ Flush(buffer, Len(buffer))
    /\ buffer' = << >>
    /\ UNCHANGED <<appended, faulted, readerVars>>

\* The flush inside close() fails: the handle is closed, what it held is lost,
\* and self._handle still refers to it.
CloseFails ==
    /\ faulted' = TRUE
    /\ handle = "open"
    /\ handle' = "broken"
    /\ \E k \in 0..Len(buffer) - 1 : Flush(buffer, k) \/ FlushBroken(buffer, k)
    /\ buffer' = << >>
    /\ UNCHANGED <<appended, readerVars>>

Lines == Append(buffer, appended + 1)

\* append() through the handle: Python flushes some of the lines, or none.
AppendBuffered ==
    /\ handle = "open"
    /\ \E k \in 0..Len(Lines) :
        /\ Flush(Lines, k)
        /\ buffer' = SubSeq(Lines, k + 1, Len(Lines))

\* Bug: the file is written past a handle that is open.
AppendPastHandle == Flush(<<appended + 1>>, 1) /\ UNCHANGED buffer

\* append() without a handle opens the file, writes one line and closes it.
AppendDirect ==
    /\ handle = "none"
    /\ Flush(<<appended + 1>>, 1)
    /\ UNCHANGED buffer

AppendEvent ==
    /\ appended < MaxAppends
    /\ appended' = appended + 1
    /\ AppendBuffered \/ AppendDirect
    /\ UNCHANGED <<handle, faulted, readerVars>>

\* append() raises.  The closed handle refuses every write.  A flush that fails
\* loses the new line and may lose some of the buffered ones; those that were
\* already with the buffered writer stay, unless it broke off within a line.
AppendFails ==
    /\ faulted' = TRUE
    /\ appended < MaxAppends
    /\ appended' = appended + 1
    /\ \/ handle = "broken" /\ UNCHANGED <<file, buffer>>
       \/ /\ handle # "broken"
          /\ \E k \in 0..Len(buffer) :
              \/ /\ Flush(Lines, k)
                 /\ \E kept \in k..Len(buffer) : buffer' = SubSeq(Lines, k + 1, kept)
              \/ FlushBroken(Lines, k) /\ buffer' = << >>
    /\ UNCHANGED <<handle, readerVars>>

\* The process ends without closing the handle, maybe in the middle of a flush.
WriterCrashes ==
    /\ handle' = "none"
    /\ buffer' = << >>
    /\ \/ UNCHANGED <<file, faulted>>
       \/ \E k \in 0..Len(buffer) - 1 :
            \/ Flush(buffer, k) /\ UNCHANGED faulted
            \/ FlushBroken(buffer, k) /\ faulted' = TRUE
    /\ UNCHANGED appended

\* The reader is another process, or ends with this one.
Crash ==
    /\ WriterCrashes
    /\ \/ UNCHANGED readerVars
       \/ cursor' = 1 /\ out' = << >> /\ reading' = "no"

-----------------------------------------------------------------------------
(* Reading: iter_events().                                                 *)

\* Bug: the lines are counted from 0.
StartReadingAtZero ==
    /\ reading # "running"
    /\ reading' = "running"
    /\ cursor' = 0
    /\ out' = << >>
    /\ UNCHANGED storeVars

StartReading ==
    /\ reading # "running"
    /\ reading' = "running"
    /\ cursor' = 1
    /\ out' = << >>
    /\ UNCHANGED storeVars

\* The writes i to j make one line of the file.
IsLine(i, j) ==
    /\ \A k \in i..j - 1 : file[k].part # "whole"
    /\ file[j].part = "whole" \/ j = Len(file)

\* Only a line that is one event's whole text parses.
Parses(i, j) == i = j /\ file[i].part \in {"whole", "unterminated"}

\* Bug: a corrupt line ends the iteration.
ReadLineGivingUp ==
    /\ reading = "running"
    /\ \E j \in cursor..Len(file) :
        /\ IsLine(cursor, j)
        /\ \A k \in cursor..j : file[k].part # "cut"
        /\ cursor' = IF Parses(cursor, j) THEN j + 1 ELSE Len(file) + 1
        /\ out' = IF Parses(cursor, j) THEN Append(out, file[cursor].event) ELSE out
    /\ UNCHANGED <<reading, storeVars>>

ReadLine ==
    /\ reading = "running"
    /\ \E j \in cursor..Len(file) :
        /\ IsLine(cursor, j)
        /\ \A k \in cursor..j : file[k].part # "cut"
        /\ cursor' = j + 1
        /\ out' = IF Parses(cursor, j) THEN Append(out, file[cursor].event) ELSE out
    /\ UNCHANGED <<reading, storeVars>>

\* The file is decoded in blocks, outside the try: the block with the cut
\* character raises, before the lines ahead of it in that block are yielded.
ReadRaises ==
    /\ reading = "running"
    /\ \E k \in cursor..Len(file) : file[k].part = "cut"
    /\ reading' = "raised"
    /\ UNCHANGED <<cursor, out, storeVars>>

\* Bug: the last line is left out.
ReadReturnsEarly ==
    /\ reading = "running"
    /\ cursor >= Len(file)
    /\ reading' = "returned"
    /\ UNCHANGED <<cursor, out, storeVars>>

ReadReturns ==
    /\ reading = "running"
    /\ cursor > Len(file)
    /\ reading' = "returned"
    /\ UNCHANGED <<cursor, out, storeVars>>

-----------------------------------------------------------------------------
Next ==
    \/ Open \/ Close \/ CloseFails
    \/ AppendEvent \/ AppendFails
    \/ Crash
    \/ StartReading \/ ReadLine \/ ReadRaises \/ ReadReturns

Spec == Init /\ [][Next]_vars

-----------------------------------------------------------------------------
Increasing(s) == \A i, j \in DOMAIN s : i < j => s[i] < s[j]
Yielded == {out[i] : i \in DOMAIN out}

\* Whatever fails or crashes, iter_events() yields events in the order they
\* were appended and none of them twice ("in insertion order", store.py:83).
ReplayInOrder == Increasing(out)

\* An iteration that returns has lost to a broken-off write at most that write's
\* own event and the one after it: it has yielded every whole write that begins
\* its line (store.py:85-88).  One that raises yields no more: see NeverRaises.
DamageIsLocal ==
    [][reading = "running" /\ reading' = "returned" =>
        \A i \in DOMAIN file :
            /\ file[i].part = "whole"
            /\ i = 1 \/ file[i - 1].part = "whole"
            => file[i].event \in Yielded]_vars

\* The file only grows: nothing the program does rewrites a line, so it can
\* serve as an audit log (store.py:1-10).
AppendOnly ==
    [][/\ Len(file) <= Len(file')
       /\ \A i \in DOMAIN file : file'[i] = file[i]]_vars

\* Every event whose text was written in full is yielded by an iteration that
\* returns: "callers can rely on receiving all well-formed events regardless of
\* file corruption" (store.py:86-87).
WellFormedEventsRead ==
    reading = "returned" =>
        \A i \in 1..cursor - 1 : file[i].part = "whole" => file[i].event \in Yielded

\* Whatever a crash left in the file, it can be read to its end: "the iterator
\* never raises" (store.py:86).
NeverRaises == reading # "raised"

-----------------------------------------------------------------------------
(* As long as no write fails or breaks off, the store is a log: AuditLog.  *)

EventsIn(writes) == [i \in DOMAIN writes |-> writes[i].event]

Log == INSTANCE AuditLog WITH
    count   <- appended,
    log     <- EventsIn(file) \o buffer,
    durable <- Len(file),
    given   <- out,
    sound   <- ~faulted

\* Until a write fails or breaks off, the store is that log: whatever is flushed
\* when, wherever the process crashes and starts again, whenever the file is read
\* (store.py:1-10, 33-46, 81-89).
RefinesAuditLog == Log!Spec
=============================================================================
