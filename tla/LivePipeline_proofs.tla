------------------------- MODULE LivePipeline_proofs -------------------------
(***************************************************************************)
(* Theorems of LivePipeline, for any messages, any faults, crashes and     *)
(* restarts.                                                               *)
(*                                                                         *)
(* The argument: the live states and those of a replay are both the path   *)
(* that events lead along from the initial state, so where the two took    *)
(* the same events they went through the same states.  Which events they   *)
(* took is a matter of the store, whose invariants carry over.             *)
(***************************************************************************)
EXTENDS LivePipeline, EventStore_proofs, TimingReducer_proofs

\* The states that those of the events with these numbers lead through.
Path(from, numbers, states) ==
    /\ IsSeq(states)
    /\ Len(states) = Len(numbers) + 1
    /\ states[1] = initial_state
    /\ \A i \in 1..Len(numbers) : states[i + 1] = Reduce(states[i], from[numbers[i]])

\* Both the live state and the replayed one have come along such a path.
Paths ==
    /\ IsSeq(events) /\ Len(events) = appended
    /\ lineage \in Seq(1..appended) /\ Path(events, lineage, past)
    /\ out \in Seq(1..appended) /\ Path(events, out, replay)
    /\ state = Latest(past)
    /\ mode \in {"ingesting", "starting"}

\* The reader has yielded the whole writes, one by one, unless there are others.
ReadWhole ==
    (\A i \in 1..cursor - 1 : file[i].part = "whole") =>
        /\ Len(out) = cursor - 1
        /\ \A i \in 1..Len(out) : out[i] = file[i].event

\* A process that starts writes nothing, so what it has read is the whole file.
StartingReads ==
    mode = "starting" => buffer = << >> /\ (reading = "returned" => cursor = Len(file) + 1)

\* Until a fault the live session has applied exactly the events of the log.
FollowsLog == mode = "ingesting" /\ ~faulted => lineage = LogIn(file, buffer)

PipelineInv == Paths /\ ReadWhole /\ StartingReads /\ FollowsLog

\* Every step is one of the store and its reader, or leaves them alone, so
\* their invariants carry over.
LEMMA StoreSteps == ASSUME [PipelineNext]_allVars PROVE [Next]_vars
<1>1. CASE Ingest
  BY <1>1 DEF Ingest, IngestEvent, Next
<1>2. CASE HandleStep
  BY <1>2 DEF HandleStep, Next
<1>3. CASE StartReplay \/ ReplayLine \/ ReplayEnds
  BY <1>3 DEF StartReplay, ReplayLine, ReplayEnds, Next
<1>4. CASE ProcessCrashes
  BY <1>4 DEF ProcessCrashes, Next
<1>5. CASE Resume
  BY <1>5 DEF Resume
<1>6. CASE UNCHANGED allVars
  BY <1>6 DEF allVars
<1> QED
  BY <1>1, <1>2, <1>3, <1>4, <1>5, <1>6 DEF PipelineNext

StoreInv == TypeOK /\ StoreOrder /\ ReaderInv /\ LogInv

LEMMA StoreInvAlways == PipelineSpec => []StoreInv
<1>1. PipelineInit => StoreInv
  <2>1. Init => LogInv
    BY DEF Init, LogInv, Intact
  <2> QED
    BY <2>1, TypeInit, StoreOrderInit, ReaderInvInit DEF PipelineInit, StoreInv
<1>2. StoreInv /\ [PipelineNext]_allVars => StoreInv'
  <2> SUFFICES ASSUME StoreInv, [PipelineNext]_allVars PROVE StoreInv'
    OBVIOUS
  <2>1. [Next]_vars
    BY StoreSteps
  <2>2. TypeOK' /\ ReaderInv' /\ LogInv'
    BY <2>1, TypeStep, ReaderInvStep, LogStep DEF StoreInv
  <2>3. StoreOrder'
    BY <2>1, StoreStep DEF StoreInv, StoreOrder, Kept
  <2> QED
    BY <2>2, <2>3 DEF StoreInv
<1> QED
  BY <1>1, <1>2, PTL DEF PipelineSpec

-----------------------------------------------------------------------------
(* Paths. *)

\* Paths through the same events go through the same states: else there were a
\* first state where they differ.
LEMMA SamePath ==
    ASSUME NEW e, NEW a, NEW s, IsSeq(a), Path(e, a, s), NEW b, NEW t, IsSeq(b), Path(e, b, t),
           NEW n \in Nat, n <= Len(a), n <= Len(b), \A i \in 1..n : a[i] = b[i]
    PROVE  \A i \in 1..n + 1 : s[i] = t[i]
<1> DEFINE Differ == {i \in 1..n + 1 : s[i] # t[i]}
<1> SUFFICES ASSUME Differ # {} PROVE FALSE
  OBVIOUS
<1>1. PICK m \in Differ : \A k \in Differ : m <= k
  <2>1. Differ \in SUBSET Nat
    OBVIOUS
  <2> HIDE DEF Differ
  <2> QED
    BY <2>1, Least
<1>2. m # 1
  BY DEF Path
<1>3. m - 1 \in 1..n /\ m - 1 \notin Differ /\ (m - 1) + 1 = m /\ Len(a) \in Nat /\ Len(b) \in Nat
  BY <1>1, <1>2, SeqDomain
<1>4. s[m - 1] = t[m - 1] /\ a[m - 1] = b[m - 1]
  BY <1>3
<1>5. s[m] = Reduce(s[m - 1], e[a[m - 1]]) /\ t[m] = Reduce(t[m - 1], e[b[m - 1]])
  <2>1. m - 1 \in 1..Len(a) /\ m - 1 \in 1..Len(b)
    BY <1>3
  <2> QED
    BY <1>3, <2>1 DEF Path
<1> QED
  BY <1>4, <1>5

\* More events do not change the path of the earlier ones.
LEMMA PathKept ==
    ASSUME NEW e, NEW f, NEW top \in Nat, \A i \in 1..top : f[i] = e[i],
           NEW a \in Seq(1..top), NEW s, Path(e, a, s)
    PROVE  Path(f, a, s)
<1>1. \A i \in 1..Len(a) : a[i] \in 1..top
  OBVIOUS
<1> QED
  BY <1>1 DEF Path

\* A path goes on with one more event.
LEMMA PathExtended ==
    ASSUME NEW e, NEW a, NEW s, IsSeq(a), Path(e, a, s), NEW next, NEW final,
           final = Reduce(Latest(s), e[next])
    PROVE  Path(e, Append(a, next), Append(s, final))
<1> DEFINE t == Append(s, final)
           b == Append(a, next)
<1>1. /\ IsSeq(s) /\ Len(a) \in Nat /\ Len(s) = Len(a) + 1 /\ s[1] = initial_state
      /\ \A i \in 1..Len(a) : s[i + 1] = Reduce(s[i], e[a[i]])
  BY SeqDomain DEF Path
<1>2. IsSeq(t) /\ Len(t) = Len(s) + 1 /\ t[Len(s) + 1] = final /\ \A i \in 1..Len(s) : t[i] = s[i]
  BY <1>1, AppendAnything
<1>3. Len(b) = Len(a) + 1 /\ b[Len(a) + 1] = next /\ \A i \in 1..Len(a) : b[i] = a[i]
  BY AppendAnything
<1>4. final = Reduce(s[Len(s)], e[next])
  BY DEF Latest
<1> HIDE DEF t, b
<1>5. ASSUME NEW i \in 1..Len(b) PROVE t[i + 1] = Reduce(t[i], e[b[i]])
  <2>1. CASE i \in 1..Len(a)
    <3>1. i \in 1..Len(s) /\ i + 1 \in 1..Len(s)
      BY <1>1, <2>1
    <3> QED
      BY <1>1, <1>2, <1>3, <2>1, <3>1
  <2>2. CASE i \notin 1..Len(a)
    <3>1. i = Len(s) /\ i = Len(a) + 1 /\ i \in 1..Len(s)
      BY <1>1, <1>3, <2>2
    <3> QED
      BY <1>2, <1>3, <1>4, <3>1
  <2> QED
    BY <2>1, <2>2
<1>6. 1 \in 1..Len(s)
  BY <1>1
<1> QED
  BY <1>1, <1>2, <1>3, <1>5, <1>6 DEF Path, t, b

LEMMA EmptyPath == ASSUME NEW e PROVE Path(e, << >>, <<initial_state>>)
<1>1. <<initial_state>> \in Seq({initial_state})
  OBVIOUS
<1>2. IsSeq(<<initial_state>>)
  BY <1>1, SeqIsSeq
<1> QED
  BY <1>2 DEF Path

-----------------------------------------------------------------------------
(* The invariant, step by step. *)

LEMMA PipelineInvInit == PipelineInit => PipelineInv
<1> SUFFICES ASSUME PipelineInit PROVE PipelineInv
  OBVIOUS
<1>1. Path(events, lineage, past) /\ Path(events, out, replay)
  BY EmptyPath DEF PipelineInit, Init
<1>2. events \in Seq({}) /\ lineage \in Seq(1..appended) /\ out \in Seq(1..appended)
  BY DEF PipelineInit, Init
<1>3. IsSeq(events)
  BY <1>2, SeqIsSeq
<1>4. Paths
  BY <1>1, <1>2, <1>3 DEF PipelineInit, Init, Paths, Latest
<1>5. LogIn(file, buffer) = << >>
  BY DEF PipelineInit, Init, LogIn, EventsIn
<1> QED
  BY <1>4, <1>5 DEF PipelineInit, Init, PipelineInv, ReadWhole, StartingReads, FollowsLog

\* The numbers of the events: an append gives out the next one, and nothing else does.
LEMMA Counted ==
    ASSUME TypeOK, Open \/ Close \/ CloseFails \/ Crash PROVE appended' = appended
  BY DEF Open, Close, CloseFails, Crash, WriterCrashes

LEMMA MoreNumbers == ASSUME NEW n \in Nat, NEW s \in Seq(1..n) PROVE s \in Seq(1..n + 1)
<1>1. 1..n \subseteq 1..n + 1
  OBVIOUS
<1> QED
  BY <1>1, SeqMonotonic

\* An event that is ingested: appended and reduced, or lost.
LEMMA PathsIngest == ASSUME StoreInv, Paths, Ingest PROVE Paths'
<1>1. PICK event : IngestEvent(event)
  BY DEF Ingest
<1>2. /\ appended \in Nat /\ appended' = appended + 1 /\ events' = Append(events, event)
      /\ out' = out /\ replay' = replay /\ mode' = mode
  BY <1>1 DEF IngestEvent, AppendEvent, AppendFails, readerVars, StoreInv, TypeOK
<1>3. /\ IsSeq(events') /\ Len(events') = appended + 1 /\ events'[appended + 1] = event
      /\ \A i \in 1..appended : events'[i] = events[i]
  BY <1>2, AppendAnything DEF Paths
<1>4. out \in Seq(1..appended + 1) /\ lineage \in Seq(1..appended + 1)
  BY <1>2, MoreNumbers DEF Paths
<1>5. Path(events', out, replay) /\ Path(events', lineage, past)
  BY <1>2, <1>3, PathKept DEF Paths
<1>6. /\ lineage' \in Seq(1..appended + 1) /\ Path(events', lineage', past')
      /\ state' = Latest(past')
  <2>1. CASE UNCHANGED <<state, lineage, past>>
    BY <1>4, <1>5, <2>1 DEF Paths
  <2>2. CASE state' = Reduce(state, event) /\ lineage' = Append(lineage, appended') /\ past' = Append(past, state')
    <3>1. state' = Reduce(Latest(past), events'[appended']) /\ appended' \in 1..appended + 1
      BY <1>2, <1>3, <2>2 DEF Paths
    <3>2. Path(events', lineage', past')
      BY <1>4, <1>5, <2>2, <3>1, PathExtended, SeqIsSeq
    <3>3. lineage' \in Seq(1..appended + 1)
      BY <1>4, <2>2, <3>1, AppendProperties
    <3>4. Latest(past') = state'
      <4>1. IsSeq(past)
        BY DEF Paths, Path
      <4> QED
        BY <2>2, <4>1, AppendAnything DEF Latest
    <3> QED
      BY <3>2, <3>3, <3>4
  <2> QED
    BY <1>1, <2>1, <2>2 DEF IngestEvent
<1> QED
  BY <1>2, <1>3, <1>4, <1>5, <1>6 DEF Paths, Latest

\* A line that is replayed: its event is reduced, if it has one.
LEMMA PathsReplay == ASSUME StoreInv, Paths, ReplayLine PROVE Paths'
<1>1. PICK j \in cursor..Len(file) :
        out' = IF Parses(cursor, j) THEN Append(out, file[cursor].event) ELSE out
  BY DEF ReplayLine, ReadLine
<1>2. /\ appended \in Nat /\ out \in Seq(1..appended) /\ IsSeq(out) /\ Path(events, out, replay)
      /\ appended' = appended
      /\ events' = events /\ state' = state /\ lineage' = lineage /\ past' = past /\ mode' = mode
  BY SeqIsSeq DEF ReplayLine, ReadLine, storeVars, pipelineVars, Paths, StoreInv, TypeOK
<1>3. out' \in Seq(1..appended) /\ Path(events, out', replay')
  <2>1. CASE out' = out
    BY <1>2, <2>1 DEF ReplayLine
  <2>2. CASE out' # out
    <3> DEFINE next == file[cursor].event
    <3>1. out' = Append(out, next)
      BY <1>1, <2>2
    <3>2. next \in 1..appended
      <4>1. cursor \in 1..Len(file)
        BY DEF StoreInv, TypeOK
      <4>2. next \in Nat \ {0}
        BY <4>1, EventsAreNumbers DEF StoreInv
      <4>3. next <= appended
        BY <4>1 DEF StoreInv, StoreOrder, Order
      <4> QED
        BY <1>2, <4>2, <4>3
    <3> HIDE DEF next
    <3>3. Latest(out') = next
      BY <1>2, <3>1, AppendAnything DEF Latest
    <3>4. replay' = Append(replay, Reduce(Latest(replay), events[next]))
      BY <2>2, <3>3 DEF ReplayLine
    <3>5. Path(events, out', replay')
      BY <1>2, <3>1, <3>4, PathExtended
    <3>6. out' \in Seq(1..appended)
      BY <1>2, <3>1, <3>2, AppendProperties
    <3> QED
      BY <3>5, <3>6
  <2> QED
    BY <2>1, <2>2
<1> QED
  BY <1>2, <1>3 DEF Paths, Latest

LEMMA PathsStep == ASSUME StoreInv, Paths, [PipelineNext]_allVars PROVE Paths'
<1>1. CASE Ingest
  BY <1>1, PathsIngest
<1>2. CASE ReplayLine
  BY <1>2, PathsReplay
<1>3. CASE HandleStep \/ ReplayEnds \/ UNCHANGED allVars
  <2>1. /\ appended' = appended /\ out' = out
        /\ UNCHANGED <<events, state, lineage, past, mode, replay>>
    BY <1>3 DEF HandleStep, Open, Close, CloseFails, ReplayEnds, ReadReturns, ReadRaises,
                readerVars, storeVars, pipelineVars, allVars, vars
  <2> QED
    BY <2>1 DEF Paths, Latest
<1>4. CASE StartReplay \/ ProcessCrashes
  <2>1. /\ appended' = appended /\ out' = << >> /\ replay' = <<initial_state>>
        /\ UNCHANGED <<events, state, lineage, past>> /\ mode' \in {mode, "starting"}
    BY <1>4 DEF StartReplay, ProcessCrashes, StartReading, Crash, WriterCrashes, storeVars, pipelineVars
  <2>2. Path(events', out', replay') /\ out' \in Seq(1..appended)
    BY <2>1, EmptyPath
  <2> QED
    BY <2>1, <2>2 DEF Paths, Latest
<1>5. CASE Resume
  <2>1. /\ appended' = appended /\ out' = out /\ replay' = replay /\ events' = events
        /\ state' = Latest(replay) /\ lineage' = out /\ past' = replay /\ mode' = "ingesting"
    BY <1>5 DEF Resume, vars, storeVars, readerVars
  <2> QED
    BY <2>1 DEF Paths, Latest
<1> QED
  BY <1>1, <1>2, <1>3, <1>4, <1>5 DEF PipelineNext

\* While the writes are whole each is a line of its own.
LEMMA ReadWholeStep == ASSUME StoreInv, ReadWhole, [Next]_vars PROVE ReadWhole'
<1>1. /\ cursor \in Nat \ {0} /\ Len(file) \in Nat /\ cursor <= Len(file) + 1
      /\ out \in Seq(Nat \ {0}) /\ file \in Seq(Write)
      /\ \A i \in 1..Len(file) : file'[i] = file[i]
  <2>1. Grows
    BY StoreStep DEF StoreInv, Kept
  <2> QED
    BY <2>1 DEF StoreInv, TypeOK, ReaderInv, Grows
<1>2. CASE UNCHANGED <<cursor, out>>
  <2>1. \A i \in 1..cursor - 1 : file'[i] = file[i]
    BY <1>1
  <2>2. Len(out) = cursor - 1 => \A i \in 1..Len(out) : i \in 1..cursor - 1
    BY <1>1
  <2> QED
    BY <1>2, <2>1, <2>2 DEF ReadWhole
<1>3. CASE cursor' = 1 /\ out' = << >>
  BY <1>3 DEF ReadWhole
<1>4. CASE ReadLine
  <2>1. PICK j \in cursor..Len(file) :
          /\ IsLine(cursor, j)
          /\ cursor' = j + 1
          /\ out' = IF Parses(cursor, j) THEN Append(out, file[cursor].event) ELSE out
    BY <1>4 DEF ReadLine
  <2> SUFFICES ASSUME \A i \in 1..cursor' - 1 : file'[i].part = "whole"
               PROVE  /\ Len(out') = cursor' - 1
                      /\ \A i \in 1..Len(out') : out'[i] = file'[i].event
    BY DEF ReadWhole
  <2>2. /\ file' = file /\ j \in Nat /\ cursor \in Nat /\ cursor <= j /\ cursor \in 1..Len(file)
        /\ \A i \in 1..j : file[i].part = "whole"
    BY <1>1, <1>4, <2>1 DEF ReadLine, storeVars
  <2>3. j = cursor
    <3>1. \A i \in cursor..j - 1 : i \in 1..j /\ file[i].part # "whole"
      BY <1>1, <2>1, <2>2 DEF IsLine
    <3>2. \A i \in cursor..j - 1 : FALSE
      BY <2>2, <3>1
    <3> QED
      BY <2>2, <3>2
  <2>4. Parses(cursor, j)
    BY <1>1, <2>2, <2>3 DEF Parses
  <2>5. Len(out) = cursor - 1 /\ \A i \in 1..Len(out) : out[i] = file[i].event
    <3>1. \A i \in 1..cursor - 1 : i \in 1..j
      BY <1>1, <2>3
    <3> QED
      BY <2>2, <3>1 DEF ReadWhole
  <2>6. file[cursor].event \in Nat \ {0}
    BY <2>2, EventsAreNumbers DEF StoreInv
  <2>7. /\ Len(out') = Len(out) + 1 /\ out'[Len(out) + 1] = file[cursor].event
        /\ \A i \in 1..Len(out) : out'[i] = out[i]
    BY <1>1, <2>1, <2>4, <2>6, AppendProperties
  <2>8. Len(out) + 1 = cursor /\ \A i \in 1..Len(out) + 1 : i \in 1..Len(out) \/ i = cursor
    BY <1>1, <2>5
  <2>9. \A i \in 1..Len(out') : out'[i] = file[i].event
    BY <2>5, <2>7, <2>8
  <2> QED
    BY <1>1, <2>1, <2>2, <2>3, <2>7, <2>8, <2>9
<1> QED
  BY <1>2, <1>3, <1>4, ReaderStep

LEMMA StartingReadsStep ==
    ASSUME StoreInv, StartingReads, [PipelineNext]_allVars PROVE StartingReads'
<1>1. CASE Ingest \/ HandleStep \/ Resume
  BY <1>1 DEF Ingest, IngestEvent, HandleStep, Resume, StartingReads
<1>2. CASE ProcessCrashes
  BY <1>2 DEF ProcessCrashes, Crash, WriterCrashes, StartingReads
<1>3. CASE StartReplay \/ ReplayLine \/ ReplayEnds
  <2>1. UNCHANGED <<file, buffer, mode>>
    BY <1>3 DEF StartReplay, ReplayLine, ReplayEnds, StartReading, ReadLine, ReadReturns, ReadRaises,
                storeVars, pipelineVars
  <2>2. reading' = "returned" => cursor' = Len(file) + 1
    <3>1. CASE StartReplay \/ ReplayLine
      BY <3>1 DEF StartReplay, ReplayLine, StartReading, ReadLine
    <3>2. CASE ReplayEnds
      <4>1. cursor \in Nat /\ Len(file) \in Nat /\ cursor <= Len(file) + 1
        BY DEF StoreInv, TypeOK, ReaderInv
      <4>2. cursor' = cursor /\ (reading' = "returned" => cursor > Len(file))
        BY <3>2 DEF ReplayEnds, ReadReturns, ReadRaises
      <4> QED
        BY <4>1, <4>2
    <3> QED
      BY <1>3, <3>1, <3>2
  <2> QED
    BY <2>1, <2>2 DEF StartingReads
<1>4. CASE UNCHANGED allVars
  BY <1>4 DEF allVars, vars, storeVars, readerVars, pipelineVars, StartingReads
<1> QED
  BY <1>1, <1>2, <1>3, <1>4 DEF PipelineNext

\* What a replay of the whole file has read, when nothing is buffered.
LEMMA WholeFileRead ==
    ASSUME StoreInv, ReadWhole, buffer = << >>, cursor = Len(file) + 1, ~faulted
    PROVE  LogIn(file, buffer) = out
<1>1. /\ file \in Seq(Write) /\ Len(file) \in Nat /\ out \in Seq(Number) /\ buffer \in Seq(Number)
      /\ Len(buffer) = 0
  BY DEF StoreInv, TypeOK, Number
<1>2. Len(out) = Len(file) /\ \A i \in 1..Len(file) : out[i] = file[i].event
  <2>1. \A i \in 1..Len(file) : file[i].part = "whole"
    BY DEF StoreInv, LogInv, Intact
  <2> QED
    BY <1>1, <2>1 DEF ReadWhole
<1>3. /\ LogIn(file, buffer) \in Seq(Number) /\ Len(LogIn(file, buffer)) = Len(file)
      /\ \A i \in 1..Len(file) : LogIn(file, buffer)[i] = file[i].event
  <2>1. Len(file) + Len(buffer) = Len(file) /\ \A i \in 1..Len(file) : i <= Len(file)
    BY <1>1
  <2> QED
    BY <1>1, <2>1, LogEntries
<1> QED
  BY <1>1, <1>2, <1>3, SeqEqual

LEMMA FollowsLogStep ==
    ASSUME StoreInv, PipelineInv, [PipelineNext]_allVars PROVE FollowsLog'
<1> SUFFICES ASSUME mode' = "ingesting", ~faulted'
             PROVE  lineage' = LogIn(file', buffer')
  BY DEF FollowsLog
<1>1. ~faulted /\ Intact
  <2>1. [Next]_vars
    BY StoreSteps
  <2> QED
    BY <2>1, FaultStays DEF StoreInv, LogInv
<1>2. mode = "ingesting" => lineage = LogIn(file, buffer)
  BY <1>1 DEF PipelineInv, FollowsLog
<1>3. CASE Ingest
  <2>1. /\ mode = "ingesting" /\ AppendEvent /\ lineage' = Append(lineage, appended') /\ appended' = appended + 1
    BY <1>3 DEF Ingest, IngestEvent, AppendFails, AppendEvent
  <2>2. LogIn(file', buffer') = Append(LogIn(file, buffer), appended + 1)
    BY <1>1, <2>1, EventLogged DEF StoreInv
  <2> QED
    BY <1>2, <2>1, <2>2
<1>4. CASE HandleStep
  <2>1. mode = "ingesting" /\ (Open \/ Close) /\ lineage' = lineage
    BY <1>4 DEF HandleStep, CloseFails
  <2>2. LogIn(file', buffer') = LogIn(file, buffer)
    BY <1>1, <2>1, OpenOrCloseSyncs DEF StoreInv
  <2> QED
    BY <1>2, <2>1, <2>2
<1>5. CASE StartReplay \/ ReplayLine \/ ReplayEnds \/ UNCHANGED allVars
  <2>1. UNCHANGED <<file, buffer, mode, lineage>>
    BY <1>5 DEF StartReplay, ReplayLine, ReplayEnds, StartReading, ReadLine, ReadReturns, ReadRaises,
                storeVars, pipelineVars, allVars, vars
  <2> QED
    BY <1>2, <2>1
<1>6. CASE ProcessCrashes
  BY <1>6 DEF ProcessCrashes
<1>7. CASE Resume
  <2>1. /\ file' = file /\ buffer' = buffer /\ lineage' = out
        /\ buffer = << >> /\ cursor = Len(file) + 1
    BY <1>7 DEF Resume, vars, storeVars, PipelineInv, StartingReads
  <2>2. LogIn(file, buffer) = out
    BY <1>1, <2>1, WholeFileRead DEF PipelineInv
  <2> QED
    BY <2>1, <2>2
<1> QED
  BY <1>3, <1>4, <1>5, <1>6, <1>7 DEF PipelineNext

LEMMA PipelineInvariant == PipelineSpec => [](StoreInv /\ PipelineInv)
<1>1. StoreInv /\ PipelineInv /\ [PipelineNext]_allVars => PipelineInv'
  <2> SUFFICES ASSUME StoreInv, PipelineInv, [PipelineNext]_allVars PROVE PipelineInv'
    OBVIOUS
  <2>1. Paths' /\ StartingReads' /\ FollowsLog'
    BY PathsStep, StartingReadsStep, FollowsLogStep DEF PipelineInv
  <2>2. ReadWhole'
    BY StoreSteps, ReadWholeStep DEF PipelineInv
  <2> QED
    BY <2>1, <2>2 DEF PipelineInv
<1> QED
  BY <1>1, PipelineInvInit, StoreInvAlways, PTL DEF PipelineSpec

-----------------------------------------------------------------------------
(* The properties. *)

\* The pipeline's variables keep their types: in particular the history of the
\* live states and that of the replayed ones are as long as the events that led
\* to them, whatever fails, crashes and starts again (ingest.py:44-48).
THEOREM PipelineTypeCorrect == PipelineSpec => []PipelineTypeOK
<1>1. StoreInv /\ PipelineInv => PipelineTypeOK
  BY DEF StoreInv, PipelineInv, Paths, Path, PipelineTypeOK
<1> QED
  BY <1>1, PipelineInvariant, PTL

\* While the file follows the live session, what has been read of it are the
\* first of the session's events.
LEMMA ReadFollows ==
    ASSUME StoreInv, PipelineInv, FileFollowsLive
    PROVE  /\ Len(out) <= Len(lineage) /\ Len(out) = cursor - 1
           /\ \A i \in 1..Len(out) : out[i] = lineage[i]
<1>1. /\ cursor \in Nat \ {0} /\ Len(file) \in Nat /\ cursor <= Len(file) + 1 /\ DOMAIN file = 1..Len(file)
      /\ Len(lineage) \in Nat /\ DOMAIN lineage = 1..Len(lineage)
  <2>1. file \in Seq(Write) /\ lineage \in Seq(1..appended)
    BY DEF StoreInv, TypeOK, PipelineInv, Paths
  <2> QED
    BY <2>1 DEF StoreInv, TypeOK, ReaderInv
<1>2. \A i \in 1..Len(file) :
        i \in 1..Len(lineage) /\ file[i].part = "whole" /\ file[i].event = lineage[i]
  BY <1>1 DEF FileFollowsLive
<1>3. \A i \in 1..cursor - 1 : i \in 1..Len(file)
  BY <1>1
<1>4. Len(out) = cursor - 1 /\ \A i \in 1..Len(out) : out[i] = file[i].event
  BY <1>2, <1>3 DEF PipelineInv, ReadWhole
<1>5. Len(out) <= Len(lineage)
  BY <1>1, <1>2, <1>3, <1>4
<1> QED
  BY <1>2, <1>3, <1>4, <1>5

\* A replay, also one of a session still running, goes through the states the
\* live session went through (replay.py:4-7, ingest.py:44-48).
THEOREM ShowsPast == PipelineSpec => []ReplayShowsPast
<1>1. StoreInv /\ PipelineInv => ReplayShowsPast
  <2> SUFFICES ASSUME StoreInv, PipelineInv, FileFollowsLive, NEW i \in DOMAIN replay
               PROVE  i \in DOMAIN past /\ replay[i] = past[i]
    BY DEF ReplayShowsPast
  <2>1. /\ IsSeq(out) /\ IsSeq(lineage) /\ Path(events, out, replay) /\ Path(events, lineage, past)
    BY SeqIsSeq DEF PipelineInv, Paths
  <2>2. /\ Len(out) \in Nat /\ Len(lineage) \in Nat /\ DOMAIN replay = 1..Len(out) + 1
        /\ DOMAIN past = 1..Len(lineage) + 1
    BY <2>1, SeqDomain DEF Path
  <2>3. \A k \in 1..Len(out) + 1 : replay[k] = past[k]
    BY <2>1, <2>2, ReadFollows, SamePath
  <2>4. Len(out) <= Len(lineage)
    BY ReadFollows
  <2> QED
    BY <2>2, <2>3, <2>4
<1> QED
  BY <1>1, PipelineInvariant, PTL

\* A replay of the whole file ends in the live state once nothing is buffered,
\* after any crashes and restarts, until a write fails (replay.py:4-7).
THEOREM Agrees == PipelineSpec => []ReplayAgrees
<1>1. StoreInv /\ PipelineInv => ReplayAgrees
  <2> SUFFICES ASSUME StoreInv, PipelineInv, mode = "ingesting", buffer = << >>, ~faulted,
                      cursor = Len(file) + 1
               PROVE  Latest(replay) = state
    BY DEF ReplayAgrees
  <2>1. lineage = out
    BY WholeFileRead DEF PipelineInv, FollowsLog
  <2>2. IsSeq(out) /\ Path(events, out, replay) /\ Path(events, out, past) /\ state = Latest(past)
    BY <2>1, SeqIsSeq DEF PipelineInv, Paths
  <2>3. Len(out) \in Nat /\ Len(replay) = Len(out) + 1 /\ Len(past) = Len(out) + 1
    BY <2>2, SeqDomain DEF Path
  <2>4. \A k \in 1..Len(out) + 1 : replay[k] = past[k]
    BY <2>2, <2>3, SamePath
  <2> QED
    BY <2>2, <2>3, <2>4 DEF Latest
<1> QED
  BY <1>1, PipelineInvariant, PTL

\* A process that starts again goes on from the state after the last event that
\* reached the file (store.py:33-46, 61-69).
THEOREM Resumes == PipelineSpec => ResumesPast
<1>1. StoreInv /\ PipelineInv /\ [PipelineNext]_allVars
        => [mode = "starting" /\ mode' = "ingesting" /\ FileFollowsLive
              => past' = SubSeq(past, 1, Len(file) + 1)]_allVars
  <2> SUFFICES ASSUME StoreInv, PipelineInv, [PipelineNext]_allVars,
                      mode = "starting", mode' = "ingesting", FileFollowsLive
               PROVE  past' = SubSeq(past, 1, Len(file) + 1)
    OBVIOUS
  <2>1. Resume
    BY DEF PipelineNext, Ingest, IngestEvent, HandleStep, StartReplay, ReplayLine, ReplayEnds,
           ProcessCrashes, pipelineVars, allVars
  <2>2. past' = replay /\ cursor = Len(file) + 1
    BY <2>1 DEF Resume, PipelineInv, StartingReads
  <2> DEFINE n == Len(file) + 1
             T == {past[i] : i \in DOMAIN past}
  <2>3. /\ IsSeq(out) /\ IsSeq(lineage) /\ Path(events, out, replay) /\ Path(events, lineage, past)
    BY SeqIsSeq DEF PipelineInv, Paths
  <2>4. /\ Len(out) \in Nat /\ Len(lineage) \in Nat /\ Len(file) \in Nat
        /\ Len(out) + 1 = n /\ n <= Len(past) /\ Len(replay) = n
        /\ DOMAIN past = 1..Len(past) /\ Len(past) \in Nat
    <3>1. Len(out) = Len(file) /\ Len(out) <= Len(lineage) /\ Len(file) \in Nat
      BY <2>2, ReadFollows DEF StoreInv, TypeOK
    <3>2. IsSeq(past) /\ Len(past) = Len(lineage) + 1 /\ Len(replay) = Len(out) + 1
      BY <2>3 DEF Path
    <3>3. DOMAIN past = 1..Len(past) /\ Len(past) \in Nat /\ Len(lineage) \in Nat
      BY <2>3, <3>2, SeqDomain
    <3> QED
      BY <3>1, <3>2, <3>3
  <2>5. \A k \in 1..n : replay[k] = past[k]
    <3>1. Len(out) <= Len(lineage) /\ \A i \in 1..Len(out) : out[i] = lineage[i]
      BY ReadFollows
    <3>2. Len(out) <= Len(out)
      BY <2>4
    <3>3. Len(out) \in Nat /\ Len(out) + 1 = n
      BY <2>4
    <3>4. \A k \in 1..Len(out) + 1 : replay[k] = past[k]
      <4> HIDE DEF n, T
      <4> QED
        BY <2>3, <3>1, <3>2, <3>3, SamePath
    <3> QED
      BY <3>3, <3>4, Zenon
  <2>6. \A k \in 1..n : past[k] \in T
    BY <2>4
  <2> HIDE DEF n, T
  <2>7. n \in Nat
    BY <2>4 DEF n
  <2>8. /\ SubSeq(past, 1, n) \in Seq(T) /\ Len(SubSeq(past, 1, n)) = n
        /\ \A k \in 1..n : SubSeq(past, 1, n)[k] = past[k]
    <3>1. /\ SubSeq(past, 1, n) \in Seq(T)
          /\ Len(SubSeq(past, 1, n)) = IF 1 <= n THEN n - 1 + 1 ELSE 0
          /\ \A k \in 1..n - 1 + 1 : SubSeq(past, 1, n)[k] = past[1 + k - 1]
      BY <2>6, <2>7, SubSeqProperties
    <3>2. 1 <= n /\ n - 1 + 1 = n /\ \A k \in 1..n : 1 + k - 1 = k
      BY <2>4, <2>7
    <3> QED
      BY <3>1, <3>2
  <2>9. replay \in Seq(T)
    <3>1. IsSeq(replay)
      BY <2>3 DEF Path
    <3>2. DOMAIN replay = 1..n
      BY <2>4, <3>1, SeqDomain
    <3>3. {replay[k] : k \in DOMAIN replay} \subseteq T
      BY <2>5, <2>6, <3>2
    <3> QED
      BY <3>1, <3>3, SeqMonotonic DEF IsSeq
  <2>10. replay = SubSeq(past, 1, n)
    BY <2>4, <2>5, <2>8, <2>9, SeqEqual
  <2> QED
    BY <2>2, <2>10 DEF n
<1> QED
  BY <1>1, PipelineInvariant, PTL DEF PipelineSpec, ResumesPast
=============================================================================
