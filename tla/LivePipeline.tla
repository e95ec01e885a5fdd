---------------------------- MODULE LivePipeline ----------------------------
(***************************************************************************)
(* The live path and the replay of what it stored: ingest.py, replay.py    *)
(* and the replay branch of sources.load_state, over EventStore,           *)
(* Normalizer and TimingReducer.                                           *)
(*                                                                         *)
(* One process ingests raw messages: normalize, store, reduce.  Someone    *)
(* replays the store at any time.  The process may crash; it starts again  *)
(* by replaying the store and goes on from the state this gives.           *)
(***************************************************************************)
EXTENDS EventStore, TimingReducer, Normalizer

CONSTANT Messages   \* the raw messages that may arrive, as a sequence

VARIABLES
    events,     \* the content of every event append() was called for
    state,      \* the live TimingState
    lineage,    \* the events that led to it (history variable)
    past,       \* the states on the way: past[i + 1] after i of them (history)
    mode,       \* whether the process ingests or starts again
    replay      \* the states of the replay: replay[i + 1] after i events; the
                \* last is ReplayRunner's own, the others are history

pipelineVars == <<events, state, lineage, past, mode>>
allVars == <<vars, pipelineVars, replay>>

Latest(states) == states[Len(states)]

PipelineTypeOK ==
    /\ TypeOK
    /\ Len(events) = appended
    /\ lineage \in Seq(1..appended)
    /\ Len(past) = Len(lineage) + 1
    /\ Len(replay) = Len(out) + 1
    /\ mode \in {"ingesting", "starting"}

PipelineInit ==
    /\ Init
    /\ events = << >>
    /\ state = initial_state
    /\ lineage = << >>
    /\ past = <<initial_state>>
    /\ mode = "ingesting"
    /\ replay = <<initial_state>>

-----------------------------------------------------------------------------
(* The live path: ingest(). *)

\* The event of a message is appended, then reduced, unless append() raised.
IngestEvent(event) ==
    /\ mode = "ingesting"
    /\ events' = Append(events, event)
    /\ \/ /\ AppendEvent
          /\ state' = Reduce(state, event)
          /\ lineage' = Append(lineage, appended')
          /\ past' = Append(past, state')
       \/ /\ AppendFails
          /\ UNCHANGED <<state, lineage, past>>
    /\ UNCHANGED <<mode, replay>>

\* Nothing happens for a message that normalizes to None.
Ingest ==
    \E i \in DOMAIN Messages :
        LET event == normalize(Messages[i])
        IN  event # None /\ IngestEvent(event)

\* The process opens or closes the store's handle.
HandleStep ==
    /\ mode = "ingesting"
    /\ Open \/ Close \/ CloseFails
    /\ UNCHANGED <<events, state, lineage, past, mode, replay>>

-----------------------------------------------------------------------------
(* Replay: ReplayRunner.run() over iter_events(). *)

\* Bug: a second run goes on from the state of the first.
StartReplayFromLast == StartReading /\ UNCHANGED <<pipelineVars, replay>>

StartReplay ==
    /\ StartReading
    /\ replay' = <<initial_state>>
    /\ UNCHANGED pipelineVars

\* Bug: every event is reduced from the initial state.
ReplayLineFromInitial ==
    /\ ReadLine
    /\ replay' = IF out' = out
                    THEN replay
                    ELSE Append(replay, Reduce(initial_state, events[Latest(out')]))
    /\ UNCHANGED pipelineVars

\* One turn of the loop: a line that yields no event leaves the state alone.
ReplayLine ==
    /\ ReadLine
    /\ replay' = IF out' = out
                    THEN replay
                    ELSE Append(replay, Reduce(Latest(replay), events[Latest(out')]))
    /\ UNCHANGED pipelineVars

ReplayEnds ==
    /\ ReadReturns \/ ReadRaises
    /\ UNCHANGED <<pipelineVars, replay>>

-----------------------------------------------------------------------------
(* Crash and restart. *)

\* The live state is gone, and a replay that was going on with it.
ProcessCrashes ==
    /\ Crash
    /\ reading' = "no" /\ cursor' = 1 /\ out' = << >>
    /\ mode' = "starting"
    /\ replay' = <<initial_state>>
    /\ UNCHANGED <<events, state, lineage, past>>

\* Bug: the process goes on from the initial state.
ResumeFromInitial ==
    /\ mode = "starting"
    /\ reading = "returned"
    /\ mode' = "ingesting"
    /\ state' = initial_state
    /\ lineage' = << >>
    /\ past' = <<initial_state>>
    /\ UNCHANGED <<vars, events, replay>>

\* load_state(DataSource.REPLAY, ...) returned: its state is the live one now.
Resume ==
    /\ mode = "starting"
    /\ reading = "returned"
    /\ mode' = "ingesting"
    /\ state' = Latest(replay)
    /\ lineage' = out
    /\ past' = replay
    /\ UNCHANGED <<vars, events, replay>>

PipelineNext ==
    \/ Ingest
    \/ HandleStep
    \/ StartReplay \/ ReplayLine \/ ReplayEnds
    \/ ProcessCrashes \/ Resume

PipelineSpec == PipelineInit /\ [][PipelineNext]_allVars

-----------------------------------------------------------------------------
\* Every event in the file is, at its place, one the live session applied.
FileFollowsLive ==
    \A i \in DOMAIN file :
        i \in DOMAIN lineage /\ file[i] = [event |-> lineage[i], part |-> "whole"]

\* While the file follows the live session, a replay, also one of a session
\* still running, goes through the very states the live session went through
\* (replay.py:4-7, ingest.py:44-48): the same events in the same order, none
\* left out, whatever was flushed when.
ReplayShowsPast ==
    FileFollowsLive =>
        \A i \in DOMAIN replay : i \in DOMAIN past /\ replay[i] = past[i]

\* A replay of the whole file ends in the live state, once nothing is buffered
\* (replay.py:4-7): after crashes and restarts as well, until a write fails or
\* breaks off.
ReplayAgrees ==
    /\ mode = "ingesting" /\ buffer = << >>
    /\ ~faulted
    /\ reading = "returned" /\ cursor = Len(file) + 1
    => Latest(replay) = state

\* A process that starts again by replaying the store goes on from a state the
\* session was in, the one after the last event that reached the file: what it
\* forgets is what was buffered, and no more (store.py:33-46, 61-69).
ResumesPast ==
    [][mode = "starting" /\ mode' = "ingesting" /\ FileFollowsLive
        => past' = SubSeq(past, 1, Len(file) + 1)]_allVars
=============================================================================
