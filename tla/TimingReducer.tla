---------------------------- MODULE TimingReducer ----------------------------
(***************************************************************************)
(* The state of a session and how one event changes it:                    *)
(* pipeline/reducer.py.  The live path and a replay both fold events into  *)
(* a state with Reduce.                                                    *)
(***************************************************************************)
EXTENDS TimingEvents

CONSTANT RaceControlCap   \* _RACE_CONTROL_CAP

ASSUME CapAssumption == RaceControlCap \in Nat \ {0}

initial_state ==
    [session_status        |-> None,
     session_info          |-> EmptyDict,
     track_status          |-> None,
     race_control_messages |-> << >>,
     driver_positions      |-> EmptyDict,
     latest_laps           |-> EmptyDict,
     pit_history           |-> << >>,
     driver_list           |-> EmptyDict]

\* Bug: a position that is not reported counts as one.
EveryPosition(entries) == [d \in DOMAIN entries |-> entries[d].position]

\* The race-order positions that a dict of per-driver entries reports.  An
\* entry whose position is None or is no integer reports none.
PositionsIn(entries) ==
    [d \in {x \in DOMAIN entries : entries[x].position \in Nat} |-> entries[d].position]

ApplySessionInfo(state, event) == [state EXCEPT !.session_info = event.payload]

\* Bug: a change of the session's status forgets the track's.
ApplySessionStatusAfresh(state, event) ==
    [state EXCEPT !.session_status = event.payload.status, !.track_status = None]

ApplySessionStatus(state, event) == [state EXCEPT !.session_status = event.payload.status]

\* Bug: the track's status is also listed as a message.
ApplyTrackStatusListed(state, event) ==
    [state EXCEPT !.track_status = event.payload.status,
                  !.race_control_messages = Append(@, event.payload)]

ApplyTrackStatus(state, event) == [state EXCEPT !.track_status = event.payload.status]

\* Bug: the newest message goes to the front.
ApplyRaceControlMessageInFront(state, event) ==
    LET messages == <<event.payload>> \o state.race_control_messages
    IN  [state EXCEPT !.race_control_messages =
            IF Len(messages) > RaceControlCap THEN SubSeq(messages, 1, RaceControlCap) ELSE messages]

\* The newest RaceControlCap messages are kept.
ApplyRaceControlMessage(state, event) ==
    LET messages == Append(state.race_control_messages, event.payload)
        excess == IF Len(messages) > RaceControlCap THEN Len(messages) - RaceControlCap ELSE 0
    IN  [state EXCEPT !.race_control_messages = SubSeq(messages, excess + 1, Len(messages))]

ApplyPositionUpdate(state, event) ==
    [state EXCEPT !.driver_positions = Update(@, PositionsIn(event.payload))]

\* Bug: the event's own fields are taken for drivers.
ApplyLapUpdateOfEvent(state, event) ==
    [state EXCEPT !.latest_laps = Update(@, event),
                  !.driver_positions = Update(@, PositionsIn(event.payload))]

\* A driver's lap entry is replaced as a whole, its position only if reported.
ApplyLapUpdate(state, event) ==
    [state EXCEPT !.latest_laps = Update(@, event.payload),
                  !.driver_positions = Update(@, PositionsIn(event.payload))]

ApplyPitStop(state, event) == [state EXCEPT !.pit_history = Append(@, event.payload)]

ApplyDriverList(state, event) == [state EXCEPT !.driver_list = event.payload]

Reduce(state, event) ==
    CASE event.event_type = "SESSION_INFO"         -> ApplySessionInfo(state, event)
      [] event.event_type = "SESSION_STATUS"       -> ApplySessionStatus(state, event)
      [] event.event_type = "TRACK_STATUS"         -> ApplyTrackStatus(state, event)
      [] event.event_type = "RACE_CONTROL_MESSAGE" -> ApplyRaceControlMessage(state, event)
      [] event.event_type = "POSITION_UPDATE"      -> ApplyPositionUpdate(state, event)
      [] event.event_type = "LAP_UPDATE"           -> ApplyLapUpdate(state, event)
      [] event.event_type = "PIT_STOP"             -> ApplyPitStop(state, event)
      [] event.event_type = "DRIVER_LIST"          -> ApplyDriverList(state, event)
      [] OTHER                                     -> state
=============================================================================
