----------------------------- MODULE Normalizer -----------------------------
(***************************************************************************)
(* From a raw feed message to an event, or to None when the payload of a   *)
(* known topic is malformed or empty: sources/live_timing/normalizer.py.   *)
(*                                                                         *)
(* A raw message is [topic, payload].  What the handlers tell apart of a   *)
(* payload is kept: whether a field is there, what the dicts are keyed by, *)
(* and whether an entry has the expected shape.  A payload that is no      *)
(* dict, or whose keys should be integers and are not, is Malformed.       *)
(***************************************************************************)
EXTENDS TimingEvents

CONSTANTS
    Missing,    \* a field the payload does not have
    Malformed   \* a payload or an entry that a handler fails on

\* str(p.get(field, "")): an explicit null becomes the text "None".
Text(value) ==
    CASE value = Missing -> ""
      [] value = None -> "None"
      [] OTHER -> value

\* p.get(field)
Field(value) == IF value = Missing THEN None ELSE value

\* Bug: min instead of max.
Oldest(entries) == entries[CHOOSE k \in DOMAIN entries : \A l \in DOMAIN entries : k <= l]

\* max(entries, key=int): the entry of an integer-keyed dict that is newest.
Newest(entries) == entries[CHOOSE k \in DOMAIN entries : \A l \in DOMAIN entries : k >= l]

handle_session_info(p) == TimingEvent("SESSION_INFO", [key |-> Field(p.Key), name |-> Text(p.Name)])

handle_session_status(p) == TimingEvent("SESSION_STATUS", [status |-> Text(p.Status)])

handle_track_status(p) == TimingEvent("TRACK_STATUS", [status |-> Text(p.Status)])

\* The whole update is one event, of its newest message.
handle_race_control_messages(p) ==
    IF p = EmptyDict \/ Newest(p) = Malformed
      THEN None
      ELSE TimingEvent("RACE_CONTROL_MESSAGE",
               [message |-> Text(Newest(p).Message), lap |-> Field(Newest(p).Lap)])

\* The first snapshot, of coordinates: no entry has a race-order position.
handle_position_z(p) ==
    IF p = << >> \/ \E d \in DOMAIN Head(p) : Head(p)[d] = Malformed
      THEN None
      ELSE TimingEvent("POSITION_UPDATE",
               [d \in DOMAIN Head(p) |-> [xyz |-> Head(p)[d], position |-> None]])

\* One malformed line discards all of them.
handle_timing_data(p) ==
    IF p = EmptyDict \/ \E d \in DOMAIN p : p[d] = Malformed
      THEN None
      ELSE TimingEvent("LAP_UPDATE",
               [d \in DOMAIN p |-> [last_lap_time |-> Field(p[d].LastLapTime),
                                    position      |-> Field(p[d].Line)]])

handle_pit_lane_time_collection(p) ==
    IF p = EmptyDict \/ Newest(p) = Malformed
      THEN None
      ELSE TimingEvent("PIT_STOP",
               [racing_number |-> Text(Newest(p).RacingNumber), lap |-> Field(Newest(p).Lap)])

\* Entries that are no dicts are left out.
handle_driver_list(p) ==
    LET listed == {d \in DOMAIN p : p[d] # Malformed}
    IN  IF listed = {}
          THEN None
          ELSE TimingEvent("DRIVER_LIST",
                   [d \in listed |-> [broadcast_name |-> Text(p[d].BroadcastName)]])

normalize(raw) ==
    CASE raw.topic \notin {"SessionInfo", "SessionStatus", "TrackStatus", "RaceControlMessages",
                           "Position.z", "TimingData", "PitLaneTimeCollection", "DriverList"}
                                            -> TimingEvent("UNSUPPORTED", EmptyDict)
      [] raw.payload = Malformed            -> None
      [] raw.topic = "SessionInfo"          -> handle_session_info(raw.payload)
      [] raw.topic = "SessionStatus"        -> handle_session_status(raw.payload)
      [] raw.topic = "TrackStatus"          -> handle_track_status(raw.payload)
      [] raw.topic = "RaceControlMessages"  -> handle_race_control_messages(raw.payload)
      [] raw.topic = "Position.z"           -> handle_position_z(raw.payload)
      [] raw.topic = "TimingData"           -> handle_timing_data(raw.payload)
      [] raw.topic = "PitLaneTimeCollection" -> handle_pit_lane_time_collection(raw.payload)
      [] raw.topic = "DriverList"           -> handle_driver_list(raw.payload)
=============================================================================
