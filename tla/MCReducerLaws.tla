---------------------------- MODULE MCReducerLaws ----------------------------
(* An instance of ReducerLaws for TLC: events of all nine types, most of them *)
(* as the normalizer makes them of raw messages.                              *)
EXTENDS ReducerLaws, Normalizer, TLC

CONSTANTS d1, d2, NotANumber

MCDriver == {d1, d2}

Normalized(name, content) == normalize([topic |-> name, payload |-> content])

Lap(time, line) == [LastLapTime |-> time, Line |-> line]
Message(text) == [Message |-> text, Lap |-> Missing]

\* Race-order positions in a POSITION_UPDATE, which the reducer still handles.
Placed(place) == [xyz |-> "xyz", position |-> place]

MCEvents == <<
    Normalized("SessionInfo", [Key |-> 1, Name |-> "Race"]),
    Normalized("SessionStatus", [Status |-> "Started"]),
    Normalized("TrackStatus", [Status |-> "1"]),
    Normalized("RaceControlMessages", 0 :> Message("green") @@ 1 :> Message("red")),
    Normalized("RaceControlMessages", 2 :> Message("green")),
    Normalized("Position.z", <<d1 :> "xyz">>),
    TimingEvent("POSITION_UPDATE", d1 :> Placed(2) @@ d2 :> Placed(NotANumber)),
    Normalized("TimingData", d1 :> Lap("1:32", 1) @@ d2 :> Lap(Missing, 2)),
    Normalized("TimingData", d1 :> Lap("1:31", Missing)),
    Normalized("TimingData", d2 :> Lap("1:33", NotANumber)),
    Normalized("PitLaneTimeCollection", 0 :> [RacingNumber |-> "1", Lap |-> 1]),
    Normalized("DriverList", d1 :> [BroadcastName |-> "VER"] @@ d2 :> [BroadcastName |-> "HAM"]),
    Normalized("DriverList", d1 :> [BroadcastName |-> "PER"] @@ d2 :> Malformed),
    Normalized("WeatherData", Malformed) >>
=============================================================================
