--------------------------- MODULE MCLivePipeline ---------------------------
(* An instance of LivePipeline for TLC. *)
EXTENDS LivePipeline, TLC

CONSTANTS d1, d2

MCDriver == {d1, d2}

\* Messages of every kind of effect: a field set, an element appended to the
\* list that is capped, entries updated, an event without effect, no event.
MCMessages == <<
    [topic |-> "SessionStatus", payload |-> [Status |-> "Started"]],
    [topic |-> "RaceControlMessages",
     payload |-> 0 :> [Message |-> "green", Lap |-> Missing] @@ 1 :> [Message |-> "red", Lap |-> 1]],
    [topic |-> "TimingData",
     payload |-> d1 :> [LastLapTime |-> "1:32", Line |-> 2] @@ d2 :> [LastLapTime |-> Missing, Line |-> 1]],
    [topic |-> "WeatherData", payload |-> Malformed],
    [topic |-> "TimingData", payload |-> d1 :> Malformed] >>
=============================================================================
