----------------------------- MODULE TimingFeed -----------------------------
(***************************************************************************)
(* A session as the F1 feed knows it and as TimingState shows it.  The     *)
(* feed is outside the program; it is modelled from what the handlers of   *)
(* normalizer.py say of its topics: TimingData carries a subset of the     *)
(* drivers and of the fields, those that changed; RaceControlMessages the  *)
(* newest message; PitLaneTimeCollection all stops so far; Position.z      *)
(* coordinates.  A message may be lost while the client reconnects, and a  *)
(* TimingData message may hold a line the normalizer fails on.             *)
(***************************************************************************)
EXTENDS TimingReducer, Normalizer, FiniteSets

CONSTANTS
    LapTime,        \* lap times
    MaxTimed,       \* bound on the drivers that complete laps, for TLC
    MaxMessages,    \* bound on race control messages, for TLC
    MaxStops        \* bound on pit stops, for TLC

ASSUME FeedAssumption == IsFiniteSet(Driver) /\ {MaxTimed, MaxMessages, MaxStops} \subseteq Nat

\* The entries of the feed's updates, and the payloads of the events they become.
Line == [LastLapTime : LapTime \cup {None, Missing}, Line : Nat \cup {Missing}]
Announcement == [Message : Nat, Lap : {Missing}]
Stop == [RacingNumber : Driver, Lap : Nat]
Lap == [last_lap_time : LapTime \cup {None}, position : Nat \cup {None}]

\* No number, driver, entry, update or event is mistaken for a marker.
ASSUME MarkerAssumption ==
    /\ Missing \notin Nat /\ Missing \notin Driver
    /\ Malformed \notin Line /\ Malformed \notin Announcement /\ Malformed \notin Stop
    /\ \A D \in SUBSET Driver : Malformed \notin [D -> Line \cup {Malformed}]
    /\ \A n \in 0..MaxMessages : Malformed \notin [{n} -> Announcement]
    /\ \A n \in 0..MaxStops : Malformed \notin [0..n -> Stop]
    /\ \A D \in SUBSET Driver : None \notin [event_type : {"LAP_UPDATE"}, payload : [D -> Lap]]
    /\ None \notin [event_type : {"RACE_CONTROL_MESSAGE"}, payload : [message : Nat, lap : {None}]]
    /\ None \notin [event_type : {"PIT_STOP"}, payload : [racing_number : Driver, lap : Nat]]

VARIABLES
    place,      \* race order: place[d] is driver d's position
    lastLap,    \* each driver's last lap time, None before the first
    announced,  \* number of race control messages so far
    heard,      \* those that reached the program
    stops,      \* drivers in the order of their pit stops
    counted,    \* those stops that reached the program
    unseen,     \* drivers whose place changed and did not reach the program
    reported,   \* drivers whose last lap time reached the program
    state       \* the program's TimingState

feedVars == <<place, lastLap, announced, stops>>
ghostVars == <<heard, counted, unseen, reported>>
vars == <<feedVars, ghostVars, state>>

Grids == {p \in [Driver -> 1..Cardinality(Driver)] : \A d, e \in Driver : p[d] = p[e] => d = e}

TypeOK ==
    /\ place \in Grids
    /\ lastLap \in [Driver -> LapTime \cup {None}]
    /\ announced \in Nat /\ heard \in Seq(1..announced)
    /\ stops \in Seq(Driver) /\ counted \in Seq(Driver)
    /\ unseen \subseteq Driver /\ reported \subseteq Driver
    /\ DOMAIN state = DOMAIN initial_state
    /\ DOMAIN state.driver_positions \subseteq Driver
    /\ DOMAIN state.latest_laps \subseteq Driver

Init ==
    /\ place \in Grids
    /\ lastLap = [d \in Driver |-> None]
    /\ announced = 0 /\ heard = << >>
    /\ stops = << >> /\ counted = << >>
    /\ unseen = Driver /\ reported = {}
    /\ state = initial_state

\* ingest() of a message: normalized, then reduced unless that gives None.
Ingest(topic, payload) ==
    LET event == normalize([topic |-> topic, payload |-> payload])
    IN  state' = IF event = None THEN state ELSE Reduce(state, event)

-----------------------------------------------------------------------------
(* TimingData. *)

\* On (re)connection, and whenever the feed likes, all of it.
Snapshot ==
    /\ Ingest("TimingData", [d \in Driver |-> [LastLapTime |-> lastLap[d], Line |-> place[d]]])
    /\ unseen' = {} /\ reported' = Driver
    /\ UNCHANGED <<feedVars, heard, counted>>

\* d passes e, who was one place ahead; the message has only their places.  It
\* arrives, or holds a line that is malformed, or is lost.
Overtake(d, e) ==
    LET line == [x \in {d, e} |-> [LastLapTime |-> Missing, Line |-> place'[x]]]
    IN  /\ place[e] = place[d] - 1
        /\ place' = [place EXCEPT ![d] = @ - 1, ![e] = @ + 1]
        /\ \/ Ingest("TimingData", line) /\ unseen' = unseen \ {d, e}
           \/ Ingest("TimingData", [line EXCEPT ![e] = Malformed]) /\ unseen' = unseen \cup {d, e}
           \/ UNCHANGED state /\ unseen' = unseen \cup {d, e}
        /\ UNCHANGED <<lastLap, announced, stops, heard, counted, reported>>

\* d completes a lap; the message has only its time.
CompleteLap(d, time) ==
    /\ Cardinality({e \in Driver \ {d} : lastLap[e] # None}) < MaxTimed
    /\ lastLap' = [lastLap EXCEPT ![d] = time]
    /\ \/ /\ Ingest("TimingData", [x \in {d} |-> [LastLapTime |-> time, Line |-> Missing]])
          /\ reported' = reported \cup {d}
       \/ UNCHANGED state /\ reported' = reported \ {d}
    /\ UNCHANGED <<place, announced, stops, heard, counted, unseen>>

-----------------------------------------------------------------------------
(* The other topics with per-driver or accumulated content. *)

\* The message's key in the update is its number in the session.
Announce ==
    /\ announced < MaxMessages
    /\ announced' = announced + 1
    /\ \/ /\ Ingest("RaceControlMessages",
                  [k \in {announced} |-> [Message |-> announced + 1, Lap |-> Missing]])
          /\ heard' = Append(heard, announced + 1)
       \/ UNCHANGED <<state, heard>>
    /\ UNCHANGED <<place, lastLap, stops, counted, unseen, reported>>

\* All stops so far are in the update, keyed by their number.
PitStop(d) ==
    /\ Len(stops) < MaxStops
    /\ stops' = Append(stops, d)
    /\ \/ /\ Ingest("PitLaneTimeCollection",
                  [k \in 0..Len(stops) |-> [RacingNumber |-> stops'[k + 1], Lap |-> k]])
          /\ counted' = Append(counted, d)
       \/ UNCHANGED <<state, counted>>
    /\ UNCHANGED <<place, lastLap, announced, heard, unseen, reported>>

\* Coordinates of all drivers, some of them perhaps malformed.
Coordinates ==
    /\ \E bad \in SUBSET Driver :
        Ingest("Position.z", <<[d \in Driver |-> IF d \in bad THEN Malformed ELSE "xyz"]>>)
    /\ UNCHANGED <<feedVars, ghostVars>>

Next ==
    \/ Snapshot
    \/ \E d, e \in Driver : Overtake(d, e)
    \/ \E d \in Driver, time \in LapTime : CompleteLap(d, time)
    \/ Announce
    \/ \E d \in Driver : PitStop(d)
    \/ Coordinates

Spec == Init /\ [][Next]_vars

-----------------------------------------------------------------------------
\* A driver whose latest place reached the program is shown there, through any
\* number of updates that omit it, have it for others only, or are discarded
\* because of another driver's line (reducer.py:146-173, normalizer.py:295-320).
PlacesAgree ==
    \A d \in Driver \ unseen :
        /\ d \in DOMAIN state.driver_positions
        /\ state.driver_positions[d] = place[d]

\* The ring holds the newest RaceControlCap of the messages that arrived, in
\* order, whatever was lost before them (reducer.py:113-118).
RingHoldsNewest ==
    LET kept == state.race_control_messages
        excess == Len(heard) - Len(kept)
    IN  /\ Len(kept) = IF Len(heard) < RaceControlCap THEN Len(heard) ELSE RaceControlCap
        /\ \A i \in DOMAIN kept : kept[i].message = heard[excess + i]

\* Every update on the pit lane adds its newest stop and none of the older ones
\* it repeats (normalizer.py:340-352, reducer.py:176-180).
StopsCountedOnce ==
    [i \in DOMAIN state.pit_history |-> state.pit_history[i].racing_number] = counted

\* A driver's last lap time that reached the program is shown until the next:
\* "incremental updates omit unchanged fields" (normalizer.py:291-293), and
\* latest_laps is the "latest lap info" (reducer.py:40-41).
LastLapsKept ==
    \A d \in reported :
        /\ d \in DOMAIN state.latest_laps
        /\ state.latest_laps[d].last_lap_time = lastLap[d]
=============================================================================
