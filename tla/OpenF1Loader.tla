---------------------------- MODULE OpenF1Loader ----------------------------
(***************************************************************************)
(* Loading a historical session: load_state(DataSource.OPENF1, ...) of     *)
(* sources/__init__.py, OpenF1SessionLoader of sources/openf1/session.py   *)
(* and the requests of sources/openf1/client.py.                           *)
(*                                                                         *)
(* A load fetches six lists of records, then appends each event to the     *)
(* store, if it was given one, and reduces it, then projects the places.   *)
(* A request or an append may fail and end the load; the application may   *)
(* load the session again, after a failure or a success, with the same     *)
(* store or without.  It may search the session first, as the demo does    *)
(* (scripts/openf1_demo.py).                                               *)
(*                                                                         *)
(* Time is counted in ticks and only from one request to the next.         *)
(*                                                                         *)
(* The store, used without a persistent handle, is the state a replay of   *)
(* its complete lines builds, whether it ends in a torn line and whether   *)
(* it can be read; EventStore and LivePipeline have the details.           *)
(***************************************************************************)
EXTENDS OpenF1Adapter, TimingReducer, SequencesExt

CONSTANTS
    Sessions,   \* what the service may hold of a session
    Second,     \* the ticks of a second
    Delay,      \* request_delay_s, in ticks
    Latency,    \* the ticks a response may take
    MaxLoads    \* the loads an application tries (a bound of the model)

ASSUME LoadsAssumption == MaxLoads \in Nat
ASSUME TimeAssumption == Second \in Nat \ {0} /\ Delay \in Nat /\ Latency \subseteq Nat

\* The default of request_delay_s, 0.4 s: three of them are more than a second.
ASSUME DelayAssumption == Second <= 3 * Delay

\* The service's lists: what is there is a positive number, a text or a driver.
Number == (Nat \ {0}) \cup {None}
ASSUME SessionsAssumption ==
    \A data \in Sessions :
        /\ data.session = None \/ data.session.date_start \in Number
        /\ data.laps \in Seq([driver : Driver \cup {None, Absent}, number : Number,
                              duration : Nat \cup {None}, date : Number])
        /\ data.position \in Seq([driver : Driver \cup {None, Absent}, position : Number, date : Number])
        /\ data.pit \in Seq([driver : Driver \cup {None, Absent}, lap : Number, date : Number])
        /\ data.race_control \in Seq([message : STRING, lap : Number, date : Number])

VARIABLES
    service,    \* what it does hold, for good: the session is over
    progress,   \* where the load is
    responses,  \* how many of the six requests were answered
    ages,       \* for each request sent within the last second, the ticks since:
                \* 0 for find_session(), 1 to 6 for those of fetch() (history variable)
    keeping,    \* whether the load has a store
    queue,      \* the events to_state() has not come to, with timestamps
    state,      \* the TimingState that is built
    replayed,   \* what ReplayRunner makes of the store's complete lines
    torn,       \* the store ends within a line, if only its newline is missing
    readable,   \* no write was cut within a character: else every replay raises
    lost,       \* a line of this load was glued to a torn one (history variable)
    loads       \* the loads begun (history variable)

fetchVars == <<progress, responses, ages>>
storeVars == <<replayed, torn, readable, lost>>
loaderVars == <<service, fetchVars, keeping, queue, state, storeVars, loads>>

Endpoint == <<"sessions", "drivers", "laps", "position", "pit", "race_control">>

TypeOK ==
    /\ service \in Sessions
    /\ progress \in {"idle", "found", "fetching", "reducing", "loaded", "failed"}
    /\ responses \in 0..Len(Endpoint)
    /\ progress \in {"reducing", "loaded"} => responses = Len(Endpoint)
    /\ DOMAIN ages \subseteq 0..Len(Endpoint) /\ \A r \in DOMAIN ages : ages[r] \in 0..Second - 1
    /\ keeping \in BOOLEAN
    /\ \A i, j \in DOMAIN queue : i < j => queue[i].timestamp <= queue[j].timestamp
    /\ DOMAIN state = DOMAIN initial_state /\ DOMAIN replayed = DOMAIN initial_state
    /\ torn \in BOOLEAN /\ readable \in BOOLEAN /\ lost \in BOOLEAN
    /\ loads \in 0..MaxLoads

Init ==
    /\ service \in Sessions
    /\ progress = "idle"
    /\ responses = 0
    /\ ages = EmptyDict
    /\ keeping = FALSE
    /\ queue = << >>
    /\ state = initial_state
    /\ replayed = initial_state
    /\ torn = FALSE
    /\ readable = TRUE
    /\ lost = FALSE
    /\ loads = 0

Recent(dict) == [r \in {q \in DOMAIN dict : dict[q] < Second} |-> dict[r]]
Pass(ticks) == Recent([r \in DOMAIN ages |-> ages[r] + ticks])
Send(request, before) == Update(before, [r \in {request} |-> 0])

\* find_session(): a request of its own.  It may fail, or find nothing.
FindSession ==
    /\ progress \in {"idle", "loaded", "failed"}
    /\ loads < MaxLoads
    /\ state' = initial_state
    /\ \/ progress' = "found"
          /\ \E ticks \in Latency : ages' = Recent([r \in {0} |-> ticks])
       \/ progress' = "failed" /\ UNCHANGED ages
    /\ UNCHANGED <<service, responses, keeping, queue, storeVars, loads>>

\* load_state(DataSource.OPENF1, ...) sends the first request of fetch().
LoadState ==
    /\ progress \in {"idle", "found", "loaded", "failed"}
    /\ loads < MaxLoads
    /\ loads' = loads + 1
    /\ progress' = "fetching"
    /\ responses' = 0
    /\ ages' = Send(1, ages)
    /\ keeping' \in BOOLEAN
    /\ state' = initial_state
    /\ lost' = FALSE
    /\ UNCHANGED <<service, queue, replayed, torn, readable>>

-----------------------------------------------------------------------------
(* fetch() *)

NotFound == Endpoint[responses + 1] = "sessions" /\ service.session = None

\* Bug: two requests are not kept apart.
SleepForgotten(answered) == IF answered \in {2, 4, 5} THEN Delay ELSE 0

\* How long fetch() sleeps after that many responses.
Sleep(answered) == IF answered >= 2 THEN Delay ELSE 0

\* The next request is sent, some time after the last one.
SendNext ==
    \E ticks \in Latency :
        /\ ages' = Send(responses' + 1, Pass(ticks + Sleep(responses')))
        /\ UNCHANGED <<progress, queue, state>>

\* All lists are there: to_state() begins by building the events.
BeginToState ==
    /\ progress' = "reducing"
    /\ ages' = EmptyDict
    /\ queue' = BuildEvents(service)
    /\ UNCHANGED state

\* Bug: the last list is not waited for.
RespondsEarly ==
    /\ progress = "fetching" /\ ~NotFound
    /\ responses' = responses + 1
    /\ IF responses' = Len(Endpoint) - 1 THEN BeginToState ELSE SendNext
    /\ UNCHANGED <<service, keeping, storeVars, loads>>

Responds ==
    /\ progress = "fetching" /\ ~NotFound
    /\ responses' = responses + 1
    /\ IF responses' = Len(Endpoint) THEN BeginToState ELSE SendNext
    /\ UNCHANGED <<service, keeping, storeVars, loads>>

\* The load raises: what it has built is gone.
Fails ==
    /\ progress' = "failed"
    /\ responses' = 0
    /\ ages' = EmptyDict
    /\ queue' = << >>
    /\ keeping' = FALSE
    /\ state' = initial_state
    /\ UNCHANGED <<service, loads>>

\* Any request may raise; a session that is not found raises ValueError.
FetchFails == progress = "fetching" /\ Fails /\ UNCHANGED storeVars

-----------------------------------------------------------------------------
(* to_state() *)

\* What a whole line adds to a replay: nothing when it is glued to a torn one.
WriteLine(event) ==
    /\ replayed' = IF torn THEN replayed ELSE Reduce(replayed, event)
    /\ torn' = FALSE
    /\ lost' = (lost \/ torn)
    /\ UNCHANGED readable

\* An event is stored, when there is a store, then reduced.
ReduceNext ==
    /\ progress = "reducing" /\ queue # << >>
    /\ IF keeping THEN WriteLine(Head(queue).event) ELSE UNCHANGED storeVars
    /\ state' = Reduce(state, Head(queue).event)
    /\ queue' = Tail(queue)
    /\ UNCHANGED <<service, fetchVars, keeping, loads>>

\* Bug: an append that fails is ignored.
AppendFailsUnnoticed ==
    /\ progress = "reducing" /\ queue # << >> /\ keeping
    /\ state' = Reduce(state, Head(queue).event)
    /\ queue' = Tail(queue)
    /\ UNCHANGED <<service, fetchVars, keeping, storeVars, loads>>

\* append() raises before, within or after the write of the line; within it,
\* maybe within a character of more than one byte.
AppendFails ==
    /\ progress = "reducing" /\ queue # << >> /\ keeping
    /\ \/ UNCHANGED storeVars
       \/ torn' = TRUE /\ readable' \in {readable, FALSE} /\ UNCHANGED <<replayed, lost>>
       \/ WriteLine(Head(queue).event)
    /\ Fails

\* No records with a place leave the places alone.
ProjectPositions ==
    /\ progress = "reducing" /\ queue = << >>
    /\ LET positions == final_positions(service.position)
       IN  state' = IF positions = EmptyDict
                      THEN state
                      ELSE [state EXCEPT !.driver_positions = positions]
    /\ progress' = "loaded"
    /\ UNCHANGED <<service, responses, ages, keeping, queue, storeVars, loads>>

Next ==
    \/ FindSession \/ LoadState
    \/ Responds \/ FetchFails
    \/ ReduceNext \/ AppendFails \/ ProjectPositions

Spec == Init /\ [][Next]_loaderVars

-----------------------------------------------------------------------------
(* Properties. *)

\* From the second request of a load on, no second sees more than three of them
\* ("3 requests/second", client.py:11-14), however fast the responses are and
\* although nothing is slept between the first two.
Paced == progress = "fetching" /\ responses > 3 => Cardinality(DOMAIN ages) <= 3

\* A session that was loaded in full into a store is replayed, whatever failed or
\* repeated loads left in the store before it (session.py:25-30, 180-183), torn
\* lines too: what the state holds once is the same, and the messages and stops
\* end in the loaded ones.  Only the places are missing, which are no events
\* (session.py:190).  Not so when a line of this load was glued to a torn one, nor
\* after a write cut within a character: EventStore's WellFormedEventsRead and
\* NeverRaises.
ReplayRetains ==
    progress = "loaded" /\ keeping /\ ~lost /\ readable =>
        /\ \A field \in {"session_info", "session_status", "driver_list", "latest_laps"} :
               replayed[field] = state[field]
        /\ IsSuffix(state.race_control_messages, replayed.race_control_messages)
        /\ IsSuffix(state.pit_history, replayed.pit_history)
        /\ DOMAIN replayed.driver_positions = {}

\* A driver's laps, and those of them with a date.
LapsOf(d) == {service.laps[i] : i \in {j \in DOMAIN service.laps : DriverNumber(service.laps[j]) = d}}
DatedLapsOf(d) == {lap \in LapsOf(d) : lap.date # None}

\* The state shows each driver's last dated lap with the fastest time driven up
\* to it (adapter.py:255-258), in whatever order the service lists the laps of
\* several drivers and although a lap without a date is moved to the front of
\* all events: as long as a driver's laps have a number each and the dates grow
\* with it.
LapsShown ==
    progress = "loaded" =>
        \A d \in Driver \cup {"None"} :
            /\ DatedLapsOf(d) # {}
            /\ \A a, b \in LapsOf(d) : a.number # None /\ (a # b => a.number # b.number)
            /\ \A a, b \in DatedLapsOf(d) : a.number < b.number => a.date < b.date
            => LET shown == state.latest_laps[d]
                   upTo == {lap \in LapsOf(d) : lap.number <= shown.number_of_laps}
                   times == {lap.duration : lap \in upTo} \ {None, 0}
               IN  /\ \A lap \in DatedLapsOf(d) : lap.number <= shown.number_of_laps
                   /\ IF times = {} THEN shown.best_lap_time = None
                      ELSE shown.best_lap_time \in times /\ \A t \in times : shown.best_lap_time <= t

\* Places come from records in any order: the state shows, for every driver with
\* a record that has a place and a date, a place of the newest one (adapter.py:318-338),
\* and it does so after the laps, which have no place, were reduced (session.py:185-190).
\* Records whose driver is null are those of a driver "None"; no other driver is shown.
PlacesShown ==
    progress = "loaded" =>
        LET records == {service.position[i] : i \in DOMAIN service.position}
            usable == {r \in records : r.driver # Absent /\ r.position # None /\ r.date # None}
        IN  /\ DOMAIN state.driver_positions = {DriverNumber(r) : r \in usable}
            /\ \A r \in usable :
                   \E s \in usable :
                       /\ DriverNumber(s) = DriverNumber(r) /\ r.date <= s.date
                       /\ s.position = state.driver_positions[DriverNumber(r)]
=============================================================================
