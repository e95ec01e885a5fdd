--------------------------- MODULE OpenF1Adapter ---------------------------
(***************************************************************************)
(* From the records of the OpenF1 service to events and places:            *)
(* sources/openf1/adapter.py and OpenF1SessionLoader._build_events.        *)
(*                                                                         *)
(* A list of records is a sequence in the order of the response.  A date   *)
(* is a positive number, None when it is absent or cannot be parsed; so is *)
(* a place.  A driver number may be null (None) or not be there (Absent):  *)
(* the adapter does not treat these alike.  The names, flags and durations *)
(* no property is about are left out.                                      *)
(***************************************************************************)
EXTENDS TimingEvents, FiniteSetsExt

CONSTANT Absent   \* a key a record does not have, or an empty text

ASSUME AbsentAssumption == Absent \notin Driver \cup {None, "None"}

Epoch == 0   \* 1970, the date given to what has none

\* An event with its timestamp, which only the sort of the events reads.
Dated(date, event) == [timestamp |-> IF date = None THEN Epoch ELSE date, event |-> event]

\* The members of a set of indices in the order of their keys, those with equal
\* keys in their own order.
Precedes(key, i, j) == key[i] < key[j] \/ (key[i] = key[j] /\ i < j)
Ranked(indices, key) ==
    [rank \in 1..Cardinality(indices) |->
        CHOOSE i \in indices : Cardinality({j \in indices : Precedes(key, j, i)}) = rank - 1]

\* list.sort(key=...): stable.
Sorted(list, key) == [rank \in DOMAIN list |-> list[Ranked(DOMAIN list, key)[rank]]]

\* The members of a list with these indices.
Those(list, indices) ==
    [rank \in 1..Cardinality(indices) |-> list[Ranked(indices, [i \in indices |-> i])[rank]]]

WithDate(records) == Those(records, {i \in DOMAIN records : records[i].date # None})

session_to_events(session) ==
    <<Dated(session.date_start, TimingEvent("SESSION_INFO", [key |-> session.key])),
      Dated(session.date_start, TimingEvent("SESSION_STATUS", [status |-> "Finished"]))>>

\* str(record.get("driver_number", "")): the text of a null is a driver's like any other.
DriverNumber(record) == IF record.driver = None THEN "None" ELSE record.driver

\* At most one event; of two records of a driver the later one counts.
drivers_to_event(drivers, date) ==
    LET listed == {drivers[i].driver : i \in DOMAIN drivers} \ {None, Absent}
        Record(d) == drivers[Max({i \in DOMAIN drivers : drivers[i].driver = d})]
    IN  IF listed = {}
          THEN << >>
          ELSE <<Dated(date, TimingEvent("DRIVER_LIST",
                     [d \in listed |-> [broadcast_name |-> Record(d).broadcast_name]]))>>

race_control_to_events(records) ==
    LET dated == WithDate(records)
    IN  [i \in DOMAIN dated |->
            Dated(dated[i].date, TimingEvent("RACE_CONTROL_MESSAGE",
                [message |-> dated[i].message, lap |-> dated[i].lap]))]

pit_to_events(records) ==
    LET dated == WithDate(records)
    IN  [i \in DOMAIN dated |->
            Dated(dated[i].date, TimingEvent("PIT_STOP",
                [racing_number |-> DriverNumber(dated[i]), lap |-> dated[i].lap]))]

LapNumber(lap) == IF lap.number = None THEN 0 ELSE lap.number

WithDriver(records) == Those(records, {i \in DOMAIN records : records[i].driver # Absent})

\* Bug: a driver's laps are taken in the order of the response.
LapsAsListed(records) == WithDriver(records)

\* Each driver's laps by number, the drivers in the order in which they first appear.
LapsByDriver(records) ==
    LET listed == WithDriver(records)
        First(d) == Min({i \in DOMAIN listed : DriverNumber(listed[i]) = d})
        laps == Sorted(listed, [i \in DOMAIN listed |-> LapNumber(listed[i])])
    IN  Sorted(laps, [i \in DOMAIN laps |-> First(DriverNumber(laps[i]))])

\* _format_lap_time: a lap without a positive duration has no time.
FormatLapTime(duration) == IF duration = None \/ duration = 0 THEN None ELSE duration

\* The fastest of a driver's laps up to the i-th.
RunningBest(laps, i) ==
    LET times == {FormatLapTime(laps[j].duration) : j \in {k \in 1..i : DriverNumber(laps[k]) = DriverNumber(laps[i])}}
                    \ {None}
    IN  IF times = {} THEN None ELSE Min(times)

laps_to_events(records) ==
    LET laps == LapsByDriver(records)
    IN  [i \in DOMAIN laps |->
            Dated(laps[i].date, TimingEvent("LAP_UPDATE",
                [d \in {DriverNumber(laps[i])} |->
                    [last_lap_time  |-> FormatLapTime(laps[i].duration),
                     best_lap_time  |-> RunningBest(laps, i),
                     number_of_laps |-> laps[i].number,
                     position       |-> None]]))]

HasPlace(record) == record.driver # Absent /\ None \notin {record.position, record.date}

\* Bug: the last record listed counts.
LastListedPositions(records) ==
    LET usable == {i \in DOMAIN records : HasPlace(records[i])}
        Mine(d) == {i \in usable : DriverNumber(records[i]) = d}
    IN  [d \in {DriverNumber(records[i]) : i \in usable} |-> records[Max(Mine(d))].position]

\* Each driver's place in the newest record that has one; the first of equals.
final_positions(records) ==
    LET usable == {i \in DOMAIN records : HasPlace(records[i])}
        Mine(d) == {i \in usable : DriverNumber(records[i]) = d}
        Newest(d) == Max({records[i].date : i \in Mine(d)})
    IN  [d \in {DriverNumber(records[i]) : i \in usable} |->
            records[Min({i \in Mine(d) : records[i].date = Newest(d)})].position]

\* Everything by date; what has the same date in the order built here.
BuildEvents(data) ==
    LET events == session_to_events(data.session)
                    \o drivers_to_event(data.drivers, data.session.date_start)
                    \o race_control_to_events(data.race_control)
                    \o pit_to_events(data.pit)
                    \o laps_to_events(data.laps)
    IN  Sorted(events, [i \in DOMAIN events |-> events[i].timestamp])
=============================================================================
