--------------------------- MODULE MCOpenF1Loader ---------------------------
(* An instance of OpenF1Loader for TLC. *)
EXTENDS OpenF1Loader

CONSTANTS d1, d2

Lap(d, n, t, date) == [driver |-> d, number |-> n, duration |-> t, date |-> date]
Place(d, p, date) == [driver |-> d, position |-> p, date |-> date]

\* All orders of a list.
Orders(list) ==
    {[i \in DOMAIN list |-> list[p[i]]] :
        p \in {q \in [DOMAIN list -> DOMAIN list] : \A i, j \in DOMAIN list : i # j => q[i] # q[j]}}

\* A slow lap after a fast one, a lap without a time, laps without a driver; and
\* one of the laps may have no date: the first, as the service often has it, one
\* within the session, or the last.
Laps(undated) ==
    LET Date(n, date) == IF n = undated THEN None ELSE date
    IN  <<Lap(d1, 1, 92, Date(1, 2)), Lap(d1, 2, 90, Date(2, 4)), Lap(d1, 3, 95, Date(3, 6)), Lap(d2, 1, 0, 3)>>
MCLaps ==
    Orders(Laps(1))
    \cup UNION {{Laps(undated), Reverse(Laps(undated))} : undated \in {0, 2, 3}}
    \cup {list \o <<Lap(Absent, 1, 91, 3)>> :
             list \in Orders(<<Lap(None, 1, 92, 2), Lap(None, 2, 90, 4), Lap(d1, 1, 95, 3)>>)}
    \cup { << >>, <<Lap(Absent, 1, 90, 2)>> }

\* An overtake, records without a place or a date, some of one moment, some
\* without a driver.
MCPositions ==
    Orders(<<Place(d1, 1, 1), Place(d2, 2, 1), Place(d1, 2, 5), Place(d2, 1, 5)>>)
    \cup Orders(<<Place(d1, 1, 1), Place(d1, 2, 1), Place(d2, None, 2), Place(d2, 3, None)>>)
    \cup {list \o <<Place(Absent, 4, 5)>> :
             list \in Orders(<<Place(None, 1, 5), Place(None, 2, 1), Place(d1, 3, 5)>>)}
    \cup { << >> }

\* A message ahead of the start, one at it, and later ones; a stop at the time
\* of a message.
Data(laps, position) ==
    [session      |-> [key |-> 1, date_start |-> 2],
     drivers      |-> <<[driver |-> d1, broadcast_name |-> "one"],
                        [driver |-> None, broadcast_name |-> "two"],
                        [driver |-> Absent, broadcast_name |-> "three"]>>,
     laps         |-> laps,
     position     |-> position,
     pit          |-> <<[driver |-> d1, lap |-> 2, date |-> 5], [driver |-> d2, lap |-> 1, date |-> None],
                       [driver |-> None, lap |-> 3, date |-> 6]>>,
     race_control |-> <<[message |-> "green", lap |-> None, date |-> 2],
                        [message |-> "pit exit open", lap |-> None, date |-> 1],
                        [message |-> "yellow", lap |-> 2, date |-> 5]>>]

SomeLaps == Laps(1)
SomePositions == <<Place(d1, 1, 5), Place(d2, 2, 5)>>

\* Sessions with the records of one kind in some order, and little besides.
Only(laps, position) ==
    [Data(laps, position) EXCEPT !.drivers = << >>, !.pit = << >>, !.race_control = << >>]

MCSessions ==
    {Only(laps, << >>) : laps \in MCLaps}
    \cup {Only(<<Lap(d1, 1, 92, 2)>>, position) : position \in MCPositions}
    \cup {Data(SomeLaps, SomePositions),
          [Data(SomeLaps, SomePositions) EXCEPT !.session = None],
          [Data(SomeLaps, SomePositions) EXCEPT !.session.date_start = None, !.drivers = << >>]}
=============================================================================
