------------------------------ MODULE AuditLog ------------------------------
(***************************************************************************)
(* What the event store promises as long as the disk takes every write     *)
(* (store.py:1-10): a log of events in the order they were appended.  A    *)
(* prefix of it is durable; a crash loses the rest, or its end.  A reader  *)
(* is given the durable events one by one, and it returns only when it was *)
(* given all of them.                                                      *)
(***************************************************************************)
EXTENDS Naturals, Sequences

VARIABLES
    count,     \* number of events appended so far, lost ones included
    log,       \* the events not lost, in order
    durable,   \* how many of them a crash leaves
    given,     \* what the reader was given
    sound,     \* whether the log still keeps its promise
    reading    \* whether the reader runs or has returned

Init ==
    /\ count = 0
    /\ log = << >>
    /\ durable = 0
    /\ given = << >>
    /\ sound = TRUE
    /\ reading = "no"

AppendEvent ==
    /\ count' = count + 1
    /\ log' = Append(log, count + 1)
    /\ durable' \in durable..Len(log')
    /\ UNCHANGED <<given, reading>>

\* All that was appended becomes durable.
Sync ==
    /\ durable' = Len(log)
    /\ UNCHANGED <<count, log, given, reading>>

\* What is not durable yet is lost, but for a prefix of it.
Crash ==
    /\ durable' \in durable..Len(log)
    /\ log' = SubSeq(log, 1, durable')
    /\ UNCHANGED <<given, reading>> \/ (given' = << >> /\ reading' = "no")
    /\ UNCHANGED count

StartReading ==
    /\ reading # "running"
    /\ reading' = "running"
    /\ given' = << >>
    /\ UNCHANGED <<count, log, durable>>

Give ==
    /\ reading = "running"
    /\ Len(given) < durable
    /\ given' = Append(given, log[Len(given) + 1])
    /\ UNCHANGED <<count, log, durable, reading>>

Return ==
    /\ reading = "running"
    /\ Len(given) = durable
    /\ reading' = "returned"
    /\ UNCHANGED <<count, log, durable, given>>

Step == AppendEvent \/ Sync \/ Crash \/ StartReading \/ Give \/ Return

\* Once the disk has failed a write, nothing is promised.
Fault == sound' = FALSE

Next == (sound /\ UNCHANGED sound /\ Step) \/ Fault

vars == <<count, log, durable, given, sound, reading>>

Spec == Init /\ [][Next]_vars
=============================================================================
