----------------------------- MODULE ReducerLaws -----------------------------
(***************************************************************************)
(* Laws of Reduce in every state that events can lead to.  They say which  *)
(* disturbances of the event stream a session survives: events of          *)
(* different topics out of order (the feed interleaves topics freely, and  *)
(* the OpenF1 loader sorts events of equal time in topic order), and an    *)
(* event delivered again.                                                  *)
(***************************************************************************)
EXTENDS TimingReducer

CONSTANTS
    Events,       \* the events, as a sequence
    MaxEntries    \* bound on the lengths of the two lists, for TLC

VARIABLE state

Init == state = initial_state

Apply ==
    \E i \in DOMAIN Events :
        /\ Len(state.pit_history) < MaxEntries \/ Events[i].event_type # "PIT_STOP"
        /\ state' = Reduce(state, Events[i])

Spec == Init /\ [][Apply]_state

\* Both of these say where drivers are.
Positional == {"LAP_UPDATE", "POSITION_UPDATE"}
\* A message or a stop that comes again counts again.
Accumulating == {"RACE_CONTROL_MESSAGE", "PIT_STOP"}

Independent(e, f) ==
    /\ e.event_type # f.event_type
    /\ ~ ({e.event_type, f.event_type} \subseteq Positional)

\* Events of different topics commute, so their order in the feed or in a file
\* does not matter, except that of the two topics with positions
\* (reducer.py:53-85).
TopicsCommute ==
    \A i, j \in DOMAIN Events :
        LET e == Events[i]
            f == Events[j]
        IN  Independent(e, f) =>
                Reduce(Reduce(state, e), f) = Reduce(Reduce(state, f), e)

\* An event delivered twice in a row changes nothing the second time, except a
\* race control message and a pit stop, which are kept twice: the reducer does
\* not look at event ids (reducer.py:113-118, 176-180; events.py:37-39).
RedeliveryHarmless ==
    \A i \in DOMAIN Events :
        LET e == Events[i]
        IN  e.event_type \notin Accumulating =>
                Reduce(Reduce(state, e), e) = Reduce(state, e)
=============================================================================
