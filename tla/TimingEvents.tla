---------------------------- MODULE TimingEvents ----------------------------
(* What the pipeline's components share: pipeline/events.py. *)
EXTENDS Naturals, Sequences

CONSTANTS
    Driver,    \* driver references
    None       \* Python's None

ASSUME NoneAssumption == None \notin Driver /\ None \notin Nat

EventType == {"SESSION_INFO", "SESSION_STATUS", "TRACK_STATUS",
              "RACE_CONTROL_MESSAGE", "POSITION_UPDATE", "LAP_UPDATE",
              "PIT_STOP", "DRIVER_LIST", "UNSUPPORTED"}

\* A TimingEvent by its type and payload.  Its id is its place in the store's
\* count of events, its timestamp and topic are never read by the pipeline.
TimingEvent(type, content) == [event_type |-> type, payload |-> content]

\* Python dicts are functions on their set of keys.
EmptyDict == [x \in {} |-> x]
Update(dict, other) ==
    [x \in DOMAIN dict \cup DOMAIN other |->
        IF x \in DOMAIN other THEN other[x] ELSE dict[x]]
=============================================================================
