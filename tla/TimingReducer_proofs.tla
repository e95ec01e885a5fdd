------------------------ MODULE TimingReducer_proofs ------------------------
(***************************************************************************)
(* Lemmas about Reduce, for all events and states.  An event changes each  *)
(* field of the state on its own, by a function of the field's old value   *)
(* (Effect), and most of the fields not at all.                            *)
(***************************************************************************)
EXTENDS TimingReducer, SequenceTheorems, WellFoundedInduction, TLAPS

Fields == {"session_status", "session_info", "track_status", "race_control_messages",
           "driver_positions", "latest_laps", "pit_history", "driver_list"}

\* A state is a record with these fields, whatever their values.
IsState(s) == s = [field \in Fields |-> s[field]]

Capped(messages) ==
    SubSeq(messages,
           (IF Len(messages) > RaceControlCap THEN Len(messages) - RaceControlCap ELSE 0) + 1,
           Len(messages))

\* The new value of a field whose value was v.
Effect(event, field, v) ==
    CASE event.event_type = "SESSION_INFO" /\ field = "session_info" -> event.payload
      [] event.event_type = "SESSION_STATUS" /\ field = "session_status" -> event.payload.status
      [] event.event_type = "TRACK_STATUS" /\ field = "track_status" -> event.payload.status
      [] event.event_type = "RACE_CONTROL_MESSAGE" /\ field = "race_control_messages"
            -> Capped(Append(v, event.payload))
      [] event.event_type \in {"LAP_UPDATE", "POSITION_UPDATE"} /\ field = "driver_positions"
            -> Update(v, PositionsIn(event.payload))
      [] event.event_type = "LAP_UPDATE" /\ field = "latest_laps" -> Update(v, event.payload)
      [] event.event_type = "PIT_STOP" /\ field = "pit_history" -> Append(v, event.payload)
      [] event.event_type = "DRIVER_LIST" /\ field = "driver_list" -> event.payload
      [] OTHER -> v

LEMMA ReduceByField ==
    ASSUME NEW s, IsState(s), NEW event
    PROVE  Reduce(s, event) = [field \in Fields |-> Effect(event, field, s[field])]
<1>1. s = [field \in Fields |-> s[field]]
  BY DEF IsState
<1> DEFINE type == event.event_type
<1>2. CASE type = "SESSION_INFO"
  <2>1. Reduce(s, event) = [s EXCEPT !.session_info = event.payload]
    BY <1>2 DEF Reduce, ApplySessionInfo
  <2> QED
    BY <1>1, <1>2, <2>1 DEF Effect, Fields
<1>3. CASE type = "SESSION_STATUS"
  <2>1. Reduce(s, event) = [s EXCEPT !.session_status = event.payload.status]
    BY <1>3 DEF Reduce, ApplySessionStatus
  <2> QED
    BY <1>1, <1>3, <2>1 DEF Effect, Fields
<1>4. CASE type = "TRACK_STATUS"
  <2>1. Reduce(s, event) = [s EXCEPT !.track_status = event.payload.status]
    BY <1>4 DEF Reduce, ApplyTrackStatus
  <2> QED
    BY <1>1, <1>4, <2>1 DEF Effect, Fields
<1>5. CASE type = "RACE_CONTROL_MESSAGE"
  <2>1. Reduce(s, event)
          = [s EXCEPT !.race_control_messages = Capped(Append(s.race_control_messages, event.payload))]
    BY <1>5 DEF Reduce, ApplyRaceControlMessage, Capped
  <2> QED
    BY <1>1, <1>5, <2>1 DEF Effect, Fields
<1>6. CASE type = "POSITION_UPDATE"
  <2>1. Reduce(s, event)
          = [s EXCEPT !.driver_positions = Update(s.driver_positions, PositionsIn(event.payload))]
    BY <1>6 DEF Reduce, ApplyPositionUpdate
  <2> QED
    BY <1>1, <1>6, <2>1 DEF Effect, Fields
<1>7. CASE type = "LAP_UPDATE"
  <2>1. Reduce(s, event)
          = [s EXCEPT !.latest_laps = Update(s.latest_laps, event.payload),
                      !.driver_positions = Update(s.driver_positions, PositionsIn(event.payload))]
    BY <1>7 DEF Reduce, ApplyLapUpdate
  <2> QED
    BY <1>1, <1>7, <2>1 DEF Effect, Fields
<1>8. CASE type = "PIT_STOP"
  <2>1. Reduce(s, event) = [s EXCEPT !.pit_history = Append(s.pit_history, event.payload)]
    BY <1>8 DEF Reduce, ApplyPitStop
  <2> QED
    BY <1>1, <1>8, <2>1 DEF Effect, Fields
<1>9. CASE type = "DRIVER_LIST"
  <2>1. Reduce(s, event) = [s EXCEPT !.driver_list = event.payload]
    BY <1>9 DEF Reduce, ApplyDriverList
  <2> QED
    BY <1>1, <1>9, <2>1 DEF Effect, Fields
<1>10. CASE type \notin EventType \ {"UNSUPPORTED"}
  <2>1. Reduce(s, event) = s
    BY <1>10 DEF Reduce, EventType
  <2> QED
    BY <1>1, <1>10, <2>1 DEF Effect, Fields, EventType
<1> QED
  BY <1>2, <1>3, <1>4, <1>5, <1>6, <1>7, <1>8, <1>9, <1>10 DEF EventType

LEMMA ReduceGivesState ==
    ASSUME NEW s, IsState(s), NEW event PROVE IsState(Reduce(s, event))
  BY ReduceByField DEF IsState

LEMMA ReduceTwice ==
    ASSUME NEW s, IsState(s), NEW e, NEW f
    PROVE  Reduce(Reduce(s, e), f)
             = [field \in Fields |-> Effect(f, field, Effect(e, field, s[field]))]
<1>1. Reduce(s, e) = [field \in Fields |-> Effect(e, field, s[field])]
  BY ReduceByField
<1>2. IsState(Reduce(s, e))
  BY ReduceGivesState
<1>3. Reduce(Reduce(s, e), f) = [field \in Fields |-> Effect(f, field, Reduce(s, e)[field])]
  BY <1>2, ReduceByField
<1> QED
  BY <1>1, <1>3

-----------------------------------------------------------------------------
(* Sequences of anything: what events, states and lists in a state are. *)

IsSeq(s) == s \in Seq({s[i] : i \in DOMAIN s})

LEMMA SeqIsSeq == ASSUME NEW S, NEW s \in Seq(S) PROVE IsSeq(s)
<1>1. DOMAIN s = 1..Len(s) /\ Len(s) \in Nat /\ s \in [1..Len(s) -> S]
  BY LenProperties
<1>2. s \in [1..Len(s) -> {s[i] : i \in DOMAIN s}]
  BY <1>1
<1> QED
  BY <1>1, <1>2, SeqDef DEF IsSeq

LEMMA SeqDomain == ASSUME NEW s, IsSeq(s) PROVE Len(s) \in Nat /\ DOMAIN s = 1..Len(s)
  BY LenProperties DEF IsSeq

LEMMA AppendAnything ==
    ASSUME NEW s, IsSeq(s), NEW e
    PROVE  /\ IsSeq(Append(s, e))
           /\ Len(Append(s, e)) = Len(s) + 1
           /\ \A i \in 1..Len(s) : Append(s, e)[i] = s[i]
           /\ Append(s, e)[Len(s) + 1] = e
<1> DEFINE T == {s[i] : i \in DOMAIN s} \cup {e}
<1>1. s \in Seq(T)
  BY SeqMonotonic DEF IsSeq
<1>2. e \in T
  OBVIOUS
<1> HIDE DEF T
<1>3. /\ Append(s, e) \in Seq(T)
      /\ Len(Append(s, e)) = Len(s) + 1
      /\ \A i \in 1..Len(s) : Append(s, e)[i] = s[i]
      /\ Append(s, e)[Len(s) + 1] = e
  BY <1>1, <1>2, AppendProperties
<1>4. IsSeq(Append(s, e))
  BY <1>3, SeqIsSeq
<1> QED
  BY <1>3, <1>4

\* A set of numbers has a least one: induction, in the form the provers take.
LEMMA Least ==
    ASSUME NEW T \in SUBSET Nat, T # {}
    PROVE  \E m \in T : \A k \in T : m <= k
<1> DEFINE Below == {pair \in Nat \X Nat : pair[1] < pair[2]}
<1>1. IsWellFoundedOn(Below, Nat)
  BY NatLessThanWellFounded, Zenon DEF OpToRel
<1>2. PICK m \in T : \A k \in T : <<k, m>> \notin Below
  BY <1>1, WFMin, Zenon
<1>3. \A k \in T : ~ (k < m)
  BY <1>2
<1> QED
  BY <1>3
=============================================================================
