------------------------- MODULE TimingFeed_proofs --------------------------
(***************************************************************************)
(* Theorems of TimingFeed, for any drivers and lap times and any cap: what *)
(* TimingState shows of a session whose updates name some of the drivers,  *)
(* are discarded for one bad line, or are lost.                            *)
(*                                                                         *)
(* The argument: one lemma per topic says what an update that arrives does *)
(* to each field of the state (Effect), so an action is seen to preserve   *)
(* the part of the invariant whose field it changes, and the other parts   *)
(* carry over.                                                             *)
(***************************************************************************)
EXTENDS TimingFeed, TimingReducer_proofs, FiniteSetTheorems

\* The lists in the state are lists, of whatever events have put there.
Lists ==
    /\ IsState(state)
    /\ IsSeq(state.race_control_messages)
    /\ IsSeq(state.pit_history)

FeedInv == TypeOK /\ Lists /\ PlacesAgree /\ RingHoldsNewest /\ StopsCountedOnce

USE CapAssumption

-----------------------------------------------------------------------------
(* What an update that arrives does to the state. *)

LEMMA Ingested ==
    ASSUME NEW topic, NEW payload, IsState(state), Ingest(topic, payload)
    PROVE  LET event == normalize([topic |-> topic, payload |-> payload])
           IN  \/ event = None /\ state' = state
               \/ /\ event # None
                  /\ state' = [field \in Fields |-> Effect(event, field, state[field])]
  BY ReduceByField DEF Ingest

LEMMA NewestIs ==
    ASSUME NEW p, NEW n \in DOMAIN p, n \in Nat, \A k \in DOMAIN p : k \in Nat /\ n >= k
    PROVE  Newest(p) = p[n]
<1> DEFINE Greatest(k) == k \in DOMAIN p /\ \A l \in DOMAIN p : k >= l
<1>1. \A k : Greatest(k) <=> k = n
  OBVIOUS
<1>2. (CHOOSE k \in DOMAIN p : \A l \in DOMAIN p : k >= l) = n
  BY <1>1
<1> QED
  BY <1>2 DEF Newest

\* TimingData: nothing, when it is empty or a line is malformed; else the drivers' laps and
\* those places that are reported.
LEMMA TimingDataArrives ==
    ASSUME NEW D \in SUBSET Driver, NEW p \in [D -> Line \cup {Malformed}],
           IsState(state), Ingest("TimingData", p)
    PROVE  \/ (D = {} \/ \E d \in D : p[d] = Malformed) /\ state' = state
           \/ /\ D # {} /\ \A d \in D : p[d] \in Line
              /\ IsState(state')
              /\ state'.race_control_messages = state.race_control_messages
              /\ state'.pit_history = state.pit_history
              /\ DOMAIN state'.latest_laps = DOMAIN state.latest_laps \cup D
              /\ state'.driver_positions = Update(state.driver_positions,
                     [d \in {x \in D : p[x].Line # Missing} |-> p[d].Line])
<1> DEFINE laps == [d \in DOMAIN p |-> [last_lap_time |-> Field(p[d].LastLapTime),
                                        position      |-> Field(p[d].Line)]]
           event == normalize([topic |-> "TimingData", payload |-> p])
<1>1. DOMAIN p = D /\ p # Malformed
  BY MarkerAssumption
<1>2. event = handle_timing_data(p)
  BY <1>1 DEF normalize
<1>3. CASE \E d \in D : p[d] = Malformed
  BY <1>1, <1>2, <1>3, Ingested DEF handle_timing_data
<1>4. CASE \A d \in D : p[d] # Malformed
  <2>1. \A d \in D : p[d] \in Line
    BY <1>4
  <2>2. CASE D = {}
    <3>1. p = EmptyDict
      BY <1>1, <2>2 DEF EmptyDict
    <3>2. state' = state
      BY <1>2, <3>1, Ingested DEF handle_timing_data
    <3> QED
      BY <2>2, <3>2
  <2>3. CASE D # {}
    <3>1. event = TimingEvent("LAP_UPDATE", laps)
      <4>1. p # EmptyDict
        BY <1>1, <2>3 DEF EmptyDict
      <4> QED
        BY <1>1, <1>2, <1>4, <4>1 DEF handle_timing_data
    <3>2. laps \in [D -> Lap]
      <4>1. \A d \in D : /\ Field(p[d].LastLapTime) \in LapTime \cup {None}
                         /\ Field(p[d].Line) \in Nat \cup {None}
        BY <2>1 DEF Line, Field
      <4> QED
        BY <1>1, <4>1 DEF Lap
    <3>3. event # None
      <4>1. event \in [event_type : {"LAP_UPDATE"}, payload : [D -> Lap]]
        BY <3>1, <3>2 DEF TimingEvent
      <4> QED
        BY <4>1, MarkerAssumption, Zenon
    <3>4. state' = [field \in Fields |-> Effect(event, field, state[field])]
      BY <3>3, Ingested
    <3>5. PositionsIn(laps) = [d \in {x \in D : p[x].Line # Missing} |-> p[d].Line]
      <4>1. \A d \in D : /\ laps[d].position \in Nat <=> p[d].Line # Missing
                         /\ p[d].Line # Missing => laps[d].position = p[d].Line
        BY <1>1, <2>1, MarkerAssumption, NoneAssumption DEF Line, Field
      <4>2. DOMAIN laps = D
        BY <1>1
      <4> HIDE DEF laps
      <4>3. {x \in DOMAIN laps : laps[x].position \in Nat} = {x \in D : p[x].Line # Missing}
        BY <4>1, <4>2
      <4> QED
        BY <4>1, <4>3, Zenon DEF PositionsIn
    <3> HIDE DEF event
    <3>6. /\ event.event_type = "LAP_UPDATE" /\ event.payload = laps
      BY <3>1 DEF TimingEvent
    <3>7. DOMAIN laps = D
      BY <1>1
    <3> HIDE DEF laps
    <3>8. /\ IsState(state')
          /\ state'.race_control_messages = state.race_control_messages
          /\ state'.pit_history = state.pit_history
          /\ state'.latest_laps = Update(state.latest_laps, laps)
          /\ state'.driver_positions = Update(state.driver_positions, PositionsIn(laps))
      BY <3>4, <3>6 DEF IsState, Fields, Effect
    <3>9. DOMAIN state'.latest_laps = DOMAIN state.latest_laps \cup D
      BY <3>7, <3>8 DEF Update
    <3> QED
      BY <2>1, <2>3, <3>5, <3>8, <3>9
  <2> QED
    BY <2>2, <2>3
<1> QED
  BY <1>3, <1>4

\* RaceControlMessages: the message is appended, and the oldest dropped.
LEMMA RaceControlArrives ==
    ASSUME NEW n \in 0..MaxMessages, IsState(state),
           Ingest("RaceControlMessages", [k \in {n} |-> [Message |-> n + 1, Lap |-> Missing]])
    PROVE  /\ IsState(state')
           /\ state'.driver_positions = state.driver_positions
           /\ state'.latest_laps = state.latest_laps
           /\ state'.pit_history = state.pit_history
           /\ \E message : /\ message.message = n + 1
                           /\ state'.race_control_messages
                                = Capped(Append(state.race_control_messages, message))
<1> DEFINE p == [k \in {n} |-> [Message |-> n + 1, Lap |-> Missing]]
           message == [message |-> n + 1, lap |-> None]
           event == normalize([topic |-> "RaceControlMessages", payload |-> p])
<1>1. n \in Nat
  BY FeedAssumption
<1>2. [Message |-> n + 1, Lap |-> Missing] \in Announcement
  BY <1>1 DEF Announcement
<1>3. p \in [{n} -> Announcement] /\ p # EmptyDict
  <2>1. DOMAIN p # DOMAIN EmptyDict
    BY DEF EmptyDict
  <2> QED
    BY <1>2, <2>1
<1>4. p # Malformed
  BY <1>3, MarkerAssumption, Zenon
<1>5. Newest(p) = [Message |-> n + 1, Lap |-> Missing]
  <2>1. Newest(p) = p[n]
    BY <1>1, NewestIs
  <2> QED
    BY <2>1
<1>6. Newest(p) # Malformed
  BY <1>2, <1>5, MarkerAssumption, Zenon
<1>7. Text(Newest(p).Message) = n + 1 /\ Field(Newest(p).Lap) = None
  <2>1. Newest(p).Message = n + 1 /\ Newest(p).Lap = Missing
    BY <1>5
  <2>2. n + 1 # Missing /\ n + 1 # None
    BY <1>1, MarkerAssumption, NoneAssumption
  <2> QED
    BY <2>1, <2>2, Zenon DEF Text, Field
<1>8. event = TimingEvent("RACE_CONTROL_MESSAGE", message)
  <2>1. event = handle_race_control_messages(p)
    BY <1>4 DEF normalize
  <2> QED
    BY <1>3, <1>6, <1>7, <2>1, Zenon DEF handle_race_control_messages
<1>9. event # None
  <2>1. event \in [event_type : {"RACE_CONTROL_MESSAGE"}, payload : [message : Nat, lap : {None}]]
    BY <1>1, <1>8 DEF TimingEvent
  <2> QED
    BY <2>1, MarkerAssumption, Zenon
<1>10. state' = [field \in Fields |-> Effect(event, field, state[field])]
  BY <1>9, Ingested
<1> HIDE DEF event
<1>11. event.event_type = "RACE_CONTROL_MESSAGE" /\ event.payload = message
  BY <1>8 DEF TimingEvent
<1>12. message.message = n + 1
  OBVIOUS
<1> HIDE DEF message
<1>13. /\ IsState(state')
       /\ state'.driver_positions = state.driver_positions
       /\ state'.latest_laps = state.latest_laps
       /\ state'.pit_history = state.pit_history
       /\ state'.race_control_messages = Capped(Append(state.race_control_messages, message))
  BY <1>10, <1>11 DEF IsState, Fields, Effect
<1> QED
  BY <1>12, <1>13

\* PitLaneTimeCollection: the newest of the stops is appended.
LEMMA PitStopArrives ==
    ASSUME NEW n \in 0..MaxStops, NEW p \in [0..n -> Stop],
           IsState(state), Ingest("PitLaneTimeCollection", p)
    PROVE  /\ IsState(state')
           /\ state'.driver_positions = state.driver_positions
           /\ state'.latest_laps = state.latest_laps
           /\ state'.race_control_messages = state.race_control_messages
           /\ \E stop : /\ stop.racing_number = p[n].RacingNumber
                        /\ state'.pit_history = Append(state.pit_history, stop)
<1> DEFINE stop == [racing_number |-> p[n].RacingNumber, lap |-> p[n].Lap]
           event == normalize([topic |-> "PitLaneTimeCollection", payload |-> p])
<1>1. n \in Nat /\ DOMAIN p = 0..n /\ p[n] \in Stop
  BY FeedAssumption
<1>2. p # EmptyDict
  <2>1. DOMAIN p # DOMAIN EmptyDict
    BY <1>1 DEF EmptyDict
  <2> QED
    BY <2>1
<1>3. p # Malformed
  BY MarkerAssumption, Zenon
<1>4. Newest(p) = p[n]
  BY <1>1, NewestIs
<1>5. Newest(p) # Malformed
  BY <1>1, <1>4, MarkerAssumption, Zenon
<1>6. Text(Newest(p).RacingNumber) = p[n].RacingNumber /\ Field(Newest(p).Lap) = p[n].Lap
  <2>1. p[n].RacingNumber \in Driver /\ p[n].Lap \in Nat
    BY <1>1 DEF Stop
  <2> QED
    BY <1>4, <2>1, MarkerAssumption, NoneAssumption DEF Text, Field
<1>7. event = TimingEvent("PIT_STOP", stop)
  <2>1. event = handle_pit_lane_time_collection(p)
    BY <1>3 DEF normalize
  <2> QED
    BY <1>2, <1>5, <1>6, <2>1, Zenon DEF handle_pit_lane_time_collection
<1>8. event # None
  <2>1. event \in [event_type : {"PIT_STOP"}, payload : [racing_number : Driver, lap : Nat]]
    BY <1>1, <1>7 DEF TimingEvent, Stop
  <2> QED
    BY <2>1, MarkerAssumption, Zenon
<1>9. state' = [field \in Fields |-> Effect(event, field, state[field])]
  BY <1>8, Ingested
<1> HIDE DEF event
<1>10. event.event_type = "PIT_STOP" /\ event.payload = stop
  BY <1>7 DEF TimingEvent
<1>11. stop.racing_number = p[n].RacingNumber
  OBVIOUS
<1> HIDE DEF stop
<1>12. /\ IsState(state')
       /\ state'.driver_positions = state.driver_positions
       /\ state'.latest_laps = state.latest_laps
       /\ state'.race_control_messages = state.race_control_messages
       /\ state'.pit_history = Append(state.pit_history, stop)
  BY <1>9, <1>10 DEF IsState, Fields, Effect
<1> QED
  BY <1>11, <1>12

\* Position.z: whatever the coordinates, no place changes.
LEMMA CoordinatesArrive ==
    ASSUME NEW snapshot, IsState(state), Ingest("Position.z", <<snapshot>>)
    PROVE  /\ IsState(state')
           /\ \/ state'.driver_positions = state.driver_positions
              \/ state'.driver_positions = Update(state.driver_positions, EmptyDict)
           /\ state'.latest_laps = state.latest_laps
           /\ state'.race_control_messages = state.race_control_messages
           /\ state'.pit_history = state.pit_history
<1> DEFINE entries == [d \in DOMAIN snapshot |-> [xyz |-> snapshot[d], position |-> None]]
           event == normalize([topic |-> "Position.z", payload |-> <<snapshot>>])
<1>1. event = None \/ event = TimingEvent("POSITION_UPDATE", entries)
  <2>1. event = None \/ event = handle_position_z(<<snapshot>>)
    BY DEF normalize
  <2>2. Head(<<snapshot>>) = snapshot
    OBVIOUS
  <2> QED
    BY <2>1, <2>2, Zenon DEF handle_position_z
<1>2. CASE event = None
  BY <1>2, Ingested
<1>3. CASE event # None
  <2>1. state' = [field \in Fields |-> Effect(event, field, state[field])]
    BY <1>3, Ingested
  <2>2. PositionsIn(entries) = EmptyDict
    <3>1. {x \in DOMAIN entries : entries[x].position \in Nat} = {}
      BY NoneAssumption
    <3> HIDE DEF entries
    <3>2. PositionsIn(entries) = [d \in {} |-> entries[d].position]
      BY <3>1, Zenon DEF PositionsIn
    <3> QED
      BY <3>2 DEF EmptyDict
  <2> HIDE DEF event
  <2>3. event.event_type = "POSITION_UPDATE" /\ event.payload = entries
    BY <1>1, <1>3 DEF TimingEvent
  <2> HIDE DEF entries
  <2> QED
    BY <2>1, <2>2, <2>3 DEF IsState, Fields, Effect
<1> QED
  BY <1>2, <1>3

-----------------------------------------------------------------------------
(* The invariant holds at first, and every action preserves it. *)

LEMMA FeedInit == Init => FeedInv
<1> SUFFICES ASSUME Init PROVE FeedInv
  OBVIOUS
<1>1. /\ state.race_control_messages = << >> /\ state.pit_history = << >>
      /\ state.driver_positions = EmptyDict /\ state.latest_laps = EmptyDict
      /\ IsState(state)
  BY DEF Init, initial_state, IsState, Fields
<1>2. DOMAIN EmptyDict = {}
  BY DEF EmptyDict
<1>3. Lists
  BY <1>1 DEF Lists, IsSeq
<1>4. TypeOK
  BY <1>1, <1>2 DEF Init, TypeOK
<1>5. PlacesAgree
  BY DEF Init, PlacesAgree
<1>6. RingHoldsNewest
  BY <1>1 DEF Init, RingHoldsNewest
<1>7. StopsCountedOnce
  BY <1>1 DEF Init, StopsCountedOnce
<1> QED
  BY <1>3, <1>4, <1>5, <1>6, <1>7 DEF FeedInv

\* A state has the fields of the initial one.
LEMMA StateDomain == ASSUME NEW s, IsState(s) PROVE DOMAIN s = DOMAIN initial_state
<1>1. DOMAIN s = Fields
  BY DEF IsState
<1> QED
  BY <1>1 DEF Fields, initial_state

\* The parts of the invariant that are of fields an action does not change.
LEMMA ListsCarryOver ==
    ASSUME FeedInv, IsState(state'),
           UNCHANGED <<state.race_control_messages, state.pit_history, heard, counted>>
    PROVE  Lists' /\ RingHoldsNewest' /\ StopsCountedOnce'
  BY DEF FeedInv, Lists, RingHoldsNewest, StopsCountedOnce

LEMMA PlacesCarryOver ==
    ASSUME FeedInv, UNCHANGED <<state.driver_positions, place, unseen>>
    PROVE  PlacesAgree'
  BY DEF FeedInv, PlacesAgree

\* The places of the drivers an update that arrives has places of agree with it.
LEMMA PlacesArrive ==
    ASSUME PlacesAgree, NEW seen \in SUBSET Driver,
           \A d \in Driver \ seen : place'[d] = place[d],
           state'.driver_positions = Update(state.driver_positions, [d \in seen |-> place'[d]]),
           unseen' = unseen \ seen
    PROVE  PlacesAgree'
  BY DEF PlacesAgree, Update

LEMMA GridPlaces == place \in Grids => \A d \in Driver : place[d] \in Nat
<1> SUFFICES ASSUME place \in Grids, NEW d \in Driver PROVE place[d] \in Nat
  OBVIOUS
<1>1. Cardinality(Driver) \in Nat
  BY FS_CardinalityType, FeedAssumption
<1>2. place[d] \in 1..Cardinality(Driver)
  BY DEF Grids
<1> QED
  BY <1>1, <1>2

\* Two drivers who change places leave every place taken once.
LEMMA OvertakeKeepsGrid ==
    ASSUME place \in Grids, NEW d \in Driver, NEW e \in Driver, place[e] = place[d] - 1
    PROVE  [place EXCEPT ![d] = @ - 1, ![e] = @ + 1] \in Grids
<1> DEFINE swapped == [x \in Driver |-> CASE x = d -> place[e]
                                          [] x = e -> place[d]
                                          [] OTHER -> place[x]]
<1>1. d # e /\ place[d] - 1 = place[e] /\ place[e] + 1 = place[d]
  BY GridPlaces
<1>2. [place EXCEPT ![d] = @ - 1, ![e] = @ + 1] = swapped
  BY <1>1 DEF Grids
<1>3. swapped \in [Driver -> 1..Cardinality(Driver)]
  BY DEF Grids
<1>4. \A x, y \in Driver : swapped[x] = swapped[y] => x = y
  BY <1>1 DEF Grids
<1> QED
  BY <1>2, <1>3, <1>4 DEF Grids

LEMMA SnapshotStep == ASSUME FeedInv, Snapshot PROVE FeedInv'
<1> DEFINE p == [d \in Driver |-> [LastLapTime |-> lastLap[d], Line |-> place[d]]]
<1>1. p \in [Driver -> Line]
  <2>1. \A d \in Driver : place[d] \in Nat /\ lastLap[d] \in LapTime \cup {None}
    BY GridPlaces DEF FeedInv, TypeOK
  <2> QED
    BY <2>1 DEF Line
<1>2. \A d \in Driver : p[d] # Malformed /\ p[d].Line = place[d] /\ p[d].Line # Missing
  <2>1. \A d \in Driver : p[d] \in Line /\ p[d].Line = place[d]
    BY <1>1
  <2>2. Malformed \notin Line
    BY MarkerAssumption
  <2>3. \A d \in Driver : place[d] # Missing
    BY GridPlaces, MarkerAssumption DEF FeedInv, TypeOK
  <2> HIDE DEF p
  <2> QED
    BY <2>1, <2>2, <2>3, Zenon
<1>3. /\ p \in [Driver -> Line \cup {Malformed}] /\ IsState(state)
      /\ Ingest("TimingData", p)
      /\ UNCHANGED <<feedVars, heard, counted>> /\ unseen' = {} /\ reported' = Driver
  BY <1>1 DEF Snapshot, FeedInv, Lists
<1> HIDE DEF p
<1>4. CASE Driver = {}
  <2>1. state' = state
    BY <1>3, <1>4, TimingDataArrives
  <2>2. TypeOK'
    BY <1>3, <2>1 DEF FeedInv, TypeOK, feedVars
  <2>3. PlacesAgree'
    BY <1>4 DEF PlacesAgree
  <2> QED
    BY <1>3, <2>1, <2>2, <2>3, ListsCarryOver DEF FeedInv
<1>5. CASE Driver # {}
  <2>1. /\ IsState(state')
        /\ state'.race_control_messages = state.race_control_messages
        /\ state'.pit_history = state.pit_history
        /\ DOMAIN state'.latest_laps = DOMAIN state.latest_laps \cup Driver
        /\ state'.driver_positions = Update(state.driver_positions,
               [d \in {x \in Driver : p[x].Line # Missing} |-> p[d].Line])
    BY <1>2, <1>3, <1>5, TimingDataArrives
  <2>2. state'.driver_positions = Update(state.driver_positions, [d \in Driver |-> place'[d]])
    <3>1. {x \in Driver : p[x].Line # Missing} = Driver
      BY <1>2
    <3> QED
      BY <1>2, <1>3, <2>1, <3>1 DEF feedVars
  <2>3. PlacesAgree'
    BY <1>3, <2>2 DEF PlacesAgree, Update
  <2>4. TypeOK'
    BY <1>3, <2>1, <2>2, StateDomain DEF FeedInv, TypeOK, feedVars, Update
  <2> QED
    BY <1>3, <2>1, <2>3, <2>4, ListsCarryOver DEF FeedInv
<1> QED
  BY <1>4, <1>5

LEMMA OvertakeStep ==
    ASSUME FeedInv, NEW d \in Driver, NEW e \in Driver, Overtake(d, e) PROVE FeedInv'
<1> DEFINE D == {d, e}
           line == [x \in D |-> [LastLapTime |-> Missing, Line |-> place'[x]]]
<1>1. /\ place' = [place EXCEPT ![d] = @ - 1, ![e] = @ + 1]
      /\ UNCHANGED <<lastLap, announced, stops, heard, counted, reported>>
      /\ place' \in Grids
  BY OvertakeKeepsGrid DEF Overtake, FeedInv, TypeOK
<1>2. \A x \in Driver \ D : place'[x] = place[x]
  BY <1>1 DEF FeedInv, TypeOK, Grids
<1>3. \A x \in Driver : place'[x] \in Nat /\ place'[x] # Missing
  BY <1>1, GridPlaces, FS_CardinalityType, FeedAssumption, MarkerAssumption DEF Grids
<1>4. line \in [D -> Line] /\ \A x \in D : line[x].Line = place'[x]
  BY <1>3 DEF Line
<1> HIDE DEF line
<1>5. IsState(state) /\ D \in SUBSET Driver /\ D # {}
  BY DEF FeedInv, Lists
<1>6. CASE Ingest("TimingData", line) /\ unseen' = unseen \ D
  <2>1. \A x \in D : line[x] # Malformed
    BY <1>4, MarkerAssumption
  <2>2. /\ IsState(state')
        /\ state'.race_control_messages = state.race_control_messages
        /\ state'.pit_history = state.pit_history
        /\ DOMAIN state'.latest_laps = DOMAIN state.latest_laps \cup D
        /\ state'.driver_positions = Update(state.driver_positions,
               [x \in {y \in D : line[y].Line # Missing} |-> line[x].Line])
    <3>1. line \in [D -> Line \cup {Malformed}]
      BY <1>4
    <3> HIDE DEF D
    <3> QED
      BY <1>5, <1>6, <2>1, <3>1, TimingDataArrives
  <2>3. state'.driver_positions = Update(state.driver_positions, [x \in D |-> place'[x]])
    <3>1. {y \in D : line[y].Line # Missing} = D
      BY <1>3, <1>4, <1>5
    <3> QED
      BY <1>4, <2>2, <3>1
  <2>4. PlacesAgree'
    <3> HIDE DEF D
    <3> QED
      BY <1>2, <1>5, <1>6, <2>3, PlacesArrive DEF FeedInv
  <2>5. TypeOK'
    BY <1>1, <1>5, <1>6, <2>2, <2>3, StateDomain DEF FeedInv, TypeOK, Update
  <2> QED
    BY <1>1, <2>2, <2>4, <2>5, ListsCarryOver DEF FeedInv
<1>7. CASE state' = state /\ unseen' = unseen \cup D
  <2>1. PlacesAgree'
    BY <1>2, <1>7 DEF FeedInv, PlacesAgree
  <2>2. TypeOK'
    BY <1>1, <1>7 DEF FeedInv, TypeOK
  <2> QED
    BY <1>1, <1>5, <1>7, <2>1, <2>2, ListsCarryOver DEF FeedInv
<1>8. CASE Ingest("TimingData", [line EXCEPT ![e] = Malformed]) /\ unseen' = unseen \cup D
  <2> DEFINE bad == [line EXCEPT ![e] = Malformed]
  <2>1. bad \in [D -> Line \cup {Malformed}] /\ bad[e] = Malformed /\ e \in D
    BY <1>4
  <2>2. Malformed \notin Line
    BY MarkerAssumption
  <2>3. state' = state
    <3> HIDE DEF D, bad
    <3>1. Ingest("TimingData", bad)
      BY <1>8 DEF bad
    <3> QED
      BY <1>5, <2>1, <2>2, <3>1, TimingDataArrives
  <2> QED
    BY <1>7, <1>8, <2>3
<1>9. \/ Ingest("TimingData", line) /\ unseen' = unseen \ D
      \/ Ingest("TimingData", [line EXCEPT ![e] = Malformed]) /\ unseen' = unseen \cup D
      \/ state' = state /\ unseen' = unseen \cup D
  BY DEF Overtake, line
<1> QED
  BY <1>6, <1>7, <1>8, <1>9

LEMMA CompleteLapStep ==
    ASSUME FeedInv, NEW d \in Driver, NEW time \in LapTime, CompleteLap(d, time) PROVE FeedInv'
<1> DEFINE p == [x \in {d} |-> [LastLapTime |-> time, Line |-> Missing]]
<1>1. /\ lastLap' = [lastLap EXCEPT ![d] = time]
      /\ UNCHANGED <<place, announced, stops, heard, counted, unseen>>
      /\ reported' \subseteq Driver /\ IsState(state)
  BY DEF CompleteLap, FeedInv, TypeOK, Lists
<1>2. CASE Ingest("TimingData", p)
  <2>1. p \in [{d} -> Line] /\ p[d].Line = Missing
    BY DEF Line
  <2>2. \A x \in {d} : p[x] # Malformed
    BY <2>1, MarkerAssumption
  <2>3. {x \in {d} : p[x].Line # Missing} = {}
    BY <2>1
  <2> HIDE DEF p
  <2>4. /\ IsState(state')
        /\ state'.race_control_messages = state.race_control_messages
        /\ state'.pit_history = state.pit_history
        /\ DOMAIN state'.latest_laps = DOMAIN state.latest_laps \cup {d}
        /\ state'.driver_positions = Update(state.driver_positions,
               [x \in {y \in {d} : p[y].Line # Missing} |-> p[x].Line])
    <3> DEFINE D == {d}
    <3>1. D \in SUBSET Driver /\ D # {} /\ p \in [D -> Line \cup {Malformed}]
      BY <2>1
    <3>2. \A x \in D : p[x] # Malformed
      BY <2>2
    <3> HIDE DEF D
    <3>3. /\ IsState(state')
          /\ state'.race_control_messages = state.race_control_messages
          /\ state'.pit_history = state.pit_history
          /\ DOMAIN state'.latest_laps = DOMAIN state.latest_laps \cup D
          /\ state'.driver_positions = Update(state.driver_positions,
                 [x \in {y \in D : p[y].Line # Missing} |-> p[x].Line])
      BY <1>1, <1>2, <3>1, <3>2, TimingDataArrives
    <3> QED
      BY <3>3 DEF D
  <2>5. /\ DOMAIN state'.driver_positions = DOMAIN state.driver_positions
        /\ \A x \in DOMAIN state.driver_positions :
               state'.driver_positions[x] = state.driver_positions[x]
    BY <2>3, <2>4 DEF Update
  <2>6. PlacesAgree'
    BY <1>1, <2>5 DEF FeedInv, PlacesAgree
  <2>7. TypeOK'
    BY <1>1, <2>4, <2>5, StateDomain DEF FeedInv, TypeOK
  <2> QED
    BY <1>1, <2>4, <2>6, <2>7, ListsCarryOver DEF FeedInv
<1>3. CASE state' = state
  <2>1. TypeOK'
    BY <1>1, <1>3 DEF FeedInv, TypeOK
  <2> QED
    BY <1>1, <1>3, <2>1, ListsCarryOver, PlacesCarryOver DEF FeedInv
<1> QED
  BY <1>2, <1>3 DEF CompleteLap

LEMMA CoordinatesStep == ASSUME FeedInv, Coordinates PROVE FeedInv'
<1>1. UNCHANGED <<feedVars, ghostVars>> /\ \E snapshot : Ingest("Position.z", <<snapshot>>)
  BY DEF Coordinates
<1>2. PICK snapshot : Ingest("Position.z", <<snapshot>>)
  BY <1>1
<1>3. /\ IsState(state')
      /\ \/ state'.driver_positions = state.driver_positions
         \/ state'.driver_positions = Update(state.driver_positions, EmptyDict)
      /\ state'.latest_laps = state.latest_laps
      /\ state'.race_control_messages = state.race_control_messages
      /\ state'.pit_history = state.pit_history
  BY <1>2, CoordinatesArrive DEF FeedInv, Lists
<1>4. /\ DOMAIN state'.driver_positions = DOMAIN state.driver_positions
      /\ \A x \in DOMAIN state.driver_positions :
             state'.driver_positions[x] = state.driver_positions[x]
  BY <1>3 DEF Update, EmptyDict
<1>5. PlacesAgree'
  BY <1>1, <1>4 DEF FeedInv, PlacesAgree, feedVars, ghostVars
<1>6. TypeOK'
  BY <1>1, <1>3, <1>4, StateDomain DEF FeedInv, TypeOK, feedVars, ghostVars
<1> QED
  BY <1>1, <1>3, <1>5, <1>6, ListsCarryOver DEF FeedInv, ghostVars

\* The newest of the messages are kept, as many as the cap allows.
LEMMA CappedKeepsNewest ==
    ASSUME NEW messages, IsSeq(messages)
    PROVE  LET kept == Capped(messages)
           IN  /\ IsSeq(kept)
               /\ Len(kept) = IF Len(messages) > RaceControlCap THEN RaceControlCap ELSE Len(messages)
               /\ \A i \in 1..Len(kept) : kept[i] = messages[Len(messages) - Len(kept) + i]
<1> DEFINE n == Len(messages)
           first == (IF n > RaceControlCap THEN n - RaceControlCap ELSE 0) + 1
           S == {messages[i] : i \in DOMAIN messages}
<1>1. n \in Nat /\ DOMAIN messages = 1..n
  BY SeqDomain
<1>2. first \in Int /\ n \in Int /\ \A i \in first..n : messages[i] \in S
  BY <1>1
<1>3. Capped(messages) = SubSeq(messages, first, n)
  BY DEF Capped
<1>4. n - first + 1 = IF n > RaceControlCap THEN RaceControlCap ELSE n
  BY <1>1
<1> HIDE DEF n, first, S
<1>5. /\ SubSeq(messages, first, n) \in Seq(S)
      /\ Len(SubSeq(messages, first, n)) = IF first <= n THEN n - first + 1 ELSE 0
      /\ \A i \in 1..n - first + 1 : SubSeq(messages, first, n)[i] = messages[first + i - 1]
  BY <1>2, SubSeqProperties
<1>6. Len(Capped(messages)) = n - first + 1
  BY <1>1, <1>2, <1>3, <1>4, <1>5
<1>7. IsSeq(Capped(messages))
  BY <1>3, <1>5, SeqIsSeq
<1>8. \A i \in 1..n - first + 1 : Capped(messages)[i] = messages[n - (n - first + 1) + i]
  <2> TAKE i \in 1..n - first + 1
  <2>1. first + i - 1 = n - (n - first + 1) + i
    BY <1>2
  <2> QED
    BY <1>3, <1>5, <2>1
<1> QED
  BY <1>4, <1>6, <1>7, <1>8 DEF n

LEMMA AnnounceStep == ASSUME FeedInv, Announce PROVE FeedInv'
<1> DEFINE p == [k \in {announced} |-> [Message |-> announced + 1, Lap |-> Missing]]
<1>1. /\ announced \in 0..MaxMessages /\ announced' = announced + 1
      /\ UNCHANGED <<place, lastLap, stops, counted, unseen, reported>>
      /\ IsState(state) /\ heard \in Seq(1..announced)
  BY FeedAssumption DEF Announce, FeedInv, TypeOK, Lists
<1>2. heard \in Seq(1..announced')
  <2>1. 1..announced \subseteq 1..announced'
    BY <1>1, FeedAssumption
  <2> QED
    BY <1>1, <2>1, SeqMonotonic
<1>3. CASE Ingest("RaceControlMessages", p) /\ heard' = Append(heard, announced + 1)
  <2>1. /\ IsState(state')
        /\ state'.driver_positions = state.driver_positions
        /\ state'.latest_laps = state.latest_laps
        /\ state'.pit_history = state.pit_history
        /\ \E message : /\ message.message = announced + 1
                        /\ state'.race_control_messages
                             = Capped(Append(state.race_control_messages, message))
    BY <1>1, <1>3, RaceControlArrives
  <2>2. PICK message : /\ message.message = announced + 1
                       /\ state'.race_control_messages
                            = Capped(Append(state.race_control_messages, message))
    BY <2>1
  <2> DEFINE kept == state.race_control_messages
             longer == Append(kept, message)
             shown == state'.race_control_messages
             c == Len(kept)
             h == Len(heard)
  <2>3. /\ IsSeq(longer) /\ Len(longer) = c + 1
        /\ \A i \in 1..c : longer[i] = kept[i]
        /\ longer[c + 1] = message
        /\ c \in Nat /\ DOMAIN kept = 1..c
    BY AppendAnything, SeqDomain DEF FeedInv, Lists
  <2>4. /\ IsSeq(shown)
        /\ Len(shown) = IF Len(longer) > RaceControlCap THEN RaceControlCap ELSE Len(longer)
        /\ \A i \in 1..Len(shown) : shown[i] = longer[Len(longer) - Len(shown) + i]
        /\ DOMAIN shown = 1..Len(shown)
    <3>1. shown = Capped(longer)
      BY <2>2
    <3> HIDE DEF shown, longer
    <3> QED
      BY <2>3, <3>1, CappedKeepsNewest, SeqDomain
  <2>5. /\ h \in Nat /\ Len(heard') = h + 1 /\ heard'[h + 1] = announced + 1
        /\ \A i \in 1..h : heard'[i] = heard[i]
    <3>1. IsSeq(heard)
      BY <1>1, SeqIsSeq
    <3> QED
      BY <1>3, <3>1, AppendAnything, SeqDomain
  <2>6. /\ c = IF h < RaceControlCap THEN h ELSE RaceControlCap
        /\ \A i \in 1..c : kept[i].message = heard[h - c + i]
    BY <2>3 DEF FeedInv, RingHoldsNewest
  <2> HIDE DEF kept, longer, shown, c, h
  <2>7. Len(shown) = IF Len(heard') < RaceControlCap THEN Len(heard') ELSE RaceControlCap
    BY <2>3, <2>4, <2>5, <2>6
  <2>8. \A i \in 1..Len(shown) : shown[i].message = heard'[Len(heard') - Len(shown) + i]
    <3> TAKE i \in 1..Len(shown)
    <3> DEFINE j == Len(longer) - Len(shown) + i
    <3>1. j \in 1..c + 1 /\ Len(heard') - Len(shown) + i = h - c + j
      BY <2>3, <2>4, <2>5, <2>6
    <3>2. CASE j = c + 1
      BY <2>2, <2>3, <2>4, <2>5, <2>6, <3>1, <3>2
    <3>3. CASE j \in 1..c
      <4>1. h - c + j \in 1..h
        BY <2>3, <2>5, <2>6, <3>3
      <4>2. shown[i] = longer[j] /\ longer[j] = kept[j]
        BY <2>3, <2>4, <3>3
      <4>3. kept[j].message = heard[h - c + j] /\ heard'[h - c + j] = heard[h - c + j]
        BY <2>5, <2>6, <3>3, <4>1
      <4> HIDE DEF j
      <4> QED
        BY <3>1, <4>2, <4>3
    <3> QED
      BY <2>3, <3>1, <3>2, <3>3
  <2>9. RingHoldsNewest'
    BY <2>4, <2>7, <2>8 DEF RingHoldsNewest, shown
  <2>10. heard' \in Seq(1..announced')
    BY <1>1, <1>2, <1>3, FeedAssumption, AppendProperties
  <2>11. TypeOK'
    BY <1>1, <2>1, <2>10, StateDomain, FeedAssumption DEF FeedInv, TypeOK
  <2>12. Lists' /\ StopsCountedOnce' /\ PlacesAgree'
    BY <1>1, <2>1, <2>4, PlacesCarryOver DEF FeedInv, Lists, StopsCountedOnce, shown
  <2> QED
    BY <2>9, <2>11, <2>12 DEF FeedInv
<1>4. CASE UNCHANGED <<state, heard>>
  <2>1. TypeOK'
    BY <1>1, <1>2, <1>4, FeedAssumption DEF FeedInv, TypeOK
  <2> QED
    BY <1>1, <1>4, <2>1, ListsCarryOver, PlacesCarryOver DEF FeedInv
<1> QED
  BY <1>3, <1>4 DEF Announce

LEMMA PitStopStep == ASSUME FeedInv, NEW d \in Driver, PitStop(d) PROVE FeedInv'
<1> DEFINE n == Len(stops)
           p == [k \in 0..n |-> [RacingNumber |-> stops'[k + 1], Lap |-> k]]
<1>1. /\ stops' = Append(stops, d) /\ n \in 0..MaxStops
      /\ UNCHANGED <<place, lastLap, announced, heard, unseen, reported>>
      /\ IsState(state)
  BY LenProperties, FeedAssumption DEF PitStop, FeedInv, TypeOK, Lists
<1>2. /\ stops' \in Seq(Driver) /\ Len(stops') = n + 1 /\ stops'[n + 1] = d
      /\ n \in Nat /\ \A k \in 0..n : stops'[k + 1] \in Driver
  BY <1>1, AppendProperties, LenProperties, ElementOfSeq DEF FeedInv, TypeOK
<1>3. CASE Ingest("PitLaneTimeCollection", p) /\ counted' = Append(counted, d)
  <2>1. p \in [0..n -> Stop] /\ p[n].RacingNumber = d
    BY <1>2 DEF Stop
  <2> HIDE DEF p, n
  <2>2. /\ IsState(state')
        /\ state'.driver_positions = state.driver_positions
        /\ state'.latest_laps = state.latest_laps
        /\ state'.race_control_messages = state.race_control_messages
        /\ \E stop : /\ stop.racing_number = p[n].RacingNumber
                     /\ state'.pit_history = Append(state.pit_history, stop)
    BY <1>1, <1>3, <2>1, PitStopArrives
  <2>3. PICK stop : stop.racing_number = d /\ state'.pit_history = Append(state.pit_history, stop)
    BY <2>1, <2>2
  <2> DEFINE pits == state.pit_history
             longer == state'.pit_history
             c == Len(pits)
  <2>4. /\ IsSeq(longer) /\ Len(longer) = c + 1 /\ c \in Nat
        /\ \A i \in 1..c : longer[i] = pits[i]
        /\ longer[c + 1] = stop
        /\ DOMAIN pits = 1..c /\ DOMAIN longer = 1..c + 1
    BY <2>3, AppendAnything, SeqDomain DEF FeedInv, Lists
  <2>5. /\ counted = [i \in 1..c |-> pits[i].racing_number]
    BY <2>4 DEF FeedInv, StopsCountedOnce
  <2>6. /\ counted \in Seq(Driver) /\ counted' \in Seq(Driver)
        /\ Len(counted') = Len(counted) + 1
        /\ \A i \in 1..Len(counted) : counted'[i] = counted[i]
        /\ counted'[Len(counted) + 1] = d
    BY <1>3, AppendProperties DEF FeedInv, TypeOK
  <2>7. Len(counted) = c /\ counted' = [i \in 1..c + 1 |-> counted'[i]]
    BY <2>4, <2>5, <2>6, LenProperties
  <2> HIDE DEF pits, longer, c
  <2>8. \A i \in 1..c + 1 : longer[i].racing_number = counted'[i]
    <3> TAKE i \in 1..c + 1
    <3>1. CASE i \in 1..c
      BY <2>4, <2>5, <2>6, <2>7, <3>1
    <3>2. CASE i = c + 1
      BY <2>3, <2>4, <2>6, <2>7, <3>2
    <3> QED
      BY <2>4, <3>1, <3>2
  <2>9. [i \in DOMAIN longer |-> longer[i].racing_number] = counted'
    BY <2>4, <2>7, <2>8
  <2>10. StopsCountedOnce'
    BY <2>9 DEF StopsCountedOnce, longer
  <2>11. TypeOK'
    BY <1>1, <1>2, <2>2, <2>6, StateDomain DEF FeedInv, TypeOK
  <2>12. Lists' /\ RingHoldsNewest' /\ PlacesAgree'
    BY <1>1, <2>2, <2>4, PlacesCarryOver DEF FeedInv, Lists, RingHoldsNewest, longer
  <2> QED
    BY <2>10, <2>11, <2>12 DEF FeedInv
<1>4. CASE UNCHANGED <<state, counted>>
  <2>1. TypeOK'
    BY <1>1, <1>2, <1>4 DEF FeedInv, TypeOK
  <2> QED
    BY <1>1, <1>4, <2>1, ListsCarryOver, PlacesCarryOver DEF FeedInv
<1> QED
  BY <1>3, <1>4 DEF PitStop

LEMMA FeedStep == FeedInv /\ [Next]_vars => FeedInv'
<1> SUFFICES ASSUME FeedInv, [Next]_vars PROVE FeedInv'
  OBVIOUS
<1>1. CASE Snapshot
  BY <1>1, SnapshotStep
<1>2. CASE \E d, e \in Driver : Overtake(d, e)
  BY <1>2, OvertakeStep
<1>3. CASE \E d \in Driver, time \in LapTime : CompleteLap(d, time)
  BY <1>3, CompleteLapStep
<1>4. CASE Announce
  BY <1>4, AnnounceStep
<1>5. CASE \E d \in Driver : PitStop(d)
  BY <1>5, PitStopStep
<1>6. CASE Coordinates
  BY <1>6, CoordinatesStep
<1>7. CASE UNCHANGED vars
  <2>1. UNCHANGED <<feedVars, ghostVars, state>>
    BY <1>7 DEF vars
  <2>2. TypeOK'
    BY <2>1 DEF FeedInv, TypeOK, feedVars, ghostVars
  <2> QED
    BY <2>1, <2>2, ListsCarryOver, PlacesCarryOver DEF FeedInv, Lists, feedVars, ghostVars
<1> QED
  BY <1>1, <1>2, <1>3, <1>4, <1>5, <1>6, <1>7 DEF Next

LEMMA FeedInvAlways == Spec => []FeedInv
  BY FeedInit, FeedStep, PTL DEF Spec

-----------------------------------------------------------------------------
(* The theorems. *)

\* The feed's and the program's variables have their types; above all, the state
\* keeps its fields and names no driver but those of the session.
THEOREM FeedTypeCorrect == Spec => []TypeOK
<1>1. FeedInv => TypeOK
  BY DEF FeedInv
<1> QED
  BY <1>1, FeedInvAlways, PTL

\* However many drivers there are and whichever updates are lost, empty or
\* discarded for one bad line, a driver whose latest place has arrived is shown
\* there (reducer.py:146-173, normalizer.py:295-320).
THEOREM PlacesShownLive == Spec => []PlacesAgree
<1>1. FeedInv => PlacesAgree
  BY DEF FeedInv
<1> QED
  BY <1>1, FeedInvAlways, PTL

\* For every cap, the ring holds the newest messages that arrived, in their
\* order, and no more than the cap (reducer.py:113-118).
THEOREM RingIsNewest == Spec => []RingHoldsNewest
<1>1. FeedInv => RingHoldsNewest
  BY DEF FeedInv
<1> QED
  BY <1>1, FeedInvAlways, PTL

\* Although every update on the pit lane repeats all stops before it, each stop
\* that arrived is listed once (normalizer.py:340-352, reducer.py:176-180).
THEOREM StopsOnce == Spec => []StopsCountedOnce
<1>1. FeedInv => StopsCountedOnce
  BY DEF FeedInv
<1> QED
  BY <1>1, FeedInvAlways, PTL
=============================================================================
