-------------------------- MODULE LiveSystem_proofs --------------------------
(* Theorems of LiveSystem, for every set of threads and any number of events. *)
EXTENDS LiveSystem, LiveTimingClient_proofs, SequenceTheorems

\* Every step is one of the client or leaves the client's state alone.
LEMMA ClientStep == ASSUME [SystemNext]_allVars PROVE [Next]_vars
<1>1. ASSUME NEW t \in Thread, Dispatch(t) PROVE Next
  BY <1>1 DEF Next, ThreadStep
<1>2. ASSUME NEW t \in Thread, Handler(t) PROVE [Next]_vars
  BY <1>1, <1>2 DEF Handler, HandlerCalled, NotNormalized, HandleRead, AppendBuffered, AppendDirect,
                    Ingested, AppendRaises, Assign
<1>3. ASSUME NEW t \in Thread, Transport(t) PROVE Next
  BY <1>3 DEF Transport, Next
<1>4. ASSUME ClientCall PROVE Next
  BY <1>4 DEF ClientCall, Next
<1>5. ASSUME OpenStore \/ CloseStore \/ UNCHANGED allVars PROVE UNCHANGED vars
  BY <1>5 DEF OpenStore, CloseStore, allVars
<1> QED
  BY <1>2, <1>3, <1>4, <1>5 DEF SystemNext

LEMMA ClientInvariant == SystemSpec => [](TypeOK /\ SoleLoop)
<1>1. SystemInit => TypeOK /\ SoleLoop
  BY TypeInit, SoleLoopInit DEF SystemInit
<1>2. TypeOK /\ SoleLoop /\ [SystemNext]_allVars => (TypeOK /\ SoleLoop)'
  BY ClientStep, TypeStep, SoleLoopStep
<1> QED
  BY <1>1, <1>2, PTL DEF SystemSpec

-----------------------------------------------------------------------------
(* Type correctness. *)

Label == {"idle", "called", "direct", "handle", "closed", "returning"}

\* A sequence of events is one of more events.
LEMMA MoreEvents == ASSUME NEW n \in Nat, NEW s \in Seq(1..n) PROVE s \in Seq(1..n + 1)
<1>1. 1..n \subseteq 1..n + 1
  OBVIOUS
<1> QED
  BY <1>1, SeqMonotonic

LEMMA SystemTypeInit == SystemInit => SystemTypeOK
<1> SUFFICES ASSUME SystemInit PROVE SystemTypeOK
  OBVIOUS
<1>1. TypeOK
  BY TypeInit DEF SystemInit
<1>2. << >> \in Seq(1..count) /\ Len(<< >>) = 0
  OBVIOUS
<1>3. working \in [Thread -> Label]
  BY DEF SystemInit, Label
<1>4. local \in [Thread -> Seq(1..count)]
  BY <1>2 DEF SystemInit
<1> QED
  BY <1>1, <1>2, <1>3, <1>4 DEF SystemInit, SystemTypeOK, Label

\* One element put behind the first n of a sequence.
LEMMA Inserted ==
    ASSUME NEW S, NEW s \in Seq(S), NEW e \in S, NEW n \in 0..Len(s)
    PROVE  /\ SubSeq(s, 1, n) \o <<e>> \o SubSeq(s, n + 1, Len(s)) \in Seq(S)
           /\ Len(SubSeq(s, 1, n) \o <<e>> \o SubSeq(s, n + 1, Len(s))) = Len(s) + 1
           /\ n = Len(s) => SubSeq(s, 1, n) \o <<e>> \o SubSeq(s, n + 1, Len(s)) = Append(s, e)
<1> DEFINE first == SubSeq(s, 1, n)
           one == <<e>>
           rest == SubSeq(s, n + 1, Len(s))
<1>1. Len(s) \in Nat /\ n \in Nat /\ \A i \in 1..Len(s) : s[i] \in S
  BY ElementOfSeq
<1>2. first \in Seq(S) /\ Len(first) = n
  BY <1>1, SubSeqProperties
<1>3. rest \in Seq(S) /\ Len(rest) = Len(s) - n
  BY <1>1, SubSeqProperties
<1>4. one \in Seq(S) /\ Len(one) = 1
  OBVIOUS
<1>5. n = Len(s) => first = s /\ rest = << >>
  BY <1>1, SubSeqFull, SubSeqEmpty
<1>6. Append(s, e) = s \o one
  BY AppendIsConcat
<1> HIDE DEF first, one, rest
<1>7. first \o one \in Seq(S) /\ Len(first \o one) = Len(first) + Len(one)
  BY <1>2, <1>4, ConcatProperties
<1>8. /\ first \o one \o rest \in Seq(S)
      /\ Len(first \o one \o rest) = Len(first \o one) + Len(rest)
  BY <1>3, <1>7, ConcatProperties
<1>9. Len(first \o one \o rest) = Len(s) + 1
  BY <1>1, <1>2, <1>3, <1>4, <1>7, <1>8
<1>10. n = Len(s) => first \o one \o rest = Append(s, e)
  <2> SUFFICES ASSUME n = Len(s) PROVE (first \o one) \o << >> = first \o one
    BY <1>5, <1>6
  <2> QED
    BY <1>7, ConcatEmptySeq
<1> QED
  BY <1>8, <1>9, <1>10 DEF first, one, rest

\* What the log and the threads' states are after an append.
LEMMA IngestedTypes ==
    ASSUME SystemTypeOK, NEW t \in Thread, AppendBuffered(t) \/ AppendDirect(t)
    PROVE  /\ count' \in Nat
           /\ live' \in Seq(1..count')
           /\ log' \in Seq(1..count')
           /\ Len(log') = Len(log) + 1
           /\ durable' \in 0..Len(log')
           /\ local' \in [Thread -> Seq(1..count')]
<1>1. /\ count \in Nat /\ count' = count + 1 /\ count' \in Nat /\ count' \in 1..count'
      /\ log \in Seq(1..count) /\ Len(log) \in Nat /\ durable \in 0..Len(log) /\ live' = live
      /\ local \in [Thread -> Seq(1..count)]
  <2>1. /\ count \in Nat /\ log \in Seq(1..count) /\ durable \in 0..Len(log)
        /\ local \in [Thread -> Seq(1..count)]
    BY DEF SystemTypeOK
  <2>2. count' = count + 1 /\ live' = live
    BY DEF AppendBuffered, AppendDirect, Ingested
  <2> QED
    BY <2>1, <2>2, LenProperties
<1>2. log \in Seq(1..count') /\ live \in Seq(1..count')
  BY <1>1, MoreEvents DEF SystemTypeOK
<1>3. local' \in [Thread -> Seq(1..count')]
  <2>1. \A u \in Thread : local[u] \in Seq(1..count')
    BY <1>1, MoreEvents
  <2>2. Append(local[t], count') \in Seq(1..count')
    BY <1>1, <2>1, AppendProperties
  <2>3. local' = [local EXCEPT ![t] = Append(local[t], count')]
    BY DEF AppendBuffered, AppendDirect, Ingested
  <2> QED
    BY <1>1, <2>1, <2>2, <2>3
<1>4. ASSUME AppendBuffered(t)
      PROVE  log' \in Seq(1..count') /\ Len(log') = Len(log) + 1 /\ durable' \in 0..Len(log')
  <2>1. log' = Append(log, count') /\ durable' \in durable..Len(log')
    BY <1>4 DEF AppendBuffered
  <2>2. log' \in Seq(1..count') /\ Len(log') = Len(log) + 1
    BY <1>1, <1>2, <2>1, AppendProperties
  <2> QED
    BY <1>1, <2>1, <2>2
<1>5. ASSUME AppendDirect(t)
      PROVE  log' \in Seq(1..count') /\ Len(log') = Len(log) + 1 /\ durable' \in 0..Len(log')
  <2>1. /\ log' = SubSeq(log, 1, durable) \o <<count'>> \o SubSeq(log, durable + 1, Len(log))
        /\ durable' = durable + 1
    BY <1>5 DEF AppendDirect
  <2> DEFINE Event == 1..count'
  <2>2. log \in Seq(Event) /\ count' \in Event /\ durable \in 0..Len(log)
    BY <1>1, <1>2
  <2> HIDE DEF Event
  <2>3. log' \in Seq(Event) /\ Len(log') = Len(log) + 1
    BY ONLY <2>1, <2>2, Inserted, Zenon
  <2>4. durable' \in 0..Len(log) + 1
    BY <1>1, <2>1
  <2> QED
    BY ONLY <2>3, <2>4 DEF Event
<1> QED
  BY <1>1, <1>2, <1>3, <1>4, <1>5

LEMMA SystemTypeStep == ASSUME SystemTypeOK, [SystemNext]_allVars PROVE SystemTypeOK'
<1> USE DEF Enter, Leave, At
<1>1. TypeOK'
  BY ClientStep, TypeStep DEF SystemTypeOK
<1>2. ASSUME NEW t \in Thread, AppendBuffered(t) \/ AppendDirect(t) PROVE SystemTypeOK'
  <2>1. handle' = handle /\ working' \in [Thread -> Label]
    BY <1>2 DEF SystemTypeOK, Label, AppendBuffered, AppendDirect, Ingested
  <2> QED
    BY <1>1, <1>2, <2>1, IngestedTypes DEF SystemTypeOK, Label
<1>3. ASSUME NEW t \in Thread, HandlerCalled(t) PROVE SystemTypeOK'
  BY <1>1, <1>3 DEF SystemTypeOK, HandlerCalled, storeVars
<1>4. ASSUME NEW t \in Thread, NotNormalized(t) \/ HandleRead(t) PROVE SystemTypeOK'
  BY <1>1, <1>4 DEF SystemTypeOK, NotNormalized, HandleRead, storeVars
<1>5. ASSUME NEW t \in Thread, AppendRaises(t) \/ Assign(t) PROVE SystemTypeOK'
  <2>1. << >> \in Seq(1..count)
    OBVIOUS
  <2>2. local' \in [Thread -> Seq(1..count)]
    BY <1>5, <2>1 DEF SystemTypeOK, AppendRaises, Assign
  <2>3. UNCHANGED storeVars
    BY <1>5 DEF AppendRaises, Assign
  <2>4. working' \in [Thread -> Label]
    BY <1>5 DEF SystemTypeOK, AppendRaises, Assign, Label
  <2>5. live' = live \/ live' = local[t]
    BY <1>5 DEF AppendRaises, Assign
  <2>6. live' \in Seq(1..count)
    BY <2>5 DEF SystemTypeOK
  <2> QED
    BY <1>1, <2>2, <2>3, <2>4, <2>6 DEF SystemTypeOK, storeVars, Label
<1>6. ASSUME UNCHANGED systemVars PROVE SystemTypeOK'
  BY <1>1, <1>6 DEF SystemTypeOK, systemVars, storeVars
<1>7. ASSUME OpenStore PROVE SystemTypeOK'
  BY <1>1, <1>7 DEF SystemTypeOK, OpenStore
<1>8. ASSUME CloseStore PROVE SystemTypeOK'
  <2>1. working' \in [Thread -> Label]
    BY <1>8 DEF SystemTypeOK, CloseStore, Closed, Label
  <2>2. durable' = Len(log) /\ Len(log) \in Nat
    BY <1>8 DEF SystemTypeOK, CloseStore
  <2> QED
    BY <1>1, <1>8, <2>1, <2>2 DEF SystemTypeOK, CloseStore, Label
<1> QED
  BY <1>2, <1>3, <1>4, <1>5, <1>6, <1>7, <1>8
     DEF SystemNext, Handler, ClientCall, Transport, allVars

\* The application's state, the store and the callbacks keep their types.
THEOREM SystemTypeCorrect == SystemSpec => []SystemTypeOK
<1>1. SystemTypeOK /\ [SystemNext]_allVars => SystemTypeOK'
  BY SystemTypeStep
<1> QED
  BY <1>1, SystemTypeInit, PTL DEF SystemSpec

-----------------------------------------------------------------------------
(***************************************************************************)
(* Order.  An event's number is above all that were given out before, so   *)
(* one that is appended to a state a thread has read, however long ago,    *)
(* keeps that state in order, whatever the other threads do meanwhile.     *)
(***************************************************************************)
Ascending(s) == \A i, j \in 1..Len(s) : i < j => s[i] < s[j]

Ordered == Ascending(live) /\ \A t \in Thread : Ascending(local[t])

LEMMA AppendAscends ==
    ASSUME NEW n \in Nat, NEW s \in Seq(1..n), Ascending(s)
    PROVE  Ascending(Append(s, n + 1))
<1> DEFINE more == Append(s, n + 1)
<1>1. /\ Len(more) = Len(s) + 1 /\ more[Len(s) + 1] = n + 1
      /\ \A i \in 1..Len(s) : more[i] = s[i] /\ s[i] \in 1..n
  <2>1. s \in Seq(1..n + 1) /\ n + 1 \in 1..n + 1
    BY MoreEvents
  <2> QED
    BY <2>1, AppendProperties, ElementOfSeq
<1> HIDE DEF more
<1>2. Len(s) \in Nat
  OBVIOUS
<1>3. ASSUME NEW i \in 1..Len(more), NEW j \in 1..Len(more), i < j
      PROVE  more[i] < more[j]
  <2>1. i \in 1..Len(s)
    BY <1>1, <1>2, <1>3
  <2>2. CASE j \in 1..Len(s)
    <3>1. s[i] < s[j]
      BY <1>3, <2>1, <2>2 DEF Ascending
    <3> QED
      BY <1>1, <2>1, <2>2, <3>1
  <2>3. CASE j = Len(s) + 1
    <3>1. more[i] \in 1..n /\ more[j] = n + 1
      BY <1>1, <2>1, <2>3
    <3> QED
      BY <3>1
  <2> QED
    BY <1>1, <1>2, <2>2, <2>3
<1> QED
  BY <1>3 DEF Ascending, more

LEMMA OrderedStep ==
    ASSUME SystemTypeOK, Ordered, [SystemNext]_allVars PROVE Ordered'
<1> USE DEF Leave
<1>1. live \in Seq(1..count) /\ local \in [Thread -> Seq(1..count)] /\ count \in Nat
  BY DEF SystemTypeOK
<1>2. ASSUME NEW t \in Thread, AppendBuffered(t) \/ AppendDirect(t) PROVE Ordered'
  <2>1. live' = live /\ local' = [local EXCEPT ![t] = Append(local[t], count + 1)]
    BY <1>2 DEF AppendBuffered, AppendDirect, Ingested
  <2>2. Ascending(Append(local[t], count + 1))
    BY <1>1, AppendAscends DEF Ordered
  <2>3. \A u \in Thread : local'[u] = local[u] \/ local'[u] = Append(local[t], count + 1)
    BY <1>1, <2>1
  <2> QED
    BY <2>1, <2>2, <2>3 DEF Ordered
<1>3. ASSUME NEW t \in Thread, HandlerCalled(t) PROVE Ordered'
  BY <1>1, <1>3 DEF HandlerCalled, Ordered
<1>4. ASSUME NEW t \in Thread, AppendRaises(t) \/ Assign(t) PROVE Ordered'
  <2>1. live' = live \/ live' = local[t]
    BY <1>4 DEF AppendRaises, Assign
  <2>2. \A u \in Thread : local'[u] = local[u] \/ local'[u] = << >>
    BY <1>1, <1>4 DEF AppendRaises, Assign
  <2>3. Ascending(<< >>)
    BY DEF Ascending
  <2>4. Ascending(live')
    BY <2>1 DEF Ordered
  <2>5. ASSUME NEW u \in Thread PROVE Ascending(local'[u])
    BY <2>2, <2>3 DEF Ordered
  <2> QED
    BY <2>4, <2>5 DEF Ordered
<1>5. ASSUME UNCHANGED <<live, local>> PROVE Ordered'
  BY <1>5 DEF Ordered
<1>6. ASSUME NEW t \in Thread, NotNormalized(t) \/ HandleRead(t) \/ Transport(t)
      PROVE  UNCHANGED <<live, local>>
  BY <1>6 DEF NotNormalized, HandleRead, Transport, systemVars
<1>7. ASSUME ClientCall \/ OpenStore \/ CloseStore \/ UNCHANGED allVars
      PROVE  UNCHANGED <<live, local>>
  BY <1>7 DEF ClientCall, OpenStore, CloseStore, allVars, systemVars
<1> QED
  BY <1>2, <1>3, <1>4, <1>5, <1>6, <1>7 DEF SystemNext, Handler

\* However the handlers of loops left behind interleave, the application's state
\* has no event twice and none out of order (ingest.py:47-48).
THEOREM InOrder == SystemSpec => []AppliedInOrder
<1>1. SystemInit => Ordered
  BY DEF SystemInit, Ordered, Ascending
<1>2. SystemTypeOK /\ Ordered /\ [SystemNext]_allVars => Ordered'
  BY OrderedStep
<1>3. SystemTypeOK /\ Ordered => AppliedInOrder
  <2> SUFFICES ASSUME SystemTypeOK, Ordered PROVE AppliedInOrder
    OBVIOUS
  <2>1. DOMAIN live = 1..Len(live)
    BY DEF SystemTypeOK
  <2> QED
    BY <2>1 DEF Ordered, Ascending, AppliedInOrder
<1> QED
  BY <1>1, <1>2, <1>3, SystemTypeCorrect, PTL DEF SystemSpec

-----------------------------------------------------------------------------
(***************************************************************************)
(* The state and the store.  Until a join gives up only one thread lives,  *)
(* so only one is in the callback: what it has read is the state still,    *)
(* and the state is the log, until append() has added to it and before     *)
(* the result is assigned.  A handle that is opened or closed meanwhile    *)
(* is found in the step append() is at.                                    *)
(***************************************************************************)
InCallback == \A t \in Thread : working[t] # "idle" => pc[t] = "process"
HandleHeld == \A t \in Thread : working[t] = "handle" => handle = "open"

Following ==
    /\ \A t \in Thread : working[t] \in {"called", "direct", "handle", "closed"} => local[t] = live
    /\ \A t \in Thread :
           working[t] = "returning" => local[t] = log /\ (live = log \/ Append(live, count) = log)
    /\ (\A t \in Thread : working[t] # "returning") => live = log
    /\ handle = "none" \/ (\E t \in Thread : working[t] = "direct") => durable = Len(log)

Follows == InCallback /\ HandleHeld /\ (~expired => Following)

LEMMA FollowsInit == SystemInit => Follows
  BY DEF SystemInit, Follows, InCallback, HandleHeld, Following

LEMMA OneInCallback ==
    ASSUME SoleLoop, InCallback, ~expired,
           NEW t \in Thread, NEW u \in Thread, working[t] # "idle", working[u] # "idle"
    PROVE  t = u
  BY DEF SoleLoop, InCallback, Alive

\* What happens to the threads other than the one that steps.
LEMMA OtherThreads ==
    ASSUME TypeOK, NEW u \in Thread, ThreadStep(u), NEW t \in Thread, t # u
    PROVE  pc'[t] = pc[t]
<1>1. ASSUME NEW from \in PC, NEW to \in PC, Step(u, from, to) PROVE pc'[t] = pc[t]
  BY <1>1 DEF Step, Goto, TypeOK
<1>2. ASSUME Receive(u) \/ Skip(u) \/ Dispatch(u) PROVE pc'[t] = pc[t]
  BY <1>2 DEF Goto, Receive, Skip, Dispatch, TypeOK
<1>3. ASSUME CallbackJoined(u) \/ Backoff(u) PROVE pc'[t] = pc[t]
  BY <1>3 DEF Goto, CallbackJoined, Backoff, TypeOK
<1> QED
  BY <1>1, <1>2, <1>3, ThreadSteps

\* A join that gave up stays so.
LEMMA ExpiredStays == ASSUME TypeOK, [Next]_vars, expired PROVE expired'
<1>1. ASSUME NEW u \in Thread, ThreadStep(u) PROVE expired'
  <2>1. ASSUME NEW from \in PC, NEW to \in PC, Step(u, from, to) PROVE expired'
    BY <2>1 DEF Step, shared
  <2>2. ASSUME Receive(u) \/ Skip(u) \/ Dispatch(u) PROVE expired'
    BY <2>2 DEF Receive, Skip, Dispatch, shared
  <2>3. ASSUME CallbackJoined(u) \/ Backoff(u) PROVE expired'
    BY <2>3 DEF CallbackJoined, Joined, Backoff, shared
  <2> QED
    BY <1>1, <2>1, <2>2, <2>3, ThreadSteps
<1>2. ASSUME Disconnect \/ AppJoined \/ UNCHANGED vars PROVE expired'
  BY <1>2 DEF Disconnect, AppJoined, Joined, vars
<1>3. ASSUME NEW u \in Thread, Connect(u) PROVE expired'
  BY <1>3 DEF Connect
<1> QED
  BY <1>1, <1>2, <1>3 DEF Next

LEMMA InCallbackStep ==
    ASSUME SystemTypeOK, InCallback, [SystemNext]_allVars PROVE InCallback'
<1> USE DEF Enter, Leave, At
<1>1. /\ TypeOK /\ pc \in [Thread -> PC]
      /\ working \in [Thread -> Label]
  BY DEF SystemTypeOK, TypeOK, Label
<1>2. ASSUME NEW t \in Thread, HandlerCalled(t) PROVE InCallback'
  <2>1. pc' = pc /\ pc[t] = "process"
    BY <1>2, HandlerAssumption DEF HandlerCalled, Dispatch, AtItem
  <2> QED
    BY <1>1, <1>2, <2>1 DEF HandlerCalled, InCallback
<1>3. ASSUME NEW t \in Thread, working[t] # "idle", Handler(t) PROVE InCallback'
  <2>1. UNCHANGED vars
    BY <1>3 DEF Handler, HandlerCalled, NotNormalized, HandleRead, AppendBuffered, AppendDirect,
                Ingested, AppendRaises, Assign
  <2>2. \A u \in Thread : working'[u] # "idle" => working[u] # "idle"
    BY <1>1, <1>3 DEF Handler, HandlerCalled, NotNormalized, HandleRead, AppendBuffered, AppendDirect,
                      Ingested, AppendRaises, Assign
  <2> QED
    BY <2>1, <2>2 DEF InCallback, vars
<1>4. ASSUME NEW t \in Thread, Transport(t) PROVE InCallback'
  <2>1. working' = working /\ working[t] = "idle" /\ ThreadStep(t)
    BY <1>4 DEF Transport, systemVars
  <2>2. \A u \in Thread : u # t => pc'[u] = pc[u]
    BY <1>1, <2>1, OtherThreads
  <2> QED
    BY <2>1, <2>2 DEF InCallback
<1>5. ASSUME ClientCall PROVE InCallback'
  <2>1. working' = working
    BY <1>5 DEF ClientCall, systemVars
  <2>2. ASSUME NEW t \in Thread, Connect(t), NEW u \in Thread, pc[u] = "process"
        PROVE  pc'[u] = "process"
    BY <1>1, <2>2 DEF Connect, Alive
  <2>3. ASSUME Disconnect \/ AppJoined PROVE pc' = pc
    BY <2>3 DEF Disconnect, AppJoined
  <2> QED
    BY <1>5, <2>1, <2>2, <2>3 DEF ClientCall, InCallback
<1>6. ASSUME OpenStore \/ UNCHANGED allVars PROVE InCallback'
  BY <1>6 DEF OpenStore, allVars, vars, systemVars, InCallback
<1>7. ASSUME CloseStore PROVE InCallback'
  BY <1>1, <1>7 DEF CloseStore, Closed, vars, InCallback
<1>8. ASSUME NEW t \in Thread, Handler(t), working[t] = "idle" PROVE HandlerCalled(t)
  BY <1>8 DEF Handler, NotNormalized, HandleRead, AppendBuffered, AppendDirect, AppendRaises, Assign
<1> QED
  BY <1>2, <1>3, <1>4, <1>5, <1>6, <1>7, <1>8 DEF SystemNext

LEMMA HandleHeldStep ==
    ASSUME SystemTypeOK, HandleHeld, [SystemNext]_allVars PROVE HandleHeld'
<1> USE DEF Enter, Leave, At
<1>1. working \in [Thread -> Label]
  BY DEF SystemTypeOK, Label
<1>2. ASSUME NEW t \in Thread, HandleRead(t) PROVE HandleHeld'
  BY <1>1, <1>2 DEF HandleRead, storeVars, HandleHeld
<1>3. ASSUME NEW t \in Thread, Handler(t), ~HandleRead(t) PROVE HandleHeld'
  <2>1. handle' = handle
    BY <1>3 DEF Handler, HandlerCalled, NotNormalized, AppendBuffered, AppendDirect, Ingested,
                AppendRaises, Assign, storeVars
  <2>2. \A u \in Thread : working'[u] = "handle" => working[u] = "handle"
    BY <1>1, <1>3 DEF Handler, HandlerCalled, NotNormalized, AppendBuffered, AppendDirect, Ingested,
                AppendRaises, Assign
  <2> QED
    BY <2>1, <2>2 DEF HandleHeld
<1>4. ASSUME UNCHANGED systemVars PROVE HandleHeld'
  BY <1>4 DEF systemVars, storeVars, HandleHeld
<1>5. ASSUME OpenStore PROVE HandleHeld'
  BY <1>5 DEF OpenStore, HandleHeld
<1>6. ASSUME CloseStore PROVE HandleHeld'
  BY <1>1, <1>6 DEF CloseStore, Closed, HandleHeld
<1> QED
  BY <1>2, <1>3, <1>4, <1>5, <1>6 DEF SystemNext, Transport, ClientCall, allVars

\* What append() finds: the state it was given is the log, and the log is in
\* the file when it writes to the file itself.
LEMMA FoundByAppend ==
    ASSUME SystemTypeOK, SoleLoop, InCallback, Following, ~expired,
           NEW t \in Thread, working[t] \in {"called", "direct", "handle", "closed"}
    PROVE  /\ local[t] = live /\ live = log
           /\ working[t] = "direct" => durable = Len(log)
           /\ \A u \in Thread : u # t => working[u] = "idle"
<1>1. \A u \in Thread : u # t => working[u] = "idle"
  BY OneInCallback
<1>2. \A u \in Thread : working[u] # "returning"
  BY <1>1
<1> QED
  BY <1>1, <1>2 DEF Following

\* What append() does then, through the handle or not, is to append.
LEMMA AppendAppends ==
    ASSUME SystemTypeOK, SoleLoop, InCallback, Following, ~expired,
           NEW t \in Thread, AppendBuffered(t) \/ AppendDirect(t)
    PROVE  /\ count' = count + 1 /\ log' = Append(log, count')
           /\ durable' \in durable..Len(log')
           /\ working[t] = "direct" => durable' = Len(log')
<1>1. count' = count + 1 /\ working[t] \in {"direct", "handle"}
  BY DEF AppendBuffered, AppendDirect, Ingested, At
<1>2. Len(log') = Len(log) + 1 /\ log' \in Seq(1..count')
  BY IngestedTypes
<1>3. ASSUME AppendBuffered(t) PROVE log' = Append(log, count') /\ durable' \in durable..Len(log')
                                      /\ working[t] # "direct"
  BY <1>3 DEF AppendBuffered, At
<1>4. ASSUME AppendDirect(t) PROVE log' = Append(log, count') /\ durable' = Len(log') /\ durable' = durable + 1
  <2>1. durable = Len(log)
    BY <1>4, FoundByAppend DEF AppendDirect, At
  <2>2. log \in Seq(1..count') /\ count' \in 1..count' /\ Len(log) \in 0..Len(log)
    BY <1>1, MoreEvents DEF SystemTypeOK
  <2> DEFINE Event == 1..count'
             length == Len(log)
  <2>3. log \in Seq(Event) /\ count' \in Event /\ length \in 0..Len(log) /\ length = Len(log)
    BY <2>2
  <2>4. /\ log' = SubSeq(log, 1, length) \o <<count'>> \o SubSeq(log, length + 1, Len(log))
        /\ durable' = length + 1
    BY <1>4, <2>1 DEF AppendDirect
  <2> HIDE DEF Event, length
  <2>5. log' = Append(log, count')
    BY ONLY <2>3, <2>4, Inserted, Zenon
  <2> QED
    BY <1>2, <2>1, <2>3, <2>4, <2>5
<1>5. durable \in Nat /\ Len(log) \in Nat
  BY DEF SystemTypeOK
<1> QED
  BY <1>1, <1>2, <1>3, <1>4, <1>5

LEMMA FollowingStep ==
    ASSUME SystemTypeOK, SoleLoop, InCallback, HandleHeld, Following, ~expired,
           [SystemNext]_allVars
    PROVE  Following'
<1> USE DEF Enter, Leave, At
<1>1. /\ working \in [Thread -> Label] /\ local \in [Thread -> Seq(1..count)]
  BY DEF SystemTypeOK, Label
<1>2. ASSUME NEW t \in Thread, HandlerCalled(t) PROVE Following'
  <2>1. pc[t] = "process"
    BY <1>2 DEF HandlerCalled, Dispatch, AtItem
  <2>2. \A u \in Thread : working[u] = "idle"
    BY <1>2, <2>1 DEF HandlerCalled, SoleLoop, InCallback, Alive
  <2> QED
    BY <1>1, <1>2, <2>2 DEF HandlerCalled, storeVars, Following
<1>3. ASSUME NEW t \in Thread, NotNormalized(t) \/ HandleRead(t) PROVE Following'
  <2>1. local[t] = live /\ live = log /\ \A u \in Thread : u # t => working[u] = "idle"
    BY <1>3, FoundByAppend DEF NotNormalized, HandleRead
  <2> QED
    BY <1>1, <1>3, <2>1 DEF NotNormalized, HandleRead, storeVars, Following, SystemTypeOK
<1>4. ASSUME NEW t \in Thread, AppendBuffered(t) \/ AppendDirect(t) PROVE Following'
  <2>1. working[t] \in {"direct", "handle"}
    BY <1>4 DEF AppendBuffered, AppendDirect
  <2>2. local[t] = live /\ live = log /\ \A u \in Thread : u # t => working[u] = "idle"
    BY <2>1, FoundByAppend
  <2>3. /\ live' = live /\ handle' = handle
        /\ working' = [working EXCEPT ![t] = "returning"]
        /\ local' = [local EXCEPT ![t] = Append(local[t], count')]
    BY <1>4 DEF AppendBuffered, AppendDirect, Ingested
  <2>4. log' = Append(log, count') /\ (working[t] = "direct" => durable' = Len(log'))
    BY <1>4, AppendAppends
  <2>5. handle = "none" => working[t] = "direct"
    BY <2>1 DEF HandleHeld
  <2> QED
    BY <1>1, <2>2, <2>3, <2>4, <2>5 DEF Following
<1>5. ASSUME NEW t \in Thread, AppendRaises(t) PROVE Following'
  <2>1. local[t] = live /\ live = log /\ \A u \in Thread : u # t => working[u] = "idle"
    BY <1>5, FoundByAppend DEF AppendRaises
  <2> QED
    BY <1>1, <1>5, <2>1 DEF AppendRaises, storeVars, Following
<1>6. ASSUME NEW t \in Thread, Assign(t) PROVE Following'
  <2>1. local[t] = log /\ \A u \in Thread : u # t => working[u] = "idle"
    BY <1>6, OneInCallback DEF Assign, Following
  <2> QED
    BY <1>1, <1>6, <2>1 DEF Assign, storeVars, Following
<1>7. ASSUME UNCHANGED systemVars PROVE Following'
  BY <1>7 DEF systemVars, storeVars, Following
<1>8. ASSUME OpenStore PROVE Following'
  BY <1>8 DEF OpenStore, Following
<1>9. ASSUME CloseStore PROVE Following'
  BY <1>1, <1>9 DEF CloseStore, Closed, Following
<1> QED
  BY <1>2, <1>3, <1>4, <1>5, <1>6, <1>7, <1>8, <1>9
     DEF SystemNext, Handler, Transport, ClientCall, allVars

LEMMA FollowsStep ==
    ASSUME SystemTypeOK, SoleLoop, Follows, [SystemNext]_allVars PROVE Follows'
<1>1. InCallback' /\ HandleHeld'
  BY InCallbackStep, HandleHeldStep DEF Follows
<1>2. ~expired' => ~expired
  BY ClientStep, ExpiredStays DEF SystemTypeOK
<1>3. ~expired => Following'
  BY FollowingStep DEF Follows
<1> QED
  BY <1>1, <1>2, <1>3 DEF Follows

LEMMA SystemInvariant == SystemSpec => [](SystemTypeOK /\ SoleLoop /\ Follows)
<1>1. SystemTypeOK /\ SoleLoop /\ Follows /\ [SystemNext]_allVars => Follows'
  BY FollowsStep
<1> QED
  BY <1>1, FollowsInit, ClientInvariant, SystemTypeCorrect, PTL DEF SystemSpec

\* Without a lock, the state is that of the stored events while disconnect()
\* keeps its word (ingest.py:44-48, client.py:84-101).
THEOREM FollowsStore == SystemSpec => []StateFollowsStore
<1>1. SystemTypeOK /\ SoleLoop /\ Follows => StateFollowsStore
  BY DEF Follows, Following, StateFollowsStore, At
<1> QED
  BY <1>1, SystemInvariant, PTL

\* After disconnect() and the store's close() the file holds all that the state
\* shows, and no more (client.py:96-101, store.py:51-59).
THEOREM SettledDurable == SystemSpec => []SettledIsDurable
<1>1. SystemTypeOK /\ SoleLoop /\ Follows => SettledIsDurable
  <2> SUFFICES ASSUME SystemTypeOK, SoleLoop, Follows, current = NoThread, ~expired, handle = "none"
               PROVE  live = log /\ durable = Len(log)
    BY DEF SettledIsDurable
  <2>1. \A t \in Thread : pc[t] = "none"
    BY ActorAssumption DEF SoleLoop, Alive, Actor
  <2>2. \A t \in Thread : working[t] = "idle"
    BY <2>1 DEF Follows, InCallback
  <2> QED
    BY <2>2 DEF Follows, Following
<1> QED
  BY <1>1, SystemInvariant, PTL

-----------------------------------------------------------------------------
(* The store of the running system implements the abstract log.            *)

\* A step that is no append() and no close().
LEMMA LogUntouched ==
    ASSUME UNCHANGED <<count, log, durable>>, ~expired, ~expired'
    PROVE  UNCHANGED Store!vars
BY DEF Store!vars

LEMMA StoreStep ==
    ASSUME SystemTypeOK, SoleLoop, Follows, [SystemNext]_allVars
    PROVE  [Store!Next]_Store!vars
<1>1. CASE expired'
  BY <1>1 DEF Store!Next, Store!Fault
<1>2. CASE ~expired'
  <2>1. ~expired
    BY <1>2, ClientStep, ExpiredStays DEF SystemTypeOK
  <2>2. ASSUME NEW t \in Thread, AppendBuffered(t) \/ AppendDirect(t) PROVE Store!Next
    <3>1. count' = count + 1 /\ log' = Append(log, count') /\ durable' \in durable..Len(log')
      BY <2>1, <2>2, AppendAppends DEF Follows
    <3> QED
      BY <1>2, <2>1, <3>1 DEF Store!Next, Store!Step, Store!AppendEvent
  <2>3. ASSUME CloseStore PROVE Store!Next
    BY <1>2, <2>1, <2>3 DEF CloseStore, Store!Next, Store!Step, Store!Sync
  <2>4. ASSUME NEW t \in Thread, Handler(t), ~AppendBuffered(t), ~AppendDirect(t)
        PROVE  UNCHANGED <<count, log, durable>>
    BY <2>4 DEF Handler, HandlerCalled, NotNormalized, HandleRead, AppendRaises, Assign, storeVars
  <2>5. ASSUME UNCHANGED systemVars \/ OpenStore PROVE UNCHANGED <<count, log, durable>>
    BY <2>5 DEF OpenStore, systemVars, storeVars
  <2> QED
    BY <1>2, <2>1, <2>2, <2>3, <2>4, <2>5, LogUntouched
       DEF SystemNext, Transport, ClientCall, allVars
<1> QED
  BY <1>1, <1>2

\* Appends reach the file in the order of their calls and none is lost, however
\* open() and close() fall between the steps of an append() (store.py:61-69).
THEOREM StoreImplementsLog == SystemSpec => StoreIsLog
<1>1. SystemInit => Store!Init
  BY DEF SystemInit, Init, Store!Init
<1>2. SystemTypeOK /\ SoleLoop /\ Follows /\ [SystemNext]_allVars => [Store!Next]_Store!vars
  BY StoreStep
<1> QED
  BY <1>1, <1>2, SystemInvariant, PTL DEF SystemSpec, StoreIsLog, Store!Spec

=============================================================================
