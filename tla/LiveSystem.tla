----------------------------- MODULE LiveSystem -----------------------------
(***************************************************************************)
(* The live application: the threads of LiveTimingClient, each of which    *)
(* runs the callback the package documents (live_timing/__init__.py:18-24) *)
(*                                                                         *)
(*     def handle(raw): nonlocal state; state, _ = ingest(raw, state, store)*)
(*                                                                         *)
(* step by step, and an application thread that connects, disconnects,     *)
(* opens and closes the store and reads the state.  Nothing is locked      *)
(* ("callers must ensure thread safety", client.py:22-24).                 *)
(*                                                                         *)
(* An event is its number in the order of the append() calls, a state is   *)
(* the sequence of the events reduced into it.  EventStore has the store's *)
(* details; here the disk takes every write.                               *)
(***************************************************************************)
EXTENDS LiveTimingClient, FiniteSets

CONSTANT MaxEvents   \* bound on the number of events, for TLC

ASSUME EventsAssumption == MaxEvents \in Nat
ASSUME HandlerAssumption == Callback = {"returns"}   \* what `handle` does

VARIABLES
    live,      \* the application's `state`
    handle,    \* whether the store's persistent handle is open
    count,     \* how many events were appended
    log,       \* the events in the file, then those in the handle's buffer
    durable,   \* how many of them are in the file
    working,   \* where thread t is in the callback
    local      \* the state it holds there: ingest()'s argument, then its result

storeVars == <<handle, count, log, durable>>
systemVars == <<live, storeVars, working, local>>
allVars == <<vars, systemVars>>

SystemTypeOK ==
    /\ TypeOK
    /\ live \in Seq(1..count)
    /\ handle \in {"none", "open"}
    /\ count \in Nat
    /\ log \in Seq(1..count)
    /\ durable \in 0..Len(log)
    /\ working \in [Thread -> {"idle", "called", "direct", "handle", "closed", "returning"}]
    /\ local \in [Thread -> Seq(1..count)]

SystemInit ==
    /\ Init
    /\ live = << >>
    /\ handle = "none"
    /\ count = 0
    /\ log = << >>
    /\ durable = 0
    /\ working = [t \in Thread |-> "idle"]
    /\ local = [t \in Thread |-> << >>]

-----------------------------------------------------------------------------
(* The callback on thread t. *)

At(t, label) == working[t] = label
Enter(t, label) == working' = [working EXCEPT ![t] = label]
Leave(t) == Enter(t, "idle") /\ local' = [local EXCEPT ![t] = << >>]

\* handle(raw) is called and reads `state`, the argument of ingest().
HandlerCalled(t) ==
    /\ At(t, "idle")
    /\ Dispatch(t)
    /\ Enter(t, "called")
    /\ local' = [local EXCEPT ![t] = live]
    /\ UNCHANGED <<live, storeVars>>

\* normalize() gives None: ingest() returns the state it was given.
NotNormalized(t) ==
    /\ At(t, "called")
    /\ Enter(t, "returning")
    /\ UNCHANGED <<vars, live, storeVars, local>>

\* append() reads self._handle, once.
HandleRead(t) ==
    /\ At(t, "called")
    /\ Enter(t, IF handle = "open" THEN "handle" ELSE "direct")
    /\ UNCHANGED <<vars, live, storeVars, local>>

\* append() has written the event and ingest() has reduced it.
Ingested(t) ==
    /\ count' = count + 1
    /\ Enter(t, "returning")
    /\ local' = [local EXCEPT ![t] = Append(@, count')]
    /\ UNCHANGED <<vars, live, handle>>

\* A handle buffers the line and may flush.
AppendBuffered(t) ==
    /\ At(t, "handle")
    /\ Ingested(t)
    /\ log' = Append(log, count')
    /\ durable' \in durable..Len(log')

\* Without a handle the line goes to the end of the file: ahead of what a
\* handle that was opened meanwhile still buffers.
AppendDirect(t) ==
    /\ At(t, "direct")
    /\ Ingested(t)
    /\ log' = SubSeq(log, 1, durable) \o <<count'>> \o SubSeq(log, durable + 1, Len(log))
    /\ durable' = durable + 1

\* The handle was closed meanwhile: append() raises, the client swallows it.
AppendRaises(t) ==
    /\ At(t, "closed")
    /\ Leave(t)
    /\ UNCHANGED <<vars, live, storeVars>>

\* Bug: the event is reduced into the state of the moment, not the one read.
AssignToCurrent(t) ==
    /\ At(t, "returning")
    /\ live' = live \o SelectSeq(local[t], LAMBDA e : \A i \in DOMAIN live : live[i] # e)
    /\ Leave(t)
    /\ UNCHANGED <<vars, storeVars>>

\* Bug: a handler that returns after the stop event leaves the state alone.
AssignUnlessStopped(t) ==
    /\ At(t, "returning")
    /\ live' = IF stop THEN live ELSE local[t]
    /\ Leave(t)
    /\ UNCHANGED <<vars, storeVars>>

\* state, _ = ...
Assign(t) ==
    /\ At(t, "returning")
    /\ live' = local[t]
    /\ Leave(t)
    /\ UNCHANGED <<vars, storeVars>>

Handler(t) ==
    \/ HandlerCalled(t) \/ NotNormalized(t) \/ HandleRead(t)
    \/ AppendBuffered(t) \/ AppendDirect(t) \/ AppendRaises(t)
    \/ Assign(t)

\* The client's own steps: not within the callback, and no frame beyond the
\* bound on events.
Transport(t) ==
    /\ At(t, "idle") /\ ~AtItem(t, "feed")
    /\ ThreadStep(t)
    /\ pc[t] # "process" /\ pc'[t] = "process" =>
           count + Cardinality({u \in Thread : pc'[u] = "process"}) <= MaxEvents
    /\ UNCHANGED systemVars

-----------------------------------------------------------------------------
(* The application's thread, while it does not wait in disconnect().       *)

OpenStore ==
    /\ joining[App] = NoThread
    /\ handle = "none"
    /\ handle' = "open"
    /\ UNCHANGED <<vars, live, count, log, durable, working, local>>

\* A thread that has read the handle holds a closed one from now on.
Closed == [t \in Thread |-> IF At(t, "handle") THEN "closed" ELSE working[t]]

\* Bug: the handle is dropped and its buffer is flushed some other time.
CloseStoreUnflushed ==
    /\ joining[App] = NoThread
    /\ handle = "open"
    /\ handle' = "none"
    /\ working' = Closed
    /\ UNCHANGED <<vars, live, count, log, durable, local>>

\* Bug: self._handle still refers to the closed handle.
CloseStoreKeepsHandle ==
    /\ joining[App] = NoThread
    /\ handle = "open"
    /\ handle' = "closed"
    /\ durable' = Len(log)
    /\ working' = Closed
    /\ UNCHANGED <<vars, live, count, log, local>>

CloseStore ==
    /\ joining[App] = NoThread
    /\ handle = "open"
    /\ handle' = "none"
    /\ durable' = Len(log)
    /\ working' = Closed
    /\ UNCHANGED <<vars, live, count, log, local>>

ClientCall == (Disconnect \/ AppJoined \/ \E t \in Thread : Connect(t)) /\ UNCHANGED systemVars

SystemNext ==
    \/ ClientCall
    \/ OpenStore \/ CloseStore
    \/ \E t \in Thread : Handler(t) \/ Transport(t)

SystemSpec == SystemInit /\ [][SystemNext]_allVars

\* Threads keep running, in the callback too, and a join returns once it can.
SystemFairness ==
    /\ \A t \in Thread : WF_allVars(Handler(t) \/ Transport(t))
    /\ WF_allVars(AppJoined /\ UNCHANGED systemVars)

FairSystemSpec == SystemSpec /\ SystemFairness

-----------------------------------------------------------------------------
(* Properties. *)

\* Until a join gives up, the state is that of the stored events, all but the
\* last while ingest() has not returned (ingest.py:44-48): what disconnect()
\* and connect() do makes up for the missing lock.
StateFollowsStore ==
    ~expired =>
        \/ live = log
        \/ \E t \in Thread : At(t, "returning") /\ local[t] = log /\ Append(live, count) = log

\* Also with a loop left behind, whose handler and the new loop's overwrite
\* each other's state, no event is reduced twice or out of order: events may
\* only be missing from the state (ingest.py:47-48).
AppliedInOrder ==
    \A i, j \in DOMAIN live : i < j => live[i] < live[j]

\* When disconnect() has returned (its join not given up) and the store is
\* closed, the file holds every event of the state: a replay gives that state.
SettledIsDurable ==
    current = NoThread /\ ~expired /\ handle = "none" => live = log /\ durable = Len(log)

\* Until a join gives up, the store is a log, although the application opens
\* and closes it while a thread is inside append() (store.py:61-69).
Store == INSTANCE AuditLog WITH given <- << >>, reading <- "no", sound <- ~expired
StoreIsLog == Store!Spec

\* An event that was stored is shown by the state in the end, also when a stop
\* is requested or the store is closed meanwhile, unless a join gives up.
Shown(e) == \E i \in DOMAIN live : live[i] = e
StoredIsShown == \A e \in 1..MaxEvents : count >= e ~> Shown(e) \/ expired
=============================================================================
