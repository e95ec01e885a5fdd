-------------------------- MODULE LiveTimingClient --------------------------
(***************************************************************************)
(* The transport of the live path: sources/live_timing/client.py.          *)
(*                                                                         *)
(* connect() starts a background thread that runs the reconnect loop;      *)
(* disconnect() sets a stop event and joins that thread for at most five   *)
(* seconds.  The thread negotiates, opens the WebSocket, subscribes,       *)
(* receives frames and hands every feed message to the on_message          *)
(* callback, which runs on that thread and may itself call disconnect().   *)
(* One application thread (App) calls connect() and disconnect().          *)
(*                                                                         *)
(* Time is abstracted: a wait with a timeout is a wait that may end.       *)
(***************************************************************************)
EXTENDS Naturals, Sequences

CONSTANTS
    Thread,        \* the threads connect() may start; a finished one is reused
    App,           \* the application thread
    NoThread,      \* self._thread is None
    Frame,         \* what the server may send in one WebSocket frame
    Callback,      \* what on_message may do: return, raise, call disconnect()
    AttemptLimit,  \* the attempts told apart; a larger one counts as this one
    Overflows      \* whether multiplier ** AttemptLimit overflows a float

Actor == Thread \cup {App}

\* One entry of a SignalR envelope.  A "skipped" one is not a feed message,
\* has fewer than two arguments, or is a .z payload that does not decompress;
\* a "malformed" one makes the unpacking code raise.
Item == {"feed", "skipped", "malformed"}

ASSUME ActorAssumption == App \notin Thread /\ NoThread \notin Actor
ASSUME FrameAssumption == Frame \subseteq Seq(Item)
ASSUME CallbackAssumption == Callback \subseteq {"returns", "raises", "disconnects"}
ASSUME BackoffAssumption == AttemptLimit \in Nat /\ Overflows \in BOOLEAN

VARIABLES
    stop,      \* self._stop is set
    current,   \* self._thread
    joining,   \* the thread an actor waits for inside disconnect()
    expired,   \* whether a join() has given up on a live thread (history variable)
    pc,        \* where each thread is; "none" when it is not running
    attempt,   \* _reconnect_loop's local counter
    frame,     \* the frame _process_ws_message works on
    next,      \* the entry of it that comes next
    handed     \* the entries of it given to on_message (history variable)

vars == <<stop, current, joining, expired, pc, attempt, frame, next, handed>>
shared == <<stop, current, joining, expired>>
session == <<frame, next, handed>>

PC == {"none", "loop", "negotiate", "connect", "subscribe", "receive",
       "waiting", "process", "join", "close", "dropped", "delay", "backoff"}

TypeOK ==
    /\ stop \in BOOLEAN
    /\ current \in Thread \cup {NoThread}
    /\ joining \in [Actor -> Thread \cup {NoThread}]
    /\ expired \in BOOLEAN
    /\ pc \in [Thread -> PC]
    /\ attempt \in [Thread -> 0..AttemptLimit]
    /\ frame \in [Thread -> Seq(Item)]
    /\ next \in [Thread -> Nat \ {0}]
    /\ handed \in [Thread -> SUBSET Nat]

Alive(t) == pc[t] # "none"

-----------------------------------------------------------------------------
(* Public interface.                                                       *)

Init ==
    /\ stop = FALSE
    /\ current = NoThread
    /\ joining = [a \in Actor |-> NoThread]
    /\ expired = FALSE
    /\ pc = [t \in Thread |-> "none"]
    /\ attempt = [t \in Thread |-> 0]
    /\ frame = [t \in Thread |-> << >>]
    /\ next = [t \in Thread |-> 1]
    /\ handed = [t \in Thread |-> {}]

\* connect(): ignored while the referenced thread lives, else a new thread.
\* A thread that some disconnect() still waits for is not the new one.
\* Bug: connect() forgets to look at the thread it has.
CanStartAlways == TRUE

CanStart == \A t \in Thread : t = current => ~Alive(t)

Connect(t) ==
    /\ joining[App] = NoThread
    /\ CanStart
    /\ ~Alive(t) /\ \A a \in Actor : joining[a] # t
    /\ stop' = FALSE
    /\ current' = t
    /\ pc' = [pc EXCEPT ![t] = "loop"]
    /\ attempt' = [attempt EXCEPT ![t] = 0]
    /\ UNCHANGED <<joining, expired, session>>

\* disconnect() as the application calls it, up to the join.
Disconnect ==
    /\ joining[App] = NoThread
    /\ stop' = TRUE
    /\ joining' = [joining EXCEPT ![App] = current]
    /\ UNCHANGED <<current, expired, pc, attempt, session>>

\* Bug: disconnect() does not wait in join().
NotJoined(a) ==
    /\ joining[a] # NoThread
    /\ current' = NoThread
    /\ joining' = [joining EXCEPT ![a] = NoThread]
    /\ UNCHANGED <<stop, expired, attempt, session>>

\* The join ends because the thread did or because five seconds passed.  Either
\* way the reference to the thread is dropped.
Joined(a) ==
    /\ joining[a] # NoThread
    /\ current' = NoThread
    /\ joining' = [joining EXCEPT ![a] = NoThread]
    /\ expired' = (expired \/ Alive(joining[a]))
    /\ UNCHANGED <<stop, attempt, session>>

AppJoined == Joined(App) /\ UNCHANGED pc

-----------------------------------------------------------------------------
(* The reconnect loop on thread t.                                         *)

Goto(t, label) == pc' = [pc EXCEPT ![t] = label]

Step(t, from, to) == pc[t] = from /\ Goto(t, to) /\ UNCHANGED <<shared, attempt, session>>

\* Bug: the loop does not look at the stop event.
LoopForever(t) == Step(t, "loop", "negotiate")

\* Bug: the loop gives up after a number of attempts.
LoopUntilLimit(t) ==
    Step(t, "loop", IF stop \/ attempt[t] = AttemptLimit THEN "none" ELSE "negotiate")

\* while not self._stop.is_set()
Loop(t) == Step(t, "loop", IF stop THEN "none" ELSE "negotiate")

Negotiate(t) == \E next_step \in {"connect", "delay"} : Step(t, "negotiate", next_step)

WebSocketConnect(t) == \E next_step \in {"subscribe", "delay"} : Step(t, "connect", next_step)

Subscribe(t) == \E next_step \in {"receive", "close"} : Step(t, "subscribe", next_step)

\* ws.close() in the finally clause, then `if self._stop.is_set(): break`.
Close(t) == Step(t, "close", "dropped")

\* Bug: a connection that drops ends the loop.
DroppedForGood(t) == Step(t, "dropped", "none")

Dropped(t) == Step(t, "dropped", IF stop THEN "none" ELSE "delay")

\* _compute_backoff: the power is taken before the cap and may overflow; the
\* exception is caught nowhere and ends the thread.
BackoffRaises(t) == Overflows /\ attempt[t] = AttemptLimit

ComputeBackoff(t) == Step(t, "delay", IF BackoffRaises(t) THEN "none" ELSE "backoff")

\* self._stop.wait(timeout=delay) ends by the timeout or by the stop event.
Backoff(t) ==
    /\ pc[t] = "backoff"
    /\ Goto(t, "loop")
    /\ attempt' = [attempt EXCEPT ![t] = IF @ < AttemptLimit THEN @ + 1 ELSE @]
    /\ UNCHANGED <<shared, session>>

-----------------------------------------------------------------------------
(* The receive loop and the dispatch of a frame.                           *)

\* while not self._stop.is_set(): ws.recv()
ReceiveLoop(t) == Step(t, "receive", IF stop THEN "close" ELSE "waiting")

\* recv times out, or fails, or returns nothing.
NoFrame(t) == \E next_step \in {"receive", "close"} : Step(t, "waiting", next_step)

\* Bug: the entries are counted from 0.
ReceiveFromZero(t) ==
    /\ pc[t] = "waiting"
    /\ \E f \in Frame : frame' = [frame EXCEPT ![t] = f]
    /\ next' = [next EXCEPT ![t] = 0]
    /\ handed' = [handed EXCEPT ![t] = {}]
    /\ Goto(t, "process")
    /\ UNCHANGED <<shared, attempt>>

\* recv returns a frame.  One that is no JSON, or has no "M", is an empty one.
Receive(t) ==
    /\ pc[t] = "waiting"
    /\ \E f \in Frame : frame' = [frame EXCEPT ![t] = f]
    /\ next' = [next EXCEPT ![t] = 1]
    /\ handed' = [handed EXCEPT ![t] = {}]
    /\ Goto(t, "process")
    /\ UNCHANGED <<shared, attempt>>

AtItem(t, kind) ==
    pc[t] = "process" /\ next[t] \in DOMAIN frame[t] /\ frame[t][next[t]] = kind
Advance(t) == next' = [next EXCEPT ![t] = @ + 1]

FrameDone(t) == next[t] \notin DOMAIN frame[t] /\ Step(t, "process", "receive")

\* Bug: return instead of continue.
SkipReturns(t) == AtItem(t, "skipped") /\ Step(t, "process", "receive")

Skip(t) ==
    /\ AtItem(t, "skipped")
    /\ Advance(t)
    /\ UNCHANGED <<shared, pc, attempt, frame, handed>>

\* The exception leaves the frame and the session.
Malformed(t) == AtItem(t, "malformed") /\ Step(t, "process", "close")

\* _dispatch, with a callback that returns or whose exception is swallowed.
\* disconnect() called on the very thread it refers to sets the stop event and
\* raises in join(), which is swallowed too; it returns at once when there is
\* no thread to refer to; else the callback waits in join().
Dispatch(t) ==
    /\ AtItem(t, "feed")
    /\ Advance(t)
    /\ handed' = [handed EXCEPT ![t] = @ \cup {next[t]}]
    /\ UNCHANGED <<current, expired, attempt, frame>>
    /\ \/ /\ Callback \cap {"returns", "raises"} # {}
          /\ UNCHANGED <<stop, joining, pc>>
       \/ /\ "disconnects" \in Callback
          /\ stop' = TRUE
          /\ IF current \in {t, NoThread}
               THEN UNCHANGED <<joining, pc>>
               ELSE /\ joining' = [joining EXCEPT ![t] = current]
                    /\ Goto(t, "join")

CallbackJoined(t) == pc[t] = "join" /\ Joined(t) /\ Goto(t, "process")

-----------------------------------------------------------------------------
ThreadStep(t) ==
    \/ Loop(t) \/ Negotiate(t) \/ WebSocketConnect(t) \/ Subscribe(t)
    \/ ReceiveLoop(t) \/ NoFrame(t) \/ Receive(t)
    \/ FrameDone(t) \/ Skip(t) \/ Malformed(t) \/ Dispatch(t) \/ CallbackJoined(t)
    \/ Close(t) \/ Dropped(t) \/ ComputeBackoff(t) \/ Backoff(t)

Next ==
    \/ Disconnect
    \/ AppJoined
    \/ \E t \in Thread : Connect(t) \/ ThreadStep(t)

Spec == Init /\ [][Next]_vars

\* A started thread keeps running (every wait of it has a timeout) and a join
\* returns once it can.  The application need not call anything.
Fairness == (\A t \in Thread : WF_vars(ThreadStep(t))) /\ WF_vars(AppJoined)
FairSpec == Spec /\ Fairness

-----------------------------------------------------------------------------
(* Safety.                                                                 *)

\* At most one reconnect loop runs (the guard of connect(), client.py:84-86,
\* and the join of disconnect(), client.py:97-101) until a join gives up.
AtMostOneLoop == ~expired => \A t, u \in Thread : Alive(t) /\ Alive(u) => t = u

\* Once disconnect() has dropped its thread no message reaches the callback
\* until connect() is called again ("wait for the thread to exit",
\* client.py:97), unless a join gave up.
QuietAfterDisconnect ==
    [][current = NoThread /\ ~expired => \A t \in Thread : handed'[t] \subseteq handed[t]]_vars

\* A disconnect() that has returned leaves no loop running (client.py:97).
DisconnectWaits == current = NoThread => \A t \in Thread : ~Alive(t)

\* Every feed message ahead of the first malformed entry of a frame reaches the
\* callback, whatever the callback does with the others and also when a stop
\* is requested meanwhile (client.py:274-291, 311-314).
Readable(f) == {i \in DOMAIN f : \A j \in 1..i : f[j] # "malformed"}
FrameHandedInFull ==
    \A t \in Thread :
        pc[t] \in {"receive", "close"} =>
            handed[t] = {i \in Readable(frame[t]) : frame[t][i] = "feed"}

\* A loop ends only because of the stop event: no failure of the connection
\* ends the retries (client.py:110).
OnlyStopEndsLoop ==
    [][\A t \in Thread : Alive(t) /\ pc'[t] = "none" => stop]_vars

-----------------------------------------------------------------------------
(* Liveness.                                                               *)

\* When the stop event stays set every loop ends, an abandoned one included:
\* no wait of the loop outlives its timeout (client.py:110-126, 242-246).
StopDrains == <>[]stop => <>[](\A t \in Thread : ~Alive(t))

\* A failed or dropped connection is tried again unless a stop is requested.
Retries == \A t \in Thread : pc[t] = "delay" ~> (pc[t] = "negotiate" \/ stop)
=============================================================================
