----------------------- MODULE LiveTimingClient_proofs -----------------------
(* Theorems of LiveTimingClient, for every set of threads and of frames. *)
EXTENDS LiveTimingClient, TLAPS

\* What a step of the thread that is not in the public interface can be.
LEMMA ThreadSteps ==
    ASSUME NEW t \in Thread, ThreadStep(t)
    PROVE  \/ \E from, to \in PC :
                /\ Step(t, from, to)
                /\ from # "none" /\ to \notin {"process", "join"}
                /\ from # "join"
                /\ from = "process" => FrameDone(t) \/ Malformed(t)
           \/ Receive(t) \/ Skip(t) \/ Dispatch(t) \/ CallbackJoined(t) \/ Backoff(t)
  BY DEF ThreadStep, Loop, Negotiate, WebSocketConnect, Subscribe, ReceiveLoop,
         NoFrame, FrameDone, Malformed, Close, Dropped, ComputeBackoff, PC

-----------------------------------------------------------------------------
(* Type correctness. *)

LEMMA TypeInit == Init => TypeOK
<1> SUFFICES ASSUME Init PROVE TypeOK
  OBVIOUS
<1>1. frame \in [Thread -> Seq(Item)]
  <2>1. << >> \in Seq(Item)
    OBVIOUS
  <2> QED
    BY <2>1 DEF Init
<1>2. attempt \in [Thread -> 0..AttemptLimit]
  BY BackoffAssumption DEF Init
<1>3. pc \in [Thread -> PC]
  BY DEF Init, PC
<1>4. handed \in [Thread -> SUBSET Nat]
  BY DEF Init
<1>5. joining \in [Actor -> Thread \cup {NoThread}]
  BY DEF Init
<1>6. next \in [Thread -> Nat \ {0}]
  <2>1. 1 \in Nat \ {0}
    OBVIOUS
  <2> QED
    BY <2>1 DEF Init
<1>7. stop \in BOOLEAN /\ expired \in BOOLEAN /\ current \in Thread \cup {NoThread}
  BY DEF Init
<1> QED
  BY <1>1, <1>2, <1>3, <1>4, <1>5, <1>6, <1>7 DEF TypeOK

LEMMA TypeStep ==
    ASSUME TypeOK, [Next]_vars
    PROVE  TypeOK'
<1> USE DEF TypeOK, shared, session
<1>1. ASSUME Disconnect PROVE TypeOK'
  BY <1>1 DEF Disconnect
<1>2. ASSUME AppJoined PROVE TypeOK'
  BY <1>2 DEF AppJoined, Joined
<1>3. ASSUME NEW t \in Thread, Connect(t) PROVE TypeOK'
  <2>1. pc' \in [Thread -> PC]
    BY <1>3 DEF Connect, PC
  <2>2. attempt' \in [Thread -> 0..AttemptLimit]
    BY <1>3, BackoffAssumption DEF Connect
  <2> QED
    BY <1>3, <2>1, <2>2 DEF Connect
<1>4. ASSUME NEW t \in Thread, ThreadStep(t) PROVE TypeOK'
  <2>1. ASSUME NEW from \in PC, NEW to \in PC, Step(t, from, to) PROVE TypeOK'
    BY <2>1 DEF Step, Goto
  <2>2. ASSUME Receive(t) PROVE TypeOK'
    <3>1. pc' \in [Thread -> PC]
      BY <2>2 DEF Receive, Goto, PC
    <3>2. frame' \in [Thread -> Seq(Item)]
      BY <2>2, FrameAssumption DEF Receive
    <3>3. next' \in [Thread -> Nat \ {0}] /\ handed' \in [Thread -> SUBSET Nat]
      BY <2>2 DEF Receive
    <3> QED
      BY <2>2, <3>1, <3>2, <3>3 DEF Receive
  <2>3. ASSUME Skip(t) PROVE TypeOK'
    BY <2>3 DEF Skip, Advance
  <2>4. ASSUME Dispatch(t) PROVE TypeOK'
    <3>1. pc' \in [Thread -> PC]
      BY <2>4 DEF Dispatch, Goto, PC
    <3>2. joining' \in [Actor -> Thread \cup {NoThread}] /\ stop' \in BOOLEAN
      BY <2>4 DEF Dispatch, Actor
    <3>3. next' \in [Thread -> Nat \ {0}]
      BY <2>4 DEF Dispatch, Advance
    <3>4. handed' \in [Thread -> SUBSET Nat]
      BY <2>4 DEF Dispatch
    <3> QED
      BY <2>4, <3>1, <3>2, <3>3, <3>4 DEF Dispatch
  <2>5. ASSUME CallbackJoined(t) PROVE TypeOK'
    BY <2>5 DEF CallbackJoined, Joined, Goto, PC, Actor
  <2>6. ASSUME Backoff(t) PROVE TypeOK'
    BY <2>6, BackoffAssumption DEF Backoff, Goto, PC
  <2> QED
    BY <1>4, <2>1, <2>2, <2>3, <2>4, <2>5, <2>6, ThreadSteps
<1>5. ASSUME UNCHANGED vars PROVE TypeOK'
  BY <1>5 DEF vars
<1> QED
  BY <1>1, <1>2, <1>3, <1>4, <1>5 DEF Next

\* Every reachable state is well typed.
THEOREM TypeCorrect == Spec => []TypeOK
<1>1. TypeOK /\ [Next]_vars => TypeOK'
  BY TypeStep
<1> QED
  BY <1>1, TypeInit, PTL DEF Spec

-----------------------------------------------------------------------------
(***************************************************************************)
(* One loop at a time.  Until a join() gives up on a live thread the thread    *)
(* had ended, a live thread is the one self._thread refers to, because     *)
(* disconnect() drops the reference only then and connect() replaces only  *)
(* a dead one.  A callback never waits in join(): the thread it runs on is *)
(* the one disconnect() would wait for.                                    *)
(***************************************************************************)
SoleLoop ==
    ~expired =>
        /\ \A t \in Thread : Alive(t) => current = t
        /\ \A t \in Thread : joining[t] = NoThread
        /\ joining[App] \in {NoThread, current}

LEMMA SoleLoopInit == Init => SoleLoop
  BY DEF Init, SoleLoop, Alive, Actor

LEMMA SoleLoopStep ==
    ASSUME TypeOK, SoleLoop, [Next]_vars
    PROVE  SoleLoop'
<1> USE ActorAssumption DEF TypeOK, SoleLoop, Alive, Actor
<1>1. ASSUME Disconnect PROVE SoleLoop'
  BY <1>1 DEF Disconnect
<1>2. ASSUME AppJoined PROVE SoleLoop'
  BY <1>2 DEF AppJoined, Joined
<1>3. ASSUME NEW t \in Thread, Connect(t) PROVE SoleLoop'
  BY <1>3 DEF Connect, CanStart
<1>4. ASSUME NEW t \in Thread, ThreadStep(t) PROVE SoleLoop'
  <2>1. ASSUME NEW from \in PC \ {"none"}, NEW to \in PC, Step(t, from, to) PROVE SoleLoop'
    BY <2>1 DEF Step, Goto, shared
  <2>2. ASSUME Receive(t) PROVE SoleLoop'
    BY <2>2 DEF Receive, Goto, shared
  <2>3. ASSUME Skip(t) PROVE SoleLoop'
    BY <2>3 DEF Skip, shared
  <2>4. ASSUME Dispatch(t) PROVE SoleLoop'
    BY <2>4 DEF Dispatch, AtItem
  <2>5. ASSUME CallbackJoined(t) PROVE SoleLoop'
    BY <2>5 DEF CallbackJoined, Joined
  <2>6. ASSUME Backoff(t) PROVE SoleLoop'
    BY <2>6 DEF Backoff, Goto, shared
  <2> QED
    BY <1>4, <2>1, <2>2, <2>3, <2>4, <2>5, <2>6, ThreadSteps
<1>5. ASSUME UNCHANGED vars PROVE SoleLoop'
  BY <1>5 DEF vars
<1> QED
  BY <1>1, <1>2, <1>3, <1>4, <1>5 DEF Next

LEMMA SoleLoopAlways == Spec => [](TypeOK /\ SoleLoop)
<1>1. TypeOK /\ SoleLoop /\ [Next]_vars => (TypeOK /\ SoleLoop)'
  BY TypeStep, SoleLoopStep
<1> QED
  BY <1>1, TypeInit, SoleLoopInit, PTL DEF Spec

\* Two reconnect loops never run at once before a join() gives up
\* (client.py:84-86, 97-101).
THEOREM OneLoop == Spec => []AtMostOneLoop
<1>1. TypeOK /\ SoleLoop => AtMostOneLoop
  BY DEF SoleLoop, AtMostOneLoop
<1> QED
  BY <1>1, SoleLoopAlways, PTL

\* After disconnect() and before the next connect() the callback is left alone,
\* as long as no join() gave up (client.py:97).
THEOREM Quiet == Spec => QuietAfterDisconnect
<1> DEFINE Idle == current = NoThread /\ ~expired => \A t \in Thread : handed'[t] \subseteq handed[t]
<1>1. TypeOK /\ SoleLoop /\ [Next]_vars => [Idle]_vars
  <2> SUFFICES ASSUME TypeOK, SoleLoop, Next, current = NoThread, ~expired
               PROVE  handed' = handed
    BY DEF vars
  <2>1. \A t \in Thread : pc[t] = "none"
    BY ActorAssumption DEF SoleLoop, Alive, Actor
  <2>2. ~ \E t \in Thread : ThreadStep(t)
    BY <2>1, ThreadSteps DEF Step, Receive, Skip, Dispatch, AtItem, CallbackJoined, Backoff
  <2> QED
    BY <2>2 DEF Next, Disconnect, AppJoined, Joined, Connect, session
<1> QED
  BY <1>1, SoleLoopAlways, PTL DEF Spec, QuietAfterDisconnect

-----------------------------------------------------------------------------
(***************************************************************************)
(* Nothing of a frame is left out.  While thread t works on its frame the  *)
(* entries behind it are well formed and their feed messages handed over;  *)
(* after it, all that can be read has been.  This needs no assumption on   *)
(* join(): it concerns every thread by itself.                             *)
(***************************************************************************)
FrameProgress(t) ==
    IF pc[t] \in {"process", "join"}
      THEN /\ \A i \in DOMAIN frame[t] : i < next[t] => frame[t][i] # "malformed"
           /\ handed[t] = {i \in DOMAIN frame[t] : i < next[t] /\ frame[t][i] = "feed"}
      ELSE handed[t] = {i \in Readable(frame[t]) : frame[t][i] = "feed"}

Frames == \A t \in Thread : FrameProgress(t)

\* The entries before an index are the readable ones as long as none of them is
\* malformed and the index itself is, or lies behind the frame.
LEMMA ReadableUpTo ==
    ASSUME NEW f \in Seq(Item), NEW n \in Nat \ {0},
           \A i \in DOMAIN f : i < n => f[i] # "malformed",
           n \notin DOMAIN f \/ f[n] = "malformed"
    PROVE  Readable(f) = {i \in DOMAIN f : i < n}
<1>1. DOMAIN f = 1..Len(f) /\ Len(f) \in Nat
  OBVIOUS
<1>2. ASSUME NEW i \in DOMAIN f, i < n PROVE \A j \in 1..i : f[j] # "malformed"
  BY <1>1, <1>2
<1>3. ASSUME NEW i \in DOMAIN f, \A j \in 1..i : f[j] # "malformed" PROVE i < n
  BY <1>1, <1>3
<1> QED
  BY <1>2, <1>3 DEF Readable

LEMMA FramesInit == Init => Frames
<1>1. Readable(<< >>) = {}
  BY DEF Readable
<1> QED
  BY <1>1 DEF Init, Frames, FrameProgress

LEMMA FramesStep ==
    ASSUME TypeOK, Frames, [Next]_vars
    PROVE  Frames'
<1> USE DEF Frames, TypeOK
\* A step that keeps t's frame keeps what is said of it, unless t enters or
\* leaves the processing of it.
<1>1. ASSUME NEW t \in Thread, UNCHANGED <<frame[t], next[t], handed[t]>>,
             pc'[t] \in {"process", "join"} <=> pc[t] \in {"process", "join"}
      PROVE  FrameProgress(t)'
  BY <1>1 DEF FrameProgress, Readable
<1>2. ASSUME NEW u \in Thread, ThreadStep(u) PROVE Frames'
  <2>1. ASSUME NEW t \in Thread, t # u PROVE FrameProgress(t)'
    <3>1. UNCHANGED <<frame[t], next[t], handed[t], pc[t]>>
      <4>1. ASSUME NEW from \in PC, NEW to \in PC, Step(u, from, to)
            PROVE  UNCHANGED <<frame[t], next[t], handed[t], pc[t]>>
        BY <2>1, <4>1 DEF Step, Goto, session
      <4>2. ASSUME Receive(u) \/ Skip(u) \/ Dispatch(u)
            PROVE  UNCHANGED <<frame[t], next[t], handed[t], pc[t]>>
        BY <2>1, <4>2 DEF Goto, Receive, Skip, Advance, Dispatch
      <4>3. ASSUME CallbackJoined(u) \/ Backoff(u)
            PROVE  UNCHANGED <<frame[t], next[t], handed[t], pc[t]>>
        BY <2>1, <4>3 DEF Goto, CallbackJoined, Joined, Backoff, session
      <4> QED
        BY <1>2, <4>1, <4>2, <4>3, ThreadSteps
    <3> QED
      BY <1>1, <3>1
  <2>2. FrameProgress(u)'
    <3>1. ASSUME FrameDone(u) \/ Malformed(u) PROVE FrameProgress(u)'
      <4>1. pc[u] = "process" /\ pc'[u] \in {"receive", "close"}
            /\ UNCHANGED <<frame[u], next[u], handed[u]>>
        BY <3>1 DEF FrameDone, Malformed, AtItem, Step, Goto, session
      <4>2. Readable(frame[u]) = {i \in DOMAIN frame[u] : i < next[u]}
        <5>1. \A i \in DOMAIN frame[u] : i < next[u] => frame[u][i] # "malformed"
          BY <4>1 DEF FrameProgress
        <5>2. next[u] \notin DOMAIN frame[u] \/ frame[u][next[u]] = "malformed"
          BY <3>1 DEF FrameDone, Malformed, AtItem
        <5>3. frame[u] \in Seq(Item) /\ next[u] \in Nat \ {0}
          OBVIOUS
        <5> QED
          BY <5>1, <5>2, <5>3, ReadableUpTo
      <4> QED
        BY <4>1, <4>2 DEF FrameProgress, Readable
    <3>2. ASSUME NEW from \in PC, NEW to \in PC, Step(u, from, to),
                 from \notin {"process", "join"}, to \notin {"process", "join"}
          PROVE  FrameProgress(u)'
      BY <1>1, <3>2 DEF Step, Goto, session
    <3>3. ASSUME Receive(u) PROVE FrameProgress(u)'
      <4>1. pc'[u] = "process" /\ next'[u] = 1 /\ handed'[u] = {} /\ frame'[u] \in Seq(Item)
        BY <3>3, FrameAssumption DEF Receive, Goto
      <4>2. \A i \in DOMAIN frame'[u] : ~(i < 1)
        BY <4>1
      <4> QED
        BY <4>1, <4>2 DEF FrameProgress
    <3>4. ASSUME Skip(u) \/ Dispatch(u) PROVE FrameProgress(u)'
      <4>1. /\ pc[u] = "process" /\ pc'[u] \in {"process", "join"}
            /\ UNCHANGED frame[u] /\ next'[u] = next[u] + 1
            /\ next[u] \in DOMAIN frame[u] /\ frame[u][next[u]] # "malformed"
            /\ handed'[u] = handed[u] \cup
                  (IF frame[u][next[u]] = "feed" THEN {next[u]} ELSE {})
        BY <3>4 DEF Skip, Dispatch, AtItem, Advance, Goto
      <4>2. \A i \in DOMAIN frame[u] : i < next[u] + 1 <=> i < next[u] \/ i = next[u]
        OBVIOUS
      <4> QED
        BY <4>1, <4>2 DEF FrameProgress
    <3>5. ASSUME CallbackJoined(u) PROVE FrameProgress(u)'
      BY <1>1, <3>5 DEF CallbackJoined, Joined, Goto, session
    <3>6. ASSUME Backoff(u) PROVE FrameProgress(u)'
      BY <1>1, <3>6 DEF Backoff, Goto, session
    <3> QED
      BY <1>2, <3>1, <3>2, <3>3, <3>4, <3>5, <3>6, ThreadSteps
  <2> QED
    BY <2>1, <2>2
<1>3. ASSUME NEW u \in Thread, Connect(u) PROVE Frames'
  BY <1>1, <1>3 DEF Connect, session, Alive
<1>4. ASSUME Disconnect \/ AppJoined \/ UNCHANGED vars PROVE Frames'
  BY <1>1, <1>4 DEF Disconnect, AppJoined, Joined, session, vars
<1> QED
  BY <1>2, <1>3, <1>4 DEF Next

\* Whatever happens to a thread, a frame it is done with was handed over in full.
THEOREM FramesInFull == Spec => []FrameHandedInFull
<1>1. TypeOK /\ Frames /\ [Next]_vars => (TypeOK /\ Frames)'
  BY TypeStep, FramesStep
<1>2. Frames => FrameHandedInFull
  BY DEF Frames, FrameProgress, FrameHandedInFull
<1> QED
  BY <1>1, <1>2, TypeInit, FramesInit, PTL DEF Spec

-----------------------------------------------------------------------------
(***************************************************************************)
(* How a loop ends.  Two steps take a thread out of the loop because of    *)
(* the stop event (the loop's condition and the test after the session),   *)
(* and one because the backoff cannot be computed.                         *)
(***************************************************************************)
LEMMA HowThreadsEnd ==
    ASSUME TypeOK, [Next]_vars, NEW t \in Thread, Alive(t), pc'[t] = "none"
    PROVE  stop \/ (pc[t] = "delay" /\ BackoffRaises(t))
<1> USE DEF TypeOK, Alive
<1>1. pc' # pc
  OBVIOUS
<1>2. CASE Disconnect \/ AppJoined \/ UNCHANGED vars
  BY <1>1, <1>2 DEF Disconnect, AppJoined, vars
<1>3. ASSUME NEW u \in Thread, Connect(u) PROVE FALSE
  BY <1>3 DEF Connect
<1>4. ASSUME NEW u \in Thread, ThreadStep(u)
      PROVE  stop \/ (pc[t] = "delay" /\ BackoffRaises(t))
  <2>1. CASE Loop(u) \/ Dropped(u)
    BY <2>1 DEF Loop, Dropped, Step, Goto
  <2>2. CASE ComputeBackoff(u)
    BY <2>2 DEF ComputeBackoff, Step, Goto
  <2>3. ASSUME Negotiate(u) \/ WebSocketConnect(u) \/ Subscribe(u) \/ ReceiveLoop(u)
               \/ NoFrame(u) \/ FrameDone(u) \/ Malformed(u) \/ Close(u)
        PROVE  FALSE
    BY <2>3 DEF Negotiate, WebSocketConnect, Subscribe, ReceiveLoop, NoFrame,
                FrameDone, Malformed, Close, Step, Goto
  <2>4. ASSUME Receive(u) \/ Skip(u) \/ Dispatch(u) \/ CallbackJoined(u) \/ Backoff(u)
        PROVE  FALSE
    BY <2>4, <1>1 DEF Receive, Skip, Dispatch, CallbackJoined, Backoff, Goto
  <2> QED
    BY <1>4, <2>1, <2>2, <2>3, <2>4 DEF ThreadStep
<1> QED
  BY <1>2, <1>3, <1>4 DEF Next

\* No failure of the connection ends the retries (client.py:110): a loop ends
\* because of the stop event or because the power overflows in _compute_backoff
\* (client.py:336), which is the finding of client_backoff_overflow.
THEOREM LoopEnds ==
    Spec => [][\A t \in Thread : Alive(t) /\ pc'[t] = "none" =>
                  stop \/ (pc[t] = "delay" /\ BackoffRaises(t))]_vars
<1> DEFINE Ends == \A t \in Thread : Alive(t) /\ pc'[t] = "none" =>
                      stop \/ (pc[t] = "delay" /\ BackoffRaises(t))
<1>1. TypeOK /\ [Next]_vars => [Ends]_vars
  BY HowThreadsEnd
<1> QED
  BY <1>1, TypeCorrect, PTL DEF Spec

\* With settings whose power does not overflow (a multiplier of 1) nothing but
\* the stop event ends a loop (client.py:110).
THEOREM OnlyStopEnds ==
    ASSUME ~Overflows
    PROVE  Spec => OnlyStopEndsLoop
<1> DEFINE Ends == \A t \in Thread : Alive(t) /\ pc'[t] = "none" => stop
<1>1. TypeOK /\ [Next]_vars => [Ends]_vars
  BY HowThreadsEnd DEF BackoffRaises
<1> QED
  BY <1>1, TypeCorrect, PTL DEF Spec, OnlyStopEndsLoop
=============================================================================
