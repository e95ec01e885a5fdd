# A TLA+ model of race-engineer-core

race-engineer-core turns two sources of Formula 1 timing data, the live SignalR
feed and the OpenF1 service, into one internal model of a session, keeps the
events it saw in a file, and rebuilds the model from that file. This directory
holds TLA+ modules of it, TLC configurations that check them on small
instances, and proofs for the TLA+ proof system (TLAPS) that hold for every
value of the constants.

`tlc -config X.cfg M` runs a check; the table of runs below names the pairs.
`tlapm M_proofs.tla` checks the proofs. Paths in this file are relative to
`src/src/race_engineer_core/`.

## 1. The system

```
 F1 server --frames--> LiveTimingClient --RawMessage--> (application callback)
                        (own thread)                         |
                                                          ingest()
                                         normalize() -> store.append() -> reduce()
                                                             |               |
 OpenF1 --records--> OpenF1Client -> fetch() -> to_state()   |          TimingState
                                       |  adapter, events    |               ^
                                       +---- append ----> EventStore         |
                                       +---- reduce --------- | -------------+
                                                              v              |
                                                         ReplayRunner --reduce
```

| Component | State it keeps | Operations | Talks to |
|---|---|---|---|
| `LiveTimingClient` (sources/live_timing/client.py) | the stop event, the thread reference, the thread's place in the reconnect loop and its attempt counter | `connect`, `disconnect`, and on its thread negotiate, connect, subscribe, receive, dispatch, close, back off | the F1 server (HTTP, WebSocket); calls `on_message` on its own thread |
| `RawMessage`, `normalize` (raw.py, normalizer.py) | none | one handler per topic | called by `ingest` |
| `ingest` (ingest.py) | none; the caller keeps the `TimingState` | normalize, append, reduce | `EventStore`, reducer |
| `TimingEvent`, `reduce`, `TimingState` (pipeline/events.py, reducer.py) | an immutable state | one handler per event type | called by `ingest`, `ReplayRunner`, `OpenF1SessionLoader` |
| `EventStore` (pipeline/store.py) | the file, the persistent handle with what is buffered in it | `open`, `close`, `append`, `iter_events` | the file system |
| `ReplayRunner` (pipeline/replay.py) | none | `run` | `EventStore`, reducer |
| `OpenF1Client` (sources/openf1/client.py) | none | one GET per endpoint | the OpenF1 service |
| adapter, `OpenF1SessionLoader` (sources/openf1/adapter.py, session.py) | none between calls | `fetch`, `to_state` | `OpenF1Client`, `EventStore`, reducer |
| `load_state` (sources/__init__.py) | none | one branch per source | the loader, `ReplayRunner` |
| scripts/ | none | `openf1_demo` searches a session, loads or replays it and prints; `smoke_test` calls the operations above with fixed inputs | `OpenF1Client`, `load_state` |
| models/ | none | dataclasses no code uses yet | |

What is hard, and what makes each component right:

* **Client.** Two threads share the stop event and the thread reference, and the
  callback may call `disconnect()` on the very thread that is to be joined. The
  join gives up after five seconds while a receive may block for thirty. Right
  means: one loop at a time, silence after `disconnect()`, every readable message
  of a frame handed over, retries that end only on request and do end then.
* **Store.** Lines are buffered, writes break off, the process dies anywhere,
  and a reader may run meanwhile. Right means: the file only grows, a reader gets
  events in order and once, and damage stays where it happened.
* **Normalizer and reducer.** Updates are partial, malformed, lost or repeated.
  Right means: what arrived last is what the state shows.
* **Ingestion and replay.** `append()` may fail between normalizing and reducing,
  and a restart continues from a replay. Right means: a replay reproduces a state
  the live session was in.
* **The live system.** The documented handler (sources/live_timing/__init__.py:18-24)
  keeps the state in a variable that the client's threads replace, while the
  application may open and close the store within an `append()`; nothing is
  locked. Right means: what `connect()` and `disconnect()` do is lock enough, the
  state is that of the stored events, and a session ended in order is all on disk.
* **OpenF1.** Records come in any order, some without dates; requests and appends
  fail and a load is tried again into the same file; the service limits the rate
  of requests. Right means: the loaded state does not depend on that order, its
  replay does not depend on the failures, and the requests are kept apart.

`PROJECT.json` lists the hazards one by one, at the lines where they bite.

## 2. The modules

| Module | Models |
|---|---|
| `LiveTimingClient` | client.py, by control: all waits, branches and exceptions; frames are sequences of feed, skipped and malformed entries |
| `EventStore` | store.py: the file as a sequence of whole and broken writes, the buffered handle, one appending process, one reader |
| `AuditLog` | the abstract store: a log with a durable prefix |
| `TimingEvents`, `TimingReducer` | events.py, reducer.py |
| `Normalizer` | normalizer.py |
| `TimingFeed` | the F1 feed with its losses, through `normalize` and `reduce` |
| `ReducerLaws` | commutation and redelivery in every state events lead to |
| `LivePipeline` | ingest.py, replay.py and the replay branch of `load_state`, over `EventStore`, `Normalizer`, `TimingReducer` |
| `LiveSystem` | the client's threads (`LiveTimingClient`) running the handler of the package's docstring step by step: ingest.py, `append()`, beside the application that connects, disconnects, opens and closes |
| `OpenF1Adapter`, `OpenF1Loader` | adapter.py; client.py, `fetch`, `to_state`, the OpenF1 branch of `load_state`, and the demo's search ahead of it |
| `MC...` | instances for TLC |
| `..._proofs` | theorems and proofs |

### Correspondence to the code

**LiveTimingClient.** `stop` is `self._stop`, `current` is `self._thread`,
`pc[t]` the place of thread `t`: `loop` (the `while` of `_reconnect_loop`),
`negotiate`, `connect`, `subscribe`, `receive` and `waiting` (the `while` and the
`recv` of `_receive_loop`), `process` (`_process_ws_message`), `join` (a callback
inside `disconnect()`), `close`, `dropped`, `delay` and `backoff`. Every outcome a
call can have is a disjunct or a target of its step. `disconnect()` is two actions,
`Disconnect` up to the join and `Joined` after it, because other threads run in
between; `connect()` is one, because no code of another thread interferes with it
as long as there is one loop. After a join has given up a left-behind callback
could interfere with `connect()` between its lines; that finer interleaving is
not modelled. `expired` remembers that a join gave up; `handed` which entries of a
frame reached the callback. `attempt` is told apart up to `AttemptLimit`, and
`Overflows` says whether the power overflows there.

**EventStore.** Events are numbered as `append()` is called. `file` is the writes
that reached the file: a `whole` one is a line with its newline; a broken one is a
prefix, a text without its newline, or a text cut inside a multi-byte character
(texts are written with `ensure_ascii=False`). A line reaches to the next whole
write, which is why an event written behind a torn line is glued to it. `buffer`
is what the handle holds; Python flushes any number of its lines at any append.
`handle = "broken"` is a closed file left in `self._handle` by a `close()` that
failed. `iter_events` decodes in blocks outside its `try`, so a cut character
makes it raise (`ReadRaises`), with all that follows in the file lost to that
iteration. `faulted` remembers that a write failed or broke
off; it is what the refinement of `AuditLog` maps to the end of its promise
(`sound`). A crash may leave any number of the buffered lines in the file, the
last one whole or not.

**Normalizer, TimingReducer.** One operator per handler. Python dicts are
functions, absent fields are `Missing`, nulls `None`, and what a handler fails on
is `Malformed`. Fields that are copied and that nothing tells apart are left out.

**LivePipeline.** `Ingest` is the whole of `ingest()`: normalize, append, reduce,
with the two ways the append may end. `replay` grows with every turn of
`ReplayRunner.run`'s loop. After `ProcessCrashes` the process starts by a complete
replay (`Resume`). `lineage` and `past` are history variables.

**LiveSystem.** A thread of `LiveTimingClient` that dispatches a message goes
through the handler: `HandlerCalled` reads the application's `state` (the argument
of `ingest`), `NotNormalized` is `normalize()` giving None, `HandleRead` reads
`self._handle` once, `AppendBuffered`, `AppendDirect` and `AppendRaises` are the
three ways the write may go, depending on what was read and on what `CloseStore`
has done since, and `Assign` replaces the state. Between any two of them the other
threads and the application run. An event is its number in the order of the
appends and a state is the sequence of the events reduced into it, which tells
apart all that a reducer could. `log` and `durable` are the file with the handle's
buffer behind it. The disk takes every write here; `EventStore` has the faults.

**OpenF1Loader.** `FindSession` is the search of the demo, `LoadState` the call of
`load_state` up to the first request. `Responds` is one answered request: the next
one is sent (`SendNext`) after the delay of `fetch`, if there is one there, or, after
the last, the events are built and sorted (`BeginToState`). `ReduceNext` is one turn
of the loop of `to_state` (append, when there is a store, then reduce), `AppendFails`
an append that raises before, within or after its write, `ProjectPositions` the
projection of the places. `ages` counts the ticks since each request of the last
second: a tick is 0.2 s, so that a second has five and the delay of 0.4 s two. The
ages are kept by request, 0 for the search and 1 to 6 for those of `fetch`. The
store is used without a persistent handle and is represented by the state that
`ReplayRunner` would make of its complete lines (`replayed`), whether it ends in a
torn line (`torn`, also when only the newline is missing, since the next line is
then glued to it) and whether it can be read at all (`readable`: not once a write
was cut within a character). The store's other details are `EventStore`'s. A record's
driver number may be null or absent, and the adapter's `str()` tells these apart
(`DriverNumber`): a null becomes a driver "None" whose laps, stops and places are
kept, while `drivers_to_event` drops both and laps and places only the absent one.
Python's stable sorts are `Sorted`: position `n` of the sorted list has
the member with exactly `n - 1` ahead of it by key and index. The laps of all
drivers are one list, sorted by number and then by the driver's first record,
which is the order of the dict of lists in the code.

## 3. The runs

| Run | Module | Checks | States |
|---|---|---|---|
| `client` | MCLiveTimingClient | type invariant, one loop, frames in full, silence, only a stop ends a loop, a lasting stop ends all, retries | 43 thousand |
| `client_join_timeout` | MCLiveTimingClient | *violated:* `disconnect()` waits for its thread | |
| `client_backoff_overflow` | MCLiveTimingClient | *violated:* only a stop ends a loop | |
| `store` | EventStore | type invariant, order, local damage, the file only grows, refinement of `AuditLog` until the first fault | 136 thousand |
| `store_glued_line` | EventStore | *violated:* every event written in full is read | |
| `store_cut_character` | EventStore | *violated:* reading never raises | |
| `timing_feed` | MCTimingFeed | type invariant, race order, newest messages in order, stops counted once | 824 thousand |
| `feed_partial_update` | MCTimingFeed | *violated:* a reported lap time stays until the next | |
| `reducer_laws` | MCReducerLaws | commutation, redelivery | 2.3 thousand |
| `pipeline` | MCLivePipeline | type invariant, replay against the live session, restart | 1.2 million |
| `live_system` | MCLiveSystem | type invariant, the state follows the store, order, durability after the end, refinement of `AuditLog`, stored events are shown in the end | 138 thousand |
| `openf1_load` | MCOpenF1Loader | type invariant, pacing of requests, laps, places, replay after failed loads | 419 thousand |

What the violated ones show of the code:

1. `disconnect()` may return with its loop running: the join gives up after 5 s,
   `recv` may wait 30 s. A `connect()` then clears the stop event the old loop
   should see, and two loops run. Until a join gives up that cannot happen, which
   is proved.
2. `multiplier ** attempt` is computed before it is capped; with the default
   multiplier it raises `OverflowError` at attempt 1024, outside any `try`, and the
   thread ends. `attempt` is never reset, so a session with many reconnects gets
   there.
3. The next append continues right behind a torn line, so a whole event is lost to
   readers, which `iter_events` promises not to happen. `DamageIsLocal` says what
   does hold of an iteration that returns: a broken-off write has cost it at most
   its own event and the one behind it.
4. A write that broke off within a character of more than one byte makes every later
   iteration raise, against the doc of `iter_events`: the lines are decoded outside
   its `try`. All that follows in the file is then lost to it, whole lines too.
   `ReplayInOrder` says what still holds: what it yielded before is right.
5. A `TimingData` update that has only a driver's place replaces the driver's lap
   entry and erases the last lap time shown.

Met while modelling and not given a run: the places of an OpenF1 session are no
events (openf1/session.py:190), so a replay of its store has none, where
openf1/session.py:30 speaks of "first-class replay-capable sessions" (`ReplayRetains`
says what does hold of such a replay); the first two requests of
`fetch` have no delay between them, so that fast responses put four requests into
the first second, five after a search, where openf1/client.py:10-14 means to stay
within three (`Paced` says what does hold: three from the second request on); a loop
left behind by a join that gave up may make the state lose events that are in the
store (`AppliedInOrder` says what still holds); an undated lap is sorted ahead of the
session's own events, against the comment at openf1/session.py:213; and a null driver
number makes a driver "None" (openf1/adapter.py:271, 333), where `drivers_to_event`
drops such a record.

### Bounds, and why they are enough

* **client**: two threads, since two loops are what must not be; a third would be
  a second left-behind one, which behaves like the first. Frames: none, one with
  an entry to skip between two feed messages, one that breaks off between two.
  The callback returns or disconnects; one that raises is swallowed and equals one
  that returns. `AttemptLimit` 1 tells the first attempt from the later ones; the
  overflow run has 3.
* **store**: five appends: one to tear, one to be glued, one to survive, one that
  is read while the others are written, and one more for the buffer. The buffer
  holds up to all of them and may be cut anywhere.
* **live_system**: two threads, one of which may be a loop left behind, and three
  events, so that each of two handlers may hold one while a third is stored. Frames
  of one message, because `client` has the longer ones; no limit on how often the
  application connects, disconnects, opens and closes.
* **timing_feed**: three drivers, so that an overtake leaves one driver out; a cap of
  two messages and three of them, so that the ring has an order and turns over; two
  stops, so that an update repeats an old one; one driver completes laps, because
  the laps of two do not interact and their positions are covered by overtakes. The
  feed of the model sends the list of stops once for each new stop; it does not send
  again a list whose newest stop was counted.
* **reducer_laws**: every event type, up to one more than the cap in the lists.
* **pipeline**: three events of five messages: a field, an appended element, two
  positions with a missing field, an event without effect, a malformed one.
* **openf1_load**: three loads into one store, so that one may leave a torn line,
  one be glued to it, and one be loaded in full behind both. Each may fail at every
  request and every append (before, within, within a character, or after the write),
  each with a search before it or not and with a store or not. A response takes 0,
  0.2 or 1 s: none, less than the delay, more than the window. The cap of two is
  smaller than the three messages. The sessions: a usual one, one that does not
  exist, one without a date and drivers; all orders of four laps of two drivers with
  the first one undated, two orders with none or another one undated, all orders of
  three laps with two of a null driver among them, ahead of one without a driver; all
  orders of places of two drivers at two moments, with ties and gaps, and with null
  and absent drivers. The sessions that are about an order of records have few
  others, which the sort would only put between them.

Deadlock is checked in every run but that of the OpenF1 loader, which has nothing
to do once the bound on the loads is reached (`CHECK_DEADLOCK FALSE`).

### Fairness

The client and the live system have liveness properties. `FairSpec` assumes weak
fairness of each thread's own step and of the join's return: a started thread runs,
every one of its waits has a timeout (negotiation, connect, receive, backoff), and
`join(timeout=5)` returns. The server and the application owe nothing: a connection
may fail for ever, and `connect()`/`disconnect()` need never be called.
`FairSystemSpec` assumes the same of a thread that is in the handler, whose steps
wait for nothing.

## 4. The proofs

| Theorem | Says | For every |
|---|---|---|
| `LiveTimingClient_proofs!TypeCorrect` | types | set of threads and of frames, any callback |
| `... !OneLoop` | at most one loop until a join gives up | " |
| `... !Quiet` | no message after `disconnect()` until then | " |
| `... !FramesInFull` | a frame is handed over in full, also with several loops | " |
| `... !LoopEnds` | a loop ends by the stop event or an overflow of the backoff | " |
| `... !OnlyStopEnds` | by the stop event only | " , settings that do not overflow |
| `EventStore_proofs!TypeCorrect` | types | number of events, all faults and crashes |
| `... !NeverRewritten` | the file only grows | " |
| `... !YieldedInOrder` | events in order, none twice | " |
| `... !WholeLinesYielded` | damage is local, for iterations that return | " |
| `... !ImplementsAuditLog` | until the first fault the store implements `AuditLog` | " |
| `LiveSystem_proofs!SystemTypeCorrect` | types | set of threads, frames, number of events |
| `... !InOrder` | no event twice or out of order in the state | " |
| `... !FollowsStore` | the state is that of the store until a join gives up | " |
| `... !SettledDurable` | after `disconnect()` and `close()` all is on disk | " |
| `... !StoreImplementsLog` | the store implements `AuditLog` until a join gives up | " |
| `LivePipeline_proofs!PipelineTypeCorrect` | types | messages, faults, crashes, restarts |
| `... !ShowsPast` | a replay goes through states of the live session | " |
| `... !Agrees` | a complete replay ends in the live state | " |
| `... !Resumes` | a restart forgets what was buffered and no more | " |
| `TimingFeed_proofs!FeedTypeCorrect` | types | drivers, lap times, cap, updates |
| `... !PlacesShownLive` | a driver whose latest place arrived is shown there | " |
| `... !RingIsNewest` | the ring holds the newest messages in order | " |
| `... !StopsOnce` | a stop that updates repeat is listed once | " |
| `OpenF1Loader_proofs!LoadTypeCorrect` | types, and the events by timestamp | records, latencies, loads |
| `... !LimitKept` | three requests a second from the second one on | " , three delays at least a second |
| `... !LoadIsRetained` | a session loaded in full is replayed, but for its places, whatever complete or torn lines the store held | " , no write cut within a character |
| `... !LastLapsShown` | each driver's last lap and fastest time are shown | " |
| `... !NewestPlacesShown` | the newest places are shown | " |
| `ReducerLaws_proofs!Commutation` | events of different topics commute | events, cap and reachable state |
| `... !Redelivery` | a repeated event is harmless, but for messages and stops | " |

Assumptions are those the modules state on their constants: the application is no
thread, frames are sequences of entries, the callback does one of three things (in
`LiveSystem` it returns, as the documented handler does), the numbers are natural.
`FeedAssumption` and `MarkerAssumption` (TimingFeed) say that the drivers are
finitely many and that the markers `None`, `Missing` and `Malformed` are no
numbers, drivers, entries or events, as Python tells them apart.
`SessionsAssumption` (OpenF1Loader) gives the types of the service's records;
`DelayAssumption`, three delays are at least a second, holds of the default
`request_delay_s` of 0.4 s; `AbsentAssumption` that an absent driver number is no
driver. A caller who passes less than a third of a second has
no such promise, and `Paced` then fails.

* **One loop.** `AtMostOneLoop` is not inductive: a `connect()` could start a
  second loop if the first were not the one referred to. `SoleLoop` adds that: while
  no join gave up, a live thread is the one `self._thread` refers to, no callback
  waits in a join (it would wait for its own thread, which raises), and the
  application waits for nothing but the current thread. Then the guard of
  `connect()` excludes a second loop, and a dropped reference means no loop at all,
  which gives `Quiet`.
* **End of a loop.** `LoopEnds` leaves two causes, the stop event and the power in
  `_compute_backoff`, which overflows with the default multiplier of 2.0 after
  1024 attempts. `OnlyStopEnds` assumes `~Overflows`, true of a multiplier of 1;
  run client_backoff_overflow shows that the assumption is needed.
* **Frames.** `FrameProgress` says of each thread what has been handed over at
  every entry: the feed entries before the next one, none of them behind a malformed
  one. `ReadableUpTo` turns that into the readable part of the frame at its end.
* **Store.** `StoreOrder` says that the event numbers in the file increase and that
  those in the buffer increase after them and up to the last one appended, and that
  only an open handle buffers. The lemma `OrderKept` shows it for any step that
  writes some of the lines and keeps or loses others, so that each action only has
  to say which lines it writes. `ReaderInv` adds that what the reader yielded comes
  from writes ahead of its cursor; with the order of the file the next one is newer.
  `DamageSoFar`, its last part, says of the lines ahead of the cursor what
  `DamageIsLocal` says of the file: an iteration returns with the cursor behind the
  last line, so that all of the file is ahead of it.
* **Store and log.** `Intact` says of the time before the first fault that the file
  consists of whole writes and that the reader has yielded the event of each write
  ahead of its cursor. The abstract log is the file with the buffer behind it, so a
  flush only moves the border in it (`LogMoved`); an append adds one entry, and a
  crash cuts it behind what was flushed.
* **Live system.** The client's invariants carry over, because every step is one of
  the client or leaves it alone (`ClientStep`). Until a join gives up `SoleLoop` lets
  one thread live, so one is in the handler (`OneInCallback`), and what it has read
  is the state still: `Following` ties the state, the log and what the handler holds
  at each of its steps, and says when the log is all on disk, which makes a direct
  append one at the end of the log although the application may have opened a
  handle since. `InOrder` needs no such thing: an event's number is above all
  numbers given out before it, in whatever state it is appended to.
* **Reducer.** `ReduceByField` (in `TimingReducer_proofs`, with the other lemmas
  about `Reduce` that several modules need) writes `Reduce` as a function of each
  field alone; events of different topics have effects on different fields, which
  makes them commute, and all effects but the two that append are idempotent.
* **Pipeline.** A replay and the live session both fold `Reduce` over events, and a
  fold over data admits no induction here. `Path` says instead, state by state, that
  each is the `Reduce` of the one before and that event; both grow by one state per
  step, which is an ordinary invariant (`Paths`). `SamePath` then makes the states
  equal where the events are. Which events those are is the store's matter: its
  invariants carry over (`StoreInvAlways`), `ReadWhole` says that a reader of whole
  writes has yielded every one ahead of its cursor, and `FollowsLog` that until a
  fault the session's events are the log.
* **Feed.** One lemma per topic says what `normalize` makes of an update that arrives
  and what that does to each field. An update that is discarded for one bad line
  leaves its drivers in `unseen`; the others write their places. `CappedKeepsNewest`
  is the ring at its limit; that the newest stop alone is taken of an update makes
  `pit_history` follow `counted`.
* **OpenF1, the data.** Sorting is characterized without recursion: `Ranking` shows
  for any finite set of indices that `Ranked` lists them all, by key (the ranks are
  pairwise different and below the cardinality, so each is taken). From it follow
  `Sorting`, `Filtering` and `Largest`, from those what `LapsByDriver` and
  `final_positions` return (`LapsSorted`, `FinalPlaces`), and that `BuildEvents` has
  every lap, in the order of the timestamps, and no place (`EventsBuilt`).
* **OpenF1, the load.** `Spaced`: a request that is still counted is followed by one
  that is counted too, younger by a delay where `fetch` sleeps. Then a request three
  sleeps back is older than a second. `QueueIsRest`: what is left to reduce is an
  end of the built events. `LastLapShown`: of what is reduced, the last event with a
  lap of a driver is what the state shows; at the end that event is of the lap with
  the greatest number, because no dated lap is behind it and an undated one is ahead
  of all dated ones. `Retained`: each field is the same in the state and in a replay
  of the store, or an event that sets it is still to come; it needs `StoredBefore`,
  that all an earlier load has stored is brought again, and holds although the lists
  only end alike, since the cap drops from their other end.
  `NoPlacesStored`: no event built from the records has a place.

`LapsShown` assumes of a driver's laps that they are numbered, each differently: the
attempt to prove it without showed that with two laps of the same number the code's
order, and so the lap that is shown, depends on the response.

Only model-checked: liveness (`FairSpec`, `FairSystemSpec`), for which the prover has
no rules that reach fairness.

## 5. Not modelled

* The contents of HTTP requests, cookies and compression (a payload that does not
  decompress is a skipped entry), the filters of a search, texts and logging.
* Time, except between the requests of a load; elsewhere a wait with a timeout is
  one that may end. The limit of 30 requests a minute: a load has six.
* In the client: `_build_ws_url` (client.py:152), which is called outside any `try`
  and only formats a text; a callback that raises a `BaseException` other than
  `Exception`, which would end the loop's thread.
* In the store: a reader that sees a line in two parts. CPython hands whole lines to
  the operating system, so a reader could see one only while a single write is under
  way, or after a write that was cut, which is modelled. In `LiveSystem` closing the
  file is one step; in Python it flushes and then closes, and is not safe against
  another thread that writes at that moment.
* The argument checks of `load_state`; the injected reducer and state of
  `ReplayRunner` and its stub `speed`.
* `connect()` line by line: a callback left behind by a join that gave up could run
  between its lines. Two threads that open or close the store at once: only the
  application does.
* models/ (dataclasses without operations that no code uses) and the printing of
  scripts/. The third stage of smoke_test.py imports a package that does not exist
  (`race_engineer_core.timing`).

## 6. Plan

Done: all modules of section 2 with their runs; proofs of the safety properties of
all of them.

Next, in this order:

1. The refinement of `LiveSystem`'s handler by `LivePipeline`'s `Ingest`: that an
   interleaved handler is an atomic one until a join gives up.
2. `connect()` line by line, for the interleavings with a left-behind callback.
