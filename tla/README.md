# go-deepseek: a verification project

go-deepseek embeds a coding-agent harness, written in TypeScript, in a Go
program: the harness is bundled to ES modules, and a JavaScript engine written
in Go runs them inside the process. `sdk/` is the public API;
`internal/runtime` owns the engine; `internal/nodecompat` gives the JavaScript
the Node APIs it expects; `internal/bundle` holds the generated modules.

This directory holds TLA+ models of the concurrent core of that program and of the
host side of three Node modules it relies on, TLC configurations that check them on
small instances, and TLAPS proofs of their safety for every instance. Paths and line
numbers below are those of the repository (`harness.go` is
`internal/runtime/harness.go`, and so on).

Contents: 1 Inventory; 2 How the parts interact; 3 The modules and the code;
4 The runs; 5 Fairness; 6 The proofs; 7 Where code and documentation disagree;
8 What is not modelled; 9 The plan.

## 1. Inventory

| Part | State | Operations | What is hard | What makes it correct |
|---|---|---|---|---|
| Harness owner, `runtime/harness.go` | `started`, `closed` under `mu`; the channels `requests`, `stopped`, `startErr`, `events`; the goroutine `own()` with engine, bridge and base context | `Start`, `Run`, `Tools`, `Close`, `emit` | every method may be called from any goroutine, and overtakes the others after each unlock; boot fails at four places; callers leave while their job runs | one job at a time, at most once; an accepted call is answered; everything is released when `stopped` closes; no channel is closed twice; everybody returns |
| Turns, `runtime/js/boot.js` `run()`, `harness.turn`, the agent loop of the bundle | the map of agents; per agent its phase and inbox; per run its subscriptions | `run`, `agentFor`, `openAgent`, `waitForIdle`, `turnOutcome` | JavaScript only advances inside a job; an abandoned turn goes on under later jobs, of any session; every append to the log may fail; the agent decides to leave before it is idle | a run reports nothing better than what became of its own prompt; nobody waits for an idle that has passed; a prompt is served once |
| In-process carrier, `sdk/inprocess.go`, `sdk/sdk.go` | one sink; the bounded event channel; one mutex per session; `closed` | `Session.Run`, `Harness.Close`, `Prompt`, `fanOut`, `Close` | events and the answer of a turn reach the caller by two roads; one sink for all sessions; events dropped when the channel is full, and sent again by the forwarders of abandoned runs; callbacks that may not return | events in wire order, each to one sink; none after `Close`; a session's events reach its run |
| JSON-RPC carrier, `sdk/jsonrpc.go` | `pending`, `listeners` under `mu`; a response channel per call; a queue and a signal per prompt; the process | `call`, `Prompt`, `readLoop`, `dispatch`, `Close`, `notificationQueue` | one reader serves everybody; response, receipt and idle in any order; the executable exits, or ignores the end of its input | the interval is exact; no lost wakeup; only a repeated response makes the reader wait for somebody who left; exit and close end every call |
| Go plugin bridge, `runtime/bridge.go`, `plugin.go`, `js/bridge.js` | `waiters`, `callbacks`, `disposers` under `mu`; `done`; cordis's list of effects | `perform`, `__dshGoSettle`, `fail`, `Effect`, `OnDispose`, `__dshGoApply`, `__dshGoDispose`, `dispose`, `close` | three kinds of goroutines; unmount and the closing harness dispose of the same component | one answer per call, never blocking the owner; disposers once, in reverse, after the effects; nothing forgotten; close wakes everybody |
| Fetch, `nodecompat/fetch.go`, `js/prelude.js` | tables of bodies and of cancel functions; a request's signal, stream and listener | `fetch`, `httpFetch`, `httpRead`, `httpCancel`, `httpAbort` | abort before registration or during an await, close while a response is on its way, cancel between two reads, a server that owes nothing | each open body within somebody's reach; a cut body is no clean end; what was given up ends; an abort is not forgotten |
| File watching, `nodecompat/watch.go`, `js/node/fs.js`, `fs_promises.js` | a bounded buffer and a pump per watcher; one shared timer, and the holds on it | `watchOpen`, `watchPoll`, `watchClose`, `FSWatcher`, the iterator `watch()` | overflow, a failing backend, close between two polls, an unref'd timer that somebody waits for, on a loop that is turned only during jobs | no event missing without an error; everything released; a waiting iterator is served, and nothing else keeps the program alive |
| Streams, `js/node/stream.js`; compression, `compress.go`, `js/node/zlib.js` | buffers and flags per stream; encoder handles | `Readable.from`, `Transform`, `pipeline`, `createZstdCompress` | reads that overlap, errors of any stage at any time, teardown by several parties | a resolved pipeline wrote everything; encoders released; it always ends |
| Compatibility host, `nodecompat/host.go` | the handle tables, background promises | `Install`, `async`, `Close` | close against background work | each handle released once |
| Composition, `sdk/composition.go`, `runtime/composition.go` | lists of entries | `With`, `Add`, `Disable`, `Settings`, `validate`, the system-prompt spine | – | pure functions |
| Plugin descriptions, `sdk/plugin.go` | none | `validatePlugins`, `validateTool`, `pluginModule` | – | rejects what mounting could not serve |
| Filesystem, crypto | descriptors | one call per binding | – | handles valid until closed |
| Workers, readline, small Node modules | ports, `EventEmitter`, `AsyncLocalStorage` | as in Node | – (workers run inline, on the one loop) | as in Node |
| Engine assembly, `runtime/engine.go` | none of its own | `newEngine`, `release`, `close` | – | two outcomes, both in HarnessOwner |
| Bundled harness, vendored streams, Windows calls, examples, tools | – | – | – | generated or third-party code, or programs around the SDK |

`PROJECT.json` lists the same parts with their files and status, and under
`hazards` the lines where the hard behaviours bite, each with the properties
that would notice.

## 2. How the parts interact

```
 Session.Run (any goroutine)                    plugin goroutines
   | session mutex                               |  perform      ^ answer channel
   v                                             v               |
 inProcess.Prompt --submit--> h.requests --> own(), one goroutine: engine + JavaScript
   ^ sink                                        |   boot.js run() -> agent loop
   |                                             |   bridge.js    -> cordis effects
 fanOut <---------- h.events (256, lossy) <------+ __dshEmit
                                                 |
                                                 +--> unmount goroutines: Go disposers

 jsonrpc.Prompt --stdin--> executable --stdout--> readLoop --> response channels, queues
```

```
 JavaScript, on own():  fetch()          fs.watch(), watch()      pipeline(source, zstd, consumer)
                          |  ^              |  ^ watchPoll            |
        ----------------- | promise ------- | - by a timer ---------- | ----------- nodecompat
 goroutines:     doFetch, httpRead       one pump per watcher      (none: encoders are called directly)
 tables:         bodies, cancels         watchers                  encoders
                          `-------------- swept by Compat.Close, on own() ---------'
```

`own()` is the only goroutine that touches JavaScript; everybody else sends it
work and waits on channels. Locks are only ever held for short, non-blocking
sections, except the session mutex, which `Session.Run` holds for a whole run.
So a step of the models is one critical section or one channel operation: that
is where goroutines can overtake each other in the code, and nowhere else
matters.

## 3. The modules and the code

`PROJECT.json` maps every definition to the lines it stands for. Definitions
that are never used by `Next`, marked `\* mutant:`, are plausible slips of the
definition next to them; each property is shown to notice one.

**SerialJobs** is what the harness promises its callers, without channels or
goroutines: jobs one at a time and at most once; results only after the job
produced them; "refused" only if the job does not run; a caller may walk away.
HarnessOwner implements it with its queue, and Turns with what a job is: the part of
`run()` for which `turn()` pumps the event loop.

**Carrier** is what `sdk.Carrier` promises `Session.Run`, whichever way the harness
is reached: a `Prompt` delivers its message, its sink sees what the harness sends in
the order it was sent, and it succeeds only after the message was received and the
agent went idle; it may fail at any time, and after `Close` the harness does nothing
any more. Its one concession to the code is that a reader that has decided on a sink
may make that one call after the prompt returned. InProcess and JsonRpc implement
it. What the two carriers do not share is not in it: JSON-RPC alone gives a prompt
the whole interval up to the idle (`IntervalExact`), the other drops events and may
return before the last ones (section 7, entry 4).

**HarnessOwner** (`harness.go`). Every channel and flag of `Harness` is a
variable of the same name; `owner` is where `own()` is (`boot`'s stages,
`serve`, a job, the six deferred calls), `call`/`start`/`close` where each
caller is. `StartBegin`, `StartReturn`; `CheckFlags`, `ParkInSend`,
`SendOnClosed`, `GiveUp`, `GiveUpOnceClosed`, `TakeReply` (submit with its two
selects); `CloseBegin`, `CloseUnstarted`, `CloseRequests`, `CloseReturn`;
`NewEngine`, `Install`, `Bootstrap`, `Receive`, `FinishJob`, `RangeEnds`,
`Unwind` (own). A send on a closed channel or a second close sets `panic` and
nothing follows. A select with several ready cases takes any of them. What a
turn does in JavaScript is reduced to running, waiting for a Go tool
(`StartTool`, `ToolReturns`), emitting and ending.

**Turns** (`harness.turn`, `boot.js` `run()`, the agent loop). `call` is the Go
caller, `job` the run the owner is pumping for, `js` where its `run()` is:
`Begin` (the call into JavaScript, with the look in the map of agents), `Stat` and
`Open` (`openAgent`, across its awaits), `Deliver` (subscribe, then
`followup`; its append may fail, `DeliverFails`), then waiting for the idle. `phase`,
`inbox` and `serving` are the agent. `StartTurn` appends `turn/start` and claims the
next message; either append may throw, which leaves the loop without a `turn/end`
(`StartFails`) or with one of kind "error" and the message still pending
(`ClaimFails`). `EndTurn` ends the turn and decides, on what is pending there and
then, whether the next one follows or the driver is "leaving"; `EndFails` is the same
with the append of `turn/end` throwing. `GoIdle` is `kick`'s `setPhase`, some
microtasks after that decision: a message delivered in between wakes nobody and is
not looked at. It settles every `run()` waiting on that agent with the outcome of
the last turn it recorded, and with "completed" when it recorded none (`Outcome`,
which is `turnOutcome`). `record` and `ended` are what a run's interval recorded.
All of JavaScript moves only while there is a job (`Pumped`); an abandoned run's `js`
stays behind and moves under the next job.

**InProcess** (`inprocess.go`, `sdk.go`) extends Turns: `at` is where each
`Session.Run` is (`Enter` reads the closed flag, `Acquire` the session mutex,
`Hook`, `HarnessRun`, `RunReturns`, `Unhook`, `ReadResult`), `events` the
bounded channel (`Emit` drops what does not fit), `FanReceive`, `FanLook`,
`FanCall`, `SinkReturns` (the caller's function, which may never return) and `FanExit`
the steps of `fanOut` and its end, `CloseHarness`, `CloseRequests`, `OwnerStops`,
`CloseReturns` the way to the end. An event is numbered when the session emits it,
and sent once for every `run()` that is subscribed, an abandoned one too: `Copies`
have one number and count up in `copy`. Closing `requests` with a call parked on it
ends the process ("crashed", after which nothing moves), as `owner_panic` shows in
detail; of the rest of the layer below InProcess assumes what HarnessOwner shows. That
its turns are those of Turns is the theorem `Refines`.

**JsonRpc** (`jsonrpc.go`). Callers (`Register`, `Write`, `Respond`,
`StopWaiting`; for a prompt also `Listen`, `Take`, `NextItem`, `NoItem`, `Wake`,
`Drain`), the reader (`ReadLine`, `SendReply`, `Push`, `Signal`, `ReadEnds`),
`Close` (`CloseBegin`, `CloseStdin`, `Kill`, `CloseReturn`) and the executable,
external: it may answer any request it read (those of `Repeated` again, up to
`MaxAnswers` times), report the receipt of a message it was sent, report idle,
chatter about other work, stop reading its stdin (a write is certain to return only
once the pipe is `Broken`), and exit at any moment. The handshake of `Start` is one
more caller, `Opener`.

**Bridge** (`bridge.go`, `plugin.go`, `bridge.js`). `fiber` is a component's
life (mount, Apply in its own goroutine, loaded or failed, unload, effects
reverted, Go teardown, disposers in a goroutine, handle released), `tracked`
cordis's list of its effects, `callbacks` what JavaScript can still call back,
`disposers` the functions of `OnDispose`, `left` and `now` what an unmount or the
closing owner took and is running. `at` is where each `perform` is and `js` where
its operation is: `Enter`, `Post`, `RunOperation`, `Answer`, `Fail`, `Return`.
`EngineCloses`, `BridgeCloses`, `Backstop`, `CloseDone` are the end.

**Fetch** (`fetch.go`, `fetch()` of `prelude.js`). `js` is where `fetch()` is
(`Call` and `Send` around the await of the request's body, `Settle`), `stream` the
`ReadableStream` it makes, `listener` what its signal would cancel (`Abort`,
`CancelStream`), `op` the goroutine that makes the request (`Register`, `Responds`,
`NoHead`, `AddBody`), `rd` the one a `Pull` starts (`Look`, `ReadChunk`, `ReadEnd`,
`ReadError`) and `Answer` its promise. `cancels` and `bodies` are the two tables;
`open` is what they should cover. `CloseFetch` is the requests' part of
`Compat.Close`, after which only goroutines move.

**Watch** (`watch.go`, `fs.js`, `fs_promises.js`). `table`, `notify`, `pumping`,
`pending` and `err` are a watcher's Go side; `live`, `timer` and `holds` the
shared poll; `fate` the `FSWatcher`; `gen` and `queue` the generator over
it. `Open`, `OpenFired` (a signal that fired before), `Close`, `Fire`; `Emit` and
`Break` (an event, with the buffer's overflow, or a failing backend);
`Collect`, one poll of all of them; `Take`, `Again`, `Finish`, `LeaveLoop`, the
iterator's loop and its `finally`; `CloseWatchers`. The script's steps, `Collect`
among them, need a loop that is being turned: `StartTurning` and `StopTurning` are
the boot and the jobs of `own()`, which come and go as they like. That a watch ended
without an error, which `drain` can report too (`watch.go:195`, `:208`), is left out:
only `close` ends the backend so, and whoever calls it has taken the watcher out
of the table that `watchPoll` goes through.

**Pipeline** (`stream.js`, `zlib.js`, `compress.go`), for the one pipeline the
harness builds: `Readable.from`, the compressing transform, an async
consumer. `Row`, `Done`, `SourceFails`, `FailsUnheard` are answers of the source's
iterator, of which several may be under way; `Feed`, `FeedFails`, `Ask`,
`EndFrame`, `EndFails`, `Idle` its ticks; `Consume`, `Written`,
`WriteFails` the consumer; `Settles`, `TearDown` the pipeline. Data is counted
in rows and is not ordered within a buffer, as every buffer is first in, first out.

**NodeCompat** composes the three as `host.go` does: one `Compat`, three
groups of tables that share nothing but its end. So a behaviour looks at one of
them, and the run's size is the sum of theirs and not the product.

## 4. The runs

Run a configuration with `tlc -config X.cfg M` in this directory.

| Run | Instance | States | What it shows |
|---|---|---|---|
| `owner` | 2 calls, 1 Start, 1 Close, plugins configured | 117,527 | Whatever overtakes what and wherever boot fails: `StoppedMeansReleased`, `ChannelsClosedOnce`, `NobodyWaitsInVain`; the channels implement SerialJobs (`ImplementsSerialJobs`); `CancelledJobEnds`; `CallersReturn`, a Start if boot ends, a call that was received if turns end and Go tools return as well, one that still waits its turn and a Close if disposers return too |
| `owner_panic`, `owner_closing` | the same | violated | section 7, entries 1 and 2 |
| `turns` | 3 runs, 2 of which may be cancelled, 2 sessions; only one session's provider is certain to answer and only its log takes every append | 149,625 | `OutcomeIsOwn`, `WaiterHasWork`, `ServedOnce`, `ImplementsSerialJobs`; `RunsReturn` unless a run of the other session holds the owner for good; `CancelledRunsReturn` without any condition |
| `turns_overlap` | 2 runs, 1 session | violated | section 7, entry 3 |
| `inprocess` | 2 runs of one session, one of which may be cancelled, appends that may fail, channel of 2, 1 chunk | 1,157,970 | `InWireOrder`, `SilentAfterClose`, `ReachesItsRun`, `ImplementsCarrier`; `CallersReturn`, a run if turns end and Close if callbacks return too; `CancelledRunReturns` without either; both unless Close ends the process |
| `inprocess_tail` | 1 run, channel of 2 | violated | section 7, entry 4 |
| `jsonrpc` | the handshake and 1 prompt, whose request may be answered twice, 2 notifications of other work | 1,161,464 | `IntervalExact`, `EndIsAhead`, `NoLostWakeup`, `StuckByARepeat`, `ImplementsCarrier`; `PromptsReturn` and `ExitEndsCalls` unless a repeated response has stopped the reader; `CloseReturns` without any condition |
| `bridge` | 2 mounts, 1 effect, 1 worker's call, 2 disposers | 832,530 | `CallsAreAnswered`, `RevertedBeforeDisposers`, `NothingForgotten`, `DisposedOnce`, `CloseWakes` |
| `nodecompat` | 1 request with a body of 2 chunks; 2 watchers, one iterated over, buffers of 1, 3 events each; a log of 3 rows, 3 reads at once | 90,738 | `NoBodyIsLost`, `EndIsWhole`, `GivenUpEnds`; `GapIsTold`, `OnlyFailedLinger`, `IteratorServed`; `OkIsWhole`, `EncoderFreed`, `PipelineEnds` |
| `fetch_abort` | 1 request | violated | section 7, entry 5 |
| `watch_hold` | 2 watchers, one iterated over | violated | section 7, entry 6 |

Type invariants are proved (section 6) and not checked again by the runs. The same
goes for `DrainedBeforeStop` and `RunningJobHasOwner`, which are corners of
`NobodyWaitsInVain` and of the refinement, and for `ErrorComesLast`, `PollHeld`
and `SleeperIsWoken`, whose consequences the runs do check.

Why the bounds are enough. The safety properties of every run are proved for any
values of the constants, so the bounds matter for liveness, for the mutants, and
to show that the interesting cases do happen.

- *owner*: the state of `Harness` is shared by pairs: a call against a Close, a
  Start against a Close, a call behind another's job. One Start and one Close have
  every pair of different methods; what a second of each may do is left to the
  proofs.
- *turns*: a run, the abandoned run before it, and one of another session are the
  three roles the code can tell apart.
- *inprocess*: two forwarders, an abandoned run's and the next one's, send two copies
  of a chunk and two of the end of a turn: a channel of 2 holds both copies of one
  event, and overflows with the next. The tail run gives its one event room, to show
  that the loss there is not the channel's. Two sessions overlapping on one sink lose
  events by design (section 7), so the two runs share one.
- *jsonrpc*: one prompt meets everything a listener can meet, since what other prompts
  cause is, to it, chatter of its own session or another; two notifications
  can come before its receipt and inside its interval, or both in its interval, and
  its own receipt and idle are two more. Two answers are a response and its repeat,
  which is what stops the reader: `PromptsReturn` and `ExitEndsCalls` except a stopped
  reader, and `StuckByARepeat` shows that there is none without a repeat to a call
  whose context has ended. A body that cannot be read ("bad") ends a prompt as an
  error does, and the handshake as a good one does, so the run leaves it to the proofs.
- *bridge*: two disposers of one or of two components, an unmount and the
  closing owner as runners, and one effect and one call of a worker in the same
  component have each pair that meets in the code.
- *nodecompat*: requests share nothing but the tables' mutex, so one stands for
  all; its second chunk may be read, in flight, or cut off. Watchers meet in the timer: an
  iterator and an emitter are its two kinds of user. Three rows are one written,
  one in the encoder, one still to be read; three reads are what it takes for
  an answer to overtake the failure of another.

Deadlock checking is on wherever the specification says how it ends (`Over`), which
includes the end of a process that panicked, and in `jsonrpc` a reader blocked for
good. It is off in `bridge`, `nodecompat`, `fetch_abort` and `watch_hold`: there the
program may come to rest in many ways
(Close never called, a worker never started, a file never written), and that nobody
is left waiting is what their liveness properties say.

## 5. Fairness

- Every goroutine that can run is run in the end, so each gets weak fairness: one
  condition per goroutine and not per action, for where a select has several ready
  cases Go promises nothing about any single one.
- In InProcess and JsonRpc the goroutines share one condition (`Go` and the event loop's
  `Loop`; `Own`). In every instance a run, an event, a line and a Close take so many
  steps and no more, so no goroutine can be busy for ever while another waits: fairness
  to all together is fairness to each. It is also what a waiter for a session's mutex
  gets, which Go's mutex promises in any case: after a millisecond it is handed to its
  longest waiter.
- What depends on somebody else's code is never fair, but a stated condition of the
  liveness property that needs it. In HarnessOwner's `CallersReturn`: that boot ends
  (`BootEnds`; it awaits the plugins' `Apply`, `harness.go:507-510`, `bridge.go:156`),
  that a turn does (`TurnsEnd`; it awaits its provider, `harness.go:584`), that Go
  tools return (`ToolsReturn`) and that disposers do (`DisposersReturn`). Of `own()`
  only `NewEngine`, `Install`, `RangeEnds`, the other deferred calls, taking the
  next job, and the end of a job whose context has ended are fair: the last is
  `AwaitContext`, and all that `CancelledJobEnds` needs.
- In InProcess, `TurnsEnd` and `SinkReturned` are the conditions of `CallersReturn`:
  that turns end while a job pumps the loop, and that the caller's function returns.
  Neither is a condition of `CancelledRunReturns`. Both properties stop at a process
  that Close has made panic (`Crashed`).
- In Turns, `Answers` are the sessions whose provider ends every turn; only the end of
  their turns (`Ends`) is fair. `Steady`, the sessions whose log takes every append, is
  a premise of properties and no fairness. `NobodyHolds` is the stated condition that no
  run of another session occupies the owner for ever.
- In Bridge, `DisposerReturns` is fair: plugins' disposers return. That is a real
  demand, see the backstop entry of section 7. Nothing is assumed of Apply or of
  what JavaScript's promises do.
- In JsonRpc nothing is assumed of the executable: it may never answer, never read
  (a write returns for certain only once the pipe is broken) or never exit. Close
  kills it.
- In Fetch only a goroutine whose context is cancelled, or that does not wait for
  the server, is fair: the server owes nothing.
- In Watch nothing runs between jobs, and no job need ever come or end. While the
  loop is turned, a ref'd timer fires, since it keeps the loop alive; an unref'd one
  is promised nothing. So `IteratorServed` speaks of a turn: the iterator is served
  or the turn ends first. An iterator takes what it was given; whoever iterates
  may stop for good between two events, and files need not change.
- In Pipeline microtasks run, the source's iterator answers and the consumer's
  writes return, well or badly. That presumes a job that pumps the loop until the
  pipeline is over: `PipelineEnds` says nothing of one whose run was abandoned, until
  the next job comes.
- Ending contexts, firing signals, starting calls and calling Close are never fair.

## 6. The proofs

`tlapm` checks eight modules from nothing, with no assumption other than those on
the constants: the sentinels `None`, `Close`, `Teardown` and `Opener` are not
members of the sets they mark, calls belong to sessions or mounts, bounds and sizes
are natural numbers, and in InProcess that the runs are finitely many. The sets of
calls, runs, sessions, mounts, disposers, prompts, requests and watchers are
otherwise arbitrary.

| Module | Theorem | For every instance |
|---|---|---|
| HarnessOwnerProofs | `TypeCorrect`, `ReleasedWhenStopped`, `Drained`, `ClosedOnce`, `JobHasOwner`, `NobodyIsForgotten` | types, the three invariants of `owner`, `DrainedBeforeStop`, `RunningJobHasOwner` |
| | `Refinement` | `Spec => ImplementsSerialJobs` |
| TurnsProofs | `TypeCorrect`, `OwnOutcome`, `NeverWaitsOnIdle`, `NeverServedTwice` | types, and the three invariants of `turns` |
| | `TurnsAreSerialJobs` | `Spec => ImplementsSerialJobs` |
| InProcessProofs | `Refines` | `InProcessSpec => Spec`, the specification of Turns |
| | `InProcessTypeCorrect`, `WireOrder`, `Silent` | types, `InWireOrder`, `SilentAfterClose` |
| | `EventsReachTheirRun` | `ReachesItsRun`, in a harness with one session |
| | `InProcessIsACarrier` | `InProcessSpec => ImplementsCarrier` |
| JsonRpcProofs | `TypeCorrect`, `Intervals`, `Wakeups`, `EndComes` | types, `IntervalExact`, `NoLostWakeup`, `EndIsAhead` |
| | `OnlyARepeatBlocks` | `StuckByARepeat`, for any number of answers per request |
| | `JsonRpcIsACarrier` | `Spec => ImplementsCarrier` |
| BridgeProofs | `TypeCorrect`, `NeverBlocksOwner`, `NoAnswerIsLost`, `EffectsFirst`, `Backstopped` | types, `WaiterUnanswered`, and the three invariants of `bridge` |
| | `NeverDisposedTwice` | the action property `DisposedOnce` |
| FetchProofs | `FetchTypeCorrect` | types of the requests' own specification |
| WatchProofs | `WatchTypeCorrect` | types of the watchers' |
| NodeCompatProofs | `PipeTypeCorrect` | types and sizes of the pipeline's |
| | `BodiesKept`, `WholeBodies` | of the composition: `NoBodyIsLost`, `EndIsWhole` |
| | `GapsAreTold`, `ErrorsComeLast`, `PollStaysHeld`, `OnlyTheFailedLinger` | `GapIsTold`, `ErrorComesLast`, `PollHeld`, `OnlyFailedLinger` |
| | `WholeOrError`, `SleepersAreWoken`, `EncodersFreed` | `OkIsWhole`, `SleeperIsWoken`, `EncoderFreed` |

So every invariant, every action property and every refinement that a passing run
checks is proved, for the specification that run checks. None of the invariants is
inductive. Each module has a theorem (`Inductive`, or `CarrierInductive`,
`FetchInductive`, `WatchInductive`, `PipelineInductive`, `CompatInductive`) that
proves a strengthening, in one lemma per action or group of actions. What a later
property needs on top of that is an invariant of its own, proved on the first
one's shoulders.

*HarnessOwner.* `StoppedMeansReleased` depends on where `own()` is and what it holds
there: `OwnerLifetime` ties `owner` to `started`, `stopped` and the verdict,
`Holding` says which of engine, bridge, context and stream are open at each stage.
`ChannelsClosedOnce` depends on there being one closer: `OneCloser` says that only
the Close that set the flag is about to close a channel, and `Holding` that `own()`
ends the stream only if it was started. `DrainedBeforeStop` follows from `Answers`:
a call that was received is running or has its answer, and one that was not has
none. `Told` ties what a caller returned to what happened to its job, and gives the
refinement: initial states map to initial states, and each step to a step of
SerialJobs or a stutter. `NobodyWaitsInVain` needs `Awaited`: at most one Start waits,
for two would share the one verdict in `startErr`; until it has been sent, `own()` is
still booting; and a Close that waits has closed `requests`.

*Turns.* `OutcomeIsOwn` looks only at settled runs. What makes it true is what the next
idle owes a run that still waits (`Owed`): once its own turn is recorded as failed or
blocked, the driver is leaving and nothing else will be recorded; and where the log
takes every append, a driver that leaves after a completed turn has found nothing
pending. That rests on where the prompt of such a run may be: pending, being served, or
recorded (`Somewhere`). `InOnePlace` says that a prompt is in at most one of those
places and got there by `Deliver`; `AtWork` that an agent that runs has something to do,
and that a run that waits keeps it from being idle. The refinement of SerialJobs takes
the job for done when `turn()` stops pumping for it, though `run()` may go on; `Told`
says that an answer taken from `run()` was settled by a `run()` that had begun, and that
a caller who has been told something has returned.

*Bridge.* `Crossing`: a call is answered only by its own operation, and its channel
is empty while it has a waiter. `Tracking`: the Go teardown is the first effect
tracked, hence the last reverted, every effect of Apply follows it until it is
reverted, and its inverse can be called until then. `Disposal`: a disposer is in its
component's list, or with one runner, or has run, in exactly one place. `Kept`: what
close found registered is in one of them. `InHand`: a call has its waiter before its
operation is posted, so whatever answers the operation finds it.

*InProcess.* `Refines` gives the types and the invariants of Turns. What is on its
way to a sink (in the channel, or in `fanOut`'s hands) is in order, copies of one
event in the order of their forwarders, and younger than all that any sink was given
(`Wire`), whatever the full channel drops: so a call of a sink keeps every sink
ordered and all of them apart, copy by copy. That a sink is given two copies of one
event only in a session with a cancelled run is `Doubles`, and rests on `Abandoned`: a
`run()` that goes on and is not the owner's job lost its caller to a context. Of two
that wait, and so forward, one is not the job (`TwoWait`). `Locked` says that whoever is
between `Acquire` and `ReadResult` holds its session's mutex; with one session it
makes the sink that run's (`Hooked`), and without that premise the property is false
(section 7). For the refinement of Carrier, `PromptInv` ties the two halves of a run
together, where it is in the carrier and where in the turns beneath: no `run()`
before `HarnessRun` (`Unsubmitted`), a sink only of a run that set it (`SinkIsSet`), a
success only from a `run()` that completed (`ToldTruly`), and neither a job nor a queued
call once the owner has stopped (`Drained`). A step of a sink, which in
InProcess leaves Turns alone, is a step of Carrier, and so is the agent's idle,
which settles several prompts at once.

*JsonRpc.* Between what a prompt was given last and what the executable sends next
there is one unbroken run of numbers: its queue, the notice in the reader's hands,
the wire. `Numbered` is the wire's part, `Window` the queue's, and `InStep` joins
them at the last number read. `Opens` ties a prompt's interval to its receipt.
`OnlyARepeatBlocks` adds `OneAnswer`: a request answered once has its answer on the
wire, in the reader's hands or in its channel, and only in one of them; so a full
channel means a second answer. `Awaiting` adds that a call leaves a full channel behind
only when its context ends. `EndIsAhead` needs to know where a
prompt's receipt and the idles of its session are, also while none of them can end
its interval (`Placed`): before the message is received there is no receipt ahead;
then the receipt is ahead or was seen; until the agent goes idle with it, every idle
ahead comes before the receipt; afterwards one comes after it. The refinement
of Carrier reads off the third of these that a prompt that took an idle for its
end had been received, and its agent had gone idle since.

*Fetch.* An open body is in the table or with the goroutine that will look at
`closed` once more (`Owned`), and that goroutine can be told to stop until then
(`Cancellable`). For `EndIsWhole`, `Given` ties what the stream has to what was
read, and `Whole` says that while its signal has not fired a readable stream's body
is in the table, or was read to its end, or failed: so a read that finds nothing in
the table is no clean end.

*Watch.* The timer's state is a function of the holds (`Timed`), and the holds are
at least as many as the iterators in their loops (`Counted`, a cardinality); at
least, because one may leave its hold behind (section 7). `Tabled` says who is live,
and `Told` counts a watcher's events.

*Pipeline.* `Total` is everything there is between the iterator and what was
written. It never grows by more than the end of the frame (`Bounded`), and as long
as nothing failed it does not shrink (`Conserved`); `Heard` says that what failed
has failed the pipeline's verdict. `Driven`, proved on top of those: while nothing
failed and the transform goes on, the source has a tick queued or a read under way.

*NodeCompat.* `CInv` is the three invariants and `Driven` side by side. A step of one
part leaves the others' variables alone, so they keep their own (`OthersStay`);
and each part's lemmas allow for a `Compat` that was closed before the part was
used, which the composition starts in for the two parts a behaviour does not look at.

Model-checked only: liveness under fairness, in every module, since tlapm reasons
neither about fairness nor ENABLED. `NobodyWaitsInVain`, `WaiterHasWork`, `EndIsAhead`,
`CallsAreAnswered`, `NoBodyIsLost`, `PollHeld` and `SleeperIsWoken` are the safety
behind it, and are proved: whoever waits waits for something that is there or that
somebody has still to do. What TLC adds is that fair goroutines then get it done.

## 7. Where code and documentation disagree

Six disagreements have a run whose counterexample shows what the code does.

1. `owner_panic`. `harness.go:10` says "Every method here is safe to call from any
   goroutine". `Close` (`harness.go:402`) closes `h.requests` while a call may be
   parked in its send, or past the flag and about to send: the send panics.
2. `owner_closing`. `plugin.go:106` says "The context is cancelled when the harness
   closes". It is cancelled when `own()` unwinds, after the turn that waits
   for the tool (`bridge.go:96`): a tool that waits for its context and a
   Close that waits for the turn wait for each other.
3. `turns_overlap`. `README.md:133` says "Turns on one session share history and run
   one at a time". After a cancelled run the next one subscribes
   (`boot.js:345`) while the abandoned turn is going on: its interval holds that
   turn's end, and when that turn failed it ends with that turn's error.
4. `inprocess_tail`. `inprocess.go:17` says that the events Prompt collected "are
   the ones the harness recorded while it was inside". `harness.Run` may return
   (`inprocess.go:129`) before `fanOut` delivered the last of them.
5. `fetch_abort`. `fetch.go:12` says "Cancellation is real". The cancel function is
   registered by the goroutine that `httpFetch` starts (`fetch.go:69`, `:92`), so an
   abort in between finds nothing; and `fetch()` looks at the signal before it
   awaits the request's body (`prelude.js:861`) and listens only after (`:886`). An
   abort at either time is forgotten and the request goes on.
6. `watch_hold`. `fs.js:253` says "A watcher must never be the reason a run does not
   finish". `watch()` with a signal that has fired takes a hold and returns before
   the `try` that would release it (`fs_promises.js:169`): from then on any
   emitter's watch keeps the loop alive.

The models have these too; no run is spent on them.

- `boot.js:326` says "A turn that failed still emits turn/end", and that reporting a
  failure as "completed" with an empty answer "is the worst possible rendering". When
  the log refuses `turn/start` (`deepseek-ai__dsh-agent-loop.mjs:844-848`) the agent
  goes idle without a `turn/end`, which `turnOutcome` (`boot.js:338`) takes for
  "completed"; the prompt is still in the inbox (`StartFails`). A failing `turn/end`
  (`:933`, `EndFails`) and a prompt queued between the driver's decision to leave
  (`:937`) and its idle (`:797`, `GoIdle`) end the same way. Hence `OutcomeIsOwn` calls
  a success the run's own only if the run recorded the end of a turn, and the session's
  log takes every append.
- The comment of entry 4 calls the events "the ones the harness recorded". A run
  abandoned by its caller keeps its forwarder until it settles (`boot.js:349`), so each
  event of the session is sent once by it and once by the next run's, and reaches the
  next run's sink twice (`sdk.go:394-406`): the exception of `InWireOrder`.
- `errors.go:24` says that `ErrTransportClosed` reports that the runtime went away
  "while there was still work outstanding". `dispatch` sends a response on a channel of
  capacity one (`jsonrpc.go:381`): a response repeated to a call that leaves before
  reading either blocks the reader for good, and when the runtime then exits nobody
  tells the calls that are outstanding. (`errors.go:19` has an error for a response
  that nobody asked for.) Hence `Stuck` in `PromptsReturn` and `ExitEndsCalls`.
- `harness.go:423` describes an order of teardown that cancels the plugins' context
  before the engine goes; `cancelBase` is deferred before `eng.close`
  (`harness.go:426`) and so runs after it.
- Close waits for `own()` (`harness.go:403`), not for the goroutines of plugins:
  their work may outlive it, whatever `harness.go:261` suggests.
- `plugin.go:106` also says that a tool's context is cancelled "when the harness
  abandons the call". Tools get the harness's context (`bridge.go:96`).
- A cancelled turn is abandoned and not stopped (`harness.go:584`, against `README.md:710`
  and `harness.go:530`): `job` moves on, `serving` stays.
- Turns of different sessions do not run concurrently (`harness.go:450`, against
  `README.md:133`): hence `NobodyHolds`.
- The sink may be called once more after Prompt returned (`inprocess.go:108`, against
  `sdk.go:138`), which is why `SilentAfterClose` speaks of Close; and one sink
  serves all sessions (`inprocess.go:117`, against `sdk.go:150`), which is why
  `ReachesItsRun` speaks of one session.
- A run overtaken by Close while it waits for its session's mutex gets the
  runtime's own error and not `ErrClosed` (`sdk.go:388`, against `errors.go:13`).
- A turn that failed is an error with no result (`boot.js:357`, against
  `README.md:684`).
- An answer that has arrived may be passed over for the end of the transport
  (`jsonrpc.go:326`, against `jsonrpc.go:267`).
- Notifications may arrive after the JSON-RPC carrier's Close (`jsonrpc.go:460`, against
  `README.md:754`).
- A disposer or callback registered after `dispose` (`bridge.go:282`) is in a map
  nobody looks at again: hence `NothingForgotten` is about what was there when
  close began.
- A disposer that waits for a worker, as `plugin.go:363` invites, and that is run by
  close's backstop (`bridge.go:139`), waits for a `perform` that only the end of
  close wakes.
- Of a component's handles only its context's is released at unmount
  (`js/bridge.js:245`, against `plugin.go:189`).
- A request that succeeded stays in `cancels`, with its context, until somebody
  aborts it (`fetch.go:150`); an aborted body that was waiting between two reads
  reads as a clean end (`fetch.go:187`), which is why `EndIsWhole` excepts streams
  whose signal fired.
- An error drops a watcher from the table (`watch.go:179`), and nothing closes the
  fsnotify watcher behind it (`fs.js:327` has nothing left to close): hence the
  exception of `OnlyFailedLinger`.
- `write` never reports a full buffer, against `stream.js:43` and `compress.go:12`:
  `Feed` takes whatever is buffered, however slow the consumer is.
- A consumer may go on writing after its pipeline has rejected (`stream.js:313`):
  `Written` has no guard on the verdict, and `OkIsWhole` speaks of pipelines that
  resolved.
- `zstdEnc` and `zstdDec` (`compress.go:60`) are package variables made on first use
  without a lock; two engines in one process may race.
- An effect a worker installs while its component unloads is reverted at the next
  load (`deepseek-ai__cordis.mjs:1313`).

## 8. What is not modelled

Within the modelled parts: the five-second limit of `shutdown` (both outcomes are
possible, its pump is not); what interrupting the engine does to `release()`,
decided in a module that is not in this repository; the errors of `Open`, `Start`
and configuration; the marshalling of values and the handles of functions and
objects other than a component's context; the text of errors, notifications and
diagnostics; stderr; the kernel's own queue behind fsnotify; which directories a
recursive watch adds; a watcher without an `'error'` listener, whose error throws
out of the poll (`fs.js:296`) and loses the reports of those after it; streams piped
in other ways than the one pipeline; two engines in one process.

Whole parts, marked `not_modelled` in `PROJECT.json`:

- *Composition, plugin descriptions, event payloads, boot's checks*: pure functions
  on lists and values, with neither state nor concurrency; what they decide is a
  case of the models (boot fails or not, a component is refused or not).
- *Workers*: they run inline, on the loop of their creator, so they add no interleaving.
- *Filesystem, crypto, the one-shot part of compression, Windows calls*: one system
  call or conversion each.
- *Timers, processes, module resolution*: in the engine, which is not in this
  repository, or thin over it.
- *Bundled harness, vendored streams*: generated from other repositories, and far
  the largest part of the source lines. Modelled only where this repository's code
  depends on their order: the agent loop's phases in Turns, a fiber's life in
  Bridge.
- *Examples and tools*: programs around the SDK.

## 9. The plan

Done: SerialJobs, HarnessOwner, Turns, InProcess, JsonRpc, Bridge, Fetch, Watch,
Pipeline, NodeCompat, and proofs of each; SerialJobs, which HarnessOwner and Turns are
shown to implement; Carrier, which InProcess and JsonRpc are.

What remains, in order:

1. HarnessOwner and Turns in one specification: the teardown of section 7 with an
   abandoned turn.
2. `OnDispose` and `register` after `dispose`, once the code says what should become
   of them.
3. Composition: the order and override rules, as operators compared with a reference
   definition over small lists.
