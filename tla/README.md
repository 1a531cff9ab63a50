# Verification of the multi-language pipeline

TLA+ models of the demo in this repository: a message travels along a *route* of
HTTP workers written in six languages, every worker does its *processing steps*
(CPU blocks, or whole sub-pipelines), marks its segment visited and passes the
message on; a traffic generator produces the requests. TLC checks the models on
small instances, TLAPS proves the main invariants for all instances.

Run from this directory: `tlc -config Pipeline_healthy.cfg MCPipeline`,
`tlapm PipelineProofs.tla`. Runs and theorems are listed in `PROJECT.json`.

## 1. Inventory

Paths are relative to `src/` of the repository root.

| Component | State | Operations | Talks to | Hard behaviour | What makes it correct |
|---|---|---|---|---|---|
| **Message** (`route`, `visited`, `visit_log`, `counter`, `table_of_workers`) | the JSON itself; no server keeps any of it | fresh body, first unvisited segment, mark visited | carried by every POST, body of every 200 | six implementations update it; it passes through retries and abandoned calls | the four fields agree on where it has been; what they say has happened |
| **Python pipeline server** `workers/python_worker/_src/pipeline_server.py` (containers `gateway-python`, `worker-python`) | one daemon thread per request, counters | `run_server`, `do_POST`, `_handle_route`, `_forward_to_next` | peers from `DEMO_PEER_*`, `urlopen` with 120 s | late answers after its timer; 4xx/5xx of a peer becomes 502; handlers go on while the process ends | 200 only for a finished message; every answer has its reason; counters follow answers |
| **Incomplete Python variant** `workers/python_worker_incomplete/_src/`, **legacy gateway** `workers/python_gateway/_src/main.py`, **entry points** `python_gateway/main.py`, `entrypoint_worker.py` | as above | the same handler without spans; an older handler with its own peer map; choice of the mode | as above | three programs with one contract | the same contract |
| **Rust worker** `workers/rust/_src/main.rs` | one future per request | `pipeline`, `route_mode`, `post_nested_subpipeline` | `reqwest` without a timeout | the future is dropped when the caller disconnects | ends when its peer ends |
| **Go worker** `workers/go/main.go` | one goroutine per request, peer addresses resolved once | `handlePipeline`, `httpPostJSON` | `http.Client`, timer 120 s, 3 attempts | posts again after a reset; cancelled contexts; stale addresses | only go repeats, at most three times, only after a transient fault |
| **Java worker** `workers/java/.../Main.java` | the single dispatcher thread | `PipelineHandler.handle`, `handleHop` | `HttpClient`, timer 2 min | waits for a peer on the thread that reads requests; validates steps late | every queued request is served in the end |
| **C# worker** `workers/csharp/_src/Program.cs` | one task per request | `HandleRouteAsync` | `HttpClient`, its default timer of 100 s | faults are not caught: 500 | as Python |
| **Node worker** `workers/nodejs/index.mjs` (profile `nodejs`) | event loop | `runPipelineOnce`, `httpPostJSON`, `cpuSpin` | `node:http`, timer | timer, error and end of response race, while a step of another request holds the loop | one outcome per POST, the whole answer or none |
| **Peer maps and start order** `docker-compose.yml` | names, addresses, health | `depends_on`, healthchecks, one look-up by go, restart | all workers | order is only partly enforced; go's cached address outlives the container | nobody starts before whom it needs; a message is only worked on by the worker its segment names |
| **Traffic generator** `stub/sender/python_traffic_generator/main.py` | `RunState` (stop event, counter), one task per group, a monitor | `run_scenario`, `group_runner`, `global_monitor`, `_should_stop_global` | POSTs to the gateway | limit checked before and counted after an await; signals; sleeping tasks | no POST after a stop, bounded overshoot, every series sent, everything ends |
| **Telemetry** of the python servers `telemetry.py` (and of the other workers) | spans, counters, lines, exporters | init, inject/extract `traceparent`, record, shut down at exit | OTLP collector, pyroscope | export in the thread that ends a span; providers shut one by one under live handlers | one trace per request; an orderly stop loses only what handlers hand over after a provider is shut |
| **Slicer** `slicer/*.sh` | files | split, join | file system | none that the system meets | join after split is the identity |
| C++ exercises, stub listener, observability servers, scripts | - | - | - | none of their own, or not run | - |

A request is a stack of synchronous calls: the client waits for the gateway, the
gateway for the next worker, and so on; a `nested_route` step starts a fresh
message at another worker and is waited for in the same way. No state is shared
but the message. What breaks the stack is time and failure: a caller that gives
up leaves its callee working, go posts a second time, a container dies, a java
worker cannot read while it waits.

## 2. Modules

| Module | Models |
|---|---|
| `Payload` | the message and the operations on it |
| `Workers` | what each language admits, executes, answers and retries: the contract and its six dialects, as pure operators |
| `Pipeline` (extends `Workers`) | containers, calls, handlers, timers, disconnects, crashes, restarts |
| `MCPipeline` | containers of `docker-compose.yml`, route shapes, peer maps and request sets for TLC |
| `PipelineProofs` | theorems about `Pipeline`: types, messages, the stack of open calls |
| `HistoryProofs` (extends `PipelineProofs`, `PipelineContract`) | theorems about what the calls of `Pipeline` keep of their past, and the refinement |
| `ServedProofs` (extends `HistoryProofs`) | theorems about what valid requests are answered |
| `Generator` | the scenario mode of the traffic generator |
| `MCGenerator` | scenarios for TLC |
| `GeneratorProofs` | theorems about `Generator` |
| `WorkerContract` | abstract specification: what a worker promises to do with one request |
| `PipelineContract` (instantiates `WorkerContract`) | the refinement mapping from the calls of `Pipeline` |
| `PyMessage` | the body of a POST as the python programs look at it, malformed ones included |
| `PyTelemetry` | providers, instruments, lines and exports of the python programs |
| `PythonServer` (extends both, instantiates `WorkerContract`) | one python process from its environment to its exit, with threads, spans, counters and signals |
| `MCPythonServer` | environments, bodies and peers for TLC |
| `PythonServerProofs` | theorems about `PythonServer`, and that it implements `WorkerContract` |
| `Dialects`, `MCDialects` | how the six languages read and rewrite one message |
| `Startup` | `docker compose up`: dependencies, healthchecks, addresses, go's look-up |
| `NodePost` | `httpPostJSON` of nodejs on its event loop |
| `DialectsProofs`, `StartupProofs`, `NodePostProofs` | theorems about these three |

How they fit together: `Pipeline` composes all workers but takes a message for
granted that every language reads in the same way (`Dialects` says how far that
is true), containers that listen and a map of who is reached (`Startup` says
where it comes from), one step per outcome of a POST (`NodePost` looks into it)
and one step per piece of a handler (`PythonServer` looks into it). `Pipeline`
and `PythonServer` are both shown to implement `WorkerContract`.

### Payload and Workers

A route array is a *name*; `Hops[r]` gives its segments (`id`, steps). A step is
`Cpu`, `Invalid` (its time does not parse) or the name of a nested route. All
six programs read `visited` to find the first segment not yet done
(`FirstUnvisited`), and update the four fields in one go (`MarkVisited`).
Activities, times, trimming and letter case of ids are not represented: no branch
other than "parses or not" depends on them.

`Workers` keeps one operator per language where they differ: python refuses the
legacy id `py` anywhere in the route and answers 502 for anything but 200; rust,
go, java, node relay the peer's status; C# answers 500 for a fault; java checks a
step when its turn comes; go and C# treat an empty `nested_route` as no nested
route; only java serves one request at a time; only rust has no timer; rust and go
notice that the caller hung up; only go posts again.

### Pipeline

`call` is the sequence of all POSTs made so far. A call record is both the
request and the handler that serves it: `pc` says where the handler is, `at` and
`step` which segment and step it works on, `sub` the call it waits for, `pay` the
message as the handler holds it, `open` whether its caller still holds the
connection, `result` what the caller sees.

| Action | Code |
|---|---|
| `ClientPosts`, `HangUp` | the generator's POST and its timeout |
| `Read` | reading, parsing and admission: 400 or the first step |
| `Spin`, `RaiseInStep` | a CPU step; java's exception on an invalid step |
| `PostNested`, `Forward`, `PostAgain` | the POST of a sub-pipeline, to the next segment, and go's second and third attempt |
| `AnswerTerminal` | the last segment: 200 with its own message |
| `Receive` | the outcome of the awaited POST, translated per language |
| `TimeOut` | the client timer of the HTTP library |
| `Cancel`, `Unsent`, `Drop` | a disconnected caller: go's context ends the wait, the retry sleep or the POST that is about to be sent; rust's future is dropped at its next await |
| `Crash`, `Restart` | a container of compose dies, comes back |

Abstractions worth knowing:

- A connection that nobody listens on is `refused`. `reset` stands for every
  fault go's `transientPipelineHTTPDialErr` accepts after a crash (reset, no
  route), `eof` for a connection that ends without any answer: an answer torn in the middle,
  for which python has no `except` clause, is in `PythonServer`.
- rust and go notice a disconnect *some time* after it: `Drop`, `Cancel` and
  `Unsent` may come at any later step, or after the handler has finished.
- Compose has no restart policy: `Crash` and `Restart` are the environment's and
  have no fairness.
- With `Patient = TRUE` timers fire only if nothing else can move. They are of
  minutes, and steps of milliseconds to seconds, so this is how a healthy system
  behaves; `Patient = FALSE` lets them fire at any moment.
- Node's blocking `cpuSpin` is an ordinary step: it delays others and changes no
  outcome other than through timers, which may fire anyway (`NodePost` has the
  event loop).
- The gateway container runs the same `pipeline_server.py` as the python worker.

### WorkerContract

One request at one worker: it is posted; it is refused before anything is done,
or admitted; then work and sub-requests alternate, one sub-request at a time and
each heard of before the next; after a failed sub-request no further work
follows; it ends finished, failed or lost, and a success is reported only by a
worker that has done all its steps and whose forward was a success. `KeepsContract`
is this specification as a property of every call of `Pipeline`
(`PipelineContract` has the mapping: the calls a handler has made are its
sub-requests) and of every request of `PythonServer`. A worker whose caller has
hung up still keeps the contract; only what its answer is worth changes.

### PythonServer, PyMessage, PyTelemetry

Three programs (`program`): the complete worker, the lab's variant and the legacy
gateway. A process goes through `Enter` (entry point and mode), `Configure`
(peer map, telemetry, which may raise), `Bind`, serving, `Close` (SIGINT: stop
accepting, threads are daemons), `Exit` (atexit handlers one after the other)
and is gone; `Kill` ends it at any point. A thread goes through `Accept`, `Read`,
`Admit`, steps (`Step`, `Spun`, `Resumed`), `Mark`, `Hear`, `Reply`, `Count` and
`Finally`; these are the points between which other threads, signals and exports
come. Spans are a stack per thread: `EndSpan` exports in the thread itself
(`SimpleSpanProcessor`), and the export may fail; how long a slow collector makes it
wait is not modelled, `EndSpan` is one step that cannot block. `ExportTick` is
the periodic reader and the batch of lines; what has been recorded and not sent
is what a kill loses. Nobody asks a provider whether it has been shut: `tel.set` are
those that were set up and get every line and measurement, `tel.on` those that
still work, and `tel.late` counts what the others were handed and dropped.

A body is an object with a shape (`PyMessage`): not JSON, not an object, route
missing, empty or done, first segment of another worker, steps of each kind of
badness, next segment without a name. `Admissible` and `LegacyAdmissible` are
compared with the answers by `AnswerIsExplained`.

A refusal need not reach the client. `send_error` writes its reason into the status
line, in Latin-1, and some reasons quote the message with `repr()`: the id of the
segment or of a peer without URL, the text of a time. If that is in `Foreign`
(it has a character Latin-1 has not), `UnicodeEncodeError` passes through the handler
and the connection ends without an answer; so it does over an integer time that
`float()` cannot hold. `Raises` and `NoPeerUrl` say when, and the time of a step is
"ok", "bad" or "raises". Which step comes first decides, as in the code
(`StepsRaise`). A body of the form "raises" ends in the same way before
its route is looked at: a `Content-Length` that is no number, JSON nested too deep or
with too long a number, a lone surrogate that `print()` refuses.

Left out: a step whose time is `Infinity` or `NaN`, the 404 of a wrong path, a second
SIGINT other than while closing, resource attributes, the gauges of the process. PID 1
of the image has no SIGTERM handler, so `docker stop` is `Kill`.

### Dialects

A value is named by its form: a counter by the form of its text and its number,
a step by the forms of `time` and `nested_route`, a segment by whether it has a
`processing_time`. `Numerals`, `Fits`, `Readings`, `CounterRaises`, `Bumped` and
`Written` say what each language makes of a counter: `int()`, which raises beyond
4300 digits (`MaxDigits`), `i32` with `unwrap_or(0)`, `Atoi` that saturates,
`parseInt` on doubles, `int.Parse` and `Integer.parseInt`; sums wrap. A double is
`Rounded` to the nearest multiple of the distance of its neighbours (`Spacing`), ties
to the even mantissa, and infinite beyond `MaxDouble`. From 10^21 on (`MaxPlain`)
nodejs writes an exponent, which python and C# raise over, rust, go and java take
for 0, and of which nodejs itself reads the first digit (`ParseInt`). `Decodes` is
what the typed decoders of rust and go refuse wherever it stands in the message;
`Taken` what a worker does with its own segment; `Rewritten` what a segment looks
like in the body that is forwarded. A message's travel is one action per hop: neither interleaving nor failure is the
question here, `Pipeline` has both.

### Startup

Containers are created, booting, listening or down, have an address while they
run, and docker gives the lowest free one. `Start` waits for what `depends_on`
says: once all dependencies of a service have been started, each that must be
healthy is waited for by itself (`FindHealthy` notes it in `met`) and not looked at
again; `ProbeOk` and `ProbesFail` are the healthchecks, whose retries and start
period are abstracted to "may be found unhealthy at any time"; `GiveUp` is
compose's "dependency failed to start". `LookUp` is `materializePeerHosts` of go,
one name at a time, in any order, with its time limit (`TooSlow`). Rust and C# have
go's dependencies and nobody waits for them. All workers wait for the collector and
pyroscope to be started, the collector for jaeger and tempo, tempo for `tempo-init`;
none of these waits for a worker or has a healthcheck. All are left out.

### NodePost

`turn` is the phase of the event loop: a poll takes the connections that are
ready (`PollBegins`) and reads them one after the other, then the timers that are due
fire. What comes once a poll has begun waits for the next one, after the timers. A
request is handled in a poll, which it may have woken the loop for. A
handler that goes on after its answer may spin at once, before the next
connection of the same poll is read. A peer sends a head, pieces and an end, or
breaks off. `settled` is `promise[c] # "pending"`.

### Generator

One action is what an asyncio task does between two awaits that suspend it.
`state.lock` never suspends, because no task awaits while holding it. `flying`
holds the POSTs begun and not answered; the POSTs of a parallel series count as
begun when `gather` makes their tasks. Three points of the code matter: the
look at the limits (`ShouldStopGlobal`), the counter that moves only with the
answer, and `asyncio.sleep(periodicity)`, which a stop does not interrupt. An
endless group does not count its series (`Advanced`), which only bounds the
model. Exceptions other than `httpx.RequestError` from a POST are left out.

When all groups finish below `after_total_requests` and there is no time limit,
the monitor goes on polling and the process stays; the models show it
(`StopEndsAll` speaks only of reached limits), and no document says otherwise.

## 3. Runs

| Run | Instance | Shows |
|---|---|---|
| `healthy` | two concurrent requests out of thirteen: the nested route of `routes/3-nested-route.json` (go and java in the sub-pipeline), a route over the same java worker, a plain one, and malformed ones each in its own way (empty routes, self-reference, invalid step early and late, no peer, legacy id, missing steps) | sub-pipelines come before what follows them, well-formed requests get 200; a 400 from a python gateway means that nobody has worked, everything else from further down arrives as 502 |
| `impatient` | one request of nine shapes, three of which come back to the waiting java worker (one through rust, which has no timer), timers at any moment, a client that hangs up, one crash and restart | open calls form a stack, the log agrees with the route, 200 is earned, what is posted twice, by whom and with which message, nothing is rewritten, every request keeps `WorkerContract`, and under fairness every call ends |
| `misrouted` | stale peer addresses in go and node, node included, two requests | a message is only worked on by the worker it names |
| `java_again` | such a route, expected violation | see section 5 |
| `requests` | two threads of the complete worker, clients that leave, peers that need not answer, a next segment without a name | counters follow the answers, every request keeps `WorkerContract`, a request that does not end waits for its own peer |
| `bodies` | one request of every shape at each of the three programs over some sixty environments, an unreliable collector, SIGINT or kill at any time | every answer has its reason, the trace is one tree however the request ends, the process ends, an orderly stop loses only what handlers hand over too late |
| `forms` | one message with a strange counter or one strange segment on every route of two or three workers of any languages | how far the counter can be trusted, what a segment means to its worker, nobody spoils a message for those behind |
| `limit` | the same, expected violation | see section 5 |
| `startup` | java, gateway, python worker and go, two stops and restarts anywhere | what the dependencies enforce, that go looks nobody up too soon, when its book is wrong, the start comes to an end |
| `node_post` | two POSTs of one process, a timer of two ticks, steps of up to three | whole answers only, no call given up early or left open, each settles |
| `gen_series` | three groups (sequential with pauses, parallel, refused), no limit, a signal at any time | every series is sent exactly as often as configured |
| `gen_limits` | two endless groups and one with an unreadable file, request and time limit | bounded overshoot, nothing sent after a limit, all tasks end |

Bounds. `MaxCalls` is larger than what the requests of a run can produce: where
it stopped a handler, `SendTo` would stay disabled and TLC would report a
deadlock, so a finished run shows that the bound was never the obstacle. Two
concurrent requests suffice for every interaction there is: requests meet only in
the java queue. Routes have at most four segments: first, middle, last and one
that repeats. One crash shows every outcome for a caller, a restart lets go succeed on
its second attempt. In `bodies` one request is enough because `requests` has the
interplay of two; its environments cover every branch of the configuration. In
`forms` the largest integers are shrunk to 3 (32 bits), 8 (exact doubles), 15 (64 bits),
31 (written without exponent), 59 (finite doubles) and 99 (python's digits), so that
every boundary is met and passed within three hops, and the order of the real ones
(2^31, 2^53, 2^63, 10^21, about 10^308, 10^4300) is kept; doubles have three bits, so
that neighbours are up to eight apart; three workers are a writer, one that rewrites and a reader. Two stops in
`startup` let two containers exchange their addresses, or a peer and go itself be
restarted; a step in `node_post` may be longer than the timer, and one piece of
body between head and end lets a poll find half an answer. In `gen_limits` the cap of 4 is more than a series of any group
and what the groups can have in flight together, so it is hit before, inside and
after series, and exceeded by three, the most the property allows.

Fairness. `impatient` assumes that each handler that can take a step does (every
server schedules its threads, futures or tasks) and that timers fire
(`urlopen(timeout=...)`, `http.Client.Timeout`, `HttpRequest.timeout`,
`HttpClient.Timeout`); nothing about clients and crashes. `gen_limits` assumes
that asyncio runs ready tasks, that a POST is answered or runs into
`httpx.Timeout`, and that time passes; no signal is assumed. `PythonServer`
assumes that threads and the main thread are scheduled and that an export comes
to an end (the exporters have timeouts), and nothing about clients, peers and
signals. `Startup` assumes that processes boot, docker probes, and compose, which
polls twice a second, does not miss a health state that comes again and again
(strong fairness); stops and restarts are not fair. `NodePost` assumes that the
event loop runs and time passes; peers may be silent.

### What each property would notice

Every property is broken by a mistake one could make in the code; the definitions
marked `slip` are these mistakes.

| Run | Property | Slip |
|---|---|---|
| healthy | `TypeOK` | `PyAfterNested` used for forwards: python answers "next" |
| healthy | `NestedFirst` | `PostNestedUnawaited`: sub-pipeline not awaited |
| healthy | `ValidIsAnsweredOk` | `SerialToo`: go on one thread as well |
| healthy | `BadRequestMeansUntouched` | `RsAfterForward` for python: statuses relayed |
| impatient | `OpenCallsFormStack` | `GiveUpSilently`: connection left open after a timeout |
| impatient | `OkIsEarned` | `FaultTakenForOk` in go |
| impatient | `NothingIsRewritten` | `ReceiveLate`: an answer that comes after the timer counts too |
| impatient | `RepeatsOnlyByGo` | `TransientEof`: retry after an eof |
| impatient | `LogTellsRoute` | `PostAgainMarked`: segment marked again for the retry |
| impatient | `KeepsContract` | `RaiseAs400`: java answers 400 for an exception |
| impatient | `EveryCallEnds` | `TimerLeftOut`: java without a timer |
| misrouted | `VisitsHappened` | `AddressedToAnyone`: id not compared |
| requests | `CountsTellAnswers` | `ReplyUnchecked`: counted although the write failed |
| requests | `KeepsContract` | `StatusRelayed`: a failed sub-pipeline's status as one's own answer |
| requests | `OnlyPeersHoldRequests` | `AcceptSerial`: `HTTPServer` without threads |
| bodies | `TypeOK` | `LeavesAtOnce`: an early return that skips the open spans |
| bodies | `AnswerIsExplained` | `MarkRefusing`: 400 for a counter that is no number |
| bodies | `TraceContinues` | `LabTraceparent`: no context injected |
| bodies | `TraceIsWhole` | `EndSpanLost`: a span dropped when its exporter fails |
| bodies | `OnlyLateIsLost` | `ShutUnsent`: shutdown without a flush |
| bodies | `StopEnds` | `CloseJoining`: handler threads that are no daemons |
| forms | `TypeOK` | `VisitUnmarked`: visited stays false |
| forms | `CountIsExplained` | `NumberWritten`: counter written as a JSON number |
| forms | `MeaningKept` | `WithoutOld`: unknown fields not written again |
| forms | `NoNewFault` | `WithNullTime`: a missing time written as null |
| startup | `TypeOK` | `CountedAddress`: an address handed out twice |
| startup | `StartedInOrder` | `PwOnlyJava`: the python worker does not wait for the gateway |
| startup | `NoLookUpTooSoon` | `NoneStarted`: go does not wait for the python worker to be started |
| startup | `BookAgesOnlyByRestart` | `BeginWithOldBook`: the book survives a restart of go |
| startup | `StartEnds` | `AnswersWaited`: a look-up that waits for the name |
| node_post | `TypeOK` | `SpinOnce`: `do ... while` |
| node_post | `ResolvedWhole` | `OutcomeOfHead`: resolves when the response begins |
| node_post | `TimeOutIsLate` | `ArmedBefore`: the timer set before the step |
| node_post | `SettledIsClosed` | `Undestroyed`: no `req.destroy()` |
| node_post | `EveryPostSettles` | `SharedCleared`: one `t` for all calls |
| gen_series | `TypeOK` | `GatheredEarly`: goes on at the first answer |
| gen_series | `EverySeriesSent` | `OneSeriesMore`: `>` for `>=` |
| gen_limits | `OvershootBounded` | `ShouldStopLate`: `>` for `>=` |
| gen_limits | `NothingSentAfterStop` | `SeriesHeedless`: no look at the limits before a series |
| gen_limits | `StopEndsAll` | `MonitorForgetsTime`: the monitor watches the counter only |

## 4. Proofs

All theorems assume only the named `ASSUME`s of the modules (types of the
constants; a scenario has finitely many groups and at least one; routes of
`Dialects` are sequences of the six languages and not empty, its numbers are
integers, the largest integers of the languages are ordered as they are, and doubles
are one apart as far as they are exact and at least one beyond; what clients post to a
python process is JSON, so its arrays are finite, and in every environment there is something they may post).

- `PipelineProofs!TypeCorrect`: `Spec => []TypeOK`.
- `PipelineProofs!MessagesTellTheirRoute`: `Spec => []LogTellsRoute`.
- `PipelineProofs!CallsFormStack`: `Spec => []OpenCallsFormStack`.
- `HistoryProofs!HistoryIsFinal`, `RefusedIsUntouched`, `EveryOkIsEarned`,
  `NestedComesFirst`, `VisitedIsWorked`, `OnlyGoRepeats`: the action property
  `NothingIsRewritten` and the invariants of `Pipeline` that relate several calls.
- `HistoryProofs!EveryCallKeepsContract`: `Pipeline` implements `WorkerContract`,
  for every call at once.
- `ServedProofs!ValidFailsByFaultOnly`: as long as no peer address is stale, no
  connection has been closed and no call has met a fault, a valid request is
  answered with nothing but 200.
- `ServedProofs!PatientServesValid`: `Spec => []ValidIsAnsweredOk`, if timers are
  patient (`Patient`), no peer address is stale (`PeersAreRight`) and no route that
  clients post asks java for what a java worker waits for (`JavaIsAskedOnce`).
- `GeneratorProofs!GeneratorTypes`, `SilentAfterStop`, `OvershootWithinSlots`,
  `SeriesAreSent`: the properties of `Generator`, for every scenario.
- `StartupProofs!StartupTypes`, `OrderOfStart`, `PeersAreThere`,
  `BookIsRightUntilRestart`: the invariants of `Startup`, for any number of stops.
- `DialectsProofs!DialectsTypes`, `MeaningIsKept`, `NobodySpoils`,
  `EveryCountIsExplained`: the invariants of `Dialects`, for routes of any length
  and integers of any size.
- `PythonServerProofs!PythonTypes`, `AnswersAreExplained`, `AnswersAreCounted`,
  `TracesContinue`, `TracesAreWhole`, `StopsCleanly`: the invariants of
  `PythonServer`, for any number of requests at a time, bodies of any shape and
  length, any environments, and signals at any time.
- `PythonServerProofs!PythonKeepsContract`: `PythonServer` implements
  `WorkerContract`, for every request at once.
- `NodePostProofs!NodeTypes`, `AnswersAreWhole`, `GivenUpLate`,
  `SettledLeavesNothing`: the invariants of `NodePost`, for any number of POSTs,
  any limit, steps of any length.

**Pipeline.** `TypeOK` alone is not inductive: a POST is addressed to
`Segment(p)`, which exists only if the message has a segment left, and a
nested route only if it is not empty. Why that is so lies several steps back: in
admission for five languages, in the late check for java. `IInv` therefore adds
`CallInv` for every call: the message has been *through* a prefix of its route;
a live handler is at the segment after that prefix (or has marked it and there is
another one to forward to); every nested route it may still post is not empty; it
has a result if and only if it is over. `IInv` implies `TypeOK` and
`LogTellsRoute`. The proof has a lemma per way a call record changes (arrives,
begins, steps, ends, is closed, resumes) and one step per action of `Next`.

**Stack.** `StackInv`: a live call whose connection is open is the one its caller
waits for. A step that makes a caller stop waiting must find the callee over or
close its connection (`Receive`; `GiveUp`, `Drop`, `Crash`), a step that starts
waiting must have no open callee left, which holds because the handler did not
wait before. Both `IInv` and `StackInv` were checked by TLC on the instances of
`healthy`, `impatient` and `misrouted` before they were proved.

**History.** Six properties relate a call to those it made, to the one that made
it, or to its own past, and ten kinds of step could disturb each. `Changed(cs, ds)`
is a summary of `Next` proved once (`EveryStepIsChanged`): calls are only added, a new
one is a fresh POST, and an old one is left alone, takes one of a handful of
licensed steps, or is over. Everything else is proved about
two sequences of calls `cs` and `ds` with `Changed(cs, ds)`, without an action in sight.
`History` is inductive with `IInv`: a handler is placed on its route and has
tries left (`Placed`), a callee carries the message its caller had when it posted
(`Lineage`), and what a handler waits for is a call of its own at its own segment
and step (`Awaited`). Without `Lineage` a 200 received could
belong to another message, and without `Awaited` to another step. On top of it
each property has an invariant of its own: a nested step behind a handler has a 200 among
its calls; a visit of a message is a call of that id which has marked it; a call is the
second or third at its place only if all before it ended in a refused or reset
connection. `History` and these were checked by TLC on `healthy`, `impatient` and
`misrouted` before they were proved.

**Contract.** The mapping of `PipelineContract` is written as a function of a call
and the calls it made; one lemma per kind of step says which action of
`WorkerContract` it is (a handler that arrives, works, posts, hears, answers or is lost)
or that it is none. A step of the system
is a step of one call and at most one of its caller's, and every call keeps the
contract through both.

**Valid requests.** `ValidIsAnsweredOk` has no fault among its premises; two theorems
take it in two halves. `ValidFailsByFaultOnly` assumes that no fault has come:
`Fine` is what `Valid` says of a route, in a form that its nested
routes have too; a call is `Aimed` if its route is fine and it has come
to the container its next segment names. Every language admits an aimed call and can take
each of its steps, what it posts has a peer and is aimed again if no address is
stale; hence the only answers are 200s (`Served`). A disturbance is never undone (`DisturbedForGood`),
which makes "`Served` as long as undisturbed" inductive.

`PatientServesValid` shows that none comes (`Serene`). While every container runs and no
connection is closed, the one source of faults is a timer, and a patient timer fires only
when no call can move otherwise. So some call must always be able to move
(`SomebodyCanMove`): take the youngest call that is not over. It does not wait for an
answer still to come, since what it waits for is younger (`InOrder`); if it cannot be read either, the java worker it was
sent to is busy. Then look only at the call that keeps that worker busy and at those
beneath it. Again the youngest of them can move, unless it was sent to a busy java
worker as well, and that is excluded: beneath a java worker that waits, everything is `Calm`,
meaning that neither the rest of its route nor a nested route in it comes to java.
`CalmBelow` says so of the calls and is inductive; `JavaIsAskedOnce` says it of the routes
that clients post, at whatever depth (`FreeRoutes` and `OrderlyRoutes` are greatest sets of
routes with that property, so no recursion is needed). Neither the number of requests
served at a time nor room for calls matters: a handler that finds no room is one that
could move.

The three premises hold on `healthy`, for every route it posts, and none can be spared:
TLC finds a valid request that fails when timers are impatient, on the
stale addresses of `misrouted`, and on the route of `java_again`, which is the finding of
section 5. In the code the
timers of 100 and 120 seconds are patient as long as requests take less; that they are is
an assumption about the load, not a fact about the code. TLC checked `Served` on
`healthy` and `impatient`, and `CalmBelow`, `InOrder`, `Serene` and `SomebodyCanMove` on
`healthy`, before they were proved.

**Generator.** One lemma says what a stretch of a task can do: rest, or send a
series after a look at the limits. `NothingSentAfterStop` follows with the
remark that counting an answer does not lift a limit. For the overshoot, `total +
|flying|` does not change with an answer, and a stretch that sends has seen
`total < Cap`, whatever it adds lies within the finite set `Slots`;
`OvershootBounded` is inductive together with `TypeOK`.

`EverySeriesSent` compares a counter with a sum over the groups. `SeriesInv` says of every
group how far it is (all series before the one in hand have been sent, and of that
one each slot in flight stands for one message), and of the counter that it is the sum of what the
groups have sent so far; a stretch of one task changes one summand, and the counter by the
same amount. That needs to know what a sum over a finite set is. The fold of
the community modules is a recursive function on subsets: that it exists, that it adds
the summands one by one (`SumIsSummed`) and that one larger summand makes it larger by as much
(`SumGrows`) is shown by taking a smallest set for which it fails, since the
induction theorems of the library cannot be instantiated here. TLC checked
`SeriesInv` on `gen_series` before it was proved.

**Startup.** `StartedInOrder` speaks of who has *listened*, compose decides by
what docker *says*: `PhaseInv` ties them (healthy means it has listened, an
address means it runs, down means something has stopped, a dependency that compose has
met has listened). `OrderInv` adds that
go's start implies the python worker's, which is how the gateway, on which go
does not depend, comes to have listened. That no two containers share an address
needs a free one to exist: four services, four addresses, and the one that begins
has none (`AddressIsFree`).

**Dialects.** What a worker sees is not what the client wrote, so neither
property is inductive. `Kin(h, s, m)` is the strongest thing that is true of a
segment `s` and what `m` it has become after `h` hops: same language, and every
field equal or one that a worker among the first `h` may drop or blank.
`RewritingKeepsKin` carries it over a hop, `KinIsTakenAlike` says that kin
segments are taken alike by every language but for a null or an empty list that is
gone, `KinIsDecoded` that the typed decoders accept a kin message if they accept
the client's. For the counter (`CountInv`) the value in transit is the one the
last worker wrote, in the form that worker writes. Up to the last exact double that form
is plain (`WrittenIsRead`), and every language reads what another has written
(`ReadExactly`), unless the integer is one of the other's range only. Of `Rounded` the proof needs only
that it is an integer, and the value itself as far as doubles are exact.
Hence the count departs from counting by one at the first worker or where
two neighbours' integers differ, and nowhere else.

**PythonServer.** Where a thread is in the handler tells a lot that `TypeOK` does
not: how many spans are open and whose children they are, how many POSTs have been
made, which step `k` counts, why it answered as it did. `ThreadInv` says all of it, of
one thread at a time, and a step of the handler is proved to keep it as a function of a
thread, before any action is looked at. `Regular(t, u)` then summarises what a
step from `t` to `u` lets the outside see: the client (a step of the contract, or none;
an answer only with its reason), the metrics (a 200 is counted later, by
the same thread) and the trace (spans end innermost first). The invariants of
the process follow from these two, and from what is special to each:

- `ServedInv`: nobody is served before the process serves, and while it does a request is
  lost only for a reason of its own: a connection that is gone, a body or counter that
  raises, a torn answer, a refusal that cannot be written (by `RefusalUnwritable`, admission
  raises over nothing else). It gives `AnswerIsExplained`.
- `CountInv`: the two sums are the cardinalities of two sets of requests, which are
  finite because at most one joins in a step. That the main thread may close
  the provider between an answer and its count is why it speaks of serving and
  closing processes only.
- `TraceInv`: the collector's spans and the ones open in threads together have every
  parent and every POST. It gives `TraceIsWhole` once nothing is open, and with
  the order in which CLIENT spans are numbered `TraceContinues`.
- `TelInv`: every line that is not late is in the queue or sent, and a provider that is
  shut has sent what it was given before, unless an export failed or the process was
  killed. With `LateInv`, that nothing is late before a request has been accepted, it gives
  `OnlyLateIsLost`.

TLC checked each of them on the instances of `bodies` and `requests` before it was
proved.

**NodePost.** The end of the answer to a pending call is always still to be read:
by the poll under way, by the next one, or after the step that holds the loop
(`PendingInv`): if the end is not in the batch of the poll under way, it came after that
had begun (`kept`). Without this, a call could time out over an answer that a poll
had found. `TimeInv` says that the timer and the time waited add up to the
limit, which holds because both advance in the same ticks.

Only model-checked:

- Liveness under fairness (`EveryCallEnds`, `StopEndsAll`, `StartEnds`,
  `EveryPostSettles`, `StopEnds`, `OnlyPeersHoldRequests`) and `ENABLED`, which are
  outside TLAPS as used here.

## 5. Findings

`java_again`: the java server has no executor (`server.setExecutor(null)`,
`Main.java:195`), so the thread that accepts requests runs the handler, and
waits in it for the next worker. A route that visits `ja` twice is well-formed
for every worker on it, but its second visit cannot be read before the first
has given up after two minutes; the client sees 502. The java README promises the
same contract as the other workers, for which such a route works: the
sub-pipeline of `routes/3-nested-route.json` visits `go` twice.

`limit`: `_parse_processing_time` of the python servers returns a numeric `time`
before it looks at `DEMO_MAX_PROCESSING_SEC` (`pipeline_server.py:99`), so
`"time": 500` spins for 500 seconds where `"500s"` is cut to the limit;
`python_gateway/_src/main.py:18` calls the variable the limit of the simulated CPU
time.

Smaller disagreements of documents met on the way, no property of the models:
`docs/http-pipeline-architecture.md:11` describes the nested route as go, ja,
rs, go, the file has go, ja, py-worker, go; the second scenario names
`2-slow_route.json`, the file is `2-slow-route.json`.

## 6. Not modelled, and the plan

The plan is carried out: what is not listed below is modelled, and every
invariant and every action property of the passing runs is a theorem. What TLC alone
shows is the liveness listed at the end of section 4.

Not modelled:

- Telemetry of the other workers: their spans follow the python ones, their SDKs
  are library code. Resource attributes and gauges of processes are data.
- The timers of different length (100 s in C#, 120 s elsewhere, none in rust): with
  timers that fire at any moment `impatient` has every order of them.
- The slicer: two scripts around `split` and `cat` for files on a developer's
  machine, which no part of the system meets.
- The stub listener prints what it receives and keeps nothing; the C++ exercises
  have no pipeline endpoint; the observability servers are configurations of
  third-party programs; the scripts wrap commands.
