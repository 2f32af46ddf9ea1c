# A formal model of ollama.cpp

`ollamacpp` is a Python service that exposes the Ollama, OpenAI and Anthropic APIs in front of
`llama-server` processes.  It loads a model when a request asks for it, keeps it for its
`keep_alive`, evicts others under memory pressure, and stores models as blobs and manifests.
This directory models it in TLA+, checks it with TLC on small instances and proves its main
invariants with TLAPS.  Paths below are relative to the root of the repository.

## 1. The system

| Component | Source | State | Operations | Interactions |
|---|---|---|---|---|
| Scheduler | `ollamacpp/runtime/scheduler.py` | none (budget, slots, grace) | `plan`, `expired` | pure decision, called by the lifecycle manager under its admission lock |
| Lifecycle manager | `runtime/lifecycle.py` | `_residents`, `_loading`, `_admission_lock`, the `Resident` objects | `ensure_ready`, `_load`, `acquire`, `unload`, `sweep`, `shutdown` | called by all the handlers, by the sweep loop and by `Service.stop`; calls scheduler and supervisor |
| Service | `service.py` | the sweeper task | `start`, `stop`, `_sweep_loop` | owns the other objects |
| Supervisor | `runtime/supervisor.py` | processes, ports, HTTP clients, drain tasks | `spawn`, `_await_health`, `fetch_props`, `terminate` | starts, polls and kills `llama-server` |
| API facades | `api/*.py` | none across requests | chat, generate, messages, responses, embeddings, pull, create, copy, delete, blobs | `acquire` around each inference; registry for management |
| Backend client | `backend.py` | a tool-call assembler per stream | `chat`, `chat_stream` | HTTP to `llama-server` |
| Blob store | `storage/blobs.py` | content-addressed files, temporary files | write, verify, garbage collection, sweep of temporaries | used by registry and sources |
| Manifest store | `storage/manifests.py` | one JSON file per model | read, write (atomic replace), delete | used by the registry |
| Registry | `registry/registry.py` | none of its own | resolve, install, copy, delete with garbage collection | blobs and manifests |
| Sources | `sources.py` | downloads in progress | pull from Hugging Face or an Ollama registry | writes blobs, then a manifest |
| Pure helpers | `names.py`, `durations.py`, `runtime/memory.py`, `runtime/args.py`, `runtime/capabilities.py`, `gguf.py`, `canonical/` | none | parsing and formatting | |
| Wiring | `config.py`, `errors.py`, `observability.py`, `app.py`, `__main__.py` | configuration, logs | | |

Two kinds of difficulty meet in this code.  The first one is time: everything runs on one event loop, so that the
code between two awaits is atomic, but every await lets requests, the sweep, other loads, a client's
cancellation and the shutdown in: one load is shared by several requests; admission is decided
before evictions that take seconds; a name may mean another instance after an await; cancellation may
strike inside a termination; two spawns overlap; a crash cuts a write; a deletion collects garbage while
a pull is under way.  The second one is translation: six endpoints in four protocols must say the same
thing to one backend and tell its one stream in six forms, chunk by chunk, with tool calls that arrive
in fragments.  `PROJECT.json` lists these hazards with the line where each one bites.

What makes each component correct:

* scheduler: a plan makes enough room, no more than needed, in the documented order, never with a busy
  model, and refuses only when nothing helps;
* lifecycle: memory and slots are never exceeded, loads are single-flight, the table holds only live
  entries, a model is BUSY exactly while it serves, no process is forgotten, every request ends,
  `keep_alive` is enforced;
* supervisor: one port per process, a failed or cancelled spawn leaves nothing behind;
* storage: a manifest only references blobs that exist, whatever crashes, and garbage collection
  removes no blob in use;
* facades: one exchange reaches `llama-server` as the same messages and parameters whatever the facade;
  a stream tells what the whole answer would have told; tool calls come out whole; what a client
  sends back is what it was told.

## 2. The modules

| Module | What it is |
|---|---|
| `Scheduler` | `scheduler.py` as operators: `Plans(name, required, R)` is the set of plans that `plan()` could return for residents `R` |
| `Lifecycle` | the lifecycle manager, the handlers that call it, the sweep loop and the shutdown; extends `Scheduler` |
| `LifecycleLive` | fairness and liveness of `Lifecycle`, and its refinement mapping to `Residency` |
| `Residency` | abstract specification: a load begins only if what is held, together with it, fits at that very moment, and loads end |
| `MCScheduler`, `MCLifecycle`, `MCLifecycleLive` | instances for TLC |
| `SchedulerProofs` | facts about plans, proved for all sets of residents |
| `PlanProofs` | every property of `MCScheduler`, for all tables, budgets and requirements |
| `LifecycleProofs` | type correctness of `Lifecycle`, single flight, the soundness of the table, the budget and the slots, plans spare the busy models; the refinement of `Residency`; then the processes: none is forgotten, only the lost survive, admissions wait for what they evict, BUSY exactly while a request is served, and the two readings of an expired `keep_alive` |
| `Storage` | blobs, manifests, registry, pulls and the management handlers, with crashes inside the disk operations |
| `StorageProofs` | type correctness and all the properties of `Storage` |
| `Supervisor` | `spawn` and `terminate` of several instances, and the processes as the supervisor sees them |
| `SupervisorProofs` | type correctness, nothing is left behind, and who may answer a spawn |
| `RuntimeArgs` | `args.py` as operators: the command line and the filter of reserved flags |
| `Requests` | the bodies of the four protocols parsed into canonical messages, and these serialized for `llama-server` |
| `Settings` | the same for sampling options, limits, formats, thinking, tools and capabilities |
| `Streams` | the chunks of `llama-server`, the assembler of tool calls, and the six streams and payloads |
| `Inference` | the clients: they speak, choose a facade and listen; composes `Streams`, `Settings` and `Requests` |
| `StreamsProofs` | types, closing events, blocks and the telling of calls, for streams of any length; what the operators of `Streams` yield for one chunk more |
| `AnswerProofs` | a stream, put together, is the whole answer, and the calls come whole, for streams of any length |
| `RequestProofs` | a conversation of any length is the same request whatever the facade; an answer, put together and sent back, is the message that was produced |
| `MCStorage`, `MCSupervisor`, `MCInference` | instances for TLC; the second one adds `RuntimeArgs`, the third one what clients may expect |

### Lifecycle and the code

A step is what a coroutine runs between two awaits that really suspend it.  A request `q` is one HTTP
request; a load task, and the `Resident` it makes, are named after the request whose `ensure_ready`
created the task (a request creates at most one), and a process after its `Resident`.

| Variable | Code |
|---|---|
| `residents[m]` | `_residents.get(m)` |
| `rsd[r]` | the object: `state`, `keep_alive`, age of `last_used`, `active_requests`; `instance` is set when `task[r] = "ready"` |
| `proc[r]` | the `llama-server` of `r`; `stopping` while a coroutine is inside `terminate` |
| `loading[m]`, `task[t]` | `_loading.get(m)`, the progress of `_load` |
| `evicting[t]`, `sweeper`, `closing` | in a loop of `await self._unload_key(name)`: the Resident whose end is awaited, and the names left |
| `lock` | `_admission_lock`, when it is held across an await |
| `pc`, `ask`, `holds`, `awaits` | the handler of a request |
| `phase` | `Service.stop`: cancelling the loads, then unloading the residents, then down |
| `lost` | history: processes that nobody undertakes to stop, either popped while they were loading or whose `terminate` was cancelled |

| Action | Code |
|---|---|
| `Begin`, `Resume` | `ensure_ready` up to its first suspension: `Reuse`, `Reload`, `JoinLoad`, `StartLoad`; or `unload` |
| `Wake` | `await asyncio.shield(task)` returns or raises; `_touch`, then `acquire` |
| `Release`, `EndStop` | the `finally` of `acquire`, with the unload of `keep_alive: 0` |
| `EndStream` | the body of a streamed response, produced after `acquire` was left |
| `Cancel` | a client gives up at an await: the shared load goes on, a termination in progress is abandoned |
| `RejectLoad`, `Admission`, `EvictNext` | `_load` up to `spawn`, one step per awaited eviction |
| `SpawnReady`, `SpawnFails`, `LoadFails`, `Callback` | the outcomes of `spawn`, the `except BaseException`, the done-callback |
| `Exit` | `terminate` returns |
| `SweepStart`, `SweepNext`, `Tick` | `sweep` and the clock |
| `StopService`, `CancelLoad`, `CloseStart`, `CloseNext` | `Service.stop` and `shutdown` |

The loop "for name in names: await self._unload_key(name)" appears four times in the code.
`Unload(names, objects)` is its run up to the next suspension: absent names and residents without an
instance do not suspend it.  Data are abstracted: durations are small integers, `Estimate` and
`Priority` are constants, a runtime configuration is an element of a set.

### Storage and the code

The stores never await: for the other coroutines a disk operation is atomic, and only a crash cuts it.
A step is therefore what a handler does between two awaits, and `Crash` is a step of its own that may
leave what a cut ingestion, write or deletion leaves.

| Variable | Code |
|---|---|
| `blobs`, `partials` | `blobs/`, and how many `*.partial` files `tmp/` holds |
| `file[t]` | the manifest of a tag: absent, good, `unreadable` (skipped by the listings) or `rejected` (a field of the wrong form: it raises what they do not catch), and its artifacts |
| `job[j]` | a pull or a deletion: where it awaits, what is still to fetch, what it has got |
| `exposed`, `tainted`, `edited` | history: pulls during which a collection ran; tags installed by such a pull or copied from one; manifests edited by hand |

| Action | Code |
|---|---|
| `BeginPull`, `Resolve`, `ResolveFails` | `pull_model` and `_resolve` |
| `AlreadyPresent`, `Download`, `Ingest`, `FetchFails` | `_fetch_artifact`, `ingest_chunks` with its checksum |
| `InstallPulled`, `Create`, `Copy`, `Upload` | `registry.install`, `api/ollama.py` create, copy and blobs |
| `BeginDelete`, `Delete`, `DeleteAbsent` | delete: it awaits the unloading, then removes the manifest and collects |
| `Crash`, `Restart`, `Edit` | a kill at any moment, `sweep_tmp` at the start, the operator's editor |

A tag is a pair of a stem and an extension, because `with_suffix(".tmp")` replaces what follows the last
dot: the temporary file of one tag may be the manifest of another one.

### Supervisor and the code

`pc[i]` is the await at which the coroutine of instance `i` is, from `forking` to `loaded` in `spawn`,
then `closing`, `grace`, `killing` in `terminate`; `port`, `signalled`, `drain` are what `spawn` and
`terminate` assign; `server` and `pipe` belong to the process: it binds its port, logs, dies when it
likes, and is `reaped` when asyncio knows its returncode.  `foreign` is what other programs hold.
`answerer`, `raced` and `cut` are history: whose `/props` an instance has read, the pairs that were given
one port while both claimed it, and the terminations that were cancelled.  Time is not measured:
`DeadlinePasses` and `GraceExpires` may happen whenever the code looks at the clock.  In `Lifecycle` a
process has a simpler life (`starting`, `up`, `stopping`, `gone`), which is this one seen from
`ensure_ready`.

### Requests, Settings, Streams and Inference

Parsing, serialization and assembly are operators with the names of the functions they model, applied to
records that keep the fields which the functions read.  A text is a sequence of letters, a JSON value of
a tool call is a sequence of tokens, so that a fragment is a prefix and "decodable" means something.
The only state is the stream: `facade`, `phase`, `sent` (the chunks `llama-server` has sent), `slots`
(the assembler), `answer` (the frames sent to the client, the open block, the finish reason, the usage),
and in `Inference` `turns`, the conversation before it is sent.  `Content`, `Finish`, `Count`, `End`,
`Fail` and `Disconnect` are the chunks and ends of a stream; each one runs the generator of the facade
to its next `yield`.

## 3. What the runs show

| Run | Instance | Shows |
|---|---|---|
| `scheduler` | every set of up to 3 residents, sizes 1..2, requirement 1..5, budget 4, 3 slots, grace 1 | `PlanMakesRoom`, `PlanIsMinimal`, `RefusesOnlyWithoutRecourse`, `EvictionPolicy` |
| `lifecycle` | 4 models, one of which needs the room of two, one incomplete; budget 2, 3 requests: calls with the default `keep_alive` or 0, and unloads | all the invariants of `Lifecycle`, `FirstVictimIsIdle` |
| `live` | 2 models, 2 runtimes, 2 requests: reload, stream, preload with infinite `keep_alive`, unload | `EveryRequestEnds`, `KeepAliveEnforced`, `StopEnds`, `ImplementsResidency` |
| `storage` | 3 tags, two of which meet in one temporary file; weights and a projector; 2 pulls or deletions beside uploads, create and copy; 1 crash, 1 manual edit | the five properties of `Storage` |
| `supervisor` | 2 instances, 2 ports of which 0, 1 or 2 are taken, pipes of one line, 2 cancellations of each coroutine, three manifests | what `spawn` and `terminate` leave, who answers, that both end, the command line |
| `inference` | every conversation of up to 4 turns, every stream of up to 4 chunks of content on six endpoints, cut anywhere | that the facades agree, and the streams with the whole answers |
| `busy_evicted`, `orphan`, `runtime`, `stream` | as `lifecycle` with calls only, 2 interchangeable models with unloads, as `live`, as `live` | promises of the docs that the code does not keep |
| `port_race` | as `supervisor` | promises of the comments that the code does not keep |
| `late_stop` | as `inference`, conversations of one turn | a promise of a comment that the code does not keep |

The safety invariants, in the order of `Lifecycle`:

* `WithinCapacity`: the table, reservations included, stays within budget and slots;
* `SingleFlight`: a load under way is the one `_loading` names for its model;
* `TableIsLive`: an entry is a reservation whose load runs, or a model whose process is up and that
  nobody is stopping;
* `BusyIffServed`: `active_requests` counts the requests inside `acquire`, and BUSY means some;
* `NoProcessForgotten`, `DownLeavesOnlyLost`: a live process is in the table, being loaded, being
  stopped by someone, or in `lost`; after the shutdown only the last;
* `AdmissionAwaitsEvictions`: the physical memory of the processes that admission knows of stays
  within the budget, because it waits for its victims.  Processes stopped outside admission (sweep,
  unload, reload) are excluded: their memory is given back at the pop, before they exit;
* `SweepAgreesWithScheduler`: the code decides twice that a `keep_alive` has expired, in
  `Resident.is_expired` with `is_serving` and in `ModelScheduler.expired` with `pinned`; they agree;
* `FirstVictimIsIdle`: what is true of "a BUSY model is never evicted".

Of `Storage`:

* `ListedNeverTorn`: a crash never leaves a listed model whose manifest cannot be read;
* `IncompleteOnlyByCollection`: a readable model has its blobs, unless a deletion collected garbage
  during its pull (this does happen: the blobs of a pull are not referenced until its manifest is written);
* `CompleteStaysComplete`: no deletion, collection or crash takes a blob from a complete model;
* `DeletionReclaims`: a successful deletion leaves no blob that no remaining manifest declares, and no
  partial file.  It asks nothing of the blobs that an unreadable manifest declares: the code collects
  them, its comment says that it does not (see below);
* `PulledAsAnnounced`: an artifact is the one that was announced, from the store or from the network.

Of `Supervisor`:

* `EndedLeavesNothing`: a coroutine that has ended leaves no process that was not sent SIGKILL, unless the
  termination itself was cancelled;
* `WrongServerOnlyInRace`: an instance is READY on the answers of another one's process only when one
  of the two was given its port while the other was loading on it, before its process was bound or after
  its process had died: no late answer does it, and no reuse of the port of an instance that is loaded or
  has ended.  That such an instance may be READY at all is the finding `port_race`, whose property
  `ReadyMeansItsOwnServer` has no exception;
* `SpawnEnds`: no load stays LOADING, whatever its process does;
* `CommandIsTheSupervisors`: a manifest cannot move an instance off its address or its model, and filtering
  a flag does not shift the others.

Of `Inference`:

* `SameExchangeSameRequest`: the four chat facades, and `/api/generate`, say one exchange in the same
  messages, and refuse it exactly when their protocol cannot say it;
* `SameSettingsSameParameters`: the same for options, limits, formats, thinking and tools;
* `StreamAgreesWithWhole`: the text, reasoning and calls of a stream are those of the payload without
  streaming, and so are the two counts of tokens as far as a stream carries them (`CountsAgree`): both
  counts on the endpoints of Ollama, on `/v1/responses` and, when `llama-server` has counted, on
  `/v1/chat/completions`; the tokens of the answer on `/v1/messages`; none on `/v1/completions`, of
  which nothing is claimed.  The counts are read from the frames.  The reason is the same, but for
  `StopAfterCalls`.  That exception is the finding `late_stop`; the counts that a
  stream leaves out are told below;
* `AnswerSurvivesReplay`: what the client was told, sent back as a turn, is the turn that was meant;
* `CallsArriveWhole`: a tool call is told once, with all its fragments, in order;
* `ClosedOnlyByUpstreamEnd`: the closing events come only after `llama-server` ended its stream;
* `BlocksAreWellFormed`: blocks and items are opened, filled and closed one at a time, numbered in order.

Every property of a passing run has a mutant: a plausible bug in one definition (a dropped guard, a
forgotten reset) under which the same run finds the property violated.

### Findings

* `busy_evicted`: the second victim of a plan may become BUSY during the termination of the first, and
  is unloaded under its request (`lifecycle.py:287-289` against `scheduler.py:21`).
* `orphan`: unloading a LOADING placeholder, or cancelling a `terminate`, leaves a process that
  `shutdown` does not know (`lifecycle.py:412-418`, `:441-446` against `:440` and `service.py:94`).
* `runtime`: a request that joins a load silently gets the runtime of another one
  (`lifecycle.py:216-229` against `:183-186` and `:203`).
* `stream`: a streamed answer is produced after `acquire` was left, on a model that is IDLE or already
  unloaded (`api/ollama.py:217-235` against `lifecycle.py:361-363`).
* `port_race`: of two overlapping spawns that are given one port, the second becomes READY on the answers
  of the first one's process, while its own cannot bind (`supervisor.py:92-99`, `:218-228` against
  `:86-89` and `:138-142`).
* `late_stop`: when the calls came in earlier chunks, a stream that ends with "stop" is not corrected to
  "tool_calls" as the unstreamed answer is (`backend.py:457-464` against `:313-315`).

Met while modelling, kept as the code does it, without a run of their own:

* supervisor: a log line longer than 64 KiB makes `readline` raise, which ends the drain while the process
  lives: its pipe fills up and a loaded `llama-server` blocks (`supervisor.py:248-250`, where `:185-188` says
  that the pipes must be drained all the time).  The model has that step (`drain`), and `SpawnEnds` holds
  with it; no property is stated of the log of a loaded instance;
* storage: a deletion collects the blobs of a listed manifest that cannot be read
  (`registry/registry.py:219`, where `:216-218` says that nothing is removed because of it).  The model does
  so too, and no property asks for either: `CompleteStaysComplete` speaks of manifests that can be read,
  `DeletionReclaims` of blobs that nothing declares;
* storage: a manifest with a malformed `keep_alive` makes the listings raise, and
  a deletion then fails after it has removed its manifest; a tag that ends in `.tmp` is invisible to the
  listings and overwritten by a write of its sibling (`manifests.py:323`); artifacts of other roles than
  model and projector are downloaded, then dropped;
* requests: `raw_prompt` of `/api/generate` is never serialized, `num_keep` is dropped, `extra` options may
  override the fields of the body, `is_error` and the signatures of thinking never reach `llama-server`,
  `tool_choice: "named"` of OpenAI gives an empty function name, `/v1/completions` skips
  `reject_unsupported`, only Responses merges adjacent items of the assistant;
* streams: `/v1/messages` says 0 tokens of prompt at its start and never corrects it
  (`api/anthropic.py:351`, `:430`), where the answer without streaming has both counts (`:299-302`) and
  `docs/BACKLOG.md:154-155` asks for the usage of the stream; `/v1/completions` tells no usage in its
  stream (`api/openai.py:494-508`, against `:481-485`); Ollama tells the calls in a chunk and again in
  the last one; the streams of OpenAI, Anthropic and Responses have no handler for an upstream error in
  their middle.

### Bounds, and why they are enough

Three requests give a load with its creator, a request that interferes and one that waits; two of them
can make a second model busy while a third evicts. Budget 2 and a model of size 2 give the smallest plan
with two evictions. Ages saturate at `MaxIdle = 1`, the age at which `keep_alive = 1` expires and
`Grace = 1` is reached; with `Grace = 0` in the safety runs every idle model may be evicted, the worst case.
There every model takes one unit at least, so that the budget binds before the slots: what
`WithinCapacity` says of the slots is shown by its theorem. Names of models are strings where estimates
distinguish them, and model values under symmetry elsewhere. The live run has no symmetry.

In `storage` two requests are a pull and a deletion, two pulls of one tag or two deletions, and the
synchronous handlers come between any two of their steps; two digests make a projector shared by two
models, or sent in place of another artifact.  One crash is enough because `Restart` forgets what is not
on disk, and one manual edit gives each kind of bad manifest.  In `supervisor` two instances make every
pair; a third one adds nothing to a property of pairs, and the theorems hold for any number.  Two
cancellations of a coroutine are a cancelled load whose termination is cancelled too; a third one would
find nothing left to cancel.  In
`inference` the longest interesting exchange is question, call, result, answer; four chunks hold two
calls of which one comes in two fragments, or reasoning, text and a call.

Deadlock checking is off: when all requests are done and the service is down, or all instances have
ended, or a stream is closed, the system stops.

### Fairness

Weak fairness of each request's continuation, of each load task, of the done-callbacks, of the sweep and
shutdown loops, and of the end of a process that somebody awaits.  The event loop runs every ready
coroutine; `spawn` has a deadline; an inference has `request_timeout_s`; `terminate` ends with a SIGKILL.
`asyncio.Lock` is FIFO; here weak fairness of a load is enough because finitely many loads contend.
Clients, the passing of time and `StopService` are not fair.  A process whose stop was abandoned is owed
nothing.

In `Supervisor` a coroutine whose await is over is resumed (`WF` of `Resume`: each await there has a
timeout), a drain reads what there is to read (`WF` of `ReadLine`), and a health loop that looks at its
deadline again and again finds it passed (`SF` of `DeadlinePasses`: asking and pausing alternate, so that
weak fairness would say nothing).  Nothing is assumed of the processes: they may never bind, never answer,
never die.

## 4. What is proved

The assumptions are `SchedulerAssumption`, `MCSchedulerAssumption` (finitely many names, the requested one
apart, natural bounds) and `LifecycleAssumption` (finitely many models and requests,
natural numbers for sizes, distinct markers `None` and `Unset`), `StorageAssumption` (finitely many tags,
digests and requests, plans that name each role once) and `SupervisorAssumption` (a range of ports, a pipe
that holds a line, a natural bound of the cancellations).

* `SchedulerProofs!AdmittedPlanFits`: `plan` accumulates what each eviction frees; the theorem adds up
  what is left instead, and finds that it fits with the new model.  The sum is the cardinality of a
  disjoint union of cells, so that `UsedSplit` follows from the cardinality theorems, and the loop is a
  CHOOSE over prefixes, whose existence is `LeastNatural`.
* `SchedulerProofs!PlanSparesTheBusy`: evictions are existing residents, not busy, not the requested model.
* `PlanProofs`: the state of `MCScheduler` is a table and a plan that `plan()` may return for it (`PlanInv`),
  and the four properties are consequences.  `AdmittedPlansMakeRoom` is `AdmittedPlanFits` for the table as a
  whole.  `PlansAreMinimal` needs the converse of what the loop computes: its sums of freed bytes and slots say
  "enough" exactly when what is left fits (`RoomIsSeen`, `SeenIsRoom`), and the plan is the *least* such
  prefix.  `RefusalsAreJustified` applies the same to the longest prefix, which is everyone who may leave; the
  reason of the refusal, which becomes the error of the API, says whether an empty machine would do.
  `EvictionsFollowThePolicy`: a prefix of a sorted list takes nobody before whom somebody else should go.
* `LifecycleProofs!TypeCorrect`: `TypeOK` is not inductive, because a table entry or a waiter could refer
  to a request that has not begun and has no model.  `TypeInv` adds `References`: whatever is in the
  table, in `_loading` or held by a request has a load task, whose request has begun.  One lemma per action.
* `LifecycleProofs!LoadsAreSingleFlight`: inductive together with `TypeInv`.  Only `StartLoad` adds a load,
  under a name that had none; only the done-callback removes one from `_loading`, when it is over.
* `LifecycleProofs!TableIsAlwaysLive`: inductive together with `TypeInv` and `Untasked`, a request that has
  not started a load owns none.  A step is *gentle* to a Resident if it keeps it loading or serving and
  does not stop its process; everything but `Evict`, `SpawnReady` and `LoadFails` removes entries and is
  gentle to the others, because two names never share a Resident.
* `LifecycleProofs!TableWithinCapacity`: `WithinCapacity` alone is not inductive, since admission is decided
  before evictions that wait for processes.  `CapacityInv` adds that a load in "evicting" holds the lock
  and fits next to what is *not left to evict* (`Admitting`), that nothing is in the table under the name of
  a load that has no reservation yet (`Absent`, from single flight and the live table), and the two
  theorems above.  A step is *calm* if it only removes entries and admits no load: every action but
  `Admission` and `EvictNext` is calm, and a calm step keeps the invariant.  `AdmittedPlanFits` gives the
  room at the admission, `RemainingRoom` keeps it from one await to the next, and `AllEvicted` turns it
  into the reservation.
* `LifecycleProofs!PlannersSpareTheBusy`: `FirstVictimIsIdle` from `PlanSparesTheBusy`: what the planning
  step removes is a prefix of the plan, made from the residents as they are at that moment.
* `LifecycleProofs!LifecycleImplementsResidency`, the safety part of `ImplementsResidency`, with `RefInv`:
  `CapacityInv`, and what an entry shows is what its load does (`StageShown`, from the live table).  Under
  the mapping a calm step only vacates (`RemovalRefines`), `SpawnReady` makes a model ready, and `Admission` or
  `EvictNext` vacates and then reserves when nothing is left to evict (`ReservationRefines`).  The guard
  of the abstract reservation, that it fits at that very moment, is where `Admitting` is used: the decision made
  before the awaits is still good after them.
* `LifecycleProofs!BusyExactlyWhileServing`: inductive with `ServedInv`: a request that is served holds a loaded
  Resident, the counter is the number of those requests, and a loaded Resident of the table shows BUSY
  exactly when its counter is positive.  Every step adds one request to one Resident, or removes one, or
  leaves them alone.  `SweepAndSchedulerAgree` needs the types only: what is
  neither LOADING nor UNLOADING is serving.
* `LifecycleProofs!NoProcessIsForgotten`: inductive with `StopsInv`: what somebody awaits was loaded and is
  ending, unless its stop was abandoned (`VictimsEnd`); a process that is being loaded has its reservation
  or is already in `lost` (`Reserved`); a request awaits only where it stops something; a load has a
  victim only while it evicts.  An unload either keeps an entry, or awaits it, or puts it in `lost`
  (`UnloadTakes`): that lemma carries the request, eviction, sweep and shutdown steps alike.
* `LifecycleProofs!OnlyLostProcessesSurvive` adds `ShutdownInv`, the order of the shutdown: once it has begun no
  request runs and nothing sweeps, after its first part no load is pending, and from then on
  what is in the table is still in the list that it unloads.
* `LifecycleProofs!EvictionsAreAwaited`: the processes of the table and the victim of the admission under way
  fit the budget together (`Freeing`).  A victim is taken from a table that fits, the table only shrinks
  while the lock is held, and the reservation comes after the last victim is gone.

* `StorageProofs`: `StorageTypeCorrect` from `TypeInv`, which adds what a request holds at each await (a plan
  of which something is left while it downloads, nothing fetched before it resolves) and that partial
  files are as many as crashes, none once restarted.  `ListedModelsAreReadable` and `ModelsAreComplete` are
  inductive together with `PullsHold` (what a pull has got is in the store, unless a collection ran
  meanwhile) and `GoodIsComplete`; the steps fall into five classes: those that leave the manifests and
  only add blobs, those that write a file that is not listed, installations, removals, and those that
  leave a pull alone.  `CollectionsSpareModels`, `DeletionsReclaim` and `PullsAreAsAnnounced` are action
  properties proved from these: a collection keeps what any listed manifest references
  (`CollectionsKeep`), whatever crash cuts it, and what is referenced is declared.
* `SupervisorProofs`: `SupervisorTypeCorrect`; `SupervisorLeavesNothing` with `EndInv` (no process before the
  fork, SIGKILL sent before the last wait); `WrongServersHaveRaced` with `PortInv`: an instance that is
  asking can only meet on its port a process with which it has raced, because an owner that is bound when
  the port is probed is not free, and one that is not yet bound claims it.
* `StreamsProofs`, over any number of chunks and turns (a stream has at most two calls, as in the model of
  `llama-server`), with `StreamInv`.  `BlocksAreWellFormed` alone says nothing of the next delta; the invariant
  adds the locals of `_messages_sse`: `index` counts the blocks started, and `open` names the
  kind of the one block that is open, or there is none (`BlockInv`).  Each of the three events of a block,
  and every frame that is indifferent to the blocks, keeps it; the delta, the calls, the end of the stream and
  its cut are sequences of those.  `CutStreamsStayOpen` adds that a stream that is not over has no closing
  event, and that the last frame is the only one when it is; `CallsAreToldOnce` that no slot
  of the assembler is left once the reason was given, so that the end of the body tells nothing again.  The
  indices of calls being two, the slots need no induction; the calls of one chunk are told by a
  recursive function, of which the proof unfolds the two steps.
* `AnswerProofs`, over the same streams, with `AnswerInv`, which relates four things after each chunk: `sent`, the
  `slots` of the assembler, the locals of the generator and the frames it has told.  Until the reason is given a
  slot holds the concatenation of the fragments of its call (`Complete`); from then on the assembler is empty and
  the calls are those that parsing the whole answer would give.  The totals noted (`NotesEnd`, `Agrees`) and the
  texts of the frames (`Tells`) are the concatenation of what the chunks said, piece by piece and in order.  For
  Anthropic the frames are put together block by block (`HoldsBlocks`): a delta extends the last block, or a new
  one begins, and either way the texts of one kind gain exactly that delta (`GainsPiece`).  `AnswerInvariant` is
  the induction; `CallsAreToldWhole` follows since a list of calls is told whole or not at all; and
  `StreamsAgreeWithWhole` since the closing events are a function of a state in which the invariant holds with
  the upstream ended (`Before`), for each of the six endpoints.  The usage noted is what `llama-server` counted,
  or none; a payload tells the counts of the whole answer (`PaidCounts`), and each stream the part of them that
  its closing events carry.  The theorem has the exceptions of the property and no other.
* These facts speak of flattened sequences of any length, and the induction theorems of the library cannot be
  instantiated.  They rest instead on `NatSet` of `StreamsProofs`, an induction over a *set* of naturals: a lemma
  about every length defines the set of the lengths for which it holds, and shows that it contains 0 and n + 1
  with n.  `FlattenedOneMore` and `PointwiseMore` (one element more appends its pieces) are all that the other
  proofs use.

* `RequestProofs!AnswersSurviveReplay`: `AnswerInv` gives what the client has put together; the parser of its facade
  and `serialize_messages` then give the message with the same text, reasoning and calls.  `parse_input` of
  Responses folds its items, and a fold of the library is a recursive function on the *sets* of positions, chosen
  by CHOOSE: `FoldingExists` and `FoldedMore` prove, again with `NatSet`, that one item more is one step more.  What
  is between two steps is `PendingTurn` (blocks and calls that wait) or `AtRest` (nothing waits).
* `RequestProofs!SameExchangesSameRequests`: an invariant of the clients, and then an argument about one
  conversation.  `ConversationInvariant` is what a client may have said: known kinds of turns, no two of the
  assistant in a row (otherwise Responses, which has no turns but items, would make one message of the two), and
  every result answers a call of the conversation (otherwise `link_tool_results` finds no name for it).  For each facade
  the messages parsed from the first `k` turns say these turns, or are a refusal where the facade cannot say one
  (`SaysFirst`), by induction over `k`.  For Ollama and OpenAI one turn is one message (`OllamaSays`,
  `OpenAISays`).  For Responses, `TakenSoFar`: what is pending, when flushed, says the turns taken.  For Anthropic,
  `SaidBy`: results and the text that comes with them share a message of the client, and `Mergeable` says that a message
  that ends in a result holds results only, so that what joins it becomes exactly one message behind theirs
  (`QuestionBehind`, `ResultBehind`).  `AllSaid` adds the names that `link_tool_results` finds (`NamesAgree`: an id
  is called by one name).  The texts, calls and results of a conversation are those of `Inference`; its
  length is arbitrary.

The proof changed the model in one place.  `OpenAIMessage` and `ResponsesMessage` had been written as a CASE whose guards
overlapped, a refused content and a role: TLC takes the first arm that is true, but the value of such a CASE is
not determined, and nothing could be proved of it.  The refusal now comes first, as the exception does in
`parse_content`.

Model-checked only:

* liveness (`EveryRequestEnds`, `KeepAliveEnforced`, `StopEnds`, `SpawnEnds`) and, of the
  refinement of `Residency`, that loads end: fairness is outside the prover;
* `CommandIsTheSupervisors`: the port becomes a token by `ToString`, of which the provers know nothing, and
  the filter of reserved flags is evaluated on the command lines of the instance;
* `SameSettingsSameParameters`, which quantifies over a fixed set of wishes and depends on no constant: TLC's
  evaluation is already complete.

Properties of the recursion of the scheduler's loop are avoided by its definition as a least prefix.

## 5. What is not modelled, and the plan

Left aside for good: names and durations (parsing of texts whose results are the constants and small
integers of the other modules), the memory probe and estimate (arithmetic on metadata, whose results
are `Estimate` and `Budget`), capabilities (an inspection of templates: `Settings` quantifies over its
results), `gguf.py` (a parser without state), configuration, error classes, logs, wiring and HTTP itself.
Within modelled components: the choice of a file in a repository, the listings, show, ps, embeddings,
`count_tokens`, tool definitions and their schemas, timings, derived metadata of a model, errors of
the disk, and an error that `llama-server` sends as an event inside a stream (`chat_stream` finds no
choice in it and goes on to the end of the stream: `Fail` is an error of the connection).

The composition of `Supervisor` and `Storage` with `Lifecycle` is by their interfaces and not by a product
of their states: `Lifecycle` takes the outcomes of `spawn` and `terminate` from `Supervisor`
(`EndedLeavesNothing` is why `SpawnFails` leaves no process, `SpawnEnds` why a load is fair) and the set of
incomplete models from `Storage`.

Next:

1. The filter of reserved flags for command lines of any length, with the lemmas on folds of `RequestProofs`.
2. What remains of the facades: listings, show, embeddings, `count_tokens`, and the schemas of the tools.
