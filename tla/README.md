# Verification of llama-cpp-pro

TLA+ models of the parts of llama-cpp-pro (a Capacitor plugin that embeds
llama.cpp) where several callbacks, threads or layers share state, the TLC runs
that check them, and TLAPS proofs of their safety properties. The paths below
are those of the repository; `PROJECT.json` maps each definition to its lines.

## 1. The system

llama-cpp-pro offers one JavaScript interface over three ways of running a model:

| Part | Files | State | Operations | Talks to |
|---|---|---|---|---|
| Sidecar manager | `desktop/src/main/sidecar-manager.cjs`, `ipc-handlers.cjs` | `childProcess`, `client`, `status`, `intentionalStop`, `accelStderr` | `start`, `stop`, 'exit' and stderr handlers, health poll | the sidecar process, the renderer by IPC |
| Native HTTP server | `cpp/cap-native-server.cpp`, `sidecar/cap-sidecar-main.cpp` | `ModelRegistry`, the listening thread | load, unload, limit, chat, completion, responses, embeddings, stop | the native bridge, its clients by HTTP and SSE |
| SSE streaming | `LiveSseState` of the same file | `pending`, `producer_done` | token callback, finish, consumer loop | the completion thread and the HTTP thread |
| Native bridge | `cpp/cap-ios-bridge.cpp`, `cpp/cap-embedding.cpp` | `g_contexts`, `g_next_id`, `g_mutex`, the embedding table | init, release, completion, tokenise, format, embed | llama.cpp |
| Completion engine | `cpp/cap-completion.cpp`, `cap-llama.cpp` | tokens, `n_past`, `n_remain`, flags | loadPrompt, nextToken, doCompletion | llama.cpp |
| Mobile plugins | `dist/esm/index.js`, `LlamaCpp.java`, `LlamaCpp.swift`, `jni.cpp`, `ModelAdmissionController` | `contextIdCounter`, `contexts`, native table | initLlama, release, releaseAll, completion, downloads | Capacitor, the native library |
| Web provider and worker | `dist/esm/isomorphic/provider.web.js`, `dist/workers/llm.worker.js` | `pending`, loaded set, scheduler; load memo, in-flight loads | loadModel, generate, stopGeneration; INIT, LOAD_MODEL, UNLOAD_MODEL | each other by messages, OPFS |
| OPFS store | `dist/esm/storage/*.js` | manifest file, model files | ensureModelInOpfs, removeModelFromOpfs | the browser's file system |
| Desktop provider | `dist/esm/isomorphic/provider.desktop.js`, `dist/esm/desktop.js` | cached port, limit, loaded set, scheduler | loadModel, unloadModel, setContextLimit, initContext, generate | the manager by IPC, the server by HTTP |
| Native provider | `dist/esm/isomorphic/provider.native.js` | `nextContextId`, `contextByModel`, scheduler | initialize, loadModel, unloadModel, generate | the mobile plugins |
| Backend selection | `backend-selector.cjs`, `gpu-probe.cjs` | none | detectBackend | the machine |

What is hard, and what makes each part correct:

* **Sidecar manager.** Every suspended `start()` and `stop()` resumes into one
  shared set of variables. Correct means: the restart budget is one for the
  whole manager, the fallback is final, `running` has a client behind it,
  nobody is stranded, live children are not forgotten, every call settles.
* **Native server.** Three mutexes nest; a model can be unloaded between the
  resolution of its id and its use; streams outlive their handlers. Correct
  means: registry and contexts agree, an inference runs on a live context of
  the model it named, the limit holds, stopping frees everything, no deadlock.
* **Streaming.** A queue between two threads, drained in batches, with a flag
  that is read early and used late. Correct means: the client receives a prefix
  of the stream in order, and all of it when the response is complete.
* **Mobile contexts.** Three numberings of the same thing, a page that may
  reload, two platforms. Correct means: a wrapper has a live context, a handle
  reaches its own, the cap on models is a cap.
* **Web provider and worker.** A worker terminated or failing under suspended
  calls, loads shared between requests, remembered failures. Correct means: no
  caller waits for an answer nobody will give, page and worker agree on what is
  loaded, a model the worker holds can be unloaded.
* **OPFS store.** A manifest read, changed and written back over awaits, by
  several calls and tabs; downloads that break off. Correct means: an entry has
  its whole file, and an entry is not lost.
* **Completion engine.** A KV cache shared by successive completions, four loops
  that drive it, a budget counter at machine width. Correct means: the engine
  knows what is cached, every token is streamed, completions end.
* **Desktop and native provider.** Each keeps a map of what another process or
  layer holds, tested before an await and set after it. Correct means: a name
  reaches its model, the map agrees with the holder, every call settles.

## 2. The modules

| Module | Models | Runs |
|---|---|---|
| `SidecarManager`, `MCSidecarManager` | the sidecar manager and its children | `sidecar_overlap`, `sidecar_restarts` |
| `SidecarManagerProofs` | proofs about it | |
| `TokenStream` | abstract: what a streamed completion promises | (refined by `SseStream`) |
| `SseStream` | the two threads of one SSE response | `sse_stream` |
| `ModelService` | abstract: what the server promises of its models | (refined by `NativeServer`) |
| `NativeServer` | server, bridge tables and locks | `native_server` |
| `NativeServerProofs` | proofs about it and about `SseStream`, both refinements among them | |
| `MobileContexts` | page, plugin and native table on Android and iOS | `mobile_contexts`, `mobile_hard_cap` |
| `MobileContextsProofs` | proofs about it | |
| `LlmWorker` | the WASM worker: INIT, loads, unloads, its memo | (extended by `WebProvider`) |
| `WebProvider` | the page over that worker | `web_llm` |
| `WebProviderProofs` | proofs about both | |
| `Completion` | the token loop and its four drivers | `completion`, `completion_stops` |
| `CompletionProofs` | proofs about it | |
| `OpfsStore` | model files and manifest | `opfs_store` |
| `OpfsStoreProofs` | proofs about it | |
| `DesktopProvider` | the page, the requests under way, the sidecar's registry | `desktop_provider` |
| `DesktopProviderProofs` | proofs about it | |
| `NativeProvider` | the page's names, over `MobileContexts` (`INSTANCE`) | `native_provider` |
| `NativeProviderProofs` | proofs about it, with those about `MobileContexts` | |

An operator named after an action with a suffix (`KilledNobody`,
`LoadBeginUnlocked`, ...) is a mutant: the same action with a plausible bug. No
specification uses it; replacing the action by it must violate the property
`PROJECT.json` names, which shows that the property depends on that code.

### SidecarManager

JavaScript is single-threaded, so an action is what runs between two awaits.
`mgr` holds the closure variables, `kid[c]` a child process together with the
`start()` call that spawned it (each child has exactly one). `kid[c].call` is
where that call is suspended: polling `/health`, with a positive answer on its
way, in the grace period of its own `stop()`, or settled. `Launch` is `start()`
from its first line to the await of the health poll, entered from outside
(`StartCall`), by the exit handler (`OnExit`) or after an unhealthy poll
(`AfterUnhealthy`). `StopCall`/`StopGraceOver` are the two halves of `stop()`.
A child boots, serves, and exits whenever it likes (`Boot`, `Exit`); its exit
event is handled later (`OnExit`). The signal flag follows Node: `killed` is
set when a signal was sent, which is why SIGKILL is never sent to a child that
got SIGTERM (line 328) and why a child spawned during the grace period is
signalled instead. Whether a child reacts to a signal is left open.

Abstracted: arguments, paths, environment and backend names; the text of
stderr (only whether it names a GPU failure); the number of polls (a timeout
may come at any time while no answer is on its way). The `before-quit` handler
is an ordinary `stop()`.

### SseStream and TokenStream

One response: the producer thread (`SilentToken`, `SendRole`, `SendToken`,
`StopGenerating`, `FailGenerating`, `FinishStream`) and the consumer
(`Swap`, `Write`, `WriteFails`, `BatchWritten`), each action one critical
section of `LiveSseState::mu` or one write. `TokenStream` knows neither threads
nor batches; the refinement maps its `produced` to everything written, in the
batch or in the queue, and `received` to what was written. Abstracted: JSON
text; the loop's reasons to stop.

### NativeServer and ModelService

Each request is a thread with a program counter. An action is one critical
section; a load, an unload and an inference hold their mutex over several
actions (`registryMu`, `gMutex`). `LoadInsert` and `UnloadRelease` are the
points where `g_mutex` is taken inside the registry's. A chat is formatted
first, `/v1/responses` as a stream tokenises its finished text afterwards
(`Chunk`), an embedding asks for its size under `g_mutex` and then works without
a lock (`EmbedLookup`, `EmbedNext`). `Abandon` is the handler of a stream that
returns before its producer: a write fails, or, the client gone or the server
stopping, httplib's content loop returns before it ever asks for a line. The
producer is a detached thread started before that, so it is left behind wherever
it is, waiting for `g_mutex` or generating; `cap_llama_server_stop` joins the
handler and not the producer, which can therefore begin a generation on a
context that `registry_release_all` has not come to yet.

The server starts empty or with the model it was given; since it listens before
it loads that model, requests that overtake the load are those to an empty
server of which one loads it.

`ModelService` is the server without threads, mutexes, tables and ids: a model
enters memory in one step, for a request that names it and within the limit; it
leaves in one step, never under a generation; generations come one at a time,
each with the model that was named. A client may leave (`Leave`), and once the
service closes, only requests of clients that left still begin to generate, on
models not yet released; when it is closed there are none. The refinement maps
`held` to the models that have a context, `uses` to the context of the request
that is `inferring`, `left` to `abandoned` and `phase` to `server`. A load takes effect at `LoadInsert`, an unload at
`UnloadRelease`, both while the request holds both mutexes; what comes before and
after them is invisible. Embeddings are no part of the service: they use their
context without a lock, so that no such promise can be made for them.

Abstracted: what a failing boot load does to the process;
`registry_release_all` releases its entries one by one (in the code the map is
cleared after the loop, under the same mutex, so nobody sees the difference);
requests that touch no shared state; the registry's `paths`, which change with
its `models`.

### MobileContexts

`calls` is Capacitor's queue of plugin calls, in the page's order; an action of
the plugin is a whole call, since init and release run synchronously on the
plugin's queue. `handles` are the `LlamaContext` objects of the current page.
`Reload` starts the page's module afresh (`contextIdCounter` is 0 again) while
plugin and library keep their tables. `InitContextRejected` is every way an
init fails: slots, memory, native load. On Android an exception thrown after
the wrapper was put in fails the call and keeps the wrapper, which is part of
`InitContext`. The two platforms differ in `ReleaseAllContexts`.

Abstracted: the delivery of a result to the page happens with the call;
`setContextLimit` (its value is never consulted); a plugin instance created
anew by the operating system.

### LlmWorker and WebProvider

The worker handles a message up to its first await. Two things suspend a
handler: instantiating the engine and reading a model from OPFS; the rest is
one action. `wk` holds the worker's sets and memo (`loadedModels`,
`modelLoadOutcomes`, the loads in flight with their waiters) and the models the
engine's tables list. `HandleUnload` may fail: the engine's `unload_model` clears
its tables, then calls into WASM, and when that throws the worker answers ERROR
and keeps the model in `loadedModels`; the history `torn` names such models until
they are loaded or unloaded again. The page's `call[c]` is an async function suspended at the manifest, the
memory request, a load, an unload or a generation; `pending` are the requests
without an answer. `StopGeneration` terminates the worker, rejects everything
pending and forgets what is loaded; the next request makes a new, uninitialized
worker. `OnError` is the worker's error event: its script did not load, or an
uncaught error of one that runs on.

Facts the model shows and no property forbids: the failure memo of a model is
kept until `stopGeneration`, a retry included; a call suspended across a stop
can mark a model loaded in a page whose new worker does not have it (the
comment at provider.web.js:542 notwithstanding); after a stop `loadModel` fails
until `initialize`; a worker whose script failed stays in `worker` and answers
nobody (`CallsSettle` excepts it). Admission on the page is tested before the
load is awaited, so overlapping loads overtake it; the engine's own slots then
make the load fail. After a failed unload the worker still answers a load of the
model from its set, though the engine no longer lists it. Abstracted: tokens and progress events, the second
instantiation of the wasm module by overlapping INITs, memory sizes (a free
refusal), request types that change no load state.

### Completion

A token is what its bytes do to the end of the text: complete, the beginning of
a character, a stop word or the end of generation; the sampler may choose any.
`c` holds the fields of the engine, `kv` the tokens in the cache, `run` the
completion under way and its driver. `Prefill` is `loadPrompt` with truncation
and the reuse of the common prefix, `NextToken` one decode of a batch and the
sampling after the last, `AfterToken` the end of `doCompletion` and of each
driver's loop body. `n_remain` counts modulo `Wrap`, as a `size_t` does.
`Interrupt` is `llama_stop_completion`: it waits for the mutex that all drivers
but `llama_run_completion` hold throughout, and on Android does nothing.

Facts the model shows and no property forbids: through `llama_run_completion` a
context that is full within a character is never left (the comment at
cap-completion.cpp:306 says it is), except by an interrupt; with `n_predict` -1
the other drivers generate nothing, although definitions.d.ts:143 calls it
infinity; an end-of-generation token within a character extends the budget; the
last token at the limit is not streamed; an interrupt that comes before the
next rewind is forgotten; the retry on WASM runs twice when one token was asked
for. Abstracted: sampling, text, `n_keep` (0), empty prompts, multimodal
prompts, guide tokens, grammars, probabilities; what `llama_run_completion`
shares with other threads while it runs outside the mutex.

### OpfsStore

`file[p]` is what lies at a path: nothing, a part, or the whole file of an id;
ids that `sanitizeModelId` maps to one name share a path. A call is suspended
at each of its awaits; the manifest it read is in `seen`. `Vanish` takes a call
away anywhere (a closed tab, a terminated worker). The histories `alone`,
`broken`, `torn`, `removals` and `kept` name the circumstances in which the code
keeps its promises: overlapping downloads lose entries, an aborted download
commits partial data even over a whole file, and a stale upsert brings back a
removed entry.

### DesktopProvider

A port stands for the sidecar that listens on it, and several sidecars may live
at a time: `desktop-llama:ensure` starts another for every call that comes before
the first one's health answer sets `running` (ipc-handlers.cjs:117-120), and
`setSidecarPort` follows the answer that comes last. When one is started is
`SidecarManager`'s matter; here sidecars come to listen (`Listen`), load the model
they were started with, if any (`Boot`), and end (`Die`) at any time, and the bridge
may name any of them, one that does not listen yet, or no longer, included. The
page's calls are suspended at the bridge, the memory snapshot, or a request;
requests are on the `wire`, each to the port the page had when it was sent; they
are served in any order, by sidecars the page has moved from too, are lost when
nobody listens on their port, or outlive the page's timer, after which their
effect still comes. `blurred` are the models something went wrong with since a
call made alone was last answered by the page's sidecar: overlapping calls, a
timer, a lost request, the death of that sidecar, and the page's move to another,
which blurs all of them, since the page keeps one set of loaded models for
whatever sidecar it knows. `QuietNamesAgree` speaks of all other models.

Facts the model shows and no property forbids: after an automatic restart the
cached port is refreshed only by `initContext` and `startNativeLlamaServer`; the
loaded set outlives the sidecar, so `loadModel` returns early; a limit set
before there is a sidecar never reaches one; limits may be processed in reverse;
after overlapping starts the page moves to the sidecar named last and takes the
models of the other for loaded there.
Abstracted: when the main process starts a sidecar (`SidecarManager`), the chance
that two random ports are the same, the cut of a path to its last segment (two
files of one name are one model throughout), the WASM fallback, an injected port,
`generate` and `embed`, which keep nothing (and use the id uncut).

### NativeProvider

The provider's context numbers are those of the plugin: the module instantiates
`MobileContexts` with `nextContextId` in the place of `contextIdCounter`, and
each of its actions that reaches the plugin is that module's action. A task is
a suspended call; `initialize` awaits `setContextLimit` first, which admits and
refuses nothing. The answer of the plugin settles the first task that awaits
that number. A load of a model that is being loaded makes a second context, and
the name stands for the one that came last: `StraysAreDoubled` says that this is
the only way for this page to lose one. `generate`, `generateStream` and `embed`
only look a name up.

## 3. The runs

| Run | Bounds | Shows |
|---|---|---|
| `sidecar_overlap` | two outside starts, one stop, two ports, no restart | `ClientBehindRunning`, `NothingStranded`, `OrphansOnlyByOverwrite` with overlapping starts, colliding ports, a CPU retry and a stop anywhere (about a million states) |
| `sidecar_restarts` | one start, one stop, two restarts | `SpawnBudget`, `FallbackIsFinal`, and the liveness property `StartsSettle` over four children in a row |
| `sse_stream` | up to five tokens | order, the refinement (nothing lost, no early end), and that every response ends |
| `native_server` | three requests, two models, limits 1 and 2, three contexts, with and without a boot model | the safety properties, the refinement of `ModelService`, freedom from deadlock, and that every request is answered and stop completes (about 640,000 states) |
| `mobile_contexts` | three numbers, five native contexts, two calls under way, one reload, cap 2 | wrappers, handles, leaks and the cap on iOS |
| `mobile_hard_cap` | three numbers, one call under way, no reload | a counterexample to the documented cap, see section 6 |
| `web_llm` | two models, one slot, three calls, any number of stops and error events | no caller waits for nobody, agreement of page, worker and engine after calm use, nothing in worker or engine forgotten, every call settles, with loads and unloads that fail (about a million states) |
| `completion` | context of four, batches of two, prompts up to five, budgets from -1 to three, `n_remain` modulo four, two completions | what is believed of the cache is in it, tokens are streamed, completions end, interrupts end them |
| `completion_stops` | the same with prompts up to three, budgets up to two | a counterexample to the documented stop words, see section 6 |
| `opfs_store` | four calls, three ids, two of them colliding | entries have their whole files and stay, but for the named exceptions |
| `desktop_provider` | two models, two slots, three calls, two sidecars, started with nothing or with one of the models (`Boots`), limits set to one (`Limits`) | agreement of the page and its sidecar on undisturbed models, with another sidecar alive and the page moving between them, and that every call ends (about two million states) |
| `native_provider` | two models, two slots, four calls, one reload, two plugin calls under way | names reach their model, contexts are lost only to overlapping loads, every call settles |

Why the bounds suffice: two starts are the least that overlap, and the CPU
retry adds a third child whose exit meets both; two restarts distinguish "at the
limit" from "below" twice. Five tokens are more than one batch before, during
and after a swap. Three requests and the shutdown are an
inference that blocks an unload that blocks a load: a chain over all mutexes, and with a
model loaded at the start an inference on a model unloaded and another loaded since; two models with a
limit of one or two make every outcome of the limit; the proofs cover any
number of requests. Three numbers and one
reload make every overwriting of a wrapper. Ports are interchangeable
and reduced by symmetry in `sidecar_overlap`, which checks no liveness. Three
calls of the web provider are a load, one that overlaps it and one that finds
what they left; more models than slots make the engine refuse. A context of four
with prompts of up to five has truncation, a shift within the prompt's tokens and
one after them, and batches that end before, at and after the last token; a
counter of two bits wraps within a run. Two of three ids share a path and the
third does not; four calls are two that overlap, one before and one after. Two
sidecars are one the page knows and one it came from or moves to, alive or dead,
with requests under way to both; the models are alike but for the one that
sidecars are started with, and the default limit and a lower one are what the
admission and the slots can tell apart. Four
calls of the native provider are two loads that overlap, across a reload or
not, and an unload with a load behind it.

Deadlock is checked for `native_server`, whose only final state is an explicit
step (`Terminated`). The manager, a single response and the bounded pages, stores
and completions come to rest by design, so their runs say `CHECK_DEADLOCK FALSE`.

Fairness:

* *SidecarManager*: weak fairness of the event loop (exit handlers, answers that
  have arrived, timers, the bounded poll). None of children or callers: a child
  may hang for ever, and `StartsSettle` holds all the same.
* *SseStream*: both threads are scheduled, and the token loop is bounded by
  `n_predict`. No write has to succeed.
* *NativeServer*: every request's next step and the shutdown are weakly fair; a
  behaviour has finitely many requests, so that a mutex is not contended for
  ever. Strong fairness of `EmbedEnd` says that an embedding request has
  finitely many inputs; the loop over them is left unbounded in the model.
* *WebProvider*: the page's tasks and the worker's run; OPFS and the network
  answer, with whatever answer. Nobody has to call anything.
* *Completion*: a completion that was called keeps running. The loop ends by its
  own counters; `CompletionsEnd` excepts `llama_run_completion`.
* *DesktopProvider*: as long as some call can go on, one does: timers run out and
  the main process answers (which is `StartsSettle` of `SidecarManager`). Which one
  is not said, and need not be, a page's calls being finite in number. The
  sidecars need not do anything.
* *NativeProvider*: the page's tasks and the plugin's queue go on.

## 4. The proofs

All theorems hold for every value of the constants that satisfies the named
assumptions of the modules (bounds are naturals, the "none" values are not ids,
`Models` is finite where cardinalities are compared).

* **SidecarManagerProofs.** `IInv` strengthens `TypeOK` by what ties a child to
  the manager: children are spawned in order, each call in progress belongs to
  a spawned child, `childProcess` is a spawned child. The budget needs that a
  retry by a child whose `retry` is off never happens and that `forceCpu` is
  set once, so that `spawned`, `restartCount` and `ensures` grow together.
  `NothingStranded` needs to know who is still responsible for a manager that
  is neither running nor fallen back: a call that polls, an exit event, or a
  stop. The action properties follow from the same invariants.
* **NativeServerProofs, the stream.** Three regions, `sent`, `batch` and
  `pending`, form one sequence; the invariant gives the rank of its last line from
  the producer's state, and says that once `done` was read nothing can be enqueued any more.
  `Refinement` maps each step to a step of `TokenStream` or a stutter.
* **NativeServerProofs, the server.** `IInv` says which request holds which mutex
  at which program counter (`Locks`), that ids in use are below `g_next_id` (`Ids`, so an
  id never comes back for another model), that registry, contexts and embedding
  table agree up to the one request inside the registry's mutex (`Tables`,
  `Working`), and that an inference pins its context (`Inferring`).
  `StopReleasesAll` needs `Quiet`: while contexts are being released no handler
  is left but abandoned streams, which wait for `g_mutex` or hold it.
  `LoadsWithinLimit` needs `Room`: the loader found a free slot and nobody else
  can take it.
  `ServiceRefinement` rests on `HeldIsLoaded`: at the moment a load or an unload
  takes effect the registry lists exactly the models in memory, although
  at other moments it does not, so that the test of the limit made when the
  request took the registry's mutex is still true of what is in memory when the
  context is inserted. `Quiet` is what lets only the abandoned begin a generation
  once the server is closing. Of the remaining steps each is shown to change nothing the service
  has (`Unseen`).
* **MobileContextsProofs.** Handles reach their own context because the queue
  is ordered by page (`Pages`): a page that has a handle has outlived all calls
  of earlier pages. Within the first page numbers are fresh (`Fresh`), so no
  wrapper is overwritten; from this follow the theorem on leaks and, counting
  wrappers with `FiniteSetTheorems`, the cap on iOS (`Counted`).

* **OpfsStoreProofs.** `EntriesWereWhole` needs that also the stale copies of the
  manifest that suspended calls hold, and the downloads under way, are of models
  stored whole. `EntriesBacked` is proved for its two circumstances apart: with
  calls one at a time the invariant says how far the only active call has got;
  with nothing broken or removed, that a path is only ever written whole.
* **CompletionProofs.** `Known` says that the cache is a prefix of the text of
  length `n_past` and that on WASM the context is never full and at most one
  token is not cached when the loop goes on; `Counts` ties the budget to the
  tokens streamed: nothing has stopped and the budget is not spent while a
  streaming driver goes on. `CacheKnown` and `Streamed` follow.
* **NativeProviderProofs.** `UsesThePlugin` maps the provider to `MobileContexts`
  with the page's `nextContextId` as its counter, so that the lemmas of
  `MobileContextsProofs` are taken over through an `INSTANCE`. `Queue` says that a
  position in the plugin's queue can be given to each suspended call so that
  each call of this page has its own (`Matches`): the answer at the head then
  settles exactly the task that asked for it. `Overlaps` says where two contexts
  of one model can meet: at two loads under way, at a load of a loaded model, at an unload
  of a context that is not the named one, and, by the third part of `Matches`, at
  an unload that is served after a load; all of them are in `doubled`.
* **WebProviderProofs.** `NothingLost` needs that a pending request is what its own
  call waits for (`PendingOwn`) and that it is in one place only (`TrackedPending`):
  in the worker's inbox, with a suspended handler, among the waiters of one load, or
  answered and on its way. After an error event that is still true of loads and
  unloads in calm use, which is what `CalmAgreement` needs.
  `NothingForgotten` follows from `KnownOrTold`: a model in the worker's slots is
  in the page's set, or the answer to its load is on its way or being
  worked on. The danger is an unload of it answered before: its answer comes
  first (`UnloadsFirst`), so that the page forgets the model and is told of it
  afterwards, never the reverse. `CalmSteps` follows a call made alone from its
  first step to its last, with what page and worker have in common at each, an
  unload that is torn between worker and engine included.
* **DesktopProviderProofs.** `Requests` says that a request is the one its suspended
  call waits for, or was given up, and went to some sidecar; `Ports`, that before
  the page knows a sidecar it has sent and learnt nothing, and none holds more than
  it was started with, so that the first port it is told needs no correction.
  `Sound(m)` is kept
  for every model by itself: as long as a call for it is `Alone` it has the only
  request, whose answer is true while the sidecar that gave it lives (`Truthful`); of
  a model that is not blurred, one call at most is under way and its request is to
  the page's sidecar (`Clear`), and the two agree until
  its request is served (`Settled`). A model stops being blurred only by the
  answer to a call that was alone all the time. `Elsewhere` says once that a step
  that does not concern a model keeps its `Sound(m)`, so that the proof of
  each action is about the model it names. `Models` is assumed finite and not empty:
  the sidecar's slots count models, and a change of the limit names none, so that its
  request carries an arbitrary one.

The type invariants of `SidecarManager`, `SseStream`, `NativeServer`,
`MobileContexts` and `OpfsStore` are proved and therefore not checked again by
the runs, nor is `CompleteMeansAll`.

Every safety property and both refinements of the runs that pass are proved.
Only model-checked are the liveness properties (`StartsSettle`, `StreamEnds`,
`RequestsAnswered`, `CallsSettle` twice, `CompletionsEnd`, `InterruptEnds`,
`CallsEnd`), since liveness under fairness is out of the prover's reach, and
deadlock freedom of the server.

## 5. What is not modelled

`PROJECT.json` lists every component with its status. Vendored code (llama.cpp,
ggml, httplib, minja), sampling, TTS and multimodal pipelines are numeric and
third-party. IPC handlers that only read, HTTP parsing, CORS, file listing and
packaging keep no state that a property here depends on.
Backend selection is a pure decision table. The share of all lines that is
modelled is small because most of the repository is vendored (`ggml`,
`miniaudio.h`, `json.hpp`, `llama-model.cpp`, generated unicode tables); of the
repository's own stateful code, the parts above are left.

Behaviour the models contain and no property forbids, because nothing in the
repository promises otherwise: a child that ignores SIGTERM survives `stop()`;
two overlapping starts leave the first child behind; an embedding uses its
context without a lock; `/health` waits behind an unload that waits for a
generation.

## 6. Findings

* `mobile_hard_cap`: both admission controllers describe "a hard cap on
  concurrent loaded models". On Android `releaseAllContexts` clears the
  plugin's map without releasing the native contexts; the count restarts at
  zero while the models stay in memory, and the cap is exceeded by the next
  load. iOS releases them; there the cap is proved until the page reloads.
* `completion_stops`: definitions.d.ts:136-139 promises of `stop` that "These
  words will not be included in the completion". `llama_run_completion` sets
  the caller's words and then calls `rewind()`, which clears them; so does
  Android's `completionNative` (jni.cpp:751 and 891), whose loop of `nextToken`
  would not look at them either. The run finds a completion that
  has produced a stop word and asks for another token.

## 7. Plan

1. The delivery of token events on mobile: listeners of two streams on one
   context hear each other's tokens.
2. Pure algorithms as functions against reference definitions: the SSE parser
   over arbitrary chunking, the UTF-8 boundary.
3. An abstract service for the pages (`WebProvider`, `DesktopProvider`), if one
   can be stated that their known disagreements do not make trivial.
