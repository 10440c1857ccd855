---------------------------- MODULE NativeServer ----------------------------
(***************************************************************************)
(* The HTTP server of the sidecar (cpp/cap-native-server.cpp) over the     *)
(* context table of the native bridge (cpp/cap-ios-bridge.cpp) and the     *)
(* table of the embedding code (cpp/cap-embedding.cpp).                    *)
(*                                                                         *)
(* Every request runs on a thread of its own.  Three mutexes are involved: *)
(* the registry's, held across a whole model load or release; g_mutex,     *)
(* held across a whole inference; and the embedding table's, held for one  *)
(* lookup.  A release takes all of them, one inside the other, and a model *)
(* can be unloaded between the moment a request resolved its context id    *)
(* and the moment it gets to use it.                                       *)
(*                                                                         *)
(* An action is one critical section, or the part of a long one up to the  *)
(* next lock it takes.  Writing to sockets is in SseStream.                *)
(***************************************************************************)
EXTENDS Naturals, FiniteSets

CONSTANTS
  Requests,     (* The requests (threads) of a behaviour.                  *)
  Models,       (* Model ids.                                              *)
  AnyModel,     (* A request that names no model.                          *)
  Limits,       (* The limits a client sets, and the initial maximum,      *)
  MaxModels,    (*   kMaxConcurrentModels.                                 *)
  MaxContexts,  (* Bounds the contexts ever created.                       *)
  NoCtx, NoModel,
  NoOne,        (* A mutex nobody holds,                                   *)
  Main          (*   and the thread that calls cap_llama_server_stop.      *)

ASSUME MaxAssumption == MaxModels \in Nat /\ Limits \subseteq 1 .. MaxModels
ASSUME ModelsAssumption == IsFiniteSet(Models)
ASSUME ContextsAssumption == MaxContexts \in Nat \ {0}
ASSUME NoCtxAssumption == NoCtx \notin Nat
ASSUME NoModelAssumption == NoModel \notin Models /\ AnyModel \notin Models
ASSUME ThreadsAssumption == {NoOne, Main} \cap Requests = {} /\ NoOne # Main

VARIABLES
  registry,     (* ModelRegistry::models: context id per model id.         *)
  maxModels,    (* ModelRegistry::max_models.                              *)
  registryMu,   (* Who holds the registry's mutex over several steps.      *)
  context,      (* The bridge's g_contexts: the model of each live id.     *)
  nextId,       (* g_next_id.                                              *)
  gMutex,       (* Who holds g_mutex over several steps.                   *)
  embedTable,   (* Ids registered with the embedding code.                 *)
  pc,           (* Per request: where it is.                               *)
  model,        (* Per request: the model it names.                        *)
  ctx,          (* Per request: the context id it resolved or creates.     *)
  abandoned,    (* The streams whose handler is gone and whose producer    *)
                (*   thread may not be.                                    *)
  server        (* up, stopping (no new requests), releasing, stopped.     *)

tables == <<registry, maxModels, context, nextId, embedTable>>
vars == <<registry, maxModels, registryMu, context, nextId, gMutex,
          embedTable, pc, model, ctx, abandoned, server>>
control == <<abandoned, server>>

CtxId == 1 .. MaxContexts

TypeOK ==
  /\ registry \in [Models -> CtxId \cup {NoCtx}]
  /\ maxModels \in Limits \cup {MaxModels}
  /\ registryMu \in Requests \cup {NoOne, Main}
  /\ context \in [CtxId -> Models \cup {NoModel}]
  /\ nextId \in Nat
  /\ gMutex \in Requests \cup {NoOne}
  /\ embedTable \subseteq CtxId
  /\ pc \in [Requests ->
       {"idle", "load", "loading", "registering", "unload", "releasing",
        "report", "limit", "infer", "format", "queued", "inferring",
        "chunking", "embed", "sizing", "lookup", "embedding", "done"}]
  /\ model \in [Requests -> Models \cup {AnyModel}]
  /\ ctx \in [Requests -> CtxId \cup {NoCtx}]
  /\ abandoned \subseteq Requests
  /\ server \in {"up", "stopping", "releasing", "stopped"}

(* The server without a model, or once it has loaded the model it was      *)
(* started with: cap_llama_server_start listens first, so that requests    *)
(* may also overtake that load, as they do any other.                      *)
Init ==
  /\ \E boot \in Models \cup {NoModel} :
       /\ registry = [m \in Models |-> IF m = boot THEN 1 ELSE NoCtx]
       /\ context = [c \in CtxId |-> IF c = 1 THEN boot ELSE NoModel]
       /\ nextId = IF boot = NoModel THEN 1 ELSE 2
       /\ embedTable = IF boot = NoModel THEN {} ELSE {1}
  /\ maxModels = MaxModels
  /\ registryMu = NoOne
  /\ gMutex = NoOne
  /\ pc = [r \in Requests |-> "idle"]
  /\ model = [r \in Requests |-> AnyModel]
  /\ ctx = [r \in Requests |-> NoCtx]
  /\ abandoned = {}
  /\ server = "up"

Loaded == {m \in Models : registry[m] # NoCtx}
Live(c) == c # NoCtx /\ context[c] # NoModel

GoTo(r, l) == pc' = [pc EXCEPT ![r] = l]
RegistryFree == registryMu = NoOne
GFree == gMutex = NoOne

-----------------------------------------------------------------------------
(* A request arrives and is routed to its handler.                         *)

Arrive(r, op, m) ==
  /\ server = "up"
  /\ pc[r] = "idle"
  /\ op \in {"load", "unload"} => m # AnyModel
  /\ GoTo(r, op)
  /\ model' = [model EXCEPT ![r] = m]
  /\ UNCHANGED <<tables, registryMu, gMutex, ctx, control>>

-----------------------------------------------------------------------------
(* POST /v1/internal/models/load: registry_load_model holds the registry's *)
(* mutex from the tests to the insertion, over the whole load.             *)

LoadAnswered(r) ==
  /\ pc[r] = "load" /\ RegistryFree
  /\ \/ /\ model[r] \in Loaded
        /\ GoTo(r, "report")
     \/ /\ model[r] \notin Loaded
        /\ Cardinality(Loaded) >= maxModels
        /\ GoTo(r, "done")
  /\ UNCHANGED <<tables, registryMu, gMutex, model, ctx, control>>

(* Mutant: the mutex is released for the load, check-then-act.             *)
LoadBeginUnlocked(r) ==
  /\ pc[r] = "load" /\ RegistryFree
  /\ model[r] \notin Loaded
  /\ Cardinality(Loaded) < maxModels
  /\ GoTo(r, "loading")
  /\ UNCHANGED <<tables, registryMu, gMutex, model, ctx, control>>

(* Mutant: a model that is already loaded is loaded over the old entry.    *)
LoadBeginAgain(r) ==
  /\ pc[r] = "load" /\ RegistryFree
  /\ Cardinality(Loaded) < maxModels
  /\ registryMu' = r
  /\ GoTo(r, "loading")
  /\ UNCHANGED <<tables, gMutex, model, ctx, control>>

LoadBegin(r) ==
  /\ pc[r] = "load" /\ RegistryFree
  /\ model[r] \notin Loaded
  /\ Cardinality(Loaded) < maxModels
  /\ registryMu' = r
  /\ GoTo(r, "loading")
  /\ UNCHANGED <<tables, gMutex, model, ctx, control>>

LoadFails(r) ==
  /\ pc[r] = "loading"
  /\ registryMu' = NoOne
  /\ GoTo(r, "done")
  /\ UNCHANGED <<tables, gMutex, model, ctx, control>>

(* Mutant: the first free id is taken, so that ids are used again.         *)
LoadInsertReused(r) ==
  /\ pc[r] = "loading" /\ GFree
  /\ nextId <= MaxContexts
  /\ LET c == CHOOSE c \in CtxId : ~Live(c) /\ \A d \in CtxId : d < c => Live(d)
     IN  /\ ctx' = [ctx EXCEPT ![r] = c]
         /\ context' = [context EXCEPT ![c] = model[r]]
  /\ nextId' = nextId + 1
  /\ GoTo(r, "registering")
  /\ UNCHANGED <<registry, maxModels, registryMu, gMutex, embedTable, model, control>>

(* llama_init_context takes an id and inserts the context under g_mutex.   *)
LoadInsert(r) ==
  /\ pc[r] = "loading" /\ GFree
  /\ nextId <= MaxContexts
  /\ ctx' = [ctx EXCEPT ![r] = nextId]
  /\ context' = [context EXCEPT ![nextId] = model[r]]
  /\ nextId' = nextId + 1
  /\ GoTo(r, "registering")
  /\ UNCHANGED <<registry, maxModels, registryMu, gMutex, embedTable, model, control>>

(* The embedding table, the registry, and the registry's mutex released.   *)
LoadPublish(r) ==
  /\ pc[r] = "registering"
  /\ embedTable' = embedTable \cup {ctx[r]}
  /\ registry' = [registry EXCEPT ![model[r]] = ctx[r]]
  /\ registryMu' = NoOne
  /\ GoTo(r, "report")
  /\ UNCHANGED <<maxModels, context, nextId, gMutex, model, ctx, control>>

-----------------------------------------------------------------------------
(* DELETE /v1/internal/models/:id: registry_unload_model waits for g_mutex *)
(* while it holds the registry's.                                          *)

UnloadMissing(r) ==
  /\ pc[r] = "unload" /\ RegistryFree
  /\ model[r] \notin Loaded
  /\ GoTo(r, "done")
  /\ UNCHANGED <<tables, registryMu, gMutex, model, ctx, control>>

(* Mutant: cap_embedding_unregister_context is not called.                 *)
UnloadBeginRegistered(r) ==
  /\ pc[r] = "unload" /\ RegistryFree
  /\ model[r] \in Loaded
  /\ registryMu' = r
  /\ ctx' = [ctx EXCEPT ![r] = registry[model[r]]]
  /\ GoTo(r, "releasing")
  /\ UNCHANGED <<registry, maxModels, context, nextId, gMutex, embedTable, model, control>>

UnloadBegin(r) ==
  /\ pc[r] = "unload" /\ RegistryFree
  /\ model[r] \in Loaded
  /\ registryMu' = r
  /\ ctx' = [ctx EXCEPT ![r] = registry[model[r]]]
  /\ embedTable' = embedTable \ {registry[model[r]]}
  /\ GoTo(r, "releasing")
  /\ UNCHANGED <<registry, maxModels, context, nextId, gMutex, model, control>>

(* Mutant: the context is destroyed without g_mutex.                       *)
UnloadReleaseUnlocked(r) ==
  /\ pc[r] = "releasing"
  /\ context' = [context EXCEPT ![ctx[r]] = NoModel]
  /\ registry' = [registry EXCEPT ![model[r]] = NoCtx]
  /\ registryMu' = NoOne
  /\ GoTo(r, "report")
  /\ UNCHANGED <<maxModels, nextId, gMutex, embedTable, model, ctx, control>>

UnloadRelease(r) ==
  /\ pc[r] = "releasing" /\ GFree
  /\ context' = [context EXCEPT ![ctx[r]] = NoModel]
  /\ registry' = [registry EXCEPT ![model[r]] = NoCtx]
  /\ registryMu' = NoOne
  /\ GoTo(r, "report")
  /\ UNCHANGED <<maxModels, nextId, gMutex, embedTable, model, ctx, control>>

(* registry_status_json: /health, /v1/internal/memory, and the end of a    *)
(* load or an unload.  It needs the registry's mutex like everybody else.  *)
Report(r) ==
  /\ pc[r] = "report" /\ RegistryFree
  /\ GoTo(r, "done")
  /\ UNCHANGED <<tables, registryMu, gMutex, model, ctx, control>>

(* POST /v1/internal/context-limit (clamped to 1 .. kMaxConcurrentModels). *)
SetLimit(r, n) ==
  /\ pc[r] = "limit" /\ RegistryFree
  /\ maxModels' = n
  /\ GoTo(r, "done")
  /\ UNCHANGED <<registry, context, nextId, embedTable, registryMu, gMutex,
                 model, ctx, control>>

-----------------------------------------------------------------------------
(* Requests that use a model: registry_require_ctx first.                  *)

(* registry_resolve_ctx: the named model, or the only one if none is named *)
Resolved(m) ==
  IF m # AnyModel THEN registry[m]
  ELSE IF Cardinality(Loaded) = 1 THEN registry[CHOOSE x \in Models : x \in Loaded]
  ELSE NoCtx

Resolve(r) ==
  /\ pc[r] \in {"infer", "embed"} /\ RegistryFree
  /\ ctx' = [ctx EXCEPT ![r] = Resolved(model[r])]
  /\ \/ /\ Resolved(model[r]) = NoCtx
        /\ GoTo(r, "done")
     \/ /\ Resolved(model[r]) # NoCtx
        /\ IF pc[r] = "embed" THEN GoTo(r, "sizing")
           ELSE \E l \in {"format", "queued"} : GoTo(r, l)
  /\ UNCHANGED <<tables, registryMu, gMutex, model, control>>

(* A chat is formatted with the context's template, under g_mutex.         *)
FormatChat(r) ==
  /\ pc[r] = "format" /\ GFree
  /\ GoTo(r, IF Live(ctx[r]) THEN "queued" ELSE "done")
  /\ UNCHANGED <<tables, registryMu, gMutex, model, ctx, control>>

(* llama_completion and llama_completion_stream hold g_mutex throughout.   *)
InferInvalid(r) ==
  /\ pc[r] = "queued" /\ GFree
  /\ ~Live(ctx[r])
  /\ GoTo(r, "done")
  /\ UNCHANGED <<tables, registryMu, gMutex, model, ctx, control>>

InferBegin(r) ==
  /\ pc[r] = "queued" /\ GFree
  /\ Live(ctx[r])
  /\ gMutex' = r
  /\ GoTo(r, "inferring")
  /\ UNCHANGED <<tables, registryMu, model, ctx, control>>

InferEndLocked(r) ==                        \* mutant: g_mutex is not released
  /\ pc[r] = "inferring"
  /\ GoTo(r, "done")
  /\ UNCHANGED <<tables, registryMu, gMutex, model, ctx, control>>

InferEnd(r) ==
  /\ pc[r] = "inferring"
  /\ gMutex' = NoOne
  /\ \/ GoTo(r, "done")
     \/ r \notin abandoned /\ GoTo(r, "chunking")
  /\ UNCHANGED <<tables, registryMu, model, ctx, control>>

(* A streamed /v1/responses splits its finished text into tokens with the  *)
(* context it used, if that still exists: g_mutex once more.               *)
Chunk(r) ==
  /\ pc[r] = "chunking" /\ GFree
  /\ GoTo(r, "done")
  /\ UNCHANGED <<tables, registryMu, gMutex, model, ctx, control>>

(* The handler of a stream returns before its producer, a thread of its    *)
(* own that it has started: a write to the client fails, or nothing is     *)
(* ever written, the client having left or the server being stopped.  The  *)
(* producer goes on, whether it generates or still waits for g_mutex.      *)
Abandon(r) ==
  /\ pc[r] \in {"queued", "inferring"}
  /\ abandoned' = abandoned \cup {r}
  /\ UNCHANGED <<tables, registryMu, gMutex, pc, model, ctx, server>>

(* An embedding asks for its size under g_mutex, looks its context up in   *)
(* the other table, and then uses it under no lock at all.                 *)
EmbedSize(r) ==
  /\ pc[r] = "sizing" /\ GFree
  /\ GoTo(r, IF Live(ctx[r]) THEN "lookup" ELSE "done")
  /\ UNCHANGED <<tables, registryMu, gMutex, model, ctx, control>>

EmbedLookup(r) ==
  /\ pc[r] = "lookup"
  /\ GoTo(r, IF ctx[r] \in embedTable THEN "embedding" ELSE "done")
  /\ UNCHANGED <<tables, registryMu, gMutex, model, ctx, control>>

EmbedNext(r) ==                             \* one more input: looked up anew
  /\ pc[r] = "embedding"
  /\ GoTo(r, "lookup")
  /\ UNCHANGED <<tables, registryMu, gMutex, model, ctx, control>>

EmbedEnd(r) ==
  /\ pc[r] = "embedding"
  /\ GoTo(r, "done")
  /\ UNCHANGED <<tables, registryMu, gMutex, model, ctx, control>>

-----------------------------------------------------------------------------
(* cap_llama_server_stop: stop listening, join the handlers, then release  *)
(* every context.                                                          *)

Stop ==
  /\ server = "up"
  /\ server' = "stopping"
  /\ UNCHANGED <<tables, registryMu, gMutex, pc, model, ctx, abandoned>>

NotJoined == TRUE                           \* mutant: the handlers are not joined

Joined == \A r \in Requests : pc[r] \in {"idle", "done"} \/ r \in abandoned

(* registry_release_all, one context (and one turn of g_mutex) at a time.  *)
ReleaseAllBegin ==
  /\ server = "stopping"
  /\ Joined /\ RegistryFree
  /\ registryMu' = Main
  /\ server' = "releasing"
  /\ UNCHANGED <<tables, gMutex, pc, model, ctx, abandoned>>

ReleaseContext(m) ==
  /\ server = "releasing" /\ GFree
  /\ m \in Loaded
  /\ embedTable' = embedTable \ {registry[m]}
  /\ context' = [context EXCEPT ![registry[m]] = NoModel]
  /\ registry' = [registry EXCEPT ![m] = NoCtx]
  /\ UNCHANGED <<maxModels, registryMu, nextId, gMutex, pc, model, ctx, control>>

ReleaseAllEnd ==
  /\ server = "releasing"
  /\ Loaded = {}
  /\ registryMu' = NoOne
  /\ server' = "stopped"
  /\ UNCHANGED <<tables, gMutex, pc, model, ctx, abandoned>>

ReleaseAll == ReleaseAllBegin \/ (\E m \in Models : ReleaseContext(m)) \/ ReleaseAllEnd

-----------------------------------------------------------------------------
Ops == {"load", "unload", "report", "limit", "infer", "embed"}

Step(r) ==
  \/ LoadAnswered(r) \/ LoadBegin(r) \/ LoadFails(r) \/ LoadInsert(r) \/ LoadPublish(r)
  \/ UnloadMissing(r) \/ UnloadBegin(r) \/ UnloadRelease(r)
  \/ Report(r) \/ \E n \in Limits : SetLimit(r, n)
  \/ Resolve(r) \/ FormatChat(r) \/ InferInvalid(r) \/ InferBegin(r) \/ InferEnd(r)
  \/ Chunk(r) \/ EmbedSize(r) \/ EmbedLookup(r) \/ EmbedNext(r) \/ EmbedEnd(r)

(* Everything is answered and the server is down: the process exits.       *)
Terminated ==
  /\ server = "stopped"
  /\ \A r \in Requests : pc[r] \in {"idle", "done"}
  /\ UNCHANGED vars

Next ==
  \/ \E r \in Requests : \/ Step(r) \/ Abandon(r)
                         \/ \E op \in Ops, m \in Models \cup {AnyModel} : Arrive(r, op, m)
  \/ Stop \/ ReleaseAll
  \/ Terminated

(* Threads are scheduled, loads and generations end, and the inputs of an  *)
(* embedding request are finitely many.  So are the requests of a          *)
(* behaviour: no mutex is contended for ever.                              *)
Fairness ==
  /\ WF_vars(ReleaseAll)
  /\ \A r \in Requests : WF_vars(Step(r)) /\ SF_vars(EmbedEnd(r))

Spec == Init /\ [][Next]_vars
FairSpec == Spec /\ Fairness

-----------------------------------------------------------------------------
(* Properties.                                                             *)

(* The registry and the bridge's table agree whenever the registry's mutex *)
(* is free: every loaded model has a live context made for it, and every   *)
(* live context belongs to a loaded model, so none can leak.               *)
RegistryExact ==
  RegistryFree =>
    /\ \A m \in Loaded : context[registry[m]] = m
    /\ \A c \in CtxId : Live(c) => registry[context[c]] = c

(* "Holds g_mutex for the full inference so the context cannot be released *)
(* mid-stream": the context of a running inference is live, and it is the  *)
(* one of the model its request named, whatever was unloaded and reloaded  *)
(* since the request resolved it.                                          *)
InferenceOnItsModel ==
  \A r \in Requests : pc[r] = "inferring" =>
    /\ Live(ctx[r])
    /\ model[r] # AnyModel => context[ctx[r]] = model[r]

(* The embedding code's raw pointers are registered after the context is   *)
(* inserted and dropped before it is destroyed: a lookup never returns a   *)
(* pointer that is already dangling.                                       *)
EmbedTableBacked == \A c \in embedTable : Live(c)

(* A load never takes the registry past the limit in force, however many   *)
(* loads, unloads and changes of the limit overlap.                        *)
LoadsWithinLimit ==
  [][\A m \in Models : m \notin Loaded /\ m \in Loaded' =>
       Cardinality(Loaded') <= maxModels]_vars

(* A stopped server has released every context, also those an abandoned    *)
(* stream was still using when stop() began.                               *)
StopReleasesAll == server = "stopped" => \A c \in CtxId : ~Live(c)

(* The server implements the abstract service of models: a load takes      *)
(* effect when llama_init_context has inserted the context, an unload when *)
(* llama_release_context has destroyed it, and a generation lasts while it *)
(* holds g_mutex; everything else the threads do is nobody's business.  So *)
(* the locks make the requests atomic as a client sees them.               *)
Service ==
  INSTANCE ModelService
    WITH held <- {m \in Models : \E c \in CtxId : context[c] = m},
         limit <- maxModels,
         asked <- model,
         uses <- [r \in Requests |-> IF pc[r] = "inferring" THEN context[ctx[r]] ELSE NoModel],
         left <- abandoned,
         phase <- CASE server \in {"up", "stopping"} -> "open"
                    [] server = "releasing" -> "closing"
                    [] server = "stopped" -> "closed"
ImplementsModelService == Service!Spec

(* Nobody waits for ever: every request is answered and stop() completes,  *)
(* although loads and unloads nest the three mutexes.  A request is made   *)
(* once, so this says it of each.                                          *)
RequestsAnswered ==
  []<>( /\ \A r \in Requests : pc[r] \in {"idle", "done"}
        /\ server \in {"up", "stopped"} )
=============================================================================
