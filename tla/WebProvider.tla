---------------------------- MODULE WebProvider ----------------------------
(***************************************************************************)
(* The web provider of the page (dist/esm/isomorphic/provider.web.js) over *)
(* the worker: each call is an async function suspended at an await, each  *)
(* request has an entry in `pending' until its answer settles it.          *)
(*                                                                         *)
(* stopGeneration terminates the worker under all of them; the next        *)
(* request makes a new one, which nobody has initialized.                  *)
(***************************************************************************)
EXTENDS LlmWorker

VARIABLES
  worker,       (* this.worker is not null.                                *)
  pending,      (* The requests not settled.                               *)
  call,         (* The calls made: the model each names and where it is.   *)
  loaded,       (* loadedModelIds, and the scheduler's set: always equal.  *)
  erred,        (* History: a worker had an error event.                   *)
  calm          (* History: calls that change what is loaded came one at a *)
                (*   time, none of them stopped or failed by an event.     *)

vars == <<inbox, outbox, wk, worker, pending, call, loaded, erred, calm>>

Place == {"manifest", "entry", "mark"} \cup Awaited
Call == [at : Place, model : Models]
Done == [at |-> "done"]     (* Whether it succeeded nobody asks again.     *)

TypeOK ==
  /\ WorkerTypeOK
  /\ worker \in BOOLEAN
  /\ pending \subseteq Request
  /\ call \in Seq(Call \cup {Done})
  /\ Len(call) <= MaxCalls
  /\ loaded \subseteq Models
  /\ erred \in BOOLEAN
  /\ calm \in BOOLEAN

Init ==
  /\ WorkerInit
  /\ worker = FALSE
  /\ pending = {}
  /\ call = <<>>
  /\ loaded = {}
  /\ erred = FALSE
  /\ calm = TRUE

Goto(c, at) == call' = [call EXCEPT ![c].at = at]
Finish(c) == call' = [call EXCEPT ![c] = Done]
(* The request a waiting call waits for.                                   *)
Awaits(c) == [call |-> c, at |-> call[c].at, model |-> call[c].model]
Changing(c) == call[c].at \in Place \ {"generate"}
Calming == calm' = (calm /\ ~\E c \in DOMAIN call : Changing(c))

(* A continuation that runs before any other task of the page.             *)
Microtask == \E c \in DOMAIN call : call[c].at = "mark"

(* sendRequest and ensureWorker.  A worker not made yet is a new one.      *)
Post(r) ==
  /\ worker' = TRUE
  /\ inbox' = Append(inbox, r)
  /\ UNCHANGED wk

Send(c, at) ==
  LET r == [call |-> c, at |-> at, model |-> call[c].model] IN
  /\ Goto(c, at)
  /\ Post(r)
  /\ pending' = (pending \ {Awaits(c)}) \cup {r}

-----------------------------------------------------------------------------
(* Calls.                                                                  *)

Begin(k) ==
  /\ Len(call) < MaxCalls
  /\ call' = Append(call, k)
  /\ UNCHANGED <<outbox, loaded, erred>>

BeginSending(m, at) ==
  LET r == [call |-> Len(call) + 1, at |-> at, model |-> m] IN
  /\ Begin([at |-> at, model |-> m])
  /\ Post(r)
  /\ pending' = pending \cup {r}

BeginAlone(k) ==
  /\ Begin(k)
  /\ UNCHANGED <<inbox, wk, worker, pending>>

Initialize(m) == BeginSending(m, "init") /\ Calming

(* At once back when the model is thought loaded.                          *)
LoadModel(m) ==
  /\ BeginAlone(IF m \in loaded THEN Done ELSE [at |-> "manifest", model |-> m])
  /\ Calming

UnloadModel(m) ==
  /\ IF m \in loaded THEN BeginSending(m, "unload") ELSE BeginAlone(Done)
  /\ Calming

Generate(m) ==
  /\ IF m \in loaded THEN BeginSending(m, "generate") ELSE BeginAlone(Done)
  /\ UNCHANGED calm

(* The model is in OPFS, found there or downloaded; or it is not.          *)
ManifestRead(c) ==
  /\ call[c].at = "manifest"
  /\ ~Microtask
  /\ \/ Send(c, "memory")
     \/ Finish(c) /\ UNCHANGED <<inbox, wk, worker, pending>>
  /\ UNCHANGED <<outbox, loaded, erred, calm>>

(* ensureCapacity and, at once, LOAD_MODEL; memory may refuse any load of  *)
(* a model that is not loaded.                                             *)
Admit(c) ==
  /\ call[c].at = "entry"
  /\ ~Microtask
  /\ \/ /\ call[c].model \in loaded \/ Cardinality(loaded) < MaxModels
        /\ Send(c, "load")
     \/ /\ call[c].model \notin loaded
        /\ Finish(c)
        /\ UNCHANGED <<inbox, wk, worker, pending>>
  /\ UNCHANGED <<outbox, loaded, erred, calm>>

(* Mutant: the call's number is marked loaded.                             *)
MarkLoadedNumber(c) ==
  /\ call[c].at = "mark"
  /\ loaded' = loaded \cup {c}
  /\ Finish(c)
  /\ UNCHANGED <<inbox, outbox, wk, worker, pending, erred, calm>>

MarkLoaded(c) ==
  /\ call[c].at = "mark"
  /\ loaded' = loaded \cup {call[c].model}
  /\ Finish(c)
  /\ UNCHANGED <<inbox, outbox, wk, worker, pending, erred, calm>>

-----------------------------------------------------------------------------
(* Answers and events of the worker.                                       *)

(* How the call goes on: `what' answers its request.  One that goes on     *)
(* waits for OPFS or sends its next request; the others are done.          *)
Continue(c, what) ==
  LET k == call[c]
      onward == CASE k.at = "init" /\ what # "error" /\ k.model \notin loaded -> "manifest"
                  [] k.at = "memory" -> "entry"
                  [] OTHER -> "done"
  IN
  /\ IF k.at = "load" /\ what = "result"
     THEN Send(c, "measure")
     ELSE /\ IF onward = "done" THEN Finish(c) ELSE Goto(c, onward)
          /\ pending' = pending \ {Awaits(c)}
          /\ UNCHANGED <<inbox, wk, worker>>
  /\ loaded' = CASE k.at = "measure" \/ (k.at = "load" /\ what = "measured")
                     -> loaded \cup {k.model}
                 [] k.at = "unload" /\ what # "error" -> loaded \ {k.model}
                 [] OTHER -> loaded

(* An answer to a request that was settled otherwise is ignored.           *)
OnMessage ==
  /\ ~Microtask
  /\ outbox # <<>>
  /\ outbox' = Tail(outbox)
  /\ IF Head(outbox).to \in pending
     THEN Continue(Head(outbox).to.call, Head(outbox).is)
     ELSE UNCHANGED <<inbox, wk, worker, pending, call, loaded>>
  /\ UNCHANGED <<erred, calm>>

(* Every request is rejected.  The two requests for the worker's memory    *)
(* are caught and their calls go on: one before the admission, one with    *)
(* marking its model loaded.                                               *)
Rejected(k) ==
  CASE k.at = "memory" -> [k EXCEPT !.at = "entry"]
    [] k.at = "measure" -> [k EXCEPT !.at = "mark"]
    [] k.at \in Awaited \ {"memory", "measure"} -> Done
    [] OTHER -> k

RejectAll ==
  /\ pending' = {}
  /\ call' = [c \in DOMAIN call |-> Rejected(call[c])]
  /\ Calming

(* Mutant: the worker is terminated and its requests stay pending.         *)
StopGenerationSilently ==
  /\ worker
  /\ worker' = FALSE
  /\ inbox' = <<>> /\ outbox' = <<>> /\ wk' = NewWorker
  /\ loaded' = {}
  /\ Calming
  /\ UNCHANGED <<pending, call, erred>>

(* Mutant: what was loaded is still thought loaded.                        *)
StopGenerationForgetful ==
  /\ worker
  /\ worker' = FALSE
  /\ inbox' = <<>> /\ outbox' = <<>> /\ wk' = NewWorker
  /\ RejectAll
  /\ UNCHANGED <<loaded, erred>>

StopGeneration ==
  /\ worker
  /\ worker' = FALSE
  /\ inbox' = <<>> /\ outbox' = <<>> /\ wk' = NewWorker
  /\ loaded' = {}
  /\ RejectAll
  /\ UNCHANGED erred

(* onerror: the script of a new worker fails to load, and the worker that  *)
(* stays in place answers nobody; or an uncaught error of one that runs on.*)
OnError ==
  /\ worker
  /\ ~Microtask
  /\ erred' = TRUE
  /\ RejectAll
  /\ \/ UNCHANGED wk
     \/ wk = NewWorker /\ outbox = <<>> /\ wk' = [wk EXCEPT !.up = FALSE]
  /\ UNCHANGED <<inbox, outbox, worker, loaded>>

-----------------------------------------------------------------------------
WorkerStep == WorkerNext /\ UNCHANGED <<worker, pending, call, loaded, erred, calm>>

PageStep(c) ==
  c \in DOMAIN call /\ (ManifestRead(c) \/ Admit(c) \/ MarkLoaded(c))

Next ==
  \/ \E m \in Models : Initialize(m) \/ LoadModel(m) \/ UnloadModel(m) \/ Generate(m)
  \/ \E c \in DOMAIN call : PageStep(c)
  \/ OnMessage \/ StopGeneration \/ OnError
  \/ WorkerStep

Spec == Init /\ [][Next]_vars

(* The page's tasks and the worker's go on; OPFS and the network answer,   *)
(* with whatever answer.  Nobody has to call anything.                     *)
FairSpec ==
  /\ Spec
  /\ WF_vars(OnMessage)
  /\ WF_vars(WorkerStep)
  /\ \A c \in 1 .. MaxCalls : WF_vars(PageStep(c))

-----------------------------------------------------------------------------
Waiting(c) == call[c].at \in Awaited
InWorker(r) ==
  \/ \E i \in DOMAIN inbox : inbox[i] = r
  \/ \E i \in DOMAIN outbox : outbox[i].to = r
  \/ r \in wk.inits
  \/ \E l \in wk.loads : \E i \in DOMAIN l.waiters : l.waiters[i] = r

(* A call that waits has its request pending, and the request is on its    *)
(* way to the worker, at work there or answered: whatever stops, errors,   *)
(* shared loads and forgotten loads did, no caller waits for nobody.       *)
NothingLost ==
  /\ \A c \in DOMAIN call : Waiting(c) => Awaits(c) \in pending /\ InWorker(Awaits(c))
  /\ \A r \in pending : r = Awaits(r.call)

(* Used one loading, unloading or initializing call at a time, with        *)
(* generations stopped at will, the page's set of loaded models is exactly *)
(* the worker's between those calls, and the engine holds each of them but *)
(* those it failed to unload.                                              *)
CalmAgreement ==
  calm /\ ~(\E c \in DOMAIN call : Changing(c))
    => loaded = wk.loaded /\ wk.resident = loaded \ wk.torn

(* However the calls overlap, and whatever unloads fail, a model that the  *)
(* worker or its engine holds and the page does not know of is on its way: *)
(* a call that loads it is not done.  Else it could never be unloaded.     *)
(* Error events excepted.                                                  *)
NothingForgotten ==
  ~erred =>
    \A m \in (wk.loaded \cup wk.resident) \ loaded :
      \E c \in DOMAIN call :
        call[c].at \in {"load", "measure"} /\ call[c].model = m

(* Every request is settled, one way or another, unless the script of the  *)
(* worker failed to load and the page still posts to it.  There being only *)
(* MaxCalls calls, this says that none of them waits for ever.             *)
CallsSettle == []<>(~wk.up \/ \A c \in DOMAIN call : ~Waiting(c))
=============================================================================
