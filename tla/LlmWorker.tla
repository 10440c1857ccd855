----------------------------- MODULE LlmWorker -----------------------------
(***************************************************************************)
(* The WASM worker (dist/workers/llm.worker.js): one thread that handles   *)
(* its messages in order, each handler up to its first await.  Only two    *)
(* things suspend a handler: instantiating the engine (INIT) and reading a *)
(* model from OPFS (LOAD_MODEL).  Everything else, the engine's own work   *)
(* included, is done within one task.                                      *)
(*                                                                         *)
(* A request stands for its own message id: a call of the page has one at  *)
(* a time and never two of the same kind.                                  *)
(***************************************************************************)
EXTENDS Naturals, Sequences, FiniteSets

CONSTANTS
  Models,
  MaxModels,    (* WASM_MAX_CONCURRENT_MODELS.                             *)
  MaxCalls      (* Bounds the calls of the page.                           *)

ASSUME WorkerAssumption ==
  IsFiniteSet(Models) /\ MaxModels \in Nat /\ MaxCalls \in Nat

VARIABLES
  inbox,        (* Messages posted to the worker and not handled.          *)
  outbox,       (* Its answers the page has not received.                  *)
  wk            (* The worker's state, its engine's (resident), and of its *)
                (*   history the models of which an unload failed since    *)
                (*   they were loaded (torn).                              *)

workerVars == <<inbox, outbox, wk>>

(* The types of request, named for the point where the page waits.         *)
Awaited == {"init", "memory", "load", "measure", "unload", "generate"}
Request == [call : 1 .. MaxCalls, at : Awaited, model : Models]
Reply == [to : Request, is : {"result", "measured", "error"}]
(* A read of OPFS under way; listed in modelLoadInflight or forgotten there*)
Load == [model : Models, waiters : Seq(Request), listed : BOOLEAN]

NewWorker == [up |-> TRUE, initialized |-> FALSE, inits |-> {}, loads |-> {},
              loaded |-> {}, failed |-> {}, resident |-> {}, torn |-> {}]

WorkerTypeOK ==
  /\ inbox \in Seq(Request)
  /\ outbox \in Seq(Reply)
  /\ wk \in [up : BOOLEAN, initialized : BOOLEAN, inits : SUBSET Request,
             loads : SUBSET Load, loaded : SUBSET Models,
             failed : SUBSET Models, resident : SUBSET Models,
             torn : SUBSET Models]

WorkerInit == inbox = <<>> /\ outbox = <<>> /\ wk = NewWorker

Answer(r, what) == outbox' = Append(outbox, [to |-> r, is |-> what])
Listed(m) == {l \in wk.loads : l.model = m /\ l.listed}
Unlist(m) == {IF l.model = m THEN [l EXCEPT !.listed = FALSE] ELSE l : l \in wk.loads}

-----------------------------------------------------------------------------
(* Messages.                                                               *)

Take(kinds) ==
  /\ wk.up
  /\ inbox # <<>>
  /\ Head(inbox).at \in kinds
  /\ inbox' = Tail(inbox)

(* The engine is tried for whenever none is initialized yet, also while    *)
(* another INIT is trying.                                                 *)
HandleInit ==
  /\ Take({"init"})
  /\ IF wk.initialized
     THEN Answer(Head(inbox), "result") /\ UNCHANGED wk
     ELSE wk' = [wk EXCEPT !.inits = @ \cup {Head(inbox)}] /\ UNCHANGED outbox

HandleMemory ==
  /\ Take({"memory", "measure"})
  /\ Answer(Head(inbox), "result")
  /\ UNCHANGED wk

(* Mutant: a load that joins one under way is not recorded as waiting.     *)
HandleLoadUnshared ==
  LET r == Head(inbox) IN
  /\ Take({"load"})
  /\ IF wk.initialized /\ Listed(r.model) = {}
     THEN /\ wk' = [wk EXCEPT !.loads = @ \cup
                      {[model |-> r.model, waiters |-> <<r>>, listed |-> TRUE]}]
          /\ UNCHANGED outbox
     ELSE UNCHANGED <<outbox, wk>>

HandleLoad ==
  LET r == Head(inbox) IN
  /\ Take({"load"})
  /\ \/ /\ ~wk.initialized \/ (r.model \in wk.failed /\ r.model \notin wk.loaded)
        /\ Answer(r, "error")
        /\ UNCHANGED wk
     \/ /\ wk.initialized /\ r.model \in wk.loaded
        /\ Answer(r, "result")
        /\ UNCHANGED wk
     \/ /\ wk.initialized /\ r.model \notin wk.loaded \cup wk.failed
        /\ wk' = [wk EXCEPT !.loads =
                    IF Listed(r.model) = {}
                    THEN @ \cup {[model |-> r.model, waiters |-> <<r>>, listed |-> TRUE]}
                    ELSE {IF l \in Listed(r.model)
                          THEN [l EXCEPT !.waiters = Append(@, r)] ELSE l : l \in @}]
        /\ UNCHANGED outbox

(* Mutant: the engine keeps the model.                                     *)
HandleUnloadMemoOnly ==
  LET r == Head(inbox) IN
  /\ Take({"unload"})
  /\ wk' = [wk EXCEPT !.loaded = @ \ {r.model}, !.failed = @ \ {r.model},
                      !.loads = Unlist(r.model)]
  /\ Answer(r, "result")

(* A model that is not loaded only loses its memo; a load of it under way  *)
(* goes on unlisted.  The engine drops a model from its tables before it   *)
(* calls into WASM: when that throws, the worker has it loaded still.      *)
HandleUnload ==
  LET r == Head(inbox) IN
  /\ Take({"unload"})
  /\ \/ /\ wk' = [wk EXCEPT !.loaded = @ \ {r.model}, !.failed = @ \ {r.model},
                            !.loads = Unlist(r.model), !.torn = @ \ {r.model},
                            !.resident = IF r.model \in wk.loaded THEN @ \ {r.model} ELSE @]
        /\ Answer(r, "result")
     \/ /\ r.model \in wk.loaded
        /\ wk' = [wk EXCEPT !.resident = @ \ {r.model}, !.torn = @ \cup {r.model}]
        /\ Answer(r, "error")

HandleGenerate ==
  /\ Take({"generate"})
  /\ \/ Answer(Head(inbox), "error")
     \/ Head(inbox).model \in wk.loaded /\ Answer(Head(inbox), "result")
  /\ UNCHANGED wk

-----------------------------------------------------------------------------
(* Suspended handlers go on.                                               *)

InitDone(r) ==
  /\ wk.up
  /\ r \in wk.inits
  /\ \/ /\ wk' = [wk EXCEPT !.inits = @ \ {r}, !.initialized = TRUE]
        /\ Answer(r, "result")
     \/ /\ wk' = [wk EXCEPT !.inits = @ \ {r}]
        /\ Answer(r, "error")
  /\ UNCHANGED inbox

(* All who wait for the read hear of it in the same task.                  *)
AnswerAll(rs, what) ==
  outbox' = outbox \o [i \in DOMAIN rs |-> [to |-> rs[i], is |-> what]]

Ended(l) == Unlist(l.model) \ {[l EXCEPT !.listed = FALSE]}

(* The engine skips a model it already holds and refuses one more than     *)
(* MaxModels.  Whatever load is listed for the model by now is unlisted.   *)
LoadSucceeds(l) ==
  /\ wk.up
  /\ l \in wk.loads
  /\ l.model \in wk.resident \/ Cardinality(wk.resident) < MaxModels
  /\ wk' = [wk EXCEPT !.loads = Ended(l),
                      !.loaded = @ \cup {l.model}, !.failed = @ \ {l.model},
                      !.resident = @ \cup {l.model}, !.torn = @ \ {l.model}]
  /\ \E what \in {"result", "measured"} : AnswerAll(l.waiters, what)
  /\ UNCHANGED inbox

(* The failure is remembered: later loads of the model are refused.        *)
LoadFails(l) ==
  /\ wk.up
  /\ l \in wk.loads
  /\ wk' = [wk EXCEPT !.loads = Ended(l),
                      !.failed = @ \cup {l.model}]
  /\ AnswerAll(l.waiters, "error")
  /\ UNCHANGED inbox

WorkerNext ==
  \/ HandleInit \/ HandleMemory \/ HandleLoad \/ HandleUnload \/ HandleGenerate
  \/ \E r \in wk.inits : InitDone(r)
  \/ \E l \in wk.loads : LoadSucceeds(l) \/ LoadFails(l)
=============================================================================
