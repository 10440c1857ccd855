-------------------------- MODULE DesktopProvider --------------------------
(***************************************************************************)
(* The desktop provider (dist/esm/isomorphic/provider.desktop.js), with    *)
(* the parts of dist/esm/desktop.js that call it: the page's view of the   *)
(* models a sidecar holds, over HTTP requests that are answered in any     *)
(* order, time out, or go to a sidecar that does not listen yet or is no   *)
(* longer there.                                                           *)
(*                                                                         *)
(* A port stands for the process that listens on it: each new sidecar has  *)
(* another, and several may live, of which the page knows one.  The main   *)
(* process is the bridge's one operation, which may name any of them; when *)
(* it starts another is SidecarManager's matter, and left open here.       *)
(* Models are the ids after the cut of a path to its last segment, with    *)
(* which every load and unload begins.                                     *)
(***************************************************************************)
EXTENDS Naturals, Sequences, FiniteSets

CONSTANTS
  Models,
  MaxModels,    (* MAX_MODELS, kMaxConcurrentModels.                       *)
  Boots,        (* Bounds the models that sidecars are started with.       *)
  Limits,       (* Bounds the limits that are set.                         *)
  MaxCalls,     (* Bounds the calls.                                       *)
  MaxPort       (* Bounds the sidecars.                                    *)

ASSUME DesktopAssumption ==
  /\ IsFiniteSet(Models) /\ Models # {}
  /\ MaxModels \in Nat \ {0}
  /\ Boots \subseteq Models /\ Limits \subseteq 1 .. MaxModels
  /\ MaxCalls \in Nat
  /\ MaxPort \in Nat

VARIABLES
  port,         (* sidecarPort, 0 for null.                                *)
  limit,        (* The scheduler's maxModels.                              *)
  loaded,       (* sidecarLoadedModels, and the scheduler's set of loaded  *)
                (*   models: both change in the same task, always.         *)
  call,         (* The calls made and where each is.                       *)
  wire,         (* The requests sent, and their answers, till received.    *)
  sidecar,      (* The sidecars, by port.                                  *)
  blurred       (* History: the models that calls overlapped on, timed out *)
                (*   on or lost on, and all when the page's sidecar died   *)
                (*   or the page moved from it to another; until a load or *)
                (*   unload of the model, made alone, was answered by the  *)
                (*   page's sidecar.                                       *)

vars == <<port, limit, loaded, call, wire, sidecar, blurred>>

Port == 1 .. MaxPort
Sidecar ==
  [state : {"none", "booting", "up", "gone"},
   held : SUBSET Models, limit : 1 .. MaxModels,
   first : SUBSET Models] (* What it is started with: a model, or nothing. *)
Call ==
  {k \in [do : {"load", "server", "unload", "limit"},
          at : {"bridge", "memory", "fetch"},
          model : Models,        (* Of a "load" or "unload".               *)
          max : 1 .. MaxModels,  (* Of a "limit".                          *)
          alone : BOOLEAN] :     (* History: no other call for the model   *)
                                 (*   since.                               *)
     k.do = "server" => k.at = "bridge"}
Done == [at |-> "done"]
Message ==
  [call : 1 .. MaxCalls, do : {"load", "unload", "limit"}, model : Models,
   max : 1 .. MaxModels, port : 0 .. MaxPort,
   is : {"sent", "ok", "refused", "lost"}]

TypeOK ==
  /\ port \in 0 .. MaxPort
  /\ limit \in 1 .. MaxModels
  /\ loaded \subseteq Models
  /\ call \in Seq(Call \cup {Done})
  /\ Len(call) <= MaxCalls
  /\ wire \subseteq Message
  /\ \A q, r \in wire : q.call = r.call => q = r
  /\ sidecar \in [Port -> Sidecar]
  /\ \A p \in Port : Cardinality(sidecar[p].held) <= MaxModels
  /\ blurred \subseteq Models

Init ==
  /\ port = 0
  /\ limit = MaxModels
  /\ loaded = {}
  /\ call = <<>>
  /\ wire = {}
  /\ sidecar = [p \in Port |-> [state |-> "none", held |-> {}, limit |-> MaxModels,
                               first |-> {}]]
  /\ blurred = {}

(* The calls and requests that are about a model.                          *)
ForModel(k) == k.do \in {"load", "unload"}
Under(m) == {c \in DOMAIN call : call[c] # Done /\ ForModel(call[c]) /\ call[c].model = m}
Flying(m) == {r \in wire : ForModel(r) /\ r.model = m}

(* What does not matter.                                                   *)
AnyModel == CHOOSE m \in Models : TRUE

Listening(p) == p \in Port /\ sidecar[p].state \in {"booting", "up"}

Finish(c) == call' = [call EXCEPT ![c] = Done]
Goto(c, at) == call' = [call EXCEPT ![c].at = at]
Sent(c, k) == [call |-> c, do |-> k.do, model |-> k.model, max |-> k.max,
               port |-> port, is |-> "sent"]

-----------------------------------------------------------------------------
(* Calls.                                                                  *)

(* The new call k; it and the others about its model are no longer alone.  *)
Begin(k) ==
  LET others == Under(k.model) IN
  /\ Len(call) < MaxCalls
  /\ IF ~ForModel(k)
     THEN call' = Append(call, k) /\ UNCHANGED blurred
     ELSE /\ call' = Append([c \in DOMAIN call |->
                        IF c \in others THEN [call[c] EXCEPT !.alone = FALSE] ELSE call[c]],
                        [k EXCEPT !.alone = others = {} /\ Flying(k.model) = {}])
          /\ blurred' = IF others = {} THEN blurred ELSE blurred \cup {k.model}
  /\ UNCHANGED sidecar

BeginDone ==
  /\ Len(call) < MaxCalls
  /\ call' = Append(call, Done)
  /\ UNCHANGED <<wire, sidecar, blurred>>

NewCall(do, at, m, n) == [do |-> do, at |-> at, model |-> m, max |-> n, alone |-> TRUE]

BeginFetch(do, m, n) ==
  LET k == NewCall(do, "fetch", m, n) IN
  /\ Begin(k)
  /\ wire' = wire \cup {Sent(Len(call) + 1, k)}

(* initialize is loadModel on this platform.                               *)
LoadModel(m) ==
  /\ \/ port = 0 /\ Begin(NewCall("load", "bridge", m, 1)) /\ UNCHANGED wire
     \/ port # 0 /\ m \notin loaded /\ Begin(NewCall("load", "memory", m, 1)) /\ UNCHANGED wire
     \/ port # 0 /\ m \in loaded /\ BeginDone
  /\ UNCHANGED <<port, limit, loaded>>

(* initContext, a load, and startNativeLlamaServer ask the main process    *)
(* first, and take over the port it names.                                 *)
AskBridge(do, m) ==
  /\ Begin(NewCall(do, "bridge", m, 1))
  /\ UNCHANGED <<port, limit, loaded, wire>>

(* Without a sidecar it unloads from the web provider.                     *)
UnloadModel(m) ==
  /\ IF port # 0 /\ m \in loaded THEN BeginFetch("unload", m, 1) ELSE BeginDone
  /\ UNCHANGED <<port, limit, loaded>>

(* Mutant: the limit is not clamped to one at least.                       *)
SetContextLimitUnclamped(n) ==
  /\ limit' = n - 1
  /\ IF port # 0 THEN BeginFetch("limit", AnyModel, n) ELSE BeginDone
  /\ UNCHANGED <<port, loaded>>

(* The new scheduler is told of the loaded models; of the limit the        *)
(* sidecar hears only if there is one.                                     *)
SetContextLimit(n) ==
  /\ limit' = n
  /\ IF port # 0 THEN BeginFetch("limit", AnyModel, n) ELSE BeginDone
  /\ UNCHANGED <<port, loaded>>

-----------------------------------------------------------------------------
(* How they go on.                                                         *)

(* loadModel goes on, knowing of a sidecar.                                *)
WithSidecar(c) ==
  IF call[c].do = "server" \/ call[c].model \in loaded THEN Finish(c) ELSE Goto(c, "memory")

(* The bridge names a sidecar: the one started for this call, or the last  *)
(* that any call started, which need not listen yet, or any more.  Or it   *)
(* fails.                                                                  *)
BridgeAnswers(c) ==
  /\ call[c].at = "bridge"
  /\ \/ \E p \in Port :
          /\ port' = p
          /\ WithSidecar(c)
          /\ blurred' = IF port \in {0, p} THEN blurred ELSE Models
     \/ Finish(c) /\ UNCHANGED <<port, blurred>>
  /\ UNCHANGED <<limit, loaded, wire, sidecar>>

(* The admission, and the request in the same task.  The memory may refuse *)
(* any model that is not loaded.                                           *)
MemoryRead(c) ==
  /\ call[c].at = "memory"
  /\ \/ /\ call[c].model \in loaded \/ Cardinality(loaded) < limit
        /\ Goto(c, "fetch")
        /\ wire' = wire \cup {Sent(c, call[c])}
     \/ /\ call[c].model \notin loaded
        /\ Finish(c)
        /\ UNCHANGED wire
  /\ UNCHANGED <<port, limit, loaded, sidecar, blurred>>

(* Mutant: an error of a load's request is overlooked.                     *)
LoadedAfterAnyway(k, what) ==
  CASE k.do = "load" -> loaded \cup {k.model}
    [] k.do = "unload" -> loaded \ {k.model}
    [] OTHER -> loaded

(* What an unload forgets, whatever came of its request, and a load learns *)
(* from an answer that is ok.                                              *)
LoadedAfter(k, what) ==
  CASE k.do = "load" /\ what = "ok" -> loaded \cup {k.model}
    [] k.do = "unload" -> loaded \ {k.model}
    [] OTHER -> loaded

(* The answer to a call's request, or the error that there is none.        *)
Fetched(c) ==
  LET k == call[c] IN
  /\ k.at = "fetch"
  /\ \E r \in wire :
       /\ r.call = c /\ r.is # "sent"
       /\ wire' = wire \ {r}
       /\ loaded' = LoadedAfter(k, r.is)
       /\ blurred' =
            IF /\ ForModel(k) /\ k.alone
               /\ r.is # "lost" /\ r.port = port /\ Listening(port)
            THEN blurred \ {k.model} ELSE blurred
  /\ Finish(c)
  /\ UNCHANGED <<port, limit, sidecar>>

(* Mutant: an unload's request has no timer.                               *)
TimedOutUnlessUnload(c) ==
  LET k == call[c] IN
  /\ k.at = "fetch" /\ k.do # "unload"
  /\ wire' = {r \in wire : r.call # c \/ r.is = "sent"}
  /\ loaded' = LoadedAfter(k, "lost")
  /\ blurred' = IF ForModel(k) THEN blurred \cup {k.model} ELSE blurred
  /\ Finish(c)
  /\ UNCHANGED <<port, limit, sidecar>>

(* The abort timer of sidecarFetch.  The request stays with the sidecar,   *)
(* and nobody receives its answer.                                         *)
TimedOut(c) ==
  LET k == call[c] IN
  /\ k.at = "fetch"
  /\ wire' = {r \in wire : r.call # c \/ r.is = "sent"}
  /\ loaded' = LoadedAfter(k, "lost")
  /\ blurred' = IF ForModel(k) THEN blurred \cup {k.model} ELSE blurred
  /\ Finish(c)
  /\ UNCHANGED <<port, limit, sidecar>>

-----------------------------------------------------------------------------
(* The sidecar.                                                            *)

(* A request's answer leaves; that of a call timed out is for nobody.      *)
Reply(r, what) ==
  wire' = (wire \ {r}) \cup {q \in {[r EXCEPT !.is = what]} : call[r.call].at = "fetch"}

(* registry_load_model, registry_unload_model and the handler of the limit,*)
(* each under the registry's lock.                                         *)
Serve(r) ==
  LET p == r.port
      held == sidecar[p].held IN
  /\ r.is = "sent" /\ Listening(p)
  /\ \/ /\ r.do = "load"
        /\ r.model \in held \/ Cardinality(held) < sidecar[p].limit
        /\ sidecar' = [sidecar EXCEPT ![p].held = held \cup {r.model}]
        /\ Reply(r, "ok")
     \/ /\ r.do = "load" /\ r.model \notin held
        /\ Reply(r, "refused")
        /\ UNCHANGED sidecar
     \/ /\ r.do = "unload"
        /\ sidecar' = [sidecar EXCEPT ![p].held = held \ {r.model}]
        /\ Reply(r, IF r.model \in held THEN "ok" ELSE "refused")
     \/ /\ r.do = "limit"
        /\ sidecar' = [sidecar EXCEPT ![p].limit = r.max]
        /\ Reply(r, "ok")
  /\ UNCHANGED <<port, limit, loaded, call, blurred>>

(* Nobody listens on the port, not yet or not any more.                    *)
Lose(r) ==
  /\ r.is = "sent" /\ ~Listening(r.port)
  /\ Reply(r, "lost")
  /\ blurred' = IF ForModel(r) THEN blurred \cup {r.model} ELSE blurred
  /\ UNCHANGED <<port, limit, loaded, call, sidecar>>

(* A sidecar comes to listen: one the manager started for a call, whatever *)
(* others there are and whichever port the call was answered with; or one  *)
(* it started again, with the options of before.  It listens before it     *)
(* loads its model (cap_llama_server_start), if the options name a file.   *)
Listen(p) ==
  /\ call # <<>> /\ sidecar[p].state = "none"
  /\ \/ sidecar' = [sidecar EXCEPT ![p].state = "up"]
     \/ \E m \in Boots : sidecar' = [sidecar EXCEPT ![p].state = "booting", ![p].first = {m}]
  /\ UNCHANGED <<port, limit, loaded, call, wire, blurred>>

(* It does so as a request would.  If it cannot, the process ends.         *)
Boot(p) ==
  LET held == sidecar[p].held \cup sidecar[p].first IN
  /\ sidecar[p].state = "booting"
  /\ held = sidecar[p].held \/ Cardinality(sidecar[p].held) < sidecar[p].limit
  /\ sidecar' = [sidecar EXCEPT ![p].state = "up", ![p].held = held]
  /\ UNCHANGED <<port, limit, loaded, call, wire, blurred>>

(* It crashes, is stopped, or fails to boot.  What it held is gone, and    *)
(* the page, if it is told, keeps its port and its models.                 *)
Die(p) ==
  /\ Listening(p)
  /\ sidecar' = [sidecar EXCEPT ![p] =
                   [state |-> "gone", held |-> {}, limit |-> MaxModels, first |-> {}]]
  /\ blurred' = IF p = port THEN Models ELSE blurred
  /\ UNCHANGED <<port, limit, loaded, call, wire>>

-----------------------------------------------------------------------------
Begins ==
  \/ \E m \in Models : LoadModel(m) \/ AskBridge("load", m) \/ UnloadModel(m)
  \/ AskBridge("server", AnyModel)
  \/ \E n \in Limits : SetContextLimit(n)

GoesOn(c) ==
  c \in DOMAIN call /\ (BridgeAnswers(c) \/ MemoryRead(c) \/ Fetched(c) \/ TimedOut(c))

Next ==
  \/ Begins
  \/ \E c \in DOMAIN call : GoesOn(c)
  \/ \E r \in wire : Serve(r) \/ Lose(r)
  \/ \E p \in Port : Listen(p) \/ Boot(p) \/ Die(p)

Spec == Init /\ [][Next]_vars

(* Some call that can go on does: timers run out, and the main process     *)
(* answers (SidecarManager's StartsSettle).  The sidecars need not.        *)
FairSpec == Spec /\ WF_vars(\E c \in DOMAIN call : GoesOn(c))

-----------------------------------------------------------------------------
(* The page and its sidecar agree on a model when no call is under way for *)
(* it and the last to be made alone was answered by that sidecar since     *)
(* anything went wrong with the model: a loaded model is held, and a held  *)
(* one is loaded, or the one the sidecar was started with.  Calls for      *)
(* other models, of limits included, may overlap, fail and time out at     *)
(* will, whatever the admission they all passed; other sidecars live and   *)
(* die, and serve requests that the page sent them before it moved.        *)
QuietNamesAgree ==
  \A m \in Models \ blurred :
    Under(m) = {} =>
      /\ m \in loaded => port # 0 /\ m \in sidecar[port].held
      /\ port # 0 /\ m \in sidecar[port].held => m \in loaded \cup sidecar[port].first

(* Whatever becomes of the sidecar and its answers, every call ends: no    *)
(* request goes without its timer.  There being only MaxCalls calls, this  *)
(* says it of each.                                                        *)
CallsEnd == []<>(\A c \in DOMAIN call : call[c] = Done)
=============================================================================
