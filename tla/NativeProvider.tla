--------------------------- MODULE NativeProvider ---------------------------
(***************************************************************************)
(* The provider of mobile apps (dist/esm/isomorphic/provider.native.js):   *)
(* it gives names to the contexts of the plugin.  Its calls go through the *)
(* plugin and native library of MobileContexts, with nextContextId in the  *)
(* place of that module's counter.                                         *)
(*                                                                         *)
(* A call that awaits is a task; between its steps any other call may run. *)
(* The scheduler's set of loaded models changes where contextByModel does, *)
(* so it is that map's domain.                                             *)
(***************************************************************************)
EXTENDS Naturals, Sequences, FiniteSets, Functions

CONSTANTS
  Models,       (* The model ids an app uses.                              *)
  MaxCalls,     (* Bounds the calls that await something.                  *)
  MaxModels, MaxInits, MaxNative, MaxPending, MaxReloads, None

ASSUME ModelsAssumption == None \notin Models
ASSUME BoundsAssumption ==
  /\ {MaxCalls, MaxModels, MaxInits, MaxNative, MaxPending, MaxReloads} \subseteq Nat
  /\ None \notin Nat

VARIABLES
  platform, page, handles, calls, wrapper, native, nextNative,
  nextContextId,   (* nextContextId.                                       *)
  contextByModel,  (* contextByModel: 0 for a name it does not have.       *)
  tasks,           (* The calls of this page that have not settled.        *)
  started,         (* The calls so far.                                    *)
  asked,           (* History: the model each context id was asked for,    *)
  doubled          (*   the models two loads of which were under way.      *)

Mobile == INSTANCE MobileContexts WITH counter <- nextContextId - 1

provider == <<nextContextId, contextByModel, tasks, started, asked, doubled>>
vars == <<platform, page, handles, calls, wrapper, native, nextNative, provider>>

Id == 1 .. MaxInits
Task == [call : 1 .. MaxCalls, op : {"load", "unload"}, model : Models,
         at : {"limit", "memory", "plugin"}, id : 0 .. MaxInits]

TypeOK ==
  /\ Mobile!TypeOK
  /\ nextContextId \in 1 .. MaxInits + 1
  /\ contextByModel \in [Models -> 0 .. MaxInits]
  /\ tasks \subseteq Task
  /\ started \in 0 .. MaxCalls
  /\ asked \in [Id -> Models \cup {None}]
  /\ doubled \subseteq Models

Init ==
  /\ nextContextId = 1
  /\ Mobile!Init
  /\ contextByModel = [m \in Models |-> 0]
  /\ tasks = {}
  /\ asked = [i \in Id |-> None]
  /\ doubled = {}
  /\ started = 0

Loaded == {m \in Models : contextByModel[m] # 0}

-----------------------------------------------------------------------------
(* The page's side.                                                        *)

NewTask(op, m, at, id) ==
  /\ started < MaxCalls
  /\ started' = started + 1
  /\ tasks' = tasks \cup {[call |-> started + 1, op |-> op, model |-> m, at |-> at, id |-> id]}

Quiet == UNCHANGED <<platform, page, handles, calls, wrapper, native, nextNative>>

(* Other loads of the model that have passed, or will not make, the test.  *)
Overlapping(m) == \E t \in tasks : t.op = "load" /\ t.model = m /\ t.at # "limit"

(* Mutant: a model that is loaded is loaded again.                         *)
LoadModelAgain(m) ==
  /\ NewTask("load", m, "memory", 0)
  /\ doubled' = IF Overlapping(m) THEN doubled \cup {m} ELSE doubled
  /\ UNCHANGED <<nextContextId, contextByModel, asked>>
  /\ Quiet

(* A load of a loaded model returns at once, and is left out.              *)
LoadModel(m) ==
  /\ contextByModel[m] = 0
  /\ NewTask("load", m, "memory", 0)
  /\ doubled' = IF Overlapping(m) THEN doubled \cup {m} ELSE doubled
  /\ UNCHANGED <<nextContextId, contextByModel, asked>>
  /\ Quiet

(* initialize() awaits setContextLimit, which admits and refuses nothing.  *)
Initialize(m) ==
  /\ NewTask("load", m, "limit", 0)
  /\ UNCHANGED <<nextContextId, contextByModel, asked, doubled>>
  /\ Quiet

LimitSet(t) ==
  /\ t.at = "limit"
  /\ IF contextByModel[t.model] # 0
     THEN tasks' = tasks \ {t} /\ UNCHANGED doubled
     ELSE /\ tasks' = (tasks \ {t}) \cup {[t EXCEPT !.at = "memory"]}
          /\ doubled' = IF Overlapping(t.model) THEN doubled \cup {t.model} ELSE doubled
  /\ UNCHANGED <<nextContextId, contextByModel, asked, started>>
  /\ Quiet

(* After getMemorySnapshot: ensureCapacity refuses for memory or limit,    *)
(* unless the model was loaded meanwhile, ...                              *)
Refused(t) ==
  /\ t.at = "memory"
  /\ contextByModel[t.model] = 0
  /\ tasks' = tasks \ {t}
  /\ UNCHANGED <<nextContextId, contextByModel, started, asked, doubled>>
  /\ Quiet

(* ... or a new context id is requested from the plugin.                   *)
Requested(t) ==
  /\ t.at = "memory"
  /\ contextByModel[t.model] # 0 \/ Cardinality(Loaded) < MaxModels
  /\ nextContextId' = nextContextId + 1
  /\ Mobile!InitLlama
  /\ tasks' = (tasks \ {t}) \cup {[t EXCEPT !.at = "plugin", !.id = nextContextId]}
  /\ asked' = [asked EXCEPT ![nextContextId] = t.model]
  /\ UNCHANGED <<contextByModel, started, doubled>>

(* An unload of a model that is not loaded returns at once.                *)
UnloadModel(m) ==
  /\ contextByModel[m] # 0
  /\ NewTask("unload", m, "plugin", contextByModel[m])
  /\ UNCHANGED <<nextContextId, contextByModel, asked, doubled>>
  /\ \E h \in handles : h.id = contextByModel[m] /\ Mobile!Release(h)

Reload ==
  /\ nextContextId' = 1
  /\ Mobile!Reload
  /\ contextByModel' = [m \in Models |-> 0]
  /\ tasks' = {}
  /\ asked' = [i \in Id |-> None]
  /\ doubled' = {}
  /\ UNCHANGED started

-----------------------------------------------------------------------------
(* The plugin carries out a call, and the task that awaits it goes on.     *)

Awaiting ==
  {t \in tasks : /\ t.at = "plugin"
                 /\ (t.op = "load") = (Head(calls).op = "init")
                 /\ t.id = Head(calls).id
                 /\ Head(calls).page = page}
First == {t \in Awaiting : \A u \in Awaiting : t.call <= u.call}

Settle ==
  /\ calls # <<>>
  /\ tasks' = tasks \ First
  /\ UNCHANGED <<nextContextId, started, asked, doubled>>

InitContextRejected ==
  /\ Settle
  /\ Mobile!InitContextRejected
  /\ UNCHANGED contextByModel

(* A page that does not hear of its context leaves the name unset.         *)
InitContext ==
  /\ Settle
  /\ Mobile!InitContext
  /\ contextByModel' =
       [m \in Models |-> IF handles' # handles /\ \E t \in First : t.model = m
                         THEN Head(calls).id ELSE contextByModel[m]]

(* Mutant: the name outlives its context.                                  *)
ReleaseContextKept ==
  /\ Settle
  /\ Mobile!ReleaseContext
  /\ UNCHANGED contextByModel

(* Mutant: of a context that is gone already nobody hears.                 *)
ReleaseContextSilent ==
  /\ calls # <<>>
  /\ IF wrapper[Head(calls).id] # None THEN Settle
     ELSE UNCHANGED <<tasks, nextContextId, started, asked, doubled>>
  /\ Mobile!ReleaseContext
  /\ contextByModel' =
       [m \in Models |-> IF wrapper[Head(calls).id] # None /\ \E t \in First : t.model = m
                         THEN 0 ELSE contextByModel[m]]

(* A context that is gone already is an error, and the name stays.  The    *)
(* name is deleted whatever it stands for by then.                         *)
ReleaseContext ==
  /\ Settle
  /\ Mobile!ReleaseContext
  /\ contextByModel' =
       [m \in Models |-> IF wrapper[Head(calls).id] # None /\ \E t \in First : t.model = m
                         THEN 0 ELSE contextByModel[m]]

-----------------------------------------------------------------------------
Resume == \E t \in tasks : LimitSet(t) \/ Refused(t) \/ Requested(t)
Plugin == InitContextRejected \/ InitContext \/ ReleaseContext

Next ==
  \/ \E m \in Models : LoadModel(m) \/ Initialize(m) \/ UnloadModel(m)
  \/ Resume
  \/ Plugin
  \/ Reload

Spec == Init /\ [][Next]_vars

(* The page's event loop and the plugin's thread keep running.             *)
FairSpec == Spec /\ WF_vars(Resume) /\ WF_vars(Plugin)

-----------------------------------------------------------------------------
(* A name stands for a context in memory that this page's provider had     *)
(* loaded for that very model: generate() and embed() never run on another *)
(* model, whatever loads and unloads overlap and whatever an earlier page  *)
(* has left with the plugin.                                               *)
NamesReachTheirModel ==
  \A m \in Loaded :
    /\ asked[contextByModel[m]] = m
    /\ [id |-> contextByModel[m], native |-> wrapper[contextByModel[m]]] \in handles

(* A context this page loaded is lost to it, in memory but under no name,  *)
(* only where two loads of its model were under way at once.               *)
StraysAreDoubled ==
  \A h \in handles :
    wrapper[h.id] = h.native /\ (\A m \in Models : contextByModel[m] # h.id)
      => asked[h.id] \in doubled

(* Every call settles, or its page goes away.                              *)
CallsSettle ==
  \A k \in 1 .. MaxCalls :
    (\E t \in tasks : t.call = k) ~> (\A t \in tasks : t.call # k)
=============================================================================
