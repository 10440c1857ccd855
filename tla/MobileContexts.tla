--------------------------- MODULE MobileContexts ---------------------------
(***************************************************************************)
(* Context ids on Android and iOS, over three layers: the page's JavaScript*)
(* (dist/esm/index.js) numbers the contexts it asks for; the plugin        *)
(* (LlamaCpp.java, LlamaCpp.swift) keeps a wrapper per number and admits a *)
(* load by counting its wrappers; the native library keeps the models.     *)
(*                                                                         *)
(* Capacitor hands the page's calls to the plugin one at a time and in     *)
(* order, so an action of the plugin is a whole call.  A page may reload:  *)
(* its module starts afresh, its calls are still carried out, their        *)
(* results reach nobody, and the plugin and the library keep what they     *)
(* have.                                                                   *)
(***************************************************************************)
EXTENDS Naturals, Sequences, FiniteSets, Functions

CONSTANTS
  MaxModels,    (* MAX_CONCURRENT_MODELS, the slots of canAdmit.           *)
  MaxInits,     (* Bounds the contexts a page asks for,                    *)
  MaxNative,    (*   the native contexts ever made,                        *)
  MaxPending,   (*   the calls under way,                                  *)
  MaxReloads,   (*   and the reloads of the page.                          *)
  None          (* No wrapper.                                             *)

ASSUME MobileBoundsAssumption ==
  {MaxModels, MaxInits, MaxNative, MaxPending, MaxReloads} \subseteq Nat
ASSUME NoneAssumption == None \notin Nat

VARIABLES
  platform,     (* android or ios.                                         *)
  page,         (* How often the page was reloaded.                        *)
  counter,      (* contextIdCounter of the page.                           *)
  handles,      (* The LlamaContext objects of the page.                   *)
  calls,        (* The page's calls the plugin has not carried out.        *)
  wrapper,      (* contexts: the native id behind each context id.         *)
  native,       (* The ids of the models in memory.                        *)
  nextNative    (* next_context_id / g_next_id.                            *)

jsVars == <<page, counter, handles>>
vars == <<platform, page, counter, handles, calls, wrapper, native, nextNative>>

Id == 1 .. MaxInits
NativeId == 1 .. MaxNative
Call == [op : {"init", "release"}, id : Id, page : Nat]
          \cup [op : {"releaseAll"}, page : Nat]

TypeOK ==
  /\ platform \in {"android", "ios"}
  /\ page \in 0 .. MaxReloads
  /\ counter \in 0 .. MaxInits
  /\ handles \subseteq [id : Id, native : NativeId]
  /\ calls \in Seq(Call)
  /\ wrapper \in [Id -> NativeId \cup {None}]
  /\ native \subseteq NativeId
  /\ nextNative \in 1 .. MaxNative + 1

Init ==
  /\ platform \in {"android", "ios"}
  /\ page = 0
  /\ counter = 0
  /\ handles = {}
  /\ calls = <<>>
  /\ wrapper = [i \in Id |-> None]
  /\ native = {}
  /\ nextNative = 1

Wrapped == {i \in Id : wrapper[i] # None}

-----------------------------------------------------------------------------
(* The page.                                                               *)

Request(c) ==
  /\ Len(calls) < MaxPending
  /\ calls' = Append(calls, c)
  /\ UNCHANGED <<platform, wrapper, native, nextNative>>

(* Mutant: ids that can collide, which "Fix #14" removed.                  *)
InitLlamaColliding ==
  /\ \E i \in Id : Request([op |-> "init", id |-> i, page |-> page])
  /\ UNCHANGED jsVars

InitLlama ==
  /\ counter < MaxInits
  /\ counter' = counter + 1
  /\ Request([op |-> "init", id |-> counter + 1, page |-> page])
  /\ UNCHANGED <<page, handles>>

(* LlamaContext.release; nothing stops a second one.                       *)
Release(h) ==
  /\ Request([op |-> "release", id |-> h.id, page |-> page])
  /\ UNCHANGED jsVars

ReleaseAllLlama ==
  /\ Request([op |-> "releaseAll", page |-> page])
  /\ UNCHANGED jsVars

Reload ==
  /\ page < MaxReloads
  /\ page' = page + 1
  /\ counter' = 0
  /\ handles' = {}
  /\ UNCHANGED <<platform, calls, wrapper, native, nextNative>>

-----------------------------------------------------------------------------
(* The plugin carries out the call at the head.                            *)

CarryOut(op) ==
  /\ calls # <<>>
  /\ Head(calls).op = op
  /\ calls' = Tail(calls)
  /\ UNCHANGED <<platform, page, counter>>

(* Mutant: nativeContextId < 0 is not tested; a failed load gets a wrapper.*)
InitContextUntested ==
  /\ CarryOut("init")
  /\ wrapper' = [wrapper EXCEPT ![Head(calls).id] = 0]
  /\ UNCHANGED <<handles, native, nextNative>>

(* Too many wrappers, too little memory, or the native load fails.         *)
InitContextRejected ==
  /\ CarryOut("init")
  /\ UNCHANGED <<handles, wrapper, native, nextNative>>

(* Mutant: the slots are counted one too many.                             *)
InitContextOneMore ==
  /\ CarryOut("init")
  /\ Cardinality(Wrapped) <= MaxModels
  /\ nextNative <= MaxNative
  /\ native' = native \cup {nextNative}
  /\ wrapper' = [wrapper EXCEPT ![Head(calls).id] = nextNative]
  /\ nextNative' = nextNative + 1
  /\ handles' = IF Head(calls).page # page THEN handles
                ELSE handles \cup {[id |-> Head(calls).id, native |-> nextNative]}

(* A wrapper with the same id is overwritten.  A page that is gone does    *)
(* not hear of its context, and on Android neither does one whose call     *)
(* threw after the wrapper was put in.                                     *)
InitContext ==
  /\ CarryOut("init")
  /\ Cardinality(Wrapped) < MaxModels
  /\ nextNative <= MaxNative
  /\ native' = native \cup {nextNative}
  /\ wrapper' = [wrapper EXCEPT ![Head(calls).id] = nextNative]
  /\ nextNative' = nextNative + 1
  /\ \/ /\ Head(calls).page = page
        /\ handles' = handles \cup {[id |-> Head(calls).id, native |-> nextNative]}
     \/ /\ Head(calls).page # page \/ platform = "android"
        /\ UNCHANGED handles

(* Mutant: the wrapper stays when its context is released ...              *)
ReleaseContextWrapped ==
  /\ CarryOut("release")
  /\ native' = native \ {wrapper[Head(calls).id]}
  /\ UNCHANGED <<wrapper, handles, nextNative>>

(* ... or the context when its wrapper is dropped.                         *)
ReleaseContextLeaking ==
  /\ CarryOut("release")
  /\ wrapper' = [wrapper EXCEPT ![Head(calls).id] = None]
  /\ UNCHANGED <<native, handles, nextNative>>

(* "Context not found" changes nothing: None is no native id.              *)
ReleaseContext ==
  /\ CarryOut("release")
  /\ native' = native \ {wrapper[Head(calls).id]}
  /\ wrapper' = [wrapper EXCEPT ![Head(calls).id] = None]
  /\ UNCHANGED <<handles, nextNative>>

(* iOS releases what the wrappers stand for; Android drops the wrappers.   *)
ReleaseAllContexts ==
  /\ CarryOut("releaseAll")
  /\ wrapper' = [i \in Id |-> None]
  /\ native' = IF platform = "ios" THEN native \ Range(wrapper) ELSE native
  /\ UNCHANGED <<handles, nextNative>>

-----------------------------------------------------------------------------
Next ==
  \/ InitLlama \/ (\E h \in handles : Release(h)) \/ ReleaseAllLlama \/ Reload
  \/ InitContextRejected \/ InitContext \/ ReleaseContext \/ ReleaseAllContexts

Spec == Init /\ [][Next]_vars

-----------------------------------------------------------------------------
(* Properties.                                                             *)

(* A wrapper stands for a context that is in memory, and no two for the    *)
(* same one: a call through a wrapper never reaches a freed context.       *)
WrappersBacked ==
  \A i \in Wrapped :
    /\ wrapper[i] \in native
    /\ \A j \in Wrapped \ {i} : wrapper[i] # wrapper[j]

(* A LlamaContext reaches the context its own initLlama made, or none:     *)
(* never one of another call with the same number, whatever calls of an    *)
(* earlier page were still under way when this one started.                *)
HandlesReachTheirOwn ==
  \A h \in handles : wrapper[h.id] \in {h.native, None}

(* A model becomes unreachable in memory only through releaseAllContexts   *)
(* on Android or after a reload, when numbers are given out again.         *)
Leaked == native \ Range(wrapper)
LeaksAccountedFor ==
  [][~(Leaked' \subseteq Leaked) =>
       \/ platform = "android" /\ Head(calls).op = "releaseAll"
       \/ page > 0]_vars

(* On iOS, and until the page reloads, counting wrappers is as good as     *)
(* counting models: the cap on wrappers is a cap on the models in memory.  *)
CapOnIos == platform = "ios" /\ page = 0 => Cardinality(native) <= MaxModels

(* "A hard cap on concurrent loaded models": what both admission           *)
(* controllers say of themselves.                                          *)
HardCap == Cardinality(native) <= MaxModels
=============================================================================
