---------------------------- MODULE ModelService ----------------------------
(***************************************************************************)
(* What the native server promises of its models to the clients of its     *)
(* HTTP API, whatever threads, mutexes, tables and ids carry it out.  A    *)
(* model enters memory in one step, for a request that names it and within *)
(* the limit, and leaves it in one step, never under a generation.         *)
(* Generations come one at a time, each with a model in memory and, if the *)
(* request named one, with that.  Once the server closes, no model comes,  *)
(* and the only generations to begin are those of requests whose client    *)
(* had left without waiting, on models not yet released; when it is        *)
(* closed, no model is left, so that none can.                             *)
(*                                                                         *)
(* Embeddings are no part of it: they hold no lock while they use a model. *)
(***************************************************************************)
EXTENDS Naturals, FiniteSets

CONSTANTS Requests, Models, AnyModel, NoModel, Limits, MaxModels

VARIABLES
  held,         (* The models in memory.                                   *)
  limit,        (* How many there may be for one more to be loaded.        *)
  asked,        (* The model each request names, if any.                   *)
  uses,         (* The model each request generates with.                  *)
  left,         (* The requests nobody waits for any more.                 *)
  phase         (* open, closing or closed.                                *)

vars == <<held, limit, asked, uses, left, phase>>

Init ==
  /\ held \in {{}} \cup {{m} : m \in Models}
  /\ limit = MaxModels
  /\ asked = [r \in Requests |-> AnyModel]
  /\ uses = [r \in Requests |-> NoModel]
  /\ left = {}
  /\ phase = "open"

Unused(m) == \A r \in Requests : uses[r] # m
Leaves(m) == m \in held /\ Unused(m) /\ held' = held \ {m}

Ask(r, m) ==
  /\ phase = "open"
  /\ uses[r] = NoModel
  /\ asked' = [asked EXCEPT ![r] = m]
  /\ UNCHANGED <<held, limit, uses, left, phase>>

Load(r) ==
  /\ phase = "open"
  /\ asked[r] \in Models \ held
  /\ Cardinality(held) < limit
  /\ held' = held \cup {asked[r]}
  /\ UNCHANGED <<limit, asked, uses, left, phase>>

Unload(r) ==
  /\ phase = "open"
  /\ Leaves(asked[r])
  /\ UNCHANGED <<limit, asked, uses, left, phase>>

SetLimit(n) ==
  /\ phase = "open"
  /\ limit' = n
  /\ UNCHANGED <<held, asked, uses, left, phase>>

Generate(r, m) ==
  /\ phase = "open" \/ r \in left
  /\ \A q \in Requests : uses[q] = NoModel
  /\ m \in held /\ asked[r] \in {m, AnyModel}
  /\ uses' = [uses EXCEPT ![r] = m]
  /\ UNCHANGED <<held, limit, asked, left, phase>>

Generated(r) ==
  /\ uses[r] # NoModel
  /\ uses' = [uses EXCEPT ![r] = NoModel]
  /\ UNCHANGED <<held, limit, asked, left, phase>>

(* A client does not wait for the end of its request, or the server that   *)
(* closes does not let it.                                                 *)
Leave(r) ==
  /\ left' = left \cup {r}
  /\ UNCHANGED <<held, limit, asked, uses, phase>>

Close ==
  /\ phase = "open"
  /\ phase' = "closing"
  /\ UNCHANGED <<held, limit, asked, uses, left>>

Release(m) ==
  /\ phase = "closing"
  /\ Leaves(m)
  /\ UNCHANGED <<limit, asked, uses, left, phase>>

Closed ==
  /\ phase = "closing"
  /\ held = {}
  /\ phase' = "closed"
  /\ UNCHANGED <<held, limit, asked, uses, left>>

Next ==
  \/ \E r \in Requests :
       \/ Load(r) \/ Unload(r) \/ Generated(r) \/ Leave(r)
       \/ \E m \in Models : Generate(r, m)
       \/ \E m \in Models \cup {AnyModel} : Ask(r, m)
  \/ \E n \in Limits : SetLimit(n)
  \/ Close \/ (\E m \in Models : Release(m)) \/ Closed

Spec == Init /\ [][Next]_vars
=============================================================================
