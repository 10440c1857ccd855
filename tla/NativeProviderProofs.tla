------------------------ MODULE NativeProviderProofs ------------------------
(***************************************************************************)
(* Proofs about NativeProvider, for any models, limits and numbers of      *)
(* calls and reloads: it uses the plugin as MobileContexts allows, so that *)
(* what is proved there holds here; a name reaches a context loaded for    *)
(* its model; contexts are lost only to loads that overlap.                *)
(***************************************************************************)
EXTENDS NativeProvider, TLAPS

MP == INSTANCE MobileContextsProofs WITH counter <- nextContextId - 1

USE ModelsAssumption, BoundsAssumption

-----------------------------------------------------------------------------
(* The provider over the plugin.                                           *)

(* Both instances count alike. *)
LEMMA SameCount == \A S : Mobile!Cardinality(S) = MP!Cardinality(S)
  BY Zenon DEF Mobile!Cardinality, MP!Cardinality, Mobile!IsFiniteSet, MP!IsFiniteSet

LEMMA InitMobile == Init => MP!Init
  BY DEF Init, Mobile!Init, MP!Init, Mobile!Id, MP!Id

LEMMA NextMobile == [Next]_vars => [MP!Next]_(MP!vars)
<1> SUFFICES ASSUME [Next]_vars PROVE [MP!Next]_(MP!vars)
  OBVIOUS
<1> USE DEF MP!vars
<1>1. ASSUME Quiet, UNCHANGED nextContextId PROVE UNCHANGED MP!vars
  BY <1>1 DEF Quiet
<1>2. ASSUME NEW m \in Models, LoadModel(m) PROVE UNCHANGED MP!vars
  BY <1>1, <1>2 DEF LoadModel
<1>3. ASSUME NEW m \in Models, Initialize(m) PROVE UNCHANGED MP!vars
  BY <1>1, <1>3 DEF Initialize
<1>4. ASSUME NEW t \in tasks, LimitSet(t) \/ Refused(t) PROVE UNCHANGED MP!vars
  BY <1>1, <1>4 DEF LimitSet, Refused
<1>5. ASSUME NEW t \in tasks, Requested(t) PROVE MP!Next
  BY <1>5 DEF Requested, Mobile!InitLlama, Mobile!Request, MP!InitLlama, MP!Request, MP!Next
<1>6. ASSUME NEW m \in Models, UnloadModel(m) PROVE MP!Next
  <2>1. PICK h \in handles : Mobile!Release(h)
    BY <1>6 DEF UnloadModel
  <2>2. MP!Release(h)
    BY <2>1 DEF Mobile!Release, Mobile!Request, Mobile!jsVars, MP!Release, MP!Request, MP!jsVars
  <2>3. QED
    BY <2>2 DEF MP!Next
<1>7. CASE Reload
  BY <1>7 DEF Reload, Mobile!Reload, MP!Reload, MP!Next
<1>8. CASE InitContextRejected
  BY <1>8 DEF InitContextRejected, Mobile!InitContextRejected, Mobile!CarryOut,
              MP!InitContextRejected, MP!CarryOut, MP!Next
<1>9. CASE InitContext
  BY <1>9, SameCount DEF InitContext, Mobile!InitContext, Mobile!CarryOut, Mobile!Wrapped, Mobile!Id,
              MP!InitContext, MP!CarryOut, MP!Wrapped, MP!Id, MP!Next
<1>10. CASE ReleaseContext
  BY <1>10 DEF ReleaseContext, Mobile!ReleaseContext, Mobile!CarryOut,
               MP!ReleaseContext, MP!CarryOut, MP!Next
<1>11. CASE UNCHANGED vars
  BY <1>11 DEF vars, provider
<1>12. QED
  BY <1>2, <1>3, <1>4, <1>5, <1>6, <1>7, <1>8, <1>9, <1>10, <1>11
     DEF Next, Resume, Plugin
(* The provider's calls are calls a page of MobileContexts may make: what  *)
(* holds of the plugin and its contexts for any page holds under this one. *)
THEOREM UsesThePlugin == Spec => MP!Spec
  BY InitMobile, NextMobile, PTL DEF Spec, MP!Spec

-----------------------------------------------------------------------------
(* What is known of the plugin, and that contexts are new when made.       *)
HandlesOld == \A h \in handles : h.native < nextNative

MInv == MP!TypeOK /\ MP!HInv /\ HandlesOld /\ nextContextId \in Nat

LEMMA InitMInv == Init => MInv
<1>1. MP!Init => MP!TypeOK
  BY MP!InitTypeOK
<1>2. MP!Init => MP!HInv /\ HandlesOld
  BY DEF MP!Init, MP!HInv, MP!Pages, MP!Numbers, MP!HandlesReachTheirOwn, HandlesOld
<1>3. Init => nextContextId \in Nat
  BY DEF Init
<1>4. QED
  BY <1>1, <1>2, <1>3, InitMobile DEF MInv

(* What the invariant says of the variables, in plain words.               *)
LEMMA Plain ==
  ASSUME MInv
  PROVE  /\ page \in Nat /\ nextContextId \in 1 .. MaxInits + 1
         /\ handles \subseteq [id : Id, native : 1 .. MaxNative]
         /\ calls \in Seq(MP!Call) /\ Len(calls) \in Nat
         /\ \A i \in 1 .. Len(calls) : calls[i].page \in Nat /\ calls[i].page <= page
         /\ wrapper \in [Id -> 1 .. MaxNative \cup {None}]
         /\ nextNative \in Nat
         /\ \A h \in handles : h.id < nextContextId
         /\ handles # {} => \A i \in 1 .. Len(calls) : calls[i].page = page
<1>1. /\ calls \in Seq(MP!Call) /\ Len(calls) \in Nat
      /\ \A i \in 1 .. Len(calls) : calls[i] \in MP!Call
  BY DEF MInv, MP!TypeOK
<1>2. \A i \in 1 .. Len(calls) : calls[i].page \in Nat
  BY <1>1 DEF MP!Call
<1>3. nextContextId \in 1 .. MaxInits + 1
  BY DEF MInv, MP!TypeOK
<1>4. QED
  BY <1>1, <1>2, <1>3, SMTT(20)
     DEF MInv, MP!TypeOK, MP!HInv, MP!Pages, MP!Numbers, MP!Id, MP!NativeId, Id

LEMMA NextMInv == MInv /\ [Next]_vars => MInv'
<1> SUFFICES ASSUME MInv, [Next]_vars PROVE MInv'
  OBVIOUS
<1>1. [MP!Next]_(MP!vars)
  BY NextMobile
<1>2. MP!TypeOK' /\ MP!HInv'
  BY <1>1, MP!NextTypeOK, MP!NextHInv DEF MInv
<1>3. HandlesOld'
  <2>1. \/ handles' \subseteq handles /\ nextNative' = nextNative
        \/ /\ handles' = handles \/ \E i : handles' = handles \cup {[id |-> i, native |-> nextNative]}
           /\ nextNative' = nextNative + 1
    BY <1>1 DEF MP!Next, MP!vars, MP!InitLlama, MP!Request, MP!Release, MP!ReleaseAllLlama,
                MP!jsVars, MP!Reload, MP!InitContextRejected, MP!InitContext,
                MP!ReleaseContext, MP!ReleaseAllContexts, MP!CarryOut
  <2>2. nextNative \in Nat /\ \A h \in handles : h.native \in Nat /\ h.native < nextNative
    BY Plain DEF MInv, HandlesOld
  <2>3. QED
    BY <2>1, <2>2 DEF HandlesOld
<1>4. nextContextId' \in Nat
  <2>1. ASSUME NEW t \in tasks, Requested(t) PROVE nextContextId' \in Nat
    BY <2>1 DEF Requested, MInv
  <2>2. CASE Reload
    BY <2>2 DEF Reload
  <2>3. CASE UNCHANGED nextContextId
    BY <2>3 DEF MInv
  <2>4. QED
    BY <2>1, <2>2, <2>3 DEF Next, LoadModel, Initialize, Resume, LimitSet, Refused,
       UnloadModel, Plugin, InitContextRejected, InitContext, ReleaseContext,
       Settle, vars, provider
<1>5. QED
  BY <1>2, <1>3, <1>4 DEF MInv

-----------------------------------------------------------------------------
(* The provider's own variables.                                           *)

OwnTypes ==
  /\ contextByModel \in [Models -> 0 .. MaxInits]
  /\ tasks \subseteq Task
  /\ started \in 0 .. MaxCalls
  /\ asked \in [Id -> Models \cup {None}]
  /\ doubled \subseteq Models

LEMMA TypesTogether == TypeOK <=> MP!TypeOK /\ nextContextId \in 1 .. MaxInits + 1 /\ OwnTypes
  BY DEF TypeOK, OwnTypes, Mobile!TypeOK, Mobile!Id, Mobile!NativeId, Mobile!Call,
         MP!TypeOK, MP!Id, MP!NativeId, MP!Call

(* The calls that wait for the plugin.                                     *)
Sent == {t \in tasks : t.at = "plugin"}

Numbered ==
  \A t \in tasks : /\ t.call <= started
                   /\ \A u \in tasks : t.call = u.call => t = u
                   /\ t.at # "plugin" => t.op = "load"

AskedFor ==
  \A t \in Sent : t.id \in Id /\ t.id < nextContextId /\ asked[t.id] = t.model

(* A task sent to the plugin is the same task.                             *)
LEMMA SentOn ==
  ASSUME NEW t \in Task, NEW i \in Id
  PROVE  LET u == [t EXCEPT !.at = "plugin", !.id = i]
         IN  /\ u \in Task
             /\ u.call = t.call /\ u.op = t.op /\ u.model = t.model
             /\ u.at = "plugin" /\ u.id = i
<1> DEFINE u == [t EXCEPT !.at = "plugin", !.id = i]
<1>1. u = [[t EXCEPT !.at = "plugin"] EXCEPT !.id = i]
  BY DEF Task
<1>2. [t EXCEPT !.at = "plugin"] \in Task /\ i \in 0 .. MaxInits
  BY DEF Task, Id
<1>3. u \in Task
  BY <1>1, <1>2 DEF Task
<1>4. u.call = t.call /\ u.op = t.op /\ u.model = t.model /\ u.at = "plugin" /\ u.id = i
  BY DEF Task
<1>5. QED
  BY <1>3, <1>4

LEMMA NextOwnTypes == MInv /\ OwnTypes /\ [Next]_vars => OwnTypes'
<1> SUFFICES ASSUME MInv, OwnTypes, [Next]_vars PROVE OwnTypes'
  OBVIOUS
<1> USE DEF OwnTypes
<1>1. ASSUME NEW op \in {"load", "unload"}, NEW m \in Models,
             NEW at \in {"limit", "memory", "plugin"}, NEW id \in 0 .. MaxInits,
             NewTask(op, m, at, id)
      PROVE  tasks' \subseteq Task /\ started' \in 0 .. MaxCalls
  BY <1>1 DEF NewTask, Task
<1>2. ASSUME NEW m \in Models, LoadModel(m) PROVE OwnTypes'
  BY <1>1, <1>2 DEF LoadModel
<1>3. ASSUME NEW m \in Models, Initialize(m) PROVE OwnTypes'
  BY <1>1, <1>3 DEF Initialize
<1>4. ASSUME NEW t \in tasks, LimitSet(t) PROVE OwnTypes'
  BY <1>4 DEF LimitSet, Task
<1>5. ASSUME NEW t \in tasks, Refused(t) PROVE OwnTypes'
  BY <1>5 DEF Refused
<1>6. ASSUME NEW t \in tasks, Requested(t) PROVE OwnTypes'
  <2>1. nextContextId \in Id
    BY <1>6, Plain DEF Requested, Mobile!InitLlama, Id
  <2>2. t.model \in Models
    BY DEF Task
  <2>3. [t EXCEPT !.at = "plugin", !.id = nextContextId] \in Task
    BY <2>1, SentOn
  <2>4. tasks' \subseteq Task /\ asked' \in [Id -> Models \cup {None}]
    BY <1>6, <2>1, <2>2, <2>3 DEF Requested
  <2>5. QED
    BY <1>6, <2>4 DEF Requested
<1>7. ASSUME NEW m \in Models, UnloadModel(m) PROVE OwnTypes'
  BY <1>1, <1>7 DEF UnloadModel
<1>8. CASE Reload
  BY <1>8 DEF Reload
<1>9. CASE InitContextRejected
  BY <1>9 DEF InitContextRejected, Settle
<1>10. CASE InitContext
  <2>1. Head(calls).id \in Id
    BY <1>10, MP!AfterHead, MP!CallFields, Plain
       DEF InitContext, Mobile!InitContext, Mobile!CarryOut, MP!Id, Id
  <2>2. QED
    BY <1>10, <2>1 DEF InitContext, Settle, Id
<1>11. CASE ReleaseContext
  BY <1>11 DEF ReleaseContext, Settle
<1>12. CASE UNCHANGED vars
  BY <1>12 DEF vars, provider
<1>13. QED
  BY <1>2, <1>3, <1>4, <1>5, <1>6, <1>7, <1>8, <1>9, <1>10, <1>11, <1>12
     DEF Next, Resume, Plugin

(* Types, whatever is under way.                                           *)
THEOREM TypeCorrect == Spec => []TypeOK
<1>1. Init => OwnTypes
  BY DEF Init, OwnTypes, Task
<1>2. MInv /\ OwnTypes => TypeOK
  BY TypesTogether, Plain DEF MInv
<1>3. QED
  BY <1>1, <1>2, InitMInv, NextMInv, NextOwnTypes, PTL DEF Spec
-----------------------------------------------------------------------------
(* Tasks and the plugin's queue.  Each task that waits for the plugin has  *)
(* its call in the queue and each call of this page its task; tasks that   *)
(* wait for the same are served in the order they were made; and, but for  *)
(* doubled models, what is to be unloaded is unloaded before what is to be *)
(* loaded in its place.                                                    *)
Matches(pos) ==
  /\ \A t \in Sent :
       /\ calls[pos[t]].op = IF t.op = "load" THEN "init" ELSE "release"
       /\ calls[pos[t]].id = t.id
       /\ calls[pos[t]].page = page
  /\ \A t, u \in Sent :
       t.op = u.op /\ t.id = u.id /\ t.call < u.call => pos[t] < pos[u]
  /\ \A t, u \in Sent :
       t.op = "unload" /\ u.op = "load" /\ t.model = u.model /\ t.model \notin doubled
         => pos[t] < pos[u]
  /\ \A i \in 1 .. Len(calls) : calls[i].page = page => \E t \in Sent : pos[t] = i

Queue == \E pos \in [Sent -> 1 .. Len(calls)] : Matches(pos)

LEMMA QueueStays ==
  ASSUME Queue, Sent' = Sent, UNCHANGED <<calls, page>>, doubled \subseteq doubled'
  PROVE  Queue'
<1>1. PICK pos \in [Sent -> 1 .. Len(calls)] : Matches(pos)
  BY DEF Queue
<1>2. Matches(pos)'
  BY <1>1 DEF Matches
<1>3. QED
  BY <1>1, <1>2 DEF Queue

LEMMA QueueGrows ==
  ASSUME MInv, Queue, UNCHANGED <<page, doubled>>,
         NEW c \in MP!Call, calls' = Append(calls, c),
         NEW u \in Task, u \notin Sent, Sent' = Sent \cup {u},
         c.op = IF u.op = "load" THEN "init" ELSE "release",
         c.id = u.id, c.page = page,
         \A t \in Sent : t.op = u.op /\ t.id = u.id => ~(u.call < t.call),
         \A t \in Sent : u.op = "unload" /\ t.op = "load" /\ t.model = u.model
                         => t.model \in doubled
  PROVE  Queue'
<1>1. PICK pos \in [Sent -> 1 .. Len(calls)] : Matches(pos)
  BY DEF Queue
<1>2. /\ Len(calls) \in Nat /\ Len(calls') = Len(calls) + 1
      /\ \A i \in 1 .. Len(calls) : calls'[i] = calls[i]
      /\ calls'[Len(calls')] = c
  BY MP!AfterRequest, Plain
<1>3. PICK new \in [Sent' -> 1 .. Len(calls')] :
        /\ new[u] = Len(calls')
        /\ \A t \in Sent : new[t] = pos[t] /\ pos[t] \in 1 .. Len(calls)
                          /\ new[t] < new[u] /\ calls'[new[t]] = calls[pos[t]]
  <2> DEFINE f == [t \in Sent' |-> IF t = u THEN Len(calls') ELSE pos[t]]
  <2>1. /\ f \in [Sent' -> 1 .. Len(calls')]
        /\ f[u] = Len(calls')
        /\ \A t \in Sent : f[t] = pos[t] /\ pos[t] \in 1 .. Len(calls)
                          /\ f[t] < f[u] /\ calls'[f[t]] = calls[pos[t]]
    BY <1>1, <1>2
  <2>2. QED
    BY <2>1
<1>4. \A t \in Sent' :
        /\ calls'[new[t]].op = IF t.op = "load" THEN "init" ELSE "release"
        /\ calls'[new[t]].id = t.id
        /\ calls'[new[t]].page = page'
  BY <1>1, <1>2, <1>3 DEF Matches
<1>5. \A t, v \in Sent' :
        t.op = v.op /\ t.id = v.id /\ t.call < v.call => new[t] < new[v]
  <2>1. ~(u.call < u.call)
    BY DEF Task
  <2>2. SUFFICES ASSUME NEW t \in Sent', NEW v \in Sent',
                        t.op = v.op, t.id = v.id, t.call < v.call
                 PROVE  new[t] < new[v]
    OBVIOUS
  <2>3. CASE t \in Sent /\ v \in Sent
    BY <1>1, <1>3, <2>2, <2>3 DEF Matches
  <2>4. CASE t \in Sent /\ v = u
    BY <1>3, <2>4
  <2>5. CASE t = u /\ v \in Sent
    BY <2>2, <2>5
  <2>6. CASE t = u /\ v = u
    BY <2>1, <2>2, <2>6
  <2>7. QED
    BY <2>3, <2>4, <2>5, <2>6
<1>6. \A t, v \in Sent' :
        t.op = "unload" /\ v.op = "load" /\ t.model = v.model /\ t.model \notin doubled'
          => new[t] < new[v]
  <2>1. SUFFICES ASSUME NEW t \in Sent', NEW v \in Sent', t.op = "unload", v.op = "load",
                        t.model = v.model, t.model \notin doubled
                 PROVE  new[t] < new[v]
    OBVIOUS
  <2>2. CASE t \in Sent /\ v \in Sent
    BY <1>1, <1>3, <2>1, <2>2 DEF Matches
  <2>3. CASE t \in Sent /\ v = u
    BY <1>3, <2>3
  <2>4. CASE t = u
    BY <2>1, <2>4
  <2>5. QED
    BY <2>2, <2>3, <2>4
<1>7. \A i \in 1 .. Len(calls') : calls'[i].page = page' => \E t \in Sent' : new[t] = i
  <2>1. SUFFICES ASSUME NEW i \in 1 .. Len(calls'), calls'[i].page = page
                 PROVE  \E t \in Sent' : new[t] = i
    OBVIOUS
  <2>2. CASE i = Len(calls')
    BY <1>3, <2>2
  <2>3. CASE i \in 1 .. Len(calls)
    <3>1. PICK t \in Sent : pos[t] = i
      BY <1>1, <1>2, <2>1, <2>3 DEF Matches
    <3>2. QED
      BY <1>3, <3>1
  <2>4. QED
    BY <1>2, <2>2, <2>3
<1>8. Matches(new)'
  BY <1>4, <1>5, <1>6, <1>7 DEF Matches
<1>9. QED
  BY <1>3, <1>8 DEF Queue
LEMMA HeadIsOne ==
  ASSUME MInv, calls # <<>>
  PROVE  Head(calls) = calls[1] /\ 1 \in 1 .. Len(calls) /\ Head(calls) \in MP!Call
<1>1. calls \in Seq(MP!Call)
  BY Plain
<1>2. QED
  BY <1>1

(* The task whose call is at the head of the queue is the one served.      *)
LEMMA HeadIsFirst ==
  ASSUME MInv, OwnTypes, Numbered, calls # <<>>,
         NEW pos \in [Sent -> 1 .. Len(calls)], Matches(pos),
         NEW s \in Sent, pos[s] = 1
  PROVE  /\ First = {s}
         /\ Head(calls).page = page /\ Head(calls).id = s.id
         /\ Head(calls).op = IF s.op = "load" THEN "init" ELSE "release"
<1>1. Head(calls) = calls[1]
  BY Plain, HeadIsOne
<1>2. /\ Head(calls).page = page /\ Head(calls).id = s.id
      /\ Head(calls).op = IF s.op = "load" THEN "init" ELSE "release"
  BY <1>1 DEF Matches
<1>3. tasks \subseteq Task /\ s \in tasks /\ s.at = "plugin"
  BY DEF OwnTypes, Sent
<1>4. \A t \in tasks : t.call \in Nat /\ t.op \in {"load", "unload"}
  BY <1>3 DEF Task
<1>5. s \in Awaiting
  BY <1>2, <1>3, <1>4 DEF Awaiting
<1>6. ASSUME NEW t \in Awaiting PROVE s.call <= t.call /\ (t.call <= s.call => t = s)
  <2>1. t \in Sent /\ t \in tasks /\ t.id = s.id /\ t.op = s.op
    BY <1>2, <1>4, <1>3, <1>6 DEF Awaiting, Sent
  <2>2. ~(t.call < s.call)
    <3>1. SUFFICES ASSUME t.call < s.call PROVE FALSE
      OBVIOUS
    <3>2. pos[t] < pos[s] /\ pos[t] \in 1 .. Len(calls)
      BY <2>1, <3>1 DEF Matches
    <3>3. QED
      BY <3>2, Plain
  <2>3. t.call = s.call => t = s
    BY <1>3, <2>1 DEF Numbered
  <2>4. QED
    BY <1>3, <1>4, <2>1, <2>2, <2>3
<1>7. First = {s}
  BY <1>5, <1>6 DEF First
<1>8. QED
  BY <1>2, <1>7

LEMMA HeadServed ==
  ASSUME MInv, OwnTypes, Numbered, calls # <<>>,
         NEW pos \in [Sent -> 1 .. Len(calls)], Matches(pos)
  PROVE  \/ Head(calls).page # page /\ First = {}
         \/ \E s \in Sent : pos[s] = 1 /\ First = {s}
<1>1. Head(calls) = calls[1] /\ 1 \in 1 .. Len(calls)
  BY Plain, HeadIsOne
<1>2. CASE Head(calls).page # page
  BY <1>2 DEF First, Awaiting
<1>3. CASE Head(calls).page = page
  <2>1. PICK s \in Sent : pos[s] = 1
    BY <1>1, <1>3 DEF Matches
  <2>2. QED
    BY <2>1, HeadIsFirst
<1>4. QED
  BY <1>2, <1>3

LEMMA QueueShrinks ==
  ASSUME MInv, OwnTypes, Numbered, Queue, UNCHANGED <<page, doubled>>,
         calls # <<>>, calls' = Tail(calls), tasks' = tasks \ First
  PROVE  Queue'
<1>1. PICK pos \in [Sent -> 1 .. Len(calls)] : Matches(pos)
  BY DEF Queue
<1>2. /\ Len(calls) \in Nat /\ Len(calls') = Len(calls) - 1
      /\ \A i \in 1 .. Len(calls') : calls'[i] = calls[i + 1]
  BY MP!AfterHead, Plain
<1>3. Sent' = Sent \ First
  BY DEF Sent
<1>4. \A t \in Sent' : t \in Sent /\ pos[t] \in 2 .. Len(calls)
  <2>1. ASSUME NEW t \in Sent', pos[t] = 1 PROVE FALSE
    BY <1>1, <1>3, <2>1, HeadIsFirst
  <2>2. QED
    BY <1>1, <1>2, <1>3, <2>1
<1>5. PICK new \in [Sent' -> 1 .. Len(calls')] :
        \A t \in Sent' : /\ new[t] = pos[t] - 1 /\ pos[t] \in Int
                         /\ calls'[new[t]] = calls[pos[t]]
  <2> DEFINE f == [t \in Sent' |-> pos[t] - 1]
  <2>1. \A t \in Sent' : f[t] \in 1 .. Len(calls') /\ f[t] + 1 = pos[t]
    BY <1>2, <1>4
  <2>2. /\ f \in [Sent' -> 1 .. Len(calls')]
        /\ \A t \in Sent' : /\ f[t] = pos[t] - 1 /\ pos[t] \in Int
                             /\ calls'[f[t]] = calls[pos[t]]
    BY <1>2, <1>4, <2>1
  <2>3. QED
    BY <2>2
<1>6. \A i \in 1 .. Len(calls') : calls'[i].page = page' => \E t \in Sent' : new[t] = i
  <2>1. SUFFICES ASSUME NEW i \in 1 .. Len(calls'), calls'[i].page = page
                 PROVE  \E t \in Sent' : new[t] = i
    OBVIOUS
  <2>2. i + 1 \in 1 .. Len(calls) /\ calls[i + 1].page = page
    BY <1>2, <2>1
  <2>3. PICK t \in Sent : pos[t] = i + 1
    BY <1>1, <2>2 DEF Matches
  <2>4. t \notin First
    BY <1>1, <2>3, HeadServed
  <2>5. QED
    BY <1>3, <1>5, <2>3, <2>4
<1>7. Matches(new)'
  <2>1. \A t \in Sent' : t \in Sent
    BY <1>3
  <2>2. \A t \in Sent' :
          /\ calls'[new[t]].op = IF t.op = "load" THEN "init" ELSE "release"
          /\ calls'[new[t]].id = t.id
          /\ calls'[new[t]].page = page'
    BY <1>1, <1>5, <2>1 DEF Matches
  <2>3. \A t, u \in Sent' : pos[t] < pos[u] => new[t] < new[u]
    BY <1>5
  <2>4. QED
    BY <1>1, <1>6, <2>1, <2>2, <2>3 DEF Matches
<1>8. QED
  BY <1>7 DEF Queue
-----------------------------------------------------------------------------
(* Where loads of a model overlap, it is doubled: two are under way, one   *)
(* is and the model is loaded, or its context is not the one an unload     *)
(* was asked for.                                                          *)
Under(t) == t.op = "load" /\ t.at # "limit"

Overlaps ==
  /\ \A t, u \in tasks :
       Under(t) /\ Under(u) /\ t.model = u.model /\ t # u => t.model \in doubled
  /\ \A t \in tasks : Under(t) /\ contextByModel[t.model] # 0 => t.model \in doubled
  /\ \A t \in Sent :
       t.op = "unload" /\ contextByModel[t.model] \notin {0, t.id} => t.model \in doubled

Names == NamesReachTheirModel /\ StraysAreDoubled

IInv == /\ MInv /\ OwnTypes /\ Numbered /\ AskedFor
        /\ Queue /\ Overlaps /\ Names

LEMMA InitIInv == Init => IInv
<1> SUFFICES ASSUME Init PROVE IInv
  OBVIOUS
<1>1. MInv
  BY InitMInv
<1>2. OwnTypes /\ Numbered /\ AskedFor /\ Overlaps
  BY DEF Init, OwnTypes, Numbered, AskedFor, Overlaps, Sent
<1>3. Names
  BY DEF Init, Names, NamesReachTheirModel, StraysAreDoubled, Loaded, Mobile!Init
<1>4. Queue
  <2>1. calls = <<>> /\ Sent = {}
    BY DEF Init, Mobile!Init, Sent
  <2>2. [t \in Sent |-> 0] \in [Sent -> 1 .. Len(calls)]
    BY <2>1
  <2>3. Matches([t \in Sent |-> 0])
    BY <2>1 DEF Matches
  <2>4. QED
    BY <2>2, <2>3 DEF Queue
<1>5. QED
  BY <1>1, <1>2, <1>3, <1>4 DEF IInv

-----------------------------------------------------------------------------
(* The parts of the invariant, action by action.                           *)

LEMMA NumberedGrows ==
  ASSUME OwnTypes, Numbered, NEW op, NEW m, NEW at, NEW id, NewTask(op, m, at, id),
         at # "plugin" => op = "load"
  PROVE  /\ Numbered'
         /\ \A t \in tasks : t.call < started + 1
<1> DEFINE u == [call |-> started + 1, op |-> op, model |-> m, at |-> at, id |-> id]
<1>1. /\ tasks' = tasks \cup {u} /\ started' = started + 1
      /\ started \in Nat /\ \A t \in tasks : t.call \in Nat
  BY DEF NewTask, OwnTypes, Task
<1>2. \A t \in tasks : t.call < started + 1 /\ t.call <= started + 1
  BY <1>1 DEF Numbered
<1>3. u.call = started + 1 /\ u.at = at /\ u.op = op
  OBVIOUS
<1> HIDE DEF u
<1>4. ASSUME NEW t \in tasks' PROVE t.call <= started' /\ (t.at # "plugin" => t.op = "load")
  BY <1>1, <1>2, <1>3, <1>4 DEF Numbered
<1>5. ASSUME NEW t \in tasks', NEW v \in tasks', t.call = v.call PROVE t = v
  BY <1>1, <1>2, <1>3, <1>5 DEF Numbered
<1>6. QED
  BY <1>2, <1>4, <1>5 DEF Numbered

(* A step of a task replaces it by itself further on, or ends it.          *)
LEMMA NumberedGoesOn ==
  ASSUME Numbered, NEW t \in tasks, NEW u, u.call = t.call,
         u.at # "plugin" => u.op = "load",
         tasks' \subseteq (tasks \ {t}) \cup {u}, UNCHANGED started
  PROVE  Numbered'
<1>1. \A v \in tasks' : v = u \/ (v \in tasks /\ v # t)
  OBVIOUS
<1>2. \A v \in tasks : v # t => v.call # u.call
  BY DEF Numbered
<1>3. ASSUME NEW v \in tasks' PROVE v.call <= started' /\ (v.at # "plugin" => v.op = "load")
  BY <1>1, <1>3 DEF Numbered
<1>4. ASSUME NEW v \in tasks', NEW w \in tasks', v.call = w.call PROVE v = w
  BY <1>1, <1>2, <1>4 DEF Numbered
<1>5. QED
  BY <1>3, <1>4 DEF Numbered

(* What a step that leaves the plugin and its tasks alone preserves.       *)
LEMMA Apart ==
  ASSUME IInv, Quiet, UNCHANGED <<nextContextId, contextByModel, asked>>,
         Sent' = Sent, doubled \subseteq doubled'
  PROVE  AskedFor' /\ Queue' /\ Names'
<1>1. Queue'
  BY QueueStays DEF IInv, Quiet
<1>2. AskedFor'
  BY DEF IInv, AskedFor
<1>3. NamesReachTheirModel'
  BY DEF IInv, Names, NamesReachTheirModel, Loaded, Quiet
<1>4. StraysAreDoubled'
  BY DEF IInv, Names, StraysAreDoubled, Quiet
<1>5. QED
  BY <1>1, <1>2, <1>3, <1>4 DEF Names

(* A load that comes under way is seen by those under way, and its model   *)
(* is not loaded.                                                          *)
LEMMA OverlapsGrow ==
  ASSUME IInv, NEW m \in Models, contextByModel[m] = 0,
         NEW u, u.model = m, u.at # "plugin",
         NEW rest \in SUBSET tasks, tasks' = rest \cup {u}, Sent' = Sent,
         doubled' = IF Overlapping(m) THEN doubled \cup {m} ELSE doubled,
         UNCHANGED contextByModel
  PROVE  Overlaps'
<1>1. \A t \in rest : t \in tasks /\ (Under(t) /\ t.model = m => m \in doubled')
  BY DEF Overlapping, Under
<1>2. doubled \subseteq doubled'
  OBVIOUS
<1>3. ASSUME NEW t \in tasks', NEW v \in tasks', Under(t), Under(v), t.model = v.model, t # v
      PROVE  t.model \in doubled'
  BY <1>1, <1>2, <1>3 DEF IInv, Overlaps
<1>4. ASSUME NEW t \in tasks', Under(t), contextByModel'[t.model] # 0 PROVE t.model \in doubled'
  BY <1>1, <1>2, <1>4 DEF IInv, Overlaps
<1>5. ASSUME NEW t \in Sent', t.op = "unload", contextByModel'[t.model] \notin {0, t.id}
      PROVE  t.model \in doubled'
  BY <1>2, <1>5 DEF IInv, Overlaps
<1>6. QED
  BY <1>3, <1>4, <1>5 DEF Overlaps, Under
LEMMA LoadModelIInv ==
  ASSUME IInv, NEW m \in Models, LoadModel(m)
  PROVE  Numbered' /\ AskedFor' /\ Queue' /\ Overlaps' /\ Names'
<1> DEFINE u == [call |-> started + 1, op |-> "load", model |-> m, at |-> "memory", id |-> 0]
<1>1. tasks' = tasks \cup {u}
  BY DEF LoadModel, NewTask
<1>2. Sent' = Sent
  BY <1>1 DEF Sent
<1>3. Numbered'
  BY NumberedGrows DEF LoadModel, IInv
<1>4. Overlaps'
  <2>1. u.model = m /\ u.at # "plugin"
    OBVIOUS
  <2>2. QED
    BY <1>1, <1>2, <2>1, OverlapsGrow DEF LoadModel
<1>5. QED
  BY <1>2, <1>3, <1>4, Apart DEF LoadModel

LEMMA InitializeIInv ==
  ASSUME IInv, NEW m \in Models, Initialize(m)
  PROVE  Numbered' /\ AskedFor' /\ Queue' /\ Overlaps' /\ Names'
<1> DEFINE u == [call |-> started + 1, op |-> "load", model |-> m, at |-> "limit", id |-> 0]
<1>1. tasks' = tasks \cup {u}
  BY DEF Initialize, NewTask
<1>2. Sent' = Sent /\ ~Under(u)
  BY <1>1 DEF Sent, Under
<1>3. Numbered'
  BY NumberedGrows DEF Initialize, IInv
<1>4. Overlaps'
  <2>1. \A t \in tasks' : Under(t) => t \in tasks
    BY <1>1, <1>2
  <2>2. doubled' = doubled /\ contextByModel' = contextByModel
    BY DEF Initialize
  <2>3. QED
    BY <1>2, <2>1, <2>2 DEF IInv, Overlaps, Under
<1>5. QED
  BY <1>2, <1>3, <1>4, Apart DEF Initialize

LEMMA LimitSetIInv ==
  ASSUME IInv, NEW t \in tasks, LimitSet(t)
  PROVE  Numbered' /\ AskedFor' /\ Queue' /\ Overlaps' /\ Names'
<1> DEFINE u == [t EXCEPT !.at = "memory"]
<1>1. t \in Task /\ t.op = "load" /\ t.at = "limit"
  BY DEF IInv, OwnTypes, Numbered, LimitSet
<1>2. u.call = t.call /\ u.model = t.model /\ u.at = "memory" /\ u.op = "load"
  BY <1>1 DEF Task
<1>3. tasks' \subseteq (tasks \ {t}) \cup {u}
  BY DEF LimitSet
<1> HIDE DEF u
<1>4. Numbered'
  BY <1>2, <1>3, NumberedGoesOn DEF LimitSet, IInv
<1>5. Sent' = Sent
  BY <1>1, <1>2 DEF LimitSet, Sent, u
<1>6. Overlaps'
  <2>1. CASE contextByModel[t.model] # 0
    <3>1. tasks' = tasks \ {t} /\ doubled' = doubled /\ contextByModel' = contextByModel
      BY <2>1 DEF LimitSet
    <3>2. QED
      BY <1>5, <3>1 DEF IInv, Overlaps, Under
  <2>2. CASE contextByModel[t.model] = 0
    <3>1. /\ tasks' = (tasks \ {t}) \cup {u} /\ contextByModel' = contextByModel
          /\ doubled' = IF Overlapping(t.model) THEN doubled \cup {t.model} ELSE doubled
      BY <2>2 DEF LimitSet, u
    <3>2. t.model \in Models /\ tasks \ {t} \in SUBSET tasks
      BY <1>1 DEF Task
    <3>3. QED
      BY <1>2, <1>5, <2>2, <3>1, <3>2, OverlapsGrow
  <2>3. QED
    BY <2>1, <2>2
<1>7. doubled \subseteq doubled'
  BY DEF LimitSet
<1>8. QED
  BY <1>4, <1>5, <1>6, <1>7, Apart DEF LimitSet

LEMMA RefusedIInv ==
  ASSUME IInv, NEW t \in tasks, Refused(t)
  PROVE  Numbered' /\ AskedFor' /\ Queue' /\ Overlaps' /\ Names'
<1>1. Sent' = Sent /\ tasks' \subseteq tasks
  BY DEF Refused, Sent
<1>2. Numbered'
  BY <1>1 DEF IInv, Numbered, Refused
<1>3. Overlaps'
  BY <1>1 DEF IInv, Overlaps, Under, Refused
<1>4. QED
  BY <1>1, <1>2, <1>3, Apart DEF Refused
LEMMA RequestedIInv ==
  ASSUME IInv, NEW t \in tasks, Requested(t)
  PROVE  Numbered' /\ AskedFor' /\ Queue' /\ Overlaps' /\ Names'
<1> DEFINE u == [t EXCEPT !.at = "plugin", !.id = nextContextId]
           c == [op |-> "init", id |-> nextContextId, page |-> page]
<1>1. t \in Task /\ t.op = "load" /\ t.at = "memory" /\ nextContextId \in Id
  BY Plain DEF IInv, OwnTypes, Numbered, Requested, Mobile!InitLlama, Id
<1>2. /\ u \in Task /\ u.call = t.call /\ u.op = "load" /\ u.model = t.model
      /\ u.at = "plugin" /\ u.id = nextContextId
  BY <1>1, SentOn
<1>3. /\ c \in MP!Call /\ c.op = "init" /\ c.id = nextContextId /\ c.page = page
  BY <1>1, Plain DEF IInv, MP!Call, MP!Id, Id
<1>4. calls' = Append(calls, c)
  <2>1. nextContextId - 1 + 1 = nextContextId
    BY <1>1 DEF Id
  <2>2. QED
    BY <2>1 DEF Requested, Mobile!InitLlama, Mobile!Request
<1>5. /\ UNCHANGED <<page, handles, wrapper, contextByModel, started, doubled>>
      /\ tasks' = (tasks \ {t}) \cup {u}
      /\ nextContextId' = nextContextId + 1
      /\ asked' = [asked EXCEPT ![nextContextId] = t.model]
  BY DEF Requested, Mobile!InitLlama, Mobile!Request
<1> HIDE DEF u, c
<1>6. u \notin Sent /\ Sent' = Sent \cup {u}
  <2>1. u \notin Sent
    BY <1>1, <1>2 DEF IInv, Numbered, Sent
  <2>2. QED
    BY <1>1, <1>2, <1>5, <2>1 DEF Sent
<1>7. Numbered'
  BY <1>2, <1>5, NumberedGoesOn DEF IInv
<1>8. \A v \in Sent : v.id < nextContextId /\ v.id \in Int /\ v.id # u.id
  BY <1>1, <1>2 DEF IInv, AskedFor, Id
<1>9. AskedFor'
  <2>1. asked' \in [Id -> Models \cup {None}] /\ asked'[nextContextId] = t.model
    BY <1>1, <1>5 DEF IInv, OwnTypes, Task
  <2>2. \A v \in Sent : v.id \in Id /\ v.id < nextContextId' /\ asked'[v.id] = v.model
    BY <1>1, <1>5, <1>8 DEF IInv, AskedFor, OwnTypes, Id
  <2>3. QED
    BY <1>1, <1>2, <1>5, <1>6, <2>1, <2>2 DEF AskedFor, Id
<1>10. Queue'
  BY <1>2, <1>3, <1>4, <1>5, <1>6, <1>8, QueueGrows DEF IInv
<1>11. Overlaps'
  <2>1. Under(t) /\ Under(u) /\ u.model = t.model
    BY <1>1, <1>2 DEF Under
  <2>2. \A v \in tasks' : v = u \/ (v \in tasks /\ v # t)
    BY <1>5
  <2>3. ASSUME NEW v \in tasks', NEW w \in tasks',
               Under(v), Under(w), v.model = w.model, v # w
        PROVE  v.model \in doubled'
    BY <1>5, <2>1, <2>2, <2>3 DEF IInv, Overlaps
  <2>4. ASSUME NEW v \in tasks', Under(v), contextByModel'[v.model] # 0
        PROVE  v.model \in doubled'
    BY <1>5, <2>1, <2>2, <2>4 DEF IInv, Overlaps
  <2>5. ASSUME NEW v \in Sent', v.op = "unload", contextByModel'[v.model] \notin {0, v.id}
        PROVE  v.model \in doubled'
    BY <1>2, <1>5, <1>6, <2>5 DEF IInv, Overlaps
  <2>6. QED
    BY <2>3, <2>4, <2>5 DEF Overlaps, Under
<1>12. \A h \in handles : h.id \in Id /\ h.id # nextContextId /\ asked'[h.id] = asked[h.id]
  <2>1. \A h \in handles : h.id \in Id /\ h.id < nextContextId
    BY Plain DEF IInv
  <2>2. QED
    BY <1>1, <1>5, <2>1 DEF IInv, OwnTypes, Id
<1>13. NamesReachTheirModel'
  <2>1. ASSUME NEW m \in Loaded
        PROVE  /\ asked'[contextByModel[m]] = m
               /\ [id |-> contextByModel[m], native |-> wrapper[contextByModel[m]]] \in handles
    <3> DEFINE h == [id |-> contextByModel[m], native |-> wrapper[contextByModel[m]]]
    <3>1. asked[contextByModel[m]] = m /\ h \in handles /\ h.id = contextByModel[m]
      BY <2>1 DEF IInv, Names, NamesReachTheirModel
    <3> HIDE DEF h
    <3>2. asked'[h.id] = asked[h.id]
      BY <1>12, <3>1
    <3>3. QED
      BY <3>1, <3>2 DEF h
  <2>2. Loaded' = Loaded
    BY <1>5 DEF Loaded
  <2>3. QED
    BY <1>5, <2>1, <2>2 DEF NamesReachTheirModel
<1>14. StraysAreDoubled'
  BY <1>5, <1>12 DEF IInv, Names, StraysAreDoubled
<1>15. QED
  BY <1>7, <1>9, <1>10, <1>11, <1>13, <1>14 DEF Names

LEMMA UnloadModelIInv ==
  ASSUME IInv, NEW m \in Models, UnloadModel(m)
  PROVE  Numbered' /\ AskedFor' /\ Queue' /\ Overlaps' /\ Names'
<1> DEFINE i == contextByModel[m]
           u == [call |-> started + 1, op |-> "unload", model |-> m, at |-> "plugin", id |-> i]
           c == [op |-> "release", id |-> i, page |-> page]
<1>1. /\ tasks' = tasks \cup {u} /\ started' = started + 1 /\ started < MaxCalls
      /\ UNCHANGED <<nextContextId, contextByModel, asked, doubled>>
      /\ NewTask("unload", m, "plugin", contextByModel[m])
  BY DEF UnloadModel, NewTask
<1>2. PICK h \in handles : h.id = i /\ Mobile!Release(h)
  BY DEF UnloadModel
<1>3. calls' = Append(calls, c) /\ UNCHANGED <<page, handles, wrapper>>
  BY <1>2 DEF Mobile!Release, Mobile!Request, Mobile!jsVars
<1>4. i \in Id /\ i < nextContextId /\ i # 0 /\ asked[i] = m
  <2>1. i # 0 /\ m \in Loaded
    BY DEF UnloadModel, Loaded
  <2>2. QED
    BY <1>2, <2>1, Plain DEF IInv, Names, NamesReachTheirModel
<1>5. u \in Task
  BY <1>1, <1>4 DEF IInv, OwnTypes, Task, Id
<1>6. /\ u.call = started + 1 /\ u.op = "unload" /\ u.model = m
      /\ u.at = "plugin" /\ u.id = i
  OBVIOUS
<1>7. c \in MP!Call /\ c.op = "release" /\ c.id = i /\ c.page = page
  BY <1>4, Plain DEF IInv, MP!Call, MP!Id, Id
<1> HIDE DEF u, c
<1>8. Numbered' /\ \A t \in tasks : t.call < started + 1
  BY <1>1, NumberedGrows DEF IInv
<1>9. /\ u \notin Sent /\ Sent' = Sent \cup {u}
      /\ \A t \in Sent : ~(u.call < t.call)
  <2>1. \A t \in tasks : t.call \in Nat /\ t.call < u.call /\ u.call \in Nat
    BY <1>5, <1>6, <1>8 DEF IInv, OwnTypes, Task
  <2>2. u \notin tasks
    BY <2>1
  <2>3. QED
    BY <1>1, <1>6, <2>1, <2>2 DEF Sent
<1>10. AskedFor'
  BY <1>1, <1>4, <1>6, <1>9 DEF IInv, AskedFor
<1>11. Queue'
  <2>1. \A t \in Sent : u.op = "unload" /\ t.op = "load" /\ t.model = u.model
                       => t.model \in doubled
    BY <1>4, <1>6 DEF IInv, Overlaps, Under, Sent
  <2>2. QED
    BY <1>1, <1>3, <1>5, <1>6, <1>7, <1>9, <2>1, QueueGrows DEF IInv
<1>12. Overlaps'
  <2>1. \A t \in tasks' : Under(t) => t \in tasks
    BY <1>1, <1>6 DEF Under
  <2>2. \A t \in Sent' : t.op = "unload" /\ contextByModel[t.model] \notin {0, t.id}
                         => t.model \in doubled
    BY <1>6, <1>9 DEF IInv, Overlaps
  <2>3. QED
    BY <1>1, <2>1, <2>2 DEF IInv, Overlaps, Under
<1>13. Names'
  BY <1>1, <1>3 DEF IInv, Names, NamesReachTheirModel, StraysAreDoubled, Loaded
<1>14. QED
  BY <1>8, <1>10, <1>11, <1>12, <1>13

LEMMA ReloadIInv ==
  ASSUME IInv, Reload
  PROVE  Numbered' /\ AskedFor' /\ Queue' /\ Overlaps' /\ Names'
<1>1. /\ tasks' = {} /\ handles' = {} /\ calls' = calls /\ page' = page + 1
      /\ contextByModel' = [m \in Models |-> 0]
  BY DEF Reload, Mobile!Reload
<1>2. Sent' = {}
  BY <1>1 DEF Sent
<1>3. Queue'
  <2>1. \A i \in 1 .. Len(calls) : calls[i].page # page + 1
    BY Plain DEF IInv
  <2>2. PICK pos : pos = [t \in {} |-> 0]
    OBVIOUS
  <2>3. pos \in [Sent' -> 1 .. Len(calls')]
    BY <1>2, <2>2
  <2>4. Matches(pos)'
    BY <1>1, <1>2, <2>1 DEF Matches
  <2>5. QED
    BY <2>3, <2>4 DEF Queue
<1>4. QED
  BY <1>1, <1>2, <1>3
     DEF Numbered, AskedFor, Overlaps, Names, NamesReachTheirModel, StraysAreDoubled, Loaded
LEMMA SettleIInv ==
  ASSUME IInv, Settle, calls' = Tail(calls), page' = page
  PROVE  /\ Numbered' /\ AskedFor' /\ Queue'
         /\ tasks' \subseteq tasks /\ Sent' \subseteq Sent
         /\ UNCHANGED <<nextContextId, started, asked, doubled>>
<1>1. Queue'
  BY QueueShrinks DEF Settle, IInv
<1>2. /\ tasks' \subseteq tasks /\ Sent' \subseteq Sent
      /\ UNCHANGED <<nextContextId, started, asked, doubled>>
  BY DEF Settle, Sent
<1>3. Numbered' /\ AskedFor'
  BY <1>2 DEF IInv, Numbered, AskedFor
<1>4. QED
  BY <1>1, <1>2, <1>3

LEMMA InitContextRejectedIInv ==
  ASSUME IInv, InitContextRejected
  PROVE  Numbered' /\ AskedFor' /\ Queue' /\ Overlaps' /\ Names'
<1>1. /\ Settle /\ calls' = Tail(calls)
      /\ UNCHANGED <<page, contextByModel, handles, wrapper>>
  BY DEF InitContextRejected, Mobile!InitContextRejected, Mobile!CarryOut
<1>2. /\ Numbered' /\ AskedFor' /\ Queue'
      /\ tasks' \subseteq tasks /\ Sent' \subseteq Sent
      /\ UNCHANGED <<asked, doubled>>
  BY <1>1, SettleIInv
<1>3. Overlaps' /\ Names'
  BY <1>1, <1>2 DEF IInv, Overlaps, Under, Names, NamesReachTheirModel, StraysAreDoubled, Loaded
<1>4. QED
  BY <1>2, <1>3

(* Whose call is carried out; of a page that is gone, nobody's.            *)
LEMMA Served ==
  ASSUME IInv, calls # <<>>
  PROVE  /\ Head(calls).page # page => First = {} /\ handles = {} /\ Loaded = {}
         /\ Head(calls).page = page =>
              \E s \in Sent :
                /\ First = {s} /\ s.id = Head(calls).id /\ asked[s.id] = s.model
                /\ Head(calls).op = IF s.op = "load" THEN "init" ELSE "release"
<1>1. PICK pos \in [Sent -> 1 .. Len(calls)] : Matches(pos)
  BY DEF IInv, Queue
<1>2. Head(calls) = calls[1] /\ 1 \in 1 .. Len(calls)
  BY HeadIsOne DEF IInv
<1>3. ASSUME Head(calls).page # page PROVE First = {} /\ handles = {} /\ Loaded = {}
  <2>1. handles = {}
    BY <1>2, <1>3, Plain DEF IInv
  <2>2. Loaded = {}
    BY <2>1 DEF IInv, Names, NamesReachTheirModel
  <2>3. QED
    BY <1>3, <2>1, <2>2 DEF First, Awaiting
<1>4. ASSUME Head(calls).page = page
      PROVE  \E s \in Sent :
                /\ First = {s} /\ s.id = Head(calls).id /\ asked[s.id] = s.model
                /\ Head(calls).op = IF s.op = "load" THEN "init" ELSE "release"
  <2>1. PICK s \in Sent : pos[s] = 1
    BY <1>1, <1>2, <1>4 DEF Matches
  <2>2. /\ First = {s} /\ s.id = Head(calls).id
        /\ Head(calls).op = IF s.op = "load" THEN "init" ELSE "release"
    BY <1>1, <2>1, HeadIsFirst DEF IInv
  <2>3. QED
    BY <2>2 DEF IInv, AskedFor
<1>5. QED
  BY <1>3, <1>4

LEMMA ReleaseContextIInv ==
  ASSUME IInv, ReleaseContext
  PROVE  Numbered' /\ AskedFor' /\ Queue' /\ Overlaps' /\ Names'
<1> DEFINE i == Head(calls).id
<1>1. /\ Settle /\ calls # <<>> /\ calls' = Tail(calls) /\ Head(calls).op = "release"
      /\ UNCHANGED <<page, handles>>
      /\ wrapper' = [wrapper EXCEPT ![i] = None]
      /\ contextByModel' =
           [m \in Models |-> IF wrapper[i] # None /\ \E t \in First : t.model = m
                             THEN 0 ELSE contextByModel[m]]
  BY DEF ReleaseContext, Mobile!ReleaseContext, Mobile!CarryOut
<1>2. /\ Numbered' /\ AskedFor' /\ Queue'
      /\ tasks' \subseteq tasks /\ Sent' \subseteq Sent
      /\ UNCHANGED <<asked, doubled>>
  BY <1>1, SettleIInv
<1>3. i \in Id
  BY <1>1, MP!CallFields, HeadIsOne DEF IInv, MP!Id, Id
<1>4. /\ wrapper \in [Id -> 1 .. MaxNative \cup {None}]
      /\ \A h \in handles : h.id \in Id /\ h.native \in 1 .. MaxNative
      /\ contextByModel \in [Models -> 0 .. MaxInits]
  BY Plain DEF IInv, OwnTypes
<1>5. \A t \in tasks : t.model \in Models
  BY DEF IInv, OwnTypes, Task
<1>6. \A m \in Models : contextByModel'[m] = contextByModel[m] \/ contextByModel'[m] = 0
  BY <1>1
<1>7. Overlaps'
  <2>1. \A t \in tasks' : t \in tasks /\ t.model \in Models
    BY <1>2, <1>5
  <2>2. \A t \in tasks' : \A u \in tasks' :
          Under(t) /\ Under(u) /\ t.model = u.model /\ t # u => t.model \in doubled
    BY <2>1 DEF IInv, Overlaps
  <2>3. ASSUME NEW t \in tasks', Under(t), contextByModel'[t.model] # 0
        PROVE  t.model \in doubled
    BY <1>6, <2>1, <2>3 DEF IInv, Overlaps
  <2>4. ASSUME NEW t \in Sent', t.op = "unload", contextByModel'[t.model] \notin {0, t.id}
        PROVE  t.model \in doubled
    <3>1. t \in Sent /\ t.model \in Models
      BY <1>2, <1>5 DEF Sent
    <3>2. contextByModel[t.model] \notin {0, t.id}
      BY <1>6, <2>4, <3>1
    <3>3. QED
      BY <2>4, <3>1, <3>2 DEF IInv, Overlaps
  <2>5. QED
    BY <1>2, <2>2, <2>3, <2>4 DEF Overlaps, Under
(* The name of the context released is deleted ...                         *)
<1>8. NamesReachTheirModel'
  <2>1. ASSUME NEW m \in Models, contextByModel'[m] # 0
        PROVE  /\ asked[contextByModel'[m]] = m
               /\ [id |-> contextByModel'[m], native |-> wrapper'[contextByModel'[m]]] \in handles
    <3> DEFINE k == contextByModel[m]
    <3>1. contextByModel'[m] = k /\ m \in Loaded
      BY <1>6, <2>1 DEF Loaded
    <3>2. asked[k] = m /\ [id |-> k, native |-> wrapper[k]] \in handles
      BY <3>1 DEF IInv, Names, NamesReachTheirModel
    <3>3. k \in Id /\ wrapper[k] \in 1 .. MaxNative
      BY <1>4, <3>2
    <3>4. k # i
      <4>1. SUFFICES ASSUME k = i PROVE FALSE
        OBVIOUS
      <4>2. Head(calls).page = page
        BY <1>1, <3>1, Served
      <4>3. PICK s \in Sent : First = {s} /\ s.id = i /\ asked[s.id] = s.model
        BY <1>1, <4>2, Served
      <4>4. s.model = m /\ wrapper[i] # None
        BY <3>2, <3>3, <4>1, <4>3
      <4>5. QED
        BY <1>1, <2>1, <4>3, <4>4
    <3>5. wrapper'[k] = wrapper[k]
      BY <1>1, <1>4, <3>3, <3>4
    <3>6. QED
      BY <3>1, <3>2, <3>5
  <2>2. QED
    BY <1>1, <1>2, <2>1 DEF NamesReachTheirModel, Loaded
(* ... and if it was another's by then, the model is a doubled one.        *)
<1>9. StraysAreDoubled'
  <2>1. ASSUME NEW h \in handles, wrapper'[h.id] = h.native,
               \A m \in Models : contextByModel'[m] # h.id
        PROVE  asked[h.id] \in doubled
    <3>1. h.id # i /\ wrapper[h.id] = h.native
      BY <1>1, <1>3, <1>4, <2>1
    <3>2. CASE \A m \in Models : contextByModel[m] # h.id
      BY <3>1, <3>2 DEF IInv, Names, StraysAreDoubled
    <3>3. ASSUME NEW m \in Models, contextByModel[m] = h.id PROVE asked[h.id] \in doubled
      <4>1. PICK t \in First : t.model = m
        BY <1>1, <2>1, <3>3
      <4>2. Head(calls).page = page
        BY <1>1, <4>1, Served
      <4>3. PICK s \in Sent : /\ First = {s} /\ s.id = i
                             /\ Head(calls).op = IF s.op = "load" THEN "init" ELSE "release"
        BY <1>1, <4>2, Served
      <4>4. t \in Sent /\ t.id = i /\ t.op # "load"
        BY <1>1, <4>1, <4>3
      <4>5. t.op = "unload"
        BY <4>4 DEF IInv, OwnTypes, Task, Sent
      <4>6. h.id # 0 /\ contextByModel[t.model] \notin {0, t.id}
        BY <1>4, <3>1, <3>3, <4>1, <4>4 DEF Id
      <4>7. m \in doubled
        BY <4>1, <4>4, <4>5, <4>6 DEF IInv, Overlaps
      <4>8. asked[h.id] = m
        BY <3>3, <4>6 DEF IInv, Names, NamesReachTheirModel, Loaded
      <4>9. QED
        BY <4>7, <4>8
    <3>4. QED
      BY <3>2, <3>3
  <2>2. QED
    BY <1>1, <1>2, <2>1 DEF StraysAreDoubled
<1>10. QED
  BY <1>2, <1>7, <1>8, <1>9 DEF Names

LEMMA InitContextIInv ==
  ASSUME IInv, InitContext
  PROVE  Numbered' /\ AskedFor' /\ Queue' /\ Overlaps' /\ Names'
<1> DEFINE i == Head(calls).id
           n == [id |-> i, native |-> nextNative]
<1>1. /\ Settle /\ calls # <<>> /\ calls' = Tail(calls) /\ Head(calls).op = "init"
      /\ UNCHANGED page
      /\ wrapper' = [wrapper EXCEPT ![i] = nextNative]
      /\ \/ Head(calls).page = page /\ handles' = handles \cup {n}
         \/ handles' = handles
      /\ contextByModel' =
           [m \in Models |-> IF handles' # handles /\ \E t \in First : t.model = m
                             THEN i ELSE contextByModel[m]]
  BY DEF InitContext, Mobile!InitContext, Mobile!CarryOut
<1>2. /\ Numbered' /\ AskedFor' /\ Queue'
      /\ tasks' \subseteq tasks /\ Sent' \subseteq Sent
      /\ UNCHANGED <<asked, doubled>>
  BY <1>1, SettleIInv
<1>3. i \in Id
  BY <1>1, MP!CallFields, HeadIsOne DEF IInv, MP!Id, Id
<1>4. /\ wrapper \in [Id -> 1 .. MaxNative \cup {None}]
      /\ contextByModel \in [Models -> 0 .. MaxInits]
      /\ \A h \in handles : h.id \in Id
  BY Plain DEF IInv, OwnTypes
<1>5. \A t \in tasks : t.model \in Models
  BY DEF IInv, OwnTypes, Task
(* No context of the page has the number of the new one yet ...            *)
<1>6. \A h \in handles : h.id # i
  <2>1. SUFFICES ASSUME NEW h \in handles PROVE h.id # i
    OBVIOUS
  <2>2. Head(calls) = calls[1] /\ 1 \in 1 .. Len(calls)
    BY <1>1, HeadIsOne DEF IInv
  <2>3. calls[1].page = page
    BY <2>1, <2>2, Plain DEF IInv
  <2>4. MP!Mine(1)
    BY <1>1, <2>2, <2>3 DEF MP!Mine
  <2>5. QED
    BY <2>2, <2>4 DEF IInv, MInv, MP!HInv, MP!Numbers
(* ... so that those it has are reached as before.                         *)
<1>7. \A h \in handles : wrapper'[h.id] = wrapper[h.id]
  BY <1>1, <1>4, <1>6
<1>8. \A m \in Loaded :
        /\ asked[contextByModel[m]] = m
        /\ [id |-> contextByModel[m], native |-> wrapper'[contextByModel[m]]] \in handles
  <2>1. SUFFICES ASSUME NEW m \in Loaded
                 PROVE  /\ asked[contextByModel[m]] = m
                        /\ [id |-> contextByModel[m],
                            native |-> wrapper'[contextByModel[m]]] \in handles
    OBVIOUS
  <2> DEFINE h == [id |-> contextByModel[m], native |-> wrapper[contextByModel[m]]]
  <2>2. asked[contextByModel[m]] = m /\ h \in handles /\ h.id = contextByModel[m]
    BY DEF IInv, Names, NamesReachTheirModel
  <2> HIDE DEF h
  <2>3. wrapper'[contextByModel[m]] = wrapper[contextByModel[m]]
    BY <1>7, <2>2
  <2>4. QED
    BY <2>2, <2>3 DEF h
<1>9. CASE handles' = handles
  <2>1. contextByModel' = contextByModel
    BY <1>1, <1>4, <1>9
  <2>2. Overlaps'
    BY <1>2, <2>1 DEF IInv, Overlaps, Under
  <2>3. NamesReachTheirModel'
    BY <1>2, <1>8, <1>9, <2>1 DEF NamesReachTheirModel, Loaded
  <2>4. StraysAreDoubled'
    BY <1>2, <1>7, <1>9, <2>1 DEF IInv, Names, StraysAreDoubled
  <2>5. QED
    BY <1>2, <2>2, <2>3, <2>4 DEF Names
<1>10. ASSUME handles' # handles PROVE Overlaps' /\ Names'
  <2>1. Head(calls).page = page /\ handles' = handles \cup {n}
    BY <1>1, <1>10
  <2>2. PICK s \in Sent : /\ First = {s} /\ s.id = i /\ asked[i] = s.model
                         /\ Head(calls).op = IF s.op = "load" THEN "init" ELSE "release"
    BY <1>1, <2>1, Served
  <2>3. s \in tasks /\ s.at = "plugin" /\ s.op = "load" /\ Under(s) /\ s.model \in Models
    BY <1>1, <1>5, <2>2 DEF Sent, Under
  <2>4. \A m \in Models : contextByModel'[m] = IF m = s.model THEN i ELSE contextByModel[m]
    BY <1>1, <1>10, <2>2
  <2>5. s \notin tasks'
    BY <1>1, <2>2 DEF Settle
  <2>6. Overlaps'
    <3>1. \A t \in tasks' : t \in tasks /\ t.model \in Models /\ t # s
      BY <1>2, <1>5, <2>5
    <3>2. \A t \in tasks' : \A u \in tasks' :
            Under(t) /\ Under(u) /\ t.model = u.model /\ t # u => t.model \in doubled
      BY <3>1 DEF IInv, Overlaps
    <3>3. ASSUME NEW t \in tasks', Under(t), contextByModel'[t.model] # 0
          PROVE  t.model \in doubled
      BY <2>3, <2>4, <3>1, <3>3 DEF IInv, Overlaps
    <3>4. ASSUME NEW t \in Sent', t.op = "unload", contextByModel'[t.model] \notin {0, t.id}
          PROVE  t.model \in doubled
      <4>1. t \in Sent /\ t.model \in Models
        BY <1>2, <1>5 DEF Sent
      <4>2. CASE t.model # s.model
        BY <2>4, <3>4, <4>1, <4>2 DEF IInv, Overlaps
      <4>3. CASE t.model = s.model
        <5>1. PICK pos \in [Sent -> 1 .. Len(calls)] : Matches(pos)
          BY DEF IInv, Queue
        <5>2. pos[s] = 1
          BY <1>1, <2>1, <2>2, <5>1, HeadServed DEF IInv
        <5>3. ~(pos[t] < 1)
          BY <4>1, <5>1
        <5>4. QED
          BY <2>3, <3>4, <4>1, <4>3, <5>1, <5>2, <5>3 DEF Matches
      <4>4. QED
        BY <4>2, <4>3
    <3>5. QED
      BY <1>2, <3>2, <3>3, <3>4 DEF Overlaps, Under
  <2>7. NamesReachTheirModel'
    <3>1. ASSUME NEW m \in Models, contextByModel'[m] # 0
          PROVE  /\ asked[contextByModel'[m]] = m
                 /\ [id |-> contextByModel'[m],
                     native |-> wrapper'[contextByModel'[m]]] \in handles'
      <4>1. CASE m = s.model
        <5>1. contextByModel'[m] = i /\ wrapper'[i] = nextNative
          BY <1>1, <1>3, <1>4, <2>4, <4>1
        <5>2. QED
          BY <2>1, <2>2, <4>1, <5>1
      <4>2. CASE m # s.model
        <5>1. contextByModel'[m] = contextByModel[m] /\ m \in Loaded
          BY <2>4, <3>1, <4>2 DEF Loaded
        <5>2. QED
          BY <1>8, <2>1, <5>1
      <4>3. QED
        BY <4>1, <4>2
    <3>2. QED
      BY <1>2, <3>1 DEF NamesReachTheirModel, Loaded
(* The name of another context of the model is lost to the new one.        *)
  <2>8. StraysAreDoubled'
    <3>1. ASSUME NEW h \in handles', wrapper'[h.id] = h.native,
                 \A m \in Models : contextByModel'[m] # h.id
          PROVE  asked[h.id] \in doubled
      <4>1. h \in handles
        <5>1. n.id = i
          OBVIOUS
        <5>2. QED
          BY <2>1, <2>3, <2>4, <3>1, <5>1
      <4>2. wrapper[h.id] = h.native
        BY <1>7, <3>1, <4>1
      <4>3. CASE \A m \in Models : contextByModel[m] # h.id
        BY <4>1, <4>2, <4>3 DEF IInv, Names, StraysAreDoubled
      <4>4. ASSUME NEW m \in Models, contextByModel[m] = h.id PROVE asked[h.id] \in doubled
        <5>1. m = s.model
          BY <2>4, <3>1, <4>4
        <5>2. contextByModel[m] # 0
          BY <1>4, <4>1, <4>4 DEF Id
        <5>3. m \in doubled
          BY <2>3, <5>1, <5>2 DEF IInv, Overlaps
        <5>4. asked[h.id] = m
          BY <1>8, <4>4, <5>2 DEF Loaded
        <5>5. QED
          BY <5>3, <5>4
      <4>5. QED
        BY <4>3, <4>4
    <3>2. QED
      BY <1>2, <3>1 DEF StraysAreDoubled
  <2>9. QED
    BY <2>6, <2>7, <2>8 DEF Names
<1>11. QED
  BY <1>2, <1>9, <1>10

-----------------------------------------------------------------------------
LEMMA NextIInv == IInv /\ [Next]_vars => IInv'
<1> SUFFICES ASSUME IInv, [Next]_vars PROVE IInv'
  OBVIOUS
<1>1. MInv' /\ OwnTypes'
  BY NextMInv, NextOwnTypes DEF IInv
<1>2. CASE UNCHANGED vars
  <2>1. /\ Sent' = Sent /\ Quiet
        /\ UNCHANGED <<nextContextId, contextByModel, tasks, started, asked, doubled>>
    BY <1>2 DEF vars, provider, Quiet, Sent
  <2>2. AskedFor' /\ Queue' /\ Names'
    BY <2>1, Apart
  <2>3. Numbered' /\ Overlaps'
    BY <2>1 DEF IInv, Numbered, Overlaps
  <2>4. QED
    BY <1>1, <2>2, <2>3 DEF IInv
<1>3. CASE \E m \in Models : LoadModel(m) \/ Initialize(m) \/ UnloadModel(m)
  BY <1>1, <1>3, LoadModelIInv, InitializeIInv, UnloadModelIInv DEF IInv
<1>4. CASE Resume
  BY <1>1, <1>4, LimitSetIInv, RefusedIInv, RequestedIInv DEF IInv, Resume
<1>5. CASE Plugin
  BY <1>1, <1>5, InitContextRejectedIInv, InitContextIInv, ReleaseContextIInv DEF IInv, Plugin
<1>6. CASE Reload
  BY <1>1, <1>6, ReloadIInv DEF IInv
<1>7. QED
  BY <1>2, <1>3, <1>4, <1>5, <1>6 DEF Next

(* A name stands for a context in memory that was loaded for its model,    *)
(* whatever loads, unloads and reloads overlap.                            *)
THEOREM NamesAreReached == Spec => []NamesReachTheirModel
<1>1. IInv => NamesReachTheirModel
  BY DEF IInv, Names
<1>2. QED
  BY <1>1, InitIInv, NextIInv, PTL DEF Spec

(* A context loses its name while it is in memory only where two loads of  *)
(* its model were under way at once.                                       *)
THEOREM StraysComeFromOverlaps == Spec => []StraysAreDoubled
<1>1. IInv => StraysAreDoubled
  BY DEF IInv, Names
<1>2. QED
  BY <1>1, InitIInv, NextIInv, PTL DEF Spec
=============================================================================
