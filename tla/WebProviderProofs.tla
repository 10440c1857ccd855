------------------------- MODULE WebProviderProofs -------------------------
(***************************************************************************)
(* Proofs about WebProvider, for any models, limit and number of calls.    *)
(***************************************************************************)
EXTENDS WebProvider, Integers, TLAPS

(* Sequences as the bags they are. *)
Has(s, x) == \E i \in DOMAIN s : s[i] = x
Once(s, x) == \A i, j \in DOMAIN s : s[i] = x /\ s[j] = x => i = j
HasTo(s, x) == \E i \in DOMAIN s : s[i].to = x
OnceTo(s, x) == \A i, j \in DOMAIN s : s[i].to = x /\ s[j].to = x => i = j

(* What appending, taking the head and joining do to the indices ...        *)
LEMMA AppendIndex ==
  ASSUME NEW S, NEW s \in Seq(S), NEW e \in S
  PROVE  /\ Append(s, e) \in Seq(S)
         /\ Len(s) + 1 \in DOMAIN Append(s, e) /\ Len(s) + 1 \notin DOMAIN s
         /\ Append(s, e)[Len(s) + 1] = e
         /\ \A i : i \in DOMAIN Append(s, e) <=> i \in DOMAIN s \/ i = Len(s) + 1
         /\ \A i \in DOMAIN s : Append(s, e)[i] = s[i] /\ i < Len(s) + 1
  OBVIOUS

LEMMA TailIndex ==
  ASSUME NEW S, NEW s \in Seq(S), s # <<>>
  PROVE  /\ Tail(s) \in Seq(S) /\ Head(s) \in S
         /\ 1 \in DOMAIN s /\ s[1] = Head(s)
         /\ \A i \in DOMAIN Tail(s) :
              i + 1 \in DOMAIN s /\ i + 1 # 1 /\ Tail(s)[i] = s[i + 1] /\ i \in Int
         /\ \A i \in DOMAIN s : i # 1 =>
              i - 1 \in DOMAIN Tail(s) /\ Tail(s)[i - 1] = s[i] /\ i \in Int /\ i > 1
  OBVIOUS

LEMMA JoinIndex ==
  ASSUME NEW S, NEW s \in Seq(S), NEW t \in Seq(S)
  PROVE  /\ s \o t \in Seq(S) /\ Len(s) \in Nat
         /\ \A i \in DOMAIN (s \o t) :
              \/ i \in DOMAIN s /\ (s \o t)[i] = s[i]
              \/ i - Len(s) \in DOMAIN t /\ (s \o t)[i] = t[i - Len(s)] /\ i \in Int
         /\ \A i \in DOMAIN s : i \in DOMAIN (s \o t) /\ (s \o t)[i] = s[i] /\ i <= Len(s)
         /\ \A i \in DOMAIN t :
              i + Len(s) \in DOMAIN (s \o t) /\ (s \o t)[i + Len(s)] = t[i] /\ i + Len(s) > Len(s)
<1>1. /\ DOMAIN s = 1 .. Len(s) /\ Len(s) \in Nat
      /\ DOMAIN t = 1 .. Len(t) /\ Len(t) \in Nat
      /\ s \o t \in Seq(S)
      /\ DOMAIN (s \o t) = 1 .. Len(s) + Len(t)
      /\ \A i \in 1 .. Len(s) + Len(t) :
           (s \o t)[i] = IF i <= Len(s) THEN s[i] ELSE t[i - Len(s)]
  OBVIOUS
<1>2. QED
  BY <1>1

LEMMA Joined ==
  ASSUME NEW S, NEW s \in Seq(S), NEW t \in Seq(S), NEW j \in DOMAIN (s \o t)
  PROVE  \/ j \in DOMAIN s /\ (s \o t)[j] = s[j]
         \/ j - Len(s) \in DOMAIN t /\ (s \o t)[j] = t[j - Len(s)]
  BY JoinIndex

LEMMA JoinedNew ==
  ASSUME NEW S, NEW s \in Seq(S), NEW t \in Seq(S)
  PROVE  /\ \A i : i \in DOMAIN (s \o t) /\ i \notin DOMAIN s =>
              /\ i \in Int /\ i > Len(s) /\ i - Len(s) \in DOMAIN t
              /\ (s \o t)[i] = t[i - Len(s)]
         /\ t # <<>> => Len(s) + 1 \in DOMAIN (s \o t) /\ Len(s) + 1 \notin DOMAIN s
         /\ \A i \in DOMAIN s : /\ i \in DOMAIN (s \o t) /\ (s \o t)[i] = s[i]
                               /\ i \in Int /\ i <= Len(s)
         /\ Len(s) \in Nat
<1>1. /\ DOMAIN s = 1 .. Len(s) /\ Len(s) \in Nat
      /\ DOMAIN t = 1 .. Len(t) /\ Len(t) \in Nat
      /\ t # <<>> => Len(t) > 0
      /\ DOMAIN (s \o t) = 1 .. Len(s) + Len(t)
      /\ \A i \in 1 .. Len(s) + Len(t) :
           (s \o t)[i] = IF i <= Len(s) THEN s[i] ELSE t[i - Len(s)]
  OBVIOUS
<1>2. QED
  BY <1>1

(* ... and to what is in a sequence.                                       *)
LEMMA Appended ==
  ASSUME NEW S, NEW s \in Seq(S), NEW e \in S, NEW x
  PROVE  /\ Has(Append(s, e), x) <=> Has(s, x) \/ x = e
         /\ Once(s, x) /\ (x = e => ~Has(s, x)) => Once(Append(s, e), x)
  BY AppendIndex DEF Has, Once

LEMMA AppendedTo ==
  ASSUME NEW S, NEW s \in Seq(S), NEW e \in S, NEW x
  PROVE  /\ HasTo(Append(s, e), x) <=> HasTo(s, x) \/ x = e.to
         /\ OnceTo(s, x) /\ (x = e.to => ~HasTo(s, x)) => OnceTo(Append(s, e), x)
  BY AppendIndex DEF HasTo, OnceTo

LEMMA Beheaded ==
  ASSUME NEW S, NEW s \in Seq(S), s # <<>>, NEW x
  PROVE  /\ Has(s, x) <=> x = Head(s) \/ Has(Tail(s), x)
         /\ Once(s, x) => Once(Tail(s), x)
         /\ Once(s, x) /\ x = Head(s) => ~Has(Tail(s), x)
<1>1. Has(s, x) <=> x = Head(s) \/ Has(Tail(s), x)
  <2>1. ASSUME NEW i \in DOMAIN s, s[i] = x PROVE x = Head(s) \/ Has(Tail(s), x)
    BY <2>1, TailIndex DEF Has
  <2>2. ASSUME NEW i \in DOMAIN Tail(s), Tail(s)[i] = x PROVE Has(s, x)
    BY <2>2, TailIndex DEF Has
  <2>3. x = Head(s) => Has(s, x)
    BY TailIndex DEF Has
  <2>4. QED
    BY <2>1, <2>2, <2>3 DEF Has
<1>2. Once(s, x) => Once(Tail(s), x) /\ (x = Head(s) => ~Has(Tail(s), x))
  BY TailIndex DEF Has, Once
<1>3. QED
  BY <1>1, <1>2

LEMMA BeheadedTo ==
  ASSUME NEW S, NEW s \in Seq(S), s # <<>>, NEW x
  PROVE  /\ HasTo(s, x) <=> x = Head(s).to \/ HasTo(Tail(s), x)
         /\ OnceTo(s, x) => OnceTo(Tail(s), x)
         /\ OnceTo(s, x) /\ x = Head(s).to => ~HasTo(Tail(s), x)
<1>1. HasTo(s, x) <=> x = Head(s).to \/ HasTo(Tail(s), x)
  BY TailIndex DEF HasTo
<1>2. OnceTo(s, x) => OnceTo(Tail(s), x) /\ (x = Head(s).to => ~HasTo(Tail(s), x))
  BY TailIndex DEF HasTo, OnceTo
<1>3. QED
  BY <1>1, <1>2

LEMMA JoinedTo ==
  ASSUME NEW S, NEW s \in Seq(S), NEW t \in Seq(S), NEW x
  PROVE  /\ HasTo(s \o t, x) <=> HasTo(s, x) \/ HasTo(t, x)
         /\ OnceTo(s, x) /\ OnceTo(t, x) /\ ~(HasTo(s, x) /\ HasTo(t, x)) => OnceTo(s \o t, x)
<1>1. HasTo(s \o t, x) <=> HasTo(s, x) \/ HasTo(t, x)
  <2>1. ASSUME NEW i \in DOMAIN (s \o t), (s \o t)[i].to = x PROVE HasTo(s, x) \/ HasTo(t, x)
    BY <2>1, JoinIndex DEF HasTo
  <2>2. ASSUME NEW i \in DOMAIN s, s[i].to = x PROVE HasTo(s \o t, x)
    BY <2>2, JoinIndex DEF HasTo
  <2>3. ASSUME NEW i \in DOMAIN t, t[i].to = x PROVE HasTo(s \o t, x)
    <3>1. i + Len(s) \in DOMAIN (s \o t) /\ (s \o t)[i + Len(s)] = t[i]
      BY JoinIndex
    <3>2. QED
      BY <2>3, <3>1, Zenon DEF HasTo
  <2>4. QED
    BY <2>1, <2>2, <2>3 DEF HasTo
<1>2. ASSUME OnceTo(s, x), OnceTo(t, x), ~(HasTo(s, x) /\ HasTo(t, x)) PROVE OnceTo(s \o t, x)
  <2>1. SUFFICES ASSUME NEW i \in DOMAIN (s \o t), NEW j \in DOMAIN (s \o t),
                        (s \o t)[i].to = x, (s \o t)[j].to = x
                 PROVE  i = j
    BY DEF OnceTo
  <2>2. CASE HasTo(s, x)
    BY <1>2, <2>1, <2>2, JoinIndex DEF HasTo, OnceTo
  <2>3. CASE ~HasTo(s, x)
    <3>1. /\ i - Len(s) \in DOMAIN t /\ t[i - Len(s)].to = x /\ i \in Int
          /\ j - Len(s) \in DOMAIN t /\ t[j - Len(s)].to = x /\ j \in Int
      BY <2>1, <2>3, JoinIndex DEF HasTo
    <3>2. i - Len(s) = j - Len(s)
      BY <1>2, <3>1 DEF OnceTo
    <3>3. QED
      BY <3>1, <3>2, JoinIndex
  <2>4. QED
    BY <2>2, <2>3
<1>3. QED
  BY <1>1, <1>2

-----------------------------------------------------------------------------
(* Pending requests are what their calls wait for.                         *)
PendingOwn == \A r \in pending : r.call \in DOMAIN call /\ r = Awaits(r.call)

(* What the worker is at, in its own terms.                                *)
Shape ==
  /\ \A r \in wk.inits : r.at = "init"
  /\ \A l \in wk.loads :
       /\ l.waiters # <<>>
       /\ \A i \in DOMAIN l.waiters : l.waiters[i].at = "load" /\ l.waiters[i].model = l.model
  /\ \A l, k \in wk.loads : l.listed /\ k.listed /\ l.model = k.model => l = k
  /\ wk.resident = wk.loaded \ wk.torn

Held(r) == r \in wk.inits \/ \E l \in wk.loads : Has(l.waiters, r)
HeldOnce(r) ==
  /\ \A l \in wk.loads : Once(l.waiters, r)
  /\ \A l, k \in wk.loads : Has(l.waiters, r) /\ Has(k.waiters, r) => l = k

(* A request is in one place of the worker, once.                          *)
Single(r) ==
  /\ Once(inbox, r) /\ OnceTo(outbox, r) /\ HeldOnce(r)
  /\ ~(Has(inbox, r) /\ HasTo(outbox, r))
  /\ ~(Has(inbox, r) /\ Held(r))
  /\ ~(HasTo(outbox, r) /\ Held(r))

(* The requests that nothing can have cut off from their calls: all of     *)
(* them, and after an error those that can change what is loaded, while    *)
(* their calls come one at a time.                                         *)
Tracked(r) == ~erred \/ (calm /\ r.at # "generate")
TrackedPending ==
  \A r \in Request : Tracked(r) => Single(r) /\ (InWorker(r) => r \in pending)

LoadAnswer(i, m) == /\ outbox[i].to.at = "load" /\ outbox[i].to.model = m
                    /\ outbox[i].is # "error"
UnloadAnswer(i) == outbox[i].to.at = "unload" /\ outbox[i].is # "error"

(* What is loaded after its unload was loaded again, and the page hears of *)
(* that later.                                                             *)
UnloadsFirst ==
  \A i \in DOMAIN outbox :
    UnloadAnswer(i) /\ outbox[i].to.model \in wk.loaded
      => \E j \in DOMAIN outbox : j > i /\ LoadAnswer(j, outbox[i].to.model)

KnownOrTold ==
  ~erred => \A m \in wk.loaded :
    \/ m \in loaded
    \/ \E i \in DOMAIN outbox : LoadAnswer(i, m)
    \/ \E c \in DOMAIN call : call[c].at = "measure" /\ call[c].model = m

(* In calm use: one change at a time, and how far it has got.              *)
Agree(S) == wk.loaded = S
OneChange == \A c, d \in DOMAIN call : Changing(c) /\ Changing(d) => c = d
QuietAgree == ~(\E c \in DOMAIN call : Changing(c)) => Agree(loaded)
CallsAgree ==
  \A c \in DOMAIN call :
    /\ call[c].at # "mark"
    /\ call[c].at \in {"init", "manifest", "memory", "entry"} => Agree(loaded)
    /\ call[c].at = "measure" => Agree(loaded \cup {call[c].model})
    /\ call[c].at \in {"load", "unload"} /\ ~HasTo(outbox, Awaits(c)) => Agree(loaded)
News(a) == a.to.at \in {"load", "unload"}
NewsAgrees(a) ==
  /\ a.to.at = "unload" => Agree(IF a.is = "error" THEN loaded ELSE loaded \ {a.to.model})
  /\ a.to.at = "load" => Agree(IF a.is = "error" THEN loaded ELSE loaded \cup {a.to.model})
AnswersAgree == \A i \in DOMAIN outbox : NewsAgrees(outbox[i])
CalmSteps == calm => OneChange /\ QuietAgree /\ CallsAgree /\ AnswersAgree

IInv == /\ TypeOK /\ PendingOwn /\ Shape /\ NothingLost /\ TrackedPending
        /\ UnloadsFirst /\ KnownOrTold /\ CalmSteps

-----------------------------------------------------------------------------
(* Types.                                                                  *)
USE WorkerAssumption

LEMMA CallFields ==
  ASSUME TypeOK, NEW c \in DOMAIN call
  PROVE  /\ c \in 1 .. MaxCalls /\ c \in 1 .. Len(call)
         /\ call[c] = Done \/ call[c] \in Call
         /\ call[c].at \in Place => call[c] \in Call /\ call[c].model \in Models
         /\ call[c].at \in Awaited => Awaits(c) \in Request
         /\ \A at \in Awaited, m \in Models :
              [call |-> c, at |-> at, model |-> m] \in Request
<1>1. /\ c \in 1 .. MaxCalls /\ c \in 1 .. Len(call)
      /\ call[c] \in Call \cup {Done}
  BY DEF TypeOK
<1>2. call[c].at \in Place => call[c] \in Call /\ call[c].model \in Models
  BY <1>1 DEF Call, Done, Place, Awaited
<1>3. QED
  BY <1>1, <1>2 DEF Awaits, Request, Place

(* A step of a call that has more to do. *)
LEMMA GotoType ==
  ASSUME TypeOK, NEW c \in DOMAIN call, call[c].at \in Place, NEW at \in Place, Goto(c, at)
  PROVE  call' \in Seq(Call \cup {Done}) /\ Len(call') = Len(call)
<1>1. [call[c] EXCEPT !.at = at] \in Call
  BY CallFields DEF Call
<1>2. call' = [call EXCEPT ![c] = [call[c] EXCEPT !.at = at]]
  BY DEF Goto
<1>3. QED
  BY <1>1, <1>2 DEF TypeOK

LEMMA FinishType ==
  ASSUME TypeOK, NEW c \in DOMAIN call, Finish(c)
  PROVE  call' \in Seq(Call \cup {Done}) /\ Len(call') = Len(call)
  BY DEF TypeOK, Finish

LEMMA BeginType ==
  ASSUME TypeOK, NEW k \in Call \cup {Done}, Begin(k)
  PROVE  call' \in Seq(Call \cup {Done}) /\ Len(call') <= MaxCalls
  BY DEF TypeOK, Begin

LEMMA PostType ==
  ASSUME TypeOK, NEW r \in Request, Post(r)
  PROVE  inbox' \in Seq(Request) /\ worker' \in BOOLEAN /\ wk' = wk
  BY DEF TypeOK, WorkerTypeOK, Post

LEMMA SendType ==
  ASSUME TypeOK, NEW c \in DOMAIN call, call[c].at \in Place, NEW at \in Awaited, Send(c, at),
         UNCHANGED <<outbox, erred, calm>>, loaded' \subseteq Models
  PROVE  TypeOK'
<1>1. [call |-> c, at |-> at, model |-> call[c].model] \in Request
  BY CallFields
<1>2. call' \in Seq(Call \cup {Done}) /\ Len(call') = Len(call)
  BY GotoType DEF Send, Place
<1>3. inbox' \in Seq(Request) /\ worker' \in BOOLEAN /\ wk' = wk
  BY <1>1, PostType DEF Send
<1>4. pending' \subseteq Request
  BY <1>1 DEF Send, TypeOK
<1>5. QED
  BY <1>2, <1>3, <1>4 DEF TypeOK, WorkerTypeOK

LEMMA AnswerType ==
  ASSUME TypeOK, NEW r \in Request, NEW what \in {"result", "measured", "error"},
         Answer(r, what)
  PROVE  outbox' \in Seq(Reply)
<1>1. [to |-> r, is |-> what] \in Reply
  BY DEF Reply
<1>2. QED
  BY <1>1 DEF Answer, TypeOK, WorkerTypeOK

LEMMA ReplyAllType ==
  ASSUME NEW rs \in Seq(Request), NEW what \in {"result", "measured", "error"}
  PROVE  [i \in DOMAIN rs |-> [to |-> rs[i], is |-> what]] \in Seq(Reply)
<1>1. DOMAIN rs = 1 .. Len(rs) /\ Len(rs) \in Nat
  OBVIOUS
<1>2. \A i \in 1 .. Len(rs) : [to |-> rs[i], is |-> what] \in Reply
  BY DEF Reply
<1>3. QED
  BY <1>1, <1>2

LEMMA AnswerAllType ==
  ASSUME TypeOK, NEW rs \in Seq(Request), NEW what \in {"result", "measured", "error"},
         AnswerAll(rs, what)
  PROVE  outbox' \in Seq(Reply)
<1>1. [i \in DOMAIN rs |-> [to |-> rs[i], is |-> what]] \in Seq(Reply)
  BY ReplyAllType
<1>2. QED
  BY <1>1 DEF AnswerAll, TypeOK, WorkerTypeOK

LEMMA TakeType ==
  ASSUME TypeOK, NEW kinds, Take(kinds)
  PROVE  inbox' \in Seq(Request) /\ Head(inbox) \in Request
  BY DEF Take, TypeOK, WorkerTypeOK

LEMMA UnlistType ==
  ASSUME TypeOK, NEW m PROVE Unlist(m) \subseteq Load
  BY DEF Unlist, TypeOK, WorkerTypeOK, Load

WorkerType == [up : BOOLEAN, initialized : BOOLEAN, inits : SUBSET Request,
               loads : SUBSET Load, loaded : SUBSET Models,
               failed : SUBSET Models, resident : SUBSET Models,
               torn : SUBSET Models]

LEMMA WorkerNextType == TypeOK /\ WorkerNext => WorkerTypeOK'
<1> SUFFICES ASSUME TypeOK, WorkerNext PROVE WorkerTypeOK'
  OBVIOUS
<1>0. /\ wk \in WorkerType /\ inbox \in Seq(Request) /\ outbox \in Seq(Reply)
      /\ \A l \in wk.loads : l.model \in Models /\ l.waiters \in Seq(Request)
  BY DEF TypeOK, WorkerTypeOK, WorkerType, Load
<1>1. CASE HandleInit
  <2>1. inbox' \in Seq(Request) /\ Head(inbox) \in Request
    BY <1>1, TakeType DEF HandleInit
  <2>2. CASE wk.initialized
    BY <1>0, <1>1, <2>1, <2>2, AnswerType DEF HandleInit, WorkerTypeOK, WorkerType
  <2>3. CASE ~wk.initialized
    <3>1. /\ outbox' \in Seq(Reply)
          /\ wk' = [wk EXCEPT !.inits = @ \cup {Head(inbox)}]
      BY <1>0, <1>1, <2>3 DEF HandleInit
    <3>2. wk' \in WorkerType
      BY <1>0, <2>1, <3>1 DEF WorkerType
    <3>3. QED
      BY <2>1, <3>1, <3>2 DEF WorkerTypeOK, WorkerType
  <2>4. QED
    BY <2>2, <2>3
<1>2. CASE HandleMemory
  <2>1. inbox' \in Seq(Request) /\ Head(inbox) \in Request
    BY <1>2, TakeType DEF HandleMemory
  <2>2. QED
    BY <1>0, <1>2, <2>1, AnswerType DEF HandleMemory, WorkerTypeOK, WorkerType
<1>3. CASE HandleLoad
  <2> DEFINE r == Head(inbox)
  <2>1. inbox' \in Seq(Request) /\ r \in Request
    BY <1>3, TakeType DEF HandleLoad
  <2>2. CASE UNCHANGED wk /\ \E what \in {"result", "error"} : Answer(r, what)
    BY <1>0, <2>1, <2>2, AnswerType DEF WorkerTypeOK, WorkerType
  <2>3. CASE /\ UNCHANGED outbox
             /\ wk' = [wk EXCEPT !.loads =
                    IF Listed(r.model) = {}
                    THEN @ \cup {[model |-> r.model, waiters |-> <<r>>, listed |-> TRUE]}
                    ELSE {IF l \in Listed(r.model)
                          THEN [l EXCEPT !.waiters = Append(@, r)] ELSE l : l \in @}]
    <3>1. [model |-> r.model, waiters |-> <<r>>, listed |-> TRUE] \in Load
      <4>1. r.model \in Models
        BY <2>1 DEF Request
      <4> HIDE DEF r
      <4>2. <<r>> \in Seq(Request)
        BY <2>1
      <4>3. QED
        BY <4>1, <4>2 DEF Load
    <3>2. \A l \in Load : [l EXCEPT !.waiters = Append(@, r)] \in Load
      <4> HIDE DEF r
      <4>1. SUFFICES ASSUME NEW l \in Load
                     PROVE  [l EXCEPT !.waiters = Append(@, r)] \in Load
        OBVIOUS
      <4>2. l.waiters \in Seq(Request)
        BY DEF Load
      <4>3. Append(l.waiters, r) \in Seq(Request)
        BY <2>1, <4>2, AppendIndex, Zenon
      <4>4. QED
        BY <4>3 DEF Load
    <3>3. wk.loads \subseteq Load
      BY <1>0 DEF WorkerType
    <3>4. wk'.loads \subseteq Load
      <4>1. CASE Listed(r.model) = {}
        BY <1>0, <2>3, <3>1, <3>3, <4>1 DEF WorkerType
      <4>2. CASE Listed(r.model) # {}
        <5>1. wk'.loads = {IF l \in Listed(r.model)
                          THEN [l EXCEPT !.waiters = Append(@, r)] ELSE l : l \in wk.loads}
          BY <1>0, <2>3, <4>2 DEF WorkerType
        <5>2. QED
          BY <3>2, <3>3, <5>1
      <4>3. QED
        BY <4>1, <4>2
    <3>5. wk' \in WorkerType
      BY <1>0, <2>3, <3>4 DEF WorkerType
    <3>6. QED
      BY <1>0, <2>1, <2>3, <3>5 DEF WorkerTypeOK, WorkerType
  <2>4. QED
    BY <1>3, <2>2, <2>3 DEF HandleLoad
<1>4. CASE HandleUnload
  <2>1. inbox' \in Seq(Request) /\ Head(inbox) \in Request
    BY <1>4, TakeType DEF HandleUnload
  <2>2. outbox' \in Seq(Reply)
    BY <1>4, <2>1, AnswerType DEF HandleUnload
  <2>3. wk' \in WorkerType
    <3>1. Head(inbox).model \in Models
      BY <2>1 DEF Request
    <3>2. Unlist(Head(inbox).model) \subseteq Load
      BY UnlistType
    <3>3. PICK m \in Models : /\ m = Head(inbox).model
                              /\ \/ wk' = [wk EXCEPT !.loaded = @ \ {m}, !.failed = @ \ {m},
                                              !.loads = Unlist(m), !.torn = @ \ {m},
                                              !.resident = IF m \in wk.loaded THEN @ \ {m}
                                                           ELSE @]
                                 \/ wk' = [wk EXCEPT !.resident = @ \ {m},
                                                    !.torn = @ \cup {m}]
      BY <1>4, <3>1 DEF HandleUnload
    <3>4. CASE wk' = [wk EXCEPT !.resident = @ \ {m}, !.torn = @ \cup {m}]
      BY <1>0, <3>4 DEF WorkerType
    <3>5. CASE wk' = [wk EXCEPT !.loaded = @ \ {m}, !.failed = @ \ {m},
                                !.loads = Unlist(m), !.torn = @ \ {m},
                                !.resident = IF m \in wk.loaded THEN @ \ {m} ELSE @]
      BY <1>0, <3>2, <3>3, <3>5 DEF WorkerType
    <3>6. QED
      BY <3>3, <3>4, <3>5
  <2>4. QED
    BY <2>1, <2>2, <2>3 DEF WorkerTypeOK, WorkerType
<1>5. CASE HandleGenerate
  <2>1. inbox' \in Seq(Request) /\ Head(inbox) \in Request
    BY <1>5, TakeType DEF HandleGenerate
  <2>2. QED
    BY <1>0, <1>5, <2>1, AnswerType DEF HandleGenerate, WorkerTypeOK, WorkerType
<1>6. ASSUME NEW r \in wk.inits, InitDone(r) PROVE WorkerTypeOK'
  <2>1. r \in Request
    BY <1>0 DEF WorkerType
  <2>2. outbox' \in Seq(Reply) /\ inbox' \in Seq(Request)
    BY <1>0, <1>6, <2>1, AnswerType DEF InitDone
  <2>3. wk' \in WorkerType
    BY <1>0, <1>6 DEF InitDone, WorkerType
  <2>4. QED
    BY <2>2, <2>3 DEF WorkerTypeOK, WorkerType
<1>7. ASSUME NEW l \in wk.loads, LoadSucceeds(l) \/ LoadFails(l) PROVE WorkerTypeOK'
  <2>1. outbox' \in Seq(Reply) /\ inbox' \in Seq(Request)
    BY <1>0, <1>7, AnswerAllType DEF LoadSucceeds, LoadFails
  <2>2. Ended(l) \subseteq Load
    BY UnlistType DEF Ended
  <2>3. wk' \in WorkerType
    <3>1. CASE LoadSucceeds(l)
      <4>1. wk' = [wk EXCEPT !.loads = Ended(l), !.loaded = @ \cup {l.model},
                             !.failed = @ \ {l.model}, !.resident = @ \cup {l.model},
                             !.torn = @ \ {l.model}]
        BY <3>1 DEF LoadSucceeds
      <4>2. l.model \in Models
        BY <1>0
      <4>3. QED
        BY <1>0, <2>2, <4>1, <4>2 DEF WorkerType
    <3>2. CASE LoadFails(l)
      <4>1. wk' = [wk EXCEPT !.loads = Ended(l), !.failed = @ \cup {l.model}]
        BY <3>2 DEF LoadFails
      <4>2. l.model \in Models
        BY <1>0
      <4>3. QED
        BY <1>0, <2>2, <4>1, <4>2 DEF WorkerType
    <3>3. QED
      BY <1>7, <3>1, <3>2
  <2>4. QED
    BY <2>1, <2>3 DEF WorkerTypeOK, WorkerType
<1>8. QED
  BY <1>1, <1>2, <1>3, <1>4, <1>5, <1>6, <1>7 DEF WorkerNext

-----------------------------------------------------------------------------
(* The page's steps: a call begins, goes on to wait, or waits no more.     *)

Elsewhere(c) == /\ DOMAIN call' = DOMAIN call
                /\ \A d \in DOMAIN call : d # c => call'[d] = call[d]

Leaves(c) == /\ Elsewhere(c)
             /\ call'[c].at \notin Awaited
             /\ call'[c].model = call[c].model \/ call'[c] = Done
             /\ pending' = pending \ {Awaits(c)}

LEMMA Beginning ==
  ASSUME TypeOK, NEW k, Begin(k)
  PROVE  /\ DOMAIN call' = DOMAIN call \cup {Len(call) + 1}
         /\ Len(call) + 1 \notin DOMAIN call /\ Len(call) + 1 \in 1 .. MaxCalls
         /\ call'[Len(call) + 1] = k
         /\ \A d \in DOMAIN call : call'[d] = call[d]
  BY DEF Begin, TypeOK

LEMMA Sending ==
  ASSUME TypeOK, NEW c \in DOMAIN call, call[c].at \in Place, NEW at, Send(c, at)
  PROVE  /\ Elsewhere(c)
         /\ call'[c].at = at /\ call'[c].model = call[c].model
<1>1. call[c] \in Call /\ call' = [call EXCEPT ![c] = [call[c] EXCEPT !.at = at]]
  BY CallFields DEF Send, Goto
<1>2. QED
  BY <1>1 DEF Elsewhere, TypeOK, Call

(* A call that does not wait has no request. *)
LEMMA NotPending ==
  ASSUME TypeOK, PendingOwn, NEW c, call[c].at \notin Awaited
  PROVE  Awaits(c) \notin pending
  BY DEF TypeOK, Awaits, Request

LEMMA Leaving ==
  ASSUME TypeOK, NEW c \in DOMAIN call, call[c].at \in Place,
         Finish(c) \/ \E at \in Place \ Awaited : Goto(c, at),
         pending' = pending \ {Awaits(c)}
  PROVE  Leaves(c)
<1>1. CASE Finish(c)
  <2>1. Done.at \notin Awaited
    BY DEF Done, Awaited
  <2>2. QED
    BY <1>1, <2>1 DEF Finish, Leaves, Elsewhere, TypeOK
<1>2. ASSUME NEW at \in Place \ Awaited, Goto(c, at) PROVE Leaves(c)
  <2>1. call[c] \in Call /\ call' = [call EXCEPT ![c] = [call[c] EXCEPT !.at = at]]
    BY <1>2, CallFields DEF Goto
  <2>2. call'[c].at = at /\ call'[c].model = call[c].model /\ Elsewhere(c)
    BY <2>1 DEF Elsewhere, TypeOK, Call
  <2>3. QED
    BY <2>2 DEF Leaves
<1>3. QED
  BY <1>1, <1>2

LEMMA BeginOwn ==
  ASSUME TypeOK, PendingOwn, NEW k, Begin(k),
         \/ pending' = pending
         \/ pending' = pending \cup {[call |-> Len(call) + 1, at |-> k.at, model |-> k.model]}
  PROVE  PendingOwn'
<1>1. ASSUME NEW r \in pending PROVE r.call \in DOMAIN call' /\ r = Awaits(r.call)'
  BY Beginning DEF PendingOwn, Awaits
<1>2. ASSUME NEW CONSTANT r, r = [call |-> Len(call) + 1, at |-> k.at, model |-> k.model]
      PROVE  r.call \in DOMAIN call' /\ r = Awaits(r.call)'
  BY <1>2, Beginning DEF Awaits
<1>3. QED
  BY <1>1, <1>2 DEF PendingOwn

LEMMA SendOwn ==
  ASSUME TypeOK, PendingOwn, NEW c \in DOMAIN call, call[c].at \in Place,
         NEW at, Send(c, at)
  PROVE  PendingOwn'
<1> DEFINE r == [call |-> c, at |-> at, model |-> call[c].model]
<1>1. pending' = (pending \ {Awaits(c)}) \cup {r}
  BY DEF Send
<1>2. r.call \in DOMAIN call' /\ r = Awaits(r.call)'
  BY Sending DEF Elsewhere, Awaits
<1>3. ASSUME NEW q \in pending, q # Awaits(c) PROVE q.call \in DOMAIN call' /\ q = Awaits(q.call)'
  BY <1>3, Sending DEF Elsewhere, Awaits, PendingOwn
<1>4. QED
  BY <1>1, <1>2, <1>3 DEF PendingOwn

LEMMA LeaveOwn ==
  ASSUME PendingOwn, NEW c \in DOMAIN call, Leaves(c)
  PROVE  PendingOwn'
<1>1. ASSUME NEW q \in pending, q # Awaits(c) PROVE q.call \in DOMAIN call' /\ q = Awaits(q.call)'
  BY <1>1 DEF Leaves, Elsewhere, Awaits, PendingOwn
<1>2. QED
  BY <1>1 DEF PendingOwn, Leaves

LEMMA RejectType ==
  ASSUME TypeOK, NEW c \in DOMAIN call
  PROVE  Rejected(call[c]) \in Call \cup {Done}
<1>1. CASE call[c] = Done
  BY <1>1 DEF Rejected, Done, Awaited
<1>2. CASE call[c] \in Call
  <2>1. /\ [call[c] EXCEPT !.at = "entry"] \in Call
        /\ [call[c] EXCEPT !.at = "mark"] \in Call
    BY <1>2 DEF Call, Place
  <2>2. QED
    BY <1>2, <2>1 DEF Rejected
<1>3. QED
  BY <1>1, <1>2, CallFields

LEMMA RejectAllType ==
  ASSUME TypeOK, RejectAll
  PROVE  /\ call' \in Seq(Call \cup {Done}) /\ Len(call') = Len(call)
         /\ DOMAIN call' = DOMAIN call
         /\ \A c \in DOMAIN call : call'[c] = Rejected(call[c])
         /\ calm' \in BOOLEAN /\ pending' = {}
<1>1. /\ DOMAIN call = 1 .. Len(call) /\ Len(call) \in Nat
      /\ call' = [c \in DOMAIN call |-> Rejected(call[c])]
  BY DEF TypeOK, RejectAll
<1>2. \A c \in 1 .. Len(call) : Rejected(call[c]) \in Call \cup {Done}
  BY <1>1, RejectType
<1>3. call' \in Seq(Call \cup {Done})
  BY <1>1, <1>2
<1>4. Len(call') = Len(call)
  BY <1>1, <1>3
<1>5. QED
  BY <1>1, <1>3, <1>4 DEF RejectAll, Calming, TypeOK

(* The answer to a pending request finds the call waiting for it. *)
LEMMA Answering ==
  ASSUME TypeOK, PendingOwn, OnMessage, Head(outbox).to \in pending
  PROVE  LET c == Head(outbox).to.call
         IN  /\ c \in DOMAIN call /\ Head(outbox).to = Awaits(c)
             /\ call[c].at \in Awaited /\ call[c] \in Call
             /\ Continue(c, Head(outbox).is)
             /\ \/ /\ call[c].at = "load" /\ Head(outbox).is = "result"
                   /\ Send(c, "measure")
                \/ /\ ~(call[c].at = "load" /\ Head(outbox).is = "result")
                   /\ Leaves(c) /\ UNCHANGED <<inbox, wk, worker>>
                   /\ Finish(c) \/ \E at \in Place \ Awaited : Goto(c, at)
             /\ Head(outbox).is \in {"result", "measured", "error"}
<1> DEFINE c == Head(outbox).to.call
<1>1. Head(outbox) \in Reply
  BY DEF OnMessage, TypeOK, WorkerTypeOK
<1>2. c \in DOMAIN call /\ Head(outbox).to = Awaits(c)
  BY DEF PendingOwn
<1>3. call[c].at \in Awaited
  BY <1>1, <1>2 DEF Reply, Request, Awaits
<1>4. call[c] \in Call
  BY <1>2, <1>3, CallFields DEF Place
<1>5. Continue(c, Head(outbox).is)
  BY Zenon DEF OnMessage
<1> HIDE DEF c
<1>6. CASE call[c].at = "load" /\ Head(outbox).is = "result"
  <2>1. Send(c, "measure")
    BY <1>5, <1>6 DEF Continue
  <2>2. QED
    BY <1>2, <1>3, <1>4, <1>5, <1>6, <2>1 DEF c
<1>7. CASE ~(call[c].at = "load" /\ Head(outbox).is = "result")
  <2>1. /\ Finish(c) \/ \E at \in {"manifest", "entry"} : Goto(c, at)
        /\ pending' = pending \ {Awaits(c)} /\ UNCHANGED <<inbox, wk, worker>>
    BY <1>5, <1>7 DEF Continue
  <2>2. {"manifest", "entry"} \subseteq Place \ Awaited
    BY DEF Place, Awaited
  <2>3. Leaves(c)
    BY <1>2, <1>3, <2>1, <2>2, Leaving DEF Place
  <2>4. QED
    BY <1>1, <1>2, <1>3, <1>4, <1>5, <1>7, <2>1, <2>2, <2>3 DEF c, Reply
<1>8. QED
  BY <1>6, <1>7

LEMMA NextTypeOwn == TypeOK /\ PendingOwn /\ [Next]_vars => TypeOK' /\ PendingOwn'
<1> SUFFICES ASSUME TypeOK, PendingOwn, [Next]_vars PROVE TypeOK' /\ PendingOwn'
  OBVIOUS
<1>1. ASSUME NEW m \in Models, NEW at \in Awaited, BeginSending(m, at), calm' \in BOOLEAN
      PROVE  TypeOK' /\ PendingOwn'
  <2> DEFINE k == [at |-> at, model |-> m]
             r == [call |-> Len(call) + 1, at |-> at, model |-> m]
  <2>1. k \in Call /\ r \in Request
    BY <1>1, Beginning DEF BeginSending, Call, Place, Request
  <2>2. Begin(k) /\ Post(r) /\ pending' = pending \cup {r}
    BY <1>1 DEF BeginSending
  <2>3. call' \in Seq(Call \cup {Done}) /\ Len(call') <= MaxCalls
    BY <2>1, <2>2, BeginType
  <2>4. inbox' \in Seq(Request) /\ worker' \in BOOLEAN /\ wk' = wk
    BY <2>1, <2>2, PostType
  <2>5. TypeOK'
    BY <1>1, <2>1, <2>2, <2>3, <2>4 DEF TypeOK, WorkerTypeOK, Begin
  <2>6. PendingOwn'
    BY <2>2, BeginOwn
  <2>7. QED
    BY <2>5, <2>6
<1>2. ASSUME NEW k \in Call \cup {Done}, BeginAlone(k), calm' \in BOOLEAN
      PROVE  TypeOK' /\ PendingOwn'
  <2>1. Begin(k) /\ UNCHANGED <<inbox, wk, worker, pending>>
    BY <1>2 DEF BeginAlone
  <2>2. call' \in Seq(Call \cup {Done}) /\ Len(call') <= MaxCalls
    BY <2>1, BeginType
  <2>3. TypeOK'
    BY <1>2, <2>1, <2>2 DEF TypeOK, WorkerTypeOK, Begin
  <2>4. PendingOwn'
    BY <2>1, BeginOwn
  <2>5. QED
    BY <2>3, <2>4
<1>3. ASSUME NEW m \in Models, Initialize(m) \/ LoadModel(m) \/ UnloadModel(m) \/ Generate(m)
      PROVE  TypeOK' /\ PendingOwn'
  <2>1. calm' \in BOOLEAN
    BY <1>3 DEF Initialize, LoadModel, UnloadModel, Generate, Calming, TypeOK
  <2>2. Done \in Call \cup {Done} /\ [at |-> "manifest", model |-> m] \in Call \cup {Done}
    BY DEF Call, Place
  <2>3. {"init", "unload", "generate"} \subseteq Awaited
    BY DEF Awaited
  <2>4. QED
    BY <1>1, <1>2, <1>3, <2>1, <2>2, <2>3 DEF Initialize, LoadModel, UnloadModel, Generate
<1>4. ASSUME NEW c \in DOMAIN call, call[c].at \in Place, NEW at \in Awaited, Send(c, at),
             UNCHANGED <<outbox, erred, calm>>, loaded' \subseteq Models
      PROVE  TypeOK' /\ PendingOwn'
  BY <1>4, SendType, SendOwn
<1>5. ASSUME NEW c \in DOMAIN call, call[c].at \in Place \ Awaited, Finish(c),
             UNCHANGED <<inbox, outbox, wk, worker, pending, erred, calm>>,
             loaded' \subseteq Models
      PROVE  TypeOK' /\ PendingOwn'
  <2>1. TypeOK'
    BY <1>5, FinishType DEF TypeOK, WorkerTypeOK
  <2>2. pending' = pending \ {Awaits(c)}
    BY <1>5, NotPending
  <2>3. PendingOwn'
    BY <1>5, <2>2, Leaving, LeaveOwn
  <2>4. QED
    BY <2>1, <2>3
<1>6. {"manifest", "entry", "mark"} \subseteq Place \ Awaited /\ {"memory", "load", "measure"} \subseteq Awaited
  BY DEF Place, Awaited
<1>7. ASSUME NEW c \in DOMAIN call, PageStep(c) PROVE TypeOK' /\ PendingOwn'
  <2>1. loaded \subseteq Models
    BY DEF TypeOK
  <2>2. CASE ManifestRead(c)
    BY <1>4, <1>5, <1>6, <2>1, <2>2 DEF ManifestRead
  <2>3. CASE Admit(c)
    BY <1>4, <1>5, <1>6, <2>1, <2>3 DEF Admit
  <2>4. CASE MarkLoaded(c)
    <3>1. loaded' \subseteq Models
      BY <1>6, <2>1, <2>4, CallFields DEF MarkLoaded
    <3>2. QED
      BY <1>5, <1>6, <2>4, <3>1 DEF MarkLoaded
  <2>5. QED
    BY <1>7, <2>2, <2>3, <2>4 DEF PageStep
<1>8. CASE OnMessage
  <2> DEFINE c == Head(outbox).to.call
  <2>1. outbox' \in Seq(Reply) /\ UNCHANGED <<erred, calm>>
    BY <1>8 DEF OnMessage, TypeOK, WorkerTypeOK
  <2>2. CASE Head(outbox).to \notin pending
    <3>1. UNCHANGED <<inbox, wk, worker, pending, call, loaded>>
      BY <1>8, <2>2 DEF OnMessage
    <3>2. QED
      BY <2>1, <3>1 DEF TypeOK, WorkerTypeOK, PendingOwn, Awaits
  <2>3. CASE Head(outbox).to \in pending
    <3>1. c \in DOMAIN call /\ call[c].at \in Awaited /\ call[c] \in Call
          /\ Continue(c, Head(outbox).is)
      BY <1>8, <2>3, Answering
    <3>2. loaded' \subseteq Models
      BY <3>1 DEF Continue, TypeOK, Call
    <3> HIDE DEF c
    <3>3. call[c].at \in Place
      BY <3>1 DEF Place
    <3>4. CASE Send(c, "measure")
      <4>1. [call |-> c, at |-> "measure", model |-> call[c].model] \in Request
        <5>1. call[c].model \in Models
          BY <3>1, <3>3, CallFields
        <5>2. QED
          BY <1>6, <3>1, <5>1, CallFields
      <4>2. call' \in Seq(Call \cup {Done}) /\ Len(call') = Len(call)
        BY <3>1, <3>3, <3>4, GotoType DEF Send, Place, Awaited
      <4>3. inbox' \in Seq(Request) /\ worker' \in BOOLEAN /\ wk' = wk
        BY <3>4, <4>1, PostType DEF Send
      <4>4. pending' \subseteq Request
        BY <3>4, <4>1 DEF Send, TypeOK
      <4>5. TypeOK'
        BY <2>1, <3>2, <4>2, <4>3, <4>4 DEF TypeOK, WorkerTypeOK
      <4>6. QED
        BY <3>1, <3>3, <3>4, <4>5, SendOwn
    <3>5. CASE /\ Leaves(c) /\ UNCHANGED <<inbox, wk, worker>>
               /\ Finish(c) \/ \E at \in Place \ Awaited : Goto(c, at)
      <4>1. call' \in Seq(Call \cup {Done}) /\ Len(call') = Len(call)
        BY <3>1, <3>3, <3>5, FinishType, GotoType
      <4>2. TypeOK'
        BY <2>1, <3>2, <3>5, <4>1 DEF TypeOK, WorkerTypeOK, Leaves
      <4>3. QED
        BY <3>1, <3>5, <4>2, LeaveOwn
    <3>6. QED
      BY <1>8, <2>3, <3>4, <3>5, Answering DEF c
  <2>4. QED
    BY <2>2, <2>3
<1>9. CASE StopGeneration
  <2>1. NewWorker \in WorkerType
    BY DEF NewWorker, WorkerType
  <2>2. /\ worker' = FALSE /\ inbox' = <<>> /\ outbox' = <<>> /\ wk' \in WorkerType
        /\ loaded' = {} /\ erred' = erred /\ RejectAll
    BY <1>9, <2>1 DEF StopGeneration
  <2>3. WorkerTypeOK'
    BY <2>2 DEF WorkerTypeOK, WorkerType
  <2>4. TypeOK'
    BY <2>2, <2>3, RejectAllType DEF TypeOK
  <2>5. QED
    BY <2>2, <2>4, RejectAllType DEF PendingOwn
<1>10. CASE OnError
  <2>1. wk' \in WorkerType
    BY <1>10 DEF OnError, TypeOK, WorkerTypeOK, WorkerType, NewWorker
  <2>2. QED
    BY <1>10, <2>1, RejectAllType
       DEF OnError, TypeOK, WorkerTypeOK, WorkerType, PendingOwn
<1>11. CASE WorkerStep
  <2>1. WorkerTypeOK' /\ UNCHANGED <<worker, pending, call, loaded, erred, calm>>
    BY <1>11, WorkerNextType DEF WorkerStep
  <2>2. TypeOK'
    BY <2>1 DEF TypeOK
  <2>3. PendingOwn'
    BY <2>1 DEF PendingOwn, Awaits
  <2>4. QED
    BY <2>2, <2>3
<1>12. CASE UNCHANGED vars
  BY <1>12 DEF vars, TypeOK, WorkerTypeOK, PendingOwn, Awaits
<1>13. QED
  BY <1>3, <1>7, <1>8, <1>9, <1>10, <1>11, <1>12 DEF Next

-----------------------------------------------------------------------------
(* Where a request is, and what the steps of the worker do to that.        *)

LEMMA WorkerHas ==
  ASSUME NEW r
  PROVE  /\ InWorker(r) <=> Has(inbox, r) \/ HasTo(outbox, r) \/ Held(r)
         /\ InWorker(r)' <=> Has(inbox', r) \/ HasTo(outbox', r) \/ Held(r)'
  BY DEF InWorker, Has, HasTo, Held

LEMMA Answered ==
  ASSUME TypeOK, NEW h \in Request, NEW what \in {"result", "measured", "error"},
         Answer(h, what), NEW r
  PROVE  /\ HasTo(outbox', r) <=> HasTo(outbox, r) \/ r = h
         /\ OnceTo(outbox, r) /\ (r = h => ~HasTo(outbox, r)) => OnceTo(outbox', r)
<1> DEFINE e == [to |-> h, is |-> what]
<1>1. e \in Reply /\ e.to = h /\ outbox \in Seq(Reply) /\ outbox' = Append(outbox, e)
  BY DEF Reply, Answer, TypeOK, WorkerTypeOK
<1> HIDE DEF e
<1>2. QED
  BY <1>1, AppendedTo

LEMMA AllAnswered ==
  ASSUME TypeOK, NEW rs \in Seq(Request), NEW what \in {"result", "measured", "error"},
         AnswerAll(rs, what), NEW r
  PROVE  /\ HasTo(outbox', r) <=> HasTo(outbox, r) \/ Has(rs, r)
         /\ OnceTo(outbox, r) /\ Once(rs, r) /\ ~(HasTo(outbox, r) /\ Has(rs, r))
              => OnceTo(outbox', r)
<1> DEFINE as == [i \in DOMAIN rs |-> [to |-> rs[i], is |-> what]]
<1>1. as \in Seq(Reply) /\ DOMAIN as = DOMAIN rs /\ \A i \in DOMAIN rs : as[i].to = rs[i]
  BY ReplyAllType
<1>2. outbox' = outbox \o as /\ outbox \in Seq(Reply)
  BY DEF AnswerAll, TypeOK, WorkerTypeOK
<1> HIDE DEF as
<1>3. (HasTo(as, r) <=> Has(rs, r)) /\ (Once(rs, r) => OnceTo(as, r))
  BY <1>1 DEF HasTo, Has, OnceTo, Once
<1>4. QED
  BY <1>1, <1>2, <1>3, JoinedTo

Moved(r) == (InWorker(r)' <=> InWorker(r)) /\ (Single(r) => Single(r)')

(* A message is handled and answered at once. *)
LEMMA AnswerMoves ==
  ASSUME TypeOK, NEW kinds, Take(kinds), NEW what \in {"result", "measured", "error"},
         Answer(Head(inbox), what), NEW r \in Request,
         Held(r)' <=> Held(r), HeldOnce(r) => HeldOnce(r)'
  PROVE  Moved(r)
<1>1. inbox \in Seq(Request) /\ inbox # <<>> /\ inbox' = Tail(inbox) /\ Head(inbox) \in Request
  BY TakeType DEF TypeOK, WorkerTypeOK, Take
<1>2. /\ Has(inbox, r) <=> r = Head(inbox) \/ Has(inbox', r)
      /\ Once(inbox, r) => Once(inbox', r) /\ (r = Head(inbox) => ~Has(inbox', r))
  BY <1>1, Beheaded
<1>3. /\ HasTo(outbox', r) <=> HasTo(outbox, r) \/ r = Head(inbox)
      /\ OnceTo(outbox, r) /\ (r = Head(inbox) => ~HasTo(outbox, r)) => OnceTo(outbox', r)
  BY <1>1, Answered
<1>4. QED
  BY <1>2, <1>3, WorkerHas DEF Moved, Single

-----------------------------------------------------------------------------
(* The steps of the worker, one by one. *)
LEMMA WorkerParts ==
  ASSUME TypeOK
  PROVE  /\ wk \in WorkerType /\ inbox \in Seq(Request) /\ outbox \in Seq(Reply)
         /\ wk.inits \subseteq Request /\ wk.loads \subseteq Load
         /\ \A l \in wk.loads : l.model \in Models /\ l.waiters \in Seq(Request)
                               /\ l.listed \in BOOLEAN
  BY DEF TypeOK, WorkerTypeOK, WorkerType, Load

(* What is held depends on who waits only. *)
LEMMA SameHeld ==
  ASSUME wk'.inits = wk.inits, wk'.loads = wk.loads, NEW r
  PROVE  (Held(r)' <=> Held(r)) /\ (HeldOnce(r) => HeldOnce(r)')
  BY DEF Held, HeldOnce

LEMMA HandleInitMoves ==
  ASSUME TypeOK, Shape, HandleInit
  PROVE  Shape' /\ \A r \in Request : Moved(r)
<1>1. Take({"init"}) /\ Head(inbox) \in Request /\ Head(inbox).at = "init"
  BY TakeType DEF HandleInit, Take
<1>2. CASE wk.initialized
  <2>1. Answer(Head(inbox), "result") /\ wk' = wk
    BY <1>2 DEF HandleInit
  <2>2. ASSUME NEW r \in Request PROVE Moved(r)
    BY <1>1, <2>1, AnswerMoves, SameHeld
  <2>3. Shape'
    BY <2>1 DEF Shape
  <2>4. QED
    BY <2>2, <2>3
<1>3. CASE ~wk.initialized
  <2>1. /\ wk'.inits = wk.inits \cup {Head(inbox)} /\ wk'.loads = wk.loads
        /\ wk'.resident = wk.resident /\ wk'.loaded = wk.loaded /\ wk'.torn = wk.torn
        /\ outbox' = outbox /\ inbox' = Tail(inbox) /\ inbox # <<>>
    BY <1>3, WorkerParts DEF HandleInit, Take, WorkerType
  <2>2. ASSUME NEW r \in Request PROVE Moved(r)
    <3>1. /\ Has(inbox, r) <=> r = Head(inbox) \/ Has(inbox', r)
          /\ Once(inbox, r) => Once(inbox', r) /\ (r = Head(inbox) => ~Has(inbox', r))
      BY <2>1, WorkerParts, Beheaded
    <3>2. /\ Held(r)' <=> Held(r) \/ r = Head(inbox)
          /\ HeldOnce(r) => HeldOnce(r)'
      BY <2>1 DEF Held, HeldOnce
    <3>3. QED
      BY <2>1, <3>1, <3>2, WorkerHas DEF Moved, Single
  <2>3. Shape'
    BY <1>1, <2>1 DEF Shape
  <2>4. QED
    BY <2>2, <2>3
<1>4. QED
  BY <1>2, <1>3

LEMMA HandleMemoryMoves ==
  ASSUME TypeOK, Shape, HandleMemory
  PROVE  Shape' /\ \A r \in Request : Moved(r)
<1>1. /\ Take({"memory", "measure"}) /\ Head(inbox) \in Request
      /\ Answer(Head(inbox), "result") /\ wk' = wk
  BY TakeType DEF HandleMemory, Take
<1>2. ASSUME NEW r \in Request PROVE Moved(r)
  BY <1>1, AnswerMoves, SameHeld
<1>3. Shape'
  BY <1>1 DEF Shape
<1>4. QED
  BY <1>2, <1>3

LEMMA HandleGenerateMoves ==
  ASSUME TypeOK, Shape, HandleGenerate
  PROVE  Shape' /\ \A r \in Request : Moved(r)
<1>1. PICK what \in {"result", "error"} : Answer(Head(inbox), what)
  BY DEF HandleGenerate
<1>2. /\ Take({"generate"}) /\ Head(inbox) \in Request /\ wk' = wk
      /\ Head(inbox).at = "generate"
  BY TakeType DEF HandleGenerate, Take
<1>3. ASSUME NEW r \in Request PROVE Moved(r)
  BY <1>1, <1>2, AnswerMoves, SameHeld
<1>4. Shape'
  BY <1>2 DEF Shape
<1>5. QED
  BY <1>3, <1>4

(* A load that is unlisted keeps its model and its waiters. *)
Unlisted(l, m) == IF l.model = m THEN [l EXCEPT !.listed = FALSE] ELSE l

LEMMA Unlisting ==
  ASSUME TypeOK, NEW m, NEW l \in wk.loads
  PROVE  /\ Unlisted(l, m).waiters = l.waiters /\ Unlisted(l, m).model = l.model
         /\ Unlisted(l, m).listed => Unlisted(l, m) = l /\ l.listed /\ l.model # m
<1>1. l \in Load
  BY WorkerParts
<1>2. QED
  BY <1>1 DEF Unlisted, Load

LEMMA UnlistIs ==
  ASSUME NEW m PROVE Unlist(m) = {Unlisted(l, m) : l \in wk.loads}
  BY DEF Unlist, Unlisted

LEMMA HandleUnloadMoves ==
  ASSUME TypeOK, Shape, HandleUnload
  PROVE  Shape' /\ \A r \in Request : Moved(r)
<1> DEFINE m == Head(inbox).model
<1>1. /\ Take({"unload"}) /\ Head(inbox) \in Request
      /\ \E what \in {"result", "error"} : Answer(Head(inbox), what)
  BY TakeType DEF HandleUnload
<1>2. /\ wk'.inits = wk.inits
      /\ wk'.loads = {Unlisted(l, m) : l \in wk.loads} \/ wk'.loads = wk.loads
      /\ wk'.resident = wk'.loaded \ wk'.torn
  <2>1. CASE /\ wk'.inits = wk.inits /\ wk'.loads = Unlist(m)
             /\ wk'.resident = (IF m \in wk.loaded THEN wk.resident \ {m} ELSE wk.resident)
             /\ wk'.loaded = wk.loaded \ {m} /\ wk'.torn = wk.torn \ {m}
    BY <2>1, UnlistIs DEF Shape
  <2>2. CASE /\ wk'.inits = wk.inits /\ wk'.loads = wk.loads
             /\ wk'.resident = wk.resident \ {m}
             /\ wk'.loaded = wk.loaded /\ wk'.torn = wk.torn \cup {m}
    BY <2>2 DEF Shape
  <2>3. QED
    BY <2>1, <2>2, WorkerParts DEF HandleUnload, WorkerType
<1> HIDE DEF m
<1>3. ASSUME NEW r \in Request PROVE Moved(r)
  <2>1. (Held(r)' <=> Held(r)) /\ (HeldOnce(r) => HeldOnce(r)')
    <3>1. CASE wk'.loads = {Unlisted(l, m) : l \in wk.loads}
      BY <1>2, <3>1, Unlisting DEF Held, HeldOnce
    <3>2. CASE wk'.loads = wk.loads
      BY <1>2, <3>2, SameHeld
    <3>3. QED
      BY <1>2, <3>1, <3>2
  <2>2. QED
    BY <1>1, <2>1, AnswerMoves
<1>4. CASE wk'.loads = {Unlisted(l, m) : l \in wk.loads}
  <2>1. ASSUME NEW l \in wk'.loads
        PROVE  /\ l.waiters # <<>>
               /\ \A i \in DOMAIN l.waiters :
                    l.waiters[i].at = "load" /\ l.waiters[i].model = l.model
    <3>1. PICK q \in wk.loads : l = Unlisted(q, m)
      BY <1>4
    <3>2. l.waiters = q.waiters /\ l.model = q.model
      BY <3>1, Unlisting
    <3>3. QED
      BY <3>2 DEF Shape
  <2>2. \A l, k \in wk'.loads : l.listed /\ k.listed /\ l.model = k.model => l = k
    BY <1>4, Unlisting DEF Shape
  <2>3. Shape'
    BY <1>2, <2>1, <2>2 DEF Shape
  <2>4. QED
    BY <1>3, <2>3
<1>5. CASE wk'.loads = wk.loads
  BY <1>2, <1>3, <1>5 DEF Shape
<1>6. QED
  BY <1>2, <1>4, <1>5

LEMMA InitDoneMoves ==
  ASSUME TypeOK, Shape, NEW h \in wk.inits, InitDone(h)
  PROVE  Shape' /\ \A r \in Request : Moved(r)
<1>1. PICK what \in {"result", "error"} : Answer(h, what)
  BY DEF InitDone
<1>2. /\ wk'.inits = wk.inits \ {h} /\ wk'.loads = wk.loads
      /\ wk'.resident = wk.resident /\ wk'.loaded = wk.loaded /\ wk'.torn = wk.torn
      /\ inbox' = inbox
  BY WorkerParts DEF InitDone, WorkerType
<1>3. h \in Request /\ h.at = "init"
  BY WorkerParts DEF Shape
<1>4. ASSUME NEW r \in Request PROVE Moved(r)
  <2>1. /\ HasTo(outbox', r) <=> HasTo(outbox, r) \/ r = h
        /\ OnceTo(outbox, r) /\ (r = h => ~HasTo(outbox, r)) => OnceTo(outbox', r)
    BY <1>1, <1>3, Answered
  <2>2. \A l \in wk.loads : ~Has(l.waiters, h)
    BY <1>3 DEF Shape, Has
  <2>3. /\ Held(r) <=> Held(r)' \/ r = h
        /\ HeldOnce(r) => HeldOnce(r)'
        /\ ~(Held(r)' /\ r = h)
    BY <1>2, <2>2 DEF Held, HeldOnce
  <2>4. QED
    BY <1>2, <2>1, <2>3, WorkerHas DEF Moved, Single
<1>5. Shape'
  BY <1>2 DEF Shape
<1>6. QED
  BY <1>4, <1>5

(* A load ends and its waiters are answered. *)
LEMMA EndedMoves ==
  ASSUME TypeOK, Shape, NEW l \in wk.loads, NEW what \in {"result", "measured", "error"},
         AnswerAll(l.waiters, what), UNCHANGED inbox,
         wk'.inits = wk.inits, wk'.loads = Ended(l),
         wk'.resident = wk'.loaded \ wk'.torn
  PROVE  Shape' /\ \A r \in Request : Moved(r)
<1> DEFINE m == l.model
<1>1. wk'.loads = {Unlisted(k, m) : k \in wk.loads} \ {Unlisted(l, m)}
  BY UnlistIs DEF Ended, Unlisted
<1>2. l.waiters \in Seq(Request)
  BY WorkerParts
<1> HIDE DEF m
<1>3. ASSUME NEW r \in Request PROVE Moved(r)
  <2>1. /\ HasTo(outbox', r) <=> HasTo(outbox, r) \/ Has(l.waiters, r)
        /\ OnceTo(outbox, r) /\ Once(l.waiters, r) /\ ~(HasTo(outbox, r) /\ Has(l.waiters, r))
              => OnceTo(outbox', r)
    BY <1>2, AllAnswered
  <2>2. ~(Has(l.waiters, r) /\ r \in wk.inits)
    BY DEF Shape, Has
  <2>3. Held(r)' => Held(r)
    <3>1. ASSUME NEW k \in wk'.loads, Has(k.waiters, r) PROVE Held(r)
      <4>1. PICK q \in wk.loads : k = Unlisted(q, m)
        BY <1>1
      <4>2. QED
        BY <3>1, <4>1, Unlisting DEF Held
    <3>2. QED
      BY <3>1 DEF Held
  <2>4. Held(r) => Held(r)' \/ Has(l.waiters, r)
    BY <1>1, Unlisting DEF Held
  <2>5. ASSUME HeldOnce(r) PROVE HeldOnce(r)' /\ ~(Held(r)' /\ Has(l.waiters, r))
    <3>1. ASSUME NEW k \in wk'.loads
          PROVE  /\ Once(k.waiters, r) /\ ~(Has(k.waiters, r) /\ Has(l.waiters, r))
                 /\ \A j \in wk'.loads : Has(k.waiters, r) /\ Has(j.waiters, r) => k = j
      <4>1. PICK q \in wk.loads : k = Unlisted(q, m) /\ k.waiters = q.waiters
        BY <1>1, Unlisting
      <4>2. ASSUME NEW j \in wk'.loads, Has(k.waiters, r), Has(j.waiters, r) PROVE k = j
        <5>1. PICK p \in wk.loads : j = Unlisted(p, m) /\ j.waiters = p.waiters
          BY <1>1, Unlisting
        <5>2. QED
          BY <2>5, <4>1, <4>2, <5>1 DEF HeldOnce
      <4>3. ~(Has(k.waiters, r) /\ Has(l.waiters, r))
        BY <1>1, <2>5, <4>1 DEF HeldOnce
      <4>4. QED
        BY <2>5, <4>1, <4>2, <4>3 DEF HeldOnce
    <3>2. QED
      BY <2>2, <3>1 DEF Held, HeldOnce
  <2>6. Has(l.waiters, r) => Held(r)
    BY DEF Held
  <2>7. HeldOnce(r) => Once(l.waiters, r)
    BY DEF HeldOnce
  <2>8. QED
    BY <2>1, <2>3, <2>4, <2>5, <2>6, <2>7, WorkerHas DEF Moved, Single
<1>4. Shape'
  <2>1. ASSUME NEW k \in wk'.loads
        PROVE  /\ k.waiters # <<>>
               /\ \A i \in DOMAIN k.waiters :
                    k.waiters[i].at = "load" /\ k.waiters[i].model = k.model
    <3>1. PICK q \in wk.loads : k = Unlisted(q, m)
      BY <1>1
    <3>2. k.waiters = q.waiters /\ k.model = q.model
      BY <3>1, Unlisting
    <3>3. QED
      BY <3>2 DEF Shape
  <2>2. ASSUME NEW j \in wk'.loads, NEW k \in wk'.loads, j.listed, k.listed, j.model = k.model
        PROVE  j = k
    <3>1. PICK p \in wk.loads : j = Unlisted(p, m)
      BY <1>1
    <3>2. PICK q \in wk.loads : k = Unlisted(q, m)
      BY <1>1
    <3>3. j = p /\ p.listed /\ k = q /\ q.listed
      BY <2>2, <3>1, <3>2, Unlisting
    <3>4. QED
      BY <2>2, <3>3 DEF Shape
  <2>3. QED
    BY <2>1, <2>2 DEF Shape
<1>5. QED
  BY <1>3, <1>4

LEMMA LoadEnds ==
  ASSUME TypeOK, Shape, NEW l \in wk.loads, LoadSucceeds(l) \/ LoadFails(l)
  PROVE  Shape' /\ \A r \in Request : Moved(r)
<1>1. CASE LoadSucceeds(l)
  <2>1. PICK what \in {"result", "measured"} : AnswerAll(l.waiters, what)
    BY <1>1 DEF LoadSucceeds
  <2>2. /\ wk'.inits = wk.inits /\ wk'.loads = Ended(l) /\ inbox' = inbox
        /\ wk'.resident = wk.resident \cup {l.model} /\ wk'.loaded = wk.loaded \cup {l.model}
        /\ wk'.torn = wk.torn \ {l.model}
    BY <1>1, WorkerParts DEF LoadSucceeds, WorkerType
  <2>3. wk'.resident = wk'.loaded \ wk'.torn
    BY <2>2 DEF Shape
  <2>4. QED
    BY <2>1, <2>2, <2>3, EndedMoves
<1>2. CASE LoadFails(l)
  <2>1. AnswerAll(l.waiters, "error")
    BY <1>2 DEF LoadFails
  <2>2. /\ wk'.inits = wk.inits /\ wk'.loads = Ended(l) /\ inbox' = inbox
        /\ wk'.resident = wk.resident /\ wk'.loaded = wk.loaded /\ wk'.torn = wk.torn
    BY <1>2, WorkerParts DEF LoadFails, WorkerType
  <2>3. wk'.resident = wk'.loaded \ wk'.torn
    BY <2>2 DEF Shape
  <2>4. QED
    BY <2>1, <2>2, <2>3, EndedMoves
<1>3. QED
  BY <1>1, <1>2

(* A message that starts to wait for a load: in a new load of its own, or  *)
(* in the one listed.                                                      *)
Joining(l, h) == IF l \in Listed(h.model) THEN [l EXCEPT !.waiters = Append(@, h)] ELSE l
NewLoad(h) == [model |-> h.model, waiters |-> <<h>>, listed |-> TRUE]

LEMMA WaitMoves ==
  ASSUME TypeOK, Take({"load"}), UNCHANGED outbox, NEW r \in Request,
         Held(r)' <=> Held(r) \/ r = Head(inbox),
         HeldOnce(r) /\ (r = Head(inbox) => ~Held(r)) => HeldOnce(r)'
  PROVE  Moved(r)
<1>1. inbox \in Seq(Request) /\ inbox # <<>> /\ inbox' = Tail(inbox)
  BY DEF TypeOK, WorkerTypeOK, Take
<1>2. /\ Has(inbox, r) <=> r = Head(inbox) \/ Has(inbox', r)
      /\ Once(inbox, r) => Once(inbox', r) /\ (r = Head(inbox) => ~Has(inbox', r))
  BY <1>1, Beheaded
<1>3. QED
  BY <1>2, WorkerHas DEF Moved, Single

LEMMA NewLoadMoves ==
  ASSUME TypeOK, Shape, Take({"load"}), UNCHANGED outbox,
         Listed(Head(inbox).model) = {}, wk'.inits = wk.inits,
         wk'.resident = wk'.loaded \ wk'.torn,
         wk'.loads = wk.loads \cup {NewLoad(Head(inbox))}
  PROVE  Shape' /\ \A r \in Request : Moved(r)
<1> DEFINE h == Head(inbox)
           n == NewLoad(h)
<1>1. h \in Request /\ h.at = "load"
  BY TakeType DEF Take
<1>2. /\ n.model = h.model /\ n.listed = TRUE /\ n.waiters = <<h>>
      /\ DOMAIN n.waiters = {1} /\ n.waiters[1] = h /\ n.waiters # <<>>
  BY DEF NewLoad
<1>3. wk'.loads = wk.loads \cup {n}
  OBVIOUS
<1> HIDE DEF n
<1>4. ASSUME NEW r \in Request PROVE Moved(r)
  <2>1. (Has(n.waiters, r) <=> r = h) /\ Once(n.waiters, r)
    BY <1>2 DEF Has, Once
  <2>2. Held(r)' <=> Held(r) \/ r = h
    BY <1>3, <2>1 DEF Held
  <2>3. HeldOnce(r) /\ (r = h => ~Held(r)) => HeldOnce(r)'
    BY <1>3, <2>1 DEF HeldOnce, Held
  <2>4. QED
    BY <2>2, <2>3, WaitMoves
<1>5. Shape'
  <2>1. \A l \in wk.loads : ~(l.listed /\ l.model = h.model)
    BY DEF Listed
  <2>2. \A l, k \in wk'.loads : l.listed /\ k.listed /\ l.model = k.model => l = k
    BY <1>2, <1>3, <2>1 DEF Shape
  <2>3. ASSUME NEW l \in wk'.loads
        PROVE  /\ l.waiters # <<>>
               /\ \A i \in DOMAIN l.waiters :
                    l.waiters[i].at = "load" /\ l.waiters[i].model = l.model
    <3>1. CASE l \in wk.loads
      BY <3>1 DEF Shape
    <3>2. CASE l = n
      BY <1>1, <1>2, <3>2
    <3>3. QED
      BY <1>3, <3>1, <3>2
  <2>4. QED
    BY <2>2, <2>3 DEF Shape
<1>6. QED
  BY <1>4, <1>5

LEMMA JoinLoadMoves ==
  ASSUME TypeOK, Shape, Take({"load"}), UNCHANGED outbox,
         Listed(Head(inbox).model) # {}, wk'.inits = wk.inits,
         wk'.resident = wk'.loaded \ wk'.torn,
         wk'.loads = {Joining(l, Head(inbox)) : l \in wk.loads}
  PROVE  Shape' /\ \A r \in Request : Moved(r)
<1> DEFINE h == Head(inbox)
<1>1. h \in Request /\ h.at = "load"
  BY TakeType DEF Take
<1>2. PICK o \in wk.loads : Listed(h.model) = {o} /\ o.model = h.model
  BY DEF Listed, Shape
<1>3. ASSUME NEW l \in wk.loads
      PROVE  LET j == Joining(l, h)
             IN  /\ j.model = l.model /\ j.listed = l.listed
                 /\ IF l = o THEN j.waiters = Append(l.waiters, h) ELSE j.waiters = l.waiters
  <2>1. l \in Load
    BY WorkerParts
  <2>2. QED
    BY <1>2, <2>1 DEF Joining, Load
<1>4. wk'.loads = {Joining(l, h) : l \in wk.loads}
  OBVIOUS
<1> HIDE DEF h
<1>5. ASSUME NEW r \in Request PROVE Moved(r)
  <2>1. o.waiters \in Seq(Request)
    BY WorkerParts
  <2>2. /\ Has(Append(o.waiters, h), r) <=> Has(o.waiters, r) \/ r = h
        /\ Once(o.waiters, r) /\ (r = h => ~Has(o.waiters, r)) => Once(Append(o.waiters, h), r)
    BY <1>1, <2>1, Appended
  <2>3. \A l \in wk.loads : LET j == Joining(l, h) IN
          /\ Has(j.waiters, r) <=> Has(l.waiters, r) \/ (l = o /\ r = h)
          /\ Once(l.waiters, r) /\ (r = h => ~Has(l.waiters, r)) => Once(j.waiters, r)
    BY <1>3, <2>2
  <2>4. (\E l \in wk'.loads : Has(l.waiters, r))
          <=> (\E l \in wk.loads : Has(l.waiters, r)) \/ r = h
    <3>1. ASSUME NEW l \in wk'.loads, Has(l.waiters, r)
          PROVE  (\E p \in wk.loads : Has(p.waiters, r)) \/ r = h
      <4>1. PICK p \in wk.loads : l = Joining(p, h)
        BY <1>4
      <4>2. QED
        BY <2>3, <3>1, <4>1
    <3>2. ASSUME NEW p \in wk.loads, Has(p.waiters, r) \/ (p = o /\ r = h)
          PROVE  \E l \in wk'.loads : Has(l.waiters, r)
      <4>1. Joining(p, h) \in wk'.loads /\ Has(Joining(p, h).waiters, r)
        BY <1>4, <2>3, <3>2
      <4>2. QED
        BY <4>1
    <3>3. QED
      BY <3>1, <3>2
  <2>5. Held(r)' <=> Held(r) \/ r = h
    BY <2>4 DEF Held
  <2>6. ASSUME HeldOnce(r), r = h => ~Held(r) PROVE HeldOnce(r)'
    <3>1. r = h => \A l \in wk.loads : ~Has(l.waiters, r)
      BY <2>6 DEF Held
    <3>2. ASSUME NEW l \in wk'.loads, NEW k \in wk'.loads
          PROVE  Once(l.waiters, r) /\ (Has(l.waiters, r) /\ Has(k.waiters, r) => l = k)
      <4>1. PICK p \in wk.loads : l = Joining(p, h)
        BY <1>4
      <4>2. PICK q \in wk.loads : k = Joining(q, h)
        BY <1>4
      <4>3. QED
        BY <2>3, <2>6, <3>1, <4>1, <4>2 DEF HeldOnce
    <3>3. QED
      BY <3>2 DEF HeldOnce
  <2>7. QED
    BY <2>5, <2>6, WaitMoves DEF h
<1>6. Shape'
  <2>1. ASSUME NEW l \in wk'.loads, NEW k \in wk'.loads, l.listed, k.listed, l.model = k.model
        PROVE  l = k
    <3>1. PICK p \in wk.loads : l = Joining(p, h)
      BY <1>4
    <3>2. PICK q \in wk.loads : k = Joining(q, h)
      BY <1>4
    <3>3. p.listed /\ q.listed /\ p.model = q.model
      BY <1>3, <2>1, <3>1, <3>2
    <3>4. QED
      BY <3>1, <3>2, <3>3 DEF Shape
  <2>2. ASSUME NEW l \in wk'.loads
        PROVE  /\ l.waiters # <<>>
               /\ \A i \in DOMAIN l.waiters :
                    l.waiters[i].at = "load" /\ l.waiters[i].model = l.model
    <3>1. PICK p \in wk.loads : l = Joining(p, h)
      BY <1>4
    <3>2. CASE p # o
      BY <1>3, <3>1, <3>2 DEF Shape
    <3>3. CASE p = o
      <4>1. l.waiters = Append(p.waiters, h) /\ l.model = p.model /\ p.waiters \in Seq(Request)
        BY <1>3, <3>1, <3>3, WorkerParts
      <4>2. \A i \in DOMAIN p.waiters : p.waiters[i].at = "load" /\ p.waiters[i].model = p.model
        BY DEF Shape
      <4>3. \A i \in DOMAIN l.waiters :
              \/ i \in DOMAIN p.waiters /\ l.waiters[i] = p.waiters[i]
              \/ l.waiters[i] = h
        BY <1>1, <4>1, AppendIndex
      <4>4. l.waiters # <<>>
        BY <1>1, <4>1
      <4>5. QED
        BY <1>1, <1>2, <3>3, <4>1, <4>2, <4>3, <4>4
    <3>4. QED
      BY <3>2, <3>3
  <2>3. QED
    BY <2>1, <2>2 DEF Shape
<1>7. QED
  BY <1>5, <1>6

LEMMA HandleLoadMoves ==
  ASSUME TypeOK, Shape, HandleLoad
  PROVE  Shape' /\ \A r \in Request : Moved(r)
<1> DEFINE h == Head(inbox)
<1>1. Take({"load"}) /\ h \in Request /\ h.at = "load"
  BY TakeType DEF HandleLoad, Take
<1>2. ASSUME NEW what \in {"result", "error"}, Answer(h, what), UNCHANGED wk
      PROVE  Shape' /\ \A r \in Request : Moved(r)
  <2>1. ASSUME NEW r \in Request PROVE Moved(r)
    BY <1>1, <1>2, AnswerMoves, SameHeld
  <2>2. Shape'
    BY <1>2 DEF Shape
  <2>3. QED
    BY <2>1, <2>2
<1>3. ASSUME UNCHANGED outbox,
             wk' = [wk EXCEPT !.loads =
                    IF Listed(h.model) = {}
                    THEN @ \cup {[model |-> h.model, waiters |-> <<h>>, listed |-> TRUE]}
                    ELSE {IF l \in Listed(h.model)
                          THEN [l EXCEPT !.waiters = Append(@, h)] ELSE l : l \in @}]
      PROVE  Shape' /\ \A r \in Request : Moved(r)
  <2>1. /\ wk'.inits = wk.inits /\ wk'.resident = wk.resident /\ wk'.loaded = wk.loaded
        /\ wk'.torn = wk.torn
        /\ wk'.loads = IF Listed(h.model) = {} THEN wk.loads \cup {NewLoad(h)}
                       ELSE {Joining(l, h) : l \in wk.loads}
    BY <1>3, WorkerParts DEF WorkerType, NewLoad, Joining
  <2>2. wk'.resident = wk'.loaded \ wk'.torn
    BY <2>1 DEF Shape
  <2>3. QED
    BY <1>1, <1>3, <2>1, <2>2, NewLoadMoves, JoinLoadMoves
<1>4. QED
  BY <1>2, <1>3 DEF HandleLoad

LEMMA WorkerMoves ==
  ASSUME TypeOK, Shape, WorkerNext
  PROVE  Shape' /\ \A r \in Request : Moved(r)
BY HandleInitMoves, HandleMemoryMoves, HandleLoadMoves, HandleUnloadMoves, HandleGenerateMoves,
   InitDoneMoves, LoadEnds DEF WorkerNext

-----------------------------------------------------------------------------
(* What the steps of the page do to where requests are: they post some,    *)
(* In, and take the answers of some, Out.                                  *)
Places(In, Out) ==
  \A q \in Request :
    /\ q \in In => InWorker(q)'
    /\ InWorker(q)' => InWorker(q) \/ q \in In
    /\ InWorker(q) => InWorker(q)' \/ q \in Out
    /\ Single(q) /\ (q \in In => ~InWorker(q)) => Single(q)' /\ (q \in Out => ~InWorker(q)')

LEMMA PlacesMove ==
  ASSUME TypeOK, NEW In, NEW Out, In \cap Out = {},
         \/ In = {} /\ inbox' = inbox
         \/ \E h \in Request : In = {h} /\ inbox' = Append(inbox, h),
         \/ Out = {} /\ outbox' = outbox
         \/ Out = {Head(outbox).to} /\ outbox # <<>> /\ outbox' = Tail(outbox),
         wk'.inits = wk.inits, wk'.loads = wk.loads
  PROVE  Places(In, Out)
<1> SUFFICES ASSUME NEW q \in Request
             PROVE  /\ q \in In => InWorker(q)'
                    /\ InWorker(q)' => InWorker(q) \/ q \in In
                    /\ InWorker(q) => InWorker(q)' \/ q \in Out
                    /\ Single(q) /\ (q \in In => ~InWorker(q))
                         => Single(q)' /\ (q \in Out => ~InWorker(q)')
  BY DEF Places
<1>1. /\ Has(inbox', q) <=> Has(inbox, q) \/ q \in In
      /\ Once(inbox, q) /\ (q \in In => ~Has(inbox, q)) => Once(inbox', q)
  <2>1. CASE In = {}
    BY <2>1
  <2>2. ASSUME NEW h \in Request, In = {h}, inbox' = Append(inbox, h)
        PROVE  /\ Has(inbox', q) <=> Has(inbox, q) \/ q \in In
               /\ Once(inbox, q) /\ (q \in In => ~Has(inbox, q)) => Once(inbox', q)
    BY <2>2, WorkerParts, Appended
  <2>3. QED
    BY <2>1, <2>2
<1>2. /\ HasTo(outbox, q) <=> HasTo(outbox', q) \/ q \in Out
      /\ OnceTo(outbox, q) => OnceTo(outbox', q) /\ (q \in Out => ~HasTo(outbox', q))
  <2>1. CASE Out = {}
    BY <2>1
  <2>2. CASE Out = {Head(outbox).to} /\ outbox # <<>> /\ outbox' = Tail(outbox)
    BY <2>2, WorkerParts, BeheadedTo
  <2>3. QED
    BY <2>1, <2>2
<1>3. (Held(q)' <=> Held(q)) /\ (HeldOnce(q) => HeldOnce(q)')
  BY SameHeld
<1>4. QED
  BY <1>1, <1>2, <1>3, WorkerHas DEF Single

(* No caller waits for nobody, and what is tracked is pending, after them. *)
LEMMA PlacesLost ==
  ASSUME TypeOK, PendingOwn, NothingLost, TrackedPending, PendingOwn',
         NEW In, NEW Out, In \subseteq Request \ pending, Places(In, Out),
         pending' = (pending \ Out) \cup In, In \cap Out = {},
         erred' = erred, calm' => calm,
         \A d \in DOMAIN call' : Waiting(d)' =>
           \/ Awaits(d)' \in In
           \/ d \in DOMAIN call /\ call'[d] = call[d] /\ Awaits(d) \notin Out
  PROVE  NothingLost' /\ TrackedPending'
<1>1. ASSUME NEW q \in In PROVE q \in pending' /\ InWorker(q)'
  BY DEF Places
<1>2. ASSUME NEW d \in DOMAIN call', Waiting(d)' PROVE Awaits(d)' \in pending' /\ InWorker(Awaits(d))'
  <2>1. CASE Awaits(d)' \in In
    <3>1. PICK q \in In : q = Awaits(d)'
      BY <2>1
    <3>2. QED
      BY <1>1, <3>1 DEF InWorker
  <2>2. CASE d \in DOMAIN call /\ call'[d] = call[d] /\ Awaits(d) \notin Out
    <3>1. PICK q : q = Awaits(d) /\ q = Awaits(d)'
      BY <2>2 DEF Awaits
    <3>2. q \in pending /\ InWorker(q)
      BY <1>2, <2>2, <3>1 DEF NothingLost, Waiting
    <3>3. q \in pending' /\ InWorker(q)'
      BY <2>2, <3>1, <3>2 DEF Places, TypeOK
    <3>4. QED
      BY <3>1, <3>3 DEF InWorker
  <2>3. QED
    BY <1>2, <2>1, <2>2
<1>3. NothingLost'
  BY <1>2 DEF NothingLost, PendingOwn
<1>4. ASSUME NEW q \in Request, Tracked(q)'
      PROVE  Single(q)' /\ (InWorker(q)' => q \in pending')
  <2>1. Single(q) /\ (InWorker(q) => q \in pending)
    BY <1>4 DEF TrackedPending, Tracked
  <2>2. QED
    BY <2>1 DEF Places
<1>5. QED
  BY <1>3, <1>4 DEF TrackedPending

LEMMA WorkerLost ==
  ASSUME TypeOK, Shape, PendingOwn, NothingLost, TrackedPending, WorkerStep
  PROVE  NothingLost' /\ TrackedPending'
<1>1. \A r \in Request : Moved(r)
  BY WorkerMoves DEF WorkerStep
<1>2. UNCHANGED <<worker, pending, call, loaded, erred, calm>>
  BY DEF WorkerStep
<1>3. ASSUME NEW d \in DOMAIN call', Waiting(d)' PROVE Awaits(d)' \in pending' /\ InWorker(Awaits(d))'
  <2>1. PICK q : q = Awaits(d) /\ q = Awaits(d)'
    BY <1>2 DEF Awaits
  <2>2. q \in pending /\ InWorker(q)
    BY <1>2, <1>3, <2>1 DEF NothingLost, Waiting
  <2>3. q \in pending' /\ InWorker(q)'
    BY <1>1, <1>2, <2>2 DEF Moved, TypeOK
  <2>4. QED
    BY <2>1, <2>3 DEF InWorker
<1>4. NothingLost'
  BY <1>2, <1>3 DEF NothingLost, PendingOwn, Awaits
<1>5. ASSUME NEW q \in Request, Tracked(q)'
      PROVE  Single(q)' /\ (InWorker(q)' => q \in pending')
  BY <1>1, <1>2, <1>5 DEF TrackedPending, Tracked, Moved
<1>6. QED
  BY <1>4, <1>5 DEF TrackedPending

LEMMA ShapeKept ==
  ASSUME Shape, wk'.inits = wk.inits, wk'.loads = wk.loads,
         wk'.loaded = wk.loaded, wk'.resident = wk.resident, wk'.torn = wk.torn
  PROVE  Shape'
  BY DEF Shape

(* Every request is rejected. *)
LEMMA RejectedWaits ==
  ASSUME TypeOK, RejectAll, NEW c \in DOMAIN call
  PROVE  call'[c].at \notin Awaited
<1>1. CASE call[c] = Done
  BY <1>1, RejectAllType DEF Rejected, Done, Awaited
<1>2. CASE call[c] \in Call
  BY <1>2, RejectAllType DEF Rejected, Done, Awaited, Call, Place
<1>3. QED
  BY <1>1, <1>2, CallFields

LEMMA StopLost ==
  ASSUME TypeOK, StopGeneration
  PROVE  Shape' /\ NothingLost' /\ TrackedPending'
<1>1. /\ inbox' = <<>> /\ outbox' = <<>> /\ RejectAll
      /\ wk'.inits = {} /\ wk'.loads = {} /\ wk'.resident = {} /\ wk'.loaded = {}
      /\ wk'.torn = {}
  BY DEF StopGeneration, NewWorker
<1>2. Shape'
  BY <1>1 DEF Shape
<1>3. NothingLost'
  BY <1>1, RejectAllType, RejectedWaits DEF NothingLost, Waiting
<1>4. ASSUME NEW q PROVE Single(q)' /\ ~InWorker(q)'
  <2>1. ~Has(inbox', q) /\ ~HasTo(outbox', q) /\ Once(inbox', q) /\ OnceTo(outbox', q)
    BY <1>1 DEF Has, HasTo, Once, OnceTo
  <2>2. ~Held(q)' /\ HeldOnce(q)'
    BY <1>1 DEF Held, HeldOnce
  <2>3. QED
    BY <2>1, <2>2, WorkerHas DEF Single
<1>5. QED
  BY <1>2, <1>3, <1>4 DEF TrackedPending

LEMMA ErrorLost ==
  ASSUME TypeOK, PendingOwn, Shape, TrackedPending, OnError
  PROVE  Shape' /\ NothingLost' /\ TrackedPending'
<1>1. /\ inbox' = inbox /\ outbox' = outbox /\ RejectAll /\ erred'
      /\ wk'.inits = wk.inits /\ wk'.loads = wk.loads
      /\ wk'.resident = wk.resident /\ wk'.loaded = wk.loaded /\ wk'.torn = wk.torn
  BY WorkerParts DEF OnError, WorkerType, NewWorker
<1>2. Shape'
  BY <1>1, ShapeKept
<1>3. NothingLost'
  BY <1>1, RejectAllType, RejectedWaits DEF NothingLost, Waiting
<1>4. ASSUME NEW q \in Request, Tracked(q)' PROVE Single(q)' /\ ~InWorker(q)'
  <2>1. calm /\ q.at # "generate" /\ ~\E c \in DOMAIN call : Changing(c)
    BY <1>1, <1>4 DEF Tracked, RejectAll, Calming
  <2>2. Single(q) /\ (InWorker(q) => q \in pending)
    BY <2>1 DEF TrackedPending, Tracked
  <2>3. q \notin pending
    <3>1. SUFFICES ASSUME q \in pending PROVE FALSE
      OBVIOUS
    <3>2. q.call \in DOMAIN call /\ call[q.call].at = q.at /\ q.at \in Awaited
      BY <3>1 DEF PendingOwn, Awaits, Request
    <3>3. QED
      BY <2>1, <3>2 DEF Changing, Place
  <2>4. (Held(q)' <=> Held(q)) /\ (HeldOnce(q) => HeldOnce(q)')
    BY <1>1, SameHeld
  <2>5. QED
    BY <1>1, <2>2, <2>3, <2>4, WorkerHas DEF Single
<1>5. QED
  BY <1>2, <1>3, <1>4 DEF TrackedPending

(* A call begins. *)
LEMMA BeginSendingLost ==
  ASSUME TypeOK, PendingOwn, Shape, NothingLost, TrackedPending, PendingOwn',
         NEW m \in Models, NEW at \in Awaited, BeginSending(m, at), calm' => calm
  PROVE  Shape' /\ NothingLost' /\ TrackedPending'
<1>0. PICK n : n = Len(call) + 1
  OBVIOUS
<1> DEFINE r == [call |-> n, at |-> at, model |-> m]
<1>1. /\ Begin([at |-> at, model |-> m]) /\ Post(r) /\ pending' = pending \cup {r}
      /\ outbox' = outbox /\ wk' = wk /\ erred' = erred /\ inbox' = Append(inbox, r)
  BY <1>0 DEF BeginSending, Begin, Post
<1>2. /\ n \notin DOMAIN call /\ n \in 1 .. MaxCalls
      /\ DOMAIN call' = DOMAIN call \cup {n} /\ call'[n] = [at |-> at, model |-> m]
      /\ \A d \in DOMAIN call : call'[d] = call[d]
  BY <1>0, <1>1, Beginning
<1>3. r \in Request
  BY <1>2 DEF Request
<1>4. r \notin pending
  BY <1>2 DEF PendingOwn
<1>5. Awaits(n)' = r
  BY <1>2 DEF Awaits
<1> HIDE DEF r
<1>6. Places({r}, {})
  BY <1>1, <1>3, PlacesMove
<1>7. NothingLost' /\ TrackedPending'
  <2>1. \A d \in DOMAIN call' : Waiting(d)' => Awaits(d)' \in {r} \/ (d \in DOMAIN call /\ call'[d] = call[d])
    BY <1>2, <1>5
  <2>2. pending' = (pending \ {}) \cup {r}
    BY <1>1
  <2>3. QED
    BY <1>1, <1>3, <1>4, <1>6, <2>1, <2>2, PlacesLost
<1>8. QED
  BY <1>1, <1>7, ShapeKept

LEMMA BeginAloneLost ==
  ASSUME TypeOK, PendingOwn, Shape, NothingLost, TrackedPending, PendingOwn',
         NEW k, k.at \notin Awaited, BeginAlone(k), calm' => calm
  PROVE  Shape' /\ NothingLost' /\ TrackedPending'
<1>1. /\ Begin(k) /\ UNCHANGED <<inbox, outbox, wk, worker, pending, erred>>
  BY DEF BeginAlone, Begin
<1>2. /\ DOMAIN call' = DOMAIN call \cup {Len(call) + 1} /\ call'[Len(call) + 1] = k
      /\ \A d \in DOMAIN call : call'[d] = call[d]
  BY <1>1, Beginning
<1>3. Places({}, {})
  BY <1>1, PlacesMove
<1>4. \A d \in DOMAIN call' : Waiting(d)' => d \in DOMAIN call /\ call'[d] = call[d]
  BY <1>2 DEF Waiting
<1>5. pending' = (pending \ {}) \cup {}
  BY <1>1
<1>6. NothingLost' /\ TrackedPending'
  BY <1>1, <1>3, <1>4, <1>5, PlacesLost
<1>7. QED
  BY <1>1, <1>6, ShapeKept

(* A call goes on. *)
LEMMA PageStepLost ==
  ASSUME TypeOK, PendingOwn, Shape, NothingLost, TrackedPending, PendingOwn',
         NEW c \in DOMAIN call, PageStep(c)
  PROVE  Shape' /\ NothingLost' /\ TrackedPending'
<1>1. /\ call[c].at \in Place \ Awaited
      /\ UNCHANGED <<outbox, erred, calm>>
      /\ \/ \E at \in Awaited : Send(c, at)
         \/ Finish(c) /\ UNCHANGED <<inbox, wk, worker, pending>>
  BY DEF PageStep, ManifestRead, Admit, MarkLoaded, Place, Awaited
<1>2. Awaits(c) \notin pending
  BY <1>1, NotPending
<1>3. ASSUME NEW at \in Awaited, Send(c, at) PROVE Shape' /\ NothingLost' /\ TrackedPending'
  <2> DEFINE r == [call |-> c, at |-> at, model |-> call[c].model]
  <2>1. r \in Request /\ r \notin pending
    BY <1>1, CallFields DEF PendingOwn, Awaits
  <2>2. /\ pending' = pending \cup {r} /\ inbox' = Append(inbox, r) /\ wk' = wk
    BY <1>2, <1>3 DEF Send, Post
  <2>3. Elsewhere(c) /\ Awaits(c)' = r
    BY <1>1, <1>3, Sending DEF Awaits
  <2> HIDE DEF r
  <2>4. Places({r}, {})
    BY <1>1, <2>1, <2>2, PlacesMove
  <2>5. \A d \in DOMAIN call' : Waiting(d)' => Awaits(d)' \in {r} \/ (d \in DOMAIN call /\ call'[d] = call[d])
    BY <2>3 DEF Elsewhere
  <2>6. pending' = (pending \ {}) \cup {r}
    BY <2>2
  <2>7. NothingLost' /\ TrackedPending'
    BY <1>1, <2>1, <2>4, <2>5, <2>6, PlacesLost
  <2>8. QED
    BY <1>1, <2>2, <2>7, ShapeKept
<1>4. CASE Finish(c) /\ UNCHANGED <<inbox, wk, worker, pending>>
  <2>1. Elsewhere(c) /\ call'[c].at \notin Awaited
    <3>1. pending' = pending \ {Awaits(c)}
      BY <1>2, <1>4
    <3>2. QED
      BY <1>1, <1>4, <3>1, Leaving DEF Leaves
  <2>2. Places({}, {})
    BY <1>1, <1>4, PlacesMove
  <2>3. \A d \in DOMAIN call' : Waiting(d)' => d \in DOMAIN call /\ call'[d] = call[d]
    BY <2>1 DEF Waiting, Elsewhere
  <2>4. pending' = (pending \ {}) \cup {}
    BY <1>4
  <2>5. NothingLost' /\ TrackedPending'
    BY <1>1, <2>2, <2>3, <2>4, PlacesLost
  <2>6. QED
    BY <1>1, <1>4, <2>5, ShapeKept
<1>5. QED
  BY <1>1, <1>3, <1>4

(* An answer is received. *)
LEMMA MessageLost ==
  ASSUME TypeOK, PendingOwn, Shape, NothingLost, TrackedPending, PendingOwn', OnMessage
  PROVE  Shape' /\ NothingLost' /\ TrackedPending'
<1>0. PICK g, c : g = Head(outbox).to /\ c = g.call
  OBVIOUS
<1>1. outbox # <<>> /\ outbox' = Tail(outbox) /\ UNCHANGED <<erred, calm>>
  BY DEF OnMessage
<1>2. g \in Request
  <2>1. Head(outbox) \in Reply
    BY <1>1, WorkerParts
  <2>2. QED
    BY <1>0, <2>1 DEF Reply
<1>3. CASE g \notin pending
  <2>1. UNCHANGED <<inbox, wk, worker, pending, call, loaded>>
    BY <1>0, <1>3 DEF OnMessage
  <2>2. Places({}, {g})
    BY <1>0, <1>1, <1>2, <2>1, PlacesMove
  <2>3. \A d \in DOMAIN call' : Waiting(d)' => d \in DOMAIN call /\ call'[d] = call[d] /\ Awaits(d) \notin {g}
    BY <1>3, <2>1 DEF Waiting, NothingLost
  <2>4. pending' = (pending \ {g}) \cup {}
    BY <1>3, <2>1
  <2>5. NothingLost' /\ TrackedPending'
    BY <1>1, <2>2, <2>3, <2>4, PlacesLost
  <2>6. QED
    BY <1>1, <2>1, <2>5, ShapeKept
<1>4. CASE g \in pending
  <2>1. c \in DOMAIN call /\ g = Awaits(c) /\ call[c].at \in Awaited
    BY <1>0, <1>4, Answering
  <2>2. \A d \in DOMAIN call : d # c => Awaits(d) \notin {g}
    BY <2>1 DEF Awaits
  <2>3. CASE call[c].at = "load" /\ Send(c, "measure")
    <3> DEFINE r == [call |-> c, at |-> "measure", model |-> call[c].model]
    <3>1. r \in Request
      <4>1. call[c].at \in Place /\ "measure" \in Awaited
        BY <2>1 DEF Place, Awaited
      <4>2. QED
        BY <2>1, <4>1, CallFields
    <3>2. r \notin pending /\ r # g
      BY <2>1, <2>3 DEF PendingOwn, Awaits
    <3>3. /\ pending' = (pending \ {g}) \cup {r} /\ inbox' = Append(inbox, r) /\ wk' = wk
      BY <2>1, <2>3 DEF Send, Post
    <3>4. Elsewhere(c) /\ Awaits(c)' = r
      <4>1. call[c].at \in Place
        BY <2>1 DEF Place
      <4>2. Elsewhere(c) /\ call'[c].at = "measure" /\ call'[c].model = call[c].model
        BY <2>1, <2>3, <4>1, Sending
      <4>3. QED
        BY <4>2 DEF Awaits
    <3> HIDE DEF r
    <3>5. Places({r}, {g})
      BY <1>0, <1>1, <3>1, <3>2, <3>3, PlacesMove
    <3>6. \A d \in DOMAIN call' : Waiting(d)' =>
            Awaits(d)' \in {r} \/ (d \in DOMAIN call /\ call'[d] = call[d] /\ Awaits(d) \notin {g})
      BY <2>2, <3>4 DEF Elsewhere
    <3>7. NothingLost' /\ TrackedPending'
      BY <1>1, <3>1, <3>2, <3>3, <3>5, <3>6, PlacesLost
    <3>8. QED
      BY <1>1, <3>3, <3>7, ShapeKept
  <2>4. CASE Leaves(c) /\ UNCHANGED <<inbox, wk, worker>>
    <3>1. Elsewhere(c) /\ call'[c].at \notin Awaited /\ pending' = (pending \ {g}) \cup {}
      BY <2>1, <2>4 DEF Leaves
    <3>2. Places({}, {g})
      BY <1>0, <1>1, <1>2, <2>4, PlacesMove
    <3>3. \A d \in DOMAIN call' : Waiting(d)' => d \in DOMAIN call /\ call'[d] = call[d] /\ Awaits(d) \notin {g}
      BY <2>2, <3>1 DEF Waiting, Elsewhere
    <3>4. NothingLost' /\ TrackedPending'
      BY <1>1, <3>1, <3>2, <3>3, PlacesLost
    <3>5. QED
      BY <1>1, <2>4, <3>4, ShapeKept
  <2>5. QED
    BY <1>0, <1>4, <2>3, <2>4, Answering
<1>5. QED
  BY <1>3, <1>4

LEMMA NextLost ==
  TypeOK /\ PendingOwn /\ Shape /\ NothingLost /\ TrackedPending /\ [Next]_vars
    => Shape' /\ NothingLost' /\ TrackedPending'
<1> SUFFICES ASSUME TypeOK, PendingOwn, Shape, NothingLost, TrackedPending, [Next]_vars
             PROVE  Shape' /\ NothingLost' /\ TrackedPending'
  OBVIOUS
<1>1. PendingOwn'
  BY NextTypeOwn
<1>2. ASSUME NEW m \in Models, Initialize(m) \/ LoadModel(m) \/ UnloadModel(m) \/ Generate(m)
      PROVE  Shape' /\ NothingLost' /\ TrackedPending'
  <2>1. calm' => calm
    BY <1>2 DEF Initialize, LoadModel, UnloadModel, Generate, Calming
  <2>2. \/ \E at \in {"init", "unload", "generate"} : BeginSending(m, at)
        \/ BeginAlone(Done) \/ BeginAlone([at |-> "manifest", model |-> m])
    BY <1>2 DEF Initialize, LoadModel, UnloadModel, Generate
  <2>3. /\ {"init", "unload", "generate"} \subseteq Awaited /\ Done.at \notin Awaited
        /\ [at |-> "manifest", model |-> m].at \notin Awaited
    BY DEF Awaited, Done
  <2>4. QED
    BY <1>1, <2>1, <2>2, <2>3, BeginSendingLost, BeginAloneLost
<1>3. ASSUME NEW c \in DOMAIN call, PageStep(c) PROVE Shape' /\ NothingLost' /\ TrackedPending'
  BY <1>1, <1>3, PageStepLost
<1>4. CASE OnMessage
  BY <1>1, <1>4, MessageLost
<1>5. CASE StopGeneration
  BY <1>5, StopLost
<1>6. CASE OnError
  BY <1>6, ErrorLost
<1>7. CASE WorkerStep
  BY <1>7, WorkerLost, WorkerMoves DEF WorkerStep
<1>8. CASE UNCHANGED vars
  <2>1. Shape'
    BY <1>8 DEF vars, Shape
  <2>2. NothingLost'
    BY <1>8 DEF vars, NothingLost, Waiting, Awaits, InWorker
  <2>3. TrackedPending'
    BY <1>8 DEF vars, TrackedPending, Tracked, Single, Once, OnceTo, Has, HasTo, HeldOnce, Held, InWorker
  <2>4. QED
    BY <2>1, <2>2, <2>3
<1>9. QED
  BY <1>2, <1>3, <1>4, <1>5, <1>6, <1>7, <1>8 DEF Next

-----------------------------------------------------------------------------
(* What a step of the worker does to the models it has loaded and to the   *)
(* news of them: the answers to loads and unloads.                         *)
NewAnswer(i) == i \in DOMAIN outbox' /\ i \notin DOMAIN outbox

Grown ==
  /\ \A i \in DOMAIN outbox : i \in DOMAIN outbox' /\ outbox'[i] = outbox[i]
  /\ \A i : NewAnswer(i) =>
       /\ \A j \in DOMAIN outbox : i > j
       /\ outbox'[i].to \in Request
       /\ Has(inbox, outbox'[i].to) \/ Held(outbox'[i].to)

Effects ==
  \/ /\ wk'.loaded = wk.loaded
     /\ \A i : NewAnswer(i) =>
          /\ outbox'[i].to.at = "unload" => outbox'[i].is = "error"
          /\ outbox'[i].to.at = "load" /\ outbox'[i].is # "error"
               => outbox'[i].to.model \in wk.loaded
  \/ \E m : /\ wk'.loaded = wk.loaded \ {m}
            /\ \E i : NewAnswer(i)
            /\ \A i : NewAnswer(i) => /\ outbox'[i].to.at = "unload" /\ outbox'[i].to.model = m
                                     /\ outbox'[i].is # "error"
  \/ \E m : /\ wk'.loaded = wk.loaded \cup {m}
            /\ \E i : NewAnswer(i)
            /\ \A i : NewAnswer(i) => /\ outbox'[i].to.at = "load" /\ outbox'[i].to.model = m
                                     /\ outbox'[i].is # "error"

LEMMA AnswerGrows ==
  ASSUME TypeOK, NEW h \in Request, Has(inbox, h) \/ Held(h),
         NEW what \in {"result", "measured", "error"}, Answer(h, what)
  PROVE  /\ Grown
         /\ NewAnswer(Len(outbox) + 1)
         /\ \A i : NewAnswer(i) => outbox'[i].to = h /\ outbox'[i].is = what
<1> DEFINE e == [to |-> h, is |-> what]
<1>1. e \in Reply /\ e.to = h /\ e.is = what /\ outbox' = Append(outbox, e) /\ outbox \in Seq(Reply)
  BY WorkerParts DEF Answer, Reply
<1> HIDE DEF e
<1>2. /\ Len(outbox) + 1 \in DOMAIN outbox' /\ Len(outbox) + 1 \notin DOMAIN outbox
      /\ outbox'[Len(outbox) + 1] = e
      /\ \A i : i \in DOMAIN outbox' <=> i \in DOMAIN outbox \/ i = Len(outbox) + 1
      /\ \A i \in DOMAIN outbox : outbox'[i] = outbox[i] /\ i < Len(outbox) + 1 /\ i \in Int
  BY <1>1
<1>3. Len(outbox) \in Nat
  BY <1>1
<1>4. \A i : NewAnswer(i) => i = Len(outbox) + 1 /\ outbox'[i] = e
  BY <1>2 DEF NewAnswer
<1>5. NewAnswer(Len(outbox) + 1)
  BY <1>2 DEF NewAnswer
<1>6. Grown
  BY <1>1, <1>2, <1>3, <1>4 DEF Grown
<1>7. QED
  BY <1>1, <1>4, <1>5, <1>6

LEMMA AnswerAllGrows ==
  ASSUME TypeOK, Shape, NEW l \in wk.loads,
         NEW what \in {"result", "measured", "error"}, AnswerAll(l.waiters, what)
  PROVE  /\ Grown
         /\ \E i : NewAnswer(i)
         /\ \A i : NewAnswer(i) => /\ outbox'[i].to.at = "load" /\ outbox'[i].is = what
                                  /\ outbox'[i].to.model = l.model
<1> DEFINE as == [i \in DOMAIN l.waiters |-> [to |-> l.waiters[i], is |-> what]]
<1>1. /\ as \in Seq(Reply) /\ outbox \in Seq(Reply) /\ outbox' = outbox \o as
      /\ l.waiters \in Seq(Request) /\ l.waiters # <<>>
  <2>1. l.waiters \in Seq(Request) /\ l.waiters # <<>> /\ outbox \in Seq(Reply)
    BY WorkerParts DEF Shape
  <2>2. as \in Seq(Reply)
    BY <2>1, ReplyAllType
  <2>3. outbox' = outbox \o as
    BY DEF AnswerAll
  <2>4. QED
    BY <2>1, <2>2, <2>3
<1>2. /\ DOMAIN as = DOMAIN l.waiters
      /\ \A i \in DOMAIN as : /\ as[i].to = l.waiters[i] /\ as[i].is = what
                              /\ as[i].to.at = "load" /\ as[i].to.model = l.model
                              /\ as[i].to \in Request /\ Held(as[i].to)
  BY <1>1 DEF Shape, Held, Has
<1>3. as # <<>>
  <2>1. 1 \in DOMAIN l.waiters
    BY <1>1
  <2>2. DOMAIN <<>> = {}
    OBVIOUS
  <2>3. QED
    BY <1>2, <2>1, <2>2
<1> HIDE DEF as
<1>4. /\ \A i \in DOMAIN outbox : /\ i \in DOMAIN outbox' /\ outbox'[i] = outbox[i]
                                 /\ i \in Int /\ i <= Len(outbox)
      /\ Len(outbox) \in Nat
  <2>1. /\ \A i \in DOMAIN outbox :
             /\ i \in DOMAIN (outbox \o as) /\ (outbox \o as)[i] = outbox[i]
             /\ i \in Int /\ i <= Len(outbox)
        /\ Len(outbox) \in Nat
    <3>1. as \in Seq(Reply) /\ outbox \in Seq(Reply)
      BY <1>1
    <3>2. QED
      BY <3>1, JoinedNew
  <2>2. outbox' = outbox \o as
    BY <1>1
  <2>3. QED
    BY <2>1, <2>2, Zenon
<1>5. \A i : NewAnswer(i) => /\ i \in Int /\ i > Len(outbox) /\ i - Len(outbox) \in DOMAIN as
                            /\ outbox'[i] = as[i - Len(outbox)]
  <2>1. \A i : i \in DOMAIN (outbox \o as) /\ i \notin DOMAIN outbox =>
          /\ i \in Int /\ i > Len(outbox) /\ i - Len(outbox) \in DOMAIN as
          /\ (outbox \o as)[i] = as[i - Len(outbox)]
    <3>1. as \in Seq(Reply) /\ outbox \in Seq(Reply)
      BY <1>1
    <3>2. QED
      BY <3>1, JoinedNew
  <2>2. outbox' = outbox \o as
    BY <1>1
  <2>3. QED
    BY <2>1, <2>2, Zenon DEF NewAnswer
<1>6. NewAnswer(Len(outbox) + 1)
  <2>1. Len(outbox) + 1 \in DOMAIN (outbox \o as) /\ Len(outbox) + 1 \notin DOMAIN outbox
    BY <1>1, <1>3, JoinedNew
  <2>2. outbox' = outbox \o as
    BY <1>1
  <2>3. QED
    BY <2>1, <2>2, Zenon DEF NewAnswer
<1>7. Grown
  <2>1. ASSUME NEW i, NewAnswer(i)
        PROVE  /\ \A j \in DOMAIN outbox : i > j
               /\ outbox'[i].to \in Request
               /\ Held(outbox'[i].to)
    <3>1. /\ i \in Int /\ i > Len(outbox) /\ i - Len(outbox) \in DOMAIN as
          /\ outbox'[i] = as[i - Len(outbox)]
      BY <1>5, <2>1
    <3>2. \A j \in DOMAIN outbox : i > j
      BY <1>4, <3>1
    <3>3. PICK k \in DOMAIN as : outbox'[i] = as[k]
      BY <3>1
    <3>4. QED
      BY <1>2, <3>2, <3>3
  <2>2. QED
    BY <1>4, <2>1 DEF Grown
<1>8. ASSUME NEW i, NewAnswer(i)
      PROVE  /\ outbox'[i].to.at = "load" /\ outbox'[i].is = what
             /\ outbox'[i].to.model = l.model
  <2>1. PICK k \in DOMAIN as : outbox'[i] = as[k]
    BY <1>5, <1>8
  <2>2. QED
    BY <1>2, <2>1
<1>9. QED
  BY <1>6, <1>7, <1>8

LEMMA WorkerEffects ==
  ASSUME TypeOK, Shape, WorkerNext
  PROVE  Grown /\ Effects
<1>0. \A i : ~(outbox' = outbox /\ NewAnswer(i))
  BY DEF NewAnswer
<1>1. ASSUME NEW kinds, Take(kinds)
      PROVE  Head(inbox) \in Request /\ Has(inbox, Head(inbox)) /\ Head(inbox).at \in kinds
  <2>1. inbox # <<>> /\ inbox \in Seq(Request)
    BY <1>1, WorkerParts DEF Take
  <2>2. 1 \in DOMAIN inbox /\ inbox[1] = Head(inbox) /\ Head(inbox) \in Request
    BY <2>1
  <2>3. QED
    BY <1>1, <2>2 DEF Has, Take
<1>2. ASSUME NEW h \in Request, Has(inbox, h) \/ Held(h), NEW what \in {"result", "error"},
             Answer(h, what), wk'.loaded = wk.loaded, h.at = "unload" => what = "error",
             h.at = "load" /\ what # "error" => h.model \in wk.loaded
      PROVE  Grown /\ Effects
  BY <1>2, AnswerGrows DEF Effects
<1>3. ASSUME outbox' = outbox, wk'.loaded = wk.loaded PROVE Grown /\ Effects
  BY <1>0, <1>3 DEF Grown, Effects
<1>4. CASE HandleInit
  <2>1. Take({"init"})
    BY <1>4 DEF HandleInit
  <2>2. CASE wk.initialized
    <3>1. Answer(Head(inbox), "result") /\ wk' = wk
      BY <1>4, <2>2 DEF HandleInit
    <3>2. QED
      BY <1>1, <1>2, <2>1, <3>1
  <2>3. CASE ~wk.initialized
    BY <1>3, <1>4, <2>3, WorkerParts DEF HandleInit, WorkerType
  <2>4. QED
    BY <2>2, <2>3
<1>5. CASE HandleMemory
  <2>1. Take({"memory", "measure"}) /\ Answer(Head(inbox), "result") /\ wk' = wk
    BY <1>5 DEF HandleMemory
  <2>2. QED
    BY <1>1, <1>2, <2>1
<1>6. CASE HandleLoad
  <2>1. Take({"load"})
    BY <1>6 DEF HandleLoad
  <2>2. CASE Answer(Head(inbox), "error") /\ UNCHANGED wk
    BY <1>1, <1>2, <2>1, <2>2
  <2>3. CASE Answer(Head(inbox), "result") /\ UNCHANGED wk /\ Head(inbox).model \in wk.loaded
    BY <1>1, <1>2, <2>1, <2>3
  <2>4. CASE outbox' = outbox /\ wk'.loaded = wk.loaded
    BY <1>3, <2>4
  <2>5. \/ Answer(Head(inbox), "error") /\ UNCHANGED wk
        \/ Answer(Head(inbox), "result") /\ UNCHANGED wk /\ Head(inbox).model \in wk.loaded
        \/ outbox' = outbox /\ wk'.loaded = wk.loaded
    BY <1>6, WorkerParts DEF HandleLoad, WorkerType
  <2>6. QED
    BY <2>2, <2>3, <2>4, <2>5
<1>7. CASE HandleUnload
  <2>1. Take({"unload"})
    BY <1>7 DEF HandleUnload
  <2>2. Head(inbox) \in Request /\ Has(inbox, Head(inbox)) /\ Head(inbox).at = "unload"
    BY <1>1, <2>1
  <2>3. CASE Answer(Head(inbox), "result") /\ wk'.loaded = wk.loaded \ {Head(inbox).model}
    <3>1. /\ Grown /\ NewAnswer(Len(outbox) + 1)
          /\ \A i : NewAnswer(i) => outbox'[i].to = Head(inbox) /\ outbox'[i].is = "result"
      BY <2>2, <2>3, AnswerGrows
    <3>2. QED
      BY <2>2, <2>3, <3>1 DEF Effects
  <2>4. CASE Answer(Head(inbox), "error") /\ wk'.loaded = wk.loaded
    BY <1>2, <2>2, <2>4
  <2>5. QED
    BY <1>7, <2>3, <2>4, WorkerParts DEF HandleUnload, WorkerType
<1>8. CASE HandleGenerate
  <2>1. Take({"generate"}) /\ wk' = wk
    BY <1>8 DEF HandleGenerate
  <2>2. \E what \in {"result", "error"} : Answer(Head(inbox), what)
    BY <1>8 DEF HandleGenerate
  <2>3. QED
    BY <1>1, <1>2, <2>1, <2>2
<1>9. ASSUME NEW h \in wk.inits, InitDone(h) PROVE Grown /\ Effects
  <2>1. h \in Request /\ Held(h) /\ h.at = "init"
    BY WorkerParts DEF Held, Shape
  <2>2. wk'.loaded = wk.loaded
    BY <1>9, WorkerParts DEF InitDone, WorkerType
  <2>3. \E what \in {"result", "error"} : Answer(h, what)
    BY <1>9 DEF InitDone
  <2>4. QED
    BY <1>2, <2>1, <2>2, <2>3
<1>10. ASSUME NEW l \in wk.loads, LoadSucceeds(l) PROVE Grown /\ Effects
  <2>1. PICK what \in {"result", "measured"} : AnswerAll(l.waiters, what)
    BY <1>10 DEF LoadSucceeds
  <2>2. wk'.loaded = wk.loaded \cup {l.model}
    BY <1>10, WorkerParts DEF LoadSucceeds, WorkerType
  <2>3. /\ Grown /\ \E i : NewAnswer(i)
        /\ \A i : NewAnswer(i) => /\ outbox'[i].to.at = "load" /\ outbox'[i].is # "error"
                                 /\ outbox'[i].to.model = l.model
    BY <2>1, AnswerAllGrows
  <2>4. QED
    BY <2>2, <2>3, Zenon DEF Effects
<1>11. ASSUME NEW l \in wk.loads, LoadFails(l) PROVE Grown /\ Effects
  <2>1. AnswerAll(l.waiters, "error")
    BY <1>11 DEF LoadFails
  <2>2. wk'.loaded = wk.loaded
    BY <1>11, WorkerParts DEF LoadFails, WorkerType
  <2>3. QED
    BY <2>1, <2>2, AnswerAllGrows DEF Effects
<1>12. QED
  BY <1>4, <1>5, <1>6, <1>7, <1>8, <1>9, <1>10, <1>11 DEF WorkerNext

-----------------------------------------------------------------------------
(* News of a model that is loaded again comes after the answer to its      *)
(* unload.                                                                 *)
LEMMA WorkerUnloadsFirst ==
  ASSUME UnloadsFirst, Grown, Effects
  PROVE  UnloadsFirst'
<1> SUFFICES ASSUME NEW i \in DOMAIN outbox', UnloadAnswer(i)',
                    outbox'[i].to.model \in wk'.loaded
             PROVE  \E j \in DOMAIN outbox' : j > i /\ LoadAnswer(j, outbox[i].to.model)'
  BY DEF UnloadsFirst, UnloadAnswer
<1>1. PICK m : m = outbox'[i].to.model
  OBVIOUS
<1>2. i \in DOMAIN outbox
  <2>1. ~NewAnswer(i)
    BY <1>1 DEF Effects, UnloadAnswer
  <2>2. QED
    BY <2>1 DEF NewAnswer
<1>3. outbox'[i] = outbox[i]
  BY <1>2 DEF Grown
<1>4. CASE m \in wk.loaded
  <2>1. PICK j \in DOMAIN outbox : j > i /\ LoadAnswer(j, m)
    BY <1>1, <1>2, <1>3, <1>4 DEF UnloadsFirst, UnloadAnswer
  <2>2. j \in DOMAIN outbox' /\ outbox'[j] = outbox[j]
    BY DEF Grown
  <2>3. QED
    BY <1>1, <2>1, <2>2 DEF LoadAnswer
<1>5. CASE m \notin wk.loaded
  <2>1. PICK j : NewAnswer(j) /\ LoadAnswer(j, m)'
    BY <1>1, <1>5 DEF Effects, LoadAnswer
  <2>2. j \in DOMAIN outbox' /\ j > i
    BY <1>2, <2>1 DEF Grown, NewAnswer
  <2>3. QED
    BY <1>1, <2>1, <2>2 DEF LoadAnswer
<1>6. QED
  BY <1>4, <1>5

LEMMA TailUnloadsFirst ==
  ASSUME TypeOK, UnloadsFirst, outbox # <<>>, outbox' = Tail(outbox), wk'.loaded = wk.loaded
  PROVE  UnloadsFirst'
<1> SUFFICES ASSUME NEW i \in DOMAIN outbox', UnloadAnswer(i)',
                    outbox'[i].to.model \in wk'.loaded
             PROVE  \E j \in DOMAIN outbox' : j > i /\ LoadAnswer(j, outbox[i].to.model)'
  BY DEF UnloadsFirst, UnloadAnswer
<1>1. i + 1 \in DOMAIN outbox /\ outbox'[i] = outbox[i + 1] /\ i \in Int /\ i >= 1
  BY WorkerParts
<1>2. PICK j \in DOMAIN outbox : j > i + 1 /\ LoadAnswer(j, outbox[i + 1].to.model)
  BY <1>1 DEF UnloadsFirst, UnloadAnswer
<1>3. j - 1 \in DOMAIN outbox' /\ outbox'[j - 1] = outbox[j] /\ j - 1 > i
  BY <1>1, <1>2, WorkerParts
<1>4. QED
  BY <1>1, <1>2, <1>3 DEF LoadAnswer

LEMMA NextUnloadsFirst ==
  ASSUME TypeOK, Shape, UnloadsFirst, [Next]_vars PROVE UnloadsFirst'
<1>1. CASE outbox' = outbox /\ wk'.loaded = wk.loaded
  BY <1>1 DEF UnloadsFirst, UnloadAnswer, LoadAnswer
<1>2. CASE outbox # <<>> /\ outbox' = Tail(outbox) /\ wk'.loaded = wk.loaded
  BY <1>2, TailUnloadsFirst
<1>3. CASE StopGeneration
  BY <1>3 DEF StopGeneration, UnloadsFirst
<1>4. CASE WorkerStep
  BY <1>4, WorkerEffects, WorkerUnloadsFirst DEF WorkerStep
<1>5. CASE OnMessage
  <2>1. outbox # <<>> /\ outbox' = Tail(outbox)
    BY <1>5 DEF OnMessage
  <2>2. wk' = wk
    BY <1>5 DEF OnMessage, Continue, Send, Post
  <2>3. QED
    BY <1>2, <2>1, <2>2
<1>6. CASE OnError
  <2>1. outbox' = outbox /\ wk'.loaded = wk.loaded
    BY <1>6, WorkerParts DEF OnError, WorkerType
  <2>2. QED
    BY <1>1, <2>1
<1>7. ASSUME NEW m \in Models, Initialize(m) \/ LoadModel(m) \/ UnloadModel(m) \/ Generate(m)
      PROVE  outbox' = outbox /\ wk' = wk
  BY <1>7 DEF Initialize, LoadModel, UnloadModel, Generate, BeginSending, BeginAlone, Begin, Post
<1>8. ASSUME NEW c \in DOMAIN call, PageStep(c)
      PROVE  outbox' = outbox /\ wk' = wk
  BY <1>8 DEF PageStep, ManifestRead, Admit, MarkLoaded, Send, Post
<1>9. CASE UNCHANGED vars
  BY <1>1, <1>9 DEF vars
<1>10. QED
  BY <1>1, <1>3, <1>4, <1>5, <1>6, <1>7, <1>8, <1>9 DEF Next

-----------------------------------------------------------------------------
(* The page knows what the worker holds, or is told.                       *)
Known(m) == \/ m \in loaded
            \/ \E i \in DOMAIN outbox : LoadAnswer(i, m)
            \/ \E c \in DOMAIN call : call[c].at = "measure" /\ call[c].model = m

LEMMA WorkerKnown ==
  ASSUME KnownOrTold, Grown, Effects, UNCHANGED <<call, loaded, erred>>
  PROVE  KnownOrTold'
<1> SUFFICES ASSUME ~erred, NEW m \in wk'.loaded PROVE Known(m)'
  BY DEF KnownOrTold, Known
<1>1. CASE m \in wk.loaded
  <2>1. \A i \in DOMAIN outbox : LoadAnswer(i, m) => i \in DOMAIN outbox' /\ LoadAnswer(i, m)'
    BY DEF Grown, LoadAnswer
  <2>2. Known(m)
    BY <1>1 DEF KnownOrTold, Known
  <2>3. QED
    BY <2>1, <2>2 DEF Known
<1>2. CASE m \notin wk.loaded
  <2>1. \E j : NewAnswer(j) /\ LoadAnswer(j, m)'
    BY <1>2 DEF Effects, LoadAnswer
  <2>2. QED
    BY <2>1 DEF Known, NewAnswer
<1>3. QED
  BY <1>1, <1>2

(* Steps that take nothing from what the page knows. *)
LEMMA SameKnown ==
  ASSUME KnownOrTold, outbox' = outbox, wk'.loaded = wk.loaded, loaded \subseteq loaded',
         erred' = erred,
         \A c \in DOMAIN call : call[c].at = "measure" => c \in DOMAIN call' /\ call'[c] = call[c]
  PROVE  KnownOrTold'
<1> SUFFICES ASSUME ~erred, NEW m \in wk.loaded PROVE Known(m)'
  BY DEF KnownOrTold, Known
<1>1. Known(m)
  BY DEF KnownOrTold, Known
<1>2. QED
  BY <1>1 DEF Known, LoadAnswer

LEMMA MessageKnown ==
  ASSUME TypeOK, PendingOwn, Shape, TrackedPending, UnloadsFirst, KnownOrTold, OnMessage
  PROVE  KnownOrTold'
<1>0. PICK g, c, what : Head(outbox).to = g /\ g.call = c /\ Head(outbox).is = what
  OBVIOUS
<1>1. /\ outbox # <<>> /\ outbox' = Tail(outbox) /\ UNCHANGED <<erred, calm>>
      /\ 1 \in DOMAIN outbox /\ outbox[1] = Head(outbox) /\ outbox[1] \in Reply
  BY WorkerParts DEF OnMessage
<1> SUFFICES ASSUME ~erred, NEW m \in wk'.loaded PROVE Known(m)'
  BY <1>1 DEF KnownOrTold, Known
<1>2. g \in pending
  <2>1. g \in Request /\ HasTo(outbox, g)
    BY <1>0, <1>1 DEF Reply, HasTo
  <2>2. QED
    BY <2>1, WorkerHas DEF TrackedPending, Tracked
<1>3. /\ c \in DOMAIN call /\ g = Awaits(c) /\ call[c].at \in Awaited /\ call[c] \in Call
      /\ Continue(c, what)
      /\ what \in {"result", "measured", "error"}
      /\ \/ call[c].at = "load" /\ what = "result" /\ Send(c, "measure")
         \/ ~(call[c].at = "load" /\ what = "result") /\ Leaves(c) /\ wk' = wk
  BY <1>0, <1>2, Answering
<1>4. Elsewhere(c) /\ wk' = wk
  <2>1. CASE Send(c, "measure")
    <3>1. call[c].at \in Place
      BY <1>3 DEF Place
    <3>2. QED
      BY <1>3, <2>1, <3>1, Sending DEF Send, Post
  <2>2. QED
    BY <1>3, <2>1 DEF Leaves
<1>5. loaded' = CASE call[c].at = "measure" \/ (call[c].at = "load" /\ what = "measured")
                     -> loaded \cup {call[c].model}
                 [] call[c].at = "unload" /\ what # "error" -> loaded \ {call[c].model}
                 [] OTHER -> loaded
  BY <1>3 DEF Continue
<1>6. g.at = call[c].at /\ g.model = call[c].model
  BY <1>3 DEF Awaits
<1>7. \A i \in DOMAIN outbox : i # 1 => i - 1 \in DOMAIN outbox' /\ outbox'[i - 1] = outbox[i]
  BY <1>1, WorkerParts
<1>8. Known(m)
  BY <1>4 DEF KnownOrTold, Known
<1>9. CASE m \in loaded /\ m \notin loaded'
  <2>1. call[c].at = "unload" /\ m = call[c].model /\ what # "error"
    BY <1>5, <1>9
  <2>2. PICK j \in DOMAIN outbox : j > 1 /\ LoadAnswer(j, m)
    BY <1>0, <1>1, <1>4, <1>6, <2>1 DEF UnloadsFirst, UnloadAnswer
  <2>3. j - 1 \in DOMAIN outbox' /\ LoadAnswer(j - 1, m)'
    BY <1>7, <2>2 DEF LoadAnswer
  <2>4. QED
    BY <2>3 DEF Known
<1>10. ASSUME NEW i \in DOMAIN outbox, LoadAnswer(i, m) PROVE Known(m)'
  <2>1. CASE i # 1
    <3>1. i - 1 \in DOMAIN outbox' /\ LoadAnswer(i - 1, m)'
      BY <1>7, <1>10, <2>1 DEF LoadAnswer
    <3>2. QED
      BY <3>1 DEF Known
  <2>2. CASE i = 1
    <3>1. call[c].at = "load" /\ call[c].model = m /\ what # "error"
      BY <1>0, <1>1, <1>6, <1>10, <2>2 DEF LoadAnswer
    <3>2. CASE what = "measured"
      BY <1>5, <3>1, <3>2 DEF Known
    <3>3. CASE what = "result"
      <4>1. Send(c, "measure") /\ call[c].at \in Place
        BY <1>3, <3>1, <3>3 DEF Place
      <4>2. c \in DOMAIN call' /\ call'[c].at = "measure" /\ call'[c].model = m
        BY <1>3, <1>4, <3>1, <4>1, Sending DEF Elsewhere
      <4>3. QED
        BY <4>2 DEF Known
    <3>4. QED
      BY <1>3, <3>1, <3>2, <3>3
  <2>3. QED
    BY <2>1, <2>2
<1>11. ASSUME NEW d \in DOMAIN call, call[d].at = "measure", call[d].model = m PROVE Known(m)'
  <2>1. CASE d = c
    BY <1>5, <1>11, <2>1 DEF Known
  <2>2. CASE d # c
    BY <1>4, <1>11, <2>2 DEF Known, Elsewhere
  <2>3. QED
    BY <2>1, <2>2
<1>12. QED
  BY <1>8, <1>9, <1>10, <1>11 DEF Known

LEMMA NextKnown ==
  ASSUME TypeOK, PendingOwn, Shape, TrackedPending, UnloadsFirst, KnownOrTold, [Next]_vars
  PROVE  KnownOrTold'
<1>1. ASSUME NEW m \in Models, Initialize(m) \/ LoadModel(m) \/ UnloadModel(m) \/ Generate(m)
      PROVE  KnownOrTold'
  <2>1. /\ wk' = wk /\ UNCHANGED <<outbox, loaded, erred>>
        /\ \E k : Begin(k)
    BY <1>1 DEF Initialize, LoadModel, UnloadModel, Generate, BeginSending, BeginAlone, Begin, Post
  <2>2. \A c \in DOMAIN call : c \in DOMAIN call' /\ call'[c] = call[c]
    BY <2>1, Beginning
  <2>3. QED
    BY <2>1, <2>2, SameKnown
<1>2. ASSUME NEW c \in DOMAIN call, PageStep(c) PROVE KnownOrTold'
  <2>1. /\ call[c].at \in {"manifest", "entry", "mark"} /\ UNCHANGED <<outbox, wk, erred>>
        /\ Finish(c) \/ \E at : Send(c, at)
    BY <1>2 DEF PageStep, ManifestRead, Admit, MarkLoaded, Send, Post
  <2>2. Elsewhere(c)
    <3>1. call[c].at \in Place
      BY <2>1 DEF Place
    <3>2. QED
      BY <2>1, <3>1, Sending DEF Finish, Elsewhere, TypeOK
  <2>3. loaded \subseteq loaded'
    BY <1>2 DEF PageStep, ManifestRead, Admit, MarkLoaded
  <2>4. QED
    BY <2>1, <2>2, <2>3, SameKnown DEF Elsewhere
<1>3. CASE OnMessage
  BY <1>3, MessageKnown
<1>4. CASE StopGeneration
  BY <1>4 DEF StopGeneration, NewWorker, KnownOrTold
<1>5. CASE OnError
  BY <1>5 DEF OnError, KnownOrTold
<1>6. CASE WorkerStep
  BY <1>6, WorkerEffects, WorkerKnown DEF WorkerStep
<1>7. CASE UNCHANGED vars
  BY <1>7, SameKnown DEF vars
<1>8. QED
  BY <1>1, <1>2, <1>3, <1>4, <1>5, <1>6, <1>7 DEF Next

-----------------------------------------------------------------------------
(* Calm use.                                                               *)

(* What the worker has then, but for generations, is the request of the    *)
(* one changing call.                                                      *)
LEMMA CalmRequest ==
  ASSUME PendingOwn, TrackedPending, calm, NEW r \in Request, InWorker(r), r.at # "generate"
  PROVE  /\ r.call \in DOMAIN call /\ r = Awaits(r.call) /\ Changing(r.call)
         /\ call[r.call].at = r.at /\ call[r.call].model = r.model
         /\ Single(r) /\ r \in pending
<1>1. Single(r) /\ r \in pending
  BY DEF TrackedPending, Tracked
<1>2. r.call \in DOMAIN call /\ r = Awaits(r.call)
  BY <1>1 DEF PendingOwn
<1>3. call[r.call].at = r.at /\ call[r.call].model = r.model
  BY <1>2 DEF Awaits
<1>4. r.at \in Awaited
  BY DEF Request
<1>5. QED
  BY <1>1, <1>2, <1>3, <1>4 DEF Changing, Place

LEMMA CalmNews ==
  ASSUME TypeOK, PendingOwn, TrackedPending, calm, NEW i \in DOMAIN outbox, News(outbox[i])
  PROVE  LET r == outbox[i].to
         IN  /\ r \in Request /\ r.call \in DOMAIN call /\ r = Awaits(r.call) /\ Changing(r.call)
             /\ call[r.call].at = r.at /\ call[r.call].model = r.model /\ Single(r)
             /\ r \in pending
<1>1. outbox[i].to \in Request
  <2>1. outbox[i] \in Reply
    BY WorkerParts
  <2>2. QED
    BY <2>1 DEF Reply
<1>2. HasTo(outbox, outbox[i].to)
  BY DEF HasTo
<1>3. outbox[i].to.at # "generate"
  BY DEF News
<1>4. QED
  BY <1>1, <1>2, <1>3, CalmRequest, WorkerHas

(* A step after which there is no news and c alone, if any, is changing.   *)
LEMMA CalmAlone ==
  ASSUME NEW c,
         \A d \in DOMAIN call' : d # c => ~Changing(d)',
         \A i \in DOMAIN outbox' : ~News(outbox'[i]),
         c \in DOMAIN call' => call'[c].at # "mark",
         IF c \in DOMAIN call' /\ call'[c].at = "measure"
         THEN wk'.loaded = loaded' \cup {call'[c].model}
         ELSE wk'.loaded = loaded'
  PROVE  CalmSteps'
<1>1. \A d \in DOMAIN call' : d # c => call'[d].at \notin Place \ {"generate"}
  BY DEF Changing
<1>2. OneChange'
  BY DEF OneChange
<1>3. QuietAgree'
  BY DEF QuietAgree, Agree, Changing, Place, Awaited
<1>4. CallsAgree'
  BY <1>1 DEF CallsAgree, Agree, Place, Awaited
<1>5. AnswersAgree'
  BY DEF AnswersAgree, NewsAgrees, News
<1>6. QED
  BY <1>2, <1>3, <1>4, <1>5 DEF CalmSteps

(* A step of no changing call and no news. *)
LEMMA CalmKept ==
  ASSUME CalmSteps, calm' => calm, loaded' = loaded, wk'.loaded = wk.loaded,
         \A d \in DOMAIN call' :
           \/ d \in DOMAIN call /\ call'[d] = call[d]
           \/ ~Changing(d)',
         \A d \in DOMAIN call : Changing(d) =>
           /\ d \in DOMAIN call' /\ call'[d] = call[d]
           /\ HasTo(outbox, Awaits(d)) => HasTo(outbox', Awaits(d)),
         \A i \in DOMAIN outbox' : News(outbox'[i]) => \E j \in DOMAIN outbox : outbox[j] = outbox'[i]
  PROVE  CalmSteps'
<1> SUFFICES ASSUME calm PROVE OneChange' /\ QuietAgree' /\ CallsAgree' /\ AnswersAgree'
  BY DEF CalmSteps
<1>0. OneChange /\ QuietAgree /\ CallsAgree /\ AnswersAgree
  BY DEF CalmSteps
<1>1. ASSUME NEW d \in DOMAIN call', Changing(d)'
      PROVE  d \in DOMAIN call /\ call'[d] = call[d] /\ Changing(d)
  BY <1>1 DEF Changing
<1>2. OneChange'
  BY <1>0, <1>1 DEF OneChange
<1>3. QuietAgree'
  BY <1>0, <1>1 DEF QuietAgree, Agree, Changing
<1>4. CallsAgree'
  <2> SUFFICES ASSUME NEW d \in DOMAIN call'
               PROVE  /\ call'[d].at # "mark"
                      /\ call'[d].at \in {"init", "manifest", "memory", "entry"} => Agree(loaded)'
                      /\ call'[d].at = "measure" => Agree(loaded \cup {call[d].model})'
                      /\ call'[d].at \in {"load", "unload"} /\ ~HasTo(outbox', Awaits(d)')
                           => Agree(loaded)'
    BY DEF CallsAgree
  <2>1. CASE ~Changing(d)'
    BY <2>1 DEF Changing, Place, Awaited
  <2>2. CASE Changing(d)'
    <3>1. d \in DOMAIN call /\ call'[d] = call[d] /\ Changing(d)
      BY <1>1, <2>2
    <3>2. Awaits(d)' = Awaits(d)
      BY <3>1 DEF Awaits
    <3>3. HasTo(outbox, Awaits(d)) => HasTo(outbox', Awaits(d)')
      BY <3>1, <3>2
    <3>4. /\ call[d].at # "mark"
          /\ call[d].at \in {"init", "manifest", "memory", "entry"} => Agree(loaded)
          /\ call[d].at = "measure" => Agree(loaded \cup {call[d].model})
          /\ call[d].at \in {"load", "unload"} /\ ~HasTo(outbox, Awaits(d)) => Agree(loaded)
      BY <1>0, <3>1 DEF CallsAgree
    <3>5. QED
      BY <3>1, <3>3, <3>4 DEF Agree
  <2>3. QED
    BY <2>1, <2>2
<1>5. AnswersAgree'
  <2>1. ASSUME NEW i \in DOMAIN outbox' PROVE NewsAgrees(outbox[i])'
    <3>1. CASE News(outbox'[i])
      <4>1. PICK j \in DOMAIN outbox : outbox[j] = outbox'[i]
        BY <3>1
      <4>2. QED
        BY <1>0, <4>1 DEF AnswersAgree, NewsAgrees, Agree
    <3>2. CASE ~News(outbox'[i])
      BY <3>2 DEF NewsAgrees, News
    <3>3. QED
      BY <3>1, <3>2
  <2>2. QED
    BY <2>1 DEF AnswersAgree
<1>6. QED
  BY <1>2, <1>3, <1>4, <1>5

(* The worker answers the changing call, or nobody who changes anything.   *)
LEMMA WorkerCalm ==
  ASSUME TypeOK, PendingOwn, Shape, TrackedPending, CalmSteps, Grown, Effects,
         UNCHANGED <<call, loaded, calm>>
  PROVE  CalmSteps'
<1>1. CASE calm /\ \E i : NewAnswer(i) /\ News(outbox'[i])
  <2>0. OneChange /\ CallsAgree
    BY <1>1 DEF CalmSteps
  <2>1. PICK k : NewAnswer(k) /\ News(outbox'[k])
    BY <1>1
  <2>2. PICK h : h = outbox'[k].to
    OBVIOUS
  <2>3. h \in Request /\ (Has(inbox, h) \/ Held(h)) /\ h.at \in {"load", "unload"}
    BY <2>1, <2>2 DEF Grown, News
  <2>4. PICK c \in DOMAIN call : /\ c = h.call /\ h = Awaits(c) /\ Changing(c) /\ call[c].at = h.at
                               /\ Single(h)
    BY <1>1, <2>3, CalmRequest, WorkerHas
  <2>5. ~HasTo(outbox, h) /\ wk.loaded = loaded
    BY <2>0, <2>3, <2>4 DEF Single, CallsAgree, Agree
  <2>6. \A i \in DOMAIN outbox : ~News(outbox[i])
    <3>1. SUFFICES ASSUME NEW i \in DOMAIN outbox, News(outbox[i]) PROVE FALSE
      OBVIOUS
    <3>2. PICK r : r = outbox[i].to /\ r = Awaits(r.call) /\ Changing(r.call) /\ r.call \in DOMAIN call
      BY <1>1, <3>1, CalmNews
    <3>3. r.call = c
      BY <2>0, <2>4, <3>2 DEF OneChange
    <3>4. QED
      BY <2>4, <2>5, <3>2, <3>3 DEF HasTo
  <2>7. AnswersAgree'
    <3>1. ASSUME NEW i \in DOMAIN outbox' PROVE NewsAgrees(outbox[i])'
      <4>1. CASE i \in DOMAIN outbox
        BY <2>6, <4>1 DEF Grown, NewsAgrees, News
      <4>2. CASE NewAnswer(i)
        BY <2>5, <4>2 DEF Effects, NewsAgrees, Agree
      <4>3. QED
        BY <4>1, <4>2 DEF NewAnswer
    <3>2. QED
      BY <3>1 DEF AnswersAgree
  <2>8. CallsAgree'
    <3>1. \A d \in DOMAIN call : d # c => call[d].at \notin Place \ {"generate"}
      BY <2>0, <2>4 DEF OneChange, Changing
    <3>2. Awaits(c)' = h
      BY <2>4 DEF Awaits
    <3>3. HasTo(outbox', h)
      BY <2>1, <2>2 DEF HasTo, NewAnswer
    <3>4. QED
      BY <2>3, <2>4, <3>1, <3>2, <3>3 DEF CallsAgree, Place, Awaited
  <2>9. OneChange' /\ QuietAgree'
    BY <2>0, <2>4 DEF OneChange, QuietAgree, Changing
  <2>10. QED
    BY <2>7, <2>8, <2>9 DEF CalmSteps
<1>2. CASE calm /\ ~\E i : NewAnswer(i) /\ News(outbox'[i])
  <2>1. wk'.loaded = wk.loaded
    BY <1>2 DEF Effects, News
  <2>2. \A i \in DOMAIN outbox' : News(outbox'[i]) => \E j \in DOMAIN outbox : outbox[j] = outbox'[i]
    BY <1>2 DEF Grown, NewAnswer
  <2>3. \A r : HasTo(outbox, r) => HasTo(outbox', r)
    BY DEF Grown, HasTo
  <2>4. QED
    BY <2>1, <2>2, <2>3, CalmKept
<1>3. CASE ~calm
  BY <1>3 DEF CalmSteps
<1>4. QED
  BY <1>1, <1>2, <1>3

LEMMA CalmQuiet ==
  ASSUME TypeOK, PendingOwn, TrackedPending, calm, ~\E c \in DOMAIN call : Changing(c)
  PROVE  \A i \in DOMAIN outbox : ~News(outbox[i])
  BY CalmNews

LEMMA BeginCalm ==
  ASSUME TypeOK, PendingOwn, TrackedPending, CalmSteps, NEW m \in Models,
         Initialize(m) \/ LoadModel(m) \/ UnloadModel(m) \/ Generate(m)
  PROVE  CalmSteps'
<1>0. PICK n : n = Len(call) + 1
  OBVIOUS
<1>1. wk' = wk /\ UNCHANGED <<outbox, loaded, erred>> /\ (calm' => calm)
  <2>1. calm' => calm
    BY DEF Initialize, LoadModel, UnloadModel, Generate, Calming
  <2>2. wk' = wk /\ UNCHANGED <<outbox, loaded, erred>>
    BY DEF Initialize, LoadModel, UnloadModel, Generate, BeginSending, BeginAlone, Begin, Post
  <2>3. QED
    BY <2>1, <2>2
<1>2. PICK k : Begin(k) /\ (k = Done \/ k.at \in {"init", "manifest", "unload", "generate"})
  <2>1. \/ \E at \in {"init", "unload", "generate"} : Begin([at |-> at, model |-> m])
        \/ Begin(Done) \/ Begin([at |-> "manifest", model |-> m])
    BY DEF Initialize, LoadModel, UnloadModel, Generate, BeginSending, BeginAlone
  <2>2. QED
    BY <2>1
<1>3. /\ n \notin DOMAIN call /\ DOMAIN call' = DOMAIN call \cup {n} /\ call'[n] = k
      /\ \A d \in DOMAIN call : call'[d] = call[d]
  BY <1>0, <1>2, Beginning
<1>4. CASE Generate(m)
  <2>1. \E q : Begin(q) /\ (q = Done \/ q.at = "generate")
    BY <1>4 DEF Generate, BeginSending, BeginAlone
  <2>2. call'[n] = Done \/ call'[n].at = "generate"
    BY <1>0, <2>1, Beginning
  <2>3. ~Changing(n)'
    BY <2>2 DEF Changing, Done, Place, Awaited
  <2>4. QED
    BY <1>1, <1>3, <2>3, CalmKept
<1>5. CASE Initialize(m) \/ LoadModel(m) \/ UnloadModel(m)
  <2>1. calm' = (calm /\ ~\E c \in DOMAIN call : Changing(c))
    BY <1>5 DEF Initialize, LoadModel, UnloadModel, Calming
  <2>2. CASE ~calm'
    BY <2>2 DEF CalmSteps
  <2>3. CASE calm'
    <3>1. calm /\ \A d \in DOMAIN call : ~Changing(d)
      BY <2>1, <2>3
    <3>2. wk'.loaded = loaded'
      BY <1>1, <3>1 DEF CalmSteps, QuietAgree, Agree
    <3>3. \A i \in DOMAIN outbox' : ~News(outbox'[i])
      BY <1>1, <3>1, CalmQuiet
    <3>4. \A d \in DOMAIN call' : d # n => ~Changing(d)'
      BY <1>3, <3>1 DEF Changing
    <3>5. call'[n].at \notin {"mark", "measure"}
      BY <1>2, <1>3 DEF Done
    <3>6. QED
      BY <3>2, <3>3, <3>4, <3>5, CalmAlone
  <2>4. QED
    BY <2>2, <2>3
<1>6. QED
  BY <1>4, <1>5

(* The changing call alone moves on, from a place without news.            *)
LEMMA ElsewhereCalm ==
  ASSUME TypeOK, PendingOwn, TrackedPending, CalmSteps, calm, NEW c \in DOMAIN call,
         Changing(c), Elsewhere(c)
  PROVE  \A d \in DOMAIN call' : d # c => ~Changing(d)'
<1>1. \A d \in DOMAIN call : d # c => ~Changing(d)
  BY DEF CalmSteps, OneChange
<1>2. QED
  BY <1>1 DEF Elsewhere, Changing

LEMMA PageStepCalm ==
  ASSUME TypeOK, PendingOwn, TrackedPending, CalmSteps, NEW c \in DOMAIN call, PageStep(c)
  PROVE  CalmSteps'
<1> SUFFICES ASSUME calm' PROVE CalmSteps'
  BY DEF CalmSteps
<1>1. /\ call[c].at \in {"manifest", "entry", "mark"} /\ UNCHANGED <<outbox, wk, calm>>
      /\ Finish(c) \/ Send(c, "memory") \/ Send(c, "load")
      /\ call[c].at # "mark" => loaded' = loaded
  BY DEF PageStep, ManifestRead, Admit, MarkLoaded, Send, Post
<1>2. call[c].at \in Place /\ Changing(c) /\ calm
  BY <1>1 DEF Place, Changing
<1>3. Elsewhere(c) /\ (call'[c] = Done \/ call'[c].at \in {"memory", "load"})
  BY <1>1, <1>2, Sending DEF Finish, Elsewhere, TypeOK
<1>4. call[c].at # "mark" /\ wk.loaded = loaded
  BY <1>1, <1>2 DEF CalmSteps, CallsAgree, Agree
<1>5. \A i \in DOMAIN outbox : ~News(outbox[i])
  <2>1. SUFFICES ASSUME NEW i \in DOMAIN outbox, News(outbox[i]) PROVE FALSE
    OBVIOUS
  <2>2. PICK d \in DOMAIN call : Changing(d) /\ call[d].at = outbox[i].to.at
    BY <1>2, <2>1, CalmNews
  <2>3. d = c
    BY <1>2, <2>2 DEF CalmSteps, OneChange
  <2>4. QED
    BY <1>1, <2>1, <2>2, <2>3 DEF News
<1>6. \A d \in DOMAIN call' : d # c => ~Changing(d)'
  BY <1>2, <1>3, ElsewhereCalm
<1>7. wk'.loaded = loaded' /\ call'[c].at \notin {"mark", "measure"}
  BY <1>1, <1>3, <1>4 DEF Done
<1>8. QED
  BY <1>1, <1>5, <1>6, <1>7, CalmAlone

LEMMA MessageCalm ==
  ASSUME TypeOK, PendingOwn, Shape, TrackedPending, CalmSteps, OnMessage
  PROVE  CalmSteps'
<1> SUFFICES ASSUME calm' PROVE CalmSteps'
  BY DEF CalmSteps
<1>0. PICK g, c, what : Head(outbox).to = g /\ g.call = c /\ Head(outbox).is = what
  OBVIOUS
<1>1. /\ outbox # <<>> /\ outbox' = Tail(outbox) /\ UNCHANGED <<erred, calm>>
      /\ 1 \in DOMAIN outbox /\ outbox[1] = Head(outbox) /\ outbox[1] \in Reply /\ calm
      /\ outbox \in Seq(Reply)
  BY WorkerParts DEF OnMessage
<1>2. g \in Request /\ HasTo(outbox, g) /\ InWorker(g)
  <2>1. g \in Request /\ HasTo(outbox, g)
    BY <1>0, <1>1 DEF Reply, HasTo
  <2>2. QED
    BY <2>1, WorkerHas
<1>3. \A i \in DOMAIN outbox' : i + 1 \in DOMAIN outbox /\ outbox'[i] = outbox[i + 1]
  BY <1>1
<1>4. \A r : r # g /\ HasTo(outbox, r) => HasTo(outbox', r)
  BY <1>0, <1>1, BeheadedTo
<1>5. CASE g.at = "generate"
  <2>1. \A d \in DOMAIN call : Changing(d) => Awaits(d) # g
    BY <1>5 DEF Changing, Awaits
  <2>2. /\ loaded' = loaded /\ wk' = wk
        /\ \/ call' = call
           \/ c \in DOMAIN call /\ g = Awaits(c) /\ Leaves(c) /\ Finish(c)
    <3>1. CASE g \notin pending
      BY <1>0, <3>1 DEF OnMessage
    <3>2. CASE g \in pending
      <4>1. /\ c \in DOMAIN call /\ g = Awaits(c) /\ Continue(c, what)
            /\ call[c].at = "load" \/ (Leaves(c) /\ wk' = wk)
        BY <1>0, <3>2, Answering
      <4>2. call[c].at = "generate"
        BY <1>5, <4>1 DEF Awaits
      <4>3. Finish(c) /\ loaded' = loaded
        BY <4>1, <4>2 DEF Continue
      <4>4. QED
        BY <4>1, <4>2, <4>3
    <3>3. QED
      BY <3>1, <3>2
  <2>3. ASSUME NEW d \in DOMAIN call'
        PROVE  \/ d \in DOMAIN call /\ call'[d] = call[d]
               \/ ~Changing(d)'
    BY <2>2, <2>3 DEF Leaves, Elsewhere, Finish, TypeOK, Changing, Done, Place, Awaited
  <2>4. ASSUME NEW d \in DOMAIN call, Changing(d)
        PROVE  d \in DOMAIN call' /\ call'[d] = call[d]
    BY <1>5, <2>2, <2>4 DEF Leaves, Elsewhere, Awaits, Changing
  <2>5. \A i \in DOMAIN outbox' : News(outbox'[i]) => \E j \in DOMAIN outbox : outbox[j] = outbox'[i]
    BY <1>3
  <2>6. QED
    BY <1>1, <1>4, <2>1, <2>2, <2>3, <2>4, <2>5, CalmKept
<1>6. CASE g.at # "generate"
  <2>1. /\ c \in DOMAIN call /\ g = Awaits(c) /\ Changing(c) /\ Single(g) /\ g \in pending
        /\ call[c].at = g.at /\ call[c].model = g.model
    BY <1>0, <1>1, <1>2, <1>6, CalmRequest
  <2>2. /\ Continue(c, what) /\ call[c] \in Call /\ call[c].at \in Awaited
        /\ what \in {"result", "measured", "error"}
        /\ \/ call[c].at = "load" /\ what = "result" /\ Send(c, "measure")
           \/ /\ ~(call[c].at = "load" /\ what = "result")
              /\ Leaves(c) /\ UNCHANGED <<inbox, wk, worker>>
    BY <1>0, <2>1, Answering
  <2>3. Elsewhere(c) /\ wk' = wk
    <3>1. CASE Send(c, "measure")
      <4>1. call[c].at \in Place
        BY <2>2 DEF Place
      <4>2. QED
        BY <2>1, <3>1, <4>1, Sending DEF Send, Post
    <3>2. QED
      BY <2>2, <3>1 DEF Leaves
  <2>4. \A d \in DOMAIN call' : d # c => ~Changing(d)'
    BY <1>1, <2>1, <2>3, ElsewhereCalm
  <2>5. \A i \in DOMAIN outbox' : ~News(outbox'[i])
    <3>1. SUFFICES ASSUME NEW i \in DOMAIN outbox', News(outbox'[i]) PROVE FALSE
      OBVIOUS
    <3>2. PICK j \in DOMAIN outbox : outbox[j] = outbox'[i]
      BY <1>3
    <3>3. PICK r : r = outbox[j].to /\ r = Awaits(r.call) /\ r.call \in DOMAIN call /\ Changing(r.call)
      BY <1>1, <3>1, <3>2, CalmNews
    <3>4. r.call = c
      BY <1>1, <2>1, <3>3 DEF CalmSteps, OneChange
    <3>5. HasTo(Tail(outbox), g)
      BY <1>1, <2>1, <3>2, <3>3, <3>4 DEF HasTo
    <3>6. OnceTo(outbox, g)
      BY <2>1 DEF Single
    <3>7. QED
      BY <1>0, <1>1, <3>5, <3>6, BeheadedTo
  <2>6. /\ call[c].at # "mark"
        /\ call[c].at \in {"init", "memory"} => wk.loaded = loaded
        /\ call[c].at = "measure" => wk.loaded = loaded \cup {call[c].model}
    BY <1>1, <2>1 DEF CalmSteps, CallsAgree, Agree
  <2>7. /\ call[c].at = "unload" => wk.loaded = IF what = "error" THEN loaded
                                               ELSE loaded \ {call[c].model}
        /\ call[c].at = "load" => wk.loaded = IF what = "error" THEN loaded
                                             ELSE loaded \cup {call[c].model}
    BY <1>0, <1>1, <2>1 DEF CalmSteps, AnswersAgree, NewsAgrees, Agree
  <2>8. loaded' = CASE call[c].at = "measure" \/ (call[c].at = "load" /\ what = "measured")
                     -> loaded \cup {call[c].model}
                 [] call[c].at = "unload" /\ what # "error" -> loaded \ {call[c].model}
                 [] OTHER -> loaded
    BY <2>2 DEF Continue
  <2>9. call[c].at \in {"init", "memory", "load", "measure", "unload"}
    BY <1>6, <2>1, <2>2 DEF Awaited
  <2>10. CASE call[c].at = "load" /\ what = "result"
    <3>1. Send(c, "measure") /\ call[c].at \in Place
      BY <2>2, <2>10 DEF Place
    <3>2. call'[c].at = "measure" /\ call'[c].model = call[c].model
      BY <2>1, <3>1, Sending
    <3>3. wk'.loaded = loaded' \cup {call'[c].model}
      BY <2>3, <2>7, <2>8, <2>10, <3>2
    <3>4. QED
      BY <2>1, <2>3, <2>4, <2>5, <3>2, <3>3, CalmAlone DEF Elsewhere
  <2>11. CASE ~(call[c].at = "load" /\ what = "result")
    <3>1. wk'.loaded = loaded'
      BY <2>2, <2>3, <2>6, <2>7, <2>8, <2>9, <2>11
    <3>2. call'[c] = Done \/ call'[c].at \in {"manifest", "entry"}
      <4>1. Finish(c) \/ Goto(c, "manifest") \/ Goto(c, "entry")
        BY <2>2, <2>11 DEF Continue
      <4>2. QED
        BY <2>1, <2>2, <4>1 DEF Finish, Goto, TypeOK, Call
    <3>3. call'[c].at \notin {"mark", "measure"}
      BY <3>2 DEF Done
    <3>4. QED
      BY <2>4, <2>5, <3>1, <3>3, CalmAlone
  <2>12. QED
    BY <2>10, <2>11
<1>7. QED
  BY <1>5, <1>6

(* Nothing that changes anything was rejected. *)
LEMMA RejectCalm ==
  ASSUME TypeOK, PendingOwn, TrackedPending, CalmSteps, RejectAll, calm',
         (wk'.loaded = wk.loaded /\ loaded' = loaded) \/ wk'.loaded = loaded',
         outbox' = outbox \/ outbox' = <<>>
  PROVE  CalmSteps'
<1>1. calm /\ \A d \in DOMAIN call : ~Changing(d)
  BY DEF RejectAll, Calming
<1>2. wk'.loaded = loaded'
  BY <1>1 DEF CalmSteps, QuietAgree, Agree
<1>3. \A i \in DOMAIN outbox' : ~News(outbox'[i])
  BY <1>1, CalmQuiet
<1>4. \A d \in DOMAIN call' : call'[d] = Done
  <2>1. ASSUME NEW d \in DOMAIN call PROVE call'[d] = Done
    <3>1. CASE call[d] = Done
      BY <3>1, RejectAllType DEF Rejected, Done, Awaited
    <3>2. CASE call[d] \in Call
      <4>1. call[d].at = "generate"
        BY <1>1, <3>2 DEF Changing, Call
      <4>2. QED
        BY <4>1, RejectAllType DEF Rejected, Awaited
    <3>3. QED
      BY <3>1, <3>2, CallFields
  <2>2. QED
    BY <2>1, RejectAllType
<1>5. \A d \in DOMAIN call' : ~Changing(d)' /\ call'[d].at \notin {"mark", "measure"}
  BY <1>4 DEF Changing, Done, Place, Awaited
<1>6. QED
  BY <1>2, <1>3, <1>5, CalmAlone

LEMMA NextCalm ==
  ASSUME TypeOK, PendingOwn, Shape, TrackedPending, CalmSteps, [Next]_vars
  PROVE  CalmSteps'
<1>1. ASSUME NEW m \in Models, Initialize(m) \/ LoadModel(m) \/ UnloadModel(m) \/ Generate(m)
      PROVE  CalmSteps'
  BY <1>1, BeginCalm
<1>2. ASSUME NEW c \in DOMAIN call, PageStep(c) PROVE CalmSteps'
  BY <1>2, PageStepCalm
<1>3. CASE OnMessage
  BY <1>3, MessageCalm
<1>4. CASE StopGeneration
  <2>1. CASE calm'
    BY <1>4, <2>1, RejectCalm DEF StopGeneration, NewWorker
  <2>2. QED
    BY <2>1 DEF CalmSteps
<1>5. CASE OnError
  <2>1. wk'.loaded = wk.loaded
    BY <1>5, WorkerParts DEF OnError, WorkerType
  <2>2. CASE calm'
    BY <1>5, <2>1, <2>2, RejectCalm DEF OnError
  <2>3. QED
    BY <2>2 DEF CalmSteps
<1>6. CASE WorkerStep
  BY <1>6, WorkerEffects, WorkerCalm DEF WorkerStep
<1>7. CASE UNCHANGED vars
  BY <1>7, CalmKept DEF vars
<1>8. QED
  BY <1>1, <1>2, <1>3, <1>4, <1>5, <1>6, <1>7 DEF Next

-----------------------------------------------------------------------------
(* The theorems.                                                           *)
LEMMA InitIInv == Init => IInv
<1> SUFFICES ASSUME Init PROVE IInv
  OBVIOUS
<1>1. /\ inbox = <<>> /\ outbox = <<>> /\ wk = NewWorker /\ pending = {} /\ call = <<>>
      /\ loaded = {} /\ worker = FALSE /\ erred = FALSE /\ calm = TRUE
  BY DEF Init, WorkerInit
<1>2. TypeOK
  <2>1. NewWorker \in WorkerType
    BY DEF NewWorker, WorkerType
  <2>2. WorkerTypeOK
    BY <1>1, <2>1 DEF WorkerTypeOK, WorkerType
  <2>3. call \in Seq(Call \cup {Done}) /\ Len(call) <= MaxCalls
    BY <1>1 DEF WorkerAssumption
  <2>4. QED
    BY <1>1, <2>2, <2>3 DEF TypeOK
<1>3. wk.inits = {} /\ wk.loads = {} /\ wk.resident = {} /\ wk.loaded = {} /\ wk.torn = {}
  BY <1>1 DEF NewWorker
<1>4. Shape /\ PendingOwn /\ NothingLost /\ UnloadsFirst /\ KnownOrTold
  BY <1>1, <1>3 DEF Shape, PendingOwn, NothingLost, UnloadsFirst, KnownOrTold
<1>5. TrackedPending
  BY <1>1, <1>3 DEF TrackedPending, Single, Once, OnceTo, HeldOnce, Has, HasTo, Held, InWorker
<1>6. CalmSteps
  <2>1. DOMAIN call = {} /\ DOMAIN outbox = {} /\ wk.loaded = loaded
    BY <1>1, <1>3
  <2>2. QED
    BY <2>1 DEF CalmSteps, OneChange, QuietAgree, CallsAgree, AnswersAgree, Agree
<1>7. QED
  BY <1>2, <1>4, <1>5, <1>6 DEF IInv

LEMMA NextIInv == IInv /\ [Next]_vars => IInv'
<1> SUFFICES ASSUME IInv, [Next]_vars PROVE IInv'
  OBVIOUS
<1>1. /\ TypeOK /\ PendingOwn /\ Shape /\ NothingLost /\ TrackedPending
      /\ UnloadsFirst /\ KnownOrTold /\ CalmSteps
  BY DEF IInv
<1>2. TypeOK' /\ PendingOwn'
  BY <1>1, NextTypeOwn
<1>3. Shape' /\ NothingLost' /\ TrackedPending'
  BY <1>1, NextLost
<1>4. UnloadsFirst' /\ KnownOrTold' /\ CalmSteps'
  BY <1>1, NextUnloadsFirst, NextKnown, NextCalm
<1>5. QED
  BY <1>2, <1>3, <1>4 DEF IInv

(* The invariant everything else follows from. *)
THEOREM Invariant == Spec => []IInv
BY InitIInv, NextIInv, PTL DEF Spec

(* Every variable of the page and the worker keeps its type, for any models*)
(* and any number of calls.                                                *)
THEOREM TypeCorrect == Spec => []TypeOK
<1>1. IInv => TypeOK
  BY DEF IInv
<1>2. QED
  BY <1>1, Invariant, PTL

(* No caller waits for nobody: a call suspended at its request has it in   *)
(* `pending', and the worker has the request or its answer, through        *)
(* terminations, error events, loads that share a read and loads forgotten *)
(* by an unload.                                                           *)
THEOREM NobodyWaitsForNobody == Spec => []NothingLost
<1>1. IInv => NothingLost
  BY DEF IInv
<1>2. QED
  BY <1>1, Invariant, PTL

(* In calm use the page's set of loaded models is exactly the worker's     *)
(* whenever no change is under way, and the engine holds each of them but  *)
(* those it failed to unload.                                              *)
THEOREM CalmUseAgrees == Spec => []CalmAgreement
<1>1. IInv => CalmAgreement
  BY DEF IInv, CalmAgreement, CalmSteps, QuietAgree, Agree, Shape
<1>2. QED
  BY <1>1, Invariant, PTL

(* A model that the worker or its engine holds and the page does not know  *)
(* of is always on its way to be known: a call that loads it waits for the *)
(* worker's answer.                                                        *)
THEOREM NothingIsForgotten == Spec => []NothingForgotten
<1>1. IInv => NothingForgotten
  <2> SUFFICES ASSUME IInv, ~erred, NEW m \in (wk.loaded \cup wk.resident) \ loaded
               PROVE  \E c \in DOMAIN call :
                        call[c].at \in {"load", "measure"} /\ call[c].model = m
    BY DEF NothingForgotten
  <2>1. Known(m)
    BY DEF IInv, Shape, KnownOrTold, Known
  <2>2. ASSUME NEW i \in DOMAIN outbox, LoadAnswer(i, m)
        PROVE  \E c \in DOMAIN call : call[c].at = "load" /\ call[c].model = m
    <3>1. PICK r : r = outbox[i].to
      OBVIOUS
    <3>2. r \in Request
      <4>1. outbox[i] \in Reply
        BY WorkerParts DEF IInv
      <4>2. QED
        BY <3>1, <4>1 DEF Reply
    <3>3. HasTo(outbox, r)
      BY <3>1 DEF HasTo
    <3>4. r \in pending
      BY <3>2, <3>3, WorkerHas DEF IInv, TrackedPending, Tracked
    <3>5. r.call \in DOMAIN call /\ call[r.call].at = r.at /\ call[r.call].model = r.model
      BY <3>4 DEF IInv, PendingOwn, Awaits
    <3>6. QED
      BY <2>2, <3>1, <3>5 DEF LoadAnswer
  <2>3. QED
    BY <2>1, <2>2 DEF Known
<1>2. QED
  BY <1>1, Invariant, PTL
=============================================================================
