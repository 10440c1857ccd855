----------------------- MODULE DesktopProviderProofs -----------------------
(***************************************************************************)
(* Proofs about DesktopProvider, for any models, limits and numbers of     *)
(* calls and sidecars.                                                     *)
(***************************************************************************)
EXTENDS DesktopProvider, Integers, TLAPS, FiniteSetTheorems

(* Each request is its call's, and was sent to some sidecar.               *)
Requests ==
  \A r \in wire :
    /\ r.call \in DOMAIN call
    /\ \/ call[r.call] = Done /\ r.is = "sent"
       \/ /\ call[r.call].at = "fetch" /\ r.do = call[r.call].do
          /\ r.model = call[r.call].model
    /\ r.port \in Port

(* Before it knows a sidecar, the page has sent nothing, and a sidecar     *)
(* holds no more than it was started with.                                 *)
Unknown ==
  port = 0 =>
    /\ loaded = {} /\ wire = {}
    /\ \A c \in DOMAIN call : call[c].at \notin {"memory", "fetch"}
    /\ \A p \in Port : sidecar[p].held \subseteq sidecar[p].first
Started(s) ==
  /\ s.state = "none" => s.first = {}
  /\ s.state = "booting" => \E m \in Models : s.first = {m}
Ports == Unknown /\ \A p \in Port : Started(sidecar[p])

(* Of a model about which nothing is blurred: one call at most is under    *)
(* way, and its request is the only one, to the page's sidecar.            *)
Clear(m) ==
  /\ \A c, d \in Under(m) : c = d
  /\ \A c \in Under(m) : call[c].alone
  /\ \A r \in Flying(m) : /\ r.call \in Under(m) /\ r.port = port /\ r.is # "lost"
                          /\ r.is # "sent" => sidecar[r.port].state # "gone"

(* What the answer to r says is so, while the sidecar that gave it lives;  *)
(* but what that was started with it may load at any time.                 *)
Truthful(r, m) ==
  sidecar[r.port].state # "gone" =>
    /\ r.is = "ok" /\ r.do = "load" => m \in sidecar[r.port].held
    /\ r.is = "refused" \/ (r.is = "ok" /\ r.do = "unload")
         => (m \in sidecar[r.port].held => m \in sidecar[r.port].first)

(* A call made alone, and still alone, has the only request, and loads     *)
(* what was not loaded.                                                    *)
Alone(m) ==
  \A c \in Under(m) : call[c].alone =>
    /\ \A d \in Under(m) : d = c
    /\ call[c].at # "bridge" /\ call[c].do = "load" => m \notin loaded
    /\ \A r \in Flying(m) : r.call = c /\ Truthful(r, m)

Agree(m) ==
  /\ m \in loaded => port # 0 /\ m \in sidecar[port].held
  /\ port # 0 /\ m \in sidecar[port].held => m \in loaded \cup sidecar[port].first

(* Until a request about it is served, the model is where it was.          *)
Settled(m) == (\A r \in Flying(m) : r.is = "sent") => Agree(m)

Sound(m) == Alone(m) /\ (m \notin blurred => Clear(m) /\ Settled(m))

IInv == TypeOK /\ Requests /\ Ports /\ \A m \in Models : Sound(m)

-----------------------------------------------------------------------------
(* Calls.                                                                  *)
USE DesktopAssumption

LEMMA CallFields ==
  ASSUME TypeOK, NEW c \in DOMAIN call
  PROVE  /\ c \in 1 .. MaxCalls
         /\ call[c] = Done \/ call[c] \in Call
         /\ call[c].at \in {"bridge", "memory", "fetch"} => call[c] \in Call
         /\ call[c] \in Call => /\ call[c] # Done /\ call[c].at \in {"bridge", "memory", "fetch"}
                                /\ call[c].model \in Models /\ call[c].max \in 1 .. MaxModels
                                /\ call[c].do \in {"load", "server", "unload", "limit"}
                                /\ call[c].alone \in BOOLEAN
                                /\ call[c].do = "server" => call[c].at = "bridge"
<1>1. c \in 1 .. MaxCalls /\ call[c] \in Call \cup {Done}
  BY DEF TypeOK, DesktopAssumption
<1>2. call[c].at \in {"bridge", "memory", "fetch"} => call[c] # Done
  BY DEF Done
<1>3. \A k \in Call : k # Done
  BY DEF Call, Done
<1>4. QED
  BY <1>1, <1>2, <1>3 DEF Call

LEMMA SentIs ==
  ASSUME TypeOK, NEW c \in 1 .. MaxCalls, NEW k \in Call, k.at # "bridge" \/ k.do # "server"
  PROVE  Sent(c, k) \in Message
<1>1. k.do \in {"load", "unload", "limit"} /\ k.model \in Models /\ k.max \in 1 .. MaxModels
  BY DEF Call
<1>2. QED
  BY <1>1 DEF Sent, Message, TypeOK

Others(c) == /\ DOMAIN call' = DOMAIN call
             /\ \A d \in DOMAIN call : d # c => call'[d] = call[d]

LEMMA Finishing ==
  ASSUME TypeOK, NEW c \in DOMAIN call, Finish(c)
  PROVE  /\ call' \in Seq(Call \cup {Done}) /\ Len(call') = Len(call)
         /\ Others(c) /\ call'[c] = Done
  BY DEF TypeOK, Finish, Others

Moves(c, at) ==
  /\ Others(c) /\ call'[c] \in Call /\ call'[c].at = at
  /\ call'[c].do = call[c].do /\ call'[c].model = call[c].model
  /\ call'[c].max = call[c].max /\ call'[c].alone = call[c].alone

LEMMA Going ==
  ASSUME TypeOK, NEW c \in DOMAIN call, call[c] \in Call,
         NEW at \in {"bridge", "memory", "fetch"}, Goto(c, at),
         at # "bridge" => call[c].do # "server"
  PROVE  /\ call' \in Seq(Call \cup {Done}) /\ Len(call') = Len(call)
         /\ Moves(c, at)
<1> DEFINE k == [call[c] EXCEPT !.at = at]
<1>1. /\ k \in Call /\ k.at = at /\ k.do = call[c].do /\ k.model = call[c].model
      /\ k.max = call[c].max /\ k.alone = call[c].alone
  BY DEF Call
<1>2. call' = [call EXCEPT ![c] = k]
  BY DEF Goto
<1> HIDE DEF k
<1>3. QED
  BY <1>1, <1>2 DEF TypeOK, Moves, Others

(* What the beginning of k does to the calls and to what is blurred. *)
Begun(k, n) ==
  /\ n = Len(call) + 1 /\ n \notin DOMAIN call /\ n \in 1 .. MaxCalls
  /\ DOMAIN call' = DOMAIN call \cup {n}
  /\ call' \in Seq(Call \cup {Done}) /\ Len(call') <= MaxCalls
  /\ \A c \in DOMAIN call :
       /\ call'[c] = Done <=> call[c] = Done
       /\ call'[c].at = call[c].at
       /\ call[c] # Done =>
            /\ call'[c].do = call[c].do /\ call'[c].model = call[c].model
            /\ call'[c].alone = (call[c].alone /\ ~(ForModel(k) /\ c \in Under(k.model)))
  /\ call'[n] # Done /\ call'[n].do = k.do /\ call'[n].at = k.at
  /\ call'[n].model = k.model /\ call'[n].max = k.max
  /\ ForModel(k) => call'[n].alone = (Under(k.model) = {} /\ Flying(k.model) = {})
  /\ blurred' = IF ~ForModel(k) \/ Under(k.model) = {} THEN blurred ELSE blurred \cup {k.model}
  /\ sidecar' = sidecar

LEMMA Beginning ==
  ASSUME TypeOK, NEW k \in Call, Begin(k), NEW n, n = Len(call) + 1
  PROVE  Begun(k, n)
<1>1. Len(call) \in Nat /\ DOMAIN call = 1 .. Len(call) /\ Len(call) < MaxCalls
  BY DEF Begin, TypeOK
<1>2. n \notin DOMAIN call /\ n \in 1 .. MaxCalls
  BY <1>1 DEF DesktopAssumption
<1>3. CASE ~ForModel(k)
  <2>1. call' = Append(call, k) /\ blurred' = blurred /\ sidecar' = sidecar
    BY <1>3 DEF Begin
  <2>2. /\ DOMAIN call' = DOMAIN call \cup {n} /\ call'[n] = k
        /\ \A c \in DOMAIN call : call'[c] = call[c]
        /\ call' \in Seq(Call \cup {Done}) /\ Len(call') <= MaxCalls
    BY <1>1, <2>1 DEF TypeOK, DesktopAssumption
  <2>3. \A c \in DOMAIN call : call[c] # Done => call[c].alone \in BOOLEAN
    BY CallFields
  <2>4. k # Done
    BY DEF Call, Done
  <2>5. QED
    BY <1>2, <1>3, <2>1, <2>2, <2>3, <2>4 DEF Begun
<1>4. CASE ForModel(k)
  <2> DEFINE others == Under(k.model)
             cs == [c \in DOMAIN call |->
                      IF c \in others THEN [call[c] EXCEPT !.alone = FALSE] ELSE call[c]]
             q == [k EXCEPT !.alone = others = {} /\ Flying(k.model) = {}]
  <2>1. /\ call' = Append(cs, q) /\ sidecar' = sidecar
        /\ blurred' = IF others = {} THEN blurred ELSE blurred \cup {k.model}
    BY <1>4 DEF Begin
  <2>2. /\ q \in Call /\ q # Done /\ q.do = k.do /\ q.at = k.at /\ q.model = k.model
        /\ q.max = k.max /\ q.alone = (others = {} /\ Flying(k.model) = {})
    BY DEF Call, Done
  <2>3. ASSUME NEW c \in DOMAIN call
        PROVE  /\ cs[c] \in Call \cup {Done}
               /\ cs[c] = Done <=> call[c] = Done
               /\ cs[c].at = call[c].at
               /\ call[c] # Done =>
                    /\ cs[c].do = call[c].do /\ cs[c].model = call[c].model
                    /\ cs[c].alone = (call[c].alone /\ ~(c \in others))
    <3>1. CASE c \in others
      <4>1. call[c] \in Call
        BY <3>1, CallFields DEF Under
      <4>2. cs[c] = [call[c] EXCEPT !.alone = FALSE]
        BY <3>1
      <4>3. QED
        BY <3>1, <4>1, <4>2 DEF Call, Done
    <3>2. CASE c \notin others
      <4>1. cs[c] = call[c]
        BY <3>2
      <4>2. QED
        BY <3>2, <4>1, CallFields
    <3>3. QED
      BY <3>1, <3>2
  <2> HIDE DEF q
  <2>4. cs \in Seq(Call \cup {Done}) /\ Len(cs) = Len(call) /\ DOMAIN cs = DOMAIN call
    <3>1. DOMAIN cs = 1 .. Len(call)
      BY <1>1
    <3>2. \A c \in 1 .. Len(call) : cs[c] \in Call \cup {Done}
      BY <1>1, <2>3
    <3>3. cs \in Seq(Call \cup {Done})
      BY <1>1, <3>1, <3>2
    <3> HIDE DEF cs
    <3>4. QED
      BY <1>1, <3>1, <3>3
  <2> HIDE DEF cs, others
  <2>5. /\ DOMAIN call' = DOMAIN call \cup {n} /\ call'[n] = q
        /\ \A c \in DOMAIN call : call'[c] = cs[c]
        /\ call' \in Seq(Call \cup {Done}) /\ Len(call') <= MaxCalls
    BY <1>1, <2>1, <2>2, <2>4 DEF DesktopAssumption
  <2>6. QED
    BY <1>2, <1>4, <2>1, <2>2, <2>3, <2>5 DEF Begun, others
<1>5. QED
  BY <1>3, <1>4
-----------------------------------------------------------------------------
(* The calls and requests about a model.                                   *)

LEMMA UnderFinish ==
  ASSUME TypeOK, NEW c \in DOMAIN call, Finish(c)
  PROVE  \A m \in Models : /\ Under(m)' = Under(m) \ {c}
                           /\ \A d \in Under(m)' : call'[d] = call[d]
<1>1. Others(c) /\ call'[c] = Done
  BY Finishing
<1>2. QED
  BY <1>1 DEF Under, Others

LEMMA UnderGoto ==
  ASSUME TypeOK, NEW c \in DOMAIN call, call[c] \in Call,
         NEW at \in {"bridge", "memory", "fetch"}, Goto(c, at),
         at # "bridge" => call[c].do # "server"
  PROVE  \A m \in Models :
           /\ Under(m)' = Under(m)
           /\ \A d \in Under(m) : /\ call'[d].do = call[d].do /\ call'[d].alone = call[d].alone
                                  /\ call'[d].at = IF d = c THEN at ELSE call[d].at
<1>1. Moves(c, at)
  BY Going
<1>2. \A k \in Call : k # Done
  BY DEF Call, Done
<1>3. QED
  BY <1>1, <1>2 DEF Under, Others, Moves, ForModel

LEMMA UnderBegun ==
  ASSUME TypeOK, NEW k \in Call, NEW n, Begun(k, n)
  PROVE  \A m \in Models :
           /\ Under(m)' = IF ForModel(k) /\ m = k.model THEN Under(m) \cup {n} ELSE Under(m)
           /\ n \notin Under(m)
  BY DEF Under, Begun, ForModel

LEMMA UnderIs ==
  ASSUME TypeOK, NEW m \in Models, NEW c \in Under(m)
  PROVE  /\ c \in DOMAIN call /\ call[c] \in Call /\ ForModel(call[c]) /\ call[c].model = m
         /\ \A q \in Models : c \in Under(q) => q = m
  BY CallFields DEF Under

(* A request about a model is of a call under way for it, or of one that   *)
(* is over, and then it has not been served.                               *)
LEMMA FlyingIs ==
  ASSUME TypeOK, Requests, NEW m \in Models, NEW r \in Flying(m)
  PROVE  /\ r \in wire /\ r.call \in DOMAIN call
         /\ \/ call[r.call] = Done /\ r.is = "sent"
            \/ r.call \in Under(m) /\ call[r.call].at = "fetch" /\ r.do = call[r.call].do
         /\ r.port \in Port /\ r.model = m /\ r.do \in {"load", "unload"}
<1>1. r \in wire /\ ForModel(r) /\ r.model = m
  BY DEF Flying
<1>2. r.call \in DOMAIN call /\ r.port \in Port /\ r.do \in {"load", "unload"}
  BY <1>1 DEF Requests, ForModel
<1>3. \/ call[r.call] = Done /\ r.is = "sent"
      \/ /\ call[r.call].at = "fetch" /\ r.do = call[r.call].do
         /\ r.model = call[r.call].model
  BY <1>1 DEF Requests
<1>4. CASE call[r.call] = Done
  BY <1>1, <1>2, <1>3, <1>4 DEF Done
<1>5. CASE call[r.call] # Done
  <2>1. ForModel(call[r.call])
    BY <1>2, <1>3, <1>5 DEF ForModel
  <2>2. r.call \in Under(m)
    BY <1>1, <1>2, <1>3, <1>5, <2>1 DEF Under
  <2>3. QED
    BY <1>1, <1>2, <1>3, <1>5, <2>2
<1>6. QED
  BY <1>4, <1>5

LEMMA OneRequest ==
  ASSUME TypeOK, NEW m, NEW q \in Flying(m), NEW r \in Flying(m), q.call = r.call
  PROVE  q = r
  BY DEF Flying, TypeOK

(* The sidecars hold and lose a model as before, or load it when they boot.*)
Kept(m) ==
  \A p \in Port :
    /\ m \in sidecar[p].held => m \in sidecar'[p].held
    /\ m \in sidecar'[p].held => m \in sidecar[p].held \cup sidecar'[p].first
    /\ m \in sidecar[p].first => m \in sidecar'[p].first
    /\ sidecar'[p].state = "gone" <=> sidecar[p].state = "gone"

LEMMA KeptSame ==
  ASSUME NEW m, UNCHANGED sidecar
  PROVE  Kept(m)
  BY DEF Kept

LEMMA Keeping ==
  ASSUME NEW m, Kept(m), NEW r, r.port \in Port, Truthful(r, m)
  PROVE  Truthful(r, m)'
  BY DEF Kept, Truthful

LEMMA KeptAgree ==
  ASSUME TypeOK, NEW m, Kept(m), Agree(m), UNCHANGED port, m \in loaded' <=> m \in loaded
  PROVE  Agree(m)'
<1>1. port = 0 \/ port \in Port
  BY DEF TypeOK, Port, DesktopAssumption
<1>2. CASE port = 0
  BY <1>2 DEF Agree
<1>3. CASE port \in Port
  BY <1>3 DEF Agree, Kept
<1>4. QED
  BY <1>1, <1>2, <1>3

(* A step that does not concern a model.                                   *)
Same(m) ==
  /\ Under(m)' = Under(m) /\ Flying(m)' = Flying(m)
  /\ \A c \in Under(m) : /\ call'[c].alone = call[c].alone /\ call'[c].do = call[c].do
                         /\ call'[c].at = "bridge" <=> call[c].at = "bridge"
  /\ m \in loaded' <=> m \in loaded
  /\ m \in blurred' <=> m \in blurred
  /\ port' = port /\ Kept(m)

LEMMA Elsewhere ==
  ASSUME TypeOK, Requests, NEW m \in Models, Sound(m), Same(m)
  PROVE  Sound(m)'
<1>1. \A r \in Flying(m) : r.port \in Port
  BY DEF Flying, Requests
<1>2. Alone(m)'
  <2>1. Alone(m) /\ Kept(m)
    BY DEF Same, Sound
  <2>2. \A r \in Flying(m) : Truthful(r, m) => Truthful(r, m)'
    BY <1>1, <2>1, Keeping
  <2>3. QED
    BY <2>1, <2>2 DEF Same, Alone
<1>3. ASSUME (m \notin blurred)' PROVE Clear(m)' /\ Settled(m)'
  <2>1. m \notin blurred /\ Clear(m) /\ Settled(m)
    BY <1>3 DEF Same, Sound
  <2>2. Clear(m)'
    BY <1>1, <2>1 DEF Same, Clear, Kept
  <2>3. Settled(m)'
    <3>1. SUFFICES ASSUME \A r \in Flying(m)' : r.is = "sent" PROVE Agree(m)'
      BY DEF Settled
    <3>2. Agree(m)
      BY <2>1, <3>1 DEF Same, Settled
    <3>3. QED
      BY <3>2, KeptAgree DEF Same
  <2>4. QED
    BY <2>2, <2>3
<1>4. QED
  BY <1>2, <1>3 DEF Sound
-----------------------------------------------------------------------------
(* Types, and what is known of requests and ports: of the calls' steps.    *)
Base == TypeOK /\ Requests /\ Ports

LEMMA WireFields ==
  ASSUME TypeOK, NEW r \in wire
  PROVE  /\ r \in Message /\ r.call \in 1 .. MaxCalls /\ r.do \in {"load", "unload", "limit"}
         /\ r.model \in Models /\ r.max \in 1 .. MaxModels /\ r.port \in 0 .. MaxPort
         /\ r.is \in {"sent", "ok", "refused", "lost"}
  BY DEF TypeOK, Message

LEMMA SidecarFields ==
  ASSUME TypeOK
  PROVE  \A p \in Port : /\ sidecar[p] \in Sidecar
                         /\ sidecar[p].held \subseteq Models /\ sidecar[p].first \subseteq Models
                         /\ sidecar[p].limit \in 1 .. MaxModels
                         /\ Cardinality(sidecar[p].held) <= MaxModels
  BY DEF TypeOK, Sidecar

(* A port is null or a sidecar's.                                          *)
LEMMA PortIs ==
  ASSUME TypeOK
  PROVE  port = 0 \/ port \in Port
  BY DEF TypeOK, Port, DesktopAssumption

(* A call that is over or has no request yet keeps none waiting.           *)
LEMMA HasRequest ==
  ASSUME Requests, NEW r \in wire, call[r.call] # Done
  PROVE  call[r.call].at = "fetch" /\ r.do = call[r.call].do
         /\ r.model = call[r.call].model
  BY DEF Requests

LEMMA BaseBegun ==
  ASSUME Base, NEW k \in Call, NEW n, Begun(k, n), UNCHANGED <<port, loaded>>,
         limit' \in 1 .. MaxModels, k.at = "bridge" \/ port # 0,
         \/ k.at # "fetch" /\ UNCHANGED wire
         \/ k.at = "fetch" /\ wire' = wire \cup {Sent(n, k)}
  PROVE  Base'
<1>1. TypeOK /\ Requests /\ Ports
  BY DEF Base
<1>2. (k.at = "fetch" => Sent(n, k) \in Message) /\ Sent(n, k).call = n /\ Sent(n, k).is = "sent"
      /\ Sent(n, k).do = k.do /\ Sent(n, k).model = k.model /\ Sent(n, k).port = port
  <2>1. k.at = "fetch" => Sent(n, k) \in Message
    BY <1>1, SentIs DEF Begun
  <2>2. QED
    BY <2>1 DEF Sent
<1>3. \A r \in wire : r.call # n
  BY <1>1 DEF Begun, Requests
<1>4. wire' \subseteq Message /\ \A q, r \in wire' : q.call = r.call => q = r
  BY <1>1, <1>2, <1>3 DEF TypeOK
<1>5. TypeOK'
  <2>1. blurred' \subseteq Models
    BY <1>1 DEF Begun, TypeOK, Call
  <2>2. QED
    BY <1>1, <1>4, <2>1 DEF TypeOK, Begun
<1>6. Requests'
  <2>1. ASSUME NEW r \in wire
        PROVE  /\ r.call \in DOMAIN call'
               /\ \/ call'[r.call] = Done /\ r.is = "sent"
                  \/ /\ call'[r.call].at = "fetch" /\ r.do = call'[r.call].do
                     /\ r.model = call'[r.call].model
               /\ r.port \in Port
    <3>1. r.call \in DOMAIN call /\ r.port \in Port
      BY <1>1 DEF Requests
    <3>2. CASE call[r.call] = Done
      BY <1>1, <3>1, <3>2 DEF Requests, Begun, Done
    <3>3. CASE call[r.call] # Done
      BY <1>1, <3>1, <3>3, HasRequest DEF Begun
    <3>4. QED
      BY <3>1, <3>2, <3>3
  <2>2. CASE wire' = wire
    BY <2>1, <2>2 DEF Requests
  <2>3. CASE k.at = "fetch" /\ wire' = wire \cup {Sent(n, k)}
    <3>1. port \in Port
      BY <1>1, <2>3, PortIs
    <3>3. \A r \in wire' : r \in wire \/ r = Sent(n, k)
      BY <2>3
    <3>4. /\ Sent(n, k).call \in DOMAIN call'
          /\ call'[n].at = "fetch" /\ call'[n].do = k.do /\ call'[n].model = k.model
      BY <1>2, <2>3 DEF Begun
    <3>5. QED
      BY <1>2, <2>1, <3>1, <3>3, <3>4 DEF Requests
  <2>4. QED
    BY <2>2, <2>3
<1>7. Ports'
  BY <1>1 DEF Ports, Unknown, Begun
<1>8. QED
  BY <1>5, <1>6, <1>7 DEF Base

LEMMA BaseBeginDone ==
  ASSUME Base, BeginDone, UNCHANGED <<port, loaded>>, limit' \in 1 .. MaxModels
  PROVE  Base'
<1>1. TypeOK /\ Requests /\ Ports
  BY DEF Base
<1>2. PICK n : n = Len(call) + 1
  OBVIOUS
<1>3. /\ DOMAIN call' = DOMAIN call \cup {n} /\ n \notin DOMAIN call /\ call'[n] = Done
      /\ \A c \in DOMAIN call : call'[c] = call[c]
      /\ call' \in Seq(Call \cup {Done}) /\ Len(call') <= MaxCalls
  BY <1>1, <1>2 DEF TypeOK, BeginDone, DesktopAssumption
<1>4. TypeOK'
  BY <1>1, <1>3 DEF TypeOK, BeginDone
<1>5. Requests'
  BY <1>1, <1>3 DEF Requests, BeginDone
<1>6. Ports'
  BY <1>1, <1>3 DEF Ports, Unknown, BeginDone, Done
<1>7. QED
  BY <1>4, <1>5, <1>6 DEF Base

(* A call ends, and no answer waits for it any more.                       *)
LEMMA RequestsFinish ==
  ASSUME TypeOK, Requests, NEW c \in DOMAIN call, Finish(c),
         wire' \subseteq wire, \A r \in wire' : r.call = c => r.is = "sent"
  PROVE  Requests'
<1>1. Others(c) /\ call'[c] = Done
  BY Finishing
<1>2. ASSUME NEW r \in wire'
      PROVE  /\ r.call \in DOMAIN call'
             /\ \/ call'[r.call] = Done /\ r.is = "sent"
                \/ /\ call'[r.call].at = "fetch" /\ r.do = call'[r.call].do
                   /\ r.model = call'[r.call].model
             /\ r.port \in Port
  <2>1. r \in wire /\ r.call \in DOMAIN call /\ r.port \in Port
    BY <1>2 DEF Requests
  <2>2. CASE r.call = c
    BY <1>1, <2>1, <2>2 DEF Others
  <2>3. CASE r.call # c
    <3>1. call'[r.call] = call[r.call]
      BY <1>1, <2>1, <2>3 DEF Others
    <3>2. QED
      BY <1>1, <2>1, <3>1 DEF Others, Requests
  <2>4. QED
    BY <2>2, <2>3
<1>3. QED
  BY <1>2 DEF Requests

LEMMA BaseFinish ==
  ASSUME Base, NEW c \in DOMAIN call, Finish(c), UNCHANGED <<port, limit, sidecar>>,
         wire' \subseteq wire, \A r \in wire' : r.call = c => r.is = "sent",
         loaded' \subseteq Models, port = 0 => loaded' = {}, blurred' \subseteq Models
  PROVE  Base'
<1>1. TypeOK /\ Requests /\ Ports
  BY DEF Base
<1>2. /\ call' \in Seq(Call \cup {Done}) /\ Len(call') = Len(call)
      /\ Others(c) /\ call'[c] = Done
  BY <1>1, Finishing
<1>3. TypeOK'
  BY <1>1, <1>2 DEF TypeOK
<1>4. Requests'
  BY <1>1, RequestsFinish
<1>5. Unknown'
  BY <1>1, <1>2 DEF Ports, Unknown, Others, Done
<1>6. Ports'
  BY <1>1, <1>5 DEF Ports
<1>7. QED
  BY <1>3, <1>4, <1>6 DEF Base

(* The bridge's answer: the call goes on with the sidecar it names, or it  *)
(* has failed.                                                             *)
LEMMA BridgeCases ==
  ASSUME TypeOK, NEW c \in DOMAIN call, BridgeAnswers(c)
  PROVE  /\ call[c] \in Call /\ call[c].model \in Models /\ call[c].at = "bridge"
         /\ call[c] # Done
         /\ UNCHANGED <<limit, loaded, wire, sidecar>>
         /\ \/ Finish(c) /\ UNCHANGED <<port, blurred>>
            \/ /\ port' \in Port
               /\ Finish(c) \/ (Goto(c, "memory") /\ call[c].do # "server"
                                 /\ call[c].model \notin loaded)
               /\ blurred' = IF port \in {0, port'} THEN blurred ELSE Models
<1>1. call[c] \in Call /\ call[c].model \in Models /\ call[c].at = "bridge" /\ call[c] # Done
  BY CallFields DEF BridgeAnswers
<1>2. QED
  BY <1>1 DEF BridgeAnswers, WithSidecar

LEMMA BaseBridge ==
  ASSUME Base, NEW c \in DOMAIN call, BridgeAnswers(c)
  PROVE  Base'
<1>1. TypeOK /\ Requests /\ Ports
  BY DEF Base
<1>2. /\ call[c] \in Call /\ call[c].at = "bridge" /\ call[c] # Done
      /\ UNCHANGED <<limit, loaded, wire, sidecar>>
  BY <1>1, BridgeCases
<1>3. \A r \in wire : r.call # c
  BY <1>1, <1>2, HasRequest
<1>4. CASE Finish(c) /\ UNCHANGED <<port, blurred>>
  <2>1. loaded' \subseteq Models /\ blurred' \subseteq Models /\ (port = 0 => loaded' = {})
    BY <1>1, <1>2, <1>4 DEF TypeOK, Ports, Unknown
  <2>2. QED
    BY <1>2, <1>3, <1>4, <2>1, BaseFinish
<1>5. CASE /\ port' \in Port
           /\ Finish(c) \/ (Goto(c, "memory") /\ call[c].do # "server")
           /\ blurred' = IF port \in {0, port'} THEN blurred ELSE Models
  <2>1. call' \in Seq(Call \cup {Done}) /\ Len(call') = Len(call) /\ Others(c)
    BY <1>1, <1>2, <1>5, Finishing, Going DEF Moves
  <2>2. port' \in 0 .. MaxPort /\ port' # 0
    BY <1>5 DEF Port, DesktopAssumption
  <2>3. TypeOK'
    BY <1>1, <1>2, <1>5, <2>1, <2>2 DEF TypeOK
  <2>4. Requests'
    <3>1. ASSUME NEW r \in wire
          PROVE  call'[r.call] = call[r.call] /\ r.call \in DOMAIN call'
      BY <1>1, <1>3, <2>1 DEF Requests, Others
    <3>2. QED
      BY <1>1, <1>2, <3>1 DEF Requests
  <2>5. Ports'
    BY <1>1, <1>2, <2>2 DEF Ports, Unknown
  <2>6. QED
    BY <2>3, <2>4, <2>5 DEF Base
<1>6. QED
  BY <1>1, <1>4, <1>5, BridgeCases

LEMMA MemoryCases ==
  ASSUME TypeOK, Requests, NEW c \in DOMAIN call, MemoryRead(c)
  PROVE  /\ call[c] \in Call /\ call[c] # Done /\ call[c].at = "memory"
         /\ UNCHANGED <<port, limit, loaded, sidecar, blurred>>
         /\ \A r \in wire : r.call # c
         /\ call[c].do # "server"
         /\ \/ /\ Goto(c, "fetch") /\ wire' = wire \cup {Sent(c, call[c])}
               /\ Sent(c, call[c]) \in Message
            \/ Finish(c) /\ UNCHANGED wire
<1>1. call[c].at = "memory" /\ UNCHANGED <<port, limit, loaded, sidecar, blurred>>
  BY DEF MemoryRead
<1>2. call[c] \in Call /\ call[c] # Done /\ c \in 1 .. MaxCalls /\ call[c].do # "server"
  BY <1>1, CallFields
<1>3. \A r \in wire : r.call # c
  BY <1>1, <1>2, HasRequest
<1>4. Sent(c, call[c]) \in Message
  BY <1>2, SentIs
<1>5. QED
  BY <1>1, <1>2, <1>3, <1>4 DEF MemoryRead

LEMMA BaseMemory ==
  ASSUME Base, NEW c \in DOMAIN call, MemoryRead(c)
  PROVE  Base'
<1>1. TypeOK /\ Requests /\ Ports
  BY DEF Base
<1>2. /\ call[c] \in Call /\ call[c] # Done /\ call[c].at = "memory"
      /\ UNCHANGED <<port, limit, loaded, sidecar, blurred>>
      /\ call[c].do # "server" /\ \A r \in wire : r.call # c
  BY <1>1, MemoryCases
<1>3. CASE Finish(c) /\ UNCHANGED wire
  <2>1. loaded' \subseteq Models /\ blurred' \subseteq Models /\ (port = 0 => loaded' = {})
    BY <1>1, <1>2 DEF TypeOK, Ports, Unknown
  <2>2. QED
    BY <1>2, <1>3, <2>1, BaseFinish
<1>4. CASE /\ Goto(c, "fetch") /\ wire' = wire \cup {Sent(c, call[c])}
           /\ Sent(c, call[c]) \in Message
  <2>1. /\ call' \in Seq(Call \cup {Done}) /\ Len(call') = Len(call) /\ Moves(c, "fetch")
        /\ Others(c)
    BY <1>1, <1>2, <1>4, Going DEF Moves
  <2>2. PICK s : s = Sent(c, call[c])
    OBVIOUS
  <2>3. /\ wire' = wire \cup {s} /\ s \in Message /\ s.call = c /\ s.do = call[c].do
        /\ s.model = call[c].model /\ s.port = port /\ s.is = "sent"
    BY <1>4, <2>2 DEF Sent
  <2>4. port # 0 /\ port \in Port
    BY <1>1, <1>2, PortIs DEF Ports, Unknown
  <2>5. TypeOK'
    <3>1. wire' \subseteq Message /\ \A q, r \in wire' : q.call = r.call => q = r
      BY <1>1, <1>2, <2>3 DEF TypeOK
    <3>2. QED
      BY <1>1, <1>2, <2>1, <3>1 DEF TypeOK
  <2>6. Requests'
    <3>1. ASSUME NEW r \in wire
          PROVE  call'[r.call] = call[r.call] /\ r.call \in DOMAIN call'
      BY <1>1, <1>2, <2>1 DEF Requests, Others
    <3>2. /\ c \in DOMAIN call' /\ call'[c].at = "fetch" /\ s.do = call'[c].do
          /\ s.model = call'[c].model /\ s.port \in Port
      BY <1>2, <2>1, <2>3, <2>4 DEF Moves, Others
    <3>3. ASSUME NEW r \in wire'
          PROVE  /\ r.call \in DOMAIN call'
                 /\ \/ call'[r.call] = Done /\ r.is = "sent"
                    \/ /\ call'[r.call].at = "fetch" /\ r.do = call'[r.call].do
                       /\ r.model = call'[r.call].model
                 /\ r.port \in Port
      BY <1>1, <1>2, <2>3, <3>1, <3>2 DEF Requests
    <3>4. QED
      BY <3>3 DEF Requests
  <2>7. Ports'
    BY <1>1, <1>2, <2>4 DEF Ports, Unknown
  <2>8. QED
    BY <2>5, <2>6, <2>7 DEF Base
<1>5. QED
  BY <1>1, <1>3, <1>4, MemoryCases

LEMMA LoadedAfterIs ==
  ASSUME TypeOK, NEW k \in Call, NEW what
  PROVE  /\ LoadedAfter(k, what) \subseteq Models
         /\ \A m \in Models : m # k.model \/ ~ForModel(k) =>
              (m \in LoadedAfter(k, what) <=> m \in loaded)
         /\ k.do = "unload" => k.model \notin LoadedAfter(k, what)
         /\ k.do = "load" => LoadedAfter(k, what) = IF what = "ok" THEN loaded \cup {k.model}
                                                          ELSE loaded
<1>1. k.model \in Models /\ k.do \in {"load", "server", "unload", "limit"}
  BY DEF Call
<1>2. ForModel(k) <=> k.do = "load" \/ k.do = "unload"
  BY DEF ForModel
<1>3. loaded \subseteq Models
  BY DEF TypeOK
<1>4. CASE k.do = "load"
  BY <1>1, <1>2, <1>3, <1>4 DEF LoadedAfter
<1>5. CASE k.do = "unload"
  BY <1>1, <1>2, <1>3, <1>5 DEF LoadedAfter
<1>6. CASE k.do # "load" /\ k.do # "unload"
  BY <1>1, <1>2, <1>3, <1>6 DEF LoadedAfter
<1>7. QED
  BY <1>4, <1>5, <1>6

LEMMA AtFetch ==
  ASSUME TypeOK, NEW c \in DOMAIN call, call[c].at = "fetch"
  PROVE  call[c] \in Call /\ call[c] # Done /\ call[c].model \in Models
         /\ call[c].do \in {"load", "server", "unload", "limit"}
  BY CallFields

LEMMA BaseFetched ==
  ASSUME Base, NEW c \in DOMAIN call, Fetched(c) \/ TimedOut(c)
  PROVE  Base'
<1>1. TypeOK /\ Requests /\ Ports
  BY DEF Base
<1>2. /\ call[c].at = "fetch" /\ Finish(c) /\ UNCHANGED <<port, limit, sidecar>>
      /\ \E what : loaded' = LoadedAfter(call[c], what)
  BY DEF Fetched, TimedOut
<1>3. call[c] \in Call /\ call[c].model \in Models
  BY <1>1, <1>2, AtFetch
<1>4. loaded' \subseteq Models /\ port # 0
  BY <1>1, <1>2, <1>3, LoadedAfterIs DEF Ports, Unknown
<1>5. blurred' \subseteq Models
  BY <1>1, <1>3 DEF Fetched, TimedOut, TypeOK
<1>6. wire' \subseteq wire /\ \A r \in wire' : r.call = c => r.is = "sent"
  BY <1>1 DEF Fetched, TimedOut, TypeOK
<1>7. QED
  BY <1>2, <1>4, <1>5, <1>6, BaseFinish
-----------------------------------------------------------------------------
(* The same, of the sidecar's steps.                                       *)

(* What the answer to r leaves on the wire.                                *)
Answered(r, q) ==
  /\ q \in Message /\ q.call = r.call /\ q.do = r.do /\ q.model = r.model /\ q.port = r.port
  /\ \/ call[r.call].at = "fetch" /\ wire' = (wire \ {r}) \cup {q}
     \/ call[r.call].at # "fetch" /\ wire' = wire \ {r}

LEMMA Replying ==
  ASSUME TypeOK, NEW r \in wire, NEW what \in {"sent", "ok", "refused", "lost"}, Reply(r, what)
  PROVE  \E q : Answered(r, q) /\ q.is = what
<1>1. PICK q : q = [r EXCEPT !.is = what]
  OBVIOUS
<1>2. r \in Message
  BY WireFields
<1>3. /\ q \in Message /\ q.call = r.call /\ q.do = r.do /\ q.model = r.model /\ q.port = r.port
      /\ q.is = what
  BY <1>1, <1>2 DEF Message
<1>4. wire' = (wire \ {r}) \cup {p \in {q} : call[r.call].at = "fetch"}
  BY <1>1 DEF Reply
<1>5. \/ call[r.call].at = "fetch" /\ wire' = (wire \ {r}) \cup {q}
      \/ call[r.call].at # "fetch" /\ wire' = wire \ {r}
  BY <1>4
<1>6. QED
  BY <1>3, <1>5 DEF Answered

LEMMA BaseReply ==
  ASSUME Base, NEW r \in wire, NEW q, Answered(r, q), UNCHANGED <<port, limit, loaded, call>>,
         blurred' \subseteq Models, sidecar' \in [Port -> Sidecar],
         \A p \in Port : /\ Cardinality(sidecar'[p].held) <= MaxModels
                        /\ sidecar'[p].state = sidecar[p].state
                        /\ sidecar'[p].first = sidecar[p].first
  PROVE  Base'
<1>1. TypeOK /\ Requests /\ Ports
  BY DEF Base
<1>2. /\ q \in Message /\ q.call = r.call /\ q.do = r.do /\ q.model = r.model /\ q.port = r.port
      /\ wire' \subseteq (wire \ {r}) \cup {q}
      /\ q \in wire' \ wire => call[r.call].at = "fetch"
  BY DEF Answered
<1>3. TypeOK'
  <2>1. wire' \subseteq Message /\ \A p, s \in wire' : p.call = s.call => p = s
    BY <1>1, <1>2 DEF TypeOK
  <2>2. QED
    BY <1>1, <2>1 DEF TypeOK
<1>4. Requests'
  <2>1. call[r.call].at = "fetch" => call[r.call] # Done
    BY DEF Done
  <2>2. ASSUME NEW s \in wire'
        PROVE  /\ s.call \in DOMAIN call
               /\ \/ call[s.call] = Done /\ s.is = "sent"
                  \/ /\ call[s.call].at = "fetch" /\ s.do = call[s.call].do
                     /\ s.model = call[s.call].model
               /\ s.port \in Port
    <3>1. CASE s \in wire
      BY <1>1, <3>1 DEF Requests
    <3>2. CASE s = q /\ s \notin wire
      BY <1>1, <1>2, <2>1, <3>2 DEF Requests
    <3>3. QED
      BY <1>2, <2>2, <3>1, <3>2
  <2>3. QED
    BY <2>2 DEF Requests
<1>5. Ports'
  BY <1>1 DEF Ports, Unknown, Started
<1>6. QED
  BY <1>3, <1>4, <1>5 DEF Base

(* What serving r comes to.                                                *)
Served(r) ==
  /\ r.is = "sent" /\ Listening(r.port)
  /\ UNCHANGED <<port, limit, loaded, call, blurred>>
  /\ sidecar' \in [Port -> Sidecar]
  /\ \A p \in Port :
       /\ Cardinality(sidecar'[p].held) <= MaxModels
       /\ sidecar'[p].state = sidecar[p].state /\ sidecar'[p].first = sidecar[p].first
       /\ \A m \in Models : m # r.model \/ ~ForModel(r)
                             => (m \in sidecar'[p].held <=> m \in sidecar[p].held)
  /\ \E q : /\ Answered(r, q) /\ q.is \in {"ok", "refused"}
            /\ q.is = "ok" /\ r.do = "load" => r.model \in sidecar'[r.port].held
            /\ q.is = "refused" \/ (q.is = "ok" /\ r.do = "unload")
                 => r.model \notin sidecar'[r.port].held

(* A sidecar, p, with other models and another limit.                      *)
Becomes(p, s) ==
  /\ s \in Sidecar /\ s.state = sidecar[p].state /\ s.first = sidecar[p].first
  /\ Cardinality(s.held) <= MaxModels
  /\ sidecar' = [sidecar EXCEPT ![p] = s]

LEMMA Becoming ==
  ASSUME TypeOK, NEW x \in Port, NEW s, Becomes(x, s)
  PROVE  /\ sidecar' \in [Port -> Sidecar] /\ sidecar'[x] = s
         /\ \A p \in Port : p # x => sidecar'[p] = sidecar[p]
         /\ \A p \in Port : /\ Cardinality(sidecar'[p].held) <= MaxModels
                            /\ sidecar'[p].state = sidecar[p].state
                            /\ sidecar'[p].first = sidecar[p].first
<1>1. sidecar' \in [Port -> Sidecar] /\ sidecar'[x] = s
  BY DEF Becomes, TypeOK
<1>2. \A p \in Port : p # x => sidecar'[p] = sidecar[p]
  BY DEF Becomes, TypeOK
<1>3. QED
  BY <1>1, <1>2, SidecarFields DEF Becomes

LEMMA Serving ==
  ASSUME TypeOK, Requests, NEW r \in wire, Serve(r)
  PROVE  Served(r)
<1>1. /\ r.is = "sent" /\ Listening(r.port)
      /\ UNCHANGED <<port, limit, loaded, call, blurred>>
  BY DEF Serve
<1>2. PICK x : x = r.port
  OBVIOUS
<1>3. PICK held : held = sidecar[x].held
  OBVIOUS
<1>4. /\ r.model \in Models /\ r.max \in 1 .. MaxModels /\ x \in Port
      /\ sidecar[x] \in Sidecar /\ held \subseteq Models /\ Cardinality(held) <= MaxModels
      /\ sidecar[x].limit \in 1 .. MaxModels
  BY <1>2, <1>3, WireFields, SidecarFields DEF Requests
<1>5. IsFiniteSet(held)
  BY <1>4, FS_Subset DEF DesktopAssumption
<1>6. Cardinality(held) \in Nat
  BY <1>5, FS_CardinalityType
<1>7. CASE /\ r.do = "load"
           /\ r.model \in held \/ Cardinality(held) < sidecar[x].limit
           /\ sidecar' = [sidecar EXCEPT ![x].held = held \cup {r.model}] /\ Reply(r, "ok")
  <2>1. PICK q : Answered(r, q) /\ q.is = "ok"
    BY <1>7, Replying
  <2>2. Cardinality(held \cup {r.model}) <= MaxModels
    <3>1. CASE r.model \in held
      <4>1. held \cup {r.model} = held
        BY <3>1
      <4>2. QED
        BY <1>4, <4>1
    <3>2. CASE r.model \notin held
      <4>1. Cardinality(held \cup {r.model}) = Cardinality(held) + 1
        BY <1>5, <3>2, FS_AddElement
      <4>2. QED
        BY <1>4, <1>6, <1>7, <3>2, <4>1 DEF DesktopAssumption
    <3>3. QED
      BY <3>1, <3>2
  <2>3. PICK s : s = [sidecar[x] EXCEPT !.held = held \cup {r.model}]
    OBVIOUS
  <2>4. s.held = held \cup {r.model} /\ Becomes(x, s)
    BY <1>4, <1>7, <2>2, <2>3 DEF Becomes, Sidecar, TypeOK
  <2>5. /\ sidecar' \in [Port -> Sidecar] /\ sidecar'[x] = s
        /\ \A p \in Port : p # x => sidecar'[p] = sidecar[p]
        /\ \A p \in Port : /\ Cardinality(sidecar'[p].held) <= MaxModels
                           /\ sidecar'[p].state = sidecar[p].state
                           /\ sidecar'[p].first = sidecar[p].first
    BY <1>4, <2>4, Becoming
  <2>6. r.model \in sidecar'[r.port].held /\ q.is # "refused" /\ r.do # "unload" /\ ForModel(r)
    BY <1>2, <1>7, <2>1, <2>4, <2>5 DEF ForModel
  <2>7. \A p \in Port, m \in Models : m # r.model => (m \in sidecar'[p].held <=> m \in sidecar[p].held)
    BY <1>3, <2>4, <2>5
  <2>8. QED
    BY <1>1, <2>1, <2>5, <2>6, <2>7 DEF Served
<1>8. CASE r.do = "load" /\ r.model \notin held /\ Reply(r, "refused") /\ sidecar' = sidecar
  <2>1. PICK q : Answered(r, q) /\ q.is = "refused"
    BY <1>8, Replying
  <2>2. r.model \notin sidecar'[r.port].held
    BY <1>2, <1>3, <1>8
  <2>3. sidecar' \in [Port -> Sidecar] /\ \A p \in Port : Cardinality(sidecar'[p].held) <= MaxModels
    BY <1>8 DEF TypeOK
  <2>4. QED
    BY <1>1, <1>8, <2>1, <2>2, <2>3 DEF Served
<1>9. CASE /\ r.do = "unload" /\ sidecar' = [sidecar EXCEPT ![x].held = held \ {r.model}]
           /\ Reply(r, IF r.model \in held THEN "ok" ELSE "refused")
  <2>1. PICK q : Answered(r, q) /\ q.is \in {"ok", "refused"}
    BY <1>9, Replying
  <2>2. Cardinality(held \ {r.model}) <= MaxModels
    <3>1. /\ Cardinality(held \ {r.model}) <= Cardinality(held)
          /\ Cardinality(held \ {r.model}) \in Nat
      BY <1>5, FS_Subset, FS_CardinalityType
    <3>2. QED
      BY <1>4, <1>6, <3>1 DEF DesktopAssumption
  <2>3. PICK s : s = [sidecar[x] EXCEPT !.held = held \ {r.model}]
    OBVIOUS
  <2>4. s.held = held \ {r.model} /\ Becomes(x, s)
    BY <1>4, <1>9, <2>2, <2>3 DEF Becomes, Sidecar, TypeOK
  <2>5. /\ sidecar' \in [Port -> Sidecar] /\ sidecar'[x] = s
        /\ \A p \in Port : p # x => sidecar'[p] = sidecar[p]
        /\ \A p \in Port : /\ Cardinality(sidecar'[p].held) <= MaxModels
                           /\ sidecar'[p].state = sidecar[p].state
                           /\ sidecar'[p].first = sidecar[p].first
    BY <1>4, <2>4, Becoming
  <2>6. r.model \notin sidecar'[r.port].held /\ r.do # "load" /\ ForModel(r)
    BY <1>2, <1>9, <2>4, <2>5 DEF ForModel
  <2>7. \A p \in Port, m \in Models : m # r.model => (m \in sidecar'[p].held <=> m \in sidecar[p].held)
    BY <1>3, <2>4, <2>5
  <2>8. QED
    BY <1>1, <2>1, <2>5, <2>6, <2>7 DEF Served
<1>10. CASE r.do = "limit" /\ sidecar' = [sidecar EXCEPT ![x].limit = r.max] /\ Reply(r, "ok")
  <2>1. PICK q : Answered(r, q) /\ q.is = "ok"
    BY <1>10, Replying
  <2>2. PICK s : s = [sidecar[x] EXCEPT !.limit = r.max]
    OBVIOUS
  <2>3. s.held = held /\ Becomes(x, s)
    BY <1>3, <1>4, <1>10, <2>2 DEF Becomes, Sidecar, TypeOK
  <2>4. /\ sidecar' \in [Port -> Sidecar] /\ sidecar'[x] = s
        /\ \A p \in Port : p # x => sidecar'[p] = sidecar[p]
        /\ \A p \in Port : /\ Cardinality(sidecar'[p].held) <= MaxModels
                           /\ sidecar'[p].state = sidecar[p].state
                           /\ sidecar'[p].first = sidecar[p].first
    BY <1>4, <2>3, Becoming
  <2>5. q.is # "refused" /\ r.do # "load" /\ r.do # "unload"
    BY <1>10, <2>1
  <2>6. \A p \in Port, m \in Models : m \in sidecar'[p].held <=> m \in sidecar[p].held
    BY <1>3, <2>3, <2>4
  <2>7. QED
    BY <1>1, <2>1, <2>4, <2>5, <2>6 DEF Served
<1>11. QED
  BY <1>2, <1>3, <1>7, <1>8, <1>9, <1>10 DEF Serve
LEMMA BaseServe ==
  ASSUME Base, NEW r \in wire, Serve(r)
  PROVE  Base'
<1>1. TypeOK /\ Served(r)
  BY Serving DEF Base
<1>2. PICK q : Answered(r, q)
  BY <1>1 DEF Served
<1>3. blurred' \subseteq Models
  BY <1>1 DEF Served, TypeOK
<1>4. QED
  BY <1>1, <1>2, <1>3, BaseReply DEF Served

LEMMA BaseLose ==
  ASSUME Base, NEW r \in wire, Lose(r)
  PROVE  Base'
<1>1. TypeOK /\ r.model \in Models
  BY WireFields DEF Base
<1>2. PICK q : Answered(r, q)
  BY <1>1, Replying DEF Lose
<1>3. UNCHANGED <<port, limit, loaded, call, sidecar>> /\ blurred' \subseteq Models
  BY <1>1 DEF Lose, TypeOK
<1>4. sidecar' \in [Port -> Sidecar] /\ \A p \in Port : Cardinality(sidecar'[p].held) <= MaxModels
  BY <1>1, <1>3 DEF TypeOK
<1>5. QED
  BY <1>2, <1>3, <1>4, BaseReply

(* What a step of sidecar x on its own may come to: its models it has not  *)
(* from any request.                                                       *)
Moved(x, s) ==
  /\ s \in Sidecar /\ Cardinality(s.held) <= MaxModels /\ Started(s)
  /\ sidecar[x].held \subseteq sidecar[x].first => s.held \subseteq s.first
  /\ sidecar' = [sidecar EXCEPT ![x] = s]
  /\ UNCHANGED <<port, limit, loaded, call, wire>>

LEMMA BaseMoved ==
  ASSUME Base, NEW x \in Port, NEW s, Moved(x, s), blurred' \subseteq Models
  PROVE  Base' /\ sidecar'[x] = s /\ \A p \in Port : p # x => sidecar'[p] = sidecar[p]
<1>1. TypeOK /\ Requests /\ Ports
  BY DEF Base
<1>2. /\ sidecar' \in [Port -> Sidecar] /\ sidecar'[x] = s
      /\ \A p \in Port : p # x => sidecar'[p] = sidecar[p]
      /\ UNCHANGED <<port, limit, loaded, call, wire>>
  BY <1>1 DEF TypeOK, Moved
<1>3. TypeOK'
  <2>1. \A p \in Port : Cardinality(sidecar'[p].held) <= MaxModels
    BY <1>1, <1>2 DEF TypeOK, Moved
  <2>2. QED
    BY <1>1, <1>2, <2>1 DEF TypeOK
<1>4. Requests'
  BY <1>1, <1>2 DEF Requests
<1>5. Ports'
  <2>1. \A p \in Port : Started(sidecar'[p])
    BY <1>1, <1>2 DEF Ports, Moved
  <2>2. Unknown'
    <3>1. SUFFICES ASSUME port = 0, NEW p \in Port PROVE sidecar'[p].held \subseteq sidecar'[p].first
      BY <1>1, <1>2 DEF Ports, Unknown
    <3>2. sidecar[p].held \subseteq sidecar[p].first
      BY <1>1, <3>1 DEF Ports, Unknown
    <3>3. QED
      BY <1>2, <3>2 DEF Moved
  <2>3. QED
    BY <2>1, <2>2 DEF Ports
<1>6. QED
  BY <1>2, <1>3, <1>4, <1>5 DEF Base

LEMMA Listens ==
  ASSUME TypeOK, Ports, NEW x \in Port, Listen(x)
  PROVE  /\ UNCHANGED blurred /\ sidecar[x].state = "none"
         /\ \E s : /\ Moved(x, s) /\ s.held = sidecar[x].held /\ s.state # "gone"
                  /\ sidecar[x].first \subseteq s.first
<1>1. sidecar[x] \in Sidecar /\ sidecar[x].state = "none" /\ sidecar[x].first = {}
      /\ Cardinality(sidecar[x].held) <= MaxModels
      /\ UNCHANGED <<port, limit, loaded, call, wire, blurred>>
  BY SidecarFields DEF Listen, Ports, Started
<1>2. CASE sidecar' = [sidecar EXCEPT ![x].state = "up"]
  <2>1. PICK s : s = [sidecar[x] EXCEPT !.state = "up"]
    OBVIOUS
  <2>2. /\ s \in Sidecar /\ s.held = sidecar[x].held /\ s.first = sidecar[x].first
        /\ s.state = "up"
    BY <1>1, <2>1 DEF Sidecar
  <2>3. sidecar' = [sidecar EXCEPT ![x] = s]
    BY <1>2, <2>1 DEF TypeOK
  <2>4. Moved(x, s)
    BY <1>1, <2>2, <2>3 DEF Moved, Started, DesktopAssumption
  <2>5. QED
    BY <1>1, <2>2, <2>4
<1>3. ASSUME NEW m \in Boots,
             sidecar' = [sidecar EXCEPT ![x].state = "booting", ![x].first = {m}]
      PROVE  \E s : /\ Moved(x, s) /\ s.held = sidecar[x].held /\ s.state # "gone"
                   /\ sidecar[x].first \subseteq s.first
  <2>1. PICK s : s = [sidecar[x] EXCEPT !.state = "booting", !.first = {m}]
    OBVIOUS
  <2>2. /\ s \in Sidecar /\ s.held = sidecar[x].held /\ s.first = {m} /\ s.state = "booting"
    BY <1>1, <2>1 DEF Sidecar, DesktopAssumption
  <2>3. sidecar' = [sidecar EXCEPT ![x] = s]
    BY <1>3, <2>1 DEF TypeOK
  <2>4. Moved(x, s)
    BY <1>1, <2>2, <2>3 DEF Moved, Started, DesktopAssumption
  <2>5. QED
    BY <1>1, <2>2, <2>4
<1>4. QED
  BY <1>1, <1>2, <1>3 DEF Listen

LEMMA Booting ==
  ASSUME TypeOK, Ports, NEW x \in Port, Boot(x)
  PROVE  /\ UNCHANGED blurred /\ sidecar[x].state # "gone"
         /\ \E s : /\ Moved(x, s) /\ s.held = sidecar[x].held \cup s.first /\ s.state # "gone"
                  /\ s.first = sidecar[x].first
<1>1. PICK held : held = sidecar[x].held \cup sidecar[x].first
  OBVIOUS
<1>2. /\ sidecar[x] \in Sidecar /\ sidecar[x].state = "booting" /\ held \subseteq Models
      /\ held = sidecar[x].held \/ Cardinality(sidecar[x].held) < sidecar[x].limit
      /\ UNCHANGED <<port, limit, loaded, call, wire, blurred>>
  BY <1>1, SidecarFields DEF Boot
<1>3. Cardinality(held) <= MaxModels
  <2>1. PICK m \in Models : sidecar[x].first = {m}
    BY <1>2 DEF Ports, Started
  <2>2. /\ sidecar[x].limit \in 1 .. MaxModels /\ Cardinality(sidecar[x].held) <= MaxModels
        /\ IsFiniteSet(sidecar[x].held)
    BY SidecarFields, FS_Subset DEF DesktopAssumption
  <2>3. CASE m \in sidecar[x].held
    <3>1. held = sidecar[x].held
      BY <1>1, <2>1, <2>3
    <3>2. QED
      BY <2>2, <3>1
  <2>4. CASE m \notin sidecar[x].held
    <3>1. held = sidecar[x].held \cup {m} /\ held # sidecar[x].held
      BY <1>1, <2>1, <2>4
    <3>2. Cardinality(held) = Cardinality(sidecar[x].held) + 1
      BY <2>2, <2>4, <3>1, FS_AddElement
    <3>3. Cardinality(sidecar[x].held) \in Nat
      BY <2>2, FS_CardinalityType
    <3>4. QED
      BY <1>2, <2>2, <3>1, <3>2, <3>3 DEF DesktopAssumption
  <2>5. QED
    BY <2>3, <2>4
<1>4. PICK s : s = [sidecar[x] EXCEPT !.state = "up", !.held = held]
  OBVIOUS
<1>5. s \in Sidecar /\ s.held = held /\ s.first = sidecar[x].first /\ s.state = "up"
  BY <1>2, <1>4 DEF Sidecar
<1>6. sidecar' = [sidecar EXCEPT ![x] = s]
  BY <1>1, <1>4 DEF TypeOK, Boot
<1>7. Moved(x, s)
  BY <1>1, <1>2, <1>3, <1>5, <1>6 DEF Moved, Started
<1>8. QED
  BY <1>1, <1>2, <1>5, <1>7

LEMMA Dies ==
  ASSUME TypeOK, NEW x \in Port, Die(x)
  PROVE  /\ blurred' = IF x = port THEN Models ELSE blurred
         /\ \E s : Moved(x, s) /\ s.held = {} /\ s.state = "gone"
<1>1. PICK s : s = [state |-> "gone", held |-> {}, limit |-> MaxModels, first |-> {}]
  OBVIOUS
<1>2. s \in Sidecar /\ s.held = {} /\ s.state = "gone"
  BY <1>1 DEF Sidecar, DesktopAssumption
<1>3. Cardinality(s.held) <= MaxModels
  BY <1>2, FS_EmptySet DEF DesktopAssumption
<1>4. Moved(x, s)
  BY <1>1, <1>2, <1>3 DEF Moved, Started, Die
<1>5. QED
  BY <1>2, <1>4 DEF Die

-----------------------------------------------------------------------------
(* What is known of each model: of the calls' steps.                       *)

(* The beginning of a call about m: it is alone if it is the only one.     *)
LEMMA SoundBegun ==
  ASSUME Base, NEW m \in Models, Sound(m), NEW k \in Call, NEW n, Begun(k, n),
         UNCHANGED <<port, loaded>>, ForModel(k), k.model = m,
         k.at # "bridge" /\ k.do = "load" => m \notin loaded,
         Flying(m)' = Flying(m)
           \/ \E s : /\ Flying(m)' = Flying(m) \cup {s}
                     /\ s.call = n /\ s.is = "sent" /\ s.port = port
  PROVE  Sound(m)'
<1>1. TypeOK /\ Alone(m) /\ (m \notin blurred => Clear(m) /\ Settled(m))
  BY DEF Base, Sound
<1>2. Under(m)' = Under(m) \cup {n} /\ n \notin Under(m)
  BY <1>1, UnderBegun
<1>3. /\ \A c \in Under(m) : ~call'[c].alone
      /\ call'[n].alone = (Under(m) = {} /\ Flying(m) = {})
      /\ call'[n].at = k.at /\ call'[n].do = k.do
      /\ sidecar' = sidecar
      /\ blurred' = IF Under(m) = {} THEN blurred ELSE blurred \cup {m}
  BY <1>1 DEF Begun, Under
<1>4. Alone(m)'
  <2>1. SUFFICES ASSUME NEW c \in Under(m)', call'[c].alone
                 PROVE  /\ \A d \in Under(m)' : d = c
                        /\ call'[c].at # "bridge" /\ call'[c].do = "load" => m \notin loaded'
                        /\ \A r \in Flying(m)' : r.call = c /\ Truthful(r, m)'
    BY DEF Alone
  <2>2. c = n /\ Under(m) = {} /\ Flying(m) = {}
    BY <1>2, <1>3, <2>1
  <2>3. \A r \in Flying(m)' : r.call = n /\ r.is = "sent"
    BY <2>2
  <2>4. ASSUME NEW r \in Flying(m)'
        PROVE  Truthful(r, m)'
    <3>1. r.is = "sent"
      BY <2>3
    <3>2. QED
      BY <3>1 DEF Truthful
  <2>5. QED
    BY <1>2, <1>3, <2>2, <2>3, <2>4
<1>5. ASSUME (m \notin blurred)'
      PROVE  Clear(m)' /\ Settled(m)'
  <2>1. Under(m) = {} /\ m \notin blurred /\ Clear(m) /\ Settled(m)
    BY <1>1, <1>3, <1>5
  <2>2. Flying(m) = {}
    BY <2>1 DEF Clear
  <2>3. Clear(m)'
    BY <1>2, <1>3, <2>1, <2>2 DEF Clear
  <2>4. Agree(m)'
    BY <1>3, <2>1, <2>2 DEF Settled, Agree
  <2>5. QED
    BY <2>3, <2>4 DEF Settled
<1>6. QED
  BY <1>4, <1>5 DEF Sound

(* Any other model does not notice.                                        *)
LEMMA OtherBegun ==
  ASSUME Base, NEW m \in Models, Sound(m), NEW k \in Call, NEW n, Begun(k, n),
         UNCHANGED <<port, loaded>>, ~ForModel(k) \/ k.model # m,
         Flying(m)' = Flying(m)
  PROVE  Sound(m)'
<1>1. TypeOK /\ Requests
  BY DEF Base
<1>2. Under(m)' = Under(m)
  BY <1>1, UnderBegun
<1>3. \A c \in Under(m) : /\ call'[c].alone = call[c].alone /\ call'[c].do = call[c].do
                          /\ call'[c].at = call[c].at
  <2>1. SUFFICES ASSUME NEW c \in Under(m)
                 PROVE  /\ call'[c].alone = call[c].alone /\ call'[c].do = call[c].do
                        /\ call'[c].at = call[c].at
    OBVIOUS
  <2>2. c \in DOMAIN call /\ call[c] # Done /\ call[c].alone \in BOOLEAN
    BY <1>1, CallFields, UnderIs
  <2>3. ~(ForModel(k) /\ c \in Under(k.model))
    BY <1>1, UnderIs DEF Call
  <2>4. QED
    BY <2>2, <2>3 DEF Begun
<1>4. sidecar' = sidecar /\ (m \in blurred' <=> m \in blurred)
  BY DEF Begun
<1>5. Same(m)
  BY <1>2, <1>3, <1>4, KeptSame DEF Same
<1>6. QED
  BY <1>1, <1>5, Elsewhere

LEMMA NewCallIs ==
  ASSUME NEW do \in {"load", "server", "unload", "limit"},
         NEW at \in {"bridge", "memory", "fetch"}, NEW m \in Models, NEW x \in 1 .. MaxModels,
         do = "server" => at = "bridge"
  PROVE  /\ NewCall(do, at, m, x) \in Call
         /\ NewCall(do, at, m, x).do = do /\ NewCall(do, at, m, x).at = at
         /\ NewCall(do, at, m, x).model = m
  BY DEF NewCall, Call

(* The beginning of a call that sends nothing yet.                         *)
LEMMA BeginWaiting ==
  ASSUME IInv, NEW do \in {"load", "server"}, NEW at \in {"bridge", "memory"},
         NEW x \in Models, Begin(NewCall(do, at, x, 1)), UNCHANGED <<port, limit, loaded, wire>>,
         at = "memory" => do = "load" /\ port # 0 /\ x \notin loaded
  PROVE  IInv'
<1>1. Base /\ TypeOK /\ \A m \in Models : Sound(m)
  BY DEF IInv, Base
<1>2. PICK k : k = NewCall(do, at, x, 1)
  OBVIOUS
<1>3. k \in Call /\ k.do = do /\ k.at = at /\ k.model = x
  <2>1. 1 \in 1 .. MaxModels /\ (do = "server" => at = "bridge")
    BY DEF DesktopAssumption
  <2>2. QED
    BY <1>2, <2>1, NewCallIs
<1>4. PICK n : n = Len(call) + 1
  OBVIOUS
<1>5. Begun(k, n)
  BY <1>1, <1>2, <1>3, <1>4, Beginning
<1>6. Base'
  <2>1. limit' \in 1 .. MaxModels
    BY <1>1 DEF TypeOK
  <2>2. QED
    BY <1>1, <1>3, <1>5, <2>1, BaseBegun
<1>7. \A m \in Models : Flying(m)' = Flying(m)
  BY DEF Flying
<1>8. ASSUME NEW m \in Models
      PROVE  Sound(m)'
  <2>1. CASE ForModel(k) /\ m = x
    BY <1>1, <1>3, <1>5, <1>7, <2>1, SoundBegun
  <2>2. CASE ~ForModel(k) \/ m # x
    BY <1>1, <1>3, <1>5, <1>7, <2>2, OtherBegun
  <2>3. QED
    BY <2>1, <2>2
<1>9. QED
  BY <1>6, <1>8 DEF IInv, Base

(* The beginning of one that sends its request at once.                    *)
LEMMA BeginSending ==
  ASSUME IInv, NEW do \in {"unload", "limit"}, NEW x \in Models, NEW y \in 1 .. MaxModels,
         BeginFetch(do, x, y), UNCHANGED <<port, loaded>>, limit' \in 1 .. MaxModels, port # 0
  PROVE  IInv'
<1>1. Base /\ TypeOK /\ \A m \in Models : Sound(m)
  BY DEF IInv, Base
<1>2. PICK k : k = NewCall(do, "fetch", x, y)
  OBVIOUS
<1>3. k \in Call /\ k.do = do /\ k.at = "fetch" /\ k.model = x
  BY <1>2, NewCallIs
<1>4. PICK n : n = Len(call) + 1
  OBVIOUS
<1>5. Begin(k) /\ wire' = wire \cup {Sent(n, k)}
  BY <1>2, <1>4 DEF BeginFetch
<1>6. Begun(k, n)
  BY <1>1, <1>3, <1>4, <1>5, Beginning
<1>7. Base'
  BY <1>1, <1>3, <1>5, <1>6, BaseBegun
<1>8. PICK s : s = Sent(n, k)
  OBVIOUS
<1>9. /\ s.call = n /\ s.is = "sent" /\ s.port = port /\ s.model = x /\ s.do = do
  BY <1>3, <1>8 DEF Sent
<1>10. wire' = wire \cup {s}
  BY <1>5, <1>8
<1>11. ASSUME NEW m \in Models
       PROVE  Sound(m)'
  <2>1. CASE do = "limit" \/ m # x
    <3>1. Flying(m)' = Flying(m)
      BY <1>9, <1>10, <2>1 DEF Flying, ForModel
    <3>2. QED
      BY <1>1, <1>3, <1>6, <2>1, <3>1, OtherBegun DEF ForModel
  <2>2. CASE do = "unload" /\ m = x
    <3>1. Flying(m)' = Flying(m) \cup {s}
      BY <1>9, <1>10, <2>2 DEF Flying, ForModel
    <3>2. k.do # "load" /\ ForModel(k)
      BY <1>3, <2>2 DEF ForModel
    <3>3. QED
      BY <1>1, <1>3, <1>6, <1>9, <2>2, <3>1, <3>2, SoundBegun
  <2>3. QED
    BY <2>1, <2>2
<1>12. QED
  BY <1>7, <1>11 DEF IInv, Base
LEMMA BeginNothing ==
  ASSUME IInv, BeginDone, UNCHANGED <<port, loaded>>, limit' \in 1 .. MaxModels
  PROVE  IInv'
<1>1. Base /\ TypeOK /\ Requests /\ \A m \in Models : Sound(m)
  BY DEF IInv, Base
<1>2. Base'
  BY <1>1, BaseBeginDone
<1>3. ASSUME NEW m \in Models
      PROVE  Sound(m)'
  <2>1. PICK n : n = Len(call) + 1
    OBVIOUS
  <2>2. /\ DOMAIN call' = DOMAIN call \cup {n} /\ n \notin DOMAIN call /\ call'[n] = Done
        /\ \A c \in DOMAIN call : call'[c] = call[c]
    BY <1>1, <2>1 DEF TypeOK, BeginDone
  <2>3. Under(m)' = Under(m) /\ \A c \in Under(m) : call'[c] = call[c]
    BY <2>2 DEF Under
  <2>4. Flying(m)' = Flying(m)
    BY DEF Flying, BeginDone
  <2>5. Same(m)
    BY <2>3, <2>4, KeptSame DEF Same, BeginDone
  <2>6. QED
    BY <1>1, <2>5, Elsewhere
<1>4. QED
  BY <1>2, <1>3 DEF IInv, Base

(* The bridge's answer.                                                    *)
LEMMA SoundBridge ==
  ASSUME IInv, NEW c \in DOMAIN call, BridgeAnswers(c), NEW m \in Models
  PROVE  Sound(m)'
<1>1. TypeOK /\ Requests /\ Ports /\ Sound(m)
  BY DEF IInv
<1>2. /\ call[c] \in Call /\ call[c] # Done /\ call[c].at = "bridge"
      /\ UNCHANGED <<limit, loaded, wire, sidecar>>
  BY <1>1, BridgeCases
<1>3. /\ Flying(m)' = Flying(m)
      /\ \A r \in Flying(m) : r.call # c
  BY <1>1, <1>2, HasRequest, FlyingIs DEF Flying
<1>4. /\ Under(m)' \subseteq Under(m) /\ Under(m) \ {c} \subseteq Under(m)'
      /\ \A d \in Under(m)' : /\ call'[d].alone = call[d].alone
                              /\ call'[d].do = call[d].do
                              /\ d # c => call'[d].at = call[d].at
                              /\ d = c => m \notin loaded
  <2>1. CASE Finish(c)
    BY <1>1, <2>1, UnderFinish
  <2>2. CASE Goto(c, "memory") /\ call[c].do # "server" /\ call[c].model \notin loaded
    BY <1>1, <1>2, <2>2, UnderGoto, UnderIs
  <2>3. QED
    BY <1>1, <2>1, <2>2, BridgeCases
<1>5. \/ UNCHANGED <<port, blurred>>
      \/ port' \in Port /\ blurred' = IF port \in {0, port'} THEN blurred ELSE Models
  BY <1>1, BridgeCases
<1>6. Alone(m)'
  <2>1. SUFFICES ASSUME NEW d \in Under(m)', call'[d].alone
                 PROVE  /\ \A e \in Under(m)' : e = d
                        /\ call'[d].at # "bridge" /\ call'[d].do = "load" => m \notin loaded'
                        /\ \A r \in Flying(m)' : r.call = d /\ Truthful(r, m)'
    BY DEF Alone
  <2>2. d \in Under(m) /\ call[d].alone /\ Alone(m)
    BY <1>1, <1>4, <2>1 DEF Sound
  <2>3. \A e \in Under(m)' : e = d
    BY <1>4, <2>2 DEF Alone
  <2>4. call'[d].at # "bridge" /\ call'[d].do = "load" => m \notin loaded'
    BY <1>2, <1>4, <2>2 DEF Alone
  <2>5. \A r \in Flying(m)' : r.call = d /\ Truthful(r, m)'
    BY <1>2, <1>3, <2>2 DEF Alone, Truthful
  <2>6. QED
    BY <2>3, <2>4, <2>5
<1>7. ASSUME (m \notin blurred)'
      PROVE  Clear(m)' /\ Settled(m)'
  <2>1. m \notin blurred /\ (port' = port \/ (port = 0 /\ port' \in Port))
    BY <1>5, <1>7
  <2>2. Clear(m) /\ Settled(m)
    BY <1>1, <2>1 DEF Sound
  <2>3. /\ \A d, e \in Under(m)' : d = e
        /\ \A d \in Under(m)' : call'[d].alone
        /\ \A r \in Flying(m)' : r.call \in Under(m)'
    BY <1>3, <1>4, <2>2 DEF Clear
  <2>4. CASE port' = port
    <3>1. Clear(m)'
      BY <1>2, <1>3, <2>2, <2>3, <2>4 DEF Clear
    <3>2. Settled(m)'
      BY <1>2, <1>3, <2>2, <2>4 DEF Settled, Agree
    <3>3. QED
      BY <3>1, <3>2
  <2>5. CASE port = 0 /\ port' \in Port
    <3>1. loaded = {} /\ Flying(m) = {} /\ sidecar[port'].held \subseteq sidecar[port'].first
      BY <1>1, <2>5 DEF Ports, Unknown, Flying
    <3>2. Clear(m)'
      BY <1>3, <2>3, <3>1 DEF Clear
    <3>3. Agree(m)'
      BY <1>2, <3>1 DEF Agree
    <3>4. QED
      BY <3>2, <3>3 DEF Settled
  <2>6. QED
    BY <2>1, <2>4, <2>5
<1>8. QED
  BY <1>6, <1>7 DEF Sound

(* The admission of a load, with its request, or its refusal.              *)
LEMMA SoundMemory ==
  ASSUME IInv, NEW c \in DOMAIN call, MemoryRead(c), NEW m \in Models
  PROVE  Sound(m)'
<1>1. TypeOK /\ Requests /\ Ports /\ Sound(m)
  BY DEF IInv
<1>2. /\ call[c] \in Call /\ call[c] # Done /\ call[c].at = "memory"
      /\ UNCHANGED <<port, limit, loaded, sidecar, blurred>>
      /\ call[c].do # "server" /\ \A r \in wire : r.call # c
  BY <1>1, MemoryCases
<1>3. CASE Finish(c) /\ UNCHANGED wire
  <2>1. /\ Under(m)' = Under(m) \ {c} /\ \A d \in Under(m)' : call'[d] = call[d]
        /\ Flying(m)' = Flying(m) /\ \A r \in Flying(m) : r.call # c
    BY <1>1, <1>2, <1>3, UnderFinish DEF Flying
  <2>2. Alone(m)'
    BY <1>1, <1>2, <2>1 DEF Sound, Alone, Truthful
  <2>3. ASSUME (m \notin blurred)'
        PROVE  Clear(m)' /\ Settled(m)'
    <3>1. Clear(m) /\ Settled(m)
      BY <1>1, <1>2, <2>3 DEF Sound
    <3>2. Clear(m)'
      BY <1>2, <2>1, <3>1 DEF Clear
    <3>3. Settled(m)'
      BY <1>2, <2>1, <3>1 DEF Settled, Agree
    <3>4. QED
      BY <3>2, <3>3
  <2>4. QED
    BY <2>2, <2>3 DEF Sound
<1>4. CASE Goto(c, "fetch") /\ wire' = wire \cup {Sent(c, call[c])}
  <2>1. PICK s : s = Sent(c, call[c])
    OBVIOUS
  <2>2. /\ wire' = wire \cup {s} /\ s.call = c /\ s.do = call[c].do
        /\ s.model = call[c].model /\ s.port = port /\ s.is = "sent"
    BY <1>4, <2>1 DEF Sent
  <2>3. /\ Under(m)' = Under(m)
        /\ \A d \in Under(m) : /\ call'[d].do = call[d].do /\ call'[d].alone = call[d].alone
                               /\ call'[d].at = IF d = c THEN "fetch" ELSE call[d].at
    BY <1>1, <1>2, <1>4, UnderGoto
  <2>4. CASE c \notin Under(m)
    <3>1. Flying(m)' = Flying(m)
      <4>1. ~ForModel(s) \/ s.model # m
        <5>1. c \in DOMAIN call /\ (~ForModel(call[c]) \/ call[c].model # m)
          BY <1>2, <2>4 DEF Under
        <5>2. QED
          BY <2>2, <5>1 DEF ForModel
      <4>2. QED
        BY <2>2, <4>1 DEF Flying
    <3>2. Same(m)
      BY <1>2, <2>3, <2>4, <3>1, KeptSame DEF Same
    <3>3. QED
      BY <1>1, <3>2, Elsewhere
  <2>5. CASE c \in Under(m)
    <3>1. Flying(m)' = Flying(m) \cup {s}
      <4>1. ForModel(call[c]) /\ call[c].model = m
        BY <1>1, <2>5, UnderIs
      <4>2. ForModel(s) /\ s.model = m
        BY <2>2, <4>1 DEF ForModel
      <4>3. QED
        BY <2>2, <4>2 DEF Flying
    <3>2. Alone(m)'
      <4>1. SUFFICES ASSUME NEW d \in Under(m)', call'[d].alone
                     PROVE  /\ \A e \in Under(m)' : e = d
                            /\ call'[d].at # "bridge" /\ call'[d].do = "load" => m \notin loaded'
                            /\ \A r \in Flying(m)' : r.call = d /\ Truthful(r, m)'
        BY DEF Alone
      <4>2. d \in Under(m) /\ call[d].alone /\ Alone(m)
        BY <1>1, <2>3, <4>1 DEF Sound
      <4>3. d = c /\ \A e \in Under(m)' : e = d
        BY <2>3, <2>5, <4>2 DEF Alone
      <4>4. call'[d].at # "bridge" /\ call'[d].do = "load" => m \notin loaded'
        BY <1>2, <2>3, <4>2, <4>3 DEF Alone
      <4>5. \A r \in Flying(m) : r.call = d /\ Truthful(r, m)'
        BY <1>2, <4>2 DEF Alone, Truthful
      <4>6. Truthful(s, m)'
        BY <2>2 DEF Truthful
      <4>7. QED
        BY <2>2, <3>1, <4>3, <4>4, <4>5, <4>6
    <3>3. ASSUME (m \notin blurred)'
          PROVE  Clear(m)' /\ Settled(m)'
      <4>1. Clear(m) /\ Settled(m)
        BY <1>1, <1>2, <3>3 DEF Sound
      <4>2. Clear(m)'
        BY <1>2, <2>2, <2>3, <2>5, <3>1, <4>1 DEF Clear
      <4>3. Settled(m)'
        BY <1>2, <3>1, <4>1 DEF Settled, Agree
      <4>4. QED
        BY <4>2, <4>3
    <3>4. QED
      BY <3>2, <3>3 DEF Sound
  <2>6. QED
    BY <2>4, <2>5
<1>5. QED
  BY <1>1, <1>3, <1>4, MemoryCases
(* The end of a call at its request, for the models it is not about.       *)
LEMMA OtherFetched ==
  ASSUME IInv, NEW c \in DOMAIN call, call[c].at = "fetch", Finish(c),
         UNCHANGED <<port, sidecar>>,
         wire' \subseteq wire, \A r \in wire \ wire' : r.call = c,
         NEW what, loaded' = LoadedAfter(call[c], what),
         NEW m \in Models, ~ForModel(call[c]) \/ m # call[c].model,
         m \in blurred' <=> m \in blurred
  PROVE  Sound(m)'
<1>1. TypeOK /\ Requests /\ Sound(m)
  BY DEF IInv
<1>2. call[c] \in Call /\ call[c] # Done
  BY <1>1, AtFetch
<1>3. Under(m)' = Under(m) /\ \A d \in Under(m) : call'[d] = call[d]
  <2>1. Under(m)' = Under(m) \ {c} /\ \A d \in Under(m)' : call'[d] = call[d]
    BY <1>1, UnderFinish
  <2>2. c \notin Under(m)
    BY <1>1, UnderIs
  <2>3. QED
    BY <2>1, <2>2
<1>4. Flying(m)' = Flying(m)
  <2>1. ASSUME NEW r \in Flying(m)
        PROVE  r \in wire'
    <3>1. SUFFICES ASSUME r \notin wire' PROVE FALSE
      OBVIOUS
    <3>2. r \in wire /\ r.call = c /\ ForModel(r) /\ r.model = m
      BY <3>1 DEF Flying
    <3>3. r.do = call[c].do /\ r.model = call[c].model
      BY <1>1, <1>2, <3>2, HasRequest
    <3>4. QED
      BY <3>2, <3>3 DEF ForModel
  <2>2. QED
    BY <2>1 DEF Flying
<1>5. m \in loaded' <=> m \in loaded
  BY <1>1, <1>2, LoadedAfterIs
<1>6. Same(m)
  BY <1>3, <1>4, <1>5, KeptSame DEF Same
<1>7. QED
  BY <1>1, <1>6, Elsewhere

(* And for the model it is about: no call for it is alone but this one.    *)
LEMMA AloneFetched ==
  ASSUME TypeOK, NEW m \in Models, Alone(m), NEW c \in Under(m), Finish(c)
  PROVE  Alone(m)'
<1>1. c \in DOMAIN call
  BY UnderIs
<1>2. Under(m)' = Under(m) \ {c} /\ \A d \in Under(m)' : call'[d] = call[d]
  BY <1>1, UnderFinish
<1>3. \A d \in Under(m)' : ~call'[d].alone
  BY <1>2 DEF Alone
<1>4. QED
  BY <1>3 DEF Alone

LEMMA FetchUnder ==
  ASSUME TypeOK, NEW c \in DOMAIN call, call[c].at = "fetch", ForModel(call[c])
  PROVE  c \in Under(call[c].model)
  BY AtFetch DEF Under

LEMMA SoundTimedOut ==
  ASSUME IInv, NEW c \in DOMAIN call, TimedOut(c), NEW m \in Models
  PROVE  Sound(m)'
<1>1. TypeOK /\ Requests /\ Sound(m)
  BY DEF IInv
<1>2. /\ call[c].at = "fetch" /\ Finish(c) /\ UNCHANGED <<port, sidecar>>
      /\ loaded' = LoadedAfter(call[c], "lost")
      /\ wire' \subseteq wire /\ \A r \in wire \ wire' : r.call = c
      /\ blurred' = IF ForModel(call[c]) THEN blurred \cup {call[c].model} ELSE blurred
  BY DEF TimedOut
<1>3. CASE ~ForModel(call[c]) \/ m # call[c].model
  BY <1>2, <1>3, OtherFetched
<1>4. CASE ForModel(call[c]) /\ m = call[c].model
  <2>1. m \in blurred'
    BY <1>2, <1>4
  <2>2. Alone(m)'
    BY <1>1, <1>2, <1>4, FetchUnder, AloneFetched DEF Sound
  <2>3. QED
    BY <2>1, <2>2 DEF Sound
<1>5. QED
  BY <1>3, <1>4

(* An answer that says what the sidecar holds, and is for the only call.   *)
LEMMA Answers ==
  ASSUME TypeOK, Requests, NEW m \in Models, Alone(m), NEW c \in Under(m), call[c].alone,
         NEW r \in Flying(m), r.call = c, r.is \in {"ok", "refused"},
         r.port = port, sidecar[r.port].state # "gone", UNCHANGED <<port, sidecar>>,
         call[c].at = "fetch", loaded' = LoadedAfter(call[c], r.is)
  PROVE  Agree(m)'
<1>1. r.do = call[c].do /\ r.do \in {"load", "unload"} /\ r \in wire /\ port \in Port
  <2>1. /\ r \in wire /\ call[r.call] # Done /\ r.do \in {"load", "unload"}
        /\ port \in Port
    BY FlyingIs, UnderIs, AtFetch
  <2>2. QED
    BY <2>1, HasRequest
<1>2. call[c] \in Call /\ call[c].model = m
  BY UnderIs
<1>3. Truthful(r, m) /\ (r.do = "load" => m \notin loaded)
  BY <1>1 DEF Alone
<1>4. port # 0
  BY <1>1 DEF Port
<1>5. CASE r.do = "load" /\ r.is = "ok"
  <2>1. loaded' = loaded \cup {m} /\ m \in sidecar[port].held
    BY <1>1, <1>2, <1>3, <1>5, LoadedAfterIs DEF Truthful
  <2>2. QED
    BY <1>4, <2>1 DEF Agree
<1>6. CASE r.do = "load" /\ r.is = "refused"
  <2>1. loaded' = LoadedAfter(call[c], "refused") /\ call[c].do = "load"
    BY <1>1, <1>6
  <2>2. loaded' = loaded
    BY <1>2, <2>1, LoadedAfterIs
  <2>3. m \notin loaded /\ (m \in sidecar[port].held => m \in sidecar[port].first)
    BY <1>3, <1>6 DEF Truthful
  <2>4. QED
    BY <2>2, <2>3 DEF Agree
<1>7. CASE r.do = "unload"
  <2>1. m \notin loaded' /\ (m \in sidecar[port].held => m \in sidecar[port].first)
    BY <1>1, <1>2, <1>3, <1>7, LoadedAfterIs DEF Truthful
  <2>2. QED
    BY <2>1 DEF Agree
<1>8. QED
  BY <1>1, <1>5, <1>6, <1>7

LEMMA SoundFetched ==
  ASSUME IInv, NEW c \in DOMAIN call, Fetched(c), NEW m \in Models
  PROVE  Sound(m)'
<1>1. TypeOK /\ Requests /\ Ports /\ Sound(m)
  BY DEF IInv
<1>2. PICK r \in wire :
        /\ r.call = c /\ r.is # "sent" /\ wire' = wire \ {r}
        /\ loaded' = LoadedAfter(call[c], r.is)
        /\ blurred' = IF /\ ForModel(call[c]) /\ call[c].alone
                         /\ r.is # "lost" /\ r.port = port /\ Listening(port)
                      THEN blurred \ {call[c].model} ELSE blurred
  BY DEF Fetched
<1>3. call[c].at = "fetch" /\ Finish(c) /\ UNCHANGED <<port, sidecar>>
  BY DEF Fetched
<1>4. call[c] \in Call /\ call[c] # Done
  BY <1>1, <1>3, AtFetch
<1>5. r.do = call[c].do /\ r.model = call[c].model
  BY <1>1, <1>2, <1>4, HasRequest
<1>6. CASE ~ForModel(call[c]) \/ m # call[c].model
  <2>1. wire' \subseteq wire /\ \A q \in wire \ wire' : q.call = c
    BY <1>2
  <2>2. m \in blurred' <=> m \in blurred
    BY <1>2, <1>6
  <2>3. PICK what : what = r.is
    OBVIOUS
  <2>4. loaded' = LoadedAfter(call[c], what)
    BY <1>2, <2>3
  <2>5. QED
    BY <1>3, <1>6, <2>1, <2>2, <2>4, OtherFetched
<1>7. CASE ForModel(call[c]) /\ m = call[c].model
  <2>1. c \in Under(m)
    BY <1>1, <1>3, <1>7, FetchUnder
  <2>2. r \in Flying(m)
    <3>1. ForModel(r)
      BY <1>5, <1>7 DEF ForModel
    <3>2. QED
      BY <1>2, <1>5, <1>7, <3>1 DEF Flying
  <2>3. Alone(m)'
    BY <1>1, <1>3, <2>1, AloneFetched DEF Sound
  <2>4. r.is \in {"sent", "ok", "refused", "lost"} /\ r.port \in Port
    BY <1>1, <1>2, WireFields DEF Requests
  <2>5. ASSUME (m \notin blurred)'
        PROVE  /\ call[c].alone /\ r.is # "lost" /\ r.port = port
               /\ sidecar[r.port].state # "gone"
    <3>1. CASE m \in blurred
      <4>1. call[c].alone /\ r.is # "lost" /\ r.port = port /\ Listening(port)
        BY <1>2, <1>7, <2>5, <3>1
      <4>2. QED
        BY <4>1 DEF Listening
    <3>2. CASE m \notin blurred
      <4>1. Clear(m)
        BY <1>1, <3>2 DEF Sound
      <4>2. QED
        BY <1>2, <2>1, <2>2, <4>1 DEF Clear
    <3>3. QED
      BY <3>1, <3>2
  <2>6. ASSUME (m \notin blurred)'
        PROVE  Clear(m)' /\ Settled(m)'
    <3>1. Under(m) = {c} /\ \A q \in Flying(m) : q.call = c
      BY <1>1, <2>1, <2>5, <2>6 DEF Sound, Alone
    <3>2. Under(m)' = {}
      BY <1>1, <1>3, <3>1, UnderFinish
    <3>3. Flying(m)' = {}
      <4>1. \A q \in Flying(m) : q = r
        BY <1>1, <1>2, <2>2, <3>1, OneRequest
      <4>2. QED
        BY <1>2, <4>1 DEF Flying
    <3>4. Clear(m)'
      BY <1>3, <2>5, <2>6, <3>2, <3>3 DEF Clear
    <3>5. Agree(m)'
      <4>1. Alone(m) /\ r.is \in {"ok", "refused"}
        BY <1>1, <1>2, <2>4, <2>5, <2>6 DEF Sound
      <4>2. QED
        BY <1>1, <1>2, <1>3, <2>1, <2>2, <2>5, <2>6, <4>1, Answers
    <3>6. QED
      BY <3>4, <3>5 DEF Settled
  <2>7. QED
    BY <2>3, <2>6 DEF Sound
<1>8. QED
  BY <1>6, <1>7
-----------------------------------------------------------------------------
(* What is known of each model: of the sidecar's steps.                    *)

LEMMA OtherAnswered ==
  ASSUME TypeOK, Requests, NEW m \in Models, Sound(m), NEW r \in wire, NEW q, Answered(r, q),
         ~ForModel(r) \/ m # r.model,
         UNCHANGED <<port, loaded, call>>, m \in blurred' <=> m \in blurred, Kept(m)
  PROVE  Sound(m)'
<1>1. Flying(m)' = Flying(m)
  BY DEF Answered, Flying, ForModel
<1>2. Under(m)' = Under(m)
  BY DEF Under
<1>3. Same(m)
  BY <1>1, <1>2 DEF Same
<1>4. QED
  BY <1>3, Elsewhere

(* The answer to a request about m is about m.                             *)
LEMMA FlyingAnswered ==
  ASSUME TypeOK, Requests, NEW r \in wire, NEW q, Answered(r, q), ForModel(r),
         UNCHANGED call
  PROVE  LET m == r.model IN
         /\ m \in Models /\ r \in Flying(m) /\ Under(m)' = Under(m)
         /\ Flying(m)' \subseteq (Flying(m) \ {r}) \cup {q}
         /\ r.call \in Under(m) => q \in Flying(m)'
<1>1. PICK m : m = r.model
  OBVIOUS
<1>2. m \in Models /\ r \in Flying(m)
  BY <1>1, WireFields DEF Flying
<1>3. Under(m)' = Under(m)
  BY DEF Under
<1>4. Flying(m)' \subseteq (Flying(m) \ {r}) \cup {q}
  BY DEF Flying, Answered
<1>5. ASSUME r.call \in Under(m)
      PROVE  q \in Flying(m)'
  <2>1. call[r.call].at = "fetch"
    BY <1>2, <1>5, UnderIs, FlyingIs DEF Call, Done
  <2>2. q \in wire' /\ ForModel(q) /\ q.model = m
    BY <1>1, <2>1 DEF Answered, ForModel
  <2>3. QED
    BY <2>2 DEF Flying
<1>6. QED
  BY <1>1, <1>2, <1>3, <1>4, <1>5

(* The answer to the only request of the only call for a model is the only *)
(* one, if it is truthful.                                                 *)
LEMMA AloneAnswered ==
  ASSUME TypeOK, NEW m \in Models, Alone(m), NEW r \in Flying(m), NEW q, Answered(r, q),
         Truthful(q, m)', UNCHANGED <<loaded, call>>, Under(m)' = Under(m),
         Flying(m)' \subseteq (Flying(m) \ {r}) \cup {q}
  PROVE  Alone(m)'
<1>1. SUFFICES ASSUME NEW c \in Under(m)', call'[c].alone
               PROVE  /\ \A d \in Under(m)' : d = c
                      /\ call'[c].at # "bridge" /\ call'[c].do = "load" => m \notin loaded'
                      /\ \A s \in Flying(m)' : s.call = c /\ Truthful(s, m)'
  BY DEF Alone
<1>2. /\ c \in Under(m) /\ \A d \in Under(m) : d = c
      /\ call[c].at # "bridge" /\ call[c].do = "load" => m \notin loaded
      /\ \A s \in Flying(m) : s.call = c
  BY <1>1 DEF Alone
<1>3. \A s \in Flying(m) : s = r
  BY <1>2, OneRequest
<1>4. \A s \in Flying(m)' : s = q
  BY <1>3
<1>5. q.call = c
  BY <1>2 DEF Answered
<1>6. QED
  BY <1>2, <1>4, <1>5

LEMMA SoundServe ==
  ASSUME IInv, NEW r \in wire, Serve(r), NEW m \in Models
  PROVE  Sound(m)'
<1>1. TypeOK /\ Requests /\ Sound(m) /\ r.port \in Port
  BY DEF IInv, Requests
<1>2. Served(r)
  BY <1>1, Serving
<1>3. PICK q : /\ Answered(r, q) /\ q.is \in {"ok", "refused"}
               /\ q.is = "ok" /\ r.do = "load" => r.model \in sidecar'[r.port].held
               /\ q.is = "refused" \/ (q.is = "ok" /\ r.do = "unload")
                    => r.model \notin sidecar'[r.port].held
  BY <1>2 DEF Served
<1>4. /\ UNCHANGED <<port, limit, loaded, call, blurred>>
      /\ sidecar[r.port].state # "gone"
      /\ \A p \in Port : sidecar'[p].state = sidecar[p].state
                        /\ sidecar'[p].first = sidecar[p].first
  BY <1>2 DEF Served, Listening
<1>5. CASE ~ForModel(r) \/ m # r.model
  <2>1. Kept(m)
    BY <1>2, <1>5 DEF Served, Kept
  <2>2. QED
    BY <1>1, <1>3, <1>4, <1>5, <2>1, OtherAnswered
<1>6. CASE ForModel(r) /\ m = r.model
  <2>1. /\ r \in Flying(m) /\ Under(m)' = Under(m)
        /\ Flying(m)' \subseteq (Flying(m) \ {r}) \cup {q}
        /\ r.call \in Under(m) => q \in Flying(m)'
    BY <1>1, <1>3, <1>4, <1>6, FlyingAnswered
  <2>2. q.call = r.call /\ q.do = r.do /\ q.port = r.port
    BY <1>3 DEF Answered
  <2>3. Truthful(q, m)'
    BY <1>3, <1>6, <2>2 DEF Truthful
  <2>4. Alone(m)'
    BY <1>1, <1>3, <1>4, <2>1, <2>3, AloneAnswered DEF Sound
  <2>5. ASSUME (m \notin blurred)'
        PROVE  Clear(m)' /\ Settled(m)'
    <3>1. Clear(m)
      BY <1>1, <1>4, <2>5 DEF Sound
    <3>2. r.call \in Under(m) /\ r.port = port
      BY <2>1, <3>1 DEF Clear
    <3>3. q \in Flying(m)' /\ q.is # "sent" /\ q.is # "lost"
      BY <1>3, <2>1, <3>2
    <3>4. ASSUME NEW s \in Flying(m)'
          PROVE  /\ s.call \in Under(m) /\ s.port = port /\ s.is # "lost"
                 /\ s.is # "sent" => sidecar'[s.port].state # "gone"
      <4>1. CASE s = q
        BY <1>1, <1>4, <2>2, <3>2, <3>3, <4>1
      <4>2. CASE s \in Flying(m)
        <5>1. s.port \in Port
          BY <1>1, <4>2 DEF Requests, Flying
        <5>2. QED
          BY <1>4, <3>1, <4>2, <5>1 DEF Clear
      <4>3. QED
        BY <2>1, <4>1, <4>2
    <3>5. Clear(m)'
      BY <1>4, <2>1, <3>1, <3>4 DEF Clear
    <3>6. Settled(m)'
      BY <3>3 DEF Settled
    <3>7. QED
      BY <3>5, <3>6
  <2>6. QED
    BY <2>4, <2>5 DEF Sound
<1>7. QED
  BY <1>5, <1>6

(* A model is blurred when a request about it is lost.                     *)
LEMMA SoundLose ==
  ASSUME IInv, NEW r \in wire, Lose(r), NEW m \in Models
  PROVE  Sound(m)'
<1>1. TypeOK /\ Requests /\ Sound(m)
  BY DEF IInv
<1>2. PICK q : Answered(r, q) /\ q.is = "lost"
  BY <1>1, Replying DEF Lose
<1>3. /\ UNCHANGED <<port, limit, loaded, call, sidecar>>
      /\ blurred' = IF ForModel(r) THEN blurred \cup {r.model} ELSE blurred
  BY DEF Lose
<1>4. CASE ~ForModel(r) \/ m # r.model
  <2>1. m \in blurred' <=> m \in blurred
    BY <1>3, <1>4
  <2>2. QED
    BY <1>1, <1>2, <1>3, <1>4, <2>1, KeptSame, OtherAnswered
<1>5. CASE ForModel(r) /\ m = r.model
  <2>1. /\ r \in Flying(m) /\ Under(m)' = Under(m)
        /\ Flying(m)' \subseteq (Flying(m) \ {r}) \cup {q}
    BY <1>1, <1>2, <1>3, <1>5, FlyingAnswered
  <2>2. Truthful(q, m)'
    BY <1>2 DEF Truthful
  <2>3. Alone(m)'
    BY <1>1, <1>2, <1>3, <2>1, <2>2, AloneAnswered DEF Sound
  <2>4. m \in blurred'
    BY <1>3, <1>5
  <2>5. QED
    BY <2>3, <2>4 DEF Sound
<1>6. QED
  BY <1>4, <1>5

(* A sidecar that comes to listen, or boots, holds what it held, and       *)
(* perhaps what it was started with.                                       *)
LEMMA SoundMoved ==
  ASSUME IInv, NEW x \in Port, NEW s, Moved(x, s), UNCHANGED blurred, NEW m \in Models,
         sidecar[x].held \subseteq s.held, s.held \subseteq sidecar[x].held \cup s.first,
         sidecar[x].first \subseteq s.first, sidecar[x].state # "gone", s.state # "gone"
  PROVE  Sound(m)'
<1>1. TypeOK /\ Requests /\ Sound(m)
  BY DEF IInv
<1>2. blurred' \subseteq Models
  BY <1>1 DEF TypeOK
<1>3. sidecar'[x] = s /\ \A p \in Port : p # x => sidecar'[p] = sidecar[p]
  BY <1>2, BaseMoved DEF IInv, Base
<1>4. Kept(m)
  BY <1>3 DEF Kept
<1>5. UNCHANGED <<port, limit, loaded, call, wire>>
  BY DEF Moved
<1>6. Same(m)
  BY <1>4, <1>5 DEF Same, Under, Flying
<1>7. QED
  BY <1>1, <1>6, Elsewhere

LEMMA BaseAlone ==
  ASSUME Base, NEW x \in Port, Listen(x) \/ Boot(x) \/ Die(x)
  PROVE  Base'
<1>1. TypeOK /\ Ports /\ blurred \subseteq Models
  BY DEF Base, TypeOK
<1>2. blurred' \subseteq Models /\ \E s : Moved(x, s)
  BY <1>1, Listens, Booting, Dies
<1>3. QED
  BY <1>2, BaseMoved

LEMMA SoundListen ==
  ASSUME IInv, NEW x \in Port, Listen(x) \/ Boot(x), NEW m \in Models
  PROVE  Sound(m)'
<1>1. TypeOK /\ Ports
  BY DEF IInv
<1>2. /\ UNCHANGED blurred /\ sidecar[x].state # "gone"
      /\ \E s : /\ Moved(x, s) /\ s.state # "gone"
               /\ sidecar[x].held \subseteq s.held
               /\ s.held \subseteq sidecar[x].held \cup s.first
               /\ sidecar[x].first \subseteq s.first
  <2>1. CASE Listen(x)
    BY <1>1, <2>1, Listens
  <2>2. CASE Boot(x)
    BY <1>1, <2>2, Booting
  <2>3. QED
    BY <2>1, <2>2
<1>3. QED
  BY <1>2, SoundMoved

(* What a sidecar answered matters no more when it is gone; and if it was  *)
(* not the page's, no answer of it can clear a model.                      *)
LEMMA SoundDie ==
  ASSUME IInv, NEW x \in Port, Die(x), NEW m \in Models
  PROVE  Sound(m)'
<1>1. TypeOK /\ Requests /\ Sound(m) /\ Base
  BY DEF IInv, Base
<1>2. blurred' = IF x = port THEN Models ELSE blurred
  BY <1>1, Dies
<1>3. PICK s : Moved(x, s) /\ s.held = {} /\ s.state = "gone"
  BY <1>1, Dies
<1>4. blurred' \subseteq Models
  BY <1>1, <1>2 DEF TypeOK
<1>5. sidecar'[x] = s /\ \A p \in Port : p # x => sidecar'[p] = sidecar[p]
  BY <1>1, <1>3, <1>4, BaseMoved
<1>6. UNCHANGED <<port, limit, loaded, call, wire>>
  BY <1>3 DEF Moved
<1>7. Under(m)' = Under(m) /\ Flying(m)' = Flying(m)
  BY <1>6 DEF Under, Flying
<1>8. \A r \in Flying(m) : r.port \in Port
  BY <1>1 DEF Flying, Requests
<1>9. Alone(m)'
  <2>1. \A r \in Flying(m) : Truthful(r, m) => Truthful(r, m)'
    BY <1>3, <1>5, <1>8 DEF Truthful
  <2>2. QED
    BY <1>1, <1>6, <1>7, <2>1 DEF Sound, Alone
<1>10. ASSUME (m \notin blurred)'
       PROVE  Clear(m)' /\ Settled(m)'
  <2>1. x # port /\ Clear(m) /\ Settled(m)
    BY <1>1, <1>2, <1>10 DEF Sound
  <2>2. port = 0 \/ (port \in Port /\ sidecar'[port] = sidecar[port])
    BY <1>1, <1>5, <2>1, PortIs
  <2>3. Clear(m)'
    BY <1>6, <1>7, <1>8, <2>1, <2>2 DEF Clear, Port
  <2>4. Agree(m) => Agree(m)'
    BY <1>6, <2>2 DEF Agree
  <2>5. Settled(m)'
    BY <1>7, <2>1, <2>4 DEF Settled
  <2>6. QED
    BY <2>3, <2>5
<1>11. QED
  BY <1>9, <1>10 DEF Sound
-----------------------------------------------------------------------------
(* The invariant.                                                          *)

LEMMA InitIInv ==
  ASSUME Init
  PROVE  IInv
<1>1. PICK s : s = [state |-> "none", held |-> {}, limit |-> MaxModels, first |-> {}]
  OBVIOUS
<1>2. TypeOK /\ \A p \in Port : sidecar[p] = s
  <2>1. MaxModels \in 1 .. MaxModels /\ 0 \in 0 .. MaxPort /\ Cardinality({}) = 0
        /\ Len(<<>>) = 0 /\ <<>> \in Seq(Call \cup {Done})
    BY FS_EmptySet DEF DesktopAssumption
  <2>2. s \in Sidecar /\ Cardinality(s.held) <= MaxModels
    BY <1>1, <2>1 DEF Sidecar, DesktopAssumption
  <2>3. sidecar = [p \in Port |-> s]
    BY <1>1 DEF Init
  <2>4. sidecar \in [Port -> Sidecar] /\ \A p \in Port : sidecar[p] = s
    BY <2>2, <2>3
  <2>5. call \in Seq(Call \cup {Done}) /\ Len(call) <= MaxCalls
    BY <2>1 DEF Init, DesktopAssumption
  <2>6. \A p \in Port : Cardinality(sidecar[p].held) <= MaxModels
    BY <2>2, <2>4
  <2>7. QED
    BY <2>1, <2>4, <2>5, <2>6 DEF Init, TypeOK
<1>3. DOMAIN call = {} /\ wire = {}
  BY DEF Init
<1>4. Requests /\ Ports
  BY <1>1, <1>2, <1>3 DEF Init, Requests, Ports, Unknown, Started
<1>5. ASSUME NEW m \in Models
      PROVE  Sound(m)
  <2>1. Under(m) = {} /\ Flying(m) = {}
    BY <1>3 DEF Under, Flying
  <2>2. Alone(m)
    BY <2>1 DEF Alone
  <2>3. Clear(m) /\ Settled(m)
    BY <2>1 DEF Init, Clear, Settled, Agree
  <2>4. QED
    BY <2>2, <2>3 DEF Sound
<1>6. QED
  BY <1>2, <1>4, <1>5 DEF IInv

LEMMA BeginsIInv ==
  ASSUME IInv, Begins
  PROVE  IInv'
<1>1. TypeOK
  BY DEF IInv
<1>2. UNCHANGED limit => limit' \in 1 .. MaxModels
  BY <1>1 DEF TypeOK
<1>3. ASSUME NEW m \in Models, LoadModel(m)
      PROVE  IInv'
  <2>1. UNCHANGED <<port, limit, loaded>>
    BY <1>3 DEF LoadModel
  <2>2. CASE Begin(NewCall("load", "bridge", m, 1)) /\ UNCHANGED wire
    BY <2>1, <2>2, BeginWaiting
  <2>3. CASE /\ Begin(NewCall("load", "memory", m, 1)) /\ UNCHANGED wire
             /\ port # 0 /\ m \notin loaded
    BY <2>1, <2>3, BeginWaiting
  <2>4. CASE BeginDone
    BY <1>2, <2>1, <2>4, BeginNothing
  <2>5. QED
    BY <1>3, <2>2, <2>3, <2>4 DEF LoadModel
<1>4. ASSUME NEW m \in Models, UnloadModel(m)
      PROVE  IInv'
  <2>1. UNCHANGED <<port, limit, loaded>>
    BY <1>4 DEF UnloadModel
  <2>2. CASE BeginFetch("unload", m, 1) /\ port # 0
    <3>1. 1 \in 1 .. MaxModels
      BY DEF DesktopAssumption
    <3>2. QED
      BY <1>2, <2>1, <2>2, <3>1, BeginSending
  <2>3. CASE BeginDone
    BY <1>2, <2>1, <2>3, BeginNothing
  <2>4. QED
    BY <1>4, <2>2, <2>3 DEF UnloadModel
<1>5. ASSUME NEW do \in {"load", "server"}, NEW m \in Models, AskBridge(do, m)
      PROVE  IInv'
  <2>1. Begin(NewCall(do, "bridge", m, 1)) /\ UNCHANGED <<port, limit, loaded, wire>>
    BY <1>5 DEF AskBridge
  <2>2. QED
    BY <2>1, BeginWaiting
<1>6. AnyModel \in Models
  BY DEF AnyModel, DesktopAssumption
<1>7. ASSUME NEW n \in Limits, SetContextLimit(n)
      PROVE  IInv'
  <2>1. n \in 1 .. MaxModels /\ limit' = n /\ UNCHANGED <<port, loaded>>
    BY <1>7 DEF SetContextLimit, DesktopAssumption
  <2>2. CASE BeginFetch("limit", AnyModel, n) /\ port # 0
    BY <1>6, <2>1, <2>2, BeginSending
  <2>3. CASE BeginDone
    BY <2>1, <2>3, BeginNothing
  <2>4. QED
    BY <1>7, <2>2, <2>3 DEF SetContextLimit
<1>8. QED
  BY <1>3, <1>4, <1>5, <1>6, <1>7 DEF Begins

LEMMA NextIInv ==
  ASSUME IInv, [Next]_vars
  PROVE  IInv'
<1>1. Base /\ (Base' /\ (\A m \in Models : Sound(m)') => IInv')
  BY DEF IInv, Base
<1>2. CASE Begins
  BY <1>2, BeginsIInv
<1>3. ASSUME NEW c \in DOMAIN call, GoesOn(c)
      PROVE  IInv'
  <2>1. CASE BridgeAnswers(c)
    BY <1>1, <2>1, BaseBridge, SoundBridge
  <2>2. CASE MemoryRead(c)
    BY <1>1, <2>2, BaseMemory, SoundMemory
  <2>3. CASE Fetched(c)
    BY <1>1, <2>3, BaseFetched, SoundFetched
  <2>4. CASE TimedOut(c)
    BY <1>1, <2>4, BaseFetched, SoundTimedOut
  <2>5. QED
    BY <1>3, <2>1, <2>2, <2>3, <2>4 DEF GoesOn
<1>4. ASSUME NEW r \in wire, Serve(r)
      PROVE  IInv'
  BY <1>1, <1>4, BaseServe, SoundServe
<1>5. ASSUME NEW r \in wire, Lose(r)
      PROVE  IInv'
  BY <1>1, <1>5, BaseLose, SoundLose
<1>6. ASSUME NEW p \in Port, Listen(p) \/ Boot(p)
      PROVE  IInv'
  BY <1>1, <1>6, BaseAlone, SoundListen
<1>7. ASSUME NEW p \in Port, Die(p)
      PROVE  IInv'
  BY <1>1, <1>7, BaseAlone, SoundDie
<1>8. CASE UNCHANGED vars
  <2>1. Base'
    BY <1>1, <1>8 DEF vars, Base, TypeOK, Requests, Ports, Unknown, Started
  <2>2. ASSUME NEW m \in Models
        PROVE  Sound(m)'
    <3>1. Same(m)
      BY <1>8, KeptSame DEF vars, Same, Under, Flying
    <3>2. QED
      BY <3>1, Elsewhere DEF IInv
  <2>3. QED
    BY <1>1, <2>1, <2>2
<1>9. QED
  BY <1>2, <1>3, <1>4, <1>5, <1>6, <1>7, <1>8 DEF Next

(* Whatever calls are made, and however their requests are answered, lost, *)
(* timed out or overtaken by a move to another sidecar: each request is    *)
(* its call's, to some sidecar; and of each model, a call still alone has  *)
(* the only request, and what its answer says is so.                       *)
THEOREM Invariant == Spec => []IInv
<1>1. Init => IInv
  BY InitIInv
<1>2. IInv /\ [Next]_vars => IInv'
  BY NextIInv
<1>3. QED
  BY <1>1, <1>2, PTL DEF Spec

(* The variables keep their types: a call has one request on the wire at   *)
(* most, and no sidecar ever holds more models than MAX_MODELS, in       *)
(* whatever order limits reach it and whatever the page admits.            *)
THEOREM TypeCorrect == Spec => []TypeOK
<1>1. IInv => TypeOK
  BY DEF IInv
<1>2. QED
  BY <1>1, Invariant, PTL

(* When no call is under way for a model and the last that was made alone  *)
(* was answered by the page's sidecar, which nothing happened to since,    *)
(* the page's list and that sidecar agree on the model                     *)
(* (sidecarLoadedModels, registry_load_model), whatever the calls for      *)
(* other models and any other sidecars do.                                 *)
THEOREM NamesAgreeWhenQuiet == Spec => []QuietNamesAgree
<1>1. ASSUME IInv
      PROVE  QuietNamesAgree
  <2>1. SUFFICES ASSUME NEW m \in Models \ blurred, Under(m) = {}
                 PROVE  Agree(m)
    BY DEF QuietNamesAgree, Agree
  <2>2. Clear(m) /\ Settled(m)
    BY <1>1, <2>1 DEF IInv, Sound
  <2>3. Flying(m) = {}
    BY <2>1, <2>2 DEF Clear
  <2>4. QED
    BY <2>2, <2>3 DEF Settled
<1>2. IInv => QuietNamesAgree
  BY <1>1
<1>3. QED
  BY <1>2, Invariant, PTL
=============================================================================
