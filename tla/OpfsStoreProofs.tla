-------------------------- MODULE OpfsStoreProofs ---------------------------
(***************************************************************************)
(* Proofs about OpfsStore, for any models, colliding or not, and any number*)
(* of calls: types and the exclusion of sync access handles; entries are of*)
(* models once stored whole; entries are kept; and entries have their file.*)
(***************************************************************************)
EXTENDS OpfsStore, SequenceTheorems, TLAPS

USE StoreAssumption

-----------------------------------------------------------------------------
(* Paths and calls.                                                        *)

(* A model that does not collide has its path for itself.                  *)
LEMMA OwnPath ==
  ASSUME NEW id \in Ids, id \notin Colliding, NEW x \in Ids
  PROVE  Path(id) = id /\ (Path(x) = id => x = id)
<1>1. Path(id) = id
  BY DEF Path
<1>2. CASE x \in Colliding
  <2>1. (CHOOSE y \in Colliding : TRUE) \in Colliding
    BY <1>2
  <2>2. QED
    BY <1>1, <1>2, <2>1 DEF Path
<1>3. CASE x \notin Colliding
  BY <1>1, <1>3 DEF Path
<1>4. QED
  BY <1>2, <1>3

LEMMA PathOfId ==
  ASSUME NEW id \in Ids
  PROVE  Path(id) \in {Path(x) : x \in Ids}
  OBVIOUS

LEMMA CallFields ==
  ASSUME NEW k \in Call \cup {Done}
  PROVE  /\ k # Done => k \in Call
         /\ k = Done <=> k.at = "done"
         /\ k \in Call =>
              /\ k # Done
              /\ k.op \in {"ensure", "remove", "open"} /\ k.id \in Ids
              /\ k.at \in Place /\ k.locks \in BOOLEAN /\ k.seen \in SUBSET Ids
<1>1. k \in Call => k.at \in Place
  BY DEF Call
<1>2. "done" \notin Place
  BY DEF Place
<1>3. Done.at = "done"
  BY DEF Done
<1>4. QED
  BY <1>1, <1>2, <1>3 DEF Call

(* A step of a call: the others stay where they are.                       *)
LEMMA CallMoves ==
  ASSUME call \in Seq(Call \cup {Done}), NEW c \in DOMAIN call,
         NEW k \in Call \cup {Done}, call' = [call EXCEPT ![c] = k]
  PROVE  /\ call' \in Seq(Call \cup {Done})
         /\ DOMAIN call' = DOMAIN call /\ Len(call') = Len(call)
         /\ call'[c] = k
         /\ \A d \in DOMAIN call \ {c} : call'[d] = call[d]
<1>1. call' \in [1 .. Len(call) -> Call \cup {Done}]
  OBVIOUS
<1>2. QED
  BY <1>1

LEMMA CallGoes ==
  ASSUME call \in Seq(Call \cup {Done}), NEW c \in DOMAIN call, call[c] \in Call,
         NEW at \in Place, Goto(c, at)
  PROVE  /\ call' \in Seq(Call \cup {Done})
         /\ DOMAIN call' = DOMAIN call /\ Len(call') = Len(call)
         /\ call'[c] = [call[c] EXCEPT !.at = at]
         /\ call'[c] \in Call
         /\ call'[c].at = at /\ call'[c].op = call[c].op /\ call'[c].id = call[c].id
         /\ call'[c].locks = call[c].locks /\ call'[c].seen = call[c].seen
         /\ \A d \in DOMAIN call \ {c} : call'[d] = call[d]
<1>1. [call[c] EXCEPT !.at = at] \in Call
  BY DEF Call
<1>2. call' = [call EXCEPT ![c] = [call[c] EXCEPT !.at = at]]
  BY DEF Goto
<1>3. call'[c] = [call[c] EXCEPT !.at = at]
  BY <1>1, <1>2, CallMoves
<1>4. QED
  BY <1>1, <1>2, <1>3, CallMoves DEF Call

LEMMA CallFinishes ==
  ASSUME call \in Seq(Call \cup {Done}), NEW c \in DOMAIN call, Finish(c)
  PROVE  /\ call' \in Seq(Call \cup {Done})
         /\ DOMAIN call' = DOMAIN call /\ Len(call') = Len(call)
         /\ call'[c] = Done
         /\ \A d \in DOMAIN call \ {c} : call'[d] = call[d]
  BY CallMoves DEF Finish

LEMMA CallBegins ==
  ASSUME call \in Seq(Call \cup {Done}), NEW k \in Call, call' = Append(call, k)
  PROVE  /\ call' \in Seq(Call \cup {Done})
         /\ Len(call') = Len(call) + 1 /\ Len(call) \in Nat
         /\ DOMAIN call' = DOMAIN call \cup {Len(call')}
         /\ Len(call') \notin DOMAIN call
         /\ call'[Len(call')] = k
         /\ \A d \in DOMAIN call : call'[d] = call[d]
<1>1. /\ call' \in Seq(Call \cup {Done})
      /\ Len(call') = Len(call) + 1 /\ Len(call) \in Nat
      /\ call'[Len(call')] = k
      /\ \A d \in 1 .. Len(call) : call'[d] = call[d]
  BY AppendProperties, LenProperties
<1>2. DOMAIN call = 1 .. Len(call) /\ DOMAIN call' = 1 .. Len(call')
  BY <1>1, LenProperties
<1>3. QED
  BY <1>1, <1>2

(* What a step does to its call, and leaves of the others.                 *)
Others(c) ==
  /\ call' \in Seq(Call \cup {Done}) /\ Len(call') = Len(call)
  /\ DOMAIN call' = DOMAIN call
  /\ \A d \in DOMAIN call \ {c} : call'[d] = call[d]
To(c, at) ==
  /\ call'[c] \in Call
  /\ call'[c].at = at /\ call'[c].op = call[c].op /\ call'[c].id = call[c].id
Keeps(c) == call'[c].locks = call[c].locks /\ call'[c].seen = call[c].seen

LEMMA Going ==
  ASSUME TypeOK, NEW c \in DOMAIN call, call[c].at \in Place, NEW at \in Place, Goto(c, at)
  PROVE  Others(c) /\ To(c, at) /\ Keeps(c)
<1>1. call[c] \in Call
  BY CallFields DEF TypeOK, Place
<1>2. QED
  BY <1>1, CallGoes DEF TypeOK, Others, To, Keeps

LEMMA Finishing ==
  ASSUME TypeOK, NEW c \in DOMAIN call, Finish(c)
  PROVE  Others(c) /\ call'[c] = Done
  BY CallFinishes DEF TypeOK, Others

(* A step goes on to one place, or ends the call.                          *)
LEMMA LookMoves ==
  ASSUME TypeOK, NEW c \in DOMAIN call, Look(c)
  PROVE  /\ Others(c)
         /\ \/ call'[c] = Done
            \/ /\ Keeps(c)
               /\ \/ /\ call[c].op = "ensure" /\ call[c].id \in manifest /\ To(c, "read")
                  \/ /\ call[c].op = "ensure" /\ call[c].id \notin manifest /\ To(c, "fetch")
                  \/ /\ call[c].op = "remove" /\ call[c].id \in manifest /\ To(c, "erase")
                  \/ /\ call[c].op = "open" /\ call[c].id \in manifest /\ To(c, "open")
<1>1. call[c].at \in Place /\ {"read", "fetch", "erase", "open"} \subseteq Place
  BY DEF Look, Place
<1>2. CASE Finish(c)
  BY <1>2, Finishing
<1>3. CASE call[c].op = "ensure" /\ Goto(c, IF call[c].id \in manifest THEN "read" ELSE "fetch")
  <2>1. CASE call[c].id \in manifest
    BY <1>1, <1>3, <2>1, Going
  <2>2. CASE call[c].id \notin manifest
    BY <1>1, <1>3, <2>2, Going
  <2>3. QED
    BY <2>1, <2>2
<1>4. CASE call[c].op = "remove" /\ call[c].id \in manifest /\ Goto(c, "erase")
  BY <1>1, <1>4, Going
<1>5. CASE call[c].op = "open" /\ call[c].id \in manifest /\ Goto(c, "open")
  BY <1>1, <1>5, Going
<1>6. QED
  BY <1>2, <1>3, <1>4, <1>5 DEF Look

LEMMA FetchMoves ==
  ASSUME TypeOK, NEW c \in DOMAIN call, Fetch(c)
  PROVE  /\ Others(c)
         /\ \/ call'[c] = Done /\ file' = file
            \/ To(c, "create") /\ Keeps(c)
  BY Going, Finishing DEF Fetch, Place

LEMMA CreateMoves ==
  ASSUME TypeOK, NEW c \in DOMAIN call, CreateWritable(c)
  PROVE  /\ Others(c)
         /\ \/ call'[c] = Done
            \/ To(c, "write") /\ Keeps(c) /\ ~Locked(Path(call[c].id))
  BY Going, Finishing DEF CreateWritable, Place

LEMMA WriteAllMoves ==
  ASSUME TypeOK, NEW c \in DOMAIN call, WriteAll(c)
  PROVE  Others(c) /\ To(c, "read") /\ Keeps(c)
  BY Going DEF WriteAll, Place

LEMMA EraseMoves ==
  ASSUME TypeOK, NEW c \in DOMAIN call, Erase(c)
  PROVE  Others(c) /\ To(c, "read") /\ Keeps(c)
  BY Going DEF Erase, Place

LEMMA OpenMoves ==
  ASSUME TypeOK, NEW c \in DOMAIN call, Open(c)
  PROVE  /\ Others(c)
         /\ \/ call'[c] = Done
            \/ /\ To(c, "read") /\ call'[c].seen = call[c].seen
               /\ \/ call'[c].locks = call[c].locks
                  \/ ~Locked(Path(call[c].id)) /\ ~Written(Path(call[c].id))
<1>1. call[c].at \in Place /\ "read" \in Place
  BY DEF Open, Place
<1>2. CASE Finish(c)
  BY <1>2, Finishing
<1>3. CASE Goto(c, "read")
  BY <1>1, <1>3, Going DEF Keeps
<1>4. CASE /\ ~Locked(Path(call[c].id)) /\ ~Written(Path(call[c].id))
           /\ call' = [call EXCEPT ![c].at = "read", ![c].locks = TRUE]
  <2>1. call[c] \in Call
    BY <1>1, CallFields DEF TypeOK, Place
  <2> DEFINE k == [call[c] EXCEPT !.at = "read", !.locks = TRUE]
  <2>2. k \in Call
    BY <1>1, <2>1 DEF Call
  <2>3. call' = [call EXCEPT ![c] = k]
    BY <1>4
  <2>4. /\ k.at = "read" /\ k.op = call[c].op /\ k.id = call[c].id
        /\ k.seen = call[c].seen
    BY <2>1 DEF Call
  <2> HIDE DEF k
  <2>5. Others(c) /\ call'[c] = k
    BY <2>2, <2>3, CallMoves DEF TypeOK, Others
  <2>6. QED
    BY <1>4, <2>2, <2>4, <2>5 DEF To
<1>5. QED
  BY <1>2, <1>3, <1>4 DEF Open

LEMMA ReadMoves ==
  ASSUME TypeOK, NEW c \in DOMAIN call, ReadManifest(c)
  PROVE  /\ Others(c)
         /\ \/ call'[c] = Done /\ call[c].op = "remove" /\ call[c].id \notin manifest
            \/ To(c, "save") /\ call'[c].locks = call[c].locks /\ call'[c].seen = manifest
<1>1. call[c].at \in Place /\ "save" \in Place
  BY DEF ReadManifest, Place
<1>2. CASE Finish(c) /\ call[c].op = "remove" /\ call[c].id \notin manifest
  BY <1>2, Finishing
<1>3. CASE call' = [call EXCEPT ![c].at = "save", ![c].seen = manifest]
  <2>1. call[c] \in Call
    BY <1>1, CallFields DEF TypeOK, Place
  <2> DEFINE k == [call[c] EXCEPT !.at = "save", !.seen = manifest]
  <2>2. k \in Call
    BY <1>1, <2>1 DEF Call, TypeOK
  <2>3. call' = [call EXCEPT ![c] = k]
    BY <1>3
  <2>4. /\ k.at = "save" /\ k.op = call[c].op /\ k.id = call[c].id
        /\ k.locks = call[c].locks /\ k.seen = manifest
    BY <2>1 DEF Call
  <2> HIDE DEF k
  <2>5. Others(c) /\ call'[c] = k
    BY <2>2, <2>3, CallMoves DEF TypeOK, Others
  <2>6. QED
    BY <2>2, <2>4, <2>5 DEF To
<1>4. QED
  BY <1>2, <1>3 DEF ReadManifest

LEMMA BeginMoves ==
  ASSUME TypeOK, NEW op \in {"ensure", "remove", "open"}, NEW id \in Ids, Begin(op, id)
  PROVE  LET n == Len(call') IN
         /\ call' \in Seq(Call \cup {Done})
         /\ n = Len(call) + 1 /\ n <= MaxCalls
         /\ DOMAIN call' = DOMAIN call \cup {n} /\ n \notin DOMAIN call
         /\ call'[n] \in Call /\ call'[n].op = op /\ call'[n].id = id
         /\ call'[n].at = "look" /\ ~call'[n].locks /\ call'[n].seen = {}
         /\ \A d \in DOMAIN call : call'[d] = call[d]
<1> DEFINE k == [op |-> op, id |-> id, at |-> "look", locks |-> FALSE, seen |-> {}]
<1>1. k \in Call
  BY DEF Call, Place
<1>2. call' = Append(call, k)
  BY DEF Begin
<1>3. /\ k.op = op /\ k.id = id /\ k.at = "look" /\ ~k.locks /\ k.seen = {}
  OBVIOUS
<1> HIDE DEF k
<1>4. QED
  BY <1>1, <1>2, <1>3, CallBegins DEF TypeOK, Begin

-----------------------------------------------------------------------------
(* Types, and the exclusion of handles.                                    *)

Exclusive ==
  \A c, d \in DOMAIN call :
    /\ c # d /\ call[c] # Done /\ call[d] # Done
    /\ call[c].locks /\ Path(call[c].id) = Path(call[d].id)
    => ~call[d].locks /\ call[d].at # "write"

(* A call may begin to write when nobody has a handle, and gets a handle   *)
(* when nobody has one or writes.                                          *)
LEMMA StepExclusive ==
  ASSUME TypeOK, NEW c \in DOMAIN call, call[c] \in Call, Others(c),
         \/ call'[c] = Done
         \/ \E at \in Place :
              /\ To(c, at)
              /\ at = "write" => call'[c].locks = call[c].locks /\ ~Locked(Path(call[c].id))
              /\ \/ call'[c].locks = call[c].locks
                 \/ ~Locked(Path(call[c].id)) /\ ~Written(Path(call[c].id))
  PROVE  Exclusive'
<1> SUFFICES ASSUME NEW x \in DOMAIN call', NEW y \in DOMAIN call', x # y,
                    call'[x] # Done, call'[y] # Done, call'[x].locks,
                    Path(call'[x].id) = Path(call'[y].id)
             PROVE  ~call'[y].locks /\ call'[y].at # "write"
  BY DEF Exclusive, Path
<1>1. x \in DOMAIN call /\ y \in DOMAIN call
  BY DEF Others
<1>2. Exclusive
  BY DEF TypeOK, Exclusive
<1>3. /\ call[x] \in Call \cup {Done} /\ call[y] \in Call \cup {Done}
      /\ call[c] # Done
  BY <1>1, CallFields DEF TypeOK
<1>4. CASE x # c /\ y # c
  BY <1>1, <1>2, <1>4 DEF Others, Exclusive
<1>5. CASE x = c
  <2>1. call'[y] = call[y] /\ call[y] # Done
    BY <1>1, <1>5 DEF Others
  <2>2. call'[c].id = call[c].id
    BY <1>5 DEF To
  <2>3. CASE call'[c].locks = call[c].locks
    BY <1>1, <1>2, <1>3, <1>5, <2>1, <2>2, <2>3 DEF Exclusive
  <2>4. CASE ~Locked(Path(call[c].id)) /\ ~Written(Path(call[c].id))
    BY <1>1, <1>5, <2>1, <2>2, <2>4 DEF Locked, Written, Active
  <2>5. QED
    BY <1>5, <2>3, <2>4
<1>6. CASE y = c
  <2>1. call'[x] = call[x] /\ call[x] # Done /\ x # c
    BY <1>1, <1>6 DEF Others
  <2>2. call'[c].id = call[c].id
    BY <1>6 DEF To
  <2>3. Locked(Path(call[c].id))
    BY <1>1, <1>6, <2>1, <2>2 DEF Locked, Active
  <2>4. call'[c].locks = call[c].locks /\ call'[c].at # "write"
    BY <1>6, <2>3 DEF To
  <2>5. ~call[c].locks
    BY <1>1, <1>2, <1>3, <1>6, <2>1, <2>2 DEF Exclusive
  <2>6. QED
    BY <1>6, <2>4, <2>5
<1>7. QED
  BY <1>4, <1>5, <1>6

LEMMA InitTypeOK == Init => TypeOK
<1> SUFFICES ASSUME Init PROVE TypeOK
  OBVIOUS
<1>1. call \in Seq(Call \cup {Done}) /\ Len(call) = 0 /\ DOMAIN call = {}
  BY EmptySeq DEF Init
<1>2. file \in [{Path(id) : id \in Ids} -> Ids \cup {"part", "absent"}]
  BY DEF Init
<1>3. Len(call) <= MaxCalls
  BY <1>1
<1>4. \A c, d \in DOMAIN call : FALSE
  BY <1>1
<1>5. QED
  BY <1>1, <1>2, <1>3, <1>4 DEF Init, TypeOK

LEMMA StepTypeOK ==
  ASSUME TypeOK, NEW c \in DOMAIN call, Step(c)
  PROVE  TypeOK'
<1> DEFINE Rest ==
      /\ manifest \subseteq Ids
      /\ file \in [{Path(id) : id \in Ids} -> Ids \cup {"part", "absent"}]
      /\ written \subseteq Ids /\ kept \subseteq Ids /\ torn \subseteq Ids
      /\ alone \in BOOLEAN /\ broken \in BOOLEAN /\ removals \in BOOLEAN
<1>1. TypeOK <=> /\ Rest /\ Exclusive
                 /\ call \in Seq(Call \cup {Done}) /\ Len(call) <= MaxCalls
  BY DEF TypeOK, Exclusive
<1>2. TypeOK' <=> /\ Rest' /\ Exclusive'
                  /\ call' \in Seq(Call \cup {Done}) /\ Len(call') <= MaxCalls
  BY DEF TypeOK, Exclusive
<1>3. call[c] \in Call
  BY CallFields DEF TypeOK, Step, Look, Fetch, CreateWritable, WriteAll, WriteBreaks,
        Erase, Open, ReadManifest, SaveManifest, Vanish, Active
<1>4. /\ call[c].id \in Ids /\ Path(call[c].id) \in {Path(id) : id \in Ids}
      /\ call[c].seen \in SUBSET Ids
  BY <1>3, CallFields
<1>5. ASSUME Others(c), Rest',
             \/ call'[c] = Done
             \/ \E at \in Place :
                  /\ To(c, at)
                  /\ at = "write" => call'[c].locks = call[c].locks /\ ~Locked(Path(call[c].id))
                  /\ \/ call'[c].locks = call[c].locks
                     \/ ~Locked(Path(call[c].id)) /\ ~Written(Path(call[c].id))
      PROVE  TypeOK'
  BY <1>1, <1>2, <1>3, <1>5, StepExclusive DEF Others
<1>6. {"read", "fetch", "erase", "open", "create", "write", "save"} \subseteq Place
  BY DEF Place
<1> HIDE DEF Rest
<1>7. CASE Look(c)
  <2>1. Rest'
    BY <1>1, <1>7 DEF Rest, Look, history
  <2>2. QED
    BY <1>5, <1>6, <1>7, <2>1, LookMoves DEF Keeps
<1>8. CASE Fetch(c)
  <2>1. Rest'
    BY <1>1, <1>4, <1>8 DEF Rest, Fetch, history
  <2>2. QED
    BY <1>5, <1>6, <1>8, <2>1, FetchMoves DEF Keeps
<1>9. CASE CreateWritable(c)
  <2>1. Rest'
    BY <1>1, <1>9 DEF Rest, CreateWritable, history
  <2>2. QED
    BY <1>5, <1>6, <1>9, <2>1, CreateMoves DEF Keeps
<1>10. CASE WriteAll(c)
  <2>1. Rest'
    BY <1>1, <1>4, <1>10 DEF Rest, WriteAll
  <2>2. QED
    BY <1>5, <1>6, <1>10, <2>1, WriteAllMoves DEF Keeps
<1>11. CASE WriteBreaks(c)
  <2>1. Rest'
    BY <1>1, <1>4, <1>11 DEF Rest, WriteBreaks
  <2>2. QED
    BY <1>5, <1>11, <2>1, Finishing DEF WriteBreaks
<1>12. CASE Erase(c)
  <2>1. Rest'
    BY <1>1, <1>4, <1>12 DEF Rest, Erase, history
  <2>2. QED
    BY <1>5, <1>6, <1>12, <2>1, EraseMoves DEF Keeps
<1>13. CASE Open(c)
  <2>1. Rest'
    BY <1>1, <1>13 DEF Rest, Open, history
  <2>2. QED
    BY <1>5, <1>6, <1>13, <2>1, OpenMoves
<1>14. CASE ReadManifest(c)
  <2>1. Rest'
    BY <1>1, <1>14 DEF Rest, ReadManifest, history
  <2>2. QED
    BY <1>5, <1>6, <1>14, <2>1, ReadMoves
<1>15. CASE SaveManifest(c)
  <2>1. Rest'
    BY <1>1, <1>4, <1>15 DEF Rest, SaveManifest
  <2>2. QED
    BY <1>5, <1>15, <2>1, Finishing DEF SaveManifest
<1>16. CASE Vanish(c)
  <2>1. Rest'
    BY <1>1, <1>4, <1>16 DEF Rest, Vanish
  <2>2. QED
    BY <1>5, <1>16, <2>1, Finishing DEF Vanish
<1>17. QED
  BY <1>7, <1>8, <1>9, <1>10, <1>11, <1>12, <1>13, <1>14, <1>15, <1>16 DEF Step

LEMMA NextTypeOK == TypeOK /\ [Next]_vars => TypeOK'
<1> SUFFICES ASSUME TypeOK, [Next]_vars PROVE TypeOK'
  OBVIOUS
<1>1. ASSUME NEW op \in {"ensure", "remove", "open"}, NEW id \in Ids, Begin(op, id)
      PROVE  TypeOK'
  <2>1. /\ call' \in Seq(Call \cup {Done}) /\ Len(call') <= MaxCalls
        /\ \A d \in DOMAIN call' :
             \/ d \in DOMAIN call /\ call'[d] = call[d]
             \/ ~call'[d].locks /\ call'[d].at = "look"
    BY <1>1, BeginMoves
  <2>2. Exclusive'
    <3> SUFFICES ASSUME NEW x \in DOMAIN call', NEW y \in DOMAIN call', x # y,
                        call'[x] # Done, call'[y] # Done, call'[x].locks,
                        Path(call'[x].id) = Path(call'[y].id)
                 PROVE  ~call'[y].locks /\ call'[y].at # "write"
      BY DEF Exclusive, Path
    <3>1. x \in DOMAIN call /\ call'[x] = call[x]
      BY <2>1
    <3>2. CASE y \in DOMAIN call /\ call'[y] = call[y]
      BY <3>1, <3>2 DEF TypeOK
    <3>3. CASE ~call'[y].locks /\ call'[y].at = "look"
      BY <3>3
    <3>4. QED
      BY <2>1, <3>2, <3>3
  <2>3. /\ manifest' = manifest /\ file' = file /\ written' = written
        /\ broken' = broken /\ torn' = torn
        /\ kept' \subseteq kept /\ alone' \in BOOLEAN /\ removals' \in BOOLEAN
    BY <1>1 DEF Begin
  <2>4. QED
    BY <2>1, <2>2, <2>3 DEF TypeOK, Exclusive
<1>2. ASSUME NEW c \in DOMAIN call, Step(c) PROVE TypeOK'
  BY <1>2, StepTypeOK
<1>3. CASE UNCHANGED vars
  BY <1>3 DEF vars, TypeOK
<1>4. QED
  BY <1>1, <1>2, <1>3 DEF Next

(* Types; and a sync access handle never coexists with another, nor with a *)
(* stream that is written, on one file.                                    *)
THEOREM TypeCorrect == Spec => []TypeOK
  BY InitTypeOK, NextTypeOK, PTL DEF Spec

-----------------------------------------------------------------------------
(* Entries are of models that were stored whole.                           *)

(* Where a call can be; a download or an open that goes on to the manifest *)
(* is of a model that was stored whole.                                    *)
Placed(k) ==
  /\ k.op = "remove" => k.at \in {"look", "erase", "read", "save"}
  /\ k.op = "ensure" => k.at \in {"look", "fetch", "create", "write", "read", "save"}
  /\ k.op = "open" => k.at \in {"look", "open", "read", "save"}
Storing(k) == k.op # "remove" /\ k.at \in {"open", "read", "save"}
CallWhole(k) == Placed(k) /\ k.seen \subseteq written /\ (Storing(k) => k.id \in written)
WInv == manifest \subseteq written /\ \A c \in DOMAIN call : Active(c) => CallWhole(call[c])

LEMMA StepMoves ==
  ASSUME TypeOK, NEW c \in DOMAIN call, Step(c)
  PROVE  /\ Others(c) /\ Active(c) /\ call[c] \in Call
         /\ call'[c] # Done => call'[c] \in Call /\ call'[c].op = call[c].op
                                                 /\ call'[c].id = call[c].id
<1>1. call[c].at \in Place \/ Active(c)
  BY DEF Step, Look, Fetch, CreateWritable, WriteAll, WriteBreaks, Erase, Open,
         ReadManifest, SaveManifest, Vanish, Place
<1>2. Active(c) /\ call[c] \in Call
  BY <1>1, CallFields DEF TypeOK, Active, Place
<1>3. Others(c) /\ (call'[c] = Done \/ \E at : To(c, at))
  BY LookMoves, FetchMoves, CreateMoves, WriteAllMoves, EraseMoves, OpenMoves, ReadMoves,
     Finishing DEF Step, WriteBreaks, SaveManifest, Vanish
<1>4. QED
  BY <1>2, <1>3 DEF To

LEMMA InitWhole == Init => WInv
<1> SUFFICES ASSUME Init PROVE WInv
  OBVIOUS
<1>1. DOMAIN call = {}
  BY EmptySeq DEF Init
<1>2. QED
  BY <1>1 DEF Init, WInv

LEMMA NextWhole ==
  ASSUME TypeOK, WInv, [Next]_vars
  PROVE  WInv'
<1>1. ASSUME NEW op \in {"ensure", "remove", "open"}, NEW id \in Ids, Begin(op, id)
      PROVE  WInv'
  BY <1>1, BeginMoves DEF WInv, CallWhole, Placed, Storing, Active, Begin
<1>2. ASSUME NEW c \in DOMAIN call, Step(c) PROVE WInv'
  <2>1. Others(c) /\ Active(c) /\ call[c] \in Call
    BY <1>2, StepMoves
  <2>2. CallWhole(call[c]) /\ manifest \subseteq written
    BY <2>1 DEF WInv
  <2>3. written \subseteq written'
    BY <1>2 DEF Step, Look, Fetch, CreateWritable, WriteAll, WriteBreaks, Erase, Open,
                ReadManifest, SaveManifest, Vanish, history
  <2>4. ASSUME manifest' \subseteq written', call'[c] # Done => CallWhole(call[c])'
        PROVE  WInv'
    BY <2>1, <2>3, <2>4 DEF WInv, CallWhole, Placed, Storing, Active, Others
  <2>5. CASE Look(c)
    <3>1. manifest' = manifest /\ written' = written
      BY <2>5 DEF Look, history
    <3>2. QED
      BY <2>2, <2>4, <2>5, <3>1, LookMoves DEF CallWhole, Placed, Storing, To, Keeps
  <2>6. CASE Fetch(c)
    <3>1. manifest' = manifest /\ written' = written /\ call[c].at = "fetch"
      BY <2>6 DEF Fetch, history
    <3>2. QED
      BY <2>1, <2>2, <2>4, <2>6, <3>1, FetchMoves, CallFields
         DEF CallWhole, Placed, Storing, To, Keeps
  <2>7. CASE CreateWritable(c)
    <3>1. manifest' = manifest /\ written' = written /\ call[c].at = "create"
      BY <2>7 DEF CreateWritable, history
    <3>2. QED
      BY <2>1, <2>2, <2>4, <2>7, <3>1, CreateMoves, CallFields
         DEF CallWhole, Placed, Storing, To, Keeps
  <2>8. CASE WriteAll(c)
    <3>1. /\ manifest' = manifest /\ written' = written \cup {call[c].id}
          /\ call[c].at = "write"
      BY <2>8 DEF WriteAll
    <3>2. QED
      BY <2>1, <2>2, <2>4, <2>8, <3>1, WriteAllMoves, CallFields
         DEF CallWhole, Placed, Storing, To, Keeps
  <2>9. CASE WriteBreaks(c) \/ Vanish(c)
    <3>1. manifest' = manifest /\ written' = written
      BY <2>9 DEF WriteBreaks, Vanish
    <3>2. call'[c] = Done
      BY <2>9, Finishing DEF WriteBreaks, Vanish
    <3>3. QED
      BY <2>2, <2>4, <3>1, <3>2
  <2>10. CASE Erase(c)
    <3>1. manifest' = manifest /\ written' = written /\ call[c].at = "erase"
      BY <2>10 DEF Erase, history
    <3>2. QED
      BY <2>1, <2>2, <2>4, <2>10, <3>1, EraseMoves, CallFields
         DEF CallWhole, Placed, Storing, To, Keeps
  <2>11. CASE Open(c)
    <3>1. manifest' = manifest /\ written' = written /\ call[c].at = "open"
      BY <2>11 DEF Open, history
    <3>2. QED
      BY <2>1, <2>2, <2>4, <2>11, <3>1, OpenMoves, CallFields
         DEF CallWhole, Placed, Storing, To, Keeps
  <2>12. CASE ReadManifest(c)
    <3>1. manifest' = manifest /\ written' = written /\ call[c].at = "read"
      BY <2>12 DEF ReadManifest, history
    <3>2. QED
      BY <2>1, <2>2, <2>4, <2>12, <3>1, ReadMoves, CallFields
         DEF CallWhole, Placed, Storing, To, Keeps
  <2>13. CASE SaveManifest(c)
    <3>1. /\ written' = written /\ call[c].at = "save" /\ Finish(c)
          /\ manifest' = IF call[c].op = "remove" THEN call[c].seen \ {call[c].id}
                         ELSE call[c].seen \cup {call[c].id}
      BY <2>13 DEF SaveManifest
    <3>2. manifest' \subseteq written'
      BY <2>2, <3>1 DEF CallWhole, Storing
    <3>3. QED
      BY <2>4, <3>1, <3>2, Finishing
  <2>14. QED
    BY <1>2, <2>5, <2>6, <2>7, <2>8, <2>9, <2>10, <2>11, <2>12, <2>13 DEF Step
<1>3. CASE UNCHANGED vars
  BY <1>3 DEF vars, WInv, CallWhole, Placed, Storing, Active
<1>4. QED
  BY <1>1, <1>2, <1>3 DEF Next

(* Whatever overlaps, breaks off, vanishes or collides: no entry, and no   *)
(* stale copy of one, names a model that was never downloaded to the end.  *)
THEOREM EntriesOnlyOfWhole == Spec => []EntriesWereWhole
<1>1. Init => WInv
  BY InitWhole
<1>2. TypeOK /\ WInv /\ [Next]_vars => WInv'
  BY NextWhole
<1>3. WInv => EntriesWereWhole
  BY DEF WInv, CallWhole, EntriesWereWhole
<1>4. QED
  BY <1>1, <1>2, <1>3, TypeCorrect, PTL DEF Spec

-----------------------------------------------------------------------------
(* Entries are kept.                                                       *)

(* While there never were two calls at once, a call's copy of the manifest *)
(* is the manifest, and a model that is being removed is not to be kept.   *)
Lonely ==
  /\ \A c, d \in DOMAIN call : Active(c) /\ Active(d) => c = d
  /\ \A c \in DOMAIN call : Active(c) =>
       /\ call[c].at = "save" => call[c].seen = manifest
       /\ call[c].op = "remove" => call[c].id \notin kept
KInv == alone => Lonely /\ kept \subseteq manifest

LEMMA NextKept ==
  ASSUME TypeOK, KInv, [Next]_vars
  PROVE  KInv'
<1> SUFFICES ASSUME alone' PROVE Lonely' /\ kept' \subseteq manifest'
  BY DEF KInv
<1>1. ASSUME NEW op \in {"ensure", "remove", "open"}, NEW id \in Ids, Begin(op, id)
      PROVE  Lonely' /\ kept' \subseteq manifest'
  <2>1. /\ alone /\ \A c \in DOMAIN call : ~Active(c)
        /\ manifest' = manifest
        /\ kept' = IF op = "remove" THEN kept \ {id} ELSE kept
    BY <1>1 DEF Begin, TypeOK
  <2>2. kept' \subseteq manifest'
    BY <2>1 DEF KInv
  <2>3. \A c \in DOMAIN call' : Active(c)' => c = Len(call')
    BY <1>1, <2>1, BeginMoves DEF Active
  <2>4. QED
    BY <1>1, <2>1, <2>2, <2>3, BeginMoves DEF Lonely
<1>2. ASSUME NEW c \in DOMAIN call, Step(c)
      PROVE  Lonely' /\ kept' \subseteq manifest'
  <2>1. /\ Others(c) /\ Active(c) /\ call[c] \in Call
        /\ call'[c] # Done => call'[c].op = call[c].op /\ call'[c].id = call[c].id
    BY <1>2, StepMoves
  <2>2. alone /\ Lonely /\ kept \subseteq manifest
    BY <1>2 DEF KInv, Step, Look, Fetch, CreateWritable, WriteAll, WriteBreaks, Erase,
                Open, ReadManifest, SaveManifest, Vanish, history
  <2>3. \A d \in DOMAIN call' : Active(d)' => d = c
    BY <2>1, <2>2 DEF Lonely, Active, Others
  <2>4. ASSUME kept' = kept, manifest' = manifest,
               call'[c] # Done /\ call'[c].at = "save" => call'[c].seen = manifest
        PROVE  Lonely' /\ kept' \subseteq manifest'
    BY <2>1, <2>2, <2>3, <2>4 DEF Lonely, Active, Others
  <2>5. CASE Look(c)
    <3>1. manifest' = manifest /\ kept' = kept
      BY <2>5 DEF Look, history
    <3>2. QED
      BY <2>4, <2>5, <3>1, LookMoves DEF To
  <2>6. CASE Fetch(c)
    <3>1. manifest' = manifest /\ kept' = kept
      BY <2>6 DEF Fetch, history
    <3>2. QED
      BY <2>4, <2>6, <3>1, FetchMoves DEF To
  <2>7. CASE CreateWritable(c)
    <3>1. manifest' = manifest /\ kept' = kept
      BY <2>7 DEF CreateWritable, history
    <3>2. QED
      BY <2>4, <2>7, <3>1, CreateMoves DEF To
  <2>8. CASE WriteAll(c)
    <3>1. manifest' = manifest /\ kept' = kept
      BY <2>8 DEF WriteAll
    <3>2. QED
      BY <2>4, <2>8, <3>1, WriteAllMoves DEF To
  <2>9. CASE WriteBreaks(c) \/ Vanish(c)
    <3>1. manifest' = manifest /\ kept' = kept /\ Finish(c)
      BY <2>9 DEF WriteBreaks, Vanish
    <3>2. QED
      BY <2>4, <3>1, Finishing
  <2>10. CASE Erase(c)
    <3>1. manifest' = manifest /\ kept' = kept
      BY <2>10 DEF Erase, history
    <3>2. QED
      BY <2>4, <2>10, <3>1, EraseMoves DEF To
  <2>11. CASE Open(c)
    <3>1. manifest' = manifest /\ kept' = kept
      BY <2>11 DEF Open, history
    <3>2. QED
      BY <2>4, <2>11, <3>1, OpenMoves DEF To
  <2>12. CASE ReadManifest(c)
    <3>1. manifest' = manifest /\ kept' = kept
      BY <2>12 DEF ReadManifest, history
    <3>2. QED
      BY <2>4, <2>12, <3>1, ReadMoves DEF To
  <2>13. CASE SaveManifest(c)
    <3>1. /\ Finish(c) /\ call[c].at = "save"
          /\ manifest' = IF call[c].op = "remove" THEN call[c].seen \ {call[c].id}
                         ELSE call[c].seen \cup {call[c].id}
          /\ kept' = IF call[c].op = "ensure" THEN kept \cup {call[c].id} ELSE kept
      BY <2>13 DEF SaveManifest
    <3>2. call[c].seen = manifest /\ (call[c].op = "remove" => call[c].id \notin kept)
      BY <2>1, <2>2, <3>1 DEF Lonely
    <3>3. kept' \subseteq manifest'
      BY <2>2, <3>1, <3>2
    <3>4. \A d \in DOMAIN call' : ~Active(d)'
      BY <2>3, <3>1, Finishing DEF Active
    <3>5. QED
      BY <3>3, <3>4 DEF Lonely
  <2>14. QED
    BY <1>2, <2>5, <2>6, <2>7, <2>8, <2>9, <2>10, <2>11, <2>12, <2>13 DEF Step
<1>3. CASE UNCHANGED vars
  BY <1>3 DEF vars, KInv, Lonely, Active
<1>4. QED
  BY <1>1, <1>2, <1>3 DEF Next

LEMMA InitKept == Init => KInv
<1> SUFFICES ASSUME Init PROVE KInv
  OBVIOUS
<1>1. DOMAIN call = {}
  BY EmptySeq DEF Init
<1>2. QED
  BY <1>1 DEF Init, KInv, Lonely

(* As long as calls come one at a time, whatever breaks off or vanishes, a *)
(* model that was stored and not asked to be removed has its entry.        *)
THEOREM EntriesStay == Spec => []EntriesKept
<1>1. TypeOK /\ KInv /\ [Next]_vars => KInv'
  BY NextKept
<1>2. KInv => EntriesKept
  BY DEF KInv, EntriesKept
<1>3. QED
  BY <1>1, <1>2, InitKept, TypeCorrect, PTL DEF Spec

-----------------------------------------------------------------------------
(* Entries have their files.                                               *)

(* While nothing ever broke off, vanished or was removed: what has an      *)
(* entry, in the manifest or in a call's copy, or is about to get one, has *)
(* its file.                                                               *)
Untouched ==
  /\ \A c \in DOMAIN call : Active(c) => call[c].op # "remove"
  /\ \A id \in manifest \ Colliding : file[id] = id
  /\ \A c \in DOMAIN call : Active(c) =>
       /\ \A id \in call[c].seen \ Colliding : file[id] = id
       /\ call[c].id \notin Colliding /\ Storing(call[c]) => file[call[c].id] = call[c].id

(* While there never were two calls at once: an entry has its file unless  *)
(* its removal is under way, one that a download is under way for is not   *)
(* there yet, and one that is about to be stored has its file.             *)
Erased(id) ==
  \E c \in DOMAIN call : Active(c) /\ call[c].op = "remove" /\ call[c].id = id
                                   /\ call[c].at \in {"read", "save"}
Tidy ==
  /\ \A id \in manifest \ (Colliding \cup torn) : file[id] = id \/ Erased(id)
  /\ \A c \in DOMAIN call : Active(c) =>
       /\ call[c].at \in {"fetch", "create", "write"} => call[c].id \notin manifest
       /\ call[c].id \notin Colliding \cup torn /\ Storing(call[c])
            => file[call[c].id] = call[c].id

BInv ==
  /\ ~(broken \/ removals) => Untouched
  /\ alone => Tidy

(* A whole file stays, unless a stream to it breaks off or it is removed.  *)
LEMMA FileStays ==
  ASSUME TypeOK, NEW c \in DOMAIN call, Step(c), NEW id \in Ids, id \notin Colliding,
         file[id] = id,
         id # call[c].id \/ ~(WriteBreaks(c) \/ Erase(c))
  PROVE  file'[id] = id
<1>1. call[c].id \in Ids /\ Path(call[c].id) \in DOMAIN file
  BY StepMoves, CallFields DEF TypeOK
<1>2. id \in DOMAIN file /\ id # "absent"
  BY OwnPath DEF TypeOK
<1>3. \/ file' = file
      \/ \E v : file' = [file EXCEPT ![Path(call[c].id)] = v]
  BY DEF Step, Look, Fetch, CreateWritable, WriteAll, WriteBreaks, Erase, Open,
         ReadManifest, SaveManifest, Vanish, history
<1>4. CASE id # call[c].id
  <2>1. Path(call[c].id) # id
    BY <1>1, <1>4, OwnPath
  <2>2. QED
    BY <1>1, <1>2, <1>3, <2>1 DEF TypeOK
<1>5. CASE id = call[c].id /\ ~(WriteBreaks(c) \/ Erase(c))
  <2>1. Path(call[c].id) = id
    BY <1>5, OwnPath
  <2>2. CASE Fetch(c)
    BY <1>2, <2>1, <2>2 DEF Fetch, TypeOK
  <2>3. CASE WriteAll(c)
    BY <1>2, <1>5, <2>1, <2>3 DEF WriteAll, TypeOK
  <2>4. CASE Look(c) \/ CreateWritable(c) \/ Open(c) \/ ReadManifest(c) \/ SaveManifest(c) \/ Vanish(c)
    BY <2>4 DEF Look, CreateWritable, Open, ReadManifest, SaveManifest, Vanish
  <2>5. QED
    BY <1>5, <2>2, <2>3, <2>4 DEF Step
<1>6. QED
  BY <1>4, <1>5

LEMMA StoredWhole ==
  ASSUME TypeOK, NEW c \in DOMAIN call, WriteAll(c), call[c].id \notin Colliding
  PROVE  file'[call[c].id] = call[c].id
<1>1. Step(c)
  BY DEF Step
<1>2. call[c].id \in Ids /\ Path(call[c].id) \in DOMAIN file
  BY <1>1, StepMoves, CallFields DEF TypeOK
<1>3. Path(call[c].id) = call[c].id
  BY <1>2, OwnPath
<1>4. QED
  BY <1>2, <1>3 DEF WriteAll, TypeOK

(* The ways a call comes to be about to store an entry, with its file as   *)
(* it was then.                                                            *)
LEMMA StoringAfter ==
  ASSUME TypeOK, WInv, NEW c \in DOMAIN call, Step(c), call'[c] # Done, Storing(call'[c])
  PROVE  /\ ~(WriteBreaks(c) \/ Erase(c))
         /\ call[c].op # "remove"
         /\ \/ WriteAll(c)
            \/ Storing(call[c])
            \/ call[c].id \in manifest
<1>1. /\ Active(c) /\ call[c].op # "remove" /\ CallWhole(call[c])
      /\ call'[c].at \in {"open", "read", "save"}
  BY StepMoves DEF Storing, WInv
<1>2. ~WriteBreaks(c) /\ ~Vanish(c) /\ ~SaveManifest(c)
  BY Finishing DEF WriteBreaks, Vanish, SaveManifest
<1>3. ~Erase(c)
  BY <1>1, StepMoves, CallFields DEF Erase, CallWhole, Placed
<1>4. CASE Look(c)
  BY <1>4, <1>1, <1>2, <1>3, LookMoves DEF To
<1>5. CASE Fetch(c)
  BY <1>5, <1>1, FetchMoves DEF To
<1>6. CASE CreateWritable(c)
  BY <1>6, <1>1, CreateMoves DEF To
<1>7. CASE Open(c) \/ ReadManifest(c)
  BY <1>1, <1>2, <1>3, <1>7 DEF Storing, Open, ReadManifest
<1>8. QED
  BY <1>1, <1>2, <1>3, <1>4, <1>5, <1>6, <1>7 DEF Step

LEMMA BeginBacked ==
  ASSUME TypeOK, BInv, NEW op \in {"ensure", "remove", "open"}, NEW id \in Ids, Begin(op, id)
  PROVE  BInv'
<1>1. /\ manifest' = manifest /\ file' = file /\ broken' = broken /\ torn' = torn
      /\ removals' = (removals \/ op = "remove")
      /\ alone' => alone /\ \A c \in DOMAIN call : ~Active(c)
  BY DEF Begin, TypeOK
<1>2. ASSUME ~(broken' \/ removals') PROVE Untouched'
  <2>1. Untouched /\ op # "remove"
    BY <1>1, <1>2 DEF BInv
  <2>2. QED
    BY <1>1, <2>1, BeginMoves DEF Untouched, Active, Storing
<1>3. ASSUME alone' PROVE Tidy'
  <2>1. Tidy /\ \A x : ~Erased(x)
    BY <1>1, <1>3 DEF BInv, Erased
  <2>2. \A x \in manifest' \ (Colliding \cup torn') : file'[x] = x
    BY <1>1, <2>1 DEF Tidy
  <2>3. \A c \in DOMAIN call' : Active(c)' => call'[c].at = "look"
    BY <1>1, <1>3, BeginMoves DEF Active
  <2>4. QED
    BY <2>2, <2>3 DEF Tidy, Storing
<1>4. QED
  BY <1>2, <1>3 DEF BInv

(* A step changes the manifest only by saving it.                          *)
LEMMA ManifestChanges ==
  ASSUME TypeOK, NEW c \in DOMAIN call, Step(c)
  PROVE  /\ \/ manifest' = manifest
            \/ /\ SaveManifest(c)
               /\ manifest' = IF call[c].op = "remove" THEN call[c].seen \ {call[c].id}
                              ELSE call[c].seen \cup {call[c].id}
         /\ torn \subseteq torn'
         /\ call'[c] # Done => \/ call'[c].seen = call[c].seen
                               \/ call'[c].seen = manifest
<1>1. call'[c] # Done => call'[c].seen = call[c].seen \/ call'[c].seen = manifest
  BY LookMoves, FetchMoves, CreateMoves, WriteAllMoves, EraseMoves, OpenMoves, ReadMoves,
     Finishing DEF Step, WriteBreaks, SaveManifest, Vanish, Keeps
<1>2. CASE SaveManifest(c)
  BY <1>1, <1>2 DEF SaveManifest
<1>3. CASE Vanish(c)
  BY <1>1, <1>3 DEF Vanish
<1>4. CASE WriteBreaks(c) \/ WriteAll(c)
  BY <1>1, <1>4 DEF WriteBreaks, WriteAll
<1>5. CASE Look(c) \/ Fetch(c) \/ CreateWritable(c) \/ Erase(c) \/ Open(c) \/ ReadManifest(c)
  BY <1>1, <1>5 DEF Look, Fetch, CreateWritable, Erase, Open, ReadManifest, history
<1>6. QED
  BY <1>2, <1>3, <1>4, <1>5 DEF Step

LEMMA HistoryChanges ==
  ASSUME NEW c \in DOMAIN call, Step(c)
  PROVE  (broken' = broken \/ broken' = TRUE) /\ removals' = removals /\ alone' = alone
<1>1. CASE Vanish(c)
  BY <1>1 DEF Vanish
<1>2. CASE WriteBreaks(c) \/ WriteAll(c) \/ SaveManifest(c)
  BY <1>2 DEF WriteBreaks, WriteAll, SaveManifest
<1>3. CASE Look(c) \/ Fetch(c) \/ CreateWritable(c) \/ Erase(c) \/ Open(c) \/ ReadManifest(c)
  BY <1>3 DEF Look, Fetch, CreateWritable, Erase, Open, ReadManifest, history
<1>4. QED
  BY <1>1, <1>2, <1>3 DEF Step

LEMMA StepUntouched ==
  ASSUME TypeOK, WInv, Untouched, NEW c \in DOMAIN call, Step(c), ~broken'
  PROVE  Untouched'
<1>1. /\ Others(c) /\ Active(c) /\ call[c] \in Call /\ call[c].op # "remove"
      /\ call'[c] # Done => call'[c].op = call[c].op /\ call'[c].id = call[c].id
      /\ call[c].id \in Ids /\ call[c].seen \subseteq Ids /\ manifest \subseteq Ids
  BY StepMoves, CallFields DEF Untouched, TypeOK
<1>2. ~WriteBreaks(c) /\ ~Erase(c)
  BY <1>1, CallFields DEF WriteBreaks, Erase, WInv, CallWhole, Placed
<1>3. \A id \in Ids \ Colliding : file[id] = id => file'[id] = id
  BY <1>2, FileStays
<1>4. \A d \in DOMAIN call : Active(d) => call[d].seen \subseteq Ids /\ call[d].id \in Ids
  BY CallFields DEF TypeOK, Active
<1>5. \A id \in manifest' \ Colliding : file'[id] = id
  <2>1. CASE manifest' = manifest
    BY <1>1, <1>3, <2>1 DEF Untouched
  <2>2. CASE SaveManifest(c) /\ manifest' = call[c].seen \cup {call[c].id}
    <3>1. Storing(call[c])
      BY <1>1, <2>2 DEF Storing, SaveManifest
    <3>2. QED
      BY <1>1, <1>3, <2>2, <3>1 DEF Untouched
  <2>3. QED
    BY <1>1, <2>1, <2>2, ManifestChanges
<1>6. ASSUME call'[c] # Done
      PROVE  /\ \A id \in call'[c].seen \ Colliding : file'[id] = id
             /\ call'[c].id \notin Colliding /\ Storing(call'[c])
                  => file'[call'[c].id] = call'[c].id
  <2>1. \A id \in call'[c].seen \ Colliding : file'[id] = id
    BY <1>1, <1>3, <1>6, ManifestChanges DEF Untouched
  <2>2. ASSUME call'[c].id \notin Colliding, Storing(call'[c])
        PROVE  file'[call'[c].id] = call'[c].id
    <3>1. WriteAll(c) \/ Storing(call[c]) \/ call[c].id \in manifest
      BY <1>6, <2>2, StoringAfter
    <3>2. CASE WriteAll(c)
      BY <1>1, <1>6, <2>2, <3>2, StoredWhole
    <3>3. CASE Storing(call[c]) \/ call[c].id \in manifest
      BY <1>1, <1>3, <1>6, <2>2, <3>3 DEF Untouched
    <3>4. QED
      BY <3>1, <3>2, <3>3
  <2>3. QED
    BY <2>1, <2>2
<1>7. ASSUME NEW d \in DOMAIN call \ {c}, call'[d] # Done
      PROVE  /\ call'[d].op # "remove"
             /\ \A id \in call'[d].seen \ Colliding : file'[id] = id
             /\ call'[d].id \notin Colliding /\ Storing(call'[d])
                  => file'[call'[d].id] = call'[d].id
  <2>1. call'[d] = call[d] /\ Active(d)
    BY <1>1, <1>7 DEF Others, Active
  <2>2. QED
    BY <1>3, <1>4, <2>1 DEF Untouched
<1>8. DOMAIN call' = DOMAIN call
  BY <1>1 DEF Others
<1>9. QED
  BY <1>1, <1>5, <1>6, <1>7, <1>8 DEF Untouched, Active

LEMMA StepTidy ==
  ASSUME TypeOK, WInv, Lonely, Tidy, NEW c \in DOMAIN call, Step(c)
  PROVE  Tidy'
<1> DEFINE me == call[c].id
<1>1. /\ Others(c) /\ Active(c) /\ call[c] \in Call /\ CallWhole(call[c])
      /\ call'[c] # Done => call'[c].op = call[c].op /\ call'[c].id = me
      /\ me \in Ids /\ manifest \subseteq Ids /\ torn \subseteq torn'
      /\ DOMAIN call' = DOMAIN call
  BY StepMoves, CallFields, ManifestChanges DEF TypeOK, WInv, Others
<1>2. \A d \in DOMAIN call' : Active(d)' => d = c
  BY <1>1 DEF Lonely, Active, Others
<1>3. \A id : Erased(id) => id = me /\ call[c].op = "remove" /\ call[c].at \in {"read", "save"}
  BY <1>1 DEF Erased, Lonely
<1>4. ASSUME NEW id \in manifest', id \notin Colliding \cup torn'
      PROVE  file'[id] = id \/ Erased(id)'
  <2>1. CASE id # me
    <3>1. id \in manifest
      BY <1>1, <1>4, <2>1, ManifestChanges DEF Lonely, SaveManifest
    <3>2. file[id] = id
      BY <1>1, <1>3, <1>4, <2>1, <3>1 DEF Tidy
    <3>3. QED
      BY <1>1, <1>4, <2>1, <3>1, <3>2, FileStays
  <2>2. CASE id = me /\ SaveManifest(c)
    <3>1. Storing(call[c])
      BY <1>1, <1>4, <2>2, CallFields, ManifestChanges DEF SaveManifest, Storing, Lonely
    <3>2. file[id] = id
      BY <1>1, <1>4, <2>2, <3>1 DEF Tidy
    <3>3. ~(WriteBreaks(c) \/ Erase(c))
      BY <2>2 DEF SaveManifest, WriteBreaks, Erase
    <3>4. QED
      BY <1>1, <1>4, <2>2, <3>2, <3>3, FileStays
  <2>3. CASE id = me /\ ~SaveManifest(c)
    <3>1. id \in manifest /\ (file[id] = id \/ Erased(id))
      BY <1>1, <1>4, <2>3, ManifestChanges DEF Tidy
    <3>2. ~WriteBreaks(c)
      BY <1>1, <2>3, <3>1 DEF WriteBreaks, Tidy
    <3>3. CASE Erase(c)
      <4>1. call'[c] # Done /\ call'[c].at = "read" /\ call'[c].op = call[c].op
        BY <3>3, EraseMoves, CallFields DEF To
      <4>2. call[c].op = "remove"
        BY <1>1, <3>3, CallFields DEF Erase, CallWhole, Placed
      <4>3. QED
        BY <1>1, <2>3, <4>1, <4>2 DEF Erased, Active
    <3>4. CASE ~Erase(c) /\ file[id] = id
      BY <1>1, <1>4, <3>1, <3>2, <3>4, FileStays
    <3>5. CASE ~Erase(c) /\ Erased(id)
      <4>1. call[c].op = "remove" /\ call[c].at \in {"read", "save"}
        BY <1>3, <3>5
      <4>2. ~Vanish(c)
        BY <1>4, <2>3, <4>1 DEF Vanish
      <4>3. ReadManifest(c)
        BY <2>3, <3>2, <3>5, <4>1, <4>2
           DEF Step, Look, Fetch, CreateWritable, WriteAll, Open, SaveManifest
      <4>4. call'[c] # Done /\ call'[c].at = "save" /\ call'[c].op = call[c].op
        BY <2>3, <3>1, <4>3, ReadMoves, CallFields DEF To
      <4>5. QED
        BY <1>1, <2>3, <4>1, <4>4 DEF Erased, Active
    <3>6. QED
      BY <3>1, <3>3, <3>4, <3>5
  <2>4. QED
    BY <2>1, <2>2, <2>3
<1>5. ASSUME call'[c] # Done, call'[c].at \in {"fetch", "create", "write"}
      PROVE  me \notin manifest'
  <2>1. Look(c) \/ Fetch(c) \/ CreateWritable(c)
    BY <1>2, <1>5, WriteAllMoves, EraseMoves, OpenMoves, ReadMoves, Finishing
       DEF Step, To, WriteBreaks, SaveManifest, Vanish
  <2>2. me \notin manifest
    BY <1>1, <1>5, <2>1, LookMoves DEF To, Tidy, Fetch, CreateWritable
  <2>3. QED
    BY <2>1, <2>2 DEF Look, Fetch, CreateWritable
<1>6. ASSUME call'[c] # Done, me \notin Colliding \cup torn', Storing(call'[c])
      PROVE  file'[me] = me
  <2>1. /\ ~(WriteBreaks(c) \/ Erase(c)) /\ call[c].op # "remove"
        /\ WriteAll(c) \/ Storing(call[c]) \/ me \in manifest
    BY <1>6, StoringAfter
  <2>2. CASE WriteAll(c)
    BY <1>6, <2>2, StoredWhole
  <2>3. CASE Storing(call[c]) \/ me \in manifest
    <3>1. file[me] = me
      BY <1>1, <1>3, <1>6, <2>1, <2>3 DEF Tidy
    <3>2. QED
      BY <1>1, <1>6, <2>1, <3>1, FileStays
  <2>4. QED
    BY <2>1, <2>2, <2>3
<1>7. QED
  BY <1>1, <1>2, <1>4, <1>5, <1>6 DEF Tidy, Active

LEMMA NextBacked ==
  ASSUME TypeOK, WInv, KInv, BInv, [Next]_vars
  PROVE  BInv'
<1>1. ASSUME NEW op \in {"ensure", "remove", "open"}, NEW id \in Ids, Begin(op, id)
      PROVE  BInv'
  BY <1>1, BeginBacked
<1>2. ASSUME NEW c \in DOMAIN call, Step(c) PROVE BInv'
  <2>1. ASSUME ~(broken' \/ removals') PROVE Untouched'
    <3>1. (broken' = broken \/ broken' = TRUE) /\ removals' = removals
      BY <1>2, HistoryChanges, Zenon
    <3>2. ~broken' /\ ~(broken \/ removals)
      BY <2>1, <3>1
    <3>3. Untouched
      BY <3>2 DEF BInv
    <3>4. QED
      BY <1>2, <3>2, <3>3, StepUntouched
  <2>2. ASSUME alone' PROVE Tidy'
    <3>1. alone' = alone
      BY <1>2, HistoryChanges, Zenon
    <3>2. Tidy /\ Lonely
      BY <2>2, <3>1 DEF BInv, KInv
    <3>3. QED
      BY <1>2, <3>2, StepTidy
  <2>3. QED
    BY <2>1, <2>2 DEF BInv
<1>3. CASE UNCHANGED vars
  BY <1>3 DEF vars, BInv, Untouched, Tidy, Erased, Storing, Active
<1>4. QED
  BY <1>1, <1>2, <1>3 DEF Next

(* An entry of a model that shares no path has its whole file, as long as  *)
(* calls come one at a time or nothing is removed and nothing breaks off;  *)
(* a removal cut short after the file is the exception.                    *)
THEOREM EntriesHaveFiles == Spec => []EntriesBacked
<1>1. Init => BInv
  <2> SUFFICES ASSUME Init PROVE BInv
    OBVIOUS
  <2>1. DOMAIN call = {} /\ manifest = {}
    BY EmptySeq DEF Init
  <2>2. QED
    BY <2>1 DEF BInv, Untouched, Tidy
<1>2. Init => WInv
  BY InitWhole
<1>3. TypeOK /\ WInv /\ KInv /\ BInv /\ [Next]_vars => WInv' /\ KInv' /\ BInv'
  BY NextWhole, NextKept, NextBacked
<1>4. KInv /\ BInv /\ TypeOK => EntriesBacked
  <2> SUFFICES ASSUME KInv, BInv, TypeOK, alone \/ ~(broken \/ removals),
                      NEW id \in manifest \ (Colliding \cup torn)
               PROVE  \/ file[id] = id
                      \/ \E c \in DOMAIN call : /\ Active(c) /\ call[c].op = "remove"
                                                /\ call[c].id = id
    BY DEF EntriesBacked
  <2>1. QED
    BY DEF BInv, Untouched, Tidy, Erased
<1>5. QED
  BY <1>1, <1>2, <1>3, <1>4, InitKept, TypeCorrect, PTL DEF Spec

=============================================================================
