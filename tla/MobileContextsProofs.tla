------------------------ MODULE MobileContextsProofs ------------------------
(***************************************************************************)
(* Proofs about MobileContexts, for any limit and any number of calls and  *)
(* reloads: types, wrappers standing for live contexts, handles reaching   *)
(* their own context, where leaks come from, and the cap on iOS.           *)
(***************************************************************************)
EXTENDS MobileContexts, SequenceTheorems, FiniteSetTheorems, TLAPS

USE MobileBoundsAssumption, NoneAssumption

-----------------------------------------------------------------------------
(* The queue.                                                              *)

(* What is left of the queue after its head is gone.                       *)
LEMMA AfterHead ==
  ASSUME calls \in Seq(Call), calls # <<>>, calls' = Tail(calls)
  PROVE  /\ calls' \in Seq(Call)
         /\ Head(calls) = calls[1] /\ Head(calls) \in Call
         /\ Len(calls) \in Nat /\ Len(calls) >= 1 /\ Len(calls') = Len(calls) - 1
         /\ \A i \in 1 .. Len(calls') : calls'[i] = calls[i + 1]
<1>1. Head(calls) = calls[1]
  OBVIOUS
<1>2. QED
  BY <1>1, HeadTailProperties, LenProperties

LEMMA AfterRequest ==
  ASSUME calls \in Seq(Call), NEW c \in Call, calls' = Append(calls, c)
  PROVE  /\ calls' \in Seq(Call)
         /\ Len(calls) \in Nat /\ Len(calls') = Len(calls) + 1
         /\ \A i \in 1 .. Len(calls) : calls'[i] = calls[i]
         /\ calls'[Len(calls')] = c
  BY AppendProperties, LenProperties

LEMMA CallFields ==
  ASSUME NEW c \in Call
  PROVE  /\ c.page \in Nat
         /\ c.op \in {"init", "release"} => c.id \in Id
         /\ c.op \in {"init", "release", "releaseAll"}
  BY DEF Call

-----------------------------------------------------------------------------
(* Types.                                                                  *)

LEMMA InitTypeOK == Init => TypeOK
<1> SUFFICES ASSUME Init PROVE TypeOK
  OBVIOUS
<1>1. calls \in Seq(Call)
  BY EmptySeq DEF Init
<1>2. QED
  BY <1>1 DEF Init, TypeOK, Id, NativeId

LEMMA NextTypeOK == TypeOK /\ [Next]_vars => TypeOK'
<1> SUFFICES ASSUME TypeOK, [Next]_vars PROVE TypeOK'
  OBVIOUS
<1> USE DEF TypeOK
<1>1. CASE InitLlama
  <2>1. counter + 1 \in Id
    BY <1>1 DEF InitLlama, Id
  <2>2. [op |-> "init", id |-> counter + 1, page |-> page] \in Call
    BY <2>1 DEF Call
  <2>3. calls' \in Seq(Call)
    BY <1>1, <2>2, AfterRequest DEF InitLlama, Request
  <2>4. QED
    BY <1>1, <2>1, <2>3 DEF InitLlama, Request, Id
<1>2. ASSUME NEW h \in handles, Release(h) PROVE TypeOK'
  <2>1. [op |-> "release", id |-> h.id, page |-> page] \in Call
    BY DEF Call
  <2>2. calls' \in Seq(Call)
    BY <1>2, <2>1, AfterRequest DEF Release, Request
  <2>3. QED
    BY <1>2, <2>2 DEF Release, Request, jsVars
<1>3. CASE ReleaseAllLlama
  <2>1. [op |-> "releaseAll", page |-> page] \in Call
    BY DEF Call
  <2>2. calls' \in Seq(Call)
    BY <1>3, <2>1, AfterRequest DEF ReleaseAllLlama, Request
  <2>3. QED
    BY <1>3, <2>2 DEF ReleaseAllLlama, Request, jsVars
<1>4. CASE Reload
  BY <1>4 DEF Reload
<1>5. CASE InitContextRejected
  BY <1>5, AfterHead DEF InitContextRejected, CarryOut
<1>6. CASE InitContext
  <2>1. /\ calls' \in Seq(Call) /\ Head(calls).id \in Id
        /\ nextNative \in NativeId
    BY <1>6, AfterHead, CallFields DEF InitContext, CarryOut, NativeId
  <2>2. QED
    BY <1>6, <2>1 DEF InitContext, CarryOut, NativeId
<1>7. CASE ReleaseContext
  BY <1>7, AfterHead DEF ReleaseContext, CarryOut
<1>8. CASE ReleaseAllContexts
  BY <1>8, AfterHead DEF ReleaseAllContexts, CarryOut
<1>9. CASE UNCHANGED vars
  BY <1>9 DEF vars
<1>10. QED
  BY <1>1, <1>2, <1>3, <1>4, <1>5, <1>6, <1>7, <1>8, <1>9 DEF Next

(* Types, whatever is under way.                                           *)
THEOREM TypeCorrect == Spec => []TypeOK
  BY InitTypeOK, NextTypeOK, PTL DEF Spec

-----------------------------------------------------------------------------
(* Wrappers and contexts.                                                  *)

(* Native ids are new.                                                     *)
NativeNew == \A n \in native : n < nextNative

LEMMA NextWrappers ==
  TypeOK /\ NativeNew /\ WrappersBacked /\ [Next]_vars
    => NativeNew' /\ WrappersBacked'
<1> SUFFICES ASSUME TypeOK, NativeNew, WrappersBacked, [Next]_vars
             PROVE  NativeNew' /\ WrappersBacked'
  OBVIOUS
<1> USE DEF TypeOK, NativeNew, WrappersBacked, Wrapped, NativeId
<1>1. CASE InitLlama
  BY <1>1 DEF InitLlama, Request
<1>2. ASSUME NEW h \in handles, Release(h) PROVE NativeNew' /\ WrappersBacked'
  BY <1>2 DEF Release, Request
<1>3. CASE ReleaseAllLlama
  BY <1>3 DEF ReleaseAllLlama, Request
<1>4. CASE Reload
  BY <1>4 DEF Reload
<1>5. CASE InitContextRejected
  BY <1>5 DEF InitContextRejected
<1>6. CASE InitContext
  <2>1. Head(calls).id \in Id
    BY <1>6, AfterHead, CallFields DEF InitContext, CarryOut
  <2>2. native' = native \cup {nextNative} /\ nextNative' = nextNative + 1
    BY <1>6 DEF InitContext
  <2>3. wrapper' = [wrapper EXCEPT ![Head(calls).id] = nextNative]
    BY <1>6 DEF InitContext
  <2>4. nextNative \in Nat /\ \A n \in native : n \in Nat /\ n < nextNative
    <3>1. MaxNative \in Nat
      BY MobileBoundsAssumption
    <3>2. nextNative \in Nat
      BY <3>1
    <3>3. ASSUME NEW n \in native PROVE n \in Nat
      BY <3>1
    <3>4. QED
      BY <3>2, <3>3
  <2>5. NativeNew'
    <3>1. SUFFICES ASSUME NEW n \in native' PROVE n < nextNative'
      OBVIOUS
    <3>2. CASE n \in native
      BY <2>2, <2>4, <3>2
    <3>3. CASE n = nextNative
      BY <2>2, <2>4, <3>3
    <3>4. QED
      BY <2>2, <3>1, <3>2, <3>3
  <2>6. QED
    BY <2>1, <2>2, <2>3, <2>5
<1>7. CASE ReleaseContext
  <2>1. Head(calls).id \in Id
    BY <1>7, AfterHead, CallFields DEF ReleaseContext, CarryOut
  <2>2. QED
    BY <1>7, <2>1 DEF ReleaseContext
<1>8. CASE ReleaseAllContexts
  BY <1>8 DEF ReleaseAllContexts
<1>9. CASE UNCHANGED vars
  BY <1>9 DEF vars
<1>10. QED
  BY <1>1, <1>2, <1>3, <1>4, <1>5, <1>6, <1>7, <1>8, <1>9 DEF Next

(* No wrapper dangles, and no two share a context.                         *)
THEOREM WrappersAreBacked == Spec => []WrappersBacked
<1>1. Init => NativeNew /\ WrappersBacked
  BY DEF Init, NativeNew, WrappersBacked, Wrapped
<1>2. QED
  BY <1>1, NextWrappers, TypeCorrect, PTL DEF Spec

-----------------------------------------------------------------------------
(* Handles.  The plugin serves the calls in order, so that a page with a   *)
(* handle has outlived every call of the pages before it.                  *)

Pages ==
  /\ \A i, j \in 1 .. Len(calls) : i < j => calls[i].page <= calls[j].page
  /\ \A i \in 1 .. Len(calls) : calls[i].page <= page
  /\ handles # {} => \A i \in 1 .. Len(calls) : calls[i].page = page

(* The numbers of one page are different from each other.                  *)
Mine(i) == calls[i].op = "init" /\ calls[i].page = page

Numbers ==
  /\ \A h \in handles : h.id <= counter
  /\ \A i \in 1 .. Len(calls) : Mine(i) =>
       /\ calls[i].id <= counter
       /\ \A h \in handles : h.id # calls[i].id
       /\ \A j \in 1 .. Len(calls) : i # j /\ Mine(j) => calls[i].id # calls[j].id

HInv == Pages /\ Numbers /\ HandlesReachTheirOwn

LEMMA NextHInv == TypeOK /\ HInv /\ [Next]_vars => HInv'
<1> SUFFICES ASSUME TypeOK, HInv, [Next]_vars PROVE HInv'
  OBVIOUS
<1> USE DEF TypeOK, HInv, Pages, Numbers, Mine, HandlesReachTheirOwn
<1>1. CASE InitLlama
  <2> DEFINE c == [op |-> "init", id |-> counter + 1, page |-> page]
  <2>1. c \in Call /\ calls' = Append(calls, c)
    BY <1>1 DEF InitLlama, Request, Call, Id
  <2>2. /\ Len(calls) \in Nat /\ Len(calls') = Len(calls) + 1
        /\ \A i \in 1 .. Len(calls) : calls'[i] = calls[i] /\ calls[i] \in Call
        /\ calls'[Len(calls')] = c
    BY <2>1, AfterRequest
  <2>3. Pages'
    BY <1>1, <2>2 DEF InitLlama, Request
  <2>4. /\ handles' = handles /\ counter' = counter + 1 /\ page' = page
        /\ \A i \in 1 .. Len(calls) : calls'[i] = calls[i]
        /\ \A i \in 1 .. Len(calls') : i \in 1 .. Len(calls) \/ i = Len(calls')
        /\ \A i \in 1 .. Len(calls) : calls[i].op = "init" => calls[i].id \in Nat
        /\ \A h \in handles : h.id \in Nat
        /\ c.id = counter + 1
    BY <1>1, <2>2, CallFields DEF InitLlama, Request, Id
  <2>5. ASSUME NEW i \in 1 .. Len(calls'), Mine(i)'
        PROVE  /\ calls'[i].id <= counter'
               /\ \A h \in handles' : h.id # calls'[i].id
               /\ \A j \in 1 .. Len(calls') :
                    i # j /\ Mine(j)' => calls'[i].id # calls'[j].id
    <3>1. CASE i \in 1 .. Len(calls)
      <4>1. Mine(i) /\ calls'[i].id = calls[i].id /\ calls[i].id <= counter
        BY <2>4, <2>5, <3>1
      <4>2. ASSUME NEW j \in 1 .. Len(calls'), i # j, Mine(j)'
            PROVE  calls'[i].id # calls'[j].id
        <5>1. CASE j \in 1 .. Len(calls)
          BY <2>4, <3>1, <4>1, <4>2, <5>1
        <5>2. CASE j = Len(calls')
          BY <2>2, <2>4, <4>1, <5>2
        <5>3. QED
          BY <2>4, <5>1, <5>2
      <4>3. QED
        BY <2>4, <3>1, <4>1, <4>2
    <3>2. CASE i = Len(calls')
      <4>1. calls'[i].id = counter + 1
        BY <2>2, <2>4, <3>2
      <4>2. ASSUME NEW j \in 1 .. Len(calls'), i # j, Mine(j)'
            PROVE  calls'[i].id # calls'[j].id
        <5>1. j \in 1 .. Len(calls) /\ Mine(j)
          BY <2>4, <3>2, <4>2
        <5>2. calls[j].id <= counter /\ calls[j].id \in Nat
          BY <2>4, <5>1
        <5>3. QED
          BY <2>4, <4>1, <5>1, <5>2, SMTT(20)
      <4>3. QED
        BY <2>4, <4>1, <4>2
    <3>3. QED
      BY <2>4, <3>1, <3>2
  <2>6. Numbers'
    BY <2>4, <2>5
  <2>7. QED
    BY <1>1, <2>3, <2>6 DEF InitLlama, Request
<1>2. ASSUME NEW c \in Call, c.op # "init", c.page = page, Request(c), UNCHANGED jsVars
      PROVE  HInv'
  <2>1. /\ Len(calls) \in Nat /\ Len(calls') = Len(calls) + 1
        /\ \A i \in 1 .. Len(calls) : calls'[i] = calls[i]
        /\ calls'[Len(calls')] = c
    BY <1>2, AfterRequest DEF Request
  <2>2. /\ UNCHANGED <<page, counter, handles, wrapper>> /\ page \in Nat
        /\ \A i \in 1 .. Len(calls') : i \in 1 .. Len(calls) \/ i = Len(calls')
    BY <1>2, <2>1 DEF Request, jsVars
  <2>3. Pages'
    <3>1. \A i \in 1 .. Len(calls') :
            /\ calls'[i].page <= page
            /\ handles # {} => calls'[i].page = page
      BY <1>2, <2>1, <2>2, SMTT(20)
    <3>2. \A i, j \in 1 .. Len(calls') : i < j => calls'[i].page <= calls'[j].page
      <4>1. ASSUME NEW i \in 1 .. Len(calls'), NEW j \in 1 .. Len(calls'), i < j
            PROVE  calls'[i].page <= calls'[j].page
        <5>1. i \in 1 .. Len(calls) /\ calls'[i] = calls[i]
          BY <2>1, <4>1
        <5>2. CASE j \in 1 .. Len(calls)
          BY <2>1, <4>1, <5>1, <5>2
        <5>3. CASE j = Len(calls')
          BY <1>2, <2>1, <5>1, <5>3
        <5>4. QED
          BY <2>2, <5>2, <5>3
      <4>2. QED
        BY <4>1
    <3>3. QED
      BY <2>2, <3>1, <3>2
  <2>4. \A i \in 1 .. Len(calls') : Mine(i)' => i \in 1 .. Len(calls) /\ Mine(i)
    BY <1>2, <2>1, <2>2
  <2>5. Numbers'
    BY <2>1, <2>2, <2>4
  <2>6. HandlesReachTheirOwn'
    BY <2>2
  <2>7. QED
    BY <2>3, <2>5, <2>6
<1>3. ASSUME NEW h \in handles, Release(h) PROVE HInv'
  <2>1. [op |-> "release", id |-> h.id, page |-> page] \in Call
    BY DEF Call
  <2>2. QED
    BY <1>2, <1>3, <2>1 DEF Release
<1>4. CASE ReleaseAllLlama
  <2>1. [op |-> "releaseAll", page |-> page] \in Call
    BY DEF Call
  <2>2. QED
    BY <1>2, <1>4, <2>1 DEF ReleaseAllLlama
<1>5. CASE Reload
  BY <1>5, CallFields, SMTT(20) DEF Reload
<1>6. ASSUME calls # <<>>, calls' = Tail(calls), UNCHANGED <<page, counter, handles>>
      PROVE  Pages' /\ Numbers'
  <2>1. /\ Len(calls) \in Nat /\ Len(calls) >= 1 /\ Len(calls') = Len(calls) - 1
        /\ \A i \in 1 .. Len(calls') : calls'[i] = calls[i + 1]
    BY <1>6, AfterHead
  <2>2. QED
    BY <1>6, <2>1, SMTT(20)
<1>7. CASE InitContextRejected
  BY <1>6, <1>7 DEF InitContextRejected, CarryOut
<1>8. CASE InitContext
  <2>1. /\ Head(calls) = calls[1] /\ Len(calls) \in Nat /\ Len(calls) >= 1
        /\ Len(calls') = Len(calls) - 1 /\ Head(calls).id \in Id
        /\ \A i \in 1 .. Len(calls') : calls'[i] = calls[i + 1]
        /\ \A i \in 1 .. Len(calls) : calls[i].page \in Nat
    BY <1>8, AfterHead, CallFields DEF InitContext, CarryOut
  <2>2. CASE Head(calls).page # page
    <3>1. handles = {} /\ handles' = {}
      <4>1. calls[1].page # page /\ 1 \in 1 .. Len(calls)
        BY <2>1, <2>2
      <4>2. handles' = handles
        BY <1>8, <2>2 DEF InitContext
      <4>3. QED
        BY <4>1, <4>2
    <3>2. Pages' /\ Numbers'
      BY <1>6, <1>8, <3>1 DEF InitContext, CarryOut
    <3>3. QED
      BY <3>1, <3>2
  <2>3. CASE Head(calls).page = page /\ UNCHANGED handles
    <3>1. Mine(1) /\ Pages' /\ Numbers'
      BY <1>6, <1>8, <2>1, <2>3 DEF InitContext, CarryOut
    <3>2. \A h \in handles : h.id # Head(calls).id
      BY <2>1, <3>1
    <3>3. QED
      BY <1>8, <2>1, <2>3, <3>1, <3>2 DEF InitContext
  <2>4. CASE Head(calls).page = page /\ ~ UNCHANGED handles
    <3> DEFINE new == [id |-> Head(calls).id, native |-> nextNative]
    <3>1. /\ handles' = handles \cup {new} /\ Mine(1)
          /\ page' = page /\ counter' = counter
      BY <1>8, <2>1, <2>4 DEF InitContext, CarryOut
    <3>2. \A i \in 1 .. Len(calls) : calls[i].page = page
      BY <2>1, <2>4
    <3>3. Pages'
      <4>1. ASSUME NEW i \in 1 .. Len(calls') PROVE calls'[i].page = page
        <5>1. i + 1 \in 1 .. Len(calls) /\ calls'[i] = calls[i + 1]
          BY <2>1
        <5>2. QED
          BY <3>2, <5>1
      <4>2. \A i, j \in 1 .. Len(calls') : i < j => calls'[i].page <= calls'[j].page
        BY <4>1, SMTT(20)
      <4>3. \A i \in 1 .. Len(calls') : calls'[i].page <= page
        <5>1. page \in Nat
          OBVIOUS
        <5>2. QED
          BY <4>1, <5>1
      <4>4. QED
        BY <3>1, <4>1, <4>2, <4>3
    <3>4. Numbers'
      <4>1. new.id = calls[1].id /\ new.id <= counter
        BY <2>1, <3>1
      <4>2. \A h \in handles' : h.id <= counter'
        BY <3>1, <4>1
      <4>3. ASSUME NEW i \in 1 .. Len(calls'), Mine(i)'
            PROVE  /\ calls'[i].id <= counter'
                   /\ \A h \in handles' : h.id # calls'[i].id
                   /\ \A j \in 1 .. Len(calls') :
                        i # j /\ Mine(j)' => calls'[i].id # calls'[j].id
        <5>1. /\ i + 1 \in 1 .. Len(calls) /\ 1 \in 1 .. Len(calls) /\ i + 1 # 1
              /\ calls'[i] = calls[i + 1] /\ Mine(i + 1)
          BY <2>1, <3>1, <4>3, SMTT(20)
        <5>2. /\ calls[i + 1].id <= counter
              /\ \A h \in handles : h.id # calls[i + 1].id
              /\ calls[i + 1].id # calls[1].id
          BY <3>1, <5>1
        <5>3. ASSUME NEW j \in 1 .. Len(calls'), i # j, Mine(j)'
              PROVE  calls'[i].id # calls'[j].id
          <6>1. /\ j + 1 \in 1 .. Len(calls) /\ i + 1 # j + 1
                /\ calls'[j] = calls[j + 1] /\ Mine(j + 1)
            BY <2>1, <3>1, <5>3, SMTT(20)
          <6>2. QED
            BY <5>1, <6>1
        <5>4. QED
          BY <3>1, <4>1, <5>1, <5>2, <5>3
      <4>4. QED
        BY <4>2, <4>3
    <3>5. HandlesReachTheirOwn'
      BY <1>8, <2>1, <3>1 DEF InitContext
    <3>6. QED
      BY <3>3, <3>4, <3>5
  <2>5. QED
    BY <2>2, <2>3, <2>4
<1>9. CASE ReleaseContext
  BY <1>6, <1>9 DEF ReleaseContext, CarryOut
<1>10. CASE ReleaseAllContexts
  BY <1>6, <1>10 DEF ReleaseAllContexts, CarryOut
<1>11. CASE UNCHANGED vars
  BY <1>11 DEF vars
<1>12. QED
  BY <1>1, <1>3, <1>4, <1>5, <1>7, <1>8, <1>9, <1>10, <1>11 DEF Next

(* A handle reaches its own context or none.                               *)
THEOREM HandlesAreTheirOwn == Spec => []HandlesReachTheirOwn
<1>1. Init => HInv
  BY DEF Init, HInv, Pages, Numbers, HandlesReachTheirOwn
<1>2. HInv => HandlesReachTheirOwn
  BY DEF HInv
<1>3. QED
  BY <1>1, <1>2, NextHInv, TypeCorrect, PTL DEF Spec

-----------------------------------------------------------------------------
(* The first page never gives a number out twice, so that it never         *)
(* overwrites a wrapper.                                                   *)

Fresh ==
  page = 0 =>
    /\ \A i \in Id : i > counter => wrapper[i] = None
    /\ \A i \in 1 .. Len(calls) : Mine(i) => wrapper[calls[i].id] = None

LEMMA NextFresh == TypeOK /\ HInv /\ Fresh /\ [Next]_vars => Fresh'
<1> SUFFICES ASSUME TypeOK, HInv, Fresh, [Next]_vars, page' = 0 PROVE Fresh'
  BY DEF Fresh
<1> USE DEF TypeOK, HInv, Numbers, Fresh, Mine
<1>1. CASE InitLlama
  <2> DEFINE c == [op |-> "init", id |-> counter + 1, page |-> page]
  <2>1. c \in Call /\ calls' = Append(calls, c) /\ counter + 1 \in Id /\ page = 0
    BY <1>1 DEF InitLlama, Request, Call, Id
  <2>2. /\ Len(calls) \in Nat /\ Len(calls') = Len(calls) + 1
        /\ \A i \in 1 .. Len(calls) : calls'[i] = calls[i]
        /\ calls'[Len(calls')] = c
    BY <2>1, AfterRequest
  <2>3. /\ UNCHANGED <<wrapper, page>> /\ counter' = counter + 1
        /\ \A i \in 1 .. Len(calls') : i \in 1 .. Len(calls) \/ i = Len(calls')
    BY <1>1, <2>2 DEF InitLlama, Request
  <2>4. wrapper[counter + 1] = None
    BY <2>1
  <2>5. ASSUME NEW i \in 1 .. Len(calls'), Mine(i)'
        PROVE  wrapper[calls'[i].id] = None
    <3>1. CASE i \in 1 .. Len(calls)
      BY <2>1, <2>2, <2>3, <2>5, <3>1
    <3>2. CASE i = Len(calls')
      BY <2>2, <2>4, <3>2
    <3>3. QED
      BY <2>3, <3>1, <3>2
  <2>6. \A i \in Id : i > counter' => wrapper'[i] = None
    BY <2>1, <2>3 DEF Id
  <2>7. QED
    BY <2>3, <2>5, <2>6
<1>2. ASSUME NEW c \in Call, c.op # "init", Request(c), UNCHANGED jsVars
      PROVE  Fresh'
  <2>1. /\ Len(calls) \in Nat /\ Len(calls') = Len(calls) + 1
        /\ \A i \in 1 .. Len(calls) : calls'[i] = calls[i]
        /\ calls'[Len(calls')] = c
    BY <1>2, AfterRequest DEF Request
  <2>2. QED
    BY <1>2, <2>1 DEF Request, jsVars
<1>3. ASSUME NEW h \in handles, Release(h) PROVE Fresh'
  <2>1. [op |-> "release", id |-> h.id, page |-> page] \in Call
    BY DEF Call
  <2>2. QED
    BY <1>2, <1>3, <2>1 DEF Release
<1>4. CASE ReleaseAllLlama
  <2>1. [op |-> "releaseAll", page |-> page] \in Call
    BY DEF Call
  <2>2. QED
    BY <1>2, <1>4, <2>1 DEF ReleaseAllLlama
<1>5. CASE Reload
  BY <1>5 DEF Reload
<1>6. ASSUME calls # <<>>, calls' = Tail(calls), UNCHANGED <<page, counter>>
      PROVE  /\ Len(calls) \in Nat /\ Len(calls) >= 1 /\ Head(calls) = calls[1]
             /\ Head(calls) \in Call
             /\ Len(calls') = Len(calls) - 1
             /\ \A i \in 1 .. Len(calls') :
                  /\ calls'[i] = calls[i + 1] /\ i + 1 \in 1 .. Len(calls)
                  /\ Mine(i)' => Mine(i + 1)
  BY <1>6, AfterHead
<1>7. CASE InitContextRejected
  <2>1. page = 0
    BY <1>7 DEF InitContextRejected, CarryOut
  <2>2. QED
    BY <1>6, <1>7, <2>1 DEF InitContextRejected, CarryOut
<1>8. CASE InitContext
  <2>1. /\ page = 0 /\ UNCHANGED <<page, counter>>
        /\ Head(calls).op = "init" /\ Head(calls) = calls[1] /\ 1 \in 1 .. Len(calls)
        /\ Head(calls).id \in Id
        /\ wrapper' = [wrapper EXCEPT ![Head(calls).id] = nextNative]
    BY <1>6, <1>8, CallFields DEF InitContext, CarryOut
  <2>2. Mine(1)
    <3>1. Head(calls).page \in Nat /\ Head(calls).page <= page
      BY <1>6, <1>8, <2>1, CallFields DEF InitContext, CarryOut, Pages
    <3>2. QED
      BY <2>1, <3>1
  <2>3. calls[1].id <= counter
    BY <2>1, <2>2
  <2>4. \A i \in Id : i > counter' => wrapper'[i] = None
    BY <2>1, <2>3 DEF Id
  <2>5. ASSUME NEW i \in 1 .. Len(calls'), Mine(i)'
        PROVE  wrapper'[calls'[i].id] = None
    <3>1. /\ calls'[i] = calls[i + 1] /\ i + 1 \in 1 .. Len(calls)
          /\ Mine(i + 1) /\ i + 1 # 1
      BY <1>6, <1>8, <2>5, SMTT(20) DEF InitContext, CarryOut
    <3>2. calls[i + 1].id # calls[1].id /\ wrapper[calls[i + 1].id] = None
      BY <2>1, <2>2, <3>1
    <3>3. QED
      BY <2>1, <3>1, <3>2
  <2>6. QED
    BY <2>4, <2>5
<1>9. ASSUME CarryOut("release") \/ CarryOut("releaseAll"),
             \A i \in Id : wrapper'[i] = None \/ wrapper'[i] = wrapper[i]
      PROVE  Fresh'
  <2>1. /\ page = 0 /\ UNCHANGED <<page, counter>>
        /\ \A i \in 1 .. Len(calls') :
             /\ calls'[i] = calls[i + 1] /\ i + 1 \in 1 .. Len(calls)
             /\ Mine(i)' => Mine(i + 1)
    BY <1>6, <1>9 DEF CarryOut
  <2>2. \A i \in 1 .. Len(calls) : Mine(i) => calls[i].id \in Id
    BY CallFields
  <2>3. QED
    BY <1>9, <2>1, <2>2, SMTT(20)
<1>10. CASE ReleaseContext
  BY <1>9, <1>10 DEF ReleaseContext
<1>11. CASE ReleaseAllContexts
  BY <1>9, <1>11 DEF ReleaseAllContexts
<1>12. CASE UNCHANGED vars
  BY <1>12 DEF vars
<1>13. QED
  BY <1>1, <1>3, <1>4, <1>5, <1>7, <1>8, <1>10, <1>11, <1>12 DEF Next

LEMMA InvFresh == Spec => [](TypeOK /\ HInv /\ Fresh)
<1>1. Init => HInv /\ Fresh
  BY DEF Init, HInv, Pages, Numbers, HandlesReachTheirOwn, Fresh, Mine
<1>2. QED
  BY <1>1, NextHInv, NextFresh, TypeCorrect, PTL DEF Spec

(* What the head of the queue does to the wrapper it names.                *)
LEMMA HeadIsFresh ==
  ASSUME TypeOK, HInv, Fresh, InitContext, page = 0
  PROVE  Head(calls).id \in Id /\ wrapper[Head(calls).id] = None
<1>1. /\ Head(calls) = calls[1] /\ 1 \in 1 .. Len(calls) /\ Head(calls) \in Call
      /\ Head(calls).op = "init"
  BY AfterHead DEF TypeOK, InitContext, CarryOut
<1>2. Head(calls).page = 0 /\ Head(calls).id \in Id
  BY <1>1, CallFields DEF HInv, Pages, TypeOK
<1>3. QED
  BY <1>1, <1>2 DEF Fresh, Mine

(* A model becomes unreachable only by releaseAllContexts on Android, or   *)
(* after a reload.                                                         *)
THEOREM LeaksAreAccountedFor == Spec => LeaksAccountedFor
<1> DEFINE Leak == ~(Leaked' \subseteq Leaked) =>
             \/ platform = "android" /\ Head(calls).op = "releaseAll"
             \/ page > 0
<1>1. TypeOK /\ HInv /\ Fresh /\ [Next]_vars => [Leak]_vars
  <2> SUFFICES ASSUME TypeOK, HInv, Fresh, [Next]_vars, ~(page > 0) PROVE Leak
    OBVIOUS
  <2>0. page = 0
    BY DEF TypeOK
  <2> USE DEF Leaked, Range
  <2>1. CASE InitContext
    <3>1. Head(calls).id \in Id /\ wrapper[Head(calls).id] = None
      BY <2>0, <2>1, HeadIsFresh
    <3>2. /\ native' = native \cup {nextNative}
          /\ wrapper' = [wrapper EXCEPT ![Head(calls).id] = nextNative]
      BY <2>1 DEF InitContext
    <3>3. Leaked' \subseteq Leaked
      <4>1. SUFFICES ASSUME NEW n \in native', n \notin Range(wrapper'), n \in Range(wrapper)
                     PROVE  FALSE
        BY <3>1, <3>2 DEF TypeOK
      <4>2. PICK j \in Id : wrapper[j] = n
        BY <4>1 DEF TypeOK
      <4>3. wrapper'[Head(calls).id] = nextNative /\ n # nextNative
        BY <3>1, <3>2, <4>1 DEF TypeOK
      <4>4. n # None /\ j # Head(calls).id
        BY <3>1, <3>2, <4>2, <4>3 DEF TypeOK, NativeId
      <4>5. QED
        BY <3>2, <4>1, <4>2, <4>4 DEF TypeOK
    <3>4. QED
      BY <3>3
  <2>2. CASE ReleaseContext
    <3>1. Head(calls).id \in Id
      BY <2>2, AfterHead, CallFields DEF ReleaseContext, CarryOut, TypeOK
    <3>2. QED
      BY <2>2, <3>1 DEF ReleaseContext, TypeOK
  <2>3. CASE ReleaseAllContexts
    BY <2>3 DEF ReleaseAllContexts, CarryOut, TypeOK
  <2>4. ASSUME UNCHANGED <<wrapper, native>> PROVE Leak
    BY <2>4
  <2>5. QED
    BY <2>1, <2>2, <2>3, <2>4
    DEF Next, InitLlama, Release, ReleaseAllLlama, Request, Reload,
        InitContextRejected, vars
<1>2. QED
  BY <1>1, InvFresh, PTL DEF Spec, LeaksAccountedFor

-----------------------------------------------------------------------------
(* The cap on iOS: every model has its wrapper, and wrappers are counted.  *)

Counted ==
  platform = "ios" /\ page = 0 =>
    /\ native \subseteq {wrapper[i] : i \in Wrapped}
    /\ Cardinality(Wrapped) <= MaxModels

LEMMA WrappedFinite == IsFiniteSet(Wrapped) /\ Cardinality(Wrapped) \in Nat
<1>1. IsFiniteSet(Id)
  BY FS_Interval DEF Id
<1>2. QED
  BY <1>1, FS_Subset, FS_CardinalityType DEF Wrapped

LEMMA NextCounted ==
  TypeOK /\ HInv /\ Fresh /\ Counted /\ [Next]_vars => Counted'
<1> SUFFICES ASSUME TypeOK, HInv, Fresh, Counted, [Next]_vars,
                    platform' = "ios", page' = 0
             PROVE  Counted'
  BY DEF Counted
<1> USE DEF TypeOK
<1>1. CASE InitContext
  <2> DEFINE k == Head(calls).id
  <2>1. /\ platform = "ios" /\ page = 0
        /\ wrapper' = [wrapper EXCEPT ![k] = nextNative]
        /\ native' = native \cup {nextNative}
        /\ Cardinality(Wrapped) < MaxModels /\ nextNative \in Nat
    BY <1>1 DEF InitContext, CarryOut
  <2>2. k \in Id /\ wrapper[k] = None
    BY <1>1, <2>1, HeadIsFresh
  <2>3. Wrapped' = Wrapped \cup {k} /\ k \notin Wrapped
    BY <2>1, <2>2 DEF Wrapped
  <2>4. Cardinality(Wrapped') = Cardinality(Wrapped) + 1
    BY <2>3, WrappedFinite, FS_AddElement
  <2>5. native' \subseteq {wrapper'[i] : i \in Wrapped'}
    BY <2>1, <2>2, <2>3 DEF Counted, Wrapped
  <2>6. Cardinality(Wrapped') <= MaxModels
    BY <2>1, <2>4, WrappedFinite
  <2>7. QED
    BY <2>5, <2>6 DEF Counted
<1>2. ASSUME Wrapped' \subseteq Wrapped, platform = "ios", page = 0,
             native' \subseteq {wrapper'[i] : i \in Wrapped'}
      PROVE  Counted'
  <2>1. Cardinality(Wrapped') <= Cardinality(Wrapped) /\ Cardinality(Wrapped') \in Nat
    BY <1>2, WrappedFinite, FS_Subset, FS_CardinalityType
  <2>2. QED
    BY <1>2, <2>1, WrappedFinite DEF Counted
<1>3. CASE ReleaseContext
  <2>1. /\ platform = "ios" /\ page = 0 /\ Head(calls).id \in Id
        /\ native' = native \ {wrapper[Head(calls).id]}
        /\ wrapper' = [wrapper EXCEPT ![Head(calls).id] = None]
    BY <1>3, AfterHead, CallFields DEF ReleaseContext, CarryOut
  <2>2. Wrapped' = Wrapped \ {Head(calls).id}
    BY <2>1 DEF Wrapped
  <2>3. native' \subseteq {wrapper'[i] : i \in Wrapped'}
    BY <2>1, <2>2 DEF Counted, Wrapped
  <2>4. QED
    BY <1>2, <2>1, <2>2, <2>3
<1>4. CASE ReleaseAllContexts
  <2>1. /\ platform = "ios" /\ page = 0 /\ native' = native \ Range(wrapper)
        /\ wrapper' = [i \in Id |-> None]
    BY <1>4 DEF ReleaseAllContexts, CarryOut
  <2>2. native' = {} /\ Wrapped' = {}
    BY <2>1 DEF Counted, Wrapped, Range
  <2>3. QED
    BY <1>2, <2>1, <2>2
<1>5. ASSUME UNCHANGED <<platform, page, wrapper, native>> PROVE Counted'
  BY <1>5 DEF Counted, Wrapped
<1>6. ~ Reload
  BY DEF Reload
<1>7. QED
  BY <1>1, <1>3, <1>4, <1>5, <1>6
  DEF Next, InitLlama, Release, ReleaseAllLlama, Request, jsVars,
      InitContextRejected, CarryOut, vars

(* On iOS, before a reload, the models in memory are at most MaxModels.    *)
THEOREM CapHoldsOnIos == Spec => []CapOnIos
<1>1. Init => Counted
  <2>1. Init => Wrapped = {} /\ native = {}
    BY DEF Init, Wrapped
  <2>2. QED
    BY <2>1, FS_EmptySet DEF Counted
<1>2. ASSUME Counted, TypeOK PROVE CapOnIos
  <2> SUFFICES ASSUME platform = "ios", page = 0
               PROVE  Cardinality(native) <= MaxModels
    BY DEF CapOnIos
  <2> DEFINE image == {wrapper[i] : i \in Wrapped}
  <2>1. IsFiniteSet(image) /\ Cardinality(image) <= Cardinality(Wrapped)
    <3>1. [i \in Wrapped |-> wrapper[i]] \in Surjection(Wrapped, image)
      BY DEF Surjection
    <3>2. QED
      BY <3>1, WrappedFinite, FS_Surjection
  <2>2. Cardinality(native) <= Cardinality(image)
    BY <1>2, <2>1, FS_Subset DEF Counted
  <2>3. /\ Cardinality(native) \in Nat /\ Cardinality(image) \in Nat
        /\ Cardinality(Wrapped) <= MaxModels
    BY <1>2, <2>1, WrappedFinite, FS_Subset, FS_CardinalityType DEF Counted
  <2>4. QED
    BY <2>1, <2>2, <2>3, WrappedFinite
<1>3. QED
  BY <1>1, <1>2, NextCounted, InvFresh, PTL DEF Spec
=============================================================================
