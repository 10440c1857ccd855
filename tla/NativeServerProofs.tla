------------------------- MODULE NativeServerProofs -------------------------
(***************************************************************************)
(* Proofs about the native server.  Of SseStream, for every number of      *)
(* tokens: types, the order of the lines across batches, a complete        *)
(* response being whole, and the implementation of TokenStream.  Of        *)
(* NativeServer, for any number of requests, models and contexts: types,   *)
(* the registry and the bridge's table agreeing, the context of a running  *)
(* inference, the embedding table, the load limit and what stop() leaves   *)
(* behind.                                                                 *)
(***************************************************************************)
EXTENDS NativeServer, SseStream, FiniteSetTheorems, SequenceTheorems, TLAPS

USE MaxTokensAssumption

-----------------------------------------------------------------------------
(* Where the lines are does not matter to the stream.                      *)

LEMMA AppendLast ==
  ASSUME NEW S, NEW s \in Seq(S), NEW t \in Seq(S), NEW e \in S
  PROVE  s \o Append(t, e) = Append(s \o t, e)
<1>1. <<e>> \in Seq(S) /\ s \o t \in Seq(S)
  BY ConcatProperties
<1>2. Append(t, e) = t \o <<e>> /\ Append(s \o t, e) = (s \o t) \o <<e>>
  BY <1>1, AppendIsConcat
<1>3. QED
  BY <1>1, <1>2, ConcatAssociative

LEMMA TwoLines ==
  ASSUME NEW S, NEW d \in S, NEW e \in S
  PROVE  <<d, e>> = <<d>> \o <<e>> /\ <<d>> \in Seq(S) /\ <<e>> \in Seq(S)
<1>1. <<d, e>> = Append(<<d>>, e) /\ <<d>> \in Seq(S) /\ <<e>> \in Seq(S)
  OBVIOUS
<1>2. QED
  BY <1>1, AppendIsConcat

LEMMA MoveHead ==
  ASSUME NEW S, NEW s \in Seq(S), NEW t \in Seq(S), t # <<>>
  PROVE  Append(s, Head(t)) \o Tail(t) = s \o t
<1>1. Head(t) \in S /\ Tail(t) \in Seq(S) /\ <<Head(t)>> \in Seq(S)
  BY HeadTailProperties
<1>2. Append(s, Head(t)) = s \o <<Head(t)>>
  BY <1>1, AppendIsConcat
<1>3. <<Head(t)>> \o Tail(t) = t
  <2>1. /\ <<Head(t)>> \o Tail(t) \in Seq(S)
        /\ Len(<<Head(t)>>) = 1
        /\ Len(Tail(t)) = Len(t) - 1
        /\ Len(t) \in Nat
        /\ \A i \in 1 .. Len(Tail(t)) : Tail(t)[i] = t[i + 1]
        /\ <<Head(t)>>[1] = t[1]
    BY <1>1, ConcatProperties, HeadTailProperties, LenProperties
  <2>2. Len(<<Head(t)>> \o Tail(t)) = Len(t)
    BY <1>1, <2>1, ConcatProperties
  <2>3. \A i \in 1 .. Len(t) :
          (<<Head(t)>> \o Tail(t))[i] = IF i <= 1 THEN <<Head(t)>>[i] ELSE Tail(t)[i - 1]
    BY <1>1, <2>1, ConcatProperties
  <2>4. \A i \in 1 .. Len(t) : (<<Head(t)>> \o Tail(t))[i] = t[i]
    BY <2>1, <2>3
  <2>5. QED
    BY <2>1, <2>2, <2>4, SeqEqual
<1>4. QED
  BY <1>1, <1>2, <1>3, ConcatAssociative

-----------------------------------------------------------------------------
(* Types, and how the flags of the two threads relate.                     *)

Flags ==
  /\ producerDone <=> producer = "finished"
  /\ done => producerDone
  /\ consumer = "waiting" => batch = <<>>
  /\ consumer = "complete" => producerDone /\ batch = <<>> /\ pending = <<>>

TInv == StreamTypeOK /\ Flags

LEMMA Lines ==
  /\ Role \in Line /\ Error \in Line /\ Final \in Line /\ Done \in Line
  /\ \A i \in 1 .. MaxTokens : Token(i) \in Line
  /\ Role # Done /\ Error # Done /\ Final # Done
  /\ \A i \in Nat : Token(i) # Done
<1>1. /\ Role \in Line /\ Error \in Line /\ Final \in Line /\ Done \in Line
      /\ \A i \in 1 .. MaxTokens : Token(i) \in Line
  BY DEF Line
<1>2. /\ Role.type = "role" /\ Error.type = "error" /\ Final.type = "final"
      /\ Done.type = "DONE" /\ \A i \in Nat : Token(i).type = "token"
  BY DEF Role, Error, Final, Done, Token
<1>3. QED
  BY <1>1, <1>2

LEMMA InitTInv == StreamInit => TInv
<1> SUFFICES ASSUME StreamInit PROVE TInv
  OBVIOUS
<1>e. <<>> \in Seq(Line)
  BY EmptySeq
<1>1. pending \in Seq(Line) /\ batch \in Seq(Line) /\ sent \in Seq(Line)
  BY <1>e DEF StreamInit
<1>2. predicted \in 0 .. MaxTokens
  BY DEF StreamInit
<1>3. sentRole \in BOOLEAN /\ producerDone \in BOOLEAN /\ done \in BOOLEAN
  BY DEF StreamInit
<1>4. /\ kind \in {"chat", "completion"} /\ producer = "generating"
      /\ consumer = "waiting"
  BY DEF StreamInit
<1>5. StreamTypeOK
  BY <1>1, <1>2, <1>3, <1>4 DEF StreamTypeOK
<1>6. Flags
  BY DEF StreamInit, Flags
<1>7. QED
  BY <1>5, <1>6 DEF TInv

LEMMA NextTInv == TInv /\ [StreamNext]_streamVars => TInv'
<1> SUFFICES ASSUME TInv, [StreamNext]_streamVars PROVE TInv'
  OBVIOUS
<1> USE DEF TInv, StreamTypeOK, Flags
<1>e. <<>> \in Seq(Line) /\ <<Final, Done>> \in Seq(Line)
  BY Lines, EmptySeq
<1>1. CASE SilentToken
  BY <1>1 DEF SilentToken, consumerVars
<1>2. CASE SendRole
  BY <1>2, Lines, AppendProperties DEF SendRole, Enqueue, consumerVars
<1>3. CASE SendToken
  <2>1. predicted + 1 \in 1 .. MaxTokens
    BY <1>3 DEF SendToken
  <2>2. pending' \in Seq(Line)
    BY <1>3, <2>1, Lines, AppendProperties DEF SendToken, Enqueue
  <2>3. QED
    BY <1>3, <2>1, <2>2 DEF SendToken, consumerVars
<1>4. CASE StopGenerating
  BY <1>4 DEF StopGenerating, consumerVars
<1>5. CASE FailGenerating
  BY <1>5, Lines, AppendProperties DEF FailGenerating, Enqueue, consumerVars
<1>6. CASE FinishStream
  BY <1>6, <1>e, ConcatProperties DEF FinishStream, consumerVars
<1>7. CASE Swap
  BY <1>7, <1>e DEF Swap, producerVars
<1>8. CASE Write
  <2>1. sent' \in Seq(Line) /\ batch' \in Seq(Line)
    BY <1>8, HeadTailProperties, AppendProperties DEF Write
  <2>2. QED
    BY <1>8, <2>1 DEF Write, producerVars
<1>9. CASE WriteFails
  BY <1>9 DEF WriteFails, producerVars
<1>10. CASE BatchWritten
  BY <1>10 DEF BatchWritten, producerVars
<1>11. CASE UNCHANGED streamVars
  BY <1>11 DEF streamVars
<1>12. QED
  BY <1>1, <1>2, <1>3, <1>4, <1>5, <1>6, <1>7, <1>8, <1>9, <1>10, <1>11
     DEF StreamNext, Produce, Consume

(* The queue, the batch and the socket only ever hold lines of the stream. *)
THEOREM StreamTypeCorrect == StreamSpec => []StreamTypeOK
<1>1. TInv => StreamTypeOK
  BY DEF TInv
<1>2. QED
  BY <1>1, InitTInv, NextTInv, PTL DEF StreamSpec

-----------------------------------------------------------------------------
(* What the two threads do to the stream as a whole: the producer appends, *)
(* the consumer moves lines along it and changes nothing.                  *)

LEMMA StreamSeq == TInv => Stream \in Seq(Line) /\ sent \o batch \in Seq(Line)
  BY ConcatProperties DEF TInv, StreamTypeOK, Stream

LEMMA Appends ==
  ASSUME TInv, NEW l \in Line, Enqueue(l), UNCHANGED consumerVars
  PROVE  Stream' = Append(Stream, l)
<1>1. Stream' = (sent \o batch) \o Append(pending, l)
  BY DEF Stream, Enqueue, consumerVars
<1>2. QED
  BY <1>1, StreamSeq, AppendLast DEF Stream, TInv, StreamTypeOK

LEMMA Moves ==
  ASSUME TInv, Consume
  PROVE  Stream' = Stream
<1> USE DEF TInv, StreamTypeOK
<1>1. CASE Swap
  <2>1. batch = <<>> /\ sent \o batch = sent
    BY <1>1, ConcatEmptySeq DEF Swap, Flags
  <2>2. Stream' = (sent \o pending) \o <<>>
    BY <1>1 DEF Swap, Stream
  <2>3. Stream' = sent \o pending
    BY <2>2, ConcatProperties, ConcatEmptySeq
  <2>4. QED
    BY <2>1, <2>3 DEF Stream
<1>2. CASE Write
  BY <1>2, MoveHead DEF Write, Stream
<1>3. CASE WriteFails \/ BatchWritten
  BY <1>3 DEF WriteFails, BatchWritten, Stream
<1>4. QED
  BY <1>1, <1>2, <1>3 DEF Consume

-----------------------------------------------------------------------------
(* The order of the lines.  The inductive invariant bounds the rank of     *)
(* what was produced by how far the producer got.                          *)

Increasing(s) == \A i, j \in 1 .. Len(s) : i < j => Rank(s[i]) < Rank(s[j])
Below(s, n) == \A i \in 1 .. Len(s) : Rank(s[i]) < n

Closed(s) ==
  Len(s) >= 2 /\ s[Len(s)] = Done /\ s[Len(s) - 1] = Final

OInv ==
  /\ Increasing(Stream)
  /\ producer \in {"generating", "token"} => Below(Stream, predicted + 1)
  /\ producer = "result" => Below(Stream, MaxTokens + 2)
  /\ producer = "finished" => Closed(Stream)
  /\ producer = "token" => sentRole
  /\ sentRole => Stream # <<>>
  /\ kind = "chat" /\ ~sentRole /\ producer = "generating" => Stream = <<>>
  /\ kind = "chat" /\ Stream # <<>> => Stream[1].type # "token"

LEMMA Ranks ==
  /\ Rank(Role) = 0
  /\ \A i \in 1 .. MaxTokens : Rank(Token(i)) = i
  /\ Rank(Error) = MaxTokens + 1
  /\ Rank(Final) = MaxTokens + 2
  /\ Rank(Done) = MaxTokens + 3
  /\ Role.type # "token" /\ Error.type # "token" /\ Final.type # "token"
  /\ \A l \in Line : Rank(l) \in Nat
<1>1. /\ Role.type = "role" /\ Error.type = "error" /\ Final.type = "final"
      /\ Done.type = "DONE"
  BY DEF Role, Error, Final, Done
<1>2. \A i \in 1 .. MaxTokens : Token(i).type = "token" /\ Token(i).index = i
  BY DEF Token
<1>3. /\ Rank(Role) = 0 /\ Rank(Error) = MaxTokens + 1
      /\ Rank(Final) = MaxTokens + 2 /\ Rank(Done) = MaxTokens + 3
  BY <1>1 DEF Rank
<1>4. \A i \in 1 .. MaxTokens : Rank(Token(i)) = i
  BY <1>2 DEF Rank
<1>5. QED
  BY <1>1, <1>3, <1>4 DEF Line

(* Appending a line of a higher rank keeps the ranks increasing.           *)
LEMMA AppendIncreasing ==
  ASSUME NEW s \in Seq(Line), NEW l \in Line, NEW n \in Nat, NEW m \in Nat,
         Increasing(s), Below(s, n), Rank(l) >= n, Rank(l) < m, n <= m
  PROVE  /\ Increasing(Append(s, l))
         /\ Below(Append(s, l), m)
         /\ Append(s, l) # <<>>
         /\ Append(s, l)[1] = IF s = <<>> THEN l ELSE s[1]
<1> DEFINE t == Append(s, l)
<1>1. /\ Len(s) \in Nat /\ Len(t) = Len(s) + 1
      /\ \A i \in 1 .. Len(s) : t[i] = s[i]
      /\ t[Len(s) + 1] = l
      /\ t # <<>>
      /\ s = <<>> => Len(s) = 0
      /\ s # <<>> => Len(s) > 0
  BY AppendProperties, LenProperties, EmptySeq
<1>2. Rank(l) \in Nat /\ \A i \in 1 .. Len(s) : Rank(s[i]) \in Nat
  BY Ranks, ElementOfSeq
<1> HIDE DEF t
<1>3. Increasing(t)
  BY <1>1, <1>2, SMTT(20) DEF Increasing, Below
<1>4. Below(t, m)
  BY <1>1, <1>2 DEF Below
<1>5. t[1] = IF s = <<>> THEN l ELSE s[1]
  BY <1>1
<1>6. QED
  BY <1>1, <1>3, <1>4, <1>5 DEF t

LEMMA InitOInv == StreamInit => OInv
<1> SUFFICES ASSUME StreamInit PROVE OInv
  OBVIOUS
<1>1. Stream = <<>>
  BY EmptySeq, ConcatEmptySeq DEF StreamInit, Stream
<1>2. QED
  BY <1>1 DEF StreamInit, OInv, Increasing, Below

LEMMA NextOInv == TInv /\ OInv /\ [StreamNext]_streamVars => OInv'
<1> SUFFICES ASSUME TInv, OInv, [StreamNext]_streamVars PROVE OInv'
  OBVIOUS
<1>t. /\ Stream \in Seq(Line) /\ predicted \in 0 .. MaxTokens
      /\ kind \in {"chat", "completion"} /\ sentRole \in BOOLEAN
  BY StreamSeq DEF TInv, StreamTypeOK
<1>r. \A i \in 1 .. Len(Stream) : Rank(Stream[i]) \in Nat
  BY <1>t, Ranks, ElementOfSeq
<1>1. CASE SilentToken
  <2>1. Stream' = Stream
    BY <1>1 DEF SilentToken, consumerVars, Stream
  <2>2. Below(Stream, predicted + 2)
    BY <1>1, <1>t, <1>r DEF OInv, Below, SilentToken
  <2>3. QED
    BY <1>1, <1>t, <2>1, <2>2 DEF SilentToken, OInv, Increasing, Below, Closed
<1>2. CASE SendRole
  <2>1. Stream' = Append(Stream, Role)
    BY <1>2, Lines, Appends DEF SendRole
  <2>2. Stream = <<>> /\ Below(Stream, 0)
    BY <1>2, EmptySeq DEF SendRole, OInv, Below
  <2> DEFINE n == predicted + 1
  <2>3. /\ Rank(Role) >= 0 /\ Rank(Role) < n /\ Role \in Line
        /\ 0 \in Nat /\ n \in Nat /\ 0 <= n /\ Increasing(Stream)
    BY <1>t, Lines, Ranks DEF OInv
  <2> HIDE DEF n
  <2>a. Increasing(Append(Stream, Role)) /\ Below(Append(Stream, Role), n)
        /\ Append(Stream, Role) # <<>> /\ Append(Stream, Role)[1] = Role
    BY <1>t, <2>2, <2>3, AppendIncreasing
  <2>4. /\ Increasing(Stream') /\ Below(Stream', predicted + 1)
        /\ Stream' # <<>> /\ Stream'[1] = Role
    BY <2>1, <2>a DEF n
  <2>5. kind' = kind /\ sentRole' = TRUE /\ predicted' = predicted /\ producer' = "token"
    BY <1>2 DEF SendRole
  <2>6. QED
    BY <2>4, <2>5, Ranks DEF OInv
<1>3. CASE SendToken
  <2>1. predicted + 1 \in 1 .. MaxTokens
    BY <1>3, <1>t DEF SendToken
  <2>2. Stream' = Append(Stream, Token(predicted + 1))
    BY <1>3, <2>1, Lines, Appends DEF SendToken
  <2>3. Below(Stream, predicted + 1)
    BY <1>3 DEF SendToken, OInv
  <2>4. /\ Increasing(Stream') /\ Below(Stream', predicted + 2)
        /\ Stream'[1] = IF Stream = <<>> THEN Token(predicted + 1) ELSE Stream[1]
        /\ Stream' # <<>>
    BY <1>t, <2>1, <2>2, <2>3, Lines, Ranks, AppendIncreasing DEF OInv
  <2>5. kind = "chat" => sentRole
    BY <1>3 DEF SendToken, OInv
  <2>6. kind = "chat" => Stream # <<>>
    BY <2>5 DEF OInv
  <2>7. /\ kind' = kind /\ sentRole' = sentRole /\ predicted' = predicted + 1
        /\ producer' = "generating"
    BY <1>3 DEF SendToken
  <2>8. QED
    BY <1>t, <2>4, <2>5, <2>6, <2>7 DEF OInv
<1>4. CASE StopGenerating
  <2>1. Stream' = Stream
    BY <1>4 DEF StopGenerating, consumerVars, Stream
  <2>2. Below(Stream, MaxTokens + 2)
    BY <1>4, <1>t, <1>r DEF OInv, Below, StopGenerating
  <2>3. QED
    BY <1>4, <2>1, <2>2 DEF StopGenerating, OInv, Increasing, Below
<1>5. CASE FailGenerating
  <2>1. Stream' = Append(Stream, Error)
    BY <1>5, Lines, Appends DEF FailGenerating
  <2>2. Below(Stream, predicted + 1) /\ Increasing(Stream)
    BY <1>5 DEF FailGenerating, OInv
  <2> DEFINE n == predicted + 1
  <2>6. /\ Rank(Error) >= n /\ Rank(Error) < MaxTokens + 2 /\ Error \in Line
        /\ n \in Nat /\ MaxTokens + 2 \in Nat /\ n <= MaxTokens + 2 /\ Below(Stream, n)
    BY <1>t, <2>2, Lines, Ranks
  <2> HIDE DEF n
  <2>3. /\ Increasing(Stream') /\ Below(Stream', MaxTokens + 2) /\ Stream' # <<>>
        /\ Stream'[1] = IF Stream = <<>> THEN Error ELSE Stream[1]
    BY <1>t, <2>1, <2>2, <2>6, AppendIncreasing
  <2>4. kind' = kind /\ producer' = "result" /\ sentRole' = sentRole
    BY <1>5 DEF FailGenerating
  <2>5. QED
    BY <2>3, <2>4, Ranks DEF OInv
<1>6. CASE FinishStream
  <2> DEFINE s == Append(Stream, Final)
  <2>1. Stream' = Append(s, Done)
    <3>1. pending' = Append(Append(pending, Final), Done)
      BY <1>6, Lines, AppendIsConcat, AppendProperties, ConcatAssociative, TwoLines
         DEF FinishStream, TInv, StreamTypeOK
    <3>2. Stream' = (sent \o batch) \o Append(Append(pending, Final), Done)
      BY <1>6, <3>1 DEF FinishStream, consumerVars, Stream
    <3>3. Append(pending, Final) \in Seq(Line) /\ pending \in Seq(Line)
      BY Lines, AppendProperties DEF TInv, StreamTypeOK
    <3>4. sent \o batch \in Seq(Line) /\ Final \in Line /\ Done \in Line
      BY StreamSeq, Lines
    <3>5. (sent \o batch) \o Append(pending, Final) = s
      BY <3>3, <3>4, AppendLast DEF Stream
    <3>6. (sent \o batch) \o Append(Append(pending, Final), Done)
            = Append((sent \o batch) \o Append(pending, Final), Done)
      BY <3>3, <3>4, AppendLast
    <3>7. QED
      BY <3>2, <3>5, <3>6
  <2>2. Increasing(Stream) /\ Below(Stream, MaxTokens + 2)
    BY <1>6 DEF FinishStream, OInv
  <2>3. /\ Increasing(s) /\ Below(s, MaxTokens + 3) /\ s \in Seq(Line)
        /\ s # <<>> /\ s[1] = IF Stream = <<>> THEN Final ELSE Stream[1]
    BY <1>t, <2>2, Lines, Ranks, AppendIncreasing, AppendProperties
  <2>4. Len(s) \in Nat /\ Len(s) >= 1 /\ s[Len(s)] = Final
    BY <1>t, Lines, AppendProperties, LenProperties
  <2> HIDE DEF s
  <2>a. /\ Rank(Done) >= MaxTokens + 3 /\ Rank(Done) < MaxTokens + 4 /\ Done \in Line
        /\ MaxTokens + 3 \in Nat /\ MaxTokens + 4 \in Nat /\ MaxTokens + 3 <= MaxTokens + 4
    BY Lines, Ranks
  <2>5. Increasing(Stream') /\ Stream' # <<>> /\ Stream'[1] = s[1]
    BY <2>1, <2>3, <2>a, AppendIncreasing
  <2>6. Closed(Stream')
    BY <2>1, <2>3, <2>4, Lines, AppendProperties DEF Closed
  <2>7. kind' = kind /\ producer' = "finished"
    BY <1>6 DEF FinishStream
  <2>8. QED
    BY <2>3, <2>5, <2>6, <2>7, Ranks DEF OInv
<1>7. CASE Consume
  <2>1. Stream' = Stream /\ UNCHANGED producerVars
    BY <1>7, Moves DEF Consume, Swap, Write, WriteFails, BatchWritten
  <2>2. QED
    BY <2>1 DEF OInv, Increasing, Below, Closed, producerVars
<1>8. CASE UNCHANGED streamVars
  BY <1>8 DEF streamVars, OInv, Increasing, Below, Closed, Stream
<1>9. QED
  BY <1>1, <1>2, <1>3, <1>4, <1>5, <1>6, <1>7, <1>8 DEF StreamNext, Produce

(* Across batches, sockets and threads the client's lines are in order:    *)
(* role, tokens by index, error, Final, [DONE], none of them twice.        *)
THEOREM StreamInOrder == StreamSpec => []LinesInOrder
<1>1. TInv /\ OInv => LinesInOrder
  <2> SUFFICES ASSUME TInv, OInv PROVE LinesInOrder
    OBVIOUS
  <2>1. Stream \in Seq(Line) /\ Len(Stream) \in Nat /\ (Stream # <<>> => Len(Stream) > 0)
    BY StreamSeq, LenProperties, EmptySeq
  <2>2. ASSUME ~producerDone, Stream # <<>>
        PROVE  Stream[Len(Stream)] # Done
    <3>1. Rank(Stream[Len(Stream)]) < MaxTokens + 3
      <4>1. producer \in {"generating", "token", "result"} /\ predicted \in 0 .. MaxTokens
        BY <2>2 DEF TInv, StreamTypeOK, Flags
      <4>2. Len(Stream) \in 1 .. Len(Stream) /\ Rank(Stream[Len(Stream)]) \in Nat
        BY <2>1, <2>2, Ranks, ElementOfSeq
      <4>3. QED
        BY <4>1, <4>2 DEF OInv, Below
    <3>2. QED
      BY <3>1, Ranks
  <2>3. producerDone => Closed(Stream)
    BY DEF TInv, Flags, OInv
  <2>4. producerDone => Stream # <<>> /\ Stream[Len(Stream)] = Done
    BY <2>1, <2>3, EmptySeq DEF Closed
  <2>5. QED
    BY <2>1, <2>2, <2>4 DEF LinesInOrder, OInv, Increasing
<1>2. QED
  BY <1>1, InitTInv, NextTInv, InitOInv, NextOInv, PTL DEF StreamSpec

(* A response closed by sink.done() has delivered the whole stream.        *)
THEOREM CompleteIsWhole == StreamSpec => []CompleteMeansAll
<1>1. TInv /\ OInv => CompleteMeansAll
  <2> SUFFICES ASSUME TInv, OInv, consumer = "complete"
               PROVE  /\ batch = <<>> /\ pending = <<>> /\ producer = "finished"
                      /\ Closed(sent)
    BY DEF CompleteMeansAll, Closed
  <2>1. batch = <<>> /\ pending = <<>> /\ producer = "finished"
    BY DEF TInv, Flags
  <2>2. Stream = sent
    BY <2>1, ConcatEmptySeq DEF Stream, TInv, StreamTypeOK
  <2>3. QED
    BY <2>1, <2>2 DEF OInv
<1>2. QED
  BY <1>1, InitTInv, NextTInv, InitOInv, NextOInv, PTL DEF StreamSpec

-----------------------------------------------------------------------------
(* The implementation.  Enqueuing is Produce, FinishStream is Finish, a    *)
(* successful write is Receive, a failed one is Lose, leaving the loop is  *)
(* Complete; a silent token, the end of the generation loop, the swap and  *)
(* another round of the loop are invisible.                                *)

LEMMA AbstractProduce ==
  ASSUME TInv, ~producerDone, NEW l \in Line, l # Done, Enqueue(l),
         UNCHANGED consumerVars, producerDone' = producerDone
  PROVE  Abstract!Produce
<1>1. Stream' = Append(Stream, l)
  BY Appends
<1>2. QED
  BY <1>1 DEF Abstract!Produce, consumerVars

LEMMA AbstractStutter ==
  ASSUME Stream' = Stream, sent' = sent, producerDone' = producerDone,
         consumer \in {"waiting", "writing"}, consumer' \in {"waiting", "writing"}
  PROVE  UNCHANGED Abstract!vars
BY DEF Abstract!vars

LEMMA NextAbstract == TInv /\ [StreamNext]_streamVars => [Abstract!Next]_(Abstract!vars)
<1> SUFFICES ASSUME TInv, [StreamNext]_streamVars PROVE Abstract!Next \/ UNCHANGED Abstract!vars
  OBVIOUS
<1>t. /\ sent \in Seq(Line) /\ batch \in Seq(Line) /\ pending \in Seq(Line)
      /\ predicted \in 0 .. MaxTokens
      /\ producerDone <=> producer = "finished"
  BY DEF TInv, StreamTypeOK, Flags
<1>1. CASE SilentToken \/ StopGenerating
  <2>1. UNCHANGED <<sent, batch, pending, producerDone, consumer>>
    BY <1>1 DEF SilentToken, StopGenerating, consumerVars
  <2>2. QED
    BY <2>1 DEF Abstract!vars, Stream
<1>2. CASE SendRole
  BY <1>2, <1>t, Lines, AbstractProduce DEF SendRole, Abstract!Next
<1>3. CASE SendToken
  <2>1. predicted + 1 \in 1 .. MaxTokens /\ Token(predicted + 1) # Done
    BY <1>3, <1>t, Lines DEF SendToken
  <2>2. QED
    BY <1>3, <1>t, <2>1, Lines, AbstractProduce DEF SendToken, Abstract!Next
<1>4. CASE FailGenerating
  BY <1>4, <1>t, Lines, AbstractProduce DEF FailGenerating, Abstract!Next
<1>5. CASE FinishStream
  <2>1. Stream' = (sent \o batch) \o (pending \o <<Final, Done>>)
    BY <1>5 DEF FinishStream, consumerVars, Stream
  <2>2. <<Final, Done>> \in Seq(Line) /\ sent \o batch \in Seq(Line)
    BY Lines, StreamSeq
  <2>3. Stream' = Stream \o <<Final, Done>>
    BY <1>t, <2>1, <2>2, ConcatAssociative DEF Stream
  <2>4. ~producerDone /\ producerDone' = TRUE /\ UNCHANGED <<sent, consumer>>
    BY <1>5, <1>t DEF FinishStream, consumerVars
  <2>5. QED
    BY <2>3, <2>4 DEF Abstract!Finish, Abstract!Next
<1>6. CASE Consume
  <2>1. Stream' = Stream /\ producerDone' = producerDone
    BY <1>6, Moves DEF Consume, Swap, Write, WriteFails, BatchWritten
  <2>2. CASE Swap
    BY <2>1, <2>2, AbstractStutter DEF Swap
  <2>3. CASE Write
    <3>1. Len(sent') = Len(sent) + 1
      BY <1>t, <2>3, HeadTailProperties, AppendProperties DEF Write
    <3>2. Len(sent) < Len(Stream)
      <4>1. Len(sent) \in Nat /\ Len(batch) \in Nat \ {0} /\ Len(pending) \in Nat
        BY <1>t, <2>3, EmptySeq, LenProperties DEF Write
      <4>2. Len(Stream) = Len(sent) + Len(batch) + Len(pending)
        BY <1>t, ConcatProperties DEF Stream
      <4>3. QED
        BY <4>1, <4>2
    <3>3. consumer = "writing" /\ consumer' = "writing"
      BY <2>3 DEF Write
    <3>4. QED
      BY <2>1, <3>1, <3>2, <3>3 DEF Abstract!Receive, Abstract!Next
  <2>4. CASE WriteFails
    <3>1. consumer = "writing" /\ consumer' = "dropped" /\ sent' = sent
      BY <2>4 DEF WriteFails
    <3>2. QED
      BY <2>1, <3>1 DEF Abstract!Lose, Abstract!Next
  <2>5. CASE BatchWritten
    <3>1. consumer = "writing" /\ batch = <<>> /\ sent' = sent
      BY <2>5 DEF BatchWritten
    <3>2. CASE done /\ pending = <<>>
      <4>1. consumer' = "complete" /\ producerDone
        BY <2>5, <3>2 DEF BatchWritten, TInv, Flags
      <4>2. Stream = sent
        BY <1>t, <3>1, <3>2, ConcatEmptySeq DEF Stream
      <4>3. QED
        BY <2>1, <3>1, <4>1, <4>2 DEF Abstract!Complete, Abstract!Next
    <3>3. CASE ~(done /\ pending = <<>>)
      <4>1. consumer' = "waiting"
        BY <2>5, <3>3 DEF BatchWritten
      <4>2. QED
        BY <2>1, <3>1, <4>1, AbstractStutter
    <3>4. QED
      BY <3>2, <3>3
  <2>6. QED
    BY <1>6, <2>2, <2>3, <2>4, <2>5 DEF Consume
<1>7. CASE UNCHANGED streamVars
  BY <1>7 DEF streamVars, Abstract!vars, Stream
<1>8. QED
  BY <1>1, <1>2, <1>3, <1>4, <1>5, <1>6, <1>7 DEF StreamNext, Produce

(* The queue, the flag and the batches implement the abstract stream: the  *)
(* client receives a prefix of what was produced, and the response is      *)
(* complete only when it has received all of it.                           *)
THEOREM Refinement == StreamSpec => ImplementsTokenStream
<1>1. StreamInit => Abstract!Init
  <2> SUFFICES ASSUME StreamInit PROVE Abstract!Init
    OBVIOUS
  <2>1. Stream = <<>> /\ Len(sent) = 0
    BY EmptySeq, ConcatEmptySeq DEF StreamInit, Stream
  <2>2. QED
    BY <2>1 DEF StreamInit, Abstract!Init
<1>2. QED
  BY <1>1, InitTInv, NextTInv, NextAbstract, PTL DEF StreamSpec, ImplementsTokenStream, Abstract!Spec

-----------------------------------------------------------------------------
(* The server and its registry.                                            *)
USE MaxAssumption, ModelsAssumption, ContextsAssumption, NoCtxAssumption,
    NoModelAssumption, ThreadsAssumption

-----------------------------------------------------------------------------
(* The inductive invariant, in named parts.                                *)

(* A load or an unload names a model and gets an id >= 1.                  *)
Named ==
  /\ nextId >= 1
  /\ \A r \in Requests :
       pc[r] \in {"load", "loading", "registering", "unload", "releasing"} =>
         model[r] \in Models
  /\ \A r \in Requests : pc[r] \in {"registering", "releasing"} => ctx[r] # NoCtx

(* Who holds which mutex can be read off the program counters.             *)
Locks ==
  /\ \A r \in Requests :
       /\ registryMu = r <=> pc[r] \in {"loading", "registering", "releasing"}
       /\ gMutex = r <=> pc[r] = "inferring"
  /\ registryMu = Main <=> server = "releasing"

(* Ids are handed out once: nothing refers to one that is still to come.   *)
Ids ==
  /\ \A c \in CtxId : Live(c) => c < nextId
  /\ \A r \in Requests : ctx[r] # NoCtx => ctx[r] < nextId

(* The two tables, also while somebody is changing them.                   *)
Tables ==
  /\ \A m \in Models : registry[m] # NoCtx => context[registry[m]] = m
  /\ \A c \in CtxId : Live(c) =>
       \/ registry[context[c]] = c
       \/ \E r \in Requests : pc[r] = "registering" /\ ctx[r] = c
  /\ \A c \in embedTable : Live(c)

(* What the request that holds the registry's mutex is working on.         *)
Working ==
  \A r \in Requests :
    /\ pc[r] \in {"loading", "registering"} => registry[model[r]] = NoCtx
    /\ pc[r] = "registering" => context[ctx[r]] = model[r]
    /\ pc[r] = "releasing" =>
         registry[model[r]] = ctx[r] /\ ctx[r] \notin embedTable

(* A resolved id is the named model's or nobody's; one in use is live.     *)
Inferring ==
  \A r \in Requests :
    /\ pc[r] \in {"format", "queued", "inferring"} =>
         /\ ctx[r] # NoCtx
         /\ model[r] # AnyModel /\ Live(ctx[r]) => context[ctx[r]] = model[r]
    /\ pc[r] = "inferring" => Live(ctx[r])

(* Once stop() has joined the handlers only abandoned producers run.       *)
Quiet ==
  /\ \A r \in abandoned : pc[r] \in {"queued", "inferring", "done"}
  /\ server \in {"releasing", "stopped"} =>
       \A r \in Requests : pc[r] \in {"idle", "done"} \/ r \in abandoned
  /\ server = "stopped" => Loaded = {}

IInv == TypeOK /\ Named /\ Locks /\ Ids /\ Tables /\ Working /\ Inferring /\ Quiet

-----------------------------------------------------------------------------
LEMMA InitIInv == Init => IInv
<1> SUFFICES ASSUME Init PROVE IInv
  OBVIOUS
<1> USE DEF Init
<1>1. 1 \in CtxId
  BY ContextsAssumption DEF CtxId
<1>2. TypeOK
  BY <1>1, NoModelAssumption DEF TypeOK
<1>3. Locks /\ Named
  BY ThreadsAssumption DEF Locks, Named
<1>4. Ids /\ Tables
  BY <1>1, NoModelAssumption, NoCtxAssumption DEF Ids, Tables, Live, CtxId
<1>5. Working /\ Inferring /\ Quiet
  BY DEF Working, Inferring, Quiet, Loaded, Live
<1>6. QED
  BY <1>2, <1>3, <1>4, <1>5 DEF IInv

(* An unnamed request gets the id of some loaded model, a named one its own *)
(* model's.                                                                *)
LEMMA ResolvedEntry ==
  ASSUME TypeOK, NEW m \in Models \cup {AnyModel}, Resolved(m) # NoCtx
  PROVE  \E x \in Models : registry[x] = Resolved(m) /\ (m # AnyModel => x = m)
<1>1. CASE m # AnyModel
  BY <1>1 DEF Resolved
<1>2. CASE m = AnyModel
  <2>1. Cardinality(Loaded) = 1
    BY <1>2 DEF Resolved
  <2>2. Loaded # {}
    BY <2>1, FS_EmptySet
  <2>3. PICK y \in Models : y \in Loaded
    BY <2>2 DEF Loaded
  <2>4. (CHOOSE x \in Models : x \in Loaded) \in Models
    BY <2>3
  <2>5. Resolved(m) = registry[CHOOSE x \in Models : x \in Loaded]
    BY <1>2, <2>1 DEF Resolved
  <2>6. QED
    BY <1>2, <2>4, <2>5
<1>3. QED
  BY <1>1, <1>2

LEMMA NextTypes == TypeOK /\ Named /\ [Next]_vars => (TypeOK /\ Named)'
<1> SUFFICES ASSUME TypeOK /\ Named, [Next]_vars PROVE (TypeOK /\ Named)'
  OBVIOUS
<1> USE DEF TypeOK, GoTo, RegistryFree, GFree, tables, control, Named
<1>1. ASSUME NEW r \in Requests, LoadAnswered(r) PROVE (TypeOK /\ Named)'
  BY <1>1 DEF LoadAnswered
<1>2. ASSUME NEW r \in Requests, LoadBegin(r) PROVE (TypeOK /\ Named)'
  BY <1>2 DEF LoadBegin
<1>3. ASSUME NEW r \in Requests, LoadFails(r) PROVE (TypeOK /\ Named)'
  BY <1>3 DEF LoadFails
<1>4. ASSUME NEW r \in Requests, LoadInsert(r) PROVE (TypeOK /\ Named)'
  BY <1>4 DEF LoadInsert, CtxId
<1>5. ASSUME NEW r \in Requests, LoadPublish(r) PROVE (TypeOK /\ Named)'
  BY <1>5 DEF LoadPublish
<1>6. ASSUME NEW r \in Requests, UnloadMissing(r) PROVE (TypeOK /\ Named)'
  BY <1>6 DEF UnloadMissing
<1>7. ASSUME NEW r \in Requests, UnloadBegin(r) PROVE (TypeOK /\ Named)'
  BY <1>7 DEF UnloadBegin, Loaded
<1>8. ASSUME NEW r \in Requests, UnloadRelease(r) PROVE (TypeOK /\ Named)'
  BY <1>8 DEF UnloadRelease
<1>9. ASSUME NEW r \in Requests, Report(r) PROVE (TypeOK /\ Named)'
  BY <1>9 DEF Report
<1>10. ASSUME NEW r \in Requests, NEW n \in Limits, SetLimit(r, n)
       PROVE  (TypeOK /\ Named)'
  BY <1>10 DEF SetLimit
<1>11. ASSUME NEW r \in Requests, Resolve(r) PROVE (TypeOK /\ Named)'
  <2>1. model[r] \in Models \cup {AnyModel}
    OBVIOUS
  <2>2. Resolved(model[r]) \in CtxId \cup {NoCtx}
    BY <2>1, ResolvedEntry
  <2>3. QED
    BY <1>11, <2>2 DEF Resolve
<1>12. ASSUME NEW r \in Requests, FormatChat(r) PROVE (TypeOK /\ Named)'
  BY <1>12 DEF FormatChat
<1>13. ASSUME NEW r \in Requests, InferInvalid(r) PROVE (TypeOK /\ Named)'
  BY <1>13 DEF InferInvalid
<1>14. ASSUME NEW r \in Requests, InferBegin(r) PROVE (TypeOK /\ Named)'
  BY <1>14 DEF InferBegin
<1>15. ASSUME NEW r \in Requests, InferEnd(r) PROVE (TypeOK /\ Named)'
  BY <1>15 DEF InferEnd
<1>16. ASSUME NEW r \in Requests, EmbedSize(r) PROVE (TypeOK /\ Named)'
  BY <1>16 DEF EmbedSize
<1>17. ASSUME NEW r \in Requests, EmbedLookup(r) PROVE (TypeOK /\ Named)'
  BY <1>17 DEF EmbedLookup
<1>18. ASSUME NEW r \in Requests, Chunk(r) PROVE (TypeOK /\ Named)'
  BY <1>18 DEF Chunk
<1>19. ASSUME NEW r \in Requests, EmbedNext(r) PROVE (TypeOK /\ Named)'
  BY <1>19 DEF EmbedNext
<1>20. ASSUME NEW r \in Requests, EmbedEnd(r) PROVE (TypeOK /\ Named)'
  BY <1>20 DEF EmbedEnd
<1>21. ASSUME NEW r \in Requests, Abandon(r) PROVE (TypeOK /\ Named)'
  BY <1>21 DEF Abandon
<1>22. ASSUME NEW r \in Requests, NEW op \in Ops,
              NEW m \in Models \cup {AnyModel}, Arrive(r, op, m)
       PROVE  (TypeOK /\ Named)'
  BY <1>22 DEF Arrive, Ops
<1>23. CASE Stop
  BY <1>23 DEF Stop
<1>24. CASE ReleaseAllBegin
  BY <1>24 DEF ReleaseAllBegin
<1>25. ASSUME NEW m \in Models, ReleaseContext(m) PROVE (TypeOK /\ Named)'
  BY <1>25 DEF ReleaseContext
<1>26. CASE ReleaseAllEnd
  BY <1>26 DEF ReleaseAllEnd
<1>27. CASE UNCHANGED vars
  BY <1>27 DEF vars
<1>28. QED
  BY <1>1, <1>2, <1>3, <1>4, <1>5, <1>6, <1>7, <1>8, <1>9, <1>10, <1>11,
     <1>12, <1>13, <1>14, <1>15, <1>16, <1>17, <1>18, <1>19, <1>20, <1>21,
     <1>22, <1>23, <1>24, <1>25, <1>26, <1>27
  DEF Next, Step, ReleaseAll, Terminated

LEMMA NextLocks == TypeOK /\ Locks /\ [Next]_vars => Locks'
<1> SUFFICES ASSUME TypeOK /\ Locks, [Next]_vars PROVE Locks'
  OBVIOUS
<1> USE DEF TypeOK, GoTo, RegistryFree, GFree, tables, control, Locks
<1>1. ASSUME NEW r \in Requests, LoadAnswered(r) PROVE Locks'
  BY <1>1 DEF LoadAnswered
<1>2. ASSUME NEW r \in Requests, LoadBegin(r) PROVE Locks'
  BY <1>2 DEF LoadBegin
<1>3. ASSUME NEW r \in Requests, LoadFails(r) PROVE Locks'
  BY <1>3 DEF LoadFails
<1>4. ASSUME NEW r \in Requests, LoadInsert(r) PROVE Locks'
  BY <1>4 DEF LoadInsert
<1>5. ASSUME NEW r \in Requests, LoadPublish(r) PROVE Locks'
  BY <1>5 DEF LoadPublish
<1>6. ASSUME NEW r \in Requests, UnloadMissing(r) PROVE Locks'
  BY <1>6 DEF UnloadMissing
<1>7. ASSUME NEW r \in Requests, UnloadBegin(r) PROVE Locks'
  BY <1>7 DEF UnloadBegin
<1>8. ASSUME NEW r \in Requests, UnloadRelease(r) PROVE Locks'
  BY <1>8 DEF UnloadRelease
<1>9. ASSUME NEW r \in Requests, Report(r) PROVE Locks'
  BY <1>9 DEF Report
<1>10. ASSUME NEW r \in Requests, NEW n \in Limits, SetLimit(r, n) PROVE Locks'
  BY <1>10 DEF SetLimit
<1>11. ASSUME NEW r \in Requests, Resolve(r) PROVE Locks'
  BY <1>11 DEF Resolve
<1>12. ASSUME NEW r \in Requests, FormatChat(r) PROVE Locks'
  BY <1>12 DEF FormatChat
<1>13. ASSUME NEW r \in Requests, InferInvalid(r) PROVE Locks'
  BY <1>13 DEF InferInvalid
<1>14. ASSUME NEW r \in Requests, InferBegin(r) PROVE Locks'
  BY <1>14 DEF InferBegin
<1>15. ASSUME NEW r \in Requests, InferEnd(r) PROVE Locks'
  BY <1>15 DEF InferEnd
<1>16. ASSUME NEW r \in Requests, EmbedSize(r) PROVE Locks'
  BY <1>16 DEF EmbedSize
<1>17. ASSUME NEW r \in Requests, EmbedLookup(r) PROVE Locks'
  BY <1>17 DEF EmbedLookup
<1>18. ASSUME NEW r \in Requests, Chunk(r) PROVE Locks'
  BY <1>18 DEF Chunk
<1>19. ASSUME NEW r \in Requests, EmbedNext(r) PROVE Locks'
  BY <1>19 DEF EmbedNext
<1>20. ASSUME NEW r \in Requests, EmbedEnd(r) PROVE Locks'
  BY <1>20 DEF EmbedEnd
<1>21. ASSUME NEW r \in Requests, Abandon(r) PROVE Locks'
  BY <1>21 DEF Abandon
<1>22. ASSUME NEW r \in Requests, NEW op \in Ops,
              NEW m \in Models \cup {AnyModel}, Arrive(r, op, m)
       PROVE  Locks'
  BY <1>22 DEF Arrive, Ops
<1>23. CASE Stop
  BY <1>23 DEF Stop
<1>24. CASE ReleaseAllBegin
  BY <1>24 DEF ReleaseAllBegin
<1>25. ASSUME NEW m \in Models, ReleaseContext(m) PROVE Locks'
  BY <1>25 DEF ReleaseContext
<1>26. CASE ReleaseAllEnd
  BY <1>26 DEF ReleaseAllEnd
<1>27. CASE UNCHANGED vars
  BY <1>27 DEF vars
<1>28. QED
  BY <1>1, <1>2, <1>3, <1>4, <1>5, <1>6, <1>7, <1>8, <1>9, <1>10, <1>11,
     <1>12, <1>13, <1>14, <1>15, <1>16, <1>17, <1>18, <1>19, <1>20, <1>21,
     <1>22, <1>23, <1>24, <1>25, <1>26, <1>27
  DEF Next, Step, ReleaseAll, Terminated

LEMMA NextIds == TypeOK /\ Named /\ Tables /\ Ids /\ [Next]_vars => Ids'
<1> SUFFICES ASSUME TypeOK /\ Named /\ Tables /\ Ids, [Next]_vars PROVE Ids'
  OBVIOUS
<1> USE DEF TypeOK, GoTo, RegistryFree, GFree, tables, control, Named, Tables,
        Ids, Live, CtxId
<1>1. ASSUME NEW r \in Requests, LoadAnswered(r) PROVE Ids'
  BY <1>1 DEF LoadAnswered
<1>2. ASSUME NEW r \in Requests, LoadBegin(r) PROVE Ids'
  BY <1>2 DEF LoadBegin
<1>3. ASSUME NEW r \in Requests, LoadFails(r) PROVE Ids'
  BY <1>3 DEF LoadFails
<1>4. ASSUME NEW r \in Requests, LoadInsert(r) PROVE Ids'
  BY <1>4 DEF LoadInsert
<1>5. ASSUME NEW r \in Requests, LoadPublish(r) PROVE Ids'
  BY <1>5 DEF LoadPublish
<1>6. ASSUME NEW r \in Requests, UnloadMissing(r) PROVE Ids'
  BY <1>6 DEF UnloadMissing
<1>7. ASSUME NEW r \in Requests, UnloadBegin(r) PROVE Ids'
  BY <1>7 DEF UnloadBegin, Loaded
<1>8. ASSUME NEW r \in Requests, UnloadRelease(r) PROVE Ids'
  BY <1>8 DEF UnloadRelease
<1>9. ASSUME NEW r \in Requests, Report(r) PROVE Ids'
  BY <1>9 DEF Report
<1>10. ASSUME NEW r \in Requests, NEW n \in Limits, SetLimit(r, n) PROVE Ids'
  BY <1>10 DEF SetLimit
<1>11. ASSUME NEW r \in Requests, Resolve(r) PROVE Ids'
  <2>1. model[r] \in Models \cup {AnyModel}
    OBVIOUS
  <2>2. Resolved(model[r]) \in CtxId \cup {NoCtx}
    BY <2>1, ResolvedEntry
  <2>3. Resolved(model[r]) # NoCtx => Resolved(model[r]) < nextId
    BY <2>1, ResolvedEntry
  <2>4. QED
    BY <1>11, <2>2, <2>3 DEF Resolve
<1>12. ASSUME NEW r \in Requests, FormatChat(r) PROVE Ids'
  BY <1>12 DEF FormatChat
<1>13. ASSUME NEW r \in Requests, InferInvalid(r) PROVE Ids'
  BY <1>13 DEF InferInvalid
<1>14. ASSUME NEW r \in Requests, InferBegin(r) PROVE Ids'
  BY <1>14 DEF InferBegin
<1>15. ASSUME NEW r \in Requests, InferEnd(r) PROVE Ids'
  BY <1>15 DEF InferEnd
<1>16. ASSUME NEW r \in Requests, EmbedSize(r) PROVE Ids'
  BY <1>16 DEF EmbedSize
<1>17. ASSUME NEW r \in Requests, EmbedLookup(r) PROVE Ids'
  BY <1>17 DEF EmbedLookup
<1>18. ASSUME NEW r \in Requests, Chunk(r) PROVE Ids'
  BY <1>18 DEF Chunk
<1>19. ASSUME NEW r \in Requests, EmbedNext(r) PROVE Ids'
  BY <1>19 DEF EmbedNext
<1>20. ASSUME NEW r \in Requests, EmbedEnd(r) PROVE Ids'
  BY <1>20 DEF EmbedEnd
<1>21. ASSUME NEW r \in Requests, Abandon(r) PROVE Ids'
  BY <1>21 DEF Abandon
<1>22. ASSUME NEW r \in Requests, NEW op \in Ops,
              NEW m \in Models \cup {AnyModel}, Arrive(r, op, m)
       PROVE  Ids'
  BY <1>22 DEF Arrive, Ops
<1>23. CASE Stop
  BY <1>23 DEF Stop
<1>24. CASE ReleaseAllBegin
  BY <1>24 DEF ReleaseAllBegin
<1>25. ASSUME NEW m \in Models, ReleaseContext(m) PROVE Ids'
  BY <1>25 DEF ReleaseContext
<1>26. CASE ReleaseAllEnd
  BY <1>26 DEF ReleaseAllEnd
<1>27. CASE UNCHANGED vars
  BY <1>27 DEF vars
<1>28. QED
  BY <1>1, <1>2, <1>3, <1>4, <1>5, <1>6, <1>7, <1>8, <1>9, <1>10, <1>11,
     <1>12, <1>13, <1>14, <1>15, <1>16, <1>17, <1>18, <1>19, <1>20, <1>21,
     <1>22, <1>23, <1>24, <1>25, <1>26, <1>27
  DEF Next, Step, ReleaseAll, Terminated

LEMMA NextTables == IInv /\ [Next]_vars => Tables'
<1> SUFFICES ASSUME IInv, [Next]_vars PROVE Tables'
  OBVIOUS
<1> USE DEF TypeOK, GoTo, RegistryFree, GFree, tables, control, IInv, Named,
        Locks, Tables, Ids, Working, Live, CtxId
<1>1. ASSUME NEW r \in Requests, LoadAnswered(r) PROVE Tables'
  BY <1>1 DEF LoadAnswered
<1>2. ASSUME NEW r \in Requests, LoadBegin(r) PROVE Tables'
  BY <1>2 DEF LoadBegin
<1>3. ASSUME NEW r \in Requests, LoadFails(r) PROVE Tables'
  BY <1>3 DEF LoadFails
<1>4. ASSUME NEW r \in Requests, LoadInsert(r) PROVE Tables'
  BY <1>4 DEF LoadInsert
<1>5. ASSUME NEW r \in Requests, LoadPublish(r) PROVE Tables'
  BY <1>5 DEF LoadPublish
<1>6. ASSUME NEW r \in Requests, UnloadMissing(r) PROVE Tables'
  BY <1>6 DEF UnloadMissing
<1>7. ASSUME NEW r \in Requests, UnloadBegin(r) PROVE Tables'
  BY <1>7 DEF UnloadBegin
<1>8. ASSUME NEW r \in Requests, UnloadRelease(r) PROVE Tables'
  BY <1>8 DEF UnloadRelease
<1>9. ASSUME NEW r \in Requests, Report(r) PROVE Tables'
  BY <1>9 DEF Report
<1>10. ASSUME NEW r \in Requests, NEW n \in Limits, SetLimit(r, n)
       PROVE  Tables'
  BY <1>10 DEF SetLimit
<1>11. ASSUME NEW r \in Requests, Resolve(r) PROVE Tables'
  BY <1>11 DEF Resolve
<1>12. ASSUME NEW r \in Requests, FormatChat(r) PROVE Tables'
  BY <1>12 DEF FormatChat
<1>13. ASSUME NEW r \in Requests, InferInvalid(r) PROVE Tables'
  BY <1>13 DEF InferInvalid
<1>14. ASSUME NEW r \in Requests, InferBegin(r) PROVE Tables'
  BY <1>14 DEF InferBegin
<1>15. ASSUME NEW r \in Requests, InferEnd(r) PROVE Tables'
  BY <1>15 DEF InferEnd
<1>16. ASSUME NEW r \in Requests, EmbedSize(r) PROVE Tables'
  BY <1>16 DEF EmbedSize
<1>17. ASSUME NEW r \in Requests, EmbedLookup(r) PROVE Tables'
  BY <1>17 DEF EmbedLookup
<1>18. ASSUME NEW r \in Requests, Chunk(r) PROVE Tables'
  BY <1>18 DEF Chunk
<1>19. ASSUME NEW r \in Requests, EmbedNext(r) PROVE Tables'
  BY <1>19 DEF EmbedNext
<1>20. ASSUME NEW r \in Requests, EmbedEnd(r) PROVE Tables'
  BY <1>20 DEF EmbedEnd
<1>21. ASSUME NEW r \in Requests, Abandon(r) PROVE Tables'
  BY <1>21 DEF Abandon
<1>22. ASSUME NEW r \in Requests, NEW op \in Ops,
              NEW m \in Models \cup {AnyModel}, Arrive(r, op, m)
       PROVE  Tables'
  BY <1>22 DEF Arrive, Ops
<1>23. CASE Stop
  BY <1>23 DEF Stop
<1>24. CASE ReleaseAllBegin
  BY <1>24 DEF ReleaseAllBegin
<1>25. ASSUME NEW m \in Models, ReleaseContext(m) PROVE Tables'
  BY <1>25 DEF ReleaseContext
<1>26. CASE ReleaseAllEnd
  BY <1>26 DEF ReleaseAllEnd
<1>27. CASE UNCHANGED vars
  BY <1>27 DEF vars
<1>28. QED
  BY <1>1, <1>2, <1>3, <1>4, <1>5, <1>6, <1>7, <1>8, <1>9, <1>10, <1>11,
     <1>12, <1>13, <1>14, <1>15, <1>16, <1>17, <1>18, <1>19, <1>20, <1>21,
     <1>22, <1>23, <1>24, <1>25, <1>26, <1>27
  DEF Next, Step, ReleaseAll, Terminated

LEMMA NextWorking == IInv /\ [Next]_vars => Working'
<1> SUFFICES ASSUME IInv, [Next]_vars PROVE Working'
  OBVIOUS
<1> USE DEF TypeOK, GoTo, RegistryFree, GFree, tables, control, IInv, Named,
        Locks, Tables, Ids, Working, Loaded, Live, CtxId
<1>1. ASSUME NEW r \in Requests, LoadAnswered(r) PROVE Working'
  BY <1>1 DEF LoadAnswered
<1>2. ASSUME NEW r \in Requests, LoadBegin(r) PROVE Working'
  BY <1>2 DEF LoadBegin
<1>3. ASSUME NEW r \in Requests, LoadFails(r) PROVE Working'
  BY <1>3 DEF LoadFails
<1>4. ASSUME NEW r \in Requests, LoadInsert(r) PROVE Working'
  BY <1>4 DEF LoadInsert
<1>5. ASSUME NEW r \in Requests, LoadPublish(r) PROVE Working'
  BY <1>5 DEF LoadPublish
<1>6. ASSUME NEW r \in Requests, UnloadMissing(r) PROVE Working'
  BY <1>6 DEF UnloadMissing
<1>7. ASSUME NEW r \in Requests, UnloadBegin(r) PROVE Working'
  BY <1>7 DEF UnloadBegin
<1>8. ASSUME NEW r \in Requests, UnloadRelease(r) PROVE Working'
  BY <1>8 DEF UnloadRelease
<1>9. ASSUME NEW r \in Requests, Report(r) PROVE Working'
  BY <1>9 DEF Report
<1>10. ASSUME NEW r \in Requests, NEW n \in Limits, SetLimit(r, n)
       PROVE  Working'
  BY <1>10 DEF SetLimit
<1>11. ASSUME NEW r \in Requests, Resolve(r) PROVE Working'
  BY <1>11 DEF Resolve
<1>12. ASSUME NEW r \in Requests, FormatChat(r) PROVE Working'
  BY <1>12 DEF FormatChat
<1>13. ASSUME NEW r \in Requests, InferInvalid(r) PROVE Working'
  BY <1>13 DEF InferInvalid
<1>14. ASSUME NEW r \in Requests, InferBegin(r) PROVE Working'
  BY <1>14 DEF InferBegin
<1>15. ASSUME NEW r \in Requests, InferEnd(r) PROVE Working'
  BY <1>15 DEF InferEnd
<1>16. ASSUME NEW r \in Requests, EmbedSize(r) PROVE Working'
  BY <1>16 DEF EmbedSize
<1>17. ASSUME NEW r \in Requests, EmbedLookup(r) PROVE Working'
  BY <1>17 DEF EmbedLookup
<1>18. ASSUME NEW r \in Requests, Chunk(r) PROVE Working'
  BY <1>18 DEF Chunk
<1>19. ASSUME NEW r \in Requests, EmbedNext(r) PROVE Working'
  BY <1>19 DEF EmbedNext
<1>20. ASSUME NEW r \in Requests, EmbedEnd(r) PROVE Working'
  BY <1>20 DEF EmbedEnd
<1>21. ASSUME NEW r \in Requests, Abandon(r) PROVE Working'
  BY <1>21 DEF Abandon
<1>22. ASSUME NEW r \in Requests, NEW op \in Ops,
              NEW m \in Models \cup {AnyModel}, Arrive(r, op, m)
       PROVE  Working'
  BY <1>22 DEF Arrive, Ops
<1>23. CASE Stop
  BY <1>23 DEF Stop
<1>24. CASE ReleaseAllBegin
  BY <1>24 DEF ReleaseAllBegin
<1>25. ASSUME NEW m \in Models, ReleaseContext(m) PROVE Working'
  BY <1>25 DEF ReleaseContext
<1>26. CASE ReleaseAllEnd
  BY <1>26 DEF ReleaseAllEnd
<1>27. CASE UNCHANGED vars
  BY <1>27 DEF vars
<1>28. QED
  BY <1>1, <1>2, <1>3, <1>4, <1>5, <1>6, <1>7, <1>8, <1>9, <1>10, <1>11,
     <1>12, <1>13, <1>14, <1>15, <1>16, <1>17, <1>18, <1>19, <1>20, <1>21,
     <1>22, <1>23, <1>24, <1>25, <1>26, <1>27
  DEF Next, Step, ReleaseAll, Terminated

LEMMA NextInferring == IInv /\ [Next]_vars => Inferring'
<1> SUFFICES ASSUME IInv, [Next]_vars PROVE Inferring'
  OBVIOUS
<1> USE DEF TypeOK, GoTo, RegistryFree, GFree, tables, control, IInv, Named,
        Locks, Tables, Ids, Inferring, Live, CtxId
<1>1. ASSUME NEW r \in Requests, LoadAnswered(r) PROVE Inferring'
  BY <1>1 DEF LoadAnswered
<1>2. ASSUME NEW r \in Requests, LoadBegin(r) PROVE Inferring'
  BY <1>2 DEF LoadBegin
<1>3. ASSUME NEW r \in Requests, LoadFails(r) PROVE Inferring'
  BY <1>3 DEF LoadFails
<1>4. ASSUME NEW r \in Requests, LoadInsert(r) PROVE Inferring'
  BY <1>4 DEF LoadInsert
<1>5. ASSUME NEW r \in Requests, LoadPublish(r) PROVE Inferring'
  BY <1>5 DEF LoadPublish
<1>6. ASSUME NEW r \in Requests, UnloadMissing(r) PROVE Inferring'
  BY <1>6 DEF UnloadMissing
<1>7. ASSUME NEW r \in Requests, UnloadBegin(r) PROVE Inferring'
  BY <1>7 DEF UnloadBegin
<1>8. ASSUME NEW r \in Requests, UnloadRelease(r) PROVE Inferring'
  BY <1>8 DEF UnloadRelease
<1>9. ASSUME NEW r \in Requests, Report(r) PROVE Inferring'
  BY <1>9 DEF Report
<1>10. ASSUME NEW r \in Requests, NEW n \in Limits, SetLimit(r, n)
       PROVE  Inferring'
  BY <1>10 DEF SetLimit
<1>11. ASSUME NEW r \in Requests, Resolve(r) PROVE Inferring'
  <2>1. model[r] \in Models \cup {AnyModel}
    OBVIOUS
  <2>2. Resolved(model[r]) # NoCtx =>
          /\ Resolved(model[r]) \in CtxId
          /\ model[r] # AnyModel => context[Resolved(model[r])] = model[r]
    BY <2>1, ResolvedEntry
  <2>3. QED
    BY <1>11, <2>2 DEF Resolve
<1>12. ASSUME NEW r \in Requests, FormatChat(r) PROVE Inferring'
  BY <1>12 DEF FormatChat
<1>13. ASSUME NEW r \in Requests, InferInvalid(r) PROVE Inferring'
  BY <1>13 DEF InferInvalid
<1>14. ASSUME NEW r \in Requests, InferBegin(r) PROVE Inferring'
  BY <1>14 DEF InferBegin
<1>15. ASSUME NEW r \in Requests, InferEnd(r) PROVE Inferring'
  BY <1>15 DEF InferEnd
<1>16. ASSUME NEW r \in Requests, EmbedSize(r) PROVE Inferring'
  BY <1>16 DEF EmbedSize
<1>17. ASSUME NEW r \in Requests, EmbedLookup(r) PROVE Inferring'
  BY <1>17 DEF EmbedLookup
<1>18. ASSUME NEW r \in Requests, Chunk(r) PROVE Inferring'
  BY <1>18 DEF Chunk
<1>19. ASSUME NEW r \in Requests, EmbedNext(r) PROVE Inferring'
  BY <1>19 DEF EmbedNext
<1>20. ASSUME NEW r \in Requests, EmbedEnd(r) PROVE Inferring'
  BY <1>20 DEF EmbedEnd
<1>21. ASSUME NEW r \in Requests, Abandon(r) PROVE Inferring'
  BY <1>21 DEF Abandon
<1>22. ASSUME NEW r \in Requests, NEW op \in Ops,
              NEW m \in Models \cup {AnyModel}, Arrive(r, op, m)
       PROVE  Inferring'
  BY <1>22 DEF Arrive, Ops
<1>23. CASE Stop
  BY <1>23 DEF Stop
<1>24. CASE ReleaseAllBegin
  BY <1>24 DEF ReleaseAllBegin
<1>25. ASSUME NEW m \in Models, ReleaseContext(m) PROVE Inferring'
  BY <1>25 DEF ReleaseContext
<1>26. CASE ReleaseAllEnd
  BY <1>26 DEF ReleaseAllEnd
<1>27. CASE UNCHANGED vars
  BY <1>27 DEF vars
<1>28. QED
  BY <1>1, <1>2, <1>3, <1>4, <1>5, <1>6, <1>7, <1>8, <1>9, <1>10, <1>11,
     <1>12, <1>13, <1>14, <1>15, <1>16, <1>17, <1>18, <1>19, <1>20, <1>21,
     <1>22, <1>23, <1>24, <1>25, <1>26, <1>27
  DEF Next, Step, ReleaseAll, Terminated

LEMMA NextQuiet == IInv /\ [Next]_vars => Quiet'
<1> SUFFICES ASSUME IInv, [Next]_vars PROVE Quiet'
  OBVIOUS
<1> USE DEF TypeOK, GoTo, RegistryFree, GFree, tables, control, IInv, Locks,
        Quiet, Loaded
<1>1. ASSUME NEW r \in Requests, LoadAnswered(r) PROVE Quiet'
  BY <1>1 DEF LoadAnswered
<1>2. ASSUME NEW r \in Requests, LoadBegin(r) PROVE Quiet'
  BY <1>2 DEF LoadBegin
<1>3. ASSUME NEW r \in Requests, LoadFails(r) PROVE Quiet'
  BY <1>3 DEF LoadFails
<1>4. ASSUME NEW r \in Requests, LoadInsert(r) PROVE Quiet'
  BY <1>4 DEF LoadInsert
<1>5. ASSUME NEW r \in Requests, LoadPublish(r) PROVE Quiet'
  BY <1>5 DEF LoadPublish
<1>6. ASSUME NEW r \in Requests, UnloadMissing(r) PROVE Quiet'
  BY <1>6 DEF UnloadMissing
<1>7. ASSUME NEW r \in Requests, UnloadBegin(r) PROVE Quiet'
  BY <1>7 DEF UnloadBegin
<1>8. ASSUME NEW r \in Requests, UnloadRelease(r) PROVE Quiet'
  BY <1>8 DEF UnloadRelease
<1>9. ASSUME NEW r \in Requests, Report(r) PROVE Quiet'
  BY <1>9 DEF Report
<1>10. ASSUME NEW r \in Requests, NEW n \in Limits, SetLimit(r, n) PROVE Quiet'
  BY <1>10 DEF SetLimit
<1>11. ASSUME NEW r \in Requests, Resolve(r) PROVE Quiet'
  BY <1>11 DEF Resolve
<1>12. ASSUME NEW r \in Requests, FormatChat(r) PROVE Quiet'
  BY <1>12 DEF FormatChat
<1>13. ASSUME NEW r \in Requests, InferInvalid(r) PROVE Quiet'
  BY <1>13 DEF InferInvalid
<1>14. ASSUME NEW r \in Requests, InferBegin(r) PROVE Quiet'
  BY <1>14 DEF InferBegin
<1>15. ASSUME NEW r \in Requests, InferEnd(r) PROVE Quiet'
  BY <1>15 DEF InferEnd
<1>16. ASSUME NEW r \in Requests, EmbedSize(r) PROVE Quiet'
  BY <1>16 DEF EmbedSize
<1>17. ASSUME NEW r \in Requests, EmbedLookup(r) PROVE Quiet'
  BY <1>17 DEF EmbedLookup
<1>18. ASSUME NEW r \in Requests, Chunk(r) PROVE Quiet'
  BY <1>18 DEF Chunk
<1>19. ASSUME NEW r \in Requests, EmbedNext(r) PROVE Quiet'
  BY <1>19 DEF EmbedNext
<1>20. ASSUME NEW r \in Requests, EmbedEnd(r) PROVE Quiet'
  BY <1>20 DEF EmbedEnd
<1>21. ASSUME NEW r \in Requests, Abandon(r) PROVE Quiet'
  BY <1>21 DEF Abandon
<1>22. ASSUME NEW r \in Requests, NEW op \in Ops,
              NEW m \in Models \cup {AnyModel}, Arrive(r, op, m)
       PROVE  Quiet'
  BY <1>22 DEF Arrive, Ops
<1>23. CASE Stop
  BY <1>23 DEF Stop
<1>24. CASE ReleaseAllBegin
  BY <1>24 DEF ReleaseAllBegin, Joined
<1>25. ASSUME NEW m \in Models, ReleaseContext(m) PROVE Quiet'
  BY <1>25 DEF ReleaseContext
<1>26. CASE ReleaseAllEnd
  BY <1>26 DEF ReleaseAllEnd
<1>27. CASE UNCHANGED vars
  BY <1>27 DEF vars
<1>28. QED
  BY <1>1, <1>2, <1>3, <1>4, <1>5, <1>6, <1>7, <1>8, <1>9, <1>10, <1>11,
     <1>12, <1>13, <1>14, <1>15, <1>16, <1>17, <1>18, <1>19, <1>20, <1>21,
     <1>22, <1>23, <1>24, <1>25, <1>26, <1>27
  DEF Next, Step, ReleaseAll, Terminated

LEMMA NextIInv == IInv /\ [Next]_vars => IInv'
<1>1. IInv /\ [Next]_vars => TypeOK' /\ Named' /\ Locks' /\ Ids'
  BY NextTypes, NextLocks, NextIds DEF IInv
<1>2. IInv /\ [Next]_vars => Tables' /\ Working' /\ Inferring' /\ Quiet'
  BY NextTables, NextWorking, NextInferring, NextQuiet
<1>3. QED
  BY <1>1, <1>2 DEF IInv

LEMMA Invariance == Spec => []IInv
  BY InitIInv, NextIInv, PTL DEF Spec

-----------------------------------------------------------------------------
(* Types, whatever the interleaving.                                       *)
THEOREM TypeCorrect == Spec => []TypeOK
<1>1. IInv => TypeOK
  BY DEF IInv
<1>2. QED
  BY <1>1, Invariance, PTL

(* Whenever the registry's mutex is free, the loaded models and the live   *)
(* contexts are the same, one to one.                                      *)
THEOREM RegistryIsExact == Spec => []RegistryExact
<1>1. ASSUME IInv PROVE RegistryExact
  <2> SUFFICES ASSUME RegistryFree PROVE RegistryExact
    BY DEF RegistryExact
  <2>1. \A r \in Requests : pc[r] # "registering"
    BY <1>1 DEF IInv, Locks, RegistryFree
  <2>2. QED
    BY <1>1, <2>1 DEF IInv, Tables, Loaded, RegistryExact
<1>2. QED
  BY <1>1, Invariance, PTL

(* An inference has a live context, of the model its request named.        *)
THEOREM InferenceOnLiveModel == Spec => []InferenceOnItsModel
<1>1. ASSUME IInv PROVE InferenceOnItsModel
  BY <1>1 DEF IInv, TypeOK, Inferring, Live, InferenceOnItsModel
<1>2. QED
  BY <1>1, Invariance, PTL

(* The embedding table never holds the id of a destroyed context.          *)
THEOREM EmbedTableIsBacked == Spec => []EmbedTableBacked
<1>1. IInv => EmbedTableBacked
  BY DEF IInv, Tables, EmbedTableBacked
<1>2. QED
  BY <1>1, Invariance, PTL

(* A stopped server keeps no context.                                      *)
THEOREM StopReleases == Spec => []StopReleasesAll
<1>1. ASSUME IInv PROVE StopReleasesAll
  <2> SUFFICES ASSUME server = "stopped", NEW c \in CtxId, Live(c) PROVE FALSE
    BY DEF StopReleasesAll
  <2>1. Loaded = {} /\ \A r \in Requests : pc[r] # "registering"
    BY <1>1 DEF IInv, Quiet
  <2>2. registry[context[c]] = c /\ context[c] \in Models
    BY <1>1, <2>1 DEF IInv, Tables, TypeOK, Live
  <2>3. QED
    BY <2>1, <2>2, NoCtxAssumption DEF Loaded, CtxId
<1>2. QED
  BY <1>1, Invariance, PTL

-----------------------------------------------------------------------------
(* The load limit: the room a load found is still there when it publishes. *)

Room ==
  \A r \in Requests : pc[r] \in {"loading", "registering"} =>
    Cardinality(Loaded) < maxModels

LEMMA LoadedFinite == IsFiniteSet(Loaded) /\ Cardinality(Loaded) \in Nat
<1>1. Loaded \subseteq Models
  BY DEF Loaded
<1>2. QED
  BY <1>1, FS_Subset, FS_CardinalityType

(* Only five actions move the registry, the limit, or a request into a     *)
(* load.                                                                   *)
Still ==
  /\ registry' = registry /\ maxModels' = maxModels
  /\ \A q \in Requests : pc'[q] \in {"loading", "registering"} =>
       pc[q] \in {"loading", "registering"}

LEMMA RegistryMoves ==
  TypeOK /\ [Next]_vars =>
    \/ Still
    \/ \E r \in Requests : \/ LoadBegin(r) \/ LoadPublish(r) \/ UnloadRelease(r)
                           \/ \E n \in Limits : SetLimit(r, n)
    \/ \E m \in Models : ReleaseContext(m)
<1> SUFFICES ASSUME TypeOK, [Next]_vars
             PROVE  \/ Still
                    \/ \E r \in Requests :
                         \/ LoadBegin(r) \/ LoadPublish(r) \/ UnloadRelease(r)
                         \/ \E n \in Limits : SetLimit(r, n)
                    \/ \E m \in Models : ReleaseContext(m)
  OBVIOUS
<1> USE DEF TypeOK, Still, GoTo, tables, control
<1>1. ASSUME NEW r \in Requests, LoadAnswered(r) PROVE Still
  BY <1>1 DEF LoadAnswered
<1>2. ASSUME NEW r \in Requests, LoadFails(r) PROVE Still
  BY <1>2 DEF LoadFails
<1>3. ASSUME NEW r \in Requests, LoadInsert(r) PROVE Still
  BY <1>3 DEF LoadInsert
<1>4. ASSUME NEW r \in Requests, UnloadMissing(r) PROVE Still
  BY <1>4 DEF UnloadMissing
<1>5. ASSUME NEW r \in Requests, UnloadBegin(r) PROVE Still
  BY <1>5 DEF UnloadBegin
<1>6. ASSUME NEW r \in Requests, Report(r) PROVE Still
  BY <1>6 DEF Report
<1>7. ASSUME NEW r \in Requests, Resolve(r) PROVE Still
  BY <1>7 DEF Resolve
<1>8. ASSUME NEW r \in Requests, FormatChat(r) PROVE Still
  BY <1>8 DEF FormatChat
<1>9. ASSUME NEW r \in Requests, InferInvalid(r) PROVE Still
  BY <1>9 DEF InferInvalid
<1>10. ASSUME NEW r \in Requests, InferBegin(r) PROVE Still
  BY <1>10 DEF InferBegin
<1>11. ASSUME NEW r \in Requests, InferEnd(r) PROVE Still
  BY <1>11 DEF InferEnd
<1>12. ASSUME NEW r \in Requests, EmbedSize(r) PROVE Still
  BY <1>12 DEF EmbedSize
<1>13. ASSUME NEW r \in Requests, EmbedLookup(r) PROVE Still
  BY <1>13 DEF EmbedLookup
<1>14. ASSUME NEW r \in Requests, EmbedEnd(r) PROVE Still
  BY <1>14 DEF EmbedEnd
<1>15. ASSUME NEW r \in Requests, Chunk(r) PROVE Still
  BY <1>15 DEF Chunk
<1>16. ASSUME NEW r \in Requests, EmbedNext(r) PROVE Still
  BY <1>16 DEF EmbedNext
<1>17. ASSUME NEW r \in Requests, Abandon(r) PROVE Still
  BY <1>17 DEF Abandon
<1>18. ASSUME NEW r \in Requests, NEW op \in Ops,
             NEW m \in Models \cup {AnyModel}, Arrive(r, op, m) PROVE Still
  BY <1>18 DEF Arrive, Ops
<1>19. CASE Stop
  BY <1>19 DEF Stop
<1>20. CASE ReleaseAllBegin
  BY <1>20 DEF ReleaseAllBegin
<1>21. CASE ReleaseAllEnd
  BY <1>21 DEF ReleaseAllEnd
<1>22. CASE UNCHANGED vars
  BY <1>22 DEF vars
<1>23. QED
  BY <1>1, <1>2, <1>3, <1>4, <1>5, <1>6, <1>7, <1>8, <1>9, <1>10, <1>11,
     <1>12, <1>13, <1>14, <1>15, <1>16, <1>17, <1>18, <1>19, <1>20, <1>21,
     <1>22
  DEF Next, Step, ReleaseAll, Terminated

(* A load in progress is the only one, and the tables stand still.         *)
LEMMA NextRoom == IInv /\ Room /\ [Next]_vars => Room'
<1> SUFFICES ASSUME IInv, Room, [Next]_vars,
                    NEW q \in Requests, pc'[q] \in {"loading", "registering"}
             PROVE  Cardinality(Loaded') < maxModels'
  BY DEF Room
<1> USE DEF IInv, TypeOK, Locks, GoTo, RegistryFree, GFree, tables, control
<1>1. CASE Still
  <2>1. Loaded' = Loaded
    BY <1>1 DEF Still, Loaded
  <2>2. QED
    BY <1>1, <2>1 DEF Still, Room
<1>2. ASSUME NEW r \in Requests, LoadBegin(r)
      PROVE  Cardinality(Loaded') < maxModels'
  <2>1. Loaded' = Loaded
    BY <1>2 DEF LoadBegin, Loaded
  <2>2. QED
    BY <1>2, <2>1 DEF LoadBegin
<1>3. ASSUME NEW r \in Requests, LoadPublish(r) PROVE FALSE
  BY <1>3 DEF LoadPublish
<1>4. ASSUME NEW r \in Requests, UnloadRelease(r) PROVE FALSE
  BY <1>4 DEF UnloadRelease
<1>5. ASSUME NEW r \in Requests, NEW n \in Limits, SetLimit(r, n) PROVE FALSE
  BY <1>5 DEF SetLimit
<1>6. ASSUME NEW m \in Models, ReleaseContext(m) PROVE FALSE
  BY <1>6 DEF ReleaseContext
<1>7. QED
  BY <1>1, <1>2, <1>3, <1>4, <1>5, <1>6, RegistryMoves

(* A load never takes the registry past the limit in force.                *)
THEOREM LoadsKeepWithinLimit == Spec => LoadsWithinLimit
<1>1. Init => Room
  BY DEF Init, Room
<1>2. ASSUME IInv, Room, [Next]_vars,
             NEW m \in Models, m \notin Loaded, m \in Loaded'
      PROVE  Cardinality(Loaded') <= maxModels
  <2>1. PICK r \in Requests : LoadPublish(r)
    <3> USE DEF Loaded, IInv, TypeOK, tables
    <3>1. ~Still
      BY <1>2 DEF Still
    <3>2. ASSUME NEW r \in Requests, LoadBegin(r) PROVE FALSE
      BY <1>2, <3>2 DEF LoadBegin
    <3>3. ASSUME NEW r \in Requests, UnloadRelease(r) PROVE FALSE
      BY <1>2, <3>3 DEF UnloadRelease
    <3>4. ASSUME NEW r \in Requests, NEW n \in Limits, SetLimit(r, n)
          PROVE  FALSE
      BY <1>2, <3>4 DEF SetLimit
    <3>5. ASSUME NEW y \in Models, ReleaseContext(y) PROVE FALSE
      BY <1>2, <3>5 DEF ReleaseContext
    <3>6. QED
      BY <1>2, <3>1, <3>2, <3>3, <3>4, <3>5, RegistryMoves
  <2>2. Loaded' = Loaded \cup {model[r]} /\ model[r] \notin Loaded
    BY <1>2, <2>1 DEF LoadPublish, IInv, TypeOK, Named, Working, Loaded
  <2>3. Cardinality(Loaded') = Cardinality(Loaded) + 1
    BY <2>2, LoadedFinite, FS_AddElement
  <2>4. Cardinality(Loaded) < maxModels
    BY <1>2, <2>1 DEF Room, LoadPublish
  <2>5. maxModels \in Nat
    BY <1>2 DEF IInv, TypeOK
  <2>6. QED
    BY <2>3, <2>4, <2>5, LoadedFinite
<1>3. IInv /\ Room /\ [Next]_vars =>
        (\A m \in Models : m \notin Loaded /\ m \in Loaded' =>
           Cardinality(Loaded') <= maxModels)
  BY <1>2
<1>4. QED
  BY <1>1, <1>3, NextRoom, Invariance, PTL DEF Spec, LoadsWithinLimit
-----------------------------------------------------------------------------
(* The server implements the abstract service: the image of its state.     *)

Held == {m \in Models : \E c \in CtxId : context[c] = m}
Users == [r \in Requests |-> IF pc[r] = "inferring" THEN context[ctx[r]] ELSE NoModel]
Phase == CASE server \in {"up", "stopping"} -> "open"
           [] server = "releasing" -> "closing"
           [] server = "stopped" -> "closed"

LEMMA PhaseIs ==
  ASSUME TypeOK
  PROVE  /\ server \in {"up", "stopping"} => Phase = "open"
         /\ server = "releasing" => Phase = "closing"
         /\ server = "stopped" => Phase = "closed"
  BY DEF TypeOK, Phase

(* While nobody registers a context, the models in memory are those the    *)
(* registry names.                                                         *)
LEMMA HeldIsLoaded ==
  ASSUME IInv, \A r \in Requests : pc[r] # "registering"
  PROVE  Held = Loaded
<1>1. ASSUME NEW m \in Models, NEW c \in CtxId, context[c] = m
      PROVE  m \in Loaded
  <2>1. Live(c)
    BY <1>1, NoModelAssumption, NoCtxAssumption DEF Live, CtxId
  <2>2. registry[m] = c
    BY <1>1, <2>1 DEF IInv, Tables
  <2>3. QED
    BY <2>2, NoCtxAssumption DEF Loaded, CtxId
<1>2. ASSUME NEW m \in Loaded
      PROVE  m \in Models /\ registry[m] \in CtxId /\ context[registry[m]] = m
  BY DEF IInv, TypeOK, Tables, Loaded
<1>3. QED
  BY <1>1, <1>2 DEF Held, Loaded

LEMMA NobodyUses ==
  ASSUME IInv, GFree
  PROVE  \A r \in Requests : pc[r] # "inferring" /\ Users[r] = NoModel
<1>1. \A r \in Requests : pc[r] # "inferring"
  BY ThreadsAssumption DEF IInv, Locks, GFree
<1>2. QED
  BY <1>1 DEF Users

LEMMA SameUsers ==
  ASSUME \A r \in Requests :
           /\ pc'[r] = "inferring" <=> pc[r] = "inferring"
           /\ pc[r] = "inferring" => ctx'[r] = ctx[r] /\ context'[ctx[r]] = context[ctx[r]]
  PROVE  Users' = Users
<1>1. \A r \in Requests : (IF pc'[r] = "inferring" THEN context'[ctx'[r]] ELSE NoModel)
                            = (IF pc[r] = "inferring" THEN context[ctx[r]] ELSE NoModel)
  OBVIOUS
<1>2. QED
  BY <1>1 DEF Users

(* A request that does something else than wait for g_mutex or generate    *)
(* finds the server open, and so does one whose handler is still there.    *)
LEMMA Open ==
  ASSUME IInv, NEW r \in Requests, pc[r] \notin {"idle", "done"},
         pc[r] \notin {"queued", "inferring"} \/ r \notin abandoned
  PROVE  server \in {"up", "stopping"} /\ Phase = "open"
<1>1. server \notin {"releasing", "stopped"}
  BY DEF IInv, Quiet
<1>2. server \in {"up", "stopping"}
  BY <1>1 DEF IInv, TypeOK
<1>3. QED
  BY <1>2, PhaseIs DEF IInv

(* The steps that are nobody's business.                                   *)
Unseen ==
  /\ UNCHANGED <<context, maxModels, model, abandoned>> /\ Phase' = Phase
  /\ \A r \in Requests : /\ pc'[r] = "inferring" <=> pc[r] = "inferring"
                         /\ pc[r] = "inferring" => ctx'[r] = ctx[r]

LEMMA UnseenStutters ==
  ASSUME Unseen
  PROVE  UNCHANGED Service!vars
<1>1. Users' = Users
  BY SameUsers DEF Unseen
<1>2. /\ Held' = Held /\ Phase' = Phase /\ maxModels' = maxModels /\ model' = model
      /\ abandoned' = abandoned
  BY DEF Unseen, Held
<1>3. QED
  BY <1>1, <1>2 DEF Service!vars, Held, Users, Phase

Seen ==
  \/ \E r \in Requests : \/ LoadInsert(r) \/ UnloadRelease(r) \/ InferBegin(r) \/ InferEnd(r)
                         \/ Abandon(r)
                         \/ \E n \in Limits : SetLimit(r, n)
                         \/ \E op \in Ops, m \in Models \cup {AnyModel} : Arrive(r, op, m)
  \/ ReleaseAll

LEMMA Unseens ==
  ASSUME TypeOK, [Next]_vars
  PROVE  Seen \/ Unseen
<1> USE DEF TypeOK, Unseen, GoTo, tables, control
<1>0. server' = server => Phase' = Phase
  BY DEF Phase
<1>1. ASSUME NEW r \in Requests, LoadAnswered(r) PROVE Unseen
  BY <1>0, <1>1 DEF LoadAnswered
<1>2. ASSUME NEW r \in Requests, LoadFails(r) PROVE Unseen
  BY <1>0, <1>2 DEF LoadFails
<1>3. ASSUME NEW r \in Requests, LoadBegin(r) PROVE Unseen
  BY <1>0, <1>3 DEF LoadBegin
<1>4. ASSUME NEW r \in Requests, UnloadMissing(r) PROVE Unseen
  BY <1>0, <1>4 DEF UnloadMissing
<1>5. ASSUME NEW r \in Requests, UnloadBegin(r) PROVE Unseen
  BY <1>0, <1>5 DEF UnloadBegin
<1>6. ASSUME NEW r \in Requests, Report(r) PROVE Unseen
  BY <1>0, <1>6 DEF Report
<1>7. ASSUME NEW r \in Requests, Resolve(r) PROVE Unseen
  BY <1>0, <1>7 DEF Resolve
<1>8. ASSUME NEW r \in Requests, FormatChat(r) PROVE Unseen
  BY <1>0, <1>8 DEF FormatChat
<1>9. ASSUME NEW r \in Requests, InferInvalid(r) PROVE Unseen
  BY <1>0, <1>9 DEF InferInvalid
<1>10. ASSUME NEW r \in Requests, LoadPublish(r) PROVE Unseen
  BY <1>0, <1>10 DEF LoadPublish
<1>12. ASSUME NEW r \in Requests, EmbedSize(r) PROVE Unseen
  BY <1>0, <1>12 DEF EmbedSize
<1>13. ASSUME NEW r \in Requests, EmbedLookup(r) PROVE Unseen
  BY <1>0, <1>13 DEF EmbedLookup
<1>14. ASSUME NEW r \in Requests, EmbedEnd(r) PROVE Unseen
  BY <1>0, <1>14 DEF EmbedEnd
<1>15. ASSUME NEW r \in Requests, Chunk(r) PROVE Unseen
  BY <1>0, <1>15 DEF Chunk
<1>16. ASSUME NEW r \in Requests, EmbedNext(r) PROVE Unseen
  BY <1>0, <1>16 DEF EmbedNext
<1>18. ASSUME Stop PROVE Unseen
  <2>1. server = "up" /\ server' = "stopping"
    BY <1>18 DEF Stop
  <2>2. Phase' = Phase
    BY <2>1 DEF Phase
  <2>3. QED
    BY <1>18, <2>2 DEF Stop
<1>19. ASSUME UNCHANGED vars PROVE Unseen
  BY <1>0, <1>19 DEF vars
<1>20. QED
  BY <1>1, <1>2, <1>3, <1>4, <1>5, <1>6, <1>7, <1>8, <1>9, <1>10, <1>12, <1>13, <1>14,
     <1>15, <1>16, <1>18, <1>19
  DEF Next, Step, Seen, Terminated
LEMMA StepLoad ==
  ASSUME IInv, Room, NEW r \in Requests, LoadInsert(r)
  PROVE  Service!Load(r)
<1>1. /\ pc[r] = "loading" /\ registryMu = r /\ model[r] \in Models /\ registry[model[r]] = NoCtx
      /\ GFree /\ nextId \in CtxId /\ context' = [context EXCEPT ![nextId] = model[r]]
      /\ UNCHANGED <<maxModels, model, server, abandoned>>
      /\ \A q \in Requests : pc[q] # "registering"
  BY DEF IInv, TypeOK, Named, Locks, Working, LoadInsert, CtxId, control
<1>2. Phase = "open" /\ Phase' = Phase
  BY <1>1, Open DEF Phase
<1>3. Held = Loaded
  BY <1>1, HeldIsLoaded
<1>4. model[r] \in Models \ Held
  BY <1>1, <1>3 DEF Loaded
<1>5. Cardinality(Held) < maxModels
  BY <1>1, <1>3 DEF Room
<1>6. Held' = Held \cup {model[r]}
  <2>1. context[nextId] = NoModel
    BY <1>1 DEF IInv, Ids, Live, TypeOK, CtxId
  <2>2. \A c \in CtxId : context'[c] = IF c = nextId THEN model[r] ELSE context[c]
    BY <1>1 DEF IInv, TypeOK
  <2>3. QED
    BY <1>1, <2>1, <2>2, NoModelAssumption DEF Held
<1>7. Users' = Users
  <2>1. \A q \in Requests : pc[q] # "inferring" /\ pc'[q] # "inferring"
    BY <1>1, NobodyUses DEF LoadInsert, GoTo, IInv, TypeOK
  <2>2. QED
    BY <2>1, SameUsers
<1>8. Service!Cardinality(Held) = Cardinality(Held)
  BY DEF Service!Cardinality, Cardinality
<1>9. QED
  BY <1>1, <1>2, <1>4, <1>5, <1>6, <1>7, <1>8 DEF Service!Load, Held, Users, Phase

LEMMA StepUnload ==
  ASSUME IInv, NEW r \in Requests, UnloadRelease(r)
  PROVE  Service!Unload(r)
<1>1. /\ pc[r] = "releasing" /\ registryMu = r /\ model[r] \in Models
      /\ ctx[r] \in CtxId /\ registry[model[r]] = ctx[r]
      /\ GFree /\ context' = [context EXCEPT ![ctx[r]] = NoModel]
      /\ UNCHANGED <<maxModels, model, server, abandoned>>
      /\ \A q \in Requests : pc[q] # "registering"
  BY DEF IInv, TypeOK, Named, Locks, Working, UnloadRelease, control
<1>2. Phase = "open" /\ Phase' = Phase
  BY <1>1, Open DEF Phase
<1>3. Held = Loaded
  BY <1>1, HeldIsLoaded
<1>4. model[r] \in Held
  BY <1>1, <1>3, NoCtxAssumption DEF Loaded, CtxId
<1>5. \A q \in Requests : Users[q] # model[r]
  BY <1>1, NobodyUses, NoModelAssumption
<1>6. Held' = Held \ {model[r]}
  <2>1. \A c \in CtxId : context'[c] = IF c = ctx[r] THEN NoModel ELSE context[c]
    BY <1>1 DEF IInv, TypeOK
  <2>2. \A c \in CtxId : context[c] = model[r] => c = ctx[r]
    BY <1>1, NoModelAssumption, NoCtxAssumption DEF IInv, Tables, Live, CtxId
  <2>3. context[ctx[r]] = model[r]
    BY <1>1, NoCtxAssumption DEF IInv, Tables, CtxId
  <2>4. QED
    BY <1>1, <2>1, <2>2, <2>3, NoModelAssumption DEF Held
<1>7. Users' = Users
  <2>1. \A q \in Requests : pc[q] # "inferring" /\ pc'[q] # "inferring"
    BY <1>1, NobodyUses DEF UnloadRelease, GoTo, IInv, TypeOK
  <2>2. QED
    BY <2>1, SameUsers
<1>8. QED
  BY <1>1, <1>2, <1>4, <1>5, <1>6, <1>7
  DEF Service!Unload, Service!Leaves, Service!Unused, Held, Users, Phase

LEMMA StepGenerate ==
  ASSUME IInv, NEW r \in Requests, InferBegin(r)
  PROVE  \E m \in Models : Service!Generate(r, m)
<1>1. /\ pc[r] = "queued" /\ GFree /\ Live(ctx[r]) /\ ctx[r] \in CtxId
      /\ UNCHANGED <<context, maxModels, model, server, ctx, abandoned>>
      /\ pc' = [pc EXCEPT ![r] = "inferring"]
  BY DEF IInv, TypeOK, InferBegin, GoTo, tables, control, Live
<1>2. (Phase = "open" \/ r \in abandoned) /\ Phase' = Phase
  BY <1>1, Open DEF Phase
<1>3. PICK m \in Models : m = context[ctx[r]]
  BY <1>1 DEF IInv, TypeOK, Live
<1>4. m \in Held /\ Held' = Held
  BY <1>1, <1>3 DEF Held
<1>5. model[r] \in {m, AnyModel}
  BY <1>1, <1>3 DEF IInv, Inferring
<1>6. \A q \in Requests : Users[q] = NoModel /\ pc[q] # "inferring"
  BY <1>1, NobodyUses
<1>7. Users' = [Users EXCEPT ![r] = m]
  <2>1. \A q \in Requests :
          (IF pc'[q] = "inferring" THEN context'[ctx'[q]] ELSE NoModel)
            = IF q = r THEN m ELSE Users[q]
    BY <1>1, <1>3, <1>6 DEF IInv, TypeOK
  <2>2. QED
    BY <2>1 DEF Users
<1>8. Service!Generate(r, m)
  BY <1>1, <1>2, <1>4, <1>5, <1>6, <1>7 DEF Service!Generate, Held, Users, Phase
<1>9. QED
  BY <1>8

LEMMA StepGenerated ==
  ASSUME IInv, NEW r \in Requests, InferEnd(r)
  PROVE  Service!Generated(r)
<1>1. /\ pc[r] = "inferring" /\ UNCHANGED <<context, maxModels, model, server, ctx, abandoned>>
      /\ \E l \in {"done", "chunking"} : pc' = [pc EXCEPT ![r] = l]
  BY DEF InferEnd, GoTo, tables, control
<1>2. Users[r] # NoModel
  BY <1>1 DEF IInv, Inferring, Live, Users
<1>3. Users' = [Users EXCEPT ![r] = NoModel]
  <2>1. \A q \in Requests :
          (IF pc'[q] = "inferring" THEN context'[ctx'[q]] ELSE NoModel)
            = IF q = r THEN NoModel ELSE Users[q]
    BY <1>1 DEF IInv, TypeOK, Users
  <2>2. QED
    BY <2>1 DEF Users
<1>4. Held' = Held /\ Phase' = Phase
  BY <1>1 DEF Held, Phase
<1>5. QED
  BY <1>1, <1>2, <1>3, <1>4 DEF Service!Generated, Held, Users, Phase

LEMMA StepLeave ==
  ASSUME NEW r \in Requests, Abandon(r)
  PROVE  Service!Leave(r)
<1>1. /\ abandoned' = abandoned \cup {r}
      /\ UNCHANGED <<context, maxModels, model, server, pc, ctx>>
  BY DEF Abandon, tables
<1>2. Held' = Held /\ Users' = Users /\ Phase' = Phase
  BY <1>1, SameUsers DEF Held, Phase
<1>3. QED
  BY <1>1, <1>2 DEF Service!Leave, Held, Users, Phase

LEMMA StepAsk ==
  ASSUME IInv, NEW r \in Requests, NEW op \in Ops, NEW m \in Models \cup {AnyModel},
         Arrive(r, op, m)
  PROVE  Service!Ask(r, m)
<1>1. /\ pc[r] = "idle" /\ server = "up" /\ model' = [model EXCEPT ![r] = m]
      /\ UNCHANGED <<context, maxModels, server, ctx, abandoned>> /\ pc' = [pc EXCEPT ![r] = op]
      /\ op # "inferring"
  BY DEF Arrive, GoTo, tables, control, Ops
<1>2. Phase = "open" /\ Phase' = Phase /\ Held' = Held
  BY <1>1 DEF Phase, Held
<1>3. Users[r] = NoModel
  BY <1>1 DEF Users
<1>4. Users' = Users
  BY <1>1, SameUsers DEF IInv, TypeOK
<1>5. QED
  BY <1>1, <1>2, <1>3, <1>4 DEF Service!Ask, Held, Users, Phase

LEMMA StepSetLimit ==
  ASSUME IInv, NEW r \in Requests, NEW n \in Limits, SetLimit(r, n)
  PROVE  Service!SetLimit(n)
<1>1. /\ pc[r] = "limit" /\ maxModels' = n
      /\ UNCHANGED <<context, model, server, ctx, abandoned>> /\ pc' = [pc EXCEPT ![r] = "done"]
  BY DEF SetLimit, GoTo, control
<1>2. Phase = "open" /\ Phase' = Phase /\ Held' = Held
  BY <1>1, Open DEF Phase, Held
<1>3. Users' = Users
  BY <1>1, SameUsers DEF IInv, TypeOK
<1>4. QED
  BY <1>1, <1>2, <1>3 DEF Service!SetLimit, Held, Users, Phase

LEMMA StepRelease ==
  ASSUME IInv, ReleaseAll
  PROVE  Service!Close \/ (\E m \in Models : Service!Release(m)) \/ Service!Closed
<1>1. CASE ReleaseAllBegin
  <2>1. UNCHANGED <<context, maxModels, model, pc, ctx, abandoned>>
        /\ server = "stopping" /\ server' = "releasing"
    BY <1>1 DEF ReleaseAllBegin, tables
  <2>2. Phase = "open" /\ Phase' = "closing" /\ Held' = Held /\ Users' = Users
    BY <2>1, SameUsers DEF Phase, Held
  <2>3. Service!Close
    BY <2>1, <2>2 DEF Service!Close, Held, Users, Phase
  <2>4. QED
    BY <2>3
<1>2. ASSUME NEW m \in Models, ReleaseContext(m)
      PROVE  Service!Release(m)
  <2>1. /\ UNCHANGED <<maxModels, model, pc, ctx, server, abandoned>>
        /\ server = "releasing" /\ GFree /\ m \in Loaded /\ registry[m] \in CtxId
        /\ context' = [context EXCEPT ![registry[m]] = NoModel]
        /\ \A q \in Requests : pc[q] # "registering"
    BY <1>2, ThreadsAssumption DEF IInv, TypeOK, Locks, ReleaseContext, Loaded, control
  <2>2. Phase = "closing" /\ Phase' = Phase
    BY <2>1 DEF Phase
  <2>3. m \in Held
    BY <2>1, HeldIsLoaded
  <2>4. \A q \in Requests : Users[q] # m
    BY <2>1, NobodyUses, NoModelAssumption
  <2>5. Held' = Held \ {m}
    <3>1. \A c \in CtxId : context'[c] = IF c = registry[m] THEN NoModel ELSE context[c]
      BY <2>1 DEF IInv, TypeOK
    <3>2. \A c \in CtxId : context[c] = m => c = registry[m]
      BY <2>1, NoModelAssumption, NoCtxAssumption DEF IInv, Tables, Live, CtxId
    <3>3. context[registry[m]] = m
      BY <2>1 DEF IInv, Tables, Loaded
    <3>4. QED
      BY <3>1, <3>2, <3>3, NoModelAssumption DEF Held
  <2>6. Users' = Users
    <3>1. \A q \in Requests : pc[q] # "inferring" /\ pc'[q] # "inferring"
      BY <2>1, NobodyUses
    <3>2. QED
      BY <3>1, SameUsers
  <2>7. QED
    BY <2>1, <2>2, <2>3, <2>4, <2>5, <2>6
    DEF Service!Release, Service!Leaves, Service!Unused, Held, Users, Phase
<1>3. CASE ReleaseAllEnd
  <2>1. /\ UNCHANGED <<context, maxModels, model, pc, ctx, abandoned>>
        /\ server = "releasing" /\ server' = "stopped" /\ Loaded = {}
        /\ \A q \in Requests : pc[q] # "registering"
    BY <1>3, ThreadsAssumption DEF IInv, TypeOK, Locks, ReleaseAllEnd, tables
  <2>2. Phase = "closing" /\ Phase' = "closed" /\ Held' = Held /\ Users' = Users
    BY <2>1, SameUsers DEF Phase, Held
  <2>3. Held = {}
    BY <2>1, HeldIsLoaded
  <2>4. Service!Closed
    BY <2>1, <2>2, <2>3 DEF Service!Closed, Held, Users, Phase
  <2>5. QED
    BY <2>4
<1>4. QED
  BY <1>1, <1>2, <1>3 DEF ReleaseAll

LEMMA InitService ==
  ASSUME Init
  PROVE  Service!Init
<1>1. PICK boot \in Models \cup {NoModel} :
        context = [c \in CtxId |-> IF c = 1 THEN boot ELSE NoModel]
  BY DEF Init
<1>2. 1 \in CtxId
  BY ContextsAssumption DEF CtxId
<1>3. Held = IF boot = NoModel THEN {} ELSE {boot}
  BY <1>1, <1>2, NoModelAssumption DEF Held
<1>4. Users = [r \in Requests |-> NoModel]
  <2>1. \A r \in Requests : pc[r] # "inferring"
    BY DEF Init
  <2>2. QED
    BY <2>1 DEF Users
<1>5. Phase = "open"
  BY DEF Init, Phase
<1>6. Held \in {{}} \cup {{m} : m \in Models}
  BY <1>3
<1>7. QED
  BY <1>4, <1>5, <1>6 DEF Init, Service!Init, Held, Users, Phase

LEMMA NextService ==
  ASSUME IInv, Room, [Next]_vars
  PROVE  [Service!Next]_(Service!vars)
<1>1. CASE Unseen
  BY <1>1, UnseenStutters
<1>2. ASSUME NEW r \in Requests, LoadInsert(r)
      PROVE  Service!Next
  BY <1>2, StepLoad DEF Service!Next
<1>3. ASSUME NEW r \in Requests, UnloadRelease(r)
      PROVE  Service!Next
  BY <1>3, StepUnload DEF Service!Next
<1>4. ASSUME NEW r \in Requests, InferBegin(r)
      PROVE  Service!Next
  BY <1>4, StepGenerate DEF Service!Next
<1>5. ASSUME NEW r \in Requests, InferEnd(r)
      PROVE  Service!Next
  BY <1>5, StepGenerated DEF Service!Next
<1>6. ASSUME NEW r \in Requests, NEW n \in Limits, SetLimit(r, n)
      PROVE  Service!Next
  BY <1>6, StepSetLimit DEF Service!Next
<1>7. ASSUME NEW r \in Requests, NEW op \in Ops, NEW m \in Models \cup {AnyModel},
             Arrive(r, op, m)
      PROVE  Service!Next
  BY <1>7, StepAsk DEF Service!Next
<1>8. CASE ReleaseAll
  BY <1>8, StepRelease DEF Service!Next
<1>9. ASSUME NEW r \in Requests, Abandon(r)
      PROVE  Service!Next
  BY <1>9, StepLeave DEF Service!Next
<1>10. TypeOK
  BY DEF IInv
<1>11. QED
  BY <1>1, <1>2, <1>3, <1>4, <1>5, <1>6, <1>7, <1>8, <1>9, <1>10, Unseens DEF Seen

(* To its clients, the server with its three mutexes, two tables and three *)
(* numberings is a service whose loads, unloads and generations each take  *)
(* effect at once, in some order: registry_load_model at the insertion of  *)
(* the context, registry_unload_model at its destruction.  While it closes *)
(* only producers whose handler is gone begin to generate, each on a model *)
(* that registry_release_all has not come to.                              *)
THEOREM ServiceRefinement == Spec => ImplementsModelService
<1>1. Init => Service!Init
  BY InitService
<1>2. Init => Room
  BY DEF Init, Room
<1>3. IInv /\ Room /\ [Next]_vars => [Service!Next]_(Service!vars)
  BY NextService
<1>4. QED
  BY <1>1, <1>2, <1>3, NextRoom, Invariance, PTL
  DEF Spec, ImplementsModelService, Service!Spec
=============================================================================
