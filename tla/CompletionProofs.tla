-------------------------- MODULE CompletionProofs --------------------------
(***************************************************************************)
(* Proofs about Completion, for any context, batch, budget and number of   *)
(* completions: types, that the engine knows what is in its cache, and that*)
(* every token but the last was streamed.                                  *)
(***************************************************************************)
EXTENDS Completion, SequenceTheorems, TLAPS

USE CompletionAssumption

-----------------------------------------------------------------------------
(* Sequences.                                                              *)

(* A cache that is a prefix of the text grows by the batch that follows.   *)
LEMMA PrefixGrows ==
  ASSUME NEW s \in Seq(Token), NEW n \in Nat, NEW m \in Nat, n <= m, m <= Len(s)
  PROVE  SubSeq(s, 1, n) \o SubSeq(s, n + 1, m) = SubSeq(s, 1, m)
<1>1. 1 \in 1 .. Len(s) + 1 /\ n \in 1 - 1 .. Len(s) /\ m \in n .. Len(s)
  BY LenProperties
<1>2. QED
  BY <1>1, ConcatAdjacentSubSeq

LEMMA PrefixOf ==
  ASSUME NEW s \in Seq(Token), NEW n \in Nat, n <= Len(s)
  PROVE  /\ SubSeq(s, 1, n) \in Seq(Token)
         /\ Len(SubSeq(s, 1, n)) = n
         /\ \A i \in 1 .. n : SubSeq(s, 1, n)[i] = s[i]
<1>1. \A i \in 1 .. n : s[i] \in Token
  BY ElementOfSeq, LenProperties
<1>2. QED
  BY <1>1, SubSeqProperties

LEMMA MiddleOf ==
  ASSUME NEW s \in Seq(Token), NEW n \in Nat, NEW m \in Nat, n <= m, m <= Len(s)
  PROVE  SubSeq(s, n + 1, m) \in Seq(Token) /\ Len(SubSeq(s, n + 1, m)) = m - n
<1>1. \A i \in n + 1 .. m : s[i] \in Token
  BY ElementOfSeq, LenProperties
<1>2. n + 1 \in Int /\ m \in Int
  OBVIOUS
<1>3. /\ SubSeq(s, n + 1, m) \in Seq(Token)
      /\ Len(SubSeq(s, n + 1, m)) = IF n + 1 <= m THEN m - (n + 1) + 1 ELSE 0
  BY <1>1, <1>2, SubSeqProperties
<1>4. QED
  BY <1>3

LEMMA PrefixOfAppend ==
  ASSUME NEW s \in Seq(Token), NEW t \in Token, NEW n \in Nat, n <= Len(s)
  PROVE  SubSeq(Append(s, t), 1, n) = SubSeq(s, 1, n)
<1>1. Append(s, t) \in Seq(Token) /\ Len(Append(s, t)) = Len(s) + 1
  BY AppendProperties
<1>2. n <= Len(Append(s, t))
  BY <1>1, LenProperties
<1>3. \A i \in 1 .. n : Append(s, t)[i] = s[i]
  BY AppendProperties, LenProperties
<1>4. QED
  BY <1>1, <1>2, <1>3, PrefixOf, SeqEqual

LEMMA PrefixOfPrefix ==
  ASSUME NEW s \in Seq(Token), NEW n \in Nat, n <= Len(s)
  PROVE  SubSeq(SubSeq(s, 1, n), 1, n) = SubSeq(s, 1, n)
  BY PrefixOf, SubSeqFull

(* The shift of a sequence, and that it commutes with taking a prefix.     *)
LEMMA ShiftedSeq ==
  ASSUME NEW s \in Seq(Token), NEW d \in Nat, d < Len(s)
  PROVE  /\ Shifted(s, d) \in Seq(Token)
         /\ Len(Shifted(s, d)) = Len(s) - d
         /\ \A i \in 1 .. Len(s) - d : Shifted(s, d)[i] = IF i = 1 THEN s[1] ELSE s[i + d]
<1> DEFINE r == SubSeq(s, d + 2, Len(s))
<1>1. Len(s) \in Nat /\ s[1] \in Token /\ \A i \in d + 2 .. Len(s) : s[i] \in Token
  BY LenProperties, ElementOfSeq
<1>2. /\ r \in Seq(Token) /\ Len(r) = Len(s) - d - 1
      /\ \A i \in 1 .. Len(s) - d - 1 : r[i] = s[d + 1 + i]
  BY <1>1, SubSeqProperties
<1>3. <<s[1]>> \in Seq(Token) /\ Len(<<s[1]>>) = 1 /\ <<s[1]>>[1] = s[1]
  BY <1>1
<1>4. Shifted(s, d) = <<s[1]>> \o r
  BY DEF Shifted
<1> HIDE DEF r
<1>5. /\ Shifted(s, d) \in Seq(Token) /\ Len(Shifted(s, d)) = 1 + Len(r)
      /\ \A i \in 1 .. 1 + Len(r) :
           Shifted(s, d)[i] = IF i <= 1 THEN <<s[1]>>[i] ELSE r[i - 1]
  BY <1>2, <1>3, <1>4, ConcatProperties
<1>6. Len(Shifted(s, d)) = Len(s) - d
  BY <1>1, <1>2, <1>5
<1>7. ASSUME NEW i \in 1 .. Len(s) - d
      PROVE  Shifted(s, d)[i] = IF i = 1 THEN s[1] ELSE s[i + d]
  <2>1. i \in 1 .. 1 + Len(r)
    BY <1>1, <1>2
  <2>2. CASE i = 1
    BY <1>3, <1>5, <2>1, <2>2
  <2>3. CASE i # 1
    <3>1. i - 1 \in 1 .. Len(s) - d - 1 /\ ~(i <= 1) /\ d + 1 + (i - 1) = i + d
      BY <1>1, <2>3
    <3>2. Shifted(s, d)[i] = r[i - 1]
      BY <1>5, <2>1, <3>1
    <3>3. QED
      BY <1>2, <2>3, <3>1, <3>2
  <2>4. QED
    BY <2>2, <2>3
<1>8. QED
  BY <1>5, <1>6, <1>7

LEMMA ShiftedPrefix ==
  ASSUME NEW s \in Seq(Token), NEW n \in Nat, NEW d \in Nat, d < n, n <= Len(s)
  PROVE  Shifted(SubSeq(s, 1, n), d) = SubSeq(Shifted(s, d), 1, n - d)
<1> DEFINE p == SubSeq(s, 1, n)  a == Shifted(p, d)  b == SubSeq(Shifted(s, d), 1, n - d)
<1>1. /\ p \in Seq(Token) /\ Len(p) = n /\ \A i \in 1 .. n : p[i] = s[i]
      /\ Len(s) \in Nat
  BY PrefixOf, LenProperties
<1> HIDE DEF p
<1>2. /\ a \in Seq(Token) /\ Len(a) = n - d
      /\ \A i \in 1 .. n - d : a[i] = IF i = 1 THEN p[1] ELSE p[i + d]
  BY <1>1, ShiftedSeq
<1>3. /\ b \in Seq(Token) /\ Len(b) = n - d
      /\ \A i \in 1 .. n - d : b[i] = Shifted(s, d)[i]
  BY <1>1, ShiftedSeq, PrefixOf
<1>4. \A i \in 1 .. n - d : Shifted(s, d)[i] = IF i = 1 THEN s[1] ELSE s[i + d]
  BY <1>1, ShiftedSeq
<1> HIDE DEF a, b
<1>5. ASSUME NEW i \in 1 .. n - d PROVE a[i] = b[i]
  <2>1. 1 \in 1 .. n /\ i + d \in 1 .. n
    OBVIOUS
  <2>2. p[1] = s[1] /\ p[i + d] = s[i + d]
    BY <1>1, <2>1
  <2>3. a[i] = IF i = 1 THEN s[1] ELSE s[i + d]
    BY <1>2, <2>2
  <2>4. QED
    BY <1>3, <1>4, <2>3
<1>6. a = b
  BY <1>2, <1>3, <1>5, SeqEqual
<1>7. QED
  BY <1>6 DEF a, b, p

-----------------------------------------------------------------------------
(* Records.                                                                *)

Engine ==
  [embd : Seq(Token), n_past : Nat, has_next_token : BOOLEAN, is_interrupted : BOOLEAN,
   context_full : BOOLEAN, incomplete : BOOLEAN, n_remain : 0 .. Wrap - 1,
   stopped_eos : BOOLEAN, stopped_word : BOOLEAN, stopped_limit : BOOLEAN,
   num_tokens_predicted : Nat, antiprompt : BOOLEAN]
Run ==
  [driver : Drivers, prompt : Prompts \cup {<<>>}, n_predict : -1 .. MaxPredict,
   stop : BOOLEAN, at : Places, tokens_generated : Nat, retried : BOOLEAN]

(* The part of TypeOK that is about more than one field.                   *)
Sizes == c.n_past <= Len(c.embd) /\ Len(c.embd) <= NCtx /\ Len(kv) <= NCtx

LEMMA TypeIs ==
  TypeOK <=> /\ platform \in {"wasm", "ios", "android"}
             /\ c \in Engine /\ run \in Run /\ kv \in Seq(Token)
             /\ Sizes /\ runs \in 0 .. MaxRuns
  BY DEF TypeOK, Engine, Run, Sizes

LEMMA RunFields ==
  ASSUME NEW r \in Run
  PROVE  /\ r.driver \in Drivers /\ r.prompt \in Prompts \cup {<<>>}
         /\ r.n_predict \in -1 .. MaxPredict /\ r.stop \in BOOLEAN
         /\ r.at \in Places /\ r.tokens_generated \in Nat /\ r.retried \in BOOLEAN
  BY DEF Run

LEMMA EngineFields ==
  ASSUME NEW x \in Engine
  PROVE  /\ x.embd \in Seq(Token) /\ x.n_past \in Nat
         /\ x.has_next_token \in BOOLEAN /\ x.incomplete \in BOOLEAN
         /\ x.n_remain \in 0 .. Wrap - 1 /\ x.n_remain \in Nat
         /\ x.stopped_word \in BOOLEAN /\ x.stopped_limit \in BOOLEAN
         /\ x.num_tokens_predicted \in Nat /\ x.antiprompt \in BOOLEAN
         /\ x.is_interrupted \in BOOLEAN /\ x.context_full \in BOOLEAN
  BY DEF Engine

(* A counter of the size of n_remain.                                      *)
LEMMA Wraps ==
  ASSUME NEW n \in Int
  PROVE  /\ n % Wrap \in 0 .. Wrap - 1
         /\ 0 <= n /\ n < Wrap => n % Wrap = n
  OBVIOUS

LEMMA PromptIs ==
  ASSUME NEW p \in Prompts
  PROVE  p \in Seq(Token) /\ Len(p) \in Nat /\ Len(p) >= 1
<1>1. PICK n \in 1 .. MaxPrompt : p = [i \in 1 .. n |-> IF i = 1 THEN "ascii" ELSE "char"]
  BY DEF Prompts
<1>2. n \in Nat /\ p \in [1 .. n -> Token]
  BY <1>1 DEF Token
<1>3. p \in Seq(Token)
  BY <1>2
<1>4. QED
  BY <1>1, <1>2, <1>3

(* What the tail of an iteration leaves alone: the text and the cache.     *)
SameText(x, y) ==
  /\ y.embd = x.embd /\ y.n_past = x.n_past /\ y.context_full = x.context_full
  /\ y.num_tokens_predicted = x.num_tokens_predicted

LEMMA DoCompletionType ==
  ASSUME NEW x \in Engine, NEW tok
  PROVE  /\ DoCompletion(x, tok) \in Engine
         /\ SameText(x, DoCompletion(x, tok))
<1> DEFINE part == CASE tok = "lead" -> TRUE
                     [] tok = "char" -> FALSE
                     [] OTHER -> x.incomplete
           word == tok = "stop" /\ x.antiprompt
           on == x.has_next_token /\ ~word
           left == IF part /\ ~on THEN (x.n_remain + 1) % Wrap ELSE x.n_remain
<1>1. part \in BOOLEAN /\ word \in BOOLEAN
  BY EngineFields
<1>2. left \in 0 .. Wrap - 1
  BY EngineFields, Wraps, SMTT(20)
<1>3. DoCompletion(x, tok) =
        [x EXCEPT !.stopped_word = @ \/ word, !.incomplete = part,
                  !.has_next_token = on \/ part, !.n_remain = left,
                  !.stopped_limit = @ \/ (~on /\ ~part /\ left = 0)]
  BY DEF DoCompletion
<1> HIDE DEF part, word, left
<1>4. QED
  BY <1>1, <1>2, <1>3 DEF Engine, SameText

LEMMA AfterTokenType ==
  ASSUME NEW x \in Engine, NEW tok, run \in Run, AfterToken(x, tok)
  PROVE  /\ c' \in Engine /\ SameText(x, c')
         /\ \E at \in {"retry", "idle", "check"}, n \in Nat :
              run' = [run EXCEPT !.at = at, !.tokens_generated = n]
<1>1. c' = x \/ c' = DoCompletion(x, tok)
  BY DEF AfterToken
<1>2. c' \in Engine /\ SameText(x, c')
  BY <1>1, DoCompletionType DEF SameText
<1>3. Ended \in {"retry", "idle"}
  BY DEF Ended
<1>4. \/ run' = [run EXCEPT !.at = Ended]
      \/ run' = [run EXCEPT !.at = "check", !.tokens_generated = IF run.driver = "run" THEN @ ELSE @ + 1]
  BY DEF AfterToken
<1>5. run.tokens_generated \in Nat
  BY RunFields
<1>6. CASE run' = [run EXCEPT !.at = Ended]
  <2>1. run' = [run EXCEPT !.at = Ended, !.tokens_generated = run.tokens_generated]
    BY <1>6 DEF Run
  <2>2. QED
    BY <1>2, <1>3, <1>5, <2>1
<1>7. CASE run' = [run EXCEPT !.at = "check", !.tokens_generated = IF run.driver = "run" THEN @ ELSE @ + 1]
  <2> DEFINE n == IF run.driver = "run" THEN run.tokens_generated ELSE run.tokens_generated + 1
  <2>1. n \in Nat
    BY <1>5
  <2>2. run' = [run EXCEPT !.at = "check", !.tokens_generated = n]
    BY <1>7
  <2> HIDE DEF n
  <2>3. QED
    BY <1>2, <2>1, <2>2
<1>8. QED
  BY <1>4, <1>6, <1>7

-----------------------------------------------------------------------------
(* Types and the cache.                                                    *)

(* There is room for the next token.  On WASM, where contexts are shifted, *)
(* the context is never full, and where the loop goes on at most one token *)
(* of the text is not cached.                                              *)
Known ==
  /\ CacheKnown
  /\ run.at = "next" => Len(c.embd) < NCtx
  /\ platform = "wasm" =>
       /\ ~c.context_full
       /\ (run.at = "check" /\ c.has_next_token) \/ run.at = "next"
            => Len(c.embd) <= c.n_past + 1

LEMMA RunMoves ==
  ASSUME run \in Run, platform' = platform, NEW at \in Places, NEW n \in Nat,
         run' = [run EXCEPT !.at = at, !.tokens_generated = n]
  PROVE  /\ run' \in Run' /\ run'.at = at /\ run'.tokens_generated = n
         /\ run'.driver = run.driver /\ run'.n_predict = run.n_predict
         /\ run'.prompt = run.prompt /\ run'.stop = run.stop /\ run'.retried = run.retried
<1>1. Run' = Run
  BY DEF Run, Drivers
<1>2. QED
  BY <1>1 DEF Run

LEMMA BatchIs ==
  ASSUME TypeOK
  PROVE  /\ Batch \in Seq(Token) /\ Len(Batch) \in Nat
         /\ c.n_past + Len(Batch) <= Len(c.embd)
         /\ c.n_past < Len(c.embd) => Len(Batch) >= 1
         /\ Len(c.embd) <= c.n_past + 1 => Len(Batch) <= 1
         /\ Batch = SubSeq(c.embd, c.n_past + 1, c.n_past + Len(Batch))
<1>1. c.embd \in Seq(Token) /\ c.n_past \in Nat /\ Len(c.embd) \in Nat /\ c.n_past <= Len(c.embd)
  BY TypeIs, EngineFields, LenProperties DEF Sizes
<1> DEFINE left == Len(c.embd) - c.n_past
           b == IF left > NBatch THEN NBatch ELSE left
<1>2. b \in Nat /\ c.n_past + b <= Len(c.embd)
  BY <1>1
<1>3. Batch = SubSeq(c.embd, c.n_past + 1, c.n_past + b)
  BY DEF Batch
<1>4. Len(Batch) = b
  <2> DEFINE m == c.n_past + b
  <2>1. m \in Nat /\ c.n_past <= m /\ m <= Len(c.embd) /\ m - c.n_past = b
    BY <1>1, <1>2
  <2>2. Batch = SubSeq(c.embd, c.n_past + 1, m)
    BY <1>3
  <2> HIDE DEF m
  <2>3. QED
    BY <1>1, <2>1, <2>2, MiddleOf
<1>5. Batch \in Seq(Token)
  <2> DEFINE m == c.n_past + b
  <2>1. m \in Nat /\ c.n_past <= m /\ m <= Len(c.embd)
    BY <1>1, <1>2
  <2>2. Batch = SubSeq(c.embd, c.n_past + 1, m)
    BY <1>3
  <2> HIDE DEF m
  <2>3. QED
    BY <1>1, <2>1, <2>2, MiddleOf
<1>6. (c.n_past < Len(c.embd) => b >= 1) /\ (Len(c.embd) <= c.n_past + 1 => b <= 1)
  BY <1>1
<1>7. QED
  BY <1>2, <1>3, <1>4, <1>5, <1>6

(* What a batch that was decoded leaves in the cache.                      *)
LEMMA DecodedKnown ==
  ASSUME TypeOK, CacheKnown, Decoded
  PROVE  /\ kv' \in Seq(Token) /\ Len(kv') <= NCtx
         /\ ~c.context_full => kv' = SubSeq(c.embd, 1, c.n_past + Len(Batch))
<1>1. /\ c.embd \in Seq(Token) /\ c.n_past \in Nat /\ kv \in Seq(Token)
      /\ Len(kv) \in Nat
  BY TypeIs, EngineFields, LenProperties
<1>2. kv' = kv \o Batch /\ Len(kv) + Len(Batch) <= NCtx
  BY DEF Decoded
<1>3. kv' \in Seq(Token) /\ Len(kv') = Len(kv) + Len(Batch)
  BY <1>1, <1>2, BatchIs, ConcatProperties
<1>4. ASSUME ~c.context_full PROVE kv' = SubSeq(c.embd, 1, c.n_past + Len(Batch))
  <2>1. kv = SubSeq(c.embd, 1, c.n_past)
    BY <1>4 DEF CacheKnown
  <2> DEFINE m == c.n_past + Len(Batch)
  <2>2. m \in Nat /\ c.n_past <= m /\ m <= Len(c.embd)
    BY <1>1, BatchIs
  <2>3. Batch = SubSeq(c.embd, c.n_past + 1, m)
    BY BatchIs
  <2> HIDE DEF m
  <2>4. kv' = SubSeq(c.embd, 1, m)
    BY <1>1, <1>2, <2>1, <2>2, <2>3, PrefixGrows
  <2>5. QED
    BY <2>4 DEF m
<1>5. QED
  BY <1>2, <1>3, <1>4

LEMMA TruncatedFits ==
  ASSUME NEW p \in Seq(Token), Len(p) >= NCtx
  PROVE  Truncated(p) \in Seq(Token) /\ Len(Truncated(p)) < NCtx
<1> DEFINE block == NCtx \div 2
           k == (Len(p) - block) \div block
<1>1. block \in Nat /\ block >= 2 /\ 2 * block <= NCtx /\ Len(p) \in Nat
  BY LenProperties
<1>2. Len(p) - block \in Nat
  BY <1>1
<1> HIDE DEF block
<1>3. /\ k \in Nat /\ k * block \in Nat
      /\ k * block <= Len(p) - block /\ Len(p) - block < k * block + block
  BY <1>1, <1>2, SMTT(60)
<1>4. Truncated(p) = SubSeq(p, k * block + 1, Len(p))
  BY DEF Truncated, block
<1> HIDE DEF k
<1> DEFINE m == k * block
<1>5. m \in Nat /\ m <= Len(p) - block /\ Len(p) - block < m + block
  BY <1>3
<1>6. Truncated(p) = SubSeq(p, m + 1, Len(p))
  BY <1>4
<1> HIDE DEF m
<1>7. \A i \in m + 1 .. Len(p) : p[i] \in Token
  BY <1>1, <1>5, ElementOfSeq
<1>8. /\ Truncated(p) \in Seq(Token)
      /\ Len(Truncated(p)) = IF m + 1 <= Len(p) THEN Len(p) - (m + 1) + 1 ELSE 0
  BY <1>1, <1>5, <1>6, <1>7, SubSeqProperties
<1>9. QED
  BY <1>1, <1>5, <1>8

LEMMA RunAt ==
  ASSUME NEW r \in Run, NEW at \in Places, platform' = platform, run' = [r EXCEPT !.at = at]
  PROVE  /\ run' \in Run' /\ run'.at = at /\ run'.driver = r.driver
         /\ run'.tokens_generated = r.tokens_generated /\ run'.n_predict = r.n_predict
         /\ run'.retried = r.retried
<1>1. Run' = Run
  BY DEF Run, Drivers
<1>2. QED
  BY <1>1 DEF Run

LEMMA TypeNext ==
  ASSUME platform \in {"wasm", "ios", "android"}, platform' = platform,
         c' \in Engine, run' \in Run', kv' \in Seq(Token), Sizes', runs' \in 0 .. MaxRuns
  PROVE  TypeOK'
  BY DEF TypeOK, Engine, Run, Sizes

LEMMA RewoundIs ==
  ASSUME NEW h \in BOOLEAN, NEW a \in BOOLEAN
  PROVE  LET x == [Rewound EXCEPT !.has_next_token = h, !.antiprompt = a] IN
         /\ x \in Engine /\ x.embd = <<>> /\ x.n_past = 0 /\ ~x.context_full
         /\ ~x.stopped_word /\ ~x.stopped_limit /\ x.num_tokens_predicted = 0
<1>1. <<>> \in Seq(Token) /\ 0 \in 0 .. Wrap - 1 /\ 0 \in Nat
  BY EmptySeq
<1>2. QED
  BY <1>1 DEF Rewound, Engine

(* After rewind() and the first part of loadPrompt.                        *)
LEMMA LoadPromptLeaves ==
  ASSUME c \in Engine, NEW r \in Run, r.prompt \in Seq(Token),
         platform' = platform, LoadPrompt(r)
  PROVE  /\ c' \in Engine /\ run' \in Run' /\ c'.n_past = 0 /\ Len(c'.embd) < NCtx
         /\ run'.driver = r.driver /\ run'.tokens_generated = r.tokens_generated
         /\ run'.n_predict = r.n_predict
         /\ ~c'.stopped_word /\ ~c'.stopped_limit /\ c'.num_tokens_predicted = 0
         /\ \/ run'.at = "prefill" /\ kv' = <<>> /\ ~c'.context_full
            \/ /\ kv' = kv /\ c'.context_full /\ ~Shift
               /\ run'.at = IF r.driver = "stream" THEN "idle" ELSE "check"
<1> DEFINE c1 == [Rewound EXCEPT
                    !.has_next_token = c.has_next_token,
                    !.antiprompt = r.stop /\ r.driver \in {"whole", "stream"}]
           tooLong == Len(r.prompt) >= NCtx
<1>1. /\ c1 \in Engine /\ c1.embd = <<>> /\ c1.n_past = 0 /\ ~c1.context_full
      /\ ~c1.stopped_word /\ ~c1.stopped_limit /\ c1.num_tokens_predicted = 0
  BY EngineFields, RewoundIs
<1>2. Len(<<>>) = 0 /\ Len(r.prompt) \in Nat
  BY LenProperties
<1>3. r.n_predict % Wrap \in 0 .. Wrap - 1
  <2>1. r.n_predict \in Int
    BY RunFields
  <2>2. QED
    BY <2>1, Wraps
<1>4. {"idle", "check", "prefill"} \subseteq Places
  BY DEF Places
<1>5. LoadPrompt(r) =
        \/ /\ tooLong /\ ~Shift
           /\ IF r.driver = "stream"
              THEN /\ c' = [c1 EXCEPT !.context_full = TRUE]
                   /\ run' = [r EXCEPT !.at = "idle"]
              ELSE /\ c' = [c1 EXCEPT !.context_full = TRUE, !.n_remain = r.n_predict % Wrap]
                   /\ run' = [r EXCEPT !.at = "check"]
           /\ UNCHANGED kv
        \/ /\ ~tooLong \/ Shift
           /\ c' = [c1 EXCEPT !.embd = IF tooLong THEN Truncated(r.prompt) ELSE r.prompt]
           /\ run' = [r EXCEPT !.at = "prefill"]
           /\ kv' = <<>>
  BY DEF LoadPrompt
<1> HIDE DEF c1
<1>6. CASE /\ ~tooLong \/ Shift
           /\ c' = [c1 EXCEPT !.embd = IF tooLong THEN Truncated(r.prompt) ELSE r.prompt]
           /\ run' = [r EXCEPT !.at = "prefill"]
           /\ kv' = <<>>
  <2> DEFINE e == IF tooLong THEN Truncated(r.prompt) ELSE r.prompt
  <2>1. e \in Seq(Token) /\ Len(e) < NCtx
    BY <1>2, TruncatedFits
  <2>2. c' = [c1 EXCEPT !.embd = e]
    BY <1>6
  <2> HIDE DEF e
  <2>3. /\ c' \in Engine /\ c'.embd = e /\ c'.n_past = 0 /\ ~c'.context_full
        /\ ~c'.stopped_word /\ ~c'.stopped_limit /\ c'.num_tokens_predicted = 0
    BY <1>1, <2>1, <2>2 DEF Engine
  <2>4. QED
    BY <1>4, <1>6, <2>1, <2>3, RunAt
<1>7. CASE /\ tooLong /\ ~Shift
           /\ IF r.driver = "stream"
              THEN /\ c' = [c1 EXCEPT !.context_full = TRUE]
                   /\ run' = [r EXCEPT !.at = "idle"]
              ELSE /\ c' = [c1 EXCEPT !.context_full = TRUE, !.n_remain = r.n_predict % Wrap]
                   /\ run' = [r EXCEPT !.at = "check"]
           /\ UNCHANGED kv
  <2>1. /\ c' \in Engine /\ c'.embd = <<>> /\ c'.n_past = 0 /\ c'.context_full
        /\ ~c'.stopped_word /\ ~c'.stopped_limit /\ c'.num_tokens_predicted = 0
    BY <1>1, <1>3, <1>7 DEF Engine
  <2> DEFINE at == IF r.driver = "stream" THEN "idle" ELSE "check"
  <2>2. run' = [r EXCEPT !.at = at] /\ at \in Places
    BY <1>4, <1>7
  <2> HIDE DEF at
  <2>3. /\ run' \in Run' /\ run'.at = at /\ run'.driver = r.driver
        /\ run'.tokens_generated = r.tokens_generated /\ run'.n_predict = r.n_predict
    BY <2>2, RunAt
  <2>4. Len(c'.embd) < NCtx
    BY <1>2, <2>1
  <2>5. QED
    BY <1>7, <2>1, <2>3, <2>4 DEF at
<1>8. QED
  BY <1>5, <1>6, <1>7

LEMMA LoadPromptKnown ==
  ASSUME TypeOK, NEW r \in Run, r.prompt \in Seq(Token),
         platform' = platform, LoadPrompt(r), runs' \in 0 .. MaxRuns
  PROVE  TypeOK' /\ Known'
<1>1. c \in Engine /\ platform \in {"wasm", "ios", "android"} /\ kv \in Seq(Token) /\ Len(kv) <= NCtx
  BY TypeIs DEF Sizes
<1>2. c' \in Engine /\ run' \in Run' /\ c'.n_past = 0 /\ Len(c'.embd) < NCtx
  BY <1>1, LoadPromptLeaves
<1>3. /\ c'.n_past <= Len(c'.embd) /\ Len(c'.embd) <= NCtx /\ Len(c'.embd) \in Nat
  BY <1>2, EngineFields, LenProperties
<1>4. CASE run'.at = "prefill" /\ kv' = <<>> /\ ~c'.context_full
  <2>1. kv' \in Seq(Token) /\ Len(kv') = 0
    BY <1>4, EmptySeq
  <2>2. SubSeq(c'.embd, 1, 0) = <<>>
    BY SubSeqEmpty
  <2>3. Known'
    BY <1>2, <1>4, <2>2 DEF Known, CacheKnown
  <2>4. QED
    BY <1>1, <1>2, <1>3, <2>1, <2>3, TypeNext DEF Sizes
<1>5. CASE kv' = kv /\ c'.context_full /\ ~Shift /\ run'.at \in {"idle", "check"}
  <2>1. Known'
    BY <1>5 DEF Known, CacheKnown, Shift
  <2>2. QED
    BY <1>1, <1>2, <1>3, <1>5, <2>1, TypeNext DEF Sizes
<1>6. QED
  BY <1>1, <1>4, <1>5, LoadPromptLeaves

LEMMA AfterTokenKnown ==
  ASSUME TypeOK, NEW x \in Engine, NEW tok, AfterToken(x, tok),
         platform' = platform, runs' = runs,
         x.n_past <= Len(x.embd), Len(x.embd) <= NCtx,
         kv' \in Seq(Token), Len(kv') <= NCtx,
         ~x.context_full => kv' = SubSeq(x.embd, 1, x.n_past),
         platform = "wasm" => ~x.context_full /\ Len(x.embd) <= x.n_past + 1
  PROVE  TypeOK' /\ Known'
<1>1. /\ platform \in {"wasm", "ios", "android"} /\ run \in Run /\ runs \in 0 .. MaxRuns
  BY TypeIs
<1>2. /\ c' \in Engine /\ SameText(x, c')
      /\ \E at \in {"retry", "idle", "check"}, n \in Nat :
           run' = [run EXCEPT !.at = at, !.tokens_generated = n]
  BY <1>1, AfterTokenType
<1>3. {"retry", "idle", "check"} \subseteq Places
  BY DEF Places
<1>4. run' \in Run' /\ run'.at # "next"
  BY <1>1, <1>2, <1>3, RunMoves
<1>5. Known'
  BY <1>2, <1>4 DEF Known, CacheKnown, SameText
<1>6. QED
  BY <1>1, <1>2, <1>4, <1>5, TypeNext DEF Sizes, SameText

LEMMA SampleKnown ==
  ASSUME TypeOK, NEW x \in Engine, NEW tg \in BOOLEAN, Sample(x, tg),
         platform' = platform, runs' = runs,
         x.n_past = Len(x.embd), Len(x.embd) < NCtx,
         kv' \in Seq(Token), Len(kv') <= NCtx,
         ~x.context_full => kv' = SubSeq(x.embd, 1, x.n_past),
         platform = "wasm" => ~x.context_full
  PROVE  TypeOK' /\ Known'
<1>1. x.embd \in Seq(Token) /\ Len(x.embd) \in Nat /\ x.num_tokens_predicted \in Nat
  BY EngineFields, LenProperties
<1>2. ASSUME NEW y \in Engine, NEW tok, AfterToken(y, tok),
             y.embd = x.embd, y.n_past = x.n_past, y.context_full = x.context_full
      PROVE  TypeOK' /\ Known'
  BY <1>1, <1>2, AfterTokenKnown
<1>3. CASE AfterToken([x EXCEPT !.has_next_token = FALSE], Eog)
  <2> DEFINE y == [x EXCEPT !.has_next_token = FALSE]
  <2>1. /\ y \in Engine /\ y.embd = x.embd /\ y.n_past = x.n_past
        /\ y.context_full = x.context_full
    BY DEF Engine
  <2>2. AfterToken(y, Eog)
    BY <1>3
  <2> HIDE DEF y
  <2>3. QED
    BY <1>2, <2>1, <2>2
<1>4. CASE AfterToken([x EXCEPT !.has_next_token = FALSE, !.stopped_eos = TRUE], None)
  <2> DEFINE y == [x EXCEPT !.has_next_token = FALSE, !.stopped_eos = TRUE]
  <2>1. /\ y \in Engine /\ y.embd = x.embd /\ y.n_past = x.n_past
        /\ y.context_full = x.context_full
    BY DEF Engine
  <2>2. AfterToken(y, None)
    BY <1>4
  <2> HIDE DEF y
  <2>3. QED
    BY <1>2, <2>1, <2>2
<1>5. ASSUME NEW tok \in Token, NEW left \in 0 .. Wrap - 1, NEW h \in BOOLEAN,
             AfterToken([x EXCEPT !.num_tokens_predicted = IF tg THEN @ + 1 ELSE @,
                                  !.embd = Append(@, tok), !.n_remain = left,
                                  !.has_next_token = h], tok)
      PROVE  TypeOK' /\ Known'
  <2> DEFINE e == Append(x.embd, tok)
             n == IF tg THEN x.num_tokens_predicted + 1 ELSE x.num_tokens_predicted
             y == [x EXCEPT !.num_tokens_predicted = n, !.embd = e, !.n_remain = left,
                            !.has_next_token = h]
  <2>1. e \in Seq(Token) /\ Len(e) = Len(x.embd) + 1
    BY <1>1, AppendProperties
  <2>2. SubSeq(e, 1, x.n_past) = SubSeq(x.embd, 1, x.n_past)
    BY <1>1, PrefixOfAppend
  <2>3. n \in Nat
    BY <1>1
  <2>4. AfterToken(y, tok)
    BY <1>5
  <2> HIDE DEF e, n
  <2>5. /\ y \in Engine /\ y.embd = e /\ y.n_past = x.n_past
        /\ y.context_full = x.context_full
    BY <2>1, <2>3 DEF Engine
  <2> HIDE DEF y
  <2>6. /\ y.n_past <= Len(y.embd) /\ Len(y.embd) <= NCtx /\ Len(y.embd) <= y.n_past + 1
    BY <1>1, <2>1, <2>5
  <2>7. ~y.context_full => kv' = SubSeq(y.embd, 1, y.n_past)
    BY <2>2, <2>5
  <2>8. platform = "wasm" => ~y.context_full
    BY <2>5
  <2>9. QED
    BY <2>4, <2>5, <2>6, <2>7, <2>8, AfterTokenKnown
<1>6. ASSUME NEW tok \in Token
      PROVE  (x.n_remain + Wrap - 1) % Wrap \in 0 .. Wrap - 1
  <2>1. x.n_remain + Wrap - 1 \in Int
    BY EngineFields
  <2>2. QED
    BY <2>1, Wraps
<1>7. QED
  BY <1>3, <1>4, <1>5, <1>6 DEF Sample

LEMMA Facts ==
  ASSUME TypeOK
  PROVE  /\ platform \in {"wasm", "ios", "android"} /\ c \in Engine /\ run \in Run
         /\ kv \in Seq(Token) /\ Len(kv) \in Nat /\ Len(kv) <= NCtx
         /\ c.embd \in Seq(Token) /\ Len(c.embd) \in Nat /\ c.n_past \in Nat
         /\ c.n_past <= Len(c.embd) /\ Len(c.embd) <= NCtx
         /\ runs \in 0 .. MaxRuns
  BY TypeIs, EngineFields, LenProperties DEF Sizes

LEMMA StartKnown ==
  ASSUME TypeOK, NEW d \in Drivers, NEW p \in Prompts, NEW n \in -1 .. MaxPredict,
         NEW s \in BOOLEAN, Start(d, p, n, s)
  PROVE  TypeOK' /\ Known'
<1>1. Completion(d, p, n, s) \in Run /\ Completion(d, p, n, s).prompt = p
  BY DEF Completion, Run, Places
<1>2. runs' \in 0 .. MaxRuns
  BY Facts DEF Start
<1>3. p \in Seq(Token)
  BY PromptIs
<1>4. QED
  BY <1>1, <1>2, <1>3, LoadPromptKnown DEF Start

LEMMA RetryKnown ==
  ASSUME TypeOK, Retry
  PROVE  TypeOK' /\ Known'
<1> DEFINE r == [run EXCEPT !.retried = TRUE]
<1>1. r \in Run /\ r.prompt = run.prompt
  BY Facts DEF Run
<1>2. run.prompt \in Seq(Token)
  BY Facts, RunFields, PromptIs, EmptySeq
<1>3. LoadPrompt(r) /\ platform' = platform /\ runs' = runs
  BY DEF Retry
<1> HIDE DEF r
<1>4. QED
  BY <1>1, <1>2, <1>3, Facts, LoadPromptKnown

LEMMA PrefillKnown ==
  ASSUME TypeOK, Known, Prefill
  PROVE  TypeOK' /\ Known'
<1> DEFINE past == c.n_past + Len(Batch)
           left == run.n_predict % Wrap
<1>1. left \in 0 .. Wrap - 1
  <2>1. run.n_predict \in Int
    BY Facts, RunFields
  <2>2. QED
    BY <2>1, Wraps
<1>2. past \in Nat /\ past <= Len(c.embd)
  BY Facts, BatchIs
<1>3. platform' = platform /\ runs' = runs /\ run.at = "prefill"
  BY DEF Prefill
<1>4. "check" \in Places
  BY DEF Places
<1>5. CASE Decoded /\ past < Len(c.embd) /\ c' = [c EXCEPT !.n_past = past] /\ run' = run
  <2>1. /\ c' \in Engine /\ c'.embd = c.embd /\ c'.n_past = past
        /\ c'.context_full = c.context_full
    BY <1>2, <1>5, Facts DEF Engine
  <2>2. kv' \in Seq(Token) /\ Len(kv') <= NCtx /\ ~c.context_full => kv' = SubSeq(c.embd, 1, past)
    BY <1>5, DecodedKnown DEF Known
  <2>3. kv' \in Seq(Token) /\ Len(kv') <= NCtx
    BY <1>5, DecodedKnown DEF Known
  <2>4. run' \in Run'
    BY <1>3, <1>5, Facts DEF Run, Drivers
  <2>5. TypeOK'
    BY <1>2, <1>3, <2>1, <2>3, <2>4, Facts, TypeNext DEF Sizes
  <2>6. ~c.context_full => kv' = SubSeq(c.embd, 1, past)
    BY <1>5, DecodedKnown DEF Known
  <2>7. Known'
    BY <1>3, <1>5, <2>1, <2>6 DEF Known, CacheKnown
  <2>8. QED
    BY <2>5, <2>7
<1>6. CASE /\ Decoded /\ ~(past < Len(c.embd))
           /\ c' = [c EXCEPT !.has_next_token = TRUE, !.n_remain = left, !.n_past = past]
           /\ run' = [run EXCEPT !.at = "check"]
  <2> HIDE DEF left
  <2>1. /\ c' \in Engine /\ c'.embd = c.embd /\ c'.n_past = past
        /\ c'.context_full = c.context_full
    BY <1>1, <1>2, <1>6, Facts DEF Engine
  <2>2. kv' \in Seq(Token) /\ Len(kv') <= NCtx
    BY <1>6, DecodedKnown DEF Known
  <2>3. ~c.context_full => kv' = SubSeq(c.embd, 1, past)
    BY <1>6, DecodedKnown DEF Known
  <2>4. run' \in Run' /\ run'.at = "check"
    BY <1>3, <1>4, <1>6, Facts, RunAt
  <2>5. TypeOK'
    BY <1>2, <1>3, <2>1, <2>2, <2>4, Facts, TypeNext DEF Sizes
  <2>6. past = Len(c.embd)
    BY <1>2, <1>6, Facts
  <2>7. Known'
    BY <1>3, <2>1, <2>3, <2>4, <2>6, Facts DEF Known, CacheKnown
  <2>8. QED
    BY <2>5, <2>7
<1>7. CASE /\ c' = [c EXCEPT !.has_next_token = FALSE, !.n_remain = left]
           /\ run' = [run EXCEPT !.at = "check"] /\ kv' = kv
  <2> HIDE DEF left
  <2>1. /\ c' \in Engine /\ c'.embd = c.embd /\ c'.n_past = c.n_past
        /\ c'.context_full = c.context_full /\ ~c'.has_next_token
    BY <1>1, <1>7, Facts DEF Engine
  <2>2. run' \in Run' /\ run'.at = "check"
    BY <1>3, <1>4, <1>7, Facts, RunAt
  <2>3. TypeOK'
    BY <1>3, <1>7, <2>1, <2>2, Facts, TypeNext DEF Sizes
  <2>4. Known'
    BY <1>3, <1>7, <2>1, <2>2 DEF Known, CacheKnown
  <2>5. QED
    BY <2>3, <2>4
<1>8. QED
  BY <1>5, <1>6, <1>7 DEF Prefill

LEMMA LoopEndsKnown ==
  ASSUME TypeOK, Known, LoopEnds
  PROVE  TypeOK' /\ Known'
<1>1. c' = c /\ kv' = kv /\ platform' = platform /\ runs' = runs /\ run' = [run EXCEPT !.at = Ended]
  BY DEF LoopEnds
<1>2. Ended \in Places /\ Ended \in {"retry", "idle"}
  BY DEF Places, Ended
<1>3. run' \in Run' /\ run'.at \in {"retry", "idle"}
  BY <1>1, <1>2, Facts, RunAt
<1>4. TypeOK'
  BY <1>1, <1>3, Facts, TypeNext DEF Sizes
<1>5. Known'
  BY <1>1, <1>3 DEF Known, CacheKnown
<1>6. QED
  BY <1>4, <1>5

LEMMA LoopGoesKnown ==
  ASSUME TypeOK, Known, LoopGoes
  PROVE  TypeOK' /\ Known'
<1> DEFINE d == (c.n_past - 1) \div 2
<1>1. platform' = platform /\ runs' = runs /\ run.at = "check" /\ Goes
  BY DEF LoopGoes
<1>2. "next" \in Places
  BY DEF Places
<1>3. platform = "wasm" => Len(c.embd) <= c.n_past + 1 /\ ~c.context_full
  <2>1. ASSUME platform = "wasm" PROVE c.has_next_token
    <3>1. run.driver # "jni"
      BY <2>1, Facts, RunFields DEF Drivers
    <3>2. QED
      BY <1>1, <3>1 DEF Goes
  <2>2. QED
    BY <1>1, <2>1 DEF Known
<1>4. CASE Len(c.embd) < NCtx /\ run' = [run EXCEPT !.at = "next"] /\ c' = c /\ kv' = kv
  <2>1. run' \in Run' /\ run'.at = "next"
    BY <1>1, <1>2, <1>4, Facts, RunAt
  <2>2. TypeOK'
    BY <1>1, <1>4, <2>1, Facts, TypeNext DEF Sizes
  <2>3. Known'
    BY <1>1, <1>3, <1>4, <2>1 DEF Known, CacheKnown
  <2>4. QED
    BY <2>2, <2>3
<1>5. CASE /\ Len(c.embd) >= NCtx /\ Shift
           /\ c' = [c EXCEPT !.embd = Shifted(@, d), !.n_past = @ - d]
           /\ kv' = <<kv[1]>> \o SubSeq(kv, d + 2, Len(kv))
           /\ run' = [run EXCEPT !.at = "next"]
  <2>1. platform = "wasm" /\ Len(c.embd) = NCtx /\ c.n_past >= 3
    BY <1>3, <1>5, Facts DEF Shift
  <2>2. d \in Nat /\ d >= 1 /\ d < c.n_past
    BY <2>1, Facts
  <2>3. kv = SubSeq(c.embd, 1, c.n_past)
    BY <1>3, <2>1 DEF Known, CacheKnown
  <2>4. kv' = Shifted(kv, d)
    BY <1>5 DEF Shifted
  <2>5. run' \in Run' /\ run'.at = "next"
    BY <1>1, <1>2, <1>5, Facts, RunAt
  <2> DEFINE e == Shifted(c.embd, d)
             m == c.n_past - d
  <2>6. c' = [c EXCEPT !.embd = e, !.n_past = m]
    BY <1>5
  <2> HIDE DEF d
  <2>7. e \in Seq(Token) /\ Len(e) = Len(c.embd) - d
    <3>1. c.embd \in Seq(Token) /\ d < Len(c.embd)
      BY <2>2, Facts
    <3>2. QED
      BY <2>2, <3>1, ShiftedSeq
  <2>8. kv' = SubSeq(e, 1, m)
    BY <2>2, <2>3, <2>4, Facts, ShiftedPrefix
  <2>9. m \in Nat /\ m <= Len(e) /\ Len(e) < NCtx /\ Len(e) <= m + 1
    BY <1>3, <2>1, <2>2, <2>7, Facts
  <2> HIDE DEF e, m
  <2>10. /\ c' \in Engine /\ c'.embd = e /\ c'.n_past = m
         /\ c'.context_full = c.context_full
    BY <2>6, <2>7, <2>9, Facts DEF Engine
  <2>11. kv' \in Seq(Token) /\ Len(kv') = m
    BY <2>7, <2>8, <2>9, PrefixOf
  <2>12. Len(e) \in Nat
    BY <2>7, LenProperties
  <2>13. Sizes'
    BY <2>9, <2>10, <2>11, <2>12 DEF Sizes
  <2>14. TypeOK'
    BY <1>1, <2>5, <2>10, <2>11, <2>13, Facts, TypeNext
  <2>15. Known'
    BY <1>1, <1>3, <2>1, <2>5, <2>8, <2>9, <2>10 DEF Known, CacheKnown
  <2>16. QED
    BY <2>14, <2>15
<1>6. CASE /\ ~Shift /\ kv' = kv
           /\ AfterToken([c EXCEPT !.has_next_token = FALSE, !.context_full = TRUE], None)
  <2> DEFINE x == [c EXCEPT !.has_next_token = FALSE, !.context_full = TRUE]
  <2>1. /\ x \in Engine /\ x.embd = c.embd /\ x.n_past = c.n_past /\ x.context_full
    BY Facts DEF Engine
  <2>2. AfterToken(x, None)
    BY <1>6
  <2> HIDE DEF x
  <2>3. platform # "wasm"
    BY <1>6 DEF Shift
  <2>4. QED
    BY <1>1, <1>6, <2>1, <2>2, <2>3, Facts, AfterTokenKnown
<1>7. QED
  BY <1>4, <1>5, <1>6 DEF LoopGoes

LEMMA NextTokenKnown ==
  ASSUME TypeOK, Known, NextToken
  PROVE  TypeOK' /\ Known'
<1> DEFINE past == c.n_past + Len(Batch)
           c1 == [c EXCEPT !.n_past = past]
<1>1. /\ platform' = platform /\ runs' = runs /\ run.at = "next"
      /\ Len(c.embd) < NCtx
      /\ ~c.context_full => kv = SubSeq(c.embd, 1, c.n_past)
      /\ platform = "wasm" => ~c.context_full /\ Len(c.embd) <= c.n_past + 1
  BY DEF NextToken, Known, CacheKnown
<1>2. past \in Nat /\ past <= Len(c.embd)
  BY Facts, BatchIs
<1>3. Decoded => /\ kv' \in Seq(Token) /\ Len(kv') <= NCtx
                 /\ ~c.context_full => kv' = SubSeq(c.embd, 1, past)
  BY DecodedKnown DEF Known
<1>4. /\ c1 \in Engine /\ c1.embd = c.embd /\ c1.n_past = past
      /\ c1.context_full = c.context_full
  BY <1>2, Facts DEF Engine
<1>5. CASE c.n_past = Len(c.embd) /\ kv' = kv /\ Sample(c, TRUE)
  BY <1>1, <1>5, Facts, SampleKnown
<1>6. CASE Decoded /\ past = Len(c.embd) /\ Sample(c1, Len(Batch) = 1)
  <2> DEFINE tg == Len(Batch) = 1
  <2>1. tg \in BOOLEAN /\ Sample(c1, tg)
    BY <1>6
  <2> HIDE DEF tg, c1
  <2>2. c1.n_past = Len(c1.embd) /\ Len(c1.embd) < NCtx
    BY <1>1, <1>4, <1>6
  <2>3. ~c1.context_full => kv' = SubSeq(c1.embd, 1, c1.n_past)
    BY <1>3, <1>4, <1>6
  <2>4. platform = "wasm" => ~c1.context_full
    BY <1>1, <1>4
  <2> HIDE DEF past
  <2>5. QED
    BY <1>1, <1>3, <1>4, <1>6, <2>1, <2>2, <2>3, <2>4, SampleKnown
<1>7. CASE /\ Decoded
           /\ AfterToken([c1 EXCEPT !.embd = SubSeq(@, 1, past), !.has_next_token = FALSE], None)
  <2> DEFINE e == SubSeq(c.embd, 1, past)
             x == [c EXCEPT !.n_past = past, !.embd = e, !.has_next_token = FALSE]
  <2>1. e \in Seq(Token) /\ Len(e) = past /\ SubSeq(e, 1, past) = e
    BY <1>2, Facts, PrefixOf, SubSeqFull
  <2>2. AfterToken(x, None)
    BY <1>7
  <2> HIDE DEF e, past
  <2>3. /\ x \in Engine /\ x.embd = e /\ x.n_past = past
        /\ x.context_full = c.context_full
    BY <1>2, <2>1, Facts DEF Engine
  <2> HIDE DEF x, c1
  <2>4. ~x.context_full => kv' = SubSeq(x.embd, 1, x.n_past)
    BY <1>3, <1>7, <2>1, <2>3 DEF e
  <2>5. /\ x.n_past <= Len(x.embd) /\ Len(x.embd) <= NCtx
        /\ platform = "wasm" => ~x.context_full /\ Len(x.embd) <= x.n_past + 1
    BY <1>1, <1>2, <2>1, <2>3, Facts
  <2>6. QED
    BY <1>1, <1>3, <1>7, <2>2, <2>3, <2>4, <2>5, AfterTokenKnown
<1>8. CASE Decoded /\ past < Len(c.embd) /\ c' = c1 /\ run' = run
  <2>1. run' \in Run'
    BY <1>1, <1>8, Facts DEF Run, Drivers
  <2>2. TypeOK'
    BY <1>1, <1>2, <1>3, <1>4, <1>8, <2>1, Facts, TypeNext DEF Sizes
  <2>3. ~c.context_full => kv' = SubSeq(c.embd, 1, past)
    BY <1>3, <1>8
  <2>4. Len(c.embd) <= c.n_past + 1 => Len(c.embd) <= past + 1
    <3>1. c.n_past \in Nat /\ Len(Batch) \in Nat /\ Len(c.embd) \in Nat
      BY Facts, BatchIs
    <3>2. QED
      BY <3>1
  <2>5. Known'
    BY <1>1, <1>4, <1>8, <2>3, <2>4 DEF Known, CacheKnown
  <2>6. QED
    BY <2>2, <2>5
<1>9. CASE kv' = kv /\ AfterToken([c EXCEPT !.has_next_token = FALSE], None)
  <2> DEFINE x == [c EXCEPT !.has_next_token = FALSE]
  <2>1. /\ x \in Engine /\ x.embd = c.embd /\ x.n_past = c.n_past
        /\ x.context_full = c.context_full
    BY Facts DEF Engine
  <2>2. AfterToken(x, None)
    BY <1>9
  <2> HIDE DEF x
  <2>3. QED
    BY <1>1, <1>9, <2>1, <2>2, Facts, AfterTokenKnown
<1>10. QED
  BY <1>5, <1>6, <1>7, <1>8, <1>9 DEF NextToken

LEMMA InterruptKnown ==
  ASSUME TypeOK, Known, Interrupt
  PROVE  TypeOK' /\ Known'
<1>1. /\ c' = [c EXCEPT !.is_interrupted = TRUE] /\ kv' = kv /\ platform' = platform
      /\ run' = run /\ runs' = runs
  BY DEF Interrupt
<1>2. /\ c' \in Engine /\ c'.embd = c.embd /\ c'.n_past = c.n_past
      /\ c'.context_full = c.context_full /\ c'.has_next_token = c.has_next_token
  BY <1>1, Facts DEF Engine
<1>3. run' \in Run'
  BY <1>1, Facts DEF Run, Drivers
<1>4. TypeOK'
  BY <1>1, <1>2, <1>3, Facts, TypeNext DEF Sizes
<1>5. Known'
  BY <1>1, <1>2 DEF Known, CacheKnown
<1>6. QED
  BY <1>4, <1>5

LEMMA KnownInit ==
  ASSUME Init
  PROVE  TypeOK /\ Known
<1>1. /\ c \in Engine /\ c.embd = <<>> /\ c.n_past = 0 /\ ~c.context_full
  <2>1. <<>> \in Seq(Token) /\ 0 \in 0 .. Wrap - 1 /\ 0 \in Nat
    BY EmptySeq
  <2>2. QED
    BY <2>1 DEF Init, Rewound, Engine
<1>2. run \in Run /\ run.at = "idle"
  <2>1. PICK d \in Drivers : run = [Completion(d, <<>>, 0, FALSE) EXCEPT !.at = "idle"]
    BY DEF Init
  <2>2. 0 \in -1 .. MaxPredict
    OBVIOUS
  <2>3. QED
    BY <2>1, <2>2 DEF Completion, Run, Places
<1>3. kv = <<>> /\ kv \in Seq(Token) /\ Len(kv) = 0 /\ Len(c.embd) = 0
  BY <1>1, EmptySeq DEF Init
<1>4. TypeOK
  BY <1>1, <1>2, <1>3, TypeIs DEF Init, Sizes
<1>5. SubSeq(c.embd, 1, 0) = <<>>
  BY SubSeqEmpty
<1>6. Known
  BY <1>1, <1>2, <1>3, <1>5 DEF Known, CacheKnown
<1>7. QED
  BY <1>4, <1>6

LEMMA KnownStep ==
  ASSUME TypeOK, Known, [Next]_vars
  PROVE  TypeOK' /\ Known'
<1>1. CASE UNCHANGED vars
  BY <1>1, SMTT(20) DEF vars, TypeOK, Known, CacheKnown, Drivers
<1>2. CASE Next
  BY <1>2, StartKnown, PrefillKnown, LoopEndsKnown, LoopGoesKnown, NextTokenKnown,
     RetryKnown, InterruptKnown DEF Next, Step
<1>3. QED
  BY <1>1, <1>2

LEMMA AllKnown == Spec => [](TypeOK /\ Known)
<1>1. Init => TypeOK /\ Known
  BY KnownInit
<1>2. (TypeOK /\ Known) /\ [Next]_vars => (TypeOK /\ Known)'
  BY KnownStep
<1>3. QED
  BY <1>1, <1>2, PTL DEF Spec

(* The engine's counters and texts stay in their ranges: the text never    *)
(* exceeds the context, nor the cache, nor n_past the text.                *)
THEOREM TypeCorrect == Spec => []TypeOK
  BY AllKnown, PTL

(* What cap-completion.cpp believes of the cache, its n_past tokens, is    *)
(* what llama_decode put there, through batches, context shifts, interrupts*)
(* and failures, until a prompt does not fit.                              *)
THEOREM CacheIsKnown == Spec => []CacheKnown
<1>1. TypeOK /\ Known => CacheKnown
  BY DEF Known
<1>2. QED
  BY <1>1, AllKnown, PTL

-----------------------------------------------------------------------------
(* What was streamed.                                                      *)

(* The two drivers that stream count what nextToken produced.  While they  *)
(* go on nothing has stopped the completion, at most one token is not      *)
(* cached, and the budget is not spent: were it, a step that yields no     *)
(* token would report the limit.                                           *)
Stopped(x) == x.stopped_word \/ x.stopped_limit
Counts ==
  run.driver \in {"whole", "stream"} =>
    /\ run.at = "prefill" =>
         c.num_tokens_predicted = 0 /\ run.tokens_generated = 0 /\ ~Stopped(c)
    /\ run.at = "retry" => run.tokens_generated = 0
    /\ run.at \in {"check", "next"} =>
         c.num_tokens_predicted = run.tokens_generated /\ ~Stopped(c)
    /\ run.at = "idle" =>
         c.num_tokens_predicted = run.tokens_generated + IF Stopped(c) THEN 1 ELSE 0
    /\ run.at \in {"check", "next"} /\ c.has_next_token =>
         /\ Len(c.embd) <= c.n_past + 1
         /\ run.n_predict >= 1 => c.n_remain # 0
    /\ run.at = "next" => c.has_next_token /\ run.n_predict >= 1

(* A step that yields no token ends the run, and reports no limit.         *)
LEMMA NoTokenCounts ==
  ASSUME TypeOK, NEW x \in Engine, AfterToken(x, None), platform' = platform,
         run.driver \in {"whole", "stream"}, ~x.has_next_token, ~Stopped(x),
         x.n_remain # 0, x.num_tokens_predicted = run.tokens_generated
  PROVE  Counts'
<1>1. run \in Run /\ run.tokens_generated \in Nat
  BY Facts, RunFields
<1>2. None \notin {"lead", "char", "stop"}
  BY DEF None
<1> DEFINE left == IF x.incomplete THEN (x.n_remain + 1) % Wrap ELSE x.n_remain
<1>3. DoCompletion(x, None) =
        [x EXCEPT !.stopped_word = @ \/ FALSE, !.incomplete = x.incomplete,
                  !.has_next_token = FALSE \/ x.incomplete, !.n_remain = left,
                  !.stopped_limit = @ \/ (~x.incomplete /\ left = 0)]
  BY <1>2 DEF DoCompletion
<1>4. ~(~x.incomplete /\ left = 0)
  OBVIOUS
<1>5. c' = DoCompletion(x, None) /\ run' = [run EXCEPT !.at = Ended]
  BY DEF AfterToken
<1> HIDE DEF left
<1>6. ~Stopped(c') /\ c'.num_tokens_predicted = run.tokens_generated
  BY <1>3, <1>4, <1>5 DEF Engine, Stopped
<1>7. Ended \in {"retry", "idle"} /\ (Ended = "retry" => run.tokens_generated = 0)
  BY DEF Ended
<1>8. Ended \in Places
  BY <1>7 DEF Places
<1>9. run'.at = Ended /\ run'.tokens_generated = run.tokens_generated
  BY <1>1, <1>5, <1>8, RunAt
<1>10. QED
  BY <1>1, <1>6, <1>7, <1>9 DEF Counts

(* A token is streamed and counted, unless a stop word or the limit ends   *)
(* the run with it.                                                        *)
LEMMA TokenCounts ==
  ASSUME TypeOK, NEW x \in Engine, NEW tok \in Token, AfterToken(x, tok),
         platform' = platform, run.driver \in {"whole", "stream"}, run.n_predict >= 1,
         (x.has_next_token <=> (x.n_remain # 0)), ~Stopped(x),
         Len(x.embd) <= x.n_past + 1,
         x.num_tokens_predicted = run.tokens_generated + 1
  PROVE  Counts'
<1>1. run \in Run /\ run.tokens_generated \in Nat
  BY Facts, RunFields
<1>2. tok \notin {None, Eog}
  BY DEF None, Eog, Token
<1> DEFINE part == CASE tok = "lead" -> TRUE
                     [] tok = "char" -> FALSE
                     [] OTHER -> x.incomplete
           word == tok = "stop" /\ x.antiprompt
           on == x.has_next_token /\ ~word
           left == IF part /\ ~on THEN (x.n_remain + 1) % Wrap ELSE x.n_remain
           y == DoCompletion(x, tok)
<1>3. y = [x EXCEPT !.stopped_word = @ \/ word, !.incomplete = part,
                    !.has_next_token = on \/ part, !.n_remain = left,
                    !.stopped_limit = @ \/ (~on /\ ~part /\ left = 0)]
  BY DEF DoCompletion
<1>4. x.n_remain \in Nat /\ 1 % Wrap = 1
  BY EngineFields, Wraps
<1>5. (on \/ part) /\ ~word => left # 0
  BY <1>4
<1>6. c' = y
  BY DEF AfterToken
<1>7. /\ run' = IF Stopped(y) THEN [run EXCEPT !.at = Ended]
                ELSE [run EXCEPT !.at = "check", !.tokens_generated = @ + 1]
  BY <1>2 DEF AfterToken, Stopped
<1> HIDE DEF part, on, left, y
<1>8. /\ SameText(x, y) /\ y.has_next_token = (on \/ part) /\ y.n_remain = left
      /\ (y.stopped_word <=> (x.stopped_word \/ word))
  BY <1>3 DEF Engine, SameText
<1>9. CASE Stopped(y)
  <2>1. Ended \in {"retry", "idle"} /\ (Ended = "retry" => run.tokens_generated = 0)
    BY DEF Ended
  <2>2. Ended \in Places
    BY <2>1 DEF Places
  <2>3. run'.at = Ended /\ run'.tokens_generated = run.tokens_generated
    BY <1>1, <1>7, <1>9, <2>2, RunAt
  <2>4. c'.num_tokens_predicted = run.tokens_generated + 1 /\ Stopped(c')
    BY <1>6, <1>8, <1>9 DEF SameText
  <2>5. QED
    BY <1>1, <2>1, <2>3, <2>4 DEF Counts
<1>10. CASE ~Stopped(y)
  <2>1. ~word
    BY <1>8, <1>10 DEF Stopped
  <2> DEFINE n == run.tokens_generated + 1
  <2>2. n \in Nat /\ "check" \in Places
    BY <1>1 DEF Places
  <2>3. run' = [run EXCEPT !.at = "check", !.tokens_generated = n]
    BY <1>7, <1>10
  <2> HIDE DEF n
  <2>4. run'.at = "check" /\ run'.tokens_generated = n
    BY <1>1, <2>2, <2>3, RunMoves
  <2>5. c'.num_tokens_predicted = n /\ ~Stopped(c')
    BY <1>6, <1>8, <1>10 DEF SameText, n
  <2>6. Len(c'.embd) <= c'.n_past + 1
    BY <1>6, <1>8 DEF SameText
  <2>7. c'.has_next_token => c'.n_remain # 0
    BY <1>5, <1>6, <1>8, <2>1
  <2>8. QED
    BY <2>4, <2>5, <2>6, <2>7 DEF Counts
<1>11. QED
  BY <1>9, <1>10

LEMMA LoadPromptCounts ==
  ASSUME TypeOK, NEW r \in Run, r.prompt \in Seq(Token), platform' = platform,
         LoadPrompt(r), r.tokens_generated = 0
  PROVE  Counts'
<1>1. /\ run'.driver = r.driver /\ run'.tokens_generated = 0
      /\ ~Stopped(c') /\ c'.num_tokens_predicted = 0
      /\ \/ run'.at = "prefill"
         \/ ~Shift /\ run'.at = IF r.driver = "stream" THEN "idle" ELSE "check"
  BY Facts, LoadPromptLeaves DEF Stopped
<1>2. r.driver = "whole" => Shift
  BY Facts, RunFields DEF Drivers, Shift
<1>3. QED
  BY <1>1, <1>2 DEF Counts

LEMMA SampleCounts ==
  ASSUME TypeOK, NEW x \in Engine, Sample(x, TRUE), platform' = platform,
         run.driver \in {"whole", "stream"}, run.n_predict >= 1, ~Stopped(x),
         x.n_past = Len(x.embd), x.n_remain # 0,
         x.num_tokens_predicted = run.tokens_generated
  PROVE  Counts'
<1>1. /\ x.embd \in Seq(Token) /\ Len(x.embd) \in Nat /\ x.num_tokens_predicted \in Nat
      /\ x.n_remain \in Nat
  BY EngineFields, LenProperties
<1>2. run.n_predict # 0 /\ run.n_predict # -1
  BY Facts, RunFields
<1>3. CASE AfterToken([x EXCEPT !.has_next_token = FALSE, !.stopped_eos = TRUE], None)
  <2> DEFINE y == [x EXCEPT !.has_next_token = FALSE, !.stopped_eos = TRUE]
  <2>1. /\ y \in Engine /\ ~y.has_next_token /\ ~Stopped(y) /\ y.n_remain = x.n_remain
        /\ y.num_tokens_predicted = x.num_tokens_predicted
    BY DEF Engine, Stopped
  <2>2. AfterToken(y, None)
    BY <1>3
  <2> HIDE DEF y
  <2>3. QED
    BY <2>1, <2>2, NoTokenCounts
<1>4. ASSUME NEW tok \in Token, NEW left \in 0 .. Wrap - 1,
             AfterToken([x EXCEPT !.num_tokens_predicted = @ + 1, !.embd = Append(@, tok),
                                  !.n_remain = left, !.has_next_token = left # 0], tok)
      PROVE  Counts'
  <2> DEFINE e == Append(x.embd, tok)
             n == x.num_tokens_predicted + 1
             h == left # 0
             y == [x EXCEPT !.num_tokens_predicted = n, !.embd = e, !.n_remain = left,
                            !.has_next_token = h]
  <2>1. e \in Seq(Token) /\ Len(e) = Len(x.embd) + 1
    BY <1>1, AppendProperties
  <2>2. n \in Nat /\ h \in BOOLEAN
    BY <1>1
  <2>3. AfterToken(y, tok)
    BY <1>4
  <2> HIDE DEF e, n, h
  <2>4. /\ y \in Engine /\ y.embd = e /\ y.n_past = x.n_past /\ y.n_remain = left
        /\ y.num_tokens_predicted = n /\ ~Stopped(y)
    BY <2>1, <2>2 DEF Engine, Stopped
  <2>5. y.has_next_token = h
    BY <2>2, Zenon DEF Engine
  <2>6. y.has_next_token <=> y.n_remain # 0
    BY <2>4, <2>5 DEF h
  <2> HIDE DEF y
  <2>7. Len(y.embd) <= y.n_past + 1
    BY <1>1, <2>1, <2>4
  <2>8. y.num_tokens_predicted = run.tokens_generated + 1
    BY <2>4 DEF n
  <2>9. QED
    BY <2>3, <2>4, <2>6, <2>7, <2>8, TokenCounts
<1>5. PICK left : left = (x.n_remain + Wrap - 1) % Wrap
  OBVIOUS
<1>6. left \in 0 .. Wrap - 1
  <2>1. x.n_remain + Wrap - 1 \in Int
    BY <1>1
  <2>2. QED
    BY <1>5, <2>1, Wraps
<1>7. CASE \E tok \in Token :
             AfterToken([x EXCEPT !.num_tokens_predicted = @ + 1, !.embd = Append(@, tok),
                                  !.n_remain = left, !.has_next_token = left # 0], tok)
  BY <1>4, <1>6, <1>7
<1>8. QED
  BY <1>2, <1>3, <1>5, <1>7 DEF Sample

LEMMA CountsKept ==
  ASSUME Counts, run' = run, c'.embd = c.embd, c'.n_past = c.n_past,
         c'.num_tokens_predicted = c.num_tokens_predicted,
         c'.stopped_word = c.stopped_word, c'.stopped_limit = c.stopped_limit,
         c'.has_next_token = c.has_next_token, c'.n_remain = c.n_remain
  PROVE  Counts'
  BY DEF Counts, Stopped

LEMMA PrefillCounts ==
  ASSUME TypeOK, Counts, Prefill
  PROVE  Counts'
<1> DEFINE past == c.n_past + Len(Batch)
           left == run.n_predict % Wrap
<1>1. /\ run \in Run /\ run.at = "prefill" /\ "check" \in Places
      /\ platform' = platform
  BY Facts DEF Prefill, Places
<1>2. past \in Nat /\ past <= Len(c.embd)
  BY Facts, BatchIs
<1>3. left \in 0 .. Wrap - 1 /\ (run.n_predict >= 1 => left # 0)
  <2>1. run.n_predict \in Int /\ run.n_predict < Wrap
    BY Facts, RunFields
  <2>2. QED
    BY <2>1, Wraps
<1>4. CASE past < Len(c.embd) /\ c' = [c EXCEPT !.n_past = past] /\ run' = run
  BY <1>1, <1>4, Facts DEF Counts, Stopped, Engine
<1>5. CASE /\ ~(past < Len(c.embd))
           /\ c' = [c EXCEPT !.has_next_token = TRUE, !.n_remain = left, !.n_past = past]
           /\ run' = [run EXCEPT !.at = "check"]
  <2> HIDE DEF left
  <2>1. past = Len(c.embd)
    BY <1>2, <1>5, Facts
  <2> HIDE DEF past
  <2>2. /\ c'.embd = c.embd /\ c'.n_past = past /\ c'.n_remain = left
        /\ c'.num_tokens_predicted = c.num_tokens_predicted
        /\ (Stopped(c') <=> Stopped(c))
    BY <1>5, Facts DEF Engine, Stopped
  <2>3. /\ run'.at = "check" /\ run'.tokens_generated = run.tokens_generated
        /\ run'.driver = run.driver /\ run'.n_predict = run.n_predict
    BY <1>1, <1>5, RunAt
  <2>4. Len(c'.embd) <= c'.n_past + 1
    BY <1>2, <2>1, <2>2
  <2>5. QED
    BY <1>1, <1>3, <2>2, <2>3, <2>4 DEF Counts
<1>6. CASE /\ c' = [c EXCEPT !.has_next_token = FALSE, !.n_remain = left]
           /\ run' = [run EXCEPT !.at = "check"]
  <2> HIDE DEF left
  <2>1. /\ ~c'.has_next_token /\ c'.num_tokens_predicted = c.num_tokens_predicted
        /\ (Stopped(c') <=> Stopped(c))
    BY <1>6, Facts DEF Engine, Stopped
  <2>2. /\ run'.at = "check" /\ run'.tokens_generated = run.tokens_generated
        /\ run'.driver = run.driver /\ run'.n_predict = run.n_predict
    BY <1>1, <1>6, RunAt
  <2>3. QED
    BY <1>1, <2>1, <2>2 DEF Counts
<1>7. QED
  BY <1>4, <1>5, <1>6 DEF Prefill

LEMMA LoopEndsCounts ==
  ASSUME TypeOK, Counts, LoopEnds
  PROVE  Counts'
<1>1. /\ c' = c /\ platform' = platform /\ run' = [run EXCEPT !.at = Ended]
      /\ run \in Run /\ run.at = "check" /\ run.tokens_generated \in Nat
  BY Facts, RunFields DEF LoopEnds
<1>2. Ended \in {"retry", "idle"} /\ (Ended = "retry" => run.tokens_generated = 0)
  BY DEF Ended
<1>3. Ended \in Places
  BY <1>2 DEF Places
<1>4. /\ run'.at = Ended /\ run'.tokens_generated = run.tokens_generated
      /\ run'.driver = run.driver
  BY <1>1, <1>3, RunAt
<1>5. QED
  BY <1>1, <1>2, <1>4 DEF Counts

LEMMA SameDriver ==
  ASSUME run \in Run, NEW x, NEW tok, AfterToken(x, tok)
  PROVE  run'.driver = run.driver
<1>1. \/ run' = [run EXCEPT !.at = Ended]
      \/ run' = [run EXCEPT !.at = "check", !.tokens_generated = IF run.driver = "run" THEN @ ELSE @ + 1]
  BY DEF AfterToken
<1>2. QED
  BY <1>1 DEF Run

LEMMA NextTokenDriver ==
  ASSUME TypeOK, NextToken
  PROVE  run'.driver = run.driver
<1>1. run \in Run
  BY Facts
<1>2. ASSUME NEW x, NEW tg, Sample(x, tg)
      PROVE  run'.driver = run.driver
  BY <1>1, <1>2, SameDriver DEF Sample
<1>3. QED
  BY <1>1, <1>2, SameDriver DEF NextToken

LEMMA LoopGoesCounts ==
  ASSUME TypeOK, Known, Counts, LoopGoes
  PROVE  Counts'
<1> DEFINE d == (c.n_past - 1) \div 2
<1>1. /\ platform' = platform /\ run.at = "check" /\ run \in Run /\ c \in Engine
      /\ "next" \in Places
  BY Facts DEF LoopGoes, Places
<1>2. run.driver \in {"whole", "stream"} => c.has_next_token /\ run.n_predict >= 1
  <2>1. run.tokens_generated \in Nat /\ run.n_predict \in Int
    BY Facts, RunFields
  <2>2. Goes
    BY DEF LoopGoes
  <2>3. QED
    BY <2>1, <2>2 DEF Goes
<1>3. CASE run' = [run EXCEPT !.at = "next"] /\ c' = c
  <2>1. /\ run'.at = "next" /\ run'.tokens_generated = run.tokens_generated
        /\ run'.driver = run.driver /\ run'.n_predict = run.n_predict
    BY <1>1, <1>3, RunAt
  <2>2. QED
    BY <1>1, <1>2, <1>3, <2>1 DEF Counts
<1>4. CASE /\ Len(c.embd) >= NCtx /\ Shift
           /\ c' = [c EXCEPT !.embd = Shifted(@, d), !.n_past = @ - d]
           /\ run' = [run EXCEPT !.at = "next"]
  <2>1. /\ run'.at = "next" /\ run'.tokens_generated = run.tokens_generated
        /\ run'.driver = run.driver /\ run'.n_predict = run.n_predict
    BY <1>1, <1>4, RunAt
  <2>2. Known' /\ platform' = "wasm"
    BY <1>1, <1>4, LoopGoesKnown DEF Shift
  <2>3. Len(c'.embd) <= c'.n_past + 1
    BY <2>1, <2>2 DEF Known
  <2> HIDE DEF d
  <2>4. /\ c'.has_next_token = c.has_next_token /\ c'.n_remain = c.n_remain
        /\ c'.num_tokens_predicted = c.num_tokens_predicted
        /\ (Stopped(c') <=> Stopped(c))
    BY <1>1, <1>4, Zenon DEF Engine, Stopped
  <2>5. QED
    BY <1>1, <1>2, <2>1, <2>3, <2>4 DEF Counts
<1>5. CASE /\ ~Shift
           /\ AfterToken([c EXCEPT !.has_next_token = FALSE, !.context_full = TRUE], None)
  <2> DEFINE x == [c EXCEPT !.has_next_token = FALSE, !.context_full = TRUE]
  <2>1. /\ x \in Engine /\ ~x.has_next_token /\ x.n_remain = c.n_remain
        /\ x.num_tokens_predicted = c.num_tokens_predicted /\ (Stopped(x) <=> Stopped(c))
    BY <1>1 DEF Engine, Stopped
  <2>2. AfterToken(x, None)
    BY <1>5
  <2> HIDE DEF x
  <2>3. CASE run.driver \in {"whole", "stream"}
    <3>1. ~Stopped(x) /\ x.n_remain # 0 /\ x.num_tokens_predicted = run.tokens_generated
      BY <1>1, <1>2, <2>1, <2>3 DEF Counts
    <3>2. QED
      BY <1>1, <2>1, <2>2, <2>3, <3>1, NoTokenCounts
  <2>4. CASE run.driver \notin {"whole", "stream"}
    <3>1. run'.driver = run.driver
      BY <1>1, <2>1, <2>2, SameDriver
    <3>2. QED
      BY <2>4, <3>1 DEF Counts
  <2>5. QED
    BY <2>3, <2>4
<1>6. QED
  BY <1>3, <1>4, <1>5 DEF LoopGoes

LEMMA NextTokenCounts ==
  ASSUME TypeOK, Known, Counts, NextToken, run.driver \in {"whole", "stream"}
  PROVE  Counts'
<1> DEFINE past == c.n_past + Len(Batch)
           c1 == [c EXCEPT !.n_past = past]
<1>1. /\ platform' = platform /\ run.at = "next" /\ run \in Run /\ c \in Engine
  BY Facts DEF NextToken
<1>2. /\ run.n_predict >= 1 /\ c.n_remain # 0 /\ ~Stopped(c)
      /\ c.num_tokens_predicted = run.tokens_generated
      /\ Len(c.embd) <= c.n_past + 1
  BY <1>1 DEF Counts
<1>3. /\ past \in Nat /\ past <= Len(c.embd) /\ Len(Batch) <= 1
      /\ (c.n_past < Len(c.embd) => past = Len(c.embd) /\ Len(Batch) = 1)
  <2>1. /\ c.n_past \in Nat /\ Len(Batch) \in Nat /\ Len(c.embd) \in Nat
        /\ c.n_past + Len(Batch) <= Len(c.embd) /\ Len(Batch) <= 1
        /\ (c.n_past < Len(c.embd) => Len(Batch) >= 1)
        /\ Len(c.embd) <= c.n_past + 1
    BY <1>2, Facts, BatchIs
  <2> DEFINE n == c.n_past  b == Len(Batch)  l == Len(c.embd)
  <2>2. n \in Nat /\ b \in Nat /\ l \in Nat /\ n + b <= l /\ b <= 1 /\ (n < l => b >= 1) /\ l <= n + 1
    BY <2>1
  <2> HIDE DEF n, b, l
  <2>3. n + b \in Nat /\ (n < l => n + b = l /\ b = 1)
    BY <2>2
  <2>4. QED
    BY <2>2, <2>3 DEF n, b, l
<1>4. /\ c1 \in Engine /\ c1.embd = c.embd /\ c1.n_past = past
      /\ c1.n_remain = c.n_remain /\ (Stopped(c1) <=> Stopped(c))
      /\ c1.num_tokens_predicted = c.num_tokens_predicted
  BY <1>1, <1>3 DEF Engine, Stopped
<1>5. CASE c.n_past = Len(c.embd) /\ Sample(c, TRUE)
  BY <1>1, <1>2, <1>5, SampleCounts
<1>6. CASE past = Len(c.embd) /\ Sample(c1, Len(Batch) = 1) /\ c.n_past < Len(c.embd)
  <2>1. Sample(c1, TRUE)
    <3>1. (Len(Batch) = 1) = TRUE
      BY <1>3, <1>6
    <3>2. QED
      BY <1>6, <3>1
  <2> HIDE DEF c1, past
  <2>2. QED
    BY <1>1, <1>2, <1>4, <1>6, <2>1, SampleCounts
<1>7. CASE AfterToken([c1 EXCEPT !.embd = SubSeq(@, 1, past), !.has_next_token = FALSE], None)
  <2> DEFINE e == SubSeq(c.embd, 1, past)
             x == [c EXCEPT !.n_past = past, !.embd = e, !.has_next_token = FALSE]
  <2>1. e \in Seq(Token)
    BY <1>3, Facts, PrefixOf
  <2>2. AfterToken(x, None)
    BY <1>7
  <2> HIDE DEF e, past
  <2>3. /\ x \in Engine /\ ~x.has_next_token /\ x.n_remain = c.n_remain
        /\ x.num_tokens_predicted = c.num_tokens_predicted /\ (Stopped(x) <=> Stopped(c))
    BY <1>1, <1>3, <2>1 DEF Engine, Stopped
  <2> HIDE DEF x, c1
  <2>4. QED
    BY <1>1, <1>2, <2>2, <2>3, NoTokenCounts
<1>8. CASE kv' = kv /\ AfterToken([c EXCEPT !.has_next_token = FALSE], None)
  <2> DEFINE x == [c EXCEPT !.has_next_token = FALSE]
  <2>1. /\ x \in Engine /\ ~x.has_next_token /\ x.n_remain = c.n_remain
        /\ x.num_tokens_predicted = c.num_tokens_predicted /\ (Stopped(x) <=> Stopped(c))
    BY <1>1 DEF Engine, Stopped
  <2>2. AfterToken(x, None)
    BY <1>8
  <2> HIDE DEF x
  <2>3. QED
    BY <1>1, <1>2, <2>1, <2>2, NoTokenCounts
<1>9. CASE past < Len(c.embd) /\ c.n_past < Len(c.embd)
  BY <1>3, <1>9, Facts
<1>10. QED
  BY <1>5, <1>6, <1>7, <1>8, <1>9 DEF NextToken

LEMMA CountsInit ==
  ASSUME Init
  PROVE  Counts
<1>1. c.num_tokens_predicted = 0 /\ ~Stopped(c)
  BY DEF Init, Rewound, Stopped
<1>2. run.at = "idle" /\ run.tokens_generated = 0
  BY DEF Init, Completion
<1>3. QED
  BY <1>1, <1>2 DEF Counts

LEMMA CountsStep ==
  ASSUME TypeOK, Known, Counts, [Next]_vars
  PROVE  Counts'
<1>1. CASE UNCHANGED vars
  BY <1>1 DEF vars, Counts, Stopped
<1>2. ASSUME NEW d \in Drivers, NEW p \in Prompts, NEW n \in -1 .. MaxPredict,
             NEW s \in BOOLEAN, Start(d, p, n, s)
      PROVE  Counts'
  <2>1. /\ Completion(d, p, n, s) \in Run /\ Completion(d, p, n, s).prompt = p
        /\ Completion(d, p, n, s).tokens_generated = 0
    BY DEF Completion, Run, Places
  <2>2. p \in Seq(Token)
    BY PromptIs
  <2>3. QED
    BY <1>2, <2>1, <2>2, LoadPromptCounts DEF Start
<1>3. CASE Retry
  <2> DEFINE r == [run EXCEPT !.retried = TRUE]
  <2>1. /\ r \in Run /\ r.prompt = run.prompt /\ r.driver = run.driver
        /\ r.tokens_generated = run.tokens_generated
    BY Facts DEF Run
  <2>2. run.prompt \in Seq(Token)
    BY Facts, RunFields, PromptIs, EmptySeq
  <2>3. LoadPrompt(r) /\ platform' = platform
    BY <1>3 DEF Retry
  <2>4. run.at = "retry"
    BY <1>3 DEF Retry
  <2> HIDE DEF r
  <2>5. CASE run.driver \in {"whole", "stream"}
    BY <2>1, <2>2, <2>3, <2>4, <2>5, LoadPromptCounts DEF Counts
  <2>6. CASE run.driver \notin {"whole", "stream"}
    BY <2>1, <2>2, <2>3, <2>6, Facts, LoadPromptLeaves DEF Counts
  <2>7. QED
    BY <2>5, <2>6
<1>4. CASE NextToken
  <2>1. CASE run.driver \in {"whole", "stream"}
    BY <1>4, <2>1, NextTokenCounts
  <2>2. CASE run.driver \notin {"whole", "stream"}
    BY <1>4, <2>2, NextTokenDriver DEF Counts
  <2>3. QED
    BY <2>1, <2>2
<1>5. CASE Interrupt
  <2>1. run' = run /\ c' = [c EXCEPT !.is_interrupted = TRUE] /\ c \in Engine
    BY <1>5, Facts DEF Interrupt
  <2>2. /\ c'.embd = c.embd /\ c'.n_past = c.n_past
        /\ c'.num_tokens_predicted = c.num_tokens_predicted
        /\ c'.stopped_word = c.stopped_word /\ c'.stopped_limit = c.stopped_limit
        /\ c'.has_next_token = c.has_next_token /\ c'.n_remain = c.n_remain
    BY <2>1, Zenon DEF Engine
  <2>3. QED
    BY <2>1, <2>2, CountsKept
<1>6. QED
  BY <1>1, <1>2, <1>3, <1>4, <1>5, PrefillCounts, LoopEndsCounts, LoopGoesCounts
     DEF Next, Step

(* llama_completion and llama_completion_stream hand the caller every token*)
(* nextToken sampled, in whatever way the run ends, except the last one at *)
(* a stop word or at the limit.                                            *)
THEOREM TokensStreamed == Spec => []Streamed
<1>1. Init => TypeOK /\ Known /\ Counts
  BY KnownInit, CountsInit
<1>2. (TypeOK /\ Known /\ Counts) /\ [Next]_vars => (TypeOK /\ Known /\ Counts)'
  BY KnownStep, CountsStep
<1>3. TypeOK /\ Counts => Streamed
  <2>1. TypeOK => run.tokens_generated \in Nat
    BY Facts, RunFields
  <2>2. QED
    BY <2>1 DEF Counts, Streamed, Stopped
<1>4. QED
  BY <1>1, <1>2, <1>3, PTL DEF Spec

=============================================================================
