----------------------------- MODULE Completion -----------------------------
(***************************************************************************)
(* The completion engine (cpp/cap-completion.cpp): completions run one     *)
(* after the other on one context, whose KV cache they share, by one of    *)
(* the loops that drive it:                                                *)
(*   "stream" llama_completion_stream, and llama_completion where that one *)
(*            retries nothing: iOS, the server and WASM                    *)
(*   "whole"  llama_completion on WASM, with one retry of an empty run     *)
(*   "run"    llama_run_completion: iOS, outside the library's mutex       *)
(*   "jni"    completionNative of Android, which calls nextToken itself    *)
(*                                                                         *)
(* A token is what its bytes do to the end of the text; the sampler may    *)
(* choose any.  Prompts are not empty, and a batch is decoded as a whole   *)
(* or not at all (n_batch is at most n_ubatch unless it is raised).        *)
(***************************************************************************)
EXTENDS Integers, Sequences

CONSTANTS
  NCtx,         (* n_ctx.                                                  *)
  NBatch,       (* n_batch.                                                *)
  Wrap,         (* n_remain, a size_t, counts modulo this.                 *)
  MaxPrompt,    (* Bounds the length of a prompt.                          *)
  MaxPredict,   (* Bounds n_predict.                                       *)
  MaxRuns       (* Bounds the completions.                                 *)

ASSUME CompletionAssumption ==
  /\ NCtx \in Nat /\ NCtx >= 4
  /\ NBatch \in Nat \ {0}
  /\ Wrap \in Nat /\ Wrap > 1
  /\ MaxPrompt \in Nat
  /\ MaxPredict \in Nat /\ MaxPredict < Wrap
  /\ MaxRuns \in Nat

VARIABLES
  platform,     (* The build: "wasm" is the only one with ctx_shift.       *)
  c,            (* llama_cap_context_completion, and params.antiprompt.    *)
  kv,           (* The KV cache: the token at each position.               *)
  run,          (* The completion at work or the last one.                 *)
  runs          (* The completions started.                                *)

vars == <<platform, c, kv, run, runs>>

(* Ends in ASCII, in a whole longer character, within one; or the token    *)
(* that completes a stop word the caller asked for.                        *)
Token == {"ascii", "char", "lead", "stop"}
None == "none"
Eog == "eog"
(* The first token is BOS.                                                 *)
Prompts == {[i \in 1 .. n |-> IF i = 1 THEN "ascii" ELSE "char"] : n \in 1 .. MaxPrompt}

Shift == platform = "wasm"
Drivers ==
  CASE platform = "wasm" -> {"whole", "stream"}
    [] platform = "ios" -> {"stream", "run"}
    [] platform = "android" -> {"jni"}

Rewound ==
  [embd |-> <<>>, n_past |-> 0, has_next_token |-> FALSE, is_interrupted |-> FALSE,
   context_full |-> FALSE, incomplete |-> FALSE, n_remain |-> 0,
   stopped_eos |-> FALSE, stopped_word |-> FALSE, stopped_limit |-> FALSE,
   num_tokens_predicted |-> 0, antiprompt |-> FALSE]

(* What the driver holds: its parameters, where it is, tokens_generated.   *)
Completion(d, p, n, s) ==
  [driver |-> d, prompt |-> p, n_predict |-> n, stop |-> s, at |-> "prefill",
   tokens_generated |-> 0, retried |-> FALSE]

Places == {"idle", "prefill", "check", "next", "retry"}

TypeOK ==
  /\ platform \in {"wasm", "ios", "android"}
  /\ c \in [embd : Seq(Token), n_past : Nat, has_next_token : BOOLEAN,
            is_interrupted : BOOLEAN, context_full : BOOLEAN,
            incomplete : BOOLEAN, n_remain : 0 .. Wrap - 1,
            stopped_eos : BOOLEAN, stopped_word : BOOLEAN,
            stopped_limit : BOOLEAN, num_tokens_predicted : Nat,
            antiprompt : BOOLEAN]
  /\ c.n_past <= Len(c.embd)
  /\ Len(c.embd) <= NCtx
  /\ kv \in Seq(Token)
  /\ Len(kv) <= NCtx
  /\ run \in [driver : Drivers, prompt : Prompts \cup {<<>>}, n_predict : -1 .. MaxPredict,
              stop : BOOLEAN, at : Places, tokens_generated : Nat,
              retried : BOOLEAN]
  /\ runs \in 0 .. MaxRuns

Init ==
  /\ platform \in {"wasm", "ios", "android"}
  /\ c = Rewound
  /\ kv = <<>>
  /\ \E d \in Drivers : run = [Completion(d, <<>>, 0, FALSE) EXCEPT !.at = "idle"]
  /\ runs = 0

-----------------------------------------------------------------------------
(* The prompt.                                                             *)

(* Mutant: one block too few is dropped.                                   *)
TruncatedShort(p) ==
  LET block == NCtx \div 2
      erased == (Len(p) - block) \div block
  IN  SubSeq(p, erased * block - block + 1, Len(p))

(* truncatePrompt with n_keep = 0: whole blocks are dropped at the front.  *)
Truncated(p) ==
  LET block == NCtx \div 2
      erased == (Len(p) - block) \div block
  IN  SubSeq(p, erased * block + 1, Len(p))

(* rewind(), which leaves has_next_token alone and clears antiprompt, so   *)
(* only stop words applied after it are there; then loadPrompt up to its   *)
(* first batch.  A prompt that does not fit leaves the cache alone too;    *)
(* only llama_completion and its streaming sibling test for it.            *)
LoadPrompt(r) ==
  LET c1 == [Rewound EXCEPT
               !.has_next_token = c.has_next_token,
               !.antiprompt = r.stop /\ r.driver \in {"whole", "stream"}]
      tooLong == Len(r.prompt) >= NCtx
  IN
  \/ /\ tooLong /\ ~Shift
     /\ IF r.driver = "stream"
        THEN /\ c' = [c1 EXCEPT !.context_full = TRUE]
             /\ run' = [r EXCEPT !.at = "idle"]
        ELSE /\ c' = [c1 EXCEPT !.context_full = TRUE, !.n_remain = r.n_predict % Wrap]
             /\ run' = [r EXCEPT !.at = "check"]
     /\ UNCHANGED kv
  \/ /\ ~tooLong \/ Shift
     /\ c' = [c1 EXCEPT !.embd = IF tooLong THEN Truncated(r.prompt) ELSE r.prompt]
     /\ run' = [r EXCEPT !.at = "prefill"]
     /\ kv' = <<>>

Start(d, p, n, s) ==
  /\ run.at = "idle"
  /\ runs < MaxRuns
  /\ runs' = runs + 1
  /\ LoadPrompt(Completion(d, p, n, s))
  /\ UNCHANGED platform

(* llama_decode of the next batch, which is put behind what is cached.     *)
Batch ==
  LET left == Len(c.embd) - c.n_past IN
  SubSeq(c.embd, c.n_past + 1, c.n_past + IF left > NBatch THEN NBatch ELSE left)

Decoded ==
  /\ Len(kv) + Len(Batch) <= NCtx
  /\ kv' = kv \o Batch

(* One batch of the prompt; then beginCompletion.                          *)
Prefill ==
  LET begun(h) == [c EXCEPT !.has_next_token = h, !.n_remain = run.n_predict % Wrap]
      past == c.n_past + Len(Batch)
  IN
  /\ run.at = "prefill"
  /\ \/ /\ Decoded
        /\ IF past < Len(c.embd)
           THEN c' = [c EXCEPT !.n_past = past] /\ UNCHANGED run
           ELSE /\ c' = [begun(TRUE) EXCEPT !.n_past = past]
                /\ run' = [run EXCEPT !.at = "check"]
     \/ /\ c' = begun(FALSE)
        /\ run' = [run EXCEPT !.at = "check"]
        /\ UNCHANGED kv
  /\ UNCHANGED <<platform, runs>>

-----------------------------------------------------------------------------
(* The tail of an iteration: doCompletion after nextToken, and the driver. *)

(* Stop words, the incomplete character at the end and the limit.          *)
DoCompletion(c1, tok) ==
  LET word == tok = "stop" /\ c1.antiprompt
      part == CASE tok = "lead" -> TRUE
                [] tok = "char" -> FALSE
                [] OTHER -> c1.incomplete
      on == c1.has_next_token /\ ~word
      left == IF part /\ ~on THEN (c1.n_remain + 1) % Wrap ELSE c1.n_remain
  IN  [c1 EXCEPT !.stopped_word = @ \/ word,
                 !.incomplete = part,
                 !.has_next_token = on \/ part,
                 !.n_remain = left,
                 !.stopped_limit = @ \/ (~on /\ ~part /\ left = 0)]

(* An empty completion on WASM is tried again, once.                       *)
Ended ==
  IF run.driver = "whole" /\ ~run.retried /\ run.tokens_generated = 0
  THEN "retry" ELSE "idle"

(* Mutant: the loops of the bridge do not notice that there was no token.  *)
AfterTokenNoBreak(c1, tok) ==
  LET c2 == IF run.driver = "jni" THEN c1 ELSE DoCompletion(c1, tok)
      ends == CASE run.driver = "run" -> FALSE
                [] run.driver = "jni" -> ~c1.has_next_token
                [] OTHER -> tok = Eog \/ c2.stopped_word \/ c2.stopped_limit
  IN
  /\ c' = c2
  /\ run' = IF ends THEN [run EXCEPT !.at = Ended]
            ELSE [run EXCEPT !.at = "check",
                             !.tokens_generated = IF tok = None THEN @ ELSE @ + 1]

(* Mutant: the last token is counted although it is not streamed.          *)
AfterTokenCounted(c1, tok) ==
  LET c2 == DoCompletion(c1, tok)
      ends == tok \in {None, Eog} \/ c2.stopped_word \/ c2.stopped_limit
  IN
  /\ c' = c2
  /\ run' = [run EXCEPT !.at = IF ends THEN Ended ELSE "check",
                        !.tokens_generated = IF tok \in {None, Eog} THEN @ ELSE @ + 1]

AfterToken(c1, tok) ==
  LET c2 == IF run.driver = "jni" THEN c1 ELSE DoCompletion(c1, tok)
      ends == CASE run.driver = "run" -> FALSE
                [] run.driver = "jni" -> ~c1.has_next_token
                [] OTHER -> tok \in {None, Eog} \/ c2.stopped_word \/ c2.stopped_limit
  IN
  /\ c' = c2
  /\ run' = IF ends THEN [run EXCEPT !.at = Ended]
            ELSE [run EXCEPT !.at = "check",
                             !.tokens_generated = IF run.driver = "run" THEN @ ELSE @ + 1]

-----------------------------------------------------------------------------
(* The loop.                                                               *)

(* Mutant: the loop of llama_run_completion forgets the interruption.      *)
GoesDeaf ==
  /\ run.driver # "run" => ~c.is_interrupted
  /\ run.driver # "jni" => c.has_next_token
  /\ run.driver # "run" => run.tokens_generated < run.n_predict

Goes ==
  /\ ~c.is_interrupted
  /\ run.driver # "jni" => c.has_next_token
  /\ run.driver # "run" => run.tokens_generated < run.n_predict

LoopEnds ==
  /\ run.at = "check"
  /\ ~Goes
  /\ run' = [run EXCEPT !.at = Ended]
  /\ UNCHANGED <<platform, c, kv, runs>>

(* Mutant: what is remembered is shifted from its first token on.          *)
ShiftedFromFirst(s, n) == SubSeq(s, n + 1, Len(s))

(* n_discard tokens after the first are dropped.                           *)
Shifted(s, n) == <<s[1]>> \o SubSeq(s, n + 2, Len(s))

(* The loop's condition, and the first half of nextToken: the context is   *)
(* full or not.                                                            *)
LoopGoes ==
  LET discard == (c.n_past - 1) \div 2 IN
  /\ run.at = "check"
  /\ Goes
  /\ \/ /\ Len(c.embd) < NCtx
        /\ run' = [run EXCEPT !.at = "next"]
        /\ UNCHANGED <<c, kv>>
     \/ /\ Len(c.embd) >= NCtx /\ Shift
        /\ c' = [c EXCEPT !.embd = Shifted(@, discard), !.n_past = @ - discard]
        /\ kv' = <<kv[1]>> \o SubSeq(kv, discard + 2, Len(kv))
        /\ run' = [run EXCEPT !.at = "next"]
     \/ /\ Len(c.embd) >= NCtx /\ ~Shift
        /\ AfterToken([c EXCEPT !.has_next_token = FALSE, !.context_full = TRUE], None)
        /\ UNCHANGED kv
  /\ UNCHANGED <<platform, runs>>

(* Sampling.  The end of the generation is not accepted as the first token.*)
Sample(c1, tg) ==
  \/ /\ run.n_predict = 0
     /\ AfterToken([c1 EXCEPT !.has_next_token = FALSE], Eog)
  \/ /\ run.n_predict # 0
     /\ c1.num_tokens_predicted > 0
     /\ AfterToken([c1 EXCEPT !.has_next_token = FALSE, !.stopped_eos = TRUE], None)
  \/ /\ run.n_predict # 0
     /\ \E tok \in IF run.stop THEN Token ELSE Token \ {"stop"} :
          LET left == (c1.n_remain + Wrap - 1) % Wrap IN
          AfterToken([c1 EXCEPT !.num_tokens_predicted = IF tg THEN @ + 1 ELSE @,
                                !.embd = Append(@, tok),
                                !.n_remain = left,
                                !.has_next_token = run.n_predict = -1 \/ left # 0], tok)

(* The second half of nextToken: a batch is decoded, or there is none left,*)
(* and after the last one a token is sampled.                              *)
NextToken ==
  LET past == c.n_past + Len(Batch)
      c1 == [c EXCEPT !.n_past = past]
  IN
  /\ run.at = "next"
  /\ \/ c.n_past = Len(c.embd) /\ UNCHANGED kv /\ Sample(c, TRUE)
     \/ /\ c.n_past < Len(c.embd) /\ Decoded
        /\ \/ c.is_interrupted
              /\ AfterToken([c1 EXCEPT !.embd = SubSeq(@, 1, past),
                                       !.has_next_token = FALSE], None)
           \/ ~c.is_interrupted /\ past < Len(c.embd) /\ c' = c1 /\ UNCHANGED run
           \/ /\ ~c.is_interrupted /\ past = Len(c.embd)
              /\ Sample(c1, Len(Batch) = 1)
     \/ /\ c.n_past < Len(c.embd)
        /\ UNCHANGED kv
        /\ AfterToken([c EXCEPT !.has_next_token = FALSE], None)
  /\ UNCHANGED <<platform, runs>>

(* The cache is cleared and the whole run made once more.                  *)
Retry ==
  /\ run.at = "retry"
  /\ LoadPrompt([run EXCEPT !.retried = TRUE])
  /\ UNCHANGED <<platform, runs>>

(* llama_stop_completion waits for the mutex, which all drivers but "run"  *)
(* hold until their end; Android's does nothing.                           *)
Interrupt ==
  /\ platform # "android"
  /\ run.driver = "run" \/ run.at = "idle"
  /\ ~c.is_interrupted
  /\ c' = [c EXCEPT !.is_interrupted = TRUE]
  /\ UNCHANGED <<platform, kv, run, runs>>

-----------------------------------------------------------------------------
Step == Prefill \/ LoopEnds \/ LoopGoes \/ NextToken \/ Retry

Next ==
  \/ \E d \in Drivers, p \in Prompts, n \in -1 .. MaxPredict, s \in BOOLEAN :
       Start(d, p, n, s)
  \/ Step
  \/ Interrupt

Spec == Init /\ [][Next]_vars

(* A completion that was called keeps running.                             *)
FairSpec == Spec /\ WF_vars(Step)

-----------------------------------------------------------------------------
(* The engine believes of the cache exactly what is in it, token by token, *)
(* across batches, failed ones too, context shifts, interrupts, retries and*)
(* one completion after the other; unless a prompt did not fit.            *)
CacheKnown == ~c.context_full => kv = SubSeq(c.embd, 1, c.n_past)

(* All tokens of the text were streamed, except the last one at a stop word*)
(* or at the limit.                                                        *)
Streamed ==
  run.driver \in {"whole", "stream"} /\ run.at \in {"check", "next", "idle"} =>
    c.num_tokens_predicted =
      run.tokens_generated + IF c.stopped_word \/ c.stopped_limit THEN 1 ELSE 0

(* Every completion ends, except through llama_run_completion.             *)
CompletionsEnd == run.driver # "run" ~> run.at = "idle"

(* Once interrupted, every completion ends: also where the code goes on    *)
(* for ever without, at a full context within a character.                 *)
InterruptEnds == c.is_interrupted ~> run.at = "idle"

(* definitions.d.ts:138 on stop words: "These words will not be included in*)
(* the completion".  Once one of them was completed no token is asked for. *)
StopWordsEnd ==
  run.at = "check" /\ (\E i \in DOMAIN c.embd : c.embd[i] = "stop") => ~Goes
=============================================================================
