----------------------------- MODULE SseStream -----------------------------
(***************************************************************************)
(* One live SSE response of the native server                              *)
(* (cpp/cap-native-server.cpp, LiveSseState and its users).                *)
(*                                                                         *)
(* A detached producer thread runs llama_completion_stream and enqueues a  *)
(* line per token callback; the HTTP thread is the consumer: it swaps the  *)
(* whole queue out under the mutex, writes the batch to the socket without *)
(* it, and decides from a flag it read during the swap whether the stream  *)
(* is over.  Every action is one critical section of LiveSseState::mu or   *)
(* one write to the socket.                                                *)
(*                                                                         *)
(* The wait is a timed one (wait_for, 100 ms) around a test of the queue,  *)
(* so a consumer whose test would succeed always gets to make it.          *)
(***************************************************************************)
EXTENDS Naturals, Sequences

CONSTANT MaxTokens      (* n_predict: the loop's bound on the tokens.      *)

ASSUME MaxTokensAssumption == MaxTokens \in Nat

VARIABLES
  kind,         (* SseStreamKind: chat or completion.                      *)
  producer,     (* generating; token: the role line is out and its token   *)
                (* is next; result: the completion returned; finished.     *)
  predicted,    (* tokens_generated.                                       *)
  sentRole,     (* LiveSseTokenCtx::sent_role.                             *)
  pending,      (* LiveSseState::pending.                                  *)
  producerDone, (* LiveSseState::producer_done.                            *)
  consumer,     (* waiting, writing; complete (sink.done) or dropped.      *)
  batch,        (* What is left to write of the lines swapped out.         *)
  done,         (* producer_done as read during the swap.                  *)
  sent          (* The lines written to the socket.                        *)

producerVars == <<kind, producer, predicted, sentRole>>
consumerVars == <<consumer, batch, done, sent>>
streamVars == <<kind, producer, predicted, sentRole, pending, producerDone,
                consumer, batch, done, sent>>

-----------------------------------------------------------------------------
(* The lines.  A token line carries the index of its token.                *)

Token(i) == [type |-> "token", index |-> i]
Role == [type |-> "role", index |-> 0]
Error == [type |-> "error", index |-> 0]
Final == [type |-> "final", index |-> 0]
Done == [type |-> "DONE", index |-> 0]

Line == {Role, Error, Final, Done} \cup {Token(i) : i \in 1 .. MaxTokens}

StreamTypeOK ==
  /\ kind \in {"chat", "completion"}
  /\ producer \in {"generating", "token", "result", "finished"}
  /\ predicted \in 0 .. MaxTokens
  /\ producer = "token" => predicted < MaxTokens
  /\ sentRole \in BOOLEAN
  /\ pending \in Seq(Line)
  /\ producerDone \in BOOLEAN
  /\ consumer \in {"waiting", "writing", "complete", "dropped"}
  /\ batch \in Seq(Line)
  /\ done \in BOOLEAN
  /\ sent \in Seq(Line)

StreamInit ==
  /\ kind \in {"chat", "completion"}
  /\ producer = "generating"
  /\ predicted = 0
  /\ sentRole = FALSE
  /\ pending = <<>>
  /\ producerDone = FALSE
  /\ consumer = "waiting"
  /\ batch = <<>>
  /\ done = FALSE
  /\ sent = <<>>

-----------------------------------------------------------------------------
(* The producer: llama_completion_stream and its token callback.           *)

Enqueue(l) == pending' = Append(pending, l)

(* A token without text (part of a character) reaches no callback.         *)
SilentToken ==
  /\ producer = "generating"
  /\ predicted < MaxTokens
  /\ predicted' = predicted + 1
  /\ UNCHANGED <<kind, producer, sentRole, pending, producerDone, consumerVars>>

(* Mutant: sent_role is not set, so the role line is sent again.           *)
SendRoleAlways ==
  /\ producer = "generating"
  /\ predicted < MaxTokens
  /\ kind = "chat" /\ ~sentRole
  /\ Enqueue(Role)
  /\ producer' = "token"
  /\ UNCHANGED <<kind, sentRole, predicted, producerDone, consumerVars>>

(* The first text of a chat is preceded by a line of its own.              *)
SendRole ==
  /\ producer = "generating"
  /\ predicted < MaxTokens
  /\ kind = "chat" /\ ~sentRole
  /\ Enqueue(Role)
  /\ sentRole' = TRUE
  /\ producer' = "token"
  /\ UNCHANGED <<kind, predicted, producerDone, consumerVars>>

SendToken ==
  /\ \/ producer = "token"
     \/ producer = "generating" /\ (kind = "chat" => sentRole)
  /\ predicted < MaxTokens
  /\ Enqueue(Token(predicted + 1))
  /\ predicted' = predicted + 1
  /\ producer' = "generating"
  /\ UNCHANGED <<kind, sentRole, producerDone, consumerVars>>

(* The completion returns: end of generation, stop word, limit, ...        *)
StopGenerating ==
  /\ producer = "generating"
  /\ producer' = "result"
  /\ UNCHANGED <<kind, predicted, sentRole, pending, producerDone, consumerVars>>

(* ... or an error, before the first token or after any of them.           *)
FailGenerating ==
  /\ producer = "generating"
  /\ Enqueue(Error)
  /\ producer' = "result"
  /\ UNCHANGED <<kind, predicted, sentRole, producerDone, consumerVars>>

(* Mutant: an early return that forgets producer_done.                     *)
FinishStreamUnmarked ==
  /\ producer = "result"
  /\ pending' = pending \o <<Final, Done>>
  /\ producer' = "finished"
  /\ UNCHANGED <<kind, predicted, sentRole, producerDone, consumerVars>>

(* sse_finish_stream: both closing lines and the flag in one section.      *)
FinishStream ==
  /\ producer = "result"
  /\ pending' = pending \o <<Final, Done>>
  /\ producerDone' = TRUE
  /\ producer' = "finished"
  /\ UNCHANGED <<kind, predicted, sentRole, consumerVars>>

Produce ==
  \/ SilentToken \/ SendRole \/ SendToken
  \/ StopGenerating \/ FailGenerating \/ FinishStream

-----------------------------------------------------------------------------
(* The consumer: the chunked content provider.                             *)

Swap ==
  /\ consumer = "waiting"
  /\ pending # <<>> \/ producerDone
  /\ batch' = pending
  /\ pending' = <<>>
  /\ done' = producerDone
  /\ consumer' = "writing"
  /\ UNCHANGED <<producerVars, producerDone, sent>>

Write ==
  /\ consumer = "writing"
  /\ batch # <<>>
  /\ sent' = Append(sent, Head(batch))
  /\ batch' = Tail(batch)
  /\ UNCHANGED <<producerVars, pending, producerDone, consumer, done>>

(* sink.write fails: the client is gone.  The producer is not told.        *)
WriteFails ==
  /\ consumer = "writing"
  /\ batch # <<>>
  /\ consumer' = "dropped"
  /\ UNCHANGED <<producerVars, pending, producerDone, batch, done, sent>>

(* Mutant: the flag is read now, and the queue is not looked at again.     *)
BatchWrittenLateFlag ==
  /\ consumer = "writing"
  /\ batch = <<>>
  /\ consumer' = IF producerDone THEN "complete" ELSE "waiting"
  /\ UNCHANGED <<producerVars, pending, producerDone, batch, done, sent>>

(* The batch is out: finish if the flag was set when it was taken and the  *)
(* queue is still empty, else go round again.                              *)
BatchWritten ==
  /\ consumer = "writing"
  /\ batch = <<>>
  /\ consumer' = IF done /\ pending = <<>> THEN "complete" ELSE "waiting"
  /\ UNCHANGED <<producerVars, pending, producerDone, batch, done, sent>>

Consume == Swap \/ Write \/ WriteFails \/ BatchWritten

-----------------------------------------------------------------------------
StreamNext == Produce \/ Consume

(* Both threads are scheduled; the generation loop is bounded by n_predict *)
(* and does not depend on the consumer.  No write has to succeed.          *)
StreamFairness == WF_streamVars(Produce) /\ WF_streamVars(Consume)

StreamSpec == StreamInit /\ [][StreamNext]_streamVars
FairStreamSpec == StreamSpec /\ StreamFairness

-----------------------------------------------------------------------------
(* Properties.                                                             *)

(* Every line of the stream so far, wherever it is.                        *)
Stream == sent \o batch \o pending

(* Over the whole stream, across batches: in a chat the role line comes    *)
(* once and before every token; token indices increase; an error comes     *)
(* after the tokens; Final and [DONE] come last, together, and exactly     *)
(* when the producer has set its flag.                                     *)
Rank(l) == CASE l.type = "role" -> 0 [] l.type = "token" -> l.index
             [] l.type = "error" -> MaxTokens + 1 [] l.type = "final" -> MaxTokens + 2
             [] l.type = "DONE" -> MaxTokens + 3

LinesInOrder ==
  /\ \A i, j \in 1 .. Len(Stream) : i < j => Rank(Stream[i]) < Rank(Stream[j])
  /\ kind = "chat" /\ Stream # <<>> => Stream[1].type # "token"
  /\ producerDone <=> Stream # <<>> /\ Stream[Len(Stream)] = Done

(* sink.done() means that nothing is left anywhere: the client has         *)
(* received the closing [DONE], and every line before it.                  *)
CompleteMeansAll ==
  consumer = "complete" =>
    /\ batch = <<>> /\ pending = <<>> /\ producer = "finished"
    /\ Len(sent) >= 2 /\ sent[Len(sent)] = Done /\ sent[Len(sent) - 1] = Final

(* The response implements the abstract stream: no line is lost,           *)
(* duplicated or reordered between the two threads, and the response is    *)
(* never closed early.                                                     *)
Abstract ==
  INSTANCE TokenStream
    WITH produced <- Stream,
         received <- Len(sent),
         finished <- producerDone,
         response <- CASE consumer = "complete" -> "complete"
                       [] consumer = "dropped" -> "lost"
                       [] OTHER -> "open"
ImplementsTokenStream == Abstract!Spec

(* Every response ends and its generation with it: the queue's timed wait  *)
(* never strands the consumer, and a client that leaves does not strand    *)
(* the producer, which holds the inference lock.                           *)
StreamEnds ==
  <>[](producer = "finished" /\ consumer \in {"complete", "dropped"})
=============================================================================
