---------------------------- MODULE TokenStream ----------------------------
(***************************************************************************)
(* What a streamed completion promises to the client of the native server, *)
(* whatever threads, locks and batches carry it: lines are produced one    *)
(* after the other and closed by a final chunk and [DONE]; the client      *)
(* receives a prefix of them, in order, each once; the response ends       *)
(* either complete, and then nothing is missing, or because the client is  *)
(* gone.                                                                   *)
(***************************************************************************)
EXTENDS Sequences, Naturals

CONSTANTS
  Line,         (* The lines of a stream.                                  *)
  Final,        (* The chunk with finish_reason "stop".                    *)
  Done          (* data: [DONE]                                            *)

VARIABLES
  produced,     (* Every line the generation has produced so far.          *)
  received,     (* How many of them the client has received.               *)
  finished,     (* The generation is over.                                 *)
  response      (* open, complete or lost.                                 *)

vars == <<produced, received, finished, response>>

Init ==
  /\ produced = <<>>
  /\ received = 0
  /\ finished = FALSE
  /\ response = "open"

Produce ==
  /\ ~finished
  /\ \E l \in Line \ {Done} : produced' = Append(produced, l)
  /\ UNCHANGED <<received, finished, response>>

Finish ==
  /\ ~finished
  /\ produced' = produced \o <<Final, Done>>
  /\ finished' = TRUE
  /\ UNCHANGED <<received, response>>

Receive ==
  /\ response = "open"
  /\ received < Len(produced)
  /\ received' = received + 1
  /\ UNCHANGED <<produced, finished, response>>

Complete ==
  /\ response = "open"
  /\ finished
  /\ received = Len(produced)
  /\ response' = "complete"
  /\ UNCHANGED <<produced, received, finished>>

Lose ==
  /\ response = "open"
  /\ response' = "lost"
  /\ UNCHANGED <<produced, received, finished>>

Next == Produce \/ Finish \/ Receive \/ Complete \/ Lose

Spec == Init /\ [][Next]_vars
=============================================================================
