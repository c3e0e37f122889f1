--------------------------- MODULE FramedService ---------------------------
(***************************************************************************)
(* What a client of the keep-alive server may rely on: the frames it sends *)
(* are answered one by one, in order, each with a response that is right   *)
(* for it, until the service stops; a shutdown frame is never answered and *)
(* nothing after it is.  The pipes, the bytes and the partial reads of     *)
(* KeepAlive are all hidden from it.                                       *)
(***************************************************************************)
EXTENDS ProtocolV2

CONSTANT Scripts   \* the sequences of frames clients send

VARIABLES
  asked,     \* the frames the client sends
  answers,   \* the responses it has been sent
  running    \* the service still answers

vars == <<asked, answers, running>>

Init == asked \in Scripts /\ answers = <<>> /\ running = TRUE

Answer ==
  /\ running
  /\ Len(answers) < Len(asked)
  /\ ~IsShutdown(asked[Len(answers) + 1])
  /\ \E r \in Answers(asked[Len(answers) + 1]) : answers' = Append(answers, r)
  /\ UNCHANGED <<asked, running>>

\* A shutdown frame, the end of the input, or a client that is gone
Stop == running /\ running' = FALSE /\ UNCHANGED <<asked, answers>>

Next == Answer \/ Stop

Spec == Init /\ [][Next]_vars
=============================================================================
