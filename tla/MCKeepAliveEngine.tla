-------------------------- MODULE MCKeepAliveEngine --------------------------
(***************************************************************************)
(* Two batches of two images one after the other, with and without frames  *)
(* that never reach the engine in between, on the CPU, on a GPU that is    *)
(* there and on one that is not.                                           *)
(***************************************************************************)
EXTENDS KeepAliveEngine

Frame(v, len, n) ==
  [len |-> len, header |-> [magic |-> "BRDR", version |-> 2, msg_type |-> 1, request_id |-> 7],
   verdict |-> v, batch_count |-> n]
Batch == Frame(Ok, HeaderSize + 1, 2)
Single == Frame(Ok, HeaderSize + 1, 1)
Malformed == Frame(ValidationError, HeaderSize + 1, 1)
Shutdown == Frame(Ok, 0, 1)

MCScripts == {<<Batch, Single>>, <<Malformed, Batch>>}
MCDisciplines == [s \in MCScripts |-> {"concurrent"}]
MCGpuIds == {-1, 0}
=============================================================================
