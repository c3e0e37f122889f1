----------------------------- MODULE KeepAlive -----------------------------
(***************************************************************************)
(* The keep-alive server, run_keep_alive_protocol_v2 of stdin_mode.cpp,    *)
(* between two bounded pipes and a client.  Both ends move one cell (a     *)
(* scaled-down byte) at a time, so either may be stopped anywhere: within  *)
(* a length word, a payload or a response.                                 *)
(*                                                                         *)
(* The stream on stdin is the concatenation of the frames of "script"; a   *)
(* position in it is [frame, off], the off-th cell of a frame.  The server *)
(* knows no frame boundaries: it takes the word at its position for a      *)
(* length, and what that word holds is known only when the position is the *)
(* beginning of a frame.                                                   *)
(***************************************************************************)
EXTENDS ProtocolV2, Integers, FiniteSets

CONSTANTS
  Scripts,        \* the sequences of frames clients send
  WordCells,      \* cells of a length word
  PipeIn,         \* capacity of the stdin pipe
  PipeOut,        \* capacity of the stdout pipe
  Disciplines     \* how clients interleave writing and reading, for each script

ASSUME ScriptAssumption == Scripts \subseteq Seq(Frame)
ASSUME CellAssumption == WordCells \in Nat \ {0}
ASSUME PipeAssumption == PipeIn \in Nat \ {0} /\ PipeOut \in Nat \ {0}
ASSUME DisciplineAssumption ==
  Disciplines \in [Scripts -> SUBSET {"concurrent", "lockstep", "writeAll"}]

VARIABLES
  \* the client
  script,        \* the frames it sends
  discipline,    \* "concurrent" reads and writes at once, "lockstep" waits for each
                 \* response, "writeAll" reads only after its last write
  alive,         \* the client has not crashed
  wr,            \* the next cell it writes
  received,      \* complete responses it has read
  \* the pipes
  inUse,         \* cells in the stdin pipe
  stdinClosed,   \* the write end of stdin is closed
  stdout,        \* cells in the stdout pipe, the last of each response marked
  \* the server
  pc,            \* what the loop is doing
  base,          \* where the length word of the current frame began
  rd,            \* the next cell it reads
  need,          \* cells the current read_exact or discard_bytes still wants
  message_len,
  outputs,       \* the outputs of the batch so far, each by the image it is made from
  reply,         \* the response being written
  toFlush,       \* cells of it not yet in the pipe
  sent,          \* the responses written completely
  stdoutBad,     \* the badbit of std::cout
  poolsDirty,    \* the engine's allocator pools hold memory
  processed, errors, handled,    \* the counters of the summary
  sigpipeIgnored                 \* the process inherited SIG_IGN for SIGPIPE

clientVars == <<script, discipline, alive, wr, received, sigpipeIgnored>>
pipeVars == <<inUse, stdinClosed, stdout>>
metricVars == <<processed, errors, handled>>
serverVars == <<pc, base, rd, need, message_len, outputs, reply, toFlush, sent,
                stdoutBad, poolsDirty>>
vars == <<clientVars, pipeVars, serverVars, metricVars>>

Cell == {"more", "last"}
NoReply == Failure(0, InvalidFrame)

----------------------------------------------------------------------------
(* The stream *)

FrameCells(k) == WordCells + script[k].len

\* The position n cells into frame k, and the one after position p
At(k, n) ==
  IF n > 0 /\ n = FrameCells(k) THEN [frame |-> k + 1, off |-> 0]
  ELSE [frame |-> k, off |-> n]
After(p) == At(p.frame, p.off + 1)

Written(k) == wr.frame > k     \* all of frame k is in the pipe or beyond
AllWritten == wr.frame = Len(script) + 1

\* What the server finds at "base": the frame there when it is in step, or
\* any length and a header that is not one when it reads from the middle of
\* something else.
Lengths == IF base.off = 0 THEN {script[base.frame].len} ELSE 0 .. MaxMessageBytes + 1
Garbage ==
  [len : {message_len}, header : [magic : {"other"}, version : {2}, msg_type : {1},
   request_id : RequestIds], verdict : {ValidationError}, batch_count : {1}]
FramesRead == IF base.off = 0 THEN {script[base.frame]} ELSE Garbage

\* write_protocol_response: the length, id, status and counts count for one
\* cell, each output for another.
ResponseCells(r) == 1 + Len(r.outputs)

Init ==
  /\ script \in Scripts
  /\ discipline \in Disciplines[script]
  /\ alive = TRUE
  /\ wr = [frame |-> 1, off |-> 0]
  /\ received = 0
  /\ inUse = 0
  /\ stdinClosed = FALSE
  /\ stdout = <<>>
  /\ pc = "length"
  /\ base = [frame |-> 1, off |-> 0]
  /\ rd = [frame |-> 1, off |-> 0]
  /\ need = WordCells
  /\ message_len = 0
  /\ outputs = <<>>
  /\ reply = NoReply
  /\ toFlush = 0
  /\ sent = <<>>
  /\ stdoutBad = FALSE
  /\ poolsDirty = FALSE
  /\ processed = 0 /\ errors = 0 /\ handled = 0
  /\ sigpipeIgnored \in BOOLEAN

ServerGone == pc \in {"exited", "killed"}

----------------------------------------------------------------------------
(* The client *)

MayWrite == discipline = "lockstep" => (wr.off > 0 \/ received >= wr.frame - 1)
MayRead == discipline = "writeAll" => stdinClosed

WriteCell ==
  /\ alive /\ ~stdinClosed /\ ~ServerGone
  /\ ~AllWritten
  /\ MayWrite
  /\ inUse < PipeIn
  /\ wr' = After(wr)
  /\ inUse' = inUse + 1
  /\ UNCHANGED <<script, discipline, alive, received, sigpipeIgnored, stdinClosed, stdout,
                 serverVars, metricVars>>

\* The client has sent everything, or its write failed: nobody reads stdin.
CloseStdin ==
  /\ alive /\ ~stdinClosed
  /\ AllWritten \/ ServerGone
  /\ stdinClosed' = TRUE
  /\ UNCHANGED <<clientVars, inUse, stdout, serverVars, metricVars>>

\* It stops sending anywhere, but still waits for what it has asked for.
GiveUp ==
  /\ alive /\ ~stdinClosed
  /\ ~AllWritten /\ ~ServerGone
  /\ stdinClosed' = TRUE
  /\ UNCHANGED <<clientVars, inUse, stdout, serverVars, metricVars>>

ReadCell ==
  /\ alive
  /\ MayRead
  /\ stdout # <<>>
  /\ received' = received + (IF Head(stdout) = "last" THEN 1 ELSE 0)
  /\ stdout' = Tail(stdout)
  /\ UNCHANGED <<script, discipline, alive, wr, sigpipeIgnored, inUse, stdinClosed,
                 serverVars, metricVars>>

\* The client crashes: both pipes lose their other end.
Crash ==
  /\ alive
  /\ alive' = FALSE
  /\ stdinClosed' = TRUE
  /\ stdout' = <<>>
  /\ UNCHANGED <<script, discipline, wr, received, sigpipeIgnored, inUse,
                 serverVars, metricVars>>

----------------------------------------------------------------------------
(* The server: reading *)

Reading == pc \in {"length", "discard", "payload"}
HasCells == rd # wr

\* Mutant: whole chunks are read, also when less is wanted.
TakeChunk ==
  /\ Reading
  /\ need > 0
  /\ HasCells /\ After(rd) # wr
  /\ rd' = After(After(rd))
  /\ need' = need - 2
  /\ inUse' = inUse - 2
  /\ UNCHANGED <<clientVars, stdinClosed, stdout, pc, base, message_len, outputs, reply,
                 toFlush, sent, stdoutBad, poolsDirty, metricVars>>

\* One cell of a read_exact or discard_bytes
TakeCell ==
  /\ Reading
  /\ need > 0
  /\ HasCells
  /\ rd' = After(rd)
  /\ need' = need - 1
  /\ inUse' = inUse - 1
  /\ UNCHANGED <<clientVars, stdinClosed, stdout, pc, base, message_len, outputs, reply,
                 toFlush, sent, stdoutBad, poolsDirty, metricVars>>

\* Mutant: only the read of a length word looks at the end of the input.
InputEndsAtLength ==
  /\ pc = "length"
  /\ need > 0
  /\ ~HasCells
  /\ stdinClosed
  /\ pc' = "exited"
  /\ UNCHANGED <<clientVars, pipeVars, base, rd, need, message_len, outputs, reply, toFlush,
                 sent, stdoutBad, poolsDirty, metricVars>>

\* read_exact fails: the loop breaks, wherever it was
InputEnds ==
  /\ Reading
  /\ need > 0
  /\ ~HasCells
  /\ stdinClosed
  /\ pc' = "exited"
  /\ UNCHANGED <<clientVars, pipeVars, base, rd, need, message_len, outputs, reply, toFlush,
                 sent, stdoutBad, poolsDirty, metricVars>>

HasLength == pc = "length" /\ need = 0

ShutdownFrame ==
  /\ HasLength
  /\ 0 \in Lengths
  /\ pc' = "exited"
  /\ UNCHANGED <<clientVars, pipeVars, base, rd, need, message_len, outputs, reply, toFlush,
                 sent, stdoutBad, poolsDirty, metricVars>>

\* Go on reading n cells of the frame
Read(what, len, n) ==
  /\ pc' = what
  /\ message_len' = len
  /\ need' = n
  /\ UNCHANGED <<clientVars, pipeVars, base, rd, outputs, reply, toFlush, sent,
                 stdoutBad, poolsDirty, metricVars>>

BadLength(len) == len < HeaderSize \/ len > MaxMessageBytes

\* Mutants: a frame of an impossible size is refused without being skipped; it is
\* skipped as if its length word were part of what that word counts.
BeginDiscardNothing ==
  /\ HasLength
  /\ \E len \in Lengths \ {0} : BadLength(len) /\ Read("discard", len, 0)

BeginDiscardWithWord ==
  /\ HasLength
  /\ \E len \in Lengths \ {0} : BadLength(len) /\ Read("discard", len, len + WordCells)

BeginDiscard ==
  /\ HasLength
  /\ \E len \in Lengths \ {0} : BadLength(len) /\ Read("discard", len, len)

BeginPayload ==
  /\ HasLength
  /\ \E len \in Lengths \ {0} : ~BadLength(len) /\ Read("payload", len, len)

----------------------------------------------------------------------------
(* The server: answering *)

\* write_protocol_response and write_protocol_error, up to their first write
Reply(r) ==
  /\ pc' = "writing"
  /\ reply' = r
  /\ toFlush' = ResponseCells(r)
  /\ UNCHANGED <<clientVars, pipeVars, base, rd, need, message_len, sent, stdoutBad, metricVars>>

FinishDiscard ==
  /\ pc = "discard"
  /\ need = 0
  /\ Reply(Failure(0, InvalidFrame))
  /\ UNCHANGED <<outputs, poolsDirty>>

HasPayload == pc = "payload" /\ need = 0
EmptyBody == message_len = HeaderSize

RejectHeader ==
  /\ HasPayload
  /\ \E f \in FramesRead :
       /\ ~HeaderAccepted(f.header)
       /\ Reply(Failure(f.header.request_id, ValidationError))
  /\ UNCHANGED <<outputs, poolsDirty>>

RejectEmptyBody ==
  /\ HasPayload
  /\ EmptyBody
  /\ \E f \in FramesRead :
       /\ HeaderAccepted(f.header)
       /\ Reply(Failure(f.header.request_id, ValidationError))
  /\ UNCHANGED <<outputs, poolsDirty>>

RejectBody ==
  /\ HasPayload
  /\ ~EmptyBody
  /\ \E f \in FramesRead :
       /\ HeaderAccepted(f.header)
       /\ f.verdict # Ok
       /\ Reply(Failure(f.header.request_id, f.verdict))
  /\ UNCHANGED <<outputs, poolsDirty>>

StartBatch ==
  /\ HasPayload
  /\ ~EmptyBody
  /\ \E f \in FramesRead : HeaderAccepted(f.header) /\ f.verdict = Ok
  /\ pc' = "batch"
  /\ outputs' = <<>>
  /\ UNCHANGED <<clientVars, pipeVars, base, rd, need, message_len, reply, toFlush, sent,
                 stdoutBad, poolsDirty, metricVars>>

Request == script[base.frame]
InBatch == pc = "batch" /\ Len(outputs) < Request.batch_count

\* The engine at work on the next image, or giving everything back once the
\* loop is over: its pools fill, and on the CPU it clears them itself.
EngineWorks ==
  /\ InBatch \/ pc = "exited"
  /\ poolsDirty' \in BOOLEAN
  /\ UNCHANGED <<clientVars, pipeVars, pc, base, rd, need, message_len, outputs, reply, toFlush,
                 sent, stdoutBad, metricVars>>

\* What process_single means to the loop, whatever it leaves in the pools: it
\* succeeds on the next image ...
ImageSucceeded ==
  /\ InBatch
  /\ outputs' = Append(outputs, Len(outputs) + 1)
  /\ UNCHANGED <<clientVars, pipeVars, pc, base, rd, need, message_len, reply, toFlush, sent,
                 stdoutBad, metricVars>>

\* Mutant: a failing image ends the batch, which is answered as it is.
ImageFailedSilently ==
  /\ InBatch
  /\ Reply([request_id |-> Request.header.request_id, status |-> Ok, outputs |-> outputs])
  /\ UNCHANGED outputs

\* ... or fails: on the bytes of the image, or after the engine has used its pools.
ImageFailed ==
  /\ InBatch
  /\ Reply(Failure(Request.header.request_id, EngineError))
  /\ UNCHANGED outputs

ImageDone == ImageSucceeded /\ UNCHANGED poolsDirty
ImageFails == ImageFailed /\ poolsDirty' \in BOOLEAN

BatchDone ==
  /\ pc = "batch"
  /\ Len(outputs) = Request.batch_count
  /\ Reply([request_id |-> Request.header.request_id, status |-> Ok, outputs |-> outputs])
  /\ UNCHANGED <<outputs, poolsDirty>>

----------------------------------------------------------------------------
(* The server: writing *)

\* A response is in the pipe as a whole before the loop reads on: it is flushed
\* at its end, and std::cin is tied to std::cout.
WriteReplyCell ==
  /\ pc = "writing" /\ ~stdoutBad
  /\ alive
  /\ Len(stdout) < PipeOut
  /\ stdout' = Append(stdout, IF toFlush = 1 THEN "last" ELSE "more")
  /\ toFlush' = toFlush - 1
  /\ IF toFlush = 1
       THEN pc' = "record" /\ sent' = Append(sent, reply)
       ELSE UNCHANGED <<pc, sent>>
  /\ UNCHANGED <<clientVars, inUse, stdinClosed, base, rd, need, message_len, outputs, reply,
                 stdoutBad, poolsDirty, metricVars>>

\* Writing to a pipe nobody reads: SIGPIPE ends the process ...
Killed ==
  /\ pc = "writing" /\ ~stdoutBad
  /\ ~alive
  /\ ~sigpipeIgnored
  /\ pc' = "killed"
  /\ UNCHANGED <<clientVars, pipeVars, base, rd, need, message_len, outputs, reply, toFlush,
                 sent, stdoutBad, poolsDirty, metricVars>>

\* ... or std::cout goes bad, and every later write to it is a no-op.
DropReply ==
  /\ pc = "writing"
  /\ stdoutBad \/ (~alive /\ sigpipeIgnored)
  /\ stdoutBad' = TRUE
  /\ toFlush' = 0
  /\ pc' = "record"
  /\ UNCHANGED <<clientVars, pipeVars, base, rd, need, message_len, outputs, reply, sent,
                 poolsDirty, metricVars>>

\* Back to the top of the loop
NextFrame ==
  /\ pc' = "length"
  /\ base' = rd
  /\ need' = WordCells
  /\ UNCHANGED <<clientVars, pipeVars, rd, message_len, outputs, reply, toFlush, sent, stdoutBad>>

\* record_outcome and ++handled
RecordedOk ==
  /\ pc = "record"
  /\ reply.status = Ok
  /\ processed' = processed + 1
  /\ handled' = handled + 1
  /\ NextFrame
  /\ UNCHANGED errors

\* Mutant: the pools are not cleared.
RecordOkKeepingPools == RecordedOk /\ UNCHANGED poolsDirty

\* clear_allocators comes first, after a response that is not an error only.
RecordOk == RecordedOk /\ poolsDirty' = FALSE

\* Mutants: an error counts as a frame handled; an error ends the loop.
RecordErrorAsHandled ==
  /\ pc = "record"
  /\ reply.status # Ok
  /\ handled' = handled + 1
  /\ NextFrame
  /\ UNCHANGED <<poolsDirty, processed, errors>>
RecordErrorAndExit ==
  /\ pc = "record"
  /\ reply.status # Ok
  /\ errors' = errors + 1
  /\ pc' = "exited"
  /\ UNCHANGED <<clientVars, pipeVars, base, rd, need, message_len, outputs, reply, toFlush,
                 sent, stdoutBad, poolsDirty, processed, handled>>

RecordError ==
  /\ pc = "record"
  /\ reply.status # Ok
  /\ errors' = errors + 1
  /\ NextFrame
  /\ UNCHANGED <<poolsDirty, processed, handled>>

----------------------------------------------------------------------------
\* Nothing is left to do: the server is gone and its responses are read.
Terminated ==
  /\ ServerGone
  /\ stdinClosed
  /\ stdout = <<>>
  /\ UNCHANGED vars

Client == WriteCell \/ CloseStdin \/ GiveUp \/ ReadCell \/ Crash
ServerRead == TakeCell \/ InputEnds \/ ShutdownFrame \/ BeginDiscard \/ BeginPayload
ServerAnswer ==
  \/ FinishDiscard
  \/ RejectHeader \/ RejectEmptyBody \/ RejectBody
  \/ StartBatch \/ ImageDone \/ ImageFails \/ BatchDone
ServerWrite == WriteReplyCell \/ Killed \/ DropReply \/ RecordOk \/ RecordError
Server == ServerRead \/ ServerAnswer \/ ServerWrite

Next == Client \/ Server \/ EngineWorks \/ Terminated

Spec == Init /\ [][Next]_vars

\* The server is one thread that runs whenever it can; a client that has not
\* crashed goes on writing, closes stdin when it is done, and reads.
Fairness ==
  /\ WF_vars(Server)
  /\ WF_vars(WriteCell)
  /\ WF_vars(CloseStdin)
  /\ WF_vars(ReadCell)

FairSpec == Spec /\ Fairness

----------------------------------------------------------------------------
(* Properties *)

Position == [frame : Nat, off : Nat]

\* Every variable keeps its type, and the pipes their capacity: no read takes a
\* cell that is not there.
TypeOK ==
  /\ script \in Scripts
  /\ discipline \in Disciplines[script]
  /\ alive \in BOOLEAN
  /\ wr \in Position /\ rd \in Position /\ base \in Position
  /\ received \in Nat
  /\ inUse \in 0 .. PipeIn
  /\ stdinClosed \in BOOLEAN
  /\ stdout \in Seq(Cell) /\ Len(stdout) <= PipeOut
  /\ pc \in {"length", "discard", "payload", "batch", "writing", "record", "exited", "killed"}
  /\ need \in Nat
  /\ message_len \in Nat
  /\ outputs \in Seq(Nat)
  /\ reply \in Response
  /\ toFlush \in Nat
  /\ sent \in Seq(Response)
  /\ stdoutBad \in BOOLEAN
  /\ poolsDirty \in BOOLEAN
  /\ processed \in Nat /\ errors \in Nat /\ handled \in Nat
  /\ sigpipeIgnored \in BOOLEAN

AtLoopTop == pc = "length" /\ need = WordCells

\* At the top of the loop the server is at the beginning of a frame, the one
\* after the last it answered, whatever it made of the frames before: it
\* re-synchronises by message_len alone (TODO.md:197), and a frame that is
\* skipped a cell too short turns every later payload into length words.
InStep ==
  AtLoopTop =>
    /\ rd.off = 0
    /\ ~stdoutBad => rd.frame = Len(sent) + 1

\* The server stops reading for two reasons only, the end of its input or a
\* shutdown frame, and not before every complete frame ahead of it is answered.
ExitIsClean ==
  pc = "exited" =>
    /\ stdinClosed \/ IsShutdown(script[base.frame])
    /\ ~stdoutBad =>
         \A k \in DOMAIN script :
           (Written(k) /\ \A j \in 1 .. k : ~IsShutdown(script[j])) => Len(sent) >= k

OkSent == {k \in DOMAIN sent : sent[k].status = Ok}

\* Every frame taken from stdin is counted once, as processed or as an error, also
\* when its answer is dropped; "handled" counts successes.  While stdout works the
\* counters agree with what went out on it.
MetricsMatch ==
  AtLoopTop =>
    /\ processed + errors = rd.frame - 1
    /\ handled = processed
    /\ ~stdoutBad =>
         /\ processed = Cardinality(OkSent)
         /\ errors = Len(sent) - Cardinality(OkSent)

\* The pools carry memory from one request to the next only when the last one
\* was not answered with Ok.
PoolsKeptOnlyByFailure ==
  (AtLoopTop /\ poolsDirty) => reply.status # Ok

\* What the comment at stdin_mode.cpp:386 and base_engine.hpp:34 say: the pools
\* are cleared after each request, so no request begins on a used pool.
PoolsClearedBetweenRequests == AtLoopTop => ~poolsDirty

\* The server implements the framed service: answers in order, one per frame,
\* each right for its frame, none after a shutdown frame.
Service == INSTANCE FramedService WITH
  asked <- script, answers <- sent, running <- ~ServerGone /\ ~stdoutBad
ImplementsService == Service!Spec

FrameIndices == UNION {DOMAIN s : s \in Scripts}
Complete(k) ==
  /\ k \in DOMAIN script
  /\ Written(k)
  /\ \A j \in 1 .. k : ~IsShutdown(script[j])

\* A client that keeps reading gets the answer to every frame it has written
\* completely, also when it closes stdin right after it.
EveryFrameAnswered ==
  \A k \in FrameIndices : Complete(k) ~> (received >= k \/ ~alive)

\* The process ends once its client has closed stdin or crashed.
ServerStops == stdinClosed ~> ServerGone
=============================================================================
