--------------------------- MODULE KeepAliveProofs ---------------------------
(***************************************************************************)
(* The keep-alive server stays in step with its client and implements the  *)
(* framed service, for every set of scripts, every size of the pipes and   *)
(* every client discipline.  The inductive invariant says where in the     *)
(* stream each step of the loop leaves the read position (ReadOK), that it *)
(* never overtakes the writer (StreamOK), and which frame the response     *)
(* being made is for (AnswerOK).                                           *)
(***************************************************************************)
EXTENDS KeepAlive, FiniteSetTheorems, TLAPS

USE DEF Ok, InvalidFrame, ValidationError, EngineError, ResourceLimit, Timeout,
        Service!Ok, Service!InvalidFrame, Service!ValidationError, Service!EngineError,
        Service!ResourceLimit, Service!Timeout

InStream(p) ==
  /\ p.frame \in 1 .. Len(script) + 1
  /\ p.frame = Len(script) + 1 => p.off = 0
  /\ p.frame <= Len(script) => p.off < FrameCells(p.frame)

\* Both ends are in the stream, the reader not beyond the writer.
StreamOK ==
  /\ InStream(wr)
  /\ InStream(rd)
  /\ rd.frame < wr.frame \/ (rd.frame = wr.frame /\ rd.off <= wr.off)

\* Each read began at the beginning of a frame and has come as far as "need" says.
ReadOK ==
  /\ base.off = 0
  /\ base.frame \in 1 .. Len(script) + 1
  /\ pc = "length" =>
       /\ need <= WordCells
       /\ need < WordCells => base.frame <= Len(script)
       /\ rd = At(base.frame, WordCells - need)
  /\ pc \in {"discard", "payload"} =>
       /\ base.frame <= Len(script)
       /\ message_len = script[base.frame].len
       /\ need <= message_len
       /\ rd = At(base.frame, WordCells + message_len - need)
  /\ pc \in {"discard", "payload", "batch", "writing", "record"} =>
       /\ base.frame <= Len(script)
       /\ script[base.frame].len > 0
  /\ pc \in {"batch", "writing", "record"} => rd = [frame |-> base.frame + 1, off |-> 0]

\* One response per frame so far, and the one in the making is right for its frame.
AnswerOK ==
  /\ ~stdoutBad => Len(sent) = (IF pc = "record" THEN base.frame ELSE base.frame - 1)
  /\ pc = "discard" => BadLength(message_len)
  /\ pc = "payload" => ~BadLength(message_len)
  /\ pc = "batch" =>
       /\ ~BadLength(Request.len) /\ Request.len # HeaderSize
       /\ HeaderAccepted(Request.header)
       /\ Request.verdict = Ok
       /\ Len(outputs) <= Request.batch_count
       /\ outputs = [i \in 1 .. Len(outputs) |-> i]
  /\ pc = "writing" => reply \in Answers(script[base.frame]) /\ toFlush > 0

IInv == TypeOK /\ StreamOK /\ ReadOK /\ AnswerOK

\* Where in the stream each frame begins that the writer has come to
Begins(S) ==
  /\ S \in [1 .. wr.frame -> Nat]
  /\ \A j \in 1 .. wr.frame - 1 : S[j + 1] = S[j] + FrameCells(j)
  /\ \A j, k \in 1 .. wr.frame : j < k => S[j] + FrameCells(j) <= S[k]

\* The stdin pipe holds what is between the two ends.
PipeOK ==
  \E S \in [1 .. wr.frame -> Nat] :
    /\ Begins(S)
    /\ inUse = (S[wr.frame] + wr.off) - (S[rd.frame] + rd.off)

----------------------------------------------------------------------------
(* The stream *)

\* A frame has cells for its length word and for what the word announces.
LEMMA FrameCellsLemma ==
  ASSUME TypeOK, NEW k \in 1 .. Len(script)
  PROVE  /\ script[k] \in Frame
         /\ script[k].len \in Nat
         /\ FrameCells(k) \in Nat
         /\ FrameCells(k) = WordCells + script[k].len
         /\ FrameCells(k) >= WordCells
         /\ WordCells > 0
<1>1. script \in Seq(Frame)
  BY ScriptAssumption DEF TypeOK
<1>2. script[k] \in Frame
  BY <1>1
<1>3. script[k].len \in Nat
  BY <1>2 DEF Frame
<1> QED BY <1>2, <1>3, CellAssumption DEF FrameCells

\* Moving on by one cell within a frame, and from its last cell to the next frame.
LEMMA AfterAt ==
  ASSUME TypeOK, NEW k \in 1 .. Len(script), NEW n \in Nat, n < FrameCells(k)
  PROVE  /\ At(k, n) = [frame |-> k, off |-> n]
         /\ After(At(k, n)) = At(k, n + 1)
BY FrameCellsLemma DEF At, After

\* The position after one in the stream is in the stream and comes later.
LEMMA AfterInStream ==
  ASSUME TypeOK, NEW p \in Position, InStream(p), p.frame <= Len(script)
  PROVE  /\ After(p) \in Position
         /\ InStream(After(p))
         /\ \/ After(p).frame = p.frame + 1 /\ After(p).off = 0 /\ p.off + 1 = FrameCells(p.frame)
            \/ After(p).frame = p.frame /\ After(p).off = p.off + 1
<1>1. p.frame \in 1 .. Len(script) /\ p.off \in Nat /\ Len(script) \in Nat
  BY ScriptAssumption DEF InStream, Position, TypeOK
<1>2. FrameCells(p.frame) \in Nat /\ p.off < FrameCells(p.frame)
  BY <1>1, FrameCellsLemma DEF InStream
<1>3. CASE p.off + 1 = FrameCells(p.frame)
  <2>1. After(p) = [frame |-> p.frame + 1, off |-> 0]
    BY <1>1, <1>2, <1>3 DEF After, At
  <2>2. p.frame + 1 <= Len(script) => 0 < FrameCells(p.frame + 1)
    <3> SUFFICES ASSUME p.frame + 1 <= Len(script) PROVE 0 < FrameCells(p.frame + 1)
      OBVIOUS
    <3>1. p.frame + 1 \in 1 .. Len(script)
      BY <1>1
    <3>2. FrameCells(p.frame + 1) \in Nat /\ FrameCells(p.frame + 1) >= WordCells
      BY <3>1, FrameCellsLemma
    <3> QED BY <3>2, CellAssumption
  <2> QED BY <1>1, <1>3, <2>1, <2>2 DEF InStream, Position
<1>4. CASE p.off + 1 # FrameCells(p.frame)
  <2>1. After(p) = [frame |-> p.frame, off |-> p.off + 1]
    BY <1>4 DEF After, At
  <2> QED BY <1>1, <1>2, <1>4, <2>1 DEF InStream, Position
<1> QED BY <1>3, <1>4

\* The reader does not overtake the writer when it takes a cell that is there.
LEMMA ReaderBehind ==
  ASSUME TypeOK, StreamOK, HasCells
  PROVE  /\ rd.frame <= Len(script)
         /\ InStream(After(rd))
         /\ After(rd) \in Position
         /\ \/ After(rd).frame < wr.frame
            \/ After(rd).frame = wr.frame /\ After(rd).off <= wr.off
<1>1. /\ Len(script) \in Nat /\ rd \in Position /\ wr \in Position
      /\ rd.frame \in Nat /\ rd.off \in Nat /\ wr.frame \in Nat /\ wr.off \in Nat
  BY ScriptAssumption DEF TypeOK, Position
<1>2. rd.frame < wr.frame \/ rd.off < wr.off
  BY <1>1 DEF StreamOK, HasCells, Position
<1>3. rd.frame <= Len(script)
  BY <1>1, <1>2 DEF StreamOK, InStream
<1>4. /\ After(rd) \in Position
      /\ InStream(After(rd))
      /\ \/ After(rd).frame = rd.frame + 1 /\ After(rd).off = 0
              /\ rd.off + 1 = FrameCells(rd.frame)
         \/ After(rd).frame = rd.frame /\ After(rd).off = rd.off + 1
  BY <1>1, <1>3, AfterInStream DEF StreamOK
<1>5. FrameCells(rd.frame) \in Nat
  BY <1>1, <1>3, FrameCellsLemma DEF StreamOK, InStream
<1>6. CASE After(rd).frame = rd.frame + 1 /\ After(rd).off = 0
             /\ rd.off + 1 = FrameCells(rd.frame)
  <2>1. wr.frame = rd.frame => wr.off < FrameCells(rd.frame)
    BY <1>3 DEF StreamOK, InStream
  <2>2. rd.frame < wr.frame
    BY <1>1, <1>2, <1>5, <1>6, <2>1 DEF StreamOK
  <2> QED BY <1>1, <1>3, <1>4, <1>6, <2>2
<1>7. CASE After(rd).frame = rd.frame /\ After(rd).off = rd.off + 1
  BY <1>1, <1>2, <1>3, <1>4, <1>7 DEF StreamOK
<1> QED BY <1>4, <1>6, <1>7

\* In step, the server finds exactly the frame the client sent.
LEMMA InStepReads ==
  ASSUME ReadOK
  PROVE  Lengths = {script[base.frame].len} /\ FramesRead = {script[base.frame]}
BY DEF ReadOK, Lengths, FramesRead
----------------------------------------------------------------------------
(* The invariant is inductive *)

LEMMA InitIInv == Init => IInv
<1> SUFFICES ASSUME Init PROVE IInv
  OBVIOUS
<1>1. script \in Seq(Frame) /\ Len(script) \in Nat
  BY ScriptAssumption DEF Init
<1>2. NoReply \in Response
  BY DEF NoReply, Failure, Response, Status
<1>3. TypeOK
  <2>1. stdout \in Seq(Cell) /\ Len(stdout) = 0 /\ outputs \in Seq(Nat) /\ sent \in Seq(Response)
    BY DEF Init
  <2>2. wr \in Position /\ rd \in Position /\ base \in Position
    BY DEF Init, Position
  <2>3. /\ inUse \in 0 .. PipeIn /\ received \in Nat /\ need \in Nat /\ message_len \in Nat
        /\ toFlush \in Nat /\ processed \in Nat /\ errors \in Nat /\ handled \in Nat
        /\ 0 <= PipeOut
    BY CellAssumption, PipeAssumption DEF Init
  <2>4. /\ alive \in BOOLEAN /\ stdinClosed \in BOOLEAN /\ stdoutBad \in BOOLEAN
        /\ poolsDirty \in BOOLEAN /\ sigpipeIgnored \in BOOLEAN
    BY Zenon DEF Init
  <2>5. /\ script \in Scripts /\ discipline \in Disciplines[script] /\ reply \in Response
        /\ pc = "length"
    BY <1>2 DEF Init
  <2> QED BY <2>1, <2>2, <2>3, <2>4, <2>5 DEF TypeOK
<1>4. 1 <= Len(script) => 0 < FrameCells(1)
  <2> SUFFICES ASSUME 1 <= Len(script) PROVE 0 < FrameCells(1)
    OBVIOUS
  <2>1. 1 \in 1 .. Len(script)
    BY <1>1
  <2>2. FrameCells(1) \in Nat /\ FrameCells(1) >= WordCells
    BY <2>1, <1>3, FrameCellsLemma
  <2> QED BY <2>2, CellAssumption
<1>5. StreamOK
  BY <1>1, <1>4 DEF Init, StreamOK, InStream
<1>6. ReadOK
  BY <1>1, CellAssumption DEF Init, ReadOK, At
<1>7. AnswerOK
  BY DEF Init, AnswerOK
<1> QED BY <1>3, <1>5, <1>6, <1>7 DEF IInv

\* What an action that does not touch the server's reading owes the invariant.
Unmoved == UNCHANGED <<script, wr, base, rd, need, message_len>>

LEMMA StreamUnmoved == ASSUME StreamOK, Unmoved PROVE StreamOK'
BY DEF StreamOK, Unmoved, InStream, FrameCells

LEMMA ClientOnly ==
  ASSUME IInv, TypeOK', Unmoved,
         UNCHANGED <<pc, outputs, reply, toFlush, sent, stdoutBad>>
  PROVE  IInv'
<1>1. StreamOK'
  BY StreamUnmoved DEF IInv
<1>2. ReadOK'
  BY DEF IInv, Unmoved, ReadOK, At, FrameCells
<1>3. AnswerOK'
  BY DEF IInv, Unmoved, AnswerOK, Request, BadLength
<1> QED BY <1>1, <1>2, <1>3 DEF IInv

LEMMA WriteCellStep == ASSUME IInv, WriteCell PROVE IInv'
<1>1. Len(script) \in Nat /\ wr \in Position /\ wr.frame \in Nat /\ wr.off \in Nat
      /\ rd.frame \in Nat /\ rd.off \in Nat /\ script \in Seq(Frame)
  BY ScriptAssumption DEF IInv, TypeOK, Position
<1>2. wr.frame <= Len(script) /\ InStream(wr)
  BY <1>1 DEF WriteCell, AllWritten, IInv, StreamOK, InStream
<1>3. /\ wr' \in Position
      /\ InStream(wr)'
      /\ wr'.frame = wr.frame + 1 \/ (wr'.frame = wr.frame /\ wr'.off = wr.off + 1)
  BY <1>1, <1>2, AfterInStream DEF WriteCell, IInv, InStream, FrameCells
<1>4. TypeOK'
  <2>1. inUse' \in 0 .. PipeIn
    BY PipeAssumption DEF WriteCell, IInv, TypeOK
  <2> QED BY <1>3, <2>1 DEF WriteCell, IInv, TypeOK, serverVars, metricVars
<1>5. StreamOK'
  BY <1>1, <1>3 DEF WriteCell, IInv, StreamOK, InStream, FrameCells, serverVars
<1>6. ReadOK'
  BY DEF WriteCell, IInv, ReadOK, At, FrameCells, serverVars
<1>7. AnswerOK'
  BY DEF WriteCell, IInv, AnswerOK, Request, BadLength, serverVars
<1> QED BY <1>4, <1>5, <1>6, <1>7 DEF IInv

LEMMA ClientStep ==
  ASSUME IInv, CloseStdin \/ GiveUp \/ ReadCell \/ Crash \/ Terminated \/ UNCHANGED vars
  PROVE  IInv'
<1> USE DEF clientVars, serverVars, metricVars, pipeVars
<1>1. Unmoved /\ UNCHANGED <<pc, outputs, reply, toFlush, sent, stdoutBad>>
  BY DEF CloseStdin, GiveUp, ReadCell, Crash, Terminated, vars, Unmoved
<1>2. CASE CloseStdin \/ GiveUp \/ Terminated \/ UNCHANGED vars
  <2>1. TypeOK'
    BY <1>2 DEF CloseStdin, GiveUp, Terminated, vars, IInv, TypeOK
  <2> QED BY <1>1, <2>1, ClientOnly
<1>3. CASE ReadCell
  <2>1. stdout' \in Seq(Cell) /\ Len(stdout') <= PipeOut
    <3>1. stdout \in Seq(Cell) /\ stdout # <<>> /\ stdout' = Tail(stdout)
      BY <1>3 DEF ReadCell, IInv, TypeOK
    <3> QED BY <3>1, PipeAssumption DEF IInv, TypeOK
  <2>2. received' \in Nat
    BY <1>3 DEF ReadCell, IInv, TypeOK
  <2>3. TypeOK'
    BY <1>3, <2>1, <2>2 DEF ReadCell, IInv, TypeOK
  <2> QED BY <1>1, <2>3, ClientOnly
<1>4. CASE Crash
  <2>1. TypeOK'
    <3>1. stdout' \in Seq(Cell) /\ Len(stdout') = 0 /\ 0 <= PipeOut
      BY <1>4, PipeAssumption DEF Crash
    <3>2. alive' \in BOOLEAN /\ stdinClosed' \in BOOLEAN
      BY <1>4 DEF Crash
    <3> QED BY <1>4, <3>1, <3>2 DEF Crash, IInv, TypeOK
  <2> QED BY <1>1, <2>1, ClientOnly
<1> QED BY <1>2, <1>3, <1>4

----------------------------------------------------------------------------
(* The server's steps *)

\* Every response the protocol allows is a response.
LEMMA AnswersAreResponses == ASSUME NEW f \in Frame PROVE Answers(f) \subseteq Response
<1>1. f.header.request_id \in Nat /\ f.verdict \in BodyVerdict /\ f.batch_count \in Nat
  BY IdAssumption DEF Frame, Header
<1>2. \A id \in Nat, st \in Status : Failure(id, st) \in Response
  BY DEF Failure, Response
<1>3. Success(f.header.request_id, f.batch_count) \in Response
  <2>1. [i \in 1 .. f.batch_count |-> i] \in Seq(Nat)
    BY <1>1
  <2> QED BY <1>1, <2>1 DEF Success, Response, Status
<1>4. f.verdict # Ok => f.verdict \in Status
  BY <1>1 DEF BodyVerdict, Status
<1> QED BY <1>1, <1>2, <1>3, <1>4 DEF Answers, Status

\* What the invariant says of the types involved in reading.
LEMMA ReadTypes ==
  ASSUME IInv
  PROVE  /\ base.frame \in Nat /\ base.off = 0 /\ Len(script) \in Nat
         /\ base = [frame |-> base.frame, off |-> 0]
         /\ need \in Nat /\ message_len \in Nat /\ WordCells \in Nat /\ WordCells > 0
         /\ rd \in Position /\ rd = [frame |-> rd.frame, off |-> rd.off]
BY ScriptAssumption, CellAssumption DEF IInv, TypeOK, ReadOK, Position

\* A cell that is ahead of the reader is in the pipe.
LEMMA CellsInUse == ASSUME IInv, PipeOK, HasCells PROVE inUse > 0
<1>1. /\ rd.frame \in Nat /\ rd.off \in Nat /\ wr.frame \in Nat /\ wr.off \in Nat
      /\ Len(script) \in Nat
  BY ScriptAssumption DEF IInv, TypeOK, Position
<1>2. PICK S \in [1 .. wr.frame -> Nat] :
        /\ Begins(S)
        /\ inUse = (S[wr.frame] + wr.off) - (S[rd.frame] + rd.off)
  BY DEF PipeOK
<1>3. /\ rd.frame \in 1 .. wr.frame /\ wr.frame \in 1 .. wr.frame
      /\ rd.frame < wr.frame \/ (rd.frame = wr.frame /\ rd.off < wr.off)
  BY <1>1 DEF HasCells, IInv, TypeOK, Position, StreamOK, InStream
<1>4. S[rd.frame] \in Nat /\ S[wr.frame] \in Nat
  BY <1>3
<1>5. CASE rd.frame < wr.frame
  <2>1. rd.frame \in 1 .. Len(script) /\ rd.off < FrameCells(rd.frame)
    BY <1>1, <1>5 DEF IInv, StreamOK, InStream
  <2>2. FrameCells(rd.frame) \in Nat
    BY <2>1, FrameCellsLemma DEF IInv
  <2>3. S[rd.frame] + FrameCells(rd.frame) <= S[wr.frame]
    BY <1>2, <1>3, <1>5 DEF Begins
  <2> QED BY <1>1, <1>2, <1>4, <2>1, <2>2, <2>3
<1>6. CASE rd.frame = wr.frame /\ rd.off < wr.off
  BY <1>1, <1>2, <1>4, <1>6
<1> QED BY <1>3, <1>5, <1>6

LEMMA TakeCellStep == ASSUME IInv, PipeOK, TakeCell PROVE IInv'
<1> USE DEF clientVars, metricVars
<1>1. /\ rd.frame <= Len(script)
      /\ InStream(After(rd))
      /\ After(rd) \in Position
      /\ \/ After(rd).frame < wr.frame
         \/ After(rd).frame = wr.frame /\ After(rd).off <= wr.off
  BY ReaderBehind DEF TakeCell, IInv
<1>2. /\ rd' = After(rd) /\ need > 0 /\ need' = need - 1 /\ need' \in Nat
      /\ UNCHANGED <<script, wr, base, pc, message_len, outputs, reply, sent, stdoutBad>>
  BY DEF TakeCell, IInv, TypeOK
<1>3. TypeOK'
  <2>1. inUse' \in 0 .. PipeIn
    <3>1. inUse \in 0 .. PipeIn /\ inUse > 0 /\ inUse' = inUse - 1
      BY CellsInUse DEF TakeCell, IInv, TypeOK
    <3> QED BY <3>1, PipeAssumption
  <2> QED BY <1>1, <1>2, <2>1 DEF TakeCell, IInv, TypeOK
<1>4. StreamOK'
  BY <1>1, <1>2 DEF IInv, StreamOK, InStream, FrameCells
<1>5. \A k, n : At(k, n)' = At(k, n)
  BY <1>2 DEF At, FrameCells
<1>6. CASE pc = "length"
  <2> DEFINE n == WordCells - need
  <2>1. n \in Nat /\ n < WordCells /\ WordCells - need' = n + 1 /\ rd = At(base.frame, n)
        /\ need' < WordCells
    BY <1>2, <1>6, ReadTypes DEF IInv, ReadOK
  <2>2. At(base.frame, n) = [frame |-> base.frame, off |-> n] \/ n = FrameCells(base.frame)
    BY DEF At
  <2>3. base.frame \in 1 .. Len(script)
    <3>1. CASE n = 0
      <4>1. At(base.frame, 0) = [frame |-> base.frame, off |-> 0]
        BY DEF At
      <4>2. rd.frame = base.frame
        BY <2>1, <3>1, <4>1
      <4> QED BY <1>1, <4>2, ReadTypes DEF IInv, ReadOK
    <3>2. CASE n # 0
      BY <1>6, <2>1, <3>2, ReadTypes DEF IInv, ReadOK
    <3> QED BY <3>1, <3>2
  <2>4. n < FrameCells(base.frame)
    BY <2>1, <2>3, FrameCellsLemma, ReadTypes DEF IInv
  <2>5. After(rd) = At(base.frame, n + 1)
    BY <2>1, <2>3, <2>4, AfterAt DEF IInv
  <2> HIDE DEF n
  <2>6. ReadOK'
    BY <1>2, <1>5, <1>6, <2>1, <2>3, <2>5, ReadTypes DEF IInv, ReadOK
  <2>7. AnswerOK'
    BY <1>2, <1>6 DEF IInv, AnswerOK
  <2> QED BY <1>3, <1>4, <2>6, <2>7 DEF IInv
<1>7. CASE pc \in {"discard", "payload"}
  <2> DEFINE n == WordCells + message_len - need
  <2>1. base.frame \in 1 .. Len(script) /\ rd = At(base.frame, n)
        /\ message_len = script[base.frame].len /\ need <= message_len
    BY <1>7, ReadTypes DEF IInv, ReadOK
  <2>2. n \in Nat /\ n < FrameCells(base.frame)
    BY <1>2, <2>1, FrameCellsLemma, ReadTypes DEF IInv
  <2>3. After(rd) = At(base.frame, n + 1) /\ WordCells + message_len - need' = n + 1
    BY <1>2, <2>1, <2>2, AfterAt, ReadTypes DEF IInv
  <2> HIDE DEF n
  <2>4. need' <= message_len
    BY <1>2, <2>1, ReadTypes
  <2>5. ReadOK'
    BY <1>2, <1>5, <1>7, <2>1, <2>3, <2>4 DEF IInv, ReadOK
  <2>6. AnswerOK'
    BY <1>2, <1>7 DEF IInv, AnswerOK, BadLength
  <2> QED BY <1>3, <1>4, <2>5, <2>6 DEF IInv
<1> QED BY <1>6, <1>7 DEF TakeCell, Reading

\* The loop ends: at the end of the input, at a shutdown frame, by SIGPIPE.
LEMMA EndStep == ASSUME IInv, InputEnds \/ ShutdownFrame \/ Killed PROVE IInv'
<1> USE DEF clientVars, metricVars, pipeVars
<1>1. /\ Unmoved /\ pc # "record" /\ pc' \in {"exited", "killed"}
      /\ UNCHANGED <<outputs, reply, toFlush, sent, stdoutBad>>
  BY DEF InputEnds, ShutdownFrame, Killed, Unmoved, Reading, HasLength
<1>2. TypeOK'
  BY <1>1 DEF InputEnds, ShutdownFrame, Killed, IInv, TypeOK
<1>3. StreamOK'
  BY <1>1, StreamUnmoved DEF IInv
<1>4. ReadOK'
  BY <1>1 DEF IInv, ReadOK, Unmoved
<1>5. AnswerOK'
  BY <1>1 DEF IInv, AnswerOK, Unmoved
<1> QED BY <1>2, <1>3, <1>4, <1>5 DEF IInv

\* A complete length word begins the frame it announces.
LEMMA BeginStep == ASSUME IInv, BeginDiscard \/ BeginPayload PROVE IInv'
<1> USE DEF clientVars, metricVars, pipeVars
<1> DEFINE len == script[base.frame].len
<1>1. pc = "length" /\ need = 0
  BY DEF BeginDiscard, BeginPayload, HasLength
<1>2. base.frame \in 1 .. Len(script) /\ rd = At(base.frame, WordCells)
  BY <1>1, ReadTypes DEF IInv, ReadOK
<1>3. len \in Nat
  BY <1>2, FrameCellsLemma DEF IInv
<1>4. Lengths = {len}
  BY InStepReads DEF IInv
<1> HIDE DEF len
<1>5. /\ message_len' = len /\ need' = len /\ len # 0
      /\ \/ pc' = "discard" /\ BadLength(len)
         \/ pc' = "payload" /\ ~BadLength(len)
      /\ UNCHANGED <<clientVars, pipeVars, base, rd, outputs, reply, toFlush, sent,
                     stdoutBad, poolsDirty, metricVars>>
  BY <1>4 DEF BeginDiscard, BeginPayload, Read
<1>6. TypeOK'
  BY <1>3, <1>5 DEF IInv, TypeOK
<1>7. StreamOK'
  BY <1>5 DEF IInv, StreamOK, InStream, FrameCells
<1>8. WordCells + len - len = WordCells /\ len > 0 /\ len <= len
  BY <1>3, <1>5, ReadTypes
<1>9. ReadOK'
  BY <1>2, <1>5, <1>8 DEF IInv, ReadOK, At, FrameCells, len
<1>10. AnswerOK'
  BY <1>1, <1>5 DEF IInv, AnswerOK, BadLength
<1> QED BY <1>6, <1>7, <1>9, <1>10 DEF IInv

\* A response that is right for its frame, begun with the whole frame read.
LEMMA ReplyStep ==
  ASSUME IInv, NEW r, Reply(r), r \in Answers(script[base.frame]),
         pc \in {"discard", "payload", "batch"},
         base.frame \in 1 .. Len(script),
         rd = [frame |-> base.frame + 1, off |-> 0],
         outputs' = outputs, poolsDirty' \in BOOLEAN
  PROVE  IInv'
<1> USE DEF clientVars, metricVars, pipeVars
<1>1. r \in Response
  BY FrameCellsLemma, AnswersAreResponses DEF IInv
<1>2. toFlush' \in Nat /\ toFlush' > 0
  BY <1>1 DEF Reply, ResponseCells, Response
<1>3. TypeOK'
  BY <1>1, <1>2 DEF Reply, IInv, TypeOK
<1>4. Unmoved
  BY DEF Reply, Unmoved
<1>5. StreamOK'
  BY <1>4, StreamUnmoved DEF IInv
<1>6. ReadOK'
  BY <1>4 DEF Reply, IInv, ReadOK, Unmoved
<1>7. AnswerOK'
  BY <1>2, <1>4 DEF Reply, IInv, AnswerOK, Unmoved
<1> QED BY <1>3, <1>5, <1>6, <1>7 DEF IInv

\* When all of a frame is read the position is the beginning of the next.
LEMMA FrameRead ==
  ASSUME IInv, pc \in {"discard", "payload"}, need = 0
  PROVE  /\ rd = [frame |-> base.frame + 1, off |-> 0]
         /\ base.frame \in 1 .. Len(script)
         /\ message_len = script[base.frame].len
         /\ message_len > 0
         /\ FramesRead = {script[base.frame]}
<1>1. base.frame \in 1 .. Len(script) /\ message_len = script[base.frame].len /\ message_len > 0
  BY ReadTypes DEF IInv, ReadOK
<1>2. rd = At(base.frame, WordCells + message_len)
  BY ReadTypes DEF IInv, ReadOK
<1>3. WordCells + message_len = FrameCells(base.frame) /\ WordCells + message_len > 0
  BY <1>1, ReadTypes DEF FrameCells
<1> QED BY <1>1, <1>2, <1>3, InStepReads DEF At, IInv

LEMMA RejectStep ==
  ASSUME IInv, FinishDiscard \/ RejectHeader \/ RejectEmptyBody \/ RejectBody
  PROVE  IInv'
<1> DEFINE f == script[base.frame]
<1>1. pc \in {"discard", "payload"} /\ need = 0 /\ outputs' = outputs /\ poolsDirty' \in BOOLEAN
  BY DEF FinishDiscard, RejectHeader, RejectEmptyBody, RejectBody, HasPayload, IInv, TypeOK
<1>2. /\ rd = [frame |-> base.frame + 1, off |-> 0]
      /\ base.frame \in 1 .. Len(script)
      /\ message_len = f.len
      /\ FramesRead = {f}
  BY <1>1, FrameRead
<1> HIDE DEF f
<1>3. \E r \in Answers(f) : Reply(r)
  <2>1. CASE FinishDiscard
    <3>1. Undersized(f) \/ Oversized(f)
      BY <1>2, <2>1 DEF FinishDiscard, IInv, AnswerOK, BadLength, Undersized, Oversized
    <3> QED BY <2>1, <3>1 DEF FinishDiscard, Answers
  <2>2. CASE RejectHeader \/ RejectEmptyBody \/ RejectBody
    <3>1. ~Undersized(f) /\ ~Oversized(f)
      BY <1>2, <2>2 DEF RejectHeader, RejectEmptyBody, RejectBody, HasPayload, IInv,
         AnswerOK, BadLength, Undersized, Oversized
    <3>2. CASE RejectHeader
      BY <1>2, <3>1, <3>2 DEF RejectHeader, Answers
    <3>3. CASE RejectEmptyBody
      BY <1>2, <3>1, <3>3 DEF RejectEmptyBody, EmptyBody, Answers
    <3>4. CASE RejectBody
      BY <1>2, <3>1, <3>4 DEF RejectBody, EmptyBody, Answers
    <3> QED BY <2>2, <3>2, <3>3, <3>4
  <2> QED BY <2>1, <2>2
<1> QED BY <1>1, <1>2, <1>3, ReplyStep DEF f

LEMMA StartBatchStep == ASSUME IInv, StartBatch PROVE IInv'
<1> USE DEF clientVars, metricVars, pipeVars
<1>1. pc = "payload" /\ need = 0
  BY DEF StartBatch, HasPayload
<1>2. /\ rd = [frame |-> base.frame + 1, off |-> 0]
      /\ base.frame \in 1 .. Len(script)
      /\ message_len = script[base.frame].len /\ message_len > 0
      /\ FramesRead = {script[base.frame]}
  BY <1>1, FrameRead
<1>3. /\ Unmoved /\ pc' = "batch" /\ outputs' = <<>>
      /\ UNCHANGED <<reply, toFlush, sent, stdoutBad>>
  BY DEF StartBatch, Unmoved
<1>4. TypeOK'
  BY <1>3 DEF StartBatch, IInv, TypeOK
<1>5. StreamOK'
  BY <1>3, StreamUnmoved DEF IInv
<1>6. ReadOK'
  BY <1>1, <1>2, <1>3 DEF IInv, ReadOK, Unmoved
<1>7. AnswerOK'
  <2>1. ~BadLength(Request.len) /\ Request.len # HeaderSize
        /\ HeaderAccepted(Request.header) /\ Request.verdict = Ok
    BY <1>1, <1>2 DEF StartBatch, EmptyBody, Request, IInv, AnswerOK
  <2>2. script[base.frame].batch_count \in Nat
    BY <1>2, FrameCellsLemma DEF IInv, Frame
  <2>3. Len(outputs') = 0 /\ outputs' = [i \in 1 .. Len(outputs') |-> i]
    BY <1>3
  <2>4. Request' = Request
    BY <1>3 DEF Request, Unmoved
  <2>5. Len(outputs') <= Request.batch_count
    BY <2>2, <2>3 DEF Request
  <2> QED BY <1>1, <1>3, <2>1, <2>3, <2>4, <2>5 DEF IInv, AnswerOK, Unmoved, BadLength
<1> QED BY <1>4, <1>5, <1>6, <1>7 DEF IInv

LEMMA EngineWorksStep == ASSUME IInv, EngineWorks PROVE IInv'
<1> USE DEF clientVars, metricVars, pipeVars
<1>1. /\ Unmoved
      /\ UNCHANGED <<pc, need, rd, outputs, reply, toFlush, sent, stdoutBad>>
  BY DEF EngineWorks, Unmoved
<1>2. TypeOK'
  BY <1>1 DEF EngineWorks, IInv, TypeOK
<1>3. StreamOK'
  BY <1>1, StreamUnmoved DEF IInv
<1>4. ReadOK'
  BY <1>1 DEF IInv, ReadOK, Unmoved, At, FrameCells
<1>5. AnswerOK'
  BY <1>1 DEF IInv, AnswerOK, Unmoved, BadLength, Request
<1> QED BY <1>2, <1>3, <1>4, <1>5 DEF IInv

LEMMA ImageDoneStep == ASSUME IInv, ImageDone PROVE IInv'
<1> USE DEF clientVars, metricVars, pipeVars
<1>1. /\ Unmoved /\ pc = "batch" /\ pc' = "batch"
      /\ UNCHANGED <<reply, toFlush, sent, stdoutBad>>
      /\ Len(outputs) < Request.batch_count
      /\ outputs' = Append(outputs, Len(outputs) + 1)
  BY DEF ImageDone, ImageSucceeded, InBatch, Unmoved
<1>2. outputs \in Seq(Nat) /\ Len(outputs) \in Nat
  BY DEF IInv, TypeOK
<1>3. outputs' \in Seq(Nat) /\ Len(outputs') = Len(outputs) + 1
  BY <1>1, <1>2
<1>4. TypeOK'
  BY <1>1, <1>3 DEF ImageDone, ImageSucceeded, IInv, TypeOK
<1>5. StreamOK'
  BY <1>1, StreamUnmoved DEF IInv
<1>6. ReadOK'
  BY <1>1 DEF IInv, ReadOK, Unmoved
<1>7. AnswerOK'
  <2>1. outputs = [i \in 1 .. Len(outputs) |-> i]
    BY <1>1 DEF IInv, AnswerOK
  <2>2. \A i \in 1 .. Len(outputs) + 1 : outputs'[i] = i
    BY <1>1, <1>2, <2>1
  <2>3. outputs' = [i \in 1 .. Len(outputs') |-> i]
    BY <1>3, <2>2
  <2>4. Request' = Request
    BY <1>1 DEF Request, Unmoved
  <2>5. Request.batch_count \in Nat
    <3>1. base.frame \in 1 .. Len(script)
      BY <1>1, ReadTypes DEF IInv, ReadOK
    <3> QED BY <3>1, FrameCellsLemma DEF IInv, Frame, Request
  <2>6. Len(outputs') <= Request.batch_count
    BY <1>1, <1>2, <1>3, <2>5
  <2> QED BY <1>1, <2>3, <2>4, <2>6 DEF IInv, AnswerOK, Unmoved, BadLength
<1> QED BY <1>4, <1>5, <1>6, <1>7 DEF IInv

\* A batch is answered as a whole: with all its outputs, or with none.
LEMMA BatchEndStep == ASSUME IInv, ImageFails \/ BatchDone PROVE IInv'
<1>1. pc = "batch" /\ outputs' = outputs /\ poolsDirty' \in BOOLEAN
  BY DEF ImageFails, ImageFailed, BatchDone, InBatch, IInv, TypeOK
<1>2. base.frame \in 1 .. Len(script) /\ rd = [frame |-> base.frame + 1, off |-> 0]
  BY <1>1, ReadTypes DEF IInv, ReadOK
<1>3. Answers(Request) = {Success(Request.header.request_id, Request.batch_count),
                          Failure(Request.header.request_id, EngineError)}
  BY <1>1 DEF IInv, AnswerOK, Answers, BadLength, Undersized, Oversized
<1>4. \E r \in Answers(Request) : Reply(r)
  <2>1. CASE ImageFails
    BY <1>3, <2>1 DEF ImageFails, ImageFailed
  <2>2. CASE BatchDone
    <3>1. outputs = [i \in 1 .. Request.batch_count |-> i]
      BY <1>1, <2>2 DEF BatchDone, IInv, AnswerOK
    <3> QED BY <1>3, <2>2, <3>1 DEF BatchDone, Success
  <2> QED BY <2>1, <2>2
<1> QED BY <1>1, <1>2, <1>4, ReplyStep DEF Request

LEMMA WriteReplyStep == ASSUME IInv, WriteReplyCell PROVE IInv'
<1> USE DEF clientVars, metricVars, pipeVars
<1>1. Unmoved /\ pc = "writing" /\ UNCHANGED <<outputs, reply, stdoutBad>>
      /\ pc' \in {"writing", "record"}
  BY DEF WriteReplyCell, Unmoved
<1>2. stdout' \in Seq(Cell) /\ Len(stdout') <= PipeOut
  <2>1. stdout \in Seq(Cell) /\ Len(stdout) < PipeOut /\ Len(stdout) \in Nat
    BY DEF WriteReplyCell, IInv, TypeOK
  <2>2. (IF toFlush = 1 THEN "last" ELSE "more") \in Cell
    BY DEF Cell
  <2> QED BY <2>1, <2>2, PipeAssumption DEF WriteReplyCell
<1>3. sent' \in Seq(Response)
  <2>1. sent \in Seq(Response) /\ reply \in Response
    BY DEF IInv, TypeOK
  <2>2. sent' = sent \/ sent' = Append(sent, reply)
    BY DEF WriteReplyCell
  <2> QED BY <2>1, <2>2
<1>4. toFlush' \in Nat /\ (toFlush # 1 => toFlush' > 0)
  BY DEF WriteReplyCell, IInv, TypeOK, AnswerOK
<1>5. TypeOK'
  BY <1>1, <1>2, <1>3, <1>4 DEF WriteReplyCell, IInv, TypeOK
<1>6. StreamOK'
  BY <1>1, StreamUnmoved DEF IInv
<1>7. ReadOK'
  BY <1>1 DEF IInv, ReadOK, Unmoved
<1>8. AnswerOK'
  <2>1. base.frame \in Nat /\ Len(sent) \in Nat
    BY ReadTypes DEF IInv, TypeOK
  <2>2. CASE toFlush = 1
    <3>1. pc' = "record" /\ Len(sent') = Len(sent) + 1
      BY <2>2 DEF WriteReplyCell, IInv, TypeOK
    <3> QED BY <1>1, <2>1, <3>1 DEF IInv, AnswerOK, Unmoved
  <2>3. CASE toFlush # 1
    <3>1. pc' = "writing" /\ sent' = sent /\ toFlush' > 0
      BY <1>1, <1>4, <2>3 DEF WriteReplyCell
    <3> QED BY <1>1, <2>1, <3>1 DEF IInv, AnswerOK, Unmoved
  <2> QED BY <2>2, <2>3
<1> QED BY <1>5, <1>6, <1>7, <1>8 DEF IInv

LEMMA DropReplyStep == ASSUME IInv, DropReply PROVE IInv'
<1> USE DEF clientVars, metricVars, pipeVars
<1>1. /\ Unmoved /\ pc = "writing" /\ pc' = "record" /\ UNCHANGED <<outputs, reply, sent>>
      /\ toFlush' = 0 /\ stdoutBad' = TRUE
  BY DEF DropReply, Unmoved
<1>2. TypeOK'
  BY <1>1 DEF DropReply, IInv, TypeOK
<1>3. StreamOK'
  BY <1>1, StreamUnmoved DEF IInv
<1>4. ReadOK'
  BY <1>1 DEF IInv, ReadOK, Unmoved
<1>5. AnswerOK'
  BY <1>1 DEF IInv, AnswerOK
<1> QED BY <1>2, <1>3, <1>4, <1>5 DEF IInv

LEMMA RecordStep == ASSUME IInv, RecordOk \/ RecordError PROVE IInv'
<1> USE DEF clientVars, metricVars, pipeVars
<1>1. /\ pc = "record" /\ pc' = "length" /\ base' = rd /\ need' = WordCells
      /\ UNCHANGED <<script, wr, rd, message_len, outputs, reply, toFlush, sent, stdoutBad>>
      /\ poolsDirty' \in BOOLEAN
  BY DEF RecordOk, RecordedOk, RecordError, NextFrame, IInv, TypeOK
<1>2. /\ base.frame \in 1 .. Len(script)
      /\ rd = [frame |-> base.frame + 1, off |-> 0]
      /\ base.frame \in Nat /\ Len(script) \in Nat
  BY <1>1, ReadTypes DEF IInv, ReadOK
<1>3. processed' \in Nat /\ errors' \in Nat /\ handled' \in Nat
  BY DEF RecordOk, RecordedOk, RecordError, IInv, TypeOK
<1>4. TypeOK'
  BY <1>1, <1>3, ReadTypes DEF RecordOk, RecordedOk, RecordError, NextFrame, IInv, TypeOK
<1>5. StreamOK'
  BY <1>1 DEF IInv, StreamOK, InStream, FrameCells
<1>6. ReadOK'
  <2>1. base'.frame = base.frame + 1 /\ base'.off = 0 /\ WordCells - need' = 0
    BY <1>1, <1>2, ReadTypes
  <2>2. At(base.frame, WordCells - need)' = [frame |-> base'.frame, off |-> 0]
    BY <2>1 DEF At
  <2>3. rd' = At(base.frame, WordCells - need)'
    BY <1>1, <1>2, <2>1, <2>2
  <2>4. base'.frame \in 1 .. Len(script') + 1
    BY <1>1, <1>2, <2>1
  <2> QED BY <1>1, <2>1, <2>3, <2>4, ReadTypes DEF ReadOK
<1>7. AnswerOK'
  <2>1. base'.frame - 1 = base.frame
    BY <1>1, <1>2
  <2> QED BY <1>1, <2>1 DEF IInv, AnswerOK
<1> QED BY <1>4, <1>5, <1>6, <1>7 DEF IInv

LEMMA NextIInv == IInv /\ PipeOK /\ [Next]_vars => IInv'
<1> SUFFICES ASSUME IInv, PipeOK, [Next]_vars PROVE IInv'
  OBVIOUS
<1>1. CASE WriteCell BY <1>1, WriteCellStep
<1>2. CASE CloseStdin \/ GiveUp \/ ReadCell \/ Crash \/ Terminated \/ UNCHANGED vars
  BY <1>2, ClientStep
<1>3. CASE TakeCell BY <1>3, TakeCellStep
<1>4. CASE InputEnds \/ ShutdownFrame \/ Killed BY <1>4, EndStep
<1>5. CASE BeginDiscard \/ BeginPayload BY <1>5, BeginStep
<1>6. CASE FinishDiscard \/ RejectHeader \/ RejectEmptyBody \/ RejectBody
  BY <1>6, RejectStep
<1>7. CASE StartBatch BY <1>7, StartBatchStep
<1>8. CASE ImageDone BY <1>8, ImageDoneStep
<1>9. CASE ImageFails \/ BatchDone BY <1>9, BatchEndStep
<1>10. CASE WriteReplyCell BY <1>10, WriteReplyStep
<1>11. CASE DropReply BY <1>11, DropReplyStep
<1>12. CASE RecordOk \/ RecordError BY <1>12, RecordStep
<1>13. CASE EngineWorks BY <1>13, EngineWorksStep
<1> QED BY <1>1, <1>2, <1>3, <1>4, <1>5, <1>6, <1>7, <1>8, <1>9, <1>10, <1>11, <1>12, <1>13
        DEF Next, Client, Server, ServerRead, ServerAnswer, ServerWrite

\* The writer puts a cell at its end of the stream, the reader takes one at its own.
LEMMA NextPipeOK == IInv /\ PipeOK /\ [Next]_vars => PipeOK'
<1> SUFFICES ASSUME IInv, PipeOK, [Next]_vars PROVE PipeOK'
  OBVIOUS
<1> USE DEF clientVars, metricVars, pipeVars, serverVars
<1>0. \A a, b \in Nat :
        inUse = (a + wr.off) - (b + rd.off) =>
          /\ inUse + 1 = (a + (wr.off + 1)) - (b + rd.off)
          /\ inUse + 1 = ((a + (wr.off + 1)) + 0) - (b + rd.off)
          /\ inUse - 1 = (a + wr.off) - (b + (rd.off + 1))
          /\ inUse - 1 = (a + wr.off) - ((b + (rd.off + 1)) + 0)
  <2>1. rd.off \in Nat /\ wr.off \in Nat
    BY DEF IInv, TypeOK, Position
  <2> QED BY <2>1
<1>1. PICK S \in [1 .. wr.frame -> Nat] :
        /\ Begins(S)
        /\ inUse = (S[wr.frame] + wr.off) - (S[rd.frame] + rd.off)
  BY DEF PipeOK
<1>2. /\ rd.frame \in Nat /\ rd.off \in Nat /\ wr.frame \in Nat /\ wr.off \in Nat
      /\ Len(script) \in Nat /\ rd \in Position /\ wr \in Position
      /\ rd.frame \in 1 .. wr.frame /\ wr.frame \in 1 .. wr.frame /\ inUse \in Nat
  BY ScriptAssumption, PipeAssumption DEF IInv, TypeOK, Position, StreamOK, InStream
<1>3. PICK ahead \in Nat, behind \in Nat :
        /\ ahead = S[wr.frame] /\ behind = S[rd.frame]
        /\ inUse = (ahead + wr.off) - (behind + rd.off)
  BY <1>1, <1>2
<1>4. CASE WriteCell
  <2>1. /\ wr.frame \in 1 .. Len(script)
        /\ wr' = After(wr) /\ rd' = rd /\ script' = script /\ inUse' = inUse + 1
    BY <1>2, <1>4 DEF WriteCell, AllWritten, IInv, StreamOK, InStream
  <2>2. \/ wr'.frame = wr.frame + 1 /\ wr'.off = 0 /\ wr.off + 1 = FrameCells(wr.frame)
        \/ wr'.frame = wr.frame /\ wr'.off = wr.off + 1
    BY <1>2, <2>1, AfterInStream DEF IInv, StreamOK
  <2>3. \A j : FrameCells(j)' = FrameCells(j)
    BY <2>1 DEF FrameCells
  <2>4. CASE wr'.frame = wr.frame /\ wr'.off = wr.off + 1
    <3>1. Begins(S)'
      BY <1>1, <2>3, <2>4 DEF Begins
    <3>2. inUse' = (S[wr'.frame] + wr'.off) - (S[rd'.frame] + rd'.off)
      <4>1. S[wr'.frame] = ahead /\ S[rd'.frame] = behind /\ rd'.off = rd.off
        BY <1>3, <2>1, <2>4
      <4>2. inUse + 1 = (ahead + (wr.off + 1)) - (behind + rd.off)
        BY <1>0, <1>3
      <4> QED BY <2>1, <2>4, <4>1, <4>2
    <3> QED BY <2>4, <3>1, <3>2 DEF PipeOK
  <2>5. CASE wr'.frame = wr.frame + 1 /\ wr'.off = 0 /\ wr.off + 1 = FrameCells(wr.frame)
    <3> DEFINE w == wr.frame
    <3>1. /\ w \in Nat /\ w > 0 /\ \A k \in 1 .. w : S[k] \in Nat
          /\ \A k \in 1 .. w : FrameCells(k) \in Nat
      <4>1. \A k \in 1 .. w : k \in 1 .. Len(script)
        BY <1>2, <2>1
      <4>2. \A k \in 1 .. w : FrameCells(k) \in Nat
        BY <4>1, FrameCellsLemma DEF IInv
      <4> QED BY <1>2, <4>2
    <3>0. PICK T \in [1 .. w + 1 -> Nat] :
            \A k \in 1 .. w + 1 : T[k] = IF k <= w THEN S[k] ELSE S[w] + FrameCells(w)
      <4> DEFINE U == [k \in 1 .. w + 1 |-> IF k <= w THEN S[k] ELSE S[w] + FrameCells(w)]
      <4>1. U \in [1 .. w + 1 -> Nat]
        BY <3>1
      <4> QED BY <4>1
    <3>2. \A k \in 1 .. w : T[k] = S[k] /\ k \in 1 .. w + 1
      BY <3>0, <3>1
    <3>3. T[w + 1] = S[w] + FrameCells(w) /\ T \in [1 .. w + 1 -> Nat]
      BY <3>0, <3>1
    <3>4. \A j \in 1 .. w : T[j + 1] = T[j] + FrameCells(j)
      <4> SUFFICES ASSUME NEW j \in 1 .. w PROVE T[j + 1] = T[j] + FrameCells(j)
        OBVIOUS
      <4>1. CASE j = w
        BY <3>1, <3>2, <3>3, <4>1
      <4>2. CASE j # w
        <5>1. j \in 1 .. w - 1 /\ j + 1 \in 1 .. w
          BY <3>1, <4>2
        <5>2. S[j + 1] = S[j] + FrameCells(j)
          BY <1>1, <5>1 DEF Begins
        <5>3. T[j] = S[j] /\ T[j + 1] = S[j + 1]
          BY <3>2, <5>1
        <5> QED BY <5>2, <5>3
      <4> QED BY <4>1, <4>2
    <3>5. \A j, k \in 1 .. w + 1 : j < k => T[j] + FrameCells(j) <= T[k]
      <4> SUFFICES ASSUME NEW j \in 1 .. w + 1, NEW k \in 1 .. w + 1, j < k
                   PROVE  T[j] + FrameCells(j) <= T[k]
        OBVIOUS
      <4>1. j \in 1 .. w /\ T[j] = S[j] /\ S[j] \in Nat /\ FrameCells(j) \in Nat
        BY <3>1, <3>2
      <4>2. CASE k <= w
        <5>1. k \in 1 .. w
          BY <3>1, <4>2
        <5>2. S[j] + FrameCells(j) <= S[k] /\ T[k] = S[k]
          BY <1>1, <3>2, <4>1, <5>1 DEF Begins
        <5> QED BY <4>1, <5>2
      <4>3. CASE k > w
        <5>1. T[k] = S[w] + FrameCells(w)
          BY <3>1, <3>3, <4>3
        <5>2. S[w] \in Nat /\ FrameCells(w) \in Nat
          BY <3>1
        <5>3. j = w \/ S[j] + FrameCells(j) <= S[w]
          <6>1. w \in 1 .. w /\ (j = w \/ j < w)
            BY <3>1, <4>1
          <6> QED BY <1>1, <4>1, <6>1 DEF Begins
        <5> QED BY <4>1, <5>1, <5>2, <5>3
      <4> QED BY <3>1, <4>2, <4>3
    <3>6. /\ T[w] = S[w] /\ T[rd.frame] = S[rd.frame]
          /\ S[w] \in Nat /\ S[rd.frame] \in Nat /\ FrameCells(w) \in Nat
      BY <1>2, <1>3, <3>1, <3>2
    <3>7. Begins(T)'
      <4>1. wr'.frame - 1 = w
        BY <1>2, <2>5
      <4>2. wr'.frame = w + 1 /\ T \in [1 .. wr'.frame -> Nat]
        BY <2>5, <3>3
      <4>3. \A j \in 1 .. wr'.frame - 1 : T[j + 1] = T[j] + FrameCells(j)'
        BY <2>3, <3>4, <4>1
      <4>4. \A j, k \in 1 .. wr'.frame : j < k => T[j] + FrameCells(j)' <= T[k]
        <5>1. \A j, k \in 1 .. wr'.frame : j < k => T[j] + FrameCells(j) <= T[k]
          BY <3>5, <4>2
        <5> QED BY <2>3, <5>1
      <4> QED BY <4>2, <4>3, <4>4 DEF Begins
    <3>8. inUse' = (T[wr'.frame] + wr'.off) - (T[rd'.frame] + rd'.off)
      <4>1. /\ T[wr'.frame] = ahead + (wr.off + 1)
            /\ T[rd'.frame] = behind /\ rd'.off = rd.off
        BY <1>3, <2>1, <2>5, <3>3, <3>6
      <4>2. inUse + 1 = ((ahead + (wr.off + 1)) + 0) - (behind + rd.off)
        BY <1>0, <1>3
      <4> QED BY <2>1, <2>5, <4>1, <4>2
    <3>9. T \in [1 .. wr'.frame -> Nat]
      BY <2>5, <3>3
    <3> QED BY <3>7, <3>8, <3>9 DEF PipeOK
  <2> QED BY <2>2, <2>4, <2>5
<1>5. CASE TakeCell
  <2>1. /\ wr' = wr /\ rd' = After(rd) /\ script' = script /\ inUse' = inUse - 1
        /\ HasCells
    BY <1>5 DEF TakeCell
  <2>2. /\ rd.frame \in 1 .. Len(script)
        /\ \/ After(rd).frame < wr.frame
           \/ After(rd).frame = wr.frame /\ After(rd).off <= wr.off
    BY <1>2, <2>1, ReaderBehind DEF IInv, StreamOK, InStream
  <2>3. \/ rd'.frame = rd.frame + 1 /\ rd'.off = 0 /\ rd.off + 1 = FrameCells(rd.frame)
        \/ rd'.frame = rd.frame /\ rd'.off = rd.off + 1
    BY <1>2, <2>1, <2>2, AfterInStream DEF IInv, StreamOK
  <2>4. Begins(S)'
    BY <1>1, <2>1 DEF Begins, FrameCells
  <2>5. inUse' = (S[wr'.frame] + wr'.off) - (S[rd'.frame] + rd'.off)
    <3>1. CASE rd'.frame = rd.frame /\ rd'.off = rd.off + 1
      <4>1. S[wr'.frame] = ahead /\ S[rd'.frame] = behind
        BY <1>3, <2>1, <3>1
      <4>2. inUse - 1 = (ahead + wr.off) - (behind + (rd.off + 1))
        BY <1>0, <1>3
      <4> QED BY <2>1, <3>1, <4>1, <4>2
    <3>2. CASE rd'.frame = rd.frame + 1 /\ rd'.off = 0 /\ rd.off + 1 = FrameCells(rd.frame)
      <4>1. rd.frame \in 1 .. wr.frame - 1
        BY <1>2, <2>1, <2>2, <3>2
      <4>2. S[rd.frame + 1] = S[rd.frame] + FrameCells(rd.frame)
        BY <1>1, <4>1 DEF Begins
      <4>3. FrameCells(rd.frame) \in Nat
        BY <2>2, FrameCellsLemma DEF IInv
      <4>4. S[wr'.frame] = ahead /\ S[rd'.frame] = behind + (rd.off + 1)
        BY <1>3, <2>1, <3>2, <4>2
      <4>5. inUse - 1 = (ahead + wr.off) - ((behind + (rd.off + 1)) + 0)
        BY <1>0, <1>3
      <4> QED BY <2>1, <3>2, <4>4, <4>5
    <3> QED BY <2>3, <3>1, <3>2
  <2>6. S \in [1 .. wr'.frame -> Nat]
    BY <2>1
  <2> QED BY <2>4, <2>5, <2>6 DEF PipeOK
<1>6. CASE UNCHANGED <<script, wr, rd, inUse>>
  BY <1>6 DEF PipeOK, Begins, FrameCells
<1>7. CASE CloseStdin \/ GiveUp \/ ReadCell \/ Crash \/ EngineWorks \/ Terminated \/ UNCHANGED vars
  BY <1>6, <1>7 DEF CloseStdin, GiveUp, ReadCell, Crash, EngineWorks, Terminated, vars
<1>8. CASE InputEnds \/ ShutdownFrame \/ BeginDiscard \/ BeginPayload
  BY <1>6, <1>8 DEF InputEnds, ShutdownFrame, BeginDiscard, BeginPayload, Read
<1>9. CASE ServerAnswer
  BY <1>6, <1>9 DEF ServerAnswer, FinishDiscard, RejectHeader, RejectEmptyBody, RejectBody,
     StartBatch, ImageDone, ImageSucceeded, ImageFails, ImageFailed, BatchDone, Reply
<1>10. CASE ServerWrite
  BY <1>6, <1>10 DEF ServerWrite, WriteReplyCell, Killed, DropReply, RecordOk, RecordedOk,
     RecordError, NextFrame
<1> QED BY <1>4, <1>5, <1>7, <1>8, <1>9, <1>10 DEF Next, Client, Server, ServerRead

\* Nothing has been written or read at first.
LEMMA InitPipeOK == Init => PipeOK
<1> SUFFICES ASSUME Init PROVE PipeOK
  OBVIOUS
<1> DEFINE S == [k \in 1 .. 1 |-> 0]
<1>1. /\ wr = [frame |-> 1, off |-> 0] /\ rd = wr /\ inUse = 0
      /\ S \in [1 .. wr.frame -> Nat] /\ S[1] = 0
  BY DEF Init
<1> HIDE DEF S
<1>2. Begins(S)
  BY <1>1 DEF Begins
<1> QED BY <1>1, <1>2 DEF PipeOK

LEMMA SpecIInv == Spec => []IInv
<1>1. Init => IInv /\ PipeOK
  BY InitIInv, InitPipeOK
<1>2. IInv /\ PipeOK /\ [Next]_vars => IInv' /\ PipeOK'
  BY NextIInv, NextPipeOK
<1> QED BY <1>1, <1>2, PTL DEF Spec

----------------------------------------------------------------------------
(* What follows *)

\* Types, and both pipes within their capacity: for stdin that is about the
\* distance between two ends that move on their own, past frames of any length.
THEOREM TypeCorrect == Spec => []TypeOK
BY SpecIInv, PTL DEF IInv

\* At the top of the loop the server is at the beginning of the frame after
\* the last one it answered, whatever the frames before it were.
THEOREM StaysInStep == Spec => []InStep
<1>1. IInv => InStep
  <2> SUFFICES ASSUME IInv, AtLoopTop PROVE rd.off = 0 /\ (~stdoutBad => rd.frame = Len(sent) + 1)
    BY DEF InStep
  <2>1. rd = At(base.frame, 0)
    BY ReadTypes DEF IInv, ReadOK, AtLoopTop
  <2>2. rd = [frame |-> base.frame, off |-> 0]
    BY <2>1 DEF At
  <2>3. ~stdoutBad => Len(sent) = base.frame - 1
    BY DEF IInv, AnswerOK, AtLoopTop
  <2> QED BY <2>2, <2>3, ReadTypes
<1> QED BY <1>1, SpecIInv, PTL

\* The protocol data of the service is that of the server.
LEMMA SameAnswers ==
  ASSUME NEW f
  PROVE  Service!Answers(f) = Answers(f) /\ Service!IsShutdown(f) = IsShutdown(f)
BY DEF Service!Answers, Answers, Service!Undersized, Undersized, Service!Oversized, Oversized,
   Service!HeaderAccepted, HeaderAccepted, Service!Magic, Magic, Service!Version, Version,
   Service!RequestType, RequestType, Service!Failure, Failure, Service!Success, Success,
   Service!IsShutdown, IsShutdown

LEMMA InitService == Init => Service!Init
BY DEF Init, Service!Init, ServerGone

\* Only the last cell of a response is an Answer of the service, and only the
\* end of the loop or a broken stdout is a Stop; everything else is hidden.
LEMMA NextService == IInv /\ [Next]_vars => [Service!Next]_Service!vars
<1> SUFFICES ASSUME IInv, [Next]_vars PROVE [Service!Next]_Service!vars
  OBVIOUS
<1> USE DEF clientVars, metricVars, pipeVars, serverVars
<1>1. CASE WriteReplyCell /\ toFlush = 1
  <2> DEFINE n == base.frame
  <2>1. /\ pc = "writing" /\ pc' = "record" /\ stdoutBad = FALSE /\ stdoutBad' = FALSE
        /\ script' = script /\ sent' = Append(sent, reply)
    BY <1>1 DEF WriteReplyCell, IInv, TypeOK
  <2>2. n \in 1 .. Len(script) /\ script[n].len > 0
    BY <2>1, ReadTypes DEF IInv, ReadOK
  <2>3. Len(sent) = n - 1 /\ reply \in Answers(script[n])
    BY <2>1 DEF IInv, AnswerOK
  <2>4. Len(sent) + 1 = n /\ Len(sent) < Len(script)
    BY <2>2, <2>3, ReadTypes
  <2>5. ~IsShutdown(script[n])
    BY <2>2 DEF IsShutdown
  <2> QED BY <2>1, <2>3, <2>4, <2>5, SameAnswers DEF Service!Next, Service!Answer, ServerGone
<1>2. CASE InputEnds \/ ShutdownFrame \/ Killed
  BY <1>2 DEF InputEnds, ShutdownFrame, Killed, Reading, HasLength, ServerGone,
     Service!Next, Service!Stop, Service!vars
<1>3. CASE DropReply
  BY <1>3 DEF DropReply, ServerGone, Service!Next, Service!Stop, Service!vars
<1>4. CASE WriteReplyCell /\ toFlush # 1
  BY <1>4 DEF WriteReplyCell, ServerGone, Service!vars
<1>5. CASE Client \/ Terminated \/ UNCHANGED vars
  BY <1>5 DEF Client, WriteCell, CloseStdin, GiveUp, ReadCell, Crash, Terminated, vars,
     ServerGone, Service!vars
<1>6. CASE TakeCell \/ BeginDiscard \/ BeginPayload
  BY <1>6 DEF TakeCell, BeginDiscard, BeginPayload, Read, Reading, HasLength, ServerGone,
     Service!vars
<1>7. CASE ServerAnswer
  <2>1. pc \in {"discard", "payload", "batch"} /\ pc' \in {"batch", "writing"}
        /\ UNCHANGED <<script, sent, stdoutBad>>
    <3>1. CASE FinishDiscard BY <3>1 DEF FinishDiscard, Reply
    <3>2. CASE RejectHeader BY <3>2 DEF RejectHeader, HasPayload, Reply
    <3>3. CASE RejectEmptyBody BY <3>3 DEF RejectEmptyBody, HasPayload, Reply
    <3>4. CASE RejectBody BY <3>4 DEF RejectBody, HasPayload, Reply
    <3>5. CASE StartBatch BY <3>5 DEF StartBatch, HasPayload
    <3>6. CASE ImageDone BY <3>6 DEF ImageDone, ImageSucceeded, InBatch
    <3>7. CASE ImageFails BY <3>7 DEF ImageFails, ImageFailed, InBatch, Reply
    <3>8. CASE BatchDone BY <3>8 DEF BatchDone, Reply
    <3> QED BY <1>7, <3>1, <3>2, <3>3, <3>4, <3>5, <3>6, <3>7, <3>8 DEF ServerAnswer
  <2> QED BY <2>1 DEF ServerGone, Service!vars
<1>8. CASE RecordOk \/ RecordError
  BY <1>8 DEF RecordOk, RecordedOk, RecordError, NextFrame, ServerGone, Service!vars
<1>9. CASE EngineWorks
  BY <1>9 DEF EngineWorks, ServerGone, Service!vars
<1> QED BY <1>1, <1>2, <1>3, <1>4, <1>5, <1>6, <1>7, <1>8, <1>9
        DEF Next, Server, ServerRead, ServerWrite

\* The keep-alive server implements the framed service.
THEOREM ServiceImplemented == Spec => ImplementsService
BY InitService, NextService, SpecIInv, PTL DEF Spec, ImplementsService, Service!Spec

----------------------------------------------------------------------------
(* The exit *)

\* How the loop ended: at a shutdown frame, or where the client stopped writing.
ExitOK ==
  pc = "exited" =>
    \/ base.frame <= Len(script) /\ IsShutdown(script[base.frame])
    \/ stdinClosed /\ wr.frame = base.frame

\* A read that wants more cells has not left its frame.
LEMMA UnfinishedRead ==
  ASSUME IInv, Reading, need > 0
  PROVE  rd.frame = base.frame
<1>1. CASE pc = "length" /\ base.frame = Len(script) + 1
  <2>1. WordCells - need = 0
    BY <1>1, ReadTypes DEF IInv, ReadOK
  <2>2. rd = At(base.frame, 0)
    BY <1>1, <2>1 DEF IInv, ReadOK
  <2> QED BY <2>2 DEF At
<1>2. CASE pc = "length" /\ base.frame \in 1 .. Len(script)
  <2> DEFINE n == WordCells - need
  <2>1. n \in Nat /\ n < WordCells /\ rd = At(base.frame, n)
    BY <1>2, ReadTypes DEF IInv, ReadOK
  <2>2. n < FrameCells(base.frame)
    BY <1>2, <2>1, FrameCellsLemma, ReadTypes DEF IInv
  <2>3. At(base.frame, n) = [frame |-> base.frame, off |-> n]
    BY <1>2, <2>1, <2>2, AfterAt DEF IInv
  <2> QED BY <2>1, <2>3
<1>3. CASE pc \in {"discard", "payload"}
  <2> DEFINE n == WordCells + message_len - need
  <2>1. base.frame \in 1 .. Len(script) /\ rd = At(base.frame, n)
        /\ message_len = script[base.frame].len /\ need <= message_len
    BY <1>3, ReadTypes DEF IInv, ReadOK
  <2>2. n \in Nat /\ n < FrameCells(base.frame)
    BY <2>1, FrameCellsLemma, ReadTypes DEF IInv
  <2>3. At(base.frame, n) = [frame |-> base.frame, off |-> n]
    BY <2>1, <2>2, AfterAt DEF IInv
  <2> QED BY <2>1, <2>3
<1> QED BY <1>1, <1>2, <1>3, ReadTypes DEF Reading, IInv, ReadOK

LEMMA NextExitOK == IInv /\ ExitOK /\ [Next]_vars => ExitOK'
<1> SUFFICES ASSUME IInv, ExitOK, [Next]_vars PROVE ExitOK'
  OBVIOUS
<1> USE DEF clientVars, metricVars, pipeVars, serverVars
<1>1. CASE InputEnds
  <2>1. rd.frame = base.frame /\ rd = wr /\ stdinClosed
    BY <1>1, UnfinishedRead DEF InputEnds, HasCells
  <2> QED BY <1>1, <2>1 DEF InputEnds, ExitOK
<1>2. CASE ShutdownFrame
  <2>1. base.frame <= Len(script) /\ script[base.frame].len = 0
    BY <1>2, InStepReads, ReadTypes DEF ShutdownFrame, HasLength, IInv, ReadOK
  <2> QED BY <1>2, <2>1 DEF ShutdownFrame, ExitOK, IsShutdown
<1>3. CASE WriteCell
  BY <1>3 DEF WriteCell, ServerGone, ExitOK
<1>4. CASE CloseStdin \/ GiveUp \/ ReadCell \/ Crash \/ Terminated \/ UNCHANGED vars
  BY <1>4 DEF CloseStdin, GiveUp, ReadCell, Crash, Terminated, vars, ExitOK
<1>5. CASE TakeCell \/ BeginDiscard \/ BeginPayload \/ ServerAnswer \/ ServerWrite
  <2>1. pc' # "exited"
    <3>1. CASE TakeCell BY <3>1 DEF TakeCell, Reading
    <3>2. CASE BeginDiscard \/ BeginPayload BY <3>2 DEF BeginDiscard, BeginPayload, Read
    <3>3. CASE ServerAnswer
      BY <3>3 DEF ServerAnswer, FinishDiscard, RejectHeader, RejectEmptyBody, RejectBody,
         StartBatch, ImageDone, ImageSucceeded, ImageFails, ImageFailed, BatchDone, InBatch,
         Reply
    <3>4. CASE ServerWrite
      BY <3>4 DEF ServerWrite, WriteReplyCell, Killed, DropReply, RecordOk, RecordedOk,
         RecordError, NextFrame
    <3> QED BY <1>5, <3>1, <3>2, <3>3, <3>4
  <2> QED BY <2>1 DEF ExitOK
<1>6. CASE EngineWorks
  BY <1>6 DEF EngineWorks, ExitOK
<1> QED BY <1>1, <1>2, <1>3, <1>4, <1>5, <1>6 DEF Next, Client, Server, ServerRead

\* The loop ends at a shutdown frame or at the end of its input, and no complete
\* frame before that is left without its response.
THEOREM ExitsCleanly == Spec => []ExitIsClean
<1>1. Init => ExitOK
  BY DEF Init, ExitOK
<1>2. IInv /\ ExitOK => ExitIsClean
  <2> SUFFICES ASSUME IInv, ExitOK, pc = "exited" PROVE ExitIsClean
    BY DEF ExitIsClean
  <2>1. stdinClosed \/ IsShutdown(script[base.frame])
    BY DEF ExitOK
  <2>2. ASSUME ~stdoutBad, NEW k \in DOMAIN script, Written(k),
               \A j \in 1 .. k : ~IsShutdown(script[j])
        PROVE  Len(sent) >= k
    <3>1. k \in Nat /\ k >= 1 /\ base.frame \in 1 .. Len(script) + 1 /\ wr.frame \in Nat
      BY ReadTypes, ScriptAssumption DEF IInv, ReadOK, TypeOK, Position
    <3>2. Len(sent) = base.frame - 1
      BY <2>2 DEF IInv, AnswerOK
    <3>3. k < base.frame
      <4>1. CASE base.frame <= Len(script) /\ IsShutdown(script[base.frame])
        BY <2>2, <3>1, <4>1, ReadTypes
      <4>2. CASE stdinClosed /\ wr.frame = base.frame
        BY <2>2, <3>1, <4>2 DEF Written
      <4> QED BY <4>1, <4>2 DEF ExitOK
    <3> QED BY <3>1, <3>2, <3>3, ReadTypes
  <2> QED BY <2>1, <2>2 DEF ExitIsClean
<1> QED BY <1>1, <1>2, NextExitOK, SpecIInv, PTL DEF Spec

----------------------------------------------------------------------------
(* The pools *)

\* From the end of one request to the start of the next batch.
PoolsOK ==
  (pc \in {"length", "discard", "payload"} /\ poolsDirty) => reply.status # Ok

LEMMA NextPoolsOK == IInv /\ PoolsOK /\ [Next]_vars => PoolsOK'
<1> SUFFICES ASSUME IInv, PoolsOK, [Next]_vars PROVE PoolsOK'
  OBVIOUS
<1> USE DEF clientVars, metricVars, pipeVars, serverVars
<1>1. CASE Client \/ Terminated \/ UNCHANGED vars
  BY <1>1 DEF Client, WriteCell, CloseStdin, GiveUp, ReadCell, Crash, Terminated, vars, PoolsOK
<1>2. CASE ServerRead
  BY <1>2 DEF ServerRead, TakeCell, InputEnds, ShutdownFrame, BeginDiscard, BeginPayload,
     Read, HasLength, Reading, PoolsOK
<1>3. CASE ServerAnswer \/ EngineWorks
  <2>1. pc' \in {"batch", "writing", "exited"}
    BY <1>3 DEF ServerAnswer, FinishDiscard, RejectHeader, RejectEmptyBody, RejectBody,
       StartBatch, ImageDone, ImageSucceeded, ImageFails, ImageFailed, BatchDone, EngineWorks,
       InBatch, Reply
  <2> QED BY <2>1 DEF PoolsOK
<1>4. CASE WriteReplyCell \/ Killed \/ DropReply
  <2>1. pc' \in {"writing", "record", "killed"}
    BY <1>4 DEF WriteReplyCell, Killed, DropReply
  <2> QED BY <2>1 DEF PoolsOK
<1>5. CASE RecordOk
  BY <1>5 DEF RecordOk, PoolsOK
<1>6. CASE RecordError
  BY <1>6 DEF RecordError, NextFrame, PoolsOK
<1> QED BY <1>1, <1>2, <1>3, <1>4, <1>5, <1>6 DEF Next, Server, ServerWrite

\* The engine's pools hold memory at the top of the loop only after a request
\* that failed.
THEOREM PoolsOnlyAfterFailure == Spec => []PoolsKeptOnlyByFailure
<1>1. Init => PoolsOK
  BY DEF Init, PoolsOK
<1>2. PoolsOK => PoolsKeptOnlyByFailure
  BY DEF PoolsOK, PoolsKeptOnlyByFailure, AtLoopTop
<1> QED BY <1>1, <1>2, NextPoolsOK, SpecIInv, PTL DEF Spec

----------------------------------------------------------------------------
(* The counters *)

\* While stdout works, the counters lag behind the responses by the one that
\* is written and not yet recorded.
UnrecordedOk == IF pc = "record" /\ reply.status = Ok THEN 1 ELSE 0
UnrecordedError == IF pc = "record" /\ reply.status # Ok THEN 1 ELSE 0
MetricsOK ==
  /\ handled = processed
  /\ ~stdoutBad =>
       /\ Cardinality(OkSent) = processed + UnrecordedOk
       /\ Len(sent) - Cardinality(OkSent) = errors + UnrecordedError

LEMMA OkSentFinite ==
  ASSUME TypeOK
  PROVE  IsFiniteSet(OkSent) /\ Cardinality(OkSent) \in Nat
<1>1. Len(sent) \in Nat /\ DOMAIN sent = 1 .. Len(sent)
  BY DEF TypeOK
<1>2. IsFiniteSet(1 .. Len(sent))
  BY <1>1, FS_Interval
<1>3. IsFiniteSet(OkSent)
  BY <1>1, <1>2, FS_Subset DEF OkSent
<1> QED BY <1>3, FS_CardinalityType

\* One more response adds one to the set if it is a success.
LEMMA OkSentGrows ==
  ASSUME TypeOK, sent' = Append(sent, reply)
  PROVE  /\ Len(sent') = Len(sent) + 1
         /\ reply.status = Ok => Cardinality(OkSent') = Cardinality(OkSent) + 1
         /\ reply.status # Ok => Cardinality(OkSent') = Cardinality(OkSent)
<1> DEFINE n == Len(sent)
<1>1. n \in Nat /\ DOMAIN sent = 1 .. n /\ sent \in Seq(Response)
  BY DEF TypeOK
<1>2. Len(sent') = n + 1 /\ DOMAIN sent' = 1 .. n + 1
  BY <1>1
<1>3. sent'[n + 1] = reply /\ \A k \in 1 .. n : sent'[k] = sent[k]
  BY <1>1
<1>4. CASE reply.status = Ok
  <2>1. OkSent' = OkSent \cup {n + 1}
    BY <1>1, <1>2, <1>3, <1>4 DEF OkSent
  <2>2. n + 1 \notin OkSent
    BY <1>1 DEF OkSent
  <2>3. Cardinality(OkSent \cup {n + 1}) = Cardinality(OkSent) + 1
    BY <2>2, OkSentFinite, FS_AddElement
  <2> QED BY <1>2, <1>4, <2>1, <2>3
<1>5. CASE reply.status # Ok
  <2>1. OkSent' = OkSent
    BY <1>1, <1>2, <1>3, <1>5 DEF OkSent
  <2> QED BY <1>2, <1>5, <2>1
<1> QED BY <1>4, <1>5

\* Every frame behind the server is counted.
FramesCounted == processed + errors = base.frame - 1

LEMMA NextFramesCounted == IInv /\ FramesCounted /\ [Next]_vars => FramesCounted'
<1> SUFFICES ASSUME IInv, FramesCounted, [Next]_vars PROVE FramesCounted'
  OBVIOUS
<1> USE DEF clientVars, metricVars, pipeVars, serverVars
<1>1. base.frame \in Nat /\ processed \in Nat /\ errors \in Nat
  BY ReadTypes DEF IInv, TypeOK
<1>2. CASE RecordOk \/ RecordError
  <2>1. base'.frame = base.frame + 1
    BY <1>2 DEF RecordOk, RecordedOk, RecordError, NextFrame, IInv, ReadOK
  <2>2. processed' + errors' = processed + errors + 1
    BY <1>1, <1>2 DEF RecordOk, RecordedOk, RecordError
  <2> QED BY <1>1, <2>1, <2>2 DEF FramesCounted
<1>3. CASE UNCHANGED <<base, processed, errors>>
  BY <1>3 DEF FramesCounted
<1>4. CASE Client \/ EngineWorks \/ Terminated \/ UNCHANGED vars
  BY <1>3, <1>4 DEF Client, WriteCell, CloseStdin, GiveUp, ReadCell, Crash, EngineWorks,
     Terminated, vars
<1>5. CASE ServerRead
  BY <1>3, <1>5 DEF ServerRead, TakeCell, InputEnds, ShutdownFrame, BeginDiscard, BeginPayload,
     Read
<1>6. CASE ServerAnswer
  BY <1>3, <1>6 DEF ServerAnswer, FinishDiscard, RejectHeader, RejectEmptyBody, RejectBody,
     StartBatch, ImageDone, ImageSucceeded, ImageFails, ImageFailed, BatchDone, Reply
<1>7. CASE WriteReplyCell \/ Killed \/ DropReply
  BY <1>3, <1>7 DEF WriteReplyCell, Killed, DropReply
<1> QED BY <1>2, <1>4, <1>5, <1>6, <1>7 DEF Next, Server, ServerWrite

LEMMA NextMetricsOK == IInv /\ MetricsOK /\ [Next]_vars => MetricsOK'
<1> SUFFICES ASSUME IInv, MetricsOK, [Next]_vars PROVE MetricsOK'
  OBVIOUS
<1> USE DEF clientVars, metricVars, pipeVars, serverVars
<1> DEFINE Still ==
      /\ UNCHANGED <<processed, errors, handled, sent, stdoutBad>>
      /\ pc = "record" <=> pc' = "record"
      /\ pc = "record" => reply' = reply
<1>1. ASSUME Still PROVE MetricsOK'
  BY <1>1 DEF MetricsOK, UnrecordedOk, UnrecordedError, OkSent
<1> HIDE DEF Still
<1>2. CASE Client \/ Terminated \/ UNCHANGED vars
  <2>1. Still
    BY <1>2 DEF Still, Client, WriteCell, CloseStdin, GiveUp, ReadCell, Crash, Terminated, vars
  <2> QED BY <1>1, <2>1
<1>3. CASE ServerRead
  <2>1. Still
    BY <1>3 DEF Still, ServerRead, TakeCell, InputEnds, ShutdownFrame, BeginDiscard,
       BeginPayload, Read, HasLength, Reading
  <2> QED BY <1>1, <2>1
<1>4. CASE ServerAnswer \/ EngineWorks
  <2>1. Still
    BY <1>4 DEF Still, ServerAnswer, FinishDiscard, RejectHeader, RejectEmptyBody, RejectBody,
       HasPayload, StartBatch, ImageDone, ImageSucceeded, ImageFails, ImageFailed, BatchDone,
       EngineWorks, InBatch, Reply
  <2> QED BY <1>1, <2>1
<1>5. CASE Killed \/ (WriteReplyCell /\ toFlush # 1)
  <2>1. Still
    BY <1>5 DEF Still, Killed, WriteReplyCell
  <2> QED BY <1>1, <2>1
<1>6. CASE DropReply
  BY <1>6 DEF DropReply, MetricsOK
<1> DEFINE c == Cardinality(OkSent)  n == Len(sent)
<1>7. /\ c \in Nat /\ n \in Nat
      /\ processed \in Nat /\ errors \in Nat /\ handled \in Nat
  BY OkSentFinite DEF IInv, TypeOK
<1>8. CASE WriteReplyCell /\ toFlush = 1
  <2>1. /\ pc = "writing" /\ pc' = "record" /\ reply' = reply /\ stdoutBad' = stdoutBad
        /\ sent' = Append(sent, reply)
        /\ processed' = processed /\ errors' = errors /\ handled' = handled
    BY <1>8 DEF WriteReplyCell
  <2>2. /\ Len(sent') = n + 1
        /\ reply.status = Ok => Cardinality(OkSent') = c + 1
        /\ reply.status # Ok => Cardinality(OkSent') = c
    BY <2>1, OkSentGrows DEF IInv
  <2>3. handled = processed /\ (~stdoutBad => c = processed /\ n - c = errors)
    BY <1>7, <2>1 DEF MetricsOK, UnrecordedOk, UnrecordedError
  <2> HIDE DEF c, n
  <2>4. CASE reply.status = Ok
    <3>1. UnrecordedOk' = 1 /\ UnrecordedError' = 0
      BY <2>1, <2>4 DEF UnrecordedOk, UnrecordedError
    <3> QED BY <1>7, <2>1, <2>2, <2>3, <2>4, <3>1 DEF MetricsOK
  <2>5. CASE reply.status # Ok
    <3>1. UnrecordedOk' = 0 /\ UnrecordedError' = 1
      BY <2>1, <2>5 DEF UnrecordedOk, UnrecordedError
    <3> QED BY <1>7, <2>1, <2>2, <2>3, <2>5, <3>1 DEF MetricsOK
  <2> QED BY <2>4, <2>5
<1>9. CASE RecordOk \/ RecordError
  <2>1. pc = "record" /\ pc' = "length" /\ sent' = sent /\ stdoutBad' = stdoutBad
    BY <1>9 DEF RecordOk, RecordedOk, RecordError, NextFrame
  <2>2. UnrecordedOk' = 0 /\ UnrecordedError' = 0 /\ OkSent' = OkSent
    BY <2>1 DEF UnrecordedOk, UnrecordedError, OkSent
  <2>3. CASE RecordOk
    <3>1. /\ reply.status = Ok /\ processed' = processed + 1 /\ handled' = handled + 1
          /\ errors' = errors
      BY <2>3 DEF RecordOk, RecordedOk
    <3>2. UnrecordedOk = 1 /\ UnrecordedError = 0
      BY <2>1, <3>1 DEF UnrecordedOk, UnrecordedError
    <3> QED BY <1>7, <2>1, <2>2, <3>1, <3>2 DEF MetricsOK
  <2>4. CASE RecordError
    <3>1. /\ reply.status # Ok /\ processed' = processed /\ handled' = handled
          /\ errors' = errors + 1
      BY <2>4 DEF RecordError
    <3>2. UnrecordedOk = 0 /\ UnrecordedError = 1
      BY <2>1, <3>1 DEF UnrecordedOk, UnrecordedError
    <3> QED BY <1>7, <2>1, <2>2, <3>1, <3>2 DEF MetricsOK
  <2> QED BY <1>9, <2>3, <2>4
<1> QED BY <1>2, <1>3, <1>4, <1>5, <1>6, <1>8, <1>9 DEF Next, Server, ServerWrite

\* The counters of the summary at the top of the loop count every frame once and,
\* while stdout works, are those of the responses.
THEOREM CountersMatch == Spec => []MetricsMatch
<1>1. Init => MetricsOK
  <2> SUFFICES ASSUME Init PROVE MetricsOK
    OBVIOUS
  <2>1. OkSent = {} /\ Len(sent) = 0 /\ pc = "length"
        /\ processed = 0 /\ errors = 0 /\ handled = 0
    BY DEF Init, OkSent
  <2>2. Cardinality(OkSent) = 0
    BY <2>1, FS_EmptySet
  <2> QED BY <2>1, <2>2 DEF MetricsOK, UnrecordedOk, UnrecordedError
<1>2. IInv /\ MetricsOK /\ FramesCounted => MetricsMatch
  <2> SUFFICES ASSUME IInv, MetricsOK, FramesCounted, AtLoopTop
               PROVE  /\ processed + errors = rd.frame - 1
                      /\ handled = processed
                      /\ ~stdoutBad => /\ processed = Cardinality(OkSent)
                                       /\ errors = Len(sent) - Cardinality(OkSent)
    BY DEF MetricsMatch
  <2>1. UnrecordedOk = 0 /\ UnrecordedError = 0
    BY DEF UnrecordedOk, UnrecordedError, AtLoopTop
  <2>2. processed \in Nat /\ errors \in Nat
    BY DEF IInv, TypeOK
  <2>3. rd.frame = base.frame
    BY ReadTypes DEF IInv, ReadOK, AtLoopTop, At
  <2> QED BY <2>1, <2>2, <2>3 DEF MetricsOK, FramesCounted
<1>3. Init => FramesCounted
  BY DEF Init, FramesCounted
<1> QED BY <1>1, <1>2, <1>3, NextMetricsOK, NextFramesCounted, SpecIInv, PTL DEF Spec
=============================================================================
