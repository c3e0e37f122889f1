--------------------------- MODULE KeepAliveEngine ---------------------------
(***************************************************************************)
(* The whole process in keep-alive mode: main makes the engine, runs the   *)
(* loop of KeepAlive with the engine of Engine behind process_single and   *)
(* clear_allocators, and gives the engine back when the loop is over.      *)
(*                                                                         *)
(* process_single is process_with_tiling: it decodes an image, sends one   *)
(* tile after the other through process_image (an image that needs no      *)
(* tiling is a single one) and encodes the result.  The pools of the loop  *)
(* are those the engine works with.                                        *)
(***************************************************************************)
EXTENDS Integers, Sequences, ProtocolStatus

CONSTANTS
  Scripts, WordCells, PipeIn, PipeOut, Disciplines,    \* of KeepAlive
  HeaderSize, MaxMessageBytes, RequestIds,             \* of ProtocolV2
  GpuIds, Devices, ModelRoots, MaxImages,              \* of Engine
  MaxTiles                                             \* bound: tiles of an image

ASSUME EngineSettings ==
  /\ GpuIds \subseteq Int
  /\ Devices \subseteq Nat
  /\ ModelRoots \subseteq BOOLEAN
  /\ MaxImages \in Nat

VARIABLES
  script, discipline, alive, wr, received, inUse, stdinClosed, stdout,
  pc, base, rd, need, message_len, outputs, reply, toFlush, sent, stdoutBad,
  processed, errors, handled, sigpipeIgnored,          \* of KeepAlive
  device_id, devices, hasRoot, phase, eng, device, images,  \* of Engine
  stage,         \* what process_with_tiling does next: "decode", "tiles" or "encode"
  tiles          \* the tiles of the image still to be done

Eng == INSTANCE Engine

PoolsInUse == IF eng.use_vulkan THEN eng.vk_pool ELSE eng.cpu_pool
Loop == INSTANCE KeepAlive WITH poolsDirty <- PoolsInUse

imageVars == <<stage, tiles>>
loopVars == <<script, discipline, alive, wr, received, inUse, stdinClosed, stdout, pc, base, rd,
              need, message_len, outputs, reply, toFlush, sent, stdoutBad,
              processed, errors, handled, sigpipeIgnored>>
engineVars == <<device_id, devices, hasRoot, phase, eng, device, images>>
vars == <<loopVars, engineVars, imageVars>>

Init ==
  /\ Eng!Init
  /\ Loop!Init
  /\ stage = "decode"
  /\ tiles = 0

----------------------------------------------------------------------------
(* main: before and after the loop *)

\* make_engine; if it fails main returns, and nobody ever reads stdin.
MakeEngine ==
  /\ \/ Eng!InitNoModelRoot \/ Eng!InitVulkan \/ Eng!InitCpu
     \/ Eng!ModelLoads \/ Eng!ModelMissing
     \/ Eng!DestroyFailedEngine
  /\ UNCHANGED <<loopVars, imageVars>>

\* Only a loop that returned comes to the destructors: SIGPIPE runs none.
GiveBack ==
  /\ \/ pc = "exited" /\ (Eng!DestroyEngine \/ Eng!DestroyGpuInstance)
     \/ Eng!DestroyMembers
  /\ UNCHANGED <<loopVars, imageVars>>

----------------------------------------------------------------------------
(* The client: it does not know what the process is doing *)

WriteCell == phase # "exited" /\ UNCHANGED <<engineVars, imageVars>> /\ Loop!WriteCell
CloseStdin == UNCHANGED <<engineVars, imageVars>> /\ Loop!CloseStdin
ReadCell == UNCHANGED <<engineVars, imageVars>> /\ Loop!ReadCell
GiveUp == UNCHANGED <<engineVars, imageVars>> /\ Loop!GiveUp
Crash == UNCHANGED <<engineVars, imageVars>> /\ Loop!Crash

----------------------------------------------------------------------------
(* The loop, where it does not call the engine *)

LoopStep ==
  /\ phase = "idle" /\ stage = "decode"
  /\ UNCHANGED <<engineVars, imageVars>>
  /\ \/ Loop!ServerRead
     \/ Loop!FinishDiscard \/ Loop!RejectHeader \/ Loop!RejectEmptyBody \/ Loop!RejectBody
     \/ Loop!StartBatch \/ Loop!BatchDone
     \/ Loop!WriteReplyCell \/ Loop!Killed \/ Loop!DropReply \/ Loop!RecordError

RecordOk ==
  /\ Eng!ClearAllocators
  /\ Loop!RecordedOk
  /\ UNCHANGED imageVars

----------------------------------------------------------------------------
(* process_with_tiling *)

Decode ==
  /\ phase = "idle"
  /\ stage = "decode"
  /\ Loop!InBatch
  /\ tiles' \in 1 .. MaxTiles
  /\ stage' = "tiles"
  /\ UNCHANGED <<loopVars, engineVars>>

StartTile ==
  /\ stage = "tiles"
  /\ Eng!StartImage
  /\ UNCHANGED <<loopVars, imageVars>>

Infer ==
  /\ Eng!InferenceSucceeds \/ Eng!FallBackToCpu
  /\ UNCHANGED <<loopVars, imageVars>>

TileDone ==
  /\ Eng!ImageDone
  /\ tiles' = tiles - 1
  /\ stage' = IF tiles = 1 THEN "encode" ELSE "tiles"
  /\ UNCHANGED loopVars

\* One tile fails: process_single returns false.
TileFails ==
  /\ Eng!InferenceFails \/ Eng!ImageThrows
  /\ Loop!ImageFailed
  /\ stage' = "decode" /\ tiles' = 0

\* So it does when the bytes are no image, or cutting, blending or encoding fails.
ImageRefused ==
  /\ phase = "idle"
  /\ Loop!ImageFailed
  /\ stage' = "decode" /\ tiles' = 0
  /\ UNCHANGED engineVars

Encode ==
  /\ phase = "idle"
  /\ stage = "encode"
  /\ Loop!ImageSucceeded
  /\ stage' = "decode"
  /\ UNCHANGED <<engineVars, tiles>>

----------------------------------------------------------------------------
Terminated ==
  /\ phase = "exited" \/ pc = "killed"
  /\ stdinClosed
  /\ stdout = <<>>
  /\ UNCHANGED vars

ProcessImage == Decode \/ StartTile \/ Infer \/ TileDone \/ TileFails \/ ImageRefused \/ Encode
Process == MakeEngine \/ LoopStep \/ ProcessImage \/ RecordOk \/ GiveBack

Client == WriteCell \/ CloseStdin \/ GiveUp \/ ReadCell \/ Crash

Next == Client \/ Process \/ Terminated

Spec == Init /\ [][Next]_vars

\* The process is one thread; its client goes on as that of KeepAlive does.
Fairness ==
  /\ WF_vars(Process)
  /\ WF_vars(WriteCell)
  /\ WF_vars(CloseStdin)
  /\ WF_vars(ReadCell)

FairSpec == Spec /\ Fairness

----------------------------------------------------------------------------
(* Properties *)

\* With the real engine behind it the loop is still the loop of KeepAlive: what
\* a batch leaves in the pools stays within its calls of the engine, and
\* clear_allocators empties those in use, also after a fall back to the CPU in the
\* middle of a batch.
ImplementsLoop == Loop!Spec

\* Between requests the CPU pools are empty, and the Vulkan pools hold memory only
\* after a request that failed or, until the process ends, after a fall back:
\* clear_allocators can then not reach them any more.
MemoryBetweenRequests ==
  (Loop!AtLoopTop /\ phase = "idle") =>
    /\ ~eng.cpu_pool
    /\ eng.vk_pool => reply.status # Ok \/ ~eng.use_vulkan

\* main returned before the loop: there is nobody to answer.
NeverServed == phase \in {"initFailed", "failedMembersGo", "exited"} /\ ~Loop!ServerGone

\* Every complete frame is answered, whatever the engine does to the images and
\* whenever it falls back: no image is tried for ever.
RequestsAnswered ==
  \A k \in Loop!FrameIndices :
    Loop!Complete(k) ~> (received >= k \/ ~alive \/ NeverServed)
=============================================================================
