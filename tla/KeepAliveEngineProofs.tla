------------------------ MODULE KeepAliveEngineProofs ------------------------
(***************************************************************************)
(* The keep-alive process with the real engine behind it implements the    *)
(* loop of KeepAlive, and what it keeps in the pools between two requests. *)
(* The engine's own invariant (EngineProofs) holds of the composition,     *)
(* because each of its steps is a step of Engine or leaves the engine      *)
(* alone; what is added says where in the loop the engine is called        *)
(* (CallsOK) and which pools hold memory there (PoolsOK).                  *)
(***************************************************************************)
EXTENDS KeepAliveEngine, TLAPS

USE DEF Ok, Loop!Ok

Engines == INSTANCE EngineProofs

----------------------------------------------------------------------------
(* The composition takes the steps of the engine *)

LEMMA Settings == Engines!EngineAssumption
BY EngineSettings DEF Engines!EngineAssumption

LEMMA SameEngineInit == Eng!Init => Engines!Init
BY DEF Eng!Init, Engines!Init, Eng!NewEngine, Engines!NewEngine, Eng!Null, Engines!Null

\* Engine and EngineProofs give every step of the engine the same meaning.
LEMMA SameInit ==
  Eng!InitNoModelRoot \/ Eng!InitVulkan \/ Eng!InitCpu \/ Eng!ModelLoads \/ Eng!ModelMissing
    => Engines!Next
<1> USE DEF Eng!config, Engines!config
<1>1. Eng!InitNoModelRoot => Engines!InitNoModelRoot
  BY DEF Eng!InitNoModelRoot, Engines!InitNoModelRoot
<1>2. Eng!InitVulkan => Engines!InitVulkan
  BY DEF Eng!InitVulkan, Engines!InitVulkan, Eng!SetupVulkanAllocators,
     Engines!SetupVulkanAllocators, Eng!ApplyIgpuProfile, Engines!ApplyIgpuProfile,
     Eng!Defaults, Engines!Defaults, Eng!Present, Engines!Present, Eng!Blob, Engines!Blob,
     Eng!Staging, Engines!Staging
<1>3. Eng!InitCpu => Engines!InitCpu
  BY DEF Eng!InitCpu, Engines!InitCpu, Eng!ApplyCpuLowMemProfile,
     Engines!ApplyCpuLowMemProfile, Eng!SetupCpuAllocators, Engines!SetupCpuAllocators,
     Eng!EnsureCpuMode, Engines!EnsureCpuMode, Eng!Defaults, Engines!Defaults
<1>4. Eng!ModelLoads => Engines!ModelLoads
  BY DEF Eng!ModelLoads, Engines!ModelLoads
<1>5. Eng!ModelMissing => Engines!ModelMissing
  BY DEF Eng!ModelMissing, Engines!ModelMissing
<1> QED BY <1>1, <1>2, <1>3, <1>4, <1>5 DEF Engines!Next

LEMMA SameInference ==
  Eng!StartImage \/ Eng!InferenceSucceeds \/ Eng!FallBackToCpu => Engines!Next
<1> USE DEF Eng!config, Engines!config, Eng!Inferring, Engines!Inferring,
        Eng!AfterInference, Engines!AfterInference, Eng!Null, Engines!Null
<1>1. Eng!StartImage => Engines!StartImage
  BY DEF Eng!StartImage, Engines!StartImage
<1>2. Eng!InferenceSucceeds => Engines!InferenceSucceeds
  BY DEF Eng!InferenceSucceeds, Engines!InferenceSucceeds
<1>3. Eng!FallBackToCpu => Engines!FallBackToCpu
  BY DEF Eng!FallBackToCpu, Engines!FallBackToCpu, Eng!ApplyCpuLowMemProfile,
     Engines!ApplyCpuLowMemProfile, Eng!SetupCpuAllocators, Engines!SetupCpuAllocators,
     Eng!EnsureCpuMode, Engines!EnsureCpuMode, Eng!ReleaseVulkanAllocators,
     Engines!ReleaseVulkanAllocators, Eng!Reclaim, Engines!Reclaim
<1> QED BY <1>1, <1>2, <1>3 DEF Engines!Next

LEMMA SameImageEnd ==
  Eng!InferenceFails \/ Eng!ImageThrows \/ Eng!ImageDone \/ Eng!ClearAllocators => Engines!Next
<1> USE DEF Eng!config, Engines!config, Eng!Inferring, Engines!Inferring,
        Eng!AfterInference, Engines!AfterInference, Eng!Null, Engines!Null,
        Eng!EndImage, Engines!EndImage, Eng!ReleaseMats, Engines!ReleaseMats,
        Eng!ClearCpuAllocators, Engines!ClearCpuAllocators
<1>1. Eng!InferenceFails => Engines!InferenceFails
  BY DEF Eng!InferenceFails, Engines!InferenceFails
<1>2. Eng!ImageThrows => Engines!ImageThrows
  BY DEF Eng!ImageThrows, Engines!ImageThrows
<1>3. Eng!ImageDone => Engines!ImageDone
  BY DEF Eng!ImageDone, Engines!ImageDone
<1>4. Eng!ClearAllocators => Engines!ClearAllocators
  BY DEF Eng!ClearAllocators, Engines!ClearAllocators
<1> QED BY <1>1, <1>2, <1>3, <1>4 DEF Engines!Next

LEMMA SameDestruction ==
  Eng!DestroyEngine \/ Eng!DestroyFailedEngine \/ Eng!DestroyMembers \/ Eng!DestroyGpuInstance
    => Engines!Next
<1> USE DEF Eng!config, Engines!config, Eng!Null, Engines!Null, Eng!Cleanup, Engines!Cleanup,
        Eng!Cleaned, Engines!Cleaned, Eng!Reclaim, Engines!Reclaim,
        Eng!ClearCpuAllocators, Engines!ClearCpuAllocators,
        Eng!ReleaseVulkanAllocators, Engines!ReleaseVulkanAllocators
<1>1. Eng!DestroyEngine => Engines!DestroyEngine
  BY DEF Eng!DestroyEngine, Engines!DestroyEngine
<1>2. Eng!DestroyFailedEngine => Engines!DestroyFailedEngine
  BY DEF Eng!DestroyFailedEngine, Engines!DestroyFailedEngine
<1>3. Eng!DestroyMembers => Engines!DestroyMembers
  BY DEF Eng!DestroyMembers, Engines!DestroyMembers
<1>4. Eng!DestroyGpuInstance => Engines!DestroyGpuInstance
  BY DEF Eng!DestroyGpuInstance, Engines!DestroyGpuInstance
<1> QED BY <1>1, <1>2, <1>3, <1>4 DEF Engines!Next

\* Every step of the process is a step of its engine, or leaves it alone.
LEMMA EngineSteps == [Next]_vars => [Engines!Next]_Engines!vars
<1> SUFFICES ASSUME [Next]_vars PROVE Engines!Next \/ UNCHANGED engineVars
  BY DEF Engines!vars, Engines!config, engineVars
<1>1. CASE Client \/ LoopStep \/ Terminated \/ UNCHANGED vars
  BY <1>1 DEF Client, WriteCell, CloseStdin, GiveUp, ReadCell, Crash, LoopStep, Terminated, vars
<1>2. CASE MakeEngine \/ GiveBack
  BY <1>2, SameInit, SameDestruction DEF MakeEngine, GiveBack
<1>3. CASE Decode \/ ImageRefused \/ Encode
  BY <1>3 DEF Decode, ImageRefused, Encode
<1>4. CASE StartTile \/ Infer
  BY <1>4, SameInference DEF StartTile, Infer
<1>5. CASE TileDone \/ TileFails \/ RecordOk
  BY <1>5, SameImageEnd DEF TileDone, TileFails, RecordOk
<1> QED BY <1>1, <1>2, <1>3, <1>4, <1>5 DEF Next, Process, ProcessImage

LEMMA EngineInvariant == Spec => []Engines!IInv
<1>1. Init => Engines!IInv
  BY SameEngineInit, Engines!InitIInv, Settings DEF Init
<1>2. Engines!IInv /\ [Next]_vars => Engines!IInv'
  BY EngineSteps, Engines!NextIInv, Settings
<1> QED BY <1>1, <1>2, PTL DEF Spec

----------------------------------------------------------------------------
(* Where in the loop the engine is at work, and on which pools *)

Early == {"init", "loading", "initFailed", "failedMembersGo"}

\* process_image runs inside a batch, and the destructors after the loop.
CallsOK ==
  /\ phase \in {"infer", "retry", "convert"} \/ stage # "decode" => Loop!InBatch
  /\ phase \in {"membersGo", "engineGone"} => pc = "exited"

\* Before the loop all pools are empty; Vulkan memory that clear_allocators cannot
\* reach is not in use; the CPU pools hold memory inside process_image only.
PoolsOK ==
  /\ phase \in Early => eng.vk_pool = FALSE /\ eng.cpu_pool = FALSE /\ eng.result = FALSE
  /\ eng.use_vulkan = TRUE =>
       /\ eng.vk_pool = TRUE => eng.blob_vk # "null"
       /\ eng.cpu_pool = FALSE /\ eng.result = FALSE
  /\ phase = "idle" => eng.cpu_pool = FALSE

PoolTypes ==
  /\ eng \in Engines!EngineState
  /\ eng.use_vulkan \in BOOLEAN /\ eng.vk_pool \in BOOLEAN /\ eng.cpu_pool \in BOOLEAN

LEMMA EngineTypes == Engines!IInv => PoolTypes
BY DEF Engines!IInv, Engines!TypeOK, Engines!EngineState, PoolTypes

\* What the steps of the engine do to the pools
LEMMA InitPools ==
  ASSUME PoolTypes, PoolsOK,
         Eng!InitNoModelRoot \/ Eng!InitVulkan \/ Eng!InitCpu \/ Eng!ModelLoads
           \/ Eng!ModelMissing \/ Eng!DestroyFailedEngine
  PROVE  PoolsOK' /\ phase \in Early /\ phase' \in Early \cup {"idle"}
         /\ eng'.vk_pool = FALSE /\ eng'.cpu_pool = FALSE
<1>1. CASE Eng!InitNoModelRoot \/ Eng!ModelLoads \/ Eng!ModelMissing
  BY <1>1 DEF Eng!InitNoModelRoot, Eng!ModelLoads, Eng!ModelMissing, PoolsOK, PoolTypes,
     Engines!EngineState, Early
<1>2. CASE Eng!InitVulkan
  BY <1>2 DEF Eng!InitVulkan, Eng!SetupVulkanAllocators, Eng!ApplyIgpuProfile, Eng!Defaults,
     PoolsOK, PoolTypes, Engines!EngineState, Early
<1>3. CASE Eng!InitCpu
  BY <1>3 DEF Eng!InitCpu, Eng!ApplyCpuLowMemProfile, Eng!SetupCpuAllocators,
     Eng!EnsureCpuMode, Eng!Defaults, PoolsOK, PoolTypes, Engines!EngineState, Early
<1>4. CASE Eng!DestroyFailedEngine
  BY <1>4 DEF Eng!DestroyFailedEngine, Eng!Cleanup, Eng!Cleaned, Eng!ClearCpuAllocators,
     Eng!ReleaseVulkanAllocators, PoolsOK, PoolTypes, Engines!EngineState, Early
<1> QED BY <1>1, <1>2, <1>3, <1>4

LEMMA InferencePools ==
  ASSUME PoolTypes, PoolsOK, Eng!StartImage \/ Eng!InferenceSucceeds \/ Eng!FallBackToCpu
  PROVE  PoolsOK' /\ phase' \in {"infer", "retry", "convert"}
<1>1. CASE Eng!StartImage
  BY <1>1 DEF Eng!StartImage, PoolsOK, Early
<1>2. CASE Eng!InferenceSucceeds
  BY <1>2 DEF Eng!InferenceSucceeds, Eng!AfterInference, Eng!Null, PoolsOK, PoolTypes,
     Engines!EngineState, Early
<1>3. CASE Eng!FallBackToCpu
  BY <1>3 DEF Eng!FallBackToCpu, Eng!ApplyCpuLowMemProfile, Eng!SetupCpuAllocators,
     Eng!EnsureCpuMode, Eng!ReleaseVulkanAllocators, Eng!AfterInference, PoolsOK, PoolTypes,
     Engines!EngineState, Early
<1> QED BY <1>1, <1>2, <1>3

LEMMA EndImagePools ==
  ASSUME NEW e \in Engines!EngineState
  PROVE  LET n == Eng!EndImage(e)
         IN  /\ n.use_vulkan = e.use_vulkan /\ n.vk_pool = e.vk_pool /\ n.blob_vk = e.blob_vk
             /\ e.use_vulkan = FALSE => n.cpu_pool = FALSE
             /\ n.result = FALSE
             /\ e.result = FALSE /\ e.cpu_pool = FALSE => n.cpu_pool = FALSE
BY DEF Eng!EndImage, Eng!ReleaseMats, Eng!ClearCpuAllocators, Engines!EngineState

LEMMA AfterInferencePools ==
  ASSUME NEW e \in Engines!EngineState
  PROVE  LET n == Eng!AfterInference(e)
         IN  /\ n \in Engines!EngineState
             /\ n.use_vulkan = e.use_vulkan /\ n.blob_vk = e.blob_vk /\ n.result = e.result
             /\ e.use_vulkan = TRUE =>
                  /\ n.cpu_pool = e.cpu_pool
                  /\ n.vk_pool = TRUE => e.vk_pool = TRUE \/ e.blob_vk # "null"
BY DEF Eng!AfterInference, Eng!Null, Engines!EngineState

LEMMA ImageEndPools ==
  ASSUME PoolTypes, PoolsOK, Eng!InferenceFails \/ Eng!ImageThrows \/ Eng!ImageDone
  PROVE  PoolsOK' /\ phase' = "idle"
<1>1. phase' = "idle" /\ eng' \in {Eng!EndImage(eng), Eng!EndImage(Eng!AfterInference(eng))}
  BY DEF Eng!InferenceFails, Eng!ImageThrows, Eng!ImageDone
<1>2. PICK e \in {eng, Eng!AfterInference(eng)} : eng' = Eng!EndImage(e)
  BY <1>1
<1>3. /\ e \in Engines!EngineState
      /\ e.use_vulkan = eng.use_vulkan /\ e.use_vulkan \in BOOLEAN
      /\ e.use_vulkan = TRUE =>
           /\ e.vk_pool = TRUE => e.blob_vk # "null"
           /\ e.cpu_pool = FALSE /\ e.result = FALSE
  BY AfterInferencePools DEF PoolTypes, PoolsOK
<1>4. /\ eng'.use_vulkan = e.use_vulkan /\ eng'.vk_pool = e.vk_pool /\ eng'.blob_vk = e.blob_vk
      /\ eng'.result = FALSE /\ eng'.cpu_pool = FALSE
  BY <1>2, <1>3, EndImagePools
<1> QED BY <1>1, <1>3, <1>4 DEF PoolsOK, Early

LEMMA ClearPools ==
  ASSUME PoolTypes, PoolsOK, Eng!ClearAllocators
  PROVE  PoolsOK' /\ PoolsInUse' = FALSE
BY DEF Eng!ClearAllocators, Eng!Null, PoolsOK, PoolTypes, PoolsInUse, Engines!EngineState, Early

LEMMA DestructionPools ==
  ASSUME PoolTypes, PoolsOK, Eng!DestroyEngine \/ Eng!DestroyMembers \/ Eng!DestroyGpuInstance
  PROVE  PoolsOK'
<1>1. CASE Eng!DestroyEngine
  BY <1>1 DEF Eng!DestroyEngine, Eng!Cleanup, Eng!Cleaned, Eng!ClearCpuAllocators,
     Eng!ReleaseVulkanAllocators, PoolsOK, PoolTypes, Engines!EngineState, Early
<1>2. CASE Eng!DestroyMembers \/ Eng!DestroyGpuInstance
  BY <1>2 DEF Eng!DestroyMembers, Eng!DestroyGpuInstance, PoolsOK, Early
<1> QED BY <1>1, <1>2

----------------------------------------------------------------------------
(* The invariant of the composition *)

\* From the end of a request to the start of the next batch, Vulkan memory in use
\* is what a failure left.
KeptOK ==
  (pc \in {"length", "discard", "payload"} /\ eng.use_vulkan = TRUE /\ eng.vk_pool = TRUE)
    => reply.status # Ok

JInv == Engines!IInv /\ CallsOK /\ PoolsOK /\ KeptOK

LEMMA InitJInv == Init => CallsOK /\ PoolsOK /\ KeptOK
BY DEF Init, Eng!Init, Eng!NewEngine, Eng!Null, Loop!Init, CallsOK, PoolsOK, KeptOK, Early

LEMMA NextJInv == JInv /\ [Next]_vars => CallsOK' /\ PoolsOK' /\ KeptOK'
<1> SUFFICES ASSUME JInv, [Next]_vars PROVE CallsOK' /\ PoolsOK' /\ KeptOK'
  OBVIOUS
<1>0. PoolTypes
  BY EngineTypes DEF JInv
<1> USE DEF JInv
<1>1. CASE Client \/ Terminated \/ UNCHANGED vars
  <2>1. UNCHANGED <<engineVars, imageVars, pc, outputs, script, base, reply>>
    <3>1. CASE Client
      BY <3>1 DEF Client, WriteCell, CloseStdin, GiveUp, ReadCell, Crash, Loop!WriteCell,
         Loop!CloseStdin, Loop!GiveUp, Loop!ReadCell, Loop!Crash, Loop!clientVars,
         Loop!serverVars
    <3>2. CASE Terminated \/ UNCHANGED vars
      BY <3>2 DEF Terminated, vars, loopVars
    <3> QED BY <1>1, <3>1, <3>2
  <2> QED BY <2>1 DEF engineVars, imageVars, CallsOK, PoolsOK, KeptOK, Loop!InBatch, Loop!Request,
          Early
<1>2. CASE MakeEngine
  <2>1. UNCHANGED <<loopVars, imageVars>>
    BY <1>2 DEF MakeEngine
  <2>2. /\ PoolsOK' /\ phase \in Early /\ phase' \in Early \cup {"idle"}
        /\ eng'.vk_pool = FALSE
    BY <1>0, <1>2, InitPools DEF MakeEngine
  <2> QED BY <2>1, <2>2 DEF Early, loopVars, imageVars, CallsOK, KeptOK, Loop!InBatch,
          Loop!Request
<1>3. CASE LoopStep
  <2>1. UNCHANGED <<engineVars, imageVars>> /\ phase = "idle" /\ stage = "decode"
    BY <1>3 DEF LoopStep
  <2>2. CallsOK' /\ PoolsOK'
    BY <2>1 DEF engineVars, imageVars, CallsOK, PoolsOK, Early
  <2>3. KeptOK'
    <3>1. pc' \in {"length", "discard", "payload"} =>
            \/ pc \in {"length", "discard", "payload"} /\ reply' = reply
            \/ reply'.status # Ok
      BY <1>3 DEF LoopStep, Loop!ServerRead, Loop!TakeCell, Loop!InputEnds, Loop!ShutdownFrame,
         Loop!BeginDiscard, Loop!BeginPayload, Loop!Read, Loop!Reading, Loop!HasLength,
         Loop!FinishDiscard, Loop!RejectHeader, Loop!RejectEmptyBody, Loop!RejectBody,
         Loop!Reply, Loop!StartBatch, Loop!BatchDone, Loop!WriteReplyCell, Loop!Killed,
         Loop!DropReply, Loop!RecordError, Loop!NextFrame
    <3> QED BY <2>1, <3>1 DEF engineVars, KeptOK
  <2> QED BY <2>2, <2>3
<1>4. CASE RecordOk
  <2>1. PoolsOK' /\ PoolsInUse' = FALSE /\ phase' = phase
    BY <1>0, <1>4, ClearPools DEF RecordOk, Eng!ClearAllocators
  <2>2. pc = "record" /\ pc' = "length" /\ stage' = stage
    BY <1>4 DEF RecordOk, Loop!RecordedOk, Loop!NextFrame, imageVars
  <2>3. phase = "idle" /\ stage = "decode"
    BY <1>4, <2>2 DEF RecordOk, Eng!ClearAllocators, CallsOK, Loop!InBatch
  <2>4. CallsOK'
    BY <2>1, <2>2, <2>3 DEF CallsOK
  <2>5. KeptOK'
    BY <2>1 DEF KeptOK, PoolsInUse
  <2> QED BY <2>1, <2>4, <2>5
<1>5. CASE Decode \/ StartTile \/ Infer \/ TileDone
  <2>1. UNCHANGED loopVars /\ Loop!InBatch
    BY <1>5 DEF Decode, StartTile, Infer, TileDone, CallsOK, Eng!InferenceSucceeds,
       Eng!FallBackToCpu, Eng!Inferring, Eng!ImageDone
  <2>2. pc' = "batch" /\ Loop!InBatch'
    BY <2>1 DEF loopVars, Loop!InBatch, Loop!Request
  <2>3. CallsOK' /\ KeptOK'
    <3>1. phase' \in {"idle", "infer", "retry", "convert"}
      BY <1>5 DEF Decode, StartTile, Infer, TileDone, engineVars, Eng!StartImage,
         Eng!InferenceSucceeds, Eng!FallBackToCpu, Eng!ImageDone
    <3> QED BY <2>2, <3>1 DEF CallsOK, KeptOK
  <2>4. PoolsOK'
    <3>1. CASE Decode BY <3>1 DEF Decode, engineVars, PoolsOK, Early
    <3>2. CASE StartTile \/ Infer BY <1>0, <3>2, InferencePools DEF StartTile, Infer
    <3>3. CASE TileDone BY <1>0, <3>3, ImageEndPools DEF TileDone
    <3> QED BY <1>5, <3>1, <3>2, <3>3
  <2> QED BY <2>3, <2>4
<1>6. CASE TileFails \/ ImageRefused \/ Encode
  <2>1. phase' = "idle" /\ stage' = "decode" /\ pc' \in {"batch", "writing"}
    BY <1>6 DEF TileFails, ImageRefused, Encode, Eng!InferenceFails, Eng!ImageThrows, engineVars,
       Loop!ImageFailed, Loop!ImageSucceeded, Loop!InBatch, Loop!Reply
  <2>2. PoolsOK'
    <3>1. CASE TileFails BY <1>0, <3>1, ImageEndPools DEF TileFails
    <3>2. CASE ImageRefused \/ Encode
      BY <3>2 DEF ImageRefused, Encode, engineVars, PoolsOK, Early
    <3> QED BY <1>6, <3>1, <3>2
  <2> QED BY <2>1, <2>2 DEF CallsOK, KeptOK
<1>7. CASE GiveBack
  <2>1. UNCHANGED <<loopVars, imageVars>>
    BY <1>7 DEF GiveBack
  <2>2. PoolsOK'
    BY <1>0, <1>7, DestructionPools DEF GiveBack
  <2>3. CASE pc = "exited" /\ (Eng!DestroyEngine \/ Eng!DestroyGpuInstance)
    BY <2>1, <2>2, <2>3 DEF loopVars, imageVars, CallsOK, KeptOK, Loop!InBatch,
       Eng!DestroyEngine, Eng!Cleanup, Eng!DestroyGpuInstance
  <2>4. CASE Eng!DestroyMembers
    BY <2>1, <2>2, <2>4 DEF loopVars, imageVars, CallsOK, KeptOK, Loop!InBatch, Loop!Request,
       Eng!DestroyMembers
  <2> QED BY <1>7, <2>3, <2>4 DEF GiveBack
<1> QED BY <1>1, <1>2, <1>3, <1>4, <1>5, <1>6, <1>7 DEF Next, Process, ProcessImage

LEMMA SpecJInv == Spec => []JInv
<1>1. JInv /\ [Next]_vars /\ Engines!IInv' => JInv'
  BY NextJInv DEF JInv
<1>2. Init /\ Engines!IInv => JInv
  BY InitJInv DEF JInv
<1> QED BY <1>1, <1>2, EngineInvariant, PTL DEF Spec

----------------------------------------------------------------------------
(* What follows *)

LEMMA InitLoop == Init => Loop!Init
BY DEF Init

LEMMA NextLoop == JInv /\ JInv' /\ [Next]_vars => [Loop!Next]_Loop!vars
<1> SUFFICES ASSUME JInv, JInv', [Next]_vars PROVE Loop!Next \/ UNCHANGED Loop!vars
  OBVIOUS
<1> USE DEF Loop!clientVars, Loop!pipeVars, Loop!serverVars, Loop!metricVars
<1>1. PoolsInUse' \in BOOLEAN
  <2>1. PoolTypes'
    BY EngineTypes, PTL DEF JInv
  <2> QED BY <2>1 DEF PoolTypes, PoolsInUse
<1>2. CASE UNCHANGED <<loopVars, engineVars>>
  BY <1>2 DEF loopVars, engineVars, Loop!vars, PoolsInUse
<1>3. CASE Client
  BY <1>3 DEF Client, WriteCell, CloseStdin, GiveUp, ReadCell, Crash, Loop!Next, Loop!Client
<1>4. CASE Terminated \/ UNCHANGED vars
  BY <1>2, <1>4 DEF Terminated, vars
<1>5. CASE MakeEngine
  <2>1. UNCHANGED loopVars
    BY <1>5 DEF MakeEngine
  <2>2. phase \in Early /\ eng'.vk_pool = FALSE /\ eng'.cpu_pool = FALSE
    BY <1>5, EngineTypes, InitPools DEF MakeEngine, JInv
  <2>3. PoolsInUse = FALSE /\ PoolsInUse' = FALSE
    BY <2>2 DEF PoolsInUse, JInv, PoolsOK
  <2> QED BY <2>1, <2>3 DEF loopVars, Loop!vars
<1>6. CASE LoopStep
  BY <1>6 DEF LoopStep, Loop!Next, Loop!Server, Loop!ServerAnswer, Loop!ServerWrite
<1>7. CASE RecordOk
  <2>1. Loop!RecordedOk /\ PoolsInUse' = FALSE
    BY <1>7, EngineTypes, ClearPools DEF RecordOk, JInv
  <2> QED BY <2>1 DEF Loop!RecordOk, Loop!Next, Loop!Server, Loop!ServerWrite
<1>8. CASE Decode \/ StartTile
  <2>1. UNCHANGED <<loopVars, eng>>
    BY <1>8 DEF Decode, StartTile, engineVars, Eng!StartImage
  <2> QED BY <2>1 DEF loopVars, Loop!vars, PoolsInUse
<1>9. CASE Infer \/ TileDone
  <2>1. UNCHANGED loopVars /\ Loop!InBatch
    BY <1>9 DEF Infer, TileDone, JInv, CallsOK, Eng!InferenceSucceeds,
       Eng!FallBackToCpu, Eng!Inferring, Eng!ImageDone
  <2>2. Loop!EngineWorks
    BY <1>1, <2>1 DEF Loop!EngineWorks, loopVars
  <2> QED BY <2>2 DEF Loop!Next
<1>10. CASE TileFails \/ ImageRefused
  <2>1. Loop!ImageFailed
    BY <1>10 DEF TileFails, ImageRefused
  <2> QED BY <1>1, <2>1 DEF Loop!ImageFails, Loop!Next, Loop!Server, Loop!ServerAnswer
<1>11. CASE Encode
  <2>1. Loop!ImageSucceeded /\ PoolsInUse' = PoolsInUse
    BY <1>11 DEF Encode, engineVars, PoolsInUse
  <2> QED BY <2>1 DEF Loop!ImageDone, Loop!Next, Loop!Server, Loop!ServerAnswer
<1>12. CASE GiveBack
  <2>1. UNCHANGED loopVars
    BY <1>12 DEF GiveBack
  <2>2. CASE pc = "exited"
    BY <1>1, <2>1, <2>2 DEF Loop!EngineWorks, loopVars, Loop!Next
  <2>3. CASE Eng!DestroyMembers
    BY <2>1, <2>3 DEF Eng!DestroyMembers, loopVars, Loop!vars, PoolsInUse
  <2> QED BY <1>12, <2>2, <2>3 DEF GiveBack
<1> QED BY <1>3, <1>4, <1>5, <1>6, <1>7, <1>8, <1>9, <1>10, <1>11, <1>12
        DEF Next, Process, ProcessImage

\* The process with the real engine is a keep-alive loop, on every machine, for
\* every script, number of tiles and pattern of failing inferences.
THEOREM LoopImplemented == Spec => ImplementsLoop
BY InitLoop, NextLoop, SpecJInv, PTL DEF Spec, ImplementsLoop, Loop!Spec

\* Between requests memory is kept by a failure or by a fall back only.
THEOREM LittleMemoryBetweenRequests == Spec => []MemoryBetweenRequests
<1>1. JInv => MemoryBetweenRequests
  BY EngineTypes DEF JInv, PoolsOK, PoolTypes, KeptOK, MemoryBetweenRequests, Loop!AtLoopTop
<1> QED BY <1>1, SpecJInv, PTL
=============================================================================
