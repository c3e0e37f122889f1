------------------------------- MODULE Engine -------------------------------
(***************************************************************************)
(* NcnnUpscalerEngine, from make_engine to the end of main: which options, *)
(* allocators and memory pools the network works with, how a failing       *)
(* Vulkan inference turns into CPU mode for the rest of the process, and   *)
(* how everything is given back.                                           *)
(*                                                                         *)
(* "eng" is the object: its members and the options of its net_.  The      *)
(* device (external) lends a blob and a staging allocator and takes them   *)
(* back.  The helpers of the class are functions from one state of the     *)
(* object to the next, so that a caller is the composition of its calls.   *)
(***************************************************************************)
EXTENDS Integers

CONSTANTS
  GpuIds,       \* the device_id init makes of --gpu-id ("auto", "" and text give 0)
  Devices,      \* how many Vulkan devices machines have
  ModelRoots,   \* whether there is a model path: TRUE, or FALSE for an empty one
  MaxImages     \* bound: process_image calls of a run

ASSUME EngineAssumption ==
  /\ GpuIds \subseteq Int
  /\ Devices \subseteq Nat
  /\ ModelRoots \subseteq BOOLEAN
  /\ MaxImages \in Nat

VARIABLES
  device_id, devices, hasRoot,   \* options and machine
  phase,                         \* what main and the engine are doing
  eng,                           \* the engine
  device,                        \* the device's side of the allocators
  images                         \* process_image calls so far

config == <<device_id, devices, hasRoot>>
vars == <<config, phase, eng, device, images>>

Present == device_id < devices
Blob == "blob"
Staging == "staging"
Null == "null"

\* The members as the constructor leaves them
NewEngine ==
  [model_root |-> FALSE, loaded |-> FALSE,
   use_vulkan |-> TRUE, cpu_low_mem |-> FALSE, igpu_profile |-> FALSE,
   vkdev |-> FALSE, blob_vk |-> Null, staging_vk |-> Null,
   \* net_.opt
   compute |-> FALSE, fp16 |-> FALSE, lean |-> FALSE, cpu_allocators |-> FALSE,
   opt_blob |-> Null, opt_workspace |-> Null, opt_staging |-> Null,
   \* memory freed into a pool, and a result that lives in the CPU pool
   vk_pool |-> FALSE, cpu_pool |-> FALSE, result |-> FALSE]

Init ==
  /\ device_id \in GpuIds
  /\ devices \in Devices
  /\ hasRoot \in ModelRoots
  /\ phase = "init"
  /\ eng = NewEngine
  /\ device = [lent |-> {}, wild |-> FALSE]
  /\ images = 0

----------------------------------------------------------------------------
(* The helpers *)

\* The first options of init
Defaults(e) == [e EXCEPT !.model_root = TRUE, !.use_vulkan = TRUE, !.compute = TRUE, !.fp16 = TRUE]

SetupVulkanAllocators(e) ==
  IF Present
    THEN [e EXCEPT !.vkdev = TRUE, !.blob_vk = Blob, !.staging_vk = Staging,
                   !.opt_blob = Blob, !.opt_workspace = Blob, !.opt_staging = Staging]
    ELSE e

\* An integrated GPU has leaner kernels, and fp16 only where it supports it.
ApplyIgpuProfile(e, fp16) == [e EXCEPT !.igpu_profile = TRUE, !.lean = TRUE, !.fp16 = fp16]

\* Mutant: one of the fp16 options is forgotten.
EnsureCpuModeKeepingFp16(e) == [e EXCEPT !.compute = FALSE]
EnsureCpuMode(e) == [e EXCEPT !.compute = FALSE, !.fp16 = FALSE]

SetupCpuAllocators(e) == [e EXCEPT !.cpu_allocators = TRUE]
ApplyCpuLowMemProfile(e) == [e EXCEPT !.cpu_low_mem = TRUE, !.lean = TRUE]

\* Mutants: net_ keeps its workspace allocator; the engine keeps the allocators
\* of a device it has let go.
ReleaseKeepingWorkspace(e) ==
  [e EXCEPT !.opt_blob = Null, !.opt_staging = Null,
            !.vkdev = FALSE, !.blob_vk = Null, !.staging_vk = Null]
ReleaseKeepingMembers(e) ==
  [e EXCEPT !.opt_blob = Null, !.opt_workspace = Null, !.opt_staging = Null, !.vkdev = FALSE]

ReleaseVulkanAllocators(e) ==
  [e EXCEPT !.opt_blob = Null, !.opt_workspace = Null, !.opt_staging = Null,
            !.vkdev = FALSE, !.blob_vk = Null, !.staging_vk = Null]

\* What the device sees of it: it calls an allocator it has not lent "wild".
Reclaim(e, d) ==
  LET back == IF e.vkdev THEN {e.blob_vk, e.staging_vk} \ {Null} ELSE {}
  IN [lent |-> d.lent \ back, wild |-> d.wild \/ ~(back \subseteq d.lent)]

\* clear() of a pool frees what lies in it, not what is in use.
ClearCpuAllocators(e) == IF e.use_vulkan THEN e ELSE [e EXCEPT !.cpu_pool = FALSE]

\* The temporaries of an inference, done or failed, go back to the pools in use.
AfterInference(e) ==
  IF e.use_vulkan THEN [e EXCEPT !.vk_pool = @ \/ e.blob_vk # Null]
  ELSE [e EXCEPT !.cpu_pool = TRUE]

ReleaseMats(e) == [e EXCEPT !.result = FALSE, !.cpu_pool = @ \/ e.result]

\* Mutant: the pools are cleared before the images are given back to them.
EndImageClearFirst(e) == ReleaseMats(ClearCpuAllocators(e))

\* The end of process_image, on every path
EndImage(e) == ClearCpuAllocators(ReleaseMats(e))

----------------------------------------------------------------------------
(* init and load_model *)

\* No model path: init returns before it has touched anything.
InitNoModelRoot ==
  /\ phase = "init"
  /\ ~hasRoot
  /\ phase' = "initFailed"
  /\ UNCHANGED <<config, eng, device, images>>

InitVulkan ==
  /\ phase = "init"
  /\ hasRoot
  /\ device_id >= 0
  /\ \/ eng' = SetupVulkanAllocators(Defaults(eng))
     \/ \E fp16 \in BOOLEAN :
          eng' = ApplyIgpuProfile(SetupVulkanAllocators(Defaults(eng)), fp16)
  /\ device' = [device EXCEPT !.lent = IF Present THEN {Blob, Staging} ELSE {}]
  /\ phase' = "loading"
  /\ UNCHANGED <<config, images>>

InitCpu ==
  /\ phase = "init"
  /\ hasRoot
  /\ device_id < 0
  /\ eng' = ApplyCpuLowMemProfile(SetupCpuAllocators(
              [EnsureCpuMode(Defaults(eng)) EXCEPT !.use_vulkan = FALSE]))
  /\ phase' = "loading"
  /\ UNCHANGED <<config, device, images>>

ModelLoads ==
  /\ phase = "loading"
  /\ eng' = [eng EXCEPT !.loaded = TRUE]
  /\ phase' = "idle"
  /\ UNCHANGED <<config, device, images>>

\* No such file, or ncnn refuses the .param or, having taken it, the .bin
ModelMissing ==
  /\ phase = "loading"
  /\ \E part \in BOOLEAN : eng' = [eng EXCEPT !.loaded = part]
  /\ phase' = "initFailed"
  /\ UNCHANGED <<config, device, images>>

----------------------------------------------------------------------------
(* process_image and run_inference *)

StartImage ==
  /\ phase = "idle"
  /\ images < MaxImages
  /\ images' = images + 1
  /\ phase' = "infer"
  /\ UNCHANGED <<config, eng, device>>

Inferring == phase \in {"infer", "retry"}

\* On the CPU the result is allocated from the engine's pool.
InferenceSucceeds ==
  /\ Inferring
  /\ eng' = [AfterInference(eng) EXCEPT !.result = ~eng.use_vulkan]
  /\ phase' = "convert"
  /\ UNCHANGED <<config, device, images>>

\* Mutant: the allocators are dropped and not given back.
FallBackToCpuLeaking ==
  /\ phase = "infer"
  /\ eng.use_vulkan
  /\ eng' = ApplyCpuLowMemProfile(SetupCpuAllocators(
              [EnsureCpuMode(ReleaseVulkanAllocators(AfterInference(eng)))
                 EXCEPT !.use_vulkan = FALSE]))
  /\ phase' = "retry"
  /\ UNCHANGED <<config, device, images>>

\* Mutant: the retry may fall back as well, and finds use_vulkan_ as it was.
FallBackToCpuAgain ==
  /\ Inferring
  /\ eng.use_vulkan
  /\ phase' = IF phase = "infer" THEN "retry" ELSE "infer"
  /\ eng' = ApplyCpuLowMemProfile(SetupCpuAllocators(
              EnsureCpuMode(ReleaseVulkanAllocators(AfterInference(eng)))))
  /\ device' = Reclaim(eng, device)
  /\ UNCHANGED <<config, images>>

\* Vulkan inference failed: everything moves to the CPU, and the image is tried
\* once more there.
FallBackToCpu ==
  /\ phase = "infer"
  /\ eng.use_vulkan
  /\ eng' = ApplyCpuLowMemProfile(SetupCpuAllocators(
              [EnsureCpuMode(ReleaseVulkanAllocators(AfterInference(eng)))
                 EXCEPT !.use_vulkan = FALSE]))
  /\ device' = Reclaim(eng, device)
  /\ phase' = "retry"
  /\ UNCHANGED <<config, images>>

\* Inference failed and there is nothing to fall back to: process_image throws
\* and catches it.
InferenceFails ==
  /\ Inferring
  /\ ~eng.use_vulkan
  /\ eng' = EndImage(AfterInference(eng))
  /\ phase' = "idle"
  /\ UNCHANGED <<config, device, images>>

\* Padding, the inference, or making pixels of the result, throws.
ImageThrows ==
  /\ Inferring \/ phase = "convert"
  /\ eng' \in {EndImage(eng), EndImage(AfterInference(eng))}
  /\ phase' = "idle"
  /\ UNCHANGED <<config, device, images>>

ImageDone ==
  /\ phase = "convert"
  /\ eng' = EndImage(eng)
  /\ phase' = "idle"
  /\ UNCHANGED <<config, device, images>>

\* Mutant: the pools of the device are forgotten.
ClearCpuPoolsOnly ==
  /\ phase = "idle"
  /\ eng' = [eng EXCEPT !.cpu_pool = FALSE]
  /\ UNCHANGED <<config, phase, device, images>>

\* clear_allocators, which the keep-alive loop calls after a successful batch
ClearAllocators ==
  /\ phase = "idle"
  /\ eng' = IF eng.use_vulkan
              THEN [eng EXCEPT !.vk_pool = @ /\ eng.blob_vk = Null]
              ELSE [eng EXCEPT !.cpu_pool = FALSE]
  /\ UNCHANGED <<config, phase, device, images>>

----------------------------------------------------------------------------
(* The destructors, and the end of main *)

\* Mutant: cleanup leaves net_ to its own destructor.
CleanedKeepingNet(e) ==
  IF ~e.model_root THEN e
  ELSE ClearCpuAllocators(
         [ReleaseVulkanAllocators([e EXCEPT !.compute = @ /\ ~e.use_vulkan])
            EXCEPT !.use_vulkan = FALSE, !.model_root = FALSE])

\* cleanup: model_root_ says whether there is anything to clean.
Cleaned(e) ==
  IF ~e.model_root THEN e
  ELSE ClearCpuAllocators(
         [ReleaseVulkanAllocators([e EXCEPT !.compute = @ /\ ~e.use_vulkan])
            EXCEPT !.loaded = FALSE, !.use_vulkan = FALSE, !.model_root = FALSE])

\* The destructor of the derived class: at the end of main's block, or in
\* make_engine when init returned false
Cleanup(from, to) ==
  /\ phase = from
  /\ eng' = Cleaned(eng)
  /\ device' = IF eng.model_root THEN Reclaim(eng, device) ELSE device
  /\ phase' = to
  /\ UNCHANGED <<config, images>>

DestroyEngine == Cleanup("idle", "membersGo")
DestroyFailedEngine == Cleanup("initFailed", "failedMembersGo")

\* The members in the reverse order of their declaration: the CPU pools go
\* first, net_ after them.
DestroyMembers ==
  /\ phase \in {"membersGo", "failedMembersGo"}
  /\ phase' = IF phase = "membersGo" THEN "engineGone" ELSE "exited"
  /\ UNCHANGED <<config, eng, device, images>>

\* ncnn::destroy_gpu_instance; main has returned 1 before it if init failed
DestroyGpuInstance ==
  /\ phase = "engineGone"
  /\ phase' = "exited"
  /\ UNCHANGED <<config, eng, device, images>>

Exited == phase = "exited" /\ UNCHANGED vars

Next ==
  \/ InitNoModelRoot \/ InitVulkan \/ InitCpu \/ ModelLoads \/ ModelMissing
  \/ StartImage \/ InferenceSucceeds \/ FallBackToCpu \/ InferenceFails
  \/ ImageThrows \/ ImageDone \/ ClearAllocators
  \/ DestroyEngine \/ DestroyFailedEngine \/ DestroyMembers \/ DestroyGpuInstance
  \/ Exited

Spec == Init /\ [][Next]_vars

----------------------------------------------------------------------------
(* Properties *)

Pointer == {Null, Blob, Staging}
EngineState ==
  [model_root : BOOLEAN, loaded : BOOLEAN,
   use_vulkan : BOOLEAN, cpu_low_mem : BOOLEAN, igpu_profile : BOOLEAN,
   vkdev : BOOLEAN, blob_vk : Pointer, staging_vk : Pointer,
   compute : BOOLEAN, fp16 : BOOLEAN, lean : BOOLEAN, cpu_allocators : BOOLEAN,
   opt_blob : Pointer, opt_workspace : Pointer, opt_staging : Pointer,
   vk_pool : BOOLEAN, cpu_pool : BOOLEAN, result : BOOLEAN]

\* Every variable keeps its type, and the engine holds the two allocators
\* together with the device they are from, or none of the three.
TypeOK ==
  /\ device_id \in GpuIds /\ devices \in Devices /\ hasRoot \in ModelRoots
  /\ phase \in {"init", "initFailed", "loading", "idle", "infer", "retry", "convert",
                "membersGo", "failedMembersGo", "engineGone", "exited"}
  /\ eng \in EngineState
  /\ eng.blob_vk = IF eng.vkdev THEN Blob ELSE Null
  /\ eng.staging_vk = IF eng.vkdev THEN Staging ELSE Null
  /\ device \in [lent : SUBSET {Blob, Staging}, wild : BOOLEAN]
  /\ images \in 0 .. MaxImages

\* Every allocator net_ would use is one the device has lent and not got back:
\* after a fall back to the CPU, and after cleanup, ncnn holds no dangling one.
NoDanglingAllocator ==
  {eng.opt_blob, eng.opt_workspace, eng.opt_staging} \subseteq device.lent \cup {Null}

\* The device gets back each allocator exactly once, however the process ends:
\* after a fall back, a failed init, or both allocators never lent.
ReturnedOnce ==
  /\ ~device.wild
  /\ phase \in {"engineGone", "exited"} => device.lent = {}

\* An inference that runs on the CPU finds everything set for it, whether the
\* engine began there or fell back in the middle of an image: no Vulkan, no fp16,
\* the engine's own pools and the low-memory profile.
CpuModeIsComplete ==
  (Inferring /\ ~eng.use_vulkan) =>
    /\ ~eng.compute /\ ~eng.fp16
    /\ eng.cpu_allocators
    /\ eng.cpu_low_mem /\ eng.lean

\* Between images nothing stays in the CPU pools, on the paths that fail either.
CpuPoolsEmptyBetweenImages == (phase = "idle" /\ ~eng.use_vulkan) => ~eng.cpu_pool

\* net_ is empty and no image is left when the pools they live in are destroyed
\* (main.cpp:35, ncnn_upscaler_engine.hpp:22).
PoolsOutliveNet ==
  phase \in {"membersGo", "failedMembersGo"} => ~eng.loaded /\ ~eng.result
=============================================================================
