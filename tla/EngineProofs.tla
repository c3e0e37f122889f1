---------------------------- MODULE EngineProofs ----------------------------
(***************************************************************************)
(* The safety of Engine on any machine, with any options, for any number   *)
(* of images.  First what each helper of the class leaves of an engine,    *)
(* then one inductive invariant that all the properties follow from.       *)
(***************************************************************************)
EXTENDS Engine, TLAPS

(***************************************************************************)
(* The inductive invariant.                                                *)
(***************************************************************************)
\* The device has lent exactly what the engine holds.
Held ==
  /\ device.lent = IF eng.vkdev THEN {Blob, Staging} ELSE {}
  /\ device.wild = FALSE

\* net_ works with the engine's own allocators.
Linked ==
  /\ eng.opt_blob = eng.blob_vk
  /\ eng.opt_workspace = eng.blob_vk
  /\ eng.opt_staging = eng.staging_vk

\* Neither a device, nor a model, nor a result that is still held
Bare(e) == e.vkdev = FALSE /\ e.loaded = FALSE /\ e.result = FALSE
OnCpu(e) ==
  /\ e.compute = FALSE /\ e.fp16 = FALSE
  /\ e.cpu_allocators = TRUE /\ e.cpu_low_mem = TRUE /\ e.lean = TRUE

Fresh == phase = "init" => Bare(eng) /\ eng.model_root = FALSE /\ eng.cpu_pool = FALSE
Failed == phase = "initFailed" => eng.result = FALSE /\ (eng.model_root = FALSE => Bare(eng))
Working ==
  phase \in {"loading", "idle", "infer", "retry", "convert"} =>
    /\ eng.model_root = TRUE
    /\ eng.use_vulkan = FALSE => OnCpu(eng)
    /\ phase # "convert" => eng.result = FALSE
    /\ phase \in {"loading", "idle"} /\ eng.use_vulkan = FALSE => eng.cpu_pool = FALSE
Over == phase \in {"membersGo", "failedMembersGo", "engineGone", "exited"} => Bare(eng)

IInv == TypeOK /\ Held /\ Linked /\ Fresh /\ Failed /\ Working /\ Over

----------------------------------------------------------------------------
(* What the helpers do                                                     *)

\* Nothing but the pools, and what is in them, tells two engines apart.
SameSetting(n, e) ==
  /\ n.model_root = e.model_root /\ n.loaded = e.loaded /\ n.use_vulkan = e.use_vulkan
  /\ n.cpu_low_mem = e.cpu_low_mem /\ n.lean = e.lean
  /\ n.compute = e.compute /\ n.fp16 = e.fp16 /\ n.cpu_allocators = e.cpu_allocators
  /\ n.vkdev = e.vkdev /\ n.blob_vk = e.blob_vk /\ n.staging_vk = e.staging_vk
  /\ n.opt_blob = e.opt_blob /\ n.opt_workspace = e.opt_workspace
  /\ n.opt_staging = e.opt_staging

LEMMA AfterInferenceLemma ==
  ASSUME NEW e \in EngineState
  PROVE  /\ AfterInference(e) \in EngineState
         /\ SameSetting(AfterInference(e), e)
         /\ AfterInference(e).result = e.result
BY DEF AfterInference, EngineState, SameSetting

\* Clearing the pools changes nothing but what is free in them.
LEMMA ClearCpuLemma ==
  ASSUME NEW e \in EngineState
  PROVE  /\ ClearCpuAllocators(e) \in EngineState
         /\ SameSetting(ClearCpuAllocators(e), e)
         /\ ClearCpuAllocators(e).result = e.result
         /\ e.use_vulkan = FALSE => ClearCpuAllocators(e).cpu_pool = FALSE
<1>1. CASE e.use_vulkan = TRUE
  <2>1. ClearCpuAllocators(e) = e
    BY <1>1 DEF ClearCpuAllocators
  <2> QED BY <1>1, <2>1 DEF SameSetting
<1>2. CASE e.use_vulkan = FALSE
  <2>1. ClearCpuAllocators(e) = [e EXCEPT !.cpu_pool = FALSE]
    BY <1>2 DEF ClearCpuAllocators
  <2> QED BY <2>1 DEF EngineState, SameSetting
<1> QED BY <1>1, <1>2 DEF EngineState

\* After the end of an image no result is held and, on the CPU, no memory either.
LEMMA EndImageLemma ==
  ASSUME NEW e \in EngineState
  PROVE  /\ EndImage(e) \in EngineState
         /\ SameSetting(EndImage(e), e)
         /\ EndImage(e).result = FALSE
         /\ e.use_vulkan = FALSE => EndImage(e).cpu_pool = FALSE
<1> DEFINE r == ReleaseMats(e)
           pooled == e.cpu_pool \/ e.result
<1>0. pooled \in BOOLEAN /\ r = [e EXCEPT !.result = FALSE, !.cpu_pool = pooled]
  BY DEF ReleaseMats
<1> HIDE DEF r, pooled
<1>1. r \in EngineState /\ SameSetting(r, e) /\ r.result = FALSE
  BY <1>0 DEF EngineState, SameSetting
<1>2. /\ ClearCpuAllocators(r) \in EngineState
      /\ SameSetting(ClearCpuAllocators(r), r)
      /\ ClearCpuAllocators(r).result = r.result
      /\ r.use_vulkan = FALSE => ClearCpuAllocators(r).cpu_pool = FALSE
  BY <1>1, ClearCpuLemma
<1>3. EndImage(e) = ClearCpuAllocators(r)
  BY DEF EndImage, r
<1> QED BY <1>1, <1>2, <1>3 DEF SameSetting

\* An engine that has given back its allocators
Returned(e) ==
  /\ e.vkdev = FALSE /\ e.blob_vk = Null /\ e.staging_vk = Null
  /\ e.opt_blob = Null /\ e.opt_workspace = Null /\ e.opt_staging = Null

\* The engine of FallBackToCpu, its two ways of being used
CpuFallback(e) ==
  ApplyCpuLowMemProfile(SetupCpuAllocators(
    [EnsureCpuMode(ReleaseVulkanAllocators(e)) EXCEPT !.use_vulkan = FALSE]))

LEMMA CpuFallbackLemma ==
  ASSUME NEW e \in EngineState
  PROVE  /\ CpuFallback(e) \in EngineState
         /\ Returned(CpuFallback(e)) /\ OnCpu(CpuFallback(e))
         /\ CpuFallback(e).use_vulkan = FALSE
         /\ CpuFallback(e).model_root = e.model_root
         /\ CpuFallback(e).result = e.result
BY DEF CpuFallback, ApplyCpuLowMemProfile, SetupCpuAllocators, EnsureCpuMode,
   ReleaseVulkanAllocators, EngineState, Returned, OnCpu, Pointer

LEMMA CleanedLemma ==
  ASSUME NEW e \in EngineState, e.model_root = TRUE
  PROVE  /\ Cleaned(e) \in EngineState
         /\ Returned(Cleaned(e))
         /\ Cleaned(e).loaded = FALSE /\ Cleaned(e).result = e.result
<1> DEFINE c == [ReleaseVulkanAllocators([e EXCEPT !.compute = @ /\ ~e.use_vulkan])
                   EXCEPT !.loaded = FALSE, !.use_vulkan = FALSE, !.model_root = FALSE]
           still == e.compute /\ ~e.use_vulkan
           d == [e EXCEPT !.compute = still]
<1>1. Cleaned(e) = ClearCpuAllocators(c)
  BY DEF Cleaned
<1>2. c = [ReleaseVulkanAllocators(d)
             EXCEPT !.loaded = FALSE, !.use_vulkan = FALSE, !.model_root = FALSE]
  OBVIOUS
<1>3. still \in BOOLEAN
  OBVIOUS
<1> HIDE DEF c, still
<1>4. d \in EngineState /\ d.result = e.result
  BY <1>3 DEF EngineState
<1> HIDE DEF d
<1>5. c \in EngineState /\ Returned(c) /\ c.loaded = FALSE /\ c.result = e.result
  BY <1>2, <1>4, ZenonT(40) DEF ReleaseVulkanAllocators, EngineState, Returned, Pointer
<1>6. /\ ClearCpuAllocators(c) \in EngineState /\ SameSetting(ClearCpuAllocators(c), c)
      /\ ClearCpuAllocators(c).result = c.result
  BY <1>5, ClearCpuLemma
<1> QED BY <1>1, <1>5, <1>6 DEF SameSetting, Returned

\* Giving back what was lent leaves nothing lent, and is never a surprise.
LEMMA ReclaimLemma ==
  ASSUME IInv
  PROVE  Reclaim(eng, device) = [lent |-> {}, wild |-> FALSE]
<1>1. CASE eng.vkdev = TRUE
  <2>1. ({eng.blob_vk, eng.staging_vk} \ {Null}) = {Blob, Staging}
    BY <1>1 DEF IInv, TypeOK, Blob, Staging, Null
  <2>2. device.lent = {Blob, Staging} /\ device.wild = FALSE
    BY <1>1 DEF IInv, Held
  <2> QED BY <1>1, <2>1, <2>2 DEF Reclaim
<1>2. CASE eng.vkdev = FALSE
  <2>1. device.lent = {} /\ device.wild = FALSE
    BY <1>2 DEF IInv, Held
  <2> QED BY <1>2, <2>1 DEF Reclaim
<1> QED BY <1>1, <1>2 DEF IInv, TypeOK, EngineState

----------------------------------------------------------------------------
(* The invariant is inductive                                              *)

LEMMA InitIInv == Init => IInv
<1> SUFFICES ASSUME Init PROVE IInv
  OBVIOUS
<1>1. eng \in EngineState
  BY DEF Init, NewEngine, EngineState, Pointer
<1>2. Bare(eng) /\ eng.model_root = FALSE /\ eng.cpu_pool = FALSE
  BY DEF Init, NewEngine, Bare
<1>3. eng.blob_vk = Null /\ eng.staging_vk = Null /\ Linked
  BY DEF Init, NewEngine, Linked
<1>4. TypeOK
  BY <1>1, <1>2, <1>3, EngineAssumption DEF Init, TypeOK, Bare
<1> QED BY <1>2, <1>3, <1>4 DEF Init, IInv, Held, Fresh, Failed, Working, Over, Bare

\* What an action that keeps the settings of the engine owes the invariant
LEMMA SettingKept ==
  ASSUME IInv, eng' \in EngineState, SameSetting(eng', eng), UNCHANGED <<config, device>>,
         images' \in 0 .. MaxImages,
         phase \in {"loading", "idle", "infer", "retry", "convert"},
         phase' \in {"idle", "infer", "convert"},
         phase' # "convert" => eng'.result = FALSE,
         phase' = "idle" /\ eng.use_vulkan = FALSE => eng'.cpu_pool = FALSE
  PROVE  IInv'
<1>1. TypeOK'
  BY DEF IInv, TypeOK, SameSetting, config
<1>2. Held' /\ Linked'
  BY DEF IInv, Held, Linked, SameSetting
<1>3. Fresh' /\ Failed' /\ Over'
  BY DEF Fresh, Failed, Over
<1>4. eng.model_root = TRUE /\ (eng.use_vulkan = FALSE => OnCpu(eng))
  BY DEF IInv, Working
<1>5. Working'
  BY <1>4 DEF Working, OnCpu, SameSetting
<1> QED BY <1>1, <1>2, <1>3, <1>5 DEF IInv

LEMMA NextIInv == IInv /\ [Next]_vars => IInv'
<1> SUFFICES ASSUME IInv, [Next]_vars PROVE IInv'
  OBVIOUS
<1> USE EngineAssumption
<1>0. eng \in EngineState
  BY DEF IInv, TypeOK
<1>1. CASE InitNoModelRoot
  <2>1. Bare(eng) /\ phase' = "initFailed" /\ UNCHANGED <<config, eng, device, images>>
    BY <1>1 DEF InitNoModelRoot, IInv, Fresh
  <2>2. TypeOK' /\ Held' /\ Linked'
    BY <2>1 DEF IInv, TypeOK, Held, Linked, config
  <2> QED BY <2>1, <2>2 DEF IInv, Fresh, Failed, Working, Over, Bare
<1>2. CASE InitVulkan
  <2> DEFINE s == SetupVulkanAllocators(Defaults(eng))
  <2>1. eng.vkdev = FALSE /\ eng.loaded = FALSE /\ eng.result = FALSE /\ eng.cpu_pool = FALSE
    BY <1>2 DEF InitVulkan, IInv, Fresh, Bare
  <2>2. /\ eng.blob_vk = Null /\ eng.staging_vk = Null /\ eng.opt_blob = Null
        /\ eng.opt_workspace = Null /\ eng.opt_staging = Null
    BY <2>1 DEF IInv, TypeOK, Linked
  <2>3. device.wild = FALSE
    BY DEF IInv, Held
  <2> DEFINE Set(e) ==
        /\ e \in EngineState
        /\ e.model_root = TRUE /\ e.use_vulkan = TRUE
        /\ e.result = FALSE
        /\ e.vkdev = IF Present THEN TRUE ELSE FALSE
        /\ e.blob_vk = IF Present THEN Blob ELSE Null
        /\ e.staging_vk = IF Present THEN Staging ELSE Null
        /\ e.opt_blob = e.blob_vk /\ e.opt_workspace = e.blob_vk
        /\ e.opt_staging = e.staging_vk
  <2>4. Set(s)
    <3>1. CASE Present
      BY <1>0, <2>1, <3>1 DEF SetupVulkanAllocators, Defaults, EngineState, Pointer
    <3>2. CASE ~Present
      <4>1. s = [eng EXCEPT !.model_root = TRUE, !.use_vulkan = TRUE,
                            !.compute = TRUE, !.fp16 = TRUE]
        BY <3>2 DEF SetupVulkanAllocators, Defaults
      <4> HIDE DEF s
      <4>2. /\ s \in EngineState /\ s.model_root = TRUE /\ s.use_vulkan = TRUE
            /\ s.result = eng.result /\ s.vkdev = eng.vkdev
            /\ s.blob_vk = eng.blob_vk /\ s.staging_vk = eng.staging_vk
            /\ s.opt_blob = eng.opt_blob /\ s.opt_workspace = eng.opt_workspace
            /\ s.opt_staging = eng.opt_staging
        BY <1>0, <4>1 DEF EngineState
      <4> QED BY <2>1, <2>2, <3>2, <4>2
    <3> QED BY <3>1, <3>2
  <2> HIDE DEF s
  <2>5. ASSUME NEW fp16 \in BOOLEAN PROVE Set(ApplyIgpuProfile(s, fp16))
    BY <2>4 DEF ApplyIgpuProfile, EngineState
  <2>6. Set(eng')
    BY <1>2, <2>4, <2>5, ZenonT(40) DEF InitVulkan, s
  <2>7. device' = [lent |-> IF Present THEN {Blob, Staging} ELSE {}, wild |-> FALSE]
    BY <1>2, <2>3 DEF InitVulkan, IInv, TypeOK
  <2>8. phase' = "loading" /\ UNCHANGED <<config, images>>
    BY <1>2 DEF InitVulkan
  <2>9. TypeOK'
    BY <2>6, <2>7, <2>8 DEF IInv, TypeOK, config
  <2>10. Held' /\ Linked'
    BY <2>6, <2>7 DEF Held, Linked
  <2> QED BY <2>6, <2>8, <2>9, <2>10 DEF IInv, Fresh, Failed, Working, Over
<1>3. CASE InitCpu
  <2>1. eng.vkdev = FALSE /\ eng.loaded = FALSE /\ eng.result = FALSE /\ eng.cpu_pool = FALSE
    BY <1>3 DEF InitCpu, IInv, Fresh, Bare
  <2>2. /\ eng.blob_vk = Null /\ eng.staging_vk = Null /\ eng.opt_blob = Null
        /\ eng.opt_workspace = Null /\ eng.opt_staging = Null
    BY <2>1 DEF IInv, TypeOK, Linked
  <2>3. /\ eng' \in EngineState /\ Returned(eng') /\ OnCpu(eng')
        /\ eng'.model_root = TRUE /\ eng'.use_vulkan = FALSE
        /\ eng'.result = FALSE /\ eng'.cpu_pool = FALSE
    BY <1>0, <1>3, <2>1, <2>2 DEF InitCpu, Defaults, EnsureCpuMode, SetupCpuAllocators,
       ApplyCpuLowMemProfile, EngineState, Returned, OnCpu, Pointer
  <2>4. phase' = "loading" /\ UNCHANGED <<config, device, images>>
    BY <1>3 DEF InitCpu
  <2>5. TypeOK' /\ Held' /\ Linked'
    BY <2>1, <2>3, <2>4 DEF IInv, TypeOK, Held, Linked, Returned, config
  <2> QED BY <2>3, <2>4, <2>5 DEF IInv, Fresh, Failed, Working, Over
<1>4. CASE ModelLoads
  <2>1. phase = "loading" /\ phase' = "idle" /\ UNCHANGED <<config, device, images>>
    BY <1>4 DEF ModelLoads
  <2>2. eng.result = FALSE /\ (eng.use_vulkan = FALSE => eng.cpu_pool = FALSE)
        /\ eng.model_root = TRUE /\ (eng.use_vulkan = FALSE => OnCpu(eng))
    BY <2>1 DEF IInv, Working
  <2>3. /\ eng' \in EngineState
        /\ eng'.model_root = eng.model_root /\ eng'.use_vulkan = eng.use_vulkan
        /\ eng'.result = eng.result /\ eng'.cpu_pool = eng.cpu_pool
        /\ OnCpu(eng) => OnCpu(eng')
    BY <1>0, <1>4 DEF ModelLoads, EngineState, OnCpu
  <2>4. /\ eng'.vkdev = eng.vkdev /\ eng'.blob_vk = eng.blob_vk
        /\ eng'.staging_vk = eng.staging_vk /\ eng'.opt_blob = eng.opt_blob
        /\ eng'.opt_workspace = eng.opt_workspace /\ eng'.opt_staging = eng.opt_staging
    BY <1>0, <1>4 DEF ModelLoads, EngineState
  <2>5. TypeOK' /\ Held' /\ Linked'
    BY <2>1, <2>3, <2>4 DEF IInv, TypeOK, Held, Linked, config
  <2> QED BY <2>1, <2>2, <2>3, <2>5 DEF IInv, Fresh, Failed, Working, Over
<1>5. CASE ModelMissing
  <2>1. phase = "loading" /\ phase' = "initFailed" /\ UNCHANGED <<config, device, images>>
    BY <1>5 DEF ModelMissing
  <2>2. eng.result = FALSE /\ eng.model_root = TRUE
    BY <2>1 DEF IInv, Working
  <2>3. /\ eng' \in EngineState
        /\ eng'.model_root = eng.model_root /\ eng'.result = eng.result
    BY <1>0, <1>5 DEF ModelMissing, EngineState
  <2>4. /\ eng'.vkdev = eng.vkdev /\ eng'.blob_vk = eng.blob_vk
        /\ eng'.staging_vk = eng.staging_vk /\ eng'.opt_blob = eng.opt_blob
        /\ eng'.opt_workspace = eng.opt_workspace /\ eng'.opt_staging = eng.opt_staging
    BY <1>0, <1>5 DEF ModelMissing, EngineState
  <2>5. TypeOK' /\ Held' /\ Linked'
    BY <2>1, <2>3, <2>4 DEF IInv, TypeOK, Held, Linked, config
  <2> QED BY <2>1, <2>2, <2>3, <2>5 DEF IInv, Fresh, Failed, Working, Over
<1>6. CASE StartImage
  <2>1. images' \in 0 .. MaxImages
    BY <1>6 DEF StartImage, IInv, TypeOK
  <2>2. phase = "idle" /\ phase' = "infer" /\ UNCHANGED <<config, eng, device>>
    BY <1>6 DEF StartImage
  <2>3. eng.result = FALSE
    BY <2>2 DEF IInv, Working
  <2> QED BY <1>0, <2>1, <2>2, <2>3, SettingKept DEF SameSetting
<1>7. CASE InferenceSucceeds
  <2> DEFINE a == AfterInference(eng)
  <2>1. a \in EngineState /\ SameSetting(a, eng)
    BY <1>0, AfterInferenceLemma
  <2>2. eng' = [a EXCEPT !.result = ~eng.use_vulkan]
    BY <1>7 DEF InferenceSucceeds
  <2> HIDE DEF a
  <2>3. eng' \in EngineState
    BY <1>0, <2>1, <2>2, ZenonT(40) DEF EngineState
  <2>4. SameSetting(eng', a)
    BY <2>1, <2>2 DEF EngineState, SameSetting
  <2>5. SameSetting(eng', eng)
    BY <2>1, <2>4 DEF SameSetting
  <2>6. phase' = "convert" /\ phase \in {"infer", "retry"} /\ UNCHANGED <<config, device, images>>
    BY <1>7 DEF InferenceSucceeds, Inferring
  <2>7. images' \in 0 .. MaxImages
    BY <2>6 DEF IInv, TypeOK
  <2> QED BY <2>3, <2>5, <2>6, <2>7, SettingKept
<1>8. CASE FallBackToCpu
  <2> DEFINE a == AfterInference(eng)
  <2>1. a \in EngineState /\ SameSetting(a, eng) /\ a.result = eng.result
    BY <1>0, AfterInferenceLemma
  <2>2. eng' = CpuFallback(a)
    BY <1>8 DEF FallBackToCpu, CpuFallback
  <2>3. phase = "infer" /\ phase' = "retry" /\ UNCHANGED <<config, images>>
    BY <1>8 DEF FallBackToCpu
  <2>4. device' = [lent |-> {}, wild |-> FALSE]
    BY <1>8, ReclaimLemma DEF FallBackToCpu
  <2>5. eng.result = FALSE /\ eng.model_root = TRUE
    BY <2>3 DEF IInv, Working
  <2> HIDE DEF a
  <2>6. /\ eng' \in EngineState /\ Returned(eng') /\ OnCpu(eng')
        /\ eng'.use_vulkan = FALSE /\ eng'.model_root = TRUE /\ eng'.result = FALSE
    BY <2>1, <2>2, <2>5, CpuFallbackLemma DEF SameSetting
  <2>7. TypeOK' /\ Held' /\ Linked'
    BY <2>3, <2>4, <2>6 DEF IInv, TypeOK, Held, Linked, Returned, config
  <2> QED BY <2>3, <2>6, <2>7 DEF IInv, Fresh, Failed, Working, Over
<1>9. ASSUME phase \in {"infer", "retry", "convert"}, phase' = "idle",
             eng' \in {EndImage(eng), EndImage(AfterInference(eng))},
             UNCHANGED <<config, device, images>>
      PROVE  IInv'
  <2> DEFINE a == AfterInference(eng)
  <2>1. a \in EngineState /\ SameSetting(a, eng)
    BY <1>0, AfterInferenceLemma
  <2> HIDE DEF a
  <2>2. /\ EndImage(eng) \in EngineState /\ SameSetting(EndImage(eng), eng)
        /\ EndImage(eng).result = FALSE
        /\ eng.use_vulkan = FALSE => EndImage(eng).cpu_pool = FALSE
    BY <1>0, EndImageLemma
  <2>3. /\ EndImage(a) \in EngineState /\ SameSetting(EndImage(a), a)
        /\ EndImage(a).result = FALSE
        /\ a.use_vulkan = FALSE => EndImage(a).cpu_pool = FALSE
    BY <2>1, EndImageLemma
  <2>4. SameSetting(EndImage(a), eng) /\ a.use_vulkan = eng.use_vulkan
    BY <2>1, <2>3 DEF SameSetting
  <2>5. eng' = EndImage(eng) \/ eng' = EndImage(a)
    BY <1>9 DEF a
  <2>6. /\ eng' \in EngineState /\ SameSetting(eng', eng) /\ eng'.result = FALSE
        /\ eng.use_vulkan = FALSE => eng'.cpu_pool = FALSE
    BY <2>2, <2>3, <2>4, <2>5
  <2>7. images' \in 0 .. MaxImages
    BY <1>9 DEF IInv, TypeOK
  <2> QED BY <1>9, <2>6, <2>7, SettingKept
<1>10. CASE InferenceFails \/ ImageThrows \/ ImageDone
  BY <1>9, <1>10 DEF InferenceFails, ImageThrows, ImageDone, Inferring
<1>11. CASE ClearAllocators
  <2>1. phase = "idle" /\ phase' = "idle" /\ UNCHANGED <<config, device, images>>
    BY <1>11 DEF ClearAllocators
  <2>2. eng.result = FALSE /\ (eng.use_vulkan = FALSE => eng.cpu_pool = FALSE)
    BY <2>1 DEF IInv, Working
  <2>3. /\ eng' \in EngineState /\ SameSetting(eng', eng)
        /\ eng'.result = eng.result /\ (eng.use_vulkan = FALSE => eng'.cpu_pool = FALSE)
    <3>1. CASE eng.use_vulkan = TRUE
      BY <1>0, <1>11, <3>1 DEF ClearAllocators, EngineState, SameSetting
    <3>2. CASE eng.use_vulkan = FALSE
      BY <1>0, <1>11, <3>2 DEF ClearAllocators, EngineState, SameSetting
    <3> QED BY <1>0, <3>1, <3>2 DEF EngineState
  <2>4. images' \in 0 .. MaxImages
    BY <2>1 DEF IInv, TypeOK
  <2> QED BY <2>1, <2>2, <2>3, <2>4, SettingKept
<1>12. CASE DestroyEngine \/ DestroyFailedEngine
  <2>1. /\ phase \in {"idle", "initFailed"} /\ phase' \in {"membersGo", "failedMembersGo"}
        /\ eng' = Cleaned(eng)
        /\ device' = IF eng.model_root THEN Reclaim(eng, device) ELSE device
        /\ UNCHANGED <<config, images>>
    BY <1>12 DEF DestroyEngine, DestroyFailedEngine, Cleanup
  <2>2. eng.result = FALSE /\ (eng.model_root = FALSE => Bare(eng))
    BY <2>1 DEF IInv, Working, Failed
  <2>3. CASE eng.model_root = TRUE
    <3>1. eng' \in EngineState /\ Returned(eng') /\ eng'.loaded = FALSE /\ eng'.result = FALSE
      BY <1>0, <2>1, <2>2, <2>3, CleanedLemma
    <3>2. device' = [lent |-> {}, wild |-> FALSE]
      BY <2>1, <2>3, ReclaimLemma
    <3>3. phase' \in {"membersGo", "failedMembersGo"} /\ UNCHANGED <<config, images>>
      BY <2>1
    <3>4. TypeOK'
      BY <3>1, <3>2, <3>3 DEF IInv, TypeOK, Returned, config
    <3>5. Held' /\ Linked'
      BY <3>1, <3>2 DEF Held, Linked, Returned
    <3> QED BY <3>1, <3>3, <3>4, <3>5 DEF IInv, Fresh, Failed, Working, Over, Bare, Returned
  <2>4. CASE eng.model_root = FALSE
    <3>1. eng' = eng /\ device' = device
      BY <2>1, <2>4 DEF Cleaned
    <3>2. TypeOK' /\ Held' /\ Linked'
      BY <2>1, <3>1 DEF IInv, TypeOK, Held, Linked, config
    <3> QED BY <2>1, <2>2, <2>4, <3>1, <3>2 DEF IInv, Fresh, Failed, Working, Over, Bare
  <2> QED BY <1>0, <2>3, <2>4 DEF EngineState
<1>13. CASE DestroyMembers \/ DestroyGpuInstance
  <2>1. /\ phase \in {"membersGo", "failedMembersGo", "engineGone"}
        /\ phase' \in {"engineGone", "exited"}
        /\ UNCHANGED <<config, eng, device, images>>
    BY <1>13 DEF DestroyMembers, DestroyGpuInstance
  <2>2. Bare(eng)
    BY <2>1 DEF IInv, Over
  <2>3. TypeOK' /\ Held' /\ Linked'
    BY <2>1 DEF IInv, TypeOK, Held, Linked, config
  <2> QED BY <2>1, <2>2, <2>3 DEF IInv, Fresh, Failed, Working, Over, Bare
<1>14. CASE Exited \/ UNCHANGED vars
  <2>1. UNCHANGED <<config, phase, eng, device, images>>
    BY <1>14 DEF Exited, vars
  <2> QED BY <2>1 DEF IInv, TypeOK, Held, Linked, Fresh, Failed, Working, Over, Bare, OnCpu, config
<1> QED BY <1>1, <1>2, <1>3, <1>4, <1>5, <1>6, <1>7, <1>8, <1>10, <1>11, <1>12, <1>13, <1>14
        DEF Next

LEMMA SpecIInv == Spec => []IInv
BY InitIInv, NextIInv, PTL DEF Spec

----------------------------------------------------------------------------
(* The properties                                                          *)

\* The engine holds its two Vulkan allocators together with their device, or
\* none of the three (setup_ and release_vulkan_allocators).
THEOREM TypeCorrect == Spec => []TypeOK
<1>1. IInv => TypeOK
  BY DEF IInv
<1> QED BY <1>1, SpecIInv, PTL

\* Whatever the machine and the failures, net_ never holds an allocator that the
\* device has got back (run_inference, cleanup).
THEOREM NothingDangles == Spec => []NoDanglingAllocator
<1>1. IInv => NoDanglingAllocator
  <2> SUFFICES ASSUME IInv PROVE NoDanglingAllocator
    OBVIOUS
  <2>1. {eng.opt_blob, eng.opt_workspace, eng.opt_staging} = {eng.blob_vk, eng.staging_vk}
    BY DEF IInv, Linked
  <2>2. CASE eng.vkdev = TRUE
    BY <2>1, <2>2 DEF IInv, TypeOK, Held, NoDanglingAllocator
  <2>3. CASE eng.vkdev = FALSE
    BY <2>1, <2>3 DEF IInv, TypeOK, Held, NoDanglingAllocator
  <2> QED BY <2>2, <2>3 DEF IInv, TypeOK, EngineState
<1> QED BY <1>1, SpecIInv, PTL

\* The device gets back each allocator it has lent, once, before the process
\* ends (fall back, cleanup and a failed init).
THEOREM EverythingReturned == Spec => []ReturnedOnce
<1>1. IInv => ReturnedOnce
  BY DEF IInv, Held, Over, Bare, ReturnedOnce
<1> QED BY <1>1, SpecIInv, PTL

\* An inference on the CPU finds all of the CPU settings, in an engine that
\* began there and in one that fell back.
THEOREM CpuModeComplete == Spec => []CpuModeIsComplete
<1>1. IInv => CpuModeIsComplete
  <2> SUFFICES ASSUME IInv, Inferring, eng.use_vulkan = FALSE PROVE OnCpu(eng)
    BY DEF CpuModeIsComplete, OnCpu, IInv, TypeOK, EngineState
  <2> QED BY DEF IInv, Working, Inferring
<1> QED BY <1>1, SpecIInv, PTL

\* Between two images the CPU pools are empty (process_image).
THEOREM PoolsEmpty == Spec => []CpuPoolsEmptyBetweenImages
<1>1. IInv => CpuPoolsEmptyBetweenImages
  BY DEF IInv, Working, TypeOK, EngineState, CpuPoolsEmptyBetweenImages
<1> QED BY <1>1, SpecIInv, PTL

\* The pools outlive whatever is in them (the order of the members, and the
\* cleanup in the destructor of the derived class).
THEOREM PoolsLast == Spec => []PoolsOutliveNet
<1>1. IInv => PoolsOutliveNet
  BY DEF IInv, Over, Bare, PoolsOutliveNet
<1> QED BY <1>1, SpecIInv, PTL
=============================================================================
