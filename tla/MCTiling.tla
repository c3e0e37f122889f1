------------------------------ MODULE MCTiling ------------------------------
(***************************************************************************)
(* Images around every boundary of the tiling: smaller than a tile, than   *)
(* the overlap, as large as one, two and three steps and one pixel more    *)
(* and less, of even and of odd sizes.                                     *)
(***************************************************************************)
EXTENDS Tiling

Images == {1, 2, 4, 5, 7, 8} \X {1, 3, 6, 7}

JobsWith(options, igpus, models) ==
  {[width |-> i[1], height |-> i[2], tile_size |-> t, igpu |-> g, scale |-> m[1], model |-> m[2]] :
     i \in Images, t \in options, g \in igpus, m \in models}

\* What a command line and a model directory make of scale and model: every file
\* of the built-in models is there or only that of the fall back, and --model-name
\* may name a model that does not enlarge, or more than the others.
Selection == INSTANCE ModelSelection WITH NamedScale <- [same |-> 1, more |-> 4]
Dir == "models/realesrgan"
Files(names) == UNION {Selection!FilesOf(Dir, n) : n \in names}
CommandLines ==
  [engine : {Selection!Cugan, Selection!Esrgan}, scale : 1 .. 4, noise_level : {-1}, quality : {"E"},
   model : {Dir}, model_name : {"", "same", "more"}]
Disks ==
  {Files(Selection!BuiltInModels \cup {"same", "more"}),
   Files({Selection!Conservative, Selection!AnimeVideo[1]})}
Selected ==
  {<<Selection!GetScaleFactor(o), Selection!ModelScale(Selection!LoadedModel(o, d))>> :
     o \in CommandLines, d \in Disks}

MCJobs ==
  JobsWith({0, 1, 4, 5}, {FALSE, TRUE}, {<<2, 2>>}) \cup JobsWith({3}, {FALSE}, Selected)

\* The model of scale 2 that fallback_model_name gives, and what was asked for
FallbackJobs == JobsWith({0}, {FALSE}, {<<2, 2>>, <<4, 2>>})

\* The engine has the right model
PlainJobs == JobsWith({3}, {FALSE}, {<<2, 2>>})
=============================================================================
