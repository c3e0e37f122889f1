---------------------------- MODULE ModelSelection ----------------------------
(***************************************************************************)
(* Which model an engine loads, and how much the program believes it       *)
(* enlarges: init and load_model of ncnn_upscaler_engine.cpp with what     *)
(* RealCUGANEngine and RealESRGANEngine override.                          *)
(*                                                                         *)
(* A model is its name, the stem of a .param and a .bin file in the model  *)
(* directory; "files" are the files that exist.  --quality counts for its  *)
(* first letter in upper case, "" when it is empty.                        *)
(***************************************************************************)
EXTENDS Integers, Sequences

CONSTANT NamedScale    \* how much each model that --model-name may name enlarges

NoModel == "none"

Cugan == "RealCUGAN"
Esrgan == "RealESRGAN"

----------------------------------------------------------------------------
(* The options of an engine *)

NoiseOfQuality == [E |-> 0, Q |-> 1, H |-> 2]
QualityToNoise(quality) ==
  IF quality \in DOMAIN NoiseOfQuality THEN NoiseOfQuality[quality] ELSE -1

\* on_options_loaded: --noise below zero leaves the choice to --quality.
NoiseLevel(o) == IF o.noise_level < 0 THEN QualityToNoise(o.quality) ELSE o.noise_level

----------------------------------------------------------------------------
(* choose_model and fallback_model_name *)

CuganModels == <<"up2x-no-denoise", "up2x-denoise1x", "up2x-denoise2x", "up2x-denoise3x">>
Conservative == "up2x-conservative"
AnimeVideo == <<"realesr-animevideov3-x2", "realesr-animevideov3-x3", "realesr-animevideov3-x4">>

CuganModel(o) ==
  IF NoiseLevel(o) \in -1 .. 2 THEN CuganModels[NoiseLevel(o) + 2] ELSE Conservative

BuiltInModels ==
  {CuganModels[i] : i \in 1 .. 4} \cup {Conservative} \cup {AnimeVideo[i] : i \in 1 .. 3}

ASSUME NamedAssumption ==
  /\ NamedScale \in [DOMAIN NamedScale -> Nat]
  /\ DOMAIN NamedScale \cap (BuiltInModels \cup {"", NoModel}) = {}

\* Mutant: any scale is taken for one there is a model for.
EsrganModelUnchecked(o) ==
  IF o.model_name # "" THEN o.model_name
  ELSE IF o.scale <= 2 THEN AnimeVideo[1]
  ELSE AnimeVideo[3]

EsrganModel(o) ==
  IF o.model_name # "" THEN o.model_name
  ELSE IF o.scale \in 2 .. 4 THEN AnimeVideo[o.scale - 1]
  ELSE AnimeVideo[1]

ChooseModel(o) == IF o.engine = Cugan THEN CuganModel(o) ELSE EsrganModel(o)
FallbackModelName(o) == IF o.engine = Cugan THEN Conservative ELSE AnimeVideo[1]

----------------------------------------------------------------------------
(* init and load_model *)

DefaultModelRoot(o) == IF o.engine = Cugan THEN "" ELSE "models/realesrgan"
ModelRoot(o) == IF o.model = "" THEN DefaultModelRoot(o) ELSE o.model

FilesOf(root, name) == {<<root, name, "param">>, <<root, name, "bin">>}

\* The model load_model gives to ncnn: the chosen one when both its files exist,
\* else the fall back, else none.
LoadedModel(o, files) ==
  IF FilesOf(ModelRoot(o), ChooseModel(o)) \subseteq files THEN ChooseModel(o)
  ELSE IF FilesOf(ModelRoot(o), FallbackModelName(o)) \subseteq files THEN FallbackModelName(o)
  ELSE NoModel

----------------------------------------------------------------------------
(* How much the image grows *)

\* What a model does to the size of its input (external)
ModelScale(name) ==
  IF name \in DOMAIN NamedScale THEN NamedScale[name]
  ELSE IF name = AnimeVideo[2] THEN 3
  ELSE IF name = AnimeVideo[3] THEN 4
  ELSE 2

\* What the rest of the program takes it to be
GetScaleFactor(o) == IF o.engine = Cugan THEN 2 ELSE o.scale
=============================================================================
