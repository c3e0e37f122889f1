------------------------------ MODULE MCOneShot ------------------------------
(***************************************************************************)
(* Two families of command lines: every way in and out of the program for  *)
(* one engine, and every engine and model for one way in and out.  The     *)
(* model directories are those of the default options, each with the       *)
(* models of its engine, complete, cut down to the fall backs, without the *)
(* .bin of all but the fall backs, with .param files only, or empty.       *)
(***************************************************************************)
EXTENDS OneShot

CuganDir == "models/realcugan/models-se"
EsrganDir == "models/realesrgan"

MCNamedScale == [named |-> 4]

Defaults ==
  [args |-> "valid", mode |-> "file", paths |-> TRUE, format |-> "webp", before |-> "old",
   engine |-> Cugan, noise_level |-> -1, quality |-> "E", scale |-> 2,
   model |-> CuganDir, model_name |-> ""]

InAndOut ==
  {[Defaults EXCEPT !.args = a, !.mode = m, !.paths = p, !.format = f, !.before = b] :
     a \in {"valid", "invalid", "help"}, m \in {"file", "stdin"}, p \in BOOLEAN,
     f \in Formats, b \in Before}
CuganLines ==
  {[Defaults EXCEPT !.noise_level = n, !.quality = q, !.scale = s, !.model = d] :
     n \in {-2, -1, 0, 1, 2, 3}, q \in {"", "F", "E", "Q", "H", "X"}, s \in {2, 4},
     d \in {"", CuganDir}}
EsrganLines ==
  {[Defaults EXCEPT !.engine = Esrgan, !.scale = s, !.model = d, !.model_name = m] :
     s \in 0 .. 5, d \in {"", CuganDir, EsrganDir}, m \in {"", "named"}}
MCCommandLines == InAndOut \cup CuganLines \cup EsrganLines

Fallbacks == {<<CuganDir, Conservative>>, <<EsrganDir, AnimeVideo[1]>>}
Models ==
  ({CuganDir} \X {CuganModels[i] : i \in 1 .. 4}) \cup
  ({EsrganDir} \X ({"named"} \cup {AnimeVideo[i] : i \in 1 .. 3})) \cup Fallbacks
Params(models) == {<<m[1], m[2], "param">> : m \in models}
Bins(models) == {<<m[1], m[2], "bin">> : m \in models}
MCDisks ==
  {Params(Models) \cup Bins(Models), Params(Fallbacks) \cup Bins(Fallbacks),
   Params(Models) \cup Bins(Fallbacks), Params(Models), {}}
MCInputs == Input
=============================================================================
