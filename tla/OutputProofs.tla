---------------------------- MODULE OutputProofs ----------------------------
(***************************************************************************)
(* Proofs about what leaves the program.                                   *)
(*                                                                         *)
(* In the modes that make one image (OneShot), for every command line,     *)
(* every set of model files and every input: OneImageInv follows the image *)
(* through the program, what exists where, and that it is the chosen       *)
(* model's and the encoder's.                                              *)
(*                                                                         *)
(* In the keep-alive mode (ResponseWire), for bytes of any base and        *)
(* responses of any number and size.  First the bytes: what                *)
(* write_protocol_response writes for a response that fits its length word *)
(* is that word and a payload of as many bytes, in which the client finds  *)
(* the response.  Then the wire: what the client has taken, what is on the *)
(* wire and what is still to be written make up what the server has begun  *)
(* to write (InStep).                                                      *)
(***************************************************************************)
EXTENDS OneShot, ResponseWire, ProofFacts

----------------------------------------------------------------------------
(* One image *)

\* What has happened so far, by where the program is
Untouched == output = NoOutput /\ file = opts.before /\ stdout = "none"

BeforeResult == pc \in {"parse", "engine", "read", "process"} => Untouched

WithResult ==
  pc \in {"write", "fill", "close"} =>
    /\ output.extent = "whole"
    /\ stdout = "none"
    /\ pc = "write" => file = opts.before
    /\ pc = "fill" => file = "partial"
    /\ pc = "close" => file \in {"whole", "buffered"}

NotYetOver == pc # "exited" => exit_code = "running"

\* The model is the one that was chosen, and there was one.
ModelLoaded ==
  pc \notin {"parse", "engine", "exited"} \/ output.extent = "whole" =>
    model = LoadedModel(opts, disk) /\ model # NoModel

\* What encode_image has made is what it makes for the format.
Encoded == output.extent = "whole" => output.container = ContainerFor

OneImageInv ==
  /\ opts \in CommandLines
  /\ BeforeResult /\ WithResult /\ NotYetOver /\ ModelLoaded /\ Encoded
  /\ OnlyResultsLeave /\ ExitCodeHonest

----------------------------------------------------------------------------
LEMMA InitOneImage == Init => OneImageInv
BY DEF Init, OneImageInv, BeforeResult, Untouched, WithResult, NotYetOver, ModelLoaded, Encoded,
       OnlyResultsLeave, ExitCodeHonest, ImageOnStdout, NoOutput

LEMMA NextOneImage == OneImageInv /\ [Next]_vars => OneImageInv'
<1> SUFFICES ASSUME OneImageInv, [Next]_vars PROVE OneImageInv'
  OBVIOUS
<1> USE DEF OneImageInv, BeforeResult, Untouched, WithResult, NotYetOver, ModelLoaded, Encoded,
            OnlyResultsLeave, ExitCodeHonest, ImageOnStdout, ContainerFor, NoOutput, world
<1>1. CASE PrintHelp
  BY <1>1 DEF PrintHelp, Exit
<1>2. CASE BadArguments
  BY <1>2 DEF BadArguments, Exit, Unprocessed, Unwritten
<1>3. CASE ParseOptions
  BY <1>3 DEF ParseOptions, Goto, Unprocessed, Unwritten
<1>4. CASE NoModelFound
  BY <1>4 DEF NoModelFound, Exit, Unprocessed, Unwritten
<1>5. CASE ModelRefused
  BY <1>5 DEF ModelRefused, Exit, Unprocessed, Unwritten
<1>6. CASE MakeEngine
  BY <1>6 DEF MakeEngine, Goto, Unwritten
<1>7. CASE NoPaths
  BY <1>7 DEF NoPaths, Exit, Unprocessed, Unwritten
<1>8. CASE NothingInFile
  BY <1>8 DEF NothingInFile, Exit, Unprocessed, Unwritten
<1>9. CASE ReadThrows
  BY <1>9 DEF ReadThrows, Exit, Unprocessed, Unwritten
<1>10. CASE NothingOnStdin
  BY <1>10 DEF NothingOnStdin, Exit, Unprocessed, Unwritten
<1>11. CASE ReadInput
  BY <1>11 DEF ReadInput, Goto, Unprocessed, Unwritten
<1>12. CASE ProcessFails
  BY <1>12 DEF ProcessFails, Exit, Unprocessed, Unwritten
<1>13. CASE EncodeImage
  BY <1>13 DEF EncodeImage, Enlarged, Goto, Unwritten
<1>14. CASE EncodeFails
  BY <1>14 DEF EncodeFails, Enlarged, Exit, Unwritten
<1>15. CASE CannotOpen
  BY <1>15 DEF CannotOpen, Exit
<1>16. CASE OpenOutput
  BY <1>16 DEF OpenOutput, Goto
<1>17. CASE WriteFails
  BY <1>17 DEF WriteFails, Exit, Unprocessed, Unwritten
<1>18. CASE WriteAccepted
  BY <1>18 DEF WriteAccepted, Goto
<1>19. CASE CloseOutput
  BY <1>19 DEF CloseOutput, Exit
<1>20. CASE WriteStdout
  BY <1>20 DEF WriteStdout, Exit
<1>21. CASE StdoutGone
  BY <1>21 DEF StdoutGone, Exit
<1>22. CASE UNCHANGED vars
  BY <1>22 DEF vars
<1> QED
  BY <1>1, <1>2, <1>3, <1>4, <1>5, <1>6, <1>7, <1>8, <1>9, <1>10, <1>11, <1>12, <1>13, <1>14,
     <1>15, <1>16, <1>17, <1>18, <1>19, <1>20, <1>21, <1>22 DEF Next, Exited

LEMMA OneImageInvariant == Spec => []OneImageInv
BY InitOneImage, NextOneImage, PTL DEF Spec

----------------------------------------------------------------------------
\* Only the result of an encoder that has finished leaves the program
\* (file_mode.cpp:22-66, stdin_mode.cpp:435-441).
THEOREM ResultsLeave == Spec => []OnlyResultsLeave
<1>1. OneImageInv => OnlyResultsLeave
  BY DEF OneImageInv
<1> QED
  BY <1>1, OneImageInvariant, PTL

\* Exit code 0 of the file mode means that the whole result went to a stream that
\* was good, and 1 that there is none, neither at --output nor on stdout
\* (main.cpp:33-43).  What the close of the stream does is left open.
THEOREM HonestExit == Spec => []ExitCodeHonest
<1>1. OneImageInv => ExitCodeHonest
  BY DEF OneImageInv
<1> QED
  BY <1>1, OneImageInvariant, PTL

----------------------------------------------------------------------------
(* Models *)

\* What load_model settles for has both its files.
LEMMA LoadedIsThere ==
  ASSUME NEW o, NEW files, LoadedModel(o, files) # NoModel
  PROVE  FilesOf(ModelRoot(o), LoadedModel(o, files)) \subseteq files
BY DEF LoadedModel

\* Every Real-CUGAN model that can be loaded enlarges twice, as get_scale_factor
\* has it (realcugan_engine.cpp:31-59), whatever --scale, --noise and --quality say.
LEMMA CuganScale ==
  ASSUME NEW o, o.engine = Cugan, NEW files, LoadedModel(o, files) # NoModel
  PROVE  ModelScale(LoadedModel(o, files)) = GetScaleFactor(o)
<1>1. ChooseModel(o) \in {CuganModels[i] : i \in 1 .. 4} \cup {Conservative}
  <2>1. CASE NoiseLevel(o) \in -1 .. 2
    <3>1. NoiseLevel(o) + 2 \in 1 .. 4
      BY <2>1
    <3> QED
      BY <2>1, <3>1 DEF ChooseModel, CuganModel
  <2> QED
    BY <2>1 DEF ChooseModel, CuganModel
<1>2. LoadedModel(o, files) \in {CuganModels[i] : i \in 1 .. 4} \cup {Conservative}
  BY <1>1 DEF LoadedModel, FallbackModelName
<1>3. LoadedModel(o, files) \notin DOMAIN NamedScale
  BY <1>2, NamedAssumption DEF NamedAssumption, BuiltInModels
<1>4. LoadedModel(o, files) \notin {AnimeVideo[2], AnimeVideo[3]}
  <2>1. \A i \in 1 .. 4 : CuganModels[i] \notin {AnimeVideo[2], AnimeVideo[3]}
    BY DEF CuganModels, AnimeVideo
  <2> QED
    BY <1>2, <2>1 DEF Conservative, AnimeVideo
<1> QED
  BY <1>3, <1>4 DEF ModelScale, GetScaleFactor

LEMMA AnimeVideoScale == \A s \in 2 .. 4 : ModelScale(AnimeVideo[s - 1]) = s
<1> SUFFICES ASSUME NEW s \in 2 .. 4 PROVE ModelScale(AnimeVideo[s - 1]) = s
  OBVIOUS
<1>1. s - 1 \in 1 .. 3 /\ (s = 2 \/ s = 3 \/ s = 4)
  OBVIOUS
<1>2. AnimeVideo[s - 1] \notin DOMAIN NamedScale
  <2>1. AnimeVideo[s - 1] \in BuiltInModels
    BY <1>1, Zenon DEF BuiltInModels
  <2> QED
    BY <2>1, NamedAssumption, Zenon DEF NamedAssumption
<1> QED
  BY <1>1, <1>2 DEF ModelScale, AnimeVideo

\* So does every Real-ESRGAN model that was chosen by its scale and is there
\* (realesrgan_engine.cpp:14-23, 50-52).
LEMMA EsrganScale ==
  ASSUME NEW o, o.engine = Esrgan, o.model_name = "", o.scale \in 2 .. 4,
         NEW files, FilesOf(ModelRoot(o), ChooseModel(o)) \subseteq files
  PROVE  ModelScale(LoadedModel(o, files)) = GetScaleFactor(o)
<1>1. LoadedModel(o, files) = AnimeVideo[o.scale - 1]
  BY DEF LoadedModel, ChooseModel, EsrganModel, Esrgan, Cugan
<1>2. GetScaleFactor(o) = o.scale
  BY DEF GetScaleFactor, Esrgan, Cugan
<1> QED
  BY <1>1, <1>2, AnimeVideoScale, Zenon

----------------------------------------------------------------------------
\* A result is in the format that was asked for, at the scale the program takes it
\* to have, and of a model that is there.
THEOREM AsAsked == Spec => []ResultAsAsked
<1>1. OneImageInv => ResultAsAsked
  <2> SUFFICES ASSUME OneImageInv, output.extent = "whole" PROVE ResultAsAsked
    BY DEF ResultAsAsked
  <2>1. model = LoadedModel(opts, disk) /\ model # NoModel
    BY DEF OneImageInv, ModelLoaded
  <2>2. FilesOf(ModelRoot(opts), model) \subseteq disk
    BY <2>1, LoadedIsThere
  <2>3. ScaleNotKept \/ ModelScale(model) = GetScaleFactor(opts)
    <3>1. opts.engine \in {Cugan, Esrgan}
      BY OneShotAssumption DEF OneShotAssumption, OneImageInv
    <3> QED
      BY <2>1, <3>1, CuganScale, EsrganScale DEF ScaleNotKept
  <2>4. output.container = ContainerFor
    BY DEF OneImageInv, Encoded
  <2> QED
    BY <2>2, <2>3, <2>4 DEF ResultAsAsked, ContainerFor
<1> QED
  BY <1>1, OneImageInvariant, PTL

----------------------------------------------------------------------------
(* Responses: the bytes *)

LEMMA Bases ==
  /\ Base \in Nat \ {0} /\ Modulus \in Nat \ {0} /\ Modulus = Base * Base
  /\ Sessions \subseteq Seq(Response)
<1>1. \A b \in Nat \ {0} : b * b \in Nat \ {0}
  OBVIOUS
<1> QED BY <1>1, WireAssumption DEF Modulus

LEMMA WordInRange == ASSUME NEW n \in Int PROVE Word(n) \in 0 .. Modulus - 1 /\ Word(n) \in Nat
<1>1. Word(n) \in 0 .. Modulus - 1
  BY Bases, DivMod DEF Word
<1> QED BY <1>1, Bases

LEMMA WordIsBytes ==
  ASSUME NEW n \in Int
  PROVE  WriteU32(n) \in Seq(Byte) /\ Len(WriteU32(n)) = WordBytes
<1>1. Word(n) \in 0 .. Modulus - 1
  BY WordInRange
<1>2. Word(n) % Base \in Byte /\ Word(n) \div Base \in Byte
  BY <1>1, Bases, DigitsOf DEF Byte
<1> QED BY <1>2 DEF WriteU32, WordBytes

LEMMA FitsAWord == ASSUME NEW n \in 0 .. Modulus - 1 PROVE Word(n) = n
BY Bases, OneDigit DEF Word

\* What the client reads where a word has been written is that word.
LEMMA NextWord ==
  ASSUME NEW n \in 0 .. Modulus - 1, NEW x \in Seq(Byte), NEW z \in Seq(Byte),
         NEW b, Parts(b, x, WriteU32(n), z)
  PROVE  ReadU32(b, Len(x)) = n /\ Len(b) >= Len(x) + WordBytes
<1>1. n \in Int /\ n \in Nat
  BY Bases
<1>2. PICK w \in Seq(Byte) : w = WriteU32(n) /\ Len(w) = 2
  BY <1>1, WordIsBytes DEF WordBytes
<1>3. Parts(b, x, w, z)
  BY <1>2
<1>4. Len(b) >= Len(x) + Len(w) /\ \A i \in 1 .. Len(w) : b[Len(x) + i] = w[i]
  BY <1>3, PartAfter
<1>5. w[1] = n % Base /\ w[2] = n \div Base
  BY <1>2, FitsAWord DEF WriteU32
<1>6. b[Len(x) + 1] = n % Base /\ b[Len(x) + 2] = n \div Base
  BY <1>2, <1>4, <1>5
<1>7. (n % Base) + Base * (n \div Base) = n
  BY Bases, DigitsOf
<1>8. PICK d \in Int, q \in Int : d = n % Base /\ q = n \div Base
  <2>1. n % Base \in Int /\ n \div Base \in Int
    BY <1>1, Bases, DivMod
  <2> QED BY <2>1
<1>9. q * Base = Base * q
  BY Bases
<1>10. ReadU32(b, Len(x)) = d + q * Base
  BY <1>6, <1>8 DEF ReadU32
<1>11. d + Base * q = n
  BY <1>7, <1>8
<1>12. Len(b) >= Len(x) + WordBytes
  BY <1>2, <1>4 DEF WordBytes
<1> QED BY <1>9, <1>10, <1>11, <1>12

----------------------------------------------------------------------------
(* Sums over the outputs *)

SizeOfOutputs(s) == FoldLeft(LAMBDA sum, bytes : sum + WordBytes + Len(bytes), 0, s)

\* What the recursive function inside it is
Sizes(it, s) ==
  it = [T \in SUBSET DOMAIN s |->
          IF T = {} THEN 0 ELSE it[T \ {Max(T)}] + WordBytes + Len(s[Max(T)])]

PayloadOfOutputs(from, s) ==
  FoldLeft(LAMBDA sum, bytes : Word(sum + WordBytes + Word(Len(bytes))), from, s)

Payloads(it, from, s) ==
  it = [T \in SUBSET DOMAIN s |->
          IF T = {} THEN from
          ELSE Word(it[T \ {Max(T)}] + WordBytes + Word(Len(s[Max(T)])))]

LEMMA SizesExist ==
  ASSUME NEW s \in Seq(Seq(Byte))
  PROVE  \E it : Sizes(it, s)
<1> DEFINE n == Len(s)
           op == [x \in 1 .. n |-> [v \in Nat |-> v + WordBytes + Len(s[x])]]
<1>1. n \in Nat /\ DOMAIN s = 1 .. n
  BY LenProperties
<1>2. ASSUME NEW x \in 1 .. n, NEW v \in Nat PROVE v + WordBytes + Len(s[x]) \in Nat
  <2>1. s[x] \in Seq(Byte)
    BY ElementOfSeq
  <2>2. PICK l \in Nat : l = Len(s[x])
    BY <2>1, LenProperties
  <2>3. v + 2 + l \in Nat
    OBVIOUS
  <2> QED BY <2>2, <2>3 DEF WordBytes
<1>3. op \in [1 .. n -> [Nat -> Nat]]
  BY <1>2
<1>4. \A x \in 1 .. n : \A v \in Nat : op[x][v] = v + WordBytes + Len(s[x])
  OBVIOUS
<1> HIDE DEF n, op
<1>5. PICK it \in [SUBSET (1 .. n) -> Nat] : Iterates(it, op, 0, n)
  BY <1>1, <1>3, IterationExists DEF HasIteration
<1>6. ASSUME NEW T \in SUBSET (1 .. n)
      PROVE  it[T] = IF T = {} THEN 0 ELSE it[T \ {Max(T)}] + WordBytes + Len(s[Max(T)])
  <2>1. it[T] = IF T = {} THEN 0 ELSE op[Max(T)][it[T \ {Max(T)}]]
    BY <1>5 DEF Iterates
  <2>2. T # {} => Max(T) \in 1 .. n
    BY <1>1, MaxIn
  <2>3. it[T \ {Max(T)}] \in Nat
    BY <1>5
  <2> QED BY <1>4, <2>1, <2>2, <2>3
<1>7. it = [T \in SUBSET (1 .. n) |-> it[T]]
  BY <1>5
<1>8. it = [T \in SUBSET (1 .. n) |->
              IF T = {} THEN 0 ELSE it[T \ {Max(T)}] + WordBytes + Len(s[Max(T)])]
  BY <1>6, <1>7
<1> QED BY <1>1, <1>8 DEF Sizes

LEMMA SizesStep ==
  ASSUME NEW s \in Seq(Seq(Byte)), NEW it, Sizes(it, s)
  PROVE  /\ it[{}] = 0
         /\ \A k \in Nat : k + 1 <= Len(s) =>
              it[1 .. k + 1] = it[1 .. k] + WordBytes + Len(s[k + 1])
<1> DEFINE step(T) == IF T = {} THEN 0 ELSE it[T \ {Max(T)}] + WordBytes + Len(s[Max(T)])
<1>1. it = [T \in SUBSET DOMAIN s |-> step(T)]
  BY DEF Sizes
<1>2. DOMAIN s = 1 .. Len(s) /\ Len(s) \in Nat
  BY LenProperties
<1> HIDE DEF step
<1>3. \A T \in SUBSET (1 .. Len(s)) : it[T] = step(T)
  BY <1>1, <1>2
<1>4. it[{}] = 0
  <2>1. {} \in SUBSET (1 .. Len(s))
    OBVIOUS
  <2> QED BY <1>3, <2>1 DEF step
<1>5. ASSUME NEW k \in Nat, k + 1 <= Len(s)
      PROVE  it[1 .. k + 1] = it[1 .. k] + WordBytes + Len(s[k + 1])
  <2>1. 1 .. k + 1 \in SUBSET (1 .. Len(s))
    BY <1>2, <1>5
  <2>2. it[1 .. k + 1] = step(1 .. k + 1)
    BY <1>3, <2>1
  <2> QED BY <2>2, UpTo DEF step
<1> QED BY <1>4, <1>5

LEMMA SizeIs ==
  ASSUME NEW s \in Seq(Seq(Byte))
  PROVE  \E it : Sizes(it, s) /\ SizeOfOutputs(s) = it[1 .. Len(s)]
<1> DEFINE it == CHOOSE f : Sizes(f, s)
<1>1. SizeOfOutputs(s) = it[DOMAIN s]
  BY Zenon DEF SizeOfOutputs, FoldLeft, MapThenFoldSet, Sizes
<1>2. Sizes(it, s)
  BY SizesExist, Zenon
<1>3. DOMAIN s = 1 .. Len(s)
  BY LenProperties
<1> QED BY <1>1, <1>2, <1>3

LEMMA PayloadsExist ==
  ASSUME NEW s \in Seq(Seq(Byte)), NEW from \in Nat
  PROVE  \E it : Payloads(it, from, s)
<1> DEFINE n == Len(s)
           op == [x \in 1 .. n |-> [v \in Nat |-> Word(v + WordBytes + Word(Len(s[x])))]]
<1>1. n \in Nat /\ DOMAIN s = 1 .. n
  BY LenProperties
<1>2. ASSUME NEW x \in 1 .. n, NEW v \in Nat
      PROVE  Word(v + WordBytes + Word(Len(s[x]))) \in Nat
  <2>1. s[x] \in Seq(Byte)
    BY ElementOfSeq
  <2>2. PICK l \in Nat : l = Len(s[x])
    BY <2>1, LenProperties
  <2>3. Word(l) \in Nat
    <3>1. l \in Int
      OBVIOUS
    <3> QED BY <3>1, WordInRange
  <2>4. v + WordBytes + Word(l) \in Nat
    BY <2>3 DEF WordBytes
  <2>5. Word(v + WordBytes + Word(l)) \in Nat
    BY <2>4, WordInRange
  <2> QED BY <2>2, <2>5
<1>3. op \in [1 .. n -> [Nat -> Nat]]
  BY <1>2
<1>4. \A x \in 1 .. n : \A v \in Nat : op[x][v] = Word(v + WordBytes + Word(Len(s[x])))
  OBVIOUS
<1> HIDE DEF n, op
<1>5. PICK it \in [SUBSET (1 .. n) -> Nat] : Iterates(it, op, from, n)
  BY <1>1, <1>3, IterationExists DEF HasIteration
<1>6. ASSUME NEW T \in SUBSET (1 .. n)
      PROVE  it[T] = IF T = {} THEN from
                     ELSE Word(it[T \ {Max(T)}] + WordBytes + Word(Len(s[Max(T)])))
  <2>1. it[T] = IF T = {} THEN from ELSE op[Max(T)][it[T \ {Max(T)}]]
    BY <1>5 DEF Iterates
  <2>2. T # {} => Max(T) \in 1 .. n
    BY <1>1, MaxIn
  <2>3. it[T \ {Max(T)}] \in Nat
    BY <1>5
  <2> QED BY <1>4, <2>1, <2>2, <2>3
<1>7. it = [T \in SUBSET (1 .. n) |-> it[T]]
  BY <1>5
<1>8. it = [T \in SUBSET (1 .. n) |->
              IF T = {} THEN from
              ELSE Word(it[T \ {Max(T)}] + WordBytes + Word(Len(s[Max(T)])))]
  BY <1>6, <1>7
<1> QED BY <1>1, <1>8 DEF Payloads

LEMMA PayloadsStep ==
  ASSUME NEW s \in Seq(Seq(Byte)), NEW from, NEW it, Payloads(it, from, s)
  PROVE  /\ it[{}] = from
         /\ \A k \in Nat : k + 1 <= Len(s) =>
              it[1 .. k + 1] = Word(it[1 .. k] + WordBytes + Word(Len(s[k + 1])))
<1> DEFINE step(T) == IF T = {} THEN from
                      ELSE Word(it[T \ {Max(T)}] + WordBytes + Word(Len(s[Max(T)])))
<1>1. it = [T \in SUBSET DOMAIN s |-> step(T)]
  BY DEF Payloads
<1>2. DOMAIN s = 1 .. Len(s) /\ Len(s) \in Nat
  BY LenProperties
<1> HIDE DEF step
<1>3. \A T \in SUBSET (1 .. Len(s)) : it[T] = step(T)
  BY <1>1, <1>2
<1>4. it[{}] = from
  <2>1. {} \in SUBSET (1 .. Len(s))
    OBVIOUS
  <2> QED BY <1>3, <2>1 DEF step
<1>5. ASSUME NEW k \in Nat, k + 1 <= Len(s)
      PROVE  it[1 .. k + 1] = Word(it[1 .. k] + WordBytes + Word(Len(s[k + 1])))
  <2>1. 1 .. k + 1 \in SUBSET (1 .. Len(s))
    BY <1>2, <1>5
  <2>2. it[1 .. k + 1] = step(1 .. k + 1)
    BY <1>3, <2>1
  <2> QED BY <2>2, UpTo DEF step
<1> QED BY <1>4, <1>5

LEMMA PayloadIs ==
  ASSUME NEW s \in Seq(Seq(Byte)), NEW from \in Nat
  PROVE  \E it : Payloads(it, from, s) /\ PayloadOfOutputs(from, s) = it[1 .. Len(s)]
<1> DEFINE it == CHOOSE f : Payloads(f, from, s)
<1>1. PayloadOfOutputs(from, s) = it[DOMAIN s]
  BY Zenon DEF PayloadOfOutputs, FoldLeft, MapThenFoldSet, Payloads
<1>2. Payloads(it, from, s)
  BY PayloadsExist, Zenon
<1>3. DOMAIN s = 1 .. Len(s)
  BY LenProperties
<1> QED BY <1>1, <1>2, <1>3

\* As long as the sum fits a word, no sum of uint32_t on the way has wrapped around.
LEMMA NothingWraps ==
  ASSUME NEW s \in Seq(Seq(Byte)), NEW from \in Nat
  PROVE  /\ SizeOfOutputs(s) \in Nat /\ Len(s) <= SizeOfOutputs(s)
         /\ from + SizeOfOutputs(s) < Modulus =>
              PayloadOfOutputs(from, s) = from + SizeOfOutputs(s)
<1>1. Len(s) \in Nat /\ Modulus \in Nat
  BY LenProperties, Bases
<1>2. PICK f : Sizes(f, s) /\ SizeOfOutputs(s) = f[1 .. Len(s)]
  BY SizeIs
<1>3. PICK g : Payloads(g, from, s) /\ PayloadOfOutputs(from, s) = g[1 .. Len(s)]
  BY PayloadIs
<1> DEFINE U == {k \in Nat : k <= Len(s) =>
                   /\ f[1 .. k] \in Nat /\ k <= f[1 .. k]
                   /\ from + f[1 .. k] < Modulus => g[1 .. k] = from + f[1 .. k]}
<1>4. 0 \in U
  <2>1. 1 .. 0 = {}
    OBVIOUS
  <2>2. f[{}] = 0 /\ g[{}] = from
    BY <1>2, <1>3, SizesStep, PayloadsStep
  <2> QED BY <2>1, <2>2
<1>5. ASSUME NEW k \in Nat, k \in U PROVE k + 1 \in U
  <2> SUFFICES ASSUME k + 1 <= Len(s)
               PROVE  /\ f[1 .. k + 1] \in Nat /\ k + 1 <= f[1 .. k + 1]
                      /\ from + f[1 .. k + 1] < Modulus => g[1 .. k + 1] = from + f[1 .. k + 1]
    OBVIOUS
  <2>1. PICK l \in Nat : l = Len(s[k + 1])
    <3>1. s[k + 1] \in Seq(Byte)
      BY <1>1, ElementOfSeq
    <3> QED BY <3>1, LenProperties
  <2>2. f[1 .. k + 1] = f[1 .. k] + 2 + l
    BY <1>2, <2>1, SizesStep DEF WordBytes
  <2>3. g[1 .. k + 1] = Word(g[1 .. k] + 2 + Word(l))
    BY <1>3, <2>1, PayloadsStep DEF WordBytes
  <2>4. PICK a \in Nat : a = f[1 .. k] /\ k <= a /\ (from + a < Modulus => g[1 .. k] = from + a)
    BY <1>1, <1>5
  <2>5. ASSUME from + (a + 2 + l) < Modulus PROVE g[1 .. k + 1] = from + (a + 2 + l)
    <3>1. l \in 0 .. Modulus - 1 /\ from + a < Modulus
      BY <1>1, <2>5
    <3>2. Word(l) = l
      BY <3>1, FitsAWord
    <3>3. PICK m \in 0 .. Modulus - 1 : m = from + a + 2 + l
      BY <1>1, <2>5
    <3>4. Word(m) = m
      BY FitsAWord
    <3>5. g[1 .. k] = from + a
      BY <2>4, <3>1
    <3>6. from + a + 2 + l = m /\ from + (a + 2 + l) = m
      BY <1>1, <3>3
    <3>7. g[1 .. k] + 2 + Word(l) = m
      BY <3>2, <3>5, <3>6
    <3>8. g[1 .. k + 1] = m
      BY <2>3, <3>4, <3>7, Zenon
    <3> QED BY <3>6, <3>8
  <2>6. PICK x, y : x = f[1 .. k + 1] /\ y = g[1 .. k + 1]
    OBVIOUS
  <2>7. x \in Nat /\ k + 1 <= x /\ (from + x < Modulus => y = from + x)
    <3>1. x = a + 2 + l
      BY <2>2, <2>4, <2>6, Zenon
    <3>2. from + (a + 2 + l) < Modulus => y = from + (a + 2 + l)
      BY <2>5, <2>6, Zenon
    <3>3. a + 2 + l \in Nat /\ k + 1 <= a + 2 + l
      BY <2>4
    <3> QED BY <3>1, <3>2, <3>3, Zenon
  <2> QED BY <2>6, <2>7, Zenon
<1> HIDE DEF U
<1>6. Len(s) \in U
  BY <1>1, <1>4, <1>5, Induction
<1> QED BY <1>1, <1>2, <1>3, <1>6 DEF U
----------------------------------------------------------------------------
(* A response on the wire *)

\* The outputs as they are written, each after its length
EncodedOutputs(s) == [i \in DOMAIN s |-> WriteU32(Len(s[i])) \o s[i]]
Outputs(s) == FlattenSeq(EncodedOutputs(s))

UpToId(r) == WriteU32(r.request_id)
UpToStatus(r) == Cat(UpToId(r), WriteU32(r.status))
UpToErrorLength(r) == Cat(UpToStatus(r), WriteU32(Len(r.error)))
UpToError(r) == Cat(UpToErrorLength(r), r.error)
UpToCount(r) == Cat(UpToError(r), WriteU32(Len(r.outputs)))
Body(r) == Cat(UpToCount(r), Outputs(r.outputs))

Encoding(r) == FlattenSeq(Writes(r))

LEMMA ResponseFields ==
  ASSUME NEW r \in Response
  PROVE  /\ r.request_id \in 0 .. Modulus - 1 /\ r.status \in 0 .. Modulus - 1
         /\ r.request_id \in Int /\ r.status \in Int
         /\ r.error \in Seq(Byte) /\ r.outputs \in Seq(Seq(Byte))
         /\ Len(r.error) \in Nat /\ Len(r.outputs) \in Nat
<1>1. /\ r.request_id \in 0 .. Modulus - 1 /\ r.status \in 0 .. Modulus - 1
      /\ r.error \in Seq(Byte) /\ r.outputs \in Seq(Seq(Byte))
  BY DEF Response
<1> QED BY <1>1, Bases, LenProperties

LEMMA EncodedOutput ==
  ASSUME NEW bytes \in Seq(Byte)
  PROVE  /\ WriteU32(Len(bytes)) \o bytes \in Seq(Byte)
         /\ Len(WriteU32(Len(bytes)) \o bytes) = WordBytes + Len(bytes)
         /\ WriteOutput(bytes) \in Seq(Seq(Byte))
         /\ FlattenSeq(WriteOutput(bytes)) = WriteU32(Len(bytes)) \o bytes
<1>1. PICK w \in Seq(Byte) : w = WriteU32(Len(bytes)) /\ Len(w) = WordBytes
  <2>1. Len(bytes) \in Int
    BY LenProperties
  <2> QED BY <2>1, WordIsBytes
<1>2. w \o bytes \in Seq(Byte) /\ Len(w \o bytes) = WordBytes + Len(bytes)
  BY <1>1, ConcatProperties
<1>3. <<w>> \in Seq(Seq(Byte)) /\ <<bytes>> \in Seq(Seq(Byte)) /\ <<>> \in Seq(Seq(Byte))
  BY EmptySeq
<1>4. Bytes(bytes) \in Seq(Seq(Byte)) /\ FlattenSeq(Bytes(bytes)) = bytes
  BY <1>3, FlattenOne, FlattenEmpty DEF Bytes
<1>5. PICK p \in Seq(Seq(Byte)) : p = <<w>> /\ FlattenSeq(p) = w
  BY <1>3, FlattenOne
<1>6. PICK q \in Seq(Seq(Byte)) : q = Bytes(bytes) /\ FlattenSeq(q) = bytes
  BY <1>4
<1>7. FlattenSeq(p \o q) = w \o bytes /\ p \o q \in Seq(Seq(Byte))
  <2>1. FlattenSeq(p \o q) = Cat(FlattenSeq(p), FlattenSeq(q))
    BY FlattenConcat
  <2>2. p \o q \in Seq(Seq(Byte))
    BY ConcatProperties
  <2> QED BY <1>5, <1>6, <2>1, <2>2 DEF Cat
<1> QED BY <1>1, <1>2, <1>5, <1>6, <1>7 DEF WriteOutput

LEMMA EncodedOutputsInSeq ==
  ASSUME NEW s \in Seq(Seq(Byte))
  PROVE  /\ EncodedOutputs(s) \in Seq(Seq(Byte))
         /\ Len(EncodedOutputs(s)) = Len(s)
         /\ \A i \in 1 .. Len(s) : EncodedOutputs(s)[i] = WriteU32(Len(s[i])) \o s[i]
         /\ [i \in DOMAIN s |-> WriteOutput(s[i])] \in Seq(Seq(Seq(Byte)))
         /\ Len([i \in DOMAIN s |-> WriteOutput(s[i])]) = Len(s)
<1>1. Len(s) \in Nat /\ DOMAIN s = 1 .. Len(s)
  BY LenProperties
<1> DEFINE e(i) == WriteU32(Len(s[i])) \o s[i]
           w(i) == WriteOutput(s[i])
<1>2. \A i \in 1 .. Len(s) : e(i) \in Seq(Byte) /\ w(i) \in Seq(Seq(Byte))
  <2>1. \A i \in 1 .. Len(s) : s[i] \in Seq(Byte)
    BY ElementOfSeq
  <2> QED BY <2>1, EncodedOutput
<1>3. EncodedOutputs(s) = [i \in 1 .. Len(s) |-> e(i)]
  BY <1>1 DEF EncodedOutputs
<1>4. [i \in DOMAIN s |-> WriteOutput(s[i])] = [i \in 1 .. Len(s) |-> w(i)]
  BY <1>1
<1>5. \A i \in 1 .. Len(s) : e(i) = WriteU32(Len(s[i])) \o s[i]
  OBVIOUS
<1> HIDE DEF e, w
<1>6. [i \in 1 .. Len(s) |-> e(i)] \in Seq(Seq(Byte))
  BY <1>1, <1>2
<1>7. [i \in 1 .. Len(s) |-> w(i)] \in Seq(Seq(Seq(Byte)))
  BY <1>1, <1>2
<1> QED BY <1>1, <1>3, <1>4, <1>5, <1>6, <1>7

\* The payload is as long as Size says.
LEMMA OutputsLength ==
  ASSUME NEW s \in Seq(Seq(Byte))
  PROVE  Outputs(s) \in Seq(Byte) /\ Len(Outputs(s)) = SizeOfOutputs(s)
<1>1. PICK n \in Nat : n = Len(s)
  BY LenProperties
<1>2. PICK f : Sizes(f, s) /\ SizeOfOutputs(s) = f[1 .. n]
  BY <1>1, SizeIs
<1>3. PICK t \in Seq(Seq(Byte)) : t = EncodedOutputs(s) /\ Len(t) = n
  BY <1>1, EncodedOutputsInSeq
<1>4. \A i \in 1 .. n : t[i] = WriteU32(Len(s[i])) \o s[i]
  BY <1>1, <1>3, EncodedOutputsInSeq
<1> DEFINE F(k) == FlattenSeq(SubSeq(t, 1, k))
           U == {k \in Nat : k <= n => F(k) \in Seq(Byte) /\ Len(F(k)) = f[1 .. k]}
<1>5. 0 \in U
  <2>1. 1 .. 0 = {} /\ SubSeq(t, 1, 0) = <<>>
    BY SubSeqEmpty
  <2>2. f[{}] = 0
    BY <1>2, SizesStep
  <2> QED BY <2>1, <2>2, FlattenEmpty, EmptySeq
<1>6. ASSUME NEW k \in Nat, k \in U PROVE k + 1 \in U
  <2> SUFFICES ASSUME k + 1 <= n
               PROVE  F(k + 1) \in Seq(Byte) /\ Len(F(k + 1)) = f[1 .. k + 1]
    OBVIOUS
  <2>1. /\ SubSeq(t, 1, k) \in Seq(Seq(Byte)) /\ t[k + 1] \in Seq(Byte)
        /\ SubSeq(t, 1, k + 1) = Append(SubSeq(t, 1, k), t[k + 1])
    BY <1>3, PrefixStep
  <2>2. PICK p \in Seq(Seq(Byte)), e \in Seq(Byte) :
          p = SubSeq(t, 1, k) /\ e = t[k + 1] /\ SubSeq(t, 1, k + 1) = Append(p, e)
    BY <2>1
  <2>3. FlattenSeq(Append(p, e)) = FlattenSeq(p) \o e
    BY FlattenOneMore
  <2>4. FlattenSeq(p) \in Seq(Byte) /\ Len(FlattenSeq(p)) = f[1 .. k]
    BY <1>6, <2>2
  <2>5. PICK x \in Seq(Byte) : x = FlattenSeq(p) /\ Len(x) = f[1 .. k]
    BY <2>4
  <2>6. x \o e \in Seq(Byte) /\ Len(x \o e) = Len(x) + Len(e)
    BY ConcatProperties
  <2>7. Len(e) = WordBytes + Len(s[k + 1])
    <3>1. k + 1 \in 1 .. Len(s) /\ k + 1 \in 1 .. n
      BY <1>1
    <3>2. s[k + 1] \in Seq(Byte)
      BY <3>1, ElementOfSeq
    <3>3. e = WriteU32(Len(s[k + 1])) \o s[k + 1]
      BY <1>4, <2>2, <3>1
    <3> QED BY <3>2, <3>3, EncodedOutput
  <2>8. f[1 .. k + 1] = f[1 .. k] + WordBytes + Len(s[k + 1])
    BY <1>1, <1>2, SizesStep
  <2>9. Len(s[k + 1]) \in Nat /\ Len(x) \in Nat
    <3>1. s[k + 1] \in Seq(Byte)
      BY <1>1, ElementOfSeq
    <3> QED BY <3>1, LenProperties
  <2>10. f[1 .. k + 1] = Len(x) + Len(e)
    <3>1. PICK a \in Nat, l \in Nat : a = Len(x) /\ l = Len(s[k + 1])
      BY <2>9
    <3>2. Len(e) = 2 + l /\ f[1 .. k + 1] = a + 2 + l
      BY <2>5, <2>7, <2>8, <3>1 DEF WordBytes
    <3>3. a + 2 + l = a + (2 + l)
      OBVIOUS
    <3> QED BY <3>1, <3>2, <3>3
  <2> QED BY <2>2, <2>3, <2>5, <2>6, <2>10
<1> HIDE DEF F, U
<1>7. n \in U
  BY <1>5, <1>6, Induction
<1>8. F(n) \in Seq(Byte) /\ Len(F(n)) = f[1 .. n]
  BY <1>7 DEF U
<1>9. F(n) = Outputs(s)
  BY <1>3, SubSeqFull DEF F, Outputs
<1> QED BY <1>2, <1>8, <1>9

\* The calls of stream.write for the outputs write just that.
LEMMA OutputsWritten ==
  ASSUME NEW s \in Seq(Seq(Byte))
  PROVE  LET writes == FlattenSeq([i \in DOMAIN s |-> WriteOutput(s[i])])
         IN  writes \in Seq(Seq(Byte)) /\ FlattenSeq(writes) = Outputs(s)
<1>1. PICK n \in Nat : n = Len(s)
  BY LenProperties
<1>2. PICK t \in Seq(Seq(Byte)) : t = EncodedOutputs(s) /\ Len(t) = n
  BY <1>1, EncodedOutputsInSeq
<1>3. PICK w \in Seq(Seq(Seq(Byte))) : w = [i \in DOMAIN s |-> WriteOutput(s[i])] /\ Len(w) = n
  BY <1>1, EncodedOutputsInSeq
<1>4. \A i \in 1 .. n : w[i] = WriteOutput(s[i]) /\ FlattenSeq(w[i]) = t[i]
  <2>1. DOMAIN s = 1 .. n /\ \A i \in 1 .. n : s[i] \in Seq(Byte)
    BY <1>1, LenProperties, ElementOfSeq
  <2>2. \A i \in 1 .. n : w[i] = WriteOutput(s[i])
    BY <1>3, <2>1
  <2>3. \A i \in 1 .. n : t[i] = WriteU32(Len(s[i])) \o s[i]
    BY <1>1, <1>2, EncodedOutputsInSeq
  <2>4. ASSUME NEW i \in 1 .. n PROVE FlattenSeq(w[i]) = t[i]
    <3>1. PICK o \in Seq(Byte) : o = s[i]
      BY <2>1
    <3>2. FlattenSeq(WriteOutput(o)) = WriteU32(Len(o)) \o o
      BY EncodedOutput
    <3> QED BY <2>2, <2>3, <3>1, <3>2
  <2> QED BY <2>2, <2>4
<1> DEFINE F(k) == FlattenSeq(FlattenSeq(SubSeq(w, 1, k)))
           G(k) == FlattenSeq(SubSeq(t, 1, k))
           U == {k \in Nat : k <= n => F(k) = G(k)}
<1>5. 0 \in U
  <2>1. SubSeq(t, 1, 0) = <<>> /\ SubSeq(w, 1, 0) = <<>>
    BY SubSeqEmpty
  <2> QED BY <2>1, FlattenEmpty
<1>6. ASSUME NEW k \in Nat, k \in U PROVE k + 1 \in U
  <2> SUFFICES ASSUME k + 1 <= n PROVE F(k + 1) = G(k + 1)
    OBVIOUS
  <2>1. PICK p \in Seq(Seq(Byte)), e \in Seq(Byte) :
          p = SubSeq(t, 1, k) /\ e = t[k + 1] /\ SubSeq(t, 1, k + 1) = Append(p, e)
    <3>1. /\ SubSeq(t, 1, k) \in Seq(Seq(Byte)) /\ t[k + 1] \in Seq(Byte)
          /\ SubSeq(t, 1, k + 1) = Append(SubSeq(t, 1, k), t[k + 1])
      BY <1>2, PrefixStep
    <3> QED BY <3>1
  <2>2. PICK q \in Seq(Seq(Seq(Byte))), d \in Seq(Seq(Byte)) :
          q = SubSeq(w, 1, k) /\ d = w[k + 1] /\ SubSeq(w, 1, k + 1) = Append(q, d)
    <3>1. /\ SubSeq(w, 1, k) \in Seq(Seq(Seq(Byte))) /\ w[k + 1] \in Seq(Seq(Byte))
          /\ SubSeq(w, 1, k + 1) = Append(SubSeq(w, 1, k), w[k + 1])
      BY <1>3, PrefixStep
    <3> QED BY <3>1
  <2>3. FlattenSeq(Append(p, e)) = FlattenSeq(p) \o e /\ FlattenSeq(Append(q, d)) = FlattenSeq(q) \o d
    BY FlattenOneMore
  <2>4. PICK fq \in Seq(Seq(Byte)) : fq = FlattenSeq(q)
    BY FlattenInSeq
  <2>5. FlattenSeq(fq \o d) = Cat(FlattenSeq(fq), FlattenSeq(d))
    BY FlattenConcat
  <2>6. FlattenSeq(fq) = FlattenSeq(p)
    BY <1>6, <2>1, <2>2, <2>4
  <2>7. FlattenSeq(d) = e
    BY <1>4, <2>1, <2>2
  <2> QED BY <2>1, <2>2, <2>3, <2>4, <2>5, <2>6, <2>7 DEF Cat
<1> HIDE DEF F, G, U
<1>7. n \in U
  BY <1>5, <1>6, Induction
<1>8. F(n) = G(n)
  BY <1>7 DEF U
<1>9. SubSeq(t, 1, n) = t /\ SubSeq(w, 1, n) = w
  BY <1>2, <1>3, SubSeqFull
<1> QED BY <1>2, <1>3, <1>8, <1>9, FlattenInSeq DEF F, G, Outputs

\* Where the fields of the payload are
LEMMA BodyFields ==
  ASSUME NEW r \in Response
  PROVE  /\ UpToId(r) \in Seq(Byte) /\ Len(UpToId(r)) = WordBytes
         /\ UpToStatus(r) \in Seq(Byte) /\ Len(UpToStatus(r)) = 2 * WordBytes
         /\ UpToErrorLength(r) \in Seq(Byte) /\ Len(UpToErrorLength(r)) = 3 * WordBytes
         /\ UpToError(r) \in Seq(Byte) /\ Len(UpToError(r)) = 3 * WordBytes + Len(r.error)
         /\ UpToCount(r) \in Seq(Byte) /\ Len(UpToCount(r)) = 4 * WordBytes + Len(r.error)
         /\ Body(r) \in Seq(Byte)
         /\ Len(Body(r)) = 4 * WordBytes + Len(r.error) + SizeOfOutputs(r.outputs)
<1>1. /\ r.request_id \in Int /\ r.status \in Int
      /\ r.error \in Seq(Byte) /\ r.outputs \in Seq(Seq(Byte))
  BY ResponseFields
<1>2. PICK n \in Nat, m \in Nat : n = Len(r.error) /\ m = Len(r.outputs)
  BY ResponseFields
<1>3. PICK w1 \in Seq(Byte), w2 \in Seq(Byte), w3 \in Seq(Byte), w5 \in Seq(Byte) :
        /\ w1 = WriteU32(r.request_id) /\ Len(w1) = 2
        /\ w2 = WriteU32(r.status) /\ Len(w2) = 2
        /\ w3 = WriteU32(Len(r.error)) /\ Len(w3) = 2
        /\ w5 = WriteU32(Len(r.outputs)) /\ Len(w5) = 2
  <2>1. n \in Int /\ m \in Int
    OBVIOUS
  <2> QED BY <1>1, <1>2, <2>1, WordIsBytes DEF WordBytes
<1>4. UpToId(r) \in Seq(Byte) /\ Len(UpToId(r)) = 2
  BY <1>3 DEF UpToId
<1>5. UpToStatus(r) \in Seq(Byte) /\ Len(UpToStatus(r)) = 4
  <2>1. UpToStatus(r) = Cat(UpToId(r), w2)
    BY <1>3 DEF UpToStatus
  <2>2. PICK x \in Seq(Byte) : x = UpToId(r) /\ Len(x) = 2
    BY <1>4
  <2>3. Cat(x, w2) \in Seq(Byte) /\ Len(Cat(x, w2)) = Len(x) + Len(w2)
    BY CatInSeq
  <2> QED BY <1>3, <2>1, <2>2, <2>3
<1>6. UpToErrorLength(r) \in Seq(Byte) /\ Len(UpToErrorLength(r)) = 6
  <2>1. UpToErrorLength(r) = Cat(UpToStatus(r), w3)
    BY <1>3 DEF UpToErrorLength
  <2>2. PICK x \in Seq(Byte) : x = UpToStatus(r) /\ Len(x) = 4
    BY <1>5
  <2>3. Cat(x, w3) \in Seq(Byte) /\ Len(Cat(x, w3)) = Len(x) + Len(w3)
    BY CatInSeq
  <2> QED BY <1>3, <2>1, <2>2, <2>3
<1>7. UpToError(r) \in Seq(Byte) /\ Len(UpToError(r)) = 6 + n
  BY <1>1, <1>2, <1>6, CatInSeq DEF UpToError
<1>8. UpToCount(r) \in Seq(Byte) /\ Len(UpToCount(r)) = 8 + n
  <2>1. UpToCount(r) = Cat(UpToError(r), w5)
    BY <1>3 DEF UpToCount
  <2>2. PICK x \in Seq(Byte) : x = UpToError(r) /\ Len(x) = 6 + n
    BY <1>7
  <2>3. Cat(x, w5) \in Seq(Byte) /\ Len(Cat(x, w5)) = Len(x) + Len(w5)
    BY CatInSeq
  <2> QED BY <1>3, <2>1, <2>2, <2>3
<1>9. PICK o \in Seq(Byte) : o = Outputs(r.outputs) /\ Len(o) = SizeOfOutputs(r.outputs)
  BY <1>1, OutputsLength
<1>10. Body(r) \in Seq(Byte) /\ Len(Body(r)) = 8 + n + Len(o)
  BY <1>8, <1>9, CatInSeq DEF Body
<1> QED BY <1>2, <1>4, <1>5, <1>6, <1>7, <1>8, <1>9, <1>10 DEF WordBytes

LEMMA BodyParts ==
  ASSUME NEW r \in Response
  PROVE  \E z1, z2, z3, z4, z5 \in Seq(Byte) :
           /\ Parts(Body(r), <<>>, WriteU32(r.request_id), z1)
           /\ Parts(Body(r), UpToId(r), WriteU32(r.status), z2)
           /\ Parts(Body(r), UpToStatus(r), WriteU32(Len(r.error)), z3)
           /\ Parts(Body(r), UpToErrorLength(r), r.error, z4)
           /\ Parts(Body(r), UpToError(r), WriteU32(Len(r.outputs)), z5)
           /\ Parts(Body(r), UpToCount(r), Outputs(r.outputs), <<>>)
<1>1. /\ UpToId(r) \in Seq(Byte) /\ UpToStatus(r) \in Seq(Byte) /\ UpToErrorLength(r) \in Seq(Byte)
      /\ UpToError(r) \in Seq(Byte) /\ UpToCount(r) \in Seq(Byte) /\ Body(r) \in Seq(Byte)
  BY BodyFields
<1>2. PICK w1 \in Seq(Byte), w2 \in Seq(Byte), w3 \in Seq(Byte), w5 \in Seq(Byte) :
        /\ w1 = WriteU32(r.request_id) /\ w2 = WriteU32(r.status)
        /\ w3 = WriteU32(Len(r.error)) /\ w5 = WriteU32(Len(r.outputs))
  <2>1. Len(r.error) \in Int /\ Len(r.outputs) \in Int
    BY ResponseFields
  <2> QED BY <2>1, ResponseFields, WordIsBytes
<1>3. PICK e \in Seq(Byte), o \in Seq(Byte), none \in Seq(Byte) :
        e = r.error /\ o = Outputs(r.outputs) /\ none = <<>>
  <2>1. <<>> \in Seq(Byte)
    BY EmptySeq
  <2> QED BY <2>1, ResponseFields, OutputsLength
<1>4. Parts(Body(r), UpToCount(r), o, none)
  <2>1. Body(r) \o <<>> = Body(r)
    BY <1>1, ConcatEmptySeq
  <2> QED BY <1>3, <2>1 DEF Parts, Body, Cat
<1>5. UpToCount(r) = Cat(UpToError(r), w5)
  BY <1>2 DEF UpToCount
<1>6. PICK z5 \in Seq(Byte) : Parts(Body(r), UpToError(r), w5, z5)
  BY <1>1, <1>4, <1>5, PartBefore
<1>7. UpToError(r) = Cat(UpToErrorLength(r), e)
  BY <1>3 DEF UpToError
<1>8. PICK z4 \in Seq(Byte) : Parts(Body(r), UpToErrorLength(r), e, z4)
  BY <1>1, <1>6, <1>7, PartBefore
<1>9. UpToErrorLength(r) = Cat(UpToStatus(r), w3)
  BY <1>2 DEF UpToErrorLength
<1>10. PICK z3 \in Seq(Byte) : Parts(Body(r), UpToStatus(r), w3, z3)
  BY <1>1, <1>8, <1>9, PartBefore
<1>11. UpToStatus(r) = Cat(UpToId(r), w2)
  BY <1>2 DEF UpToStatus
<1>12. PICK z2 \in Seq(Byte) : Parts(Body(r), UpToId(r), w2, z2)
  BY <1>1, <1>10, <1>11, PartBefore
<1>13. UpToId(r) = Cat(none, w1)
  <2>1. <<>> \o w1 = w1
    BY ConcatEmptySeq
  <2> QED BY <1>2, <1>3, <2>1 DEF UpToId, Cat
<1>14. PICK z1 \in Seq(Byte) : Parts(Body(r), none, w1, z1)
  BY <1>1, <1>12, <1>13, PartBefore
<1> QED BY <1>2, <1>3, <1>4, <1>6, <1>8, <1>10, <1>12, <1>14, Zenon

LEMMA FittingSizes ==
  ASSUME NEW r \in Response, Fits(r)
  PROVE  /\ Size(r) = 4 * WordBytes + Len(r.error) + SizeOfOutputs(r.outputs)
         /\ Size(r) \in 0 .. Modulus - 1
         /\ Len(r.error) \in 0 .. Modulus - 1
         /\ Len(r.outputs) \in 0 .. Modulus - 1
         /\ PayloadBytes(r) = Size(r)
<1>1. PICK n \in Nat, m \in Nat : n = Len(r.error) /\ m = Len(r.outputs)
  BY ResponseFields
<1>3. PICK o \in Nat : o = SizeOfOutputs(r.outputs) /\ m <= o
  BY <1>1, ResponseFields, NothingWraps
<1>2. Size(r) = 8 + n + o
  <2>1. Size(r) = 4 * WordBytes + Len(r.error) + SizeOfOutputs(r.outputs)
    BY Zenon DEF Size, SizeOfOutputs
  <2> QED BY <1>1, <1>3, <2>1 DEF WordBytes
<1>4. 8 + n + o < Modulus
  BY <1>2, <1>3 DEF Fits
<1>5. PayloadBytes(r) = PayloadOfOutputs(Word(8 + n), r.outputs)
  BY <1>1 DEF PayloadBytes, PayloadOfOutputs, WordBytes
<1>6. Word(8 + n) = 8 + n
  <2>1. 8 + n \in 0 .. Modulus - 1
    BY <1>4, Bases
  <2> QED BY <2>1, FitsAWord
<1>7. PayloadBytes(r) = 8 + n + o
  <2>1. PICK from \in Nat : from = 8 + n
    OBVIOUS
  <2>2. from + SizeOfOutputs(r.outputs) < Modulus
    BY <1>3, <1>4, <2>1
  <2>3. PayloadOfOutputs(from, r.outputs) = from + SizeOfOutputs(r.outputs)
    BY <2>2, ResponseFields, NothingWraps
  <2> QED BY <1>3, <1>5, <1>6, <2>1, <2>3
<1> QED BY <1>1, <1>2, <1>3, <1>4, <1>7, Bases DEF WordBytes

LEMMA PayloadInNat ==
  ASSUME NEW s \in Seq(Seq(Byte)), NEW from \in Nat
  PROVE  PayloadOfOutputs(from, s) \in Nat
<1>1. Len(s) \in Nat
  BY LenProperties
<1>2. PICK g : Payloads(g, from, s) /\ PayloadOfOutputs(from, s) = g[1 .. Len(s)]
  BY PayloadIs
<1> DEFINE U == {k \in Nat : k <= Len(s) => g[1 .. k] \in Nat}
<1>3. 0 \in U
  <2>1. 1 .. 0 = {}
    OBVIOUS
  <2>2. g[{}] = from
    BY <1>2, PayloadsStep
  <2> QED BY <2>1, <2>2
<1>4. ASSUME NEW k \in Nat, k \in U PROVE k + 1 \in U
  <2> SUFFICES ASSUME k + 1 <= Len(s) PROVE g[1 .. k + 1] \in Nat
    OBVIOUS
  <2>1. g[1 .. k + 1] = Word(g[1 .. k] + 2 + Word(Len(s[k + 1])))
    BY <1>2, PayloadsStep DEF WordBytes
  <2>2. Word(Len(s[k + 1])) \in Nat
    <3>1. s[k + 1] \in Seq(Byte)
      BY <1>1, ElementOfSeq
    <3>2. Len(s[k + 1]) \in Int
      BY <3>1, LenProperties
    <3> QED BY <3>2, WordInRange
  <2>3. g[1 .. k] \in Nat
    BY <1>1, <1>4
  <2>4. g[1 .. k] + 2 + Word(Len(s[k + 1])) \in Int
    BY <2>2, <2>3
  <2> QED BY <2>1, <2>4, WordInRange
<1> HIDE DEF U
<1>5. Len(s) \in U
  BY <1>1, <1>3, <1>4, Induction
<1> QED BY <1>1, <1>2, <1>5 DEF U

\* Pieces that can be put together in any order
Regroups(T) ==
  \A x, y \in T : Cat(x, y) \in T /\ \A z \in T : Cat(Cat(x, y), z) = Cat(x, Cat(y, z))

LEMMA SeqRegroups == ASSUME NEW S PROVE Regroups(Seq(S))
BY CatInSeq, CatAssociative, SMTT(30) DEF Regroups

\* What write_protocol_response writes for a response that fits: the length word of
\* its payload, and the payload.
LEMMA EncodingIs ==
  ASSUME NEW r \in Response
  PROVE  /\ Writes(r) \in Seq(Seq(Byte))
         /\ Encoding(r) \in Seq(Byte)
         /\ Fits(r) => Encoding(r) = Cat(WriteU32(Size(r)), Body(r))
<1>1. PayloadBytes(r) \in Int
  <2>1. PICK n \in Nat : n = Len(r.error)
    BY ResponseFields
  <2>2. Word(8 + n) \in Nat
    <3>1. 8 + n \in Int
      OBVIOUS
    <3> QED BY <3>1, WordInRange
  <2>3. PayloadBytes(r) = PayloadOfOutputs(Word(8 + n), r.outputs)
    BY <2>1 DEF PayloadBytes, PayloadOfOutputs, WordBytes
  <2> QED BY <2>2, <2>3, ResponseFields, PayloadInNat
<1>2. PICK w0 \in Seq(Byte), w1 \in Seq(Byte), w2 \in Seq(Byte), w3 \in Seq(Byte), w5 \in Seq(Byte) :
        /\ w0 = WriteU32(PayloadBytes(r))
        /\ w1 = WriteU32(r.request_id) /\ w2 = WriteU32(r.status)
        /\ w3 = WriteU32(Len(r.error)) /\ w5 = WriteU32(Len(r.outputs))
  <2>1. Len(r.error) \in Int /\ Len(r.outputs) \in Int
    BY ResponseFields
  <2> QED BY <1>1, <2>1, ResponseFields, WordIsBytes
<1>3. PICK e \in Seq(Byte) : e = r.error
  BY ResponseFields
<1>4. PICK o \in Seq(Byte), os \in Seq(Seq(Byte)) :
        /\ o = Outputs(r.outputs)
        /\ os = FlattenSeq([i \in DOMAIN r.outputs |-> WriteOutput(r.outputs[i])])
        /\ FlattenSeq(os) = o
  BY ResponseFields, OutputsLength, OutputsWritten
<1>5. PICK a \in Seq(Seq(Byte)) :
        a = <<w0, w1, w2, w3>> /\ FlattenSeq(a) = Cat(Cat(Cat(w0, w1), w2), w3)
  <2>1. PICK s1 \in Seq(Seq(Byte)) : s1 = <<w0>> /\ FlattenSeq(s1) = w0
    <3>1. <<w0>> \in Seq(Seq(Byte))
      OBVIOUS
    <3> QED BY <3>1, FlattenOne
  <2>2. PICK s2 \in Seq(Seq(Byte)) : s2 = <<w0, w1>> /\ FlattenSeq(s2) = Cat(w0, w1)
    <3>1. <<w0, w1>> = Append(s1, w1) /\ <<w0, w1>> \in Seq(Seq(Byte))
      BY <2>1
    <3> QED BY <2>1, <3>1, FlattenOneMore DEF Cat
  <2>3. PICK s3 \in Seq(Seq(Byte)) : s3 = <<w0, w1, w2>> /\ FlattenSeq(s3) = Cat(Cat(w0, w1), w2)
    <3>1. <<w0, w1, w2>> = Append(s2, w2) /\ <<w0, w1, w2>> \in Seq(Seq(Byte))
      BY <2>2
    <3> QED BY <2>2, <3>1, FlattenOneMore DEF Cat
  <2> QED
    <3>1. <<w0, w1, w2, w3>> = Append(s3, w3) /\ <<w0, w1, w2, w3>> \in Seq(Seq(Byte))
      BY <2>3
    <3> QED BY <2>3, <3>1, FlattenOneMore DEF Cat
<1>6. PICK b \in Seq(Seq(Byte)) : b = Bytes(e) /\ FlattenSeq(b) = e
  <2>1. <<e>> \in Seq(Seq(Byte)) /\ <<>> \in Seq(Seq(Byte))
    BY EmptySeq
  <2> QED BY <2>1, FlattenOne, FlattenEmpty DEF Bytes
<1>7. PICK c \in Seq(Seq(Byte)) : c = <<w5>> /\ FlattenSeq(c) = w5
  <2>1. <<w5>> \in Seq(Seq(Byte))
    OBVIOUS
  <2> QED BY <2>1, FlattenOne
<1>8. Writes(r) = ((a \o b) \o c) \o os
  BY <1>2, <1>3, <1>4, <1>5, <1>6, <1>7 DEF Writes
<1>9. PICK ab \in Seq(Seq(Byte)) : ab = a \o b /\ FlattenSeq(ab) = Cat(FlattenSeq(a), e)
  BY <1>6, ConcatProperties, FlattenConcat
<1>10. PICK abc \in Seq(Seq(Byte)) : abc = ab \o c /\ FlattenSeq(abc) = Cat(FlattenSeq(ab), w5)
  BY <1>7, ConcatProperties, FlattenConcat
<1>11. /\ Writes(r) \in Seq(Seq(Byte))
       /\ Encoding(r) = Cat(FlattenSeq(abc), o)
  <2>1. Writes(r) = abc \o os
    BY <1>8, <1>9, <1>10
  <2>2. abc \o os \in Seq(Seq(Byte)) /\ FlattenSeq(abc \o os) = Cat(FlattenSeq(abc), FlattenSeq(os))
    BY ConcatProperties, FlattenConcat
  <2> QED BY <1>4, <2>1, <2>2 DEF Encoding
<1>12. Encoding(r) = Cat(Cat(Cat(Cat(Cat(Cat(w0, w1), w2), w3), e), w5), o)
  BY <1>5, <1>9, <1>10, <1>11
<1>13. Body(r) = Cat(Cat(Cat(Cat(Cat(w1, w2), w3), e), w5), o)
  BY <1>2, <1>3, <1>4 DEF Body, UpToCount, UpToError, UpToErrorLength, UpToStatus, UpToId
<1>14. Encoding(r) = Cat(w0, Body(r))
  <2>1. Cat(Cat(Cat(Cat(Cat(Cat(w0, w1), w2), w3), e), w5), o)
          = Cat(w0, Cat(Cat(Cat(Cat(Cat(w1, w2), w3), e), w5), o))
    <3>1. PICK T : T = Seq(Byte)
      OBVIOUS
    <3>2. Regroups(T)
      <4>1. Regroups(Seq(Byte))
        BY SeqRegroups
      <4> QED BY <3>1, <4>1, Zenon
    <3>3. w0 \in T /\ w1 \in T /\ w2 \in T /\ w3 \in T /\ e \in T /\ w5 \in T /\ o \in T
      BY <3>1
    <3>4. PICK c2 \in T : c2 = Cat(w1, w2) /\ Cat(Cat(w0, w1), w2) = Cat(w0, c2)
      BY <3>2, <3>3 DEF Regroups
    <3>5. PICK c3 \in T : c3 = Cat(c2, w3) /\ Cat(Cat(w0, c2), w3) = Cat(w0, c3)
      BY <3>2, <3>3 DEF Regroups
    <3>6. PICK c4 \in T : c4 = Cat(c3, e) /\ Cat(Cat(w0, c3), e) = Cat(w0, c4)
      BY <3>2, <3>3 DEF Regroups
    <3>7. PICK c5 \in T : c5 = Cat(c4, w5) /\ Cat(Cat(w0, c4), w5) = Cat(w0, c5)
      BY <3>2, <3>3 DEF Regroups
    <3>8. Cat(Cat(w0, c5), o) = Cat(w0, Cat(c5, o))
      BY <3>2, <3>3 DEF Regroups
    <3> QED BY <3>4, <3>5, <3>6, <3>7, <3>8
  <2> QED BY <1>12, <1>13, <2>1
<1>15. Encoding(r) \in Seq(Byte)
  BY <1>11, FlattenInSeq DEF Encoding
<1>16. Fits(r) => w0 = WriteU32(Size(r))
  BY <1>2, FittingSizes
<1> QED BY <1>11, <1>14, <1>15, <1>16

----------------------------------------------------------------------------
(* The client on a payload *)

\* It finds in the payload of a response that fits what the response says.
LEMMA ClientReads ==
  ASSUME NEW r \in Response, Fits(r)
  PROVE  Parses(Body(r)) /\ ParseResponse(Body(r)) = Meant(r)
<1>1. PICK b \in Seq(Byte) : b = Body(r)
  BY BodyFields
<1>2. PICK n \in Nat : n = Len(r.error) /\ n \in 0 .. Modulus - 1
  BY ResponseFields, FittingSizes
<1>3. /\ UpToId(r) \in Seq(Byte) /\ Len(UpToId(r)) = 2
      /\ UpToStatus(r) \in Seq(Byte) /\ Len(UpToStatus(r)) = 4
      /\ UpToErrorLength(r) \in Seq(Byte) /\ Len(UpToErrorLength(r)) = 6
      /\ UpToError(r) \in Seq(Byte) /\ Len(UpToError(r)) = 6 + n
      /\ UpToCount(r) \in Seq(Byte) /\ Len(UpToCount(r)) = 8 + n
  BY <1>2, BodyFields DEF WordBytes
<1>4. PICK o \in Seq(Byte) : o = Outputs(r.outputs) /\ Len(b) = 8 + n + Len(o)
  <2>1. PICK o \in Seq(Byte) : o = Outputs(r.outputs) /\ Len(o) = SizeOfOutputs(r.outputs)
    BY ResponseFields, OutputsLength
  <2>2. Len(b) = 4 * WordBytes + Len(r.error) + Len(o)
    BY <1>1, <2>1, BodyFields
  <2>3. Len(b) = 4 * 2 + n + Len(o)
    BY <1>2, <2>2 DEF WordBytes
  <2> QED BY <2>1, <2>3
<1>5. PICK z1 \in Seq(Byte), z2 \in Seq(Byte), z3 \in Seq(Byte), z4 \in Seq(Byte), z5 \in Seq(Byte) :
        /\ Parts(b, <<>>, WriteU32(r.request_id), z1)
        /\ Parts(b, UpToId(r), WriteU32(r.status), z2)
        /\ Parts(b, UpToStatus(r), WriteU32(n), z3)
        /\ Parts(b, UpToErrorLength(r), r.error, z4)
        /\ Parts(b, UpToError(r), WriteU32(Len(r.outputs)), z5)
        /\ Parts(b, UpToCount(r), o, <<>>)
  BY <1>1, <1>2, <1>4, BodyParts
<1>6. ReadU32(b, 0) = r.request_id
  <2>1. <<>> \in Seq(Byte) /\ Len(<<>>) = 0
    BY EmptySeq
  <2>2. ReadU32(b, Len(<<>>)) = r.request_id
    BY <1>5, <2>1, ResponseFields, NextWord
  <2> QED BY <2>1, <2>2
<1>7. ReadU32(b, 2) = r.status
  <2>1. ReadU32(b, Len(UpToId(r))) = r.status
    BY <1>3, <1>5, ResponseFields, NextWord
  <2> QED BY <1>3, <2>1
<1>8. ReadU32(b, 4) = n
  <2>1. PICK x \in Seq(Byte) : x = UpToStatus(r)
    BY <1>3
  <2>2. Parts(b, x, WriteU32(n), z3)
    BY <1>5, <2>1
  <2>3. ReadU32(b, Len(x)) = n
    BY <1>2, <2>2, NextWord
  <2> QED BY <1>3, <2>1, <2>3
<1>9. SubSeq(b, 6 + 1, 6 + n) = r.error
  <2>1. PICK x \in Seq(Byte) : x = UpToErrorLength(r) /\ Len(x) = 6
    BY <1>3
  <2>2. PICK e \in Seq(Byte) : e = r.error
    BY ResponseFields
  <2>3. Parts(b, x, e, z4)
    BY <1>5, <2>1, <2>2
  <2>4. SubSeq(b, Len(x) + 1, Len(x) + Len(e)) = e
    BY <2>3, PartAfter
  <2> QED BY <1>2, <2>1, <2>2, <2>4
<1>10. ReadU32(b, 6 + n) = Len(r.outputs)
  <2>1. PICK x \in Seq(Byte) : x = UpToError(r) /\ Len(x) = 6 + n
    BY <1>3
  <2>2. PICK m \in 0 .. Modulus - 1 : m = Len(r.outputs)
    BY FittingSizes
  <2>3. Parts(b, x, WriteU32(m), z5)
    BY <1>5, <2>1, <2>2
  <2>4. ReadU32(b, Len(x)) = m
    BY <2>3, NextWord
  <2> QED BY <2>1, <2>2, <2>4
<1>11. SubSeq(b, 8 + n + 1, Len(b)) = o
  <2>1. PICK x \in Seq(Byte) : x = UpToCount(r) /\ Len(x) = 8 + n
    BY <1>3
  <2>2. PICK none \in Seq(Byte) : none = <<>>
    BY EmptySeq
  <2>3. Parts(b, x, o, none)
    BY <1>5, <2>1, <2>2
  <2>4. SubSeq(b, Len(x) + 1, Len(x) + Len(o)) = o
    BY <2>3, PartAfter
  <2> QED BY <1>4, <2>1, <2>4
<1>12. PICK l \in Nat : l = Len(o) /\ Len(b) = 8 + n + l
  BY <1>4, LenProperties
<1>13. Parses(b)
  BY <1>8, <1>12 DEF Parses, WordBytes
<1>14. o = FlattenSeq([i \in DOMAIN r.outputs |-> WriteU32(Len(r.outputs[i])) \o r.outputs[i]])
  BY <1>4, Zenon DEF Outputs, EncodedOutputs
<1>15. ReadU32(b, 2 * WordBytes) = n /\ 3 * WordBytes = 6 /\ 6 + n + WordBytes + 1 = 8 + n + 1
  BY <1>8 DEF WordBytes
<1>16. ParseResponse(b) = [request_id |-> r.request_id, status |-> r.status, error |-> r.error,
                           result_count |-> Len(r.outputs), outputs |-> o]
  <2>1. ReadU32(b, WordBytes) = r.status
    BY <1>7 DEF WordBytes
  <2>2. ParseResponse(b) =
          [request_id |-> ReadU32(b, 0), status |-> ReadU32(b, WordBytes),
           error |-> SubSeq(b, 6 + 1, 6 + n), result_count |-> ReadU32(b, 6 + n),
           outputs |-> SubSeq(b, 6 + n + WordBytes + 1, Len(b))]
    BY <1>15, Zenon DEF ParseResponse
  <2> QED BY <1>6, <1>9, <1>10, <1>11, <1>15, <2>1, <2>2
<1> QED BY <1>1, <1>13, <1>14, <1>16 DEF Meant

\* The client in front of a response that fits, whatever comes behind it: u is not on
\* the wire yet.
LEMMA FrontOfWire ==
  ASSUME NEW r \in Response, Fits(r),
         NEW w \in Seq(Byte), NEW u \in Seq(Byte), NEW z \in Seq(Byte),
         Cat(w, u) = Cat(Encoding(r), z)
  PROVE  /\ Len(w) >= WordBytes => ReadU32(w, 0) = Size(r)
         /\ Len(w) >= WordBytes + Size(r) =>
              /\ SubSeq(w, WordBytes + 1, WordBytes + Size(r)) = Body(r)
              /\ SubSeq(w, WordBytes + Size(r) + 1, Len(w)) \in Seq(Byte)
              /\ Cat(SubSeq(w, WordBytes + Size(r) + 1, Len(w)), u) = z
         /\ u = <<>> => Len(w) >= WordBytes + Size(r)
<1>1. PICK n \in Nat : n = Size(r) /\ n \in 0 .. Modulus - 1
  BY FittingSizes, Bases
<1>2. PICK w0 \in Seq(Byte) : w0 = WriteU32(n) /\ Len(w0) = 2
  <2>1. n \in Int
    OBVIOUS
  <2> QED BY <2>1, WordIsBytes DEF WordBytes
<1>3. PICK b \in Seq(Byte) : b = Body(r) /\ Len(b) = n
  BY <1>1, BodyFields, FittingSizes
<1>4. PICK e \in Seq(Byte) : e = Encoding(r) /\ e = Cat(w0, b) /\ Len(e) = 2 + n
  <2>1. Encoding(r) = Cat(w0, b)
    BY <1>1, <1>2, <1>3, EncodingIs
  <2>2. Cat(w0, b) \in Seq(Byte) /\ Len(Cat(w0, b)) = Len(w0) + Len(b)
    BY CatInSeq
  <2> QED BY <1>2, <1>3, <2>1, <2>2
<1>5. PICK m \in Nat : m = Len(w)
  BY LenProperties
<1>6. Cat(w, u) = Cat(e, z)
  BY <1>4
<1>7. ASSUME m >= 2 PROVE ReadU32(w, 0) = n
  <2>1. PICK y \in Seq(Byte) : y = Cat(b, z) /\ Cat(w, u) = Cat(w0, y)
    <3>1. Cat(b, z) \in Seq(Byte) /\ Cat(Cat(w0, b), z) = Cat(w0, Cat(b, z))
      BY CatInSeq, CatAssociative
    <3> QED BY <1>4, <1>6, <3>1
  <2>2. PICK rest \in Seq(Byte) : w = Cat(w0, rest)
    <3>1. Len(w0) <= Len(w)
      BY <1>2, <1>5, <1>7
    <3> QED BY <2>1, <3>1, FrontOf
  <2>3. <<>> \in Seq(Byte) /\ Len(<<>>) = 0 /\ <<>> \o w0 = w0
    BY EmptySeq, ConcatEmptySeq
  <2>4. Parts(w, <<>>, WriteU32(n), rest)
    BY <1>2, <2>2, <2>3 DEF Parts, Cat
  <2>5. ReadU32(w, Len(<<>>)) = n
    BY <1>1, <2>3, <2>4, NextWord
  <2> QED BY <2>3, <2>5
<1>8. ASSUME m >= 2 + n
      PROVE  /\ SubSeq(w, 2 + 1, 2 + n) = b
             /\ SubSeq(w, 2 + n + 1, m) \in Seq(Byte)
             /\ Cat(SubSeq(w, 2 + n + 1, m), u) = z
  <2>1. PICK rest \in Seq(Byte) :
          /\ rest = SubSeq(w, Len(e) + 1, Len(w))
          /\ w = Cat(e, rest) /\ Cat(rest, u) = z
    <3>1. Len(e) <= Len(w)
      BY <1>4, <1>5, <1>8
    <3> QED BY <1>6, <3>1, FrontOf
  <2>2. Parts(w, w0, b, rest)
    BY <1>4, <2>1 DEF Parts, Cat
  <2>3. SubSeq(w, Len(w0) + 1, Len(w0) + Len(b)) = b
    BY <2>2, PartAfter
  <2> QED BY <1>2, <1>3, <1>4, <1>5, <2>1, <2>3
<1>9. ASSUME u = <<>> PROVE m >= 2 + n
  <2>1. Cat(w, u) = w
    BY <1>9, ConcatEmptySeq DEF Cat
  <2>2. Len(w) = Len(e) + Len(z) /\ Len(z) \in Nat
    <3>1. Len(Cat(e, z)) = Len(e) + Len(z)
      BY CatInSeq
    <3> QED BY <1>6, <2>1, <3>1, LenProperties
  <2> QED BY <1>4, <1>5, <2>2
<1> QED BY <1>1, <1>3, <1>5, <1>7, <1>8, <1>9 DEF WordBytes

----------------------------------------------------------------------------
(* What a run of the server writes *)

Encodings(s) == [i \in DOMAIN s |-> Encoding(s[i])]

\* The bytes of the first n responses
Stream(s, n) == FlattenSeq(SubSeq(Encodings(s), 1, n))

LEMMA EncodingsInSeq ==
  ASSUME NEW s \in Seq(Response)
  PROVE  /\ Len(s) \in Nat
         /\ Encodings(s) \in Seq(Seq(Byte)) /\ Len(Encodings(s)) = Len(s)
         /\ \A i \in 1 .. Len(s) : s[i] \in Response /\ Encodings(s)[i] = Encoding(s[i])
<1>1. Len(s) \in Nat /\ DOMAIN s = 1 .. Len(s)
  BY LenProperties
<1> DEFINE e(i) == Encoding(s[i])
<1>2. \A i \in 1 .. Len(s) : s[i] \in Response /\ e(i) \in Seq(Byte)
  BY ElementOfSeq, EncodingIs
<1>3. Encodings(s) = [i \in 1 .. Len(s) |-> e(i)]
  BY <1>1 DEF Encodings
<1>4. \A i \in 1 .. Len(s) : e(i) = Encoding(s[i])
  OBVIOUS
<1> HIDE DEF e
<1>5. [i \in 1 .. Len(s) |-> e(i)] \in Seq(Seq(Byte))
  BY <1>1, <1>2
<1> QED BY <1>1, <1>2, <1>3, <1>4, <1>5

LEMMA StreamStep ==
  ASSUME NEW s \in Seq(Response), NEW n \in Nat, NEW k \in Nat, k = n + 1, k <= Len(s)
  PROVE  /\ Stream(s, n) \in Seq(Byte)
         /\ Stream(s, k) = Cat(Stream(s, n), Encoding(s[k]))
<1>1. PICK t \in Seq(Seq(Byte)) : t = Encodings(s) /\ Len(t) = Len(s) /\ t[k] = Encoding(s[k])
  <2>1. k \in 1 .. Len(s)
    BY EncodingsInSeq
  <2> QED BY <2>1, EncodingsInSeq
<1>2. /\ SubSeq(t, 1, n) \in Seq(Seq(Byte)) /\ t[n + 1] \in Seq(Byte)
      /\ SubSeq(t, 1, n + 1) = Append(SubSeq(t, 1, n), t[n + 1])
  BY <1>1, PrefixStep
<1>3. PICK p \in Seq(Seq(Byte)), e \in Seq(Byte) :
        p = SubSeq(t, 1, n) /\ e = t[k] /\ SubSeq(t, 1, k) = Append(p, e)
  BY <1>2
<1>4. FlattenSeq(Append(p, e)) = FlattenSeq(p) \o e /\ FlattenSeq(p) \in Seq(Byte)
  BY FlattenOneMore, FlattenInSeq
<1> QED BY <1>1, <1>3, <1>4 DEF Stream, Cat

LEMMA StreamInSeq ==
  ASSUME NEW s \in Seq(Response), NEW n \in Nat, n <= Len(s)
  PROVE  Stream(s, n) \in Seq(Byte)
<1>1. PICK t \in Seq(Seq(Byte)) : t = Encodings(s) /\ Len(t) = Len(s) /\ Len(t) \in Nat
  BY EncodingsInSeq
<1>2. \A i \in 1 .. n : t[i] \in Seq(Byte)
  BY <1>1, ElementOfSeq
<1>3. SubSeq(t, 1, n) \in Seq(Seq(Byte))
  BY <1>2, SubSeqProperties
<1> QED BY <1>1, <1>3, FlattenInSeq DEF Stream

LEMMA StreamBegins ==
  ASSUME NEW s \in Seq(Response), NEW n \in Nat, NEW k \in Nat, k <= n, n <= Len(s)
  PROVE  BeginsWith(Byte, Stream(s, n), Stream(s, k))
<1> DEFINE U == {m \in Nat : k <= m /\ m <= Len(s) => BeginsWith(Byte, Stream(s, m), Stream(s, k))}
<1>1. Len(s) \in Nat
  BY LenProperties
<1>2. BeginsWith(Byte, Stream(s, k), Stream(s, k))
  <2>1. Stream(s, k) \in Seq(Byte)
    BY <1>1, StreamInSeq
  <2>2. Stream(s, k) \o <<>> = Stream(s, k) /\ <<>> \in Seq(Byte)
    BY <2>1, ConcatEmptySeq, EmptySeq
  <2> QED BY <2>2 DEF BeginsWith
<1>3. 0 \in U
  <2>1. k <= 0 => k = 0
    OBVIOUS
  <2> QED BY <1>2, <2>1
<1>4. ASSUME NEW m \in Nat, m \in U PROVE m + 1 \in U
  <2> SUFFICES ASSUME k <= m + 1, m + 1 <= Len(s)
               PROVE  BeginsWith(Byte, Stream(s, m + 1), Stream(s, k))
    OBVIOUS
  <2>1. CASE k = m + 1
    BY <1>2, <2>1
  <2>2. CASE k # m + 1
    <3>1. k <= m /\ m <= Len(s)
      BY <1>1, <2>2
    <3>2. PICK rest \in Seq(Byte) : Stream(s, m) = Stream(s, k) \o rest
      BY <1>4, <3>1 DEF BeginsWith
    <3>3. PICK j \in Nat : j = m + 1
      OBVIOUS
    <3>4. Stream(s, j) = Cat(Stream(s, m), Encoding(s[j]))
      BY <3>3, StreamStep
    <3>5. PICK e \in Seq(Byte) : e = Encoding(s[j])
      <4>1. j \in 1 .. Len(s)
        BY <1>1, <3>3
      <4> QED BY <4>1, EncodingsInSeq, EncodingIs
    <3>6. PICK a \in Seq(Byte) : a = Stream(s, k)
      BY <1>1, <3>1, StreamInSeq
    <3>7. Cat(Cat(a, rest), e) = Cat(a, Cat(rest, e)) /\ Cat(rest, e) \in Seq(Byte)
      BY CatInSeq, CatAssociative
    <3> QED BY <3>2, <3>3, <3>4, <3>5, <3>6, <3>7 DEF BeginsWith, Cat
  <2> QED BY <2>1, <2>2
<1> HIDE DEF U
<1>5. n \in U
  BY <1>3, <1>4, Induction
<1> QED BY <1>5 DEF U

LEMMA StreamAhead ==
  ASSUME NEW s \in Seq(Response), NEW n \in Nat, NEW k \in Nat, NEW j \in Nat, j = k + 1,
         j <= n, n <= Len(s)
  PROVE  /\ Stream(s, k) \in Seq(Byte) /\ Encoding(s[j]) \in Seq(Byte)
         /\ \E z \in Seq(Byte) : Stream(s, n) = Cat(Stream(s, j), z)
         /\ Stream(s, j) = Cat(Stream(s, k), Encoding(s[j]))
<1>1. j <= Len(s) /\ j \in 1 .. Len(s)
  BY EncodingsInSeq
<1>2. Encoding(s[j]) \in Seq(Byte)
  BY <1>1, EncodingsInSeq, EncodingIs
<1>3. \E z \in Seq(Byte) : Stream(s, n) = Cat(Stream(s, j), z)
  BY StreamBegins DEF BeginsWith, Cat
<1> QED BY <1>1, <1>2, <1>3, StreamStep

----------------------------------------------------------------------------
(* The invariant *)

Types ==
  /\ session \in Sessions /\ session \in Seq(Response)
  /\ next \in 1 .. Len(session) + 1
  /\ todo \in Seq(Seq(Byte))
  /\ bad \in BOOLEAN /\ exited \in BOOLEAN
  /\ wire \in Seq(Byte)
  /\ client \in {"reading", "confused", "done", "truncated"}
  /\ \E S : received \in Seq(S)

\* Of the first k responses, those there are fit their length words.
FitUpTo(k) == \A i \in 1 .. k : i <= Len(session) => Fits(session[i])

\* What the client has taken, what is on the wire, and u, which is still to be
\* written, or lost since stdout broke
MakeUp(k, u, n) ==
  /\ ~bad => u = FlattenSeq(todo)
  /\ Cat(Cat(Stream(session, k), wire), u) = Stream(session, n)

\* As long as the responses it has taken fit, the client has not lost its place.
InStep(k) == k < next /\ \E u \in Seq(Byte) : MakeUp(k, u, next - 1)

Understood == \A i \in 1 .. Len(received) : FitUpTo(i) => received[i] = Meant(session[i])

Confused == client = "confused" => ~FitUpTo(Len(received) + 1)

Finishing ==
  /\ exited => todo = <<>> /\ next = Len(session) + 1
  /\ client \in {"done", "truncated"} => exited
  /\ client \in {"done", "truncated"} /\ FitUpTo(Len(session)) /\ ~bad =>
       client = "done" /\ Len(received) = Len(session)

IInv ==
  /\ Types
  /\ FitUpTo(Len(received)) => InStep(Len(received))
  /\ Understood /\ Confused /\ Finishing

LEMMA Counts ==
  ASSUME Types
  PROVE  Len(received) \in Nat /\ Len(session) \in Nat /\ next \in Nat /\ next - 1 \in Nat
         /\ next - 1 <= Len(session)
<1>1. Len(session) \in Nat
  BY LenProperties DEF Types
<1>2. Len(received) \in Nat
  <2>1. PICK S : received \in Seq(S)
    BY DEF Types
  <2> QED BY <2>1, LenProperties
<1> QED BY <1>1, <1>2 DEF Types

LEMMA FitsBefore ==
  ASSUME NEW k \in Nat, NEW j \in Nat, k <= j, FitUpTo(j)
  PROVE  FitUpTo(k)
BY DEF FitUpTo

LEMMA InitIInv == WireInit => IInv
<1> SUFFICES ASSUME WireInit PROVE IInv
  OBVIOUS
<1>1. session \in Sessions /\ session \in Seq(Response)
  BY Bases DEF WireInit
<1>2. Len(session) \in Nat
  BY <1>1, LenProperties
<1>3. <<>> \in Seq(Byte) /\ <<>> \in Seq(Seq(Byte)) /\ <<>> \in Seq({}) /\ Len(<<>>) = 0
  BY EmptySeq
<1>4. Types
  <2>1. \E S : received \in Seq(S)
    BY <1>3 DEF WireInit
  <2>2. next \in 1 .. Len(session) + 1
    BY <1>2 DEF WireInit
  <2> QED BY <1>1, <1>3, <2>1, <2>2 DEF WireInit, Types
<1>5. InStep(0)
  <2>1. Stream(session, 0) = <<>>
    <3>1. SubSeq(Encodings(session), 1, 0) = <<>>
      BY SubSeqEmpty
    <3> QED BY <3>1, FlattenEmpty DEF Stream
  <2>2. Cat(<<>>, <<>>) = <<>>
    BY <1>3, ConcatEmptySeq DEF Cat
  <2>3. MakeUp(0, <<>>, 0)
    BY <2>1, <2>2, FlattenEmpty DEF MakeUp, WireInit
  <2>4. next - 1 = 0 /\ 0 < next
    BY DEF WireInit
  <2> QED BY <1>3, <2>3, <2>4 DEF InStep
<1>6. Len(received) = 0
  BY <1>3 DEF WireInit
<1> QED BY <1>4, <1>5, <1>6 DEF IInv, Understood, Confused, Finishing, WireInit

\* The next response the client has to take, when it fits as those before it did:
\* it is the first thing on the wire, and if there is anything it has been begun.
LEMMA NextOnTheWire ==
  ASSUME IInv, NEW j \in Nat, j = Len(received) + 1, FitUpTo(j)
  PROVE  /\ wire # <<>> => j < next
         /\ j < next =>
              /\ j \in 1 .. Len(session) /\ session[j] \in Response /\ Fits(session[j])
              /\ \E u, z \in Seq(Byte) :
                   /\ ~bad => u = FlattenSeq(todo)
                   /\ Cat(wire, u) = Cat(Encoding(session[j]), z)
                   /\ Cat(Stream(session, j), z) = Stream(session, next - 1)
<1>1. PICK k \in Nat, n \in Nat : k = Len(received) /\ n = next - 1 /\ n <= Len(session)
  BY Counts DEF IInv
<1>2. session \in Seq(Response) /\ wire \in Seq(Byte)
  BY DEF IInv, Types
<1>3. FitUpTo(k) /\ k <= n
  <2>1. k <= j
    BY <1>1
  <2>2. FitUpTo(k)
    BY <2>1, FitsBefore
  <2>3. k < next
    BY <1>1, <2>2 DEF IInv, InStep
  <2> QED BY <1>1, <2>2, <2>3, Counts DEF IInv
<1>4. PICK u \in Seq(Byte) : MakeUp(k, u, n)
  BY <1>1, <1>3 DEF IInv, InStep
<1>5. PICK a \in Seq(Byte) : a = Stream(session, k)
  <2>1. k <= Len(session)
    BY <1>1, <1>3, Counts DEF IInv
  <2> QED BY <1>2, <2>1, StreamInSeq
<1>6. Cat(Cat(a, wire), u) = Stream(session, n)
  BY <1>4, <1>5 DEF MakeUp
<1>7. Cat(Cat(a, wire), u) = Cat(a, Cat(wire, u)) /\ Cat(wire, u) \in Seq(Byte)
      /\ Len(Cat(wire, u)) = Len(wire) + Len(u)
  BY <1>2, CatInSeq, CatAssociative
<1>8. ASSUME wire # <<>> PROVE j < next
  <2> SUFFICES ASSUME n = k PROVE FALSE
    BY <1>1, <1>3, Counts DEF IInv
  <2>1. Cat(a, Cat(wire, u)) = Cat(a, <<>>)
    BY <1>5, <1>6, <1>7, ConcatEmptySeq DEF Cat
  <2>2. Cat(wire, u) = <<>>
    BY <1>7, <2>1, CancelLeft, EmptySeq
  <2> QED BY <1>2, <1>8, <2>2, ConcatEqualIffEmpty DEF Cat
<1>9. ASSUME j < next
      PROVE  /\ j \in 1 .. Len(session) /\ session[j] \in Response /\ Fits(session[j])
             /\ \E v, z \in Seq(Byte) :
                  /\ ~bad => v = FlattenSeq(todo)
                  /\ Cat(wire, v) = Cat(Encoding(session[j]), z)
                  /\ Cat(Stream(session, j), z) = Stream(session, n)
  <2>1. j <= n /\ j <= Len(session) /\ j \in 1 .. Len(session) /\ j = k + 1
    BY <1>1, <1>9, Counts DEF IInv
  <2>2. session[j] \in Response /\ Fits(session[j])
    <3>1. j \in 1 .. j
      BY <2>1
    <3> QED BY <1>2, <2>1, <3>1, ElementOfSeq DEF FitUpTo
  <2>3. PICK e \in Seq(Byte), z \in Seq(Byte) :
          /\ e = Encoding(session[j])
          /\ Stream(session, n) = Cat(Stream(session, j), z)
          /\ Stream(session, j) = Cat(a, e)
    <3>1. PICK s \in Seq(Response) : s = session
      BY <1>2
    <3>2. n <= Len(s) /\ j <= n /\ j = k + 1
      BY <1>1, <2>1, <3>1
    <3>3. /\ Encoding(s[j]) \in Seq(Byte)
          /\ \E z \in Seq(Byte) : Stream(s, n) = Cat(Stream(s, j), z)
          /\ Stream(s, j) = Cat(Stream(s, k), Encoding(s[j]))
      BY <3>2, StreamAhead
    <3> QED BY <1>5, <3>1, <3>3
  <2>4. Cat(Cat(a, e), z) = Cat(a, Cat(e, z)) /\ Cat(e, z) \in Seq(Byte)
    BY CatInSeq, CatAssociative
  <2>5. Cat(a, Cat(wire, u)) = Cat(a, Cat(e, z))
    BY <1>6, <1>7, <2>3, <2>4
  <2>6. Cat(wire, u) = Cat(e, z)
    BY <1>7, <2>4, <2>5, CancelLeft
  <2> QED BY <1>4, <2>1, <2>2, <2>3, <2>6 DEF MakeUp
<1> QED BY <1>1, <1>8, <1>9

\* A step of the server: the client's side of the invariant is not touched.
LEMMA ServerStep ==
  ASSUME IInv, UNCHANGED <<session, client, received>>, Types', Finishing',
         ASSUME NEW k \in Nat, k <= Len(session), InStep(k) PROVE InStep(k)'
  PROVE  IInv'
<1>1. PICK k \in Nat : k = Len(received)
  BY Counts DEF IInv
<1>2. ASSUME FitUpTo(k) PROVE InStep(k)'
  <2>1. InStep(k)
    BY <1>1, <1>2 DEF IInv
  <2>2. k <= Len(session)
    BY <2>1, Counts DEF InStep, IInv
  <2> QED BY <2>1, <2>2
<1>3. FitUpTo(k)' <=> FitUpTo(k)
  BY DEF FitUpTo
<1>4. Understood' /\ Confused'
  BY DEF IInv, Understood, Confused, FitUpTo
<1> QED BY <1>1, <1>2, <1>3, <1>4 DEF IInv

\* What the writes of a response that are left come to
LEMMA NextWrite ==
  ASSUME Types, todo # <<>>
  PROVE  /\ Head(todo) \in Seq(Byte) /\ Tail(todo) \in Seq(Seq(Byte))
         /\ FlattenSeq(Tail(todo)) \in Seq(Byte)
         /\ FlattenSeq(todo) = Cat(Head(todo), FlattenSeq(Tail(todo)))
<1>1. PICK h \in Seq(Byte), t \in Seq(Seq(Byte)) : h = Head(todo) /\ t = Tail(todo)
  BY HeadTailProperties DEF Types
<1>2. PICK one \in Seq(Seq(Byte)) : one = <<h>> /\ FlattenSeq(one) = h
  <2>1. <<h>> \in Seq(Seq(Byte))
    OBVIOUS
  <2> QED BY <2>1, FlattenOne
<1>3. todo = one \o t
  <2>1. todo \in Seq(Seq(Byte)) /\ Len(todo) \in Nat /\ Len(todo) # 0
    BY EmptySeq, LenProperties DEF Types
  <2>2. SubSeq(todo, 1, Len(todo)) = <<todo[1]>> \o SubSeq(todo, 1 + 1, Len(todo))
    <3>1. 1 \in 1 .. Len(todo) /\ Len(todo) \in 1 .. Len(todo)
      BY <2>1
    <3> QED BY <2>1, <3>1, SubSeqRecursiveFirst
  <2>3. SubSeq(todo, 1, Len(todo)) = todo /\ Tail(todo) = SubSeq(todo, 2, Len(todo))
    BY <2>1, SubSeqFull, TailIsSubSeq
  <2>4. Head(todo) = todo[1]
    BY <2>1
  <2> QED BY <1>1, <1>2, <2>2, <2>3, <2>4
<1>4. FlattenSeq(one \o t) = Cat(FlattenSeq(one), FlattenSeq(t)) /\ FlattenSeq(t) \in Seq(Byte)
  BY FlattenConcat, FlattenInSeq
<1> QED BY <1>1, <1>2, <1>3, <1>4

LEMMA BeginStep == ASSUME IInv, BeginResponse PROVE IInv'
<1>1. PICK s \in Seq(Response) : s = session
  BY DEF IInv, Types
<1>2. PICK n \in Nat, m \in Nat : n = next - 1 /\ m = next /\ m = n + 1 /\ m <= Len(s)
  BY <1>1, Counts DEF IInv, BeginResponse
<1>3. /\ todo = <<>> /\ todo' = Writes(s[m]) /\ next' = m + 1 /\ ~exited
      /\ UNCHANGED <<session, bad, exited, wire, client, received>>
  BY <1>1, <1>2 DEF BeginResponse, clientVars
<1>4. PICK e \in Seq(Byte) : e = Encoding(s[m]) /\ Writes(s[m]) \in Seq(Seq(Byte))
  <2>1. m \in 1 .. Len(s)
    BY <1>2, EncodingsInSeq
  <2> QED BY <2>1, EncodingsInSeq, EncodingIs
<1>5. Types'
  <2>1. next' \in 1 .. Len(session') + 1
    BY <1>1, <1>2, <1>3, EncodingsInSeq
  <2> QED BY <1>3, <1>4, <2>1 DEF IInv, Types
<1>6. Finishing'
  BY <1>3 DEF IInv, Finishing
<1>7. ASSUME NEW k \in Nat, k <= Len(session), InStep(k) PROVE InStep(k)'
  <2>1. PICK u \in Seq(Byte) : MakeUp(k, u, n)
    BY <1>2, <1>7 DEF InStep
  <2>2. PICK v \in Seq(Byte) : v = Cat(u, e)
    BY CatInSeq
  <2>3. Stream(s, m) = Cat(Stream(s, n), e)
    BY <1>2, <1>4, StreamStep
  <2>4. PICK a \in Seq(Byte) : a = Cat(Stream(s, k), wire)
    BY <1>1, <1>7, StreamInSeq, CatInSeq DEF IInv, Types
  <2>5. Cat(Cat(a, u), e) = Cat(a, v)
    BY <2>2, CatAssociative
  <2>6. Cat(a, v) = Stream(s, m)
    BY <1>1, <2>1, <2>3, <2>4, <2>5 DEF MakeUp
  <2>7. ~bad => v = e
    <3>1. ~bad => u = <<>>
      BY <1>3, <2>1, FlattenEmpty DEF MakeUp
    <3>2. Cat(<<>>, e) = e
      BY ConcatEmptySeq DEF Cat
    <3> QED BY <2>2, <3>1, <3>2
  <2>8. e = FlattenSeq(todo')
    BY <1>3, <1>4 DEF Encoding
  <2>9. MakeUp(k, v, m)'
    BY <1>1, <1>3, <2>4, <2>6, <2>7, <2>8 DEF MakeUp
  <2>10. next' - 1 = m /\ k < next'
    BY <1>2, <1>3, <1>7 DEF InStep
  <2> QED BY <2>9, <2>10 DEF InStep
<1> QED BY <1>3, <1>5, <1>6, <1>7, ServerStep

LEMMA WriteStep == ASSUME IInv, Write PROVE IInv'
<1>1. /\ todo # <<>> /\ ~bad /\ wire' = Cat(wire, Head(todo)) /\ todo' = Tail(todo)
      /\ UNCHANGED <<session, next, bad, exited, client, received>>
  BY DEF Write, clientVars, Cat
<1>2. PICK h \in Seq(Byte), t \in Seq(Byte), w \in Seq(Byte) :
        /\ h = Head(todo) /\ t = FlattenSeq(Tail(todo)) /\ w = wire
        /\ FlattenSeq(todo) = Cat(h, t) /\ Tail(todo) \in Seq(Seq(Byte))
  BY <1>1, NextWrite DEF IInv, Types
<1>3. Types'
  <2>1. wire' \in Seq(Byte)
    BY <1>1, <1>2, CatInSeq
  <2> QED BY <1>1, <1>2, <2>1 DEF IInv, Types
<1>4. Finishing'
  BY <1>1 DEF IInv, Finishing
<1>5. ASSUME NEW k \in Nat, k <= Len(session), InStep(k) PROVE InStep(k)'
  <2>1. PICK u \in Seq(Byte) : MakeUp(k, u, next - 1)
    BY <1>5 DEF InStep
  <2>2. PICK a \in Seq(Byte) : a = Stream(session, k)
    BY <1>5, StreamInSeq DEF IInv, Types
  <2>3. Cat(Cat(a, w), Cat(h, t)) = Stream(session, next - 1)
    BY <1>1, <1>2, <2>1, <2>2 DEF MakeUp
  <2>4. PICK b \in Seq(Byte) : b = Cat(a, w)
    BY CatInSeq
  <2>5. Cat(Cat(b, h), t) = Cat(b, Cat(h, t))
    BY CatAssociative
  <2>6. Cat(Cat(a, w), h) = Cat(a, Cat(w, h))
    BY CatAssociative
  <2>7. Cat(Cat(a, wire'), t) = Stream(session, next - 1)
    BY <1>1, <1>2, <2>3, <2>4, <2>5, <2>6
  <2>8. MakeUp(k, t, next - 1)'
    BY <1>1, <1>2, <2>2, <2>7 DEF MakeUp
  <2> QED BY <1>1, <1>5, <2>8 DEF InStep
<1> QED BY <1>1, <1>3, <1>4, <1>5, ServerStep

LEMMA WriteBreaksStep == ASSUME IInv, WriteBreaks PROVE IInv'
<1>1. /\ todo # <<>> /\ ~bad /\ bad' = TRUE /\ todo' = Tail(todo)
      /\ UNCHANGED <<session, next, exited, client, received>>
  BY DEF WriteBreaks, clientVars
<1>2. PICK h \in Seq(Byte), t \in Seq(Byte), w \in Seq(Byte) :
        /\ h = Head(todo) /\ t = FlattenSeq(Tail(todo)) /\ w = wire
        /\ FlattenSeq(todo) = Cat(h, t) /\ Tail(todo) \in Seq(Seq(Byte))
  BY <1>1, NextWrite DEF IInv, Types
<1>3. PICK p \in Seq(Byte), q \in Seq(Byte) : h = Cat(p, q) /\ wire' = Cat(w, p)
  <2>1. PICK n \in 0 .. Len(h) - 1 : wire' = w \o SubSeq(h, 1, n)
    BY <1>2 DEF WriteBreaks
  <2>2. Len(h) \in Nat
    BY LenProperties
  <2>3. 1 \in 1 .. Len(h) + 1 /\ n \in 1 - 1 .. Len(h) /\ Len(h) \in n .. Len(h)
    BY <2>1, <2>2
  <2>4. SubSeq(h, 1, n) \o SubSeq(h, n + 1, Len(h)) = SubSeq(h, 1, Len(h))
    BY <2>3, ConcatAdjacentSubSeq
  <2>5. SubSeq(h, 1, Len(h)) = h
    BY SubSeqFull
  <2>6. SubSeq(h, 1, n) \in Seq(Byte) /\ SubSeq(h, n + 1, Len(h)) \in Seq(Byte)
    <3>1. \A i \in 1 .. Len(h) : h[i] \in Byte
      BY ElementOfSeq
    <3>2. \A i \in 1 .. n : h[i] \in Byte
      BY <2>1, <2>2, <3>1
    <3>3. \A i \in n + 1 .. Len(h) : h[i] \in Byte
      BY <2>1, <2>2, <3>1
    <3>4. n \in Int /\ n + 1 \in Int /\ Len(h) \in Int
      BY <2>2
    <3> QED BY <3>2, <3>3, <3>4, SubSeqProperties
  <2> QED BY <2>1, <2>4, <2>5, <2>6 DEF Cat
<1>4. Types'
  <2>1. wire' \in Seq(Byte)
    BY <1>3, CatInSeq
  <2> QED BY <1>1, <1>2, <2>1 DEF IInv, Types
<1>5. Finishing'
  BY <1>1 DEF IInv, Finishing
<1>6. ASSUME NEW k \in Nat, k <= Len(session), InStep(k) PROVE InStep(k)'
  <2>1. PICK u \in Seq(Byte) : MakeUp(k, u, next - 1)
    BY <1>6 DEF InStep
  <2>2. PICK a \in Seq(Byte) : a = Stream(session, k)
    BY <1>6, StreamInSeq DEF IInv, Types
  <2>3. Cat(Cat(a, w), Cat(Cat(p, q), t)) = Stream(session, next - 1)
    BY <1>1, <1>2, <1>3, <2>1, <2>2 DEF MakeUp
  <2>4. PICK v \in Seq(Byte) : v = Cat(q, t) /\ Cat(Cat(p, q), t) = Cat(p, v)
    BY CatInSeq, CatAssociative
  <2>5. PICK b \in Seq(Byte) : b = Cat(a, w)
    BY CatInSeq
  <2>6. Cat(Cat(b, p), v) = Cat(b, Cat(p, v))
    BY CatAssociative
  <2>7. Cat(Cat(a, w), p) = Cat(a, Cat(w, p))
    BY CatAssociative
  <2>8. Cat(Cat(a, wire'), v) = Stream(session, next - 1)
    BY <1>3, <2>3, <2>4, <2>5, <2>6, <2>7
  <2>9. MakeUp(k, v, next - 1)'
    BY <1>1, <2>2, <2>8 DEF MakeUp
  <2> QED BY <1>1, <1>6, <2>9 DEF InStep
<1> QED BY <1>1, <1>4, <1>5, <1>6, ServerStep

LEMMA WriteDroppedStep == ASSUME IInv, WriteDropped PROVE IInv'
<1>1. /\ todo # <<>> /\ bad /\ todo' = Tail(todo)
      /\ UNCHANGED <<session, next, bad, exited, wire, client, received>>
  BY DEF WriteDropped, clientVars
<1>2. Tail(todo) \in Seq(Seq(Byte))
  BY <1>1, NextWrite DEF IInv
<1>3. Types'
  BY <1>1, <1>2 DEF IInv, Types
<1>4. Finishing'
  BY <1>1 DEF IInv, Finishing
<1>5. ASSUME NEW k \in Nat, k <= Len(session), InStep(k) PROVE InStep(k)'
  BY <1>1, <1>5 DEF InStep, MakeUp
<1> QED BY <1>1, <1>3, <1>4, <1>5, ServerStep

LEMMA ExitStep == ASSUME IInv, ServerExits PROVE IInv'
<1>1. /\ ~exited /\ todo = <<>> /\ next > Len(session) /\ exited' = TRUE
      /\ UNCHANGED <<session, next, todo, bad, wire, client, received>>
  BY DEF ServerExits, clientVars
<1>2. Types'
  BY <1>1 DEF IInv, Types
<1>3. Finishing'
  <2>1. next = Len(session) + 1
    BY <1>1, Counts DEF IInv, Types
  <2> QED BY <1>1, <2>1 DEF IInv, Finishing
<1>4. ASSUME NEW k \in Nat, k <= Len(session), InStep(k) PROVE InStep(k)'
  BY <1>1, <1>4 DEF InStep, MakeUp
<1> QED BY <1>1, <1>2, <1>3, <1>4, ServerStep

\* A client in front of a response that fits finds it, and finds its way in it.
LEMMA Found ==
  ASSUME IInv, HasResponse, NEW j \in Nat, j = Len(received) + 1, FitUpTo(j)
  PROVE  /\ j < next /\ j \in 1 .. Len(session)
         /\ Parses(Payload) /\ ParseResponse(Payload) = Meant(session[j])
         /\ \E u \in Seq(Byte) :
              /\ ~bad => u = FlattenSeq(todo)
              /\ Cat(Cat(Stream(session, j),
                         SubSeq(wire, WordBytes + ReadU32(wire, 0) + 1, Len(wire))), u)
                   = Stream(session, next - 1)
<1>1. PICK w \in Seq(Byte) : w = wire
  BY DEF IInv, Types
<1>2. Len(w) >= WordBytes /\ Len(w) >= WordBytes + ReadU32(w, 0)
  BY <1>1 DEF HasResponse
<1>3. wire # <<>>
  <2>1. Len(<<>>) = 0
    BY EmptySeq
  <2> QED BY <1>1, <1>2, <2>1 DEF WordBytes
<1>4. j < next /\ j \in 1 .. Len(session) /\ session[j] \in Response /\ Fits(session[j])
  BY <1>3, NextOnTheWire
<1>5. PICK u \in Seq(Byte), z \in Seq(Byte) :
        /\ ~bad => u = FlattenSeq(todo)
        /\ Cat(w, u) = Cat(Encoding(session[j]), z)
        /\ Cat(Stream(session, j), z) = Stream(session, next - 1)
  BY <1>1, <1>4, NextOnTheWire
<1>6. PICK r \in Response : r = session[j] /\ Fits(r) /\ Cat(w, u) = Cat(Encoding(r), z)
  BY <1>4, <1>5
<1>7. ReadU32(w, 0) = Size(r)
  BY <1>2, <1>6, FrontOfWire
<1>8. /\ SubSeq(w, WordBytes + 1, WordBytes + Size(r)) = Body(r)
      /\ SubSeq(w, WordBytes + Size(r) + 1, Len(w)) \in Seq(Byte)
      /\ Cat(SubSeq(w, WordBytes + Size(r) + 1, Len(w)), u) = z
  BY <1>2, <1>6, <1>7, FrontOfWire
<1>9. PICK rest \in Seq(Byte) :
        rest = SubSeq(wire, WordBytes + ReadU32(wire, 0) + 1, Len(wire)) /\ Cat(rest, u) = z
  BY <1>1, <1>7, <1>8
<1>10. Payload = Body(r)
  BY <1>1, <1>7, <1>8 DEF Payload
<1>11. Parses(Payload) /\ ParseResponse(Payload) = Meant(session[j])
  BY <1>6, <1>10, ClientReads
<1>12. Cat(Cat(Stream(session, j), rest), u) = Stream(session, next - 1)
  <2>1. PICK a \in Seq(Byte) : a = Stream(session, j)
    <3>1. session \in Seq(Response) /\ j <= Len(session)
      BY <1>4, Counts DEF IInv, Types
    <3> QED BY <3>1, StreamInSeq
  <2>2. Cat(Cat(a, rest), u) = Cat(a, Cat(rest, u))
    BY CatAssociative
  <2> QED BY <1>5, <1>9, <2>1, <2>2
<1> QED BY <1>4, <1>5, <1>9, <1>11, <1>12

LEMMA ReceiveStep == ASSUME IInv, Receive PROVE IInv'
<1>1. /\ client = "reading" /\ HasResponse
      /\ received' = Append(received, ParseResponse(Payload))
      /\ wire' = SubSeq(wire, WordBytes + ReadU32(wire, 0) + 1, Len(wire))
      /\ UNCHANGED <<session, next, todo, bad, exited, client>>
  BY DEF Receive, serverVars
<1>2. PICK k \in Nat, j \in Nat : k = Len(received) /\ j = k + 1 /\ j = Len(received) + 1
  BY Counts DEF IInv
<1>3. /\ \E S : received' \in Seq(S)
      /\ Len(received') = j
      /\ received'[j] = ParseResponse(Payload)
      /\ \A i \in 1 .. k : received'[i] = received[i]
  <2>1. PICK S : received \in Seq(S)
    BY DEF IInv, Types
  <2>2. PICK T : T = S \cup {ParseResponse(Payload)}
    OBVIOUS
  <2>3. received \in Seq(T) /\ ParseResponse(Payload) \in T
    BY <2>1, <2>2, SeqMonotonic
  <2> QED BY <1>1, <1>2, <2>3, AppendProperties
<1>4. wire' \in Seq(Byte)
  <2>1. PICK w \in Seq(Byte), n \in Nat : w = wire /\ n = Len(w)
    BY LenProperties DEF IInv, Types
  <2>2. n >= 2
    BY <1>1, <2>1 DEF HasResponse, WordBytes
  <2>3. w[1] \in Nat /\ w[2] \in Nat
    <3>1. w[1] \in Byte /\ w[2] \in Byte
      BY <2>1, <2>2, ElementOfSeq
    <3> QED BY <3>1, Bases DEF Byte
  <2>4. PICK m \in Nat : m = ReadU32(w, 0)
    <3>1. w[2] * Base \in Nat
      BY <2>3, Bases
    <3>2. w[1] + w[2] * Base \in Nat
      BY <2>3, <3>1
    <3> QED BY <3>2 DEF ReadU32
  <2>5. \A i \in 2 + m + 1 .. n : w[i] \in Byte
    BY <2>1, ElementOfSeq
  <2>6. SubSeq(w, 2 + m + 1, n) \in Seq(Byte)
    BY <2>5, SubSeqProperties
  <2> QED BY <1>1, <2>1, <2>4, <2>6 DEF WordBytes
<1>5. Types'
  BY <1>1, <1>3, <1>4 DEF IInv, Types
<1>6. ASSUME NEW i \in Nat PROVE FitUpTo(i)' <=> FitUpTo(i)
  BY <1>1 DEF FitUpTo
<1>7. ASSUME FitUpTo(j) PROVE InStep(j)'
  <2>1. j < next
    BY <1>1, <1>2, <1>7, Found
  <2>2. PICK u \in Seq(Byte) :
          /\ ~bad => u = FlattenSeq(todo)
          /\ Cat(Cat(Stream(session, j), wire'), u) = Stream(session, next - 1)
    BY <1>1, <1>2, <1>7, Found
  <2>3. MakeUp(j, u, next - 1)'
    BY <1>1, <2>2 DEF MakeUp
  <2> QED BY <1>1, <2>1, <2>3 DEF InStep
<1>8. Understood'
  <2> SUFFICES ASSUME NEW i \in 1 .. j, FitUpTo(i)
               PROVE  received'[i] = Meant(session[i])
    BY <1>1, <1>3, <1>6 DEF Understood
  <2>1. CASE i = j
    BY <1>1, <1>2, <1>3, <2>1, Found
  <2>2. CASE i # j
    <3>1. i \in 1 .. k
      BY <1>2, <2>2
    <3> QED BY <1>2, <1>3, <3>1 DEF IInv, Understood
  <2> QED BY <2>1, <2>2
<1>9. Confused' /\ Finishing'
  BY <1>1 DEF IInv, Confused, Finishing
<1> QED BY <1>3, <1>5, <1>6, <1>7, <1>8, <1>9 DEF IInv

LEMMA GarbageStep == ASSUME IInv, ReceiveGarbage PROVE IInv'
<1>1. /\ HasResponse /\ ~Parses(Payload) /\ client = "reading" /\ client' = "confused"
      /\ UNCHANGED <<session, next, todo, bad, exited, wire, received>>
  BY DEF ReceiveGarbage, serverVars
<1>2. PICK j \in Nat : j = Len(received) + 1
  BY Counts DEF IInv
<1>3. ~FitUpTo(j)
  BY <1>1, <1>2, Found
<1>4. Types' /\ Finishing'
  BY <1>1 DEF IInv, Types, Finishing
<1>5. Confused' /\ Understood'
  BY <1>1, <1>2, <1>3 DEF IInv, Confused, Understood, FitUpTo
<1>6. FitUpTo(Len(received))' => InStep(Len(received))'
  BY <1>1 DEF IInv, FitUpTo, InStep, MakeUp
<1> QED BY <1>4, <1>5, <1>6 DEF IInv

\* At the end of the output of a server whose writes have all gone through, the
\* client has taken every response.
LEMMA NothingLeft ==
  ASSUME IInv, exited, ~bad, ~HasResponse, FitUpTo(Len(session))
  PROVE  wire = <<>> /\ Len(received) = Len(session)
<1>1. PICK k \in Nat, j \in Nat, m \in Nat :
        k = Len(received) /\ j = k + 1 /\ j = Len(received) + 1 /\ m = Len(session)
  BY Counts DEF IInv
<1>2. FlattenSeq(todo) = <<>> /\ next = m + 1 /\ next - 1 = m
  BY <1>1, FlattenEmpty DEF IInv, Finishing
<1>3. FitUpTo(k) /\ FitUpTo(j)
  BY <1>1 DEF FitUpTo
<1>4. k <= m
  BY <1>1, <1>2, <1>3 DEF IInv, InStep
<1>5. k = m
  <2> SUFFICES ASSUME j < next PROVE FALSE
    BY <1>1, <1>2, <1>4
  <2>1. session[j] \in Response /\ Fits(session[j])
    BY <1>1, <1>3, NextOnTheWire
  <2>2. PICK w \in Seq(Byte) : w = wire
    BY DEF IInv, Types
  <2>3. PICK u \in Seq(Byte), z \in Seq(Byte) :
          u = <<>> /\ Cat(w, u) = Cat(Encoding(session[j]), z)
    BY <1>1, <1>2, <1>3, <2>2, NextOnTheWire
  <2>4. PICK r \in Response : r = session[j] /\ Fits(r) /\ Cat(w, u) = Cat(Encoding(r), z)
    BY <2>1, <2>3
  <2>5. Len(w) >= WordBytes + Size(r) /\ (Len(w) >= WordBytes => ReadU32(w, 0) = Size(r))
    BY <2>3, <2>4, FrontOfWire
  <2>6. Size(r) \in Nat /\ Len(w) \in Nat
    BY <2>4, FittingSizes, LenProperties, Bases
  <2> QED BY <2>2, <2>5, <2>6 DEF HasResponse, WordBytes
<1>6. wire = <<>>
  <2>1. PICK u \in Seq(Byte) : MakeUp(k, u, m)
    BY <1>1, <1>2, <1>3 DEF IInv, InStep
  <2>2. PICK a \in Seq(Byte), w \in Seq(Byte) : a = Stream(session, m) /\ w = wire
    BY <1>1, StreamInSeq DEF IInv, Types
  <2>3. Cat(Cat(a, w), <<>>) = a
    BY <1>2, <1>5, <2>1, <2>2 DEF MakeUp
  <2>4. Cat(Cat(a, w), <<>>) = Cat(a, w)
    BY CatInSeq, ConcatEmptySeq DEF Cat
  <2> QED BY <2>2, <2>3, <2>4, ConcatEqualIffEmpty DEF Cat
<1> QED BY <1>1, <1>5, <1>6

LEMMA EndStep == ASSUME IInv, EndOfOutput PROVE IInv'
<1>1. /\ client = "reading" /\ exited /\ ~HasResponse
      /\ client' = IF wire = <<>> THEN "done" ELSE "truncated"
      /\ UNCHANGED <<session, next, todo, bad, exited, wire, received>>
  BY DEF EndOfOutput, serverVars
<1>2. Types'
  BY <1>1 DEF IInv, Types
<1>3. Confused' /\ Understood'
  BY <1>1 DEF IInv, Confused, Understood, FitUpTo
<1>4. Finishing'
  <2>1. FitUpTo(Len(session))' <=> FitUpTo(Len(session))
    BY <1>1 DEF FitUpTo
  <2> QED BY <1>1, <2>1, NothingLeft DEF IInv, Finishing
<1>5. FitUpTo(Len(received))' => InStep(Len(received))'
  BY <1>1 DEF IInv, FitUpTo, InStep, MakeUp
<1> QED BY <1>2, <1>3, <1>4, <1>5 DEF IInv

LEMMA IdleStep == ASSUME IInv, UNCHANGED wireVars PROVE IInv'
BY DEF wireVars, serverVars, clientVars, IInv, Types, FitUpTo, InStep, MakeUp, Understood, Confused,
       Finishing

LEMMA Invariant == WireSpec => []IInv
<1>1. IInv /\ [WireNext]_wireVars => IInv'
  BY BeginStep, WriteStep, WriteBreaksStep, WriteDroppedStep, ExitStep, ReceiveStep, GarbageStep,
     EndStep, IdleStep DEF WireNext, Finished
<1> QED BY <1>1, InitIInv, PTL DEF WireSpec

----------------------------------------------------------------------------
\* Wherever stdout broke, what the client takes for the i-th response is the i-th
\* response as long as the responses fit their length words, and only a response that
\* does not can confuse it (stdin_mode.cpp:75-101).
THEOREM InStepWithTheServer == WireSpec => []ClientInStep
<1>1. IInv => ClientInStep
  <2> SUFFICES ASSUME IInv PROVE ClientInStep
    OBVIOUS
  <2>1. PICK k \in Nat : k = Len(received) /\ DOMAIN received = 1 .. k
    <3>1. PICK S : received \in Seq(S)
      BY DEF IInv, Types
    <3> QED BY <3>1, LenProperties
  <2>2. ASSUME NEW i \in Nat, AllFit(i) PROVE FitUpTo(i)
    BY <2>2 DEF AllFit, FitUpTo
  <2>3. \A i \in DOMAIN received : AllFit(i) => received[i] = Meant(session[i])
    BY <2>1, <2>2 DEF IInv, Understood
  <2>4. client = "confused" => ~AllFit(Len(received) + 1)
    BY <2>1, <2>2 DEF IInv, Confused
  <2> QED BY <2>3, <2>4 DEF ClientInStep
<1> QED BY <1>1, Invariant, PTL

\* A client that finds the output truncated is right: a write has failed.  When none
\* has, it gets every response (stdin_mode.cpp:66-101, benchmark_pipeline.py:93-98).
THEOREM TruncationIsReal == WireSpec => []TruncatedOnlyByFailure
<1>1. IInv => TruncatedOnlyByFailure
  <2> SUFFICES ASSUME IInv, client # "reading", AllFit(Len(session)), ~bad
               PROVE  client = "done" /\ Len(received) = Len(session)
    BY DEF TruncatedOnlyByFailure
  <2>1. FitUpTo(Len(session)) /\ FitUpTo(Len(received) + 1)
    <3>1. Len(session) \in Nat /\ Len(received) \in Nat
      BY Counts DEF IInv
    <3> QED BY <3>1 DEF AllFit, FitUpTo
  <2>2. client # "confused"
    BY <2>1 DEF IInv, Confused
  <2> QED BY <2>1, <2>2 DEF IInv, Types, Finishing
<1> QED BY <1>1, Invariant, PTL
=============================================================================
