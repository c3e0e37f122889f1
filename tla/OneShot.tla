------------------------------- MODULE OneShot -------------------------------
(***************************************************************************)
(* The modes that make one image of one image, from the command line to    *)
(* the exit code of main: --mode file, and --mode stdin without            *)
(* --keep-alive.  What a caller sees of them is an exit code, a file and   *)
(* what came out of stdout.                                                *)
(*                                                                         *)
(* Which model is loaded is up to ModelSelection.  Whether ncnn takes its  *)
(* files, whether the engine can process the image (Engine, Tiling), and   *)
(* whether an encoder or a write succeeds is left open.  A write to the    *)
(* output file is accepted by its buffer or reaches the disk.              *)
(***************************************************************************)
EXTENDS ModelSelection

CONSTANTS
  CommandLines,   \* the command lines to consider
  Disks,          \* the model files that may exist
  Inputs          \* what --input or stdin may hold

Containers == {"webp", "png", "jpg"}
Formats == Containers \cup {"", "WEBP", "jpeg", "other"}
\* What is at --output when the program starts: "noDir" is not even a directory.
Before == {"none", "old", "noDir"}

\* An image that is "large" once enlarged does not fit in a WebP container; an
\* input that is "unreadable" is a directory, or a file that fails to be read.
Input == {"missing", "unreadable", "empty", "garbage", "image", "large"}

ASSUME OneShotAssumption ==
  /\ \A o \in CommandLines :
       /\ o.engine \in {Cugan, Esrgan}
       /\ o.format \in Formats /\ o.before \in Before
       /\ o.scale \in Int /\ o.noise_level \in Int
       /\ o.model_name \in {""} \cup BuiltInModels \cup DOMAIN NamedScale
  /\ Inputs \subseteq Input

VARIABLES
  opts, disk, input,
  pc,
  model,       \* the model the engine has loaded
  output,      \* output_data: its container, and how much of it there is
  file,        \* what is at --output
  stdout,      \* what has come out of stdout
  exit_code    \* "running", "0", "1", or "signal"

world == <<opts, disk, input>>
vars == <<world, pc, model, output, file, stdout, exit_code>>

NoOutput == [container |-> "none", extent |-> "none"]

Init ==
  /\ opts \in CommandLines
  /\ disk \in Disks
  /\ input \in Inputs
  /\ pc = "parse"
  /\ model = NoModel
  /\ output = NoOutput
  /\ file = opts.before
  /\ stdout = "none"
  /\ exit_code = "running"

Goto(where) == pc' = where /\ UNCHANGED <<world, exit_code>>
Exit(code) == pc' = "exited" /\ exit_code' = code /\ UNCHANGED world
Unwritten == UNCHANGED <<file, stdout>>
Unprocessed == UNCHANGED <<model, output>> /\ Unwritten

----------------------------------------------------------------------------
(* main *)

ArgumentsValid == opts.args = "valid" /\ opts.scale > 0

\* The help goes to stdout.
PrintHelp ==
  /\ pc = "parse"
  /\ opts.args = "help"
  /\ stdout' = "help"
  /\ Exit("1")
  /\ UNCHANGED <<model, output, file>>

BadArguments ==
  /\ pc = "parse"
  /\ opts.args # "help" /\ ~ArgumentsValid
  /\ Exit("1")
  /\ Unprocessed

ParseOptions ==
  /\ pc = "parse"
  /\ ArgumentsValid
  /\ Goto("engine")
  /\ Unprocessed

\* init has no model directory, load_model no whole model in it.
NoModelFound ==
  /\ pc = "engine"
  /\ ModelRoot(opts) = "" \/ LoadedModel(opts, disk) = NoModel
  /\ Exit("1")
  /\ Unprocessed

\* ncnn refuses the .param or the .bin: it has no second try.
ModelRefused ==
  /\ pc = "engine"
  /\ ModelRoot(opts) # "" /\ LoadedModel(opts, disk) # NoModel
  /\ Exit("1")
  /\ Unprocessed

MakeEngine ==
  /\ pc = "engine"
  /\ ModelRoot(opts) # "" /\ LoadedModel(opts, disk) # NoModel
  /\ model' = LoadedModel(opts, disk)
  /\ Goto("read")
  /\ UNCHANGED output /\ Unwritten

----------------------------------------------------------------------------
(* run_file_mode and the first half of run_stdin_mode: reading *)

NoPaths ==
  /\ pc = "read" /\ opts.mode = "file"
  /\ ~opts.paths
  /\ Exit("1")
  /\ Unprocessed

NothingInFile ==
  /\ pc = "read" /\ opts.mode = "file" /\ opts.paths
  /\ input \in {"missing", "empty"}
  /\ Exit("1")
  /\ Unprocessed

\* The iterators over the file read past its stream: what the buffer throws is
\* caught by nobody.
ReadThrows ==
  /\ pc = "read" /\ opts.mode = "file" /\ opts.paths
  /\ input = "unreadable"
  /\ Exit("signal")
  /\ Unprocessed

\* A stdin that ends at once, or cannot be read, is no error.
NothingOnStdin ==
  /\ pc = "read" /\ opts.mode = "stdin"
  /\ input \in {"missing", "unreadable", "empty"}
  /\ Exit("0")
  /\ Unprocessed

ReadInput ==
  /\ pc = "read"
  /\ opts.mode = "file" => opts.paths
  /\ input \in {"garbage", "image", "large"}
  /\ Goto("process")
  /\ Unprocessed

----------------------------------------------------------------------------
(* process_single: decode_image, the engine, encode_image *)

\* decode_image finds no image, or the engine fails: output_data is as it was.
ProcessFails ==
  /\ pc = "process"
  /\ Exit("1")
  /\ Unprocessed

Enlarged == pc = "process" /\ input \in {"image", "large"}

\* An empty format is WebP, and the names are compared in lower case.
Lower(format) ==
  IF format \in {"", "WEBP"} THEN "webp"
  ELSE IF format = "jpeg" THEN "jpg"
  ELSE format

\* The container encode_image makes for it
ContainerFor == IF Lower(opts.format) = "webp" /\ input = "large" THEN "png" ELSE Lower(opts.format)

EncodeImage ==
  /\ Enlarged
  /\ ContainerFor \in Containers
  /\ output' = [container |-> ContainerFor, extent |-> "whole"]
  /\ Goto("write")
  /\ UNCHANGED model /\ Unwritten

\* Mutant: the outcome of the encoder is not looked at.
EncodeFailsUnseen ==
  /\ Enlarged
  /\ \/ UNCHANGED output
     \/ /\ ContainerFor \in {"png", "jpg"}
        /\ output' = [container |-> ContainerFor, extent |-> "partial"]
  /\ Goto("write")
  /\ UNCHANGED model /\ Unwritten

\* No such format, or an encoder fails: that of WebP has written to a buffer of
\* its own, those of stb piece by piece into output_data.
EncodeFails ==
  /\ Enlarged
  /\ \/ UNCHANGED output
     \/ /\ ContainerFor \in {"png", "jpg"}
        /\ output' = [container |-> ContainerFor, extent |-> "partial"]
  /\ Exit("1")
  /\ UNCHANGED model /\ Unwritten

----------------------------------------------------------------------------
(* write_entire_file *)

\* create_directories may have made the directory for nothing.
CannotOpen ==
  /\ pc = "write" /\ opts.mode = "file"
  /\ file' \in {file} \cup (IF file = "noDir" THEN {"none"} ELSE {})
  /\ Exit("1")
  /\ UNCHANGED <<model, output, stdout>>

OpenOutput ==
  /\ pc = "write" /\ opts.mode = "file"
  /\ file' = "partial"
  /\ Goto("fill")
  /\ UNCHANGED <<model, output, stdout>>

\* Mutant: file.good() is not asked.
WriteFailsUnseen ==
  /\ pc = "fill"
  /\ Exit("0")
  /\ Unprocessed

WriteFails ==
  /\ pc = "fill"
  /\ Exit("1")
  /\ Unprocessed

\* good() is asked while the end of the image may still be in the buffer ...
WriteAccepted ==
  /\ pc = "fill"
  /\ file' \in {"whole", "buffered"}
  /\ Goto("close")
  /\ UNCHANGED <<model, output, stdout>>

\* ... and the destructor of the stream, which writes it, reports to nobody.
CloseOutput ==
  /\ pc = "close"
  /\ file' \in IF file = "whole" THEN {"whole"} ELSE {"whole", "cut"}
  /\ Exit("0")
  /\ UNCHANGED <<model, output, stdout>>

----------------------------------------------------------------------------
(* The end of run_stdin_mode *)

\* std::cout.write and flush; nobody asks how they went.
WriteStdout ==
  /\ pc = "write" /\ opts.mode = "stdin"
  /\ stdout' \in {"whole", "partial"}
  /\ Exit("0")
  /\ UNCHANGED <<model, output, file>>

\* SIGPIPE, when the reader of stdout is gone
StdoutGone ==
  /\ pc = "write" /\ opts.mode = "stdin"
  /\ stdout' = "partial"
  /\ Exit("signal")
  /\ UNCHANGED <<model, output, file>>

Exited == pc = "exited" /\ UNCHANGED vars

Next ==
  \/ PrintHelp \/ BadArguments \/ ParseOptions
  \/ NoModelFound \/ ModelRefused \/ MakeEngine
  \/ NoPaths \/ NothingInFile \/ ReadThrows \/ NothingOnStdin \/ ReadInput
  \/ ProcessFails \/ EncodeImage \/ EncodeFails
  \/ CannotOpen \/ OpenOutput \/ WriteFails \/ WriteAccepted \/ CloseOutput
  \/ WriteStdout \/ StdoutGone
  \/ Exited

Spec == Init /\ [][Next]_vars

----------------------------------------------------------------------------
(* Properties *)

ImageOnStdout == stdout \in {"whole", "partial"}

\* Only a whole result leaves the program: what was at --output is lost, and
\* an image comes out of stdout, only when an encoder has finished, never to a
\* bad command line, a missing model, an unreadable image or what an encoder that
\* failed has left in output_data.
OnlyResultsLeave ==
  (file \notin {opts.before, "none"} \/ ImageOnStdout) => output.extent = "whole"

\* As far as the code looks, its exit code is honest: 0 with --mode file means that
\* a whole result was given to the stream and the stream was still good; with 1
\* there is no result, neither at --output nor on stdout.  That the stream is not
\* asked once more when it is closed is what ExitZeroMeansDelivered is about.
ExitCodeHonest ==
  /\ (exit_code = "0" /\ opts.mode = "file") => output.extent = "whole" /\ file \in {"whole", "cut"}
  /\ exit_code = "1" => ~ImageOnStdout /\ file \in {opts.before, "none", "partial"}

\* The options under which a RealESRGAN model may enlarge by something else than
\* --scale: a model by name, a scale without a model, a model that is not there
ScaleNotKept ==
  /\ opts.engine = Esrgan
  /\ \/ opts.model_name # "" \/ opts.scale \notin 2 .. 4
     \/ ~(FilesOf(ModelRoot(opts), ChooseModel(opts)) \subseteq disk)

\* A result is what the options ask for: in the format of --format, but PNG for an
\* image that WebP cannot hold; enlarged by the factor the program computes sizes
\* with, always so for RealCUGAN (realcugan_engine.cpp:55-57), and for RealESRGAN
\* outside the three cases of ScaleNotKept; by a model whose two files exist.
ResultAsAsked ==
  output.extent = "whole" =>
    /\ \/ output.container = Lower(opts.format)
       \/ Lower(opts.format) = "webp" /\ input = "large" /\ output.container = "png"
    /\ ScaleNotKept \/ ModelScale(model) = GetScaleFactor(opts)
    /\ FilesOf(ModelRoot(opts), model) \subseteq disk

\* What docs/NCNN_STDIN_STDOUT_SPEC.md:123 says of the file mode and :159 of the
\* stdin mode: exit code 0 on success, 1 on an error.  A disk that is full when the
\* destructor of the stream writes the end of the image is no error to the code
\* (file_mode.cpp:37), and neither is a stdout that fails (stdin_mode.cpp:441), even
\* for an input that is not empty.
ExitZeroMeansDelivered ==
  exit_code = "0" =>
    /\ opts.mode = "file" => file = "whole"
    /\ (opts.mode = "stdin" /\ input \in {"image", "large"}) => stdout = "whole"
=============================================================================
