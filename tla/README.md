# bdreader-ncnn-upscaler: verification development

TLA+ models of `bdreader-ncnn-upscaler`, a C++ program that enlarges comic pages
with Real-CUGAN or Real-ESRGAN networks on ncnn, with the TLC configurations that
check them on small instances and TLAPS proofs of what holds for every value of the
constants. Paths below are relative to `src/bdreader-ncnn-upscaler/` unless they
begin with a file name of the repository's root.

1. Inventory: the parts of the system
2. Modules and how they correspond to the code
3. What is abstracted
4. Runs: questions, bounds, results
5. Fairness
6. Proofs
7. Where the code and its documents disagree
8. What is not modelled
9. Plan

---

## 1. Inventory

The program is one process with one thread of its own (ncnn has workers, which
nothing in this code synchronises with). `main` (`src/main.cpp`) parses options,
makes an engine, and runs one of three modes: a file in and a file out, one image
from stdin to stdout, or the keep-alive server, a loop over framed requests on stdin.

| Component | State it keeps | Operations | Talks to |
|---|---|---|---|
| Request body parser, `src/protocol_v2.hpp` | cursor `ptr`/`remaining`, the `RequestPayload` so far, `total_image_bytes` | `parse_request_payload` and the `read_*` helpers | called by the keep-alive loop on bytes a client wrote |
| Header and messages, `src/protocol_v2.hpp` | none | `parse_protocol_header`, the status codes | same |
| Keep-alive loop, `src/modes/stdin_mode.cpp` | position in stdin, the message at hand, the outputs of the batch, counters, the state of `std::cout` | `run_keep_alive_protocol_v2`, `read_exact`, `discard_bytes`, `write_protocol_response`, `write_protocol_error`, `record_outcome` | a client over two pipes; the engine (`process_single`, `clear_allocators`) |
| Bounded queue, `src/utils/blocking_queue.hpp` | `queue_`, `closed_`, the wait sets of two condition variables | `push`, `pop`, `try_pop`, `close` | any threads; meant for the pipeline of `docs/BATCH_PROCESSING_SPEC`, used by no code yet |
| Tiling, `src/utils/tiling*.cpp`, `image_padding.hpp` | the tile at hand, the output buffer | `calculate_tiles`, `extract_tile`, `blend_tile`, `process_with_tiling`, `pad_image` | the engine (`process_rgb`), the codecs |
| Engine, `src/engines/*` | options of `net_`, two Vulkan allocators and their device, two CPU pools, `use_vulkan_`, `model_root_`, the profiles | `init`, `load_model`, `process_image`, `run_inference`, `clear_allocators`, `cleanup`, destructors | ncnn, a Vulkan device, `main` (`destroy_gpu_instance`) |
| One-image modes, `src/modes/file_mode.cpp`, `stdin_mode.cpp`, `src/main.cpp` | the output file, stdout, the exit code | `run_file_mode`, `run_stdin_mode`, `write_entire_file`, `encode_image`'s choice of a container | file system, the engine |
| Model selection, `src/engines/real*_engine.*`, `load_model` | the options after `on_options_loaded`, the model loaded | `choose_model`, `fallback_model_name`, `default_model_root`, `get_scale_factor` | the model directory; tiling, through `get_scale_factor()` |
| Responses on the wire, `write_u32`, `write_protocol_response` | how much of a response is written, the state of `std::cout` | the writes of a response, in order | the client of `benchmark_pipeline.py`, which takes them apart |
| Codecs, logger, option library, benchmark script | | | outside, or pure I/O (section 8) |

What is hard in each of them, and what has to be right:

- **Parser.** Two cursors are advanced by hand with lengths from the wire. They must
  agree, no field may be taken out of another, every limit must hold of what reaches
  the engine, no legal request may be refused, and the status must be the one that
  tells a client to split its batch.
- **Keep-alive loop.** Framing is kept by `message_len` alone: after a frame that is
  refused, the loop has to be exactly at the next one. Input may end anywhere, the
  client may die while a response is written (SIGPIPE, or a bad `std::cout` that
  swallows what follows), both sides block on pipes. Every frame has to be answered
  once, in order and rightly; a batch as a whole; the process has to end.
- **Queue.** `push` and `pop` wake one thread each, and another one may take what it
  was woken for; `close` notifies after it has released the mutex. No wakeup may be
  lost, no item lost, duplicated or reordered, and after `close` all have to get away.
- **Tiling.** Three computations in two files and two units (source pixels, output
  pixels) have to agree on where a tile begins and what of it is dropped; padding is
  rounded up to even sizes, so the crop is not symmetric; the scale may come from the
  options and from the model that was really loaded. The output must be the image,
  whole, nothing shifted and nothing twice.
- **Engine.** Vulkan may fail in the middle of an image. Options, allocators and
  pools are switched over one by one, the image is tried again, and the same clean up
  runs later a second time. Allocators must be given back once, `net_` may keep none
  of them, the CPU mode must be complete, and pools must be empty between images and
  outlive what is in them.
- **The whole server.** A tile may fail, or send the engine to the CPU, in the middle of
  an image of a batch: the response must still hold the whole batch or an error, the
  pools must be those the engine works with by then, and no image may be tried for ever.
- **Responses.** The length word is summed apart from the writes it announces, in 32
  bits, and stdout may break at any byte: a client must never take a piece of one response
  for the beginning of another.
- **One-image modes.** What a failure leaves behind: the old output file, a half
  written one, bytes on stdout, an exit code. The encoders of stb write into the result
  piece by piece, so what a failed one has left must not get out.
- **Model selection.** Which network is loaded is decided by one set of functions, how much the
  program believes it enlarges by another, and the files may be there in part.

`PROJECT.json` lists the hazards one by one, each at its line, with the properties
that watch it, or the reason why none does.

---

## 2. Modules and how they correspond to the code

| Module | Stands for | Extends or instantiates |
|---|---|---|
| `RequestParser` | `parse_request_payload` | extends `ProtocolStatus` |
| `RequestCodec` | the encoder of `src/protocol_request_payload_test.cpp`, and what parser and encoder owe each other | extends `RequestParser` |
| `ProtocolStatus` | the status codes, with the numbers that are sent | |
| `ProtocolV2` | headers, frames, responses; which responses answer a frame | extends `ProtocolStatus` |
| `FramedService` | abstract: a service that answers frames in order until it stops | extends `ProtocolV2` |
| `KeepAlive` | `run_keep_alive_protocol_v2`, its pipes and its client | extends `ProtocolV2`, instantiates `FramedService` |
| `BoundedChannel` | abstract: a bounded FIFO channel that may be shut | |
| `BlockingQueue` | `BoundedBlockingQueue` with its threads | instantiates `BoundedChannel` |
| `TileGeometry` | the arithmetic of tiles along one axis | |
| `Tiling` | `process_with_tiling`, `pad_image`, the crop of `process_image` | extends `TileGeometry` |
| `Engine` | `NcnnUpscalerEngine` from `init` to the end of `main` | |
| `KeepAliveEngine` | the process in keep-alive mode: `main`, the loop, `process_with_tiling`, the engine | instantiates `Engine` and `KeepAlive` |
| `ResponseWire` | `write_protocol_response` and the client that reads it, in bytes | |
| `ModelSelection` | options, the model loaded, its scale | |
| `OneShot` | file mode and the one-image stdin mode, to the exit code | extends `ModelSelection` |
| `MC*` | values of the constants for TLC | extends the component |
| `ProofFacts` | lemmas on induction, division and sequences | extends the library's modules |
| `OutputProofs` | theorems about `OneShot` and `ResponseWire`: what leaves the program | extends both, and `ProofFacts` |
| `*Proofs` | theorems about the component | extends the component, `TLAPS` or `ProofFacts` |

**RequestParser.** `body`, `pos`, `remaining`, `request`, `total`, `status` are the
variables of the function; `pc` is the field it is at. Each `Read*` action takes one
field, each `Reject*` is the early returns that can follow it, in the order of the
code: an image is held against the budget, then its own limit, then what is left of
the buffer. `status` is set where `out_error_status` is, and has the number the client will
see. `ResourceLimit` is looked at from both sides: a body that announces too much is refused with
it even where the bytes of that image are missing (`OversizedIsResourceLimit`), and nothing else
is (`ResourceLimitIsEarned`), so exchanging the budget and the truncation test would show. The order of
the budget and of the limit on one image cannot be seen with the code's numbers: an image above
50 MiB is above 48 MiB too, and both answers are `ResourceLimit`.

**KeepAlive.** `base`, `rd`, `need`, `message_len` are where the loop is in the stream
of frames; `pc` is what it is doing: reading a length (`stdin_mode.cpp:197`), skipping
(`212`, `230`), reading a payload (`246`), working on a batch (`352`), writing
(`66-101`), or recording the outcome (`386-399`) on its way back to the top. A position in
the stream is a frame and an offset in it. The server is not told where frames
begin: it takes the word at its position for a length, and if that is not the
beginning of a frame the word may hold anything (`Lengths`, `Garbage`). So losing
step is possible in the model, and that it does not happen is a result (`InStep`).
The client writes and reads cell by cell, under one of three disciplines; it may stop
writing anywhere (`GiveUp`) and crash anywhere (`Crash`). The engine's outcome is
left open (`ImageDone`, `ImageFails`), as are the pools while it works (`EngineWorks`).
A response is in the pipe when the loop reads on: `write_protocol_response` flushes, and
`std::cin` is tied to `std::cout`, so a read would flush as well.

**KeepAliveEngine.** The variables of `KeepAlive` and of `Engine` side by side, without
`poolsDirty`, which is the pools the engine works with (`PoolsInUse`). `main` makes the engine,
the loop runs while the engine is idle, an image goes through it tile by tile, and the
members are destroyed when the loop has returned. One image of `Engine` is one call of
`process_image`, so one tile here. `ImplementsLoop` says that all of this is a run of
`KeepAlive`: what that module leaves open the engine fills in, and no more.

**ResponseWire** (its specification is `WireSpec`, as its theorems share a module with those of
`OneShot`). A session is the responses a server has to write. A response is the list
of calls of `stream.write` it takes (`Writes`); each goes through or fails after some of its
bytes, and after a failure `std::cout` is bad and each later write does nothing. The client is
that of `benchmark_pipeline.py:92-100`, repeated until the output is used up: it trusts
the length word and takes the payload apart with `parse_response`.

**BlockingQueue.** One action per critical section. A thread outside a wait set is
about to test its predicate, for the first time or after a wakeup, so that somebody
else can come between the notification and the test. `close` is three steps, as its
notifications are outside the mutex. `given` and `taken` are history.

**Tiling.** `pc` follows `process_with_tiling`; a tile is two steps (`process_rgb`, and
`blend_tile` or the `continue`). A pixel is the place in the decoded image it was
computed from, and `output` keeps for every output pixel all that was written to it,
with the tile it came from: gaps, double writes, shifts and padding that shows through
are all visible in it. The row-wise `memcpy` of the crop is modelled by its offset in
the full image, also where the row is longer than the image.

**Engine.** `eng` is the object, its members and `net_.opt`; `device` what a device has
lent. The private helpers (`setup_vulkan_allocators`, `ensure_cpu_mode`,
`release_vulkan_allocators`, ...) are operators from one state of the object to the
next, and each action is the composition of helpers its function calls.

**ModelSelection.** Pure: `NoiseLevel` is `on_options_loaded`, `ChooseModel` and
`FallbackModelName` the virtual functions of the two engines, `LoadedModel` what
`load_model` settles for among the files there are, `GetScaleFactor` what the rest of the
program takes its scale to be, and `ModelScale` what it is. `MCTiling` takes the pairs of scale and
model for `Tiling` from here.

**OneShot.** One action per step at which the program may stop: arguments, engine,
reading, `process_single`, opening the output, writing, and the destructor of the
stream, where the last of the buffer goes to the disk with nobody asking how it went.
`output` is `output_data`, which a failed encoder may leave half full; `file` and `stdout` are
what the caller can see.

---

## 3. What is abstracted

- **Bytes.** In `RequestParser` a byte has `Base` values (4 in the runs) and a length
  word two bytes instead of four, signed for `gpu_id`. In `KeepAlive` the stream is cells:
  a length word is `WordCells` of them, a header `HeaderSize`, the rest of a response
  header one cell and each output one. `ProtocolV2` keeps of a body the verdict
  `parse_request_payload` gives on it, which is `RequestParser`'s subject.
- **Pixels** are places, not colours; the network is a map that enlarges by the scale
  of the model. What a network makes of its neighbourhood is only asked about
  (`OverlapBefore`, `NeighboursInSight`).
- **`ceil` of a float** in `calculate_tiles` is the exact ceiling: the integers
  involved are below 2^24, which single precision represents.
- **Pools** are "holds memory or not", separately for memory freed into them and for a
  result still held.
- **Width of counters** (32 and 64 bits) is not modelled where nothing reaches it:
  the counters of the summary, request ids. The length of a response is modelled with its
  width: in `ResponseWire` a word is two bytes of base 5, and sums are taken modulo 25.
- **Outcomes that others decide** are left open: whether ncnn takes a model, an inference or an
  encoder succeeds, a write goes through. `OneShot` abstracts `process_single` to these;
  what it does inside is the subject of `Tiling` and `Engine`.
- **Command lines.** `OneShot` begins with the values the option parser delivers, or its refusal.
  `--quality` is its first letter in upper case.
- **A Vulkan build** is what is modelled: `CMakeLists.txt:20` sets `NCNN_VULKAN` on. In a
  build without it, `init` ends as in `InitCpu`.

---

## 4. Runs: questions, bounds, results

Deadlock is checked in all of them: a state without a step is an error, and stopping
is an explicit action (`Returned`, `Terminated`, `Finished`, `Exited`).

| Run | Question | Instance | Distinct states |
|---|---|---|---|
| `request_parser` | does the parser accept exactly what an encoder made of a legal request, and is `ResourceLimit` said of a batch announced too large and of nothing else | 164 requests, legal and illegal; their encodings, each cut at every byte, with every byte replaced by every value, and one byte too long | about 39,000 |
| `keep_alive` | is framing ever lost, is every frame answered once, rightly and in order, do the counters agree with stdout, does the process end | all pairs of 8 kinds of frames, the other kinds alone, some triples; pipes of two cells; clients that read and write at once, wait for each response, or, where the responses fit in the pipe, read only after their last write; crash and give-up anywhere; SIGPIPE ignored or not | about 107,500 |
| `keep_alive_pools` | are the pools cleared after each request | as `keep_alive`; expected violation | |
| `keep_alive_engine` | is the process with the real engine still that loop, is every request answered whatever the engine does, what stays in the pools between requests | two batches of two and one image of one or two tiles, a malformed frame before a batch; CPU, a GPU that is there and one that is not; pipes of one cell | about 94,800 |
| `response_wire` | does the client ever take something for a response that is none, and when does it see a truncated output | up to three responses of five kinds: an error, two outputs, one that just fits its length word, one a byte too long, one whose sum wraps further | about 228,000 |
| `blocking_queue` | is it a bounded FIFO channel without lost wakeups that shuts down | 3 producers of 2 items, 2 consumers, a poller, a closer, capacity 2, spurious wakeups | about 24,000 |
| `tiling` | is no pixel written twice, and with a model of the right scale none missing or out of place | 24 image sizes; `--tile-size` absent, below, at and above the limits; both GPU profiles; every pair of scale and model that `ModelSelection` gives for scales 1 to 4, with all files, with those of the fall back only, and with `--model-name` | about 10,500 |
| `tiling_seams`, `tiling_scale` | two comments about tiles | expected violations | |
| `engine` | allocators, CPU mode, pools, end of the process | CPU, first and second GPU; 0 to 2 devices; 3 images | 957 |
| `one_shot` | what a failure leaves behind; is a result what was asked for | every combination of arguments, mode, paths, format and old output for one engine; every noise level, quality, scale, model directory and model name of both engines; five model directories from complete to empty; six kinds of input | about 47,900 |
| `one_shot_exit` | does exit code 0 mean that the image was written, to the file and to stdout | as `one_shot`; expected violation | |

Why the bounds are enough for the cases that matter:

- *Parser.* With words of two base-4 digits both digits of a length are used, a length can
  exceed what is left, the limit of its field, the image limit, the budget, and the sum of two
  images the budget, each without the others and together. The two limits on images
  are in the order of the code (budget 48 MiB below image limit 50 MiB).
- *Keep-alive.* What one frame leaves behind shows in the next; a third frame shows
  what two of them leave. Pipes of two cells are shorter than a frame (2 to 5 cells)
  and than the response of a batch (3), so both ends block in the middle of both.
  `MaxMessageBytes = HeaderSize + 1` makes undersized, header-only, full and
  oversized frames each one length apart.
- *Keep-alive with the engine.* A fall back can happen at most once; with two images in the first
  batch and two tiles in an image it can come in the first and in a later tile, image and batch, before and
  after a failure. `MaxImages` (6) is the number of tiles the scripts can need, so it never stops one.
- *Responses.* With words below 25 a response of 14 bytes of output fits and one of 15 does not;
  the bytes of outputs and errors can pass for words of a length. Three responses are one before,
  one at and one after the point where stdout breaks.
- *Queue.* A lost wakeup needs a thread that waits, one that was notified, and one that
  takes what it was notified for; the third producer makes the last two independent of
  capacity. A poller takes items without ever waiting.
- *Tiling.* With a tile of 3 to 5 and an overlap of 1 the sizes 1 to 8 are below, at and
  above one, two and three steps, odd and even; the thresholds lie between them.
- *Engine.* After the first fall back nothing changes any more from image to image;
  three images are before, at, and after it.
- *One image.* The steps depend on the options through few comparisons; every outcome of each
  of them is in the instance. The two families of command lines vary what the other keeps fixed,
  as the modes never look at the engine's options nor the engine at those of the modes.

Each property has a mutant in `PROJECT.json`: an operator beside the one it changes,
commented "Mutant" in the module, such as a test dropped, a cursor not advanced, a pool
cleared too early. The run finds the property violated with it.

---

## 5. Fairness

- **Keep-alive.** `WF(Server)`: one thread, all its steps enabled or waiting on a pipe.
  This includes that every inference ends: nothing in the code bounds it (`Timeout` is a status
  that is never sent). `WF` of `WriteCell`, `CloseStdin` and `ReadCell`: a client that has not
  crashed goes on with what it does. No fairness for `GiveUp` and `Crash`, which may
  never happen, and none on the engine's outcome. "Every frame is answered" is asked
  for frames that are completely written, to a client that stays alive.
- **Keep-alive with the engine.** `WF(Process)`: still one thread, the calls of the engine included; the client
  as above. `RequestsAnswered` is asked of a process whose engine could be made: if it could not,
  `main` returns before the loop.
- **Queue.** `WF` of each thread's push or pop, as a mutex that is released and retaken is
  eventually obtained, and of the closer's steps. None for pollers and for spurious
  wakeups. `ShutdownCompletes` is asked from `closed` on.

---

## 6. Proofs

| Module | Theorem | For every |
|---|---|---|
| `RequestParserProofs` | `TypeCorrect`, `CursorCorrect`, `LimitsHold`, `AcceptedBytes`, `LegalRequestsComeBack` (*), `OversizedRefused`, `LimitEarned` | byte sequence, size of byte, limits, and set of requests a client may encode; (*) assuming budget <= image limit, as 48 MiB and 50 MiB are |
| `KeepAliveProofs` | `TypeCorrect`, `StaysInStep`, `ServiceImplemented`, `ExitsCleanly`, `PoolsOnlyAfterFailure`, `CountersMatch` | script, capacity of the pipes, discipline, header size, message limit |
| `OutputProofs` | `InStepWithTheServer`, `TruncationIsReal` | size of byte, number, kind and length of responses, place where stdout breaks |
| `BlockingQueueProofs` | `TypeCorrect`, `StopsDrained`, `ChannelImplemented`, `WakeupsSuffice` | set of producers, consumers and pollers, capacity, number of items |
| `TilingProofs` | `TypeCorrect`, `NoDoubleWrite`, `PiecesFitTiles`, `SpansAdjoin`, `EveryPixelInPlace`, `WithoutGaps`, `OverlapInSight` | image, options, model, tile size, overlap and padding |
| `EngineProofs` | `TypeCorrect`, `NothingDangles`, `EverythingReturned`, `CpuModeComplete`, `PoolsEmpty`, `PoolsLast` | machine, `--gpu-id` and number of images |
| `KeepAliveEngineProofs` | `LoopImplemented`, `LittleMemoryBetweenRequests` | what `KeepAliveProofs` and `EngineProofs` are for every value of, and number of tiles |
| `OutputProofs` | `ResultsLeave`, `HonestExit`, `AsAsked` | command line, set of model files, input |

All assumptions are the named `ASSUME`s of the components: types of the constants,
at least one cell per word and pipe, a capacity that is not 0 (the constructor throws), a
tile size above the overlap, limits that are naturals, models given by name that are not
the built-in ones, requests of a client whose lengths are `uint32_t` and whose `gpu_id` is an
`int32_t` (`FitsItsWords`).

Every component has one inductive invariant, `IInv` (`OneImageInv` for the one-image modes), made of named parts, with
`Init => IInv` and `IInv /\ [Next]_vars => IInv'`; the properties follow from it.

- **Parser.** `TypeOK` alone is not inductive: that the next field is still in the
  buffer needs `pos + remaining = Len(body)`. `CursorAccounts` is that and the exact
  account of the fields taken; `LimitsSoFar` is what has been established of the
  request while it is being filled in.
- **Parser and encoder.** `EncodedSoFar`: the bytes consumed are the encoding of the fields read
  from them. At the end of the body that is `AcceptedIsEncoding`; it needs that a word read from
  two bytes is written as those bytes, also when it is negative. In the other direction a body is
  followed from the side of the request it encodes (`Following`): the fields filled in are that
  request's, so with `EncodedSoFar` the cursor is where the encoder has put the next field, and the
parser reads it. The body need not be complete: `Begun` says that it begins with the encoding of a
request that may have fewer images than it announces, `Announced` that the next length is over the budget.
`EachEncoded` follows the complete encodings, whose only rejection is the one for the budget;
`EachAnnounced` the others, up to the length that has to be refused. Only the first needs the
order of the two limits. `LimitEarned` is `EncodedSoFar` at the moment of the rejection.
- **Keep-alive.** The invariant says where `rd` has to be, given `base`, `pc`,
  `message_len` and `need`: while a frame is read, `need` cells of it are left; once the
  loop is past reading, `rd` is at the next frame (`ReadOK`). It is needed because `InStep`
  speaks only of the top of the loop. With it the word at `base` is always the length of the frame
  there, so the nondeterminism of a loop out of step never happens. That the stdin pipe keeps its
capacity and is never emptied below nothing needs the frames the client has come to in their places in the
stream (`Begins`): what the pipe holds is the distance of the two ends (`PipeOK`). Further parts
  tie `sent` to the frames before `base`, and `reply` to the frame at `base`. The
  refinement maps the write of a response's last cell to `Answer`, the end of the
  process or of `std::cout` to `Stop`, and everything else to a stutter. `CountersMatch` counts
  the answers in `sent` by status, and the frames by where `rd` is; `PoolsOnlyAfterFailure` follows the pools from the last `RecordOk`.
- **Keep-alive with the engine.** The invariants of `EngineProofs` hold here as they are, since
  every step is a step of `Engine` or leaves it alone; what is added ties the two together: the
  loop is in a batch while the engine is at work, and the pools in use are empty outside
  a batch unless the last reply was a failure. That makes every step one of `KeepAlive` or a
  stutter, with `RecordOk` the case that needs `clear_allocators` to reach the pools in use.
- **Queue.** `given = taken \o queue` gives order and no loss; a consumer
  stops only when the queue is closed and empty, and nothing enters it after that. `PushItem` is the abstract `Put`,
  `TakeFront` (in `pop` and `try_pop`) is `Take`, `Close` is `Shut`. For the wakeups, producers are
  counted: while one waits, at least as many as there are free places are on their way
  (`ProducersOnTheWay`). A push takes a place and at most one of those producers, a pop frees one and wakes
  one. One consumer on its way is enough on the other side, as it comes back after each item.
- **Tiling.** Along one axis a tile's contribution ends where the next one's begins, and the
  last one's at the end of the image (`SpansAdjoin`). A tile writes inside the product of
  its two spans, so two different tiles never meet, and the pixels of tiles not yet processed
  are still empty: that is the inductive part of `NoDoubleWrite`.
- **The image put together** (`ImageInv`, on top of the former). At the right scale the padding of
  a piece and the crop of its output cancel: the pixel of the enlarged, padded piece at the offset
  of the crop shows the first pixel of the piece, and no remainder of the division by the scale is
  lost on the way (`PixelExact`; `AtScale` is that tiles come back at their size times the scale).
  Each pixel of the output lies in the spans of one tile (`PixelOwnedBySome`: the last tile that
  begins at or before it), so with `WrittenByOwner` and `FilledSoFar` (the tiles done have filled
  in all they own) the image has no gap when the loop is over. `OverlapBefore` follows: a tile
  begins a whole overlap before the span it owns, or at 0.
- **Responses.** First the bytes: `payload_size`, summed apart from the writes and modulo the
  width of a word, is the number of bytes written after it if the response fits (`Fits`), and the
  client finds in them what was meant. Then the stream (`InStep`): what the client has taken, what
  is on the wire and what is still to be written make up, in this order, what the server has begun
  to write. So the next length word the client takes is a length word, or the stream ends inside a
  response because a write failed. It is needed that nothing follows a failed write: what it has
  left unwritten is the end of the stream.
- **Engine.** The device has lent exactly what the engine holds (`Held`), `net_` points
  at exactly that (`Linked`), and for each phase what must be set or gone (`Fresh`,
  `Failed`, `Working`, `Over`). `CpuModeIsComplete` speaks of inferences only, the
  invariant of the whole time the engine works on the CPU, or a later image would know nothing
  of the fall back in an earlier one.
- **One image** (`OneImageInv`). `Untouched` until there is a result, `WithResult` from then on, and the loaded
  model is the chosen one (`ModelLoaded`). `CuganScale` and `EsrganScale` are the two facts
  about the selection: the models by noise level all enlarge twice, those by scale as `--scale` says.

Only model-checked:

- Liveness: `EveryFrameAnswered`, `RequestsAnswered`, `ServerStops`, `ShutdownCompletes`. The
  prover does not deal with `ENABLED`, thus not with fairness.

Every other property of a passing run is stated by a theorem above. The expected violations
are statements of documents that the code does not keep, so there is nothing to prove of them.

Three of the proofs go by induction (over the images of a request, the outputs of a response, the
tiles along an axis). The library's induction takes an operator as its parameter, which the
provers cannot instantiate. Where a proof needs induction it takes the least element of a set of
naturals instead (`ProofFacts!LeastElement`, from the well-foundedness of `<`), and `ProofFacts` has
what `FlattenSeq` and `FoldLeft` make of a list with one more element. Nothing in
the modules with theorems is declared `RECURSIVE`.

---

## 7. Where the code and its documents disagree

Each has a run that finds the counterexample, listed under `findings`.

1. **Pools after a failed request** (`stdin_mode.cpp:375`). The comments at
   `stdin_mode.cpp:386` and `base_engine.hpp:34` say that the pools are cleared after
   each request; a request that fails in the engine leaves by `continue`, before
   `clear_allocators`. `PoolsKeptOnlyByFailure` shows that it is the only way.
2. **Seams** (`tiling.cpp:38`). The overlap is dropped from the left and upper side of a tile only,
   so a tile's last column and row are kept although computed without their right and lower
   neighbours; `tiling.hpp:25` says the overlap avoids seams. To the left and above
   the whole overlap is always in sight (`OverlapBefore`).
3. **Tiles not at scale** (`tiling_processor.cpp:109`). With the fallback model of
   scale 2 and `--scale 4`, a tile comes back smaller than the comment at
   `tiling_processor.cpp:104` says, and the rest of its place stays black.
4. **Exit code** (`file_mode.cpp:37`, `stdin_mode.cpp:441`). In the file mode the stream is asked
   before it is closed, so an image whose end could not be written exits with 0; in the stdin mode a
   failed write to stdout does. `docs/NCNN_STDIN_STDOUT_SPEC.md:123` and `:159` say of either
   mode that 0 is success and 1 an error. The two are one property, `ExitZeroMeansDelivered`, which
   each of them violates by itself. `ExitCodeHonest` is what does hold of the exit code.

Others met while modelling, without a run of their own:

- **Status codes.** `protocol_v2.hpp:30-31` has `EngineError` = 3 and `ResourceLimit` = 4, and these
  are the numbers the server sends (`ProtocolStatus`); `TODO.md:128-129`, in the section
  `docs/README.md:88` calls the canonical reference, has them the other way round.
  `docs/PERFORMANCE_BENCHMARKS.md:110-111` agrees with the code. A client written from `TODO.md`
  splits its batch after an inference failed, and takes a batch over the budget
  (`OversizedIsResourceLimit`) for a failure of the engine.
- **Layout of a request.** `TODO.md:94-98` begins the payload with the number of images; the parser
  (`protocol_v2.hpp:123-152`), its unit test (`protocol_request_payload_test.cpp:20-36`) and
  `benchmark_pipeline.py:16-33` have the engine, the quality or scale and the GPU before it, so a
  batch in the layout of `TODO.md` is read as something else, and in general refused.
  `LegalComesBack` is about the layout of the code.
- **Default of `--noise`.** `docs/NCNN_STDIN_STDOUT_SPEC.md:53` gives -1 as the default and `:73`
  calls -1 "disabled"; it leaves the choice to `--quality`, whose default E means level 0, the model
  `up2x-denoise1x`.
- **Default model directory.** `--model` has a default for RealCUGAN (`options.cpp:44`) that also holds for
  RealESRGAN, so `default_model_root`'s `models/realesrgan` is used with `--model ""` only.
- **Models of other scales.** `docs/README.md:50` names RealESRGAN's model after `--scale`; for a
  scale other than 2, 3 and 4 the model of scale 2 is loaded (`realesrgan_engine.cpp:19-22`).
- **Format of large images.** `TODO.md:171` says `--format` fixes the encoding; an image too large
  for WebP becomes a PNG (`image_io.cpp:159`). `ResultAsAsked` shows that it is the only case.
- **An older protocol.** `docs/NCNN_STDIN_STDOUT_SPEC.md:161-165` describes a keep-alive mode with
  one image per frame and a status and a size before each result, without header or request id.

---

## 8. What is not modelled

- **ncnn, Vulkan, stb_image, libwebp, cxxopts**: not in the repository, or vendored. `Engine`
  states what is used of ncnn (allocators are lent and taken back, temporaries go to the pools
  in use).
- **`process_batch`**: no caller. **`Timeout`**: never sent.
- **The logger** and the text of the summary; its counters are in `KeepAlive`.
- **Memory**: allocations that fail, sizes of outputs, `int` overflow in buffer sizes. They are
  in the hazard list.
- **The layers of a network** after a fall back: the options of `net_` change, its model is not
  loaded again, and what ncnn makes of that is outside the repository.
- **The benchmark script**'s timing; the frames it builds and the way it writes and
  reads are in `KeepAlive`.

---

## 9. Plan

The order is by what a client of the program depends on: framing and parsing first,
then the image that comes out, then the engine's resources, then the one-image modes.

Done: all modules of section 2; the theorems of section 6.

Next, proofs: what the runs check is proved, but for liveness. What is left is between the
components: that the frames `KeepAlive` calls good are those `RequestParser` accepts, and
that the responses `KeepAlive` counts as cells are those of `ResponseWire`, with the two models
joined by a refinement as `ImplementsLoop` joins the loop and the engine.

Next, extending the model: `OneShot` with `Engine` behind `process_single`, as
`KeepAliveEngine` has it for the loop, so that an exit by exception and the release of the device are
in one model.
