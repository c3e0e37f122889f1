----------------------------- MODULE ResponseWire -----------------------------
(***************************************************************************)
(* The bytes of the responses: write_protocol_response on one side of      *)
(* stdout and the client of benchmark_pipeline.py on the other.  Where     *)
(* KeepAlive counts cells, this module has the bytes: a word is two of     *)
(* them, so that the uint32_t sums of the writer wrap around within reach. *)
(*                                                                         *)
(* A write to stdout goes through or fails after some of its bytes (a full *)
(* disk, a reader that went away); std::cout is then bad, and every later  *)
(* write a no-op, while the server goes on as if nothing had happened.     *)
(***************************************************************************)
EXTENDS Integers, SequencesExt

CONSTANTS
  Base,        \* values of a byte
  Sessions     \* the sequences of responses of a run of the server

Byte == 0 .. Base - 1
Modulus == Base * Base
Response ==
  [request_id : 0 .. Modulus - 1, status : 0 .. Modulus - 1, error : Seq(Byte),
   outputs : Seq(Seq(Byte))]

ASSUME WireAssumption == Base \in Nat \ {0, 1} /\ Sessions \subseteq Seq(Response)

VARIABLES
  session,     \* the responses the server has to write
  next,        \* the one it writes next
  todo,        \* the writes of the current response that are still to be done
  bad,         \* the badbit of std::cout
  exited,      \* the server has exited, which closes stdout
  wire,        \* bytes on the way to the client
  client,      \* "reading", or how its reading ended
  received     \* what it made of the responses

serverVars == <<session, next, todo, bad, exited>>
clientVars == <<client, received>>
wireVars == <<serverVars, wire, clientVars>>

WordBytes == 2

\* static_cast<uint32_t>, and the arithmetic of uint32_t
Word(n) == n % Modulus

WriteU32(n) == <<Word(n) % Base, Word(n) \div Base>>
ReadU32(bytes, offset) == bytes[offset + 1] + bytes[offset + 2] * Base

----------------------------------------------------------------------------
(* write_protocol_response *)

\* Mutant: the length word of each output is not counted.
PayloadBytesOfOutputs(r) ==
  FoldLeft(LAMBDA sum, output : Word(sum + Word(Len(output))),
           Word(4 * WordBytes + Len(r.error)), r.outputs)

\* payload_bytes: what comes after the length word, every sum in uint32_t
PayloadBytes(r) ==
  FoldLeft(LAMBDA sum, output : Word(sum + WordBytes + Word(Len(output))),
           Word(4 * WordBytes + Len(r.error)), r.outputs)

\* An empty message or output is not written at all.
Bytes(b) == IF b = <<>> THEN <<>> ELSE <<b>>

WriteOutput(output) == <<WriteU32(Len(output))>> \o Bytes(output)

\* Its calls of stream.write, each with its bytes
Writes(r) ==
  <<WriteU32(PayloadBytes(r)), WriteU32(r.request_id), WriteU32(r.status), WriteU32(Len(r.error))>>
    \o Bytes(r.error)
    \o <<WriteU32(Len(r.outputs))>>
    \o FlattenSeq([i \in DOMAIN r.outputs |-> WriteOutput(r.outputs[i])])

WireInit ==
  /\ session \in Sessions
  /\ next = 1
  /\ todo = <<>>
  /\ bad = FALSE
  /\ exited = FALSE
  /\ wire = <<>>
  /\ client = "reading"
  /\ received = <<>>

BeginResponse ==
  /\ ~exited /\ todo = <<>>
  /\ next <= Len(session)
  /\ todo' = Writes(session[next])
  /\ next' = next + 1
  /\ UNCHANGED <<session, bad, exited, wire, clientVars>>

Write ==
  /\ todo # <<>>
  /\ ~bad
  /\ wire' = wire \o Head(todo)
  /\ todo' = Tail(todo)
  /\ UNCHANGED <<session, next, bad, exited, clientVars>>

\* Only a part of the bytes arrives.
WriteBreaks ==
  /\ todo # <<>>
  /\ ~bad
  /\ \E n \in 0 .. Len(Head(todo)) - 1 : wire' = wire \o SubSeq(Head(todo), 1, n)
  /\ bad' = TRUE
  /\ todo' = Tail(todo)
  /\ UNCHANGED <<session, next, exited, clientVars>>

\* Mutant: the next write is tried again, as on a file descriptor.
WriteAfterFailure ==
  /\ todo # <<>>
  /\ bad
  /\ wire' = wire \o Head(todo)
  /\ todo' = Tail(todo)
  /\ UNCHANGED <<session, next, bad, exited, clientVars>>

WriteDropped ==
  /\ todo # <<>>
  /\ bad
  /\ todo' = Tail(todo)
  /\ UNCHANGED <<session, next, bad, exited, wire, clientVars>>

ServerExits ==
  /\ ~exited /\ todo = <<>>
  /\ next > Len(session)
  /\ exited' = TRUE
  /\ UNCHANGED <<session, next, todo, bad, wire, clientVars>>

----------------------------------------------------------------------------
(* The client *)

\* What it makes of a payload; "outputs" is the rest, which it does not look into.
ParseResponse(payload) ==
  LET error_len == ReadU32(payload, 2 * WordBytes)
      body == 3 * WordBytes + error_len
  IN  [request_id |-> ReadU32(payload, 0), status |-> ReadU32(payload, WordBytes),
       error |-> SubSeq(payload, 3 * WordBytes + 1, body),
       result_count |-> ReadU32(payload, body),
       outputs |-> SubSeq(payload, body + WordBytes + 1, Len(payload))]

\* struct.unpack_from raises when it runs out of bytes.
Parses(payload) ==
  /\ Len(payload) >= 3 * WordBytes
  /\ Len(payload) >= 4 * WordBytes + ReadU32(payload, 2 * WordBytes)

HasResponse == Len(wire) >= WordBytes /\ Len(wire) >= WordBytes + ReadU32(wire, 0)
Payload == SubSeq(wire, WordBytes + 1, WordBytes + ReadU32(wire, 0))

Receive ==
  /\ client = "reading"
  /\ HasResponse
  /\ Parses(Payload)
  /\ received' = Append(received, ParseResponse(Payload))
  /\ wire' = SubSeq(wire, WordBytes + ReadU32(wire, 0) + 1, Len(wire))
  /\ UNCHANGED <<serverVars, client>>

ReceiveGarbage ==
  /\ client = "reading"
  /\ HasResponse
  /\ ~Parses(Payload)
  /\ client' = "confused"
  /\ UNCHANGED <<serverVars, wire, received>>

\* "Invalid output" and "Truncated output", or nothing is left to read
EndOfOutput ==
  /\ client = "reading"
  /\ exited
  /\ ~HasResponse
  /\ client' = IF wire = <<>> THEN "done" ELSE "truncated"
  /\ UNCHANGED <<serverVars, wire, received>>

Finished == client # "reading" /\ exited /\ UNCHANGED wireVars

WireNext ==
  \/ BeginResponse \/ Write \/ WriteBreaks \/ WriteDropped \/ ServerExits
  \/ Receive \/ ReceiveGarbage \/ EndOfOutput
  \/ Finished

WireSpec == WireInit /\ [][WireNext]_wireVars

----------------------------------------------------------------------------
(* Properties *)

\* The response fits its length word: no sum of the writer wraps around.
Size(r) ==
  4 * WordBytes + Len(r.error)
    + FoldLeft(LAMBDA sum, output : sum + WordBytes + Len(output), 0, r.outputs)
Fits(r) == Size(r) < Modulus
AllFit(n) == \A i \in 1 .. n : Fits(session[i])

\* What a client should make of a response
Meant(r) ==
  [request_id |-> r.request_id, status |-> r.status, error |-> r.error,
   result_count |-> Len(r.outputs),
   outputs |-> FlattenSeq([i \in DOMAIN r.outputs |->
                             WriteU32(Len(r.outputs[i])) \o r.outputs[i]])]

\* As long as the responses fit their length words, what the client takes for the
\* i-th response is the i-th response, wherever stdout broke: no piece of a
\* response is glued to a later one (stdin_mode.cpp:75-101).
ClientInStep ==
  /\ \A i \in DOMAIN received : AllFit(i) => received[i] = Meant(session[i])
  /\ client = "confused" => ~AllFit(Len(received) + 1)

\* A client that finds the output truncated is right: a write has failed.  When
\* none has, it gets every response and nothing is left over.
TruncatedOnlyByFailure ==
  (client # "reading" /\ AllFit(Len(session)) /\ ~bad) =>
    client = "done" /\ Len(received) = Len(session)
=============================================================================
