----------------------------- MODULE ProtocolV2 -----------------------------
(***************************************************************************)
(* The messages of the keep-alive protocol: what a frame on stdin is, what *)
(* a response on stdout is, and which responses answer a frame.            *)
(*                                                                         *)
(* A frame is a length word and as many bytes as it announces: a header    *)
(* and a request body.  The bytes of the body are the business of          *)
(* RequestParser; here a body is the verdict parse_request_payload gives   *)
(* on it.  A response holds the index of the image each output was made    *)
(* from, which is what the order of the outputs is about.                  *)
(***************************************************************************)
EXTENDS Naturals, Sequences, ProtocolStatus

CONSTANTS
  HeaderSize,        \* kProtocolHeaderSize (16 bytes)
  MaxMessageBytes,   \* kMaxMessageBytes (64 MiB)
  RequestIds         \* the ids clients give their requests

ASSUME SizeAssumption ==
  /\ HeaderSize \in Nat \ {0}
  /\ MaxMessageBytes \in Nat
  /\ HeaderSize <= MaxMessageBytes
ASSUME IdAssumption == RequestIds \subseteq Nat

Magic == "BRDR"
Version == 2
RequestType == 1

Header == [magic : {"BRDR", "other"}, version : {1, 2}, msg_type : {1, 2},
           request_id : RequestIds]

\* What parse_request_payload makes of a body: Ok when it returns true, else the
\* status it sets; and how many images a valid one holds
BodyVerdict == {Ok, ValidationError, ResourceLimit}
Frame == [len : Nat, header : Header, verdict : BodyVerdict, batch_count : Nat \ {0}]

Response == [request_id : Nat, status : Status, outputs : Seq(Nat)]

\* parse_protocol_header
HeaderAccepted(h) ==
  /\ h.magic = Magic
  /\ h.version = Version
  /\ h.msg_type = RequestType

Failure(id, st) == [request_id |-> id, status |-> st, outputs |-> <<>>]
Success(id, n) == [request_id |-> id, status |-> Ok, outputs |-> [i \in 1 .. n |-> i]]

IsShutdown(f) == f.len = 0
Undersized(f) == f.len < HeaderSize
Oversized(f) == f.len > MaxMessageBytes

\* The protocol's promise (TODO.md, sections 3, 4 and 12): the responses that
\* may answer a frame.  A batch succeeds as a whole, its outputs in the order
\* of its images, or fails as a whole.
Answers(f) ==
  IF Undersized(f) \/ Oversized(f) THEN {Failure(0, InvalidFrame)}
  ELSE IF ~HeaderAccepted(f.header) \/ f.len = HeaderSize
    THEN {Failure(f.header.request_id, ValidationError)}
  ELSE IF f.verdict = Ok
    THEN {Success(f.header.request_id, f.batch_count),
          Failure(f.header.request_id, EngineError)}
  ELSE {Failure(f.header.request_id, f.verdict)}
=============================================================================
