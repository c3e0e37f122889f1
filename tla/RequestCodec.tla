---------------------------- MODULE RequestCodec ----------------------------
(***************************************************************************)
(* The other end of the request format: the encoder that the unit test     *)
(* (build_payload) and the Python client (build_request_frame) both use,   *)
(* and what the parser owes to it.  A request the encoder is given comes   *)
(* back from the parser unchanged, one that breaks a limit is refused with *)
(* the status the test asks for, and bytes that no encoder produced are    *)
(* never taken for a request.                                              *)
(***************************************************************************)
EXTENDS RequestParser, SequencesExt

CONSTANT
  Requests   \* requests some client encodes, legal or not

\* A length is sent in a uint32_t and gpu_id in an int32_t: the client has no other.
FitsItsWords(r) ==
  /\ Len(r.quality_or_scale) < Base * Base
  /\ -(Base * Base) <= 2 * r.gpu_id /\ 2 * r.gpu_id < Base * Base
  /\ r.batch_count < Base * Base
  /\ \A i \in DOMAIN r.images : Len(r.images[i]) < Base * Base

ASSUME RequestsAssumption ==
  Requests \subseteq RequestPayload /\ \A r \in Requests : FitsItsWords(r)

\* append_u32, append_i32: little-endian, the lengths modulo their width
AppendU32(w) == <<w % Base, (w \div Base) % Base>>
AppendI32(v) == AppendU32(IF v < 0 THEN v + Base * Base ELSE v)

EncodeImage(image) == AppendU32(Len(image)) \o image

\* The images of a request, each behind its length
EncodedImages(images) == FlattenSeq([i \in DOMAIN images |-> EncodeImage(images[i])])

BuildPayload(r) ==
     <<IF r.engine = "RealESRGAN" THEN 1 ELSE 0>>
  \o AppendU32(Len(r.quality_or_scale)) \o r.quality_or_scale
  \o AppendI32(r.gpu_id)
  \o AppendU32(r.batch_count)
  \o EncodedImages(r.images)

----------------------------------------------------------------------------
\* What the protocol allows a request to be, apart from the memory budget
WellFormed(r) ==
  /\ Len(r.quality_or_scale) <= MaxMetaStringBytes
  /\ r.batch_count \in 1 .. MaxBatchItems
  /\ Len(r.images) = r.batch_count

ImageBytes(r) == FoldLeft(LAMBDA sum, image : sum + Len(image), 0, r.images)
WithinBudget(r) == ImageBytes(r) <= MaxBatchPayloadBytes

LegalRequests == {r \in Requests : WellFormed(r) /\ WithinBudget(r)}
LegalEncodings == {<<BuildPayload(r), r>> : r \in LegalRequests}

\* The images of r before the i-th, and the bytes of r up to the length of the i-th
UpToImage(r, i) == [r EXCEPT !.images = SubSeq(@, 1, i - 1)]
Announcement(r, i) == BuildPayload(UpToImage(r, i)) \o AppendU32(Len(r.images[i]))

\* The announcements that make the batch of a well-formed request too large
OversizedAnnouncements ==
  UNION {{Announcement(r, i) :
            i \in {j \in DOMAIN r.images : ~WithinBudget(UpToImage(r, j + 1))}} :
         r \in {q \in Requests : WellFormed(q)}}

Done == pc \in {"accepted", "rejected"}

\* Whatever the parser accepts is byte for byte the encoding of the request it
\* hands to the engine, and that request is legal: no field is taken from the
\* bytes of another one, nothing is dropped, a negative gpu_id survives.
AcceptedIsEncoding ==
  pc = "accepted" =>
    /\ BuildPayload(request) = body
    /\ WellFormed(request)
    /\ WithinBudget(request)

\* No legal request is ever refused (protocol_request_payload_test.cpp:52), and
\* the request the engine is given is the one that was encoded.
LegalComesBack ==
  Done => \A e \in LegalEncodings : e[1] = body => pc = "accepted" /\ request = e[2]

\* A batch is refused with ResourceLimit, status 4 of protocol_v2.hpp:31, as soon as
\* the lengths it announces add up to more than the budget
\* (protocol_request_payload_test.cpp:75-83), whether or not the bytes of that image
\* follow: the order of the tests in the image loop decides that a client with a
\* frame cut short is told of the batch and not of the cut.  TODO.md:128-129 has
\* 3 and 4 the other way round: a client written from it reads an engine's failure.
OversizedIsResourceLimit ==
  Done => \A a \in OversizedAnnouncements :
    IsPrefix(a, body) => pc = "rejected" /\ status = ResourceLimit

\* Conversely ResourceLimit is said of nothing else: all that came before the
\* cursor is an encoding, images are still to come, and the length announced next
\* is really there and really too much.  A body that is malformed or cut short
\* never makes a client split a batch that was small enough.
ResourceLimitIsEarned ==
  (pc = "rejected" /\ status = ResourceLimit) =>
    /\ BuildPayload(request) = SubSeq(body, 1, pos)
    /\ Len(request.images) < request.batch_count
    /\ pos + WordBytes <= Len(body)
    /\ \/ ImageBytes(request) + Word > MaxBatchPayloadBytes
       \/ Word > MaxImageSizeBytes
=============================================================================
