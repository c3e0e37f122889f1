--------------------------- MODULE RequestParser ---------------------------
(***************************************************************************)
(* The parser of a protocol v2 request body: parse_request_payload of      *)
(* protocol_v2.hpp.  It walks a cursor over bytes somebody else wrote,     *)
(* trusting no length it reads, and either fills in a RequestPayload or    *)
(* says why not.  Each action is one field; the Read* actions take it, the *)
(* Reject* actions are the early returns that follow it.                   *)
(*                                                                         *)
(* The widths are scaled down: a byte is 0..Base-1 and a length is a word  *)
(* of two little-endian bytes instead of four.  The three limits are       *)
(* parameters; the code's values are 64 bytes, 50 MiB and 48 MiB.          *)
(***************************************************************************)
EXTENDS Integers, Sequences, ProtocolStatus

CONSTANTS
  Base,                    \* how many values a byte has
  Bodies,                  \* the request bodies that may arrive
  MaxMetaStringBytes,      \* kMaxMetaStringBytes
  MaxImageSizeBytes,       \* kMaxImageSizeBytes
  MaxBatchPayloadBytes,    \* kMaxBatchPayloadBytes
  MaxBatchItems            \* Options::max_batch_items

Byte == 0 .. Base - 1
WordBytes == 2

ASSUME BaseAssumption == Base \in Nat /\ Base > 1
ASSUME BodiesAssumption == Bodies \subseteq Seq(Byte)
ASSUME LimitAssumption ==
  /\ MaxMetaStringBytes \in Nat
  /\ MaxImageSizeBytes \in Nat
  /\ MaxBatchPayloadBytes \in Nat
  /\ MaxBatchItems \in Nat \ {0}

VARIABLES
  body,       \* the bytes of the request
  pos,        \* ptr - data: how many of them are consumed
  remaining,  \* the size_t counted down beside ptr
  request,    \* the RequestPayload being filled in
  total,      \* total_image_bytes
  status,     \* the ProtocolStatus the caller will send when parsing fails
  pc          \* the field to be read next, or how parsing ended

vars == <<body, pos, remaining, request, total, status, pc>>

Engines == {"RealCUGAN", "RealESRGAN"}
RequestPayload ==
  [engine : Engines, quality_or_scale : Seq(Byte), gpu_id : Int,
   batch_count : Nat, images : Seq(Seq(Byte))]

EmptyRequest ==
  [engine |-> "RealCUGAN", quality_or_scale |-> <<>>, gpu_id |-> 0,
   batch_count |-> 0, images |-> <<>>]

----------------------------------------------------------------------------
\* decode_u32_le at the cursor, and the two's complement reading of it
WordAt(b, p) == b[p + 1] + Base * b[p + 2]
Signed(w) == IF 2 * w < Base * Base THEN w ELSE w - Base * Base

\* n bytes from the cursor on, as a string or an image of the request
Bytes(b, p, n) == SubSeq(b, p + 1, p + n)

HasWord == remaining >= WordBytes
Word == WordAt(body, pos)

Init ==
  /\ body \in Bodies
  /\ pos = 0
  /\ remaining = Len(body)
  /\ request = EmptyRequest
  /\ total = 0
  /\ status = ValidationError
  /\ pc = "engine"

\* Mutant: the count of what is left drifts from the pointer.
ConsumeOffByOne(n) == pos' = pos + n /\ remaining' = remaining - n - 1

Consume(n) == pos' = pos + n /\ remaining' = remaining - n

\* return false, with the status the parser has set by then
Reject(st) ==
  /\ pc' = "rejected"
  /\ status' = st
  /\ UNCHANGED <<body, pos, remaining, request, total>>

ReadEngine ==
  /\ pc = "engine"
  /\ remaining >= 1
  /\ body[1] <= 1
  /\ Consume(1)
  /\ request' = [request EXCEPT !.engine =
                   IF body[1] = 1 THEN "RealESRGAN" ELSE "RealCUGAN"]
  /\ pc' = "meta"
  /\ UNCHANGED <<body, total, status>>

RejectEngine ==
  /\ pc = "engine"
  /\ remaining < 1 \/ (remaining >= 1 /\ body[1] > 1)
  /\ Reject(ValidationError)

\* Mutant: the cursor is not moved over the length that was just read.
ReadMetaNotCounted ==
  /\ pc = "meta"
  /\ HasWord
  /\ Word <= MaxMetaStringBytes
  /\ Word <= remaining - WordBytes
  /\ Consume(Word)
  /\ request' = [request EXCEPT !.quality_or_scale =
                   Bytes(body, pos + WordBytes, Word)]
  /\ pc' = "gpu"
  /\ UNCHANGED <<body, total, status>>

ReadMeta ==
  /\ pc = "meta"
  /\ HasWord
  /\ Word <= MaxMetaStringBytes
  /\ Word <= remaining - WordBytes
  /\ Consume(WordBytes + Word)
  /\ request' = [request EXCEPT !.quality_or_scale =
                   Bytes(body, pos + WordBytes, Word)]
  /\ pc' = "gpu"
  /\ UNCHANGED <<body, total, status>>

RejectMeta ==
  /\ pc = "meta"
  /\ \/ ~HasWord
     \/ HasWord /\ Word > MaxMetaStringBytes
     \/ HasWord /\ Word > remaining - WordBytes
  /\ Reject(ValidationError)

ReadGpu ==
  /\ pc = "gpu"
  /\ HasWord
  /\ Consume(WordBytes)
  /\ request' = [request EXCEPT !.gpu_id = Signed(Word)]
  /\ pc' = "count"
  /\ UNCHANGED <<body, total, status>>

RejectGpu == pc = "gpu" /\ ~HasWord /\ Reject(ValidationError)

\* Mutant: one image more than --max-batch-items is let through.
ReadCountOffByOne ==
  /\ pc = "count"
  /\ HasWord
  /\ Word > 0
  /\ Word <= MaxBatchItems + 1
  /\ Consume(WordBytes)
  /\ request' = [request EXCEPT !.batch_count = Word, !.images = <<>>]
  /\ pc' = "image"
  /\ UNCHANGED <<body, total, status>>

ReadCount ==
  /\ pc = "count"
  /\ HasWord
  /\ Word > 0
  /\ Word <= MaxBatchItems
  /\ Consume(WordBytes)
  /\ request' = [request EXCEPT !.batch_count = Word, !.images = <<>>]
  /\ pc' = "image"
  /\ UNCHANGED <<body, total, status>>

RejectCount ==
  /\ pc = "count"
  /\ ~HasWord \/ (HasWord /\ (Word = 0 \/ Word > MaxBatchItems))
  /\ Reject(ValidationError)

----------------------------------------------------------------------------
\* The image loop.  The order of its tests decides which status goes out.
MoreImages == pc = "image" /\ Len(request.images) < request.batch_count
\* Mutants: an image that is cut short is not held against the budget; the budget
\* itself is already too much.
OverBudgetUntruncated ==
  total + Word > MaxBatchPayloadBytes /\ Word <= remaining - WordBytes
OverBudgetStrict == total + Word >= MaxBatchPayloadBytes

OverBudget == total + Word > MaxBatchPayloadBytes
OverImageSize == Word > MaxImageSizeBytes

ReadImage ==
  /\ MoreImages
  /\ HasWord
  /\ ~OverBudget
  /\ ~OverImageSize
  /\ Word <= remaining - WordBytes
  /\ total' = total + Word
  /\ Consume(WordBytes + Word)
  /\ request' = [request EXCEPT !.images =
                   Append(@, Bytes(body, pos + WordBytes, Word))]
  /\ UNCHANGED <<body, status, pc>>

RejectMissingImage == MoreImages /\ ~HasWord /\ Reject(ValidationError)

RejectImageLimit ==
  /\ MoreImages
  /\ HasWord
  /\ OverBudget \/ OverImageSize
  /\ Reject(ResourceLimit)

\* Mutant: an image that is cut short is reported like one that is too large.
RejectTruncatedAsLimit ==
  /\ MoreImages
  /\ HasWord
  /\ ~OverBudget
  /\ ~OverImageSize
  /\ Word > remaining - WordBytes
  /\ Reject(ResourceLimit)

RejectTruncatedImage ==
  /\ MoreImages
  /\ HasWord
  /\ ~OverBudget
  /\ ~OverImageSize
  /\ Word > remaining - WordBytes
  /\ Reject(ValidationError)

AllImages == pc = "image" /\ Len(request.images) = request.batch_count

RejectTrailing == AllImages /\ remaining > 0 /\ Reject(ValidationError)

\* Mutant: bytes left over after the last image are ignored.
AcceptTrailing ==
  /\ AllImages
  /\ pc' = "accepted"
  /\ UNCHANGED <<body, pos, remaining, request, total, status>>

Accept ==
  /\ AllImages
  /\ remaining = 0
  /\ pc' = "accepted"
  /\ UNCHANGED <<body, pos, remaining, request, total, status>>

\* parse_request_payload has returned
Returned == pc \in {"accepted", "rejected"} /\ UNCHANGED vars

Next ==
  \/ ReadEngine \/ RejectEngine
  \/ ReadMeta \/ RejectMeta
  \/ ReadGpu \/ RejectGpu
  \/ ReadCount \/ RejectCount
  \/ ReadImage \/ RejectMissingImage \/ RejectImageLimit \/ RejectTruncatedImage
  \/ RejectTrailing \/ Accept
  \/ Returned

Spec == Init /\ [][Next]_vars

----------------------------------------------------------------------------
(* Properties *)

\* Every variable keeps its type; the cursor never leaves the buffer.
TypeOK ==
  /\ body \in Seq(Byte)
  /\ pos \in 0 .. Len(body)
  /\ remaining \in 0 .. Len(body)
  /\ request \in RequestPayload
  /\ total \in Nat
  /\ status \in {ValidationError, ResourceLimit}
  /\ pc \in {"engine", "meta", "gpu", "count", "image", "accepted", "rejected"}

FixedWords(p) ==
  IF p \in {"engine", "meta"} THEN 0
  ELSE IF p = "gpu" THEN 1 ELSE IF p = "count" THEN 2 ELSE 3

\* The two cursors the code advances by hand, ptr and remaining, agree: what
\* is consumed and what is left make up the body, and the bytes consumed are
\* exactly those of the fields taken so far.  A length added to one and not
\* subtracted from the other reads past the buffer some fields later.
CursorAccounts ==
  /\ pos + remaining = Len(body)
  /\ pc \notin {"engine", "rejected"} =>
       pos = 1 + WordBytes * (FixedWords(pc) + Len(request.images))
               + Len(request.quality_or_scale) + total

\* The request the engine is given is within every limit: as many images as
\* it announces, no more than --max-batch-items, within the memory budget.
AcceptedWithinLimits ==
  pc = "accepted" =>
    /\ Len(request.images) = request.batch_count
    /\ request.batch_count \in 1 .. MaxBatchItems
    /\ Len(request.quality_or_scale) <= MaxMetaStringBytes
    /\ total <= MaxBatchPayloadBytes
    /\ \A i \in DOMAIN request.images : Len(request.images[i]) <= MaxImageSizeBytes
=============================================================================
