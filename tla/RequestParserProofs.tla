------------------------ MODULE RequestParserProofs ------------------------
(***************************************************************************)
(* The cursor of the request parser never leaves the buffer, for bodies of *)
(* any length and any values of the limits: TypeOK, the two hand-kept      *)
(* cursors agreeing (CursorAccounts) and the limits of what is accepted    *)
(* are invariants of RequestParser!Spec.                                   *)
(*                                                                         *)
(* With the encoder of the client (RequestCodec): the bytes consumed are   *)
(* the encoding of the fields read from them (EncodedSoFar), so an         *)
(* accepted body is the encoding of its request, and ResourceLimit is only *)
(* said where a length behind an encoding is too much.  A body that is the *)
(* encoding of a legal request, or that begins with one and announces too  *)
(* many image bytes, is followed field by field (Following): the first is  *)
(* accepted as that request, the second refused with ResourceLimit.        *)
(***************************************************************************)
EXTENDS RequestCodec, ProofFacts

\* The status codes are told apart by their values.
USE DEF Ok, InvalidFrame, ValidationError, EngineError, ResourceLimit, Timeout

\* Once a field has been passed its limit holds until the end: what makes
\* AcceptedWithinLimits inductive.
LimitsSoFar ==
  /\ Len(request.quality_or_scale) <= MaxMetaStringBytes
  /\ total <= MaxBatchPayloadBytes
  /\ \A i \in DOMAIN request.images : Len(request.images[i]) <= MaxImageSizeBytes
  /\ pc \in {"engine", "meta", "gpu", "count"} => request.images = <<>>
  /\ pc \in {"engine", "meta"} => request.quality_or_scale = <<>>
  /\ pc \in {"engine", "meta", "gpu", "count"} => total = 0
  /\ pc = "engine" => pos = 0
  /\ pc \in {"image", "accepted"} =>
       /\ request.batch_count \in 1 .. MaxBatchItems
       /\ Len(request.images) <= request.batch_count
  /\ pc = "accepted" => Len(request.images) = request.batch_count

IInv == TypeOK /\ CursorAccounts /\ LimitsSoFar

\* The word at a cursor that has two bytes left is a natural number.
LEMMA WordIsNat ==
  ASSUME TypeOK, CursorAccounts, HasWord
  PROVE  Word \in Nat
<1>1. body \in Seq(Byte) /\ pos + 1 \in 1 .. Len(body) /\ pos + 2 \in 1 .. Len(body)
  BY DEF TypeOK, CursorAccounts, HasWord, WordBytes
<1>2. body[pos + 1] \in Byte /\ body[pos + 2] \in Byte
  BY <1>1
<1>3. body[pos + 1] \in Nat /\ body[pos + 2] \in Nat
  BY <1>2, BaseAssumption DEF Byte
<1>4. Base * body[pos + 2] \in Nat
  BY <1>3, BaseAssumption
<1> QED BY <1>3, <1>4 DEF Word, WordAt

\* A field of n bytes that are still in the buffer is a sequence of n bytes.
LEMMA BytesLemma ==
  ASSUME NEW b \in Seq(Byte), NEW p \in Nat, NEW n \in Nat, p + n <= Len(b)
  PROVE  Bytes(b, p, n) \in Seq(Byte) /\ Len(Bytes(b, p, n)) = n
<1>1. \A i \in p + 1 .. p + n : i \in 1 .. Len(b)
  OBVIOUS
<1>2. \A i \in p + 1 .. p + n : b[i] \in Byte
  BY <1>1
<1>3. SubSeq(b, p + 1, p + n) \in Seq(Byte)
  BY <1>2, SubSeqProperties
<1>4. Len(SubSeq(b, p + 1, p + n)) = n
  BY <1>2, SubSeqProperties
<1> QED BY <1>3, <1>4 DEF Bytes

\* Reading a word as a signed number gives an integer.
LEMMA SignedIsInt == ASSUME NEW w \in Nat PROVE Signed(w) \in Int
<1>1. Base * Base \in Int
  BY BaseAssumption
<1> QED BY <1>1 DEF Signed

\* How many words the parser has read when it is about to read each field.
LEMMA FixedWordsValues ==
  /\ FixedWords("meta") = 0
  /\ FixedWords("gpu") = 1
  /\ FixedWords("count") = 2
  /\ FixedWords("image") = 3
  /\ FixedWords("accepted") = 3
BY DEF FixedWords

LEMMA InitIInv == Init => IInv
<1> SUFFICES ASSUME Init PROVE IInv
  OBVIOUS
<1>1. body \in Seq(Byte)
  BY BodiesAssumption DEF Init
<1>2. Len(body) \in Nat
  BY <1>1
<1>3. EmptyRequest \in RequestPayload
  BY DEF EmptyRequest, RequestPayload, Engines
<1>4. TypeOK
  BY <1>1, <1>2, <1>3 DEF Init, TypeOK
<1>5. CursorAccounts
  BY <1>2 DEF Init, CursorAccounts
<1>6. LimitsSoFar
  BY LimitAssumption DEF Init, LimitsSoFar, EmptyRequest
<1> QED BY <1>4, <1>5, <1>6 DEF IInv

\* An early return changes nothing the invariant speaks of but pc and status.
LEMMA RejectStep ==
  ASSUME IInv, NEW st \in {ValidationError, ResourceLimit}, Reject(st)
  PROVE  IInv'
BY DEF IInv, TypeOK, CursorAccounts, LimitsSoFar, Reject

\* A step that moves both cursors by the same amount keeps their sum.
LEMMA CursorsTogether ==
  ASSUME IInv, NEW n \in Nat, pos' = pos + n, remaining' = remaining - n, body' = body
  PROVE  pos' + remaining' = Len(body')
<1>1. pos + remaining = Len(body)
  BY DEF IInv, CursorAccounts
<1>2. Len(body) \in Nat
  BY DEF IInv, TypeOK
<1>3. pos \in Nat /\ remaining \in Nat
  BY <1>2 DEF IInv, TypeOK
<1>4. pos' + remaining' = pos + remaining
  BY <1>3
<1> QED BY <1>1, <1>4

LEMMA ReadEngineStep == ASSUME IInv, ReadEngine PROVE IInv'
<1> USE DEF IInv
<1>1. pos = 0 /\ pos' = 1 /\ remaining' = remaining - 1 /\ body' = body
  BY DEF ReadEngine, Consume, LimitsSoFar, TypeOK
<1>2. request' \in RequestPayload /\ request'.images = request.images
      /\ request'.quality_or_scale = request.quality_or_scale
  BY DEF ReadEngine, TypeOK, RequestPayload, Engines
<1>3. TypeOK'
  BY <1>1, <1>2 DEF ReadEngine, TypeOK, CursorAccounts
<1>4. CursorAccounts'
  BY <1>1, <1>2, FixedWordsValues
     DEF ReadEngine, TypeOK, CursorAccounts, LimitsSoFar, WordBytes, RequestPayload
<1>5. LimitsSoFar'
  BY <1>1, <1>2 DEF ReadEngine, LimitsSoFar
<1> QED BY <1>3, <1>4, <1>5

LEMMA ReadMetaStep == ASSUME IInv, ReadMeta PROVE IInv'
<1> USE DEF IInv
<1>1. Word \in Nat /\ Word <= MaxMetaStringBytes /\ Word <= remaining - WordBytes
  BY WordIsNat DEF ReadMeta
<1> DEFINE text == Bytes(body, pos + WordBytes, Word)
<1>2. text \in Seq(Byte) /\ Len(text) = Word
  BY <1>1, BytesLemma DEF TypeOK, CursorAccounts, WordBytes
<1>3. request' = [request EXCEPT !.quality_or_scale = text]
  BY DEF ReadMeta
<1> HIDE DEF text
<1>4. /\ request' \in RequestPayload
      /\ request'.images = request.images
      /\ request'.quality_or_scale = text
  BY <1>2, <1>3 DEF TypeOK, RequestPayload
<1>5. /\ pos' = pos + WordBytes + Word
      /\ remaining' = remaining - (WordBytes + Word)
      /\ UNCHANGED <<body, total, status>>
      /\ pc = "meta" /\ pc' = "gpu"
  BY <1>1 DEF ReadMeta, Consume, WordBytes, TypeOK
<1>6. TypeOK'
  BY <1>1, <1>4, <1>5 DEF TypeOK, CursorAccounts, WordBytes
<1>7. CursorAccounts'
  <2>1. pos = 1 + total /\ Len(request.images) = 0 /\ total \in Nat
    BY <1>5, FixedWordsValues DEF TypeOK, CursorAccounts, LimitsSoFar, WordBytes
  <2>2. pos' = 1 + WordBytes * (1 + Len(request'.images))
                 + Len(request'.quality_or_scale) + total'
    BY <2>1, <1>1, <1>2, <1>4, <1>5 DEF WordBytes
  <2>3. pos' + remaining' = Len(body')
    <3>1. WordBytes + Word \in Nat
      BY <1>1 DEF WordBytes
    <3>2. pos' = pos + (WordBytes + Word)
      BY <2>1, <1>1, <1>5 DEF WordBytes
    <3> QED BY <1>5, <3>1, <3>2, CursorsTogether
  <2> QED BY <2>2, <2>3, <1>5, FixedWordsValues DEF CursorAccounts
<1>8. LimitsSoFar'
  BY <1>1, <1>2, <1>4, <1>5 DEF LimitsSoFar
<1> QED BY <1>6, <1>7, <1>8

LEMMA ReadGpuStep == ASSUME IInv, ReadGpu PROVE IInv'
<1> USE DEF IInv
<1>1. Signed(Word) \in Int
  BY WordIsNat, SignedIsInt DEF ReadGpu
<1>2. /\ request' \in RequestPayload
      /\ request'.images = request.images
      /\ request'.quality_or_scale = request.quality_or_scale
  BY <1>1 DEF ReadGpu, TypeOK, RequestPayload
<1>3. /\ pos' = pos + WordBytes
      /\ remaining' = remaining - WordBytes
      /\ remaining >= WordBytes
      /\ UNCHANGED <<body, total, status>>
      /\ pc = "gpu" /\ pc' = "count"
  BY DEF ReadGpu, Consume, HasWord
<1>4. TypeOK'
  BY <1>2, <1>3 DEF TypeOK, CursorAccounts, WordBytes
<1>5. CursorAccounts'
  <2>1. /\ Len(request.images) = 0 /\ Len(request.quality_or_scale) \in Nat
        /\ total \in Nat /\ pos \in Nat /\ remaining \in Nat /\ Len(body) \in Nat
    BY <1>3 DEF TypeOK, LimitsSoFar, RequestPayload
  <2>2. pos = 1 + WordBytes + Len(request.quality_or_scale) + total
    BY <2>1, <1>3, FixedWordsValues DEF CursorAccounts, WordBytes
  <2> DEFINE m == Len(request.quality_or_scale)
  <2>3. /\ Len(request'.images) = 0 /\ Len(request'.quality_or_scale) = m
        /\ total' = total /\ pos' = pos + WordBytes
        /\ m \in Nat /\ pos = 1 + WordBytes + m + total
    BY <2>1, <2>2, <1>2, <1>3
  <2> HIDE DEF m
  <2>4. pos' = 1 + WordBytes * (2 + Len(request'.images))
                 + Len(request'.quality_or_scale) + total'
    BY <2>1, <2>3 DEF WordBytes
  <2>5. pos' + remaining' = Len(body')
    BY <1>3, CursorsTogether DEF WordBytes
  <2> QED BY <2>4, <2>5, <1>3, FixedWordsValues DEF CursorAccounts
<1>6. LimitsSoFar'
  BY <1>2, <1>3 DEF LimitsSoFar
<1> QED BY <1>4, <1>5, <1>6

LEMMA ReadCountStep == ASSUME IInv, ReadCount PROVE IInv'
<1> USE DEF IInv
<1>1. Word \in 1 .. MaxBatchItems
  BY WordIsNat, LimitAssumption DEF ReadCount
<1>2. /\ request' \in RequestPayload
      /\ request'.images = <<>>
      /\ request.images = <<>>
      /\ request'.batch_count = Word
      /\ request'.quality_or_scale = request.quality_or_scale
  <2>1. Word \in Nat /\ <<>> \in Seq(Seq(Byte))
    BY <1>1, LimitAssumption
  <2>2. request' = [request EXCEPT !.batch_count = Word, !.images = <<>>]
    BY DEF ReadCount
  <2>3. request \in RequestPayload /\ request.images = <<>>
    BY DEF TypeOK, LimitsSoFar, ReadCount
  <2> QED BY <2>1, <2>2, <2>3 DEF RequestPayload
<1>3. /\ pos' = pos + WordBytes
      /\ remaining' = remaining - WordBytes
      /\ remaining >= WordBytes
      /\ UNCHANGED <<body, total, status>>
      /\ pc = "count" /\ pc' = "image"
  BY DEF ReadCount, Consume, HasWord
<1>4. TypeOK'
  BY <1>2, <1>3 DEF TypeOK, CursorAccounts, WordBytes
<1>5. CursorAccounts'
  <2>1. /\ Len(request.images) = 0 /\ Len(request.quality_or_scale) \in Nat
        /\ Len(request'.images) = 0
        /\ total \in Nat /\ pos \in Nat /\ remaining \in Nat /\ Len(body) \in Nat
    BY <1>2, <1>3 DEF TypeOK, LimitsSoFar, RequestPayload
  <2>2. pos = 1 + WordBytes * 2 + Len(request.quality_or_scale) + total
    BY <2>1, <1>3, FixedWordsValues DEF CursorAccounts, WordBytes
  <2>3. pos' = 1 + WordBytes * (3 + Len(request'.images))
                 + Len(request'.quality_or_scale) + total'
    BY <2>1, <2>2, <1>2, <1>3 DEF WordBytes
  <2>4. pos' + remaining' = Len(body')
    BY <1>3, CursorsTogether DEF WordBytes
  <2> QED BY <2>3, <2>4, <1>3, FixedWordsValues DEF CursorAccounts
<1>6. LimitsSoFar'
  BY <1>1, <1>2, <1>3, LimitAssumption DEF LimitsSoFar
<1> QED BY <1>4, <1>5, <1>6

LEMMA ReadImageStep == ASSUME IInv, ReadImage PROVE IInv'
<1> USE DEF IInv
<1>1. /\ Word \in Nat
      /\ Word <= remaining - WordBytes
      /\ total + Word <= MaxBatchPayloadBytes
      /\ Word <= MaxImageSizeBytes
  BY WordIsNat, LimitAssumption DEF ReadImage, OverBudget, OverImageSize, TypeOK
<1> DEFINE image == Bytes(body, pos + WordBytes, Word)
<1>2. image \in Seq(Byte) /\ Len(image) = Word
  BY <1>1, BytesLemma DEF TypeOK, CursorAccounts, WordBytes
<1>3. request' = [request EXCEPT !.images = Append(@, image)]
  BY DEF ReadImage
<1> HIDE DEF image
<1>4. request.images \in Seq(Seq(Byte)) /\ request.batch_count \in Nat
  BY DEF TypeOK, RequestPayload
<1>5. /\ Append(request.images, image) \in Seq(Seq(Byte))
      /\ Len(Append(request.images, image)) = Len(request.images) + 1
      /\ \A i \in 1 .. Len(request.images) :
            Append(request.images, image)[i] = request.images[i]
      /\ Append(request.images, image)[Len(request.images) + 1] = image
  BY <1>2, <1>4
<1>6. /\ request' \in RequestPayload
      /\ request'.images = Append(request.images, image)
      /\ request'.quality_or_scale = request.quality_or_scale
      /\ request'.batch_count = request.batch_count
  BY <1>3, <1>5 DEF TypeOK, RequestPayload
<1>7. /\ pos' = pos + (WordBytes + Word)
      /\ remaining' = remaining - (WordBytes + Word)
      /\ total' = total + Word
      /\ UNCHANGED <<body, status, pc>>
      /\ pc = "image"
      /\ Len(request.images) < request.batch_count
  BY DEF ReadImage, Consume, MoreImages
<1>8. TypeOK'
  <2>1. pos' \in Nat /\ remaining' \in Nat /\ total' \in Nat
    BY <1>1, <1>7 DEF TypeOK, WordBytes
  <2>2. pos' + remaining' = Len(body)
    BY <1>1, <1>7, CursorsTogether DEF WordBytes
  <2>3. pos' \in 0 .. Len(body') /\ remaining' \in 0 .. Len(body')
    BY <1>7, <2>1, <2>2
  <2> QED BY <1>6, <1>7, <2>1, <2>3 DEF TypeOK
<1>9. CursorAccounts'
  <2>1. /\ Len(request.images) \in Nat /\ Len(request.quality_or_scale) \in Nat
        /\ total \in Nat /\ pos \in Nat /\ remaining \in Nat /\ Len(body) \in Nat
    BY DEF TypeOK, RequestPayload
  <2>2. pos = 1 + WordBytes * (3 + Len(request.images))
                + Len(request.quality_or_scale) + total
    BY <2>1, <1>7, FixedWordsValues DEF CursorAccounts
  <2> DEFINE m == Len(request.quality_or_scale)
             n == Len(request.images)
  <2>3. /\ Len(request'.images) = n + 1 /\ Len(request'.quality_or_scale) = m
        /\ total' = total + Word /\ pos' = pos + (WordBytes + Word)
        /\ m \in Nat /\ n \in Nat
        /\ pos = 1 + WordBytes * (3 + n) + m + total
    BY <2>1, <2>2, <1>5, <1>6, <1>7
  <2> HIDE DEF m, n
  <2>4. pos' = 1 + WordBytes * (3 + Len(request'.images))
                 + Len(request'.quality_or_scale) + total'
    BY <2>1, <2>3, <1>1 DEF WordBytes
  <2>5. pos' + remaining' = Len(body')
    <3>1. WordBytes + Word \in Nat
      BY <1>1 DEF WordBytes
    <3> QED BY <3>1, <1>7, CursorsTogether
  <2> QED BY <2>4, <2>5, <1>7, FixedWordsValues DEF CursorAccounts
<1>10. \A i \in DOMAIN request'.images : Len(request'.images[i]) <= MaxImageSizeBytes
  BY <1>1, <1>2, <1>4, <1>5, <1>6 DEF LimitsSoFar
<1>11. LimitsSoFar'
  BY <1>1, <1>4, <1>5, <1>6, <1>7, <1>10 DEF LimitsSoFar
<1> QED BY <1>8, <1>9, <1>11

LEMMA AcceptStep == ASSUME IInv, Accept PROVE IInv'
<1>1. /\ UNCHANGED <<body, pos, remaining, request, total, status>>
      /\ pc = "image" /\ pc' = "accepted"
      /\ Len(request.images) = request.batch_count
  BY DEF Accept, AllImages
<1>2. TypeOK'
  BY <1>1 DEF IInv, TypeOK
<1>3. CursorAccounts'
  BY <1>1, FixedWordsValues DEF IInv, CursorAccounts
<1>4. LimitsSoFar'
  BY <1>1 DEF IInv, LimitsSoFar
<1> QED BY <1>2, <1>3, <1>4 DEF IInv

LEMMA NextIInv == IInv /\ [Next]_vars => IInv'
<1> SUFFICES ASSUME IInv, [Next]_vars PROVE IInv'
  OBVIOUS
<1>1. CASE ReadEngine BY <1>1, ReadEngineStep
<1>2. CASE ReadMeta BY <1>2, ReadMetaStep
<1>3. CASE ReadGpu BY <1>3, ReadGpuStep
<1>4. CASE ReadCount BY <1>4, ReadCountStep
<1>5. CASE ReadImage BY <1>5, ReadImageStep
<1>6. CASE Accept BY <1>6, AcceptStep
<1>7. CASE RejectEngine \/ RejectMeta \/ RejectGpu \/ RejectCount
  BY <1>7, RejectStep DEF RejectEngine, RejectMeta, RejectGpu, RejectCount
<1>8. CASE RejectMissingImage \/ RejectImageLimit \/ RejectTruncatedImage \/ RejectTrailing
  BY <1>8, RejectStep
     DEF RejectMissingImage, RejectImageLimit, RejectTruncatedImage, RejectTrailing
<1>9. CASE Returned \/ UNCHANGED vars
  BY <1>9 DEF Returned, vars, IInv, TypeOK, CursorAccounts, LimitsSoFar
<1> QED BY <1>1, <1>2, <1>3, <1>4, <1>5, <1>6, <1>7, <1>8, <1>9 DEF Next

LEMMA SpecIInv == Spec => []IInv
BY InitIInv, NextIInv, PTL DEF Spec

----------------------------------------------------------------------------
\* The variables keep their types and the cursor never leaves the buffer,
\* whatever bytes parse_request_payload is given.
THEOREM TypeCorrect == Spec => []TypeOK
BY SpecIInv, PTL DEF IInv

\* ptr and remaining agree and count exactly the fields taken.
THEOREM CursorCorrect == Spec => []CursorAccounts
BY SpecIInv, PTL DEF IInv

\* Whatever the limits are, an accepted request is within them.
THEOREM LimitsHold == Spec => []AcceptedWithinLimits
<1>1. IInv => AcceptedWithinLimits
  BY DEF IInv, LimitsSoFar, AcceptedWithinLimits
<1> QED BY <1>1, SpecIInv, PTL

----------------------------------------------------------------------------
(* What is accepted is an encoding *)

Encodings(images) == [i \in DOMAIN images |-> EncodeImage(images[i])]

\* The encoding of a request up to each of its fields
UpToEngine(r) == <<IF r.engine = "RealESRGAN" THEN 1 ELSE 0>>
UpToMetaLength(r) == UpToEngine(r) \o AppendU32(Len(r.quality_or_scale))
UpToMeta(r) == UpToMetaLength(r) \o r.quality_or_scale
UpToGpu(r) == UpToMeta(r) \o AppendI32(r.gpu_id)
UpToCount(r) == UpToGpu(r) \o AppendU32(r.batch_count)

\* What has been consumed is the encoding of the fields that have been filled in.
EncodedSoFar ==
  /\ pc = "meta" => SubSeq(body, 1, pos) = UpToEngine(request)
  /\ pc = "gpu" => SubSeq(body, 1, pos) = UpToMeta(request)
  /\ pc = "count" => SubSeq(body, 1, pos) = UpToGpu(request)
  /\ pc \in {"image", "accepted"} =>
       /\ SubSeq(body, 1, pos) = BuildPayload(request)
       /\ total = ImageBytes(request)
  /\ pc = "accepted" => pos = Len(body)

LEMMA PayloadParts ==
  ASSUME NEW r
  PROVE  BuildPayload(r) = UpToCount(r) \o FlattenSeq(Encodings(r.images))
BY DEF BuildPayload, EncodedImages, Encodings, UpToCount, UpToGpu, UpToMeta, UpToMetaLength, UpToEngine

LEMMA ImageBytesIs ==
  ASSUME NEW r
  PROVE  ImageBytes(r) = TotalLength(r.images)
BY DEF ImageBytes, TotalLength

\* The encoder's word is two bytes; it is those the parser reads the word from.
LEMMA WordIsBytes ==
  ASSUME NEW w \in Int
  PROVE  AppendU32(w) \in Seq(Byte) /\ Len(AppendU32(w)) = WordBytes
<1>1. w % Base \in Byte /\ w \div Base \in Int
  BY BaseAssumption DEF Byte
<1>2. (w \div Base) % Base \in Byte
  BY <1>1, BaseAssumption DEF Byte
<1> QED BY <1>1, <1>2 DEF AppendU32, WordBytes

LEMMA WordComesBack ==
  ASSUME NEW b \in Seq(Byte), NEW p \in Nat, p + WordBytes <= Len(b)
  PROVE  /\ WordAt(b, p) \in 0 .. Base * Base - 1
         /\ AppendU32(WordAt(b, p)) = SubSeq(b, p + 1, p + WordBytes)
<1> DEFINE x == b[p + 1]
           y == b[p + 2]
           s == SubSeq(b, p + 1, p + 2)
<1>1. Len(b) \in Nat
  BY LenProperties
<1>2. x \in Byte /\ y \in Byte
  <2>1. p + 1 \in 1 .. Len(b) /\ p + 2 \in 1 .. Len(b)
    BY <1>1 DEF WordBytes
  <2> QED BY <2>1, ElementOfSeq
<1>3. s \in Seq(Byte) /\ Len(s) = 2 /\ s[1] = x /\ s[2] = y
  <2>1. \A i \in p + 1 .. p + 2 : b[i] \in Byte
    BY <1>2
  <2>2. /\ s \in Seq(Byte)
        /\ Len(s) = IF p + 1 <= p + 2 THEN p + 2 - (p + 1) + 1 ELSE 0
        /\ \A i \in 1 .. p + 2 - (p + 1) + 1 : s[i] = b[p + 1 + i - 1]
    BY <2>1, SubSeqProperties
  <2> HIDE DEF s
  <2>3. Len(s) = 2
    BY <2>2
  <2>4. s[1] = b[p + 1 + 1 - 1] /\ s[2] = b[p + 1 + 2 - 1]
    BY <2>2
  <2>5. b[p + 1 + 1 - 1] = x /\ b[p + 1 + 2 - 1] = y
    OBVIOUS
  <2> HIDE DEF x, y
  <2> QED BY <2>2, <2>3, <2>4, <2>5
<1>4. s = <<x, y>>
  <2> HIDE DEF s, x, y
  <2> QED BY <1>2, <1>3
<1>5. /\ x + Base * y \in 0 .. Base * Base - 1
      /\ (x + Base * y) % Base = x
      /\ (x + Base * y) \div Base = y
  <2> HIDE DEF x, y
  <2> QED BY <1>2, BaseAssumption, TwoDigits DEF Byte
<1>6. y % Base = y
  <2> HIDE DEF y
  <2>1. y \in 0 .. Base - 1 /\ Base \in Nat \ {0}
    BY <1>2, BaseAssumption DEF Byte
  <2> QED BY <2>1, OneDigit
<1>7. WordAt(b, p) = x + Base * y
  BY DEF WordAt
<1> HIDE DEF x, y, s
<1>8. AppendU32(WordAt(b, p)) = <<x, y>>
  BY <1>5, <1>6, <1>7 DEF AppendU32
<1> QED BY <1>4, <1>5, <1>7, <1>8 DEF s, WordBytes

LEMMA SignedComesBack ==
  ASSUME NEW w \in 0 .. Base * Base - 1
  PROVE  AppendI32(Signed(w)) = AppendU32(w)
<1>1. Base * Base \in Nat
  BY BaseAssumption
<1> DEFINE m == Base * Base
<1>2. Signed(w) = IF 2 * w < m THEN w ELSE w - m
  BY DEF Signed
<1>3. AppendI32(Signed(w)) = AppendU32(IF Signed(w) < 0 THEN Signed(w) + m ELSE Signed(w))
  BY DEF AppendI32
<1>4. m \in Nat /\ w \in 0 .. m - 1
  BY <1>1
<1> HIDE DEF m
<1>5. (IF Signed(w) < 0 THEN Signed(w) + m ELSE Signed(w)) = w
  BY <1>2, <1>4
<1> QED BY <1>3, <1>5

\* One more word, or one more field of bytes, has been consumed.
LEMMA WordConsumed ==
  ASSUME IInv, HasWord
  PROVE  SubSeq(body, 1, pos + WordBytes) = SubSeq(body, 1, pos) \o AppendU32(Word)
<1>1. body \in Seq(Byte) /\ pos \in Nat /\ pos + WordBytes <= Len(body) /\ WordBytes \in Nat
  BY DEF IInv, TypeOK, CursorAccounts, HasWord, WordBytes
<1>2. SubSeq(body, 1, pos + WordBytes)
        = SubSeq(body, 1, pos) \o SubSeq(body, pos + 1, pos + WordBytes)
  BY <1>1, LongerPrefix
<1>3. AppendU32(Word) = SubSeq(body, pos + 1, pos + WordBytes)
  BY <1>1, WordComesBack DEF Word
<1> QED BY <1>2, <1>3

LEMMA FieldConsumed ==
  ASSUME IInv, HasWord, Word <= remaining - WordBytes
  PROVE  SubSeq(body, 1, pos + (WordBytes + Word))
           = (SubSeq(body, 1, pos) \o AppendU32(Word)) \o Bytes(body, pos + WordBytes, Word)
<1>1. /\ body \in Seq(Byte) /\ pos + WordBytes \in Nat
      /\ (pos + WordBytes) + Word <= Len(body) /\ Word \in Nat
  BY WordIsNat DEF IInv, TypeOK, CursorAccounts, HasWord, WordBytes
<1>2. SubSeq(body, 1, (pos + WordBytes) + Word)
        = SubSeq(body, 1, pos + WordBytes)
            \o SubSeq(body, (pos + WordBytes) + 1, (pos + WordBytes) + Word)
  BY <1>1, LongerPrefix
<1>3. (pos + WordBytes) + Word = pos + (WordBytes + Word)
  BY <1>1 DEF IInv, TypeOK, WordBytes
<1>4. SubSeq(body, 1, pos + WordBytes) = SubSeq(body, 1, pos) \o AppendU32(Word)
  BY WordConsumed
<1>5. Bytes(body, pos + WordBytes, Word)
        = SubSeq(body, (pos + WordBytes) + 1, (pos + WordBytes) + Word)
  BY DEF Bytes
<1> QED BY <1>2, <1>3, <1>4, <1>5

LEMMA UpToCountInSeq ==
  ASSUME NEW r \in RequestPayload
  PROVE  /\ UpToEngine(r) \in Seq(Byte) /\ Len(UpToEngine(r)) = 1
         /\ UpToMetaLength(r) \in Seq(Byte) /\ UpToMeta(r) \in Seq(Byte)
         /\ UpToGpu(r) \in Seq(Byte) /\ UpToCount(r) \in Seq(Byte)
<1>1. /\ r.quality_or_scale \in Seq(Byte) /\ Len(r.quality_or_scale) \in Int
      /\ r.gpu_id \in Int /\ r.batch_count \in Int
  BY LenProperties DEF RequestPayload
<1>2. UpToEngine(r) \in Seq(Byte) /\ Len(UpToEngine(r)) = 1
  <2>1. 0 \in Byte /\ 1 \in Byte
    BY BaseAssumption DEF Byte
  <2> QED BY <2>1 DEF UpToEngine
<1>3. AppendU32(Len(r.quality_or_scale)) \in Seq(Byte) /\ AppendU32(r.batch_count) \in Seq(Byte)
  BY <1>1, WordIsBytes
<1>4. AppendI32(r.gpu_id) \in Seq(Byte)
  <2>1. Base * Base \in Int
    BY BaseAssumption
  <2>2. (IF r.gpu_id < 0 THEN r.gpu_id + Base * Base ELSE r.gpu_id) \in Int
    BY <1>1, <2>1
  <2> QED BY <2>2, WordIsBytes DEF AppendI32
<1>5. UpToMetaLength(r) \in Seq(Byte)
  BY <1>2, <1>3, ConcatProperties DEF UpToMetaLength
<1>6. UpToMeta(r) \in Seq(Byte)
  BY <1>1, <1>5, ConcatProperties DEF UpToMeta
<1>7. UpToGpu(r) \in Seq(Byte)
  BY <1>4, <1>6, ConcatProperties DEF UpToGpu
<1>8. UpToCount(r) \in Seq(Byte)
  BY <1>3, <1>7, ConcatProperties DEF UpToCount
<1> QED BY <1>2, <1>5, <1>6, <1>7, <1>8

LEMMA EncodedEngine == ASSUME IInv, ReadEngine PROVE EncodedSoFar'
<1>1. body \in Seq(Byte) /\ pos = 0 /\ pos' = 1 /\ body' = body /\ pc' = "meta"
      /\ body[1] <= 1 /\ Len(body) >= 1
  BY DEF IInv, TypeOK, CursorAccounts, LimitsSoFar, ReadEngine, Consume
<1>2. body[1] \in {0, 1}
  <2>1. body[1] \in Byte
    BY <1>1, ElementOfSeq
  <2> QED BY <1>1, <2>1 DEF Byte
<1>3. request'.engine = IF body[1] = 1 THEN "RealESRGAN" ELSE "RealCUGAN"
  BY DEF ReadEngine, IInv, TypeOK, RequestPayload
<1>4. SubSeq(body, 1, 1) = <<body[1]>>
  <2>1. \A i \in 1 .. 1 : body[i] \in Byte
    BY <1>1, ElementOfSeq
  <2>2. /\ SubSeq(body, 1, 1) \in Seq(Byte)
        /\ Len(SubSeq(body, 1, 1)) = IF 1 <= 1 THEN 1 - 1 + 1 ELSE 0
        /\ \A i \in 1 .. 1 - 1 + 1 : SubSeq(body, 1, 1)[i] = body[1 + i - 1]
    BY <2>1, SubSeqProperties
  <2>3. PICK u \in Seq(Byte) : u = SubSeq(body, 1, 1)
    BY <2>2
  <2>4. Len(u) = 1 /\ u[1] = body[1]
    BY <2>2, <2>3
  <2>5. u = <<body[1]>>
    BY <2>4
  <2> QED BY <2>3, <2>5
<1> QED BY <1>1, <1>2, <1>3, <1>4 DEF EncodedSoFar, UpToEngine

LEMMA EncodedMeta == ASSUME IInv, EncodedSoFar, ReadMeta PROVE EncodedSoFar'
<1>1. /\ HasWord /\ Word <= remaining - WordBytes /\ Word \in Nat
      /\ pc = "meta" /\ pc' = "gpu" /\ body' = body /\ pos' = pos + (WordBytes + Word)
  BY WordIsNat DEF IInv, ReadMeta, Consume
<1> DEFINE text == Bytes(body, pos + WordBytes, Word)
<1>2. Len(text) = Word
  BY <1>1, BytesLemma DEF IInv, TypeOK, CursorAccounts, WordBytes
<1>3. request' = [request EXCEPT !.quality_or_scale = text]
  BY DEF ReadMeta
<1>4. SubSeq(body, 1, pos') = (UpToEngine(request) \o AppendU32(Word)) \o text
  BY <1>1, FieldConsumed DEF EncodedSoFar
<1> HIDE DEF text
<1>5. request'.quality_or_scale = text /\ request'.engine = request.engine
  BY <1>3 DEF IInv, TypeOK, RequestPayload
<1>6. UpToMeta(request') = (UpToEngine(request) \o AppendU32(Word)) \o text
  BY <1>2, <1>5 DEF UpToMeta, UpToMetaLength, UpToEngine
<1> QED BY <1>1, <1>4, <1>6 DEF EncodedSoFar

LEMMA EncodedGpu == ASSUME IInv, EncodedSoFar, ReadGpu PROVE EncodedSoFar'
<1>1. /\ HasWord /\ pc = "gpu" /\ pc' = "count" /\ body' = body /\ pos' = pos + WordBytes
      /\ request' = [request EXCEPT !.gpu_id = Signed(Word)]
  BY DEF ReadGpu, Consume
<1>2. /\ request'.gpu_id = Signed(Word)
      /\ request'.engine = request.engine
      /\ request'.quality_or_scale = request.quality_or_scale
  BY <1>1 DEF IInv, TypeOK, RequestPayload
<1>3. SubSeq(body, 1, pos') = UpToMeta(request) \o AppendU32(Word)
  BY <1>1, WordConsumed DEF EncodedSoFar
<1>4. Word \in 0 .. Base * Base - 1
  <2>1. body \in Seq(Byte) /\ pos \in Nat /\ pos + WordBytes <= Len(body)
    BY <1>1 DEF IInv, TypeOK, CursorAccounts, HasWord, WordBytes
  <2> QED BY <2>1, WordComesBack DEF Word
<1>5. AppendI32(Signed(Word)) = AppendU32(Word)
  BY <1>4, SignedComesBack
<1>6. UpToMeta(request') = UpToMeta(request)
  BY <1>2 DEF UpToMeta, UpToMetaLength, UpToEngine
<1>7. UpToGpu(request') = UpToMeta(request) \o AppendU32(Word)
  BY <1>2, <1>5, <1>6 DEF UpToGpu
<1> QED BY <1>1, <1>3, <1>7 DEF EncodedSoFar

LEMMA EncodingsEmpty == FlattenSeq(Encodings(<<>>)) = <<>>
<1>1. Encodings(<<>>) = <<>>
  BY DEF Encodings
<1> QED BY <1>1, FlattenEmpty

LEMMA EncodingsInSeq ==
  ASSUME NEW images \in Seq(Seq(Byte))
  PROVE  /\ Encodings(images) \in Seq(Seq(Byte))
         /\ Len(Encodings(images)) = Len(images)
         /\ \A i \in 1 .. Len(images) : Encodings(images)[i] = EncodeImage(images[i])
<1>1. Len(images) \in Nat /\ DOMAIN images = 1 .. Len(images)
  BY LenProperties
<1>2. ASSUME NEW i \in 1 .. Len(images) PROVE EncodeImage(images[i]) \in Seq(Byte)
  <2>1. images[i] \in Seq(Byte)
    BY ElementOfSeq
  <2>2. Len(images[i]) \in Int
    BY <2>1, LenProperties
  <2>3. AppendU32(Len(images[i])) \in Seq(Byte)
    BY <2>2, WordIsBytes
  <2> QED BY <2>1, <2>3, ConcatProperties DEF EncodeImage
<1> DEFINE e(i) == EncodeImage(images[i])
<1>3. Encodings(images) = [i \in 1 .. Len(images) |-> e(i)]
  BY <1>1 DEF Encodings
<1>4. \A i \in 1 .. Len(images) : e(i) \in Seq(Byte)
  BY <1>2
<1> HIDE DEF e
<1>5. [i \in 1 .. Len(images) |-> e(i)] \in Seq(Seq(Byte))
  BY <1>1, <1>4
<1> QED BY <1>1, <1>3, <1>5 DEF e

LEMMA EncodingsAppend ==
  ASSUME NEW images \in Seq(Seq(Byte)), NEW image \in Seq(Byte)
  PROVE  Encodings(Append(images, image)) = Append(Encodings(images), EncodeImage(image))
<1>1. PICK t \in Seq(Seq(Byte)) : t = Append(images, image)
  BY AppendProperties
<1>2. PICK n \in Nat : n = Len(images)
  BY LenProperties
<1>3. Len(t) = n + 1 /\ t[n + 1] = image /\ \A i \in 1 .. n : t[i] = images[i]
  BY <1>1, <1>2, AppendProperties
<1>4. PICK e : e = EncodeImage(image)
  OBVIOUS
<1>5. PICK f \in Seq(Seq(Byte)) : f = Encodings(images)
  BY EncodingsInSeq
<1>6. PICK g \in Seq(Seq(Byte)) : g = Encodings(t)
  BY EncodingsInSeq
<1>7. Len(f) = n /\ Len(g) = n + 1 /\ g[n + 1] = e
      /\ \A i \in 1 .. n : g[i] = f[i]
  <2>1. Len(f) = n /\ \A i \in 1 .. n : f[i] = EncodeImage(images[i])
    BY <1>2, <1>5, EncodingsInSeq
  <2>2. Len(g) = n + 1 /\ \A i \in 1 .. n + 1 : g[i] = EncodeImage(t[i])
    BY <1>3, <1>6, EncodingsInSeq
  <2> QED BY <1>2, <1>3, <1>4, <2>1, <2>2
<1>8. e \in Seq(Byte)
  <2>1. n + 1 \in 1 .. Len(g)
    BY <1>7
  <2> QED BY <1>7, <2>1, ElementOfSeq
<1>9. PICK h \in Seq(Seq(Byte)) : h = Append(f, e)
  BY <1>8, AppendProperties
<1>10. Len(h) = n + 1 /\ h[n + 1] = e /\ \A i \in 1 .. n : h[i] = f[i]
  BY <1>7, <1>8, <1>9, AppendProperties
<1>11. g = h
  <2>1. \A i \in 1 .. Len(g) : g[i] = h[i]
    <3>1. \A i \in 1 .. n + 1 : i \in 1 .. n \/ i = n + 1
      OBVIOUS
    <3> QED BY <1>7, <1>10, <3>1
  <2> QED BY <1>7, <1>10, <2>1, SeqEqual
<1> QED BY <1>1, <1>4, <1>5, <1>6, <1>9, <1>11

LEMMA EncodedCount == ASSUME IInv, EncodedSoFar, ReadCount PROVE EncodedSoFar'
<1>1. /\ HasWord /\ pc = "count" /\ pc' = "image" /\ body' = body /\ pos' = pos + WordBytes
      /\ total' = total /\ total = 0
      /\ request' = [request EXCEPT !.batch_count = Word, !.images = <<>>]
  BY DEF ReadCount, Consume, IInv, LimitsSoFar
<1>2. /\ request'.batch_count = Word
      /\ request'.images = <<>>
      /\ request'.gpu_id = request.gpu_id
      /\ request'.engine = request.engine
      /\ request'.quality_or_scale = request.quality_or_scale
  BY <1>1 DEF IInv, TypeOK, RequestPayload
<1>3. SubSeq(body, 1, pos') = UpToGpu(request) \o AppendU32(Word)
  BY <1>1, WordConsumed DEF EncodedSoFar
<1>4. UpToGpu(request') = UpToGpu(request)
  BY <1>2 DEF UpToGpu, UpToMeta, UpToMetaLength, UpToEngine
<1>5. UpToCount(request') = SubSeq(body, 1, pos')
  BY <1>2, <1>3, <1>4 DEF UpToCount
<1>6. BuildPayload(request') = UpToCount(request') \o <<>>
  <2>1. BuildPayload(request') = UpToCount(request') \o FlattenSeq(Encodings(request'.images))
    BY PayloadParts
  <2> QED BY <1>2, <2>1, EncodingsEmpty
<1>7. SubSeq(body, 1, pos') \in Seq(Byte)
  <2>1. body \in Seq(Byte) /\ pos' \in Nat /\ pos' <= Len(body)
    BY <1>1 DEF IInv, TypeOK, CursorAccounts, HasWord, WordBytes
  <2>2. \A i \in 1 .. pos' : body[i] \in Byte
    BY <2>1, ElementOfSeq
  <2> QED BY <2>1, <2>2, SubSeqProperties
<1>8. BuildPayload(request') = SubSeq(body, 1, pos')
  BY <1>5, <1>6, <1>7, ConcatEmptySeq
<1>9. ImageBytes(request') = 0
  BY <1>2, ImageBytesIs, TotalLengthEmpty
<1> QED BY <1>1, <1>8, <1>9 DEF EncodedSoFar

LEMMA EncodedImage == ASSUME IInv, EncodedSoFar, ReadImage PROVE EncodedSoFar'
<1>1. /\ HasWord /\ Word <= remaining - WordBytes /\ Word \in Nat
      /\ pc = "image" /\ pc' = "image" /\ body' = body /\ pos' = pos + (WordBytes + Word)
      /\ total' = total + Word
  BY WordIsNat DEF IInv, ReadImage, MoreImages, Consume
<1> DEFINE bytes == Bytes(body, pos + WordBytes, Word)
<1>2. PICK image \in Seq(Byte) : image = bytes /\ Len(image) = Word
  <2>1. /\ body \in Seq(Byte) /\ pos + WordBytes \in Nat
        /\ (pos + WordBytes) + Word <= Len(body) /\ Word \in Nat
    BY <1>1 DEF IInv, TypeOK, CursorAccounts, WordBytes
  <2>2. bytes \in Seq(Byte) /\ Len(bytes) = Word
    BY <2>1, BytesLemma
  <2> QED BY <2>2
<1>3. request' = [request EXCEPT !.images = Append(@, image)]
  BY <1>2 DEF ReadImage
<1>4. SubSeq(body, 1, pos') = (BuildPayload(request) \o AppendU32(Word)) \o image
  BY <1>1, <1>2, FieldConsumed DEF EncodedSoFar
<1> HIDE DEF bytes
<1>5. PICK images \in Seq(Seq(Byte)) : images = request.images
  BY DEF IInv, TypeOK, RequestPayload
<1>6. /\ request'.images = Append(images, image)
      /\ request'.batch_count = request.batch_count
      /\ request'.gpu_id = request.gpu_id
      /\ request'.engine = request.engine
      /\ request'.quality_or_scale = request.quality_or_scale
  BY <1>3, <1>5 DEF IInv, TypeOK, RequestPayload
<1>7. UpToCount(request') = UpToCount(request)
  BY <1>6 DEF UpToCount, UpToGpu, UpToMeta, UpToMetaLength, UpToEngine
<1>8. PICK c : c = UpToCount(request)
  OBVIOUS
<1>9. PICK f \in Seq(Byte) : f = FlattenSeq(Encodings(images))
  BY EncodingsInSeq, FlattenInSeq
<1>10. PICK w \in Seq(Byte) : w = AppendU32(Word)
  BY <1>1, WordIsBytes
<1>11. PICK e \in Seq(Byte) : e = w \o image
  BY ConcatProperties
<1>12. FlattenSeq(Encodings(request'.images)) = f \o e
  <2>1. e = EncodeImage(image)
    BY <1>2, <1>10, <1>11 DEF EncodeImage
  <2>2. Encodings(request'.images) = Append(Encodings(images), e)
    BY <1>6, <2>1, EncodingsAppend
  <2>3. FlattenSeq(Append(Encodings(images), e)) = FlattenSeq(Encodings(images)) \o e
    BY EncodingsInSeq, FlattenOneMore
  <2> QED BY <1>9, <2>2, <2>3
<1>13. c \in Seq(Byte)
  BY <1>8, UpToCountInSeq DEF IInv, TypeOK
<1>14. BuildPayload(request') = c \o (f \o (w \o image))
  BY <1>7, <1>8, <1>11, <1>12, PayloadParts
<1>15. SubSeq(body, 1, pos') = ((c \o f) \o w) \o image
  BY <1>4, <1>5, <1>8, <1>9, <1>10, PayloadParts
<1>16. ((c \o f) \o w) \o image = c \o (f \o (w \o image))
  <2>1. image \in Seq(Byte) /\ Cat(c, f) \in Seq(Byte) /\ Cat(w, image) \in Seq(Byte)
    BY <1>2, <1>13, CatInSeq
  <2>2. Cat(Cat(Cat(c, f), w), image) = Cat(Cat(c, f), Cat(w, image))
    BY <2>1, CatAssociative
  <2>3. Cat(Cat(c, f), Cat(w, image)) = Cat(c, Cat(f, Cat(w, image)))
    BY <1>13, <2>1, CatAssociative
  <2> QED BY <2>2, <2>3 DEF Cat
<1>17. ImageBytes(request') = total'
  <2>1. ImageBytes(request') = TotalLength(images) + Len(image)
    BY <1>6, ImageBytesIs, TotalLengthAppend
  <2>2. TotalLength(images) = total
    BY <1>1, <1>5, ImageBytesIs DEF EncodedSoFar
  <2> QED BY <1>1, <1>2, <2>1, <2>2
<1> QED BY <1>1, <1>14, <1>15, <1>16, <1>17 DEF EncodedSoFar

LEMMA EncodedNext == IInv /\ EncodedSoFar /\ [Next]_vars => EncodedSoFar'
<1> SUFFICES ASSUME IInv, EncodedSoFar, [Next]_vars PROVE EncodedSoFar'
  OBVIOUS
<1>1. CASE ReadEngine BY <1>1, EncodedEngine
<1>2. CASE ReadMeta BY <1>2, EncodedMeta
<1>3. CASE ReadGpu BY <1>3, EncodedGpu
<1>4. CASE ReadCount BY <1>4, EncodedCount
<1>5. CASE ReadImage BY <1>5, EncodedImage
<1>6. CASE Accept
  <2>1. /\ UNCHANGED <<body, pos, request, total>> /\ pc = "image" /\ remaining = 0
        /\ pc' = "accepted"
    BY <1>6 DEF Accept, AllImages
  <2>2. pos = Len(body)
    BY <2>1 DEF IInv, TypeOK, CursorAccounts
  <2> QED BY <2>1, <2>2 DEF EncodedSoFar
<1>7. CASE RejectEngine \/ RejectMeta \/ RejectGpu \/ RejectCount
  BY <1>7 DEF RejectEngine, RejectMeta, RejectGpu, RejectCount, Reject, EncodedSoFar
<1>8. CASE RejectMissingImage \/ RejectImageLimit \/ RejectTruncatedImage \/ RejectTrailing
  BY <1>8 DEF RejectMissingImage, RejectImageLimit, RejectTruncatedImage, RejectTrailing,
              Reject, EncodedSoFar
<1>9. CASE Returned \/ UNCHANGED vars
  BY <1>9 DEF Returned, vars, EncodedSoFar
<1> QED BY <1>1, <1>2, <1>3, <1>4, <1>5, <1>6, <1>7, <1>8, <1>9 DEF Next

\* Whatever is accepted is, byte for byte, the encoding of the request that goes to
\* the engine, and that request is within every limit of the protocol.
THEOREM AcceptedBytes == Spec => []AcceptedIsEncoding
<1>1. Init => EncodedSoFar
  BY DEF Init, EncodedSoFar
<1>2. IInv /\ EncodedSoFar => AcceptedIsEncoding
  <2> SUFFICES ASSUME IInv, EncodedSoFar, pc = "accepted"
               PROVE  BuildPayload(request) = body /\ WellFormed(request) /\ WithinBudget(request)
    BY DEF AcceptedIsEncoding
  <2>1. SubSeq(body, 1, pos) = body
    BY SubSeqFull DEF IInv, TypeOK, EncodedSoFar
  <2> QED BY <2>1 DEF IInv, LimitsSoFar, EncodedSoFar, WellFormed, WithinBudget
<1> QED BY <1>1, <1>2, SpecIInv, EncodedNext, PTL DEF Spec

----------------------------------------------------------------------------
(* What was encoded comes back *)

\* How far the parser is when the body begins with the encoding of r
Following(r) ==
  /\ pc \in {"meta", "gpu", "count", "image", "accepted"} => request.engine = r.engine
  /\ pc \in {"gpu", "count", "image", "accepted"} =>
       request.quality_or_scale = r.quality_or_scale
  /\ pc \in {"count", "image", "accepted"} => request.gpu_id = r.gpu_id
  /\ pc \in {"image", "accepted"} =>
       /\ request.batch_count = r.batch_count
       /\ Len(request.images) <= Len(r.images)
       /\ request.images = SubSeq(r.images, 1, Len(request.images))
  /\ pc = "rejected" => status = ResourceLimit

\* The body begins with the encoding of r, which may have fewer images than it announces.
Begun(r) ==
  /\ r \in RequestPayload /\ FitsItsWords(r)
  /\ Len(r.quality_or_scale) <= MaxMetaStringBytes
  /\ r.batch_count \in 1 .. MaxBatchItems
  /\ BeginsWith(Byte, body, BuildPayload(r))

\* The body is the encoding of r and nothing else.
Encoded(r) == Begun(r) /\ Len(r.images) = r.batch_count /\ BuildPayload(r) = body

\* Behind the images of r the body announces one that is over the budget.
Announced(r) ==
  /\ Begun(r)
  /\ Len(r.images) < r.batch_count
  /\ \E w \in 0 .. Base * Base - 1, z \in Seq(Byte) :
       /\ Parts(body, BuildPayload(r), AppendU32(w), z)
       /\ ImageBytes(r) + w > MaxBatchPayloadBytes

Traced(r) == Encoded(r) \/ Announced(r)

\* A legal request is refused for its budget only; a batch announced too large is
\* followed up to that announcement, whatever comes behind it.
EachEncoded ==
  \A r \in Requests : (WellFormed(r) /\ BuildPayload(r) = body) =>
    Following(r) /\ (pc = "rejected" => ~WithinBudget(r))

EachAnnounced == \A r \in RequestPayload : Announced(r) => Following(r)

LEMMA PayloadInSeq ==
  ASSUME NEW r \in RequestPayload
  PROVE  BuildPayload(r) \in Seq(Byte)
<1>1. PICK c \in Seq(Byte) : c = UpToCount(r)
  BY UpToCountInSeq
<1>2. PICK f \in Seq(Byte) : f = FlattenSeq(Encodings(r.images))
  BY EncodingsInSeq, FlattenInSeq DEF RequestPayload
<1> QED BY <1>1, <1>2, PayloadParts, ConcatProperties

\* The word that the encoder has put at the cursor is the one the parser reads.
LEMMA NextWord ==
  ASSUME IInv, NEW x \in Seq(Byte), NEW z \in Seq(Byte), NEW w \in 0 .. Base * Base - 1,
         Parts(body, x, AppendU32(w), z), pos = Len(x)
  PROVE  HasWord /\ Word = w
<1> DEFINE u == AppendU32(w)
<1>1. w \in Int /\ Base * Base \in Nat
  BY BaseAssumption
<1>2. u \in Seq(Byte) /\ Len(u) = 2
  BY <1>1, WordIsBytes DEF WordBytes
<1>3. u[1] = w % Base /\ u[2] = (w \div Base) % Base
  BY DEF AppendU32
<1> HIDE DEF u
<1>4. Parts(body, x, u, z)
  BY DEF u
<1>5. /\ Len(body) >= Len(x) + Len(u)
      /\ \A i \in 1 .. Len(u) : body[Len(x) + i] = u[i]
  <2>1. u \in Seq(Byte)
    BY <1>2
  <2>2. Len(body) >= Len(x) + Len(u)
    BY <1>4, <2>1, PartAfter
  <2>3. \A i \in 1 .. Len(u) : body[Len(x) + i] = u[i]
    BY <1>4, <2>1, PartAfter
  <2> QED BY <2>2, <2>3
<1>6. Len(body) >= pos + 2 /\ body[pos + 1] = u[1] /\ body[pos + 2] = u[2]
  BY <1>2, <1>5
<1>7. HasWord
  BY <1>6 DEF HasWord, WordBytes, IInv, TypeOK, CursorAccounts
<1>8. /\ w % Base \in 0 .. Base - 1
      /\ w \div Base \in 0 .. Base - 1
      /\ (w % Base) + Base * (w \div Base) = w
  <2>1. Base \in Nat \ {0}
    BY BaseAssumption
  <2> QED BY <2>1, DigitsOf
<1>9. (w \div Base) % Base = w \div Base
  <2> DEFINE q == w \div Base
  <2>1. q \in 0 .. Base - 1 /\ Base \in Nat \ {0}
    BY <1>8, BaseAssumption
  <2> HIDE DEF q
  <2>2. q % Base = q
    BY <2>1, OneDigit
  <2> QED BY <2>2 DEF q
<1>10. Word = w
  BY <1>3, <1>6, <1>8, <1>9 DEF Word, WordAt
<1> QED BY <1>7, <1>10

LEMMA NextField ==
  ASSUME IInv, NEW x \in Seq(Byte), NEW y \in Seq(Byte), NEW z \in Seq(Byte),
         Len(y) < Base * Base,
         Parts(body, x \o AppendU32(Len(y)), y, z), pos = Len(x)
  PROVE  /\ HasWord
         /\ Word = Len(y)
         /\ Word <= remaining - WordBytes
         /\ Bytes(body, pos + WordBytes, Word) = y
<1>1. Len(y) \in 0 .. Base * Base - 1 /\ Len(y) \in Nat /\ Len(x) \in Nat
  BY LenProperties, BaseAssumption
<1>2. PICK u \in Seq(Byte) : u = AppendU32(Len(y)) /\ Len(u) = WordBytes
  BY <1>1, WordIsBytes
<1>3. PICK xu \in Seq(Byte) : xu = x \o u /\ Len(xu) = Len(x) + WordBytes
  BY <1>2, ConcatProperties
<1>4. PICK yz \in Seq(Byte) : yz = y \o z
  BY ConcatProperties
<1>5. (xu \o y) \o z = xu \o (y \o z)
  <2>1. Cat(Cat(xu, y), z) = Cat(xu, Cat(y, z))
    BY CatAssociative
  <2> QED BY <2>1 DEF Cat
<1>6. Parts(body, x, AppendU32(Len(y)), yz)
  BY <1>2, <1>3, <1>4, <1>5 DEF Parts
<1>7. HasWord /\ Word = Len(y)
  BY <1>1, <1>4, <1>6, NextWord
<1>8. Parts(body, xu, y, z)
  BY <1>2, <1>3
<1>9. Len(body) >= Len(xu) + Len(y) /\ SubSeq(body, Len(xu) + 1, Len(xu) + Len(y)) = y
  <2>1. Len(body) >= Len(xu) + Len(y)
    BY <1>8, PartAfter
  <2>2. SubSeq(body, Len(xu) + 1, Len(xu) + Len(y)) = y
    BY <1>8, PartAfter
  <2> QED BY <2>1, <2>2
<1>10. Word <= remaining - WordBytes
  <2>1. pos + remaining = Len(body) /\ pos \in Nat /\ remaining \in Nat
    BY DEF IInv, TypeOK, CursorAccounts
  <2>2. Len(body) >= pos + WordBytes + Word /\ Word \in Nat
    BY <1>1, <1>3, <1>7, <1>9
  <2> QED BY <2>1, <2>2 DEF WordBytes
<1>11. Bytes(body, pos + WordBytes, Word) = y
  BY <1>3, <1>7, <1>9 DEF Bytes
<1> QED BY <1>7, <1>10, <1>11

\* A body that begins with the encoding of a request, split at each of its fields
Unsigned(v) == IF v < 0 THEN v + Base * Base ELSE v

LEMMA Splits ==
  ASSUME NEW r, Begun(r)
  PROVE  \E q, f \in Seq(Byte), z1, z2, z3 \in Seq(Byte) :
           /\ q = r.quality_or_scale
           /\ body = UpToEngine(r) \o z1
           /\ Parts(body, UpToEngine(r) \o AppendU32(Len(q)), q, z2)
           /\ Parts(body, UpToMeta(r), AppendU32(Unsigned(r.gpu_id)), z3)
           /\ Parts(body, UpToGpu(r), AppendU32(r.batch_count), f)
<1>0. PICK c \in Seq(Byte), f \in Seq(Byte) : c = UpToCount(r) /\ body = c \o f
  <2>1. r \in RequestPayload /\ BeginsWith(Byte, body, BuildPayload(r))
    BY DEF Begun
  <2>2. PICK rest \in Seq(Byte) : body = BuildPayload(r) \o rest
    BY <2>1 DEF BeginsWith
  <2>3. PICK c \in Seq(Byte) : c = UpToCount(r)
    BY <2>1, UpToCountInSeq
  <2>4. PICK i \in Seq(Byte) : i = FlattenSeq(Encodings(r.images))
    BY <2>1, EncodingsInSeq, FlattenInSeq DEF RequestPayload
  <2>5. body = (c \o i) \o rest
    BY <2>2, <2>3, <2>4, PayloadParts
  <2>6. (c \o i) \o rest = c \o (i \o rest)
    <3>1. Cat(Cat(c, i), rest) = Cat(c, Cat(i, rest))
      BY CatAssociative
    <3> QED BY <3>1 DEF Cat
  <2>7. PICK f \in Seq(Byte) : f = i \o rest
    BY ConcatProperties
  <2> QED BY <2>3, <2>5, <2>6, <2>7
<1>1. PICK q \in Seq(Byte) : q = r.quality_or_scale
  BY DEF RequestPayload, Begun
<1>2. r \in RequestPayload
  BY DEF Begun
<1>3. PICK e \in Seq(Byte) : e = UpToEngine(r)
  BY <1>2, UpToCountInSeq
<1>4. /\ Len(q) \in Int /\ r.batch_count \in Int /\ Unsigned(r.gpu_id) \in Int
  <2>1. Base * Base \in Int /\ r.gpu_id \in Int /\ r.batch_count \in Int
    BY <1>2, BaseAssumption DEF RequestPayload
  <2> QED BY <2>1, LenProperties DEF Unsigned
<1>5. PICK l \in Seq(Byte) : l = AppendU32(Len(q))
  BY <1>4, WordIsBytes
<1>6. PICK g \in Seq(Byte) : g = AppendU32(Unsigned(r.gpu_id))
  BY <1>4, WordIsBytes
<1>7. PICK b \in Seq(Byte) : b = AppendU32(r.batch_count)
  BY <1>4, WordIsBytes
<1>8. AppendI32(r.gpu_id) = g
  BY <1>6 DEF AppendI32, Unsigned
<1>9. UpToMeta(r) = (e \o l) \o q
  BY <1>1, <1>3, <1>5 DEF UpToMeta, UpToMetaLength
<1>10. UpToGpu(r) = ((e \o l) \o q) \o g
  BY <1>8, <1>9 DEF UpToGpu
<1>11. body = ((((e \o l) \o q) \o g) \o b) \o f
  BY <1>0, <1>7, <1>10 DEF UpToCount
<1>12. PICK z3 \in Seq(Byte) : z3 = b \o f
  BY ConcatProperties
<1>13. PICK z2 \in Seq(Byte) : z2 = g \o z3
  BY ConcatProperties
<1>14. PICK m \in Seq(Byte) : m = (e \o l) \o q
  BY ConcatProperties
<1>15. ((m \o g) \o b) \o f = (m \o g) \o (b \o f)
  <2>1. PICK n \in Seq(Byte) : n = m \o g
    BY ConcatProperties
  <2>2. (n \o b) \o f = n \o (b \o f)
    <3>1. Cat(Cat(n, b), f) = Cat(n, Cat(b, f))
      BY CatAssociative
    <3> QED BY <3>1 DEF Cat
  <2> QED BY <2>1, <2>2
<1>16. (m \o g) \o z3 = m \o (g \o z3)
  <2>1. Cat(Cat(m, g), z3) = Cat(m, Cat(g, z3))
    BY CatAssociative
  <2> QED BY <2>1 DEF Cat
<1>17. body = (m \o g) \o z3 /\ body = m \o z2
  BY <1>11, <1>12, <1>13, <1>14, <1>15, <1>16
<1>18. PICK z1 \in Seq(Byte) : z1 = l \o (q \o z2)
  BY ConcatProperties
<1>19. m \o z2 = e \o z1
  <2>1. ((e \o l) \o q) \o z2 = e \o (l \o (q \o z2))
    <3>1. PICK el \in Seq(Byte) : el = e \o l
      BY ConcatProperties
    <3>2. (el \o q) \o z2 = el \o (q \o z2)
      <4>1. Cat(Cat(el, q), z2) = Cat(el, Cat(q, z2))
        BY CatAssociative
      <4> QED BY <4>1 DEF Cat
    <3>3. PICK qz \in Seq(Byte) : qz = q \o z2
      BY ConcatProperties
    <3>4. (e \o l) \o qz = e \o (l \o qz)
      <4>1. Cat(Cat(e, l), qz) = Cat(e, Cat(l, qz))
        BY CatAssociative
      <4> QED BY <4>1 DEF Cat
    <3> QED BY <3>1, <3>2, <3>3, <3>4
  <2> QED BY <1>14, <1>18, <2>1
<1>20. /\ body = e \o z1
       /\ body = ((e \o l) \o q) \o z2
       /\ body = (((e \o l) \o q) \o g) \o z3
       /\ body = ((((e \o l) \o q) \o g) \o b) \o f
  BY <1>11, <1>14, <1>17, <1>19
<1>21. /\ body = UpToEngine(r) \o z1
       /\ Parts(body, UpToEngine(r) \o AppendU32(Len(q)), q, z2)
       /\ Parts(body, UpToMeta(r), AppendU32(Unsigned(r.gpu_id)), z3)
       /\ Parts(body, UpToGpu(r), AppendU32(r.batch_count), f)
  BY <1>3, <1>5, <1>6, <1>7, <1>9, <1>10, <1>20 DEF Parts
<1> QED BY <1>1, <1>2, <1>21

LEMMA PrefixOfImages ==
  ASSUME NEW images \in Seq(Seq(Byte)), NEW k \in Nat, k <= Len(images)
  PROVE  /\ SubSeq(images, 1, k) \in Seq(Seq(Byte))
         /\ Encodings(SubSeq(images, 1, k)) = SubSeq(Encodings(images), 1, k)
<1>1. Len(images) \in Nat
  BY LenProperties
<1>2. PICK p : p = SubSeq(images, 1, k)
  OBVIOUS
<1>3. p \in Seq(Seq(Byte)) /\ Len(p) = k /\ \A i \in 1 .. k : p[i] = images[i]
  <2>1. \A i \in 1 .. k : images[i] \in Seq(Byte)
    BY <1>1, ElementOfSeq
  <2>2. /\ p \in Seq(Seq(Byte)) /\ Len(p) = IF 1 <= k THEN k - 1 + 1 ELSE 0
        /\ \A i \in 1 .. k - 1 + 1 : p[i] = images[1 + i - 1]
    BY <1>2, <2>1, SubSeqProperties
  <2>3. k - 1 + 1 = k /\ \A i \in Int : 1 + i - 1 = i
    OBVIOUS
  <2> QED BY <2>2, <2>3
<1>4. PICK e \in Seq(Seq(Byte)) : e = Encodings(images)
  BY EncodingsInSeq
<1>5. Len(e) = Len(images) /\ \A i \in 1 .. Len(images) : e[i] = EncodeImage(images[i])
  BY <1>4, EncodingsInSeq
<1>6. PICK g \in Seq(Seq(Byte)) : g = Encodings(p)
  BY <1>3, EncodingsInSeq
<1>7. Len(g) = k /\ \A i \in 1 .. k : g[i] = EncodeImage(p[i])
  BY <1>3, <1>6, EncodingsInSeq
<1>8. PICK h : h = SubSeq(e, 1, k)
  OBVIOUS
<1>9. h \in Seq(Seq(Byte)) /\ Len(h) = k /\ \A i \in 1 .. k : h[i] = e[i]
  <2>1. \A i \in 1 .. k : e[i] \in Seq(Byte)
    BY <1>1, <1>5, ElementOfSeq
  <2>2. /\ h \in Seq(Seq(Byte)) /\ Len(h) = IF 1 <= k THEN k - 1 + 1 ELSE 0
        /\ \A i \in 1 .. k - 1 + 1 : h[i] = e[1 + i - 1]
    BY <1>8, <2>1, SubSeqProperties
  <2>3. k - 1 + 1 = k /\ \A i \in Int : 1 + i - 1 = i
    OBVIOUS
  <2> QED BY <2>2, <2>3
<1>10. \A i \in 1 .. Len(g) : g[i] = h[i]
  <2>1. ASSUME NEW i \in 1 .. k PROVE g[i] = h[i]
    <3>1. i \in 1 .. Len(images)
      BY <1>1
    <3>2. h[i] = EncodeImage(images[i])
      BY <1>5, <1>9, <3>1
    <3>3. g[i] = EncodeImage(images[i])
      BY <1>3, <1>7
    <3> QED BY <3>2, <3>3
  <2> QED BY <1>7, <2>1
<1>11. g = h
  BY <1>7, <1>9, <1>10, SeqEqual
<1> QED BY <1>2, <1>3, <1>4, <1>6, <1>8, <1>11

\* That body, split at the k+1-st image of the request
UpToImages(r, k) == UpToCount(r) \o FlattenSeq(Encodings(SubSeq(r.images, 1, k)))

LEMMA SplitAtImage ==
  ASSUME NEW r, Begun(r), NEW k \in Nat, k + 1 <= Len(r.images)
  PROVE  \E x, y, z \in Seq(Byte) :
           /\ x = UpToImages(r, k)
           /\ y = r.images[k + 1]
           /\ Parts(body, x \o AppendU32(Len(y)), y, z)
<1>0. r \in RequestPayload
  BY DEF Begun
<1>1. PICK images \in Seq(Seq(Byte)) : images = r.images
  BY <1>0 DEF RequestPayload
<1>2. PICK p \in Seq(Seq(Byte)) : p = SubSeq(images, 1, k)
  BY <1>1, PrefixStep
<1>3. PICK y \in Seq(Byte) : y = images[k + 1]
  BY <1>1, PrefixStep
<1>4. SubSeq(images, 1, k + 1) = Append(p, y)
  BY <1>1, <1>2, <1>3, PrefixStep
<1>5. PICK c \in Seq(Byte) : c = UpToCount(r)
  BY <1>0, UpToCountInSeq
<1>6. PICK f \in Seq(Byte) : f = FlattenSeq(Encodings(p))
  BY EncodingsInSeq, FlattenInSeq
<1>7. PICK w \in Seq(Byte) : w = AppendU32(Len(y))
  <2>1. Len(y) \in Int
    BY LenProperties
  <2> QED BY <2>1, WordIsBytes
<1>8. PICK e \in Seq(Byte) : e = w \o y
  BY ConcatProperties
<1>9. FlattenSeq(Encodings(Append(p, y))) = f \o e
  <2>1. Encodings(Append(p, y)) = Append(Encodings(p), e)
    BY <1>7, <1>8, EncodingsAppend DEF EncodeImage
  <2>2. FlattenSeq(Append(Encodings(p), e)) = FlattenSeq(Encodings(p)) \o e
    BY EncodingsInSeq, FlattenOneMore
  <2> QED BY <1>6, <2>1, <2>2
<1>10. PICK z \in Seq(Byte) : FlattenSeq(Encodings(images)) = (f \o e) \o z
  <2>1. PICK m \in Nat : m = k + 1 /\ m <= Len(images)
    BY <1>1
  <2>2. PICK g \in Seq(Seq(Byte)) : g = Encodings(images) /\ Len(g) = Len(images)
    BY EncodingsInSeq
  <2>3. BeginsWith(Byte, FlattenSeq(g), FlattenSeq(SubSeq(g, 1, m)))
    BY <2>1, <2>2, FlattenPrefix
  <2>4. SubSeq(g, 1, m) = Encodings(Append(p, y))
    <3>1. Encodings(SubSeq(images, 1, m)) = SubSeq(Encodings(images), 1, m)
      BY <2>1, PrefixOfImages
    <3>2. SubSeq(images, 1, m) = Append(p, y)
      BY <1>4, <2>1
    <3> QED BY <2>2, <3>1, <3>2
  <2> QED BY <1>9, <2>2, <2>3, <2>4 DEF BeginsWith
<1>11. PICK x \in Seq(Byte) : x = c \o f
  BY ConcatProperties
<1>12. BuildPayload(r) = c \o ((f \o (w \o y)) \o z)
  BY <1>1, <1>5, <1>8, <1>10, PayloadParts
<1>13. c \o ((f \o (w \o y)) \o z) = (((c \o f) \o w) \o y) \o z
  <2>1. PICK fe \in Seq(Byte) : fe = f \o e
    BY ConcatProperties
  <2>2. c \o (fe \o z) = (c \o fe) \o z
    <3>1. Cat(c, Cat(fe, z)) = Cat(Cat(c, fe), z)
      BY CatAssociative
    <3> QED BY <3>1 DEF Cat
  <2>3. c \o (f \o e) = (c \o f) \o e
    <3>1. Cat(c, Cat(f, e)) = Cat(Cat(c, f), e)
      BY CatAssociative
    <3> QED BY <3>1 DEF Cat
  <2>4. x \o (w \o y) = (x \o w) \o y
    <3>1. Cat(x, Cat(w, y)) = Cat(Cat(x, w), y)
      BY CatAssociative
    <3> QED BY <3>1 DEF Cat
  <2> QED BY <1>8, <1>11, <2>1, <2>2, <2>3, <2>4
<1>14. PICK v \in Seq(Byte) : v = (x \o w) \o y
  <2>1. PICK u \in Seq(Byte) : u = x \o w
    BY ConcatProperties
  <2> QED BY <2>1, ConcatProperties
<1>15. PICK rest \in Seq(Byte) : body = (v \o z) \o rest
  <2>1. PICK rest \in Seq(Byte) : body = BuildPayload(r) \o rest
    BY DEF Begun, BeginsWith
  <2> QED BY <1>11, <1>12, <1>13, <1>14, <2>1
<1>16. (v \o z) \o rest = v \o (z \o rest)
  <2>1. Cat(Cat(v, z), rest) = Cat(v, Cat(z, rest))
    BY CatAssociative
  <2> QED BY <2>1 DEF Cat
<1>17. PICK after \in Seq(Byte) : after = z \o rest
  BY ConcatProperties
<1>18. Parts(body, x \o w, y, after)
  BY <1>14, <1>15, <1>16, <1>17 DEF Parts
<1> QED BY <1>1, <1>2, <1>3, <1>5, <1>6, <1>7, <1>11, <1>18 DEF UpToImages

LEMMA ConsumedLength ==
  ASSUME IInv
  PROVE  Len(SubSeq(body, 1, pos)) = pos
<1>1. body \in Seq(Byte) /\ pos \in Nat /\ pos <= Len(body)
  BY DEF IInv, TypeOK, CursorAccounts
<1>2. \A i \in 1 .. pos : body[i] \in Byte
  BY <1>1, ElementOfSeq
<1>3. Len(SubSeq(body, 1, pos)) = IF 1 <= pos THEN pos - 1 + 1 ELSE 0
  BY <1>1, <1>2, SubSeqProperties
<1> QED BY <1>1, <1>3

LEMMA AtEngine ==
  ASSUME IInv, NEW r, Begun(r), pc = "engine"
  PROVE  remaining >= 1 /\ body[1] = IF r.engine = "RealESRGAN" THEN 1 ELSE 0
<1>1. r \in RequestPayload
  BY DEF Begun
<1>2. PICK z \in Seq(Byte) : body = UpToEngine(r) \o z
  BY Splits
<1>3. PICK e \in Seq(Byte) : e = UpToEngine(r) /\ Len(e) = 1
  BY <1>1, UpToCountInSeq
<1>4. /\ Len(body) = Len(e) + Len(z)
      /\ \A i \in 1 .. Len(e) + Len(z) : body[i] = IF i <= Len(e) THEN e[i] ELSE z[i - Len(e)]
  BY <1>2, <1>3, ConcatProperties
<1>5. Len(z) \in Nat
  BY LenProperties
<1>6. body[1] = e[1] /\ Len(body) >= 1
  BY <1>3, <1>4, <1>5
<1>7. e[1] = IF r.engine = "RealESRGAN" THEN 1 ELSE 0
  BY <1>3 DEF UpToEngine
<1>8. remaining = Len(body)
  <2>1. pos = 0 /\ remaining \in Nat /\ pos + remaining = Len(body)
    BY DEF IInv, TypeOK, CursorAccounts, LimitsSoFar
  <2> QED BY <2>1
<1> QED BY <1>6, <1>7, <1>8

LEMMA AtMeta ==
  ASSUME IInv, EncodedSoFar, NEW r, Begun(r), Following(r), pc = "meta"
  PROVE  /\ HasWord /\ Word <= MaxMetaStringBytes /\ Word <= remaining - WordBytes
         /\ Bytes(body, pos + WordBytes, Word) = r.quality_or_scale
<1>1. r \in RequestPayload
  BY DEF Begun
<1>2. PICK q, z \in Seq(Byte) :
        q = r.quality_or_scale /\ Parts(body, UpToEngine(r) \o AppendU32(Len(q)), q, z)
  BY Splits
<1>3. PICK e \in Seq(Byte) : e = UpToEngine(r)
  BY <1>1, UpToCountInSeq
<1>4. UpToEngine(request) = e
  BY <1>3 DEF Following, UpToEngine
<1>5. pos = Len(e)
  BY <1>4, ConsumedLength DEF EncodedSoFar
<1>6. Len(q) < Base * Base /\ Len(q) <= MaxMetaStringBytes
  BY <1>2 DEF Begun, FitsItsWords
<1>7. Parts(body, e \o AppendU32(Len(q)), q, z)
  BY <1>2, <1>3
<1>8. /\ HasWord /\ Word = Len(q) /\ Word <= remaining - WordBytes
      /\ Bytes(body, pos + WordBytes, Word) = q
  BY <1>5, <1>6, <1>7, NextField
<1> QED BY <1>2, <1>6, <1>8

LEMMA AtGpu ==
  ASSUME IInv, EncodedSoFar, NEW r, Begun(r), Following(r), pc = "gpu"
  PROVE  HasWord /\ Signed(Word) = r.gpu_id
<1>1. r \in RequestPayload
  BY DEF Begun
<1> DEFINE w == Unsigned(r.gpu_id)
<1>2. PICK z \in Seq(Byte) : Parts(body, UpToMeta(r), AppendU32(w), z)
  BY Splits
<1>3. PICK x \in Seq(Byte) : x = UpToMeta(r)
  BY <1>1, UpToCountInSeq
<1>4. pos = Len(x)
  <2>1. UpToMeta(request) = x
    BY <1>3 DEF Following, UpToEngine, UpToMeta, UpToMetaLength
  <2> QED BY <2>1, ConsumedLength DEF EncodedSoFar
<1>5. PICK m \in Nat : m = Base * Base
  BY BaseAssumption
<1>6. r.gpu_id \in Int /\ -m <= 2 * r.gpu_id /\ 2 * r.gpu_id < m
  BY <1>1, <1>5 DEF Begun, FitsItsWords, RequestPayload
<1>7. w \in 0 .. m - 1 /\ Signed(w) = r.gpu_id
  BY <1>5, <1>6 DEF Unsigned, Signed
<1> HIDE DEF w
<1>8. Parts(body, x, AppendU32(w), z)
  BY <1>2, <1>3
<1>9. HasWord /\ Word = w
  BY <1>4, <1>5, <1>7, <1>8, NextWord
<1> QED BY <1>7, <1>9

LEMMA AtCount ==
  ASSUME IInv, EncodedSoFar, NEW r, Begun(r), Following(r), pc = "count"
  PROVE  HasWord /\ Word = r.batch_count /\ Word \in 1 .. MaxBatchItems
<1>1. r \in RequestPayload
  BY DEF Begun
<1>2. PICK z \in Seq(Byte) : Parts(body, UpToGpu(r), AppendU32(r.batch_count), z)
  BY Splits
<1>3. PICK x \in Seq(Byte) : x = UpToGpu(r)
  BY <1>1, UpToCountInSeq
<1>4. pos = Len(x)
  <2>1. UpToGpu(request) = x
    BY <1>3 DEF Following, UpToEngine, UpToMeta, UpToMetaLength, UpToGpu
  <2> QED BY <2>1, ConsumedLength DEF EncodedSoFar
<1>5. r.batch_count \in 0 .. Base * Base - 1 /\ r.batch_count \in 1 .. MaxBatchItems
  <2>1. PICK m \in Nat : m = Base * Base
    BY BaseAssumption
  <2>2. r.batch_count \in 1 .. MaxBatchItems /\ r.batch_count < m
    BY <2>1 DEF Begun, FitsItsWords
  <2> QED BY <2>1, <2>2, LimitAssumption
<1>6. Parts(body, x, AppendU32(r.batch_count), z)
  BY <1>2, <1>3
<1>7. HasWord /\ Word = r.batch_count
  BY <1>4, <1>5, <1>6, NextWord
<1> QED BY <1>5, <1>7

\* In the image loop the request filled in so far is r with the images read so far.
LEMMA InTheLoop ==
  ASSUME IInv, NEW r, Begun(r), Following(r), pc \in {"image", "accepted"}
  PROVE  /\ BuildPayload(request) = UpToImages(r, Len(request.images))
         /\ Len(request.images) \in Nat /\ Len(r.images) \in Nat
         /\ Len(request.images) <= Len(r.images)
         /\ request.batch_count = r.batch_count
         /\ request.images = SubSeq(r.images, 1, Len(request.images))
<1>1. /\ request.engine = r.engine /\ request.quality_or_scale = r.quality_or_scale
      /\ request.gpu_id = r.gpu_id /\ request.batch_count = r.batch_count
      /\ Len(request.images) <= Len(r.images)
      /\ request.images = SubSeq(r.images, 1, Len(request.images))
  BY DEF Following
<1>2. UpToCount(request) = UpToCount(r)
  BY <1>1 DEF UpToCount, UpToGpu, UpToMeta, UpToMetaLength, UpToEngine
<1>3. BuildPayload(request) = UpToImages(r, Len(request.images))
  BY <1>1, <1>2, PayloadParts DEF UpToImages
<1>4. Len(request.images) \in Nat /\ Len(r.images) \in Nat
  <2>1. request.images \in Seq(Seq(Byte)) /\ r.images \in Seq(Seq(Byte))
    BY DEF IInv, TypeOK, RequestPayload, Begun
  <2> QED BY <2>1, LenProperties
<1> QED BY <1>1, <1>3, <1>4

LEMMA AtImage ==
  ASSUME IInv, EncodedSoFar, NEW r, Begun(r), Following(r), pc = "image",
         Len(request.images) < Len(r.images)
  PROVE  LET k == Len(request.images)
             image == r.images[k + 1]
         IN  /\ HasWord /\ Word = Len(image) /\ Word <= remaining - WordBytes
             /\ Bytes(body, pos + WordBytes, Word) = image
             /\ Append(request.images, image) = SubSeq(r.images, 1, k + 1)
             /\ total + Word <= ImageBytes(r)
             /\ total \in Nat /\ Word \in Nat /\ ImageBytes(r) \in Nat
<1>1. r \in RequestPayload
  BY DEF Begun
<1>2. PICK images \in Seq(Seq(Byte)) : images = r.images
  BY <1>1 DEF RequestPayload
<1>3. PICK k \in Nat : k = Len(request.images) /\ k + 1 <= Len(images)
  BY <1>2, InTheLoop
<1>4. PICK x, y, z \in Seq(Byte) :
        /\ x = UpToImages(r, k)
        /\ y = images[k + 1]
        /\ Parts(body, x \o AppendU32(Len(y)), y, z)
  BY <1>2, <1>3, SplitAtImage
<1>5. pos = Len(x)
  <2>1. BuildPayload(request) = x
    BY <1>3, <1>4, InTheLoop
  <2> QED BY <2>1, ConsumedLength DEF EncodedSoFar
<1>6. Len(y) < Base * Base
  <2>1. k + 1 \in DOMAIN images
    <3>1. DOMAIN images = 1 .. Len(images) /\ Len(images) \in Nat
      BY LenProperties
    <3> QED BY <1>3, <3>1
  <2> QED BY <1>2, <1>4, <2>1 DEF Begun, FitsItsWords
<1>7. /\ HasWord /\ Word = Len(y) /\ Word <= remaining - WordBytes
      /\ Bytes(body, pos + WordBytes, Word) = y
  BY <1>4, <1>5, <1>6, NextField
<1>8. PICK p \in Seq(Seq(Byte)) : p = SubSeq(images, 1, k) /\ p = request.images
  <2>1. SubSeq(images, 1, k) \in Seq(Seq(Byte))
    BY <1>3, PrefixStep
  <2>2. request.images = SubSeq(images, 1, k)
    BY <1>2, <1>3, InTheLoop
  <2> QED BY <2>1, <2>2
<1>9. PICK n \in Nat : n = k + 1 /\ n <= Len(images)
  BY <1>3
<1>10. SubSeq(images, 1, n) = Append(p, y)
  <2>1. SubSeq(images, 1, k + 1) = Append(SubSeq(images, 1, k), images[k + 1])
    BY <1>3, PrefixStep
  <2> QED BY <1>4, <1>8, <1>9, <2>1
<1>11. TotalLength(Append(p, y)) = total + Word
  <2>1. TotalLength(Append(p, y)) = TotalLength(p) + Len(y)
    BY TotalLengthAppend
  <2>2. TotalLength(p) = total
    BY <1>8, ImageBytesIs DEF EncodedSoFar
  <2> QED BY <1>7, <2>1, <2>2
<1>12. /\ TotalLength(SubSeq(images, 1, n)) <= TotalLength(images)
       /\ TotalLength(images) \in Nat
  BY <1>9, TotalLengthPrefix
<1>13. ImageBytes(r) = TotalLength(images)
  BY <1>2, ImageBytesIs
<1>14. total \in Nat /\ Word \in Nat
  BY <1>7, WordIsNat DEF IInv, TypeOK
<1>15. total + Word <= ImageBytes(r) /\ ImageBytes(r) \in Nat
  BY <1>10, <1>11, <1>12, <1>13
<1>16. k + 1 = n
  BY <1>9
<1>17. y = r.images[k + 1]
  BY <1>2, <1>4
<1>18. Append(request.images, y) = SubSeq(r.images, 1, k + 1)
  BY <1>2, <1>8, <1>10, <1>16
<1> QED BY <1>3, <1>7, <1>14, <1>15, <1>17, <1>18

\* Once all images of r have been read the request filled in is r.
LEMMA AllRead ==
  ASSUME IInv, NEW r, Begun(r), Following(r), pc \in {"image", "accepted"},
         Len(request.images) = Len(r.images)
  PROVE  request = r
<1>1. r \in RequestPayload
  BY DEF Begun
<1>2. PICK images \in Seq(Seq(Byte)) : images = r.images
  BY <1>1 DEF RequestPayload
<1>3. request.images = images
  <2>1. request.images = SubSeq(images, 1, Len(images))
    BY <1>2, InTheLoop
  <2> QED BY <2>1, SubSeqFull
<1>4. /\ request.engine = r.engine /\ request.quality_or_scale = r.quality_or_scale
      /\ request.gpu_id = r.gpu_id /\ request.batch_count = r.batch_count
  BY DEF Following
<1>5. request \in RequestPayload
  BY DEF IInv, TypeOK
<1> QED BY <1>1, <1>2, <1>3, <1>4, <1>5 DEF RequestPayload

\* There the next length is the one that makes the batch too large.
LEMMA AtAnnouncement ==
  ASSUME IInv, EncodedSoFar, NEW r, Announced(r), Following(r), pc = "image",
         Len(request.images) = Len(r.images)
  PROVE  HasWord /\ OverBudget
<1>1. request = r
  BY AllRead DEF Announced
<1>2. r \in RequestPayload
  BY DEF Announced, Begun
<1>3. PICK x \in Seq(Byte) : x = BuildPayload(r)
  BY <1>2, PayloadInSeq
<1>4. PICK w \in 0 .. Base * Base - 1, z \in Seq(Byte) :
        /\ Parts(body, x, AppendU32(w), z)
        /\ ImageBytes(r) + w > MaxBatchPayloadBytes
  BY <1>3 DEF Announced
<1>5. pos = Len(x) /\ total = ImageBytes(r)
  BY <1>1, <1>3, ConsumedLength DEF EncodedSoFar
<1>6. HasWord /\ Word = w
  BY <1>4, <1>5, NextWord
<1> QED BY <1>4, <1>5, <1>6 DEF OverBudget

\* After the last image of a complete encoding nothing is left.
LEMMA AtEnd ==
  ASSUME IInv, EncodedSoFar, NEW r, Encoded(r), Following(r), pc \in {"image", "accepted"},
         Len(request.images) = request.batch_count
  PROVE  request = r /\ remaining = 0
<1>1. Begun(r) /\ BuildPayload(r) = body /\ Len(r.images) = r.batch_count
  BY DEF Encoded
<1>2. request = r
  BY <1>1, InTheLoop, AllRead
<1>3. SubSeq(body, 1, pos) = body
  BY <1>1, <1>2 DEF EncodedSoFar
<1>4. pos = Len(body)
  BY <1>3, ConsumedLength
<1>5. remaining = 0
  BY <1>4 DEF IInv, TypeOK, CursorAccounts
<1> QED BY <1>2, <1>5

LEMMA FollowImage ==
  ASSUME IInv, EncodedSoFar, NEW r, Traced(r), Following(r),
         ReadImage \/ RejectMissingImage \/ RejectTruncatedImage
  PROVE  ReadImage /\ Following(r)'
<1>0. Begun(r)
  BY DEF Traced, Encoded, Announced
<1>1. pc = "image" /\ Len(request.images) < request.batch_count
  BY DEF ReadImage, RejectMissingImage, RejectTruncatedImage, MoreImages
<1>2. /\ Len(request.images) \in Nat /\ Len(r.images) \in Nat
      /\ Len(request.images) <= Len(r.images)
      /\ request.batch_count = r.batch_count
  BY <1>0, <1>1, InTheLoop
<1>3. Len(request.images) < Len(r.images)
  <2> SUFFICES ASSUME Len(request.images) = Len(r.images) PROVE FALSE
    BY <1>2
  <2>1. Announced(r)
    BY <1>1, <1>2 DEF Traced, Encoded
  <2>2. HasWord /\ OverBudget
    BY <1>1, <2>1, AtAnnouncement
  <2> QED BY <2>2 DEF ReadImage, RejectMissingImage, RejectTruncatedImage
<1>4. PICK k \in Nat : k = Len(request.images)
  BY <1>2
<1>5. PICK image : image = r.images[k + 1]
  OBVIOUS
<1>6. /\ HasWord /\ Word = Len(image) /\ Word <= remaining - WordBytes
      /\ Bytes(body, pos + WordBytes, Word) = image
      /\ Append(request.images, image) = SubSeq(r.images, 1, k + 1)
      /\ Word \in Nat
  BY <1>0, <1>1, <1>3, <1>4, <1>5, AtImage
<1>7. ReadImage
  BY <1>6 DEF RejectMissingImage, RejectTruncatedImage, IInv, TypeOK, WordBytes
<1>8. Following(r)'
  <2>1. request' = [request EXCEPT !.images = Append(@, image)] /\ pc' = "image"
    BY <1>1, <1>6, <1>7 DEF ReadImage
  <2>2. /\ request'.images = Append(request.images, image)
        /\ request'.engine = request.engine /\ request'.gpu_id = request.gpu_id
        /\ request'.quality_or_scale = request.quality_or_scale
        /\ request'.batch_count = request.batch_count
    BY <2>1 DEF IInv, TypeOK, RequestPayload
  <2>3. Len(request'.images) = k + 1
    <3>1. request.images \in Seq(Seq(Byte)) /\ request'.images \in Seq(Seq(Byte))
      BY <1>7, ReadImageStep DEF IInv, TypeOK, RequestPayload
    <3> QED BY <1>4, <2>2, <3>1
  <2>4. request'.images = SubSeq(r.images, 1, Len(request'.images))
    BY <1>6, <2>2, <2>3
  <2>5. Len(request'.images) <= Len(r.images)
    BY <1>2, <1>3, <1>4, <2>3
  <2> QED BY <1>1, <2>1, <2>2, <2>4, <2>5 DEF Following
<1> QED BY <1>7, <1>8

LEMMA FollowStep ==
  ASSUME IInv, EncodedSoFar, NEW r, Traced(r), Following(r), [Next]_vars
  PROVE  Following(r)'
<1>0. Begun(r) /\ r.engine \in Engines
  BY DEF Traced, Encoded, Announced, Begun, RequestPayload
<1>1. CASE ReadEngine
  <2>1. body[1] = IF r.engine = "RealESRGAN" THEN 1 ELSE 0
    BY <1>0, <1>1, AtEngine DEF ReadEngine
  <2>2. request'.engine = IF body[1] = 1 THEN "RealESRGAN" ELSE "RealCUGAN"
    BY <1>1 DEF ReadEngine, IInv, TypeOK, RequestPayload
  <2>3. request'.engine = r.engine
    BY <1>0, <2>1, <2>2 DEF Engines
  <2> QED BY <1>1, <2>3 DEF ReadEngine, Following
<1>2. CASE ReadMeta
  <2>1. Bytes(body, pos + WordBytes, Word) = r.quality_or_scale
    BY <1>0, <1>2, AtMeta DEF ReadMeta
  <2>2. /\ request'.quality_or_scale = r.quality_or_scale
        /\ request'.engine = request.engine
    BY <1>2, <2>1 DEF ReadMeta, IInv, TypeOK, RequestPayload
  <2> QED BY <1>2, <2>2 DEF ReadMeta, Following
<1>3. CASE ReadGpu
  <2>1. Signed(Word) = r.gpu_id
    BY <1>0, <1>3, AtGpu DEF ReadGpu
  <2>2. /\ request'.gpu_id = r.gpu_id
        /\ request'.engine = request.engine
        /\ request'.quality_or_scale = request.quality_or_scale
    BY <1>3, <2>1 DEF ReadGpu, IInv, TypeOK, RequestPayload
  <2> QED BY <1>3, <2>2 DEF ReadGpu, Following
<1>4. CASE ReadCount
  <2>1. Word = r.batch_count
    BY <1>0, <1>4, AtCount DEF ReadCount
  <2>2. /\ request'.batch_count = r.batch_count /\ request'.images = <<>>
        /\ request'.gpu_id = request.gpu_id /\ request'.engine = request.engine
        /\ request'.quality_or_scale = request.quality_or_scale
    BY <1>4, <2>1 DEF ReadCount, IInv, TypeOK, RequestPayload
  <2>3. Len(request'.images) = 0 /\ SubSeq(r.images, 1, 0) = <<>>
    BY <2>2, SubSeqEmpty
  <2>4. request'.images = SubSeq(r.images, 1, Len(request'.images))
    BY <2>2, <2>3
  <2>5. Len(request'.images) <= Len(r.images)
    <3>1. r.images \in Seq(Seq(Byte))
      BY <1>0 DEF Begun, RequestPayload
    <3> QED BY <2>3, <3>1, LenProperties
  <2> QED BY <1>4, <2>2, <2>4, <2>5 DEF ReadCount, Following
<1>5. CASE ReadImage \/ RejectMissingImage \/ RejectTruncatedImage
  BY <1>5, FollowImage
<1>6. CASE RejectImageLimit
  BY <1>6 DEF RejectImageLimit, Reject, Following
<1>7. CASE Accept
  BY <1>7 DEF Accept, AllImages, Following
<1>8. CASE RejectEngine
  BY <1>0, <1>8, AtEngine DEF RejectEngine, IInv, TypeOK
<1>9. CASE RejectMeta
  BY <1>0, <1>9, AtMeta, WordIsNat, LimitAssumption DEF RejectMeta, IInv, TypeOK, WordBytes
<1>10. CASE RejectGpu
  BY <1>0, <1>10, AtGpu DEF RejectGpu
<1>11. CASE RejectCount
  BY <1>0, <1>11, AtCount, LimitAssumption DEF RejectCount
<1>12. CASE RejectTrailing
  <2>1. pc = "image" /\ Len(request.images) = request.batch_count /\ remaining > 0
    BY <1>12 DEF RejectTrailing, AllImages
  <2>2. CASE Encoded(r)
    BY <2>1, <2>2, AtEnd
  <2>3. CASE Announced(r)
    BY <1>0, <2>1, <2>3, InTheLoop DEF Announced
  <2> QED BY <2>2, <2>3 DEF Traced
<1>13. CASE Returned \/ UNCHANGED vars
  BY <1>13 DEF Returned, vars, Following
<1> QED BY <1>1, <1>2, <1>3, <1>4, <1>5, <1>6, <1>7, <1>8, <1>9, <1>10, <1>11, <1>12, <1>13
        DEF Next

\* A complete encoding is refused for the budget alone.
LEMMA RefusedForBudget ==
  ASSUME MaxBatchPayloadBytes <= MaxImageSizeBytes, IInv, EncodedSoFar,
         NEW r, Encoded(r), Following(r), pc = "rejected" => ~WithinBudget(r),
         [Next]_vars, pc' = "rejected"
  PROVE  ~WithinBudget(r)
<1>1. Begun(r) /\ Traced(r) /\ Len(r.images) = r.batch_count
  BY DEF Encoded, Traced
<1>2. status' = ResourceLimit
  BY <1>1, FollowStep DEF Following
<1>3. CASE RejectImageLimit
  <2>1. /\ pc = "image" /\ Len(request.images) < request.batch_count
        /\ OverBudget \/ OverImageSize
    BY <1>3 DEF RejectImageLimit, MoreImages
  <2>2. Len(request.images) < Len(r.images)
    BY <1>1, <2>1, InTheLoop
  <2>3. /\ total + Word <= ImageBytes(r)
        /\ total \in Nat /\ Word \in Nat /\ ImageBytes(r) \in Nat
    BY <1>1, <2>1, <2>2, AtImage
  <2>4. total + Word > MaxBatchPayloadBytes
    BY <2>1, <2>3, LimitAssumption DEF OverBudget, OverImageSize
  <2> QED BY <2>3, <2>4, LimitAssumption DEF WithinBudget
<1>4. CASE Returned \/ UNCHANGED vars
  BY <1>4 DEF Returned, vars
<1>5. CASE ReadEngine \/ ReadMeta \/ ReadGpu \/ ReadCount \/ ReadImage \/ Accept
  BY <1>5 DEF ReadEngine, ReadMeta, ReadGpu, ReadCount, ReadImage, MoreImages, Accept
<1>6. CASE \/ RejectEngine \/ RejectMeta \/ RejectGpu \/ RejectCount
           \/ RejectMissingImage \/ RejectTruncatedImage \/ RejectTrailing
  BY <1>2, <1>6 DEF RejectEngine, RejectMeta, RejectGpu, RejectCount, RejectMissingImage,
                    RejectTruncatedImage, RejectTrailing, Reject
<1> QED BY <1>3, <1>4, <1>5, <1>6 DEF Next

LEMMA BodyStays == ASSUME [Next]_vars PROVE body' = body
BY DEF Next, vars, ReadEngine, RejectEngine, ReadMeta, RejectMeta, ReadGpu, RejectGpu,
       ReadCount, RejectCount, ReadImage, RejectMissingImage, RejectImageLimit,
       RejectTruncatedImage, RejectTrailing, Accept, Returned, Reject

\* A request that is well-formed and encoded as the body is one the parser can follow.
LEMMA WellFormedEncoded ==
  ASSUME body \in Seq(Byte), NEW r \in Requests, WellFormed(r), BuildPayload(r) = body
  PROVE  Encoded(r)
<1>1. body = BuildPayload(r) \o <<>>
  BY ConcatEmptySeq
<1>2. <<>> \in Seq(Byte)
  OBVIOUS
<1>3. BeginsWith(Byte, body, BuildPayload(r))
  BY <1>1, <1>2 DEF BeginsWith
<1> QED BY <1>3, RequestsAssumption DEF Encoded, Begun, WellFormed

LEMMA SpecEachEncoded ==
  ASSUME MaxBatchPayloadBytes <= MaxImageSizeBytes
  PROVE  Spec => [](IInv /\ EncodedSoFar /\ EachEncoded)
<1>1. Init => EncodedSoFar /\ EachEncoded
  BY DEF Init, EncodedSoFar, EachEncoded, Following
<1>2. IInv /\ EncodedSoFar /\ EachEncoded /\ [Next]_vars => EachEncoded'
  <2> SUFFICES ASSUME IInv, EncodedSoFar, EachEncoded, [Next]_vars,
                      NEW r \in Requests, WellFormed(r), BuildPayload(r) = body'
               PROVE  Following(r)' /\ (pc' = "rejected" => ~WithinBudget(r)')
    BY DEF EachEncoded, WellFormed, BuildPayload, EncodedImages, EncodeImage
  <2>1. BuildPayload(r) = body /\ body \in Seq(Byte)
    BY BodyStays DEF IInv, TypeOK
  <2>2. Encoded(r) /\ Following(r) /\ (pc = "rejected" => ~WithinBudget(r))
    BY <2>1, WellFormedEncoded DEF EachEncoded
  <2>3. Following(r)'
    BY <2>2, FollowStep DEF Traced
  <2>4. ASSUME pc' = "rejected" PROVE ~WithinBudget(r)'
    <3>1. ~WithinBudget(r)
      BY <2>2, <2>4, RefusedForBudget
    <3> QED BY <3>1
  <2> QED BY <2>3, <2>4
<1> QED BY <1>1, <1>2, SpecIInv, EncodedNext, PTL DEF Spec

LEMMA SpecEachAnnounced == Spec => [](IInv /\ EncodedSoFar /\ EachAnnounced)
<1>1. Init => EncodedSoFar /\ EachAnnounced
  BY DEF Init, EncodedSoFar, EachAnnounced, Following
<1>2. IInv /\ EncodedSoFar /\ EachAnnounced /\ [Next]_vars => EachAnnounced'
  <2> SUFFICES ASSUME IInv, EncodedSoFar, EachAnnounced, [Next]_vars,
                      NEW r \in RequestPayload, Announced(r)'
               PROVE  Following(r)'
    BY DEF EachAnnounced
  <2>1. Announced(r)
    BY BodyStays DEF Announced, Begun
  <2> QED BY <2>1, FollowStep DEF EachAnnounced, Traced
<1> QED BY <1>1, <1>2, SpecIInv, EncodedNext, PTL DEF Spec

\* Every legal request that a client encodes is accepted, and the request handed to
\* the engine is the one it encoded.  The budget is no larger than the limit on one
\* image, as 48 MiB and 50 MiB are.
THEOREM LegalRequestsComeBack ==
  ASSUME MaxBatchPayloadBytes <= MaxImageSizeBytes
  PROVE  Spec => []LegalComesBack
<1>1. IInv /\ EncodedSoFar /\ EachEncoded => LegalComesBack
  <2> SUFFICES ASSUME IInv, EncodedSoFar, EachEncoded, Done,
                      NEW r \in LegalRequests, BuildPayload(r) = body
               PROVE  pc = "accepted" /\ request = r
    BY DEF LegalComesBack, LegalEncodings
  <2>1. Following(r) /\ WithinBudget(r) /\ (pc = "rejected" => ~WithinBudget(r))
    BY DEF LegalRequests, EachEncoded
  <2>2. Encoded(r)
    BY WellFormedEncoded DEF LegalRequests, IInv, TypeOK
  <2>3. pc = "accepted"
    BY <2>1 DEF Done
  <2>4. Len(request.images) = request.batch_count
    BY <2>3 DEF IInv, LimitsSoFar
  <2> QED BY <2>1, <2>2, <2>3, <2>4, AtEnd
<1> QED BY <1>1, SpecEachEncoded, PTL

----------------------------------------------------------------------------
(* Which status goes out *)

\* What a prefix leaves of a sequence
LEMMA PrefixRest ==
  ASSUME NEW S, NEW a \in Seq(S), NEW b \in Seq(S), IsPrefix(a, b)
  PROVE  \E z \in Seq(S) : b = a \o z
<1>1. PICK p \in Nat : p = Len(a)
  BY LenProperties
<1>2. PICK n \in Nat : p + n = Len(b)
  <2>1. Len(b) \in Nat /\ p <= Len(b)
    BY <1>1, LenProperties DEF IsPrefix
  <2>2. Len(b) - p \in Nat /\ p + (Len(b) - p) = Len(b)
    BY <2>1
  <2> QED BY <2>2
<1>3. a = SubSeq(b, 1, p)
  <2>1. SubSeq(a, 1, p) = SubSeq(b, 1, p)
    BY <1>1 DEF IsPrefix
  <2> QED BY <1>1, <2>1, SubSeqFull
<1>4. SubSeq(b, 1, p + n) = SubSeq(b, 1, p) \o SubSeq(b, p + 1, p + n)
  BY <1>2, LongerPrefix
<1>5. b = a \o SubSeq(b, p + 1, p + n)
  BY <1>2, <1>3, <1>4, SubSeqFull
<1>6. \A j \in p + 1 .. p + n : b[j] \in S
  <2>1. \A j \in p + 1 .. p + n : j \in 1 .. Len(b)
    BY <1>2
  <2> QED BY <2>1, ElementOfSeq
<1>7. SubSeq(b, p + 1, p + n) \in Seq(S)
  BY <1>6, SubSeqProperties
<1> QED BY <1>5, <1>7

\* The part of a well-formed request before its i-th image, and its i-th length, make
\* an announcement.
LEMMA OversizedAnnounced ==
  ASSUME body \in Seq(Byte), NEW r \in Requests, WellFormed(r), NEW i \in DOMAIN r.images,
         ~WithinBudget(UpToImage(r, i + 1)), IsPrefix(Announcement(r, i), body)
  PROVE  UpToImage(r, i) \in RequestPayload /\ Announced(UpToImage(r, i))
<1>1. r \in RequestPayload /\ FitsItsWords(r)
  BY RequestsAssumption
<1>2. PICK images \in Seq(Seq(Byte)) : images = r.images
  BY <1>1 DEF RequestPayload
<1>3. PICK k \in Nat : i = k + 1 /\ k + 1 <= Len(images)
  <2>1. DOMAIN images = 1 .. Len(images) /\ Len(images) \in Nat
    BY LenProperties
  <2>2. i - 1 \in Nat /\ i = (i - 1) + 1 /\ (i - 1) + 1 <= Len(images)
    BY <1>2, <2>1
  <2>3. PICK k \in Nat : k = i - 1
    BY <2>2
  <2> QED BY <2>2, <2>3
<1>4. PICK p \in Seq(Seq(Byte)) : p = SubSeq(images, 1, k) /\ Len(p) = k
  BY <1>3, PrefixStep
<1>5. PICK y \in Seq(Byte) : y = images[i]
  BY <1>3, PrefixStep
<1>6. SubSeq(images, 1, i) = Append(p, y)
  BY <1>3, <1>4, <1>5, PrefixStep
<1>7. \A j \in 1 .. k : p[j] = images[j]
  <2>1. \A j \in 1 .. k : images[j] \in Seq(Byte)
    <3>1. \A j \in 1 .. k : j \in 1 .. Len(images)
      <4>1. Len(images) \in Nat
        BY LenProperties
      <4> QED BY <1>3, <4>1
    <3> QED BY <3>1, ElementOfSeq
  <2>2. \A j \in 1 .. k - 1 + 1 : p[j] = images[1 + j - 1]
    BY <1>4, <2>1, SubSeqProperties
  <2>3. k - 1 + 1 = k /\ \A j \in Int : 1 + j - 1 = j
    OBVIOUS
  <2> QED BY <2>2, <2>3
<1>8. PICK s : s = UpToImage(r, i)
  OBVIOUS
<1>9. /\ s \in RequestPayload
      /\ s.images = p
      /\ s.quality_or_scale = r.quality_or_scale
      /\ s.gpu_id = r.gpu_id
      /\ s.batch_count = r.batch_count
  <2>1. i - 1 = k
    BY <1>3
  <2>2. s = [r EXCEPT !.images = p]
    BY <1>2, <1>4, <1>8, <2>1 DEF UpToImage
  <2> QED BY <1>1, <1>4, <2>2 DEF RequestPayload
<1>10. FitsItsWords(s)
  <2>1. \A j \in DOMAIN p : j \in DOMAIN images /\ p[j] = images[j]
    <3>1. DOMAIN p = 1 .. k /\ DOMAIN images = 1 .. Len(images) /\ Len(images) \in Nat
      BY <1>4, LenProperties
    <3> QED BY <1>3, <1>7, <3>1
  <2> QED BY <1>1, <1>2, <1>9, <2>1 DEF FitsItsWords
<1>11. PICK x \in Seq(Byte) : x = BuildPayload(s)
  BY <1>9, PayloadInSeq
<1>12. Len(y) \in 0 .. Base * Base - 1
  <2>1. PICK m \in Nat : m = Base * Base
    BY BaseAssumption
  <2>2. Len(y) \in Nat /\ Len(y) < m
    BY <1>1, <1>2, <1>5, <2>1, LenProperties DEF FitsItsWords
  <2> QED BY <2>1, <2>2
<1>13. PICK w \in Seq(Byte) : w = AppendU32(Len(y))
  BY <1>12, WordIsBytes
<1>14. PICK a \in Seq(Byte) : a = x \o w
  BY ConcatProperties
<1>15. PICK z \in Seq(Byte) : body = a \o z
  <2>1. IsPrefix(a, body)
    BY <1>2, <1>5, <1>8, <1>11, <1>13, <1>14 DEF Announcement
  <2> QED BY <2>1, PrefixRest
<1>16. Parts(body, x, w, z)
  BY <1>14, <1>15 DEF Parts
<1>17. BeginsWith(Byte, body, x)
  <2>1. PICK rest \in Seq(Byte) : rest = w \o z
    BY ConcatProperties
  <2>2. (x \o w) \o z = x \o (w \o z)
    <3>1. Cat(Cat(x, w), z) = Cat(x, Cat(w, z))
      BY CatAssociative
    <3> QED BY <3>1 DEF Cat
  <2> QED BY <1>14, <1>15, <2>1, <2>2 DEF BeginsWith
<1>18. ImageBytes(s) + Len(y) > MaxBatchPayloadBytes
  <2>1. UpToImage(r, i + 1).images = Append(p, y)
    <3>1. PICK m : m = i + 1 /\ m - 1 = i
      BY <1>3
    <3>2. UpToImage(r, m) = [r EXCEPT !.images = SubSeq(images, 1, i)]
      BY <1>2, <3>1 DEF UpToImage
    <3> QED BY <1>1, <1>6, <3>1, <3>2 DEF RequestPayload
  <2>2. ImageBytes(UpToImage(r, i + 1)) = TotalLength(p) + Len(y)
    BY <2>1, ImageBytesIs, TotalLengthAppend
  <2>3. ImageBytes(s) = TotalLength(p)
    BY <1>9, ImageBytesIs
  <2>4. TotalLength(p) \in Nat /\ Len(y) \in Nat
    <3>1. k <= Len(p)
      BY <1>4
    <3> QED BY <3>1, TotalLengthPrefix, LenProperties
  <2> QED BY <2>2, <2>3, <2>4, LimitAssumption DEF WithinBudget
<1>19. Len(s.images) < s.batch_count
  BY <1>2, <1>3, <1>4, <1>9 DEF WellFormed
<1>20. Begun(s)
  BY <1>9, <1>10, <1>11, <1>17 DEF Begun, WellFormed
<1> QED BY <1>8, <1>9, <1>11, <1>12, <1>13, <1>16, <1>18, <1>19, <1>20 DEF Announced

\* A body that announces more image bytes than the memory budget is refused with
\* ResourceLimit and nothing else, however little of it follows: the status that
\* tells the client to split the batch.
THEOREM OversizedRefused == Spec => []OversizedIsResourceLimit
<1>1. IInv /\ EncodedSoFar /\ EachAnnounced => OversizedIsResourceLimit
  <2> SUFFICES ASSUME IInv, EncodedSoFar, EachAnnounced, Done,
                      NEW a \in OversizedAnnouncements, IsPrefix(a, body)
               PROVE  pc = "rejected" /\ status = ResourceLimit
    BY DEF OversizedIsResourceLimit
  <2>1. PICK r \in Requests : WellFormed(r)
          /\ \E i \in DOMAIN r.images :
               ~WithinBudget(UpToImage(r, i + 1)) /\ a = Announcement(r, i)
    BY DEF OversizedAnnouncements
  <2>2. PICK s \in RequestPayload : Announced(s)
    BY <2>1, OversizedAnnounced DEF IInv, TypeOK
  <2>3. Following(s)
    BY <2>2 DEF EachAnnounced
  <2>4. pc # "accepted"
    <3> SUFFICES ASSUME pc = "accepted" PROVE FALSE
      OBVIOUS
    <3>1. Len(request.images) = request.batch_count
      BY DEF IInv, LimitsSoFar
    <3>2. /\ Len(request.images) \in Nat /\ Len(s.images) \in Nat
          /\ Len(request.images) <= Len(s.images)
          /\ request.batch_count = s.batch_count
      BY <2>2, <2>3, InTheLoop DEF Announced
    <3> QED BY <2>2, <3>1, <3>2 DEF Announced
  <2> QED BY <2>3, <2>4 DEF Done, Following
<1> QED BY <1>1, SpecEachAnnounced, PTL

\* ResourceLimit is said only behind a correct encoding, of a length that is there
\* and that is too much: never of a body that is malformed or cut short.
THEOREM LimitEarned == Spec => []ResourceLimitIsEarned
<1>1. Init => EncodedSoFar /\ ResourceLimitIsEarned
  BY DEF Init, EncodedSoFar, ResourceLimitIsEarned
<1>2. IInv /\ EncodedSoFar /\ ResourceLimitIsEarned /\ [Next]_vars => ResourceLimitIsEarned'
  <2> SUFFICES ASSUME IInv, EncodedSoFar, ResourceLimitIsEarned, [Next]_vars,
                      pc' = "rejected", status' = ResourceLimit
               PROVE  ResourceLimitIsEarned'
    BY DEF ResourceLimitIsEarned
  <2>1. CASE RejectImageLimit
    <3>1. /\ pc = "image" /\ Len(request.images) < request.batch_count
          /\ HasWord
          /\ OverBudget \/ OverImageSize
          /\ UNCHANGED <<body, pos, request>>
      BY <2>1 DEF RejectImageLimit, MoreImages, Reject
    <3>2. BuildPayload(request) = SubSeq(body, 1, pos) /\ total = ImageBytes(request)
      BY <3>1 DEF EncodedSoFar
    <3>3. pos + WordBytes <= Len(body)
      BY <3>1 DEF IInv, TypeOK, CursorAccounts, HasWord, WordBytes
    <3>4. ImageBytes(request) + Word > MaxBatchPayloadBytes \/ Word > MaxImageSizeBytes
      BY <3>1, <3>2 DEF OverBudget, OverImageSize
    <3>5. /\ BuildPayload(request)' = BuildPayload(request)
          /\ ImageBytes(request)' = ImageBytes(request)
          /\ Word' = Word
      BY <3>1 DEF Word
    <3> QED BY <3>1, <3>2, <3>3, <3>4, <3>5 DEF ResourceLimitIsEarned
  <2>2. CASE Returned \/ UNCHANGED vars
    <3>1. UNCHANGED <<body, pos, request, status, pc>>
      BY <2>2 DEF Returned, vars
    <3> QED BY <3>1 DEF ResourceLimitIsEarned, Word
  <2>3. CASE ReadEngine \/ ReadMeta \/ ReadGpu \/ ReadCount \/ ReadImage \/ Accept
    BY <2>3 DEF ReadEngine, ReadMeta, ReadGpu, ReadCount, ReadImage, MoreImages, Accept
  <2>4. CASE \/ RejectEngine \/ RejectMeta \/ RejectGpu \/ RejectCount
             \/ RejectMissingImage \/ RejectTruncatedImage \/ RejectTrailing
    BY <2>4 DEF RejectEngine, RejectMeta, RejectGpu, RejectCount, RejectMissingImage,
                RejectTruncatedImage, RejectTrailing, Reject
  <2> QED BY <2>1, <2>2, <2>3, <2>4 DEF Next
<1> QED BY <1>1, <1>2, SpecIInv, EncodedNext, PTL DEF Spec
=============================================================================
