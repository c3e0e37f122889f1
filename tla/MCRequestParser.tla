-------------------------- MODULE MCRequestParser --------------------------
(***************************************************************************)
(* Request bodies for TLC: the encodings of a set of small requests, legal *)
(* and not, each of them also cut short at every byte, with one byte       *)
(* replaced by every value, and with one byte too many.                    *)
(***************************************************************************)
EXTENDS RequestCodec

CONSTANT ByteValues

MCImages == {<<>>, <<1>>, <<3, 2>>, <<0, 0, 1>>}

MCRequests ==
  [engine : {"RealCUGAN", "RealESRGAN"}, quality_or_scale : {<<>>, <<2, 3>>, <<0, 0, 0>>},
   gpu_id : {-1}, batch_count : {1}, images : {<<i>> : i \in MCImages}]
  \cup
  [engine : {"RealCUGAN"}, quality_or_scale : {<<1>>},
   gpu_id : {0, 5}, batch_count : {0, 1, 2, 3},
   images : {<<>>} \cup {<<i, j>> : i, j \in MCImages}]
  \cup
  [engine : {"RealESRGAN"}, quality_or_scale : {<<>>},
   gpu_id : {-8, 7}, batch_count : {3},
   images : {<< <<1>>, <<>>, <<2>> >>, << <<1, 1, 1>>, <<1>>, <<2, 2>> >>}]

MCEncodings == {BuildPayload(r) : r \in MCRequests}

Cuts(b) == {SubSeq(b, 1, n) : n \in 0 .. Len(b)}
Corruptions(b) == {ReplaceAt(b, i, v) : i \in DOMAIN b, v \in 0 .. ByteValues - 1}
Extensions(b) == {Append(b, v) : v \in {0, 1}}

MCBodies == UNION {Cuts(b) \cup Corruptions(b) \cup Extensions(b) : b \in MCEncodings}
=============================================================================
