---------------------------- MODULE MCResponseWire ----------------------------
(***************************************************************************)
(* Responses of one or two outputs and errors, with bytes that can pass    *)
(* for words: two that fit a length word with room to spare, one that just *)
(* fits, one that is a byte too long and one whose sum wraps further.      *)
(***************************************************************************)
EXTENDS ResponseWire

Filled(n) == [i \in 1 .. n |-> i % 2]
Ok(id, outputs) == [request_id |-> id, status |-> 0, error |-> <<>>, outputs |-> outputs]

Error == [request_id |-> 1, status |-> 3, error |-> <<4, 0>>, outputs |-> <<>>]
Two == Ok(2, <<<<3, 0>>, <<>>>>)
Longest == Ok(3, <<Filled(14)>>)
TooLong == Ok(4, <<Filled(15)>>)
FarTooLong == Ok(5, <<Filled(10), Filled(10)>>)

Responses == {Error, Two, Longest, TooLong, FarTooLong}
MCSessions == UNION {[1 .. n -> Responses] : n \in 0 .. 3}
=============================================================================
