--------------------------- MODULE ProtocolStatus ---------------------------
(***************************************************************************)
(* The status word of a response, as a client receives it: the values of   *)
(* enum class ProtocolStatus in protocol_v2.hpp.  Timeout is declared      *)
(* there and never sent.                                                   *)
(***************************************************************************)

Ok == 0
InvalidFrame == 1
ValidationError == 2
EngineError == 3
ResourceLimit == 4
Timeout == 5

Status == {Ok, InvalidFrame, ValidationError, EngineError, ResourceLimit, Timeout}
=============================================================================
