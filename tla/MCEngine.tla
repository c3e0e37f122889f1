------------------------------ MODULE MCEngine ------------------------------
(***************************************************************************)
(* The CPU, the first and a second GPU asked for, on machines with no, one *)
(* and two of them.                                                        *)
(***************************************************************************)
EXTENDS Engine
MCGpuIds == {-1, 0, 1}
=============================================================================
