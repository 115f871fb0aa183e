----------------------------- MODULE MCConsole ------------------------------
(***************************************************************************)
(* FIFOs of two bytes, which the longest string of a login fills twice;    *)
(* three keys and three bytes of output.                                   *)
(***************************************************************************)
EXTENDS Console

MCKeys == <<"k1", "k2", "k3">>
MCOutput == <<"o1", "o2", "o3">>

=============================================================================
