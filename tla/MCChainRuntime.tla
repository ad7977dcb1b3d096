----------------------------- MODULE MCChainRuntime -----------------------------
(***************************************************************************)
(* Instances of ChainRuntime for TLC.                                      *)
(***************************************************************************)
EXTENDS ChainRuntime

CONSTANTS c1, c2, c3

ThreeClients == {c1, c2, c3}
================================================================================
