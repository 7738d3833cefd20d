----------------------------- MODULE MCKVServer -----------------------------
(***************************************************************************)
(* The instance of KVServer for TLC.                                       *)
(***************************************************************************)
EXTENDS KVServer

CONSTANTS k1, k2, c1
=============================================================================
