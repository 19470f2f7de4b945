-------------------------- MODULE MCGMIdempotency --------------------------
(***************************************************************************)
(* GMIdempotency for TLC: the requests, keys and bodies are model values,  *)
(* see the configurations.                                                 *)
(***************************************************************************)
EXTENDS GMIdempotency
=============================================================================
