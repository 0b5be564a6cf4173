--------------------------- MODULE MCProviderCalls ---------------------------
(* A small instance of ProviderCalls for TLC. *)
EXTENDS ProviderCalls, TLC

CONSTANTS t1, t2
=============================================================================
