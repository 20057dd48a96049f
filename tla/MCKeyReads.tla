----------------------------- MODULE MCKeyReads -----------------------------
(* Instances of KeyReads for TLC. *)
EXTENDS KeyReads

CONSTANTS k1, k2
=============================================================================
