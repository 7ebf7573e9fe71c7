---------------------------- MODULE MCQuotaConns ----------------------------
(* Instances of QuotaConns for TLC. *)
EXTENDS QuotaConns, TLC

ConnSymmetry == Permutations(Conns)
=============================================================================
