---------------------------- MODULE MCQuotaUsage ----------------------------
(* Instances of QuotaUsage for TLC. *)
EXTENDS QuotaUsage, TLC

AdderSymmetry == Permutations(Adders)

(* A behaviour has a snapshot or a stop, and a snapshot or a configuration *)
(* change comes without other faults.                                      *)
RestoreOrStop ==
  /\ snaps + stops <= 1
  /\ snaps = 1 => fails + peer = 0 /\ now = 1
  /\ ops = 1 => stops + fails + peer = 0
=============================================================================
