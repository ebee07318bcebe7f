--------------------------- MODULE MCMontageQueue ---------------------------
(***************************************************************************)
(* Small instances of MontageQueue for TLC: the replicas of the            *)
(* deployment's worker share one id, so one worker id is enough for two    *)
(* processes to hold leases on the same job one after the other.           *)
(***************************************************************************)
EXTENDS MontageQueue
=============================================================================
