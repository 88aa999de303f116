-------------------------- MODULE MCAnomalyDetector --------------------------
(***************************************************************************)
(* AnomalyDetector on a small instance.                                    *)
(***************************************************************************)
EXTENDS AnomalyDetector, TLC

Symmetry == Permutations(Payments)
=============================================================================
