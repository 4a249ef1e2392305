---------------------------- MODULE MCDeliveryLog ----------------------------
(* Model values for TLC.                                                   *)
EXTENDS DeliveryLog, TLC
CONSTANTS p, q, e1, e2

(* Neither threads nor errors are told apart but by equality.              *)
Symmetry == Permutations(Thread) \cup Permutations(Err)
=============================================================================
