---------------------------- MODULE MCPointerArray ----------------------------
(* Records are interchangeable; every property checked is a safety one.    *)
EXTENDS PointerArray, TLC

Symmetry == Permutations(Record)
===============================================================================
