-------------------------- MODULE MCCircularBuffer --------------------------
(* CircularBuffer for TLC: evictors are interchangeable model values.      *)
EXTENDS CircularBuffer, TLC

EvictorSymmetry == Permutations(Evictors)
=============================================================================
