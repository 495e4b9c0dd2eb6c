------------------------------ MODULE MCRwLock ------------------------------
(* RwLock for TLC: threads are model values.  No symmetry, which is        *)
(* unsound for the liveness property.                                      *)
EXTENDS RwLock, TLC
=============================================================================
