----------------------------- MODULE LeafReload -----------------------------
(***************************************************************************)
(* The leaves when the tree is saved and loaded: LeafPage with a snapshot  *)
(* that is taken while no operation runs, and the tree that                *)
(* new_from_snapshot builds from it (src/src/snapshot.rs).  The pages are  *)
(* written and read back byte for byte; what changes is where a page is.   *)
(* The configuration is saved with them.  CprSnapshot has the snapshots    *)
(* that run beside other operations.                                       *)
(***************************************************************************)
EXTENDS LeafPage

\* A base page is on disk again, a mini page in the buffer above its base page, and
\* an evicted page of cache-only mode is gone.  A full page is saved as the base
\* page of its leaf, as it is.
Loaded(l) == IF l.loc = "Full" THEN BaseLeaf(l.cache) ELSE l

Reload ==
  /\ NotFailed
  /\ leaves' = [i \in DOMAIN leaves |-> Loaded(leaves[i])]
  /\ UNCHANGED <<settings, seps, failed>>

ReloadSpec == Init /\ [][Next \/ Reload]_vars
=============================================================================
