---------------------------- MODULE MCLeafReload ----------------------------
(* LeafReload for TLC, in the scaled layout of MCLeafPage.                   *)
EXTENDS LeafReload, MCLeafPage

\* On disk, reads cache whole pages.
PagesCached == {Conf(FALSE, FALSE, FALSE)}
=============================================================================
