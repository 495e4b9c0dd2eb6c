---------------------------- MODULE MCCprSnapshot ----------------------------
(* CprSnapshot for TLC: an inner node, a leaf under it and the sibling     *)
(* that a split of the leaf creates.                                       *)
EXTENDS CprSnapshot, TLC

CONSTANTS t1, t2, root, leaf, sibling

MCTxns == {t1, t2}
MCInner == {root}
MCLeaves == {leaf, sibling}
MCInitialPages == {root, leaf}

\* A split of the leaf beside a split of the inner node above it.
SplitSplit == t1 :> {{root}} @@ t2 :> {{root, leaf, sibling}}
=============================================================================
