------------------------------- MODULE MCTree -------------------------------
(* Tree for TLC: three trees that sequential inserts of 1, 2, 3... lead to.  *)
EXTENDS Tree, TLC

CONSTANTS t1, t2
MCThreads == {t1, t2}
ThreadSymmetry == Permutations(MCThreads)

Leafs(i, j) == [k \in 1..(j - i + 1) |-> Leaf(i + k - 1)]
WithMini(l, mini, p) == [l EXCEPT !.mini = mini, !.page = p]

\* A leaf that is the root.
RootLeaf == [root |-> Leaf(1), nodes |-> <<>>, leaves |-> <<NewLeaf({1, 2}, None, None)>>,
             todo |-> {3, 4}]
\* A full root and a full buffer.
FullRoot == [root |-> Inner(1), nodes |-> <<NewNode(0, TRUE, <<5, 7>>, Leafs(1, 3))>>,
             leaves |-> <<WithMini(NewLeaf({1}, 5, None), {2, 3}, 1), NewLeaf({5}, 7, None),
                          WithMini(NewLeaf({7, 8}, None, None), {9, 10}, 2)>>,
             todo |-> {4, 6}]
\* A full node below a full root, which the split of a leaf has marked already.
FullPath == [root |-> Inner(1),
             nodes |-> <<NewNode(0, TRUE, <<3, 5>>, <<Inner(2), Inner(3), Inner(4)>>),
                         NewNode(0, FALSE, <<2>>, Leafs(1, 2)),
                         NewNode(0, FALSE, <<4>>, Leafs(3, 4)),
                         [NewNode(0, FALSE, <<6, 7>>, Leafs(5, 7)) EXCEPT !.flag = TRUE]>>,
             leaves |-> Append([i \in 1..6 |-> NewLeaf({i}, i + 1, None)],
                               WithMini(NewLeaf({7, 8, 9}, None, None), {10}, 1)),
             todo |-> {11}]

MCStarts == {RootLeaf, FullRoot, FullPath}
=============================================================================
