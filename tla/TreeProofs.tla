---------------------------- MODULE TreeProofs ------------------------------
(***************************************************************************)
(* The splits of leaves keep the invariant of Tree, and what follows from  *)
(* the invariant.                                                          *)
(***************************************************************************)
EXTENDS TreeRoot

\* A leaf that t has locked is split in two.
LEMMA LeafAdded ==
  ASSUME IInv, NEW t \in Threads, NEW i \in 1..Len(leaves), leaves[i].x = t, NEW a, LeafOK(a),
         NEW e, LeafOK(e), OneAndOne(leaves', leaves, i, a, e)
  PROVE  LeavesKept(t) /\ Len(leaves') = Len(leaves) + 1
  <1>1. /\ IsSeq(leaves') /\ Len(leaves') = Len(leaves) + 1 /\ leaves'[Len(leaves) + 1] = e
        /\ \A j \in 1..Len(leaves) : leaves'[j] = IF j = i THEN a ELSE leaves[j]
    BY Zenon DEF OneAndOne
  <1>2. Len(leaves) \in Nat /\ \A j \in 1..Len(leaves) : LeafOK(leaves[j])
    BY Now, Zenon
  <1>3. /\ Len(leaves) <= Len(leaves')
        /\ \A j \in 1..Len(leaves') : j \in 1..Len(leaves) \/ j = Len(leaves) + 1
    BY <1>1, <1>2, OneMore, Zenon
  <1>4. leaves[i].s = {}
    BY <1>2, ThreadsAssumption, Zenon DEF LeafOK
  <1>5. \A j \in 1..Len(leaves) : LeafKept(t, leaves[j], leaves'[j])
    BY <1>1, <1>4, Zenon DEF LeafKept
  <1>6. \A j \in 1..Len(leaves') : LeafOK(leaves'[j])
    BY <1>1, <1>2, <1>3, Zenon
  <1>. QED  BY <1>1, <1>3, <1>5, <1>6, Zenon DEF LeavesKept

\* A new leaf, with or without the X lock.
LEMMA NewLeafOK ==
  ASSUME NEW base, NEW hi, NEW x
  PROVE  LeafOK(NewLeaf(base, hi, x)) /\ NewLeaf(base, hi, x).page = None
  BY Zenon DEF LeafOK, NewLeaf

\* A leaf that is the root becomes two below a new node.
LEMMA RootLeafSplit ==
  ASSUME IInv, NEW t \in Threads, th[t].pc = "try_split_leaf", root = th[t].cur, NEW k,
         NEW a, NEW d, NEW e, LeafOK(a), LeafOK(d), NEW error,
         e = NewNode(0, TRUE, <<k>>, <<th[t].cur, Leaf(Len(leaves) + 1)>>),
         OneAndOne(leaves', leaves, th[t].cur.id, a, d), IsSeq(nodes'),
         Len(nodes') = Len(nodes) + 1, nodes'[Len(nodes) + 1] = e,
         root' = Inner(Len(nodes) + 1), Fail(t, error)
  PROVE  IInv'
  <1>. DEFINE c == th[t].cur.id
              M == Len(leaves)
  <1>1. th[t].pc \in AtLeaf
    BY Zenon DEF AtLeaf
  <1>2. c \in 1..M /\ leaves[c].x = t /\ root.leaf /\ PageOK(th[t].cur, nodes, leaves)
    BY <1>1, CurIsLeaf, Zenon DEF IInv, ThreadOK, LatchOK
  <1>3. LeavesKept(t) /\ Len(leaves') = M + 1
    BY <1>2, LeafAdded, Zenon
  <1>4. IsSeq(nodes) /\ Len(nodes) = 0 /\ M \in Nat
    BY <1>2, Now, Zenon DEF IInv, TreeOK
  <1>5. IsSeq(nodes') /\ Len(nodes') = 1 /\ nodes'[1] = e
    <2>1. Len(nodes) + 1 = 1
      BY <1>4
    <2>. QED  BY <2>1, Zenon
  <1>6. NodesKept(t)
    BY <1>4, <1>5 DEF NodesKept
  <1>7. /\ PageOK(th[t].cur, nodes', leaves') /\ PageOK(Leaf(M + 1), nodes', leaves')
        /\ PageOK(root', nodes', leaves') /\ ~root'.leaf
    <2>1. M + 1 \in 1..(M + 1) /\ 1 \in 1..1 /\ Len(nodes) + 1 = 1
      BY <1>4
    <2>2. PageOK(th[t].cur, nodes', leaves')
      BY <1>2, <1>3, <1>6, GrownNow, Zenon
    <2>3. PageOK(Leaf(M + 1), nodes', leaves')
      BY <1>3, <2>1, PageOfId, Zenon DEF PageOK
    <2>4. root' = Inner(1)
      BY <2>1, Zenon
    <2>5. PageOK(Inner(1), nodes', leaves') /\ ~Inner(1).leaf
      BY <1>5, <2>1, PageOfId, Zenon DEF PageOK
    <2>. QED  BY <2>2, <2>3, <2>4, <2>5, Zenon
  <1>8. NodeOK(e, nodes', leaves')
    <2>1. 0 \in {0, 2}
      BY Zenon
    <2>. QED  BY <1>7, <2>1, NewRootOK, Zenon
  <1>9. \A i \in 1..Len(nodes') : NodeOK(nodes'[i], nodes', leaves')
    <2>1. \A i \in 1..1 : i = 1
      OBVIOUS
    <2>. QED  BY <1>5, <1>8, <2>1, Zenon
  <1>10. TreeOK(root', nodes', leaves')
    BY <1>3, <1>5, <1>7, <1>9, Zenon DEF TreeOK, LeavesKept
  <1>. QED  BY <1>3, <1>6, <1>7, <1>10, FailOK, Zenon DEF Fail

\* try_split_leaf keeps the invariant.
LEMMA TrySplitLeafOK ==
  ASSUME IInv, NEW t \in Threads, TrySplitLeaf(t)
  PROVE  IInv'
  <1>. DEFINE i == th[t].cur.id
              k == SplitKey(leaves[i].base)
              a == NewLeaf(Below(leaves[i].base, k), k, None)
              d == NewLeaf(From(leaves[i].base, k), leaves[i].hi, None)
              e == NewNode(0, TRUE, <<k>>, <<th[t].cur, Leaf(Len(leaves) + 1)>>)
  <1>1. th[t].pc = "try_split_leaf" /\ th[t].pc \in AtLeaf /\ Guards(t) = {}
    BY Zenon DEF TrySplitLeaf, AtLeaf, Guards
  <1>2. CASE UnlockLeaf(t, i) /\ Fail(t, "Locked") /\ UNCHANGED <<root, nodes>>
    BY <1>1, <1>2, GiveUpOK, Zenon
  <1>3. CASE UnlockLeaf(t, i) /\ Step(t, "lock") /\ UNCHANGED <<root, nodes>>
    <2>1. /\ LeavesKept(t) /\ Len(leaves') = Len(leaves)
          /\ \A j \in 1..Len(leaves) : leaves'[j].page = leaves[j].page
      BY <1>1, <1>3, CurIsLeaf, LeaveOK, Zenon
    <2>. QED  BY <1>1, <1>3, <2>1, AtLeafOK, Zenon
  <1>4. CASE /\ check_parent(th[t]) /\ th[t].par = None
             /\ leaves' = Append([leaves EXCEPT ![i] = a], d) /\ nodes' = Append(nodes, e)
             /\ root' = Inner(Len(nodes) + 1) /\ Fail(t, "NeedRestart")
    <2>1. root = th[t].cur
      BY <1>4, Zenon DEF check_parent
    <2>2. LeafOK(a) /\ LeafOK(d)
      BY NewLeafOK, Zenon
    <2>3. IsSeq(leaves) /\ IsSeq(nodes)
      BY Now, Zenon
    <2>4. e = NewNode(0, TRUE, <<k>>, <<th[t].cur, Leaf(Len(leaves) + 1)>>) /\ i = th[t].cur.id
      BY Zenon
    <2>. HIDE DEF a, d, e, k, i
    <2>5. OneAndOne(leaves', leaves, i, a, d)
      BY <1>4, <2>3, OneAndOneOK, Zenon
    <2>6. IsSeq(nodes') /\ Len(nodes') = Len(nodes) + 1 /\ nodes'[Len(nodes) + 1] = e
      BY <1>4, <2>3, AppendIsSeq, Zenon
    <2>. QED  BY <1>1, <1>4, <2>1, <2>2, <2>4, <2>5, <2>6, RootLeafSplit, Zenon
  <1>. QED  BY <1>2, <1>3, <1>4, Zenon DEF TrySplitLeaf

\* The parent has no room: it is unlocked and asks to be split.
LEMMA SplitLeafFullOK ==
  ASSUME IInv, NEW t \in Threads, th[t].pc = "split_leaf", ~have_space_for(nodes[th[t].par]),
         nodes' = [Bumped({th[t].par}) EXCEPT ![th[t].par].flag = TRUE],
         GiveUp(t, "NeedRestart"), root' = root
  PROVE  IInv'
  <1>. DEFINE p == th[t].par
              n == nodes[p]
              b == [n EXCEPT !.v = n.v + 2]
              m == [b EXCEPT !.flag = TRUE]
              f == Bumped({p})
  <1>1. th[t].pc \in AtLeaf /\ Guards(t) = {p}
    BY Zenon DEF AtLeaf, Guards
  <1>2. p \in 1..Len(nodes) /\ NodeOK(n, nodes, leaves) /\ n.v \in Nat /\ n.v % 2 = 0
    <2>1. p # None
      BY Zenon DEF IInv, ThreadOK, GuardOK
    <2>. QED  BY <2>1, HasParent, Now, Zenon
  <1>3. n.v + 2 \in Nat /\ (n.v + 2) % 2 = 0 /\ n.v <= n.v + 2
    BY <1>2, Bump
  <1>4. NodeOK(b, nodes, leaves) /\ b.v = n.v + 2 /\ b.kids = n.kids
    BY <1>2, <1>3, Zenon DEF NodeOK
  <1>5. NodeOK(m, nodes, leaves) /\ m.v = n.v + 2
    <2>1. ~have_space_for(b)
      BY <1>4, Zenon DEF have_space_for
    <2>. HIDE DEF b
    <2>. QED  BY <1>4, <2>1, FlagOK, Zenon
  <1>6. /\ f = [j \in 1..Len(nodes) |-> f[j]] /\ f[p] = b
        /\ \A j \in 1..Len(nodes) : j # p => f[j] = nodes[j]
    BY <1>2, Now, Zenon DEF Bumped
  <1>7. nodes' = [f EXCEPT ![p] = m]
    <2>1. f[p] = b
      BY <1>6, Zenon
    <2>. HIDE DEF f, b
    <2>. QED  BY <2>1, Zenon DEF f
  <1>. HIDE DEF f, m, b
  <1>8. IsSeq(f) /\ Len(f) = Len(nodes)
    BY <1>6, Now, MapIsSeq, Zenon
  <1>9. /\ IsSeq(nodes') /\ Len(nodes') = Len(nodes)
        /\ \A j \in 1..Len(nodes) : nodes'[j] = IF j = p THEN m ELSE nodes[j]
    <2>0. Replaced([f EXCEPT ![p] = m], f, p, m)
      BY <1>8, ReplacedOK, Zenon
    <2>1. Replaced(nodes', f, p, m)
      BY <1>7, <2>0, Zenon
    <2>. QED  BY <1>6, <1>8, <2>1, Zenon DEF Replaced
  <1>10. \A j \in 1..Len(nodes) : NodeOK(nodes'[j], nodes, leaves) /\ nodes[j].v <= nodes'[j].v
    <2>1. \A v \in Nat : v <= v
      OBVIOUS
    <2>. QED  BY <1>3, <1>5, <1>9, <2>1, Now
  <1>11. NodesKept(t)
    <2>1. Len(nodes) <= Len(nodes')
      BY <1>9, Now
    <2>2. \A j \in 1..Len(nodes) : j \notin Guards(t) => nodes'[j] = nodes[j]
      BY <1>1, <1>9, Zenon
    <2>. QED  BY <1>9, <1>10, <2>1, <2>2, Zenon DEF NodesKept
  <1>12. /\ LeavesKept(t) /\ Len(leaves') = Len(leaves)
         /\ \A j \in 1..Len(leaves) : leaves'[j].page = leaves[j].page
    BY <1>1, CurIsLeaf, LeaveOK, Zenon DEF GiveUp
  <1>13. TreeOK(root', nodes', leaves')
    BY <1>9, <1>10, <1>11, <1>12, SameShape, Zenon
  <1>. QED  BY <1>11, <1>12, <1>13, FailOK, Zenon DEF GiveUp, Fail

\* The tree after a leaf is split into a parent with room.
LEMMA LeafSplitTree ==
  ASSUME IInv, NEW t \in Threads, th[t].cur.id \in 1..Len(leaves), leaves[th[t].cur.id].x = t,
         ~root.leaf, th[t].par \in Guards(t), th[t].par \in 1..Len(nodes), NEW a, NEW d, NEW n, NEW k,
         LeafOK(a), LeafOK(d), OneAndOne(leaves', leaves, th[t].cur.id, a, d),
         n = insert(nodes[th[t].par], k, Leaf(Len(leaves) + 1)),
         Replaced(nodes', nodes, th[t].par, n), root' = root
  PROVE  /\ LeavesKept(t) /\ NodesKept(t) /\ TreeOK(root', nodes', leaves')
         /\ nodes'[th[t].par].v = nodes[th[t].par].v /\ Len(nodes') = Len(nodes)
         /\ leaves'[th[t].cur.id] = a
  <1>. DEFINE M == Len(leaves)
              p == th[t].par
              c == th[t].cur.id
  <1>1. LeavesKept(t) /\ Len(leaves') = M + 1 /\ M \in Nat /\ leaves'[c] = a
    BY LeafAdded, Now, Zenon DEF OneAndOne
  <1>2. /\ IsSeq(nodes') /\ Len(nodes') = Len(nodes) /\ Len(nodes) \in Nat
        /\ \A j \in 1..Len(nodes) : nodes'[j] = IF j = p THEN n ELSE nodes[j]
    BY Now, Zenon DEF Replaced
  <1>3. /\ \A q : PageOK(q, nodes, leaves) => PageOK(q, nodes', leaves')
        /\ \A m : NodeOK(m, nodes, leaves) => NodeOK(m, nodes', leaves')
    <2>1. M <= M + 1 /\ M + 1 \in Nat /\ Len(nodes) <= Len(nodes)
      BY <1>1, <1>2
    <2>. QED  BY <1>1, <1>2, <2>1, Grown, Zenon
  <1>4. PageOK(Leaf(M + 1), nodes', leaves')
    <2>1. M + 1 \in 1..(M + 1)
      BY <1>1
    <2>. QED  BY <1>1, <2>1, PageOfId, Zenon DEF PageOK
  <1>5. NodeOK(n, nodes', leaves') /\ n.v = nodes[p].v
    <2>1. NodeOK(nodes[p], nodes', leaves')
      BY <1>3, Now, Zenon
    <2>. QED  BY <1>4, <2>1, InsertOK
  <1>6. NodesKept(t)
    BY <1>5, EditNode, Zenon
  <1>7. \A j \in 1..Len(nodes') : NodeOK(nodes'[j], nodes', leaves')
    BY <1>2, <1>3, <1>5, Now, Zenon
  <1>8. PageOK(root', nodes', leaves')
    BY <1>3, Zenon DEF IInv, TreeOK
  <1>9. TreeOK(root', nodes', leaves')
    BY <1>1, <1>2, <1>7, <1>8, Zenon DEF TreeOK, LeavesKept
  <1>. QED  BY <1>1, <1>2, <1>5, <1>6, <1>9, Zenon

\* The parent has room: the leaf is split, and both halves stay locked.
LEMMA SplitLeafRoomOK ==
  ASSUME IInv, NEW t \in Threads, th[t].pc = "split_leaf", NEW a, NEW d, NEW n, NEW k, NEW new,
         LeafOK(a), a.x = leaves[th[t].cur.id].x, LeafOK(d),
         OneAndOne(leaves', leaves, th[t].cur.id, a, d),
         n = insert(nodes[th[t].par], k, Leaf(Len(leaves) + 1)),
         Replaced(nodes', nodes, th[t].par, n), root' = root,
         Go(t, [th[t] EXCEPT !.pc = "drop_parent", !.new = new])
  PROVE  IInv'
  <1>. DEFINE c == th[t].cur.id
              p == th[t].par
              r == [th[t] EXCEPT !.pc = "drop_parent", !.new = new]
  <1>1. /\ th[t].pc \in AtLeaf /\ Guards(t) = {p} /\ "drop_parent" \in AtLeaf
        /\ "drop_parent" \notin AtNode /\ "drop_parent" \in Pcs
    BY Zenon DEF Guards, AtLeaf, AtNode, Pcs
  <1>2. /\ p # None /\ is_locked(nodes[p].v) /\ leaves[c].x = t
        /\ th[t].op = "evict" => th[t].page # None
    BY <1>1, Zenon DEF IInv, ThreadOK, GuardOK, LatchOK
  <1>3. p \in 1..Len(nodes) /\ ~root.leaf /\ c \in 1..Len(leaves) /\ th[t].cur.leaf
    BY <1>1, <1>2, HasParent, CurIsLeaf, Zenon
  <1>4. /\ LeavesKept(t) /\ NodesKept(t) /\ TreeOK(root', nodes', leaves')
        /\ nodes'[p].v = nodes[p].v /\ Len(nodes') = Len(nodes) /\ leaves'[c] = a
    <2>1. p \in Guards(t)
      BY <1>1, Zenon
    <2>. QED  BY <1>2, <1>3, <2>1, LeafSplitTree, Zenon
  <1>5. th' = [th EXCEPT ![t] = r]
    BY Zenon DEF Go
  <1>6. /\ Fields(r) /\ r.pc = "drop_parent" /\ r.op = th[t].op /\ r.cur = th[t].cur /\ r.par = p
        /\ r.parv = th[t].parv /\ r.curv = th[t].curv /\ r.page = th[t].page
    BY <1>1, ThreadFields, Zenon DEF Fields
  <1>. HIDE DEF r
  <1>7. ThreadType(t)' /\ th'[t] = r
    BY <1>4, <1>5, <1>6, TypeAfter, ThreadFields, Zenon
  <1>8. CurOK(t)'
    <2>1. PageOK(th[t].cur, nodes', leaves')
      BY <1>1, <1>4, CurIsLeaf, GrownNow, Zenon
    <2>. QED  BY <1>1, <1>3, <1>6, <1>7, <2>1, Zenon DEF CurOK
  <1>9. ReadOK(t)'
    <2>1. p \in Guards(t)
      BY <1>1, Zenon
    <2>. QED  BY <1>2, <1>4, <1>6, <1>7, <2>1, GuardedRead, Zenon
  <1>10. Guards(t)' = {p} /\ NewGuards(t)
    BY <1>1, <1>6, <1>7, Zenon DEF Guards, NewGuards
  <1>11. GuardOK(t)'
    BY <1>2, <1>4, <1>6, <1>7, <1>10, Zenon DEF GuardOK
  <1>12. LatchOK(t)'
    BY <1>2, <1>3, <1>4, <1>6, <1>7, Zenon DEF LatchOK
  <1>. QED  BY <1>4, <1>5, <1>7, <1>8, <1>9, <1>10, <1>11, <1>12, StepOK, Zenon DEF ThreadOK

\* A split of a leaf under its parent's write guard (try_merge_mini_page) keeps the invariant.
LEMMA SplitLeafOK ==
  ASSUME IInv, NEW t \in Threads, SplitLeaf(t)
  PROVE  IInv'
  <1>. DEFINE c == th[t].cur.id
              p == th[t].par
              l == leaves[c]
              k == SplitKey(l.base \cup l.mini)
              a == [l EXCEPT !.base = Below(l.base, k), !.hi = k]
              d == NewLeaf(From(l.base, k), l.hi, t)
              n == insert(nodes[p], k, Leaf(Len(leaves) + 1))
  <1>1. th[t].pc = "split_leaf" /\ root' = root /\ IsSeq(nodes) /\ IsSeq(leaves)
    BY Now, Zenon DEF SplitLeaf
  <1>2. CASE /\ ~have_space_for(nodes[p]) /\ GiveUp(t, "NeedRestart")
             /\ nodes' = [Bumped({p}) EXCEPT ![p].flag = TRUE]
    BY <1>1, <1>2, SplitLeafFullOK, Zenon
  <1>3. CASE /\ nodes' = [nodes EXCEPT ![p] = n] /\ leaves' = Append([leaves EXCEPT ![c] = a], d)
             /\ Go(t, [th[t] EXCEPT !.pc = "drop_parent", !.new = Len(leaves) + 1])
    <2>1. LeafOK(d)
      BY NewLeafOK, Zenon
    <2>2. LeafOK(l)
      <3>1. th[t].pc \in AtLeaf
        BY <1>1, Zenon DEF AtLeaf
      <3>. QED  BY <3>1, CurIsLeaf, Zenon
    <2>3. LeafOK(a) /\ a.x = l.x
      <3>. HIDE DEF l, k
      <3>. QED  BY <2>2, Zenon DEF LeafOK
    <2>4. /\ n = insert(nodes[th[t].par], k, Leaf(Len(leaves) + 1)) /\ l = leaves[th[t].cur.id]
          /\ c = th[t].cur.id /\ p = th[t].par
      BY Zenon
    <2>. HIDE DEF a, d, n, k, l, c, p
    <2>5. OneAndOne(leaves', leaves, c, a, d)
      BY <1>1, <1>3, OneAndOneOK, Zenon
    <2>6. Replaced(nodes', nodes, p, n)
      BY <1>1, <1>3, ReplacedOK, Zenon
    <2>. QED  BY <1>1, <1>3, <2>1, <2>3, <2>4, <2>5, <2>6, SplitLeafRoomOK, Zenon
  <1>. QED  BY <1>2, <1>3, Zenon DEF SplitLeaf

-----------------------------------------------------------------------------
\* The invariant and what follows from it.

\* A tree at rest with idle threads has the invariant.
LEMMA InitOK == Init => IInv
  <1>. SUFFICES ASSUME Init PROVE IInv
    BY Zenon
  <1>1. PICK start \in Starts : /\ root = start.root /\ nodes = start.nodes /\ leaves = start.leaves
                                /\ th = [t \in Threads |-> Idle]
    BY Zenon DEF Init
  <1>2. TreeOK(root, nodes, leaves)
    BY <1>1, StartsAssumption, Zenon
  <1>3. Len(nodes) \in Nat /\ Len(leaves) \in Nat
    BY <1>2, SeqDomain, Zenon DEF TreeOK
  <1>4. ASSUME NEW t \in Threads PROVE ThreadOK(t) /\ Guards(t) = {}
    <2>1. th[t] = Idle
      BY <1>1, Zenon
    <2>2. /\ Idle.pc = "idle" /\ Idle.op = "none" /\ Idle.par = None /\ Idle.parv = 0
          /\ Idle.curv = 0
      BY Zenon DEF Idle
    <2>3. ThreadType(t)
      <3>1. "idle" \in Pcs /\ "none" \in Ops /\ 0 \in 0..Len(nodes)
        BY <1>3 DEF Pcs, Ops
      <3>. QED  BY <2>1, <3>1 DEF ThreadType, Idle, None
    <2>4. "idle" \notin AtNode /\ "idle" \notin AtLeaf
      BY Zenon DEF AtNode, AtLeaf
    <2>5. Guards(t) = {}
      BY <2>1, <2>2, Zenon DEF Guards
    <2>6. CurOK(t) /\ GuardOK(t)
      BY <2>1, <2>2, <2>4, <2>5, Zenon DEF CurOK, GuardOK
    <2>7. ReadOK(t)
      BY <2>1, <2>2, <2>4, ZeroVersion, Zenon DEF ReadOK
    <2>8. LatchOK(t)
      BY <2>1, <2>2, Zenon DEF LatchOK
    <2>. QED  BY <2>3, <2>5, <2>6, <2>7, <2>8, Zenon DEF ThreadOK
  <1>. QED  BY <1>1, <1>2, <1>4, Zenon DEF IInv, Exclusive

\* So has every state that is the same.
LEMMA StutterOK ==
  ASSUME IInv, UNCHANGED vars
  PROVE  IInv'
  <1>1. UNCHANGED <<root, nodes, leaves, th>>
    BY Zenon DEF vars
  <1>2. ASSUME NEW t \in Threads
        PROVE  Guards(t)' = Guards(t) /\ (ThreadOK(t) => ThreadOK(t)')
    <2>1. Guards(t)' = Guards(t)
      BY <1>1, Zenon DEF Guards
    <2>2. ThreadType(t)' = ThreadType(t) /\ CurOK(t)' = CurOK(t) /\ ReadOK(t)' = ReadOK(t)
      BY <1>1, Zenon DEF ThreadType, CurOK, ReadOK
    <2>3. GuardOK(t)' = GuardOK(t) /\ LatchOK(t)' = LatchOK(t)
      BY <1>1, <2>1, Zenon DEF GuardOK, LatchOK
    <2>. QED  BY <2>1, <2>2, <2>3, Zenon DEF ThreadOK
  <1>. QED  BY <1>1, <1>2, Zenon DEF IInv, Exclusive

\* Every step of every thread keeps it.
LEMMA NextOK == IInv /\ [Next]_vars => IInv'
  <1>. SUFFICES ASSUME IInv, [Next]_vars PROVE IInv'
    BY Zenon
  <1>1. CASE UNCHANGED vars
    BY <1>1, StutterOK, Zenon
  <1>2. CASE Stuck
    BY <1>2, StutterOK, Zenon DEF Stuck
  <1>3. ASSUME NEW t \in Threads,
               \/ BeginInsert(t) \/ BeginRead(t) \/ BeginScan(t) \/ BeginEvict(t)
        PROVE  IInv'
    BY <1>3, BeginOK, Zenon
  <1>4. ASSUME NEW t \in Threads,
               \/ Acquire(t) \/ get_root_page(t) \/ LockToSplit(t) \/ TrySplitLeaf(t)
               \/ TrySplitInner(t) \/ UpgradeNode(t) \/ UpgradeParent(t) \/ SplitNode(t)
               \/ SplitRoot(t) \/ DropNode(t) \/ try_read(t) \/ ReadChild(t)
        PROVE  IInv'
    BY <1>4, AcquireOK, RootPageOK, LockToSplitOK, TrySplitLeafOK, TrySplitInnerOK, UpgradeNodeOK,
       UpgradeParentOK, SplitNodeOK, SplitRootOK, DropNodeOK, TryReadOK, ReadChildOK, Zenon
  <1>5. ASSUME NEW t \in Threads,
               \/ LockLeaf(t) \/ CheckLeaf(t) \/ InsertRoot(t) \/ InsertMini(t) \/ Read(t)
               \/ EvictionCallback(t) \/ Merge(t) \/ UpgradeToSplit(t) \/ SplitLeaf(t)
               \/ DropParent(t) \/ MoveRecords(t) \/ Scan(t) \/ EndScan(t)
        PROVE  IInv'
    BY <1>5, LockLeafOK, CheckLeafOK, InsertRootOK, InsertMiniOK, ReadLeafOK, EvictionCallbackOK,
       MergeOK, UpgradeToSplitOK, SplitLeafOK, DropParentOK, MoveRecordsOK, ScanOK, EndScanOK, Zenon
  <1>. QED  BY <1>1, <1>2, <1>3, <1>4, <1>5, Zenon DEF Next

\* The inductive invariant: the tree has its shape, what a thread has read of a node is
\* true while the node keeps its version, and write guards exclude each other (the
\* version words of inner_lock.rs, read and upgraded by tree.rs and mini_page_op.rs).
THEOREM TreeKeepsInvariant == Spec => []IInv
  BY InitOK, NextOK, PTL DEF Spec

\* The expect() and unwrap() of try_split_inner and try_merge_mini_page hold for any
\* number of threads: upgrade() gives one of them the node, which is still the parent of
\* the page that is split.
THEOREM UpgradeIsExclusive == Spec => []UpgradedIsParent
  <1>1. IInv => UpgradedIsParent
    <2>. SUFFICES ASSUME IInv, NEW t \in Threads
                  PROVE  /\ \A i \in Guards(t) : /\ is_locked(nodes[i].v)
                                                 /\ \A u \in Threads \ {t} : i \notin Guards(u)
                         /\ th[t].pc \in {"split_leaf", "split_node"} =>
                              th[t].cur \in Range(nodes[th[t].par].kids)
                         /\ th[t].pc \in {"merge", "upgrade"} => th[t].par # None
      BY Zenon DEF UpgradedIsParent
    <2>1. GuardOK(t) /\ \A u \in Threads \ {t} : Guards(t) \cap Guards(u) = {}
      BY Zenon DEF IInv, ThreadOK, Exclusive
    <2>. QED  BY <2>1, Zenon DEF GuardOK
  <1>. QED  BY <1>1, TreeKeepsInvariant, PTL

\* A tree to begin with has its root marked.
LEMMA InitMarked == Init => RInv
  <1>. SUFFICES ASSUME Init PROVE RInv
    BY Zenon
  <1>1. PICK start \in Starts : /\ root = start.root /\ nodes = start.nodes /\ leaves = start.leaves
                                /\ th = [t \in Threads |-> Idle]
    BY Zenon DEF Init
  <1>2. DOMAIN nodes = 1..Len(nodes) /\ DOMAIN leaves = 1..Len(leaves)
    BY InitOK, Now, Zenon
  <1>3. /\ \A i \in 1..Len(nodes) : nodes[i].isroot <=> root = Inner(i)
        /\ \A i \in 1..Len(leaves) : leaves[i].flag => root = Leaf(i)
    BY <1>1, StartsAssumption, Zenon
  <1>4. \A t \in Threads : th[t].pc = "idle"
    BY <1>1, Zenon DEF Idle
  <1>. QED  BY <1>2, <1>3, <1>4, Zenon DEF RInv, RootIsMarked, AtRoot

\* Exactly the root node has the root flag and only a leaf that is the root asks to be
\* split, for any number of threads: a thread without a parent that gets its lock has
\* the root, since the version it upgrades was read while the page was the root
\* (try_split_inner and try_split_leaf, tree.rs; the assertions in snapshot.rs).
THEOREM RootStaysMarked == Spec => []RootIsMarked
  <1>1. RInv => RootIsMarked
    BY Zenon DEF RInv
  <1>. QED  BY <1>1, InitMarked, NextMarked, TreeKeepsInvariant, PTL DEF Spec
=============================================================================
