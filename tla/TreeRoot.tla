------------------------------ MODULE TreeRoot ------------------------------
(***************************************************************************)
(* Every step of Tree keeps the root marked: exactly the root node has the *)
(* root flag, and only a leaf that is the root asks to be split.  A thread *)
(* that has no parent and has locked its page is at the root.              *)
(***************************************************************************)
EXTENDS TreeInvariant

\* What a thread without a parent knows: the page it is at is the root, once it has
\* locked it.
AtRoot(t) ==
  LET r == th[t]
  IN  /\ r.pc = "upgrade_node" /\ r.par = None /\ nodes[r.cur.id].v = r.curv => root = r.cur
      /\ r.pc = "split_root" => root = r.cur
      /\ r.pc = "leaf" /\ r.par = None => root = r.cur

RInv == RootIsMarked /\ \A t \in Threads : AtRoot(t)

\* A step that leaves the root where it is marks no node and flags no other page.
MarksKept ==
  /\ Len(nodes) <= Len(nodes')
  /\ \A i \in 1..Len(nodes) : nodes'[i].isroot = nodes[i].isroot /\ nodes[i].v <= nodes'[i].v
  /\ \A i \in 1..Len(nodes') : i \notin 1..Len(nodes) => ~nodes'[i].isroot
FlagsKept ==
  \A i \in 1..Len(leaves') :
    leaves'[i].flag => (i \in 1..Len(leaves) /\ leaves[i].flag) \/ root = Leaf(i)

\* The root is one of the pages.
LEMMA RootPage ==
  ASSUME IInv
  PROVE  /\ \A i : root = Inner(i) => i \in 1..Len(nodes)
         /\ \A i, j : Inner(i) # Leaf(j)
  <1>1. PageOK(root, nodes, leaves)
    BY Zenon DEF IInv, TreeOK
  <1>2. \A i : Inner(i).leaf = FALSE /\ Inner(i).id = i /\ Leaf(i).leaf = TRUE
    BY Zenon DEF Inner, Leaf
  <1>. QED  BY <1>1, <1>2, Zenon DEF PageOK

\* A page is a leaf or an inner node, by its number.
LEMMA PageIs ==
  ASSUME NEW p, NEW ns, NEW ls, PageOK(p, ns, ls)
  PROVE  (p.leaf => p = Leaf(p.id)) /\ (~p.leaf => p = Inner(p.id))
  BY DEF PageOK, Leaf, Inner

\* Pages with different numbers are different.
LEMMA OnePage ==
  ASSUME NEW i, NEW j
  PROVE  (Inner(i) = Inner(j) => i = j) /\ (Leaf(i) = Leaf(j) => i = j)
  <1>1. Inner(i).id = i /\ Inner(j).id = j /\ Leaf(i).id = i /\ Leaf(j).id = j
    BY Zenon DEF Inner, Leaf
  <1>. QED  BY <1>1, Zenon

\* Such a step keeps the marks if its own thread is right about the root.
LEMMA RootStays ==
  ASSUME IInv, IInv', RInv, NEW t \in Threads, NEW r, Go(t, r), root' = root, MarksKept, FlagsKept,
         AtRoot(t)'
  PROVE  RInv'
  <1>1. \A u \in Threads \ {t} : th'[u] = th[u]
    BY Zenon DEF IInv, Go
  <1>2. ASSUME NEW u \in Threads \ {t} PROVE AtRoot(u)'
    <2>1. AtRoot(u) /\ ReadOK(u) /\ th'[u] = th[u]
      BY <1>1, Zenon DEF RInv, IInv, ThreadOK
    <2>2. CASE th[u].pc = "upgrade_node"
      <3>. DEFINE c == th[u].cur.id
      <3>1. c \in 1..Len(nodes) /\ th[u].curv <= nodes[c].v /\ th[u].curv \in Nat
        BY <2>1, <2>2, CurIsNode, Zenon DEF AtNode, ReadOK, Version
      <3>2. nodes[c].v \in Nat /\ nodes[c].v <= nodes'[c].v /\ nodes'[c].v \in Nat
        <4>1. Len(nodes') \in Nat /\ c \in 1..Len(nodes')
          BY <3>1, Now, SeqDomain DEF IInv, TreeOK, MarksKept
        <4>2. NodeOK(nodes'[c], nodes', leaves')
          BY <4>1, Zenon DEF IInv, TreeOK
        <4>. QED  BY <3>1, <4>2, Now, NodeFields, Zenon DEF MarksKept
      <3>3. nodes'[c].v = th[u].curv => nodes[c].v = th[u].curv
        BY <3>1, <3>2, Between, Zenon
      <3>. QED  BY <2>1, <2>2, <3>3, Zenon DEF AtRoot
    <2>. QED  BY <2>1, <2>2, Zenon DEF AtRoot
  <1>3. RootIsMarked'
    <2>1. /\ DOMAIN nodes' = 1..Len(nodes') /\ DOMAIN leaves' = 1..Len(leaves')
          /\ DOMAIN nodes = 1..Len(nodes) /\ DOMAIN leaves = 1..Len(leaves)
      BY SeqDomain, Now, Zenon DEF IInv, TreeOK
    <2>2. \A i \in 1..Len(nodes) : nodes'[i].isroot <=> root = Inner(i)
      BY <2>1, Zenon DEF RInv, RootIsMarked, MarksKept
    <2>3. \A i : root = Inner(i) => i \in 1..Len(nodes)
      BY RootPage, Zenon
    <2>4. \A i \in DOMAIN nodes' : nodes'[i].isroot <=> root' = Inner(i)
      BY <2>1, <2>2, <2>3, Zenon DEF MarksKept
    <2>5. \A i \in DOMAIN leaves' : leaves'[i].flag => root' = Leaf(i)
      BY <2>1, Zenon DEF FlagsKept, RInv, RootIsMarked
    <2>. QED  BY <2>4, <2>5, Zenon DEF RootIsMarked
  <1>. QED  BY <1>2, <1>3, Zenon DEF RInv

\* A thread that is elsewhere, and one that fails or ends its call.
LEMMA IsElsewhere ==
  ASSUME IInv, NEW t \in Threads, NEW r, Go(t, r), r.pc \notin {"upgrade_node", "split_root", "leaf"}
  PROVE  AtRoot(t)'
  <1>1. th'[t] = r
    BY Zenon DEF IInv, Go
  <1>. QED  BY <1>1, Zenon DEF AtRoot

\* A call that starts over, or ends, is at no page.
LEMMA StartsOver ==
  ASSUME IInv, NEW t \in Threads, NEW error
  PROVE  Again(th[t], error).pc \in {"root", "acquire"} /\ Idle.pc = "idle"
  BY ThreadFields, Zenon DEF Again, Idle, Fields

\* Inner nodes, or leaves, that stay the same.
LEMMA MarksSame ==
  ASSUME IInv, nodes' = nodes
  PROVE  MarksKept
  BY Now DEF MarksKept

\* Leaves that stay the same keep their flags.
LEMMA FlagsSame ==
  ASSUME IInv, leaves' = leaves
  PROVE  FlagsKept
  BY Zenon DEF FlagsKept

\* Versions that go up.
LEMMA MarksBumped ==
  ASSUME IInv, NEW S, nodes' = Bumped(S)
  PROVE  MarksKept /\ Len(nodes') = Len(nodes)
  <1>1. nodes' = [i \in 1..Len(nodes) |-> nodes'[i]]
    BY Now, Zenon DEF Bumped
  <1>2. Len(nodes') = Len(nodes)
    BY <1>1, Now, MapIsSeq, Zenon
  <1>3. \A i \in 1..Len(nodes) :
          nodes'[i] = IF i \in S THEN [nodes[i] EXCEPT !.v = nodes[i].v + 2] ELSE nodes[i]
    BY Now, Zenon DEF Bumped
  <1>4. \A i \in 1..Len(nodes) : nodes[i].v \in Nat /\ NodeOK(nodes[i], nodes, leaves)
    BY Now, Zenon
  <1>5. \A v \in Nat : v <= v /\ v <= v + 2
    OBVIOUS
  <1>6. \A i \in 1..Len(nodes) : nodes'[i].isroot = nodes[i].isroot /\ nodes[i].v <= nodes'[i].v
    BY <1>3, <1>4, <1>5, Zenon DEF NodeOK
  <1>. QED  BY <1>2, <1>5, <1>6, Now, Zenon DEF MarksKept

\* One leaf that changes, but not in its flag.
LEMMA FlagsEdit ==
  ASSUME IInv, NEW i \in 1..Len(leaves), NEW m, m.flag = leaves[i].flag,
         leaves' = [leaves EXCEPT ![i] = m]
  PROVE  FlagsKept
  <1>1. Len(leaves') = Len(leaves)
    BY Now, ExceptIsSeq, Zenon
  <1>2. \A j \in 1..Len(leaves) : leaves'[j] = IF j = i THEN m ELSE leaves[j]
    BY Now, Zenon
  <1>. QED  BY <1>1, <1>2, Zenon DEF FlagsKept

\* A lock that is given back changes no flag.
LEMMA UnlockedFlag ==
  ASSUME NEW l, LeafOK(l), NEW t
  PROVE  Unlocked(l, t).flag = l.flag
  BY Zenon DEF LeafOK, Unlocked

\* Leaving a leaf changes no flag.
LEMMA LeaveFlags ==
  ASSUME IInv, NEW t \in Threads, NEW i \in 1..Len(leaves), Leave(t, i) \/ UnlockLeaf(t, i)
  PROVE  FlagsKept
  <1>1. CASE leaves' = leaves
    BY <1>1, FlagsSame, Zenon
  <1>2. CASE leaves' = [leaves EXCEPT ![i] = Unlocked(leaves[i], t)]
    <2>1. Unlocked(leaves[i], t).flag = leaves[i].flag
      BY Now, UnlockedFlag, Zenon
    <2>. QED  BY <1>2, <2>1, FlagsEdit, Zenon
  <1>. QED  BY <1>1, <1>2, Zenon DEF Leave, UnlockLeaf

\* Nor does putting back a leaf with the flag it had.
LEMMA PutFlags ==
  ASSUME IInv, NEW t \in Threads, th[t].pc \in AtLeaf, NEW l, LeafOK(l),
         l.flag = leaves[th[t].cur.id].flag, leaves' = Put(t, l)
  PROVE  FlagsKept
  <1>1. th[t].cur.id \in 1..Len(leaves)
    BY CurIsLeaf, Zenon
  <1>2. Unlocked(l, t).flag = leaves[th[t].cur.id].flag
    BY UnlockedFlag, Zenon
  <1>. QED  BY <1>1, <1>2, FlagsEdit, Zenon DEF Put

\* Steps after which the thread has not found a page to be the root yet.
LEMMA ElsewhereKeeps ==
  ASSUME IInv, IInv', RInv, NEW t \in Threads, NEW r, Go(t, r), root' = root, MarksKept, FlagsKept,
         r.pc \notin {"upgrade_node", "split_root", "leaf"}
  PROVE  RInv'
  BY IsElsewhere, RootStays, Zenon

\* What a step makes of its thread.
LEMMA Went ==
  ASSUME IInv, NEW t \in Threads, NEW r, Go(t, r)
  PROVE  Go(t, th'[t]) /\ th'[t] = r
  BY Zenon DEF IInv, Go

\* A step that fails or ends the call.
LEMMA FailKeeps ==
  ASSUME IInv, IInv', RInv, NEW t \in Threads, root' = root, MarksKept, FlagsKept,
         NEW error, Go(t, Again(th[t], error)) \/ Go(t, Idle)
  PROVE  RInv'
  <1>1. Go(t, th'[t]) /\ th'[t] \in {Again(th[t], error), Idle}
    BY Went, Zenon
  <1>2. th'[t].pc \notin {"upgrade_node", "split_root", "leaf"}
    BY <1>1, StartsOver
  <1>. QED  BY <1>1, <1>2, ElsewhereKeeps, Zenon

\* A step that only goes on.
LEMMA StepKeeps ==
  ASSUME IInv, IInv', RInv, NEW t \in Threads, root' = root, MarksKept, FlagsKept,
         NEW pc, Step(t, pc), pc \notin {"upgrade_node", "split_root", "leaf"}
  PROVE  RInv'
  <1>1. [th[t] EXCEPT !.pc = pc].pc = pc
    BY ThreadFields, Zenon DEF Fields
  <1>. QED  BY <1>1, ElsewhereKeeps, Zenon DEF Step

\* The steps that leave the tree alone.
LEMMA QuietKeeps ==
  ASSUME IInv, IInv', RInv, NEW t \in Threads, UNCHANGED <<root, nodes, leaves>>, NEW r, Go(t, r),
         r.pc \notin {"upgrade_node", "split_root", "leaf"}
  PROVE  RInv'
  BY MarksSame, FlagsSame, ElsewhereKeeps, Zenon

\* A call that begins.
LEMMA BeginKeeps ==
  ASSUME IInv, IInv', RInv, NEW t \in Threads,
         BeginInsert(t) \/ BeginRead(t) \/ BeginScan(t) \/ BeginEvict(t)
  PROVE  RInv'
  <1>1. ASSUME NEW r, Begin(t, r), r.pc \in {"root", "acquire"} PROVE RInv'
    BY <1>1, QuietKeeps, Zenon DEF Begin
  <1>2. \A k, p, d : /\ [Idle EXCEPT !.pc = "root", !.op = "insert", !.key = k].pc = "root"
                     /\ [Idle EXCEPT !.pc = "root", !.op = "read", !.key = k].pc = "root"
                     /\ [Idle EXCEPT !.pc = "root", !.op = "scan", !.key = k, !.must = d].pc = "root"
                     /\ [Idle EXCEPT !.pc = "acquire", !.op = "evict", !.page = p, !.aggr = TRUE].pc
                          = "acquire"
    BY Zenon DEF Idle
  <1>3. CASE BeginInsert(t)
    BY <1>1, <1>2, <1>3, Zenon DEF BeginInsert
  <1>4. CASE BeginRead(t)
    BY <1>1, <1>2, <1>4, Zenon DEF BeginRead
  <1>5. CASE BeginScan(t)
    <2>. DEFINE r == [Idle EXCEPT !.pc = "root", !.op = "scan", !.key = Min(Keys), !.must = done]
    <2>1. Begin(t, r)
      BY <1>5, Zenon DEF BeginScan
    <2>2. r.pc = "root"
      BY Zenon DEF Idle
    <2>. QED  BY <1>1, <2>1, <2>2, Zenon
  <1>6. CASE BeginEvict(t)
    BY <1>1, <1>2, <1>6, Zenon DEF BeginEvict
  <1>. QED  BY <1>3, <1>4, <1>5, <1>6, Zenon

\* evict_one that takes a handle.
LEMMA AcquireKeeps ==
  ASSUME IInv, IInv', RInv, NEW t \in Threads, Acquire(t)
  PROVE  RInv'
  <1>1. UNCHANGED <<root, nodes, leaves>>
    BY Zenon DEF Acquire
  <1>2. CASE Go(t, Idle)
    BY <1>1, <1>2, StartsOver, QuietKeeps, Zenon
  <1>3. ASSUME NEW k, Go(t, [th[t] EXCEPT !.pc = "root", !.key = k]) PROVE RInv'
    <2>1. [th[t] EXCEPT !.pc = "root", !.key = k].pc = "root"
      BY ThreadFields, Zenon DEF Fields
    <2>. QED  BY <1>1, <1>3, <2>1, QuietKeeps, Zenon
  <1>. QED  BY <1>2, <1>3, Zenon DEF Acquire

\* get_root_page.
LEMMA GetRootKeeps ==
  ASSUME IInv, IInv', RInv, NEW t \in Threads, get_root_page(t)
  PROVE  RInv'
  <1>1. UNCHANGED <<root, nodes, leaves>>
    BY Zenon DEF get_root_page
  <1>2. [th[t] EXCEPT !.cur = root, !.pc = StepAt(th[t], root)].pc = StepAt(th[t], root)
    BY ThreadFields, Zenon DEF Fields
  <1>3. StepAt(th[t], root) \notin {"upgrade_node", "split_root", "leaf"}
    BY Zenon DEF StepAt
  <1>. QED  BY <1>1, <1>2, <1>3, QuietKeeps, Zenon DEF get_root_page

\* try_read of a node.
LEMMA TryReadKeeps ==
  ASSUME IInv, IInv', RInv, NEW t \in Threads, try_read(t)
  PROVE  RInv'
  <1>1. UNCHANGED <<root, nodes, leaves>>
    BY Zenon DEF try_read
  <1>2. CASE Fail(t, "Locked")
    BY <1>1, <1>2, MarksSame, FlagsSame, FailKeeps, Zenon DEF Fail
  <1>3. ASSUME NEW v, Go(t, [th[t] EXCEPT !.pc = "child", !.curv = v]) PROVE RInv'
    <2>1. [th[t] EXCEPT !.pc = "child", !.curv = v].pc = "child"
      BY ThreadFields, Zenon DEF Fields
    <2>. QED  BY <1>1, <1>3, <2>1, QuietKeeps, Zenon
  <1>. QED  BY <1>2, <1>3, Zenon DEF try_read

\* The child of a node.
LEMMA ReadChildKeeps ==
  ASSUME IInv, IInv', RInv, NEW t \in Threads, ReadChild(t)
  PROVE  RInv'
  <1>1. UNCHANGED <<root, nodes, leaves>>
    BY Zenon DEF ReadChild
  <1>2. CASE Fail(t, "Locked")
    BY <1>1, <1>2, MarksSame, FlagsSame, FailKeeps, Zenon DEF Fail
  <1>3. ASSUME NEW p,
               Go(t, [th[t] EXCEPT !.pc = StepAt(th[t], p), !.cur = p,
                                   !.par = th[t].cur.id, !.parv = th[t].curv, !.curv = 0])
        PROVE  RInv'
    <2>1. [th[t] EXCEPT !.pc = StepAt(th[t], p), !.cur = p, !.par = th[t].cur.id,
                        !.parv = th[t].curv, !.curv = 0].pc = StepAt(th[t], p)
      BY ThreadFields, Zenon DEF Fields
    <2>2. StepAt(th[t], p) \notin {"upgrade_node", "split_root", "leaf"}
      BY Zenon DEF StepAt
    <2>. QED  BY <1>1, <1>3, <2>1, <2>2, QuietKeeps, Zenon
  <1>. QED  BY <1>2, <1>3, Zenon DEF ReadChild

\* try_split_inner has checked that a node without a parent is the root.
LEMMA TrySplitInnerKeeps ==
  ASSUME IInv, IInv', RInv, NEW t \in Threads, TrySplitInner(t)
  PROVE  RInv'
  <1>1. UNCHANGED <<root, nodes, leaves>>
    BY Zenon DEF TrySplitInner
  <1>2. CASE Fail(t, "Locked")
    BY <1>1, <1>2, MarksSame, FlagsSame, FailKeeps, Zenon DEF Fail
  <1>3. CASE Go(t, [th[t] EXCEPT !.pc = "try_read"])
    <2>1. Step(t, "try_read")
      BY <1>3, Zenon DEF Step
    <2>. QED  BY <1>1, <2>1, MarksSame, FlagsSame, StepKeeps, Zenon
  <1>4. ASSUME check_parent(th[t]), NEW v, Go(t, [th[t] EXCEPT !.pc = "upgrade_node", !.curv = v])
        PROVE  RInv'
    <2>. DEFINE r == [th[t] EXCEPT !.pc = "upgrade_node", !.curv = v]
    <2>1. r.pc = "upgrade_node" /\ r.cur = th[t].cur /\ r.par = th[t].par
      BY ThreadFields, Zenon DEF Fields
    <2>2. th'[t] = r
      BY <1>4, Went, Zenon
    <2>3. AtRoot(t)'
      BY <1>1, <1>4, <2>1, <2>2, Zenon DEF AtRoot, check_parent
    <2>. QED  BY <1>1, <1>4, <2>3, MarksSame, FlagsSame, RootStays, Zenon
  <1>. QED  BY <1>2, <1>3, <1>4, Zenon DEF TrySplitInner

\* Locks on nodes that are taken or given back.  A node without a parent is the root
\* if nobody has locked it since that was checked.
LEMMA UpgradeNodeKeeps ==
  ASSUME IInv, IInv', RInv, NEW t \in Threads, UpgradeNode(t)
  PROVE  RInv'
  <1>. DEFINE r == th[t]
  <1>1. root' = root /\ leaves' = leaves
    BY Zenon DEF UpgradeNode
  <1>2. CASE Fail(t, "Locked") /\ UNCHANGED nodes
    BY <1>1, <1>2, MarksSame, FlagsSame, FailKeeps, Zenon DEF Fail
  <1>3. CASE /\ CanUpgrade(r.cur.id, r.curv) /\ nodes' = Bumped({r.cur.id})
             /\ Step(t, IF r.par = None THEN "split_root" ELSE "upgrade_parent")
    <2>1. MarksKept /\ FlagsKept
      BY <1>1, <1>3, MarksBumped, FlagsSame, Zenon
    <2>2. CASE r.par # None
      <3>1. Step(t, "upgrade_parent")
        BY <1>3, <2>2, Zenon
      <3>. QED  BY <1>1, <2>1, <3>1, StepKeeps, Zenon
    <2>3. CASE r.par = None
      <3>1. root = r.cur
        BY <1>3, <2>3, Zenon DEF RInv, AtRoot, CanUpgrade, UpgradeNode
      <3>2. Go(t, [r EXCEPT !.pc = "split_root"])
        BY <1>3, <2>3, Zenon DEF Step
      <3>3. th'[t].pc = "split_root" /\ th'[t].cur = r.cur
        <4>1. th'[t] = [r EXCEPT !.pc = "split_root"]
          BY <3>2, Went, Zenon
        <4>. QED  BY <4>1, ThreadFields, Zenon DEF Fields
      <3>4. AtRoot(t)'
        BY <1>1, <3>1, <3>3, Zenon DEF AtRoot
      <3>. QED  BY <1>1, <2>1, <3>2, <3>4, RootStays, Zenon
    <2>. QED  BY <2>2, <2>3, Zenon
  <1>. QED  BY <1>2, <1>3, Zenon DEF UpgradeNode

\* The parent is locked as well, or the node given back.
LEMMA UpgradeParentKeeps ==
  ASSUME IInv, IInv', RInv, NEW t \in Threads, UpgradeParent(t)
  PROVE  RInv'
  <1>1. root' = root /\ leaves' = leaves
    BY Zenon DEF UpgradeParent
  <1>2. MarksKept /\ FlagsKept
    BY <1>1, MarksBumped, FlagsSame, Zenon DEF UpgradeParent
  <1>3. CASE Step(t, "split_node")
    BY <1>1, <1>2, <1>3, StepKeeps, Zenon
  <1>4. CASE Fail(t, "Locked")
    BY <1>1, <1>2, <1>4, FailKeeps, Zenon DEF Fail
  <1>. QED  BY <1>3, <1>4, Zenon DEF UpgradeParent

\* Both write guards are dropped.
LEMMA DropNodeKeeps ==
  ASSUME IInv, IInv', RInv, NEW t \in Threads, DropNode(t)
  PROVE  RInv'
  BY MarksBumped, FlagsSame, FailKeeps, Zenon DEF DropNode, Fail

\* The parent of a leaf is locked.
LEMMA UpgradeToSplitKeeps ==
  ASSUME IInv, IInv', RInv, NEW t \in Threads, UpgradeToSplit(t)
  PROVE  RInv'
  <1>1. root' = root
    BY Zenon DEF UpgradeToSplit
  <1>2. CASE GiveUp(t, "Locked") /\ UNCHANGED nodes
    <2>1. th[t].cur.id \in 1..Len(leaves)
      BY CurIsLeaf, Zenon DEF UpgradeToSplit, AtLeaf
    <2>2. FlagsKept
      BY <1>2, <2>1, LeaveFlags, Zenon DEF GiveUp
    <2>. QED  BY <1>1, <1>2, <2>2, MarksSame, FailKeeps, Zenon DEF GiveUp, Fail
  <1>3. CASE nodes' = Bumped({th[t].par}) /\ Step(t, "split_leaf") /\ leaves' = leaves
    BY <1>1, <1>3, MarksBumped, FlagsSame, StepKeeps, Zenon
  <1>. QED  BY <1>2, <1>3, Zenon DEF UpgradeToSplit

\* Its write guard is dropped.
LEMMA DropParentKeeps ==
  ASSUME IInv, IInv', RInv, NEW t \in Threads, DropParent(t)
  PROVE  RInv'
  BY MarksBumped, FlagsSame, StepKeeps, Zenon DEF DropParent

\* Leaves that are locked, unlocked, filled and merged keep their flags.
LEMMA GiveUpKeeps ==
  ASSUME IInv, IInv', RInv, NEW t \in Threads, th[t].pc \in AtLeaf, UNCHANGED <<root, nodes>>,
         NEW error, GiveUp(t, error)
  PROVE  RInv'
  <1>1. th[t].cur.id \in 1..Len(leaves)
    BY CurIsLeaf, Zenon
  <1>2. FlagsKept
    BY <1>1, LeaveFlags, Zenon DEF GiveUp
  <1>. QED  BY <1>2, MarksSame, FailKeeps, Zenon DEF GiveUp, Fail

\* A leaf is flagged no more than the thread's leaf was.
LEMMA LeafKeeps ==
  ASSUME IInv, IInv', RInv, NEW t \in Threads, th[t].pc \in AtLeaf, UNCHANGED <<root, nodes>>,
         NEW l, LeafOK(l), l.flag = leaves[th[t].cur.id].flag, leaves' = Put(t, l),
         NEW error, Go(t, Again(th[t], error)) \/ Go(t, Idle)
  PROVE  RInv'
  BY PutFlags, MarksSame, FailKeeps, Zenon

\* A thread comes to a leaf with a parent, or finds that the leaf is the root.
LEMMA ToLeafKeeps ==
  ASSUME IInv, IInv', RInv, NEW t \in Threads, Step(t, "leaf"), UNCHANGED <<root, nodes>>, FlagsKept,
         th[t].par = None => root = th[t].cur
  PROVE  RInv'
  <1>. DEFINE r == [th[t] EXCEPT !.pc = "leaf"]
  <1>1. r.pc = "leaf" /\ r.cur = th[t].cur /\ r.par = th[t].par
    BY ThreadFields, Zenon DEF Fields
  <1>2. Go(t, r)
    BY Zenon DEF Step
  <1>3. th'[t] = r
    BY <1>2, Went, Zenon
  <1>. HIDE DEF r
  <1>4. AtRoot(t)'
    BY <1>1, <1>3, Zenon DEF AtRoot
  <1>. QED  BY <1>2, <1>4, MarksSame, RootStays, Zenon

\* try_split_leaf locks the leaf.
LEMMA LockToSplitKeeps ==
  ASSUME IInv, IInv', RInv, NEW t \in Threads, LockToSplit(t)
  PROVE  RInv'
  <1>. DEFINE c == th[t].cur.id
              l == [leaves[c] EXCEPT !.x = t]
  <1>1. th[t].pc \in AtLeaf /\ UNCHANGED <<root, nodes>> /\ Step(t, "try_split_leaf")
    BY Zenon DEF LockToSplit, AtLeaf
  <1>2. c \in 1..Len(leaves) /\ LeafOK(leaves[c])
    BY <1>1, CurIsLeaf, Now, Zenon
  <1>3. l.flag = leaves[c].flag
    BY <1>2, Zenon DEF LeafOK
  <1>4. leaves' = [leaves EXCEPT ![c] = l]
    BY Zenon DEF LockToSplit
  <1>. HIDE DEF l
  <1>5. FlagsKept
    BY <1>2, <1>3, <1>4, FlagsEdit, Zenon
  <1>. QED  BY <1>1, <1>5, MarksSame, StepKeeps, Zenon

\* The leaf is locked; an evictor has a parent.
LEMMA LockLeafKeeps ==
  ASSUME IInv, IInv', RInv, NEW t \in Threads, LockLeaf(t)
  PROVE  RInv'
  <1>. DEFINE c == th[t].cur.id
              shared == th[t].op \in {"read", "scan"}
              l == IF shared THEN [leaves[c] EXCEPT !.s = leaves[c].s \cup {t}]
                             ELSE [leaves[c] EXCEPT !.x = t]
  <1>1. /\ th[t].pc \in AtLeaf /\ UNCHANGED <<root, nodes>>
        /\ Step(t, IF th[t].op = "evict" THEN "leaf" ELSE "check")
    BY Zenon DEF LockLeaf, AtLeaf
  <1>2. c \in 1..Len(leaves) /\ LeafOK(leaves[c])
    BY <1>1, CurIsLeaf, Now, Zenon
  <1>3. l.flag = leaves[c].flag
    BY <1>2, Zenon DEF LeafOK
  <1>4. leaves' = [leaves EXCEPT ![c] = l]
    BY Zenon DEF LockLeaf
  <1>. HIDE DEF l
  <1>5. FlagsKept
    BY <1>2, <1>3, <1>4, FlagsEdit, Zenon
  <1>6. CASE th[t].op = "evict"
    <2>1. th[t].par # None
      BY <1>1, <1>6, Zenon DEF IInv, ThreadOK, LatchOK
    <2>2. Step(t, "leaf")
      BY <1>1, <1>6, Zenon
    <2>. QED  BY <1>1, <1>5, <2>1, <2>2, ToLeafKeeps, Zenon
  <1>7. CASE th[t].op # "evict"
    <2>1. Step(t, "check")
      BY <1>1, <1>7, Zenon
    <2>. QED  BY <1>1, <1>5, <2>1, MarksSame, StepKeeps, Zenon
  <1>. QED  BY <1>6, <1>7, Zenon

\* check_parent! of a leaf without a parent finds it to be the root.
LEMMA CheckLeafKeeps ==
  ASSUME IInv, IInv', RInv, NEW t \in Threads, CheckLeaf(t)
  PROVE  RInv'
  <1>1. th[t].pc \in AtLeaf /\ UNCHANGED <<root, nodes>>
    BY Zenon DEF CheckLeaf, AtLeaf
  <1>2. CASE Leave(t, th[t].cur.id) /\ Fail(t, "Locked")
    BY <1>1, <1>2, GiveUpKeeps, Zenon DEF GiveUp
  <1>3. CASE check_parent(th[t]) /\ Step(t, "leaf") /\ leaves' = leaves
    BY <1>1, <1>3, FlagsSame, ToLeafKeeps, Zenon DEF check_parent
  <1>. QED  BY <1>2, <1>3, Zenon DEF CheckLeaf

\* A read.
LEMMA ReadLeafKeeps ==
  ASSUME IInv, IInv', RInv, NEW t \in Threads, Read(t)
  PROVE  RInv'
  <1>1. /\ th[t].pc \in AtLeaf /\ UNCHANGED <<root, nodes>> /\ Go(t, Idle)
        /\ UnlockLeaf(t, th[t].cur.id)
    BY Zenon DEF Read, AtLeaf, Finish, UnlockLeaf
  <1>2. FlagsKept
    BY <1>1, CurIsLeaf, LeaveFlags, Zenon
  <1>. QED  BY <1>1, <1>2, MarksSame, FailKeeps, Zenon

\* eviction_callback.
LEMMA EvictionCallbackKeeps ==
  ASSUME IInv, IInv', RInv, NEW t \in Threads, EvictionCallback(t)
  PROVE  RInv'
  <1>1. th[t].pc \in AtLeaf /\ UNCHANGED <<root, nodes>>
    BY Zenon DEF EvictionCallback, AtLeaf
  <1>2. CASE GiveUp(t, "NeedRestart")
    BY <1>1, <1>2, GiveUpKeeps, Zenon
  <1>3. CASE Step(t, "merge") /\ leaves' = leaves
    BY <1>1, <1>3, MarksSame, FlagsSame, StepKeeps, Zenon
  <1>. QED  BY <1>2, <1>3, Zenon DEF EvictionCallback

\* An insert that finds no room flags the leaf, which is the root.
LEMMA InsertRootKeeps ==
  ASSUME IInv, IInv', RInv, NEW t \in Threads, InsertRoot(t)
  PROVE  RInv'
  <1>. DEFINE c == th[t].cur.id
              full == [leaves[c] EXCEPT !.base = leaves[c].base \cup {th[t].key}]
              flagged == [leaves[c] EXCEPT !.flag = TRUE]
  <1>1. th[t].pc = "leaf" /\ th[t].pc \in AtLeaf /\ UNCHANGED <<root, nodes>> /\ th[t].par = None
    BY Zenon DEF InsertRoot, AtLeaf
  <1>2. /\ c \in 1..Len(leaves) /\ LeafOK(leaves[c]) /\ th[t].cur.leaf
        /\ PageOK(th[t].cur, nodes, leaves)
    BY <1>1, CurIsLeaf, Zenon
  <1>3. root = Leaf(c)
    <2>1. root = th[t].cur
      BY <1>1, Zenon DEF RInv, AtRoot
    <2>. QED  BY <1>2, <2>1, PageIs, Zenon
  <1>4. LeafOK(full) /\ full.flag = leaves[c].flag
    BY <1>2, Zenon DEF LeafOK
  <1>. HIDE DEF full
  <1>5. CASE Finish(t, Put(t, full))
    BY <1>1, <1>4, <1>5, LeafKeeps, Zenon DEF Finish
  <1>6. CASE leaves' = Put(t, flagged) /\ Fail(t, "NeedRestart")
    <2>. DEFINE m == Unlocked(flagged, t)
    <2>1. leaves' = [leaves EXCEPT ![c] = m]
      BY <1>6, Zenon DEF Put
    <2>. HIDE DEF m
    <2>2. Len(leaves') = Len(leaves) /\ \A j \in 1..Len(leaves) : j # c => leaves'[j] = leaves[j]
      BY <2>1, Now, ExceptIsSeq, Zenon
    <2>3. FlagsKept
      BY <1>3, <2>2, Zenon DEF FlagsKept
    <2>. QED  BY <1>1, <1>6, <2>3, MarksSame, FailKeeps, Zenon DEF Fail
  <1>. QED  BY <1>5, <1>6, Zenon DEF InsertRoot, full

\* A mini page that is to go.
LEMMA BeginDeallocKeeps ==
  ASSUME IInv, IInv', RInv, NEW t \in Threads, th[t].pc = "leaf", UNCHANGED <<root, nodes>>,
         NEW q, begin_dealloc(t, q)
  PROVE  RInv'
  <1>. DEFINE c == th[t].cur.id
              l == [Unlocked(leaves[c], t) EXCEPT !.x = t]
  <1>1. th[t].pc \in AtLeaf
    BY Zenon DEF AtLeaf
  <1>2. CASE GiveUp(t, "NeedRestart")
    BY <1>1, <1>2, GiveUpKeeps, Zenon
  <1>3. CASE leaves' = [leaves EXCEPT ![c] = l] /\ Step(t, "merge")
    <2>1. c \in 1..Len(leaves) /\ LeafOK(leaves[c])
      BY <1>1, CurIsLeaf, Zenon
    <2>2. l.flag = leaves[c].flag
      BY <2>1, Zenon DEF LeafOK, Unlocked
    <2>. HIDE DEF l
    <2>3. FlagsKept
      BY <1>3, <2>1, <2>2, FlagsEdit, Zenon
    <2>. QED  BY <1>3, <2>3, MarksSame, StepKeeps, Zenon
  <1>. QED  BY <1>2, <1>3, Zenon DEF begin_dealloc

\* An insert into a mini page.
LEMMA InsertMiniKeeps ==
  ASSUME IInv, IInv', RInv, NEW t \in Threads, InsertMini(t)
  PROVE  RInv'
  <1>. DEFINE c == th[t].cur.id
              l(q) == [leaves[c] EXCEPT !.mini = leaves[c].mini \cup {th[t].key}, !.page = q]
  <1>1. th[t].pc = "leaf" /\ th[t].pc \in AtLeaf /\ UNCHANGED <<root, nodes>>
    BY Zenon DEF InsertMini, AtLeaf
  <1>2. LeafOK(leaves[c])
    BY <1>1, CurIsLeaf, Zenon
  <1>3. ASSUME NEW q, Finish(t, Put(t, l(q)))
        PROVE  RInv'
    <2>1. LeafOK(l(q)) /\ l(q).flag = leaves[c].flag
      BY <1>2, Zenon DEF LeafOK
    <2>. HIDE DEF l
    <2>. QED  BY <1>1, <1>3, <2>1, LeafKeeps, Zenon DEF Finish
  <1>4. ASSUME NEW error, GiveUp(t, error)
        PROVE  RInv'
    BY <1>1, <1>4, GiveUpKeeps, Zenon
  <1>5. CASE begin_dealloc(t, leaves[c].page)
    BY <1>1, <1>5, BeginDeallocKeeps, Zenon
  <1>. QED  BY <1>3, <1>4, <1>5, Zenon DEF InsertMini

\* try_merge_mini_page without a split; the thread has a parent.
LEMMA MergeKeeps ==
  ASSUME IInv, IInv', RInv, NEW t \in Threads, Merge(t)
  PROVE  RInv'
  <1>. DEFINE c == th[t].cur.id
              l == leaves[c]
              whole == [l EXCEPT !.base = l.base \cup l.mini, !.mini = {}, !.page = None]
  <1>1. th[t].pc = "merge" /\ th[t].pc \in AtLeaf /\ UNCHANGED <<root, nodes>>
    BY Zenon DEF Merge, AtLeaf
  <1>2. /\ c \in 1..Len(leaves) /\ LeafOK(l) /\ th[t].par # None
        /\ th[t].op \in {"insert", "evict", "scan"}
    BY <1>1, CurIsLeaf, Zenon DEF IInv, ThreadOK, GuardOK
  <1>3. LeafOK(whole) /\ whole.flag = leaves[c].flag
    BY <1>2, Zenon DEF LeafOK
  <1>4. CASE GiveUp(t, "Locked")
    BY <1>1, <1>4, GiveUpKeeps, Zenon
  <1>5. CASE Step(t, "upgrade") /\ leaves' = leaves
    BY <1>1, <1>5, MarksSame, FlagsSame, StepKeeps, Zenon
  <1>. HIDE DEF whole
  <1>6. CASE leaves' = Put(t, whole) /\ Fail(t, "NeedRestart")
    BY <1>1, <1>3, <1>6, LeafKeeps, Zenon DEF Fail
  <1>7. CASE Finish(t, Put(t, whole))
    BY <1>1, <1>3, <1>7, LeafKeeps, Zenon DEF Finish
  <1>8. CASE leaves' = [leaves EXCEPT ![c] = whole] /\ Step(t, "leaf")
    <2>1. FlagsKept
      BY <1>2, <1>3, <1>8, FlagsEdit, Zenon
    <2>. QED  BY <1>1, <1>2, <1>8, <2>1, ToLeafKeeps, Zenon
  <1>. QED  BY <1>2, <1>4, <1>5, <1>6, <1>7, <1>8, Zenon DEF Merge, whole

\* A scan returns the records of a leaf.
LEMMA ScanKeeps ==
  ASSUME IInv, IInv', RInv, NEW t \in Threads, Scan(t)
  PROVE  RInv'
  <1>. DEFINE c == th[t].cur.id
              l == leaves[c]
              h == th[t].held
  <1>1. th[t].pc = "leaf" /\ th[t].pc \in AtLeaf /\ UNCHANGED <<root, nodes>>
    BY Zenon DEF Scan, AtLeaf
  <1>2. CASE begin_dealloc(t, l.page)
    BY <1>1, <1>2, BeginDeallocKeeps, Zenon
  <1>3. CASE GiveUp(t, "Locked")
    BY <1>1, <1>3, GiveUpKeeps, Zenon
  <1>4. CASE /\ leaves' = IF h = None THEN leaves ELSE [leaves EXCEPT ![h] = Unlocked(leaves[h], t)]
             /\ Go(t, [Idle EXCEPT !.pc = "root", !.op = "scan", !.key = l.hi, !.must = th[t].must,
                                   !.out = th[t].out \cup RecordsFrom(l, th[t].key), !.held = c])
    <2>. DEFINE r == [Idle EXCEPT !.pc = "root", !.op = "scan", !.key = l.hi, !.must = th[t].must,
                                  !.out = th[t].out \cup RecordsFrom(l, th[t].key), !.held = c]
    <2>1. r.pc = "root" /\ Go(t, r)
      BY <1>4, Zenon DEF Idle
    <2>. HIDE DEF r
    <2>2. Len(leaves') = Len(leaves)
      BY <1>4, Now, ExceptIsSeq, Zenon
    <2>3. \A j \in 1..Len(leaves) : leaves'[j] = leaves[j] \/ leaves'[j] = Unlocked(leaves[j], t)
      BY <1>4, Now, Zenon
    <2>4. \A j \in 1..Len(leaves) : Unlocked(leaves[j], t).flag = leaves[j].flag
      BY Now, UnlockedFlag, Zenon
    <2>5. FlagsKept
      BY <2>2, <2>3, <2>4, Zenon DEF FlagsKept
    <2>. QED  BY <1>1, <2>1, <2>5, MarksSame, ElsewhereKeeps, Zenon
  <1>5. CASE Go(t, [th[t] EXCEPT !.pc = "end", !.out = th[t].out \cup RecordsFrom(l, th[t].key)])
             /\ leaves' = leaves
    <2>. DEFINE r == [th[t] EXCEPT !.pc = "end", !.out = th[t].out \cup RecordsFrom(l, th[t].key)]
    <2>1. r.pc = "end"
      BY ThreadFields, Zenon DEF Fields
    <2>. QED  BY <1>1, <1>5, <2>1, QuietKeeps, Zenon
  <1>. QED  BY <1>2, <1>3, <1>4, <1>5, Zenon DEF Scan

\* A scan ends.
LEMMA EndScanKeeps ==
  ASSUME IInv, IInv', RInv, NEW t \in Threads, EndScan(t)
  PROVE  RInv'
  <1>1. /\ leaves' = [i \in 1..Len(leaves) |-> Unlocked(leaves[i], t)] /\ Go(t, Idle)
        /\ UNCHANGED <<root, nodes>>
    BY Now, Zenon DEF EndScan, Finish
  <1>2. Len(leaves') = Len(leaves)
    BY <1>1, Now, MapIsSeq, Zenon
  <1>3. FlagsKept
    BY <1>1, <1>2, Now, UnlockedFlag, Zenon DEF FlagsKept
  <1>. QED  BY <1>1, <1>3, MarksSame, FailKeeps, Zenon

\* The records of a mini page go to both halves of its leaf.
LEMMA MoveRecordsKeeps ==
  ASSUME IInv, IInv', RInv, NEW t \in Threads, MoveRecords(t)
  PROVE  RInv'
  <1>. DEFINE c == th[t].cur.id
              l == leaves[c]
              left == [MergeInto(l, Below(l.mini, l.hi)) EXCEPT !.mini = {}, !.page = None]
              a == Unlocked(left, t)
              b(m) == Unlocked(MergeInto(m, From(l.mini, l.hi)), t)
              one == [leaves EXCEPT ![c] = a]
              ls == [one EXCEPT ![th[t].new] = b(leaves[th[t].new])]
  <1>1. /\ th[t].pc \in AtLeaf /\ UNCHANGED <<root, nodes>> /\ leaves' = ls
        /\ Go(t, Idle) \/ Fail(t, "NeedRestart")
    BY Zenon DEF MoveRecords, AtLeaf, Finish
  <1>2. c \in 1..Len(leaves) /\ LeafOK(l) /\ DOMAIN leaves = 1..Len(leaves)
    BY <1>1, CurIsLeaf, Now, Zenon
  <1>3. a.flag = l.flag
    BY <1>2, Zenon DEF LeafOK, MergeInto, Unlocked
  <1>4. \A m : LeafOK(m) => b(m).flag = m.flag
    BY Zenon DEF LeafOK, MergeInto, Unlocked
  <1>. HIDE DEF a, b
  <1>5. IsSeq(one) /\ Len(one) = Len(leaves)
    BY Now, ExceptIsSeq, Zenon
  <1>6. Len(ls) = Len(leaves)
    <2>. HIDE DEF one
    <2>. QED  BY <1>5, ExceptIsSeq, Zenon
  <1>7. \A j \in 1..Len(leaves) :
          ls[j] = IF j = th[t].new THEN b(leaves[j]) ELSE IF j = c THEN a ELSE leaves[j]
    BY <1>2, Zenon
  <1>. HIDE DEF ls
  <1>8. FlagsKept
    BY <1>1, <1>2, <1>3, <1>4, <1>6, <1>7, Now, Zenon DEF FlagsKept
  <1>. QED  BY <1>1, <1>8, MarksSame, FailKeeps, Zenon DEF Fail

\* What splits do to the marks of nodes.
SameMark(m, n) == m.isroot = n.isroot /\ m.v = n.v

\* insert() leaves the mark and the version.
LEMMA InsertMark ==
  ASSUME NEW n, NEW ns, NEW ls, NodeOK(n, ns, ls), NEW k, NEW kid
  PROVE  SameMark(insert(n, k, kid), n)
  BY Zenon DEF NodeOK, insert, SameMark

\* So does a request to be split.
LEMMA FlagMark ==
  ASSUME NEW n, NEW ns, NEW ls, NodeOK(n, ns, ls)
  PROVE  SameMark([n EXCEPT !.flag = TRUE], n)
  BY Zenon DEF NodeOK, SameMark

\* split() leaves them to the left half, or takes the mark from it; the right half has none.
LEMMA SplitMark ==
  ASSUME NEW n, NEW ns, NEW ls, NodeOK(n, ns, ls)
  PROVE  /\ SameMark(SplitLeft(n), n) /\ ~SplitRight(n).isroot
         /\ ~NotRoot(n).isroot /\ NotRoot(n).v = n.v
  <1>1. SameMark(SplitLeft(n), n)
    BY Zenon DEF NodeOK, SplitLeft, SameMark
  <1>2. ~NotRoot(n).isroot /\ NotRoot(n).v = n.v
    BY Zenon DEF NodeOK, NotRoot, SplitLeft
  <1>3. ~SplitRight(n).isroot
    BY Zenon DEF SplitRight, NewNode
  <1>. QED  BY <1>1, <1>2, <1>3, Zenon

\* Nodes that are written keep their marks, and a new one has none.
LEMMA MarksEdit ==
  ASSUME IInv, Len(nodes') \in {Len(nodes), Len(nodes) + 1},
         Len(nodes') = Len(nodes) + 1 => ~nodes'[Len(nodes) + 1].isroot,
         \A i \in 1..Len(nodes) : /\ nodes'[i].isroot = nodes[i].isroot
                                  /\ nodes'[i].v \in {nodes[i].v, nodes[i].v + 2}
  PROVE  MarksKept
  <1>1. \A i \in 1..Len(nodes) : nodes[i].v \in Nat
    BY Now, Zenon
  <1>2. \A i \in 1..Len(nodes) : nodes[i].v <= nodes'[i].v
    <2>1. \A v \in Nat : v <= v /\ v <= v + 2
      OBVIOUS
    <2>. QED  BY <1>1, <2>1, Zenon
  <1>3. /\ Len(nodes) <= Len(nodes')
        /\ \A i \in 1..Len(nodes') :
             i \in 1..Len(nodes) \/ (i = Len(nodes) + 1 /\ Len(nodes') = Len(nodes) + 1)
    BY Now
  <1>. QED  BY <1>2, <1>3, Zenon DEF MarksKept

\* A number is not the next one.
LEMMA NotNext ==
  ASSUME NEW n \in Nat
  PROVE  n # n + 1
  OBVIOUS

\* A split of a node below another one.
LEMMA SplitNodeKeeps ==
  ASSUME IInv, IInv', RInv, NEW t \in Threads, SplitNode(t)
  PROVE  RInv'
  <1>. DEFINE c == th[t].cur.id
              p == th[t].par
              a == insert(nodes[p], get_split_key(nodes[c]), Inner(Len(nodes) + 1))
              b == SplitLeft(nodes[c])
              d == SplitRight(nodes[c])
              n == [nodes[p] EXCEPT !.flag = TRUE]
  <1>1. /\ th[t].pc = "split_node" /\ th[t].pc \in AtNode /\ root' = root /\ leaves' = leaves
        /\ Step(t, "drop_node")
    BY Zenon DEF SplitNode, AtNode
  <1>2. /\ IsSeq(nodes) /\ c \in 1..Len(nodes) /\ p \in 1..Len(nodes)
        /\ NodeOK(nodes[c], nodes, leaves) /\ NodeOK(nodes[p], nodes, leaves)
    <2>1. p # None
      BY <1>1, Zenon DEF IInv, ThreadOK, GuardOK
    <2>. QED  BY <1>1, <2>1, CurIsNode, HasParent, Now, Zenon
  <1>3. SameMark(a, nodes[p]) /\ SameMark(b, nodes[c]) /\ SameMark(n, nodes[p]) /\ ~d.isroot
    <2>1. SameMark(a, nodes[p])
      BY <1>2, InsertMark, Zenon
    <2>2. SameMark(n, nodes[p])
      BY <1>2, FlagMark, Zenon
    <2>3. SameMark(b, nodes[c]) /\ ~d.isroot
      BY <1>2, SplitMark, Zenon
    <2>. QED  BY <2>1, <2>2, <2>3, Zenon
  <1>. HIDE DEF a, b, d, n
  <1>4. CASE nodes' = [nodes EXCEPT ![p] = n]
    <2>1. Replaced(nodes', nodes, p, n)
      BY <1>2, <1>4, ReplacedOK, Zenon
    <2>2. /\ Len(nodes') = Len(nodes)
          /\ \A i \in 1..Len(nodes) : nodes'[i] = IF i = p THEN n ELSE nodes[i]
      BY <2>1, Zenon DEF Replaced
    <2>3. Len(nodes) # Len(nodes) + 1
      BY Now, NotNext, Zenon
    <2>4. MarksKept
      BY <1>3, <2>2, <2>3, MarksEdit, Zenon DEF SameMark
    <2>. QED  BY <1>1, <2>4, FlagsSame, StepKeeps, Zenon
  <1>5. CASE nodes' = Append([nodes EXCEPT ![p] = a, ![c] = b], d)
    <2>1. TwoAndOne(nodes', nodes, p, a, c, b, d)
      BY <1>2, <1>5, TwoAndOneOK, Zenon
    <2>2. /\ Len(nodes') = Len(nodes) + 1 /\ nodes'[Len(nodes) + 1] = d
          /\ \A i \in 1..Len(nodes) : nodes'[i] = IF i = c THEN b ELSE IF i = p THEN a ELSE nodes[i]
      BY <2>1, Zenon DEF TwoAndOne
    <2>3. MarksKept
      BY <1>3, <2>2, MarksEdit, Zenon DEF SameMark
    <2>. QED  BY <1>1, <2>3, FlagsSame, StepKeeps, Zenon
  <1>. QED  BY <1>4, <1>5, Zenon DEF SplitNode, a, b, d, n

\* A split of a leaf below a node.
LEMMA SplitLeafKeeps ==
  ASSUME IInv, IInv', RInv, NEW t \in Threads, SplitLeaf(t)
  PROVE  RInv'
  <1>. DEFINE c == th[t].cur.id
              p == th[t].par
              l == leaves[c]
              k == SplitKey(l.base \cup l.mini)
              a == [l EXCEPT !.base = Below(l.base, k), !.hi = k]
              d == NewLeaf(From(l.base, k), l.hi, t)
              n == insert(nodes[p], k, Leaf(Len(leaves) + 1))
  <1>1. /\ th[t].pc = "split_leaf" /\ th[t].pc \in AtLeaf /\ root' = root
        /\ IsSeq(nodes) /\ IsSeq(leaves) /\ Len(leaves) \in Nat /\ DOMAIN nodes = 1..Len(nodes)
    BY Now, Zenon DEF SplitLeaf, AtLeaf
  <1>2. p \in 1..Len(nodes) /\ NodeOK(nodes[p], nodes, leaves) /\ LeafOK(l) /\ c \in 1..Len(leaves)
    <2>1. p # None
      BY <1>1, Zenon DEF IInv, ThreadOK, GuardOK
    <2>. QED  BY <1>1, <2>1, HasParent, Now, CurIsLeaf, Zenon
  <1>3. Len(nodes) # Len(nodes) + 1
    BY Now, NotNext, Zenon
  <1>4. CASE /\ GiveUp(t, "NeedRestart") /\ nodes' = [Bumped({p}) EXCEPT ![p].flag = TRUE]
    <2>. DEFINE f == Bumped({p})
                e == [nodes[p] EXCEPT !.v = nodes[p].v + 2]
                m == [e EXCEPT !.flag = TRUE]
    <2>1. /\ f = [j \in 1..Len(nodes) |-> f[j]] /\ f[p] = e
          /\ \A j \in 1..Len(nodes) : j # p => f[j] = nodes[j]
      BY <1>1, <1>2, Zenon DEF Bumped
    <2>2. m.isroot = nodes[p].isroot /\ m.v = nodes[p].v + 2
      BY <1>2, Zenon DEF NodeOK
    <2>3. nodes' = [f EXCEPT ![p] = m]
      <3>1. f[p] = e
        BY <2>1, Zenon
      <3>. HIDE DEF f, e
      <3>. QED  BY <1>4, <3>1, Zenon DEF f
    <2>. HIDE DEF f, m, e
    <2>4. IsSeq(f) /\ Len(f) = Len(nodes)
      BY <2>1, Now, MapIsSeq, Zenon
    <2>5. Replaced(nodes', f, p, m)
      BY <2>3, <2>4, ReplacedOK, Zenon
    <2>6. /\ Len(nodes') = Len(nodes)
          /\ \A j \in 1..Len(nodes) : nodes'[j] = IF j = p THEN m ELSE nodes[j]
      BY <2>1, <2>4, <2>5, Zenon DEF Replaced
    <2>7. MarksKept
      BY <1>3, <2>2, <2>6, MarksEdit, Zenon
    <2>8. FlagsKept
      BY <1>2, <1>4, LeaveFlags, Zenon DEF GiveUp
    <2>. QED  BY <1>1, <1>4, <2>7, <2>8, FailKeeps, Zenon DEF GiveUp, Fail
  <1>5. CASE /\ nodes' = [nodes EXCEPT ![p] = n] /\ leaves' = Append([leaves EXCEPT ![c] = a], d)
             /\ Go(t, [th[t] EXCEPT !.pc = "drop_parent", !.new = Len(leaves) + 1])
    <2>. DEFINE r == [th[t] EXCEPT !.pc = "drop_parent", !.new = Len(leaves) + 1]
    <2>1. SameMark(n, nodes[p])
      BY <1>2, InsertMark, Zenon
    <2>2. ~d.flag
      BY Zenon DEF NewLeaf
    <2>3. a.flag = l.flag
      <3>. HIDE DEF l, k
      <3>. QED  BY <1>2, Zenon DEF LeafOK
    <2>4. r.pc = "drop_parent"
      BY ThreadFields, Zenon DEF Fields
    <2>. HIDE DEF a, d, n, k
    <2>5. OneAndOne(leaves', leaves, c, a, d)
      BY <1>1, <1>5, OneAndOneOK, Zenon
    <2>6. Replaced(nodes', nodes, p, n)
      BY <1>1, <1>5, ReplacedOK, Zenon
    <2>7. MarksKept
      <3>1. /\ Len(nodes') = Len(nodes)
            /\ \A i \in 1..Len(nodes) : nodes'[i] = IF i = p THEN n ELSE nodes[i]
        BY <2>6, Zenon DEF Replaced
      <3>. QED  BY <1>3, <2>1, <3>1, MarksEdit, Zenon DEF SameMark
    <2>8. FlagsKept
      <3>1. /\ Len(leaves') = Len(leaves) + 1 /\ leaves'[Len(leaves) + 1] = d
            /\ \A i \in 1..Len(leaves) : leaves'[i] = IF i = c THEN a ELSE leaves[i]
        BY <2>5, Zenon DEF OneAndOne
      <3>2. \A i \in 1..(Len(leaves) + 1) : i \in 1..Len(leaves) \/ i = Len(leaves) + 1
        BY <1>1, OneMore, Zenon
      <3>. QED  BY <2>2, <2>3, <3>1, <3>2, Zenon DEF FlagsKept
    <2>. QED  BY <1>1, <1>5, <2>4, <2>7, <2>8, ElsewhereKeeps, Zenon
  <1>. QED  BY <1>4, <1>5, Zenon DEF SplitLeaf

\* A split of the root node: the new root is the only one marked, and nobody else is
\* at the old one as the root with a version that still counts.
LEMMA SplitRootKeeps ==
  ASSUME IInv, IInv', RInv, NEW t \in Threads, SplitRoot(t)
  PROVE  RInv'
  <1>. DEFINE c == th[t].cur.id
              L == Len(nodes)
              a == NotRoot(nodes[c])
              d == SplitRight(nodes[c])
              e == NewNode(2, TRUE, <<get_split_key(nodes[c])>>, <<th[t].cur, Inner(L + 1)>>)
              r == [th[t] EXCEPT !.pc = "drop_node", !.par = L + 1 + 1]
  <1>1. /\ th[t].pc = "split_root" /\ th[t].pc \in AtNode /\ leaves' = leaves
        /\ nodes' = [nodes EXCEPT ![c] = a] \o <<d, e>> /\ root' = Inner(L + 1 + 1) /\ Go(t, r)
    BY Zenon DEF SplitRoot, AtNode
  <1>2. L \in Nat /\ L + 1 + 1 = L + 2 /\ IsSeq(nodes)
    <2>1. L \in Nat /\ IsSeq(nodes)
      BY Now, Zenon
    <2>2. \A n \in Nat : n + 1 + 1 = n + 2
      OBVIOUS
    <2>. QED  BY <2>1, <2>2, Zenon
  <1>3. /\ c \in 1..L /\ NodeOK(nodes[c], nodes, leaves) /\ Guards(t) = {c}
        /\ is_locked(nodes[c].v) /\ root = th[t].cur /\ root = Inner(c) /\ ~root.leaf
    <2>1. Guards(t) = {c} /\ root = th[t].cur
      BY <1>1, Zenon DEF Guards, RInv, AtRoot
    <2>2. c \in 1..L /\ ~th[t].cur.leaf /\ PageOK(th[t].cur, nodes, leaves)
      BY <1>1, CurIsNode, Zenon
    <2>. QED  BY <2>1, <2>2, Now, PageIs, Zenon DEF IInv, ThreadOK, GuardOK
  <1>4. ~a.isroot /\ a.v = nodes[c].v /\ ~d.isroot /\ e.isroot
    <2>1. ~a.isroot /\ a.v = nodes[c].v /\ ~d.isroot
      BY <1>3, SplitMark, Zenon
    <2>. QED  BY <2>1, Zenon DEF NewNode
  <1>5. r.pc = "drop_node"
    BY ThreadFields, Zenon DEF Fields
  <1>. HIDE DEF a, d, e, r
  <1>6. OneAndTwo(nodes', nodes, c, a, d, e)
    BY <1>1, <1>2, OneAndTwoOK, Zenon
  <1>7. /\ Len(nodes') = L + 2 /\ nodes'[L + 1] = d /\ nodes'[L + 2] = e
        /\ \A m \in 1..L : nodes'[m] = IF m = c THEN a ELSE nodes[m]
    BY <1>6, Zenon DEF OneAndTwo
  <1>8. \A i, j : Inner(i) = Inner(j) => i = j
    BY OnePage, Zenon
  <1>9. RootIsMarked'
    <2>1. DOMAIN nodes' = 1..(L + 2) /\ DOMAIN leaves' = DOMAIN leaves
      BY <1>1, <1>7, SeqDomain, Zenon DEF IInv, TreeOK
    <2>2. /\ L + 2 \notin 1..L /\ \A j \in 1..(L + 2) : j \in 1..L \/ j = L + 1 \/ j = L + 2
          /\ L + 1 # L + 2
      BY <1>2
    <2>3. \A i \in 1..L : ~nodes'[i].isroot /\ root' # Inner(i)
      <3>1. \A i \in 1..L : nodes[i].isroot => i = c
        BY <1>3, <1>8, Now, Zenon DEF RInv, RootIsMarked
      <3>2. \A i \in 1..L : ~nodes'[i].isroot
        BY <1>4, <1>7, <3>1, Zenon
      <3>. QED  BY <1>1, <1>2, <1>8, <2>2, <3>2, Zenon
    <2>4. \A i \in DOMAIN nodes' : nodes'[i].isroot <=> root' = Inner(i)
      <3>1. root' = Inner(L + 2)
        BY <1>1, <1>2, Zenon
      <3>2. nodes'[L + 2].isroot /\ ~nodes'[L + 1].isroot
        BY <1>4, <1>7, Zenon
      <3>3. root' # Inner(L + 1)
        BY <1>8, <2>2, <3>1, Zenon
      <3>. QED  BY <2>1, <2>2, <2>3, <3>1, <3>2, <3>3, Zenon
    <2>5. \A i \in DOMAIN leaves : ~leaves[i].flag
      BY <1>3, RootPage, Zenon DEF RInv, RootIsMarked
    <2>. QED  BY <1>1, <2>1, <2>4, <2>5, Zenon DEF RootIsMarked
  <1>10. AtRoot(t)'
    BY <1>1, <1>5, IsElsewhere, Zenon
  <1>11. ASSUME NEW u \in Threads \ {t} PROVE AtRoot(u)'
    <2>1. th'[u] = th[u] /\ AtRoot(u) /\ ReadOK(u) /\ Guards(u) \cap {c} = {}
      BY <1>1, <1>3, Zenon DEF Go, IInv, ThreadOK, RInv, Exclusive
    <2>2. CASE th[u].pc = "upgrade_node"
      <3>1. th[u].cur.id \in 1..L /\ ~is_locked(th[u].curv)
        BY <2>1, <2>2, CurIsNode, Zenon DEF AtNode, ReadOK, Version
      <3>2. nodes'[th[u].cur.id].v = nodes[th[u].cur.id].v
        BY <1>4, <1>7, <3>1, Zenon
      <3>3. ~(th[u].par = None /\ nodes'[th[u].cur.id].v = th[u].curv)
        BY <1>3, <2>1, <2>2, <3>1, <3>2, Zenon DEF AtRoot
      <3>. QED  BY <2>1, <2>2, <3>3, Zenon DEF AtRoot
    <2>3. CASE th[u].pc = "split_root"
      <3>1. root = th[u].cur /\ Guards(u) = {th[u].cur.id}
        BY <2>1, <2>3, Zenon DEF AtRoot, Guards
      <3>. QED  BY <1>3, <2>1, <3>1, Zenon
    <2>4. CASE th[u].pc = "leaf" /\ th[u].par = None
      <3>1. root = th[u].cur /\ th[u].cur.leaf
        BY <2>1, <2>4, CurIsLeaf, Zenon DEF AtRoot, AtLeaf
      <3>. QED  BY <1>3, <3>1, Zenon
    <2>. QED  BY <2>1, <2>2, <2>3, <2>4, Zenon DEF AtRoot
  <1>. QED  BY <1>9, <1>10, <1>11, Zenon DEF RInv

\* A split of a leaf that is the root: no flag is left, and nobody else is in the tree
\* with that leaf.
LEMMA RootLeafSplitKeeps ==
  ASSUME IInv, IInv', RInv, NEW t \in Threads, th[t].pc = "try_split_leaf", root = th[t].cur,
         NEW a, NEW d, NEW e, ~a.flag, ~d.flag, e.isroot, NEW error,
         OneAndOne(leaves', leaves, th[t].cur.id, a, d),
         Len(nodes') = Len(nodes) + 1, nodes'[Len(nodes) + 1] = e,
         root' = Inner(Len(nodes) + 1), Fail(t, error)
  PROVE  RInv'
  <1>. DEFINE c == th[t].cur.id
              M == Len(leaves)
  <1>1. th[t].pc \in AtLeaf
    BY Zenon DEF AtLeaf
  <1>2. /\ c \in 1..M /\ leaves[c].x = t /\ root.leaf /\ root = Leaf(c) /\ LeafOK(leaves[c])
        /\ M \in Nat /\ DOMAIN leaves = 1..M
    BY <1>1, CurIsLeaf, PageIs, Now, Zenon DEF IInv, ThreadOK, LatchOK
  <1>3. Len(nodes) = 0
    BY <1>2, Zenon DEF IInv, TreeOK
  <1>4. Len(nodes') = 1 /\ nodes'[1] = e /\ root' = Inner(1)
    <2>1. Len(nodes) + 1 = 1
      BY <1>3
    <2>. QED  BY <2>1, Zenon
  <1>5. /\ Len(leaves') = M + 1 /\ leaves'[M + 1] = d
        /\ \A i \in 1..M : leaves'[i] = IF i = c THEN a ELSE leaves[i]
    BY Zenon DEF OneAndOne
  <1>6. \A i, j : Leaf(i) = Leaf(j) => i = j
    BY OnePage, Zenon
  <1>7. RootIsMarked'
    <2>1. DOMAIN nodes' = 1..1 /\ DOMAIN leaves' = 1..(M + 1)
      BY <1>4, <1>5, SeqDomain, Zenon DEF IInv, TreeOK
    <2>2. (\A i \in 1..1 : i = 1) /\ \A i \in 1..(M + 1) : i \in 1..M \/ i = M + 1
      BY <1>2, OneMore
    <2>3. \A i \in 1..M : leaves[i].flag => i = c
      BY <1>2, <1>6, Zenon DEF RInv, RootIsMarked
    <2>4. \A i \in DOMAIN leaves' : ~leaves'[i].flag
      BY <1>5, <2>1, <2>2, <2>3, Zenon
    <2>5. \A i \in DOMAIN nodes' : nodes'[i].isroot /\ root' = Inner(i)
      BY <1>4, <2>1, <2>2, Zenon
    <2>. QED  BY <2>4, <2>5, Zenon DEF RootIsMarked
  <1>8. AtRoot(t)'
    <2>1. Again(th[t], error).pc \notin {"upgrade_node", "split_root", "leaf"}
      BY StartsOver, Zenon
    <2>. QED  BY <2>1, IsElsewhere, Zenon DEF Fail
  <1>9. ASSUME NEW u \in Threads \ {t} PROVE AtRoot(u)'
    <2>1. th'[u] = th[u] /\ AtRoot(u) /\ ThreadType(u) /\ LatchOK(u)
      BY Zenon DEF Fail, Go, IInv, ThreadOK, RInv
    <2>2. ~(th[u].pc \in AtNode)
      <3>1. \A i : i \notin 1..0
        OBVIOUS
      <3>. QED  BY <1>3, <3>1, CurIsNode, Zenon
    <2>3. ~(th[u].pc = "leaf" /\ th[u].par = None)
      <3>. SUFFICES ASSUME th[u].pc = "leaf", th[u].par = None PROVE FALSE
        BY Zenon
      <3>1. th[u].cur.id = c
        BY <2>1, Zenon DEF AtRoot
      <3>2. th[u].op \in Ops
        BY <2>1, Zenon DEF ThreadType
      <3>3. leaves[c].x = u \/ u \in leaves[c].s
        BY <2>1, <3>1, <3>2, Zenon DEF LatchOK, Ops
      <3>4. leaves[c].s = {}
        BY <1>2, ThreadsAssumption, Zenon DEF LeafOK
      <3>. QED  BY <1>2, <3>3, <3>4, Zenon
    <2>. QED  BY <2>1, <2>2, <2>3, Zenon DEF AtRoot, AtNode
  <1>. QED  BY <1>7, <1>8, <1>9, Zenon DEF RInv

\* try_split_leaf, which goes on without a split unless the leaf is flagged.
LEMMA TrySplitLeafKeeps ==
  ASSUME IInv, IInv', RInv, NEW t \in Threads, TrySplitLeaf(t)
  PROVE  RInv'
  <1>. DEFINE i == th[t].cur.id
              k == SplitKey(leaves[i].base)
              a == NewLeaf(Below(leaves[i].base, k), k, None)
              d == NewLeaf(From(leaves[i].base, k), leaves[i].hi, None)
              e == NewNode(0, TRUE, <<k>>, <<th[t].cur, Leaf(Len(leaves) + 1)>>)
  <1>1. th[t].pc = "try_split_leaf" /\ th[t].pc \in AtLeaf
    BY Zenon DEF TrySplitLeaf, AtLeaf
  <1>2. UnlockLeaf(t, i) => FlagsKept
    BY <1>1, CurIsLeaf, LeaveFlags, Zenon
  <1>3. CASE UnlockLeaf(t, i) /\ Fail(t, "Locked") /\ UNCHANGED <<root, nodes>>
    BY <1>2, <1>3, MarksSame, FailKeeps, Zenon DEF Fail
  <1>4. CASE UnlockLeaf(t, i) /\ Step(t, "lock") /\ UNCHANGED <<root, nodes>>
    BY <1>2, <1>4, MarksSame, StepKeeps, Zenon
  <1>5. CASE /\ check_parent(th[t]) /\ th[t].par = None
             /\ leaves' = Append([leaves EXCEPT ![i] = a], d) /\ nodes' = Append(nodes, e)
             /\ root' = Inner(Len(nodes) + 1) /\ Fail(t, "NeedRestart")
    <2>1. root = th[t].cur
      BY <1>5, Zenon DEF check_parent
    <2>2. ~a.flag /\ ~d.flag /\ e.isroot
      BY Zenon DEF NewLeaf, NewNode
    <2>3. IsSeq(leaves) /\ IsSeq(nodes)
      BY Now, Zenon
    <2>. HIDE DEF a, d, e, k
    <2>4. OneAndOne(leaves', leaves, i, a, d)
      BY <1>5, <2>3, OneAndOneOK, Zenon
    <2>5. Len(nodes') = Len(nodes) + 1 /\ nodes'[Len(nodes) + 1] = e
      BY <1>5, <2>3, AppendIsSeq, Zenon
    <2>. QED  BY <1>1, <1>5, <2>1, <2>2, <2>4, <2>5, RootLeafSplitKeeps, Zenon
  <1>. QED  BY <1>3, <1>4, <1>5, Zenon DEF TrySplitLeaf

\* Every step keeps its root marked.
LEMMA NextMarked == IInv /\ IInv' /\ RInv /\ [Next]_vars => RInv'
  <1>. SUFFICES ASSUME IInv, IInv', RInv, [Next]_vars PROVE RInv'
    BY Zenon
  <1>1. ASSUME UNCHANGED vars PROVE RInv'
    <2>1. UNCHANGED <<root, nodes, leaves, th>>
      BY <1>1, Zenon DEF vars
    <2>. QED  BY <2>1 DEF RInv, RootIsMarked, AtRoot
  <1>2. CASE Stuck
    BY <1>1, <1>2, Zenon DEF Stuck
  <1>3. ASSUME NEW t \in Threads,
               \/ BeginInsert(t) \/ BeginRead(t) \/ BeginScan(t) \/ BeginEvict(t)
        PROVE  RInv'
    BY <1>3, BeginKeeps, Zenon
  <1>4. ASSUME NEW t \in Threads,
               \/ Acquire(t) \/ get_root_page(t) \/ LockToSplit(t) \/ TrySplitLeaf(t)
               \/ TrySplitInner(t) \/ UpgradeNode(t) \/ UpgradeParent(t) \/ SplitNode(t)
               \/ SplitRoot(t) \/ DropNode(t) \/ try_read(t) \/ ReadChild(t)
        PROVE  RInv'
    BY <1>4, AcquireKeeps, GetRootKeeps, LockToSplitKeeps, TrySplitLeafKeeps, TrySplitInnerKeeps,
       UpgradeNodeKeeps, UpgradeParentKeeps, SplitNodeKeeps, SplitRootKeeps, DropNodeKeeps,
       TryReadKeeps, ReadChildKeeps, Zenon
  <1>5. ASSUME NEW t \in Threads,
               \/ LockLeaf(t) \/ CheckLeaf(t) \/ InsertRoot(t) \/ InsertMini(t) \/ Read(t)
               \/ EvictionCallback(t) \/ Merge(t) \/ UpgradeToSplit(t) \/ SplitLeaf(t)
               \/ DropParent(t) \/ MoveRecords(t) \/ Scan(t) \/ EndScan(t)
        PROVE  RInv'
    BY <1>5, LockLeafKeeps, CheckLeafKeeps, InsertRootKeeps, InsertMiniKeeps, ReadLeafKeeps,
       EvictionCallbackKeeps, MergeKeeps, UpgradeToSplitKeeps, SplitLeafKeeps, DropParentKeeps,
       MoveRecordsKeeps, ScanKeeps, EndScanKeeps, Zenon
  <1>. QED  BY <1>1, <1>2, <1>3, <1>4, <1>5, Zenon DEF Next

=============================================================================
