-------------------------------- MODULE Tree --------------------------------
(***************************************************************************)
(* Threads in the tree: the descent through inner nodes that are read      *)
(* without a lock, the splits of leaves and inner nodes, the eviction of a *)
(* mini page and the range scan (src/src/tree.rs, src/src/range_scan.rs,   *)
(* src/src/nodes/inner_node.rs, src/src/utils/inner_lock.rs and the merge  *)
(* of src/src/mini_page_op.rs), for a tree on disk.                        *)
(*                                                                         *)
(* An inner node has a version: try_read() remembers it, check_version()   *)
(* and upgrade() compare it, the second bit is the write lock.  A node     *)
(* read while another thread writes it may yield a wrong child.  Leaves    *)
(* are locked by their latch, whose exclusion RwLock proves.               *)
(*                                                                         *)
(* A leaf is the keys on its base page and on its mini page, its right     *)
(* fence and its split flag; LeafPage has the pages in bytes and the       *)
(* promotions of reads, which reach the tree through the same merge.       *)
(***************************************************************************)
EXTENDS Integers, Sequences, FiniteSetsExt, Functions

CONSTANTS
  Threads,
  Keys,        \* a set of positive numbers
  ReadKeys,    \* those of them that reads ask for
  RootCap,     \* records of a leaf that is the root, which has no fences,
  LeafCap,     \* of a base page below it and of a mini page
  MiniCap,
  InnerCap,    \* children of an inner node
  Pages,       \* the mini pages the circular buffer has room for
  MaxVersion,  \* the bound of the u64 versions: upgrade() fails from here on
  Starts       \* the trees to begin with, and the keys to insert into each

None == 0

VARIABLES
  root,    \* root_page_id
  nodes,   \* the inner nodes
  leaves,  \* the page table
  handle,  \* who holds the dealloc handle of a mini page
  th,      \* the threads
  todo,    \* the keys that may still be inserted
  done     \* the keys whose insert has returned

keys == <<todo, done>>
vars == <<root, nodes, leaves, handle, th, keys>>

-----------------------------------------------------------------------------
Leaf(i) == [leaf |-> TRUE, id |-> i]
Inner(i) == [leaf |-> FALSE, id |-> i]

NewNode(v, isroot, seps, kids) ==
  [v |-> v, isroot |-> isroot, flag |-> FALSE, seps |-> seps, kids |-> kids]
NewLeaf(base, hi, x) ==
  [base |-> base, mini |-> {}, page |-> None, hi |-> hi, flag |-> FALSE, x |-> x, s |-> {}]

is_locked(v) == (v \div 2) % 2 = 1

\* InnerNode::lower_bound, as a position among the children.
lower_bound(n, k) == 1 + Cardinality({j \in DOMAIN n.seps : n.seps[j] <= k})

\* InnerNode::insert of a new separator with the child to its right: the entries
\* from its place on move up by one.
InsertAt(s, p, e) == SubSeq(s, 1, p - 1) \o <<e>> \o SubSeq(s, p, Len(s))
insert(n, k, kid) ==
  [n EXCEPT !.seps = InsertAt(@, lower_bound(n, k), k),
            !.kids = InsertAt(@, lower_bound(n, k) + 1, kid)]
have_space_for_one_less(n) == Len(n.kids) <= InnerCap
have_space_for(n) == Len(n.kids) < InnerCap

\* InnerNode::split: what stays, the separator that moves up and the new node.
SplitPos(n) == Len(n.kids) - Len(n.kids) \div 2
get_split_key(n) == n.seps[SplitPos(n)]
SplitLeft(n) == [n EXCEPT !.flag = FALSE, !.seps = SubSeq(@, 1, SplitPos(n) - 1),
                          !.kids = SubSeq(@, 1, SplitPos(n))]
SplitRight(n) == NewNode(0, FALSE, SubSeq(n.seps, SplitPos(n) + 1, Len(n.seps)),
                         SubSeq(n.kids, SplitPos(n) + 1, Len(n.kids)))

\* The shape of a tree: every child is a page of it, and a node that asks to be split
\* has something to split; a leaf that is the root is the only page and has no mini
\* page.
IsSeq(s) == s \in Seq({s[i] : i \in DOMAIN s})
PageOK(p, ns, ls) ==
  /\ p \in [leaf : BOOLEAN, id : {p.id}]
  /\ p.id \in 1..Len(IF p.leaf THEN ls ELSE ns)
NodeOK(n, ns, ls) ==
  /\ n \in [v : Nat, isroot : {n.isroot}, flag : BOOLEAN, seps : {n.seps}, kids : {n.kids}]
  /\ n.v % 2 = 0
  /\ IsSeq(n.seps) /\ IsSeq(n.kids) /\ Len(n.kids) = Len(n.seps) + 1
  /\ n.flag => Len(n.kids) >= 2
  /\ \A j \in 1..Len(n.kids) : PageOK(n.kids[j], ns, ls)
LeafOK(l) ==
  /\ l \in [base : {l.base}, mini : {l.mini}, page : {l.page}, hi : {l.hi}, flag : {l.flag},
            x : {l.x}, s : {l.s}]
  /\ l.x # None => l.s = {}
TreeOK(r, ns, ls) ==
  /\ IsSeq(ns) /\ \A i \in 1..Len(ns) : NodeOK(ns[i], ns, ls)
  /\ IsSeq(ls) /\ \A i \in 1..Len(ls) : LeafOK(ls[i])
  /\ PageOK(r, ns, ls)
  /\ r.leaf => Len(ns) = 0 /\ \A i \in 1..Len(ls) : ls[i].page = None

\* A thread is no page, a node splits into two, and the trees to begin with are trees
\* without a lock and with their root marked.
ASSUME ThreadsAssumption == None \notin Threads
ASSUME CapAssumption == InnerCap \in Nat /\ InnerCap >= 2
ASSUME StartsAssumption ==
  \A start \in Starts :
    /\ TreeOK(start.root, start.nodes, start.leaves)
    /\ \A i \in 1..Len(start.nodes) : /\ ~is_locked(start.nodes[i].v)
                                      /\ start.nodes[i].isroot <=> start.root = Inner(i)
    /\ \A i \in 1..Len(start.leaves) : start.leaves[i].flag => start.root = Leaf(i)

\* Where a leaf with these keys is cut: both halves keep one.
SplitKey(S) == CHOOSE k \in S : Cardinality({j \in S : j < k}) = Cardinality(S) \div 2
Below(S, k) == {j \in S : j < k}
After(S, k) == {j \in S : j > k}
From(S, k) == {j \in S : j >= k}

-----------------------------------------------------------------------------
Idle == [pc |-> "idle", op |-> "none", key |-> None, aggr |-> FALSE, cur |-> Leaf(None),
         par |-> None, parv |-> 0, curv |-> 0, new |-> None, held |-> None,
         page |-> None, out |-> {}, must |-> {}]

\* check_parent!
check_root_only(r) == r.par = None => root = r.cur
check_parent(r) == IF r.par = None THEN root = r.cur ELSE nodes[r.par].v = r.parv

\* The next step at page p: aggressive splitting looks at its split flag first.
StepAt(r, p) ==
  IF p.leaf THEN (IF r.aggr THEN "lock_to_split" ELSE "lock")
            ELSE (IF r.aggr THEN "try_split" ELSE "try_read")

\* An attempt that failed starts over: with Locked as before, with NeedRestart
\* and CircularBufferFull splitting aggressively.
Again(r, error) ==
  [r EXCEPT !.pc = IF r.op = "evict" THEN "acquire" ELSE "root",
            !.aggr = @ \/ error # "Locked" \/ r.op \in {"read", "evict"},
            !.cur = Leaf(None), !.par = None, !.parv = 0, !.curv = 0, !.new = None]

Go(t, r) == th' = [th EXCEPT ![t] = r]
Step(t, pc) == Go(t, [th[t] EXCEPT !.pc = pc])

Unlocked(l, t) == [l EXCEPT !.x = IF @ = t THEN None ELSE @, !.s = @ \ {t}]
UnlockLeaf(t, i) == leaves' = [leaves EXCEPT ![i] = Unlocked(@, t)]

\* A tree at rest, as inserts leave it or new_from_snapshot builds it.
Init ==
  \E start \in Starts :
    /\ root = start.root /\ nodes = start.nodes /\ leaves = start.leaves
    /\ handle = [p \in Pages |-> None]
    /\ th = [t \in Threads |-> Idle]
    /\ todo = start.todo
    /\ done = UNION {start.leaves[i].base \cup start.leaves[i].mini : i \in DOMAIN start.leaves}

-----------------------------------------------------------------------------
\* Calls.

PageOf == {leaves[i].page : i \in DOMAIN leaves} \ {None}
Begin(t, r) ==
  th[t].pc = "idle" /\ Go(t, r) /\ UNCHANGED <<root, nodes, leaves, handle, done>>

BeginInsert(t) ==
  \E k \in todo : /\ Begin(t, [Idle EXCEPT !.pc = "root", !.op = "insert", !.key = k])
                  /\ todo' = todo \ {k}
BeginRead(t) ==
  \E k \in ReadKeys \cap done :
    Begin(t, [Idle EXCEPT !.pc = "root", !.op = "read", !.key = k]) /\ UNCHANGED todo
BeginScan(t) ==
  /\ Begin(t, [Idle EXCEPT !.pc = "root", !.op = "scan", !.key = Min(Keys), !.must = done])
  /\ UNCHANGED todo
BeginEvict(t) ==
  \E p \in PageOf \ {th[u].page : u \in Threads} :
    /\ Begin(t, [Idle EXCEPT !.pc = "acquire", !.op = "evict", !.page = p, !.aggr = TRUE])
    /\ UNCHANGED todo

\* evict_one's loop: a page somebody else deallocated is evicted already; otherwise
\* its handle is taken and a key read from the page without its leaf's lock.
Acquire(t) ==
  LET p == th[t].page
      owner == {i \in DOMAIN leaves : leaves[i].page = p}
  IN  /\ th[t].pc = "acquire"
      /\ \/ /\ owner = {} /\ Go(t, Idle) /\ UNCHANGED handle
         \/ \E i \in owner : \E k \in IF leaves[i].x = None THEN {Min(leaves[i].mini)} ELSE Keys :
              /\ handle[p] = None /\ handle' = [handle EXCEPT ![p] = t]
              /\ Go(t, [th[t] EXCEPT !.pc = "root", !.key = k])
      /\ UNCHANGED <<root, nodes, leaves, keys>>

-----------------------------------------------------------------------------
\* traverse_to_leaf.

Handles(t) == [p \in Pages |-> IF handle[p] = t THEN None ELSE handle[p]]
Fail(t, error) == Go(t, Again(th[t], error)) /\ handle' = Handles(t)

get_root_page(t) ==
  /\ th[t].pc = "root"
  /\ Go(t, [th[t] EXCEPT !.cur = root, !.pc = StepAt(th[t], root)])
  /\ UNCHANGED <<root, nodes, leaves, handle, keys>>

\* try_split_leaf, which only ever splits a leaf that is the root.
LockToSplit(t) ==
  LET i == th[t].cur.id
  IN  /\ th[t].pc = "lock_to_split"
      /\ leaves[i].x = None /\ leaves[i].s = {}
      /\ leaves' = [leaves EXCEPT ![i].x = t]
      /\ Step(t, "try_split_leaf")
      /\ UNCHANGED <<root, nodes, handle, keys>>

TrySplitLeaf(t) ==
  LET r == th[t]
      i == r.cur.id
      k == SplitKey(leaves[i].base)
  IN  /\ r.pc = "try_split_leaf"
      /\ UNCHANGED keys
      /\ \/ ~check_parent(r) /\ UnlockLeaf(t, i) /\ Fail(t, "Locked") /\ UNCHANGED <<root, nodes>>
         \/ /\ check_parent(r) /\ ~leaves[i].flag
            /\ UnlockLeaf(t, i) /\ Step(t, "lock") /\ UNCHANGED <<root, nodes, handle>>
         \/ /\ check_parent(r) /\ leaves[i].flag /\ r.par = None
            /\ leaves' = Append([leaves EXCEPT ![i] = NewLeaf(Below(@.base, k), k, None)],
                                NewLeaf(From(leaves[i].base, k), leaves[i].hi, None))
            /\ nodes' = Append(nodes, NewNode(0, TRUE, <<k>>, <<r.cur, Leaf(Len(leaves) + 1)>>))
            /\ root' = Inner(Len(nodes) + 1)
            /\ Fail(t, "NeedRestart")

\* try_split_inner: a node that asks for it is upgraded, then its parent.
TrySplitInner(t) ==
  LET r == th[t]
      n == nodes[r.cur.id]
  IN  /\ r.pc = "try_split"
      /\ \/ (is_locked(n.v) \/ ~check_parent(r)) /\ Fail(t, "Locked")
         \/ /\ ~is_locked(n.v) /\ check_parent(r) /\ UNCHANGED handle
            /\ Go(t, IF n.flag THEN [r EXCEPT !.pc = "upgrade_node", !.curv = n.v]
                     ELSE [r EXCEPT !.pc = "try_read"])
      /\ UNCHANGED <<root, nodes, leaves, keys>>

\* ReadGuard::upgrade, a weak compare-and-swap that may also fail for no reason,
\* and the drop of a WriteGuard.
CanUpgradeTwice(i, v) == nodes[i].v \in {v, v + 2} /\ v < MaxVersion
CanUpgrade(i, v) == nodes[i].v = v /\ v < MaxVersion
Bumped(S) == [i \in DOMAIN nodes |-> IF i \in S THEN [nodes[i] EXCEPT !.v = @ + 2] ELSE nodes[i]]

UpgradeNode(t) ==
  LET r == th[t]
  IN  /\ r.pc = "upgrade_node"
      /\ \/ /\ CanUpgrade(r.cur.id, r.curv) /\ nodes' = Bumped({r.cur.id})
            /\ Step(t, IF r.par = None THEN "split_root" ELSE "upgrade_parent") /\ UNCHANGED handle
         \/ Fail(t, "Locked") /\ UNCHANGED nodes
      /\ UNCHANGED <<root, leaves, keys>>

UpgradeParent(t) ==
  LET r == th[t]
  IN  /\ r.pc = "upgrade_parent"
      /\ \/ CanUpgrade(r.par, r.parv) /\ nodes' = Bumped({r.par}) /\ Step(t, "split_node") /\ UNCHANGED handle
         \/ nodes' = Bumped({r.cur.id}) /\ Fail(t, "Locked")
      /\ UNCHANGED <<root, leaves, keys>>

SplitNode(t) ==
  LET r == th[t]
      c == r.cur.id
      n == nodes[c]
  IN  /\ r.pc = "split_node"
      /\ \/ /\ have_space_for(nodes[r.par])
            /\ nodes' = Append([nodes EXCEPT ![r.par] = insert(@, get_split_key(n), Inner(Len(nodes) + 1)),
                                             ![c] = SplitLeft(n)], SplitRight(n))
            /\ Step(t, "drop_node")
         \/ /\ ~have_space_for(nodes[r.par])
            /\ nodes' = [nodes EXCEPT ![r.par].flag = TRUE]
            /\ Step(t, "drop_node")
      /\ UNCHANGED <<root, leaves, handle, keys>>

\* The old root is a node like any other.
StillRoot(n) == SplitLeft(n)
NotRoot(n) == [SplitLeft(n) EXCEPT !.isroot = FALSE]

\* The new root is locked before it is published: nobody else can have it, and the
\* upgrade() that the code unwraps is taken as successful.
SplitRoot(t) ==
  LET r == th[t]
      c == r.cur.id
      n == nodes[c]
      sib == Len(nodes) + 1
  IN  /\ r.pc = "split_root"
      /\ nodes' = [nodes EXCEPT ![c] = NotRoot(n)]
                  \o <<SplitRight(n), NewNode(2, TRUE, <<get_split_key(n)>>, <<r.cur, Inner(sib)>>)>>
      /\ root' = Inner(sib + 1)
      /\ Go(t, [r EXCEPT !.pc = "drop_node", !.par = sib + 1])
      /\ UNCHANGED <<leaves, handle, keys>>

\* Both guards go; the split is done, or the parent must be split first.
DropNode(t) ==
  /\ th[t].pc = "drop_node"
  /\ nodes' = Bumped({th[t].par, th[t].cur.id})
  /\ Fail(t, "NeedRestart")
  /\ UNCHANGED <<root, leaves, keys>>

try_read(t) ==
  LET r == th[t]
      v == nodes[r.cur.id].v
  IN  /\ r.pc = "try_read"
      /\ \/ is_locked(v) /\ Fail(t, "Locked")
         \/ ~is_locked(v) /\ Go(t, [r EXCEPT !.pc = "child", !.curv = v]) /\ UNCHANGED handle
      /\ UNCHANGED <<root, nodes, leaves, keys>>

\* The child by the key, in a node that may be written meanwhile: insert() shifts
\* the entries behind the new one, so that the one before may be found in its place;
\* split() writes the node anew, and any child may be found.
Inserting(i) == {u \in Threads : /\ th[u].pc \in {"split_leaf", "split_node"} /\ th[u].par = i
                                 /\ have_space_for(nodes[i])}
Rewriting(i) == {u \in Threads : /\ th[u].cur = Inner(i)
                                 /\ \/ th[u].pc = "split_root"
                                    \/ th[u].pc = "split_node" /\ have_space_for(nodes[th[u].par])}
Found(i, k) ==
  LET n == nodes[i]
      p == lower_bound(n, k)
      shifted == \E u \in Inserting(i), j \in 1..(p - 1) : n.kids[j] = th[u].cur
  IN  IF Rewriting(i) # {} THEN DOMAIN n.kids ELSE IF shifted THEN {p - 1, p} ELSE {p}

ReadChild(t) ==
  LET r == th[t]
      n == nodes[r.cur.id]
  IN  /\ r.pc = "child"
      /\ \/ ~check_parent(r) /\ Fail(t, "Locked")
         \/ /\ check_parent(r) /\ UNCHANGED handle
            /\ \E j \in Found(r.cur.id, r.key) :
                 Go(t, [r EXCEPT !.pc = StepAt(r, n.kids[j]), !.cur = n.kids[j],
                                 !.par = r.cur.id, !.parv = r.curv, !.curv = 0])
      /\ UNCHANGED <<root, nodes, leaves, keys>>

\* mapping_table().get or get_mut, then check_parent! (not in the eviction callback).
LockLeaf(t) ==
  LET r == th[t]
      i == r.cur.id
  IN  /\ r.pc = "lock"
      /\ leaves[i].x = None
      /\ IF r.op \in {"read", "scan"} THEN leaves' = [leaves EXCEPT ![i].s = @ \cup {t}]
         ELSE leaves[i].s = {} /\ leaves' = [leaves EXCEPT ![i].x = t]
      /\ Step(t, IF r.op = "evict" THEN "leaf" ELSE "check")
      /\ UNCHANGED <<root, nodes, handle, keys>>

\* A scan may come back to the leaf it still holds: that one stays locked.
Leave(t, i) == IF i = th[t].held THEN UNCHANGED leaves ELSE UnlockLeaf(t, i)

CheckLeaf(t) ==
  LET r == th[t]
  IN  /\ r.pc = "check"
      /\ \/ check_parent(r) /\ Step(t, "leaf") /\ UNCHANGED <<leaves, handle>>
         \/ ~check_parent(r) /\ Leave(t, r.cur.id) /\ Fail(t, "Locked")
      /\ UNCHANGED <<root, nodes, keys>>

-----------------------------------------------------------------------------
\* With the leaf locked.

Finish(t, ls) == leaves' = ls /\ Go(t, Idle) /\ handle' = Handles(t)
Put(t, l) == [leaves EXCEPT ![th[t].cur.id] = Unlocked(l, t)]
GiveUp(t, error) == Leave(t, th[t].cur.id) /\ Fail(t, error)

\* The X lock is held (a scan upgrades its S lock first) and the mini page is to go.
begin_dealloc(t, p) ==
  \/ /\ handle[p] = None /\ handle' = [handle EXCEPT ![p] = t]
     /\ leaves' = [leaves EXCEPT ![th[t].cur.id] = [Unlocked(@, t) EXCEPT !.x = t]]
     /\ Step(t, "merge")
  \/ handle[p] # None /\ GiveUp(t, "NeedRestart")

\* A leaf that is the root takes the record, or asks to be split.
InsertRoot(t) ==
  LET r == th[t]
      l == leaves[r.cur.id]
  IN  /\ r.pc = "leaf" /\ r.op = "insert" /\ r.par = None
      /\ \/ /\ Cardinality(l.base) < RootCap
            /\ Finish(t, Put(t, [l EXCEPT !.base = @ \cup {r.key}]))
            /\ done' = done \cup {r.key} /\ UNCHANGED todo
         \/ /\ Cardinality(l.base) >= RootCap
            /\ leaves' = Put(t, [l EXCEPT !.flag = TRUE])
            /\ Fail(t, "NeedRestart") /\ UNCHANGED keys
      /\ UNCHANGED <<root, nodes>>

\* Any other leaf takes it on a mini page: a new one if the buffer has room, or the
\* one it has, which may move to another place; a full one is merged first.
Free == Pages \ (PageOf \cup {th[t].page : t \in Threads})

InsertMini(t) ==
  LET r == th[t]
      l == leaves[r.cur.id]
      add(p) == /\ Finish(t, Put(t, [l EXCEPT !.mini = @ \cup {r.key}, !.page = p]))
                /\ done' = done \cup {r.key} /\ UNCHANGED todo
  IN  /\ r.pc = "leaf" /\ r.op = "insert" /\ r.par # None
      /\ \/ l.page = None /\ \E p \in Free : add(p)
         \/ l.page # None /\ Cardinality(l.mini) < MiniCap /\ add(l.page)
         \/ /\ l.page # None /\ Cardinality(l.mini) < MiniCap /\ handle[l.page] = None
            /\ \E p \in Free : add(p)
         \/ l.page = None /\ Free = {} /\ GiveUp(t, "CircularBufferFull") /\ UNCHANGED keys
         \/ /\ l.page # None /\ Cardinality(l.mini) >= MiniCap
            /\ begin_dealloc(t, l.page) /\ UNCHANGED keys
      /\ UNCHANGED <<root, nodes>>

Read(t) ==
  /\ th[t].pc = "leaf" /\ th[t].op = "read"
  /\ Finish(t, [leaves EXCEPT ![th[t].cur.id] = Unlocked(@, t)])
  /\ UNCHANGED <<root, nodes, keys>>

\* eviction_callback: the leaf found by the key must have the page.
EvictionCallback(t) ==
  LET r == th[t]
  IN  /\ r.pc = "leaf" /\ r.op = "evict"
      /\ \/ leaves[r.cur.id].page = r.page /\ Step(t, "merge") /\ UNCHANGED <<leaves, handle>>
         \/ leaves[r.cur.id].page # r.page /\ GiveUp(t, "NeedRestart")
      /\ UNCHANGED <<root, nodes, keys>>

\* try_merge_mini_page.
Merge(t) ==
  LET r == th[t]
      l == leaves[r.cur.id]
      whole == [l EXCEPT !.base = @ \cup l.mini, !.mini = {}, !.page = None]
      fits == Cardinality(whole.base) <= LeafCap
  IN  /\ r.pc = "merge"
      /\ \/ ~check_parent(r) /\ GiveUp(t, "Locked")
         \/ /\ check_parent(r) /\ fits
            /\ CASE r.op = "insert" -> leaves' = Put(t, whole) /\ Fail(t, "NeedRestart")
                 [] r.op = "evict" -> Finish(t, Put(t, whole))
                 [] r.op = "scan" -> /\ leaves' = [leaves EXCEPT ![r.cur.id] = whole]
                                     /\ Step(t, "leaf") /\ handle' = Handles(t)
         \/ check_parent(r) /\ ~fits /\ Step(t, "upgrade") /\ UNCHANGED <<leaves, handle>>
      /\ UNCHANGED <<root, nodes, keys>>

UpgradeToSplit(t) ==
  LET r == th[t]
  IN  /\ r.pc = "upgrade"
      /\ \/ /\ CanUpgrade(r.par, r.parv) /\ nodes' = Bumped({r.par})
            /\ Step(t, "split_leaf") /\ UNCHANGED <<leaves, handle>>
         \/ GiveUp(t, "Locked") /\ UNCHANGED nodes
      /\ UNCHANGED <<root, keys>>

\* split_with_key and the insert into the parent; the new leaf is locked as well.
SplitLeaf(t) ==
  LET r == th[t]
      l == leaves[r.cur.id]
      k == SplitKey(l.base \cup l.mini)
      sib == Len(leaves) + 1
  IN  /\ r.pc = "split_leaf"
      /\ \/ /\ have_space_for(nodes[r.par])
            /\ nodes' = [nodes EXCEPT ![r.par] = insert(@, k, Leaf(sib))]
            /\ leaves' = Append([leaves EXCEPT ![r.cur.id] = [l EXCEPT !.base = Below(@, k), !.hi = k]],
                                NewLeaf(From(l.base, k), l.hi, t))
            /\ Go(t, [r EXCEPT !.pc = "drop_parent", !.new = sib])
            /\ UNCHANGED handle
         \/ /\ ~have_space_for(nodes[r.par])
            /\ nodes' = [Bumped({r.par}) EXCEPT ![r.par].flag = TRUE]
            /\ GiveUp(t, "NeedRestart")
      /\ UNCHANGED <<root, keys>>

DropParent(t) ==
  /\ th[t].pc = "drop_parent"
  /\ nodes' = Bumped({th[t].par})
  /\ Step(t, "move")
  /\ UNCHANGED <<root, leaves, handle, keys>>

MergeInto(l, S) == [l EXCEPT !.base = @ \cup S]

MoveRecords(t) ==
  LET r == th[t]
      l == leaves[r.cur.id]
      left == [MergeInto(l, Below(l.mini, l.hi)) EXCEPT !.mini = {}, !.page = None]
      right == MergeInto(leaves[r.new], From(l.mini, l.hi))
      ls == [leaves EXCEPT ![r.cur.id] = Unlocked(left, t), ![r.new] = Unlocked(right, t)]
  IN  /\ r.pc = "move"
      /\ IF r.op = "evict" THEN Finish(t, ls) ELSE leaves' = ls /\ Fail(t, "NeedRestart")
      /\ UNCHANGED <<root, nodes, keys>>

\* The records of a leaf from the scan's position on.
RecordsAfter(l, k) == {j \in l.base : j > k}
RecordsFrom(l, k) == {j \in l.base : j >= k}

\* The scan has a leaf: a mini page is merged first, under the X lock.  Its records
\* are returned, and the scan goes on at the right fence, still holding the leaf.
Scan(t) ==
  LET r == th[t]
      l == leaves[r.cur.id]
      released == [leaves EXCEPT ![r.held] = Unlocked(@, t)]
  IN  /\ r.pc = "leaf" /\ r.op = "scan"
      /\ \/ /\ l.page # None
            /\ IF l.s = {t} THEN begin_dealloc(t, l.page) ELSE GiveUp(t, "Locked")
         \/ /\ l.page = None /\ l.hi # None
            /\ leaves' = IF r.held = None THEN leaves ELSE released
            /\ Go(t, [Idle EXCEPT !.pc = "root", !.op = "scan", !.key = l.hi, !.must = r.must,
                                  !.out = r.out \cup RecordsFrom(l, r.key), !.held = r.cur.id])
            /\ UNCHANGED handle
         \/ /\ l.page = None /\ l.hi = None
            /\ Go(t, [r EXCEPT !.pc = "end", !.out = @ \cup RecordsFrom(l, r.key)])
            /\ UNCHANGED <<leaves, handle>>
      /\ UNCHANGED <<root, nodes, keys>>

EndScan(t) ==
  /\ th[t].pc = "end"
  /\ Finish(t, [i \in DOMAIN leaves |-> Unlocked(leaves[i], t)])
  /\ UNCHANGED <<root, nodes, keys>>

\* A scan holds a leaf while it waits for the next one: threads, or one alone, that
\* wait for each other stay where they are.
Blockers(t) ==
  LET r == th[t]
      l == leaves[r.cur.id]
      owners == (IF l.x = None THEN {} ELSE {l.x})
                \cup (IF r.pc = "lock" /\ r.op \in {"read", "scan"} THEN {} ELSE l.s)
  IN  IF r.pc \in {"lock", "lock_to_split"} THEN owners ELSE {}
Deadlocked(S) == S # {} /\ \A t \in S : Blockers(t) \cap S # {}
Stuck == (\E S \in SUBSET Threads : Deadlocked(S)) /\ UNCHANGED vars

Next ==
  \/ Stuck
  \/ \E t \in Threads :
       \/ BeginInsert(t) \/ BeginRead(t) \/ BeginScan(t) \/ BeginEvict(t)
       \/ Acquire(t) \/ get_root_page(t) \/ LockToSplit(t) \/ TrySplitLeaf(t)
       \/ TrySplitInner(t) \/ UpgradeNode(t) \/ UpgradeParent(t) \/ SplitNode(t)
       \/ SplitRoot(t) \/ DropNode(t) \/ try_read(t) \/ ReadChild(t)
       \/ LockLeaf(t) \/ CheckLeaf(t) \/ InsertRoot(t) \/ InsertMini(t) \/ Read(t)
       \/ EvictionCallback(t) \/ Merge(t) \/ UpgradeToSplit(t) \/ SplitLeaf(t)
       \/ DropParent(t) \/ MoveRecords(t) \/ Scan(t) \/ EndScan(t)

Spec == Init /\ [][Next]_vars

-----------------------------------------------------------------------------
TypeOK ==
  /\ \A i \in DOMAIN nodes :
       /\ nodes[i].v \in 0..(MaxVersion + 2) /\ Len(nodes[i].kids) = Len(nodes[i].seps) + 1
       /\ Len(nodes[i].kids) <= InnerCap
  /\ \A i \in DOMAIN leaves : leaves[i].base \cup leaves[i].mini \subseteq Keys
  /\ handle \in [Pages -> Threads \cup {None}]
  /\ todo \subseteq Keys /\ done \subseteq Keys \ todo

\* The leaf that a descent by k ends at, in the tree as it is now.
Descend(k) ==
  LET down[depth \in 0..Len(nodes)] ==
        IF depth = 0 THEN root
        ELSE LET p == down[depth - 1]
             IN  IF p.leaf THEN p ELSE nodes[p.id].kids[lower_bound(nodes[p.id], k)]
  IN  down[Len(nodes)].id

Moving(i) == {k \in UNION {leaves[th[t].cur.id].mini : t \in {u \in Threads :
                th[u].pc \in {"drop_parent", "move"} /\ th[u].new = i}} : Descend(k) = i}

\* No insert is lost: a key whose insert has returned is on the leaf that a descent
\* finds, or on its way there under the lock of both halves of a split.
NoLostKey ==
  \A k \in done :
    LET i == Descend(k)
    IN  k \in leaves[i].base \cup leaves[i].mini \cup Moving(i)

\* A thread that has locked a leaf and found the parent unchanged is at the leaf of
\* its key, and stays there until it lets go of the lock: reads and inserts act on
\* the right leaf although the way to it was read without locks.
RightLeaf ==
  \A t \in Threads :
    th[t].pc \in {"leaf", "merge", "upgrade"} /\ th[t].op # "evict" => Descend(th[t].key) = th[t].cur.id

\* The nodes that a thread has write guards of.
Guards(t) ==
  LET r == th[t]
  IN  CASE r.pc \in {"upgrade_parent", "split_root"} -> {r.cur.id}
        [] r.pc \in {"split_node", "drop_node"} -> {r.cur.id, r.par}
        [] r.pc \in {"split_leaf", "drop_parent"} -> {r.par}
        [] OTHER -> {}

\* Of two readers that upgrade the same node one wins and the loser restarts: a node
\* with a write guard is locked and nobody else's.  The winner that splits a child
\* still has the parent of that child before it, and a thread that is to merge a mini
\* page has a parent (the expect() and unwrap() of its callers).
UpgradedIsParent ==
  \A t \in Threads :
    /\ \A i \in Guards(t) : /\ is_locked(nodes[i].v)
                           /\ \A u \in Threads \ {t} : i \notin Guards(u)
    /\ th[t].pc \in {"split_leaf", "split_node"} => th[t].cur \in Range(nodes[th[t].par].kids)
    /\ th[t].pc \in {"merge", "upgrade"} => th[t].par # None

\* A scan returns every key that was in the tree when it began, up to the place it
\* has reached, and none from that place on, which it would return again, although
\* leaves are split and merged between its steps.
ScanComplete ==
  \A t \in Threads : LET r == th[t] IN r.op = "scan" =>
    /\ (IF r.pc = "end" THEN r.must ELSE Below(r.must, r.key)) \subseteq r.out
    /\ r.pc # "end" => r.out = Below(r.out, r.key)

\* Exactly the root node has the root flag, which the assertions of the snapshot
\* code rely on, and only a leaf that is the root asks to be split.
RootIsMarked ==
  /\ \A i \in DOMAIN nodes : nodes[i].isroot <=> root = Inner(i)
  /\ \A i \in DOMAIN leaves : leaves[i].flag => root = Leaf(i)

\* No thread waits for a leaf that it holds itself, and no two for each other's: a
\* scan, which goes from left to right, ends (ScanIter::next, range_scan.rs).
NoDeadlock == \A S \in SUBSET Threads : ~Deadlocked(S)
=============================================================================
