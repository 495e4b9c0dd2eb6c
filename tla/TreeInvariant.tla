--------------------------- MODULE TreeInvariant ----------------------------
(***************************************************************************)
(* The inductive invariant of Tree, and what a step must leave alone for   *)
(* the others to keep what they know: a node without the write guard of the *)
(* thread that takes the step keeps its children while it has its version, *)
(* and a leaf stays locked by whoever has locked it.                       *)
(***************************************************************************)
EXTENDS Tree, SequenceTheorems, FiniteSetTheorems, TLAPS

\* Where a thread is at an inner node, and at a leaf.
AtNode == {"try_split", "upgrade_node", "upgrade_parent", "split_node", "split_root",
           "drop_node", "try_read", "child"}
AtLeaf == {"lock_to_split", "try_split_leaf", "lock", "check", "leaf", "merge", "upgrade",
           "split_leaf", "drop_parent", "move"}
Pcs == AtNode \cup AtLeaf \cup {"idle", "root", "acquire", "end"}
Ops == {"none", "insert", "read", "scan", "evict"}

\* A version as try_read returns it.
Version(v) == v \in Nat /\ v % 2 = 0 /\ ~is_locked(v)

ThreadType(t) ==
  th[t] \in [pc : Pcs, op : Ops, key : {th[t].key}, aggr : {th[t].aggr}, cur : {th[t].cur},
             par : 0..Len(nodes), parv : Nat, curv : Nat, new : {th[t].new},
             held : {th[t].held}, page : {th[t].page}, out : {th[t].out}, must : {th[t].must}]

\* The page a thread is at is one, and of the kind its next step expects.
CurOK(t) ==
  LET r == th[t]
  IN  r.pc \in AtNode \cup AtLeaf => PageOK(r.cur, nodes, leaves) /\ (r.cur.leaf <=> r.pc \in AtLeaf)

\* What a thread has read of a node is true for as long as the node has its version;
\* versions never go back.
ReadOK(t) ==
  LET r == th[t]
  IN  /\ Version(r.parv) /\ Version(r.curv)
      /\ r.par = None => r.parv = 0
      /\ r.pc \in {"idle", "acquire", "root"} => r.curv = 0
      /\ r.par # None => r.parv <= nodes[r.par].v
      /\ r.par # None /\ r.pc \in AtNode \cup AtLeaf /\ nodes[r.par].v = r.parv =>
           r.cur \in Range(nodes[r.par].kids)
      /\ r.pc \in {"upgrade_node", "child"} => r.curv <= nodes[r.cur.id].v
      /\ r.pc = "upgrade_node" /\ nodes[r.cur.id].v = r.curv => nodes[r.cur.id].flag

\* What it knows of the nodes it has write guards of.
GuardOK(t) ==
  LET r == th[t]
  IN  /\ r.pc \in {"upgrade_parent", "split_node", "drop_node", "merge", "upgrade", "split_leaf",
                  "drop_parent", "move"} => r.par # None
      /\ r.pc \in {"idle", "acquire", "root", "split_root"} => r.par = None
      /\ r.pc = "merge" => r.op \in {"insert", "evict", "scan"}
      /\ r.op = "evict" => r.page # None
      /\ \A i \in Guards(t) : is_locked(nodes[i].v)
      /\ r.pc \in {"upgrade_parent", "split_node", "split_root"} => nodes[r.cur.id].flag
      /\ r.pc \in {"split_leaf", "split_node"} => r.cur \in Range(nodes[r.par].kids)

\* What it knows of the leaf it has locked, and that an evictor is never at a leaf
\* that is the root.
LatchOK(t) ==
  LET r == th[t]
      l == leaves[r.cur.id]
  IN  /\ \/ r.pc \in {"try_split_leaf", "merge", "upgrade", "split_leaf", "drop_parent", "move"}
         \/ r.pc \in {"check", "leaf"} /\ r.op \in {"insert", "evict", "none"}
         => l.x = t
      /\ r.pc \in {"check", "leaf"} /\ r.op \in {"read", "scan"} => l.x = t \/ t \in l.s
      /\ r.pc = "leaf" /\ r.op = "scan" /\ r.par = None => l.page = None
      /\ r.op = "evict" /\ r.pc \notin {"idle", "acquire"} => ~root.leaf
      /\ r.op = "evict" /\ r.pc \in AtLeaf => r.par # None

ThreadOK(t) == ThreadType(t) /\ CurOK(t) /\ ReadOK(t) /\ GuardOK(t) /\ LatchOK(t)

Exclusive == \A t, u \in Threads : t # u => Guards(t) \cap Guards(u) = {}

IInv ==
  /\ DOMAIN th = Threads
  /\ TreeOK(root, nodes, leaves)
  /\ \A t \in Threads : ThreadOK(t)
  /\ Exclusive

-----------------------------------------------------------------------------
\* Sequences.

\* A sequence over any set is one over its own elements.
LEMMA SeqIsSeq ==
  ASSUME NEW S, NEW s \in Seq(S)
  PROVE  IsSeq(s) /\ Len(s) \in Nat /\ DOMAIN s = 1..Len(s)
  <1>1. Len(s) \in Nat /\ s \in [1..Len(s) -> S] /\ DOMAIN s = 1..Len(s)
    BY LenProperties, Zenon
  <1>2. s \in [1..Len(s) -> {s[i] : i \in DOMAIN s}]
    BY <1>1, Zenon
  <1>. QED  BY <1>1, <1>2, SeqDef DEF IsSeq

\* The domain of a sequence.
LEMMA SeqDomain ==
  ASSUME NEW s, IsSeq(s)
  PROVE  Len(s) \in Nat /\ DOMAIN s = 1..Len(s)
  BY LenProperties, Zenon DEF IsSeq

\* A function on 1..n is a sequence of length n.
LEMMA MapIsSeq ==
  ASSUME NEW n \in Nat, NEW f, f = [i \in 1..n |-> f[i]]
  PROVE  IsSeq(f) /\ Len(f) = n
  <1>1. f \in [1..n -> {f[i] : i \in 1..n}]
    BY Zenon
  <1>2. f \in Seq({f[i] : i \in 1..n})
    BY <1>1, SeqDef, Zenon
  <1>. QED  BY <1>2, SeqIsSeq, LenProperties

\* One element of a sequence is replaced.
LEMMA ExceptIsSeq ==
  ASSUME NEW s, IsSeq(s), NEW i, NEW e
  PROVE  IsSeq([s EXCEPT ![i] = e]) /\ Len([s EXCEPT ![i] = e]) = Len(s)
  <1>1. Len(s) \in Nat /\ DOMAIN s = 1..Len(s)
    BY SeqDomain, Zenon
  <1>. DEFINE f == [s EXCEPT ![i] = e]
  <1>2. f = [j \in 1..Len(s) |-> f[j]]
    BY <1>1, Zenon
  <1>. HIDE DEF f
  <1>. QED  BY <1>1, <1>2, MapIsSeq, Zenon DEF f

\* One element is appended.
LEMMA AppendIsSeq ==
  ASSUME NEW s, IsSeq(s), NEW e
  PROVE  /\ IsSeq(Append(s, e)) /\ Len(Append(s, e)) = Len(s) + 1
         /\ \A j \in 1..Len(s) : Append(s, e)[j] = s[j]
         /\ Append(s, e)[Len(s) + 1] = e
  <1>. DEFINE S == {s[i] : i \in DOMAIN s} \cup {e}
  <1>1. s \in Seq(S)
    BY SeqMonotonic, Zenon DEF IsSeq
  <1>2. e \in S
    BY Zenon
  <1>. HIDE DEF S
  <1>3. /\ Append(s, e) \in Seq(S) /\ Len(Append(s, e)) = Len(s) + 1
        /\ \A j \in 1..Len(s) : Append(s, e)[j] = s[j]
        /\ Append(s, e)[Len(s) + 1] = e
    BY <1>1, <1>2, AppendProperties
  <1>4. IsSeq(Append(s, e))
    BY <1>3, SeqIsSeq, Zenon
  <1>. QED  BY <1>3, <1>4, Zenon

\* A part of a sequence has elements of it.
LEMMA SubSeqIsSeq ==
  ASSUME NEW s, IsSeq(s), NEW m \in Nat, NEW n \in Nat, 1 <= m, n <= Len(s), m <= n + 1
  PROVE  /\ IsSeq(SubSeq(s, m, n)) /\ Len(SubSeq(s, m, n)) = n - m + 1
         /\ \A j \in 1..(n - m + 1) : \E i \in 1..Len(s) : SubSeq(s, m, n)[j] = s[i]
  <1>. DEFINE S == {s[i] : i \in DOMAIN s}
  <1>1. Len(s) \in Nat /\ DOMAIN s = 1..Len(s)
    BY SeqDomain, Zenon
  <1>2. \A i \in m..n : s[i] \in S
    BY <1>1
  <1>. HIDE DEF S
  <1>3. /\ SubSeq(s, m, n) \in Seq(S)
        /\ Len(SubSeq(s, m, n)) = IF m <= n THEN n - m + 1 ELSE 0
        /\ \A i \in 1..(n - m + 1) : SubSeq(s, m, n)[i] = s[m + i - 1]
    BY <1>2, SubSeqProperties
  <1>4. IsSeq(SubSeq(s, m, n))
    BY <1>3, SeqIsSeq, Zenon
  <1>. QED  BY <1>1, <1>3, <1>4

\* One element is put between the others.
LEMMA InsertAtIsSeq ==
  ASSUME NEW s, IsSeq(s), NEW p \in Nat, 1 <= p, p <= Len(s) + 1, NEW e
  PROVE  /\ IsSeq(InsertAt(s, p, e)) /\ Len(InsertAt(s, p, e)) = Len(s) + 1
         /\ \A j \in 1..(Len(s) + 1) :
              InsertAt(s, p, e)[j] = e \/ \E i \in 1..Len(s) : InsertAt(s, p, e)[j] = s[i]
  <1>. DEFINE S == {s[i] : i \in DOMAIN s} \cup {e}
              a == SubSeq(s, 1, p - 1)
              b == SubSeq(s, p, Len(s))
              c == a \o <<e>>
  <1>1. Len(s) \in Nat /\ DOMAIN s = 1..Len(s)
    BY SeqDomain, Zenon
  <1>2. /\ a \in Seq(S) /\ Len(a) = p - 1
    <2>1. \A i \in 1..(p - 1) : s[i] \in S
      BY <1>1
    <2>. HIDE DEF S
    <2>. QED  BY <2>1, SubSeqProperties
  <1>3. b \in Seq(S) /\ Len(b) = Len(s) - p + 1
    <2>1. \A i \in p..Len(s) : s[i] \in S
      BY <1>1
    <2>. HIDE DEF S
    <2>. QED  BY <1>1, <2>1, SubSeqProperties
  <1>4. <<e>> \in Seq(S) /\ Len(<<e>>) = 1
    OBVIOUS
  <1>5. \A x \in S : x = e \/ \E i \in 1..Len(s) : x = s[i]
    BY <1>1, Zenon
  <1>6. InsertAt(s, p, e) = c \o b
    BY Zenon DEF InsertAt
  <1>. HIDE DEF S, a, b
  <1>7. c \in Seq(S) /\ Len(c) = p
    BY <1>2, <1>4, ConcatProperties
  <1>. HIDE DEF c
  <1>8. c \o b \in Seq(S) /\ Len(c \o b) = Len(s) + 1
    <2>1. c \o b \in Seq(S) /\ Len(c \o b) = Len(c) + Len(b)
      BY <1>3, <1>7, ConcatProperties, Zenon
    <2>2. Len(c) + Len(b) = Len(s) + 1
      BY <1>1, <1>3, <1>7
    <2>. QED  BY <2>1, <2>2, Zenon
  <1>9. \A j \in 1..(Len(s) + 1) : (c \o b)[j] \in S
    BY <1>8, ElementOfSeq, Zenon
  <1>. QED  BY <1>5, <1>6, <1>8, <1>9, SeqIsSeq, Zenon

\* One element replaced; two replaced and one appended.
Replaced(f, s, i, a) ==
  /\ IsSeq(f) /\ Len(f) = Len(s)
  /\ \A m \in 1..Len(s) : f[m] = IF m = i THEN a ELSE s[m]
TwoAndOne(f, s, i, a, j, b, e) ==
  /\ IsSeq(f) /\ Len(f) = Len(s) + 1 /\ f[Len(s) + 1] = e
  /\ \A m \in 1..Len(s) : f[m] = IF m = j THEN b ELSE IF m = i THEN a ELSE s[m]

\* EXCEPT replaces one element.
LEMMA ReplacedOK ==
  ASSUME NEW s, IsSeq(s), NEW i, NEW a
  PROVE  Replaced([s EXCEPT ![i] = a], s, i, a)
  <1>1. IsSeq([s EXCEPT ![i] = a]) /\ Len([s EXCEPT ![i] = a]) = Len(s)
    BY ExceptIsSeq, Zenon
  <1>2. \A m \in 1..Len(s) : [s EXCEPT ![i] = a][m] = IF m = i THEN a ELSE s[m]
    BY SeqDomain, Zenon
  <1>. QED  BY <1>1, <1>2, Zenon DEF Replaced

\* EXCEPT of two elements, and Append.
LEMMA TwoAndOneOK ==
  ASSUME NEW s, IsSeq(s), NEW i, NEW j, NEW a, NEW b, NEW e
  PROVE  TwoAndOne(Append([s EXCEPT ![i] = a, ![j] = b], e), s, i, a, j, b, e)
  <1>. DEFINE one == [s EXCEPT ![i] = a]
              two == [one EXCEPT ![j] = b]
              f == Append(two, e)
  <1>1. Replaced(one, s, i, a)
    BY ReplacedOK, Zenon
  <1>. HIDE DEF one
  <1>2. Replaced(two, one, j, b)
    <2>1. IsSeq(one)
      BY <1>1, Zenon DEF Replaced
    <2>. QED  BY <2>1, ReplacedOK, Zenon
  <1>. HIDE DEF two
  <1>3. /\ IsSeq(f) /\ Len(f) = Len(two) + 1 /\ f[Len(two) + 1] = e
        /\ \A m \in 1..Len(two) : f[m] = two[m]
    BY <1>2, AppendIsSeq DEF Replaced
  <1>. HIDE DEF f
  <1>4. TwoAndOne(f, s, i, a, j, b, e)
    BY <1>1, <1>2, <1>3, Zenon DEF Replaced, TwoAndOne
  <1>. QED  BY <1>4, Zenon DEF f, two, one

\* One element replaced and two appended.
OneAndTwo(f, s, i, a, d, e) ==
  /\ IsSeq(f) /\ Len(f) = Len(s) + 2 /\ f[Len(s) + 1] = d /\ f[Len(s) + 2] = e
  /\ \A m \in 1..Len(s) : f[m] = IF m = i THEN a ELSE s[m]

\* EXCEPT, and two more elements.
LEMMA OneAndTwoOK ==
  ASSUME NEW s, IsSeq(s), NEW i, NEW a, NEW d, NEW e
  PROVE  OneAndTwo([s EXCEPT ![i] = a] \o <<d, e>>, s, i, a, d, e)
  <1>. DEFINE one == [s EXCEPT ![i] = a]
              two == <<d, e>>
              f == one \o two
  <1>1. Replaced(one, s, i, a)
    BY ReplacedOK, Zenon
  <1>. HIDE DEF one
  <1>2. IsSeq(one) /\ Len(one) = Len(s) /\ Len(s) \in Nat /\ DOMAIN one = 1..Len(s)
    BY <1>1, SeqDomain, Zenon DEF Replaced
  <1>. DEFINE S == {one[m] : m \in DOMAIN one} \cup {d, e}
  <1>3. one \in Seq(S)
    BY <1>2, SeqMonotonic, Zenon DEF IsSeq
  <1>4. two \in Seq(S) /\ Len(two) = 2 /\ two[1] = d /\ two[2] = e
    OBVIOUS
  <1>. HIDE DEF S, two
  <1>5. /\ f \in Seq(S) /\ Len(f) = Len(one) + Len(two)
        /\ \A m \in 1..(Len(one) + Len(two)) :
             f[m] = IF m <= Len(one) THEN one[m] ELSE two[m - Len(one)]
    BY <1>3, <1>4, ConcatProperties, Zenon
  <1>. HIDE DEF f
  <1>6. f[Len(s) + 1] = d /\ f[Len(s) + 2] = e /\ \A m \in 1..Len(s) : f[m] = one[m]
    BY <1>2, <1>4, <1>5
  <1>7. IsSeq(f) /\ Len(f) = Len(s) + 2
    BY <1>2, <1>4, <1>5, SeqIsSeq, Zenon
  <1>8. OneAndTwo(f, s, i, a, d, e)
    BY <1>1, <1>6, <1>7, Zenon DEF Replaced, OneAndTwo
  <1>. QED  BY <1>8, Zenon DEF f, two, one

\* One element replaced and one appended.
OneAndOne(f, s, i, a, e) ==
  /\ IsSeq(f) /\ Len(f) = Len(s) + 1 /\ f[Len(s) + 1] = e
  /\ \A m \in 1..Len(s) : f[m] = IF m = i THEN a ELSE s[m]

\* EXCEPT of one element, and Append.
LEMMA OneAndOneOK ==
  ASSUME NEW s, IsSeq(s), NEW i, NEW a, NEW e
  PROVE  OneAndOne(Append([s EXCEPT ![i] = a], e), s, i, a, e)
  <1>. DEFINE one == [s EXCEPT ![i] = a]
              f == Append(one, e)
  <1>1. Replaced(one, s, i, a)
    BY ReplacedOK, Zenon
  <1>. HIDE DEF one
  <1>2. /\ IsSeq(f) /\ Len(f) = Len(one) + 1 /\ f[Len(one) + 1] = e
        /\ \A m \in 1..Len(one) : f[m] = one[m]
    BY <1>1, AppendIsSeq DEF Replaced
  <1>. HIDE DEF f
  <1>3. OneAndOne(f, s, i, a, e)
    BY <1>1, <1>2, Zenon DEF Replaced, OneAndOne
  <1>. QED  BY <1>3, Zenon DEF f, one

\* Numbers up to the next one.
LEMMA OneMore ==
  ASSUME NEW n \in Nat
  PROVE  /\ n + 1 \in Nat /\ n <= n + 1 /\ n + 1 \in 1..(n + 1)
         /\ \A j \in 1..(n + 1) : j \in 1..n \/ j = n + 1
  OBVIOUS

\* Numbers up to the one after the next.
LEMMA TwoMore ==
  ASSUME NEW n \in Nat
  PROVE  /\ n + 2 \in Nat /\ n <= n + 2 /\ n + 1 \in 1..(n + 2) /\ n + 2 \in 1..(n + 2)
         /\ n + 2 \notin 1..n /\ n + 2 # 0
         /\ \A j \in 1..(n + 2) : j \in 1..n \/ j = n + 1 \/ j = n + 2
  OBVIOUS

-----------------------------------------------------------------------------
\* Nodes.

\* Adding 2 to a version takes the write lock, or gives it back.
LEMMA Bump ==
  ASSUME NEW v \in Nat, v % 2 = 0
  PROVE  v + 2 \in Nat /\ (v + 2) % 2 = 0 /\ (is_locked(v + 2) <=> ~is_locked(v))
  BY DEF is_locked

\* A version between two others.
LEMMA Between ==
  ASSUME NEW a \in Nat, NEW b \in Nat, NEW c \in Nat, a <= b, b <= c
  PROVE  a <= c /\ (c = a => b = a)
  OBVIOUS

\* The version of a new node.
LEMMA ZeroVersion == Version(0)
  BY DEF Version, is_locked

\* The pages that Leaf and Inner name.
LEMMA PageOfId ==
  ASSUME NEW i
  PROVE  /\ Inner(i) \in [leaf : BOOLEAN, id : {Inner(i).id}] /\ ~Inner(i).leaf /\ Inner(i).id = i
         /\ Leaf(i) \in [leaf : BOOLEAN, id : {Leaf(i).id}] /\ Leaf(i).leaf /\ Leaf(i).id = i
  BY Zenon DEF Inner, Leaf

\* The position of a key is that of a child.
LEMMA LowerBound ==
  ASSUME NEW n, NEW ns, NEW ls, NodeOK(n, ns, ls), NEW k
  PROVE  lower_bound(n, k) \in 1..Len(n.kids)
  <1>. DEFINE S == {j \in DOMAIN n.seps : n.seps[j] <= k}
  <1>1. Len(n.seps) \in Nat /\ DOMAIN n.seps = 1..Len(n.seps) /\ Len(n.kids) = Len(n.seps) + 1
    BY SeqDomain, Zenon DEF NodeOK
  <1>2. IsFiniteSet(1..Len(n.seps)) /\ Cardinality(1..Len(n.seps)) = Len(n.seps)
    <2>. SUFFICES ASSUME NEW b \in Nat PROVE IsFiniteSet(1..b) /\ Cardinality(1..b) = b
      BY <1>1, Zenon
    <2>1. 1 \in Int /\ b \in Int /\ b = IF 1 > b THEN 0 ELSE b - 1 + 1
      OBVIOUS
    <2>. QED  BY <2>1, FS_Interval, Zenon
  <1>3. S \subseteq 1..Len(n.seps)
    BY <1>1, Zenon
  <1>. HIDE DEF S
  <1>4. Cardinality(S) <= Len(n.seps) /\ IsFiniteSet(S)
    BY <1>2, <1>3, FS_Subset, Zenon
  <1>5. Cardinality(S) \in Nat
    BY <1>4, FS_CardinalityType, Zenon
  <1>. QED  BY <1>1, <1>4, <1>5 DEF lower_bound, S

\* A tree that grows keeps its pages and nodes.
LEMMA Grown ==
  ASSUME NEW ns, NEW ls, NEW ns2, NEW ls2, Len(ns) \in Nat, Len(ns2) \in Nat, Len(ls) \in Nat,
         Len(ls2) \in Nat, Len(ns) <= Len(ns2), Len(ls) <= Len(ls2)
  PROVE  /\ \A p : PageOK(p, ns, ls) => PageOK(p, ns2, ls2)
         /\ \A n : NodeOK(n, ns, ls) => NodeOK(n, ns2, ls2)
  <1>1. ASSUME NEW p, PageOK(p, ns, ls) PROVE PageOK(p, ns2, ls2)
    BY <1>1 DEF PageOK
  <1>2. ASSUME NEW n, NodeOK(n, ns, ls) PROVE NodeOK(n, ns2, ls2)
    BY <1>1, <1>2, Zenon DEF NodeOK
  <1>. QED  BY <1>1, <1>2, Zenon

\* The fields of a node.
LEMMA NodeFields ==
  ASSUME NEW n, NEW ns, NEW ls, NodeOK(n, ns, ls)
  PROVE  /\ n.v \in Nat /\ n.v % 2 = 0 /\ n.flag \in BOOLEAN
         /\ IsSeq(n.seps) /\ IsSeq(n.kids) /\ Len(n.seps) \in Nat /\ Len(n.kids) \in Nat
         /\ Len(n.kids) = Len(n.seps) + 1 /\ Len(n.kids) >= 1 /\ (n.flag => Len(n.kids) >= 2)
         /\ DOMAIN n.kids = 1..Len(n.kids)
         /\ \A j \in 1..Len(n.kids) : PageOK(n.kids[j], ns, ls)
  <1>1. IsSeq(n.seps) /\ IsSeq(n.kids) /\ Len(n.kids) = Len(n.seps) + 1
    BY Zenon DEF NodeOK
  <1>2. Len(n.seps) \in Nat /\ Len(n.kids) \in Nat /\ DOMAIN n.kids = 1..Len(n.kids)
    BY <1>1, SeqDomain, Zenon
  <1>. QED  BY <1>1, <1>2 DEF NodeOK

\* insert() leaves a node, with its version and its flag.
LEMMA InsertOK ==
  ASSUME NEW n, NEW ns, NEW ls, NodeOK(n, ns, ls), NEW k, NEW kid, PageOK(kid, ns, ls)
  PROVE  /\ NodeOK(insert(n, k, kid), ns, ls)
         /\ insert(n, k, kid).v = n.v /\ insert(n, k, kid).flag = n.flag
  <1>. DEFINE p == lower_bound(n, k)
              seps == InsertAt(n.seps, p, k)
              kids == InsertAt(n.kids, p + 1, kid)
  <1>1. p \in Nat /\ 1 <= p /\ p <= Len(n.kids)
    BY LowerBound, NodeFields
  <1>. HIDE DEF p
  <1>2. IsSeq(seps) /\ Len(seps) = Len(n.seps) + 1
    BY <1>1, NodeFields, InsertAtIsSeq
  <1>3. p + 1 \in Nat /\ 1 <= p + 1 /\ p + 1 <= Len(n.kids) + 1
    BY <1>1, NodeFields
  <1>4. /\ IsSeq(kids) /\ Len(kids) = Len(n.kids) + 1
        /\ \A j \in 1..(Len(n.kids) + 1) :
              kids[j] = kid \/ \E i \in 1..Len(n.kids) : kids[j] = n.kids[i]
    BY <1>3, NodeFields, InsertAtIsSeq
  <1>. HIDE DEF seps, kids
  <1>5. insert(n, k, kid) \in [v : {n.v}, isroot : {n.isroot}, flag : {n.flag},
                               seps : {seps}, kids : {kids}]
    BY Zenon DEF NodeOK, insert, seps, kids, p
  <1>6. \A j \in 1..Len(kids) : PageOK(kids[j], ns, ls)
    BY <1>4, NodeFields, Zenon
  <1>7. Len(kids) = Len(seps) + 1 /\ (n.flag => Len(kids) >= 2)
    BY <1>2, <1>4, NodeFields
  <1>. DEFINE m == insert(n, k, kid)
  <1>8. m.v = n.v /\ m.flag = n.flag /\ m.seps = seps /\ m.kids = kids
    BY <1>5, Zenon
  <1>9. n.v \in Nat /\ n.v % 2 = 0 /\ n.flag \in BOOLEAN
    BY NodeFields, Zenon
  <1>. HIDE DEF m
  <1>10. NodeOK(m, ns, ls)
    BY <1>2, <1>4, <1>5, <1>6, <1>7, <1>8, <1>9, Zenon DEF NodeOK, m
  <1>. QED  BY <1>8, <1>10, Zenon DEF m

\* split() of a node that asked for it leaves two nodes.
LEMMA SplitOK ==
  ASSUME NEW n, NEW ns, NEW ls, NodeOK(n, ns, ls), n.flag
  PROVE  /\ NodeOK(SplitLeft(n), ns, ls) /\ SplitLeft(n).v = n.v
         /\ NodeOK(NotRoot(n), ns, ls) /\ NotRoot(n).v = n.v
         /\ NodeOK(SplitRight(n), ns, ls) /\ SplitRight(n).v = 0
  <1>. DEFINE p == SplitPos(n)
  <1>1. /\ IsSeq(n.seps) /\ IsSeq(n.kids) /\ Len(n.seps) \in Nat /\ Len(n.kids) \in Nat
        /\ Len(n.kids) = Len(n.seps) + 1 /\ Len(n.kids) >= 2
    BY NodeFields, Zenon
  <1>2. p \in Nat /\ 1 <= p /\ p <= Len(n.seps) /\ p - 1 \in Nat /\ p + 1 \in Nat
    <2>1. \A l \in Nat : l >= 2 => l - l \div 2 \in 1..(l - 1)
      OBVIOUS
    <2>2. Len(n.kids) - Len(n.kids) \div 2 \in 1..(Len(n.kids) - 1)
      BY <1>1, <2>1, Zenon
    <2>3. p \in 1..(Len(n.kids) - 1)
      BY <2>2, Zenon DEF SplitPos
    <2>. HIDE DEF p
    <2>. QED  BY <1>1, <2>3
  <1>. HIDE DEF p
  <1>. DEFINE sl == SubSeq(n.seps, 1, p - 1)
              kl == SubSeq(n.kids, 1, p)
              sr == SubSeq(n.seps, p + 1, Len(n.seps))
              kr == SubSeq(n.kids, p + 1, Len(n.kids))
  <1>3. IsSeq(sl) /\ Len(sl) = p - 1
    BY <1>1, <1>2, SubSeqIsSeq
  <1>4. /\ IsSeq(kl) /\ Len(kl) = p
        /\ \A j \in 1..p : \E i \in 1..Len(n.kids) : kl[j] = n.kids[i]
    <2>1. 1 \in Nat /\ 1 <= 1 /\ p <= Len(n.kids) /\ 1 <= p + 1 /\ p - 1 + 1 = p
      BY <1>1, <1>2
    <2>. QED  BY <1>1, <1>2, <2>1, SubSeqIsSeq
  <1>5. IsSeq(sr) /\ Len(sr) = Len(n.seps) - p
    <2>1. 1 <= p + 1 /\ p + 1 <= Len(n.seps) + 1 /\ Len(n.seps) - (p + 1) + 1 = Len(n.seps) - p
      BY <1>1, <1>2
    <2>. QED  BY <1>1, <1>2, <2>1, SubSeqIsSeq
  <1>6. /\ IsSeq(kr) /\ Len(kr) = Len(n.kids) - p
        /\ \A j \in 1..(Len(n.kids) - p) : \E i \in 1..Len(n.kids) : kr[j] = n.kids[i]
    <2>1. 1 <= p + 1 /\ p + 1 <= Len(n.kids) + 1 /\ Len(n.kids) - (p + 1) + 1 = Len(n.kids) - p
      BY <1>1, <1>2
    <2>. QED  BY <1>1, <1>2, <2>1, SubSeqIsSeq
  <1>. HIDE DEF sl, kl, sr, kr
  <1>7. SplitLeft(n) \in [v : {n.v}, isroot : {n.isroot}, flag : {FALSE}, seps : {sl}, kids : {kl}]
    BY Zenon DEF NodeOK, SplitLeft, sl, kl, p
  <1>8. SplitRight(n) \in [v : {0}, isroot : {FALSE}, flag : {FALSE}, seps : {sr}, kids : {kr}]
    BY Zenon DEF SplitRight, NewNode, sr, kr, p
  <1>9. NotRoot(n) \in [v : {n.v}, isroot : {FALSE}, flag : {FALSE}, seps : {sl}, kids : {kl}]
    BY <1>7, Zenon DEF NotRoot
  <1>10. /\ \A j \in 1..Len(kl) : PageOK(kl[j], ns, ls)
         /\ \A j \in 1..Len(kr) : PageOK(kr[j], ns, ls)
    BY <1>4, <1>6, NodeFields, Zenon
  <1>11. Len(kl) = Len(sl) + 1 /\ Len(kr) = Len(sr) + 1
    BY <1>1, <1>2, <1>3, <1>4, <1>5, <1>6
  <1>12. NodeOK(SplitLeft(n), ns, ls) /\ SplitLeft(n).v = n.v
    <2>. DEFINE m == SplitLeft(n)
    <2>1. m.v = n.v /\ m.flag = FALSE /\ m.seps = sl /\ m.kids = kl
      BY <1>7, Zenon
    <2>2. n.v \in Nat /\ n.v % 2 = 0
      BY NodeFields, Zenon
    <2>. HIDE DEF m
    <2>3. NodeOK(m, ns, ls)
      BY <1>7, <1>3, <1>4, <1>10, <1>11, <2>1, <2>2, Zenon DEF NodeOK, m
    <2>. QED  BY <2>1, <2>3, Zenon DEF m
  <1>13. NodeOK(SplitRight(n), ns, ls) /\ SplitRight(n).v = 0
    <2>. DEFINE m == SplitRight(n)
    <2>1. m.v = 0 /\ m.flag = FALSE /\ m.seps = sr /\ m.kids = kr
      BY <1>8, Zenon
    <2>2. 0 \in Nat /\ 0 % 2 = 0
      BY NodeFields
    <2>. HIDE DEF m
    <2>3. NodeOK(m, ns, ls)
      BY <1>8, <1>5, <1>6, <1>10, <1>11, <2>1, <2>2, Zenon DEF NodeOK, m
    <2>. QED  BY <2>1, <2>3, Zenon DEF m
  <1>14. NodeOK(NotRoot(n), ns, ls) /\ NotRoot(n).v = n.v
    <2>. DEFINE m == NotRoot(n)
    <2>1. m.v = n.v /\ m.flag = FALSE /\ m.seps = sl /\ m.kids = kl
      BY <1>9, Zenon
    <2>2. n.v \in Nat /\ n.v % 2 = 0
      BY NodeFields, Zenon
    <2>. HIDE DEF m
    <2>3. NodeOK(m, ns, ls)
      BY <1>9, <1>3, <1>4, <1>10, <1>11, <2>1, <2>2, Zenon DEF NodeOK, m
    <2>. QED  BY <2>1, <2>3, Zenon DEF m
  <1>. QED  BY <1>12, <1>13, <1>14, Zenon

-----------------------------------------------------------------------------
\* What a step of thread t leaves to the others.

\* Versions do not go back; a node without a guard of t that keeps its version keeps its
\* children, and one with somebody's guard keeps its version.
NodesKept(t) ==
  /\ IsSeq(nodes') /\ Len(nodes) <= Len(nodes')
  /\ \A i \in 1..Len(nodes) :
       /\ nodes[i].v <= nodes'[i].v
       /\ i \notin Guards(t) /\ nodes'[i].v = nodes[i].v =>
            nodes'[i].kids = nodes[i].kids /\ (nodes[i].flag => nodes'[i].flag)
       /\ i \notin Guards(t) /\ is_locked(nodes[i].v) => nodes'[i].v = nodes[i].v

\* Leaves stay locked by whoever else has locked them, and only with the X lock does
\* t move a mini page.
LeafKept(t, l, m) ==
  /\ \A u \in Threads \ {t} : (l.x = u => m.x = u) /\ (u \in l.s => u \in m.s)
  /\ m.page = l.page \/ l.x = t
LeavesKept(t) ==
  /\ IsSeq(leaves') /\ Len(leaves) <= Len(leaves')
  /\ \A i \in 1..Len(leaves') : LeafOK(leaves'[i])
  /\ \A i \in 1..Len(leaves) : LeafKept(t, leaves[i], leaves'[i])

\* A new guard is of a node that was not locked, or was not there.
NewGuards(t) ==
  \A i \in Guards(t)' : i \in Guards(t) \/ i \notin 1..Len(nodes) \/ ~is_locked(nodes[i].v)

\* The nodes with guards are nodes.
LEMMA GuardsAreNodes ==
  ASSUME NEW t \in Threads, TreeOK(root, nodes, leaves), ThreadOK(t)
  PROVE  Guards(t) \subseteq 1..Len(nodes)
  <1>1. /\ Len(nodes) \in Nat
        /\ th[t].pc \in AtNode => th[t].cur.id \in 1..Len(nodes)
        /\ th[t].pc \in {"split_node", "drop_node", "split_leaf", "drop_parent"} =>
             th[t].par \in 1..Len(nodes)
    <2>1. Len(nodes) \in Nat
      BY SeqDomain, Zenon DEF TreeOK
    <2>2. th[t].par \in 0..Len(nodes)
      BY Zenon DEF ThreadOK, ThreadType
    <2>3. th[t].pc \in AtNode => th[t].cur.id \in 1..Len(nodes)
      <3>1. th[t].pc \in AtNode => th[t].pc \notin AtLeaf
        BY Zenon DEF AtNode, AtLeaf
      <3>. QED  BY <3>1, Zenon DEF ThreadOK, CurOK, PageOK
    <2>4. th[t].pc \in {"split_node", "drop_node", "split_leaf", "drop_parent"} => th[t].par # 0
      BY Zenon DEF ThreadOK, GuardOK, None
    <2>5. th[t].par # 0 => th[t].par \in 1..Len(nodes)
      BY <2>1, <2>2
    <2>. QED  BY <2>1, <2>3, <2>4, <2>5, Zenon
  <1>. QED  BY <1>1, Zenon DEF Guards, AtNode

\* What the others know stays true.
LEMMA OthersOK ==
  ASSUME IInv, NEW t \in Threads, NEW u \in Threads, u # t, th'[u] = th[u],
         TreeOK(root', nodes', leaves'), NodesKept(t), LeavesKept(t), root'.leaf => root.leaf
  PROVE  ThreadOK(u)'
  <1>. DEFINE r == th[u]
  <1>1. /\ ThreadOK(u) /\ Guards(t) \cap Guards(u) = {} /\ Guards(u) \subseteq 1..Len(nodes)
        /\ \A i \in Guards(t) : is_locked(nodes[i].v)
    BY GuardsAreNodes, Zenon DEF IInv, Exclusive, ThreadOK, GuardOK
  <1>2. /\ Len(nodes) \in Nat /\ Len(nodes') \in Nat /\ Len(nodes) <= Len(nodes')
        /\ Len(leaves) \in Nat /\ Len(leaves') \in Nat /\ Len(leaves) <= Len(leaves')
    BY SeqDomain, Zenon DEF IInv, TreeOK, NodesKept, LeavesKept
  <1>3. ThreadType(u)'
    <2>1. 0..Len(nodes) \subseteq 0..Len(nodes')
      BY <1>2
    <2>. QED  BY <1>1, <2>1, Zenon DEF ThreadOK, ThreadType
  <1>4. CurOK(u)'
    <2>1. PageOK(r.cur, nodes, leaves) => PageOK(r.cur, nodes', leaves')
      BY <1>2, Grown
    <2>. QED  BY <1>1, <2>1, Zenon DEF ThreadOK, CurOK
  <1>5. r.par \in 0..Len(nodes) /\ (r.pc \in AtNode => r.cur.id \in 1..Len(nodes))
    BY <1>1, Zenon DEF ThreadOK, ThreadType, CurOK, PageOK, AtNode, AtLeaf
  <1>6. \A i \in 1..Len(nodes) : nodes[i].v \in Nat /\ nodes'[i].v \in Nat
    <2>. SUFFICES ASSUME NEW i \in 1..Len(nodes)
                  PROVE  nodes[i].v \in Nat /\ nodes'[i].v \in Nat
      BY Zenon
    <2>1. i \in 1..Len(nodes')
      BY <1>2
    <2>2. NodeOK(nodes[i], nodes, leaves) /\ NodeOK(nodes'[i], nodes', leaves')
      BY <2>1, Zenon DEF IInv, TreeOK
    <2>. QED  BY <2>2, NodeFields, Zenon
  <1>7. ASSUME NEW i \in 1..Len(nodes), NEW v \in Nat, Version(v), v <= nodes[i].v
        PROVE  /\ v <= nodes'[i].v
               /\ nodes'[i].v = v => /\ nodes[i].v = v /\ nodes'[i].kids = nodes[i].kids
                                     /\ nodes[i].flag => nodes'[i].flag
    <2>1. nodes[i].v <= nodes'[i].v
      BY Zenon DEF NodesKept
    <2>2. v <= nodes'[i].v /\ (nodes'[i].v = v => nodes[i].v = v)
      BY <1>6, <1>7, <2>1
    <2>3. nodes[i].v = v => i \notin Guards(t)
      BY <1>1, <1>7, Zenon DEF Version
    <2>. QED  BY <2>2, <2>3, Zenon DEF NodesKept
  <1>8. ReadOK(u)'
    <2>1. Version(r.parv) /\ Version(r.curv) /\ r.parv \in Nat /\ r.curv \in Nat
      BY <1>1, Zenon DEF ThreadOK, ReadOK, Version
    <2>2. r.par # None => r.par \in 1..Len(nodes)
      BY <1>2, <1>5 DEF None
    <2>3. {"upgrade_node", "child"} \subseteq AtNode
      BY Zenon DEF AtNode
    <2>4. /\ r.par = None => r.parv = 0
          /\ r.pc \in {"idle", "acquire", "root"} => r.curv = 0
          /\ r.par # None => r.parv <= nodes[r.par].v
          /\ r.par # None /\ r.pc \in AtNode \cup AtLeaf /\ nodes[r.par].v = r.parv =>
               r.cur \in Range(nodes[r.par].kids)
          /\ r.pc \in {"upgrade_node", "child"} => r.curv <= nodes[r.cur.id].v
          /\ r.pc = "upgrade_node" /\ nodes[r.cur.id].v = r.curv => nodes[r.cur.id].flag
      BY <1>1, Zenon DEF ThreadOK, ReadOK
    <2>5. r.par # None => /\ r.parv <= nodes'[r.par].v
                          /\ nodes'[r.par].v = r.parv => /\ nodes[r.par].v = r.parv
                                                         /\ nodes'[r.par].kids = nodes[r.par].kids
      BY <1>7, <2>1, <2>2, <2>4, Zenon
    <2>6. r.pc \in {"upgrade_node", "child"} =>
            /\ r.curv <= nodes'[r.cur.id].v
            /\ nodes'[r.cur.id].v = r.curv => /\ nodes[r.cur.id].v = r.curv
                                              /\ nodes[r.cur.id].flag => nodes'[r.cur.id].flag
      BY <1>5, <1>7, <2>1, <2>3, <2>4, Zenon
    <2>. HIDE DEF r
    <2>7. /\ r.par = None => r.parv = 0
          /\ r.pc \in {"idle", "acquire", "root"} => r.curv = 0
          /\ r.par # None => r.parv <= nodes'[r.par].v
          /\ r.par # None /\ r.pc \in AtNode \cup AtLeaf /\ nodes'[r.par].v = r.parv =>
               r.cur \in Range(nodes'[r.par].kids)
          /\ r.pc \in {"upgrade_node", "child"} => r.curv <= nodes'[r.cur.id].v
          /\ r.pc = "upgrade_node" /\ nodes'[r.cur.id].v = r.curv => nodes'[r.cur.id].flag
      BY <2>4, <2>5, <2>6, Zenon
    <2>8. th'[u] = r
      BY Zenon DEF r
    <2>. QED  BY <2>1, <2>7, <2>8, Zenon DEF ReadOK
  <1>9. \A i \in Guards(u) : /\ nodes'[i].v = nodes[i].v /\ nodes'[i].kids = nodes[i].kids
                             /\ nodes[i].flag => nodes'[i].flag
    BY <1>1, Zenon DEF NodesKept, ThreadOK, GuardOK
  <1>10. GuardOK(u)'
    <2>1. Guards(u)' = Guards(u)
      BY Zenon DEF Guards
    <2>2. /\ r.pc \in {"upgrade_parent", "split_node", "split_root"} => r.cur.id \in Guards(u)
          /\ r.pc \in {"split_leaf", "split_node"} => r.par \in Guards(u)
      BY Zenon DEF Guards
    <2>. QED  BY <1>1, <1>9, <2>1, <2>2, Zenon DEF ThreadOK, GuardOK
  <1>11. LatchOK(u)'
    <2>1. r.pc \in AtLeaf => r.cur.id \in 1..Len(leaves)
      BY <1>1, Zenon DEF ThreadOK, CurOK, PageOK
    <2>2. \A i \in 1..Len(leaves) : LeafOK(leaves[i]) /\ LeafKept(t, leaves[i], leaves'[i])
      BY Zenon DEF IInv, TreeOK, LeavesKept
    <2>3. \A i \in 1..Len(leaves) : leaves[i].x = u \/ u \in leaves[i].s =>
            /\ leaves[i].x = u => leaves'[i].x = u
            /\ u \in leaves[i].s => u \in leaves'[i].s
            /\ leaves'[i].page = leaves[i].page
      BY <2>2, ThreadsAssumption DEF LeafOK, LeafKept
    <2>4. {"try_split_leaf", "merge", "upgrade", "split_leaf", "drop_parent", "move", "check",
           "leaf"} \subseteq AtLeaf
      BY Zenon DEF AtLeaf
    <2>. QED  BY <1>1, <2>1, <2>3, <2>4, Zenon DEF ThreadOK, LatchOK
  <1>. QED  BY <1>3, <1>4, <1>8, <1>10, <1>11, Zenon DEF ThreadOK

\* A step keeps the invariant if it keeps the tree, what the others know and what its
\* own thread knows.
LEMMA StepOK ==
  ASSUME IInv, NEW t \in Threads, NEW r, th' = [th EXCEPT ![t] = r], NodesKept(t),
         LeavesKept(t), NewGuards(t), root'.leaf => root.leaf,
         TreeOK(root', nodes', leaves'), ThreadOK(t)'
  PROVE  IInv'
  <1>1. \A u \in Threads \ {t} : th'[u] = th[u]
    BY Zenon DEF IInv
  <1>2. \A u \in Threads : ThreadOK(u)'
    BY <1>1, OthersOK, Zenon
  <1>3. Exclusive'
    <2>1. \A u \in Threads \ {t} : Guards(u)' = Guards(u)
      BY <1>1, Zenon DEF Guards
    <2>2. \A u \in Threads : Guards(u) \subseteq 1..Len(nodes) /\ \A i \in Guards(u) : is_locked(nodes[i].v)
      BY GuardsAreNodes, Zenon DEF IInv, ThreadOK, GuardOK
    <2>3. \A u \in Threads \ {t} : Guards(t)' \cap Guards(u) = {}
      BY <2>2, Zenon DEF IInv, Exclusive, NewGuards
    <2>. QED  BY <2>1, <2>3 DEF IInv, Exclusive
  <1>. QED  BY <1>2, <1>3, Zenon DEF IInv

-----------------------------------------------------------------------------
\* The parts of a step.

\* Lengths, nodes and leaves of the tree as it is.
LEMMA Now ==
  ASSUME IInv
  PROVE  /\ IsSeq(nodes) /\ Len(nodes) \in Nat /\ DOMAIN nodes = 1..Len(nodes)
         /\ IsSeq(leaves) /\ Len(leaves) \in Nat /\ DOMAIN leaves = 1..Len(leaves)
         /\ \A i \in 1..Len(nodes) : NodeOK(nodes[i], nodes, leaves)
         /\ \A i \in 1..Len(nodes) : nodes[i].v \in Nat /\ nodes[i].v % 2 = 0
         /\ \A i \in 1..Len(leaves) : LeafOK(leaves[i])
  <1>1. IsSeq(nodes) /\ IsSeq(leaves)
    BY Zenon DEF IInv, TreeOK
  <1>2. /\ \A i \in 1..Len(nodes) : NodeOK(nodes[i], nodes, leaves)
        /\ \A i \in 1..Len(leaves) : LeafOK(leaves[i])
    BY Zenon DEF IInv, TreeOK
  <1>3. \A i \in 1..Len(nodes) : nodes[i].v \in Nat /\ nodes[i].v % 2 = 0
    BY <1>2, NodeFields, Zenon
  <1>. QED  BY <1>1, <1>2, <1>3, SeqDomain, Zenon

\* Pages and nodes of the tree before are pages and nodes of the tree after.
LEMMA GrownNow ==
  ASSUME IInv, NEW t \in Threads, NodesKept(t), LeavesKept(t)
  PROVE  /\ Len(nodes') \in Nat /\ Len(nodes) <= Len(nodes')
         /\ Len(leaves') \in Nat /\ Len(leaves) <= Len(leaves')
         /\ 1..Len(nodes) \subseteq 1..Len(nodes')
         /\ \A q : PageOK(q, nodes, leaves) => PageOK(q, nodes', leaves')
         /\ \A n : NodeOK(n, nodes, leaves) => NodeOK(n, nodes', leaves')
  <1>1. /\ Len(nodes') \in Nat /\ Len(nodes) <= Len(nodes')
        /\ Len(leaves') \in Nat /\ Len(leaves) <= Len(leaves')
    BY SeqDomain, Zenon DEF NodesKept, LeavesKept
  <1>2. Len(nodes) \in Nat /\ Len(leaves) \in Nat
    BY Now, Zenon
  <1>3. 1..Len(nodes) \subseteq 1..Len(nodes')
    BY <1>1, <1>2
  <1>. QED  BY <1>1, <1>2, <1>3, Grown, Zenon

\* The inner nodes do not change.
LEMMA SameNodes ==
  ASSUME IInv, NEW t \in Threads, nodes' = nodes
  PROVE  /\ NodesKept(t) /\ Len(nodes') = Len(nodes)
         /\ \A i \in 1..Len(nodes) : NodeOK(nodes'[i], nodes, leaves)
  BY Now DEF NodesKept

\* The leaves do not change.
LEMMA SameLeaves ==
  ASSUME IInv, NEW t \in Threads, leaves' = leaves
  PROVE  LeavesKept(t)
  BY Now DEF LeavesKept, LeafKept

\* One leaf changes.
LEMMA EditLeaf ==
  ASSUME IInv, NEW t \in Threads, NEW i \in 1..Len(leaves), NEW l, LeafOK(l),
         LeafKept(t, leaves[i], l), leaves' = [leaves EXCEPT ![i] = l]
  PROVE  LeavesKept(t) /\ Len(leaves') = Len(leaves)
  <1>1. IsSeq(leaves') /\ Len(leaves') = Len(leaves)
    BY Now, ExceptIsSeq, Zenon
  <1>2. \A j \in 1..Len(leaves) : leaves'[j] = IF j = i THEN l ELSE leaves[j]
    BY Now, Zenon
  <1>3. \A j \in 1..Len(leaves) : LeafOK(leaves'[j])
    BY <1>2, Now, Zenon
  <1>4. \A j \in 1..Len(leaves) : LeafKept(t, leaves[j], leaves'[j])
    BY <1>2, Zenon DEF LeafKept
  <1>. QED  BY <1>1, <1>3, <1>4, Now DEF LeavesKept

\* A leaf that t unlocks.
LEMMA UnlockedOK ==
  ASSUME NEW t \in Threads, NEW l, LeafOK(l)
  PROVE  LeafOK(Unlocked(l, t)) /\ LeafKept(t, l, Unlocked(l, t)) /\ Unlocked(l, t).page = l.page
  BY Zenon DEF LeafOK, Unlocked, LeafKept, None

\* Versions of unlocked nodes, and of nodes with a guard, go up by 2.
LEMMA BumpedOK ==
  ASSUME IInv, NEW t \in Threads, NEW S, nodes' = Bumped(S),
         \A i \in S \cap 1..Len(nodes) : i \in Guards(t) \/ ~is_locked(nodes[i].v)
  PROVE  /\ NodesKept(t) /\ Len(nodes') = Len(nodes)
         /\ \A i \in 1..Len(nodes) :
              /\ NodeOK(nodes'[i], nodes, leaves)
              /\ nodes'[i].v = IF i \in S THEN nodes[i].v + 2 ELSE nodes[i].v
              /\ nodes'[i].kids = nodes[i].kids /\ nodes'[i].flag = nodes[i].flag
  <1>1. nodes' = [i \in 1..Len(nodes) |-> nodes'[i]]
    BY Now, Zenon DEF Bumped
  <1>2. IsSeq(nodes') /\ Len(nodes') = Len(nodes)
    BY <1>1, Now, MapIsSeq, Zenon
  <1>3. \A i \in 1..Len(nodes) :
          nodes'[i] = IF i \in S THEN [nodes[i] EXCEPT !.v = nodes[i].v + 2] ELSE nodes[i]
    BY Now, Zenon DEF Bumped
  <1>4. ASSUME NEW i \in 1..Len(nodes)
        PROVE  /\ NodeOK(nodes'[i], nodes, leaves)
               /\ nodes'[i].v = IF i \in S THEN nodes[i].v + 2 ELSE nodes[i].v
               /\ nodes'[i].kids = nodes[i].kids /\ nodes'[i].flag = nodes[i].flag
    <2>1. NodeOK(nodes[i], nodes, leaves) /\ nodes[i].v \in Nat /\ nodes[i].v % 2 = 0
      BY Now, Zenon
    <2>2. nodes[i].v + 2 \in Nat /\ (nodes[i].v + 2) % 2 = 0
      BY <2>1, Bump, Zenon
    <2>. QED  BY <1>3, <2>1, <2>2, Zenon DEF NodeOK
  <1>5. \A i \in 1..Len(nodes) : nodes[i].v <= nodes'[i].v
    BY <1>4, Now
  <1>. QED  BY <1>2, <1>4, <1>5, Now DEF NodesKept

\* The tree after a step that adds no page.
LEMMA SameShape ==
  ASSUME IInv, NEW t \in Threads, NodesKept(t), LeavesKept(t), root' = root,
         Len(nodes') = Len(nodes), Len(leaves') = Len(leaves),
         \A i \in 1..Len(nodes) : NodeOK(nodes'[i], nodes, leaves),
         root.leaf => \A i \in 1..Len(leaves) : leaves'[i].page = leaves[i].page
  PROVE  TreeOK(root', nodes', leaves')
  <1>1. /\ \A p : PageOK(p, nodes, leaves) => PageOK(p, nodes', leaves')
        /\ \A n : NodeOK(n, nodes, leaves) => NodeOK(n, nodes', leaves')
    BY Now, Grown
  <1>2. PageOK(root', nodes', leaves')
    BY <1>1, Zenon DEF IInv, TreeOK
  <1>3. root.leaf => Len(nodes) = 0 /\ \A i \in 1..Len(leaves) : leaves[i].page = None
    BY Zenon DEF IInv, TreeOK
  <1>. QED  BY <1>1, <1>2, <1>3, Zenon DEF TreeOK, NodesKept, LeavesKept

\* A thread with a parent is in a tree with inner nodes.
LEMMA HasParent ==
  ASSUME IInv, NEW t \in Threads, th[t].par # None
  PROVE  ~root.leaf /\ th[t].par \in 1..Len(nodes)
  <1>1. th[t].par \in 0..Len(nodes)
    BY Zenon DEF IInv, ThreadOK, ThreadType
  <1>2. th[t].par \in 1..Len(nodes)
    BY <1>1, Now DEF None
  <1>3. root.leaf => Len(nodes) = 0
    BY Zenon DEF IInv, TreeOK
  <1>. QED  BY <1>2, <1>3

\* A thread that is not in the tree yet.
AtRest(r) ==
  r \in [pc : {"idle", "root", "acquire"}, op : Ops, key : {r.key}, aggr : {r.aggr},
         cur : {r.cur}, par : {0}, parv : {0}, curv : {0}, new : {r.new},
         held : {r.held}, page : {r.page}, out : {r.out}, must : {r.must}]

\* Whatever the tree, a thread that is not in it knows nothing that could be wrong.
LEMMA RestOK ==
  ASSUME IInv, NEW t \in Threads, TreeOK(root', nodes', leaves'), NEW r, th' = [th EXCEPT ![t] = r],
         AtRest(r), r.op = "evict" => r.page # None /\ (r.pc = "root" => ~root'.leaf)
  PROVE  ThreadOK(t)' /\ NewGuards(t)
  <1>1. th'[t] = r
    BY Zenon DEF IInv
  <1>2. Len(nodes') \in Nat
    BY SeqDomain, Zenon DEF TreeOK
  <1>3. ThreadType(t)'
    BY <1>1, <1>2 DEF AtRest, ThreadType, Pcs
  <1>4. Guards(t)' = {}
    BY <1>1, Zenon DEF AtRest, Guards
  <1>5. r.pc \notin AtNode /\ r.pc \notin AtLeaf
    BY Zenon DEF AtRest, AtNode, AtLeaf
  <1>6. CurOK(t)' /\ GuardOK(t)'
    BY <1>1, <1>4, <1>5, Zenon DEF AtRest, CurOK, GuardOK, None
  <1>7. ReadOK(t)'
    BY <1>1, <1>5, ZeroVersion, Zenon DEF AtRest, ReadOK, None
  <1>8. LatchOK(t)'
    BY <1>1, <1>5, Zenon DEF AtRest, LatchOK, None
  <1>. QED  BY <1>3, <1>4, <1>6, <1>7, <1>8, Zenon DEF ThreadOK, NewGuards

\* A step that fails and starts over.
LEMMA FailOK ==
  ASSUME IInv, NEW t \in Threads, NEW error, Go(t, Again(th[t], error)), NodesKept(t),
         LeavesKept(t), root'.leaf => root.leaf, TreeOK(root', nodes', leaves')
  PROVE  IInv'
  <1>. DEFINE r == Again(th[t], error)
  <1>1. ThreadType(t) /\ (th[t].op = "evict" => th[t].page # None)
    BY Zenon DEF IInv, ThreadOK, GuardOK
  <1>2. /\ AtRest(r)
        /\ r.op = th[t].op /\ r.page = th[t].page /\ (r.op = "evict" => r.pc = "acquire")
    BY <1>1, Zenon DEF AtRest, ThreadType, Again, None
  <1>. HIDE DEF r
  <1>3. th' = [th EXCEPT ![t] = r]
    BY Zenon DEF Go, r
  <1>4. ThreadOK(t)' /\ NewGuards(t)
    BY <1>1, <1>2, <1>3, RestOK, Zenon
  <1>. QED  BY <1>3, <1>4, StepOK, Zenon

\* A step that ends the call.
LEMMA FinishOK ==
  ASSUME IInv, NEW t \in Threads, Go(t, Idle), NodesKept(t),
         LeavesKept(t), root'.leaf => root.leaf, TreeOK(root', nodes', leaves')
  PROVE  IInv'
  <1>. DEFINE r == Idle
  <1>1. AtRest(r) /\ r.op # "evict"
    BY Zenon DEF AtRest, Idle, Ops, None
  <1>. HIDE DEF r
  <1>2. th' = [th EXCEPT ![t] = r]
    BY Zenon DEF Go, r
  <1>3. ThreadOK(t)' /\ NewGuards(t)
    BY <1>1, <1>2, RestOK, Zenon
  <1>. QED  BY <1>2, <1>3, StepOK, Zenon

\* A step that leaves the tree alone.
LEMMA QuietOK ==
  ASSUME IInv, NEW t \in Threads, NEW r, th' = [th EXCEPT ![t] = r], NewGuards(t), ThreadOK(t)',
         UNCHANGED <<root, nodes, leaves>>
  PROVE  IInv'
  <1>1. TreeOK(root', nodes', leaves')
    BY Zenon DEF IInv
  <1>2. NodesKept(t) /\ LeavesKept(t)
    BY SameNodes, SameLeaves, Zenon
  <1>. QED  BY <1>1, <1>2, StepOK, Zenon

\* A failed step that leaves the tree alone keeps the invariant.
LEMMA QuietFailOK ==
  ASSUME IInv, NEW t \in Threads, NEW error, Fail(t, error), UNCHANGED <<root, nodes, leaves>>
  PROVE  IInv'
  <1>1. TreeOK(root', nodes', leaves')
    BY Zenon DEF IInv
  <1>2. NodesKept(t) /\ LeavesKept(t)
    BY SameNodes, SameLeaves, Zenon
  <1>. QED  BY <1>1, <1>2, FailOK, Zenon DEF Fail

\* The fields of a thread, and of a thread that only goes on to its next step.
Fields(r) ==
  r \in [pc : Pcs, op : Ops, key : {r.key}, aggr : {r.aggr}, cur : {r.cur}, par : Nat, parv : Nat,
         curv : Nat, new : {r.new}, held : {r.held}, page : {r.page}, out : {r.out},
         must : {r.must}]

\* A thread has its fields, and its parent is a node.
LEMMA ThreadFields ==
  ASSUME IInv, NEW t \in Threads
  PROVE  Fields(th[t]) /\ th[t].par \in 0..Len(nodes)
  <1>1. Len(nodes) \in Nat /\ ThreadType(t)
    BY Now, Zenon DEF IInv, ThreadOK
  <1>2. 0..Len(nodes) \subseteq Nat
    BY <1>1
  <1>. QED  BY <1>1, <1>2, Zenon DEF ThreadType, Fields

\* The type of a thread after its step, from its fields.
LEMMA TypeAfter ==
  ASSUME IInv, NEW t \in Threads, NEW r, Fields(r), th' = [th EXCEPT ![t] = r],
         r.par \in 0..Len(nodes')
  PROVE  ThreadType(t)' /\ th'[t] = r
  BY Zenon DEF IInv, ThreadType, Fields

\* A thread that goes on has its type, and all but its pc.
LEMMA StepFields ==
  ASSUME IInv, NEW t \in Threads, NEW pc \in Pcs, Step(t, pc), Len(nodes) <= Len(nodes'),
         Len(nodes') \in Nat
  PROVE  /\ ThreadType(t)' /\ th' = [th EXCEPT ![t] = th'[t]]
         /\ th'[t].pc = pc /\ th'[t].op = th[t].op /\ th'[t].cur = th[t].cur
         /\ th'[t].par = th[t].par /\ th'[t].parv = th[t].parv /\ th'[t].curv = th[t].curv
         /\ th'[t].page = th[t].page
  <1>. DEFINE r == [th[t] EXCEPT !.pc = pc]
  <1>1. /\ Fields(r) /\ r.pc = pc /\ r.op = th[t].op /\ r.cur = th[t].cur /\ r.par = th[t].par
        /\ r.parv = th[t].parv /\ r.curv = th[t].curv /\ r.page = th[t].page
    BY ThreadFields, Zenon DEF Fields
  <1>2. r.par \in 0..Len(nodes')
    <2>1. th[t].par \in 0..Len(nodes) /\ Len(nodes) \in Nat
      BY ThreadFields, Now, Zenon
    <2>2. 0..Len(nodes) \subseteq 0..Len(nodes')
      BY <2>1
    <2>. QED  BY <1>1, <2>1, <2>2, Zenon
  <1>3. th' = [th EXCEPT ![t] = r]
    BY Zenon DEF Step, Go
  <1>. HIDE DEF r
  <1>4. ThreadType(t)' /\ th'[t] = r
    BY <1>1, <1>2, <1>3, TypeAfter, Zenon
  <1>. QED  BY <1>1, <1>3, <1>4, Zenon

\* The node a thread is at.
LEMMA CurIsNode ==
  ASSUME IInv, NEW t \in Threads, th[t].pc \in AtNode
  PROVE  /\ th[t].cur.id \in 1..Len(nodes) /\ ~th[t].cur.leaf /\ PageOK(th[t].cur, nodes, leaves)
         /\ NodeOK(nodes[th[t].cur.id], nodes, leaves)
         /\ nodes[th[t].cur.id].v \in Nat /\ nodes[th[t].cur.id].v % 2 = 0
  <1>1. th[t].pc \notin AtLeaf
    BY Zenon DEF AtNode, AtLeaf
  <1>2. PageOK(th[t].cur, nodes, leaves) /\ ~th[t].cur.leaf
    BY <1>1, Zenon DEF IInv, ThreadOK, CurOK
  <1>. QED  BY <1>2, Now, Zenon DEF PageOK

\* The leaf a thread is at.
LEMMA CurIsLeaf ==
  ASSUME IInv, NEW t \in Threads, th[t].pc \in AtLeaf
  PROVE  /\ th[t].cur.id \in 1..Len(leaves) /\ th[t].cur.leaf /\ PageOK(th[t].cur, nodes, leaves)
         /\ LeafOK(leaves[th[t].cur.id])
  <1>1. PageOK(th[t].cur, nodes, leaves) /\ th[t].cur.leaf
    BY Zenon DEF IInv, ThreadOK, CurOK
  <1>. QED  BY <1>1, Now, Zenon DEF PageOK

\* A thread stays at its leaf, and adds or removes no page.
LEMMA AtLeafOK ==
  ASSUME IInv, NEW t \in Threads, th[t].pc \in AtLeaf, Guards(t) = {},
         NEW pc \in {"try_split_leaf", "lock", "check", "leaf", "merge", "upgrade"}, Step(t, pc),
         UNCHANGED <<root, nodes>>, LeavesKept(t), Len(leaves') = Len(leaves),
         root.leaf => \A i \in 1..Len(leaves) : leaves'[i].page = leaves[i].page,
         pc \in {"merge", "upgrade"} => th[t].par # None,
         pc = "merge" => th[t].op \in {"insert", "evict", "scan"},
         \/ pc \in {"try_split_leaf", "merge", "upgrade"}
         \/ pc \in {"check", "leaf"} /\ th[t].op \in {"insert", "evict", "none"}
         => leaves'[th[t].cur.id].x = t,
         pc \in {"check", "leaf"} /\ th[t].op \in {"read", "scan"} =>
           leaves'[th[t].cur.id].x = t \/ t \in leaves'[th[t].cur.id].s,
         pc = "leaf" /\ th[t].op = "scan" /\ th[t].par = None =>
           leaves'[th[t].cur.id].page = None
  PROVE  IInv'
  <1>1. /\ NodesKept(t) /\ Len(nodes') = Len(nodes)
        /\ \A i \in 1..Len(nodes) : NodeOK(nodes'[i], nodes, leaves)
    BY SameNodes, Zenon
  <1>2. TreeOK(root', nodes', leaves')
    BY <1>1, SameShape, Zenon
  <1>3. pc \in Pcs /\ pc \in AtLeaf /\ pc \notin AtNode
    BY Zenon DEF Pcs, AtLeaf, AtNode
  <1>4. /\ ThreadType(t)' /\ th' = [th EXCEPT ![t] = th'[t]]
        /\ th'[t].pc = pc /\ th'[t].op = th[t].op /\ th'[t].cur = th[t].cur
        /\ th'[t].par = th[t].par /\ th'[t].parv = th[t].parv /\ th'[t].curv = th[t].curv
        /\ th'[t].page = th[t].page
    <2>1. Len(nodes') \in Nat /\ Len(nodes) <= Len(nodes')
      BY <1>1, GrownNow, Zenon
    <2>. QED  BY <1>3, <2>1, StepFields, Zenon
  <1>5. ThreadOK(t)
    BY Zenon DEF IInv
  <1>6. CurOK(t)'
    <2>1. PageOK(th[t].cur, nodes', leaves') /\ th[t].cur.leaf
      BY <1>1, CurIsLeaf, GrownNow, Zenon
    <2>. QED  BY <1>3, <1>4, <2>1, Zenon DEF CurOK
  <1>7. ReadOK(t)'
    BY <1>3, <1>4, <1>5, Zenon DEF ThreadOK, ReadOK
  <1>8. Guards(t)' = {}
    BY <1>4, Zenon DEF Guards
  <1>9. GuardOK(t)'
    BY <1>4, <1>5, <1>8, Zenon DEF ThreadOK, GuardOK
  <1>10. LatchOK(t)'
    BY <1>4, <1>5, Zenon DEF ThreadOK, LatchOK, AtLeaf
  <1>. QED  BY <1>1, <1>2, <1>4, <1>6, <1>7, <1>8, <1>9, <1>10, StepOK, Zenon
               DEF ThreadOK, NewGuards

\* The tree after a step that changes leaves only.
LEMMA LeavesOnly ==
  ASSUME IInv, NEW t \in Threads, UNCHANGED <<root, nodes>>, LeavesKept(t),
         Len(leaves') = Len(leaves),
         root.leaf => \A i \in 1..Len(leaves) : leaves'[i].page = leaves[i].page
  PROVE  NodesKept(t) /\ TreeOK(root', nodes', leaves')
  <1>1. /\ NodesKept(t) /\ Len(nodes') = Len(nodes)
        /\ \A i \in 1..Len(nodes) : NodeOK(nodes'[i], nodes, leaves)
    BY SameNodes, Zenon
  <1>. QED  BY <1>1, SameShape, Zenon

\* The leaf is unlocked, or stays locked for a scan that holds it.
LEMMA LeaveOK ==
  ASSUME IInv, NEW t \in Threads, NEW i \in 1..Len(leaves), Leave(t, i) \/ UnlockLeaf(t, i)
  PROVE  /\ LeavesKept(t) /\ Len(leaves') = Len(leaves)
         /\ \A j \in 1..Len(leaves) : leaves'[j].page = leaves[j].page
  <1>1. CASE leaves' = leaves
    BY <1>1, SameLeaves, Zenon
  <1>2. CASE leaves' = [leaves EXCEPT ![i] = Unlocked(leaves[i], t)]
    <2>1. LeafOK(leaves[i])
      BY Now, Zenon
    <2>2. /\ LeafOK(Unlocked(leaves[i], t)) /\ LeafKept(t, leaves[i], Unlocked(leaves[i], t))
          /\ Unlocked(leaves[i], t).page = leaves[i].page
      BY <2>1, UnlockedOK, Zenon
    <2>3. \A j \in 1..Len(leaves) : leaves'[j] = IF j = i THEN Unlocked(leaves[i], t) ELSE leaves[j]
      BY <1>2, Now, Zenon
    <2>. QED  BY <1>2, <2>2, <2>3, EditLeaf, Zenon
  <1>. QED  BY <1>1, <1>2, Zenon DEF Leave, UnlockLeaf

\* A thread that unlocks its leaf and starts over keeps the invariant.
LEMMA GiveUpOK ==
  ASSUME IInv, NEW t \in Threads, th[t].pc \in AtLeaf, NEW error, UNCHANGED <<root, nodes>>,
         Leave(t, th[t].cur.id) \/ UnlockLeaf(t, th[t].cur.id), Fail(t, error)
  PROVE  IInv'
  <1>1. /\ LeavesKept(t) /\ Len(leaves') = Len(leaves)
        /\ \A j \in 1..Len(leaves) : leaves'[j].page = leaves[j].page
    BY CurIsLeaf, LeaveOK, Zenon
  <1>. QED  BY <1>1, LeavesOnly, FailOK, Zenon DEF Fail

-----------------------------------------------------------------------------
\* The steps that leave the inner nodes alone keep the invariant: the calls, the
\* descent, and the work on a locked leaf.

\* The steps of a call that read only.

\* A thread that is still not in the tree keeps the invariant.
LEMMA RestStepOK ==
  ASSUME IInv, NEW t \in Threads, NEW r, Go(t, r), AtRest(r), UNCHANGED <<root, nodes, leaves>>,
         r.op = "evict" => r.page # None /\ (r.pc = "root" => ~root.leaf)
  PROVE  IInv'
  <1>1. TreeOK(root', nodes', leaves')
    BY Zenon DEF IInv
  <1>2. ThreadOK(t)' /\ NewGuards(t)
    BY <1>1, RestOK, Zenon DEF Go
  <1>. QED  BY <1>2, QuietOK, Zenon DEF Go

\* The calls keep the invariant (BfTree::insert, read, ScanIter::new, evict_from_circular_buffer).
LEMMA BeginOK ==
  ASSUME IInv, NEW t \in Threads, BeginInsert(t) \/ BeginRead(t) \/ BeginScan(t) \/ BeginEvict(t)
  PROVE  IInv'
  <1>1. UNCHANGED <<root, nodes, leaves>>
    BY Zenon DEF BeginInsert, BeginRead, BeginScan, BeginEvict, Begin
  <1>2. CASE BeginInsert(t)
    <2>1. PICK k : Go(t, [Idle EXCEPT !.pc = "root", !.op = "insert", !.key = k])
      BY <1>2, Zenon DEF BeginInsert, Begin
    <2>. DEFINE r == [Idle EXCEPT !.pc = "root", !.op = "insert", !.key = k]
    <2>2. AtRest(r) /\ r.op # "evict"
      BY Zenon DEF AtRest, Idle, Ops, None
    <2>. HIDE DEF r
    <2>. QED  BY <1>1, <2>1, <2>2, RestStepOK, Zenon DEF r
  <1>3. CASE BeginRead(t)
    <2>1. PICK k : Go(t, [Idle EXCEPT !.pc = "root", !.op = "read", !.key = k])
      BY <1>3, Zenon DEF BeginRead, Begin
    <2>. DEFINE r == [Idle EXCEPT !.pc = "root", !.op = "read", !.key = k]
    <2>2. AtRest(r) /\ r.op # "evict"
      BY Zenon DEF AtRest, Idle, Ops, None
    <2>. HIDE DEF r
    <2>. QED  BY <1>1, <2>1, <2>2, RestStepOK, Zenon DEF r
  <1>4. CASE BeginScan(t)
    <2>. DEFINE r == [Idle EXCEPT !.pc = "root", !.op = "scan", !.key = Min(Keys), !.must = done]
    <2>1. Go(t, r)
      BY <1>4, Zenon DEF BeginScan, Begin
    <2>2. AtRest(r) /\ r.op # "evict"
      BY Zenon DEF AtRest, Idle, Ops, None
    <2>. HIDE DEF r
    <2>. QED  BY <1>1, <2>1, <2>2, RestStepOK, Zenon
  <1>5. CASE BeginEvict(t)
    <2>1. PICK q : /\ q # None
                   /\ Go(t, [Idle EXCEPT !.pc = "acquire", !.op = "evict", !.page = q, !.aggr = TRUE])
      BY <1>5, Zenon DEF BeginEvict, Begin, PageOf
    <2>. DEFINE r == [Idle EXCEPT !.pc = "acquire", !.op = "evict", !.page = q, !.aggr = TRUE]
    <2>2. AtRest(r) /\ r.page = q /\ r.pc = "acquire"
      BY Zenon DEF AtRest, Idle, Ops, None
    <2>. HIDE DEF r
    <2>. QED  BY <1>1, <2>1, <2>2, RestStepOK, Zenon DEF r
  <1>. QED  BY <1>2, <1>3, <1>4, <1>5, Zenon

\* An evictor that has found its page is in a tree with inner nodes.
LEMMA AcquireOK ==
  ASSUME IInv, NEW t \in Threads, Acquire(t)
  PROVE  IInv'
  <1>1. UNCHANGED <<root, nodes, leaves>> /\ th[t].pc = "acquire"
    BY Zenon DEF Acquire
  <1>2. CASE Go(t, Idle)
    <2>1. AtRest(Idle) /\ Idle.op # "evict"
      BY Zenon DEF AtRest, Idle, Ops, None
    <2>. QED  BY <1>1, <1>2, <2>1, RestStepOK, Zenon
  <1>3. ASSUME NEW i \in DOMAIN leaves, NEW k, leaves[i].page = th[t].page,
               Go(t, [th[t] EXCEPT !.pc = "root", !.key = k])
        PROVE  IInv'
    <2>. DEFINE r == [th[t] EXCEPT !.pc = "root", !.key = k]
    <2>1. /\ ThreadType(t) /\ th[t].par = 0 /\ (th[t].op = "evict" => th[t].page # None)
          /\ th[t].parv = 0 /\ th[t].curv = 0
      BY <1>1, Zenon DEF IInv, ThreadOK, GuardOK, ReadOK, None
    <2>2. th[t].op = "evict" => ~root.leaf
      BY <1>3, <2>1, Now, Zenon DEF IInv, TreeOK
    <2>3. AtRest(r) /\ r.op = th[t].op /\ r.page = th[t].page
      BY <2>1, Zenon DEF AtRest, ThreadType
    <2>. HIDE DEF r
    <2>. QED  BY <1>1, <1>3, <2>1, <2>2, <2>3, RestStepOK, Zenon DEF r
  <1>. QED  BY <1>2, <1>3, Zenon DEF Acquire

\* The next step at a page is one for its kind.
LEMMA StepAtOK ==
  ASSUME NEW r, NEW q, NEW ns, NEW ls, PageOK(q, ns, ls)
  PROVE  /\ StepAt(r, q) \in {"lock_to_split", "lock", "try_split", "try_read"}
         /\ StepAt(r, q) \in Pcs /\ StepAt(r, q) \in AtNode \cup AtLeaf
         /\ q.leaf <=> StepAt(r, q) \in AtLeaf
  BY Zenon DEF StepAt, PageOK, Pcs, AtNode, AtLeaf

\* BfTree::get_root_page keeps the invariant.
LEMMA RootPageOK ==
  ASSUME IInv, NEW t \in Threads, get_root_page(t)
  PROVE  IInv'
  <1>. DEFINE r == [th[t] EXCEPT !.cur = root, !.pc = StepAt(th[t], root)]
  <1>1. UNCHANGED <<root, nodes, leaves>> /\ th' = [th EXCEPT ![t] = r] /\ th[t].pc = "root"
    BY Zenon DEF get_root_page, Go
  <1>2. /\ PageOK(root, nodes, leaves) /\ StepAt(th[t], root) \in Pcs
        /\ StepAt(th[t], root) \in {"lock_to_split", "lock", "try_split", "try_read"}
        /\ root.leaf <=> StepAt(th[t], root) \in AtLeaf
    BY StepAtOK, Zenon DEF IInv, TreeOK
  <1>3. /\ Fields(r) /\ r.cur = root /\ r.pc = StepAt(th[t], root) /\ r.par = th[t].par
        /\ r.parv = th[t].parv /\ r.curv = th[t].curv /\ r.op = th[t].op /\ r.page = th[t].page
    BY <1>2, ThreadFields, Zenon DEF Fields
  <1>4. /\ th[t].par = None /\ th[t].parv = 0 /\ th[t].curv = 0
        /\ th[t].op = "evict" => ~root.leaf /\ th[t].page # None
    BY <1>1, Zenon DEF IInv, ThreadOK, GuardOK, ReadOK, LatchOK
  <1>. HIDE DEF r
  <1>5. ThreadType(t)' /\ th'[t] = r
    BY <1>1, <1>3, TypeAfter, ThreadFields, Zenon
  <1>6. CurOK(t)'
    BY <1>1, <1>2, <1>3, <1>5, Zenon DEF CurOK
  <1>7. Guards(t)' = {}
    BY <1>2, <1>3, <1>5, Zenon DEF Guards
  <1>8. ReadOK(t)'
    BY <1>2, <1>3, <1>4, <1>5, ZeroVersion, Zenon DEF ReadOK
  <1>9. GuardOK(t)'
    BY <1>2, <1>3, <1>4, <1>5, <1>7, Zenon DEF GuardOK
  <1>10. LatchOK(t)'
    BY <1>1, <1>2, <1>3, <1>4, <1>5, Zenon DEF LatchOK
  <1>. QED  BY <1>1, <1>5, <1>6, <1>7, <1>8, <1>9, <1>10, QuietOK, Zenon DEF ThreadOK, NewGuards

\* A thread stays at its node, with the version it has read.
LEMMA AtNodeOK ==
  ASSUME IInv, NEW t \in Threads, UNCHANGED <<root, nodes, leaves>>, th[t].pc \in AtNode,
         NEW r, Go(t, r), Fields(r), r.pc \in {"upgrade_node", "try_read", "child"},
         r.cur = th[t].cur, r.par = th[t].par, r.parv = th[t].parv, r.op = th[t].op,
         r.page = th[t].page, Version(r.curv),
         r.pc # "try_read" => r.curv <= nodes[r.cur.id].v,
         r.pc = "upgrade_node" => nodes[r.cur.id].flag
  PROVE  IInv'
  <1>1. th' = [th EXCEPT ![t] = r]
    BY Zenon DEF Go
  <1>2. ThreadType(t)' /\ th'[t] = r
    BY <1>1, TypeAfter, ThreadFields, Zenon
  <1>3. ThreadOK(t)
    BY Zenon DEF IInv
  <1>4. r.pc \in AtNode /\ r.pc \notin AtLeaf /\ th[t].pc \notin AtLeaf
    BY Zenon DEF AtNode, AtLeaf
  <1>5. CurOK(t)'
    BY <1>2, <1>3, <1>4, Zenon DEF ThreadOK, CurOK
  <1>6. Guards(t)' = {}
    BY <1>2, Zenon DEF Guards
  <1>7. ReadOK(t)'
    BY <1>2, <1>3, <1>4, Zenon DEF ThreadOK, ReadOK
  <1>8. GuardOK(t)'
    BY <1>2, <1>3, <1>6, Zenon DEF ThreadOK, GuardOK
  <1>9. LatchOK(t)'
    BY <1>2, <1>3, <1>4, Zenon DEF ThreadOK, LatchOK, AtNode
  <1>. QED  BY <1>1, <1>2, <1>5, <1>6, <1>7, <1>8, <1>9, QuietOK, Zenon DEF ThreadOK, NewGuards

\* The test of the split flag in try_split_inner keeps the invariant.
LEMMA TrySplitInnerOK ==
  ASSUME IInv, NEW t \in Threads, TrySplitInner(t)
  PROVE  IInv'
  <1>. DEFINE n == nodes[th[t].cur.id]
  <1>1. UNCHANGED <<root, nodes, leaves>> /\ th[t].pc = "try_split" /\ th[t].pc \in AtNode
    BY Zenon DEF TrySplitInner, AtNode
  <1>2. CASE Fail(t, "Locked")
    BY <1>1, <1>2, QuietFailOK, Zenon
  <1>3. CASE /\ ~is_locked(n.v)
             /\ Go(t, IF n.flag THEN [th[t] EXCEPT !.pc = "upgrade_node", !.curv = n.v]
                      ELSE [th[t] EXCEPT !.pc = "try_read"])
    <2>1. NodeOK(n, nodes, leaves) /\ n.v \in Nat /\ n.v % 2 = 0
      BY <1>1, CurIsNode, Zenon
    <2>2. Fields(th[t])
      BY ThreadFields, Zenon
    <2>3. CASE n.flag
      <3>. DEFINE r == [th[t] EXCEPT !.pc = "upgrade_node", !.curv = n.v]
      <3>1. /\ Fields(r) /\ r.pc = "upgrade_node" /\ r.cur = th[t].cur /\ r.par = th[t].par
            /\ r.parv = th[t].parv /\ r.op = th[t].op /\ r.page = th[t].page /\ r.curv = n.v
        BY <2>1, <2>2, Zenon DEF Fields, Pcs, AtNode
      <3>2. Go(t, r) /\ Version(n.v) /\ n.v <= n.v
        BY <1>3, <2>1, <2>3 DEF Version
      <3>. HIDE DEF r
      <3>. QED  BY <1>1, <2>3, <3>1, <3>2, AtNodeOK, Zenon
    <2>4. CASE ~n.flag
      <3>. DEFINE r == [th[t] EXCEPT !.pc = "try_read"]
      <3>1. /\ Fields(r) /\ r.pc = "try_read" /\ r.cur = th[t].cur /\ r.par = th[t].par
            /\ r.parv = th[t].parv /\ r.op = th[t].op /\ r.page = th[t].page /\ r.curv = th[t].curv
        BY <2>2, Zenon DEF Fields, Pcs, AtNode
      <3>2. Go(t, r) /\ Version(th[t].curv)
        BY <1>3, <2>4, Zenon DEF IInv, ThreadOK, ReadOK
      <3>. HIDE DEF r
      <3>. QED  BY <1>1, <3>1, <3>2, AtNodeOK, Zenon
    <2>. QED  BY <2>1, <2>3, <2>4, NodeFields, Zenon
  <1>. QED  BY <1>2, <1>3, Zenon DEF TrySplitInner

\* ReadGuard::try_read keeps the invariant.
LEMMA TryReadOK ==
  ASSUME IInv, NEW t \in Threads, try_read(t)
  PROVE  IInv'
  <1>. DEFINE v == nodes[th[t].cur.id].v
              r == [th[t] EXCEPT !.pc = "child", !.curv = v]
  <1>1. UNCHANGED <<root, nodes, leaves>> /\ th[t].pc = "try_read" /\ th[t].pc \in AtNode
    BY Zenon DEF try_read, AtNode
  <1>2. CASE Fail(t, "Locked")
    BY <1>1, <1>2, QuietFailOK, Zenon
  <1>3. CASE ~is_locked(v) /\ Go(t, r)
    <2>1. v \in Nat /\ v % 2 = 0
      BY <1>1, CurIsNode, Zenon
    <2>2. Version(v) /\ v <= v
      BY <1>3, <2>1 DEF Version
    <2>3. /\ Fields(r) /\ r.pc = "child" /\ r.cur = th[t].cur /\ r.par = th[t].par
          /\ r.parv = th[t].parv /\ r.op = th[t].op /\ r.page = th[t].page /\ r.curv = v
      BY <2>1, ThreadFields, Zenon DEF Fields, Pcs, AtNode
    <2>. HIDE DEF r
    <2>. QED  BY <1>1, <1>3, <2>2, <2>3, AtNodeOK, Zenon
  <1>. QED  BY <1>2, <1>3, Zenon DEF try_read

\* Whatever a torn read finds is a child.
LEMMA FoundOK ==
  ASSUME NEW i, NEW k, NodeOK(nodes[i], nodes, leaves), NEW j \in Found(i, k)
  PROVE  j \in 1..Len(nodes[i].kids)
  <1>. DEFINE p == lower_bound(nodes[i], k)
              L == Len(nodes[i].kids)
  <1>1. p \in 1..L /\ L \in Nat /\ DOMAIN nodes[i].kids = 1..L
    BY LowerBound, NodeFields, Zenon
  <1>2. \/ j \in DOMAIN nodes[i].kids
        \/ j = p
        \/ j = p - 1 /\ \E q \in 1..(p - 1) : TRUE
    BY Zenon DEF Found
  <1>. HIDE DEF p, L
  <1>3. (\E q \in 1..(p - 1) : TRUE) => p - 1 \in 1..L
    BY <1>1
  <1>. QED  BY <1>1, <1>2, <1>3, Zenon DEF L

\* A child read without a lock is a page, and a child of its node for as long as the node has
\* its version (traverse_to_leaf).
LEMMA ReadChildOK ==
  ASSUME IInv, NEW t \in Threads, ReadChild(t)
  PROVE  IInv'
  <1>. DEFINE c == th[t].cur.id
              n == nodes[c]
  <1>1. UNCHANGED <<root, nodes, leaves>> /\ th[t].pc = "child" /\ th[t].pc \in AtNode
    BY Zenon DEF ReadChild, AtNode
  <1>2. CASE Fail(t, "Locked")
    BY <1>1, <1>2, QuietFailOK, Zenon
  <1>3. ASSUME NEW j \in Found(c, th[t].key),
               Go(t, [th[t] EXCEPT !.pc = StepAt(th[t], n.kids[j]), !.cur = n.kids[j],
                                   !.par = c, !.parv = th[t].curv, !.curv = 0])
        PROVE  IInv'
    <2>. DEFINE kid == n.kids[j]
                r == [th[t] EXCEPT !.pc = StepAt(th[t], kid), !.cur = kid,
                                   !.par = c, !.parv = th[t].curv, !.curv = 0]
    <2>1. c \in 1..Len(nodes) /\ NodeOK(n, nodes, leaves) /\ Len(nodes) \in Nat
      BY <1>1, CurIsNode, Now, Zenon
    <2>2. j \in 1..Len(n.kids)
      BY <1>3, <2>1, FoundOK, Zenon
    <2>3. PageOK(kid, nodes, leaves) /\ kid \in Range(n.kids)
      BY <2>1, <2>2, NodeFields, Zenon DEF Range
    <2>. HIDE DEF kid
    <2>4. /\ StepAt(th[t], kid) \in {"lock_to_split", "lock", "try_split", "try_read"}
          /\ StepAt(th[t], kid) \in Pcs
          /\ kid.leaf <=> StepAt(th[t], kid) \in AtLeaf
      BY <2>3, StepAtOK, Zenon
    <2>5. c \in Nat /\ c # None /\ c \in 0..Len(nodes)
      BY <2>1 DEF None
    <2>6. /\ Fields(r) /\ r.pc = StepAt(th[t], kid) /\ r.cur = kid /\ r.par = c
          /\ r.parv = th[t].curv /\ r.curv = 0 /\ r.op = th[t].op /\ r.page = th[t].page
      BY <2>4, <2>5, ThreadFields, Zenon DEF Fields
    <2>7. th' = [th EXCEPT ![t] = r]
      BY <1>3, Zenon DEF Go, kid
    <2>. HIDE DEF r
    <2>8. ThreadType(t)' /\ th'[t] = r
      BY <1>1, <2>5, <2>6, <2>7, TypeAfter, Zenon
    <2>9. CurOK(t)'
      BY <1>1, <2>3, <2>4, <2>6, <2>8, Zenon DEF CurOK
    <2>10. Guards(t)' = {}
      BY <2>4, <2>6, <2>8, Zenon DEF Guards
    <2>11. Version(0) /\ Version(th[t].curv) /\ th[t].curv <= n.v
      BY <1>1, ZeroVersion, Zenon DEF IInv, ThreadOK, ReadOK
    <2>. HIDE DEF c
    <2>12. ReadOK(t)'
      BY <1>1, <2>3, <2>4, <2>5, <2>6, <2>8, <2>11, Zenon DEF ReadOK
    <2>13. th[t].op = "evict" => th[t].page # None /\ ~root.leaf
      BY <1>1, Zenon DEF IInv, ThreadOK, GuardOK, LatchOK
    <2>14. GuardOK(t)'
      BY <2>4, <2>6, <2>8, <2>10, <2>13, Zenon DEF GuardOK
    <2>15. LatchOK(t)'
      BY <1>1, <2>4, <2>5, <2>6, <2>8, <2>13, Zenon DEF LatchOK
    <2>. QED  BY <1>1, <2>7, <2>8, <2>9, <2>10, <2>12, <2>14, <2>15, QuietOK, Zenon
                 DEF ThreadOK, NewGuards
  <1>. QED  BY <1>2, <1>3, Zenon DEF ReadChild

-----------------------------------------------------------------------------
\* Steps at a leaf.

\* The leaf of t is written and unlocked.
LEMMA PutOK ==
  ASSUME IInv, NEW t \in Threads, th[t].pc \in AtLeaf, NEW l, LeafOK(l),
         LeafKept(t, leaves[th[t].cur.id], l), leaves' = Put(t, l)
  PROVE  /\ LeavesKept(t) /\ Len(leaves') = Len(leaves)
         /\ l.page = leaves[th[t].cur.id].page =>
              \A j \in 1..Len(leaves) : leaves'[j].page = leaves[j].page
  <1>. DEFINE c == th[t].cur.id
              m == Unlocked(l, t)
  <1>1. c \in 1..Len(leaves)
    BY CurIsLeaf, Zenon
  <1>2. LeafOK(m) /\ LeafKept(t, l, m) /\ m.page = l.page
    BY UnlockedOK, Zenon
  <1>3. leaves' = [leaves EXCEPT ![c] = m]
    BY Zenon DEF Put
  <1>. HIDE DEF m, c
  <1>4. LeafKept(t, leaves[c], m)
    BY <1>2, Zenon DEF LeafKept, c
  <1>5. \A j \in 1..Len(leaves) : leaves'[j] = IF j = c THEN m ELSE leaves[j]
    BY <1>3, Now, Zenon
  <1>. QED  BY <1>1, <1>2, <1>3, <1>4, <1>5, EditLeaf, Zenon DEF c

\* The lock of try_split_leaf keeps the invariant.
LEMMA LockToSplitOK ==
  ASSUME IInv, NEW t \in Threads, LockToSplit(t)
  PROVE  IInv'
  <1>. DEFINE c == th[t].cur.id
              l == [leaves[c] EXCEPT !.x = t]
  <1>1. /\ th[t].pc = "lock_to_split" /\ th[t].pc \in AtLeaf /\ UNCHANGED <<root, nodes>>
        /\ leaves[c].x = None /\ leaves[c].s = {} /\ Step(t, "try_split_leaf") /\ Guards(t) = {}
    BY Zenon DEF LockToSplit, AtLeaf, Guards
  <1>2. c \in 1..Len(leaves) /\ LeafOK(leaves[c]) /\ DOMAIN leaves = 1..Len(leaves)
    BY <1>1, CurIsLeaf, Now, Zenon
  <1>3. LeafOK(l) /\ LeafKept(t, leaves[c], l) /\ l.page = leaves[c].page /\ l.x = t
    BY <1>1, <1>2, ThreadsAssumption, Zenon DEF LeafOK, LeafKept
  <1>4. leaves' = [leaves EXCEPT ![c] = l]
    BY Zenon DEF LockToSplit
  <1>. HIDE DEF l
  <1>5. LeavesKept(t) /\ Len(leaves') = Len(leaves)
    BY <1>2, <1>3, <1>4, EditLeaf, Zenon
  <1>6. leaves'[c].x = t /\ \A j \in 1..Len(leaves) : leaves'[j].page = leaves[j].page
    BY <1>2, <1>3, <1>4, Zenon
  <1>. QED  BY <1>1, <1>5, <1>6, AtLeafOK, Zenon

\* PageTable::get and get_mut keep the invariant.
LEMMA LockLeafOK ==
  ASSUME IInv, NEW t \in Threads, LockLeaf(t)
  PROVE  IInv'
  <1>. DEFINE c == th[t].cur.id
              shared == th[t].op \in {"read", "scan"}
              l == IF shared THEN [leaves[c] EXCEPT !.s = leaves[c].s \cup {t}]
                             ELSE [leaves[c] EXCEPT !.x = t]
              pc == IF th[t].op = "evict" THEN "leaf" ELSE "check"
  <1>1. /\ th[t].pc = "lock" /\ th[t].pc \in AtLeaf /\ UNCHANGED <<root, nodes>>
        /\ leaves[c].x = None /\ (~shared => leaves[c].s = {}) /\ Step(t, pc) /\ Guards(t) = {}
    BY Zenon DEF LockLeaf, AtLeaf, Guards
  <1>2. c \in 1..Len(leaves) /\ LeafOK(leaves[c]) /\ DOMAIN leaves = 1..Len(leaves)
    BY <1>1, CurIsLeaf, Now, Zenon
  <1>3. /\ LeafOK(l) /\ LeafKept(t, leaves[c], l) /\ l.page = leaves[c].page
        /\ shared => t \in l.s
        /\ ~shared => l.x = t
    BY <1>1, <1>2, ThreadsAssumption, Zenon DEF LeafOK, LeafKept
  <1>4. leaves' = [leaves EXCEPT ![c] = l]
    BY Zenon DEF LockLeaf
  <1>. HIDE DEF l
  <1>5. LeavesKept(t) /\ Len(leaves') = Len(leaves)
    BY <1>2, <1>3, <1>4, EditLeaf, Zenon
  <1>6. leaves'[c] = l /\ \A j \in 1..Len(leaves) : leaves'[j].page = leaves[j].page
    BY <1>2, <1>3, <1>4, Zenon
  <1>7. (shared => t \in leaves'[c].s) /\ (~shared => leaves'[c].x = t)
    BY <1>3, <1>6, Zenon
  <1>8. pc \in {"check", "leaf"} /\ (pc = "leaf" => th[t].op # "scan")
    BY Zenon
  <1>. HIDE DEF pc
  <1>. QED  BY <1>1, <1>5, <1>6, <1>7, <1>8, AtLeafOK, Zenon

\* check_parent! with the leaf locked keeps the invariant.
LEMMA CheckLeafOK ==
  ASSUME IInv, NEW t \in Threads, CheckLeaf(t)
  PROVE  IInv'
  <1>. DEFINE c == th[t].cur.id
  <1>1. /\ th[t].pc = "check" /\ th[t].pc \in AtLeaf /\ UNCHANGED <<root, nodes>> /\ Guards(t) = {}
    BY Zenon DEF CheckLeaf, AtLeaf, Guards
  <1>2. CASE Leave(t, c) /\ Fail(t, "Locked")
    BY <1>1, <1>2, GiveUpOK, Zenon
  <1>3. CASE check_parent(th[t]) /\ Step(t, "leaf") /\ leaves' = leaves
    <2>1. LeavesKept(t) /\ Len(leaves') = Len(leaves)
      BY <1>3, SameLeaves, Zenon
    <2>2. c \in 1..Len(leaves) /\ th[t].cur.leaf
      BY <1>1, CurIsLeaf, Zenon
    <2>3. th[t].par = None => leaves[c].page = None
      BY <1>3, <2>2, Zenon DEF check_parent, IInv, TreeOK
    <2>4. /\ th[t].op \in {"insert", "evict", "none"} => leaves[c].x = t
          /\ th[t].op \in {"read", "scan"} => leaves[c].x = t \/ t \in leaves[c].s
      BY <1>1, Zenon DEF IInv, ThreadOK, LatchOK
    <2>. QED  BY <1>1, <1>3, <2>1, <2>3, <2>4, AtLeafOK, Zenon
  <1>. QED  BY <1>2, <1>3, Zenon DEF CheckLeaf

\* A read of the locked leaf keeps the invariant.
LEMMA ReadLeafOK ==
  ASSUME IInv, NEW t \in Threads, Read(t)
  PROVE  IInv'
  <1>. DEFINE c == th[t].cur.id
  <1>1. /\ th[t].pc \in AtLeaf /\ UNCHANGED <<root, nodes>> /\ Go(t, Idle) /\ UnlockLeaf(t, c)
    BY Zenon DEF Read, AtLeaf, Finish, UnlockLeaf
  <1>2. /\ LeavesKept(t) /\ Len(leaves') = Len(leaves)
        /\ \A j \in 1..Len(leaves) : leaves'[j].page = leaves[j].page
    BY <1>1, CurIsLeaf, LeaveOK, Zenon
  <1>. QED  BY <1>1, <1>2, LeavesOnly, FinishOK, Zenon

\* eviction_callback keeps the invariant.
LEMMA EvictionCallbackOK ==
  ASSUME IInv, NEW t \in Threads, EvictionCallback(t)
  PROVE  IInv'
  <1>. DEFINE c == th[t].cur.id
  <1>1. /\ th[t].pc = "leaf" /\ th[t].op = "evict" /\ th[t].pc \in AtLeaf
        /\ UNCHANGED <<root, nodes>> /\ Guards(t) = {}
    BY Zenon DEF EvictionCallback, AtLeaf, Guards
  <1>2. CASE GiveUp(t, "NeedRestart")
    BY <1>1, <1>2, GiveUpOK, Zenon DEF GiveUp
  <1>3. CASE Step(t, "merge") /\ leaves' = leaves
    <2>1. LeavesKept(t) /\ Len(leaves') = Len(leaves)
      BY <1>3, SameLeaves, Zenon
    <2>2. leaves[c].x = t /\ th[t].par # None
      BY <1>1, Zenon DEF IInv, ThreadOK, LatchOK
    <2>. QED  BY <1>1, <1>3, <2>1, <2>2, AtLeafOK, Zenon
  <1>. QED  BY <1>2, <1>3, Zenon DEF EvictionCallback

\* An insert into the leaf that is the root keeps the invariant.
LEMMA InsertRootOK ==
  ASSUME IInv, NEW t \in Threads, InsertRoot(t)
  PROVE  IInv'
  <1>. DEFINE c == th[t].cur.id
  <1>1. /\ th[t].pc = "leaf" /\ th[t].op = "insert" /\ th[t].pc \in AtLeaf
        /\ UNCHANGED <<root, nodes>>
    BY Zenon DEF InsertRoot, AtLeaf
  <1>2. LeafOK(leaves[c]) /\ leaves[c].x = t
    BY <1>1, CurIsLeaf, Zenon DEF IInv, ThreadOK, LatchOK
  <1>3. ASSUME NEW l, l \in {[leaves[c] EXCEPT !.base = leaves[c].base \cup {th[t].key}],
                             [leaves[c] EXCEPT !.flag = TRUE]}, leaves' = Put(t, l)
        PROVE  NodesKept(t) /\ LeavesKept(t) /\ TreeOK(root', nodes', leaves')
    <2>1. LeafOK(l) /\ LeafKept(t, leaves[c], l) /\ l.page = leaves[c].page
      BY <1>2, <1>3, Zenon DEF LeafOK, LeafKept
    <2>2. /\ LeavesKept(t) /\ Len(leaves') = Len(leaves)
          /\ \A j \in 1..Len(leaves) : leaves'[j].page = leaves[j].page
      BY <1>1, <1>3, <2>1, PutOK, Zenon
    <2>. QED  BY <1>1, <2>2, LeavesOnly, Zenon
  <1>4. CASE Finish(t, Put(t, [leaves[c] EXCEPT !.base = leaves[c].base \cup {th[t].key}]))
    BY <1>1, <1>3, <1>4, FinishOK, Zenon DEF Finish
  <1>5. CASE leaves' = Put(t, [leaves[c] EXCEPT !.flag = TRUE]) /\ Fail(t, "NeedRestart")
    BY <1>1, <1>3, <1>5, FailOK, Zenon DEF Fail
  <1>. QED  BY <1>4, <1>5, Zenon DEF InsertRoot

\* The mini page of a leaf below an inner node is to be merged.
LEMMA BeginDeallocOK ==
  ASSUME IInv, NEW t \in Threads, th[t].pc = "leaf", th[t].op \in {"insert", "scan"},
         th[t].par # None, UNCHANGED <<root, nodes>>,
         leaves[th[t].cur.id].x = t \/ leaves[th[t].cur.id].s = {t},
         NEW q, begin_dealloc(t, q)
  PROVE  IInv'
  <1>. DEFINE c == th[t].cur.id
              l == [Unlocked(leaves[c], t) EXCEPT !.x = t]
  <1>1. th[t].pc \in AtLeaf /\ Guards(t) = {}
    BY Zenon DEF AtLeaf, Guards
  <1>2. CASE GiveUp(t, "NeedRestart")
    BY <1>1, <1>2, GiveUpOK, Zenon DEF GiveUp
  <1>3. CASE leaves' = [leaves EXCEPT ![c] = l] /\ Step(t, "merge")
    <2>1. c \in 1..Len(leaves) /\ LeafOK(leaves[c]) /\ DOMAIN leaves = 1..Len(leaves)
      BY <1>1, CurIsLeaf, Now, Zenon
    <2>2. LeafOK(l) /\ LeafKept(t, leaves[c], l) /\ l.page = leaves[c].page /\ l.x = t
      BY <2>1, ThreadsAssumption, Zenon DEF LeafOK, LeafKept, Unlocked
    <2>. HIDE DEF l
    <2>3. LeavesKept(t) /\ Len(leaves') = Len(leaves)
      BY <1>3, <2>1, <2>2, EditLeaf, Zenon
    <2>4. leaves'[c].x = t /\ \A j \in 1..Len(leaves) : leaves'[j].page = leaves[j].page
      BY <1>3, <2>1, <2>2, Zenon
    <2>. QED  BY <1>1, <1>3, <2>3, <2>4, AtLeafOK, Zenon
  <1>. QED  BY <1>2, <1>3, Zenon DEF begin_dealloc

\* An insert into a mini page keeps the invariant.
LEMMA InsertMiniOK ==
  ASSUME IInv, NEW t \in Threads, InsertMini(t)
  PROVE  IInv'
  <1>. DEFINE c == th[t].cur.id
              l(q) == [leaves[c] EXCEPT !.mini = leaves[c].mini \cup {th[t].key}, !.page = q]
  <1>1. /\ th[t].pc = "leaf" /\ th[t].op = "insert" /\ th[t].pc \in AtLeaf /\ th[t].par # None
        /\ UNCHANGED <<root, nodes>>
    BY Zenon DEF InsertMini, AtLeaf
  <1>2. LeafOK(leaves[c]) /\ leaves[c].x = t /\ ~root.leaf
    BY <1>1, CurIsLeaf, HasParent, Zenon DEF IInv, ThreadOK, LatchOK
  <1>3. ASSUME NEW q, Finish(t, Put(t, l(q)))
        PROVE  IInv'
    <2>1. LeafOK(l(q)) /\ LeafKept(t, leaves[c], l(q))
      BY <1>2, Zenon DEF LeafOK, LeafKept
    <2>2. LeavesKept(t) /\ Len(leaves') = Len(leaves)
      BY <1>1, <1>3, <2>1, PutOK, Zenon DEF Finish
    <2>. QED  BY <1>1, <1>2, <1>3, <2>2, LeavesOnly, FinishOK, Zenon DEF Finish
  <1>4. ASSUME NEW error, GiveUp(t, error)
        PROVE  IInv'
    BY <1>1, <1>4, GiveUpOK, Zenon DEF GiveUp
  <1>5. CASE begin_dealloc(t, leaves[c].page)
    BY <1>1, <1>2, <1>5, BeginDeallocOK, Zenon
  <1>. QED  BY <1>3, <1>4, <1>5, Zenon DEF InsertMini

\* try_merge_mini_page without a split keeps the invariant.
LEMMA MergeOK ==
  ASSUME IInv, NEW t \in Threads, Merge(t)
  PROVE  IInv'
  <1>. DEFINE c == th[t].cur.id
              l == leaves[c]
              whole == [l EXCEPT !.base = l.base \cup l.mini, !.mini = {}, !.page = None]
  <1>1. /\ th[t].pc = "merge" /\ th[t].pc \in AtLeaf /\ UNCHANGED <<root, nodes>> /\ Guards(t) = {}
    BY Zenon DEF Merge, AtLeaf, Guards
  <1>2. /\ c \in 1..Len(leaves) /\ DOMAIN leaves = 1..Len(leaves) /\ LeafOK(l) /\ l.x = t
        /\ th[t].par # None /\ th[t].op \in {"insert", "evict", "scan"}
    BY <1>1, CurIsLeaf, Now, Zenon DEF IInv, ThreadOK, LatchOK, GuardOK
  <1>3. ~root.leaf
    BY <1>2, HasParent, Zenon
  <1>4. /\ LeafOK(whole) /\ LeafKept(t, leaves[c], whole) /\ whole.x = t /\ whole.page = None
    BY <1>2, Zenon DEF LeafOK, LeafKept
  <1>5. CASE GiveUp(t, "Locked")
    BY <1>1, <1>5, GiveUpOK, Zenon DEF GiveUp
  <1>6. CASE Step(t, "upgrade") /\ leaves' = leaves
    <2>1. LeavesKept(t) /\ Len(leaves') = Len(leaves)
      BY <1>6, SameLeaves, Zenon
    <2>. QED  BY <1>1, <1>2, <1>6, <2>1, AtLeafOK, Zenon
  <1>. HIDE DEF whole
  <1>7. CASE leaves' = Put(t, whole) /\ Fail(t, "NeedRestart")
    <2>1. LeavesKept(t) /\ Len(leaves') = Len(leaves)
      BY <1>1, <1>4, <1>7, PutOK, Zenon
    <2>. QED  BY <1>1, <1>3, <1>7, <2>1, LeavesOnly, FailOK, Zenon DEF Fail
  <1>8. CASE Finish(t, Put(t, whole))
    <2>1. LeavesKept(t) /\ Len(leaves') = Len(leaves)
      BY <1>1, <1>4, <1>8, PutOK, Zenon DEF Finish
    <2>. QED  BY <1>1, <1>3, <1>8, <2>1, LeavesOnly, FinishOK, Zenon DEF Finish
  <1>9. CASE leaves' = [leaves EXCEPT ![c] = whole] /\ Step(t, "leaf")
    <2>1. LeavesKept(t) /\ Len(leaves') = Len(leaves)
      BY <1>2, <1>4, <1>9, EditLeaf, Zenon
    <2>2. leaves'[c].x = t
      BY <1>2, <1>4, <1>9, Zenon
    <2>. QED  BY <1>1, <1>2, <1>3, <1>9, <2>1, <2>2, AtLeafOK, Zenon
  <1>. QED  BY <1>2, <1>5, <1>6, <1>7, <1>8, <1>9, Zenon DEF Merge, whole

\* The records of a leaf are returned; another leaf may be unlocked.
LEMMA ScanOK ==
  ASSUME IInv, NEW t \in Threads, Scan(t)
  PROVE  IInv'
  <1>. DEFINE c == th[t].cur.id
              l == leaves[c]
              h == th[t].held
  <1>1. /\ th[t].pc = "leaf" /\ th[t].op = "scan" /\ th[t].pc \in AtLeaf
        /\ UNCHANGED <<root, nodes>> /\ Guards(t) = {}
    BY Zenon DEF Scan, AtLeaf, Guards
  <1>2. l.x = t \/ t \in l.s
    BY <1>1, Zenon DEF IInv, ThreadOK, LatchOK
  <1>3. CASE l.page # None /\ l.s = {t} /\ begin_dealloc(t, l.page)
    <2>1. th[t].par # None
      BY <1>1, <1>3, Zenon DEF IInv, ThreadOK, LatchOK
    <2>. QED  BY <1>1, <1>3, <2>1, BeginDeallocOK, Zenon
  <1>4. CASE GiveUp(t, "Locked")
    BY <1>1, <1>4, GiveUpOK, Zenon DEF GiveUp
  <1>5. CASE /\ leaves' = IF h = None THEN leaves ELSE [leaves EXCEPT ![h] = Unlocked(leaves[h], t)]
             /\ Go(t, [Idle EXCEPT !.pc = "root", !.op = "scan", !.key = l.hi, !.must = th[t].must,
                                   !.out = th[t].out \cup RecordsFrom(l, th[t].key), !.held = c])
    <2>. DEFINE r == [Idle EXCEPT !.pc = "root", !.op = "scan", !.key = l.hi, !.must = th[t].must,
                                  !.out = th[t].out \cup RecordsFrom(l, th[t].key), !.held = c]
    <2>1. AtRest(r) /\ r.op # "evict"
      BY Zenon DEF AtRest, Idle, Ops, None
    <2>. HIDE DEF r
    <2>2. /\ LeavesKept(t) /\ Len(leaves') = Len(leaves)
          /\ \A j \in 1..Len(leaves) : leaves'[j].page = leaves[j].page
      <3>1. CASE h \in 1..Len(leaves) /\ h # None
        BY <1>5, <3>1, LeaveOK, Zenon DEF UnlockLeaf
      <3>2. CASE leaves' = leaves
        BY <3>2, SameLeaves, Zenon
      <3>3. h \notin 1..Len(leaves) /\ h # None => leaves' = leaves
        <4>1. IsSeq(leaves) /\ DOMAIN leaves = 1..Len(leaves)
          BY Now, Zenon
        <4>2. leaves = [j \in DOMAIN leaves |-> leaves[j]]
          BY <4>1 DEF IsSeq
        <4>. QED  BY <1>5, <4>1, <4>2, Zenon
      <3>. QED  BY <1>5, <3>1, <3>2, <3>3, Zenon
    <2>3. NodesKept(t) /\ TreeOK(root', nodes', leaves')
      BY <1>1, <2>2, LeavesOnly, Zenon
    <2>4. th' = [th EXCEPT ![t] = r]
      BY <1>5, Zenon DEF Go, r
    <2>5. ThreadOK(t)' /\ NewGuards(t)
      BY <2>1, <2>3, <2>4, RestOK, Zenon
    <2>. QED  BY <1>1, <2>2, <2>3, <2>4, <2>5, StepOK, Zenon
  <1>6. CASE Go(t, [th[t] EXCEPT !.pc = "end", !.out = th[t].out \cup RecordsFrom(l, th[t].key)])
             /\ leaves' = leaves
    <2>. DEFINE r == [th[t] EXCEPT !.pc = "end", !.out = th[t].out \cup RecordsFrom(l, th[t].key)]
    <2>1. /\ Fields(r) /\ r.pc = "end" /\ r.op = "scan" /\ r.par = th[t].par
          /\ r.parv = th[t].parv /\ r.curv = th[t].curv
      BY <1>1, ThreadFields, Zenon DEF Fields, Pcs
    <2>. HIDE DEF r
    <2>2. th' = [th EXCEPT ![t] = r]
      BY <1>6, Zenon DEF Go, r
    <2>3. ThreadType(t)' /\ th'[t] = r
      BY <1>1, <2>1, <2>2, TypeAfter, ThreadFields, Zenon
    <2>4. r.pc \notin AtNode /\ r.pc \notin AtLeaf
      BY <2>1, Zenon DEF AtNode, AtLeaf
    <2>5. Guards(t)' = {}
      BY <2>1, <2>3, Zenon DEF Guards
    <2>6. CurOK(t)' /\ GuardOK(t)' /\ LatchOK(t)'
      BY <2>1, <2>3, <2>4, <2>5, Zenon DEF CurOK, GuardOK, LatchOK
    <2>7. ReadOK(t)'
      BY <1>1, <2>1, <2>3, <2>4, Zenon DEF IInv, ThreadOK, ReadOK
    <2>. QED  BY <1>1, <1>6, <2>2, <2>3, <2>5, <2>6, <2>7, QuietOK, Zenon DEF ThreadOK, NewGuards
  <1>. QED  BY <1>3, <1>4, <1>5, <1>6, Zenon DEF Scan

\* The end of a scan keeps the invariant.
LEMMA EndScanOK ==
  ASSUME IInv, NEW t \in Threads, EndScan(t)
  PROVE  IInv'
  <1>1. /\ leaves' = [i \in 1..Len(leaves) |-> Unlocked(leaves[i], t)] /\ Go(t, Idle)
        /\ UNCHANGED <<root, nodes>>
    BY Now, Zenon DEF EndScan, Finish
  <1>2. IsSeq(leaves') /\ Len(leaves') = Len(leaves)
    BY <1>1, Now, MapIsSeq, Zenon
  <1>3. \A i \in 1..Len(leaves) : /\ LeafOK(leaves'[i]) /\ LeafKept(t, leaves[i], leaves'[i])
                                  /\ leaves'[i].page = leaves[i].page
    BY <1>1, Now, UnlockedOK, Zenon
  <1>4. LeavesKept(t)
    BY <1>2, <1>3, Now DEF LeavesKept
  <1>. QED  BY <1>1, <1>2, <1>3, <1>4, LeavesOnly, FinishOK, Zenon

\* The records of a mini page go to both halves of its leaf.
LEMMA MoveRecordsOK ==
  ASSUME IInv, NEW t \in Threads, MoveRecords(t)
  PROVE  IInv'
  <1>. DEFINE c == th[t].cur.id
              l == leaves[c]
              left == [MergeInto(l, Below(l.mini, l.hi)) EXCEPT !.mini = {}, !.page = None]
              a == Unlocked(left, t)
              b(m) == Unlocked(MergeInto(m, From(l.mini, l.hi)), t)
              one == [leaves EXCEPT ![c] = a]
              ls == [one EXCEPT ![th[t].new] = b(leaves[th[t].new])]
  <1>1. /\ th[t].pc = "move" /\ th[t].pc \in AtLeaf /\ UNCHANGED <<root, nodes>> /\ leaves' = ls
        /\ Go(t, Idle) \/ Fail(t, "NeedRestart")
    BY Zenon DEF MoveRecords, AtLeaf, Finish
  <1>2. c \in 1..Len(leaves) /\ LeafOK(l) /\ DOMAIN leaves = 1..Len(leaves) /\ l.x = t
    BY <1>1, CurIsLeaf, Now, Zenon DEF IInv, ThreadOK, LatchOK
  <1>3. th[t].par # None
    BY <1>1, Zenon DEF IInv, ThreadOK, GuardOK
  <1>4. LeafOK(a)
    <2>1. LeafOK(left)
      BY <1>2, Zenon DEF LeafOK, MergeInto
    <2>. QED  BY <2>1, UnlockedOK, Zenon
  <1>5. LeafKept(t, l, a)
    BY <1>2, Zenon DEF LeafKept, LeafOK, Unlocked, MergeInto
  <1>. HIDE DEF a
  <1>6. ASSUME NEW m, LeafOK(m)
        PROVE  LeafOK(b(m)) /\ LeafKept(t, m, b(m))
    <2>. DEFINE n == MergeInto(m, From(l.mini, l.hi))
    <2>1. LeafOK(n) /\ LeafKept(t, m, n) /\ n.page = m.page
      BY <1>6, Zenon DEF LeafOK, LeafKept, MergeInto
    <2>2. LeafOK(b(m)) /\ LeafKept(t, n, b(m)) /\ b(m).page = n.page
      BY <2>1, UnlockedOK, Zenon
    <2>. HIDE DEF n, b
    <2>. QED  BY <2>1, <2>2, Zenon DEF LeafKept
  <1>. HIDE DEF b
  <1>7. IsSeq(one) /\ Len(one) = Len(leaves)
    BY Now, ExceptIsSeq, Zenon
  <1>8. IsSeq(ls) /\ Len(ls) = Len(leaves)
    <2>. HIDE DEF one
    <2>. QED  BY <1>7, ExceptIsSeq, Zenon
  <1>9. \A j \in 1..Len(leaves) : LeafOK(one[j]) /\ LeafKept(t, leaves[j], one[j])
    <2>1. \A j \in 1..Len(leaves) : one[j] = IF j = c THEN a ELSE leaves[j]
      BY <1>2, Zenon
    <2>2. \A j \in 1..Len(leaves) : LeafKept(t, leaves[j], leaves[j])
      BY Zenon DEF LeafKept
    <2>. HIDE DEF one
    <2>. QED  BY <1>2, <1>4, <1>5, <2>1, <2>2, Now, Zenon
  <1>10. \A j \in 1..Len(leaves) : LeafOK(ls[j]) /\ LeafKept(t, leaves[j], ls[j])
    <2>. SUFFICES ASSUME NEW j \in 1..Len(leaves)
                  PROVE  LeafOK(ls[j]) /\ LeafKept(t, leaves[j], ls[j])
      BY Zenon
    <2>1. ls[j] = IF j = th[t].new THEN b(leaves[j]) ELSE one[j]
      BY <1>2, Zenon
    <2>2. LeafOK(one[j]) /\ LeafKept(t, leaves[j], one[j])
      BY <1>9, Zenon
    <2>3. LeafOK(b(leaves[j])) /\ LeafKept(t, leaves[j], b(leaves[j]))
      BY <1>6, Now, Zenon
    <2>. HIDE DEF ls, one
    <2>. QED  BY <2>1, <2>2, <2>3, Zenon
  <1>. HIDE DEF ls
  <1>11. LeavesKept(t) /\ Len(leaves') = Len(leaves)
    BY <1>1, <1>8, <1>10, Now DEF LeavesKept
  <1>12. NodesKept(t) /\ TreeOK(root', nodes', leaves')
    BY <1>1, <1>3, <1>11, HasParent, LeavesOnly, Zenon
  <1>. QED  BY <1>1, <1>11, <1>12, FinishOK, FailOK, Zenon DEF Fail

-----------------------------------------------------------------------------

\* Upgrades and drops.

\* Versions go up, and the tree stays.
LEMMA BumpedTree ==
  ASSUME IInv, NEW t \in Threads, NEW S, nodes' = Bumped(S), UNCHANGED root, LeavesKept(t),
         Len(leaves') = Len(leaves),
         root.leaf => \A i \in 1..Len(leaves) : leaves'[i].page = leaves[i].page,
         \A i \in S \cap 1..Len(nodes) : i \in Guards(t) \/ ~is_locked(nodes[i].v)
  PROVE  NodesKept(t) /\ TreeOK(root', nodes', leaves')
  <1>1. /\ NodesKept(t) /\ Len(nodes') = Len(nodes)
        /\ \A i \in 1..Len(nodes) : NodeOK(nodes'[i], nodes, leaves)
    BY BumpedOK, Zenon
  <1>. QED  BY <1>1, SameShape, Zenon

\* A node is upgraded.
LEMMA Upgraded ==
  ASSUME IInv, NEW t \in Threads, NEW i \in 1..Len(nodes), NEW v, CanUpgrade(i, v), Version(v),
         nodes' = Bumped({i}), UNCHANGED <<root, leaves>>
  PROVE  /\ NodesKept(t) /\ LeavesKept(t) /\ TreeOK(root', nodes', leaves')
         /\ Len(nodes') = Len(nodes) /\ ~is_locked(nodes[i].v) /\ is_locked(nodes'[i].v)
         /\ \A j \in 1..Len(nodes) : /\ nodes[j].v <= nodes'[j].v /\ (j # i => nodes'[j].v = nodes[j].v)
                                      /\ nodes'[j].kids = nodes[j].kids /\ nodes'[j].flag = nodes[j].flag
  <1>1. nodes[i].v = v /\ ~is_locked(nodes[i].v)
    BY Zenon DEF CanUpgrade, Version
  <1>2. /\ NodesKept(t) /\ Len(nodes') = Len(nodes)
        /\ \A j \in 1..Len(nodes) :
             /\ nodes'[j].v = IF j \in {i} THEN nodes[j].v + 2 ELSE nodes[j].v
             /\ nodes'[j].kids = nodes[j].kids /\ nodes'[j].flag = nodes[j].flag
    BY <1>1, BumpedOK, Zenon
  <1>3. LeavesKept(t) /\ TreeOK(root', nodes', leaves')
    BY <1>1, SameLeaves, BumpedTree, Zenon
  <1>4. is_locked(nodes'[i].v)
    <2>1. nodes[i].v \in Nat /\ nodes[i].v % 2 = 0
      BY Now, Zenon
    <2>2. is_locked(nodes[i].v + 2)
      BY <1>1, <2>1, Bump, Zenon
    <2>. QED  BY <1>2, <2>2, Zenon
  <1>5. \A j \in 1..Len(nodes) : nodes[j].v <= nodes'[j].v
    BY <1>2, Zenon DEF NodesKept
  <1>. QED  BY <1>1, <1>2, <1>3, <1>4, <1>5, Zenon

\* What a thread has read stays true in its step to pc when no node changes but in
\* its version.
LEMMA ReadKept ==
  ASSUME IInv, NEW t \in Threads, th[t].pc \in AtNode \cup AtLeaf,
         th'[t].par = th[t].par, th'[t].parv = th[t].parv, th'[t].cur = th[t].cur,
         th'[t].curv = th[t].curv,
         th'[t].pc \notin {"idle", "acquire", "root", "upgrade_node", "child"},
         \A j \in 1..Len(nodes) : nodes[j].v <= nodes'[j].v /\ nodes'[j].v \in Nat
                                  /\ nodes'[j].kids = nodes[j].kids
  PROVE  ReadOK(t)'
  <1>. DEFINE r == th[t]
  <1>1. /\ Version(r.parv) /\ Version(r.curv) /\ (r.par = None => r.parv = 0)
        /\ r.par # None => r.parv <= nodes[r.par].v
        /\ r.par # None /\ nodes[r.par].v = r.parv => r.cur \in Range(nodes[r.par].kids)
    BY Zenon DEF IInv, ThreadOK, ReadOK
  <1>2. r.par # None => r.par \in 1..Len(nodes)
    BY HasParent, Zenon
  <1>3. r.par # None => /\ r.parv <= nodes'[r.par].v
                        /\ nodes'[r.par].v = r.parv => nodes[r.par].v = r.parv
    <2>1. r.parv \in Nat
      BY <1>1, Zenon DEF Version
    <2>2. r.par # None => /\ nodes[r.par].v \in Nat /\ nodes'[r.par].v \in Nat
                          /\ nodes[r.par].v <= nodes'[r.par].v
      BY <1>2, Now, Zenon
    <2>. HIDE DEF r
    <2>. QED  BY <1>1, <2>1, <2>2, Between, Zenon
  <1>. HIDE DEF r
  <1>4. /\ r.par # None => r.parv <= nodes'[r.par].v
        /\ r.par # None /\ nodes'[r.par].v = r.parv => r.cur \in Range(nodes'[r.par].kids)
    BY <1>1, <1>2, <1>3, Zenon
  <1>. QED  BY <1>1, <1>4, Zenon DEF ReadOK, r

\* A thread stays at its page while versions change.
LEMMA GoOn ==
  ASSUME IInv, NEW t \in Threads, th[t].pc \in AtNode \cup AtLeaf, NEW pc \in AtNode \cup AtLeaf,
         pc \in AtLeaf <=> th[t].pc \in AtLeaf, pc \notin {"upgrade_node", "child"}, Step(t, pc),
         UNCHANGED root, NodesKept(t), LeavesKept(t), TreeOK(root', nodes', leaves'),
         \A j \in 1..Len(nodes) : nodes'[j].kids = nodes[j].kids,
         NewGuards(t), GuardOK(t)', LatchOK(t)'
  PROVE  IInv'
  <1>1. Len(nodes) <= Len(nodes') /\ Len(nodes') \in Nat
    BY GrownNow, Zenon
  <1>2. pc \in Pcs
    BY Zenon DEF Pcs
  <1>3. /\ ThreadType(t)' /\ th' = [th EXCEPT ![t] = th'[t]]
        /\ th'[t].pc = pc /\ th'[t].op = th[t].op /\ th'[t].cur = th[t].cur
        /\ th'[t].par = th[t].par /\ th'[t].parv = th[t].parv /\ th'[t].curv = th[t].curv
    BY <1>1, <1>2, StepFields, Zenon
  <1>4. CurOK(t)'
    <2>1. PageOK(th[t].cur, nodes, leaves) /\ (th[t].cur.leaf <=> pc \in AtLeaf)
      BY Zenon DEF IInv, ThreadOK, CurOK
    <2>2. PageOK(th[t].cur, nodes', leaves')
      BY <2>1, GrownNow, Zenon
    <2>. QED  BY <1>3, <2>1, <2>2, Zenon DEF CurOK
  <1>5. \A j \in 1..Len(nodes) : nodes[j].v <= nodes'[j].v /\ nodes'[j].v \in Nat
    <2>. SUFFICES ASSUME NEW j \in 1..Len(nodes)
                  PROVE  nodes[j].v <= nodes'[j].v /\ nodes'[j].v \in Nat
      BY Zenon
    <2>1. j \in 1..Len(nodes')
      BY GrownNow, Zenon
    <2>2. NodeOK(nodes'[j], nodes', leaves')
      BY <2>1, Zenon DEF TreeOK
    <2>. QED  BY <2>2, NodeFields, Zenon DEF NodesKept
  <1>6. pc \notin {"idle", "acquire", "root", "upgrade_node", "child"}
    BY Zenon DEF AtNode, AtLeaf
  <1>7. ReadOK(t)'
    BY <1>3, <1>5, <1>6, ReadKept, Zenon
  <1>. QED  BY <1>3, <1>4, <1>7, StepOK, Zenon DEF ThreadOK

\* What Step changes of a thread.
LEMMA Stepped ==
  ASSUME IInv, NEW t \in Threads, NEW pc, Step(t, pc)
  PROVE  /\ th'[t].pc = pc /\ th'[t].op = th[t].op /\ th'[t].cur = th[t].cur
         /\ th'[t].par = th[t].par /\ th'[t].page = th[t].page
  BY ThreadFields, Zenon DEF IInv, Step, Go, Fields

\* The upgrade of the node to split keeps the invariant.
LEMMA UpgradeNodeOK ==
  ASSUME IInv, NEW t \in Threads, UpgradeNode(t)
  PROVE  IInv'
  <1>. DEFINE c == th[t].cur.id
              pc == IF th[t].par = None THEN "split_root" ELSE "upgrade_parent"
  <1>1. /\ th[t].pc = "upgrade_node" /\ th[t].pc \in AtNode /\ th[t].pc \notin AtLeaf
        /\ UNCHANGED <<root, leaves>>
    BY Zenon DEF UpgradeNode, AtNode, AtLeaf
  <1>2. CASE Fail(t, "Locked") /\ nodes' = nodes
    BY <1>1, <1>2, QuietFailOK, Zenon
  <1>3. CASE CanUpgrade(c, th[t].curv) /\ nodes' = Bumped({c}) /\ Step(t, pc)
    <2>1. /\ c \in 1..Len(nodes) /\ Version(th[t].curv)
          /\ nodes[c].flag
      BY <1>1, <1>3, CurIsNode, Zenon DEF IInv, ThreadOK, ReadOK, CanUpgrade
    <2>2. /\ NodesKept(t) /\ LeavesKept(t) /\ TreeOK(root', nodes', leaves')
          /\ ~is_locked(nodes[c].v) /\ is_locked(nodes'[c].v)
          /\ \A j \in 1..Len(nodes) : nodes'[j].kids = nodes[j].kids /\ nodes'[j].flag = nodes[j].flag
      BY <1>1, <1>3, <2>1, Upgraded, Zenon
    <2>3. pc \in AtNode /\ pc \notin AtLeaf /\ pc \in {"split_root", "upgrade_parent"}
      BY Zenon DEF AtNode, AtLeaf
    <2>4. /\ th'[t].pc = pc /\ th'[t].op = th[t].op /\ th'[t].cur = th[t].cur
          /\ th'[t].par = th[t].par /\ th'[t].page = th[t].page
      BY <1>3, Stepped, Zenon
    <2>5. Guards(t)' = {c}
      BY <2>3, <2>4, Zenon DEF Guards
    <2>6. th[t].op = "evict" => th[t].page # None /\ ~root.leaf
      BY <1>1, Zenon DEF IInv, ThreadOK, GuardOK, LatchOK
    <2>7. pc = "upgrade_parent" => th[t].par # None
      BY Zenon
    <2>8. pc = "split_root" => th[t].par = None
      BY Zenon
    <2>. HIDE DEF pc
    <2>9. GuardOK(t)'
      BY <2>1, <2>2, <2>3, <2>4, <2>5, <2>6, <2>7, <2>8, Zenon DEF GuardOK
    <2>10. LatchOK(t)'
      BY <1>1, <2>3, <2>4, <2>6, Zenon DEF LatchOK
    <2>. QED  BY <1>1, <1>3, <2>2, <2>3, <2>5, <2>9, <2>10, GoOn, Zenon DEF NewGuards
  <1>. QED  BY <1>2, <1>3, Zenon DEF UpgradeNode

\* The upgrade of its parent keeps the invariant.
LEMMA UpgradeParentOK ==
  ASSUME IInv, NEW t \in Threads, UpgradeParent(t)
  PROVE  IInv'
  <1>. DEFINE c == th[t].cur.id
              p == th[t].par
  <1>1. /\ th[t].pc = "upgrade_parent" /\ th[t].pc \in AtNode /\ th[t].pc \notin AtLeaf
        /\ UNCHANGED <<root, leaves>> /\ Guards(t) = {c}
    BY Zenon DEF UpgradeParent, AtNode, AtLeaf, Guards
  <1>2. /\ c \in 1..Len(nodes) /\ p # None /\ p \in 1..Len(nodes) /\ is_locked(nodes[c].v)
        /\ nodes[c].flag
        /\ th[t].op = "evict" => th[t].page # None /\ ~root.leaf
    BY <1>1, CurIsNode, HasParent, Zenon DEF IInv, ThreadOK, GuardOK, LatchOK
  <1>3. CASE nodes' = Bumped({c}) /\ Fail(t, "Locked")
    <2>1. LeavesKept(t)
      BY <1>1, SameLeaves, Zenon
    <2>2. NodesKept(t) /\ TreeOK(root', nodes', leaves')
      BY <1>1, <1>3, <2>1, BumpedTree, Zenon
    <2>. QED  BY <1>1, <1>3, <2>1, <2>2, FailOK, Zenon DEF Fail
  <1>4. CASE CanUpgrade(p, th[t].parv) /\ nodes' = Bumped({p}) /\ Step(t, "split_node")
    <2>1. Version(th[t].parv) /\ th[t].cur \in Range(nodes[p].kids)
      BY <1>1, <1>2, <1>4, Zenon DEF IInv, ThreadOK, ReadOK, CanUpgrade
    <2>2. /\ NodesKept(t) /\ LeavesKept(t) /\ TreeOK(root', nodes', leaves')
          /\ ~is_locked(nodes[p].v) /\ is_locked(nodes'[p].v)
          /\ \A j \in 1..Len(nodes) : /\ j # p => nodes'[j].v = nodes[j].v
                                      /\ nodes'[j].kids = nodes[j].kids /\ nodes'[j].flag = nodes[j].flag
      BY <1>1, <1>2, <1>4, <2>1, Upgraded, Zenon
    <2>3. "split_node" \in AtNode /\ "split_node" \notin AtLeaf
      BY Zenon DEF AtNode, AtLeaf
    <2>4. /\ th'[t].pc = "split_node" /\ th'[t].op = th[t].op /\ th'[t].cur = th[t].cur
          /\ th'[t].par = th[t].par /\ th'[t].page = th[t].page
      BY <1>4, Stepped, Zenon
    <2>5. Guards(t)' = {c, p}
      BY <2>4, Zenon DEF Guards
    <2>6. GuardOK(t)'
      <3>1. is_locked(nodes'[c].v) /\ nodes'[c].flag /\ th[t].cur \in Range(nodes'[p].kids)
        BY <1>2, <2>1, <2>2, Zenon
      <3>. QED  BY <1>2, <2>2, <2>4, <2>5, <3>1, Zenon DEF GuardOK
    <2>7. LatchOK(t)'
      BY <1>1, <1>2, <2>3, <2>4, Zenon DEF LatchOK
    <2>8. NewGuards(t)
      BY <1>1, <2>2, <2>5, Zenon DEF NewGuards
    <2>9. \A j \in 1..Len(nodes) : nodes'[j].kids = nodes[j].kids
      BY <2>2, Zenon
    <2>10. NodesKept(t) /\ LeavesKept(t) /\ TreeOK(root', nodes', leaves')
      BY <2>2, Zenon
    <2>. HIDE DEF c, p
    <2>. QED  BY <1>1, <1>4, <2>3, <2>6, <2>7, <2>8, <2>9, <2>10, GoOn, Zenon
  <1>. QED  BY <1>3, <1>4, Zenon DEF UpgradeParent

\* The drop of both write guards keeps the invariant.
LEMMA DropNodeOK ==
  ASSUME IInv, NEW t \in Threads, DropNode(t)
  PROVE  IInv'
  <1>1. /\ th[t].pc = "drop_node" /\ UNCHANGED <<root, leaves>> /\ Fail(t, "NeedRestart")
        /\ nodes' = Bumped({th[t].par, th[t].cur.id})
    BY Zenon DEF DropNode
  <1>2. Guards(t) = {th[t].par, th[t].cur.id}
    BY <1>1, Zenon DEF Guards
  <1>3. LeavesKept(t)
    BY <1>1, SameLeaves, Zenon
  <1>4. NodesKept(t) /\ TreeOK(root', nodes', leaves')
    BY <1>1, <1>2, <1>3, BumpedTree, Zenon
  <1>. QED  BY <1>1, <1>3, <1>4, FailOK, Zenon DEF Fail

\* The upgrade of a leaf's parent in try_merge_mini_page keeps the invariant.
LEMMA UpgradeToSplitOK ==
  ASSUME IInv, NEW t \in Threads, UpgradeToSplit(t)
  PROVE  IInv'
  <1>. DEFINE c == th[t].cur.id
              p == th[t].par
  <1>1. th[t].pc = "upgrade" /\ th[t].pc \in AtLeaf /\ UNCHANGED root
    BY Zenon DEF UpgradeToSplit, AtLeaf
  <1>2. /\ p # None /\ p \in 1..Len(nodes) /\ leaves[c].x = t
        /\ th[t].op = "evict" => th[t].page # None /\ ~root.leaf
    BY <1>1, HasParent, Zenon DEF IInv, ThreadOK, GuardOK, LatchOK
  <1>3. CASE GiveUp(t, "Locked") /\ nodes' = nodes
    BY <1>1, <1>3, GiveUpOK, Zenon DEF GiveUp
  <1>4. CASE CanUpgrade(p, th[t].parv) /\ nodes' = Bumped({p}) /\ Step(t, "split_leaf") /\ leaves' = leaves
    <2>1. Version(th[t].parv) /\ th[t].cur \in Range(nodes[p].kids)
      BY <1>1, <1>2, <1>4, Zenon DEF IInv, ThreadOK, ReadOK, CanUpgrade
    <2>2. /\ NodesKept(t) /\ LeavesKept(t) /\ TreeOK(root', nodes', leaves')
          /\ ~is_locked(nodes[p].v) /\ is_locked(nodes'[p].v)
          /\ \A j \in 1..Len(nodes) : nodes'[j].kids = nodes[j].kids
      BY <1>1, <1>2, <1>4, <2>1, Upgraded, Zenon
    <2>3. "split_leaf" \in AtLeaf
      BY Zenon DEF AtLeaf
    <2>4. /\ th'[t].pc = "split_leaf" /\ th'[t].op = th[t].op /\ th'[t].cur = th[t].cur
          /\ th'[t].par = th[t].par /\ th'[t].page = th[t].page
      BY <1>4, Stepped, Zenon
    <2>5. Guards(t)' = {p}
      BY <2>4, Zenon DEF Guards
    <2>6. GuardOK(t)'
      BY <1>2, <2>1, <2>2, <2>4, <2>5, Zenon DEF GuardOK
    <2>7. LatchOK(t)'
      BY <1>1, <1>2, <1>4, <2>4, Zenon DEF LatchOK
    <2>8. NewGuards(t)
      BY <2>2, <2>5, Zenon DEF NewGuards
    <2>. QED  BY <1>1, <1>4, <2>2, <2>3, <2>6, <2>7, <2>8, GoOn, Zenon
  <1>. QED  BY <1>3, <1>4, Zenon DEF UpgradeToSplit

\* The drop of the parent's write guard keeps the invariant.
LEMMA DropParentOK ==
  ASSUME IInv, NEW t \in Threads, DropParent(t)
  PROVE  IInv'
  <1>. DEFINE p == th[t].par
  <1>1. /\ th[t].pc = "drop_parent" /\ th[t].pc \in AtLeaf /\ UNCHANGED <<root, leaves>>
        /\ nodes' = Bumped({p}) /\ Step(t, "move") /\ Guards(t) = {p}
    BY Zenon DEF DropParent, AtLeaf, Guards
  <1>2. /\ p # None /\ leaves[th[t].cur.id].x = t
        /\ th[t].op = "evict" => th[t].page # None /\ ~root.leaf
    BY <1>1, Zenon DEF IInv, ThreadOK, GuardOK, LatchOK
  <1>3. LeavesKept(t)
    BY <1>1, SameLeaves, Zenon
  <1>4. NodesKept(t) /\ TreeOK(root', nodes', leaves')
    BY <1>1, <1>3, BumpedTree, Zenon
  <1>5. \A j \in 1..Len(nodes) : nodes'[j].kids = nodes[j].kids
    BY <1>1, BumpedOK, Zenon
  <1>6. /\ th'[t].pc = "move" /\ th'[t].op = th[t].op /\ th'[t].cur = th[t].cur
        /\ th'[t].par = th[t].par /\ th'[t].page = th[t].page
    BY <1>1, Stepped, Zenon
  <1>7. Guards(t)' = {} /\ "move" \in AtLeaf
    BY <1>6, Zenon DEF Guards, AtLeaf
  <1>8. GuardOK(t)'
    BY <1>2, <1>6, <1>7, Zenon DEF GuardOK
  <1>9. LatchOK(t)'
    BY <1>1, <1>2, <1>6, Zenon DEF LatchOK
  <1>. QED  BY <1>1, <1>3, <1>4, <1>5, <1>7, <1>8, <1>9, GoOn, Zenon DEF NewGuards

-----------------------------------------------------------------------------
\* Splits.

\* A node without room can ask to be split.
LEMMA FlagOK ==
  ASSUME NEW n, NEW ns, NEW ls, NodeOK(n, ns, ls), ~have_space_for(n)
  PROVE  /\ NodeOK([n EXCEPT !.flag = TRUE], ns, ls)
         /\ [n EXCEPT !.flag = TRUE].v = n.v /\ [n EXCEPT !.flag = TRUE].kids = n.kids
  <1>. DEFINE m == [n EXCEPT !.flag = TRUE]
  <1>1. Len(n.kids) >= 2
    BY NodeFields, CapAssumption DEF have_space_for
  <1>2. /\ m \in [v : Nat, isroot : {m.isroot}, flag : BOOLEAN, seps : {m.seps}, kids : {m.kids}]
        /\ m.v = n.v /\ m.seps = n.seps /\ m.kids = n.kids
    BY Zenon DEF NodeOK
  <1>. HIDE DEF m
  <1>3. NodeOK(m, ns, ls)
    BY <1>1, <1>2, Zenon DEF NodeOK
  <1>. QED  BY <1>2, <1>3, Zenon DEF m

\* A thread keeps the guard of its parent: what it has read of it is of an older version.
LEMMA GuardedRead ==
  ASSUME IInv, NEW t \in Threads, th[t].par # None, th[t].par \in Guards(t),
         nodes'[th[t].par].v = nodes[th[t].par].v, th'[t].par = th[t].par,
         th'[t].parv = th[t].parv, th'[t].curv = th[t].curv,
         th'[t].pc \notin {"idle", "acquire", "root", "upgrade_node", "child"}
  PROVE  ReadOK(t)'
  <1>1. /\ is_locked(nodes[th[t].par].v) /\ ~is_locked(th[t].parv)
        /\ Version(th[t].parv) /\ Version(th[t].curv) /\ th[t].parv <= nodes[th[t].par].v
    BY Zenon DEF IInv, ThreadOK, ReadOK, GuardOK, Version
  <1>2. nodes'[th[t].par].v # th[t].parv
    BY <1>1, Zenon
  <1>. QED  BY <1>1, <1>2, Zenon DEF ReadOK

\* A node with a guard is written, and keeps its version.
LEMMA EditNode ==
  ASSUME IInv, NEW t \in Threads, NEW i \in Guards(t), i \in 1..Len(nodes), NEW n,
         n.v = nodes[i].v, Replaced(nodes', nodes, i, n)
  PROVE  NodesKept(t)
  <1>1. IsSeq(nodes') /\ Len(nodes') = Len(nodes) /\ Len(nodes) \in Nat
    BY Now, Zenon DEF Replaced
  <1>2. \A j \in 1..Len(nodes) : nodes'[j] = IF j = i THEN n ELSE nodes[j]
    BY Zenon DEF Replaced
  <1>3. \A j \in 1..Len(nodes) : nodes'[j].v = nodes[j].v /\ nodes[j].v \in Nat
    BY <1>2, Now, Zenon
  <1>4. \A j \in 1..Len(nodes) : nodes[j].v <= nodes'[j].v
    BY <1>3
  <1>5. Len(nodes) <= Len(nodes')
    BY <1>1
  <1>. QED  BY <1>1, <1>2, <1>3, <1>4, <1>5, Zenon DEF NodesKept

\* The parent has no room: it asks to be split itself.
LEMMA SplitNodeFullOK ==
  ASSUME IInv, NEW t \in Threads, th[t].pc = "split_node", NEW p, p = th[t].par,
         ~have_space_for(nodes[p]), NEW n, n = [nodes[p] EXCEPT !.flag = TRUE],
         Replaced(nodes', nodes, p, n), Step(t, "drop_node"), UNCHANGED <<root, leaves>>
  PROVE  IInv'
  <1>. DEFINE c == th[t].cur.id
  <1>1. /\ Guards(t) = {c, p} /\ th[t].pc \in AtNode /\ th[t].pc \notin AtLeaf
        /\ "drop_node" \in AtNode /\ "drop_node" \notin AtLeaf
    BY Zenon DEF Guards, AtNode, AtLeaf
  <1>2. /\ p # None /\ p \in 1..Len(nodes) /\ c \in 1..Len(nodes)
        /\ is_locked(nodes[c].v) /\ is_locked(nodes[p].v)
        /\ th[t].op = "evict" => th[t].page # None /\ ~root.leaf
    BY <1>1, HasParent, CurIsNode, Zenon DEF IInv, ThreadOK, GuardOK, LatchOK
  <1>3. NodeOK(n, nodes, leaves) /\ n.v = nodes[p].v /\ n.kids = nodes[p].kids
    BY <1>2, Now, FlagOK, Zenon
  <1>4. p \in Guards(t)
    BY <1>1, Zenon
  <1>5. /\ NodesKept(t) /\ Len(nodes') = Len(nodes)
        /\ \A j \in 1..Len(nodes) : nodes'[j] = (IF j = p THEN n ELSE nodes[j]) /\ nodes'[j].v = nodes[j].v
    <2>1. NodesKept(t)
      BY <1>2, <1>3, <1>4, EditNode, Zenon
    <2>2. /\ Len(nodes') = Len(nodes)
          /\ \A j \in 1..Len(nodes) : nodes'[j] = (IF j = p THEN n ELSE nodes[j])
      BY Zenon DEF Replaced
    <2>. QED  BY <1>3, <2>1, <2>2, Zenon
  <1>6. \A j \in 1..Len(nodes) : NodeOK(nodes'[j], nodes, leaves) /\ nodes'[j].kids = nodes[j].kids
    BY <1>3, <1>5, Now, Zenon
  <1>7. LeavesKept(t)
    BY SameLeaves, Zenon
  <1>8. TreeOK(root', nodes', leaves')
    BY <1>5, <1>6, <1>7, SameShape, Zenon
  <1>9. /\ th'[t].pc = "drop_node" /\ th'[t].op = th[t].op /\ th'[t].cur = th[t].cur
        /\ th'[t].par = th[t].par /\ th'[t].page = th[t].page
    BY Stepped, Zenon
  <1>10. Guards(t)' = {c, p}
    BY <1>9, Zenon DEF Guards
  <1>11. GuardOK(t)'
    <2>1. is_locked(nodes'[c].v) /\ is_locked(nodes'[p].v)
      BY <1>2, <1>5, Zenon
    <2>. QED  BY <1>2, <1>9, <1>10, <2>1, Zenon DEF GuardOK
  <1>12. LatchOK(t)'
    BY <1>1, <1>2, <1>9, Zenon DEF LatchOK
  <1>13. NewGuards(t)
    BY <1>1, <1>10, Zenon DEF NewGuards
  <1>14. \A j \in 1..Len(nodes) : nodes'[j].kids = nodes[j].kids
    BY <1>6, Zenon
  <1>. QED  BY <1>1, <1>5, <1>7, <1>8, <1>11, <1>12, <1>13, <1>14, GoOn, Zenon

\* The tree after a node with a guard is split or has one more child.
LEMMA NodeAdded ==
  ASSUME IInv, NEW t \in Threads, ~root.leaf, UNCHANGED <<root, leaves>>, IsSeq(nodes'),
         Len(nodes') = Len(nodes) + 1, NodeOK(nodes'[Len(nodes) + 1], nodes', leaves),
         \A j \in 1..Len(nodes) : /\ NodeOK(nodes'[j], nodes', leaves) /\ nodes'[j].v = nodes[j].v
                                  /\ j \notin Guards(t) => nodes'[j] = nodes[j]
  PROVE  NodesKept(t) /\ LeavesKept(t) /\ TreeOK(root', nodes', leaves')
  <1>1. Len(nodes) \in Nat /\ \A j \in 1..Len(nodes) : nodes[j].v \in Nat
    BY Now, Zenon
  <1>2. Len(nodes) <= Len(nodes')
    BY <1>1, OneMore, Zenon
  <1>3. \A j \in 1..Len(nodes) : nodes[j].v <= nodes'[j].v
    <2>1. \A v \in Nat : v <= v
      OBVIOUS
    <2>. QED  BY <1>1, <2>1, Zenon
  <1>4. NodesKept(t)
    BY <1>2, <1>3, Zenon DEF NodesKept
  <1>5. LeavesKept(t)
    BY SameLeaves, Zenon
  <1>6. PageOK(root', nodes', leaves')
    BY <1>4, <1>5, GrownNow, Zenon DEF IInv, TreeOK
  <1>7. \A j \in 1..Len(nodes') : NodeOK(nodes'[j], nodes', leaves')
    BY <1>1, OneMore, Zenon
  <1>. QED  BY <1>4, <1>5, <1>6, <1>7, Zenon DEF TreeOK, IInv

\* The parent has room: the child is split, and the parent has one more.
LEMMA SplitNodeRoomOK ==
  ASSUME IInv, NEW t \in Threads, th[t].pc = "split_node", NEW k, NEW a, NEW b, NEW d,
         a = insert(nodes[th[t].par], k, Inner(Len(nodes) + 1)),
         b = SplitLeft(nodes[th[t].cur.id]), d = SplitRight(nodes[th[t].cur.id]),
         TwoAndOne(nodes', nodes, th[t].par, a, th[t].cur.id, b, d),
         Step(t, "drop_node"), UNCHANGED <<root, leaves>>
  PROVE  IInv'
  <1>. DEFINE c == th[t].cur.id
              p == th[t].par
              L == Len(nodes)
  <1>0. /\ IsSeq(nodes') /\ Len(nodes') = L + 1 /\ nodes'[L + 1] = d
        /\ \A j \in 1..L : nodes'[j] = IF j = c THEN b ELSE IF j = p THEN a ELSE nodes[j]
    BY Zenon DEF TwoAndOne
  <1>1. /\ Guards(t) = {c, p} /\ th[t].pc \in AtNode
        /\ "drop_node" \in AtNode /\ "drop_node" \notin AtLeaf /\ "drop_node" \in Pcs
    BY Zenon DEF Guards, AtNode, AtLeaf, Pcs
  <1>2. /\ p # None /\ p \in 1..L /\ c \in 1..L /\ ~root.leaf /\ nodes[c].flag
        /\ is_locked(nodes[c].v) /\ is_locked(nodes[p].v)
        /\ th[t].op = "evict" => th[t].page # None
    BY <1>1, HasParent, CurIsNode, Zenon DEF IInv, ThreadOK, GuardOK
  <1>3. /\ L \in Nat /\ Len(leaves) \in Nat /\ NodeOK(nodes[p], nodes, leaves)
        /\ NodeOK(nodes[c], nodes, leaves) /\ ~th[t].cur.leaf
    BY <1>1, <1>2, Now, CurIsNode, Zenon
  <1>4. /\ \A q : PageOK(q, nodes, leaves) => PageOK(q, nodes', leaves)
        /\ \A n : NodeOK(n, nodes, leaves) => NodeOK(n, nodes', leaves)
    <2>1. Len(nodes') \in Nat /\ L <= Len(nodes')
      BY <1>0, <1>3, OneMore, Zenon
    <2>2. \A v \in Nat : v <= v
      OBVIOUS
    <2>. QED  BY <1>3, <2>1, <2>2, Grown, Zenon
  <1>5. NodeOK(a, nodes', leaves) /\ a.v = nodes[p].v
    <2>1. PageOK(Inner(L + 1), nodes', leaves)
      <3>1. Inner(L + 1) \in [leaf : BOOLEAN, id : {Inner(L + 1).id}] /\ ~Inner(L + 1).leaf
            /\ Inner(L + 1).id = L + 1
        BY Zenon DEF Inner
      <3>2. L + 1 \in 1..(L + 1)
        BY <1>0, <1>3, OneMore, Zenon
      <3>. QED  BY <1>0, <3>1, <3>2, Zenon DEF PageOK
    <2>. QED  BY <1>3, <1>4, <2>1, InsertOK
  <1>6. NodeOK(b, nodes', leaves) /\ b.v = nodes[c].v /\ NodeOK(d, nodes', leaves)
    BY <1>2, <1>3, <1>4, SplitOK, Zenon
  <1>7. \A j \in 1..L : /\ NodeOK(nodes'[j], nodes', leaves) /\ nodes'[j].v = nodes[j].v
                        /\ j \notin Guards(t) => nodes'[j] = nodes[j]
    BY <1>0, <1>1, <1>4, <1>5, <1>6, Now, Zenon
  <1>8. NodesKept(t) /\ LeavesKept(t) /\ TreeOK(root', nodes', leaves')
    BY <1>0, <1>2, <1>6, <1>7, NodeAdded, Zenon
  <1>9. /\ ThreadType(t)' /\ th' = [th EXCEPT ![t] = th'[t]]
        /\ th'[t].pc = "drop_node" /\ th'[t].op = th[t].op /\ th'[t].cur = th[t].cur
        /\ th'[t].par = th[t].par /\ th'[t].parv = th[t].parv /\ th'[t].curv = th[t].curv
        /\ th'[t].page = th[t].page
    <2>1. Len(nodes') \in Nat /\ L <= Len(nodes')
      BY <1>0, <1>3, OneMore, Zenon
    <2>. QED  BY <1>1, <2>1, StepFields, Zenon
  <1>10. CurOK(t)'
    <2>1. PageOK(th[t].cur, nodes', leaves')
      BY <1>1, <1>4, CurIsNode, Zenon
    <2>. QED  BY <1>1, <1>3, <1>9, <2>1, Zenon DEF CurOK
  <1>11. ReadOK(t)'
    <2>1. nodes'[p].v = nodes[p].v /\ p \in Guards(t)
      BY <1>1, <1>2, <1>7, Zenon
    <2>. QED  BY <1>2, <1>9, <2>1, GuardedRead, Zenon
  <1>12. Guards(t)' = {c, p} /\ NewGuards(t)
    BY <1>1, <1>9, Zenon DEF Guards, NewGuards
  <1>13. GuardOK(t)'
    <2>1. is_locked(nodes'[c].v) /\ is_locked(nodes'[p].v)
      BY <1>2, <1>7, Zenon
    <2>. QED  BY <1>2, <1>9, <1>12, <2>1, Zenon DEF GuardOK
  <1>14. LatchOK(t)'
    BY <1>1, <1>2, <1>9, Zenon DEF LatchOK
  <1>. QED  BY <1>8, <1>9, <1>10, <1>11, <1>12, <1>13, <1>14, StepOK, Zenon DEF ThreadOK

\* A split below another node (try_split_inner) keeps the invariant.
LEMMA SplitNodeOK ==
  ASSUME IInv, NEW t \in Threads, SplitNode(t)
  PROVE  IInv'
  <1>. DEFINE c == th[t].cur.id
              p == th[t].par
              a == insert(nodes[p], get_split_key(nodes[c]), Inner(Len(nodes) + 1))
              b == SplitLeft(nodes[c])
              d == SplitRight(nodes[c])
              n == [nodes[p] EXCEPT !.flag = TRUE]
  <1>1. th[t].pc = "split_node" /\ UNCHANGED <<root, leaves>> /\ Step(t, "drop_node")
    BY Zenon DEF SplitNode
  <1>2. IsSeq(nodes)
    BY Now, Zenon
  <1>3. CASE ~have_space_for(nodes[p]) /\ nodes' = [nodes EXCEPT ![p] = n]
    <2>1. n = [nodes[p] EXCEPT !.flag = TRUE] /\ p = th[t].par
      BY Zenon
    <2>. HIDE DEF n, p
    <2>2. Replaced(nodes', nodes, p, n)
      BY <1>2, <1>3, ReplacedOK, Zenon
    <2>. QED  BY <1>1, <1>3, <2>1, <2>2, SplitNodeFullOK, Zenon
  <1>4. CASE nodes' = Append([nodes EXCEPT ![p] = a, ![c] = b], d)
    <2>1. /\ a = insert(nodes[th[t].par], get_split_key(nodes[c]), Inner(Len(nodes) + 1))
          /\ b = SplitLeft(nodes[th[t].cur.id]) /\ d = SplitRight(nodes[th[t].cur.id])
          /\ c = th[t].cur.id /\ p = th[t].par
      BY Zenon
    <2>. HIDE DEF a, b, d, c, p
    <2>2. TwoAndOne(nodes', nodes, p, a, c, b, d)
      BY <1>2, <1>4, TwoAndOneOK, Zenon
    <2>. QED  BY <1>1, <2>1, <2>2, SplitNodeRoomOK, Zenon
  <1>. QED  BY <1>3, <1>4, Zenon DEF SplitNode

\* A new root over two pages.
LEMMA NewRootOK ==
  ASSUME NEW v \in {0, 2}, NEW k, NEW p, NEW q, NEW ns, NEW ls, PageOK(p, ns, ls), PageOK(q, ns, ls)
  PROVE  /\ NodeOK(NewNode(v, TRUE, <<k>>, <<p, q>>), ns, ls)
         /\ NewNode(v, TRUE, <<k>>, <<p, q>>).v = v
  <1>. DEFINE seps == <<k>>
              kids == <<p, q>>
              n == NewNode(v, TRUE, seps, kids)
  <1>1. IsSeq(seps) /\ Len(seps) = 1
    <2>1. seps \in Seq({k}) /\ Len(seps) = 1
      OBVIOUS
    <2>. QED  BY <2>1, SeqIsSeq, Zenon
  <1>2. IsSeq(kids) /\ Len(kids) = 2 /\ kids[1] = p /\ kids[2] = q
    <2>1. kids \in Seq({p, q}) /\ Len(kids) = 2 /\ kids[1] = p /\ kids[2] = q
      OBVIOUS
    <2>. QED  BY <2>1, SeqIsSeq, Zenon
  <1>. HIDE DEF seps, kids
  <1>3. /\ n \in [v : Nat, isroot : {n.isroot}, flag : BOOLEAN, seps : {n.seps}, kids : {n.kids}]
        /\ n.v = v /\ n.seps = seps /\ n.kids = kids /\ v % 2 = 0
    BY DEF NewNode
  <1>. HIDE DEF n
  <1>4. \A j \in 1..Len(kids) : PageOK(kids[j], ns, ls)
    <2>1. \A j \in 1..2 : j = 1 \/ j = 2
      OBVIOUS
    <2>. QED  BY <1>2, <2>1, Zenon
  <1>5. Len(kids) = Len(seps) + 1 /\ Len(kids) >= 2
    BY <1>1, <1>2
  <1>6. NodeOK(n, ns, ls)
    BY <1>1, <1>2, <1>3, <1>4, <1>5, Zenon DEF NodeOK
  <1>. QED  BY <1>3, <1>6, Zenon DEF n, seps, kids

\* The tree with a new root above the two halves of the old one.
LEMMA RootSplitTree ==
  ASSUME IInv, NEW t \in Threads, th[t].pc = "split_root", NEW k, NEW a, NEW d, NEW e,
         a = NotRoot(nodes[th[t].cur.id]), d = SplitRight(nodes[th[t].cur.id]),
         e = NewNode(2, TRUE, <<k>>, <<th[t].cur, Inner(Len(nodes) + 1)>>),
         OneAndTwo(nodes', nodes, th[t].cur.id, a, d, e),
         root' = Inner(Len(nodes) + 2), leaves' = leaves
  PROVE  /\ NodesKept(t) /\ LeavesKept(t) /\ TreeOK(root', nodes', leaves') /\ ~root'.leaf
         /\ nodes'[th[t].cur.id].v = nodes[th[t].cur.id].v /\ nodes'[Len(nodes) + 2].v = 2
         /\ Len(nodes') = Len(nodes) + 2
  <1>. DEFINE c == th[t].cur.id
              L == Len(nodes)
  <1>1. /\ IsSeq(nodes') /\ Len(nodes') = L + 2 /\ nodes'[L + 1] = d /\ nodes'[L + 2] = e
        /\ \A j \in 1..L : nodes'[j] = IF j = c THEN a ELSE nodes[j]
    BY Zenon DEF OneAndTwo
  <1>2. Guards(t) = {c} /\ th[t].pc \in AtNode
    BY Zenon DEF Guards, AtNode
  <1>3. c \in 1..L /\ nodes[c].flag /\ PageOK(th[t].cur, nodes, leaves)
    BY <1>2, CurIsNode, Zenon DEF IInv, ThreadOK, GuardOK
  <1>4. L \in Nat /\ Len(leaves) \in Nat /\ \A j \in 1..L : NodeOK(nodes[j], nodes, leaves) /\ nodes[j].v \in Nat
    BY Now, Zenon
  <1>5. /\ L + 2 \in Nat /\ L <= L + 2 /\ L + 1 \in 1..(L + 2) /\ L + 2 \in 1..(L + 2)
        /\ \A j \in 1..(L + 2) : j \in 1..L \/ j = L + 1 \/ j = L + 2
    BY <1>4, TwoMore, Zenon
  <1>6. /\ \A q : PageOK(q, nodes, leaves) => PageOK(q, nodes', leaves)
        /\ \A n : NodeOK(n, nodes, leaves) => NodeOK(n, nodes', leaves)
    <2>1. \A v \in Nat : v <= v
      OBVIOUS
    <2>. QED  BY <1>1, <1>4, <1>5, <2>1, Grown, Zenon
  <1>7. PageOK(Inner(L + 1), nodes', leaves) /\ PageOK(Inner(L + 2), nodes', leaves) /\ ~root'.leaf
    <2>1. \A i : /\ Inner(i) \in [leaf : BOOLEAN, id : {Inner(i).id}] /\ ~Inner(i).leaf
                 /\ Inner(i).id = i
      BY Zenon DEF Inner
    <2>. QED  BY <1>1, <1>5, <2>1 DEF PageOK
  <1>8. NodeOK(a, nodes', leaves) /\ a.v = nodes[c].v /\ NodeOK(d, nodes', leaves)
    BY <1>3, <1>4, <1>6, SplitOK, Zenon
  <1>9. NodeOK(e, nodes', leaves) /\ e.v = 2
    <2>1. PageOK(th[t].cur, nodes', leaves) /\ 2 \in {0, 2}
      BY <1>3, <1>6, Zenon
    <2>. QED  BY <1>7, <2>1, NewRootOK, Zenon
  <1>10. \A j \in 1..L : /\ NodeOK(nodes'[j], nodes', leaves) /\ nodes'[j].v = nodes[j].v
                         /\ j \notin Guards(t) => nodes'[j] = nodes[j]
    BY <1>1, <1>2, <1>4, <1>6, <1>8, Zenon
  <1>11. \A j \in 1..Len(nodes') : NodeOK(nodes'[j], nodes', leaves')
    BY <1>1, <1>5, <1>8, <1>9, <1>10, Zenon
  <1>12. \A j \in 1..L : nodes[j].v <= nodes'[j].v
    <2>1. \A v \in Nat : v <= v
      OBVIOUS
    <2>. QED  BY <1>4, <1>10, <2>1, Zenon
  <1>13. NodesKept(t)
    BY <1>1, <1>5, <1>10, <1>12, Zenon DEF NodesKept
  <1>14. TreeOK(root', nodes', leaves')
    BY <1>1, <1>7, <1>11, Zenon DEF TreeOK, IInv
  <1>. QED  BY <1>1, <1>3, <1>7, <1>9, <1>10, <1>13, <1>14, SameLeaves, Zenon

\* A split of the root node (try_split_inner) keeps the invariant.
LEMMA SplitRootOK ==
  ASSUME IInv, NEW t \in Threads, SplitRoot(t)
  PROVE  IInv'
  <1>. DEFINE c == th[t].cur.id
              L == Len(nodes)
              a == NotRoot(nodes[c])
              d == SplitRight(nodes[c])
              k == get_split_key(nodes[c])
              e == NewNode(2, TRUE, <<k>>, <<th[t].cur, Inner(L + 1)>>)
              r == [th[t] EXCEPT !.pc = "drop_node", !.par = L + 2]
  <1>1. /\ th[t].pc = "split_root" /\ leaves' = leaves /\ L \in Nat /\ L + 1 + 1 = L + 2
        /\ nodes' = [nodes EXCEPT ![c] = a] \o <<d, e>>
    BY Now DEF SplitRoot
  <1>2. root' = Inner(L + 2) /\ th' = [th EXCEPT ![t] = r]
    BY <1>1, Zenon DEF SplitRoot, Go
  <1>3. OneAndTwo(nodes', nodes, c, a, d, e)
    <2>1. IsSeq(nodes)
      BY Now, Zenon
    <2>. HIDE DEF a, d, e, c
    <2>. QED  BY <1>1, <2>1, OneAndTwoOK, Zenon
  <1>4. /\ NodesKept(t) /\ LeavesKept(t) /\ TreeOK(root', nodes', leaves') /\ ~root'.leaf
        /\ nodes'[c].v = nodes[c].v /\ nodes'[L + 2].v = 2 /\ Len(nodes') = L + 2
    <2>1. /\ a = NotRoot(nodes[th[t].cur.id]) /\ d = SplitRight(nodes[th[t].cur.id])
          /\ e = NewNode(2, TRUE, <<k>>, <<th[t].cur, Inner(Len(nodes) + 1)>>)
          /\ c = th[t].cur.id /\ L = Len(nodes)
      BY Zenon
    <2>. HIDE DEF a, d, e, k, c, L, r
    <2>. QED  BY <1>1, <1>2, <1>3, <2>1, RootSplitTree, Zenon
  <1>. HIDE DEF a, d, e, k
  <1>5. /\ th[t].pc \in AtNode /\ "drop_node" \in AtNode /\ "drop_node" \notin AtLeaf
        /\ "drop_node" \in Pcs /\ Guards(t) = {c}
    BY <1>1, Zenon DEF Guards, AtNode, AtLeaf, Pcs
  <1>6. L + 2 \in Nat /\ L + 2 \in 0..(L + 2) /\ L + 2 \notin 1..L /\ L + 2 # 0
    BY <1>1
  <1>7. /\ Fields(r) /\ r.pc = "drop_node" /\ r.op = th[t].op /\ r.cur = th[t].cur /\ r.par = L + 2
        /\ r.parv = th[t].parv /\ r.curv = th[t].curv /\ r.page = th[t].page
    BY <1>5, <1>6, ThreadFields, Zenon DEF Fields
  <1>. HIDE DEF r
  <1>8. ThreadType(t)' /\ th'[t] = r
    BY <1>2, <1>4, <1>6, <1>7, TypeAfter, Zenon
  <1>9. /\ th[t].par = None /\ th[t].parv = 0 /\ is_locked(nodes[c].v) /\ Version(th[t].curv)
        /\ th[t].op = "evict" => th[t].page # None
    BY <1>1, <1>5, Zenon DEF IInv, ThreadOK, GuardOK, ReadOK
  <1>10. CurOK(t)'
    <2>1. PageOK(th[t].cur, nodes', leaves') /\ ~th[t].cur.leaf
      BY <1>4, <1>5, CurIsNode, GrownNow, Zenon
    <2>. QED  BY <1>5, <1>7, <1>8, <2>1, Zenon DEF CurOK
  <1>11. ReadOK(t)'
    <2>1. 0 <= 2 /\ 2 # 0
      OBVIOUS
    <2>. QED  BY <1>4, <1>6, <1>7, <1>8, <1>9, <2>1, ZeroVersion, Zenon DEF ReadOK, None
  <1>12. Guards(t)' = {c, L + 2}
    BY <1>7, <1>8, Zenon DEF Guards
  <1>13. GuardOK(t)'
    <2>1. is_locked(2)
      BY DEF is_locked
    <2>. QED  BY <1>4, <1>6, <1>7, <1>8, <1>9, <1>12, <2>1, Zenon DEF GuardOK, None
  <1>14. LatchOK(t)'
    BY <1>4, <1>5, <1>7, <1>8, Zenon DEF LatchOK
  <1>15. NewGuards(t)
    BY <1>5, <1>6, <1>12, Zenon DEF NewGuards
  <1>. QED  BY <1>2, <1>4, <1>8, <1>10, <1>11, <1>13, <1>14, <1>15, StepOK, Zenon DEF ThreadOK
=============================================================================
