----------------------------- MODULE PageSizes -----------------------------
(***************************************************************************)
(* The sizes of cached leaf pages: what Config::validate admits            *)
(* (src/src/config.rs), the size classes the tree derives from it          *)
(* (BfTree::create_mem_page_size_classes, src/src/tree.rs) and how a page  *)
(* picks its class when it is created and when it grows                    *)
(* (src/src/nodes/leaf_node.rs).                                           *)
(*                                                                         *)
(* A configuration is a record of byte counts: the smallest and the        *)
(* largest record (key and value), leaf_page_size, max_fence_len (two      *)
(* keys), cb_size_byte, and the flag cache_only.                           *)
(***************************************************************************)
EXTENDS Integers, FiniteSets

CONSTANTS
  KVMeta,         \* size_of::<LeafKVMeta>()
  NodeSize,       \* size_of::<LeafNode>()
  CacheLine,      \* CACHE_LINE_SIZE
  DiskPage,       \* DISK_PAGE_SIZE
  MaxLeafPage,    \* MAX_LEAF_PAGE_SIZE
  MaxKeyLen,      \* MAX_KEY_LEN
  MaxPageRecords  \* what the value count of NodeMeta can hold

ASSUME LayoutAssumption ==
  {KVMeta, NodeSize, CacheLine, DiskPage, MaxLeafPage, MaxKeyLen, MaxPageRecords}
    \subseteq Nat \ {0}

NoSize == 0
Panic == -1

Smallest(S) == CHOOSE x \in S : \A y \in S : x <= y
Largest(S) == CHOOSE x \in S : \A y \in S : x >= y

AlignUp(n) == ((n + CacheLine - 1) \div CacheLine) * CacheLine
AlignDown(n) == (n \div CacheLine) * CacheLine

\* What a base page keeps for its two fences.
FenceRoom(c) == c.fence + 2 * KVMeta

\* s_(x-1): the largest page that is not a whole leaf.
max_mini_page_size(c) ==
  IF c.cache_only
  THEN AlignDown(c.leaf - (c.max + KVMeta))
  ELSE AlignDown(c.leaf - (c.max + KVMeta) - FenceRoom(c))

IsPowerOfTwo(n) == \E e \in 0..30 : n = 2^e

validate(c) ==
  /\ 1 < c.min /\ c.min <= c.max
  /\ 0 < c.fence
  /\ c.fence \div 2 <= c.max /\ c.fence \div 2 <= MaxKeyLen
  /\ c.leaf <= MaxLeafPage /\ c.leaf \div c.min <= MaxPageRecords
  /\ IsPowerOfTwo(c.cb)
  /\ IF c.cache_only
     THEN /\ c.leaf % CacheLine = 0
          /\ c.leaf >= 2 * (c.max + KVMeta) + NodeSize
          /\ c.cb >= 4 * c.leaf
     ELSE /\ c.leaf % DiskPage = 0
          /\ c.max + KVMeta <= c.leaf - FenceRoom(c)
          /\ max_mini_page_size(c) >= c.max + KVMeta + NodeSize
          /\ c.cb >= 2 * c.leaf

\* The assertions create_mem_page_size_classes makes beyond what validate() said.
AssertsHold(c) == c.fence \div 2 < c.max

\* The classes as a set: the code keeps them as an ascending sequence.  Rounding
\* keeps the doubled sizes in order, so its loop stops at the first too large one.
create_mem_page_size_classes(c) ==
  LET doubled == {AlignUp(2^e * (c.min + KVMeta) + NodeSize) : e \in 0..16}
  IN  {s \in doubled : s <= max_mini_page_size(c)} \cup {max_mini_page_size(c), c.leaf}

\* The class of a new page whose first record has n bytes: smaller than a leaf
\* and not filled to the brim, a whole leaf only in cache-only mode.
get_chain_size_hint(n, classes, cache_only) ==
  LET need == n + KVMeta + NodeSize
      fits == {s \in classes \ {Largest(classes)} : need < s}
  IN  IF fits # {} THEN Smallest(fits)
      ELSE IF cache_only /\ need <= Largest(classes) THEN Largest(classes)
      ELSE Panic

\* The class a page of size cur moves to for incoming bytes more, NoSize if none.
new_size_if_upgrade(cur, incoming, classes, cache_only) ==
  LET request == cur + incoming
      fits == {s \in classes \ {Largest(classes)} : request < s}
  IN  IF fits # {} THEN Smallest(fits)
      ELSE IF cache_only /\ request <= Largest(classes) THEN Largest(classes)
      ELSE NoSize
=============================================================================
