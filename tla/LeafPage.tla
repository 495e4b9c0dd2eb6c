------------------------------ MODULE LeafPage ------------------------------
(***************************************************************************)
(* The leaves of the tree and their caching: what is on a base page, a     *)
(* mini page and a full page, in bytes, and every way records move between *)
(* them (src/src/nodes/leaf_node.rs, src/src/mini_page_op.rs, the leaf     *)
(* half of src/src/tree.rs and of src/src/range_scan.rs).                  *)
(*                                                                         *)
(* One action is one attempt of an operation with its leaf locked: it      *)
(* completes, or it fails with CircularBufferFull, NeedRestart or Locked   *)
(* and leaves what it did so far behind for the retry.  What the circular  *)
(* buffer answers (a page or none, a dealloc handle or none), whether the  *)
(* parent is locked or full, and the coins of the promotion rates are left *)
(* open.  Snapshots are off here: CprSnapshot and LeafReload model them.   *)
(*                                                                         *)
(* leaves and seps are the children and the separators of the tree in key  *)
(* order; with one leaf that leaf is the root and has no parent.  Keys are *)
(* numbers of KeyLen bytes without a common prefix.  The reference bit of  *)
(* a record is left open, except for the record just used.  The model ends *)
(* with the first assertion, expect or unwrap that fails.                  *)
(***************************************************************************)
EXTENDS PageSizes, Sequences, SequencesExt, FiniteSetsExt

CONSTANTS
  Keys,     \* a set of positive numbers
  KeyLen,   \* bytes of a key
  Values,   \* the values written
  ValLen,   \* bytes of each value
  Configs   \* the configurations: those of PageSizes, with load_full for
            \* write_load_full_page, record_cache for read_record_cache, and three
            \* bounds: pages, the cached pages the circular buffer has room for,
            \* leaves, the children the root has room for, and records, the
            \* pairs of a key and a value that are inserted

VARIABLES config, classes, leaves, seps, failed

vars == <<config, classes, leaves, seps, failed>>
settings == <<config, classes>>  \* set once, by BfTree::with_config

-----------------------------------------------------------------------------
\* Pages.

NoFence == 0    \* the infinite fences
NoValue == "none"

OpType == {"Insert", "Delete", "Cache", "Phantom"}
is_insert(op) == op = "Insert"
is_dirty(op) == op \in {"Insert", "Delete"}
is_absent(op) == op \in {"Delete", "Phantom"}
is_cache(op) == op \in {"Cache", "Phantom"}

NoRecord == [op |-> "none", val |-> NoValue]
Record == {NoRecord} \cup [op : OpType, val : Values \cup {NoValue}]

NoPage == [size |-> 0, rem |-> 0, fenced |-> FALSE, lo |-> NoFence, hi |-> NoFence,
           split |-> FALSE, recs |-> [k \in Keys |-> NoRecord]]

PageLocation == {"Base", "Mini", "Full", "Null"}

KvLen(v) == KeyLen + (IF v = NoValue THEN 0 ELSE ValLen[v])
Weight(r) == KvLen(r.val) + KVMeta
Present(pg) == {k \in Keys : pg.recs[k] # NoRecord}
SumWeights(recs, S) == FoldSet(LAMBDA k, n : n + Weight(recs[k]), 0, S)
FenceLen(f) == IF f = NoFence THEN 0 ELSE KeyLen

\* initialize with the records of S put back one by one.
initialize(size, fenced, lo, hi, recs, S) ==
  [size |-> size, fenced |-> fenced, split |-> FALSE,
   lo |-> IF fenced THEN lo ELSE NoFence, hi |-> IF fenced THEN hi ELSE NoFence,
   rem |-> size - NodeSize - SumWeights(recs, S)
             - (IF fenced THEN 2 * KVMeta + FenceLen(lo) + FenceLen(hi) ELSE 0),
   recs |-> [k \in Keys |-> IF k \in S THEN recs[k] ELSE NoRecord]]

NewMini(size) == initialize(size, FALSE, NoFence, NoFence, NoPage.recs, {})
NewBase(lo, hi, recs, S) == initialize(config.leaf, TRUE, lo, hi, recs, S)

full_without_meta(pg, need, fence) == pg.rem + KVMeta < need
full_with_fences(pg, need, fence) ==
  \/ pg.rem < need
  \/ pg.fenced /\ pg.rem + FenceLen(pg.lo) + FenceLen(pg.hi) < need + fence

\* LeafNode::insert: the page after it and whether it succeeded.  An overwritten
\* record leaves a hole: rem never comes back.
Done(pg) == [ok |-> TRUE, pg |-> pg]
Refused(pg) == [ok |-> FALSE, pg |-> pg]

insert(pg, is_base, k, v, op, fence) ==
  LET old == pg.recs[k]
      put == [pg EXCEPT !.recs[k] = [op |-> op, val |-> v]]
  IN  IF old # NoRecord
      THEN IF op = "Delete" THEN Done([pg EXCEPT !.recs[k].op = "Delete"])
           ELSE IF KvLen(old.val) >= KvLen(v) THEN Done(put)
           ELSE IF pg.rem < KvLen(v) THEN Refused(pg)
           ELSE Done([put EXCEPT !.rem = @ - KvLen(v)])
      ELSE IF op = "Delete" /\ is_base THEN Done(pg)
      ELSE IF full_with_fences(pg, KvLen(v) + KVMeta, fence) THEN Refused(pg)
      ELSE Done([put EXCEPT !.rem = @ - KvLen(v) - KVMeta])

\* The dirty records of a mini page that pass a filter, inserted into a base page.
InsertDirty(pg, mini, S, fence) ==
  FoldLeft(LAMBDA r, k : LET n == insert(r.pg, TRUE, k, mini.recs[k].val, mini.recs[k].op, fence)
                         IN  [n EXCEPT !.ok = @ /\ r.ok],
           Done(pg),
           SetToSortSeq({k \in S : is_dirty(mini.recs[k].op)}, LAMBDA a, b : a < b))

\* consolidate_inner with skip_tombstone: holes and tombstones go.
Consolidated(pg, hi, S) ==
  LET kept == {k \in S : pg.recs[k] # NoRecord /\ pg.recs[k].op # "Delete"}
  IN  initialize(pg.size, pg.fenced, pg.lo, hi,
                 [k \in Keys |-> [pg.recs[k] EXCEPT !.op = "Insert"]], kept)

\* Where to cut: w gives the bytes each key will have, S the keys that count.
\* u16 sums, i16 differences.
U16(n) == n % 65536
I16(n) == ((n + 32768) % 65536) - 32768
Abs(n) == IF n < 0 THEN -n ELSE n
NoKey == 0
SumOver(w, S) == U16(FoldSet(LAMBDA k, n : n + w[k], 0, S))
Running(w, S, k) == SumOver(w, {j \in S : j <= k})

\* The first key whose running sum reaches half, and the next one.
Candidates(w, S) ==
  LET half == SumOver(w, S) \div 2
      reach == {k \in S : Running(w, S, k) >= half}
      rest == reach \ {Smallest(reach)}
  IN  <<Smallest(reach), IF rest = {} THEN NoKey ELSE Smallest(rest)>>

\* The second candidate unless the first one cuts more evenly.
Evener(w, S, c) ==
  LET left(k) == Running(w, S, k) - w[k]
      diff(k) == Abs(I16(I16(left(k)) - I16(U16(SumOver(w, S) - left(k)))))
  IN  IF c[2] = NoKey \/ diff(c[1]) < diff(c[2]) THEN c[1] ELSE c[2]

\* get_split_key, for a root leaf.
get_split_key(pg, cache_only) ==
  LET w == [k \in Keys |-> Weight(pg.recs[k])]
      S == Present(pg)
      from == IF cache_only THEN S \ {Smallest(S)} ELSE S
  IN  Smallest({k \in from : Running(w, S, k) >= SumOver(w, S) \div 2})

\* get_cache_only_insert_split_key: the records of the page and the new one.
BestCut(w, S) == Evener(w, S, Candidates(w, S))
get_cache_only_insert_split_key(pg, key, v) ==
  BestCut([k \in Keys |-> IF k = key THEN KvLen(v) + KVMeta ELSE Weight(pg.recs[k])],
          Present(pg) \cup {key})

Dirty(pg) == {k \in Keys : is_dirty(pg.recs[k].op)}

\* get_merge_split_key: the records of the base page and the dirty ones of the
\* mini page; never the low fence.  NoKey where the code unwraps a None.
CutAbove(w, S, lo) == IF BestCut(w, S) = lo THEN Candidates(w, S)[2] ELSE BestCut(w, S)
get_merge_split_key(base, mini) ==
  CutAbove([k \in Keys |-> Weight(IF k \in Dirty(mini) THEN mini.recs[k] ELSE base.recs[k])],
           Present(base) \cup Dirty(mini), base.lo)

\* Its side effect: base records that the mini page replaces become tombstones.
MarkDuplicates(base, mini) ==
  [base EXCEPT !.recs = [k \in Keys |->
     IF k \in Present(base) \cap Dirty(mini) THEN [@[k] EXCEPT !.op = "Delete"] ELSE @[k]]]

\* split and split_with_key: the left page in place, the right one new.
LeftWithOldFence(pg, key) == Consolidated(pg, pg.hi, {k \in Keys : k < key})
LeftOf(pg, key) == Consolidated(pg, key, {k \in Keys : k < key})
RightOf(pg, key) == Consolidated([pg EXCEPT !.lo = key], pg.hi, {k \in Keys : k >= key})

\* copy_initialize_to without the cold clean records of S.
CopyWithout(pg, size, S) ==
  initialize(size, FALSE, NoFence, NoFence, pg.recs, Present(pg) \ S)
AllClean(pg, used) == SUBSET {k \in Keys : is_cache(pg.recs[k].op)}
ColdSets(pg, used) == SUBSET {k \in Keys \ {used} : is_cache(pg.recs[k].op)}

-----------------------------------------------------------------------------
\* Leaves.

BaseLeaf(base) == [loc |-> "Base", base |-> base, cache |-> NoPage]
MiniLeaf(base, pg) == [loc |-> "Mini", base |-> base, cache |-> pg]
NullLeaf == [loc |-> "Null", base |-> NoPage, cache |-> NoPage]

\* upgrade_to_full_page: a copy of the base page whose records are clean.  No record
\* of a base page is meant to be clean already.
AllCached == [Insert |-> "Cache", Delete |-> "Cache", none |-> "none",
              Cache |-> "Cache", Phantom |-> "Cache"]
Clean == [Insert |-> "Cache", Delete |-> "Phantom", none |-> "none",
          Cache |-> "Cache", Phantom |-> "Phantom"]
FullLeaf(base) ==
  [loc |-> "Full", base |-> base,
   cache |-> [base EXCEPT !.recs = [k \in Keys |-> [@[k] EXCEPT !.op = Clean[@]]]]]
HasClean(base) == \E k \in Keys : is_cache(base.recs[k].op)

\* merge_full_page: the whole page becomes the base page, if it changed.
merge_full_page(l) ==
  LET dirtied == [Cache |-> "Insert", Phantom |-> "Delete", Insert |-> "Insert",
                  Delete |-> "Delete", none |-> "none"]
  IN  IF Dirty(l.cache) = {} THEN BaseLeaf(l.base)
      ELSE BaseLeaf([l.cache EXCEPT !.recs = [k \in Keys |-> [@[k] EXCEPT !.op = dirtied[@]]]])

IsRoot == Len(leaves) = 1
CanAlloc ==
  Cardinality({i \in DOMAIN leaves : leaves[i].loc \in {"Mini", "Full"}}) < config.pages
LeafOf(k) == 1 + Cardinality({i \in DOMAIN seps : seps[i] <= k})

\* read and read_by_key_inner: what a lookup of k returns.
Found(pg, k) == IF is_absent(pg.recs[k].op) THEN NoValue ELSE pg.recs[k].val
ReadLeaf(l, k) ==
  IF l.loc = "Base" \/ (l.loc = "Mini" /\ ~config.cache_only /\ l.cache.recs[k] = NoRecord)
  THEN Found(l.base, k)
  ELSE Found(l.cache, k)
Lookup == [k \in Keys |-> ReadLeaf(leaves[LeafOf(k)], k)]

-----------------------------------------------------------------------------
\* try_merge_mini_page: what becomes of the leaf when its mini page is merged.
\* parent says whether the parent's lock is lost, or it has no room for a key.

ParentState == {"locked", IF Len(leaves) < config.leaves THEN "space" ELSE "full"}

Merged(res, left, right, key, ok) ==
  [res |-> res, left |-> left, right |-> right, key |-> key, ok |-> ok]
Unsplit(res, base, ok) == Merged(res, base, NoPage, NoKey, ok)

InsertCount(mini) == Cardinality({k \in Keys : mini.recs[k].op = "Insert"})
InsertSize(mini) ==
  SumWeights(mini.recs, {k \in Keys : mini.recs[k].op = "Insert"})

Halves(left, right, key) == Merged("Split", left.pg, right.pg, key, left.ok /\ right.ok)
SplitMerge(base, mini, key) ==
  Halves(InsertDirty(LeftOf(base, key), mini, {k \in Keys : k < key}, config.fence),
         InsertDirty(RightOf(base, key), mini, {k \in Keys : k >= key}, config.fence), key)

NoSplit(r) == Unsplit("NoSplit", r.pg, r.ok)
MergeBySplit(base, mini, key, parent) ==
  IF key \in {NoKey, base.hi} THEN Unsplit("Err", base, FALSE)
  ELSE IF parent = "full" THEN Unsplit("Err", base, TRUE)
  ELSE SplitMerge(base, mini, key)

MergeInto(base, mini, parent) ==
  IF ~full_with_fences(base, InsertSize(mini), config.fence)
  THEN NoSplit(InsertDirty(base, mini, Keys, 0))
  ELSE IF parent = "locked" THEN Unsplit("Err", base, TRUE)
  ELSE MergeBySplit(MarkDuplicates(base, mini), mini, get_merge_split_key(base, mini), parent)

try_merge_mini_page(l, parent) ==
  IF Dirty(l.cache) = {} THEN Unsplit("NoSplit", l.base, TRUE)
  ELSE MergeInto(IF Cardinality(Present(l.base)) = 1
                 THEN Consolidated(l.base, l.base.hi, Keys) ELSE l.base,
                 l.cache, parent)

-----------------------------------------------------------------------------
\* Steps.

NotFailed == failed = "no"
Put(i, l) == NotFailed /\ leaves' = [leaves EXCEPT ![i] = l] /\ UNCHANGED <<settings, seps>>
PutPair(i, l, r, key) ==
  /\ NotFailed
  /\ leaves' = InsertAt([leaves EXCEPT ![i] = l], i + 1, r)
  /\ seps' = InsertAt(seps, i, key)
  /\ UNCHANGED settings
Check(ok, site) == failed' = IF ok THEN failed ELSE site

\* The outcomes of a merge, and the page a caller keeps of one.
MergesOf(l) == {try_merge_mini_page(l, parent) : parent \in ParentState}
BackAs(full, base) == IF full THEN FullLeaf(base) ELSE BaseLeaf(base)

\* A base page becomes a full page.
ToFull(i) ==
  /\ CanAlloc /\ Put(i, FullLeaf(leaves[i].base))
  /\ Check(~HasClean(leaves[i].base), "clean record on a base page")

\* The leaf after a merge whose outcome is m: the base page that was merged into, or
\* a full page of it; otherwise only the base page has changed.
AfterMerge(i, m, full) ==
  /\ CASE m.res = "Err" -> Put(i, [leaves[i] EXCEPT !.base = m.left])
       [] m.res = "NoSplit" -> Put(i, BackAs(full, m.left))
       [] m.res = "Split" -> PutPair(i, BackAs(full, m.left), BaseLeaf(m.right), m.key)
  /\ Check(m.ok /\ ~(full /\ HasClean(m.left)), "merge")

Init ==
  /\ config \in {c \in Configs : validate(c)}
  /\ classes = create_mem_page_size_classes(config)
  /\ seps = <<>>
  /\ leaves = IF config.cache_only
              THEN <<MiniLeaf(NoPage, NewMini(config.leaf))>>
              ELSE <<BaseLeaf(NewBase(NoFence, NoFence, NoPage.recs, {}))>>
  /\ failed = "no"

\* After a write the page may be moved to the tail of the buffer, without its
\* cold clean records.
MaybeMoved(i, pg, k) ==
  \/ Put(i, [leaves[i] EXCEPT !.cache = pg])
  \/ /\ leaves[i].loc = "Mini"
     /\ \E S \in ColdSets(pg, k) :
          Put(i, [leaves[i] EXCEPT !.cache = CopyWithout(pg, pg.size, S)])

\* LeafEntryXLocked::insert on a base page: the root takes the record itself, any
\* other leaf gets a mini page.
InsertRootBase(k, v, op, ok) ==
  LET r == insert(leaves[1].base, TRUE, k, v, op, config.fence)
  IN  /\ IsRoot /\ leaves[1].loc = "Base" /\ ok = r.ok
      /\ Put(1, BaseLeaf(IF r.ok THEN r.pg ELSE [r.pg EXCEPT !.split = TRUE]))
      /\ UNCHANGED failed

InsertNewMini(i, k, v, op) ==
  LET size == get_chain_size_hint(KvLen(v), classes, config.cache_only)
      r == insert(NewMini(size), FALSE, k, v, op, 0)
  IN  /\ ~IsRoot /\ CanAlloc /\ (leaves[i].loc = "Base" \/ (leaves[i].loc = "Null" /\ op = "Insert"))
      /\ Put(i, MiniLeaf(leaves[i].base, r.pg))
      /\ Check(size # Panic /\ r.ok, "new mini page")

\* On a full page: a page without room is merged back, and the caller retries.
InsertFull(i, k, v, op, ok) ==
  LET r == insert(leaves[i].cache, FALSE, k, v, op, config.fence)
  IN  /\ leaves[i].loc = "Full" /\ ok = r.ok
      /\ IF r.ok THEN Put(i, [leaves[i] EXCEPT !.cache = r.pg])
         ELSE Put(i, merge_full_page(leaves[i]))
      /\ UNCHANGED failed

\* On a mini page with room.
InsertMini(i, k, v, op) ==
  LET r == insert(leaves[i].cache, FALSE, k, v, op, 0)
  IN  /\ leaves[i].loc = "Mini" /\ r.ok
      /\ MaybeMoved(i, r.pg, k)
      /\ UNCHANGED failed

\* Whether a write to a mini page finds no room in it, and the next class then.
NoRoom(i, k, v, op) ==
  leaves[i].loc = "Mini" /\ ~insert(leaves[i].cache, FALSE, k, v, op, 0).ok
NextSize(i, v) ==
  new_size_if_upgrade(leaves[i].cache.size, KvLen(v) + KVMeta, classes, config.cache_only)

\* The mini page moves to a larger class.
InsertGrow(i, k, v, op) ==
  /\ NoRoom(i, k, v, op) /\ ~(config.cache_only /\ IsRoot) /\ NextSize(i, v) # NoSize
  /\ \E S \in ColdSets(leaves[i].cache, NoKey) :
       LET r == insert(CopyWithout(leaves[i].cache, NextSize(i, v), S), FALSE, k, v, op, 0)
       IN  MaybeMoved(i, r.pg, k) /\ Check(r.ok, "grown mini page")

\* There is none: the page is merged, perhaps replaced by a full page, and the
\* caller retries.
InsertMerge(i, k, v, op) ==
  /\ ~config.cache_only /\ NoRoom(i, k, v, op) /\ NextSize(i, v) = NoSize
  /\ \E m \in MergesOf(leaves[i]), full \in BOOLEAN :
       /\ full => config.load_full /\ Present(m.left) # {}
       /\ AfterMerge(i, m, full)

\* The root leaf of cache-only mode is a mini page of a whole leaf: it is
\* consolidated before it asks for a split.
InsertCacheRoot(k, v, op, ok) ==
  /\ config.cache_only /\ IsRoot /\ ~insert(leaves[1].cache, FALSE, k, v, op, 0).ok
  /\ \E packed \in {Consolidated(leaves[1].cache, NoFence, Keys)} :
     \E again \in {insert(packed, FALSE, k, v, op, 0)} :
       /\ ok = again.ok
       /\ Put(1, MiniLeaf(NoPage, IF ok THEN again.pg ELSE [packed EXCEPT !.split = TRUE]))
  /\ UNCHANGED failed

\* Cache-only mode, no larger class: consolidate without the key's old record,
\* and split the page if that made too little room.
SplitFor(i, pg, k, key, into) ==
  PutPair(i, MiniLeaf(NoPage, IF k < key THEN into.pg ELSE LeftOf(pg, key)),
             MiniLeaf(NoPage, IF k < key THEN RightOf(pg, key) ELSE into.pg), key)

InsertCacheSplit(i, k, v, op, ok) ==
  /\ config.cache_only /\ ~IsRoot
  /\ NoRoom(i, k, v, op) /\ NextSize(i, v) = NoSize
  /\ \E pg \in {Consolidated(leaves[i].cache, NoFence, Keys \ {k})} :
     \E r \in {insert(pg, FALSE, k, v, op, 0)} :
       \/ r.ok /\ ok /\ MaybeMoved(i, r.pg, k) /\ UNCHANGED failed
       \/ /\ ~r.ok /\ ~ok /\ Put(i, MiniLeaf(NoPage, pg))
          /\ Check(leaves[i].cache.size = config.leaf /\ Present(pg) # {}, "split of a mini page")
       \/ /\ ~r.ok /\ ok /\ CanAlloc /\ "space" \in ParentState
          /\ \E key \in {get_cache_only_insert_split_key(pg, k, v)} :
             \E into \in {insert(IF k < key THEN LeftOf(pg, key) ELSE RightOf(pg, key),
                                 FALSE, k, v, op, 0)} :
               /\ SplitFor(i, pg, k, key, into)
               /\ Check(leaves[i].cache.size = config.leaf /\ Present(pg) # {} /\ into.ok,
                        "split of a mini page")

\* One call of LeafEntryXLocked::insert that returns Ok, and one that has to be
\* retried after it changed something.
Accept(k, v, op) ==
  LET i == LeafOf(k)
  IN  \/ InsertRootBase(k, v, op, TRUE)
      \/ InsertNewMini(i, k, v, op)
      \/ InsertFull(i, k, v, op, TRUE)
      \/ InsertMini(i, k, v, op)
      \/ InsertGrow(i, k, v, op)
      \/ InsertCacheRoot(k, v, op, TRUE)
      \/ InsertCacheSplit(i, k, v, op, TRUE)

Retry(k, v, op) ==
  LET i == LeafOf(k)
  IN  \/ InsertRootBase(k, v, op, FALSE)
      \/ InsertFull(i, k, v, op, FALSE)
      \/ InsertMerge(i, k, v, op)
      \/ InsertCacheRoot(k, v, op, FALSE)
      \/ InsertCacheSplit(i, k, v, op, FALSE)

\* insert() and delete(), which is a write without a value.  Deleting from a page
\* that is gone is nothing.
Writes == config.records \cup {<<k, NoValue>> : k \in Keys}
OpOf(v) == IF v = NoValue THEN "Delete" ELSE "Insert"
Write(k, v) == Accept(k, v, OpOf(v))
WriteRetry(k, v) == Retry(k, v, OpOf(v))

\* read(): a value found on the base page of a leaf below the root is promoted,
\* as a cached record or with the whole page.
ReadsBase(k) ==
  LET l == leaves[LeafOf(k)]
  IN  /\ ~IsRoot /\ ~config.cache_only
      /\ l.loc = "Base" \/ (l.loc = "Mini" /\ l.cache.recs[k] = NoRecord)
      /\ ~is_absent(l.base.recs[k].op) /\ l.base.recs[k] # NoRecord

PromoteRecord(k) ==
  LET v == leaves[LeafOf(k)].base.recs[k].val
  IN  /\ config.record_cache /\ ReadsBase(k)
      /\ Accept(k, v, "Cache") \/ Retry(k, v, "Cache")

PromotePage(k) ==
  LET i == LeafOf(k)
  IN  /\ ~config.record_cache /\ ReadsBase(k)
      /\ \/ leaves[i].loc = "Base" /\ ToFull(i)
         \/ /\ leaves[i].loc = "Mini"
            /\ \E m \in MergesOf(leaves[i]), full \in BOOLEAN :
                 AfterMerge(i, m, full)

\* A value found on a mini page about to be evicted: the page moves to the tail.
ReadMoves(k) ==
  LET i == LeafOf(k)
  IN  /\ leaves[i].loc = "Mini" /\ leaves[i].cache.recs[k] # NoRecord
      /\ \E S \in ColdSets(leaves[i].cache, k) :
           Put(i, MiniLeaf(leaves[i].base, CopyWithout(leaves[i].cache, leaves[i].cache.size, S)))
      /\ UNCHANGED failed

\* A scan reaches leaf i: a base page may be promoted, a mini page is merged first.
\* A clean mini page is merged without loading the base page that is read next.
Scan(i) ==
  /\ ~IsRoot /\ ~config.cache_only
  /\ \/ leaves[i].loc = "Base" /\ Present(leaves[i].base) # {} /\ ToFull(i)
     \/ /\ leaves[i].loc = "Mini" /\ Dirty(leaves[i].cache) = {}
        /\ Put(i, BaseLeaf(leaves[i].base))
        /\ failed' = "base page not loaded"
     \/ /\ leaves[i].loc = "Mini" /\ Dirty(leaves[i].cache) # {}
        /\ \E m \in MergesOf(leaves[i]), full \in BOOLEAN :
             /\ full => m.res = "NoSplit" /\ Present(m.left) # {}
             /\ AfterMerge(i, m, full)

\* eviction_callback: the page is found again by its first key.
FirstKey(pg) == Smallest(Present(pg))
Evict(i) ==
  LET l == leaves[i]
  IN  /\ ~IsRoot /\ l.loc \in {"Mini", "Full"}
      /\ Present(l.cache) # {} /\ LeafOf(FirstKey(l.cache)) = i
      /\ \/ l.loc = "Mini" /\ config.cache_only /\ Put(i, NullLeaf) /\ UNCHANGED failed
         \/ l.loc = "Full" /\ Put(i, merge_full_page(l)) /\ UNCHANGED failed
         \/ /\ l.loc = "Mini" /\ ~config.cache_only
            /\ \E m \in MergesOf(l) : AfterMerge(i, m, FALSE)

\* try_split_leaf: the root leaf that asked for it becomes two.  The split key counts
\* tombstones, the halves are built without them.
TrySplitLeaf ==
  LET mini == config.cache_only
      pg == IF mini THEN leaves[1].cache ELSE leaves[1].base
      leaf(p) == IF mini THEN MiniLeaf(NoPage, p) ELSE BaseLeaf(p)
  IN  /\ IsRoot /\ pg.split
      /\ \E key \in {get_split_key(pg, mini)} :
         \E left \in {LeftOf(pg, key)}, right \in {RightOf(pg, key)} :
           PutPair(1, leaf(left), leaf(right), key)
      /\ UNCHANGED failed

\* The program after its first failed assertion.
Stopped == ~NotFailed /\ UNCHANGED vars

Next ==
  \/ \E w \in Writes : Write(w[1], w[2])
  \/ \E w \in Writes : WriteRetry(w[1], w[2])
  \/ \E k \in Keys : PromoteRecord(k) \/ PromotePage(k) \/ ReadMoves(k)
  \/ \E i \in DOMAIN leaves : Scan(i)
  \/ \E i \in DOMAIN leaves : Evict(i)
  \/ TrySplitLeaf
  \/ Stopped

Spec == Init /\ [][Next]_vars

-----------------------------------------------------------------------------
Page == [size : Nat, rem : Nat, fenced : BOOLEAN, lo : Keys \cup {NoFence},
         hi : Keys \cup {NoFence}, split : BOOLEAN, recs : [Keys -> Record]]

TypeOK ==
  /\ config \in Configs /\ classes \subseteq Nat
  /\ seps \in Seq(Keys) /\ Len(leaves) = Len(seps) + 1
  /\ \A i \in DOMAIN leaves :
       /\ leaves[i].loc \in PageLocation
       /\ {leaves[i].base, leaves[i].cache} \subseteq Page
  /\ failed \in {"no", "merge", "new mini page", "grown mini page",
                 "split of a mini page", "clean record on a base page",
                 "base page not loaded"}

\* Every assert!(ok) after an insert that is meant to have room holds: into a new
\* or a grown mini page, into the base page of a merge, into both halves of a split.
AssertionsHold == failed \in {"no", "base page not loaded"}

\* The map that lookups see changes only by insert() and delete(), and by nothing
\* else than their key: no merge, split, eviction, promotion or failed attempt
\* changes what a lookup returns.  In cache-only mode a record may be lost.
MapFollowsWrites ==
  [][\/ Lookup' = Lookup
     \/ config.cache_only /\ \A k \in Keys : Lookup'[k] \in {Lookup[k], NoValue}
     \/ \E w \in Writes : Lookup' = [Lookup EXCEPT ![w[1]] = w[2]] /\ Write(w[1], w[2])]_vars

\* The eviction callback can find every mini page and every full page of a tree on
\* disk again: get_key_to_reach_this_node has a record to read the key from, and a
\* descent by that key ends at this page.
EvictedPageIsFound ==
  \A i \in DOMAIN leaves :
    leaves[i].loc \in {"Mini", "Full"} /\ ~config.cache_only =>
      Present(leaves[i].cache) # {} /\ LeafOf(FirstKey(leaves[i].cache)) = i

\* Every page holds keys of its leaf's range only, and the fences on a base page
\* and its full page are the parent's separators: a scan goes on at the right one.
FencesAreSeparators ==
  \A i \in DOMAIN leaves :
    LET l == leaves[i]
        lo == IF i = 1 THEN NoFence ELSE seps[i - 1]
        hi == IF i = Len(leaves) THEN NoFence ELSE seps[i]
        pages == {l.base} \cup (IF l.loc = "Full" THEN {l.cache} ELSE {})
    IN  /\ \A k \in Present(l.base) \cup Present(l.cache) : LeafOf(k) = i
        /\ ~config.cache_only => \A pg \in pages : pg.lo = lo /\ pg.hi = hi

\* A clean record is what the base page says: dropping it loses nothing.
CleanIsOnBase ==
  \A i \in DOMAIN leaves : \A k \in Keys :
    is_cache(leaves[i].cache.recs[k].op) =>
      Found(leaves[i].cache, k) = Found(leaves[i].base, k)

\* A scan that reaches a leaf with a mini page goes on with its merged base page
\* (range_scan.rs): it finds that page loaded.
ScanFindsBaseLoaded == failed # "base page not loaded"

\* Both halves of a root leaf that is split in cache-only mode have a record ("There
\* are at least two distinctive INSERT keys in the root, safe for splitting",
\* mini_page_op.rs), and a page keeps one: the eviction callback finds it by its key.
MiniPageHasRecord ==
  config.cache_only /\ ~IsRoot =>
    \A i \in DOMAIN leaves : leaves[i].loc = "Mini" => Present(leaves[i].cache) # {}
=============================================================================
