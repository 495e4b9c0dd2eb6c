# Verification of Bf-Tree

Bf-Tree is a concurrent B-tree index whose leaves are cached in memory as variable-length
*mini pages* in front of 4 KB *base pages* on disk. This directory holds TLA+ models of its
concurrent parts, TLC runs that check them on small instances, and TLAPS proofs for every
value of the parameters. Source paths below are relative to `src/src/`.

## 1. The system and its parts

| Part | Source | What it does | State here |
|---|---|---|---|
| Page latch | `utils/rw_lock.rs`, `utils/atomic_wait.rs` | reader-writer lock of every page-table entry, on a futex, with `try_upgrade` | `RwLock`, proved |
| Circular buffer | `circular_buffer/` | memory of the mini pages: allocation at the tail, eviction at the head, free lists for reuse | `CircularBuffer`, proved |
| Snapshots (CPR) | `snapshot.rs`, the CPR rule in `mini_page_op.rs`, `tree.rs` | a consistent snapshot taken while writers go on (concurrent prefix recovery) | `CprSnapshot`, proved |
| Write-ahead log | `wal/mod.rs` | group commit: threads append to a segment buffer, a background job flushes it | `Wal` implements `DurableLog`, proved |
| Leaf pages | `mini_page_op.rs`, `nodes/leaf_node.rs` | read, insert, promotion, merge of mini page, full page and base page | `LeafPage` |
| Size classes, configuration | `tree.rs` 115-278, `config.rs` | the sizes of mini pages, and what `validate` admits | `PageSizes` |
| Tree operations | `tree.rs` | traversal, splits, root change, eviction callback | `Tree`, partly proved |
| Inner nodes and their lock | `nodes/inner_node.rs`, `utils/inner_lock.rs` | sorted separators under an optimistic version lock | `Tree` |
| Range scan | `range_scan.rs` | cursor over leaves | `Tree`, `LeafPage` |
| Leaf storage, page table | `storage.rs`, `utils/mapping_table.rs` | page id to location, under the latch | locations in `LeafPage`, locks in `Tree` |
| Snapshot loading | `snapshot.rs` | rebuilds a tree from a snapshot | `LeafReload` |
| Recovery, log entry encoding | `snapshot.rs`, `wal/operations.rs` | replays the log over a snapshot | not modelled |
| Files | `fs/` | device access, offset allocator | not modelled |
| Metrics, errors, helpers | `metric/`, ... | no protocol | not modelled |

How they interact: an operation walks the inner nodes optimistically, latches the leaf's
page-table entry (page latch), and changes its mini page in the circular buffer. A full buffer
makes the thread evict: the callback merges the mini page into its base page. A thread that
changes a page first reserves a slot of the snapshot manager (its *guard*), which tells it the
phase and the version it runs in, and applies the CPR rule: a page of an older version is
imaged before it is changed. With the log enabled a write is appended and waited for.

`PROJECT.json` lists the same parts with their sources, the hazards of the code line by line
with the properties that cover them, and for every definition the lines it translates.

## 2. Modules

Common conventions. One action is one atomic step of the code: an atomic operation, or a
critical section in which no other actor can see an intermediate state. Atomics are sequentially
consistent; the code has SeqCst fences where its arguments need them, and weaker orderings are
not explored. A futex word that is only compared with an earlier load of itself is replaced by
"is that load still current" (`fresh`); what is lost is the wrap of a 32-bit counter within one
sleep. A definition that no specification uses and that the `mutants` of `PROJECT.json`
name is a plausible bug, there to show that a property can fail.

### RwLock
State: `lock_val` (twice the readers, plus 1 when a writer waits, `MAX` when write locked), the
place `pc` of each thread, its local `v` or `s`, and who has a current load of
`writer_wake_counter`. Actions are the loads, compare-exchanges, futex calls and guard drops of
`read`, `try_read`, `write`, `try_write` and `try_upgrade`. A failed `try_` compare-exchange is
always possible, since it is weak there.

### CircularBuffer
State: the three logical addresses, size and `MetaState` of every live block, the free lists as
one set, outstanding `CircularBufferPtr`s (`guards`) and `TombstoneHandle`s (`held`, and
`adding`/`pushed` for the two steps of `dealloc`), the call of `alloc` that has the mutex and the
place of each evictor. `alloc` pops and re-tags a free block in two steps, because `dealloc` and
the evictors are not kept out by the buffer's mutex. `remove` and `find_and_remove` hold a list's
mutex for one step, so `try_add` may meet a locked list at any time (`TryAddFails`). Which node of
a class `remove` returns is left open. `WeakCas` says if `compare_exchange_weak` may fail
spuriously (LL/SC machines) or not (x86). `drain`, the iterator and the metrics are left out.

### CprSnapshot
State: the manager's `global_state`, `pause_snapshot`, `snapshot_in_progress`; slots with their
states and images; transactions; pages with a version and the set of changes made to them; the
manager's place. The manager goes Rest, Prepare, InProgress, Sweep, Rest, and between phases reads
the slots *one by one*, sleeping on `phase_waiter`. A transaction latches its leaves, reads the
versions of its inner nodes, reserves a slot (load, store, recheck of the global state, recheck of
the pause), upgrades the inner nodes, applies the CPR rule and writes, then releases. `valid`
becomes FALSE when another transaction has upgraded one of its inner nodes. `GiveUp` is a
transaction that has already imaged pages and raised their versions and then finds no room.
What a transaction does not read again (its guard and inner nodes once the slot is cleared, the slot
once it is vacated) is set back there, so that states that differ in it alone are one.
A leaf here is mini page and base page together, so merges that take no guard change nothing that
the model sees. The snapshot file's layout and its recorded root id are not modelled.

### Wal and DurableLog
State: the segment buffer as cells of 8 bytes, cursor, offset, lsns, the file, the job, the
threads in `append_and_wait`. `segment_iter` and `entry_iter` are the reader's walk over the file,
so that everything is said of what a reader *finds*, with the buffer's old entries behind the
cursor and segments written twice in place. `DurableLog` is the promise: entries are appended, and
a sync brings stable storage up to the whole log. `Wal` implements it with `stable` mapped to what
the reader finds. A crash is not a step: it leaves the file as it is, and the properties hold of
the file in every state. A torn segment write is not modelled.

### PageSizes
A configuration is a record of byte counts. `validate` is the conjunction of the checks of
`Config::validate`, `create_mem_page_size_classes` the set of sizes the tree derives from it,
`get_chain_size_hint` and `new_size_if_upgrade` how a page picks its class, with `Panic` for the
`panic!` of the first.

### LeafPage
State: the leaves in key order with the separators between them (one leaf is the root), for each
its location (`Base`, `Mini`, `Full`, `Null`), base page and cached page; a page is its size, the
bytes left, its fences, its split flag and the record of each key, with the operation type
(`Insert`, `Delete`, `Cache`, `Phantom`) on which the whole caching scheme turns. One action is one
attempt of an operation under the leaf's lock. An attempt that fails with CircularBufferFull,
NeedRestart or Locked keeps what it has changed so far (`Retry`), which the next attempt then meets.
The buffer's answers, the state of the parent, the coins of the promotion rates and the reference
bits are left open. `failed` records the first assertion, `expect` or `unwrap` that fails, and the
model ends there; a `debug_assert` does not end it, since a release build goes on. `Evict` is an
eviction that finds its page: without a record in the page the callback returns NeedRestart in
cache-only mode and would read past the records on disk, where `EvictedPageIsFound` shows that the
page has one.
Room is counted in bytes as the code counts it, metas, fences and the holes of overwritten records
included, and the split keys are the code's.

### LeafReload
`LeafPage` with one more action, a snapshot taken at rest and loaded again.

### Tree
State: the root id, the inner nodes (version, root and split flags, separators, children), the
leaves (keys on base page and mini page, right fence, split flag, latch), who holds the dealloc
handle of a mini page, and per thread the record of its call: the place `pc`, the page it is at,
the parent and the version read from it. Every step between two lock or version operations is one
action, so threads interleave at each. A node that is being written may be read: an insert shifts
the entries behind the new one and the entry before may be found, a split rewrites the node and any
child may be found (`Found`). `upgrade` may fail for no reason. An insert that meets a full buffer
evicts in the code before it retries; in the model another thread's `BeginEvict` does that, and the
insert retries. An attempt to move a mini page to a larger block that fails changes nothing and is
left out. The check of the parent and the read of the child are one step, since the node's own
version is checked further down. A leaf's keys are sets here, with capacities in records instead of bytes. The scan is
`ScanIter`; `ScanIterMut` takes X locks in the same order and is not modelled.

### MC modules and proof modules
`MCRwLock`, `MCCircularBuffer`, `MCCprSnapshot`, `MCWal`, `MCLeafPage`, `MCLeafReload`, `MCTree` give
TLC the constants, write sets, configurations, starting trees and, for safety alone, symmetry.
The `...Proofs` modules hold the theorems; those about `Tree` are spread over `TreeInvariant`,
`TreeRoot` and `TreeProofs`.

## 3. Runs

| Run | Instance | Properties | Shows |
|---|---|---|---|
| `rwlock` | 3 threads, MAX 15 | TypeOK, MutualExclusion, NoStrandedReader, NoStrandedWriter, EveryCallReturns | guards exclude; nobody sleeps on a free lock without a wake-up on its way; once requests stop, each call returns with its guard |
| `circular_buffer` | 64 bytes, 2 evictors, tail to 96, weak CAS | TypeOK, Tiling, NoSharedMemory, StateChangesSucceed, ExclusiveHandle, ReuseFits, HeadCatchesUp | no overlap, no panic, no dangling reference over the wrap |
| `circular_buffer_live` | tail to 32, strong CAS | FreeListExact, EvictReturns | free lists are exact and `evict_one` returns |
| `cpr` | 2 slots, 2 transactions, 3 pages, 1 snapshot | TypeOK, SnapshotConsistent, SlotExclusive, PhaseBarrier, SweepFrozen, NoConflict, SnapshotCompletes | a leaf split and an inner split race a whole snapshot; the manager never misses its wake-up |
| `wal` | 2 threads, segments of 10 cells, 6 entries of 4 or 5 cells | TypeOK, LaterReturnedIsFlushed, ImplementsDurableLog, Acknowledged, RoomIsMade | the file is always a gapless prefix of the log, with every acknowledged entry but the first; appends are acknowledged and a full buffer is emptied |
| `leaf_page` | 3 keys, values of 1 and 4 bytes, up to 3 leaves, three configurations | TypeOK, AssertionsHold, EvictedPageIsFound, FencesAreSeparators, CleanIsOnBase, MapFollowsWrites | no move of records between mini, full and base pages changes what a lookup returns, no assertion about room fails, and on disk every cached page can be found for its eviction |
| `tree` | 2 threads, three starting trees, nodes of 3 children | TypeOK, UpgradedIsParent, NoLostKey, RightLeaf, ScanComplete, RootIsMarked | descents without locks end at the right leaf, write guards exclude, no insert is lost, scans are complete |

Bounds. Three threads are a reader, a writer and one more of either kind, which every wake-up
argument of the lock involves; MAX 15 is the smallest odd value with room to spare for them, and
the proof covers the rest. The small buffer holds two or three blocks of two size classes; a tail
of 96 goes past the physical end and once more over the start, so fillers, wraps and reuse all
occur, and two evictors finish in either order. Two transactions that share an inner node, one of
which creates a page, with a slot each, cover the races between a transaction and the manager and
between two transactions; a reservation that finds every slot taken, and a second snapshot after the
first, are left to the theorems, which hold for any number of both; `SnapshotCompletes`, which is not
proved, is checked without them. Segments of 10 cells with entries of 4 and 5 end full or with a gap; six entries fill more than two segments, so old data lies behind the
cursor. `MaxTail`, `MaxVersion` and `MaxLsn` cap counters and stand in guards. The layout of
`leaf_page` is scaled down (metas of 1 byte, leaves of 21 or 14) so that three keys overflow a base
page: merges split, mini pages grow through all classes, and buffers with room for one page (three
without a disk) refuse. Its three configurations cover records or whole pages cached by reads, full pages loaded
by writes or not, and cache-only mode. The trees of `tree` are a root leaf about to split, a full root over
full leaves with a full buffer, and a full node below a full root: with two threads every split
happens while another thread descends, inserts, evicts or scans. Two more threads add no new kind
of conflict at one node, and the proof of `UpgradedIsParent` covers any number.

Runs that show a disagreement between a comment or a document and the code (`expect: violation`):

| Run | Property | The code |
|---|---|---|
| `wal_first` | ReturnedIsFlushed ("The returned flushed lsn") | `flushed_lsn` starts at 0, the first entry's lsn, so the first append returns at once. |
| `leaf_empty` | MiniPageHasRecord ("There are at least two distinctive INSERT keys in the root, safe for splitting.") | a cache-only root asks for its split, another thread deletes one of its two records, and the split, which counts the tombstone and then drops it, leaves one half empty. |
| `leaf_scan` | ScanFindsBaseLoaded ("keep using the merged base page") | a mini page of clean records is merged without loading the base page, which the scan then unwraps. |
| `leaf_reload` | MapFollowsWrites ("they are equivalent") | a full page saved as a base page keeps `Phantom` records; a later split of that page makes them `Insert`, and a deleted key is back. |
| `tree_scan` | NoDeadlock ("next() terminates") | the scan waits for its next leaf with the X lock of the last one; a torn read sends it back to that leaf, and it waits for itself. |

Observations on which no run is spent:

- `alloc` unlinks a free block before a weak compare-exchange. When that fails spuriously (never on
  x86) the block is FreeListed in no list, and the evictor that reserves it spins for ever:
  `EvictReturns` fails with `WeakCas = TRUE`.
- `snapshot_in_progress` is set before the phase leaves REST, so that the advice "all threads are in
  the next version" is given a little too early.
- The condition of `wait_while` in `append_and_wait` is inverted: a thread that waits for room spins.
- A log entry of more than half a segment can wait for ever, because a segment less than half full
  is flushed in place.
- `validate` admits configurations at the border that the tree then refuses: the largest mini page
  equal to the largest record with its meta and the node header, for which `get_chain_size_hint`
  panics (it compares with `<`), and a fence of twice the largest record, which
  `create_mem_page_size_classes` asserts away.
- `get_merge_split_key` keeps its sums in `u16` and their differences in `i16`; pages of the largest
  admitted size can overflow them. The model wraps them as the code does.
- The empty half of `leaf_empty` stops a debug build at a `debug_assert` (`tree.rs` 675-676), after
  the new root has been stored. A release build goes on: the page serves reads and writes, and its
  eviction is refused with NeedRestart until a write fills it, while `evict_one` tries again.
- The split of the root locks the new root with `try_read().unwrap().upgrade().unwrap()` (`tree.rs`
  917-920). `upgrade` is a weak compare-exchange, which may fail for no reason on LL/SC machines and
  then panics here. `SplitRoot` takes it as successful, as it is on x86; elsewhere in `Tree` every
  `upgrade` may fail.
- `move_cursor_to_leaf_mut` unwraps a parent that a root leaf does not have.

Some comments disagree with the code in ways no run is spent on. In the circular buffer, `evict_one`
"Returns the number of bytes the head advanced" (`circular_buffer/mod.rs` 883), but returns the size
of its own block whatever the head did; `find_and_remove` assumes that "No two threads may call
this function at the same time" (`freelist.rs` 173), while two evictors can, which the list's mutex
makes harmless; and `alloc` says of `free_list_to_tombstone` that "here we might fail" (545), which it
never does (`StateChangesSucceed`): an evictor that meets a FreeListed block must take it from its list
first. In the leaf node, "A cached record might be inaccessible (thus invalid)" (`nodes/leaf_node.rs`
1840) is true of no state that the model reaches (`CleanIsOnBase`).

One result is worth a remark although nothing contradicts it. `NoConflict` says that a transaction
never meets a page of a version above its guard's, so the restart the CPR rule has for that case
in PREPARE is never taken: pages are locked, or read under validation, *before* the guard is
taken. The branch is in the model (`Conflict`) and is needed by the pattern, not by today's order.

## 4. Fairness

Liveness is checked under fairness the code justifies, and no more. No caller has to start
anything, no spurious wake-up is ever owed.

- `RwLock`: weak fairness of each thread's steps inside the lock, guard drops included (guards
  are scoped). `EveryCallReturns` presumes that requests stop: the lock does not promise a writer
  anything against an endless stream of others.
- `CircularBuffer`: weak fairness of `alloc`, of handle holders and of evictors; strong fairness of
  a callback that succeeds, which fails only while another thread has the page's latch or changes
  the tree. The one page for which it can fail for longer is the empty one of `leaf_empty`.
- `CprSnapshot`: weak fairness of a transaction under way and of the manager; strong fairness of
  the sweep's read lock on a page that is free again and again.
- `LeafPage` and `Tree` are checked for safety alone: every loop of the tree retries without a bound,
  and a scheduler that lets two threads spoil each other's attempts for ever is not excluded.
- `Wal`: weak fairness of threads in a call and of the job, whose interval passes. The job must get
  the mutex although threads that wait for room spin on it: with the bound on entries this stands
  for a mutex that does not starve one thread for ever. `RoomIsMade` holds for entries of at most
  half a segment.

## 5. Proofs

`tlapm` checks every theorem for all constants that satisfy the named assumptions.

**RwLockProofs** (any finite set of threads, `MAX` odd and above twice their number plus one, as
`u32::MAX` is): `TypeCorrect`, `Exclusion`, `ReadersAreWoken`, `WritersAreWoken`. Mutual exclusion
is inductive only with `Locals`, what a thread knows of the value it loaded (its parity, or that it
was at most 1): a compare-exchange that succeeds then tells about the present. That no writer is
left asleep needs `WaitFresh`: a writer about to sleep on a current counter sees a lock whose
release will move the counter, or that move is still to come.

**CircularBufferProofs** (any capacity that is a multiple of the meta's size, any sizes that have a
class at or above and one at or below, any evictors): `TypeCorrect` (no reference to a block the
head has passed), `BlocksTile`, `MemorySafe`, `NoPanic`, `HandlesExclude`, `HeadReachesEvicting`,
`ReusedBlockFits`, and `ListsExact` under `WeakCas = FALSE`. The invariant adds `Alignment` (the filler at the
physical end has room for its own meta), `Ownership` (free lists, allocator and evictors hold
disjoint blocks) and `Reservations` (between head and evicting a block is Evicted or an evictor has
it). Memory safety follows from tiling, from at most one lap between head and tail, and from no
block crossing the end.

**CprSnapshotProofs** (any number of slots at least 1, any transactions, pages and write sets):
`TypeCorrect`, `OneOwner`, `BarrierHolds`, `FrozenDuringSweep`, `SnapshotIsPrefix`,
`NeverConflicts`. The barrier is the heart of the
protocol: the manager reads slots one at a time, and a slot it has passed may be taken and stored
to while it reads on. `SeenGuards` says what is still true behind the cursor: a guard there is in
the state asked for, and a reservation that has passed its look at the global state passed it with
the state of now, so that only the pause is left to look at. It rests on `Published` (what an owner
stored is there until it clears it), which rests on `SlotExclusive` and `Owned`. That a snapshot is
consistent needs the barrier and, page by page, what is already saved: `OldIsPrefix` (a page that
has not been raised to the new version has old changes only), `RaisedImaged` (one that has been
raised was imaged first), `ImagesRight` (an image holds the old changes, all of them) and
`SweptSoFar` (the sweep leaves no page behind that nobody has imaged). `finalize` then merges a set
of right images that covers every page. `VersionsBelow` and `GuardNow`, what the guard of a
transaction says of the version of now, give `NeverConflicts` as well.

**WalProofs** (any threads, segment size and entries of at least one cell of data): `TypeCorrect`,
`ReturnsFlushed`, and `LogIsDurable`, that `Wal` implements `DurableLog`. The invariant
`BufferIsTail` says that the log is what a reader finds in the finished segments followed by the
entries that lie in the buffer below the cursor; `ReaderFinds` that the reader's walk returns those
entries when the next header is cleared or the segment ends, whatever old entries lie behind. So a
flush makes the file the log, in place or not, and an append leaves it alone. `Numbered` relates
`flushed_lsn` to the length of what is on file. The reader is a recursive function: that it exists,
and what it returns, is proved by induction over a set of numbers (lemma `Induction`, from the
library's `WFMin`).

**TreeInvariant, TreeRoot, TreeProofs** (any threads, keys, pages, caches and starting
trees; `None` is no thread, a node has room for two children, and the starting trees are trees
without a lock and with the root marked): `TreeKeepsInvariant`, `UpgradeIsExclusive` and
`RootStaysMarked`. A descent reads nodes without locks, so the invariant `IInv` says of each thread
what its reads are worth: the child it took is one of the parent's *as long as the parent has the
version that was read* (`ReadOK`), a node it has a write guard of is locked and nobody else's
(`GuardOK`, `Exclusive`), and a leaf at which it works is latched by it (`LatchOK`), next to the
shape of the tree (`TreeOK`). A step changes only nodes that its thread has guards of and leaves it
has latched, and versions only grow (`NodesKept`, `LeavesKept`); lemma `OthersOK` concludes that
every other thread keeps what it knows, so each action is proved for its own thread
alone. `RInv` adds that a thread without a parent which has locked its page is at the root, without
which the split of a node that has just stopped being the root could mark a second one.

Only model-checked:

- all liveness (`EveryCallReturns`, `EvictReturns`, `SnapshotCompletes`, `Acknowledged`,
  `RoomIsMade`): fairness and ENABLED are out of the prover's reach;
- of `Tree`: `NoLostKey`, `RightLeaf` and `ScanComplete`, which need the range of keys of every page
  as a further invariant, and `TypeOK`, whose bound on versions holds for the remainder of
  `MaxVersion` in use; `NoDeadlock` is violated;
- `LeafPage` and `LeafReload`, whose invariants are about bytes, summed over records with folds.

## 6. Not modelled

Byte layouts (nodes, log entries, snapshot file), device access and its errors, torn writes,
parsing of the configuration, metrics, weak memory, memory reclamation of the page table. `recovery` in
`snapshot.rs` is marked "Incomplete function, internal use only"; it reads entries with a tag byte
that the writer in `tree.rs` does not put, with a fixed segment size of 4096, and waits for the
composition below.

## 7. Plan

1. The ranges of keys: an assignment of a range to every page that the separators and fences agree
   with, from which `RightLeaf`, `NoLostKey` and `ScanComplete` follow for any tree.
2. `LeafPage`: `MapFollowsWrites` for any keys and values, with room in bytes left abstract.
3. `Recovery`: `CprSnapshot` and `Wal` composed, with the entry encoding by its tags; after a crash
   the tree holds every acknowledged write.
4. `OffsetAlloc` and the page table's id allocation as small modules.
