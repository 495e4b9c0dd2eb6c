--------------------------- MODULE CircularBuffer ---------------------------
(***************************************************************************)
(* The buffer pool of mini pages (src/src/circular_buffer/mod.rs) with its *)
(* free lists (src/src/circular_buffer/freelist.rs).                       *)
(*                                                                         *)
(* Memory is addressed by the logical address of a block's AllocMeta; the  *)
(* physical one is its remainder by Capacity.  The live blocks are those   *)
(* between head and tail: DOMAIN state.  A reference to a block outside    *)
(* that set is a use after free.  A free list is the set of its nodes:     *)
(* which node of a class remove() returns is left open.                    *)
(*                                                                         *)
(* Three kinds of actors interleave.  alloc() runs under the buffer's      *)
(* mutex, but pops and re-tags free blocks in separate steps.  dealloc()   *)
(* takes no mutex but that of one free list.  evict_one() takes the mutex  *)
(* for its first and its last part and runs without it in between.  Under  *)
(* the mutex only other holders of it touch the three addresses, so a      *)
(* critical section that reads and writes just those is one step.          *)
(***************************************************************************)
EXTENDS Integers

CONSTANTS
  Capacity,      \* bytes of the buffer, a power of two
  MetaSize,      \* CB_ALLOC_META_SIZE
  Sizes,         \* the sizes callers ask for
  SizeClasses,   \* FreeList.size_classes
  CopyOnAccess,  \* copy_on_access_threshold
  Evictors,      \* threads that call evict_one
  WeakCas,       \* whether compare_exchange_weak may fail spuriously (LL/SC)
  MaxTail        \* bound: no call of alloc starts with a larger tail_addr

ASSUME SizeAssumption ==
  /\ Capacity \in Nat \ {0} /\ MetaSize \in Nat \ {0}
  /\ Capacity % MetaSize = 0 /\ CopyOnAccess \in Nat
  /\ SizeClasses \subseteq Nat \ {0}
  /\ Sizes \subseteq Nat \ {0}
  /\ WeakCas \in BOOLEAN
ASSUME ClassAssumption ==
  \A n \in Sizes : (\E c \in SizeClasses : c >= n) /\ (\E c \in SizeClasses : c <= n)

VARIABLES
  head, evicting, tail,  \* States
  size, state,           \* AllocMeta of each live block
  freelist,              \* the blocks linked into some free list
  guards,                \* blocks with an outstanding CircularBufferPtr
  held, adding, pushed,  \* blocks whose TombstoneHandle is with a caller, in
                         \* dealloc before try_add, and after it (list locked)
  alloc,                 \* the call of alloc that holds the mutex
  evpc, evstart          \* each evictor's place in evict_one and start_addr

vars == <<head, evicting, tail, size, state, freelist, guards,
          held, adding, pushed, alloc, evpc, evstart>>

addresses == <<head, evicting, tail>>
handles == <<held, adding, pushed>>
evictors == <<evpc, evstart>>

MetaState == {"NotReady", "Ready", "Tombstone", "BeginTombStone", "FreeListed", "Evicted"}
NoAlloc == [pc |-> "none", size |-> 0, blk |-> 0]

Live == DOMAIN state
After(a) == a + MetaSize + size[a]          \* where the next block starts
SetState(a, s) == state' = [state EXCEPT ![a] = s]

align_up(n, align) == ((n + align - 1) \div align) * align

size_class_smaller_than(n) ==
  CHOOSE c \in SizeClasses : c <= n /\ \A d \in SizeClasses : d <= n => d <= c

\* Mutant: the list searched is the one a block of this size is put in.
size_class_below(n) == size_class_smaller_than(n)

size_class_larger_than(n) ==
  CHOOSE c \in SizeClasses : c >= n /\ \A d \in SizeClasses : d >= n => c <= d

ClassOf(a) == size_class_smaller_than(size[a])

\* Mutant: dealloc gives up the list's mutex before the block is FreeListed.
NeverLocked(c) == FALSE

\* dealloc keeps the list's mutex from try_add until the block is FreeListed.
ListLocked(c) == \E a \in pushed : ClassOf(a) = c

\* distance_to_tail of the block's data, taken in physical addresses.
ptr_is_copy_on_access(a) == (tail - (a + MetaSize)) % Capacity >= CopyOnAccess

Init ==
  /\ head = 0 /\ evicting = 0 /\ tail = 0
  /\ size = [a \in {} |-> 0] /\ state = [a \in {} |-> "Evicted"]
  /\ freelist = {} /\ guards = {}
  /\ held = {} /\ adding = {} /\ pushed = {}
  /\ alloc = NoAlloc
  /\ evpc = [t \in Evictors |-> "idle"] /\ evstart = [t \in Evictors |-> 0]

(***************************************************************************)
(* alloc(size): reuse a free block of the class, or extend the tail.       *)
(***************************************************************************)
Alloc(n) ==
  /\ alloc.pc = "none"
  /\ tail <= MaxTail
  /\ alloc' = [pc |-> "pop", size |-> n, blk |-> 0]
  /\ UNCHANGED <<addresses, size, state, freelist, guards, handles, evictors>>

AllocPop ==
  /\ alloc.pc = "pop"
  /\ LET c == size_class_larger_than(alloc.size)
         candidates == {a \in freelist : ClassOf(a) = c}
     IN /\ ~ListLocked(c)
        /\ \/ /\ candidates = {}
              /\ alloc' = [alloc EXCEPT !.pc = "bump"]
              /\ UNCHANGED freelist
           \/ \E a \in candidates :
                /\ alloc' = [alloc EXCEPT !.pc = "reuse", !.blk = a]
                /\ freelist' = freelist \ {a}
  /\ UNCHANGED <<addresses, size, state, guards, handles, evictors>>

\* Mutant: the block is passed over and keeps its state.
AllocSkip ==
  /\ alloc.pc = "reuse" /\ ptr_is_copy_on_access(alloc.blk)
  /\ alloc' = [alloc EXCEPT !.pc = "pop", !.blk = 0]
  /\ UNCHANGED <<addresses, size, state, freelist, guards, handles, evictors>>

\* The popped block is too close to the head: tombstone it and pop the next.
AllocDiscard ==
  /\ alloc.pc = "reuse" /\ ptr_is_copy_on_access(alloc.blk)
  /\ SetState(alloc.blk, "Tombstone")
  /\ alloc' = [alloc EXCEPT !.pc = "pop", !.blk = 0]
  /\ UNCHANGED <<addresses, size, freelist, guards, handles, evictors>>

AllocReuse ==
  /\ alloc.pc = "reuse" /\ ~ptr_is_copy_on_access(alloc.blk)
  /\ state[alloc.blk] = "FreeListed"
  /\ SetState(alloc.blk, "NotReady")
  /\ guards' = guards \cup {alloc.blk}
  /\ alloc' = NoAlloc
  /\ UNCHANGED <<addresses, size, freelist, handles, evictors>>

\* The compare-exchange fails: the block is left behind as it is.
AllocReuseFails ==
  /\ alloc.pc = "reuse" /\ ~ptr_is_copy_on_access(alloc.blk)
  /\ WeakCas \/ state[alloc.blk] # "FreeListed"
  /\ alloc' = [alloc EXCEPT !.pc = "pop", !.blk = 0]
  /\ UNCHANGED <<addresses, size, state, freelist, guards, handles, evictors>>

\* Mutant: the room is counted from evicting_addr.
RemainingToEvicting == Capacity - (tail - evicting)

LogicalRemaining == Capacity - (tail - head)

\* Mutant: the meta is not counted.
PhysicalRemainingOffByMeta == Capacity - (tail % Capacity) + MetaSize

PhysicalRemaining == Capacity - (tail % Capacity)
Required(n) == align_up(n, MetaSize) + MetaSize

\* Write an AllocMeta at the tail and move the tail behind its block.
Extend(n, s) ==
  /\ size' = [a \in Live \cup {tail} |-> IF a = tail THEN n ELSE size[a]]
  /\ state' = [a \in Live \cup {tail} |-> IF a = tail THEN s ELSE state[a]]
  /\ tail' = tail + MetaSize + n
  /\ UNCHANGED <<head, evicting>>

AllocFull ==
  /\ alloc.pc = "bump" /\ LogicalRemaining < Required(alloc.size)
  /\ alloc' = NoAlloc
  /\ UNCHANGED <<addresses, size, state, freelist, guards, handles, evictors>>

\* A tombstone fills the space up to the physical end.  The mutex is released
\* and alloc calls itself: that call is the next Alloc(alloc.size).
AllocFill ==
  /\ alloc.pc = "bump" /\ LogicalRemaining >= Required(alloc.size)
  /\ PhysicalRemaining < Required(alloc.size)
  /\ Extend(PhysicalRemaining - MetaSize, "Tombstone")
  /\ alloc' = NoAlloc
  /\ UNCHANGED <<freelist, guards, handles, evictors>>

AllocExtend ==
  /\ alloc.pc = "bump" /\ LogicalRemaining >= Required(alloc.size)
  /\ PhysicalRemaining >= Required(alloc.size)
  /\ Extend(align_up(alloc.size, MetaSize), "NotReady")
  /\ guards' = guards \cup {tail}
  /\ alloc' = NoAlloc
  /\ UNCHANGED <<freelist, handles, evictors>>

\* Drop of CircularBufferPtr: to_ready.
GuardDrop(a) ==
  /\ a \in guards
  /\ SetState(a, "Ready")
  /\ guards' = guards \ {a}
  /\ UNCHANGED <<addresses, size, freelist, handles, alloc, evictors>>

(***************************************************************************)
(* A caller that knows a page may take its handle, and then give it back   *)
(* or deallocate the page.                                                 *)
(***************************************************************************)
acquire_exclusive_dealloc_handle(a) ==
  /\ a \in Live /\ state[a] = "Ready"
  /\ SetState(a, "BeginTombStone")
  /\ held' = held \cup {a}
  /\ UNCHANGED <<addresses, size, freelist, guards, adding, pushed, alloc, evictors>>

\* Drop of TombstoneHandle: revert_to_ready.
HandleDrop(a) ==
  /\ a \in held
  /\ SetState(a, "Ready")
  /\ held' = held \ {a}
  /\ UNCHANGED <<addresses, size, freelist, guards, adding, pushed, alloc, evictors>>

\* dealloc looks at the tail without the mutex.
Dealloc(a) ==
  /\ a \in held
  /\ held' = held \ {a}
  /\ IF ptr_is_copy_on_access(a)
     THEN SetState(a, "Tombstone") /\ UNCHANGED adding
     ELSE adding' = adding \cup {a} /\ UNCHANGED state
  /\ UNCHANGED <<addresses, size, freelist, guards, pushed, alloc, evictors>>

TryAdd(a) ==
  /\ a \in adding
  /\ \E c \in SizeClasses : c <= size[a]
  /\ ~ListLocked(ClassOf(a))
  /\ adding' = adding \ {a}
  /\ freelist' = freelist \cup {a}
  /\ pushed' = pushed \cup {a}
  /\ UNCHANGED <<addresses, size, state, guards, held, alloc, evictors>>

\* The block is too small, or another thread is inside the list's mutex: in remove
\* or find_and_remove, one step here, it may be there at any time.
TryAddFails(a) ==
  /\ a \in adding
  /\ adding' = adding \ {a}
  /\ SetState(a, "Tombstone")
  /\ UNCHANGED <<addresses, size, freelist, guards, held, pushed, alloc, evictors>>

\* to_freelist, and the list's mutex is released.
ToFreelist(a) ==
  /\ a \in pushed
  /\ SetState(a, "FreeListed")
  /\ pushed' = pushed \ {a}
  /\ UNCHANGED <<addresses, size, freelist, guards, held, adding, alloc, evictors>>

(***************************************************************************)
(* evict_one(callback).                                                    *)
(***************************************************************************)
EvGoto(t, label) == evpc' = [evpc EXCEPT ![t] = label]

\* Mutant: evicting_addr is not moved with the reservation.
EvictReserveLate(t) ==
  /\ evpc[t] = "idle" /\ alloc.pc = "none"
  /\ evicting # tail
  /\ evstart' = [evstart EXCEPT ![t] = evicting]
  /\ EvGoto(t, "acquire")
  /\ UNCHANGED <<addresses, size, state, freelist, guards, handles, alloc>>

\* (1) Reserve the next block, under the mutex.
EvictReserve(t) ==
  /\ evpc[t] = "idle" /\ alloc.pc = "none"
  /\ evicting # tail
  /\ evstart' = [evstart EXCEPT ![t] = evicting]
  /\ evicting' = After(evicting)
  /\ EvGoto(t, "acquire")
  /\ UNCHANGED <<head, tail, size, state, freelist, guards, handles, alloc>>

\* Nothing to evict: evict_one returns None.
EvictNone(t) ==
  /\ evpc[t] = "idle" /\ alloc.pc = "none"
  /\ evicting = tail
  /\ UNCHANGED vars

\* (2) Wait for the block and evict it, without the mutex.
EvictAcquire(t) ==
  /\ evpc[t] = "acquire"
  /\ IF state[evstart[t]] = "Ready"
     THEN SetState(evstart[t], "BeginTombStone") /\ EvGoto(t, "callback")
     ELSE EvGoto(t, "check") /\ UNCHANGED state
  /\ UNCHANGED <<addresses, size, freelist, guards, handles, alloc, evstart>>

CallbackOk(t) ==
  /\ evpc[t] = "callback"
  /\ SetState(evstart[t], "Tombstone")
  /\ EvGoto(t, "evict")
  /\ UNCHANGED <<addresses, size, freelist, guards, handles, alloc, evstart>>

CallbackErr(t) ==
  /\ evpc[t] = "callback"
  /\ SetState(evstart[t], "Ready")
  /\ EvGoto(t, "acquire")
  /\ UNCHANGED <<addresses, size, freelist, guards, handles, alloc, evstart>>

\* Mutant: a tombstone is waited for.
EvictCheckListed(t) ==
  /\ evpc[t] = "check"
  /\ EvGoto(t, IF state[evstart[t]] = "FreeListed" THEN "find" ELSE "acquire")
  /\ UNCHANGED <<addresses, size, state, freelist, guards, handles, alloc, evstart>>

EvictCheck(t) ==
  /\ evpc[t] = "check"
  /\ EvGoto(t, CASE state[evstart[t]] = "Tombstone" -> "evict"
                 [] state[evstart[t]] = "FreeListed" -> "find"
                 [] OTHER -> "acquire")
  /\ UNCHANGED <<addresses, size, state, freelist, guards, handles, alloc, evstart>>

find_and_remove(t) ==
  /\ evpc[t] = "find"
  /\ ~ListLocked(ClassOf(evstart[t]))
  /\ EvGoto(t, IF evstart[t] \in freelist THEN "found" ELSE "acquire")
  /\ freelist' = freelist \ {evstart[t]}
  /\ UNCHANGED <<addresses, size, state, guards, handles, alloc, evstart>>

\* free_list_to_tombstone
EvictFreeListed(t) ==
  /\ evpc[t] = "found"
  /\ SetState(evstart[t], "Tombstone")
  /\ EvGoto(t, "evict")
  /\ UNCHANGED <<addresses, size, freelist, guards, handles, alloc, evstart>>

tombstone_to_evicted(t) ==
  /\ evpc[t] = "evict"
  /\ SetState(evstart[t], "Evicted")
  /\ EvGoto(t, "bump")
  /\ UNCHANGED <<addresses, size, freelist, guards, handles, alloc, evstart>>

\* (3) Under the mutex, move the head over the evicted blocks.
Kept == {a \in Live : a < evicting /\ state[a] # "Evicted"}

\* Mutant: the head jumps to evicting_addr.
AlwaysEvicting == evicting

\* Mutant: the head moves over one block only.
OneBlock == IF head \in Live /\ state[head] = "Evicted" THEN After(head) ELSE head

FirstKept == CHOOSE h \in Kept \cup {evicting} : \A a \in Kept : h <= a

try_bump_head_address_to_evicting_addr ==
  /\ head' = FirstKept
  /\ size' = [a \in {b \in Live : b >= FirstKept} |-> size[a]]
  /\ state' = [a \in {b \in Live : b >= FirstKept} |-> state[a]]

EvictBump(t) ==
  /\ evpc[t] = "bump" /\ alloc.pc = "none"
  /\ try_bump_head_address_to_evicting_addr
  /\ EvGoto(t, "idle")
  /\ evstart' = [evstart EXCEPT ![t] = 0]
  /\ UNCHANGED <<evicting, tail, freelist, guards, handles, alloc>>

-----------------------------------------------------------------------------
AllocStep == AllocPop \/ AllocDiscard \/ AllocReuse \/ AllocFull \/ AllocFill \/ AllocExtend

Finish(a) == GuardDrop(a) \/ HandleDrop(a) \/ Dealloc(a) \/ TryAdd(a) \/ TryAddFails(a) \/ ToFreelist(a)

EvictStep(t) ==
  \/ EvictAcquire(t) \/ CallbackErr(t) \/ EvictCheck(t) \/ find_and_remove(t)
  \/ EvictFreeListed(t) \/ tombstone_to_evicted(t) \/ EvictBump(t)

Start ==
  \/ \E n \in Sizes : Alloc(n)
  \/ \E a \in Live : acquire_exclusive_dealloc_handle(a)
  \/ \E t \in Evictors : EvictReserve(t) \/ EvictNone(t)

Next ==
  \/ Start
  \/ AllocStep \/ AllocReuseFails
  \/ \E a \in Live : Finish(a)
  \/ \E t \in Evictors : EvictStep(t) \/ CallbackOk(t)

Spec == Init /\ [][Next]_vars

(***************************************************************************)
(* A thread inside alloc, dealloc or evict_one keeps running, and guards   *)
(* and handles are dropped or used up.  The callback does not refuse the   *)
(* same block forever: it fails only while another thread has the page's   *)
(* lock.                                                                   *)
(***************************************************************************)
FairSpec ==
  /\ Spec
  /\ WF_vars(AllocStep)
  /\ WF_vars(\E a \in Live : Finish(a))
  /\ \A t \in Evictors : WF_vars(EvictStep(t)) /\ SF_vars(CallbackOk(t))

-----------------------------------------------------------------------------
\* A block an evictor has reserved and not yet marked Evicted.
Reserved(t) == evpc[t] \in {"acquire", "callback", "check", "find", "found", "evict"}

TypeOK ==
  /\ head \in Nat /\ evicting \in Nat /\ tail \in Nat
  /\ Live \subseteq Nat /\ state \in [Live -> MetaState] /\ size \in [Live -> Nat]
  /\ freelist \subseteq Live /\ guards \subseteq Live
  /\ held \subseteq Live /\ adding \subseteq Live /\ pushed \subseteq Live
  /\ alloc \in [pc : {"none", "pop", "reuse", "bump"}, size : Sizes \cup {0}, blk : Nat]
  /\ alloc.pc # "none" => alloc.size \in Sizes
  /\ alloc.pc = "reuse" => alloc.blk \in Live
  /\ evpc \in [Evictors -> {"idle", "acquire", "callback", "check", "find", "found", "evict", "bump"}]
  /\ evstart \in [Evictors -> Nat]
  /\ \A t \in Evictors : Reserved(t) => evstart[t] \in Live

\* The live blocks tile the space from head to tail, evicting_addr is the start
\* of one of them, and there are never more than Capacity bytes of them: the
\* walks of evict_one, try_bump_head_address_to_evicting_addr and AllocatedIter
\* from meta to meta stay on metas.
Tiling ==
  /\ head <= evicting /\ evicting <= tail /\ tail <= head + Capacity
  /\ {head, evicting} \subseteq Live \cup {tail}
  /\ \A a \in Live : head <= a /\ After(a) <= tail /\ After(a) \in Live \cup {tail}
  /\ \A a, b \in Live : a < b => After(a) <= b

\* No block crosses the physical end of the buffer, and no two live blocks share
\* a byte of it: logical_to_physical gives every block memory of its own.
Physical(a) == a % Capacity
NoSharedMemory ==
  /\ \A a \in Live : Physical(a) + MetaSize + size[a] <= Capacity
  /\ \A a, b \in Live : a # b => \/ Physical(a) + MetaSize + size[a] <= Physical(b)
                                 \/ Physical(b) + MetaSize + size[b] <= Physical(a)

\* Every compare-exchange that panics when it fails finds the state it expects:
\* to_ready, revert_to_ready, to_tombstone, to_freelist, free_list_to_tombstone
\* and tombstone_to_evicted, whoever else is at work on the block.
StateChangesSucceed ==
  /\ \A a \in guards : state[a] = "NotReady"
  /\ \A a \in held \cup adding \cup pushed : state[a] = "BeginTombStone"
  /\ alloc.pc = "reuse" => state[alloc.blk] = "FreeListed"
  /\ \A t \in Evictors :
       /\ evpc[t] = "callback" => state[evstart[t]] = "BeginTombStone"
       /\ evpc[t] = "found" => state[evstart[t]] = "FreeListed"
       /\ evpc[t] = "evict" => state[evstart[t]] = "Tombstone"

\* A TombstoneHandle is exclusive: between acquire_exclusive_dealloc_handle and
\* dealloc or drop nobody else has a handle of the block, and no two evictors
\* work on one block.
ExclusiveHandle ==
  /\ held \cap adding = {} /\ held \cap pushed = {} /\ adding \cap pushed = {}
  /\ \A t \in Evictors :
       evpc[t] = "callback" => evstart[t] \notin held \cup adding \cup pushed
  /\ \A t, u \in Evictors :
       t # u /\ Reserved(t) /\ Reserved(u) => evstart[t] # evstart[u]

\* The free lists hold exactly the FreeListed blocks, except the ones a thread is
\* just pushing or has just unlinked.  A FreeListed block outside the lists could
\* be found neither by alloc nor by the evictor that waits for it.
FreeListExact ==
  /\ pushed \subseteq freelist
  /\ \A a \in freelist : state[a] = "FreeListed" \/ a \in pushed
  /\ \A a \in Live :
       state[a] = "FreeListed" /\ a \notin freelist
         => \/ alloc.pc = "reuse" /\ alloc.blk = a
            \/ \E t \in Evictors : evpc[t] = "found" /\ evstart[t] = a

\* alloc's assertion: a block taken from a free list is large enough.
ReuseFits == alloc.pc = "reuse" => size[alloc.blk] >= alloc.size

\* When the last evictor is done nothing reserved is left behind: the head has
\* reached evicting_addr, although every evictor gives up at the first block
\* that is not evicted yet.
HeadCatchesUp ==
  (\A t \in Evictors : evpc[t] = "idle") => head = evicting

\* Once callers start no new operation, every evict_one under way returns.
EvictReturns ==
  (<>[][~Start]_vars) => \A t \in Evictors : evpc[t] # "idle" ~> evpc[t] = "idle"
=============================================================================
