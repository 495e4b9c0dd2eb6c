------------------------ MODULE CircularBufferProofs ------------------------
(***************************************************************************)
(* Proofs about CircularBuffer for any capacity, any sizes and any number  *)
(* of evictors, with the bound MaxTail arbitrary.                          *)
(***************************************************************************)
EXTENDS CircularBuffer, WellFoundedInduction, TLAPS

Aligned(x) == \E k \in Int : x = MetaSize * k

\* Every address of the buffer is a multiple of the size of a meta.
Alignment == Aligned(tail)

\* Who may touch a block: the free lists, the allocator and the evictors hold
\* disjoint blocks.
Ownership ==
  /\ \A a \in freelist : state[a] = "FreeListed" \/ a \in pushed
  /\ pushed \subseteq freelist
  /\ alloc.pc = "reuse" => alloc.blk \notin freelist
  /\ \A t \in Evictors :
       evpc[t] = "found" =>
         /\ evstart[t] \notin freelist
         /\ alloc.pc = "reuse" => evstart[t] # alloc.blk

\* Between head and evicting a block is Evicted, or an evictor is working on it;
\* no block from evicting on is Evicted.
Reservations ==
  /\ \A t \in Evictors :
       Reserved(t) => evstart[t] < evicting /\ state[evstart[t]] # "Evicted"
  /\ \A a \in Live : state[a] = "Evicted" => a < evicting
  /\ \A a \in Live : a < evicting /\ state[a] # "Evicted"
       => \E t \in Evictors : Reserved(t) /\ evstart[t] = a
  /\ head < evicting => \E t \in Evictors : evpc[t] # "idle"

Safe == StateChangesSucceed /\ ExclusiveHandle /\ Ownership

IInv == TypeOK /\ Alignment /\ Tiling /\ Safe /\ Reservations

-----------------------------------------------------------------------------
(* Arithmetic.                                                             *)

\* A nonempty set of naturals has a least element.
LEMMA LeastNat ==
  ASSUME NEW S, S \subseteq Nat, S # {}
  PROVE  \E m \in S : \A n \in S : m <= n
<1>1. PICK x \in S : \A y \in S : ~(<<y, x>> \in OpToRel(<, Nat))
  BY WFMin, NatLessThanWellFounded, Zenon
<1>2. ASSUME NEW y \in S PROVE x <= y
  <2>1. ~(y < x)
    BY <1>1, <1>2, Zenon DEF OpToRel
  <2> QED
    BY <2>1
<1> QED
  BY <1>2, Zenon

\* align_up returns a multiple of the alignment no smaller than its argument.
LEMMA AlignUp ==
  ASSUME NEW n \in Nat
  PROVE  /\ align_up(n, MetaSize) \in Nat
         /\ Aligned(align_up(n, MetaSize))
         /\ align_up(n, MetaSize) >= n
<1> DEFINE q == (n + MetaSize - 1) \div MetaSize
<1>1. MetaSize \in Nat \ {0} /\ n + MetaSize - 1 \in Nat
  BY SizeAssumption
<1>2. q \in Nat
  BY <1>1
<1>3. n + MetaSize - 1 = MetaSize * q + ((n + MetaSize - 1) % MetaSize)
      /\ (n + MetaSize - 1) % MetaSize \in 0 .. (MetaSize - 1)
  BY <1>1
<1>4. q * MetaSize = MetaSize * q /\ q * MetaSize \in Nat
  BY <1>1, <1>2
<1>5. q * MetaSize >= n
  BY <1>1, <1>3, <1>4
<1>6. align_up(n, MetaSize) = q * MetaSize
  BY Zenon DEF align_up
<1> HIDE DEF q
<1>7. Aligned(q * MetaSize)
  BY <1>2, <1>4 DEF Aligned
<1> QED
  BY <1>4, <1>5, <1>6, <1>7, Zenon

\* The assertion in alloc: the space left up to the physical end holds a meta.
LEMMA FillerFits ==
  ASSUME tail \in Nat, Alignment
  PROVE  /\ PhysicalRemaining \in Nat
         /\ PhysicalRemaining >= MetaSize
         /\ Aligned(PhysicalRemaining)
<1> DEFINE q == tail \div Capacity
           r == tail % Capacity
           c == Capacity \div MetaSize
<1>0. MetaSize \in Nat \ {0} /\ Capacity \in Nat \ {0}
  BY SizeAssumption, Zenon
<1>1. q \in Nat /\ r \in 0 .. (Capacity - 1) /\ tail = Capacity * q + r
  BY <1>0
<1>2. c \in Nat /\ Capacity = MetaSize * c
  BY <1>0, SizeAssumption
<1>3. PICK k \in Int : tail = MetaSize * k
  BY Zenon DEF Alignment, Aligned
<1>4. PhysicalRemaining = Capacity - r
  BY Zenon DEF PhysicalRemaining
<1> HIDE DEF q, r, c
<1>5. Capacity - r = MetaSize * (c - (k - c * q))
  BY <1>0, <1>1, <1>2, <1>3
<1>6. Capacity - r > 0 /\ c - (k - c * q) \in Int
  BY <1>0, <1>1, <1>2, <1>3
<1>7. Capacity - r >= MetaSize
  BY <1>0, <1>5, <1>6
<1>8. Aligned(Capacity - r)
  BY <1>5, <1>6, Zenon DEF Aligned
<1>9. Capacity - r \in Nat
  BY <1>0, <1>1
<1> QED
  BY <1>4, <1>7, <1>8, <1>9, Zenon

\* Multiples of the size of a meta can be added.
LEMMA AlignedSum ==
  ASSUME NEW x \in Int, NEW y \in Int, Aligned(x), Aligned(y)
  PROVE  Aligned(x + y) /\ Aligned(x + MetaSize + y)
<1>1. PICK j \in Int : x = MetaSize * j
  BY Zenon DEF Aligned
<1>2. PICK k \in Int : y = MetaSize * k
  BY Zenon DEF Aligned
<1>3. x + y = MetaSize * (j + k) /\ x + MetaSize + y = MetaSize * (j + k + 1)
  BY <1>1, <1>2, SizeAssumption
<1> QED
  BY <1>3 DEF Aligned

\* The head moves to a block start or to evicting, and no block that is not yet
\* evicted is behind it.
LEMMA FirstKeptLeast ==
  ASSUME TypeOK, Tiling, Reservations
  PROVE  /\ FirstKept \in Kept \cup {evicting}
         /\ \A a \in Kept : FirstKept <= a
         /\ head <= FirstKept /\ FirstKept <= evicting
         /\ \A a \in Live : state[a] # "Evicted" => FirstKept <= a
<1>1. Kept \cup {evicting} \subseteq Nat
  BY Zenon DEF TypeOK, Kept
<1>2. PICK m \in Kept \cup {evicting} : \A n \in Kept \cup {evicting} : m <= n
  BY <1>1, LeastNat, Zenon
<1>3. FirstKept \in Kept \cup {evicting} /\ \A a \in Kept : FirstKept <= a
  BY <1>2, Zenon DEF FirstKept
<1>4. head <= FirstKept /\ FirstKept <= evicting
  BY <1>1, <1>3 DEF Tiling, Kept, TypeOK
<1>5. ASSUME NEW a \in Live, state[a] # "Evicted"
      PROVE  FirstKept <= a
  <2>1. CASE a < evicting
    BY <1>3, <1>5, <2>1, Zenon DEF Kept
  <2>2. CASE ~(a < evicting)
    BY <1>1, <1>3, <1>4, <2>2 DEF TypeOK
  <2> QED
    BY <2>1, <2>2, Zenon
<1> QED
  BY <1>3, <1>4, <1>5, Zenon
-----------------------------------------------------------------------------
(* The actions that leave the addresses and the set of live blocks alone.  *)

\* alloc pops one node of a free list, or none.
LEMMA AllocPopEffect ==
  ASSUME AllocPop
  PROVE  /\ alloc.pc = "pop"
         /\ UNCHANGED <<addresses, size, state, guards, handles, evictors>>
         /\ \/ alloc' = [alloc EXCEPT !.pc = "bump"] /\ freelist' = freelist
            \/ \E a \in freelist : /\ a \notin pushed
                                   /\ alloc' = [alloc EXCEPT !.pc = "reuse", !.blk = a]
                                   /\ freelist' = freelist \ {a}
BY Zenon DEF AllocPop, ListLocked

Local ==
  \/ \E n \in Sizes : Alloc(n)
  \/ AllocPop
  \/ AllocDiscard
  \/ AllocReuse
  \/ AllocReuseFails
  \/ AllocFull
  \/ \E a \in Live : GuardDrop(a)
  \/ \E a \in Live : acquire_exclusive_dealloc_handle(a)
  \/ \E a \in Live : HandleDrop(a)
  \/ \E a \in Live : Dealloc(a)
  \/ \E a \in Live : TryAdd(a)
  \/ \E a \in Live : TryAddFails(a)
  \/ \E a \in Live : ToFreelist(a)
  \/ \E t \in Evictors : EvictNone(t)
  \/ \E t \in Evictors : EvictAcquire(t)
  \/ \E t \in Evictors : CallbackOk(t)
  \/ \E t \in Evictors : CallbackErr(t)
  \/ \E t \in Evictors : EvictCheck(t)
  \/ \E t \in Evictors : find_and_remove(t)
  \/ \E t \in Evictors : EvictFreeListed(t)
  \/ \E t \in Evictors : tombstone_to_evicted(t)

\* Local actions change neither the addresses nor the sizes, and add or remove no
\* block.
LEMMA LocalFrame ==
  ASSUME TypeOK, Safe, Local
  PROVE  UNCHANGED <<addresses, size>> /\ Live' = Live
<1> USE DEF addresses, handles, evictors, Live, TypeOK
<1>1. ASSUME NEW n \in Sizes, Alloc(n) PROVE UNCHANGED <<addresses, size>> /\ Live' = Live
  BY <1>1, Zenon DEF Alloc
<1>2. ASSUME AllocPop PROVE UNCHANGED <<addresses, size>> /\ Live' = Live
  BY <1>2, Zenon DEF AllocPop
<1>3. ASSUME AllocDiscard PROVE UNCHANGED <<addresses, size>> /\ Live' = Live
  BY <1>3, Zenon DEF AllocDiscard, SetState
<1>4. ASSUME AllocReuse PROVE UNCHANGED <<addresses, size>> /\ Live' = Live
  BY <1>4, Zenon DEF AllocReuse, SetState, NoAlloc
<1>5. ASSUME AllocReuseFails PROVE UNCHANGED <<addresses, size>> /\ Live' = Live
  BY <1>5, Zenon DEF AllocReuseFails
<1>6. ASSUME AllocFull PROVE UNCHANGED <<addresses, size>> /\ Live' = Live
  BY <1>6, Zenon DEF AllocFull, NoAlloc
<1>7. ASSUME NEW a \in Live, GuardDrop(a) PROVE UNCHANGED <<addresses, size>> /\ Live' = Live
  BY <1>7, Zenon DEF GuardDrop, SetState
<1>8. ASSUME NEW a \in Live, acquire_exclusive_dealloc_handle(a) PROVE UNCHANGED <<addresses, size>> /\ Live' = Live
  BY <1>8, Zenon DEF acquire_exclusive_dealloc_handle, SetState
<1>9. ASSUME NEW a \in Live, HandleDrop(a) PROVE UNCHANGED <<addresses, size>> /\ Live' = Live
  BY <1>9, Zenon DEF HandleDrop, SetState
<1>10. ASSUME NEW a \in Live, Dealloc(a) PROVE UNCHANGED <<addresses, size>> /\ Live' = Live
  BY <1>10, Zenon DEF Dealloc, SetState
<1>11. ASSUME NEW a \in Live, TryAdd(a) PROVE UNCHANGED <<addresses, size>> /\ Live' = Live
  BY <1>11, Zenon DEF TryAdd
<1>12. ASSUME NEW a \in Live, TryAddFails(a) PROVE UNCHANGED <<addresses, size>> /\ Live' = Live
  BY <1>12, Zenon DEF TryAddFails, SetState
<1>13. ASSUME NEW a \in Live, ToFreelist(a) PROVE UNCHANGED <<addresses, size>> /\ Live' = Live
  BY <1>13, Zenon DEF ToFreelist, SetState
<1>14. ASSUME NEW t \in Evictors, EvictNone(t) PROVE UNCHANGED <<addresses, size>> /\ Live' = Live
  BY <1>14, Zenon DEF EvictNone, vars
<1>15. ASSUME NEW t \in Evictors, EvictAcquire(t) PROVE UNCHANGED <<addresses, size>> /\ Live' = Live
  BY <1>15, Zenon DEF EvictAcquire, SetState, EvGoto
<1>16. ASSUME NEW t \in Evictors, CallbackOk(t) PROVE UNCHANGED <<addresses, size>> /\ Live' = Live
  BY <1>16, Zenon DEF CallbackOk, SetState, EvGoto
<1>17. ASSUME NEW t \in Evictors, CallbackErr(t) PROVE UNCHANGED <<addresses, size>> /\ Live' = Live
  BY <1>17, Zenon DEF CallbackErr, SetState, EvGoto
<1>18. ASSUME NEW t \in Evictors, EvictCheck(t) PROVE UNCHANGED <<addresses, size>> /\ Live' = Live
  BY <1>18, Zenon DEF EvictCheck, EvGoto
<1>19. ASSUME NEW t \in Evictors, find_and_remove(t) PROVE UNCHANGED <<addresses, size>> /\ Live' = Live
  BY <1>19, Zenon DEF find_and_remove, EvGoto
<1>20. ASSUME NEW t \in Evictors, EvictFreeListed(t) PROVE UNCHANGED <<addresses, size>> /\ Live' = Live
  BY <1>20, Zenon DEF EvictFreeListed, SetState, EvGoto
<1>21. ASSUME NEW t \in Evictors, tombstone_to_evicted(t) PROVE UNCHANGED <<addresses, size>> /\ Live' = Live
  BY <1>21, Zenon DEF tombstone_to_evicted, SetState, EvGoto
<1> QED
  BY <1>1, <1>2, <1>3, <1>4, <1>5, <1>6, <1>7, <1>8, <1>9, <1>10, <1>11,
     <1>12, <1>13, <1>14, <1>15, <1>16, <1>17, <1>18, <1>19, <1>20, <1>21, Zenon
  DEF Local

\* Local actions keep the types.
LEMMA LocalType ==
  ASSUME TypeOK, Safe, Local
  PROVE  TypeOK'
<1> USE DEF addresses, handles, evictors, Live, TypeOK, MetaState, Reserved
<1>1. ASSUME NEW n \in Sizes, Alloc(n) PROVE TypeOK'
  BY <1>1, Zenon DEF Alloc
<1>2. ASSUME AllocPop PROVE TypeOK'
  <2>1. CASE alloc' = [alloc EXCEPT !.pc = "bump"] /\ freelist' = freelist
    BY <1>2, <2>1, AllocPopEffect
  <2>2. ASSUME NEW a \in freelist, freelist' = freelist \ {a},
               alloc' = [alloc EXCEPT !.pc = "reuse", !.blk = a]
        PROVE  TypeOK'
    BY <1>2, <2>2, AllocPopEffect, Zenon
  <2> QED
    BY <1>2, <2>1, <2>2, AllocPopEffect, Zenon
<1>3. ASSUME AllocDiscard PROVE TypeOK'
  BY <1>3, Zenon DEF AllocDiscard, SetState
<1>4. ASSUME AllocReuse PROVE TypeOK'
  BY <1>4, Zenon DEF AllocReuse, SetState, NoAlloc
<1>5. ASSUME AllocReuseFails PROVE TypeOK'
  BY <1>5, Zenon DEF AllocReuseFails
<1>6. ASSUME AllocFull PROVE TypeOK'
  BY <1>6, Zenon DEF AllocFull, NoAlloc
<1>7. ASSUME NEW a \in Live, GuardDrop(a) PROVE TypeOK'
  BY <1>7, Zenon DEF GuardDrop, SetState
<1>8. ASSUME NEW a \in Live, acquire_exclusive_dealloc_handle(a) PROVE TypeOK'
  BY <1>8, Zenon DEF acquire_exclusive_dealloc_handle, SetState
<1>9. ASSUME NEW a \in Live, HandleDrop(a) PROVE TypeOK'
  BY <1>9, Zenon DEF HandleDrop, SetState
<1>10. ASSUME NEW a \in Live, Dealloc(a) PROVE TypeOK'
  BY <1>10, Zenon DEF Dealloc, SetState
<1>11. ASSUME NEW a \in Live, TryAdd(a) PROVE TypeOK'
  BY <1>11, Zenon DEF TryAdd
<1>12. ASSUME NEW a \in Live, TryAddFails(a) PROVE TypeOK'
  BY <1>12, Zenon DEF TryAddFails, SetState
<1>13. ASSUME NEW a \in Live, ToFreelist(a) PROVE TypeOK'
  BY <1>13, Zenon DEF ToFreelist, SetState
<1>14. ASSUME NEW t \in Evictors, EvictNone(t) PROVE TypeOK'
  BY <1>14, Zenon DEF EvictNone, vars
<1>15. ASSUME NEW t \in Evictors, EvictAcquire(t) PROVE TypeOK'
  BY <1>15 DEF EvictAcquire, SetState, EvGoto
<1>16. ASSUME NEW t \in Evictors, CallbackOk(t) PROVE TypeOK'
  BY <1>16, Zenon DEF CallbackOk, SetState, EvGoto
<1>17. ASSUME NEW t \in Evictors, CallbackErr(t) PROVE TypeOK'
  BY <1>17, Zenon DEF CallbackErr, SetState, EvGoto
<1>18. ASSUME NEW t \in Evictors, EvictCheck(t) PROVE TypeOK'
  BY <1>18, Zenon DEF EvictCheck, EvGoto
<1>19. ASSUME NEW t \in Evictors, find_and_remove(t) PROVE TypeOK'
  BY <1>19, Zenon DEF find_and_remove, EvGoto
<1>20. ASSUME NEW t \in Evictors, EvictFreeListed(t) PROVE TypeOK'
  BY <1>20, Zenon DEF EvictFreeListed, SetState, EvGoto
<1>21. ASSUME NEW t \in Evictors, tombstone_to_evicted(t) PROVE TypeOK'
  BY <1>21, Zenon DEF tombstone_to_evicted, SetState, EvGoto
<1> QED
  BY <1>1, <1>2, <1>3, <1>4, <1>5, <1>6, <1>7, <1>8, <1>9, <1>10, <1>11,
     <1>12, <1>13, <1>14, <1>15, <1>16, <1>17, <1>18, <1>19, <1>20, <1>21, Zenon
  DEF Local

\* Local actions keep the tiling.
LEMMA LocalTiling ==
  ASSUME TypeOK, Safe, Tiling, Alignment, Local
  PROVE  Tiling' /\ Alignment'
<1>1. UNCHANGED <<head, evicting, tail, size>> /\ Live' = Live
  BY LocalFrame, Zenon DEF addresses
<1> QED
  BY <1>1, Zenon DEF Tiling, Alignment, Aligned, After

\* The state of a block with an owner is changed only by its owner.
LEMMA LocalStates ==
  ASSUME TypeOK, Safe, Reservations, Local
  PROVE  StateChangesSucceed'
<1> USE DEF addresses, handles, evictors, Live, TypeOK, MetaState, Safe, StateChangesSucceed, ExclusiveHandle, Ownership, Reserved
<1>1. ASSUME NEW n \in Sizes, Alloc(n) PROVE StateChangesSucceed'
  BY <1>1, Zenon DEF Alloc
<1>2. ASSUME AllocPop PROVE StateChangesSucceed'
  <2>1. CASE alloc' = [alloc EXCEPT !.pc = "bump"] /\ freelist' = freelist
    BY <1>2, <2>1, AllocPopEffect
  <2>2. ASSUME NEW a \in freelist, a \notin pushed, freelist' = freelist \ {a},
               alloc' = [alloc EXCEPT !.pc = "reuse", !.blk = a]
        PROVE  StateChangesSucceed'
    BY <1>2, <2>2, AllocPopEffect
  <2> QED
    BY <1>2, <2>1, <2>2, AllocPopEffect, Zenon
<1>3. ASSUME AllocDiscard PROVE StateChangesSucceed'
  BY <1>3, Zenon DEF AllocDiscard, SetState
<1>4. ASSUME AllocReuse PROVE StateChangesSucceed'
  BY <1>4 DEF AllocReuse, SetState, NoAlloc
<1>5. ASSUME AllocReuseFails PROVE StateChangesSucceed'
  BY <1>5, Zenon DEF AllocReuseFails
<1>6. ASSUME AllocFull PROVE StateChangesSucceed'
  BY <1>6, Zenon DEF AllocFull, NoAlloc
<1>7. ASSUME NEW a \in Live, GuardDrop(a) PROVE StateChangesSucceed'
  BY <1>7, Zenon DEF GuardDrop, SetState
<1>8. ASSUME NEW a \in Live, acquire_exclusive_dealloc_handle(a) PROVE StateChangesSucceed'
  BY <1>8 DEF acquire_exclusive_dealloc_handle, SetState
<1>9. ASSUME NEW a \in Live, HandleDrop(a) PROVE StateChangesSucceed'
  BY <1>9 DEF HandleDrop, SetState
<1>10. ASSUME NEW a \in Live, Dealloc(a) PROVE StateChangesSucceed'
  BY <1>10 DEF Dealloc, SetState
<1>11. ASSUME NEW a \in Live, TryAdd(a) PROVE StateChangesSucceed'
  BY <1>11 DEF TryAdd
<1>12. ASSUME NEW a \in Live, TryAddFails(a) PROVE StateChangesSucceed'
  BY <1>12 DEF TryAddFails, SetState
<1>13. ASSUME NEW a \in Live, ToFreelist(a) PROVE StateChangesSucceed'
  BY <1>13 DEF ToFreelist, SetState
<1>14. ASSUME NEW t \in Evictors, EvictNone(t) PROVE StateChangesSucceed'
  BY <1>14, Zenon DEF EvictNone, vars
<1>15. ASSUME NEW t \in Evictors, EvictAcquire(t) PROVE StateChangesSucceed'
  BY <1>15 DEF EvictAcquire, SetState, EvGoto
<1>16. ASSUME NEW t \in Evictors, CallbackOk(t) PROVE StateChangesSucceed'
  BY <1>16 DEF CallbackOk, SetState, EvGoto
<1>17. ASSUME NEW t \in Evictors, CallbackErr(t) PROVE StateChangesSucceed'
  BY <1>17 DEF CallbackErr, SetState, EvGoto
<1>18. ASSUME NEW t \in Evictors, EvictCheck(t) PROVE StateChangesSucceed'
  BY <1>18, Zenon DEF EvictCheck, EvGoto
<1>19. ASSUME NEW t \in Evictors, find_and_remove(t) PROVE StateChangesSucceed'
  <2>1. evstart[t] \notin pushed
    BY <1>19, Zenon DEF find_and_remove, ListLocked
  <2> QED
    BY <1>19, <2>1 DEF find_and_remove, EvGoto
<1>20. ASSUME NEW t \in Evictors, EvictFreeListed(t) PROVE StateChangesSucceed'
  BY <1>20 DEF EvictFreeListed, SetState, EvGoto
<1>21. ASSUME NEW t \in Evictors, tombstone_to_evicted(t) PROVE StateChangesSucceed'
  BY <1>21 DEF tombstone_to_evicted, SetState, EvGoto
<1> QED
  BY <1>1, <1>2, <1>3, <1>4, <1>5, <1>6, <1>7, <1>8, <1>9, <1>10, <1>11,
     <1>12, <1>13, <1>14, <1>15, <1>16, <1>17, <1>18, <1>19, <1>20, <1>21, Zenon
  DEF Local

\* A handle is taken only from Ready, which no handle's block is in.
LEMMA LocalExclusive ==
  ASSUME TypeOK, Safe, Local
  PROVE  ExclusiveHandle'
<1> USE DEF addresses, handles, evictors, Live, TypeOK, MetaState, Safe, StateChangesSucceed, ExclusiveHandle, Reserved
<1>1. ASSUME NEW n \in Sizes, Alloc(n) PROVE ExclusiveHandle'
  BY <1>1, Zenon DEF Alloc
<1>2. ASSUME AllocPop PROVE ExclusiveHandle'
  <2>1. UNCHANGED <<addresses, state, handles, evictors>>
    BY <1>2, Zenon DEF AllocPop
  <2> QED
    BY <2>1, Zenon
<1>3. ASSUME AllocDiscard PROVE ExclusiveHandle'
  BY <1>3, Zenon DEF AllocDiscard, SetState
<1>4. ASSUME AllocReuse PROVE ExclusiveHandle'
  BY <1>4, Zenon DEF AllocReuse, SetState, NoAlloc
<1>5. ASSUME AllocReuseFails PROVE ExclusiveHandle'
  BY <1>5, Zenon DEF AllocReuseFails
<1>6. ASSUME AllocFull PROVE ExclusiveHandle'
  BY <1>6, Zenon DEF AllocFull, NoAlloc
<1>7. ASSUME NEW a \in Live, GuardDrop(a) PROVE ExclusiveHandle'
  BY <1>7, Zenon DEF GuardDrop, SetState
<1>8. ASSUME NEW a \in Live, acquire_exclusive_dealloc_handle(a) PROVE ExclusiveHandle'
  BY <1>8 DEF acquire_exclusive_dealloc_handle, SetState
<1>9. ASSUME NEW a \in Live, HandleDrop(a) PROVE ExclusiveHandle'
  BY <1>9, Zenon DEF HandleDrop, SetState
<1>10. ASSUME NEW a \in Live, Dealloc(a) PROVE ExclusiveHandle'
  BY <1>10 DEF Dealloc, SetState
<1>11. ASSUME NEW a \in Live, TryAdd(a) PROVE ExclusiveHandle'
  BY <1>11 DEF TryAdd
<1>12. ASSUME NEW a \in Live, TryAddFails(a) PROVE ExclusiveHandle'
  BY <1>12, Zenon DEF TryAddFails, SetState
<1>13. ASSUME NEW a \in Live, ToFreelist(a) PROVE ExclusiveHandle'
  BY <1>13, Zenon DEF ToFreelist, SetState
<1>14. ASSUME NEW t \in Evictors, EvictNone(t) PROVE ExclusiveHandle'
  BY <1>14 DEF EvictNone, vars
<1>15. ASSUME NEW t \in Evictors, EvictAcquire(t) PROVE ExclusiveHandle'
  BY <1>15 DEF EvictAcquire, SetState, EvGoto
<1>16. ASSUME NEW t \in Evictors, CallbackOk(t) PROVE ExclusiveHandle'
  BY <1>16 DEF CallbackOk, SetState, EvGoto
<1>17. ASSUME NEW t \in Evictors, CallbackErr(t) PROVE ExclusiveHandle'
  BY <1>17 DEF CallbackErr, SetState, EvGoto
<1>18. ASSUME NEW t \in Evictors, EvictCheck(t) PROVE ExclusiveHandle'
  BY <1>18 DEF EvictCheck, EvGoto
<1>19. ASSUME NEW t \in Evictors, find_and_remove(t) PROVE ExclusiveHandle'
  BY <1>19 DEF find_and_remove, EvGoto
<1>20. ASSUME NEW t \in Evictors, EvictFreeListed(t) PROVE ExclusiveHandle'
  BY <1>20 DEF EvictFreeListed, SetState, EvGoto
<1>21. ASSUME NEW t \in Evictors, tombstone_to_evicted(t) PROVE ExclusiveHandle'
  BY <1>21 DEF tombstone_to_evicted, SetState, EvGoto
<1> QED
  BY <1>1, <1>2, <1>3, <1>4, <1>5, <1>6, <1>7, <1>8, <1>9, <1>10, <1>11,
     <1>12, <1>13, <1>14, <1>15, <1>16, <1>17, <1>18, <1>19, <1>20, <1>21, Zenon
  DEF Local

\* A block enters a list from a handle and leaves it to the thread that unlinks it.
LEMMA LocalOwnership ==
  ASSUME TypeOK, Safe, Local
  PROVE  Ownership'
<1> USE DEF addresses, handles, evictors, Live, TypeOK, MetaState, Safe, StateChangesSucceed, ExclusiveHandle, Ownership, Reserved
<1>1. ASSUME NEW n \in Sizes, Alloc(n) PROVE Ownership'
  BY <1>1, Zenon DEF Alloc
<1>2. ASSUME AllocPop PROVE Ownership'
  <2>1. CASE alloc' = [alloc EXCEPT !.pc = "bump"] /\ freelist' = freelist
    BY <1>2, <2>1, AllocPopEffect, Zenon
  <2>2. ASSUME NEW a \in freelist, a \notin pushed, freelist' = freelist \ {a},
               alloc' = [alloc EXCEPT !.pc = "reuse", !.blk = a]
        PROVE  Ownership'
    <3>1. alloc'.pc = "reuse" /\ alloc'.blk = a /\ alloc.pc = "pop"
      BY <1>2, <2>2, AllocPopEffect, Zenon
    <3>2. UNCHANGED <<state, pushed, evpc, evstart>>
      BY <1>2, AllocPopEffect, Zenon
    <3> QED
      BY <2>2, <3>1, <3>2
  <2> QED
    BY <1>2, <2>1, <2>2, AllocPopEffect, Zenon
<1>3. ASSUME AllocDiscard PROVE Ownership'
  BY <1>3, Zenon DEF AllocDiscard, SetState
<1>4. ASSUME AllocReuse PROVE Ownership'
  BY <1>4, Zenon DEF AllocReuse, SetState, NoAlloc
<1>5. ASSUME AllocReuseFails PROVE Ownership'
  BY <1>5, Zenon DEF AllocReuseFails
<1>6. ASSUME AllocFull PROVE Ownership'
  BY <1>6, Zenon DEF AllocFull, NoAlloc
<1>7. ASSUME NEW a \in Live, GuardDrop(a) PROVE Ownership'
  BY <1>7, Zenon DEF GuardDrop, SetState
<1>8. ASSUME NEW a \in Live, acquire_exclusive_dealloc_handle(a) PROVE Ownership'
  BY <1>8, Zenon DEF acquire_exclusive_dealloc_handle, SetState
<1>9. ASSUME NEW a \in Live, HandleDrop(a) PROVE Ownership'
  BY <1>9, Zenon DEF HandleDrop, SetState
<1>10. ASSUME NEW a \in Live, Dealloc(a) PROVE Ownership'
  BY <1>10 DEF Dealloc, SetState
<1>11. ASSUME NEW a \in Live, TryAdd(a) PROVE Ownership'
  BY <1>11, Zenon DEF TryAdd
<1>12. ASSUME NEW a \in Live, TryAddFails(a) PROVE Ownership'
  BY <1>12, Zenon DEF TryAddFails, SetState
<1>13. ASSUME NEW a \in Live, ToFreelist(a) PROVE Ownership'
  BY <1>13, Zenon DEF ToFreelist, SetState
<1>14. ASSUME NEW t \in Evictors, EvictNone(t) PROVE Ownership'
  BY <1>14, Zenon DEF EvictNone, vars
<1>15. ASSUME NEW t \in Evictors, EvictAcquire(t) PROVE Ownership'
  BY <1>15 DEF EvictAcquire, SetState, EvGoto
<1>16. ASSUME NEW t \in Evictors, CallbackOk(t) PROVE Ownership'
  BY <1>16, Zenon DEF CallbackOk, SetState, EvGoto
<1>17. ASSUME NEW t \in Evictors, CallbackErr(t) PROVE Ownership'
  BY <1>17, Zenon DEF CallbackErr, SetState, EvGoto
<1>18. ASSUME NEW t \in Evictors, EvictCheck(t) PROVE Ownership'
  BY <1>18, Zenon DEF EvictCheck, EvGoto
<1>19. ASSUME NEW t \in Evictors, find_and_remove(t) PROVE Ownership'
  <2>1. evstart[t] \notin pushed
    BY <1>19, Zenon DEF find_and_remove, ListLocked
  <2> QED
    BY <1>19, <2>1 DEF find_and_remove, EvGoto
<1>20. ASSUME NEW t \in Evictors, EvictFreeListed(t) PROVE Ownership'
  BY <1>20 DEF EvictFreeListed, SetState, EvGoto
<1>21. ASSUME NEW t \in Evictors, tombstone_to_evicted(t) PROVE Ownership'
  BY <1>21, Zenon DEF tombstone_to_evicted, SetState, EvGoto
<1> QED
  BY <1>1, <1>2, <1>3, <1>4, <1>5, <1>6, <1>7, <1>8, <1>9, <1>10, <1>11,
     <1>12, <1>13, <1>14, <1>15, <1>16, <1>17, <1>18, <1>19, <1>20, <1>21, Zenon
  DEF Local

\* A reserved block becomes Evicted only by its evictor, which then heads for the
\* bump of the head.
LEMMA LocalReservations ==
  ASSUME TypeOK, Safe, Tiling, Reservations, Local
  PROVE  Reservations'
<1> USE DEF addresses, handles, evictors, Live, TypeOK, MetaState, Safe, StateChangesSucceed, ExclusiveHandle, Reservations, Reserved
<1>1. ASSUME NEW n \in Sizes, Alloc(n) PROVE Reservations'
  BY <1>1 DEF Alloc
<1>2. ASSUME AllocPop PROVE Reservations'
  <2>1. UNCHANGED <<addresses, state, handles, evictors>>
    BY <1>2, Zenon DEF AllocPop
  <2> QED
    BY <2>1
<1>3. ASSUME AllocDiscard PROVE Reservations'
  BY <1>3 DEF AllocDiscard, SetState
<1>4. ASSUME AllocReuse PROVE Reservations'
  BY <1>4 DEF AllocReuse, SetState, NoAlloc
<1>5. ASSUME AllocReuseFails PROVE Reservations'
  BY <1>5 DEF AllocReuseFails
<1>6. ASSUME AllocFull PROVE Reservations'
  BY <1>6 DEF AllocFull, NoAlloc
<1>7. ASSUME NEW a \in Live, GuardDrop(a) PROVE Reservations'
  BY <1>7 DEF GuardDrop, SetState
<1>8. ASSUME NEW a \in Live, acquire_exclusive_dealloc_handle(a) PROVE Reservations'
  BY <1>8 DEF acquire_exclusive_dealloc_handle, SetState
<1>9. ASSUME NEW a \in Live, HandleDrop(a) PROVE Reservations'
  BY <1>9 DEF HandleDrop, SetState
<1>10. ASSUME NEW a \in Live, Dealloc(a) PROVE Reservations'
  BY <1>10 DEF Dealloc, SetState
<1>11. ASSUME NEW a \in Live, TryAdd(a) PROVE Reservations'
  BY <1>11 DEF TryAdd
<1>12. ASSUME NEW a \in Live, TryAddFails(a) PROVE Reservations'
  BY <1>12 DEF TryAddFails, SetState
<1>13. ASSUME NEW a \in Live, ToFreelist(a) PROVE Reservations'
  BY <1>13 DEF ToFreelist, SetState
<1>14. ASSUME NEW t \in Evictors, EvictNone(t) PROVE Reservations'
  BY <1>14 DEF EvictNone, vars
<1>15. ASSUME NEW t \in Evictors, EvictAcquire(t) PROVE Reservations'
  BY <1>15 DEF EvictAcquire, SetState, EvGoto
<1>16. ASSUME NEW t \in Evictors, CallbackOk(t) PROVE Reservations'
  BY <1>16 DEF CallbackOk, SetState, EvGoto
<1>17. ASSUME NEW t \in Evictors, CallbackErr(t) PROVE Reservations'
  BY <1>17 DEF CallbackErr, SetState, EvGoto
<1>18. ASSUME NEW t \in Evictors, EvictCheck(t) PROVE Reservations'
  BY <1>18 DEF EvictCheck, EvGoto
<1>19. ASSUME NEW t \in Evictors, find_and_remove(t) PROVE Reservations'
  BY <1>19 DEF find_and_remove, EvGoto
<1>20. ASSUME NEW t \in Evictors, EvictFreeListed(t) PROVE Reservations'
  BY <1>20 DEF EvictFreeListed, SetState, EvGoto
<1>21. ASSUME NEW t \in Evictors, tombstone_to_evicted(t) PROVE Reservations'
  BY <1>21 DEF tombstone_to_evicted, SetState, EvGoto
<1> QED
  BY <1>1, <1>2, <1>3, <1>4, <1>5, <1>6, <1>7, <1>8, <1>9, <1>10, <1>11,
     <1>12, <1>13, <1>14, <1>15, <1>16, <1>17, <1>18, <1>19, <1>20, <1>21, Zenon
  DEF Local

-----------------------------------------------------------------------------
(* The actions that move an address.                                       *)

\* A block written at the tail continues the tiling.
LEMMA ExtendEffect ==
  ASSUME TypeOK, Alignment, Tiling, NEW n \in Nat, NEW s \in MetaState, Extend(n, s),
         Aligned(n), MetaSize + n <= LogicalRemaining
  PROVE  /\ Live' = Live \cup {tail} /\ tail \notin Live /\ tail \in Nat
         /\ \A a \in Live : state'[a] = state[a] /\ size'[a] = size[a]
         /\ state'[tail] = s /\ size'[tail] = n
         /\ head' = head /\ evicting' = evicting /\ tail' = tail + MetaSize + n
         /\ state' \in [Live' -> MetaState] /\ size' \in [Live' -> Nat]
         /\ Tiling' /\ Alignment'
<1> USE SizeAssumption
<1>1. Live' = Live \cup {tail} /\ tail \in Nat /\ Live \subseteq Nat
  BY Zenon DEF Extend, Live, TypeOK
<1>2. tail \notin Live
  BY <1>1 DEF Tiling, After, TypeOK
<1>3. /\ \A a \in Live : state'[a] = state[a] /\ size'[a] = size[a]
      /\ state'[tail] = s /\ size'[tail] = n
  BY <1>2, Zenon DEF Extend
<1>4. head' = head /\ evicting' = evicting /\ tail' = tail + MetaSize + n
  BY Zenon DEF Extend
<1>5. state' \in [Live' -> MetaState] /\ size' \in [Live' -> Nat]
  BY <1>1, Zenon DEF Extend, TypeOK, Live
<1>6. Tiling'
  <2>1. head' <= evicting' /\ evicting' <= tail' /\ tail' <= head' + Capacity
    BY <1>1, <1>4 DEF Tiling, TypeOK, LogicalRemaining
  <2>2. {head', evicting'} \subseteq Live' \cup {tail'}
    BY <1>1, <1>4, Zenon DEF Tiling
  <2>3. \A a \in Live : After(a)' = After(a) /\ After(a) \in Nat
    BY <1>1, <1>3 DEF After, TypeOK
  <2>4. \A a \in Live' : a = tail => After(a)' = tail'
    BY <1>3, <1>4, Zenon DEF After
  <2>5. ASSUME NEW a \in Live'
        PROVE  head' <= a /\ After(a)' <= tail' /\ After(a)' \in Live' \cup {tail'}
    BY <1>1, <1>4, <2>3, <2>4 DEF Tiling, TypeOK
  <2>6. ASSUME NEW a \in Live', NEW b \in Live', a < b
        PROVE  After(a)' <= b
    <3>1. CASE a = tail
      <4>1. b \in Live
        BY <1>1, <2>6, <3>1
      <4>2. b < After(b) /\ After(b) <= tail
        BY <1>1, <4>1 DEF Tiling, After, TypeOK
      <4> QED
        BY <1>1, <2>3, <2>6, <3>1, <4>1, <4>2
    <3>2. CASE a # tail
      BY <1>1, <2>3, <2>6, <3>2 DEF Tiling
    <3> QED
      BY <3>1, <3>2, Zenon
  <2> QED
    BY <2>1, <2>2, <2>5, <2>6, Zenon DEF Tiling
<1>7. Alignment'
  BY <1>1, <1>4, AlignedSum DEF Alignment
<1> QED
  BY <1>1, <1>2, <1>3, <1>4, <1>5, <1>6, <1>7, Zenon

\* alloc writes a filler or a new block at the tail.
LEMMA ExtendStep ==
  ASSUME IInv, AllocFill \/ AllocExtend
  PROVE  IInv'
<1> USE DEF IInv
<1>1. CASE AllocFill
  <2> DEFINE n == PhysicalRemaining - MetaSize
  <2>1. n \in Nat /\ Aligned(n)
    <3>1. PhysicalRemaining \in Nat /\ PhysicalRemaining >= MetaSize /\ Aligned(PhysicalRemaining)
      BY FillerFits, Zenon DEF TypeOK
    <3>2. PICK k \in Int : PhysicalRemaining = MetaSize * k
      BY <3>1, Zenon DEF Aligned
    <3>3. n = MetaSize * (k - 1)
      BY <3>1, <3>2, SizeAssumption
    <3> QED
      BY <3>1, <3>3, SizeAssumption DEF Aligned
  <2>2. MetaSize + n <= LogicalRemaining
    <3>1. align_up(alloc.size, MetaSize) \in Nat
      BY <1>1, AlignUp, SizeAssumption, Zenon DEF AllocFill, TypeOK
    <3>2. LogicalRemaining \in Int /\ PhysicalRemaining \in Nat
      BY FillerFits, SizeAssumption DEF TypeOK, LogicalRemaining
    <3> QED
      BY <1>1, <3>1, <3>2, SizeAssumption DEF AllocFill, Required
  <2>3. Extend(n, "Tombstone") /\ alloc' = NoAlloc
        /\ UNCHANGED <<freelist, guards, held, adding, pushed, evpc, evstart>>
    BY <1>1, Zenon DEF AllocFill, handles, evictors
  <2> HIDE DEF n
  <2>4. /\ Live' = Live \cup {tail} /\ tail \notin Live /\ tail \in Nat
        /\ \A a \in Live : state'[a] = state[a] /\ size'[a] = size[a]
        /\ state'[tail] = "Tombstone"
        /\ head' = head /\ evicting' = evicting
        /\ state' \in [Live' -> MetaState] /\ size' \in [Live' -> Nat]
        /\ Tiling' /\ Alignment' /\ tail' \in Nat
    BY <2>1, <2>2, <2>3, ExtendEffect, SizeAssumption DEF MetaState
  <2>5. TypeOK'
    BY <2>3, <2>4, Zenon DEF TypeOK, NoAlloc, Reserved
  <2>6. StateChangesSucceed' /\ ExclusiveHandle' /\ Ownership'
    BY <2>3, <2>4
       DEF Safe, StateChangesSucceed, ExclusiveHandle, Ownership, Reserved, TypeOK, NoAlloc
  <2>7. Reservations'
    BY <2>3, <2>4 DEF Reservations, Reserved, Tiling, TypeOK
  <2> QED
    BY <2>4, <2>5, <2>6, <2>7, Zenon DEF Safe
<1>2. CASE AllocExtend
  <2> DEFINE n == align_up(alloc.size, MetaSize)
  <2>1. n \in Nat /\ Aligned(n)
    BY <1>2, AlignUp, SizeAssumption, Zenon DEF AllocExtend, TypeOK
  <2>2. MetaSize + n <= LogicalRemaining
    <3>1. LogicalRemaining \in Int
      BY SizeAssumption DEF TypeOK, LogicalRemaining
    <3> QED
      BY <1>2, <2>1, <3>1, SizeAssumption DEF AllocExtend, Required
  <2>3. Extend(n, "NotReady") /\ alloc' = NoAlloc /\ guards' = guards \cup {tail}
        /\ UNCHANGED <<freelist, held, adding, pushed, evpc, evstart>>
    BY <1>2, Zenon DEF AllocExtend, handles, evictors
  <2> HIDE DEF n
  <2>4. /\ Live' = Live \cup {tail} /\ tail \notin Live /\ tail \in Nat
        /\ \A a \in Live : state'[a] = state[a] /\ size'[a] = size[a]
        /\ state'[tail] = "NotReady"
        /\ head' = head /\ evicting' = evicting
        /\ state' \in [Live' -> MetaState] /\ size' \in [Live' -> Nat]
        /\ Tiling' /\ Alignment' /\ tail' \in Nat
    BY <2>1, <2>2, <2>3, ExtendEffect, SizeAssumption DEF MetaState
  <2>5. TypeOK'
    BY <2>3, <2>4, Zenon DEF TypeOK, NoAlloc, Reserved
  <2>6. StateChangesSucceed' /\ ExclusiveHandle' /\ Ownership'
    BY <2>3, <2>4
       DEF Safe, StateChangesSucceed, ExclusiveHandle, Ownership, Reserved, TypeOK, NoAlloc
  <2>7. Reservations'
    BY <2>3, <2>4 DEF Reservations, Reserved, Tiling, TypeOK
  <2> QED
    BY <2>4, <2>5, <2>6, <2>7, Zenon DEF Safe
<1> QED
  BY <1>1, <1>2, Zenon

\* An evictor reserves the block at evicting: nobody else has reserved it, since
\* every reserved block starts below evicting.
LEMMA ReserveStep ==
  ASSUME IInv, NEW t \in Evictors, EvictReserve(t)
  PROVE  IInv'
<1> USE DEF IInv
<1> DEFINE e == evicting
<1>1. /\ UNCHANGED <<head, tail, size, state, freelist, guards, held, adding, pushed, alloc>>
      /\ evicting' = e + MetaSize + size[e] /\ evpc[t] = "idle"
      /\ evpc' = [evpc EXCEPT ![t] = "acquire"] /\ evstart' = [evstart EXCEPT ![t] = e]
  BY Zenon DEF EvictReserve, handles, EvGoto, After
<1>2. e \in Live /\ size[e] \in Nat /\ e \in Nat
  BY Zenon DEF EvictReserve, Tiling, TypeOK
<1>3. e < evicting' /\ evicting' \in Nat /\ evicting' <= tail /\ evicting' \in Live \cup {tail}
  BY <1>1, <1>2, SizeAssumption DEF Tiling, After, TypeOK
<1>4. state[e] # "Evicted" /\ \A u \in Evictors : Reserved(u) => evstart[u] # e
  BY <1>2 DEF Reservations
<1>5. Live' = Live
  BY <1>1, Zenon DEF Live
<1> HIDE DEF e
<1>6. TypeOK'
  BY <1>1, <1>2, <1>3, <1>5, Zenon DEF TypeOK, Reserved
<1>7. Tiling' /\ Alignment'
  <2>1. \A a \in Live : After(a)' = After(a)
    BY <1>1, Zenon DEF After
  <2>2. head' <= evicting' /\ evicting' <= tail' /\ tail' <= head' + Capacity
    BY <1>1, <1>2, <1>3, SizeAssumption DEF Tiling, TypeOK, e
  <2> QED
    BY <1>1, <1>3, <1>5, <2>1, <2>2, Zenon DEF Tiling, Alignment, Aligned
<1>8. StateChangesSucceed' /\ ExclusiveHandle' /\ Ownership'
  BY <1>1, <1>4, <1>5 DEF Safe, StateChangesSucceed, ExclusiveHandle, Ownership, Reserved, TypeOK
<1>9. Reservations'
  <2>1. \A u \in Evictors : u # t => (Reserved(u)' <=> Reserved(u)) /\ evstart'[u] = evstart[u]
    BY <1>1, Zenon DEF Reserved, TypeOK
  <2>2. Reserved(t)' /\ ~Reserved(t) /\ evstart'[t] = e
    BY <1>1, Zenon DEF Reserved, TypeOK
  <2>3. ASSUME NEW u \in Evictors, Reserved(u)'
        PROVE  evstart'[u] < evicting' /\ state'[evstart'[u]] # "Evicted"
    BY <1>1, <1>2, <1>3, <1>4, <2>1, <2>2, <2>3 DEF Reservations, TypeOK, e
  <2>4. ASSUME NEW a \in Live, state[a] = "Evicted"
        PROVE  a < evicting'
    BY <1>2, <1>3, <2>4 DEF Reservations, TypeOK, e
  <2>5. ASSUME NEW a \in Live, a < evicting', state[a] # "Evicted"
        PROVE  \E u \in Evictors : Reserved(u)' /\ evstart'[u] = a
    <3>1. CASE a = e
      BY <2>2, <3>1, Zenon
    <3>2. CASE a < e
      BY <2>1, <2>2, <2>5, <3>2, Zenon DEF Reservations, e
    <3>3. CASE a > e
      \* The block at e ends where evicting' begins: no block lies between.
      BY <1>1, <1>2, <2>5, <3>3 DEF Tiling, After, TypeOK
    <3> QED
      BY <1>2, <3>1, <3>2, <3>3 DEF TypeOK
  <2>6. \E u \in Evictors : evpc'[u] # "idle"
    BY <1>1, Zenon DEF TypeOK
  <2> QED
    BY <1>1, <1>5, <2>3, <2>4, <2>5, <2>6, Zenon DEF Reservations
<1> QED
  BY <1>6, <1>7, <1>8, <1>9, Zenon DEF Safe

\* The head moves over evicted blocks only, so that everything anybody refers to
\* stays; what stops it is a block that some other evictor still works on.
LEMMA BumpStep ==
  ASSUME IInv, NEW t \in Evictors, EvictBump(t)
  PROVE  IInv'
<1> USE DEF IInv
<1> DEFINE h == FirstKept
<1>1. /\ h \in Kept \cup {evicting} /\ head <= h /\ h <= evicting
      /\ \A a \in Live : state[a] # "Evicted" => h <= a
  BY FirstKeptLeast, Zenon
<1>2. /\ head' = h /\ UNCHANGED <<evicting, tail, freelist, guards, held, adding, pushed, alloc>>
      /\ size' = [a \in {b \in Live : b >= h} |-> size[a]]
      /\ state' = [a \in {b \in Live : b >= h} |-> state[a]]
      /\ evpc[t] = "bump" /\ alloc.pc = "none"
      /\ evpc' = [evpc EXCEPT ![t] = "idle"] /\ evstart' = [evstart EXCEPT ![t] = 0]
  BY Zenon DEF EvictBump, handles, EvGoto, try_bump_head_address_to_evicting_addr
<1>3. h \in Nat /\ Live \subseteq Nat
  BY <1>1, Zenon DEF Kept, TypeOK
<1> HIDE DEF h
<1>4. /\ Live' = {a \in Live : a >= h}
      /\ \A a \in Live' : a \in Live /\ state'[a] = state[a] /\ size'[a] = size[a]
      /\ \A a \in Live : state[a] # "Evicted" => a \in Live'
  BY <1>1, <1>2, <1>3, Zenon DEF Live
<1>5. /\ \A u \in Evictors : Reserved(u)' <=> Reserved(u)
      /\ \A u \in Evictors : Reserved(u) => evstart'[u] = evstart[u] /\ evpc'[u] = evpc[u]
  BY <1>2, Zenon DEF Reserved, TypeOK
<1>6. TypeOK'
  <2>1. state' \in [Live' -> MetaState] /\ size' \in [Live' -> Nat] /\ Live' \subseteq Nat
    BY <1>2, <1>3, <1>4, Zenon DEF TypeOK, Live
  <2>2. /\ freelist' \subseteq Live' /\ guards' \subseteq Live'
        /\ held' \subseteq Live' /\ adding' \subseteq Live' /\ pushed' \subseteq Live'
    BY <1>2, <1>4, Zenon DEF TypeOK, Safe, StateChangesSucceed, Ownership
  <2>3. \A u \in Evictors : Reserved(u)' => evstart'[u] \in Live'
    BY <1>4, <1>5, Zenon DEF TypeOK, Reservations
  <2>4. evpc' \in [Evictors -> {"idle", "acquire", "callback", "check", "find", "found", "evict", "bump"}]
        /\ evstart' \in [Evictors -> Nat]
    BY <1>2, Zenon DEF TypeOK
  <2> QED
    BY <1>2, <1>3, <2>1, <2>2, <2>3, <2>4, Zenon DEF TypeOK
<1>7. Tiling' /\ Alignment'
  <2>1. \A a \in Live' : After(a)' = After(a) /\ After(a) \in Nat /\ a < After(a)
    BY <1>3, <1>4, SizeAssumption DEF After, TypeOK
  <2>2. head' <= evicting' /\ evicting' <= tail' /\ tail' <= head' + Capacity
    BY <1>1, <1>2, <1>3, SizeAssumption DEF Tiling, TypeOK
  <2>3. {head', evicting'} \subseteq Live' \cup {tail'}
    BY <1>1, <1>2, <1>3, <1>4 DEF Tiling, Kept, TypeOK
  <2>4. ASSUME NEW a \in Live'
        PROVE  head' <= a /\ After(a)' <= tail' /\ After(a)' \in Live' \cup {tail'}
    BY <1>2, <1>3, <1>4, <2>1 DEF Tiling, TypeOK
  <2>5. ASSUME NEW a \in Live', NEW b \in Live', a < b PROVE After(a)' <= b
    BY <1>4, <2>1, <2>5, Zenon DEF Tiling
  <2> QED
    BY <1>2, <2>2, <2>3, <2>4, <2>5, Zenon DEF Tiling, Alignment, Aligned
<1>8. StateChangesSucceed' /\ ExclusiveHandle' /\ Ownership'
  <2>1. StateChangesSucceed'
    BY <1>2, <1>4, <1>5, <1>6 DEF Safe, StateChangesSucceed, TypeOK, Reserved
  <2>2. ExclusiveHandle'
    BY <1>2, <1>5 DEF Safe, ExclusiveHandle, Reserved, TypeOK
  <2>3. Ownership'
    BY <1>2, <1>4, <1>5, <1>6, Zenon DEF Safe, Ownership, Reserved, TypeOK
  <2> QED
    BY <2>1, <2>2, <2>3, Zenon
<1>9. Reservations'
  <2>1. \A u \in Evictors : Reserved(u)' =>
          evstart'[u] < evicting' /\ state'[evstart'[u]] # "Evicted"
    BY <1>2, <1>4, <1>5 DEF Reservations, TypeOK
  <2>2. \A a \in Live' : state'[a] = "Evicted" => a < evicting'
    BY <1>2, <1>4, Zenon DEF Reservations
  <2>3. \A a \in Live' : a < evicting' /\ state'[a] # "Evicted"
          => \E u \in Evictors : Reserved(u)' /\ evstart'[u] = a
    BY <1>2, <1>4, <1>5 DEF Reservations
  <2>4. head' < evicting' => \E u \in Evictors : evpc'[u] # "idle"
    <3> SUFFICES ASSUME head' < evicting' PROVE \E u \in Evictors : evpc'[u] # "idle"
      BY Zenon
    <3>1. h \in Kept
      BY <1>1, <1>2, <1>3
    <3>2. PICK u \in Evictors : Reserved(u) /\ evstart[u] = h
      BY <3>1, Zenon DEF Kept, Reservations
    <3> QED
      BY <1>5, <3>2, Zenon DEF Reserved
  <2> QED
    BY <2>1, <2>2, <2>3, <2>4, Zenon DEF Reservations
<1> QED
  BY <1>6, <1>7, <1>8, <1>9, Zenon DEF Safe

-----------------------------------------------------------------------------
\* The empty buffer satisfies the invariant.
LEMMA InitIInv == Init => IInv
<1> SUFFICES ASSUME Init PROVE IInv
  BY Zenon
<1>1. Live = {}
  BY Zenon DEF Init, Live
<1>2. Alignment
  <2>1. 0 = MetaSize * 0
    BY SizeAssumption
  <2> QED
    BY <2>1 DEF Init, Alignment, Aligned
<1>3. TypeOK
  BY <1>1, Zenon DEF Init, TypeOK, NoAlloc, Reserved, Live
<1>4. Tiling
  BY <1>1, SizeAssumption DEF Init, Tiling
<1>5. Safe
  BY <1>1, Zenon DEF Init, Safe, StateChangesSucceed, ExclusiveHandle, Ownership, Reserved, NoAlloc
<1>6. Reservations
  BY <1>1 DEF Init, Reservations, Reserved
<1> QED
  BY <1>2, <1>3, <1>4, <1>5, <1>6, Zenon DEF IInv

\* Every step preserves the invariant.
LEMMA StepIInv == IInv /\ [Next]_vars => IInv'
<1> SUFFICES ASSUME IInv, [Next]_vars PROVE IInv'
  BY Zenon
<1>1. CASE Local
  BY <1>1, LocalType, LocalTiling, LocalStates, LocalExclusive, LocalOwnership, LocalReservations,
     Zenon
  DEF IInv, Safe
<1>2. CASE AllocFill \/ AllocExtend
  BY <1>2, ExtendStep, Zenon
<1>3. CASE \E t \in Evictors : EvictReserve(t)
  BY <1>3, ReserveStep, Zenon
<1>4. CASE \E t \in Evictors : EvictBump(t)
  BY <1>4, BumpStep, Zenon
<1>5. CASE UNCHANGED vars
  <2>1. UNCHANGED <<head, evicting, tail, size, state, freelist, guards, held, adding, pushed, alloc, evpc, evstart>>
    BY <1>5, Zenon DEF vars
  <2>2. Live' = Live
    BY <2>1, Zenon DEF Live
  <2>3. TypeOK'
    BY <2>1, <2>2, Zenon DEF IInv, TypeOK, Reserved
  <2>4. Tiling' /\ Alignment'
    BY <2>1, <2>2, Zenon DEF IInv, Tiling, Alignment, Aligned, After
  <2>5. Safe'
    BY <2>1, <2>2, Zenon DEF IInv, Safe, StateChangesSucceed, ExclusiveHandle, Ownership, Reserved
  <2>6. Reservations'
    BY <2>1, <2>2, Zenon DEF IInv, Reservations, Reserved
  <2> QED
    BY <2>3, <2>4, <2>5, <2>6, Zenon DEF IInv
<1> QED
  BY <1>1, <1>2, <1>3, <1>4, <1>5, Zenon
  DEF Next, Start, AllocStep, Finish, EvictStep, Local

\* The inductive invariant holds in every reachable state.
THEOREM Invariance == Spec => []IInv
  BY InitIInv, StepIInv, PTL DEF Spec

\* Every reference a guard, a handle, a free list, the allocator or an evictor
\* holds is to a live block: head never passes a block somebody still uses.
THEOREM TypeCorrect == Spec => []TypeOK
<1>1. IInv => TypeOK
  BY Zenon DEF IInv
<1> QED
  BY <1>1, Invariance, PTL

\* The live blocks always tile the space between head and tail, which is never
\* larger than the buffer.
THEOREM BlocksTile == Spec => []Tiling
<1>1. IInv => Tiling
  BY Zenon DEF IInv
<1> QED
  BY <1>1, Invariance, PTL

\* No state change of a block panics, for any interleaving of alloc, dealloc and
\* evict_one.
THEOREM NoPanic == Spec => []StateChangesSucceed
<1>1. IInv => StateChangesSucceed
  BY Zenon DEF IInv, Safe
<1> QED
  BY <1>1, Invariance, PTL

\* A TombstoneHandle is exclusive.
THEOREM HandlesExclude == Spec => []ExclusiveHandle
<1>1. IInv => ExclusiveHandle
  BY Zenon DEF IInv, Safe
<1> QED
  BY <1>1, Invariance, PTL

\* The last evictor to finish leaves no evicted block between head and evicting.
THEOREM HeadReachesEvicting == Spec => []HeadCatchesUp
<1>1. IInv => HeadCatchesUp
  BY DEF IInv, Reservations, HeadCatchesUp, Tiling, TypeOK
<1> QED
  BY <1>1, Invariance, PTL
-----------------------------------------------------------------------------
(* Physical memory.                                                        *)

Contiguous == \A a \in Live : Physical(a) + MetaSize + size[a] <= Capacity

\* alloc extends the tail only by a block that ends before the physical end.
LEMMA StepContiguous ==
  ASSUME IInv, Contiguous, [Next]_vars
  PROVE  Contiguous'
<1> USE DEF IInv
<1>1. CASE Local
  <2>1. UNCHANGED size /\ Live' = Live
    BY <1>1, LocalFrame, Zenon
  <2> QED
    BY <2>1, Zenon DEF Contiguous, Physical
<1>2. CASE AllocFill
  <2> DEFINE n == PhysicalRemaining - MetaSize
  <2>1. Live' = Live \cup {tail} /\ size' = [a \in Live \cup {tail} |-> IF a = tail THEN n ELSE size[a]]
    BY <1>2, Zenon DEF AllocFill, Extend, Live
  <2>2. Physical(tail) + MetaSize + n <= Capacity
    <3>1. tail % Capacity \in Int
      BY SizeAssumption DEF TypeOK
    <3> QED
      BY <3>1, SizeAssumption DEF Physical, PhysicalRemaining
  <2> HIDE DEF n
  <2> QED
    BY <2>1, <2>2, Zenon DEF Contiguous, Physical
<1>3. CASE AllocExtend
  <2> DEFINE n == align_up(alloc.size, MetaSize)
  <2>1. Live' = Live \cup {tail} /\ size' = [a \in Live \cup {tail} |-> IF a = tail THEN n ELSE size[a]]
    BY <1>3, Zenon DEF AllocExtend, Extend, Live
  <2>2. n \in Nat
    BY <1>3, AlignUp, SizeAssumption, Zenon DEF AllocExtend, TypeOK
  <2>3. n + MetaSize <= PhysicalRemaining /\ tail % Capacity \in Int
    BY <1>3, SizeAssumption DEF AllocExtend, Required, TypeOK
  <2> HIDE DEF n
  <2>4. Physical(tail) + MetaSize + n <= Capacity
    BY <2>2, <2>3, SizeAssumption DEF Physical, PhysicalRemaining
  <2> QED
    BY <2>1, <2>4, Zenon DEF Contiguous, Physical
<1>4. CASE \E t \in Evictors : EvictReserve(t)
  BY <1>4, Zenon DEF EvictReserve, Contiguous, Physical, Live
<1>5. CASE \E t \in Evictors : EvictBump(t)
  BY <1>5, Zenon DEF EvictBump, try_bump_head_address_to_evicting_addr, Contiguous, Physical, Live
<1>6. CASE UNCHANGED vars
  BY <1>6, Zenon DEF vars, Contiguous, Physical, Live
<1> QED
  BY <1>1, <1>2, <1>3, <1>4, <1>5, <1>6, Zenon
  DEF Next, Start, AllocStep, Finish, EvictStep, Local

\* Blocks less than a buffer apart that do not overlap logically do not overlap
\* physically: the later one is behind the earlier one in the same lap, or in
\* front of it in the next.
LEMMA DisjointLaps ==
  ASSUME NEW a \in Nat, NEW b \in Nat, NEW x \in Nat, NEW y \in Nat,
         a + x <= b, x > 0, y > 0, b + y <= a + Capacity
  PROVE  \/ Physical(a) + x <= Physical(b)
         \/ Physical(b) + y <= Physical(a)
<1> DEFINE p == a \div Capacity
           q == b \div Capacity
<1>0. Capacity \in Nat \ {0}
  BY SizeAssumption, Zenon
<1>1. p \in Nat /\ Physical(a) \in 0 .. (Capacity - 1) /\ a = Capacity * p + Physical(a)
  BY <1>0 DEF Physical
<1>2. q \in Nat /\ Physical(b) \in 0 .. (Capacity - 1) /\ b = Capacity * q + Physical(b)
  BY <1>0 DEF Physical
<1> HIDE DEF p, q
<1>3. Capacity * (q - p) = b - a + Physical(a) - Physical(b)
  BY <1>0, <1>1, <1>2
<1>4. q - p \in {0, 1}
  <2>1. Capacity * (q - p) < Capacity * 2
    BY <1>0, <1>1, <1>2, <1>3
  <2>2. Capacity * (q - p) > Capacity * (-1)
    BY <1>0, <1>1, <1>2, <1>3
  <2>3. q - p < 2 /\ q - p > -1
    BY <1>0, <1>1, <1>2, <2>1, <2>2
  <2> QED
    BY <1>1, <1>2, <2>3
<1>5. CASE q - p = 0
  BY <1>0, <1>1, <1>2, <1>3, <1>5
<1>6. CASE q - p = 1
  BY <1>0, <1>1, <1>2, <1>3, <1>6
<1> QED
  BY <1>4, <1>5, <1>6, Zenon

\* Tiled blocks within one buffer length never share a byte.
LEMMA TiledDisjoint ==
  ASSUME IInv, Contiguous
  PROVE  NoSharedMemory
<1> USE DEF IInv
<1>1. ASSUME NEW a \in Live, NEW b \in Live, a < b
      PROVE  \/ Physical(a) + MetaSize + size[a] <= Physical(b)
             \/ Physical(b) + MetaSize + size[b] <= Physical(a)
  <2>1. a \in Nat /\ b \in Nat /\ size[a] \in Nat /\ size[b] \in Nat
        /\ MetaSize \in Nat \ {0} /\ Capacity \in Nat
    BY SizeAssumption, Zenon DEF TypeOK
  <2>2. a + (MetaSize + size[a]) <= b
    BY <1>1, <2>1 DEF Tiling, After
  <2>3. b + (MetaSize + size[b]) <= a + Capacity
    BY <2>1 DEF Tiling, After, TypeOK
  <2>4. \/ Physical(a) + (MetaSize + size[a]) <= Physical(b)
        \/ Physical(b) + (MetaSize + size[b]) <= Physical(a)
    BY <2>1, <2>2, <2>3, DisjointLaps
  <2>5. Physical(a) \in Int /\ Physical(b) \in Int
    BY <2>1, SizeAssumption DEF Physical
  <2> QED
    BY <2>1, <2>4, <2>5
<1>2. ASSUME NEW a \in Live, NEW b \in Live, a # b PROVE a < b \/ b < a
  BY <1>2 DEF TypeOK
<1> QED
  BY <1>1, <1>2, Zenon DEF NoSharedMemory, Contiguous

\* Every live block has memory of its own, in one piece: no allocation overlaps a
\* block that is in use, however often the buffer wraps.
THEOREM MemorySafe == Spec => []NoSharedMemory
<1>1. Init => Contiguous
  BY Zenon DEF Init, Contiguous, Live
<1>2. IInv /\ Contiguous /\ [Next]_vars => Contiguous'
  BY StepContiguous, Zenon
<1>3. IInv /\ Contiguous => NoSharedMemory
  BY TiledDisjoint, Zenon
<1> QED
  BY <1>1, <1>2, <1>3, Invariance, PTL DEF Spec

-----------------------------------------------------------------------------
(* The free lists, when compare_exchange_weak never fails spuriously.      *)

Linked ==
  \A a \in Live : state[a] = "FreeListed" /\ a \notin freelist
    => \/ alloc.pc = "reuse" /\ alloc.blk = a
       \/ \E t \in Evictors : evpc[t] = "found" /\ evstart[t] = a

\* A local step leaves no FreeListed block outside the lists.
LEMMA LocalLinked ==
  ASSUME WeakCas = FALSE, TypeOK, Safe, Linked, Local
  PROVE  Linked'
<1> USE DEF addresses, handles, evictors, Live, TypeOK, MetaState, Safe, StateChangesSucceed, Linked
<1>1. ASSUME NEW n \in Sizes, Alloc(n) PROVE Linked'
  BY <1>1 DEF Alloc
<1>2. ASSUME AllocPop PROVE Linked'
  <2>1. CASE alloc' = [alloc EXCEPT !.pc = "bump"] /\ freelist' = freelist
    BY <1>2, <2>1, AllocPopEffect
  <2>2. ASSUME NEW a \in freelist, freelist' = freelist \ {a},
               alloc' = [alloc EXCEPT !.pc = "reuse", !.blk = a]
        PROVE  Linked'
    <3>1. alloc'.pc = "reuse" /\ alloc'.blk = a /\ alloc.pc = "pop"
      BY <1>2, <2>2, AllocPopEffect, Zenon
    <3>2. UNCHANGED <<state, evpc, evstart>>
      BY <1>2, AllocPopEffect, Zenon
    <3> QED
      BY <2>2, <3>1, <3>2
  <2> QED
    BY <1>2, <2>1, <2>2, AllocPopEffect, Zenon
<1>3. ASSUME AllocDiscard PROVE Linked'
  BY <1>3 DEF AllocDiscard, SetState
<1>4. ASSUME AllocReuse PROVE Linked'
  BY <1>4 DEF AllocReuse, SetState, NoAlloc
<1>5. ASSUME AllocReuseFails PROVE Linked'
  BY <1>5, Zenon DEF AllocReuseFails
<1>6. ASSUME AllocFull PROVE Linked'
  BY <1>6 DEF AllocFull, NoAlloc
<1>7. ASSUME NEW a \in Live, GuardDrop(a) PROVE Linked'
  BY <1>7 DEF GuardDrop, SetState
<1>8. ASSUME NEW a \in Live, acquire_exclusive_dealloc_handle(a) PROVE Linked'
  BY <1>8 DEF acquire_exclusive_dealloc_handle, SetState
<1>9. ASSUME NEW a \in Live, HandleDrop(a) PROVE Linked'
  BY <1>9 DEF HandleDrop, SetState
<1>10. ASSUME NEW a \in Live, Dealloc(a) PROVE Linked'
  BY <1>10 DEF Dealloc, SetState
<1>11. ASSUME NEW a \in Live, TryAdd(a) PROVE Linked'
  BY <1>11 DEF TryAdd, Ownership
<1>12. ASSUME NEW a \in Live, TryAddFails(a) PROVE Linked'
  BY <1>12 DEF TryAddFails, SetState
<1>13. ASSUME NEW a \in Live, ToFreelist(a) PROVE Linked'
  BY <1>13 DEF ToFreelist, SetState, Ownership
<1>14. ASSUME NEW t \in Evictors, EvictNone(t) PROVE Linked'
  BY <1>14 DEF EvictNone, vars
<1>15. ASSUME NEW t \in Evictors, EvictAcquire(t) PROVE Linked'
  BY <1>15 DEF EvictAcquire, SetState, EvGoto
<1>16. ASSUME NEW t \in Evictors, CallbackOk(t) PROVE Linked'
  BY <1>16 DEF CallbackOk, SetState, EvGoto
<1>17. ASSUME NEW t \in Evictors, CallbackErr(t) PROVE Linked'
  BY <1>17 DEF CallbackErr, SetState, EvGoto
<1>18. ASSUME NEW t \in Evictors, EvictCheck(t) PROVE Linked'
  BY <1>18 DEF EvictCheck, EvGoto
<1>19. ASSUME NEW t \in Evictors, find_and_remove(t) PROVE Linked'
  BY <1>19 DEF find_and_remove, EvGoto, Ownership
<1>20. ASSUME NEW t \in Evictors, EvictFreeListed(t) PROVE Linked'
  BY <1>20 DEF EvictFreeListed, SetState, EvGoto
<1>21. ASSUME NEW t \in Evictors, tombstone_to_evicted(t) PROVE Linked'
  BY <1>21 DEF tombstone_to_evicted, SetState, EvGoto
<1> QED
  BY <1>1, <1>2, <1>3, <1>4, <1>5, <1>6, <1>7, <1>8, <1>9, <1>10, <1>11,
     <1>12, <1>13, <1>14, <1>15, <1>16, <1>17, <1>18, <1>19, <1>20, <1>21, Zenon
  DEF Local

\* Every step leaves no FreeListed block outside the lists.
LEMMA StepLinked ==
  ASSUME WeakCas = FALSE, IInv, Linked, [Next]_vars
  PROVE  Linked'
<1> USE DEF IInv
<1>1. CASE Local
  BY <1>1, LocalLinked, Zenon
<1>2. CASE AllocFill \/ AllocExtend
  BY <1>2 DEF AllocFill, AllocExtend, Extend, handles, evictors, Linked, Live, NoAlloc
<1>3. CASE \E t \in Evictors : EvictReserve(t)
  BY <1>3 DEF EvictReserve, EvGoto, Linked, Live, TypeOK
<1>4. CASE \E t \in Evictors : EvictBump(t)
  BY <1>4 DEF EvictBump, EvGoto, try_bump_head_address_to_evicting_addr, Linked, Live, TypeOK
<1>5. CASE UNCHANGED vars
  BY <1>5, Zenon DEF vars, Linked, Live
<1> QED
  BY <1>1, <1>2, <1>3, <1>4, <1>5, Zenon
  DEF Next, Start, AllocStep, Finish, EvictStep, Local

\* Where compare_exchange_weak does not fail spuriously, the free lists hold all
\* FreeListed blocks that no thread has in hand, and nothing else.
THEOREM ListsExact == WeakCas = FALSE /\ Spec => []FreeListExact
<1> SUFFICES ASSUME WeakCas = FALSE PROVE Spec => []FreeListExact
  BY Zenon
<1>1. Init => Linked
  BY Zenon DEF Init, Linked, Live
<1>2. IInv /\ Linked /\ [Next]_vars => Linked'
  BY StepLinked, Zenon
<1>3. IInv /\ Linked => FreeListExact
  BY Zenon DEF IInv, Safe, Ownership, Linked, FreeListExact
<1> QED
  BY <1>1, <1>2, <1>3, Invariance, PTL DEF Spec

-----------------------------------------------------------------------------
(* The size classes.                                                       *)

\* The list a request is served from is of a class that is large enough.
LEMMA LargerClass ==
  ASSUME NEW n \in Sizes
  PROVE  size_class_larger_than(n) \in SizeClasses /\ size_class_larger_than(n) >= n
<1> DEFINE S == {c \in SizeClasses : c >= n}
<1>1. S \subseteq Nat /\ S # {}
  BY SizeAssumption, ClassAssumption, Zenon
<1>2. PICK m \in S : \A d \in S : m <= d
  BY <1>1, LeastNat, Zenon
<1>3. m \in SizeClasses /\ m >= n /\ \A d \in SizeClasses : d >= n => m <= d
  BY <1>2, Zenon
<1> QED
  BY <1>3, Zenon DEF size_class_larger_than

\* The list a block is put in is of a class that is not larger than the block.
LEMMA SmallerClass ==
  ASSUME NEW n \in Nat, \E c \in SizeClasses : c <= n
  PROVE  size_class_smaller_than(n) \in SizeClasses /\ size_class_smaller_than(n) <= n
<1> DEFINE S == {n - c : c \in {d \in SizeClasses : d <= n}}
<1>1. S \subseteq Nat /\ S # {}
  BY SizeAssumption
<1>2. PICK m \in S : \A d \in S : m <= d
  BY <1>1, LeastNat, Zenon
<1>3. PICK c \in SizeClasses : c <= n /\ m = n - c
  BY <1>2, Zenon
<1>4. ASSUME NEW d \in SizeClasses, d <= n PROVE d <= c
  <2>1. n - d \in S
    BY <1>4, Zenon
  <2>2. n - c <= n - d
    BY <1>2, <1>3, <2>1, Zenon
  <2> QED
    BY <2>2, SizeAssumption
<1> QED
  BY <1>3, <1>4, Zenon DEF size_class_smaller_than

\* A block in a free list has a class, and the one alloc has popped is large enough.
Classed == (\A a \in freelist : \E c \in SizeClasses : c <= size[a]) /\ ReuseFits

\* A local step puts a block in a list only if it has a class, and takes one out only
\* of the list of a class at least as large as the request.
LEMMA LocalClassed ==
  ASSUME TypeOK, Safe, Classed, Local
  PROVE  Classed'
<1>1. UNCHANGED size
  BY LocalFrame, Zenon
<1>2. CASE AllocPop
  <2>1. CASE freelist' = freelist /\ alloc'.pc = "bump"
    BY <1>1, <2>1, Zenon DEF Classed, ReuseFits
  <2>2. ASSUME NEW a \in freelist, ClassOf(a) = size_class_larger_than(alloc.size), freelist' = freelist \ {a},
               alloc' = [alloc EXCEPT !.pc = "reuse", !.blk = a]
        PROVE  Classed'
    <3>1. alloc.size \in Sizes /\ alloc'.size = alloc.size /\ alloc'.blk = a /\ size[a] \in Nat
      BY <1>2, <2>2, Zenon DEF AllocPop, TypeOK
    <3>2. alloc.size <= ClassOf(a)
      BY <2>2, <3>1, LargerClass, SizeAssumption, Zenon
    <3>3. ClassOf(a) <= size[a] /\ ClassOf(a) \in Nat
      BY <3>1, SmallerClass, SizeAssumption, Zenon DEF ClassOf, Classed
    <3>4. alloc.size \in Nat
      BY <3>1, SizeAssumption, Zenon
    <3>5. size[a] >= alloc.size
      BY <3>1, <3>2, <3>3, <3>4
    <3> QED
      BY <1>1, <2>2, <3>1, <3>5, Zenon DEF Classed, ReuseFits
  <2> QED
    BY <1>2, <2>1, <2>2, Zenon DEF AllocPop, TypeOK
<1>3. ASSUME NEW a \in Live, TryAdd(a) PROVE Classed'
  BY <1>1, <1>3, Zenon DEF TryAdd, Classed, ReuseFits
<1>4. CASE (\E n \in Sizes : Alloc(n)) \/ AllocDiscard \/ AllocReuse \/ AllocReuseFails \/ AllocFull
  <2>1. alloc \in [pc : {"none", "pop", "reuse", "bump"}, size : Sizes \cup {0}, blk : Nat]
    BY Zenon DEF TypeOK
  <2>2. UNCHANGED freelist /\ alloc'.pc # "reuse"
    <3>1. ASSUME NEW n \in Sizes, Alloc(n) PROVE UNCHANGED freelist /\ alloc'.pc # "reuse"
      BY <3>1, Zenon DEF Alloc
    <3>2. CASE AllocReuse \/ AllocFull
      BY <3>2 DEF AllocReuse, AllocFull, NoAlloc
    <3>3. CASE AllocDiscard \/ AllocReuseFails
      BY <2>1, <3>3, Zenon DEF AllocDiscard, AllocReuseFails
    <3> QED
      BY <1>4, <3>1, <3>2, <3>3, Zenon
  <2> QED
    BY <1>1, <2>2, Zenon DEF Classed, ReuseFits
<1>5. ASSUME NEW a \in Live,
             \/ GuardDrop(a) \/ acquire_exclusive_dealloc_handle(a) \/ HandleDrop(a) \/ Dealloc(a)
             \/ TryAddFails(a) \/ ToFreelist(a)
      PROVE  Classed'
  BY <1>1, <1>5, Zenon
     DEF GuardDrop, acquire_exclusive_dealloc_handle, HandleDrop, Dealloc, TryAddFails,
                    ToFreelist, Classed, ReuseFits
<1>6. ASSUME NEW t \in Evictors,
             \/ EvictNone(t) \/ EvictAcquire(t) \/ CallbackOk(t) \/ CallbackErr(t) \/ EvictCheck(t)
             \/ find_and_remove(t) \/ EvictFreeListed(t) \/ tombstone_to_evicted(t)
      PROVE  Classed'
  BY <1>1, <1>6, Zenon
     DEF EvictNone, EvictAcquire, CallbackOk, CallbackErr, EvictCheck, find_and_remove,
                    EvictFreeListed, tombstone_to_evicted, vars, Classed, ReuseFits
<1> QED
  BY <1>2, <1>3, <1>4, <1>5, <1>6, Zenon DEF Local

\* alloc's assertion on the block it reuses holds, whatever the size classes are, as
\* long as every request is between two of them.
THEOREM ReusedBlockFits == Spec => []ReuseFits
<1>1. Init => Classed
  BY DEF Init, Classed, ReuseFits, NoAlloc
<1>2. ASSUME IInv, IInv', Classed, [Next]_vars PROVE Classed'
  <2> USE <1>2 DEF IInv
  <2>1. CASE Local
    BY <2>1, LocalClassed, Zenon
  <2>2. CASE AllocFill \/ AllocExtend
    <3>1. tail \notin Live
      BY SizeAssumption DEF Tiling, After, TypeOK
    <3> QED
      BY <2>2, <3>1 DEF AllocFill, AllocExtend, Extend, NoAlloc, Classed, ReuseFits, TypeOK
  <2>3. CASE \E t \in Evictors : EvictReserve(t)
    BY <2>3, Zenon DEF EvictReserve, Classed, ReuseFits
  <2>4. CASE \E t \in Evictors : EvictBump(t)
    <3>1. UNCHANGED <<freelist, alloc>> /\ alloc.pc = "none"
          /\ size' = [a \in {b \in Live : b >= FirstKept} |-> size[a]]
          /\ state' = [a \in {b \in Live : b >= FirstKept} |-> state[a]]
      BY <2>4, Zenon DEF EvictBump, try_bump_head_address_to_evicting_addr
    <3>2. freelist \subseteq {b \in Live : b >= FirstKept}
      BY <3>1, Zenon DEF TypeOK, Live
    <3> QED
      BY <3>1, <3>2, Zenon DEF Classed, ReuseFits
  <2>5. CASE UNCHANGED vars
    BY <2>5, Zenon DEF vars, Classed, ReuseFits
  <2> QED
    BY <2>1, <2>2, <2>3, <2>4, <2>5, Zenon DEF Next, Start, AllocStep, Finish, EvictStep, Local
<1>3. Classed => ReuseFits
  BY Zenon DEF Classed
<1> QED
  BY <1>1, <1>2, <1>3, Invariance, PTL DEF Spec
=============================================================================
