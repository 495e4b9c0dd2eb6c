---------------------------- MODULE RwLockProofs ----------------------------
(***************************************************************************)
(* Proofs about RwLock for any number of threads: mutual exclusion, and    *)
(* that no reader and no writer is left asleep.                            *)
(***************************************************************************)
EXTENDS RwLock, FiniteSetTheorems, TLAPS

\* What a thread knows of its local v (read()) or s (write()).
Locals ==
  \A t \in Threads :
    /\ pc[t] \in {"read_cas", "try_read_cas"} => Even(v[t])
    /\ pc[t] = "read_wait" => ~Even(v[t])
    /\ pc[t] \in {"write_acquire", "try_write_cas"} => v[t] <= 1
    /\ pc[t] = "write_flag" => Even(v[t]) /\ v[t] >= 2

\* A writer about to sleep on the current counter either sees a lock whose
\* release will bump the counter, or that bump is still to come.
WaitFresh ==
  \A t \in Threads :
    pc[t] = "write_wait" /\ t \in fresh
      => \/ Blocked(lock_val)
         \/ \E u \in Threads : pc[u] \in {"read_drop_add", "write_drop_add"}

Accounting == TypeOK /\ Locals /\ MutualExclusion

IInv == Accounting /\ NoStrandedReader /\ WaitFresh /\ NoStrandedWriter

-----------------------------------------------------------------------------
\* The number of read guards is a natural number no larger than the threads.
LEMMA ReadersCount ==
  /\ IsFiniteSet(Readers)
  /\ Cardinality(Readers) \in Nat
  /\ Cardinality(Readers) <= Cardinality(Threads)
  /\ Cardinality(Threads) \in Nat
  /\ Cardinality(Readers) = 0 <=> Readers = {}
<1>1. Readers \subseteq Threads
  BY DEF Readers
<1>2. IsFiniteSet(Readers) /\ Cardinality(Readers) <= Cardinality(Threads)
  BY <1>1, FS_Subset, ThreadsAssumption
<1> QED
  BY <1>2, FS_CardinalityType, FS_EmptySet, ThreadsAssumption

\* A step that moves no thread into or out of "reading" and "writing" and leaves
\* lock_val alone keeps the accounting of guards.
LEMMA SameGuards ==
  ASSUME MutualExclusion, lock_val' = lock_val,
         Readers' = Readers, Writers' = Writers
  PROVE  MutualExclusion'
BY DEF MutualExclusion

\* Initially nobody is in the lock's code.
LEMMA InitAccounting == Init => Accounting /\ NoStrandedReader /\ WaitFresh /\ NoStrandedWriter
<1> SUFFICES ASSUME Init PROVE IInv
  BY DEF IInv
<1>1. Readers = {} /\ Writers = {}
  BY DEF Init, Readers, Writers
<1>2. Cardinality(Readers) = 0
  BY <1>1, FS_EmptySet
<1>3. MutualExclusion
  BY <1>1, <1>2 DEF MutualExclusion, Init
<1>4. TypeOK /\ Locals
  BY MAXAssumption DEF Init, TypeOK, PCs, Locals
<1>5. NoStrandedReader /\ WaitFresh /\ NoStrandedWriter
  BY DEF Init, NoStrandedReader, WaitFresh, NoStrandedWriter
<1> QED
  BY <1>3, <1>4, <1>5 DEF IInv, Accounting

\* With an even lock_val no writer holds the lock and every reader is counted.
LEMMA EvenCount ==
  ASSUME Accounting, Even(lock_val)
  PROVE  lock_val # MAX /\ Writers = {} /\ lock_val = 2 * Cardinality(Readers)
<1>1. lock_val # MAX
  BY MAXAssumption DEF Even
<1>2. Writers = {}
  BY <1>1 DEF Accounting, MutualExclusion
<1>3. lock_val = 2 * Cardinality(Readers)
  BY <1>2, ReadersCount DEF Accounting, MutualExclusion, Even
<1> QED
  BY <1>1, <1>2, <1>3

\* A thread enters read mode: the count goes up by one, and stays below MAX
\* because each thread holds at most one guard.
LEMMA EnterReading ==
  ASSUME Accounting, NEW t \in Threads,
         pc[t] \in {"read_cas", "try_read_cas"}, lock_val = v[t],
         lock_val' = v[t] + 2, pc' = [pc EXCEPT ![t] = "reading"]
  PROVE  MutualExclusion' /\ lock_val' \in 0 .. MAX
<1>1. Even(lock_val)
  BY DEF Accounting, Locals
<1>4. Writers = {} /\ lock_val = 2 * Cardinality(Readers)
  BY <1>1, EvenCount
<1>5. t \notin Readers /\ Readers' = Readers \cup {t} /\ Writers' = {}
  BY <1>4 DEF Accounting, TypeOK, Readers, Writers
<1>6. Cardinality(Readers') = Cardinality(Readers) + 1
  BY <1>5, ReadersCount, FS_AddElement
<1>7. IsFiniteSet(Readers') /\ Cardinality(Readers') <= Cardinality(Threads)
  <2>1. Readers' \subseteq Threads
    BY DEF Readers
  <2> QED
    BY <2>1, FS_Subset, ThreadsAssumption
<1>8. lock_val' = 2 * Cardinality(Readers')
  BY <1>4, <1>6, ReadersCount
<1>9. Cardinality(Readers') \in Nat
  BY <1>6, ReadersCount
<1>10. lock_val' \in 0 .. MAX
  BY <1>7, <1>8, <1>9, ReadersCount, MAXAssumption
<1> QED
  BY <1>5, <1>8, <1>10 DEF MutualExclusion

\* A thread takes the free lock for writing.
LEMMA EnterWriting ==
  ASSUME Accounting, NEW t \in Threads, lock_val <= 1,
         lock_val' = MAX, pc' = [pc EXCEPT ![t] = "writing"]
  PROVE  MutualExclusion'
<1>1. lock_val # MAX
  BY ReadersCount, MAXAssumption DEF Accounting, TypeOK
<1>2. Writers = {}
  BY <1>1 DEF Accounting, MutualExclusion
<1>3. Cardinality(Readers) = 0
  BY <1>2, ReadersCount DEF Accounting, MutualExclusion
<1>4. Readers = {}
  BY <1>3, ReadersCount
<1>5. Readers' = {} /\ Writers' = {t}
  BY <1>2, <1>4 DEF Accounting, TypeOK, Readers, Writers
<1> QED
  BY <1>5 DEF MutualExclusion

\* The sole reader becomes the writer.
LEMMA Upgrade ==
  ASSUME Accounting, NEW t \in Threads, TryUpgrade(t)
  PROVE  MutualExclusion'
<1>1. t \in Readers /\ lock_val = 2
  BY DEF TryUpgrade, Readers
<1>2. Writers = {}
  BY <1>1 DEF Accounting, MutualExclusion
<1>3. Cardinality(Readers) = 1
  BY <1>1, <1>2, ReadersCount DEF Accounting, MutualExclusion
<1>4. Readers = {t}
  <2>1. Cardinality(Readers \ {t}) = Cardinality(Readers) - 1
    BY <1>1, ReadersCount, FS_RemoveElement
  <2>2. IsFiniteSet(Readers \ {t})
    BY <1>1, ReadersCount, FS_RemoveElement
  <2>3. Readers \ {t} = {}
    <3>1. Cardinality(Readers \ {t}) = 0
      BY <1>3, <2>1
    <3> QED
      BY <3>1, <2>2, FS_EmptySet
  <2> QED
    BY <1>1, <2>3
<1>5. Readers' = {} /\ Writers' = {t}
  BY <1>2, <1>4 DEF Accounting, TypeOK, Readers, Writers, TryUpgrade, Goto
<1> QED
  BY <1>5 DEF MutualExclusion, TryUpgrade

\* A reader leaves: it was counted, so the subtraction does not wrap.
LEMMA LeaveReading ==
  ASSUME Accounting, NEW t \in Threads, ReadDrop(t)
  PROVE  MutualExclusion' /\ lock_val' \in 0 .. MAX
<1>1. t \in Readers
  BY DEF ReadDrop, Readers
<1>2. Writers = {}
  BY <1>1 DEF Accounting, MutualExclusion
<1>3. Readers' = Readers \ {t} /\ Writers' = {}
  BY <1>2 DEF Accounting, TypeOK, Readers, Writers, ReadDrop, Goto
<1>4. Cardinality(Readers') = Cardinality(Readers) - 1
  BY <1>1, <1>3, ReadersCount, FS_RemoveElement
<1>5. Cardinality(Readers) >= 1
  BY <1>1, ReadersCount
<1> QED
  BY <1>2, <1>3, <1>4, <1>5, ReadersCount, MAXAssumption
  DEF MutualExclusion, ReadDrop, Accounting, TypeOK

\* The writer leaves.
LEMMA LeaveWriting ==
  ASSUME Accounting, NEW t \in Threads, WriteDrop(t)
  PROVE  MutualExclusion'
<1>1. t \in Writers
  BY DEF WriteDrop, Writers
<1>2. Writers = {t} /\ Readers = {}
  BY <1>1 DEF Accounting, MutualExclusion
<1>3. Readers' = {} /\ Writers' = {}
  BY <1>2 DEF Accounting, TypeOK, Readers, Writers, WriteDrop, Goto
<1>4. Cardinality(Readers') = 0
  BY <1>3, FS_EmptySet
<1> QED
  BY <1>3, <1>4 DEF MutualExclusion, WriteDrop
-----------------------------------------------------------------------------
\* The steps that neither take nor drop a guard.
LEMMA NeutralStep ==
  ASSUME Accounting, NEW t \in Threads,
         \/ Read(t) \/ ReadWait(t) \/ ReadReload(t) \/ TryRead(t)
         \/ Write(t) \/ WriteCounter(t) \/ WriteRecheck(t) \/ WriteWait(t)
         \/ WriteReload(t) \/ TryWrite(t) \/ ReadDropAdd(t) \/ ReadDropWake(t)
         \/ WriteDropAdd(t) \/ WriteDropWakeOne(t) \/ WriteDropWakeAll(t)
         \/ SpuriousWake(t)
  PROVE  Accounting'
<1> USE DEF Accounting, TypeOK, PCs
<1>0. SUFFICES TypeOK' /\ Locals' /\ lock_val' = lock_val
               /\ Readers' = Readers /\ Writers' = Writers
  BY SameGuards
<1>1. CASE Read(t)
  BY <1>1 DEF Read, ReadLoop, Goto, Even, Locals, Readers, Writers
<1>2. CASE ReadWait(t)
  BY <1>2 DEF ReadWait, Goto, Locals, Readers, Writers
<1>3. CASE ReadReload(t)
  BY <1>3 DEF ReadReload, ReadLoop, Goto, Even, Locals, Readers, Writers
<1>4. CASE TryRead(t)
  BY <1>4 DEF TryRead, Goto, Even, Locals, Readers, Writers
<1>5. CASE Write(t)
  BY <1>5 DEF Write, WriteLoop, Goto, Even, Locals, Readers, Writers
<1>6. CASE WriteCounter(t)
  BY <1>6 DEF WriteCounter, Goto, Locals, Readers, Writers
<1>7. CASE WriteRecheck(t)
  BY <1>7 DEF WriteRecheck, WriteLoop, Goto, Even, Locals, Readers, Writers
<1>8. CASE WriteWait(t)
  BY <1>8 DEF WriteWait, Goto, Locals, Readers, Writers
<1>9. CASE WriteReload(t)
  BY <1>9 DEF WriteReload, WriteLoop, Goto, Even, Locals, Readers, Writers
<1>10. CASE TryWrite(t)
  BY <1>10 DEF TryWrite, Goto, Locals, Readers, Writers
<1>11. CASE ReadDropAdd(t)
  BY <1>11 DEF ReadDropAdd, Goto, Locals, Readers, Writers
<1>12. CASE ReadDropWake(t)
  BY <1>12 DEF ReadDropWake, WakeOneWriter, WriteSleepers, Goto, Locals, Readers, Writers
<1>13. CASE WriteDropAdd(t)
  BY <1>13 DEF WriteDropAdd, Goto, Locals, Readers, Writers
<1>14. CASE WriteDropWakeOne(t)
  BY <1>14 DEF WriteDropWakeOne, WakeOneWriter, WriteSleepers, Goto, Locals, Readers, Writers
<1>15. CASE WriteDropWakeAll(t)
  BY <1>15 DEF WriteDropWakeAll, Locals, Readers, Writers
<1>16. CASE SpuriousWake(t)
  BY <1>16 DEF SpuriousWake, Goto, Locals, Readers, Writers
<1> QED
  BY <1>1, <1>2, <1>3, <1>4, <1>5, <1>6, <1>7, <1>8, <1>9, <1>10, <1>11, <1>12, <1>13, <1>14, <1>15, <1>16

\* Every step keeps the type of the state and the accounting of guards.
LEMMA StepAccounting ==
  ASSUME Accounting, [Next]_vars
  PROVE  Accounting'
<1> USE DEF Accounting, TypeOK, PCs
<1>0. CASE UNCHANGED vars
  BY <1>0 DEF vars, Locals, MutualExclusion, Readers, Writers
<1> SUFFICES ASSUME NEW t \in Threads, Progress(t) \/ Choice(t)
             PROVE  Accounting'
  BY <1>0 DEF Next
<1>1. CASE ReadCas(t)
  <2>1. CASE lock_val = v[t]
    <3>1. MutualExclusion' /\ lock_val' \in 0 .. MAX
      BY <1>1, <2>1, EnterReading DEF ReadCas, Return, Goto
    <3>2. TypeOK' /\ Locals'
      BY <1>1, <2>1, <3>1, MAXAssumption DEF ReadCas, Return, Goto, Locals
    <3> QED
      BY <3>1, <3>2
  <2>2. CASE lock_val # v[t]
    <3>1. TypeOK' /\ Locals'
      BY <1>1, <2>2 DEF ReadCas, ReadLoop, Goto, Locals, Even
    <3>2. lock_val' = lock_val /\ Readers' = Readers /\ Writers' = Writers
      BY <1>1, <2>2 DEF ReadCas, ReadLoop, Goto, Readers, Writers
    <3> QED
      BY <3>1, <3>2, SameGuards
  <2> QED
    BY <2>1, <2>2
<1>2. CASE TryReadCas(t)
  <2>1. CASE lock_val = v[t] /\ lock_val' = v[t] + 2 /\ Return(t, "reading")
    <3>1. MutualExclusion' /\ lock_val' \in 0 .. MAX
      BY <1>2, <2>1, EnterReading DEF TryReadCas, Return, Goto
    <3>2. TypeOK' /\ Locals'
      BY <1>2, <2>1, <3>1, MAXAssumption DEF Return, Goto, Locals
    <3> QED
      BY <3>1, <3>2
  <2>2. CASE Return(t, "idle") /\ UNCHANGED lock_val
    <3>1. TypeOK' /\ Locals'
      BY <2>2, MAXAssumption DEF Return, Goto, Locals
    <3>2. lock_val' = lock_val /\ Readers' = Readers /\ Writers' = Writers
      BY <1>2, <2>2 DEF TryReadCas, Return, Goto, Readers, Writers
    <3> QED
      BY <3>1, <3>2, SameGuards
  <2> QED
    BY <1>2, <2>1, <2>2 DEF TryReadCas
<1>3. CASE WriteAcquire(t)
  <2>1. CASE lock_val = v[t]
    <3>1. MutualExclusion'
      BY <1>3, <2>1, EnterWriting DEF WriteAcquire, Return, Goto, Locals
    <3>2. TypeOK' /\ Locals'
      BY <1>3, <2>1, MAXAssumption DEF WriteAcquire, Return, Goto, Locals
    <3> QED
      BY <3>1, <3>2
  <2>2. CASE lock_val # v[t]
    <3>1. TypeOK' /\ Locals'
      BY <1>3, <2>2 DEF WriteAcquire, WriteLoop, Goto, Locals, Even
    <3>2. lock_val' = lock_val /\ Readers' = Readers /\ Writers' = Writers
      BY <1>3, <2>2 DEF WriteAcquire, WriteLoop, Goto, Readers, Writers
    <3> QED
      BY <3>1, <3>2, SameGuards
  <2> QED
    BY <2>1, <2>2
<1>4. CASE WriteFlag(t)
  <2>0. Readers' = Readers /\ Writers' = Writers
    BY <1>4 DEF WriteFlag, WriteLoop, Goto, Readers, Writers
  <2>1. CASE lock_val = v[t]
    <3>1. Even(lock_val) /\ lock_val # MAX
      BY <1>4, <2>1, MAXAssumption DEF WriteFlag, Locals, Even
    <3>3. Writers = {} /\ lock_val = 2 * Cardinality(Readers)
      BY <3>1, EvenCount
    <3>4. MutualExclusion'
      BY <1>4, <2>0, <2>1, <3>3 DEF MutualExclusion, WriteFlag
    <3>5. TypeOK' /\ Locals'
      BY <1>4, <2>1, <3>1, MAXAssumption DEF WriteFlag, Goto, Locals
    <3> QED
      BY <3>4, <3>5
  <2>2. CASE lock_val # v[t]
    <3>1. TypeOK' /\ Locals' /\ lock_val' = lock_val
      BY <1>4, <2>2 DEF WriteFlag, WriteLoop, Goto, Locals, Even
    <3> QED
      BY <2>0, <3>1, SameGuards
  <2> QED
    BY <2>1, <2>2
<1>5. CASE TryWriteCas(t)
  <2>1. CASE lock_val = v[t] /\ lock_val' = MAX /\ Return(t, "writing")
    <3>1. MutualExclusion'
      BY <1>5, <2>1, EnterWriting DEF TryWriteCas, Return, Goto, Locals
    <3>2. TypeOK' /\ Locals'
      BY <2>1, MAXAssumption DEF Return, Goto, Locals
    <3> QED
      BY <3>1, <3>2
  <2>2. CASE Return(t, "idle") /\ UNCHANGED lock_val
    <3>1. TypeOK' /\ Locals'
      BY <2>2, MAXAssumption DEF Return, Goto, Locals
    <3>2. lock_val' = lock_val /\ Readers' = Readers /\ Writers' = Writers
      BY <1>5, <2>2 DEF TryWriteCas, Return, Goto, Readers, Writers
    <3> QED
      BY <3>1, <3>2, SameGuards
  <2> QED
    BY <1>5, <2>1, <2>2 DEF TryWriteCas
<1>6. CASE TryUpgrade(t)
  <2>1. TypeOK' /\ Locals'
    BY <1>6, MAXAssumption DEF TryUpgrade, Goto, Locals
  <2> QED
    BY <1>6, <2>1, Upgrade
<1>7. CASE ReadDrop(t)
  <2>1. MutualExclusion' /\ lock_val' \in 0 .. MAX
    BY <1>7, LeaveReading
  <2>2. TypeOK' /\ Locals'
    BY <1>7, <2>1 DEF ReadDrop, Goto, Locals
  <2> QED
    BY <2>1, <2>2
<1>8. CASE WriteDrop(t)
  <2>1. TypeOK' /\ Locals'
    BY <1>8, MAXAssumption DEF WriteDrop, Goto, Locals
  <2> QED
    BY <1>8, <2>1, LeaveWriting
<1> QED
  BY <1>1, <1>2, <1>3, <1>4, <1>5, <1>6, <1>7, <1>8, NeutralStep
  DEF Progress, Choice, Request

\* lock_val becomes even again only when a write guard is dropped, and that thread
\* wakes every sleeping reader before it is done.
LEMMA StepStrandedReader ==
  ASSUME Accounting, NoStrandedReader, [Next]_vars
  PROVE  NoStrandedReader'
<1> USE MAXAssumption DEF Accounting, TypeOK, PCs, Locals, NoStrandedReader, Even
<1>0. CASE UNCHANGED vars
  BY <1>0 DEF vars
<1> SUFFICES ASSUME NEW t \in Threads, Progress(t) \/ Choice(t)
             PROVE  NoStrandedReader'
  BY <1>0 DEF Next
<1>1. CASE ReadCas(t)
  BY <1>1 DEF ReadCas, ReadLoop, Return, Goto
<1>2. CASE ReadWait(t)
  BY <1>2 DEF ReadWait, Goto
<1>3. CASE ReadReload(t)
  BY <1>3 DEF ReadReload, ReadLoop, Goto
<1>4. CASE TryReadCas(t)
  BY <1>4 DEF TryReadCas, Return, Goto
<1>5. CASE WriteAcquire(t)
  BY <1>5 DEF WriteAcquire, WriteLoop, Return, Goto
<1>6. CASE WriteFlag(t)
  BY <1>6 DEF WriteFlag, WriteLoop, Goto
<1>7. CASE WriteCounter(t)
  BY <1>7 DEF WriteCounter, Goto
<1>8. CASE WriteRecheck(t)
  BY <1>8 DEF WriteRecheck, WriteLoop, Goto
<1>9. CASE WriteWait(t)
  BY <1>9 DEF WriteWait, Goto
<1>10. CASE WriteReload(t)
  BY <1>10 DEF WriteReload, WriteLoop, Goto
<1>11. CASE TryWriteCas(t)
  BY <1>11 DEF TryWriteCas, Return, Goto
<1>12. CASE ReadDrop(t)
  BY <1>12 DEF ReadDrop, Goto
<1>13. CASE ReadDropAdd(t)
  BY <1>13 DEF ReadDropAdd, Goto
<1>14. CASE ReadDropWake(t)
  BY <1>14 DEF ReadDropWake, WakeOneWriter, WriteSleepers, Goto
<1>15. CASE WriteDrop(t)
  BY <1>15 DEF WriteDrop, Goto
<1>16. CASE WriteDropAdd(t)
  BY <1>16 DEF WriteDropAdd, Goto
<1>17. CASE WriteDropWakeOne(t)
  BY <1>17 DEF WriteDropWakeOne, WakeOneWriter, WriteSleepers, Goto
<1>18. CASE WriteDropWakeAll(t)
  BY <1>18 DEF WriteDropWakeAll
<1>19. CASE Read(t)
  BY <1>19 DEF Read, ReadLoop, Goto
<1>20. CASE TryRead(t)
  BY <1>20 DEF TryRead, Goto
<1>21. CASE Write(t)
  BY <1>21 DEF Write, WriteLoop, Goto
<1>22. CASE TryWrite(t)
  BY <1>22 DEF TryWrite, Goto
<1>23. CASE TryUpgrade(t)
  BY <1>23 DEF TryUpgrade, Goto
<1>24. CASE SpuriousWake(t)
  BY <1>24 DEF SpuriousWake, Goto
<1> QED
  BY <1>1, <1>2, <1>3, <1>4, <1>5, <1>6, <1>7, <1>8, <1>9, <1>10, <1>11, <1>12,
     <1>13, <1>14, <1>15, <1>16, <1>17, <1>18, <1>19, <1>20, <1>21, <1>22, <1>23, <1>24
  DEF Progress, Choice, Request

\* A lock on which a writer may sleep is released only by a step that owes a bump
\* of the counter, and the bump makes every loaded w stale.
LEMMA StepWaitFresh ==
  ASSUME Accounting, WaitFresh, [Next]_vars
  PROVE  WaitFresh'
<1> USE MAXAssumption DEF Accounting, TypeOK, PCs, Locals, WaitFresh, Blocked, Even
<1>0. CASE UNCHANGED vars
  BY <1>0 DEF vars
<1> SUFFICES ASSUME NEW t \in Threads, Progress(t) \/ Choice(t)
             PROVE  WaitFresh'
  BY <1>0 DEF Next
<1>1. CASE ReadCas(t)
  BY <1>1 DEF ReadCas, ReadLoop, Return, Goto
<1>2. CASE ReadWait(t)
  BY <1>2 DEF ReadWait, Goto
<1>3. CASE ReadReload(t)
  BY <1>3 DEF ReadReload, ReadLoop, Goto
<1>4. CASE TryReadCas(t)
  BY <1>4 DEF TryReadCas, Return, Goto
<1>5. CASE WriteAcquire(t)
  BY <1>5 DEF WriteAcquire, WriteLoop, Return, Goto
<1>6. CASE WriteFlag(t)
  BY <1>6 DEF WriteFlag, WriteLoop, Goto
<1>7. CASE WriteCounter(t)
  BY <1>7 DEF WriteCounter, Goto
<1>8. CASE WriteRecheck(t)
  BY <1>8 DEF WriteRecheck, WriteLoop, Goto
<1>9. CASE WriteWait(t)
  BY <1>9 DEF WriteWait, Goto
<1>10. CASE WriteReload(t)
  BY <1>10 DEF WriteReload, WriteLoop, Goto
<1>11. CASE TryWriteCas(t)
  BY <1>11 DEF TryWriteCas, Return, Goto
<1>12. CASE ReadDrop(t)
  BY <1>12 DEF ReadDrop, Goto
<1>13. CASE ReadDropAdd(t)
  BY <1>13 DEF ReadDropAdd, Goto
<1>14. CASE ReadDropWake(t)
  BY <1>14 DEF ReadDropWake, WakeOneWriter, WriteSleepers, Goto
<1>15. CASE WriteDrop(t)
  BY <1>15 DEF WriteDrop, Goto
<1>16. CASE WriteDropAdd(t)
  BY <1>16 DEF WriteDropAdd, Goto
<1>17. CASE WriteDropWakeOne(t)
  BY <1>17 DEF WriteDropWakeOne, WakeOneWriter, WriteSleepers, Goto
<1>18. CASE WriteDropWakeAll(t)
  BY <1>18 DEF WriteDropWakeAll
<1>19. CASE Read(t)
  BY <1>19 DEF Read, ReadLoop, Goto
<1>20. CASE TryRead(t)
  BY <1>20 DEF TryRead, Goto
<1>21. CASE Write(t)
  BY <1>21 DEF Write, WriteLoop, Goto
<1>22. CASE TryWrite(t)
  BY <1>22 DEF TryWrite, Goto
<1>23. CASE TryUpgrade(t)
  BY <1>23 DEF TryUpgrade, Goto
<1>24. CASE SpuriousWake(t)
  BY <1>24 DEF SpuriousWake, Goto
<1> QED
  BY <1>1, <1>2, <1>3, <1>4, <1>5, <1>6, <1>7, <1>8, <1>9, <1>10, <1>11, <1>12,
     <1>13, <1>14, <1>15, <1>16, <1>17, <1>18, <1>19, <1>20, <1>21, <1>22, <1>23, <1>24
  DEF Progress, Choice, Request

\* The last awake writer goes to sleep only on a current counter; a wake-up that is
\* consumed leaves an awake writer behind.
LEMMA StepStrandedWriter ==
  ASSUME Accounting, WaitFresh, NoStrandedWriter, [Next]_vars
  PROVE  NoStrandedWriter'
<1> USE MAXAssumption DEF Accounting, TypeOK, PCs, Locals, WaitFresh, NoStrandedWriter, Blocked, Even, Waker, AwakeWriter
<1>0. CASE UNCHANGED vars
  BY <1>0 DEF vars
<1> SUFFICES ASSUME NEW t \in Threads, Progress(t) \/ Choice(t)
             PROVE  NoStrandedWriter'
  BY <1>0 DEF Next
<1>1. CASE ReadCas(t)
  BY <1>1 DEF ReadCas, ReadLoop, Return, Goto
<1>2. CASE ReadWait(t)
  BY <1>2 DEF ReadWait, Goto
<1>3. CASE ReadReload(t)
  BY <1>3 DEF ReadReload, ReadLoop, Goto
<1>4. CASE TryReadCas(t)
  BY <1>4 DEF TryReadCas, Return, Goto
<1>5. CASE WriteAcquire(t)
  <2>1. CASE lock_val = v[t]
    BY <1>5, <2>1, ReadersCount DEF WriteAcquire, Return
  <2>2. CASE lock_val # v[t]
    BY <1>5, <2>2 DEF WriteAcquire, WriteLoop, Goto
  <2> QED
    BY <2>1, <2>2
<1>6. CASE WriteFlag(t)
  BY <1>6 DEF WriteFlag, WriteLoop, Goto
<1>7. CASE WriteCounter(t)
  BY <1>7 DEF WriteCounter, Goto
<1>8. CASE WriteRecheck(t)
  BY <1>8 DEF WriteRecheck, WriteLoop, Goto
<1>9. CASE WriteWait(t)
  BY <1>9 DEF WriteWait, Goto
<1>10. CASE WriteReload(t)
  BY <1>10 DEF WriteReload, WriteLoop, Goto
<1>11. CASE TryWriteCas(t)
  BY <1>11 DEF TryWriteCas, Return, Goto
<1>12. CASE ReadDrop(t)
  BY <1>12 DEF ReadDrop, Goto
<1>13. CASE ReadDropAdd(t)
  BY <1>13 DEF ReadDropAdd, Goto
<1>14. CASE ReadDropWake(t)
  BY <1>14 DEF ReadDropWake, WakeOneWriter, WriteSleepers, Goto
<1>15. CASE WriteDrop(t)
  BY <1>15 DEF WriteDrop, Goto
<1>16. CASE WriteDropAdd(t)
  BY <1>16 DEF WriteDropAdd, Goto
<1>17. CASE WriteDropWakeOne(t)
  BY <1>17 DEF WriteDropWakeOne, WakeOneWriter, WriteSleepers, Goto
<1>18. CASE WriteDropWakeAll(t)
  BY <1>18 DEF WriteDropWakeAll
<1>19. CASE Read(t)
  BY <1>19 DEF Read, ReadLoop, Goto
<1>20. CASE TryRead(t)
  BY <1>20 DEF TryRead, Goto
<1>21. CASE Write(t)
  BY <1>21 DEF Write, WriteLoop, Goto
<1>22. CASE TryWrite(t)
  BY <1>22 DEF TryWrite, Goto
<1>23. CASE TryUpgrade(t)
  BY <1>23 DEF TryUpgrade, Goto
<1>24. CASE SpuriousWake(t)
  BY <1>24 DEF SpuriousWake, Goto
<1> QED
  BY <1>1, <1>2, <1>3, <1>4, <1>5, <1>6, <1>7, <1>8, <1>9, <1>10, <1>11, <1>12,
     <1>13, <1>14, <1>15, <1>16, <1>17, <1>18, <1>19, <1>20, <1>21, <1>22, <1>23, <1>24
  DEF Progress, Choice, Request

-----------------------------------------------------------------------------
\* The inductive invariant holds in every reachable state.
THEOREM Invariance == Spec => []IInv
<1>1. Init => IInv
  BY InitAccounting DEF IInv
<1>2. IInv /\ [Next]_vars => IInv'
  BY StepAccounting, StepStrandedReader, StepWaitFresh, StepStrandedWriter DEF IInv
<1> QED
  BY <1>1, <1>2, PTL DEF Spec

\* lock_val stays a u32 and every thread is at a known point of the code: no
\* increment overflows and no decrement wraps.
THEOREM TypeCorrect == Spec => []TypeOK
<1>1. IInv => TypeOK
  BY DEF IInv, Accounting
<1> QED
  BY <1>1, Invariance, PTL

\* A write guard excludes every other guard, for any number of threads, through
\* read, write, their try_ forms and try_upgrade.
THEOREM Exclusion == Spec => []MutualExclusion
<1>1. IInv => MutualExclusion
  BY DEF IInv, Accounting
<1> QED
  BY <1>1, Invariance, PTL

\* read() never sleeps through the release that lets it in.
THEOREM ReadersAreWoken == Spec => []NoStrandedReader
<1>1. IInv => NoStrandedReader
  BY DEF IInv
<1> QED
  BY <1>1, Invariance, PTL

\* write() never sleeps while the lock is free and nobody is about to wake it.
THEOREM WritersAreWoken == Spec => []NoStrandedWriter
<1>1. IInv => NoStrandedWriter
  BY DEF IInv
<1> QED
  BY <1>1, Invariance, PTL
=============================================================================
