------------------------------- MODULE RwLock -------------------------------
(***************************************************************************)
(* The upgradable reader-writer lock that guards every page-table entry    *)
(* (src/src/utils/rw_lock.rs) on top of a futex                            *)
(* (src/src/utils/atomic_wait.rs).                                         *)
(*                                                                         *)
(* One step of the model is one atomic operation of the code: a load, a    *)
(* compare-exchange, a fetch_add, a futex call.  The word lock_val holds   *)
(*     2 * readers       no writer is waiting                              *)
(*     2 * readers + 1   a writer is waiting, new readers must block       *)
(*     MAX               write locked (u32::MAX in the code).              *)
(* writer_wake_counter is compared with an earlier load of itself and used *)
(* for nothing else.  The model keeps just that: fresh is the set of       *)
(* threads whose loaded value w still equals the counter.  What is lost is *)
(* the wrap of the counter after 2^32 wake-ups within one futex call.      *)
(***************************************************************************)
EXTENDS Integers, FiniteSets

CONSTANTS
  Threads,   \* the threads that use one lock
  MAX        \* the value of a write-locked lock_val, u32::MAX

ASSUME ThreadsAssumption == IsFiniteSet(Threads)
ASSUME MAXAssumption ==
  MAX \in Nat /\ MAX % 2 = 1 /\ MAX > 2 * Cardinality(Threads) + 1

VARIABLES
  lock_val,  \* RwLock.lock_val
  pc,        \* where each thread is in the lock's code
  v,         \* the local v of read() and s of write()
  fresh      \* the threads whose local w equals writer_wake_counter

vars == <<lock_val, pc, v, fresh>>

Even(n) == n % 2 = 0

PCs == {"idle", "reading", "writing",
        "read_cas", "read_wait", "read_sleep", "read_load", "try_read_cas",
        "write_acquire", "write_flag", "write_counter", "write_recheck",
        "write_wait", "write_sleep", "write_load", "try_write_cas",
        "read_drop_add", "read_drop_wake",
        "write_drop_add", "write_drop_wake_one", "write_drop_wake_all"}

TypeOK ==
  /\ lock_val \in 0 .. MAX
  /\ pc \in [Threads -> PCs]
  /\ v \in [Threads -> 0 .. MAX]
  /\ fresh \subseteq Threads

Init ==
  /\ lock_val = 0
  /\ pc = [t \in Threads |-> "idle"]
  /\ v = [t \in Threads |-> 0]
  /\ fresh = {}

Goto(t, label) == pc' = [pc EXCEPT ![t] = label]

\* The call returns, its locals go out of scope.
Return(t, label) ==
  /\ Goto(t, label)
  /\ v' = [v EXCEPT ![t] = 0]
  /\ fresh' = fresh \ {t}

(***************************************************************************)
(* read().  With an even v the loop tries the compare-exchange, with an    *)
(* odd one it calls the futex.                                             *)
(***************************************************************************)
ReadLoop(t, val) ==
  /\ v' = [v EXCEPT ![t] = val]
  /\ Goto(t, IF Even(val) THEN "read_cas" ELSE "read_wait")

Read(t) ==
  /\ pc[t] = "idle"
  /\ ReadLoop(t, lock_val)
  /\ UNCHANGED <<lock_val, fresh>>

\* A spurious failure of compare_exchange_weak reloads the same value: it
\* stutters here.
ReadCas(t) ==
  /\ pc[t] = "read_cas"
  /\ IF lock_val = v[t]
     THEN /\ lock_val' = v[t] + 2
          /\ Return(t, "reading")
     ELSE /\ ReadLoop(t, lock_val)
          /\ UNCHANGED <<lock_val, fresh>>

\* futex wait(lock_val, v): sleep if the word still has the value v.
ReadWait(t) ==
  /\ pc[t] = "read_wait"
  /\ Goto(t, IF lock_val = v[t] THEN "read_sleep" ELSE "read_load")
  /\ UNCHANGED <<lock_val, v, fresh>>

ReadReload(t) ==
  /\ pc[t] = "read_load"
  /\ ReadLoop(t, lock_val)
  /\ UNCHANGED <<lock_val, fresh>>

TryRead(t) ==
  /\ pc[t] = "idle"
  /\ Even(lock_val)
  /\ v' = [v EXCEPT ![t] = lock_val]
  /\ Goto(t, "try_read_cas")
  /\ UNCHANGED <<lock_val, fresh>>

TryReadCas(t) ==
  /\ pc[t] = "try_read_cas"
  /\ \/ /\ lock_val = v[t]
        /\ lock_val' = v[t] + 2
        /\ Return(t, "reading")
     \/ /\ Return(t, "idle")
        /\ UNCHANGED lock_val

(***************************************************************************)
(* write().  s <= 1: nobody holds the lock, take it.  s even: announce the *)
(* waiting writer by making lock_val odd.  Then sleep on the wake counter, *)
(* unless the lock became free in the meantime.                            *)
(***************************************************************************)
WriteLoop(t, s) ==
  /\ v' = [v EXCEPT ![t] = s]
  /\ Goto(t, IF s <= 1 THEN "write_acquire"
             ELSE IF Even(s) THEN "write_flag" ELSE "write_counter")

Write(t) ==
  /\ pc[t] = "idle"
  /\ WriteLoop(t, lock_val)
  /\ UNCHANGED <<lock_val, fresh>>

WriteAcquire(t) ==
  /\ pc[t] = "write_acquire"
  /\ IF lock_val = v[t]
     THEN /\ lock_val' = MAX
          /\ Return(t, "writing")
     ELSE /\ WriteLoop(t, lock_val)
          /\ UNCHANGED <<lock_val, fresh>>

\* Mutant: the waiting writer is announced with fetch_add.
WriteFlagFetchAdd(t) ==
  /\ pc[t] = "write_flag"
  /\ lock_val' = lock_val + 1
  /\ Goto(t, "write_counter")
  /\ UNCHANGED <<v, fresh>>

WriteFlag(t) ==
  /\ pc[t] = "write_flag"
  /\ IF lock_val = v[t]
     THEN /\ lock_val' = v[t] + 1
          /\ Goto(t, "write_counter")
          /\ UNCHANGED v
     ELSE /\ WriteLoop(t, lock_val)
          /\ UNCHANGED lock_val
  /\ UNCHANGED fresh

WriteCounter(t) ==
  /\ pc[t] = "write_counter"
  /\ fresh' = fresh \cup {t}
  /\ Goto(t, "write_recheck")
  /\ UNCHANGED <<lock_val, v>>

\* Mutant: no second look at lock_val after the counter is loaded.
WriteNoRecheck(t) ==
  /\ pc[t] = "write_recheck"
  /\ Goto(t, "write_wait")
  /\ UNCHANGED <<lock_val, v, fresh>>

WriteRecheck(t) ==
  /\ pc[t] = "write_recheck"
  /\ IF lock_val >= 2 /\ ~Even(lock_val)
     THEN Goto(t, "write_wait") /\ UNCHANGED v
     ELSE WriteLoop(t, lock_val)
  /\ UNCHANGED <<lock_val, fresh>>

\* futex wait(writer_wake_counter, w): sleep if the counter is still w.
WriteWait(t) ==
  /\ pc[t] = "write_wait"
  /\ Goto(t, IF t \in fresh THEN "write_sleep" ELSE "write_load")
  /\ UNCHANGED <<lock_val, v, fresh>>

WriteReload(t) ==
  /\ pc[t] = "write_load"
  /\ WriteLoop(t, lock_val)
  /\ UNCHANGED <<lock_val, fresh>>

TryWrite(t) ==
  /\ pc[t] = "idle"
  /\ lock_val <= 1
  /\ v' = [v EXCEPT ![t] = lock_val]
  /\ Goto(t, "try_write_cas")
  /\ UNCHANGED <<lock_val, fresh>>

TryWriteCas(t) ==
  /\ pc[t] = "try_write_cas"
  /\ \/ /\ lock_val = v[t]
        /\ lock_val' = MAX
        /\ Return(t, "writing")
     \/ /\ Return(t, "idle")
        /\ UNCHANGED lock_val

(***************************************************************************)
(* RwLockReadGuard::try_upgrade: only the sole reader, with no writer      *)
(* waiting, becomes the writer.  On failure the guard is handed back.      *)
(***************************************************************************)
\* Mutant: an upgrade beside other readers.
TryUpgradeAmongReaders(t) ==
  /\ pc[t] = "reading"
  /\ Even(lock_val)
  /\ lock_val' = MAX
  /\ Goto(t, "writing")
  /\ UNCHANGED <<v, fresh>>

TryUpgrade(t) ==
  /\ pc[t] = "reading"
  /\ lock_val = 2
  /\ lock_val' = MAX
  /\ Goto(t, "writing")
  /\ UNCHANGED <<v, fresh>>

(***************************************************************************)
(* Dropping a RwLockReadGuard.                                             *)
(***************************************************************************)
ReadDrop(t) ==
  /\ pc[t] = "reading"
  /\ lock_val' = lock_val - 2
  /\ Goto(t, IF lock_val = 3 THEN "read_drop_add" ELSE "idle")
  /\ UNCHANGED <<v, fresh>>

\* Mutant: the wake-up without the change of the counter.
ReadDropNoAdd(t) ==
  /\ pc[t] = "read_drop_add"
  /\ Goto(t, "read_drop_wake")
  /\ UNCHANGED <<lock_val, v, fresh>>

\* fetch_add on the counter: no earlier load is current any more.
ReadDropAdd(t) ==
  /\ pc[t] = "read_drop_add"
  /\ fresh' = {}
  /\ Goto(t, "read_drop_wake")
  /\ UNCHANGED <<lock_val, v>>

WriteSleepers == {u \in Threads : pc[u] = "write_sleep"}

\* The waker moves on to label; one sleeping writer, if there is one, wakes.
WakeOneWriter(t, label) ==
  \/ /\ WriteSleepers = {}
     /\ Goto(t, label)
  \/ \E u \in WriteSleepers :
       pc' = [pc EXCEPT ![t] = label, ![u] = "write_load"]

ReadDropWake(t) ==
  /\ pc[t] = "read_drop_wake"
  /\ WakeOneWriter(t, "idle")
  /\ UNCHANGED <<lock_val, v, fresh>>

(***************************************************************************)
(* Dropping a RwLockWriteGuard.                                            *)
(***************************************************************************)
WriteDrop(t) ==
  /\ pc[t] = "writing"
  /\ lock_val' = 0
  /\ Goto(t, "write_drop_add")
  /\ UNCHANGED <<v, fresh>>

WriteDropAdd(t) ==
  /\ pc[t] = "write_drop_add"
  /\ fresh' = {}
  /\ Goto(t, "write_drop_wake_one")
  /\ UNCHANGED <<lock_val, v>>

WriteDropWakeOne(t) ==
  /\ pc[t] = "write_drop_wake_one"
  /\ WakeOneWriter(t, "write_drop_wake_all")
  /\ UNCHANGED <<lock_val, v, fresh>>

\* Mutant: readers are not woken.
WriteDropNoWakeAll(t) ==
  /\ pc[t] = "write_drop_wake_all"
  /\ Goto(t, "idle")
  /\ UNCHANGED <<lock_val, v, fresh>>

WriteDropWakeAll(t) ==
  /\ pc[t] = "write_drop_wake_all"
  /\ pc' = [u \in Threads |-> IF u = t THEN "idle"
                              ELSE IF pc[u] = "read_sleep" THEN "read_load"
                              ELSE pc[u]]
  /\ UNCHANGED <<lock_val, v, fresh>>

\* A futex wait may return without a wake-up (and always does on macOS).
SpuriousWake(t) ==
  /\ \/ pc[t] = "read_sleep" /\ Goto(t, "read_load")
     \/ pc[t] = "write_sleep" /\ Goto(t, "write_load")
  /\ UNCHANGED <<lock_val, v, fresh>>

-----------------------------------------------------------------------------
\* The steps a thread inside the lock's code takes once it is scheduled.
Progress(t) ==
  \/ ReadCas(t) \/ ReadWait(t) \/ ReadReload(t) \/ TryReadCas(t)
  \/ WriteAcquire(t) \/ WriteFlag(t) \/ WriteCounter(t) \/ WriteRecheck(t)
  \/ WriteWait(t) \/ WriteReload(t) \/ TryWriteCas(t)
  \/ ReadDrop(t) \/ ReadDropAdd(t) \/ ReadDropWake(t)
  \/ WriteDrop(t) \/ WriteDropAdd(t) \/ WriteDropWakeOne(t) \/ WriteDropWakeAll(t)

Request(t) == Read(t) \/ TryRead(t) \/ Write(t) \/ TryWrite(t)

\* Steps a thread may but need not take.
Choice(t) ==
  \/ Request(t) \/ TryUpgrade(t) \/ SpuriousWake(t)

Next == \E t \in Threads : Progress(t) \/ Choice(t)

Spec == Init /\ [][Next]_vars

\* The scheduler runs every thread that can run, and a guard is dropped at the
\* end of the scope that holds it.  No thread has to ask for the lock, and no
\* spurious wake-up is ever owed.
FairSpec == Spec /\ \A t \in Threads : WF_vars(Progress(t))

-----------------------------------------------------------------------------
Readers == {t \in Threads : pc[t] = "reading"}
Writers == {t \in Threads : pc[t] = "writing"}
Reading(t) == pc[t] \in {"read_cas", "read_wait", "read_sleep", "read_load"}
AwakeWriter(t) == pc[t] \in {"write_acquire", "write_flag", "write_counter",
                            "write_recheck", "write_wait", "write_load"}
Waker(t) == pc[t] \in {"read_drop_add", "read_drop_wake",
                      "write_drop_add", "write_drop_wake_one"}
\* A value on which a writer may sleep: held, and a wake-up will follow.
Blocked(n) == n >= 2 /\ ~Even(n)

\* A write guard excludes every other guard, and lock_val tells who holds the
\* lock: MAX for a writer, twice the number of read guards otherwise.  This is
\* what makes `&mut` access through RwLockWriteGuard sound.
MutualExclusion ==
  /\ \A t, u \in Writers : t = u
  /\ Writers # {} => lock_val = MAX /\ Readers = {}
  /\ Writers = {} => lock_val \in {2 * Cardinality(Readers), 2 * Cardinality(Readers) + 1}

\* No reader is left behind: while read() sleeps on a lock_val that admits
\* readers again, a dropped write guard still owes its wake_all.
NoStrandedReader ==
  (\E t \in Threads : pc[t] = "read_sleep") /\ Even(lock_val)
    => \E u \in Threads : pc[u] \in {"write_drop_add", "write_drop_wake_one",
                                     "write_drop_wake_all"}

\* No writer is left behind: while write() sleeps and lock_val does not promise a
\* wake-up on release, either a wake-up is under way or another writer is awake,
\* whose own release will pass the wake-up on.
NoStrandedWriter ==
  (\E t \in Threads : pc[t] = "write_sleep") /\ ~Blocked(lock_val)
    => \E u \in Threads : Waker(u) \/ AwakeWriter(u)

\* When requests stop arriving, every call of read() and write() that is under
\* way returns with its guard.
EveryCallReturns ==
  (<>[][\A t \in Threads : ~Request(t)]_vars)
    => \A t \in Threads :
         /\ Reading(t) ~> t \in Readers
         /\ (AwakeWriter(t) \/ pc[t] = "write_sleep") ~> t \in Writers
=============================================================================
