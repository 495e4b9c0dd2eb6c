----------------------------- MODULE CprSnapshot -----------------------------
(***************************************************************************)
(* Concurrent prefix recovery: CPRSnapShotMgr (src/src/snapshot.rs) and    *)
(* the transactions that run under its guards.                             *)
(*                                                                         *)
(* A transaction is one call of insert, split or merge that changes pages. *)
(* It X-locks its leaf pages and reads the versions of its inner nodes,    *)
(* reserves a thread slot (the snapshot guard), upgrades the inner nodes,  *)
(* applies the CPR rule of its phase to every page, changes the pages, and *)
(* releases first the slot and then the leaves.  A failed one starts       *)
(* again.  A page stands for a leaf (its mini page and its base page       *)
(* together) or an inner node, and its content is the set of the changes   *)
(* made to it: the transaction and the version it ran at.                  *)
(*                                                                         *)
(* One manager takes one snapshot after the other.  It reads the slots one *)
(* at a time and sleeps on phase_waiter.  Atomics are sequentially         *)
(* consistent: the code has SeqCst fences where the argument needs them.   *)
(***************************************************************************)
EXTENDS Integers

CONSTANTS
  NSlots,       \* DEFAULT_MAX_SNAPSHOT_THREAD_NUM
  Txns,         \* transactions; each one commits once
  Inner,        \* inner nodes
  Leaves,       \* leaf pages
  InitialPages, \* the pages that exist at the start
  WriteSets,    \* per transaction, the sets of pages it may find it has to change
  MaxVersion    \* bound: no snapshot starts at this version

Slots == 1 .. NSlots
Pages == Inner \cup Leaves
NoPage == -1    \* the version of a page that does not exist yet

ASSUME SlotsAssumption == NSlots \in Nat \ {0}
ASSUME PagesAssumption ==
  /\ Inner \cap Leaves = {} /\ InitialPages \subseteq Pages
  /\ \A t \in Txns : \A W \in WriteSets[t] : W \subseteq Pages /\ W # {}

VARIABLES
  global, pause, in_progress,  \* global_state, pause_snapshot, snapshot_in_progress
  occupied, local,             \* thread_slots, thread_local_states
  mappings,                    \* the images each slot's owner has taken
  pc, wset, slot, guard,       \* per transaction: place, pages, slot, CPR state,
  valid,                       \* and no inner node changed since it was read
  content, pver,               \* per page: the changes in it, snapshot_version
  mpc, cursor, fresh,          \* manager: place, slot it reads next, and whether
                               \* phase_waiter still has the value it loaded
  todo, swept,                 \* pages still to be swept, images the sweep took
  snaps                        \* the finished snapshots: version to images

vars == <<global, pause, in_progress, occupied, local, mappings, pc, wset, slot,
          guard, valid, content, pver, mpc, cursor, fresh, todo, swept, snaps>>
pageVars == <<content, pver>>
mgrVars == <<mpc, cursor, todo, swept, snaps>>

State(p, v) == [phase |-> p, version |-> v]
Invalid == State("Invalid", 0)
Phases == {"Rest", "Prepare", "InProgress", "Sweep"}
AnyState == [phase : Phases, version : Nat] \cup {Invalid}
Image == Pages \X SUBSET (Txns \X Nat)

advance_global_state(s) ==
  CASE s.phase = "Rest" -> State("Prepare", s.version)
    [] s.phase = "Prepare" -> State("InProgress", s.version + 1)
    [] s.phase = "InProgress" -> State("Sweep", s.version)
    [] OTHER -> State("Rest", s.version)   \* from SWEEP; nothing advances Invalid

Exists(p) == pver[p] # NoPage
Latched(p) == p \in Leaves /\ \E t \in Txns : pc[t] \notin {"idle", "done"} /\ p \in wset[t]
Committed(t) == \E p \in Pages : \E c \in content[p] : c[1] = t
Goto(t, label) == pc' = [pc EXCEPT ![t] = label]

Init ==
  /\ global = State("Rest", 0) /\ pause = FALSE /\ in_progress = FALSE
  /\ occupied = [s \in Slots |-> FALSE] /\ local = [s \in Slots |-> Invalid]
  /\ mappings = [s \in Slots |-> {}]
  /\ pc = [t \in Txns |-> "idle"] /\ wset = [t \in Txns |-> {}]
  /\ slot = [t \in Txns |-> 1] /\ guard = [t \in Txns |-> Invalid]
  /\ valid = [t \in Txns |-> TRUE]
  /\ content = [p \in Pages |-> {}]
  /\ pver = [p \in Pages |-> IF p \in InitialPages THEN 0 ELSE NoPage]
  /\ mpc = "idle" /\ cursor = 1 /\ fresh = FALSE
  /\ todo = {} /\ swept = {} /\ snaps = [v \in {} |-> {}]

(***************************************************************************)
(* A transaction.                                                          *)
(***************************************************************************)
Latch(t) ==
  /\ pc[t] = "idle"
  /\ \E W \in WriteSets[t] :
       /\ \A p \in W : ~Latched(p)
       /\ wset' = [wset EXCEPT ![t] = W]
  /\ Goto(t, "enter")
  /\ UNCHANGED <<global, pause, in_progress, occupied, local, mappings, slot, guard, valid,
                 pageVars, fresh, mgrVars>>

\* reserve_thread_slot refuses: a pause, or no vacant slot.
Refused(t) ==
  /\ \/ pc[t] = "enter" /\ pause
     \/ pc[t] = "reserve" /\ \A s \in Slots : occupied[s]
  /\ Goto(t, "idle")
  /\ wset' = [wset EXCEPT ![t] = {}]
  /\ valid' = [valid EXCEPT ![t] = TRUE]
  /\ UNCHANGED <<global, pause, in_progress, occupied, local, mappings, slot, guard,
                 pageVars, fresh, mgrVars>>

Enter(t) ==
  /\ pc[t] = "enter" /\ ~pause
  /\ Goto(t, "reserve")
  /\ UNCHANGED <<global, pause, in_progress, occupied, local, mappings, wset, slot, guard, valid,
                 pageVars, fresh, mgrVars>>

\* Mutant: the slot is taken without a look at who has it.
ReserveAny(t) ==
  /\ pc[t] = "reserve"
  /\ \E s \in Slots :
       /\ occupied' = [occupied EXCEPT ![s] = TRUE]
       /\ slot' = [slot EXCEPT ![t] = s]
  /\ Goto(t, "load")
  /\ UNCHANGED <<global, pause, in_progress, local, mappings, wset, guard, valid,
                 pageVars, fresh, mgrVars>>

\* The search starts at a random slot.
Reserve(t) ==
  /\ pc[t] = "reserve"
  /\ \E s \in Slots :
       /\ ~occupied[s]
       /\ occupied' = [occupied EXCEPT ![s] = TRUE]
       /\ slot' = [slot EXCEPT ![t] = s]
  /\ Goto(t, "load")
  /\ UNCHANGED <<global, pause, in_progress, local, mappings, wset, guard, valid,
                 pageVars, fresh, mgrVars>>

LoadGlobal(t) ==
  /\ pc[t] = "load"
  /\ guard' = [guard EXCEPT ![t] = global]
  /\ Goto(t, "store")
  /\ UNCHANGED <<global, pause, in_progress, occupied, local, mappings, wset, slot, valid,
                 pageVars, fresh, mgrVars>>

set_local_state(t) ==
  /\ pc[t] = "store"
  /\ local' = [local EXCEPT ![slot[t]] = guard[t]]
  /\ Goto(t, "recheck")
  /\ UNCHANGED <<global, pause, in_progress, occupied, mappings, wset, slot, guard, valid,
                 pageVars, fresh, mgrVars>>

\* Mutant: the state loaded before the store is taken as it is.
RecheckNothing(t) ==
  /\ pc[t] = "recheck"
  /\ Goto(t, "recheckpause")
  /\ UNCHANGED <<global, pause, in_progress, occupied, local, mappings, wset, slot, guard, valid,
                 pageVars, fresh, mgrVars>>

RecheckGlobal(t) ==
  /\ pc[t] = "recheck"
  /\ Goto(t, IF global = guard[t] THEN "recheckpause" ELSE "clear")
  /\ UNCHANGED <<global, pause, in_progress, occupied, local, mappings, wset, slot, guard, valid,
                 pageVars, fresh, mgrVars>>

\* Mutant: no second look at pause_snapshot.
RecheckNoPause(t) ==
  /\ pc[t] = "recheckpause"
  /\ Goto(t, "write")
  /\ UNCHANGED <<global, pause, in_progress, occupied, local, mappings, wset, slot, guard, valid,
                 pageVars, fresh, mgrVars>>

RecheckPause(t) ==
  /\ pc[t] = "recheckpause"
  /\ Goto(t, IF pause THEN "clear" ELSE "write")
  /\ UNCHANGED <<global, pause, in_progress, occupied, local, mappings, wset, slot, guard, valid,
                 pageVars, fresh, mgrVars>>

\* A (PREPARE, v) transaction that meets a page of version v + 1 starts again, and
\* so does one whose inner nodes cannot be upgraded any more.
Conflict(t) == guard[t].phase = "Prepare" /\ \E p \in wset[t] : pver[p] > guard[t].version
NeedRestart(t) ==
  /\ pc[t] = "write"
  /\ ~valid[t] \/ Conflict(t)
  /\ Goto(t, "clear")
  /\ UNCHANGED <<global, pause, in_progress, occupied, local, mappings, wset, slot, guard,
                 valid, pageVars, fresh, mgrVars>>

\* The pages of an older version that the CPR rule brings to the guard's version,
\* and among them the ones whose image goes into the snapshot first.
Raised(t) == {p \in wset[t] : pver[p] < guard[t].version /\ (guard[t].phase = "Prepare" => ~Exists(p))}
\* Mutant: no image in the SWEEP phase, which the sweep is thought to take.
ImagedInProgress(t) == {p \in Raised(t) : Exists(p) /\ guard[t].phase = "InProgress"}

Imaged(t) == {p \in Raised(t) : Exists(p) /\ guard[t].phase \in {"InProgress", "Sweep"}}

\* Mutant: the upgrade of an inner node does not compare versions.
CprRuleBlind(t, W) ==
  /\ mappings' = [mappings EXCEPT ![slot[t]] = @ \cup {<<p, content[p]>> : p \in Imaged(t) \cap W}]
  /\ pver' = [p \in Pages |-> IF p \in Raised(t) \cap W THEN guard[t].version ELSE pver[p]]
  /\ UNCHANGED valid

\* The CPR rule for the pages in W, and what it does to optimistic readers.
CprRule(t, W) ==
  /\ mappings' = [mappings EXCEPT ![slot[t]] = @ \cup {<<p, content[p]>> : p \in Imaged(t) \cap W}]
  /\ pver' = [p \in Pages |-> IF p \in Raised(t) \cap W THEN guard[t].version ELSE pver[p]]
  /\ valid' = [u \in Txns |-> valid[u] /\ (u = t \/ wset[u] \cap wset[t] \cap Inner = {})]

Write(t) ==
  /\ pc[t] = "write" /\ valid[t] /\ ~Conflict(t)
  /\ CprRule(t, Pages)
  /\ content' = [p \in Pages |-> IF p \in wset[t] THEN content[p] \cup {<<t, guard[t].version>>} ELSE content[p]]
  /\ Goto(t, "clear")
  /\ UNCHANGED <<global, pause, in_progress, occupied, local, wset, slot, guard, fresh, mgrVars>>

\* No room in the parent or in the circular buffer: the pages that exist already
\* have their new version, and nothing else is changed.
GiveUp(t) ==
  /\ pc[t] = "write" /\ valid[t] /\ ~Conflict(t)
  /\ CprRule(t, {p \in Pages : Exists(p)})
  /\ Goto(t, "clear")
  /\ UNCHANGED <<global, pause, in_progress, occupied, local, wset, slot, guard, content,
                 fresh, mgrVars>>

\* release_thread_slot; a reservation that fails its recheck undoes itself alike.
\* From here on only the leaves matter: they are latched until the call ends.
ClearLocal(t) ==
  /\ pc[t] = "clear"
  /\ local' = [local EXCEPT ![slot[t]] = Invalid]
  /\ guard' = [guard EXCEPT ![t] = Invalid]
  /\ wset' = [wset EXCEPT ![t] = @ \cap Leaves]
  /\ valid' = [valid EXCEPT ![t] = TRUE]
  /\ Goto(t, "vacate")
  /\ UNCHANGED <<global, pause, in_progress, occupied, mappings, slot, pageVars, fresh, mgrVars>>

Vacate(t) ==
  /\ pc[t] = "vacate"
  /\ occupied' = [occupied EXCEPT ![slot[t]] = FALSE]
  /\ slot' = [slot EXCEPT ![t] = 1]
  /\ Goto(t, "signal")
  /\ UNCHANGED <<global, pause, in_progress, local, mappings, wset, guard, valid,
                 pageVars, fresh, mgrVars>>

\* Mutant: the wake without the change of phase_waiter.
SignalNothing(t) ==
  /\ pc[t] = "signal"
  /\ Goto(t, "wake")
  /\ UNCHANGED <<global, pause, in_progress, occupied, local, mappings, wset, slot, guard, valid,
                 pageVars, fresh, mgrVars>>

Signal(t) ==
  /\ pc[t] = "signal"
  /\ fresh' = FALSE
  /\ Goto(t, "wake")
  /\ UNCHANGED <<global, pause, in_progress, occupied, local, mappings, wset, slot, guard, valid,
                 pageVars, mgrVars>>

WakeManager == mpc' = IF mpc = "asleep" THEN "scan1" ELSE mpc

\* wake_all; then the latches are released and the call returns or starts again.
Wake(t) ==
  /\ pc[t] = "wake"
  /\ WakeManager
  /\ Goto(t, IF Committed(t) THEN "done" ELSE "idle")
  /\ wset' = [wset EXCEPT ![t] = {}]
  /\ UNCHANGED <<global, pause, in_progress, occupied, local, mappings, slot, guard, valid,
                 pageVars, cursor, fresh, todo, swept, snaps>>

(***************************************************************************)
(* The manager: snapshot(), with its two loops that read all the slots and *)
(* wait_for_phase_completion / wait_for_all_slots_released.                *)
(***************************************************************************)
txns == <<occupied, local, pc, wset, slot, guard, valid, content, pver>>

\* The compare-exchange of snapshot_in_progress.
Snapshot ==
  /\ mpc = "idle" /\ ~in_progress /\ global.version < MaxVersion
  /\ in_progress' = TRUE
  /\ mpc' = "open"
  /\ UNCHANGED <<global, pause, mappings, txns, cursor, fresh, todo, swept, snaps>>

\* A new snapshot file; then the move to PREPARE.
Open ==
  /\ mpc = "open"
  /\ global' = advance_global_state(global)
  /\ mpc' = "scan0" /\ cursor' = 1
  /\ UNCHANGED <<pause, in_progress, mappings, txns, fresh, todo, swept, snaps>>

\* check_if_phase_completed is called at three places: at the head of the loop
\* (scan0), and twice in the wait that follows when it fails (scan1, scan2).
target_state == IF pause THEN Invalid ELSE global
Scans == {"scan0", "scan1", "scan2"}
AfterPass == IF mpc = "scan0" THEN "act" ELSE "scan0"
AfterFail == CASE mpc = "scan0" -> "scan1" [] mpc = "scan1" -> "load" [] OTHER -> "wait"

\* Mutant: one slot too many.
ScanPastEnd ==
  /\ mpc \in Scans
  /\ IF local[cursor] \notin {Invalid, target_state}
     THEN mpc' = AfterFail /\ cursor' = 1
     ELSE IF cursor > NSlots
     THEN mpc' = AfterPass /\ cursor' = 1
     ELSE cursor' = cursor + 1 /\ UNCHANGED mpc
  /\ fresh' = (fresh /\ mpc' # "scan0")
  /\ UNCHANGED <<global, pause, in_progress, mappings, txns, todo, swept, snaps>>

check_if_phase_completed ==
  /\ mpc \in Scans
  /\ IF local[cursor] \notin {Invalid, target_state}
     THEN mpc' = AfterFail /\ cursor' = 1
     ELSE IF cursor = NSlots
     THEN mpc' = AfterPass /\ cursor' = 1
     ELSE cursor' = cursor + 1 /\ UNCHANGED mpc
  /\ fresh' = (fresh /\ mpc' # "scan0")
  /\ UNCHANGED <<global, pause, in_progress, mappings, txns, todo, swept, snaps>>

LoadWaiter ==
  /\ mpc = "load"
  /\ fresh' = TRUE
  /\ mpc' = "scan2"
  /\ UNCHANGED <<global, pause, in_progress, mappings, txns, cursor, todo, swept, snaps>>

\* The futex sleeps only if phase_waiter still has the value loaded.
Wait ==
  /\ mpc = "wait"
  /\ mpc' = IF fresh THEN "asleep" ELSE "scan1"
  /\ fresh' = FALSE
  /\ UNCHANGED <<global, pause, in_progress, mappings, txns, cursor, todo, swept, snaps>>

SpuriousWake ==
  /\ mpc = "asleep"
  /\ WakeManager
  /\ UNCHANGED <<global, pause, in_progress, mappings, txns, cursor, fresh, todo, swept, snaps>>

\* PREPARE or IN_PROGRESS is complete: the next phase, and wait for it.
Advance ==
  /\ mpc = "act" /\ global.phase \in {"Prepare", "InProgress"}
  /\ global' = advance_global_state(global)
  /\ mpc' = "scan1"
  /\ UNCHANGED <<pause, in_progress, mappings, txns, cursor, fresh, todo, swept, snaps>>

\* SWEEP is complete: sweep() first waits until no slot is taken.
Pause ==
  /\ mpc = "act" /\ global.phase = "Sweep" /\ ~pause
  /\ pause' = TRUE
  /\ mpc' = "scan0"
  /\ UNCHANGED <<global, in_progress, mappings, txns, cursor, fresh, todo, swept, snaps>>

Drained ==
  /\ mpc = "act" /\ pause
  /\ todo' = {p \in Inner : Exists(p)}
  /\ mpc' = "inner"
  /\ UNCHANGED <<global, pause, in_progress, mappings, txns, cursor, fresh, swept, snaps>>

\* The image of one page, taken under its read lock.
SweepPage(p) ==
  /\ p \in todo /\ ~Latched(p)
  /\ todo' = todo \ {p}
  /\ swept' = IF pver[p] < global.version THEN swept \cup {<<p, content[p]>>} ELSE swept
  /\ UNCHANGED <<global, pause, in_progress, mappings, txns, mpc, cursor, fresh, snaps>>

SweepInner(p) == mpc = "inner" /\ SweepPage(p)

Resume ==
  /\ mpc = "inner" /\ todo = {}
  /\ pause' = FALSE
  /\ mpc' = "iter"
  /\ UNCHANGED <<global, in_progress, mappings, txns, cursor, fresh, todo, swept, snaps>>

\* The iterator stops at the page table's size of now.
PageTableIter ==
  /\ mpc = "iter"
  /\ todo' = {p \in Leaves : Exists(p)}
  /\ mpc' = "leaves"
  /\ UNCHANGED <<global, pause, in_progress, mappings, txns, cursor, fresh, swept, snaps>>

SweepLeaf(p) == mpc = "leaves" /\ SweepPage(p)

EndSweep ==
  /\ mpc = "leaves" /\ todo = {}
  /\ global' = advance_global_state(global)
  /\ mpc' = "scan1"
  /\ UNCHANGED <<pause, in_progress, mappings, txns, cursor, fresh, todo, swept, snaps>>

\* REST is complete: the images of the slots win over those of the sweep.
UserImages == UNION {mappings[s] : s \in Slots}
Merged == UserImages \cup {im \in swept : \A u \in UserImages : u[1] # im[1]}

finalize ==
  /\ mpc = "act" /\ global.phase = "Rest"
  /\ snaps' = [v \in DOMAIN snaps \cup {global.version - 1} |->
                 IF v = global.version - 1 THEN Merged ELSE snaps[v]]
  /\ mappings' = [s \in Slots |-> {}] /\ swept' = {}
  /\ mpc' = "finish"
  /\ UNCHANGED <<global, pause, in_progress, txns, cursor, fresh, todo>>

Finish ==
  /\ mpc = "finish"
  /\ in_progress' = FALSE
  /\ mpc' = "idle"
  /\ UNCHANGED <<global, pause, mappings, txns, cursor, fresh, todo, swept, snaps>>

-----------------------------------------------------------------------------
TxnStep(t) ==
  \/ Refused(t) \/ Enter(t) \/ Reserve(t) \/ LoadGlobal(t) \/ set_local_state(t)
  \/ RecheckGlobal(t) \/ RecheckPause(t) \/ NeedRestart(t) \/ Write(t)
  \/ ClearLocal(t) \/ Vacate(t) \/ Signal(t) \/ Wake(t)

ManagerStep ==
  \/ Open \/ check_if_phase_completed \/ LoadWaiter \/ Wait \/ Advance \/ Pause \/ Drained
  \/ Resume \/ PageTableIter \/ EndSweep \/ finalize \/ Finish

Sweeping == \E p \in Pages : SweepInner(p) \/ SweepLeaf(p)

\* Every transaction has committed and the last snapshot is taken.
Done ==
  /\ \A t \in Txns : pc[t] = "done"
  /\ mpc = "idle" /\ global.version = MaxVersion
  /\ UNCHANGED vars

Next ==
  \/ \E t \in Txns : Latch(t) \/ TxnStep(t) \/ GiveUp(t)
  \/ Snapshot \/ ManagerStep \/ Sweeping \/ SpuriousWake
  \/ Done

Spec == Init /\ [][Next]_vars

\* A thread that has begun a call goes on, and so does the manager; a read lock on
\* a leaf that is free again and again is taken in the end.
FairSpec ==
  /\ Spec
  /\ \A t \in Txns : WF_vars(TxnStep(t))
  /\ WF_vars(ManagerStep)
  /\ SF_vars(Sweeping)

-----------------------------------------------------------------------------
TypeOK ==
  /\ global \in [phase : Phases, version : Nat] /\ pause \in BOOLEAN /\ in_progress \in BOOLEAN
  /\ occupied \in [Slots -> BOOLEAN] /\ local \in [Slots -> AnyState]
  /\ mappings \in [Slots -> SUBSET Image]
  /\ pc \in [Txns -> {"idle", "enter", "reserve", "load", "store", "recheck", "recheckpause",
                     "write", "clear", "vacate", "signal", "wake", "done"}]
  /\ wset \in [Txns -> SUBSET Pages] /\ slot \in [Txns -> Slots]
  /\ guard \in [Txns -> AnyState] /\ valid \in [Txns -> BOOLEAN]
  /\ content \in [Pages -> SUBSET (Txns \X Nat)] /\ pver \in [Pages -> Nat \cup {NoPage}]
  /\ mpc \in {"idle", "open", "scan0", "scan1", "load", "scan2", "wait", "asleep", "act",
              "inner", "iter", "leaves", "finish"}
  /\ cursor \in Slots /\ fresh \in BOOLEAN
  /\ todo \subseteq Pages /\ swept \subseteq Image
  /\ \A v \in DOMAIN snaps : snaps[v] \subseteq Image

\* A finished snapshot of version v is the prefix of the history that ran at
\* versions up to v: of every page, exactly one image, with the changes of those
\* transactions and no others, and no image of a page they did not create.
Prefix(p, v) == {c \in content[p] : c[2] <= v}
SnapshotConsistent ==
  \A v \in DOMAIN snaps :
    snaps[v] = {<<p, Prefix(p, v)>> : p \in {q \in Pages : q \in InitialPages \/ Prefix(q, v) # {}}}

\* A thread slot, and with it its list of images, has one owner from the
\* compare-exchange of reserve_thread_slot to the store of release_thread_slot.
Owns(t) == pc[t] \in {"load", "store", "recheck", "recheckpause", "write", "clear", "vacate"}
SlotExclusive == \A t, u \in Txns : Owns(t) /\ Owns(u) /\ slot[t] = slot[u] => t = u

\* When check_if_phase_completed has answered TRUE, every guard is in the state the
\* manager asked for, although it read the slots one by one and reservations went
\* on: no worker commits to phase x once all threads are taken to be in x + 1.
PhaseBarrier == mpc = "act" => \A t \in Txns : pc[t] = "write" => guard[t] = target_state

\* No transaction changes the tree while sweep() walks the inner nodes.
SweepFrozen == mpc = "inner" => \A t \in Txns : pc[t] # "write"

\* No transaction ever meets a page of a version above its own: the pages are
\* locked or read before the guard is taken, so NeedRestart on a version conflict
\* is never the answer.
NoConflict == \A t \in Txns : pc[t] = "write" /\ valid[t] => \A p \in wset[t] : pver[p] <= guard[t].version

\* A snapshot that has begun comes to its end: no phase waits for ever, no wake-up
\* of wait_for_phase_completion or wait_for_all_slots_released is lost.
SnapshotCompletes == in_progress ~> ~in_progress
=============================================================================
