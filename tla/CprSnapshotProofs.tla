-------------------------- MODULE CprSnapshotProofs --------------------------
(***************************************************************************)
(* Proofs about CprSnapshot, for any number of slots, transactions, pages  *)
(* and snapshots: types, the ownership of slots, the two barriers the      *)
(* manager relies on, and that a finished snapshot is consistent.          *)
(***************************************************************************)
EXTENDS CprSnapshot, TLAPS

\* A transaction that owns a slot has marked it.
Owned == \A t \in Txns : Owns(t) => occupied[slot[t]]

\* Between its store and its release a reservation's state is there to be read.
Published ==
  \A t \in Txns : pc[t] \in {"recheck", "recheckpause", "write", "clear"} =>
    local[slot[t]] = guard[t]

\* The state it has loaded is a real one.
GuardReal ==
  \A t \in Txns : pc[t] \in {"store", "recheck", "recheckpause", "write", "clear"} =>
    guard[t] \in [phase : Phases, version : Nat]

\* The slots the manager has read in the scan under way, or in the one it acts on.
Seen(s) == mpc \in {"act", "inner"} \/ (mpc \in Scans /\ s < cursor)

\* Of a slot that has been read, a guard is in the state asked for, and a
\* reservation that has passed its look at global_state passed it with the state of
\* now.  Only its look at pause_snapshot is still to come.
SeenGuards ==
  \A t \in Txns : Seen(slot[t]) =>
    /\ pc[t] = "write" => guard[t] = target_state
    /\ pc[t] = "recheckpause" => guard[t] = global

\* Scans start at the first slot, and the inner nodes are swept under the pause.
ManagerState == (mpc \notin Scans => cursor = 1) /\ (mpc = "inner" => pause)

IInv ==
  /\ TypeOK /\ SlotExclusive /\ Owned /\ Published /\ GuardReal /\ SeenGuards /\ ManagerState

-----------------------------------------------------------------------------
\* At the start no slot is taken and the manager is idle.
LEMMA InitIInv == Init => IInv
<1> SUFFICES ASSUME Init PROVE IInv
  BY Zenon
<1> USE DEF Init
<1>1. TypeOK
  <2>1. global \in [phase : Phases, version : Nat] /\ Invalid \in AnyState
    BY Zenon DEF State, Invalid, Phases, AnyState
  <2>2. 1 \in Slots
    BY SlotsAssumption DEF Slots
  <2>3. mappings \in [Slots -> SUBSET Image] /\ swept \subseteq Image /\ todo \subseteq Pages
    BY Zenon
  <2>4. content \in [Pages -> SUBSET (Txns \X Nat)] /\ pver \in [Pages -> Nat \cup {NoPage}]
    BY Zenon
  <2>5. \A v \in DOMAIN snaps : snaps[v] \subseteq Image
    BY Zenon
  <2> QED
    BY <2>1, <2>2, <2>3, <2>4, <2>5, Zenon DEF TypeOK
<1>2. SlotExclusive /\ Owned /\ Published /\ GuardReal
  BY Zenon DEF SlotExclusive, Owned, Published, GuardReal, Owns
<1>3. SeenGuards /\ ManagerState
  BY Zenon DEF SeenGuards, ManagerState, Scans, Seen
<1> QED
  BY <1>1, <1>2, <1>3, Zenon DEF IInv

\* Types are kept.  GuardReal is needed where a guard's version goes into a page.
LEMMA StepTypeOK == ASSUME TypeOK, GuardReal, Next PROVE TypeOK'
<1> USE SlotsAssumption, PagesAssumption DEF TypeOK, Slots, Phases, AnyState, Image, Goto,
    pageVars, mgrVars, txns
<1>1. ASSUME NEW t \in Txns, Latch(t) PROVE TypeOK'
  BY <1>1 DEF Latch
<1>2. ASSUME NEW t \in Txns, Refused(t) PROVE TypeOK'
  BY <1>2, Zenon DEF Refused
<1>3. ASSUME NEW t \in Txns, Enter(t) PROVE TypeOK'
  BY <1>3, Zenon DEF Enter
<1>4. ASSUME NEW t \in Txns, Reserve(t) PROVE TypeOK'
  BY <1>4 DEF Reserve
<1>5. ASSUME NEW t \in Txns, LoadGlobal(t) PROVE TypeOK'
  BY <1>5, Zenon DEF LoadGlobal
<1>6. ASSUME NEW t \in Txns, set_local_state(t) PROVE TypeOK'
  BY <1>6, Zenon DEF set_local_state
<1>7. ASSUME NEW t \in Txns, RecheckGlobal(t) PROVE TypeOK'
  BY <1>7, Zenon DEF RecheckGlobal
<1>8. ASSUME NEW t \in Txns, RecheckPause(t) PROVE TypeOK'
  BY <1>8, Zenon DEF RecheckPause
<1>9. ASSUME NEW t \in Txns, NeedRestart(t) PROVE TypeOK'
  BY <1>9, Zenon DEF NeedRestart
<1>10. ASSUME NEW t \in Txns, Write(t) PROVE TypeOK'
  BY <1>10 DEF Write, CprRule, Raised, Imaged, GuardReal, NoPage, Exists, Pages
<1>11. ASSUME NEW t \in Txns, GiveUp(t) PROVE TypeOK'
  BY <1>11 DEF GiveUp, CprRule, Raised, Imaged, GuardReal, NoPage, Exists, Pages
<1>12. ASSUME NEW t \in Txns, ClearLocal(t) PROVE TypeOK'
  BY <1>12, Zenon DEF ClearLocal, Invalid
<1>13. ASSUME NEW t \in Txns, Vacate(t) PROVE TypeOK'
  BY <1>13 DEF Vacate
<1>14. ASSUME NEW t \in Txns, Signal(t) PROVE TypeOK'
  BY <1>14, Zenon DEF Signal
<1>15. ASSUME NEW t \in Txns, Wake(t) PROVE TypeOK'
  BY <1>15 DEF Wake, Invalid, WakeManager
<1>16. CASE Snapshot
  BY <1>16, Zenon DEF Snapshot
<1>17. CASE Open
  BY <1>17 DEF Open, advance_global_state, State
<1>18. CASE check_if_phase_completed
  BY <1>18 DEF check_if_phase_completed, Scans, AfterPass, AfterFail
<1>19. CASE LoadWaiter
  BY <1>19, Zenon DEF LoadWaiter
<1>20. CASE Wait
  BY <1>20, Zenon DEF Wait
<1>21. CASE SpuriousWake
  BY <1>21, Zenon DEF SpuriousWake, WakeManager
<1>22. CASE Advance
  BY <1>22 DEF Advance, advance_global_state, State
<1>23. CASE Pause
  BY <1>23, Zenon DEF Pause
<1>24. CASE Drained
  BY <1>24, Zenon DEF Drained, Pages
<1>25. CASE Resume
  BY <1>25, Zenon DEF Resume
<1>26. CASE PageTableIter
  BY <1>26, Zenon DEF PageTableIter, Pages
<1>27. CASE EndSweep
  BY <1>27 DEF EndSweep, advance_global_state, State
<1>28. CASE finalize
  BY <1>28 DEF finalize, UserImages, Merged
<1>29. CASE Finish
  BY <1>29, Zenon DEF Finish
<1>30. ASSUME NEW p \in Pages, SweepPage(p) PROVE TypeOK'
  BY <1>30 DEF SweepPage
<1>31. CASE UNCHANGED vars
  BY <1>31, Zenon DEF vars
<1> QED
  BY <1>1, <1>2, <1>3, <1>4, <1>5, <1>6, <1>7, <1>8, <1>9, <1>10, <1>11, <1>12, <1>13, <1>14,
      <1>15, <1>16, <1>17, <1>18, <1>19, <1>20, <1>21, <1>22, <1>23, <1>24, <1>25, <1>26,
      <1>27, <1>28, <1>29, <1>30, <1>31 DEF Next, TxnStep, ManagerStep, Sweeping, SweepInner,
      SweepLeaf, Done

\* A slot is taken only when it is vacant and vacated only by its one owner.
LEMMA StepSlots ==
  ASSUME TypeOK, SlotExclusive, Owned, Next
  PROVE  SlotExclusive' /\ Owned'
<1> USE DEF TypeOK, SlotExclusive, Owned, Owns, Goto, mgrVars, pageVars, txns
<1>1. ASSUME NEW t \in Txns, Latch(t) PROVE SlotExclusive' /\ Owned'
  BY <1>1, Zenon DEF Latch
<1>2. ASSUME NEW t \in Txns, Refused(t) PROVE SlotExclusive' /\ Owned'
  BY <1>2, Zenon DEF Refused
<1>3. ASSUME NEW t \in Txns, Enter(t) PROVE SlotExclusive' /\ Owned'
  BY <1>3, Zenon DEF Enter
<1>4. ASSUME NEW t \in Txns, Reserve(t) PROVE SlotExclusive' /\ Owned'
  BY <1>4 DEF Reserve
<1>5. ASSUME NEW t \in Txns, LoadGlobal(t) PROVE SlotExclusive' /\ Owned'
  BY <1>5 DEF LoadGlobal
<1>6. ASSUME NEW t \in Txns, set_local_state(t) PROVE SlotExclusive' /\ Owned'
  BY <1>6 DEF set_local_state
<1>7. ASSUME NEW t \in Txns, RecheckGlobal(t) PROVE SlotExclusive' /\ Owned'
  BY <1>7 DEF RecheckGlobal
<1>8. ASSUME NEW t \in Txns, RecheckPause(t) PROVE SlotExclusive' /\ Owned'
  BY <1>8 DEF RecheckPause
<1>9. ASSUME NEW t \in Txns, NeedRestart(t) PROVE SlotExclusive' /\ Owned'
  BY <1>9 DEF NeedRestart
<1>10. ASSUME NEW t \in Txns, Write(t) PROVE SlotExclusive' /\ Owned'
  BY <1>10 DEF Write
<1>11. ASSUME NEW t \in Txns, GiveUp(t) PROVE SlotExclusive' /\ Owned'
  BY <1>11 DEF GiveUp
<1>12. ASSUME NEW t \in Txns, ClearLocal(t) PROVE SlotExclusive' /\ Owned'
  BY <1>12, Zenon DEF ClearLocal
<1>13. ASSUME NEW t \in Txns, Vacate(t) PROVE SlotExclusive' /\ Owned'
  BY <1>13, Zenon DEF Vacate
<1>14. ASSUME NEW t \in Txns, Signal(t) PROVE SlotExclusive' /\ Owned'
  BY <1>14, Zenon DEF Signal
<1>15. ASSUME NEW t \in Txns, Wake(t) PROVE SlotExclusive' /\ Owned'
  BY <1>15, Zenon DEF Wake, WakeManager
<1>16. CASE Snapshot
  BY <1>16, Zenon DEF Snapshot
<1>17. CASE Open
  BY <1>17, Zenon DEF Open
<1>18. CASE check_if_phase_completed
  BY <1>18, Zenon DEF check_if_phase_completed
<1>19. CASE LoadWaiter
  BY <1>19, Zenon DEF LoadWaiter
<1>20. CASE Wait
  BY <1>20, Zenon DEF Wait
<1>21. CASE SpuriousWake
  BY <1>21, Zenon DEF SpuriousWake, WakeManager
<1>22. CASE Advance
  BY <1>22, Zenon DEF Advance
<1>23. CASE Pause
  BY <1>23, Zenon DEF Pause
<1>24. CASE Drained
  BY <1>24, Zenon DEF Drained
<1>25. CASE Resume
  BY <1>25, Zenon DEF Resume
<1>26. CASE PageTableIter
  BY <1>26, Zenon DEF PageTableIter
<1>27. CASE EndSweep
  BY <1>27, Zenon DEF EndSweep
<1>28. CASE finalize
  BY <1>28, Zenon DEF finalize
<1>29. CASE Finish
  BY <1>29, Zenon DEF Finish
<1>30. ASSUME NEW p \in Pages, SweepPage(p) PROVE SlotExclusive' /\ Owned'
  BY <1>30, Zenon DEF SweepPage
<1>31. CASE UNCHANGED vars
  BY <1>31, Zenon DEF vars
<1> QED
  BY <1>1, <1>2, <1>3, <1>4, <1>5, <1>6, <1>7, <1>8, <1>9, <1>10, <1>11, <1>12, <1>13, <1>14,
      <1>15, <1>16, <1>17, <1>18, <1>19, <1>20, <1>21, <1>22, <1>23, <1>24, <1>25, <1>26,
      <1>27, <1>28, <1>29, <1>30, <1>31, Zenon DEF Next, TxnStep, ManagerStep, Sweeping, SweepInner,
      SweepLeaf, Done

\* Only its owner stores in a slot, so what it stored stays until it is cleared.
LEMMA StepPublished ==
  ASSUME TypeOK, SlotExclusive, Published, GuardReal, Next
  PROVE  Published' /\ GuardReal'
<1> USE DEF TypeOK, SlotExclusive, Owns, Published, GuardReal, Goto, mgrVars, pageVars, txns
<1>1. ASSUME NEW t \in Txns, Latch(t) PROVE Published' /\ GuardReal'
  BY <1>1, Zenon DEF Latch
<1>2. ASSUME NEW t \in Txns, Refused(t) PROVE Published' /\ GuardReal'
  BY <1>2, Zenon DEF Refused
<1>3. ASSUME NEW t \in Txns, Enter(t) PROVE Published' /\ GuardReal'
  BY <1>3, Zenon DEF Enter
<1>4. ASSUME NEW t \in Txns, Reserve(t) PROVE Published' /\ GuardReal'
  BY <1>4, Zenon DEF Reserve
<1>5. ASSUME NEW t \in Txns, LoadGlobal(t) PROVE Published' /\ GuardReal'
  BY <1>5, Zenon DEF LoadGlobal
<1>6. ASSUME NEW t \in Txns, set_local_state(t) PROVE Published' /\ GuardReal'
  BY <1>6, Zenon DEF set_local_state
<1>7. ASSUME NEW t \in Txns, RecheckGlobal(t) PROVE Published' /\ GuardReal'
  BY <1>7, Zenon DEF RecheckGlobal
<1>8. ASSUME NEW t \in Txns, RecheckPause(t) PROVE Published' /\ GuardReal'
  BY <1>8, Zenon DEF RecheckPause
<1>9. ASSUME NEW t \in Txns, NeedRestart(t) PROVE Published' /\ GuardReal'
  BY <1>9, Zenon DEF NeedRestart
<1>10. ASSUME NEW t \in Txns, Write(t) PROVE Published' /\ GuardReal'
  BY <1>10, Zenon DEF Write
<1>11. ASSUME NEW t \in Txns, GiveUp(t) PROVE Published' /\ GuardReal'
  BY <1>11, Zenon DEF GiveUp
<1>12. ASSUME NEW t \in Txns, ClearLocal(t) PROVE Published' /\ GuardReal'
  BY <1>12, Zenon DEF ClearLocal
<1>13. ASSUME NEW t \in Txns, Vacate(t) PROVE Published' /\ GuardReal'
  BY <1>13, Zenon DEF Vacate
<1>14. ASSUME NEW t \in Txns, Signal(t) PROVE Published' /\ GuardReal'
  BY <1>14, Zenon DEF Signal
<1>15. ASSUME NEW t \in Txns, Wake(t) PROVE Published' /\ GuardReal'
  BY <1>15, Zenon DEF Wake, WakeManager
<1>16. CASE Snapshot
  BY <1>16, Zenon DEF Snapshot
<1>17. CASE Open
  BY <1>17, Zenon DEF Open
<1>18. CASE check_if_phase_completed
  BY <1>18, Zenon DEF check_if_phase_completed
<1>19. CASE LoadWaiter
  BY <1>19, Zenon DEF LoadWaiter
<1>20. CASE Wait
  BY <1>20, Zenon DEF Wait
<1>21. CASE SpuriousWake
  BY <1>21, Zenon DEF SpuriousWake, WakeManager
<1>22. CASE Advance
  BY <1>22, Zenon DEF Advance
<1>23. CASE Pause
  BY <1>23, Zenon DEF Pause
<1>24. CASE Drained
  BY <1>24, Zenon DEF Drained
<1>25. CASE Resume
  BY <1>25, Zenon DEF Resume
<1>26. CASE PageTableIter
  BY <1>26, Zenon DEF PageTableIter
<1>27. CASE EndSweep
  BY <1>27, Zenon DEF EndSweep
<1>28. CASE finalize
  BY <1>28, Zenon DEF finalize
<1>29. CASE Finish
  BY <1>29, Zenon DEF Finish
<1>30. ASSUME NEW p \in Pages, SweepPage(p) PROVE Published' /\ GuardReal'
  BY <1>30, Zenon DEF SweepPage
<1>31. CASE UNCHANGED vars
  BY <1>31, Zenon DEF vars
<1> QED
  BY <1>1, <1>2, <1>3, <1>4, <1>5, <1>6, <1>7, <1>8, <1>9, <1>10, <1>11, <1>12, <1>13, <1>14,
      <1>15, <1>16, <1>17, <1>18, <1>19, <1>20, <1>21, <1>22, <1>23, <1>24, <1>25, <1>26,
      <1>27, <1>28, <1>29, <1>30, <1>31, Zenon DEF Next, TxnStep, ManagerStep, Sweeping, SweepInner,
      SweepLeaf, Done

\* The manager alone moves its cursor and the pause.
LEMMA StepManagerState ==
  ASSUME TypeOK, ManagerState, Next
  PROVE  ManagerState'
<1> USE DEF TypeOK, ManagerState, Scans, Goto, mgrVars, pageVars, txns
<1>1. ASSUME NEW t \in Txns, Latch(t) PROVE ManagerState'
  BY <1>1, Zenon DEF Latch
<1>2. ASSUME NEW t \in Txns, Refused(t) PROVE ManagerState'
  BY <1>2, Zenon DEF Refused
<1>3. ASSUME NEW t \in Txns, Enter(t) PROVE ManagerState'
  BY <1>3, Zenon DEF Enter
<1>4. ASSUME NEW t \in Txns, Reserve(t) PROVE ManagerState'
  BY <1>4, Zenon DEF Reserve
<1>5. ASSUME NEW t \in Txns, LoadGlobal(t) PROVE ManagerState'
  BY <1>5, Zenon DEF LoadGlobal
<1>6. ASSUME NEW t \in Txns, set_local_state(t) PROVE ManagerState'
  BY <1>6, Zenon DEF set_local_state
<1>7. ASSUME NEW t \in Txns, RecheckGlobal(t) PROVE ManagerState'
  BY <1>7, Zenon DEF RecheckGlobal
<1>8. ASSUME NEW t \in Txns, RecheckPause(t) PROVE ManagerState'
  BY <1>8, Zenon DEF RecheckPause
<1>9. ASSUME NEW t \in Txns, NeedRestart(t) PROVE ManagerState'
  BY <1>9, Zenon DEF NeedRestart
<1>10. ASSUME NEW t \in Txns, Write(t) PROVE ManagerState'
  BY <1>10, Zenon DEF Write
<1>11. ASSUME NEW t \in Txns, GiveUp(t) PROVE ManagerState'
  BY <1>11, Zenon DEF GiveUp
<1>12. ASSUME NEW t \in Txns, ClearLocal(t) PROVE ManagerState'
  BY <1>12, Zenon DEF ClearLocal
<1>13. ASSUME NEW t \in Txns, Vacate(t) PROVE ManagerState'
  BY <1>13, Zenon DEF Vacate
<1>14. ASSUME NEW t \in Txns, Signal(t) PROVE ManagerState'
  BY <1>14, Zenon DEF Signal
<1>15. ASSUME NEW t \in Txns, Wake(t) PROVE ManagerState'
  BY <1>15, Zenon DEF Wake, WakeManager
<1>16. CASE Snapshot
  BY <1>16, Zenon DEF Snapshot
<1>17. CASE Open
  BY <1>17, Zenon DEF Open
<1>18. CASE check_if_phase_completed
  BY <1>18, Zenon DEF check_if_phase_completed, AfterPass, AfterFail
<1>19. CASE LoadWaiter
  BY <1>19, Zenon DEF LoadWaiter
<1>20. CASE Wait
  BY <1>20, Zenon DEF Wait
<1>21. CASE SpuriousWake
  BY <1>21, Zenon DEF SpuriousWake, WakeManager
<1>22. CASE Advance
  BY <1>22, Zenon DEF Advance
<1>23. CASE Pause
  BY <1>23, Zenon DEF Pause
<1>24. CASE Drained
  BY <1>24, Zenon DEF Drained
<1>25. CASE Resume
  BY <1>25, Zenon DEF Resume
<1>26. CASE PageTableIter
  BY <1>26, Zenon DEF PageTableIter
<1>27. CASE EndSweep
  BY <1>27, Zenon DEF EndSweep
<1>28. CASE finalize
  BY <1>28, Zenon DEF finalize
<1>29. CASE Finish
  BY <1>29, Zenon DEF Finish
<1>30. ASSUME NEW p \in Pages, SweepPage(p) PROVE ManagerState'
  BY <1>30, Zenon DEF SweepPage
<1>31. CASE UNCHANGED vars
  BY <1>31, Zenon DEF vars
<1> QED
  BY <1>1, <1>2, <1>3, <1>4, <1>5, <1>6, <1>7, <1>8, <1>9, <1>10, <1>11, <1>12, <1>13, <1>14,
      <1>15, <1>16, <1>17, <1>18, <1>19, <1>20, <1>21, <1>22, <1>23, <1>24, <1>25, <1>26,
      <1>27, <1>28, <1>29, <1>30, <1>31, Zenon DEF Next, TxnStep, ManagerStep, Sweeping, SweepInner,
      SweepLeaf, Done

\* The barrier.  Behind the cursor a slot may be taken and stored to at any time, but
\* its owner then compares with the global state and the pause of now.
LEMMA StepSeenGuards ==
  ASSUME TypeOK, Published, GuardReal, ManagerState, SeenGuards, Next
  PROVE  SeenGuards'
<1> USE DEF TypeOK, Published, GuardReal, ManagerState, SeenGuards, Seen, Scans, Slots,
    target_state, Goto, mgrVars, pageVars, txns
<1>1. ASSUME NEW t \in Txns, Latch(t) PROVE SeenGuards'
  BY <1>1, Zenon DEF Latch
<1>2. ASSUME NEW t \in Txns, Refused(t) PROVE SeenGuards'
  BY <1>2, Zenon DEF Refused
<1>3. ASSUME NEW t \in Txns, Enter(t) PROVE SeenGuards'
  BY <1>3, Zenon DEF Enter
<1>4. ASSUME NEW t \in Txns, Reserve(t) PROVE SeenGuards'
  BY <1>4, Zenon DEF Reserve
<1>5. ASSUME NEW t \in Txns, LoadGlobal(t) PROVE SeenGuards'
  BY <1>5, Zenon DEF LoadGlobal
<1>6. ASSUME NEW t \in Txns, set_local_state(t) PROVE SeenGuards'
  BY <1>6, Zenon DEF set_local_state
<1>7. ASSUME NEW t \in Txns, RecheckGlobal(t) PROVE SeenGuards'
  BY <1>7, Zenon DEF RecheckGlobal
<1>8. ASSUME NEW t \in Txns, RecheckPause(t) PROVE SeenGuards'
  BY <1>8, Zenon DEF RecheckPause
<1>9. ASSUME NEW t \in Txns, NeedRestart(t) PROVE SeenGuards'
  BY <1>9, Zenon DEF NeedRestart
<1>10. ASSUME NEW t \in Txns, Write(t) PROVE SeenGuards'
  BY <1>10, Zenon DEF Write
<1>11. ASSUME NEW t \in Txns, GiveUp(t) PROVE SeenGuards'
  BY <1>11, Zenon DEF GiveUp
<1>12. ASSUME NEW t \in Txns, ClearLocal(t) PROVE SeenGuards'
  BY <1>12, Zenon DEF ClearLocal
<1>13. ASSUME NEW t \in Txns, Vacate(t) PROVE SeenGuards'
  BY <1>13, Zenon DEF Vacate
<1>14. ASSUME NEW t \in Txns, Signal(t) PROVE SeenGuards'
  BY <1>14, Zenon DEF Signal
<1>15. ASSUME NEW t \in Txns, Wake(t) PROVE SeenGuards'
  BY <1>15 DEF Wake, WakeManager
<1>16. CASE Snapshot
  BY <1>16, Zenon DEF Snapshot
<1>17. CASE Open
  BY <1>17 DEF Open
<1>18. CASE check_if_phase_completed
  <2>1. cursor \in 1 .. NSlots /\ UNCHANGED <<global, pause, pc, slot, guard>>
    BY <1>18, Zenon DEF check_if_phase_completed
  <2>2. CASE local[cursor] \notin {Invalid, target_state}
    BY <1>18, <2>1, <2>2 DEF check_if_phase_completed, AfterFail
  <2>3. ASSUME local[cursor] \in {Invalid, target_state},
               NEW t \in Txns, slot[t] <= cursor
        PROVE  /\ pc[t] = "write" => guard[t] = target_state
               /\ pc[t] = "recheckpause" => guard[t] = global
    <3>1. CASE slot[t] < cursor
      BY <1>18, <3>1, Zenon DEF check_if_phase_completed
    <3>2. CASE slot[t] = cursor /\ pc[t] \in {"write", "recheckpause"}
      <4>1. guard[t] \in {Invalid, target_state} /\ guard[t].phase \in Phases
        BY <2>3, <3>2, Zenon
      <4>2. guard[t] # Invalid
        BY <4>1 DEF Invalid, State, Phases
      <4> QED
        BY <4>1, <4>2, Zenon
    <3> QED
      BY <2>1, <2>3, <3>1, <3>2
  <2>4. CASE local[cursor] \in {Invalid, target_state}
    <3>1. CASE cursor = NSlots
      BY <1>18, <2>1, <2>3, <2>4, <3>1 DEF check_if_phase_completed, AfterPass
    <3>2. CASE cursor # NSlots
      BY <1>18, <2>1, <2>3, <2>4, <3>2 DEF check_if_phase_completed
    <3> QED
      BY <3>1, <3>2, Zenon
  <2> QED
    BY <2>2, <2>4, Zenon
<1>19. CASE LoadWaiter
  BY <1>19 DEF LoadWaiter
<1>20. CASE Wait
  BY <1>20 DEF Wait
<1>21. CASE SpuriousWake
  BY <1>21 DEF SpuriousWake, WakeManager
<1>22. CASE Advance
  BY <1>22 DEF Advance
<1>23. CASE Pause
  BY <1>23 DEF Pause
<1>24. CASE Drained
  BY <1>24, Zenon DEF Drained
<1>25. CASE Resume
  BY <1>25, Zenon DEF Resume
<1>26. CASE PageTableIter
  BY <1>26, Zenon DEF PageTableIter
<1>27. CASE EndSweep
  BY <1>27 DEF EndSweep
<1>28. CASE finalize
  BY <1>28, Zenon DEF finalize
<1>29. CASE Finish
  BY <1>29, Zenon DEF Finish
<1>30. ASSUME NEW p \in Pages, SweepPage(p) PROVE SeenGuards'
  BY <1>30, Zenon DEF SweepPage
<1>31. CASE UNCHANGED vars
  BY <1>31, Zenon DEF vars
<1> QED
  BY <1>1, <1>2, <1>3, <1>4, <1>5, <1>6, <1>7, <1>8, <1>9, <1>10, <1>11, <1>12, <1>13, <1>14,
      <1>15, <1>16, <1>17, <1>18, <1>19, <1>20, <1>21, <1>22, <1>23, <1>24, <1>25, <1>26,
      <1>27, <1>28, <1>29, <1>30, <1>31, Zenon DEF Next, TxnStep, ManagerStep, Sweeping, SweepInner,
      SweepLeaf, Done

\* IInv is inductive.
LEMMA StepIInv == IInv /\ [Next]_vars => IInv'
<1>1. CASE UNCHANGED vars
  BY <1>1, Zenon DEF IInv, vars, TypeOK, SlotExclusive, Owned, Published, GuardReal, SeenGuards,
      ManagerState,
              Owns, Seen, target_state
<1>2. CASE Next
  BY <1>2, StepTypeOK, StepSlots, StepPublished, StepManagerState, StepSeenGuards, Zenon DEF IInv
<1> QED
  BY <1>1, <1>2, Zenon

\* IInv holds in every state of every behaviour.
LEMMA Invariance == Spec => []IInv
  BY InitIInv, StepIInv, PTL DEF Spec

\* Every variable has its type, whatever the number of slots, pages, transactions
\* and snapshots; above all the manager reads slots that exist only.
THEOREM TypeCorrect == Spec => []TypeOK
  BY Invariance, PTL DEF IInv

\* reserve_thread_slot never gives a slot to two transactions at a time, so no
\* image is put in another transaction's list.
THEOREM OneOwner == Spec => []SlotExclusive
  BY Invariance, PTL DEF IInv

\* When the manager acts on the answer of check_if_phase_completed, every guard is
\* in the state it asked for, for any number of slots and reservations that come
\* and go while it reads them.
THEOREM BarrierHolds == Spec => []PhaseBarrier
<1>1. IInv => PhaseBarrier
  BY Zenon DEF IInv, SeenGuards, Seen, PhaseBarrier
<1> QED
  BY <1>1, Invariance, PTL

\* No transaction is between its reservation and its release when sweep() walks
\* the inner nodes.
THEOREM FrozenDuringSweep == Spec => []SweepFrozen
<1>1. IInv => SweepFrozen
  BY DEF IInv, TypeOK, GuardReal, ManagerState, SeenGuards, Seen, SweepFrozen, target_state,
         Invalid, State, Phases
<1> QED
  BY <1>1, Invariance, PTL

-----------------------------------------------------------------------------
\* Snapshots.  A finished one is a prefix of the history, and no transaction meets a
\* page of a version above its own.  The invariant says what the images taken so far
\* are worth at every place of the manager; a step of a transaction that changes pages
\* is the only one that can spoil them.

\* The versions of pages.  None is above the global one, the pages that do not exist
\* are empty, and a page that was created has the change that created it.
PageVersions ==
  \A p \in Pages :
    /\ pver[p] <= global.version
    /\ pver[p] = NoPage => content[p] = {} /\ p \notin InitialPages
    /\ pver[p] # NoPage => content[p] # {} \/ p \in InitialPages
    /\ \A c \in content[p] : c[2] <= global.version

\* A leaf is in the write set of one transaction at most.
LatchesExclude ==
  /\ \A t \in Txns : pc[t] \in {"idle", "done"} => wset[t] = {}
  /\ \A t, u \in Txns : t # u => wset[t] \cap wset[u] \cap Leaves = {}

\* What a transaction has latched or read before it loads the global state does not
\* get a later version than the one it has loaded, unless it is not valid any more.
Guarded == {"store", "recheck", "recheckpause", "write"}
VersionsBelow ==
  \A t \in Txns : pc[t] \in Guarded =>
    /\ guard[t].version <= global.version
    /\ valid[t] => \A p \in wset[t] : pver[p] <= guard[t].version

\* The phase the manager is in at each place, and the places at which all guards
\* are known to be in the state of now.
Outside == {"idle", "open", "finish"}
Settled == {"act", "inner", "iter", "leaves"} \cup Outside
PhaseOf ==
  /\ mpc \in Outside => global.phase = "Rest"
  /\ mpc \in {"inner", "iter", "leaves"} => global.phase = "Sweep"
  /\ pause => global.phase = "Sweep" /\ mpc \notin {"iter", "leaves"}

\* A guard is at most one state behind, and only before the barrier.
GuardNow ==
  \A t \in Txns : pc[t] \in {"recheckpause", "write"} =>
    \/ guard[t] = global
    \/ mpc \notin Settled /\ advance_global_state(guard[t]) = global

\* A snapshot of the version before the global one is being taken.
Pending == global.phase \in {"InProgress", "Sweep"} \/ (global.phase = "Rest" /\ mpc \notin Outside)
Last == global.version - 1
InSnap(p) == p \in InitialPages \/ Prefix(p, Last) # {}
ByUser(p) == \E s \in Slots : \E im \in mappings[s] : im[1] = p
Covered(p) == ByUser(p) \/ \E im \in swept : im[1] = p
Right(im) == im[2] = Prefix(im[1], Last) /\ InSnap(im[1])

\* The images taken so far are right, and those taken by transactions are of pages
\* that have been raised since.
ImagesRight ==
  /\ \A s \in Slots : \A im \in mappings[s] : Pending /\ pver[im[1]] = global.version /\ Right(im)
  /\ \A im \in swept : Pending /\ Right(im)
  /\ swept # {} => mpc \in {"inner", "iter", "leaves"} \/ global.phase = "Rest"

\* Until a page is raised it has only changes of the versions the snapshot is of.
OldIsPrefix ==
  Pending => \A p \in Pages : pver[p] < global.version =>
                              \A c \in content[p] : c[2] < global.version

\* A page that has been raised has left its image, and the pages behind the sweep
\* have one from either side.
RaisedImaged ==
  global.phase \in {"InProgress", "Sweep"} =>
    \A p \in Pages : pver[p] = global.version /\ InSnap(p) => ByUser(p)
SweptSoFar ==
  /\ \A p \in todo : Exists(p)
  /\ mpc = "inner" => \A p \in Inner : InSnap(p) => p \in todo \/ Covered(p)
  /\ mpc \in {"iter", "leaves"} => \A p \in Inner : InSnap(p) => Covered(p)
  /\ mpc = "leaves" => \A p \in Leaves : InSnap(p) => p \in todo \/ Covered(p)
  /\ global.phase = "Rest" /\ Pending => \A p \in Pages : InSnap(p) => Covered(p)

\* The finished snapshots are of versions nobody writes at any more.
FinishedBelow == \A v \in DOMAIN snaps : v \in Int /\ v < global.version /\ (Pending => v < Last)

\* What the snapshots need of the pages and their images.
PInv ==
  /\ PageVersions /\ ImagesRight /\ OldIsPrefix /\ RaisedImaged /\ SweptSoFar /\ FinishedBelow
  /\ SnapshotConsistent

SInv == LatchesExclude /\ VersionsBelow /\ PhaseOf /\ GuardNow /\ PInv

-----------------------------------------------------------------------------
\* The steps that leave the pages and their images alone: a transaction goes from one
\* place of its call to the next, or the manager from one place of its waits.
Moves(t) ==
  /\ UNCHANGED <<global, pause, mappings, wset, guard, valid, content, pver, mpc, todo, swept, snaps>>
  /\ \E l \in Guarded \cup {"enter", "reserve", "load", "clear", "vacate", "signal", "wake"} :
       /\ pc' = [pc EXCEPT ![t] = l]
       /\ pc[t] \notin {"idle", "done"}
       /\ l \in Guarded => pc[t] \in Guarded
       /\ l \in {"recheckpause", "write"} => pc[t] = "recheckpause" \/ guard[t] = global

Waiting == Scans \cup {"load", "wait", "asleep", "act"}
Waits ==
  /\ UNCHANGED <<global, mappings, pc, wset, guard, valid, content, pver, todo, swept, snaps>>
  /\ (mpc \in Waiting /\ mpc' \in Waiting) \/ (mpc \in Outside /\ mpc' \in Outside)
  /\ pause' = pause \/ (pause' = TRUE /\ global.phase = "Sweep")
  /\ mpc' \in Settled => mpc \in Settled \/ mpc' = "act"

Kind ==
  \/ \E t \in Txns : \/ Latch(t) \/ Refused(t) \/ LoadGlobal(t) \/ Write(t) \/ GiveUp(t)
                    \/ ClearLocal(t) \/ Wake(t) \/ Moves(t)
  \/ Waits \/ Open \/ Advance \/ Drained \/ Resume \/ PageTableIter \/ EndSweep \/ finalize
  \/ \E p \in Pages : SweepInner(p) \/ SweepLeaf(p)
  \/ UNCHANGED vars

\* Every step is of one of these kinds.
LEMMA StepKind == ASSUME TypeOK, Next PROVE Kind
<1> USE DEF Goto, mgrVars, pageVars, txns, Guarded
<1>1. ASSUME NEW t \in Txns, Enter(t) \/ Reserve(t) \/ set_local_state(t) PROVE Moves(t)
  BY <1>1, Zenon DEF Enter, Reserve, set_local_state, Moves
<1>2. ASSUME NEW t \in Txns, RecheckGlobal(t) \/ RecheckPause(t) \/ NeedRestart(t) PROVE Moves(t)
  BY <1>2, Zenon DEF RecheckGlobal, RecheckPause, NeedRestart, Moves
<1>3. ASSUME NEW t \in Txns, Vacate(t) \/ Signal(t) PROVE Moves(t)
  BY <1>3, Zenon DEF Vacate, Signal, Moves
<1>4. ASSUME Snapshot \/ LoadWaiter \/ Wait PROVE Waits
  BY <1>4, Zenon DEF Snapshot, LoadWaiter, Wait, Waits, Waiting, Outside, Settled, Scans
<1>5. ASSUME SpuriousWake \/ Pause \/ Finish PROVE Waits
  BY <1>5, Zenon
     DEF SpuriousWake, WakeManager, Pause, Finish, Waits, Waiting, Outside, Settled, Scans
<1>6. ASSUME check_if_phase_completed PROVE Waits
  BY <1>6, Zenon
     DEF check_if_phase_completed, AfterPass, AfterFail, Waits, Waiting, Outside, Settled, Scans
<1> QED
  BY <1>1, <1>2, <1>3, <1>4, <1>5, <1>6, Zenon DEF Next, TxnStep, ManagerStep, Sweeping, Done, Kind

\* A leaf is latched only when nobody has it, and given back when the call ends.
LEMMA StepLatches == ASSUME TypeOK, LatchesExclude, Kind PROVE LatchesExclude'
<1> USE PagesAssumption DEF TypeOK, LatchesExclude, Goto, mgrVars, pageVars, txns
<1>1. ASSUME NEW t \in Txns, Latch(t) PROVE LatchesExclude'
  BY <1>1 DEF Latch, Latched
<1>2. ASSUME NEW t \in Txns, Refused(t) \/ ClearLocal(t) \/ Wake(t) PROVE LatchesExclude'
  BY <1>2 DEF Refused, ClearLocal, Wake
<1>3. ASSUME NEW t \in Txns, LoadGlobal(t) \/ Write(t) \/ GiveUp(t) PROVE LatchesExclude'
  BY <1>3, Zenon DEF LoadGlobal, Write, GiveUp
<1>4. ASSUME NEW t \in Txns, Moves(t) PROVE LatchesExclude'
  BY <1>4, Zenon DEF Moves, Guarded
<1>5. CASE Waits \/ Open \/ Advance \/ Drained \/ Resume \/ PageTableIter \/ EndSweep \/ finalize
  BY <1>5, Zenon DEF Waits, Open, Advance, Drained, Resume, PageTableIter, EndSweep, finalize
<1>6. ASSUME NEW p \in Pages, SweepPage(p) PROVE LatchesExclude'
  BY <1>6, Zenon DEF SweepPage
<1>7. CASE UNCHANGED vars
  BY <1>7, Zenon DEF vars
<1> QED
  BY <1>1, <1>2, <1>3, <1>4, <1>5, <1>6, <1>7, Zenon DEF Kind, SweepInner, SweepLeaf

\* A page gets a later version only from a transaction that has it, so a leaf not while
\* another has it, and an inner node not while another's reading of it stays valid.
LEMMA StepBelow ==
  ASSUME TypeOK, TypeOK', GuardReal, LatchesExclude, PageVersions, VersionsBelow, Kind
  PROVE  VersionsBelow'
<1> USE DEF TypeOK, VersionsBelow, Guarded, Goto, mgrVars, pageVars, txns
<1>1. ASSUME NEW t \in Txns, Latch(t) \/ Refused(t) \/ ClearLocal(t) \/ Wake(t) PROVE VersionsBelow'
  BY <1>1 DEF Latch, Refused, ClearLocal, Wake
<1>2. ASSUME NEW t \in Txns, LoadGlobal(t) PROVE VersionsBelow'
  BY <1>2 DEF LoadGlobal, PageVersions
<1>3. ASSUME NEW t \in Txns, Moves(t) PROVE VersionsBelow'
  BY <1>3, Zenon DEF Moves
<1>4. ASSUME NEW t \in Txns, Write(t) \/ GiveUp(t) PROVE VersionsBelow'
  <2>1. /\ UNCHANGED <<global, wset, guard>> /\ pc' = [pc EXCEPT ![t] = "clear"]
        /\ valid' = [u \in Txns |-> valid[u] /\ (u = t \/ wset[u] \cap wset[t] \cap Inner = {})]
        /\ \A p \in Pages : p \notin wset[t] => pver'[p] = pver[p]
    BY <1>4 DEF Write, GiveUp, CprRule, Raised
  <2> SUFFICES ASSUME NEW u \in Txns, pc'[u] \in Guarded
               PROVE  /\ guard[u].version <= global.version
                      /\ valid'[u] => \A p \in wset[u] : pver'[p] <= guard[u].version
    BY <2>1, Zenon
  <2>2. u # t /\ pc[u] \in Guarded
    BY <2>1, Zenon
  <2>3. ASSUME valid'[u], NEW p \in wset[u] PROVE p \in Pages /\ p \notin wset[t]
    BY <2>1, <2>2, <2>3, Zenon DEF LatchesExclude, Pages
  <2> QED
    BY <2>1, <2>2, <2>3, Zenon
<1>5. CASE Waits \/ Drained \/ Resume \/ PageTableIter \/ finalize
  BY <1>5, Zenon DEF Waits, Drained, Resume, PageTableIter, finalize
<1>6. CASE Open \/ Advance \/ EndSweep
  <2>1. global'.version \in {global.version, global.version + 1}
        /\ UNCHANGED <<pc, guard, valid, wset, pver>>
    BY <1>6 DEF Open, Advance, EndSweep, advance_global_state, State
  <2>2. \A t \in Txns : pc[t] \in Guarded => guard[t].version \in Nat
    BY Zenon DEF GuardReal
  <2> QED
    BY <2>1, <2>2
<1>7. ASSUME NEW p \in Pages, SweepPage(p) PROVE VersionsBelow'
  BY <1>7, Zenon DEF SweepPage
<1>8. CASE UNCHANGED vars
  BY <1>8, Zenon DEF vars
<1> QED
  BY <1>1, <1>2, <1>3, <1>4, <1>5, <1>6, <1>7, <1>8, Zenon DEF Kind, SweepInner, SweepLeaf

\* The phase changes only where the manager has come to the place for it.
LEMMA StepPhaseOf == ASSUME TypeOK, PhaseOf, ManagerState, Kind PROVE PhaseOf'
<1> USE DEF TypeOK, PhaseOf, Outside, Goto, mgrVars, pageVars, txns
<1>1. ASSUME NEW t \in Txns, Latch(t) \/ Refused(t) \/ LoadGlobal(t) \/ ClearLocal(t) PROVE PhaseOf'
  BY <1>1 DEF Latch, Refused, LoadGlobal, ClearLocal
<1>2. ASSUME NEW t \in Txns, Wake(t) PROVE PhaseOf'
  BY <1>2, Zenon DEF Wake, WakeManager
<1>3. ASSUME NEW t \in Txns, Write(t) \/ GiveUp(t) \/ Moves(t) PROVE PhaseOf'
  BY <1>3 DEF Write, GiveUp, Moves
<1>4. CASE Waits
  BY <1>4 DEF Waits, Waiting, Scans
<1>5. CASE Open \/ Advance \/ EndSweep
  BY <1>5 DEF Open, Advance, EndSweep, advance_global_state, State
<1>6. CASE Drained \/ Resume
  BY <1>6, Zenon DEF Drained, Resume
<1>7. CASE PageTableIter \/ finalize
  BY <1>7 DEF PageTableIter, finalize
<1>8. ASSUME NEW p \in Pages, SweepPage(p) PROVE PhaseOf'
  BY <1>8, Zenon DEF SweepPage
<1>9. CASE UNCHANGED vars
  BY <1>9, Zenon DEF vars
<1> QED
  BY <1>1, <1>2, <1>3, <1>4, <1>5, <1>6, <1>7, <1>8, <1>9, Zenon DEF Kind, SweepInner, SweepLeaf

\* The global state moves on only behind the barrier, so the guards that are left are
\* at most one state behind; the next barrier waits for those.
LEMMA StepGuardNow ==
  ASSUME IInv, IInv', PhaseOf, GuardNow, Kind
  PROVE  GuardNow'
<1> USE DEF IInv, TypeOK, GuardNow, Settled, Outside, Goto, mgrVars, pageVars, txns
<1>1. ASSUME NEW t \in Txns, Latch(t) \/ Refused(t) \/ LoadGlobal(t) PROVE GuardNow'
  BY <1>1 DEF Latch, Refused, LoadGlobal
<1>2. ASSUME NEW t \in Txns, ClearLocal(t) \/ Wake(t) PROVE GuardNow'
  BY <1>2, Zenon DEF ClearLocal, Wake, WakeManager
<1>3. ASSUME NEW t \in Txns, Write(t) \/ GiveUp(t) PROVE GuardNow'
  BY <1>3, Zenon DEF Write, GiveUp
<1>4. ASSUME NEW t \in Txns, Moves(t) PROVE GuardNow'
  BY <1>4, Zenon DEF Moves, Guarded
<1>5. CASE Waits
  <2>1. UNCHANGED <<global, pc, guard>>
    BY <1>5, Zenon DEF Waits
  <2>2. CASE mpc' = "act"
    <3>1. \A t \in Txns : /\ pc'[t] = "write" => guard'[t] = target_state'
                          /\ pc'[t] = "recheckpause" => guard'[t] = global'
      BY <2>2, Zenon DEF SeenGuards, Seen
    <3>2. \A t \in Txns : pc'[t] = "write" => guard'[t] # Invalid
      BY DEF GuardReal, Invalid, State, Phases
    <3> QED
      BY <3>1, <3>2, Zenon DEF target_state
  <2>3. CASE mpc' # "act"
    BY <1>5, <2>1, <2>3, Zenon DEF Waits
  <2> QED
    BY <2>2, <2>3, Zenon
<1>6. CASE Open \/ Advance \/ EndSweep
  <2>1. /\ global' = advance_global_state(global) /\ UNCHANGED <<pc, guard>>
        /\ mpc \in Settled /\ mpc' \notin Settled
    BY <1>6, Zenon DEF Open, Advance, EndSweep
  <2> QED
    BY <2>1, Zenon
<1>7. CASE Drained \/ Resume \/ PageTableIter \/ finalize
  BY <1>7, Zenon DEF Drained, Resume, PageTableIter, finalize
<1>8. ASSUME NEW p \in Pages, SweepPage(p) PROVE GuardNow'
  BY <1>8, Zenon DEF SweepPage
<1>9. CASE UNCHANGED vars
  BY <1>9, Zenon DEF vars
<1> QED
  BY <1>1, <1>2, <1>3, <1>4, <1>5, <1>6, <1>7, <1>8, <1>9, Zenon DEF Kind, SweepInner, SweepLeaf

\* PInv speaks of the pages, their images and the manager's place only.
LEMMA QuietKeeps ==
  ASSUME PInv, UNCHANGED <<global, mappings, content, pver, todo, swept, snaps>>,
         \/ mpc' = mpc
         \/ mpc \in Waiting /\ mpc' \in Waiting
         \/ mpc \in Outside /\ mpc' \in Outside
  PROVE  PInv'
<1>1. Pending' = Pending /\ Last' = Last
  BY Zenon DEF Pending, Last, Waiting, Outside, Scans
<1>2. \A p \in Pages : /\ InSnap(p)' = InSnap(p) /\ ByUser(p)' = ByUser(p) /\ Covered(p)' = Covered(p)
  BY <1>1, Zenon DEF InSnap, ByUser, Covered, Prefix
<1>3. PageVersions' /\ FinishedBelow'
  BY <1>1, Zenon DEF PInv, PageVersions, FinishedBelow
<1>4. \A im : Right(im)' = Right(im)
  BY <1>1, Zenon DEF Right, InSnap, Prefix
<1>5. ImagesRight' /\ OldIsPrefix'
  BY <1>1, <1>4, Zenon DEF PInv, ImagesRight, OldIsPrefix, Waiting, Outside, Scans
<1>6. RaisedImaged'
  BY <1>2, Zenon DEF PInv, RaisedImaged
<1>7. SweptSoFar'
  BY <1>1, <1>2, Zenon DEF PInv, SweptSoFar, Pages, Waiting, Outside, Scans, Exists
<1>8. SnapshotConsistent'
  BY Zenon DEF PInv, SnapshotConsistent, Prefix
<1> QED
  BY <1>3, <1>5, <1>6, <1>7, <1>8, Zenon DEF PInv

\* Those steps are quiet.
LEMMA QuietSteps ==
  ASSUME TypeOK, PInv,
         \/ \E t \in Txns : Latch(t) \/ Refused(t) \/ LoadGlobal(t) \/ ClearLocal(t) \/ Wake(t) \/ Moves(t)
         \/ Waits \/ UNCHANGED vars
  PROVE  PInv'
<1> USE DEF Goto, mgrVars, pageVars, txns
<1>1. ASSUME NEW t \in Txns, Latch(t) \/ Refused(t) \/ LoadGlobal(t) \/ ClearLocal(t) \/ Moves(t)
      PROVE PInv'
  BY <1>1, QuietKeeps, Zenon DEF Latch, Refused, LoadGlobal, ClearLocal, Moves
<1>2. ASSUME NEW t \in Txns, Wake(t) PROVE PInv'
  BY <1>2, QuietKeeps, Zenon DEF Wake, WakeManager, Waiting, Scans
<1>3. CASE Waits
  BY <1>3, QuietKeeps, Zenon DEF Waits
<1>4. CASE UNCHANGED vars
  BY <1>4, QuietKeeps, Zenon DEF vars
<1> QED
  BY <1>1, <1>2, <1>3, <1>4, Zenon

\* Without a snapshot under way there are no images.
LEMMA NoImages == ASSUME ImagesRight, ~Pending PROVE swept = {} /\ \A s \in Slots : mappings[s] = {}
  BY Zenon DEF ImagesRight

\* PREPARE begins, or IN_PROGRESS: no page has the new version, so what is in the pages
\* is what the snapshot is to have.
LEMMA BeginKeeps ==
  ASSUME IInv, SInv, Open \/ (Advance /\ global.phase = "Prepare")
  PROVE  PInv'
<1> USE DEF PInv, SInv
<1>1. ~Pending /\ UNCHANGED <<mappings, content, pver, todo, swept, snaps>> /\ mpc' \in {"scan0", "scan1"}
  BY Zenon DEF Open, Advance, PhaseOf, Pending, txns, Outside
<1>2. global \in [phase : Phases, version : Nat] /\ pver \in [Pages -> Nat \cup {-1}]
  BY Zenon DEF IInv, TypeOK, NoPage
<1>3. \/ global'.phase = "Prepare" /\ global'.version = global.version
      \/ global'.phase = "InProgress" /\ global'.version = global.version + 1
  BY DEF Open, Advance, PhaseOf, advance_global_state, State, Outside
<1>4. \A p \in Pages : \A c \in content[p] : c[2] \in Nat
  BY DEF IInv, TypeOK
<1>5. PageVersions'
  BY <1>1, <1>2, <1>3, <1>4 DEF PageVersions
<1>6. ImagesRight'
  BY <1>1, NoImages, Zenon DEF ImagesRight
<1>7. OldIsPrefix'
  BY <1>1, <1>2, <1>3, <1>4 DEF OldIsPrefix, Pending, PageVersions
<1>8. RaisedImaged'
  BY <1>1, <1>2, <1>3 DEF RaisedImaged, PageVersions
<1>9. SweptSoFar'
  BY <1>1, <1>3, Zenon DEF SweptSoFar, Pending, Exists
<1>10. FinishedBelow'
  BY <1>1, <1>2, <1>3 DEF FinishedBelow, Pending, Last
<1>11. SnapshotConsistent'
  BY <1>1, Zenon DEF SnapshotConsistent, Prefix
<1> QED
  BY <1>5, <1>6, <1>7, <1>8, <1>9, <1>10, <1>11, Zenon

\* The steps from IN_PROGRESS to the end of the sweep that take no image.
LEMMA SweepMoves ==
  ASSUME IInv, SInv,
         (Advance /\ global.phase = "InProgress") \/ Drained \/ Resume \/ PageTableIter \/ EndSweep
  PROVE  PInv'
<1> USE DEF PInv, SInv
<1>1. /\ Pending /\ Pending' /\ global.phase \in {"InProgress", "Sweep"} /\ global'.version = global.version
      /\ UNCHANGED <<mappings, content, pver, swept, snaps>>
      /\ mpc' \in {"scan1", "inner", "iter", "leaves"}
      /\ global'.phase = "Rest" <=> EndSweep
      /\ global'.phase \in {"InProgress", "Sweep", "Rest"}
  BY DEF Advance, Drained, Resume, PageTableIter, EndSweep, PhaseOf, Pending, txns, Outside,
         advance_global_state, State
<1>2. Last' = Last
  BY <1>1, Zenon DEF Last
<1>3. \A p \in Pages : InSnap(p)' = InSnap(p) /\ ByUser(p)' = ByUser(p) /\ Covered(p)' = Covered(p)
  BY <1>1, <1>2, Zenon DEF InSnap, ByUser, Covered, Prefix
<1>4. \A im : Right(im)' = Right(im)
  BY <1>1, <1>2, Zenon DEF Right, InSnap, Prefix
<1>5. PageVersions' /\ OldIsPrefix' /\ FinishedBelow'
  BY <1>1, <1>2, Zenon DEF PageVersions, OldIsPrefix, FinishedBelow
<1>6. ImagesRight'
  <2>1. swept # {} => mpc' \in {"inner", "iter", "leaves"} \/ global'.phase = "Rest"
    BY <1>1, Zenon DEF ImagesRight, Advance, Drained, Resume, PageTableIter, EndSweep
  <2> QED
    BY <1>1, <1>4, <2>1, Zenon DEF ImagesRight
<1>7. RaisedImaged'
  BY <1>1, <1>3, Zenon DEF RaisedImaged
<1>8. SweptSoFar'
  <2>1. \A p \in Pages : InSnap(p) => Exists(p)
    BY Zenon DEF InSnap, Prefix, PageVersions, Exists
  <2>2. CASE Advance
    BY <1>1, <2>2, Zenon DEF Advance, SweptSoFar, EndSweep, Exists
  <2>3. CASE Drained
    BY <1>1, <1>3, <2>1, <2>3, Zenon DEF Drained, SweptSoFar, EndSweep, Pages, Exists
  <2>4. CASE Resume
    BY <1>1, <1>3, <2>4, Zenon DEF Resume, SweptSoFar, EndSweep, Pages, Exists
  <2>5. CASE PageTableIter
    BY <1>1, <1>3, <2>1, <2>5, Zenon DEF PageTableIter, SweptSoFar, EndSweep, Pages, Exists
  <2>6. CASE EndSweep
    BY <1>1, <1>3, <2>6, Zenon DEF EndSweep, SweptSoFar, Pages, Exists
  <2> QED
    BY <2>2, <2>3, <2>4, <2>5, <2>6, Zenon
<1>9. SnapshotConsistent'
  BY <1>1, Zenon DEF SnapshotConsistent, Prefix
<1> QED
  BY <1>5, <1>6, <1>7, <1>8, <1>9, Zenon

\* The sweep takes the image of a page that nobody has raised, which is all of its
\* content; of the others a transaction has taken it.
LEMMA SweepKeeps ==
  ASSUME IInv, SInv, NEW p \in Pages, SweepInner(p) \/ SweepLeaf(p)
  PROVE  PInv'
<1> USE DEF PInv, SInv
<1>1. /\ UNCHANGED <<global, mappings, content, pver, snaps, mpc>> /\ mpc \in {"inner", "leaves"}
      /\ todo' = todo \ {p}
      /\ swept' = IF pver[p] < global.version THEN swept \cup {<<p, content[p]>>} ELSE swept
  BY Zenon DEF SweepInner, SweepLeaf, SweepPage, txns
<1>2. p \in todo /\ global.phase = "Sweep" /\ Pending /\ Pending' /\ Last' = Last
  BY <1>1, Zenon DEF SweepInner, SweepLeaf, SweepPage, PhaseOf, Pending, Last
<1>3. global.version \in Nat /\ pver[p] <= global.version /\ pver[p] \in Int
      /\ \A c \in content[p] : c[2] \in Nat
  BY DEF IInv, TypeOK, PageVersions, NoPage
<1>4. \A q \in Pages : InSnap(q)' = InSnap(q) /\ ByUser(q)' = ByUser(q)
  BY <1>1, <1>2, Zenon DEF InSnap, ByUser, Prefix
<1>5. \A im : Right(im)' = Right(im)
  BY <1>1, <1>2, Zenon DEF Right, InSnap, Prefix
<1>6. \A q \in Pages : Covered(q) => Covered(q)'
  BY <1>1, <1>4, Zenon DEF Covered
<1>7. InSnap(p) => Covered(p)'
  <2>1. CASE pver[p] < global.version
    <3>1. <<p, content[p]>> \in swept' /\ <<p, content[p]>>[1] = p
      BY <1>1, <2>1, Zenon
    <3> QED
      BY <3>1, Zenon DEF Covered
  <2>2. CASE pver[p] = global.version
    BY <1>2, <1>4, <2>2, Zenon DEF Covered, RaisedImaged
  <2> QED
    BY <1>3, <2>1, <2>2
<1>8. ASSUME pver[p] < global.version PROVE Right(<<p, content[p]>>)
  <2>1. \A c \in content[p] : c[2] <= Last
    BY <1>2, <1>3, <1>8 DEF OldIsPrefix, Last
  <2>2. Prefix(p, Last) = content[p]
    BY <2>1, Zenon DEF Prefix
  <2> QED
    BY <1>2, <2>2, Zenon DEF Right, InSnap, PageVersions, SweptSoFar, Exists
<1>9. PageVersions' /\ OldIsPrefix' /\ FinishedBelow'
  BY <1>1, <1>2, Zenon DEF PageVersions, OldIsPrefix, FinishedBelow
<1>10. RaisedImaged'
  BY <1>1, <1>4, Zenon DEF RaisedImaged
<1>11. SweptSoFar'
  BY <1>1, <1>2, <1>4, <1>6, <1>7, Zenon DEF SweptSoFar, Pages, PhaseOf, Exists
<1>12. SnapshotConsistent'
  BY <1>1, Zenon DEF SnapshotConsistent, Prefix
<1>13. ImagesRight'
  BY <1>1, <1>2, <1>5, <1>8, Zenon DEF ImagesRight
<1> QED
  BY <1>9, <1>10, <1>11, <1>12, <1>13, Zenon

\* The two sets of images are, together, one image of every page of the snapshot.
LEMMA MergedIsPrefix ==
  ASSUME IInv, PInv, global.phase = "Rest", Pending
  PROVE  Merged = {<<p, Prefix(p, Last)>> : p \in {q \in Pages : InSnap(q)}}
<1> DEFINE Wanted == {<<p, Prefix(p, Last)>> : p \in {q \in Pages : InSnap(q)}}
<1>1. ASSUME NEW im \in UserImages \cup swept PROVE im[1] \in Pages /\ im = <<im[1], im[2]>> /\ Right(im)
  <2>1. im \in Image
    BY DEF IInv, TypeOK, UserImages
  <2>2. im[1] \in Pages /\ im = <<im[1], im[2]>>
    BY <2>1 DEF Image
  <2>3. Right(im)
    BY Zenon DEF PInv, ImagesRight, UserImages
  <2> QED
    BY <2>2, <2>3, Zenon
<1>2. ASSUME NEW im \in UserImages \cup swept PROVE im = <<im[1], Prefix(im[1], Last)>> /\ im \in Wanted
  BY <1>1, Zenon DEF Right
<1>3. Merged \subseteq Wanted
  BY <1>2, Zenon DEF Merged
<1>4. ASSUME NEW p \in Pages, InSnap(p) PROVE <<p, Prefix(p, Last)>> \in Merged
  <2>1. Covered(p)
    BY <1>4, Zenon DEF PInv, SweptSoFar
  <2>2. CASE \E u \in UserImages : u[1] = p
    BY <1>2, <2>2, Zenon DEF Merged
  <2>3. CASE ~ \E u \in UserImages : u[1] = p
    <3>1. PICK im \in swept : im[1] = p
      BY <2>1, <2>3, Zenon DEF Covered, ByUser, UserImages
    <3> QED
      BY <1>2, <2>3, <3>1, Zenon DEF Merged
  <2> QED
    BY <2>2, <2>3, Zenon
<1> QED
  BY <1>3, <1>4, Zenon

\* finalize adds the snapshot and drops the images.
LEMMA FinalizeKeeps == ASSUME IInv, SInv, finalize PROVE PInv'
<1> USE DEF PInv, SInv
<1>1. /\ UNCHANGED <<global, content, pver, todo>> /\ mpc' = "finish" /\ global.phase = "Rest"
      /\ mappings' = [s \in Slots |-> {}] /\ swept' = {} /\ Pending /\ ~Pending' /\ Last' = Last
      /\ snaps' = [v \in DOMAIN snaps \cup {Last} |-> IF v = Last THEN Merged ELSE snaps[v]]
  BY Zenon DEF finalize, txns, Pending, Outside, Last
<1>2. global.version \in Nat
  BY Zenon DEF IInv, TypeOK
<1>3. PageVersions' /\ ImagesRight' /\ OldIsPrefix' /\ RaisedImaged'
  BY <1>1, Zenon DEF PageVersions, ImagesRight, OldIsPrefix, RaisedImaged
<1>4. SweptSoFar'
  BY <1>1, Zenon DEF SweptSoFar, Exists
<1>5. FinishedBelow'
  BY <1>1, <1>2 DEF FinishedBelow, Last
<1>6. SnapshotConsistent'
  <2> SUFFICES ASSUME NEW v \in DOMAIN snaps \cup {Last}
               PROVE  snaps'[v] = {<<p, Prefix(p, v)>> :
                                     p \in {q \in Pages : q \in InitialPages \/ Prefix(q, v) # {}}}
    BY <1>1, Zenon DEF SnapshotConsistent, Prefix
  <2>1. CASE v = Last
    BY <1>1, <2>1, MergedIsPrefix, Zenon DEF InSnap
  <2>2. CASE v # Last
    BY <1>1, <2>2, Zenon DEF SnapshotConsistent
  <2> QED
    BY <2>1, <2>2, Zenon
<1> QED
  BY <1>3, <1>4, <1>5, <1>6, Zenon

-----------------------------------------------------------------------------
\* A transaction changes the pages (Write), or leaves only their new versions behind
\* (GiveUp): what the CPR rule lets it do in each phase.
Touches(t) ==
  /\ UNCHANGED <<global, mpc, todo, swept, snaps>>
  /\ mappings' = [mappings EXCEPT ![slot[t]] = @ \cup {<<p, content[p]>> : p \in Imaged(t)}]
  /\ \A p \in Pages :
       /\ p \notin wset[t] => content'[p] = content[p] /\ pver'[p] = pver[p]
       /\ p \in wset[t] /\ pver[p] # NoPage =>
            /\ content'[p] \in {content[p], content[p] \cup {<<t, guard[t].version>>}}
            /\ pver'[p] = IF p \in Raised(t) THEN guard[t].version ELSE pver[p]
       /\ p \in wset[t] /\ pver[p] = NoPage =>
            \/ content'[p] = content[p] /\ pver'[p] = pver[p]
            \/ content'[p] = content[p] \cup {<<t, guard[t].version>>} /\ pver'[p] = guard[t].version

\* Write and GiveUp do no more than that.
LEMMA TouchSteps ==
  ASSUME IInv, SInv, NEW t \in Txns, Write(t) \/ GiveUp(t)
  PROVE  Touches(t)
<1>1. TypeOK /\ GuardReal /\ pc[t] = "write" /\ slot[t] \in Slots
  BY Zenon DEF IInv, TypeOK, Write, GiveUp
<1>2. guard[t].version \in Nat
  BY <1>1, Zenon DEF GuardReal
<1>3. \A p \in wset[t] : p \in Pages /\ (pver[p] = NoPage => p \in Raised(t))
  BY <1>1, <1>2 DEF TypeOK, Raised, Exists, NoPage
<1>4. Raised(t) \subseteq wset[t] /\ Imaged(t) \subseteq Raised(t) /\ wset[t] \subseteq Pages
      /\ \A p \in Imaged(t) : Exists(p)
  BY <1>1, Zenon DEF Raised, Imaged, TypeOK
<1>5. CASE Write(t)
  <2>1. Imaged(t) \cap Pages = Imaged(t) /\ Raised(t) \cap Pages = Raised(t)
    BY <1>4, Zenon
  <2> QED
    BY <1>1, <1>2, <1>3, <1>4, <1>5, <2>1, Zenon DEF Write, CprRule, Touches, mgrVars, TypeOK
<1>6. CASE GiveUp(t)
  <2>1. Imaged(t) \cap {p \in Pages : Exists(p)} = Imaged(t)
    BY <1>4, Zenon
  <2> QED
    BY <1>1, <1>2, <1>3, <1>4, <1>6, <2>1, Zenon
       DEF GiveUp, CprRule, Touches, mgrVars, TypeOK, Exists
<1> QED
  BY <1>5, <1>6, Zenon

\* The state it does so in: its own is that of now or the one before, and no page of
\* its own is above it.
LEMMA TouchState ==
  ASSUME IInv, SInv, NEW t \in Txns, Write(t) \/ GiveUp(t)
  PROVE  /\ slot[t] \in Slots /\ guard[t].phase \in Phases /\ guard[t].version \in Nat /\ global.version \in Nat
         /\ \A p \in wset[t] : p \in Pages /\ pver[p] <= guard[t].version
         /\ \/ guard[t].version = global.version /\ guard[t].phase # "Prepare"
            \/ guard[t].version = global.version /\ guard[t].phase = "Prepare" /\ ~Pending
            \/ /\ guard[t].version = Last /\ guard[t].phase = "Prepare" /\ global.phase = "InProgress"
               /\ mpc \notin Settled
         /\ ~Pending => guard[t].phase \in {"Rest", "Prepare"}
         /\ guard[t].phase = "Rest" => ~Pending \/ global.phase = "Rest"
<1>1. TypeOK /\ GuardReal /\ pc[t] = "write" /\ valid[t]
  BY Zenon DEF IInv, Write, GiveUp
<1>2. /\ slot[t] \in Slots /\ guard[t].phase \in Phases /\ guard[t].version \in Nat
      /\ global.version \in Nat /\ global.phase \in Phases
  BY <1>1, Zenon DEF TypeOK, GuardReal
<1>3. \A p \in wset[t] : p \in Pages /\ pver[p] <= guard[t].version
  BY <1>1, Zenon DEF TypeOK, SInv, VersionsBelow, Guarded
<1>4. guard[t] = global \/ (mpc \notin Settled /\ advance_global_state(guard[t]) = global)
  BY <1>1, Zenon DEF SInv, GuardNow
<1>5. CASE guard[t] = global
  BY <1>2, <1>3, <1>5, Zenon DEF Pending, Phases
<1>6. CASE mpc \notin Settled /\ advance_global_state(guard[t]) = global
  <2>1. mpc \notin Outside
    BY <1>6, Zenon DEF Settled
  <2>2. CASE guard[t].phase = "Rest"
    BY <1>2, <1>3, <1>6, <2>2, Zenon DEF advance_global_state, State, Pending
  <2>3. CASE guard[t].phase = "Prepare"
    <3>1. global.phase = "InProgress" /\ global.version = guard[t].version + 1
      BY <1>6, <2>3, Zenon DEF advance_global_state, State
    <3> QED
      BY <1>2, <1>3, <1>6, <2>3, <3>1 DEF Pending, Last
  <2>4. CASE guard[t].phase = "InProgress"
    BY <1>2, <1>3, <1>6, <2>4, Zenon DEF advance_global_state, State, Pending
  <2>5. CASE guard[t].phase = "Sweep"
    BY <1>2, <1>3, <1>6, <2>1, <2>5, Zenon DEF advance_global_state, State, Pending
  <2> QED
    BY <1>2, <2>2, <2>3, <2>4, <2>5, Zenon DEF Phases
<1> QED
  BY <1>4, <1>5, <1>6, Zenon

\* A change at a version leaves the prefixes below it, and an image of a page it does
\* not touch, as they are.
LEMMA PrefixStable ==
  ASSUME NEW t \in Txns, Touches(t), NEW p \in Pages, NEW v,
         (guard[t].version \in Int /\ v \in Int /\ v < guard[t].version) \/ p \notin wset[t]
  PROVE  Prefix(p, v)' = Prefix(p, v)
<1>1. \/ content'[p] = content[p]
      \/ p \in wset[t] /\ content'[p] = content[p] \cup {<<t, guard[t].version>>}
  BY Zenon DEF Touches
<1>2. CASE content'[p] = content[p]
  BY <1>2, Zenon DEF Prefix
<1>3. CASE p \in wset[t] /\ content'[p] = content[p] \cup {<<t, guard[t].version>>}
  <2>1. ~(guard[t].version <= v)
    BY <1>3
  <2> QED
    BY <1>3, <2>1 DEF Prefix
<1> QED
  BY <1>1, <1>2, <1>3, Zenon

\* A change keeps the images right, leaves one of every page it raises, and keeps the
\* finished snapshots.
LEMMA TouchKeeps ==
  ASSUME IInv, SInv, NEW t \in Txns, Write(t) \/ GiveUp(t)
  PROVE  PInv'
<1> DEFINE G == guard[t].version
           V == global.version
<1>1. Touches(t)
  BY TouchSteps, Zenon
<1>2. /\ slot[t] \in Slots /\ guard[t].phase \in Phases /\ G \in Nat /\ V \in Nat
      /\ \A p \in wset[t] : p \in Pages /\ pver[p] <= G
      /\ \/ G = V /\ guard[t].phase # "Prepare"
         \/ G = V /\ guard[t].phase = "Prepare" /\ ~Pending
         \/ G = Last /\ guard[t].phase = "Prepare" /\ global.phase = "InProgress" /\ mpc \notin Settled
      /\ ~Pending => guard[t].phase \in {"Rest", "Prepare"}
      /\ guard[t].phase = "Rest" => ~Pending \/ global.phase = "Rest"
  BY TouchState, Zenon
<1>3. UNCHANGED <<global, mpc, todo, swept, snaps>> /\ Pending' = Pending /\ Last' = Last /\ Last = V - 1
  BY <1>1, Zenon DEF Touches, Pending, Last
<1>4. /\ pver \in [Pages -> Nat \cup {NoPage}] /\ NoPage = -1 /\ mappings \in [Slots -> SUBSET Image]
      /\ \A p \in Pages : \A c \in content[p] : c[2] \in Nat
  BY DEF IInv, TypeOK, NoPage
<1>5. PageVersions /\ OldIsPrefix /\ ImagesRight /\ RaisedImaged /\ SweptSoFar /\ FinishedBelow
      /\ SnapshotConsistent
  BY Zenon DEF SInv, PInv
<1>6. \A p \in Pages : pver'[p] \in Nat \cup {NoPage} /\ pver[p] <= pver'[p] /\ pver'[p] <= V
  BY <1>1, <1>2, <1>3, <1>4, <1>5 DEF Touches, PageVersions, Raised
<1>7. \A p \in Pages : G = V \/ p \notin wset[t] =>
        Prefix(p, Last)' = Prefix(p, Last) /\ InSnap(p)' = InSnap(p)
  <2>1. Last \in Int /\ Last < V
    BY <1>2, <1>3
  <2>2. \A p \in Pages : G = V \/ p \notin wset[t] => Prefix(p, Last)' = Prefix(p, Last)
    <3> SUFFICES ASSUME NEW p \in Pages, G = V \/ p \notin wset[t]
                 PROVE  Prefix(p, Last)' = Prefix(p, Last)
      BY Zenon
    <3>1. {c \in content'[p] : c[2] <= Last} = {c \in content[p] : c[2] <= Last}
      BY <1>1, <1>2, <2>1, PrefixStable DEF Prefix
    <3> QED
      BY <1>3, <3>1, Zenon DEF Prefix
  <2> QED
    BY <2>2, Zenon DEF InSnap
<1>8. PageVersions'
  <2> SUFFICES ASSUME NEW p \in Pages
               PROVE  /\ pver'[p] = NoPage => content'[p] = {} /\ p \notin InitialPages
                      /\ pver'[p] # NoPage => content'[p] # {} \/ p \in InitialPages
                      /\ \A c \in content'[p] : c[2] <= V
    BY <1>3, <1>6, Zenon DEF PageVersions
  <2>1. \A c \in content'[p] : c \in content[p] \/ c[2] = G
    BY <1>1 DEF Touches
  <2>2. content[p] \subseteq content'[p] /\ G <= V
    BY <1>1, <1>2, <1>3 DEF Touches
  <2>3. pver'[p] = NoPage => pver[p] = NoPage /\ content'[p] = content[p]
    BY <1>1, <1>2, <1>4, <1>6 DEF Touches
  <2>4. pver'[p] # NoPage /\ pver[p] = NoPage => content'[p] # {}
    BY <1>1, Zenon DEF Touches
  <2> QED
    BY <1>5, <2>1, <2>2, <2>3, <2>4, Zenon DEF PageVersions
<1>9. OldIsPrefix'
  <2> SUFFICES ASSUME Pending, NEW p \in Pages, pver'[p] < V, NEW c \in content'[p]
               PROVE  c[2] < V
    BY <1>3, Zenon DEF OldIsPrefix
  <2>1. pver[p] < V
    BY <1>2, <1>4, <1>6
  <2>2. CASE c \in content[p]
    BY <1>5, <2>1, <2>2, Zenon DEF OldIsPrefix
  <2>3. CASE c \notin content[p]
    <3>1. p \in wset[t] /\ c[2] = G
      BY <1>1, <2>3 DEF Touches
    <3>2. CASE pver[p] = NoPage
      BY <1>1, <1>2, <2>3, <3>1, <3>2, Zenon DEF Touches
    <3>3. CASE pver[p] # NoPage
      <4>1. G = V => p \in Raised(t)
        BY <1>2, <1>3, <2>1, <3>1 DEF Raised
      <4> QED
        BY <1>1, <1>2, <1>3, <3>1, <3>3, <4>1 DEF Touches
    <3> QED
      BY <3>2, <3>3, Zenon
  <2> QED
    BY <2>2, <2>3, Zenon
<1>10. ASSUME NEW im, im[1] \in Pages, Right(im), G = V \/ im[1] \notin wset[t] PROVE Right(im)'
  BY <1>7, <1>10, Zenon DEF Right
<1>11. ASSUME NEW p \in Imaged(t)
       PROVE  Pending /\ p \in Pages /\ pver'[p] = V /\ G = V /\ Right(<<p, content[p]>>)
  <2>1. /\ p \in wset[t] /\ p \in Pages /\ p \in Raised(t) /\ pver[p] < G /\ pver[p] # NoPage
        /\ guard[t].phase \in {"InProgress", "Sweep"}
    BY <1>2, Zenon DEF Imaged, Raised, Exists
  <2>2. Pending /\ G = V /\ pver'[p] = V
    BY <1>1, <1>2, <2>1, Zenon DEF Touches
  <2>3. \A c \in content[p] : c[2] <= Last
    BY <1>2, <1>3, <1>4, <1>5, <2>1, <2>2 DEF OldIsPrefix
  <2>4. Prefix(p, Last) = content[p]
    BY <2>3, Zenon DEF Prefix
  <2> QED
    BY <1>5, <2>1, <2>2, <2>4, Zenon DEF Right, InSnap, PageVersions
<1>12. ImagesRight'
  <2>1. ASSUME NEW s \in Slots, NEW im \in mappings'[s]
        PROVE  Pending /\ pver'[im[1]] = V /\ Right(im)'
    <3>1. CASE im \in mappings[s]
      <4>1. Pending /\ pver[im[1]] = V /\ Right(im)
        BY <1>5, <3>1, Zenon DEF ImagesRight
      <4>2. im[1] \in Pages
        BY <1>4, <3>1 DEF Image
      <4>3. G = V \/ im[1] \notin wset[t]
        BY <1>2, <1>3, <4>1
      <4>4. pver'[im[1]] = V
        BY <1>2, <1>4, <1>6, <4>1, <4>2
      <4> QED
        BY <1>10, <4>1, <4>2, <4>3, <4>4, Zenon
    <3>2. CASE im \notin mappings[s]
      <4>1. PICK p \in Imaged(t) : im = <<p, content[p]>>
        BY <1>1, <1>2, <1>4, <3>2, Zenon DEF Touches
      <4>2. im[1] = p
        BY <4>1, Zenon
      <4> QED
        BY <1>10, <1>11, <4>1, <4>2, Zenon
    <3> QED
      BY <3>1, <3>2, Zenon
  <2>2. ASSUME NEW im \in swept PROVE Pending /\ Right(im)'
    <3>1. Pending /\ Right(im) /\ im[1] \in Pages
      BY <1>5, Zenon DEF ImagesRight, IInv, TypeOK, Image
    <3>2. G = V
      BY <1>2, <1>5, Zenon DEF ImagesRight, Settled
    <3> QED
      BY <1>10, <3>1, <3>2, Zenon
  <2> QED
    BY <1>3, <1>5, <2>1, <2>2, Zenon DEF ImagesRight
<1>13. \A p \in Pages : (ByUser(p) => ByUser(p)') /\ (Covered(p) => Covered(p)')
  <2>1. \A s \in Slots : mappings[s] \subseteq mappings'[s]
    BY <1>1, <1>2, <1>4, Zenon DEF Touches
  <2> QED
    BY <1>3, <2>1, Zenon DEF ByUser, Covered
<1>14. RaisedImaged'
  <2> SUFFICES ASSUME global.phase \in {"InProgress", "Sweep"}, NEW p \in Pages, pver'[p] = V, InSnap(p)'
               PROVE  ByUser(p)'
    BY <1>3, Zenon DEF RaisedImaged
  <2>1. Pending
    BY Zenon DEF Pending
  <2>2. CASE pver[p] = V
    <3>1. InSnap(p)
      BY <1>2, <1>3, <1>7, <2>2
    <3> QED
      BY <1>5, <1>13, <2>2, <3>1, Zenon DEF RaisedImaged
  <2>3. CASE pver[p] # V
    <3>1. p \in wset[t] /\ G = V
      BY <1>1, <1>2, <1>4, <2>3, Zenon DEF Touches
    <3>2. InSnap(p)
      BY <1>7, <3>1, Zenon
    <3>3. pver[p] # NoPage
      BY <1>5, <3>2, Zenon DEF InSnap, Prefix, PageVersions
    <3>4. p \in Imaged(t)
      BY <1>1, <1>2, <1>3, <2>1, <2>3, <3>1, <3>3, Zenon DEF Touches, Imaged, Raised, Exists, Phases
    <3>5. <<p, content[p]>> \in mappings'[slot[t]] /\ <<p, content[p]>>[1] = p
      BY <1>1, <1>2, <1>4, <3>4, Zenon DEF Touches
    <3> QED
      BY <1>2, <3>5, Zenon DEF ByUser
  <2> QED
    BY <2>2, <2>3, Zenon
<1>15. SweptSoFar'
  <2>1. \A p \in todo : Exists(p)'
    BY <1>2, <1>4, <1>5, <1>6 DEF SweptSoFar, Exists, IInv, TypeOK
  <2>2. ASSUME mpc \in {"inner", "iter", "leaves"} \/ global.phase = "Rest"
        PROVE  \A p \in Pages : InSnap(p)' = InSnap(p)
    BY <1>2, <1>7, <2>2, Zenon DEF Settled
  <2> QED
    BY <1>3, <1>5, <1>13, <2>1, <2>2, Zenon DEF SweptSoFar, Pages
<1>16. SnapshotConsistent'
  <2> SUFFICES ASSUME NEW v \in DOMAIN snaps
               PROVE  \A p \in Pages : Prefix(p, v)' = Prefix(p, v)
    BY <1>3, <1>5, Zenon DEF SnapshotConsistent
  <2>1. v \in Int /\ v < G
    BY <1>2, <1>3, <1>5, Zenon DEF FinishedBelow, Pending
  <2> QED
    BY <1>1, <1>2, <2>1, PrefixStable
<1>17. FinishedBelow'
  BY <1>3, <1>5, Zenon DEF FinishedBelow
<1> QED
  BY <1>8, <1>9, <1>12, <1>14, <1>15, <1>16, <1>17, Zenon DEF PInv

-----------------------------------------------------------------------------
\* At the start there is no image, and every page that exists is of version 0.
LEMMA InitSInv == Init => SInv
<1> SUFFICES ASSUME Init PROVE SInv
  BY Zenon
<1> USE DEF Init
<1>1. global.phase = "Rest" /\ global.version = 0 /\ ~Pending
  BY Zenon DEF State, Pending, Outside
<1>2. PageVersions
  BY <1>1, PagesAssumption DEF PageVersions, NoPage
<1>3. LatchesExclude /\ VersionsBelow /\ GuardNow
  BY Zenon DEF LatchesExclude, VersionsBelow, GuardNow, Guarded
<1>4. PhaseOf /\ ImagesRight /\ OldIsPrefix /\ RaisedImaged /\ SweptSoFar
  BY <1>1, Zenon DEF PhaseOf, ImagesRight, OldIsPrefix, RaisedImaged, SweptSoFar
<1>5. FinishedBelow /\ SnapshotConsistent
  BY Zenon DEF FinishedBelow, SnapshotConsistent
<1> QED
  BY <1>2, <1>3, <1>4, <1>5, Zenon DEF SInv, PInv

\* SInv is inductive, with IInv.
LEMMA StepSInv == IInv /\ IInv' /\ SInv /\ [Next]_vars => SInv'
<1> SUFFICES ASSUME IInv, IInv', SInv, [Next]_vars PROVE SInv'
  BY Zenon
<1>1. Kind
  BY StepKind, Zenon DEF IInv, Kind
<1>2. LatchesExclude' /\ VersionsBelow' /\ PhaseOf' /\ GuardNow'
  BY <1>1, StepLatches, StepBelow, StepPhaseOf, StepGuardNow, Zenon DEF IInv, SInv, PInv
<1>3. PInv'
  <2>1. CASE \/ \E t \in Txns : Latch(t) \/ Refused(t) \/ LoadGlobal(t) \/ ClearLocal(t) \/ Wake(t) \/ Moves(t)
             \/ Waits \/ UNCHANGED vars
    BY <2>1, QuietSteps, Zenon DEF IInv, SInv
  <2>2. ASSUME NEW t \in Txns, Write(t) \/ GiveUp(t) PROVE PInv'
    BY <2>2, TouchKeeps, Zenon
  <2>3. CASE Open
    BY <2>3, BeginKeeps, Zenon
  <2>4. CASE Advance
    BY <2>4, BeginKeeps, SweepMoves, Zenon DEF Advance
  <2>5. CASE Drained \/ Resume \/ PageTableIter \/ EndSweep
    BY <2>5, SweepMoves, Zenon
  <2>6. CASE finalize
    BY <2>6, FinalizeKeeps, Zenon
  <2>7. ASSUME NEW p \in Pages, SweepInner(p) \/ SweepLeaf(p) PROVE PInv'
    BY <2>7, SweepKeeps, Zenon
  <2> QED
    BY <1>1, <2>1, <2>2, <2>3, <2>4, <2>5, <2>6, <2>7, Zenon DEF Kind
<1> QED
  BY <1>2, <1>3, Zenon DEF SInv

\* SInv holds in every state of every behaviour.
LEMMA SnapshotInvariance == Spec => []SInv
<1>1. Init => IInv /\ SInv
  BY InitIInv, InitSInv, Zenon
<1>2. (IInv /\ SInv) /\ [Next]_vars => (IInv /\ SInv)'
  BY StepIInv, StepSInv, Zenon
<1> QED
  BY <1>1, <1>2, PTL DEF Spec

\* Whatever the number of threads, slots, pages and snapshots, and however calls,
\* splits and the manager's phases and sweep interleave: a finished snapshot of
\* version v holds, of every page, exactly the changes made at versions up to v, and
\* no page besides.
THEOREM SnapshotIsPrefix == Spec => []SnapshotConsistent
  BY SnapshotInvariance, PTL DEF SInv, PInv

\* The restart of a PREPARE transaction on a page of a later version is never taken by
\* one whose inner nodes are as it read them: its pages are latched or read before the
\* guard's state is loaded.
THEOREM NeverConflicts == Spec => []NoConflict
<1>1. SInv => NoConflict
  BY Zenon DEF SInv, VersionsBelow, Guarded, NoConflict
<1> QED
  BY <1>1, SnapshotInvariance, PTL
=============================================================================
