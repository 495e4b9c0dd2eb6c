------------------------------ MODULE DurableLog ------------------------------
(***************************************************************************)
(* What a write-ahead log promises: entries are added at the end, and a    *)
(* sync brings stable storage up to the whole log.  What is on stable      *)
(* storage is therefore a prefix of the log at every moment, and a crash   *)
(* loses a suffix.                                                         *)
(***************************************************************************)
EXTENDS Sequences

CONSTANT Entry
VARIABLES log, stable

Init == log = <<>> /\ stable = <<>>

Extend ==
  /\ \E e \in Entry : log' = Append(log, e)
  /\ UNCHANGED stable

Sync ==
  /\ stable' = log
  /\ UNCHANGED log

Next == Extend \/ Sync

Spec == Init /\ [][Next]_<<log, stable>>
=============================================================================
