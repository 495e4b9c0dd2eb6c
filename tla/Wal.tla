--------------------------------- MODULE Wal ---------------------------------
(***************************************************************************)
(* The write-ahead log (src/src/wal/mod.rs): threads in append_and_wait,   *)
(* the background job that flushes, and what WalReader finds in the file.  *)
(*                                                                         *)
(* Memory is counted in cells of 8 bytes.  A log entry is a header of      *)
(* three cells (log_len, lsn, page_offset) and its data.  The buffer is    *)
(* never erased: after a segment is full its old entries stay behind the   *)
(* cursor.  Every critical section of the mutex is one step.               *)
(*                                                                         *)
(* A crash is not a step: what it leaves is the file, and the properties   *)
(* speak of the file in every state.                                       *)
(***************************************************************************)
EXTENDS Integers, Sequences

CONSTANTS
  Threads,      \* threads that append
  Size,         \* buffer_size: segment_size in cells
  Lengths,      \* required_bytes of the entries, in cells
  MaxLsn        \* bound: the number of entries appended

Header == 3     \* LogHeader::size()
Junk == -1      \* data, or memory nobody has written

ASSUME SizeAssumption == Size \in Nat /\ MaxLsn \in Nat
ASSUME LengthsAssumption == Lengths \subseteq Header + 1 .. Size

VARIABLES
  buffer, buffer_cursor, file_offset,   \* WriteAheadLogInner; file_offset in segments
  next_lsn, flushed_lsn, need_flush,
  file,                  \* the segments written
  job,                   \* the background job: "running" or "stopped"
  background_job_running,
  pc, len, lsn,          \* per thread: place, the entry's length and lsn
  log                    \* history: every entry appended, in order

inner == <<buffer, buffer_cursor, file_offset, next_lsn, flushed_lsn, need_flush>>
vars == <<inner, file, job, background_job_running, pc, len, lsn, log>>

Cells == 0 .. Size - 1
Entry == [lsn : 0 .. MaxLsn, len : Lengths]

Init ==
  /\ buffer = [c \in Cells |-> Junk] /\ buffer_cursor = 0 /\ file_offset = 0
  /\ next_lsn = 0 /\ flushed_lsn = 0 /\ need_flush = FALSE
  /\ file = <<>>
  /\ job = "running" /\ background_job_running = TRUE
  /\ pc = [t \in Threads |-> "idle"]
  /\ len = [t \in Threads |-> 0] /\ lsn = [t \in Threads |-> 0]
  /\ log = <<>>

(***************************************************************************)
(* append_and_wait.                                                        *)
(***************************************************************************)
Call(t) ==
  /\ pc[t] = "idle" /\ background_job_running
  /\ \E l \in Lengths : len' = [len EXCEPT ![t] = l]
  /\ pc' = [pc EXCEPT ![t] = "append"]
  /\ UNCHANGED <<inner, file, job, background_job_running, lsn, log>>

\* Mutant: required_bytes without the header.
FitsData(t) == len[t] - Header <= Size - buffer_cursor

Fits(t) == len[t] <= Size - buffer_cursor

\* No room: ask for a flush and try again.  wait_while goes on waiting while
\* need_flush is FALSE; it has just been set, so there is no wait.
Full(t) ==
  /\ pc[t] \in {"append", "retry"} /\ ~Fits(t)
  /\ need_flush' = TRUE
  /\ pc' = [pc EXCEPT ![t] = "retry"]
  /\ UNCHANGED <<buffer, buffer_cursor, file_offset, next_lsn, flushed_lsn, file, job,
                 background_job_running, len, lsn, log>>

\* The cells of an entry.
LogCell(n, l, i) == CASE i = 0 -> l [] i = 1 -> n [] OTHER -> Junk

\* The entry is written, and its thread waits unless flushed_lsn is there already.
Write(t) ==
  /\ pc[t] \in {"append", "retry"} /\ Fits(t) /\ next_lsn < MaxLsn
  /\ buffer' = [c \in Cells |-> IF c \in buffer_cursor .. buffer_cursor + len[t] - 1
                                THEN LogCell(next_lsn, len[t], c - buffer_cursor)
                                ELSE buffer[c]]
  /\ buffer_cursor' = buffer_cursor + len[t]
  /\ next_lsn' = next_lsn + 1
  /\ lsn' = [lsn EXCEPT ![t] = next_lsn]
  /\ log' = Append(log, [lsn |-> next_lsn, len |-> len[t]])
  /\ pc' = [pc EXCEPT ![t] = IF flushed_lsn < next_lsn THEN "asleep" ELSE "return"]
  /\ UNCHANGED <<file_offset, flushed_lsn, need_flush, file, job, background_job_running, len>>

\* Awake, with the mutex again.
Recheck(t) ==
  /\ pc[t] = "awake"
  /\ pc' = [pc EXCEPT ![t] = IF flushed_lsn < lsn[t] THEN "asleep" ELSE "return"]
  /\ UNCHANGED <<inner, file, job, background_job_running, len, lsn, log>>

SpuriousWake(t) ==
  /\ pc[t] = "asleep"
  /\ pc' = [pc EXCEPT ![t] = "awake"]
  /\ UNCHANGED <<inner, file, job, background_job_running, len, lsn, log>>

Return(t) ==
  /\ pc[t] = "return"
  /\ pc' = [pc EXCEPT ![t] = "idle"]
  /\ len' = [len EXCEPT ![t] = 0] /\ lsn' = [lsn EXCEPT ![t] = 0]
  /\ UNCHANGED <<inner, file, job, background_job_running, log>>

(***************************************************************************)
(* The background job.                                                     *)
(***************************************************************************)
\* Mutant: the old entries behind the cursor are written with the new ones.
KeepNextHeader == buffer

clear_next_header ==
  IF buffer_cursor + 1 <= Size THEN [buffer EXCEPT ![buffer_cursor] = 0] ELSE buffer

\* Mutant: in place as long as there is any room.
InplaceUnlessFull == buffer_cursor < Size

should_inplace_flush == buffer_cursor < Size \div 2

\* Mutant: flushed_lsn is the lsn to come.
FlushOneAhead ==
  IF buffer_cursor = 0
  THEN UNCHANGED <<inner, file>>
  ELSE /\ buffer' = clear_next_header
       /\ file' = [s \in 1 .. file_offset + 1 |-> IF s = file_offset + 1 THEN buffer' ELSE file[s]]
       /\ IF should_inplace_flush
          THEN UNCHANGED <<file_offset, buffer_cursor>>
          ELSE file_offset' = file_offset + 1 /\ buffer_cursor' = 0
       /\ flushed_lsn' = next_lsn
       /\ need_flush' = FALSE
       /\ UNCHANGED next_lsn

\* A segment that is less than half full will be written again at the same place.
flush ==
  IF buffer_cursor = 0
  THEN UNCHANGED <<inner, file>>
  ELSE /\ buffer' = clear_next_header
       /\ file' = [s \in 1 .. file_offset + 1 |-> IF s = file_offset + 1 THEN buffer' ELSE file[s]]
       /\ IF should_inplace_flush
          THEN UNCHANGED <<file_offset, buffer_cursor>>
          ELSE file_offset' = file_offset + 1 /\ buffer_cursor' = 0
       /\ flushed_lsn' = next_lsn - 1
       /\ need_flush' = FALSE
       /\ UNCHANGED next_lsn

\* Mutant: the threads that wait are not told.
notify_nobody == UNCHANGED pc

notify_all == pc' = [t \in Threads |-> IF pc[t] = "asleep" THEN "awake" ELSE pc[t]]

\* A notification or the interval ends the wait; the job flushes if need_flush is
\* set or the interval has passed since the last flush, which may be at any time.
background_flush_job ==
  /\ job = "running" /\ background_job_running
  /\ flush
  /\ notify_all
  /\ UNCHANGED <<job, background_job_running, len, lsn, log>>

\* The tree is dropped: no call is under way.
stop_background_job ==
  /\ background_job_running /\ \A t \in Threads : pc[t] = "idle"
  /\ background_job_running' = FALSE
  /\ UNCHANGED <<inner, file, job, pc, len, lsn, log>>

Shutdown ==
  /\ job = "running" /\ ~background_job_running
  /\ job' = "stopped"
  /\ UNCHANGED <<inner, file, background_job_running, pc, len, lsn, log>>

-----------------------------------------------------------------------------
AppendStep(t) == Full(t) \/ Write(t) \/ Recheck(t) \/ Return(t)

\* The bound is reached, or the log is closed.
Done ==
  /\ job = "stopped" \/ next_lsn = MaxLsn
  /\ UNCHANGED vars

Next ==
  \/ \E t \in Threads : Call(t) \/ AppendStep(t) \/ SpuriousWake(t)
  \/ background_flush_job \/ stop_background_job \/ Shutdown
  \/ Done

Spec == Init /\ [][Next]_vars

\* Threads in a call go on; the job gets the mutex, and its interval passes.
FairSpec ==
  /\ Spec
  /\ \A t \in Threads : WF_vars(AppendStep(t))
  /\ WF_vars(background_flush_job)

(***************************************************************************)
(* WalReader.                                                              *)
(***************************************************************************)
\* The entries of one segment, from each cell on.  A length that no entry has, or that
\* goes past the segment, makes the iterator panic.
WalEntryIter(segment) ==
  LET next[o \in 0 .. Size] ==
        IF o + Header >= Size \/ segment[o] = 0 THEN <<>>
        ELSE IF segment[o] \notin Header .. Size - o THEN <<Junk>>
        ELSE <<[lsn |-> segment[o + 1], len |-> segment[o]]>> \o next[o + segment[o]]
  IN next
entry_iter(segment) == WalEntryIter(segment)[0]

\* The entries of the first segments of the file, one segment after the other.
WalSegmentIter(segments) ==
  LET read[s \in 0 .. Len(segments)] ==
        IF s = 0 THEN <<>> ELSE read[s - 1] \o entry_iter(segments[s])
  IN read
segment_iter == WalSegmentIter(file)[Len(file)]

-----------------------------------------------------------------------------
TypeOK ==
  /\ buffer \in [Cells -> Nat \cup {Junk}] /\ buffer_cursor \in 0 .. Size
  /\ file_offset \in Nat /\ Len(file) \in {file_offset, file_offset + 1}
  /\ file \in Seq([Cells -> Nat \cup {Junk}])
  /\ next_lsn \in 0 .. MaxLsn /\ flushed_lsn \in 0 .. MaxLsn /\ need_flush \in BOOLEAN
  /\ job \in {"running", "stopped"} /\ background_job_running \in BOOLEAN
  /\ pc \in [Threads -> {"idle", "append", "retry", "asleep", "awake", "return"}]
  /\ len \in [Threads -> Lengths \cup {0}] /\ lsn \in [Threads -> 0 .. MaxLsn]
  /\ log \in Seq(Entry)

\* The log file is always the one of a durable log: a reader of it after a crash
\* finds the entries appended up to some flush, all of them, each once and in
\* order, whatever WriteAheadLogInner::flush has left behind the cursor and
\* however often it has written a segment in place.
Durable == INSTANCE DurableLog WITH log <- log, stable <- segment_iter
ImplementsDurableLog == Durable!Spec

\* The lsn append_and_wait returns is a flushed one: a reader of the file finds the
\* entry.  The first entry is left out, see ReturnedIsFlushed.
OnFile(n) == \E i \in 1 .. Len(segment_iter) : segment_iter[i].lsn = n
LaterReturnedIsFlushed == \A t \in Threads : pc[t] = "return" /\ lsn[t] > 0 => OnFile(lsn[t])

\* "The returned flushed lsn" (the attribute of append_and_wait) without the
\* exception: flushed_lsn starts at 0, which is also the lsn of the first entry.
ReturnedIsFlushed == \A t \in Threads : pc[t] = "return" => OnFile(lsn[t])

\* Every entry that is written is acknowledged: the job's notification reaches
\* every thread that waits for its lsn.
Acknowledged == \A t \in Threads : pc[t] \in {"asleep", "awake"} ~> pc[t] = "return"

\* A thread that found the buffer full gets its room: a flush gives it a new
\* buffer ("by the time we wake up, the buffer maybe already full again").
RoomIsMade == \A t \in Threads : pc[t] = "retry" ~> (pc[t] # "retry" \/ next_lsn = MaxLsn)
=============================================================================
