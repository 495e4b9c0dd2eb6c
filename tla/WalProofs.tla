------------------------------ MODULE WalProofs ------------------------------
(***************************************************************************)
(* Proofs about Wal: the file is at every moment the log up to some flush, *)
(* and an append returns with its entry on file.                           *)
(*                                                                         *)
(* The reader of the file is a recursive function.  Its facts are proved   *)
(* by induction in the form of lemma Induction, over a set of numbers.     *)
(***************************************************************************)
EXTENDS Wal, SequenceTheorems, WellFoundedInduction, TLAPS

Segment == [Cells -> Nat \cup {Junk}]

\* The entries es lie one after the other in the cells below c.
Lie(segment, c, es, at) ==
  /\ at \in [1 .. Len(es) + 1 -> 0 .. Size]
  /\ at[1] = 0 /\ at[Len(es) + 1] = c
  /\ \A i \in 1 .. Len(es) :
       /\ at[i + 1] = at[i] + es[i].len
       /\ at[i + 1] <= c
       /\ segment[at[i]] = es[i].len /\ segment[at[i] + 1] = es[i].lsn
Holds(segment, c, es) == \E at : Lie(segment, c, es, at)

\* The entries of the segments that are finished, which no flush writes again.
Finished == WalSegmentIter(file)[file_offset]

\* The log is what is finished, followed by what is in the buffer.
BufferIsTail ==
  \E held \in Seq(Entry) : log = Finished \o held /\ Holds(buffer, buffer_cursor, held)

\* The lsn of an entry is its place in the log, and flushed_lsn is the last one on file.
Numbered ==
  /\ next_lsn = Len(log)
  /\ \A i \in 1 .. Len(log) : log[i].lsn = i - 1
  /\ segment_iter \in Seq(Entry)
  /\ \A i \in 1 .. Len(segment_iter) : segment_iter[i].lsn = i - 1
  /\ flushed_lsn = IF Len(segment_iter) = 0 THEN 0 ELSE Len(segment_iter) - 1

\* What a thread in a call knows.
ThreadOK(t) ==
  /\ pc[t] \in {"append", "retry"} => len[t] \in Lengths
  /\ pc[t] \in {"asleep", "awake", "return"} => lsn[t] < next_lsn
  /\ pc[t] = "return" => lsn[t] <= flushed_lsn

IInv ==
  /\ TypeOK
  /\ Finished \in Seq(Entry) /\ BufferIsTail
  /\ Numbered
  /\ \A t \in Threads : ThreadOK(t)

-----------------------------------------------------------------------------
\* Induction over the natural numbers, for a set of them.
LEMMA Induction ==
  ASSUME NEW S, 0 \in S, \A n \in S \cap Nat : n + 1 \in S
  PROVE  Nat \subseteq S
<1>. DEFINE R == {p \in Nat \X Nat : p[1] < p[2]}
           T == Nat \ S
<1>1. IsWellFoundedOn(R, Nat)
  BY NatLessThanWellFounded DEF OpToRel
<1>2. SUFFICES ASSUME T # {} PROVE FALSE
  BY Zenon
<1>3. T \subseteq Nat
  BY Zenon
<1>4. \E x \in T : \A y \in T : ~ (<<y, x>> \in R)
  <2>. HIDE DEF R, T
  <2>. QED  BY <1>1, <1>2, <1>3, WFMin, Zenon
<1>5. PICK x \in T : \A y \in T : ~ (<<y, x>> \in R)
  BY <1>4, Zenon
<1>6. x \in Nat /\ x # 0 /\ x \notin S
  BY <1>5, Zenon DEF T
<1>7. x - 1 \in Nat /\ x - 1 < x /\ (x - 1) + 1 = x
  BY <1>6
<1>8. <<x - 1, x>> \in R
  BY <1>6, <1>7
<1>. QED  BY <1>5, <1>6, <1>7, <1>8

-----------------------------------------------------------------------------
\* The reader.  One step of WalEntryIter.
NextEntry(segment, o, f) ==
  IF o + Header >= Size \/ segment[o] = 0 THEN <<>>
  ELSE IF segment[o] \notin Header .. Size - o THEN <<Junk>>
  ELSE <<[lsn |-> segment[o + 1], len |-> segment[o]]>> \o f[o + segment[o]]

\* f reads as WalEntryIter does, in the last n cells.
ReadsLast(segment, n, f) ==
  \A o \in 0 .. Size : o + n >= Size => f[o] = NextEntry(segment, o, f)

\* What is read from a cell on depends on what is read from later cells only.
LEMMA NextEntryLocal ==
  ASSUME NEW segment, NEW f, NEW g, NEW o \in 0 .. Size, \A p \in 0 .. Size : p > o => f[p] = g[p]
  PROVE  NextEntry(segment, o, f) = NextEntry(segment, o, g)
<1>1. CASE o + Header >= Size \/ segment[o] = 0 \/ segment[o] \notin Header .. Size - o
  BY <1>1, Zenon DEF NextEntry
<1>2. CASE segment[o] \in Header .. Size - o
  <2>1. o + segment[o] \in 0 .. Size /\ o + segment[o] > o
    BY <1>2, SizeAssumption DEF Header
  <2>. QED  BY <2>1, Zenon DEF NextEntry
<1>. QED  BY <1>1, <1>2, Zenon

\* There is a function that reads a segment so.
LEMMA EntryReaderExists ==
  ASSUME NEW segment
  PROVE  \E f : f = [o \in 0 .. Size |-> NextEntry(segment, o, f)]
<1>. DEFINE S == {n \in Nat : \E f : f = [o \in 0 .. Size |-> f[o]] /\ ReadsLast(segment, n, f)}
<1>1. 0 \in S
  <2>. DEFINE f == [o \in 0 .. Size |-> <<>>]
  <2>1. ReadsLast(segment, 0, f)
    BY SizeAssumption DEF ReadsLast, NextEntry, Header
  <2>. QED  BY <2>1
<1>2. ASSUME NEW n \in S \cap Nat PROVE n + 1 \in S
  <2>1. PICK f : f = [o \in 0 .. Size |-> f[o]] /\ ReadsLast(segment, n, f)
    BY <1>2
  <2>. DEFINE g == [o \in 0 .. Size |-> IF o + n >= Size THEN f[o] ELSE NextEntry(segment, o, f)]
  <2>2. ASSUME NEW o \in 0 .. Size, o + (n + 1) >= Size
        PROVE  g[o] = NextEntry(segment, o, g)
    <3>1. \A p \in 0 .. Size : p > o => g[p] = f[p]
      BY <2>2, SizeAssumption
    <3>2. NextEntry(segment, o, f) = NextEntry(segment, o, g)
      <4>. HIDE DEF g
      <4>. QED  BY <3>1, NextEntryLocal, Zenon
    <3>3. g[o] = NextEntry(segment, o, f)
      BY <2>1, Zenon DEF ReadsLast
    <3>. QED  BY <3>2, <3>3, Zenon
  <2>3. ReadsLast(segment, n + 1, g)
    BY <2>2, Zenon DEF ReadsLast
  <2>4. g = [o \in 0 .. Size |-> g[o]] /\ n + 1 \in Nat
    OBVIOUS
  <2>. HIDE DEF g
  <2>. QED  BY <2>3, <2>4, Zenon
<1>. HIDE DEF S
<1>3. Size \in S
  BY <1>1, <1>2, Induction, SizeAssumption, Zenon
<1>4. PICK f : f = [o \in 0 .. Size |-> f[o]] /\ ReadsLast(segment, Size, f)
  BY <1>3 DEF S
<1>5. \A o \in 0 .. Size : o + Size >= Size
  BY SizeAssumption
<1>6. f = [o \in 0 .. Size |-> NextEntry(segment, o, f)]
  BY <1>4, <1>5, Zenon DEF ReadsLast
<1>. QED  BY <1>6, Zenon

\* WalEntryIter is that function.
LEMMA EntryReader ==
  ASSUME NEW segment, NEW o \in 0 .. Size
  PROVE  WalEntryIter(segment)[o] = NextEntry(segment, o, WalEntryIter(segment))
<1>1. WalEntryIter(segment) = [p \in 0 .. Size |-> NextEntry(segment, p, WalEntryIter(segment))]
  BY EntryReaderExists DEF WalEntryIter, NextEntry
<1>. QED  BY <1>1, Zenon

\* One step of WalSegmentIter.
NextSegment(segments, s, f) == IF s = 0 THEN <<>> ELSE f[s - 1] \o entry_iter(segments[s])

\* There is a function that reads the segments one after the other.
LEMMA SegmentReaderExists ==
  ASSUME NEW segments, NEW n \in Nat
  PROVE  \E f : f = [s \in 0 .. n |-> NextSegment(segments, s, f)]
<1>. DEFINE S == {m \in Nat : \E f : f = [s \in 0 .. m |-> NextSegment(segments, s, f)]}
<1>1. 0 \in S
  <2>. DEFINE f == [s \in 0 .. 0 |-> <<>>]
  <2>1. f = [s \in 0 .. 0 |-> NextSegment(segments, s, f)]
    BY DEF NextSegment
  <2>. QED  BY <2>1
<1>2. ASSUME NEW m \in S \cap Nat PROVE m + 1 \in S
  <2>1. PICK f : f = [s \in 0 .. m |-> NextSegment(segments, s, f)]
    BY <1>2
  <2>. DEFINE g == [s \in 0 .. m + 1 |-> IF s = m + 1 THEN f[m] \o entry_iter(segments[s]) ELSE f[s]]
  <2>2. \A s \in 0 .. m + 1 : g[s] = NextSegment(segments, s, g)
    BY <2>1 DEF NextSegment
  <2>3. g = [s \in 0 .. m + 1 |-> NextSegment(segments, s, g)] /\ m + 1 \in Nat
    BY <2>2
  <2>. HIDE DEF g
  <2>. QED  BY <2>3, Zenon
<1>. HIDE DEF S
<1>3. n \in S
  BY <1>1, <1>2, Induction, Zenon
<1>. QED  BY <1>3 DEF S

\* WalSegmentIter is that function.
LEMMA SegmentReader ==
  ASSUME NEW segments, Len(segments) \in Nat, NEW s \in 0 .. Len(segments)
  PROVE  WalSegmentIter(segments)[s] = NextSegment(segments, s, WalSegmentIter(segments))
<1>1. WalSegmentIter(segments) = [r \in 0 .. Len(segments) |-> NextSegment(segments, r, WalSegmentIter(segments))]
  BY SegmentReaderExists DEF WalSegmentIter, NextSegment
<1>. QED  BY <1>1, Zenon

\* What is read of the first n segments depends on no other.
LEMMA SameSegments ==
  ASSUME NEW a, NEW b, Len(a) \in Nat, Len(b) \in Nat,
         NEW n \in 0 .. Len(a), n <= Len(b), \A s \in 1 .. n : a[s] = b[s]
  PROVE  WalSegmentIter(a)[n] = WalSegmentIter(b)[n]
<1>. DEFINE S == {m \in Nat : m <= n => WalSegmentIter(a)[m] = WalSegmentIter(b)[m]}
<1>1. 0 \in S
  <2>1. 0 \in 0 .. Len(a) /\ 0 \in 0 .. Len(b)
    OBVIOUS
  <2>2. WalSegmentIter(a)[0] = <<>> /\ WalSegmentIter(b)[0] = <<>>
    BY <2>1, SegmentReader, Zenon DEF NextSegment
  <2>. QED  BY <2>2
<1>2. ASSUME NEW m \in S \cap Nat PROVE m + 1 \in S
  <2>1. SUFFICES ASSUME m + 1 <= n PROVE WalSegmentIter(a)[m + 1] = WalSegmentIter(b)[m + 1]
    BY <1>2
  <2>2. /\ m + 1 \in 0 .. Len(a) /\ m + 1 \in 0 .. Len(b) /\ m + 1 # 0 /\ (m + 1) - 1 = m
        /\ a[m + 1] = b[m + 1] /\ WalSegmentIter(a)[m] = WalSegmentIter(b)[m]
    BY <1>2, <2>1
  <2>3. /\ WalSegmentIter(a)[m + 1] = WalSegmentIter(a)[m] \o entry_iter(a[m + 1])
        /\ WalSegmentIter(b)[m + 1] = WalSegmentIter(b)[m] \o entry_iter(b[m + 1])
    BY <2>2, SegmentReader, Zenon DEF NextSegment
  <2>. QED  BY <2>2, <2>3, Zenon
<1>. HIDE DEF S
<1>3. n \in Nat /\ n <= n
  OBVIOUS
<1>4. n \in S
  BY <1>1, <1>2, <1>3, Induction, Zenon
<1>. QED  BY <1>3, <1>4, Zenon DEF S

\* The length of an entry.
LEMMA LengthIs == \A l \in Lengths : l \in Nat /\ l > Header /\ l <= Size /\ l # 0
  BY LengthsAssumption, SizeAssumption DEF Header

\* A reader finds the entries of a segment if they end where the segment does or where
\* the next header has been cleared.
LEMMA ReaderFinds ==
  ASSUME NEW segment, NEW c \in 0 .. Size, NEW es \in Seq(Entry), Holds(segment, c, es),
         c + Header >= Size \/ segment[c] = 0
  PROVE  entry_iter(segment) = es
<1>. DEFINE m == Len(es)
           f == WalEntryIter(segment)
<1>1. PICK at : Lie(segment, c, es, at)
  BY Zenon DEF Holds
<1>2. m \in Nat /\ \A i \in 1 .. m : es[i] \in Entry
  BY LenProperties, ElementOfSeq, Zenon
<1>. DEFINE S == {j \in Nat : j <= m => f[at[m + 1 - j]] = SubSeq(es, m + 1 - j, m)}
<1>3. 0 \in S
  <2>1. at[m + 1] = c /\ m + 1 - 0 = m + 1
    BY <1>1, <1>2 DEF Lie
  <2>2. f[c] = <<>>
    BY EntryReader, Zenon DEF NextEntry
  <2>3. SubSeq(es, m + 1, m) = <<>>
    BY <1>2
  <2>. QED  BY <2>1, <2>2, <2>3
<1>4. ASSUME NEW j \in S \cap Nat PROVE j + 1 \in S
  <2>1. SUFFICES ASSUME j + 1 <= m PROVE f[at[m - j]] = SubSeq(es, m - j, m)
    BY <1>2, <1>4
  <2>. DEFINE i == m - j
  <2>2. i \in 1 .. m /\ i + 1 \in 1 .. m + 1 /\ i + 1 = m + 1 - j /\ m \in i .. m
    BY <1>2, <2>1
  <2>3. f[at[i + 1]] = SubSeq(es, i + 1, m)
    BY <1>2, <1>4, <2>1, <2>2
  <2>. HIDE DEF i
  <2>4. /\ at[i] \in 0 .. Size /\ at[i + 1] = at[i] + es[i].len /\ at[i + 1] <= c
        /\ segment[at[i]] = es[i].len /\ segment[at[i] + 1] = es[i].lsn
    <3>1. at \in [1 .. m + 1 -> 0 .. Size] /\ i \in 1 .. m + 1
      BY <1>1, <1>2, <2>2 DEF Lie
    <3>. QED  BY <1>1, <2>2, <3>1, Zenon DEF Lie
  <2>5. es[i] = [lsn |-> es[i].lsn, len |-> es[i].len] /\ es[i].len \in Lengths
    BY <1>2, <2>2 DEF Entry
  <2>6. es[i].len \in Nat /\ es[i].len > Header
    BY <2>5, LengthIs, Zenon
  <2>7. /\ ~(at[i] + Header >= Size) /\ segment[at[i]] # 0 /\ segment[at[i]] \in Header .. Size - at[i]
    BY <2>4, <2>6, SizeAssumption DEF Header
  <2>8. f[at[i]] = <<[lsn |-> segment[at[i] + 1], len |-> segment[at[i]]]>> \o f[at[i] + segment[at[i]]]
    BY <2>4, <2>7, EntryReader, Zenon DEF NextEntry
  <2>9. f[at[i]] = <<es[i]>> \o SubSeq(es, i + 1, m)
    BY <2>3, <2>4, <2>5, <2>8, Zenon
  <2>10. SubSeq(es, i, m) = <<es[i]>> \o SubSeq(es, i + 1, m)
    BY <2>2, SubSeqRecursiveFirst, Zenon
  <2>. QED  BY <2>9, <2>10, Zenon DEF i
<1>5. m \in S
  <2>. HIDE DEF S
  <2>. QED  BY <1>2, <1>3, <1>4, Induction, Zenon
<1>6. f[at[1]] = SubSeq(es, 1, m)
  <2>1. m <= m /\ m + 1 - m = 1
    BY <1>2
  <2>. QED  BY <1>5, <2>1
<1>7. at[1] = 0
  BY <1>1, Zenon DEF Lie
<1>8. SubSeq(es, 1, m) = es
  BY SubSeqFull, Zenon
<1>. QED  BY <1>6, <1>7, <1>8, Zenon DEF entry_iter

-----------------------------------------------------------------------------
\* The buffer.  An entry takes its cells below c, where only the buffer's cells below c
\* matter.
LEMMA LieBelow ==
  ASSUME NEW segment, NEW c \in 0 .. Size, NEW es \in Seq(Entry), NEW at, Lie(segment, c, es, at),
         NEW i \in 1 .. Len(es)
  PROVE  at[i] \in 0 .. c - 1 /\ at[i] + 1 \in 0 .. c - 1
<1>1. Len(es) \in Nat /\ es[i] \in Entry
  BY LenProperties, ElementOfSeq, Zenon
<1>2. es[i].len \in Nat /\ es[i].len > Header
  <2>1. es[i].len \in Lengths
    BY <1>1 DEF Entry
  <2>. QED  BY <2>1, LengthIs, Zenon
<1>3. i \in 1 .. Len(es) + 1
  BY <1>1
<1>4. at[i] \in 0 .. Size /\ at[i + 1] = at[i] + es[i].len /\ at[i + 1] <= c
  BY <1>3, Zenon DEF Lie
<1>. QED  BY <1>2, <1>4, SizeAssumption DEF Header

\* Entries stay where they are when only cells behind them change.
LEMMA HoldsSame ==
  ASSUME NEW segment, NEW c \in 0 .. Size, NEW es \in Seq(Entry), Holds(segment, c, es),
         NEW new, \A x \in 0 .. c - 1 : new[x] = segment[x]
  PROVE  Holds(new, c, es)
<1>1. PICK at : Lie(segment, c, es, at)
  BY Zenon DEF Holds
<1>2. \A i \in 1 .. Len(es) : new[at[i]] = segment[at[i]] /\ new[at[i] + 1] = segment[at[i] + 1]
  BY <1>1, LieBelow, Zenon
<1>3. Lie(new, c, es, at)
  BY <1>1, <1>2, Zenon DEF Lie
<1>. QED  BY <1>3, Zenon DEF Holds

\* An empty buffer holds no entry.
LEMMA HoldsNone == ASSUME NEW segment PROVE Holds(segment, 0, <<>>)
<1>. DEFINE at == [i \in 1 .. 1 |-> 0]
<1>1. Lie(segment, 0, <<>>, at)
  BY SizeAssumption DEF Lie
<1>. QED  BY <1>1, Zenon DEF Holds

\* A buffer with something in it holds an entry.
LEMMA HoldsSome ==
  ASSUME NEW segment, NEW c, NEW es \in Seq(Entry), Holds(segment, c, es), c # 0
  PROVE  Len(es) # 0
<1>1. PICK at : Lie(segment, c, es, at)
  BY Zenon DEF Holds
<1>. QED  BY <1>1 DEF Lie

\* An entry written at the cursor.
LEMMA HoldsMore ==
  ASSUME NEW segment, NEW c \in 0 .. Size, NEW es \in Seq(Entry), Holds(segment, c, es),
         NEW e \in Entry, c + e.len <= Size,
         NEW new, \A x \in 0 .. c - 1 : new[x] = segment[x], new[c] = e.len, new[c + 1] = e.lsn
  PROVE  Holds(new, c + e.len, Append(es, e))
<1>1. PICK at : Lie(segment, c, es, at)
  BY Zenon DEF Holds
<1>. DEFINE m == Len(es)
           more == Append(es, e)
           d == c + e.len
           to == [i \in 1 .. m + 2 |-> IF i = m + 2 THEN d ELSE at[i]]
<1>2. /\ m \in Nat /\ Len(more) = m + 1 /\ more[m + 1] = e /\ \A i \in 1 .. m : more[i] = es[i]
  OBVIOUS
<1>3. e.len \in Nat /\ d \in 0 .. Size /\ c <= d
  <2>1. e.len \in Lengths
    BY DEF Entry
  <2>2. e.len \in Nat
    BY <2>1, LengthIs, Zenon
  <2>. QED  BY <2>2, SizeAssumption
<1>4. /\ at \in [1 .. m + 1 -> 0 .. Size] /\ at[1] = 0 /\ at[m + 1] = c
  BY <1>1, Zenon DEF Lie
<1>. HIDE DEF d, more
<1>5. /\ to \in [1 .. m + 2 -> 0 .. Size] /\ to[1] = 0 /\ to[m + 2] = d
      /\ \A i \in 1 .. m + 1 : to[i] = at[i]
  BY <1>2, <1>3, <1>4
<1>6. m + 2 = Len(more) + 1 /\ m + 1 \in 1 .. m + 1 /\ (m + 1) + 1 = m + 2
  BY <1>2
<1>7. ASSUME NEW i \in 1 .. m
      PROVE  /\ to[i + 1] = to[i] + more[i].len /\ to[i + 1] <= d
             /\ new[to[i]] = more[i].len /\ new[to[i] + 1] = more[i].lsn
  <2>1. /\ at[i + 1] = at[i] + es[i].len /\ at[i + 1] <= c
        /\ segment[at[i]] = es[i].len /\ segment[at[i] + 1] = es[i].lsn
    BY <1>1, Zenon DEF Lie
  <2>2. i \in 1 .. m + 1 /\ i + 1 \in 1 .. m + 1
    BY <1>2
  <2>3. to[i] = at[i] /\ to[i + 1] = at[i + 1] /\ more[i] = es[i] /\ at[i + 1] \in 0 .. Size
    BY <1>2, <1>4, <1>5, <2>2, Zenon
  <2>4. new[at[i]] = segment[at[i]] /\ new[at[i] + 1] = segment[at[i] + 1]
    BY <1>1, LieBelow, Zenon
  <2>5. at[i + 1] <= d
    BY <1>3, <2>1, <2>3, SizeAssumption
  <2>. QED  BY <2>1, <2>3, <2>4, <2>5, Zenon
<1>8. /\ to[(m + 1) + 1] = to[m + 1] + more[m + 1].len /\ to[(m + 1) + 1] <= d
      /\ new[to[m + 1]] = more[m + 1].len /\ new[to[m + 1] + 1] = more[m + 1].lsn
  <2>1. to[m + 1] = c /\ d <= d
    BY <1>3, <1>4, <1>5, <1>6
  <2>. HIDE DEF to
  <2>. QED  BY <1>2, <1>5, <1>6, <2>1, Zenon DEF d
<1>9. \A i \in 1 .. m + 1 : i \in 1 .. m \/ i = m + 1
  BY <1>2
<1>. HIDE DEF to, m
<1>10. Lie(new, d, more, to)
  BY <1>2, <1>5, <1>6, <1>7, <1>8, <1>9, Zenon DEF Lie
<1>. QED  BY <1>10, Zenon DEF Holds, d, more

-----------------------------------------------------------------------------
\* Steps.  What the reader finds changes with the file only.
LEMMA SameFile ==
  ASSUME UNCHANGED <<file, file_offset>>
  PROVE  Finished' = Finished /\ segment_iter' = segment_iter
  BY Zenon DEF Finished, segment_iter

\* The invariant holds of a new log.
LEMMA InitInv == Init => IInv
<1>. SUFFICES ASSUME Init PROVE IInv
  OBVIOUS
<1>1. Len(file) = 0 /\ file_offset = 0 /\ 0 \in 0 .. Len(file) /\ Len(file) \in Nat
  BY DEF Init
<1>2. Finished = <<>> /\ segment_iter = <<>>
  BY <1>1, SegmentReader, Zenon DEF Finished, segment_iter, NextSegment
<1>3. TypeOK
  <2>1. buffer \in [Cells -> Nat \cup {Junk}] /\ pc \in [Threads -> {"idle", "append", "retry", "asleep", "awake", "return"}]
    BY Zenon DEF Init
  <2>2. len \in [Threads -> Lengths \cup {0}] /\ lsn \in [Threads -> 0 .. MaxLsn]
    BY SizeAssumption DEF Init
  <2>3. buffer_cursor \in 0 .. Size /\ file_offset \in Nat /\ next_lsn \in 0 .. MaxLsn /\ flushed_lsn \in 0 .. MaxLsn
    BY SizeAssumption DEF Init
  <2>. QED  BY <1>1, <2>1, <2>2, <2>3, EmptySeq, Zenon DEF Init, TypeOK
<1>4. BufferIsTail
  <2>1. log = <<>> /\ buffer_cursor = 0 /\ <<>> \in Seq(Entry) /\ <<>> = <<>> \o <<>>
    BY DEF Init
  <2>. QED  BY <1>2, <2>1, HoldsNone, Zenon DEF BufferIsTail
<1>5. Numbered
  BY <1>2 DEF Numbered, Init
<1>6. \A t \in Threads : ThreadOK(t)
  BY DEF ThreadOK, Init
<1>. QED  BY <1>2, <1>3, <1>4, <1>5, <1>6, EmptySeq, Zenon DEF IInv

\* A step of a call that leaves the buffer and the file alone.
LEMMA QuietKeeps ==
  ASSUME IInv, UNCHANGED <<buffer, buffer_cursor, file_offset, next_lsn, flushed_lsn, file, log>>,
         TypeOK', \A t \in Threads : ThreadOK(t)'
  PROVE  IInv'
<1>1. Finished' = Finished /\ segment_iter' = segment_iter
  BY SameFile, Zenon
<1>2. BufferIsTail'
  BY <1>1, Zenon DEF IInv, BufferIsTail
<1>3. Numbered'
  BY <1>1, Zenon DEF IInv, Numbered
<1>. QED  BY <1>1, <1>2, <1>3, Zenon DEF IInv

\* A sequence and its two parts.
IsConcat(s, a, b) == s = a \o b

\* An entry added behind a sequence is an entry added to its second part.
LEMMA AppendToConcat ==
  ASSUME NEW S, NEW s, NEW a \in Seq(S), NEW b \in Seq(S), NEW e \in S, IsConcat(s, a, b)
  PROVE  IsConcat(Append(s, e), a, Append(b, e))
<1>. DEFINE x == Append(a \o b, e)
           y == a \o Append(b, e)
<1>1. x \in Seq(S) /\ y \in Seq(S) /\ Len(x) = Len(y)
  OBVIOUS
<1>2. \A i \in 1 .. Len(x) : x[i] = y[i]
  OBVIOUS
<1>. QED  BY <1>1, <1>2, SeqEqual, Zenon DEF IsConcat

\* The entry Write adds.
NewEntry(t) == [lsn |-> next_lsn, len |-> len[t]]

\* append_and_wait adds its entry behind those of the buffer.
LEMMA WriteKeeps ==
  ASSUME IInv, NEW t \in Threads, Write(t)
  PROVE  IInv' /\ NewEntry(t) \in Entry /\ log' = Append(log, NewEntry(t)) /\ UNCHANGED segment_iter
<1>. DEFINE e == NewEntry(t)
           c == buffer_cursor
<1>1. TypeOK /\ ThreadOK(t)
  BY Zenon DEF IInv
<1>2. len[t] \in Lengths
  BY <1>1, Zenon DEF ThreadOK, Write
<1>3. len[t] \in Nat /\ len[t] > Header
  BY <1>2, LengthIs, Zenon
<1>4. c \in 0 .. Size /\ c + len[t] <= Size /\ next_lsn \in 0 .. MaxLsn /\ next_lsn + 1 \in 0 .. MaxLsn
  BY <1>1, <1>3, SizeAssumption DEF TypeOK, Write, Fits
<1>5. e \in Entry /\ e.len = len[t] /\ e.lsn = next_lsn
  BY <1>2, <1>4 DEF Entry, NewEntry
<1>6. log' = Append(log, e)
  BY Zenon DEF Write, NewEntry
<1>7. Finished' = Finished /\ segment_iter' = segment_iter
  BY SameFile, Zenon DEF Write
<1>8. BufferIsTail'
  <2>1. PICK held \in Seq(Entry) : log = Finished \o held /\ Holds(buffer, c, held)
    BY Zenon DEF IInv, BufferIsTail
  <2>2. buffer'[c] = e.len /\ buffer'[c + 1] = e.lsn
    <3>1. /\ c \in Cells /\ c + 1 \in Cells
          /\ c \in c .. c + len[t] - 1 /\ c + 1 \in c .. c + len[t] - 1 /\ c - c = 0 /\ (c + 1) - c = 1
      BY <1>3, <1>4, SizeAssumption DEF Cells, Header
    <3>2. buffer'[c] = LogCell(next_lsn, len[t], 0) /\ buffer'[c + 1] = LogCell(next_lsn, len[t], 1)
      BY <3>1 DEF Write
    <3>. QED  BY <1>5, <3>2 DEF LogCell
  <2>3. \A x \in 0 .. c - 1 : buffer'[x] = buffer[x]
    <3>1. \A x \in 0 .. c - 1 : x \in Cells /\ x \notin c .. c + len[t] - 1
      BY <1>3, <1>4, SizeAssumption DEF Cells
    <3>. QED  BY <3>1, Zenon DEF Write
  <2>4. Holds(buffer', c + e.len, Append(held, e))
    <3>. HIDE DEF e, c
    <3>. QED  BY <1>4, <1>5, <2>1, <2>2, <2>3, HoldsMore, Zenon
  <2>5. buffer_cursor' = c + e.len
    BY <1>5, Zenon DEF Write
  <2>6. Append(held, e) \in Seq(Entry) /\ Finished \in Seq(Entry)
    BY <1>5, AppendProperties, Zenon DEF IInv
  <2>7. log' = Finished \o Append(held, e)
    <3>. HIDE DEF e
    <3>1. e \in Entry /\ Finished \in Seq(Entry)
      BY <1>5, <2>6, Zenon
    <3>2. IsConcat(log, Finished, held)
      BY <2>1, Zenon DEF IsConcat
    <3>3. IsConcat(Append(log, e), Finished, Append(held, e))
      BY <3>1, <3>2, AppendToConcat, Zenon
    <3>. QED  BY <1>6, <3>3, Zenon DEF IsConcat
  <2>. QED  BY <1>7, <2>4, <2>5, <2>6, <2>7, Zenon DEF BufferIsTail
<1>. HIDE DEF e, c
<1>9. Numbered'
  <2>1. next_lsn' = Len(log') /\ \A i \in 1 .. Len(log') : log'[i].lsn = i - 1
    BY <1>1, <1>5, <1>6 DEF IInv, Numbered, TypeOK, Write
  <2>. QED  BY <1>7, <2>1, Zenon DEF IInv, Numbered, Write
<1>10. TypeOK'
  <2>1. buffer' \in [Cells -> Nat \cup {Junk}]
    BY <1>1, <1>3, <1>4 DEF TypeOK, Write, LogCell
  <2>2. buffer_cursor' \in 0 .. Size
    BY <1>3, <1>4, SizeAssumption DEF Write, c
  <2>3. /\ pc' \in [Threads -> {"idle", "append", "retry", "asleep", "awake", "return"}]
        /\ lsn' \in [Threads -> 0 .. MaxLsn] /\ next_lsn' \in 0 .. MaxLsn
    BY <1>1, <1>4 DEF TypeOK, Write
  <2>4. log' \in Seq(Entry)
    BY <1>1, <1>5, <1>6, AppendProperties, Zenon DEF TypeOK
  <2>. QED  BY <1>1, <2>1, <2>2, <2>3, <2>4, Zenon DEF TypeOK, Write
<1>11. \A u \in Threads : ThreadOK(u)'
  BY <1>1, <1>4 DEF IInv, ThreadOK, TypeOK, Write
<1>12. Finished' \in Seq(Entry)
  BY <1>7, Zenon DEF IInv
<1>. QED  BY <1>5, <1>6, <1>7, <1>8, <1>9, <1>10, <1>11, <1>12, Zenon DEF IInv, e

\* A flush of a buffer with entries makes the file the whole log.
LEMMA FlushKeeps ==
  ASSUME IInv, flush, buffer_cursor # 0, notify_all, UNCHANGED <<job, background_job_running, len, lsn, log>>
  PROVE  IInv' /\ segment_iter' = log
<1>. DEFINE c == buffer_cursor
           n == file_offset
<1>1. TypeOK
  BY Zenon DEF IInv
<1>2. c \in 0 .. Size /\ n \in Nat /\ file \in Seq(Segment) /\ n <= Len(file) /\ Len(file) \in Nat
  BY <1>1 DEF TypeOK, Segment
<1>3. PICK held \in Seq(Entry) : log = Finished \o held /\ Holds(buffer, c, held)
  BY Zenon DEF IInv, BufferIsTail
<1>4. /\ buffer' = clear_next_header
      /\ file' = [s \in 1 .. n + 1 |-> IF s = n + 1 THEN buffer' ELSE file[s]]
      /\ \/ UNCHANGED <<file_offset, buffer_cursor>>
         \/ file_offset' = n + 1 /\ buffer_cursor' = 0
      /\ flushed_lsn' = next_lsn - 1 /\ need_flush' = FALSE /\ next_lsn' = next_lsn
  BY Zenon DEF flush
<1>5. /\ buffer' \in Segment /\ \A x \in 0 .. c - 1 : buffer'[x] = buffer[x]
      /\ c + Header >= Size \/ buffer'[c] = 0
  <2>1. buffer \in Segment
    BY <1>1, Zenon DEF TypeOK, Segment
  <2>2. CASE c + 1 <= Size
    <3>1. buffer' = [buffer EXCEPT ![c] = 0] /\ c \in Cells /\ 0 \in Nat \cup {Junk}
      BY <1>2, <1>4, <2>2, SizeAssumption DEF clear_next_header, Cells
    <3>2. \A x \in 0 .. c - 1 : x \in Cells /\ x # c
      BY <1>2, SizeAssumption DEF Cells
    <3>. QED  BY <2>1, <3>1, <3>2, Zenon DEF Segment
  <2>3. CASE ~(c + 1 <= Size)
    <3>1. c + Header >= Size
      BY <1>2, <2>3, SizeAssumption DEF Header
    <3>. QED  BY <1>4, <2>1, <2>3, <3>1, Zenon DEF clear_next_header
  <2>. QED  BY <2>2, <2>3, Zenon
<1>6. Holds(buffer', c, held)
  BY <1>2, <1>3, <1>5, HoldsSame, Zenon
<1>7. entry_iter(buffer') = held
  BY <1>2, <1>5, <1>6, ReaderFinds, Zenon
<1>8. /\ file' \in Seq(Segment) /\ Len(file') = n + 1 /\ file'[n + 1] = buffer'
      /\ \A s \in 1 .. n : file'[s] = file[s]
  <2>1. \A s \in 1 .. n : file[s] \in Segment
    BY <1>2
  <2>. QED  BY <1>2, <1>4, <1>5, <2>1
<1>9. WalSegmentIter(file')[n] = Finished
  <2>1. n \in 0 .. Len(file') /\ Len(file') \in Nat
    BY <1>2, <1>8
  <2>. QED  BY <1>2, <1>8, <2>1, SameSegments, Zenon DEF Finished
<1>10. WalSegmentIter(file')[n + 1] = log
  <2>1. Len(file') \in Nat /\ n + 1 \in 0 .. Len(file') /\ n + 1 # 0 /\ (n + 1) - 1 = n
    BY <1>2, <1>8
  <2>2. WalSegmentIter(file')[n + 1] = WalSegmentIter(file')[n] \o entry_iter(file'[n + 1])
    BY <2>1, SegmentReader, Zenon DEF NextSegment
  <2>. QED  BY <1>3, <1>7, <1>8, <1>9, <2>2, Zenon
<1>11. segment_iter' = log /\ log' = log
  BY <1>8, <1>10, Zenon DEF segment_iter
<1>12. log \in Seq(Entry) /\ Finished \in Seq(Entry)
  BY <1>1, Zenon DEF TypeOK, IInv
<1>13. BufferIsTail' /\ Finished' \in Seq(Entry)
  <2>1. CASE UNCHANGED <<file_offset, buffer_cursor>>
    <3>1. Finished' = Finished
      BY <1>9, <2>1, Zenon DEF Finished
    <3>. QED  BY <1>3, <1>6, <1>11, <1>12, <2>1, <3>1, Zenon DEF BufferIsTail
  <2>2. CASE file_offset' = n + 1 /\ buffer_cursor' = 0
    <3>1. Finished' = log
      BY <1>10, <2>2, Zenon DEF Finished
    <3>2. log = log \o <<>> /\ <<>> \in Seq(Entry)
      BY <1>12, ConcatEmptySeq, EmptySeq, Zenon
    <3>. QED  BY <1>11, <1>12, <2>2, <3>1, <3>2, HoldsNone, Zenon DEF BufferIsTail
  <2>. QED  BY <1>4, <2>1, <2>2, Zenon
<1>14. Len(log) # 0
  <2>1. Len(held) # 0
    BY <1>3, HoldsSome, Zenon
  <2>. QED  BY <1>3, <1>12, <2>1
<1>15. Numbered'
  <2>1. next_lsn = Len(log) /\ \A i \in 1 .. Len(log) : log[i].lsn = i - 1
    BY Zenon DEF IInv, Numbered
  <2>. QED  BY <1>4, <1>11, <1>12, <1>14, <2>1, Zenon DEF Numbered
<1>16. Len(log) \in Nat /\ next_lsn = Len(log) /\ next_lsn \in 0 .. MaxLsn
  BY <1>1, <1>12, LenProperties, Zenon DEF IInv, Numbered, TypeOK
<1>17. TypeOK'
  <2>1. flushed_lsn' \in 0 .. MaxLsn
    BY <1>4, <1>14, <1>16, SizeAssumption
  <2>2. buffer_cursor' \in 0 .. Size /\ file_offset' \in Nat /\ Len(file') \in {file_offset', file_offset' + 1}
    BY <1>2, <1>4, <1>8, SizeAssumption
  <2>3. pc' \in [Threads -> {"idle", "append", "retry", "asleep", "awake", "return"}]
    BY <1>1 DEF TypeOK, notify_all
  <2>. QED  BY <1>1, <1>4, <1>5, <1>8, <2>1, <2>2, <2>3, Zenon DEF TypeOK, Segment
<1>18. ASSUME NEW t \in Threads PROVE ThreadOK(t)'
  <2>1. ThreadOK(t) /\ lsn[t] \in 0 .. MaxLsn
    BY <1>1, Zenon DEF IInv, TypeOK
  <2>2. lsn[t] < next_lsn => lsn[t] <= next_lsn - 1
    BY <1>16, <2>1, SizeAssumption
  <2>3. pc'[t] = IF pc[t] = "asleep" THEN "awake" ELSE pc[t]
    BY Zenon DEF notify_all
  <2>. QED  BY <1>4, <2>1, <2>2, <2>3 DEF ThreadOK
<1>. QED  BY <1>11, <1>13, <1>15, <1>17, <1>18, Zenon DEF IInv

\* Every step of the log keeps the invariant, and is one of a durable log.
LEMMA StepInv ==
  ASSUME IInv, [Next]_vars
  PROVE  /\ IInv'
         /\ \/ UNCHANGED <<log, segment_iter>>
            \/ \E e \in Entry : log' = Append(log, e) /\ UNCHANGED segment_iter
            \/ segment_iter' = log /\ UNCHANGED log
<1>. DEFINE Quiet == UNCHANGED <<buffer, buffer_cursor, file_offset, next_lsn, flushed_lsn, file, log>>
           Pcs == {"idle", "append", "retry", "asleep", "awake", "return"}
<1>1. TypeOK
  BY Zenon DEF IInv
<1>2. ASSUME Quiet, pc' \in [Threads -> Pcs], len' \in [Threads -> Lengths \cup {0}], lsn' \in [Threads -> 0 .. MaxLsn],
             need_flush' \in BOOLEAN, job' \in {"running", "stopped"}, background_job_running' \in BOOLEAN,
             \A t \in Threads : ThreadOK(t)'
      PROVE  IInv' /\ UNCHANGED <<log, segment_iter>>
  <2>1. TypeOK'
    BY <1>1, <1>2, Zenon DEF TypeOK
  <2>. QED  BY <1>2, <2>1, QuietKeeps, SameFile, Zenon
<1>3. ASSUME NEW t \in Threads, Call(t) PROVE IInv' /\ UNCHANGED <<log, segment_iter>>
  <2>1. pc' \in [Threads -> Pcs] /\ len' \in [Threads -> Lengths \cup {0}]
    BY <1>1, <1>3 DEF TypeOK, Call
  <2>2. \A u \in Threads : ThreadOK(u)'
    BY <1>1, <1>3 DEF IInv, ThreadOK, TypeOK, Call, inner
  <2>. QED  BY <1>1, <1>2, <1>3, <2>1, <2>2, Zenon DEF Call, inner, TypeOK
<1>4. ASSUME NEW t \in Threads, Full(t) PROVE IInv' /\ UNCHANGED <<log, segment_iter>>
  <2>1. pc' \in [Threads -> Pcs]
    BY <1>1, <1>4 DEF TypeOK, Full
  <2>2. \A u \in Threads : ThreadOK(u)'
    BY <1>1, <1>4 DEF IInv, ThreadOK, TypeOK, Full
  <2>. QED  BY <1>1, <1>2, <1>4, <2>1, <2>2, Zenon DEF Full, TypeOK
<1>5. ASSUME NEW t \in Threads, Recheck(t) PROVE IInv' /\ UNCHANGED <<log, segment_iter>>
  <2>1. pc' \in [Threads -> Pcs]
    BY <1>1, <1>5 DEF TypeOK, Recheck
  <2>2. \A u \in Threads : ThreadOK(u)'
    BY <1>1, <1>5 DEF IInv, ThreadOK, TypeOK, Recheck, inner
  <2>. QED  BY <1>1, <1>2, <1>5, <2>1, <2>2, Zenon DEF Recheck, inner, TypeOK
<1>6. ASSUME NEW t \in Threads, SpuriousWake(t) PROVE IInv' /\ UNCHANGED <<log, segment_iter>>
  <2>1. pc' \in [Threads -> Pcs]
    BY <1>1, <1>6 DEF TypeOK, SpuriousWake
  <2>2. \A u \in Threads : ThreadOK(u)'
    BY <1>1, <1>6 DEF IInv, ThreadOK, TypeOK, SpuriousWake, inner
  <2>. QED  BY <1>1, <1>2, <1>6, <2>1, <2>2, Zenon DEF SpuriousWake, inner, TypeOK
<1>7. ASSUME NEW t \in Threads, Return(t) PROVE IInv' /\ UNCHANGED <<log, segment_iter>>
  <2>1. pc' \in [Threads -> Pcs] /\ len' \in [Threads -> Lengths \cup {0}] /\ lsn' \in [Threads -> 0 .. MaxLsn]
    BY <1>1, <1>7, SizeAssumption DEF TypeOK, Return
  <2>2. \A u \in Threads : ThreadOK(u)'
    BY <1>1, <1>7 DEF IInv, ThreadOK, TypeOK, Return, inner
  <2>. QED  BY <1>1, <1>2, <1>7, <2>1, <2>2, Zenon DEF Return, inner, TypeOK
<1>8. CASE background_flush_job
  <2>1. CASE buffer_cursor = 0
    <3>1. UNCHANGED <<inner, file, job, background_job_running, len, lsn, log>> /\ notify_all
      BY <1>8, <2>1, Zenon DEF background_flush_job, flush
    <3>2. pc' \in [Threads -> Pcs]
      BY <1>1, <3>1 DEF TypeOK, notify_all
    <3>3. \A u \in Threads : ThreadOK(u)'
      BY <1>1, <3>1 DEF IInv, ThreadOK, TypeOK, notify_all, inner
    <3>. QED  BY <1>1, <1>2, <3>1, <3>2, <3>3, Zenon DEF inner, TypeOK
  <2>2. CASE buffer_cursor # 0
    BY <1>8, <2>2, FlushKeeps, Zenon DEF background_flush_job
  <2>. QED  BY <2>1, <2>2, Zenon
<1>9. ASSUME UNCHANGED <<inner, file, pc, len, lsn, log>>, job' \in {"running", "stopped"}, background_job_running' \in BOOLEAN
      PROVE  IInv' /\ UNCHANGED <<log, segment_iter>>
  <2>1. \A u \in Threads : ThreadOK(u)'
    BY <1>9, Zenon DEF IInv, ThreadOK, inner
  <2>. QED  BY <1>1, <1>2, <1>9, <2>1, Zenon DEF inner, TypeOK
<1>10. CASE stop_background_job
  BY <1>1, <1>9, <1>10, Zenon DEF stop_background_job, TypeOK
<1>11. CASE Shutdown
  BY <1>1, <1>9, <1>11, Zenon DEF Shutdown, TypeOK
<1>12. CASE UNCHANGED vars
  BY <1>1, <1>9, <1>12, Zenon DEF vars, TypeOK
<1>13. ASSUME NEW t \in Threads, Write(t)
       PROVE  IInv' /\ \E e \in Entry : log' = Append(log, e) /\ UNCHANGED segment_iter
  BY <1>13, WriteKeeps, Zenon
<1>. HIDE DEF Quiet, Pcs
<1>. QED  BY <1>3, <1>4, <1>5, <1>6, <1>7, <1>8, <1>10, <1>11, <1>12, <1>13, Zenon DEF Next, AppendStep, Done

\* What is finished and what is in the buffer are the log, whatever the threads and the
\* flush job do.
THEOREM LogKeepsInvariant == Spec => []IInv
<1>1. Init => IInv
  BY InitInv
<1>2. IInv /\ [Next]_vars => IInv'
  BY StepInv, Zenon
<1>. QED  BY <1>1, <1>2, PTL DEF Spec

\* The types of the log's state, with the cursor inside the buffer and the file at most
\* one segment ahead of file_offset.
THEOREM TypeCorrect == Spec => []TypeOK
<1>1. IInv => TypeOK
  BY Zenon DEF IInv
<1>. QED  BY <1>1, LogKeepsInvariant, PTL

\* Every lsn append_and_wait returns, but the first, is the lsn of an entry that a reader
\* of the file finds.
THEOREM ReturnsFlushed == Spec => []LaterReturnedIsFlushed
<1>1. ASSUME IInv PROVE LaterReturnedIsFlushed
  <2>1. SUFFICES ASSUME NEW t \in Threads, pc[t] = "return", lsn[t] > 0 PROVE OnFile(lsn[t])
    BY Zenon DEF LaterReturnedIsFlushed
  <2>2. lsn[t] \in Nat /\ lsn[t] <= flushed_lsn
    <3>1. lsn[t] \in 0 .. MaxLsn /\ lsn[t] <= flushed_lsn
      BY <1>1, <2>1, Zenon DEF IInv, TypeOK, ThreadOK
    <3>. QED  BY <3>1, SizeAssumption
  <2>3. /\ Len(segment_iter) \in Nat /\ \A i \in 1 .. Len(segment_iter) : segment_iter[i].lsn = i - 1
        /\ flushed_lsn = IF Len(segment_iter) = 0 THEN 0 ELSE Len(segment_iter) - 1
    BY <1>1, LenProperties, Zenon DEF IInv, Numbered
  <2>4. lsn[t] + 1 \in 1 .. Len(segment_iter) /\ (lsn[t] + 1) - 1 = lsn[t]
    BY <2>1, <2>2, <2>3
  <2>. QED  BY <2>3, <2>4, Zenon DEF OnFile
<1>. QED  BY <1>1, LogKeepsInvariant, PTL

\* The log implements a durable one: what a reader of the file finds is at first nothing,
\* stays as it is while entries are appended, and becomes the whole log with a flush.
THEOREM LogIsDurable == Spec => ImplementsDurableLog
<1>1. Init => Durable!Init
  <2>. SUFFICES ASSUME Init PROVE Durable!Init
    OBVIOUS
  <2>1. Len(file) = 0 /\ 0 \in 0 .. Len(file) /\ Len(file) \in Nat
    BY DEF Init
  <2>2. segment_iter = <<>>
    BY <2>1, SegmentReader, Zenon DEF segment_iter, NextSegment
  <2>. QED  BY <2>2, Zenon DEF Init, Durable!Init
<1>2. IInv /\ [Next]_vars => [Durable!Next]_<<log, segment_iter>>
  BY StepInv, Zenon DEF Durable!Next, Durable!Extend, Durable!Sync
<1>. QED  BY <1>1, <1>2, LogKeepsInvariant, PTL DEF Spec, ImplementsDurableLog, Durable!Spec
=============================================================================
