----------------------- MODULE ProcessMemory_proofs ------------------------
(***************************************************************************)
(* Theorems about the kernel heap and about the memory of processes, for   *)
(* every size of heap, bitmap, stack and process table.                    *)
(*                                                                         *)
(* The first part is about the heap alone: what kmalloc finds, what kfree  *)
(* gives back, and the invariant that ties the table to the allocations in *)
(* use.  Its step lemmas are stated for the calls, so that the second part *)
(* uses them for the calls that create_process and free_proc make.         *)
(*                                                                         *)
(* The inductive invariant MemInv of the second part adds to that of the   *)
(* heap, and to the properties themselves, what the call of create_process *)
(* under way has got so far and who refers to what: the properties speak   *)
(* of sets of directories, the invariant of one directory per slot, since  *)
(* two equal directories would be one element of a set.                    *)
(***************************************************************************)
EXTENDS ProcessMemory, NatInduction, FiniteSetTheorems

-----------------------------------------------------------------------------
(* The search for blocks.                                                  *)

\* What an allocation of at most one block needs.
LEMMA OneBlock ==
    ASSUME NEW size \in 1 .. BlockSize
    PROVE  TotalBlocks(size) = 1
<1>1. BlockSize \in Nat \ {0}
  BY HeapAssumption
<1>2. CASE size = BlockSize
  BY <1>1, <1>2 DEF TotalBlocks
<1>3. CASE size < BlockSize
  <2>1. size % BlockSize = size
    BY <1>1, <1>3
  <2> QED
    BY <1>1, <1>3, <2>1 DEF TotalBlocks
<1> QED
  BY <1>1, <1>2, <1>3

\* Every request for something needs a block.
LEMMA SomeBlocks ==
    ASSUME NEW size \in Nat \ {0}
    PROVE  TotalBlocks(size) \in Nat \ {0}
<1>1. BlockSize \in Nat \ {0}
  BY HeapAssumption
<1>2. PICK m \in 0 .. BlockSize - 1 : m = size % BlockSize
  BY <1>1
<1>3. CASE m = 0
  <2>1. size = (size \div BlockSize) * BlockSize /\ size \div BlockSize \in Nat
    BY <1>1, <1>2, <1>3
  <2> QED
    BY <1>1, <1>2, <1>3, <2>1 DEF TotalBlocks
<1>4. CASE m # 0
  <2>1. PICK y \in Nat : y = size - m + BlockSize
    <3>1. m <= size
      BY <1>1, <1>2
    <3> QED
      BY <1>1, <1>2, <3>1
  <2>2. y >= BlockSize
    <3>1. m <= size
      BY <1>1, <1>2
    <3> QED
      BY <1>1, <1>2, <2>1, <3>1
  <2>3. y \div BlockSize \in Nat /\ y \div BlockSize # 0
    BY <1>1, <2>1, <2>2
  <2> QED
    BY <1>2, <1>4, <2>1, <2>3 DEF TotalBlocks
<1> QED
  BY <1>3, <1>4

\* A run of free blocks is taken from where the search finds it.
LEMMA FirstFit ==
    ASSUME NEW total \in Nat \ {0}, Fits(total) # {},
           NEW s \in heap_get_start_block(total)
    PROVE  /\ s \in Blocks /\ s + total <= TotalEntries
           /\ FreeRun(s, s + total - 1)
           /\ \A r \in Fits(total) : s <= r
  BY DEF heap_get_start_block, Fits

\* A single block is found exactly when one is free.
LEMMA OneFits ==
    ASSUME NEW s \in heap_get_start_block(1)
    PROVE  s \in Blocks /\ s + 1 <= TotalEntries /\ IsFree(s)
<1>0. TotalEntries \in Nat
  BY HeapAssumption
<1>1. CASE Fits(1) # {}
  <2>1. s \in Blocks /\ s + 1 <= TotalEntries /\ FreeRun(s, s + 1 - 1)
    BY <1>1, FirstFit
  <2>2. s \in s .. s + 1 - 1
    BY <2>1, <1>0 DEF Blocks
  <2> QED
    BY <2>1, <2>2 DEF FreeRun
<1>2. CASE Fits(1) = {}
  <2>1. s \in Blocks /\ FreeRun(s, TotalEntries - 1)
    BY <1>2 DEF heap_get_start_block, Trailing
  <2>2. s \in Fits(1)
    BY <2>1, <1>0 DEF Fits, FreeRun, Blocks
  <2> QED
    BY <1>2, <2>2
<1> QED
  BY <1>1, <1>2

\* A round of the loop of heap_get_start_block.
Round(b, i, total) ==
    LET s == IF b.start = -1 THEN i - 1 ELSE b.start
    IN  IF b.stop THEN b
        ELSE IF TAKEN \in entries[i - 1]
        THEN [start |-> -1, count |-> 0, stop |-> FALSE]
        ELSE [start |-> s, count |-> b.count + 1, stop |-> b.count + 1 = total]

ScanBody(scan, i, total) ==
    IF i = 0 THEN [start |-> -1, count |-> 0, stop |-> FALSE]
    ELSE Round(scan[i - 1], i, total)

IsScan(scan, n, total) == scan = [i \in 0 .. n |-> ScanBody(scan, i, total)]

LEMMA ScanPrefix ==
    ASSUME NEW total, NEW n \in Nat
    PROVE  \E scan : IsScan(scan, n, total)
<1> DEFINE S == {m \in Nat : \E scan : IsScan(scan, m, total)}
<1>1. 0 \in S
  <2>1. PICK f : f = [i \in 0 .. 0 |-> [start |-> -1, count |-> 0, stop |-> FALSE]]
    OBVIOUS
  <2>2. f = [i \in 0 .. 0 |-> ScanBody(f, i, total)]
    BY <2>1 DEF ScanBody
  <2> QED BY <2>2 DEF IsScan
<1>2. ASSUME NEW m \in Nat, m \in S
      PROVE  m + 1 \in S
  <2>1. PICK scan : IsScan(scan, m, total)
    BY <1>2
  <2>2. \A i \in 0 .. m : scan[i] = ScanBody(scan, i, total)
    BY <2>1 DEF IsScan
  <2> DEFINE g == [i \in 0 .. m + 1 |-> IF i < m + 1 THEN scan[i]
                                        ELSE ScanBody(scan, m + 1, total)]
  <2>3. \A i \in 0 .. m : g[i] = scan[i]
    OBVIOUS
  <2>4. g[m + 1] = ScanBody(scan, m + 1, total)
    OBVIOUS
  <2>5. g = [i \in 0 .. m + 1 |-> g[i]]
    OBVIOUS
  <2> HIDE DEF g
  <2>6. ASSUME NEW i \in 0 .. m + 1
        PROVE  ScanBody(g, i, total) = ScanBody(scan, i, total)
    <3>1. CASE i = 0
      BY <3>1 DEF ScanBody
    <3>2. CASE i # 0
      <4>1. i - 1 \in 0 .. m
        BY <3>2
      <4>2. g[i - 1] = scan[i - 1]
        BY <2>3, <4>1
      <4> QED BY <3>2, <4>2 DEF ScanBody
    <3> QED BY <3>1, <3>2
  <2>7. \A i \in 0 .. m + 1 : g[i] = ScanBody(g, i, total)
    <3> SUFFICES ASSUME NEW i \in 0 .. m + 1
                 PROVE  g[i] = ScanBody(g, i, total)
      OBVIOUS
    <3>1. CASE i = m + 1
      BY <2>4, <2>6, <3>1
    <3>2. CASE i # m + 1
      <4>1. i \in 0 .. m
        BY <3>2
      <4> QED BY <2>2, <2>3, <2>6, <4>1
    <3> QED BY <3>1, <3>2
  <2>8. IsScan(g, m + 1, total)
    BY <2>5, <2>7 DEF IsScan
  <2> QED BY <2>8
<1> HIDE DEF S
<1>3. Nat \subseteq S
  BY <1>1, <1>2, StepInduction
<1> QED BY <1>3 DEF S

LEMMA ScanIs ==
    ASSUME NEW total
    PROVE  \E scan : /\ IsScan(scan, TotalEntries, total)
                     /\ Scan(total) = scan[TotalEntries].start
<1> DEFINE scan == CHOOSE scan : scan = [i \in 0 .. TotalEntries |->
                     IF i = 0 THEN [start |-> -1, count |-> 0, stop |-> FALSE]
                     ELSE LET b == scan[i - 1]
                              s == IF b.start = -1 THEN i - 1 ELSE b.start
                          IN  IF b.stop THEN b
                              ELSE IF TAKEN \in entries[i - 1]
                              THEN [start |-> -1, count |-> 0, stop |-> FALSE]
                              ELSE [start |-> s, count |-> b.count + 1,
                                    stop |-> b.count + 1 = total]]
<1>1. \E f : IsScan(f, TotalEntries, total)
  BY HeapAssumption, ScanPrefix
<1>2. IsScan(scan, TotalEntries, total)
  BY <1>1, Zenon DEF IsScan, ScanBody, Round
<1>3. Scan(total) = scan[TotalEntries].start
  BY Zenon DEF Scan
<1> HIDE DEF scan
<1> QED BY <1>2, <1>3

\* No run of free blocks of the length asked for ends before block i.
NoRun(i, total) ==
    \A t \in 0 .. i : total > 0 /\ t + total <= i => ~FreeRun(t, t + total - 1)

\* Where the loop has got to after i rounds without a break: at the beginning of
\* the free blocks that end at block i - 1, if there are any.
Under(b, i) ==
    \/ b.start = -1 /\ b.count = 0 /\ (i > 0 => ~IsFree(i - 1))
    \/ /\ b.start \in 0 .. i - 1 /\ b.count = i - b.start
       /\ FreeRun(b.start, i - 1)
       /\ b.start > 0 => ~IsFree(b.start - 1)

\* What the loop has found when it breaks.
Found(b, i, total) ==
    /\ total > 0 /\ b.start \in 0 .. i - 1 /\ b.start + total <= i
    /\ FreeRun(b.start, b.start + total - 1)
    /\ \A t \in 0 .. b.start - 1 : ~FreeRun(t, t + total - 1)

ScanInv(b, i, total) ==
    IF b.stop THEN Found(b, i, total) ELSE Under(b, i) /\ NoRun(i, total)

LEMMA RoundKeeps ==
    ASSUME NEW total \in Nat, NEW i \in Nat, NEW b, ScanInv(b, i, total)
    PROVE  ScanInv(Round(b, i + 1, total), i + 1, total)
<1>1. PICK r : r = Round(b, i + 1, total)
  OBVIOUS
<1>0. (i + 1) - 1 = i
  OBVIOUS
<1>2. CASE b.stop
  <2>1. r = b
    BY <1>1, <1>2 DEF Round
  <2>2. Found(b, i, total)
    BY <1>2 DEF ScanInv
  <2>3. Found(b, i + 1, total)
    BY <2>2 DEF Found
  <2> QED BY <1>1, <1>2, <2>1, <2>3 DEF ScanInv
<1>3. CASE ~b.stop
  <2>0. Under(b, i) /\ NoRun(i, total)
    BY <1>3 DEF ScanInv
  <2>1. CASE ~IsFree(i)
    <3>1. r = [start |-> -1, count |-> 0, stop |-> FALSE]
      BY <1>0, <1>1, <1>3, <2>1 DEF Round, IsFree
    <3>2. Under(r, i + 1) /\ ~r.stop
      BY <1>0, <2>1, <3>1 DEF Under
    <3>3. ASSUME NEW t \in 0 .. i + 1, total > 0, t + total <= i + 1
          PROVE  ~FreeRun(t, t + total - 1)
      <4>1. CASE t + total <= i
        BY <2>0, <3>3, <4>1 DEF NoRun
      <4>2. CASE t + total = i + 1
        BY <2>1, <3>3, <4>2 DEF FreeRun
      <4> QED BY <3>3, <4>1, <4>2
    <3>4. NoRun(i + 1, total)
      BY <3>3 DEF NoRun
    <3> QED BY <1>1, <3>2, <3>4 DEF ScanInv
  <2>2. CASE IsFree(i)
    <3>1. PICK s : s = IF b.start = -1 THEN i ELSE b.start
      OBVIOUS
    <3>2. r = [start |-> s, count |-> b.count + 1, stop |-> b.count + 1 = total]
      BY <1>0, <1>1, <1>3, <2>2, <3>1 DEF Round, IsFree
    <3>3. /\ s \in 0 .. i /\ b.count + 1 = i + 1 - s
          /\ FreeRun(s, i)
          /\ s > 0 => ~IsFree(s - 1)
      BY <2>0, <2>2, <3>1 DEF Under, FreeRun
    <3>4. r.start = s /\ r.count = i + 1 - s /\ (r.stop <=> i + 1 - s = total)
      BY <3>2, <3>3
    <3>5. CASE i + 1 - s = total
      <4>1. total > 0 /\ s + total = i + 1 /\ s + total - 1 = i
        BY <3>3, <3>5
      <4>2. \A t \in 0 .. s - 1 : ~FreeRun(t, t + total - 1)
        BY <2>0, <3>3, <4>1 DEF NoRun
      <4>3. Found(r, i + 1, total)
        BY <3>3, <3>4, <4>1, <4>2 DEF Found
      <4> QED BY <1>1, <3>4, <3>5, <4>3 DEF ScanInv
    <3>6. CASE i + 1 - s # total
      <4>1. Under(r, i + 1)
        BY <1>0, <3>3, <3>4 DEF Under
      <4>2. ASSUME NEW t \in 0 .. i + 1, total > 0, t + total <= i + 1
            PROVE  ~FreeRun(t, t + total - 1)
        <5>1. CASE t + total <= i
          BY <2>0, <4>2, <5>1 DEF NoRun
        <5>2. CASE t + total = i + 1
          <6>1. ~(s + total <= i)
            <7>1. SUFFICES ASSUME s + total <= i PROVE FALSE
              OBVIOUS
            <7>2. ~FreeRun(s, s + total - 1)
              BY <2>0, <3>3, <4>2, <7>1 DEF NoRun
            <7>3. FreeRun(s, s + total - 1)
              BY <3>3, <7>1 DEF FreeRun
            <7> QED BY <7>2, <7>3
          <6>2. t < s /\ s - 1 \in t .. t + total - 1 /\ s > 0
            BY <3>3, <3>6, <4>2, <5>2, <6>1
          <6> QED BY <3>3, <6>2 DEF FreeRun
        <5> QED BY <4>2, <5>1, <5>2
      <4>3. NoRun(i + 1, total)
        BY <4>2 DEF NoRun
      <4> QED BY <1>1, <3>4, <3>6, <4>1, <4>3 DEF ScanInv
    <3> QED BY <3>5, <3>6
  <2> QED BY <2>1, <2>2
<1> QED BY <1>2, <1>3

\* The search stated with sets is the loop of heap_get_start_block, for every
\* size and content of the table and every request, the empty one and those too
\* large included.
THEOREM SearchIsLoop ==
    FirstFitAsLoop
<1> SUFFICES ASSUME NEW total \in 0 .. TotalEntries + 1
             PROVE  heap_get_start_block(total)
                      = IF Scan(total) = -1 THEN {} ELSE {Scan(total)}
  BY DEF FirstFitAsLoop
<1>0. PICK N \in Nat \ {0} : N = TotalEntries /\ total \in Nat /\ Blocks = 0 .. N - 1
  BY HeapAssumption DEF Blocks
<1>1. PICK scan : IsScan(scan, N, total) /\ Scan(total) = scan[N].start
  BY <1>0, ScanIs
<1>2. \A i \in 0 .. N : scan[i] = ScanBody(scan, i, total)
  BY <1>1 DEF IsScan
<1> DEFINE S == {i \in Nat : i <= N => ScanInv(scan[i], i, total)}
<1>3. 0 \in S
  <2>1. scan[0] = [start |-> -1, count |-> 0, stop |-> FALSE]
    BY <1>0, <1>2 DEF ScanBody
  <2>2. Under(scan[0], 0) /\ ~scan[0].stop
    BY <2>1 DEF Under
  <2>3. NoRun(0, total)
    BY <1>0 DEF NoRun
  <2> QED BY <2>2, <2>3 DEF ScanInv
<1>4. ASSUME NEW i \in Nat, i \in S
      PROVE  i + 1 \in S
  <2> SUFFICES ASSUME i + 1 <= N PROVE ScanInv(scan[i + 1], i + 1, total)
    OBVIOUS
  <2>1. i + 1 \in 0 .. N /\ i + 1 # 0 /\ (i + 1) - 1 = i /\ i <= N
    BY <1>0
  <2>2. scan[i + 1] = Round(scan[i], i + 1, total)
    BY <1>2, <2>1 DEF ScanBody
  <2>3. ScanInv(scan[i], i, total)
    BY <1>4, <2>1
  <2> QED BY <1>0, <2>2, <2>3, RoundKeeps
<1> HIDE DEF S
<1>5. N \in S
  BY <1>0, <1>3, <1>4, StepInduction
<1>6. PICK b : b = scan[N] /\ ScanInv(b, N, total) /\ Scan(total) = b.start
  BY <1>0, <1>1, <1>5 DEF S
<1>7. CASE b.stop
  <2>1. Found(b, N, total)
    BY <1>6, <1>7 DEF ScanInv
  <2>2. b.start \in Fits(total) /\ b.start # -1
    BY <1>0, <2>1 DEF Found, Fits
  <2>3. \A r \in Fits(total) : b.start <= r
    BY <1>0, <2>1 DEF Found, Fits
  <2>4. \A r \in Fits(total) : r \in Int
    BY <1>0 DEF Fits
  <2>5. heap_get_start_block(total) = {b.start}
    BY <2>2, <2>3, <2>4 DEF heap_get_start_block
  <2> QED BY <1>6, <2>2, <2>5
<1>8. CASE ~b.stop
  <2>1. Under(b, N) /\ NoRun(N, total)
    BY <1>6, <1>8 DEF ScanInv
  <2>2. Fits(total) = {}
    BY <1>0, <2>1 DEF NoRun, Fits
  <2>3. heap_get_start_block(total) = Trailing
    BY <2>2 DEF heap_get_start_block
  <2>4. CASE b.start = -1
    <3>1. ~IsFree(N - 1)
      BY <1>0, <2>1, <2>4 DEF Under
    <3>2. Trailing = {}
      BY <1>0, <3>1 DEF Trailing, FreeRun
    <3> QED BY <1>6, <2>3, <2>4, <3>2
  <2>5. CASE b.start # -1
    <3>1. /\ b.start \in 0 .. N - 1 /\ FreeRun(b.start, N - 1)
          /\ b.start > 0 => ~IsFree(b.start - 1)
      BY <2>1, <2>5 DEF Under
    <3>2. b.start \in Trailing
      BY <1>0, <3>1 DEF Trailing
    <3>3. ASSUME NEW t \in Trailing
          PROVE  t = b.start
      <4>1. t \in 0 .. N - 1 /\ FreeRun(t, N - 1) /\ (t > 0 => ~IsFree(t - 1))
        BY <1>0 DEF Trailing
      <4>2. CASE t < b.start
        BY <1>0, <3>1, <4>1, <4>2 DEF FreeRun
      <4>3. CASE b.start < t
        BY <1>0, <3>1, <4>1, <4>3 DEF FreeRun
      <4> QED BY <1>0, <3>1, <4>1, <4>2, <4>3
    <3>4. Trailing = {b.start}
      BY <3>2, <3>3
    <3> QED BY <1>6, <2>3, <2>5, <3>4
  <2> QED BY <2>4, <2>5
<1> QED BY <1>7, <1>8

LEMMA NoneFits ==
    ASSUME heap_get_start_block(1) = {}
    PROVE  \A i \in Blocks : ~IsFree(i)
<1> SUFFICES ASSUME NEW i \in Blocks, IsFree(i)
             PROVE  FALSE
  OBVIOUS
<1>0. TotalEntries \in Nat
  BY HeapAssumption
<1>1. i \in Fits(1)
  BY <1>0 DEF Fits, FreeRun, Blocks
<1>2. Fits(1) \subseteq Nat
  BY <1>0 DEF Fits, Blocks
<1>3. PICK n \in Fits(1) : \A m \in Fits(1) : n <= m
  BY <1>1, <1>2, LeastNatural
<1>4. n \in heap_get_start_block(1)
  BY <1>3 DEF heap_get_start_block
<1> QED
  BY <1>4

-----------------------------------------------------------------------------

(* The inductive invariant.                                                *)

\* The allocations as the table shows them: each has a block, what may be freed
\* has one only, and the mark of a single block does not lead to the next.
HeapInv ==
    /\ TypeOK /\ Disjoint /\ TableMatches /\ InsideHeap
    /\ \A a \in allocated : /\ a.total > 0
                            /\ a.total = 1 => HAS_NEXT \notin entries[a.block]
                            /\ ~a.kept => a.total = 1

\* An allocation lies at its block, where no other one lies.
LEMMA AtBlock ==
    ASSUME HeapInv, NEW a \in allocated, NEW b \in allocated
    PROVE  a.block \in Extent(a) /\ (a.block = b.block => a = b)
<1>1. \A c \in allocated : c.block \in Extent(c)
  BY HeapAssumption DEF HeapInv, TypeOK, Extent, Blocks
<1> QED
  BY <1>1 DEF HeapInv, Disjoint

\* Taking a run of free blocks.
LEMMA MarkStep ==
    ASSUME HeapInv, booted' \in 0 .. Len(BootSizes),
           NEW s \in Blocks, NEW total \in Nat \ {0}, NEW kept \in BOOLEAN,
           s + total <= TotalEntries, FreeRun(s, s + total - 1),
           ~kept => total = 1,
           heap_mark_blocks_taken(s, total),
           allocated' = allocated \cup
             {[block |-> s, total |-> total, kept |-> kept]}
    PROVE  /\ HeapInv'
           /\ \A i \in Blocks : IsFree(i)' <=> IsFree(i) /\ i \notin s .. s + total - 1
           /\ \A a \in allocated : s \notin Extent(a)
<1>0. TotalEntries \in Nat \ {0} /\ s \in Nat /\ s \in s .. s + total - 1
  BY HeapAssumption DEF Blocks
<1> DEFINE new == [block |-> s, total |-> total, kept |-> kept]
<1>1. new.block = s /\ new.total = total /\ new.kept = kept
        /\ new \in [block : Blocks, total : Nat, kept : BOOLEAN]
  OBVIOUS
<1> HIDE DEF new
<1>2. allocated' = allocated \cup {new}
  BY DEF new
<1>3. \A i \in Blocks : entries'[i] = IF i \in s .. s + total - 1
                                    THEN Mark(i - s, total) ELSE entries[i]
  BY DEF heap_mark_blocks_taken
<1>4. s .. s + total - 1 \subseteq Blocks
  BY <1>0 DEF Blocks
<1>5. past' = 0
  BY <1>0 DEF heap_mark_blocks_taken, HeapInv, InsideHeap
<1>6. \A i \in Blocks : IsFree(i)' <=> IsFree(i) /\ i \notin s .. s + total - 1
  BY <1>3 DEF IsFree, Mark
<1>7. \A a \in allocated : Extent(a) \cap (s .. s + total - 1) = {}
  BY <1>4 DEF HeapInv, TableMatches, FreeRun
<1>8. Extent(new) = s .. s + total - 1
  BY <1>1 DEF Extent
<1>9. TypeOK'
  <2>1. entries' \in [Blocks -> SUBSET {TAKEN, FIRST, HAS_NEXT}]
    BY DEF heap_mark_blocks_taken, Mark, HeapInv, TypeOK
  <2> QED
    BY <1>1, <1>2, <1>5, <2>1 DEF HeapInv, TypeOK
<1>10. Disjoint'
  <2> SUFFICES ASSUME NEW a \in allocated', NEW b \in allocated', a # b
               PROVE  Extent(a) \cap Extent(b) = {}
    BY DEF Disjoint, Extent
  <2> QED
    BY <1>2, <1>7, <1>8 DEF HeapInv, Disjoint
<1>11. TableMatches'
  <2> SUFFICES ASSUME NEW i \in Blocks
               PROVE  ~IsFree(i)' <=> \E a \in allocated' : i \in Extent(a)
    BY DEF TableMatches, Extent
  <2>1. ~IsFree(i) <=> \E a \in allocated : i \in Extent(a)
    BY DEF HeapInv, TableMatches
  <2> QED
    BY <1>2, <1>6, <1>8, <2>1
<1>12. InsideHeap'
  <2>1. \A a \in allocated' : Extent(a) \subseteq Blocks
    BY <1>2, <1>4, <1>8 DEF HeapInv, InsideHeap
  <2> QED
    BY <1>5, <2>1 DEF InsideHeap, Extent
<1>13. ASSUME NEW a \in allocated'
       PROVE  /\ a.total > 0
              /\ a.total = 1 => HAS_NEXT \notin entries'[a.block]
              /\ ~a.kept => a.total = 1
  <2>1. CASE a = new
    <3>1. total = 1 => entries'[s] = Mark(0, 1)
      BY <1>0, <1>3
    <3>2. HAS_NEXT \notin Mark(0, 1)
      BY DEF Mark, HAS_NEXT, TAKEN, FIRST
    <3> QED
      BY <1>1, <2>1, <3>1, <3>2
  <2>2. CASE a \in allocated
    <3>1. a.block \in Blocks /\ a.total \in Nat /\ a.total > 0
      BY <2>2 DEF HeapInv, TypeOK
    <3>2. a.block \in Extent(a)
      BY <3>1 DEF Extent, Blocks
    <3>3. entries'[a.block] = entries[a.block]
      BY <1>3, <1>7, <2>2, <3>1, <3>2
    <3> QED
      BY <2>2, <3>3 DEF HeapInv
  <2> QED
    BY <1>2, <2>1, <2>2
<1>14. HeapInv'
  BY <1>9, <1>10, <1>11, <1>12, <1>13 DEF HeapInv
<1> QED
  BY <1>0, <1>6, <1>7, <1>14

\* Giving back an allocation of a block.
LEMMA FreeStep ==
    ASSUME HeapInv, booted' = booted,
           NEW a \in allocated, a.total = 1, kfree(a)
    PROVE  /\ HeapInv'
           /\ \A i \in Blocks : IsFree(i)' <=> IsFree(i) \/ i = a.block
           /\ \A b \in allocated : b.block = a.block => b = a
<1>0. TotalEntries \in Nat \ {0} /\ a.block \in Blocks
  BY HeapAssumption DEF HeapInv, TypeOK
<1>1. HAS_NEXT \notin entries[a.block]
  BY DEF HeapInv
<1>2. LastFreed(a.block) = a.block
  <2> DEFINE Stop(e) == /\ \A i \in a.block .. e - 1 : HAS_NEXT \in entries[i]
                        /\ HAS_NEXT \notin entries[e] \/ e = TotalEntries - 1
  <2>1. a.block \in a.block .. TotalEntries - 1 /\ Stop(a.block)
    BY <1>0, <1>1 DEF Blocks
  <2>2. \A e \in a.block .. TotalEntries - 1 : Stop(e) => e = a.block
    BY <1>0, <1>1 DEF Blocks
  <2>3. LastFreed(a.block) = CHOOSE e \in a.block .. TotalEntries - 1 : Stop(e)
    BY DEF LastFreed
  <2> HIDE DEF Stop
  <2> QED
    BY <2>1, <2>2, <2>3
<1>3. \A i \in Blocks : entries'[i] = IF i = a.block THEN FREE ELSE entries[i]
  BY <1>0, <1>2 DEF kfree, heap_mark_blocks_free, Blocks
<1>4. \A i \in Blocks : IsFree(i)' <=> IsFree(i) \/ i = a.block
  BY <1>3 DEF IsFree, FREE
<1>5. allocated' = allocated \ {a} /\ past' = past
  BY DEF kfree
<1>6. Extent(a) = {a.block}
  BY <1>0 DEF Extent, Blocks
<1>7. TypeOK'
  <2>1. entries' \in [Blocks -> SUBSET {TAKEN, FIRST, HAS_NEXT}]
    BY DEF kfree, heap_mark_blocks_free, FREE, HeapInv, TypeOK
  <2> QED
    BY <1>5, <2>1 DEF HeapInv, TypeOK
<1>8. \A b \in allocated' : a.block \notin Extent(b)
  BY <1>5, <1>6 DEF HeapInv, Disjoint
<1>9. \A b \in allocated : b.block \in Blocks /\ b.block \in Extent(b)
  BY <1>0 DEF HeapInv, TypeOK, Extent, Blocks
<1>10. Disjoint'
  BY <1>5 DEF HeapInv, Disjoint, Extent
<1>11. TableMatches'
  <2> SUFFICES ASSUME NEW i \in Blocks
               PROVE  ~IsFree(i)' <=> \E b \in allocated' : i \in Extent(b)
    BY DEF TableMatches, Extent
  <2>1. ~IsFree(i) <=> \E b \in allocated : i \in Extent(b)
    BY DEF HeapInv, TableMatches
  <2> QED
    BY <1>4, <1>5, <1>6, <1>8, <2>1
<1>12. InsideHeap'
  BY <1>5 DEF HeapInv, InsideHeap, Extent
<1>13. \A b \in allocated' : /\ b.total > 0
                             /\ b.total = 1 => HAS_NEXT \notin entries'[b.block]
                             /\ ~b.kept => b.total = 1
  BY <1>3, <1>5, <1>8, <1>9 DEF HeapInv
<1>14. \A b \in allocated : b.block = a.block => b = a
  BY <1>5, <1>8, <1>9
<1> QED
  BY <1>4, <1>7, <1>10, <1>11, <1>12, <1>13, <1>14 DEF HeapInv

-----------------------------------------------------------------------------
(* Booting.                                                                *)

\* The ends of the boot allocations, one behind the other.
Ends ==
    CHOOSE ends \in [0 .. Len(BootSizes) -> 0 .. TotalEntries] :
        /\ ends[0] = 0
        /\ \A i \in 1 .. Len(BootSizes) :
             /\ BootSizes[i] > 0
             /\ ends[i] = ends[i - 1] + TotalBlocks(BootSizes[i])

LEMMA EndsFit ==
    ASSUME BootFits
    PROVE  /\ Ends \in [0 .. Len(BootSizes) -> 0 .. TotalEntries]
           /\ Ends[0] = 0
           /\ \A i \in 1 .. Len(BootSizes) :
                /\ BootSizes[i] > 0
                /\ Ends[i] = Ends[i - 1] + TotalBlocks(BootSizes[i])
  BY Zenon DEF BootFits, Ends

\* Until the last boot allocation, what is taken is the beginning of the heap.
BootInv ==
    booted < Len(BootSizes) => \A i \in Blocks : IsFree(i) <=> i >= Ends[booted]

\* A boot allocation finds its blocks behind the ones before it.
LEMMA BootStep ==
    ASSUME BootFits, HeapInv, BootInv, BootMalloc
    PROVE  /\ HeapInv' /\ BootInv'
           /\ \E s \in Blocks, total \in Nat :
                /\ \A a \in allocated : s \notin Extent(a)
                /\ allocated' = allocated \cup
                                  {[block |-> s, total |-> total, kept |-> TRUE]}
<1>0. TotalEntries \in Nat \ {0} /\ Len(BootSizes) \in Nat /\ booted \in Nat
        /\ booted < Len(BootSizes)
        /\ booted' = booted + 1 /\ booted + 1 \in 1 .. Len(BootSizes)
  BY HeapAssumption DEF BootMalloc, HeapInv, TypeOK
<1>1. PICK size \in Nat \ {0} : size = BootSizes[booted + 1]
  BY <1>0, EndsFit, HeapAssumption
<1>2. PICK total \in Nat \ {0} : total = TotalBlocks(size)
  BY <1>1, SomeBlocks
<1>3. PICK e \in 0 .. TotalEntries : e = Ends[booted]
  BY <1>0, EndsFit
<1>4. Ends[booted + 1] = e + total /\ e + total <= TotalEntries
  <2>1. Ends[booted + 1] = Ends[booted + 1 - 1] + TotalBlocks(BootSizes[booted + 1])
          /\ Ends[booted + 1] \in 0 .. TotalEntries
    BY <1>0, EndsFit
  <2> QED
    BY <1>0, <1>1, <1>2, <1>3, <2>1
<1>5. PICK s \in Blocks : kmalloc(s, size, TRUE)
  BY <1>1 DEF BootMalloc
<1>6. \A i \in Blocks : IsFree(i) <=> i >= e
  BY <1>0, <1>3 DEF BootInv
<1>7. e \in Fits(total)
  BY <1>0, <1>4, <1>6 DEF Fits, FreeRun, Blocks
<1>8. /\ s + total <= TotalEntries /\ FreeRun(s, s + total - 1)
      /\ \A r \in Fits(total) : s <= r
  BY <1>2, <1>5, <1>7, FirstFit DEF kmalloc
<1>9. s = e
  <2>1. s <= e
    BY <1>7, <1>8
  <2>2. IsFree(s)
    BY <1>0, <1>8 DEF FreeRun, Blocks
  <2> QED
    BY <1>6, <2>1, <2>2 DEF Blocks
<1>13. heap_mark_blocks_taken(s, total)
         /\ allocated' = allocated \cup
                           {[block |-> s, total |-> total, kept |-> TRUE]}
  BY <1>2, <1>5 DEF kmalloc
<1>10. /\ HeapInv'
       /\ \A i \in Blocks : IsFree(i)' <=> IsFree(i) /\ i \notin s .. s + total - 1
       /\ \A a \in allocated : s \notin Extent(a)
  <2>2. booted' \in 0 .. Len(BootSizes)
    BY <1>0
  <2> QED
    BY <1>8, <1>13, <2>2, MarkStep, Zenon
<1>11. \A i \in Blocks : IsFree(i)' <=> i >= e + total
  BY <1>0, <1>6, <1>9, <1>10 DEF Blocks
<1>12. Ends' = Ends
  BY DEF Ends, TotalBlocks
<1>14. BootInv'
  BY <1>0, <1>4, <1>11, <1>12 DEF BootInv
<1> QED
  BY <1>10, <1>13, <1>14

\* A later allocation gets a free block.
LEMMA MallocStep ==
    ASSUME HeapInv, BootInv, booted = Len(BootSizes), booted' = booted,
           NEW s \in Blocks, NEW size \in 1 .. BlockSize, NEW kept \in BOOLEAN,
           kmalloc(s, size, kept)
    PROVE  /\ HeapInv' /\ BootInv'
           /\ IsFree(s)
           /\ \A i \in Blocks : IsFree(i)' <=> IsFree(i) /\ i # s
           /\ \A a \in allocated : s \notin Extent(a)
           /\ allocated' = allocated \cup
                             {[block |-> s, total |-> 1, kept |-> kept]}
<1>0. TotalEntries \in Nat \ {0} /\ Len(BootSizes) \in Nat /\ s \in Nat
        /\ booted' \in 0 .. Len(BootSizes) /\ ~ (booted < Len(BootSizes))
  BY HeapAssumption DEF Blocks
<1>1. TotalBlocks(size) = 1
  BY OneBlock
<1>2. s + 1 <= TotalEntries /\ IsFree(s)
  BY <1>1, OneFits DEF kmalloc
<1>3. FreeRun(s, s + 1 - 1)
  BY <1>0, <1>2 DEF FreeRun
<1>4. heap_mark_blocks_taken(s, 1)
        /\ allocated' = allocated \cup {[block |-> s, total |-> 1, kept |-> kept]}
  BY <1>1 DEF kmalloc
<1>5. /\ HeapInv'
      /\ \A i \in Blocks : IsFree(i)' <=> IsFree(i) /\ i \notin s .. s + 1 - 1
      /\ \A a \in allocated : s \notin Extent(a)
  BY <1>0, <1>2, <1>3, <1>4, MarkStep
<1>6. \A i \in Blocks : i \in s .. s + 1 - 1 <=> i = s
  BY <1>0 DEF Blocks
<1> QED
  BY <1>0, <1>2, <1>4, <1>5, <1>6 DEF BootInv

-----------------------------------------------------------------------------
(* The heap by itself.                                                     *)

LEMMA InitHeap ==
    ASSUME BootFits, Init
    PROVE  HeapInv /\ BootInv
<1>0. Len(BootSizes) \in Nat
  BY HeapAssumption
<1>1. \A i \in Blocks : IsFree(i)
  BY DEF Init, IsFree, FREE
<1>2. HeapInv
  BY <1>0, <1>1 DEF Init, HeapInv, TypeOK, FREE, Disjoint, TableMatches, InsideHeap
<1>3. BootInv
  BY <1>1, EndsFit, HeapAssumption DEF Init, BootInv, Blocks
<1> QED
  BY <1>2, <1>3

LEMMA NextHeap ==
    ASSUME BootFits, SingleBlocks, HeapInv, BootInv, [Next]_vars
    PROVE  HeapInv' /\ BootInv'
<1>1. CASE BootMalloc
  BY <1>1, BootStep
<1>2. CASE Malloc
  <2>1. PICK size \in 1 .. BlockSize, s \in Blocks : kmalloc(s, size, FALSE)
    BY <1>2 DEF Malloc, SingleBlocks
  <2> QED
    BY <1>2, <2>1, MallocStep DEF Malloc
<1>3. CASE Free
  <2>1. PICK a \in allocated : ~a.kept /\ kfree(a)
    BY <1>3 DEF Free
  <2>2. a.total = 1 /\ booted = Len(BootSizes) /\ booted' = booted
    BY <1>3, <2>1 DEF HeapInv, Free
  <2>3. HeapInv'
    BY <2>1, <2>2, FreeStep
  <2> QED
    BY <2>2, <2>3, HeapAssumption DEF BootInv
<1>4. CASE UNCHANGED vars
  BY <1>4 DEF vars, HeapInv, BootInv, TypeOK, Disjoint, TableMatches, InsideHeap,
              IsFree, Extent
<1> QED
  BY <1>1, <1>2, <1>3, <1>4 DEF Next

\* Whatever sequence of kmalloc and kfree follows a boot that fits: no two
\* allocations in use share a block, the table marks exactly their blocks, and
\* nothing is written behind it.
THEOREM HeapSound ==
    ASSUME BootFits, SingleBlocks
    PROVE  Spec => [](Disjoint /\ TableMatches /\ InsideHeap)
<1>1. Init => HeapInv /\ BootInv
  BY InitHeap
<1>2. HeapInv /\ BootInv /\ [Next]_vars => HeapInv' /\ BootInv'
  BY NextHeap
<1>3. HeapInv => Disjoint /\ TableMatches /\ InsideHeap
  BY DEF HeapInv
<1> QED
  BY <1>1, <1>2, <1>3, PTL DEF Spec

-----------------------------------------------------------------------------
(* The inductive invariant.                                                *)

\* The processes that hold a directory.
Holders == With("live") \cup With("ended")

\* The heap blocks that a directory refers to.
BlocksOf(d) == {d.dir, d.table} \ {NONE}

\* A directory that refers to frames of `own' and to kept blocks of `heap', and
\* to no frame twice.
Backed(d, own, heap) ==
    /\ d.dir # NONE
    /\ Mapped(d) \subseteq own
    /\ \A b \in BlocksOf(d) : \E a \in heap : a.block = b /\ a.total = 1 /\ a.kept
    /\ \A i, j \in Pages : i # j /\ d.pages[i] # NONE => d.pages[i] # d.pages[j]

\* Nothing in common.
Apart(d, e) ==
    Mapped(d) \cap Mapped(e) = {} /\ BlocksOf(d) \cap BlocksOf(e) = {}

\* Every directory in use is backed, and no two have anything in common.
DirInv ==
    /\ \A p \in Holders : Backed(cr3[p], owned, allocated)
    /\ step # "idle" => Backed(pd, owned, allocated)
    /\ \A p, q \in Holders : p # q => Apart(cr3[p], cr3[q])
    /\ \A p \in Holders : Apart(cr3[p], pd)
    /\ step = "set" => /\ phys \in owned \ Mapped(pd)
                       /\ \A p \in Holders : phys \notin Mapped(cr3[p])

\* How far create_process has come.  Once a page table could not be had no block
\* is free until the call ends.
BuildInv ==
    /\ step = "idle" => pd = NoDirectory
    /\ step # "idle" => ~started /\ booted = Len(BootSizes)
    /\ step \in {"idle", "pointer"} =>
         page = 0 /\ pd.table = NONE /\ pd.pages = NoDirectory.pages
    /\ step \in {"frame", "set"} => page < StackPages
    /\ step = "check" => page = StackPages
    /\ pd.table = NONE => /\ pd.pages = NoDirectory.pages
                          /\ page > 0 => \A b \in Blocks : ~IsFree(b)
    /\ pd.table # NONE => \A i \in Pages : i < page => pd.pages[i] # NONE

\* The order of the kernel's life and of a process's.
OrderInv ==
    /\ owned \subseteq bitmap
    /\ started => booted = Len(BootSizes)
    /\ zombie # NONE => started /\ life[zombie] = "ended"
    /\ \A p \in Holders : /\ cr3[p].table # NONE
                          /\ \A i \in Pages : cr3[p].pages[i] # NONE

\* Every call has failed, has made a process or is under way.
Busy == IF step = "idle" THEN 0 ELSE 1

CountInv ==
    Cardinality(Slots \ With("unused")) + failed + Busy = calls

\* Frames and blocks that the call under way has taken so far.
FramesSoFar == IF step = "set" THEN page + 1 ELSE page
BlocksSoFar == IF step = "idle" THEN 0
               ELSE IF step = "pointer" THEN 1
               ELSE IF pd.table = NONE THEN 2 ELSE 3

\* What processes hold, and those that have been reaped still do.
HeldFrames ==
    StackPages * Cardinality(Holders)
      + (StackPages - FreedPages) * Cardinality(With("reaped"))
HeldBlocks == booted + 3 * Cardinality(Holders) + 2 * Cardinality(With("reaped"))

\* The rest is what the failed calls have lost.
AccountInv ==
    /\ IsFiniteSet(allocated)
    /\ Cardinality(owned) - HeldFrames - FramesSoFar \in 0 .. StackPages * failed
    /\ Cardinality(Kept) - HeldBlocks - BlocksSoFar \in 0 .. 3 * failed

MemInv ==
    /\ MemTypeOK /\ HeapInv /\ BootInv
    /\ DirInv /\ BuildInv /\ OrderInv /\ CountInv /\ AccountInv

-----------------------------------------------------------------------------
(* Constants and directories.                                              *)

LEMMA Constants ==
    /\ StackPages \in Nat \ {0} /\ FreedPages \in 0 .. StackPages
    /\ TotalEntries \in Nat \ {0} /\ BlockSize \in Nat \ {0}
    /\ Len(BootSizes) \in Nat /\ MAX_PROCS \in Nat /\ MaxCreates \in Nat
    /\ NONE \notin Blocks /\ NONE \notin Phys!Frames /\ NONE \notin Slots
    /\ IsFiniteSet(Phys!Frames) /\ IsFiniteSet(Slots)
    /\ 1 \in 1 .. BlockSize /\ BlockSize \in 1 .. BlockSize
<1>1. PMM_ENTRIES \in Nat /\ 8 * PMM_ENTRIES - 1 \in Int
  BY ProcessMemoryAssumption
<1>2. IsFiniteSet(Phys!Frames)
  BY <1>1, FS_Interval DEF Phys!Frames
<1>3. IsFiniteSet(Slots)
  BY ProcessMemoryAssumption, FS_Interval DEF Slots
<1> QED
  BY <1>1, <1>2, <1>3, ProcessMemoryAssumption, HeapAssumption
     DEF NONE, Blocks, Slots, Phys!Frames

\* NoDirectory has nothing.
LEMMA EmptyDirectory ==
    /\ NoDirectory \in Directories
    /\ NoDirectory.dir = NONE /\ NoDirectory.table = NONE
    /\ NoDirectory.pages = [i \in Pages |-> NONE]
    /\ Mapped(NoDirectory) = {} /\ BlocksOf(NoDirectory) = {}
  BY DEF NoDirectory, Directories, Mapped, BlocksOf

\* Backing is not lost when frames are handed out and blocks allocated.
LEMMA BackedGrows ==
    ASSUME NEW d, NEW own, NEW heap, NEW own2, NEW heap2,
           Backed(d, own, heap), own \subseteq own2,
           \A a \in heap : a.kept => a \in heap2
    PROVE  Backed(d, own2, heap2)
  BY DEF Backed

-----------------------------------------------------------------------------
(* The directories stay apart and backed.                                  *)

\* A step that changes no directory and gives nothing back.
LEMMA QuietDir ==
    ASSUME DirInv, Holders' = Holders, cr3' = cr3, pd' = pd,
           step' # "idle" => step # "idle",
           step' = "set" => step = "set" /\ phys' = phys,
           owned \subseteq owned',
           \A a \in allocated : a.kept => a \in allocated'
    PROVE  DirInv'
<1>1. \A p \in Holders : Backed(cr3[p], owned', allocated')
  BY BackedGrows DEF DirInv
<1>2. step # "idle" => Backed(pd, owned', allocated')
  BY BackedGrows DEF DirInv
<1> QED
  BY <1>1, <1>2 DEF DirInv

\* A call that returns NULL.
LEMMA DropDir ==
    ASSUME DirInv, Holders' = Holders, cr3' = cr3, pd' = NoDirectory,
           step' = "idle", owned' = owned, allocated' = allocated
    PROVE  DirInv'
<1>1. \A p \in Holders : Apart(cr3[p], NoDirectory)
  BY EmptyDirectory DEF Apart
<1> QED
  BY <1>1 DEF DirInv

\* The directory of a new process.
LEMMA NewDir ==
    ASSUME DirInv, step = "idle", step' = "pointer", pd = NoDirectory,
           Holders' = Holders, cr3' = cr3, owned' = owned,
           NEW s \in Blocks, pd' = [pd EXCEPT !.dir = s],
           \A a \in allocated : a.block # s,
           allocated' = allocated \cup {[block |-> s, total |-> 1, kept |-> TRUE]}
    PROVE  DirInv'
<1>1. pd' = [dir |-> s, table |-> NONE, pages |-> [i \in Pages |-> NONE]]
  BY DEF NoDirectory
<1>2. Mapped(pd') = {} /\ BlocksOf(pd') = {s}
  BY <1>1, Constants DEF Mapped, BlocksOf
<1>3. Backed(pd', owned', allocated')
  <2>1. PICK a \in allocated' : a = [block |-> s, total |-> 1, kept |-> TRUE]
    OBVIOUS
  <2>2. a.block = s /\ a.total = 1 /\ a.kept
    BY <2>1
  <2>3. pd'.dir = s /\ \A i \in Pages : pd'.pages[i] = NONE
    BY <1>1
  <2>4. s # NONE
    BY Constants
  <2> QED
    BY <1>2, <2>2, <2>3, <2>4, Zenon DEF Backed
<1>4. \A p \in Holders : Backed(cr3[p], owned', allocated')
  BY BackedGrows DEF DirInv
<1>5. \A p \in Holders : s \notin BlocksOf(cr3[p])
  BY DEF DirInv, Backed
<1>6. \A p \in Holders : Apart(cr3[p], pd')
  BY <1>2, <1>5 DEF Apart
<1> QED
  BY <1>3, <1>4, <1>6 DEF DirInv

\* A frame is handed out.
LEMMA FrameDir ==
    ASSUME DirInv, step = "frame", step' = "set",
           Holders' = Holders, cr3' = cr3, pd' = pd, allocated' = allocated,
           phys' \notin owned, owned' = owned \cup {phys'}
    PROVE  DirInv'
<1>1. \A p \in Holders : Backed(cr3[p], owned', allocated')
  BY BackedGrows DEF DirInv
<1>2. Backed(pd, owned', allocated')
  BY BackedGrows DEF DirInv
<1>3. phys' \notin Mapped(pd) /\ \A p \in Holders : phys' \notin Mapped(cr3[p])
  BY DEF DirInv, Backed
<1> QED
  BY <1>1, <1>2, <1>3 DEF DirInv

\* It is entered, in a page table that may be new.
LEMMA SetDir ==
    ASSUME DirInv, MemTypeOK, step = "set", step' # "idle", step' # "set", page \in Pages,
           Holders' = Holders, cr3' = cr3, owned' = owned,
           NEW t \in Blocks,
           pd' = [dir |-> pd.dir, table |-> t, pages |-> [pd.pages EXCEPT ![page] = phys]],
           allocated \subseteq allocated',
           \/ t = pd.table
           \/ /\ \A a \in allocated : a.block # t
              /\ [block |-> t, total |-> 1, kept |-> TRUE] \in allocated'
    PROVE  DirInv'
<1>0. pd \in Directories /\ pd.pages \in [Pages -> Phys!Frames \cup {NONE}]
        /\ pd.dir # NONE
  BY DEF MemTypeOK, Directories, DirInv, Backed
<1>1. Mapped(pd') \subseteq Mapped(pd) \cup {phys}
  BY <1>0 DEF Mapped
<1>2. BlocksOf(pd') \subseteq BlocksOf(pd) \cup {t}
  BY DEF BlocksOf
<1>3. \A p \in Holders : Backed(cr3[p], owned', allocated')
  BY BackedGrows DEF DirInv
<1>4. Backed(pd', owned', allocated')
  <2>1. Backed(pd, owned', allocated')
    BY BackedGrows DEF DirInv
  <2>2. Mapped(pd') \subseteq owned'
    BY <1>1, <2>1 DEF DirInv, Backed
  <2>3. \A b \in BlocksOf(pd') : \E a \in allocated' : a.block = b /\ a.total = 1 /\ a.kept
    <3> SUFFICES ASSUME NEW b \in BlocksOf(pd'), b \notin BlocksOf(pd)
                 PROVE  \E a \in allocated' : a.block = b /\ a.total = 1 /\ a.kept
      BY <2>1 DEF Backed
    <3>1. b = t /\ t # pd.table
      BY <1>2, Constants DEF BlocksOf
    <3> QED
      BY <3>1
  <2>4. ASSUME NEW i \in Pages, NEW j \in Pages, i # j, pd'.pages[i] # NONE
        PROVE  pd'.pages[i] # pd'.pages[j]
    <3>0. pd'.pages = [pd.pages EXCEPT ![page] = phys]
      OBVIOUS
    <3>1. \A k \in Pages : pd'.pages[k] = IF k = page THEN phys ELSE pd.pages[k]
      BY <1>0, <3>0
    <3>2. \A k \in Pages : pd.pages[k] # phys
      <4>1. phys \notin Mapped(pd)
        BY DEF DirInv
      <4>2. phys # NONE
        BY Constants DEF MemTypeOK, DirInv
      <4> QED
        BY <4>1, <4>2 DEF Mapped
    <3> QED
      BY <2>1, <2>4, <3>1, <3>2 DEF Backed
  <2>5. pd'.dir # NONE
    BY <1>0
  <2> QED
    BY <2>2, <2>3, <2>4, <2>5 DEF Backed
<1>5. ASSUME NEW p \in Holders PROVE Apart(cr3[p], pd')
  <2>1. Mapped(cr3[p]) \cap Mapped(pd') = {}
    BY <1>1 DEF DirInv, Apart
  <2>2. t # pd.table => t \notin BlocksOf(cr3[p])
    BY DEF DirInv, Backed
  <2>3. t = pd.table => t \in BlocksOf(pd)
    BY Constants DEF BlocksOf
  <2>4. BlocksOf(cr3[p]) \cap BlocksOf(pd') = {}
    BY <1>2, <2>2, <2>3 DEF DirInv, Apart
  <2> QED
    BY <2>1, <2>4 DEF Apart
<1> QED
  BY <1>3, <1>4, <1>5 DEF DirInv

\* The directory is handed over to its process.
LEMMA CreatedDir ==
    ASSUME DirInv, MemTypeOK, step # "idle", step' = "idle", NEW p \in Slots, p \notin Holders,
           Holders' = Holders \cup {p}, cr3' = [cr3 EXCEPT ![p] = pd],
           pd' = NoDirectory, owned' = owned, allocated' = allocated
    PROVE  DirInv'
<1>1. cr3'[p] = pd /\ \A q \in Holders : cr3'[q] = cr3[q]
  BY DEF MemTypeOK, Holders, With
<1>2. \A q \in Holders' : Backed(cr3'[q], owned', allocated')
  BY <1>1 DEF DirInv
<1>3. \A q \in Holders' : Apart(cr3'[q], NoDirectory)
  BY EmptyDirectory DEF Apart
<1>4. ASSUME NEW q \in Holders', NEW r \in Holders', q # r
      PROVE  Apart(cr3'[q], cr3'[r])
  <2>1. \A x, y : Apart(x, y) => Apart(y, x)
    BY DEF Apart
  <2> QED
    BY <1>1, <1>4, <2>1 DEF DirInv
<1> QED
  BY <1>2, <1>3, <1>4 DEF DirInv

\* The zombie's directory and what it is asked to free go; its page table and
\* the rest of its stack stay taken.
LEMMA ReapDir ==
    ASSUME DirInv, step = "idle", step' = step, pd' = pd,
           NEW z \in Holders, Holders' = Holders \ {z},
           \A q \in Holders' : cr3'[q] = cr3[q],
           owned' = owned \ Given(cr3[z]),
           NEW a, a.block = cr3[z].dir, allocated' = allocated \ {a}
    PROVE  DirInv'
<1>1. ASSUME NEW q \in Holders'
      PROVE  Backed(cr3'[q], owned', allocated')
  <2>1. q \in Holders /\ q # z /\ Apart(cr3[q], cr3[z]) /\ cr3[z].dir # NONE
          /\ Backed(cr3[q], owned, allocated) /\ cr3'[q] = cr3[q]
    BY DEF DirInv, Backed
  <2>2. Given(cr3[z]) \subseteq Mapped(cr3[z])
    BY DEF Given, Mapped
  <2>3. Mapped(cr3[q]) \subseteq owned'
    BY <2>1, <2>2 DEF Apart, Backed
  <2>4. cr3[z].dir \notin BlocksOf(cr3[q])
    BY <2>1 DEF Apart, BlocksOf
  <2>5. \A b \in BlocksOf(cr3[q]) : \E c \in allocated' : c.block = b /\ c.total = 1 /\ c.kept
    BY <2>1, <2>4 DEF Backed
  <2> QED
    BY <2>1, <2>3, <2>5 DEF Backed
<1> QED
  BY <1>1 DEF DirInv

-----------------------------------------------------------------------------
(* Counting.                                                               *)

LEMMA SlotSets ==
    ASSUME NEW l
    PROVE  IsFiniteSet(With(l)) /\ Cardinality(With(l)) \in Nat
             /\ IsFiniteSet(Holders) /\ Cardinality(Holders) \in Nat
             /\ IsFiniteSet(Slots \ With(l)) /\ Cardinality(Slots \ With(l)) \in Nat
<1>1. With(l) \subseteq Slots /\ Holders \subseteq Slots
        /\ Slots \ With(l) \subseteq Slots
  BY DEF With, Holders
<1>2. IsFiniteSet(With(l)) /\ IsFiniteSet(Holders) /\ IsFiniteSet(Slots \ With(l))
  BY <1>1, Constants, FS_Subset
<1> QED
  BY <1>2, FS_CardinalityType

\* What free_vmm gives back of a whole stack.
LEMMA GivenCount ==
    ASSUME NEW d \in Directories, NEW own, NEW heap, Backed(d, own, heap),
           \A i \in Pages : d.pages[i] # NONE
    PROVE  /\ Given(d) \subseteq own
           /\ IsFiniteSet(Given(d)) /\ Cardinality(Given(d)) = FreedPages
<1>0. StackPages \in Nat /\ FreedPages \in Nat /\ FreedPages <= StackPages
  BY Constants
<1> DEFINE S == 0 .. FreedPages - 1
           f == [i \in S |-> d.pages[i]]
<1>1. S = {j \in Pages : j < FreedPages}
  BY <1>0 DEF Pages
<1>2. Given(d) = {d.pages[i] : i \in S} /\ S \subseteq Pages
  BY <1>1 DEF Given
<1>3. f \in Bijection(S, Given(d))
  <2>1. f \in [S -> Given(d)]
    BY <1>2
  <2>2. \A t \in Given(d) : \E s \in S : f[s] = t
    BY <1>2
  <2>3. \A i, j \in S : f[i] = f[j] => i = j
    BY <1>2 DEF Backed
  <2> QED
    BY <2>1, <2>2, <2>3 DEF Bijection, Injection, Surjection, IsInjective
<1>4. IsFiniteSet(S) /\ Cardinality(S) = FreedPages
  BY <1>0, FS_Interval
<1>5. IsFiniteSet(Given(d)) /\ Cardinality(Given(d)) = FreedPages
  BY <1>3, <1>4, FS_Bijection DEF ExistsBijection
<1>6. Given(d) \subseteq own
  BY DEF Backed, Given, Mapped
<1> QED
  BY <1>5, <1>6

\* The numbers of the account are numbers.
LEMMA Counts ==
    ASSUME MemInv
    PROVE  /\ Cardinality(owned) \in Nat /\ IsFiniteSet(owned)
           /\ Cardinality(Kept) \in Nat /\ IsFiniteSet(Kept)
           /\ HeldFrames \in Int /\ HeldBlocks \in Int
           /\ FramesSoFar \in 0 .. StackPages /\ BlocksSoFar \in 0 .. 3
           /\ failed \in Nat /\ calls \in Nat /\ booted \in Nat /\ page \in Nat
           /\ Busy \in {0, 1}
           /\ StackPages * failed \in Nat
<1>1. owned \subseteq Phys!Frames /\ Kept \subseteq allocated /\ IsFiniteSet(allocated)
  BY DEF MemInv, MemTypeOK, Kept, AccountInv
<1>2. IsFiniteSet(owned) /\ IsFiniteSet(Kept)
  BY <1>1, Constants, FS_Subset
<1>3. Cardinality(owned) \in Nat /\ Cardinality(Kept) \in Nat
  BY <1>2, FS_CardinalityType
<1>4. Cardinality(Holders) \in Nat /\ Cardinality(With("reaped")) \in Nat
  BY SlotSets
<1>5. failed \in Nat /\ calls \in Nat /\ booted \in Nat /\ page \in 0 .. StackPages
  BY Constants DEF MemInv, MemTypeOK, TypeOK
<1>6. HeldFrames \in Int /\ HeldBlocks \in Int
  BY <1>4, <1>5, Constants DEF HeldFrames, HeldBlocks
<1>7. FramesSoFar \in 0 .. StackPages
  BY <1>5, Constants DEF FramesSoFar, MemInv, BuildInv
<1> QED
  BY <1>2, <1>3, <1>5, <1>6, <1>7, Constants DEF BlocksSoFar, Busy

\* A step that fails nothing and keeps the differences.
LEMMA AccountSame ==
    ASSUME MemInv, IsFiniteSet(allocated'), failed' = failed,
           Cardinality(owned') - HeldFrames' - FramesSoFar'
             = Cardinality(owned) - HeldFrames - FramesSoFar,
           Cardinality(Kept') - HeldBlocks' - BlocksSoFar'
             = Cardinality(Kept) - HeldBlocks - BlocksSoFar
    PROVE  AccountInv'
  BY DEF AccountInv, MemInv

\* The account looks at processes only through their states.
LEMMA SameHolders ==
    ASSUME life' = life
    PROVE  /\ Holders' = Holders /\ \A l : With(l)' = With(l)
           /\ booted' = booted => HeldFrames' = HeldFrames /\ HeldBlocks' = HeldBlocks
  BY DEF Holders, With, HeldFrames, HeldBlocks

\* An allocation that is kept.
LEMMA KeptMore ==
    ASSUME MemInv, NEW s, NEW t, \A a \in allocated : a.block # s,
           allocated' = allocated \cup {[block |-> s, total |-> t, kept |-> TRUE]}
    PROVE  IsFiniteSet(allocated') /\ Cardinality(Kept') = Cardinality(Kept) + 1
<1> DEFINE new == [block |-> s, total |-> t, kept |-> TRUE]
<1>1. new.block = s /\ new.kept
  OBVIOUS
<1> HIDE DEF new
<1>2. allocated' = allocated \cup {new}
  BY DEF new
<1>3. Kept' = Kept \cup {new} /\ new \notin Kept
  BY <1>1, <1>2 DEF Kept
<1>4. IsFiniteSet(Kept) /\ IsFiniteSet(allocated)
  BY Counts DEF MemInv, AccountInv
<1> QED
  BY <1>2, <1>3, <1>4, FS_AddElement

-----------------------------------------------------------------------------
(* Steps that leave a part alone.                                          *)

LEMMA HeapQuiet ==
    ASSUME HeapInv, BootInv, UNCHANGED vars
    PROVE  HeapInv' /\ BootInv'
  BY DEF vars, HeapInv, BootInv, TypeOK, Disjoint, TableMatches, InsideHeap,
         IsFree, Extent

LEMMA OrderQuiet ==
    ASSUME OrderInv, UNCHANGED procVars, booted' = booted, owned' \subseteq bitmap'
    PROVE  OrderInv'
<1>1. Holders' = Holders
  BY DEF procVars, Holders, With
<1> QED
  BY <1>1 DEF OrderInv, procVars

LEMMA CountQuiet ==
    ASSUME CountInv, life' = life, calls' + failed + Busy = calls + failed' + Busy',
           calls \in Int, failed \in Int, calls' \in Int, failed' \in Int
    PROVE  CountInv'
<1>1. With("unused")' = With("unused")
  BY DEF With
<1>2. PICK n \in Nat : n = Cardinality(Slots \ With("unused"))
  BY SlotSets
<1>3. Cardinality(Slots \ With("unused"))' = n
  BY <1>1, <1>2
<1>4. PICK b \in Int, c \in Int : b = Busy /\ c = Busy'
  BY DEF Busy
<1>5. n + failed + b = calls /\ calls' + failed + b = calls + failed' + c
  BY <1>2, <1>4 DEF CountInv
<1>6. n + failed' + c = calls'
  <2>1. PICK k \in Int, m \in Int, k2 \in Int, m2 \in Int :
          k = calls /\ m = failed /\ k2 = calls' /\ m2 = failed'
    OBVIOUS
  <2>2. n + m + b = k /\ k2 + m + b = k + m2 + c
    BY <1>5, <2>1
  <2>3. n + m2 + c = k2
    BY <2>2
  <2> QED
    BY <2>1, <2>3
<1> QED
  BY <1>3, <1>4, <1>6 DEF CountInv

-----------------------------------------------------------------------------
(* The steps of create_process.                                            *)

\* A call that returns NULL keeps what it has taken.
LEMMA NullInv ==
    ASSUME MemInv, step # "idle", ReturnNull, UNCHANGED <<heapVars, frameVars>>
    PROVE  MemInv'
<1>0. /\ step' = "idle" /\ failed' = failed + 1 /\ pd' = NoDirectory /\ page' = 0
      /\ phys' = NONE /\ calls' = calls /\ life' = life /\ cr3' = cr3
      /\ zombie' = zombie /\ started' = started /\ booted' = booted
      /\ entries' = entries /\ past' = past /\ allocated' = allocated
      /\ bitmap' = bitmap /\ owned' = owned
  BY DEF ReturnNull, procVars, heapVars, frameVars
<1>1. Holders' = Holders /\ HeldFrames' = HeldFrames /\ HeldBlocks' = HeldBlocks
  BY <1>0, SameHolders
<1>2. Busy = 1 /\ Busy' = 0
  BY <1>0 DEF Busy
<1>3. CountInv'
  BY <1>0, <1>2, CountQuiet, Counts DEF MemInv
<1>4. failed' \in 0 .. calls'
  <2>1. PICK n \in Nat : n = Cardinality(Slots \ With("unused"))
    BY SlotSets
  <2> QED
    BY <1>0, <1>2, <2>1, Counts DEF MemInv, CountInv
<1>5. MemTypeOK'
  BY <1>0, <1>4, EmptyDirectory, Constants DEF MemInv, MemTypeOK, TypeOK
<1>6. HeapInv' /\ BootInv'
  BY <1>0, HeapQuiet DEF MemInv, vars
<1>7. DirInv'
  BY <1>0, <1>1, DropDir DEF MemInv
<1>8. BuildInv'
  BY <1>0, EmptyDirectory, Constants DEF BuildInv, NoDirectory
<1>9. OrderInv'
  BY <1>0, OrderQuiet DEF MemInv, OrderInv, procVars
<1>10. AccountInv'
  <2>1. FramesSoFar' = 0 /\ BlocksSoFar' = 0
    BY <1>0 DEF FramesSoFar, BlocksSoFar
  <2>2. PICK o \in Nat, k \in Nat, hf \in Int, hb \in Int, fs \in 0 .. StackPages,
             bs \in 0 .. 3, nf \in Nat, sp \in Nat :
          /\ o = Cardinality(owned) /\ k = Cardinality(Kept) /\ hf = HeldFrames
          /\ hb = HeldBlocks /\ fs = FramesSoFar /\ bs = BlocksSoFar
          /\ nf = failed /\ sp = StackPages
    BY Counts, Constants
  <2>3. o - hf - fs \in 0 .. sp * nf /\ k - hb - bs \in 0 .. 3 * nf
    BY <2>2 DEF MemInv, AccountInv
  <2>4. o - hf - 0 \in 0 .. sp * (nf + 1) /\ k - hb - 0 \in 0 .. 3 * (nf + 1)
    <3>1. sp * (nf + 1) = sp * nf + sp /\ fs <= sp
      BY <2>2
    <3> QED
      BY <2>3, <3>1
  <2>5. Kept' = Kept /\ IsFiniteSet(allocated')
    BY <1>0 DEF Kept, MemInv, AccountInv
  <2> QED
    BY <1>0, <1>1, <2>1, <2>2, <2>4, <2>5 DEF AccountInv
<1> QED
  BY <1>3, <1>5, <1>6, <1>7, <1>8, <1>9, <1>10 DEF MemInv

LEMMA NewDirectoryInv ==
    ASSUME MemInv, NewDirectory
    PROVE  MemInv'
<1>1. PICK s \in Blocks : kmalloc(s, BlockSize, TRUE) /\ pd' = [pd EXCEPT !.dir = s]
  BY DEF NewDirectory
<1>0. /\ step = "idle" /\ step' = "pointer" /\ booted = Len(BootSizes) /\ ~started
      /\ calls' = calls + 1 /\ calls < MaxCreates /\ failed' = failed
      /\ page' = page /\ phys' = phys
      /\ bitmap' = bitmap /\ owned' = owned /\ life' = life /\ cr3' = cr3
      /\ zombie' = zombie /\ started' = started /\ booted' = booted
  BY DEF NewDirectory, frameVars, procVars
<1>2. pd = NoDirectory /\ page = 0
  BY <1>0 DEF MemInv, BuildInv
<1>3. /\ HeapInv' /\ BootInv'
      /\ \A a \in allocated : s \notin Extent(a)
      /\ allocated' = allocated \cup {[block |-> s, total |-> 1, kept |-> TRUE]}
  BY <1>0, <1>1, MallocStep, Constants DEF MemInv
<1>4. \A a \in allocated : a.block # s
  BY <1>3, AtBlock DEF MemInv
<1>5. Holders' = Holders /\ HeldFrames' = HeldFrames /\ HeldBlocks' = HeldBlocks
  BY <1>0, SameHolders
<1>6. pd' = [dir |-> s, table |-> NONE, pages |-> [i \in Pages |-> NONE]]
  BY <1>1, <1>2 DEF NoDirectory
<1>7. MemTypeOK'
  <2>1. pd' \in Directories
    BY <1>6 DEF Directories
  <2>2. calls' \in 0 .. MaxCreates /\ failed' \in 0 .. calls'
    BY <1>0, Constants DEF MemInv, MemTypeOK
  <2> QED
    BY <1>0, <1>3, <2>1, <2>2 DEF MemInv, MemTypeOK, HeapInv
<1>8. DirInv'
  BY <1>0, <1>1, <1>2, <1>3, <1>4, <1>5, NewDir DEF MemInv
<1>9. BuildInv'
  <2>1. pd'.table = NONE /\ pd'.pages = NoDirectory.pages
    BY <1>6 DEF NoDirectory
  <2> QED
    BY <1>0, <1>2, <2>1, Constants DEF BuildInv
<1>10. OrderInv'
  BY <1>0, OrderQuiet DEF MemInv, OrderInv, procVars
<1>11. CountInv'
  <2>1. Busy = 0 /\ Busy' = 1
    BY <1>0 DEF Busy
  <2> QED
    BY SMTT(30), <1>0, <2>1, CountQuiet, Counts DEF MemInv
<1>12. AccountInv'
  <2>1. IsFiniteSet(allocated') /\ Cardinality(Kept') = Cardinality(Kept) + 1
    BY <1>3, <1>4, KeptMore
  <2>2. BlocksSoFar = 0 /\ BlocksSoFar' = 1 /\ FramesSoFar' = FramesSoFar
    BY <1>0 DEF BlocksSoFar, FramesSoFar
  <2> QED
    BY <1>0, <1>5, <2>1, <2>2, AccountSame, Counts
<1> QED
  BY <1>3, <1>7, <1>8, <1>9, <1>10, <1>11, <1>12 DEF MemInv

LEMMA NoDirectoryBlockInv ==
    ASSUME MemInv, NoDirectoryBlock
    PROVE  MemInv'
<1>0. /\ step = "idle" /\ step' = "idle" /\ calls' = calls + 1
      /\ calls < MaxCreates /\ failed' = failed + 1 /\ pd' = pd
      /\ page' = page /\ phys' = phys
      /\ bitmap' = bitmap /\ owned' = owned /\ life' = life /\ cr3' = cr3
      /\ zombie' = zombie /\ started' = started /\ booted' = booted
      /\ entries' = entries /\ past' = past /\ allocated' = allocated
  BY DEF NoDirectoryBlock, heapVars, frameVars, procVars
<1>1. Holders' = Holders /\ HeldFrames' = HeldFrames /\ HeldBlocks' = HeldBlocks
  BY <1>0, SameHolders
<1>2. MemTypeOK'
  <2>1. calls' \in 0 .. MaxCreates /\ failed' \in 0 .. calls'
    BY <1>0, Constants DEF MemInv, MemTypeOK
  <2> QED
    BY <1>0, <2>1 DEF MemInv, MemTypeOK, TypeOK
<1>3. HeapInv' /\ BootInv'
  BY <1>0, HeapQuiet DEF MemInv, vars
<1>4. DirInv'
  BY <1>0, <1>1, QuietDir DEF MemInv
<1>5. BuildInv'
  BY <1>0 DEF MemInv, BuildInv, IsFree
<1>6. OrderInv'
  BY <1>0, OrderQuiet DEF MemInv, OrderInv, procVars
<1>7. CountInv'
  <2>1. Busy' = Busy
    BY <1>0 DEF Busy
  <2> QED
    BY <1>0, <2>1, CountQuiet, Counts DEF MemInv
<1>8. AccountInv'
  <2>1. Kept' = Kept /\ FramesSoFar' = FramesSoFar /\ BlocksSoFar' = BlocksSoFar
    BY <1>0 DEF Kept, FramesSoFar, BlocksSoFar
  <2>2. PICK nf \in Nat, sp \in Nat : nf = failed /\ sp = StackPages
    BY Counts, Constants
  <2>3. 0 .. sp * nf \subseteq 0 .. sp * (nf + 1) /\ 0 .. 3 * nf \subseteq 0 .. 3 * (nf + 1)
    <3>1. sp * (nf + 1) = sp * nf + sp /\ sp * nf \in Nat
      BY <2>2
    <3> QED
      BY <3>1
  <2> QED
    BY <1>0, <1>1, <2>1, <2>2, <2>3 DEF MemInv, AccountInv
<1> QED
  BY <1>2, <1>3, <1>4, <1>5, <1>6, <1>7, <1>8 DEF MemInv

LEMMA NewPointerInv ==
    ASSUME MemInv, NewPointer
    PROVE  MemInv'
<1>1. PICK s \in Blocks : kmalloc(s, 1, TRUE)
  BY DEF NewPointer
<1>0. /\ step = "pointer" /\ step' = "frame" /\ calls' = calls /\ failed' = failed
      /\ pd' = pd /\ page' = page /\ phys' = phys
      /\ bitmap' = bitmap /\ owned' = owned /\ life' = life /\ cr3' = cr3
      /\ zombie' = zombie /\ started' = started /\ booted' = booted
      /\ booted = Len(BootSizes) /\ page = 0 /\ pd.table = NONE
      /\ pd.pages = NoDirectory.pages /\ ~started
  BY DEF NewPointer, frameVars, procVars, MemInv, BuildInv
<1>3. /\ HeapInv' /\ BootInv'
      /\ \A a \in allocated : s \notin Extent(a)
      /\ allocated' = allocated \cup {[block |-> s, total |-> 1, kept |-> TRUE]}
  BY <1>0, <1>1, MallocStep, Constants DEF MemInv
<1>4. \A a \in allocated : a.block # s
  BY <1>3, AtBlock DEF MemInv
<1>5. Holders' = Holders /\ HeldFrames' = HeldFrames /\ HeldBlocks' = HeldBlocks
  BY <1>0, SameHolders
<1>7. MemTypeOK'
  BY <1>0, <1>3 DEF MemInv, MemTypeOK, HeapInv
<1>8. DirInv'
  BY <1>0, <1>3, <1>5, QuietDir DEF MemInv
<1>9. BuildInv'
  BY <1>0, Constants DEF BuildInv
<1>10. OrderInv'
  BY <1>0, OrderQuiet DEF MemInv, OrderInv, procVars
<1>11. CountInv'
  <2>1. Busy = 1 /\ Busy' = 1
    BY <1>0 DEF Busy
  <2> QED
    BY <1>0, <2>1, CountQuiet, Counts DEF MemInv
<1>12. AccountInv'
  <2>1. IsFiniteSet(allocated') /\ Cardinality(Kept') = Cardinality(Kept) + 1
    BY <1>3, <1>4, KeptMore
  <2>2. BlocksSoFar = 1 /\ BlocksSoFar' = 2 /\ FramesSoFar' = FramesSoFar
    BY <1>0 DEF BlocksSoFar, FramesSoFar
  <2> QED
    BY <1>0, <1>5, <2>1, <2>2, AccountSame, Counts
<1> QED
  BY <1>3, <1>7, <1>8, <1>9, <1>10, <1>11, <1>12 DEF MemInv

LEMMA GetFrameInv ==
    ASSUME MemInv, GetFrame
    PROVE  MemInv'
<1>1. PICK f \in Phys!Frames :
        /\ f \notin bitmap /\ bitmap' = bitmap \cup {f} /\ owned' = owned \cup {f}
        /\ phys' = f
  BY DEF GetFrame, Phys!get_free_physical_address, Phys!FirstFree
<1>0. /\ step = "frame" /\ step' = "set" /\ calls' = calls /\ failed' = failed
      /\ pd' = pd /\ page' = page /\ life' = life /\ cr3' = cr3
      /\ zombie' = zombie /\ started' = started /\ booted' = booted
      /\ entries' = entries /\ past' = past /\ allocated' = allocated
  BY DEF GetFrame, heapVars, procVars
<1>2. f \notin owned /\ owned' \subseteq bitmap'
  BY <1>1 DEF MemInv, OrderInv
<1>3. HeapInv' /\ BootInv'
  BY <1>0, HeapQuiet DEF MemInv, vars
<1>5. Holders' = Holders /\ HeldFrames' = HeldFrames /\ HeldBlocks' = HeldBlocks
  BY <1>0, SameHolders
<1>7. MemTypeOK'
  BY <1>0, <1>1, <1>3 DEF MemInv, MemTypeOK, HeapInv
<1>8. DirInv'
  BY <1>0, <1>1, <1>2, <1>5, FrameDir DEF MemInv
<1>9. BuildInv'
  BY <1>0 DEF MemInv, BuildInv, IsFree
<1>10. OrderInv'
  BY <1>0, <1>2, OrderQuiet DEF MemInv, procVars
<1>11. CountInv'
  <2>1. Busy = 1 /\ Busy' = 1
    BY <1>0 DEF Busy
  <2> QED
    BY <1>0, <2>1, CountQuiet, Counts DEF MemInv
<1>12. AccountInv'
  <2>1. Cardinality(owned') = Cardinality(owned) + 1
    BY <1>1, <1>2, Counts, FS_AddElement
  <2>2. BlocksSoFar' = BlocksSoFar /\ FramesSoFar' = FramesSoFar + 1
    BY <1>0 DEF BlocksSoFar, FramesSoFar
  <2>3. Kept' = Kept /\ IsFiniteSet(allocated')
    BY <1>0 DEF Kept, MemInv, AccountInv
  <2> QED
    BY <1>0, <1>5, <2>1, <2>2, <2>3, AccountSame, Counts
<1> QED
  BY <1>3, <1>7, <1>8, <1>9, <1>10, <1>11, <1>12 DEF MemInv

\* What the three ways through paging_set have in common.
LEMMA AfterPageInv ==
    ASSUME MemInv, step = "set", AfterPage, pd' \in Directories,
           HeapInv', BootInv', DirInv', IsFiniteSet(allocated'),
           Cardinality(Kept') - BlocksSoFar' = Cardinality(Kept) - BlocksSoFar,
           pd'.table = NONE => /\ pd'.pages = NoDirectory.pages
                               /\ \A b \in Blocks : ~IsFree(b)',
           pd'.table # NONE => \A i \in Pages : i < page' => pd'.pages[i] # NONE
    PROVE  MemInv'
<1>0. /\ page' = page + 1 /\ phys' = NONE /\ calls' = calls /\ failed' = failed
      /\ step' = IF page + 1 < StackPages THEN "frame" ELSE "check"
      /\ bitmap' = bitmap /\ owned' = owned /\ life' = life /\ cr3' = cr3
      /\ zombie' = zombie /\ started' = started /\ booted' = booted
      /\ page \in Nat /\ page < StackPages /\ ~started /\ booted = Len(BootSizes)
  BY Counts DEF AfterPage, frameVars, procVars, MemInv, BuildInv
<1>1. step' \in {"frame", "check"} /\ page + 1 \in 0 .. StackPages
        /\ (step' = "frame" => page + 1 < StackPages)
        /\ (step' = "check" => page + 1 = StackPages)
  BY <1>0, Constants
<1>5. Holders' = Holders /\ HeldFrames' = HeldFrames /\ HeldBlocks' = HeldBlocks
  BY <1>0, SameHolders
<1>7. MemTypeOK'
  BY <1>0, <1>1 DEF MemInv, MemTypeOK, HeapInv
<1>9. BuildInv'
  BY <1>0, <1>1 DEF BuildInv
<1>10. OrderInv'
  BY <1>0, OrderQuiet DEF MemInv, OrderInv, procVars
<1>11. CountInv'
  <2>1. Busy = 1 /\ Busy' = 1
    BY <1>1 DEF Busy
  <2> QED
    BY <1>0, <2>1, CountQuiet, Counts DEF MemInv
<1>12. AccountInv'
  <2>1. FramesSoFar' = FramesSoFar
    BY <1>0, <1>1 DEF FramesSoFar
  <2>2. PICK k \in Nat, k2 \in Int, b \in Int, b2 \in Int, h \in Int :
          k = Cardinality(Kept) /\ k2 = Cardinality(Kept') /\ b = BlocksSoFar
            /\ b2 = BlocksSoFar' /\ h = HeldBlocks
    <3>1. IsFiniteSet(Kept')
      <4>1. Kept' \subseteq allocated'
        BY DEF Kept
      <4> QED
        BY <4>1, FS_Subset
    <3>2. Cardinality(Kept') \in Int
      BY <3>1, FS_CardinalityType
    <3>3. BlocksSoFar' \in Int
      BY DEF BlocksSoFar
    <3> QED
      BY <3>2, <3>3, Counts
  <2>3. k2 - h - b2 = k - h - b
    <3>1. k2 - b2 = k - b
      BY <2>2
    <3> QED
      BY <3>1
  <2> QED
    BY <1>0, <1>5, <2>1, <2>2, <2>3, AccountSame
<1> QED
  BY <1>7, <1>9, <1>10, <1>11, <1>12 DEF MemInv

LEMMA SetInTableInv ==
    ASSUME MemInv, SetInTable
    PROVE  MemInv'
<1>0. /\ step = "set" /\ pd.table # NONE /\ AfterPage
      /\ pd' = [pd EXCEPT !.pages[page] = phys]
      /\ entries' = entries /\ past' = past /\ allocated' = allocated
  BY DEF SetInTable, heapVars
<1>1. /\ page' = page + 1 /\ life' = life /\ cr3' = cr3 /\ owned' = owned
      /\ step' # "idle" /\ step' # "set" /\ booted' = booted
      /\ page \in Pages /\ page \in Nat
  BY <1>0, Counts, Constants DEF AfterPage, procVars, frameVars, MemInv, BuildInv, Pages
<1>2. pd \in Directories /\ phys \in Phys!Frames /\ phys # NONE
  BY <1>0, Constants DEF MemInv, MemTypeOK, DirInv
<1>3. pd' = [dir |-> pd.dir, table |-> pd.table,
             pages |-> [pd.pages EXCEPT ![page] = phys]]
  BY <1>0, <1>2 DEF Directories
<1>4. pd' \in Directories /\ pd.table \in Blocks
  BY <1>0, <1>2, <1>3 DEF Directories
<1>5. HeapInv' /\ BootInv'
  BY <1>0, <1>1, HeapQuiet DEF MemInv, vars
<1>6. Holders' = Holders
  BY <1>1, SameHolders
<1>7. DirInv'
  BY <1>0, <1>1, <1>3, <1>4, <1>6, SetDir DEF MemInv
<1>8. pd'.table # NONE /\ \A i \in Pages : i < page' => pd'.pages[i] # NONE
  <2>1. pd'.table = pd.table /\ pd'.pages = [pd.pages EXCEPT ![page] = phys]
    BY <1>3
  <2>2. \A i \in Pages : pd'.pages[i] = IF i = page THEN phys ELSE pd.pages[i]
    BY <1>2, <2>1 DEF Directories
  <2>3. \A i \in Pages : i < page => pd.pages[i] # NONE
    BY <1>0 DEF MemInv, BuildInv
  <2> QED
    BY <1>0, <1>1, <1>2, <2>1, <2>2, <2>3 DEF Pages
<1>9. BlocksSoFar' = BlocksSoFar /\ Kept' = Kept /\ IsFiniteSet(allocated')
  <2>1. step' # "pointer"
    BY <1>0 DEF AfterPage
  <2> QED
    BY <1>0, <1>1, <1>8, <2>1 DEF BlocksSoFar, Kept, MemInv, AccountInv
<1> QED
  BY <1>0, <1>4, <1>5, <1>7, <1>8, <1>9, AfterPageInv

LEMMA SetInNewTableInv ==
    ASSUME MemInv, SetInNewTable
    PROVE  MemInv'
<1>0. PICK s \in Blocks :
        /\ step = "set" /\ pd.table = NONE /\ AfterPage
        /\ kmalloc(s, BlockSize, TRUE)
        /\ pd' = [pd EXCEPT !.table = s, !.pages[page] = phys]
  BY DEF SetInNewTable
<1>1. /\ page' = page + 1 /\ life' = life /\ cr3' = cr3 /\ owned' = owned
      /\ step' # "idle" /\ step' # "set" /\ step' # "pointer" /\ booted' = booted
      /\ page \in Pages /\ page \in Nat /\ booted = Len(BootSizes)
  BY <1>0, Counts, Constants DEF AfterPage, procVars, frameVars, MemInv, BuildInv, Pages
<1>2. pd \in Directories /\ phys \in Phys!Frames /\ phys # NONE
  BY <1>0, Constants DEF MemInv, MemTypeOK, DirInv
<1>3. pd' = [dir |-> pd.dir, table |-> s,
             pages |-> [pd.pages EXCEPT ![page] = phys]]
  BY <1>0, <1>2 DEF Directories
<1>4. pd' \in Directories
  BY <1>2, <1>3 DEF Directories
<1>5. /\ HeapInv' /\ BootInv' /\ IsFree(s)
      /\ \A a \in allocated : s \notin Extent(a)
      /\ allocated' = allocated \cup {[block |-> s, total |-> 1, kept |-> TRUE]}
  BY <1>0, <1>1, MallocStep, Constants DEF MemInv
<1>10. \A a \in allocated : a.block # s
  BY <1>5, AtBlock DEF MemInv
<1>6. Holders' = Holders
  BY <1>1, SameHolders
<1>7. DirInv'
  BY <1>0, <1>1, <1>3, <1>4, <1>5, <1>6, <1>10, SetDir DEF MemInv
<1>8. pd'.table # NONE /\ \A i \in Pages : i < page' => pd'.pages[i] # NONE
  <2>1. pd'.table = s /\ pd'.pages = [pd.pages EXCEPT ![page] = phys]
    BY <1>3
  <2>2. \A i \in Pages : pd'.pages[i] = IF i = page THEN phys ELSE pd.pages[i]
    BY <1>2, <2>1 DEF Directories
  <2>3. page = 0
    BY <1>0, <1>1, <1>5 DEF MemInv, BuildInv
  <2> QED
    BY <1>1, <1>2, <2>1, <2>2, <2>3, Constants DEF Pages
<1>9. BlocksSoFar = 2 /\ BlocksSoFar' = 3
  BY <1>0, <1>1, <1>8 DEF BlocksSoFar
<1>11. IsFiniteSet(allocated') /\ Cardinality(Kept') = Cardinality(Kept) + 1
  BY <1>5, <1>10, KeptMore
<1>12. Cardinality(Kept') - BlocksSoFar' = Cardinality(Kept) - BlocksSoFar
  BY <1>9, <1>11, Counts
<1> QED
  BY <1>0, <1>4, <1>5, <1>7, <1>8, <1>11, <1>12, AfterPageInv

LEMMA NoTableBlockInv ==
    ASSUME MemInv, NoTableBlock
    PROVE  MemInv'
<1>0. /\ step = "set" /\ pd.table = NONE /\ AfterPage /\ pd' = pd
      /\ NoMemory(BlockSize)
      /\ entries' = entries /\ past' = past /\ allocated' = allocated
  BY DEF NoTableBlock, heapVars
<1>1. /\ life' = life /\ cr3' = cr3 /\ owned' = owned
      /\ step' # "idle" /\ step' # "set" /\ step' # "pointer" /\ booted' = booted
  BY <1>0 DEF AfterPage, procVars, frameVars
<1>2. pd' \in Directories
  BY <1>0 DEF MemInv, MemTypeOK
<1>5. HeapInv' /\ BootInv'
  BY <1>0, <1>1, HeapQuiet DEF MemInv, vars
<1>6. Holders' = Holders
  BY <1>1, SameHolders
<1>7. DirInv'
  BY <1>0, <1>1, <1>6, QuietDir DEF MemInv
<1>8. \A b \in Blocks : ~IsFree(b)'
  <2>1. TotalBlocks(BlockSize) = 1
    BY OneBlock, Constants
  <2>2. \A b \in Blocks : ~IsFree(b)
    BY <1>0, <2>1, NoneFits DEF NoMemory
  <2> QED
    BY <1>0, <2>2 DEF IsFree
<1>9. BlocksSoFar' = BlocksSoFar /\ Kept' = Kept /\ IsFiniteSet(allocated')
  BY <1>0, <1>1 DEF BlocksSoFar, Kept, MemInv, AccountInv
<1>10. pd'.pages = NoDirectory.pages
  BY <1>0 DEF MemInv, BuildInv
<1> QED
  BY <1>0, <1>2, <1>5, <1>7, <1>8, <1>9, <1>10, AfterPageInv

LEMMA CreatedInv ==
    ASSUME MemInv, Created
    PROVE  MemInv'
<1>0. PICK p \in Slots :
        /\ life[p] = "unused" /\ life' = [life EXCEPT ![p] = "live"]
        /\ cr3' = [cr3 EXCEPT ![p] = pd]
        /\ step = "check" /\ TopPage # NONE /\ step' = "idle"
        /\ pd' = NoDirectory /\ page' = 0
        /\ calls' = calls /\ failed' = failed /\ phys' = phys
        /\ entries' = entries /\ past' = past /\ allocated' = allocated
        /\ bitmap' = bitmap /\ owned' = owned /\ zombie' = zombie
        /\ started' = started /\ booted' = booted
  BY DEF Created, heapVars, frameVars, Unused
<1>1. /\ life \in [Slots -> {"unused", "live", "ended", "reaped"}]
      /\ cr3 \in [Slots -> Directories] /\ pd \in Directories
      /\ zombie \in Slots \cup {NONE}
  BY DEF MemInv, MemTypeOK
<1>2. /\ \A q \in Slots : life'[q] = IF q = p THEN "live" ELSE life[q]
      /\ \A q \in Slots : cr3'[q] = IF q = p THEN pd ELSE cr3[q]
  BY <1>0, <1>1
<1>3. /\ Holders' = Holders \cup {p} /\ p \notin Holders
      /\ With("reaped")' = With("reaped")
      /\ (Slots \ With("unused"))' = (Slots \ With("unused")) \cup {p}
      /\ p \notin Slots \ With("unused")
  BY <1>0, <1>2 DEF Holders, With
<1>4. page = StackPages /\ pd.table # NONE /\ \A i \in Pages : pd.pages[i] # NONE
  <2>1. pd.table # NONE /\ page = StackPages
    BY <1>0 DEF MemInv, BuildInv, TopPage
  <2> QED
    BY <2>1, Constants DEF MemInv, BuildInv, Pages
<1>5. MemTypeOK'
  BY <1>0, <1>1, EmptyDirectory, Constants DEF MemInv, MemTypeOK, TypeOK
<1>6. HeapInv' /\ BootInv'
  BY <1>0, HeapQuiet DEF MemInv, vars
<1>7. DirInv'
  BY <1>0, <1>3, CreatedDir DEF MemInv
<1>8. BuildInv'
  BY <1>0, EmptyDirectory, Constants DEF BuildInv, NoDirectory
<1>9. OrderInv'
  <2>1. ASSUME NEW q \in Holders'
        PROVE  cr3'[q].table # NONE /\ \A i \in Pages : cr3'[q].pages[i] # NONE
    BY <1>2, <1>3, <1>4 DEF MemInv, OrderInv, Holders, With
  <2>2. zombie' # NONE => started' /\ life'[zombie'] = "ended"
    BY <1>0, <1>1, <1>2 DEF MemInv, OrderInv
  <2> QED
    BY <1>0, <2>1, <2>2 DEF MemInv, OrderInv
<1>10. CountInv'
  <2>1. PICK n \in Nat : n = Cardinality(Slots \ With("unused"))
    BY SlotSets
  <2>2. IsFiniteSet(Slots \ With("unused"))
    BY SlotSets
  <2>3. Cardinality(Slots \ With("unused"))' = n + 1
    BY <1>3, <2>1, <2>2, FS_AddElement
  <2>4. Busy = 1 /\ Busy' = 0
    BY <1>0 DEF Busy
  <2>5. n + failed + 1 = calls
    BY <2>1, <2>4 DEF MemInv, CountInv
  <2>6. n + 1 + failed' + 0 = calls'
    BY <1>0, <2>5, Counts
  <2> QED
    BY <2>3, <2>4, <2>6 DEF CountInv
<1>11. AccountInv'
  <2>1. PICK h \in Nat, r \in Nat, sp \in Nat, fp \in Nat, o \in Nat, k \in Nat, b \in Nat :
          /\ h = Cardinality(Holders) /\ r = Cardinality(With("reaped"))
          /\ sp = StackPages /\ fp = FreedPages
          /\ o = Cardinality(owned) /\ k = Cardinality(Kept) /\ b = booted
    <3>1. Cardinality(Holders) \in Nat /\ Cardinality(With("reaped")) \in Nat
      BY SlotSets
    <3>2. Cardinality(owned) \in Nat /\ Cardinality(Kept) \in Nat /\ booted \in Nat
      BY Counts
    <3>3. StackPages \in Nat /\ FreedPages \in Nat
      BY Constants
    <3> QED
      BY <3>1, <3>2, <3>3
  <2>2. Cardinality(Holders') = h + 1 /\ Cardinality(With("reaped")') = r
    <3>1. IsFiniteSet(Holders)
      BY SlotSets
    <3> QED
      BY <1>3, <2>1, <3>1, FS_AddElement
  <2>3. HeldFrames = sp * h + (sp - fp) * r /\ HeldFrames' = sp * (h + 1) + (sp - fp) * r
    BY <2>1, <2>2 DEF HeldFrames
  <2>4. HeldBlocks = b + 3 * h + 2 * r /\ HeldBlocks' = b + 3 * (h + 1) + 2 * r
    BY <1>0, <2>1, <2>2 DEF HeldBlocks
  <2>5. FramesSoFar = sp /\ FramesSoFar' = 0 /\ BlocksSoFar = 3 /\ BlocksSoFar' = 0
    BY <1>0, <1>4, <2>1 DEF FramesSoFar, BlocksSoFar
  <2>6. Kept' = Kept /\ IsFiniteSet(allocated')
    BY <1>0 DEF Kept, MemInv, AccountInv
  <2>7. o - (sp * (h + 1) + (sp - fp) * r) - 0 = o - (sp * h + (sp - fp) * r) - sp
    <3>1. sp * (h + 1) = sp * h + sp
      OBVIOUS
    <3> QED
      BY <3>1
  <2>8. k - (b + 3 * (h + 1) + 2 * r) - 0 = k - (b + 3 * h + 2 * r) - 3
    OBVIOUS
  <2> QED
    BY <1>0, <2>1, <2>3, <2>4, <2>5, <2>6, <2>7, <2>8, AccountSame
<1> QED
  BY <1>5, <1>6, <1>7, <1>8, <1>9, <1>10, <1>11 DEF MemInv

LEMMA CreateStepInv ==
    ASSUME MemInv, CreateStep
    PROVE  MemInv'
<1>1. CASE NoPointerBlock \/ NoFrame \/ NotMapped
  BY <1>1, NullInv DEF NoPointerBlock, NoFrame, NotMapped
<1> QED
  BY <1>1, NewDirectoryInv, NoDirectoryBlockInv, NewPointerInv, GetFrameInv,
     SetInTableInv, SetInNewTableInv, NoTableBlockInv, CreatedInv DEF CreateStep

-----------------------------------------------------------------------------
(* The other steps.                                                        *)

\* Steps that touch no memory: the kernel starts its processes, and they end.
LEMMA EndInv ==
    ASSUME MemInv, UNCHANGED <<vars, frameVars, createVars, cr3>>,
           life' \in [Slots -> {"unused", "live", "ended", "reaped"}],
           With("unused")' = With("unused"), With("reaped")' = With("reaped"),
           zombie' \in Slots \cup {NONE}, started' \in BOOLEAN,
           started' => booted = Len(BootSizes) /\ step = "idle",
           zombie' # NONE => started' /\ life'[zombie'] = "ended"
    PROVE  MemInv'
<1>0. /\ entries' = entries /\ past' = past /\ booted' = booted
      /\ allocated' = allocated /\ bitmap' = bitmap /\ owned' = owned
      /\ step' = step /\ calls' = calls /\ failed' = failed /\ pd' = pd
      /\ page' = page /\ phys' = phys /\ cr3' = cr3
  BY DEF vars, frameVars, createVars
<1>1. Holders' = Holders
  <2>1. Holders = Slots \ (With("unused") \cup With("reaped"))
    BY DEF Holders, With, MemInv, MemTypeOK
  <2>2. Holders' = Slots \ (With("unused")' \cup With("reaped")')
    BY DEF Holders, With
  <2> QED
    BY <2>1, <2>2
<1>2. MemTypeOK'
  BY <1>0 DEF MemInv, MemTypeOK, TypeOK
<1>3. HeapInv' /\ BootInv'
  BY <1>0, HeapQuiet DEF MemInv, vars
<1>4. DirInv'
  BY <1>0, <1>1, QuietDir DEF MemInv
<1>5. BuildInv'
  <2>1. step # "idle" => ~started'
    OBVIOUS
  <2> QED
    BY <1>0, <2>1 DEF MemInv, BuildInv, IsFree
<1>6. OrderInv'
  BY <1>0, <1>1 DEF MemInv, OrderInv
<1>7. CountInv'
  BY <1>0 DEF MemInv, CountInv, Busy
<1>8. AccountInv'
  BY <1>0, <1>1 DEF MemInv, AccountInv, HeldFrames, HeldBlocks, FramesSoFar,
                    BlocksSoFar, Kept
<1> QED
  BY <1>2, <1>3, <1>4, <1>5, <1>6, <1>7, <1>8 DEF MemInv

LEMMA StartInv ==
    ASSUME MemInv, Start
    PROVE  MemInv'
<1>1. life' = life /\ zombie' = zombie /\ started' = TRUE /\ step = "idle"
        /\ booted = Len(BootSizes) /\ UNCHANGED <<vars, frameVars, createVars, cr3>>
        /\ life \in [Slots -> {"unused", "live", "ended", "reaped"}]
        /\ zombie \in Slots \cup {NONE}
  BY DEF Start, MemInv, MemTypeOK
<1>2. zombie # NONE => life[zombie] = "ended"
  BY DEF MemInv, OrderInv
<1>3. With("unused")' = With("unused") /\ With("reaped")' = With("reaped")
  BY <1>1, SameHolders
<1> QED
  BY <1>1, <1>2, <1>3, EndInv

LEMMA ExitInv ==
    ASSUME MemInv, NEW p \in Slots, Exit(p) \/ Expire(p)
    PROVE  MemInv'
<1>1. /\ started /\ life[p] = "live" /\ life' = [life EXCEPT ![p] = "ended"]
      /\ zombie' \in {p, zombie} /\ started' = started
      /\ UNCHANGED <<vars, frameVars, createVars, cr3>>
  BY DEF Exit, Expire
<1>2. life \in [Slots -> {"unused", "live", "ended", "reaped"}]
        /\ zombie \in Slots \cup {NONE} /\ started \in BOOLEAN
  BY DEF MemInv, MemTypeOK
<1>3. \A q \in Slots : life'[q] = IF q = p THEN "ended" ELSE life[q]
  BY <1>1, <1>2
<1>4. With("unused")' = With("unused") /\ With("reaped")' = With("reaped")
  BY <1>1, <1>3 DEF With
<1>5. life' \in [Slots -> {"unused", "live", "ended", "reaped"}]
        /\ zombie' \in Slots \cup {NONE}
  BY <1>1, <1>2
<1>6. booted = Len(BootSizes) /\ step = "idle"
  BY <1>1 DEF MemInv, OrderInv, BuildInv
<1>7. zombie' # NONE => life'[zombie'] = "ended"
  BY <1>1, <1>2, <1>3 DEF MemInv, OrderInv
<1> QED
  BY <1>1, <1>2, <1>4, <1>5, <1>6, <1>7, EndInv

\* Allocations that create_process does not make.
LEMMA HeapStepInv ==
    ASSUME MemInv, UNCHANGED <<frameVars, createVars, procVars>>,
           step = "idle", HeapInv', BootInv',
           booted' = booted \/ ~started,
           \A a \in allocated : a.kept => a \in allocated',
           IsFiniteSet(allocated'),
           Cardinality(Kept') - booted' = Cardinality(Kept) - booted
    PROVE  MemInv'
<1>0. /\ bitmap' = bitmap /\ owned' = owned
      /\ step' = step /\ calls' = calls /\ failed' = failed /\ pd' = pd
      /\ page' = page /\ phys' = phys /\ life' = life /\ cr3' = cr3
      /\ zombie' = zombie /\ started' = started
  BY DEF frameVars, createVars, procVars
<1>1. Holders' = Holders /\ With("reaped")' = With("reaped")
        /\ With("unused")' = With("unused")
  BY <1>0, SameHolders
<1>2. MemTypeOK'
  BY <1>0 DEF MemInv, MemTypeOK, HeapInv
<1>4. DirInv'
  BY <1>0, <1>1, QuietDir DEF MemInv
<1>5. BuildInv'
  <2>1. page = 0 /\ pd = NoDirectory
    BY DEF MemInv, BuildInv
  <2> QED
    BY <1>0, <2>1, EmptyDirectory, Constants DEF BuildInv
<1>6. OrderInv'
  BY <1>0, <1>1 DEF MemInv, OrderInv
<1>7. CountInv'
  BY <1>0, <1>1 DEF MemInv, CountInv, Busy
<1>8. AccountInv'
  <2>1. FramesSoFar' = FramesSoFar /\ BlocksSoFar' = BlocksSoFar
          /\ HeldFrames' = HeldFrames
    BY <1>0, <1>1 DEF FramesSoFar, BlocksSoFar, HeldFrames
  <2>2. PICK h \in Nat, r \in Nat, b \in Nat, b2 \in Nat, k \in Nat, k2 \in Nat, s \in Int :
          /\ h = Cardinality(Holders) /\ r = Cardinality(With("reaped"))
          /\ b = booted /\ b2 = booted' /\ k = Cardinality(Kept)
          /\ k2 = Cardinality(Kept') /\ s = BlocksSoFar
    <3>1. booted' \in Nat
      BY Constants DEF HeapInv, TypeOK
    <3>2. Kept' \subseteq allocated'
      BY DEF Kept
    <3>3. Cardinality(Kept') \in Nat
      <4>1. IsFiniteSet(Kept')
        BY <3>2, FS_Subset
      <4> QED
        BY <4>1, FS_CardinalityType
    <3>4. Cardinality(Holders) \in Nat /\ Cardinality(With("reaped")) \in Nat
      BY SlotSets
    <3>5. BlocksSoFar \in Int /\ booted \in Nat /\ Cardinality(Kept) \in Nat
      BY Counts
    <3> QED
      BY <3>1, <3>3, <3>4, <3>5
  <2>3. HeldBlocks = b + 3 * h + 2 * r /\ HeldBlocks' = b2 + 3 * h + 2 * r
    BY <1>1, <2>2 DEF HeldBlocks
  <2>4. k2 - b2 = k - b
    BY <2>2
  <2>5. k2 - (b2 + 3 * h + 2 * r) - s = k - (b + 3 * h + 2 * r) - s
    BY <2>4
  <2> QED
    BY <1>0, <2>1, <2>2, <2>3, <2>5, AccountSame
<1> QED
  BY <1>2, <1>4, <1>5, <1>6, <1>7, <1>8 DEF MemInv

LEMMA BootMallocInv ==
    ASSUME BootFits, MemInv, BootMalloc, UNCHANGED <<frameVars, createVars, procVars>>
    PROVE  MemInv'
<1>1. booted < Len(BootSizes) /\ booted' = booted + 1 /\ booted \in Nat
  BY Counts DEF BootMalloc
<1>2. step = "idle" /\ ~started
  BY <1>1, Constants DEF MemInv, BuildInv, OrderInv
<1>3. /\ HeapInv' /\ BootInv'
      /\ \E s \in Blocks, total \in Nat :
           /\ \A a \in allocated : s \notin Extent(a)
           /\ allocated' = allocated \cup
                             {[block |-> s, total |-> total, kept |-> TRUE]}
  BY BootStep DEF MemInv
<1>4. PICK s \in Blocks, total \in Nat :
        /\ \A a \in allocated : s \notin Extent(a)
        /\ allocated' = allocated \cup
                          {[block |-> s, total |-> total, kept |-> TRUE]}
  BY <1>3
<1>5. \A a \in allocated : a.block # s
  BY <1>4, AtBlock DEF MemInv
<1>6. IsFiniteSet(allocated') /\ Cardinality(Kept') = Cardinality(Kept) + 1
  BY <1>4, <1>5, KeptMore
<1>7. Cardinality(Kept') - booted' = Cardinality(Kept) - booted
  BY <1>1, <1>6, Counts
<1> QED
  BY <1>2, <1>3, <1>4, <1>6, <1>7, HeapStepInv

LEMMA StreamsInv ==
    ASSUME SingleBlocks, MemInv, Streams
    PROVE  MemInv'
<1>1. /\ booted = Len(BootSizes) /\ booted' = booted /\ started
      /\ UNCHANGED <<frameVars, createVars, procVars>>
  BY DEF Streams, Malloc, Free
<1>2. step = "idle" /\ IsFiniteSet(allocated)
  BY <1>1 DEF MemInv, BuildInv, AccountInv
<1>3. CASE Malloc
  <2>1. PICK size \in 1 .. BlockSize, s \in Blocks : kmalloc(s, size, FALSE)
    BY <1>3 DEF Malloc, SingleBlocks
  <2>2. HeapInv' /\ BootInv'
          /\ allocated' = allocated \cup {[block |-> s, total |-> 1, kept |-> FALSE]}
    BY <1>1, <2>1, MallocStep DEF MemInv
  <2>3. Kept' = Kept
    BY <2>2 DEF Kept
  <2>4. IsFiniteSet(allocated')
    BY <1>2, <2>2, FS_AddElement
  <2> QED
    BY <1>1, <1>2, <2>2, <2>3, <2>4, HeapStepInv
<1>4. CASE Free
  <2>1. PICK a \in allocated : ~a.kept /\ kfree(a)
    BY <1>4 DEF Free
  <2>2. a.total = 1
    BY <2>1 DEF MemInv, HeapInv
  <2>3. HeapInv' /\ allocated' = allocated \ {a}
    BY <1>1, <2>1, <2>2, FreeStep DEF MemInv, kfree
  <2>4. BootInv'
    BY <1>1, HeapAssumption DEF BootInv
  <2>5. Kept' = Kept
    BY <2>1, <2>3 DEF Kept
  <2>6. IsFiniteSet(allocated')
    BY <1>2, <2>3, FS_RemoveElement
  <2> QED
    BY <1>1, <1>2, <2>1, <2>3, <2>4, <2>5, <2>6, HeapStepInv
<1> QED
  BY <1>3, <1>4 DEF Streams

LEMMA ReapInv ==
    ASSUME MemInv, Reap
    PROVE  MemInv'
<1>1. /\ life \in [Slots -> {"unused", "live", "ended", "reaped"}]
      /\ cr3 \in [Slots -> Directories] /\ zombie \in Slots \cup {NONE}
  BY DEF MemInv, MemTypeOK
<1>2. PICK z \in Slots : z = zombie /\ life[z] = "ended" /\ started
  BY <1>1 DEF Reap, MemInv, OrderInv
<1>3. PICK d \in Directories : d = cr3[z]
  BY <1>1
<1>0. /\ bitmap' = bitmap \ Given(d) /\ owned' = owned \ Given(d)
      /\ kfree(Directory(d)) /\ life' = [life EXCEPT ![z] = "reaped"]
      /\ cr3' = [cr3 EXCEPT ![z].pages =
                   [i \in Pages |-> IF i < FreedPages THEN NONE ELSE @[i]]]
      /\ zombie' = NONE /\ booted' = booted /\ step' = step /\ calls' = calls
      /\ failed' = failed /\ pd' = pd /\ page' = page /\ phys' = phys
      /\ started' = started
  BY <1>2, <1>3 DEF Reap, free_vmm, createVars
<1>4. step = "idle" /\ booted = Len(BootSizes) /\ pd = NoDirectory /\ page = 0
  BY <1>2 DEF MemInv, BuildInv, OrderInv
<1>5. z \in Holders /\ Backed(d, owned, allocated) /\ d.table # NONE
        /\ \A i \in Pages : d.pages[i] # NONE
  BY <1>2, <1>3 DEF MemInv, DirInv, OrderInv, Holders, With
<1>6. PICK a \in allocated : a.block = d.dir /\ a.total = 1 /\ a.kept
  BY <1>5 DEF Backed, BlocksOf
<1>7. Directory(d) = a
  <2>1. Directory(d) \in allocated /\ Directory(d).block = d.dir
    BY <1>6 DEF Directory
  <2> QED
    BY <1>6, <2>1, AtBlock DEF MemInv
<1>8. kfree(a) /\ allocated' = allocated \ {a}
  BY <1>0, <1>7 DEF kfree
<1>9. HeapInv'
  BY <1>0, <1>6, <1>8, FreeStep DEF MemInv
<1>10. BootInv'
  BY <1>0, <1>4, HeapAssumption DEF BootInv
<1>11. /\ \A q \in Slots : life'[q] = IF q = z THEN "reaped" ELSE life[q]
       /\ \A q \in Slots : q # z => cr3'[q] = cr3[q]
       /\ cr3' \in [Slots -> Directories]
  <2>1. \A q \in Slots : life'[q] = IF q = z THEN "reaped" ELSE life[q]
    BY <1>0, <1>1
  <2>2. \A q \in Slots : q # z => cr3'[q] = cr3[q]
    BY <1>0, <1>1
  <2>3. cr3' = [cr3 EXCEPT ![z] =
          [d EXCEPT !.pages = [i \in Pages |-> IF i < FreedPages THEN NONE
                                                ELSE d.pages[i]]]]
    BY <1>0, <1>3
  <2>4. [d EXCEPT !.pages = [i \in Pages |-> IF i < FreedPages THEN NONE
                                             ELSE d.pages[i]]] \in Directories
    BY DEF Directories
  <2>5. cr3' \in [Slots -> Directories]
    BY <1>1, <2>3, <2>4
  <2> QED
    BY <2>1, <2>2, <2>5
<1>12. /\ Holders' = Holders \ {z} /\ With("reaped")' = With("reaped") \cup {z}
       /\ With("unused")' = With("unused") /\ z \notin With("reaped")
  BY <1>2, <1>11 DEF Holders, With
<1>13. MemTypeOK'
  <2>1. life' \in [Slots -> {"unused", "live", "ended", "reaped"}]
    BY <1>0, <1>1
  <2> QED
    BY <1>0, <1>9, <1>11, <2>1 DEF MemInv, MemTypeOK, HeapInv
<1>14. DirInv'
  <2>1. \A q \in Holders' : cr3'[q] = cr3[q]
    BY <1>11, <1>12 DEF Holders, With
  <2>2. owned' = owned \ Given(cr3[z]) /\ a.block = cr3[z].dir
    BY <1>0, <1>3, <1>6
  <2> QED
    BY <1>0, <1>4, <1>5, <1>8, <1>12, <2>1, <2>2, ReapDir DEF MemInv
<1>15. BuildInv'
  BY <1>0, <1>4, EmptyDirectory, Constants DEF BuildInv
<1>16. OrderInv'
  <2>1. \A q \in Holders' : q \in Holders /\ cr3'[q] = cr3[q]
    BY <1>11, <1>12 DEF Holders, With
  <2>2. owned' \subseteq bitmap'
    BY <1>0 DEF MemInv, OrderInv
  <2>3. zombie' = NONE /\ booted' = Len(BootSizes)
    BY <1>0, <1>4
  <2> QED
    BY <2>1, <2>2, <2>3 DEF MemInv, OrderInv
<1>17. CountInv'
  BY <1>0, <1>12 DEF MemInv, CountInv, Busy
<1>18. AccountInv'
  <2>1. PICK h \in Nat, r \in Nat, sp \in Nat, fp \in Nat, o \in Nat, k \in Nat, b \in Nat :
          /\ h = Cardinality(Holders) /\ r = Cardinality(With("reaped"))
          /\ sp = StackPages /\ fp = FreedPages
          /\ o = Cardinality(owned) /\ k = Cardinality(Kept) /\ b = booted
    <3>1. Cardinality(Holders) \in Nat /\ Cardinality(With("reaped")) \in Nat
      BY SlotSets
    <3>2. Cardinality(owned) \in Nat /\ Cardinality(Kept) \in Nat /\ booted \in Nat
      BY Counts
    <3>3. StackPages \in Nat /\ FreedPages \in Nat
      BY Constants
    <3> QED
      BY <3>1, <3>2, <3>3
  <2>2. Cardinality(Holders') = h - 1 /\ Cardinality(With("reaped")') = r + 1
    <3>1. IsFiniteSet(Holders) /\ IsFiniteSet(With("reaped"))
      BY SlotSets
    <3>2. Cardinality(Holders \ {z}) = h - 1
      BY <1>5, <2>1, <3>1, FS_RemoveElement
    <3>3. Cardinality(With("reaped") \cup {z}) = r + 1
      BY <1>12, <2>1, <3>1, FS_AddElement
    <3> QED
      BY <1>12, <3>2, <3>3
  <2>3. HeldFrames = sp * h + (sp - fp) * r
          /\ HeldFrames' = sp * (h - 1) + (sp - fp) * (r + 1)
    BY <2>1, <2>2 DEF HeldFrames
  <2>4. HeldBlocks = b + 3 * h + 2 * r
          /\ HeldBlocks' = b + 3 * (h - 1) + 2 * (r + 1)
    BY <1>0, <2>1, <2>2 DEF HeldBlocks
  <2>5. FramesSoFar' = FramesSoFar /\ BlocksSoFar' = BlocksSoFar
          /\ FramesSoFar = 0 /\ BlocksSoFar = 0
    BY <1>0, <1>4 DEF FramesSoFar, BlocksSoFar
  <2>6. Cardinality(owned') = o - fp
    <3>1. Given(d) \subseteq owned /\ Cardinality(Given(d)) = fp
      BY <1>5, <2>1, GivenCount
    <3>2. owned \cap Given(d) = Given(d)
      BY <3>1
    <3>3. Cardinality(owned \ Given(d)) = Cardinality(owned) - Cardinality(owned \cap Given(d))
      BY Counts, FS_Difference
    <3> QED
      BY <1>0, <2>1, <3>1, <3>2, <3>3
  <2>7. Cardinality(Kept') = k - 1 /\ IsFiniteSet(allocated')
    <3>1. Kept' = Kept \ {a} /\ a \in Kept
      BY <1>6, <1>8 DEF Kept
    <3>2. IsFiniteSet(Kept) /\ IsFiniteSet(allocated)
      BY Counts DEF MemInv, AccountInv
    <3> QED
      BY <1>8, <2>1, <3>1, <3>2, FS_RemoveElement
  <2>8. (o - fp) - (sp * (h - 1) + (sp - fp) * (r + 1)) - 0
          = o - (sp * h + (sp - fp) * r) - 0
    <3>1. sp * (h - 1) = sp * h - sp
      OBVIOUS
    <3>2. (sp - fp) * (r + 1) = (sp - fp) * r + (sp - fp)
      OBVIOUS
    <3> QED
      BY <3>1, <3>2
  <2>9. (k - 1) - (b + 3 * (h - 1) + 2 * (r + 1)) - 0 = k - (b + 3 * h + 2 * r) - 0
    OBVIOUS
  <2> QED
    BY <1>0, <2>1, <2>3, <2>4, <2>5, <2>6, <2>7, <2>8, <2>9, AccountSame
<1> QED
  BY <1>9, <1>10, <1>13, <1>14, <1>15, <1>16, <1>17, <1>18 DEF MemInv

-----------------------------------------------------------------------------
(* The invariant and what it says.                                         *)

LEMMA InitMemInv ==
    ASSUME BootFits, MemInit
    PROVE  MemInv
<1>1. HeapInv /\ BootInv
  BY InitHeap DEF MemInit
<1>2. With("unused") = Slots /\ Holders = {} /\ With("reaped") = {}
  BY DEF MemInit, With, Holders
<1>3. MemTypeOK
  <2>1. bitmap \subseteq Phys!Frames
    BY DEF MemInit
  <2> QED
    <3>1. life \in [Slots -> {"unused", "live", "ended", "reaped"}]
      BY DEF MemInit
    <3>2. cr3 \in [Slots -> Directories] /\ pd \in Directories
      BY EmptyDirectory DEF MemInit
    <3>3. step \in {"idle", "pointer", "frame", "set", "check"}
            /\ calls \in 0 .. MaxCreates /\ failed \in 0 .. calls
            /\ page \in 0 .. StackPages /\ started \in BOOLEAN
            /\ zombie = NONE /\ phys = NONE /\ owned = {}
      <4>1. /\ step = "idle" /\ calls = 0 /\ failed = 0 /\ page = 0
            /\ started = FALSE /\ zombie = NONE /\ phys = NONE /\ owned = {}
        BY Zenon DEF MemInit
      <4>2. MaxCreates \in Nat /\ StackPages \in Nat
        BY Constants
      <4>3. calls \in 0 .. MaxCreates /\ failed \in 0 .. calls
              /\ page \in 0 .. StackPages
        BY <4>1, <4>2
      <4>4. step \in {"idle", "pointer", "frame", "set", "check"} /\ started \in BOOLEAN
        BY <4>1, Zenon
      <4> QED
        BY <4>1, <4>3, <4>4, Zenon
    <3> QED
      BY <1>1, <2>1, <3>1, <3>2, <3>3 DEF MemTypeOK, HeapInv
<1>4. DirInv
  BY <1>2 DEF MemInit, DirInv
<1>5. BuildInv
  BY EmptyDirectory, Constants DEF MemInit, BuildInv
<1>6. OrderInv
  BY <1>2 DEF MemInit, OrderInv
<1>7. CountInv
  <2>1. Slots \ With("unused") = {}
    BY <1>2
  <2> QED
    BY <2>1, FS_EmptySet DEF MemInit, CountInv, Busy
<1>8. AccountInv
  <2>1. Kept = {} /\ allocated = {} /\ owned = {} /\ booted = 0 /\ failed = 0
    BY DEF MemInit, Init, Kept
  <2>2. FramesSoFar = 0 /\ BlocksSoFar = 0
    BY DEF MemInit, FramesSoFar, BlocksSoFar
  <2>3. HeldFrames = 0 /\ HeldBlocks = 0
    <3>1. Cardinality(Holders) = 0 /\ Cardinality(With("reaped")) = 0
      BY <1>2, FS_EmptySet
    <3>2. StackPages * 0 = 0 /\ (StackPages - FreedPages) * 0 = 0
      BY Constants
    <3> QED
      BY <2>1, <3>1, <3>2 DEF HeldFrames, HeldBlocks
  <2> QED
    BY <2>1, <2>2, <2>3, FS_EmptySet, Constants DEF AccountInv
<1> QED
  BY <1>1, <1>3, <1>4, <1>5, <1>6, <1>7, <1>8 DEF MemInv

LEMMA NextMemInv ==
    ASSUME BootFits, SingleBlocks, MemInv, [MemNext]_memVars
    PROVE  MemInv'
<1>1. CASE UNCHANGED memVars
  <2>1. life' = life /\ zombie' = zombie /\ started' = started
          /\ UNCHANGED <<vars, frameVars, createVars, cr3>>
    BY <1>1 DEF memVars, procVars
  <2>2. With("unused")' = With("unused") /\ With("reaped")' = With("reaped")
    BY <2>1, SameHolders
  <2>3. /\ life \in [Slots -> {"unused", "live", "ended", "reaped"}]
        /\ zombie \in Slots \cup {NONE} /\ started \in BOOLEAN
        /\ (started => booted = Len(BootSizes) /\ step = "idle")
        /\ (zombie # NONE => started /\ life[zombie] = "ended")
    BY DEF MemInv, MemTypeOK, OrderInv, BuildInv
  <2> QED
    BY <2>1, <2>2, <2>3, EndInv
<1>2. CASE BootMalloc /\ UNCHANGED <<frameVars, createVars, procVars>>
  BY <1>2, BootMallocInv
<1>3. CASE CreateStep
  BY <1>3, CreateStepInv
<1>4. CASE Start
  BY <1>4, StartInv
<1>5. CASE \E p \in Slots : Exit(p) \/ Expire(p)
  BY <1>5, ExitInv
<1>6. CASE Reap
  BY <1>6, ReapInv
<1>7. CASE Streams
  BY <1>7, StreamsInv
<1> QED
  BY <1>1, <1>2, <1>3, <1>4, <1>5, <1>6, <1>7 DEF MemNext

LEMMA MemInvariant ==
    ASSUME BootFits, SingleBlocks
    PROVE  MemSpec => []MemInv
<1>1. MemInit => MemInv
  BY InitMemInv
<1>2. MemInv /\ [MemNext]_memVars => MemInv'
  BY NextMemInv
<1> QED
  BY <1>1, <1>2, PTL DEF MemSpec

\* The hypotheses of the theorems: the boot allocations fit into the heap, and
\* what is freed while processes run is at most a block each time.
Sizes == BootFits /\ SingleBlocks

\* The tables, directories and counters of processes stay within their bounds.
THEOREM MemoryTyped ==
    ASSUME Sizes PROVE MemSpec => []MemTypeOK
<1>1. MemInv => MemTypeOK
  BY DEF MemInv
<1> QED
  BY <1>1, MemInvariant, PTL DEF Sizes

\* kmalloc never hands out a block that somebody holds, whatever create_process,
\* free_proc and the keyboard handler allocate and free.
THEOREM AllocationsDisjoint ==
    ASSUME Sizes PROVE MemSpec => []Disjoint
<1>1. MemInv => Disjoint
  BY DEF MemInv, HeapInv
<1> QED
  BY <1>1, MemInvariant, PTL DEF Sizes

\* The heap table marks exactly the blocks of the allocations in use: no kfree
\* reaches a neighbour and none leaks a block.
THEOREM TableIsExact ==
    ASSUME Sizes PROVE MemSpec => []TableMatches
<1>1. MemInv => TableMatches
  BY DEF MemInv, HeapInv
<1> QED
  BY <1>1, MemInvariant, PTL DEF Sizes

\* Nothing is allocated or marked behind the end of the heap.
THEOREM HeapNotLeft ==
    ASSUME Sizes PROVE MemSpec => []InsideHeap
<1>1. MemInv => InsideHeap
  BY DEF MemInv, HeapInv
<1> QED
  BY <1>1, MemInvariant, PTL DEF Sizes

\* Two processes never share a frame, a page table or a directory, and nothing
\* that a directory refers to has been given back, through every failure of
\* create_process and every free_proc.
THEOREM ProcessesIsolated ==
    ASSUME Sizes PROVE MemSpec => []Isolation
<1>1. ASSUME MemInv PROVE Isolation
  <2>1. ASSUME NEW d \in InUse
        PROVE  \/ step # "idle" /\ d = pd /\ Backed(d, owned, allocated)
               \/ \E p \in Holders : d = cr3[p] /\ Backed(d, owned, allocated)
    <3>1. step = "idle" => pd.dir = NONE
      BY <1>1, EmptyDirectory DEF MemInv, BuildInv
    <3> QED
      BY <1>1, <2>1, <3>1 DEF InUse, MemInv, DirInv, Holders
  <2>2. \A d \in InUse : Mapped(d) \subseteq owned \cap bitmap
    BY <1>1, <2>1 DEF Backed, MemInv, OrderInv
  <2>3. \A d \in InUse : {d.dir, d.table} \ {NONE} \subseteq {a.block : a \in allocated}
    BY <2>1 DEF Backed, BlocksOf
  <2>4. ASSUME NEW d \in InUse, NEW e \in InUse, d # e
        PROVE  Apart(d, e)
    <3>1. \A x, y : Apart(x, y) => Apart(y, x)
      BY DEF Apart
    <3> QED
      BY <1>1, <2>1, <2>4, <3>1 DEF MemInv, DirInv
  <2> QED
    BY <2>2, <2>3, <2>4 DEF Isolation, Apart, BlocksOf
<1>2. MemInv => Isolation
  BY <1>1
<1> QED
  BY <1>2, MemInvariant, PTL DEF Sizes

\* Every process that create_process hands out has its whole stack, although the
\* answers of paging_set are ignored, and every call that did not fail has made
\* one process.
THEOREM StacksComplete ==
    ASSUME Sizes PROVE MemSpec => []StackComplete
<1>1. ASSUME MemInv PROVE StackComplete
  <2>1. \A p \in With("live") : \A i \in Pages : cr3[p].pages[i] # NONE
    BY <1>1 DEF MemInv, OrderInv, Holders
  <2>2. ASSUME step = "idle"
        PROVE  Cardinality(Slots \ With("unused")) = calls - failed
    <3>1. PICK n \in Nat : n = Cardinality(Slots \ With("unused"))
      BY SlotSets
    <3>2. n + failed + 0 = calls
      BY <1>1, <2>2, <3>1 DEF MemInv, CountInv, Busy
    <3> QED
      BY <1>1, <3>1, <3>2, Counts
  <2> QED
    BY <2>1, <2>2 DEF StackComplete
<1>2. MemInv => StackComplete
  BY <1>1
<1> QED
  BY <1>2, MemInvariant, PTL DEF Sizes

\* The memory of processes is accounted for: each ended process keeps its stack
\* and three blocks until it is reaped and two blocks and the pages that free_vmm
\* is not asked for after that, and each failed call loses at most a stack and
\* three blocks.
THEOREM MemoryAccounted ==
    ASSUME Sizes PROVE MemSpec => []MemoryAccount
<1>1. ASSUME MemInv PROVE MemoryAccount
  <2>1. PICK o \in Nat, k \in Nat, hf \in Int, hb \in Int, fs \in Nat,
             bs \in 0 .. 3, nf \in Nat, sp \in Nat :
          /\ o = Cardinality(owned) /\ k = Cardinality(Kept) /\ hf = HeldFrames
          /\ hb = HeldBlocks /\ fs = FramesSoFar /\ bs = BlocksSoFar
          /\ nf = failed /\ sp = StackPages /\ fs <= sp
    <3>1. FramesSoFar \in Nat /\ FramesSoFar <= StackPages /\ StackPages \in Nat
      BY <1>1, Counts, Constants
    <3> QED
      BY <1>1, <3>1, Counts
  <2>2. o - hf - fs \in 0 .. sp * nf /\ k - hb - bs \in 0 .. 3 * nf
    BY <1>1, <2>1 DEF MemInv, AccountInv
  <2>3. PICK lost \in Nat : lost = failed + (IF step = "idle" THEN 0 ELSE 1)
    BY <2>1
  <2>4. step = "idle" => fs = 0 /\ bs = 0
    BY <1>1, <2>1 DEF MemInv, BuildInv, FramesSoFar, BlocksSoFar
  <2>5. o \in hf .. hf + sp * lost /\ k \in hb .. hb + 3 * lost
    <3>1. CASE step = "idle"
      <4>1. lost = nf
        BY <2>1, <2>3, <3>1
      <4> QED
        BY <2>2, <2>4, <3>1, <4>1
    <3>2. CASE step # "idle"
      <4>1. lost = nf + 1
        BY <2>1, <2>3, <3>2
      <4>2. sp * lost = sp * nf + sp
        BY <4>1
      <4> QED
        BY <2>1, <2>2, <4>1, <4>2
    <3> QED
      BY <3>1, <3>2
  <2> QED
    BY <2>1, <2>3, <2>5 DEF MemoryAccount, HeldFrames, HeldBlocks, Holders
<1>2. MemInv => MemoryAccount
  BY <1>1
<1> QED
  BY <1>2, MemInvariant, PTL DEF Sizes

=============================================================================
