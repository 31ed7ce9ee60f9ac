-------------------------------- MODULE Heap -------------------------------
(***************************************************************************)
(* The kernel heap of memory/heap: a table with one entry per block, first *)
(* fit allocation of whole blocks, and a free that follows HAS_NEXT flags. *)
(*                                                                         *)
(* A table entry is the set of its flags; the free entry is the empty set. *)
(* An address is the number of its block.  The kernel first makes the      *)
(* allocations of its boot code, which it keeps, and then allocates and    *)
(* frees; it frees only what it was given.                                 *)
(***************************************************************************)
EXTENDS Integers, Sequences

CONSTANTS TotalEntries,      \* LAZYOS_HEAP_SIZE_BYTES / LAZYOS_HEAP_BLOCK_SIZE
          BlockSize,         \* LAZYOS_HEAP_BLOCK_SIZE
          BootSizes,         \* bytes of the allocations made while booting
          RuntimeSizes       \* bytes of those made, and freed, afterwards

ASSUME HeapAssumption ==
    /\ TotalEntries \in Nat \ {0} /\ BlockSize \in Nat \ {0}
    /\ BootSizes \in Seq(Nat) /\ RuntimeSizes \subseteq Nat

Blocks == 0 .. TotalEntries - 1

TAKEN    == "taken"
FIRST    == "first"
HAS_NEXT == "has_next"
FREE     == {}

VARIABLES entries,    \* the heap table
          past,       \* number of bytes written behind the table
          booted,     \* boot allocations made
          allocated   \* the allocations in use: records [block, total, kept]

vars == <<entries, past, booted, allocated>>

Init ==
    /\ entries = [i \in Blocks |-> FREE]
    /\ past = 0 /\ booted = 0 /\ allocated = {}

-----------------------------------------------------------------------------

\* heap_aligne_value_to_upper, in blocks.
TotalBlocks(size) ==
    IF size % BlockSize = 0 THEN size \div BlockSize
    ELSE (size - (size % BlockSize) + BlockSize) \div BlockSize

\* Mutation: only first blocks count as taken.
IsNotFirst(i) == FIRST \notin entries[i]

IsFree(i) == TAKEN \notin entries[i]

FreeRun(first, last) == \A i \in first .. last : IsFree(i)

\* Where the scan stops as soon as it has counted `total' free blocks in a row.
Fits(total) ==
    {s \in Blocks : total > 0 /\ s + total <= TotalEntries
                              /\ FreeRun(s, s + total - 1)}

\* Where the free blocks at the end of the table begin, however few they are:
\* start_block is left there when the scan runs off the table.
Trailing ==
    {s \in Blocks : FreeRun(s, TotalEntries - 1) /\ (s > 0 => ~IsFree(s - 1))}

\* Mutation: the last fit.
StartBlockLast(total) ==
    IF Fits(total) # {}
    THEN {s \in Fits(total) : \A r \in Fits(total) : s >= r}
    ELSE Trailing

\* The block an allocation gets, as a set that is empty for -NO_MEMORY.
heap_get_start_block(total) ==
    IF Fits(total) # {}
    THEN {s \in Fits(total) : \A r \in Fits(total) : s <= r}
    ELSE Trailing

\* The same search as the loop of heap.c: start_block and current_block after i
\* rounds, and whether the break has been taken.
Scan(total) ==
    LET scan[i \in 0 .. TotalEntries] ==
          IF i = 0 THEN [start |-> -1, count |-> 0, stop |-> FALSE]
          ELSE LET b == scan[i - 1]
                   s == IF b.start = -1 THEN i - 1 ELSE b.start
               IN  IF b.stop THEN b
                   ELSE IF TAKEN \in entries[i - 1]
                   THEN [start |-> -1, count |-> 0, stop |-> FALSE]
                   ELSE [start |-> s, count |-> b.count + 1,
                         stop |-> b.count + 1 = total]
    IN  scan[TotalEntries].start

\* The entry that heap_mark_blocks_taken stores for the i-th of `total' blocks:
\* `entry' is prepared in the round before, so its test i != end_block is made
\* for the block before.
Mark(i, total) ==
    {TAKEN} \cup (IF i = 0 THEN {FIRST} ELSE {})
            \cup (IF total > 1 THEN {HAS_NEXT} ELSE {})

\* Mutation: end_block is one too far.
MarkTakenTooFar(start, total) ==
    /\ entries' = [i \in Blocks |->
                     IF i \in start .. start + total
                     THEN Mark(i - start, total) ELSE entries[i]]
    /\ past' = IF start + total + 1 - TotalEntries > past
               THEN start + total + 1 - TotalEntries ELSE past

heap_mark_blocks_taken(start, total) ==
    /\ entries' = [i \in Blocks |->
                     IF i \in start .. start + total - 1
                     THEN Mark(i - start, total) ELSE entries[i]]
    /\ past' = IF start + total - TotalEntries > past
               THEN start + total - TotalEntries ELSE past

\* The last block that freeing from `block' visits: the first one without
\* HAS_NEXT, or the end of the table.
LastFreed(block) ==
    CHOOSE e \in block .. TotalEntries - 1 :
        /\ \A i \in block .. e - 1 : HAS_NEXT \in entries[i]
        /\ HAS_NEXT \notin entries[e] \/ e = TotalEntries - 1

\* Mutation: the test of HAS_NEXT comes a block late.
MarkFreeTooFar(block) ==
    entries' = [i \in Blocks |->
                  IF i \in block .. LastFreed(block) + 1 THEN FREE
                                                        ELSE entries[i]]

heap_mark_blocks_free(block) ==
    entries' = [i \in Blocks |->
                  IF i \in block .. LastFreed(block) THEN FREE ELSE entries[i]]

-----------------------------------------------------------------------------

\* An allocation that succeeds and gets block s.  `kept' tells whether it
\* outlives the call that made it.
kmalloc(s, size, kept) ==
    /\ s \in heap_get_start_block(TotalBlocks(size))
    /\ heap_mark_blocks_taken(s, TotalBlocks(size))
    /\ allocated' = allocated \cup
         {[block |-> s, total |-> TotalBlocks(size), kept |-> kept]}

\* One that answers 0.
NoMemory(size) == heap_get_start_block(TotalBlocks(size)) = {}

kfree(a) ==
    /\ heap_mark_blocks_free(a.block)
    /\ allocated' = allocated \ {a}
    /\ UNCHANGED past

\* The boot code does not look at the answer; a heap too small to boot from is
\* not modelled.
BootMalloc ==
    /\ booted < Len(BootSizes)
    /\ booted' = booted + 1
    /\ \E s \in Blocks : kmalloc(s, BootSizes[booted + 1], TRUE)

Malloc ==
    /\ booted = Len(BootSizes)
    /\ \E size \in RuntimeSizes, s \in Blocks : kmalloc(s, size, FALSE)
    /\ UNCHANGED booted

Free ==
    /\ booted = Len(BootSizes)
    /\ \E a \in allocated : ~a.kept /\ kfree(a)
    /\ UNCHANGED booted

Next == BootMalloc \/ Malloc \/ Free

Spec == Init /\ [][Next]_vars

-----------------------------------------------------------------------------

TypeOK ==
    /\ entries \in [Blocks -> SUBSET {TAKEN, FIRST, HAS_NEXT}]
    /\ past \in Nat
    /\ booted \in 0 .. Len(BootSizes)
    /\ allocated \subseteq [block : Blocks, total : Nat, kept : BOOLEAN]

\* The blocks an allocation covers.
Extent(a) == a.block .. a.block + a.total - 1

\* Two allocations in use never share a block: kmalloc does not hand out memory
\* that somebody holds, whatever was freed before.
Disjoint ==
    \A a, b \in allocated : a # b => Extent(a) \cap Extent(b) = {}

\* A block is marked taken exactly while an allocation in use covers it: no
\* free reaches a neighbour's blocks, and none is leaked.
TableMatches ==
    \A i \in Blocks : ~IsFree(i) <=> \E a \in allocated : i \in Extent(a)

\* Every allocation lies inside the heap, and nothing was written behind the
\* table.
InsideHeap ==
    /\ past = 0
    /\ \A a \in allocated : Extent(a) \subseteq Blocks

\* The set-based first fit of Heap answers what the loop answers, for every
\* table that is reached and for every request, the empty one included.
FirstFitAsLoop ==
    \A total \in 0 .. TotalEntries + 1 :
        heap_get_start_block(total)
            = IF Scan(total) = -1 THEN {} ELSE {Scan(total)}

\* Under what the heap is sound: the boot code asks for something each time and
\* finds it in the heap, one block behind the other ...
BootFits ==
    \E ends \in [0 .. Len(BootSizes) -> 0 .. TotalEntries] :
        /\ ends[0] = 0
        /\ \A i \in 1 .. Len(BootSizes) :
             /\ BootSizes[i] > 0
             /\ ends[i] = ends[i - 1] + TotalBlocks(BootSizes[i])

\* ... and what is freed later is at most a block.  Both are needed: see Trailing
\* for a request that does not fit, and Mark for the last block of several, which
\* keeps HAS_NEXT.
SingleBlocks == RuntimeSizes \subseteq 1 .. BlockSize
=============================================================================
