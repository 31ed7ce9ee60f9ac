-------------------------------- MODULE PMM --------------------------------
(***************************************************************************)
(* The physical memory manager of memory/paging/PMM/pmm.c: a bitmap with   *)
(* one bit per page frame, filled with the regions that must not be used   *)
(* (manual_prefill, get_e820_mmap) and then serving single frames.         *)
(*                                                                         *)
(* The bitmap is the set of frames whose bit is set; byte b of the array   *)
(* holds frames 8b .. 8b + 7.                                              *)
(***************************************************************************)
EXTENDS Integers, FiniteSets

CONSTANTS PMM_ENTRIES,     \* bytes of the bitmap
          PageSize,        \* 4096
          Regions,         \* <<base, len>> in bytes: what may be reserved
          MaxRegions,      \* bound: regions reserved in one boot
          MaxOwned         \* bound: frames handed out at a time

ASSUME PMMAssumption ==
    /\ PMM_ENTRIES \in Nat \ {0} /\ PageSize \in Nat \ {0}
    /\ Regions \subseteq Nat \X Nat /\ MaxRegions \in Nat /\ MaxOwned \in Nat

Frames == 0 .. 8 * PMM_ENTRIES - 1

\* The bitmap covers the 4 GiB of a 32-bit address: U32 is the number of values
\* of a uint32_t, and Bits are the bits that a uint32_t byte index can reach.
U32  == 8 * PMM_ENTRIES * PageSize
Bits == 0 .. 8 * U32 - 1

VARIABLES bitmap,       \* bits set; those behind Frames lie behind the array
          reserved,     \* regions passed to fill_from_to so far
          booted,       \* whether boot has finished filling
          owned         \* frames handed out and not given back

vars == <<bitmap, reserved, booted, owned>>

Init == bitmap = {} /\ reserved = {} /\ booted = FALSE /\ owned = {}

-----------------------------------------------------------------------------

\* Mutation: the rounding adds a whole page.
RoundUpTooFar(size) ==
    IF size >= U32 - 1 THEN U32 - 1 ELSE (size + PageSize) \div PageSize

\* The largest uint32_t is not divided.
calc_frames(size) ==
    IF size >= U32 - 1 THEN U32 - 1 ELSE (size + PageSize - 1) \div PageSize

\* The first frame.  The undivided answer is -1 as an int and 2^64 - 1 as the
\* uint64_t start_frame: bit 7 of the last byte that an index can reach.
start_frame(base) == IF base >= U32 - 1 THEN 8 * U32 - 1 ELSE calc_frames(base)

\* Mutation: a borrow does not take the whole byte away.
PadRoundFreeBorrow(b) ==
    IF b.returned \/ (b.full = 0 /\ b.part = 0)
    THEN [full |-> b.full, part |-> b.part, returned |-> TRUE]
    ELSE [full |-> b.full, part |-> IF b.part = 0 THEN 6 ELSE b.part - 1,
          returned |-> FALSE]

\* One round of the loop of fill_from_to that pads the first byte: how many
\* whole and single frames are still to be marked, and whether it has returned.
\* A borrow turns a whole byte of 8 frames into 7.
PadRound(b) ==
    IF b.returned \/ (b.full = 0 /\ b.part = 0)
    THEN [full |-> b.full, part |-> b.part, returned |-> TRUE]
    ELSE IF b.part = 0
    THEN [full |-> b.full - 1, part |-> 6, returned |-> FALSE]
    ELSE [full |-> b.full, part |-> b.part - 1, returned |-> FALSE]

\* The loop, when `rest' frames are left behind the first.
Padding(rest, rounds) ==
    LET pad[i \in 0 .. rounds] ==
          IF i = 0
          THEN [full |-> rest \div 8, part |-> rest % 8, returned |-> FALSE]
          ELSE PadRound(pad[i - 1])
    IN  pad[rounds]

\* Mutation: bitmap[block++] for bitmap[++block], the bytes are one too low.
MarkedPostIncrement(start, n) ==
    LET block  == start \div 8
        rounds == IF start % 8 <= 6 THEN 6 - (start % 8) ELSE 0
        end    == Padding(n - 1, rounds)
    IN  IF n = 1 \/ end.returned THEN {start}
        ELSE {start} \cup (8 * block + 7 - rounds .. 8 * block + 7)
               \cup (8 * block .. 8 * (block + end.full) + end.part - 1)

\* The bits fill_from_to sets for n > 0 frames from frame `start'.
Marked(start, n) ==
    LET block  == start \div 8
        rounds == IF start % 8 <= 6 THEN 6 - (start % 8) ELSE 0
        end    == Padding(n - 1, rounds)
        tail   == 8 * block + 7 - rounds .. 8 * block + 7
        body   == 8 * (block + 1) .. 8 * (block + 1 + end.full) - 1
        head   == 8 * (block + 1 + end.full)
                    .. 8 * (block + 1 + end.full) + end.part - 1
    IN  IF n = 1 \/ end.returned THEN {start}
        ELSE {start} \cup tail \cup body \cup head

\* Nothing keeps the byte index inside the array; it wraps as a uint32_t.
fill_from_to(base, len) ==
    bitmap' = IF len = 0 THEN bitmap
              ELSE bitmap \cup {f % (8 * U32) :
                                  f \in Marked(start_frame(base), calc_frames(len))}

\* A 64-bit base or length of the memory map becomes a uint32_t in the call.
Low32(n) == n % U32

Reserve ==
    /\ ~booted /\ Cardinality(reserved) < MaxRegions
    /\ \E r \in Regions \ reserved :
         /\ fill_from_to(Low32(r[1]), Low32(r[2]))
         /\ reserved' = reserved \cup {r}
    /\ UNCHANGED <<booted, owned>>

Boot == ~booted /\ booted' = TRUE /\ UNCHANGED <<bitmap, reserved, owned>>

\* The first byte that is not 255, then its lowest clear bit.
FirstFree(f) == f \notin bitmap /\ \A g \in 0 .. f - 1 : g \in bitmap

\* Mutation: the bit is set in the byte behind.
GetMarksNextByte(f) ==
    /\ FirstFree(f)
    /\ bitmap' = bitmap \cup {f + 8} /\ owned' = owned \cup {f}

\* Mutation: the bit is set in the byte before.
GetMarksByteBefore(f) ==
    /\ FirstFree(f)
    /\ bitmap' = bitmap \cup {f - 8} /\ owned' = owned \cup {f}

\* Mutation: the frame found is not marked.
GetUnmarked(f) ==
    /\ FirstFree(f)
    /\ bitmap' = bitmap /\ owned' = owned \cup {f}

get_free_physical_address(f) ==
    /\ FirstFree(f)
    /\ bitmap' = bitmap \cup {f} /\ owned' = owned \cup {f}

\* Every byte is 255: the answer is -NO_MEMORY.
Exhausted == Frames \subseteq bitmap

\* Mutation: the bit is not cleared.
FreeKeepsBit(f) == bitmap' = bitmap /\ owned' = owned \ {f}

free_physical_frame(f) == bitmap' = bitmap \ {f} /\ owned' = owned \ {f}

Get ==
    /\ booted /\ Cardinality(owned) < MaxOwned
    /\ \E f \in Frames : get_free_physical_address(f)
    /\ UNCHANGED <<reserved, booted>>

GetNothing == booted /\ Exhausted /\ UNCHANGED vars

\* The callers free frames that they were given.
Free ==
    /\ booted
    /\ \E f \in owned : free_physical_frame(f)
    /\ UNCHANGED <<reserved, booted>>

Next == Reserve \/ Boot \/ Get \/ GetNothing \/ Free

Spec == Init /\ [][Next]_vars

-----------------------------------------------------------------------------

TypeOK ==
    /\ bitmap \subseteq Bits /\ owned \subseteq Frames
    /\ reserved \subseteq Regions /\ booted \in BOOLEAN

\* The frames that a region touches.
Touched(r) == {f \in Frames : f * PageSize < r[1] + r[2]
                                /\ (f + 1) * PageSize > r[1]}

\* A region that ends within the 4 GiB and whose numbers calc_frames divides.
InMemory(r) == r[1] + r[2] <= U32 /\ r[1] < U32 - 1 /\ r[2] < U32 - 1

\* An aligned region that reaches the last frame of its first bitmap byte.
Regular(r) ==
    LET first == r[1] \div PageSize
    IN  /\ InMemory(r)
        /\ r[1] % PageSize = 0 /\ (first % 8) + calc_frames(r[2]) >= 8

\* No frame of a regular reserved region is ever handed out: the regions of
\* manual_prefill are of this kind, whatever is freed and reused later.
ReservedNeverOwned ==
    \A r \in reserved : Regular(r) => owned \cap Touched(r) = {}

\* fill_from_to sets at most one bit that it was not asked to set, the one
\* behind the region that its truncated arguments name, so little memory is
\* lost to it.
OneFrameTooMany ==
    ~booted => \A f \in bitmap : \E r \in reserved :
        \E k \in 0 .. calc_frames(Low32(r[2])) :
            f = (start_frame(Low32(r[1])) + k) % (8 * U32)

\* Regions inside the 4 GiB never make fill_from_to (pmm.c, bitmap[++block])
\* write further than the first two bits of the one byte behind the bitmap.
SpillBounded ==
    (\A r \in reserved : InMemory(r)) => bitmap \subseteq 0 .. 8 * PMM_ENTRIES + 1

\* After boot the frames that are marked and have no owner stay the same: no
\* sequence of allocations and frees leaks a frame, hands one out twice or gives
\* back what boot has reserved.
FramesConserved ==
    [][booted => /\ owned' \subseteq bitmap'
                 /\ bitmap' \ owned' = bitmap \ owned]_vars

\* e820_mmap.c reserves every region that is "not free", and fill_from_to leaves
\* its loop "if no more frames needed": no reserved frame is handed out.
NotFreeIsReserved == \A r \in reserved : owned \cap Touched(r) = {}
=============================================================================
