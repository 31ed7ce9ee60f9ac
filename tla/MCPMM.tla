------------------------------- MODULE MCPMM -------------------------------
(* Instances of PMM for TLC: pages of two bytes and a bitmap of three       *)
(* bytes, so that regions start at every bit of a byte, end in the same    *)
(* byte, in the next, with the bitmap and behind it, and may be unaligned. *)
EXTENDS PMM

\* Region sizes around the byte boundaries, from every bit of the first byte.
AllStarts == {<<2 * s, l>> : s \in 0 .. 8, l \in {2, 5, 10, 16, 18, 40}}

\* Regions at the edge of what a uint32_t holds (U32 is 48): up to the last byte,
\* with an unaligned base or length, the undivided largest value, and regions
\* above 4 GiB, which the call truncates.
EdgeRegions == {<<32, 16>>, <<31, 17>>, <<33, 15>>, <<45, 3>>, <<46, 2>>,
                <<47, 1>>, <<2, 46>>, <<0, 47>>, <<0, 48>>, <<48, 16>>, <<60, 50>>}

EveryRegion == AllStarts \cup EdgeRegions

\* A small region that does not reach the end of its byte.
SmallRegion == {<<4, 6>>}
=============================================================================
