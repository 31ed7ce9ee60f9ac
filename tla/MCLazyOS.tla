----------------------------- MODULE MCLazyOS ------------------------------
(* Instances of LazyOS for TLC.                                            *)
EXTENDS LazyOS, TLC

\* The processes of kernel_main, and variants of them.
KernelMainEntries == <<"A", "B", "C">>
TwoLockers        == <<"A", "B">>
OnlyOthers        == <<"any", "any", "any">>
MoreThanSlots     == <<"A", "B", "any", "C">>

OneRound  == "A" :> 1 @@ "B" :> 1
TwoRounds == "A" :> 1 @@ "B" :> 2

NoFaults     == {}
\* A division by zero, an invalid opcode, and a page fault on a page that is
\* not present and on one that is write-protected.
SomeFaults   == {<<0, 0>>, <<6, 0>>, <<14, 0>>, <<14, 3>>}
\* The faults of SomeFaults that do not stop the machine.
KillingFaults == {<<0, 0>>, <<6, 0>>, <<14, 0>>}
=============================================================================
