-------------------------- MODULE MCProcessMemory --------------------------
(* An instance of ProcessMemory for TLC.                                   *)
EXTENDS ProcessMemory

\* A miniature of the boot sequence: the key buffer, the structure that points at
\* the kernel's directory, and the two-block FAT.
KernelBoot    == <<2, 1, 4>>
\* A disk stream.
StreamSizes   == {1}

\* The sizes are those that the theorems about the heap are about.
ASSUME SizesAssumption == BootFits /\ SingleBlocks
=============================================================================
