------------------------------- MODULE Claims ------------------------------
(***************************************************************************)
(* What comments and messages of the source say of the running kernel,     *)
(* stated as properties of LazyOS.                                         *)
(***************************************************************************)
EXTENDS MCLazyOS

\* queue.h on sp, "current esp (top of saved context)", and process.asm, "save
\* current process": a block's saved context is its own thread's.
SavedContextIsOwn == \A p \in Queue : sp[p] = p

\* queue.h on cr3, "page directory physical addr / cr3": the directory loaded
\* while a process runs has not been handed back to the allocator.
LoadedIsDirectory == CR3 \in Slots => freed[CR3] = 0

(* Every thread that is given the processor again and again makes progress. *)
FullFairness ==
    /\ Fairness
    /\ \A p \in Slots : SF_vars(ProcessStep(p))

FullFairSpec == Spec /\ FullFairness

\* kernel.c, after start_processes: "all processes done, back in kernel_main".
\* The ticks that ClaimContext and ClaimDirectory show to be fatal are set aside.
AllProcessesDone == <>[](raced # {} \/ (cpu = KERNEL /\ pc[KERNEL] = "done"))
=============================================================================
