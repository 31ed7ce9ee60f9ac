---------------------------- MODULE ProcessMemory --------------------------
(***************************************************************************)
(* The memory behind processes: the page directories, page tables and      *)
(* stack frames that create_process takes from the kernel heap and the     *)
(* physical memory manager (memory/paging/paging.c), and what free_proc    *)
(* gives back.                                                             *)
(*                                                                         *)
(* A directory is a record: dir is its heap block, table the block of the  *)
(* page table of the stack's 4 MB region (NONE: not present) and pages the *)
(* frames mapped there.  The entries shared with the kernel's directory    *)
(* lie below the stack and are never changed.                              *)
(***************************************************************************)
EXTENDS Heap, FiniteSets

CONSTANTS MAX_PROCS,      \* size of procs[]
          StackPages,     \* pages that create_process asks vmm_alloc for
          FreedPages,     \* pages that free_proc asks free_vmm for
          PMM_ENTRIES,    \* bytes of the frame bitmap
          FreeFrames,     \* how many frames boot may leave free
          MaxCreates      \* bound: calls of create_process

ASSUME ProcessMemoryAssumption ==
    /\ MAX_PROCS \in Nat \ {0} /\ MaxCreates \in Nat
    /\ StackPages \in Nat \ {0} /\ FreedPages \in 0 .. StackPages
    /\ PMM_ENTRIES \in Nat \ {0} /\ FreeFrames \subseteq 0 .. 8 * PMM_ENTRIES - 1

Slots == 1 .. MAX_PROCS
NONE  == -1

VARIABLES bitmap, owned,      \* of the physical memory manager, after boot
          step,               \* where create_process stands
          calls, failed,      \* calls of create_process, those answered NULL
          pd, page, phys,     \* its directory, and locals of vmm_alloc
          life,               \* slot -> unused, live, ended, reaped
          cr3,                \* slot -> its directory
          zombie,
          started             \* kernel_main has reached start_processes

frameVars  == <<bitmap, owned>>
heapVars   == <<entries, past, allocated>>
createVars == <<step, calls, failed, pd, page, phys>>
procVars   == <<life, cr3, zombie, started>>
memVars    == <<vars, frameVars, createVars, procVars>>

Phys == INSTANCE PMM
            WITH PageSize <- BlockSize, Regions <- {}, MaxRegions <- 0,
                 MaxOwned <- 0, reserved <- {}, booted <- TRUE

Pages == 0 .. StackPages - 1

NoDirectory == [dir |-> NONE, table |-> NONE, pages |-> [i \in Pages |-> NONE]]

MemInit ==
    /\ Init
    /\ \E n \in FreeFrames : bitmap = {f \in Phys!Frames : f < 8 * PMM_ENTRIES - n}
    /\ owned = {}
    /\ step = "idle" /\ calls = 0 /\ failed = 0
    /\ pd = NoDirectory /\ page = 0 /\ phys = NONE
    /\ life = [p \in Slots |-> "unused"]
    /\ cr3 = [p \in Slots |-> NoDirectory]
    /\ zombie = NONE /\ started = FALSE

-----------------------------------------------------------------------------
(* create_process, one step per call that takes memory.  A call that fails  *)
(* returns, and what was taken before it stays taken.                       *)

Unused == {p \in Slots : life[p] = "unused"}

ReturnNull ==
    /\ step' = "idle" /\ failed' = failed + 1
    /\ pd' = NoDirectory /\ page' = 0 /\ phys' = NONE
    /\ UNCHANGED <<calls, procVars, booted>>

\* paging_new_process_directory: the directory ...
NewDirectory ==
    /\ step = "idle" /\ booted = Len(BootSizes) /\ ~started
    /\ calls < MaxCreates /\ Unused # {}
    /\ calls' = calls + 1
    /\ \E s \in Blocks : /\ kmalloc(s, BlockSize, TRUE)
                         /\ pd' = [pd EXCEPT !.dir = s]
    /\ step' = "pointer"
    /\ UNCHANGED <<failed, page, phys, frameVars, procVars, booted>>

NoDirectoryBlock ==
    /\ step = "idle" /\ booted = Len(BootSizes) /\ ~started
    /\ calls < MaxCreates /\ Unused # {}
    /\ NoMemory(BlockSize)
    /\ calls' = calls + 1 /\ failed' = failed + 1
    /\ UNCHANGED <<step, pd, page, phys, heapVars, frameVars, procVars, booted>>

\* ... and the structure that points at it.
NewPointer ==
    /\ step = "pointer"
    /\ \E s \in Blocks : kmalloc(s, 1, TRUE)
    /\ step' = "frame"
    /\ UNCHANGED <<calls, failed, pd, page, phys, frameVars, procVars, booted>>

NoPointerBlock ==
    /\ step = "pointer" /\ NoMemory(1)
    /\ ReturnNull
    /\ UNCHANGED <<heapVars, frameVars>>

\* A round of vmm_alloc: a frame ...
GetFrame ==
    /\ step = "frame"
    /\ \E f \in Phys!Frames : Phys!get_free_physical_address(f) /\ phys' = f
    /\ step' = "set"
    /\ UNCHANGED <<calls, failed, pd, page, heapVars, procVars, booted>>

\* vmm_alloc answers 0; the page below address 0 is not mapped, so
\* paging_get_physical answers 0 as well.
NoFrame ==
    /\ step = "frame" /\ Phys!Exhausted
    /\ ReturnNull
    /\ UNCHANGED <<heapVars, frameVars>>

AfterPage ==
    /\ page' = page + 1 /\ phys' = NONE
    /\ step' = IF page + 1 < StackPages THEN "frame" ELSE "check"
    /\ UNCHANGED <<calls, failed, frameVars, procVars, booted>>

\* ... and paging_set, which takes a page table the first time.
SetInNewTable ==
    /\ step = "set" /\ pd.table = NONE
    /\ \E s \in Blocks :
         /\ kmalloc(s, BlockSize, TRUE)
         /\ pd' = [pd EXCEPT !.table = s, !.pages[page] = phys]
    /\ AfterPage

SetInTable ==
    /\ step = "set" /\ pd.table # NONE
    /\ pd' = [pd EXCEPT !.pages[page] = phys]
    /\ AfterPage /\ UNCHANGED heapVars

\* Its -NO_MEMORY is not looked at.
NoTableBlock ==
    /\ step = "set" /\ pd.table = NONE /\ NoMemory(BlockSize)
    /\ AfterPage /\ UNCHANGED <<pd, heapVars>>

\* paging_get_physical of the top page.
TopPage == IF pd.table = NONE THEN NONE ELSE pd.pages[StackPages - 1]

NotMapped ==
    /\ step = "check" /\ TopPage = NONE
    /\ ReturnNull
    /\ UNCHANGED <<heapVars, frameVars>>

\* Mutation: the slot found first is not the one that is filled.
CreatedInLastSlot ==
    /\ step = "check" /\ TopPage # NONE
    /\ life' = [life EXCEPT ![MAX_PROCS] = "live"]
    /\ cr3' = [cr3 EXCEPT ![MAX_PROCS] = pd]
    /\ step' = "idle" /\ pd' = NoDirectory /\ page' = 0
    /\ UNCHANGED <<calls, failed, phys, heapVars, frameVars, zombie, started,
                   booted>>

Created ==
    /\ step = "check" /\ TopPage # NONE
    /\ \E p \in Unused :
         /\ \A r \in Unused : p <= r
         /\ life' = [life EXCEPT ![p] = "live"]
         /\ cr3' = [cr3 EXCEPT ![p] = pd]
    /\ step' = "idle" /\ pd' = NoDirectory /\ page' = 0
    /\ UNCHANGED <<calls, failed, phys, heapVars, frameVars, zombie, started,
                   booted>>

CreateStep ==
    NewDirectory \/ NoDirectoryBlock \/ NewPointer \/ NoPointerBlock
      \/ GetFrame \/ NoFrame \/ SetInNewTable \/ SetInTable \/ NoTableBlock
      \/ NotMapped \/ Created

-----------------------------------------------------------------------------
(* The end of processes.                                                    *)

Start ==
    /\ step = "idle" /\ ~started /\ booted = Len(BootSizes)
    /\ started' = TRUE
    /\ UNCHANGED <<vars, frameVars, createVars, life, cr3, zombie>>

\* process_exit, by a return or a fault.
Exit(p) ==
    /\ started /\ life[p] = "live"
    /\ life' = [life EXCEPT ![p] = "ended"]
    /\ zombie' = p
    /\ UNCHANGED <<vars, frameVars, createVars, cr3, started>>

\* A spent budget: the scheduler drops the process without making it the zombie.
Expire(p) ==
    /\ started /\ life[p] = "live"
    /\ life' = [life EXCEPT ![p] = "ended"]
    /\ UNCHANGED <<vars, frameVars, createVars, cr3, zombie, started>>

Directory(d) == CHOOSE a \in allocated : a.block = d.dir

\* The pages below FreedPages that are mapped, with their frames.
Given(d) == {d.pages[i] : i \in {j \in Pages : j < FreedPages}} \ {NONE}

\* Mutation: free_vmm gives back the frames of the whole stack and clears one
\* entry.
FreeAllFrames(d) ==
    /\ bitmap' = bitmap \ {d.pages[i] : i \in Pages}
    /\ owned' = owned \ {d.pages[i] : i \in Pages}

\* free_vmm: each frame is handed to free_physical_frame.
free_vmm(d) ==
    /\ bitmap' = bitmap \ Given(d)
    /\ owned' = owned \ Given(d)

\* free_proc in the next tick.
Reap ==
    /\ zombie # NONE
    /\ free_vmm(cr3[zombie])
    /\ kfree(Directory(cr3[zombie]))
    /\ cr3' = [cr3 EXCEPT ![zombie].pages =
                 [i \in Pages |-> IF i < FreedPages THEN NONE ELSE @[i]]]
    /\ life' = [life EXCEPT ![zombie] = "reaped"]
    /\ zombie' = NONE
    /\ UNCHANGED <<booted, createVars, started>>

\* Buffers and disk streams of the keyboard handler, which a tick may find
\* allocated.
Streams == started /\ (Malloc \/ Free)
             /\ UNCHANGED <<frameVars, createVars, procVars>>

MemNext ==
    \/ BootMalloc /\ UNCHANGED <<frameVars, createVars, procVars>>
    \/ CreateStep
    \/ Start
    \/ \E p \in Slots : Exit(p) \/ Expire(p)
    \/ Reap
    \/ Streams

MemSpec == MemInit /\ [][MemNext]_memVars

-----------------------------------------------------------------------------

Directories ==
    [dir : Blocks \cup {NONE}, table : Blocks \cup {NONE},
     pages : [Pages -> Phys!Frames \cup {NONE}]]

MemTypeOK ==
    /\ TypeOK
    /\ bitmap \subseteq Phys!Frames /\ owned \subseteq Phys!Frames
    /\ step \in {"idle", "pointer", "frame", "set", "check"}
    /\ calls \in 0 .. MaxCreates /\ failed \in 0 .. calls
    /\ pd \in Directories
    /\ page \in 0 .. StackPages /\ phys \in Phys!Frames \cup {NONE}
    /\ life \in [Slots -> {"unused", "live", "ended", "reaped"}]
    /\ cr3 \in [Slots -> Directories]
    /\ zombie \in Slots \cup {NONE} /\ started \in BOOLEAN

With(l) == {p \in Slots : life[p] = l}

\* The directories in use: those of processes, and the one being built.
InUse == {cr3[p] : p \in With("live") \cup With("ended")}
           \cup (IF pd.dir = NONE THEN {} ELSE {pd})

Mapped(d) == {d.pages[i] : i \in Pages} \ {NONE}

\* Two processes never share a frame, a page table or a directory, and what a
\* directory refers to has not been given back: neither free_proc nor a
\* create_process that failed halfway takes memory from under another process.
Isolation ==
    /\ \A d \in InUse : Mapped(d) \subseteq owned \cap bitmap
    /\ \A d \in InUse : {d.dir, d.table} \ {NONE} \subseteq {a.block : a \in allocated}
    /\ \A d, e \in InUse : d # e =>
         /\ Mapped(d) \cap Mapped(e) = {}
         /\ {d.dir, d.table} \cap {e.dir, e.table} \subseteq {NONE}

\* A process that create_process hands out has its whole stack, although the
\* answers of paging_set are ignored and only the top page is looked at; and
\* there are as many processes as successful calls.
StackComplete ==
    /\ \A p \in With("live") : \A i \in Pages : cr3[p].pages[i] # NONE
    /\ step = "idle" =>
         Cardinality(Slots \ With("unused")) = calls - failed

Kept == {a \in allocated : a.kept}

\* What the processes cost: an ended process keeps its two pages and three
\* blocks until it is reaped, and then still a page, its page table and the
\* structure that pointed at its directory; a failed call keeps what it had.
MemoryAccount ==
    LET held   == Cardinality(With("live") \cup With("ended"))
        reaped == Cardinality(With("reaped"))
        lost   == failed + (IF step = "idle" THEN 0 ELSE 1)
        frames == StackPages * held + (StackPages - FreedPages) * reaped
        blocks == booted + 3 * held + 2 * reaped
    IN  /\ Cardinality(owned) \in frames .. frames + StackPages * lost
        /\ Cardinality(Kept) \in blocks .. blocks + 3 * lost
=============================================================================
