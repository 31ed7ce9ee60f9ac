----------------------------- MODULE Scheduler -----------------------------
(***************************************************************************)
(* The process table, context switch and scheduler of process/process.c    *)
(* and process/process.asm.                                                *)
(*                                                                         *)
(* A thread is a flow of control with a stack: one per process, and the    *)
(* boot thread that runs kernel_main.  A process control block does not    *)
(* contain a thread: its sp field points at a saved frame, and sp[b] says  *)
(* WHICH thread's continuation lies there (NULL: none was built, or it was *)
(* consumed by a popa/ret and the stack has been overwritten since).       *)
(* Saving into the wrong block and resuming a dead frame are thus visible. *)
(***************************************************************************)
EXTENDS PriorityQueue

CONSTANTS MAX_PROCS,     \* size of procs[]
          BURST_TIME,    \* CPU budget given by create_process
          TIME_SLICE     \* charged per tick: 1000 / PIT frequency

ASSUME SchedulerAssumption ==
    /\ MAX_PROCS \in Nat \ {0} /\ MAX_PROCS <= MAX_PROCESSES
    /\ BURST_TIME \in Nat \ {0} /\ TIME_SLICE \in Nat \ {0}

Slots   == 1 .. MAX_PROCS        \* &procs[p - 1]
KERNEL  == 0                     \* &kernel_proc, and the boot thread
NULL    == -1
HALTED  == -2                    \* no thread: hlt, or a destroyed frame was resumed
Threads == Slots \cup {KERNEL}

PROCESS_UNUSED     == 0
PROCESS_READY      == 1
PROCESS_RUNNING    == 2
PROCESS_TERMINATED == 3
ASM_PROCESS_RUNNING == 3         \* "PROCESS_RUNNING equ 3" in process.asm

VARIABLES state, priority, burst_time, spinning,   \* fields of the blocks
          sp,                 \* block -> thread whose frame it points at
          ready_queue, executing_process, zombie,  \* globals of process.c
          CR3,                \* block whose page directory is loaded
          cpu,                \* thread the processor executes
          freed               \* number of times free_proc was applied

schedVars == <<state, priority, burst_time, spinning, sp, ready_queue,
               executing_process, zombie, CR3, cpu, freed>>

SchedInit ==
    /\ state = [b \in Threads |-> IF b = KERNEL THEN PROCESS_READY
                                               ELSE PROCESS_UNUSED]
    /\ priority = [p \in Slots |-> 0]
    /\ burst_time = [p \in Slots |-> 0]
    /\ spinning = [p \in Slots |-> 0]
    /\ sp = [b \in Threads |-> NULL]
    /\ ready_queue = pq_init(NULL)
    /\ executing_process = NULL /\ zombie = NULL
    /\ CR3 = KERNEL /\ cpu = KERNEL
    /\ freed = [p \in Slots |-> 0]

-----------------------------------------------------------------------------

\* Save the running thread in curr unless it is NULL, then resume the frame of
\* nxt under its page directory.  st is the state table so far.
context_switch(curr, nxt, st) ==
    LET saved == IF curr = NULL THEN sp ELSE [sp EXCEPT ![curr] = cpu]
    IN  /\ cpu' = IF saved[nxt] = NULL THEN HALTED ELSE saved[nxt]
        /\ sp' = [saved EXCEPT ![nxt] = NULL]
        /\ CR3' = nxt
        /\ state' = [st EXCEPT ![nxt] = ASM_PROCESS_RUNNING]

\* Mutation: the process is looked up but not removed from the queue.
SwitchToPeeked(curr, q, st) ==
    LET nxt == pq_peek(q)
    IN  /\ executing_process' = nxt
        /\ ready_queue' = q
        /\ context_switch(curr, nxt, [st EXCEPT ![nxt] = PROCESS_RUNNING])

\* Run the best process of the queue q.
SwitchToNext(curr, q, st) ==
    LET nxt == pq_peek(q)
    IN  /\ executing_process' = nxt
        /\ ready_queue' = pq_pop(q, priority)
        /\ context_switch(curr, nxt, [st EXCEPT ![nxt] = PROCESS_RUNNING])

\* Mutation: the kernel's own block becomes the executing process.
SwitchToKernelBlock(st) ==
    /\ executing_process' = KERNEL
    /\ UNCHANGED ready_queue
    /\ context_switch(NULL, KERNEL, st)

SwitchToKernel(st) ==
    /\ executing_process' = NULL
    /\ UNCHANGED ready_queue
    /\ context_switch(NULL, KERNEL, st)

Terminated(p) ==
    IF p = NULL THEN state ELSE [state EXCEPT ![p] = PROCESS_TERMINATED]

\* process_exit when nothing can interrupt it (an exception gate clears IF).
process_exit ==
    /\ zombie' = executing_process
    /\ IF pq_is_empty(ready_queue)
       THEN SwitchToKernel(Terminated(executing_process))
       ELSE SwitchToNext(executing_process, ready_queue,
                         Terminated(executing_process))
    /\ UNCHANGED <<priority, burst_time, spinning, freed>>

Unused == {p \in Slots : state[p] = PROCESS_UNUSED}

\* p is the first unused slot; its stack is built so that the first switch
\* enters the entry function, with process_exit as its return address.
create_process(p) ==
    /\ p \in Unused /\ \A r \in Unused : p <= r
    /\ sp' = [sp EXCEPT ![p] = p]
    /\ state' = [state EXCEPT ![p] = PROCESS_READY]
    /\ priority' = [priority EXCEPT ![p] = 1]
    /\ burst_time' = [burst_time EXCEPT ![p] = BURST_TIME]
    /\ spinning' = [spinning EXCEPT ![p] = 0]
    /\ ready_queue' = pq_push(ready_queue, p, priority')
    /\ UNCHANGED <<executing_process, zombie, CR3, cpu, freed>>

-----------------------------------------------------------------------------
(* scheduler(time_slice), one definition per way through it.  Each begins   *)
(* by freeing the zombie.                                                   *)

\* Mutation: zombie is not reset.
FreeZombieAgain ==
    /\ UNCHANGED zombie
    /\ freed' = IF zombie = NULL THEN freed
                                 ELSE [freed EXCEPT ![zombie] = @ + 1]

free_zombie ==
    /\ zombie' = NULL
    /\ freed' = IF zombie = NULL THEN freed
                                 ELSE [freed EXCEPT ![zombie] = @ + 1]

\* Mutation: the spinning flag is not consulted.
RemainingCharged == burst_time[executing_process] - TIME_SLICE

\* Mutation: nothing is charged.
RemainingUncharged == burst_time[executing_process]

\* What is left to the executing process once the slice is charged.
Remaining ==
    IF spinning[executing_process] = 0
    THEN burst_time[executing_process] - TIME_SLICE
    ELSE burst_time[executing_process]

Charge ==
    /\ burst_time' = [burst_time EXCEPT ![executing_process] = Remaining]
    /\ UNCHANGED <<priority, spinning>>

\* Mutation: the test of executing_process comes before the zombie is freed.
SchedulerIdleKeepsZombie ==
    /\ executing_process = NULL
    /\ UNCHANGED schedVars

SchedulerIdle ==
    /\ executing_process = NULL
    /\ free_zombie
    /\ UNCHANGED <<state, priority, burst_time, spinning, sp, ready_queue,
                   executing_process, CR3, cpu>>

\* Mutation: a process whose budget is spent is queued again.
SchedulerExpireRequeues ==
    /\ executing_process # NULL /\ Remaining <= 0
    /\ free_zombie /\ Charge
    /\ IF pq_is_empty(ready_queue)
       THEN SwitchToKernel(Terminated(executing_process))
       ELSE SwitchToNext(NULL, pq_push(ready_queue, executing_process, priority),
                         Terminated(executing_process))

\* The budget is spent: the process is dropped without becoming the zombie.
SchedulerExpire ==
    /\ executing_process # NULL /\ Remaining <= 0
    /\ free_zombie /\ Charge
    /\ IF pq_is_empty(ready_queue)
       THEN SwitchToKernel(Terminated(executing_process))
       ELSE SwitchToNext(NULL, ready_queue, Terminated(executing_process))

SchedulerKeep ==
    /\ executing_process # NULL /\ Remaining > 0 /\ pq_is_empty(ready_queue)
    /\ free_zombie /\ Charge
    /\ UNCHANGED <<state, sp, ready_queue, executing_process, CR3, cpu>>

\* Mutation: the preempted process is not pushed.
SchedulerPreemptForgets ==
    /\ executing_process # NULL /\ Remaining > 0 /\ ~pq_is_empty(ready_queue)
    /\ free_zombie /\ Charge
    /\ SwitchToNext(executing_process, ready_queue,
                    [state EXCEPT ![executing_process] = PROCESS_READY])

\* Mutation: the preempted process is not saved.
SchedulerPreemptUnsaved ==
    /\ executing_process # NULL /\ Remaining > 0 /\ ~pq_is_empty(ready_queue)
    /\ free_zombie /\ Charge
    /\ SwitchToNext(NULL,
                    pq_push(ready_queue, executing_process, priority),
                    [state EXCEPT ![executing_process] = PROCESS_READY])

SchedulerPreempt ==
    /\ executing_process # NULL /\ Remaining > 0 /\ ~pq_is_empty(ready_queue)
    /\ free_zombie /\ Charge
    /\ SwitchToNext(executing_process,
                    pq_push(ready_queue, executing_process, priority),
                    [state EXCEPT ![executing_process] = PROCESS_READY])
=============================================================================
