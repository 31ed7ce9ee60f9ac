------------------------------ MODULE LazyOS -------------------------------
(***************************************************************************)
(* The running kernel: kernel_main (kernel.c) on the boot thread, the      *)
(* processes it creates with their entry functions, the spinlock of        *)
(* process/spinlock.asm, the exit path of process/process.c step by step,  *)
(* exceptions, and the timer and keyboard interrupts of idt/idt.asm that   *)
(* may arrive between any two steps.                                       *)
(*                                                                         *)
(* Every interrupt stub ends `popad; mov al, 0x20; out 0x20, al; iret':    *)
(* the interrupted code gets its registers back except the low byte of     *)
(* eax.  eax is modelled wherever its value is still to be used.           *)
(***************************************************************************)
EXTENDS Scheduler, Exceptions

CONSTANTS Entries,        \* the entry functions kernel_main creates, in order
          Iterations,     \* rounds of the loops of proc_a_entry, proc_b_entry
          Faults          \* <<vector, error code>> an arbitrary entry may raise

\* "any" is a process with code of its own, which may compute for ever, return
\* from its entry function or fault; it does not use the lock.
Kinds == {"A", "B", "C", "any"}

ASSUME LazyOSAssumption ==
    /\ Entries \in Seq(Kinds)
    /\ Iterations \in [{"A", "B"} -> Nat \ {0}]
    /\ Faults \subseteq Vectors \X Nat

VARIABLES entry,               \* slot -> kind of entry function
          created,             \* create_process calls made by kernel_main
          pc,                  \* thread -> its next step
          eax,                 \* thread -> register, 0 when its value is dead
          iter,                \* loop counter i of the entry functions
          dying, next,         \* locals of process_exit
          shared_lock, shared_variable,
          raced                \* auxiliary: sections a tick has fallen into

vars == <<schedVars, entry, created, pc, eax, iter, dying, next,
          shared_lock, shared_variable, raced>>

\* process_exit once it has begun to change the globals.
ExitSection == {"exit_zombie", "exit_test", "exit_idle", "exit_kernel",
                "exit_pop", "exit_exec", "exit_switch"}

WaitSteps == {"mov", "xchg", "test"}

CriticalSection == {"unspin", "load", "add", "store", "sleep", "release"}

ProcessSteps == {"entry", "exit_mark", "dead"} \cup WaitSteps
                  \cup CriticalSection \cup ExitSection

KernelSteps == {"create", "start", "switch", "done", "dead"}

Init ==
    /\ SchedInit
    /\ entry = [p \in Slots |-> "any"]
    /\ created = 0
    /\ pc = [t \in Threads |-> IF t # KERNEL THEN "entry"
                               ELSE IF Entries = <<>> THEN "start" ELSE "create"]
    /\ eax = [t \in Threads |-> 0]
    /\ iter = [p \in Slots |-> 0]
    /\ dying = [p \in Slots |-> NULL] /\ next = [p \in Slots |-> NULL]
    /\ shared_lock = 0 /\ shared_variable = 0
    /\ raced = {}

\* The processor executes thread t, which is at step `from', and moves it on.
At(t, from) == cpu = t /\ pc[t] = from

Goto(t, to) == pc' = [pc EXCEPT ![t] = to]

-----------------------------------------------------------------------------
(* kernel_main on the boot thread, interrupts enabled.  While no process is *)
(* executing a tick changes nothing that create_process uses, so a call is  *)
(* one step.                                                                *)

AfterCreate == IF created + 1 = Len(Entries) THEN "start" ELSE "create"

KernelCreate ==
    /\ At(KERNEL, "create")
    /\ created' = created + 1
    /\ \E p \in Slots :
         /\ create_process(p)
         /\ entry' = [entry EXCEPT ![p] = Entries[created + 1]]
    /\ Goto(KERNEL, AfterCreate)
    /\ UNCHANGED <<eax, iter, dying, next, shared_lock, shared_variable,
                   raced>>

\* No unused slot, or no memory for the directory or the stack; kernel_main
\* ignores the NULL it gets.
KernelCreateFails ==
    /\ At(KERNEL, "create")
    /\ created' = created + 1
    /\ Goto(KERNEL, AfterCreate)
    /\ UNCHANGED <<schedVars, entry, eax, iter, dying, next, shared_lock,
                   shared_variable, raced>>

KernelStartNone ==
    /\ At(KERNEL, "start")
    /\ pq_is_empty(ready_queue)
    /\ Goto(KERNEL, "done")
    /\ UNCHANGED <<schedVars, entry, created, eax, iter, dying, next,
                   shared_lock, shared_variable, raced>>

KernelStart ==
    /\ At(KERNEL, "start")
    /\ ~pq_is_empty(ready_queue)
    /\ executing_process' = pq_peek(ready_queue)
    /\ ready_queue' = pq_pop(ready_queue, priority)
    /\ state' = [state EXCEPT ![executing_process'] = PROCESS_RUNNING]
    /\ Goto(KERNEL, "switch")
    /\ UNCHANGED <<priority, burst_time, spinning, sp, zombie, CR3, cpu, freed,
                   entry, created, eax, iter, dying, next, shared_lock,
                   shared_variable, raced>>

\* The argument is read from the global again.
KernelSwitch ==
    /\ At(KERNEL, "switch")
    /\ IF executing_process = NULL
       THEN cpu' = HALTED /\ UNCHANGED <<sp, CR3, state>>
       ELSE context_switch(KERNEL, executing_process, state)
    /\ Goto(KERNEL, "done")
    /\ UNCHANGED <<priority, burst_time, spinning, ready_queue,
                   executing_process, zombie, freed, entry, created, eax, iter,
                   dying, next, shared_lock, shared_variable, raced>>

KernelStep == KernelCreate \/ KernelCreateFails \/ KernelStartNone
                \/ KernelStart \/ KernelSwitch

-----------------------------------------------------------------------------
(* setLock and releaseLock, instruction by instruction.  The spinning flag  *)
(* is written through executing_process, not through the caller.            *)

SetSpinning(v) ==
    spinning' = IF executing_process = NULL THEN spinning
                ELSE [spinning EXCEPT ![executing_process] = v]

\* Fields of the scheduler other than the spinning flags.
UnchangedButSpinning ==
    UNCHANGED <<state, priority, burst_time, sp, ready_queue,
                executing_process, zombie, CR3, cpu, freed>>

LockBegin(p) ==
    /\ At(p, "entry") /\ entry[p] \in {"A", "B"}
    /\ SetSpinning(1) /\ UnchangedButSpinning
    /\ Goto(p, "mov")
    /\ UNCHANGED <<entry, created, eax, iter, dying, next, shared_lock,
                   shared_variable, raced>>

LockMov(p) ==
    /\ At(p, "mov")
    /\ eax' = [eax EXCEPT ![p] = 1]
    /\ Goto(p, "xchg")
    /\ UNCHANGED <<schedVars, entry, created, iter, dying, next, shared_lock,
                   shared_variable, raced>>

LockXchg(p) ==
    /\ At(p, "xchg")
    /\ eax' = [eax EXCEPT ![p] = shared_lock]
    /\ shared_lock' = eax[p]
    /\ Goto(p, "test")
    /\ UNCHANGED <<schedVars, entry, created, iter, dying, next,
                   shared_variable, raced>>

\* Mutation: the lock is taken unless the old value is exactly 1.
LockTestOne(p) ==
    /\ At(p, "test")
    /\ Goto(p, IF eax[p] # 1 THEN "unspin" ELSE "mov")
    /\ eax' = [eax EXCEPT ![p] = 0]
    /\ UNCHANGED <<schedVars, entry, created, iter, dying, next, shared_lock,
                   shared_variable, raced>>

LockTest(p) ==
    /\ At(p, "test")
    /\ Goto(p, IF eax[p] = 0 THEN "unspin" ELSE "mov")
    /\ eax' = [eax EXCEPT ![p] = 0]
    /\ UNCHANGED <<schedVars, entry, created, iter, dying, next, shared_lock,
                   shared_variable, raced>>

LockEnd(p) ==
    /\ At(p, "unspin")
    /\ SetSpinning(0) /\ UnchangedButSpinning
    /\ Goto(p, "load")
    /\ UNCHANGED <<entry, created, eax, iter, dying, next, shared_lock,
                   shared_variable, raced>>

\* releaseLock stores 0, and the entry function returns into process_exit.
Release(p) ==
    /\ At(p, "release")
    /\ shared_lock' = 0
    /\ Goto(p, "exit_mark")
    /\ UNCHANGED <<schedVars, entry, created, eax, iter, dying, next,
                   shared_variable, raced>>

(* The loops of proc_a_entry and proc_b_entry: shared_variable++ (or --) is *)
(* a load, an add and a store, and sleep is inside the lock.                *)

Load(p) ==
    /\ At(p, "load")
    /\ eax' = [eax EXCEPT ![p] = shared_variable]
    /\ Goto(p, "add")
    /\ UNCHANGED <<schedVars, entry, created, iter, dying, next, shared_lock,
                   shared_variable, raced>>

Add(p) ==
    /\ At(p, "add")
    /\ eax' = [eax EXCEPT ![p] = @ + (IF entry[p] = "A" THEN 1 ELSE -1)]
    /\ Goto(p, "store")
    /\ UNCHANGED <<schedVars, entry, created, iter, dying, next, shared_lock,
                   shared_variable, raced>>

Store(p) ==
    /\ At(p, "store")
    /\ shared_variable' = eax[p]
    /\ eax' = [eax EXCEPT ![p] = 0]
    /\ Goto(p, "sleep")
    /\ UNCHANGED <<schedVars, entry, created, iter, dying, next, shared_lock,
                   raced>>

Sleep(p) ==
    /\ At(p, "sleep") /\ entry[p] \in {"A", "B"}
    /\ iter' = [iter EXCEPT ![p] = @ + 1]
    /\ Goto(p, IF iter[p] + 1 < Iterations[entry[p]] THEN "load" ELSE "release")
    /\ UNCHANGED <<schedVars, entry, created, eax, dying, next, shared_lock,
                   shared_variable, raced>>

LockStep(p) ==
    LockBegin(p) \/ LockMov(p) \/ LockXchg(p) \/ LockTest(p) \/ LockEnd(p)
      \/ Release(p)

LoopStep(p) == Load(p) \/ Add(p) \/ Store(p) \/ Sleep(p)

-----------------------------------------------------------------------------
(* The end of a process.                                                    *)

\* An arbitrary entry function returns to the trampoline.
Return(p) ==
    /\ At(p, "entry") /\ entry[p] = "any"
    /\ Goto(p, "exit_mark")
    /\ UNCHANGED <<schedVars, entry, created, eax, iter, dying, next,
                   shared_lock, shared_variable, raced>>

\* An exception: proc_c_entry divides by zero, other code may raise any of
\* Faults.  The gate clears IF, so the handler runs to its end; it kills the
\* process (kill_proc) or executes cli; hlt.
Fault(p) ==
    /\ At(p, "entry")
    /\ \E f \in (CASE entry[p] = "C"   -> {<<0, 0>>}
                   [] entry[p] = "any" -> Faults
                   [] OTHER            -> {}) :
         IF Kills(f[1], f[2])
         THEN process_exit
         ELSE /\ cpu' = HALTED
              /\ UNCHANGED <<state, priority, burst_time, spinning, sp,
                             ready_queue, executing_process, zombie, CR3, freed>>
    /\ Goto(p, "dead")
    /\ UNCHANGED <<entry, created, eax, iter, dying, next, shared_lock,
                   shared_variable, raced>>

UnchangedByExit ==
    UNCHANGED <<priority, burst_time, spinning, freed, entry, created, eax,
                iter, shared_lock, shared_variable, raced>>

(* process_exit reached by a return: interrupts stay enabled.               *)

ExitMark(p) ==
    /\ At(p, "exit_mark")
    /\ dying' = [dying EXCEPT ![p] = executing_process]
    /\ state' = Terminated(executing_process)
    /\ Goto(p, "exit_zombie")
    /\ UnchangedByExit
    /\ UNCHANGED <<sp, ready_queue, executing_process, zombie, CR3, cpu, next>>

ExitZombie(p) ==
    /\ At(p, "exit_zombie")
    /\ zombie' = dying[p]
    /\ Goto(p, "exit_test")
    /\ UnchangedByExit
    /\ UNCHANGED <<state, sp, ready_queue, executing_process, CR3, cpu, dying,
                   next>>

ExitTest(p) ==
    /\ At(p, "exit_test")
    /\ Goto(p, IF pq_is_empty(ready_queue) THEN "exit_idle" ELSE "exit_pop")
    /\ UnchangedByExit
    /\ UNCHANGED <<state, sp, ready_queue, executing_process, zombie, CR3, cpu,
                   dying, next>>

ExitIdle(p) ==
    /\ At(p, "exit_idle")
    /\ executing_process' = NULL
    /\ Goto(p, "exit_kernel")
    /\ UnchangedByExit
    /\ UNCHANGED <<state, sp, ready_queue, zombie, CR3, cpu, dying, next>>

ExitKernel(p) ==
    /\ At(p, "exit_kernel")
    /\ context_switch(NULL, KERNEL, state)
    /\ Goto(p, "dead")
    /\ UnchangedByExit
    /\ UNCHANGED <<ready_queue, executing_process, zombie, dying, next>>

\* pq_pop answers NULL when a tick has emptied the queue since the test.
ExitPop(p) ==
    /\ At(p, "exit_pop")
    /\ IF pq_is_empty(ready_queue)
       THEN next' = [next EXCEPT ![p] = NULL] /\ UNCHANGED ready_queue
       ELSE /\ next' = [next EXCEPT ![p] = pq_peek(ready_queue)]
            /\ ready_queue' = pq_pop(ready_queue, priority)
    /\ Goto(p, "exit_exec")
    /\ UnchangedByExit
    /\ UNCHANGED <<state, sp, executing_process, zombie, CR3, cpu, dying>>

ExitExec(p) ==
    /\ At(p, "exit_exec")
    /\ state' = IF next[p] = NULL THEN state
                ELSE [state EXCEPT ![next[p]] = PROCESS_RUNNING]
    /\ executing_process' = next[p]
    /\ Goto(p, "exit_switch")
    /\ UnchangedByExit
    /\ UNCHANGED <<sp, ready_queue, zombie, CR3, cpu, dying, next>>

\* Switching to a NULL process loads esp from low memory.
ExitSwitch(p) ==
    /\ At(p, "exit_switch")
    /\ IF next[p] = NULL
       THEN cpu' = HALTED /\ UNCHANGED <<state, sp, CR3>>
       ELSE context_switch(dying[p], next[p], state)
    /\ Goto(p, "dead")
    /\ UnchangedByExit
    /\ UNCHANGED <<ready_queue, executing_process, zombie, dying, next>>

ExitStep(p) ==
    ExitMark(p) \/ ExitZombie(p) \/ ExitTest(p) \/ ExitIdle(p)
      \/ ExitKernel(p) \/ ExitPop(p) \/ ExitExec(p) \/ ExitSwitch(p)

-----------------------------------------------------------------------------
(* Interrupts.                                                              *)

Interruptible == cpu # HALTED /\ pc[cpu] # "dead"

\* The sections of kernel code that change the globals in several steps with
\* interrupts enabled: start_processes once a process is executing, and
\* process_exit.  raced remembers which of them a tick has fallen into; no
\* action reads it.
Section(step) ==
    IF step = "switch" THEN {"start"}
    ELSE IF step \in ExitSection THEN {"exit"} ELSE {}

EaxLive == {"xchg", "test", "add", "store"}

\* mov al, 0x20 in the stub that interrupts the running thread.
ClobberAl ==
    eax' = IF pc[cpu] \in EaxLive
           THEN [eax EXCEPT ![cpu] = @ - (@ % 256) + 32] ELSE eax

\* A tick the interrupted thread survives.
TickReturns ==
    /\ Interruptible
    /\ SchedulerIdle \/ SchedulerKeep \/ SchedulerPreempt
    /\ ClobberAl
    /\ raced' = raced \cup Section(pc[cpu])
    /\ UNCHANGED <<entry, created, pc, iter, dying, next, shared_lock,
                   shared_variable>>

\* A tick that ends the budget of the executing process: the running thread
\* is not saved anywhere.
TickExpires ==
    /\ Interruptible
    /\ SchedulerExpire
    /\ eax' = [eax EXCEPT ![cpu] = 0]
    /\ Goto(cpu, "dead")
    /\ raced' = raced \cup Section(pc[cpu])
    /\ UNCHANGED <<entry, created, iter, dying, next, shared_lock,
                   shared_variable>>

Tick == TickReturns \/ TickExpires

\* The keyboard handler touches no state of this module, but its stub returns
\* like every other.
KeyboardInterrupt ==
    /\ cpu # HALTED /\ pc[cpu] \in EaxLive
    /\ ClobberAl
    /\ UNCHANGED <<schedVars, entry, created, pc, iter, dying, next,
                   shared_lock, shared_variable, raced>>

ProcessStep(p) ==
    LockStep(p) \/ LoopStep(p) \/ Return(p) \/ Fault(p) \/ ExitStep(p)

CpuStep == KernelStep \/ \E p \in Slots : ProcessStep(p)

Next == CpuStep \/ Tick \/ KeyboardInterrupt

Spec == Init /\ [][Next]_vars

(* The timer is periodic, and the processor goes on executing the code of   *)
(* the kernel: its boot thread and the exit path.  Nothing is assumed of    *)
(* the entry functions.                                                     *)
Fairness ==
    /\ WF_vars(Tick)
    /\ WF_vars(KernelStep)
    /\ \A p \in Slots : WF_vars(ExitStep(p))

FairSpec == Spec /\ Fairness

-----------------------------------------------------------------------------

TypeOK ==
    /\ state \in [Threads -> 0 .. 3]
    /\ priority \in [Slots -> Nat]
    /\ burst_time \in [Slots -> Int]
    /\ spinning \in [Slots -> {0, 1}]
    /\ sp \in [Threads -> Threads \cup {NULL}]
    /\ ready_queue \in [data : [Cells -> Slots \cup {NULL}],
                        size : 0 .. MAX_PROCESSES]
    /\ executing_process \in Slots \cup {NULL}
    /\ zombie \in Slots \cup {NULL}
    /\ CR3 \in Threads
    /\ cpu \in Threads \cup {HALTED}
    /\ freed \in [Slots -> Nat]
    /\ entry \in [Slots -> Kinds]
    /\ created \in Nat
    /\ pc \in [Threads -> ProcessSteps \cup KernelSteps]
    /\ eax \in [Threads -> Int]
    /\ iter \in [Slots -> Nat]
    /\ dying \in [Slots -> Slots \cup {NULL}]
    /\ next \in [Slots -> Slots \cup {NULL}]
    /\ shared_lock \in Int
    /\ shared_variable \in Int
    /\ raced \subseteq {"start", "exit"}

\* p has taken the lock and not given it back: it is in its critical section,
\* or the exchange has just answered 0.
Holds(p) == pc[p] \in CriticalSection \/ (pc[p] = "test" /\ eax[p] = 0)

\* Two processes never hold the lock of spinlock.asm together, wherever timer
\* and keyboard interrupts fall, although each of them changes eax between the
\* exchange and the test.
MutualExclusion == \A p, r \in Slots : Holds(p) /\ Holds(r) => p = r

Exiting(p) == pc[p] \in ExitSection

\* A created process that has neither ended nor begun to.
Live(p) == state[p] # PROCESS_UNUSED /\ pc[p] # "dead" /\ ~Exiting(p)

Queue == Queued(ready_queue)

\* The ready queue holds each process at most once, never the executing one,
\* and only created processes that have not ended: preempting and exiting neither
\* duplicate a process nor bring a dead one back, wherever a tick falls.  A
\* process inside process_exit is in the queue only if a tick has fallen there.
ReadyQueueSound ==
    /\ \A i, j \in 0 .. ready_queue.size - 1 :
         ready_queue.data[i] = ready_queue.data[j] => i = j
    /\ \A p \in Queue :
         /\ p \in Slots /\ p # executing_process
         /\ state[p] # PROCESS_UNUSED /\ pc[p] # "dead"
         /\ Exiting(p) => "exit" \in raced

\* No live process is forgotten as long as no tick falls into start_processes or
\* process_exit: it is executing, queued, or held by an exit path that has
\* popped it and not yet dispatched it.
NoLostProcess ==
    raced = {} =>
        \A p \in Slots : Live(p) =>
            \/ p = executing_process
            \/ p \in Queue
            \/ \E r \in Slots : pc[r] = "exit_exec" /\ next[r] = p

\* Every thread outside process_exit runs as its own process, in its own address
\* space, wherever a tick falls.  The boot thread waits in its own block unless
\* a tick has fallen into start_processes, and the queued processes wait in
\* theirs unless one has fallen there or into process_exit.
OwnContext ==
    /\ cpu \in Slots /\ ~Exiting(cpu) => executing_process = cpu /\ CR3 = cpu
    /\ cpu \in Slots /\ "start" \notin raced => sp[KERNEL] = KERNEL
    /\ raced = {} => \A p \in Queue : sp[p] = p

\* A directory is handed back by free_proc once, and not while its process is the
\* zombie.  It is not loaded or about to be either, unless a tick has fallen into
\* process_exit: there it frees the directory the processor is using.
NoUseAfterFree ==
    \A p \in Slots : freed[p] > 0 =>
        /\ freed[p] = 1 /\ zombie # p
        /\ \/ "exit" \in raced
           \/ CR3 # p /\ executing_process # p /\ p \notin Queue

\* A preempted holder of the lock is the next process to run: the heap gives
\* back the process pushed last, so waiters spin for at most a slice before the
\* holder advances.
HolderNext ==
    \A p \in Slots : Holds(p) /\ p \in Queue => pq_peek(ready_queue) = p

\* A tick does not charge a process that waits in setLock.
WaitingNotCharged ==
    [][\A p \in Slots : pc[p] \in WaitSteps => burst_time'[p] = burst_time[p]]_vars

\* The life of a process as its control block, the queue and its thread show
\* it.  An exiting process has ended once process_exit has marked it.
LifeOf(p) ==
    CASE state[p] = PROCESS_UNUSED        -> "unused"
      [] pc[p] = "dead" \/ Exiting(p)     -> "exited"
      [] OTHER -> IF executing_process = p THEN "running" ELSE "ready"

Life == [p \in Slots |-> LifeOf(p)]

Lifecycle == INSTANCE ProcessLifecycle WITH Procs <- Slots, life <- Life

\* The process table, the queue, the stepwise exit path, exceptions and budget
\* expiry together implement the abstract life cycle of processes, up to the
\* first tick inside start_processes or process_exit.
ImplementsLifecycle ==
    Lifecycle!Init /\ [][Lifecycle!Next \/ raced' # {}]_Life

\* Once only self-contained processes are created, kernel_main gets the
\* processor back for good: every process returns, faults or spends its budget.
\* A tick inside start_processes or process_exit may stop the machine instead.
KernelRegainsControl ==
    <>[](\/ cpu = KERNEL /\ pc[KERNEL] = "done"
         \/ cpu = HALTED /\ raced # {})

\* A process that exits by returning is reclaimed by a later tick unless
\* another exit overwrites the zombie first, or the machine has stopped after a
\* tick inside start_processes or process_exit.
ZombieReaped ==
    \A p \in Slots :
        zombie = p ~> (\/ freed[p] = 1
                       \/ zombie \notin {p, NULL}
                       \/ cpu = HALTED /\ raced # {})
=============================================================================
