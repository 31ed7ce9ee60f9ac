--------------------------- MODULE LazyOS_proofs ---------------------------
(***************************************************************************)
(* Theorems about LazyOS for every number of processes, every list of      *)
(* entry functions and every budget.                                       *)
(*                                                                         *)
(* A tick inside start_processes or process_exit breaks some of what the   *)
(* kernel keeps, so there are two inductive invariants.  SchedInv holds up *)
(* to the first such tick: no process is lost, every frame lies in its own *)
(* block, and the kernel implements ProcessLifecycle.  RaceInv holds       *)
(* wherever ticks fall: what the queue, the running thread, the frames and *)
(* the zombie keep even then.  The types and the exclusion of the spinlock *)
(* need neither.                                                           *)
(***************************************************************************)
EXTENDS LazyOS, FiniteSetTheorems, TLAPS

(* All queued processes have the priority that create_process gives, so the *)
(* bubbling loops of the heap stop at once and push and pop are             *)
(* straight-line code.                                                      *)
QueueOK(q, pr) ==
    /\ q \in [data : [Cells -> Slots \cup {NULL}], size : 0 .. MAX_PROCESSES]
    /\ \A i \in 0 .. q.size - 1 : q.data[i] \in Slots /\ pr[q.data[i]] = 1

\* With equal priorities pq_push appends.
LEMMA PushAppends ==
    ASSUME NEW q, NEW pr, QueueOK(q, pr), NEW p \in Slots, pr[p] = 1,
           q.size < MAX_PROCESSES
    PROVE  pq_push(q, p, pr)
             = [data |-> [q.data EXCEPT ![q.size] = p], size |-> q.size + 1]
<1> DEFINE d == [q.data EXCEPT ![q.size] = p]
<1>1. q.size \in Cells /\ q.data \in [Cells -> Slots \cup {NULL}]
  BY CapacityAssumption DEF QueueOK, Cells
<1>2. d[q.size] = p
  BY <1>1
<1>3. ~Rises(d, d[q.size], q.size, pr)
  <2>1. SUFFICES ASSUME q.size > 0
                 PROVE  ~(pr[p] > pr[d[Parent(q.size)]])
    BY <1>2 DEF Rises
  <2>2. Parent(q.size) \in 0 .. q.size - 1
    BY <2>1, <1>1, CapacityAssumption DEF Parent, Cells
  <2>3. pr[q.data[Parent(q.size)]] = 1
    BY <2>2 DEF QueueOK
  <2>4. d[Parent(q.size)] = q.data[Parent(q.size)]
    BY <2>2, <1>1, CapacityAssumption DEF Cells
  <2> QED
    BY <2>3, <2>4
<1>4. bubble_up(d, q.size, pr) = d
  BY <1>3 DEF bubble_up
<1> QED
  BY <1>4, <1>1, CapacityAssumption DEF pq_push, Cells

\* With equal priorities pq_pop moves the last process to the root.
LEMMA PopMovesLast ==
    ASSUME NEW q, NEW pr, QueueOK(q, pr), ~pq_is_empty(q)
    PROVE  pq_pop(q, pr)
             = [data |-> [q.data EXCEPT ![0] = q.data[q.size - 1]],
                size |-> q.size - 1]
<1> DEFINE n == q.size - 1
           d == [q.data EXCEPT ![0] = q.data[n]]
<1>1. /\ n \in 0 .. MAX_PROCESSES - 1 /\ n \in Cells /\ 0 \in Cells
      /\ q.data \in [Cells -> Slots \cup {NULL}]
  BY CapacityAssumption DEF QueueOK, Cells, pq_is_empty
<1>2. \A i \in 0 .. n : pr[q.data[i]] = 1
  BY DEF QueueOK
<1>3. \A i \in 0 .. n : pr[d[i]] = 1
  BY <1>1, <1>2, CapacityAssumption DEF Cells
<1>4. Largest(d, n, d[0], 0, pr) = 0
  <2>1. 1 < n => ~(pr[d[1]] > pr[d[0]])
    BY <1>1, <1>3
  <2>2. 2 < n => ~(pr[d[2]] > pr[d[0]])
    BY <1>1, <1>3
  <2> QED
    BY <2>1, <2>2, <1>1 DEF Largest
<1>5. bubble_down(d, n, 0, pr) = d
  BY <1>4 DEF bubble_down
<1> QED
  BY <1>5 DEF pq_pop

LEMMA PushOK ==
    ASSUME NEW q, NEW pr, QueueOK(q, pr), NEW p \in Slots, pr[p] = 1
    PROVE  QueueOK(pq_push(q, p, pr), pr) /\ ~pq_is_empty(pq_push(q, p, pr))
<1>1. CASE q.size >= MAX_PROCESSES
  BY <1>1, CapacityAssumption DEF pq_push, QueueOK, pq_is_empty
<1>2. CASE q.size < MAX_PROCESSES
  <2> DEFINE r == [data |-> [q.data EXCEPT ![q.size] = p], size |-> q.size + 1]
  <2>1. pq_push(q, p, pr) = r
    BY <1>2, PushAppends
  <2>2. q.size \in Nat /\ q.size \in Cells /\ q.data \in [Cells -> Slots \cup {NULL}]
    BY <1>2, CapacityAssumption DEF QueueOK, Cells
  <2>3. r \in [data : [Cells -> Slots \cup {NULL}], size : 0 .. MAX_PROCESSES]
    BY <2>2, <1>2, CapacityAssumption
  <2>4. \A i \in 0 .. r.size - 1 : r.data[i] \in Slots /\ pr[r.data[i]] = 1
    BY <2>2, <1>2, CapacityAssumption DEF QueueOK, Cells
  <2>5. r.size # 0
    BY <2>2
  <2> QED
    BY <2>1, <2>3, <2>4, <2>5 DEF QueueOK, pq_is_empty
<1> QED
  BY <1>1, <1>2, CapacityAssumption DEF QueueOK

LEMMA PopOK ==
    ASSUME NEW q, NEW pr, QueueOK(q, pr), ~pq_is_empty(q)
    PROVE  /\ QueueOK(pq_pop(q, pr), pr)
           /\ pq_peek(q) \in Slots /\ pr[pq_peek(q)] = 1
<1> DEFINE r == [data |-> [q.data EXCEPT ![0] = q.data[q.size - 1]],
                 size |-> q.size - 1]
<1>1. pq_pop(q, pr) = r
  BY PopMovesLast
<1>2. /\ q.size \in 1 .. MAX_PROCESSES
      /\ q.data \in [Cells -> Slots \cup {NULL}]
      /\ 0 \in Cells /\ q.size - 1 \in Cells
  BY CapacityAssumption DEF QueueOK, Cells, pq_is_empty
<1>3. \A i \in 0 .. q.size - 1 : q.data[i] \in Slots /\ pr[q.data[i]] = 1
  BY DEF QueueOK
<1>4. r \in [data : [Cells -> Slots \cup {NULL}], size : 0 .. MAX_PROCESSES]
  BY <1>2, CapacityAssumption
<1>5. \A i \in 0 .. r.size - 1 : r.data[i] \in Slots /\ pr[r.data[i]] = 1
  BY <1>2, <1>3, CapacityAssumption DEF Cells
<1>6. pq_peek(q) \in Slots /\ pr[pq_peek(q)] = 1
  BY <1>2, <1>3 DEF pq_peek
<1> QED
  BY <1>1, <1>4, <1>5, <1>6 DEF QueueOK

-----------------------------------------------------------------------------
(* Type correctness.  TypeOK is not inductive: a queued process must have   *)
(* priority 1 for the heap operations to be typed, the executing process    *)
(* and the one an exit path has popped are pushed later, and kernel_main    *)
(* must not run past the end of its list.                                   *)

Ready1(p) == p # NULL => priority[p] = 1

TypeInv ==
    /\ TypeOK
    /\ QueueOK(ready_queue, priority)
    /\ Ready1(executing_process)
    /\ \A p \in Slots : Ready1(next[p])
    /\ pc[KERNEL] = "create" => created + 1 <= Len(Entries)

LEMMA InitTypeInv == Init => TypeInv
<1> SUFFICES ASSUME Init PROVE TypeInv
  OBVIOUS
<1> USE DEF Init, SchedInit
<1>1. KERNEL \in Threads /\ NULL \notin Slots /\ KERNEL \notin Slots
  BY SchedulerAssumption DEF Threads, Slots, KERNEL, NULL
<1>2. Entries # <<>> => 1 <= Len(Entries)
  BY LazyOSAssumption
<1>3. ready_queue \in [data : [Cells -> Slots \cup {NULL}],
                       size : 0 .. MAX_PROCESSES]
  BY CapacityAssumption DEF pq_init
<1>4. QueueOK(ready_queue, priority)
  BY <1>3 DEF QueueOK, pq_init
<1>5. TypeOK
  BY <1>1, <1>3 DEF TypeOK, Threads, Kinds, ProcessSteps, KernelSteps,
       PROCESS_READY, PROCESS_UNUSED
<1>6. pc[KERNEL] = "create" => created + 1 <= Len(Entries)
  BY <1>1, <1>2
<1> QED
  BY <1>4, <1>5, <1>6 DEF TypeInv, Ready1

\* What a context switch to a block does to the typed variables.
LEMMA SwitchType ==
    ASSUME TypeOK, cpu \in Threads, NEW curr \in Threads \cup {NULL},
           NEW nxt \in Threads, NEW st \in [Threads -> 0 .. 3], context_switch(curr, nxt, st)
    PROVE  /\ cpu' \in Threads \cup {HALTED}
           /\ sp' \in [Threads -> Threads \cup {NULL}]
           /\ CR3' \in Threads
           /\ state' \in [Threads -> 0 .. 3]
BY DEF TypeOK, context_switch, ASM_PROCESS_RUNNING

\* The switches of process.c: what they do to the scheduler's variables.
SchedOut ==
    /\ cpu' \in Threads \cup {HALTED}
    /\ sp' \in [Threads -> Threads \cup {NULL}]
    /\ CR3' \in Threads
    /\ state' \in [Threads -> 0 .. 3]
    /\ QueueOK(ready_queue', priority)
    /\ executing_process' \in Slots \cup {NULL}
    /\ Ready1(executing_process')

LEMMA SwitchToNextType ==
    ASSUME TypeOK, cpu \in Threads, NEW curr \in Threads \cup {NULL},
           NEW q, QueueOK(q, priority), ~pq_is_empty(q),
           NEW st \in [Threads -> 0 .. 3], SwitchToNext(curr, q, st)
    PROVE  SchedOut
<1> DEFINE nxt == pq_peek(q)
           st1 == [st EXCEPT ![nxt] = PROCESS_RUNNING]
<1>1. nxt \in Slots /\ priority[nxt] = 1 /\ QueueOK(pq_pop(q, priority), priority)
  BY PopOK
<1>2. nxt \in Threads /\ st1 \in [Threads -> 0 .. 3]
  BY <1>1 DEF Threads, PROCESS_RUNNING
<1>3. context_switch(curr, nxt, st1) /\ executing_process' = nxt
      /\ ready_queue' = pq_pop(q, priority)
  BY DEF SwitchToNext
<1>4. /\ cpu' \in Threads \cup {HALTED}
      /\ sp' \in [Threads -> Threads \cup {NULL}]
      /\ CR3' \in Threads
      /\ state' \in [Threads -> 0 .. 3]
  BY <1>2, <1>3, SwitchType
<1> QED
  BY <1>1, <1>3, <1>4 DEF SchedOut, Ready1

LEMMA SwitchToKernelType ==
    ASSUME TypeOK, cpu \in Threads, QueueOK(ready_queue, priority),
           NEW st \in [Threads -> 0 .. 3], SwitchToKernel(st)
    PROVE  SchedOut
<1>1. KERNEL \in Threads
  BY DEF Threads
<1>2. context_switch(NULL, KERNEL, st) /\ executing_process' = NULL
      /\ ready_queue' = ready_queue
  BY DEF SwitchToKernel
<1>3. /\ cpu' \in Threads \cup {HALTED}
      /\ sp' \in [Threads -> Threads \cup {NULL}]
      /\ CR3' \in Threads
      /\ state' \in [Threads -> 0 .. 3]
  BY <1>1, <1>2, SwitchType
<1> QED
  BY <1>2, <1>3 DEF SchedOut, Ready1

LEMMA TerminatedType ==
    ASSUME TypeOK, NEW p \in Slots \cup {NULL}
    PROVE  Terminated(p) \in [Threads -> 0 .. 3]
<1>1. state \in [Threads -> 0 .. 3] /\ 3 \in 0 .. 3
  BY DEF TypeOK
<1>2. [state EXCEPT ![p] = 3] \in [Threads -> 0 .. 3]
  BY <1>1
<1> QED
  BY <1>1, <1>2 DEF Terminated, PROCESS_TERMINATED

LEMMA ProcessExitType ==
    ASSUME TypeInv, cpu \in Threads, process_exit
    PROVE  SchedOut /\ zombie' \in Slots \cup {NULL}
<1> DEFINE st == Terminated(executing_process)
<1>1. executing_process \in Slots \cup {NULL} /\ TypeOK
      /\ QueueOK(ready_queue, priority)
  BY DEF TypeInv, TypeOK
<1>2. st \in [Threads -> 0 .. 3] /\ executing_process \in Threads \cup {NULL}
  BY <1>1, TerminatedType DEF Threads
<1>3. CASE pq_is_empty(ready_queue)
  <2>1. SwitchToKernel(st)
    BY <1>3 DEF process_exit
  <2> QED
    BY <1>1, <1>2, <2>1, SwitchToKernelType DEF process_exit
<1>4. CASE ~pq_is_empty(ready_queue)
  <2>1. SwitchToNext(executing_process, ready_queue, st)
    BY <1>4 DEF process_exit
  <2> QED
    BY <1>1, <1>2, <1>4, <2>1, SwitchToNextType DEF process_exit
<1> QED
  BY <1>3, <1>4

LEMMA NextTypeInv == TypeInv /\ [Next]_vars => TypeInv'
<1> SUFFICES ASSUME TypeInv, [Next]_vars PROVE TypeInv'
  OBVIOUS
<1>0. /\ TypeOK /\ QueueOK(ready_queue, priority)
      /\ KERNEL \in Threads /\ Slots \subseteq Threads
      /\ NULL \notin Slots /\ KERNEL \notin Slots /\ NULL # KERNEL
      /\ HALTED \notin Threads
  BY SchedulerAssumption DEF TypeInv, Threads, Slots, KERNEL, NULL, HALTED
<1>1. CASE UNCHANGED vars
  BY <1>1 DEF TypeInv, TypeOK, Ready1, vars, schedVars
<1>2. CASE KernelCreate
  <2>1. PICK p \in Slots :
          create_process(p) /\ entry' = [entry EXCEPT ![p] = Entries[created + 1]]
    BY <1>2 DEF KernelCreate
  <2>2. Entries[created + 1] \in Kinds
    BY <1>2, LazyOSAssumption DEF KernelCreate, At, TypeInv, TypeOK
  <2>3. priority' \in [Slots -> Nat] /\ priority'[p] = 1
        /\ \A r \in Slots : priority[r] = 1 => priority'[r] = 1
    BY <1>0, <2>1 DEF create_process, TypeOK
  <2>4. QueueOK(ready_queue, priority')
    BY <2>3, <1>0 DEF QueueOK
  <2>5. QueueOK(ready_queue', priority')
    BY <2>1, <2>3, <2>4, PushOK DEF create_process
  <2>6. ready_queue' \in [data : [Cells -> Slots \cup {NULL}],
                          size : 0 .. MAX_PROCESSES]
    BY <2>5 DEF QueueOK
  <2>7. Ready1(executing_process)' /\ \A r \in Slots : Ready1(next[r])'
    BY <1>0, <1>2, <2>1, <2>3
       DEF TypeInv, TypeOK, Ready1, create_process, KernelCreate
  <2>8. /\ pc' \in [Threads -> ProcessSteps \cup KernelSteps]
        /\ pc'[KERNEL] = "create" => created' + 1 <= Len(Entries)
    <3>1. created \in Nat /\ Len(Entries) \in Nat /\ created' = created + 1
          /\ created + 1 <= Len(Entries)
      BY <1>2, LazyOSAssumption DEF KernelCreate, At, TypeInv, TypeOK
    <3>2. AfterCreate \in KernelSteps
      BY DEF AfterCreate, KernelSteps
    <3>3. pc' = [pc EXCEPT ![KERNEL] = AfterCreate]
      BY <1>2 DEF KernelCreate, Goto
    <3>4. AfterCreate = "create" => created' + 1 <= Len(Entries)
      BY <3>1 DEF AfterCreate
    <3> QED
      BY <1>0, <3>2, <3>3, <3>4 DEF TypeOK
  <2>9. TypeOK'
    <3>1. sp' \in [Threads -> Threads \cup {NULL}]
      BY <1>0, <2>1 DEF TypeOK, create_process
    <3>2. state' \in [Threads -> 0 .. 3]
      BY <1>0, <2>1 DEF TypeOK, create_process, PROCESS_READY
    <3>3. burst_time' \in [Slots -> Int] /\ spinning' \in [Slots -> {0, 1}]
      BY <1>0, <2>1, SchedulerAssumption DEF TypeOK, create_process
    <3>4. entry' \in [Slots -> Kinds] /\ created' \in Nat
      BY <1>0, <1>2, <2>1, <2>2 DEF TypeOK, KernelCreate
    <3> QED
      BY <1>0, <1>2, <2>1, <2>3, <2>6, <2>8, <3>1, <3>2, <3>3, <3>4
         DEF TypeOK, create_process, KernelCreate
  <2> QED
    BY <2>5, <2>7, <2>8, <2>9 DEF TypeInv
<1>3. CASE KernelCreateFails
  <2>1. created \in Nat /\ Len(Entries) \in Nat /\ created' = created + 1
        /\ created + 1 <= Len(Entries)
    BY <1>3, LazyOSAssumption DEF KernelCreateFails, At, TypeInv, TypeOK
  <2>2. AfterCreate \in KernelSteps
    BY DEF AfterCreate, KernelSteps
  <2>3. pc' = [pc EXCEPT ![KERNEL] = AfterCreate]
    BY <1>3 DEF KernelCreateFails, Goto
  <2>4. AfterCreate = "create" => created' + 1 <= Len(Entries)
    BY <2>1 DEF AfterCreate
  <2>5. /\ pc' \in [Threads -> ProcessSteps \cup KernelSteps]
        /\ pc'[KERNEL] = "create" => created' + 1 <= Len(Entries)
    BY <1>0, <2>2, <2>3, <2>4 DEF TypeOK
  <2> QED
    BY SMTT(30), <1>0, <1>3, <2>1, <2>5
       DEF KernelCreateFails, TypeInv, TypeOK, Ready1, schedVars
<1>4. CASE KernelStartNone
  BY <1>0, <1>4
     DEF KernelStartNone, At, Goto, TypeInv, TypeOK, Ready1, schedVars,
         KernelSteps
<1>5. CASE KernelStart
  <2>1. /\ QueueOK(ready_queue', priority') /\ executing_process' \in Slots
        /\ priority' = priority /\ priority'[executing_process'] = 1
    BY <1>0, <1>5, PopOK DEF KernelStart
  <2>2. ready_queue' \in [data : [Cells -> Slots \cup {NULL}],
                          size : 0 .. MAX_PROCESSES]
    BY <2>1 DEF QueueOK
  <2>3. state' \in [Threads -> 0 .. 3]
    BY <1>0, <1>5, <2>1 DEF KernelStart, TypeOK, PROCESS_RUNNING
  <2>4. pc' \in [Threads -> ProcessSteps \cup KernelSteps] /\ pc'[KERNEL] = "switch"
    BY <1>0, <1>5 DEF KernelStart, Goto, TypeOK, KernelSteps
  <2> QED
    BY <1>0, <1>5, <2>1, <2>2, <2>3, <2>4
       DEF KernelStart, TypeInv, TypeOK, Ready1
<1>6. CASE KernelSwitch
  <2>1. /\ cpu' \in Threads \cup {HALTED}
        /\ sp' \in [Threads -> Threads \cup {NULL}]
        /\ CR3' \in Threads
        /\ state' \in [Threads -> 0 .. 3]
    <3>1. CASE executing_process = NULL
      BY <1>0, <1>6, <3>1 DEF KernelSwitch, TypeOK
    <3>2. CASE executing_process # NULL
      <4>1. executing_process \in Threads /\ state \in [Threads -> 0 .. 3]
            /\ cpu \in Threads /\ context_switch(KERNEL, executing_process, state)
        BY <1>0, <1>6, <3>2 DEF KernelSwitch, TypeOK, At
      <4> QED
        BY <1>0, <4>1, SwitchType
    <3> QED
      BY <3>1, <3>2
  <2>2. pc' \in [Threads -> ProcessSteps \cup KernelSteps] /\ pc'[KERNEL] = "done"
    BY <1>0, <1>6 DEF KernelSwitch, Goto, TypeOK, KernelSteps
  <2> QED
    BY <1>0, <1>6, <2>1, <2>2 DEF KernelSwitch, TypeInv, TypeOK, Ready1
<1>7. ASSUME NEW p \in Slots, LockStep(p) \/ LoopStep(p) \/ Return(p)
      PROVE  TypeInv'
  <2>1. /\ pc' \in [Threads -> ProcessSteps \cup KernelSteps]
        /\ pc'[KERNEL] = pc[KERNEL] /\ created' = created
    BY <1>0, <1>7
       DEF LockStep, LoopStep, LockBegin, LockMov, LockXchg, LockTest, LockEnd,
           Release, Load, Add, Store, Sleep, Return, Goto, TypeOK,
           ProcessSteps, WaitSteps, CriticalSection
  <2>2. /\ eax' \in [Threads -> Int] /\ shared_lock' \in Int
        /\ shared_variable' \in Int /\ iter' \in [Slots -> Nat]
        /\ spinning' \in [Slots -> {0, 1}]
    BY <1>0, <1>7
       DEF LockStep, LoopStep, LockBegin, LockMov, LockXchg, LockTest, LockEnd,
           Release, Load, Add, Store, Sleep, Return, TypeOK, schedVars,
           SetSpinning
  <2>3. UNCHANGED <<state, priority, burst_time, sp, ready_queue,
                    executing_process, zombie, CR3, cpu, freed, entry, created,
                    dying, next, raced>>
    BY <1>7
       DEF LockStep, LoopStep, LockBegin, LockMov, LockXchg, LockTest, LockEnd,
           Release, Load, Add, Store, Sleep, Return, schedVars,
           UnchangedButSpinning
  <2> QED
    BY <1>0, <2>1, <2>2, <2>3 DEF TypeInv, TypeOK, Ready1
<1>8. ASSUME NEW p \in Slots, Fault(p)
      PROVE  TypeInv'
  <2>1. cpu \in Threads
    BY <1>0, <1>8 DEF Fault, At
  <2>2. /\ pc' \in [Threads -> ProcessSteps \cup KernelSteps]
        /\ pc'[KERNEL] = pc[KERNEL] /\ created' = created
    BY <1>0, <1>8 DEF Fault, Goto, TypeOK, ProcessSteps
  <2>3. \/ process_exit
        \/ /\ cpu' = HALTED
           /\ UNCHANGED <<state, priority, burst_time, spinning, sp,
                          ready_queue, executing_process, zombie, CR3, freed>>
    BY <1>8 DEF Fault
  <2>4. /\ SchedOut /\ zombie' \in Slots \cup {NULL}
        /\ UNCHANGED <<priority, burst_time, spinning, freed>>
    <3>1. CASE process_exit
      BY <2>1, <3>1, ProcessExitType DEF process_exit
    <3>2. CASE /\ cpu' = HALTED
               /\ UNCHANGED <<state, priority, burst_time, spinning, sp,
                     ready_queue, executing_process, zombie, CR3, freed>>
      BY <1>0, <3>2 DEF SchedOut, TypeInv, TypeOK, Ready1
    <3> QED
      BY <2>3, <3>1, <3>2
  <2>5. ready_queue' \in [data : [Cells -> Slots \cup {NULL}],
                          size : 0 .. MAX_PROCESSES]
    BY <2>4 DEF SchedOut, QueueOK
  <2> QED
    BY <1>0, <1>8, <2>2, <2>4, <2>5
       DEF Fault, SchedOut, TypeInv, TypeOK, Ready1
<1>9. ASSUME NEW p \in Slots, ExitStep(p)
      PROVE  TypeInv'
  <2>1. /\ pc' \in [Threads -> ProcessSteps \cup KernelSteps]
        /\ pc'[KERNEL] = pc[KERNEL]
    BY <1>0, <1>9
       DEF ExitStep, ExitMark, ExitZombie, ExitTest, ExitIdle, ExitKernel,
           ExitPop, ExitExec, ExitSwitch, Goto, TypeOK, ProcessSteps,
           ExitSection
  <2>2. UnchangedByExit /\ cpu \in Threads
    BY <1>0, <1>9
       DEF ExitStep, ExitMark, ExitZombie, ExitTest, ExitIdle, ExitKernel,
           ExitPop, ExitExec, ExitSwitch, At
  <2>3. ASSUME SchedOut, zombie' \in Slots \cup {NULL},
               dying' \in [Slots -> Slots \cup {NULL}],
               next' \in [Slots -> Slots \cup {NULL}],
               \A r \in Slots : next'[r] # NULL => priority[next'[r]] = 1
        PROVE  TypeInv'
    <3>1. ready_queue' \in [data : [Cells -> Slots \cup {NULL}],
                            size : 0 .. MAX_PROCESSES]
      BY <2>3 DEF SchedOut, QueueOK
    <3> QED
      BY <1>0, <2>1, <2>2, <2>3, <3>1
         DEF SchedOut, TypeInv, TypeOK, Ready1, UnchangedByExit
  <2>4. /\ dying \in [Slots -> Slots \cup {NULL}]
        /\ next \in [Slots -> Slots \cup {NULL}]
        /\ \A r \in Slots : next[r] # NULL => priority[next[r]] = 1
        /\ executing_process \in Slots \cup {NULL} /\ Ready1(executing_process)
        /\ state \in [Threads -> 0 .. 3]
    BY DEF TypeInv, TypeOK, Ready1
  <2>5. CASE ExitMark(p)
    <3>1. state' \in [Threads -> 0 .. 3]
      BY <1>0, <2>4, <2>5, TerminatedType DEF ExitMark
    <3>2. dying' \in [Slots -> Slots \cup {NULL}]
      BY <2>4, <2>5 DEF ExitMark
    <3> QED
      BY <1>0, <2>3, <2>4, <2>5, <3>1, <3>2
         DEF ExitMark, SchedOut, TypeOK, Ready1
  <2>6. CASE ExitZombie(p) \/ ExitTest(p)
    BY <1>0, <2>3, <2>4, <2>6 DEF ExitZombie, ExitTest, SchedOut, TypeOK, Ready1
  <2>7. CASE ExitIdle(p)
    BY <1>0, <2>3, <2>4, <2>7 DEF ExitIdle, SchedOut, TypeOK, Ready1
  <2>8. CASE ExitKernel(p)
    <3>1. /\ cpu' \in Threads \cup {HALTED}
          /\ sp' \in [Threads -> Threads \cup {NULL}]
          /\ CR3' \in Threads
          /\ state' \in [Threads -> 0 .. 3]
      BY <1>0, <2>2, <2>4, <2>8, SwitchType DEF ExitKernel
    <3> QED
      BY <1>0, <2>3, <2>4, <2>8, <3>1 DEF ExitKernel, SchedOut, TypeOK, Ready1
  <2>9. CASE ExitPop(p)
    <3>1. CASE pq_is_empty(ready_queue)
      BY <1>0, <2>3, <2>4, <2>9, <3>1 DEF ExitPop, SchedOut, TypeOK, Ready1
    <3>2. CASE ~pq_is_empty(ready_queue)
      <4>1. /\ pq_peek(ready_queue) \in Slots
            /\ priority[pq_peek(ready_queue)] = 1
            /\ QueueOK(pq_pop(ready_queue, priority), priority)
        BY <1>0, <3>2, PopOK
      <4> QED
        BY <1>0, <2>3, <2>4, <2>9, <3>2, <4>1
           DEF ExitPop, SchedOut, TypeOK, Ready1
    <3> QED
      BY <3>1, <3>2
  <2>10. CASE ExitExec(p)
    <3>1. state' \in [Threads -> 0 .. 3]
      BY <1>0, <2>4, <2>10 DEF ExitExec, PROCESS_RUNNING
    <3> QED
      BY <1>0, <2>3, <2>4, <2>10, <3>1 DEF ExitExec, SchedOut, TypeOK, Ready1
  <2>11. CASE ExitSwitch(p)
    <3>1. /\ cpu' \in Threads \cup {HALTED}
          /\ sp' \in [Threads -> Threads \cup {NULL}]
          /\ CR3' \in Threads
          /\ state' \in [Threads -> 0 .. 3]
      <4>1. CASE next[p] = NULL
        BY <1>0, <2>4, <2>11, <4>1 DEF ExitSwitch, TypeOK
      <4>2. CASE next[p] # NULL
        <5>1. next[p] \in Threads /\ dying[p] \in Threads \cup {NULL}
          BY <1>0, <2>4, <4>2
        <5> QED
          BY <1>0, <2>2, <2>4, <2>11, <4>2, <5>1, SwitchType DEF ExitSwitch
      <4> QED
        BY <4>1, <4>2
    <3> QED
      BY <1>0, <2>3, <2>4, <2>11, <3>1 DEF ExitSwitch, SchedOut, TypeOK, Ready1
  <2> QED
    BY <1>9, <2>5, <2>6, <2>7, <2>8, <2>9, <2>10, <2>11 DEF ExitStep
<1>10. CASE Tick
  <2>1. cpu \in Threads
    BY <1>0, <1>10 DEF Tick, TickReturns, TickExpires, Interruptible, TypeOK
  <2>2. /\ zombie' \in Slots \cup {NULL} /\ freed' \in [Slots -> Nat]
        /\ burst_time' \in [Slots -> Int]
        /\ UNCHANGED <<priority, spinning>>
    <3>1. /\ free_zombie
          /\ \/ UNCHANGED <<priority, burst_time, spinning>>
             \/ Charge /\ executing_process \in Slots
      BY <1>0, <1>10
         DEF Tick, TickReturns, TickExpires, SchedulerIdle, SchedulerKeep,
             SchedulerPreempt, SchedulerExpire, TypeOK
    <3>2. zombie' \in Slots \cup {NULL} /\ freed' \in [Slots -> Nat]
      BY <1>0, <3>1 DEF free_zombie, TypeOK
    <3>3. executing_process \in Slots => Remaining \in Int
      BY <1>0, SchedulerAssumption DEF Remaining, TypeOK
    <3> QED
      BY <1>0, <3>1, <3>2, <3>3 DEF Charge, TypeOK
  <2>3. /\ pc' \in [Threads -> ProcessSteps \cup KernelSteps]
        /\ pc'[KERNEL] = "create" => pc[KERNEL] = "create"
        /\ eax' \in [Threads -> Int]
        /\ UNCHANGED <<entry, created, iter, dying, next, shared_lock,
                       shared_variable>>
    BY <1>0, <1>10, <2>1
       DEF Tick, TickReturns, TickExpires, ClobberAl, Goto, TypeOK, KernelSteps
  <2>4. SchedOut
    <3>1. executing_process # NULL => executing_process \in Slots
                                      /\ priority[executing_process] = 1
      BY <1>0 DEF TypeInv, TypeOK, Ready1
    <3>2. CASE SchedulerIdle \/ SchedulerKeep
      BY <1>0, <3>2
         DEF SchedulerIdle, SchedulerKeep, SchedOut, TypeInv, TypeOK, Ready1
    <3>3. CASE SchedulerPreempt
      <4> DEFINE q  == pq_push(ready_queue, executing_process, priority)
                 st == [state EXCEPT ![executing_process] = PROCESS_READY]
      <4>1. executing_process \in Slots /\ SwitchToNext(executing_process, q, st)
        BY <3>1, <3>3 DEF SchedulerPreempt
      <4>2. QueueOK(q, priority) /\ ~pq_is_empty(q)
        BY <1>0, <3>1, <4>1, PushOK
      <4>3. st \in [Threads -> 0 .. 3] /\ executing_process \in Threads
        BY <1>0, <4>1 DEF TypeOK, PROCESS_READY
      <4> QED
        BY <1>0, <2>1, <4>1, <4>2, <4>3, SwitchToNextType
    <3>4. CASE SchedulerExpire
      <4> DEFINE st == Terminated(executing_process)
      <4>1. st \in [Threads -> 0 .. 3]
        BY <1>0, TerminatedType DEF TypeOK
      <4>2. CASE pq_is_empty(ready_queue)
        <5>1. SwitchToKernel(st)
          BY <3>4, <4>2 DEF SchedulerExpire
        <5> QED
          BY <1>0, <2>1, <4>1, <5>1, SwitchToKernelType
      <4>3. CASE ~pq_is_empty(ready_queue)
        <5>1. SwitchToNext(NULL, ready_queue, st)
          BY <3>4, <4>3 DEF SchedulerExpire
        <5> QED
          BY <1>0, <2>1, <4>1, <4>3, <5>1, SwitchToNextType
      <4> QED
        BY <4>2, <4>3
    <3> QED
      BY <1>10, <3>2, <3>3, <3>4 DEF Tick, TickReturns, TickExpires
  <2>5. ready_queue' \in [data : [Cells -> Slots \cup {NULL}],
                          size : 0 .. MAX_PROCESSES]
    BY <2>4 DEF SchedOut, QueueOK
  <2>6. raced' \subseteq {"start", "exit"}
    BY <1>0, <1>10 DEF Tick, TickReturns, TickExpires, Section, TypeOK
  <2> QED
    BY <1>0, <2>2, <2>3, <2>4, <2>5, <2>6 DEF SchedOut, TypeInv, TypeOK, Ready1
<1>11. CASE KeyboardInterrupt
  <2>1. eax' \in [Threads -> Int]
    BY <1>0, <1>11 DEF KeyboardInterrupt, ClobberAl, TypeOK
  <2> QED
    BY <1>0, <1>11, <2>1
       DEF KeyboardInterrupt, TypeInv, TypeOK, Ready1, schedVars
<1> QED
  BY <1>1, <1>2, <1>3, <1>4, <1>5, <1>6, <1>7, <1>8, <1>9, <1>10, <1>11
     DEF Next, CpuStep, KernelStep, ProcessStep

\* Type correctness of the whole kernel model: in particular sp never holds a
\* thread that does not exist and the ready queue never overruns its array.
THEOREM TypeCorrect == Spec => []TypeOK
<1>1. Init => TypeInv
  BY InitTypeInv
<1>2. TypeInv /\ [Next]_vars => TypeInv'
  BY NextTypeInv
<1>3. TypeInv => TypeOK
  BY DEF TypeInv
<1> QED
  BY <1>1, <1>2, <1>3, PTL DEF Spec

-----------------------------------------------------------------------------
(* Mutual exclusion.  It rests on two facts about values: the lock word is  *)
(* not 0 while somebody holds it, and what a waiter is about to exchange    *)
(* into it is not 0 either.  An interrupt may change both, since it rewrites*)
(* the low byte of eax, but it never produces a 0.                          *)

LockInv ==
    /\ MutualExclusion
    /\ \A p \in Slots : Holds(p) => shared_lock # 0
    /\ \A p \in Slots : pc[p] = "xchg" => eax[p] # 0

\* mov al, 0x20 leaves a non-zero eax.
LEMMA ClobberNotZero == \A v \in Int : v - (v % 256) + 32 # 0
OBVIOUS

LEMMA InitLockInv == Init => LockInv
<1> SUFFICES ASSUME Init PROVE LockInv
  OBVIOUS
<1>1. \A p \in Slots : pc[p] = "entry"
  BY SchedulerAssumption DEF Init, Threads, Slots, KERNEL
<1> QED
  BY <1>1 DEF LockInv, MutualExclusion, Holds, CriticalSection

\* A step that changes pc and eax of one thread at most, leaves that thread
\* without the lock and not about to exchange, and does not write the lock.
LEMMA StepAside ==
    ASSUME LockInv, NEW t \in Threads,
           shared_lock' = shared_lock,
           \A r \in Slots : r # t => pc'[r] = pc[r] /\ eax'[r] = eax[r],
           t \in Slots => ~Holds(t)' /\ pc'[t] # "xchg"
    PROVE  LockInv'
<1>1. \A r \in Slots : Holds(r)' => Holds(r) /\ r # t
  BY DEF Holds
<1>2. \A r \in Slots : pc'[r] = "xchg" => pc[r] = "xchg" /\ eax'[r] = eax[r]
  OBVIOUS
<1> QED
  BY <1>1, <1>2 DEF LockInv, MutualExclusion

\* A step of a holder inside its critical section.
LEMMA StepInside ==
    ASSUME LockInv, NEW t \in Slots, Holds(t),
           shared_lock' = shared_lock,
           \A r \in Slots : r # t => pc'[r] = pc[r] /\ eax'[r] = eax[r],
           pc'[t] \in CriticalSection
    PROVE  LockInv'
<1>1. \A r \in Slots : Holds(r)' => Holds(r)
  BY DEF Holds
<1>2. \A r \in Slots : pc'[r] = "xchg" => pc[r] = "xchg" /\ eax'[r] = eax[r]
  BY DEF CriticalSection
<1> QED
  BY <1>1, <1>2 DEF LockInv, MutualExclusion

LEMMA NextLockInv == TypeInv /\ LockInv /\ [Next]_vars => LockInv'
<1> SUFFICES ASSUME TypeInv, LockInv, [Next]_vars PROVE LockInv'
  OBVIOUS
<1>0. /\ pc \in [Threads -> ProcessSteps \cup KernelSteps]
      /\ eax \in [Threads -> Int] /\ shared_lock \in Int
      /\ KERNEL \in Threads /\ Slots \subseteq Threads /\ KERNEL \notin Slots
      /\ cpu \in Threads \cup {HALTED}
  BY SchedulerAssumption DEF TypeInv, TypeOK, Threads, Slots, KERNEL
<1>1. CASE UNCHANGED vars
  BY <1>1 DEF LockInv, MutualExclusion, Holds, vars
<1>2. CASE KernelStep
  <2>1. /\ shared_lock' = shared_lock
        /\ \A r \in Slots : pc'[r] = pc[r] /\ eax'[r] = eax[r]
    BY <1>0, <1>2
       DEF KernelStep, KernelCreate, KernelCreateFails, KernelStartNone,
           KernelStart, KernelSwitch, Goto
  <2> QED
    BY <1>0, <2>1, StepAside
<1>3. ASSUME NEW p \in Slots,
             LockBegin(p) \/ LockMov(p) \/ Return(p) \/ Fault(p) \/ ExitStep(p)
      PROVE  LockInv'
  <2>1. /\ shared_lock' = shared_lock
        /\ \A r \in Slots : r # p => pc'[r] = pc[r] /\ eax'[r] = eax[r]
    BY <1>0, <1>3
       DEF LockBegin, LockMov, Return, Fault, ExitStep, ExitMark, ExitZombie,
           ExitTest, ExitIdle, ExitKernel, ExitPop, ExitExec, ExitSwitch,
           UnchangedByExit, Goto
  <2>2. CASE LockMov(p)
    <3>1. pc'[p] = "xchg" /\ eax'[p] = 1
      BY <1>0, <2>2 DEF LockMov, Goto
    <3>2. \A r \in Slots : Holds(r)' => Holds(r)
      BY <2>1, <3>1 DEF Holds, CriticalSection
    <3> QED
      BY <2>1, <3>1, <3>2 DEF LockInv, MutualExclusion
  <2>3. CASE LockBegin(p) \/ Return(p) \/ Fault(p) \/ ExitStep(p)
    <3>1. pc'[p] \in {"mov", "dead", "exit_mark"} \cup ExitSection
      BY <1>0, <2>3
         DEF LockBegin, Return, Fault, ExitStep, ExitMark, ExitZombie,
             ExitTest, ExitIdle, ExitKernel, ExitPop, ExitExec, ExitSwitch,
             ExitSection, Goto
    <3>2. ~Holds(p)' /\ pc'[p] # "xchg"
      BY <3>1 DEF Holds, CriticalSection, ExitSection
    <3> QED
      BY <1>0, <2>1, <3>2, StepAside
  <2> QED
    BY <1>3, <2>2, <2>3
<1>4. ASSUME NEW p \in Slots, LockXchg(p)
      PROVE  LockInv'
  <2>1. /\ pc[p] = "xchg" /\ pc'[p] = "test"
        /\ eax'[p] = shared_lock /\ shared_lock' = eax[p]
        /\ \A r \in Slots : r # p => pc'[r] = pc[r] /\ eax'[r] = eax[r]
    BY <1>0, <1>4 DEF LockXchg, At, Goto
  <2>2. shared_lock' # 0
    BY <2>1 DEF LockInv
  <2>3. Holds(p)' => \A r \in Slots : ~Holds(r)
    BY <2>1 DEF Holds, LockInv, CriticalSection
  <2>4. \A r \in Slots : r # p /\ Holds(r)' => Holds(r)
    BY <2>1 DEF Holds
  <2>5. MutualExclusion'
    BY <2>3, <2>4 DEF LockInv, MutualExclusion
  <2> QED
    BY <2>1, <2>2, <2>5 DEF LockInv
<1>5. ASSUME NEW p \in Slots, LockTest(p)
      PROVE  LockInv'
  <2>1. /\ pc[p] = "test" /\ shared_lock' = shared_lock
        /\ pc'[p] = IF eax[p] = 0 THEN "unspin" ELSE "mov"
        /\ \A r \in Slots : r # p => pc'[r] = pc[r] /\ eax'[r] = eax[r]
    BY <1>0, <1>5 DEF LockTest, At, Goto
  <2>2. CASE eax[p] = 0
    BY <2>1, <2>2, StepInside DEF Holds, CriticalSection
  <2>3. CASE eax[p] # 0
    BY <1>0, <2>1, <2>3, StepAside DEF Holds, CriticalSection
  <2> QED
    BY <2>2, <2>3
<1>6. ASSUME NEW p \in Slots, LockEnd(p) \/ LoopStep(p)
      PROVE  LockInv'
  <2>1. /\ pc[p] \in CriticalSection /\ pc'[p] \in CriticalSection
        /\ shared_lock' = shared_lock
        /\ \A r \in Slots : r # p => pc'[r] = pc[r] /\ eax'[r] = eax[r]
    BY <1>0, <1>6
       DEF LockEnd, LoopStep, Load, Add, Store, Sleep, At, Goto,
           CriticalSection
  <2> QED
    BY <2>1, StepInside DEF Holds
<1>7. ASSUME NEW p \in Slots, Release(p)
      PROVE  LockInv'
  <2>1. /\ pc[p] = "release" /\ pc'[p] = "exit_mark"
        /\ \A r \in Slots : r # p => pc'[r] = pc[r] /\ eax'[r] = eax[r]
    BY <1>0, <1>7 DEF Release, At, Goto
  <2>2. \A r \in Slots : ~Holds(r)'
    BY <2>1 DEF LockInv, MutualExclusion, Holds, CriticalSection
  <2> QED
    BY <2>1, <2>2 DEF LockInv, MutualExclusion
<1>8. CASE TickReturns \/ KeyboardInterrupt
  <2>1. pc' = pc /\ shared_lock' = shared_lock /\ ClobberAl /\ cpu \in Threads
    BY <1>0, <1>8 DEF TickReturns, KeyboardInterrupt, Interruptible
  <2>2. \A r \in Slots : eax'[r] = eax[r] \/ eax'[r] # 0
    BY <1>0, <2>1, ClobberNotZero DEF ClobberAl
  <2>3. \A r \in Slots : Holds(r)' => Holds(r)
    BY <2>1, <2>2 DEF Holds
  <2> QED
    BY <2>1, <2>2, <2>3 DEF LockInv, MutualExclusion
<1>9. CASE TickExpires
  <2>1. PICK t \in Threads : t = cpu
    BY <1>0, <1>9 DEF TickExpires, Interruptible
  <2>2. /\ shared_lock' = shared_lock /\ pc'[t] = "dead"
        /\ \A r \in Slots : r # t => pc'[r] = pc[r] /\ eax'[r] = eax[r]
    BY <1>0, <1>9, <2>1 DEF TickExpires, Goto
  <2>3. ~Holds(t)' /\ pc'[t] # "xchg"
    BY <2>2 DEF Holds, CriticalSection
  <2> QED
    BY <2>2, <2>3, StepAside
<1> QED
  BY <1>1, <1>2, <1>3, <1>4, <1>5, <1>6, <1>7, <1>8, <1>9
     DEF Next, CpuStep, ProcessStep, LockStep, Tick

\* The spinlock excludes: at no time do two processes hold it, wherever the
\* timer or the keyboard interrupts setLock, releaseLock, the exit path or the
\* start of the first process.
THEOREM LockExcludes == Spec => []MutualExclusion
<1>1. Init => TypeInv /\ LockInv
  BY InitTypeInv, InitLockInv
<1>2. TypeInv /\ LockInv /\ [Next]_vars => (TypeInv /\ LockInv)'
  BY NextTypeInv, NextLockInv
<1>3. LockInv => MutualExclusion
  BY DEF LockInv
<1> QED
  BY <1>1, <1>2, <1>3, PTL DEF Spec

-----------------------------------------------------------------------------
(* The ready queue as a set.                                               *)

Distinct(q) == \A i, j \in 0 .. q.size - 1 : q.data[i] = q.data[j] => i = j

\* A queue without duplicates that lacks one slot is not full, so pq_push does
\* not drop the process it is given.
LEMMA RoomForMissing ==
    ASSUME NEW q, NEW pr, QueueOK(q, pr), Distinct(q),
           NEW p \in Slots, p \notin Queued(q)
    PROVE  q.size < MAX_PROCESSES
<1> SUFFICES ASSUME q.size >= MAX_PROCESSES PROVE FALSE
  BY CapacityAssumption DEF QueueOK
<1>1. q.size \in Nat /\ MAX_PROCS \in Nat /\ MAX_PROCS <= q.size /\ 1 <= MAX_PROCS
  BY CapacityAssumption, SchedulerAssumption DEF QueueOK
<1> DEFINE S == 0 .. q.size - 1
           T == Slots \ {p}
           f == [i \in S |-> q.data[i]]
<1>2. IsFiniteSet(S) /\ Cardinality(S) = q.size
  <2>1. 0 \in Int /\ q.size - 1 \in Int
    BY <1>1
  <2> HIDE DEF S
  <2>2. IsFiniteSet(0 .. q.size - 1)
        /\ Cardinality(0 .. q.size - 1)
             = IF 0 > q.size - 1 THEN 0 ELSE q.size - 1 - 0 + 1
    BY <2>1, FS_Interval
  <2> QED
    BY <1>1, <2>2 DEF S
<1>3. IsFiniteSet(Slots) /\ Cardinality(Slots) = MAX_PROCS
  <2>1. IsFiniteSet(1 .. MAX_PROCS)
        /\ Cardinality(1 .. MAX_PROCS)
             = IF 1 > MAX_PROCS THEN 0 ELSE MAX_PROCS - 1 + 1
    BY <1>1, FS_Interval
  <2> QED
    BY <1>1, <2>1 DEF Slots
<1>4. IsFiniteSet(T) /\ Cardinality(T) = MAX_PROCS - 1
  BY <1>3, FS_RemoveElement
<1>5. f \in [S -> T]
  BY DEF QueueOK, Queued
<1>6. Cardinality(T) < Cardinality(S)
  BY <1>1, <1>2, <1>4
<1> HIDE DEF S, T, f
<1>7. \E x, y \in S : x # y /\ f[x] = f[y]
  BY <1>2, <1>4, <1>5, <1>6, FS_PigeonHole
<1> QED
  BY <1>7 DEF S, f, Distinct

\* Pushing a process that is not queued adds it, at the end.
LEMMA PushSet ==
    ASSUME NEW q, NEW pr, QueueOK(q, pr), Distinct(q),
           NEW p \in Slots, p \notin Queued(q), pr[p] = 1
    PROVE  LET r == pq_push(q, p, pr)
           IN  /\ Queued(r) = Queued(q) \cup {p}
               /\ Distinct(r)
               /\ r.size = q.size + 1
               /\ r.data[q.size] = p
               /\ ~pq_is_empty(q) => pq_peek(r) = pq_peek(q)
<1> DEFINE r == [data |-> [q.data EXCEPT ![q.size] = p], size |-> q.size + 1]
<1>1. q.size < MAX_PROCESSES
  BY RoomForMissing
<1>2. pq_push(q, p, pr) = r
  BY <1>1, PushAppends
<1>3. /\ q.size \in Nat /\ q.size \in Cells
      /\ q.data \in [Cells -> Slots \cup {NULL}]
      /\ \A i \in 0 .. q.size - 1 : i \in Cells
  BY <1>1, CapacityAssumption DEF QueueOK, Cells
<1>4. /\ r.size = q.size + 1 /\ r.data[q.size] = p
      /\ \A i \in 0 .. q.size - 1 : r.data[i] = q.data[i]
  BY <1>3
<1>5. \A i \in 0 .. q.size - 1 : q.data[i] # p
  BY DEF Queued
<1> HIDE DEF r
<1>6. Queued(r) = Queued(q) \cup {p}
  BY <1>3, <1>4 DEF Queued
<1>7. Distinct(r)
  BY <1>3, <1>4, <1>5 DEF Distinct
<1>8. ~pq_is_empty(q) => pq_peek(r) = pq_peek(q)
  BY <1>3, <1>4 DEF pq_is_empty, pq_peek
<1> QED
  BY <1>2, <1>4, <1>6, <1>7, <1>8

\* Popping removes the root and nothing else, and brings the last process to
\* the root.
LEMMA PopSet ==
    ASSUME NEW q, NEW pr, QueueOK(q, pr), Distinct(q), ~pq_is_empty(q)
    PROVE  LET r == pq_pop(q, pr)
           IN  /\ Queued(r) = Queued(q) \ {pq_peek(q)}
               /\ pq_peek(q) \in Queued(q)
               /\ Distinct(r)
               /\ r.size = q.size - 1
               /\ pq_peek(r) = q.data[q.size - 1]
<1> DEFINE r == [data |-> [q.data EXCEPT ![0] = q.data[q.size - 1]],
                 size |-> q.size - 1]
<1>1. pq_pop(q, pr) = r
  BY PopMovesLast
<1>2. /\ q.size \in Nat \ {0} /\ 0 \in Cells
      /\ q.data \in [Cells -> Slots \cup {NULL}]
      /\ \A i \in 0 .. q.size - 1 : i \in Cells
  BY CapacityAssumption DEF QueueOK, Cells, pq_is_empty
<1>3. /\ r.size = q.size - 1 /\ r.data[0] = q.data[q.size - 1]
      /\ \A i \in 1 .. q.size - 2 : r.data[i] = q.data[i]
  BY <1>2
<1> HIDE DEF r
<1>4. Queued(q) \ {pq_peek(q)} = {q.data[i] : i \in 1 .. q.size - 1}
  <2>1. {q.data[i] : i \in 1 .. q.size - 1} \subseteq Queued(q) \ {pq_peek(q)}
    BY <1>2 DEF Queued, pq_peek, Distinct
  <2>2. Queued(q) \ {pq_peek(q)} \subseteq {q.data[i] : i \in 1 .. q.size - 1}
    BY <1>2 DEF Queued, pq_peek
  <2> QED
    BY <2>1, <2>2
<1>5. Queued(r) \subseteq {q.data[i] : i \in 1 .. q.size - 1}
  <2> SUFFICES ASSUME NEW i \in 0 .. r.size - 1
               PROVE  \E j \in 1 .. q.size - 1 : r.data[i] = q.data[j]
    BY DEF Queued
  <2>1. CASE i = 0
    BY <1>2, <1>3, <2>1
  <2>2. CASE i # 0
    BY <1>2, <1>3, <2>2
  <2> QED
    BY <2>1, <2>2
<1>6. {q.data[i] : i \in 1 .. q.size - 1} \subseteq Queued(r)
  <2> SUFFICES ASSUME NEW j \in 1 .. q.size - 1
               PROVE  \E i \in 0 .. r.size - 1 : r.data[i] = q.data[j]
    BY DEF Queued
  <2>1. CASE j = q.size - 1
    BY <1>2, <1>3, <2>1
  <2>2. CASE j # q.size - 1
    BY <1>2, <1>3, <2>2
  <2> QED
    BY <2>1, <2>2
<1>7. Distinct(r)
  <2> SUFFICES ASSUME NEW i \in 0 .. r.size - 1, NEW j \in 0 .. r.size - 1,
                      i < j, r.data[i] = r.data[j]
               PROVE  FALSE
    BY <1>2, <1>3 DEF Distinct
  <2>1. r.data[j] = q.data[j] /\ j \in 1 .. q.size - 2
    BY <1>2, <1>3
  <2>2. CASE i = 0
    BY <1>2, <1>3, <2>1, <2>2 DEF Distinct
  <2>3. CASE i # 0
    BY <1>2, <1>3, <2>1, <2>3 DEF Distinct
  <2> QED
    BY <2>2, <2>3
<1>8. pq_peek(q) \in Queued(q)
  BY <1>2 DEF Queued, pq_peek
<1> QED
  BY <1>1, <1>3, <1>4, <1>5, <1>6, <1>7, <1>8 DEF pq_peek

\* Preemption pushes and then pops: the old root leaves, the preempted process
\* takes its place.
LEMMA PreemptSet ==
    ASSUME NEW q, NEW pr, QueueOK(q, pr), Distinct(q), ~pq_is_empty(q),
           NEW p \in Slots, p \notin Queued(q), pr[p] = 1
    PROVE  LET s == pq_push(q, p, pr)
               r == pq_pop(s, pr)
           IN  /\ pq_peek(s) = pq_peek(q) /\ pq_peek(q) \in Queued(q)
               /\ Queued(r) = (Queued(q) \ {pq_peek(q)}) \cup {p}
               /\ Distinct(r)
               /\ pq_peek(r) = p
<1> DEFINE s == pq_push(q, p, pr)
           r == pq_pop(s, pr)
<1>1. QueueOK(s, pr) /\ ~pq_is_empty(s)
  BY PushOK
<1>2. /\ Queued(s) = Queued(q) \cup {p} /\ Distinct(s)
      /\ s.size = q.size + 1 /\ s.data[q.size] = p
      /\ pq_peek(s) = pq_peek(q)
  BY PushSet
<1> HIDE DEF s
<1>3. /\ Queued(r) = Queued(s) \ {pq_peek(s)}
      /\ Distinct(r)
      /\ pq_peek(r) = s.data[s.size - 1]
  BY <1>1, <1>2, PopSet
<1>4. pq_peek(q) \in Queued(q)
  BY PopSet
<1>5. q.size \in Nat
  BY DEF QueueOK
<1>6. s.size - 1 = q.size
  BY <1>2, <1>5
<1> HIDE DEF r
<1> QED
  BY <1>2, <1>3, <1>4, <1>6 DEF s, r

\* The facts about types that the steps below need.
LEMMA SchedTypes ==
    ASSUME TypeInv
    PROVE  /\ KERNEL \in Threads /\ KERNEL \notin Slots /\ NULL \notin Slots
           /\ NULL # KERNEL /\ HALTED \notin Threads /\ NULL \notin Threads
           /\ Slots \subseteq Threads /\ Threads = Slots \cup {KERNEL}
           /\ pc \in [Threads -> ProcessSteps \cup KernelSteps]
           /\ eax \in [Threads -> Int]
           /\ sp \in [Threads -> Threads \cup {NULL}]
           /\ state \in [Threads -> 0 .. 3]
           /\ freed \in [Slots -> Nat]
           /\ spinning \in [Slots -> {0, 1}]
           /\ next \in [Slots -> Slots \cup {NULL}]
           /\ dying \in [Slots -> Slots \cup {NULL}]
           /\ executing_process \in Slots \cup {NULL}
           /\ zombie \in Slots \cup {NULL}
           /\ cpu \in Threads \cup {HALTED}
           /\ QueueOK(ready_queue, priority)
<1>1. /\ KERNEL \in Threads /\ KERNEL \notin Slots /\ NULL \notin Slots
      /\ NULL # KERNEL /\ HALTED \notin Threads /\ NULL \notin Threads
      /\ Slots \subseteq Threads /\ Threads = Slots \cup {KERNEL}
  BY SchedulerAssumption DEF Threads, Slots, KERNEL, NULL, HALTED
<1> QED
  BY <1>1 DEF TypeInv, TypeOK

\* A process that waits for the lock is marked as spinning.
SpinInv == \A p \in Slots : pc[p] \in WaitSteps => spinning[p] = 1

-----------------------------------------------------------------------------
(* What holds up to the first tick inside start_processes or process_exit.  *)

\* p has been taken from the queue and its frame is not yet resumed.
Taken(p) == p \in Slots /\ Live(p) /\ sp[p] = p /\ p \notin Queue

\* The queue holds live processes that wait with their own frame.
QueueInv ==
    /\ Distinct(ready_queue)
    /\ \A p \in Queue :
         p \in Slots /\ Live(p) /\ sp[p] = p /\ p # executing_process

\* Nothing has happened to a slot that create_process has not used.
UnusedInv ==
    \A p \in Slots : state[p] = PROCESS_UNUSED =>
        pc[p] = "entry" /\ zombie # p /\ freed[p] = 0

\* kernel_main runs with no process executing, except between its choice of
\* the first process and the switch to it; until then no process has run.
KernelInv ==
    cpu = KERNEL =>
        /\ CR3 = KERNEL
        /\ pc[KERNEL] # "done" => \A p \in Slots : pc[p] = "entry"
        /\ pc[KERNEL] # "switch" => executing_process = NULL
        /\ pc[KERNEL] = "switch" => Taken(executing_process)

\* What the exit path of thread p knows at each of its steps.
ExitInv(p) ==
    /\ dying[p] = p
    /\ pc[p] \notin {"exit_kernel", "exit_switch"} => executing_process = p
    /\ pc[p] # "exit_zombie" => zombie = p
    /\ pc[p] \in {"exit_idle", "exit_kernel"} => pq_is_empty(ready_queue)
    /\ pc[p] = "exit_kernel" => executing_process = NULL
    /\ pc[p] = "exit_pop" => ~pq_is_empty(ready_queue)
    /\ pc[p] \in {"exit_exec", "exit_switch"} => Taken(next[p])
    /\ pc[p] = "exit_switch" => executing_process = next[p]

\* A process runs as itself, in its own address space, and kernel_main waits
\* in its own block.
ThreadInv ==
    cpu \in Slots =>
        /\ CR3 = cpu /\ sp[KERNEL] = KERNEL /\ pc[KERNEL] = "done"
        /\ state[cpu] # PROCESS_UNUSED /\ pc[cpu] # "dead" /\ cpu \notin Queue
        /\ ~Exiting(cpu) => executing_process = cpu
        /\ Exiting(cpu) => ExitInv(cpu)

\* The machine stops only in the exception handler of the executing process.
HaltInv ==
    cpu = HALTED =>
        /\ executing_process \in Slots /\ CR3 = executing_process
        /\ pc[executing_process] = "dead"
        /\ state[executing_process] # PROCESS_UNUSED
        /\ zombie # executing_process /\ freed[executing_process] = 0

\* Only the running thread is inside process_exit.
OneExit == \A p \in Slots : Exiting(p) => p = cpu

\* The zombie has ended and is not yet freed, and what is freed has ended.
ReapInv ==
    \A p \in Slots :
        /\ zombie = p => (pc[p] = "dead" \/ Exiting(p)) /\ freed[p] = 0
        /\ freed[p] > 0 => freed[p] = 1 /\ pc[p] = "dead"

\* A live process is executing, queued or about to be dispatched.
NoneLost ==
    \A p \in Slots : Live(p) =>
        \/ p = executing_process
        \/ p \in Queue
        \/ \E r \in Slots : pc[r] = "exit_exec" /\ next[r] = p

SchedInv ==
    /\ QueueInv /\ UnusedInv /\ KernelInv /\ ThreadInv /\ HaltInv
    /\ OneExit /\ ReapInv /\ SpinInv /\ NoneLost /\ HolderNext

LEMMA InitSchedInv == Init => SchedInv
<1> SUFFICES ASSUME Init PROVE SchedInv
  OBVIOUS
<1>1. /\ KERNEL \in Threads /\ KERNEL \notin Slots /\ NULL \notin Slots
      /\ HALTED # KERNEL /\ Slots \subseteq Threads
  BY SchedulerAssumption DEF Threads, Slots, KERNEL, NULL, HALTED
<1>2. /\ \A p \in Slots : pc[p] = "entry" /\ state[p] = PROCESS_UNUSED
                          /\ freed[p] = 0
      /\ cpu = KERNEL /\ CR3 = KERNEL /\ executing_process = NULL
      /\ zombie = NULL /\ pc[KERNEL] \in {"create", "start"}
      /\ ready_queue.size = 0
  BY <1>1 DEF Init, SchedInit, pq_init
<1>3. Queue = {}
  BY <1>2 DEF Queue, Queued
<1>4. QueueInv
  BY <1>2, <1>3 DEF QueueInv, Distinct
<1>5. KernelInv /\ ThreadInv /\ HaltInv
  BY <1>1, <1>2 DEF KernelInv, ThreadInv, HaltInv
<1>6. UnusedInv /\ OneExit /\ ReapInv /\ SpinInv
  BY <1>1, <1>2
     DEF UnusedInv, OneExit, Exiting, ExitSection, ReapInv, SpinInv, WaitSteps
<1>7. NoneLost /\ HolderNext
  BY <1>2, <1>3 DEF NoneLost, Live, HolderNext
<1> QED
  BY <1>4, <1>5, <1>6, <1>7 DEF SchedInv

\* A step that changes only the registers, the flags and the position of the
\* running thread, outside process_exit.
LEMMA QuietStep ==
    ASSUME TypeInv, SchedInv,
           UNCHANGED <<state, sp, ready_queue, executing_process, CR3, cpu,
                       dying, next>>,
           cpu = KERNEL \/ (cpu \in Slots /\ ~Exiting(cpu))
             \/ UNCHANGED <<zombie, freed>>,
           \A r \in Threads : r # cpu => pc'[r] = pc[r] /\ eax'[r] = eax[r],
           pc'[KERNEL] = pc[KERNEL],
           cpu \in Slots => /\ pc'[cpu] # "dead"
                            /\ state[cpu] # PROCESS_UNUSED
                            /\ ~Exiting(cpu) => ~Exiting(cpu)'
                            /\ Exiting(cpu) => pc'[cpu] = pc[cpu],
           SpinInv', UnusedInv', ReapInv'
    PROVE  SchedInv'
<1>0. /\ KERNEL \notin Slots /\ Slots \subseteq Threads /\ HALTED \notin Threads
      /\ Threads = Slots \cup {KERNEL}
      /\ cpu \in Threads \cup {HALTED}
  BY SchedTypes
<1>1. Queue' = Queue
  BY DEF Queue
<1>2. \A r \in Slots : Exiting(r)' <=> Exiting(r)
  BY <1>0 DEF Exiting, SchedInv, OneExit
<1>3. \A r \in Slots : Live(r)' <=> Live(r)
  <2>1. \A r \in Slots : pc'[r] = "dead" <=> pc[r] = "dead"
    BY <1>0 DEF SchedInv, ThreadInv
  <2> QED
    BY <1>2, <2>1 DEF Live
<1>4. \A r \in Slots : Taken(r)' <=> Taken(r)
  BY <1>1, <1>3 DEF Taken
<1>5. QueueInv'
  BY <1>1, <1>3 DEF SchedInv, QueueInv, Distinct
<1>7. KernelInv'
  BY <1>0, <1>1, <1>3 DEF SchedInv, KernelInv, Taken
<1>8. ThreadInv'
  <2> SUFFICES ASSUME cpu \in Slots
               PROVE  /\ ~Exiting(cpu)' => executing_process = cpu
                      /\ Exiting(cpu)' => ExitInv(cpu)'
    BY <1>1 DEF SchedInv, ThreadInv
  <2>1. ~Exiting(cpu)' => executing_process = cpu
    BY <1>2 DEF SchedInv, ThreadInv
  <2>2. Exiting(cpu)' => ExitInv(cpu)'
    BY <1>0, <1>1, <1>2, <1>3 DEF SchedInv, ThreadInv, ExitInv, Taken
  <2> QED
    BY <2>1, <2>2
<1>9. HaltInv'
  BY <1>0 DEF SchedInv, HaltInv
<1>10. OneExit'
  BY <1>2 DEF SchedInv, OneExit
<1>12. NoneLost'
  <2>1. \A r \in Slots : pc[r] = "exit_exec" => pc'[r] = pc[r]
    BY <1>0 DEF SchedInv, OneExit, Exiting, ExitSection
  <2> QED
    BY <1>1, <1>3, <2>1 DEF SchedInv, NoneLost
<1>13. HolderNext'
  <2>1. \A r \in Queue : r # cpu /\ r \in Slots
    BY DEF SchedInv, QueueInv, ThreadInv
  <2> QED
    BY <1>0, <1>1, <2>1 DEF SchedInv, HolderNext, Holds
<1> QED
  BY <1>5, <1>7, <1>8, <1>9, <1>10, <1>12, <1>13 DEF SchedInv

\* The processor passes from the running process p to the process n, which was
\* at the root of the queue or has been taken from it; p has ended or is back in
\* the queue, at the root.
LEMMA SwitchToProcess ==
    ASSUME TypeInv, SchedInv,
           NEW p \in Slots, cpu = p, NEW n \in Slots, n # p, Live(n),
           executing_process \in {p, n}, pc[p] # "exit_exec",
           cpu' = n, CR3' = n, executing_process' = n,
           sp'[KERNEL] = sp[KERNEL],
           \A r \in Slots : r # n /\ r # p => sp'[r] = sp[r],
           \A r \in Slots :
               state'[r] = PROCESS_UNUSED <=> state[r] = PROCESS_UNUSED,
           \A r \in Threads : r # p => pc'[r] = pc[r] /\ eax'[r] = eax[r],
           UNCHANGED spinning,
           Distinct(ready_queue'),
           Queue' \ {p} = Queue \ {n},
           n = pq_peek(ready_queue) \/ ready_queue' = ready_queue,
           \/ pc'[p] = "dead" /\ p \notin Queue'
           \/ /\ pc'[p] = pc[p] /\ ~Exiting(p)
              /\ p \in Queue' /\ sp'[p] = p /\ pq_peek(ready_queue') = p,
           UnusedInv', ReapInv'
    PROVE  SchedInv'
<1>0. /\ KERNEL \notin Slots /\ Slots \subseteq Threads /\ HALTED \notin Threads
      /\ Threads = Slots \cup {KERNEL} /\ n # HALTED /\ n # KERNEL
  BY SchedTypes
<1>1. \A r \in Slots : ~Exiting(r)'
  BY <1>0 DEF Exiting, ExitSection, SchedInv, OneExit
<1>2. \A r \in Slots : r # p => (Live(r)' <=> Live(r))
  BY <1>0, <1>1 DEF Live, SchedInv, OneExit
<1>3. \A r \in Queue' : r # p => r \in Queue /\ r # n
  OBVIOUS
<1>4. state[p] # PROCESS_UNUSED /\ pc[p] # "dead"
  BY DEF SchedInv, ThreadInv
<1>5. p \in Queue' => Live(p)'
  BY <1>1, <1>4 DEF Live
<1>6. QueueInv'
  <2> SUFFICES ASSUME NEW r \in Queue'
               PROVE  r \in Slots /\ Live(r)' /\ sp'[r] = r /\ r # n
    BY DEF QueueInv
  <2>1. CASE r = p
    BY <2>1, <1>5
  <2>2. CASE r # p
    BY <2>2, <1>2, <1>3 DEF SchedInv, QueueInv
  <2> QED
    BY <2>1, <2>2
<1>7. KernelInv' /\ HaltInv'
  BY <1>0 DEF KernelInv, HaltInv
<1>8. ThreadInv'
  <2>1. sp'[KERNEL] = KERNEL /\ pc'[KERNEL] = "done"
    BY <1>0 DEF SchedInv, ThreadInv
  <2>2. state'[n] # PROCESS_UNUSED /\ pc'[n] # "dead"
    BY <1>0 DEF Live
  <2>3. n \notin Queue'
    BY <1>3
  <2> QED
    BY <1>1, <2>1, <2>2, <2>3 DEF ThreadInv
<1>9. OneExit'
  BY <1>1 DEF OneExit
<1>10. SpinInv'
  BY <1>0 DEF SchedInv, SpinInv, WaitSteps
<1>11. NoneLost'
  <2> SUFFICES ASSUME NEW r \in Slots, Live(r)', r # n
               PROVE  r \in Queue'
    BY DEF NoneLost
  <2>1. CASE r = p
    BY <2>1 DEF Live
  <2>2. CASE r # p
    <3>1. Live(r)
      BY <1>2, <2>2
    <3>2. r # executing_process
      BY <2>2
    <3>3. ~ \E x \in Slots : pc[x] = "exit_exec" /\ next[x] = r
      BY DEF SchedInv, OneExit, Exiting, ExitSection
    <3> QED
      BY <2>2, <3>1, <3>2, <3>3 DEF SchedInv, NoneLost
  <2> QED
    BY <2>1, <2>2
<1>12. HolderNext'
  <2> SUFFICES ASSUME NEW r \in Slots, Holds(r)', r \in Queue'
               PROVE  pq_peek(ready_queue') = r
    BY DEF HolderNext
  <2>1. CASE r = p
    BY <2>1
  <2>2. CASE r # p
    BY <1>0, <1>3, <2>2 DEF SchedInv, HolderNext, Holds
  <2> QED
    BY <2>1, <2>2
<1> QED
  BY <1>6, <1>7, <1>8, <1>9, <1>10, <1>11, <1>12 DEF SchedInv

\* The last process ends and the processor goes back to kernel_main.
LEMMA SwitchToBoot ==
    ASSUME TypeInv, SchedInv,
           NEW p \in Slots, cpu = p, executing_process \in {p, NULL},
           pc[p] # "exit_exec", pq_is_empty(ready_queue),
           cpu' = KERNEL, CR3' = KERNEL, executing_process' = NULL,
           UNCHANGED <<ready_queue, spinning>>,
           \A r \in Threads : r # p => pc'[r] = pc[r],
           pc'[p] = "dead",
           \A r \in Slots :
               state'[r] = PROCESS_UNUSED <=> state[r] = PROCESS_UNUSED,
           UnusedInv', ReapInv'
    PROVE  SchedInv'
<1>0. /\ KERNEL \notin Slots /\ Slots \subseteq Threads /\ HALTED \notin Threads
      /\ Threads = Slots \cup {KERNEL} /\ KERNEL # HALTED /\ NULL \notin Slots
  BY SchedTypes
<1>1. Queue = {} /\ Queue' = {}
  BY DEF Queue, Queued, pq_is_empty
<1>2. \A r \in Slots : ~Exiting(r)'
  BY <1>0 DEF Exiting, ExitSection, SchedInv, OneExit
<1>3. QueueInv'
  BY <1>1 DEF SchedInv, QueueInv, Distinct
<1>4. pc'[KERNEL] = "done"
  BY <1>0 DEF SchedInv, ThreadInv
<1>5. KernelInv' /\ ThreadInv' /\ HaltInv'
  BY <1>0, <1>4 DEF KernelInv, ThreadInv, HaltInv
<1>6. OneExit' /\ SpinInv'
  BY <1>0, <1>2 DEF SchedInv, OneExit, SpinInv, WaitSteps
<1>7. NoneLost'
  <2>1. SUFFICES ASSUME NEW r \in Slots, Live(r)' PROVE FALSE
    BY DEF NoneLost
  <2>2. r # p /\ Live(r)
    BY <1>0, <2>1 DEF Live, SchedInv, OneExit
  <2>3. ~ \E x \in Slots : pc[x] = "exit_exec" /\ next[x] = r
    BY DEF SchedInv, OneExit, Exiting, ExitSection
  <2> QED
    BY <1>0, <1>1, <2>2, <2>3 DEF SchedInv, NoneLost
<1>8. HolderNext'
  BY <1>1 DEF HolderNext
<1> QED
  BY <1>3, <1>5, <1>6, <1>7, <1>8 DEF SchedInv

-----------------------------------------------------------------------------
(* kernel_main.                                                            *)

LEMMA KernelSchedInv ==
    ASSUME TypeInv, SchedInv, KernelStep
    PROVE  SchedInv'
<1>0. /\ KERNEL \in Threads /\ KERNEL \notin Slots /\ NULL \notin Slots
      /\ NULL # KERNEL /\ HALTED \notin Threads
      /\ Slots \subseteq Threads /\ Threads = Slots \cup {KERNEL}
      /\ pc \in [Threads -> ProcessSteps \cup KernelSteps]
      /\ sp \in [Threads -> Threads \cup {NULL}]
      /\ state \in [Threads -> 0 .. 3]
      /\ spinning \in [Slots -> {0, 1}]
      /\ QueueOK(ready_queue, priority)
  BY SchedTypes
<1>1. /\ cpu = KERNEL /\ CR3 = KERNEL /\ pc[KERNEL] # "done"
      /\ \A p \in Slots : pc[p] = "entry"
      /\ pc[KERNEL] # "switch" => executing_process = NULL
      /\ pc[KERNEL] = "switch" => Taken(executing_process)
  BY DEF KernelStep, KernelCreate, KernelCreateFails, KernelStartNone,
         KernelStart, KernelSwitch, At, SchedInv, KernelInv
<1>2. \A p \in Slots : pc'[p] = "entry" /\ ~Exiting(p) /\ ~Exiting(p)'
  BY <1>0, <1>1
     DEF KernelStep, KernelCreate, KernelCreateFails, KernelStartNone,
         KernelStart, KernelSwitch, Goto, Exiting, ExitSection
<1>3. \A p \in Slots : (Live(p) <=> state[p] # PROCESS_UNUSED)
                       /\ (Live(p)' <=> state'[p] # PROCESS_UNUSED)
  BY <1>1, <1>2 DEF Live
<1>4. zombie' = zombie /\ freed' = freed
  BY DEF KernelStep, KernelCreate, KernelCreateFails, KernelStartNone,
         KernelStart, KernelSwitch, create_process, schedVars
<1>5. OneExit' /\ SpinInv' /\ HolderNext'
  BY <1>2 DEF OneExit, SpinInv, WaitSteps, HolderNext, Holds, CriticalSection
<1>6. ReapInv'
  BY <1>1, <1>2, <1>4 DEF SchedInv, ReapInv
<1>7. UnusedInv'
  <2>1. \A p \in Slots : state'[p] = PROCESS_UNUSED => state[p] = PROCESS_UNUSED
    BY <1>0, <1>1
       DEF KernelStep, KernelCreate, KernelCreateFails, KernelStartNone,
           KernelStart, KernelSwitch, create_process, schedVars, context_switch,
           PROCESS_RUNNING, PROCESS_READY, ASM_PROCESS_RUNNING, PROCESS_UNUSED
  <2> QED
    BY <1>2, <1>4, <2>1 DEF SchedInv, UnusedInv
<1>8. NoneLost <=> \A p \in Slots : Live(p) => p = executing_process \/ p \in Queue
  BY <1>1 DEF NoneLost
<1>9. (\A p \in Slots : Live(p)' => p = executing_process' \/ p \in Queue')
        => NoneLost'
  BY DEF NoneLost
<1>10. CASE KernelCreate
  <2>1. PICK p \in Slots : create_process(p)
    BY <1>10 DEF KernelCreate
  <2>2. /\ cpu' = KERNEL /\ CR3' = KERNEL /\ executing_process' = NULL
        /\ pc'[KERNEL] # "done" /\ pc'[KERNEL] # "switch"
        /\ sp' = [sp EXCEPT ![p] = p]
        /\ state' = [state EXCEPT ![p] = PROCESS_READY]
        /\ state[p] = PROCESS_UNUSED
    BY <1>0, <1>1, <1>10, <2>1
       DEF KernelCreate, create_process, Unused, Goto, At, AfterCreate
  <2>3. p \notin Queue
    BY <1>3, <2>2 DEF SchedInv, QueueInv
  <2>4. QueueOK(ready_queue, priority') /\ priority'[p] = 1
    BY <1>0, <2>1 DEF create_process, QueueOK, TypeInv, TypeOK
  <2>5. Queue' = Queue \cup {p} /\ Distinct(ready_queue')
    <3>1. Distinct(ready_queue) /\ p \notin Queued(ready_queue)
      BY <2>3 DEF SchedInv, QueueInv, Queue
    <3>2. /\ Queued(pq_push(ready_queue, p, priority')) = Queued(ready_queue) \cup {p}
          /\ Distinct(pq_push(ready_queue, p, priority'))
      BY <2>4, <3>1, PushSet
    <3> QED
      BY <2>1, <3>2 DEF create_process, Queue
  <2>6. QueueInv'
    <3> SUFFICES ASSUME NEW r \in Queue'
                 PROVE  r \in Slots /\ Live(r)' /\ sp'[r] = r /\ r # NULL
      BY <2>2, <2>5 DEF QueueInv
    <3>1. CASE r = p
      BY <1>0, <1>3, <2>2, <3>1 DEF PROCESS_READY, PROCESS_UNUSED
    <3>2. CASE r # p
      BY <1>0, <1>3, <2>2, <2>5, <3>2 DEF SchedInv, QueueInv
    <3> QED
      BY <3>1, <3>2
  <2>7. NoneLost'
    <3>1. \A r \in Slots : r # p /\ Live(r)' => Live(r)
      BY <1>0, <1>3, <2>2
    <3>2. pc[KERNEL] # "switch"
      BY <1>10 DEF KernelCreate, At
    <3> QED
      BY <1>0, <1>1, <1>8, <1>9, <2>5, <3>1, <3>2 DEF SchedInv
  <2>8. KernelInv' /\ ThreadInv' /\ HaltInv'
    BY <1>0, <1>2, <2>2 DEF KernelInv, ThreadInv, HaltInv
  <2> QED
    BY <1>5, <1>6, <1>7, <2>6, <2>7, <2>8 DEF SchedInv
<1>11. CASE KernelCreateFails \/ KernelStartNone
  <2>1. /\ UNCHANGED schedVars /\ pc'[KERNEL] # "switch"
        /\ executing_process = NULL /\ pc[KERNEL] # "switch"
    BY <1>0, <1>1, <1>11
       DEF KernelCreateFails, KernelStartNone, AfterCreate, Goto, At
  <2>2. /\ Queue' = Queue /\ executing_process' = NULL /\ cpu' = KERNEL
        /\ CR3' = KERNEL /\ sp' = sp /\ state' = state
        /\ ready_queue' = ready_queue
    BY <1>1, <2>1 DEF schedVars, Queue
  <2>3. QueueInv'
    BY <1>3, <2>1, <2>2 DEF SchedInv, QueueInv
  <2>4. NoneLost'
    BY <1>3, <1>8, <1>9, <2>1, <2>2 DEF SchedInv
  <2>5. KernelInv' /\ ThreadInv' /\ HaltInv'
    BY <1>0, <1>2, <2>1, <2>2 DEF KernelInv, ThreadInv, HaltInv
  <2> QED
    BY <1>5, <1>6, <1>7, <2>3, <2>4, <2>5 DEF SchedInv
<1>12. CASE KernelStart
  <2>0. PICK n : n = pq_peek(ready_queue)
    OBVIOUS
  <2>1. /\ cpu' = KERNEL /\ CR3' = KERNEL /\ executing_process' = n
        /\ pc'[KERNEL] = "switch" /\ sp' = sp
        /\ state' = [state EXCEPT ![n] = PROCESS_RUNNING]
        /\ ready_queue' = pq_pop(ready_queue, priority)
        /\ ~pq_is_empty(ready_queue)
    BY <1>0, <1>1, <1>12, <2>0 DEF KernelStart, Goto
  <2>2. /\ Queue' = Queue \ {n} /\ n \in Queue /\ Distinct(ready_queue')
    BY <1>0, <2>0, <2>1, PopSet DEF Queue, SchedInv, QueueInv
  <2>3. \A r \in Slots : state'[r] = PROCESS_UNUSED <=> state[r] = PROCESS_UNUSED
    <3>1. n \in Slots /\ state[n] # PROCESS_UNUSED
      BY <2>2 DEF SchedInv, QueueInv, Live
    <3> QED
      BY <1>0, <2>1, <3>1 DEF PROCESS_UNUSED, PROCESS_RUNNING
  <2>4. QueueInv'
    BY <1>3, <2>1, <2>2, <2>3 DEF SchedInv, QueueInv
  <2>5. Taken(n)'
    BY <1>3, <2>1, <2>2, <2>3 DEF SchedInv, QueueInv, Taken
  <2>6. NoneLost'
    <3>1. executing_process = NULL
      BY <1>1, <1>12 DEF KernelStart, At
    <3> QED
      BY <1>0, <1>3, <1>8, <1>9, <2>1, <2>2, <2>3, <3>1 DEF SchedInv
  <2>7. KernelInv' /\ ThreadInv' /\ HaltInv'
    BY <1>0, <1>2, <2>1, <2>5 DEF KernelInv, ThreadInv, HaltInv, Taken
  <2> QED
    BY <1>5, <1>6, <1>7, <2>4, <2>6, <2>7 DEF SchedInv
<1>13. CASE KernelSwitch
  <2>0. PICK n : n = executing_process
    OBVIOUS
  <2>1. Taken(n)
    BY <1>1, <1>13, <2>0 DEF KernelSwitch, At
  <2>2. n \in Slots /\ n # NULL /\ n # KERNEL /\ n \in Threads
    BY <1>0, <2>1 DEF Taken
  <2>3. context_switch(KERNEL, n, state) /\ pc' = [pc EXCEPT ![KERNEL] = "done"]
        /\ executing_process' = n /\ ready_queue' = ready_queue
    BY <1>13, <2>0, <2>2 DEF KernelSwitch, Goto
  <2>4. /\ cpu' = n /\ CR3' = n /\ sp'[KERNEL] = KERNEL
        /\ \A r \in Slots : r # n => sp'[r] = sp[r]
        /\ state' = [state EXCEPT ![n] = ASM_PROCESS_RUNNING]
    BY <1>0, <1>1, <2>1, <2>2, <2>3 DEF context_switch, Taken
  <2>5. Queue' = Queue /\ n \notin Queue
    BY <2>1, <2>3 DEF Queue, Taken
  <2>6. \A r \in Slots : state'[r] = PROCESS_UNUSED <=> state[r] = PROCESS_UNUSED
    <3>1. state[n] # PROCESS_UNUSED
      BY <2>1 DEF Taken, Live
    <3> QED
      BY <1>0, <2>2, <2>4, <3>1 DEF PROCESS_UNUSED, ASM_PROCESS_RUNNING
  <2>7. QueueInv'
    BY <1>3, <2>0, <2>3, <2>4, <2>5, <2>6 DEF SchedInv, QueueInv
  <2>8. ThreadInv'
    <3>1. state'[n] # PROCESS_UNUSED /\ pc'[n] # "dead" /\ ~Exiting(n)'
      BY <1>2, <2>1, <2>2, <2>6 DEF Taken, Live
    <3> QED
      BY <1>0, <2>3, <2>4, <2>5, <3>1 DEF ThreadInv
  <2>9. NoneLost'
    BY <1>3, <1>8, <1>9, <2>0, <2>3, <2>5, <2>6 DEF SchedInv
  <2>10. KernelInv' /\ HaltInv'
    BY <1>0, <2>2, <2>4 DEF KernelInv, HaltInv
  <2> QED
    BY <1>5, <1>6, <1>7, <2>7, <2>8, <2>9, <2>10 DEF SchedInv
<1> QED
  BY <1>10, <1>11, <1>12, <1>13 DEF KernelStep

-----------------------------------------------------------------------------
(* Processes.                                                              *)

LEMMA CodeSchedInv ==
    ASSUME TypeInv, SchedInv, NEW p \in Slots,
           LockStep(p) \/ LoopStep(p) \/ Return(p)
    PROVE  SchedInv'
<1>0. /\ KERNEL \notin Slots /\ Slots \subseteq Threads
      /\ pc \in [Threads -> ProcessSteps \cup KernelSteps]
      /\ eax \in [Threads -> Int]
      /\ spinning \in [Slots -> {0, 1}]
      /\ NULL \notin Slots
  BY SchedTypes
<1>1. /\ cpu = p /\ pc[p] \notin ExitSection
      /\ pc'[p] \notin ExitSection \cup {"dead"}
  BY <1>0
     DEF LockStep, LoopStep, Return, LockBegin, LockMov, LockXchg, LockTest,
         LockEnd, Release, Load, Add, Store, Sleep, At, Goto, ExitSection
<1>2. /\ executing_process = p /\ state[p] # PROCESS_UNUSED /\ pc[p] # "dead"
      /\ ~Exiting(p) /\ ~Exiting(p)'
  BY <1>1 DEF SchedInv, ThreadInv, Exiting
<1>3. /\ UNCHANGED <<state, sp, ready_queue, executing_process, zombie, CR3,
                     cpu, freed, dying, next>>
      /\ \A r \in Threads : r # cpu => pc'[r] = pc[r] /\ eax'[r] = eax[r]
  BY <1>0, <1>1
     DEF LockStep, LoopStep, Return, LockBegin, LockMov, LockXchg, LockTest,
         LockEnd, Release, Load, Add, Store, Sleep, Goto, schedVars,
         UnchangedButSpinning
<1>4. pc'[KERNEL] = pc[KERNEL]
  BY <1>0, <1>1, <1>3 DEF Threads
<1>5. SpinInv'
  <2>1. CASE LockBegin(p)
    BY <1>0, <1>2, <2>1 DEF LockBegin, SetSpinning, Goto, SchedInv, SpinInv
  <2>2. CASE LockEnd(p)
    BY <1>0, <1>2, <2>2
       DEF LockEnd, SetSpinning, Goto, SchedInv, SpinInv, WaitSteps
  <2>3. CASE ~LockBegin(p) /\ ~LockEnd(p)
    <3>1. UNCHANGED spinning /\ (pc'[p] \in WaitSteps => pc[p] \in WaitSteps)
      BY <1>0, <2>3
         DEF LockStep, LoopStep, Return, LockMov, LockXchg, LockTest, Release,
             Load, Add, Store, Sleep, At, Goto, schedVars, WaitSteps
    <3> QED
      BY <1>0, <1>1, <1>3, <3>1 DEF SchedInv, SpinInv
  <2> QED
    BY <2>1, <2>2, <2>3
<1>6. UnusedInv' /\ ReapInv'
  <2>1. \A r \in Slots : r # p => pc'[r] = pc[r] /\ (Exiting(r)' <=> Exiting(r))
    BY <1>0, <1>1, <1>3 DEF Exiting
  <2>2. zombie # p /\ ~(freed[p] > 0)
    BY <1>0, <1>2 DEF SchedInv, ReapInv, ThreadInv
  <2> QED
    BY <1>2, <1>3, <2>1, <2>2 DEF SchedInv, UnusedInv, ReapInv
<1> QED
  BY <1>1, <1>2, <1>3, <1>4, <1>5, <1>6, QuietStep

\* What a switch from the ending process p to the process n, which waits with
\* its own frame, leaves behind.
LEMMA SwitchEffect ==
    ASSUME TypeInv, NEW p \in Slots, cpu = p, NEW n \in Slots, n # p, sp[n] = n,
           NEW curr \in {p, NULL}, NEW st \in [Threads -> 0 .. 3],
           context_switch(curr, n, st)
    PROVE  /\ cpu' = n /\ CR3' = n /\ sp'[KERNEL] = sp[KERNEL]
           /\ \A r \in Slots : r # n /\ r # p => sp'[r] = sp[r]
           /\ curr = p => sp'[p] = p
           /\ \A r \in Slots : r # n => state'[r] = st[r]
           /\ state'[n] # PROCESS_UNUSED
<1>0. /\ KERNEL \in Threads /\ KERNEL \notin Slots /\ NULL \notin Slots
      /\ Slots \subseteq Threads /\ sp \in [Threads -> Threads \cup {NULL}]
  BY SchedTypes
<1> DEFINE saved == IF curr = NULL THEN sp ELSE [sp EXCEPT ![curr] = cpu]
<1>1. /\ saved[n] = n /\ saved[KERNEL] = sp[KERNEL]
      /\ \A r \in Slots : r # p => saved[r] = sp[r]
      /\ curr = p => saved[p] = p
      /\ saved \in [Threads -> Threads \cup {NULL}]
  BY <1>0
<1>2. /\ cpu' = IF saved[n] = NULL THEN HALTED ELSE saved[n]
      /\ sp' = [saved EXCEPT ![n] = NULL]
      /\ CR3' = n /\ state' = [st EXCEPT ![n] = ASM_PROCESS_RUNNING]
  BY DEF context_switch
<1> HIDE DEF saved
<1>3. cpu' = n
  BY <1>0, <1>1, <1>2
<1>4. state'[n] # PROCESS_UNUSED /\ \A r \in Slots : r # n => state'[r] = st[r]
  BY <1>0, <1>2 DEF PROCESS_UNUSED, ASM_PROCESS_RUNNING
<1> QED
  BY <1>0, <1>1, <1>2, <1>3, <1>4

\* The switch back to kernel_main, whose frame its own block holds.
LEMMA BootEffect ==
    ASSUME TypeInv, sp[KERNEL] = KERNEL, NEW st \in [Threads -> 0 .. 3],
           context_switch(NULL, KERNEL, st)
    PROVE  /\ cpu' = KERNEL /\ CR3' = KERNEL
           /\ \A r \in Slots : state'[r] = st[r]
<1>0. /\ KERNEL \in Threads /\ KERNEL \notin Slots /\ NULL # KERNEL
      /\ Slots \subseteq Threads
  BY SchedTypes
<1> QED
  BY <1>0 DEF context_switch

\* Terminated marks p and no other block, and no block becomes unused.
LEMMA TerminatedEffect ==
    ASSUME TypeInv, NEW p \in Slots, state[p] # PROCESS_UNUSED
    PROVE  /\ Terminated(p) \in [Threads -> 0 .. 3]
           /\ \A r \in Slots :
                Terminated(p)[r] = PROCESS_UNUSED <=> state[r] = PROCESS_UNUSED
<1>0. /\ NULL \notin Slots /\ Slots \subseteq Threads
      /\ state \in [Threads -> 0 .. 3]
  BY SchedTypes
<1>1. Terminated(p) \in [Threads -> 0 .. 3]
  BY <1>0, TerminatedType DEF TypeInv
<1>2. Terminated(p) = [state EXCEPT ![p] = PROCESS_TERMINATED]
  BY <1>0 DEF Terminated
<1> QED
  BY <1>0, <1>1, <1>2 DEF PROCESS_UNUSED, PROCESS_TERMINATED

\* The running process p ends: the root of the queue or kernel_main takes over.
LEMMA EndSchedInv ==
    ASSUME TypeInv, SchedInv, NEW p \in Slots, cpu = p, ~Exiting(p),
           NEW curr \in {p, NULL},
           IF pq_is_empty(ready_queue)
           THEN SwitchToKernel(Terminated(p))
           ELSE SwitchToNext(curr, ready_queue, Terminated(p)),
           UNCHANGED spinning,
           \A r \in Threads : r # p => pc'[r] = pc[r] /\ eax'[r] = eax[r],
           pc'[p] = "dead",
           zombie' \in {p, NULL}, zombie' = p => freed' = freed,
           ReapInv', \A r \in Slots : state[r] = PROCESS_UNUSED => freed'[r] = 0
    PROVE  SchedInv'
<1>0. /\ KERNEL \in Threads /\ KERNEL \notin Slots /\ NULL \notin Slots
      /\ Slots \subseteq Threads /\ QueueOK(ready_queue, priority)
  BY SchedTypes
<1>1. /\ state[p] # PROCESS_UNUSED /\ executing_process = p
      /\ p \notin Queue /\ sp[KERNEL] = KERNEL
  BY DEF SchedInv, ThreadInv
<1> DEFINE st == Terminated(p)
<1>2. /\ st \in [Threads -> 0 .. 3]
      /\ \A r \in Slots : st[r] = PROCESS_UNUSED <=> state[r] = PROCESS_UNUSED
  BY <1>1, TerminatedEffect
<1> HIDE DEF st
<1>3. pc[p] # "exit_exec"
  BY DEF Exiting, ExitSection
<1>4. (\A r \in Slots : state'[r] = PROCESS_UNUSED => state[r] = PROCESS_UNUSED)
        => UnusedInv'
  BY <1>0, <1>1 DEF SchedInv, UnusedInv
<1>5. CASE pq_is_empty(ready_queue)
  <2>1. /\ context_switch(NULL, KERNEL, st) /\ executing_process' = NULL
        /\ UNCHANGED ready_queue
    BY <1>5 DEF SwitchToKernel, st
  <2>2. /\ cpu' = KERNEL /\ CR3' = KERNEL
        /\ \A r \in Slots : state'[r] = st[r]
    BY <1>1, <1>2, <2>1, BootEffect
  <2>3. \A r \in Slots : state'[r] = PROCESS_UNUSED <=> state[r] = PROCESS_UNUSED
    BY <1>2, <2>2
  <2> QED
    BY <1>1, <1>3, <1>4, <1>5, <2>1, <2>2, <2>3, SwitchToBoot
<1>6. CASE ~pq_is_empty(ready_queue)
  <2>0. PICK n : n = pq_peek(ready_queue)
    OBVIOUS
  <2> DEFINE st1 == [st EXCEPT ![n] = PROCESS_RUNNING]
  <2>1. /\ context_switch(curr, n, st1) /\ executing_process' = n
        /\ ready_queue' = pq_pop(ready_queue, priority)
    BY <1>6, <2>0 DEF SwitchToNext, st
  <2>2. /\ Queue' = Queue \ {n} /\ n \in Queue /\ Distinct(ready_queue')
    BY <1>0, <1>6, <2>0, <2>1, PopSet DEF Queue, SchedInv, QueueInv
  <2>3. n \in Slots /\ Live(n) /\ sp[n] = n /\ n # p
    BY <1>1, <2>2 DEF SchedInv, QueueInv
  <2>4. /\ st1 \in [Threads -> 0 .. 3]
        /\ \A r \in Slots : r # n => st1[r] = st[r]
    BY <1>0, <1>2, <2>3 DEF PROCESS_RUNNING
  <2> HIDE DEF st1
  <2>5. /\ cpu' = n /\ CR3' = n /\ sp'[KERNEL] = sp[KERNEL]
        /\ \A r \in Slots : r # n /\ r # p => sp'[r] = sp[r]
        /\ \A r \in Slots : r # n => state'[r] = st1[r]
        /\ state'[n] # PROCESS_UNUSED
    BY <2>1, <2>3, <2>4, SwitchEffect
  <2>6. \A r \in Slots : state'[r] = PROCESS_UNUSED <=> state[r] = PROCESS_UNUSED
    BY <1>2, <2>3, <2>4, <2>5 DEF Live
  <2>7. Queue' \ {p} = Queue \ {n} /\ p \notin Queue'
    BY <1>1, <2>2
  <2> QED
    BY <1>1, <1>3, <1>4, <2>0, <2>1, <2>2, <2>3, <2>5, <2>6, <2>7,
       SwitchToProcess
<1> QED
  BY <1>5, <1>6

LEMMA FaultSchedInv ==
    ASSUME TypeInv, SchedInv, NEW p \in Slots, Fault(p)
    PROVE  SchedInv'
<1>0. /\ KERNEL \in Threads /\ KERNEL \notin Slots /\ NULL \notin Slots
      /\ Slots \subseteq Threads /\ HALTED \notin Threads
      /\ Threads = Slots \cup {KERNEL}
      /\ pc \in [Threads -> ProcessSteps \cup KernelSteps]
      /\ freed \in [Slots -> Nat]
  BY SchedTypes
<1>1. /\ cpu = p /\ pc[p] = "entry" /\ pc' = [pc EXCEPT ![p] = "dead"]
      /\ eax' = eax
      /\ \/ process_exit
         \/ /\ cpu' = HALTED
            /\ UNCHANGED <<state, priority, burst_time, spinning, sp,
                          ready_queue, executing_process, zombie, CR3, freed>>
  BY DEF Fault, At, Goto
<1>2. /\ executing_process = p /\ ~Exiting(p) /\ state[p] # PROCESS_UNUSED
      /\ p \notin Queue /\ CR3 = p
  BY <1>1 DEF SchedInv, ThreadInv, Exiting, ExitSection
<1>3. /\ pc'[p] = "dead" /\ \A r \in Threads : r # p => pc'[r] = pc[r]
  BY <1>0, <1>1
<1>4. zombie # p /\ freed[p] = 0
  <2>1. zombie # p /\ ~(freed[p] > 0)
    BY <1>1, <1>2 DEF SchedInv, ReapInv
  <2> QED
    BY <1>0, <2>1
<1>5. CASE process_exit
  <2>1. zombie' = p /\ freed' = freed /\ spinning' = spinning
    BY <1>2, <1>5 DEF process_exit
  <2>2. ReapInv'
    BY <1>0, <1>3, <1>4, <2>1 DEF SchedInv, ReapInv
  <2>3. IF pq_is_empty(ready_queue)
        THEN SwitchToKernel(Terminated(p))
        ELSE SwitchToNext(p, ready_queue, Terminated(p))
    BY <1>2, <1>5 DEF process_exit
  <2>4. \A r \in Slots : state[r] = PROCESS_UNUSED => freed'[r] = 0
    BY <2>1 DEF SchedInv, UnusedInv
  <2> QED
    BY <1>1, <1>2, <1>3, <2>1, <2>2, <2>3, <2>4, EndSchedInv
<1>6. CASE /\ cpu' = HALTED
           /\ UNCHANGED <<state, priority, burst_time, spinning, sp,
                         ready_queue, executing_process, zombie, CR3, freed>>
  <2>1. Queue' = Queue
    BY <1>6 DEF Queue
  <2>2. \A r \in Slots : ~Exiting(r) /\ ~Exiting(r)'
    BY <1>0, <1>1, <1>2, <1>3 DEF SchedInv, OneExit, Exiting, ExitSection
  <2>3. \A r \in Slots : Live(r)' <=> Live(r) /\ r # p
    BY <1>0, <1>3, <1>6, <2>2 DEF Live
  <2>4. QueueInv'
    BY <1>2, <1>6, <2>1, <2>3 DEF SchedInv, QueueInv
  <2>5. UnusedInv'
    BY <1>0, <1>2, <1>3, <1>6 DEF SchedInv, UnusedInv
  <2>6. KernelInv' /\ ThreadInv' /\ HaltInv'
    BY <1>0, <1>2, <1>3, <1>4, <1>6 DEF KernelInv, ThreadInv, HaltInv
  <2>7. OneExit'
    BY <2>2 DEF OneExit
  <2>8. ReapInv'
    BY <1>0, <1>3, <1>4, <1>6, <2>2 DEF SchedInv, ReapInv
  <2>9. SpinInv'
    BY <1>0, <1>3, <1>6 DEF SchedInv, SpinInv, WaitSteps
  <2>10. NoneLost'
    <3>1. \A r \in Slots : pc[r] # "exit_exec"
      BY <2>2 DEF Exiting, ExitSection
    <3> QED
      BY <1>6, <2>1, <2>3, <3>1 DEF SchedInv, NoneLost
  <2>11. HolderNext'
    BY <1>0, <1>1, <1>3, <1>6, <2>1
       DEF SchedInv, HolderNext, Holds, CriticalSection
  <2> QED
    BY <2>4, <2>5, <2>6, <2>7, <2>8, <2>9, <2>10, <2>11 DEF SchedInv
<1> QED
  BY <1>1, <1>5, <1>6

\* A step of process_exit that stays inside it.
LEMMA ExitInside ==
    ASSUME TypeInv, SchedInv, NEW p \in Slots, cpu = p,
           UNCHANGED <<sp, CR3, cpu, freed, spinning, eax>>,
           \A r \in Threads : r # p => pc'[r] = pc[r],
           pc'[p] \in ExitSection,
           \A r \in Slots :
               state'[r] = PROCESS_UNUSED <=> state[r] = PROCESS_UNUSED,
           zombie' \in {zombie, p},
           QueueInv', p \notin Queue', ExitInv(p)', NoneLost', HolderNext'
    PROVE  SchedInv'
<1>0. /\ KERNEL \in Threads /\ KERNEL \notin Slots
      /\ Slots \subseteq Threads /\ HALTED \notin Threads
      /\ freed \in [Slots -> Nat]
  BY SchedTypes
<1>1. state[p] # PROCESS_UNUSED /\ pc[p] # "dead"
  BY DEF SchedInv, ThreadInv
<1>2. Exiting(p)' /\ pc'[p] # "dead"
  BY DEF Exiting, ExitSection
<1>3. \A r \in Slots : r # p => pc'[r] = pc[r] /\ (Exiting(r)' <=> Exiting(r))
  BY <1>0 DEF Exiting
<1>4. UnusedInv'
  BY <1>1, <1>3 DEF SchedInv, UnusedInv
<1>5. KernelInv' /\ HaltInv'
  BY <1>0 DEF KernelInv, HaltInv
<1>6. ThreadInv'
  <2>1. CR3 = p /\ sp[KERNEL] = KERNEL /\ pc'[KERNEL] = "done"
    BY <1>0 DEF SchedInv, ThreadInv
  <2> QED
    BY <1>1, <1>2, <2>1 DEF ThreadInv
<1>7. OneExit'
  BY <1>3 DEF SchedInv, OneExit
<1>8. ReapInv'
  <2>1. freed[p] = 0
    BY <1>0, <1>1 DEF SchedInv, ReapInv
  <2> QED
    BY <1>2, <1>3, <2>1 DEF SchedInv, ReapInv
<1>9. SpinInv'
  BY <1>3 DEF SchedInv, SpinInv, WaitSteps, ExitSection
<1> QED
  BY <1>4, <1>5, <1>6, <1>7, <1>8, <1>9 DEF SchedInv

LEMMA ExitSchedInv ==
    ASSUME TypeInv, SchedInv, NEW p \in Slots, ExitStep(p)
    PROVE  SchedInv'
<1>0. /\ KERNEL \in Threads /\ KERNEL \notin Slots /\ NULL \notin Slots
      /\ Slots \subseteq Threads /\ HALTED \notin Threads
      /\ Threads = Slots \cup {KERNEL}
      /\ pc \in [Threads -> ProcessSteps \cup KernelSteps]
      /\ state \in [Threads -> 0 .. 3]
      /\ dying \in [Slots -> Slots \cup {NULL}]
      /\ next \in [Slots -> Slots \cup {NULL}]
      /\ QueueOK(ready_queue, priority)
  BY SchedTypes
<1>1. /\ cpu = p /\ pc[p] \in {"exit_mark"} \cup ExitSection
      /\ UnchangedByExit
  BY DEF ExitStep, ExitMark, ExitZombie, ExitTest, ExitIdle, ExitKernel,
         ExitPop, ExitExec, ExitSwitch, At, ExitSection
<1>2. /\ freed' = freed /\ spinning' = spinning /\ eax' = eax
      /\ priority' = priority
  BY <1>1 DEF UnchangedByExit
<1>3. /\ state[p] # PROCESS_UNUSED /\ p \notin Queue
      /\ sp[KERNEL] = KERNEL /\ CR3 = p
      /\ pc[p] = "exit_mark" => executing_process = p
      /\ pc[p] # "exit_mark" => ExitInv(p)
  BY <1>1 DEF SchedInv, ThreadInv, Exiting, ExitSection
<1>4. \A r \in Slots : r # p => ~Exiting(r) /\ pc[r] # "exit_exec"
  BY <1>1 DEF SchedInv, OneExit, Exiting, ExitSection
<1>5. \A r \in Threads : r # p => pc'[r] = pc[r]
  BY <1>0
     DEF ExitStep, ExitMark, ExitZombie, ExitTest, ExitIdle, ExitKernel,
         ExitPop, ExitExec, ExitSwitch, Goto
<1>6. \A r \in Slots : r # p /\ state'[r] = state[r] => (Live(r)' <=> Live(r))
  BY <1>0, <1>5 DEF Live, Exiting
<1>7. \A r \in Slots : r # p => (Holds(r)' <=> Holds(r))
  BY <1>0, <1>2, <1>5 DEF Holds
<1>8. pc'[p] \in ExitSection => ~Live(p)'
  BY DEF Live, Exiting
<1>9. CASE ExitMark(p)
  <2>1. /\ pc[p] = "exit_mark" /\ pc'[p] = "exit_zombie"
        /\ executing_process = p /\ dying'[p] = p
        /\ state' = Terminated(p)
        /\ UNCHANGED <<sp, ready_queue, executing_process, zombie, CR3, cpu, next>>
    BY <1>0, <1>3, <1>9 DEF ExitMark, At, Goto
  <2>2. Queue' = Queue
    BY <2>1 DEF Queue
  <2>3. \A r \in Slots : state'[r] = PROCESS_UNUSED <=> state[r] = PROCESS_UNUSED
    BY <1>3, <2>1, TerminatedEffect
  <2>4. \A r \in Slots : r # p => (Live(r)' <=> Live(r))
    BY <1>0, <1>5, <2>3 DEF Live, Exiting
  <2>5. QueueInv'
    BY <1>3, <2>1, <2>2, <2>4 DEF SchedInv, QueueInv
  <2>6. ExitInv(p)'
    BY <2>1 DEF ExitInv
  <2>7. NoneLost'
    BY <1>4, <1>8, <2>1, <2>2, <2>4 DEF SchedInv, NoneLost, ExitSection
  <2>8. HolderNext'
    BY <1>3, <1>7, <2>1, <2>2 DEF SchedInv, HolderNext
  <2>9. pc'[p] \in ExitSection
    BY <2>1 DEF ExitSection
  <2> QED
    BY <1>1, <1>2, <1>3, <1>5, <2>1, <2>2, <2>3, <2>5, <2>6, <2>7, <2>8, <2>9,
       ExitInside
<1>10. CASE ExitZombie(p) \/ ExitTest(p) \/ ExitIdle(p)
  <2>1. /\ UNCHANGED <<state, sp, ready_queue, CR3, cpu, dying, next>>
        /\ zombie' \in {zombie, p}
        /\ pc'[p] \in ExitSection \ {"exit_exec"}
        /\ pc[p] \in ExitSection \ {"exit_exec"}
        /\ executing_process = p /\ executing_process' \in {p, NULL}
    BY <1>0, <1>3, <1>10
       DEF ExitZombie, ExitTest, ExitIdle, At, Goto, ExitInv, ExitSection
  <2>2. Queue' = Queue
    BY <2>1 DEF Queue
  <2>3. QueueInv'
    BY <1>0, <1>3, <1>6, <2>1, <2>2 DEF SchedInv, QueueInv
  <2>4. ExitInv(p)'
    BY <1>0, <1>3, <1>10
       DEF ExitZombie, ExitTest, ExitIdle, At, Goto, ExitInv
  <2>5. NoneLost'
    BY <1>4, <1>6, <1>8, <2>1, <2>2 DEF SchedInv, NoneLost
  <2>6. HolderNext'
    BY <1>3, <1>7, <2>1, <2>2 DEF SchedInv, HolderNext
  <2> QED
    BY <1>1, <1>2, <1>3, <1>5, <2>1, <2>2, <2>3, <2>4, <2>5, <2>6, ExitInside
<1>11. CASE ExitKernel(p)
  <2>1. /\ pc[p] = "exit_kernel" /\ pc'[p] = "dead"
        /\ executing_process = NULL /\ zombie = p /\ pq_is_empty(ready_queue)
        /\ context_switch(NULL, KERNEL, state)
        /\ UNCHANGED <<ready_queue, executing_process, zombie, dying, next>>
    BY <1>0, <1>3, <1>11 DEF ExitKernel, At, Goto, ExitInv
  <2>2. /\ cpu' = KERNEL /\ CR3' = KERNEL
        /\ \A r \in Slots : state'[r] = state[r]
    BY <1>0, <1>3, <2>1, BootEffect
  <2>3. UnusedInv'
    BY <1>0, <1>2, <1>3, <1>5, <2>1, <2>2 DEF SchedInv, UnusedInv
  <2>4. ReapInv'
    BY <1>0, <1>2, <1>5, <2>1 DEF SchedInv, ReapInv
  <2> QED
    BY <1>0, <1>1, <1>2, <1>5, <2>1, <2>2, <2>3, <2>4, SwitchToBoot
<1>12. CASE ExitPop(p)
  <2>0. PICK n : n = pq_peek(ready_queue)
    OBVIOUS
  <2>1. /\ pc[p] = "exit_pop" /\ pc'[p] = "exit_exec" /\ zombie = p
        /\ executing_process = p /\ ~pq_is_empty(ready_queue) /\ dying[p] = p
        /\ next'[p] = n /\ ready_queue' = pq_pop(ready_queue, priority)
        /\ UNCHANGED <<state, sp, executing_process, zombie, CR3, cpu, dying>>
    BY <1>0, <1>3, <1>12, <2>0 DEF ExitPop, At, Goto, ExitInv
  <2>2. /\ Queue' = Queue \ {n} /\ n \in Queue /\ Distinct(ready_queue')
    BY <1>0, <2>0, <2>1, PopSet DEF Queue, SchedInv, QueueInv
  <2>3. QueueInv'
    BY <1>3, <1>6, <2>1, <2>2 DEF SchedInv, QueueInv
  <2>4. ExitInv(p)'
    <3>1. n \in Slots /\ Live(n)' /\ sp'[n] = n /\ n \notin Queue'
      BY <1>3, <1>6, <2>1, <2>2 DEF SchedInv, QueueInv
    <3>2. Taken(next[p])'
      BY <2>1, <3>1 DEF Taken
    <3> QED
      BY <2>1, <3>2 DEF ExitInv
  <2>5. NoneLost'
    BY <1>4, <1>6, <1>8, <2>1, <2>2 DEF SchedInv, NoneLost, ExitSection
  <2>6. HolderNext'
    BY <1>3, <1>7, <2>0, <2>1, <2>2 DEF SchedInv, HolderNext, QueueInv
  <2>7. pc'[p] \in ExitSection
    BY <2>1 DEF ExitSection
  <2> QED
    BY <1>1, <1>2, <1>3, <1>5, <2>1, <2>2, <2>3, <2>4, <2>5, <2>6, <2>7,
       ExitInside
<1>13. CASE ExitExec(p)
  <2>0. PICK n : n = next[p]
    OBVIOUS
  <2>1. /\ pc[p] = "exit_exec" /\ Taken(n) /\ zombie = p /\ dying[p] = p
        /\ executing_process = p
    BY <1>3, <1>13, <2>0 DEF ExitExec, At, ExitInv
  <2>2. n \in Slots /\ n # NULL /\ n \notin Queue /\ n # p
    BY <1>0, <2>1 DEF Taken, Live, Exiting, ExitSection
  <2>3. /\ pc'[p] = "exit_switch" /\ executing_process' = n
        /\ state' = [state EXCEPT ![n] = PROCESS_RUNNING]
        /\ UNCHANGED <<sp, ready_queue, zombie, CR3, cpu, dying, next>>
    BY <1>0, <1>13, <2>0, <2>2 DEF ExitExec, Goto
  <2>4. \A r \in Slots : state'[r] = PROCESS_UNUSED <=> state[r] = PROCESS_UNUSED
    <3>1. state[n] # PROCESS_UNUSED
      BY <2>1 DEF Taken, Live
    <3> QED
      BY <1>0, <2>2, <2>3, <3>1 DEF PROCESS_UNUSED, PROCESS_RUNNING
  <2>5. \A r \in Slots : r # p => (Live(r)' <=> Live(r))
    BY <1>0, <1>5, <2>4 DEF Live, Exiting
  <2>6. Queue' = Queue
    BY <2>3 DEF Queue
  <2>7. QueueInv'
    BY <1>3, <2>2, <2>3, <2>5, <2>6 DEF SchedInv, QueueInv
  <2>8. ExitInv(p)'
    <3>1. Taken(next[p])'
      BY <2>0, <2>1, <2>2, <2>3, <2>5, <2>6 DEF Taken
    <3> QED
      BY <2>0, <2>1, <2>3, <3>1 DEF ExitInv
  <2>9. NoneLost'
    <3> SUFFICES ASSUME NEW r \in Slots, Live(r)'
                 PROVE  r = n \/ r \in Queue
      BY <2>3, <2>6 DEF NoneLost
    <3>1. r # p /\ Live(r)
      BY <1>8, <2>3, <2>5 DEF ExitSection
    <3> QED
      BY <1>4, <2>0, <2>1, <3>1 DEF SchedInv, NoneLost
  <2>10. HolderNext'
    BY <1>3, <1>7, <2>3, <2>6 DEF SchedInv, HolderNext
  <2>11. pc'[p] \in ExitSection
    BY <2>3 DEF ExitSection
  <2> QED
    BY <1>1, <1>2, <1>3, <1>5, <2>3, <2>4, <2>6, <2>7, <2>8, <2>9, <2>10,
       <2>11, ExitInside
<1>14. CASE ExitSwitch(p)
  <2>0. PICK n : n = next[p]
    OBVIOUS
  <2>1. /\ pc[p] = "exit_switch" /\ Taken(n) /\ zombie = p /\ dying[p] = p
        /\ executing_process = n
    BY <1>3, <1>14, <2>0 DEF ExitSwitch, At, ExitInv
  <2>2. /\ n \in Slots /\ n # NULL /\ n \notin Queue /\ n # p
        /\ Live(n) /\ sp[n] = n
    BY <1>0, <2>1 DEF Taken, Live, Exiting, ExitSection
  <2>3. /\ pc'[p] = "dead" /\ context_switch(p, n, state)
        /\ UNCHANGED <<ready_queue, executing_process, zombie, dying, next>>
    BY <1>0, <1>14, <2>0, <2>1, <2>2 DEF ExitSwitch, Goto
  <2>4. /\ cpu' = n /\ CR3' = n /\ sp'[KERNEL] = sp[KERNEL]
        /\ \A r \in Slots : r # n /\ r # p => sp'[r] = sp[r]
        /\ \A r \in Slots : r # n => state'[r] = state[r]
        /\ state'[n] # PROCESS_UNUSED
    BY <1>0, <1>1, <2>2, <2>3, SwitchEffect
  <2>5. \A r \in Slots : state'[r] = PROCESS_UNUSED <=> state[r] = PROCESS_UNUSED
    BY <2>2, <2>4 DEF Live
  <2>6. UnusedInv'
    BY <1>0, <1>2, <1>3, <1>5, <2>3, <2>5 DEF SchedInv, UnusedInv
  <2>7. ReapInv'
    BY <1>0, <1>2, <1>5, <2>1, <2>3 DEF SchedInv, ReapInv
  <2>8. Queue' \ {p} = Queue \ {n} /\ p \notin Queue' /\ Distinct(ready_queue')
    BY <1>3, <2>2, <2>3 DEF Queue, SchedInv, QueueInv
  <2> QED
    BY <1>1, <1>2, <1>5, <2>1, <2>2, <2>3, <2>4, <2>5, <2>6, <2>7, <2>8,
       SwitchToProcess
<1> QED
  BY <1>9, <1>10, <1>11, <1>12, <1>13, <1>14 DEF ExitStep

-----------------------------------------------------------------------------
(* Interrupts.                                                             *)

\* Outside process_exit a tick finds the zombie ended, and frees it
\* for the first time.
LEMMA FreeEffect ==
    ASSUME TypeInv, SchedInv, \A r \in Slots : ~Exiting(r), free_zombie
    PROVE  /\ zombie' = NULL
           /\ \A r \in Slots :
                /\ freed'[r] > 0 => freed'[r] = 1 /\ pc[r] = "dead"
                /\ state[r] = PROCESS_UNUSED => freed'[r] = 0
<1>0. /\ freed \in [Slots -> Nat] /\ zombie \in Slots \cup {NULL}
      /\ NULL \notin Slots
  BY SchedTypes
<1>1. zombie' = NULL
      /\ freed' = IF zombie = NULL THEN freed
                  ELSE [freed EXCEPT ![zombie] = @ + 1]
  BY DEF free_zombie
<1>2. CASE zombie = NULL
  BY <1>0, <1>1, <1>2 DEF SchedInv, ReapInv, UnusedInv
<1>3. CASE zombie # NULL
  <2>1. PICK z \in Slots : z = zombie
    BY <1>0, <1>3
  <2>2. pc[z] = "dead" /\ freed[z] = 0 /\ state[z] # PROCESS_UNUSED
    BY <2>1 DEF SchedInv, ReapInv, UnusedInv
  <2>3. freed' = [freed EXCEPT ![z] = 1]
    BY <1>0, <1>1, <1>3, <2>1, <2>2
  <2> QED
    BY <1>0, <1>1, <2>2, <2>3 DEF SchedInv, ReapInv, UnusedInv
<1> QED
  BY <1>2, <1>3

LEMMA TickSchedInv ==
    ASSUME raced' = {}, TypeInv, SchedInv, Tick
    PROVE  SchedInv'
<1>0. /\ KERNEL \in Threads /\ KERNEL \notin Slots /\ NULL \notin Slots
      /\ Slots \subseteq Threads /\ HALTED \notin Threads
      /\ Threads = Slots \cup {KERNEL}
      /\ pc \in [Threads -> ProcessSteps \cup KernelSteps]
      /\ eax \in [Threads -> Int]
      /\ state \in [Threads -> 0 .. 3]
      /\ cpu \in Threads \cup {HALTED}
      /\ executing_process \in Slots \cup {NULL}
      /\ QueueOK(ready_queue, priority)
  BY SchedTypes
<1>1. /\ cpu \in Threads /\ pc[cpu] # "dead" /\ pc[cpu] \notin ExitSection
      /\ pc[cpu] # "switch"
  BY <1>0 DEF Tick, TickReturns, TickExpires, Interruptible, Section
<1>2. \A r \in Slots : ~Exiting(r)
  BY <1>1 DEF SchedInv, OneExit, Exiting
<1>3. free_zombie
  BY DEF Tick, TickReturns, TickExpires, SchedulerIdle, SchedulerKeep,
         SchedulerPreempt, SchedulerExpire
<1>4. /\ zombie' = NULL
      /\ \A r \in Slots :
           /\ freed'[r] > 0 => freed'[r] = 1 /\ pc[r] = "dead"
           /\ state[r] = PROCESS_UNUSED => freed'[r] = 0
  BY <1>2, <1>3, FreeEffect
<1>5. (\A r \in Slots : r # cpu => pc'[r] = pc[r]) => ReapInv'
  BY <1>0, <1>1, <1>4 DEF ReapInv
<1>6. /\ executing_process = NULL => cpu = KERNEL
      /\ executing_process # NULL =>
           /\ executing_process \in Slots /\ cpu = executing_process
           /\ state[cpu] # PROCESS_UNUSED /\ cpu \notin Queue
  BY <1>0, <1>1, <1>2 DEF SchedInv, KernelInv, ThreadInv
<1>7. UNCHANGED <<spinning, dying, next, priority>>
  BY DEF Tick, TickReturns, TickExpires, SchedulerIdle, SchedulerKeep,
         SchedulerPreempt, SchedulerExpire, Charge
<1>8. CASE TickReturns /\ (SchedulerIdle \/ SchedulerKeep)
  <2>1. /\ UNCHANGED <<state, sp, ready_queue, executing_process, CR3, cpu, pc>>
        /\ ClobberAl
    BY <1>8 DEF TickReturns, SchedulerIdle, SchedulerKeep
  <2>2. \A r \in Threads : r # cpu => eax'[r] = eax[r]
    BY <1>0, <1>1, <2>1 DEF ClobberAl
  <2>3. UnusedInv'
    BY <1>0, <1>4, <2>1 DEF SchedInv, UnusedInv
  <2>4. ReapInv' /\ SpinInv'
    BY <1>5, <1>7, <2>1 DEF SchedInv, SpinInv
  <2>5. cpu \in Slots => state[cpu] # PROCESS_UNUSED /\ pc'[cpu] # "dead"
                         /\ ~Exiting(cpu) /\ ~Exiting(cpu)'
    BY <1>0, <1>1, <1>2, <1>6, <2>1 DEF Exiting
  <2>6. cpu = KERNEL \/ (cpu \in Slots /\ ~Exiting(cpu))
    BY <1>0, <1>1, <1>2
  <2> QED
    BY <1>7, <2>1, <2>2, <2>3, <2>4, <2>5, <2>6, QuietStep
<1>9. CASE TickReturns /\ SchedulerPreempt
  <2>0. PICK p : p = executing_process
    OBVIOUS
  <2>1. /\ p \in Slots /\ cpu = p /\ state[p] # PROCESS_UNUSED
        /\ p \notin Queue /\ ~Exiting(p) /\ priority[p] = 1
    BY <1>2, <1>6, <1>9, <2>0 DEF SchedulerPreempt, TypeInv, Ready1
  <2> DEFINE s  == pq_push(ready_queue, p, priority)
             st == [state EXCEPT ![p] = PROCESS_READY]
  <2>2. /\ ~pq_is_empty(ready_queue) /\ SwitchToNext(p, s, st)
        /\ pc' = pc /\ ClobberAl
    BY <1>9, <2>0 DEF SchedulerPreempt, TickReturns
  <2>3. PICK n : n = pq_peek(ready_queue)
    OBVIOUS
  <2>4. /\ pq_peek(s) = n /\ n \in Queue
        /\ Queued(pq_pop(s, priority)) = (Queue \ {n}) \cup {p}
        /\ Distinct(pq_pop(s, priority))
        /\ pq_peek(pq_pop(s, priority)) = p
    BY <1>0, <2>1, <2>2, <2>3, PreemptSet DEF SchedInv, QueueInv, Queue
  <2>5. n \in Slots /\ Live(n) /\ sp[n] = n /\ n # p
    BY <2>1, <2>4 DEF SchedInv, QueueInv
  <2>6. /\ st \in [Threads -> 0 .. 3]
        /\ \A r \in Slots : st[r] = PROCESS_UNUSED <=> state[r] = PROCESS_UNUSED
    BY <1>0, <2>1 DEF PROCESS_READY, PROCESS_UNUSED
  <2> HIDE DEF s, st
  <2> DEFINE st1 == [st EXCEPT ![n] = PROCESS_RUNNING]
  <2>7. /\ context_switch(p, n, st1) /\ executing_process' = n
        /\ ready_queue' = pq_pop(s, priority)
    BY <2>2, <2>4 DEF SwitchToNext
  <2>8. /\ st1 \in [Threads -> 0 .. 3]
        /\ \A r \in Slots : r # n => st1[r] = st[r]
    BY <1>0, <2>5, <2>6 DEF PROCESS_RUNNING
  <2> HIDE DEF st1
  <2>9. /\ cpu' = n /\ CR3' = n /\ sp'[KERNEL] = sp[KERNEL]
        /\ \A r \in Slots : r # n /\ r # p => sp'[r] = sp[r]
        /\ sp'[p] = p
        /\ \A r \in Slots : r # n => state'[r] = st1[r]
        /\ state'[n] # PROCESS_UNUSED
    BY <2>1, <2>5, <2>7, <2>8, SwitchEffect
  <2>10. \A r \in Slots : state'[r] = PROCESS_UNUSED <=> state[r] = PROCESS_UNUSED
    BY <2>5, <2>6, <2>8, <2>9 DEF Live
  <2>11. /\ Queue' = (Queue \ {n}) \cup {p} /\ Distinct(ready_queue')
         /\ pq_peek(ready_queue') = p
    BY <2>4, <2>7 DEF Queue
  <2>12. Queue' \ {p} = Queue \ {n} /\ p \in Queue'
    BY <2>1, <2>11
  <2>13. \A r \in Threads : r # p => pc'[r] = pc[r] /\ eax'[r] = eax[r]
    BY <1>0, <2>1, <2>2 DEF ClobberAl
  <2>14. UnusedInv' /\ ReapInv'
    BY <1>0, <1>4, <1>5, <2>2, <2>10 DEF SchedInv, UnusedInv
  <2>15. pc[p] # "exit_exec" /\ pc'[p] = pc[p]
    BY <2>1, <2>2 DEF Exiting, ExitSection
  <2> QED
    BY <1>7, <2>0, <2>1, <2>3, <2>5, <2>7, <2>9, <2>10, <2>11, <2>12, <2>13,
       <2>14, <2>15, SwitchToProcess
<1>10. CASE TickExpires
  <2>0. PICK p : p = executing_process
    OBVIOUS
  <2>1. /\ p \in Slots /\ cpu = p /\ ~Exiting(p)
        /\ IF pq_is_empty(ready_queue)
           THEN SwitchToKernel(Terminated(p))
           ELSE SwitchToNext(NULL, ready_queue, Terminated(p))
        /\ pc' = [pc EXCEPT ![p] = "dead"] /\ eax' = [eax EXCEPT ![p] = 0]
    BY <1>2, <1>6, <1>10, <2>0 DEF TickExpires, SchedulerExpire, Goto
  <2>2. /\ \A r \in Threads : r # p => pc'[r] = pc[r] /\ eax'[r] = eax[r]
        /\ pc'[p] = "dead"
    BY <1>0, <2>1
  <2>3. ReapInv'
    BY <1>0, <1>5, <2>1, <2>2
  <2>4. NULL \in {p, NULL} /\ zombie' # p
    BY <1>0, <1>4, <2>1
  <2> QED
    BY <1>4, <1>7, <2>1, <2>2, <2>3, <2>4, EndSchedInv
<1> QED
  BY <1>8, <1>9, <1>10 DEF Tick, TickReturns

LEMMA KeyboardSchedInv ==
    ASSUME TypeInv, SchedInv, KeyboardInterrupt
    PROVE  SchedInv'
<1>0. /\ KERNEL \in Threads /\ KERNEL \notin Slots
      /\ Threads = Slots \cup {KERNEL} /\ eax \in [Threads -> Int]
      /\ cpu \in Threads \cup {HALTED}
  BY SchedTypes
<1>1. /\ UNCHANGED <<schedVars, pc, dying, next>> /\ ClobberAl
      /\ cpu \in Threads
  BY <1>0 DEF KeyboardInterrupt
<1>2. UNCHANGED <<state, sp, ready_queue, executing_process, CR3, cpu, dying,
                  next, zombie, freed, spinning, pc>>
  BY <1>1 DEF schedVars
<1>3. \A r \in Threads : r # cpu => eax'[r] = eax[r]
  BY <1>0, <1>1 DEF ClobberAl
<1>4. UnusedInv' /\ ReapInv' /\ SpinInv'
  BY <1>2 DEF SchedInv, UnusedInv, ReapInv, SpinInv, Exiting
<1>5. cpu \in Slots => /\ state[cpu] # PROCESS_UNUSED /\ pc'[cpu] # "dead"
                       /\ ~Exiting(cpu) => ~Exiting(cpu)'
  BY <1>2 DEF SchedInv, ThreadInv, Exiting
<1> QED
  BY <1>2, <1>3, <1>4, <1>5, QuietStep

LEMMA NextSchedInv ==
    ASSUME raced' = {}, TypeInv, SchedInv, [Next]_vars
    PROVE  SchedInv'
<1>1. CASE UNCHANGED vars
  BY <1>1
     DEF vars, schedVars, SchedInv, QueueInv, UnusedInv, KernelInv, ThreadInv,
         HaltInv, OneExit, ReapInv, SpinInv, NoneLost, HolderNext, Taken,
         ExitInv, Live, Exiting, Queue, Holds
<1>2. CASE KernelStep
  BY <1>2, KernelSchedInv
<1>3. CASE \E p \in Slots : ProcessStep(p)
  BY <1>3, CodeSchedInv, FaultSchedInv, ExitSchedInv DEF ProcessStep
<1>4. CASE Tick \/ KeyboardInterrupt
  BY <1>4, TickSchedInv, KeyboardSchedInv
<1> QED
  BY <1>1, <1>2, <1>3, <1>4 DEF Next, CpuStep

\* What a tick has fallen into is never forgotten.
LEMMA RacedGrows ==
    ASSUME [Next]_vars
    PROVE  raced \subseteq raced'
BY DEF Next, CpuStep, KernelStep, KernelCreate, KernelCreateFails,
       KernelStartNone, KernelStart, KernelSwitch, ProcessStep, LockStep,
       LoopStep, LockBegin, LockMov, LockXchg, LockTest, LockEnd, Release, Load,
       Add, Store, Sleep, Return, Fault, ExitStep, ExitMark, ExitZombie,
       ExitTest, ExitIdle, ExitKernel, ExitPop, ExitExec, ExitSwitch,
       UnchangedByExit, Tick, TickReturns, TickExpires, KeyboardInterrupt, vars

\* Up to the first tick inside start_processes or process_exit.
UnracedInv == raced = {} => SchedInv

LEMMA SchedInvariant == Spec => [](TypeInv /\ UnracedInv)
<1>1. Init => TypeInv /\ UnracedInv
  BY InitTypeInv, InitSchedInv DEF UnracedInv
<1>2. TypeInv /\ UnracedInv /\ [Next]_vars => (TypeInv /\ UnracedInv)'
  <2> SUFFICES ASSUME TypeInv, UnracedInv, [Next]_vars PROVE UnracedInv'
    BY NextTypeInv
  <2> SUFFICES ASSUME raced' = {} PROVE SchedInv'
    BY DEF UnracedInv
  <2>1. raced = {}
    BY RacedGrows
  <2> QED
    BY <2>1, NextSchedInv DEF UnracedInv
<1> QED
  BY <1>1, <1>2, PTL DEF Spec

-----------------------------------------------------------------------------
(* What a tick cannot break, wherever it falls.                            *)

\* The thread t is past the assignment of executing_process in process_exit.
Leaving(t) == pc[t] \in {"exit_kernel", "exit_switch"}

\* The thread t is past the assignment of zombie.
Past(t) == pc[t] \in (ExitSection \ {"exit_zombie"}) \cup {"dead"}

Startable(p) == state[p] # PROCESS_UNUSED /\ pc[p] # "dead" /\ ~Leaving(p)

\* The queue holds no process twice, and none that has ended or is leaving.
ListInv ==
    /\ Distinct(ready_queue)
    /\ \A p \in Queue : p \in Slots /\ p # executing_process /\ Startable(p)

\* The same of the executing process, unless it has stopped the machine.
ChosenInv ==
    executing_process # NULL =>
        IF cpu = HALTED
        THEN pc[executing_process] = "dead" => freed[executing_process] = 0
        ELSE Startable(executing_process)

\* The same of a process that an exit path has popped; there is one to pop
\* unless a tick has come between the test and the pop.
PoppedInv ==
    /\ \A r \in Slots : pc[r] = "exit_exec" /\ next[r] # NULL =>
         /\ next[r] \notin Queue /\ next[r] # executing_process /\ next[r] # r
         /\ Startable(next[r])
    /\ \A r, s \in Slots :
         /\ pc[r] = "exit_exec" /\ pc[s] = "exit_exec"
         /\ next[r] = next[s] /\ next[r] # NULL
         => r = s
    /\ "exit" \notin raced => \A r \in Slots :
         /\ pc[r] = "exit_pop" => ~pq_is_empty(ready_queue)
         /\ pc[r] \in {"exit_exec", "exit_switch"} => next[r] # NULL

\* A process runs as itself until it is leaving, and no block holds the frame
\* of the running thread.
RunInv ==
    cpu \in Slots =>
        /\ state[cpu] # PROCESS_UNUSED /\ pc[cpu] # "dead"
        /\ \A b \in Threads : sp[b] # cpu
        /\ ~Leaving(cpu) => executing_process = cpu /\ CR3 = cpu
        /\ pc[cpu] = "exit_kernel" => executing_process = NULL
        /\ pc[cpu] = "exit_switch" => executing_process = next[cpu]

\* A frame in the block of another process is that of a thread about to switch
\* to this process, and lies nowhere else.
FrameInv ==
    /\ sp[KERNEL] \in {KERNEL, NULL}
    /\ \A b \in Slots : sp[b] \in Slots /\ sp[b] # b =>
         pc[sp[b]] = "exit_switch" /\ next[sp[b]] = b
    /\ \A b, c \in Slots : sp[b] = sp[c] /\ sp[b] \in Slots => b = c

\* Nothing has happened to a slot that create_process has not used.
FreshInv ==
    \A p \in Slots : state[p] = PROCESS_UNUSED =>
        /\ pc[p] = "entry" /\ zombie # p /\ freed[p] = 0
        /\ \A b \in Threads : sp[b] # p

\* Until start_processes no process has run, and only a tick there makes the
\* boot thread wait in the block of a process.
BootInv ==
    /\ pc[KERNEL] \in {"create", "start"} =>
         /\ cpu = KERNEL /\ executing_process = NULL /\ CR3 = KERNEL
         /\ \A p \in Slots : pc[p] = "entry"
    /\ "start" \notin raced =>
         /\ cpu = KERNEL /\ pc[KERNEL] # "switch" => executing_process = NULL
         /\ cpu \in Slots => sp[KERNEL] = KERNEL
         /\ \A b \in Slots : sp[b] # KERNEL

\* An exit path ends its own process, and is left only by a tick.
LeaveInv ==
    \A r \in Slots : Exiting(r) => dying[r] = r /\ ("exit" \in raced \/ r = cpu)

\* A process becomes the zombie once and is freed once.
FreeInv ==
    \A p \in Slots :
        /\ zombie = p => freed[p] = 0 /\ Past(p)
        /\ freed[p] > 0 =>
             /\ freed[p] = 1 /\ Past(p)
             /\ "exit" \in raced \/ pc[p] = "dead"

\* The directory loaded is the kernel's, that of the executing process or that
\* of the running thread.
LoadedInv == "exit" \in raced \/ CR3 \in {KERNEL, executing_process, cpu}

RaceInv ==
    /\ ListInv /\ ChosenInv /\ PoppedInv /\ RunInv /\ FrameInv /\ FreshInv
    /\ BootInv /\ LeaveInv /\ FreeInv /\ LoadedInv /\ SpinInv /\ HolderNext

LEMMA InitRaceInv == Init => RaceInv
<1> SUFFICES ASSUME Init PROVE RaceInv
  OBVIOUS
<1>1. /\ KERNEL \in Threads /\ KERNEL \notin Slots /\ NULL \notin Slots
      /\ HALTED # KERNEL /\ Slots \subseteq Threads /\ NULL \notin Threads
      /\ Threads = Slots \cup {KERNEL}
  BY SchedulerAssumption DEF Threads, Slots, KERNEL, NULL, HALTED
<1>2. /\ \A p \in Slots : pc[p] = "entry" /\ state[p] = PROCESS_UNUSED
                          /\ freed[p] = 0
      /\ cpu = KERNEL /\ CR3 = KERNEL /\ executing_process = NULL
      /\ zombie = NULL /\ pc[KERNEL] \in {"create", "start"}
      /\ ready_queue.size = 0
      /\ \A b \in Threads : sp[b] = NULL
  BY <1>1 DEF Init, SchedInit, pq_init
<1>3. Queue = {}
  BY <1>2 DEF Queue, Queued
<1>4. ListInv /\ ChosenInv /\ HolderNext
  BY <1>2, <1>3 DEF ListInv, Distinct, ChosenInv, HolderNext
<1>5. PoppedInv /\ LeaveInv /\ SpinInv
  BY <1>2 DEF PoppedInv, LeaveInv, Exiting, ExitSection, SpinInv, WaitSteps
<1>6. RunInv /\ FrameInv /\ FreshInv
  BY <1>1, <1>2 DEF RunInv, FrameInv, FreshInv
<1>7. BootInv /\ FreeInv /\ LoadedInv
  BY <1>1, <1>2 DEF BootInv, FreeInv, LoadedInv
<1> QED
  BY <1>4, <1>5, <1>6, <1>7 DEF RaceInv

\* A process that may be started and is not executing is not running either.
LEMMA Waiting ==
    ASSUME RaceInv, NEW p \in Slots, Startable(p), p # executing_process
    PROVE  p # cpu
BY DEF RaceInv, RunInv, Startable

\* A step that changes only the registers, the flags and the position of the
\* running thread, outside process_exit.
LEMMA RaceQuiet ==
    ASSUME TypeInv, RaceInv, cpu \in Threads, raced \subseteq raced',
           UNCHANGED <<state, sp, ready_queue, executing_process, CR3, cpu,
                       dying, next>>,
           \A r \in Threads : r # cpu => pc'[r] = pc[r] /\ eax'[r] = eax[r],
           \/ pc'[cpu] = pc[cpu]
           \/ cpu \in Slots /\ ~Exiting(cpu) /\ ~Exiting(cpu)' /\ pc'[cpu] # "dead"
           \/ /\ cpu = KERNEL /\ pc[KERNEL] \in {"create", "start"}
              /\ pc'[KERNEL] # "switch",
           \A p \in Slots : state[p] = PROCESS_UNUSED =>
               pc'[p] = "entry" /\ zombie' # p /\ freed'[p] = 0,
           FreeInv', SpinInv'
    PROVE  RaceInv'
<1>0. /\ KERNEL \notin Slots /\ Slots \subseteq Threads /\ HALTED \notin Threads
      /\ Threads = Slots \cup {KERNEL} /\ executing_process \in Slots \cup {NULL}
      /\ next \in [Slots -> Slots \cup {NULL}]
      /\ sp \in [Threads -> Threads \cup {NULL}]
  BY SchedTypes
<1>1. Queue' = Queue
  BY DEF Queue
<1>2. \A r \in Slots : /\ Exiting(r)' <=> Exiting(r)
                       /\ Exiting(r) => pc'[r] = pc[r]
  BY <1>0 DEF Exiting
<1>3. \A r \in Slots : pc[r] # "dead" => pc'[r] # "dead"
  BY <1>0
<1>4. \A r \in Slots : Leaving(r)' <=> Leaving(r)
  BY <1>0, <1>2 DEF Exiting, ExitSection, Leaving
<1>5. \A r \in Slots : Startable(r) => Startable(r)'
  BY <1>0, <1>3, <1>4 DEF Startable
<1>6. \A r \in Slots : \A s \in ExitSection : pc'[r] = s <=> pc[r] = s
  BY <1>0, <1>2 DEF Exiting
<1>7. ListInv'
  BY <1>1, <1>5 DEF RaceInv, ListInv
<1>8. ChosenInv'
  BY <1>0, <1>5 DEF RaceInv, ChosenInv
<1>9. PoppedInv'
  <2>1. \A r \in Slots : /\ pc'[r] = "exit_exec" <=> pc[r] = "exit_exec"
                         /\ pc'[r] = "exit_pop" <=> pc[r] = "exit_pop"
                         /\ pc'[r] = "exit_switch" <=> pc[r] = "exit_switch"
    BY <1>6 DEF ExitSection
  <2>2. \A r \in Slots : pc[r] = "exit_exec" /\ next[r] # NULL => Startable(next[r])'
    BY <1>0, <1>5 DEF RaceInv, PoppedInv
  <2> QED
    BY <1>1, <2>1, <2>2 DEF RaceInv, PoppedInv
<1>10. RunInv'
  BY <1>0, <1>3, <1>4, <1>6 DEF RaceInv, RunInv, ExitSection
<1>11. FrameInv'
  BY <1>0, <1>6 DEF RaceInv, FrameInv, ExitSection
<1>12. FreshInv' /\ LoadedInv'
  BY DEF RaceInv, FreshInv, LoadedInv
<1>13. BootInv'
  <2>1. pc'[KERNEL] \in {"create", "start"} => pc[KERNEL] \in {"create", "start"}
    BY <1>0 DEF RaceInv, BootInv
  <2>2. pc[KERNEL] \in {"create", "start"} => cpu = KERNEL
    BY DEF RaceInv, BootInv
  <2>3. pc'[KERNEL] \in {"create", "start"} => \A p \in Slots : pc'[p] = "entry"
    BY <1>0, <2>1, <2>2 DEF RaceInv, BootInv
  <2>4. /\ pc'[KERNEL] # "switch" => pc[KERNEL] # "switch"
    BY <1>0
  <2> QED
    BY <2>1, <2>3, <2>4 DEF RaceInv, BootInv
<1>14. LeaveInv'
  BY <1>2 DEF RaceInv, LeaveInv
<1>15. HolderNext'
  <2>1. \A r \in Queue : r # cpu /\ r \in Slots
    BY Waiting DEF RaceInv, ListInv
  <2> QED
    BY <1>0, <1>1, <2>1 DEF RaceInv, HolderNext, Holds
<1> QED
  BY <1>7, <1>8, <1>9, <1>10, <1>11, <1>12, <1>13, <1>14, <1>15 DEF RaceInv

\* The processor passes from the running thread to the frame in the block of n,
\* which was queued or is executing already; curr is the block, if any, in which
\* the running thread is saved.
LEMMA RaceSwitch ==
    ASSUME TypeInv, RaceInv, cpu \in Threads, raced \subseteq raced',
           NEW n \in Slots, Startable(n), n # cpu,
           n \in Queue \/ n = executing_process,
           cpu \in Slots \/ executing_process # NULL,
           NEW curr \in Threads \cup {NULL}, curr # n,
           curr = KERNEL => cpu = KERNEL,
           curr \in Slots /\ cpu \in Slots /\ curr # cpu =>
               pc[cpu] = "exit_switch" /\ next[cpu] = curr /\ pc'[cpu] = pc[cpu],
           cpu = KERNEL /\ "start" \notin raced' => curr = KERNEL,
           \A b \in Threads : sp'[b] = IF b = n THEN NULL
                                       ELSE IF b = curr THEN cpu ELSE sp[b],
           cpu' = IF sp[n] = NULL THEN HALTED ELSE sp[n],
           CR3' = n, executing_process' = n,
           \A r \in Threads : r # cpu => pc'[r] = pc[r],
           \/ pc'[cpu] = pc[cpu] /\ (Exiting(cpu) => "exit" \in raced')
           \/ pc'[cpu] = "dead"
           \/ cpu = KERNEL /\ pc'[cpu] = "done",
           \A r \in Slots : state'[r] = PROCESS_UNUSED <=> state[r] = PROCESS_UNUSED,
           Distinct(ready_queue'),
           \A p \in Queue' :
               \/ p \in Queue /\ p # n
               \/ p = executing_process /\ p # n /\ p \in Slots /\ pc'[p] = pc[p],
           UNCHANGED <<dying, next, spinning>>,
           \A p \in Slots : state[p] = PROCESS_UNUSED => zombie' # p /\ freed'[p] = 0,
           FreeInv', HolderNext'
    PROVE  RaceInv'
<1>0. /\ KERNEL \in Threads /\ KERNEL \notin Slots /\ NULL \notin Slots
      /\ NULL # KERNEL /\ HALTED \notin Threads /\ NULL \notin Threads
      /\ Slots \subseteq Threads /\ Threads = Slots \cup {KERNEL}
      /\ sp \in [Threads -> Threads \cup {NULL}]
      /\ next \in [Slots -> Slots \cup {NULL}]
      /\ executing_process \in Slots \cup {NULL}
  BY SchedTypes
<1>1. cpu \in Slots => /\ state[cpu] # PROCESS_UNUSED /\ pc[cpu] # "dead"
                       /\ \A b \in Threads : sp[b] # cpu
  BY DEF RaceInv, RunInv
<1>2. \A r \in Slots : Startable(r) /\ r # cpu => Startable(r)'
  BY <1>0 DEF Startable, Leaving
<1>3. \A r \in Slots : Startable(r) /\ r # executing_process => r # cpu
  BY Waiting
<1>4. pc[KERNEL] \notin {"create", "start"}
  BY <1>0 DEF RaceInv, BootInv
<1>5. Startable(n)'
  BY <1>2
<1>6. executing_process \in Slots => Startable(executing_process)
  BY <1>0 DEF RaceInv, ChosenInv
<1>7. ListInv'
  <2> SUFFICES ASSUME NEW p \in Queue'
               PROVE  p \in Slots /\ p # n /\ Startable(p)'
    BY DEF ListInv
  <2>1. CASE p \in Queue /\ p # n
    BY <1>2, <1>3, <2>1 DEF RaceInv, ListInv
  <2>2. CASE p = executing_process /\ p # n /\ p \in Slots /\ pc'[p] = pc[p]
    BY <1>6, <2>2 DEF Startable, Leaving
  <2> QED
    BY <2>1, <2>2
<1>8. ChosenInv'
  BY <1>5 DEF ChosenInv, Startable
<1>9. \A r \in Slots : \A s \in ExitSection :
        pc'[r] = s => pc[r] = s /\ (r = cpu => "exit" \in raced')
  BY <1>0 DEF Exiting, ExitSection
<1>10. \A r \in Slots : Exiting(r)' /\ "exit" \notin raced' => FALSE
  <2>1. SUFFICES ASSUME NEW r \in Slots, Exiting(r)', "exit" \notin raced'
                 PROVE  FALSE
    OBVIOUS
  <2>2. Exiting(r) /\ r # cpu
    BY <1>9, <2>1 DEF Exiting
  <2> QED
    BY <2>1, <2>2 DEF RaceInv, LeaveInv
<1>11. PoppedInv'
  <2>1. \A r \in Slots : pc'[r] = "exit_exec" => pc[r] = "exit_exec"
    BY <1>9 DEF ExitSection
  <2>2. ASSUME NEW r \in Slots, pc'[r] = "exit_exec", next[r] # NULL
        PROVE  /\ next[r] \notin Queue' /\ next[r] # n /\ next[r] # r
               /\ Startable(next[r])'
    <3>1. PICK m \in Slots : m = next[r]
      BY <1>0, <2>2
    <3>2. m \notin Queue /\ m # executing_process /\ m # r /\ Startable(m)
      BY <2>1, <2>2, <3>1 DEF RaceInv, PoppedInv
    <3>3. Startable(m)'
      BY <1>2, <1>3, <3>2
    <3> QED
      BY <3>1, <3>2, <3>3
  <2>3. "exit" \notin raced' => \A r \in Slots : pc'[r] \notin ExitSection
    BY <1>10 DEF Exiting
  <2> QED
    BY <2>1, <2>2, <2>3 DEF RaceInv, PoppedInv, ExitSection
<1>12. FrameInv'
  <2>1. sp'[KERNEL] \in {KERNEL, NULL}
    BY <1>0 DEF RaceInv, FrameInv
  <2>2. ASSUME NEW b \in Slots, sp'[b] \in Slots, sp'[b] # b
        PROVE  pc'[sp'[b]] = "exit_switch" /\ next[sp'[b]] = b
    <3>1. PICK t \in Slots : t = sp'[b]
      BY <2>2
    <3>2. CASE b = curr
      BY <1>0, <2>2, <3>1, <3>2
    <3>3. CASE b # curr
      <4>1. sp[b] = t /\ t # cpu
        BY <1>0, <1>1, <2>2, <3>1, <3>3
      <4> QED
        BY <1>0, <2>2, <3>1, <4>1 DEF RaceInv, FrameInv
    <3> QED
      BY <3>2, <3>3
  <2>3. ASSUME NEW b \in Slots, NEW c \in Slots, sp'[b] = sp'[c], sp'[b] \in Slots
        PROVE  b = c
    <3>1. b # n /\ c # n
      BY <1>0, <2>3
    <3>2. CASE b = curr \/ c = curr
      BY <1>0, <1>1, <2>3, <3>1, <3>2
    <3>3. CASE b # curr /\ c # curr
      BY <1>0, <2>3, <3>1, <3>3 DEF RaceInv, FrameInv
    <3> QED
      BY <3>2, <3>3
  <2> QED
    BY <2>1, <2>2, <2>3 DEF FrameInv
<1>13. RunInv'
  <2> SUFFICES ASSUME cpu' \in Slots
               PROVE  /\ state'[cpu'] # PROCESS_UNUSED /\ pc'[cpu'] # "dead"
                      /\ \A b \in Threads : sp'[b] # cpu'
                      /\ ~Leaving(cpu)' => n = cpu'
                      /\ pc'[cpu'] # "exit_kernel"
                      /\ pc'[cpu'] = "exit_switch" => n = next[cpu']
    BY DEF RunInv
  <2>1. PICK t \in Slots : t = cpu'
    OBVIOUS
  <2>2. t = sp[n] /\ t # cpu
    BY <1>0, <1>1, <2>1
  <2>3. pc'[t] = pc[t] /\ state[t] # PROCESS_UNUSED
    BY <1>0, <2>2 DEF RaceInv, FreshInv
  <2>4. ASSUME NEW b \in Threads, sp'[b] = t
        PROVE  FALSE
    <3>1. b # n /\ b # curr
      BY <1>0, <2>2, <2>4
    <3>2. sp[b] = t
      BY <2>4, <3>1
    <3>3. b \in Slots
      BY <1>0, <3>2 DEF RaceInv, FrameInv
    <3> QED
      BY <2>2, <3>1, <3>2, <3>3 DEF RaceInv, FrameInv
  <2>5. CASE t = n
    BY <2>1, <2>3, <2>4, <2>5 DEF Startable, Leaving
  <2>6. CASE t # n
    <3>1. pc[t] = "exit_switch" /\ next[t] = n
      BY <2>2, <2>6 DEF RaceInv, FrameInv
    <3> QED
      BY <2>1, <2>3, <2>4, <3>1 DEF Leaving
  <2> QED
    BY <2>5, <2>6
<1>14. FreshInv'
  <2>1. ASSUME NEW p \in Slots, state[p] = PROCESS_UNUSED
        PROVE  pc'[p] = "entry" /\ \A b \in Threads : sp'[b] # p
    BY <1>0, <1>1, <2>1 DEF RaceInv, FreshInv
  <2> QED
    BY <2>1 DEF FreshInv
<1>15. BootInv'
  <2>1. pc'[KERNEL] \notin {"create", "start"}
    BY <1>0, <1>4
  <2>2. ASSUME "start" \notin raced'
        PROVE  /\ cpu' # KERNEL
               /\ cpu' \in Slots => sp'[KERNEL] = KERNEL
               /\ \A b \in Slots : sp'[b] # KERNEL
    <3>1. /\ \A b \in Slots : sp[b] # KERNEL
          /\ cpu \in Slots => sp[KERNEL] = KERNEL
      BY <2>2 DEF RaceInv, BootInv
    <3>2. cpu' # KERNEL
      BY <1>0, <3>1
    <3>3. sp'[KERNEL] = KERNEL
      BY <1>0, <2>2, <3>1
    <3>4. ASSUME NEW b \in Slots PROVE sp'[b] # KERNEL
      BY <1>0, <2>2, <3>1
    <3> QED
      BY <3>2, <3>3, <3>4
  <2> QED
    BY <2>1, <2>2 DEF BootInv
<1>16. LeaveInv'
  <2>1. \A r \in Slots : Exiting(r)' => Exiting(r)
    BY <1>9 DEF Exiting
  <2> QED
    BY <1>10, <2>1 DEF RaceInv, LeaveInv
<1>17. LoadedInv' /\ SpinInv'
  BY <1>0 DEF RaceInv, LoadedInv, SpinInv, WaitSteps
<1> QED
  BY <1>7, <1>8, <1>11, <1>12, <1>13, <1>14, <1>15, <1>16, <1>17 DEF RaceInv

\* The running thread ends and the processor goes back to kernel_main, if its
\* frame is in its own block.
LEMMA RaceBoot ==
    ASSUME TypeInv, RaceInv, cpu \in Threads, raced \subseteq raced',
           cpu \in Slots \/ executing_process # NULL,
           \A b \in Threads : sp'[b] = IF b = KERNEL THEN NULL ELSE sp[b],
           cpu' = IF sp[KERNEL] = NULL THEN HALTED ELSE sp[KERNEL],
           CR3' = KERNEL, executing_process' = NULL,
           \A r \in Threads : r # cpu => pc'[r] = pc[r] /\ eax'[r] = eax[r],
           pc'[cpu] = "dead",
           \A r \in Slots : state'[r] = PROCESS_UNUSED <=> state[r] = PROCESS_UNUSED,
           UNCHANGED <<ready_queue, dying, next, spinning>>,
           \A p \in Slots : state[p] = PROCESS_UNUSED => zombie' # p /\ freed'[p] = 0,
           FreeInv'
    PROVE  RaceInv'
<1>0. /\ KERNEL \in Threads /\ KERNEL \notin Slots /\ NULL \notin Slots
      /\ NULL # KERNEL /\ HALTED \notin Threads /\ NULL \notin Threads
      /\ Slots \subseteq Threads /\ Threads = Slots \cup {KERNEL}
      /\ sp \in [Threads -> Threads \cup {NULL}]
      /\ next \in [Slots -> Slots \cup {NULL}]
      /\ executing_process \in Slots \cup {NULL}
  BY SchedTypes
<1>1. cpu' \in {KERNEL, HALTED} /\ cpu' \notin Slots
  BY <1>0 DEF RaceInv, FrameInv
<1>2. \A r \in Slots : Startable(r) /\ r # cpu => Startable(r)'
  BY <1>0 DEF Startable, Leaving
<1>3. \A r \in Slots : Startable(r) /\ r # executing_process => r # cpu
  BY Waiting
<1>4. Queue' = Queue
  BY DEF Queue
<1>5. ListInv'
  BY <1>0, <1>2, <1>3, <1>4 DEF RaceInv, ListInv
<1>6. ChosenInv' /\ RunInv' /\ LoadedInv'
  BY <1>1 DEF ChosenInv, RunInv, LoadedInv
<1>7. \A r \in Slots : \A s \in ExitSection : pc'[r] = s => pc[r] = s /\ r # cpu
  BY <1>0 DEF ExitSection
<1>8. \A r \in Slots : Exiting(r)' => Exiting(r) /\ "exit" \in raced'
  BY <1>7 DEF Exiting, RaceInv, LeaveInv
<1>9. PoppedInv'
  <2>1. \A r \in Slots : pc'[r] = "exit_exec" => pc[r] = "exit_exec"
    BY <1>7 DEF ExitSection
  <2>2. ASSUME NEW r \in Slots, pc'[r] = "exit_exec", next[r] # NULL
        PROVE  /\ next[r] \notin Queue' /\ next[r] # r
               /\ Startable(next[r])'
    <3>1. PICK m \in Slots : m = next[r]
      BY <1>0, <2>2
    <3>2. m \notin Queue /\ m # executing_process /\ m # r /\ Startable(m)
      BY <2>1, <2>2, <3>1 DEF RaceInv, PoppedInv
    <3>3. Startable(m)'
      BY <1>2, <1>3, <3>2
    <3> QED
      BY <1>4, <3>1, <3>2, <3>3
  <2>3. "exit" \notin raced' => \A r \in Slots : pc'[r] \notin ExitSection
    BY <1>8 DEF Exiting
  <2> QED
    BY <2>1, <2>2, <2>3 DEF RaceInv, PoppedInv, ExitSection
<1>10. FrameInv'
  <2>1. ASSUME NEW b \in Slots, sp'[b] \in Slots, sp'[b] # b
        PROVE  pc'[sp'[b]] = "exit_switch" /\ next[sp'[b]] = b
    <3>1. PICK t \in Slots : t = sp'[b] /\ t = sp[b]
      BY <1>0, <2>1
    <3>2. t # cpu
      BY <1>0, <3>1 DEF RaceInv, RunInv
    <3> QED
      BY <1>0, <2>1, <3>1, <3>2 DEF RaceInv, FrameInv
  <2>2. \A b, c \in Slots : sp'[b] = sp'[c] /\ sp'[b] \in Slots => b = c
    BY <1>0 DEF RaceInv, FrameInv
  <2> QED
    BY <1>0, <2>1, <2>2 DEF FrameInv
<1>11. FreshInv'
  BY <1>0 DEF RaceInv, FreshInv, RunInv
<1>12. BootInv'
  <2>1. pc'[KERNEL] \notin {"create", "start"}
    BY <1>0 DEF RaceInv, BootInv
  <2> QED
    BY <1>0, <1>1, <2>1 DEF RaceInv, BootInv
<1>13. LeaveInv' /\ SpinInv'
  BY <1>0, <1>8 DEF RaceInv, LeaveInv, SpinInv, WaitSteps
<1>14. HolderNext'
  <2>1. \A r \in Queue : r # cpu /\ r \in Slots
    BY <1>3 DEF RaceInv, ListInv
  <2> QED
    BY <1>0, <1>4, <2>1 DEF RaceInv, HolderNext, Holds
<1> QED
  BY <1>5, <1>6, <1>9, <1>10, <1>11, <1>12, <1>13, <1>14 DEF RaceInv

\* What context_switch to the block nxt does to the frames and the processor.
LEMMA FramesMove ==
    ASSUME TypeInv, cpu \in Threads, NEW curr \in Threads \cup {NULL},
           NEW nxt \in Threads, curr # nxt,
           NEW st \in [Threads -> 0 .. 3], context_switch(curr, nxt, st)
    PROVE  /\ \A b \in Threads : sp'[b] = IF b = nxt THEN NULL
                                          ELSE IF b = curr THEN cpu ELSE sp[b]
           /\ cpu' = IF sp[nxt] = NULL THEN HALTED ELSE sp[nxt]
           /\ CR3' = nxt
           /\ \A r \in Threads : r # nxt => state'[r] = st[r]
           /\ state'[nxt] # PROCESS_UNUSED
<1>0. NULL \notin Threads /\ sp \in [Threads -> Threads \cup {NULL}]
  BY SchedTypes
<1> QED
  BY <1>0 DEF context_switch, PROCESS_UNUSED, ASM_PROCESS_RUNNING

\* The running thread ends (curr is the block in which the end of its process
\* saves it, if any): the root of the queue or kernel_main takes over.
LEMMA RaceEnd ==
    ASSUME TypeInv, RaceInv, cpu \in Threads, raced \subseteq raced',
           executing_process # NULL,
           NEW curr \in {cpu, NULL}, curr # KERNEL,
           cpu = KERNEL => "start" \in raced',
           IF pq_is_empty(ready_queue)
           THEN SwitchToKernel(Terminated(executing_process))
           ELSE SwitchToNext(curr, ready_queue, Terminated(executing_process)),
           \A r \in Threads : r # cpu => pc'[r] = pc[r] /\ eax'[r] = eax[r],
           pc'[cpu] = "dead",
           UNCHANGED <<dying, next, spinning>>,
           \A p \in Slots : state[p] = PROCESS_UNUSED => zombie' # p /\ freed'[p] = 0,
           FreeInv'
    PROVE  RaceInv'
<1>0. /\ KERNEL \in Threads /\ KERNEL \notin Slots /\ NULL \notin Slots
      /\ NULL # KERNEL /\ HALTED \notin Threads /\ NULL \notin Threads
      /\ Slots \subseteq Threads /\ Threads = Slots \cup {KERNEL}
      /\ executing_process \in Slots \cup {NULL}
      /\ QueueOK(ready_queue, priority)
  BY SchedTypes
<1>1. PICK e \in Slots : e = executing_process
  BY <1>0
<1>2. state[e] # PROCESS_UNUSED
  BY <1>0, <1>1 DEF RaceInv, ChosenInv, Startable
<1>3. PICK st \in [Threads -> 0 .. 3] :
        /\ st = Terminated(e)
        /\ \A r \in Slots : st[r] = PROCESS_UNUSED <=> state[r] = PROCESS_UNUSED
  BY <1>2, TerminatedEffect
<1>4. CASE pq_is_empty(ready_queue)
  <2>1. /\ executing_process' = NULL /\ ready_queue' = ready_queue
        /\ context_switch(NULL, KERNEL, st)
    BY <1>1, <1>3, <1>4 DEF SwitchToKernel
  <2>2. /\ \A b \in Threads : sp'[b] = IF b = KERNEL THEN NULL
                                       ELSE IF b = NULL THEN cpu ELSE sp[b]
        /\ cpu' = IF sp[KERNEL] = NULL THEN HALTED ELSE sp[KERNEL]
        /\ CR3' = KERNEL
        /\ \A r \in Threads : r # KERNEL => state'[r] = st[r]
    BY SMTT(30), <1>0, <2>1, FramesMove
  <2>3. \A r \in Slots : state'[r] = PROCESS_UNUSED <=> state[r] = PROCESS_UNUSED
    BY <1>0, <1>3, <2>2
  <2>4. \A b \in Threads : sp'[b] = IF b = KERNEL THEN NULL ELSE sp[b]
    BY <1>0, <2>2
  <2> QED
    BY <2>1, <2>2, <2>3, <2>4, RaceBoot
<1>5. CASE ~pq_is_empty(ready_queue)
  <2>1. PICK n : n = pq_peek(ready_queue)
    OBVIOUS
  <2>2. /\ n \in Queue /\ Distinct(pq_pop(ready_queue, priority))
        /\ Queued(pq_pop(ready_queue, priority)) = Queue \ {n}
    BY <1>0, <1>5, <2>1, PopSet DEF RaceInv, ListInv, Queue
  <2>3. n \in Slots /\ Startable(n) /\ n # e /\ n # cpu
    BY <1>1, <2>2, Waiting DEF RaceInv, ListInv
  <2> DEFINE st1 == [st EXCEPT ![n] = PROCESS_RUNNING]
  <2>4. /\ executing_process' = n /\ ready_queue' = pq_pop(ready_queue, priority)
        /\ context_switch(curr, n, st1)
    BY <1>1, <1>3, <1>5, <2>1 DEF SwitchToNext
  <2>5. /\ st1 \in [Threads -> 0 .. 3]
        /\ \A r \in Slots : r # n => st1[r] = st[r]
    BY <1>0, <2>3 DEF PROCESS_RUNNING
  <2> HIDE DEF st1
  <2>6. /\ \A b \in Threads : sp'[b] = IF b = n THEN NULL
                                       ELSE IF b = curr THEN cpu ELSE sp[b]
        /\ cpu' = IF sp[n] = NULL THEN HALTED ELSE sp[n]
        /\ CR3' = n
        /\ \A r \in Threads : r # n => state'[r] = st1[r]
        /\ state'[n] # PROCESS_UNUSED
    <3>1. curr \in Threads \cup {NULL} /\ curr # n /\ n \in Threads
      BY <1>0, <2>3
    <3> QED
      BY <2>4, <2>5, <3>1, FramesMove
  <2>7. \A r \in Slots : state'[r] = PROCESS_UNUSED <=> state[r] = PROCESS_UNUSED
    BY <1>0, <1>3, <2>3, <2>5, <2>6 DEF Startable
  <2>8. Queue' = Queue \ {n} /\ Distinct(ready_queue')
    BY <2>2, <2>4 DEF Queue
  <2>9. HolderNext'
    <3> SUFFICES ASSUME NEW r \in Slots, Holds(r)', r \in Queue' PROVE FALSE
      BY DEF HolderNext
    <3>1. r \in Queue /\ r # n /\ r # cpu
      BY <2>8, Waiting DEF RaceInv, ListInv
    <3>2. Holds(r)
      BY <1>0, <3>1 DEF Holds
    <3> QED
      BY <2>1, <3>1, <3>2 DEF RaceInv, HolderNext
  <2>10. curr \in Threads \cup {NULL} /\ curr # n
    BY <1>0, <2>3
  <2>11. \A p \in Queue' : p \in Queue /\ p # n
    BY <2>8
  <2> QED
    BY <1>0, <2>2, <2>3, <2>4, <2>6, <2>7, <2>8, <2>9, <2>10, <2>11, RaceSwitch
<1> QED
  BY <1>4, <1>5

-----------------------------------------------------------------------------
(* The steps of kernel_main.                                               *)

LEMMA KernelRaceInv ==
    ASSUME TypeInv, RaceInv, KernelStep
    PROVE  RaceInv'
<1>0. /\ KERNEL \in Threads /\ KERNEL \notin Slots /\ NULL \notin Slots
      /\ NULL # KERNEL /\ HALTED \notin Threads /\ NULL \notin Threads
      /\ Slots \subseteq Threads /\ Threads = Slots \cup {KERNEL}
      /\ pc \in [Threads -> ProcessSteps \cup KernelSteps]
      /\ sp \in [Threads -> Threads \cup {NULL}]
      /\ state \in [Threads -> 0 .. 3]
      /\ spinning \in [Slots -> {0, 1}]
      /\ executing_process \in Slots \cup {NULL}
      /\ QueueOK(ready_queue, priority)
  BY SchedTypes
<1>1. cpu = KERNEL /\ raced' = raced
  BY DEF KernelStep, KernelCreate, KernelCreateFails, KernelStartNone,
         KernelStart, KernelSwitch, At
<1>2. /\ \A r \in Slots : pc'[r] = pc[r]
      /\ UNCHANGED <<zombie, freed, dying, next, eax, burst_time>> \/ KernelCreate
      /\ UNCHANGED <<zombie, freed, dying, next, eax>>
  BY <1>0
     DEF KernelStep, KernelCreate, KernelCreateFails, KernelStartNone,
         KernelStart, KernelSwitch, Goto, create_process, schedVars
<1>3. FreeInv'
  BY <1>1, <1>2 DEF RaceInv, FreeInv, Past
<1>4. \A r \in Slots : /\ Exiting(r)' <=> Exiting(r)
                       /\ Leaving(r)' <=> Leaving(r)
                       /\ Holds(r)' <=> Holds(r)
  BY <1>2 DEF Exiting, Leaving, Holds
<1>5. CASE KernelCreateFails \/ KernelStartNone
  <2>1. /\ UNCHANGED <<state, sp, ready_queue, executing_process, CR3, cpu,
                       spinning>>
        /\ pc[KERNEL] \in {"create", "start"} /\ pc'[KERNEL] # "switch"
    BY <1>0, <1>5
       DEF KernelCreateFails, KernelStartNone, schedVars, At, Goto, AfterCreate
  <2>2. SpinInv'
    BY <1>2, <2>1 DEF RaceInv, SpinInv
  <2>3. \A p \in Slots : state[p] = PROCESS_UNUSED =>
          pc'[p] = "entry" /\ zombie' # p /\ freed'[p] = 0
    BY <1>2 DEF RaceInv, FreshInv
  <2> QED
    BY <1>0, <1>1, <1>2, <1>3, <2>1, <2>2, <2>3, RaceQuiet
<1>6. CASE KernelCreate \/ KernelStart
  <2>1. /\ executing_process = NULL /\ CR3 = KERNEL /\ CR3' = CR3 /\ cpu' = cpu
        /\ \A r \in Slots : pc[r] = "entry" /\ pc'[r] = "entry"
    BY <1>0, <1>1, <1>2, <1>6
       DEF KernelCreate, KernelStart, At, RaceInv, BootInv, create_process
  <2>2. PoppedInv' /\ LeaveInv' /\ SpinInv' /\ HolderNext'
    BY <2>1
       DEF PoppedInv, LeaveInv, Exiting, ExitSection, SpinInv, WaitSteps,
           HolderNext, Holds, CriticalSection
  <2>3. RunInv' /\ LoadedInv'
    BY <1>0, <1>1, <2>1 DEF RunInv, LoadedInv
  <2>4. \A r \in Slots : pc'[r] # "dead" /\ ~Leaving(r)'
    BY <2>1 DEF Leaving
  <2>5. CASE KernelCreate
    <3>1. PICK p \in Slots : create_process(p)
      BY <2>5 DEF KernelCreate
    <3>2. /\ executing_process' = NULL
          /\ pc'[KERNEL] # "switch"
          /\ sp' = [sp EXCEPT ![p] = p]
          /\ state' = [state EXCEPT ![p] = PROCESS_READY]
          /\ state[p] = PROCESS_UNUSED
      BY <1>0, <1>1, <2>1, <2>5, <3>1
         DEF KernelCreate, create_process, Unused, Goto, At, AfterCreate
    <3>3. /\ p \notin Queue /\ \A b \in Threads : sp[b] # p
      BY <3>2 DEF RaceInv, ListInv, Startable, FreshInv
    <3>4. QueueOK(ready_queue, priority') /\ priority'[p] = 1
      BY <1>0, <3>1 DEF create_process, QueueOK, TypeInv, TypeOK
    <3>5. Queue' = Queue \cup {p} /\ Distinct(ready_queue')
      <4>1. Distinct(ready_queue) /\ p \notin Queued(ready_queue)
        BY <3>3 DEF RaceInv, ListInv, Queue
      <4>2. /\ Queued(pq_push(ready_queue, p, priority'))
                 = Queued(ready_queue) \cup {p}
            /\ Distinct(pq_push(ready_queue, p, priority'))
        BY <3>4, <4>1, PushSet
      <4> QED
        BY <3>1, <4>2 DEF create_process, Queue
    <3>6. ListInv'
      <4> SUFFICES ASSUME NEW r \in Queue' PROVE r \in Slots /\ state'[r] # PROCESS_UNUSED
        BY <1>0, <2>4, <3>2, <3>5 DEF ListInv, Startable
      <4>1. CASE r = p
        BY <1>0, <3>2, <4>1 DEF PROCESS_READY, PROCESS_UNUSED
      <4>2. CASE r # p
        BY <1>0, <3>2, <3>5, <4>2 DEF RaceInv, ListInv, Startable
      <4> QED
        BY <4>1, <4>2
    <3>7. ChosenInv'
      BY <3>2 DEF ChosenInv
    <3>8. FrameInv'
      <4>1. /\ sp'[KERNEL] = sp[KERNEL] /\ sp'[p] = p
            /\ \A b \in Slots : b # p => sp'[b] = sp[b]
        BY <1>0, <3>2
      <4>2. \A b \in Slots : sp'[b] \in Slots /\ sp'[b] # b => FALSE
        BY <2>1, <4>1 DEF RaceInv, FrameInv
      <4>3. \A b, c \in Slots : sp'[b] = sp'[c] /\ sp'[b] \in Slots => b = c
        BY <1>0, <3>3, <4>1 DEF RaceInv, FrameInv
      <4> QED
        BY <4>1, <4>2, <4>3 DEF RaceInv, FrameInv
    <3>9. FreshInv'
      <4>1. ASSUME NEW r \in Slots, state'[r] = PROCESS_UNUSED
            PROVE  state[r] = PROCESS_UNUSED /\ r # p
        BY <1>0, <3>2, <4>1 DEF PROCESS_READY, PROCESS_UNUSED
      <4>2. ASSUME NEW r \in Slots, state'[r] = PROCESS_UNUSED, NEW b \in Threads
            PROVE  sp'[b] # r
        BY <1>0, <3>2, <4>1, <4>2 DEF RaceInv, FreshInv
      <4> QED
        BY <1>2, <2>1, <4>1, <4>2 DEF RaceInv, FreshInv
    <3>10. BootInv'
      <4>1. \A b \in Slots : "start" \notin raced => sp'[b] # KERNEL
        BY <1>0, <3>2 DEF RaceInv, BootInv
      <4> QED
        BY <1>0, <1>1, <2>1, <3>2, <4>1 DEF BootInv
    <3> QED
      BY <1>3, <2>2, <2>3, <3>6, <3>7, <3>8, <3>9, <3>10 DEF RaceInv
  <2>6. CASE KernelStart
    <3>1. PICK n : n = pq_peek(ready_queue)
      OBVIOUS
    <3>2. /\ n \in Queue /\ Distinct(pq_pop(ready_queue, priority))
          /\ Queued(pq_pop(ready_queue, priority)) = Queue \ {n}
      BY <1>0, <2>6, <3>1, PopSet DEF RaceInv, ListInv, Queue, KernelStart
    <3>3. n \in Slots /\ Startable(n)
      BY <3>2 DEF RaceInv, ListInv
    <3>4. /\ executing_process' = n /\ Queue' = Queue \ {n} /\ Distinct(ready_queue')
          /\ state' = [state EXCEPT ![n] = PROCESS_RUNNING]
          /\ pc'[KERNEL] = "switch" /\ sp' = sp
      BY <1>0, <2>6, <3>1, <3>2 DEF KernelStart, Queue, Goto
    <3>5. \A r \in Slots : state'[r] = PROCESS_UNUSED <=> state[r] = PROCESS_UNUSED
      BY <1>0, <3>3, <3>4 DEF Startable, PROCESS_RUNNING, PROCESS_UNUSED
    <3>6. ListInv' /\ ChosenInv'
      BY <1>0, <1>1, <2>1, <2>4, <3>3, <3>4, <3>5
         DEF RaceInv, ListInv, ChosenInv, Startable
    <3>7. FrameInv' /\ FreshInv' /\ BootInv'
      BY <1>0, <1>1, <1>2, <2>1, <3>4, <3>5
         DEF RaceInv, FrameInv, FreshInv, BootInv
    <3> QED
      BY <1>3, <2>2, <2>3, <3>6, <3>7 DEF RaceInv
  <2> QED
    BY <1>6, <2>5, <2>6
<1>7. CASE KernelSwitch
  <2>1. /\ pc[KERNEL] = "switch" /\ pc'[KERNEL] = "done"
        /\ UNCHANGED <<ready_queue, executing_process, spinning>>
    BY <1>0, <1>7 DEF KernelSwitch, At, Goto
  <2>2. Queue' = Queue
    BY <2>1 DEF Queue
  <2>3. HolderNext'
    BY <1>4, <2>1, <2>2 DEF RaceInv, HolderNext
  <2>4. CASE executing_process = NULL
    <3>1. cpu' = HALTED /\ UNCHANGED <<sp, CR3, state>>
      BY <1>7, <2>4 DEF KernelSwitch
    <3>2. \A r \in Slots : Startable(r)' <=> Startable(r)
      BY <1>2, <3>1 DEF Startable, Leaving
    <3>3. ListInv' /\ ChosenInv' /\ SpinInv'
      BY <1>2, <2>1, <2>2, <2>4, <3>2 DEF RaceInv, ListInv, ChosenInv, SpinInv
    <3>4. PoppedInv'
      <4>1. \A r \in Slots : pc[r] = "exit_exec" /\ next[r] # NULL =>
              Startable(next[r])'
        BY <1>2, <3>2, SchedTypes DEF RaceInv, PoppedInv
      <4> QED
        BY <1>1, <1>2, <2>1, <2>2, <4>1 DEF RaceInv, PoppedInv
    <3>5. RunInv' /\ FreshInv' /\ BootInv'
      BY <1>0, <1>1, <1>2, <2>1, <3>1 DEF RaceInv, RunInv, FreshInv, BootInv
    <3>6. FrameInv'
      BY <1>0, <1>2, <3>1 DEF RaceInv, FrameInv
    <3>7. LeaveInv' /\ LoadedInv'
      BY <1>0, <1>1, <1>2, <1>4, <2>1, <2>4, <3>1
         DEF RaceInv, LeaveInv, LoadedInv, TypeInv, TypeOK
    <3> QED
      BY <1>3, <2>3, <3>3, <3>4, <3>5, <3>6, <3>7 DEF RaceInv
  <2>5. CASE executing_process # NULL
    <3>1. PICK n \in Slots : n = executing_process
      BY <1>0, <2>5
    <3>2. context_switch(KERNEL, n, state) /\ n # KERNEL
      BY <1>0, <1>7, <2>5, <3>1 DEF KernelSwitch
    <3>3. Startable(n)
      BY <1>0, <1>1, <2>5, <3>1 DEF RaceInv, ChosenInv
    <3>4. /\ \A b \in Threads : sp'[b] = IF b = n THEN NULL
                                         ELSE IF b = KERNEL THEN cpu ELSE sp[b]
          /\ cpu' = IF sp[n] = NULL THEN HALTED ELSE sp[n]
          /\ CR3' = n
          /\ \A r \in Threads : r # n => state'[r] = state[r]
          /\ state'[n] # PROCESS_UNUSED
      <4>1. KERNEL \in Threads \cup {NULL} /\ n \in Threads /\ cpu \in Threads
        BY <1>0, <1>1
      <4> QED
        BY SMTT(30), <1>0, <3>2, <4>1, FramesMove
    <3>5. \A r \in Slots : state'[r] = PROCESS_UNUSED <=> state[r] = PROCESS_UNUSED
      BY <1>0, <3>3, <3>4 DEF Startable
    <3>6. /\ \A p \in Queue' : p \in Queue /\ p # n
          /\ Distinct(ready_queue')
      BY <2>1, <2>2, <3>1 DEF RaceInv, ListInv
    <3>7. \A p \in Slots : state[p] = PROCESS_UNUSED => zombie' # p /\ freed'[p] = 0
      BY <1>2 DEF RaceInv, FreshInv
    <3>8. KERNEL \in Threads \cup {NULL} /\ n # cpu
      BY <1>0, <1>1
    <3> QED
      BY <1>0, <1>1, <1>2, <1>3, <2>1, <2>3, <2>5, <3>1, <3>2, <3>3, <3>4,
         <3>5, <3>6, <3>7, <3>8, RaceSwitch
  <2> QED
    BY <2>4, <2>5
<1> QED
  BY <1>5, <1>6, <1>7 DEF KernelStep

-----------------------------------------------------------------------------
(* The steps of the processes.                                             *)

\* The entry functions and the lock, outside process_exit.
LEMMA CodeRaceInv ==
    ASSUME TypeInv, RaceInv, NEW p \in Slots,
           LockStep(p) \/ LoopStep(p) \/ Return(p)
    PROVE  RaceInv'
<1>0. /\ Slots \subseteq Threads /\ NULL \notin Slots
      /\ pc \in [Threads -> ProcessSteps \cup KernelSteps]
      /\ eax \in [Threads -> Int]
      /\ spinning \in [Slots -> {0, 1}]
  BY SchedTypes
<1>1. /\ cpu = p /\ cpu \in Threads
      /\ UNCHANGED <<state, sp, ready_queue, executing_process, CR3, cpu,
                     dying, next, zombie, freed, raced>>
  BY <1>0
     DEF LockStep, LoopStep, LockBegin, LockMov, LockXchg, LockTest, LockEnd,
         Release, Load, Add, Store, Sleep, Return, At, schedVars,
         UnchangedButSpinning
<1>2. /\ pc[p] \notin ExitSection /\ pc'[p] \notin ExitSection \cup {"dead"}
      /\ \A r \in Threads : r # p => pc'[r] = pc[r] /\ eax'[r] = eax[r]
  BY <1>0
     DEF LockStep, LoopStep, LockBegin, LockMov, LockXchg, LockTest, LockEnd,
         Release, Load, Add, Store, Sleep, Return, At, Goto, ExitSection
<1>3. /\ executing_process = p /\ state[p] # PROCESS_UNUSED
      /\ zombie # p /\ ~(freed[p] > 0)
  <2>1. ~Leaving(p) /\ ~Past(p)
    BY <1>0, <1>2, <1>1 DEF Leaving, Past, ExitSection, RaceInv, RunInv
  <2> QED
    BY <1>1, <2>1 DEF RaceInv, RunInv, FreeInv
<1>4. FreeInv'
  BY <1>0, <1>1, <1>2, <1>3 DEF RaceInv, FreeInv, Past
<1>5. SpinInv'
  <2>1. CASE UNCHANGED spinning /\ ~(pc[p] \notin WaitSteps /\ pc'[p] \in WaitSteps)
    BY <1>0, <1>2, <2>1 DEF RaceInv, SpinInv
  <2>2. CASE LockBegin(p)
    <3>1. spinning' = [spinning EXCEPT ![p] = 1]
      BY <1>0, <1>3, <2>2 DEF LockBegin, SetSpinning
    <3> QED
      BY <1>0, <1>2, <3>1 DEF RaceInv, SpinInv
  <2>3. CASE LockEnd(p)
    <3>1. spinning' = [spinning EXCEPT ![p] = 0] /\ pc'[p] = "load"
      BY <1>0, <1>3, <2>3 DEF LockEnd, SetSpinning, Goto
    <3> QED
      BY <1>0, <1>2, <3>1 DEF RaceInv, SpinInv, WaitSteps
  <2> QED
    BY <1>0, <2>1, <2>2, <2>3
       DEF LockStep, LoopStep, LockMov, LockXchg, LockTest, Release, Load, Add,
           Store, Sleep, Return, At, Goto, schedVars, WaitSteps
<1>6. \A r \in Slots : state[r] = PROCESS_UNUSED =>
        pc'[r] = "entry" /\ zombie' # r /\ freed'[r] = 0
  BY <1>0, <1>1, <1>2, <1>3 DEF RaceInv, FreshInv
<1>7. cpu \in Slots /\ ~Exiting(cpu) /\ ~Exiting(cpu)' /\ pc'[cpu] # "dead"
  BY <1>1, <1>2 DEF Exiting
<1> QED
  BY <1>1, <1>2, <1>4, <1>5, <1>6, <1>7, RaceQuiet

\* An exception ends the executing process or stops the machine.
LEMMA FaultRaceInv ==
    ASSUME TypeInv, RaceInv, NEW p \in Slots, Fault(p)
    PROVE  RaceInv'
<1>0. /\ KERNEL \in Threads /\ KERNEL \notin Slots /\ NULL \notin Slots
      /\ Slots \subseteq Threads /\ HALTED \notin Threads
      /\ Threads = Slots \cup {KERNEL}
      /\ pc \in [Threads -> ProcessSteps \cup KernelSteps]
      /\ next \in [Slots -> Slots \cup {NULL}]
      /\ sp \in [Threads -> Threads \cup {NULL}]
  BY SchedTypes
<1>1. /\ cpu = p /\ pc[p] = "entry" /\ pc' = [pc EXCEPT ![p] = "dead"]
      /\ UNCHANGED <<eax, dying, next, raced>>
      /\ \/ process_exit
         \/ /\ cpu' = HALTED
            /\ UNCHANGED <<state, priority, burst_time, spinning, sp,
                           ready_queue, executing_process, zombie, CR3, freed>>
  BY DEF Fault, At, Goto
<1>2. /\ executing_process = p /\ CR3 = p /\ state[p] # PROCESS_UNUSED
      /\ \A b \in Threads : sp[b] # p
  BY <1>1 DEF RaceInv, RunInv, Leaving
<1>3. ~Past(p) /\ zombie # p /\ ~(freed[p] > 0)
  BY <1>1 DEF RaceInv, FreeInv, Past, ExitSection
<1>4. freed \in [Slots -> Nat] /\ freed[p] = 0
  BY <1>3, SchedTypes
<1>5. /\ \A r \in Threads : r # p => pc'[r] = pc[r] /\ eax'[r] = eax[r]
      /\ pc'[p] = "dead"
  BY <1>0, <1>1
<1>6. CASE process_exit
  <2>1. /\ zombie' = p /\ UNCHANGED <<freed, spinning>>
        /\ IF pq_is_empty(ready_queue)
           THEN SwitchToKernel(Terminated(executing_process))
           ELSE SwitchToNext(p, ready_queue, Terminated(executing_process))
    BY <1>2, <1>6 DEF process_exit
  <2>2. FreeInv'
    BY <1>1, <1>4, <1>5, <2>1, <1>0 DEF RaceInv, FreeInv, Past
  <2>3. \A r \in Slots : state[r] = PROCESS_UNUSED => zombie' # r /\ freed'[r] = 0
    BY <1>2, <2>1 DEF RaceInv, FreshInv
  <2>4. p \in {cpu, NULL} /\ p # KERNEL /\ cpu \in Threads /\ executing_process # NULL
        /\ cpu # KERNEL
    BY <1>0, <1>1, <1>2
  <2>5. /\ \A r \in Threads : r # cpu => pc'[r] = pc[r] /\ eax'[r] = eax[r]
        /\ pc'[cpu] = "dead"
    BY <1>1, <1>5
  <2> QED
    BY <1>1, <2>1, <2>2, <2>3, <2>4, <2>5, RaceEnd
<1>7. CASE /\ cpu' = HALTED
           /\ UNCHANGED <<state, priority, burst_time, spinning, sp,
                          ready_queue, executing_process, zombie, CR3, freed>>
  <2>1. Queue' = Queue /\ p \notin Queue
    BY <1>2, <1>7 DEF Queue, RaceInv, ListInv
  <2>2. \A r \in Slots : Startable(r) /\ r # p => Startable(r)'
    BY <1>0, <1>5, <1>7 DEF Startable, Leaving
  <2>3. ListInv' /\ ChosenInv' /\ SpinInv'
    BY <1>0, <1>2, <1>4, <1>5, <1>7, <2>1, <2>2
       DEF RaceInv, ListInv, ChosenInv, SpinInv, WaitSteps
  <2>4. \A r \in Slots : \A s \in ExitSection : pc'[r] = s <=> pc[r] = s
    BY <1>0, <1>1, <1>5 DEF ExitSection
  <2>5. PoppedInv'
    <3>1. \A r \in Slots : /\ pc'[r] = "exit_exec" <=> pc[r] = "exit_exec"
                           /\ pc'[r] = "exit_pop" <=> pc[r] = "exit_pop"
                           /\ pc'[r] = "exit_switch" <=> pc[r] = "exit_switch"
      BY <2>4 DEF ExitSection
    <3>2. \A r \in Slots : pc[r] = "exit_exec" /\ next[r] # NULL => Startable(next[r])'
      BY <1>0, <1>1, <1>2, <2>2 DEF RaceInv, PoppedInv
    <3> QED
      BY <1>1, <1>7, <2>1, <3>1, <3>2 DEF RaceInv, PoppedInv
  <2>6. RunInv' /\ LoadedInv'
    BY <1>0, <1>2, <1>7 DEF RunInv, LoadedInv
  <2>7. FrameInv'
    BY <1>0, <1>1, <1>7, <2>4 DEF RaceInv, FrameInv, ExitSection
  <2>8. FreshInv' /\ FreeInv'
    BY <1>0, <1>1, <1>2, <1>4, <1>5, <1>7 DEF RaceInv, FreshInv, FreeInv, Past
  <2>9. BootInv'
    BY <1>0, <1>1, <1>5, <1>7 DEF RaceInv, BootInv
  <2>10. LeaveInv'
    BY <1>0, <1>1, <1>5, <1>7 DEF RaceInv, LeaveInv, Exiting, ExitSection
  <2>11. HolderNext'
    <3>1. \A r \in Queue : r # p /\ r \in Slots
      BY <2>1 DEF RaceInv, ListInv
    <3> QED
      BY <1>0, <1>5, <1>7, <2>1, <3>1 DEF RaceInv, HolderNext, Holds
  <2> QED
    BY <2>3, <2>5, <2>6, <2>7, <2>8, <2>9, <2>10, <2>11 DEF RaceInv
<1> QED
  BY <1>1, <1>6, <1>7

\* A step inside process_exit before its switch: what the queue, the executing
\* process and the popped process need is left to each step.
LEMMA RaceInside ==
    ASSUME TypeInv, RaceInv, NEW p \in Slots, cpu = p,
           pc[p] \in {"exit_mark"} \cup ExitSection, ~Leaving(p),
           pc'[p] \in ExitSection,
           \A r \in Threads : r # p => pc'[r] = pc[r],
           UNCHANGED <<sp, CR3, cpu, raced, spinning, eax, freed>>,
           \A r \in Slots : state'[r] = PROCESS_UNUSED <=> state[r] = PROCESS_UNUSED,
           zombie' \in {zombie, p}, dying'[p] = p,
           \A r \in Slots : r # p => dying'[r] = dying[r] /\ next'[r] = next[r],
           ~Leaving(p)' => executing_process' = p,
           pc'[p] = "exit_kernel" => executing_process' = NULL,
           pc'[p] = "exit_switch" => executing_process' = next'[p],
           \/ ready_queue' = ready_queue
           \/ \A r \in Queue' : r \in Queue /\ r # pq_peek(ready_queue),
           ListInv', ChosenInv', PoppedInv', FreeInv'
    PROVE  RaceInv'
<1>0. /\ KERNEL \in Threads /\ KERNEL \notin Slots
      /\ Slots \subseteq Threads /\ HALTED \notin Threads
      /\ Threads = Slots \cup {KERNEL}
      /\ sp \in [Threads -> Threads \cup {NULL}]
  BY SchedTypes
<1>1. /\ executing_process = p /\ CR3 = p /\ state[p] # PROCESS_UNUSED
      /\ \A b \in Threads : sp[b] # p
      /\ pc'[p] # "dead" /\ p \notin Queue
  BY DEF RaceInv, RunInv, ListInv, ExitSection
<1>2. RunInv' /\ LoadedInv'
  BY <1>1 DEF RunInv, LoadedInv
<1>3. FrameInv'
  <2>1. ASSUME NEW b \in Slots, sp[b] \in Slots, sp[b] # b
        PROVE  pc'[sp[b]] = "exit_switch" /\ next'[sp[b]] = b
    <3>1. PICK t \in Slots : t = sp[b] /\ t # p
      BY <1>0, <1>1, <2>1
    <3> QED
      BY <1>0, <2>1, <3>1 DEF RaceInv, FrameInv
  <2> QED
    BY <2>1 DEF RaceInv, FrameInv
<1>4. FreshInv'
  <2>1. \A r \in Slots : state'[r] = PROCESS_UNUSED => r # p /\ pc'[r] = pc[r]
    BY <1>0, <1>1
  <2> QED
    BY <2>1 DEF RaceInv, FreshInv
<1>5. BootInv'
  BY <1>0 DEF RaceInv, BootInv
<1>6. LeaveInv'
  BY <1>0 DEF RaceInv, LeaveInv, Exiting
<1>7. SpinInv'
  BY <1>0 DEF RaceInv, SpinInv, ExitSection, WaitSteps
<1>8. HolderNext'
  <2> SUFFICES ASSUME NEW r \in Slots, Holds(r)', r \in Queue'
               PROVE  pq_peek(ready_queue') = r
    BY DEF HolderNext
  <2>1. r # p
    BY DEF Holds, ExitSection, CriticalSection
  <2>2. Holds(r)
    BY <1>0, <2>1 DEF Holds
  <2>3. r \in Queue
    BY DEF Queue
  <2> QED
    BY <2>2, <2>3 DEF RaceInv, HolderNext
<1> QED
  BY <1>2, <1>3, <1>4, <1>5, <1>6, <1>7, <1>8 DEF RaceInv

LEMMA ExitRaceInv ==
    ASSUME TypeInv, RaceInv, NEW p \in Slots, ExitStep(p)
    PROVE  RaceInv'
<1>0. /\ KERNEL \in Threads /\ KERNEL \notin Slots /\ NULL \notin Slots
      /\ NULL # KERNEL /\ HALTED \notin Threads /\ NULL \notin Threads
      /\ Slots \subseteq Threads /\ Threads = Slots \cup {KERNEL}
      /\ pc \in [Threads -> ProcessSteps \cup KernelSteps]
      /\ sp \in [Threads -> Threads \cup {NULL}]
      /\ state \in [Threads -> 0 .. 3]
      /\ freed \in [Slots -> Nat]
      /\ dying \in [Slots -> Slots \cup {NULL}]
      /\ next \in [Slots -> Slots \cup {NULL}]
      /\ executing_process \in Slots \cup {NULL}
      /\ QueueOK(ready_queue, priority)
  BY SchedTypes
<1>1. /\ cpu = p /\ cpu \in Threads /\ pc[p] \in {"exit_mark"} \cup ExitSection
      /\ UnchangedByExit
  BY <1>0
     DEF ExitStep, ExitMark, ExitZombie, ExitTest, ExitIdle, ExitKernel,
         ExitPop, ExitExec, ExitSwitch, At, ExitSection
<1>2. /\ freed' = freed /\ spinning' = spinning /\ eax' = eax
      /\ priority' = priority /\ raced' = raced
  BY <1>1 DEF UnchangedByExit
<1>3. /\ state[p] # PROCESS_UNUSED /\ pc[p] # "dead"
      /\ ~Leaving(p) => executing_process = p
      /\ Exiting(p) => dying[p] = p
  BY <1>1 DEF RaceInv, RunInv, LeaveInv
<1>4. \A r \in Threads : r # p => pc'[r] = pc[r]
  BY <1>0
     DEF ExitStep, ExitMark, ExitZombie, ExitTest, ExitIdle, ExitKernel,
         ExitPop, ExitExec, ExitSwitch, Goto
<1>5. /\ freed[p] > 0 => "exit" \in raced
      /\ zombie = p => Past(p)
      /\ freed[p] > 0 => Past(p)
  BY <1>3 DEF RaceInv, FreeInv
<1>6. \A r \in Slots : state'[r] = state[r] /\ r # p /\ Startable(r) => Startable(r)'
  BY <1>0, <1>4 DEF Startable, Leaving
<1>7. (zombie' = zombie /\ Past(p) /\ Past(p)') => FreeInv'
  BY <1>0, <1>2, <1>4, <1>5 DEF RaceInv, FreeInv, Past
<1>8. CASE ExitMark(p) \/ ExitZombie(p) \/ ExitTest(p)
  <2>1. /\ pc[p] \in {"exit_mark", "exit_zombie", "exit_test"}
        /\ pc'[p] \in {"exit_zombie", "exit_test", "exit_idle", "exit_pop"}
        /\ UNCHANGED <<sp, ready_queue, executing_process, CR3, cpu, next>>
    BY <1>0, <1>8 DEF ExitMark, ExitZombie, ExitTest, At, Goto
  <2>2. executing_process = p /\ ~Leaving(p) /\ ~Leaving(p)'
    BY <1>3, <2>1 DEF Leaving
  <2>3. \A r \in Slots : state'[r] = PROCESS_UNUSED <=> state[r] = PROCESS_UNUSED
    <3>1. CASE ExitMark(p)
      BY <1>3, <2>2, <3>1, TerminatedEffect DEF ExitMark
    <3> QED
      BY <1>8, <3>1 DEF ExitZombie, ExitTest
  <2>4. /\ dying'[p] = p /\ \A r \in Slots : r # p => dying'[r] = dying[r]
    <3>1. CASE ExitMark(p)
      BY <1>0, <2>2, <3>1 DEF ExitMark
    <3>2. CASE ExitZombie(p) \/ ExitTest(p)
      BY <1>3, <3>2 DEF ExitZombie, ExitTest, At, Exiting, ExitSection
    <3> QED
      BY <1>8, <3>1, <3>2
  <2>5. Queue' = Queue
    BY <2>1 DEF Queue
  <2>6. \A r \in Slots : Startable(r) => Startable(r)'
    BY <1>0, <1>4, <2>1, <2>2, <2>3 DEF Startable, Leaving
  <2>7. ListInv' /\ ChosenInv'
    BY <1>0, <1>1, <2>1, <2>5, <2>6 DEF RaceInv, ListInv, ChosenInv
  <2>8. \A r \in Slots : /\ pc'[r] = "exit_exec" <=> pc[r] = "exit_exec"
                         /\ pc'[r] = "exit_switch" <=> pc[r] = "exit_switch"
    BY <1>0, <1>4, <2>1
  <2>9. \A r \in Slots : pc[r] = "exit_exec" /\ next[r] # NULL => Startable(next[r])'
    BY <1>0, <2>1, <2>6 DEF RaceInv, PoppedInv
  <2>10. pc'[p] = "exit_pop" => ~pq_is_empty(ready_queue)
    BY <1>0, <1>8 DEF ExitMark, ExitZombie, ExitTest, Goto
  <2>11. PoppedInv'
    <3>1. "exit" \notin raced => \A r \in Slots : pc'[r] = "exit_pop" => r = p
      BY <1>0, <1>1, <1>4 DEF RaceInv, LeaveInv, Exiting, ExitSection
    <3> QED
      BY <1>2, <2>1, <2>5, <2>8, <2>9, <2>10, <3>1 DEF RaceInv, PoppedInv
  <2>12. FreeInv'
    <3>1. CASE ExitMark(p)
      <4>1. /\ pc[p] = "exit_mark" /\ zombie' = zombie
        BY <3>1 DEF ExitMark, At
      <4>2. ~Past(p)
        BY <4>1 DEF Past, ExitSection
      <4> QED
        BY <1>0, <1>2, <1>4, <1>5, <4>1, <4>2 DEF RaceInv, FreeInv, Past
    <3>2. CASE ExitZombie(p)
      <4>1. /\ pc[p] = "exit_zombie" /\ pc'[p] = "exit_test" /\ zombie' = p
        BY <1>0, <1>3, <3>2 DEF ExitZombie, At, Goto, Exiting, ExitSection
      <4>2. ~Past(p) /\ Past(p)'
        BY <4>1 DEF Past, ExitSection
      <4>3. ~(freed[p] > 0) /\ freed[p] = 0
        BY <1>0, <1>5, <4>2
      <4> QED
        BY <1>0, <1>2, <1>4, <4>1, <4>2, <4>3 DEF RaceInv, FreeInv, Past
    <3>3. CASE ExitTest(p)
      <4>1. /\ pc[p] = "exit_test" /\ pc'[p] \in {"exit_idle", "exit_pop"}
            /\ zombie' = zombie
        BY <1>0, <3>3 DEF ExitTest, At, Goto
      <4>2. Past(p) /\ Past(p)'
        BY <4>1 DEF Past, ExitSection
      <4> QED
        BY <1>7, <4>1, <4>2
    <3> QED
      BY <1>8, <3>1, <3>2, <3>3
  <2>13. zombie' \in {zombie, p} /\ pc'[p] \in ExitSection
    BY <1>3, <1>8, <2>1
       DEF ExitMark, ExitZombie, ExitTest, At, Exiting, ExitSection
  <2> QED
    BY <1>1, <1>2, <1>4, <2>1, <2>2, <2>3, <2>4, <2>7, <2>11, <2>12, <2>13,
       RaceInside DEF Leaving
<1>9. CASE ExitIdle(p)
  <2>1. /\ pc[p] = "exit_idle" /\ pc'[p] = "exit_kernel"
        /\ executing_process' = NULL
        /\ UNCHANGED <<state, sp, ready_queue, zombie, CR3, cpu, dying, next>>
    BY <1>0, <1>9 DEF ExitIdle, At, Goto
  <2>2. executing_process = p /\ ~Leaving(p) /\ dying[p] = p
    BY <1>3, <2>1 DEF Leaving, Exiting, ExitSection
  <2>3. Queue' = Queue /\ p \notin Queue
    BY <2>1, <2>2 DEF Queue, RaceInv, ListInv
  <2>4. ListInv' /\ ChosenInv'
    BY <1>0, <1>6, <2>1, <2>3 DEF RaceInv, ListInv, ChosenInv
  <2>5. \A r \in Slots : /\ pc'[r] = "exit_exec" <=> pc[r] = "exit_exec"
                         /\ pc'[r] = "exit_pop" <=> pc[r] = "exit_pop"
                         /\ pc'[r] = "exit_switch" <=> pc[r] = "exit_switch"
    BY <1>0, <1>4, <2>1
  <2>6. \A r \in Slots : pc[r] = "exit_exec" /\ next[r] # NULL => Startable(next[r])'
    BY <1>0, <1>6, <2>1, <2>2 DEF RaceInv, PoppedInv
  <2>7. PoppedInv'
    BY <1>0, <1>2, <2>1, <2>3, <2>5, <2>6 DEF RaceInv, PoppedInv
  <2>8. FreeInv'
    BY <1>7, <2>1 DEF Past, ExitSection
  <2>9. pc'[p] \in ExitSection /\ Leaving(p)'
    BY <2>1 DEF ExitSection, Leaving
  <2> QED
    BY <1>1, <1>2, <1>4, <2>1, <2>2, <2>4, <2>7, <2>8, <2>9, RaceInside
<1>10. CASE ExitPop(p)
  <2>1. /\ pc[p] = "exit_pop" /\ pc'[p] = "exit_exec"
        /\ UNCHANGED <<state, sp, executing_process, zombie, CR3, cpu, dying>>
        /\ \A r \in Slots : r # p => next'[r] = next[r]
        /\ IF pq_is_empty(ready_queue)
           THEN next'[p] = NULL /\ ready_queue' = ready_queue
           ELSE /\ next'[p] = pq_peek(ready_queue)
                /\ ready_queue' = pq_pop(ready_queue, priority)
    BY <1>0, <1>10 DEF ExitPop, At, Goto
  <2>2. executing_process = p /\ ~Leaving(p) /\ ~Leaving(p)' /\ dying[p] = p
    BY <1>3, <2>1 DEF Leaving, Exiting, ExitSection
  <2>3. \A r \in Slots : Startable(r) => Startable(r)'
    BY <1>6, <2>1, <2>2 DEF Startable
  <2>4. \A r \in Slots : r # p =>
          /\ pc'[r] = "exit_exec" <=> pc[r] = "exit_exec"
          /\ pc'[r] \in ExitSection => "exit" \in raced
    BY <1>0, <1>1, <1>4 DEF RaceInv, LeaveInv, Exiting
  <2>5. FreeInv'
    BY <1>7, <2>1 DEF Past, ExitSection
  <2>6. pc'[p] \in ExitSection
    BY <2>1 DEF ExitSection
  <2>7. ChosenInv'
    BY <1>0, <1>1, <2>1, <2>3 DEF RaceInv, ChosenInv
  <2>8. CASE pq_is_empty(ready_queue)
    <3>1. Queue' = Queue /\ ready_queue' = ready_queue /\ next'[p] = NULL
      BY <2>1, <2>8 DEF Queue
    <3>2. ListInv'
      BY <2>1, <2>3, <3>1 DEF RaceInv, ListInv
    <3>3. "exit" \in raced
      BY <2>1, <2>8 DEF RaceInv, PoppedInv
    <3>4. \A r \in Slots : pc'[r] = "exit_exec" /\ next'[r] # NULL =>
            /\ r # p /\ pc[r] = "exit_exec" /\ next'[r] = next[r]
            /\ Startable(next[r])'
      BY <1>0, <2>1, <2>3, <2>4, <3>1 DEF RaceInv, PoppedInv
    <3>5. PoppedInv'
      BY <1>2, <2>1, <3>1, <3>3, <3>4 DEF RaceInv, PoppedInv, Startable, Leaving
    <3> QED
      BY <1>1, <1>2, <1>4, <2>1, <2>2, <2>5, <2>6, <2>7, <3>1, <3>2, <3>5,
         RaceInside
  <2>9. CASE ~pq_is_empty(ready_queue)
    <3>0. PICK n : n = pq_peek(ready_queue)
      OBVIOUS
    <3>1. /\ n \in Queue /\ Distinct(pq_pop(ready_queue, priority))
          /\ Queued(pq_pop(ready_queue, priority)) = Queue \ {n}
      BY <1>0, <2>9, <3>0, PopSet DEF RaceInv, ListInv, Queue
    <3>2. /\ next'[p] = n /\ Queue' = Queue \ {n} /\ Distinct(ready_queue')
      BY <2>1, <2>9, <3>0, <3>1 DEF Queue
    <3>3. n \in Slots /\ n # p /\ Startable(n)
      BY <2>2, <3>1 DEF RaceInv, ListInv
    <3>4. ListInv'
      BY <2>1, <2>3, <3>2 DEF RaceInv, ListInv
    <3>5. ASSUME NEW r \in Slots, r # p, pc'[r] = "exit_exec", next'[r] # NULL
          PROVE  /\ pc[r] = "exit_exec" /\ next'[r] = next[r]
                 /\ next[r] \notin Queue /\ next[r] # p /\ next[r] # r
                 /\ next[r] # n /\ Startable(next[r])'
      <4>1. PICK m \in Slots : m = next[r] /\ next'[r] = m
        BY <1>0, <2>1, <3>5
      <4>2. m \notin Queue /\ m # p /\ m # r /\ Startable(m)
        BY <1>0, <2>2, <2>4, <3>5, <4>1 DEF RaceInv, PoppedInv
      <4> QED
        BY <2>3, <2>4, <3>1, <3>5, <4>1, <4>2
    <3>6. Startable(n)'
      BY <2>3, <3>3
    <3>7. PoppedInv'
      <4>1. ASSUME NEW r \in Slots, pc'[r] = "exit_exec", next'[r] # NULL
            PROVE  /\ next'[r] \notin Queue' /\ next'[r] # executing_process'
                   /\ next'[r] # r /\ Startable(next[r])'
        <5>1. CASE r = p
          BY <2>1, <2>2, <3>2, <3>3, <3>6, <5>1
        <5>2. CASE r # p
          BY <2>1, <2>2, <3>2, <3>5, <4>1, <5>2
        <5> QED
          BY <5>1, <5>2
      <4>2. ASSUME NEW r \in Slots, NEW s \in Slots, pc'[r] = "exit_exec",
                   pc'[s] = "exit_exec", next'[r] = next'[s], next'[r] # NULL
            PROVE  r = s
        <5>1. CASE r = p \/ s = p
          BY <3>2, <3>5, <4>2, <5>1
        <5>2. CASE r # p /\ s # p
          BY <3>5, <4>2, <5>2 DEF RaceInv, PoppedInv
        <5> QED
          BY <5>1, <5>2
      <4>3. "exit" \notin raced => \A r \in Slots :
              /\ pc'[r] # "exit_pop"
              /\ pc'[r] \in {"exit_exec", "exit_switch"} => next'[r] # NULL
        BY <1>0, <2>1, <2>4, <3>2, <3>3 DEF ExitSection
      <4> QED
        BY <1>2, <4>1, <4>2, <4>3 DEF PoppedInv
    <3>8. \A r \in Queue' : r \in Queue /\ r # pq_peek(ready_queue)
      BY <3>0, <3>2
    <3> QED
      BY <1>1, <1>2, <1>4, <2>1, <2>2, <2>5, <2>6, <2>7, <3>4, <3>7, <3>8,
         RaceInside
  <2> QED
    BY <2>8, <2>9
<1>11. CASE ExitExec(p)
  <2>1. /\ pc[p] = "exit_exec" /\ pc'[p] = "exit_switch"
        /\ executing_process' = next[p]
        /\ UNCHANGED <<sp, ready_queue, zombie, CR3, cpu, dying, next>>
        /\ state' = IF next[p] = NULL THEN state
                    ELSE [state EXCEPT ![next[p]] = PROCESS_RUNNING]
    BY <1>0, <1>11 DEF ExitExec, At, Goto
  <2>2. executing_process = p /\ ~Leaving(p) /\ Leaving(p)' /\ dying[p] = p
    BY <1>3, <2>1 DEF Leaving, Exiting, ExitSection
  <2>3. Queue' = Queue /\ p \notin Queue
    BY <2>1, <2>2 DEF Queue, RaceInv, ListInv
  <2>4. PICK n \in Slots \cup {NULL} : n = next[p]
    BY <1>0
  <2>5. n # NULL => n \in Slots /\ n \notin Queue /\ n # p /\ Startable(n)
    BY <1>0, <2>1, <2>4 DEF RaceInv, PoppedInv
  <2>6. \A r \in Slots : state'[r] = PROCESS_UNUSED <=> state[r] = PROCESS_UNUSED
    BY <1>0, <2>1, <2>4, <2>5 DEF Startable, PROCESS_RUNNING, PROCESS_UNUSED
  <2>7. \A r \in Slots : r # p /\ Startable(r) => Startable(r)'
    BY <1>0, <1>4, <2>6 DEF Startable, Leaving
  <2>8. ListInv' /\ ChosenInv'
    BY <1>0, <1>1, <2>1, <2>3, <2>4, <2>5, <2>7 DEF RaceInv, ListInv, ChosenInv
  <2>9. \A r \in Slots : r # p =>
          /\ pc'[r] = "exit_exec" <=> pc[r] = "exit_exec"
          /\ pc'[r] \in ExitSection => "exit" \in raced
    BY <1>0, <1>1, <1>4 DEF RaceInv, LeaveInv, Exiting
  <2>10. PoppedInv'
    <3>1. ASSUME NEW r \in Slots, pc'[r] = "exit_exec", next[r] # NULL
          PROVE  /\ pc[r] = "exit_exec"
                 /\ next[r] \notin Queue' /\ next[r] # executing_process'
                 /\ next[r] # r /\ Startable(next[r])'
      <4>1. PICK m \in Slots : m = next[r]
        BY <1>0, <3>1
      <4>2. r # p /\ pc[r] = "exit_exec"
        BY <2>1, <2>9, <3>1
      <4>3. m \notin Queue /\ m # p /\ m # r /\ Startable(m)
        BY <1>0, <2>2, <3>1, <4>1, <4>2 DEF RaceInv, PoppedInv
      <4>4. m # n
        BY <2>1, <2>4, <3>1, <4>1, <4>2 DEF RaceInv, PoppedInv
      <4>5. Startable(m)'
        BY <2>7, <4>3
      <4>6. /\ m \notin Queue' /\ m # executing_process' /\ m # r
        BY <2>1, <2>3, <2>4, <4>3, <4>4
      <4> QED
        BY <2>1, <4>1, <4>2, <4>5, <4>6
    <3>2. "exit" \notin raced => \A r \in Slots :
            /\ pc'[r] # "exit_pop"
            /\ pc'[r] \in {"exit_exec", "exit_switch"} => next[r] # NULL
      BY <1>0, <2>1, <2>9 DEF RaceInv, PoppedInv, ExitSection
    <3> QED
      BY <1>2, <2>1, <3>1, <3>2 DEF RaceInv, PoppedInv
  <2>11. FreeInv'
    BY <1>7, <2>1 DEF Past, ExitSection
  <2>12. pc'[p] \in ExitSection
    BY <2>1 DEF ExitSection
  <2> QED
    BY <1>1, <1>2, <1>4, <2>1, <2>2, <2>6, <2>8, <2>10, <2>11, <2>12, RaceInside
<1>12. \A r \in Slots : state[r] = PROCESS_UNUSED => zombie # r /\ freed'[r] = 0
  BY <1>2 DEF RaceInv, FreshInv
<1>13. CASE ExitKernel(p)
  <2>1. /\ pc[p] = "exit_kernel" /\ pc'[p] = "dead"
        /\ context_switch(NULL, KERNEL, state)
        /\ UNCHANGED <<ready_queue, executing_process, zombie, dying, next>>
    BY <1>0, <1>13 DEF ExitKernel, At, Goto
  <2>2. executing_process = NULL
    BY <1>1, <2>1 DEF RaceInv, RunInv
  <2>3. /\ \A b \in Threads : sp'[b] = IF b = KERNEL THEN NULL
                                       ELSE IF b = NULL THEN cpu ELSE sp[b]
        /\ cpu' = IF sp[KERNEL] = NULL THEN HALTED ELSE sp[KERNEL]
        /\ CR3' = KERNEL
        /\ \A r \in Threads : r # KERNEL => state'[r] = state[r]
    <3>1. NULL \in Threads \cup {NULL} /\ KERNEL \in Threads /\ NULL # KERNEL
          /\ cpu \in Threads /\ state \in [Threads -> 0 .. 3]
      BY <1>0, <1>1
    <3> QED
      BY <2>1, <3>1, FramesMove
  <2>4. \A r \in Slots : state'[r] = PROCESS_UNUSED <=> state[r] = PROCESS_UNUSED
    BY <1>0, <2>3
  <2>5. \A b \in Threads : sp'[b] = IF b = KERNEL THEN NULL ELSE sp[b]
    BY <1>0, <2>3
  <2>6. FreeInv'
    BY <1>7, <2>1 DEF Past, ExitSection
  <2> QED
    BY <1>1, <1>2, <1>4, <1>12, <2>1, <2>2, <2>3, <2>4, <2>5, <2>6, RaceBoot
<1>14. CASE ExitSwitch(p)
  <2>0. PICK n \in Slots \cup {NULL} : n = next[p]
    BY <1>0
  <2>1. /\ pc[p] = "exit_switch" /\ pc'[p] = "dead"
        /\ IF n = NULL THEN cpu' = HALTED /\ UNCHANGED <<state, sp, CR3>>
           ELSE context_switch(dying[p], n, state)
        /\ UNCHANGED <<ready_queue, executing_process, zombie, dying, next>>
    BY <1>0, <1>14, <2>0 DEF ExitSwitch, At, Goto
  <2>2. executing_process = n /\ dying[p] = p
    BY <1>1, <1>3, <2>0, <2>1 DEF RaceInv, RunInv, Exiting, ExitSection
  <2>3. FreeInv'
    BY <1>7, <2>1 DEF Past, ExitSection
  <2>4. Queue' = Queue /\ p \notin Queue
    BY <2>1 DEF Queue, RaceInv, ListInv, Startable, Leaving
  <2>5. HolderNext'
    <3>1. \A r \in Queue : r \in Slots /\ r # p
      BY <2>4 DEF RaceInv, ListInv
    <3> QED
      BY <1>0, <1>2, <1>4, <2>1, <2>4, <3>1 DEF RaceInv, HolderNext, Holds
  <2>6. CASE n = NULL
    <3>1. cpu' = HALTED /\ UNCHANGED <<state, sp, CR3>>
      BY <2>1, <2>6
    <3>2. \A r \in Slots : Startable(r) /\ r # p => Startable(r)'
      BY <1>6, <3>1
    <3>3. ListInv' /\ ChosenInv' /\ SpinInv'
      BY <1>0, <1>2, <1>4, <2>1, <2>2, <2>4, <2>6, <3>2
         DEF RaceInv, ListInv, ChosenInv, SpinInv, WaitSteps
    <3>4. "exit" \in raced
      BY <2>0, <2>1, <2>6 DEF RaceInv, PoppedInv
    <3>5. \A r \in Slots : pc'[r] = "exit_exec" => pc[r] = "exit_exec"
      BY <1>0, <1>4, <2>1
    <3>6. \A r \in Slots : pc'[r] = "exit_exec" /\ next[r] # NULL => Startable(next[r])'
      BY <1>0, <2>1, <3>2, <3>5 DEF RaceInv, PoppedInv, Startable, Leaving
    <3>7. PoppedInv'
      BY <1>2, <2>1, <2>4, <3>4, <3>5, <3>6 DEF RaceInv, PoppedInv
    <3>8. RunInv' /\ LoadedInv'
      BY <1>0, <1>2, <3>1, <3>4 DEF RunInv, LoadedInv
    <3>9. FrameInv'
      <4>1. ASSUME NEW b \in Slots, sp[b] \in Slots, sp[b] # b
            PROVE  pc'[sp[b]] = "exit_switch" /\ next[sp[b]] = b
        <5>1. PICK t \in Slots : t = sp[b] /\ t # p
          BY <1>0, <1>1, <4>1 DEF RaceInv, RunInv
        <5> QED
          BY <1>0, <1>4, <4>1, <5>1 DEF RaceInv, FrameInv
      <4> QED
        BY <2>1, <3>1, <4>1 DEF RaceInv, FrameInv
    <3>10. FreshInv'
      <4>1. \A r \in Slots : state[r] = PROCESS_UNUSED => r # p /\ pc'[r] = pc[r]
        BY <1>0, <1>3, <1>4
      <4> QED
        BY <1>2, <2>1, <3>1, <4>1 DEF RaceInv, FreshInv
    <3>11. BootInv'
      BY <1>0, <1>1, <1>2, <1>4, <3>1 DEF RaceInv, BootInv
    <3>12. LeaveInv'
      BY <1>0, <1>2, <1>4, <2>1, <3>4 DEF RaceInv, LeaveInv, Exiting, ExitSection
    <3> QED
      BY <2>3, <2>5, <3>3, <3>7, <3>8, <3>9, <3>10, <3>11, <3>12 DEF RaceInv
  <2>7. CASE n # NULL
    <3>1. n \in Slots /\ Startable(n) /\ n \notin Queue /\ n # p
      <4>1. n \in Slots /\ cpu # HALTED
        BY <1>0, <1>1, <2>7
      <4>2. Startable(n)
        BY <2>2, <2>7, <4>1 DEF RaceInv, ChosenInv
      <4> QED
        BY <2>1, <2>2, <4>1, <4>2 DEF RaceInv, ListInv, Startable, Leaving
    <3>2. context_switch(p, n, state) /\ p \in Threads \cup {NULL} /\ n \in Threads
      BY <1>0, <2>1, <2>2, <2>7, <3>1
    <3>3. /\ \A b \in Threads : sp'[b] = IF b = n THEN NULL
                                         ELSE IF b = p THEN cpu ELSE sp[b]
          /\ cpu' = IF sp[n] = NULL THEN HALTED ELSE sp[n]
          /\ CR3' = n
          /\ \A r \in Threads : r # n => state'[r] = state[r]
          /\ state'[n] # PROCESS_UNUSED
      <4>1. cpu \in Threads /\ state \in [Threads -> 0 .. 3] /\ p # n
        BY <1>0, <1>1, <3>1
      <4> QED
        BY <3>2, <4>1, FramesMove
    <3>4. \A r \in Slots : state'[r] = PROCESS_UNUSED <=> state[r] = PROCESS_UNUSED
      BY <1>0, <3>1, <3>3 DEF Startable
    <3>5. /\ \A r \in Queue' : r \in Queue /\ r # n
          /\ Distinct(ready_queue')
      BY <2>1, <2>4, <3>1 DEF RaceInv, ListInv
    <3>6. p # KERNEL /\ cpu # KERNEL /\ cpu \in Slots /\ executing_process' = n
      BY <1>0, <1>1, <2>1, <2>2
    <3>7. /\ \A r \in Threads : r # cpu => pc'[r] = pc[r]
          /\ pc'[cpu] = "dead"
          /\ \A r \in Slots : state[r] = PROCESS_UNUSED => zombie' # r /\ freed'[r] = 0
      BY <1>1, <1>4, <1>12, <2>1
    <3> QED
      BY <1>1, <1>2, <2>1, <2>2, <2>3, <2>5, <3>1, <3>2, <3>3, <3>4, <3>5, <3>6,
         <3>7, RaceSwitch
  <2> QED
    BY <2>6, <2>7
<1> QED
  BY <1>8, <1>9, <1>10, <1>11, <1>13, <1>14 DEF ExitStep

-----------------------------------------------------------------------------
(* Interrupts.                                                             *)

\* A tick frees the zombie for the first time; it has ended, unless a tick has
\* fallen into process_exit.
LEMMA FreeRace ==
    ASSUME TypeInv, RaceInv, free_zombie, raced \subseteq raced',
           Exiting(cpu) => "exit" \in raced'
    PROVE  /\ zombie' = NULL
           /\ \A r \in Slots :
                /\ freed'[r] > 0 => /\ freed'[r] = 1 /\ Past(r)
                                    /\ "exit" \in raced' \/ pc[r] = "dead"
                /\ state[r] = PROCESS_UNUSED => freed'[r] = 0
<1>0. /\ freed \in [Slots -> Nat] /\ zombie \in Slots \cup {NULL}
      /\ NULL \notin Slots
  BY SchedTypes
<1>1. zombie' = NULL
      /\ freed' = IF zombie = NULL THEN freed
                  ELSE [freed EXCEPT ![zombie] = @ + 1]
  BY DEF free_zombie
<1>2. CASE zombie = NULL
  BY <1>0, <1>1, <1>2 DEF RaceInv, FreeInv, FreshInv
<1>3. CASE zombie # NULL
  <2>1. PICK z \in Slots : z = zombie
    BY <1>0, <1>3
  <2>2. Past(z) /\ freed[z] = 0 /\ state[z] # PROCESS_UNUSED
    BY <2>1 DEF RaceInv, FreeInv, FreshInv
  <2>3. "exit" \in raced' \/ pc[z] = "dead"
    BY <2>2 DEF Past, RaceInv, LeaveInv, Exiting
  <2>4. freed' = [freed EXCEPT ![z] = 1]
    BY <1>0, <1>1, <1>3, <2>1, <2>2
  <2> QED
    BY <1>0, <1>1, <2>2, <2>3, <2>4 DEF RaceInv, FreeInv, FreshInv
<1> QED
  BY <1>2, <1>3

LEMMA TickRaceInv ==
    ASSUME TypeInv, RaceInv, Tick
    PROVE  RaceInv'
<1>0. /\ KERNEL \in Threads /\ KERNEL \notin Slots /\ NULL \notin Slots
      /\ NULL # KERNEL /\ NULL \notin Threads
      /\ Slots \subseteq Threads /\ HALTED \notin Threads
      /\ Threads = Slots \cup {KERNEL}
      /\ pc \in [Threads -> ProcessSteps \cup KernelSteps]
      /\ eax \in [Threads -> Int]
      /\ state \in [Threads -> 0 .. 3]
      /\ cpu \in Threads \cup {HALTED}
      /\ next \in [Slots -> Slots \cup {NULL}]
      /\ executing_process \in Slots \cup {NULL}
      /\ QueueOK(ready_queue, priority)
  BY SchedTypes
<1>1. /\ cpu \in Threads /\ cpu # HALTED /\ pc[cpu] # "dead" /\ free_zombie
      /\ raced' = raced \cup Section(pc[cpu])
      /\ UNCHANGED <<spinning, dying, next, priority>>
  BY <1>0
     DEF Tick, TickReturns, TickExpires, Interruptible, SchedulerIdle,
         SchedulerKeep, SchedulerPreempt, SchedulerExpire, Charge
<1>2. /\ raced \subseteq raced'
      /\ Exiting(cpu) => "exit" \in raced'
      /\ pc[cpu] = "switch" => "start" \in raced'
  BY <1>1 DEF Section, Exiting, ExitSection
<1>3. /\ zombie' = NULL
      /\ \A r \in Slots :
           /\ freed'[r] > 0 => /\ freed'[r] = 1 /\ Past(r)
                               /\ "exit" \in raced' \/ pc[r] = "dead"
           /\ state[r] = PROCESS_UNUSED => freed'[r] = 0
  BY <1>1, <1>2, FreeRace
<1>4. (\A r \in Slots : pc'[r] \in {pc[r], "dead"}) => FreeInv'
  BY <1>0, <1>3 DEF FreeInv, Past
<1>5. \A r \in Slots : state[r] = PROCESS_UNUSED => zombie' # r /\ freed'[r] = 0
  BY <1>0, <1>3
<1>6. executing_process # NULL =>
        /\ executing_process \in Slots /\ Startable(executing_process)
        /\ executing_process \notin Queue
        /\ cpu = KERNEL => "start" \in raced'
        /\ cpu # KERNEL /\ cpu # executing_process =>
             pc[cpu] = "exit_switch" /\ next[cpu] = executing_process
  <2>1. ASSUME executing_process # NULL, cpu = KERNEL, "start" \notin raced
        PROVE  pc[cpu] = "switch"
    BY <2>1 DEF RaceInv, BootInv
  <2>2. ASSUME executing_process # NULL, cpu # KERNEL, cpu # executing_process
        PROVE  pc[cpu] = "exit_switch" /\ next[cpu] = executing_process
    BY <1>0, <1>1, <2>2 DEF RaceInv, RunInv, Leaving
  <2> QED
    BY <1>0, <1>1, <1>2, <2>1, <2>2 DEF RaceInv, ChosenInv, ListInv
<1>7. CASE TickReturns /\ (SchedulerIdle \/ SchedulerKeep)
  <2>1. /\ UNCHANGED <<state, sp, ready_queue, executing_process, CR3, cpu, pc>>
        /\ ClobberAl
    BY <1>7 DEF TickReturns, SchedulerIdle, SchedulerKeep
  <2>2. \A r \in Threads : r # cpu => pc'[r] = pc[r] /\ eax'[r] = eax[r]
    BY <1>0, <1>1, <2>1 DEF ClobberAl
  <2>3. \A r \in Slots : state[r] = PROCESS_UNUSED =>
          pc'[r] = "entry" /\ zombie' # r /\ freed'[r] = 0
    BY <1>5, <2>1 DEF RaceInv, FreshInv
  <2>4. FreeInv' /\ SpinInv'
    BY <1>1, <1>4, <2>1 DEF RaceInv, SpinInv
  <2>5. pc'[cpu] = pc[cpu]
    BY <2>1
  <2> QED
    BY <1>1, <1>2, <2>1, <2>2, <2>3, <2>4, <2>5, RaceQuiet
<1>8. CASE TickReturns /\ SchedulerPreempt
  <2>0. PICK p : p = executing_process
    OBVIOUS
  <2>1. p \in Slots /\ Startable(p) /\ p \notin Queue /\ priority[p] = 1
    BY <1>6, <1>8, <2>0 DEF SchedulerPreempt, TypeInv, Ready1, Startable
  <2> DEFINE s  == pq_push(ready_queue, p, priority)
             st == [state EXCEPT ![p] = PROCESS_READY]
  <2>2. /\ ~pq_is_empty(ready_queue) /\ SwitchToNext(p, s, st)
        /\ pc' = pc /\ ClobberAl
    BY <1>8, <2>0 DEF SchedulerPreempt, TickReturns
  <2>3. PICK n : n = pq_peek(ready_queue)
    OBVIOUS
  <2>4. /\ pq_peek(s) = n /\ n \in Queue
        /\ Queued(pq_pop(s, priority)) = (Queue \ {n}) \cup {p}
        /\ Distinct(pq_pop(s, priority))
        /\ pq_peek(pq_pop(s, priority)) = p
    BY <1>0, <2>1, <2>2, <2>3, PreemptSet DEF RaceInv, ListInv, Queue
  <2>5. n \in Slots /\ Startable(n) /\ n # p /\ n # cpu
    BY <2>0, <2>1, <2>4, Waiting DEF RaceInv, ListInv
  <2>6. /\ st \in [Threads -> 0 .. 3]
        /\ \A r \in Slots : st[r] = PROCESS_UNUSED <=> state[r] = PROCESS_UNUSED
    BY <1>0, <2>1 DEF PROCESS_READY, PROCESS_UNUSED, Startable
  <2> HIDE DEF s, st
  <2> DEFINE st1 == [st EXCEPT ![n] = PROCESS_RUNNING]
  <2>7. /\ context_switch(p, n, st1) /\ executing_process' = n
        /\ ready_queue' = pq_pop(s, priority)
    BY <2>2, <2>4 DEF SwitchToNext
  <2>8. /\ st1 \in [Threads -> 0 .. 3]
        /\ \A r \in Slots : r # n => st1[r] = st[r]
    BY <1>0, <2>5, <2>6 DEF PROCESS_RUNNING
  <2> HIDE DEF st1
  <2>9. p \in Threads \cup {NULL} /\ n \in Threads /\ p # n
    BY <1>0, <2>1, <2>5
  <2>10. /\ \A b \in Threads : sp'[b] = IF b = n THEN NULL
                                        ELSE IF b = p THEN cpu ELSE sp[b]
         /\ cpu' = IF sp[n] = NULL THEN HALTED ELSE sp[n]
         /\ CR3' = n
         /\ \A r \in Threads : r # n => state'[r] = st1[r]
         /\ state'[n] # PROCESS_UNUSED
    BY <1>1, <2>7, <2>8, <2>9, FramesMove
  <2>11. \A r \in Slots : state'[r] = PROCESS_UNUSED <=> state[r] = PROCESS_UNUSED
    BY <1>0, <2>5, <2>6, <2>8, <2>10 DEF Startable
  <2>12. /\ Queue' = (Queue \ {n}) \cup {p} /\ Distinct(ready_queue')
         /\ pq_peek(ready_queue') = p
    BY <2>4, <2>7 DEF Queue
  <2>13. \A r \in Threads : r # cpu => pc'[r] = pc[r] /\ eax'[r] = eax[r]
    BY <1>0, <1>1, <2>2 DEF ClobberAl
  <2>14. HolderNext'
    <3> SUFFICES ASSUME NEW r \in Slots, Holds(r)', r \in Queue', r # p
                 PROVE  FALSE
      BY <2>12 DEF HolderNext
    <3>1. r \in Queue /\ r # n
      BY <2>12
    <3>2. r # cpu
      BY <3>1, Waiting DEF RaceInv, ListInv
    <3>3. Holds(r)
      BY <1>0, <2>13, <3>2 DEF Holds
    <3> QED
      BY <2>3, <3>1, <3>3 DEF RaceInv, HolderNext
  <2>15. FreeInv' /\ pc'[cpu] = pc[cpu]
    BY <1>4, <2>2
  <2>16. \A r \in Queue' :
           \/ r \in Queue /\ r # n
           \/ r = executing_process /\ r # n /\ r \in Slots /\ pc'[r] = pc[r]
    BY <2>0, <2>1, <2>2, <2>5, <2>12
  <2>17. /\ executing_process # NULL /\ p # KERNEL
         /\ cpu = KERNEL => "start" \in raced'
         /\ cpu \in Slots /\ p # cpu =>
              pc[cpu] = "exit_switch" /\ next[cpu] = p
    BY <1>0, <1>6, <2>0, <2>1
  <2> QED
    BY <1>1, <1>2, <1>5, <2>4, <2>5, <2>7, <2>9, <2>10, <2>11, <2>12, <2>13,
       <2>14, <2>15, <2>16, <2>17, RaceSwitch
<1>9. CASE TickExpires
  <2>1. /\ executing_process # NULL
        /\ IF pq_is_empty(ready_queue)
           THEN SwitchToKernel(Terminated(executing_process))
           ELSE SwitchToNext(NULL, ready_queue, Terminated(executing_process))
        /\ pc' = [pc EXCEPT ![cpu] = "dead"] /\ eax' = [eax EXCEPT ![cpu] = 0]
    BY <1>9 DEF TickExpires, SchedulerExpire, Goto
  <2>2. /\ \A r \in Threads : r # cpu => pc'[r] = pc[r] /\ eax'[r] = eax[r]
        /\ pc'[cpu] = "dead"
    BY <1>0, <1>1, <2>1
  <2>3. FreeInv'
    BY <1>0, <1>4, <2>2
  <2>4. /\ NULL \in {cpu, NULL} /\ NULL # KERNEL
        /\ cpu = KERNEL => "start" \in raced'
    BY <1>0, <1>6, <2>1
  <2> QED
    BY <1>1, <1>2, <1>5, <2>1, <2>2, <2>3, <2>4, RaceEnd
<1> QED
  BY <1>7, <1>8, <1>9 DEF Tick, TickReturns

LEMMA KeyboardRaceInv ==
    ASSUME TypeInv, RaceInv, KeyboardInterrupt
    PROVE  RaceInv'
<1>0. eax \in [Threads -> Int] /\ cpu \in Threads \cup {HALTED}
  BY SchedTypes
<1>1. /\ UNCHANGED <<state, sp, ready_queue, executing_process, CR3, cpu, dying,
                     next, zombie, freed, spinning, pc, raced>>
      /\ ClobberAl /\ cpu \in Threads
  BY <1>0 DEF KeyboardInterrupt, schedVars
<1>2. \A r \in Threads : r # cpu => pc'[r] = pc[r] /\ eax'[r] = eax[r]
  BY <1>0, <1>1 DEF ClobberAl
<1>3. FreeInv' /\ SpinInv' /\ pc'[cpu] = pc[cpu]
  BY <1>1 DEF RaceInv, FreeInv, SpinInv, Past
<1>4. \A p \in Slots : state[p] = PROCESS_UNUSED =>
        pc'[p] = "entry" /\ zombie' # p /\ freed'[p] = 0
  BY <1>1 DEF RaceInv, FreshInv
<1> QED
  BY <1>1, <1>2, <1>3, <1>4, RaceQuiet

LEMMA NextRaceInv ==
    ASSUME TypeInv, RaceInv, [Next]_vars
    PROVE  RaceInv'
<1>1. CASE UNCHANGED vars
  <2>1. UNCHANGED <<state, sp, ready_queue, executing_process, CR3, cpu, dying,
                    next, zombie, freed, spinning, pc, eax, raced>>
    BY <1>1 DEF vars, schedVars
  <2>2. ListInv' /\ ChosenInv' /\ PoppedInv'
    BY <2>1
       DEF RaceInv, ListInv, ChosenInv, PoppedInv, Startable, Leaving, Queue
  <2>3. RunInv' /\ FrameInv' /\ FreshInv' /\ BootInv'
    BY <2>1 DEF RaceInv, RunInv, FrameInv, FreshInv, BootInv, Leaving
  <2>4. LeaveInv' /\ FreeInv' /\ LoadedInv' /\ SpinInv' /\ HolderNext'
    BY <2>1
       DEF RaceInv, LeaveInv, FreeInv, LoadedInv, SpinInv, HolderNext, Holds,
           Exiting, Past, Queue
  <2> QED
    BY <2>2, <2>3, <2>4 DEF RaceInv
<1>2. CASE KernelStep
  BY <1>2, KernelRaceInv
<1>3. CASE \E p \in Slots : ProcessStep(p)
  BY <1>3, CodeRaceInv, FaultRaceInv, ExitRaceInv DEF ProcessStep
<1>4. CASE Tick \/ KeyboardInterrupt
  BY <1>4, TickRaceInv, KeyboardRaceInv
<1> QED
  BY <1>1, <1>2, <1>3, <1>4 DEF Next, CpuStep

LEMMA RaceInvariant == Spec => [](TypeInv /\ RaceInv)
<1>1. Init => TypeInv /\ RaceInv
  BY InitTypeInv, InitRaceInv
<1>2. TypeInv /\ RaceInv /\ [Next]_vars => (TypeInv /\ RaceInv)'
  BY NextTypeInv, NextRaceInv
<1> QED
  BY <1>1, <1>2, PTL DEF Spec

-----------------------------------------------------------------------------

\* The ready queue never holds a process twice, the executing process or one
\* that has ended, wherever a tick falls; preempting, exiting and killing keep it
\* sound, and only a tick inside process_exit brings an exiting process back.
THEOREM QueueStaysSound == Spec => []ReadyQueueSound
<1>1. ASSUME TypeInv, RaceInv PROVE ReadyQueueSound
  <2>1. \A p \in Queue : /\ p \in Slots /\ p # executing_process
                         /\ state[p] # PROCESS_UNUSED /\ pc[p] # "dead" /\ p # cpu
    BY <1>1, Waiting DEF RaceInv, ListInv, Startable
  <2> QED
    BY <1>1, <2>1 DEF RaceInv, ListInv, Distinct, LeaveInv, ReadyQueueSound
<1> QED
  BY <1>1, RaceInvariant, PTL

\* No live process is forgotten by scheduler or process_exit before a tick falls
\* into start_processes or process_exit; in particular pq_push never drops one,
\* since the queue is never full when it is called.
THEOREM NothingLost == Spec => []NoLostProcess
<1>1. TypeInv /\ UnracedInv => NoLostProcess
  BY DEF UnracedInv, SchedInv, NoneLost, NoLostProcess
<1> QED
  BY <1>1, SchedInvariant, PTL

\* Every thread outside process_exit runs as its own process under its own
\* directory.  The boot thread waits in its own block until a tick falls into
\* start_processes, the queued processes in theirs until one falls there or into
\* process_exit.
THEOREM ContextsKept == Spec => []OwnContext
<1>1. ASSUME TypeInv, RaceInv, UnracedInv PROVE OwnContext
  <2>1. cpu \in Slots /\ ~Exiting(cpu) => executing_process = cpu /\ CR3 = cpu
    BY <1>1 DEF RaceInv, RunInv, Leaving, Exiting, ExitSection
  <2>2. cpu \in Slots /\ "start" \notin raced => sp[KERNEL] = KERNEL
    BY <1>1 DEF RaceInv, BootInv
  <2>3. raced = {} => \A p \in Queue : sp[p] = p
    BY <1>1 DEF UnracedInv, SchedInv, QueueInv
  <2> QED
    BY <2>1, <2>2, <2>3 DEF OwnContext
<1> QED
  BY <1>1, SchedInvariant, RaceInvariant, PTL

\* free_proc gives a directory back once, and never that of the zombie; until a
\* tick falls into process_exit, neither CR3, the executing process nor the
\* queue refers to it afterwards.
THEOREM FreedIsGone == Spec => []NoUseAfterFree
<1>1. ASSUME TypeInv, RaceInv, NEW p \in Slots, freed[p] > 0
      PROVE  /\ freed[p] = 1 /\ zombie # p
             /\ \/ "exit" \in raced
                \/ CR3 # p /\ executing_process # p /\ p \notin Queue
  <2>0. /\ KERNEL \notin Slots /\ NULL \notin Slots
        /\ cpu \in Slots \cup {KERNEL, HALTED} /\ HALTED \notin Slots
    BY <1>1, SchedTypes
  <2>1. freed[p] = 1 /\ freed[p] # 0 /\ zombie # p
    BY <1>1 DEF RaceInv, FreeInv
  <2>2. CASE "exit" \notin raced
    <3>1. pc[p] = "dead"
      BY <1>1, <2>2 DEF RaceInv, FreeInv
    <3>2. p \notin Queue /\ executing_process # p /\ cpu # p
      BY <1>1, <2>0, <2>1, <3>1
         DEF RaceInv, ListInv, ChosenInv, RunInv, Startable
    <3>3. CR3 # p
      BY <1>1, <2>0, <2>2, <3>2 DEF RaceInv, LoadedInv
    <3> QED
      BY <2>1, <3>2, <3>3
  <2> QED
    BY <2>1, <2>2
<1>2. TypeInv /\ RaceInv => NoUseAfterFree
  BY <1>1 DEF NoUseAfterFree
<1> QED
  BY <1>2, RaceInvariant, PTL

\* A preempted holder of the spinlock is always the next process to run,
\* however many processes wait and wherever a tick falls: it is the root of the
\* heap.
THEOREM HolderRunsNext == Spec => []HolderNext
<1>1. TypeInv /\ RaceInv => HolderNext
  BY DEF RaceInv
<1> QED
  BY <1>1, RaceInvariant, PTL

\* scheduler charges no slice to a process that waits in setLock, since the
\* flag it consults is set on every way into the loop and cleared only after it.
THEOREM WaitersNotCharged == Spec => WaitingNotCharged
<1> DEFINE Kept == \A p \in Slots : pc[p] \in WaitSteps => burst_time'[p] = burst_time[p]
<1>1. ASSUME TypeInv, RaceInv, [Next]_vars
      PROVE  Kept \/ UNCHANGED vars
  <2>0. /\ burst_time \in [Slots -> Int] /\ executing_process \in Slots \cup {NULL}
    BY <1>1 DEF TypeInv, TypeOK
  <2>1. CASE KernelCreate
    <3>1. PICK p \in Slots : create_process(p)
      BY <2>1 DEF KernelCreate
    <3>2. pc[p] = "entry" /\ burst_time' = [burst_time EXCEPT ![p] = BURST_TIME]
      BY <1>1, <3>1 DEF create_process, Unused, RaceInv, FreshInv
    <3> QED
      BY <2>0, <3>2 DEF WaitSteps
  <2>2. CASE KernelStep /\ ~KernelCreate
    BY <2>2
       DEF KernelStep, KernelCreateFails, KernelStartNone, KernelStart,
           KernelSwitch, schedVars
  <2>3. ASSUME NEW p \in Slots, ProcessStep(p)
        PROVE  Kept
    BY <2>3
       DEF ProcessStep, LockStep, LoopStep, Return, LockBegin, LockMov,
           LockXchg, LockTest, LockEnd, Release, Load, Add, Store, Sleep,
           Fault, process_exit, ExitStep, ExitMark, ExitZombie, ExitTest,
           ExitIdle, ExitKernel, ExitPop, ExitExec, ExitSwitch,
           UnchangedByExit, UnchangedButSpinning, schedVars
  <2>4. CASE Tick
    <3>1. \/ UNCHANGED burst_time
          \/ Charge /\ executing_process # NULL
      BY <2>4
         DEF Tick, TickReturns, TickExpires, SchedulerIdle, SchedulerKeep,
             SchedulerPreempt, SchedulerExpire
    <3>2. CASE Charge /\ executing_process # NULL
      <4>1. PICK p \in Slots : p = executing_process
        BY <2>0, <3>2
      <4>2. pc[p] \in WaitSteps => Remaining = burst_time[p]
        BY <1>1, <4>1 DEF Remaining, RaceInv, SpinInv
      <4> QED
        BY <2>0, <3>2, <4>1, <4>2 DEF Charge
    <3> QED
      BY <3>1, <3>2
  <2>5. CASE KeyboardInterrupt
    BY <2>5 DEF KeyboardInterrupt, schedVars
  <2> QED
    BY <1>1, <2>1, <2>2, <2>3, <2>4, <2>5 DEF Next, CpuStep
<1>2. TypeInv /\ RaceInv /\ [Next]_vars => [Kept]_vars
  BY <1>1
<1> QED
  BY <1>2, RaceInvariant, PTL DEF Spec, WaitingNotCharged

-----------------------------------------------------------------------------
(* The refinement: the kernel implements ProcessLifecycle.                  *)

\* The life of a process in terms of Live and executing_process, before and
\* after a step.
LEMMA LifeValue ==
    ASSUME NEW p \in Slots, UnusedInv, UnusedInv'
    PROVE  /\ Life[p] = IF state[p] = PROCESS_UNUSED THEN "unused"
                        ELSE IF ~Live(p) THEN "exited"
                        ELSE IF executing_process = p THEN "running" ELSE "ready"
           /\ Life'[p] = IF state'[p] = PROCESS_UNUSED THEN "unused"
                         ELSE IF ~Live(p)' THEN "exited"
                         ELSE IF executing_process' = p THEN "running" ELSE "ready"
           /\ Live(p) => state[p] # PROCESS_UNUSED
           /\ Live(p)' => state'[p] # PROCESS_UNUSED
<1>1. /\ state[p] = PROCESS_UNUSED => pc[p] # "dead" /\ ~Exiting(p)
      /\ state'[p] = PROCESS_UNUSED => pc'[p] # "dead" /\ ~Exiting(p)'
  BY DEF UnusedInv, Exiting, ExitSection
<1>2. Life[p] = LifeOf(p) /\ Life'[p] = LifeOf(p)'
  BY DEF Life
<1> QED
  BY <1>1, <1>2 DEF LifeOf, Live

LEMMA LifeFunctions ==
    /\ Life = [p \in Slots |-> Life[p]] /\ Life' = [p \in Slots |-> Life'[p]]
BY DEF Life

\* A process is used, or its liveness changes, only by its own doing: what a
\* step of the running thread t may change.
OnlyBy(t) ==
    /\ UnusedInv /\ UnusedInv'
    /\ \A r \in Slots : state'[r] = PROCESS_UNUSED <=> state[r] = PROCESS_UNUSED
    /\ \A r \in Slots : r # t => (Live(r)' <=> Live(r))

LEMMA AbsStutter ==
    ASSUME NEW t, OnlyBy(t), t \in Slots => (Live(t)' <=> Live(t)),
           \A r \in Slots : Live(r) => (executing_process' = r <=> executing_process = r)
    PROVE  Life' = Life
<1>1. \A r \in Slots : Life'[r] = Life[r]
  BY LifeValue DEF OnlyBy
<1> QED
  BY <1>1, LifeFunctions

LEMMA AbsExit ==
    ASSUME NEW p \in Slots, OnlyBy(p), Live(p), executing_process = p, ~Live(p)',
           executing_process' \notin Slots \ {p}
    PROVE  Lifecycle!Exit(p)
<1>1. Life[p] = "running" /\ Life'[p] = "exited"
  BY LifeValue DEF OnlyBy
<1>2. \A r \in Slots : r # p => Life'[r] = Life[r]
  BY LifeValue DEF OnlyBy
<1>3. Life' = [Life EXCEPT ![p] = "exited"]
  BY <1>1, <1>2, LifeFunctions
<1> QED
  BY <1>1, <1>3 DEF Lifecycle!Exit, Life

LEMMA AbsReplace ==
    ASSUME NEW p \in Slots, OnlyBy(p), Live(p), executing_process = p, ~Live(p)',
           NEW n \in Slots, n # p, Live(n), executing_process' = n
    PROVE  Lifecycle!Replace(p, n)
<1>1. /\ Life[p] = "running" /\ Life'[p] = "exited"
      /\ Life[n] = "ready" /\ Life'[n] = "running"
  BY LifeValue DEF OnlyBy
<1>2. \A r \in Slots : r # p /\ r # n => Life'[r] = Life[r]
  BY LifeValue DEF OnlyBy
<1>3. Life' = [Life EXCEPT ![p] = "exited", ![n] = "running"]
  BY <1>1, <1>2, LifeFunctions
<1> QED
  BY <1>1, <1>3 DEF Lifecycle!Replace, Life

LEMMA AbsPreempt ==
    ASSUME NEW p \in Slots, OnlyBy(p), Live(p), executing_process = p, Live(p)',
           NEW n \in Slots, n # p, Live(n), executing_process' = n
    PROVE  Lifecycle!Preempt(p, n)
<1>1. /\ Life[p] = "running" /\ Life'[p] = "ready"
      /\ Life[n] = "ready" /\ Life'[n] = "running"
  BY LifeValue DEF OnlyBy
<1>2. \A r \in Slots : r # p /\ r # n => Life'[r] = Life[r]
  BY LifeValue DEF OnlyBy
<1>3. Life' = [Life EXCEPT ![p] = "ready", ![n] = "running"]
  BY <1>1, <1>2, LifeFunctions
<1> QED
  BY <1>1, <1>3 DEF Lifecycle!Preempt, Life

LEMMA AbsDispatch ==
    ASSUME NEW t, OnlyBy(t), t \in Slots => ~Live(t) /\ ~Live(t)',
           executing_process \in Slots => ~Live(executing_process),
           NEW n \in Slots, Live(n), executing_process' = n
    PROVE  Lifecycle!Dispatch(n)
<1>1. /\ Life[n] = "ready" /\ Life'[n] = "running"
      /\ \A r \in Slots : Life[r] # "running"
  BY LifeValue DEF OnlyBy
<1>2. \A r \in Slots : r # n => Life'[r] = Life[r]
  BY LifeValue DEF OnlyBy
<1>3. Life' = [Life EXCEPT ![n] = "running"]
  BY <1>1, <1>2, LifeFunctions
<1>4. Lifecycle!Running = {}
  BY <1>1 DEF Lifecycle!Running, Life
<1> QED
  BY <1>1, <1>3, <1>4 DEF Lifecycle!Dispatch, Life

LEMMA AbsInit == Init => Lifecycle!Init
<1> SUFFICES ASSUME Init PROVE Lifecycle!Init
  OBVIOUS
<1>1. \A p \in Slots : state[p] = PROCESS_UNUSED
  BY SchedulerAssumption DEF Init, SchedInit, Threads, Slots, KERNEL
<1>2. \A p \in Slots : pc[p] = "entry" /\ ~Exiting(p)
  BY InitSchedInv, <1>1 DEF SchedInv, UnusedInv, Exiting, ExitSection
<1>3. \A p \in Slots : LifeOf(p) = "unused"
  BY <1>1, <1>2 DEF LifeOf
<1> QED
  BY <1>3 DEF Lifecycle!Init, Life

-----------------------------------------------------------------------------
(* The frame of each step.                                                 *)

\* No step makes a block unused again, and only create_process uses one.
LEMMA StepFrame ==
    ASSUME TypeInv, SchedInv, SchedInv', Next,
           \A r \in Slots : state'[r] = PROCESS_UNUSED <=> state[r] = PROCESS_UNUSED
    PROVE  OnlyBy(cpu)
<1>0. /\ pc \in [Threads -> ProcessSteps \cup KernelSteps]
      /\ Slots \subseteq Threads /\ KERNEL \notin Slots
  BY SchedTypes
<1>1. \A r \in Slots : r # cpu => pc'[r] = pc[r]
  <2>1. CASE KernelStep
    BY <1>0, <2>1
       DEF KernelStep, KernelCreate, KernelCreateFails, KernelStartNone,
           KernelStart, KernelSwitch, Goto
  <2>2. ASSUME NEW p \in Slots, ProcessStep(p)
        PROVE  \A r \in Slots : r # cpu => pc'[r] = pc[r]
    BY <1>0, <2>2
       DEF ProcessStep, LockStep, LoopStep, Return, LockBegin, LockMov,
           LockXchg, LockTest, LockEnd, Release, Load, Add, Store, Sleep,
           Fault, ExitStep, ExitMark, ExitZombie, ExitTest, ExitIdle,
           ExitKernel, ExitPop, ExitExec, ExitSwitch, At, Goto
  <2>3. CASE Tick \/ KeyboardInterrupt
    BY <1>0, <2>3 DEF Tick, TickReturns, TickExpires, KeyboardInterrupt, Goto
  <2> QED
    BY <2>1, <2>2, <2>3 DEF Next, CpuStep
<1>2. \A r \in Slots : r # cpu => (Live(r)' <=> Live(r))
  BY <1>1 DEF Live, Exiting
<1> QED
  BY <1>2 DEF OnlyBy, SchedInv

\* The running process p ends and the root of the queue, or nobody, takes over.
LEMMA EndLife ==
    ASSUME TypeInv, SchedInv, SchedInv', Next,
           NEW p \in Slots, cpu = p, Live(p), executing_process = p,
           pc'[p] = "dead", NEW curr \in {p, NULL},
           IF pq_is_empty(ready_queue)
           THEN SwitchToKernel(Terminated(p))
           ELSE SwitchToNext(curr, ready_queue, Terminated(p))
    PROVE  Lifecycle!Next
<1>0. /\ NULL \notin Slots /\ Slots \subseteq Threads
      /\ QueueOK(ready_queue, priority)
  BY SchedTypes
<1>1. /\ state[p] # PROCESS_UNUSED /\ sp[KERNEL] = KERNEL /\ p \notin Queue
  BY DEF SchedInv, ThreadInv, Live
<1> DEFINE st == Terminated(p)
<1>2. /\ st \in [Threads -> 0 .. 3]
      /\ \A r \in Slots : st[r] = PROCESS_UNUSED <=> state[r] = PROCESS_UNUSED
  BY <1>1, TerminatedEffect
<1> HIDE DEF st
<1>3. ~Live(p)'
  BY DEF Live
<1>4. CASE pq_is_empty(ready_queue)
  <2>1. context_switch(NULL, KERNEL, st) /\ executing_process' = NULL
    BY <1>4 DEF SwitchToKernel, st
  <2>2. \A r \in Slots : state'[r] = st[r]
    BY <1>1, <1>2, <2>1, BootEffect
  <2>3. OnlyBy(p)
    BY <1>2, <2>2, StepFrame
  <2>4. Lifecycle!Exit(p)
    BY <1>0, <1>3, <2>1, <2>3, AbsExit
  <2> QED
    BY <2>4 DEF Lifecycle!Next
<1>5. CASE ~pq_is_empty(ready_queue)
  <2>0. PICK n : n = pq_peek(ready_queue)
    OBVIOUS
  <2> DEFINE st1 == [st EXCEPT ![n] = PROCESS_RUNNING]
  <2>1. context_switch(curr, n, st1) /\ executing_process' = n
    BY <1>5, <2>0 DEF SwitchToNext, st
  <2>2. n \in Queue
    BY <1>0, <1>5, <2>0, PopSet DEF Queue, SchedInv, QueueInv
  <2>3. n \in Slots /\ Live(n) /\ sp[n] = n /\ n # p
    BY <1>1, <2>2 DEF SchedInv, QueueInv
  <2>4. /\ st1 \in [Threads -> 0 .. 3]
        /\ \A r \in Slots : r # n => st1[r] = st[r]
    BY <1>0, <1>2, <2>3 DEF PROCESS_RUNNING
  <2> HIDE DEF st1
  <2>5. /\ \A r \in Slots : r # n => state'[r] = st1[r]
        /\ state'[n] # PROCESS_UNUSED
    BY <2>1, <2>3, <2>4, SwitchEffect
  <2>6. OnlyBy(p)
    <3>1. state[n] # PROCESS_UNUSED
      BY <2>3 DEF Live
    <3>2. \A r \in Slots : state'[r] = PROCESS_UNUSED <=> state[r] = PROCESS_UNUSED
      BY <1>2, <2>3, <2>4, <2>5, <3>1
    <3> QED
      BY <3>2, StepFrame
  <2>7. Lifecycle!Replace(p, n)
    BY <1>3, <2>1, <2>3, <2>6, AbsReplace
  <2> QED
    BY <2>3, <2>7 DEF Lifecycle!Next
<1> QED
  BY <1>4, <1>5

-----------------------------------------------------------------------------
(* Step simulation.                                                        *)

\* A step of kernel_main creates a process, dispatches one, or changes nothing
\* that the life cycle shows.
LEMMA KernelLife ==
    ASSUME TypeInv, SchedInv, SchedInv', Next, KernelStep
    PROVE  Lifecycle!Next \/ Life' = Life
<1>0. /\ KERNEL \in Threads /\ KERNEL \notin Slots /\ NULL \notin Slots
      /\ Slots \subseteq Threads /\ state \in [Threads -> 0 .. 3]
      /\ pc \in [Threads -> ProcessSteps \cup KernelSteps]
      /\ sp \in [Threads -> Threads \cup {NULL}]
      /\ QueueOK(ready_queue, priority)
  BY SchedTypes
<1>1. /\ cpu = KERNEL /\ \A p \in Slots : pc[p] = "entry"
      /\ pc[KERNEL] # "switch" => executing_process = NULL
      /\ pc[KERNEL] = "switch" => Taken(executing_process)
  BY DEF KernelStep, KernelCreate, KernelCreateFails, KernelStartNone,
         KernelStart, KernelSwitch, At, SchedInv, KernelInv
<1>2. CASE KernelCreate
  <2>1. PICK p \in Slots : create_process(p)
    BY <1>2 DEF KernelCreate
  <2>2. /\ state[p] = PROCESS_UNUSED
        /\ state' = [state EXCEPT ![p] = PROCESS_READY]
        /\ executing_process = NULL /\ executing_process' = NULL
        /\ \A r \in Slots : pc'[r] = pc[r]
    BY <1>0, <1>1, <1>2, <2>1 DEF KernelCreate, create_process, Unused, At, Goto
  <2>3. \A r \in Slots : r # p => state'[r] = state[r] /\ (Live(r)' <=> Live(r))
    BY <1>0, <2>2 DEF Live, Exiting
  <2>4. state'[p] # PROCESS_UNUSED /\ Live(p)'
    BY <1>0, <1>1, <2>2
       DEF Live, Exiting, ExitSection, PROCESS_READY, PROCESS_UNUSED
  <2>5. UnusedInv /\ UnusedInv'
    BY DEF SchedInv
  <2>6. Life[p] = "unused" /\ Life'[p] = "ready"
    BY <1>0, <2>2, <2>4, <2>5, LifeValue
  <2>7. \A r \in Slots : r # p => Life'[r] = Life[r]
    BY <2>2, <2>3, <2>5, LifeValue
  <2>8. Life' = [Life EXCEPT ![p] = "ready"]
    BY <2>6, <2>7, LifeFunctions
  <2>9. Lifecycle!Create(p)
    BY <2>6, <2>8 DEF Lifecycle!Create, Life
  <2> QED
    BY <2>9 DEF Lifecycle!Next
<1>3. CASE KernelCreateFails \/ KernelStartNone
  <2>1. /\ state' = state /\ executing_process' = executing_process
        /\ pc[KERNEL] # "switch"
    BY <1>3 DEF KernelCreateFails, KernelStartNone, At, schedVars
  <2>2. OnlyBy(KERNEL)
    BY <1>1, <2>1, StepFrame
  <2> QED
    BY <1>0, <2>1, <2>2, AbsStutter
<1>4. CASE KernelStart
  <2>0. PICK n : n = pq_peek(ready_queue)
    OBVIOUS
  <2>1. /\ state' = [state EXCEPT ![n] = PROCESS_RUNNING]
        /\ executing_process = NULL /\ executing_process' = n
        /\ ~pq_is_empty(ready_queue)
    BY <1>1, <1>4, <2>0 DEF KernelStart, At
  <2>2. n \in Queue
    BY <1>0, <2>0, <2>1, PopSet DEF Queue, SchedInv, QueueInv
  <2>3. n \in Slots /\ Live(n) /\ state[n] # PROCESS_UNUSED
    BY <2>2 DEF SchedInv, QueueInv, Live
  <2>4. \A r \in Slots : state'[r] = PROCESS_UNUSED <=> state[r] = PROCESS_UNUSED
    BY <1>0, <2>1, <2>3 DEF PROCESS_UNUSED, PROCESS_RUNNING
  <2>5. OnlyBy(KERNEL)
    BY <1>1, <2>1, <2>4, StepFrame
  <2>6. Lifecycle!Dispatch(n)
    BY <1>0, <2>1, <2>3, <2>5, AbsDispatch
  <2> QED
    BY <2>3, <2>6 DEF Lifecycle!Next
<1>5. CASE KernelSwitch
  <2>0. PICK n : n = executing_process
    OBVIOUS
  <2>1. Taken(n)
    BY <1>1, <1>5, <2>0 DEF KernelSwitch, At
  <2>2. n \in Slots /\ n # NULL /\ n \in Threads /\ state[n] # PROCESS_UNUSED
    BY <1>0, <2>1 DEF Taken, Live
  <2>3. context_switch(KERNEL, n, state) /\ executing_process' = n
    BY <1>5, <2>0, <2>2 DEF KernelSwitch
  <2>4. state' = [state EXCEPT ![n] = ASM_PROCESS_RUNNING]
    BY <2>3 DEF context_switch
  <2>5. \A r \in Slots : state'[r] = PROCESS_UNUSED <=> state[r] = PROCESS_UNUSED
    BY <1>0, <2>2, <2>4 DEF PROCESS_UNUSED, ASM_PROCESS_RUNNING
  <2>6. OnlyBy(KERNEL)
    BY <1>1, <2>1, <2>5, StepFrame
  <2> QED
    BY <1>0, <2>0, <2>3, <2>6, AbsStutter
<1> QED
  BY <1>2, <1>3, <1>4, <1>5 DEF KernelStep

\* A step of a process outside process_exit is not visible.
LEMMA CodeLife ==
    ASSUME TypeInv, SchedInv, SchedInv', Next, NEW p \in Slots,
           LockStep(p) \/ LoopStep(p) \/ Return(p)
    PROVE  Life' = Life
<1>0. /\ KERNEL \notin Slots /\ Slots \subseteq Threads
      /\ pc \in [Threads -> ProcessSteps \cup KernelSteps]
  BY SchedTypes
<1>1. /\ cpu = p /\ pc[p] \notin ExitSection
      /\ pc'[p] \notin ExitSection \cup {"dead"}
      /\ state' = state /\ executing_process' = executing_process
  BY <1>0
     DEF LockStep, LoopStep, Return, LockBegin, LockMov, LockXchg, LockTest,
         LockEnd, Release, Load, Add, Store, Sleep, At, Goto, ExitSection,
         schedVars, UnchangedButSpinning
<1>2. pc[p] # "dead"
  BY <1>1 DEF SchedInv, ThreadInv
<1>3. OnlyBy(p)
  BY <1>1, <1>2, StepFrame
<1>4. Live(p)' <=> Live(p)
  BY <1>1, <1>2 DEF Live, Exiting
<1> QED
  BY <1>1, <1>3, <1>4, AbsStutter

LEMMA FaultLife ==
    ASSUME TypeInv, SchedInv, SchedInv', Next, NEW p \in Slots, Fault(p)
    PROVE  Lifecycle!Next
<1>0. /\ KERNEL \notin Slots /\ Slots \subseteq Threads /\ NULL \notin Slots
      /\ pc \in [Threads -> ProcessSteps \cup KernelSteps]
  BY SchedTypes
<1>1. /\ cpu = p /\ pc[p] = "entry" /\ pc'[p] = "dead"
      /\ \/ process_exit
         \/ UNCHANGED <<state, executing_process>>
  BY <1>0 DEF Fault, At, Goto
<1>2. /\ executing_process = p /\ Live(p)
  BY <1>1 DEF SchedInv, ThreadInv, Live, Exiting, ExitSection
<1>3. CASE process_exit
  <2>1. IF pq_is_empty(ready_queue)
        THEN SwitchToKernel(Terminated(p))
        ELSE SwitchToNext(p, ready_queue, Terminated(p))
    BY <1>2, <1>3 DEF process_exit
  <2> QED
    BY <1>1, <1>2, <2>1, EndLife
<1>4. CASE UNCHANGED <<state, executing_process>>
  <2>1. OnlyBy(p)
    BY <1>1, <1>4, StepFrame
  <2>2. ~Live(p)'
    BY <1>1 DEF Live
  <2>3. Lifecycle!Exit(p)
    BY <1>2, <1>4, <2>1, <2>2, AbsExit
  <2> QED
    BY <2>3 DEF Lifecycle!Next
<1> QED
  BY <1>1, <1>3, <1>4

\* process_exit ends the process at its first step and dispatches the next one
\* when it assigns executing_process.
LEMMA ExitLife ==
    ASSUME TypeInv, SchedInv, SchedInv', Next, NEW p \in Slots, ExitStep(p)
    PROVE  Lifecycle!Next \/ Life' = Life
<1>0. /\ KERNEL \in Threads /\ KERNEL \notin Slots /\ NULL \notin Slots
      /\ Slots \subseteq Threads /\ state \in [Threads -> 0 .. 3]
      /\ pc \in [Threads -> ProcessSteps \cup KernelSteps]
  BY SchedTypes
<1>1. /\ cpu = p /\ pc[p] \in {"exit_mark"} \cup ExitSection
      /\ pc'[p] \in ExitSection \cup {"dead"}
  BY <1>0
     DEF ExitStep, ExitMark, ExitZombie, ExitTest, ExitIdle, ExitKernel,
         ExitPop, ExitExec, ExitSwitch, At, Goto, ExitSection
<1>2. /\ state[p] # PROCESS_UNUSED /\ sp[KERNEL] = KERNEL
      /\ pc[p] = "exit_mark" => executing_process = p /\ Live(p)
      /\ pc[p] # "exit_mark" => ExitInv(p) /\ ~Live(p)
      /\ ~Live(p)'
  BY <1>1 DEF SchedInv, ThreadInv, Live, Exiting, ExitSection
<1>4. CASE ExitMark(p)
  <2>1. /\ pc[p] = "exit_mark" /\ state' = Terminated(p)
        /\ executing_process' = executing_process
    BY <1>2, <1>4 DEF ExitMark, At
  <2>2. OnlyBy(p)
    BY <1>1, <1>2, <2>1, TerminatedEffect, StepFrame
  <2>3. Lifecycle!Exit(p)
    BY <1>2, <2>1, <2>2, AbsExit
  <2> QED
    BY <2>3 DEF Lifecycle!Next
<1>5. CASE ExitZombie(p) \/ ExitTest(p) \/ ExitIdle(p) \/ ExitPop(p)
  <2>1. /\ pc[p] # "exit_mark" /\ state' = state /\ executing_process = p
        /\ executing_process' \in {p, NULL}
    BY <1>2, <1>5 DEF ExitZombie, ExitTest, ExitIdle, ExitPop, At, ExitInv
  <2>2. OnlyBy(p)
    BY <1>1, <2>1, StepFrame
  <2> QED
    BY <1>0, <1>2, <2>1, <2>2, AbsStutter
<1>6. CASE ExitKernel(p)
  <2>1. /\ pc[p] # "exit_mark" /\ executing_process' = executing_process
        /\ context_switch(NULL, KERNEL, state)
    BY <1>6 DEF ExitKernel, At
  <2>2. \A r \in Slots : state'[r] = state[r]
    BY <1>0, <1>2, <2>1, BootEffect
  <2>3. OnlyBy(p)
    BY <1>1, <2>2, StepFrame
  <2> QED
    BY <1>2, <2>1, <2>3, AbsStutter
<1>7. CASE ExitExec(p)
  <2>0. PICK n : n = next[p]
    OBVIOUS
  <2>1. pc[p] = "exit_exec" /\ Taken(n) /\ executing_process = p
    BY <1>2, <1>7, <2>0 DEF ExitExec, At, ExitInv
  <2>2. n \in Slots /\ n # NULL /\ Live(n) /\ state[n] # PROCESS_UNUSED
    BY <1>0, <2>1 DEF Taken, Live
  <2>3. /\ executing_process' = n
        /\ state' = [state EXCEPT ![n] = PROCESS_RUNNING]
    BY <1>7, <2>0, <2>2 DEF ExitExec
  <2>4. \A r \in Slots : state'[r] = PROCESS_UNUSED <=> state[r] = PROCESS_UNUSED
    BY <1>0, <2>2, <2>3 DEF PROCESS_UNUSED, PROCESS_RUNNING
  <2>5. OnlyBy(p)
    BY <1>1, <2>4, StepFrame
  <2>6. Lifecycle!Dispatch(n)
    BY <1>2, <2>1, <2>2, <2>3, <2>5, AbsDispatch
  <2> QED
    BY <2>2, <2>6 DEF Lifecycle!Next
<1>8. CASE ExitSwitch(p)
  <2>0. PICK n : n = next[p]
    OBVIOUS
  <2>1. pc[p] = "exit_switch" /\ Taken(n) /\ executing_process = n /\ dying[p] = p
    BY <1>2, <1>8, <2>0 DEF ExitSwitch, At, ExitInv
  <2>2. n \in Slots /\ n # NULL /\ sp[n] = n /\ state[n] # PROCESS_UNUSED /\ n # p
    BY <1>0, <1>2, <2>1 DEF Taken, Live, Exiting, ExitSection
  <2>3. /\ executing_process' = executing_process
        /\ context_switch(p, n, state)
    BY <1>8, <2>0, <2>1, <2>2 DEF ExitSwitch
  <2>4. /\ \A r \in Slots : r # n => state'[r] = state[r]
        /\ state'[n] # PROCESS_UNUSED
    BY <1>0, <1>1, <2>2, <2>3, SwitchEffect
  <2>5. OnlyBy(p)
    BY <1>1, <2>2, <2>4, StepFrame
  <2> QED
    BY <1>2, <2>1, <2>3, <2>5, AbsStutter
<1> QED
  BY <1>4, <1>5, <1>6, <1>7, <1>8 DEF ExitStep

LEMMA TickLife ==
    ASSUME raced' = {}, TypeInv, SchedInv, SchedInv', Next, Tick
    PROVE  Lifecycle!Next \/ Life' = Life
<1>0. /\ KERNEL \in Threads /\ KERNEL \notin Slots /\ NULL \notin Slots
      /\ Slots \subseteq Threads /\ state \in [Threads -> 0 .. 3]
      /\ Threads = Slots \cup {KERNEL} /\ cpu \in Threads \cup {HALTED}
      /\ pc \in [Threads -> ProcessSteps \cup KernelSteps]
      /\ executing_process \in Slots \cup {NULL}
      /\ QueueOK(ready_queue, priority)
  BY SchedTypes
<1>1. /\ cpu \in Threads /\ pc[cpu] # "dead" /\ pc[cpu] \notin ExitSection
      /\ pc[cpu] # "switch"
  BY <1>0 DEF Tick, TickReturns, TickExpires, Interruptible, Section
<1>2. executing_process # NULL =>
        /\ executing_process \in Slots /\ cpu = executing_process
        /\ Live(cpu) /\ cpu \notin Queue
  BY <1>0, <1>1 DEF SchedInv, KernelInv, ThreadInv, Live, Exiting
<1>4. CASE TickReturns /\ (SchedulerIdle \/ SchedulerKeep)
  <2>1. UNCHANGED <<state, executing_process, pc>>
    BY <1>4 DEF TickReturns, SchedulerIdle, SchedulerKeep
  <2>2. OnlyBy(cpu)
    BY <2>1, StepFrame
  <2>4. PICK t : t = cpu
    OBVIOUS
  <2>5. Live(t)' <=> Live(t)
    BY <2>1 DEF Live, Exiting
  <2> QED
    BY <2>1, <2>2, <2>4, <2>5, AbsStutter
<1>5. CASE TickReturns /\ SchedulerPreempt
  <2>0. PICK p : p = executing_process
    OBVIOUS
  <2>1. /\ p \in Slots /\ cpu = p /\ Live(p) /\ p \notin Queue
        /\ priority[p] = 1 /\ state[p] # PROCESS_UNUSED
    BY <1>2, <1>5, <2>0 DEF SchedulerPreempt, TypeInv, Ready1, Live
  <2> DEFINE s  == pq_push(ready_queue, p, priority)
             st == [state EXCEPT ![p] = PROCESS_READY]
  <2>2. /\ ~pq_is_empty(ready_queue) /\ SwitchToNext(p, s, st) /\ pc' = pc
    BY <1>5, <2>0 DEF SchedulerPreempt, TickReturns
  <2>3. PICK n : n = pq_peek(ready_queue)
    OBVIOUS
  <2>4. pq_peek(s) = n /\ n \in Queue
    BY <1>0, <2>1, <2>2, <2>3, PreemptSet DEF SchedInv, QueueInv, Queue
  <2>5. /\ n \in Slots /\ Live(n) /\ sp[n] = n /\ n # p
        /\ state[n] # PROCESS_UNUSED
    BY <2>1, <2>4 DEF SchedInv, QueueInv, Live
  <2>6. /\ st \in [Threads -> 0 .. 3]
        /\ \A r \in Slots : st[r] = PROCESS_UNUSED <=> state[r] = PROCESS_UNUSED
    BY <1>0, <2>1 DEF PROCESS_READY, PROCESS_UNUSED
  <2> HIDE DEF s, st
  <2> DEFINE st1 == [st EXCEPT ![n] = PROCESS_RUNNING]
  <2>7. context_switch(p, n, st1) /\ executing_process' = n
    BY <2>2, <2>4 DEF SwitchToNext
  <2>8. /\ st1 \in [Threads -> 0 .. 3]
        /\ \A r \in Slots : r # n => st1[r] = st[r]
    BY <1>0, <2>5, <2>6 DEF PROCESS_RUNNING
  <2> HIDE DEF st1
  <2>9. /\ \A r \in Slots : r # n => state'[r] = st1[r]
        /\ state'[n] # PROCESS_UNUSED
    BY <2>1, <2>5, <2>7, <2>8, SwitchEffect
  <2>10. \A r \in Slots : state'[r] = PROCESS_UNUSED <=> state[r] = PROCESS_UNUSED
    BY <2>5, <2>6, <2>8, <2>9
  <2>11. OnlyBy(p)
    BY <2>1, <2>10, StepFrame
  <2>12. Live(p)'
    BY <2>1, <2>2, <2>10 DEF Live, Exiting
  <2>13. Lifecycle!Preempt(p, n)
    BY <2>0, <2>1, <2>5, <2>7, <2>11, <2>12, AbsPreempt
  <2> QED
    BY <2>1, <2>5, <2>13 DEF Lifecycle!Next
<1>6. CASE TickExpires
  <2>0. PICK p : p = executing_process
    OBVIOUS
  <2>1. /\ p \in Slots /\ cpu = p /\ Live(p)
        /\ IF pq_is_empty(ready_queue)
           THEN SwitchToKernel(Terminated(p))
           ELSE SwitchToNext(NULL, ready_queue, Terminated(p))
        /\ pc' = [pc EXCEPT ![p] = "dead"]
    BY <1>2, <1>6, <2>0 DEF TickExpires, SchedulerExpire, Goto
  <2>2. pc'[p] = "dead" /\ NULL \in {p, NULL}
    BY <1>0, <2>1
  <2> QED
    BY <2>0, <2>1, <2>2, EndLife
<1> QED
  BY <1>4, <1>5, <1>6 DEF Tick, TickReturns

LEMMA KeyboardLife ==
    ASSUME KeyboardInterrupt
    PROVE  Life' = Life
BY DEF KeyboardInterrupt, schedVars, Life, LifeOf, Exiting

\* The process table, the heap, the stepwise exit path, exceptions and budget
\* expiry implement the abstract life cycle: every step of the kernel is one
\* step of it or leaves it unchanged.
THEOREM KernelImplementsLifecycle == Spec => ImplementsLifecycle
<1>1. Init => Lifecycle!Init
  BY AbsInit
<1>2. ASSUME TypeInv, SchedInv, SchedInv', raced' = {}, [Next]_vars
      PROVE  Lifecycle!Next \/ Life' = Life
  <2>1. CASE UNCHANGED vars
    BY <2>1 DEF vars, schedVars, Life, LifeOf, Exiting
  <2>2. CASE Next
    <3>1. CASE KernelStep
      BY <1>2, <2>2, <3>1, KernelLife
    <3>2. CASE \E p \in Slots : ProcessStep(p)
      BY <1>2, <2>2, <3>2, CodeLife, FaultLife, ExitLife DEF ProcessStep
    <3>3. CASE Tick \/ KeyboardInterrupt
      BY <1>2, <2>2, <3>3, TickLife, KeyboardLife
    <3> QED
      BY <2>2, <3>1, <3>2, <3>3 DEF Next, CpuStep
  <2> QED
    BY <1>2, <2>1, <2>2
<1>3. TypeInv /\ UnracedInv /\ UnracedInv' /\ [Next]_vars
        => [Lifecycle!Next \/ raced' # {}]_Life
  <2> SUFFICES ASSUME TypeInv, UnracedInv, UnracedInv', [Next]_vars, raced' = {}
               PROVE  Lifecycle!Next \/ Life' = Life
    OBVIOUS
  <2>1. raced = {}
    BY RacedGrows
  <2> QED
    BY <1>2, <2>1 DEF UnracedInv
<1> QED
  BY <1>1, <1>3, SchedInvariant, PTL DEF Spec, ImplementsLifecycle

=============================================================================
