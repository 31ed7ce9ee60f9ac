---------------------------- MODULE QueueMachine ---------------------------
(***************************************************************************)
(* The heap of queue/queue.c driven by arbitrary pushes and pops, and its  *)
(* relation to the abstract priority queue of PriorityBag.                 *)
(***************************************************************************)
EXTENDS PriorityQueue, FiniteSets

CONSTANTS Procs,       \* the processes that may be queued
          Priority,    \* Procs -> Nat, fixed while the process is queued
          NULL

ASSUME PriorityAssumption == Priority \in [Procs -> Nat] /\ NULL \notin Procs

VARIABLES q, popped

vars == <<q, popped>>

Init == q = pq_init(NULL) /\ popped = NULL

Push(p) == q' = pq_push(q, p, Priority) /\ UNCHANGED popped

Pop ==
    /\ ~pq_is_empty(q)
    /\ popped' = pq_peek(q)
    /\ q' = pq_pop(q, Priority)

PopEmpty ==
    /\ pq_is_empty(q)
    /\ popped' = NULL
    /\ UNCHANGED q

Next == Pop \/ PopEmpty \/ \E p \in Procs : Push(p)

Spec == Init /\ [][Next]_vars

-----------------------------------------------------------------------------

TypeOK ==
    /\ q \in [data : [Cells -> Procs \cup {NULL}], size : 0 .. MAX_PROCESSES]
    /\ popped \in Procs \cup {NULL}

\* Every queued process has at most its parent's priority: the array is a
\* max-heap after any mix of bubble_up and bubble_down.
HeapOrder ==
    \A i \in 1 .. q.size - 1 :
        Priority[q.data[i]] <= Priority[q.data[Parent(i)]]

\* Occurrences of each queued process, as a bag.
Content ==
    [p \in Queued(q) |-> Cardinality({i \in 0 .. q.size - 1 : q.data[i] = p})]

Bag == INSTANCE PriorityBag
           WITH Entries <- Procs, Capacity <- MAX_PROCESSES, content <- Content

\* Pushing and popping never lose, duplicate or invent a process, and a pop
\* always returns one of greatest priority: the array heap implements the
\* abstract priority queue.
ImplementsPriorityBag == Bag!Spec
=============================================================================
