--------------------------- MODULE PriorityQueue ---------------------------
(***************************************************************************)
(* The ready queue of queue/queue.c: a binary max-heap of process pointers *)
(* kept in an array of MAX_PROCESSES cells with a fill count.              *)
(*                                                                         *)
(* A queue is a record [data, size].  Cells at and above `size' hold what  *)
(* was left in them: pq_pop does not clear the cell it vacates.            *)
(* `priority' maps a process to the priority field the C code reads        *)
(* through the pointer.                                                    *)
(*                                                                         *)
(* bubble_up and bubble_down carry one element x along a path and never    *)
(* touch a cell off the path, so each is a recursive function of the index *)
(* at which x stands.                                                      *)
(***************************************************************************)
EXTENDS Integers

CONSTANT MAX_PROCESSES     \* capacity of the data array (queue.h)

ASSUME CapacityAssumption == MAX_PROCESSES \in Nat \ {0}

Cells == 0 .. MAX_PROCESSES - 1

Parent(i) == (i - 1) \div 2

\* Whether the element x, standing at i, swaps with its parent.
Rises(data, x, i, priority) ==
    i > 0 /\ priority[x] > priority[data[Parent(i)]]

bubble_up(data, i, priority) ==
    LET x == data[i]
        up[j \in Cells] ==
            IF Rises(data, x, j, priority)
            THEN [up[Parent(j)] EXCEPT ![j] = data[Parent(j)]]
            ELSE [data EXCEPT ![j] = x]
    IN  IF Rises(data, x, i, priority) THEN up[i] ELSE data

\* Mutation: the right child is not looked at.
LargestLeftOnly(data, size, x, i, priority) ==
    IF 2 * i + 1 < size /\ priority[data[2 * i + 1]] > priority[x]
    THEN 2 * i + 1 ELSE i

\* The position, among i and its children below size, that x should take.
Largest(data, size, x, i, priority) ==
    LET left  == 2 * i + 1
        right == 2 * i + 2
        l     == IF left < size /\ priority[data[left]] > priority[x]
                 THEN left ELSE i
        best  == IF l = i THEN x ELSE data[l]
    IN  IF right < size /\ priority[data[right]] > priority[best]
        THEN right ELSE l

bubble_down(data, size, i, priority) ==
    LET x == data[i]
        down[j \in Cells] ==
            LET k == Largest(data, size, x, j, priority)
            IN  IF k = j THEN [data EXCEPT ![j] = x]
                         ELSE [down[k] EXCEPT ![j] = data[k]]
    IN  IF Largest(data, size, x, i, priority) = i THEN data ELSE down[i]

-----------------------------------------------------------------------------

\* A fresh queue; `junk' fills the cells nothing has been stored in.
pq_init(junk) == [data |-> [i \in Cells |-> junk], size |-> 0]

pq_is_empty(q) == q.size = 0

\* Mutation: a push at capacity still counts.
PushCountsDrops(q, proc, priority) ==
    IF q.size >= MAX_PROCESSES
    THEN [q EXCEPT !.size = @ + 1]
    ELSE [data |-> bubble_up([q.data EXCEPT ![q.size] = proc], q.size, priority),
          size |-> q.size + 1]

\* At capacity the process is dropped and the caller is not told.
pq_push(q, proc, priority) ==
    IF q.size >= MAX_PROCESSES
    THEN q
    ELSE [data |-> bubble_up([q.data EXCEPT ![q.size] = proc], q.size, priority),
          size |-> q.size + 1]

\* The process at the root; the queue is not empty.
pq_peek(q) == q.data[0]

\* Mutation: the last process is not moved to the root.
PopKeepsRoot(q, priority) ==
    [data |-> bubble_down(q.data, q.size - 1, 0, priority), size |-> q.size - 1]

\* Mutation: the array is shifted as a first-in first-out queue.
PopShifts(q, priority) ==
    [data |-> [i \in Cells |-> IF i + 1 < q.size THEN q.data[i + 1] ELSE q.data[i]],
     size |-> q.size - 1]

\* The queue once the root is removed; the queue is not empty.
pq_pop(q, priority) ==
    LET n == q.size - 1
    IN  [data |-> bubble_down([q.data EXCEPT ![0] = q.data[n]], n, 0, priority),
         size |-> n]

\* The processes a queue holds.
Queued(q) == {q.data[i] : i \in 0 .. q.size - 1}
=============================================================================
