---------------------------- MODULE PriorityBag ----------------------------
(***************************************************************************)
(* What a bounded priority queue promises its callers: a bag of entries    *)
(* from which pop takes an entry of greatest priority.  The order of equal *)
(* entries is left open.                                                   *)
(***************************************************************************)
EXTENDS Integers, BagsExt, Bags

CONSTANTS Entries,      \* what may be pushed
          Priority,     \* Entries -> Nat
          Capacity,     \* pushes beyond it are dropped
          NULL          \* the answer of a pop from the empty queue

VARIABLES content,      \* the bag of entries held
          popped        \* the answer of the last pop

Init == content = EmptyBag /\ popped = NULL

Push(e) ==
    /\ content' = IF BagCardinality(content) < Capacity
                  THEN BagAdd(content, e) ELSE content
    /\ UNCHANGED popped

Pop ==
    \/ /\ content # EmptyBag
       /\ \E e \in BagToSet(content) :
            /\ \A f \in BagToSet(content) : Priority[e] >= Priority[f]
            /\ content' = BagRemove(content, e)
            /\ popped' = e
    \/ /\ content = EmptyBag
       /\ popped' = NULL
       /\ UNCHANGED content

Next == Pop \/ \E e \in Entries : Push(e)

Spec == Init /\ [][Next]_<<content, popped>>
=============================================================================
