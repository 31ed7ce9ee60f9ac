--------------------------- MODULE MCQueueMachine --------------------------
(* Four processes, two of them of equal priority; repeated pushes fill the *)
(* heap to its third level and beyond its capacity.                        *)
EXTENDS QueueMachine, TLC

CONSTANTS p1, p2, p3, p4

MCPriority == p1 :> 1 @@ p2 :> 1 @@ p3 :> 2 @@ p4 :> 3
=============================================================================
