-------------------------- MODULE ProcessLifecycle -------------------------
(***************************************************************************)
(* What a uniprocessor scheduler promises: a process is created once, at   *)
(* most one runs, the processor passes only from the running process to a  *)
(* ready one, and a process that has exited never runs again.              *)
(***************************************************************************)
CONSTANT Procs

VARIABLE life

Init == life = [p \in Procs |-> "unused"]

Running == {p \in Procs : life[p] = "running"}

Create(p) ==
    /\ life[p] = "unused"
    /\ life' = [life EXCEPT ![p] = "ready"]

\* An idle processor is given to a ready process.
Dispatch(p) ==
    /\ Running = {} /\ life[p] = "ready"
    /\ life' = [life EXCEPT ![p] = "running"]

\* The running process is put back for another one.
Preempt(p, r) ==
    /\ life[p] = "running" /\ life[r] = "ready"
    /\ life' = [life EXCEPT ![p] = "ready", ![r] = "running"]

Exit(p) ==
    /\ life[p] = "running"
    /\ life' = [life EXCEPT ![p] = "exited"]

\* The running process ends and another one takes over.
Replace(p, r) ==
    /\ life[p] = "running" /\ life[r] = "ready"
    /\ life' = [life EXCEPT ![p] = "exited", ![r] = "running"]

Next ==
    \/ \E p \in Procs : Create(p) \/ Dispatch(p) \/ Exit(p)
    \/ \E p, r \in Procs : Preempt(p, r) \/ Replace(p, r)

Spec == Init /\ [][Next]_life
=============================================================================
