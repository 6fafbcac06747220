------------------------------ MODULE MCOrbits ------------------------------
(***************************************************************************)
(* Small instances of Orbits: two agents, two cells and two tasks.         *)
(***************************************************************************)
EXTENDS Orbits, TLC

CONSTANTS a1, a2, c1, c2, k1, k2

\* Two write sets that overlap in one cell, and a shared one of the other cell: a
\* task with two leases, and a waiter from another task.
ConnectRequest ==
    {[cells |-> {c1},     mode |-> "write", prio |-> 0, ttl |-> 1, task |-> k1],
     [cells |-> {c1, c2}, mode |-> "write", prio |-> 0, ttl |-> 2, task |-> k2],
     [cells |-> {c2},     mode |-> "shared", prio |-> 1, ttl |-> 2, task |-> k1]}

\* A write set and a wider one of another task: a lease that is merged, a
\* waiter, and a claim that finds the queue full.
BusyRequest ==
    {[cells |-> {c1},     mode |-> "write", prio |-> 0, ttl |-> 1, task |-> k1],
     [cells |-> {c1, c2}, mode |-> "write", prio |-> 0, ttl |-> 2, task |-> k2]}

\* The same conflict inside one task.
TaskRequest ==
    {[cells |-> {c1},     mode |-> "write", prio |-> 0, ttl |-> 1, task |-> k1],
     [cells |-> {c1, c2}, mode |-> "write", prio |-> 0, ttl |-> 2, task |-> k1]}

\* Two short write sets and one that overlaps both and has a higher base
\* priority: a lease, a waiter and a newcomer that could pass it; and two
\* waiters whose order aging reverses twice.
QueueRequest ==
    {[cells |-> {c1},     mode |-> "write", prio |-> 0, ttl |-> 3, task |-> k1],
     [cells |-> {c2},     mode |-> "write", prio |-> 0, ttl |-> 3, task |-> k1],
     [cells |-> {c1, c2}, mode |-> "write", prio |-> 1, ttl |-> 1, task |-> k1]}

\* Agents are interchangeable: no request, task or window names one.  So are
\* the cells of QueueRequest.
AgentSymmetry == Permutations(Agent)

QueueSymmetry == Permutations(Agent) \cup Permutations(Cell)
=============================================================================
