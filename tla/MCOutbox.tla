------------------------------ MODULE MCOutbox ------------------------------
(***************************************************************************)
(* Small instances of Outbox: two notifications, which are independent     *)
(* while the sink hangs on the first, or compete for one place in the      *)
(* registry, or follow each other in a stream, or the second, which the    *)
(* sink refuses, comes explicitly after the first.                         *)
(***************************************************************************)
EXTENDS Outbox

Apart == [e \in Event |-> e]
Together == [e \in Event |-> 1]
Unordered == [e \in Event |-> {}]
Chained == [e \in Event |-> 1 .. e - 1]

Plan(stream, before, poison, inflight, starts, manned, closes) ==
    [stream |-> stream, before |-> before, poison |-> poison, inflight |-> inflight,
     starts |-> starts, flushes |-> manned, sweeps |-> manned, closes |-> closes]

MCPlans ==
    {Plan(Apart, Unordered, {1}, 2, 1, TRUE, FALSE),
     Plan(Apart, Unordered, {}, 1, 2, FALSE, TRUE),
     Plan(Together, Unordered, {}, 2, 2, TRUE, FALSE),
     Plan(Apart, Chained, {2}, 2, 2, FALSE, TRUE)}
=============================================================================
