--------------------------- MODULE MCPromotionWalk ---------------------------
(***************************************************************************)
(* Three rows of two agents on two cells: every mix of leases that do not  *)
(* conflict and requests that may, with base priorities and waiting times  *)
(* that tie, agree and disagree with the order of the tickets; one agent   *)
(* may be past its liveness window and one request past its deadline.      *)
(***************************************************************************)
EXTENDS PromotionWalk, TLC

CONSTANTS a1, a2, c1, c2, k1

Places == {<<{c1}, "write">>, <<{c2}, "write">>, <<{c1, c2}, "write">>,
           <<{c1}, "shared">>, <<{c1, c2}, "shared">>}

Leases ==
    {[agent |-> a1, cells |-> p[1], mode |-> p[2], prio |-> 0, ttl |-> 2,
      task |-> k1, state |-> "HELD", fence |-> 1, due |-> 3, enq |-> 0,
      pinned |-> FALSE] : p \in Places}

\* Base priority, enqueue time and deadline; the clock reads 2.
Ranks == {<<0, 0, 3>>, <<0, 2, 3>>, <<1, 2, 3>>, <<1, 0, 2>>}

Requests ==
    {[agent |-> a, cells |-> p[1], mode |-> p[2], prio |-> r[1], ttl |-> 2,
      task |-> k1, state |-> "PENDING", fence |-> 0, due |-> r[3], enq |-> r[2],
      pinned |-> FALSE] : a \in Agent, p \in Places, r \in Ranks}

Exclusive(o) == \A i, j \in Held(o) : i # j => ~Conflict(o[i], o[j])

Queues == {o \in [1..3 -> Leases \cup Requests] : Exclusive(o) /\ Pending(o) # {}}

MCStart ==
    {[orbit |-> o, seq |-> 3, fence |-> 1, token |-> NoTask,
      task |-> [k \in Task |-> [state |-> "OPEN", agent |-> NoAgent, reclaims |-> 0]],
      agent |-> (a1 :> [status |-> "WORKING", beat |-> 2, window |-> 1]
              @@ a2 :> [status |-> "WORKING", beat |-> 0, window |-> 1])] :
        o \in Queues}
=============================================================================
