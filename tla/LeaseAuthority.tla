--------------------------- MODULE LeaseAuthority ---------------------------
(***************************************************************************)
(* What the coordinator promises to the owner of a protected resource: a   *)
(* set of live leases that never conflict, each with a fencing token, and  *)
(* tokens that only go up.  Leases may end at any time and for any reason; *)
(* queues, deadlines, agents, tasks and merges are not the resource's      *)
(* business.                                                               *)
(***************************************************************************)
EXTENDS Admission

VARIABLES
    live,       \* the leases now held: their cells, mode and fence
    top         \* the highest fencing token drawn so far

Init == live = {} /\ top = 0

Exclusive(L) ==
    \A l, m \in L : l # m => ~Conflict(l, m) /\ l.fence # m.fence

\* Some leases end, some begin; those that begin carry new tokens.
Change ==
    /\ top' \in Nat /\ top' >= top
    /\ \A l \in live' \ live : l.fence \in (top + 1)..top'
    /\ Exclusive(live')

Spec == Init /\ [][Change]_<<live, top>>
=============================================================================
