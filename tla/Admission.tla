------------------------------ MODULE Admission ------------------------------
(***************************************************************************)
(* The pure decision kernel of admission.py: which modes go together, when *)
(* two requests conflict, how long a request has to wait before it ranks   *)
(* higher, and what blocks it.                                             *)
(*                                                                         *)
(* A board is a function from queue tickets to rows; a row has at least    *)
(* the fields cells, mode, prio, state and enq.  A path set is abstracted  *)
(* to the nonempty set of repository cells its globs cover, so two globs   *)
(* overlap exactly when their sets of cells meet.                          *)
(***************************************************************************)
EXTENDS Naturals

CONSTANTS
    Cell,       \* the places of the repository a glob can cover
    Quantum,    \* aging_quantum: the wait that earns one step of priority
    MaxBoost    \* max_age_boost: the most priority waiting can earn

ASSUME CellAssumption == Cell # {}
ASSUME PolicyAssumption == Quantum \in Nat \ {0} /\ MaxBoost \in Nat

Mode == {"write", "read", "shared"}

\* Modes whose rows a connect merges (fsm.py WRITE_MODES).
WriteModes == {"write", "shared"}

Compatible(m, n) == m = n /\ m \in {"read", "shared"}

Conflict(x, y) == x.cells \cap y.cells # {} /\ ~Compatible(x.mode, y.mode)

\* Waiting is rewarded in whole quanta and saturates; a clock that reads
\* earlier than the enqueue time earns nothing.
Boost(enq, t) ==
    LET age   == IF t > enq THEN t - enq ELSE 0
        steps == age \div Quantum
    IN  IF steps >= MaxBoost THEN MaxBoost ELSE steps

Effective(row, t) == row.prio + Boost(row.enq, t)

\* rank_key: the higher effective priority first, then the older ticket.
Outranks(o, t, i, j) ==
    \/ Effective(o[i], t) > Effective(o[j], t)
    \/ Effective(o[i], t) = Effective(o[j], t) /\ i < j

Held(o) == {i \in DOMAIN o : o[i].state = "HELD"}

Pending(o) == {i \in DOMAIN o : o[i].state = "PENDING"}

\* (Fault: an agent is thought not to conflict with itself.)
BlockersOfOthers(o, t, i) ==
    {j \in Held(o) : o[j].agent # o[i].agent /\ Conflict(o[i], o[j])}
        \cup
    {j \in Pending(o) : o[j].agent # o[i].agent /\ Conflict(o[i], o[j]) /\ Outranks(o, t, j, i)}

\* (Fault: only leases block, so a newcomer passes the queue.)
BlockersHeldOnly(o, t, i) == {j \in Held(o) \ {i} : Conflict(o[i], o[j])}

\* decide_admission: what row i waits for on board o at time t.  The row is
\* granted exactly when this is empty.  There is no global head of the queue:
\* a waiting row blocks only what it conflicts with and outranks.
Blockers(o, t, i) ==
    {j \in Held(o) \ {i} : Conflict(o[i], o[j])}
        \cup
    {j \in Pending(o) \ {i} : Conflict(o[i], o[j]) /\ Outranks(o, t, j, i)}

=============================================================================
