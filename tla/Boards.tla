------------------------------- MODULE Boards -------------------------------
(***************************************************************************)
(* What a critical section of the coordinator does to the tables it works  *)
(* on: reconciliation (expiry, reclaim of silent agents, deadlines, wait   *)
(* cycles, promotion) and the admission of a claim.  A board is a record   *)
(* of those tables: orbit, agent, task, token, seq and fence.  Where the   *)
(* code's choice is not modelled an operator gives the set of boards it    *)
(* may leave behind.                                                       *)
(***************************************************************************)
EXTENDS Admission, Integers, FiniteSets, FiniteSetsExt

CONSTANTS
    Agent, NoAgent,     \* the agents, and the owner of a task nobody started
    Task, NoTask,       \* the tasks, and "no connect holds the merge token"
    AgentTTL,           \* the liveness window of an agent that declared none
    WaitTimeout,        \* admission_wait_timeout
    Capacity,           \* admission_queue_capacity
    MaxReclaims         \* reclaims a task survives before it is POISONED

ASSUME AgentAssumption == IsFiniteSet(Agent) /\ NoAgent \notin Agent
ASSUME TaskAssumption == NoTask \notin Task
ASSUME LimitAssumption ==
    /\ AgentTTL \in Nat \ {0}
    /\ WaitTimeout \in Nat \ {0}
    /\ Capacity \in Nat
    /\ MaxReclaims \in Nat

-----------------------------------------------------------------------------
\* Rows

OrbitState == {"PENDING", "HELD", "RELEASED", "EXPIRED", "DENIED"}

\* A row of kind "orbit".  due is expires_at while the row is HELD and
\* wait_deadline while it is PENDING; pinned is the merging flag.
Row == [agent : Agent, cells : SUBSET Cell, mode : Mode, prio : Nat,
        ttl : Nat \ {0}, task : Task, state : OrbitState, fence : Nat,
        due : Nat, enq : Nat, pinned : BOOLEAN]

AgentRow == [status : {"ABSENT", "WORKING", "RETIRED"}, beat : Nat, window : Nat]

\* OPEN stands for PENDING, BLOCKED and READY, STARTED for CLAIMED and
\* IN_ORBIT: the lease rules treat the members of each group alike.
TaskRow == [state : {"OPEN", "STARTED", "DONE", "CONNECTING", "MERGED", "ABORTED", "POISONED"},
            agent : Agent \cup {NoAgent}, reclaims : Nat]

Live(o) == Held(o) \cup Pending(o)

\* Rows S reach the terminal state s.  Nothing reads the deadlines of a
\* terminal row.
Close(o, S, s) ==
    [i \in DOMAIN o |->
        IF i \in S THEN [o[i] EXCEPT !.state = s, !.pinned = FALSE, !.due = 0, !.enq = 0]
                   ELSE o[i]]

\* Of the rows S, the leases reach the state s and the requests are denied.
CloseAll(o, S, s) == Close(Close(o, Held(o) \cap S, s), Pending(o) \cap S, "DENIED")

\* upsert_agent: every verb of an agent that is not retired is a heartbeat.
Touch(b, a, t) ==
    [b EXCEPT !.agent[a] = [status |-> "WORKING", beat |-> t, window |-> b.agent[a].window]]

-----------------------------------------------------------------------------
\* Reconciliation: the five stages every releasing verb runs, in order

\* (Fault: the expiry sweep forgets the merging pin.)
ExpirePinnedToo(b, t) ==
    LET due == {i \in Held(b.orbit) : b.orbit[i].due <= t}
    IN  [b EXCEPT !.orbit = Close(b.orbit, due, "EXPIRED")]

\* Leases that ran out, except those a connect has pinned.
Expire(b, t) ==
    LET due == {i \in Held(b.orbit) : ~b.orbit[i].pinned /\ b.orbit[i].due <= t}
    IN  [b EXCEPT !.orbit = Close(b.orbit, due, "EXPIRED")]

Stale(g, a, t) == g[a].status = "WORKING" /\ g[a].beat + g[a].window < t

\* A silent agent is spared while a task of its own is being merged.
Merging(b, a) ==
    \E i \in DOMAIN b.orbit :
        /\ b.orbit[i].pinned
        /\ b.task[b.orbit[i].task].state = "CONNECTING"
        /\ b.task[b.orbit[i].task].agent = a

\* (Fault: any task under way spares its agent.)
IdleZombies(b, t) ==
    {a \in Agent : Stale(b.agent, a, t) /\ \A k \in Task : b.task[k].agent # a}

Zombies(b, t) == {a \in Agent : Stale(b.agent, a, t) /\ ~Merging(b, a)}

\* A task is requeued when its agent is reclaimed, until it has been
\* reclaimed too often.
Requeued(row) ==
    [state    |-> IF row.reclaims + 1 > MaxReclaims THEN "POISONED" ELSE "OPEN",
     agent    |-> NoAgent,
     reclaims |-> row.reclaims + 1]

\* (Fault: the reclaim frees leases and forgets the queue.)
RetireLeasesOnly(b, D) ==
    [b EXCEPT !.orbit = Close(@, {i \in Held(@) : @[i].agent \in D}, "EXPIRED"),
              !.agent = [a \in Agent |-> IF a \in D THEN [@[a] EXCEPT !.status = "RETIRED"]
                                                    ELSE @[a]]]

\* The single routine of bail and of zombie reclaim: the agents of D lose
\* every lease, request and merge token, and every task but those that are
\* DONE, for good.
Retire(b, D) ==
    LET theirs == {i \in DOMAIN b.orbit : b.orbit[i].agent \in D}
    IN  [b EXCEPT
          !.orbit = CloseAll(@, theirs, "EXPIRED"),
          !.agent = [a \in Agent |->
                       IF a \in D THEN [status |-> "RETIRED", beat |-> 0, window |-> AgentTTL]
                                  ELSE @[a]],
          !.task  = [k \in Task |->
                       IF @[k].agent \in D /\ @[k].state \in {"STARTED", "CONNECTING"}
                       THEN Requeued(@[k]) ELSE @[k]],
          !.token = IF @ \in Task /\ b.task[@].agent \in D THEN NoTask ELSE @]

\* (Fault: a deadline that falls on the sweep itself is not yet due.)
TimeOutLater(b, t) ==
    LET late == {i \in Pending(b.orbit) : b.orbit[i].due < t}
    IN  [b EXCEPT !.orbit = Close(b.orbit, late, "DENIED")]

\* Requests that waited to their deadline.
TimeOut(b, t) ==
    LET late == {i \in Pending(b.orbit) : b.orbit[i].due <= t}
    IN  [b EXCEPT !.orbit = Close(b.orbit, late, "DENIED")]

\* The requests through which agent x waits for another agent y.
Waits(o, t, x, y) ==
    {i \in Pending(o) : o[i].agent = x /\ \E j \in Blockers(o, t, i) : o[j].agent = y}

WaitFor(o, t) == {e \in Agent \X Agent : e[1] # e[2] /\ Waits(o, t, e[1], e[2]) # {}}

\* The cycles of a wait-for graph, as sequences of distinct agents each of
\* which waits for the next, and the last for the first.
Cycles(E) ==
    LET nodes == {e[1] : e \in E} \cap {e[2] : e \in E}
    IN  {c \in UNION {[1..n -> nodes] : n \in 2..Cardinality(nodes)} :
            /\ \A j, k \in DOMAIN c : c[j] = c[k] => j = k
            /\ \A k \in DOMAIN c : <<c[k], c[(k % Cardinality(DOMAIN c)) + 1]>> \in E}

Acyclic(o, t) == Cycles(WaitFor(o, t)) = {}

\* Whichever cycle is found, its victim is the youngest request that makes
\* one of its edges.  (The code finds the first cycle of a depth-first search
\* in the order of the agents' names; any cycle is allowed here.)
Victims(o, t) ==
    {Max(UNION {Waits(o, t, c[k], c[(k % Cardinality(DOMAIN c)) + 1]) : k \in DOMAIN c}) :
        c \in Cycles(WaitFor(o, t))}

\* The sets of requests that breaking one cycle after the other can deny: each
\* is a victim once those before it are denied, and no cycle is left after all.
Denied(o, t, D) == Victims(Close(o, D, "DENIED"), t)

Denials(o, t) ==
    {D \in SUBSET Pending(o) :
        /\ Acyclic(Close(o, D, "DENIED"), t)
        /\ \E f \in [1..Cardinality(D) -> D] :
              /\ {f[n] : n \in DOMAIN f} = D
              /\ \A n \in DOMAIN f : f[n] \in Denied(o, t, {f[m] : m \in 1..(n - 1)})}

\* (Fault: cycles are left to the deadlines.)
LeaveCycles(b, t) == {b}

BreakCycles(b, t) ==
    {[b EXCEPT !.orbit = Close(b.orbit, D, "DENIED")] : D \in Denials(b.orbit, t)}

\* A queued request is granted only while its owner is alive and on time.
Fresh(g, a, t) == g[a].status = "WORKING" /\ g[a].beat + g[a].window >= t

\* (Fault: promotion trusts the reclaim that ran before it.)
PromotableUnlessLate(b, t) ==
    {i \in Pending(b.orbit) : b.orbit[i].due > t /\ Blockers(b.orbit, t, i) = {}}

\* The code walks the queue in rank order and grants what is not blocked by
\* then.  A request granted on the way still blocks whom it blocked while it
\* waited, so what is granted is what nothing blocked at the start.
Promotable(b, t) ==
    {i \in Pending(b.orbit) : /\ b.orbit[i].due > t
                              /\ Fresh(b.agent, b.orbit[i].agent, t)
                              /\ Blockers(b.orbit, t, i) = {}}

\* Fencing tokens follow the rank of the granted requests.
Place(o, t, P, i) == Cardinality({j \in P : j = i \/ Outranks(o, t, j, i)})

\* (Fault: the promotion hands out tokens without drawing them.)
PromoteUndrawn(b, t) ==
    LET P == Promotable(b, t)
    IN  [b EXCEPT !.orbit = [i \in DOMAIN b.orbit |->
                       IF i \in P
                       THEN [b.orbit[i] EXCEPT !.state = "HELD",
                                               !.fence = b.fence + Place(b.orbit, t, P, i),
                                               !.due   = t + b.orbit[i].ttl]
                       ELSE b.orbit[i]]]

Promote(b, t) ==
    LET P == Promotable(b, t)
    IN  [b EXCEPT
          !.orbit = [i \in DOMAIN b.orbit |->
                       IF i \in P
                       THEN [b.orbit[i] EXCEPT !.state = "HELD",
                                               !.fence = b.fence + Place(b.orbit, t, P, i),
                                               !.due   = t + b.orbit[i].ttl]
                       ELSE b.orbit[i]],
          !.fence = b.fence + Cardinality(P)]

\* Reconciliation without and with the reclaim of silent agents.
Settle(b, t) == {Promote(c, t) : c \in BreakCycles(TimeOut(Expire(b, t), t), t)}

Reconcile(b, t) ==
    LET e == Expire(b, t)
    IN  {Promote(c, t) : c \in BreakCycles(TimeOut(Retire(e, Zombies(e, t)), t), t)}

-----------------------------------------------------------------------------
\* Claims

\* (Fault: the previewed ticket is never drawn.)
ExtendUndrawn(b, row) ==
    [b EXCEPT !.orbit = [i \in 1..(b.seq + 1) |-> IF i \in DOMAIN b.orbit THEN b.orbit[i] ELSE row]]

Extend(b, row) ==
    [b EXCEPT !.seq   = b.seq + 1,
              !.orbit = [i \in 1..(b.seq + 1) |-> IF i \in DOMAIN b.orbit THEN b.orbit[i] ELSE row]]

\* The request of agent a as it would wait in the queue.
Waiting(a, r, t) ==
    [agent |-> a, cells |-> r.cells, mode |-> r.mode, prio |-> r.prio,
     ttl |-> r.ttl, task |-> r.task, state |-> "PENDING", fence |-> 0,
     due |-> t + WaitTimeout, enq |-> t, pinned |-> FALSE]

\* A live row of the same intent answers the claim again.
Duplicate(o, a, r) ==
    \E i \in Live(o) : /\ o[i].agent = a
                       /\ o[i].cells = r.cells
                       /\ o[i].mode = r.mode
                       /\ o[i].task = r.task

Granted(b, a, r, t) ==
    LET row == [Waiting(a, r, t) EXCEPT !.state = "HELD", !.fence = b.fence + 1,
                                        !.due = t + r.ttl, !.enq = 0]
    IN  [Extend(b, row) EXCEPT !.fence = b.fence + 1]

\* (Faults: the queue is found full one request too late; a request queues
\* without a look at whom its owner keeps waiting.)
AdmitOneMore(b, a, r, t) ==
    LET queued == Extend(b, Waiting(a, r, t))
    IN  IF Duplicate(b.orbit, a, r) THEN {b}
        ELSE IF Blockers(queued.orbit, t, b.seq + 1) = {} THEN BreakCycles(Granted(b, a, r, t), t)
        ELSE IF Cardinality(Pending(b.orbit)) > Capacity THEN {b}
        ELSE {queued}

AdmitUnlooped(b, a, r, t) ==
    LET queued == Extend(b, Waiting(a, r, t))
    IN  IF Duplicate(b.orbit, a, r) THEN {b}
        ELSE IF Blockers(queued.orbit, t, b.seq + 1) = {} THEN {Granted(b, a, r, t)}
        ELSE IF Cardinality(Pending(b.orbit)) >= Capacity THEN {b}
        ELSE {queued}

\* The outcomes of a claim on a swept board: a duplicate or a full queue
\* changes nothing, a blocked request queues unless that closes a cycle, and
\* a granted one may deny a request it closed a cycle with.
Admit(b, a, r, t) ==
    LET queued  == Extend(b, Waiting(a, r, t))
        new     == b.seq + 1
        blocked == Blockers(queued.orbit, t, new) # {}
        loops   == \E c \in Cycles(WaitFor(queued.orbit, t)) : \E k \in DOMAIN c : c[k] = a
    IN  IF Duplicate(b.orbit, a, r) THEN {b}
        ELSE IF ~blocked THEN BreakCycles(Granted(b, a, r, t), t)
        ELSE IF Cardinality(Pending(b.orbit)) >= Capacity THEN {b}
        ELSE IF loops THEN {[queued EXCEPT !.orbit = Close(@, {new}, "DENIED")]}
        ELSE {queued}

=============================================================================
