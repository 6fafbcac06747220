------------------------------- MODULE Orbits -------------------------------
(***************************************************************************)
(* The lease authority of the coordinator (core.py, store.py): agents ask  *)
(* for orbits, which are leases on sets of repository cells; the           *)
(* coordinator grants them, queues them, expires them, reclaims them from  *)
(* agents that fell silent, and pins them while a connect merges their     *)
(* task.                                                                   *)
(*                                                                         *)
(* Every verb of the coordinator runs in one critical section (an RLock    *)
(* and BEGIN IMMEDIATE), so a verb is one action here, with every sweep    *)
(* and reconciliation the verb performs.  A connect is the exception: it   *)
(* is two critical sections with a merge outside the lock between them.    *)
(*                                                                         *)
(* A verb that is refused leaves at most a heartbeat behind, which         *)
(* Heartbeat models, or a sweep, which Sweep models; a connect that is     *)
(* refused may also have used up a token (ConnectTooEarly).                *)
(***************************************************************************)
EXTENDS Boards

CONSTANTS
    Request,            \* what agents may claim: cells, mode, prio, ttl, task
    Windows,            \* the liveness windows a heartbeat may declare
    ForeignStart,       \* may an agent start a task somebody else has claimed?
    MaxOrbits,          \* bound: orbit rows ever created
    MaxFence,           \* bound: no connect starts above this fencing token
    MaxWaste,           \* bound: no token is wasted above this one
    MaxTime             \* bound: the last instant the clock reaches

ASSUME RequestAssumption ==
    Request \subseteq [cells : SUBSET Cell, mode : Mode, prio : Nat,
                       ttl : Nat \ {0}, task : Task]
ASSUME WindowAssumption == Windows \subseteq Nat \ {0}
ASSUME BoundAssumption ==
    /\ ForeignStart \in BOOLEAN
    /\ MaxOrbits \in Nat
    /\ MaxFence \in Nat
    /\ MaxWaste \in Nat
    /\ MaxTime \in Nat

VARIABLES
    now,        \* the coordinator's clock
    agent,      \* the agents table: status, last_heartbeat, liveness_ttl
    orbit,      \* the orbits table, by queue ticket
    seq,        \* the last queue ticket handed out
    fence,      \* the last fencing token handed out
    task,       \* the tasks table, as far as leases depend on it
    token,      \* the task whose connect holds the merge token
    running     \* is a connect between its two critical sections?

vars == <<now, agent, orbit, seq, fence, task, token, running>>

\* The tables a critical section works on.
Board == [orbit |-> orbit, agent |-> agent, task |-> task, token |-> token,
          seq |-> seq, fence |-> fence]

Become(b) ==
    /\ orbit' = b.orbit
    /\ agent' = b.agent
    /\ task' = b.task
    /\ token' = b.token
    /\ seq' = b.seq
    /\ fence' = b.fence

-----------------------------------------------------------------------------
Init ==
    /\ now = 0
    /\ agent = [a \in Agent |-> [status |-> "ABSENT", beat |-> 0, window |-> AgentTTL]]
    /\ orbit = [i \in 1..0 |-> 0]
    /\ seq = 0
    /\ fence = 0
    /\ task = [k \in Task |-> [state |-> "OPEN", agent |-> NoAgent, reclaims |-> 0]]
    /\ token = NoTask
    /\ running = FALSE

Alive(a) == agent[a].status # "RETIRED"

Tick ==
    /\ now < MaxTime
    /\ now' = now + 1
    /\ UNCHANGED <<agent, orbit, seq, fence, task, token, running>>

\* heartbeat(), which may declare a liveness window of the agent's own.
Heartbeat(a, w) ==
    /\ Alive(a)
    /\ agent' = [agent EXCEPT ![a] = [status |-> "WORKING", beat |-> now, window |-> w]]
    /\ UNCHANGED <<now, orbit, seq, fence, task, token, running>>

\* claim() sweeps before it looks at the caller, so a caller that was silent
\* too long reclaims itself and is refused.
Claim(a, r) ==
    /\ seq < MaxOrbits
    /\ now + WaitTimeout <= MaxTime
    /\ Alive(a)
    /\ task[r.task].state = "OPEN"
    /\ \E b \in Reconcile(Board, now) :
          \/ b.agent[a].status = "RETIRED" /\ Become(b)
          \/ /\ b.agent[a].status # "RETIRED"
             /\ \E c \in Admit(Touch(b, a, now), a, r, now) : Become(c)
    /\ UNCHANGED <<now, running>>

\* renew() runs no sweep: a lease that ran out unobserved is renewed too.
Renew(a, i) ==
    /\ Alive(a)
    /\ i \in Held(orbit) /\ orbit[i].agent = a
    /\ Become([Touch(Board, a, now) EXCEPT !.orbit[i].due = now + orbit[i].ttl])
    /\ UNCHANGED <<now, running>>

\* (Fault: a release leaves the promotion to the next sweep.)
ReleaseQuietly(a, i) ==
    /\ Alive(a)
    /\ i \in Held(orbit) /\ orbit[i].agent = a /\ ~orbit[i].pinned
    /\ Become([Touch(Board, a, now) EXCEPT !.orbit = Close(@, {i}, "RELEASED")])
    /\ UNCHANGED <<now, running>>

Release(a, i) ==
    /\ Alive(a)
    /\ i \in Held(orbit) /\ orbit[i].agent = a /\ ~orbit[i].pinned
    /\ \E b \in Reconcile([Touch(Board, a, now) EXCEPT !.orbit = Close(@, {i}, "RELEASED")], now) :
          Become(b)
    /\ UNCHANGED <<now, running>>

CancelWait(a, i) ==
    /\ Alive(a)
    /\ i \in Pending(orbit) /\ orbit[i].agent = a
    /\ \E b \in Reconcile([Touch(Board, a, now) EXCEPT !.orbit = Close(@, {i}, "DENIED")], now) :
          Become(b)
    /\ UNCHANGED <<now, running>>

\* cancel() of a task nobody started closes its leases and requests with it.
CancelTask(k) ==
    LET closed == CloseAll(orbit, {i \in DOMAIN orbit : orbit[i].task = k}, "RELEASED")
    IN  /\ task[k].state = "OPEN"
        /\ \E b \in Reconcile([Board EXCEPT !.orbit = closed, !.task[k].state = "ABORTED"], now) :
              Become(b)
        /\ UNCHANGED <<now, running>>

\* start() asks for no lease and for no agreement with who claimed the task.
Start(a, k) ==
    /\ Alive(a)
    /\ task[k].state = "OPEN"
    /\ ForeignStart \/ \A i \in Live(orbit) : orbit[i].task = k => orbit[i].agent = a
    /\ Become([Touch(Board, a, now) EXCEPT !.task[k].state = "STARTED", !.task[k].agent = a])
    /\ UNCHANGED <<now, running>>

\* The write rows of task k, whatever became of them: a row that expired
\* while the task was worked on keeps the task from ever connecting.
WriteRows(o, k) == {i \in DOMAIN o : o[i].task = k /\ o[i].mode \in WriteModes}

\* finish() by nobody in particular, or by the owner, who is heard from and
\* whose leases are checked.
Finish(a, k) ==
    /\ task[k].state = "STARTED" /\ task[k].agent = a
    /\ \/ Become([Board EXCEPT !.task[k].state = "DONE"])
       \/ /\ Alive(a)
          /\ WriteRows(orbit, k) \subseteq Held(orbit)
          /\ Become([Touch(Board, a, now) EXCEPT !.task[k].state = "DONE"])
    /\ UNCHANGED <<now, running>>

\* The periodic sweep, and any verb that sweeps and is then refused.
Sweep ==
    /\ \E b \in Reconcile(Board, now) : Become(b)
    /\ UNCHANGED <<now, running>>

\* bail() waits for the effect lock.  Its own reconciliation reclaims nobody.
Bail(a) ==
    /\ ~running
    /\ agent[a].status = "WORKING"
    /\ \E b \in Settle(Retire(Board, {a}), now) : Become(b)
    /\ UNCHANGED <<now, running>>

-----------------------------------------------------------------------------
\* connect()

Pin(o, S) == [i \in DOMAIN o |-> [o[i] EXCEPT !.pinned = @ \/ i \in S]]

Unpin(o, S) == [i \in DOMAIN o |-> [o[i] EXCEPT !.pinned = @ /\ i \notin S]]

\* Phase A: sweep, check the leases, take the merge token (which is a row of
\* its own and uses up a fencing token) and pin the leases.
BeginConnect(k) ==
    /\ fence < MaxFence
    /\ ~running /\ token = NoTask
    /\ task[k].state \in {"STARTED", "DONE"}
    /\ \E b \in Reconcile(Board, now) :
          LET W == WriteRows(b.orbit, k)
          IN  /\ b.task[k].state \in {"STARTED", "DONE"}
              /\ W # {} /\ W \subseteq Held(b.orbit)
              /\ Become([b EXCEPT !.orbit = Pin(@, W),
                                  !.task[k].state = "CONNECTING",
                                  !.token = k,
                                  !.fence = @ + 1])
    /\ running' = TRUE
    /\ UNCHANGED now

\* Phase A looks at the state of the task last: a task that nobody started yet
\* costs a merge token, drawn and put back, before it is refused.
ConnectTooEarly(k) ==
    /\ fence < MaxWaste
    /\ ~running /\ token = NoTask
    /\ \E b \in Reconcile(Board, now) :
          LET W == WriteRows(b.orbit, k)
          IN  /\ b.task[k].state = "OPEN"
              /\ W # {} /\ W \subseteq Held(b.orbit)
              /\ Become([b EXCEPT !.fence = @ + 1])
    /\ UNCHANGED <<now, running>>

\* What Phase C checks before it believes its own merge.
OwnsAttempt(k) ==
    /\ task[k].state = "CONNECTING"
    /\ \A i \in WriteRows(orbit, k) : i \in Held(orbit) /\ orbit[i].pinned

Merged(b, k) ==
    [b EXCEPT !.orbit = Close(@, WriteRows(@, k) \cap Held(@), "RELEASED"),
              !.task[k].state = "MERGED",
              !.token = NoTask]

\* (Fault: the rollback forgets to unpin.)
RolledBackPinned(b, k) == [b EXCEPT !.task[k].state = "DONE", !.token = NoTask]

RolledBack(b, k) ==
    [b EXCEPT !.orbit = Unpin(@, {i \in DOMAIN @ : @[i].task = k}),
              !.task[k].state = "DONE",
              !.token = NoTask]

\* Phase C of a running connect, or recovery of one that stopped, which asks
\* the integration branch only whether the merge is there.
EndConnect(k) ==
    /\ token = k
    /\ running => OwnsAttempt(k)
    /\ \E ended \in {Merged(Board, k), RolledBack(Board, k)} :
          \E b \in Reconcile(ended, now) : Become(b)
    /\ running' = FALSE
    /\ UNCHANGED now

\* The effect is over and decided nothing: the process died, Git could not be
\* asked, or Phase C found that it owns the attempt no more.
StopConnect ==
    /\ running
    /\ running' = FALSE
    /\ UNCHANGED <<now, agent, orbit, seq, fence, task, token>>

-----------------------------------------------------------------------------
Next ==
    \/ Tick
    \/ \E a \in Agent : \E w \in Windows \cup {agent[a].window} : Heartbeat(a, w)
    \/ \E a \in Agent, r \in Request : Claim(a, r)
    \/ \E a \in Agent, i \in 1..seq : Renew(a, i)
    \/ \E a \in Agent, i \in 1..seq : Release(a, i)
    \/ \E a \in Agent, i \in 1..seq : CancelWait(a, i)
    \/ \E k \in Task : CancelTask(k)
    \/ \E a \in Agent, k \in Task : Start(a, k)
    \/ \E a \in Agent, k \in Task : Finish(a, k)
    \/ Sweep
    \/ \E a \in Agent : Bail(a)
    \/ \E k \in Task : BeginConnect(k)
    \/ \E k \in Task : ConnectTooEarly(k)
    \/ \E k \in Task : EndConnect(k)
    \/ StopConnect

Spec == Init /\ [][Next]_vars

\* The clock advances, and the server sweeps once a second unless the
\* operator asked it not to.  FairSweep is WF_vars(Sweep) with the enabling
\* condition of a sweep that changes something written out.
SweepDue == \E b \in Reconcile(Board, now) : b # Board

FairSweep == []<>~SweepDue \/ []<><<Sweep>>_vars

Fairness == WF_vars(Tick) /\ FairSweep

FairSpec == Spec /\ Fairness

-----------------------------------------------------------------------------
\* Properties

\* Every table holds what its columns promise, tickets are dense, and no row
\* carries a token that was not yet handed out.
TypeOK ==
    /\ now \in 0..MaxTime
    /\ agent \in [Agent -> AgentRow]
    /\ seq \in Nat
    /\ orbit \in [1..seq -> Row]
    /\ fence \in Nat
    /\ task \in [Task -> TaskRow]
    /\ token \in Task \cup {NoTask}
    /\ running \in BOOLEAN

\* Singulon (SERVER_SPEC, concept of the whole system): two leases that
\* conflict are never held at once, through expiry, reclaim, promotion,
\* cancellation and connect.
Singulon ==
    \A i, j \in Held(orbit) : i # j => ~Conflict(orbit[i], orbit[j])

\* The point of a fencing token: whoever holds a lease holds a higher token
\* than every conflicting lease that was ever granted, so a resource that
\* refuses older tokens refuses every former holder.
HolderHasNewestFence ==
    \A i \in Held(orbit), j \in DOMAIN orbit :
        i # j /\ orbit[j].fence > 0 /\ Conflict(orbit[i], orbit[j])
            => orbit[j].fence < orbit[i].fence

\* A reclaimed agent comes back with nothing: no lease or request of its own
\* and no task under way survives its reclaim, and none is ever given to it.
RetiredOwnsNothing ==
    \A a \in Agent : agent[a].status = "RETIRED" =>
        /\ \A i \in Live(orbit) : orbit[i].agent # a
        /\ \A k \in Task : task[k].state = "STARTED" => task[k].agent # a

\* A pin keeps a lease from expiring and from being released, so it must not
\* outlive its connect: a pinned row is held, its task is CONNECTING, and
\* that task has the merge token.
PinsAccountedFor ==
    \A i \in DOMAIN orbit : orbit[i].pinned =>
        /\ orbit[i].state = "HELD"
        /\ task[orbit[i].task].state = "CONNECTING"
        /\ token = orbit[i].task

\* The queue never holds more than its capacity (QUEUE_FULL), although claims
\* sweep, promote and deny before they count it.
QueueBounded == Cardinality(Pending(orbit)) <= Capacity

\* No step grants a lease past a conflicting request that outranks it, that
\* waited before the step and is still waiting afterwards, aging included.  (A
\* newcomer may outrank what the sweep of its own claim has just granted.)
NoOvertaking ==
    [][\A i \in Held(orbit') \ Held(orbit), j \in Pending(orbit) \cap Pending(orbit') :
          Conflict(orbit'[i], orbit'[j]) =>
              ~Outranks([orbit' EXCEPT ![i].enq = IF i \in DOMAIN orbit THEN orbit[i].enq ELSE now],
                        now, j, i)]_vars

\* A request is granted late to nobody: an owner that is past its liveness
\* window, or a deadline that has passed, gets no lease out of the queue,
\* whichever verb reconciles (bail reconciles without reclaiming).
GrantsOnlyTheLiving ==
    [][\A i \in Pending(orbit) : orbit'[i].state = "HELD" =>
          orbit[i].due > now /\ Fresh(agent', orbit[i].agent, now)]_vars

\* While a merge runs outside the lock, the leases it relies on stay held,
\* pinned and under the same token, whatever the other verbs do.
PinProtects ==
    [][running /\ running' =>
          \A i \in DOMAIN orbit : orbit[i].pinned =>
              /\ orbit'[i].state = "HELD"
              /\ orbit'[i].pinned
              /\ orbit'[i].fence = orbit[i].fence]_vars

\* What fsm.py says of the transition rollback ("connect can be called
\* again"): a task whose merge failed still has the leases a connect asks for.
RollbackIsRetryable ==
    [][\A k \in Task : task[k].state = "CONNECTING" /\ task'[k].state = "DONE" =>
          WriteRows(orbit', k) \subseteq Held(orbit')]_vars

\* No deadlock is left behind: after a step that moves a row (a claim that
\* queues or that takes a lease somebody's request now waits for, as well as
\* every release) no cycle of agents waiting for one another remains.
NoDeadlockLeftBehind ==
    [][(\E i \in DOMAIN orbit' : i \notin DOMAIN orbit \/ orbit'[i].state # orbit[i].state)
          => Acyclic(orbit', now)]_vars

\* One sweep is enough: in whatever state it starts, also when the passing of
\* time has reversed ranks, it leaves no cycle and nothing for a second sweep
\* at the same instant to do.
SweepSettles ==
    \A b \in Reconcile(Board, now) : Acyclic(b.orbit, now) /\ Reconcile(b, now) = {b}

\* No lost wakeup: a step that ends a lease, and hands out no ticket, grants
\* in the same step every request that it unblocked and whose owner was heard
\* from when the step looked.  (A claim sweeps before it counts as a sign of
\* life of its caller.)
WakesWaiters ==
    [][(seq' = seq /\ Held(orbit) \ Held(orbit') # {}) =>
          \A i \in Promotable(Board', now) : ~Fresh(agent, orbit[i].agent, now)]_vars

\* The promise to the resource: the leases that are held and the tokens that
\* were drawn behave like an exclusive authority with ever newer tokens.
Authority == INSTANCE LeaseAuthority WITH
    live <- {[cells |-> orbit[i].cells, mode |-> orbit[i].mode, fence |-> orbit[i].fence] :
                i \in Held(orbit)},
    top  <- fence

ImplementsAuthority == Authority!Spec

\* Nobody waits for ever: every request is granted or denied in the end.
WaitsEnd ==
    \A i \in 1..MaxOrbits :
        (i \in DOMAIN orbit /\ i \in Pending(orbit)) ~> (i \in DOMAIN orbit /\ i \notin Pending(orbit))

\* An agent that fell silent is reclaimed, unless it speaks up in time or its
\* task is being merged.
SilenceIsNoticed ==
    \A a \in Agent : Stale(agent, a, now) ~> (~Stale(agent, a, now) \/ Merging(Board, a))
=============================================================================
