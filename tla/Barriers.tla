------------------------------ MODULE Barriers ------------------------------
(***************************************************************************)
(* A barrier: tasks that merge together or not at all as far as the        *)
(* barrier can help it.  Its members arrive, each with the fence of the    *)
(* write lease it holds; the arrival that completes them drives the trip,  *)
(* which merges one member after another outside the coordinator's lock.   *)
(* Death, a deadline, abort() and a crash break it, and a broken barrier   *)
(* may be declared again, as the next generation.  The operators take the  *)
(* rows of one barrier and of its tasks and give what a step leaves;       *)
(* Primitives makes actions of them.  How one task is merged is Connect's  *)
(* matter: here it starts, with the task CONNECTING, and it ends.          *)
(***************************************************************************)
EXTENDS Naturals, FiniteSets

CONSTANTS
    Task,           \* task ids, which are also the order of the trip
    Agent,
    Dependents,     \* the tasks that other tasks come after
    MaxFence,       \* bound: write leases ever granted
    MaxGeneration   \* bound: declarations of the barrier, less one

\* fence: of its HELD write lease, 0 without one.  due: that lease has run out, and
\* no sweep has come by.  "OPEN" is CLAIMED, IN_ORBIT or DONE; owner a set of one.
TaskRow == [state : {"PENDING", "OPEN", "CONNECTING", "MERGED", "POISONED"},
            owner : SUBSET Agent, fence : 0 .. MaxFence, due : BOOLEAN]

\* The barrier of the latest generation; those before it have ended.
\* arrived: the fence each member arrived with, 0 before.  late: past the deadline.
BarrierRow == [state : {"none", "ARMED", "TRIPPING", "TRIPPED", "BROKEN", "CONSUMED"},
               generation : 0 .. MaxGeneration, policy : {"break", "shrink"},
               timed : BOOLEAN, late : BOOLEAN,
               member : SUBSET Task, arrived : [Task -> 0 .. MaxFence]]

\* Who holds the connect effect lock, and what for: a trip, of the barrier of some
\* generation, with the members still to merge; a connect of one task; a Git process
\* whose coordinator is gone; or nobody.  merging: the task whose merge has started.
DriverRow == [kind : {"nobody", "trip", "connect", "orphan"}, generation : 0 .. MaxGeneration,
              plan : SUBSET Task, merging : SUBSET Task]

NoDriver == [kind |-> "nobody", generation |-> 0, plan |-> {}, merging |-> {}]

NewTask(owner, fence) == [state |-> "OPEN", owner |-> owner, fence |-> fence, due |-> FALSE]

Requeued == [state |-> "PENDING", owner |-> {}, fence |-> 0, due |-> FALSE]

NewBarrier == [state |-> "none", generation |-> 0, policy |-> "break", timed |-> FALSE,
               late |-> FALSE, member |-> {}, arrived |-> [t \in Task |-> 0]]

\* All of it.  granted: the fences used so far.  wedged: the attempt that is left
\* CONNECTING is not in Git, and its rollback cannot be proven (see Connect).
World == [task : [Task -> TaskRow], granted : 0 .. MaxFence, bar : BarrierRow,
          driver : DriverRow, wedged : BOOLEAN]

-----------------------------------------------------------------------------
Merged(w, t) == w.task[t].state = "MERGED"
AllMerged(w) == w.bar.member # {} /\ \A t \in w.bar.member : Merged(w, t)
Arrived(w, t) == w.bar.arrived[t] # 0

\* _party_alive()
Alive(w, t) ==
    \/ Merged(w, t)
    \/ /\ w.task[t].state # "POISONED"
       /\ w.task[t].fence # 0
       /\ Arrived(w, t) /\ w.task[t].state # "CONNECTING"
             => w.bar.arrived[t] = w.task[t].fence

\* The row of a barrier that has ended: its policy and deadline do not matter any more.
Ended(b, state) ==
    [b EXCEPT !.state = state, !.policy = "break", !.timed = FALSE, !.late = FALSE]

\* _break_barrier()
BrokenUp(w) == IF w.bar.state \in {"ARMED", "TRIPPING"}
               THEN [w EXCEPT !.bar = Ended(w.bar, "BROKEN")]
               ELSE w

\* The trip that is on is done.
Tripped(w) == [w EXCEPT !.bar = Ended(w.bar, "TRIPPED")]

\* _barrier_eval() without can_trip: the dead are left behind, or break the barrier.
Evaluated(w) ==
    LET dead == {t \in w.bar.member : ~Alive(w, t)}
        live == w.bar.member \ dead
        shrinks == w.bar.policy = "shrink" /\ dead \cap Dependents = {}
    IN  IF w.bar.state # "ARMED" THEN w
        ELSE IF dead # {} /\ ~shrinks THEN BrokenUp(w)
        ELSE IF w.bar.timed /\ w.bar.late /\ (\E t \in live : ~Arrived(w, t))
        THEN [BrokenUp(w) EXCEPT !.bar.member = live]
        ELSE [w EXCEPT !.bar.member = live]

\* The write leases that have run out are taken back; a pinned one is not.
Expired(w) ==
    [w EXCEPT !.task = [t \in Task |->
        IF w.task[t].due /\ w.task[t].state # "CONNECTING"
        THEN [w.task[t] EXCEPT !.fence = 0, !.due = FALSE] ELSE w.task[t]]]

\* The part of a sweep that is about barriers and their tasks.
Swept(w) == Evaluated(Expired(w))

-----------------------------------------------------------------------------
\* Recovery, under the effect lock: an attempt found CONNECTING is carried forward
\* or taken back, and a trip without a driver is decided by what its members are.
Connecting(w) == {t \in Task : w.task[t].state = "CONNECTING"}

Resolved(w, forward) ==
    [w EXCEPT !.task = [t \in Task |->
        IF t \notin Connecting(w) THEN w.task[t]
        ELSE IF t \in forward THEN [w.task[t] EXCEPT !.state = "MERGED", !.fence = 0, !.due = FALSE]
        ELSE [w.task[t] EXCEPT !.state = "OPEN"]]]

\* (Faults: a member that merged is enough; a trip nobody finished is left alone.)
RecoveredAnyhow(w, proven) ==
    IF w.bar.state # "TRIPPING" THEN w
    ELSE IF \E t \in w.bar.member : Merged(w, t) THEN Tripped(w)
    ELSE BrokenUp(w)
RecoveredIfWhole(w, proven) ==
    IF w.bar.state = "TRIPPING" /\ AllMerged(w) /\ proven THEN Tripped(w)
    ELSE w

\* _barrier_recover(): all members MERGED is a trip, once Git has confirmed it.
BarrierRecovered(w, proven) ==
    IF w.bar.state # "TRIPPING" THEN w
    ELSE IF ~AllMerged(w) THEN BrokenUp(w)
    ELSE IF proven THEN Tripped(w)
    ELSE w

\* What a recovery may leave.  While an attempt is not settled the barriers are left
\* alone.  Git may be asked in vain, for the attempts or after them; and where it
\* answers that a rollback is not proven there is no recovery, for it raises.
Recoveries(w, answers) ==
    LET settled == IF w.wedged THEN {} ELSE {Resolved(w, f) : f \in SUBSET Connecting(w)}
    IN  {BarrierRecovered(v, answers) : v \in settled}
        \cup {v \in {w} : ~answers /\ Connecting(w) # {}}

-----------------------------------------------------------------------------
\* barrier_declare()
Declared(w, members, policy, timed) ==
    IF w.bar.state \in {"ARMED", "TRIPPING"} THEN w
    ELSE [w EXCEPT !.bar =
            [state |-> "ARMED", policy |-> policy, timed |-> timed, late |-> FALSE,
             generation |-> IF w.bar.state = "none" THEN 0 ELSE w.bar.generation + 1,
             member |-> members, arrived |-> [t \in Task |-> 0]]]

\* _barrier_arrive_owned() of task t, recovered, swept and alive: it arrives, and the
\* barrier trips if it was the last.  Its driver plans what is not merged yet.
Arrival(w, t) ==
    IF w.bar.state # "ARMED" \/ t \notin w.bar.member \/ w.task[t].fence = 0 THEN w
    ELSE LET v == Evaluated([w EXCEPT !.bar.arrived[t] = w.task[t].fence])
             full == /\ v.bar.state = "ARMED" /\ v.bar.member # {}
                     /\ \A u \in v.bar.member : Arrived(v, u)
         IN  IF full
             THEN [v EXCEPT !.bar.state = "TRIPPING",
                            !.driver = [kind |-> "trip", generation |-> v.bar.generation,
                                        plan |-> {u \in v.bar.member : ~Merged(v, u)},
                                        merging |-> {}]]
             ELSE v

\* A trip takes its members in the order of their ids.
IsNext(w, t) == t \in w.driver.plan /\ \A u \in w.driver.plan : t <= u

OwnsTrip(w) == w.bar.generation = w.driver.generation /\ w.bar.state = "TRIPPING"

Leaves(w) == [w EXCEPT !.driver = NoDriver]

\* A trip that fails on a member breaks the barrier, if it is still the trip's.
TripFailed(w) == Leaves(IF OwnsTrip(w) THEN BrokenUp(w) ELSE w)

\* The merge token is free: an attempt that is not settled keeps it.
TokenFree(w) == Connecting(w) = {}

\* (Fault: nobody looks whether the trip is still on.)
TripStarts(w, t) ==
    IF /\ w.task[t].state = "OPEN" /\ w.task[t].fence # 0
       /\ w.task[t].fence = w.bar.arrived[t] /\ TokenFree(w)
    THEN [w EXCEPT !.task[t].state = "CONNECTING", !.driver.merging = {t}]
    ELSE TripFailed(w)

\* _barrier_connect_phase_a() of member t: nothing is swept, and the member merges
\* only with the lease it arrived with, in a trip that is still on, and with the
\* merge token.
MemberStarts(w, t) ==
    IF ~OwnsTrip(w) THEN Leaves(w)
    ELSE IF Merged(w, t) THEN [w EXCEPT !.driver.plan = @ \ {t}]
    ELSE IF /\ w.task[t].state = "OPEN" /\ w.task[t].fence # 0
            /\ w.task[t].fence = w.bar.arrived[t] /\ TokenFree(w)
    THEN [w EXCEPT !.task[t].state = "CONNECTING", !.driver.merging = {t}]
    ELSE TripFailed(w)

\* Phases B and C of whichever merge is on: it ends well,
MergeEnds(w, t) ==
    LET v == [w EXCEPT !.task[t] = [@ EXCEPT !.state = "MERGED", !.fence = 0, !.due = FALSE],
                       !.driver.plan = @ \ {t}, !.driver.merging = {}]
    IN  IF w.driver.kind = "trip" THEN v ELSE Leaves(v)

\* or in a conflict or a failed check, which leave the task its lease.
MergeFails(w, t) ==
    LET v == [w EXCEPT !.task[t].state = "OPEN"]
    IN  IF w.driver.kind = "trip" THEN TripFailed(v) ELSE Leaves(v)

\* or without a proof of either, which leaves the attempt to recovery.
MergeStops(w) == IF w.driver.kind = "trip" THEN TripFailed(w) ELSE Leaves(w)

\* The end of a trip.
TripEnds(w) == Leaves(IF OwnsTrip(w) THEN Tripped(w) ELSE w)

\* _terminalize_barrier_exception(): an exception in the middle of a trip.
TripRaises(w) ==
    IF OwnsTrip(w) /\ AllMerged(w) THEN Leaves(Tripped(w))
    ELSE IF OwnsTrip(w) THEN Leaves(BrokenUp(w))
    ELSE Leaves(w)

\* Phase A of a public connect(), which does sweep.
ConnectStarts(w, t) ==
    IF w.task[t].state = "OPEN" /\ w.task[t].fence # 0 /\ TokenFree(w)
    THEN [w EXCEPT !.task[t].state = "CONNECTING",
                   !.driver = [NoDriver EXCEPT !.kind = "connect", !.merging = {t}]]
    ELSE w

\* barrier_abort() is BrokenUp; barrier_consume():
Consumed(w) == IF w.bar.state = "TRIPPED" THEN [w EXCEPT !.bar.state = "CONSUMED"] ELSE w

\* The coordinator dies; a Git process of its own may live on, with the lock.
Died(w) ==
    {Leaves(w)} \cup
    {[w EXCEPT !.driver = [NoDriver EXCEPT !.kind = "orphan", !.merging = w.driver.merging]]
        : t \in w.driver.merging}

\* What happens to the tasks otherwise.  An agent claims for a task of its own or
\* of nobody; gives its lease back; loses it to time; and when it is reclaimed its
\* tasks are requeued, poisoned, or (the DONE ones) left to it.
Granted(w, t, a) ==
    [w EXCEPT !.task[t] = [state |-> "OPEN", owner |-> {a}, fence |-> w.granted + 1, due |-> FALSE],
              !.granted = @ + 1]

Released(w, t) == [w EXCEPT !.task[t].fence = 0, !.task[t].due = FALSE]
LapsedLease(w, t) == [w EXCEPT !.task[t].due = TRUE]
LateBarrier(w) == [w EXCEPT !.bar.late = TRUE]

OwnedBy(w, a) == {t \in Task : w.task[t].owner = {a}}

Forsaken(w, a, fate) ==
    LET v == [w EXCEPT !.task = [t \in Task |->
                IF t \notin OwnedBy(w, a) \/ Merged(w, t) THEN w.task[t]
                ELSE IF fate[t] = "OPEN" THEN [w.task[t] EXCEPT !.fence = 0, !.due = FALSE]
                ELSE [Requeued EXCEPT !.state = fate[t]]]]
    IN  IF \E t \in OwnedBy(w, a) : t \in w.bar.member THEN Evaluated(v) ELSE v
=============================================================================
