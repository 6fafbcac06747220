------------------------------- MODULE Outbox -------------------------------
(***************************************************************************)
(* The notification outbox.  A transition of an orbit and the notification *)
(* of it commit together, as a row of admission_outbox; a dispatcher       *)
(* thread, woken by a timer or by a caller of flush_admission_outbox(),    *)
(* claims rows for a while, hands each to the sink in a thread of its own  *)
(* and acknowledges it.  Delivery is at least once and in order within a   *)
(* stream, whoever crashes, hangs, times out or is deposed on the way.     *)
(*                                                                         *)
(* Notifications are numbered as outbox_seq does, in the order of their    *)
(* commits, and coordinators in the order of their starts.  Time is        *)
(* abstracted to what the rows tell apart: a row is due when its backoff,  *)
(* or its claim, has run out.                                              *)
(***************************************************************************)
EXTENDS Naturals, FiniteSets

CONSTANTS
    Coordinators,   \* coordinators that may be started on the database
    Notifications,  \* bound: notifications ever committed
    Plans           \* what the notifications are of, what the sink makes of them,
                    \* and how the coordinators are run:
                    \*   stream    the request and generation of each
                    \*   before    the notifications each explicitly comes after
                    \*   poison    those the sink never accepts
                    \*   inflight  notification_max_inflight
                    \*   starts    bound: coordinators started
                    \*   flushes   does anybody call flush_admission_outbox()?
                    \*   sweeps    does the periodic sweep run?
                    \*   closes    is a coordinator closed before its successor starts?

Process == 1 .. Coordinators
Event == 1 .. Notifications

ASSUME OutboxAssumption ==
    /\ {Coordinators, Notifications} \subseteq Nat
    /\ Plans \subseteq [stream : [Event -> Nat], before : [Event -> SUBSET Event],
                         poison : SUBSET Event, inflight : Nat \ {0},
                         starts : Process, flushes : BOOLEAN, sweeps : BOOLEAN, closes : BOOLEAN]
    /\ \A d \in Plans, e \in Event : \A f \in d.before[e] : f < e

VARIABLES
    plan,       \* one of Plans
    row,        \* admission_outbox
    leader,     \* the coordinator whose critical sections pass, 0 before the first
    proc,       \* life cycle, timer, dispatch lock and delivery registry of a coordinator
    worker,     \* its dispatcher threads: one of the timer and one that flushes
    sink        \* what has reached the sink, at least once

vars == <<plan, row, leader, proc, worker, sink>>

-----------------------------------------------------------------------------
Worker == {"timer", "flush"}

\* token: the claim's.  One thread of a process delivers at a time and keeps
\* its claim in mind until then, so the process is enough to tell claims apart.
Row == [state : {"NONE", "PENDING", "DELIVERING", "DELIVERED"},
        token : Process \cup {0}, due : BOOLEAN]

\* life: "closing" once the gates are shut, "closed" once all is joined.
\* tries: _notification_attempts, the delivery threads nobody has collected.
ProcRow == [life : {"new", "up", "closing", "closed", "gone"}, timer : BOOLEAN,
            lock : Worker \cup {"free"},
            tries : [Event -> {"none", "live", "ok", "failed"}]]

\* "ok" and "failed": the delivery was decided without a thread of its own.
WorkerRow == [pc : {"idle", "fired", "drain", "attempt", "ok", "failed", "leaving"},
              event : SUBSET Event]

Unstarted == [life |-> "new", timer |-> FALSE, lock |-> "free",
              tries |-> [e \in Event |-> "none"]]

Idle == [pc |-> "idle", event |-> {}]

Init ==
    /\ plan \in Plans
    /\ row = [e \in Event |-> [state |-> "NONE", token |-> 0, due |-> FALSE]]
    /\ leader = 0
    /\ proc = [p \in Process |-> Unstarted]
    /\ worker = [p \in Process |-> [w \in Worker |-> Idle]]
    /\ sink = {}

-----------------------------------------------------------------------------
\* The rows

Committed(e) == row[e].state # "NONE"
Delivered(e) == row[e].state = "DELIVERED"

\* The earlier rows of e's stream, and its explicit predecessors.
Predecessors(e) == plan.before[e] \cup {f \in 1 .. e - 1 : plan.stream[f] = plan.stream[e]}

\* (Faults: other streams are forgotten; nothing overtakes anything.)
HeadsOfStreams ==
    {e \in Event : Committed(e) /\ ~Delivered(e)
                   /\ \A f \in 1 .. e - 1 : plan.stream[f] = plan.stream[e] => Delivered(f)}
HeadOfAll == {e \in Event : Committed(e) /\ ~Delivered(e) /\ \A f \in 1 .. e - 1 : Delivered(f)}

\* The undelivered rows nothing undelivered comes before.
Heads == {e \in Event : Committed(e) /\ ~Delivered(e)
                        /\ \A f \in Predecessors(e) : Delivered(f)}

Claimable == {e \in Heads : row[e].due}

\* Commit of a transition with its notification; the hook after the commit
\* wakes the dispatcher.  (A crash in between is a crash after it.)
Enqueue(e) ==
    /\ ~Committed(e) /\ \A f \in 1 .. e - 1 : Committed(f)
    /\ leader # 0 /\ proc[leader].life # "gone"
    /\ row' = [row EXCEPT ![e] = [@ EXCEPT !.state = "PENDING", !.due = TRUE]]
    /\ proc' = [proc EXCEPT ![leader].timer = @ \/ proc[leader].life = "up"]
    /\ UNCHANGED <<plan, leader, worker, sink>>

\* The backoff of a row is over, or the claim of one expires.  A backoff lasts
\* a second at least, so none ends between a settlement and the next claim;
\* and that a claim expires is of no account while the leader works on it.
TimePasses(e) ==
    /\ ~row[e].due
    /\ \/ /\ row[e].state = "DELIVERING"
          /\ \A w \in Worker : e \notin worker[leader][w].event
       \/ /\ row[e].state = "PENDING"
          /\ \A w \in Worker : worker[leader][w].pc # "drain"
    /\ row' = [row EXCEPT ![e].due = TRUE]
    /\ UNCHANGED <<plan, leader, proc, worker, sink>>

-----------------------------------------------------------------------------
\* Dispatcher threads

Goes(p, w, pc) == worker' = [worker EXCEPT ![p][w].pc = pc]

Ends(p, w) == worker' = [worker EXCEPT ![p][w] = Idle]

\* The dispatch lock is free again if w had it.
Unlocked(c, w) == [c EXCEPT !.lock = IF @ = w THEN "free" ELSE @]

\* The timer fires.  The thread is not yet known to close().  (That of a
\* deposed coordinator ends in its first critical section; so does a flush.)
Fire(p) ==
    /\ proc[p].timer /\ worker[p]["timer"].pc = "idle"
    /\ leader = p
    /\ proc' = [proc EXCEPT ![p].timer = FALSE]
    /\ Goes(p, "timer", "fired")
    /\ UNCHANGED <<plan, row, leader, sink>>

\* It fires while the thread of an earlier one dispatches, and gives up.
FireInVain(p) ==
    /\ proc[p].timer /\ proc[p].lock = "timer"
    /\ proc' = [proc EXCEPT ![p].timer = FALSE]
    /\ UNCHANGED <<plan, row, leader, worker, sink>>

\* (Fault: it does not look whether the gate was shut meanwhile.)
TakeLockUngated(p) ==
    /\ worker[p]["timer"].pc = "fired"
    /\ IF proc[p].lock = "free"
       THEN /\ proc' = [proc EXCEPT ![p].lock = "timer"]
            /\ Goes(p, "timer", "drain")
       ELSE /\ Ends(p, "timer")
            /\ UNCHANGED proc
    /\ UNCHANGED <<plan, row, leader, sink>>

\* A fired timer gives up when a flush dispatches or the gate is shut.
TakeLock(p) ==
    /\ worker[p]["timer"].pc = "fired"
    /\ IF proc[p].lock = "free" /\ proc[p].life = "up"
       THEN /\ proc' = [proc EXCEPT ![p].lock = "timer"]
            /\ Goes(p, "timer", "drain")
       ELSE /\ Ends(p, "timer")
            /\ UNCHANGED proc
    /\ UNCHANGED <<plan, row, leader, sink>>

\* flush_admission_outbox(), once it has the lock it waits for.
Flush(p) ==
    /\ plan.flushes
    /\ proc[p].life = "up" /\ leader = p
    /\ proc[p].lock = "free" /\ worker[p]["flush"].pc = "idle"
    /\ proc' = [proc EXCEPT ![p].lock = "flush"]
    /\ Goes(p, "flush", "drain")
    /\ UNCHANGED <<plan, row, leader, sink>>

\* The registry without the outcome the dispatcher waited for.
Collected(p, w) ==
    [proc[p] EXCEPT !.tries =
        [e \in Event |-> IF worker[p][w] = [pc |-> "attempt", event |-> {e}] /\ @[e] # "live"
                         THEN "none" ELSE @[e]]]

\* A coordinator that was deposed finds out in its critical section.
Conflict(p, w) ==
    /\ worker[p][w].pc \in {"drain", "attempt", "ok", "failed"}
    /\ leader # p
    /\ proc' = [proc EXCEPT ![p] = Unlocked(Collected(p, w), w)]
    /\ Ends(p, w)
    /\ UNCHANGED <<plan, row, leader, sink>>

\* Nothing is due: the timer is armed for the time of the next head, if it is
\* not armed.  A flush asks for that time with the lock still in its hands.
Drained(p, w) ==
    /\ worker[p][w].pc = "drain" /\ leader = p
    /\ Claimable = {}
    /\ LET rest == IF w = "flush" THEN proc[p] ELSE Unlocked(proc[p], w)
       IN  proc' = [proc EXCEPT ![p] =
                       [rest EXCEPT !.timer = @ \/ (proc[p].life = "up" /\ Heads # {})]]
    /\ IF w = "flush" THEN Goes(p, w, "leaving") ELSE Ends(p, w)
    /\ UNCHANGED <<plan, row, leader, sink>>

FlushReturns(p) ==
    /\ worker[p]["flush"].pc = "leaving"
    /\ proc' = [proc EXCEPT ![p] = Unlocked(@, "flush")]
    /\ Ends(p, "flush")
    /\ UNCHANGED <<plan, row, leader, sink>>

-----------------------------------------------------------------------------
\* One delivery: _deliver_admission_notification

Registered(t) == {e \in Event : t[e] # "none"}
LiveTries(t) == {e \in Event : t[e] = "live"}

\* (Fault: late outcomes are kept for as long as their events may come back.)
EvictedNothing(t) == IF Cardinality(LiveTries(t)) < plan.inflight THEN {t} ELSE {}

\* Late outcomes go until there is a place, where there can be one.
Evicted(t) ==
    IF Cardinality(Registered(t)) < plan.inflight THEN {t}
    ELSE {[e \in Event |-> IF e \in out THEN "none" ELSE t[e]] :
            out \in {o \in SUBSET (Registered(t) \ LiveTries(t)) :
                        Cardinality(Registered(t)) - Cardinality(o) = plan.inflight - 1}}

\* (Fault: an earlier delivery is taken to have ended.)
BeginWithPrior(p, w, e, t) ==
    IF t[e] # "none"
    THEN /\ worker' = [worker EXCEPT ![p][w] = [pc |-> t[e], event |-> {e}]]
         /\ proc' = [proc EXCEPT ![p].tries[e] = "none"]
    ELSE /\ worker' = [worker EXCEPT ![p][w] = [pc |-> "attempt", event |-> {e}]]
         /\ proc' = [proc EXCEPT ![p].tries[e] = "live"]

\* A delivery begins with what the registry has on its event: an earlier
\* outcome is used up, a thread that still runs is not doubled, and none
\* starts without a place or behind the gate.
Begin(p, w, e, t) ==
    \/ /\ proc[p].life # "up" \/ t[e] = "live" \/ (t[e] = "none" /\ Evicted(t) = {})
       /\ worker' = [worker EXCEPT ![p][w] = [pc |-> "failed", event |-> {e}]]
       /\ UNCHANGED proc
    \/ /\ proc[p].life = "up" /\ t[e] \in {"ok", "failed"}
       /\ worker' = [worker EXCEPT ![p][w] = [pc |-> t[e], event |-> {e}]]
       /\ proc' = [proc EXCEPT ![p].tries[e] = "none"]
    \/ /\ proc[p].life = "up" /\ t[e] = "none"
       /\ worker' = [worker EXCEPT ![p][w] = [pc |-> "attempt", event |-> {e}]]
       /\ \E kept \in Evicted(t) :
             proc' = [proc EXCEPT ![p].tries = [kept EXCEPT ![e] = "live"]]

\* The first due head is claimed for a while and its delivery begun.  (The
\* registry is the process's own: no other step can tell the two apart.)
Claim(p, w) ==
    /\ worker[p][w].pc = "drain" /\ leader = p
    /\ \E e \in Claimable :
          /\ \A f \in Claimable : e <= f
          /\ row' = [row EXCEPT ![e] = [state |-> "DELIVERING", token |-> p, due |-> FALSE]]
          /\ Begin(p, w, e, proc[p].tries)
    /\ UNCHANGED <<plan, leader, sink>>

\* The thread of a delivery comes to its end: the sink has the event, or
\* raised, be it after it had taken it.
EffectEnds(p, e, outcome) ==
    /\ proc[p].tries[e] = "live"
    /\ outcome = "ok" => e \notin plan.poison
    /\ proc' = [proc EXCEPT ![p].tries[e] = outcome]
    /\ \E reached \in IF outcome = "ok" THEN {TRUE} ELSE BOOLEAN :
          sink' = IF reached THEN sink \cup {e} ELSE sink
    /\ UNCHANGED <<plan, row, leader, worker>>

\* (Fault: the end of the wait is taken for the end of the delivery.)
WaitedOut(p, w, e) == IF worker[p][w].pc = "failed" THEN "failed" ELSE "ok"

\* The dispatcher waits for its thread, no longer than notification_timeout.
Outcome(p, w, e) ==
    IF worker[p][w].pc # "attempt" THEN worker[p][w].pc
    ELSE IF proc[p].tries[e] = "live" THEN "failed"
    ELSE proc[p].tries[e]

\* ACK or retry, by the claim token.  A token that is lost ends the drain with
\* an exception, after which the timer's thread tries again in a second.
Settle(p, w) ==
    /\ worker[p][w].pc \in {"attempt", "ok", "failed"} /\ leader = p
    /\ \E e \in worker[p][w].event :
          IF row[e].state = "DELIVERING" /\ row[e].token = p
          THEN /\ row' = [row EXCEPT ![e] =
                             [state |-> IF Outcome(p, w, e) = "ok" THEN "DELIVERED" ELSE "PENDING",
                              token |-> 0, due |-> Outcome(p, w, e) = "ok"]]
               /\ worker' = [worker EXCEPT ![p][w] = [pc |-> "drain", event |-> {}]]
               /\ proc' = [proc EXCEPT ![p] = Collected(p, w)]
          ELSE /\ proc' = [proc EXCEPT ![p] =
                             [Unlocked(Collected(p, w), w) EXCEPT
                                !.timer = @ \/ (proc[p].life = "up" /\ w = "timer")]]
               /\ Ends(p, w)
               /\ UNCHANGED row
    /\ UNCHANGED <<plan, leader, sink>>

-----------------------------------------------------------------------------
\* Coordinators

\* A coordinator is admitted as leader, and its start wakes the dispatcher.
\* The one before may be closed, gone, or alive and late with its heartbeat.
Start(p) ==
    /\ p = leader + 1 /\ p <= plan.starts
    /\ leader' = p
    /\ proc' = [proc EXCEPT ![p].life = "up", ![p].timer = TRUE]
    /\ UNCHANGED <<plan, row, worker, sink>>

Sweep(p) ==
    /\ plan.sweeps
    /\ leader = p /\ proc[p].life = "up"
    /\ proc' = [proc EXCEPT ![p].timer = TRUE]
    /\ UNCHANGED <<plan, row, leader, worker, sink>>

\* All its threads go with a process that dies.
Crash(p) ==
    /\ proc[p].life \in {"up", "closing"}
    /\ leader < plan.starts \/ leader # p
    /\ proc' = [proc EXCEPT ![p] = [Unstarted EXCEPT !.life = "gone"]]
    /\ worker' = [worker EXCEPT ![p] = [w \in Worker |-> Idle]]
    /\ UNCHANGED <<plan, row, leader, sink>>

\* close() shuts the gates, cancels the timer ...
BeginClose(p) ==
    /\ plan.closes
    /\ proc[p].life = "up"
    /\ leader < plan.starts \/ leader # p
    /\ proc' = [proc EXCEPT ![p] = [@ EXCEPT !.life = "closing", !.timer = FALSE]]
    /\ UNCHANGED <<plan, row, leader, worker, sink>>

\* ... and returns when it has joined the registered dispatchers and every
\* delivery thread.  (When it waits too long it raises, and stays closing.)
FinishClose(p) ==
    /\ proc[p].life = "closing"
    /\ \A w \in Worker : worker[p][w].pc \in {"idle", "fired"}
    /\ LiveTries(proc[p].tries) = {}
    /\ proc' = [proc EXCEPT ![p] = [@ EXCEPT !.life = "closed", !.tries = Unstarted.tries]]
    /\ UNCHANGED <<plan, row, leader, worker, sink>>

-----------------------------------------------------------------------------
Step(p, w) ==
    Conflict(p, w) \/ Claim(p, w) \/ Settle(p, w) \/ Drained(p, w)

Next ==
    \/ \E e \in Event : Enqueue(e) \/ TimePasses(e)
    \/ \E p \in Process :
          \/ Fire(p) \/ FireInVain(p) \/ TakeLock(p) \/ Flush(p) \/ FlushReturns(p)
          \/ \E w \in Worker : Step(p, w)
          \/ \E e \in Event, outcome \in {"ok", "failed"} : EffectEnds(p, e, outcome)
          \/ Start(p) \/ Sweep(p) \/ Crash(p) \/ BeginClose(p) \/ FinishClose(p)

Spec == Init /\ [][Next]_vars

\* Threads run, timers fire, time passes, the sweep is periodic, and somebody
\* starts a coordinator when there is none.  The sink answers at last, except
\* for a poisoned event, whose deliveries may hang for ever.
NobodyLeads == IF leader = 0 THEN TRUE ELSE proc[leader].life # "up"

TimerThread(p) == Fire(p) \/ TakeLock(p) \/ Step(p, "timer")

FlushThread(p) == FlushReturns(p) \/ Step(p, "flush")

Fairness ==
    /\ WF_vars(\E p \in Process : leader = p /\ TimerThread(p))
    /\ WF_vars(\E p \in Process : leader = p /\ FlushThread(p))
    /\ WF_vars(\E p \in Process : Sweep(p))
    /\ WF_vars(\E p \in Process : NobodyLeads /\ Start(p))
    /\ \A e \in Event :
          /\ SF_vars(TimePasses(e))
          /\ SF_vars(\E p \in Process : EffectEnds(p, e, "ok"))

FairSpec == Spec /\ Fairness

-----------------------------------------------------------------------------
\* Properties

TypeOK ==
    /\ plan \in Plans
    /\ row \in [Event -> Row]
    /\ leader \in Process \cup {0}
    /\ proc \in [Process -> ProcRow]
    /\ worker \in [Process -> [Worker -> WorkerRow]]
    /\ sink \in SUBSET Event

\* Nothing is acknowledged that the sink does not have, however late, twice or
\* by whose thread it got there.
NothingLost == \A e \in Event : Delivered(e) => e \in sink

\* The delivery threads nobody collected, hanging or late, never exceed
\* notification_max_inflight.
RegistryBounded == \A p \in Process : Cardinality(Registered(proc[p].tries)) <= plan.inflight

\* A coordinator whose close() returned is silent: no dispatcher of it is in
\* the rows, no delivery on its way and no timer armed, so that a successor
\* has the sink for itself.
ClosedIsSilent ==
    \A p \in Process : proc[p].life = "closed" =>
        /\ \A w \in Worker : worker[p][w].pc \in {"idle", "fired"}
        /\ LiveTries(proc[p].tries) = {} /\ ~proc[p].timer

\* The sink hears of things in order: when it has an event for the first time,
\* it has all that come before it in its stream and in other streams.
HeardInOrder == [][\A e \in sink' \ sink : Predecessors(e) \subseteq sink]_vars

\* Every notification arrives and is acknowledged, unless it is behind a
\* poisoned one: neither a crash, nor a lost claim, nor an answer that is always
\* late, nor a poisoned stream keeps it for ever, and if nobody flushes not even
\* a sweep is needed.  (In a registry with less places than notifications, late
\* answers can push each other out for ever.)
Healthy(e) == \A f \in Predecessors(e) \cup {e} : f \notin plan.poison

AllIsHeard ==
    \A e \in Event :
        Committed(e) /\ Healthy(e) /\ plan.inflight >= Notifications ~> Delivered(e)
=============================================================================
