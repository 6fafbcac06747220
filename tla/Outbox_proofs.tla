---------------------------- MODULE Outbox_proofs ----------------------------
(***************************************************************************)
(* The outbox, for any number of coordinators and notifications, any       *)
(* streams and any bound on the deliveries in flight.                      *)
(*                                                                         *)
(* That what is acknowledged was heard, and heard in order, is not         *)
(* inductive: between the claim of a row and its acknowledgement the       *)
(* knowledge of the sink is spread over the registry of delivery threads   *)
(* and the dispatcher that waits.  The invariant says what each of them    *)
(* knows, whoever crashes, is deposed or comes too late.                   *)
(***************************************************************************)
EXTENDS Outbox, FiniteSetTheorems, TLAPS

\* A delivery that ended well is known to the sink, in the registry
RegistryKnows ==
    \A p \in Process, e \in Event : proc[p].tries[e] = "ok" => e \in sink

\* and in the hands of a dispatcher.
DispatcherKnows ==
    \A p \in Process, w \in Worker : worker[p][w].pc = "ok" => worker[p][w].event \subseteq sink

\* No delivery has begun before all that comes before it was acknowledged.
BegunInOrder ==
    \A p \in Process, e \in Event :
        proc[p].tries[e] # "none" => \A f \in Predecessors(e) : Delivered(f)

\* Behind the gate no timer is armed and no delivery begins.
Gated == \A p \in Process : proc[p].life \in {"closing", "closed"} => ~proc[p].timer

IInv == /\ TypeOK /\ RegistryKnows /\ DispatcherKnows /\ BegunInOrder /\ NothingLost
        /\ Gated /\ ClosedIsSilent

\* A plan is of its type,
LEMMA PlanType ==
    ASSUME plan \in Plans
    PROVE  /\ plan.stream \in [Event -> Nat] /\ plan.before \in [Event -> SUBSET Event]
           /\ plan.inflight \in Nat \ {0} /\ plan.starts \in Process
BY OutboxAssumption

\* and what comes before a notification is a notification.
LEMMA PredecessorType ==
    ASSUME plan \in Plans, NEW e \in Event
    PROVE  Predecessors(e) \subseteq Event
<1>1. 1 .. e - 1 \subseteq Event
      BY OutboxAssumption, SMT DEF Event
<1> QED BY <1>1, PlanType DEF Predecessors

\* It holds before the first coordinator starts.
LEMMA InitIInv == Init => IInv
BY SMT DEF Init, IInv, TypeOK, Row, ProcRow, WorkerRow, Unstarted, Idle, RegistryKnows,
           DispatcherKnows, BegunInOrder, NothingLost, Delivered, Gated, ClosedIsSilent

Life == {"new", "up", "closing", "closed", "gone"}
Outcomes == {"none", "live", "ok", "failed"}
Pc == {"idle", "fired", "drain", "attempt", "ok", "failed", "leaving"}

\* The types of the fields of a coordinator,
LEMMA ProcField ==
    ASSUME NEW c \in ProcRow
    PROVE  /\ c.life \in Life /\ c.timer \in BOOLEAN /\ c.lock \in Worker \cup {"free"}
           /\ c.tries \in [Event -> Outcomes]
BY DEF ProcRow, Life, Outcomes

\* what remains one when a field is updated,
LEMMA ProcFieldUpdate ==
    ASSUME NEW c \in ProcRow
    PROVE  /\ \A x \in Life : [c EXCEPT !.life = x] \in ProcRow
           /\ \A x \in BOOLEAN : [c EXCEPT !.timer = x] \in ProcRow
           /\ \A x \in Worker \cup {"free"} : [c EXCEPT !.lock = x] \in ProcRow
           /\ \A x \in [Event -> Outcomes] : [c EXCEPT !.tries = x] \in ProcRow
BY DEF ProcRow, Life, Outcomes

\* and the same of all coordinators
LEMMA ProcUpdate ==
    ASSUME proc \in [Process -> ProcRow], NEW p \in Process
    PROVE  /\ \A x \in BOOLEAN : [proc EXCEPT ![p].timer = x] \in [Process -> ProcRow]
           /\ \A x \in Worker \cup {"free"} :
                 [proc EXCEPT ![p].lock = x] \in [Process -> ProcRow]
           /\ \A x \in [Event -> Outcomes] : [proc EXCEPT ![p].tries = x] \in [Process -> ProcRow]
           /\ \A x \in ProcRow : [proc EXCEPT ![p] = x] \in [Process -> ProcRow]
<1>1. proc[p] \in ProcRow
      OBVIOUS
<1> QED BY <1>1, ProcFieldUpdate

\* and of all dispatcher threads.
LEMMA WorkerUpdate ==
    ASSUME worker \in [Process -> [Worker -> WorkerRow]], NEW p \in Process, NEW w \in Worker
    PROVE  /\ \A x \in WorkerRow :
                 [worker EXCEPT ![p][w] = x] \in [Process -> [Worker -> WorkerRow]]
           /\ \A x \in Pc :
                 [worker EXCEPT ![p][w].pc = x] \in [Process -> [Worker -> WorkerRow]]
<1>1. worker[p] \in [Worker -> WorkerRow] /\ worker[p][w] \in WorkerRow
      OBVIOUS
<1>2. \A x \in Pc : [worker[p][w] EXCEPT !.pc = x] \in WorkerRow
      BY <1>1 DEF WorkerRow, Pc
<1> QED BY <1>1, <1>2

\* Records that threads and rows are set to.
LEMMA RecordTypes ==
    /\ Idle \in WorkerRow
    /\ \A x \in Pc, e \in Event : [pc |-> x, event |-> {e}] \in WorkerRow
    /\ \A x \in Pc : [pc |-> x, event |-> {}] \in WorkerRow
    /\ Unstarted \in ProcRow
    /\ "timer" \in Worker /\ "flush" \in Worker
BY DEF Idle, WorkerRow, Pc, Unstarted, ProcRow, Worker

\* What threads are set to is of their type.
LEMMA ThreadTypes ==
    ASSUME TypeOK, NEW p \in Process, NEW w \in Worker
    PROVE  /\ \A x \in Pc : Goes(p, w, x) => worker' \in [Process -> [Worker -> WorkerRow]]
           /\ Ends(p, w) => worker' \in [Process -> [Worker -> WorkerRow]]
<1>1. worker \in [Process -> [Worker -> WorkerRow]]
      BY DEF TypeOK
<1>2. ASSUME NEW x \in Pc, Goes(p, w, x)
      PROVE  worker' \in [Process -> [Worker -> WorkerRow]]
      BY <1>1, <1>2, WorkerUpdate DEF Goes
<1>3. ASSUME Ends(p, w)
      PROVE  worker' \in [Process -> [Worker -> WorkerRow]]
      BY <1>1, <1>3, WorkerUpdate, RecordTypes DEF Ends
<1> QED BY <1>2, <1>3

\* The two operators that give a coordinator's state.
LEMMA UnlockedType ==
    ASSUME NEW c \in ProcRow, NEW w \in Worker
    PROVE  Unlocked(c, w) \in ProcRow
BY ProcField, ProcFieldUpdate DEF Unlocked

\* (Collected takes the outcome its dispatcher waited for out of the registry.)
LEMMA CollectedType ==
    ASSUME TypeOK, NEW p \in Process, NEW w \in Worker
    PROVE  Collected(p, w) \in ProcRow
<1>1. proc[p] \in ProcRow
      BY DEF TypeOK
<1> DEFINE t == [e \in Event |-> IF worker[p][w] = [pc |-> "attempt", event |-> {e}]
                                     /\ proc[p].tries[e] # "live"
                                  THEN "none" ELSE proc[p].tries[e]]
<1>2. t \in [Event -> Outcomes]
      BY <1>1, ProcField DEF Outcomes
<1> QED BY <1>1, <1>2, ProcFieldUpdate DEF Collected

\* What is left after an eviction is a registry.
LEMMA EvictedType ==
    ASSUME NEW t \in [Event -> Outcomes]
    PROVE  Evicted(t) \subseteq [Event -> Outcomes]
BY DEF Evicted, Outcomes

\* Settle without its choice of the event.
Settled(p, w, e) ==
    IF row[e].state = "DELIVERING" /\ row[e].token = p
    THEN /\ row' = [row EXCEPT ![e] =
                       [state |-> IF Outcome(p, w, e) = "ok" THEN "DELIVERED" ELSE "PENDING",
                        token |-> 0, due |-> Outcome(p, w, e) = "ok"]]
         /\ worker' = [worker EXCEPT ![p][w] = [pc |-> "drain", event |-> {}]]
         /\ proc' = [proc EXCEPT ![p] = Collected(p, w)]
    ELSE /\ proc' = [proc EXCEPT ![p] =
                       [Unlocked(Collected(p, w), w) EXCEPT
                          !.timer = @ \/ (proc[p].life = "up" /\ w = "timer")]]
         /\ Ends(p, w)
         /\ UNCHANGED row

\* Every action keeps the types.
LEMMA NextTypeOK == TypeOK /\ [Next]_vars => TypeOK'
<1> SUFFICES ASSUME TypeOK, [Next]_vars
             PROVE  TypeOK'
    OBVIOUS
<1> DEFINE Procs == [Process -> ProcRow]
           Workers == [Process -> [Worker -> WorkerRow]]
<1>1. /\ plan \in Plans /\ row \in [Event -> Row] /\ leader \in Process \cup {0}
      /\ proc \in Procs /\ worker \in Workers /\ sink \in SUBSET Event
      BY DEF TypeOK
<1> USE DEF TypeOK
<1>2. ASSUME NEW e \in Event
      PROVE  /\ Enqueue(e) => TypeOK'
             /\ TimePasses(e) => TypeOK'
      <2>1. row[e] \in Row
            BY <1>1
      <2>2. [row[e] EXCEPT !.state = "PENDING", !.due = TRUE] \in Row
            /\ [row[e] EXCEPT !.due = TRUE] \in Row
            BY <2>1 DEF Row
      <2>3. CASE Enqueue(e)
            <3>1. leader \in Process
                  BY <1>1, <2>3 DEF Enqueue
            <3>2. (proc[leader].timer \/ proc[leader].life = "up") \in BOOLEAN
                  OBVIOUS
            <3>3. proc' \in Procs
                  BY <1>1, <2>3, <3>1, <3>2, ProcUpdate DEF Enqueue
            <3> QED BY <1>1, <2>2, <2>3, <3>3 DEF Enqueue
      <2>4. CASE TimePasses(e)
            BY <1>1, <2>2, <2>4 DEF TimePasses
      <2> QED BY <2>3, <2>4
<1>3. ASSUME NEW p \in Process
      PROVE  /\ Fire(p) => TypeOK'
             /\ FireInVain(p) => TypeOK'
             /\ TakeLock(p) => TypeOK'
             /\ Flush(p) => TypeOK'
             /\ FlushReturns(p) => TypeOK'
      <2>1. CASE Fire(p)
            BY <1>1, <2>1, ProcUpdate, WorkerUpdate, RecordTypes DEF Fire, Goes, Pc
      <2>2. CASE FireInVain(p)
            BY <1>1, <2>2, ProcUpdate DEF FireInVain
      <2>3. CASE TakeLock(p)
            <3>1. proc' \in Procs
                  BY <1>1, <2>3, ProcUpdate, RecordTypes DEF TakeLock
            <3>2. worker' \in Workers
                  BY <2>3, ThreadTypes, RecordTypes DEF TakeLock, Pc
            <3> QED BY <1>1, <2>3, <3>1, <3>2 DEF TakeLock
      <2>4. CASE Flush(p)
            BY <1>1, <2>4, ProcUpdate, WorkerUpdate, RecordTypes DEF Flush, Goes, Pc
      <2>5. CASE FlushReturns(p)
            BY <1>1, <2>5, ProcUpdate, WorkerUpdate, RecordTypes, UnlockedType
               DEF FlushReturns, Ends
      <2> QED BY <2>1, <2>2, <2>3, <2>4, <2>5
<1>4. ASSUME NEW p \in Process, NEW w \in Worker
      PROVE  /\ Conflict(p, w) => TypeOK'
             /\ Claim(p, w) => TypeOK'
             /\ Settle(p, w) => TypeOK'
             /\ Drained(p, w) => TypeOK'
      <2>1. proc[p] \in ProcRow
            BY <1>1
      <2>2. CASE Conflict(p, w)
            BY <1>1, <2>2, ProcUpdate, WorkerUpdate, RecordTypes, UnlockedType, CollectedType
               DEF Conflict, Ends
      <2>3. CASE Claim(p, w)
            <3>1. PICK e \in Claimable :
                     /\ row' = [row EXCEPT ![e] = [state |-> "DELIVERING", token |-> p,
                                                   due |-> FALSE]]
                     /\ Begin(p, w, e, proc[p].tries)
                  BY <2>3 DEF Claim
            <3>2. e \in Event
                  BY DEF Claimable, Heads
            <3>3. [state |-> "DELIVERING", token |-> p, due |-> FALSE] \in Row
                  BY DEF Row
            <3>4. proc[p].tries \in [Event -> Outcomes]
                  BY <2>1, ProcField
            <3>5. \A kept \in Evicted(proc[p].tries) :
                     [kept EXCEPT ![e] = "live"] \in [Event -> Outcomes]
                  BY <3>2, <3>4, EvictedType DEF Outcomes
            <3>6. [proc[p].tries EXCEPT ![e] = "none"] \in [Event -> Outcomes]
                  BY <3>2, <3>4 DEF Outcomes
            <3>7. proc' \in Procs /\ worker' \in Workers
                  <4>1. CASE UNCHANGED proc
                             /\ worker' = [worker EXCEPT ![p][w] =
                                              [pc |-> "failed", event |-> {e}]]
                        BY <1>1, <3>2, <4>1, WorkerUpdate, RecordTypes DEF Pc
                  <4>2. CASE /\ proc[p].tries[e] \in {"ok", "failed"}
                             /\ worker' = [worker EXCEPT ![p][w] =
                                              [pc |-> proc[p].tries[e], event |-> {e}]]
                             /\ proc' = [proc EXCEPT ![p].tries[e] = "none"]
                        <5>1. proc' = [proc EXCEPT ![p].tries =
                                          [proc[p].tries EXCEPT ![e] = "none"]]
                              BY <4>2
                        <5>2. proc' \in Procs
                              BY <1>1, <3>6, <5>1, ProcUpdate
                        <5>3. worker' \in Workers
                              BY <1>1, <3>2, <4>2, WorkerUpdate, RecordTypes DEF Pc
                        <5> QED BY <5>2, <5>3
                  <4>3. CASE /\ worker' = [worker EXCEPT ![p][w] =
                                              [pc |-> "attempt", event |-> {e}]]
                             /\ \E kept \in Evicted(proc[p].tries) :
                                   proc' = [proc EXCEPT ![p].tries = [kept EXCEPT ![e] = "live"]]
                        <5>1. worker' \in Workers
                              BY <1>1, <3>2, <4>3, WorkerUpdate, RecordTypes DEF Pc
                        <5>2. PICK kept \in Evicted(proc[p].tries) :
                                 proc' = [proc EXCEPT ![p].tries = [kept EXCEPT ![e] = "live"]]
                              BY <4>3
                        <5>3. proc' \in Procs
                              BY <1>1, <3>5, <5>2, ProcUpdate
                        <5> QED BY <5>1, <5>3
                  <4> QED BY <3>1, <4>1, <4>2, <4>3 DEF Begin
            <3> QED BY <1>1, <2>3, <3>1, <3>2, <3>3, <3>7 DEF Claim
      <2>4. CASE Settle(p, w)
            <3>1. PICK e \in worker[p][w].event : Settled(p, w, e)
                  BY <2>4 DEF Settle, Settled
            <3>2. worker[p][w] \in WorkerRow
                  BY <1>1
            <3>3. e \in Event
                  BY <3>2 DEF WorkerRow
            <3>4. [state |-> IF Outcome(p, w, e) = "ok" THEN "DELIVERED" ELSE "PENDING",
                   token |-> 0, due |-> Outcome(p, w, e) = "ok"] \in Row
                  BY DEF Row
            <3>5. row' \in [Event -> Row]
                  BY <1>1, <3>1, <3>3, <3>4 DEF Settled
            <3>6. worker' \in Workers
                  <4>1. CASE worker' = [worker EXCEPT ![p][w] = [pc |-> "drain", event |-> {}]]
                        BY <1>1, <4>1, WorkerUpdate, RecordTypes DEF Pc
                  <4>2. CASE Ends(p, w)
                        BY <4>2, ThreadTypes
                  <4> QED BY <3>1, <4>1, <4>2 DEF Settled
            <3>7. proc' \in Procs
                  <4>1. Collected(p, w) \in ProcRow /\ Unlocked(Collected(p, w), w) \in ProcRow
                        BY CollectedType, UnlockedType
                  <4>2. \A x \in BOOLEAN :
                           [Unlocked(Collected(p, w), w) EXCEPT !.timer = x] \in ProcRow
                        BY <4>1, ProcFieldUpdate
                  <4>3. (Unlocked(Collected(p, w), w).timer
                            \/ (proc[p].life = "up" /\ w = "timer")) \in BOOLEAN
                        OBVIOUS
                  <4> QED BY <1>1, <3>1, <4>1, <4>2, <4>3, ProcUpdate DEF Settled
            <3> QED BY <1>1, <2>4, <3>5, <3>6, <3>7 DEF Settle
      <2>5. CASE Drained(p, w)
            <3>1. Unlocked(proc[p], w) \in ProcRow
                  BY <2>1, UnlockedType
            <3>2. worker' \in Workers
                  BY <2>5, ThreadTypes DEF Drained, Pc
            <3> DEFINE c == IF w = "flush" THEN proc[p] ELSE Unlocked(proc[p], w)
                       x == c.timer \/ (proc[p].life = "up" /\ Heads # {})
            <3>3. c \in ProcRow /\ x \in BOOLEAN
                  BY <2>1, <3>1
            <3>4. proc' = [proc EXCEPT ![p] = [c EXCEPT !.timer = x]]
                  BY <2>5 DEF Drained
            <3>5. [c EXCEPT !.timer = x] \in ProcRow
                  BY <3>3, ProcFieldUpdate
            <3>6. proc' \in Procs
                  BY <1>1, <3>4, <3>5, ProcUpdate
            <3> QED BY <1>1, <2>5, <3>2, <3>6 DEF Drained
      <2> QED BY <2>2, <2>3, <2>4, <2>5
<1>5. ASSUME NEW p \in Process, NEW e \in Event, NEW outcome \in {"ok", "failed"},
             EffectEnds(p, e, outcome)
      PROVE  TypeOK'
      <2>1. [proc[p].tries EXCEPT ![e] = outcome] \in [Event -> Outcomes]
            BY <1>1, ProcField DEF Outcomes
      <2>2. proc' = [proc EXCEPT ![p].tries = [proc[p].tries EXCEPT ![e] = outcome]]
            BY <1>5 DEF EffectEnds
      <2>3. proc' \in Procs
            BY <1>1, <2>1, <2>2, ProcUpdate
      <2> QED BY <1>1, <1>5, <2>3 DEF EffectEnds
<1>6. ASSUME NEW p \in Process
      PROVE  /\ Start(p) => TypeOK'
             /\ Sweep(p) => TypeOK'
             /\ Crash(p) => TypeOK'
             /\ BeginClose(p) => TypeOK'
             /\ FinishClose(p) => TypeOK'
      <2>1. proc[p] \in ProcRow
            BY <1>1
      <2>2. \A x \in Life, y \in BOOLEAN : [proc[p] EXCEPT !.life = x, !.timer = y] \in ProcRow
            BY <2>1 DEF ProcRow, Life
      <2>3. [Unstarted EXCEPT !.life = "gone"] \in ProcRow
            BY RecordTypes, ProcFieldUpdate DEF Life
      <2>4. [proc[p] EXCEPT !.life = "closed", !.tries = Unstarted.tries] \in ProcRow
            BY <2>1 DEF ProcRow, Unstarted
      <2>5. CASE Start(p)
            <3>1. proc' = [proc EXCEPT ![p] = [proc[p] EXCEPT !.life = "up", !.timer = TRUE]]
                  BY <1>1, <2>5 DEF Start
            <3>2. [proc[p] EXCEPT !.life = "up", !.timer = TRUE] \in ProcRow
                  BY <2>2 DEF Life
            <3>3. proc' \in Procs
                  BY <1>1, <3>1, <3>2, ProcUpdate
            <3> QED BY <1>1, <2>5, <3>3 DEF Start
      <2>6. CASE Sweep(p)
            BY <1>1, <2>6, ProcUpdate DEF Sweep
      <2>7. CASE Crash(p)
            <3>1. [w \in Worker |-> Idle] \in [Worker -> WorkerRow]
                  BY RecordTypes
            <3> QED BY <1>1, <2>3, <2>7, <3>1, ProcUpdate DEF Crash
      <2>8. CASE BeginClose(p)
            BY <1>1, <2>2, <2>8, ProcUpdate DEF BeginClose, Life
      <2>9. CASE FinishClose(p)
            BY <1>1, <2>4, <2>9, ProcUpdate DEF FinishClose
      <2> QED BY <2>5, <2>6, <2>7, <2>8, <2>9
<1>7. CASE UNCHANGED vars
      BY <1>1, <1>7 DEF vars
<1> QED BY <1>2, <1>3, <1>4, <1>5, <1>6, <1>7 DEF Next, Step

-----------------------------------------------------------------------------
\* What a step may do, to the registry and the life of a coordinator,

Kept(p, c) ==
    /\ c.life = proc[p].life
    /\ c.timer => proc[p].timer \/ proc[p].life = "up"
    /\ \A e \in Event : c.tries[e] \in {"none", proc[p].tries[e]}

Keeps(p) == Kept(p, proc'[p])

Begins(p, e) ==
    /\ proc[p].life = "up" /\ proc'[p].life = "up"
    /\ proc[p].tries[e] = "none" /\ e \in Claimable
    /\ \E kept \in Evicted(proc[p].tries) : proc'[p].tries = [kept EXCEPT ![e] = "live"]

Reports(p, e) ==
    /\ proc'[p].life = proc[p].life /\ proc'[p].timer = proc[p].timer
    /\ proc[p].tries[e] = "live"
    /\ \E outcome \in {"ok", "failed"} :
          /\ proc'[p].tries = [proc[p].tries EXCEPT ![e] = outcome]
          /\ outcome = "ok" => e \in sink'

Turns(p) ==
    /\ \/ proc'[p].life \in {"up", "gone"}
       \/ proc'[p].life = "closing" /\ ~proc'[p].timer
       \/ /\ proc[p].life = "closing" /\ proc'[p].life = "closed"
          /\ proc'[p].timer = proc[p].timer
          /\ worker'[p] = worker[p] /\ \A w \in Worker : worker[p][w].pc \in {"idle", "fired"}
          /\ \A e \in Event : proc'[p].tries[e] = "none"
    /\ \A e \in Event : proc'[p].tries[e] \in {"none", proc[p].tries[e]}

ProcStep(p) == Keeps(p) \/ Turns(p) \/ \E e \in Event : Begins(p, e) \/ Reports(p, e)

\* to a dispatcher thread,
WorkerStep(p, w) ==
    \/ worker'[p][w] = worker[p][w]
    \/ worker'[p][w].pc = "idle"
    \/ worker'[p][w].pc = "fired" /\ proc[p].timer
    \/ worker'[p][w].pc = "drain" /\ proc[p].life = "up"
    \/ worker'[p][w].pc # "ok" /\ worker[p][w].pc \notin {"idle", "fired"}
    \/ /\ worker[p][w].pc = "drain"
       /\ \E e \in Event : worker'[p][w].event = {e} /\ proc[p].tries[e] = "ok"

\* to a row,
RowStep(e) ==
    /\ Delivered(e) => Delivered(e)'
    /\ Delivered(e)' => \/ Delivered(e)
                        \/ \E p \in Process, w \in Worker :
                              /\ worker[p][w].pc \in {"attempt", "ok", "failed"}
                              /\ e \in worker[p][w].event /\ Outcome(p, w, e) = "ok"

\* and to the sink.
SinkStep ==
    /\ sink \subseteq sink'
    /\ \A e \in sink' \ sink : e \in Event /\ \E p \in Process : proc[p].tries[e] = "live"

Effects ==
    /\ \A p \in Process : ProcStep(p) /\ \A w \in Worker : WorkerStep(p, w)
    /\ \A e \in Event : RowStep(e)
    /\ SinkStep /\ plan' = plan

\* What is left alone has its step.
LEMMA Unchanged ==
    ASSUME TypeOK
    PROVE  /\ UNCHANGED proc => \A p \in Process : ProcStep(p)
           /\ UNCHANGED worker => \A p \in Process, w \in Worker : WorkerStep(p, w)
           /\ UNCHANGED row => \A e \in Event : RowStep(e)
           /\ UNCHANGED sink => SinkStep
BY ProcField DEF TypeOK, ProcStep, Keeps, Kept, WorkerStep, RowStep, Delivered, SinkStep

\* An update of one coordinator is a step of the others,
LEMMA ProcOthers ==
    ASSUME TypeOK, NEW p \in Process, NEW c, proc' = [proc EXCEPT ![p] = c]
    PROVE  proc'[p] = c /\ \A q \in Process \ {p} : ProcStep(q)
BY ProcField DEF TypeOK, ProcStep, Keeps, Kept

\* and so is one of a thread.
LEMMA WorkerOthers ==
    ASSUME TypeOK, NEW p \in Process, NEW w \in Worker
    PROVE  /\ \A c : worker' = [worker EXCEPT ![p][w] = c] =>
                 /\ worker'[p][w] = c
                 /\ \A q \in Process, v \in Worker : q # p \/ v # w => WorkerStep(q, v)
           /\ \A x \in Pc : Goes(p, w, x) =>
                 /\ worker'[p][w].pc = x
                 /\ \A q \in Process, v \in Worker : q # p \/ v # w => WorkerStep(q, v)
           /\ Ends(p, w) => \A q \in Process, v \in Worker : WorkerStep(q, v)
<1>1. worker \in [Process -> [Worker -> WorkerRow]] /\ worker[p] \in [Worker -> WorkerRow]
      BY DEF TypeOK
<1>2. ASSUME NEW c, worker' = [worker EXCEPT ![p][w] = c]
      PROVE  /\ worker'[p][w] = c
             /\ \A q \in Process, v \in Worker : q # p \/ v # w => WorkerStep(q, v)
      BY <1>1, <1>2 DEF WorkerStep
<1>3. ASSUME NEW x \in Pc, Goes(p, w, x)
      PROVE  /\ worker'[p][w].pc = x
             /\ \A q \in Process, v \in Worker : q # p \/ v # w => WorkerStep(q, v)
      <2>1. worker' = [worker EXCEPT ![p][w] = [worker[p][w] EXCEPT !.pc = x]]
            BY <1>3 DEF Goes
      <2>2. worker[p][w] \in WorkerRow
            BY <1>1
      <2>3. [worker[p][w] EXCEPT !.pc = x].pc = x
            BY <2>2 DEF WorkerRow
      <2> QED BY <1>2, <2>1, <2>3
<1>4. ASSUME Ends(p, w)
      PROVE  \A q \in Process, v \in Worker : WorkerStep(q, v)
      <2>1. worker' = [worker EXCEPT ![p][w] = Idle]
            BY <1>4 DEF Ends
      <2>2. WorkerStep(p, w)
            BY <1>2, <2>1 DEF WorkerStep, Idle
      <2> QED BY <1>2, <2>1, <2>2
<1> QED BY <1>2, <1>3, <1>4

\* Unlocking changes the lock alone,
LEMMA UnlockedFields ==
    ASSUME NEW c \in ProcRow, NEW w \in Worker
    PROVE  /\ Unlocked(c, w).life = c.life /\ Unlocked(c, w).timer = c.timer
           /\ Unlocked(c, w).tries = c.tries
BY DEF Unlocked, ProcRow

\* and collecting an outcome only takes away from the registry.
LEMMA CollectedFields ==
    ASSUME TypeOK, NEW p \in Process, NEW w \in Worker
    PROVE  /\ Collected(p, w).life = proc[p].life /\ Collected(p, w).timer = proc[p].timer
           /\ \A e \in Event : Collected(p, w).tries[e] \in {"none", proc[p].tries[e]}
<1>1. proc[p] \in ProcRow
      BY DEF TypeOK
<1> DEFINE t == [e \in Event |-> IF worker[p][w] = [pc |-> "attempt", event |-> {e}]
                                     /\ proc[p].tries[e] # "live"
                                  THEN "none" ELSE proc[p].tries[e]]
<1>2. Collected(p, w) = [proc[p] EXCEPT !.tries = t]
      BY DEF Collected
<1>3. /\ Collected(p, w).life = proc[p].life /\ Collected(p, w).timer = proc[p].timer
      /\ Collected(p, w).tries = t
      BY <1>1, <1>2 DEF ProcRow
<1> QED BY <1>3

\* A coordinator that keeps all but its timer and its lock, or starts.
LEMMA ProcFields ==
    ASSUME NEW c \in ProcRow
    PROVE  /\ \A x : /\ [c EXCEPT !.timer = x].life = c.life
                     /\ [c EXCEPT !.timer = x].tries = c.tries
                     /\ [c EXCEPT !.timer = x].timer = x
           /\ \A x : /\ [c EXCEPT !.lock = x].life = c.life
                     /\ [c EXCEPT !.lock = x].tries = c.tries
                     /\ [c EXCEPT !.lock = x].timer = c.timer
           /\ \A x : /\ [c EXCEPT !.tries = x].life = c.life
                     /\ [c EXCEPT !.tries = x].tries = x
                     /\ [c EXCEPT !.tries = x].timer = c.timer
           /\ \A x, y : /\ [c EXCEPT !.life = x, !.timer = y].life = x
                        /\ [c EXCEPT !.life = x, !.timer = y].timer = y
                        /\ [c EXCEPT !.life = x, !.timer = y].tries = c.tries
BY DEF ProcRow

\* The commit of a notification has effects as described,
LEMMA EnqueueEffects ==
    ASSUME TypeOK, NEW e \in Event, Enqueue(e)
    PROVE  Effects
<1>1. leader \in Process
      BY DEF TypeOK, Enqueue
<1>2. proc[leader] \in ProcRow
      BY <1>1 DEF TypeOK
<1>3. ProcStep(leader) /\ \A q \in Process \ {leader} : ProcStep(q)
      <2> DEFINE x == proc[leader].timer \/ proc[leader].life = "up"
                 c == [proc[leader] EXCEPT !.timer = x]
      <2>1. proc' = [proc EXCEPT ![leader] = c]
            BY <1>1 DEF Enqueue
      <2>2. c.life = proc[leader].life /\ c.tries = proc[leader].tries
            /\ c.timer = x
            <3> HIDE DEF x
            <3> QED BY <1>2, ProcFields
      <2>3. proc'[leader] = c
            BY <1>1, <2>1, ProcOthers
      <2>4. Keeps(leader)
            BY <2>2, <2>3 DEF Keeps, Kept
      <2> QED BY <1>1, <2>1, <2>4, ProcOthers DEF ProcStep
<1>4. \A f \in Event : RowStep(f)
      <2>1. row' = [row EXCEPT ![e] = [row[e] EXCEPT !.state = "PENDING", !.due = TRUE]]
            BY DEF Enqueue
      <2>2. \A f \in Event : f # e => row'[f] = row[f]
            BY <2>1 DEF TypeOK
      <2>3. row[e] \in Row
            BY DEF TypeOK
      <2>4. row'[e].state = "PENDING"
            BY <2>1, <2>3 DEF TypeOK, Row
      <2>5. ~Delivered(e) /\ ~Delivered(e)'
            BY <2>4 DEF Enqueue, Committed, Delivered
      <2> QED BY <2>2, <2>5 DEF RowStep, Delivered
<1>5. UNCHANGED <<plan, worker, sink>>
      BY DEF Enqueue
<1> QED BY <1>3, <1>4, <1>5, Unchanged DEF Effects

\* so has time,
LEMMA TimePassesEffects ==
    ASSUME TypeOK, NEW e \in Event, TimePasses(e)
    PROVE  Effects
<1>1. row' = [row EXCEPT ![e] = [row[e] EXCEPT !.due = TRUE]]
      BY DEF TimePasses
<1>2. row[e] \in Row
      BY DEF TypeOK
<1>3. \A f \in Event : row'[f].state = row[f].state
      BY <1>1, <1>2 DEF TypeOK, Row
<1>4. \A f \in Event : RowStep(f)
      BY <1>3 DEF RowStep, Delivered
<1> QED BY <1>4, Unchanged DEF TimePasses, Effects

\* what a timer and a flush begin with,
LEMMA WakeEffects ==
    ASSUME TypeOK, NEW p \in Process,
           Fire(p) \/ FireInVain(p) \/ TakeLock(p) \/ Flush(p) \/ FlushReturns(p)
    PROVE  Effects
<1>1. proc[p] \in ProcRow
      BY DEF TypeOK
<1>2. UNCHANGED <<plan, row, sink>>
      BY DEF Fire, FireInVain, TakeLock, Flush, FlushReturns
<1>3. \A q \in Process : ProcStep(q)
      <2>1. \/ proc' = [proc EXCEPT ![p] = [proc[p] EXCEPT !.timer = FALSE]]
            \/ \E x : proc' = [proc EXCEPT ![p] = [proc[p] EXCEPT !.lock = x]]
            \/ proc' = [proc EXCEPT ![p] = Unlocked(proc[p], "flush")]
            \/ UNCHANGED proc
            BY DEF Fire, FireInVain, TakeLock, Flush, FlushReturns
      <2>2. ASSUME NEW c, proc' = [proc EXCEPT ![p] = c],
                   c.life = proc[p].life, c.tries = proc[p].tries, c.timer => proc[p].timer
            PROVE  \A q \in Process : ProcStep(q)
            <3>1. proc'[p] = c /\ \A q \in Process \ {p} : ProcStep(q)
                  BY <2>2, ProcOthers
            <3>2. Keeps(p)
                  BY <2>2, <3>1 DEF Keeps, Kept
            <3> QED BY <3>1, <3>2 DEF ProcStep
      <2>3. CASE proc' = [proc EXCEPT ![p] = [proc[p] EXCEPT !.timer = FALSE]]
            <3> DEFINE c == [proc[p] EXCEPT !.timer = FALSE]
            <3>1. c.life = proc[p].life /\ c.tries = proc[p].tries /\ c.timer = FALSE
                  BY <1>1, ProcFields
            <3>2. proc' = [proc EXCEPT ![p] = c]
                  BY <2>3
            <3> HIDE DEF c
            <3> QED BY <2>2, <3>1, <3>2
      <2>4. CASE \E x : proc' = [proc EXCEPT ![p] = [proc[p] EXCEPT !.lock = x]]
            <3>1. PICK x : proc' = [proc EXCEPT ![p] = [proc[p] EXCEPT !.lock = x]]
                  BY <2>4
            <3> DEFINE c == [proc[p] EXCEPT !.lock = x]
            <3>2. /\ c.life = proc[p].life /\ c.tries = proc[p].tries
                  /\ c.timer = proc[p].timer
                  BY <1>1, ProcFields
            <3>3. proc' = [proc EXCEPT ![p] = c]
                  BY <3>1
            <3> HIDE DEF c
            <3> QED BY <2>2, <3>2, <3>3
      <2>5. CASE proc' = [proc EXCEPT ![p] = Unlocked(proc[p], "flush")]
            <3> DEFINE c == Unlocked(proc[p], "flush")
            <3>1. /\ c.life = proc[p].life /\ c.tries = proc[p].tries
                  /\ c.timer = proc[p].timer
                  BY <1>1, UnlockedFields, RecordTypes
            <3>2. proc' = [proc EXCEPT ![p] = c]
                  BY <2>5
            <3> HIDE DEF c
            <3> QED BY <2>2, <3>1, <3>2
      <2> QED BY <2>1, <2>3, <2>4, <2>5, Unchanged
<1>4. \A q \in Process, v \in Worker : WorkerStep(q, v)
      <2> "timer" \in Worker /\ "flush" \in Worker
          BY RecordTypes
      <2>1. CASE Fire(p)
            BY <2>1, WorkerOthers DEF Fire, Pc, WorkerStep
      <2>2. CASE FireInVain(p)
            BY <2>2, Unchanged DEF FireInVain
      <2>3. CASE TakeLock(p)
            BY <2>3, WorkerOthers DEF TakeLock, Pc, WorkerStep
      <2>4. CASE Flush(p)
            BY <2>4, WorkerOthers DEF Flush, Pc, WorkerStep
      <2>5. CASE FlushReturns(p)
            BY <2>5, WorkerOthers DEF FlushReturns
      <2> QED BY <2>1, <2>2, <2>3, <2>4, <2>5
<1> QED BY <1>2, <1>3, <1>4, Unchanged DEF Effects

\* A coordinator that changes no more than its lock, its timer and what it collects.
LEMMA OneKeeps ==
    ASSUME TypeOK, NEW p \in Process, NEW c, proc' = [proc EXCEPT ![p] = c], Kept(p, c)
    PROVE  \A q \in Process : ProcStep(q)
<1>1. proc'[p] = c /\ \A q \in Process \ {p} : ProcStep(q)
      BY ProcOthers
<1>2. Keeps(p)
      BY <1>1 DEF Keeps
<1> QED BY <1>1, <1>2 DEF ProcStep

\* A thread that is set to something is that.
LEMMA WorkerIs ==
    ASSUME TypeOK, NEW p \in Process, NEW w \in Worker, NEW c,
           worker' = [worker EXCEPT ![p][w] = c]
    PROVE  worker'[p][w] = c
BY DEF TypeOK

\* The step of one thread is all there is to it.
LEMMA OneWorker ==
    ASSUME TypeOK, NEW p \in Process, NEW w \in Worker, NEW c,
           worker' = [worker EXCEPT ![p][w] = c], WorkerStep(p, w)
    PROVE  \A q \in Process, v \in Worker : WorkerStep(q, v)
<1>1. \A q \in Process, v \in Worker : q # p \/ v # w => WorkerStep(q, v)
      BY WorkerOthers
<1> QED BY <1>1

\* A dispatcher that is deposed, or has drained,
LEMMA DrainEffects ==
    ASSUME TypeOK, NEW p \in Process, NEW w \in Worker, Conflict(p, w) \/ Drained(p, w)
    PROVE  Effects
<1>1. proc[p] \in ProcRow
      BY DEF TypeOK
<1>2. CASE Conflict(p, w)
      <2> DEFINE c == Unlocked(Collected(p, w), w)
      <2>1. /\ c.life = proc[p].life /\ c.timer = proc[p].timer
            /\ \A e \in Event : c.tries[e] \in {"none", proc[p].tries[e]}
            BY CollectedType, CollectedFields, UnlockedFields
      <2>2. proc' = [proc EXCEPT ![p] = c]
            BY <1>2 DEF Conflict
      <2>3. \A q \in Process : ProcStep(q)
            <3> HIDE DEF c
            <3>1. Kept(p, c)
                  BY <2>1 DEF Kept
            <3> QED BY <2>2, <3>1, OneKeeps
      <2>4. \A q \in Process, v \in Worker : WorkerStep(q, v)
            BY <1>2, WorkerOthers DEF Conflict
      <2> QED BY <1>2, <2>3, <2>4, Unchanged DEF Conflict, Effects
<1>3. CASE Drained(p, w)
      <2> DEFINE rest == IF w = "flush" THEN proc[p] ELSE Unlocked(proc[p], w)
                 x == rest.timer \/ (proc[p].life = "up" /\ Heads # {})
                 c == [rest EXCEPT !.timer = x]
      <2>1. /\ rest \in ProcRow
            /\ rest.life = proc[p].life /\ rest.timer = proc[p].timer
            /\ rest.tries = proc[p].tries
            BY <1>1, UnlockedType, UnlockedFields
      <2>2. proc' = [proc EXCEPT ![p] = c]
            BY <1>3 DEF Drained
      <2>3. x => proc[p].timer \/ proc[p].life = "up"
            BY <2>1
      <2>4. c.life = rest.life /\ c.tries = rest.tries /\ c.timer = x
            <3> HIDE DEF x, rest
            <3> QED BY <2>1, ProcFields
      <2>5. \A e \in Event : c.tries[e] \in {"none", proc[p].tries[e]}
            <3> HIDE DEF c, rest
            <3> QED BY <2>1, <2>4
      <2>6. \A q \in Process : ProcStep(q)
            <3> HIDE DEF c, x, rest
            <3>1. Kept(p, c)
                  BY <2>1, <2>3, <2>4, <2>5 DEF Kept
            <3> QED BY <2>2, <3>1, OneKeeps
      <2>7. \A q \in Process, v \in Worker : WorkerStep(q, v)
            <3>1. CASE Ends(p, w)
                  BY <3>1, WorkerOthers
            <3>2. CASE Goes(p, w, "leaving")
                  BY <1>3, <3>2, WorkerOthers DEF Drained, WorkerStep, Pc
            <3> QED BY <1>3, <3>1, <3>2 DEF Drained
      <2> QED BY <1>3, <2>6, <2>7, Unchanged DEF Drained, Effects
<1> QED BY <1>2, <1>3

\* one that claims,
LEMMA ClaimEffects ==
    ASSUME TypeOK, NEW p \in Process, NEW w \in Worker, Claim(p, w)
    PROVE  Effects
<1>1. proc[p] \in ProcRow
      BY DEF TypeOK
<1>2. PICK e \in Claimable :
         /\ row' = [row EXCEPT ![e] = [state |-> "DELIVERING", token |-> p, due |-> FALSE]]
         /\ Begin(p, w, e, proc[p].tries)
      BY DEF Claim
<1>3. e \in Event /\ ~Delivered(e)
      BY DEF Claimable, Heads
<1>4. \A f \in Event : RowStep(f)
      <2>1. \A f \in Event : f # e => row'[f] = row[f]
            BY <1>2 DEF TypeOK
      <2>2. ~Delivered(e)'
            BY <1>2, <1>3 DEF TypeOK, Delivered
      <2> QED BY <1>3, <2>1, <2>2 DEF RowStep, Delivered
<1>5. CASE UNCHANGED proc
           /\ worker' = [worker EXCEPT ![p][w] = [pc |-> "failed", event |-> {e}]]
      <2>1. WorkerStep(p, w)
            <3>1. worker'[p][w] = [pc |-> "failed", event |-> {e}]
                  BY <1>5, WorkerIs
            <3> QED BY <3>1 DEF Claim, WorkerStep
      <2>2. \A q \in Process, v \in Worker : WorkerStep(q, v)
            BY <1>5, <2>1, OneWorker
      <2> QED BY <1>4, <1>5, <2>2, Unchanged DEF Claim, Effects
<1>6. CASE /\ proc[p].life = "up" /\ proc[p].tries[e] \in {"ok", "failed"}
           /\ worker' = [worker EXCEPT ![p][w] = [pc |-> proc[p].tries[e], event |-> {e}]]
           /\ proc' = [proc EXCEPT ![p].tries[e] = "none"]
      <2> DEFINE t == [proc[p].tries EXCEPT ![e] = "none"]
                 c == [proc[p] EXCEPT !.tries = t]
      <2>1. proc' = [proc EXCEPT ![p] = c]
            BY <1>6
      <2>2. c.life = proc[p].life /\ c.timer = proc[p].timer /\ c.tries = t
            BY <1>1, ProcFields
      <2>3. \A f \in Event : t[f] \in {"none", proc[p].tries[f]}
            BY <1>1, ProcField
      <2>4. \A q \in Process : ProcStep(q)
            <3> HIDE DEF c, t
            <3>1. Kept(p, c)
                  BY <2>2, <2>3 DEF Kept
            <3> QED BY <2>1, <3>1, OneKeeps
      <2>5. WorkerStep(p, w)
            <3>1. worker'[p][w] = [pc |-> proc[p].tries[e], event |-> {e}]
                  BY <1>6, WorkerIs
            <3>2. CASE proc[p].tries[e] = "ok"
                  BY <1>3, <3>1, <3>2 DEF Claim, WorkerStep
            <3>3. CASE proc[p].tries[e] = "failed"
                  BY <3>1, <3>3 DEF Claim, WorkerStep
            <3> QED BY <1>6, <3>2, <3>3
      <2>6. \A q \in Process, v \in Worker : WorkerStep(q, v)
            BY <1>6, <2>5, OneWorker
      <2> QED BY <1>4, <2>4, <2>6, Unchanged DEF Claim, Effects
<1>7. CASE /\ proc[p].life = "up" /\ proc[p].tries[e] = "none"
           /\ worker' = [worker EXCEPT ![p][w] = [pc |-> "attempt", event |-> {e}]]
           /\ \E kept \in Evicted(proc[p].tries) :
                 proc' = [proc EXCEPT ![p].tries = [kept EXCEPT ![e] = "live"]]
      <2>1. PICK kept \in Evicted(proc[p].tries) :
               proc' = [proc EXCEPT ![p].tries = [kept EXCEPT ![e] = "live"]]
            BY <1>7
      <2> DEFINE t == [kept EXCEPT ![e] = "live"]
                 c == [proc[p] EXCEPT !.tries = t]
      <2>2. proc' = [proc EXCEPT ![p] = c]
            BY <2>1
      <2>3. c.life = proc[p].life /\ c.tries = t
            BY <1>1, ProcFields
      <2>4. proc'[p] = c /\ \A q \in Process \ {p} : ProcStep(q)
            <3> HIDE DEF c
            <3> QED BY <2>2, ProcOthers
      <2>5. Begins(p, e)
            <3>1. proc'[p].life = "up" /\ proc'[p].tries = t
                  <4> HIDE DEF c, t
                  <4> QED BY <1>7, <2>3, <2>4
            <3> QED BY <1>2, <1>7, <3>1 DEF Begins
      <2>6. \A q \in Process : ProcStep(q)
            BY <1>3, <2>4, <2>5 DEF ProcStep
      <2>7. WorkerStep(p, w)
            <3>1. worker'[p][w] = [pc |-> "attempt", event |-> {e}]
                  BY <1>7, WorkerIs
            <3> QED BY <3>1 DEF Claim, WorkerStep
      <2>8. \A q \in Process, v \in Worker : WorkerStep(q, v)
            BY <1>7, <2>7, OneWorker
      <2> QED BY <1>4, <2>6, <2>8, Unchanged DEF Claim, Effects
<1> QED BY <1>2, <1>5, <1>6, <1>7 DEF Begin

\* one that settles,
LEMMA SettleEffects ==
    ASSUME TypeOK, NEW p \in Process, NEW w \in Worker, Settle(p, w)
    PROVE  Effects
<1>1. PICK e \in worker[p][w].event : Settled(p, w, e)
      BY DEF Settle, Settled
<1>2. worker[p][w] \in WorkerRow /\ e \in Event
      BY DEF TypeOK, WorkerRow
<1>3. Collected(p, w) \in ProcRow
      BY CollectedType
<1>4. CASE row[e].state = "DELIVERING" /\ row[e].token = p
      <2>1. \A q \in Process : ProcStep(q)
            <3>1. Kept(p, Collected(p, w))
                  BY CollectedFields DEF Kept
            <3>2. proc' = [proc EXCEPT ![p] = Collected(p, w)]
                  BY <1>1, <1>4 DEF Settled
            <3> QED BY <3>1, <3>2, OneKeeps
      <2>2. WorkerStep(p, w)
            <3>1. worker'[p][w].pc = "drain"
                  BY <1>1, <1>4, WorkerIs DEF Settled
            <3> QED BY <3>1 DEF Settle, WorkerStep
      <2>3. \A q \in Process, v \in Worker : WorkerStep(q, v)
            BY <1>1, <1>4, <2>2, OneWorker DEF Settled
      <2>4. \A f \in Event : f # e => row'[f] = row[f]
            BY <1>1, <1>4 DEF Settled, TypeOK
      <2>5. row'[e].state = "DELIVERED" => Outcome(p, w, e) = "ok"
            BY <1>1, <1>2, <1>4 DEF Settled, TypeOK
      <2>6. \A f \in Event : RowStep(f)
            BY <1>4, <2>4, <2>5 DEF RowStep, Delivered, Settle
      <2> QED BY <2>1, <2>3, <2>6, Unchanged DEF Settle, Effects
<1>5. CASE ~(row[e].state = "DELIVERING" /\ row[e].token = p)
      <2> DEFINE rest == Unlocked(Collected(p, w), w)
                 x == rest.timer \/ (proc[p].life = "up" /\ w = "timer")
                 c == [rest EXCEPT !.timer = x]
      <2>1. /\ rest \in ProcRow
            /\ rest.life = proc[p].life /\ rest.timer = proc[p].timer
            /\ \A f \in Event : rest.tries[f] \in {"none", proc[p].tries[f]}
            BY <1>3, UnlockedType, UnlockedFields, CollectedFields
      <2>2. proc' = [proc EXCEPT ![p] = c]
            BY <1>1, <1>5 DEF Settled
      <2>3. x => proc[p].timer \/ proc[p].life = "up"
            BY <2>1
      <2>4. c.life = rest.life /\ c.tries = rest.tries /\ c.timer = x
            <3> HIDE DEF x, rest
            <3> QED BY <2>1, ProcFields
      <2>5. \A q \in Process : ProcStep(q)
            <3> HIDE DEF c, x, rest
            <3>1. Kept(p, c)
                  BY <2>1, <2>3, <2>4 DEF Kept
            <3> QED BY <2>2, <3>1, OneKeeps
      <2>6. \A q \in Process, v \in Worker : WorkerStep(q, v)
            BY <1>1, <1>5, WorkerOthers DEF Settled
      <2>7. UNCHANGED row
            BY <1>1, <1>5 DEF Settled
      <2> QED BY <2>5, <2>6, <2>7, Unchanged DEF Settle, Effects
<1> QED BY <1>4, <1>5

\* the thread of a delivery that ends,
LEMMA EffectEndsEffects ==
    ASSUME TypeOK, NEW p \in Process, NEW e \in Event, NEW outcome \in {"ok", "failed"},
           EffectEnds(p, e, outcome)
    PROVE  Effects
<1>1. proc[p] \in ProcRow
      BY DEF TypeOK
<1> DEFINE t == [proc[p].tries EXCEPT ![e] = outcome]
           c == [proc[p] EXCEPT !.tries = t]
<1>2. proc' = [proc EXCEPT ![p] = c]
      BY DEF EffectEnds
<1>3. c.life = proc[p].life /\ c.timer = proc[p].timer /\ c.tries = t
      BY <1>1, ProcFields
<1>4. proc'[p] = c /\ \A q \in Process \ {p} : ProcStep(q)
      <2> HIDE DEF c
      <2> QED BY <1>2, ProcOthers
<1>5. SinkStep /\ (outcome = "ok" => e \in sink')
      BY DEF EffectEnds, SinkStep
<1>6. Reports(p, e)
      <2>1. /\ proc'[p].life = proc[p].life /\ proc'[p].timer = proc[p].timer
            /\ proc'[p].tries = t
            <3> HIDE DEF c, t
            <3> QED BY <1>3, <1>4
      <2> QED BY <1>5, <2>1 DEF Reports, EffectEnds
<1>7. \A q \in Process : ProcStep(q)
      BY <1>4, <1>6 DEF ProcStep
<1> QED BY <1>5, <1>7, Unchanged DEF EffectEnds, Effects

\* a coordinator that turns,
LEMMA OneTurns ==
    ASSUME TypeOK, NEW p \in Process, NEW c, proc' = [proc EXCEPT ![p] = c],
           proc'[p] = c => Turns(p)
    PROVE  \A q \in Process : ProcStep(q)
<1>1. proc'[p] = c /\ \A q \in Process \ {p} : ProcStep(q)
      BY ProcOthers
<1> QED BY <1>1 DEF ProcStep

\* and its start, its sweep, its death and its end.
LEMMA CoordinatorEffects ==
    ASSUME TypeOK, NEW p \in Process,
           Start(p) \/ Sweep(p) \/ Crash(p) \/ BeginClose(p) \/ FinishClose(p)
    PROVE  Effects
<1>1. proc[p] \in ProcRow /\ proc[p].tries \in [Event -> Outcomes]
      BY ProcField DEF TypeOK
<1>2. UNCHANGED <<plan, row, sink>>
      BY DEF Start, Sweep, Crash, BeginClose, FinishClose
<1>3. CASE Start(p) \/ BeginClose(p)
      <2>1. PICK x \in {"up", "closing"}, y \in BOOLEAN :
               /\ proc' = [proc EXCEPT ![p] = [proc[p] EXCEPT !.life = x, !.timer = y]]
               /\ x = "closing" => y = FALSE
            BY <1>3 DEF Start, BeginClose
      <2> DEFINE c == [proc[p] EXCEPT !.life = x, !.timer = y]
      <2>2. c.life = x /\ c.timer = y /\ c.tries = proc[p].tries
            BY <1>1, ProcFields
      <2>3. ASSUME proc'[p] = c
            PROVE  Turns(p)
            <3> HIDE DEF c
            <3> QED BY <2>1, <2>2, <2>3 DEF Turns
      <2>4. \A q \in Process : ProcStep(q)
            <3> HIDE DEF c
            <3>1. proc' = [proc EXCEPT ![p] = c]
                  BY <2>1 DEF c
            <3> QED BY <2>3, <3>1, OneTurns
      <2> QED BY <1>2, <1>3, <2>4, Unchanged DEF Start, BeginClose, Effects
<1>4. CASE Sweep(p)
      <2> DEFINE c == [proc[p] EXCEPT !.timer = TRUE]
      <2>1. c.life = proc[p].life /\ c.tries = proc[p].tries
            BY <1>1, ProcFields
      <2>2. proc' = [proc EXCEPT ![p] = c] /\ proc[p].life = "up"
            BY <1>4 DEF Sweep
      <2>3. \A q \in Process : ProcStep(q)
            <3> HIDE DEF c
            <3>1. Kept(p, c)
                  BY <2>1, <2>2 DEF Kept
            <3> QED BY <2>2, <3>1, OneKeeps
      <2> QED BY <1>2, <1>4, <2>3, Unchanged DEF Sweep, Effects
<1>5. CASE Crash(p)
      <2> DEFINE c == [Unstarted EXCEPT !.life = "gone"]
                 d == [w \in Worker |-> Idle]
      <2>1. c.life = "gone" /\ \A e \in Event : c.tries[e] = "none"
            BY DEF Unstarted
      <2>2. proc' = [proc EXCEPT ![p] = c] /\ worker' = [worker EXCEPT ![p] = d]
            BY <1>5 DEF Crash
      <2>3. ASSUME proc'[p] = c
            PROVE  Turns(p)
            <3> HIDE DEF c
            <3> QED BY <2>1, <2>3 DEF Turns
      <2>4. \A q \in Process : ProcStep(q)
            <3> HIDE DEF c
            <3> QED BY <2>2, <2>3, OneTurns
      <2>5. \A w \in Worker : worker'[p][w].pc = "idle"
            BY <2>2 DEF TypeOK, Idle
      <2>6. \A q \in Process \ {p}, w \in Worker : worker'[q][w] = worker[q][w]
            BY <2>2 DEF TypeOK
      <2>7. \A q \in Process, w \in Worker : WorkerStep(q, w)
            BY <2>5, <2>6 DEF WorkerStep
      <2> QED BY <1>2, <2>4, <2>7, Unchanged DEF Effects
<1>6. CASE FinishClose(p)
      <2> DEFINE t == Unstarted.tries
                 c == [proc[p] EXCEPT !.life = "closed", !.tries = t]
      <2>1. /\ c.life = "closed" /\ c.timer = proc[p].timer
            /\ \A e \in Event : c.tries[e] = "none"
            BY <1>1 DEF Unstarted, ProcRow
      <2>2. proc' = [proc EXCEPT ![p] = c]
            BY <1>6 DEF FinishClose
      <2>3. ASSUME proc'[p] = c
            PROVE  Turns(p)
            <3> HIDE DEF c
            <3> QED BY <1>6, <2>1, <2>3 DEF Turns, FinishClose
      <2>4. \A q \in Process : ProcStep(q)
            <3> HIDE DEF c
            <3> QED BY <2>2, <2>3, OneTurns
      <2> QED BY <1>2, <1>6, <2>4, Unchanged DEF FinishClose, Effects
<1> QED BY <1>3, <1>4, <1>5, <1>6

\* So every step has.
LEMMA NextEffects == TypeOK /\ [Next]_vars => Effects
<1> SUFFICES ASSUME TypeOK, [Next]_vars
             PROVE  Effects
    OBVIOUS
<1>1. CASE UNCHANGED vars
      BY <1>1, Unchanged DEF vars, Effects
<1>2. CASE \E e \in Event : Enqueue(e) \/ TimePasses(e)
      BY <1>2, EnqueueEffects, TimePassesEffects
<1>3. CASE \E p \in Process :
              Fire(p) \/ FireInVain(p) \/ TakeLock(p) \/ Flush(p) \/ FlushReturns(p)
      BY <1>3, WakeEffects
<1>4. CASE \E p \in Process, w \in Worker : Step(p, w)
      BY <1>4, DrainEffects, ClaimEffects, SettleEffects DEF Step
<1>5. CASE \E p \in Process, e \in Event, outcome \in {"ok", "failed"} : EffectEnds(p, e, outcome)
      BY <1>5, EffectEndsEffects
<1>6. CASE \E p \in Process :
              Start(p) \/ Sweep(p) \/ Crash(p) \/ BeginClose(p) \/ FinishClose(p)
      BY <1>6, CoordinatorEffects
<1> QED BY <1>1, <1>2, <1>3, <1>4, <1>5, <1>6 DEF Next

-----------------------------------------------------------------------------
\* The invariant

\* What an eviction leaves is of what there was.
LEMMA EvictedFields ==
    ASSUME NEW t \in [Event -> Outcomes], NEW kept \in Evicted(t), NEW e \in Event
    PROVE  kept[e] \in {"none", t[e]}
BY DEF Evicted

\* Of a registry after a step, an outcome was there or is being reported, and a
\* delivery was there or is of a row that may be claimed.
LEMMA RegistryStep ==
    ASSUME TypeOK, Effects, NEW p \in Process, NEW e \in Event
    PROVE  /\ proc'[p].tries[e] = "ok" => proc[p].tries[e] = "ok" \/ e \in sink'
           /\ proc'[p].tries[e] # "none" => proc[p].tries[e] # "none" \/ e \in Claimable
<1>1. proc[p].tries \in [Event -> Outcomes]
      BY ProcField DEF TypeOK
<1>2. CASE Keeps(p) \/ Turns(p)
      BY <1>2 DEF Keeps, Kept, Turns
<1>3. ASSUME NEW f \in Event, Begins(p, f)
      PROVE  /\ proc'[p].tries[e] = "ok" => proc[p].tries[e] = "ok"
             /\ proc'[p].tries[e] # "none" => proc[p].tries[e] # "none" \/ e \in Claimable
      <2>1. PICK kept \in Evicted(proc[p].tries) : proc'[p].tries = [kept EXCEPT ![f] = "live"]
            BY <1>3 DEF Begins
      <2>2. kept \in [Event -> Outcomes] /\ kept[e] \in {"none", proc[p].tries[e]}
            BY <1>1, <2>1, EvictedType, EvictedFields
      <2> QED BY <1>3, <2>1, <2>2 DEF Begins
<1>4. ASSUME NEW f \in Event, Reports(p, f)
      PROVE  /\ proc'[p].tries[e] = "ok" => proc[p].tries[e] = "ok" \/ e \in sink'
             /\ proc'[p].tries[e] # "none" => proc[p].tries[e] # "none"
      BY <1>1, <1>4 DEF Reports
<1> QED BY <1>2, <1>3, <1>4 DEF Effects, ProcStep

\* An outcome enters a registry when the sink has its event.
LEMMA RegistryKnowsStep ==
    ASSUME IInv, Effects
    PROVE  RegistryKnows'
BY RegistryStep DEF IInv, RegistryKnows, Effects, SinkStep

\* A dispatcher takes its knowledge from the registry.
LEMMA DispatcherKnowsStep ==
    ASSUME IInv, Effects
    PROVE  DispatcherKnows'
<1> SUFFICES ASSUME NEW p \in Process, NEW w \in Worker, worker'[p][w].pc = "ok"
             PROVE  worker'[p][w].event \subseteq sink'
    BY DEF DispatcherKnows
<1>1. WorkerStep(p, w) /\ sink \subseteq sink'
      BY DEF Effects, SinkStep
<1>2. CASE worker'[p][w] = worker[p][w]
      BY <1>1, <1>2 DEF IInv, DispatcherKnows
<1>3. CASE \E e \in Event : worker'[p][w].event = {e} /\ proc[p].tries[e] = "ok"
      BY <1>1, <1>3 DEF IInv, RegistryKnows
<1> QED BY <1>1, <1>2, <1>3 DEF WorkerStep

\* Only heads are claimed, and what is acknowledged stays so.
LEMMA BegunInOrderStep ==
    ASSUME IInv, Effects
    PROVE  BegunInOrder'
<1> SUFFICES ASSUME NEW p \in Process, NEW e \in Event, proc'[p].tries[e] # "none",
                    NEW f \in Predecessors(e)'
             PROVE  Delivered(f)'
    BY DEF BegunInOrder
<1>1. f \in Predecessors(e) /\ f \in Event
      BY PredecessorType DEF Effects, Predecessors, IInv, TypeOK
<1>2. proc[p].tries[e] # "none" \/ e \in Claimable
      BY RegistryStep DEF IInv
<1>3. Delivered(f)
      BY <1>1, <1>2 DEF IInv, BegunInOrder, Claimable, Heads
<1> QED BY <1>1, <1>3 DEF Effects, RowStep

\* A row is acknowledged on what the dispatcher or the registry knows.
LEMMA NothingLostStep ==
    ASSUME IInv, Effects
    PROVE  NothingLost'
<1> SUFFICES ASSUME NEW e \in Event, Delivered(e)'
             PROVE  e \in sink'
    BY DEF NothingLost
<1>1. sink \subseteq sink' /\ RowStep(e)
      BY DEF Effects, SinkStep
<1>2. CASE Delivered(e)
      BY <1>1, <1>2 DEF IInv, NothingLost
<1>3. ASSUME NEW p \in Process, NEW w \in Worker, worker[p][w].pc \in {"attempt", "ok", "failed"},
             e \in worker[p][w].event, Outcome(p, w, e) = "ok"
      PROVE  e \in sink
      BY <1>3 DEF Outcome, IInv, DispatcherKnows, RegistryKnows
<1> QED BY <1>1, <1>2, <1>3 DEF RowStep

\* A shut gate cancels the timer, and nothing arms it behind the gate.
LEMMA GatedStep ==
    ASSUME IInv, Effects
    PROVE  Gated'
<1> SUFFICES ASSUME NEW p \in Process, proc'[p].life \in {"closing", "closed"}
             PROVE  ~proc'[p].timer
    BY DEF Gated
<1>1. ProcStep(p)
      BY DEF Effects
<1> QED BY <1>1 DEF IInv, Gated, ProcStep, Keeps, Kept, Turns, Begins, Reports

\* close() has joined what could still speak, and nothing begins behind it.
LEMMA ClosedIsSilentStep ==
    ASSUME IInv, Effects
    PROVE  ClosedIsSilent'
<1> SUFFICES ASSUME NEW p \in Process, proc'[p].life = "closed"
             PROVE  /\ \A w \in Worker : worker'[p][w].pc \in {"idle", "fired"}
                    /\ LiveTries(proc'[p].tries) = {}
                    /\ ~proc'[p].timer
    BY DEF ClosedIsSilent
<1>1. ~proc'[p].timer
      BY GatedStep DEF Gated
<1>2. ProcStep(p)
      BY DEF Effects
<1>3. CASE Turns(p)
      BY <1>1, <1>3 DEF Turns, LiveTries
<1>4. CASE proc[p].life = "closed" /\ Keeps(p)
      <2>1. LiveTries(proc'[p].tries) = {}
            BY <1>4 DEF IInv, ClosedIsSilent, Keeps, Kept, LiveTries
      <2>2. ~proc[p].timer
            BY <1>4 DEF IInv, Gated
      <2>3. ASSUME NEW w \in Worker
            PROVE  worker'[p][w].pc \in {"idle", "fired"}
            <3>1. worker[p][w].pc \in {"idle", "fired"}
                  BY <1>4 DEF IInv, ClosedIsSilent
            <3>2. WorkerStep(p, w)
                  BY DEF Effects
            <3> QED BY <1>4, <2>2, <3>1, <3>2 DEF WorkerStep
      <2> QED BY <1>1, <2>1, <2>3
<1>5. CASE proc[p].life = "closed" /\ \E e \in Event : Reports(p, e)
      BY <1>5 DEF Reports, IInv, ClosedIsSilent, LiveTries
<1> QED BY <1>2, <1>3, <1>4, <1>5 DEF ProcStep, Keeps, Kept, Begins, Reports

\* The invariant is kept by every step.
LEMMA NextIInv == IInv /\ [Next]_vars => IInv'
<1> SUFFICES ASSUME IInv, [Next]_vars
             PROVE  IInv'
    OBVIOUS
<1>1. TypeOK' /\ Effects
      BY NextTypeOK, NextEffects DEF IInv
<1> QED BY <1>1, RegistryKnowsStep, DispatcherKnowsStep, BegunInOrderStep, NothingLostStep,
           GatedStep, ClosedIsSilentStep DEF IInv

-----------------------------------------------------------------------------
\* It is an invariant.
THEOREM Inductive == Spec => []IInv
BY InitIInv, NextIInv, PTL DEF Spec

\* The state is always of its type.
THEOREM TypeCorrect == Spec => []TypeOK
<1>1. IInv => TypeOK
      BY DEF IInv
<1> QED BY <1>1, Inductive, PTL

\* Whatever is acknowledged has reached the sink.
THEOREM NothingIsLost == Spec => []NothingLost
<1>1. IInv => NothingLost
      BY DEF IInv
<1> QED BY <1>1, Inductive, PTL

\* A coordinator whose close() has returned is silent.
THEOREM SilentOnceClosed == Spec => []ClosedIsSilent
<1>1. IInv => ClosedIsSilent
      BY DEF IInv
<1> QED BY <1>1, Inductive, PTL

\* What reaches the sink for the first time has all that comes before it there.
THEOREM InOrder == Spec => HeardInOrder
<1>1. IInv /\ [Next]_vars => [\A e \in sink' \ sink : Predecessors(e) \subseteq sink]_vars
      <2> SUFFICES ASSUME IInv, [Next]_vars, NEW e \in sink' \ sink, NEW f \in Predecessors(e)
                   PROVE  f \in sink
          OBVIOUS
      <2>1. Effects
            BY NextEffects DEF IInv
      <2>2. e \in Event /\ \E p \in Process : proc[p].tries[e] = "live"
            BY <2>1 DEF Effects, SinkStep
      <2>3. Delivered(f)
            BY <2>2 DEF IInv, BegunInOrder
      <2>4. f \in Event
            BY <2>2, PredecessorType DEF IInv, TypeOK
      <2> QED BY <2>3, <2>4 DEF IInv, NothingLost
<1> QED BY <1>1, Inductive, PTL DEF Spec, HeardInOrder

-----------------------------------------------------------------------------
\* The bound on the registry

\* Registries are finite.
LEMMA RegisteredFinite ==
    ASSUME NEW t \in [Event -> Outcomes]
    PROVE  /\ IsFiniteSet(Event) /\ IsFiniteSet(Registered(t))
           /\ Cardinality(Registered(t)) \in Nat
<1>1. IsFiniteSet(Event)
      BY FS_Interval, OutboxAssumption DEF Event
<1>2. Registered(t) \subseteq Event
      BY DEF Registered
<1> QED BY <1>1, <1>2, FS_Subset, FS_CardinalityType

\* A delivery that begins has a place, after an eviction if need be.
LEMMA EvictedMakesPlace ==
    ASSUME plan \in Plans, NEW t \in [Event -> Outcomes], NEW kept \in Evicted(t)
    PROVE  Cardinality(Registered(kept)) <= plan.inflight - 1
<1>1. IsFiniteSet(Registered(t)) /\ Cardinality(Registered(t)) \in Nat
      BY RegisteredFinite
<1>2. plan.inflight \in Nat
      BY PlanType
<1>3. CASE Cardinality(Registered(t)) < plan.inflight
      BY <1>1, <1>2, <1>3 DEF Evicted
<1>4. CASE ~(Cardinality(Registered(t)) < plan.inflight)
      <2>1. PICK out \in SUBSET (Registered(t) \ LiveTries(t)) :
               /\ Cardinality(Registered(t)) - Cardinality(out) = plan.inflight - 1
               /\ kept = [e \in Event |-> IF e \in out THEN "none" ELSE t[e]]
            BY <1>4 DEF Evicted
      <2>2. Registered(kept) = Registered(t) \ out
            BY <2>1 DEF Registered
      <2>3. out \subseteq Registered(t) /\ IsFiniteSet(out)
            BY <1>1, <2>1, FS_Subset
      <2>4. Cardinality(out) \in Nat
            BY <2>3, FS_CardinalityType
      <2>5. Cardinality(Registered(t) \ out)
               = Cardinality(Registered(t)) - Cardinality(Registered(t) \cap out)
            BY <1>1, FS_Difference
      <2>6. Registered(t) \cap out = out
            BY <2>3
      <2>7. Cardinality(Registered(kept)) = Cardinality(Registered(t)) - Cardinality(out)
            BY <2>2, <2>5, <2>6, Zenon
      <2> QED BY <1>1, <1>2, <2>1, <2>4, <2>7
<1> QED BY <1>3, <1>4

\* No step takes more places than there are.
LEMMA RegistryBoundedStep ==
    ASSUME TypeOK, Effects, RegistryBounded
    PROVE  RegistryBounded'
<1> SUFFICES ASSUME NEW p \in Process
             PROVE  Cardinality(Registered(proc'[p].tries)) <= plan.inflight
    BY DEF RegistryBounded, Effects
<1>1. proc[p].tries \in [Event -> Outcomes]
      BY ProcField DEF TypeOK
<1>2. plan.inflight \in Nat
      BY PlanType DEF TypeOK
<1>3. /\ IsFiniteSet(Registered(proc[p].tries))
      /\ Cardinality(Registered(proc[p].tries)) \in Nat
      /\ Cardinality(Registered(proc[p].tries)) <= plan.inflight
      BY <1>1, RegisteredFinite DEF RegistryBounded
<1>4. CASE \A e \in Event : proc'[p].tries[e] # "none" => proc[p].tries[e] # "none"
      <2>1. Registered(proc'[p].tries) \subseteq Registered(proc[p].tries)
            BY <1>4 DEF Registered
      <2>2. /\ Cardinality(Registered(proc'[p].tries)) \in Nat
            /\ Cardinality(Registered(proc'[p].tries)) <= Cardinality(Registered(proc[p].tries))
            BY <1>3, <2>1, FS_Subset, FS_CardinalityType
      <2> QED BY <1>2, <1>3, <2>2
<1>5. ASSUME NEW e \in Event, Begins(p, e)
      PROVE  Cardinality(Registered(proc'[p].tries)) <= plan.inflight
      <2>1. PICK kept \in Evicted(proc[p].tries) : proc'[p].tries = [kept EXCEPT ![e] = "live"]
            BY <1>5 DEF Begins
      <2>2. kept \in [Event -> Outcomes]
            BY <1>1, <2>1, EvictedType
      <2>3. /\ IsFiniteSet(Registered(kept)) /\ Cardinality(Registered(kept)) \in Nat
            /\ Cardinality(Registered(kept)) <= plan.inflight - 1
            BY <1>1, <2>2, RegisteredFinite, EvictedMakesPlace DEF TypeOK
      <2>4. Registered(proc'[p].tries) = Registered(kept) \cup {e}
            BY <2>1, <2>2 DEF Registered
      <2>5. Cardinality(Registered(kept) \cup {e}) \in
               {Cardinality(Registered(kept)), Cardinality(Registered(kept)) + 1}
            BY <2>3, FS_AddElement
      <2> QED BY <1>2, <2>3, <2>4, <2>5
<1>6. CASE Keeps(p) \/ Turns(p)
      BY <1>4, <1>6 DEF Keeps, Kept, Turns
<1>7. CASE \E e \in Event : Reports(p, e)
      <2>1. PICK e \in Event : Reports(p, e)
            BY <1>7
      <2>2. \A f \in Event : proc'[p].tries[f] # "none" => proc[p].tries[f] # "none"
            BY <1>1, <2>1 DEF Reports
      <2> QED BY <1>4, <2>2
<1> QED BY <1>5, <1>6, <1>7 DEF Effects, ProcStep

\* A coordinator never has more deliveries under way or uncollected than it may.
THEOREM RegistryIsBounded == Spec => []RegistryBounded
<1>1. Init => RegistryBounded
      <2> SUFFICES ASSUME Init, NEW p \in Process
                   PROVE  Cardinality(Registered(proc[p].tries)) <= plan.inflight
          BY DEF RegistryBounded
      <2>1. Registered(proc[p].tries) = {}
            BY DEF Init, Unstarted, Registered
      <2>2. plan.inflight \in Nat
            BY PlanType DEF Init
      <2> QED BY <2>1, <2>2, FS_EmptySet
<1>2. IInv /\ RegistryBounded /\ [Next]_vars => RegistryBounded'
      BY NextEffects, RegistryBoundedStep DEF IInv
<1> QED BY <1>1, <1>2, Inductive, PTL DEF Spec
=============================================================================
