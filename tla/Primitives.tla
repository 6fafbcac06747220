----------------------------- MODULE Primitives -----------------------------
(***************************************************************************)
(* Semaphores, flags and barriers as one coordinator serves them: one of   *)
(* each, and what they share, which is the agents that die, the sweep that *)
(* most calls begin with, and time.  Every action is one call, with all it *)
(* does to any of the three.                                               *)
(*                                                                         *)
(* A behaviour has a focus: one of the three is what its clients call for. *)
(* The others are there, and are swept, renewed and reclaimed along with   *)
(* it; clients that use several at once would multiply the states and add  *)
(* nothing, for all the three share is taken from them, never given.       *)
(***************************************************************************)
EXTENDS Naturals, FiniteSets

CONSTANTS
    Agent, Priority,                    \* as in Semaphores
    Task, Dependents,                   \* as in Barriers
    Owner,                              \* whose each task is at first
    MaxPermits, MaxWaits, MaxConsumers, \* bounds, as there
    MaxFence, MaxGeneration,
    MaxReclaims,    \* bound: reclaimed agents
    MaxCrashes      \* bound: crashes of the coordinator

Sem == INSTANCE Semaphores
Flg == INSTANCE Flags
Bar == INSTANCE Barriers

ASSUME PrimitivesAssumption ==
    /\ IsFiniteSet(Agent) /\ Priority \in [Agent -> Nat]
    /\ Owner \in [Task -> Agent]
    /\ Task \subseteq Nat /\ IsFiniteSet(Task) /\ Dependents \subseteq Task
    /\ {MaxPermits, MaxWaits, MaxConsumers, MaxFence, MaxGeneration,
        MaxReclaims, MaxCrashes} \subseteq Nat
    /\ Cardinality(Task) <= MaxFence

VARIABLES
    focus,  \* what the clients use
    gone,   \* agents that were reclaimed, RETIRED for good
    sem,    \* the semaphore
    flag,   \* the flag
    world,  \* the barrier, its tasks and its driver
    life    \* of the coordinator: is it up, and how often has it crashed?

vars == <<focus, gone, sem, flag, world, life>>

TypeOK ==
    /\ focus \in {"semaphore", "signal", "task flag", "barrier"}
    /\ gone \in SUBSET Agent
    /\ sem \in Sem!Semaphore
    /\ flag \in Flg!Flag
    /\ world \in Bar!World
    /\ life \in [up : BOOLEAN, crashes : 0 .. MaxCrashes]

\* Where it matters, the tasks are their owners', and have write leases: 1, 2, ...
Init ==
    /\ focus \in {"semaphore", "signal", "task flag", "barrier"}
    /\ gone = {}
    /\ \E n \in 1 .. MaxPermits : sem = Sem!NewSemaphore(n)
    /\ flag = Flg!NewFlag
    /\ world = [task |-> [t \in Task |->
                    IF focus = "barrier"
                    THEN Bar!NewTask({Owner[t]}, Cardinality({u \in Task : u <= t}))
                    ELSE Bar!Requeued],
                granted |-> Cardinality(Task), bar |-> Bar!NewBarrier,
                driver |-> Bar!NoDriver, wedged |-> FALSE]
    /\ focus # "semaphore" => sem.max = 1
    /\ life = [up |-> TRUE, crashes |-> 0]

-----------------------------------------------------------------------------
Works(a) == life.up /\ a \notin gone

Serves(what) == life.up /\ focus \in what

\* What a call leaves of what it is not about: swept, or as it was.
OthersSwept(what) ==
    /\ "sem" \notin what => sem' = Sem!Swept(sem)
    /\ "flag" \notin what => flag' = Flg!Swept(flag)
    /\ "world" \notin what => world' = Bar!Swept(world)
    /\ UNCHANGED <<focus, gone, life>>

OthersKept(what) ==
    /\ "sem" \notin what => UNCHANGED sem
    /\ "flag" \notin what => UNCHANGED flag
    /\ "world" \notin what => UNCHANGED world
    /\ UNCHANGED <<focus, gone, life>>

-----------------------------------------------------------------------------
\* Semaphores

DeclareSemaphore(n) ==
    /\ Serves({"semaphore"})
    /\ sem' = Sem!Declared(sem, n)
    /\ OthersKept({"sem"})

Acquire(a) ==
    /\ Serves({"semaphore"}) /\ Works(a)
    /\ sem' \in Sem!Acquired(Sem!Swept(sem), a)
    /\ OthersSwept({"sem"})

AcquirePoll(i) ==
    /\ Serves({"semaphore"}) /\ i \in Sem!Waiting(sem)
    /\ sem' = Sem!Polled(sem, i)
    /\ OthersSwept({"sem"})

ReturnPermit(a) ==
    /\ Serves({"semaphore"}) /\ Works(a) /\ sem.permit[a] # "none"
    /\ sem' = Sem!Returned(sem, a)
    /\ OthersKept({"sem"})

-----------------------------------------------------------------------------
\* Flags

SetLatch(a, v) ==
    /\ Serves({"signal", "task flag"}) /\ Works(a)
    /\ flag' = Flg!Latched(flag, v)
    /\ OthersKept({"flag"})

SetSignal(a, v, ttl) ==
    /\ Serves({"signal", "task flag"}) /\ Works(a)
    /\ flag' = Flg!Signalled(flag, a, v, ttl)
    /\ OthersKept({"flag"})

ClearSignal(a) ==
    /\ Serves({"signal", "task flag"}) /\ Works(a)
    /\ flag' = Flg!Cleared(flag, a)
    /\ OthersKept({"flag"})

AwaitFlag(v) ==
    /\ Serves({"signal", "task flag"})
    /\ flag' \in Flg!Awaited(flag, v)
    /\ OthersKept({"flag"})

PollFlag(i) ==
    /\ Serves({"signal", "task flag"}) /\ i \in Flg!Waiting(flag)
    /\ flag' = Flg!PolledWait(flag, i)
    /\ OthersSwept({"flag"})

\* finish() and connect() of the task whose id the flag's key is.
StampFlag(v) ==
    /\ Serves({"task flag"}) /\ v # "other"
    /\ flag.value = "merged" => v = "merged"
    /\ flag' = Flg!Stamped(flag, v)
    /\ OthersKept({"flag"})

-----------------------------------------------------------------------------
\* Barriers.  A call that wants the connect effect lock while somebody has it is
\* told to try again; one that gets it recovers first.

LockFree == world.driver.kind = "nobody"

\* (The agents that have a task at first.)
Tasked == {Owner[t] : t \in Task}

Declare(members, policy, timed) ==
    /\ Serves({"barrier"})
    /\ world.bar.generation < MaxGeneration \/ world.bar.state = "none"
    /\ world' = Bar!Declared(world, members, policy, timed)
    /\ OthersKept({"world"})

Arrive(t, a) ==
    /\ Serves({"barrier"}) /\ Works(a) /\ LockFree /\ world.task[t].owner = {a}
    /\ \E answers \in BOOLEAN : \E w \in Bar!Recoveries(world, answers) :
          world' = Bar!Arrival(Bar!Swept(w), t)
    /\ OthersSwept({"world"})

\* Phase A of the next member of a trip; or the audit of its branch refuses it.
StartMember ==
    /\ life.up /\ world.driver.kind = "trip"
    /\ world.driver.merging = {}
    /\ \E t \in Task :
          /\ Bar!IsNext(world, t)
          /\ world' \in {Bar!MemberStarts(world, t), Bar!TripFailed(world)}
    /\ OthersKept({"world"})

EndMerge(t) ==
    /\ life.up /\ world.driver.kind # "orphan" /\ world.driver.merging = {t}
    /\ world' \in {Bar!MergeEnds(world, t), Bar!MergeFails(world, t), Bar!MergeStops(world)}
    /\ OthersKept({"world"})

EndTrip ==
    /\ life.up /\ world.driver.kind = "trip"
    /\ world.driver.merging = {} /\ world.driver.plan = {}
    /\ world' = Bar!TripEnds(world)
    /\ OthersKept({"world"})

Raise ==
    /\ life.up /\ world.driver.kind = "trip"
    /\ world' = Bar!TripRaises(world)
    /\ OthersKept({"world"})

Connect(t, a) ==
    /\ Serves({"barrier"}) /\ Works(a) /\ LockFree /\ world.task[t].owner = {a}
    /\ \E answers \in BOOLEAN : \E w \in Bar!Recoveries(world, answers) :
          world' = Bar!ConnectStarts(Bar!Swept(w), t)
    /\ OthersSwept({"world"})

Abort ==
    /\ Serves({"barrier"}) /\ world.bar.state \in {"ARMED", "TRIPPING"}
    /\ world' = Bar!BrokenUp(world)
    /\ OthersKept({"world"})

Consume ==
    /\ Serves({"barrier"}) /\ world.bar.state = "TRIPPED"
    /\ world' = Bar!Consumed(world)
    /\ OthersKept({"world"})

ClaimWrite(t, a) ==
    /\ Serves({"barrier"}) /\ Works(a) /\ world.granted < MaxFence
    /\ world.task[t].fence = 0
    /\ \/ world.task[t].state = "PENDING"
       \/ world.task[t].state = "OPEN" /\ world.task[t].owner = {a}
    /\ world' = Bar!Granted(world, t, a)
    /\ OthersKept({"world"})

ReleaseWrite(t, a) ==
    /\ Serves({"barrier"}) /\ Works(a) /\ world.task[t].owner = {a}
    /\ world.task[t].state = "OPEN" /\ world.task[t].fence # 0
    /\ world' = Bar!Released(world, t)
    /\ OthersKept({"world"})

-----------------------------------------------------------------------------
\* Everybody

\* sem_status(), barrier_status().
Status == life.up /\ OthersSwept({})

\* The periodic sweep, which recovers first if nobody has the effect lock.
Sweep(answers) ==
    /\ life.up
    /\ \E w \in IF LockFree THEN Bar!Recoveries(world, answers) ELSE {world} :
          world' = Bar!Swept(w)
    /\ OthersSwept({"world"})

Heartbeat(a) ==
    /\ Works(a)
    /\ sem' = Sem!Renewed(sem, a)
    /\ flag' = Flg!Renewed(flag, a)
    /\ UNCHANGED <<focus, gone, world, life>>

\* bail(), or the reclaim of an agent that fell silent; not in the middle of its merge.
Reclaim(a) ==
    /\ Works(a) /\ Cardinality(gone) < MaxReclaims
    /\ \A t \in Bar!Connecting(world) : world.task[t].owner # {a}
    /\ gone' = gone \cup {a}
    /\ sem' = Sem!Forsaken(sem, a)
    /\ flag' = Flg!Forsaken(flag, a)
    /\ \E fate \in [Bar!OwnedBy(world, a) -> {"PENDING", "POISONED", "OPEN"}] :
          world' = Bar!Forsaken(world, a, fate)
    /\ UNCHANGED <<focus, life>>

PermitLapses(a) ==
    /\ focus = "semaphore" /\ sem.permit[a] = "held"
    /\ sem' = Sem!LapsedPermit(sem, a)
    /\ OthersKept({"sem"})

WaitRunsOut(i) ==
    /\ i \in Sem!Waiting(sem) /\ ~sem.wait[i].late
    /\ sem' = Sem!LateWait(sem, i)
    /\ OthersKept({"sem"})

SignalLapses ==
    /\ flag.lease = "held"
    /\ flag' = Flg!LapsedSignal(flag)
    /\ OthersKept({"flag"})

ConsumerRunsOut(i) ==
    /\ i \in Flg!Waiting(flag) /\ ~flag.wait[i].late
    /\ flag' = Flg!LateConsumer(flag, i)
    /\ OthersKept({"flag"})

LeaseLapses(t) ==
    /\ focus = "barrier" /\ world.task[t].fence # 0 /\ ~world.task[t].due
    /\ world' = Bar!LapsedLease(world, t)
    /\ OthersKept({"world"})

DeadlinePasses ==
    /\ world.bar.state = "ARMED" /\ world.bar.timed /\ ~world.bar.late
    /\ world' = Bar!LateBarrier(world)
    /\ OthersKept({"world"})

\* The process dies.  What matters of it here is the driver it takes along.
Crash ==
    /\ life.up /\ ~LockFree /\ life.crashes < MaxCrashes
    /\ life' = [up |-> FALSE, crashes |-> life.crashes + 1]
    /\ world' \in Bar!Died(world)
    /\ UNCHANGED <<focus, gone, sem, flag>>

\* The Git process of a coordinator that is gone ends, and the lock is free.
OrphanEnds ==
    /\ world.driver.kind = "orphan"
    /\ world' = Bar!Leaves(world)
    /\ OthersKept({"world"})

\* The next process recovers as it starts, unless an orphan has the effect lock.
Restart(answers) ==
    /\ ~life.up
    /\ life' = [life EXCEPT !.up = TRUE]
    /\ world' \in IF LockFree THEN Bar!Recoveries(world, answers) ELSE {world}
    /\ UNCHANGED <<focus, gone, sem, flag>>

\* It turns out that the rollback of the attempt that was left cannot be proven: the
\* branch was moved or the worktree is wrecked.  Or somebody puts that right.
Wedge ==
    /\ LockFree /\ Bar!Connecting(world) # {} /\ ~world.wedged
    /\ world' = [world EXCEPT !.wedged = TRUE]
    /\ OthersKept({"world"})

Repair ==
    /\ world.wedged
    /\ world' = [world EXCEPT !.wedged = FALSE]
    /\ OthersKept({"world"})

OnSemaphore ==
    \/ \E n \in 1 .. MaxPermits : DeclareSemaphore(n)
    \/ \E a \in Agent : Acquire(a) \/ ReturnPermit(a) \/ PermitLapses(a)
    \/ \E i \in Sem!Wait : AcquirePoll(i) \/ WaitRunsOut(i)

OnFlag ==
    \/ \E a \in Agent : ClearSignal(a)
    \/ \E a \in Agent, v \in Flg!Value : SetLatch(a, v)
    \/ \E a \in Agent, v \in Flg!Value, ttl \in BOOLEAN : SetSignal(a, v, ttl)
    \/ \E v \in Flg!Value : AwaitFlag(v) \/ StampFlag(v)
    \/ \E i \in Flg!Wait : PollFlag(i) \/ ConsumerRunsOut(i)
    \/ SignalLapses

OnBarrier ==
    \/ \E members \in SUBSET Task \ {{}}, policy \in {"break", "shrink"}, timed \in BOOLEAN :
          Declare(members, policy, timed)
    \/ \E t \in Task, a \in Tasked :
          Arrive(t, a) \/ Connect(t, a) \/ ClaimWrite(t, a) \/ ReleaseWrite(t, a)
    \/ StartMember \/ EndTrip \/ Raise \/ Abort \/ Consume
    \/ \E t \in Task : EndMerge(t) \/ LeaseLapses(t)
    \/ DeadlinePasses \/ Crash \/ OrphanEnds \/ Wedge \/ Repair
    \/ \E answers \in BOOLEAN : Restart(answers)

Next ==
    \/ OnSemaphore \/ OnFlag \/ OnBarrier
    \/ Status \/ \E answers \in BOOLEAN : Sweep(answers)
    \/ \E a \in Agent : Heartbeat(a)
    \/ \E a \in IF focus = "barrier" THEN Tasked ELSE Agent : Reclaim(a)

\* Who has the effect lock gets on, and lets it go.
EffectGoesOn == StartMember \/ EndTrip \/ (\E t \in Task : EndMerge(t)) \/ OrphanEnds

\* Time passes, what a driver does returns, a Git process ends, a coordinator that
\* dies is started again, and of the periodic sweeps there is always one more that finds
\* the lock free and Git answering.  Where a rollback is not proven no process need
\* start.  Clients owe nothing.
Fairness ==
    /\ WF_vars(DeadlinePasses)
    /\ WF_vars(EffectGoesOn)
    /\ WF_vars(~world.wedged /\ \E answers \in BOOLEAN : Restart(answers))
    /\ SF_vars(LockFree /\ Sweep(TRUE))

Spec == Init /\ [][Next]_vars /\ Fairness

-----------------------------------------------------------------------------
\* A free slot is never left lying while somebody waits for one: whatever way a
\* permit came back (returned, lapsed, its holder reclaimed) or the semaphore grew,
\* the head of the queue has it when the call is over.  Waiters poll at leisure, and
\* nobody else would give it to them.
SlotsAreUsed == Sem!Waiting(sem) # {} => ~Sem!Free(sem)

\* No call grants a permit beyond the maximum (which may be lowered below what is
\* held), and none grants one over the head of a waiter who comes first and still
\* waits when the call is over.
GrantsInOrder ==
    [][LET new == Sem!Active(sem)' \ Sem!Active(sem)
       IN  new # {} =>
             /\ Cardinality(Sem!Active(sem)') <= sem.max'
             /\ \A i \in Sem!Waiting(sem) \cap Sem!Waiting(sem)', a \in new :
                   LET w == Sem!Waiter(sem, i)
                       since == {j \in Sem!Waiting(sem) : Sem!Waiter(sem, j) = a}
                   IN  \/ Priority[w] < Priority[a]
                       \/ Priority[w] = Priority[a] /\ \E j \in since : j < i
                       \/ w = a]_vars

\* A consumer of a signal is never left waiting for what has come already, or for what
\* cannot come any more; and a signal that lives has its lease, so that the death of
\* its owner will be noticed.  (The flags of tasks are another matter: see README.)
SignalsAreHeard ==
    focus = "signal" =>
        /\ \A i \in Flg!Waiting(flag) :
              ~Flg!Broken(flag) /\ ~Flg!Satisfied(flag, flag.wait[i].want)
        /\ flag.lease # "none" <=> flag.kind = "EPHEMERAL" /\ flag.status = "LIVE"
        /\ flag.lease # "none" => flag.owner \cap gone = {}

\* A barrier that reports TRIPPED has merged every member, whoever drove the trip to
\* its end: the driver, its exception handler or the recovery of a successor.
TrippedMeansMerged ==
    world.bar.state \in {"TRIPPED", "CONSUMED"} => Bar!AllMerged(world)

\* A trip merges a member only while the barrier it was planned for still stands, after
\* all of its members have arrived, and with the very lease the member arrived with.
\* An abort, a new generation or a new holder of the lease may come between any two.
TripIsOwned ==
    [][\A t \in Task :
          world.task[t].state = "OPEN" /\ world.task'[t].state = "CONNECTING"
          /\ world.driver.kind = "trip"
          => /\ world.bar.state = "TRIPPING" /\ world.bar.generation = world.driver.generation
             /\ \A u \in world.bar.member : Bar!Arrived(world, u)
             /\ world.bar.arrived[t] = world.task[t].fence]_vars

\* Nobody waits at a barrier for ever.  One that was given a deadline and breaks on a
\* death leaves ARMED, and no trip lasts, whoever dies, whether or not the next process
\* finds the lock taken, and though Git may long not answer.  The exception is an attempt
\* whose rollback cannot be proven, which stops every sweep until somebody has put it
\* right.  (A barrier that shrinks may well stay ARMED: see README.)
BarrierSettles ==
    /\ (world.bar.state = "ARMED" /\ world.bar.timed /\ world.bar.policy = "break")
          ~> (world.bar.state # "ARMED" \/ world.wedged)
    /\ world.bar.state = "TRIPPING" ~> (world.bar.state # "TRIPPING" \/ world.wedged)
=============================================================================
