----------------------------- MODULE Semaphores -----------------------------
(***************************************************************************)
(* A semaphore: permits that are leases, and waiters that poll.  There is  *)
(* no counter: what is free is the maximum less the permits HELD, so a     *)
(* permit whose holder dies or falls silent comes back with its lease.     *)
(* The operators of this module take the rows of one semaphore and give    *)
(* the rows a call leaves; Primitives makes actions of them.               *)
(***************************************************************************)
EXTENDS Naturals, FiniteSets

CONSTANTS
    Agent,
    Priority,   \* the priority each agent asks with
    MaxPermits, \* bound: the largest max_permits declared
    MaxWaits    \* bound: waiters ever registered

Wait == 1 .. MaxWaits       \* waiters are numbered by enqueued_seq

NoWait == [agent |-> {}, late |-> FALSE, state |-> "none"]

\* agent: a set of one while it waits.  late: the waiter's deadline is past.
WaitRow == [agent : SUBSET Agent, late : BOOLEAN,
            state : {"none", "WAITING", "GRANTED", "TIMEOUT", "CANCELLED"}]

\* permit: an agent's HELD permit; "due" once its lease has run out and no sweep
\* has come by.  (There is one at most, for acquire() gives back the one there is.)
Semaphore == [max : 1 .. MaxPermits, permit : [Agent -> {"none", "held", "due"}],
              wait : [Wait -> WaitRow]]

NewSemaphore(n) == [max |-> n, permit |-> [a \in Agent |-> "none"],
                    wait |-> [i \in Wait |-> NoWait]]

Over(how) == [agent |-> {}, late |-> FALSE, state |-> how]

-----------------------------------------------------------------------------
Active(s) == {a \in Agent : s.permit[a] # "none"}
Free(s) == Cardinality(Active(s)) < s.max

Waiting(s) == {i \in Wait : s.wait[i].state = "WAITING"}
Waiter(s, i) == CHOOSE a \in Agent : s.wait[i].agent = {a}

\* The order of the queue: by priority, then by seniority.
Before(s, i, j) ==
    LET p == Priority[Waiter(s, i)]
        q == Priority[Waiter(s, j)]
    IN  p > q \/ (p = q /\ i < j)

Ahead(s, j) == {i \in Waiting(s) : Before(s, i, j)}

\* (Fault: promotion in the order of arrival.)
ReachedByAge(s) ==
    {j \in Waiting(s) :
        Cardinality(Active(s) \cup {Waiter(s, i) : i \in {k \in Waiting(s) : k < j}}) < s.max}

\* The waiters promotion reaches before the slots are used up.  It goes down the
\* queue; a waiter whose agent got a permit in the meantime takes no slot.
Reached(s) ==
    {j \in Waiting(s) :
        Cardinality(Active(s) \cup {Waiter(s, i) : i \in Ahead(s, j)}) < s.max}

Promoted(s) ==
    LET served == Reached(s)
        new == {Waiter(s, j) : j \in served}
    IN  [s EXCEPT !.permit = [a \in Agent |-> IF s.permit[a] = "none" /\ a \in new
                                              THEN "held" ELSE s.permit[a]],
                  !.wait = [j \in Wait |-> IF j \in served THEN Over("GRANTED") ELSE s.wait[j]]]

Dropped(s, agents) == [s EXCEPT !.permit = [a \in Agent |-> IF a \in agents THEN "none"
                                                            ELSE s.permit[a]]]

Due(s) == {a \in Agent : s.permit[a] = "due"}

\* The leases that have run out are taken back.
Lapsed(s) == Dropped(s, Due(s))

\* The part of a sweep that is about semaphores.
Swept(s) == IF Due(s) = {} THEN s ELSE Promoted(Lapsed(s))

-----------------------------------------------------------------------------
\* sem_declare(): max_permits may be changed, and lowered below what is held.
Declared(s, n) == Promoted([s EXCEPT !.max = n])

\* Is anybody else waiting who may not be overtaken by an agent of this priority?
HasEarlierWaiter(s, a) ==
    \E i \in Waiting(s) : Waiter(s, i) # a /\ Priority[Waiter(s, i)] >= Priority[a]

Registered(s, a) ==
    {[s EXCEPT !.wait[i] = [agent |-> {a}, late |-> FALSE, state |-> "WAITING"]] :
        i \in {j \in Wait : /\ s.wait[j] = NoWait
                            /\ \A k \in 1 .. j - 1 : s.wait[k] # NoWait}}

\* acquire(), swept and alive: the results it can have, with and without no_wait.
\* An agent that asks again while it waits is given another row.
Acquired(s, a) ==
    IF s.permit[a] # "none" THEN {s}
    ELSE IF Free(s) /\ ~HasEarlierWaiter(s, a) THEN {[s EXCEPT !.permit[a] = "held"]}
    ELSE {s} \cup Registered(s, a)

\* acquire_poll(), of a row that waits.
Polled(s, i) ==
    LET q == Promoted(Swept(s))
    IN  IF q.wait[i].state = "WAITING" /\ q.wait[i].late
        THEN [q EXCEPT !.wait[i] = Over("TIMEOUT")]
        ELSE q

\* sem_release(), by the owner and with the permit's fence.
Returned(s, a) == Promoted(Dropped(s, {a}))

\* The permit and the waits of an agent that is reclaimed end,
Withdrawn(s, a) ==
    [Dropped(s, {a}) EXCEPT !.wait = [i \in Wait |->
        IF i \in Waiting(s) /\ Waiter(s, i) = a THEN Over("CANCELLED") ELSE s.wait[i]]]

\* and a slot that comes back so goes to the head of the queue.
Forsaken(s, a) == IF s.permit[a] = "none" THEN Withdrawn(s, a) ELSE Promoted(Withdrawn(s, a))

\* What heartbeat() does to it.  It does not sweep: a permit that is due is renewed.
Renewed(s, a) == IF s.permit[a] = "due" THEN [s EXCEPT !.permit[a] = "held"] ELSE s

\* What time does to it.
LapsedPermit(s, a) == [s EXCEPT !.permit[a] = "due"]
LateWait(s, i) == [s EXCEPT !.wait[i].late = TRUE]
=============================================================================
