-------------------------------- MODULE Flags --------------------------------
(***************************************************************************)
(* A flag: a LATCH, a fact that only grows (done, then merged), or an      *)
(* EPHEMERAL signal, which is true as long as the lease of its owner is.   *)
(* Consumers register and poll.  The operators take the row of one flag,   *)
(* with its lease and its waiters, and give what a call leaves;            *)
(* Primitives makes actions of them.                                       *)
(***************************************************************************)
EXTENDS Naturals

CONSTANTS
    Agent,
    MaxConsumers    \* bound: waits ever registered

Wait == 1 .. MaxConsumers
Value == {"done", "merged", "other"}

LatchRank(v) == CASE v = "done" -> 1 [] v = "merged" -> 2 [] OTHER -> 0

\* late: the waiter's deadline is past.
WaitRow == [want : Value, late : BOOLEAN,
            state : {"none", "WAITING", "SATISFIED", "BROKEN", "TIMEOUT"}]

\* owner: a set of one, of an EPHEMERAL flag.  lease: the one that backs it;
\* "due" once it has run out and no sweep has come by, "none" when it has ended.
Flag == [kind : {"unset", "LATCH", "EPHEMERAL"}, status : {"LIVE", "CLEARED", "BROKEN"},
         value : Value, rank : 0 .. 2, owner : SUBSET Agent,
         lease : {"none", "held", "due"}, wait : [Wait -> WaitRow]]

Over(how) == [want |-> "other", late |-> FALSE, state |-> how]
NoWait == Over("none")

NewFlag == [kind |-> "unset", status |-> "CLEARED", value |-> "other", rank |-> 0,
            owner |-> {}, lease |-> "none", wait |-> [i \in Wait |-> NoWait]]

-----------------------------------------------------------------------------
Live(f) == f.kind # "unset" /\ f.status = "LIVE"
Broken(f) == f.status = "BROKEN"

\* The value itself, or a rank at least as high.
Satisfied(f, want) ==
    Live(f) /\ (f.value = want \/ (LatchRank(want) > 0 /\ f.rank >= LatchRank(want)))

Waiting(f) == {i \in Wait : f.wait[i].state = "WAITING"}

\* (Fault: a flag that breaks is nothing to wake for.)
WokenByValue(f) ==
    [f EXCEPT !.wait = [i \in Wait |->
        IF i \in Waiting(f) /\ Satisfied(f, f.wait[i].want)
        THEN Over("SATISFIED") ELSE f.wait[i]]]

\* _wake_flag_waiters()
Woken(f) ==
    [f EXCEPT !.wait = [i \in Wait |->
        IF i \notin Waiting(f) THEN f.wait[i]
        ELSE IF Broken(f) THEN Over("BROKEN")
        ELSE IF Satisfied(f, f.wait[i].want) THEN Over("SATISFIED")
        ELSE f.wait[i]]]

\* The lease of the flag is taken back, by a sweep or a reclaim.
Severed(f) == [Woken([f EXCEPT !.status = "BROKEN"]) EXCEPT !.lease = "none"]

\* The part of a sweep that is about flags.
Swept(f) == IF f.lease = "due" THEN Severed(f) ELSE f

-----------------------------------------------------------------------------
\* (Fault: ranks add up.)
LatchedUp(f, v) ==
    IF f.kind = "EPHEMERAL" THEN f
    ELSE Woken([f EXCEPT !.kind = "LATCH", !.status = "LIVE", !.value = v, !.rank = @ + LatchRank(v)])

\* flag_set() of a LATCH.  A lower rank than there is is refused; a value
\* without a rank replaces the value and leaves the rank.
Latched(f, v) ==
    LET new == LatchRank(v)
    IN  IF \/ f.kind = "EPHEMERAL"
           \/ f.kind = "LATCH" /\ f.status = "LIVE" /\ f.value = v
           \/ f.kind = "LATCH" /\ 0 < new /\ new < f.rank
        THEN f
        ELSE Woken([f EXCEPT !.kind = "LATCH", !.status = "LIVE", !.value = v,
                             !.rank = IF new > f.rank THEN new ELSE f.rank])

\* flag_set() of an EPHEMERAL flag, with a ttl or without: while the flag lives it is
\* its owner's, and keeps its lease, which only a ttl extends; otherwise a new one.
Signalled(f, a, v, ttl) ==
    IF f.kind = "LATCH" \/ (Live(f) /\ f.owner # {a}) THEN f
    ELSE Woken([f EXCEPT !.kind = "EPHEMERAL", !.status = "LIVE", !.value = v, !.owner = {a},
                         !.lease = IF Live(f) /\ ~ttl THEN f.lease ELSE "held"])

\* flag_clear(), by an agent.
Cleared(f, a) ==
    IF f.kind = "EPHEMERAL" /\ Live(f) /\ f.owner = {a}
    THEN Woken([f EXCEPT !.status = "CLEARED", !.lease = "none"]) ELSE f

\* flag_wait(), unless the answer is there already.
Awaited(f, want) ==
    IF Broken(f) \/ Satisfied(f, want) THEN {f}
    ELSE {[f EXCEPT !.wait[i] = [want |-> want, late |-> FALSE, state |-> "WAITING"]] :
             i \in {j \in Wait : f.wait[j] = NoWait
                                 /\ \A k \in 1 .. j - 1 : f.wait[k] # NoWait}}

\* flag_wait_poll(), of a waiter that waits.
PolledWait(f, i) ==
    LET g == Swept(f)
        answer == IF Broken(g) THEN "BROKEN"
                  ELSE IF Satisfied(g, f.wait[i].want) THEN "SATISFIED"
                  ELSE IF f.wait[i].late THEN "TIMEOUT"
                  ELSE "WAITING"
    IN  IF i \in Waiting(g) /\ answer # "WAITING" THEN [g EXCEPT !.wait[i] = Over(answer)] ELSE g

\* The store's set_flag(), by which finish() and connect() latch the flag of a task:
\* the value alone, and nobody is woken.
Stamped(f, v) == [f EXCEPT !.kind = IF @ = "unset" THEN "LATCH" ELSE @,
                           !.status = IF f.kind = "unset" THEN "LIVE" ELSE @, !.value = v]

\* What reclaiming an agent, a heartbeat and time do to the flag.
Owned(f, a) == f.lease # "none" /\ f.owner = {a}
Forsaken(f, a) == IF Owned(f, a) THEN Severed(f) ELSE f
Renewed(f, a) == IF Owned(f, a) THEN [f EXCEPT !.lease = "held"] ELSE f
LapsedSignal(f) == [f EXCEPT !.lease = "due"]
LateConsumer(f, i) == [f EXCEPT !.wait[i].late = TRUE]
=============================================================================
