---------------------------- MODULE LeaderLease ----------------------------
(***************************************************************************)
(* The singleton of the coordinator (core.py): the processes that open one *)
(* database keep a single row, the leader lease.  A process is admitted    *)
(* when it starts, unless the row's last heartbeat is recent; from then on *)
(* every verb compares the row with the process's own label and epoch      *)
(* before it changes anything.  A process that was paused while another    *)
(* took over is still running and does not know; a crashed one is replaced *)
(* by a new process, perhaps with the same label.                          *)
(*                                                                         *)
(* Each action is one critical section (BEGIN IMMEDIATE serializes them    *)
(* over all the processes).  The row's last_heartbeat is kept as its age.  *)
(***************************************************************************)
EXTENDS Naturals

CONSTANTS
    Proc,       \* the places a coordinator process runs in, one at a time
    Label,      \* the values of coordinator_id
    label,      \* the label a place's processes are started with
    Ttl,        \* and the leader_ttl they are started with
    MaxTtl,     \* no leader_ttl is longer
    MaxEpoch    \* bound: no process is admitted after this epoch

ASSUME LabelAssumption == label \in [Proc -> Label]
ASSUME TtlAssumption == MaxTtl \in Nat /\ Ttl \in [Proc -> 0..MaxTtl]
ASSUME EpochAssumption == MaxEpoch \in Nat

NoEpoch == 0                \* leader_epoch is None
Never == MaxTtl + 1         \* an age above every leader_ttl

VARIABLES
    lease,      \* the row leader_lease; its epoch is NoEpoch while there is none
    epoch,      \* leader_epoch of each process
    silent,     \* history: how long ago each process was admitted or kept alive
    admitted    \* history: the processes admitted last (none before the first)

vars == <<lease, epoch, silent, admitted>>

Lease == [id : Label, epoch : Nat, age : 0..Never, ttl : 0..MaxTtl]

TypeOK ==
    /\ lease \in Lease
    /\ epoch \in [Proc -> Nat]
    /\ silent \in [Proc -> 0..Never]
    /\ admitted \subseteq Proc

Init ==
    /\ lease \in [id : Label, epoch : {NoEpoch}, age : {Never}, ttl : {0}]
    /\ epoch = [p \in Proc |-> NoEpoch]
    /\ silent = [p \in Proc |-> Never]
    /\ admitted = {}

-----------------------------------------------------------------------------
(***************************************************************************)
(* Faults for the mutation tests.                                          *)
(***************************************************************************)

\* The last instant of the ttl is not counted.
LeaderAliveStrictly == lease.epoch # NoEpoch /\ lease.age < lease.ttl

\* The label is taken for an identity.
LeadsByLabel(p) == lease.epoch # NoEpoch /\ lease.id = label[p]

\* The guard of every verb.
Leads(p) ==
    /\ lease.epoch # NoEpoch
    /\ lease.id = label[p]
    /\ lease.epoch = epoch[p]

\* Resigning deletes the row.
ResignDeletes(p) ==
    /\ Leads(p)
    /\ lease' = [lease EXCEPT !.epoch = NoEpoch, !.age = Never]
    /\ epoch' = [epoch EXCEPT ![p] = NoEpoch]
    /\ UNCHANGED <<silent, admitted>>

\* Resigning takes the name off the row.
ResignAnonymous(p) ==
    /\ Leads(p)
    /\ lease' = [lease EXCEPT !.id = NoEpoch, !.age = Never]
    /\ epoch' = [epoch EXCEPT ![p] = NoEpoch]
    /\ UNCHANGED <<silent, admitted>>

\* A heartbeat that does not check the row first.
HeartbeatUnfenced(p) ==
    /\ epoch[p] # NoEpoch
    /\ lease' = [lease EXCEPT !.age = 0]
    /\ silent' = [silent EXCEPT ![p] = 0]
    /\ UNCHANGED <<epoch, admitted>>
-----------------------------------------------------------------------------
\* The incumbent's heartbeat is within the incumbent's own leader_ttl.
LeaderAlive == lease.epoch # NoEpoch /\ lease.age <= lease.ttl

\* A process starts and is admitted.  It runs until Crash; a process that
\* resigned still runs, but may be replaced.  (One that is refused does nothing.)
Acquire(p) ==
    /\ epoch[p] = NoEpoch
    /\ lease.epoch < MaxEpoch
    /\ ~LeaderAlive
    /\ lease' = [id |-> label[p], epoch |-> lease.epoch + 1, age |-> 0, ttl |-> Ttl[p]]
    /\ epoch' = [epoch EXCEPT ![p] = lease.epoch + 1]
    /\ silent' = [silent EXCEPT ![p] = 0]
    /\ admitted' = {p}

\* The keepalive, from the heartbeat thread or called by hand.
Heartbeat(p) ==
    /\ Leads(p)
    /\ lease' = [lease EXCEPT !.age = 0]
    /\ silent' = [silent EXCEPT ![p] = 0]
    /\ UNCHANGED <<epoch, admitted>>

\* An orderly shutdown, or a start that fails after it was admitted.
Resign(p) ==
    /\ Leads(p)
    /\ lease' = [lease EXCEPT !.age = Never]
    /\ epoch' = [epoch EXCEPT ![p] = NoEpoch]
    /\ UNCHANGED <<silent, admitted>>

Crash(p) ==
    /\ epoch[p] # NoEpoch
    /\ epoch' = [epoch EXCEPT ![p] = NoEpoch]
    /\ UNCHANGED <<lease, silent, admitted>>

Older(n) == IF n < Never THEN n + 1 ELSE n

\* Time passes for the row and for every process.
Tick ==
    /\ lease' = [lease EXCEPT !.age = Older(lease.age)]
    /\ silent' = [p \in Proc |-> Older(silent[p])]
    /\ UNCHANGED <<epoch, admitted>>

Next ==
    \/ \E p \in Proc : Acquire(p) \/ Heartbeat(p) \/ Resign(p) \/ Crash(p)
    \/ Tick

Spec == Init /\ [][Next]_vars

\* Nothing is assumed of the processes, which may pause for ever: time passes.
FairSpec == Spec /\ WF_vars(Tick)
-----------------------------------------------------------------------------
\* However often labels are reused, leases expire under a paused process,
\* and processes resign, crash and come back: the guard lets nobody pass but
\* the process admitted last.  So two processes never write one database.
OnlyTheLastWrites == \A p \in Proc : Leads(p) => p \in admitted

\* A process that keeps its heartbeat within its own leader_ttl is fenced out
\* by nobody: it leads until it resigns or crashes, whatever ttl the others use.
PromptLeaderStays ==
    [][\A p \in Proc :
        Leads(p) /\ silent[p] <= Ttl[p] => Leads(p)' \/ epoch'[p] = NoEpoch]_vars

\* A lease nobody can use does not keep others out for ever: no process that
\* was fenced out, or is paused, can keep it alive.
OrphanedLeaseEnds ==
    (\A p \in Proc : ~Leads(p)) ~> (lease.age > lease.ttl \/ \E p \in Proc : Leads(p))
=============================================================================
