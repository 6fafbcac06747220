------------------------------ MODULE Connect ------------------------------
(***************************************************************************)
(* connect(): one task's branch is merged into the integration branch.     *)
(* The database and Git are two stores that no transaction spans, so the   *)
(* merge is an attempt with an identity: Phase A writes it down, Phase B   *)
(* merges outside every lock with the identity in the commit's trailer,    *)
(* Phase C looks for the trailer and settles.  A process that dies on the  *)
(* way leaves the attempt to recovery, which runs at the start of every    *)
(* connect and of every process.                                           *)
(*                                                                         *)
(* The effect lock (_connect_effect) is a file lock whose descriptor the   *)
(* Git children inherit.  It covers a whole connect, or a recovery, and    *)
(* outlives the process as long as a child of it runs.                     *)
(*                                                                         *)
(* Modelled with it: the request ids that span the phases (_idem,          *)
(* _complete_split_idem, _recover_split_idempotency), and read coherence   *)
(* (D12), which judges a connect by the log of the earlier ones.           *)
(***************************************************************************)
EXTENDS Integers, Sequences, FiniteSets, Functions

CONSTANTS
    Process, NoProcess, \* coordinator processes on one database
    Task, NoTask,
    Request, NoRequest, \* request ids
    Asks,               \* the task a request id is used for
    Reads,              \* Reads[k]: the tasks that write what k reads
    ForeignClaims,      \* the tasks run by another agent than their claimer
    ForeignCaller,      \* may a task be connected by another agent than its own?
    QueuedRead,         \* may a read claim have been granted out of the queue?
    ByBarrier,          \* may a task be merged by the trip of a barrier?
    MaxAttempts,        \* bound: attempts ever made
    MaxDeaths,          \* bound: processes that die in a connect
    MaxTakeovers,       \* bound: no recovery is in vain above this owner generation
    MaxDrift            \* bound: commits to the integration branch by others

ASSUME ConnectAssumption ==
    /\ IsFiniteSet(Process)
    /\ NoProcess \notin Process /\ NoTask \notin Task /\ NoRequest \notin Request
    /\ Asks \in [Request -> Task]
    /\ Reads \in [Task -> SUBSET Task]
    /\ ForeignClaims \subseteq Task /\ {ForeignCaller, QueuedRead, ByBarrier} \subseteq BOOLEAN
    /\ {MaxAttempts, MaxDeaths, MaxTakeovers, MaxDrift} \subseteq Nat

VARIABLES
    task,       \* the tasks table: state, the attempt's binding, its request and base
    token,      \* the merge token: the task it was drawn for and its binding
    held,       \* are the write leases of a task held (and pinned, while it connects)?
    idem,       \* the idempotency table
    log,        \* the merge log: the task merged in each integration generation
    synced,     \* read_synced_gen of a task, -1 when it never claimed to read
    git,        \* the integration branch: what each commit is
    tree,       \* the integration worktree: clean, with a merge in progress, or in a
                \* state that no merge --abort brings back to a clean one
    child,      \* the attempt a Git process works on, 0 when there is none
    lock,       \* who holds the effect lock
    proc,       \* what each process is doing
    attempts,   \* attempt ids ever made
    deaths,     \* process instances that are gone
    saw         \* history: the merges a task's reads took into account, with
                \* NoTask as the mark of a task that claimed its reads

db == <<task, token, held, idem, log, synced>>
repo == <<git, tree>>
vars == <<task, token, held, idem, log, synced, git, tree, child, lock, proc,
          attempts, deaths, saw>>

-----------------------------------------------------------------------------
\* Identities

\* connect_attempt_id, connect_owner_instance and connect_owner_generation: a
\* task, the merge token and the request's row carry the same three.
Binding == [attempt : Nat, owner : Nat, gen : Nat]
Unbound == [attempt |-> 0, owner |-> 0, gen |-> 0]

NoToken == [task |-> NoTask, own |-> TRUE, bind |-> Unbound]
NoRow == [status |-> "NONE", bind |-> Unbound]

Idle(n) == [pc |-> "idle", inst |-> n, task |-> NoTask, req |-> NoRequest,
            bind |-> Unbound, err |-> "none"]

TaskRow == [state : {"OPEN", "DONE", "CONNECTING", "MERGED"}, bind : Binding,
            req : Request \cup {NoRequest}, base : Nat]
IdemRow == [status : {"NONE", "INFLIGHT", "RETRYABLE", "DONE"}, bind : Binding]
ProcRow == [pc : {"idle", "reserved", "prepared", "merging", "merged", "settled"},
            inst : Nat, task : Task \cup {NoTask}, req : Request \cup {NoRequest},
            bind : Binding, err : {"none", "drift", "failed", "ok"}]
Commit == [task : Task \cup {NoTask}, attempt : Nat]

TreeState == {"clean", "merging", "wrecked"}

\* A commit somebody made past the coordinator.
Foreign == [task |-> NoTask, attempt |-> 0]

\* branch_in_integration: is there a commit with this attempt's trailer?
Landed(a) == \E i \in DOMAIN git : git[i].attempt = a

MergedInGit == {git[i].task : i \in DOMAIN git} \ {NoTask}

-----------------------------------------------------------------------------
Init ==
    /\ task = [k \in Task |-> [state |-> "OPEN", bind |-> Unbound, req |-> NoRequest, base |-> 0]]
    /\ token = NoToken
    /\ held = [k \in Task |-> FALSE]
    /\ idem = [r \in Request |-> NoRow]
    /\ log = <<>>
    /\ synced = [k \in Task |-> -1]
    /\ git = <<>>
    /\ tree = "clean"
    /\ child = 0
    /\ lock = NoProcess
    /\ proc = LET first == CHOOSE f \in Injection(Process, 1..Cardinality(Process)) : TRUE
              IN  [p \in Process |-> Idle(first[p])]
    /\ attempts = 0
    /\ deaths = 0
    /\ saw = [k \in Task |-> {}]

-----------------------------------------------------------------------------
\* Settling an attempt, in Phase C and in recovery.  A d is the database.

DB == [task |-> task, token |-> token, held |-> held, idem |-> idem, log |-> log]

Store(d) ==
    /\ task' = d.task
    /\ token' = d.token
    /\ held' = d.held
    /\ idem' = d.idem
    /\ log' = d.log

\* (Fault: recovery repairs the task and forgets the merge log.)
ForwardUnlogged(d, k) ==
    [d EXCEPT !.task[k].state = "MERGED", !.task[k].base = 0,
              !.held[k] = FALSE,
              !.token = NoToken]

\* The merge is in Git: the task is MERGED, its merge logged in a new
\* integration generation, its leases and the token are released.
Forward(d, k) ==
    [d EXCEPT !.task[k].state = "MERGED", !.task[k].base = 0,
              !.log = Append(@, k),
              !.held[k] = FALSE,
              !.token = NoToken]

\* (Fault: a task takes the state of its request.)
BackRetryable(d, k) ==
    [d EXCEPT !.task[k].state = "RETRYABLE", !.task[k].base = 0, !.token = NoToken]

\* The merge is not in Git and cannot get there any more.  The generation of
\* the owner is kept, so that the next attempt continues it.
Back(d, k) ==
    [d EXCEPT !.task[k] = [state |-> "DONE", bind |-> [Unbound EXCEPT !.gen = d.task[k].bind.gen],
                           req |-> NoRequest, base |-> 0],
              !.token = NoToken]

-----------------------------------------------------------------------------
\* _recover_under_effect

\* A crash cannot tear the identity apart, so a difference is corruption.  The
\* token must also name an agent the task knows of.
Bound(d, k) ==
    /\ d.token = [task |-> k, own |-> TRUE, bind |-> d.task[k].bind]
    /\ d.task[k].req # NoRequest =>
          d.idem[d.task[k].req] = [status |-> "INFLIGHT", bind |-> d.task[k].bind]

\* (Fault: the token keeps its old owner.)
TakeOverHalf(d, k, n) ==
    LET b == [d.task[k].bind EXCEPT !.owner = n, !.gen = @ + 1]
    IN  [d EXCEPT !.task[k].bind = b]

\* The recovering process makes the attempt its own, in a generation of its own.
TakeOver(d, k, n) ==
    LET b == [d.task[k].bind EXCEPT !.owner = n, !.gen = @ + 1]
    IN  [d EXCEPT !.task[k].bind = b,
                  !.token.bind = b,
                  !.idem = [r \in Request |->
                              IF r = d.task[k].req THEN [d.idem[r] EXCEPT !.bind = b]
                              ELSE d.idem[r]]]

\* Is this row the request of the attempt that merged its task?
OwnRequest(d, r) ==
    LET t == d.task[Asks[r]]
    IN  t.req = r /\ t.bind = d.idem[r].bind

\* (Faults: what is not open again is finished; only what is merged is settled.)
ReconciledEagerly(d, r) ==
    IF d.idem[r].status # "INFLIGHT" THEN d.idem[r]
    ELSE IF d.task[Asks[r]].state \in {"OPEN", "DONE"} THEN [d.idem[r] EXCEPT !.status = "RETRYABLE"]
    ELSE [d.idem[r] EXCEPT !.status = "DONE"]
ReconciledMergedOnly(d, r) ==
    IF d.idem[r].status = "INFLIGHT" /\ OwnRequest(d, r) /\ d.task[Asks[r]].state = "MERGED"
    THEN [d.idem[r] EXCEPT !.status = "DONE"]
    ELSE d.idem[r]

\* _recover_split_idempotency: what was merged is DONE, what was not may be
\* tried again, and what is still open stays.
Reconciled(d, r) ==
    LET t == d.task[Asks[r]]
    IN  IF d.idem[r].status = "INFLIGHT" /\ t.state = "MERGED" /\ OwnRequest(d, r)
        THEN [d.idem[r] EXCEPT !.status = "DONE"]
        ELSE IF d.idem[r].status = "INFLIGHT" /\ t.state \in {"OPEN", "DONE"}
        THEN [d.idem[r] EXCEPT !.status = "RETRYABLE"]
        ELSE d.idem[r]

ReconcileRequests(d) ==
    [d EXCEPT !.idem = [r \in Request |-> Reconciled(d, r)]]

\* What becomes of the task that is CONNECTING (the token allows one): it
\* stays when Git cannot be asked, goes forward when its trailer is there, and
\* otherwise back, once the worktree is proven to be where it was.
RecoverTask(d, k, n, answers) ==
    LET t == TakeOver(d, k, n)
    IN  CASE ~Bound(d, k) -> d
          [] Bound(d, k) /\ ~answers -> t
          [] Bound(d, k) /\ answers /\ Landed(d.task[k].bind.attempt) -> Forward(t, k)
          [] OTHER -> Back(t, k)

Connecting == {k \in Task : task[k].state = "CONNECTING"}

\* The attempt that recovery would roll back.
RolledBack == {k \in Connecting : Bound(DB, k) /\ ~Landed(task[k].bind.attempt)}

\* _abort_and_verify: the branch is where the attempt found it, and after a
\* merge --abort no merge is in progress and no tracked file is changed.  A
\* recovery that cannot prove it raises, which undoes all it did: there is no
\* recovery then until others have put the worktree right.
RollbackProvable ==
    \A k \in RolledBack : Len(git) = task[k].base /\ tree # "wrecked"

\* (Fault: recovery rolls back whatever its dead owner did not finish.)
RecoveredBackwards(n, answers) ==
    IF Connecting = {} \/ ~answers THEN ReconcileRequests(DB)
    ELSE LET k == CHOOSE k \in Connecting : TRUE
         IN  ReconcileRequests(Back(TakeOver(DB, k, n), k))

Recovered(n, answers) ==
    ReconcileRequests(
        IF Connecting = {} THEN [DB EXCEPT !.token = NoToken]
        ELSE RecoverTask(DB, CHOOSE k \in Connecting : TRUE, n, answers))

\* What a recovery needs and what it does to the worktree.
Recovers(answers) ==
    /\ lock = NoProcess
    /\ answers => RollbackProvable
    /\ answers \/ \A k \in Connecting : task[k].bind.gen < MaxTakeovers
    /\ tree' = IF answers /\ RolledBack # {} THEN "clean" ELSE tree

\* The constructor of a process, which tries once and goes on without.
Recover(p, answers) ==
    /\ proc[p].pc = "idle"
    /\ Recovers(answers)
    /\ UNCHANGED <<synced, git, child, lock, proc, attempts, deaths, saw>>
    /\ Store(Recovered(proc[p].inst, answers))

-----------------------------------------------------------------------------
\* connect()

\* It takes the effect lock, recovers before it does anything else, and then
\* looks its request id up in a critical section of its own.  Nothing that can
\* happen between the two is able to tell them from one step: a process that
\* dies there has done a Recover.
Status(d, r) == IF r = NoRequest THEN "NONE" ELSE d.idem[r].status

SetRow(d, r, row) == IF r = NoRequest THEN d.idem ELSE [d.idem EXCEPT ![r] = row]

\* The request id is finished, or in flight for an attempt nobody could
\* settle yet; or the task is merged already, which a new id may cache.
Replay(p, k, r, answers) ==
    LET d == Recovered(proc[p].inst, answers)
    IN  /\ proc[p].pc = "idle"
        /\ r # NoRequest => Asks[r] = k
        /\ Recovers(answers)
        /\ \/ Status(d, r) \in {"DONE", "INFLIGHT"} /\ Store(d)
           \/ /\ Status(d, r) \in {"NONE", "RETRYABLE"} /\ d.task[k].state = "MERGED"
              /\ Store([d EXCEPT !.idem = SetRow(d, r, [NoRow EXCEPT !.status = "DONE"])])
        /\ UNCHANGED <<synced, git, child, lock, proc, attempts, deaths, saw>>

Reserve(p, k, r, answers) ==
    LET d == Recovered(proc[p].inst, answers)
    IN  /\ proc[p].pc = "idle"
        /\ r # NoRequest => Asks[r] = k
        /\ Recovers(answers)
        /\ Status(d, r) \in {"NONE", "RETRYABLE"} /\ d.task[k].state # "MERGED"
        /\ Store([d EXCEPT !.idem = SetRow(d, r, [NoRow EXCEPT !.status = "INFLIGHT"])])
        /\ lock' = p
        /\ proc' = [proc EXCEPT ![p] = [@ EXCEPT !.pc = "reserved", !.task = k, !.req = r]]
        /\ UNCHANGED <<synced, git, child, attempts, deaths, saw>>

Leave(p) ==
    /\ lock' = NoProcess
    /\ proc' = [proc EXCEPT ![p] = Idle(@.inst)]

\* (Fault: the log is read from the generation after the next.)
GhostsLate(k) ==
    IF synced[k] = -1 THEN {}
    ELSE {log[g] : g \in synced[k] + 2 .. Len(log)} \cap (Reads[k] \ {k})

\* _ghost_reads: the merges since k's reads were synchronised that touch them.
Ghosts(k) ==
    IF synced[k] = -1 THEN {}
    ELSE {log[g] : g \in synced[k] + 1 .. Len(log)} \cap (Reads[k] \ {k})

\* Phase A refuses: an attempt that is not settled, leases that are gone, a
\* read set that is stale, a token somebody else holds, or a Git that cannot
\* say what the branch changed.  The request id is free again.
Refuse(p) ==
    /\ proc[p].pc = "reserved"
    /\ idem' = SetRow(DB, proc[p].req, NoRow)
    /\ Leave(p)
    /\ UNCHANGED <<task, token, held, log, synced, git, tree, child, attempts, deaths, saw>>

\* The trip of a barrier, which has no request id, does not look at the reads.
Admissible(k, r) ==
    /\ task[k].state = "DONE"
    /\ held[k]
    /\ Ghosts(k) = {} \/ (ByBarrier /\ r = NoRequest)
    /\ token = NoToken

Prepare(p) ==
    LET k == proc[p].task
        r == proc[p].req
        b == [attempt |-> attempts + 1, owner |-> proc[p].inst, gen |-> task[k].bind.gen + 1]
    IN  /\ proc[p].pc = "reserved"
        /\ attempts < MaxAttempts
        /\ Admissible(k, r)
        /\ attempts' = attempts + 1
        /\ task' = [task EXCEPT ![k] = [state |-> "CONNECTING", bind |-> b, req |-> r,
                                        base |-> Len(git)]]
        /\ \E own \in {TRUE} \cup (IF ForeignCaller THEN {FALSE} ELSE {}) :
              token' = [task |-> k, own |-> own, bind |-> b]
        /\ idem' = SetRow(DB, r, [status |-> "INFLIGHT", bind |-> b])
        /\ proc' = [proc EXCEPT ![p] = [@ EXCEPT !.pc = "prepared", !.bind = b]]
        /\ UNCHANGED <<held, log, synced, git, tree, child, lock, deaths, saw>>

-----------------------------------------------------------------------------
\* Phase B, outside the lock

\* Others moved the branch between the audit and the merge.
FindDrift(p) ==
    /\ proc[p].pc = "prepared"
    /\ Len(git) # task[proc[p].task].base
    /\ proc' = [proc EXCEPT ![p] = [@ EXCEPT !.pc = "merged", !.err = "drift"]]
    /\ UNCHANGED <<task, token, held, idem, log, synced, git, tree, child, lock, attempts,
                   deaths, saw>>

StartMerge(p) ==
    /\ proc[p].pc = "prepared"
    /\ Len(git) = task[proc[p].task].base
    /\ tree' = "merging"
    /\ child' = proc[p].bind.attempt
    /\ proc' = [proc EXCEPT ![p].pc = "merging"]
    /\ UNCHANGED <<task, token, held, idem, log, synced, git, lock, attempts, deaths, saw>>

\* The Git process commits, on whatever is the tip by now.
Land ==
    /\ child # 0 /\ tree = "merging"
    /\ \E k \in Connecting :
          /\ task[k].bind.attempt = child
          /\ git' = Append(git, [task |-> k, attempt |-> child])
    /\ tree' = "clean"
    /\ UNCHANGED <<task, token, held, idem, log, synced, child, lock, proc, attempts, deaths, saw>>

\* The Git process ends: done, refused and aborted, or killed for taking too
\* long, be it after it had committed.  It then leaves the merge in progress
\* behind, or what no abort undoes: an index.lock, a half-written tree, files
\* the check has changed.  If its process is gone, so is the last descriptor
\* of the effect lock.  What it reports is left open: Phase C asks Git.
ChildEnds(left) ==
    /\ child # 0
    /\ tree = "clean" => left = "clean"
    /\ child' = 0
    /\ tree' = left
    /\ IF lock \in Process /\ proc[lock].pc = "merging"
       THEN /\ proc' = [proc EXCEPT ![lock] = [@ EXCEPT !.pc = "merged"]]
            /\ UNCHANGED lock
       ELSE /\ lock' = NoProcess
            /\ UNCHANGED proc
    /\ UNCHANGED <<task, token, held, idem, log, synced, git, attempts, deaths, saw>>

-----------------------------------------------------------------------------
\* Phase C

\* The attempt is still this process's, in the task, the token, the leases
\* and the request's row.
Owns(p) ==
    LET k == proc[p].task
        r == proc[p].req
    IN  /\ task[k].state = "CONNECTING" /\ task[k].bind = proc[p].bind
        /\ token.task = k /\ token.bind = proc[p].bind
        /\ held[k]
        /\ r # NoRequest => idem[r] = [status |-> "INFLIGHT", bind |-> proc[p].bind]

\* Git decides, not what the merge reported: the trailer is there.
Succeed(p) ==
    /\ proc[p].pc = "merged"
    /\ Owns(p)
    /\ Landed(proc[p].bind.attempt)
    /\ Store(Forward(DB, proc[p].task))
    /\ proc' = [proc EXCEPT ![p] = [@ EXCEPT !.pc = "settled", !.err = "ok"]]
    /\ UNCHANGED <<synced, git, tree, child, lock, attempts, deaths, saw>>

\* It is not there, and either nothing was tried or the worktree is proven to
\* be where it was: the task can be connected again.
Fail(p) ==
    /\ proc[p].pc = "merged"
    /\ Owns(p)
    /\ ~Landed(proc[p].bind.attempt)
    /\ \/ proc[p].err = "drift" /\ UNCHANGED tree
       \/ proc[p].err # "drift" /\ Len(git) = task[proc[p].task].base
          /\ tree # "wrecked" /\ tree' = "clean"
    /\ Store(Back(DB, proc[p].task))
    /\ proc' = [proc EXCEPT ![p] = [@ EXCEPT !.pc = "settled", !.err = "failed"]]
    /\ UNCHANGED <<synced, git, child, lock, attempts, deaths, saw>>

\* The attempt is not this process's any more, or Git cannot prove either:
\* nothing is touched, and recovery has the attempt and its request id.
Abandon(p) ==
    /\ proc[p].pc = "merged"
    /\ Leave(p)
    /\ UNCHANGED <<task, token, held, idem, log, synced, git, tree, child, attempts, deaths, saw>>

\* The request id is finished in a critical section of its own.
Complete(p) ==
    LET r == proc[p].req
    IN  /\ proc[p].pc = "settled"
        /\ idem' = IF r # NoRequest /\ idem[r] # [status |-> "INFLIGHT", bind |-> proc[p].bind]
                   THEN idem
                   ELSE SetRow(DB, r, IF proc[p].err = "ok" THEN [idem[r] EXCEPT !.status = "DONE"]
                                  ELSE NoRow)
        /\ Leave(p)
        /\ UNCHANGED <<task, token, held, log, synced, git, tree, child, attempts, deaths, saw>>

-----------------------------------------------------------------------------
\* What happens around a connect

\* A process dies, or leaves the call by an exception (a leader that was
\* deposed finds out in its next critical section).  A Git process of its
\* own may live on, and the effect lock with it.
Die(p) ==
    /\ deaths < MaxDeaths
    /\ proc[p].pc # "idle"
    /\ deaths' = deaths + 1
    /\ proc' = [proc EXCEPT ![p] = Idle(Cardinality(Process) + deaths + 1)]
    /\ lock' = IF proc[p].pc = "merging" THEN lock ELSE NoProcess
    /\ UNCHANGED <<task, token, held, idem, log, synced, git, tree, child, attempts, saw>>

\* Somebody commits to the integration branch past the coordinator.
Drift ==
    /\ Cardinality({i \in DOMAIN git : git[i] = Foreign}) < MaxDrift
    /\ git' = Append(git, Foreign)
    /\ UNCHANGED <<task, token, held, idem, log, synced, tree, child, lock, proc, attempts,
                   deaths, saw>>

\* Somebody puts a worktree right that no recovery can prove anything about.
Repair ==
    /\ tree = "wrecked" /\ child = 0
    /\ tree' = "clean"
    /\ UNCHANGED <<task, token, held, idem, log, synced, git, child, lock, proc, attempts,
                   deaths, saw>>

\* The sweep takes the leases, pinned or not, of a silent agent that claimed
\* for a task another agent runs (see Orbits).
LoseLeases(k) ==
    /\ k \in ForeignClaims
    /\ held[k] /\ task[k].state = "CONNECTING"
    /\ held' = [held EXCEPT ![k] = FALSE]
    /\ UNCHANGED <<task, token, idem, log, synced, git, tree, child, lock, proc, attempts,
                   deaths, saw>>

\* An agent claims the write leases of a task, works on it and finishes it.
Work(k) ==
    /\ task[k].state = "OPEN"
    /\ task' = [task EXCEPT ![k].state = "DONE"]
    /\ held' = [held EXCEPT ![k] = TRUE]
    /\ UNCHANGED <<token, idem, log, synced, git, tree, child, lock, proc, attempts, deaths, saw>>

\* A read claim is granted while nobody holds a lease on what it reads.  It
\* stamps the generation, unless it was granted out of the queue.
ClaimRead(k) ==
    /\ synced[k] = -1
    /\ Reads[k] # {} /\ task[k].state = "OPEN"
    /\ \A j \in Reads[k] \ {k} : ~held[j]
    /\ \E stamp \in {Len(log)} \cup (IF QueuedRead THEN {-1} ELSE {}) :
          synced' = [synced EXCEPT ![k] = stamp]
    /\ saw' = [saw EXCEPT ![k] = {NoTask} \cup MergedInGit]
    /\ UNCHANGED <<task, token, held, idem, log, git, tree, child, lock, proc, attempts, deaths>>

\* read_refresh(): the agent rebased and says so.
Refresh(k) ==
    /\ held[k] /\ Reads[k] # {}
    /\ synced' = [synced EXCEPT ![k] = Len(log)]
    /\ saw' = [saw EXCEPT ![k] = IF NoTask \in @ THEN @ \cup MergedInGit ELSE @]
    /\ UNCHANGED <<task, token, held, idem, log, git, tree, child, lock, proc, attempts, deaths>>

-----------------------------------------------------------------------------
Step(p) ==
    \/ Refuse(p) \/ Prepare(p) \/ FindDrift(p) \/ StartMerge(p)
    \/ Succeed(p) \/ Fail(p) \/ Abandon(p) \/ Complete(p)

GitEnds == \E left \in TreeState : ChildEnds(left)

Next ==
    \/ \E p \in Process, answers \in BOOLEAN : Recover(p, answers)
    \/ \E p \in Process, k \in Task, r \in Request \cup {NoRequest}, answers \in BOOLEAN :
          Replay(p, k, r, answers) \/ Reserve(p, k, r, answers)
    \/ \E p \in Process : Step(p)
    \/ Land
    \/ GitEnds
    \/ \E p \in Process : Die(p)
    \/ Drift
    \/ Repair
    \/ \E k \in Task : LoseLeases(k)
    \/ \E k \in Task : Work(k)
    \/ \E k \in Task : ClaimRead(k)
    \/ \E k \in Task : Refresh(k)

Spec == Init /\ [][Next]_vars

\* What recovery would settle now if Git answered.
RecoveryDue ==
    /\ lock = NoProcess
    /\ RollbackProvable
    /\ \E p \in Process : proc[p].pc = "idle" /\ Recovered(proc[p].inst, TRUE) # DB

\* Every call comes to an end or to its merge, and every Git process ends (the
\* merge and the check have timeouts).  Processes and connects keep coming for
\* which Git answers: strong fairness of such a recovery, with its enabling
\* condition written out.
Fairness ==
    /\ \A p \in Process : []<>(proc[p].pc \in {"idle", "merging"})
    /\ []<>(child = 0)
    /\ <>[]~RecoveryDue \/ []<><<\E p \in Process : Recover(p, TRUE)>>_vars

FairSpec == Spec /\ Fairness

-----------------------------------------------------------------------------
\* Properties

TypeOK ==
    /\ task \in [Task -> TaskRow]
    /\ token \in [task : Task \cup {NoTask}, own : BOOLEAN, bind : Binding]
    /\ held \in [Task -> BOOLEAN]
    /\ idem \in [Request -> IdemRow]
    /\ log \in Seq(Task)
    /\ synced \in [Task -> Nat \cup {-1}]
    /\ git \in Seq(Commit)
    /\ tree \in TreeState
    /\ child \in Nat
    /\ lock \in Process \cup {NoProcess}
    /\ proc \in [Process -> ProcRow]
    /\ attempts \in Nat /\ deaths \in Nat
    /\ saw \in [Task -> SUBSET (Task \cup {NoTask})]

\* The database and Git agree.  What the database calls MERGED is in the
\* integration branch, and what is in the branch is MERGED or still owed: a
\* merge that landed is never rolled back, whoever dies, times out or takes
\* over, and no task lands twice.
TwoStoresAgree ==
    /\ \A k \in Task : task[k].state = "MERGED" => Landed(task[k].bind.attempt)
    /\ \A i \in DOMAIN git : git[i] # Foreign =>
          LET t == task[git[i].task]
          IN  t.state \in {"CONNECTING", "MERGED"} /\ t.bind.attempt = git[i].attempt
    /\ \A i, j \in DOMAIN git : i # j /\ git[i] # Foreign => git[i].task # git[j].task

\* Every merge is in the merge log once, also when recovery found it: this is
\* what makes the log an authority for reads.
LogIsComplete ==
    /\ \A k \in Task : task[k].state = "MERGED" <=> \E g \in DOMAIN log : log[g] = k
    /\ IsInjective(log)

\* A request id that is DONE merged its task, and one that is bound to an
\* attempt that merged is that attempt's own, so that a retry with the same id
\* is answered with what the id itself did.
RequestsTellTheTruth ==
    /\ \A r \in Request : idem[r].status = "DONE" => task[Asks[r]].state = "MERGED"
    /\ \A r \in Request :
          /\ idem[r].status = "INFLIGHT" /\ idem[r].bind # Unbound
          /\ task[Asks[r]].state = "MERGED"
          => OwnRequest(DB, r)

\* Nothing is merged on top of a change it did not read: when a task that
\* claimed its reads lands, its agent had seen every merge that touches them.
NoGhostMerge ==
    [][\A k \in MergedInGit' \ MergedInGit :
          NoTask \in saw[k] => Reads[k] \cap MergedInGit \subseteq saw[k] \cup {k}]_vars

\* Every attempt is settled (there is one at a time), in spite of deaths, of
\* timeouts and of a Git that cannot be asked for a while, unless its rollback
\* cannot be proven: because others moved the branch under it, or its merge left
\* a worktree that no abort cleans.  Once somebody has put that worktree right,
\* the attempt is settled.
AttemptsSettle ==
    Connecting # {} ~> (Connecting = {} \/ Foreign \in Range(git) \/ tree = "wrecked")

\* So is every request id that was bound to an attempt, with the same exception.
\* (One that was reserved while another attempt could not be settled, and then
\* lost its process, is never settled: see the README.)
RequestsSettle ==
    \A r \in Request : (idem[r].status = "INFLIGHT" /\ idem[r].bind # Unbound) ~>
        (idem[r].status # "INFLIGHT" \/ Foreign \in Range(git) \/ tree = "wrecked")
=============================================================================
