# A verified model of the OMD coordinator

OMD coordinates agents that work on one repository in parallel. An agent *claims* an
*orbit*, a lease on a set of paths; conflicting claims queue; when a task is done a
*connect* merges its branch into the integration branch. The whole state is one SQLite
database, and one class, `Coordinator` (`src/omd_server/core.py`), is its only writer.

This directory holds TLA+ modules translated from that code, TLC configurations that
check them on small instances, and TLAPS proofs for every instance. Line numbers refer to
files under `src/omd_server/`; the exact correspondence of every definition is the `map`
of `PROJECT.json`.

- [What the system consists of](#what-the-system-consists-of)
- [The modules](#the-modules)
- [The runs](#the-runs)
- [Where the code and its documentation disagree](#where-the-code-and-its-documentation-disagree)
- [The proofs](#the-proofs)
- [Abstractions](#abstractions)
- [Not modelled](#not-modelled)
- [Plan](#plan)

## What the system consists of

Every public verb of the coordinator runs in `_cs` (core.py 1071): a re-entrant lock
within the process and `BEGIN IMMEDIATE` between processes. So a verb is atomic, with all
the sweeping it does, and interleaving happens between verbs. What is *not* atomic is what
has several critical sections (`connect`, `begin`, `complete_task`, a barrier trip, the
delivery of a notification) and everything time does between two verbs.

| component | state | operations | interacts with | what is hard | what makes it correct |
|---|---|---|---|---|---|
| admission kernel (admission.py) | none | compatibility, conflict, effective priority, rank, grant or wait | called by claim and promotion | aging reverses ranks between two verbs | grants conflict with nothing that is held or outranks them |
| lease authority (core.py, store.py, fsm.py) | `orbits`, `agents`, the counters `seq` and `fence` | claim, renew, release, cancel_wait, rollover_claim, heartbeat, bail, sweep, zombie reclaim | tasks (requeue, cancel), connect (pins), flags and barriers (their orbits) | five reconciliation stages in one pass, each of which changes what the next sees; silence, late renewals, wait cycles | exclusion, fencing order, no overtaking, no lost wakeup, no deadlock, no starvation |
| connect (core.py, gitio.py) | the merge token, pins, the attempt columns of `tasks`, the integration branch | Phase A, merge outside the lock, Phase C, recovery | leases, tasks, read coherence, idempotency, Git | the merge runs while every other verb may; a crash between the phases; two processes | the leases stay held while the merge runs; the database agrees with Git |
| task board (core.py, task_state.py) | `tasks`, dependencies | declare, depend, next_task, start, finish, cancel, begin, complete_task | leases, connect, flags, garbage collection | begin in several critical sections; requeues | a dependent starts after what it depends on; no task is lost |
| leader lease (core.py, store.py) | the row `leader_lease`, `leader_epoch` per process | acquire, heartbeat, guard, resign | the guard of every verb | paused leaders that wake up, reused labels, different ttls | one writer |
| read coherence (core.py, store.py) | integration generation, merge log, stale marks | merge, read_refresh, ghost-read check | connect, leases | a merge between a read and the connect built on it | no connect on a stale read set |
| request idempotency (core.py, store.py) | the table of request ids | every verb that takes a request id | all verbs; split-phase with connect | a retry meets its first attempt in flight, finished or half done | one effect per request id |
| notification outbox (core.py, store.py) | the outbox rows, delivery claims, the registry of delivery threads | enqueue, dispatch, claim, deliver, acknowledge, retry, flush, close | every transition of an orbit; external sink | a crash between delivery and acknowledgement; deliveries that hang or answer late; a closed or deposed coordinator whose threads live on | at least once, in order per stream; a closed coordinator is silent |
| barriers (_barriers.py) | barriers, parties, generations | declare, arrive, trip, abort, consume | connect, agents, tasks, write leases | arrivals, deaths and timeouts across generations; the trip runs outside the lock; a crash in its middle | TRIPPED means all merged; a trip merges only what it still owns; nobody waits for ever |
| semaphores (_sems.py) | permits (as orbits), waiters | declare, acquire, poll, release | sweep, agents | a permit comes back in five ways, and waiters only poll | no grant above the maximum or out of order; no free slot while somebody waits |
| flags (_flags.py) | flags, waiters | set, clear, wait, poll | leases of their producers, connect | producer dies while others wait | latches only rise; waiters learn of a broken flag |
| terminal garbage collection (store.py) | archive tables | archive by age | tasks, orbits | something still refers to what is archived | nothing live refers to it |
| glob overlap, candidate index (disjoint.py, candidate_index.py) | an index of literal prefixes | overlap, candidates | claim, connect audit | the prefilter must not lose an overlap | candidates contain every overlap |
| versioned admission contract (admission_contract.py, admission_config.py) | none | assertion over decided events | claim, promotion | - | agrees with the decision it checks |
| Git adapter (gitio.py) | the repository | subprocess calls | connect, recovery | timeouts, children that outlive their parent | external |
| server, CLI, workers (server.py, cli.py, merge_cli.py) | threads | transport; the periodic sweep and heartbeat | coordinator | start and stop order | external |
| observability, harness, reports | logs | - | - | - | changes no state of the coordinator |

`PROJECT.json` lists for each component what is modelled, and under `hazards` every place
where the code is hard to test, with the property that would notice.

## The modules

```
Admission ── Boards ─┬─ Orbits ─┬─ MCOrbits
    │                │          └─ Orbits_proofs ── Pins_proofs ── Queue_proofs
    │                └─ PromotionWalk ─┬─ MCPromotionWalk
    └─ LeaseAuthority                  └─ PromotionWalk_proofs
       (refined by Orbits)

Connect ─┬─ MCConnect            Semaphores ┐
         └─ Connect_proofs       Flags      ├─ Primitives ─┬─ MCPrimitives
                                 Barriers   ┘              └─ Primitives_proofs
LeaderLease ─┬─ MCLeaderLease
             └─ LeaderLease_proofs       Outbox ─┬─ MCOutbox
                                                 └─ Outbox_proofs
```

**Admission** is admission.py without its envelopes: which modes go together
(`modes_compatible`), when two rows conflict (`exact_conflict`), how waiting raises a
priority (`effective_priority`: one step per quantum, capped), the rank order of the queue
(`rank_key`) and what blocks a row (`decide_admission`: conflicting leases, and conflicting
requests that outrank it).

**Boards** is what happens *inside* a critical section, as operators from a board (the
tables of the transaction) to the board, or the set of boards, left behind. `Reconcile` is
`_reconcile_admission`: expire leases that ran out unless pinned; retire silent agents
unless their merge is running; deny requests past their deadline; break wait cycles;
promote. `Settle` is the same without the reclaim (`reclaim=False`, used by bail). `Admit`
is the decision of `claim`: duplicate, grant, full queue, own cycle, queue. `Retire` is
`_reclaim_agent_inline`, shared by bail and zombie reclaim.

**Orbits** is the state machine: one action per verb (`Claim`, `Renew`, `Release`,
`CancelWait`, `CancelTask`, `Start`, `Finish`, `Heartbeat`, `Bail`, `Sweep`), the two
critical sections of connect (`BeginConnect` is Phase A; `EndConnect` is Phase C, or
recovery when nothing is running), `StopConnect` (the process died, or Phase C decided
nothing), and the clock. `token` and `running` tell the three states of a connect apart:
none (`token = NoTask`), in its merge (`running`), stopped and waiting for recovery.
Details of the code that the actions keep because the properties notice them:

- `renew` does not sweep, so a lease past its expiry is renewed if no sweep met it;
- `claim` sweeps before it looks at the caller and may thereby retire the caller;
- `claim` refuses a task that is not OPEN before it sweeps (the task gate);
- `bail` reconciles without reclaiming other silent agents, and waits for the effect lock;
- `finish` without an agent neither touches an agent nor checks a lease;
- Phase A checks the state of the task last, so a connect of a task that was never started
  costs a fencing token (`ConnectTooEarly`).

A verb that is refused changes at most what `Heartbeat`, `Sweep` or `ConnectTooEarly`
change, so refusals need no action of their own.

**LeaseAuthority** is the promise to the owner of a protected resource: a set of live
leases that never conflict, whose tokens are distinct and always new. Everything else
(queues, deadlines, agents, tasks, merges) is stuttering. `Orbits` implements it under the
mapping `live <- held rows`, `top <- fence`.

**PromotionWalk** is `_promote_pending` row by row, as the code writes it: rank once, then
decide each row against the tables the earlier grants left. It justifies the one-step
`Promote` of Boards: the two agree on the boards of a run, and by a theorem on all.

**LeaderLease** is the singleton of section D14: processes that start (`Acquire`), keep the
row alive (`Heartbeat`), resign or crash, and the guard `Leads` (`_assert_leader`) of every
verb. A *place* runs one process at a time, and several places may share a label
(`coordinator_id` is a label operators reuse). A pause is simply a process that takes no
step. The row's `last_heartbeat` is kept as an age, capped above every ttl, so that time
needs no bound. The MCP server runs with the singleton switched off (server.py 299-301), so
that its processes are ordered by SQLite only; what `Orbits` says does not depend on it.

**Connect** is the merge as an attempt that two stores must agree on: the database and the
integration branch, which no transaction spans. The state is the part of the `tasks` row
that a connect uses, the merge token, the idempotency rows, the merge log and the read
generations, beside Git (`git`, a sequence of commits each with its attempt's trailer;
`tree`, a worktree that is clean, in the middle of a merge, or
wrecked), the Git child (`child`), the effect lock and
what each process is doing. One action per critical section and per thing Git can do:
`Recover`, `Replay`, `Reserve` (the request id), `Refuse` and `Prepare` (Phase A),
`FindDrift`, `StartMerge`, `Land`, `ChildEnds` (Phase B), `Succeed`, `Fail`, `Abandon`,
`Complete` (Phase C), and around them `Die`, `Drift`, `Repair`, `LoseLeases`, `Work`,
`ClaimRead`, `Refresh`. What matters there:

- the effect lock is a file lock whose descriptor the Git children inherit: a process that
  dies while its child runs leaves the lock *taken* (`Die`, `ChildEnds`), which is what
  keeps a successor from rolling back a merge that may still land;
- Phase C asks Git for the trailer and does not believe what the merge reported, so a merge
  that landed and was then killed for its time succeeds;
- a rollback needs a proof (`RollbackProvable`, gitio.py 524-561): the branch is where the
  attempt found it, and after a `merge --abort` no merge is in progress and no tracked file
  is changed. A merge in progress (`"merging"`) can be aborted; a killed Git process may also
  leave what cannot (`"wrecked"`: an index.lock, a half-written tree, files the check
  changed). Without the proof Phase C keeps the attempt (`Abandon`), and recovery *raises*
  (core.py 3189-3196), at a start, in a connect and in the sweep, and undoes what it did. So
  there is no recovery until somebody puts the worktree right by hand (`Repair`);
- recovery makes the attempt its own in a new owner generation in the task, the token and
  the request's row at once (`TakeOver`), before it asks Git.

It covers the connect protocol, the request ids that span its phases (`_complete_split_idem`,
`_recover_split_idempotency`) and the read coherence rule D12 (`Ghosts`).

**Outbox** is the delivery of notifications. Rows are claimed under a token by a dispatcher
thread, of which a coordinator has one of its timer and one that flushes; each delivery runs
in a thread of its own, and the registry (`tries`) holds those nobody has collected, alive,
answered late or hanging. `Claim` and `Settle` are the two critical sections of
`_drain_admission_outbox`; `EffectEnds` is the sink's answer, whenever it comes; `Start`,
`Crash`, `BeginClose`, `FinishClose` are coordinators in succession, of which the last one
leads and the others notice it in their next critical section (`Conflict`). A *plan* says
what the notifications are of, which ones the sink never accepts, how large the registry is
and how the coordinators are run; it is chosen at the start and never changes.

**Semaphores**, **Flags** and **Barriers** are operators from the rows of one semaphore, flag
or barrier to what a call leaves. A permit and an EPHEMERAL flag are leases, and a lease that
ran out stays `"due"` until somebody sweeps; a heartbeat, which does not sweep, renews it
even then. A barrier's `World` is its row, the task rows of its members and the *driver*, the
trip, the connect or the orphaned Git process that holds the effect lock. The trip itself is a
sequence of critical sections (`MemberStarts`, the end of a merge, `TripEnds`, `TripRaises`),
so that abort(), a new declaration, the loss of a lease or a crash may come between any two.
What decides when a trip that lost its driver is settled:

- a merge ends well, fails, or *stops* without a proof of either (`MergeStops`, core.py
  5897-5951): then its task stays CONNECTING and the merge token taken, and until a recovery
  settles it no other merge can start (`TokenFree`);
- `Recoveries` is what a recovery may leave. While an attempt is unresolved, because Git did
  not answer, barriers are left alone (3241); a trip whose members are all MERGED stays
  TRIPPING while Git does not confirm them (3301-3307); and where a rollback is not proven
  (`wedged`; Connect says when that happens) there is none, because it raises;
- a coordinator that dies may leave its Git process behind, with the lock (`"orphan"`). The
  next process then starts *without* recovering (`Restart`, 2920-2926);
- every later `sweep()` tries again (4862-4867): it takes the effect lock if it is free and
  recovers before it sweeps. The periodic worker calls this very method (913). The sweep that
  other calls begin with (`_sweep_inline`; here `Status` and `Bar!Swept`) does not recover.

**Primitives** composes them: one coordinator, the agents that die, the sweep that most calls
begin with, the heartbeat and time, each acting on all three at once (`OthersSwept`,
`Heartbeat`, `Reclaim`). A behaviour has a `focus`, the one of the three that clients call.

## The runs

| run | module | states | checks |
|---|---|---|---|
| orbits_connect | MCOrbits | 427,774 | types, exclusion, reclaim, pins, with two tasks, one of which may have two leases |
| orbits_busy | MCOrbits | 927,228 | queue bound, fencing order, wakeups, refinement of LeaseAuthority, with three rows |
| orbits_queue | MCOrbits | 602,184 | overtaking, late grants, cycles, one-sweep fixpoint, with aging |
| orbits_live | MCOrbits | 131,994 | liveness of waiting and of silence |
| promotion | MCPromotionWalk | 329,920 | the walk equals the one-step promotion |
| leader | MCLeaderLease | 2,114 | one writer, prompt leaders stay, orphaned leases end |
| connect | MCConnect | 444,592 | the two stores agree, the log is complete, request ids tell the truth, no ghost merge, everything settles |
| outbox | MCOutbox | 237,240 | nothing lost, order, bounded registry, silence after close, everything heard |
| primitives | MCPrimitives | 298,482 | semaphores, flags and barriers: types, slots, grants, signals, trips |
| orbits_foreign | MCOrbits | (violated) | the pin, when an agent starts what another claimed |
| orbits_rollback | MCOrbits | (violated) | the retry promised after a failed merge |
| connect_ghost | MCConnect | (violated) | the ghost-read check, when a read claim waited in the queue |

What the properties say of the code:

- `Singulon`: conflicting leases are never held at once.
- `HolderHasNewestFence`: the holder's token is above that of every conflicting lease ever
  granted, so a resource that refuses old tokens refuses every former holder. One counter
  feeds leases and merge tokens in several places of one pass.
- `ImplementsAuthority`: the same promise as a refinement, over whole behaviours.
- `RetiredOwnsNothing`: nothing survives a reclaim, and nothing is given to the reclaimed
  afterwards, not even by the claim in the middle of which it was reclaimed.
- `PinsAccountedFor`, `PinProtects`: pins, the merge token and the task's state agree, and
  while a merge runs outside the lock no verb takes away the leases it relies on.
- `QueueBounded`: the capacity holds although a claim sweeps, promotes and denies first.
- `NoOvertaking`: no grant passes a conflicting, higher-ranked request that waited before the
  step and still waits after it. A claim's own request is not among them: the sweep the claim
  begins with may grant a lease that the newcomer, had it been there, would have outranked.
- `GrantsOnlyTheLiving`: a request of a silent owner or past its deadline is not granted,
  whichever verb reconciles.
- `NoDeadlockLeftBehind`: no wait cycle is left by a step that moves a row, including the
  cycle that is closed by a claim that is *granted*.
- `SweepSettles`: one sweep reaches a fixpoint and leaves no cycle.
- `WakesWaiters`: a step that ends a lease also grants what it unblocked, to every owner that
  was heard from when the step looked. A claim sweeps before it counts as a sign of life
  (`_sweep_inline`, then `upsert_agent`), so its own silent caller is not served by it.
- `WaitsEnd`, `SilenceIsNoticed`: every request is answered; a silent agent is reclaimed.
- `WalkAgrees`: the row-by-row loop and `Promote` agree, tokens included.
- `OnlyTheLastWrites`, `PromptLeaderStays`, `OrphanedLeaseEnds`: see LeaderLease.
- `TwoStoresAgree`: what the database calls MERGED is in Git, what is in Git is MERGED or
  still owed by the very attempt whose trailer it carries, and nothing lands twice, whoever
  dies, times out or takes over in between.
- `LogIsComplete`: every merge is in the merge log once, also one that recovery found.
- `RequestsTellTheTruth`: a request id that is DONE merged its task; a retry of an id in
  flight is answered with what that id did.
- `NoGhostMerge`: a task that claimed its reads lands only if its agent had seen every merge
  that touches them.
- `AttemptsSettle`, `RequestsSettle`: no attempt, and no id bound to one, stays open, in
  spite of deaths, of timeouts and of a Git that cannot be asked for a while, with two
  exceptions, in both of which the code stops itself: others have moved the branch, or the
  worktree is wrecked. Whoever puts the worktree right ends the second one: from there on
  the attempt is settled.
- `NothingLost`, `HeardInOrder`, `RegistryBounded`: delivery is at least once and in order,
  and hanging deliveries do not pile up.
- `ClosedIsSilent`: after close() returned nothing of that coordinator reaches the sink.
- `AllIsHeard`: no crash, lost claim, late answer or poisoned stream keeps a healthy
  notification for ever.
- `SlotsAreUsed`, `GrantsInOrder`: whichever way a permit comes back, the head of the queue
  has it when the call is over, and nobody is passed over.
- `SignalsAreHeard`: nobody waits for a signal that has come, or cannot come any more; a
  signal that lives has the lease of an agent that was not reclaimed.
- `TrippedMeansMerged`, `TripIsOwned`: a barrier that reports TRIPPED merged every member;
  a trip merges only while it owns the barrier, with the lease each member arrived with.
- `BarrierSettles`: a barrier with a deadline that breaks on death leaves ARMED, and no trip
  lasts, whoever dies, whether or not the next process finds the lock taken, and though Git
  may long not answer; with the exception of an attempt whose rollback cannot be proven,
  which stops every sweep until somebody has put it right.

Each property has a mutant in `PROJECT.json`: a plausible bug in a mapped definition that
makes TLC find the property violated in the same run. The fault operators stand next to
what they replace, in parentheses, or in a section of their own.

### Bounds

| constant | what it bounds | why it is enough |
|---|---|---|
| agents, cells, tasks: 2 each (1 task in three runs) | who can conflict | conflict, wait and cycle are relations of two; two cells give disjoint, equal, nested and overlapping sets |
| `MaxOrbits` 2 or 3 | rows ever created | a holder, a waiter, and a newcomer that could pass it; terminal rows stay and count |
| `MaxTime` 2 to 4 | the clock | covers the longest ttl, window and wait deadline in use, and for the queue two rank reversals |
| `MaxFence` 2 or 3, 0 in the queue run | connects | a connect draws a token; the queue run has none |
| `MaxWaste` 2 in orbits_busy, else 0 | tokens drawn by connects that are refused | one wasted token on either side of a grant |
| `Capacity` 1 or 2 | the queue | reached in every run of Orbits but the two violations; in orbits_busy a third request meets a full queue |
| `MaxReclaims` 0 | reclaims before POISONED | the limit is met at the first reclaim; requeueing is covered by the proofs, for every value |
| `WaitTimeout`, `AgentTTL`, `Windows`, ttl: 1 to 3 | durations | leases shorter and longer than windows and deadlines, and equal ones; in the queue run the wide lease has ttl 1, so that claims meet leases that have run out |
| `MaxEpoch` 4, three places, two labels, ttl 0, 1, 2 | leaders | a paused leader, a successor, and a third with the first one's label |
| processes 2, tasks 2, request ids 1 (connect) | who meets whom | an attempt and its recovery by another; the second task reads what the first writes; a retry with the id and without |
| `MaxAttempts` 2, `MaxDeaths` 1, `MaxDrift` 1 | attempts, deaths, foreign commits | a first attempt that dies or fails and a second of the same task, or one of each task; the branch moved once |
| `MaxTakeovers` 2 | owner generations of recoveries in vain | a recovery that cannot ask Git, followed by another; recoveries that settle are not bounded |
| `ForeignClaims` {k1} | tasks whose lease may be lost in the merge | the foreign start of orbits_foreign, seen from Phase C |
| coordinators 2, notifications 2, four plans (outbox) | deliveries and failovers | independent streams with a hanging sink, one registry place for two, one stream, and an explicit predecessor before a poisoned one; with and without flushes and close() |
| agents 3, tasks 2, `MaxPermits` 2, `MaxWaits` 3, `MaxConsumers` 2 | the primitives | a holder and two waiters of different priority, a second row of one agent; a consumer served and one broken |
| `MaxFence` 3, `MaxGeneration` 1, `MaxReclaims` 1, `MaxCrashes` 1 | barriers | one new lease between arrival and merge, one new generation, one death, one crash in a trip; how often Git does not answer, a merge stops or a rollback is not proven is not bounded |

A claim needs `now + WaitTimeout <= MaxTime`, so that every deadline lies within the clock
and liveness is not refuted by the end of time. Symmetry over agents (and over cells, where
the requests do not tell them apart) is used in the safety runs only. No run of Orbits
disables the deadlock check: verbs can always be called. The promotion run does, because a
promotion ends. So does connect, where a rollback that cannot be proven because the branch was moved
stops recovery (3191-3196) for good and the bounds can be used up; outbox, where everything may be delivered; and
primitives, where a behaviour may have used up its bounds with the coordinator idle.

### Fairness

`FairSpec` of Orbits assumes that the clock advances and that a sweep that would change
something is not put off for ever. The second is the worker thread of the coordinator
(core.py 903-930), started by default with a period of one second (426-431, server.py
302-304); it catches every error but the loss of leadership and goes on. Nothing is assumed
of agents: none of them ever has to call a verb. `FairSweep` is the weak fairness of
`Sweep` with its enabling condition written out, because TLC would otherwise compute
`ENABLED` from the whole reconciliation in every state. A sweep also recovers, when it finds
the effect lock free, and fails if that raises; `WaitsEnd` and `SilenceIsNoticed` are about
a coordinator with no attempt whose rollback cannot be proven. `FairSpec` of LeaderLease assumes
only that time passes: no process ever has to heartbeat, start or resign.

Connect: every call of a process comes to its end or its merge, every Git child ends (the
merge and the check run with timeouts, gitio.py; one whose coordinator is gone has nobody to
kill it, and that it ends is an assumption), and recoveries keep coming for which Git
answers: the sweep recovers every second if it finds the effect lock free (core.py 4862-4867).
This is strong fairness of a recovery that would change something and whose rollback can be
proven, again with its enabling condition written out. Recoveries in vain are not excluded,
and nobody need ever repair a worktree.

Outbox: the threads of the leading coordinator run, its sweep is periodic where the plan has
one, somebody starts a coordinator when there is none, backoffs and claims run out, and a
sink that is asked again and again answers with success in the end, unless the notification
is poisoned. Crashes need not stop.

Primitives: deadlines pass; a trip goes on (the next member, its end, the end of its merge);
a Git process that was left alone ends, which is an assumption as in Connect; a coordinator
that died is started again, unless a rollback that is not proven makes its constructor raise;
and of the periodic sweeps there is always one more that finds the effect lock free and Git
answering. The last is strong fairness of `LockFree /\ Sweep(TRUE)`: that the lock is free
from time to time follows from the two before it, that the worker meets such a moment and
that Git answers then are assumptions about time and about Git. Sweeps that meet a taken lock or a
silent Git, and starts that skip recovery, are not excluded. Clients owe nothing.

## Where the code and its documentation disagree

**orbits_foreign** (`PinProtects`). The comment at core.py 5690 says that the pin keeps
sweep and reclaim off the orbits of a running connect. The reclaim spares a silent agent
while a task *assigned to* it is merging (2425), but expires the rows that it *claimed*
(2497-2502). `start` (4916) does not ask who claimed the task's leases. If one agent claims,
another starts and connects, and the first falls silent, the sweep expires and unpins the
lease in the middle of the merge and may grant the paths to a third. Phase C notices and
refuses to settle, but the merge has been made. The passing runs therefore have
`ForeignStart = FALSE` (an agent starts only tasks whose live rows are its own); this is the
one restriction on callers in them, and the exclusion and fencing theorems do without it.

**orbits_rollback** (`RollbackIsRetryable`). A failed merge is answered with
`retryable: True` (5974), and fsm.py 32-33 says that connect can be called again after the
transition back to DONE. The same critical section unpins the leases and reconciles (5963):
a lease that ran out under its pin expires at once, and from then on Phase A refuses the
task (a write row is not HELD), claim and cancel refuse it (it is DONE) and start has no
transition. The task cannot get on.

**connect_ghost** (`NoGhostMerge`). The comment at core.py 3633 says that a task without
`read_synced_gen` has no read claim. A read claim granted at once stamps it (4266-4273), and
so does `read_refresh` (3700); a read claim that had to wait is granted by promotion, which
stamps only the lease's own `read_gen` (2064-2066). `_ghost_reads` then returns nothing, and
the task is merged on top of a change it never read. The passing run has
`QueuedRead = FALSE`.

The following were met in the models and have no run of their own; the passing runs exclude
them as named here.

- *Trips do not check reads.* `_barrier_connect_phase_a` (_barriers.py 414-541, "the same as
  `_connect_phase_a`, without the sweep") has no counterpart to the ghost-read check of core
  5642-5651. With `ByBarrier = TRUE` Connect violates `NoGhostMerge` as well.
- *A request id that is never settled.* An id reserved while another attempt of its task was
  unresolved, whose process then dies before Phase A, is INFLIGHT without a binding; when
  recovery carries the other attempt forward the task is MERGED and the row stays as it is,
  although the comment at 5298-5301 promises an answer. `RequestsSettle` speaks of bound rows.
- *A caller other than the owner.* A connect called by another agent than the task's leaves
  a token that recovery refuses to match (2968-3009), and recovery stops at that task for
  ever. The run has `ForeignCaller = FALSE`.
- *A lost wake-up of the outbox.* A flush asks for the next due time while it still holds the
  dispatch lock; a timer that fires in between gives up, and nothing is armed afterwards.
  Only the periodic sweep repairs this. `AllIsHeard` therefore has sweeps wherever it has
  flushes.
- *Late answers that evict each other.* With fewer registry places than notifications,
  deliveries that always answer late can keep taking each other's place (1341).
  `AllIsHeard` speaks of registries that are large enough.
- *A barrier that shrinks may hang.* When the last member that had not arrived dies, the
  sweep removes it, but only an arrival trips the barrier: it stays ARMED with all arrived,
  and its deadline does not break it either, in spite of the comment at 2391-2393. The same
  holds after a new declaration with a member that is already merged. `BarrierSettles`
  speaks of barriers that break.
- *A second waiter row.* acquire() repeated while it waits registers another row
  (_sems.py 107-112), whose permit is granted later and kept alive by heartbeats. The comment
  at _sems.py 113 relies on a filter that `_is_success` (core.py 2676-2687) does not have, so
  WAITING is also remembered as the answer of its request id.
- *Flags of tasks.* finish() and connect() set the flag through the store (3169, 5073,
  6040): its rank stays 0 and nobody is woken, so that a wait for "done" that begins before
  a merge is not satisfied by it, against _flags.py 16-18. `SignalsAreHeard` speaks of
  signals.
- acquire_poll() answers GRANTED for a permit that has since run out (_sems.py 126).

## The proofs

| theorem | module | says |
|---|---|---|
| `TypeCorrect` | Orbits_proofs | `Spec => []TypeOK` |
| `Exclusion` | Orbits_proofs | `Spec => []Singulon` |
| `FencingOrder` | Orbits_proofs | `Spec => []HolderHasNewestFence` |
| `ReclaimIsFinal` | Orbits_proofs | `Spec => []RetiredOwnsNothing` |
| `QueueNeverOverflows` | Orbits_proofs | `Spec => []QueueBounded` |
| `ImplementsLeaseAuthority` | Orbits_proofs | `Spec => ImplementsAuthority` |
| `PinsEnd` | Pins_proofs | `~ForeignStart => (Spec => []PinsAccountedFor)` |
| `PinsHold` | Pins_proofs | `~ForeignStart => (Spec => PinProtects)` |
| `GrantsOnTime` | Queue_proofs | `Spec => GrantsOnlyTheLiving` |
| `ServedInOrder` | Queue_proofs | `Spec => NoOvertaking` |
| `CyclesAreBroken` | Queue_proofs | `Spec => NoDeadlockLeftBehind` |
| `NoLostWakeup` | Queue_proofs | `Spec => WakesWaiters` |
| `OneSweepSuffices` | Queue_proofs | `~ForeignStart => (Spec => []SweepSettles)` |
| `LoopIsPromote` | PromotionWalk_proofs | `Spec => []WalkAgrees` |
| `TypeCorrect` | Connect_proofs | `Spec => []TypeOK` |
| `StoresAgree` | Connect_proofs | `Spec => []TwoStoresAgree` |
| `LogCompletes` | Connect_proofs | `Spec => []LogIsComplete` |
| `RequestsTruth` | Connect_proofs | `Spec => []RequestsTellTheTruth` |
| `NoGhosts` | Connect_proofs | `~QueuedRead /\ ~ByBarrier => (Spec => NoGhostMerge)` |
| `LeaseTypeCorrect` | LeaderLease_proofs | `Spec => []TypeOK` |
| `SingleWriter` | LeaderLease_proofs | `Spec => []OnlyTheLastWrites` |
| `PromptLeaderIsSafe` | LeaderLease_proofs | `Spec => PromptLeaderStays` |
| `TypeCorrect` | Outbox_proofs | `Spec => []TypeOK` |
| `NothingIsLost` | Outbox_proofs | `Spec => []NothingLost` |
| `SilentOnceClosed` | Outbox_proofs | `Spec => []ClosedIsSilent` |
| `InOrder` | Outbox_proofs | `Spec => HeardInOrder` |
| `RegistryIsBounded` | Outbox_proofs | `Spec => []RegistryBounded` |
| `NothingTripsUnmerged` | Primitives_proofs | `Spec => []TrippedMeansMerged` |
| `TripsAreOwned` | Primitives_proofs | `Spec => TripIsOwned` |
| `TypeCorrect` | Primitives_proofs | `Spec => []TypeOK` |
| `SignalsHeard` | Primitives_proofs | `Spec => []SignalsAreHeard` |
| `NoSlotIsIdle` | Primitives_proofs | `Spec => []SlotsAreUsed` |
| `NobodyJumpsTheQueue` | Primitives_proofs | `Spec => GrantsInOrder` |

They hold for any number of agents, tasks, cells, rows, processes, notifications and
generations, any policy, ttl and label, from the named assumptions of the modules only: the
sets of agents and of processes are finite (the wait-for graph is searched, permits are
counted), no constant that stands for "nobody" or "no task" is one of the agents or tasks,
and the numeric parameters are natural numbers. A lease asks for a positive ttl, as `claim`
checks before anything else. `ForeignStart`, `QueuedRead` and `ByBarrier` may be either,
except in the theorems that say so. The bounds appear in the guards as constants of any size.

**The lease authority.** `Singulon` is not inductive: promotion is safe only because rows
that are granted together do not conflict with each other, which holds because of two
requests that conflict one outranks the other, and rank is total. The inductive invariant
`Sound` is about a *board*, so that each stage of a critical section is one
lemma and a verb is a chain of them:

- `Typed`: the tables have their types, tickets are dense;
- `NoConflict`: `Singulon` on the board;
- `Drawn`: no row carries a token above the counter, without which a new token would not
  be new;
- `Newest`: `HolderHasNewestFence` on the board;
- `Gone`: `RetiredOwnsNothing` on the board;
- `Merges`: whoever holds the merge token is CONNECTING, without which the end of a connect
  could resurrect a task of a retired agent.

`CloseKeeps` (ending rows) and `RetireKeeps` carry expiry, deadlines, cycles, release,
cancel and bail; `PromoteKeeps` and the lemmas on grants carry what is new. The closing of
cycles is proved for *any* set of victims, so that nothing depends on how a cycle is found.
`IInv` is `Sound` of the variables between two verbs; `NextIInv` has one step per action.

**The abstract authority.** What a verb does to the leases is a chain of stages, so each
stage is shown to be a step of one transitive relation: `Advances` says that what is held
afterwards is a lease that was held before or one under a token drawn since, and that
distinct tokens stay distinct (`Apart`); `Follows`, that moreover nobody has begun to wait,
which is true of everything but a claim. The queue's capacity follows in the same chain:
only `Admit` adds a request, and it looks at the capacity first (`Fits`). Exclusion comes
from `Sound`. That rows granted together get different tokens is a lemma on the rank order.

**Pins.** A board is `Secure` when it is sound, its pins are those of the merge that holds
the token (`Pinned`), and whoever works on a task is whoever claimed its live rows
(`Owned`). The last part is what the pin rests on: the reclaim spares an agent because of
the task assigned to it, and closes the rows the agent claimed. It holds when agents start
only what they claimed, and **orbits_foreign** shows what happens otherwise. `PinKept` then
says what a running merge may rely on, and each verb keeps it: a claim, renewal or release
because it names no pinned row, the stages of a sweep because expiry passes over pins and
`Zombies` are not connecting.

**The queue.** What a reconciliation does after the sweep of leases and agents is to close
rows until no wait cycle is left, and to promote. Closing takes rows away and touches no other
(`Pruned`, `Trimmed`), and the loop that breaks cycles ends when it finds none. Promotion turns a request into a lease that blocks exactly whom the request blocked
(`PromoteBlocks`). So it makes no new edge of the wait-for graph, passes over nobody, and
leaves nobody promotable. `Fair` collects what this promises of a verb between its first and
its last board, and holds for one reconciliation; all verbs but one are a single one. A claim
is two stages: its own row is admitted on the board the sweep left, and `Joined` says that
this grants only what nothing blocks. Overtaking is the delicate one: ranks are those of the
moment (aging), a lease remembers no enqueue time, and the claim's own newcomer is no part
of it.

`SweepSettles` needs more: that a second sweep finds no silent agent to retire and no lease to
expire. An agent is spared because of a pinned row of a task that it works on, and with a
foreign start that row may be another's and be closed by the very sweep it spared the agent
in; then the next sweep retires it. So this theorem too assumes `~ForeignStart`, and uses
`Secure`. That a lease granted by promotion does not run out at once is why ttl is positive.

**The promotion walk.** The walk goes down the order of rank, so what it has dealt with
outranks what is left (`WInv`). What it granted on the way therefore blocks a row that is left
exactly if it blocked it while it waited, and every row is decided as if the walk had just
begun (`SameBlockers`); the tokens count the grants, which is the place of each among all
(`NextToken`).

**The leader lease.** That only the last process admitted passes the guard rests on epochs:
none is above the row's (`EpochsDrawn`), whoever carries the row's epoch is the process
admitted last and the row is the one it wrote (`CarrierIsCurrent`), and there is one such
process (`OneAdmitted`). The second part also says that the age of the row is the silence
of its owner, which is what makes a prompt leader safe.

**The outbox.** The properties are about the rows and the sink, but what keeps them true is
in the threads. The inductive invariant adds: what the registry calls answered with success
is in the sink (`RegistryKnows`), and so is what a dispatcher carries as such
(`DispatcherKnows`), so that an acknowledgement, late or not, is of something heard; a
delivery that has begun has all its predecessors DELIVERED (`BegunInOrder`), which stays true
through failovers and late answers, as no row leaves DELIVERED; and a coordinator whose gate
is shut has no timer armed (`Gated`). The proof first says what each step does to a
coordinator, a thread, a row and the sink (its *effects*), and then argues once for each part
of the invariant along the effects. `RegistryBounded` needs no further invariant: an attempt
begins only after an eviction that leaves it a place.

**Connect.** No transaction spans the database and Git, so the invariant says who may still
owe what to whom. Attempts are numbered once and for one task (`Numbered`), and as long as one
is unsettled the task's row, the merge token and the request's row are bound to it alike
(`OneAttempt`, `Known`). What the coordinator has in Git is of a task that is MERGED or still
CONNECTING in that very attempt (`Owed`), and what is MERGED is in the log (`Logged`). The
effect lock is what makes the invariant inductive (`Locked`): only who holds it, a process or
the Git child that outlived it, may still land something, so a recovery that has the lock sees
all that will ever land of the attempt it finds. The last part is what a process knows between
its critical sections (`Knows`), and that neither a retry nor a takeover lands a task a second
time (`LandsOnce`, `CommitsOnce`). Ghost reads need one more: where every read claim is stamped,
a task has seen everything up to its stamp, and one about to land all that it reads
(`Informed`).

**Barriers.** A `World` is `Consistent` when a trip that is on has members, all arrived; what
its driver has not planned is merged; whoever merges, merges a task that is CONNECTING; and
what has tripped has merged. Most of what happens is `Harmless`: merged tasks stay merged,
the plan loses only merged members, and the barrier stays, breaks, starts anew or trips when
all is merged. `Harmless` is transitive and keeps a world consistent, so the composite steps
(recover, sweep, evaluate, arrive) are chains of lemmas. What is left are the three steps
that begin something: an arrival that starts a trip, a member and a connect. Recoveries that
skip the barriers or find no proof leave a trip as it is, or its attempt, and are `Harmless` like
those that settle them (`RecoveriesHarmless`). What the coordinator's life adds is an
invariant of its own (`LifeInv`).

**Signals.** `Sound` says that nobody waits in vain and that a living signal has a lease, of
one agent that is not gone. Each operator of Flags keeps it; that the flag has *one* owner is
what makes the death of an agent end exactly its own signals.

**Semaphores.** A semaphore is `Settled` when whoever waits is somebody and no slot is free
while anybody does. Promotion reaches a head of the queue (`ReachedIsAHead`): it leaves no free
slot, because the *first* waiter it passes over already finds the slots used by those ahead of
it (`PromotedUses`), and overdraws none, because the *last* waiter it reaches still found one
(`PromotedFits`). That a first and a last exist among any waiters of a finite queue is a lemma
on well-founded sets (`FirstAndLast`). `acquire` grants directly only where nobody waits: it is
`Settled` that makes this so, not the look at the waiters' priorities.

**Model-checked only:** liveness under fairness (`WaitsEnd`, `SilenceIsNoticed`,
`OrphanedLeaseEnds`, `AttemptsSettle`, `RequestsSettle`, `AllIsHeard`, `BarrierSettles`), which
is out of the prover's reach. Every invariant and every action property that a passing run
checks is a theorem above. What the theorems do not cover is the three violations, which are
counterexamples, and the restrictions the passing runs share with them.

## Abstractions

- A path set is the nonempty set of *cells* its globs cover, so that globs overlap exactly
  when the sets meet. The overlap test of disjoint.py is a component of its own.
- Task states that the lease rules treat alike are one: OPEN is PENDING, BLOCKED or READY;
  STARTED is CLAIMED or IN_ORBIT. So a task that is not ready may be started here.
- Rows without a task, flags, permits and barrier parties are left out, although they live
  in the same table: they have kinds of their own.
- Deadlines of terminal rows, and the heartbeat of a retired agent, are reset; nothing
  reads them.
- A wait cycle is any cycle: the code takes the first of a depth-first search in the order
  of names. All silent agents are retired in one stage: the code takes them one by one in
  the same transaction, and reconciles after the last.
- Aging, ttl, deadlines and windows count in ticks of one clock, which is read once per
  verb. The queue timeout is one constant, as in the code.
- Request ids, snapshots of the authority, decision records and events are left out; a
  repeated claim is recognised by its intent, as the code does after the request id.
- `connect` is called by nobody in particular (the code allows it); whether the named agent
  and token fit is a refusal. The write-set audit is a refusal too. In Orbits the end of a
  merge (merged or not) is a free choice; the write to Git is the subject of Connect.
- Priorities are validated by the code before anything happens and are naturals here.
- Writes to the leader row outside the guard (policy and repository id at start, core.py
  486-640) only fill in what is missing and are left out.
- In Connect a Git branch is a sequence of commits, each known by the task and the attempt of
  its trailer; what is in them, the audit of the write set and the check command are free
  outcomes of Phase B. Leases are one bit per task, with the sweep that loses them (see
  Orbits). A task is merged once, as the code has no way back from MERGED.
- In the Outbox time is what the rows tell apart (due or not). A claim's token is the
  coordinator that claimed, since its dispatch lock lets one thread deliver at a time.
  Payloads, backoff lengths and error texts are left out.
- In Primitives there is one semaphore, one flag and one barrier; an agent asks for permits
  always with the same priority; time is whether a lease, a wait or a deadline has run out.
  The merge of a member is a start and an end: what is between them is Connect's, and so is
  why a rollback is not proven: `Wedge` and `Repair` say only that it is, or is not any more.
  Recovery and the sweep that follows it in a call are two critical sections and one step
  here: what may come between them without the effect lock may as well come after a sweep.
  A barrier that has ended forgets its policy and its deadline (`Ended`), which nothing reads
  any more. Where the barrier is called, only agents that have a task of it are
  reclaimed. Git's refusal to confirm a member that is recorded as MERGED (a rewritten branch)
  may last any time but not for ever. Fairness of
  a queue across agents is the code's order, by priority and then seniority.

## Not modelled

- **Task board**: states, leases and requeues are in Orbits; dependencies, readiness,
  `next_task`, resolve tasks, `begin` and `complete_task` as sequences of verbs are not.
- **Read coherence** beyond the check in connect: the notices of stale reads to agents.
- **Request idempotency** of verbs that are one critical section: the row and the effect
  commit together there.
- **Terminal garbage collection**: archiving touches rows that no rule above reads, except
  for dependencies on archived tasks, which belong with the task board.
- **Globs and the candidate index**: character-level matching of patterns; the models use
  the sets of paths a pattern covers. That the prefilter loses no overlap is a question
  about strings, better tested than enumerated.
- **Versioned admission contract**: compares decisions with themselves and changes no state.
- **Git adapter**: modelled by its outcomes in Connect; its commands are I/O.
- **Server, CLI, workers, observability, harness, offline reports**: transport, logs and
  evaluation, which change no state of the coordinator. Start and stop of the worker
  threads is in Outbox as far as it concerns deliveries.

## Plan

Done: Admission, Boards, Orbits, LeaseAuthority, PromotionWalk, LeaderLease, Connect, Outbox,
Semaphores, Flags, Barriers and Primitives, with the proofs listed above. What is left, in
order of importance:

1. **TaskBoard**: declare, depend, readiness, next_task, begin, complete_task, requeue,
   cancel, with resolve tasks. Properties: nothing starts before what it depends on; no
   task is stranded; begin leaves all or none. **TerminalGC** composed with it.
2. Connect with leases from Orbits and trips from Barriers in one composition, instead of
   one bit and two constants, and the theorems of both carried over to it.
3. An abstract specification of Connect (a task is merged once, and is then in Git and in the
   log) that it is proved to implement, as LeaseAuthority is for Orbits.
