---------------------------- MODULE Queue_proofs ----------------------------
(***************************************************************************)
(* The queue is served in order and leaves nobody behind: what every       *)
(* reconciliation does for the requests that wait.                         *)
(*                                                                         *)
(* A reconciliation closes rows, until no wait cycle is left, and then     *)
(* promotes.  Closing takes rows away and touches no other (Trimmed).      *)
(* Promotion turns a request into a lease that blocks exactly whom the     *)
(* request blocked (PromoteBlocks), so it closes no cycle and leaves       *)
(* nobody promotable.  Each verb is one reconciliation, but for the claim, *)
(* whose own row is looked at when it is admitted.                         *)
(***************************************************************************)
EXTENDS Pins_proofs

\* Two rows that compete in the same way.
Rival(x, y) ==
    /\ x.agent = y.agent /\ x.cells = y.cells /\ x.mode = y.mode
    /\ x.prio = y.prio /\ x.enq = y.enq /\ x.state = y.state

\* Board c has the rows of b, some of them closed.
Trimmed(b, c) ==
    /\ c.seq = b.seq
    /\ \A i \in 1..b.seq :
          \/ i \notin Live(c.orbit)
          \/ Rival(c.orbit[i], b.orbit[i]) /\ c.orbit[i].due = b.orbit[i].due

\* Every row of c that is alive is the row of b.
Pruned(b, c) == c.seq = b.seq /\ \A i \in 1..b.seq : i \in Live(c.orbit) => c.orbit[i] = b.orbit[i]

\* No agent of c is one that b did not know, but that some are retired.
Mourned(b, c) ==
    \A a \in Agent : c.agent[a] = b.agent[a] \/ c.agent[a].status = "RETIRED"

-----------------------------------------------------------------------------
\* What blocks whom

\* Rank and conflict are decided by the columns of Rival.
LEMMA RivalsOutrank ==
    ASSUME NEW o, NEW p, NEW t, NEW i, NEW j,
           Rival(p[i], o[i]), Rival(p[j], o[j])
    PROVE  /\ Outranks(p, t, i, j) <=> Outranks(o, t, i, j)
           /\ Conflict(p[i], p[j]) <=> Conflict(o[i], o[j])
BY DEF Rival, Outranks, Effective, Conflict

LEMMA ConflictSymmetric ==
    ASSUME NEW x, NEW y, Conflict(x, y)
    PROVE  Conflict(y, x)
BY DEF Conflict, Compatible

\* Whom a row waits for is decided by the rivals.
LEMMA RivalsBlock ==
    ASSUME NEW o, NEW p, DOMAIN p = DOMAIN o,
           \A i \in DOMAIN o : Rival(p[i], o[i]),
           NEW t
    PROVE  /\ Held(p) = Held(o) /\ Pending(p) = Pending(o)
           /\ \A i \in DOMAIN o : Blockers(p, t, i) = Blockers(o, t, i)
<1>1. Held(p) = Held(o) /\ Pending(p) = Pending(o)
      BY DEF Held, Pending, Rival
<1>2. ASSUME NEW i \in DOMAIN o
      PROVE  Blockers(p, t, i) = Blockers(o, t, i)
  <2>1. \A j \in DOMAIN o : /\ Conflict(p[i], p[j]) <=> Conflict(o[i], o[j])
                            /\ Outranks(p, t, j, i) <=> Outranks(o, t, j, i)
        BY RivalsOutrank
  <2>2. Held(o) \subseteq DOMAIN o /\ Pending(o) \subseteq DOMAIN o
        BY DEF Held, Pending
  <2> QED BY <1>1, <2>1, <2>2 DEF Blockers
<1> QED BY <1>1, <1>2

\* So are the edges of the wait-for graph.
LEMMA RivalsWait ==
    ASSUME NEW o, NEW p, DOMAIN p = DOMAIN o,
           \A i \in DOMAIN o : Rival(p[i], o[i]),
           NEW t
    PROVE  WaitFor(p, t) = WaitFor(o, t)
<1>1. /\ Pending(p) = Pending(o)
      /\ \A i \in DOMAIN o : Blockers(p, t, i) = Blockers(o, t, i)
      BY RivalsBlock
<1>2. \A i \in DOMAIN o : p[i].agent = o[i].agent
      BY DEF Rival
<1>3. Pending(o) \subseteq DOMAIN o /\ \A i \in DOMAIN o : Blockers(o, t, i) \subseteq DOMAIN o
      BY DEF Blockers, Held, Pending
<1>4. ASSUME NEW x, NEW y
      PROVE  Waits(p, t, x, y) = Waits(o, t, x, y)
      BY <1>1, <1>2, <1>3 DEF Waits
<1> QED BY <1>4 DEF WaitFor

\* A cycle whose edges are all there in another graph is a cycle of that one.
LEMMA CycleMoves ==
    ASSUME NEW E, E \subseteq Agent \X Agent, NEW F, NEW c \in Cycles(F),
           \A k \in DOMAIN c : <<c[k], c[(k % Cardinality(DOMAIN c)) + 1]>> \in E
    PROVE  c \in Cycles(E)
<1> DEFINE nodes == {e[1] : e \in E} \cap {e[2] : e \in E}
           old   == {e[1] : e \in F} \cap {e[2] : e \in F}
<1>1. PICK n \in 2..Cardinality(old) : c \in [1..n -> old]
      BY DEF Cycles
<1>2. /\ \A j, k \in DOMAIN c : c[j] = c[k] => j = k
      BY DEF Cycles
<1>3. n \in Nat /\ n >= 2
      <2>1. n \in 2..Cardinality(old)
            OBVIOUS
      <2> QED BY <2>1
<1>4. DOMAIN c = 1..n /\ Cardinality(1..n) = n
      <2>1. n \in Int /\ 1 \in Int
            BY <1>3
      <2>2. Cardinality(1..n) = IF 1 > n THEN 0 ELSE n - 1 + 1
            BY <2>1, FS_Interval, Zenon
      <2> QED BY <1>1, <1>3, <2>2
<1> HIDE DEF old
<1>5. \A k \in 1..n : <<c[k], c[(k % n) + 1]>> \in E
      BY <1>4
<1>6. ASSUME NEW k \in 1..n
      PROVE  c[k] \in nodes
  <2>1. c[k] \in {e[1] : e \in E}
    <3>1. <<c[k], c[(k % n) + 1]>> \in E /\ <<c[k], c[(k % n) + 1]>>[1] = c[k]
          BY <1>5
    <3> QED BY <3>1
  <2>2. PICK j \in 1..n : (j % n) + 1 = k
    <3>1. CASE k = 1
      <4>1. n % n = 0
            BY <1>3
      <4> QED BY <1>3, <3>1, <4>1
    <3>2. CASE k # 1
      <4>1. k - 1 \in 1..n /\ k - 1 < n /\ k - 1 \in Nat
            BY <1>3, <3>2
      <4>2. (k - 1) % n = k - 1
            BY <1>3, <4>1
      <4> QED BY <4>1, <4>2
    <3> QED BY <3>1, <3>2
  <2>3. c[k] \in {e[2] : e \in E}
    <3>1. <<c[j], c[(j % n) + 1]>> \in E /\ <<c[j], c[(j % n) + 1]>>[2] = c[(j % n) + 1]
          BY <1>5
    <3> QED BY <2>2, <3>1
  <2> QED BY <2>1, <2>3
<1>7. IsFiniteSet(nodes)
  <2>1. nodes \in SUBSET Agent
        OBVIOUS
  <2> QED BY <2>1, AgentAssumption, FS_Subset, Zenon
<1>8. c \in [1..n -> nodes]
      BY <1>1, <1>6
<1> HIDE DEF nodes
<1>9. n <= Cardinality(nodes) /\ Cardinality(nodes) \in Nat
  <2>1. c \in Injection(1..n, nodes)
        BY <1>2, <1>4, <1>8 DEF Injection, IsInjective
  <2>2. Cardinality(1..n) <= Cardinality(nodes)
        BY <1>7, <2>1, FS_Injection, Zenon
  <2>3. Cardinality(nodes) \in Nat
        BY <1>7, FS_CardinalityType, Zenon
  <2> QED BY <1>4, <2>2, <2>3
<1>10. n \in 2..Cardinality(nodes)
      BY <1>3, <1>9
<1>11. c \in UNION {[1..m -> nodes] : m \in 2..Cardinality(nodes)}
      BY <1>8, <1>10
<1> QED BY <1>2, <1>11 DEF Cycles, nodes

\* Fewer edges, fewer cycles.
LEMMA FewerCycles ==
    ASSUME NEW E, E \subseteq Agent \X Agent, Cycles(E) = {}, NEW F, F \subseteq E
    PROVE  Cycles(F) = {}
<1> SUFFICES ASSUME NEW c \in Cycles(F) PROVE FALSE
    OBVIOUS
<1>1. \A k \in DOMAIN c : <<c[k], c[(k % Cardinality(DOMAIN c)) + 1]>> \in F
      BY DEF Cycles
<1>2. c \in Cycles(E)
      BY <1>1, CycleMoves
<1> QED BY <1>2

-----------------------------------------------------------------------------
\* The stages before promotion

\* Closing live rows.
LEMMA ClosePrunes ==
    ASSUME NEW b, Sound(b), NEW S, S \subseteq Live(b.orbit),
           NEW s \in {"RELEASED", "EXPIRED", "DENIED"},
           NEW c, c = [b EXCEPT !.orbit = Close(b.orbit, S, s)]
    PROVE  /\ Sound(c) /\ Pruned(b, c)
           /\ c.agent = b.agent /\ c.task = b.task /\ c.token = b.token
<1> DEFINE o == Close(b.orbit, S, s)
<1>1. b \in BoardRow /\ b.seq \in Nat /\ b.orbit \in [1..b.seq -> Row]
      BY DEF Sound, Typed, BoardRow
<1>2. c.orbit = o /\ c.seq = b.seq /\ c.agent = b.agent /\ c.task = b.task /\ c.token = b.token
      BY <1>1 DEF BoardRow
<1>3. Held(o) = Held(b.orbit) \ S /\ Pending(o) = Pending(b.orbit) \ S
      BY <1>1, CloseEnds
<1>4. \A i \in 1..b.seq : i \notin S => o[i] = b.orbit[i]
      BY <1>1, CloseRows
<1>5. Sound(c)
      BY CloseKeeps
<1> HIDE DEF o
<1>6. ASSUME NEW i \in 1..b.seq, i \in Live(o)
      PROVE  o[i] = b.orbit[i]
      BY <1>3, <1>4, <1>6 DEF Live
<1>7. Pruned(b, c)
      BY <1>2, <1>6 DEF Pruned
<1> QED BY <1>2, <1>5, <1>7

\* What is pruned is trimmed, and can be pruned again.
LEMMA PrunedTrims ==
    ASSUME NEW b, NEW c, Pruned(b, c)
    PROVE  Trimmed(b, c)
BY DEF Pruned, Trimmed, Rival

LEMMA PrunedOn ==
    ASSUME NEW b, NEW c, Sound(c), NEW d, Sound(d), Pruned(b, c), Pruned(c, d)
    PROVE  Pruned(b, d)
<1>1. c.seq = b.seq /\ d.seq = b.seq
      BY DEF Pruned
<1>2. DOMAIN c.orbit = 1..b.seq /\ DOMAIN d.orbit = 1..b.seq
      BY <1>1 DEF Sound, Typed
<1> QED BY <1>1, <1>2 DEF Pruned, Live, Held, Pending

\* What is trimmed can be trimmed again.
LEMMA TrimmedOn ==
    ASSUME NEW b, NEW c, Sound(c), NEW d, Sound(d), Trimmed(b, c), Trimmed(c, d)
    PROVE  Trimmed(b, d)
<1>1. c.seq = b.seq /\ d.seq = b.seq
      BY DEF Trimmed
<1>2. DOMAIN c.orbit = 1..b.seq /\ DOMAIN d.orbit = 1..b.seq
      BY <1>1 DEF Sound, Typed
<1>3. ASSUME NEW i \in 1..b.seq, i \in Live(d.orbit)
      PROVE  Rival(d.orbit[i], b.orbit[i]) /\ d.orbit[i].due = b.orbit[i].due
  <2>1. Rival(d.orbit[i], c.orbit[i]) /\ d.orbit[i].due = c.orbit[i].due
        BY <1>1, <1>3 DEF Trimmed
  <2>2. i \in Live(c.orbit)
        BY <1>2, <1>3, <2>1 DEF Live, Held, Pending, Rival
  <2>3. Rival(c.orbit[i], b.orbit[i]) /\ c.orbit[i].due = b.orbit[i].due
        BY <2>2 DEF Trimmed
  <2> QED BY <2>1, <2>3 DEF Rival
<1> QED BY <1>1, <1>3 DEF Trimmed

\* What a trimmed board has alive, the board had alive in the same state.
LEMMA TrimmedAlive ==
    ASSUME NEW b, Sound(b), NEW d, Sound(d), Trimmed(b, d)
    PROVE  Held(d.orbit) \subseteq Held(b.orbit) /\ Pending(d.orbit) \subseteq Pending(b.orbit)
<1>1. DOMAIN b.orbit = 1..b.seq /\ DOMAIN d.orbit = 1..b.seq
      BY DEF Sound, Typed, Trimmed
<1> QED BY <1>1 DEF Trimmed, Rival, Live, Held, Pending

\* Expiry.
LEMMA ExpirePrunes ==
    ASSUME NEW b, Sound(b), NEW t \in Nat
    PROVE  /\ Sound(Expire(b, t)) /\ Pruned(b, Expire(b, t))
           /\ Expire(b, t).agent = b.agent
           /\ Expire(b, t).task = b.task
           /\ Expire(b, t).token = b.token
<1> DEFINE due == {i \in Held(b.orbit) : ~b.orbit[i].pinned /\ b.orbit[i].due <= t}
<1>1. due \subseteq Live(b.orbit)
      BY DEF Live
<1>2. Expire(b, t) = [b EXCEPT !.orbit = Close(b.orbit, due, "EXPIRED")]
      BY DEF Expire
<1> HIDE DEF due
<1> QED BY <1>1, <1>2, ClosePrunes

\* Reclaim: some agents are retired, and their rows are closed.
LEMMA RetirePrunes ==
    ASSUME NEW b, Sound(b), NEW D \in SUBSET Agent
    PROVE  Sound(Retire(b, D)) /\ Pruned(b, Retire(b, D)) /\ Mourned(b, Retire(b, D))
<1> DEFINE theirs == {i \in DOMAIN b.orbit : b.orbit[i].agent \in D}
           o == CloseAll(b.orbit, theirs, "EXPIRED")
           c == Retire(b, D)
<1>1. b \in BoardRow /\ b.seq \in Nat /\ b.orbit \in [1..b.seq -> Row]
      BY DEF Sound, Typed, BoardRow
<1>2. Sound(c)
      BY RetireKeeps
<1>3. /\ c.orbit = o /\ c.seq = b.seq
      /\ c.agent = [a \in Agent |->
                      IF a \in D THEN [status |-> "RETIRED", beat |-> 0, window |-> AgentTTL]
                                 ELSE b.agent[a]]
      BY <1>1 DEF Retire, BoardRow
<1>4. /\ Live(o) = Live(b.orbit) \ theirs
      BY <1>1, CloseAllEnds
<1>5. \A i \in 1..b.seq : i \notin theirs => o[i] = b.orbit[i]
      BY <1>1, CloseAllRows
<1> HIDE DEF theirs, o, c
<1>6. Pruned(b, c)
      BY <1>3, <1>4, <1>5 DEF Pruned
<1>7. Mourned(b, c)
      BY <1>3 DEF Mourned
<1> QED BY <1>2, <1>6, <1>7 DEF c

\* No request of the board is past its deadline.
InTime(b, t) == \A i \in Pending(b.orbit) : b.orbit[i].due > t

\* Deadlines and wait cycles.
LEMMA ServePrunes ==
    ASSUME NEW b, Sound(b), NEW t \in Nat, NEW d \in BreakCycles(TimeOut(b, t), t)
    PROVE  /\ Sound(d) /\ Pruned(b, d)
           /\ d.agent = b.agent /\ d.task = b.task /\ d.token = b.token
           /\ InTime(d, t) /\ Acyclic(d.orbit, t)
<1> DEFINE L == {i \in Pending(b.orbit) : b.orbit[i].due <= t}
           c == TimeOut(b, t)
<1>1. L \subseteq Live(b.orbit) /\ L \subseteq Pending(b.orbit)
      BY DEF Live
<1>2. c = [b EXCEPT !.orbit = Close(b.orbit, L, "DENIED")]
      BY DEF TimeOut
<1>a. b \in BoardRow /\ b.seq \in Nat /\ b.orbit \in [1..b.seq -> Row]
      BY DEF Sound, Typed, BoardRow
<1>b. c.orbit = Close(b.orbit, L, "DENIED")
      BY <1>a, <1>2 DEF BoardRow
<1>c. Pending(c.orbit) = Pending(b.orbit) \ L
      BY <1>a, <1>b, CloseEnds
<1>d. \A i \in 1..b.seq : i \notin L => c.orbit[i] = b.orbit[i]
      BY <1>a, <1>b, CloseRows
<1>e. \A i \in 1..b.seq : b.orbit[i].due \in Nat
      BY <1>a DEF Row
<1>f. Pending(b.orbit) \subseteq 1..b.seq
      BY <1>a DEF Pending
<1>3. InTime(c, t)
  <2> SUFFICES ASSUME NEW i \in Pending(c.orbit) PROVE c.orbit[i].due > t
      BY DEF InTime
  <2>1. i \in Pending(b.orbit) /\ ~(b.orbit[i].due <= t)
        BY <1>c
  <2>2. i \in 1..b.seq /\ i \notin L
        BY <1>c, <1>f
  <2> QED BY <1>d, <1>e, <2>1, <2>2
<1> HIDE DEF L
<1>4. /\ Sound(c) /\ Pruned(b, c)
      /\ c.agent = b.agent /\ c.task = b.task /\ c.token = b.token
      BY <1>1, <1>2, ClosePrunes
<1> HIDE DEF c
<1>5. PICK D \in Denials(c.orbit, t) : d = [c EXCEPT !.orbit = Close(c.orbit, D, "DENIED")]
      BY DEF BreakCycles, c
<1>6. D \subseteq Live(c.orbit) /\ Acyclic(Close(c.orbit, D, "DENIED"), t)
      BY DEF Denials, Live
<1>7. /\ Sound(d) /\ Pruned(c, d)
      /\ d.agent = c.agent /\ d.task = c.task /\ d.token = c.token
      BY <1>4, <1>5, <1>6, ClosePrunes
<1>8. Acyclic(d.orbit, t)
  <2>1. c \in BoardRow
        BY <1>4 DEF Sound, Typed
  <2>2. d.orbit = Close(c.orbit, D, "DENIED")
        BY <1>5, <2>1 DEF BoardRow
  <2> QED BY <1>6, <2>2
<1>9. InTime(d, t)
  <2> SUFFICES ASSUME NEW i \in Pending(d.orbit) PROVE d.orbit[i].due > t
      BY DEF InTime
  <2>1. i \in Pending(c.orbit)
        BY <1>4, <1>7, PrunedTrims, TrimmedAlive
  <2>2. i \in 1..c.seq
        BY <1>4, <2>1 DEF Sound, Typed, Pending
  <2>3. d.orbit[i].due = c.orbit[i].due
        BY <1>7, <2>2 DEF Pruned, Live
  <2> QED BY <1>3, <2>1, <2>3 DEF InTime
<1> QED BY <1>4, <1>7, <1>8, <1>9, PrunedOn

\* Reconciliation, up to the promotion that ends it.
LEMMA ReconcileStages ==
    ASSUME NEW b, Sound(b), NEW t \in Nat, NEW c \in Reconcile(b, t)
    PROVE  \E d : /\ Sound(d) /\ Pruned(b, d) /\ Mourned(b, d)
                  /\ InTime(d, t) /\ Acyclic(d.orbit, t)
                  /\ c = Promote(d, t)
<1> DEFINE x == Expire(b, t)
           Z == Zombies(x, t)
           y == Retire(x, Z)
<1>1. PICK d \in BreakCycles(TimeOut(y, t), t) : c = Promote(d, t)
      BY DEF Reconcile
<1>2. Sound(x) /\ Pruned(b, x) /\ x.agent = b.agent
      BY ExpirePrunes
<1> HIDE DEF x
<1>3. Z \in SUBSET Agent
      BY DEF Zombies
<1> HIDE DEF Z
<1>4. Sound(y) /\ Pruned(x, y) /\ Mourned(x, y)
      BY <1>2, <1>3, RetirePrunes
<1> HIDE DEF y
<1>5. Sound(d) /\ Pruned(y, d) /\ d.agent = y.agent /\ InTime(d, t) /\ Acyclic(d.orbit, t)
      BY <1>1, <1>4, ServePrunes
<1>6. Pruned(b, d)
  <2>1. Pruned(b, y)
        BY <1>2, <1>4, PrunedOn
  <2> QED BY <1>4, <1>5, <2>1, PrunedOn
<1>7. Mourned(b, d)
      BY <1>2, <1>4, <1>5 DEF Mourned
<1> QED BY <1>1, <1>5, <1>6, <1>7

\* Without the reclaim.
LEMMA SettleStages ==
    ASSUME NEW b, Sound(b), NEW t \in Nat, NEW c \in Settle(b, t)
    PROVE  \E d : /\ Sound(d) /\ Pruned(b, d) /\ Mourned(b, d)
                  /\ InTime(d, t) /\ Acyclic(d.orbit, t)
                  /\ c = Promote(d, t)
<1> DEFINE x == Expire(b, t)
<1>1. PICK d \in BreakCycles(TimeOut(x, t), t) : c = Promote(d, t)
      BY DEF Settle
<1>2. Sound(x) /\ Pruned(b, x) /\ x.agent = b.agent
      BY ExpirePrunes
<1> HIDE DEF x
<1>3. Sound(d) /\ Pruned(x, d) /\ d.agent = x.agent /\ InTime(d, t) /\ Acyclic(d.orbit, t)
      BY <1>1, <1>2, ServePrunes
<1>4. Pruned(b, d)
      BY <1>2, <1>3, PrunedOn
<1>5. Mourned(b, d)
      BY <1>2, <1>3 DEF Mourned
<1> QED BY <1>1, <1>3, <1>4, <1>5

-----------------------------------------------------------------------------
\* Promotion

\* Promotion makes leases of the promotable requests and touches no other row.
LEMMA PromoteRows ==
    ASSUME NEW b, Sound(b), NEW t \in Nat, NEW c, c = Promote(b, t)
    PROVE  /\ Sound(c)
           /\ c.seq = b.seq /\ c.agent = b.agent /\ c.task = b.task /\ c.token = b.token
           /\ \A i \in 1..b.seq :
                 /\ i \notin Promotable(b, t) => c.orbit[i] = b.orbit[i]
                 /\ i \in Promotable(b, t) =>
                       Rival([c.orbit[i] EXCEPT !.state = "PENDING"], b.orbit[i])
           /\ Held(c.orbit) = Held(b.orbit) \cup Promotable(b, t)
           /\ Pending(c.orbit) = Pending(b.orbit) \ Promotable(b, t)
<1> DEFINE P == Promotable(b, t)
           p(i) == Place(b.orbit, t, P, i)
           o == [i \in DOMAIN b.orbit |->
                   IF i \in P
                   THEN [b.orbit[i] EXCEPT !.state = "HELD",
                                           !.fence = b.fence + p(i),
                                           !.due   = t + b.orbit[i].ttl]
                   ELSE b.orbit[i]]
<1>1. b \in BoardRow /\ b.orbit \in [1..b.seq -> Row] /\ b.seq \in Nat
      BY DEF Sound, Typed, BoardRow
<1>2. P \subseteq 1..b.seq /\ P \subseteq Pending(b.orbit)
      BY <1>1 DEF Promotable, Pending
<1>3. Sound(c)
      BY PromoteKeeps
<1> HIDE DEF P, p
<1>4. /\ c.orbit = o /\ c.agent = b.agent /\ c.task = b.task /\ c.token = b.token
      /\ c.seq = b.seq
      <2>1. c = [b EXCEPT !.orbit = o, !.fence = b.fence + Cardinality(P)]
            BY DEF Promote, P, p
      <2> HIDE DEF o
      <2> QED BY <1>1, <2>1 DEF BoardRow
<1>5. \A i \in 1..b.seq :
         /\ o[i].state = IF i \in P THEN "HELD" ELSE b.orbit[i].state
         /\ i \notin P => o[i] = b.orbit[i]
      BY <1>1 DEF Row
<1>6. ASSUME NEW i \in P
      PROVE  Rival([o[i] EXCEPT !.state = "PENDING"], b.orbit[i])
  <2>1. b.orbit[i] \in Row /\ b.orbit[i].state = "PENDING"
        BY <1>1, <1>2 DEF Pending
  <2> DEFINE f == b.fence + p(i)
             e == t + b.orbit[i].ttl
  <2>2. o[i] = [b.orbit[i] EXCEPT !.state = "HELD", !.fence = f, !.due = e]
        BY <1>1, <1>2
  <2> HIDE DEF f, e, o
  <2> QED BY <2>1, <2>2 DEF Rival, Row
<1>7. DOMAIN o = DOMAIN b.orbit /\ DOMAIN b.orbit = 1..b.seq
      BY <1>1
<1> HIDE DEF o
<1>8. Held(o) = Held(b.orbit) \cup P /\ Pending(o) = Pending(b.orbit) \ P
      BY <1>2, <1>5, <1>7 DEF Held, Pending
<1> QED BY <1>3, <1>4, <1>5, <1>6, <1>8 DEF P

\* A lease out of the queue blocks exactly whom the request blocked: a request
\* that it conflicts with and that outranked it would have blocked it.
LEMMA PromoteBlocks ==
    ASSUME NEW b, Sound(b), NEW t \in Nat, NEW c, c = Promote(b, t),
           NEW i \in Pending(c.orbit)
    PROVE  /\ i \in Pending(b.orbit) /\ c.orbit[i] = b.orbit[i]
           /\ Blockers(c.orbit, t, i) = Blockers(b.orbit, t, i)
<1> DEFINE P == Promotable(b, t)
<1>1. b.orbit \in [1..b.seq -> Row] /\ b.seq \in Nat
      BY DEF Sound, Typed, BoardRow
<1>b. \A j \in 1..b.seq :
         /\ j \notin P => c.orbit[j] = b.orbit[j]
         /\ j \in P => Rival([c.orbit[j] EXCEPT !.state = "PENDING"], b.orbit[j])
      BY PromoteRows
<1>2. /\ Held(c.orbit) = Held(b.orbit) \cup P
      /\ Pending(c.orbit) = Pending(b.orbit) \ P
      BY PromoteRows
<1>3. \A j \in P : Blockers(b.orbit, t, j) = {}
      BY DEF Promotable
<1>4. P \subseteq Pending(b.orbit) /\ Pending(b.orbit) \subseteq 1..b.seq /\ Held(b.orbit) \subseteq 1..b.seq
      BY <1>1 DEF Promotable, Pending, Held
<1>a. c.orbit \in [1..b.seq -> Row]
      <2>1. c.seq = b.seq /\ Sound(c)
            BY PromoteRows
      <2> QED BY <2>1 DEF Sound, Typed
<1> HIDE DEF P
<1>5. i \in Pending(b.orbit) /\ i \notin P /\ c.orbit[i] = b.orbit[i]
      BY <1>b, <1>2, <1>4
<1>6. ASSUME NEW j \in 1..b.seq
      PROVE  Conflict(c.orbit[i], c.orbit[j]) <=> Conflict(b.orbit[i], b.orbit[j])
  <2>1. c.orbit[j].cells = b.orbit[j].cells /\ c.orbit[j].mode = b.orbit[j].mode
    <3>1. CASE j \notin P
          BY <1>b, <3>1
    <3>2. CASE j \in P
          BY <1>b, <1>a, <3>2 DEF Rival, Row
    <3> QED BY <3>1, <3>2
  <2> QED BY <1>5, <2>1 DEF Conflict
<1>7. ASSUME NEW j \in P, Conflict(b.orbit[i], b.orbit[j])
      PROVE  Outranks(b.orbit, t, j, i)
  <2>1. i # j /\ i \in 1..b.seq /\ j \in 1..b.seq
        BY <1>4, <1>5
  <2>2. Outranks(b.orbit, t, i, j) => i \in Blockers(b.orbit, t, j)
        BY <1>5, <1>7, <2>1, ConflictSymmetric DEF Blockers
  <2> QED BY <1>1, <1>3, <2>1, <2>2, RankTotal
<1>8. ASSUME NEW j \in Pending(b.orbit) \ P
      PROVE  Outranks(c.orbit, t, j, i) <=> Outranks(b.orbit, t, j, i)
      BY <1>b, <1>4, <1>5 DEF Outranks
<1>9. Blockers(c.orbit, t, i) = Blockers(b.orbit, t, i)
      BY <1>2, <1>4, <1>5, <1>6, <1>7, <1>8 DEF Blockers
<1> QED BY <1>5, <1>9

\* So nobody is left whom a second promotion would serve, and no new edge
\* joins the wait-for graph.
LEMMA PromoteSettles ==
    ASSUME NEW b, Sound(b), NEW t \in Nat, NEW c, c = Promote(b, t)
    PROVE  /\ Promotable(c, t) = {}
           /\ WaitFor(c.orbit, t) \subseteq WaitFor(b.orbit, t)
<1>1. c.agent = b.agent /\ Pending(c.orbit) = Pending(b.orbit) \ Promotable(b, t)
      BY PromoteRows
<1>2. Promotable(c, t) = {}
  <2> SUFFICES ASSUME NEW i \in Promotable(c, t) PROVE FALSE
      OBVIOUS
  <2>1. /\ i \in Pending(c.orbit) /\ c.orbit[i].due > t
        /\ Fresh(c.agent, c.orbit[i].agent, t) /\ Blockers(c.orbit, t, i) = {}
        BY DEF Promotable
  <2>2. /\ i \in Pending(b.orbit) /\ c.orbit[i] = b.orbit[i]
        /\ Blockers(c.orbit, t, i) = Blockers(b.orbit, t, i)
        BY <2>1, PromoteBlocks
  <2>3. i \in Promotable(b, t)
        BY <1>1, <2>1, <2>2 DEF Promotable
  <2> QED BY <1>1, <2>1, <2>3
<1>3. \A j \in DOMAIN b.orbit : c.orbit[j].agent = b.orbit[j].agent
  <2>1. /\ DOMAIN b.orbit = 1..b.seq
        /\ c.orbit \in [1..b.seq -> Row]
    <3>1. c.seq = b.seq /\ Sound(c)
          BY PromoteRows
    <3> QED BY <3>1 DEF Sound, Typed
  <2>2. \A i \in 1..b.seq :
                 /\ i \notin Promotable(b, t) => c.orbit[i] = b.orbit[i]
                 /\ i \in Promotable(b, t) =>
                       Rival([c.orbit[i] EXCEPT !.state = "PENDING"], b.orbit[i])
        BY PromoteRows
  <2> QED BY <2>1, <2>2 DEF Rival, Row
<1>4. \A i : Blockers(b.orbit, t, i) \subseteq DOMAIN b.orbit /\ Pending(b.orbit) \subseteq DOMAIN b.orbit
      BY DEF Blockers, Held, Pending
<1>5. ASSUME NEW x, NEW y
      PROVE  Waits(c.orbit, t, x, y) \subseteq Waits(b.orbit, t, x, y)
  <2> SUFFICES ASSUME NEW i \in Waits(c.orbit, t, x, y)
               PROVE  i \in Waits(b.orbit, t, x, y)
      OBVIOUS
  <2>1. /\ i \in Pending(c.orbit) /\ c.orbit[i].agent = x
        /\ \E j \in Blockers(c.orbit, t, i) : c.orbit[j].agent = y
        BY DEF Waits
  <2>2. /\ i \in Pending(b.orbit) /\ c.orbit[i] = b.orbit[i]
        /\ Blockers(c.orbit, t, i) = Blockers(b.orbit, t, i)
        BY <2>1, PromoteBlocks
  <2> QED BY <1>3, <1>4, <2>1, <2>2 DEF Waits
<1>6. WaitFor(c.orbit, t) \subseteq WaitFor(b.orbit, t)
      BY <1>5 DEF WaitFor
<1> QED BY <1>2, <1>6

\* No cycle closes.
LEMMA PromoteAcyclic ==
    ASSUME NEW b, Sound(b), NEW t \in Nat, NEW c, c = Promote(b, t), Acyclic(b.orbit, t)
    PROVE  Acyclic(c.orbit, t)
<1>1. WaitFor(c.orbit, t) \subseteq WaitFor(b.orbit, t)
      BY PromoteSettles
<1>2. WaitFor(b.orbit, t) \subseteq Agent \X Agent
      BY DEF WaitFor
<1> QED BY <1>1, <1>2, FewerCycles DEF Acyclic

-----------------------------------------------------------------------------
\* What a verb owes to the requests it finds

\* Request j is ahead of row i, had i been waiting since e.
Ahead(o, t, j, i, e) ==
    LET x == o[j].prio + Boost(o[j].enq, t)
        y == o[i].prio + Boost(e, t)
    IN  x > y \/ (x = y /\ j < i)

\* Since when row i of board c has been waiting, if b is the board before.
Since(b, i, t) == IF i \in DOMAIN b.orbit THEN b.orbit[i].enq ELSE t

\* The three promises of a step from b to c at time t: no lease for a silent
\* owner or a late request, none past a conflicting request that is ahead, and
\* no wait cycle.
OnTime(b, c, t) ==
    \A i \in Pending(b.orbit) : c.orbit[i].state = "HELD" =>
        b.orbit[i].due > t /\ Fresh(c.agent, b.orbit[i].agent, t)

InOrder(b, c, t) ==
    \A i \in Held(c.orbit) \ Held(b.orbit), j \in Pending(b.orbit) \cap Pending(c.orbit) :
        Conflict(c.orbit[i], c.orbit[j]) => ~Ahead(c.orbit, t, j, i, Since(b, i, t))

Fair(b, c, t) == OnTime(b, c, t) /\ InOrder(b, c, t) /\ Acyclic(c.orbit, t)

\* What has been said of InOrder is what the property says.
LEMMA AheadIs ==
    ASSUME NEW n \in Nat, NEW o \in [1..n -> Row], NEW t, NEW e,
           NEW i \in 1..n, NEW j \in 1..n, i # j
    PROVE  Outranks([o EXCEPT ![i].enq = e], t, j, i) <=> Ahead(o, t, j, i, e)
<1> DEFINE p == [o EXCEPT ![i].enq = e]
<1>1. p[j] = o[j]
      OBVIOUS
<1>2. p[i].prio = o[i].prio /\ p[i].enq = e
      BY DEF Row
<1> HIDE DEF p
<1>3. Outranks(p, t, j, i) <=> Ahead(o, t, j, i, e)
      BY <1>1, <1>2 DEF Outranks, Effective, Ahead
<1> QED BY <1>3 DEF p

\* Promotion keeps the promises on every board that was trimmed first.
LEMMA PromoteServes ==
    ASSUME NEW b, Sound(b), NEW d, Sound(d), Trimmed(b, d), NEW t \in Nat,
           InTime(d, t), Acyclic(d.orbit, t), NEW c, c = Promote(d, t)
    PROVE  Fair(b, c, t)
<1> DEFINE P == Promotable(d, t)
<1>1. /\ b.orbit \in [1..b.seq -> Row] /\ b.seq \in Nat
      /\ d.orbit \in [1..b.seq -> Row] /\ d.seq = b.seq
      BY DEF Sound, Typed, BoardRow, Trimmed
<1>2. \A j \in 1..d.seq :
         /\ j \notin P => c.orbit[j] = d.orbit[j]
         /\ j \in P => Rival([c.orbit[j] EXCEPT !.state = "PENDING"], d.orbit[j])
      BY PromoteRows
<1>3. /\ Held(c.orbit) = Held(d.orbit) \cup P
      /\ Pending(c.orbit) = Pending(d.orbit) \ P
      BY PromoteRows
<1>4. c.orbit \in [1..b.seq -> Row] /\ c.agent = d.agent
  <2>1. c.seq = d.seq /\ Sound(c) /\ c.agent = d.agent
        BY PromoteRows
  <2> QED BY <1>1, <2>1 DEF Sound, Typed
<1>5. \A i \in P : /\ i \in Pending(d.orbit) /\ d.orbit[i].due > t
                   /\ Fresh(d.agent, d.orbit[i].agent, t)
                   /\ Blockers(d.orbit, t, i) = {}
      BY DEF Promotable
<1> HIDE DEF P
<1>6. Held(d.orbit) \subseteq Held(b.orbit) /\ Pending(d.orbit) \subseteq Pending(b.orbit)
      BY TrimmedAlive
<1>7. Pending(b.orbit) \subseteq 1..b.seq /\ Held(b.orbit) \subseteq 1..b.seq
      BY <1>1 DEF Pending, Held
<1>8. \A i \in Pending(d.orbit) : Rival(d.orbit[i], b.orbit[i]) /\ d.orbit[i].due = b.orbit[i].due
      BY <1>6, <1>7 DEF Trimmed, Live
<1>9. OnTime(b, c, t)
  <2> SUFFICES ASSUME NEW i \in Pending(b.orbit), c.orbit[i].state = "HELD"
               PROVE  b.orbit[i].due > t /\ Fresh(c.agent, b.orbit[i].agent, t)
      BY DEF OnTime
  <2>1. i \in Held(c.orbit)
        BY <1>4, <1>7 DEF Held
  <2>2. i \notin Held(b.orbit)
        BY DEF Held, Pending
  <2>3. i \in P
        BY <1>3, <1>6, <2>1, <2>2
  <2> QED BY <1>4, <1>5, <1>8, <2>3 DEF Rival
<1>10. InOrder(b, c, t)
  <2> SUFFICES ASSUME NEW i \in Held(c.orbit) \ Held(b.orbit),
                      NEW j \in Pending(b.orbit) \cap Pending(c.orbit),
                      Conflict(c.orbit[i], c.orbit[j])
               PROVE  ~Ahead(c.orbit, t, j, i, Since(b, i, t))
      BY DEF InOrder
  <2>1. i \in P /\ i \in Pending(d.orbit) /\ i \in 1..b.seq
        BY <1>3, <1>5, <1>6, <1>7
  <2>2. j \in Pending(d.orbit) /\ j \notin P /\ j \in 1..b.seq /\ i # j
        BY <1>3, <1>7, <2>1
  <2>3. c.orbit[j] = d.orbit[j]
        BY <1>1, <1>2, <2>2
  <2>4. /\ c.orbit[i].cells = d.orbit[i].cells /\ c.orbit[i].mode = d.orbit[i].mode
        /\ c.orbit[i].prio = d.orbit[i].prio
    <3>1. Rival([c.orbit[i] EXCEPT !.state = "PENDING"], d.orbit[i])
          BY <1>1, <1>2, <2>1
    <3>2. c.orbit[i] \in Row
          BY <1>4, <2>1
    <3> QED BY <3>1, <3>2 DEF Rival, Row
  <2>5. Since(b, i, t) = d.orbit[i].enq
        BY <1>1, <1>8, <2>1 DEF Since, Rival
  <2>6. Conflict(d.orbit[i], d.orbit[j])
        BY <2>3, <2>4 DEF Conflict
  <2>7. ~Outranks(d.orbit, t, j, i)
        BY <1>5, <2>1, <2>2, <2>6 DEF Blockers
  <2> QED BY <2>3, <2>4, <2>5, <2>7 DEF Ahead, Outranks, Effective
<1>11. Acyclic(c.orbit, t)
      BY PromoteAcyclic
<1> QED BY <1>9, <1>10, <1>11 DEF Fair

\* So does every verb that ends with a reconciliation, and it leaves nobody
\* promotable.
LEMMA ReconcileServes ==
    ASSUME NEW b, Sound(b), NEW s, Sound(s), Trimmed(b, s), NEW t \in Nat,
           NEW c \in Reconcile(s, t) \cup Settle(s, t)
    PROVE  Sound(c) /\ Fair(b, c, t) /\ Promotable(c, t) = {} /\ c.seq = b.seq
<1>1. PICK d : /\ Sound(d) /\ Pruned(s, d)
               /\ InTime(d, t) /\ Acyclic(d.orbit, t)
               /\ c = Promote(d, t)
      BY ReconcileStages, SettleStages
<1>2. Trimmed(b, d)
      BY <1>1, PrunedTrims, TrimmedOn
<1>3. Fair(b, c, t)
      BY <1>1, <1>2, PromoteServes
<1>4. Promotable(c, t) = {}
      BY <1>1, PromoteSettles
<1>5. Sound(c) /\ c.seq = d.seq
      BY <1>1, PromoteRows
<1> QED BY <1>2, <1>3, <1>4, <1>5 DEF Trimmed

-----------------------------------------------------------------------------
\* Admission

\* A claim leaves board c behind: its own row is new, the others are those of
\* b but that some were denied.
Joined(b, c, t) ==
    LET new == b.seq + 1
    IN  /\ c.agent = b.agent /\ c.seq = new
        /\ \A i \in 1..b.seq : i \notin Live(c.orbit) \/ Rival(c.orbit[i], b.orbit[i])
        /\ new \in Held(c.orbit) =>
              \A j \in Pending(b.orbit) \cap Pending(c.orbit) :
                  Conflict(c.orbit[new], c.orbit[j]) => ~Ahead(c.orbit, t, j, new, t)
        /\ Acyclic(c.orbit, t)

\* The board with the claim in the queue.
LEMMA QueuedIs ==
    ASSUME NEW b, Sound(b), NEW w, NEW q, q = Extend(b, w)
    PROVE  /\ q.agent = b.agent /\ q.seq = b.seq + 1
           /\ b.seq \in Nat /\ b.orbit \in [1..b.seq -> Row]
           /\ b.seq + 1 \notin 1..b.seq
           /\ DOMAIN q.orbit = (1..b.seq) \cup {b.seq + 1}
           /\ q.orbit[b.seq + 1] = w
           /\ \A i \in 1..b.seq : q.orbit[i] = b.orbit[i]
<1>1. b \in BoardRow /\ b.seq \in Nat /\ b.orbit \in [1..b.seq -> Row]
      BY DEF Sound, Typed, BoardRow
<1> DEFINE o == [i \in 1..(b.seq + 1) |-> IF i \in DOMAIN b.orbit THEN b.orbit[i] ELSE w]
<1>2. q.orbit = o /\ q.agent = b.agent /\ q.seq = b.seq + 1
      BY <1>1 DEF Extend, BoardRow
<1>3. 1..(b.seq + 1) = (1..b.seq) \cup {b.seq + 1} /\ b.seq + 1 \notin 1..b.seq
      BY <1>1
<1>4. /\ DOMAIN o = (1..b.seq) \cup {b.seq + 1} /\ o[b.seq + 1] = w
      /\ \A i \in 1..b.seq : o[i] = b.orbit[i]
      BY <1>1, <1>3
<1> HIDE DEF o
<1> QED BY <1>1, <1>2, <1>3, <1>4

\* A row that is added does not change for whom the others wait, but that it
\* may block them itself.
LEMMA NewRowBlocks ==
    ASSUME NEW o, NEW p, NEW new, new \notin DOMAIN o, DOMAIN p = DOMAIN o \cup {new},
           \A i \in DOMAIN o : p[i] = o[i], NEW t, NEW i \in DOMAIN o
    PROVE  Blockers(p, t, i) \ {new} = Blockers(o, t, i)
<1>1. Held(p) \ {new} = Held(o) /\ Pending(p) \ {new} = Pending(o)
      BY DEF Held, Pending
<1>2. \A j \in DOMAIN o : /\ Conflict(p[i], p[j]) <=> Conflict(o[i], o[j])
                          /\ Outranks(p, t, j, i) <=> Outranks(o, t, j, i)
      BY DEF Outranks
<1>3. Held(o) \subseteq DOMAIN o /\ Pending(o) \subseteq DOMAIN o
      BY DEF Held, Pending
<1> QED BY <1>1, <1>2, <1>3 DEF Blockers

\* A new row adds edges of its own agent only, and a dead one adds none.
LEMMA NewRowWaits ==
    ASSUME NEW o, NEW p, NEW new, new \notin DOMAIN o, DOMAIN p = DOMAIN o \cup {new},
           \A i \in DOMAIN o : p[i] = o[i], NEW t,
           NEW e \in WaitFor(p, t),
           new \in Live(p) => e[1] # p[new].agent /\ e[2] # p[new].agent
    PROVE  e \in WaitFor(o, t)
<1>1. e \in Agent \X Agent /\ e[1] # e[2] /\ Waits(p, t, e[1], e[2]) # {}
      BY DEF WaitFor
<1>2. PICK i \in Pending(p) : /\ p[i].agent = e[1]
                              /\ \E j \in Blockers(p, t, i) : p[j].agent = e[2]
      BY <1>1 DEF Waits
<1>3. PICK j \in Blockers(p, t, i) : p[j].agent = e[2]
      BY <1>2
<1>4. i # new /\ j # new
  <2>1. i \in Live(p) /\ j \in Live(p)
        BY <1>2, <1>3 DEF Blockers, Live
  <2> QED BY <1>2, <1>3, <2>1
<1>5. i \in DOMAIN o /\ i \in Pending(o)
      BY <1>2, <1>4 DEF Pending
<1>6. j \in Blockers(o, t, i)
      BY <1>3, <1>4, <1>5, NewRowBlocks
<1>7. j \in DOMAIN o
      BY <1>6 DEF Blockers, Held, Pending
<1>8. i \in Waits(o, t, e[1], e[2])
      BY <1>2, <1>3, <1>5, <1>6, <1>7 DEF Waits
<1> QED BY <1>1, <1>8 DEF WaitFor

\* A claim that is queued although it is blocked closes no cycle: its owner
\* would be on it.
LEMMA QueuedAcyclic ==
    ASSUME NEW o, NEW p, NEW new, new \notin DOMAIN o, DOMAIN p = DOMAIN o \cup {new},
           \A i \in DOMAIN o : p[i] = o[i], NEW t, Acyclic(o, t),
           new \notin Live(p) \/
              \A c \in Cycles(WaitFor(p, t)) : \A k \in DOMAIN c : c[k] # p[new].agent
    PROVE  Acyclic(p, t)
<1> SUFFICES ASSUME NEW c \in Cycles(WaitFor(p, t)) PROVE FALSE
    BY DEF Acyclic
<1> DEFINE next(k) == (k % Cardinality(DOMAIN c)) + 1
<1>1. \A k \in DOMAIN c : <<c[k], c[next(k)]>> \in WaitFor(p, t)
      BY DEF Cycles
<1>2. \A k \in DOMAIN c : next(k) \in DOMAIN c
  <2> DEFINE nodes == {e[1] : e \in WaitFor(p, t)} \cap {e[2] : e \in WaitFor(p, t)}
  <2>1. PICK n \in 2..Cardinality(nodes) : c \in [1..n -> nodes]
        BY DEF Cycles
  <2>2. n \in 2..Cardinality(nodes)
        OBVIOUS
  <2> HIDE DEF nodes
  <2>3. n \in Nat /\ n >= 2
        BY <2>2
  <2>4. n \in Int /\ 1 \in Int
        BY <2>3
  <2>5. Cardinality(1..n) = IF 1 > n THEN 0 ELSE n - 1 + 1
        BY <2>4, FS_Interval, Zenon
  <2>6. DOMAIN c = 1..n
        BY <2>1
  <2>7. Cardinality(DOMAIN c) = n
        BY <2>3, <2>5, <2>6
  <2> QED BY <2>3, <2>6, <2>7
<1>3. ASSUME NEW k \in DOMAIN c
      PROVE  <<c[k], c[next(k)]>> \in WaitFor(o, t)
  <2> DEFINE e == <<c[k], c[next(k)]>>
  <2>1. e \in WaitFor(p, t) /\ e[1] = c[k] /\ e[2] = c[next(k)]
        BY <1>1
  <2>2. new \in Live(p) => e[1] # p[new].agent /\ e[2] # p[new].agent
        BY <1>2, <2>1
  <2> HIDE DEF e
  <2>3. e \in WaitFor(o, t)
        BY <2>1, <2>2, NewRowWaits
  <2> QED BY <2>3 DEF e
<1>4. WaitFor(o, t) \subseteq Agent \X Agent
      BY DEF WaitFor
<1>5. c \in Cycles(WaitFor(o, t))
      BY <1>3, <1>4, CycleMoves
<1> QED BY <1>5 DEF Acyclic

\* A claim that waits, or is denied because it would close a cycle.
LEMMA QueuedJoins ==
    ASSUME NEW b, Sound(b), NEW w, NEW q, q = Extend(b, w), w.state = "PENDING", NEW t,
           Acyclic(b.orbit, t), NEW c, Sound(c),
           \/ /\ c = q
              /\ ~\E y \in Cycles(WaitFor(q.orbit, t)) : \E k \in DOMAIN y : y[k] = w.agent
           \/ /\ c.agent = q.agent /\ c.seq = q.seq
              /\ c.orbit = Close(q.orbit, {b.seq + 1}, "DENIED")
    PROVE  Joined(b, c, t)
<1> DEFINE new == b.seq + 1
<1>1. /\ q.agent = b.agent /\ q.seq = new
      /\ b.seq \in Nat /\ b.orbit \in [1..b.seq -> Row]
      /\ new \notin 1..b.seq
      /\ DOMAIN q.orbit = (1..b.seq) \cup {new}
      /\ q.orbit[new] = w
      /\ \A i \in 1..b.seq : q.orbit[i] = b.orbit[i]
      BY QueuedIs
<1>2. DOMAIN b.orbit = 1..b.seq
      BY <1>1
<1> HIDE DEF new
<1>3. CASE /\ c = q
           /\ ~\E y \in Cycles(WaitFor(q.orbit, t)) : \E k \in DOMAIN y : y[k] = w.agent
  <2>a. \A y \in Cycles(WaitFor(c.orbit, t)) : \A k \in DOMAIN y : y[k] # c.orbit[new].agent
        BY <1>1, <1>3
  <2>b. DOMAIN c.orbit = DOMAIN b.orbit \cup {new} /\ new \notin DOMAIN b.orbit
        BY <1>1, <1>2, <1>3
  <2>c. \A i \in DOMAIN b.orbit : c.orbit[i] = b.orbit[i]
        BY <1>1, <1>2, <1>3
  <2>1. Acyclic(c.orbit, t)
    <3> HIDE <1>3
    <3> QED BY <2>a, <2>b, <2>c, QueuedAcyclic
  <2>2. new \notin Held(c.orbit)
        BY <1>1, <1>3 DEF Held
  <2> QED BY <1>1, <1>3, <2>1, <2>2 DEF Joined, Rival, new
<1>4. CASE /\ c.agent = q.agent /\ c.seq = q.seq
           /\ c.orbit = Close(q.orbit, {new}, "DENIED")
  <2>1. /\ DOMAIN c.orbit = (1..b.seq) \cup {new}
        /\ \A i \in 1..b.seq : c.orbit[i] = b.orbit[i]
        BY <1>1, <1>4 DEF Close
  <2>2. c.orbit[new] = [q.orbit[new] EXCEPT !.state = "DENIED", !.pinned = FALSE, !.due = 0, !.enq = 0]
        BY <1>1, <1>4 DEF Close
  <2>3. c.orbit[new] \in Row
        BY <1>1, <1>4, <2>1 DEF Sound, Typed
  <2>4. c.orbit[new].state # "PENDING" /\ c.orbit[new].state # "HELD"
        BY <1>1, <2>2, <2>3 DEF Row
  <2>5. new \notin Live(c.orbit)
        BY <2>4 DEF Live, Held, Pending
  <2>6. Acyclic(c.orbit, t)
        BY <1>1, <1>2, <2>1, <2>5, QueuedAcyclic
  <2> QED BY <1>1, <1>4, <2>1, <2>5, <2>6 DEF Joined, Rival, Live, new
<1> QED BY <1>3, <1>4 DEF new

\* A claim that is granted: whom it conflicts with does not outrank it, and if
\* it closed a cycle that cycle is broken.
LEMMA GrantedJoins ==
    ASSUME NEW b, Sound(b), NEW a \in Agent, b.agent[a].status # "RETIRED",
           NEW r \in RequestRow, NEW t \in Nat,
           Blockers(Extend(b, Waiting(a, r, t)).orbit, t, b.seq + 1) = {},
           NEW c \in BreakCycles(Granted(b, a, r, t), t)
    PROVE  Joined(b, c, t)
<1> DEFINE w   == Waiting(a, r, t)
           q   == Extend(b, w)
           h   == [w EXCEPT !.state = "HELD", !.fence = b.fence + 1, !.due = t + r.ttl, !.enq = 0]
           x   == Extend(b, h)
           g   == Granted(b, a, r, t)
           new == b.seq + 1
<1>1. w \in Row /\ w.state = "PENDING" /\ w.enq = t
      BY WaitingType DEF Waiting
<1>2. h.cells = w.cells /\ h.mode = w.mode /\ h.prio = w.prio
  <2> HIDE DEF w
  <2> QED BY <1>1 DEF Row
<1>3. Sound(g)
      BY GrantedKeeps
<1>4. g = [x EXCEPT !.fence = b.fence + 1]
      BY DEF Granted
<1> HIDE DEF w, h
<1>5. /\ b.seq \in Nat /\ b.orbit \in [1..b.seq -> Row]
      /\ new \notin 1..b.seq
      /\ DOMAIN q.orbit = (1..b.seq) \cup {new}
      /\ q.orbit[new] = w
      /\ \A i \in 1..b.seq : q.orbit[i] = b.orbit[i]
      BY QueuedIs
<1>6. /\ x.agent = b.agent /\ x.seq = new
      /\ DOMAIN x.orbit = (1..b.seq) \cup {new}
      /\ x.orbit[new] = h
      /\ \A i \in 1..b.seq : x.orbit[i] = b.orbit[i]
      BY QueuedIs
<1>7. g.orbit = x.orbit /\ g.agent = x.agent /\ g.seq = x.seq
  <2>1. x.fence = b.fence /\ DOMAIN x = DOMAIN b
    <3>1. b \in BoardRow
          BY DEF Sound, Typed
    <3> QED BY <3>1 DEF Extend, BoardRow
  <2>2. DOMAIN b = {"orbit", "agent", "task", "token", "seq", "fence"}
    <3>1. b \in BoardRow
          BY DEF Sound, Typed
    <3> QED BY <3>1 DEF BoardRow
  <2> HIDE DEF x, g
  <2> QED BY <1>4, <2>1, <2>2
<1> HIDE DEF x, g, q
<1>8. PICK D \in Denials(g.orbit, t) : c = [g EXCEPT !.orbit = Close(g.orbit, D, "DENIED")]
      BY DEF BreakCycles, g
<1>9. D \subseteq Live(g.orbit) /\ Acyclic(Close(g.orbit, D, "DENIED"), t)
      BY DEF Denials, Live
<1>10. Sound(c) /\ Trimmed(g, c) /\ c.agent = g.agent
      BY <1>3, <1>8, <1>9, ClosePrunes, PrunedTrims
<1>11. c.orbit = Close(g.orbit, D, "DENIED")
  <2>1. g \in BoardRow
        BY <1>3 DEF Sound, Typed
  <2> QED BY <1>8, <2>1 DEF BoardRow
<1>12. c.seq = new
      BY <1>6, <1>7, <1>10 DEF Trimmed
<1>13. \A i \in (1..b.seq) \cup {new} : i \notin Live(c.orbit) \/ Rival(c.orbit[i], g.orbit[i])
  <2>1. g.seq = new /\ 1..new = (1..b.seq) \cup {new}
        BY <1>5, <1>6, <1>7 DEF new
  <2> QED BY <1>10, <2>1 DEF Trimmed
<1>14. \A i \in 1..b.seq : i \notin Live(c.orbit) \/ Rival(c.orbit[i], b.orbit[i])
      BY <1>6, <1>7, <1>13
<1>15. ASSUME new \in Held(c.orbit), NEW j \in Pending(b.orbit) \cap Pending(c.orbit),
              Conflict(c.orbit[new], c.orbit[j])
       PROVE  ~Ahead(c.orbit, t, j, new, t)
  <2>1. /\ c.orbit[new].cells = w.cells /\ c.orbit[new].mode = w.mode
        /\ c.orbit[new].prio = w.prio
        BY <1>2, <1>6, <1>7, <1>13, <1>15 DEF Live, Rival
  <2>2. j \in 1..b.seq /\ j # new
        BY <1>5 DEF Pending
  <2>3. Rival(c.orbit[j], b.orbit[j])
        BY <1>14, <1>15, <2>2 DEF Live
  <2>4. j \in Pending(q.orbit)
        BY <1>5, <1>15, <2>2 DEF Pending
  <2>5. Conflict(q.orbit[new], q.orbit[j])
        BY <1>5, <1>15, <2>1, <2>2, <2>3 DEF Conflict, Rival
  <2>6. ~Outranks(q.orbit, t, j, new)
        BY <2>2, <2>4, <2>5 DEF Blockers, q, new, w
  <2> QED BY <1>1, <1>5, <2>1, <2>2, <2>3, <2>6 DEF Ahead, Outranks, Effective, Rival
<1>16. Acyclic(c.orbit, t)
      BY <1>9, <1>11
<1> QED BY <1>6, <1>7, <1>10, <1>12, <1>14, <1>15, <1>16 DEF Joined, new

\* However a claim ends, it changes nothing or joins the board.
LEMMA AdmitJoins ==
    ASSUME NEW b, Sound(b), NEW a \in Agent, b.agent[a].status # "RETIRED",
           NEW r \in RequestRow, NEW t \in Nat, Acyclic(b.orbit, t), NEW c \in Admit(b, a, r, t)
    PROVE  c = b \/ Joined(b, c, t)
<1> DEFINE w   == Waiting(a, r, t)
           q   == Extend(b, w)
           new == b.seq + 1
           loops == \E y \in Cycles(WaitFor(q.orbit, t)) : \E k \in DOMAIN y : y[k] = a
<1>1. w.agent = a /\ w.state = "PENDING"
      BY WaitingType
<1>2. Sound(q) /\ Sound(c)
      BY QueuedKeeps, AdmitKeeps
<1>3. CASE Blockers(q.orbit, t, new) = {} /\ c \in BreakCycles(Granted(b, a, r, t), t)
      BY <1>3, GrantedJoins
<1>4. CASE c = q /\ ~loops
  <2> HIDE DEF w
  <2> QED BY <1>1, <1>2, <1>4, QueuedJoins
<1>5. CASE c = [q EXCEPT !.orbit = Close(q.orbit, {new}, "DENIED")]
  <2>1. q \in BoardRow
        BY <1>2 DEF Sound, Typed
  <2> HIDE DEF q
  <2>2. c.agent = q.agent /\ c.seq = q.seq /\ c.orbit = Close(q.orbit, {new}, "DENIED")
        BY <1>5, <2>1 DEF BoardRow
  <2> HIDE DEF w
  <2> QED BY <1>1, <1>2, <2>2, QueuedJoins DEF q
<1>6. CASE c = b
      BY <1>6
<1> QED BY <1>3, <1>4, <1>5, <1>6 DEF Admit

\* The promises are kept by a claim that joins a board that keeps them.
LEMMA JoinedFair ==
    ASSUME NEW b, Sound(b), NEW y, Sound(y), y.seq = b.seq, NEW t \in Nat, Fair(b, y, t),
           NEW c, Sound(c), Joined(y, c, t)
    PROVE  Fair(b, c, t)
<1> DEFINE new == y.seq + 1
<1>1. /\ b.seq \in Nat /\ DOMAIN b.orbit = 1..b.seq /\ DOMAIN y.orbit = 1..b.seq
      BY DEF Sound, Typed, BoardRow
<1>2. c.agent = y.agent /\ c.seq = new /\ Acyclic(c.orbit, t)
      BY DEF Joined
<1>3. \A i \in 1..b.seq : i \notin Live(c.orbit) \/ Rival(c.orbit[i], y.orbit[i])
      BY DEF Joined
<1>4. DOMAIN c.orbit = (1..b.seq) \cup {new} /\ new \notin 1..b.seq
  <2>1. DOMAIN c.orbit = 1..new
        BY <1>2 DEF Sound, Typed
  <2> QED BY <1>1, <2>1
<1>5. new \in Held(c.orbit) =>
         \A j \in Pending(y.orbit) \cap Pending(c.orbit) :
             Conflict(c.orbit[new], c.orbit[j]) => ~Ahead(c.orbit, t, j, new, t)
      BY DEF Joined
<1> HIDE DEF new
<1>6. Pending(b.orbit) \subseteq 1..b.seq
      BY <1>1 DEF Pending
<1>7. \A i \in 1..b.seq : /\ i \in Held(c.orbit) => i \in Held(y.orbit)
                          /\ i \in Pending(c.orbit) => i \in Pending(y.orbit)
      BY <1>1, <1>3 DEF Live, Held, Pending, Rival
<1>8. OnTime(b, c, t)
  <2> SUFFICES ASSUME NEW i \in Pending(b.orbit), c.orbit[i].state = "HELD"
               PROVE  b.orbit[i].due > t /\ Fresh(c.agent, b.orbit[i].agent, t)
      BY DEF OnTime
  <2>1. i \in Held(c.orbit)
        BY <1>4, <1>6 DEF Held
  <2>2. y.orbit[i].state = "HELD"
        BY <1>6, <1>7, <2>1 DEF Held
  <2> QED BY <1>2, <2>2 DEF Fair, OnTime
<1>9. InOrder(b, c, t)
  <2> SUFFICES ASSUME NEW i \in Held(c.orbit) \ Held(b.orbit),
                      NEW j \in Pending(b.orbit) \cap Pending(c.orbit),
                      Conflict(c.orbit[i], c.orbit[j])
               PROVE  ~Ahead(c.orbit, t, j, i, Since(b, i, t))
      BY DEF InOrder
  <2>1. j \in 1..b.seq /\ j \in Pending(y.orbit) /\ Rival(c.orbit[j], y.orbit[j])
        BY <1>3, <1>6, <1>7 DEF Live
  <2>2. i \in (1..b.seq) \cup {new}
        BY <1>4 DEF Held
  <2>3. CASE i \in 1..b.seq
    <3>1. i \in Held(y.orbit) \ Held(b.orbit) /\ Rival(c.orbit[i], y.orbit[i])
          BY <1>3, <1>7, <2>3 DEF Live
    <3>2. Conflict(y.orbit[i], y.orbit[j])
          BY <2>1, <3>1 DEF Rival, Conflict
    <3>3. ~Ahead(y.orbit, t, j, i, Since(b, i, t))
          BY <2>1, <3>1, <3>2 DEF Fair, InOrder
    <3>4. /\ c.orbit[i].prio = y.orbit[i].prio
          /\ c.orbit[j].prio = y.orbit[j].prio /\ c.orbit[j].enq = y.orbit[j].enq
          BY <2>1, <3>1 DEF Rival
    <3> QED BY <3>3, <3>4 DEF Ahead
  <2>4. CASE i = new
    <3>1. Since(b, i, t) = t
          BY <1>1, <1>4, <2>4 DEF Since
    <3> QED BY <1>5, <2>1, <2>4, <3>1
  <2> QED BY <2>2, <2>3, <2>4
<1> QED BY <1>2, <1>8, <1>9 DEF Fair

\* A claim sweeps first, then its caller is heard from, and then it is
\* admitted: if it leaves a promotable request, the owner of that request was
\* silent when the sweep looked.
LEMMA ClaimServes ==
    ASSUME NEW b, Sound(b), NEW t \in Nat, NEW s \in Reconcile(b, t),
           NEW a \in Agent, s.agent[a].status # "RETIRED", NEW r \in RequestRow,
           NEW c \in Admit(Touch(s, a, t), a, r, t)
    PROVE  /\ Fair(b, c, t)
           /\ c.seq = b.seq =>
                 \A i \in Promotable(c, t) : ~Fresh(b.agent, b.orbit[i].agent, t)
<1> DEFINE y == Touch(s, a, t)
<1>1. PICK d : /\ Sound(d) /\ Pruned(b, d) /\ Mourned(b, d)
               /\ s = Promote(d, t)
      BY ReconcileStages
<1>2. Sound(s) /\ Fair(b, s, t) /\ Promotable(s, t) = {} /\ s.seq = b.seq
  <2>1. Trimmed(b, b)
        BY DEF Trimmed, Rival
  <2> QED BY <2>1, ReconcileServes
<1>3. /\ Sound(y) /\ y.orbit = s.orbit /\ y.seq = s.seq
      /\ y.agent[a].status = "WORKING"
      BY <1>2, TouchKeeps
<1>4. y.agent = [s.agent EXCEPT ![a] = [status |-> "WORKING", beat |-> t, window |-> s.agent[a].window]]
  <2>1. s \in BoardRow
        BY <1>2 DEF Sound, Typed
  <2> QED BY <2>1 DEF Touch, BoardRow
<1>5. c \in Admit(y, a, r, t)
      OBVIOUS
<1> HIDE DEF y
<1>6. ASSUME NEW x \in Agent, Fresh(s.agent, x, t)
      PROVE  Fresh(y.agent, x, t)
  <2>1. s.agent \in [Agent -> AgentRow]
        BY <1>2 DEF Sound, Typed, BoardRow
  <2>2. CASE x # a
        BY <1>4, <1>6, <2>1, <2>2 DEF Fresh
  <2>3. CASE x = a
    <3>1. s.agent[a].window \in Nat
          BY <2>1 DEF AgentRow
    <3>2. /\ y.agent[a].status = "WORKING" /\ y.agent[a].beat = t
          /\ y.agent[a].window = s.agent[a].window
          BY <1>4, <2>1
    <3> QED BY <2>3, <3>1, <3>2 DEF Fresh
  <2> QED BY <2>2, <2>3
<1>7. Fair(b, y, t)
  <2>1. \A i \in Pending(b.orbit) : b.orbit[i].agent \in Agent
        BY DEF Sound, Typed, Pending, Row
  <2>2. OnTime(b, y, t)
        BY <1>2, <1>3, <1>6, <2>1 DEF Fair, OnTime
  <2>3. InOrder(b, y, t)
        BY <1>2, <1>3 DEF Fair, InOrder
  <2> QED BY <1>2, <1>3, <2>2, <2>3 DEF Fair
<1>8. CASE Joined(y, c, t)
  <2>1. Sound(c)
        BY <1>3, <1>5, AdmitKeeps
  <2>2. Fair(b, c, t)
        BY <1>2, <1>3, <1>7, <1>8, <2>1, JoinedFair
  <2>3. c.seq # b.seq
    <3>1. b.seq \in Nat
          BY DEF Sound, Typed, BoardRow
    <3> QED BY <1>2, <1>3, <1>8, <3>1 DEF Joined
  <2> QED BY <2>2, <2>3
<1>9. CASE c = y
  <2> SUFFICES ASSUME NEW i \in Promotable(y, t)
               PROVE  ~Fresh(b.agent, b.orbit[i].agent, t)
      BY <1>7, <1>9
  <2>1. /\ i \in Pending(s.orbit) /\ s.orbit[i].due > t
        /\ Blockers(s.orbit, t, i) = {}
        BY <1>3 DEF Promotable
  <2>2. ~Fresh(s.agent, s.orbit[i].agent, t)
        BY <1>2, <2>1 DEF Promotable
  <2>3. i \in Pending(d.orbit) /\ s.orbit[i] = d.orbit[i] /\ s.agent = d.agent
        BY <1>1, <2>1, PromoteBlocks, PromoteRows
  <2>4. s.orbit[i].agent = b.orbit[i].agent
    <3>1. i \in 1..b.seq
          BY <1>1, <2>3 DEF Sound, Typed, Pruned, Pending
    <3> QED BY <1>1, <2>3, <3>1 DEF Pruned, Live
  <2>5. s.orbit[i].agent \in Agent
        BY <1>2, <2>1 DEF Sound, Typed, Pending, Row
  <2>6. s.agent[s.orbit[i].agent].status # "RETIRED"
        BY <1>2, <2>1, <2>5 DEF Sound, Gone, Live
  <2>7. s.agent[s.orbit[i].agent] = b.agent[s.orbit[i].agent]
        BY <1>1, <2>3, <2>5, <2>6 DEF Mourned
  <2> QED BY <2>2, <2>4, <2>7 DEF Fresh
<1>10. Acyclic(y.orbit, t) /\ y.agent[a].status # "RETIRED"
      BY <1>3, <1>7 DEF Fair
<1> QED BY <1>3, <1>5, <1>8, <1>9, <1>10, AdmitJoins

-----------------------------------------------------------------------------
\* The verbs

\* No row changes hands.
Still == DOMAIN orbit' = DOMAIN orbit /\ \A i \in DOMAIN orbit : orbit'[i].state = orbit[i].state

\* A step keeps the promises; and unless it hands out a ticket, only requests
\* of owners that were silent before it can be left promotable.
Serving ==
    /\ Fair(Board, Board', now)
    /\ seq' = seq => \A i \in Promotable(Board', now) : ~Fresh(agent, orbit[i].agent, now)

\* A verb that trims the board and reconciles it.
LEMMA VerbServes ==
    ASSUME Sound(Board), now \in Nat, NEW s, Sound(s), Trimmed(Board, s),
           NEW c \in Reconcile(s, now) \cup Settle(s, now), Become(c)
    PROVE  Serving
<1>1. Sound(c) /\ Fair(Board, c, now) /\ Promotable(c, now) = {}
      BY ReconcileServes
<1>2. Board' = c
      BY <1>1, BecomeBoard
<1> QED BY <1>1, <1>2 DEF Serving

\* Columns in which nobody competes may change after the reconciliation.
LEMMA RelabelServes ==
    ASSUME Sound(Board), now \in Nat, NEW c \in Reconcile(Board, now),
           NEW o, DOMAIN o = DOMAIN c.orbit,
           \A i \in DOMAIN o : Rival(o[i], c.orbit[i]) /\ o[i].due = c.orbit[i].due,
           orbit' = o, agent' = c.agent, seq' = c.seq
    PROVE  Serving
<1>1. /\ Sound(c) /\ Fair(Board, c, now) /\ Promotable(c, now) = {} /\ c.seq = Board.seq
  <2>1. Trimmed(Board, Board)
        BY DEF Trimmed, Rival
  <2> QED BY <2>1, ReconcileServes
<1>2. /\ Board'.orbit = o /\ Board'.agent = c.agent
      BY BoardIs
<1>3. /\ Held(o) = Held(c.orbit) /\ Pending(o) = Pending(c.orbit)
      /\ \A i \in DOMAIN c.orbit : Blockers(o, now, i) = Blockers(c.orbit, now, i)
      BY RivalsBlock
<1>4. Held(o) \subseteq DOMAIN o /\ Pending(o) \subseteq DOMAIN o
      BY DEF Held, Pending
<1>a. Pending(Board.orbit) \subseteq DOMAIN o
      <2>1. DOMAIN c.orbit = 1..Board.seq /\ DOMAIN Board.orbit = 1..Board.seq
            BY <1>1 DEF Sound, Typed
      <2> QED BY <2>1 DEF Pending
<1>5. OnTime(Board, Board', now)
  <2>1. \A i \in DOMAIN o : o[i].state = c.orbit[i].state
        BY DEF Rival
  <2> QED BY <1>1, <1>2, <1>a, <2>1 DEF Fair, OnTime
<1>6. InOrder(Board, Board', now)
  <2> SUFFICES ASSUME NEW i \in Held(o) \ Held(Board.orbit),
                      NEW j \in Pending(Board.orbit) \cap Pending(o),
                      Conflict(o[i], o[j])
               PROVE  ~Ahead(o, now, j, i, Since(Board, i, now))
      BY <1>2 DEF InOrder
  <2>1. Rival(o[i], c.orbit[i]) /\ Rival(o[j], c.orbit[j])
        BY <1>4
  <2>2. Conflict(c.orbit[i], c.orbit[j])
        BY <2>1 DEF Rival, Conflict
  <2>3. ~Ahead(c.orbit, now, j, i, Since(Board, i, now))
        BY <1>1, <1>3, <2>2 DEF Fair, InOrder
  <2>4. /\ o[i].prio = c.orbit[i].prio
        /\ o[j].prio = c.orbit[j].prio /\ o[j].enq = c.orbit[j].enq
        BY <2>1 DEF Rival
  <2> QED BY <2>3, <2>4 DEF Ahead
<1>7. Acyclic(Board'.orbit, now)
  <2>1. WaitFor(o, now) = WaitFor(c.orbit, now)
        BY RivalsWait
  <2> QED BY <1>1, <1>2, <2>1 DEF Fair, Acyclic
<1>8. Promotable(Board', now) = {}
  <2> SUFFICES ASSUME NEW i \in Promotable(Board', now) PROVE FALSE
      OBVIOUS
  <2>1. /\ i \in Pending(o) /\ o[i].due > now
        /\ Fresh(c.agent, o[i].agent, now) /\ Blockers(o, now, i) = {}
        BY <1>2 DEF Promotable
  <2>2. i \in DOMAIN o /\ o[i].agent = c.orbit[i].agent /\ o[i].due = c.orbit[i].due
        BY <1>4, <2>1 DEF Rival
  <2>3. i \in Promotable(c, now)
        BY <1>3, <2>1, <2>2 DEF Promotable
  <2> QED BY <1>1, <2>3
<1> QED BY <1>5, <1>6, <1>7, <1>8 DEF Serving, Fair

LEMMA ClaimQueue ==
    ASSUME IInv, NEW a \in Agent, NEW r \in Request, Claim(a, r)
    PROVE  Serving
<1>1. now \in Nat /\ Sound(Board)
      BY BoundAssumption DEF IInv
<1>2. PICK b \in Reconcile(Board, now) :
         \/ b.agent[a].status = "RETIRED" /\ Become(b)
         \/ /\ b.agent[a].status # "RETIRED"
            /\ \E c \in Admit(Touch(b, a, now), a, r, now) : Become(c)
      BY DEF Claim
<1>3. CASE Become(b)
  <2>1. Trimmed(Board, Board)
        BY DEF Trimmed, Rival
  <2> QED BY <1>1, <1>2, <1>3, <2>1, VerbServes
<1>4. CASE b.agent[a].status # "RETIRED" /\ \E c \in Admit(Touch(b, a, now), a, r, now) : Become(c)
  <2>1. PICK c \in Admit(Touch(b, a, now), a, r, now) : Become(c)
        BY <1>4
  <2>2. r \in RequestRow
        BY RequestAssumption DEF RequestRow
  <2>3. Sound(c)
    <3>1. Sound(b)
          BY <1>1, ReconcileKeeps
    <3>2. Sound(Touch(b, a, now)) /\ Touch(b, a, now).agent[a].status # "RETIRED"
          BY <1>1, <1>4, <3>1, TouchKeeps
    <3> QED BY <1>1, <2>1, <2>2, <3>2, AdmitKeeps
  <2>4. /\ Fair(Board, c, now)
        /\ c.seq = Board.seq =>
              \A i \in Promotable(c, now) : ~Fresh(Board.agent, Board.orbit[i].agent, now)
        BY <1>1, <1>2, <1>4, <2>1, <2>2, ClaimServes
  <2>5. Board' = c
        BY <2>1, <2>3, BecomeBoard
  <2> QED BY <2>4, <2>5, BoardIs DEF Serving
<1> QED BY <1>2, <1>3, <1>4

\* Release and CancelWait.
LEMMA CloseOneQueue ==
    ASSUME IInv, NEW a \in Agent, Alive(a), NEW i \in Live(orbit),
           NEW s \in {"RELEASED", "DENIED"},
           NEW b \in Reconcile([Touch(Board, a, now) EXCEPT !.orbit = Close(@, {i}, s)], now),
           Become(b)
    PROVE  Serving
<1> DEFINE t == Touch(Board, a, now)
           c == [t EXCEPT !.orbit = Close(t.orbit, {i}, s)]
<1>1. now \in Nat /\ Sound(Board)
      BY BoundAssumption DEF IInv
<1>2. Board.agent[a].status # "RETIRED"
      BY DEF Alive, Board
<1>3. Sound(t) /\ t.orbit = Board.orbit /\ t.seq = Board.seq
      BY <1>1, <1>2, TouchKeeps
<1> HIDE DEF t
<1>4. Trimmed(Board, t)
      BY <1>3 DEF Trimmed, Rival
<1>5. Sound(c) /\ Trimmed(t, c)
  <2>1. {i} \subseteq Live(t.orbit)
        BY <1>3, BoardIs
  <2> QED BY <1>3, <2>1, ClosePrunes, PrunedTrims
<1>6. b \in Reconcile(c, now)
      BY DEF t
<1> HIDE DEF c
<1>7. Trimmed(Board, c)
      BY <1>3, <1>4, <1>5, TrimmedOn
<1> QED BY <1>1, <1>5, <1>6, <1>7, VerbServes

LEMMA CancelTaskQueue ==
    ASSUME IInv, NEW k \in Task, CancelTask(k)
    PROVE  Serving
<1> DEFINE S == {i \in DOMAIN orbit : orbit[i].task = k}
           o == CloseAll(orbit, S, "RELEASED")
           d == [Board EXCEPT !.orbit = CloseAll(orbit, {i \in DOMAIN orbit : orbit[i].task = k}, "RELEASED"),
                              !.task[k].state = "ABORTED"]
<1>1. now \in Nat /\ Sound(Board)
      BY BoundAssumption DEF IInv
<1>2. Sound(d)
      BY <1>1, CancelledSound DEF CancelTask
<1>3. PICK b \in Reconcile(d, now) : Become(b)
      BY DEF CancelTask
<1>4. d.orbit = o /\ d.seq = seq
      BY DEF Board
<1>5. seq \in Nat /\ orbit \in [1..seq -> Row]
      BY <1>1, BoardIs DEF Sound, Typed, BoardRow
<1> HIDE DEF S
<1>6. Live(o) = Live(orbit) \ S
      BY <1>5, CloseAllEnds
<1>7. \A i \in 1..seq : i \notin S => o[i] = orbit[i]
      BY <1>5, CloseAllRows
<1> HIDE DEF o, d
<1>8. Trimmed(Board, d)
      BY <1>4, <1>6, <1>7, BoardIs DEF Trimmed, Rival
<1> QED BY <1>1, <1>2, <1>3, <1>8, VerbServes

LEMMA SweepQueue ==
    ASSUME IInv, Sweep
    PROVE  Serving
<1>1. now \in Nat /\ Sound(Board)
      BY BoundAssumption DEF IInv
<1>2. PICK b \in Reconcile(Board, now) : Become(b)
      BY DEF Sweep
<1>3. Trimmed(Board, Board)
      BY DEF Trimmed, Rival
<1> QED BY <1>1, <1>2, <1>3, VerbServes

LEMMA BailQueue ==
    ASSUME IInv, NEW a \in Agent, Bail(a)
    PROVE  Serving
<1>1. now \in Nat /\ Sound(Board)
      BY BoundAssumption DEF IInv
<1>2. Sound(Retire(Board, {a})) /\ Trimmed(Board, Retire(Board, {a}))
      BY <1>1, RetirePrunes, PrunedTrims
<1>3. PICK b \in Settle(Retire(Board, {a}), now) : Become(b)
      BY DEF Bail
<1> QED BY <1>1, <1>2, <1>3, VerbServes

LEMMA BeginConnectQueue ==
    ASSUME IInv, NEW k \in Task, BeginConnect(k)
    PROVE  Serving
<1>1. now \in Nat /\ Sound(Board)
      BY BoundAssumption DEF IInv
<1>2. PICK b \in Reconcile(Board, now) :
         Become([b EXCEPT !.orbit = Pin(@, WriteRows(b.orbit, k)),
                          !.task[k].state = "CONNECTING",
                          !.token = k,
                          !.fence = @ + 1])
      BY DEF BeginConnect
<1> DEFINE o == Pin(b.orbit, WriteRows(b.orbit, k))
<1>3. Sound(b)
      BY <1>1, ReconcileKeeps
<1>4. b \in BoardRow /\ b.orbit \in [1..b.seq -> Row]
      BY <1>3 DEF Sound, Typed
<1>5. orbit' = o /\ agent' = b.agent /\ seq' = b.seq
      BY <1>2, <1>4 DEF Become, BoardRow
<1>6. /\ DOMAIN o = DOMAIN b.orbit
      /\ \A i \in DOMAIN o : Rival(o[i], b.orbit[i]) /\ o[i].due = b.orbit[i].due
      BY <1>4 DEF Pin, Row, Rival
<1> HIDE DEF o
<1> QED BY <1>1, <1>5, <1>6, RelabelServes

LEMMA ConnectTooEarlyQueue ==
    ASSUME IInv, NEW k \in Task, ConnectTooEarly(k)
    PROVE  Serving
<1>1. now \in Nat /\ Sound(Board)
      BY BoundAssumption DEF IInv
<1>2. PICK b \in Reconcile(Board, now) : Become([b EXCEPT !.fence = @ + 1])
      BY DEF ConnectTooEarly
<1>3. Sound(b)
      BY <1>1, ReconcileKeeps
<1>4. b \in BoardRow
      BY <1>3 DEF Sound, Typed
<1>5. orbit' = b.orbit /\ agent' = b.agent /\ seq' = b.seq
      BY <1>2, <1>4 DEF Become, BoardRow
<1>6. \A i \in DOMAIN b.orbit : Rival(b.orbit[i], b.orbit[i])
      BY DEF Rival
<1> QED BY <1>1, <1>5, <1>6, RelabelServes

LEMMA EndConnectQueue ==
    ASSUME IInv, NEW k \in Task, EndConnect(k)
    PROVE  Serving
<1>1. now \in Nat /\ Sound(Board) /\ token = k
      BY BoundAssumption DEF IInv, EndConnect
<1>2. PICK d \in {Merged(Board, k), RolledBack(Board, k)} :
         \E b \in Reconcile(d, now) : Become(b)
      BY DEF EndConnect
<1>3. Sound(d)
      BY <1>1, <1>2, EndedSound
<1>4. orbit \in [1..seq -> Row] /\ seq \in Nat
      BY <1>1, BoardIs DEF Sound, Typed, BoardRow
<1>5. CASE d = Merged(Board, k)
  <2> DEFINE M == WriteRows(orbit, k) \cap Held(orbit)
             o == Close(orbit, M, "RELEASED")
  <2>1. d.orbit = o /\ d.seq = seq
        BY <1>5 DEF Merged, Board
  <2> HIDE DEF M
  <2>2. Held(o) = Held(orbit) \ M /\ Pending(o) = Pending(orbit) \ M
        BY <1>4, CloseEnds
  <2>3. \A i \in 1..seq : i \notin M => o[i] = orbit[i]
        BY <1>4, CloseRows
  <2> HIDE DEF o
  <2>4. Trimmed(Board, d)
        BY <2>1, <2>2, <2>3, BoardIs DEF Trimmed, Rival, Live
  <2> QED BY <1>1, <1>2, <1>3, <2>4, VerbServes
<1>6. CASE d = RolledBack(Board, k)
  <2> DEFINE U == {i \in DOMAIN orbit : orbit[i].task = k}
             o == Unpin(orbit, U)
  <2>1. d.orbit = o /\ d.seq = seq
        BY <1>6 DEF RolledBack, Board
  <2> HIDE DEF U
  <2>2. \A i \in 1..seq : Rival(o[i], orbit[i]) /\ o[i].due = orbit[i].due
        BY <1>4 DEF Unpin, Row, Rival
  <2> HIDE DEF o
  <2>3. Trimmed(Board, d)
        BY <2>1, <2>2, BoardIs DEF Trimmed
  <2> QED BY <1>1, <1>2, <1>3, <2>3, VerbServes
<1> QED BY <1>2, <1>5, <1>6

\* A renewal moves a deadline.
LEMMA RenewStill ==
    ASSUME IInv, NEW a \in Agent, NEW i, Renew(a, i)
    PROVE  Still
<1> DEFINE o == [orbit EXCEPT ![i].due = now + orbit[i].ttl]
<1>1. orbit' = o
      BY DEF Renew, Become, Touch, Board
<1>2. orbit \in [1..seq -> Row]
      BY BoardIs DEF IInv, Sound, Typed
<1>3. DOMAIN o = 1..seq /\ \A j \in 1..seq : o[j].state = orbit[j].state
      BY <1>2 DEF Row
<1> HIDE DEF o
<1> QED BY <1>1, <1>2, <1>3 DEF Still

\* Every step serves the queue or moves no row.
LEMMA NextServes == IInv /\ [Next]_vars => Serving \/ Still
<1> SUFFICES ASSUME IInv, [Next]_vars PROVE Serving \/ Still
    OBVIOUS
<1>1. CASE Tick \/ StopConnect \/ UNCHANGED vars
      BY <1>1 DEF Tick, StopConnect, vars, Still
<1>2. CASE \E a \in Agent : \E w \in Windows \cup {agent[a].window} : Heartbeat(a, w)
      BY <1>2 DEF Heartbeat, Still
<1>3. CASE \E a \in Agent, r \in Request : Claim(a, r)
      BY <1>3, ClaimQueue
<1>4. CASE \E a \in Agent, i \in 1..seq : Renew(a, i)
      BY <1>4, RenewStill
<1>5. CASE \E a \in Agent, i \in 1..seq : Release(a, i)
  <2>1. PICK a \in Agent, i \in 1..seq : Release(a, i)
        BY <1>5
  <2>2. i \in Live(orbit) /\ Alive(a)
        BY <2>1 DEF Release, Live
  <2>3. Serving
        BY <2>1, <2>2, CloseOneQueue DEF Release
  <2> QED BY <2>3
<1>6. CASE \E a \in Agent, i \in 1..seq : CancelWait(a, i)
  <2>1. PICK a \in Agent, i \in 1..seq : CancelWait(a, i)
        BY <1>6
  <2>2. i \in Live(orbit) /\ Alive(a)
        BY <2>1 DEF CancelWait, Live
  <2>3. Serving
        BY <2>1, <2>2, CloseOneQueue DEF CancelWait
  <2> QED BY <2>3
<1>7. CASE \E k \in Task : CancelTask(k)
      BY <1>7, CancelTaskQueue
<1>8. CASE \E a \in Agent, k \in Task : Start(a, k)
  <2>1. orbit' = orbit
        BY <1>8 DEF Start, Become, Touch, Board
  <2> QED BY <2>1 DEF Still
<1>9. CASE \E a \in Agent, k \in Task : Finish(a, k)
  <2>1. orbit' = orbit
        BY <1>9 DEF Finish, Become, Touch, Board
  <2> QED BY <2>1 DEF Still
<1>10. CASE Sweep
      BY <1>10, SweepQueue
<1>11. CASE \E a \in Agent : Bail(a)
      BY <1>11, BailQueue
<1>12. CASE \E k \in Task : BeginConnect(k)
      BY <1>12, BeginConnectQueue
<1>13. CASE \E k \in Task : ConnectTooEarly(k)
      BY <1>13, ConnectTooEarlyQueue
<1>14. CASE \E k \in Task : EndConnect(k)
      BY <1>14, EndConnectQueue
<1> QED BY <1>1, <1>2, <1>3, <1>4, <1>5, <1>6, <1>7, <1>8, <1>9, <1>10, <1>11,
           <1>12, <1>13, <1>14 DEF Next

\* No verb gives a lease out of the queue to an owner that fell silent, or to
\* a request whose deadline has passed.
THEOREM GrantsOnTime == Spec => GrantsOnlyTheLiving
<1>1. IInv /\ [Next]_vars =>
         [\A i \in Pending(orbit) : orbit'[i].state = "HELD" =>
             orbit[i].due > now /\ Fresh(agent', orbit[i].agent, now)]_vars
  <2> SUFFICES ASSUME IInv, [Next]_vars,
                      NEW i \in Pending(orbit), orbit'[i].state = "HELD"
               PROVE  orbit[i].due > now /\ Fresh(agent', orbit[i].agent, now)
      OBVIOUS
  <2>1. Serving \/ Still
        BY NextServes
  <2>2. ~Still
        BY DEF Still, Pending
  <2> QED BY <2>1, <2>2, BoardIs DEF Serving, Fair, OnTime
<1> QED BY <1>1, Inductive, PTL DEF Spec, GrantsOnlyTheLiving

\* No verb, claims included, grants a lease past a conflicting request that
\* waited before, still waits and is ahead of it.
THEOREM ServedInOrder == Spec => NoOvertaking
<1>1. IInv /\ [Next]_vars =>
         [\A i \in Held(orbit') \ Held(orbit), j \in Pending(orbit) \cap Pending(orbit') :
             Conflict(orbit'[i], orbit'[j]) =>
                 ~Outranks([orbit' EXCEPT ![i].enq = IF i \in DOMAIN orbit THEN orbit[i].enq ELSE now],
                           now, j, i)]_vars
  <2> SUFFICES ASSUME IInv, [Next]_vars,
                      NEW i \in Held(orbit') \ Held(orbit),
                      NEW j \in Pending(orbit) \cap Pending(orbit'),
                      Conflict(orbit'[i], orbit'[j])
               PROVE  ~Outranks([orbit' EXCEPT ![i].enq =
                                    IF i \in DOMAIN orbit THEN orbit[i].enq ELSE now], now, j, i)
      OBVIOUS
  <2> DEFINE e == IF i \in DOMAIN orbit THEN orbit[i].enq ELSE now
  <2>1. Serving \/ Still
        BY NextServes
  <2>2. ~Still
        BY DEF Still, Held
  <2>3. ~Ahead(orbit', now, j, i, e)
    <3>1. e = Since(Board, i, now)
          BY BoardIs DEF Since
    <3> HIDE DEF e
    <3> QED BY <2>1, <2>2, <3>1, BoardIs DEF Serving, Fair, InOrder
  <2>4. orbit' \in [1..seq' -> Row] /\ seq' \in Nat
    <3>1. IInv'
          BY NextIInv
    <3> QED BY <3>1, BoardIs DEF IInv, Sound, Typed, BoardRow
  <2>5. i \in 1..seq' /\ j \in 1..seq' /\ i # j
        BY <2>4 DEF Held, Pending
  <2> HIDE DEF e
  <2>6. ~Outranks([orbit' EXCEPT ![i].enq = e], now, j, i)
        BY <2>3, <2>4, <2>5, AheadIs
  <2> QED BY <2>6 DEF e
<1> QED BY <1>1, Inductive, PTL DEF Spec, NoOvertaking

\* A step that moves a row leaves no cycle of agents that wait for each other,
\* whichever cycles the sweep found and in whatever order it broke them.
THEOREM CyclesAreBroken == Spec => NoDeadlockLeftBehind
<1>1. IInv /\ [Next]_vars =>
         [(\E i \in DOMAIN orbit' : i \notin DOMAIN orbit \/ orbit'[i].state # orbit[i].state)
             => Acyclic(orbit', now)]_vars
  <2> SUFFICES ASSUME IInv, [Next]_vars, NEW i \in DOMAIN orbit',
                      i \notin DOMAIN orbit \/ orbit'[i].state # orbit[i].state
               PROVE  Acyclic(orbit', now)
      OBVIOUS
  <2>1. Serving \/ Still
        BY NextServes
  <2>2. ~Still
        BY DEF Still
  <2> QED BY <2>1, <2>2, BoardIs DEF Serving, Fair
<1> QED BY <1>1, Inductive, PTL DEF Spec, NoDeadlockLeftBehind

\* Whatever ends a lease serves the queue in the same critical section.
THEOREM NoLostWakeup == Spec => WakesWaiters
<1>1. IInv /\ [Next]_vars =>
         [(seq' = seq /\ Held(orbit) \ Held(orbit') # {}) =>
             \A i \in Promotable(Board', now) : ~Fresh(agent, orbit[i].agent, now)]_vars
  <2> SUFFICES ASSUME IInv, [Next]_vars, seq' = seq, Held(orbit) \ Held(orbit') # {}
               PROVE  \A i \in Promotable(Board', now) : ~Fresh(agent, orbit[i].agent, now)
      OBVIOUS
  <2>1. Serving \/ Still
        BY NextServes
  <2>2. ~Still
        BY DEF Still, Held
  <2> QED BY <2>1, <2>2 DEF Serving
<1> QED BY <1>1, Inductive, PTL DEF Spec, WakesWaiters

-----------------------------------------------------------------------------
\* One sweep is enough

\* A record keeps its value when a column is set to what it is.
LEMMA SameColumn ==
    ASSUME NEW b \in BoardRow, NEW o, o = b.orbit
    PROVE  [b EXCEPT !.orbit = o] = b
BY DEF BoardRow

\* Nobody is closed.
LEMMA CloseNobody ==
    ASSUME NEW n \in Nat, NEW o \in [1..n -> Row], NEW S, S \cap Live(o) = {}, NEW s
    PROVE  /\ S = {} => Close(o, S, s) = o
           /\ CloseAll(o, S, s) = o
<1>1. \A x : Close(o, {}, x) = o
      BY DEF Close
<1>2. Held(o) \cap S = {}
      BY DEF Live
<1>3. Close(o, Held(o) \cap S, s) = o
      BY <1>1, <1>2
<1>4. Pending(o) \cap S = {}
      BY DEF Live
<1> QED BY <1>1, <1>3, <1>4 DEF CloseAll

\* A board without a wait cycle has no victims: nothing is denied.
LEMMA NothingDenied ==
    ASSUME NEW o, NEW n \in Nat, o \in [1..n -> Row], NEW t, Acyclic(o, t)
    PROVE  Denials(o, t) = {{}}
<1>1. Close(o, {}, "DENIED") = o
      BY DEF Close
<1>2. Denied(o, t, {}) = {}
      BY <1>1 DEF Denied, Victims, Acyclic
<1>3. ASSUME NEW D \in Denials(o, t), D # {}
      PROVE  FALSE
  <2>1. PICK f \in [1..Cardinality(D) -> D] :
              /\ {f[m] : m \in DOMAIN f} = D
              /\ \A m \in DOMAIN f : f[m] \in Denied(o, t, {f[k] : k \in 1..(m - 1)})
        BY DEF Denials
  <2>2. D \in SUBSET (1..n)
        BY DEF Denials, Pending
  <2>3. Cardinality(D) \in Nat /\ Cardinality(D) # 0
    <3>1. IsFiniteSet(1..n)
      <4>1. 1 \in Int /\ n \in Int
            OBVIOUS
      <4> QED BY <4>1, FS_Interval, Zenon
    <3>2. IsFiniteSet(D)
          BY <2>2, <3>1, FS_Subset, Zenon
    <3>3. Cardinality(D) \in Nat
          BY <3>2, FS_CardinalityType, Zenon
    <3>4. Cardinality(D) # 0
          BY <1>3, <3>2, FS_EmptySet, Zenon
    <3> QED BY <3>3, <3>4
  <2>4. 1 \in DOMAIN f
        BY <2>3
  <2>5. {f[k] : k \in 1..(1 - 1)} = {}
        OBVIOUS
  <2>6. f[1] \in Denied(o, t, {})
        BY <2>1, <2>4, <2>5
  <2> QED BY <1>2, <2>6
<1>4. {} \in Denials(o, t)
  <2>1. Cardinality({}) = 0
        BY FS_EmptySet, Zenon
  <2>2. 1..0 = {}
        OBVIOUS
  <2> DEFINE f == [m \in {} |-> 0]
  <2>3. f \in [1..Cardinality({}) -> {}]
        BY <2>1, <2>2
  <2>4. {f[m] : m \in DOMAIN f} = {} /\ DOMAIN f = {}
        OBVIOUS
  <2> HIDE DEF f
  <2>5. \E g \in [1..Cardinality({}) -> {}] :
              /\ {g[m] : m \in DOMAIN g} = {}
              /\ \A m \in DOMAIN g : g[m] \in Denied(o, t, {g[k] : k \in 1..(m - 1)})
    <3>1. \A m \in DOMAIN f : f[m] \in Denied(o, t, {f[k] : k \in 1..(m - 1)})
          BY <2>4
    <3> WITNESS f \in [1..Cardinality({}) -> {}]
    <3> QED BY <2>4, <3>1
  <2> QED BY <1>1, <2>5 DEF Denials
<1> QED BY <1>3, <1>4

\* A board for which every stage of a reconciliation has nothing to do stays
\* what it is.
LEMMA NothingToDo ==
    ASSUME NEW c, Sound(c), NEW t \in Nat,
           \A i \in Held(c.orbit) : c.orbit[i].pinned \/ c.orbit[i].due > t,
           Zombies(c, t) = {}, InTime(c, t), Acyclic(c.orbit, t), Promotable(c, t) = {}
    PROVE  Reconcile(c, t) = {c}
<1>1. /\ c \in BoardRow /\ c.seq \in Nat /\ c.orbit \in [1..c.seq -> Row] /\ c.fence \in Nat
      /\ c.agent \in [Agent -> AgentRow] /\ c.task \in [Task -> TaskRow]
      BY DEF Sound, Typed, BoardRow
<1>2. \A i \in 1..c.seq : c.orbit[i].due \in Nat
      BY <1>1 DEF Row
<1>3. Held(c.orbit) \subseteq 1..c.seq /\ Pending(c.orbit) \subseteq 1..c.seq
      BY <1>1 DEF Held, Pending
<1>4. \A s : Close(c.orbit, {}, s) = c.orbit
      BY <1>1 DEF Close
<1>5. Expire(c, t) = c
  <2>1. {i \in Held(c.orbit) : ~c.orbit[i].pinned /\ c.orbit[i].due <= t} = {}
        BY <1>2, <1>3
  <2>2. Expire(c, t) = [c EXCEPT !.orbit = Close(c.orbit, {}, "EXPIRED")]
        BY <2>1 DEF Expire
  <2>3. Close(c.orbit, {}, "EXPIRED") = c.orbit
        BY <1>4
  <2> QED BY <1>1, <2>2, <2>3, SameColumn
<1>6. Retire(c, {}) = c
  <2>1. {i \in DOMAIN c.orbit : c.orbit[i].agent \in {}} = {}
        OBVIOUS
  <2>2. CloseAll(c.orbit, {i \in DOMAIN c.orbit : c.orbit[i].agent \in {}}, "EXPIRED") = c.orbit
    <3>1. {} \cap Live(c.orbit) = {}
          OBVIOUS
    <3> QED BY <1>1, <2>1, <3>1, CloseNobody
  <2>3. [a \in Agent |-> IF a \in {} THEN [status |-> "RETIRED", beat |-> 0, window |-> AgentTTL]
                                     ELSE c.agent[a]] = c.agent
        BY <1>1
  <2>4. [k \in Task |-> IF c.task[k].agent \in {} /\ c.task[k].state \in {"STARTED", "CONNECTING"}
                        THEN Requeued(c.task[k]) ELSE c.task[k]] = c.task
        BY <1>1
  <2>5. (IF c.token \in Task /\ c.task[c.token].agent \in {} THEN NoTask ELSE c.token) = c.token
        OBVIOUS
  <2>6. Retire(c, {}) = [c EXCEPT !.orbit = c.orbit, !.agent = c.agent,
                                  !.task = c.task, !.token = c.token]
        BY <2>2, <2>3, <2>4, <2>5 DEF Retire
  <2> QED BY <1>1, <2>6 DEF BoardRow
<1>7. TimeOut(c, t) = c
  <2>1. {i \in Pending(c.orbit) : c.orbit[i].due <= t} = {}
        BY <1>2, <1>3 DEF InTime
  <2>2. TimeOut(c, t) = [c EXCEPT !.orbit = Close(c.orbit, {}, "DENIED")]
        BY <2>1 DEF TimeOut
  <2>3. Close(c.orbit, {}, "DENIED") = c.orbit
        BY <1>4
  <2> QED BY <1>1, <2>2, <2>3, SameColumn
<1>8. BreakCycles(c, t) = {c}
  <2>1. Denials(c.orbit, t) = {{}}
        BY <1>1, NothingDenied
  <2>2. [c EXCEPT !.orbit = Close(c.orbit, {}, "DENIED")] = c
    <3>1. Close(c.orbit, {}, "DENIED") = c.orbit
          BY <1>4
    <3> QED BY <1>1, <3>1, SameColumn
  <2> QED BY <2>1, <2>2 DEF BreakCycles
<1>9. Promote(c, t) = c
  <2>1. Cardinality(Promotable(c, t)) = 0
        BY FS_EmptySet
  <2> DEFINE o == [i \in DOMAIN c.orbit |->
                     IF i \in Promotable(c, t)
                     THEN [c.orbit[i] EXCEPT !.state = "HELD",
                                !.fence = c.fence + Place(c.orbit, t, Promotable(c, t), i),
                                !.due   = t + c.orbit[i].ttl]
                     ELSE c.orbit[i]]
  <2>2. o = c.orbit
        BY <1>1
  <2>3. Promote(c, t) = [c EXCEPT !.orbit = o, !.fence = c.fence + Cardinality(Promotable(c, t))]
        BY DEF Promote
  <2> HIDE DEF o
  <2>4. c.fence + Cardinality(Promotable(c, t)) = c.fence
        BY <1>1, <2>1
  <2> QED BY <1>1, <2>2, <2>3, <2>4 DEF BoardRow
<1>10. Zombies(Expire(c, t), t) = {}
      BY <1>5
<1>11. Reconcile(c, t) = {Promote(d, t) : d \in BreakCycles(c, t)}
      BY <1>5, <1>6, <1>7, <1>10 DEF Reconcile
<1> QED BY <1>8, <1>9, <1>11

\* A sweep leaves nothing to do: what it found due it closed; what it granted
\* is not due yet; and an agent that it spared, it spares again, because it
\* left the rows and the task that spared it alone.
LEMMA SweptSettles ==
    ASSUME NEW b, Secure(b), NEW t \in Nat, NEW c \in Reconcile(b, t)
    PROVE  Acyclic(c.orbit, t) /\ Reconcile(c, t) = {c}
<1> DEFINE x == Expire(b, t)
           Z == Zombies(x, t)
           y == Retire(x, Z)
<1>1. PICK d \in BreakCycles(TimeOut(y, t), t) : c = Promote(d, t)
      BY DEF Reconcile
<1>2. Secure(x)
      BY ExpireSecures
<1>3. \A i \in Held(x.orbit) : x.orbit[i].pinned \/ x.orbit[i].due > t
  <2> DEFINE due == {i \in Held(b.orbit) : ~b.orbit[i].pinned /\ b.orbit[i].due <= t}
  <2>1. b \in BoardRow /\ b.seq \in Nat /\ b.orbit \in [1..b.seq -> Row]
        BY DEF Secure, Sound, Typed, BoardRow
  <2>2. x.orbit = Close(b.orbit, due, "EXPIRED")
        BY <2>1 DEF Expire, BoardRow
  <2>3. \A i \in Held(b.orbit) \ due : b.orbit[i].pinned \/ b.orbit[i].due > t
        BY <2>1 DEF Row, Held
  <2> HIDE DEF due, x
  <2>4. Held(x.orbit) = Held(b.orbit) \ due
        BY <2>1, <2>2, CloseEnds
  <2>5. \A i \in 1..b.seq : i \notin due => x.orbit[i] = b.orbit[i]
        BY <2>1, <2>2, CloseRows
  <2>6. Held(b.orbit) \subseteq 1..b.seq
        BY <2>1 DEF Held
  <2> QED BY <2>3, <2>4, <2>5, <2>6
<1> HIDE DEF x
<1>4. Z \in SUBSET Agent
      BY DEF Zombies
<1>5. Sound(x) /\ Sound(y) /\ Pruned(x, y) /\ Mourned(x, y)
      BY <1>2, <1>4, RetirePrunes DEF Secure
<1>6. /\ y.agent = [a \in Agent |->
                      IF a \in Z THEN [status |-> "RETIRED", beat |-> 0, window |-> AgentTTL]
                                 ELSE x.agent[a]]
      /\ \A k \in Task : x.task[k].agent \notin Z => y.task[k] = x.task[k]
  <2>1. x \in BoardRow
        BY <1>5 DEF Sound, Typed
  <2>2. y.task = [k \in Task |->
                       IF x.task[k].agent \in Z /\ x.task[k].state \in {"STARTED", "CONNECTING"}
                       THEN Requeued(x.task[k]) ELSE x.task[k]]
        BY <2>1 DEF Retire, BoardRow
  <2>3. y.agent = [a \in Agent |->
                      IF a \in Z THEN [status |-> "RETIRED", beat |-> 0, window |-> AgentTTL]
                                 ELSE x.agent[a]]
        BY <2>1 DEF Retire, BoardRow
  <2> HIDE DEF y, Z
  <2> QED BY <2>2, <2>3
<1>a. ASSUME NEW i \in DOMAIN x.orbit, x.orbit[i].pinned
      PROVE  x.orbit[i].agent \notin Z
  <2>1. x.task[x.orbit[i].task].state = "CONNECTING" /\ i \in Live(x.orbit)
        BY <1>2, <1>a DEF Secure, Pinned, Live, Held
  <2>2. x.task[x.orbit[i].task].agent = x.orbit[i].agent
        BY <1>2, <2>1 DEF Secure, Owned
  <2>3. Merging(x, x.orbit[i].agent)
        BY <1>a, <2>1, <2>2 DEF Merging
  <2> QED BY <2>3 DEF Zombies
<1>b. \A a \in Agent : Stale(x.agent, a, t) /\ a \notin Z => Merging(x, a)
      BY DEF Zombies
<1> HIDE DEF Z
<1>7. Secure(y) /\ PinKept(x, y)
      BY <1>2, <1>4, <1>a, RetireSecures
<1> HIDE DEF y
<1>8. Secure(c) /\ PinKept(x, c)
  <2>1. Secure(c) /\ PinKept(y, c)
        BY <1>1, <1>7, ServeSecures
  <2> QED BY <1>7, <2>1, PinKeptOn
<1>9. /\ Sound(d) /\ Pruned(y, d) /\ d.agent = y.agent /\ d.task = y.task
      /\ InTime(d, t) /\ Acyclic(d.orbit, t)
      BY <1>1, <1>5, ServePrunes
<1>10. Pruned(x, d)
      BY <1>5, <1>9, PrunedOn
<1> DEFINE P == Promotable(d, t)
<1>c. /\ c.agent = d.agent /\ c.task = d.task /\ c.seq = d.seq
      BY <1>1, <1>9, PromoteRows
<1>d. \A j \in 1..d.seq :
         /\ j \notin P => c.orbit[j] = d.orbit[j]
         /\ j \in P => Rival([c.orbit[j] EXCEPT !.state = "PENDING"], d.orbit[j])
      BY <1>1, <1>9, PromoteRows
<1>e. Held(c.orbit) = Held(d.orbit) \cup P /\ Pending(c.orbit) = Pending(d.orbit) \ P
      BY <1>1, <1>9, PromoteRows
<1>11. /\ \A j \in 1..d.seq : j \notin P => c.orbit[j] = d.orbit[j]
       /\ Held(c.orbit) = Held(d.orbit) \cup P
       /\ Pending(c.orbit) = Pending(d.orbit) \ P
       /\ c.agent = d.agent /\ c.task = d.task /\ c.seq = d.seq
  <2> HIDE DEF P
  <2> QED BY <1>c, <1>d, <1>e
<1>12. Promotable(c, t) = {} /\ Acyclic(c.orbit, t)
      BY <1>1, <1>9, PromoteSettles, PromoteAcyclic
<1>13. /\ d.orbit \in [1..d.seq -> Row] /\ d.seq = x.seq /\ x.orbit \in [1..d.seq -> Row]
       /\ Held(d.orbit) \subseteq 1..d.seq /\ Pending(d.orbit) \subseteq 1..d.seq
      BY <1>5, <1>9, <1>10 DEF Sound, Typed, Held, Pending, Pruned
<1>14. P \subseteq Pending(d.orbit)
      BY DEF Promotable
<1>15. \A i \in P : c.orbit[i].due = t + d.orbit[i].ttl
  <2> SUFFICES ASSUME NEW i \in P PROVE c.orbit[i].due = t + d.orbit[i].ttl
      OBVIOUS
  <2> DEFINE f == d.fence + Place(d.orbit, t, P, i)
             e == t + d.orbit[i].ttl
  <2>0. i \in DOMAIN d.orbit /\ d.orbit[i] \in Row
        BY <1>13, <1>14
  <2>1. c.orbit = [j \in DOMAIN d.orbit |->
                     IF j \in P
                     THEN [d.orbit[j] EXCEPT !.state = "HELD",
                                             !.fence = d.fence + Place(d.orbit, t, P, j),
                                             !.due   = t + d.orbit[j].ttl]
                     ELSE d.orbit[j]]
    <3>1. d \in BoardRow
          BY <1>9 DEF Sound, Typed
    <3> QED BY <1>1, <3>1 DEF Promote, BoardRow
  <2>2. c.orbit[i] = [d.orbit[i] EXCEPT !.state = "HELD", !.fence = f, !.due = e]
        BY <2>0, <2>1
  <2> HIDE DEF f, e, P
  <2>3. c.orbit[i].due = e
        BY <2>0, <2>2 DEF Row
  <2> QED BY <2>3 DEF e
<1> HIDE DEF P
<1>16. \A i \in Held(d.orbit) : d.orbit[i] = x.orbit[i] /\ i \in Held(x.orbit)
      BY <1>10, <1>13 DEF Pruned, Live, Held
<1>17. ASSUME NEW i \in Held(c.orbit)
       PROVE  c.orbit[i].pinned \/ c.orbit[i].due > t
  <2>1. CASE i \in P
    <3>1. d.orbit[i].ttl \in Nat \ {0}
          BY <1>13, <1>14, <2>1 DEF Row
    <3> QED BY <1>15, <2>1, <3>1
  <2>2. CASE i \notin P
    <3>1. i \in Held(d.orbit)
          BY <1>11, <2>2
    <3>2. c.orbit[i] = x.orbit[i] /\ i \in Held(x.orbit)
          BY <1>11, <1>13, <1>16, <2>2, <3>1
    <3> QED BY <1>3, <3>2
  <2> QED BY <2>1, <2>2
<1>18. InTime(c, t)
      BY <1>9, <1>11, <1>13 DEF InTime
<1>19. Zombies(c, t) = {}
  <2> SUFFICES ASSUME NEW a \in Agent, Stale(c.agent, a, t), ~Merging(c, a) PROVE FALSE
      BY DEF Zombies
  <2>1. c.agent = y.agent
        BY <1>9, <1>11
  <2>2. a \notin Z /\ y.agent[a] = x.agent[a]
        BY <1>6, <2>1 DEF Stale
  <2>3. Merging(x, a)
        BY <1>b, <2>1, <2>2 DEF Stale
  <2>4. PICK i \in DOMAIN x.orbit : /\ x.orbit[i].pinned
                                    /\ x.task[x.orbit[i].task].state = "CONNECTING"
                                    /\ x.task[x.orbit[i].task].agent = a
        BY <2>3 DEF Merging
  <2>5. i \in Held(x.orbit) /\ x.orbit[i].task \in Task /\ i \in 1..d.seq
    <3>1. i \in 1..d.seq /\ x.orbit[i] \in Row
          BY <1>13, <2>4
    <3>2. x.orbit[i].state = "HELD"
          BY <1>2, <2>4 DEF Secure, Pinned
    <3>3. x.orbit[i].task \in Task
          BY <3>1 DEF Row
    <3> QED BY <2>4, <3>1, <3>2, <3>3 DEF Held
  <2>6. i \in DOMAIN c.orbit /\ c.orbit[i].state = "HELD" /\ c.orbit[i].pinned
        BY <1>8, <2>4 DEF PinKept
  <2>7. i \notin P
    <3>1. i \in Pending(d.orbit) => i \in Pending(x.orbit)
          BY <1>10, <1>13 DEF Pruned, Live, Pending
    <3> QED BY <1>14, <2>5, <3>1 DEF Held, Pending
  <2>8. c.orbit[i] = x.orbit[i]
    <3>1. i \in Held(c.orbit)
          BY <2>6 DEF Held
    <3> QED BY <1>11, <1>16, <2>5, <2>7, <3>1
  <2>9. c.task[x.orbit[i].task] = x.task[x.orbit[i].task]
        BY <1>6, <1>9, <1>11, <2>2, <2>4, <2>5
  <2>10. Merging(c, a)
        BY <2>4, <2>6, <2>8, <2>9 DEF Merging
  <2> QED BY <2>10
<1>20. Reconcile(c, t) = {c}
  <2>1. Sound(c)
        BY <1>8 DEF Secure
  <2> QED BY <1>12, <1>17, <1>18, <1>19, <2>1, NothingToDo
<1> QED BY <1>12, <1>20

\* One sweep is enough: it leaves no cycle, and a second one at the same
\* instant changes nothing.
THEOREM OneSweepSuffices == ~ForeignStart => (Spec => []SweepSettles)
<1>1. PInv => SweepSettles
  <2> SUFFICES ASSUME PInv, NEW b \in Reconcile(Board, now)
               PROVE  Acyclic(b.orbit, now) /\ Reconcile(b, now) = {b}
      BY DEF SweepSettles
  <2>1. now \in Nat /\ Secure(Board)
        BY BoundAssumption DEF PInv, IInv
  <2> QED BY <2>1, SweptSettles
<1> QED BY <1>1, PinsInductive, PTL
=============================================================================
