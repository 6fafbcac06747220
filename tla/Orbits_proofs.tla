---------------------------- MODULE Orbits_proofs ----------------------------
(***************************************************************************)
(* The lease authority is safe for every number of agents, tasks, cells    *)
(* and rows, every policy and every mix of requests.                       *)
(*                                                                         *)
(* The first part is about boards: what the stages of a critical section   *)
(* preserve, whatever board they find.  Sound gathers what they all need   *)
(* and all keep.  The inductive invariant says that the tables are Sound   *)
(* whenever no critical section is under way.  Each verb then is a chain   *)
(* of the stages that keep a board sound.                                  *)
(***************************************************************************)
EXTENDS Orbits, TLAPS, FiniteSetTheorems

BoardRow ==
    [orbit : UNION {[1..n -> Row] : n \in Nat}, agent : [Agent -> AgentRow],
     task : [Task -> TaskRow], token : Task \cup {NoTask}, seq : Nat, fence : Nat]

Typed(b) == b \in BoardRow /\ b.orbit \in [1..b.seq -> Row]

\* Leases that are held do not conflict.
NoConflict(o) == \A i, j \in Held(o) : i # j => ~Conflict(o[i], o[j])

\* Tokens were drawn before they were handed out.
Drawn(b) == \A i \in DOMAIN b.orbit : b.orbit[i].fence <= b.fence

Newest(o) ==
    \A i \in Held(o), j \in DOMAIN o :
        i # j /\ o[j].fence > 0 /\ Conflict(o[i], o[j]) => o[j].fence < o[i].fence

\* A retired agent has no live row and no task under way.
Gone(b) ==
    \A a \in Agent : b.agent[a].status = "RETIRED" =>
        /\ \A i \in Live(b.orbit) : b.orbit[i].agent # a
        /\ \A k \in Task : b.task[k].state = "STARTED" => b.task[k].agent # a

\* Whoever has the merge token is being merged.
Merges(b) == b.token \in Task => b.task[b.token].state = "CONNECTING"

Sound(b) == Typed(b) /\ NoConflict(b.orbit) /\ Drawn(b) /\ Newest(b.orbit) /\ Gone(b) /\ Merges(b)

-----------------------------------------------------------------------------
\* Closing rows takes exactly those out of the leases and out of the queue,
\* and leaves the owners alone.
LEMMA CloseEnds ==
    ASSUME NEW o, NEW n \in Nat, o \in [1..n -> Row], NEW S,
           NEW s \in {"RELEASED", "EXPIRED", "DENIED"}
    PROVE  LET c == Close(o, S, s)
           IN  /\ DOMAIN c = DOMAIN o
               /\ Held(c) = Held(o) \ S
               /\ Pending(c) = Pending(o) \ S
               /\ \A i \in DOMAIN o : c[i].agent = o[i].agent
BY DEF Close, Held, Pending, Row

\* Closing live rows, to any terminal state, keeps a board sound.
LEMMA CloseKeeps ==
    ASSUME NEW b, Sound(b), NEW S, S \subseteq Live(b.orbit),
           NEW s \in {"RELEASED", "EXPIRED", "DENIED"}
    PROVE  Sound([b EXCEPT !.orbit = Close(b.orbit, S, s)])
<1> DEFINE o == Close(b.orbit, S, s)
           c == [b EXCEPT !.orbit = o]
<1>1. b \in BoardRow /\ b.orbit \in [1..b.seq -> Row] /\ b.seq \in Nat
      BY DEF Sound, Typed, BoardRow
<1>2. o \in [1..b.seq -> Row] /\ DOMAIN o = DOMAIN b.orbit
      BY <1>1 DEF Close, Row, OrbitState
<1>3. c \in BoardRow /\ c.orbit = o /\ c.agent = b.agent /\ c.task = b.task
      /\ c.token = b.token /\ c.seq = b.seq /\ c.fence = b.fence
      BY <1>1, <1>2 DEF BoardRow
<1>4. Held(o) \subseteq Held(b.orbit) /\ Live(o) \subseteq Live(b.orbit)
      BY <1>1, CloseEnds DEF Live
<1>5. \A i \in DOMAIN o : /\ o[i].cells = b.orbit[i].cells
                          /\ o[i].mode = b.orbit[i].mode
                          /\ o[i].fence = b.orbit[i].fence
                          /\ o[i].agent = b.orbit[i].agent
      BY <1>1, <1>2 DEF Close, Row
<1>6. \A i, j \in DOMAIN o : Conflict(o[i], o[j]) <=> Conflict(b.orbit[i], b.orbit[j])
      BY <1>2, <1>5 DEF Conflict
<1>7. Held(o) \subseteq DOMAIN o /\ Live(o) \subseteq DOMAIN o
      BY DEF Held, Pending, Live
<1>a. Typed(c)
      BY <1>2, <1>3 DEF Typed
<1>b. NoConflict(c.orbit)
      BY <1>3, <1>4, <1>6, <1>7 DEF Sound, NoConflict
<1>c. Drawn(c)
      BY <1>2, <1>3, <1>5 DEF Sound, Drawn
<1>d. Newest(c.orbit)
      BY <1>2, <1>3, <1>4, <1>5, <1>6, <1>7 DEF Sound, Newest
<1>e. Gone(c)
      BY <1>3, <1>4, <1>5, <1>7 DEF Sound, Gone
<1>f. Merges(c)
      BY <1>3 DEF Sound, Merges
<1> QED BY <1>a, <1>b, <1>c, <1>d, <1>e, <1>f DEF Sound

\* Closing a set of rows leaves no row of the set alive.
LEMMA CloseAllEnds ==
    ASSUME NEW o, NEW n \in Nat, o \in [1..n -> Row], NEW S, NEW s \in {"RELEASED", "EXPIRED"}
    PROVE  /\ DOMAIN CloseAll(o, S, s) = DOMAIN o
           /\ Live(CloseAll(o, S, s)) = Live(o) \ S
           /\ \A i \in DOMAIN o : CloseAll(o, S, s)[i].agent = o[i].agent
<1> DEFINE H == Held(o) \cap S
           Q == Pending(o) \cap S
           c == Close(o, H, s)
<1>1. c \in [1..n -> Row]
      BY DEF Close, Row, OrbitState
<1>2. /\ DOMAIN c = DOMAIN o /\ Held(c) = Held(o) \ H /\ Pending(c) = Pending(o) \ H
      /\ \A i \in DOMAIN o : c[i].agent = o[i].agent
      <2> HIDE DEF H
      <2> QED BY CloseEnds
<1> HIDE DEF c
<1>3. /\ DOMAIN Close(c, Q, "DENIED") = DOMAIN c
      /\ Held(Close(c, Q, "DENIED")) = Held(c) \ Q
      /\ Pending(Close(c, Q, "DENIED")) = Pending(c) \ Q
      /\ \A i \in DOMAIN c : Close(c, Q, "DENIED")[i].agent = c[i].agent
      <2> HIDE DEF Q
      <2> QED BY <1>1, CloseEnds
<1>4. /\ Held(o) \ H = Held(o) \ S /\ (Pending(o) \ H) \ Q = Pending(o) \ S
      /\ (Held(o) \ H) \ Q = Held(o) \ S
      BY DEF Held, Pending
<1> QED BY <1>2, <1>3, <1>4 DEF CloseAll, Live, c

\* Leases and requests closed together keep a board sound.
LEMMA CloseAllKeeps ==
    ASSUME NEW b, Sound(b), NEW S, NEW s \in {"RELEASED", "EXPIRED"}
    PROVE  Sound([b EXCEPT !.orbit = CloseAll(b.orbit, S, s)])
<1> DEFINE H  == Held(b.orbit) \cap S
           Q  == Pending(b.orbit) \cap S
           b1 == [b EXCEPT !.orbit = Close(b.orbit, H, s)]
           b2 == [b1 EXCEPT !.orbit = Close(b1.orbit, Q, "DENIED")]
<1>1. b \in BoardRow /\ b.orbit \in [1..b.seq -> Row] /\ b.seq \in Nat
      BY DEF Sound, Typed, BoardRow
<1>2. Sound(b1)
      BY CloseKeeps DEF Live
<1>3. b1.orbit = Close(b.orbit, H, s)
      BY <1>1 DEF BoardRow
<1>4. Q \subseteq Live(b1.orbit)
      BY <1>1, <1>3 DEF Close, Held, Pending, Live, Row
<1>5. Sound(b2)
      <2> HIDE DEF b1, Q
      <2> QED BY <1>2, <1>4, CloseKeeps
<1>6. b2 = [b EXCEPT !.orbit = CloseAll(b.orbit, S, s)]
      BY <1>1, <1>3 DEF CloseAll, BoardRow
<1> HIDE DEF b2
<1> QED BY <1>5, <1>6

\* Rows may be rewritten as long as leases keep their cells, mode, owner,
\* state and token.
LEMMA RewriteKeeps ==
    ASSUME NEW b, Sound(b), NEW o \in [1..b.seq -> Row],
           \A i \in 1..b.seq : /\ o[i].cells = b.orbit[i].cells /\ o[i].mode = b.orbit[i].mode
                               /\ o[i].agent = b.orbit[i].agent /\ o[i].state = b.orbit[i].state
                               /\ o[i].fence = b.orbit[i].fence
    PROVE  Sound([b EXCEPT !.orbit = o])
<1> DEFINE c == [b EXCEPT !.orbit = o]
<1>1. b \in BoardRow /\ b.orbit \in [1..b.seq -> Row] /\ b.seq \in Nat
      BY DEF Sound, Typed, BoardRow
<1>2. o \in UNION {[1..n -> Row] : n \in Nat}
      BY <1>1
<1>3. /\ c.orbit = o /\ c.agent = b.agent /\ c.task = b.task
      /\ c.token = b.token /\ c.seq = b.seq /\ c.fence = b.fence
      BY <1>1 DEF BoardRow
<1>4. c \in BoardRow
      BY <1>1, <1>2 DEF BoardRow
<1> HIDE DEF c
<1>5. /\ Held(o) = Held(b.orbit) /\ Live(o) = Live(b.orbit)
      /\ Live(b.orbit) \subseteq 1..b.seq /\ Held(b.orbit) \subseteq 1..b.seq
      BY <1>1 DEF Held, Pending, Live
<1>6. \A j, k \in 1..b.seq : Conflict(o[j], o[k]) <=> Conflict(b.orbit[j], b.orbit[k])
      BY DEF Conflict
<1>a. Typed(c)
      BY <1>3, <1>4 DEF Typed
<1>b. NoConflict(o) /\ Newest(o)
      BY <1>1, <1>5, <1>6 DEF Sound, NoConflict, Newest
<1>c. Drawn(c)
      BY <1>1, <1>3 DEF Sound, Drawn
<1>d. Gone(c)
      BY <1>3, <1>5 DEF Sound, Gone
<1>e. Merges(c)
      BY <1>3 DEF Sound, Merges
<1>f. Sound(c)
      BY <1>3, <1>a, <1>b, <1>c, <1>d, <1>e DEF Sound
<1> QED BY <1>f DEF c

\* Tokens may be drawn, and a task may change hands and take or give back the
\* merge token, as long as nobody retired works on it and the merge token
\* stays with a task that is being merged.
LEMMA RetaskKeeps ==
    ASSUME NEW b, Sound(b), NEW k \in Task, NEW row \in TaskRow,
           NEW m \in Task \cup {NoTask}, NEW f \in Nat, f >= b.fence,
           row.state = "STARTED" /\ row.agent \in Agent
                => b.agent[row.agent].status # "RETIRED",
           m \in Task => \/ m = k /\ row.state = "CONNECTING"
                         \/ m # k /\ m = b.token
    PROVE  Sound([b EXCEPT !.task[k] = row, !.token = m, !.fence = f])
<1> DEFINE g == [b.task EXCEPT ![k] = row]
           c == [b EXCEPT !.task = g, !.token = m, !.fence = f]
<1>1. b \in BoardRow /\ b.orbit \in [1..b.seq -> Row] /\ b.seq \in Nat /\ b.fence \in Nat
      BY DEF Sound, Typed, BoardRow
<1>2. b.task \in [Task -> TaskRow]
      BY <1>1 DEF BoardRow
<1>3. g \in [Task -> TaskRow] /\ g[k] = row /\ \A j \in Task \ {k} : g[j] = b.task[j]
      BY <1>2
<1> HIDE DEF g
<1>4. /\ c.orbit = b.orbit /\ c.agent = b.agent /\ c.task = g
      /\ c.token = m /\ c.seq = b.seq /\ c.fence = f
      BY <1>1 DEF BoardRow
<1>5. c \in BoardRow
      BY <1>1, <1>3 DEF BoardRow
<1> HIDE DEF c
<1>a. Typed(c)
      BY <1>1, <1>4, <1>5 DEF Typed
<1>c. Drawn(c)
      <2>1. \A i \in DOMAIN b.orbit : b.orbit[i].fence \in Nat /\ b.orbit[i].fence <= b.fence
            BY <1>1 DEF Sound, Drawn, Row
      <2> QED BY <1>1, <1>4, <2>1 DEF Drawn
<1>d. Gone(c)
      <2> SUFFICES ASSUME NEW a \in Agent, b.agent[a].status = "RETIRED",
                          NEW j \in Task, g[j].state = "STARTED"
                   PROVE  g[j].agent # a
          BY <1>4 DEF Sound, Gone
      <2> QED BY <1>3 DEF Sound, Gone
<1>e. Merges(c)
      BY <1>3, <1>4, TaskAssumption DEF Sound, Merges
<1>f. Sound(c)
      BY <1>4, <1>a, <1>c, <1>d, <1>e DEF Sound
<1> QED BY <1>f DEF c, g

\* A verb of an agent that is not retired counts as a heartbeat.
LEMMA TouchKeeps ==
    ASSUME NEW b, Sound(b), NEW a \in Agent, b.agent[a].status # "RETIRED", NEW t \in Nat
    PROVE  /\ Sound(Touch(b, a, t))
           /\ Touch(b, a, t).orbit = b.orbit
           /\ Touch(b, a, t).task = b.task
           /\ Touch(b, a, t).token = b.token
           /\ Touch(b, a, t).seq = b.seq
           /\ Touch(b, a, t).fence = b.fence
           /\ Touch(b, a, t).agent[a].status = "WORKING"
<1> DEFINE c == Touch(b, a, t)
           g == [b.agent EXCEPT ![a] = [status |-> "WORKING", beat |-> t,
                                        window |-> b.agent[a].window]]
<1>1. b \in BoardRow /\ b.orbit \in [1..b.seq -> Row]
      BY DEF Sound, Typed
<1>2. b.agent \in [Agent -> AgentRow]
      BY <1>1 DEF BoardRow
<1>3. g \in [Agent -> AgentRow]
      BY <1>2 DEF AgentRow
<1>4. c.agent = g
      BY <1>1, <1>2 DEF Touch, BoardRow
<1>5. /\ c.orbit = b.orbit /\ c.task = b.task /\ c.token = b.token
      /\ c.seq = b.seq /\ c.fence = b.fence
      BY <1>1 DEF Touch, BoardRow
<1>6. c \in BoardRow
      BY <1>1, <1>3, <1>4 DEF Touch, BoardRow
<1>7. \A x \in Agent : g[x].status = "RETIRED" => b.agent[x].status = "RETIRED"
      BY <1>2
<1>8. Gone(c)
      BY <1>4, <1>5, <1>7 DEF Sound, Gone
<1> QED BY <1>1, <1>3, <1>4, <1>5, <1>6, <1>8 DEF Sound, Typed, NoConflict, Drawn, Newest, Merges

\* Stages of a reconciliation: leases that ran out, requests that are late,
\* and, whichever victims are chosen, requests that close a cycle.
LEMMA ExpireKeeps ==
    ASSUME NEW b, Sound(b), NEW t \in Nat
    PROVE  Sound(Expire(b, t))
BY CloseKeeps DEF Expire, Live

\* Requests past their queue deadline end; nothing is granted.
LEMMA TimeOutKeeps ==
    ASSUME NEW b, Sound(b), NEW t \in Nat
    PROVE  Sound(TimeOut(b, t))
BY CloseKeeps DEF TimeOut, Live

\* The victims of wait cycles are denied; nothing is granted.
LEMMA BreakCyclesKeeps ==
    ASSUME NEW b, Sound(b), NEW t \in Nat, NEW c \in BreakCycles(b, t)
    PROVE  Sound(c)
<1>1. PICK D \in Denials(b.orbit, t) : c = [b EXCEPT !.orbit = Close(b.orbit, D, "DENIED")]
      BY DEF BreakCycles
<1>2. D \subseteq Pending(b.orbit)
      BY DEF Denials
<1> QED BY <1>1, <1>2, CloseKeeps DEF Live

\* Bail and reclaim: the retired agents keep nothing, and a merge token whose
\* task is taken away goes with it.
LEMMA RetireKeeps ==
    ASSUME NEW b, Sound(b), NEW D \in SUBSET Agent
    PROVE  Sound(Retire(b, D))
<1> DEFINE theirs == {i \in DOMAIN b.orbit : b.orbit[i].agent \in D}
           o2 == CloseAll(b.orbit, theirs, "EXPIRED")
           b2 == [b EXCEPT !.orbit = o2]
           g  == [a \in Agent |->
                    IF a \in D THEN [status |-> "RETIRED", beat |-> 0, window |-> AgentTTL]
                               ELSE b.agent[a]]
           k  == [j \in Task |->
                    IF b.task[j].agent \in D /\ b.task[j].state \in {"STARTED", "CONNECTING"}
                    THEN Requeued(b.task[j]) ELSE b.task[j]]
           m  == IF b.token \in Task /\ b.task[b.token].agent \in D THEN NoTask ELSE b.token
           c  == Retire(b, D)
<1>1. b \in BoardRow /\ b.orbit \in [1..b.seq -> Row] /\ b.seq \in Nat
      BY DEF Sound, Typed, BoardRow
<1>2. Sound(b2)
      <2> HIDE DEF theirs
      <2> QED BY CloseAllKeeps
<1>3. /\ DOMAIN o2 = DOMAIN b.orbit
      /\ Live(o2) = Live(b.orbit) \ theirs
      /\ \A i \in DOMAIN b.orbit : o2[i].agent = b.orbit[i].agent
      <2> HIDE DEF theirs
      <2> QED BY <1>1, CloseAllEnds
<1>4. g \in [Agent -> AgentRow] /\ k \in [Task -> TaskRow] /\ m \in Task \cup {NoTask}
      BY <1>1, LimitAssumption, AgentAssumption DEF BoardRow, AgentRow, TaskRow, Requeued
<1>5. /\ c.orbit = o2 /\ c.agent = g /\ c.task = k /\ c.token = m
      /\ c.seq = b.seq /\ c.fence = b.fence /\ c \in BoardRow
      <2>1. o2 \in [1..b.seq -> Row] /\ b2.orbit = o2
            BY <1>1, <1>2 DEF Sound, Typed, BoardRow
      <2>2. c = [b EXCEPT !.orbit = o2, !.agent = g, !.task = k, !.token = m]
            BY <1>1 DEF Retire, BoardRow
      <2> HIDE DEF o2, g, k, m, c
      <2> QED BY <1>1, <1>4, <2>1, <2>2 DEF BoardRow
<1> HIDE DEF o2, c
<1>6. Gone(c)
      <2> SUFFICES ASSUME NEW a \in Agent, g[a].status = "RETIRED"
                   PROVE  /\ \A i \in Live(o2) : o2[i].agent # a
                          /\ \A j \in Task : k[j].state = "STARTED" => k[j].agent # a
          BY <1>5 DEF Gone
      <2>1. a \in D \/ b.agent[a].status = "RETIRED"
          OBVIOUS
      <2>2. Live(o2) \subseteq DOMAIN b.orbit
          BY <1>3 DEF Live, Held, Pending
      <2>3. \A i \in Live(o2) : o2[i].agent # a
          BY <1>3, <2>1, <2>2 DEF Sound, Gone
      <2>4. \A j \in Task : k[j].state = "STARTED" => k[j].agent # a
          BY <2>1, <1>1, AgentAssumption DEF Sound, Gone, Requeued
      <2> QED BY <2>3, <2>4
<1>7. Merges(c)
      BY <1>5, TaskAssumption DEF Sound, Merges
<1>8. b2.orbit = o2 /\ b2.fence = b.fence /\ b2.seq = b.seq
      BY <1>1 DEF BoardRow
<1>9. Sound(c)
       BY <1>2, <1>5, <1>6, <1>7, <1>8 DEF Sound, Typed, Drawn, NoConflict, Newest
<1> QED BY <1>9 DEF c

-----------------------------------------------------------------------------
\* Rank is a number, so of two requests one always outranks the other.
LEMMA EffectiveType ==
    ASSUME NEW r \in Row, NEW t \in Nat
    PROVE  Effective(r, t) \in Int
BY PolicyAssumption DEF Effective, Boost, Row

\* Two requests that outrank each other are one: the order of promotion is decided.
LEMMA RankTotal ==
    ASSUME NEW n \in Nat, NEW o \in [1..n -> Row], NEW t \in Nat,
           NEW i \in 1..n, NEW j \in 1..n, i # j
    PROVE  Outranks(o, t, i, j) \/ Outranks(o, t, j, i)
<1>1. Effective(o[i], t) \in Int /\ Effective(o[j], t) \in Int
      BY EffectiveType
<1> QED BY <1>1 DEF Outranks

\* The place of a granted request is one of the tokens the promotion draws.
LEMMA PlaceBounds ==
    ASSUME NEW n \in Nat, NEW o \in [1..n -> Row], NEW t \in Nat,
           NEW P \in SUBSET (1..n), NEW i \in P
    PROVE  /\ IsFiniteSet(P) /\ Cardinality(P) \in Nat
           /\ Place(o, t, P, i) \in 1..Cardinality(P)
<1> DEFINE Q == {j \in P : j = i \/ Outranks(o, t, j, i)}
<1>1. IsFiniteSet(1..n)
      BY FS_Interval
<1>2. IsFiniteSet(P) /\ Cardinality(P) \in Nat
      BY <1>1, FS_Subset, FS_CardinalityType
<1>3. IsFiniteSet(Q) /\ Cardinality(Q) \in Nat /\ Cardinality(Q) <= Cardinality(P)
      BY <1>2, FS_Subset, FS_CardinalityType
<1>4. Cardinality(Q) # 0
      BY <1>3, FS_EmptySet
<1> QED BY <1>2, <1>3, <1>4 DEF Place

\* Two requests that are promotable together do not conflict, and neither of
\* them conflicts with a lease.
LEMMA PromotableApart ==
    ASSUME NEW b, Sound(b), NEW t \in Nat
    PROVE  \A i \in Promotable(b, t), j \in Promotable(b, t) \cup Held(b.orbit) :
              i # j => ~Conflict(b.orbit[i], b.orbit[j]) /\ ~Conflict(b.orbit[j], b.orbit[i])
<1> SUFFICES ASSUME NEW i \in Promotable(b, t),
                    NEW j \in Promotable(b, t) \cup Held(b.orbit), i # j
             PROVE  ~Conflict(b.orbit[i], b.orbit[j]) /\ ~Conflict(b.orbit[j], b.orbit[i])
    OBVIOUS
<1>1. b.seq \in Nat /\ b.orbit \in [1..b.seq -> Row]
      BY DEF Sound, Typed, BoardRow
<1>2. Conflict(b.orbit[i], b.orbit[j]) <=> Conflict(b.orbit[j], b.orbit[i])
      BY DEF Conflict, Compatible
<1>3. i \in Pending(b.orbit) /\ Blockers(b.orbit, t, i) = {}
      BY DEF Promotable
<1>4. CASE j \in Held(b.orbit)
      BY <1>2, <1>3, <1>4 DEF Blockers
<1>5. CASE j \in Promotable(b, t)
      <2>1. j \in Pending(b.orbit) /\ Blockers(b.orbit, t, j) = {}
            BY <1>5 DEF Promotable
      <2>2. i \in 1..b.seq /\ j \in 1..b.seq
            BY <1>1, <1>3, <2>1 DEF Pending
      <2>3. Outranks(b.orbit, t, i, j) \/ Outranks(b.orbit, t, j, i)
            BY <1>1, <2>2, RankTotal
      <2> QED BY <1>2, <1>3, <2>1, <2>3 DEF Blockers
<1> QED BY <1>4, <1>5

\* What promotion grants conflicts with no lease, and its tokens are new.
LEMMA PromoteKeeps ==
    ASSUME NEW b, Sound(b), NEW t \in Nat
    PROVE  Sound(Promote(b, t))
<1> DEFINE P == Promotable(b, t)
           p(i) == Place(b.orbit, t, P, i)
           o == [i \in DOMAIN b.orbit |->
                   IF i \in P
                   THEN [b.orbit[i] EXCEPT !.state = "HELD",
                                           !.fence = b.fence + p(i),
                                           !.due   = t + b.orbit[i].ttl]
                   ELSE b.orbit[i]]
           c == Promote(b, t)
           f == b.fence + Cardinality(P)
<1>1. b \in BoardRow /\ b.orbit \in [1..b.seq -> Row] /\ b.seq \in Nat /\ b.fence \in Nat
      BY DEF Sound, Typed, BoardRow
<1>2. P \in SUBSET (1..b.seq) /\ P \subseteq Pending(b.orbit)
      BY <1>1 DEF Promotable, Pending
<1> HIDE DEF P, p
<1>3. \A i \in P : p(i) \in 1..Cardinality(P) /\ p(i) \in Nat /\ p(i) > 0 /\ p(i) <= Cardinality(P)
      <2> SUFFICES ASSUME NEW i \in P
                   PROVE  p(i) \in 1..Cardinality(P) /\ Cardinality(P) \in Nat
          OBVIOUS
      <2> QED BY <1>1, <1>2, PlaceBounds DEF p
<1>4. Cardinality(P) \in Nat
      <2>1. b.seq \in Int /\ 1 \in Int
            BY <1>1
      <2>2. IsFiniteSet(1..b.seq)
            BY <2>1, FS_Interval, Zenon
      <2>3. IsFiniteSet(P)
            BY <1>2, <2>2, FS_Subset, Zenon
      <2> QED BY <2>3, FS_CardinalityType
<1>5. o \in [1..b.seq -> Row] /\ DOMAIN o = 1..b.seq
      <2>1. \A r \in Row : \A x, y \in Nat :
               [r EXCEPT !.state = "HELD", !.fence = x, !.due = y] \in Row
            BY DEF Row, OrbitState
      <2>2. \A r \in Row : r.ttl \in Nat
            BY DEF Row
      <2>4. DOMAIN b.orbit = 1..b.seq /\ \A i \in 1..b.seq : b.orbit[i] \in Row
            BY <1>1
      <2>3. ASSUME NEW i \in P
            PROVE  b.fence + p(i) \in Nat /\ t + b.orbit[i].ttl \in Nat
        <3>1. b.orbit[i].ttl \in Nat
              BY <1>2, <2>2, <2>4
        <3>2. p(i) \in Nat /\ b.fence \in Nat
              BY <1>1, <1>3
        <3> QED BY <3>1, <3>2
      <2>5. ASSUME NEW i \in 1..b.seq
            PROVE  o[i] \in Row
        <3>1. CASE i \in P
              BY <2>1, <2>3, <2>4, <3>1
        <3>2. CASE i \notin P
              BY <2>4, <3>2
        <3> QED BY <3>1, <3>2
      <2> QED BY <2>4, <2>5
<1>6. \A i \in 1..b.seq : /\ o[i].cells = b.orbit[i].cells
                          /\ o[i].mode = b.orbit[i].mode
                          /\ o[i].agent = b.orbit[i].agent
                          /\ o[i].state = IF i \in P THEN "HELD" ELSE b.orbit[i].state
                          /\ o[i].fence = IF i \in P THEN b.fence + p(i) ELSE b.orbit[i].fence
      BY <1>1 DEF Row
<1>7. /\ c.orbit = o /\ c.agent = b.agent /\ c.task = b.task /\ c.token = b.token
      /\ c.seq = b.seq /\ c.fence = f /\ c \in BoardRow
      <2>1. c = [b EXCEPT !.orbit = o, !.fence = f]
            BY DEF Promote, P, p
      <2> HIDE DEF o, c, f
      <2>2. f \in Nat
            BY <1>1, <1>4 DEF f
      <2> QED BY <1>1, <1>5, <2>1, <2>2 DEF BoardRow
<1> HIDE DEF o, c
<1>8. /\ Held(o) = Held(b.orbit) \cup P
      /\ Live(o) = Live(b.orbit)
      BY <1>1, <1>2, <1>5, <1>6 DEF Held, Pending, Live
<1>9. \A i, j \in 1..b.seq : Conflict(o[i], o[j]) <=> Conflict(b.orbit[i], b.orbit[j])
      BY <1>6 DEF Conflict
<1>10. Held(b.orbit) \subseteq 1..b.seq /\ Held(o) \subseteq 1..b.seq
      BY <1>1, <1>5 DEF Held
<1>11. \A i \in P, j \in P \cup Held(b.orbit) :
          i # j => ~Conflict(b.orbit[i], b.orbit[j]) /\ ~Conflict(b.orbit[j], b.orbit[i])
      BY PromotableApart DEF P
<1>a. Typed(c)
      BY <1>5, <1>7 DEF Typed
<1>b. NoConflict(c.orbit)
      BY <1>7, <1>8, <1>9, <1>10, <1>11 DEF Sound, NoConflict
<1>c. Drawn(c)
      <2> SUFFICES ASSUME NEW i \in 1..b.seq
                   PROVE  o[i].fence <= b.fence + Cardinality(P)
          BY <1>5, <1>7 DEF Drawn
      <2>1. b.orbit[i].fence \in Nat /\ b.orbit[i].fence <= b.fence
            BY <1>1 DEF Sound, Drawn, Row
      <2> QED BY <1>1, <1>3, <1>4, <1>6, <2>1
<1>d. Newest(c.orbit)
      <2> SUFFICES ASSUME NEW i \in Held(o), NEW j \in 1..b.seq, i # j,
                          o[j].fence > 0, Conflict(o[i], o[j])
                   PROVE  o[j].fence < o[i].fence
          BY <1>5, <1>7 DEF Newest
      <2>1. j \notin P
            BY <1>8, <1>9, <1>10, <1>11
      <2>2. CASE i \in P
            <3>1. b.orbit[j].fence \in Nat /\ b.orbit[j].fence <= b.fence
                  BY <1>1 DEF Sound, Drawn, Row
            <3> QED BY <1>1, <1>3, <1>6, <1>10, <2>1, <2>2, <3>1
      <2>3. CASE i \notin P
            BY <1>1, <1>6, <1>8, <1>9, <1>10, <2>1, <2>3 DEF Sound, Newest
      <2> QED BY <2>2, <2>3
<1>e. Gone(c)
      BY <1>6, <1>7, <1>8, <1>1 DEF Sound, Gone, Live, Held, Pending
<1>f. Merges(c)
      BY <1>7 DEF Sound, Merges
<1>g. Sound(c)
      BY <1>a, <1>b, <1>c, <1>d, <1>e, <1>f DEF Sound
<1> QED BY <1>g DEF c

\* Reconciliation, with and without the reclaim of silent agents.
LEMMA SettleKeeps ==
    ASSUME NEW b, Sound(b), NEW t \in Nat, NEW c \in Settle(b, t)
    PROVE  Sound(c)
BY ExpireKeeps, TimeOutKeeps, BreakCyclesKeeps, PromoteKeeps DEF Settle

\* Expiry, deadlines, cycles and promotion, one after the other.
LEMMA ReconcileKeeps ==
    ASSUME NEW b, Sound(b), NEW t \in Nat, NEW c \in Reconcile(b, t)
    PROVE  Sound(c)
<1>1. Sound(Expire(b, t))
      BY ExpireKeeps
<1>2. Zombies(Expire(b, t), t) \in SUBSET Agent
      BY DEF Zombies
<1>3. Sound(Retire(Expire(b, t), Zombies(Expire(b, t), t)))
      BY <1>1, <1>2, RetireKeeps
<1> QED BY <1>3, TimeOutKeeps, BreakCyclesKeeps, PromoteKeeps DEF Reconcile

-----------------------------------------------------------------------------
\* A new row at the end of the queue: a request, or a lease under the next
\* token that conflicts with no other.
LEMMA ExtendKeeps ==
    ASSUME NEW b, Sound(b), NEW row \in Row, b.agent[row.agent].status # "RETIRED",
           NEW f,
           \/ row.state = "PENDING" /\ row.fence = 0 /\ f = b.fence
           \/ /\ row.state = "HELD" /\ row.fence = b.fence + 1 /\ f = b.fence + 1
              /\ \A j \in Held(b.orbit) : ~Conflict(row, b.orbit[j])
    PROVE  Sound([Extend(b, row) EXCEPT !.fence = f])
<1> DEFINE new == b.seq + 1
           o == [i \in 1..new |-> IF i \in DOMAIN b.orbit THEN b.orbit[i] ELSE row]
           c == [Extend(b, row) EXCEPT !.fence = f]
<1>1. b \in BoardRow /\ b.orbit \in [1..b.seq -> Row] /\ b.seq \in Nat /\ b.fence \in Nat
      BY DEF Sound, Typed, BoardRow
<1>2. /\ new \in Nat /\ o \in [1..new -> Row] /\ o[new] = row
      /\ \A i \in 1..b.seq : o[i] = b.orbit[i]
      /\ 1..new = (1..b.seq) \cup {new} /\ new \notin 1..b.seq
      BY <1>1
<1>3. f \in Nat /\ f >= b.fence
      BY <1>1
<1> HIDE DEF o
<1>4. /\ c.orbit = o /\ c.agent = b.agent /\ c.task = b.task /\ c.token = b.token
      /\ c.seq = new /\ c.fence = f /\ c \in BoardRow
      <2>1. c = [b EXCEPT !.seq = new, !.orbit = o, !.fence = f]
            BY <1>1 DEF Extend, BoardRow, o
      <2> HIDE DEF c, new
      <2>2. o \in UNION {[1..n -> Row] : n \in Nat}
            BY <1>2
      <2>3. /\ c.orbit = o /\ c.agent = b.agent /\ c.task = b.task /\ c.token = b.token
            /\ c.seq = new /\ c.fence = f
            BY <1>1, <2>1 DEF BoardRow
      <2>4. c \in BoardRow
            BY <1>1, <1>2, <1>3, <2>1, <2>2 DEF BoardRow
      <2> QED BY <2>3, <2>4
<1> HIDE DEF c, new
<1>5. /\ DOMAIN o = 1..new /\ DOMAIN b.orbit = 1..b.seq
      /\ Held(o) \subseteq Held(b.orbit) \cup {new}
      /\ Live(o) \subseteq Live(b.orbit) \cup {new}
      /\ Held(b.orbit) \subseteq 1..b.seq /\ Live(b.orbit) \subseteq 1..b.seq
      /\ new \in Held(o) => row.state = "HELD"
      BY <1>1, <1>2 DEF Held, Pending, Live
<1>6. row.state = "HELD" =>
         \A j \in Held(b.orbit) : ~Conflict(row, b.orbit[j]) /\ ~Conflict(b.orbit[j], row)
      BY DEF Conflict, Compatible
<1>7. \A i \in 1..b.seq : b.orbit[i].fence \in Nat /\ b.orbit[i].fence <= b.fence
      BY <1>1 DEF Sound, Drawn, Row
<1>a. Typed(c)
      BY <1>2, <1>4 DEF Typed
<1>b. NoConflict(c.orbit)
      BY <1>2, <1>4, <1>5, <1>6 DEF Sound, NoConflict
<1>c. Drawn(c)
      <2>1. row.fence <= f
            BY <1>1
      <2> QED BY <1>1, <1>2, <1>3, <1>4, <1>5, <1>7, <2>1 DEF Drawn
<1>d. Newest(c.orbit)
      <2> SUFFICES ASSUME NEW i \in Held(o), NEW j \in 1..new, i # j,
                          o[j].fence > 0, Conflict(o[i], o[j])
                   PROVE  o[j].fence < o[i].fence
          BY <1>4, <1>5 DEF Newest
      <2>1. CASE i = new
            <3>1. row.fence = b.fence + 1 /\ j \in 1..b.seq
                  BY <1>2, <1>5, <2>1
            <3> QED BY <1>1, <1>2, <1>7, <2>1, <3>1
      <2>2. CASE i # new /\ j = new
            <3>1. i \in Held(b.orbit) /\ o[i] = b.orbit[i] /\ o[j] = row
                  BY <1>2, <1>5, <2>2
            <3>2. row.state = "HELD"
                  BY <1>2, <2>2, <3>1
            <3> QED BY <1>6, <3>1, <3>2
      <2>3. CASE i # new /\ j # new
            BY <1>2, <1>5, <2>3 DEF Sound, Newest
      <2> QED BY <2>1, <2>2, <2>3
<1>e. Gone(c)
      BY <1>2, <1>4, <1>5 DEF Sound, Gone
<1>f. Merges(c)
      BY <1>4 DEF Sound, Merges
<1>g. Sound(c)
      BY <1>a, <1>b, <1>c, <1>d, <1>e, <1>f DEF Sound
<1> QED BY <1>g DEF c

RequestRow == [cells : SUBSET Cell, mode : Mode, prio : Nat, ttl : Nat \ {0}, task : Task]

\* The row a claim writes is a row of the table.
LEMMA WaitingType ==
    ASSUME NEW a \in Agent, NEW r \in RequestRow, NEW t \in Nat, NEW f \in Nat
    PROVE  /\ Waiting(a, r, t) \in Row
           /\ Waiting(a, r, t).agent = a /\ Waiting(a, r, t).state = "PENDING"
           /\ Waiting(a, r, t).fence = 0
BY LimitAssumption DEF Waiting, RequestRow, Row, OrbitState

\* A claim that waits.
LEMMA QueuedKeeps ==
    ASSUME NEW b, Sound(b), NEW a \in Agent, b.agent[a].status # "RETIRED",
           NEW r \in RequestRow, NEW t \in Nat
    PROVE  Sound(Extend(b, Waiting(a, r, t)))
<1> DEFINE w == Waiting(a, r, t)
<1>1. b \in BoardRow /\ b.fence \in Nat
      BY DEF Sound, Typed, BoardRow
<1>2. w \in Row /\ w.agent = a /\ w.state = "PENDING" /\ w.fence = 0
      BY WaitingType
<1>3. Extend(b, w) = [Extend(b, w) EXCEPT !.fence = b.fence]
      BY <1>1 DEF Extend, BoardRow
<1> HIDE DEF w
<1>4. Sound([Extend(b, w) EXCEPT !.fence = b.fence])
      BY <1>2, ExtendKeeps
<1> QED BY <1>3, <1>4 DEF w

\* A claim that nothing blocks.
LEMMA GrantedKeeps ==
    ASSUME NEW b, Sound(b), NEW a \in Agent, b.agent[a].status # "RETIRED",
           NEW r \in RequestRow, NEW t \in Nat,
           Blockers(Extend(b, Waiting(a, r, t)).orbit, t, b.seq + 1) = {}
    PROVE  Sound(Granted(b, a, r, t))
<1> DEFINE w      == Waiting(a, r, t)
           queued == Extend(b, w)
           new    == b.seq + 1
           h      == [w EXCEPT !.state = "HELD", !.fence = b.fence + 1, !.due = t + r.ttl, !.enq = 0]
<1>1. b \in BoardRow /\ b.orbit \in [1..b.seq -> Row] /\ b.seq \in Nat /\ b.fence \in Nat
      BY DEF Sound, Typed, BoardRow
<1>2. w \in Row /\ w.agent = a /\ w.state = "PENDING" /\ w.fence = 0
      BY WaitingType
<1>3. queued.orbit = [i \in 1..new |-> IF i \in DOMAIN b.orbit THEN b.orbit[i] ELSE w]
      BY <1>1 DEF Extend, BoardRow
<1>4. new \in 1..new /\ new \notin 1..b.seq /\ 1..b.seq \subseteq 1..new
      BY <1>1
<1>5. h \in Row /\ h.agent = a /\ h.state = "HELD" /\ h.fence = b.fence + 1
      /\ h.cells = w.cells /\ h.mode = w.mode
      <2>1. t + r.ttl \in Nat /\ b.fence + 1 \in Nat
            BY <1>1 DEF RequestRow
      <2> HIDE DEF w
      <2> QED BY <1>2, <2>1 DEF Row, OrbitState
<1>6. ASSUME NEW j \in Held(b.orbit)
      PROVE  ~Conflict(h, b.orbit[j])
  <2> HIDE DEF w, h
  <2>1. j \in 1..b.seq /\ queued.orbit[j] = b.orbit[j] /\ queued.orbit[new] = w
        BY <1>1, <1>3, <1>4 DEF Held
  <2>2. j \in Held(queued.orbit) \ {new}
        BY <1>3, <1>4, <2>1 DEF Held
  <2>3. ~Conflict(w, b.orbit[j])
        BY <2>1, <2>2 DEF Blockers, w
  <2> QED BY <1>5, <2>3 DEF Conflict
<1>7. Granted(b, a, r, t) = [Extend(b, h) EXCEPT !.fence = b.fence + 1]
      BY DEF Granted
<1> HIDE DEF h
<1> QED BY <1>5, <1>6, <1>7, ExtendKeeps

\* A claim is granted, queued or turned away, and grants only what conflicts with nothing.
LEMMA AdmitKeeps ==
    ASSUME NEW b, Sound(b), NEW a \in Agent, b.agent[a].status # "RETIRED",
           NEW r \in RequestRow, NEW t \in Nat, NEW c \in Admit(b, a, r, t)
    PROVE  Sound(c)
<1> DEFINE w       == Waiting(a, r, t)
           queued  == Extend(b, w)
           new     == b.seq + 1
<1>1. Sound(queued)
      BY QueuedKeeps
<1>2. CASE Blockers(queued.orbit, t, new) = {} /\ c \in BreakCycles(Granted(b, a, r, t), t)
      BY <1>2, GrantedKeeps, BreakCyclesKeeps
<1>3. CASE c = b
      BY <1>3
<1>4. CASE c = queued
      BY <1>1, <1>4
<1>5. CASE c = [queued EXCEPT !.orbit = Close(queued.orbit, {new}, "DENIED")]
  <2>1. {new} \subseteq Live(queued.orbit)
    <3>1. b \in BoardRow /\ b.orbit \in [1..b.seq -> Row] /\ b.seq \in Nat
          BY DEF Sound, Typed, BoardRow
    <3>2. w.state = "PENDING"
          BY WaitingType
    <3>3. queued.orbit = [i \in 1..new |-> IF i \in DOMAIN b.orbit THEN b.orbit[i] ELSE w]
          BY <3>1 DEF Extend, BoardRow
    <3>4. new \in 1..new /\ new \notin 1..b.seq
          BY <3>1
    <3> HIDE DEF w
    <3> QED BY <3>1, <3>2, <3>3, <3>4 DEF Live, Pending
  <2> QED BY <1>1, <1>5, <2>1, CloseKeeps
<1> QED BY <1>2, <1>3, <1>4, <1>5 DEF Admit

-----------------------------------------------------------------------------
\* The verbs

IInv == now \in 0..MaxTime /\ running \in BOOLEAN /\ Sound(Board)

\* What a sound board means for the variables.
LEMMA IInvImplies ==
    IInv => TypeOK /\ Singulon /\ HolderHasNewestFence /\ RetiredOwnsNothing
<1> SUFFICES ASSUME IInv
             PROVE  TypeOK /\ Singulon /\ HolderHasNewestFence /\ RetiredOwnsNothing
    OBVIOUS
<1>1. /\ Board.orbit = orbit /\ Board.agent = agent /\ Board.task = task
      /\ Board.token = token /\ Board.seq = seq /\ Board.fence = fence
      BY DEF Board
<1>2. Sound(Board)
      BY DEF IInv
<1> HIDE DEF Board
<1>3. TypeOK
      BY <1>1, <1>2 DEF IInv, Sound, Typed, BoardRow, TypeOK
<1>4. Singulon
      BY <1>1, <1>2 DEF Sound, NoConflict, Singulon
<1>5. HolderHasNewestFence
      BY <1>1, <1>2 DEF Sound, Newest, HolderHasNewestFence
<1>6. RetiredOwnsNothing
      BY <1>1, <1>2 DEF Sound, Gone, RetiredOwnsNothing
<1> QED BY <1>3, <1>4, <1>5, <1>6

\* A verb leaves behind the board it computed.
LEMMA BecomeBoard ==
    ASSUME NEW b, Sound(b), Become(b)
    PROVE  Board' = b
<1>1. b = [orbit |-> b.orbit, agent |-> b.agent, task |-> b.task, token |-> b.token,
           seq |-> b.seq, fence |-> b.fence]
      BY DEF Sound, Typed, BoardRow
<1> QED BY <1>1 DEF Board, Become

\* A verb that leaves a sound board behind leaves sound tables behind.
LEMMA BecomeSound ==
    ASSUME NEW b, Sound(b), Become(b)
    PROVE  Sound(Board)'
BY BecomeBoard

\* An empty database is sound.
LEMMA InitIInv == Init => IInv
<1> SUFFICES ASSUME Init PROVE IInv
    OBVIOUS
<1>1. /\ Board.orbit = orbit /\ Board.agent = agent /\ Board.task = task
      /\ Board.token = token /\ Board.seq = seq /\ Board.fence = fence
      BY DEF Board
<1>2. /\ seq = 0 /\ fence = 0 /\ token = NoTask
      /\ orbit \in [1..0 -> Row] /\ DOMAIN orbit = {}
      /\ agent \in [Agent -> AgentRow]
      /\ task \in [Task -> TaskRow]
      BY LimitAssumption DEF Init, AgentRow, TaskRow
<1>3. \A a \in Agent : agent[a].status # "RETIRED"
      BY DEF Init
<1>4. Typed(Board)
      <2>1. orbit \in UNION {[1..n -> Row] : n \in Nat}
            BY <1>2
      <2> QED BY <1>2, <2>1 DEF Typed, Board, BoardRow
<1> HIDE DEF Board
<1>5. Held(orbit) = {} /\ Live(orbit) = {}
      BY <1>2 DEF Held, Pending, Live
<1>6. Sound(Board)
      BY <1>1, <1>2, <1>3, <1>4, <1>5, TaskAssumption
         DEF Sound, NoConflict, Drawn, Newest, Gone, Merges
<1>7. now \in 0..MaxTime
      BY BoundAssumption DEF Init
<1>8. running \in BOOLEAN
      BY DEF Init
<1> QED BY <1>6, <1>7, <1>8 DEF IInv

-----------------------------------------------------------------------------
\* One lemma per verb whose board is put together from several stages.

\* A claim: touch the agent, then expire, reclaim, admit and reconcile.
LEMMA ClaimKeeps ==
    ASSUME IInv, NEW a \in Agent, NEW r \in Request, Claim(a, r)
    PROVE  Sound(Board)'
<1>1. PICK b \in Reconcile(Board, now) :
         \/ b.agent[a].status = "RETIRED" /\ Become(b)
         \/ /\ b.agent[a].status # "RETIRED"
            /\ \E c \in Admit(Touch(b, a, now), a, r, now) : Become(c)
      BY DEF Claim
<1>2. now \in Nat
      BY BoundAssumption DEF IInv
<1>3. Sound(b)
      BY <1>2, ReconcileKeeps DEF IInv
<1>4. CASE Become(b)
      BY <1>3, <1>4, BecomeSound
<1>5. CASE b.agent[a].status # "RETIRED" /\ \E c \in Admit(Touch(b, a, now), a, r, now) : Become(c)
      <2>1. Sound(Touch(b, a, now)) /\ Touch(b, a, now).agent[a].status # "RETIRED"
            BY <1>2, <1>3, <1>5, TouchKeeps
      <2>2. r \in RequestRow
            BY RequestAssumption DEF RequestRow
      <2>3. PICK c \in Admit(Touch(b, a, now), a, r, now) : Become(c)
            BY <1>5
      <2>4. Sound(c)
            BY <1>2, <2>1, <2>2, <2>3, AdmitKeeps
      <2> QED BY <2>3, <2>4, BecomeSound
<1> QED BY <1>1, <1>4, <1>5

\* Release and CancelWait: a heartbeat, one row closed, and a reconciliation.
LEMMA CloseOneKeeps ==
    ASSUME IInv, NEW a \in Agent, Alive(a), NEW i \in Live(orbit),
           NEW s \in {"RELEASED", "DENIED"},
           NEW b \in Reconcile([Touch(Board, a, now) EXCEPT !.orbit = Close(@, {i}, s)], now),
           Become(b)
    PROVE  Sound(Board)'
<1> DEFINE t == Touch(Board, a, now)
           c == [t EXCEPT !.orbit = Close(t.orbit, {i}, s)]
<1>1. now \in Nat
      BY BoundAssumption DEF IInv
<1>2. Board.agent[a].status # "RETIRED" /\ Board.orbit = orbit
      BY DEF Alive, Board
<1>3. Sound(t) /\ t.orbit = orbit
      BY <1>1, <1>2, TouchKeeps DEF IInv
<1> HIDE DEF t
<1>4. Sound(c)
      BY <1>3, CloseKeeps
<1>5. b \in Reconcile(c, now)
      BY <1>3 DEF t
<1> QED BY <1>1, <1>4, <1>5, ReconcileKeeps, BecomeSound

\* A renewal moves a deadline; the lease stays what it was.
LEMMA RenewKeeps ==
    ASSUME IInv, NEW a \in Agent, NEW i, Renew(a, i)
    PROVE  Sound(Board)'
<1> DEFINE t == Touch(Board, a, now)
           d == now + orbit[i].ttl
           r == [orbit[i] EXCEPT !.due = d]
           o == [orbit EXCEPT ![i] = r]
           c == [t EXCEPT !.orbit[i].due = now + orbit[i].ttl]
<1>1. now \in Nat
      BY BoundAssumption DEF IInv
<1>2. Board.agent[a].status # "RETIRED" /\ Board.orbit = orbit
      BY DEF Alive, Board, Renew
<1>3. Sound(t) /\ t.orbit = orbit
      BY <1>1, <1>2, TouchKeeps DEF IInv
<1> HIDE DEF t
<1>4. t \in BoardRow /\ orbit \in [1..t.seq -> Row] /\ t.seq \in Nat
      BY <1>3 DEF Sound, Typed, BoardRow
<1>5. i \in 1..t.seq
      BY <1>4 DEF Renew, Held
<1>6. o \in [1..t.seq -> Row] /\ DOMAIN o = DOMAIN orbit
      <2>1. orbit[i] \in Row /\ d \in Nat
            BY <1>1, <1>4, <1>5 DEF Row
      <2> HIDE DEF d
      <2>2. r \in Row
            BY <2>1 DEF Row
      <2> HIDE DEF r
      <2> QED BY <1>4, <1>5, <2>2
<1>7. \A j \in 1..t.seq : /\ o[j].cells = orbit[j].cells /\ o[j].mode = orbit[j].mode
                          /\ o[j].agent = orbit[j].agent /\ o[j].state = orbit[j].state
                          /\ o[j].fence = orbit[j].fence
      BY <1>4, <1>5 DEF Row
<1>8. c = [t EXCEPT !.orbit = o]
      BY <1>3, <1>4 DEF BoardRow
<1>9. Sound(c)
      <2> HIDE DEF c, o
      <2> QED BY <1>3, <1>6, <1>7, <1>8, RewriteKeeps
<1>10. Become(c)
      BY DEF Renew, c, t
<1> QED BY <1>9, <1>10, BecomeSound

\* Cancelling a task closes all its rows before the queue is served again.
LEMMA CancelledSound ==
    ASSUME Sound(Board), NEW k \in Task, task[k].state = "OPEN"
    PROVE  Sound([Board EXCEPT !.orbit = CloseAll(orbit, {i \in DOMAIN orbit : orbit[i].task = k}, "RELEASED"),
                               !.task[k].state = "ABORTED"])
<1> DEFINE S   == {i \in DOMAIN orbit : orbit[i].task = k}
           c   == [Board EXCEPT !.orbit = CloseAll(orbit, S, "RELEASED")]
           row == [c.task[k] EXCEPT !.state = "ABORTED"]
           d   == [c EXCEPT !.task[k] = row, !.token = c.token, !.fence = c.fence]
<1>1. Board.orbit = orbit
      BY DEF Board
<1>2. Sound(c)
      <2> HIDE DEF S
      <2> QED BY <1>1, CloseAllKeeps
<1>3. c.token # k
      BY DEF Sound, Merges, Board
<1> HIDE DEF c
<1>4. c \in BoardRow
      BY <1>2 DEF Sound, Typed
<1>5. c.task \in [Task -> TaskRow] /\ c.token \in Task \cup {NoTask} /\ c.fence \in Nat
      BY <1>4 DEF BoardRow
<1>6. row \in TaskRow /\ row.state = "ABORTED"
      BY <1>5 DEF TaskRow
<1>7. Sound(d)
      <2> HIDE DEF row
      <2>1. c.fence >= c.fence
            BY <1>5
      <2>2. row.state = "STARTED" /\ row.agent \in Agent
                => c.agent[row.agent].status # "RETIRED"
            BY <1>6
      <2>3. c.token \in Task => \/ c.token = k /\ row.state = "CONNECTING"
                                \/ c.token # k /\ c.token = c.token
            BY <1>3
      <2> QED BY <1>2, <1>5, <1>6, <2>1, <2>2, <2>3, RetaskKeeps
<1>8. d = [c EXCEPT !.task[k].state = "ABORTED"]
      BY <1>4, <1>5 DEF BoardRow, TaskRow
<1> QED
      <2> HIDE DEF d
      <2> QED BY <1>7, <1>8 DEF c

\* Then the queue is served.
LEMMA CancelTaskKeeps ==
    ASSUME IInv, NEW k \in Task, CancelTask(k)
    PROVE  Sound(Board)'
<1> DEFINE d == [Board EXCEPT !.orbit = CloseAll(orbit, {i \in DOMAIN orbit : orbit[i].task = k}, "RELEASED"),
                              !.task[k].state = "ABORTED"]
<1>1. now \in Nat /\ Sound(Board)
      BY BoundAssumption DEF IInv
<1>2. Sound(d)
      BY <1>1, CancelledSound DEF CancelTask
<1>3. PICK b \in Reconcile(d, now) : Become(b)
      BY DEF CancelTask
<1> HIDE DEF d
<1> QED BY <1>1, <1>2, <1>3, ReconcileKeeps, BecomeSound

\* A start gives the task to the agent; no lease changes.
LEMMA StartKeeps ==
    ASSUME IInv, NEW a \in Agent, NEW k \in Task, Start(a, k)
    PROVE  Sound(Board)'
<1> DEFINE t   == Touch(Board, a, now)
           row == [[t.task[k] EXCEPT !.state = "STARTED"] EXCEPT !.agent = a]
           d   == [t EXCEPT !.task[k] = row, !.token = t.token, !.fence = t.fence]
<1>1. now \in Nat /\ Sound(Board) /\ Board.agent[a].status # "RETIRED"
      BY BoundAssumption DEF IInv, Board, Start, Alive
<1>2. Sound(t) /\ t.task = task /\ t.token = token /\ t.agent[a].status = "WORKING"
      BY <1>1, TouchKeeps DEF Board
<1> HIDE DEF t
<1>3. t \in BoardRow
      BY <1>2 DEF Sound, Typed
<1>4. /\ t.task \in [Task -> TaskRow] /\ t.token \in Task \cup {NoTask}
      /\ t.fence \in Nat
      BY <1>3 DEF BoardRow
<1>5. row \in TaskRow /\ row.agent = a
      BY <1>4 DEF TaskRow
<1>6. t.token # k
      BY <1>1, <1>2 DEF Start, Sound, Merges, Board
<1>7. Sound(d)
      <2> HIDE DEF row
      <2>1. t.fence >= t.fence
            BY <1>4
      <2>2. row.state = "STARTED" /\ row.agent \in Agent
                => t.agent[row.agent].status # "RETIRED"
            BY <1>2, <1>5
      <2>3. t.token \in Task => \/ t.token = k /\ row.state = "CONNECTING"
                                \/ t.token # k /\ t.token = t.token
            BY <1>6
      <2> QED BY <1>2, <1>4, <1>5, <2>1, <2>2, <2>3, RetaskKeeps
<1>8. d = [t EXCEPT !.task[k].state = "STARTED", !.task[k].agent = a]
      BY <1>3, <1>4 DEF BoardRow, TaskRow
<1>9. Become(d)
      <2> HIDE DEF d
      <2> QED BY <1>8 DEF Start, t
<1> QED BY <1>7, <1>9, BecomeSound

\* finish() retires no lease and gives the task to nobody.
LEMMA FinishKeeps ==
    ASSUME IInv, NEW a \in Agent, NEW k \in Task, Finish(a, k)
    PROVE  Sound(Board)'
<1>1. now \in Nat /\ Sound(Board) /\ Board.task = task
      BY BoundAssumption DEF IInv, Board
<1>2. PICK b \in {Board, Touch(Board, a, now)} :
         /\ b # Board => Alive(a)
         /\ Become([b EXCEPT !.task[k].state = "DONE"])
      BY DEF Finish
<1>3. Sound(b) /\ b.task = task
      <2>1. CASE b = Board
            BY <1>1, <2>1
      <2>2. CASE b # Board
            <3>1. Board.agent[a].status # "RETIRED"
                  BY <1>2, <2>2 DEF Alive, Board
            <3> QED BY <1>1, <1>2, <2>2, <3>1, TouchKeeps
      <2> QED BY <2>1, <2>2
<1> DEFINE row == [b.task[k] EXCEPT !.state = "DONE"]
           d   == [b EXCEPT !.task[k] = row, !.token = b.token, !.fence = b.fence]
<1>4. b \in BoardRow
      BY <1>3 DEF Sound, Typed
<1>5. /\ b.task \in [Task -> TaskRow] /\ b.token \in Task \cup {NoTask}
      /\ b.fence \in Nat
      BY <1>4 DEF BoardRow
<1>6. row \in TaskRow /\ row.state = "DONE"
      BY <1>5 DEF TaskRow
<1>7. b.token # k
      BY <1>3 DEF Finish, Sound, Merges
<1>8. Sound(d)
      <2> HIDE DEF row
      <2>1. b.fence >= b.fence /\ row.state # "STARTED"
            BY <1>5, <1>6
      <2>2. b.token \in Task => \/ b.token = k /\ row.state = "CONNECTING"
                                \/ b.token # k /\ b.token = b.token
            BY <1>7
      <2> QED BY <1>3, <1>5, <1>6, <2>1, <2>2, RetaskKeeps
<1>9. d = [b EXCEPT !.task[k].state = "DONE"]
      BY <1>4, <1>5 DEF BoardRow, TaskRow
<1>10. Become(d)
      <2> HIDE DEF d
      <2> QED BY <1>2, <1>9
<1> QED BY <1>8, <1>10, BecomeSound

\* One step of connect: task k goes to state s and the merge token to m.
LEMMA ConnectStepKeeps ==
    ASSUME NEW b, Sound(b), NEW k \in Task, NEW m \in {k, NoTask}, NEW s, NEW f \in Nat, f >= b.fence,
           \/ s = "CONNECTING" /\ m = k
           \/ s \in {"DONE", "MERGED"} /\ m = NoTask
    PROVE  Sound([b EXCEPT !.task[k] = [b.task[k] EXCEPT !.state = s], !.token = m, !.fence = f])
<1> DEFINE row == [b.task[k] EXCEPT !.state = s]
<1>1. b \in BoardRow
      BY DEF Sound, Typed
<1>2. b.task[k] \in TaskRow
      BY <1>1 DEF BoardRow
<1>3. row \in TaskRow /\ row.state = s /\ row.agent = b.task[k].agent
      BY <1>2 DEF TaskRow
<1>4. row.state # "STARTED"
      BY <1>3
<1>5. m \in Task => \/ m = k /\ row.state = "CONNECTING"
                    \/ m # k /\ m = b.token
      BY <1>3, TaskAssumption
<1> HIDE DEF row
<1>6. Sound([b EXCEPT !.task[k] = row, !.token = m, !.fence = f])
      BY <1>3, <1>4, <1>5, RetaskKeeps
<1> QED BY <1>6 DEF row

\* Phase A draws the merge token's fence and pins the task's leases.
LEMMA BeginConnectKeeps ==
    ASSUME IInv, NEW k \in Task, BeginConnect(k)
    PROVE  Sound(Board)'
<1>1. now \in Nat /\ Sound(Board)
      BY BoundAssumption DEF IInv
<1>2. PICK b \in Reconcile(Board, now) :
         Become([b EXCEPT !.orbit = Pin(@, WriteRows(b.orbit, k)),
                          !.task[k].state = "CONNECTING",
                          !.token = k,
                          !.fence = @ + 1])
      BY DEF BeginConnect
<1> DEFINE o == Pin(b.orbit, WriteRows(b.orbit, k))
           p == [b EXCEPT !.orbit = o]
           d == [p EXCEPT !.task[k] = [p.task[k] EXCEPT !.state = "CONNECTING"],
                          !.token = k, !.fence = p.fence + 1]
<1>3. Sound(b)
      BY <1>1, ReconcileKeeps
<1>4. b \in BoardRow /\ b.orbit \in [1..b.seq -> Row] /\ b.seq \in Nat /\ b.fence \in Nat
      BY <1>3 DEF Sound, Typed, BoardRow
<1>5. /\ o \in [1..b.seq -> Row]
      /\ \A i \in 1..b.seq : /\ o[i].cells = b.orbit[i].cells /\ o[i].mode = b.orbit[i].mode
                             /\ o[i].agent = b.orbit[i].agent /\ o[i].state = b.orbit[i].state
                             /\ o[i].fence = b.orbit[i].fence
      BY <1>4 DEF Pin, Row
<1> HIDE DEF o
<1>6. Sound(p)
      BY <1>3, <1>5, RewriteKeeps
<1>7. p.task = b.task /\ p.fence = b.fence
      BY <1>4 DEF BoardRow
<1> HIDE DEF p
<1>8. Sound(d)
      <2>1. p.fence + 1 \in Nat /\ p.fence + 1 >= p.fence
            BY <1>4, <1>7
      <2> QED BY <1>6, <2>1, ConnectStepKeeps
<1>9. d = [p EXCEPT !.task[k].state = "CONNECTING", !.token = k, !.fence = @ + 1]
      <2>1. p \in BoardRow /\ p.task \in [Task -> TaskRow]
            BY <1>6 DEF Sound, Typed, BoardRow
      <2> QED BY <2>1 DEF BoardRow, TaskRow
<1>10. Become(d)
      <2> HIDE DEF d
      <2> QED BY <1>2, <1>9 DEF p, o
<1> QED BY <1>8, <1>10, BecomeSound

\* A token that is drawn and never used.
LEMMA ConnectTooEarlyKeeps ==
    ASSUME IInv, NEW k \in Task, ConnectTooEarly(k)
    PROVE  Sound(Board)'
<1>1. now \in Nat /\ Sound(Board)
      BY BoundAssumption DEF IInv
<1>2. PICK b \in Reconcile(Board, now) : Become([b EXCEPT !.fence = @ + 1])
      BY DEF ConnectTooEarly
<1>3. Sound(b)
      BY <1>1, ReconcileKeeps
<1> DEFINE c == [b EXCEPT !.fence = b.fence + 1]
<1>4. b \in BoardRow /\ b.orbit \in [1..b.seq -> Row] /\ b.fence \in Nat
      BY <1>3 DEF Sound, Typed, BoardRow
<1>5. /\ c.orbit = b.orbit /\ c.agent = b.agent /\ c.task = b.task
      /\ c.token = b.token /\ c.seq = b.seq /\ c.fence = b.fence + 1
      /\ c \in BoardRow
      BY <1>4 DEF BoardRow
<1> HIDE DEF c
<1>6. Typed(c)
      BY <1>4, <1>5 DEF Typed
<1>7. Drawn(c)
      <2>1. \A i \in DOMAIN b.orbit : b.orbit[i].fence \in Nat /\ b.orbit[i].fence <= b.fence
            BY <1>3, <1>4 DEF Sound, Drawn, Row
      <2> QED BY <1>4, <1>5, <2>1 DEF Drawn
<1>8. NoConflict(c.orbit) /\ Newest(c.orbit) /\ Gone(c) /\ Merges(c)
      BY <1>3, <1>5 DEF Sound, Gone, Merges
<1>9. Sound(c)
      BY <1>6, <1>7, <1>8 DEF Sound
<1>10. Become(c)
      BY <1>2 DEF c
<1> QED BY <1>9, <1>10, BecomeSound

\* Phase C, or recovery: merged leases are given up, kept ones unpinned.
LEMMA EndedSound ==
    ASSUME Sound(Board), NEW k \in Task, token = k
    PROVE  Sound(Merged(Board, k)) /\ Sound(RolledBack(Board, k))
<1> DEFINE M  == WriteRows(orbit, k) \cap Held(orbit)
           o1 == Close(orbit, M, "RELEASED")
           p1 == [Board EXCEPT !.orbit = o1]
           U  == {i \in DOMAIN Board.orbit : Board.orbit[i].task = k}
           o2 == Unpin(Board.orbit, U)
           p2 == [Board EXCEPT !.orbit = o2]
           d1 == [p1 EXCEPT !.task[k] = [p1.task[k] EXCEPT !.state = "MERGED"],
                            !.token = NoTask, !.fence = p1.fence]
           d2 == [p2 EXCEPT !.task[k] = [p2.task[k] EXCEPT !.state = "DONE"],
                            !.token = NoTask, !.fence = p2.fence]
<1>1. Board.orbit = orbit /\ Board.seq = seq
      BY DEF Board
<1>2. task[k].state = "CONNECTING"
      BY TaskAssumption DEF Sound, Merges, Board
<1>3. orbit \in [1..seq -> Row] /\ seq \in Nat
      BY <1>1 DEF Sound, Typed, BoardRow
<1>4. Sound(p1)
      <2>1. M \subseteq Live(Board.orbit)
            BY <1>1 DEF Live
      <2> HIDE DEF M
      <2> QED BY <1>1, <2>1, CloseKeeps
<1>5. /\ o2 \in [1..seq -> Row]
      /\ \A i \in 1..seq : /\ o2[i].cells = orbit[i].cells /\ o2[i].mode = orbit[i].mode
                           /\ o2[i].agent = orbit[i].agent /\ o2[i].state = orbit[i].state
                           /\ o2[i].fence = orbit[i].fence
      <2> HIDE DEF U
      <2> QED BY <1>1, <1>3 DEF Unpin, Row
<1>6. Sound(p2)
      <2> HIDE DEF o2
      <2> QED BY <1>1, <1>5, RewriteKeeps
<1>7. p1.task = task /\ p2.task = task
      BY DEF Board
<1> HIDE DEF p1, p2
<1>8. /\ p1 \in BoardRow /\ p1.fence \in Nat /\ p1.task \in [Task -> TaskRow]
      /\ p2 \in BoardRow /\ p2.fence \in Nat /\ p2.task \in [Task -> TaskRow]
      BY <1>4, <1>6 DEF Sound, Typed, BoardRow
<1>9. Sound(d1)
      <2>1. p1.fence >= p1.fence
            BY <1>8
      <2> QED BY <1>4, <1>8, <2>1, ConnectStepKeeps
<1>10. Sound(d2)
      <2>1. p2.fence >= p2.fence
            BY <1>8
      <2> QED BY <1>6, <1>8, <2>1, ConnectStepKeeps
<1>11. Merged(Board, k) = d1
      <2>1. d1 = [p1 EXCEPT !.task[k].state = "MERGED", !.token = NoTask]
            BY <1>8 DEF BoardRow, TaskRow
      <2> HIDE DEF d1
      <2> QED BY <1>1, <2>1 DEF Merged, p1
<1>12. RolledBack(Board, k) = d2
      <2>1. d2 = [p2 EXCEPT !.task[k].state = "DONE", !.token = NoTask]
            BY <1>8 DEF BoardRow, TaskRow
      <2> HIDE DEF d2
      <2> QED BY <1>1, <2>1 DEF RolledBack, p2
<1> QED
      <2> HIDE DEF d1, d2
      <2> QED BY <1>9, <1>10, <1>11, <1>12

\* Then the queue is served.
LEMMA EndConnectKeeps ==
    ASSUME IInv, NEW k \in Task, EndConnect(k)
    PROVE  Sound(Board)'
<1>1. now \in Nat /\ Sound(Board)
      BY BoundAssumption DEF IInv
<1>2. PICK e \in {Merged(Board, k), RolledBack(Board, k)} :
         \E b \in Reconcile(e, now) : Become(b)
      BY DEF EndConnect
<1>3. Sound(e)
      BY <1>1, <1>2, EndedSound DEF EndConnect
<1> QED BY <1>1, <1>2, <1>3, ReconcileKeeps, BecomeSound

\* A heartbeat is about the agent only; no lease changes.
LEMMA HeartbeatKeeps ==
    ASSUME IInv, NEW a \in Agent, NEW w \in Windows \cup {agent[a].window}, Heartbeat(a, w)
    PROVE  Sound(Board)'
<1> DEFINE r == [status |-> "WORKING", beat |-> now, window |-> w]
           g == [agent EXCEPT ![a] = r]
<1>1. /\ Board.orbit = orbit /\ Board.agent = agent /\ Board.task = task
      /\ Board.token = token /\ Board.seq = seq /\ Board.fence = fence
      BY DEF Board
<1>2. now \in Nat /\ Sound(Board)
      BY BoundAssumption DEF IInv
<1>3. Board \in BoardRow /\ orbit \in [1..seq -> Row]
      BY <1>1, <1>2 DEF Sound, Typed
<1>4. agent \in [Agent -> AgentRow]
      BY <1>1, <1>3 DEF BoardRow
<1>5. r \in AgentRow
      BY <1>2, <1>4, WindowAssumption DEF AgentRow
<1>6. g \in [Agent -> AgentRow] /\ \A x \in Agent : g[x].status = "RETIRED" => agent[x].status = "RETIRED"
      BY <1>4, <1>5
<1>7. agent' = g /\ Board' = [orbit |-> orbit, agent |-> g, task |-> task,
                              token |-> token, seq |-> seq, fence |-> fence]
      BY DEF Heartbeat, Board
<1> HIDE DEF g, Board
<1>8. /\ Board'.orbit = orbit /\ Board'.agent = g /\ Board'.task = task
      /\ Board'.token = token /\ Board'.seq = seq /\ Board'.fence = fence
      BY <1>7
<1>9. Board' \in BoardRow
      BY <1>1, <1>3, <1>6, <1>7 DEF BoardRow
<1>10. Typed(Board')
      BY <1>3, <1>8, <1>9 DEF Typed
<1>11. Gone(Board')
      BY <1>1, <1>2, <1>6, <1>8 DEF Sound, Gone
<1>12. Drawn(Board') /\ NoConflict(Board'.orbit) /\ Newest(Board'.orbit) /\ Merges(Board')
      BY <1>1, <1>2, <1>8 DEF Sound, Drawn, Merges
<1>13. Sound(Board')
      BY <1>10, <1>11, <1>12 DEF Sound
<1> QED BY <1>13

\* An agent that bails is retired like one that fell silent.
LEMMA BailKeeps ==
    ASSUME IInv, NEW a \in Agent, Bail(a)
    PROVE  Sound(Board)'
<1>1. now \in Nat /\ Sound(Board)
      BY BoundAssumption DEF IInv
<1>2. Sound(Retire(Board, {a}))
      BY <1>1, RetireKeeps
<1>3. PICK b \in Settle(Retire(Board, {a}), now) : Become(b)
      BY DEF Bail
<1> QED BY <1>1, <1>2, <1>3, SettleKeeps, BecomeSound

\* The periodic sweep is the chain of all the stages.
LEMMA SweepKeeps ==
    ASSUME IInv, Sweep
    PROVE  Sound(Board)'
<1>1. now \in Nat /\ Sound(Board)
      BY BoundAssumption DEF IInv
<1>2. PICK b \in Reconcile(Board, now) : Become(b)
      BY DEF Sweep
<1> QED BY <1>1, <1>2, ReconcileKeeps, BecomeSound

-----------------------------------------------------------------------------
\* Every verb of the coordinator keeps the tables sound.
LEMMA NextIInv == IInv /\ [Next]_vars => IInv'
<1> SUFFICES ASSUME IInv, [Next]_vars PROVE IInv'
    OBVIOUS
<1> USE DEF IInv
<1>1. CASE Tick
      <2>1. now' \in 0..MaxTime
            BY <1>1, BoundAssumption DEF Tick
      <2>2. Board' = Board
            BY <1>1 DEF Tick, Board
      <2> QED BY <1>1, <2>1, <2>2 DEF Tick
<1>2. CASE \E a \in Agent : \E w \in Windows \cup {agent[a].window} : Heartbeat(a, w)
      BY <1>2, HeartbeatKeeps DEF Heartbeat
<1>3. CASE \E a \in Agent, r \in Request : Claim(a, r)
      BY <1>3, ClaimKeeps DEF Claim
<1>4. CASE \E a \in Agent, i \in 1..seq : Renew(a, i)
      BY <1>4, RenewKeeps DEF Renew
<1>5. CASE \E a \in Agent, i \in 1..seq : Release(a, i)
      <2>1. PICK a \in Agent, i \in 1..seq : Release(a, i)
            BY <1>5
      <2>2. i \in Live(orbit) /\ Alive(a)
            BY <2>1 DEF Release, Live
      <2>3. Sound(Board)'
            BY <2>1, <2>2, CloseOneKeeps DEF Release
      <2> QED BY <2>1, <2>3 DEF Release
<1>6. CASE \E a \in Agent, i \in 1..seq : CancelWait(a, i)
      <2>1. PICK a \in Agent, i \in 1..seq : CancelWait(a, i)
            BY <1>6
      <2>2. i \in Live(orbit) /\ Alive(a)
            BY <2>1 DEF CancelWait, Live
      <2>3. Sound(Board)'
            BY <2>1, <2>2, CloseOneKeeps DEF CancelWait
      <2> QED BY <2>1, <2>3 DEF CancelWait
<1>7. CASE \E k \in Task : CancelTask(k)
      BY <1>7, CancelTaskKeeps DEF CancelTask
<1>8. CASE \E a \in Agent, k \in Task : Start(a, k)
      BY <1>8, StartKeeps DEF Start
<1>15. CASE \E a \in Agent, k \in Task : Finish(a, k)
      BY <1>15, FinishKeeps DEF Finish
<1>16. CASE \E k \in Task : ConnectTooEarly(k)
      BY <1>16, ConnectTooEarlyKeeps DEF ConnectTooEarly
<1>9. CASE Sweep
      BY <1>9, SweepKeeps DEF Sweep
<1>10. CASE \E a \in Agent : Bail(a)
      BY <1>10, BailKeeps DEF Bail
<1>11. CASE \E k \in Task : BeginConnect(k)
      BY <1>11, BeginConnectKeeps DEF BeginConnect
<1>12. CASE \E k \in Task : EndConnect(k)
      BY <1>12, EndConnectKeeps DEF EndConnect
<1>13. CASE StopConnect
      <2>1. Board' = Board
            BY <1>13 DEF StopConnect, Board
      <2> QED BY <1>13, <2>1 DEF StopConnect
<1>14. CASE UNCHANGED vars
      <2>1. Board' = Board
            BY <1>14 DEF vars, Board
      <2> QED BY <1>14, <2>1 DEF vars
<1> QED BY <1>1, <1>2, <1>3, <1>4, <1>5, <1>6, <1>7, <1>8, <1>9, <1>10, <1>11,
           <1>12, <1>13, <1>14, <1>15, <1>16 DEF Next

\* So they are sound in every state of every behaviour.
LEMMA Inductive == Spec => []IInv
BY InitIInv, NextIInv, PTL DEF Spec

\* Whatever verbs the agents call and in whatever order, the tables of the
\* coordinator hold what their columns promise.
THEOREM TypeCorrect == Spec => []TypeOK
BY Inductive, IInvImplies, PTL

\* Two conflicting leases are never held at once: not after a promotion, a
\* reclaim, a cancelled wait, a connect that was rolled back or recovered.
THEOREM Exclusion == Spec => []Singulon
BY Inductive, IInvImplies, PTL

\* The holder of a lease carries a newer fencing token than every conflicting
\* lease there ever was, so a former holder can be told from the present one.
THEOREM FencingOrder == Spec => []HolderHasNewestFence
BY Inductive, IInvImplies, PTL

\* Bail and the reclaim of a silent agent take away all it had, and no claim
\* or promotion that was under way gives it anything afterwards.
THEOREM ReclaimIsFinal == Spec => []RetiredOwnsNothing
BY Inductive, IInvImplies, PTL

-----------------------------------------------------------------------------
\* The lease authority keeps its promise to the resource: Orbits implements
\* LeaseAuthority.  And its queue never grows beyond its capacity.
\*
\* Both are about what a critical section may do between its first and its
\* last board, so the stages are shown to be steps of one relation, which is
\* transitive; a verb is a chain of such steps.

\* Row i is the same lease on o and on p.
SameLease(o, p, i) ==
    /\ i \in Held(o)
    /\ p[i].cells = o[i].cells /\ p[i].mode = o[i].mode /\ p[i].fence = o[i].fence

\* No two leases carry the same token, also if they have nothing in common.
Apart(o) == \A i, j \in Held(o) : i # j => o[i].fence # o[j].fence

\* From b to c leases end, or are new under tokens drawn since b.
Advances(b, c) ==
    /\ c.fence >= b.fence
    /\ \A i \in Held(c.orbit) :
          SameLease(b.orbit, c.orbit, i) \/ c.orbit[i].fence \in (b.fence + 1)..c.fence
    /\ Apart(b.orbit) => Apart(c.orbit)

\* Besides, nobody has begun to wait.
Follows(b, c) == Advances(b, c) /\ Pending(c.orbit) \subseteq Pending(b.orbit)

\* Steps that advance can be put one after the other.
LEMMA AdvancesOn ==
    ASSUME NEW b, NEW c, NEW d, b.fence \in Nat, c.fence \in Nat, d.fence \in Nat,
           Advances(b, c), Advances(c, d)
    PROVE  Advances(b, d)
<1>1. d.fence >= b.fence
      BY DEF Advances
<1>2. ASSUME NEW i \in Held(d.orbit)
      PROVE  SameLease(b.orbit, d.orbit, i) \/ d.orbit[i].fence \in (b.fence + 1)..d.fence
  <2>1. CASE SameLease(c.orbit, d.orbit, i)
        <3>1. i \in Held(c.orbit) /\ d.orbit[i].fence = c.orbit[i].fence
              BY <2>1 DEF SameLease
        <3>2. CASE SameLease(b.orbit, c.orbit, i)
              BY <2>1, <3>2 DEF SameLease
        <3>3. CASE c.orbit[i].fence \in (b.fence + 1)..c.fence
              BY <3>1, <3>3 DEF Advances
        <3> QED BY <3>1, <3>2, <3>3 DEF Advances
  <2>2. CASE d.orbit[i].fence \in (c.fence + 1)..d.fence
        BY <2>2 DEF Advances
  <2> QED BY <2>1, <2>2 DEF Advances
<1> QED BY <1>1, <1>2 DEF Advances

\* So can steps in which nobody begins to wait.
LEMMA FollowsOn ==
    ASSUME NEW b, NEW c, NEW d, b.fence \in Nat, c.fence \in Nat, d.fence \in Nat,
           Follows(b, c), Follows(c, d)
    PROVE  Follows(b, d)
BY AdvancesOn DEF Follows

\* A step that only ends leases and requests, or leaves them as they are.
LEMMA EndingFollows ==
    ASSUME NEW b, NEW c, b.fence \in Nat, c.fence \in Nat, c.fence >= b.fence,
           \A i \in Held(c.orbit) : SameLease(b.orbit, c.orbit, i),
           Pending(c.orbit) \subseteq Pending(b.orbit)
    PROVE  Follows(b, c)
BY DEF Follows, Advances, Apart, SameLease

\* Verbs that touch no row.
LEMMA SameOrbitFollows ==
    ASSUME NEW b, NEW c, b.fence \in Nat, c.fence \in Nat, c.fence >= b.fence,
           c.orbit = b.orbit
    PROVE  Follows(b, c)
<1>1. \A i \in Held(c.orbit) : SameLease(b.orbit, c.orbit, i)
      BY DEF SameLease
<1> QED BY <1>1, EndingFollows

\* Rows that are rewritten and stay what they were.
LEMMA RewriteFollows ==
    ASSUME NEW b, Sound(b), NEW o \in [1..b.seq -> Row], NEW c, c.orbit = o,
           c.fence \in Nat, c.fence >= b.fence,
           \A i \in 1..b.seq : /\ o[i].cells = b.orbit[i].cells /\ o[i].mode = b.orbit[i].mode
                               /\ o[i].state = b.orbit[i].state /\ o[i].fence = b.orbit[i].fence
    PROVE  Follows(b, c)
<1>1. b.orbit \in [1..b.seq -> Row] /\ b.fence \in Nat
      BY DEF Sound, Typed, BoardRow
<1>2. \A i \in Held(o) : SameLease(b.orbit, o, i)
      BY <1>1 DEF Held, SameLease
<1>3. Pending(o) \subseteq Pending(b.orbit)
      BY <1>1 DEF Pending
<1> QED BY <1>1, <1>2, <1>3, EndingFollows

\* Closing a row changes neither its cells nor its mode nor its token.
LEMMA CloseSame ==
    ASSUME NEW o, NEW n \in Nat, o \in [1..n -> Row], NEW S, NEW s
    PROVE  \A i \in DOMAIN o : /\ Close(o, S, s)[i].cells = o[i].cells
                               /\ Close(o, S, s)[i].mode = o[i].mode
                               /\ Close(o, S, s)[i].fence = o[i].fence
BY DEF Close, Row

\* Rows that are closed.
LEMMA CloseFollows ==
    ASSUME NEW b, Sound(b), NEW S, NEW s \in {"RELEASED", "EXPIRED", "DENIED"},
           NEW c, c.orbit = Close(b.orbit, S, s), c.fence \in Nat, c.fence >= b.fence
    PROVE  Follows(b, c)
<1> DEFINE o == Close(b.orbit, S, s)
<1>1. b.orbit \in [1..b.seq -> Row] /\ b.seq \in Nat /\ b.fence \in Nat
      BY DEF Sound, Typed, BoardRow
<1>2. Held(o) = Held(b.orbit) \ S /\ Pending(o) = Pending(b.orbit) \ S
      BY <1>1, CloseEnds
<1>3. \A i \in DOMAIN b.orbit : /\ o[i].cells = b.orbit[i].cells
                                /\ o[i].mode = b.orbit[i].mode
                                /\ o[i].fence = b.orbit[i].fence
      BY <1>1, CloseSame
<1> HIDE DEF o
<1>4. \A i \in Held(o) : SameLease(b.orbit, o, i)
      BY <1>2, <1>3 DEF SameLease, Held
<1> QED BY <1>1, <1>2, <1>4, EndingFollows DEF o

\* Leases and requests that are closed together.
LEMMA CloseAllFollows ==
    ASSUME NEW b, Sound(b), NEW S, NEW s \in {"RELEASED", "EXPIRED"},
           NEW c, c.orbit = CloseAll(b.orbit, S, s), c.fence \in Nat, c.fence >= b.fence
    PROVE  Follows(b, c)
<1> DEFINE H == Held(b.orbit) \cap S
           Q == Pending(b.orbit) \cap S
           p == [b EXCEPT !.orbit = Close(b.orbit, H, s)]
<1>1. b \in BoardRow /\ b.fence \in Nat
      BY DEF Sound, Typed, BoardRow
<1>2. p.orbit = Close(b.orbit, H, s) /\ p.fence = b.fence /\ Sound(p)
      BY <1>1, CloseKeeps DEF BoardRow, Live
<1> HIDE DEF p
<1>3. Follows(b, p)
      <2> HIDE DEF H
      <2>1. p.fence >= b.fence /\ p.fence \in Nat
            BY <1>1, <1>2
      <2>2. s \in {"RELEASED", "EXPIRED", "DENIED"}
            OBVIOUS
      <2> QED BY <1>2, <2>1, <2>2, CloseFollows
<1>4. c.orbit = Close(p.orbit, Q, "DENIED")
      BY <1>2 DEF CloseAll
<1>5. Follows(p, c)
      <2> HIDE DEF Q
      <2> QED BY <1>1, <1>2, <1>4, CloseFollows
<1> QED BY <1>1, <1>2, <1>3, <1>5, FollowsOn

-----------------------------------------------------------------------------
\* The stages of a reconciliation.

\* Leases that ran out, and requests that are late.
LEMMA ExpireFollows ==
    ASSUME NEW b, Sound(b), NEW t \in Nat
    PROVE  Follows(b, Expire(b, t)) /\ Follows(b, TimeOut(b, t))
<1> DEFINE E == {i \in Held(b.orbit) : ~b.orbit[i].pinned /\ b.orbit[i].due <= t}
           L == {i \in Pending(b.orbit) : b.orbit[i].due <= t}
<1>1. b \in BoardRow /\ b.fence \in Nat /\ b.fence >= b.fence
      BY DEF Sound, Typed, BoardRow
<1>2. Expire(b, t).orbit = Close(b.orbit, E, "EXPIRED") /\ Expire(b, t).fence = b.fence
      BY <1>1 DEF Expire, BoardRow
<1>3. TimeOut(b, t).orbit = Close(b.orbit, L, "DENIED") /\ TimeOut(b, t).fence = b.fence
      BY <1>1 DEF TimeOut, BoardRow
<1> HIDE DEF E, L
<1> QED BY <1>1, <1>2, <1>3, CloseFollows

\* Victims of wait cycles.
LEMMA BreakCyclesFollows ==
    ASSUME NEW b, Sound(b), NEW t \in Nat, NEW c \in BreakCycles(b, t)
    PROVE  Follows(b, c)
<1>1. b \in BoardRow /\ b.fence \in Nat /\ b.fence >= b.fence
      BY DEF Sound, Typed, BoardRow
<1>2. PICK D \in Denials(b.orbit, t) : c = [b EXCEPT !.orbit = Close(b.orbit, D, "DENIED")]
      BY DEF BreakCycles
<1>3. c.orbit = Close(b.orbit, D, "DENIED") /\ c.fence = b.fence
      BY <1>1, <1>2 DEF BoardRow
<1> QED BY <1>1, <1>3, CloseFollows

\* Agents that are retired.
LEMMA RetireFollows ==
    ASSUME NEW b, Sound(b), NEW D \in SUBSET Agent
    PROVE  Follows(b, Retire(b, D))
<1> DEFINE theirs == {i \in DOMAIN b.orbit : b.orbit[i].agent \in D}
           c == Retire(b, D)
<1>1. b \in BoardRow /\ b.fence \in Nat /\ b.fence >= b.fence
      BY DEF Sound, Typed, BoardRow
<1>2. c.orbit = CloseAll(b.orbit, theirs, "EXPIRED") /\ c.fence = b.fence
      BY <1>1 DEF Retire, BoardRow
<1> HIDE DEF c, theirs
<1> QED BY <1>1, <1>2, CloseAllFollows DEF c

\* Rank is transitive and nobody outranks himself.
LEMMA RankOrder ==
    ASSUME NEW n \in Nat, NEW o \in [1..n -> Row], NEW t \in Nat
    PROVE  /\ \A i, j, k \in 1..n :
                 Outranks(o, t, i, j) /\ Outranks(o, t, j, k) => Outranks(o, t, i, k)
           /\ \A i, j \in 1..n : Outranks(o, t, i, j) => i # j /\ ~Outranks(o, t, j, i)
<1>1. \A i \in 1..n : Effective(o[i], t) \in Int
      BY EffectiveType
<1> QED BY <1>1 DEF Outranks

\* Requests that are granted together get different tokens.
LEMMA PlaceApart ==
    ASSUME NEW n \in Nat, NEW o \in [1..n -> Row], NEW t \in Nat,
           NEW P \in SUBSET (1..n), NEW i \in P, NEW j \in P, i # j
    PROVE  Place(o, t, P, i) # Place(o, t, P, j)
<1> DEFINE Q(x) == {y \in P : y = x \/ Outranks(o, t, y, x)}
<1>1. ASSUME NEW x \in P, NEW y \in P, Outranks(o, t, x, y)
      PROVE  Cardinality(Q(x)) # Cardinality(Q(y))
  <2>1. x \in 1..n /\ y \in 1..n
        OBVIOUS
  <2>2. Q(x) \subseteq Q(y)
        BY <1>1, <2>1, RankOrder
  <2>3. y \in Q(y) /\ y \notin Q(x)
        BY <1>1, <2>1, RankOrder
  <2>4. IsFiniteSet(P)
        BY PlaceBounds
  <2>5. IsFiniteSet(Q(y))
        BY <2>4, FS_Subset
  <2> QED BY <2>2, <2>3, <2>5, FS_Subset
<1>2. Outranks(o, t, i, j) \/ Outranks(o, t, j, i)
      BY RankTotal
<1>3. Cardinality(Q(i)) # Cardinality(Q(j))
      BY <1>1, <1>2
<1> QED BY <1>3 DEF Place

\* Promotion: the leases there were, and new ones under new tokens.
LEMMA PromoteFollows ==
    ASSUME NEW b, Sound(b), NEW t \in Nat
    PROVE  Follows(b, Promote(b, t))
<1> DEFINE P == Promotable(b, t)
           p(i) == Place(b.orbit, t, P, i)
           c == Promote(b, t)
           o == c.orbit
<1>1. /\ b \in BoardRow /\ b.orbit \in [1..b.seq -> Row] /\ b.seq \in Nat /\ b.fence \in Nat
      /\ \A i \in 1..b.seq : b.orbit[i].fence \in Nat /\ b.orbit[i].fence <= b.fence
      BY DEF Sound, Typed, BoardRow, Drawn, Row
<1>2. P \in SUBSET (1..b.seq) /\ P \subseteq Pending(b.orbit)
      BY <1>1 DEF Promotable, Pending
<1>3. /\ DOMAIN o = 1..b.seq
      /\ \A i \in 1..b.seq : /\ o[i].cells = b.orbit[i].cells
                             /\ o[i].mode = b.orbit[i].mode
                             /\ o[i].state = IF i \in P THEN "HELD" ELSE b.orbit[i].state
                             /\ o[i].fence = IF i \in P THEN b.fence + p(i) ELSE b.orbit[i].fence
      BY <1>1 DEF Promote, BoardRow, Row
<1>4. c.fence = b.fence + Cardinality(P)
      BY <1>1 DEF Promote, BoardRow
<1> HIDE DEF P, p, c, o
<1>5. \A i \in P : Cardinality(P) \in Nat /\ p(i) \in 1..Cardinality(P)
      BY <1>1, <1>2, PlaceBounds DEF p
<1>6. \A i, j \in P : i # j => p(i) # p(j)
      BY <1>1, <1>2, PlaceApart DEF p
<1>7. Held(o) = Held(b.orbit) \cup P /\ Pending(o) = Pending(b.orbit) \ P
      BY <1>1, <1>2, <1>3 DEF Held, Pending
<1>8. Held(b.orbit) \subseteq 1..b.seq /\ Held(b.orbit) \cap P = {}
      BY <1>1, <1>2 DEF Held, Pending
<1>9. Cardinality(P) \in Nat
      <2>1. IsFiniteSet(1..b.seq)
            BY <1>1, FS_Interval
      <2> QED BY <1>2, <2>1, FS_Subset, FS_CardinalityType
<1>10. ASSUME NEW i \in Held(o)
       PROVE  SameLease(b.orbit, o, i) \/ o[i].fence \in (b.fence + 1)..c.fence
  <2>1. CASE i \in P
        BY <1>1, <1>2, <1>3, <1>4, <1>5, <2>1
  <2>2. CASE i \notin P
        BY <1>3, <1>7, <1>8, <2>2 DEF SameLease
  <2> QED BY <2>1, <2>2
<1>11. ASSUME Apart(b.orbit), NEW i \in Held(o), NEW j \in Held(o), i # j
       PROVE  o[i].fence # o[j].fence
  <2>1. i \in 1..b.seq /\ j \in 1..b.seq
        BY <1>2, <1>7, <1>8
  <2>2. CASE i \in P /\ j \in P
        BY <1>1, <1>3, <1>5, <1>6, <2>1, <2>2, <1>11
  <2>3. CASE i \notin P /\ j \notin P
        BY <1>3, <1>7, <2>1, <2>3, <1>11 DEF Apart
  <2>4. CASE i \in P /\ j \notin P
        BY <1>1, <1>3, <1>5, <2>1, <2>4
  <2>5. CASE i \notin P /\ j \in P
        BY <1>1, <1>3, <1>5, <2>1, <2>5
  <2> QED BY <2>2, <2>3, <2>4, <2>5
<1>12. c.fence >= b.fence
      BY <1>1, <1>4, <1>9
<1>13. Follows(b, c)
      BY <1>7, <1>10, <1>11, <1>12 DEF Follows, Advances, Apart, o
<1> QED BY <1>13 DEF c

\* The chains of these stages that verbs end with.
LEMMA FinishFollows ==
    ASSUME NEW b, Sound(b), NEW t \in Nat,
           NEW d \in BreakCycles(TimeOut(b, t), t)
    PROVE  Follows(b, Promote(d, t))
<1> DEFINE c == TimeOut(b, t)
           e == Promote(d, t)
<1>1. Sound(c) /\ Follows(b, c)
      BY TimeOutKeeps, ExpireFollows
<1> HIDE DEF c
<1>2. Sound(d) /\ Follows(c, d)
      BY <1>1, BreakCyclesKeeps, BreakCyclesFollows DEF c
<1>3. Sound(e) /\ Follows(d, e)
      BY <1>2, PromoteKeeps, PromoteFollows
<1> HIDE DEF e
<1>4. b.fence \in Nat /\ c.fence \in Nat /\ d.fence \in Nat /\ e.fence \in Nat
      BY <1>1, <1>2, <1>3 DEF Sound, Typed, BoardRow
<1>5. Follows(b, d)
      BY <1>1, <1>2, <1>4, FollowsOn
<1>6. Follows(b, e)
      BY <1>3, <1>4, <1>5, FollowsOn
<1> QED BY <1>6 DEF e

\* Reconciliation without the reclaim, and
LEMMA SettleFollows ==
    ASSUME NEW b, Sound(b), NEW t \in Nat, NEW c \in Settle(b, t)
    PROVE  Follows(b, c)
<1> DEFINE x == Expire(b, t)
<1>1. Sound(x) /\ Follows(b, x)
      BY ExpireKeeps, ExpireFollows
<1>2. PICK d \in BreakCycles(TimeOut(x, t), t) : c = Promote(d, t)
      BY DEF Settle
<1> HIDE DEF x
<1>3. Follows(x, c)
      BY <1>1, <1>2, FinishFollows
<1>4. Sound(c)
      BY SettleKeeps
<1>5. b.fence \in Nat /\ x.fence \in Nat /\ c.fence \in Nat
      BY <1>1, <1>4 DEF Sound, Typed, BoardRow
<1> QED BY <1>1, <1>3, <1>5, FollowsOn

\* with it.
LEMMA ReconcileFollows ==
    ASSUME NEW b, Sound(b), NEW t \in Nat, NEW c \in Reconcile(b, t)
    PROVE  Follows(b, c)
<1> DEFINE x == Expire(b, t)
           y == Retire(x, Zombies(x, t))
<1>1. Sound(x) /\ Follows(b, x)
      BY ExpireKeeps, ExpireFollows
<1>2. PICK d \in BreakCycles(TimeOut(y, t), t) : c = Promote(d, t)
      BY DEF Reconcile
<1> HIDE DEF x
<1>3. Sound(y) /\ Follows(x, y)
      <2>1. Zombies(x, t) \in SUBSET Agent
            BY DEF Zombies
      <2> QED BY <1>1, <2>1, RetireKeeps, RetireFollows
<1> HIDE DEF y
<1>4. Follows(y, c)
      BY <1>2, <1>3, FinishFollows
<1>5. Sound(c)
      BY ReconcileKeeps
<1>6. b.fence \in Nat /\ x.fence \in Nat /\ y.fence \in Nat /\ c.fence \in Nat
      BY <1>1, <1>3, <1>5 DEF Sound, Typed, BoardRow
<1>7. Follows(b, y)
      BY <1>1, <1>3, <1>6, FollowsOn
<1> QED BY <1>4, <1>6, <1>7, FollowsOn

-----------------------------------------------------------------------------
\* Claims.

\* A queue within its capacity stays within it.
Fits(b, c) == Cardinality(Pending(b.orbit)) <= Capacity => Cardinality(Pending(c.orbit)) <= Capacity

\* The queue is a finite set.
LEMMA QueueFinite ==
    ASSUME NEW b, Sound(b)
    PROVE  IsFiniteSet(Pending(b.orbit)) /\ Cardinality(Pending(b.orbit)) \in Nat
<1>1. b.seq \in Nat /\ Pending(b.orbit) \in SUBSET (1..b.seq)
      BY DEF Sound, Typed, BoardRow, Pending
<1>2. IsFiniteSet(1..b.seq)
      BY <1>1, FS_Interval
<1> QED BY <1>1, <1>2, FS_Subset, FS_CardinalityType

\* A queue that nobody joins fits.
LEMMA FollowsFits ==
    ASSUME NEW b, Sound(b), NEW c, Sound(c), Follows(b, c)
    PROVE  Fits(b, c)
<1>1. Cardinality(Pending(c.orbit)) <= Cardinality(Pending(b.orbit))
      BY QueueFinite, FS_Subset DEF Follows
<1> QED BY <1>1, QueueFinite, LimitAssumption DEF Fits

\* A row at the end of the table: a request, or a lease under the next token.
LEMMA ExtendAdvances ==
    ASSUME NEW b, Sound(b), NEW row \in Row, NEW f \in Nat,
           \/ row.state = "PENDING" /\ f = b.fence
           \/ row.state = "HELD" /\ row.fence = b.fence + 1 /\ f = b.fence + 1
    PROVE  LET c == [Extend(b, row) EXCEPT !.fence = f]
           IN  /\ Advances(b, c)
               /\ row.state = "HELD" => Pending(c.orbit) \subseteq Pending(b.orbit)
               /\ Pending(c.orbit) \subseteq Pending(b.orbit) \cup {b.seq + 1}
<1> DEFINE new == b.seq + 1
           c == [Extend(b, row) EXCEPT !.fence = f]
           o == c.orbit
<1>1. /\ b \in BoardRow /\ b.orbit \in [1..b.seq -> Row] /\ b.seq \in Nat /\ b.fence \in Nat
      /\ \A i \in 1..b.seq : b.orbit[i].fence \in Nat /\ b.orbit[i].fence <= b.fence
      BY DEF Sound, Typed, BoardRow, Drawn, Row
<1>2. /\ DOMAIN o = 1..new /\ o[new] = row /\ \A i \in 1..b.seq : o[i] = b.orbit[i]
      /\ 1..new = (1..b.seq) \cup {new} /\ new \notin 1..b.seq
      /\ c.fence = f
      BY <1>1 DEF Extend, BoardRow
<1> HIDE DEF c, o, new
<1>3. /\ Held(o) \subseteq Held(b.orbit) \cup {new}
      /\ Pending(o) \subseteq Pending(b.orbit) \cup {new}
      /\ Held(b.orbit) \subseteq 1..b.seq /\ Pending(b.orbit) \subseteq 1..b.seq
      /\ new \in Held(o) => row.state = "HELD"
      /\ new \in Pending(o) => row.state = "PENDING"
      BY <1>1, <1>2 DEF Held, Pending
<1>4. \A i \in Held(o) : \/ SameLease(b.orbit, o, i)
                         \/ o[i].fence \in (b.fence + 1)..c.fence
      BY <1>1, <1>2, <1>3 DEF SameLease
<1>5. ASSUME Apart(b.orbit), NEW i \in Held(o), NEW j \in Held(o), i # j
      PROVE  o[i].fence # o[j].fence
  <2>1. ASSUME NEW x \in Held(o), x # new
        PROVE  x \in Held(b.orbit) /\ x \in 1..b.seq /\ o[x] = b.orbit[x]
        BY <1>2, <1>3, <2>1
  <2>2. ASSUME NEW x \in Held(o), x # new, new \in Held(o)
        PROVE  o[x].fence # o[new].fence
    <3>1. o[x].fence \in Nat /\ o[x].fence <= b.fence
          BY <1>1, <2>1, <2>2
    <3>2. o[new].fence = row.fence /\ row.state = "HELD"
          BY <1>2, <1>3, <2>2
    <3> QED BY <1>1, <3>1, <3>2
  <2>3. CASE i # new /\ j # new
        BY <1>5, <2>1, <2>3 DEF Apart
  <2>4. CASE i = new \/ j = new
        BY <1>5, <2>2, <2>4
  <2> QED BY <2>3, <2>4
<1>6. c.fence >= b.fence
      BY <1>1, <1>2
<1>7. Advances(b, c)
      BY <1>4, <1>5, <1>6 DEF Advances, Apart, o
<1> QED BY <1>3, <1>7 DEF c, o, new

\* Whatever becomes of a claim, it is granted under the next token or waits
\* within the capacity of the queue.
LEMMA AdmitAdvances ==
    ASSUME NEW b, Sound(b), NEW a \in Agent, b.agent[a].status # "RETIRED",
           NEW r \in RequestRow, NEW t \in Nat, NEW c \in Admit(b, a, r, t)
    PROVE  Advances(b, c) /\ Fits(b, c)
<1> DEFINE w      == Waiting(a, r, t)
           h      == [w EXCEPT !.state = "HELD", !.fence = b.fence + 1, !.due = t + r.ttl, !.enq = 0]
           queued == Extend(b, w)
           g      == Granted(b, a, r, t)
           new    == b.seq + 1
<1>1. b \in BoardRow /\ b.seq \in Nat /\ b.fence \in Nat
      BY DEF Sound, Typed, BoardRow
<1>2. w \in Row /\ w.agent = a /\ w.state = "PENDING" /\ w.fence = 0
      BY WaitingType
<1>3. h \in Row /\ h.agent = a /\ h.state = "HELD" /\ h.fence = b.fence + 1
      <2>1. t + r.ttl \in Nat /\ b.fence + 1 \in Nat
            BY <1>1 DEF RequestRow
      <2> HIDE DEF w
      <2> QED BY <1>2, <2>1 DEF Row, OrbitState
<1>4. queued = [Extend(b, w) EXCEPT !.fence = b.fence] /\ queued.fence = b.fence
      BY <1>1 DEF Extend, BoardRow
<1>5. g = [Extend(b, h) EXCEPT !.fence = b.fence + 1] /\ g.fence = b.fence + 1
      BY <1>1 DEF Granted, Extend, BoardRow
<1>6. c \in Admit(b, a, r, t) /\ Sound(c)
      BY AdmitKeeps
<1> HIDE DEF w, h
<1>7. Advances(b, queued) /\ Pending(queued.orbit) \subseteq Pending(b.orbit) \cup {new}
      BY <1>1, <1>2, <1>4, ExtendAdvances
<1>8. Advances(b, g) /\ Pending(g.orbit) \subseteq Pending(b.orbit)
      <2>1. b.fence + 1 \in Nat
            BY <1>1
      <2> QED BY <1>3, <1>5, <2>1, ExtendAdvances
<1>9. Cardinality(Pending(b.orbit)) \in Nat /\ IsFiniteSet(Pending(b.orbit))
      BY QueueFinite
<1>10. CASE c \in BreakCycles(g, t) /\ Blockers(queued.orbit, t, new) = {}
  <2>1. Sound(g)
        BY <1>10, GrantedKeeps DEF w
  <2> HIDE DEF g
  <2>2. Follows(g, c)
        BY <1>10, <2>1, BreakCyclesFollows
  <2>3. Follows(b, g)
        BY <1>8 DEF Follows
  <2>4. g.fence \in Nat /\ c.fence \in Nat
        BY <1>6, <2>1 DEF Sound, Typed, BoardRow
  <2>5. Follows(b, c)
        BY <1>1, <2>2, <2>3, <2>4, FollowsOn
  <2> QED BY <1>6, <2>5, FollowsFits DEF Follows
<1>11. CASE c = b
  <2>1. Follows(b, b)
        BY <1>1, SameOrbitFollows
  <2> QED BY <1>11, <2>1, FollowsFits DEF Follows
<1>12. CASE /\ ~(Cardinality(Pending(b.orbit)) >= Capacity)
            /\ c \in {queued, [queued EXCEPT !.orbit = Close(queued.orbit, {new}, "DENIED")]}
  <2>1. Sound(queued)
        BY QueuedKeeps DEF w
  <2>2. Follows(queued, c)
    <3>1. queued.fence \in Nat /\ queued \in BoardRow
          BY <2>1 DEF Sound, Typed, BoardRow
    <3> HIDE DEF queued
    <3>2. CASE c = queued
          BY <3>1, <3>2, SameOrbitFollows
    <3>3. CASE c = [queued EXCEPT !.orbit = Close(queued.orbit, {new}, "DENIED")]
      <4>1. c.orbit = Close(queued.orbit, {new}, "DENIED") /\ c.fence = queued.fence
            BY <3>1, <3>3 DEF BoardRow
      <4>2. c.fence \in Nat /\ c.fence >= queued.fence
            BY <3>1, <4>1
      <4> QED BY <2>1, <4>1, <4>2, CloseFollows
    <3> QED BY <1>12, <3>2, <3>3
  <2> HIDE DEF queued
  <2>3. queued.fence \in Nat /\ c.fence \in Nat
        BY <1>6, <2>1 DEF Sound, Typed, BoardRow
  <2>4. Advances(b, c)
        BY <1>1, <1>7, <2>2, <2>3, AdvancesOn DEF Follows
  <2>5. Pending(c.orbit) \subseteq Pending(b.orbit) \cup {new}
        BY <1>7, <2>2 DEF Follows
  <2>6. /\ IsFiniteSet(Pending(b.orbit) \cup {new})
        /\ Cardinality(Pending(b.orbit) \cup {new}) \in Nat
        /\ Cardinality(Pending(b.orbit) \cup {new}) <= Cardinality(Pending(b.orbit)) + 1
        BY <1>9, FS_AddElement, FS_CardinalityType
  <2>7. /\ Cardinality(Pending(c.orbit)) <= Cardinality(Pending(b.orbit) \cup {new})
        /\ Cardinality(Pending(c.orbit)) \in Nat
        BY <1>6, <2>5, <2>6, FS_Subset, QueueFinite
  <2>8. Cardinality(Pending(c.orbit)) <= Capacity
        BY <1>9, <1>12, <2>6, <2>7, LimitAssumption
  <2> QED BY <2>4, <2>8 DEF Fits
<1> QED
  <2>1. \/ c = b
        \/ c \in BreakCycles(g, t) /\ Blockers(queued.orbit, t, new) = {}
        \/ /\ ~(Cardinality(Pending(b.orbit)) >= Capacity)
           /\ c \in {queued, [queued EXCEPT !.orbit = Close(queued.orbit, {new}, "DENIED")]}
        BY <1>6 DEF Admit, w
  <2> QED BY <1>10, <1>11, <1>12, <2>1

-----------------------------------------------------------------------------
\* The verbs.

\* What a verb does before the reconciliation it ends with may be put before it.
LEMMA ServedFollows ==
    ASSUME NEW b, Sound(b), NEW c, Sound(c), Follows(b, c), NEW t \in Nat,
           NEW d \in Reconcile(c, t), Become(d)
    PROVE  Follows(b, Board')
<1>1. Sound(d) /\ Follows(c, d)
      BY ReconcileKeeps, ReconcileFollows
<1>2. b.fence \in Nat /\ c.fence \in Nat /\ d.fence \in Nat
      BY <1>1 DEF Sound, Typed, BoardRow
<1> QED BY <1>1, <1>2, FollowsOn, BecomeBoard

\* A claim is the one verb that may join the queue.
LEMMA ClaimAdvances ==
    ASSUME IInv, NEW a \in Agent, NEW r \in Request, Claim(a, r)
    PROVE  Advances(Board, Board') /\ Fits(Board, Board')
<1>1. now \in Nat /\ Sound(Board)
      BY BoundAssumption DEF IInv
<1>2. PICK b \in Reconcile(Board, now) :
         \/ b.agent[a].status = "RETIRED" /\ Become(b)
         \/ /\ b.agent[a].status # "RETIRED"
            /\ \E c \in Admit(Touch(b, a, now), a, r, now) : Become(c)
      BY DEF Claim
<1>3. Sound(b) /\ Follows(Board, b)
      BY <1>1, ReconcileKeeps, ReconcileFollows
<1>4. CASE Become(b)
      BY <1>1, <1>3, <1>4, BecomeBoard, FollowsFits DEF Follows
<1>5. CASE /\ b.agent[a].status # "RETIRED"
           /\ \E c \in Admit(Touch(b, a, now), a, r, now) : Become(c)
  <2> DEFINE t == Touch(b, a, now)
  <2>1. Sound(t) /\ t.agent[a].status # "RETIRED" /\ t.orbit = b.orbit /\ t.fence = b.fence
        BY <1>1, <1>3, <1>5, TouchKeeps
  <2>2. PICK c \in Admit(t, a, r, now) : Become(c)
        BY <1>5
  <2> HIDE DEF t
  <2>3. r \in RequestRow
        BY RequestAssumption DEF RequestRow
  <2>4. Sound(c) /\ Advances(t, c) /\ Fits(t, c)
        BY <1>1, <2>1, <2>2, <2>3, AdmitKeeps, AdmitAdvances
  <2>5. Board.fence \in Nat /\ b.fence \in Nat /\ t.fence \in Nat /\ c.fence \in Nat
        BY <1>1, <1>3, <2>1, <2>4 DEF Sound, Typed, BoardRow
  <2>6. Follows(b, t)
        BY <2>1, <2>5, SameOrbitFollows
  <2>7. Follows(Board, t)
        BY <1>3, <2>5, <2>6, FollowsOn
  <2>8. Advances(Board, c)
        BY <2>4, <2>5, <2>7, AdvancesOn DEF Follows
  <2>9. Fits(Board, t)
        BY <1>1, <2>1, <2>7, FollowsFits
  <2>10. Fits(Board, c)
        BY <2>4, <2>9 DEF Fits
  <2> QED BY <2>2, <2>4, <2>8, <2>10, BecomeBoard
<1> QED BY <1>2, <1>4, <1>5

\* Release and CancelWait.
LEMMA CloseOneFollows ==
    ASSUME IInv, NEW a \in Agent, Alive(a), NEW i \in Live(orbit),
           NEW s \in {"RELEASED", "DENIED"},
           NEW b \in Reconcile([Touch(Board, a, now) EXCEPT !.orbit = Close(@, {i}, s)], now),
           Become(b)
    PROVE  Follows(Board, Board')
<1> DEFINE t == Touch(Board, a, now)
           c == [t EXCEPT !.orbit = Close(t.orbit, {i}, s)]
<1>1. now \in Nat /\ Sound(Board)
      BY BoundAssumption DEF IInv
<1>2. Board.agent[a].status # "RETIRED" /\ Board.orbit = orbit
      BY DEF Alive, Board
<1>3. Sound(t) /\ t.orbit = orbit /\ t.fence = Board.fence
      BY <1>1, <1>2, TouchKeeps
<1> HIDE DEF t
<1>4. Sound(c)
      BY <1>3, CloseKeeps
<1>5. b \in Reconcile(c, now)
      BY <1>3 DEF t
<1>6. c.orbit = Close(Board.orbit, {i}, s) /\ c.fence = Board.fence
      BY <1>2, <1>3 DEF Sound, Typed, BoardRow
<1> HIDE DEF c
<1>7. c.fence \in Nat /\ c.fence >= Board.fence
      BY <1>4, <1>6 DEF Sound, Typed, BoardRow
<1>8. Follows(Board, c)
      BY <1>1, <1>6, <1>7, CloseFollows
<1> QED BY <1>1, <1>4, <1>5, <1>8, ServedFollows

\* A task that is cancelled.
LEMMA CancelTaskFollows ==
    ASSUME IInv, NEW k \in Task, CancelTask(k)
    PROVE  Follows(Board, Board')
<1> DEFINE S == {i \in DOMAIN orbit : orbit[i].task = k}
           d == [Board EXCEPT !.orbit = CloseAll(orbit, S, "RELEASED"), !.task[k].state = "ABORTED"]
<1>1. now \in Nat /\ Sound(Board)
      BY BoundAssumption DEF IInv
<1>2. Sound(d)
      BY <1>1, CancelledSound DEF CancelTask
<1>3. PICK b \in Reconcile(d, now) : Become(b)
      BY DEF CancelTask
<1> HIDE DEF S
<1>4. d.orbit = CloseAll(Board.orbit, S, "RELEASED") /\ d.fence = Board.fence
      BY DEF Board
<1> HIDE DEF d
<1>5. d.fence \in Nat /\ d.fence >= Board.fence
      BY <1>2, <1>4 DEF Sound, Typed, BoardRow
<1>6. Follows(Board, d)
      BY <1>1, <1>4, <1>5, CloseAllFollows
<1> QED BY <1>1, <1>2, <1>3, <1>6, ServedFollows

\* The sweep, and a bail.
LEMMA SweepFollows ==
    ASSUME IInv, Sweep \/ \E a \in Agent : Bail(a)
    PROVE  Follows(Board, Board')
<1>1. now \in Nat /\ Sound(Board)
      BY BoundAssumption DEF IInv
<1>2. CASE Sweep
  <2>1. PICK b \in Reconcile(Board, now) : Become(b)
        BY <1>2 DEF Sweep
  <2> QED BY <1>1, <2>1, ReconcileKeeps, ReconcileFollows, BecomeBoard
<1>3. CASE \E a \in Agent : Bail(a)
  <2>1. PICK a \in Agent : Bail(a)
        BY <1>3
  <2> DEFINE c == Retire(Board, {a})
  <2>2. PICK b \in Settle(c, now) : Become(b)
        BY <2>1 DEF Bail
  <2>3. Sound(c) /\ Follows(Board, c)
        BY <1>1, RetireKeeps, RetireFollows
  <2> HIDE DEF c
  <2>4. Sound(b) /\ Follows(c, b)
        BY <1>1, <2>2, <2>3, SettleKeeps, SettleFollows
  <2>5. Board.fence \in Nat /\ c.fence \in Nat /\ b.fence \in Nat
        BY <1>1, <2>3, <2>4 DEF Sound, Typed, BoardRow
  <2> QED BY <2>2, <2>3, <2>4, <2>5, FollowsOn, BecomeBoard
<1> QED BY <1>2, <1>3

\* A renewal moves a deadline.
LEMMA RenewFollows ==
    ASSUME IInv, NEW a \in Agent, NEW i, Renew(a, i)
    PROVE  Follows(Board, Board')
<1> DEFINE o == [orbit EXCEPT ![i].due = now + orbit[i].ttl]
<1>1. Sound(Board) /\ Sound(Board')
      BY RenewKeeps DEF IInv
<1>2. Board.orbit = orbit /\ Board.fence = fence /\ Board.seq = seq
      BY DEF Board
<1>3. orbit' = o /\ fence' = fence /\ seq' = seq
      BY DEF Renew, Become, Touch, Board
<1>4. Board'.orbit = o /\ Board'.fence = fence /\ Board'.seq = seq
      BY <1>3 DEF Board
<1>5. orbit \in [1..seq -> Row] /\ fence \in Nat /\ o \in [1..seq -> Row]
      BY <1>1, <1>2, <1>4 DEF Sound, Typed, BoardRow
<1>6. \A j \in 1..seq : /\ o[j].cells = orbit[j].cells /\ o[j].mode = orbit[j].mode
                        /\ o[j].state = orbit[j].state /\ o[j].fence = orbit[j].fence
      BY <1>5 DEF Row
<1> HIDE DEF o, Board
<1>7. Board'.fence \in Nat /\ Board'.fence >= Board.fence
      BY <1>2, <1>4, <1>5
<1>8. /\ o \in [1..Board.seq -> Row]
      /\ \A j \in 1..Board.seq : /\ o[j].cells = Board.orbit[j].cells
                                 /\ o[j].mode = Board.orbit[j].mode
                                 /\ o[j].state = Board.orbit[j].state
                                 /\ o[j].fence = Board.orbit[j].fence
      BY <1>2, <1>5, <1>6
<1> QED BY <1>1, <1>4, <1>7, <1>8, RewriteFollows

\* Phase A pins leases and draws a token that is no lease's.
LEMMA BeginConnectFollows ==
    ASSUME IInv, NEW k \in Task, BeginConnect(k)
    PROVE  Follows(Board, Board')
<1>1. now \in Nat /\ Sound(Board) /\ Sound(Board')
      BY BoundAssumption, BeginConnectKeeps DEF IInv
<1>2. PICK b \in Reconcile(Board, now) :
         Become([b EXCEPT !.orbit = Pin(@, WriteRows(b.orbit, k)),
                          !.task[k].state = "CONNECTING",
                          !.token = k,
                          !.fence = @ + 1])
      BY DEF BeginConnect
<1>3. Sound(b) /\ Follows(Board, b)
      BY <1>1, ReconcileKeeps, ReconcileFollows
<1>4. b \in BoardRow /\ b.orbit \in [1..b.seq -> Row] /\ b.fence \in Nat
      BY <1>3 DEF Sound, Typed, BoardRow
<1> DEFINE o == Pin(b.orbit, WriteRows(b.orbit, k))
<1>5. Board'.orbit = o /\ Board'.fence = b.fence + 1
      BY <1>2, <1>4 DEF Become, Board, BoardRow
<1>6. /\ o \in [1..b.seq -> Row]
      /\ \A i \in 1..b.seq : /\ o[i].cells = b.orbit[i].cells /\ o[i].mode = b.orbit[i].mode
                             /\ o[i].state = b.orbit[i].state /\ o[i].fence = b.orbit[i].fence
      BY <1>4 DEF Pin, Row
<1> HIDE DEF o
<1>7. Board'.fence \in Nat /\ Board'.fence >= b.fence
      BY <1>4, <1>5
<1>8. Follows(b, Board')
      BY <1>3, <1>5, <1>6, <1>7, RewriteFollows
<1>9. Board.fence \in Nat
      BY <1>1 DEF Sound, Typed, BoardRow
<1> QED BY <1>3, <1>4, <1>7, <1>8, <1>9, FollowsOn

\* A token that is drawn and never used.
LEMMA ConnectTooEarlyFollows ==
    ASSUME IInv, NEW k \in Task, ConnectTooEarly(k)
    PROVE  Follows(Board, Board')
<1>1. now \in Nat /\ Sound(Board)
      BY BoundAssumption DEF IInv
<1>2. PICK b \in Reconcile(Board, now) : Become([b EXCEPT !.fence = @ + 1])
      BY DEF ConnectTooEarly
<1>3. Sound(b) /\ Follows(Board, b)
      BY <1>1, ReconcileKeeps, ReconcileFollows
<1>4. b \in BoardRow /\ b.fence \in Nat /\ Board.fence \in Nat
      BY <1>1, <1>3 DEF Sound, Typed, BoardRow
<1>5. Board'.orbit = b.orbit /\ Board'.fence = b.fence + 1
      BY <1>2, <1>4 DEF Become, Board, BoardRow
<1>6. Board'.fence \in Nat /\ Board'.fence >= b.fence
      BY <1>4, <1>5
<1>7. Follows(b, Board')
      BY <1>4, <1>5, <1>6, SameOrbitFollows
<1> QED BY <1>3, <1>4, <1>6, <1>7, FollowsOn

\* Phase C, or recovery.
LEMMA EndConnectFollows ==
    ASSUME IInv, NEW k \in Task, EndConnect(k)
    PROVE  Follows(Board, Board')
<1>1. now \in Nat /\ Sound(Board) /\ Board.orbit = orbit /\ Board.seq = seq
      BY BoundAssumption DEF IInv, Board
<1>2. PICK d \in {Merged(Board, k), RolledBack(Board, k)} :
         \E b \in Reconcile(d, now) : Become(b)
      BY DEF EndConnect
<1>3. Sound(d)
      BY <1>1, <1>2, EndedSound DEF EndConnect
<1>4. orbit \in [1..seq -> Row] /\ seq \in Nat /\ Board.fence \in Nat /\ d.fence \in Nat
      BY <1>1, <1>3 DEF Sound, Typed, BoardRow
<1>5. d.fence = Board.fence /\ d.fence >= Board.fence
  <2>1. d.fence = Board.fence
        BY <1>2 DEF Merged, RolledBack, Board
  <2> QED BY <1>4, <2>1
<1>6. Follows(Board, d)
  <2>1. CASE d = Merged(Board, k)
    <3> DEFINE M == WriteRows(orbit, k) \cap Held(orbit)
    <3>1. d.orbit = Close(Board.orbit, M, "RELEASED")
          BY <2>1 DEF Merged, Board
    <3> HIDE DEF M
    <3>2. "RELEASED" \in {"RELEASED", "EXPIRED", "DENIED"}
          OBVIOUS
    <3> QED BY <1>1, <1>4, <1>5, <3>1, <3>2, CloseFollows
  <2>2. CASE d = RolledBack(Board, k)
    <3> DEFINE U == {i \in DOMAIN orbit : orbit[i].task = k}
               o == Unpin(orbit, U)
    <3>1. d.orbit = o
          BY <2>2 DEF RolledBack, Board
    <3> HIDE DEF U
    <3>2. /\ o \in [1..seq -> Row]
          /\ \A i \in 1..seq : /\ o[i].cells = orbit[i].cells /\ o[i].mode = orbit[i].mode
                               /\ o[i].state = orbit[i].state /\ o[i].fence = orbit[i].fence
          BY <1>4 DEF Unpin, Row
    <3> HIDE DEF o
    <3> QED BY <1>1, <1>4, <1>5, <3>1, <3>2, RewriteFollows
  <2> QED BY <1>2, <2>1, <2>2
<1> QED BY <1>1, <1>2, <1>3, <1>6, ServedFollows

\* Every verb of the coordinator keeps the promise and the queue's capacity.
LEMMA NextAdvances ==
    ASSUME IInv, IInv', [Next]_vars
    PROVE  Advances(Board, Board') /\ Fits(Board, Board')
<1>1. Sound(Board) /\ Sound(Board') /\ Board.fence \in Nat /\ Board.fence >= Board.fence
      BY DEF IInv, Sound, Typed, BoardRow
<1>2. CASE orbit' = orbit /\ fence' = fence
  <2>1. Board'.orbit = Board.orbit /\ Board'.fence = Board.fence
        BY <1>2 DEF Board
  <2>2. Follows(Board, Board')
        BY <1>1, <2>1, SameOrbitFollows
  <2> QED BY <1>1, <2>2, FollowsFits DEF Follows
<1>3. CASE \E a \in Agent, r \in Request : Claim(a, r)
      BY <1>3, ClaimAdvances
<1>4. ASSUME Follows(Board, Board')
      PROVE  Advances(Board, Board') /\ Fits(Board, Board')
      BY <1>1, <1>4, FollowsFits DEF Follows
<1>5. CASE Tick \/ StopConnect \/ UNCHANGED vars
      BY <1>2, <1>5 DEF Tick, StopConnect, vars
<1>6. CASE \E a \in Agent : \E w \in Windows \cup {agent[a].window} : Heartbeat(a, w)
      BY <1>2, <1>6 DEF Heartbeat
<1>7. CASE \E a \in Agent, i \in 1..seq : Renew(a, i)
      BY <1>4, <1>7, RenewFollows
<1>8. CASE \E a \in Agent, i \in 1..seq : Release(a, i)
  <2>1. PICK a \in Agent, i \in 1..seq : Release(a, i)
        BY <1>8
  <2>2. i \in Live(orbit) /\ Alive(a)
        BY <2>1 DEF Release, Live
  <2>3. Follows(Board, Board')
        BY <2>1, <2>2, CloseOneFollows DEF Release
  <2> QED BY <1>4, <2>3
<1>9. CASE \E a \in Agent, i \in 1..seq : CancelWait(a, i)
  <2>1. PICK a \in Agent, i \in 1..seq : CancelWait(a, i)
        BY <1>9
  <2>2. i \in Live(orbit) /\ Alive(a)
        BY <2>1 DEF CancelWait, Live
  <2>3. Follows(Board, Board')
        BY <2>1, <2>2, CloseOneFollows DEF CancelWait
  <2> QED BY <1>4, <2>3
<1>10. CASE \E k \in Task : CancelTask(k)
      BY <1>4, <1>10, CancelTaskFollows
<1>11. CASE \E a \in Agent, k \in Task : Start(a, k)
  <2>1. orbit' = orbit /\ fence' = fence
        BY <1>11 DEF Start, Become, Touch, Board
  <2> QED BY <1>2, <2>1
<1>12. CASE \E a \in Agent, k \in Task : Finish(a, k)
  <2>1. orbit' = orbit /\ fence' = fence
        BY <1>12 DEF Finish, Become, Touch, Board
  <2> QED BY <1>2, <2>1
<1>13. CASE Sweep \/ \E a \in Agent : Bail(a)
      BY <1>4, <1>13, SweepFollows
<1>14. CASE \E k \in Task : BeginConnect(k)
      BY <1>4, <1>14, BeginConnectFollows
<1>15. CASE \E k \in Task : ConnectTooEarly(k)
      BY <1>4, <1>15, ConnectTooEarlyFollows
<1>16. CASE \E k \in Task : EndConnect(k)
      BY <1>4, <1>16, EndConnectFollows
<1> QED BY <1>3, <1>5, <1>6, <1>7, <1>8, <1>9, <1>10, <1>11, <1>12, <1>13, <1>14,
           <1>15, <1>16 DEF Next

-----------------------------------------------------------------------------
\* No two leases carry the same token, and the queue is within its capacity.
AInv == IInv /\ Apart(orbit) /\ QueueBounded

\* Both are kept by what a verb does to the board.
LEMMA AuthorityInductive == Spec => []AInv
<1>1. Init => AInv
  <2> SUFFICES ASSUME Init PROVE AInv
      OBVIOUS
  <2>1. Held(orbit) = {} /\ Pending(orbit) = {}
        BY DEF Init, Held, Pending
  <2>2. Cardinality(Pending(orbit)) = 0
        BY <2>1, FS_EmptySet
  <2> QED BY <2>1, <2>2, InitIInv, LimitAssumption DEF AInv, Apart, QueueBounded
<1>2. AInv /\ [Next]_vars => AInv'
  <2> SUFFICES ASSUME AInv, [Next]_vars PROVE AInv'
      OBVIOUS
  <2>1. IInv /\ IInv'
        BY NextIInv DEF AInv
  <2>2. Advances(Board, Board') /\ Fits(Board, Board')
        BY <2>1, NextAdvances
  <2>3. Board.orbit = orbit /\ Board'.orbit = orbit'
        BY DEF Board
  <2>4. Apart(orbit) /\ QueueBounded
        BY DEF AInv
  <2>5. Apart(orbit')
        BY <2>2, <2>3, <2>4 DEF Advances
  <2>6. QueueBounded'
        BY <2>2, <2>3, <2>4 DEF Fits, QueueBounded
  <2>7. Apart(orbit)'
        BY <2>5
  <2> QED BY <2>1, <2>6, <2>7 DEF AInv
<1> QED BY <1>1, <1>2, PTL DEF Spec

\* However claims, deadlines and reclaims follow each other, the queue never
\* holds more requests than its capacity.
THEOREM QueueNeverOverflows == Spec => []QueueBounded
<1>1. AInv => QueueBounded
      BY DEF AInv
<1> QED BY <1>1, AuthorityInductive, PTL

\* The lease of a row, as the resource sees it.
Lease(o, i) == [cells |-> o[i].cells, mode |-> o[i].mode, fence |-> o[i].fence]

Leases(o) == {Lease(o, i) : i \in Held(o)}

\* A verb is a step of the authority: what is held excludes each other, and
\* what is new has a new token.
LEMMA StepsImplement ==
    ASSUME AInv, AInv', [Next]_vars
    PROVE  Authority!Change
<1>1. Advances(Board, Board')
      BY NextAdvances DEF AInv
<1>2. /\ Board.orbit = orbit /\ Board.fence = fence
      /\ Board'.orbit = orbit' /\ Board'.fence = fence'
      BY DEF Board
<1>3. fence \in Nat /\ fence' \in Nat
      BY <1>2 DEF AInv, IInv, Sound, Typed, BoardRow
<1>4. fence' >= fence
      BY <1>1, <1>2 DEF Advances
<1>5. ASSUME NEW l \in Leases(orbit') \ Leases(orbit)
      PROVE  l.fence \in (fence + 1)..fence'
  <2>1. PICK i \in Held(orbit') : l = Lease(orbit', i)
        BY DEF Leases
  <2>2. SameLease(orbit, orbit', i) \/ orbit'[i].fence \in (fence + 1)..fence'
        BY <1>1, <1>2, <2>1 DEF Advances
  <2>3. ~SameLease(orbit, orbit', i)
    <3> SUFFICES ASSUME SameLease(orbit, orbit', i) PROVE FALSE
        OBVIOUS
    <3>1. i \in Held(orbit) /\ l = Lease(orbit, i)
          BY <2>1 DEF SameLease, Lease
    <3> QED BY <3>1 DEF Leases
  <2> QED BY <2>1, <2>2, <2>3 DEF Lease
<1>6. ASSUME NEW l \in Leases(orbit'), NEW m \in Leases(orbit'), l # m
      PROVE  ~Conflict(l, m) /\ l.fence # m.fence
  <2>1. PICK i \in Held(orbit') : l = Lease(orbit', i)
        BY DEF Leases
  <2>2. PICK j \in Held(orbit') : m = Lease(orbit', j)
        BY DEF Leases
  <2>3. i # j
        BY <1>6, <2>1, <2>2
  <2>4. ~Conflict(orbit'[i], orbit'[j])
        BY <1>2, <2>3 DEF AInv, IInv, Sound, NoConflict
  <2>5. orbit'[i].fence # orbit'[j].fence
        BY <2>3 DEF AInv, Apart
  <2> QED BY <2>1, <2>2, <2>4, <2>5 DEF Conflict, Lease
<1> QED BY <1>3, <1>4, <1>5, <1>6
      DEF Authority!Change, Authority!Exclusive, Authority!Conflict, Authority!Compatible,
          Conflict, Compatible, Leases, Lease

\* The coordinator implements the lease authority: to the owner of a resource
\* all its queues, sweeps, reclaims and connects look like leases that
\* exclude each other and carry ever newer tokens.
THEOREM ImplementsLeaseAuthority == Spec => ImplementsAuthority
<1>1. Init => Authority!Init
  <2> SUFFICES ASSUME Init PROVE Authority!Init
      OBVIOUS
  <2>1. Held(orbit) = {}
        BY DEF Init, Held
  <2> QED BY <2>1 DEF Init, Authority!Init
<1>2. AInv /\ AInv' /\ [Next]_vars =>
         [Authority!Change]_<<{[cells |-> orbit[i].cells, mode |-> orbit[i].mode, fence |-> orbit[i].fence] :
                                 i \in Held(orbit)}, fence>>
      BY StepsImplement
<1> QED BY <1>1, <1>2, AuthorityInductive, PTL DEF Spec, ImplementsAuthority, Authority!Spec
=============================================================================
