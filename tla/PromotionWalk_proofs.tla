------------------------ MODULE PromotionWalk_proofs ------------------------
(***************************************************************************)
(* The row-by-row walk of _promote_pending leaves what Promote says, for   *)
(* any queue, any policy of aging and any clock.                           *)
(*                                                                         *)
(* The walk goes down the order of rank, so that what it has dealt with    *)
(* outranks what is left.  A request that was granted therefore blocks     *)
(* exactly those left that it blocked while it waited, and every row is    *)
(* decided as if the walk had just begun.  The tokens count the grants,    *)
(* and so the place of each among all that are granted.                    *)
(***************************************************************************)
EXTENDS PromotionWalk, FiniteSetTheorems, TLAPS

\* The requests to grant, and the board once those of G are granted.
Chosen == Promotable(start, At)

GrantedRow(i) ==
    [start.orbit[i] EXCEPT !.state = "HELD",
                           !.fence = start.fence + Place(start.orbit, At, Chosen, i),
                           !.due   = At + start.orbit[i].ttl]

With(G) ==
    [start EXCEPT !.orbit = [i \in DOMAIN start.orbit |-> IF i \in G THEN GrantedRow(i)
                                                          ELSE start.orbit[i]],
                  !.fence = start.fence + Cardinality(G)]

\* The invariant of the walk.
WInv ==
    /\ start \in Start
    /\ left \subseteq Pending(start.orbit)
    /\ \A i \in Pending(start.orbit) \ left, j \in left : Outranks(start.orbit, At, i, j)
    /\ board = With(Chosen \ left)

-----------------------------------------------------------------------------
\* The board the walk began with, and its tables.
LEMMA StartIs ==
    ASSUME start \in Start
    PROVE  /\ start.seq \in Nat /\ start.fence \in Nat /\ At \in Nat
           /\ start.orbit \in [1..start.seq -> Row]
           /\ start = [orbit |-> start.orbit, agent |-> start.agent, task |-> start.task,
                       token |-> start.token, seq |-> start.seq, fence |-> start.fence]
BY StartAssumption

\* Rank is a total order.
LEMMA RankOrder ==
    ASSUME start \in Start, NEW i \in 1..start.seq, NEW j \in 1..start.seq
    PROVE  /\ i # j => Outranks(start.orbit, At, i, j) \/ Outranks(start.orbit, At, j, i)
           /\ ~(Outranks(start.orbit, At, i, j) /\ Outranks(start.orbit, At, j, i))
<1>1. ASSUME NEW k \in 1..start.seq PROVE Effective(start.orbit[k], At) \in Int
  <2>1. start.orbit[k] \in Row /\ At \in Nat
        BY StartIs
  <2> QED BY <2>1, PolicyAssumption DEF Effective, Boost, Row
<1>2. start.seq \in Nat
      BY StartIs
<1> QED BY <1>1, <1>2 DEF Outranks

\* The queue, and what is chosen of it, are finite.
LEMMA ChosenIs ==
    ASSUME start \in Start
    PROVE  /\ Chosen \subseteq Pending(start.orbit) /\ Pending(start.orbit) \subseteq 1..start.seq
           /\ DOMAIN start.orbit = 1..start.seq
           /\ \A G \in SUBSET Chosen : IsFiniteSet(G) /\ Cardinality(G) \in Nat
<1>1. /\ Chosen \subseteq Pending(start.orbit) /\ Pending(start.orbit) \subseteq 1..start.seq
      /\ DOMAIN start.orbit = 1..start.seq
      BY StartIs DEF Chosen, Promotable, Pending
<1>2. IsFiniteSet(1..start.seq)
  <2> DEFINE n == start.seq
  <2>1. 1 \in Int /\ n \in Int
        BY StartIs
  <2> HIDE DEF n
  <2>2. IsFiniteSet(1..n)
        BY <2>1, FS_Interval
  <2> QED BY <2>2 DEF n
<1>3. ASSUME NEW G \in SUBSET Chosen PROVE IsFiniteSet(G) /\ Cardinality(G) \in Nat
  <2>1. G \in SUBSET (1..start.seq)
        BY <1>1
  <2>2. IsFiniteSet(G)
        BY <1>2, <2>1, FS_Subset
  <2> QED BY <2>2, FS_CardinalityType
<1> QED BY <1>1, <1>3

\* The board with G granted.
LEMMA WithIs ==
    ASSUME start \in Start, NEW G, NEW b, b = With(G)
    PROVE  /\ b.orbit = [i \in 1..start.seq |-> IF i \in G THEN GrantedRow(i) ELSE start.orbit[i]]
           /\ b.fence = start.fence + Cardinality(G)
           /\ b = [orbit |-> b.orbit, agent |-> start.agent, task |-> start.task,
                   token |-> start.token, seq |-> start.seq, fence |-> b.fence]
<1> DEFINE o == [i \in 1..start.seq |-> IF i \in G THEN GrantedRow(i) ELSE start.orbit[i]]
           f == start.fence + Cardinality(G)
<1>1. b = [start EXCEPT !.orbit = o, !.fence = f]
      BY ChosenIs DEF With
<1> HIDE DEF o, f
<1>2. b.orbit = o /\ b.fence = f
      BY <1>1, StartIs
<1>3. b = [orbit |-> o, agent |-> start.agent, task |-> start.task,
           token |-> start.token, seq |-> start.seq, fence |-> f]
      BY <1>1, StartIs
<1> QED BY <1>2, <1>3 DEF o, f

\* A granted row keeps what it asked for, and its rank.
LEMMA GrantedRowIs ==
    ASSUME start \in Start, NEW i \in 1..start.seq
    PROVE  /\ GrantedRow(i).state = "HELD"
           /\ GrantedRow(i).cells = start.orbit[i].cells /\ GrantedRow(i).mode = start.orbit[i].mode
           /\ GrantedRow(i).prio = start.orbit[i].prio /\ GrantedRow(i).enq = start.orbit[i].enq
           /\ GrantedRow(i).ttl = start.orbit[i].ttl
<1> DEFINE f == start.fence + Place(start.orbit, At, Chosen, i)
           d == At + start.orbit[i].ttl
<1>1. start.orbit[i] \in Row
      BY StartIs
<1>2. GrantedRow(i) = [start.orbit[i] EXCEPT !.state = "HELD", !.fence = f, !.due = d]
      BY DEF GrantedRow
<1> HIDE DEF f, d
<1> QED BY <1>1, <1>2 DEF Row

\* A row that is left is decided as it would have been at the start: the grants so far
\* block it as the requests they were.
LEMMA SameBlockers ==
    ASSUME WInv, NEW i \in left
    PROVE  Blockers(board.orbit, At, i) = Blockers(start.orbit, At, i)
<1> DEFINE G == Chosen \ left
           o == start.orbit
           p == board.orbit
<1>1. /\ start \in Start /\ left \subseteq Pending(o)
      /\ \A k \in Pending(o) \ left, j \in left : Outranks(o, At, k, j)
      BY DEF WInv
<1>2. /\ p = [k \in 1..start.seq |-> IF k \in G THEN GrantedRow(k) ELSE o[k]]
      BY <1>1, WithIs DEF WInv
<1>3. /\ Chosen \subseteq Pending(o) /\ Pending(o) \subseteq 1..start.seq /\ DOMAIN o = 1..start.seq
      BY <1>1, ChosenIs
<1>4. i \in 1..start.seq /\ i \notin G /\ G \subseteq Pending(o)
      BY <1>1, <1>3
<1> HIDE DEF G, o, p
<1>5. \A k \in G : Outranks(o, At, k, i)
      BY <1>1, <1>3 DEF G
<1>6. \A k \in 1..start.seq : k \notin G => p[k] = o[k]
      BY <1>2
<1>7. \A k \in G : p[k] = GrantedRow(k)
      BY <1>2, <1>3, <1>4
<1>8. ASSUME NEW k \in 1..start.seq
      PROVE  /\ p[k].cells = o[k].cells /\ p[k].mode = o[k].mode
             /\ p[k].prio = o[k].prio /\ p[k].enq = o[k].enq
  <2>1. CASE k \in G
        BY <1>1, <1>7, <2>1, GrantedRowIs DEF o
  <2>2. CASE k \notin G
        BY <1>6, <2>2
  <2> QED BY <2>1, <2>2
<1>9. DOMAIN p = 1..start.seq
      BY <1>2
<1>10. Held(p) = Held(o) \cup G
  <2>1. \A k \in G : p[k].state = "HELD"
        BY <1>1, <1>3, <1>4, <1>7, GrantedRowIs
  <2> QED BY <1>3, <1>4, <1>6, <1>9, <2>1 DEF Held
<1>11. Pending(p) = Pending(o) \ G
  <2>1. \A k \in G : p[k].state = "HELD"
        BY <1>1, <1>3, <1>4, <1>7, GrantedRowIs
  <2> QED BY <1>3, <1>4, <1>6, <1>9, <2>1 DEF Pending
<1>12. \A k \in 1..start.seq : Conflict(p[i], p[k]) <=> Conflict(o[i], o[k])
      BY <1>4, <1>8 DEF Conflict
<1>13. \A k \in 1..start.seq : Outranks(p, At, k, i) <=> Outranks(o, At, k, i)
      BY <1>4, <1>8 DEF Outranks, Effective
<1>14. Held(o) \subseteq 1..start.seq
      BY <1>3 DEF Held
<1>15. \A k : k \in Blockers(p, At, i) <=> k \in Blockers(o, At, i)
  <2>1. \A k \in 1..start.seq : k \in Blockers(p, At, i) <=> k \in Blockers(o, At, i)
        BY <1>4, <1>5, <1>10, <1>11, <1>12, <1>13 DEF Blockers
  <2>2. Blockers(p, At, i) \subseteq 1..start.seq /\ Blockers(o, At, i) \subseteq 1..start.seq
        BY <1>3, <1>4, <1>10, <1>11, <1>14 DEF Blockers
  <2> QED BY <2>1, <2>2
<1> QED BY <1>15 DEF o, p

\* So the walk grants what is chosen.
LEMMA GrantsTheChosen ==
    ASSUME WInv, NEW i \in left
    PROVE  Grantable(i) <=> i \in Chosen
<1>1. i \in Pending(start.orbit)
      BY DEF WInv
<1> QED BY <1>1, SameBlockers DEF Grantable, Chosen, Promotable

\* The first row left is the next in the order of tokens.
LEMMA NextToken ==
    ASSUME WInv, NEW i \in left, First(i), i \in Chosen
    PROVE  /\ Place(start.orbit, At, Chosen, i) = Cardinality(Chosen \ left) + 1
           /\ Cardinality(Chosen \ (left \ {i})) = Cardinality(Chosen \ left) + 1
           /\ Chosen \ (left \ {i}) = (Chosen \ left) \cup {i}
<1>1. start \in Start /\ left \subseteq Pending(start.orbit)
      BY DEF WInv
<1>2. Chosen \subseteq Pending(start.orbit) /\ Pending(start.orbit) \subseteq 1..start.seq
      BY <1>1, ChosenIs
<1>3. Chosen \ (left \ {i}) = (Chosen \ left) \cup {i}
      OBVIOUS
<1>4. ASSUME NEW j \in Chosen
      PROVE  (j = i \/ Outranks(start.orbit, At, j, i)) <=> j \in (Chosen \ left) \cup {i}
  <2>1. CASE j = i
        BY <2>1
  <2>2. CASE j \notin left
        BY <1>2, <2>2 DEF WInv
  <2>3. CASE j \in left /\ j # i
    <3>1. Outranks(start.orbit, At, i, j)
          BY <2>3 DEF First
    <3>2. ~Outranks(start.orbit, At, j, i)
          BY <1>1, <1>2, <3>1, RankOrder
    <3> QED BY <2>3, <3>2
  <2> QED BY <2>1, <2>2, <2>3
<1>5. {j \in Chosen : j = i \/ Outranks(start.orbit, At, j, i)} = (Chosen \ left) \cup {i}
      BY <1>4
<1>6. IsFiniteSet(Chosen \ left) /\ i \notin Chosen \ left
      BY <1>1, ChosenIs
<1>7. Cardinality((Chosen \ left) \cup {i}) = Cardinality(Chosen \ left) + 1
      BY <1>6, FS_AddElement
<1> QED BY <1>3, <1>5, <1>7 DEF Place

-----------------------------------------------------------------------------
\* The walk begins with nothing granted,
LEMMA InitWalk ==
    ASSUME Init
    PROVE  WInv
<1>1. start \in Start /\ left = Pending(start.orbit) /\ board = start
      BY DEF Init
<1>2. Chosen \ left = {}
      BY <1>1, ChosenIs
<1>3. With({}) = start
  <2> DEFINE b == With({})
  <2>1. /\ b.orbit = [i \in 1..start.seq |-> IF i \in {} THEN GrantedRow(i) ELSE start.orbit[i]]
        /\ b.fence = start.fence + Cardinality({})
        /\ b = [orbit |-> b.orbit, agent |-> start.agent, task |-> start.task,
                token |-> start.token, seq |-> start.seq, fence |-> b.fence]
        BY <1>1, WithIs
  <2> HIDE DEF b
  <2>2. b.fence = start.fence
        BY <1>1, <2>1, StartIs, FS_EmptySet
  <2>3. b.orbit = start.orbit
        BY <1>1, <2>1, StartIs
  <2>4. b = start
        BY <1>1, <2>1, <2>2, <2>3, StartIs
  <2> QED BY <2>4 DEF b
<1>4. board = With(Chosen \ left)
      BY <1>1, <1>2, <1>3
<1> QED BY <1>1, <1>4 DEF WInv

\* grants a row,
LEMMA GrantWalk ==
    ASSUME WInv, NEW i \in left, Grant(i)
    PROVE  WInv'
<1> DEFINE G == Chosen \ left
           H == Chosen \ (left \ {i})
<1>1. /\ start \in Start /\ left \subseteq Pending(start.orbit) /\ board = With(G)
      /\ start' = start /\ left' = left \ {i} /\ First(i)
      BY DEF WInv, Grant
<1>2. i \in Chosen
      BY GrantsTheChosen DEF Grant
<1>3. /\ Place(start.orbit, At, Chosen, i) = Cardinality(G) + 1
      /\ Cardinality(H) = Cardinality(G) + 1 /\ H = G \cup {i}
      BY <1>1, <1>2, NextToken
<1>4. i \in 1..start.seq /\ i \notin G /\ Cardinality(G) \in Nat /\ start.fence \in Nat
      BY <1>1, ChosenIs, StartIs
<1> HIDE DEF G, H
<1>5. /\ board.orbit = [k \in 1..start.seq |-> IF k \in G THEN GrantedRow(k) ELSE start.orbit[k]]
      /\ board.fence = start.fence + Cardinality(G)
      BY <1>1, WithIs
<1>6. board = [orbit |-> board.orbit, agent |-> start.agent, task |-> start.task,
               token |-> start.token, seq |-> start.seq, fence |-> board.fence]
      BY <1>1, WithIs
<1>7. board.orbit[i] = start.orbit[i] /\ start.orbit[i] \in Row
      BY <1>1, <1>4, <1>5, StartIs
<1> DEFINE f == board.fence + 1
           d == At + board.orbit[i].ttl
           r == [[[board.orbit[i] EXCEPT !.state = "HELD"] EXCEPT !.fence = f] EXCEPT !.due = d]
           o == [board.orbit EXCEPT ![i] = r]
<1>8. r = GrantedRow(i)
  <2>1. f = start.fence + Place(start.orbit, At, Chosen, i)
        BY <1>3, <1>4, <1>5
  <2>2. d = At + start.orbit[i].ttl
        BY <1>7
  <2> HIDE DEF f, d
  <2>3. r = [start.orbit[i] EXCEPT !.state = "HELD", !.fence = f, !.due = d]
        BY <1>7 DEF Row
  <2> QED BY <2>1, <2>2, <2>3 DEF GrantedRow
<1>9. board' = [board EXCEPT !.orbit[i].state = "HELD", !.orbit[i].fence = f,
                             !.orbit[i].due = d, !.fence = f]
      BY DEF Grant
<1> HIDE DEF f, d
<1>10. DOMAIN board.orbit = 1..start.seq
      BY <1>5
<1>11. board'.orbit = [board.orbit EXCEPT ![i] = r] /\ board'.fence = f
      BY <1>4, <1>6, <1>7, <1>9, <1>10 DEF Row
<1>12. board' = [orbit |-> board'.orbit, agent |-> start.agent, task |-> start.task,
                 token |-> start.token, seq |-> start.seq, fence |-> board'.fence]
  <2>1. /\ DOMAIN board = {"orbit", "agent", "task", "token", "seq", "fence"}
        /\ board.agent = start.agent /\ board.task = start.task
        /\ board.token = start.token /\ board.seq = start.seq
        BY <1>6
  <2>2. /\ DOMAIN board' = DOMAIN board
        /\ board' = [x \in DOMAIN board' |-> board'[x]]
        BY <1>9
  <2>3. /\ board'.agent = board.agent /\ board'.task = board.task
        /\ board'.token = board.token /\ board'.seq = board.seq
        BY <1>9, <2>1
  <2> QED BY <2>1, <2>2, <2>3
<1> HIDE DEF r
<1>13. board'.orbit = [k \in 1..start.seq |-> IF k \in H THEN GrantedRow(k) ELSE start.orbit[k]]
      BY <1>3, <1>4, <1>5, <1>8, <1>11
<1>14. board'.fence = start.fence + Cardinality(H)
      BY <1>3, <1>4, <1>5, <1>11 DEF f
<1>15. board' = With(H)
  <2> DEFINE b == With(H)
  <2>1. /\ b.orbit = [k \in 1..start.seq |-> IF k \in H THEN GrantedRow(k) ELSE start.orbit[k]]
        /\ b.fence = start.fence + Cardinality(H)
        /\ b = [orbit |-> b.orbit, agent |-> start.agent, task |-> start.task,
                token |-> start.token, seq |-> start.seq, fence |-> b.fence]
        BY <1>1, WithIs
  <2> HIDE DEF b
  <2>2. b.orbit = board'.orbit /\ b.fence = board'.fence
        BY <1>13, <1>14, <2>1
  <2>3. board' = b
        BY <1>12, <2>1, <2>2
  <2> QED BY <2>3 DEF b
<1>16. board' = (With(Chosen \ left))'
      BY <1>1, <1>15 DEF H, With, Chosen, GrantedRow
<1>17. \A k \in Pending(start.orbit) \ left', j \in left' : Outranks(start.orbit, At, k, j)
      BY <1>1 DEF WInv, First
<1> QED BY <1>1, <1>16, <1>17 DEF WInv

\* or passes over one,
LEMMA SkipWalk ==
    ASSUME WInv, NEW i \in left, Skip(i)
    PROVE  WInv'
<1>1. /\ start' = start /\ left' = left \ {i} /\ board' = board /\ First(i)
      BY DEF Skip
<1>2. i \notin Chosen
      BY GrantsTheChosen DEF Skip
<1>3. Chosen \ left' = Chosen \ left
      BY <1>1, <1>2
<1>4. board' = (With(Chosen \ left))'
      BY <1>1, <1>3 DEF WInv, With, Chosen, GrantedRow
<1>5. \A k \in Pending(start.orbit) \ left', j \in left' : Outranks(start.orbit, At, k, j)
      BY <1>1 DEF WInv, First
<1> QED BY <1>1, <1>4, <1>5 DEF WInv

\* and ends with all that is chosen granted.  So the loop of _promote_pending, which
\* decides each row against what the grants before it have left, may be taken for the
\* single step Promote that every reconciliation of the other modules ends with.
THEOREM LoopIsPromote == Spec => []WalkAgrees
<1>1. Init => WInv
      BY InitWalk
<1>2. WInv /\ [Next]_vars => WInv'
  <2>1. ASSUME WInv, Next PROVE WInv'
    <3>1. PICK i \in DOMAIN start.orbit : Grant(i) \/ Skip(i)
          BY <2>1 DEF Next
    <3>2. i \in left
          BY <3>1 DEF Grant, Skip
    <3> QED BY <2>1, <3>1, <3>2, GrantWalk, SkipWalk
  <2>2. ASSUME WInv, UNCHANGED vars PROVE WInv'
        BY <2>2 DEF WInv, vars, With, Chosen, GrantedRow
  <2> QED BY <2>1, <2>2
<1>3. WInv => WalkAgrees
  <2> SUFFICES ASSUME WInv, left = {} PROVE board = Promote(start, At)
      BY DEF WalkAgrees
  <2>1. board = With(Chosen)
    <3>1. Chosen \ left = Chosen
          OBVIOUS
    <3> QED BY <3>1 DEF WInv
  <2> QED BY <2>1 DEF With, GrantedRow, Chosen, Promote
<1> QED BY <1>1, <1>2, <1>3, PTL DEF Spec
=============================================================================
