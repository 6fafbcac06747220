----------------------------- MODULE Pins_proofs -----------------------------
(***************************************************************************)
(* The pin protects a merge: where an agent starts only tasks whose leases *)
(* are its own, pins are accounted for, and the leases of a running        *)
(* connect stay held whatever the other verbs do.                          *)
(*                                                                         *)
(* The reclaim spares an agent because of a task assigned to it, and       *)
(* closes the rows the agent claimed.  That the two agree (Owned) is what  *)
(* the pin rests on, and what fails when a task is started by another.     *)
(***************************************************************************)
EXTENDS Orbits_proofs

\* A pinned row is a held write lease of the task that is being merged.
Pinned(b) ==
    \A i \in DOMAIN b.orbit : b.orbit[i].pinned =>
        /\ b.orbit[i].state = "HELD"
        /\ b.orbit[i].mode \in WriteModes
        /\ b.task[b.orbit[i].task].state = "CONNECTING"
        /\ b.token = b.orbit[i].task

\* Whoever works on a task is whoever claimed its live rows.
Owned(b) ==
    \A i \in Live(b.orbit) :
        b.task[b.orbit[i].task].state \in {"STARTED", "DONE", "CONNECTING"}
            => b.task[b.orbit[i].task].agent = b.orbit[i].agent

Secure(b) == Sound(b) /\ Pinned(b) /\ Owned(b)

\* What a merge outside the lock may rely on.
PinKept(b, c) ==
    \A i \in DOMAIN b.orbit : b.orbit[i].pinned =>
        /\ i \in DOMAIN c.orbit
        /\ c.orbit[i].state = "HELD" /\ c.orbit[i].pinned
        /\ c.orbit[i].fence = b.orbit[i].fence

\* No row becomes pinned, alive or another's, and the tasks are left alone.
Milder(b, c) ==
    /\ c.task = b.task /\ c.token = b.token
    /\ \A i \in DOMAIN c.orbit :
          /\ i \in DOMAIN b.orbit
          /\ c.orbit[i].agent = b.orbit[i].agent
          /\ c.orbit[i].task = b.orbit[i].task
          /\ c.orbit[i].mode = b.orbit[i].mode
          /\ c.orbit[i].pinned => b.orbit[i].pinned /\ c.orbit[i].state = "HELD"
          /\ i \in Live(c.orbit) => i \in Live(b.orbit)

\* Such a change keeps a board secure.
LEMMA MilderKeeps ==
    ASSUME NEW b, Secure(b), NEW c, Sound(c), Milder(b, c)
    PROVE  Secure(c)
<1>1. Pinned(c)
      BY DEF Secure, Pinned, Milder
<1>2. Owned(c)
  <2>1. Live(c.orbit) \subseteq DOMAIN c.orbit
        BY DEF Live, Held, Pending
  <2> QED BY <2>1 DEF Secure, Owned, Milder
<1> QED BY <1>1, <1>2 DEF Secure

\* What was relied on can be relied on further.
LEMMA PinKeptOn ==
    ASSUME NEW b, NEW c, NEW d, PinKept(b, c), PinKept(c, d)
    PROVE  PinKept(b, d)
BY DEF PinKept

\* A closed row is not pinned; the others stay as they are.
LEMMA CloseRows ==
    ASSUME NEW o, NEW n \in Nat, o \in [1..n -> Row], NEW S,
           NEW s \in {"RELEASED", "EXPIRED", "DENIED"}
    PROVE  /\ Close(o, S, s) \in [1..n -> Row]
           /\ \A i \in 1..n : Close(o, S, s)[i].agent = o[i].agent
           /\ \A i \in 1..n : Close(o, S, s)[i].task = o[i].task
           /\ \A i \in 1..n : Close(o, S, s)[i].mode = o[i].mode
           /\ \A i \in 1..n : i \in S => ~Close(o, S, s)[i].pinned
           /\ \A i \in 1..n : i \notin S => Close(o, S, s)[i] = o[i]
BY DEF Close, Row, OrbitState

\* Live rows may be closed at any time; who relies on a pin asks that no
\* pinned row is among them.
LEMMA CloseSecures ==
    ASSUME NEW b, Secure(b), NEW S, S \subseteq Live(b.orbit),
           NEW s \in {"RELEASED", "EXPIRED", "DENIED"}
    PROVE  LET c == [b EXCEPT !.orbit = Close(b.orbit, S, s)]
           IN  /\ Secure(c)
               /\ (\A i \in S : ~b.orbit[i].pinned) => PinKept(b, c)
<1> DEFINE o == Close(b.orbit, S, s)
           c == [b EXCEPT !.orbit = o]
<1>1. b \in BoardRow /\ b.orbit \in [1..b.seq -> Row] /\ b.seq \in Nat
      BY DEF Secure, Sound, Typed, BoardRow
<1>2. /\ o \in [1..b.seq -> Row]
      /\ \A i \in 1..b.seq : o[i].agent = b.orbit[i].agent
      /\ \A i \in 1..b.seq : o[i].task = b.orbit[i].task
      /\ \A i \in 1..b.seq : o[i].mode = b.orbit[i].mode
      /\ \A i \in 1..b.seq : i \in S => ~o[i].pinned
      /\ \A i \in 1..b.seq : i \notin S => o[i] = b.orbit[i]
  <2>1. o \in [1..b.seq -> Row]
        BY <1>1, CloseRows
  <2>2. \A i \in 1..b.seq : o[i].agent = b.orbit[i].agent
        BY <1>1, CloseRows
  <2>3. \A i \in 1..b.seq : o[i].task = b.orbit[i].task
        BY <1>1, CloseRows
  <2>4. \A i \in 1..b.seq : o[i].mode = b.orbit[i].mode
        BY <1>1, CloseRows
  <2>5. \A i \in 1..b.seq : i \in S => ~o[i].pinned
        BY <1>1, CloseRows
  <2>6. \A i \in 1..b.seq : i \notin S => o[i] = b.orbit[i]
        BY <1>1, CloseRows
  <2> HIDE DEF o
  <2> QED BY <2>1, <2>2, <2>3, <2>4, <2>5, <2>6
<1>3. Held(o) = Held(b.orbit) \ S /\ Pending(o) = Pending(b.orbit) \ S
      BY <1>1, CloseEnds
<1>4. Sound(c)
      BY CloseKeeps DEF Secure
<1>5. c.orbit = o /\ c.task = b.task /\ c.token = b.token
      BY <1>1 DEF BoardRow
<1> HIDE DEF o, c
<1>6. \A i \in DOMAIN b.orbit : b.orbit[i].pinned => b.orbit[i].state = "HELD"
      BY DEF Secure, Pinned
<1>7. Milder(b, c)
      BY <1>1, <1>2, <1>3, <1>5, <1>6 DEF Milder, Live
<1>8. Secure(c)
      BY <1>4, <1>7, MilderKeeps
<1>9. (\A i \in S : ~b.orbit[i].pinned) => PinKept(b, c)
      BY <1>1, <1>2, <1>5, <1>6 DEF PinKept
<1> QED BY <1>8, <1>9 DEF c, o

\* Expiry spares pinned leases; deadlines and cycles concern only requests.
LEMMA ExpireSecures ==
    ASSUME NEW b, Secure(b), NEW t \in Nat
    PROVE  Secure(Expire(b, t)) /\ PinKept(b, Expire(b, t))
<1> DEFINE S == {i \in Held(b.orbit) : ~b.orbit[i].pinned /\ b.orbit[i].due <= t}
<1>1. S \subseteq Live(b.orbit) /\ \A i \in S : ~b.orbit[i].pinned
      BY DEF Live
<1>2. Expire(b, t) = [b EXCEPT !.orbit = Close(b.orbit, S, "EXPIRED")]
      BY DEF Expire
<1> HIDE DEF S
<1> QED BY <1>1, <1>2, CloseSecures

\* No request is pinned.
LEMMA DenySecures ==
    ASSUME NEW b, Secure(b), NEW S, S \subseteq Pending(b.orbit)
    PROVE  LET c == [b EXCEPT !.orbit = Close(b.orbit, S, "DENIED")]
           IN  Secure(c) /\ PinKept(b, c)
<1>1. S \subseteq Live(b.orbit)
      BY DEF Live
<1>2. \A i \in S : ~b.orbit[i].pinned
      BY DEF Secure, Pinned, Pending
<1> QED BY <1>1, <1>2, CloseSecures

\* Promotion pins nothing and takes no lease away.
LEMMA PromoteSecures ==
    ASSUME NEW b, Secure(b), NEW t \in Nat
    PROVE  Secure(Promote(b, t)) /\ PinKept(b, Promote(b, t))
<1> DEFINE P == Promotable(b, t)
           c == Promote(b, t)
           o == c.orbit
<1>1. b \in BoardRow /\ b.orbit \in [1..b.seq -> Row] /\ b.seq \in Nat
      BY DEF Secure, Sound, Typed, BoardRow
<1>2. P \in SUBSET (1..b.seq) /\ P \subseteq Pending(b.orbit)
      BY <1>1 DEF Promotable, Pending
<1>3. /\ DOMAIN o = 1..b.seq
      /\ \A i \in 1..b.seq : /\ o[i].agent = b.orbit[i].agent
                             /\ o[i].task = b.orbit[i].task
                             /\ o[i].mode = b.orbit[i].mode
                             /\ o[i].pinned = b.orbit[i].pinned
                             /\ i \notin P => o[i] = b.orbit[i]
      BY <1>1 DEF Promote, BoardRow, Row
<1>4. c.task = b.task /\ c.token = b.token
      BY <1>1 DEF Promote, BoardRow
<1>5. Sound(c)
      BY PromoteKeeps DEF Secure
<1> HIDE DEF P, c, o
<1>6. \A i \in 1..b.seq : b.orbit[i].pinned => b.orbit[i].state = "HELD" /\ i \notin P
      BY <1>1, <1>2 DEF Secure, Pinned, Pending
<1>7. Milder(b, c)
      BY <1>1, <1>2, <1>3, <1>4, <1>6 DEF Milder, Live, Held, Pending, o
<1>8. PinKept(b, c)
      BY <1>1, <1>3, <1>6 DEF PinKept, o
<1>9. Secure(c)
      BY <1>5, <1>7, MilderKeeps
<1> QED BY <1>8, <1>9 DEF c

\* Rows that are closed together.
LEMMA CloseAllRows ==
    ASSUME NEW o, NEW n \in Nat, o \in [1..n -> Row], NEW S, NEW s \in {"RELEASED", "EXPIRED"}
    PROVE  /\ CloseAll(o, S, s) \in [1..n -> Row]
           /\ \A i \in 1..n : CloseAll(o, S, s)[i].agent = o[i].agent
           /\ \A i \in 1..n : CloseAll(o, S, s)[i].task = o[i].task
           /\ \A i \in 1..n : CloseAll(o, S, s)[i].mode = o[i].mode
           /\ \A i \in 1..n : i \in S \cap Live(o) => ~CloseAll(o, S, s)[i].pinned
           /\ \A i \in 1..n : i \notin S => CloseAll(o, S, s)[i] = o[i]
           /\ \A i \in 1..n : CloseAll(o, S, s)[i].pinned => o[i].pinned
<1> DEFINE H == Held(o) \cap S
           Q == Pending(o) \cap S
           c == Close(o, H, s)
           d == Close(c, Q, "DENIED")
<1>1. /\ c \in [1..n -> Row]
      /\ \A i \in 1..n : c[i].agent = o[i].agent
      /\ \A i \in 1..n : c[i].task = o[i].task
      /\ \A i \in 1..n : c[i].mode = o[i].mode
      /\ \A i \in 1..n : i \in H => ~c[i].pinned
      /\ \A i \in 1..n : i \notin H => c[i] = o[i]
  <2> HIDE DEF H
  <2> QED BY CloseRows
<1> HIDE DEF c
<1>2. /\ d \in [1..n -> Row]
      /\ \A i \in 1..n : d[i].agent = c[i].agent
      /\ \A i \in 1..n : d[i].task = c[i].task
      /\ \A i \in 1..n : d[i].mode = c[i].mode
      /\ \A i \in 1..n : i \in Q => ~d[i].pinned
      /\ \A i \in 1..n : i \notin Q => d[i] = c[i]
  <2> HIDE DEF Q
  <2> QED BY <1>1, CloseRows
<1>3. d = CloseAll(o, S, s)
      BY DEF CloseAll, c
<1> HIDE DEF d
<1>4. H \cap Q = {} /\ S \cap Live(o) = H \cup Q /\ H \subseteq S /\ Q \subseteq S
      BY DEF Held, Pending, Live
<1> HIDE DEF H, Q
<1>5. /\ \A i \in 1..n : i \in S \cap Live(o) => ~d[i].pinned
      /\ \A i \in 1..n : i \notin S => d[i] = o[i]
      /\ \A i \in 1..n : d[i].pinned => o[i].pinned
      BY <1>1, <1>2, <1>4
<1>6. /\ \A i \in 1..n : d[i].agent = o[i].agent
      /\ \A i \in 1..n : d[i].task = o[i].task
      /\ \A i \in 1..n : d[i].mode = o[i].mode
      BY <1>1, <1>2
<1> QED BY <1>2, <1>3, <1>5, <1>6

\* The agents of D go with all they had, and since a task is worked on by the
\* owner of its rows, no pin of another is left without its connect.
LEMMA RetireSecures ==
    ASSUME NEW b, Secure(b), NEW D \in SUBSET Agent
    PROVE  /\ Secure(Retire(b, D))
           /\ (\A i \in DOMAIN b.orbit : b.orbit[i].pinned => b.orbit[i].agent \notin D)
                 => PinKept(b, Retire(b, D))
<1> DEFINE theirs == {i \in DOMAIN b.orbit : b.orbit[i].agent \in D}
           c == Retire(b, D)
           o == CloseAll(b.orbit, theirs, "EXPIRED")
           n == b.seq
<1>1. /\ b \in BoardRow /\ b.orbit \in [1..n -> Row] /\ n \in Nat
      /\ b.task \in [Task -> TaskRow]
      BY DEF Secure, Sound, Typed, BoardRow
<1>2. /\ c.orbit = o
      /\ c.task = [k \in Task |->
                      IF b.task[k].agent \in D /\ b.task[k].state \in {"STARTED", "CONNECTING"}
                      THEN Requeued(b.task[k]) ELSE b.task[k]]
      /\ c.token = IF b.token \in Task /\ b.task[b.token].agent \in D THEN NoTask ELSE b.token
      BY <1>1 DEF Retire, BoardRow
<1>3. Sound(c)
      BY RetireKeeps DEF Secure
<1> HIDE DEF c
<1>4. /\ o \in [1..n -> Row]
      /\ \A i \in 1..n : o[i].agent = b.orbit[i].agent
      /\ \A i \in 1..n : o[i].task = b.orbit[i].task
      /\ \A i \in 1..n : o[i].mode = b.orbit[i].mode
      /\ \A i \in 1..n : i \in theirs \cap Live(b.orbit) => ~o[i].pinned
      /\ \A i \in 1..n : i \notin theirs => o[i] = b.orbit[i]
      /\ \A i \in 1..n : o[i].pinned => b.orbit[i].pinned
  <2> HIDE DEF theirs
  <2> QED BY <1>1, CloseAllRows
<1>5. Live(o) = Live(b.orbit) \ theirs
  <2> HIDE DEF theirs
  <2> QED BY <1>1, CloseAllEnds
<1>6. \A i \in 1..n : b.orbit[i].pinned => i \in Live(b.orbit) /\ b.orbit[i].state = "HELD"
      BY <1>1 DEF Secure, Pinned, Live, Held
<1> HIDE DEF o
<1>7. \A i \in 1..n : b.orbit[i].task \in Task /\ b.orbit[i].agent \in Agent
      BY <1>1 DEF Row
<1>8. ASSUME NEW i \in 1..n, o[i].pinned
      PROVE  /\ o[i].state = "HELD" /\ o[i].mode \in WriteModes
             /\ c.task[o[i].task].state = "CONNECTING"
             /\ c.token = o[i].task
  <2>1. b.orbit[i].pinned /\ i \notin theirs /\ o[i] = b.orbit[i]
        BY <1>4, <1>6, <1>8
  <2> DEFINE k == b.orbit[i].task
  <2>2. /\ b.orbit[i].state = "HELD" /\ b.orbit[i].mode \in WriteModes
        /\ b.task[k].state = "CONNECTING" /\ b.token = k /\ k \in Task
        BY <1>1, <1>7, <2>1 DEF Secure, Pinned
  <2>3. b.task[k].agent \notin D
        BY <1>1, <1>6, <2>1, <2>2 DEF Secure, Owned
  <2>4. c.task[k] = b.task[k] /\ c.token = k
        BY <1>2, <2>2, <2>3
  <2> QED BY <2>1, <2>2, <2>4
<1>9. ASSUME NEW i \in Live(o),
             c.task[o[i].task].state \in {"STARTED", "DONE", "CONNECTING"}
      PROVE  c.task[o[i].task].agent = o[i].agent
  <2>1. i \in 1..n /\ i \in Live(b.orbit) /\ i \notin theirs /\ o[i] = b.orbit[i]
        BY <1>1, <1>4, <1>5 DEF Live, Held, Pending
  <2> DEFINE k == b.orbit[i].task
  <2>2. c.task[k] = b.task[k]
    <3>1. Requeued(b.task[k]).state \in {"POISONED", "OPEN"}
          BY DEF Requeued
    <3> QED BY <1>2, <1>7, <1>9, <2>1, <3>1
  <2> QED BY <1>9, <2>1, <2>2 DEF Secure, Owned
<1>10. Secure(c)
  <2>1. DOMAIN o = 1..n
        BY <1>4
  <2>2. Pinned(c)
    <3>1. c.orbit = o
          BY <1>2
    <3> SUFFICES ASSUME NEW i \in 1..n, o[i].pinned
                 PROVE  /\ o[i].state = "HELD" /\ o[i].mode \in WriteModes
                        /\ c.task[o[i].task].state = "CONNECTING"
                        /\ c.token = o[i].task
        BY <2>1, <3>1 DEF Pinned
    <3> QED BY <1>8
  <2>3. Owned(c)
        BY <1>2, <1>9 DEF Owned
  <2> QED BY <1>3, <2>2, <2>3 DEF Secure
<1>11. ASSUME \A i \in DOMAIN b.orbit : b.orbit[i].pinned => b.orbit[i].agent \notin D
       PROVE  PinKept(b, c)
  <2>1. \A i \in 1..n : b.orbit[i].pinned => o[i] = b.orbit[i]
        BY <1>1, <1>4, <1>11
  <2>2. DOMAIN o = 1..n /\ DOMAIN b.orbit = 1..n
        BY <1>1, <1>4
  <2> QED BY <1>2, <1>6, <2>1, <2>2 DEF PinKept, o
<1> QED BY <1>10, <1>11 DEF c

\* The end of a reconciliation, which every verb that sweeps shares.
LEMMA ServeSecures ==
    ASSUME NEW b, Secure(b), NEW t \in Nat, NEW d \in BreakCycles(TimeOut(b, t), t)
    PROVE  Secure(Promote(d, t)) /\ PinKept(b, Promote(d, t))
<1> DEFINE L == {i \in Pending(b.orbit) : b.orbit[i].due <= t}
           c == TimeOut(b, t)
<1>1. Secure(c) /\ PinKept(b, c)
  <2>1. c = [b EXCEPT !.orbit = Close(b.orbit, L, "DENIED")] /\ L \subseteq Pending(b.orbit)
        BY DEF TimeOut
  <2> HIDE DEF L, c
  <2> QED BY <2>1, DenySecures
<1> HIDE DEF c
<1>2. Secure(d) /\ PinKept(c, d)
  <2>1. PICK D \in Denials(c.orbit, t) : d = [c EXCEPT !.orbit = Close(c.orbit, D, "DENIED")]
        BY DEF BreakCycles, c
  <2>2. D \subseteq Pending(c.orbit)
        BY DEF Denials
  <2> QED BY <1>1, <2>1, <2>2, DenySecures
<1>3. Secure(Promote(d, t)) /\ PinKept(d, Promote(d, t))
      BY <1>2, PromoteSecures
<1> QED BY <1>1, <1>2, <1>3, PinKeptOn

\* Reconciliation without the reclaim.
LEMMA SettleSecures ==
    ASSUME NEW b, Secure(b), NEW t \in Nat, NEW c \in Settle(b, t)
    PROVE  Secure(c)
<1>1. Secure(Expire(b, t))
      BY ExpireSecures
<1>2. PICK d \in BreakCycles(TimeOut(Expire(b, t), t), t) : c = Promote(d, t)
      BY DEF Settle
<1> QED BY <1>1, <1>2, ServeSecures

\* With it: whoever owns a pinned row works on the task that is merged, and is spared.
LEMMA ReconcileSecures ==
    ASSUME NEW b, Secure(b), NEW t \in Nat, NEW c \in Reconcile(b, t)
    PROVE  Secure(c) /\ PinKept(b, c)
<1> DEFINE x == Expire(b, t)
           Z == Zombies(x, t)
           y == Retire(x, Z)
<1>1. Secure(x) /\ PinKept(b, x)
      BY ExpireSecures
<1>2. PICK d \in BreakCycles(TimeOut(y, t), t) : c = Promote(d, t)
      BY DEF Reconcile
<1> HIDE DEF x
<1>3. Z \in SUBSET Agent
      BY DEF Zombies
<1>4. ASSUME NEW i \in DOMAIN x.orbit, x.orbit[i].pinned
      PROVE  x.orbit[i].agent \notin Z
  <2>1. x.task[x.orbit[i].task].state = "CONNECTING" /\ i \in Live(x.orbit)
        BY <1>1, <1>4 DEF Secure, Pinned, Live, Held
  <2>2. x.task[x.orbit[i].task].agent = x.orbit[i].agent
        BY <1>1, <2>1 DEF Secure, Owned
  <2>3. Merging(x, x.orbit[i].agent)
        BY <1>4, <2>1, <2>2 DEF Merging
  <2> QED BY <2>3 DEF Zombies
<1> HIDE DEF Z
<1>5. Secure(y) /\ PinKept(x, y)
      BY <1>1, <1>3, <1>4, RetireSecures
<1> HIDE DEF y
<1>6. Secure(c) /\ PinKept(y, c)
      BY <1>2, <1>5, ServeSecures
<1> QED BY <1>1, <1>5, <1>6, PinKeptOn

\* A reconciliation starts and pins nothing: a task nobody works on stays
\* free, and so does the merge token.
LEMMA ReconcileSpares ==
    ASSUME NEW b, Sound(b), NEW t \in Nat, NEW c \in Reconcile(b, t)
    PROVE  /\ \A k \in Task : b.task[k].state = "OPEN" => c.task[k].state = "OPEN"
           /\ b.token = NoTask => c.token = NoTask
<1> DEFINE x == Expire(b, t)
           Z == Zombies(x, t)
           y == Retire(x, Z)
           z == TimeOut(y, t)
<1>1. PICK d \in BreakCycles(z, t) : c = Promote(d, t)
      BY DEF Reconcile
<1>2. /\ Sound(x) /\ x.task = b.task /\ x.token = b.token
  <2>1. b \in BoardRow
        BY DEF Sound, Typed
  <2> QED BY <2>1, ExpireKeeps DEF Expire, BoardRow
<1> HIDE DEF x
<1>3. Z \in SUBSET Agent
      BY DEF Zombies
<1> HIDE DEF Z
<1>4. /\ Sound(y)
      /\ \A k \in Task : x.task[k].state = "OPEN" => y.task[k].state = "OPEN"
      /\ x.token = NoTask => y.token = NoTask
  <2>1. x \in BoardRow
        BY <1>2 DEF Sound, Typed
  <2>2. /\ y.task = [k \in Task |->
                       IF x.task[k].agent \in Z /\ x.task[k].state \in {"STARTED", "CONNECTING"}
                       THEN Requeued(x.task[k]) ELSE x.task[k]]
        /\ y.token = IF x.token \in Task /\ x.task[x.token].agent \in Z THEN NoTask ELSE x.token
        BY <2>1 DEF Retire, BoardRow
  <2>3. Sound(y)
        BY <1>2, <1>3, RetireKeeps
  <2> HIDE DEF y
  <2> QED BY <2>2, <2>3
<1> HIDE DEF y
<1>5. Sound(z) /\ z.task = y.task /\ z.token = y.token
  <2>1. y \in BoardRow
        BY <1>4 DEF Sound, Typed
  <2> QED BY <1>4, <2>1, TimeOutKeeps DEF TimeOut, BoardRow
<1> HIDE DEF z
<1>6. d.task = z.task /\ d.token = z.token /\ d \in BoardRow
  <2>1. Sound(d) /\ z \in BoardRow
        BY <1>1, <1>5, BreakCyclesKeeps DEF Sound, Typed
  <2>2. PICK D : d = [z EXCEPT !.orbit = Close(z.orbit, D, "DENIED")]
        BY <1>1 DEF BreakCycles
  <2> QED BY <2>1, <2>2 DEF Sound, Typed, BoardRow
<1>7. c.task = d.task /\ c.token = d.token
      BY <1>1, <1>6 DEF Promote, BoardRow
<1> QED BY <1>2, <1>4, <1>5, <1>6, <1>7

-----------------------------------------------------------------------------
\* What the verbs do besides.

\* Nothing about rows, tasks and the merge token.
LEMMA SameRowsSecures ==
    ASSUME NEW b, Secure(b), NEW c, Sound(c),
           c.orbit = b.orbit, c.task = b.task, c.token = b.token
    PROVE  Secure(c) /\ PinKept(b, c)
<1>1. Pinned(c) /\ Owned(c)
      BY DEF Secure, Pinned, Owned
<1>2. PinKept(b, c)
      BY DEF Secure, Pinned, PinKept
<1> QED BY <1>1, <1>2 DEF Secure

\* A task changes hands or state while it is not being merged.
LEMMA RetaskSecures ==
    ASSUME NEW b, Secure(b), NEW c, Sound(c), NEW k \in Task,
           c.orbit = b.orbit, c.token = b.token,
           \A j \in Task \ {k} : c.task[j] = b.task[j],
           b.task[k].state # "CONNECTING",
           c.task[k].state \in {"STARTED", "DONE", "CONNECTING"} =>
              \A i \in Live(b.orbit) : b.orbit[i].task = k => c.task[k].agent = b.orbit[i].agent
    PROVE  Secure(c) /\ PinKept(b, c)
<1>1. b.orbit \in [1..b.seq -> Row]
      BY DEF Secure, Sound, Typed
<1>2. \A i \in DOMAIN b.orbit : b.orbit[i].task \in Task
      BY <1>1 DEF Row
<1>3. Pinned(c)
      BY <1>2 DEF Secure, Pinned
<1>4. Owned(c)
  <2>1. Live(b.orbit) \subseteq DOMAIN b.orbit
        BY DEF Live, Held, Pending
  <2> QED BY <1>2, <2>1 DEF Secure, Owned
<1>5. PinKept(b, c)
      BY DEF Secure, Pinned, PinKept
<1> QED BY <1>3, <1>4, <1>5 DEF Secure

\* A row is added for a task that nobody works on.
LEMMA ExtendSecures ==
    ASSUME NEW b, Secure(b), NEW row \in Row, ~row.pinned, b.task[row.task].state = "OPEN",
           NEW c, Sound(c), c.task = b.task, c.token = b.token,
           NEW new, new \notin 1..b.seq,
           NEW o, c.orbit = o, DOMAIN o = (1..b.seq) \cup {new}, o[new] = row,
           \A i \in 1..b.seq : o[i] = b.orbit[i]
    PROVE  Secure(c) /\ PinKept(b, c)
<1>1. b.orbit \in [1..b.seq -> Row] /\ DOMAIN b.orbit = 1..b.seq
      BY DEF Secure, Sound, Typed, BoardRow
<1>4. \A i \in DOMAIN o : i = new \/ (i \in DOMAIN b.orbit /\ o[i] = b.orbit[i])
      BY <1>1
<1>5. \A i \in Live(o) : i = new \/ (i \in Live(b.orbit) /\ o[i] = b.orbit[i])
      BY <1>4 DEF Live, Held, Pending
<1>6. Pinned(c)
  <2> SUFFICES ASSUME NEW i \in DOMAIN o, o[i].pinned
               PROVE  /\ o[i].state = "HELD" /\ o[i].mode \in WriteModes
                      /\ b.task[o[i].task].state = "CONNECTING"
                      /\ b.token = o[i].task
      BY DEF Pinned
  <2>1. i \in DOMAIN b.orbit /\ o[i] = b.orbit[i]
        BY <1>4
  <2> QED BY <2>1 DEF Secure, Pinned
<1>7. Owned(c)
      BY <1>5 DEF Secure, Owned
<1>8. PinKept(b, c)
      BY <1>1 DEF Secure, Pinned, PinKept
<1> QED BY <1>6, <1>7, <1>8 DEF Secure

\* A claim for a task that nobody works on pins nothing.
LEMMA AdmitSecures ==
    ASSUME NEW b, Secure(b), NEW a \in Agent, b.agent[a].status # "RETIRED",
           NEW r \in RequestRow, b.task[r.task].state = "OPEN",
           NEW t \in Nat, NEW c \in Admit(b, a, r, t)
    PROVE  Secure(c) /\ PinKept(b, c)
<1> DEFINE w      == Waiting(a, r, t)
           h      == [w EXCEPT !.state = "HELD", !.fence = b.fence + 1, !.due = t + r.ttl, !.enq = 0]
           queued == Extend(b, w)
           g      == Granted(b, a, r, t)
           new    == b.seq + 1
<1>1. b \in BoardRow /\ b.seq \in Nat /\ b.fence \in Nat
      BY DEF Secure, Sound, Typed, BoardRow
<1>2. w \in Row /\ ~w.pinned /\ w.task = r.task /\ w.state = "PENDING"
      BY WaitingType DEF Waiting
<1>3. h \in Row /\ ~h.pinned /\ h.task = r.task
  <2>1. t + r.ttl \in Nat /\ b.fence + 1 \in Nat
        BY <1>1 DEF RequestRow
  <2> HIDE DEF w
  <2> QED BY <1>2, <2>1 DEF Row, OrbitState
<1>a. b.orbit \in [1..b.seq -> Row] /\ new \notin 1..b.seq /\ 1..new = (1..b.seq) \cup {new}
      BY <1>1 DEF Secure, Sound, Typed
<1>4. /\ queued.task = b.task /\ queued.token = b.token
      /\ DOMAIN queued.orbit = (1..b.seq) \cup {new} /\ queued.orbit[new] = w
      /\ \A i \in 1..b.seq : queued.orbit[i] = b.orbit[i]
      BY <1>1, <1>a DEF Extend, BoardRow
<1>5. /\ g.task = b.task /\ g.token = b.token
      /\ DOMAIN g.orbit = (1..b.seq) \cup {new} /\ g.orbit[new] = h
      /\ \A i \in 1..b.seq : g.orbit[i] = b.orbit[i]
      BY <1>1, <1>a DEF Granted, Extend, BoardRow
<1>6. Sound(queued)
      BY QueuedKeeps DEF Secure
<1>7. Secure(queued) /\ PinKept(b, queued)
  <2> HIDE DEF w, queued, new
  <2> QED BY <1>2, <1>4, <1>6, <1>a, ExtendSecures
<1>8. CASE c \in BreakCycles(g, t) /\ Blockers(queued.orbit, t, new) = {}
  <2>1. Sound(g)
        BY <1>8, GrantedKeeps DEF Secure
  <2>2. Secure(g) /\ PinKept(b, g)
    <3> HIDE DEF h, g, new
    <3> QED BY <1>3, <1>5, <1>a, <2>1, ExtendSecures
  <2> HIDE DEF g
  <2>3. PICK D \in Denials(g.orbit, t) : c = [g EXCEPT !.orbit = Close(g.orbit, D, "DENIED")]
        BY <1>8 DEF BreakCycles
  <2>4. D \subseteq Pending(g.orbit)
        BY DEF Denials
  <2>5. Secure(c) /\ PinKept(g, c)
        BY <2>2, <2>3, <2>4, DenySecures
  <2> QED BY <2>2, <2>5, PinKeptOn
<1>9. CASE c = b
      BY <1>9, SameRowsSecures DEF Secure
<1>10. CASE c = queued
      BY <1>7, <1>10
<1>11. CASE c = [queued EXCEPT !.orbit = Close(queued.orbit, {new}, "DENIED")]
  <2>1. {new} \subseteq Pending(queued.orbit)
    <3> HIDE DEF w, queued, new
    <3> QED BY <1>2, <1>4 DEF Pending
  <2> HIDE DEF queued
  <2>2. Secure(c) /\ PinKept(queued, c)
        BY <1>7, <1>11, <2>1, DenySecures
  <2> QED BY <1>7, <2>2, PinKeptOn
<1> QED BY <1>8, <1>9, <1>10, <1>11 DEF Admit

-----------------------------------------------------------------------------
\* The verbs.

PInv == IInv /\ Secure(Board)

\* The columns of the board are the variables.
LEMMA BoardIs ==
    /\ Board.orbit = orbit /\ Board.agent = agent /\ Board.task = task
    /\ Board.token = token /\ Board.seq = seq /\ Board.fence = fence
    /\ Board'.orbit = orbit' /\ Board'.agent = agent' /\ Board'.task = task'
    /\ Board'.token = token' /\ Board'.seq = seq' /\ Board'.fence = fence'
BY DEF Board

\* A verb that ends with a reconciliation.
LEMMA ServedSecures ==
    ASSUME NEW b, Secure(b), NEW c, Secure(c), PinKept(b, c), NEW t \in Nat,
           NEW d \in Reconcile(c, t), Become(d)
    PROVE  Secure(Board') /\ PinKept(b, Board')
<1>1. Secure(d) /\ PinKept(c, d)
      BY ReconcileSecures
<1>2. Board' = d
      BY <1>1, BecomeBoard DEF Secure
<1> QED BY <1>1, <1>2, PinKeptOn

\* A claim is refused unless nobody works on its task.
LEMMA ClaimSecures ==
    ASSUME PInv, NEW a \in Agent, NEW r \in Request, Claim(a, r)
    PROVE  Secure(Board') /\ PinKept(Board, Board')
<1>1. now \in Nat /\ Sound(Board) /\ Secure(Board)
      BY BoundAssumption DEF PInv, IInv
<1>2. PICK b \in Reconcile(Board, now) :
         \/ b.agent[a].status = "RETIRED" /\ Become(b)
         \/ /\ b.agent[a].status # "RETIRED"
            /\ \E c \in Admit(Touch(b, a, now), a, r, now) : Become(c)
      BY DEF Claim
<1>3. Secure(b) /\ Sound(b) /\ PinKept(Board, b)
      BY <1>1, ReconcileSecures DEF Secure
<1>4. r \in RequestRow /\ r.task \in Task
      BY RequestAssumption DEF RequestRow
<1>5. b.task[r.task].state = "OPEN"
      BY <1>1, <1>4, ReconcileSpares, BoardIs DEF Claim
<1>6. CASE Become(b)
      BY <1>3, <1>6, BecomeBoard
<1>7. CASE /\ b.agent[a].status # "RETIRED"
           /\ \E c \in Admit(Touch(b, a, now), a, r, now) : Become(c)
  <2> DEFINE t == Touch(b, a, now)
  <2>1. /\ Sound(t) /\ t.agent[a].status # "RETIRED"
        /\ t.orbit = b.orbit /\ t.task = b.task /\ t.token = b.token
        BY <1>1, <1>3, <1>7, TouchKeeps
  <2>2. PICK c \in Admit(t, a, r, now) : Become(c)
        BY <1>7
  <2> HIDE DEF t
  <2>3. Secure(t) /\ PinKept(b, t)
        BY <1>3, <2>1, SameRowsSecures
  <2>4. Secure(c) /\ PinKept(t, c)
        BY <1>1, <1>4, <1>5, <2>1, <2>2, <2>3, AdmitSecures
  <2>5. Board' = c
        BY <2>2, <2>4, BecomeBoard DEF Secure
  <2>6. PinKept(Board, t)
        BY <1>3, <2>3, PinKeptOn
  <2> QED BY <2>4, <2>5, <2>6, PinKeptOn
<1> QED BY <1>2, <1>6, <1>7

\* Release asks for a lease that is not pinned, and a request never is.
LEMMA CloseOneSecures ==
    ASSUME PInv, NEW a \in Agent, Alive(a), NEW i \in Live(orbit), ~orbit[i].pinned,
           NEW s \in {"RELEASED", "DENIED"},
           NEW b \in Reconcile([Touch(Board, a, now) EXCEPT !.orbit = Close(@, {i}, s)], now),
           Become(b)
    PROVE  Secure(Board') /\ PinKept(Board, Board')
<1> DEFINE t == Touch(Board, a, now)
           c == [t EXCEPT !.orbit = Close(t.orbit, {i}, s)]
<1>1. now \in Nat /\ Sound(Board) /\ Secure(Board)
      BY BoundAssumption DEF PInv, IInv
<1>2. Board.agent[a].status # "RETIRED" /\ Board.orbit = orbit
      BY DEF Alive, Board
<1>3. Sound(t) /\ t.orbit = orbit /\ t.task = Board.task /\ t.token = Board.token
      BY <1>1, <1>2, TouchKeeps
<1>4. b \in Reconcile(c, now)
      OBVIOUS
<1> HIDE DEF t
<1>5. Secure(t) /\ PinKept(Board, t)
      BY <1>1, <1>2, <1>3, SameRowsSecures
<1>6. Secure(c) /\ PinKept(t, c)
  <2>1. {i} \subseteq Live(t.orbit) /\ \A j \in {i} : ~t.orbit[j].pinned
        BY <1>3
  <2>2. s \in {"RELEASED", "EXPIRED", "DENIED"}
        OBVIOUS
  <2> QED BY <1>5, <2>1, <2>2, CloseSecures
<1> HIDE DEF c
<1>7. PinKept(Board, c)
      BY <1>5, <1>6, PinKeptOn
<1> QED BY <1>1, <1>4, <1>6, <1>7, ServedSecures

\* A task nobody works on has no pinned row.
LEMMA CancelTaskSecures ==
    ASSUME PInv, NEW k \in Task, CancelTask(k)
    PROVE  Secure(Board') /\ PinKept(Board, Board')
<1> DEFINE S == {i \in DOMAIN orbit : orbit[i].task = k}
           o == CloseAll(orbit, S, "RELEASED")
           d == [Board EXCEPT !.orbit = o, !.task[k].state = "ABORTED"]
<1>1. now \in Nat /\ Sound(Board) /\ Secure(Board) /\ task[k].state = "OPEN"
      BY BoundAssumption DEF PInv, IInv, CancelTask
<1>2. Sound(d)
      BY <1>1, CancelledSound
<1>3. PICK b \in Reconcile(d, now) : Become(b)
      BY DEF CancelTask
<1>4. /\ orbit \in [1..seq -> Row] /\ seq \in Nat /\ task \in [Task -> TaskRow]
      BY <1>1, BoardIs DEF Sound, Typed, BoardRow
<1>5. /\ \A i \in 1..seq : o[i].agent = orbit[i].agent
      /\ \A i \in 1..seq : o[i].task = orbit[i].task
      /\ \A i \in 1..seq : i \notin S => o[i] = orbit[i]
      /\ \A i \in 1..seq : o[i].pinned => orbit[i].pinned
      /\ DOMAIN o = 1..seq
  <2> HIDE DEF S
  <2> QED BY <1>4, CloseAllRows
<1>6. Live(o) = Live(orbit) \ S
  <2> HIDE DEF S
  <2> QED BY <1>4, CloseAllEnds
<1>7. /\ d.orbit = o /\ d.token = token
      /\ d.task[k].state = "ABORTED" /\ \A j \in Task \ {k} : d.task[j] = task[j]
      BY <1>4, BoardIs DEF TaskRow, Board
<1> HIDE DEF d, o
<1>8. \A i \in 1..seq : orbit[i].pinned => /\ i \notin S /\ orbit[i].task \in Task \ {k}
                                          /\ orbit[i].state = "HELD" /\ orbit[i].mode \in WriteModes
                                          /\ task[orbit[i].task].state = "CONNECTING"
                                          /\ token = orbit[i].task
  <2>1. \A i \in 1..seq : orbit[i].task \in Task
        BY <1>4 DEF Row
  <2> QED BY <1>1, <1>4, <2>1, BoardIs DEF Secure, Pinned
<1>9. Pinned(d)
      BY <1>5, <1>7, <1>8 DEF Pinned
<1>10. Owned(d)
  <2>1. \A i \in Live(o) : i \in 1..seq /\ i \in Live(orbit) /\ i \notin S /\ orbit[i].task \in Task \ {k}
        BY <1>4, <1>6 DEF Live, Held, Pending, Row
  <2>2. \A i \in Live(orbit) :
           task[orbit[i].task].state \in {"STARTED", "DONE", "CONNECTING"}
              => task[orbit[i].task].agent = orbit[i].agent
        BY <1>1, BoardIs DEF Secure, Owned
  <2> QED BY <1>5, <1>7, <2>1, <2>2 DEF Owned
<1>11. PinKept(Board, d)
      BY <1>4, <1>5, <1>7, <1>8, BoardIs DEF PinKept
<1> QED BY <1>1, <1>2, <1>3, <1>9, <1>10, <1>11, ServedSecures DEF Secure

\* A renewal moves a deadline.
LEMMA RenewSecures ==
    ASSUME PInv, NEW a \in Agent, NEW i, Renew(a, i)
    PROVE  Secure(Board') /\ PinKept(Board, Board')
<1> DEFINE o == [orbit EXCEPT ![i].due = now + orbit[i].ttl]
<1>1. Sound(Board) /\ Sound(Board') /\ Secure(Board)
      BY RenewKeeps DEF PInv, IInv
<1>2. orbit' = o /\ task' = task /\ token' = token
      BY DEF Renew, Become, Touch, Board
<1>3. orbit \in [1..seq -> Row]
      BY <1>1, BoardIs DEF Sound, Typed, BoardRow
<1>4. /\ DOMAIN o = 1..seq
      /\ \A j \in 1..seq : o[j].agent = orbit[j].agent
      /\ \A j \in 1..seq : o[j].task = orbit[j].task
      /\ \A j \in 1..seq : o[j].mode = orbit[j].mode
      /\ \A j \in 1..seq : o[j].state = orbit[j].state
      /\ \A j \in 1..seq : o[j].pinned = orbit[j].pinned
      /\ \A j \in 1..seq : o[j].fence = orbit[j].fence
      BY <1>3 DEF Row
<1> HIDE DEF o
<1>5. Live(o) = Live(orbit)
      BY <1>3, <1>4 DEF Live, Held, Pending
<1>6. \A j \in 1..seq : orbit[j].pinned => orbit[j].state = "HELD"
      BY <1>1, <1>3, BoardIs DEF Secure, Pinned
<1>7. Milder(Board, Board')
      BY <1>2, <1>3, <1>4, <1>5, <1>6, BoardIs DEF Milder
<1>8. PinKept(Board, Board')
      BY <1>2, <1>3, <1>4, <1>6, BoardIs DEF PinKept
<1> QED BY <1>1, <1>7, <1>8, MilderKeeps

\* An agent starts what it claimed itself.
LEMMA StartSecures ==
    ASSUME PInv, ~ForeignStart, NEW a \in Agent, NEW k \in Task, Start(a, k)
    PROVE  Secure(Board') /\ PinKept(Board, Board')
<1>1. Sound(Board) /\ Sound(Board') /\ Secure(Board)
      BY StartKeeps DEF PInv, IInv
<1>2. task \in [Task -> TaskRow]
      BY <1>1, BoardIs DEF Sound, Typed, BoardRow
<1>3. /\ orbit' = orbit /\ token' = token
      /\ task' = [task EXCEPT ![k].state = "STARTED", ![k].agent = a]
      BY DEF Start, Become, Touch, Board
<1>4. /\ task'[k].agent = a /\ \A j \in Task \ {k} : task'[j] = task[j]
      BY <1>2, <1>3 DEF TaskRow
<1>5. /\ task[k].state # "CONNECTING"
      /\ \A i \in Live(orbit) : orbit[i].task = k => orbit[i].agent = a
      BY DEF Start
<1>6. /\ Board'.orbit = Board.orbit /\ Board'.token = Board.token
      /\ \A j \in Task \ {k} : Board'.task[j] = Board.task[j]
      /\ Board.task[k].state # "CONNECTING"
      BY <1>3, <1>4, <1>5, BoardIs
<1>7. \A i \in Live(Board.orbit) : Board.orbit[i].task = k => Board'.task[k].agent = Board.orbit[i].agent
      BY <1>4, <1>5, BoardIs
<1> QED BY <1>1, <1>6, <1>7, RetaskSecures

\* A task that is finished keeps its agent.
LEMMA FinishSecures ==
    ASSUME PInv, NEW a \in Agent, NEW k \in Task, Finish(a, k)
    PROVE  Secure(Board') /\ PinKept(Board, Board')
<1>1. Sound(Board) /\ Sound(Board') /\ Secure(Board)
      BY FinishKeeps DEF PInv, IInv
<1>2. task \in [Task -> TaskRow] /\ orbit \in [1..seq -> Row]
      BY <1>1, BoardIs DEF Sound, Typed, BoardRow
<1>3. orbit' = orbit /\ token' = token /\ task' = [task EXCEPT ![k].state = "DONE"]
      BY DEF Finish, Become, Touch, Board
<1>4. /\ task'[k].agent = task[k].agent /\ \A j \in Task \ {k} : task'[j] = task[j]
      BY <1>2, <1>3 DEF TaskRow
<1>5. task[k].state = "STARTED"
      BY DEF Finish
<1>6. \A i \in Live(orbit) : orbit[i].task = k => task[k].agent = orbit[i].agent
      BY <1>1, <1>5, BoardIs DEF Secure, Owned
<1> QED BY <1>1, <1>3, <1>4, <1>5, <1>6, BoardIs, RetaskSecures

\* The first pins of a connect: nothing was pinned while the token was free.
LEMMA BeginConnectSecures ==
    ASSUME PInv, NEW k \in Task, BeginConnect(k)
    PROVE  Secure(Board')
<1>1. now \in Nat /\ Sound(Board) /\ Sound(Board') /\ Secure(Board)
      BY BoundAssumption, BeginConnectKeeps DEF PInv, IInv
<1>2. PICK b \in Reconcile(Board, now) :
         /\ b.task[k].state \in {"STARTED", "DONE"}
         /\ WriteRows(b.orbit, k) \subseteq Held(b.orbit)
         /\ Become([b EXCEPT !.orbit = Pin(@, WriteRows(b.orbit, k)),
                             !.task[k].state = "CONNECTING",
                             !.token = k,
                             !.fence = @ + 1])
      BY DEF BeginConnect
<1>3. Secure(b) /\ Sound(b) /\ b.token = NoTask
      BY <1>1, ReconcileSecures, ReconcileSpares, BoardIs DEF Secure, BeginConnect
<1>4. b \in BoardRow /\ b.orbit \in [1..b.seq -> Row] /\ b.task \in [Task -> TaskRow]
      BY <1>3 DEF Sound, Typed, BoardRow
<1> DEFINE W == WriteRows(b.orbit, k)
           o == Pin(b.orbit, W)
<1>5. /\ orbit' = o /\ token' = k
      /\ task' = [b.task EXCEPT ![k].state = "CONNECTING"]
      BY <1>2, <1>4 DEF Become, BoardRow
<1>6. /\ task'[k].state = "CONNECTING" /\ task'[k].agent = b.task[k].agent
      /\ \A j \in Task \ {k} : task'[j] = b.task[j]
      BY <1>4, <1>5 DEF TaskRow
<1>7. \A i \in 1..b.seq : b.orbit[i].task \in Task
      BY <1>4 DEF Row
<1>8. \A i \in 1..b.seq : ~b.orbit[i].pinned
      BY <1>3, <1>4, <1>7, TaskAssumption DEF Secure, Pinned
<1>9. /\ DOMAIN o = 1..b.seq
      /\ \A j \in 1..b.seq : o[j].agent = b.orbit[j].agent
      /\ \A j \in 1..b.seq : o[j].task = b.orbit[j].task
      /\ \A j \in 1..b.seq : o[j].mode = b.orbit[j].mode
      /\ \A j \in 1..b.seq : o[j].state = b.orbit[j].state
      /\ \A j \in 1..b.seq : o[j].pinned => j \in W
  <2> HIDE DEF W
  <2> QED BY <1>4, <1>8 DEF Pin, Row
<1>10. \A j \in W : b.orbit[j].task = k /\ b.orbit[j].mode \in WriteModes /\ b.orbit[j].state = "HELD"
      BY <1>2 DEF WriteRows, Held
<1> HIDE DEF o, W
<1>11. Pinned(Board')
      BY <1>5, <1>6, <1>9, <1>10, BoardIs DEF Pinned
<1>12. Live(o) = Live(b.orbit) /\ Live(b.orbit) \subseteq 1..b.seq
      BY <1>4, <1>9 DEF Live, Held, Pending
<1>13. Owned(Board')
      BY <1>2, <1>3, <1>5, <1>6, <1>7, <1>9, <1>12, BoardIs DEF Secure, Owned
<1> QED BY <1>1, <1>11, <1>13 DEF Secure

\* The end of a connect leaves no pin: whoever is pinned belongs to it.
LEMMA EndConnectSecures ==
    ASSUME PInv, NEW k \in Task, EndConnect(k)
    PROVE  Secure(Board')
<1>1. now \in Nat /\ Sound(Board) /\ Secure(Board) /\ token = k
      BY BoundAssumption DEF PInv, IInv, EndConnect
<1>2. PICK d \in {Merged(Board, k), RolledBack(Board, k)} :
         \E b \in Reconcile(d, now) : Become(b)
      BY DEF EndConnect
<1>3. Sound(d)
      BY <1>1, <1>2, EndedSound
<1>4. orbit \in [1..seq -> Row] /\ seq \in Nat /\ task \in [Task -> TaskRow]
      BY <1>1, BoardIs DEF Sound, Typed, BoardRow
<1>5. task[k].state = "CONNECTING"
      BY <1>1, BoardIs DEF Sound, Merges
<1>6. \A i \in 1..seq : orbit[i].pinned => /\ orbit[i].state = "HELD" /\ orbit[i].mode \in WriteModes
                                          /\ orbit[i].task = k
      BY <1>1, <1>4, BoardIs DEF Secure, Pinned
<1>7. \A i \in Live(orbit) :
         task[orbit[i].task].state \in {"STARTED", "DONE", "CONNECTING"}
            => task[orbit[i].task].agent = orbit[i].agent
      BY <1>1, BoardIs DEF Secure, Owned
<1>8. /\ d.task[k].state \in {"MERGED", "DONE"} /\ d.task[k].agent = task[k].agent
      /\ \A j \in Task \ {k} : d.task[j] = task[j]
  <2>1. d.task = [task EXCEPT ![k].state = "MERGED"] \/ d.task = [task EXCEPT ![k].state = "DONE"]
        BY <1>2 DEF Merged, RolledBack, Board
  <2> QED BY <1>4, <2>1 DEF TaskRow
<1>9. /\ DOMAIN d.orbit = 1..seq
      /\ \A i \in 1..seq : d.orbit[i].agent = orbit[i].agent
      /\ \A i \in 1..seq : d.orbit[i].task = orbit[i].task
      /\ \A i \in 1..seq : ~d.orbit[i].pinned
      /\ Live(d.orbit) \subseteq Live(orbit)
  <2>1. CASE d = Merged(Board, k)
    <3> DEFINE M == WriteRows(orbit, k) \cap Held(orbit)
               o == Close(orbit, M, "RELEASED")
    <3>1. d.orbit = o
          BY <2>1 DEF Merged, Board
    <3>2. \A i \in 1..seq : orbit[i].pinned => i \in M
          BY <1>4, <1>6 DEF WriteRows, Held
    <3> HIDE DEF M
    <3>3. /\ o \in [1..seq -> Row]
          /\ \A i \in 1..seq : o[i].agent = orbit[i].agent
          /\ \A i \in 1..seq : o[i].task = orbit[i].task
          /\ \A i \in 1..seq : i \in M => ~o[i].pinned
          /\ \A i \in 1..seq : i \notin M => o[i] = orbit[i]
      <4>1. "RELEASED" \in {"RELEASED", "EXPIRED", "DENIED"}
            OBVIOUS
      <4>2. seq \in Nat /\ orbit \in [1..seq -> Row]
            BY <1>4
      <4>3. o \in [1..seq -> Row]
            BY <4>1, <4>2, CloseRows
      <4>4. \A i \in 1..seq : o[i].agent = orbit[i].agent
            BY <4>1, <4>2, CloseRows
      <4>5. \A i \in 1..seq : o[i].task = orbit[i].task
            BY <4>1, <4>2, CloseRows
      <4>6. \A i \in 1..seq : i \in M => ~o[i].pinned
            BY <4>1, <4>2, CloseRows
      <4>7. \A i \in 1..seq : i \notin M => o[i] = orbit[i]
            BY <4>1, <4>2, CloseRows
      <4> HIDE DEF o
      <4> QED BY <4>3, <4>4, <4>5, <4>6, <4>7
    <3>4. Held(o) = Held(orbit) \ M /\ Pending(o) = Pending(orbit) \ M
          BY <1>4, CloseEnds
    <3> HIDE DEF o
    <3> QED BY <1>4, <3>1, <3>2, <3>3, <3>4 DEF Live
  <2>2. CASE d = RolledBack(Board, k)
    <3> DEFINE U == {i \in DOMAIN orbit : orbit[i].task = k}
               o == Unpin(orbit, U)
    <3>1. d.orbit = o
          BY <2>2 DEF RolledBack, Board
    <3>2. \A i \in 1..seq : orbit[i].pinned => i \in U
          BY <1>4, <1>6
    <3> HIDE DEF U
    <3>3. /\ DOMAIN o = 1..seq
          /\ \A i \in 1..seq : o[i].agent = orbit[i].agent
          /\ \A i \in 1..seq : o[i].task = orbit[i].task
          /\ \A i \in 1..seq : o[i].state = orbit[i].state
          /\ \A i \in 1..seq : o[i].pinned => orbit[i].pinned /\ i \notin U
          BY <1>4 DEF Unpin, Row
    <3> HIDE DEF o
    <3>4. Live(o) = Live(orbit)
          BY <1>4, <3>3 DEF Live, Held, Pending
    <3> QED BY <3>1, <3>2, <3>3, <3>4
  <2> QED BY <1>2, <2>1, <2>2
<1>10. Pinned(d)
      BY <1>9 DEF Pinned
<1>11. Owned(d)
  <2> SUFFICES ASSUME NEW i \in Live(d.orbit),
                      d.task[d.orbit[i].task].state \in {"STARTED", "DONE", "CONNECTING"}
               PROVE  d.task[d.orbit[i].task].agent = d.orbit[i].agent
      BY DEF Owned
  <2>1. i \in 1..seq /\ i \in Live(orbit) /\ orbit[i].task \in Task
        BY <1>4, <1>9 DEF Live, Held, Pending, Row
  <2> QED BY <1>5, <1>7, <1>8, <1>9, <2>1
<1>12. Secure(d)
      BY <1>3, <1>10, <1>11 DEF Secure
<1>13. PICK b \in Reconcile(d, now) : Become(b)
      BY <1>2
<1>14. Secure(b)
      BY <1>1, <1>12, <1>13, ReconcileSecures
<1> QED BY <1>13, <1>14, BecomeBoard DEF Secure

\* Every verb keeps the tables secure, and while a merge runs outside the
\* lock it keeps what the merge relies on.
LEMMA NextSecures ==
    ASSUME PInv, ~ForeignStart, [Next]_vars
    PROVE  PInv' /\ (running /\ running' => PinKept(Board, Board'))
<1>1. IInv' /\ Sound(Board) /\ Sound(Board') /\ Secure(Board)
      BY NextIInv DEF PInv, IInv
<1>a. ASSUME Secure(Board'), PinKept(Board, Board')
      PROVE  PInv' /\ (running /\ running' => PinKept(Board, Board'))
      BY <1>1, <1>a DEF PInv
<1>2. CASE orbit' = orbit /\ task' = task /\ token' = token
  <2>1. Secure(Board') /\ PinKept(Board, Board')
        BY <1>1, <1>2, BoardIs, SameRowsSecures
  <2> QED BY <2>1, <1>a
<1>3. CASE Tick \/ StopConnect \/ UNCHANGED vars
      BY <1>2, <1>3 DEF Tick, StopConnect, vars
<1>4. CASE \E a \in Agent : \E w \in Windows \cup {agent[a].window} : Heartbeat(a, w)
      BY <1>2, <1>4 DEF Heartbeat
<1>5. CASE \E a \in Agent, r \in Request : Claim(a, r)
  <2>1. Secure(Board') /\ PinKept(Board, Board')
        BY <1>5, ClaimSecures
  <2> QED BY <2>1, <1>a
<1>6. CASE \E a \in Agent, i \in 1..seq : Renew(a, i)
  <2>1. Secure(Board') /\ PinKept(Board, Board')
        BY <1>6, RenewSecures
  <2> QED BY <2>1, <1>a
<1>7. CASE \E a \in Agent, i \in 1..seq : Release(a, i)
  <2>1. PICK a \in Agent, i \in 1..seq : Release(a, i)
        BY <1>7
  <2>2. i \in Live(orbit) /\ ~orbit[i].pinned /\ Alive(a)
        BY <2>1 DEF Release, Live
  <2>3. Secure(Board') /\ PinKept(Board, Board')
        BY <2>1, <2>2, CloseOneSecures DEF Release
  <2> QED BY <2>3, <1>a
<1>8. CASE \E a \in Agent, i \in 1..seq : CancelWait(a, i)
  <2>1. PICK a \in Agent, i \in 1..seq : CancelWait(a, i)
        BY <1>8
  <2>2. ~orbit[i].pinned
        BY <1>1, <2>1, BoardIs DEF CancelWait, Pending, Secure, Pinned
  <2>3. i \in Live(orbit) /\ Alive(a)
        BY <2>1 DEF CancelWait, Live
  <2>4. Secure(Board') /\ PinKept(Board, Board')
        BY <2>1, <2>2, <2>3, CloseOneSecures DEF CancelWait
  <2> QED BY <2>4, <1>a
<1>9. CASE \E k \in Task : CancelTask(k)
  <2>1. Secure(Board') /\ PinKept(Board, Board')
        BY <1>9, CancelTaskSecures
  <2> QED BY <2>1, <1>a
<1>10. CASE \E a \in Agent, k \in Task : Start(a, k)
  <2>1. Secure(Board') /\ PinKept(Board, Board')
        BY <1>10, StartSecures
  <2> QED BY <2>1, <1>a
<1>11. CASE \E a \in Agent, k \in Task : Finish(a, k)
  <2>1. Secure(Board') /\ PinKept(Board, Board')
        BY <1>11, FinishSecures
  <2> QED BY <2>1, <1>a
<1>12. CASE Sweep
  <2>1. PICK b \in Reconcile(Board, now) : Become(b)
        BY <1>12 DEF Sweep
  <2>2. now \in Nat
        BY BoundAssumption DEF PInv, IInv
  <2>3. Secure(b) /\ PinKept(Board, b)
        BY <1>1, <2>1, <2>2, ReconcileSecures
  <2>4. Board' = b
        BY <2>1, <2>3, BecomeBoard DEF Secure
  <2> QED BY <2>3, <2>4, <1>a
<1>13. CASE \E a \in Agent : Bail(a)
  <2>1. PICK a \in Agent : Bail(a)
        BY <1>13
  <2>2. now \in Nat /\ ~running
        BY <2>1, BoundAssumption DEF PInv, IInv, Bail
  <2>3. PICK b \in Settle(Retire(Board, {a}), now) : Become(b)
        BY <2>1 DEF Bail
  <2>4. Secure(Retire(Board, {a}))
        BY <1>1, RetireSecures
  <2>5. Secure(b)
        BY <2>2, <2>3, <2>4, SettleSecures
  <2>6. Secure(Board')
        BY <2>3, <2>5, BecomeBoard DEF Secure
  <2> QED BY <1>1, <2>2, <2>6 DEF PInv
<1>14. CASE \E k \in Task : BeginConnect(k)
      BY <1>1, <1>14, BeginConnectSecures DEF BeginConnect, PInv
<1>15. CASE \E k \in Task : ConnectTooEarly(k)
  <2>1. PICK k \in Task : ConnectTooEarly(k)
        BY <1>15
  <2>2. now \in Nat /\ ~running
        BY <2>1, BoundAssumption DEF PInv, IInv, ConnectTooEarly
  <2>3. PICK b \in Reconcile(Board, now) : Become([b EXCEPT !.fence = @ + 1])
        BY <2>1 DEF ConnectTooEarly
  <2>4. Secure(b) /\ b \in BoardRow
        BY <1>1, <2>2, <2>3, ReconcileSecures DEF Secure, Sound, Typed
  <2>5. Board'.orbit = b.orbit /\ Board'.task = b.task /\ Board'.token = b.token
        BY <2>3, <2>4, BoardIs DEF Become, BoardRow
  <2>6. Secure(Board')
        BY <1>1, <2>4, <2>5, SameRowsSecures
  <2> QED BY <1>1, <2>2, <2>6 DEF PInv
<1>16. CASE \E k \in Task : EndConnect(k)
      BY <1>1, <1>16, EndConnectSecures DEF EndConnect, PInv
<1> QED BY <1>3, <1>4, <1>5, <1>6, <1>7, <1>8, <1>9, <1>10, <1>11, <1>12, <1>13, <1>14,
           <1>15, <1>16 DEF Next

\* Where agents start only what they claimed, the tables are always secure.
LEMMA PinsInductive == ~ForeignStart => (Spec => []PInv)
<1> SUFFICES ASSUME ~ForeignStart PROVE Spec => []PInv
    OBVIOUS
<1>1. Init => PInv
  <2> SUFFICES ASSUME Init PROVE PInv
      OBVIOUS
  <2>1. DOMAIN Board.orbit = {} /\ Live(Board.orbit) = {}
        BY BoardIs DEF Init, Live, Held, Pending
  <2>2. Pinned(Board) /\ Owned(Board)
        BY <2>1 DEF Pinned, Owned
  <2> QED BY <2>2, InitIInv DEF PInv, IInv, Secure
<1>2. PInv /\ [Next]_vars => PInv'
      BY NextSecures
<1> QED BY <1>1, <1>2, PTL DEF Spec

\* No pin outlives its connect: each is on a held lease of the task that is
\* CONNECTING and has the merge token, through rollbacks, recoveries, bails
\* and reclaims.
THEOREM PinsEnd == ~ForeignStart => (Spec => []PinsAccountedFor)
<1>1. PInv => PinsAccountedFor
      BY BoardIs DEF PInv, Secure, Pinned, PinsAccountedFor
<1> QED BY <1>1, PinsInductive, PTL

\* While a merge runs outside the lock its leases stay held, pinned and under
\* the same token, whatever the other verbs and the clock do.
THEOREM PinsHold == ~ForeignStart => (Spec => PinProtects)
<1> SUFFICES ASSUME ~ForeignStart PROVE Spec => PinProtects
    OBVIOUS
<1>1. Spec => []PInv
      BY PinsInductive
<1>2. PInv /\ [Next]_vars =>
         [running /\ running' =>
             \A i \in DOMAIN orbit : orbit[i].pinned =>
                 /\ orbit'[i].state = "HELD"
                 /\ orbit'[i].pinned
                 /\ orbit'[i].fence = orbit[i].fence]_vars
      BY NextSecures, BoardIs DEF PinKept
<1> QED BY <1>1, <1>2, PTL DEF Spec, PinProtects
=============================================================================
