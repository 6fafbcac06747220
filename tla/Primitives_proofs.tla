-------------------------- MODULE Primitives_proofs --------------------------
(***************************************************************************)
(* Semaphores, flags and barriers of one coordinator, for any agents,      *)
(* tasks, generations and bounds: their types, that a trip merges what it  *)
(* says and owns what it merges, that signals are heard, and that permits  *)
(* are used up and granted in order.  A lemma for each operator says what  *)
(* it leaves; the theorems put them together along the actions.            *)
(*                                                                         *)
(* A consistent world is one in which a trip, its driver, the members and  *)
(* their tasks agree.  Most lemmas on barriers follow from a change being  *)
(* harmless, which is that it takes nothing from what a trip relies on.    *)
(***************************************************************************)
EXTENDS Primitives, FiniteSetTheorems, TLAPS

-----------------------------------------------------------------------------
\* Worlds and their parts

World == Bar!World
BarrierRow == Bar!BarrierRow
DriverRow == Bar!DriverRow
TaskRow == Bar!TaskRow
Tasks == [Task -> TaskRow]

\* The parts of a world are of their types,
LEMMA WorldParts ==
    ASSUME NEW w \in World
    PROVE  /\ w.task \in Tasks /\ w.bar \in BarrierRow /\ w.driver \in DriverRow
           /\ w.granted \in 0 .. MaxFence
BY DEF World, Tasks, TaskRow, BarrierRow, DriverRow, Bar!World

\* and one that is replaced leaves the others.
LEMMA WorldWithBar ==
    ASSUME NEW w \in World, NEW b \in BarrierRow
    PROVE  LET v == [w EXCEPT !.bar = b]
           IN  /\ v \in World /\ v.bar = b
               /\ v.task = w.task /\ v.driver = w.driver /\ v.granted = w.granted
BY DEF World, BarrierRow, Bar!World

\* Its tasks,
LEMMA WorldWithTask ==
    ASSUME NEW w \in World, NEW t \in Tasks
    PROVE  LET v == [w EXCEPT !.task = t]
           IN  /\ v \in World /\ v.task = t
               /\ v.bar = w.bar /\ v.driver = w.driver /\ v.granted = w.granted
BY DEF World, Tasks, TaskRow, Bar!World

\* and its driver.
LEMMA WorldWithDriver ==
    ASSUME NEW w \in World, NEW d \in DriverRow
    PROVE  LET v == [w EXCEPT !.driver = d]
           IN  /\ v \in World /\ v.driver = d
               /\ v.bar = w.bar /\ v.task = w.task /\ v.granted = w.granted
BY DEF World, DriverRow, Bar!World

\* Of an attempt nothing but that it can, or cannot, be taken back.
LEMMA WorldWithWedged ==
    ASSUME NEW w \in World, NEW x \in BOOLEAN
    PROVE  LET v == [w EXCEPT !.wedged = x]
           IN  /\ v \in World
               /\ v.bar = w.bar /\ v.task = w.task /\ v.driver = w.driver
BY DEF World, Bar!World

BarrierStates == {"none", "ARMED", "TRIPPING", "TRIPPED", "BROKEN", "CONSUMED"}
TaskStates == {"PENDING", "OPEN", "CONNECTING", "MERGED", "POISONED"}

\* Barriers, with some field replaced.
LEMMA BarrierWith ==
    ASSUME NEW b \in BarrierRow
    PROVE  /\ b.state \in BarrierStates /\ b.generation \in 0 .. MaxGeneration
           /\ b.member \subseteq Task /\ b.arrived \in [Task -> 0 .. MaxFence]
           /\ \A x \in BarrierStates :
                 LET c == [b EXCEPT !.state = x]
                 IN  /\ c \in BarrierRow /\ c.state = x /\ c.generation = b.generation
                     /\ c.member = b.member /\ c.arrived = b.arrived
           /\ \A x \in SUBSET Task :
                 LET c == [b EXCEPT !.member = x]
                 IN  /\ c \in BarrierRow /\ c.member = x /\ c.generation = b.generation
                     /\ c.state = b.state /\ c.arrived = b.arrived
           /\ \A x \in [Task -> 0 .. MaxFence] :
                 LET c == [b EXCEPT !.arrived = x]
                 IN  /\ c \in BarrierRow /\ c.arrived = x /\ c.generation = b.generation
                     /\ c.state = b.state /\ c.member = b.member
           /\ LET c == [b EXCEPT !.late = TRUE]
              IN  /\ c \in BarrierRow /\ c.generation = b.generation
                  /\ c.state = b.state /\ c.member = b.member /\ c.arrived = b.arrived
BY DEF BarrierRow, BarrierStates, Bar!BarrierRow

\* One that has ended keeps its members.
LEMMA EndedIs ==
    ASSUME NEW b \in BarrierRow, NEW x \in BarrierStates
    PROVE  LET c == Bar!Ended(b, x)
           IN  /\ c \in BarrierRow /\ c.state = x /\ c.generation = b.generation
               /\ c.member = b.member
BY DEF BarrierRow, BarrierStates, Bar!BarrierRow, Bar!Ended

\* Tasks, likewise.
LEMMA TaskWith ==
    ASSUME NEW r \in TaskRow
    PROVE  /\ r.state \in TaskStates /\ r.fence \in 0 .. MaxFence
           /\ \A x \in TaskStates :
                 LET c == [r EXCEPT !.state = x] IN c \in TaskRow /\ c.state = x
           /\ LET c == [r EXCEPT !.fence = 0, !.due = FALSE]
              IN  c \in TaskRow /\ c.state = r.state
           /\ \A x \in TaskStates :
                 LET c == [r EXCEPT !.state = x, !.fence = 0, !.due = FALSE]
                 IN  c \in TaskRow /\ c.state = x
           /\ LET c == [r EXCEPT !.due = TRUE]
              IN  c \in TaskRow /\ c.state = r.state
<1>1. 0 \in 0 .. MaxFence
      BY PrimitivesAssumption
<1> USE DEF TaskRow, TaskStates, Bar!TaskRow
<1>2. r.state \in TaskStates /\ r.fence \in 0 .. MaxFence
      OBVIOUS
<1>3. ASSUME NEW x \in TaskStates
      PROVE  LET c == [r EXCEPT !.state = x] IN c \in TaskRow /\ c.state = x
      OBVIOUS
<1>4. LET c == [r EXCEPT !.fence = 0, !.due = FALSE]
      IN  c \in TaskRow /\ c.state = r.state
      BY <1>1
<1>5. ASSUME NEW x \in TaskStates
      PROVE  LET c == [r EXCEPT !.state = x, !.fence = 0, !.due = FALSE]
             IN  c \in TaskRow /\ c.state = x
      BY <1>1
<1>6. LET c == [r EXCEPT !.due = TRUE]
      IN  c \in TaskRow /\ c.state = r.state
      OBVIOUS
<1> QED BY <1>2, <1>3, <1>4, <1>5, <1>6

\* Drivers, likewise.
LEMMA DriverWith ==
    ASSUME NEW d \in DriverRow
    PROVE  /\ d.kind \in {"nobody", "trip", "connect", "orphan"} /\ d.generation \in 0 .. MaxGeneration
           /\ d.plan \subseteq Task /\ d.merging \subseteq Task
           /\ \A x \in SUBSET Task :
                 LET c == [d EXCEPT !.plan = x]
                 IN  /\ c \in DriverRow /\ c.kind = d.kind /\ c.generation = d.generation
                     /\ c.plan = x /\ c.merging = d.merging
           /\ \A x \in SUBSET Task :
                 LET c == [d EXCEPT !.merging = x]
                 IN  /\ c \in DriverRow /\ c.kind = d.kind /\ c.generation = d.generation
                     /\ c.plan = d.plan /\ c.merging = x
           /\ \A x, y \in SUBSET Task :
                 LET c == [d EXCEPT !.plan = x, !.merging = y]
                 IN  /\ c \in DriverRow /\ c.kind = d.kind /\ c.generation = d.generation
                     /\ c.plan = x /\ c.merging = y
BY DEF DriverRow, Bar!DriverRow

\* Nobody drives.
LEMMA NoDriverFields ==
    /\ Bar!NoDriver \in DriverRow
    /\ Bar!NoDriver.kind = "nobody" /\ Bar!NoDriver.merging = {} /\ Bar!NoDriver.plan = {}
BY PrimitivesAssumption DEF DriverRow, Bar!DriverRow, Bar!NoDriver

-----------------------------------------------------------------------------
\* What barriers, tasks and drivers have to do with one another: a trip that is on
\* has members, all arrived; what its driver has not planned is merged; whoever
\* merges, merges what is CONNECTING; and what has tripped has merged.

Consistent(w) ==
    /\ w.bar.state = "TRIPPING" =>
          w.bar.member # {} /\ \A t \in w.bar.member : Bar!Arrived(w, t)
    /\ w.driver.kind = "trip" /\ Bar!OwnsTrip(w) =>
          \A t \in w.bar.member : Bar!Merged(w, t) \/ t \in w.driver.plan
    /\ \A t \in w.driver.merging : w.task[t].state = "CONNECTING"
    /\ w.driver.kind = "nobody" => w.driver.merging = {}
    /\ w.bar.state \in {"TRIPPED", "CONSUMED"} => Bar!AllMerged(w)

\* A change from w to v that no trip, no driver and no member can come to harm by.
Harmless(w, v) ==
    /\ \A t \in Task : Bar!Merged(w, t) => Bar!Merged(v, t)
    /\ v.driver.kind = "trip" =>
          /\ w.driver.kind = "trip" /\ v.driver.generation = w.driver.generation
          /\ \A t \in w.driver.plan : t \in v.driver.plan \/ Bar!Merged(v, t)
    /\ \A t \in v.driver.merging : v.task[t].state = "CONNECTING"
    /\ v.driver.kind = "nobody" => v.driver.merging = {}
    /\ \/ v.bar = w.bar
       \/ v.bar.state \in {"none", "ARMED", "BROKEN"}
       \/ v.bar.state \in {"TRIPPED", "CONSUMED"} /\ Bar!AllMerged(v)

\* A change that starts no merge.
StartsNone(w, v) ==
    \A t \in Task : v.task[t].state = "CONNECTING" => w.task[t].state = "CONNECTING"

\* A change without harm keeps a world consistent.
LEMMA HarmlessKeeps ==
    ASSUME NEW w \in World, NEW v \in World, Consistent(w), Harmless(w, v)
    PROVE  Consistent(v)
<1>1. w.bar.member \subseteq Task
      BY WorldParts, BarrierWith
<1>2. CASE v.bar = w.bar
      BY <1>1, <1>2 DEF Consistent, Harmless, Bar!Arrived, Bar!OwnsTrip, Bar!AllMerged
<1>3. CASE v.bar.state \in {"none", "ARMED", "BROKEN"}
      BY <1>3 DEF Consistent, Harmless, Bar!OwnsTrip
<1>4. CASE v.bar.state \in {"TRIPPED", "CONSUMED"} /\ Bar!AllMerged(v)
      BY <1>4 DEF Consistent, Harmless, Bar!OwnsTrip
<1> QED BY <1>2, <1>3, <1>4 DEF Harmless

-----------------------------------------------------------------------------
\* The operators of Barriers, one by one: each gives a world, without harm.

\* Between worlds that differ in the barrier alone, while it is not tripping.
LEMMA BarHarmless ==
    ASSUME NEW w \in World, Consistent(w), NEW b \in BarrierRow,
           b.state \in {"none", "ARMED", "BROKEN"},
           NEW v, v = [w EXCEPT !.bar = b]
    PROVE  /\ v \in World /\ Harmless(w, v) /\ StartsNone(w, v)
           /\ v.bar = b /\ v.task = w.task /\ v.driver = w.driver /\ v.granted = w.granted
<1>1. /\ v \in World /\ v.bar = b
      /\ v.task = w.task /\ v.driver = w.driver /\ v.granted = w.granted
      BY WorldWithBar
<1>2. Harmless(w, v) /\ StartsNone(w, v)
      BY <1>1 DEF Harmless, StartsNone, Consistent, Bar!Merged, Bar!AllMerged
<1> QED BY <1>1, <1>2

\* A barrier ends when all is merged.
LEMMA DoneHarmless ==
    ASSUME NEW w \in World, Consistent(w), Bar!AllMerged(w), NEW b \in BarrierRow,
           b.state \in {"TRIPPED", "CONSUMED"}, b.member = w.bar.member,
           NEW v, v = [w EXCEPT !.bar = b]
    PROVE  /\ v \in World /\ Consistent(v) /\ Harmless(w, v) /\ StartsNone(w, v)
           /\ v.driver = w.driver /\ v.task = w.task
<1>1. /\ v \in World /\ v.bar = b
      /\ v.task = w.task /\ v.driver = w.driver /\ v.granted = w.granted
      BY WorldWithBar
<1>2. Bar!AllMerged(v)
      BY <1>1 DEF Bar!AllMerged, Bar!Merged
<1>3. Harmless(w, v) /\ StartsNone(w, v)
      BY <1>1, <1>2 DEF Harmless, StartsNone, Consistent, Bar!Merged
<1> QED BY <1>1, <1>3, HarmlessKeeps

LEMMA TrippedHarmless ==
    ASSUME NEW w \in World, Consistent(w), Bar!AllMerged(w)
    PROVE  LET v == Bar!Tripped(w)
           IN  /\ v \in World /\ Consistent(v) /\ Harmless(w, v) /\ StartsNone(w, v)
               /\ v.driver = w.driver /\ v.task = w.task
<1> DEFINE b == Bar!Ended(w.bar, "TRIPPED")
<1>1. b \in BarrierRow /\ b.state = "TRIPPED" /\ b.member = w.bar.member
      BY WorldParts, EndedIs DEF BarrierStates
<1>2. Bar!Tripped(w) = [w EXCEPT !.bar = b]
      BY DEF Bar!Tripped
<1> HIDE DEF b
<1> QED BY <1>1, <1>2, DoneHarmless

\* It breaks, when it has not ended.
LEMMA BrokenUpHarmless ==
    ASSUME NEW w \in World, Consistent(w)
    PROVE  LET v == Bar!BrokenUp(w)
           IN  /\ v \in World /\ Harmless(w, v) /\ StartsNone(w, v)
               /\ v.task = w.task /\ v.driver = w.driver /\ v.granted = w.granted
               /\ v.bar.generation = w.bar.generation
               /\ v.bar.state = (IF w.bar.state \in {"ARMED", "TRIPPING"} THEN "BROKEN"
                                 ELSE w.bar.state)
<1> DEFINE b == Bar!Ended(w.bar, "BROKEN")
<1>1. w.bar \in BarrierRow
      BY WorldParts
<1>2. b \in BarrierRow /\ b.state = "BROKEN" /\ b.generation = w.bar.generation
      BY <1>1, EndedIs DEF BarrierStates
<1>3. CASE w.bar.state \in {"ARMED", "TRIPPING"}
      <2>1. Bar!BrokenUp(w) = [w EXCEPT !.bar = b]
            BY <1>3 DEF Bar!BrokenUp
      <2> HIDE DEF b
      <2> QED BY <1>2, <1>3, <2>1, BarHarmless
<1>4. CASE ~(w.bar.state \in {"ARMED", "TRIPPING"})
      <2>1. Bar!BrokenUp(w) = w
            BY <1>4 DEF Bar!BrokenUp
      <2>2. Harmless(w, w) /\ StartsNone(w, w)
            BY DEF Harmless, StartsNone, Consistent
      <2> QED BY <1>4, <2>1, <2>2
<1> QED BY <1>3, <1>4

\* The evaluation leaves the dead behind, or breaks; it trips nothing.
LEMMA EvaluatedHarmless ==
    ASSUME NEW w \in World, Consistent(w)
    PROVE  LET v == Bar!Evaluated(w)
           IN  /\ v \in World /\ Harmless(w, v) /\ StartsNone(w, v)
               /\ v.task = w.task /\ v.driver = w.driver /\ v.granted = w.granted
               /\ w.bar.state # "ARMED" => v = w
               /\ w.bar.state = "ARMED" => v.bar.state \in {"ARMED", "BROKEN"}
<1> DEFINE dead == {t \in w.bar.member : ~Bar!Alive(w, t)}
           live == w.bar.member \ dead
           b == [w.bar EXCEPT !.member = live]
           e == Bar!Ended(w.bar, "BROKEN")
           c == [e EXCEPT !.member = live]
<1>1. w.bar \in BarrierRow /\ live \subseteq Task
      BY WorldParts, BarrierWith
<1>2. /\ b \in BarrierRow /\ b.state = w.bar.state
      <2> HIDE DEF live
      <2> QED BY <1>1, BarrierWith
<1>3. c \in BarrierRow /\ c.state = "BROKEN"
      <2>1. e \in BarrierRow /\ e.state = "BROKEN"
            BY <1>1, EndedIs DEF BarrierStates
      <2> HIDE DEF e, live
      <2>2. \A x \in SUBSET Task :
               [e EXCEPT !.member = x] \in BarrierRow /\ [e EXCEPT !.member = x].state = e.state
            BY <2>1, BarrierWith
      <2> QED BY <1>1, <2>1, <2>2
<1>4. CASE w.bar.state # "ARMED"
      <2>1. Bar!Evaluated(w) = w
            BY <1>4 DEF Bar!Evaluated
      <2>2. Harmless(w, w) /\ StartsNone(w, w)
            BY DEF Harmless, StartsNone, Consistent
      <2> QED BY <1>4, <2>1, <2>2
<1>5. CASE w.bar.state = "ARMED"
      <2>1. \/ Bar!Evaluated(w) = Bar!BrokenUp(w)
            \/ Bar!Evaluated(w) = [Bar!BrokenUp(w) EXCEPT !.bar.member = live]
            \/ Bar!Evaluated(w) = [w EXCEPT !.bar = b]
            BY <1>5 DEF Bar!Evaluated
      <2>2. CASE Bar!Evaluated(w) = Bar!BrokenUp(w)
            BY <1>5, <2>2, BrokenUpHarmless
      <2>3. CASE Bar!Evaluated(w) = [Bar!BrokenUp(w) EXCEPT !.bar.member = live]
            <3>1. Bar!BrokenUp(w) = [w EXCEPT !.bar = e]
                  BY <1>5 DEF Bar!BrokenUp
            <3>2. [[w EXCEPT !.bar = e] EXCEPT !.bar.member = live] = [w EXCEPT !.bar = c]
                  <4> HIDE DEF e, live
                  <4> QED BY DEF World, Bar!World
            <3>3. Bar!Evaluated(w) = [w EXCEPT !.bar = c]
                  BY <2>3, <3>1, <3>2
            <3> HIDE DEF c
            <3> QED BY <1>3, <1>5, <3>3, BarHarmless
      <2>4. CASE Bar!Evaluated(w) = [w EXCEPT !.bar = b]
            <3> HIDE DEF b
            <3> QED BY <1>2, <1>5, <2>4, BarHarmless
      <2> QED BY <2>1, <2>2, <2>3, <2>4
<1> QED BY <1>4, <1>5

\* Changes of that kind follow one another.
LEMMA HarmlessTransitive ==
    ASSUME NEW w \in World, NEW v \in World, NEW u \in World, Consistent(w),
           Harmless(w, v), Harmless(v, u)
    PROVE  Harmless(w, u) /\ (StartsNone(w, v) /\ StartsNone(v, u) => StartsNone(w, u))
<1>1. w.driver.plan \subseteq Task /\ v.driver.plan \subseteq Task /\ v.bar.member \subseteq Task
      BY WorldParts, BarrierWith, DriverWith
<1>2. \A t \in Task : Bar!Merged(w, t) => Bar!Merged(u, t)
      BY DEF Harmless
<1>3. u.driver.kind = "trip" =>
          /\ w.driver.kind = "trip" /\ u.driver.generation = w.driver.generation
          /\ \A t \in w.driver.plan : t \in u.driver.plan \/ Bar!Merged(u, t)
      BY <1>1 DEF Harmless
<1>4. \/ u.bar = w.bar
      \/ u.bar.state \in {"none", "ARMED", "BROKEN"}
      \/ u.bar.state \in {"TRIPPED", "CONSUMED"} /\ Bar!AllMerged(u)
      BY <1>1 DEF Harmless, Bar!AllMerged
<1> QED BY <1>2, <1>3, <1>4 DEF Harmless, StartsNone

\* Between worlds that differ in the tasks alone.
LEMMA TaskHarmless ==
    ASSUME NEW w \in World, Consistent(w), NEW s \in Tasks,
           \A t \in Task : w.task[t].state = "MERGED" => s[t].state = "MERGED",
           \A t \in w.driver.merging : s[t].state = "CONNECTING",
           NEW v, v = [w EXCEPT !.task = s]
    PROVE  /\ v \in World /\ Harmless(w, v)
           /\ v.bar = w.bar /\ v.task = s /\ v.driver = w.driver /\ v.granted = w.granted
<1>1. /\ v \in World /\ v.task = s
      /\ v.bar = w.bar /\ v.driver = w.driver /\ v.granted = w.granted
      BY WorldWithTask
<1>2. Harmless(w, v)
      BY <1>1 DEF Harmless, Consistent, Bar!Merged
<1> QED BY <1>1, <1>2

\* Leases that run out are taken from tasks of whatever state,
LEMMA ExpiredHarmless ==
    ASSUME NEW w \in World, Consistent(w)
    PROVE  LET v == Bar!Expired(w)
           IN  /\ v \in World /\ Harmless(w, v) /\ StartsNone(w, v)
               /\ v.bar = w.bar /\ v.driver = w.driver
<1> DEFINE s == [t \in Task |->
                   IF w.task[t].due /\ w.task[t].state # "CONNECTING"
                   THEN [w.task[t] EXCEPT !.fence = 0, !.due = FALSE] ELSE w.task[t]]
<1>1. w.task \in Tasks /\ w.driver.merging \subseteq Task
      BY WorldParts, DriverWith
<1>2. \A t \in Task : s[t] \in TaskRow /\ s[t].state = w.task[t].state
      BY <1>1, TaskWith DEF Tasks
<1>3. s \in Tasks
      BY <1>2 DEF Tasks
<1>4. Bar!Expired(w) = [w EXCEPT !.task = s]
      BY DEF Bar!Expired
<1>5. \A t \in w.driver.merging : s[t].state = "CONNECTING"
      BY <1>1, <1>2 DEF Consistent
<1> HIDE DEF s
<1>6. /\ Bar!Expired(w) \in World /\ Harmless(w, Bar!Expired(w))
      /\ Bar!Expired(w).bar = w.bar /\ Bar!Expired(w).driver = w.driver
      /\ Bar!Expired(w).task = s
      BY <1>2, <1>3, <1>4, <1>5, TaskHarmless
<1> QED BY <1>2, <1>6 DEF StartsNone

\* and the sweep evaluates the barrier.
LEMMA SweptHarmless ==
    ASSUME NEW w \in World, Consistent(w)
    PROVE  LET v == Bar!Swept(w)
           IN  /\ v \in World /\ Consistent(v) /\ Harmless(w, v) /\ StartsNone(w, v)
               /\ v.driver = w.driver
<1> DEFINE u == Bar!Expired(w)
           v == Bar!Evaluated(u)
<1>1. u \in World /\ Harmless(w, u) /\ StartsNone(w, u) /\ u.driver = w.driver
      BY ExpiredHarmless
<1>2. Consistent(u)
      <2> HIDE DEF u
      <2> QED BY <1>1, HarmlessKeeps
<1>3. v \in World /\ Harmless(u, v) /\ StartsNone(u, v) /\ v.driver = u.driver
      <2> HIDE DEF u
      <2> QED BY <1>1, <1>2, EvaluatedHarmless
<1>4. Harmless(w, v) /\ StartsNone(w, v)
      <2> HIDE DEF u, v
      <2> QED BY <1>1, <1>3, HarmlessTransitive
<1>5. Consistent(v)
      <2> HIDE DEF u, v
      <2> QED BY <1>3, <1>4, HarmlessKeeps
<1>6. Bar!Swept(w) = v
      BY DEF Bar!Swept
<1> HIDE DEF v
<1> QED BY <1>1, <1>3, <1>4, <1>5, <1>6

\* Recovery, with nobody driving, carries tasks forward or takes them back,
LEMMA ResolvedHarmless ==
    ASSUME NEW w \in World, Consistent(w), w.driver.kind = "nobody",
           NEW forward \in SUBSET Bar!Connecting(w)
    PROVE  LET v == Bar!Resolved(w, forward)
           IN  /\ v \in World /\ Consistent(v) /\ Harmless(w, v) /\ StartsNone(w, v)
               /\ v.driver = w.driver
<1> DEFINE s == [t \in Task |->
                   IF t \notin Bar!Connecting(w) THEN w.task[t]
                   ELSE IF t \in forward
                   THEN [w.task[t] EXCEPT !.state = "MERGED", !.fence = 0, !.due = FALSE]
                   ELSE [w.task[t] EXCEPT !.state = "OPEN"]]
           v == Bar!Resolved(w, forward)
<1>1. w.task \in Tasks /\ w.driver.merging = {}
      BY WorldParts DEF Consistent
<1>2. \A t \in Task :
         /\ s[t] \in TaskRow
         /\ w.task[t].state = "MERGED" => s[t].state = "MERGED"
         /\ s[t].state # "CONNECTING"
      <2> SUFFICES ASSUME NEW t \in Task
                   PROVE  /\ s[t] \in TaskRow
                          /\ w.task[t].state = "MERGED" => s[t].state = "MERGED"
                          /\ s[t].state # "CONNECTING"
          OBVIOUS
      <2>1. w.task[t] \in TaskRow
            BY <1>1 DEF Tasks
      <2>2. CASE t \notin Bar!Connecting(w)
            BY <2>1, <2>2 DEF Bar!Connecting
      <2>3. CASE t \in Bar!Connecting(w)
            BY <2>1, <2>3, TaskWith DEF Bar!Connecting, TaskStates
      <2> QED BY <2>2, <2>3
<1>3. s \in Tasks
      BY <1>2 DEF Tasks
<1>4. v = [w EXCEPT !.task = s]
      BY DEF Bar!Resolved
<1>5. v \in World /\ Harmless(w, v) /\ v.task = s /\ v.driver = w.driver
      <2> HIDE DEF s, v
      <2> QED BY <1>1, <1>2, <1>3, <1>4, TaskHarmless
<1>6. Consistent(v) /\ StartsNone(w, v)
      <2> HIDE DEF s, v
      <2> QED BY <1>2, <1>5, HarmlessKeeps DEF StartsNone
<1> QED BY <1>5, <1>6

\* and decides a trip by its members.
LEMMA BarrierRecoveredHarmless ==
    ASSUME NEW w \in World, Consistent(w), NEW proven \in BOOLEAN
    PROVE  LET v == Bar!BarrierRecovered(w, proven)
           IN  /\ v \in World /\ Consistent(v) /\ Harmless(w, v) /\ StartsNone(w, v)
               /\ v.driver = w.driver
<1>1. Harmless(w, w) /\ StartsNone(w, w)
      BY DEF Harmless, StartsNone, Consistent
<1>2. CASE w.bar.state # "TRIPPING"
      BY <1>1, <1>2 DEF Bar!BarrierRecovered
<1>3. CASE w.bar.state = "TRIPPING" /\ ~Bar!AllMerged(w)
      <2>1. Bar!BarrierRecovered(w, proven) = Bar!BrokenUp(w)
            BY <1>3 DEF Bar!BarrierRecovered
      <2> QED BY <2>1, BrokenUpHarmless, HarmlessKeeps
<1>4. CASE w.bar.state = "TRIPPING" /\ Bar!AllMerged(w)
      <2>1. Bar!BarrierRecovered(w, proven) \in {Bar!Tripped(w), w}
            BY <1>4 DEF Bar!BarrierRecovered
      <2> QED BY <1>1, <1>4, <2>1, TrippedHarmless
<1> QED BY <1>2, <1>3, <1>4

\* Whatever Git answers, nothing comes to harm.
LEMMA RecoveriesHarmless ==
    ASSUME NEW w \in World, Consistent(w), w.driver.kind = "nobody",
           NEW answers \in BOOLEAN, NEW v \in Bar!Recoveries(w, answers)
    PROVE  /\ v \in World /\ Consistent(v) /\ Harmless(w, v) /\ StartsNone(w, v)
           /\ v.driver = w.driver
<1>1. \/ v = w
      \/ \E forward \in SUBSET Bar!Connecting(w) :
            v = Bar!BarrierRecovered(Bar!Resolved(w, forward), answers)
      BY DEF Bar!Recoveries
<1>2. CASE v = w
      BY <1>2 DEF Harmless, StartsNone, Consistent
<1>3. CASE \E forward \in SUBSET Bar!Connecting(w) :
              v = Bar!BarrierRecovered(Bar!Resolved(w, forward), answers)
      <2>1. PICK forward \in SUBSET Bar!Connecting(w) :
               v = Bar!BarrierRecovered(Bar!Resolved(w, forward), answers)
            BY <1>3
      <2> DEFINE u == Bar!Resolved(w, forward)
      <2>2. /\ u \in World /\ Consistent(u) /\ Harmless(w, u) /\ StartsNone(w, u)
            /\ u.driver = w.driver
            BY ResolvedHarmless
      <2>3. v = Bar!BarrierRecovered(u, answers)
            BY <2>1
      <2> HIDE DEF u
      <2>4. /\ v \in World /\ Consistent(v) /\ Harmless(u, v) /\ StartsNone(u, v)
            /\ v.driver = u.driver
            BY <2>2, <2>3, BarrierRecoveredHarmless
      <2> QED BY <2>2, <2>4, HarmlessTransitive
<1> QED BY <1>1, <1>2, <1>3

\* A new generation finds no trip on.
LEMMA DeclaredHarmless ==
    ASSUME NEW w \in World, Consistent(w), NEW members \in SUBSET Task,
           NEW policy \in {"break", "shrink"}, NEW timed \in BOOLEAN,
           w.bar.generation < MaxGeneration \/ w.bar.state = "none"
    PROVE  LET v == Bar!Declared(w, members, policy, timed)
           IN  v \in World /\ Consistent(v) /\ StartsNone(w, v)
<1> DEFINE b == [state |-> "ARMED", policy |-> policy, timed |-> timed, late |-> FALSE,
                 generation |-> IF w.bar.state = "none" THEN 0 ELSE w.bar.generation + 1,
                 member |-> members, arrived |-> [t \in Task |-> 0]]
           v == Bar!Declared(w, members, policy, timed)
<1>1. CASE w.bar.state \in {"ARMED", "TRIPPING"}
      BY <1>1 DEF Bar!Declared, StartsNone
<1>2. CASE ~(w.bar.state \in {"ARMED", "TRIPPING"})
      <2>1. w.bar.generation \in 0 .. MaxGeneration /\ MaxGeneration \in Nat /\ MaxFence \in Nat
            BY WorldParts, BarrierWith, PrimitivesAssumption
      <2>2. (IF w.bar.state = "none" THEN 0 ELSE w.bar.generation + 1) \in 0 .. MaxGeneration
            BY <2>1
      <2>3. [t \in Task |-> 0] \in [Task -> 0 .. MaxFence]
            BY <2>1
      <2>4. b \in BarrierRow /\ b.state = "ARMED"
            BY <2>2, <2>3 DEF BarrierRow, Bar!BarrierRow
      <2>5. v = [w EXCEPT !.bar = b]
            BY <1>2 DEF Bar!Declared
      <2>6. v \in World /\ Harmless(w, v) /\ StartsNone(w, v)
            <3> HIDE DEF b, v
            <3> QED BY <2>4, <2>5, BarHarmless
      <2>7. Consistent(v)
            <3> HIDE DEF v
            <3> QED BY <2>6, HarmlessKeeps
      <2> QED BY <2>6, <2>7
<1> QED BY <1>1, <1>2

\* The arrival that completes the members begins a trip with a plan for all that are
\* not merged.
LEMMA ArrivalConsistent ==
    ASSUME NEW w \in World, Consistent(w), w.driver.kind = "nobody", NEW t \in Task
    PROVE  LET v == Bar!Arrival(w, t)
           IN  v \in World /\ Consistent(v) /\ StartsNone(w, v)
<1> DEFINE a == [w.bar.arrived EXCEPT ![t] = w.task[t].fence]
           b == [w.bar EXCEPT !.arrived = a]
           x == [w EXCEPT !.bar.arrived[t] = w.task[t].fence]
           u == Bar!Evaluated(x)
           full == /\ u.bar.state = "ARMED" /\ u.bar.member # {}
                   /\ \A m \in u.bar.member : Bar!Arrived(u, m)
           c == [u.bar EXCEPT !.state = "TRIPPING"]
           d == [kind |-> "trip", generation |-> u.bar.generation,
                 plan |-> {m \in u.bar.member : ~Bar!Merged(u, m)}, merging |-> {}]
           y == [u EXCEPT !.bar = c]
           z == [y EXCEPT !.driver = d]
           v == Bar!Arrival(w, t)
<1>1. CASE w.bar.state # "ARMED" \/ t \notin w.bar.member \/ w.task[t].fence = 0
      <2>1. v = w
            BY <1>1 DEF Bar!Arrival
      <2> QED BY <2>1 DEF StartsNone
<1>2. CASE ~(w.bar.state # "ARMED" \/ t \notin w.bar.member \/ w.task[t].fence = 0)
      <2>1. /\ w.bar \in BarrierRow /\ w.task[t].fence \in 0 .. MaxFence
            /\ w.bar.arrived \in [Task -> 0 .. MaxFence]
            <3>1. w.task[t] \in TaskRow
                  BY WorldParts DEF Tasks
            <3> QED BY <3>1, WorldParts, TaskWith, BarrierWith
      <2>2. a \in [Task -> 0 .. MaxFence]
            BY <2>1
      <2>3. b \in BarrierRow /\ b.state = "ARMED"
            <3> HIDE DEF a
            <3>1. b \in BarrierRow /\ b.state = w.bar.state
                  BY <2>1, <2>2, BarrierWith
            <3> QED BY <1>2, <3>1
      <2>4. x = [w EXCEPT !.bar = b]
            OBVIOUS
      <2>5. /\ x \in World /\ Harmless(w, x) /\ StartsNone(w, x)
            /\ x.driver = w.driver /\ x.bar = b
            <3> HIDE DEF b, x
            <3> QED BY <2>3, <2>4, BarHarmless
      <2>6. Consistent(x)
            <3> HIDE DEF x
            <3> QED BY <2>5, HarmlessKeeps
      <2>7. /\ u \in World /\ Harmless(x, u) /\ StartsNone(x, u)
            /\ u.driver = x.driver
            <3> HIDE DEF x
            <3> QED BY <2>5, <2>6, EvaluatedHarmless
      <2>8. Consistent(u) /\ StartsNone(w, u)
            <3> HIDE DEF u, x
            <3> QED BY <2>5, <2>6, <2>7, HarmlessKeeps, HarmlessTransitive
      <2>9. CASE full
            <3>1. v = [u EXCEPT !.bar.state = "TRIPPING", !.driver = d]
                  BY <1>2, <2>9 DEF Bar!Arrival
            <3>2. [u EXCEPT !.bar.state = "TRIPPING", !.driver = d] = z
                  <4> HIDE DEF u, d
                  <4> QED BY <2>7 DEF World, Bar!World
            <3>3. /\ u.bar \in BarrierRow /\ u.bar.generation \in 0 .. MaxGeneration
                  /\ u.bar.member \subseteq Task
                  <4> HIDE DEF u
                  <4> QED BY <2>7, WorldParts, BarrierWith
            <3>4. /\ c \in BarrierRow /\ c.state = "TRIPPING" /\ c.member = u.bar.member
                  /\ c.arrived = u.bar.arrived /\ c.generation = u.bar.generation
                  <4> HIDE DEF u
                  <4> QED BY <3>3, BarrierWith DEF BarrierStates
            <3>5. d \in DriverRow
                  <4> HIDE DEF u
                  <4> QED BY <3>3 DEF DriverRow, Bar!DriverRow
            <3>6. y \in World /\ y.bar = c /\ y.task = u.task /\ y.driver = u.driver
                  <4> HIDE DEF u, c
                  <4> QED BY <2>7, <3>4, WorldWithBar
            <3>7. z \in World /\ z.bar = c /\ z.task = u.task /\ z.driver = d
                  <4> HIDE DEF u, c, y, d
                  <4> QED BY <3>5, <3>6, WorldWithDriver
            <3>8. /\ d.kind = "trip" /\ d.merging = {}
                  /\ d.plan = {m \in u.bar.member : ~Bar!Merged(u, m)}
                  OBVIOUS
            <3>9. Consistent(z)
                  <4> HIDE DEF u, c, y, d, z
                  <4> QED BY <2>9, <3>4, <3>7, <3>8
                          DEF Consistent, Bar!Arrived, Bar!Merged, full
            <3>10. StartsNone(w, z)
                  <4> HIDE DEF u, c, y, d, z
                  <4> QED BY <2>8, <3>7 DEF StartsNone
            <3> HIDE DEF u, c, y, d, z
            <3> QED BY <3>1, <3>2, <3>7, <3>9, <3>10
      <2>10. CASE ~full
            <3>1. v = u
                  BY <1>2, <2>10 DEF Bar!Arrival
            <3> QED BY <2>7, <2>8, <3>1
      <2> QED BY <2>9, <2>10
<1> QED BY <1>1, <1>2

\* A driver may leave at any time,
LEMMA LeavesHarmless ==
    ASSUME NEW w \in World, Consistent(w)
    PROVE  LET v == Bar!Leaves(w)
           IN  v \in World /\ Consistent(v) /\ Harmless(w, v) /\ StartsNone(w, v)
<1> DEFINE v == Bar!Leaves(w)
<1>1. v = [w EXCEPT !.driver = Bar!NoDriver]
      BY DEF Bar!Leaves
<1>2. /\ v \in World /\ v.driver = Bar!NoDriver
      /\ v.bar = w.bar /\ v.task = w.task
      <2> HIDE DEF v
      <2> QED BY <1>1, NoDriverFields, WorldWithDriver
<1>3. Harmless(w, v) /\ StartsNone(w, v)
      <2> HIDE DEF v
      <2> QED BY <1>2, NoDriverFields DEF Harmless, StartsNone, Bar!Merged
<1>4. Consistent(v)
      <2> HIDE DEF v
      <2> QED BY <1>2, <1>3, HarmlessKeeps
<1> QED BY <1>2, <1>3, <1>4

\* and the barrier may break before it does.
LEMMA BreaksAndLeaves ==
    ASSUME NEW w \in World, Consistent(w)
    PROVE  LET v == Bar!Leaves(Bar!BrokenUp(w))
           IN  v \in World /\ Consistent(v) /\ Harmless(w, v) /\ StartsNone(w, v)
<1> DEFINE u == Bar!BrokenUp(w)
           v == Bar!Leaves(u)
<1>1. u \in World /\ Harmless(w, u) /\ StartsNone(w, u)
      BY BrokenUpHarmless
<1> HIDE DEF u
<1>2. Consistent(u)
      BY <1>1, HarmlessKeeps
<1>3. v \in World /\ Consistent(v) /\ Harmless(u, v) /\ StartsNone(u, v)
      BY <1>1, <1>2, LeavesHarmless
<1> HIDE DEF v
<1>4. Harmless(w, v) /\ StartsNone(w, v)
      BY <1>1, <1>3, HarmlessTransitive
<1> QED BY <1>3, <1>4 DEF v, u

\* So a trip may fail,
LEMMA TripFailedHarmless ==
    ASSUME NEW w \in World, Consistent(w)
    PROVE  LET v == Bar!TripFailed(w)
           IN  v \in World /\ Consistent(v) /\ Harmless(w, v) /\ StartsNone(w, v)
<1>1. \/ Bar!TripFailed(w) = Bar!Leaves(Bar!BrokenUp(w))
      \/ Bar!TripFailed(w) = Bar!Leaves(w)
      BY DEF Bar!TripFailed
<1> QED BY <1>1, BreaksAndLeaves, LeavesHarmless

\* and a barrier whose members are merged trips as its driver leaves.
LEMMA TripsAndLeaves ==
    ASSUME NEW w \in World, Consistent(w), Bar!AllMerged(w)
    PROVE  LET v == Bar!Leaves(Bar!Tripped(w))
           IN  v \in World /\ Consistent(v) /\ Harmless(w, v) /\ StartsNone(w, v)
<1> DEFINE u == Bar!Tripped(w)
           v == Bar!Leaves(u)
<1>1. u \in World /\ Consistent(u) /\ Harmless(w, u) /\ StartsNone(w, u)
      BY TrippedHarmless
<1> HIDE DEF u
<1>2. v \in World /\ Consistent(v) /\ Harmless(u, v) /\ StartsNone(u, v)
      BY <1>1, LeavesHarmless
<1> HIDE DEF v
<1>3. Harmless(w, v) /\ StartsNone(w, v)
      BY <1>1, <1>2, HarmlessTransitive
<1> QED BY <1>2, <1>3 DEF v, u

\* A trip with nothing left to plan has merged every member, so it may end,
LEMMA TripEndsHarmless ==
    ASSUME NEW w \in World, Consistent(w), w.driver.kind = "trip", w.driver.plan = {}
    PROVE  LET v == Bar!TripEnds(w)
           IN  v \in World /\ Consistent(v) /\ StartsNone(w, v)
<1>1. CASE Bar!OwnsTrip(w)
      <2>1. Bar!AllMerged(w)
            BY <1>1 DEF Consistent, Bar!AllMerged, Bar!OwnsTrip
      <2>2. Bar!TripEnds(w) = Bar!Leaves(Bar!Tripped(w))
            BY <1>1 DEF Bar!TripEnds
      <2> QED BY <2>1, <2>2, TripsAndLeaves
<1>2. CASE ~Bar!OwnsTrip(w)
      BY <1>2, LeavesHarmless DEF Bar!TripEnds
<1> QED BY <1>1, <1>2

\* or end in an exception.
LEMMA TripRaisesHarmless ==
    ASSUME NEW w \in World, Consistent(w)
    PROVE  LET v == Bar!TripRaises(w)
           IN  v \in World /\ Consistent(v) /\ StartsNone(w, v)
BY TripsAndLeaves, BreaksAndLeaves, LeavesHarmless DEF Bar!TripRaises

\* A task row that changes, in a world where nothing else does.
LEMMA OneTask ==
    ASSUME NEW w \in World, Consistent(w), NEW t \in Task, NEW r \in TaskRow,
           w.task[t].state = "MERGED" => r.state = "MERGED",
           t \in w.driver.merging => r.state = "CONNECTING",
           NEW v, v = [w EXCEPT !.task[t] = r]
    PROVE  /\ v \in World /\ Consistent(v) /\ Harmless(w, v)
           /\ v.bar = w.bar /\ v.driver = w.driver /\ v.granted = w.granted
           /\ v.task = [w.task EXCEPT ![t] = r]
           /\ (r.state = "CONNECTING" => w.task[t].state = "CONNECTING") => StartsNone(w, v)
<1> DEFINE s == [w.task EXCEPT ![t] = r]
<1>1. w.task \in Tasks /\ w.driver.merging \subseteq Task
      BY WorldParts, DriverWith
<1>2. s \in Tasks /\ s[t] = r /\ \A u \in Task \ {t} : s[u] = w.task[u]
      BY <1>1 DEF Tasks
<1>3. v = [w EXCEPT !.task = s]
      OBVIOUS
<1> HIDE DEF s
<1>4. /\ \A u \in Task : w.task[u].state = "MERGED" => s[u].state = "MERGED"
      /\ \A u \in w.driver.merging : s[u].state = "CONNECTING"
      BY <1>1, <1>2 DEF Consistent
<1>5. /\ v \in World /\ Harmless(w, v)
      /\ v.bar = w.bar /\ v.task = s /\ v.driver = w.driver /\ v.granted = w.granted
      BY ONLY <1>2, <1>3, <1>4, TaskHarmless, w \in World, Consistent(w)
<1>6. Consistent(v)
      BY <1>5, HarmlessKeeps
<1>7. (r.state = "CONNECTING" => w.task[t].state = "CONNECTING") => StartsNone(w, v)
      BY <1>2, <1>5 DEF StartsNone
<1> QED BY <1>5, <1>6, <1>7 DEF s

\* The start of a member is that of the trip's own, with the lease it arrived with.
LEMMA MemberStartsConsistent ==
    ASSUME NEW w \in World, Consistent(w), w.driver.kind = "trip", w.driver.merging = {},
           NEW t \in Task
    PROVE  LET v == Bar!MemberStarts(w, t)
           IN  /\ v \in World /\ Consistent(v)
               /\ \/ StartsNone(w, v)
                  \/ /\ \A u \in Task \ {t} : v.task[u].state = w.task[u].state
                     /\ Bar!OwnsTrip(w) /\ w.bar.arrived[t] = w.task[t].fence
<1> DEFINE v == Bar!MemberStarts(w, t)
           starts == /\ w.task[t].state = "OPEN" /\ w.task[t].fence # 0
                     /\ w.task[t].fence = w.bar.arrived[t] /\ Bar!TokenFree(w)
<1>1. w.driver \in DriverRow /\ w.driver.plan \subseteq Task /\ w.task[t] \in TaskRow
      <2>1. w.driver \in DriverRow /\ w.task[t] \in TaskRow
            BY WorldParts DEF Tasks
      <2> QED BY <2>1, DriverWith
<1>2. CASE ~Bar!OwnsTrip(w)
      BY <1>2, LeavesHarmless DEF Bar!MemberStarts
<1>3. CASE Bar!OwnsTrip(w) /\ Bar!Merged(w, t)
      <2> DEFINE d == [w.driver EXCEPT !.plan = w.driver.plan \ {t}]
      <2>1. v = [w EXCEPT !.driver = d]
            BY <1>3 DEF Bar!MemberStarts
      <2>2. /\ d \in DriverRow /\ d.kind = "trip" /\ d.generation = w.driver.generation
            /\ d.plan = w.driver.plan \ {t} /\ d.merging = {}
            BY <1>1 DEF DriverRow, Bar!DriverRow
      <2> HIDE DEF d, v
      <2>3. v \in World /\ v.driver = d /\ v.bar = w.bar /\ v.task = w.task
            BY <2>1, <2>2, WorldWithDriver
      <2>4. Harmless(w, v) /\ StartsNone(w, v)
            BY <1>3, <2>2, <2>3 DEF Harmless, StartsNone, Bar!Merged
      <2>5. Consistent(v)
            BY <2>3, <2>4, HarmlessKeeps
      <2> QED BY <2>3, <2>4, <2>5 DEF v
<1>4. CASE Bar!OwnsTrip(w) /\ ~Bar!Merged(w, t) /\ starts
      <2> DEFINE r == [w.task[t] EXCEPT !.state = "CONNECTING"]
                 u == [w EXCEPT !.task[t] = r]
                 d == [w.driver EXCEPT !.merging = {t}]
      <2>1. v = [w EXCEPT !.task[t].state = "CONNECTING", !.driver.merging = {t}]
            BY <1>4 DEF Bar!MemberStarts
      <2>2. v = [u EXCEPT !.driver = d]
            BY <2>1 DEF World, Bar!World
      <2>3. r \in TaskRow /\ r.state = "CONNECTING"
            BY <1>1, TaskWith DEF TaskStates
      <2>4. /\ d \in DriverRow /\ d.kind = "trip" /\ d.generation = w.driver.generation
            /\ d.plan = w.driver.plan /\ d.merging = {t}
            BY <1>1 DEF DriverRow, Bar!DriverRow
      <2>5. /\ u \in World /\ Consistent(u)
            /\ u.bar = w.bar /\ u.driver = w.driver /\ u.task = [w.task EXCEPT ![t] = r]
            <3>1. w.task[t].state = "MERGED" => r.state = "MERGED"
                  BY <1>4
            <3>2. u = [w EXCEPT !.task[t] = r]
                  OBVIOUS
            <3> HIDE DEF r, u
            <3>3. t \in w.driver.merging => r.state = "CONNECTING"
                  BY <2>3
            <3>4. u \in World /\ Consistent(u)
                  BY ONLY <2>3, <3>1, <3>2, <3>3, OneTask, w \in World, Consistent(w), t \in Task
            <3>5. u.bar = w.bar /\ u.driver = w.driver
                  BY ONLY <2>3, <3>1, <3>2, <3>3, OneTask, w \in World, Consistent(w), t \in Task
            <3>6. u.task = [w.task EXCEPT ![t] = r]
                  BY ONLY <2>3, <3>1, <3>2, <3>3, OneTask, w \in World, Consistent(w), t \in Task
            <3> QED BY ONLY <3>4, <3>5, <3>6
      <2>6. u.task[t] = r /\ \A m \in Task \ {t} : u.task[m] = w.task[m]
            <3> HIDE DEF r, u
            <3> QED BY <2>5, WorldParts DEF Tasks
      <2>7. v \in World /\ v.driver = d /\ v.bar = u.bar /\ v.task = u.task
            <3> HIDE DEF d, u, v
            <3> QED BY <2>2, <2>4, <2>5, WorldWithDriver
      <2>8. Harmless(u, v)
            <3> HIDE DEF d, u, v, r
            <3> QED BY <2>3, <2>4, <2>5, <2>6, <2>7 DEF Harmless, Bar!Merged
      <2>9. Consistent(v)
            <3> HIDE DEF u, v
            <3> QED BY <2>5, <2>7, <2>8, HarmlessKeeps
      <2>10. \A m \in Task \ {t} : v.task[m].state = w.task[m].state
            <3> HIDE DEF u, v
            <3> QED BY <2>6, <2>7
      <2> HIDE DEF v, u, d, r
      <2> QED BY <1>4, <2>7, <2>9, <2>10 DEF v
<1>5. CASE Bar!OwnsTrip(w) /\ ~Bar!Merged(w, t) /\ ~starts
      <2>1. v = Bar!TripFailed(w)
            BY <1>5 DEF Bar!MemberStarts
      <2> QED BY <2>1, TripFailedHarmless
<1> QED BY <1>2, <1>3, <1>4, <1>5

\* Its merge ends well
LEMMA MergeEndsConsistent ==
    ASSUME NEW w \in World, Consistent(w), NEW t \in Task, w.driver.merging = {t}
    PROVE  LET v == Bar!MergeEnds(w, t)
           IN  v \in World /\ Consistent(v) /\ StartsNone(w, v)
<1> DEFINE r == [w.task[t] EXCEPT !.state = "MERGED", !.fence = 0, !.due = FALSE]
           s == [w.task EXCEPT ![t] = r]
           d == [w.driver EXCEPT !.plan = w.driver.plan \ {t}, !.merging = {}]
           x == [w EXCEPT !.task = s]
           u == [x EXCEPT !.driver = d]
           v == Bar!MergeEnds(w, t)
<1>1. /\ w.driver \in DriverRow /\ w.driver.plan \subseteq Task
      /\ w.task[t] \in TaskRow /\ w.task \in Tasks
      <2>1. w.driver \in DriverRow /\ w.task[t] \in TaskRow /\ w.task \in Tasks
            BY WorldParts DEF Tasks
      <2> QED BY <2>1, DriverWith
<1>2. r \in TaskRow /\ r.state = "MERGED"
      BY <1>1, TaskWith DEF TaskStates
<1>3. s \in Tasks /\ s[t] = r /\ \A m \in Task \ {t} : s[m] = w.task[m]
      <2> HIDE DEF r
      <2> QED BY <1>1, <1>2 DEF Tasks
<1>4. /\ d \in DriverRow /\ d.kind = w.driver.kind /\ d.generation = w.driver.generation
      /\ d.plan = w.driver.plan \ {t} /\ d.merging = {}
      BY <1>1 DEF DriverRow, Bar!DriverRow
<1>5. x \in World /\ x.task = s /\ x.bar = w.bar /\ x.driver = w.driver
      <2> HIDE DEF s
      <2> QED BY <1>3, WorldWithTask
<1>6. u \in World /\ u.task = s /\ u.bar = w.bar /\ u.driver = d
      <2> HIDE DEF x, d
      <2> QED BY <1>4, <1>5, WorldWithDriver
<1>7. Harmless(w, u) /\ StartsNone(w, u)
      <2> HIDE DEF u, s, r, d
      <2> QED BY <1>2, <1>3, <1>4, <1>6 DEF Harmless, StartsNone, Bar!Merged
<1>8. Consistent(u)
      <2> HIDE DEF u
      <2> QED BY <1>6, <1>7, HarmlessKeeps
<1>9. v = IF w.driver.kind = "trip" THEN u ELSE Bar!Leaves(u)
      <2>1. [w EXCEPT !.task[t] = [@ EXCEPT !.state = "MERGED", !.fence = 0, !.due = FALSE],
                      !.driver.plan = @ \ {t}, !.driver.merging = {}] = u
            BY DEF World, DriverRow, Bar!World, Bar!DriverRow
      <2> QED BY <2>1 DEF Bar!MergeEnds
<1>10. CASE w.driver.kind = "trip"
      <2> HIDE DEF u, v
      <2>1. v = u
            BY <1>9, <1>10
      <2> QED BY <1>6, <1>7, <1>8, <2>1 DEF v
<1>11. CASE w.driver.kind # "trip"
      <2> HIDE DEF u, v
      <2>1. v = Bar!Leaves(u)
            BY <1>9, <1>11
      <2>2. v \in World /\ Consistent(v) /\ StartsNone(u, v)
            BY <1>6, <1>8, <2>1, LeavesHarmless
      <2>3. StartsNone(w, v)
            BY <1>7, <2>2 DEF StartsNone
      <2> QED BY <2>2, <2>3 DEF v
<1> QED BY <1>10, <1>11

\* or not.
LEMMA MergeFailsConsistent ==
    ASSUME NEW w \in World, Consistent(w), NEW t \in Task, w.driver.merging = {t}
    PROVE  LET v == Bar!MergeFails(w, t)
           IN  v \in World /\ Consistent(v) /\ StartsNone(w, v)
<1> DEFINE x == Bar!Leaves(w)
           r == [w.task[t] EXCEPT !.state = "OPEN"]
           u == [x EXCEPT !.task[t] = r]
           v == Bar!MergeFails(w, t)
<1>1. w.task[t] \in TaskRow /\ w.task[t].state = "CONNECTING"
      BY WorldParts DEF Tasks, Consistent
<1>2. r \in TaskRow /\ r.state = "OPEN"
      BY <1>1, TaskWith DEF TaskStates
<1>3. /\ x \in World /\ Consistent(x) /\ StartsNone(w, x)
      /\ x.task = w.task /\ x.driver = Bar!NoDriver
      BY LeavesHarmless DEF Bar!Leaves, World, Bar!World
<1>4. /\ u \in World /\ Consistent(u) /\ StartsNone(x, u)
      <2>1. u = [x EXCEPT !.task[t] = r] /\ x.driver.merging = {}
            BY <1>3, NoDriverFields
      <2>2. x.task[t].state = "CONNECTING"
            BY <1>1, <1>3
      <2> HIDE DEF x, r, u
      <2> QED BY ONLY <1>2, <1>3, <2>1, <2>2, OneTask, t \in Task
<1>5. \/ v = u
      \/ v = Bar!BrokenUp(u)
      <2> DEFINE y == [w EXCEPT !.task[t].state = "OPEN"]
      <2>1. u = Bar!Leaves(y)
            BY DEF Bar!Leaves, World, Bar!World
      <2>2. Bar!BrokenUp(u) = Bar!Leaves(Bar!BrokenUp(y))
            BY DEF Bar!Leaves, Bar!BrokenUp, World, Bar!World
      <2>3. \/ v = Bar!Leaves(y)
            \/ v = Bar!Leaves(Bar!BrokenUp(y))
            BY DEF Bar!MergeFails, Bar!TripFailed
      <2> HIDE DEF u, y, v
      <2> QED BY <2>1, <2>2, <2>3
<1> HIDE DEF x, u, v
<1>6. v \in World /\ Consistent(v) /\ StartsNone(u, v)
      <2>1. CASE v = u
            BY <1>4, <2>1 DEF StartsNone
      <2>2. CASE v = Bar!BrokenUp(u)
            BY <1>4, <2>2, BrokenUpHarmless, HarmlessKeeps
      <2> QED BY <1>5, <2>1, <2>2
<1>7. StartsNone(w, v)
      BY <1>3, <1>4, <1>6 DEF StartsNone
<1> QED BY <1>6, <1>7 DEF v

\* It may stop with neither proven, and the coordinator may die in it, in which case
\* the Git process goes on with what was being merged.
LEMMA MergeStopsHarmless ==
    ASSUME NEW w \in World, Consistent(w)
    PROVE  LET v == Bar!MergeStops(w)
           IN  v \in World /\ Consistent(v) /\ StartsNone(w, v)
BY TripFailedHarmless, LeavesHarmless DEF Bar!MergeStops

LEMMA DiedConsistent ==
    ASSUME NEW w \in World, Consistent(w), NEW v \in Bar!Died(w)
    PROVE  v \in World /\ Consistent(v) /\ StartsNone(w, v)
<1> DEFINE d == [Bar!NoDriver EXCEPT !.kind = "orphan", !.merging = w.driver.merging]
<1>1. CASE v = Bar!Leaves(w)
      BY <1>1, LeavesHarmless
<1>2. CASE v = [w EXCEPT !.driver = d]
      <2>1. w.driver \in DriverRow /\ w.driver.merging \subseteq Task
            BY WorldParts, DriverWith
      <2>2. d \in DriverRow /\ d.kind = "orphan" /\ d.merging = w.driver.merging
            BY <2>1, NoDriverFields DEF DriverRow, Bar!DriverRow, Bar!NoDriver
      <2> HIDE DEF d
      <2>3. v \in World /\ v.driver = d /\ v.bar = w.bar /\ v.task = w.task
            BY <1>2, <2>2, WorldWithDriver
      <2>4. Harmless(w, v) /\ StartsNone(w, v)
            BY <2>2, <2>3 DEF Harmless, StartsNone, Consistent, Bar!Merged
      <2> QED BY <2>3, <2>4, HarmlessKeeps
<1> QED BY <1>1, <1>2 DEF Bar!Died

\* A connect of one task starts when nobody drives.
LEMMA ConnectStartsConsistent ==
    ASSUME NEW w \in World, Consistent(w), w.driver.kind = "nobody", NEW t \in Task
    PROVE  LET v == Bar!ConnectStarts(w, t)
           IN  v \in World /\ Consistent(v)
<1> DEFINE r == [w.task[t] EXCEPT !.state = "CONNECTING"]
           u == [w EXCEPT !.task[t] = r]
           d == [Bar!NoDriver EXCEPT !.kind = "connect", !.merging = {t}]
           v == Bar!ConnectStarts(w, t)
<1>1. CASE w.task[t].state = "OPEN" /\ w.task[t].fence # 0 /\ Bar!TokenFree(w)
      <2>1. v = [u EXCEPT !.driver = d]
            BY <1>1 DEF Bar!ConnectStarts, World, Bar!World
      <2>2. w.task[t] \in TaskRow /\ w.driver.merging = {}
            BY WorldParts DEF Tasks, Consistent
      <2>3. r \in TaskRow /\ r.state = "CONNECTING"
            BY <2>2, TaskWith DEF TaskStates
      <2>4. d \in DriverRow /\ d.kind = "connect" /\ d.merging = {t}
            BY NoDriverFields DEF DriverRow, Bar!DriverRow, Bar!NoDriver
      <2>5. /\ u \in World /\ Consistent(u) /\ u.driver = w.driver
            /\ u.task = [w.task EXCEPT ![t] = r]
            <3>1. u = [w EXCEPT !.task[t] = r]
                  OBVIOUS
            <3>2. w.task[t].state = "MERGED" => r.state = "MERGED"
                  BY <1>1
            <3> HIDE DEF r, u
            <3>3. t \in w.driver.merging => r.state = "CONNECTING"
                  BY <2>3
            <3>4. u \in World /\ Consistent(u)
                  BY ONLY <2>3, <3>1, <3>2, <3>3, OneTask, w \in World, Consistent(w), t \in Task
            <3>5. u.driver = w.driver
                  BY ONLY <2>3, <3>1, <3>2, <3>3, OneTask, w \in World, Consistent(w), t \in Task
            <3>6. u.task = [w.task EXCEPT ![t] = r]
                  BY ONLY <2>3, <3>1, <3>2, <3>3, OneTask, w \in World, Consistent(w), t \in Task
            <3> QED BY ONLY <3>4, <3>5, <3>6
      <2>6. u.task[t] = r
            <3> HIDE DEF r, u
            <3> QED BY <2>5, WorldParts DEF Tasks
      <2> HIDE DEF u, d, v
      <2>7. v \in World /\ v.driver = d /\ v.bar = u.bar /\ v.task = u.task
            BY <2>1, <2>4, <2>5, WorldWithDriver
      <2>8. Harmless(u, v)
            <3> HIDE DEF r
            <3> QED BY <2>3, <2>4, <2>6, <2>7 DEF Harmless, Bar!Merged
      <2>9. Consistent(v)
            BY <2>5, <2>7, <2>8, HarmlessKeeps
      <2> QED BY <2>7, <2>9 DEF v
<1>2. CASE ~(w.task[t].state = "OPEN" /\ w.task[t].fence # 0 /\ Bar!TokenFree(w))
      BY <1>2 DEF Bar!ConnectStarts
<1> QED BY <1>1, <1>2

\* What tripped may be consumed, and a deadline may pass.
LEMMA BarrierOnly ==
    ASSUME NEW w \in World, Consistent(w)
    PROVE  /\ Bar!Consumed(w) \in World /\ Consistent(Bar!Consumed(w))
           /\ StartsNone(w, Bar!Consumed(w))
           /\ w.bar.state = "ARMED" =>
                 /\ Bar!LateBarrier(w) \in World /\ Consistent(Bar!LateBarrier(w))
                 /\ StartsNone(w, Bar!LateBarrier(w))
<1>1. CASE w.bar.state = "TRIPPED"
      <2> DEFINE b == [w.bar EXCEPT !.state = "CONSUMED"]
      <2>1. Bar!Consumed(w) = [w EXCEPT !.bar = b] /\ Bar!AllMerged(w)
            BY <1>1 DEF Bar!Consumed, Consistent
      <2>2. b \in BarrierRow /\ b.state = "CONSUMED" /\ b.member = w.bar.member
            BY WorldParts, BarrierWith DEF BarrierStates
      <2> HIDE DEF b
      <2> QED BY <1>1, <2>1, <2>2, DoneHarmless
<1>2. CASE w.bar.state # "TRIPPED"
      <2>1. Bar!Consumed(w) = w
            BY <1>2 DEF Bar!Consumed
      <2>2. ASSUME w.bar.state = "ARMED"
            PROVE  /\ Bar!LateBarrier(w) \in World /\ Consistent(Bar!LateBarrier(w))
                   /\ StartsNone(w, Bar!LateBarrier(w))
            <3> DEFINE b == [w.bar EXCEPT !.late = TRUE]
            <3>1. Bar!LateBarrier(w) = [w EXCEPT !.bar = b]
                  BY DEF Bar!LateBarrier
            <3>2. w.bar \in BarrierRow
                  BY WorldParts
            <3>3. b \in BarrierRow /\ b.state = "ARMED"
                  BY <2>2, <3>2, BarrierWith
            <3> HIDE DEF b
            <3> QED BY <3>1, <3>3, BarHarmless, HarmlessKeeps
      <2> QED BY <2>1, <2>2 DEF StartsNone
<1> QED BY <1>1, <1>2

\* A write lease may be granted to a task that is not being merged,
LEMMA GrantedConsistent ==
    ASSUME NEW w \in World, Consistent(w), NEW t \in Task, NEW a \in Agent,
           w.task[t].state \in {"PENDING", "OPEN"}, w.granted < MaxFence
    PROVE  LET v == Bar!Granted(w, t, a)
           IN  v \in World /\ Consistent(v) /\ StartsNone(w, v)
<1> DEFINE r == [state |-> "OPEN", owner |-> {a}, fence |-> w.granted + 1, due |-> FALSE]
           u == [w EXCEPT !.task[t] = r]
           v == Bar!Granted(w, t, a)
<1>1. w.granted \in 0 .. MaxFence /\ MaxFence \in Nat
      BY WorldParts, PrimitivesAssumption
<1>2. r \in TaskRow /\ r.state = "OPEN"
      BY <1>1 DEF TaskRow, Bar!TaskRow
<1>3. u = [w EXCEPT !.task[t] = r]
      OBVIOUS
<1>4. /\ w.task[t].state = "MERGED" => r.state = "MERGED"
      /\ t \in w.driver.merging => r.state = "CONNECTING"
      BY DEF Consistent
<1>5. v = [u EXCEPT !.granted = w.granted + 1]
      BY DEF Bar!Granted, World, Bar!World
<1> HIDE DEF r, u, v
<1>6. u \in World /\ Consistent(u) /\ u.granted = w.granted /\ StartsNone(w, u)
      <2>1. u \in World /\ Consistent(u)
            BY ONLY <1>2, <1>3, <1>4, OneTask, w \in World, Consistent(w), t \in Task
      <2>2. u.granted = w.granted
            BY ONLY <1>2, <1>3, <1>4, OneTask, w \in World, Consistent(w), t \in Task
      <2>3. StartsNone(w, u)
            BY ONLY <1>2, <1>3, <1>4, OneTask, w \in World, Consistent(w), t \in Task
      <2> QED BY <2>1, <2>2, <2>3
<1>7. /\ v \in World
      /\ v.task = u.task /\ v.bar = u.bar /\ v.driver = u.driver
      BY <1>1, <1>5, <1>6 DEF World, Bar!World
<1>8. Consistent(v) /\ StartsNone(u, v)
      BY <1>6, <1>7 DEF Consistent, StartsNone, Bar!OwnsTrip, Bar!AllMerged, Bar!Merged, Bar!Arrived
<1>9. StartsNone(w, v)
      BY <1>6, <1>8 DEF StartsNone
<1> QED BY <1>7, <1>8, <1>9 DEF v

\* be given back,
LEMMA ReleasedConsistent ==
    ASSUME NEW w \in World, Consistent(w), NEW t \in Task, w.task[t].state = "OPEN"
    PROVE  LET v == Bar!Released(w, t)
           IN  v \in World /\ Consistent(v) /\ StartsNone(w, v)
<1> DEFINE r == [w.task[t] EXCEPT !.fence = 0, !.due = FALSE]
           v == Bar!Released(w, t)
<1>1. w.task[t] \in TaskRow
      BY WorldParts DEF Tasks
<1>2. r \in TaskRow /\ r.state = w.task[t].state
      BY <1>1, TaskWith
<1>3. v = [w EXCEPT !.task[t] = r]
      BY WorldParts DEF Bar!Released, World, Tasks, Bar!World, TaskRow, Bar!TaskRow
<1>4. /\ w.task[t].state = "MERGED" => r.state = "MERGED"
      /\ t \in w.driver.merging => r.state = "CONNECTING"
      BY <1>2 DEF Consistent
<1> HIDE DEF r, v
<1>5. v \in World /\ Consistent(v) /\ StartsNone(w, v)
      BY ONLY <1>2, <1>3, <1>4, OneTask, w \in World, Consistent(w), t \in Task
<1> QED BY <1>5 DEF v

\* or run out.
LEMMA LapsedConsistent ==
    ASSUME NEW w \in World, Consistent(w), NEW t \in Task
    PROVE  LET v == Bar!LapsedLease(w, t)
           IN  v \in World /\ Consistent(v) /\ StartsNone(w, v)
<1> DEFINE r == [w.task[t] EXCEPT !.due = TRUE]
           v == Bar!LapsedLease(w, t)
<1>1. w.task[t] \in TaskRow
      BY WorldParts DEF Tasks
<1>2. r \in TaskRow /\ r.state = w.task[t].state
      BY <1>1, TaskWith
<1>3. v = [w EXCEPT !.task[t] = r]
      BY DEF Bar!LapsedLease
<1>4. /\ w.task[t].state = "MERGED" => r.state = "MERGED"
      /\ t \in w.driver.merging => r.state = "CONNECTING"
      BY <1>2 DEF Consistent
<1> HIDE DEF r, v
<1>5. v \in World /\ Consistent(v) /\ StartsNone(w, v)
      BY ONLY <1>2, <1>3, <1>4, OneTask, w \in World, Consistent(w), t \in Task
<1> QED BY <1>5 DEF v

\* The tasks of an agent that is reclaimed are requeued, poisoned or left to it.
LEMMA ForsakenConsistent ==
    ASSUME NEW w \in World, Consistent(w), NEW a \in Agent,
           \A t \in Bar!Connecting(w) : w.task[t].owner # {a},
           NEW fate \in [Bar!OwnedBy(w, a) -> {"PENDING", "POISONED", "OPEN"}]
    PROVE  LET v == Bar!Forsaken(w, a, fate)
           IN  v \in World /\ Consistent(v) /\ StartsNone(w, v)
<1> DEFINE s == [t \in Task |->
                   IF t \notin Bar!OwnedBy(w, a) \/ Bar!Merged(w, t) THEN w.task[t]
                   ELSE IF fate[t] = "OPEN" THEN [w.task[t] EXCEPT !.fence = 0, !.due = FALSE]
                   ELSE [Bar!Requeued EXCEPT !.state = fate[t]]]
           u == [w EXCEPT !.task = s]
           v == Bar!Forsaken(w, a, fate)
<1>1. w.task \in Tasks /\ w.driver.merging \subseteq Task
      BY WorldParts, DriverWith
<1>2. \A t \in Task :
         /\ s[t] \in TaskRow
         /\ w.task[t].state = "MERGED" => s[t].state = "MERGED"
         /\ s[t].state = "CONNECTING" <=> w.task[t].state = "CONNECTING"
      <2> SUFFICES ASSUME NEW t \in Task
                   PROVE  /\ s[t] \in TaskRow
                          /\ w.task[t].state = "MERGED" => s[t].state = "MERGED"
                          /\ s[t].state = "CONNECTING" <=> w.task[t].state = "CONNECTING"
          OBVIOUS
      <2>1. w.task[t] \in TaskRow
            BY <1>1 DEF Tasks
      <2>2. CASE t \notin Bar!OwnedBy(w, a) \/ Bar!Merged(w, t)
            BY <2>1, <2>2
      <2>3. CASE t \in Bar!OwnedBy(w, a) /\ ~Bar!Merged(w, t)
            <3>1. w.task[t].state # "MERGED" /\ w.task[t].state # "CONNECTING"
                  BY <2>3 DEF Bar!OwnedBy, Bar!Connecting, Bar!Merged
            <3>2. CASE fate[t] = "OPEN"
                  <4>1. s[t] = [w.task[t] EXCEPT !.fence = 0, !.due = FALSE]
                        BY <2>3, <3>2
                  <4> QED BY <2>1, <3>1, <4>1, TaskWith
            <3>3. CASE fate[t] # "OPEN"
                  <4>1. s[t] = [Bar!Requeued EXCEPT !.state = fate[t]]
                        BY <2>3, <3>3
                  <4>2. fate[t] \in {"PENDING", "POISONED"}
                        BY <2>3, <3>3
                  <4>3. Bar!Requeued \in TaskRow
                        BY PrimitivesAssumption DEF Bar!Requeued, TaskRow, Bar!TaskRow
                  <4>4. ASSUME NEW q \in TaskRow, NEW x \in {"PENDING", "POISONED"}
                        PROVE  LET c == [q EXCEPT !.state = x]
                               IN  c \in TaskRow /\ c.state = x
                        BY TaskWith DEF TaskStates
                  <4> HIDE DEF s
                  <4>5. s[t] \in TaskRow /\ s[t].state = fate[t]
                        BY <4>1, <4>2, <4>3, <4>4
                  <4> QED BY <3>1, <4>2, <4>5
            <3> QED BY <3>2, <3>3
      <2> QED BY <2>2, <2>3
<1>3. s \in Tasks
      BY <1>2 DEF Tasks
<1>4. \A t \in w.driver.merging : s[t].state = "CONNECTING"
      BY <1>1, <1>2 DEF Consistent
<1>5. u \in World /\ Harmless(w, u) /\ u.task = s
      <2> HIDE DEF s
      <2> QED BY <1>2, <1>3, <1>4, TaskHarmless
<1>6. Consistent(u) /\ StartsNone(w, u)
      <2> HIDE DEF s, u
      <2> QED BY <1>2, <1>5, HarmlessKeeps DEF StartsNone
<1>7. v = u \/ v = Bar!Evaluated(u)
      BY DEF Bar!Forsaken
<1> HIDE DEF u, v
<1>8. CASE v = u
      BY <1>5, <1>6, <1>8 DEF v
<1>9. CASE v = Bar!Evaluated(u)
      <2>1. v \in World /\ Harmless(u, v) /\ StartsNone(u, v)
            BY <1>5, <1>6, <1>9, EvaluatedHarmless
      <2>2. Consistent(v) /\ StartsNone(w, v)
            BY <1>5, <1>6, <2>1, HarmlessKeeps DEF StartsNone
      <2> QED BY <2>1, <2>2 DEF v
<1> QED BY <1>7, <1>8, <1>9

-----------------------------------------------------------------------------
\* The barrier through the steps of Primitives

\* The invariant: a consistent world.
BarrierInv == world \in World /\ Consistent(world)

\* The coordinator crashes no more often than it may.
LifeInv == life \in [up : BOOLEAN, crashes : 0 .. MaxCrashes]

\* What TripIsOwned asks of one step.
TripStep ==
    \A t \in Task :
        world.task[t].state = "OPEN" /\ world.task'[t].state = "CONNECTING"
        /\ world.driver.kind = "trip"
        => /\ world.bar.state = "TRIPPING" /\ world.bar.generation = world.driver.generation
           /\ \A u \in world.bar.member : Bar!Arrived(world, u)
           /\ world.bar.arrived[t] = world.task[t].fence

\* A step that starts no merge starts none out of turn, nor does one without a trip.
LEMMA Uneventful ==
    ASSUME StartsNone(world, world') \/ world.driver.kind # "trip"
    PROVE  TripStep
BY DEF StartsNone, TripStep

\* A step that leaves the world, or sweeps it, is such a step.
LEMMA OthersStep ==
    ASSUME BarrierInv, UNCHANGED world \/ world' = Bar!Swept(world)
    PROVE  BarrierInv' /\ TripStep
<1>1. CASE UNCHANGED world
      BY <1>1 DEF BarrierInv, TripStep
<1>2. CASE world' = Bar!Swept(world)
      <2>1. world' \in World /\ Consistent(world') /\ StartsNone(world, world')
            BY <1>2, SweptHarmless DEF BarrierInv
      <2> QED BY <2>1, Uneventful DEF BarrierInv
<1> QED BY <1>1, <1>2

\* At first every task is its owner's or nobody's, and there is no barrier.
LEMMA InitBarrier ==
    ASSUME Init
    PROVE  BarrierInv
<1> DEFINE n(t) == Cardinality({u \in Task : u <= t})
           s == [t \in Task |-> IF focus = "barrier" THEN Bar!NewTask({Owner[t]}, n(t))
                                ELSE Bar!Requeued]
<1>1. IsFiniteSet(Task) /\ MaxFence \in Nat /\ MaxGeneration \in Nat
      BY PrimitivesAssumption
<1>2. Cardinality(Task) \in 0 .. MaxFence
      BY <1>1, FS_CardinalityType, PrimitivesAssumption
<1>3. ASSUME NEW t \in Task PROVE n(t) \in 0 .. MaxFence
      <2>1. {u \in Task : u <= t} \in SUBSET Task
            OBVIOUS
      <2>2. /\ IsFiniteSet({u \in Task : u <= t})
            /\ Cardinality({u \in Task : u <= t}) <= Cardinality(Task)
            BY <1>1, <2>1, FS_Subset
      <2>3. Cardinality({u \in Task : u <= t}) \in Nat
            BY <2>2, FS_CardinalityType
      <2> QED BY <1>1, <1>2, <2>2, <2>3
<1>4. s \in Tasks /\ \A t \in Task : s[t].state # "CONNECTING"
      <2> SUFFICES ASSUME NEW t \in Task
                   PROVE  s[t] \in TaskRow /\ s[t].state # "CONNECTING"
          BY DEF Tasks
      <2>1. Owner[t] \in Agent
            BY PrimitivesAssumption
      <2>2. n(t) \in 0 .. MaxFence
            BY <1>3
      <2> HIDE DEF n
      <2> QED BY <1>1, <2>1, <2>2 DEF Bar!NewTask, Bar!Requeued, TaskRow, Bar!TaskRow
<1>5. /\ Bar!NewBarrier \in BarrierRow /\ Bar!NewBarrier.state = "none"
      BY <1>1 DEF Bar!NewBarrier, BarrierRow, Bar!BarrierRow
<1>6. world = [task |-> s, granted |-> Cardinality(Task), bar |-> Bar!NewBarrier,
               driver |-> Bar!NoDriver, wedged |-> FALSE]
      BY DEF Init
<1> HIDE DEF s
<1>7. world \in World
      BY <1>2, <1>4, <1>5, <1>6, NoDriverFields
         DEF World, Tasks, TaskRow, BarrierRow, DriverRow, Bar!World
<1>8. Consistent(world)
      BY <1>5, <1>6, NoDriverFields DEF Consistent
<1> QED BY <1>7, <1>8 DEF BarrierInv

\* The coordinator starts up, and has not crashed.
LEMMA InitLife ==
    ASSUME Init
    PROVE  LifeInv
<1>1. MaxCrashes \in Nat
      BY PrimitivesAssumption
<1>2. life = [up |-> TRUE, crashes |-> 0]
      BY DEF Init
<1> QED BY <1>1, <1>2 DEF LifeInv

\* Arriving and connecting begin with recovery and a sweep, and so does the
\* periodic sweep, where it does not sweep alone.
LEMMA RecoveredAndSwept ==
    ASSUME NEW w \in World, Consistent(w), w.driver.kind = "nobody",
           NEW answers \in BOOLEAN, NEW u \in Bar!Recoveries(w, answers)
    PROVE  LET v == Bar!Swept(u)
           IN  /\ v \in World /\ Consistent(v) /\ StartsNone(w, v)
               /\ v.driver.kind = "nobody"
<1>1. /\ u \in World /\ Consistent(u) /\ StartsNone(w, u)
      /\ u.driver = w.driver
      BY RecoveriesHarmless
<1>2. LET v == Bar!Swept(u)
      IN  v \in World /\ Consistent(v) /\ StartsNone(u, v) /\ v.driver = u.driver
      BY <1>1, SweptHarmless
<1> QED BY <1>1, <1>2 DEF StartsNone

\* The steps of the barrier's clients,
LEMMA ClientStep ==
    ASSUME BarrierInv, NEW t \in Task, NEW a \in Tasked,
           Arrive(t, a) \/ Connect(t, a) \/ ClaimWrite(t, a) \/ ReleaseWrite(t, a)
    PROVE  BarrierInv' /\ TripStep
<1> USE DEF BarrierInv
<1>1. a \in Agent
      BY PrimitivesAssumption DEF Tasked
<1>2. CASE Arrive(t, a) \/ Connect(t, a)
      <2> PICK answers \in BOOLEAN : \E r \in Bar!Recoveries(world, answers) :
               \/ world' = Bar!Arrival(Bar!Swept(r), t)
               \/ world' = Bar!ConnectStarts(Bar!Swept(r), t)
            BY <1>2 DEF Arrive, Connect
      <2>1. PICK r \in Bar!Recoveries(world, answers) :
               \/ world' = Bar!Arrival(Bar!Swept(r), t)
               \/ world' = Bar!ConnectStarts(Bar!Swept(r), t)
            OBVIOUS
      <2> DEFINE w == Bar!Swept(r)
      <2>2. world.driver.kind = "nobody"
            BY <1>2 DEF Arrive, Connect, LockFree
      <2>3. w \in World /\ Consistent(w) /\ w.driver.kind = "nobody"
            BY <2>2, RecoveredAndSwept
      <2>4. world' = Bar!Arrival(w, t) \/ world' = Bar!ConnectStarts(w, t)
            BY <2>1
      <2> HIDE DEF w
      <2>5. world' \in World /\ Consistent(world')
            BY <2>3, <2>4, ArrivalConsistent, ConnectStartsConsistent
      <2> QED BY <2>2, <2>5, Uneventful
<1>3. CASE ClaimWrite(t, a)
      <2>1. /\ world.task[t].state \in {"PENDING", "OPEN"} /\ world.granted < MaxFence
            /\ world' = Bar!Granted(world, t, a)
            BY <1>3 DEF ClaimWrite
      <2> QED BY <1>1, <2>1, GrantedConsistent, Uneventful
<1>4. CASE ReleaseWrite(t, a)
      <2>1. world.task[t].state = "OPEN" /\ world' = Bar!Released(world, t)
            BY <1>4 DEF ReleaseWrite
      <2> QED BY <2>1, ReleasedConsistent, Uneventful
<1> QED BY <1>2, <1>3, <1>4

\* the steps of the trip,
LEMMA DriverStep ==
    ASSUME BarrierInv,
           StartMember \/ EndTrip \/ Raise \/ \E t \in Task : EndMerge(t)
    PROVE  BarrierInv' /\ TripStep
<1> USE DEF BarrierInv
<1>1. CASE StartMember
      <2>1. PICK t \in Task :
               world' = Bar!MemberStarts(world, t) \/ world' = Bar!TripFailed(world)
            BY <1>1 DEF StartMember
      <2>2. world.driver.kind = "trip" /\ world.driver.merging = {}
            BY <1>1 DEF StartMember
      <2>3. CASE world' = Bar!MemberStarts(world, t)
            <3>1. /\ world' \in World /\ Consistent(world')
                  /\ \/ StartsNone(world, world')
                     \/ /\ \A u \in Task \ {t} : world'.task[u].state = world.task[u].state
                        /\ Bar!OwnsTrip(world) /\ world.bar.arrived[t] = world.task[t].fence
                  BY <2>2, <2>3, MemberStartsConsistent
            <3>2. CASE StartsNone(world, world')
                  BY <3>1, <3>2, Uneventful
            <3>3. CASE /\ \A u \in Task \ {t} : world'.task[u].state = world.task[u].state
                       /\ Bar!OwnsTrip(world) /\ world.bar.arrived[t] = world.task[t].fence
                  BY <3>1, <3>3 DEF TripStep, Consistent, Bar!OwnsTrip
            <3> QED BY <3>1, <3>2, <3>3
      <2>4. CASE world' = Bar!TripFailed(world)
            BY <2>4, TripFailedHarmless, Uneventful
      <2> QED BY <2>1, <2>3, <2>4
<1>2. CASE EndTrip
      BY <1>2, TripEndsHarmless, Uneventful DEF EndTrip
<1>3. CASE Raise
      BY <1>3, TripRaisesHarmless, Uneventful DEF Raise
<1>4. CASE \E t \in Task : EndMerge(t)
      <2>1. PICK t \in Task : EndMerge(t)
            BY <1>4
      <2>2. /\ world.driver.merging = {t}
            /\ \/ world' = Bar!MergeEnds(world, t) \/ world' = Bar!MergeFails(world, t)
               \/ world' = Bar!MergeStops(world)
            BY <2>1 DEF EndMerge
      <2> QED BY <2>2, MergeEndsConsistent, MergeFailsConsistent, MergeStopsHarmless, Uneventful
<1> QED BY <1>1, <1>2, <1>3, <1>4

\* what else happens to the barrier and its tasks,
LEMMA BarrierStep ==
    ASSUME BarrierInv,
           \/ Abort \/ Consume \/ DeadlinePasses \/ Crash \/ OrphanEnds \/ Wedge \/ Repair
           \/ \E answers \in BOOLEAN : Restart(answers)
           \/ \E members \in SUBSET Task \ {{}}, policy \in {"break", "shrink"},
                 timed \in BOOLEAN : Declare(members, policy, timed)
           \/ \E t \in Task : LeaseLapses(t)
           \/ \E a \in Agent : Reclaim(a)
    PROVE  BarrierInv' /\ TripStep
<1> USE DEF BarrierInv
<1>1. CASE Abort
      BY <1>1, BrokenUpHarmless, HarmlessKeeps, Uneventful DEF Abort
<1>2. CASE Consume
      BY <1>2, BarrierOnly, Uneventful DEF Consume
<1>3. CASE DeadlinePasses
      BY <1>3, BarrierOnly, Uneventful DEF DeadlinePasses
<1>4. CASE Crash
      <2>1. world' \in Bar!Died(world)
            BY <1>4 DEF Crash
      <2> QED BY <2>1, DiedConsistent, Uneventful
<1>5. CASE \E answers \in BOOLEAN : Restart(answers)
      <2>1. PICK answers \in BOOLEAN : Restart(answers)
            BY <1>5
      <2>2. CASE LockFree
            BY <2>1, <2>2, RecoveriesHarmless, Uneventful DEF Restart, LockFree
      <2>3. CASE ~LockFree
            BY <2>1, <2>3, OthersStep DEF Restart
      <2> QED BY <2>2, <2>3
<1>6. CASE \E members \in SUBSET Task \ {{}}, policy \in {"break", "shrink"},
              timed \in BOOLEAN : Declare(members, policy, timed)
      <2>1. PICK members \in SUBSET Task, policy \in {"break", "shrink"}, timed \in BOOLEAN :
               Declare(members, policy, timed)
            BY <1>6
      <2>2. /\ world.bar.generation < MaxGeneration \/ world.bar.state = "none"
            /\ world' = Bar!Declared(world, members, policy, timed)
            BY <2>1 DEF Declare
      <2> QED BY <2>2, DeclaredHarmless, Uneventful
<1>7. CASE \E t \in Task : LeaseLapses(t)
      BY <1>7, LapsedConsistent, Uneventful DEF LeaseLapses
<1>8. CASE \E a \in Agent : Reclaim(a)
      <2>1. PICK a \in Agent : Reclaim(a)
            BY <1>8
      <2>2. PICK fate \in [Bar!OwnedBy(world, a) -> {"PENDING", "POISONED", "OPEN"}] :
               world' = Bar!Forsaken(world, a, fate)
            BY <2>1 DEF Reclaim
      <2>3. \A t \in Bar!Connecting(world) : world.task[t].owner # {a}
            BY <2>1 DEF Reclaim
      <2> QED BY <2>2, <2>3, ForsakenConsistent, Uneventful
<1>9. CASE OrphanEnds
      BY <1>9, LeavesHarmless, Uneventful DEF OrphanEnds
<1>10. CASE Wedge \/ Repair
      <2>1. PICK x \in BOOLEAN : world' = [world EXCEPT !.wedged = x]
            BY <1>10 DEF Wedge, Repair
      <2>2. /\ world' \in World
            /\ world'.bar = world.bar /\ world'.task = world.task
            /\ world'.driver = world.driver
            BY <2>1, WorldWithWedged
      <2>3. Harmless(world, world') /\ StartsNone(world, world')
            BY <2>2 DEF Harmless, StartsNone, Consistent, Bar!Merged
      <2> QED BY <2>2, <2>3, HarmlessKeeps, Uneventful
<1> QED BY <1>1, <1>2, <1>3, <1>4, <1>5, <1>6, <1>7, <1>8, <1>9, <1>10

\* the periodic sweep,
LEMMA SweepStep ==
    ASSUME BarrierInv, NEW answers \in BOOLEAN, Sweep(answers)
    PROVE  BarrierInv' /\ TripStep
<1>1. CASE LockFree
      <2>1. PICK r \in Bar!Recoveries(world, answers) : world' = Bar!Swept(r)
            BY <1>1 DEF Sweep
      <2>2. world' \in World /\ Consistent(world') /\ StartsNone(world, world')
            BY <1>1, <2>1, RecoveredAndSwept DEF BarrierInv, LockFree
      <2> QED BY <2>2, Uneventful DEF BarrierInv
<1>2. CASE ~LockFree
      BY <1>2, OthersStep DEF Sweep
<1> QED BY <1>1, <1>2

\* Only a crash and a restart have to do with the coordinator's life.
LEMMA LifeStep ==
    ASSUME LifeInv, [Next]_vars
    PROVE  LifeInv'
<1> USE DEF LifeInv
<1>1. CASE UNCHANGED life
      BY <1>1
<1>2. CASE Crash
      BY <1>2, PrimitivesAssumption DEF Crash
<1>3. CASE \E answers \in BOOLEAN : Restart(answers)
      BY <1>3 DEF Restart
<1> HIDE DEF LifeInv
<1>4. CASE UNCHANGED vars
      BY <1>1, <1>4 DEF vars
<1>5. CASE OnSemaphore
      BY <1>1, <1>5 DEF OnSemaphore, DeclareSemaphore, Acquire, AcquirePoll,
            ReturnPermit, PermitLapses, WaitRunsOut, OthersSwept, OthersKept
<1>6. CASE OnFlag
      BY <1>1, <1>6 DEF OnFlag, SetLatch, SetSignal, ClearSignal, AwaitFlag, PollFlag,
            StampFlag, SignalLapses, ConsumerRunsOut, OthersSwept, OthersKept
<1>7. CASE OnBarrier
      BY <1>1, <1>2, <1>3, <1>7 DEF OnBarrier, Declare, Arrive, Connect,
            ClaimWrite, ReleaseWrite, StartMember, EndTrip, Raise, Abort, Consume, EndMerge,
            LeaseLapses, DeadlinePasses, OrphanEnds, Wedge, Repair, OthersSwept, OthersKept
<1>8. CASE Status \/ \E answers \in BOOLEAN : Sweep(answers)
      BY <1>1, <1>8 DEF Status, Sweep, OthersSwept
<1>9. CASE \E a \in Agent : Heartbeat(a) \/ Reclaim(a)
      BY <1>1, <1>9 DEF Heartbeat, Reclaim
<1>10. Tasked \subseteq Agent
      BY PrimitivesAssumption DEF Tasked
<1> QED BY <1>4, <1>5, <1>6, <1>7, <1>8, <1>9, <1>10 DEF Next

\* and all of them.
LEMMA WorldStep ==
    ASSUME BarrierInv, [Next]_vars
    PROVE  BarrierInv' /\ TripStep
<1>1. CASE UNCHANGED vars
      BY <1>1, OthersStep DEF vars
<1>2. CASE OnSemaphore
      BY <1>2, OthersStep DEF OnSemaphore, DeclareSemaphore, Acquire, AcquirePoll,
            ReturnPermit, PermitLapses, WaitRunsOut, OthersSwept, OthersKept
<1>3. CASE OnFlag
      BY <1>3, OthersStep DEF OnFlag, SetLatch, SetSignal, ClearSignal, AwaitFlag, PollFlag,
            StampFlag, SignalLapses, ConsumerRunsOut, OthersSwept, OthersKept
<1>4. CASE OnBarrier
      BY <1>4, ClientStep, DriverStep, BarrierStep DEF OnBarrier
<1>5. CASE Status \/ \E answers \in BOOLEAN : Sweep(answers)
      BY <1>5, OthersStep, SweepStep DEF Status, OthersSwept
<1>6. CASE \E a \in Agent : Heartbeat(a) \/ Reclaim(a)
      BY <1>6, BarrierStep, OthersStep DEF Heartbeat
<1>7. Tasked \subseteq Agent
      BY PrimitivesAssumption DEF Tasked
<1> QED BY <1>1, <1>2, <1>3, <1>4, <1>5, <1>6, <1>7 DEF Next

-----------------------------------------------------------------------------
\* A barrier that reports TRIPPED has merged every member, whoever drove its trip to
\* the end: _barriers.py gives the driver, its exception handler and the recovery of
\* a successor each an end of their own.
THEOREM NothingTripsUnmerged == Spec => []TrippedMeansMerged
<1>1. Init => BarrierInv
      BY InitBarrier
<1>2. BarrierInv /\ [Next]_vars => BarrierInv'
      BY WorldStep
<1>3. BarrierInv => TrippedMeansMerged
      BY DEF BarrierInv, Consistent, TrippedMeansMerged
<1> QED BY <1>1, <1>2, <1>3, PTL DEF Spec

\* A trip merges a member only while it owns the barrier, with all members arrived and
\* the lease the member arrived with: what _barrier_connect_phase_a() looks at again,
\* under the lock, because the trip gave the lock up in between.
THEOREM TripsAreOwned == Spec => TripIsOwned
<1>1. Init => BarrierInv
      BY InitBarrier
<1>2. BarrierInv /\ [Next]_vars => BarrierInv'
      BY WorldStep
<1>3. BarrierInv /\ [Next]_vars => [TripStep]_vars
      BY WorldStep
<1>4. TripIsOwned <=> [][TripStep]_vars
      BY PTL DEF TripIsOwned, TripStep
<1> QED BY <1>1, <1>2, <1>3, <1>4, PTL DEF Spec

-----------------------------------------------------------------------------
\* Semaphores

SemRow == Sem!Semaphore

\* The rows of a semaphore are of their types,
LEMMA SemParts ==
    ASSUME NEW s \in SemRow
    PROVE  /\ s.max \in 1 .. MaxPermits
           /\ s.permit \in [Agent -> {"none", "held", "due"}]
           /\ s.wait \in [Sem!Wait -> Sem!WaitRow]
BY DEF SemRow, Sem!Semaphore

\* and may be replaced.
LEMMA SemWith ==
    ASSUME NEW s \in SemRow
    PROVE  /\ \A p \in [Agent -> {"none", "held", "due"}] : [s EXCEPT !.permit = p] \in SemRow
           /\ \A q \in [Sem!Wait -> Sem!WaitRow] : [s EXCEPT !.wait = q] \in SemRow
           /\ \A n \in 1 .. MaxPermits : [s EXCEPT !.max = n] \in SemRow
BY DEF SemRow, Sem!Semaphore

\* A waiter whose wait is over.
LEMMA SemOver ==
    ASSUME NEW how \in {"none", "WAITING", "GRANTED", "TIMEOUT", "CANCELLED"}
    PROVE  Sem!Over(how) \in Sem!WaitRow
BY DEF Sem!Over, Sem!WaitRow

\* Promotion, and what comes before it in a sweep.
LEMMA PromotedType ==
    ASSUME NEW s \in SemRow
    PROVE  Sem!Promoted(s) \in SemRow
<1> DEFINE served == Sem!Reached(s)
           new == {Sem!Waiter(s, j) : j \in served}
           p == [a \in Agent |-> IF s.permit[a] = "none" /\ a \in new THEN "held" ELSE s.permit[a]]
           q == [j \in Sem!Wait |-> IF j \in served THEN Sem!Over("GRANTED") ELSE s.wait[j]]
<1>1. p \in [Agent -> {"none", "held", "due"}]
      <2> HIDE DEF new
      <2> QED BY SemParts
<1>2. q \in [Sem!Wait -> Sem!WaitRow]
      <2> HIDE DEF served
      <2> QED BY SemParts, SemOver
<1>3. Sem!Promoted(s) = [[s EXCEPT !.permit = p] EXCEPT !.wait = q]
      BY DEF Sem!Promoted
<1> HIDE DEF p, q
<1>4. [s EXCEPT !.permit = p] \in SemRow
      BY <1>1, SemWith
<1> QED BY <1>2, <1>3, <1>4, SemWith

\* Permits that come back.
LEMMA DroppedType ==
    ASSUME NEW s \in SemRow, NEW agents
    PROVE  Sem!Dropped(s, agents) \in SemRow
<1> DEFINE p == [a \in Agent |-> IF a \in agents THEN "none" ELSE s.permit[a]]
<1>1. p \in [Agent -> {"none", "held", "due"}]
      BY SemParts
<1>2. Sem!Dropped(s, agents) = [s EXCEPT !.permit = p]
      BY DEF Sem!Dropped
<1> HIDE DEF p
<1> QED BY <1>1, <1>2, SemWith, SemParts

\* A sweep takes back what has run out, and promotes.
LEMMA SemSweptType ==
    ASSUME NEW s \in SemRow
    PROVE  Sem!Swept(s) \in SemRow
BY DroppedType, PromotedType DEF Sem!Swept, Sem!Lapsed

\* A declaration promotes, if it makes room.
LEMMA DeclaredType ==
    ASSUME NEW s \in SemRow, NEW n \in 1 .. MaxPermits
    PROVE  Sem!Declared(s, n) \in SemRow
<1>1. [s EXCEPT !.max = n] \in SemRow
      BY SemWith
<1> QED BY <1>1, PromotedType DEF Sem!Declared

\* The calls of an agent, and its end.
LEMMA SemCallTypes ==
    ASSUME NEW s \in SemRow, NEW a \in Agent
    PROVE  /\ Sem!Acquired(s, a) \subseteq SemRow
           /\ Sem!Returned(s, a) \in SemRow /\ Sem!Forsaken(s, a) \in SemRow
           /\ Sem!Renewed(s, a) \in SemRow /\ Sem!LapsedPermit(s, a) \in SemRow
<1>2. ASSUME NEW x \in {"none", "held", "due"} PROVE [s EXCEPT !.permit[a] = x] \in SemRow
      <2>1. [s.permit EXCEPT ![a] = x] \in [Agent -> {"none", "held", "due"}]
            BY SemParts
      <2> QED BY <2>1, SemWith, SemParts
<1>3. ASSUME NEW i \in Sem!Wait
      PROVE  [s EXCEPT !.wait[i] = [agent |-> {a}, late |-> FALSE, state |-> "WAITING"]] \in SemRow
      <2> DEFINE q == [s.wait EXCEPT ![i] = [agent |-> {a}, late |-> FALSE, state |-> "WAITING"]]
      <2>1. q \in [Sem!Wait -> Sem!WaitRow]
            BY SemParts DEF Sem!WaitRow
      <2>2. [s EXCEPT !.wait = q] \in SemRow
            <3> HIDE DEF q
            <3> QED BY <2>1, SemWith
      <2> QED BY <2>2
<1>4. Sem!Acquired(s, a) \subseteq SemRow
      BY <1>2, <1>3 DEF Sem!Acquired, Sem!Registered
<1>5. Sem!Returned(s, a) \in SemRow
      BY DroppedType, PromotedType DEF Sem!Returned
<1>6. Sem!Forsaken(s, a) \in SemRow
      <2> DEFINE d == Sem!Dropped(s, {a})
                 q == [i \in Sem!Wait |-> IF i \in Sem!Waiting(s) /\ Sem!Waiter(s, i) = a
                                          THEN Sem!Over("CANCELLED") ELSE s.wait[i]]
      <2>1. q \in [Sem!Wait -> Sem!WaitRow]
            BY SemParts, SemOver
      <2>2. Sem!Withdrawn(s, a) = [d EXCEPT !.wait = q]
            BY DEF Sem!Withdrawn
      <2>3. d \in SemRow
            BY DroppedType
      <2> HIDE DEF d, q
      <2>4. Sem!Withdrawn(s, a) \in SemRow
            BY <2>1, <2>2, <2>3, SemWith, SemParts
      <2> QED BY <2>4, PromotedType DEF Sem!Forsaken
<1>7. Sem!Renewed(s, a) \in SemRow /\ Sem!LapsedPermit(s, a) \in SemRow
      BY <1>2 DEF Sem!Renewed, Sem!LapsedPermit
<1> QED BY <1>4, <1>5, <1>6, <1>7

\* A poll, or time, ends a wait.
LEMMA SemWaitTypes ==
    ASSUME NEW s \in SemRow, NEW i \in Sem!Wait
    PROVE  Sem!Polled(s, i) \in SemRow /\ Sem!LateWait(s, i) \in SemRow
<1>1. ASSUME NEW q \in SemRow PROVE [q EXCEPT !.wait[i] = Sem!Over("TIMEOUT")] \in SemRow
      <2>1. [q.wait EXCEPT ![i] = Sem!Over("TIMEOUT")] \in [Sem!Wait -> Sem!WaitRow]
            BY SemParts, SemOver
      <2> QED BY <2>1, SemWith, SemParts
<1>2. Sem!Polled(s, i) \in SemRow
      BY <1>1, SemSweptType, PromotedType DEF Sem!Polled
<1>3. [s.wait EXCEPT ![i] = [s.wait[i] EXCEPT !.late = TRUE]] \in [Sem!Wait -> Sem!WaitRow]
      <2>1. s.wait[i] \in Sem!WaitRow
            BY SemParts
      <2>2. [s.wait[i] EXCEPT !.late = TRUE] \in Sem!WaitRow
            BY <2>1 DEF Sem!WaitRow
      <2> QED BY <2>2, SemParts
<1>4. Sem!LateWait(s, i) = [s EXCEPT !.wait = [s.wait EXCEPT ![i] = [s.wait[i] EXCEPT !.late = TRUE]]]
      BY DEF Sem!LateWait
<1>5. Sem!LateWait(s, i) \in SemRow
      BY <1>3, <1>4, SemWith, SemParts
<1> QED BY <1>2, <1>5

-----------------------------------------------------------------------------
\* Flags

FlagRow == Flg!Flag
FlagWaits == [Flg!Wait -> Flg!WaitRow]

\* A flag that nobody waits at in vain.
Answered(f) ==
    \A i \in Flg!Waiting(f) : ~Flg!Broken(f) /\ ~Flg!Satisfied(f, f.wait[i].want)

\* A signal that lives has its lease, of an agent that is not among those gone.
Backed(f, dead) ==
    /\ f.lease # "none" <=> f.kind = "EPHEMERAL" /\ f.status = "LIVE"
    /\ f.lease # "none" => \E b \in Agent \ dead : f.owner = {b}

Sound(f, dead) == Answered(f) /\ Backed(f, dead)

\* The fields but for the waits.
SameFlag(f, g) ==
    /\ g.kind = f.kind /\ g.status = f.status /\ g.value = f.value /\ g.rank = f.rank
    /\ g.owner = f.owner /\ g.lease = f.lease

\* The fields of a flag are of their types,
LEMMA FlagParts ==
    ASSUME NEW f \in FlagRow
    PROVE  /\ f.kind \in {"unset", "LATCH", "EPHEMERAL"}
           /\ f.status \in {"LIVE", "CLEARED", "BROKEN"}
           /\ f.value \in Flg!Value /\ f.rank \in 0 .. 2 /\ f.owner \subseteq Agent
           /\ f.lease \in {"none", "held", "due"} /\ f.wait \in FlagWaits
BY DEF FlagRow, FlagWaits, Flg!Flag

\* and its waits may be replaced.
LEMMA FlagWithWaits ==
    ASSUME NEW f \in FlagRow, NEW q \in FlagWaits
    PROVE  LET g == [f EXCEPT !.wait = q]
           IN  g \in FlagRow /\ g.wait = q /\ SameFlag(f, g)
BY DEF FlagRow, FlagWaits, SameFlag, Flg!Flag

\* A waiter whose wait is over waits no longer.
LEMMA FlagOver ==
    /\ \A how \in {"none", "SATISFIED", "BROKEN", "TIMEOUT"} :
          Flg!Over(how) \in Flg!WaitRow /\ Flg!Over(how).state # "WAITING"
BY DEF Flg!Over, Flg!WaitRow, Flg!Value

\* Whether a value satisfies does not depend on the waits.
LEMMA SatisfiedBySame ==
    ASSUME NEW f, NEW g, SameFlag(f, g), NEW want
    PROVE  /\ Flg!Satisfied(g, want) <=> Flg!Satisfied(f, want)
           /\ Flg!Broken(g) <=> Flg!Broken(f)
BY DEF SameFlag, Flg!Satisfied, Flg!Broken, Flg!Live

\* _wake_flag_waiters() leaves nobody waiting in vain.
LEMMA WokenAnswers ==
    ASSUME NEW f \in FlagRow
    PROVE  LET g == Flg!Woken(f)
           IN  g \in FlagRow /\ SameFlag(f, g) /\ Answered(g)
<1> DEFINE q == [i \in Flg!Wait |->
                   IF i \notin Flg!Waiting(f) THEN f.wait[i]
                   ELSE IF Flg!Broken(f) THEN Flg!Over("BROKEN")
                   ELSE IF Flg!Satisfied(f, f.wait[i].want) THEN Flg!Over("SATISFIED")
                   ELSE f.wait[i]]
           g == Flg!Woken(f)
<1>1. q \in FlagWaits
      BY FlagParts, FlagOver DEF FlagWaits
<1>2. g = [f EXCEPT !.wait = q]
      BY DEF Flg!Woken
<1>3. \A i \in Flg!Wait : q[i].state = "WAITING" =>
         ~Flg!Broken(f) /\ ~Flg!Satisfied(f, q[i].want)
      BY FlagOver DEF Flg!Waiting
<1> HIDE DEF q, g
<1>4. g \in FlagRow /\ g.wait = q /\ SameFlag(f, g)
      BY <1>1, <1>2, FlagWithWaits
<1>5. Answered(g)
      BY <1>3, <1>4, SatisfiedBySame DEF Answered, Flg!Waiting
<1> QED BY <1>4, <1>5 DEF g

\* A flag that is woken after a change is sound if the change keeps its lease.
LEMMA WokenSound ==
    ASSUME NEW f \in FlagRow, NEW dead, Backed(f, dead)
    PROVE  Flg!Woken(f) \in FlagRow /\ Sound(Flg!Woken(f), dead)
BY WokenAnswers DEF Sound, Backed, SameFlag

\* The end of its lease.
LEMMA SeveredSound ==
    ASSUME NEW f \in FlagRow
    PROVE  LET g == Flg!Severed(f)
           IN  g \in FlagRow /\ \A dead : Sound(g, dead)
<1> DEFINE b == [f EXCEPT !.status = "BROKEN"]
           w == Flg!Woken(b)
           g == [w EXCEPT !.lease = "none"]
<1>1. b \in FlagRow /\ b.status = "BROKEN"
      BY DEF FlagRow, Flg!Flag
<1> HIDE DEF b
<1>2. w \in FlagRow /\ w.status = "BROKEN" /\ Answered(w)
      BY <1>1, WokenAnswers DEF SameFlag
<1> HIDE DEF w
<1>3. /\ g \in FlagRow /\ g.lease = "none" /\ g.status = "BROKEN" /\ g.wait = w.wait
      BY <1>2 DEF FlagRow, Flg!Flag
<1>4. Flg!Waiting(w) = {}
      BY <1>2 DEF Answered, Flg!Broken
<1>5. Flg!Waiting(g) = {}
      BY <1>3, <1>4 DEF Flg!Waiting
<1>6. Flg!Severed(f) = g
      BY DEF Flg!Severed, w, b
<1> HIDE DEF g
<1> QED BY <1>3, <1>5, <1>6 DEF Sound, Answered, Backed

\* So a sweep keeps it sound.
LEMMA FlagSwept ==
    ASSUME NEW f \in FlagRow
    PROVE  /\ Flg!Swept(f) \in FlagRow
           /\ \A dead : Sound(f, dead) => Sound(Flg!Swept(f), dead)
BY SeveredSound DEF Flg!Swept

\* The calls: a flag_set() wakes whom it satisfies,
LEMMA LatchedSound ==
    ASSUME NEW f \in FlagRow, NEW v \in Flg!Value
    PROVE  /\ Flg!Latched(f, v) \in FlagRow
           /\ \A dead : Sound(f, dead) => Sound(Flg!Latched(f, v), dead)
<1> DEFINE new == Flg!LatchRank(v)
           u == [f EXCEPT !.kind = "LATCH", !.status = "LIVE", !.value = v,
                          !.rank = IF new > f.rank THEN new ELSE f.rank]
<1>1. new \in 0 .. 2
      BY DEF Flg!LatchRank, Flg!Value
<1>2. u \in FlagRow /\ u.kind = "LATCH" /\ u.lease = f.lease
      <2> HIDE DEF new
      <2> QED BY <1>1 DEF FlagRow, Flg!Flag
<1>3. Flg!Latched(f, v) = f \/ (Flg!Latched(f, v) = Flg!Woken(u) /\ f.kind # "EPHEMERAL")
      BY DEF Flg!Latched
<1> HIDE DEF u
<1>4. ASSUME NEW dead, Sound(f, dead), f.kind # "EPHEMERAL" PROVE Backed(u, dead)
      BY <1>2, <1>4 DEF Sound, Backed
<1> QED BY <1>2, <1>3, <1>4, WokenSound, WokenAnswers

\* also of a signal, which takes the lease of its owner, who is alive,
LEMMA SignalledSound ==
    ASSUME NEW f \in FlagRow, NEW a \in Agent, NEW v \in Flg!Value, NEW ttl \in BOOLEAN
    PROVE  /\ Flg!Signalled(f, a, v, ttl) \in FlagRow
           /\ \A dead : a \notin dead /\ Sound(f, dead)
                           => Sound(Flg!Signalled(f, a, v, ttl), dead)
<1> DEFINE u == [f EXCEPT !.kind = "EPHEMERAL", !.status = "LIVE", !.value = v, !.owner = {a},
                          !.lease = IF Flg!Live(f) /\ ~ttl THEN f.lease ELSE "held"]
<1>1. /\ u \in FlagRow /\ u.kind = "EPHEMERAL" /\ u.status = "LIVE" /\ u.owner = {a}
      /\ u.lease = (IF Flg!Live(f) /\ ~ttl THEN f.lease ELSE "held")
      BY DEF FlagRow, Flg!Flag
<1>2. \/ Flg!Signalled(f, a, v, ttl) = f
      \/ Flg!Signalled(f, a, v, ttl) = Flg!Woken(u) /\ f.kind # "LATCH"
      BY DEF Flg!Signalled
<1> HIDE DEF u
<1>3. ASSUME NEW dead, a \notin dead, Sound(f, dead), f.kind # "LATCH" PROVE Backed(u, dead)
      <2>1. Flg!Live(f) => f.lease # "none"
            BY <1>3, FlagParts DEF Sound, Backed, Flg!Live
      <2> QED BY <1>1, <1>3, <2>1 DEF Backed
<1> QED BY <1>1, <1>2, <1>3, WokenSound, WokenAnswers

\* a flag_clear() leaves nothing to wait for in vain,
LEMMA ClearedSound ==
    ASSUME NEW f \in FlagRow, NEW a \in Agent
    PROVE  /\ Flg!Cleared(f, a) \in FlagRow
           /\ \A dead : Sound(f, dead) => Sound(Flg!Cleared(f, a), dead)
<1> DEFINE u == [f EXCEPT !.status = "CLEARED", !.lease = "none"]
<1>1. u \in FlagRow /\ u.status = "CLEARED" /\ u.lease = "none"
      BY DEF FlagRow, Flg!Flag
<1>2. Flg!Cleared(f, a) = f \/ Flg!Cleared(f, a) = Flg!Woken(u)
      BY DEF Flg!Cleared
<1> HIDE DEF u
<1>3. \A dead : Backed(u, dead)
      BY <1>1 DEF Backed
<1> QED BY <1>1, <1>2, <1>3, WokenSound

\* and a flag_wait() that has its answer does not wait.
LEMMA AwaitedSound ==
    ASSUME NEW f \in FlagRow, NEW want \in Flg!Value, NEW g \in Flg!Awaited(f, want)
    PROVE  g \in FlagRow /\ \A dead : Sound(f, dead) => Sound(g, dead)
<1>1. CASE Flg!Broken(f) \/ Flg!Satisfied(f, want)
      BY <1>1 DEF Flg!Awaited
<1>2. CASE ~(Flg!Broken(f) \/ Flg!Satisfied(f, want))
      <2>1. PICK i \in Flg!Wait :
               g = [f EXCEPT !.wait[i] = [want |-> want, late |-> FALSE, state |-> "WAITING"]]
            BY <1>2 DEF Flg!Awaited
      <2> DEFINE r == [want |-> want, late |-> FALSE, state |-> "WAITING"]
                 q == [f.wait EXCEPT ![i] = r]
      <2>2. /\ q \in FlagWaits /\ q[i].want = want
            /\ \A j \in Flg!Wait \ {i} : q[j] = f.wait[j]
            BY FlagParts DEF FlagWaits, Flg!WaitRow
      <2>3. g = [f EXCEPT !.wait = q]
            BY <2>1
      <2> HIDE DEF q
      <2>4. g \in FlagRow /\ g.wait = q /\ SameFlag(f, g)
            BY <2>2, <2>3, FlagWithWaits
      <2>5. ASSUME Answered(f) PROVE Answered(g)
            BY <1>2, <2>2, <2>4, <2>5, SatisfiedBySame DEF Answered, Flg!Waiting
      <2>6. \A dead : Backed(f, dead) => Backed(g, dead)
            BY <2>4 DEF SameFlag, Backed
      <2> QED BY <2>4, <2>5, <2>6 DEF Sound
<1> QED BY <1>1, <1>2

\* One wait ends, or its time runs out.
LEMMA OneWaitSound ==
    ASSUME NEW f \in FlagRow, NEW i \in Flg!Wait, NEW r \in Flg!WaitRow,
           r.state = "WAITING" => f.wait[i].state = "WAITING" /\ r.want = f.wait[i].want
    PROVE  LET g == [f EXCEPT !.wait[i] = r]
           IN  g \in FlagRow /\ \A dead : Sound(f, dead) => Sound(g, dead)
<1> DEFINE q == [f.wait EXCEPT ![i] = r]
           g == [f EXCEPT !.wait[i] = r]
<1>1. q \in FlagWaits /\ q[i] = r /\ \A j \in Flg!Wait \ {i} : q[j] = f.wait[j]
      BY FlagParts DEF FlagWaits
<1>2. g = [f EXCEPT !.wait = q]
      OBVIOUS
<1> HIDE DEF q, g
<1>3. g \in FlagRow /\ g.wait = q /\ SameFlag(f, g)
      BY <1>1, <1>2, FlagWithWaits
<1>4. ASSUME Answered(f) PROVE Answered(g)
      BY <1>1, <1>3, <1>4, SatisfiedBySame DEF Answered, Flg!Waiting
<1>5. \A dead : Backed(f, dead) => Backed(g, dead)
      BY <1>3 DEF SameFlag, Backed
<1> QED BY <1>3, <1>4, <1>5 DEF Sound, g

\* A poll ends a wait that has its answer, or is late.
LEMMA PolledSound ==
    ASSUME NEW f \in FlagRow, NEW i \in Flg!Wait
    PROVE  /\ Flg!PolledWait(f, i) \in FlagRow /\ Flg!LateConsumer(f, i) \in FlagRow
           /\ \A dead : Sound(f, dead) => /\ Sound(Flg!PolledWait(f, i), dead)
                                          /\ Sound(Flg!LateConsumer(f, i), dead)
<1> DEFINE g == Flg!Swept(f)
<1>1. g \in FlagRow /\ \A dead : Sound(f, dead) => Sound(g, dead)
      BY FlagSwept
<1>2. \/ Flg!PolledWait(f, i) = g
      \/ \E how \in {"SATISFIED", "BROKEN", "TIMEOUT"} :
            Flg!PolledWait(f, i) = [g EXCEPT !.wait[i] = Flg!Over(how)]
      BY DEF Flg!PolledWait
<1> HIDE DEF g
<1>3. ASSUME NEW how \in {"SATISFIED", "BROKEN", "TIMEOUT"}
      PROVE  LET h == [g EXCEPT !.wait[i] = Flg!Over(how)]
             IN  h \in FlagRow /\ \A dead : Sound(g, dead) => Sound(h, dead)
      <2>1. Flg!Over(how) \in Flg!WaitRow /\ Flg!Over(how).state # "WAITING"
            BY FlagOver
      <2> QED BY <1>1, <2>1, OneWaitSound
<1>4. /\ Flg!PolledWait(f, i) \in FlagRow
      /\ \A dead : Sound(f, dead) => Sound(Flg!PolledWait(f, i), dead)
      BY <1>1, <1>2, <1>3
<1> DEFINE r == [f.wait[i] EXCEPT !.late = TRUE]
<1>5. f.wait[i] \in Flg!WaitRow
      BY FlagParts DEF FlagWaits
<1>6. r \in Flg!WaitRow /\ r.state = f.wait[i].state /\ r.want = f.wait[i].want
      BY <1>5 DEF Flg!WaitRow
<1>7. Flg!LateConsumer(f, i) = [f EXCEPT !.wait[i] = r]
      BY DEF Flg!LateConsumer
<1> HIDE DEF r
<1>8. /\ Flg!LateConsumer(f, i) \in FlagRow
      /\ \A dead : Sound(f, dead) => Sound(Flg!LateConsumer(f, i), dead)
      BY <1>6, <1>7, OneWaitSound
<1> QED BY <1>4, <1>8

\* A lease is renewed or runs out,
LEMMA LeaseChanges ==
    ASSUME NEW f \in FlagRow, NEW x \in {"held", "due"}, f.lease # "none"
    PROVE  LET g == [f EXCEPT !.lease = x]
           IN  g \in FlagRow /\ \A dead : Sound(f, dead) => Sound(g, dead)
<1> DEFINE g == [f EXCEPT !.lease = x]
<1>1. /\ g \in FlagRow /\ g.wait = f.wait /\ g.lease = x /\ g.owner = f.owner
      /\ g.kind = f.kind /\ g.status = f.status /\ g.value = f.value /\ g.rank = f.rank
      BY DEF FlagRow, Flg!Flag
<1> HIDE DEF g
<1>2. ASSUME Answered(f) PROVE Answered(g)
      BY <1>1, <1>2 DEF Answered, Flg!Waiting, Flg!Broken, Flg!Satisfied, Flg!Live
<1>3. \A dead : Backed(f, dead) => Backed(g, dead)
      BY <1>1 DEF Backed
<1> QED BY <1>1, <1>2, <1>3 DEF Sound, g

\* by its owner's heartbeat or by time,
LEMMA LapsedSound ==
    ASSUME NEW f \in FlagRow, f.lease = "held"
    PROVE  /\ Flg!LapsedSignal(f) \in FlagRow
           /\ \A dead : Sound(f, dead) => Sound(Flg!LapsedSignal(f), dead)
BY LeaseChanges DEF Flg!LapsedSignal

\* or goes with its owner.
LEMMA LeaseSound ==
    ASSUME NEW f \in FlagRow, NEW a \in Agent
    PROVE  /\ Flg!Renewed(f, a) \in FlagRow /\ Flg!Forsaken(f, a) \in FlagRow
           /\ \A dead : Sound(f, dead) => /\ Sound(Flg!Renewed(f, a), dead)
                                          /\ Sound(Flg!Forsaken(f, a), dead \cup {a})
<1>1. /\ Flg!Renewed(f, a) \in FlagRow
      /\ \A dead : Sound(f, dead) => Sound(Flg!Renewed(f, a), dead)
      BY LeaseChanges DEF Flg!Renewed, Flg!Owned
<1>2. ASSUME NEW dead, Sound(f, dead), ~Flg!Owned(f, a) PROVE Sound(f, dead \cup {a})
      BY <1>2 DEF Sound, Backed, Flg!Owned
<1>3. /\ Flg!Forsaken(f, a) \in FlagRow
      /\ \A dead : Sound(f, dead) => Sound(Flg!Forsaken(f, a), dead \cup {a})
      BY <1>2, SeveredSound DEF Flg!Forsaken
<1> QED BY <1>1, <1>3

\* The flag of a task takes a value besides.
LEMMA StampedType ==
    ASSUME NEW f \in FlagRow, NEW v \in Flg!Value
    PROVE  Flg!Stamped(f, v) \in FlagRow
BY DEF Flg!Stamped, FlagRow, Flg!Flag

-----------------------------------------------------------------------------
\* Through the steps of Primitives

SemInv == focus \in {"semaphore", "signal", "task flag", "barrier"} /\ sem \in SemRow

\* While signals are what clients call for, the flag is sound.
FlagInv ==
    /\ gone \in SUBSET Agent /\ flag \in FlagRow
    /\ focus = "signal" => Sound(flag, gone)

\* At first nobody holds or waits.
LEMMA InitFlagAndSem ==
    ASSUME Init
    PROVE  SemInv /\ FlagInv
<1>1. ASSUME NEW n \in 1 .. MaxPermits PROVE Sem!NewSemaphore(n) \in SemRow
      <2>1. [i \in Sem!Wait |-> Sem!NoWait] \in [Sem!Wait -> Sem!WaitRow]
            BY DEF Sem!NoWait, Sem!WaitRow
      <2>2. [a \in Agent |-> "none"] \in [Agent -> {"none", "held", "due"}]
            OBVIOUS
      <2> QED BY <2>1, <2>2 DEF Sem!NewSemaphore, SemRow, Sem!Semaphore
<1>2. [i \in Flg!Wait |-> Flg!NoWait] \in FlagWaits /\ Flg!NoWait.state # "WAITING"
      BY FlagOver DEF FlagWaits, Flg!NoWait
<1>3. Flg!NewFlag \in FlagRow
      BY <1>2 DEF Flg!NewFlag, FlagRow, FlagWaits, Flg!Flag, Flg!Value
<1>4. Sound(Flg!NewFlag, gone)
      BY <1>2 DEF Flg!NewFlag, Sound, Answered, Backed, Flg!Waiting
<1> QED BY <1>1, <1>3, <1>4 DEF Init, SemInv, FlagInv

\* The flag is kept or swept by the steps that are not about it,
LEMMA OtherFlag ==
    ASSUME FlagInv, UNCHANGED <<focus, gone>>, UNCHANGED flag \/ flag' = Flg!Swept(flag)
    PROVE  FlagInv'
BY FlagSwept DEF FlagInv

\* and sound after those that are.
LEMMA OwnFlag ==
    ASSUME FlagInv, OnFlag
    PROVE  FlagInv'
<1> USE DEF FlagInv
<1>1. CASE \E a \in Agent : ClearSignal(a)
      BY <1>1, ClearedSound DEF ClearSignal, OthersKept
<1>2. CASE \E a \in Agent, v \in Flg!Value : SetLatch(a, v)
      BY <1>2, LatchedSound DEF SetLatch, OthersKept
<1>3. CASE \E a \in Agent, v \in Flg!Value, ttl \in BOOLEAN : SetSignal(a, v, ttl)
      BY <1>3, SignalledSound DEF SetSignal, OthersKept, Works
<1>4. CASE \E v \in Flg!Value : AwaitFlag(v)
      BY <1>4, AwaitedSound DEF AwaitFlag, OthersKept
<1>5. CASE \E v \in Flg!Value : StampFlag(v)
      BY <1>5, StampedType DEF StampFlag, Serves, OthersKept
<1>6. CASE \E i \in Flg!Wait : PollFlag(i) \/ ConsumerRunsOut(i)
      BY <1>6, PolledSound DEF PollFlag, ConsumerRunsOut, OthersKept, OthersSwept
<1>7. CASE SignalLapses
      BY <1>7, LapsedSound DEF SignalLapses, OthersKept
<1> QED BY <1>1, <1>2, <1>3, <1>4, <1>5, <1>6, <1>7 DEF OnFlag

\* All of them.
LEMMA FlagStep ==
    ASSUME FlagInv, [Next]_vars
    PROVE  FlagInv'
<1>1. CASE UNCHANGED vars
      BY <1>1, OtherFlag DEF vars
<1>2. CASE OnSemaphore
      BY <1>2, OtherFlag DEF OnSemaphore, DeclareSemaphore, Acquire, AcquirePoll,
            ReturnPermit, PermitLapses, WaitRunsOut, OthersSwept, OthersKept
<1>3. CASE OnFlag
      BY <1>3, OwnFlag
<1>4. CASE OnBarrier
      BY <1>4, OtherFlag DEF OnBarrier, Declare, Arrive, Connect, ClaimWrite, ReleaseWrite,
            StartMember, EndTrip, Raise, Abort, Consume, EndMerge, LeaseLapses,
            DeadlinePasses, Crash, Restart, OrphanEnds, Wedge, Repair, OthersSwept,
            OthersKept
<1>5. CASE Status \/ \E answers \in BOOLEAN : Sweep(answers)
      BY <1>5, OtherFlag DEF Status, Sweep, OthersSwept
<1>6. CASE \E a \in Agent : Heartbeat(a)
      BY <1>6, LeaseSound DEF Heartbeat, FlagInv
<1>7. CASE \E a \in Agent : Reclaim(a)
      BY <1>7, LeaseSound DEF Reclaim, FlagInv
<1>8. Tasked \subseteq Agent
      BY PrimitivesAssumption DEF Tasked
<1> QED BY <1>1, <1>2, <1>3, <1>4, <1>5, <1>6, <1>7, <1>8 DEF Next

\* The semaphore, likewise.
LEMMA SemStep ==
    ASSUME SemInv, [Next]_vars
    PROVE  SemInv'
<1> USE DEF SemInv
<1>1. CASE UNCHANGED <<focus, sem>>
      BY <1>1
<1>2. CASE UNCHANGED focus /\ sem' = Sem!Swept(sem)
      BY <1>2, SemSweptType
<1>3. CASE \E n \in 1 .. MaxPermits : DeclareSemaphore(n)
      BY <1>3, DeclaredType DEF DeclareSemaphore, OthersKept
<1>4. CASE \E a \in Agent : Acquire(a) \/ ReturnPermit(a) \/ PermitLapses(a)
      BY <1>4, SemCallTypes, SemSweptType DEF Acquire, ReturnPermit, PermitLapses,
            OthersKept, OthersSwept
<1>5. CASE \E i \in Sem!Wait : AcquirePoll(i) \/ WaitRunsOut(i)
      BY <1>5, SemWaitTypes DEF AcquirePoll, WaitRunsOut, OthersKept, OthersSwept
<1>6. CASE \E a \in Agent : Heartbeat(a) \/ Reclaim(a)
      BY <1>6, SemCallTypes DEF Heartbeat, Reclaim
<1> HIDE DEF SemInv
<1>7. CASE UNCHANGED vars
      BY <1>1, <1>7 DEF vars
<1>8. CASE OnFlag
      BY <1>1, <1>2, <1>8 DEF OnFlag, SetLatch, SetSignal, ClearSignal, AwaitFlag, PollFlag,
            StampFlag, SignalLapses, ConsumerRunsOut, OthersSwept, OthersKept
<1>9. CASE OnBarrier
      BY <1>1, <1>2, <1>9 DEF OnBarrier, Declare, Arrive, Connect, ClaimWrite, ReleaseWrite,
            StartMember, EndTrip, Raise, Abort, Consume, EndMerge, LeaseLapses,
            DeadlinePasses, Crash, Restart, OrphanEnds, Wedge, Repair, OthersSwept,
            OthersKept
<1>10. CASE Status \/ \E answers \in BOOLEAN : Sweep(answers)
      BY <1>2, <1>10 DEF Status, Sweep, OthersSwept
<1>11. Tasked \subseteq Agent
      BY PrimitivesAssumption DEF Tasked
<1> QED BY <1>3, <1>4, <1>5, <1>6, <1>7, <1>8, <1>9, <1>10, <1>11 DEF Next, OnSemaphore

\* The invariant of it all.
PrimitivesInv == SemInv /\ FlagInv /\ BarrierInv /\ LifeInv

\* It is inductive.
LEMMA PrimitivesInductive ==
    /\ Init => PrimitivesInv
    /\ PrimitivesInv /\ [Next]_vars => PrimitivesInv'
BY InitFlagAndSem, InitBarrier, InitLife, SemStep, FlagStep, WorldStep, LifeStep
   DEF PrimitivesInv

-----------------------------------------------------------------------------
\* The rows of semaphores, flags and barriers stay what their columns are declared to
\* be, and no counter of theirs leaves its range.
THEOREM TypeCorrect == Spec => []TypeOK
<1>1. PrimitivesInv => TypeOK
      BY DEF PrimitivesInv, SemInv, FlagInv, BarrierInv, LifeInv, TypeOK, SemRow, FlagRow, World
<1> QED BY <1>1, PrimitivesInductive, PTL DEF Spec

\* No consumer of a signal waits for what has come or cannot come any more, and a
\* signal that lives has its lease: each of flag_set, flag_clear, the sweep, the
\* reclaim and the polls wakes whom it must, though only some of them look at waiters.
THEOREM SignalsHeard == Spec => []SignalsAreHeard
<1>1. PrimitivesInv => SignalsAreHeard
      <2>1. ASSUME PrimitivesInv, focus = "signal" PROVE SignalsAreHeard
            BY <2>1 DEF PrimitivesInv, FlagInv, SignalsAreHeard, Sound, Answered, Backed
      <2> QED BY <2>1 DEF SignalsAreHeard
<1> QED BY <1>1, PrimitivesInductive, PTL DEF Spec

-----------------------------------------------------------------------------
\* The queue of a semaphore

\* The cardinality that Semaphores speaks of is the one known here.
LEMMA SameCount ==
    ASSUME NEW S
    PROVE  Sem!Cardinality(S) = Cardinality(S)
BY DEF Sem!Cardinality, Cardinality, Sem!IsFiniteSet, IsFiniteSet

LEMMA FreeIs ==
    ASSUME NEW s
    PROVE  Sem!Free(s) <=> Cardinality(Sem!Active(s)) < s.max
BY SameCount DEF Sem!Free

\* Whoever waits is somebody.
Manned(s) == \A i \in Sem!Waiting(s) : \E a \in Agent : s.wait[i].agent = {a}

\* No slot lies free while somebody waits for one.
Used(s) == Sem!Waiting(s) # {} => ~Sem!Free(s)

\* What GrantsInOrder says of the call that leaves t of s.
InOrder(s, t) ==
    LET new == Sem!Active(t) \ Sem!Active(s)
    IN  new # {} =>
          /\ Cardinality(Sem!Active(t)) <= t.max
          /\ \A i \in Sem!Waiting(s) \cap Sem!Waiting(t), a \in new :
                LET w == Sem!Waiter(s, i)
                    since == {j \in Sem!Waiting(s) : Sem!Waiter(s, j) = a}
                IN  \/ Priority[w] < Priority[a]
                    \/ Priority[w] = Priority[a] /\ \E j \in since : j < i
                    \/ w = a

Holds(s) == s \in SemRow /\ Manned(s)

\* A waiter's agent is the one its row names.
LEMMA WaiterIs ==
    ASSUME NEW s, Manned(s), NEW i \in Sem!Waiting(s)
    PROVE  /\ Sem!Waiter(s, i) \in Agent /\ s.wait[i].agent = {Sem!Waiter(s, i)}
           /\ Priority[Sem!Waiter(s, i)] \in Nat
<1>1. PICK a \in Agent : s.wait[i].agent = {a}
      BY DEF Manned
<1>2. Sem!Waiter(s, i) \in Agent /\ s.wait[i].agent = {Sem!Waiter(s, i)}
      BY <1>1 DEF Sem!Waiter
<1> QED BY <1>2, PrimitivesAssumption

\* The queue has an order.
LEMMA QueueOrder ==
    ASSUME NEW s, Manned(s), NEW i \in Sem!Waiting(s), NEW j \in Sem!Waiting(s)
    PROVE  /\ i # j => Sem!Before(s, i, j) \/ Sem!Before(s, j, i)
           /\ ~(Sem!Before(s, i, j) /\ Sem!Before(s, j, i))
           /\ \A k \in Sem!Waiting(s) :
                 Sem!Before(s, i, j) /\ Sem!Before(s, j, k) => Sem!Before(s, i, k)
<1>1. \A k \in Sem!Waiting(s) : k \in Nat /\ Priority[Sem!Waiter(s, k)] \in Nat
      BY WaiterIs, PrimitivesAssumption DEF Sem!Waiting, Sem!Wait
<1> DEFINE p(k) == Priority[Sem!Waiter(s, k)]
<1>2. \A k, l : Sem!Before(s, k, l) <=> (p(k) > p(l) \/ (p(k) = p(l) /\ k < l))
      BY DEF Sem!Before
<1>3. \A k \in Sem!Waiting(s) : k \in Nat /\ p(k) \in Nat
      BY <1>1
<1> HIDE DEF p
<1> QED BY <1>2, <1>3

\* Waiters are ahead of a waiter as the order has it.
LEMMA AheadOf ==
    ASSUME NEW s, Manned(s), NEW i \in Sem!Waiting(s), NEW j \in Sem!Waiting(s),
           Sem!Before(s, i, j)
    PROVE  /\ i \in Sem!Ahead(s, j) /\ i \notin Sem!Ahead(s, i)
           /\ Sem!Ahead(s, i) \subseteq Sem!Ahead(s, j)
BY QueueOrder DEF Sem!Ahead

\* Of any waiters one is the first, and one the last.
LEMMA FirstAndLast ==
    ASSUME NEW s, Manned(s), NEW U \in SUBSET Sem!Waiting(s), U # {}
    PROVE  /\ \E j \in U : \A i \in U : ~Sem!Before(s, i, j)
           /\ \E j \in U : \A i \in U : ~Sem!Before(s, j, i)
<1> DEFINE W == Sem!Wait
           less == StrictSubsetOrdering(W)
<1>1. IsFiniteSet(W) /\ Sem!Waiting(s) \subseteq W
      BY FS_Interval, PrimitivesAssumption DEF Sem!Wait, Sem!Waiting
<1>2. IsWellFoundedOn(less, SUBSET W)
  <2>1. FiniteSubsetsOf(W) = SUBSET W
        BY <1>1, FS_FiniteSubsetsOfFinite
  <2> QED BY <2>1, FS_StrictSubsetOrderingWellFounded
<1>3. \A x, y \in SUBSET W : <<x, y>> \in less <=> x \subseteq y /\ x # y
      BY DEF StrictSubsetOrdering
<1> HIDE DEF W, less
<1>4. \E j \in U : \A i \in U : ~Sem!Before(s, i, j)
  <2> DEFINE T == {Sem!Ahead(s, j) : j \in U}
  <2>1. T \subseteq SUBSET W /\ T # {}
        BY <1>1 DEF Sem!Ahead
  <2>2. \E x \in T : \A y \in T : ~(<<y, x>> \in less)
    <3> HIDE DEF T
    <3> QED BY <1>2, <2>1, WFMin
  <2>3. PICK j \in U : \A y \in T : ~(<<y, Sem!Ahead(s, j)>> \in less)
        BY <2>2
  <2>4. ASSUME NEW i \in U, Sem!Before(s, i, j) PROVE FALSE
    <3>1. Sem!Ahead(s, i) \subseteq Sem!Ahead(s, j) /\ Sem!Ahead(s, i) # Sem!Ahead(s, j)
          BY <2>4, AheadOf
    <3>2. Sem!Ahead(s, i) \in SUBSET W /\ Sem!Ahead(s, j) \in SUBSET W
          BY <2>1
    <3>3. Sem!Ahead(s, i) \in T
          OBVIOUS
    <3>4. <<Sem!Ahead(s, i), Sem!Ahead(s, j)>> \in less
          BY <1>3, <3>1, <3>2
    <3> HIDE DEF T
    <3> QED BY <2>3, <3>3, <3>4
  <2> QED BY <2>4
<1>5. \E j \in U : \A i \in U : ~Sem!Before(s, j, i)
  <2> DEFINE B(j) == W \ Sem!Ahead(s, j)
             T == {B(j) : j \in U}
  <2>1. T \subseteq SUBSET W /\ T # {}
        OBVIOUS
  <2>2. \E x \in T : \A y \in T : ~(<<y, x>> \in less)
    <3> HIDE DEF T
    <3> QED BY <1>2, <2>1, WFMin
  <2>3. PICK j \in U : \A y \in T : ~(<<y, B(j)>> \in less)
        BY <2>2
  <2>4. ASSUME NEW i \in U, Sem!Before(s, j, i) PROVE FALSE
    <3>1. Sem!Ahead(s, j) \subseteq Sem!Ahead(s, i) /\ j \in Sem!Ahead(s, i) /\ j \notin Sem!Ahead(s, j)
          BY <2>4, AheadOf
    <3>2. B(i) \subseteq B(j) /\ B(i) # B(j)
          BY <1>1, <3>1
    <3>3. B(i) \in T /\ B(i) \in SUBSET W /\ B(j) \in SUBSET W
          OBVIOUS
    <3>4. <<B(i), B(j)>> \in less
          BY <1>3, <3>2, <3>3
    <3> HIDE DEF T, B
    <3> QED BY <2>3, <3>3, <3>4
  <2> QED BY <2>4
<1> QED BY <1>4, <1>5

\* Some of the agents are finitely many.
LEMMA FewAgents ==
    ASSUME NEW S \in SUBSET Agent
    PROVE  /\ IsFiniteSet(S) /\ Cardinality(S) \in Nat
           /\ \A x : /\ IsFiniteSet(S \cup {x})
                     /\ Cardinality(S \cup {x}) <= Cardinality(S) + 1
           /\ \A T \in SUBSET S : Cardinality(T) \in Nat /\ Cardinality(T) <= Cardinality(S)
<1>1. IsFiniteSet(S)
      BY FS_Subset, PrimitivesAssumption
<1>2. \A T \in SUBSET S : IsFiniteSet(T) /\ Cardinality(T) <= Cardinality(S)
      BY <1>1, FS_Subset
<1>3. \A T \in SUBSET S : Cardinality(T) \in Nat
      BY <1>2, FS_CardinalityType
<1>4. \A x : IsFiniteSet(S \cup {x}) /\ Cardinality(S \cup {x}) <= Cardinality(S) + 1
  <2> TAKE x
  <2>1. /\ IsFiniteSet(S \cup {x})
        /\ Cardinality(S \cup {x}) = IF x \in S THEN Cardinality(S) ELSE Cardinality(S) + 1
        BY <1>1, FS_AddElement
  <2>2. Cardinality(S) \in Nat
        BY <1>3
  <2> QED BY <2>1, <2>2
<1> QED BY <1>1, <1>2, <1>3, <1>4

\* What promotion does: those it reaches have their permits, and the others wait on.
LEMMA PromotedIs ==
    ASSUME NEW s, Holds(s), NEW p, p = Sem!Promoted(s)
    PROVE  /\ p \in SemRow /\ p.max = s.max
           /\ Sem!Active(p) = Sem!Active(s) \cup {Sem!Waiter(s, j) : j \in Sem!Reached(s)}
           /\ Sem!Waiting(p) = Sem!Waiting(s) \ Sem!Reached(s)
           /\ \A i \in Sem!Waiting(p) : p.wait[i] = s.wait[i]
<1> DEFINE R == Sem!Reached(s)
           new == {Sem!Waiter(s, j) : j \in R}
<1>1. s \in SemRow /\ p \in SemRow
      BY PromotedType DEF Holds
<1>2. R \subseteq Sem!Waiting(s) /\ Sem!Waiting(s) \subseteq Sem!Wait
      BY DEF Sem!Reached, Sem!Waiting
<1>3. new \subseteq Agent
      BY <1>2, WaiterIs DEF Holds
<1>4. /\ p.max = s.max
      /\ p.permit = [a \in Agent |-> IF s.permit[a] = "none" /\ a \in new
                                     THEN "held" ELSE s.permit[a]]
      /\ p.wait = [j \in Sem!Wait |-> IF j \in R THEN Sem!Over("GRANTED") ELSE s.wait[j]]
  <2>1. s.max \in 1 .. MaxPermits /\ DOMAIN s = {"max", "permit", "wait"}
        BY <1>1 DEF SemRow, Sem!Semaphore
  <2> HIDE DEF R, new
  <2>2. p = [s EXCEPT !.permit = [a \in Agent |-> IF s.permit[a] = "none" /\ a \in new
                                                  THEN "held" ELSE s.permit[a]],
                      !.wait = [j \in Sem!Wait |-> IF j \in R THEN Sem!Over("GRANTED")
                                                   ELSE s.wait[j]]]
        BY DEF Sem!Promoted, R, new
  <2> QED BY <1>1, <2>2 DEF SemRow, Sem!Semaphore
<1>5. Sem!Over("GRANTED").state # "WAITING"
      BY DEF Sem!Over
<1> HIDE DEF R, new
<1>6. Sem!Active(p) = Sem!Active(s) \cup new
      BY <1>3, <1>4 DEF Sem!Active
<1>7. Sem!Waiting(p) = Sem!Waiting(s) \ R
      BY <1>2, <1>4, <1>5 DEF Sem!Waiting
<1>8. \A i \in Sem!Waiting(p) : p.wait[i] = s.wait[i]
      BY <1>2, <1>4, <1>7
<1> QED BY <1>1, <1>4, <1>6, <1>7, <1>8 DEF R, new

\* Who has a permit when promotion comes to a waiter.
Got(s, j) == Sem!Active(s) \cup {Sem!Waiter(s, i) : i \in Sem!Ahead(s, j)}

\* It reaches the waiter if there is a slot left.
LEMMA ReachedIs ==
    ASSUME NEW s, NEW j \in Sem!Waiting(s)
    PROVE  j \in Sem!Reached(s) <=> Cardinality(Got(s, j)) < s.max
<1>1. Sem!Reached(s) = {i \in Sem!Waiting(s) : Sem!Cardinality(Got(s, i)) < s.max}
      BY DEF Sem!Reached, Got
<1> QED BY <1>1, SameCount

\* So it reaches the waiters of a head of the queue.
LEMMA ReachedIsAHead ==
    ASSUME NEW s, Holds(s), NEW j \in Sem!Reached(s), NEW i \in Sem!Waiting(s),
           i \notin Sem!Reached(s)
    PROVE  Sem!Before(s, j, i)
<1>1. j \in Sem!Waiting(s) /\ Manned(s)
      BY DEF Sem!Reached, Holds
<1>2. ASSUME Sem!Before(s, i, j) PROVE FALSE
  <2>1. Sem!Ahead(s, i) \subseteq Sem!Ahead(s, j)
        BY <1>1, <1>2, AheadOf
  <2>2. Got(s, i) \subseteq Got(s, j)
        BY <2>1 DEF Got
  <2>3. Got(s, j) \subseteq Agent
        BY <1>1, WaiterIs DEF Got, Sem!Ahead, Sem!Active
  <2>4. Cardinality(Got(s, j)) < s.max /\ ~(Cardinality(Got(s, i)) < s.max)
        BY <1>1, ReachedIs
  <2>5. s.max \in Nat
        BY SemParts DEF Holds
  <2>6. /\ Cardinality(Got(s, i)) \in Nat /\ Cardinality(Got(s, j)) \in Nat
        /\ Cardinality(Got(s, i)) <= Cardinality(Got(s, j))
        BY <2>2, <2>3, FewAgents
  <2> QED BY <2>4, <2>5, <2>6
<1> QED BY <1>1, <1>2, QueueOrder

\* It uses the slots up,
LEMMA PromotedUses ==
    ASSUME NEW s, Holds(s), NEW p, p = Sem!Promoted(s)
    PROVE  Used(p) /\ Holds(p)
<1>1. /\ p \in SemRow /\ p.max = s.max
      /\ Sem!Active(p) = Sem!Active(s) \cup {Sem!Waiter(s, j) : j \in Sem!Reached(s)}
      /\ Sem!Waiting(p) = Sem!Waiting(s) \ Sem!Reached(s)
      /\ \A i \in Sem!Waiting(p) : p.wait[i] = s.wait[i]
      BY PromotedIs
<1>2. Holds(p)
      BY <1>1 DEF Holds, Manned
<1>3. ASSUME Sem!Waiting(p) # {} PROVE ~Sem!Free(p)
  <2>1. PICK j \in Sem!Waiting(p) : \A i \in Sem!Waiting(p) : ~Sem!Before(s, i, j)
        BY <1>1, <1>3, FirstAndLast DEF Holds
  <2>2. Sem!Ahead(s, j) \subseteq Sem!Reached(s)
        BY <1>1, <2>1 DEF Sem!Ahead
  <2>3. Got(s, j) \subseteq Sem!Active(p) /\ Sem!Active(p) \subseteq Agent
        BY <1>1, <2>2 DEF Got, Sem!Active
  <2>4. ~(Cardinality(Got(s, j)) < s.max)
        BY <1>1, ReachedIs
  <2>5. s.max \in Nat /\ p.max = s.max
        BY <1>1, SemParts DEF Holds
  <2>6. /\ Cardinality(Got(s, j)) \in Nat /\ Cardinality(Sem!Active(p)) \in Nat
        /\ Cardinality(Got(s, j)) <= Cardinality(Sem!Active(p))
        BY <2>3, FewAgents
  <2>7. ~(Cardinality(Sem!Active(p)) < p.max)
        BY <2>4, <2>5, <2>6
  <2> QED BY <2>7, FreeIs
<1> QED BY <1>2, <1>3 DEF Used

\* and no more of them than there are.
LEMMA PromotedFits ==
    ASSUME NEW s, Holds(s), NEW p, p = Sem!Promoted(s), Sem!Reached(s) # {}
    PROVE  Cardinality(Sem!Active(p)) <= p.max
<1> DEFINE R == Sem!Reached(s)
<1>1. /\ p \in SemRow /\ p.max = s.max
      /\ Sem!Active(p) = Sem!Active(s) \cup {Sem!Waiter(s, j) : j \in R}
      BY PromotedIs
<1>2. R \subseteq Sem!Waiting(s) /\ Manned(s)
      BY DEF Sem!Reached, Holds
<1>3. PICK j \in R : \A i \in R : ~Sem!Before(s, j, i)
      BY <1>2, FirstAndLast
<1>4. \A i \in R : i = j \/ i \in Sem!Ahead(s, j)
      BY <1>2, <1>3, QueueOrder DEF Sem!Ahead
<1>5. Sem!Active(p) \subseteq Got(s, j) \cup {Sem!Waiter(s, j)}
      BY <1>1, <1>4 DEF Got
<1>6. Got(s, j) \subseteq Agent /\ Sem!Waiter(s, j) \in Agent
      BY <1>2, WaiterIs DEF Got, Sem!Ahead, Sem!Active
<1>7. Cardinality(Got(s, j)) < s.max /\ s.max \in Nat
      BY <1>2, ReachedIs, SemParts DEF Holds
<1> DEFINE all == Got(s, j) \cup {Sem!Waiter(s, j)}
<1>8. all \subseteq Agent
      BY <1>6
<1>9. Cardinality(Got(s, j)) \in Nat /\ Cardinality(all) <= Cardinality(Got(s, j)) + 1
      BY <1>6, FewAgents
<1> HIDE DEF all
<1>10. /\ Cardinality(Sem!Active(p)) \in Nat /\ Cardinality(all) \in Nat
       /\ Cardinality(Sem!Active(p)) <= Cardinality(all)
      BY <1>5, <1>8, FewAgents DEF all
<1> QED BY <1>1, <1>7, <1>9, <1>10

\* A semaphore as every call leaves it.
Settled(s) == Holds(s) /\ Used(s)

\* No row that waits is forgotten, or another's.
Onward(s, t) ==
    /\ Sem!Waiting(t) \subseteq Sem!Waiting(s)
    /\ \A i \in Sem!Waiting(t) : t.wait[i].agent = s.wait[i].agent
    /\ \A i \in Sem!Waiting(s) : t.wait[i].state # "none"

\* Nor does anybody get a permit.
Leaves(s, t) == Sem!Active(t) \subseteq Sem!Active(s) /\ Onward(s, t)

\* Rows that are kept are of the same waiters.
LEMMA SameWaiters ==
    ASSUME NEW s, NEW t, Onward(s, t), NEW i \in Sem!Waiting(t)
    PROVE  i \in Sem!Waiting(s) /\ Sem!Waiter(t, i) = Sem!Waiter(s, i)
BY DEF Onward, Sem!Waiter

\* Somebody still waits where somebody waited.
LEMMA OnwardManned ==
    ASSUME NEW s, Manned(s), NEW t, Onward(s, t)
    PROVE  Manned(t)
BY DEF Onward, Manned

\* What grants nothing grants in order.
LEMMA NoGrants ==
    ASSUME NEW s, NEW t, Sem!Active(t) \subseteq Sem!Active(s)
    PROVE  InOrder(s, t)
BY DEF InOrder

\* What grants nothing and takes no permit settles nothing anew.
LEMMA KeptSettled ==
    ASSUME NEW s, Settled(s), NEW t \in SemRow, Onward(s, t), t.max = s.max,
           Sem!Active(t) = Sem!Active(s)
    PROVE  Settled(t) /\ InOrder(s, t)
<1>1. Holds(t)
      BY OnwardManned DEF Settled, Holds
<1>2. Sem!Free(t) <=> Sem!Free(s)
      BY FreeIs
<1>3. Used(t)
      BY <1>2 DEF Used, Settled, Onward
<1> QED BY <1>1, <1>3, NoGrants DEF Settled

\* Promotion goes on with what the call left of the queue,
LEMMA PromotedOnward ==
    ASSUME NEW s, Holds(s), NEW p, p = Sem!Promoted(s)
    PROVE  Onward(s, p) /\ (\A i \in Sem!Wait : s.wait[i].state # "none" => p.wait[i].state # "none")
<1> DEFINE R == Sem!Reached(s)
           new == {Sem!Waiter(s, j) : j \in R}
<1>1. s \in SemRow
      BY DEF Holds
<1> HIDE DEF R, new
<1>2. p = [s EXCEPT !.permit = [a \in Agent |-> IF s.permit[a] = "none" /\ a \in new
                                                THEN "held" ELSE s.permit[a]],
                    !.wait = [j \in Sem!Wait |-> IF j \in R THEN Sem!Over("GRANTED")
                                                 ELSE s.wait[j]]]
      BY DEF Sem!Promoted, R, new
<1>3. p.wait = [j \in Sem!Wait |-> IF j \in R THEN Sem!Over("GRANTED") ELSE s.wait[j]]
      BY <1>1, <1>2 DEF SemRow, Sem!Semaphore
<1>4. Sem!Over("GRANTED").state = "GRANTED"
      BY DEF Sem!Over
<1>5. \A i \in Sem!Wait : p.wait[i] = s.wait[i] \/ p.wait[i].state = "GRANTED"
      BY <1>3, <1>4
<1>6. \A i \in Sem!Waiting(s) : i \in Sem!Wait /\ s.wait[i].state = "WAITING"
      BY DEF Sem!Waiting
<1>7. \A i \in Sem!Waiting(p) : i \in Sem!Wait /\ p.wait[i].state = "WAITING"
      BY DEF Sem!Waiting
<1>8. \A i \in Sem!Waiting(p) : p.wait[i] = s.wait[i]
      BY <1>5, <1>7
<1>9. \A i \in Sem!Wait : s.wait[i].state # "none" => p.wait[i].state # "none"
      BY <1>5
<1>10. Sem!Waiting(p) \subseteq Sem!Waiting(s)
      BY <1>7, <1>8 DEF Sem!Waiting
<1> QED BY <1>6, <1>8, <1>9, <1>10 DEF Onward

\* and grants in the order of the queue as it was before the call.
LEMMA PromotedInOrder ==
    ASSUME NEW s, Holds(s), NEW r, Holds(r), Leaves(s, r), NEW p, p = Sem!Promoted(r)
    PROVE  Settled(p) /\ InOrder(s, p) /\ Onward(s, p)
<1>1. Settled(p)
      BY PromotedUses DEF Settled
<1>2. /\ Sem!Active(p) = Sem!Active(r) \cup {Sem!Waiter(r, j) : j \in Sem!Reached(r)}
      /\ Sem!Waiting(p) = Sem!Waiting(r) \ Sem!Reached(r)
      BY PromotedIs
<1>3. Onward(s, r) /\ Onward(r, p) /\ Sem!Active(r) \subseteq Sem!Active(s)
      BY PromotedOnward DEF Leaves
<1>4. Onward(s, p)
  <2>1. \A i \in Sem!Waiting(s) : p.wait[i].state # "none"
        BY <1>3, PromotedOnward DEF Onward, Sem!Waiting
  <2> QED BY <1>3, <2>1 DEF Onward
<1>5. ASSUME Sem!Active(p) \ Sem!Active(s) # {}
      PROVE  Cardinality(Sem!Active(p)) <= p.max
  <2>1. Sem!Reached(r) # {}
        BY <1>2, <1>3, <1>5
  <2> QED BY <2>1, PromotedFits
<1>6. ASSUME NEW i \in Sem!Waiting(s) \cap Sem!Waiting(p), NEW a \in Sem!Active(p) \ Sem!Active(s)
      PROVE  \/ Priority[Sem!Waiter(s, i)] < Priority[a]
             \/ /\ Priority[Sem!Waiter(s, i)] = Priority[a]
                /\ \E j \in {k \in Sem!Waiting(s) : Sem!Waiter(s, k) = a} : j < i
  <2>1. PICK j \in Sem!Reached(r) : a = Sem!Waiter(r, j)
        BY <1>2, <1>3, <1>6
  <2>2. i \in Sem!Waiting(r) /\ i \notin Sem!Reached(r) /\ j \in Sem!Waiting(r)
        BY <1>2 DEF Sem!Reached
  <2>3. Sem!Before(r, j, i)
        BY <2>2, ReachedIsAHead
  <2>4. j \in Sem!Waiting(s) /\ Sem!Waiter(r, j) = Sem!Waiter(s, j) /\ Sem!Waiter(r, i) = Sem!Waiter(s, i)
        BY <1>3, <2>2, SameWaiters
  <2>5. Priority[a] \in Nat /\ Priority[Sem!Waiter(s, i)] \in Nat
        BY <2>1, <2>2, <2>4, WaiterIs DEF Holds
  <2>6. \/ Priority[a] > Priority[Sem!Waiter(s, i)]
        \/ Priority[a] = Priority[Sem!Waiter(s, i)] /\ j < i
        BY <2>1, <2>3, <2>4 DEF Sem!Before
  <2> QED BY <2>1, <2>4, <2>5, <2>6
<1>7. InOrder(s, p)
      BY <1>5, <1>6 DEF InOrder
<1> QED BY <1>1, <1>4, <1>7

\* Where no slot is free or nobody waits, there is nothing to promote.
LEMMA NothingToPromote ==
    ASSUME NEW s, Settled(s)
    PROVE  Sem!Promoted(s) = s
<1>1. s \in SemRow /\ Manned(s)
      BY DEF Settled, Holds
<1>2. ASSUME NEW j \in Sem!Reached(s) PROVE FALSE
  <2>1. j \in Sem!Waiting(s)
        BY DEF Sem!Reached
  <2>2. Cardinality(Got(s, j)) < s.max /\ s.max \in Nat
        BY <1>1, <2>1, ReachedIs, SemParts
  <2>3. ~(Cardinality(Sem!Active(s)) < s.max)
        BY <2>1, FreeIs DEF Settled, Used
  <2>4. Sem!Active(s) \subseteq Got(s, j) /\ Got(s, j) \subseteq Agent
        BY <1>1, <2>1, WaiterIs DEF Got, Sem!Ahead, Sem!Active
  <2>5. /\ Cardinality(Sem!Active(s)) \in Nat /\ Cardinality(Got(s, j)) \in Nat
        /\ Cardinality(Sem!Active(s)) <= Cardinality(Got(s, j))
        BY <2>4, FewAgents
  <2> QED BY <2>2, <2>3, <2>5
<1> DEFINE R == Sem!Reached(s)
           new == {Sem!Waiter(s, j) : j \in R}
<1>3. R = {} /\ new = {}
      BY <1>2
<1> HIDE DEF R, new
<1>4. Sem!Promoted(s) =
        [s EXCEPT !.permit = [a \in Agent |-> IF s.permit[a] = "none" /\ a \in new
                                              THEN "held" ELSE s.permit[a]],
                  !.wait = [j \in Sem!Wait |-> IF j \in R THEN Sem!Over("GRANTED")
                                               ELSE s.wait[j]]]
      BY DEF Sem!Promoted, R, new
<1>5. s.permit \in [Agent -> {"none", "held", "due"}] /\ s.wait \in [Sem!Wait -> Sem!WaitRow]
      BY <1>1, SemParts
<1>6. /\ [a \in Agent |-> IF s.permit[a] = "none" /\ a \in new THEN "held" ELSE s.permit[a]] = s.permit
      /\ [j \in Sem!Wait |-> IF j \in R THEN Sem!Over("GRANTED") ELSE s.wait[j]] = s.wait
      BY <1>3, <1>5
<1>7. Sem!Promoted(s) = [s EXCEPT !.permit = s.permit, !.wait = s.wait]
      BY <1>4, <1>6
<1> QED BY <1>1, <1>7 DEF SemRow, Sem!Semaphore

\* Permits that are taken back leave the queue alone.
LEMMA DroppedLeaves ==
    ASSUME NEW s, Holds(s), NEW gave, NEW r, r = Sem!Dropped(s, gave)
    PROVE  Holds(r) /\ Leaves(s, r) /\ r.wait = s.wait /\ Sem!Active(r) = Sem!Active(s) \ gave
<1>1. s \in SemRow /\ r \in SemRow
      BY DroppedType DEF Holds
<1>2. r = [s EXCEPT !.permit = [a \in Agent |-> IF a \in gave THEN "none" ELSE s.permit[a]]]
      BY DEF Sem!Dropped
<1>3. /\ r.wait = s.wait
      /\ r.permit = [a \in Agent |-> IF a \in gave THEN "none" ELSE s.permit[a]]
      BY <1>1, <1>2 DEF SemRow, Sem!Semaphore
<1>4. Sem!Active(r) = Sem!Active(s) \ gave
      BY <1>3 DEF Sem!Active
<1>5. Sem!Waiting(r) = Sem!Waiting(s)
      BY <1>3 DEF Sem!Waiting
<1>6. \A i \in Sem!Waiting(s) : r.wait[i].state # "none"
      BY <1>3 DEF Sem!Waiting
<1>7. Onward(s, r)
      BY <1>3, <1>5, <1>6 DEF Onward
<1> QED BY <1>1, <1>3, <1>4, <1>7, OnwardManned DEF Holds, Leaves

\* A sweep,
LEMMA SweptSettled ==
    ASSUME NEW s, Settled(s), NEW q, q = Sem!Swept(s)
    PROVE  Settled(q) /\ InOrder(s, q) /\ Onward(s, q)
<1>1. CASE Sem!Due(s) = {}
  <2>1. q = s
        BY <1>1 DEF Sem!Swept
  <2>2. Onward(s, s)
        BY DEF Onward, Sem!Waiting
  <2> QED BY <2>1, <2>2, NoGrants
<1>2. CASE Sem!Due(s) # {}
  <2>1. q = Sem!Promoted(Sem!Lapsed(s))
        BY <1>2 DEF Sem!Swept
  <2>2. Holds(Sem!Lapsed(s)) /\ Leaves(s, Sem!Lapsed(s))
        BY DroppedLeaves DEF Sem!Lapsed, Settled
  <2> QED BY <2>1, <2>2, PromotedInOrder DEF Settled
<1> QED BY <1>1, <1>2

\* a new maximum,
LEMMA DeclaredSettled ==
    ASSUME NEW s, Settled(s), NEW n \in 1 .. MaxPermits, NEW t, t = Sem!Declared(s, n)
    PROVE  Settled(t) /\ InOrder(s, t)
<1> DEFINE r == [s EXCEPT !.max = n]
<1>1. s \in SemRow /\ r \in SemRow
      BY SemWith DEF Settled, Holds
<1>2. r.permit = s.permit /\ r.wait = s.wait
      BY <1>1 DEF SemRow, Sem!Semaphore
<1>3. t = Sem!Promoted(r)
      BY DEF Sem!Declared
<1> HIDE DEF r
<1>4. Sem!Active(r) = Sem!Active(s) /\ Sem!Waiting(r) = Sem!Waiting(s)
      BY <1>2 DEF Sem!Active, Sem!Waiting
<1>5. \A i \in Sem!Waiting(s) : r.wait[i].state # "none"
      BY <1>2 DEF Sem!Waiting
<1>6. Leaves(s, r)
      BY <1>2, <1>4, <1>5 DEF Leaves, Onward
<1>7. Holds(r)
      BY <1>1, <1>6, OnwardManned DEF Holds, Leaves, Settled
<1> QED BY <1>3, <1>6, <1>7, PromotedInOrder DEF Settled

\* a permit that is returned,
LEMMA ReturnedSettled ==
    ASSUME NEW s, Settled(s), NEW a, NEW t, t = Sem!Returned(s, a)
    PROVE  Settled(t) /\ InOrder(s, t)
<1>1. Holds(Sem!Dropped(s, {a})) /\ Leaves(s, Sem!Dropped(s, {a}))
      BY DroppedLeaves DEF Settled
<1> QED BY <1>1, PromotedInOrder DEF Sem!Returned, Settled

\* and an agent that is reclaimed: its slot goes to the head of the queue.
LEMMA ForsakenSettled ==
    ASSUME NEW s, Settled(s), NEW a \in Agent, NEW t, t = Sem!Forsaken(s, a)
    PROVE  Settled(t) /\ InOrder(s, t)
<1> DEFINE d == Sem!Dropped(s, {a})
           q == [i \in Sem!Wait |-> IF i \in Sem!Waiting(s) /\ Sem!Waiter(s, i) = a
                                    THEN Sem!Over("CANCELLED") ELSE s.wait[i]]
           r == Sem!Withdrawn(s, a)
<1>1. s \in SemRow /\ s.wait \in [Sem!Wait -> Sem!WaitRow]
      BY SemParts DEF Settled, Holds
<1>2. Holds(d) /\ Leaves(s, d) /\ Sem!Active(d) = Sem!Active(s) \ {a}
      BY DroppedLeaves DEF Settled
<1>3. d.max = s.max
      BY <1>1 DEF Sem!Dropped, SemRow, Sem!Semaphore
<1>4. q \in [Sem!Wait -> Sem!WaitRow]
      BY <1>1, SemOver
<1>5. \A i \in Sem!Wait : q[i] = s.wait[i] \/ q[i].state = "CANCELLED"
      BY DEF Sem!Over
<1>6. r = [d EXCEPT !.wait = q]
      BY DEF Sem!Withdrawn
<1> HIDE DEF d, q, r
<1>7. r \in SemRow
      BY <1>2, <1>4, <1>6, SemWith DEF Holds
<1>8. r.max = s.max /\ r.permit = d.permit /\ r.wait = q
      BY <1>2, <1>3, <1>6 DEF Holds, SemRow, Sem!Semaphore
<1>9. Sem!Active(r) = Sem!Active(s) \ {a}
      BY <1>2, <1>8 DEF Sem!Active
<1>10. \A i \in Sem!Waiting(r) : i \in Sem!Waiting(s) /\ r.wait[i] = s.wait[i]
      BY <1>5, <1>8 DEF Sem!Waiting
<1>11. \A i \in Sem!Waiting(s) : r.wait[i].state # "none"
      BY <1>5, <1>8 DEF Sem!Waiting
<1>12. Onward(s, r)
      BY <1>10, <1>11 DEF Onward
<1>13. Holds(r) /\ Leaves(s, r)
      BY <1>7, <1>9, <1>12, OnwardManned DEF Holds, Leaves, Settled
<1>14. CASE s.permit[a] = "none"
  <2>1. t = r /\ Sem!Active(r) = Sem!Active(s)
        BY <1>9, <1>14 DEF Sem!Forsaken, Sem!Active, r
  <2> QED BY <1>7, <1>8, <1>12, <2>1, KeptSettled
<1>15. CASE s.permit[a] # "none"
  <2>1. t = Sem!Promoted(r)
        BY <1>15 DEF Sem!Forsaken, r
  <2> QED BY <1>13, <2>1, PromotedInOrder DEF Settled
<1> QED BY <1>14, <1>15

\* What is renewed or lapses is still a permit,
LEMMA PermitSettled ==
    ASSUME NEW s, Settled(s), NEW a \in Agent
    PROVE  /\ Settled(Sem!Renewed(s, a)) /\ InOrder(s, Sem!Renewed(s, a))
           /\ s.permit[a] = "held" =>
                 Settled(Sem!LapsedPermit(s, a)) /\ InOrder(s, Sem!LapsedPermit(s, a))
<1>1. /\ s \in SemRow /\ s.permit \in [Agent -> {"none", "held", "due"}]
      /\ s.wait \in [Sem!Wait -> Sem!WaitRow]
      BY SemParts DEF Settled, Holds
<1>2. ASSUME NEW x \in {"held", "due"}, s.permit[a] # "none",
             NEW t, t = [s EXCEPT !.permit[a] = x]
      PROVE  Settled(t) /\ InOrder(s, t)
  <2> DEFINE p == [s.permit EXCEPT ![a] = x]
  <2>1. p \in [Agent -> {"none", "held", "due"}]
        BY <1>1
  <2>2. \A b \in Agent : p[b] # "none" <=> s.permit[b] # "none"
        BY <1>1, <1>2
  <2>3. t = [s EXCEPT !.permit = p]
        BY <1>2
  <2> HIDE DEF p
  <2>4. t \in SemRow
        BY <1>1, <2>1, <2>3, SemWith
  <2>5. t.permit = p /\ t.wait = s.wait /\ t.max = s.max
        BY <1>1, <2>3 DEF SemRow, Sem!Semaphore
  <2>6. Sem!Active(t) = Sem!Active(s)
        BY <2>2, <2>5 DEF Sem!Active
  <2>7. Onward(s, t)
        BY <2>5 DEF Onward, Sem!Waiting
  <2> QED BY <2>4, <2>5, <2>6, <2>7, KeptSettled
<1>3. Settled(s) /\ InOrder(s, s)
      BY NoGrants
<1>4. Settled(Sem!Renewed(s, a)) /\ InOrder(s, Sem!Renewed(s, a))
  <2>1. CASE s.permit[a] = "due"
        BY <1>2, <2>1 DEF Sem!Renewed
  <2>2. CASE s.permit[a] # "due"
        BY <1>3, <2>2 DEF Sem!Renewed
  <2> QED BY <2>1, <2>2
<1>5. s.permit[a] = "held" =>
         Settled(Sem!LapsedPermit(s, a)) /\ InOrder(s, Sem!LapsedPermit(s, a))
      BY <1>2 DEF Sem!LapsedPermit
<1> QED BY <1>4, <1>5

\* and who is late still waits.
LEMMA LateSettled ==
    ASSUME NEW s, Settled(s), NEW i \in Sem!Wait
    PROVE  Settled(Sem!LateWait(s, i)) /\ InOrder(s, Sem!LateWait(s, i))
<1>0. s \in SemRow /\ s.wait \in [Sem!Wait -> Sem!WaitRow]
      BY SemParts DEF Settled, Holds
<1> DEFINE t == Sem!LateWait(s, i)
           q == [s.wait EXCEPT ![i] = [s.wait[i] EXCEPT !.late = TRUE]]
<1>1. t \in SemRow
      BY <1>0, SemWaitTypes
<1>2. t = [s EXCEPT !.wait = q]
      BY DEF Sem!LateWait
<1>3. s.wait[i] \in Sem!WaitRow
      BY <1>0
<1>4. [s.wait[i] EXCEPT !.late = TRUE].state = s.wait[i].state
      /\ [s.wait[i] EXCEPT !.late = TRUE].agent = s.wait[i].agent
      BY <1>3 DEF Sem!WaitRow
<1>5. \A j \in Sem!Wait : q[j].state = s.wait[j].state /\ q[j].agent = s.wait[j].agent
      BY <1>0, <1>4
<1> HIDE DEF t, q
<1>6. t.permit = s.permit /\ t.wait = q /\ t.max = s.max
      BY <1>0, <1>2 DEF SemRow, Sem!Semaphore
<1>7. Sem!Active(t) = Sem!Active(s)
      BY <1>6 DEF Sem!Active
<1>8. Onward(s, t)
      BY <1>5, <1>6 DEF Onward, Sem!Waiting
<1>9. Settled(t) /\ InOrder(s, t)
      BY <1>1, <1>6, <1>7, <1>8, KeptSettled
<1> QED BY <1>9 DEF t

\* acquire(), after its sweep: it grants a slot that is free and nobody has a better
\* claim to, or registers the agent, and then no slot is free.
LEMMA AcquiredSettled ==
    ASSUME NEW s, Settled(s), NEW a \in Agent, NEW t \in Sem!Acquired(Sem!Swept(s), a)
    PROVE  Settled(t) /\ InOrder(s, t)
<1> DEFINE q == Sem!Swept(s)
<1>1. Settled(q) /\ InOrder(s, q) /\ Onward(s, q)
      BY SweptSettled
<1>2. /\ q \in SemRow /\ q.permit \in [Agent -> {"none", "held", "due"}]
      /\ q.wait \in [Sem!Wait -> Sem!WaitRow] /\ q.max \in Nat
      /\ t \in SemRow
  <2>1. q \in SemRow
        BY <1>1 DEF Settled, Holds
  <2>2. t \in SemRow
        BY <2>1, SemCallTypes
  <2> HIDE DEF q
  <2> QED BY <2>1, <2>2, SemParts
<1> HIDE DEF q
<1>3. CASE t = q
      BY <1>1, <1>3
<1>4. ASSUME q.permit[a] = "none", Sem!Free(q), ~Sem!HasEarlierWaiter(q, a),
             t = [q EXCEPT !.permit[a] = "held"]
      PROVE  Settled(t) /\ InOrder(s, t)
  <2>1. t.wait = q.wait /\ t.max = q.max /\ t.permit = [q.permit EXCEPT ![a] = "held"]
        BY <1>2, <1>4 DEF SemRow, Sem!Semaphore
  <2>2. Sem!Active(t) = Sem!Active(q) \cup {a}
        BY <1>2, <2>1 DEF Sem!Active
  <2>3. Sem!Waiting(t) = Sem!Waiting(q)
        BY <2>1 DEF Sem!Waiting
  <2>4. Sem!Waiting(q) = {}
        BY <1>1, <1>4 DEF Settled, Used
  <2>5. Settled(t)
        BY <1>2, <2>3, <2>4 DEF Settled, Holds, Manned, Used
  <2>6. Cardinality(Sem!Active(t)) <= t.max
    <3>1. Sem!Active(q) \subseteq Agent /\ Cardinality(Sem!Active(q)) < q.max
          BY <1>4, FreeIs DEF Sem!Active
    <3>2. /\ Cardinality(Sem!Active(q)) \in Nat
          /\ Cardinality(Sem!Active(q) \cup {a}) <= Cardinality(Sem!Active(q)) + 1
          BY <3>1, FewAgents
    <3>3. Cardinality(Sem!Active(t)) \in Nat
          BY FewAgents DEF Sem!Active
    <3> QED BY <1>2, <2>1, <2>2, <3>1, <3>2, <3>3
  <2> QED BY <2>3, <2>4, <2>5, <2>6 DEF InOrder
<1>5. ASSUME ~Sem!Free(q) \/ Sem!HasEarlierWaiter(q, a), t \in Sem!Registered(q, a)
      PROVE  Settled(t) /\ InOrder(s, t)
  <2>1. PICK i \in Sem!Wait :
              /\ q.wait[i] = Sem!NoWait
              /\ t = [q EXCEPT !.wait[i] = [agent |-> {a}, late |-> FALSE, state |-> "WAITING"]]
        BY <1>5 DEF Sem!Registered
  <2>2. /\ t.permit = q.permit /\ t.max = q.max
        /\ t.wait = [q.wait EXCEPT ![i] = [agent |-> {a}, late |-> FALSE, state |-> "WAITING"]]
        BY <1>2, <2>1 DEF SemRow, Sem!Semaphore
  <2>3. Sem!Active(t) = Sem!Active(q)
        BY <2>2 DEF Sem!Active
  <2>4. Sem!Waiting(t) = Sem!Waiting(q) \cup {i}
        BY <1>2, <2>2 DEF Sem!Waiting
  <2>5. \A j \in Sem!Waiting(t) : j # i => t.wait[j] = q.wait[j]
        BY <1>2, <2>2 DEF Sem!Waiting
  <2>6. t.wait[i].agent = {a}
        BY <1>2, <2>2
  <2>7. Manned(t)
        BY <1>1, <2>4, <2>5, <2>6 DEF Manned, Settled, Holds
  <2>8. ~Sem!Free(q)
        BY <1>1, <1>5 DEF Settled, Used, Sem!HasEarlierWaiter
  <2>9. ~Sem!Free(t)
        BY <2>2, <2>3, <2>8, FreeIs
  <2>10. i \notin Sem!Waiting(s)
        BY <1>1, <2>1 DEF Onward, Sem!NoWait
  <2>11. InOrder(s, t)
        BY <1>1, <2>2, <2>3, <2>4, <2>10 DEF InOrder
  <2> QED BY <1>2, <2>7, <2>9, <2>11 DEF Settled, Holds, Used
<1> QED BY <1>3, <1>4, <1>5 DEF Sem!Acquired, q

\* A poll finds what the sweep left, and may end its wait.
LEMMA PolledSettled ==
    ASSUME NEW s, Settled(s), NEW i \in Sem!Wait, NEW t, t = Sem!Polled(s, i)
    PROVE  Settled(t) /\ InOrder(s, t)
<1> DEFINE q == Sem!Swept(s)
<1>1. Settled(q) /\ InOrder(s, q)
      BY SweptSettled
<1>2. q = Sem!Promoted(Sem!Swept(s))
      BY <1>1, NothingToPromote
<1>3. q \in SemRow /\ t \in SemRow
      BY <1>1, SemWaitTypes DEF Settled, Holds
<1>4. t = q \/ (i \in Sem!Waiting(q) /\ t = [q EXCEPT !.wait[i] = Sem!Over("TIMEOUT")])
      BY <1>2 DEF Sem!Polled, Sem!Waiting
<1> HIDE DEF q
<1>5. CASE t = q
      BY <1>1, <1>5
<1>6. CASE t = [q EXCEPT !.wait[i] = Sem!Over("TIMEOUT")]
  <2>1. /\ t.permit = q.permit /\ t.max = q.max
        /\ t.wait = [q.wait EXCEPT ![i] = Sem!Over("TIMEOUT")]
        BY <1>3, <1>6 DEF SemRow, Sem!Semaphore
  <2>2. q.wait \in [Sem!Wait -> Sem!WaitRow] /\ Sem!Over("TIMEOUT").state = "TIMEOUT"
        BY <1>3, SemParts DEF Sem!Over
  <2>3. Sem!Active(t) = Sem!Active(q)
        BY <2>1 DEF Sem!Active
  <2>4. \A j \in Sem!Wait : t.wait[j] = q.wait[j] \/ t.wait[j].state = "TIMEOUT"
        BY <2>1, <2>2
  <2>5. Onward(q, t)
        BY <2>4 DEF Onward, Sem!Waiting
  <2>6. Settled(t)
        BY <1>1, <1>3, <2>1, <2>3, <2>5, KeptSettled
  <2> QED BY <1>1, <2>1, <2>3, <2>5, <2>6 DEF InOrder, Onward
<1> QED BY <1>4, <1>5, <1>6

\* A semaphore is settled at first,
LEMMA InitSettled ==
    ASSUME Init
    PROVE  Settled(sem)
<1>1. PICK n \in 1 .. MaxPermits : sem = Sem!NewSemaphore(n)
      BY DEF Init
<1>2. sem \in SemRow
      BY InitFlagAndSem DEF SemInv
<1>3. Sem!NoWait.state # "WAITING"
      BY DEF Sem!NoWait
<1>4. sem.wait = [i \in Sem!Wait |-> Sem!NoWait]
      BY <1>1 DEF Sem!NewSemaphore
<1>5. Sem!Waiting(sem) = {}
      BY <1>3, <1>4 DEF Sem!Waiting
<1> QED BY <1>2, <1>5 DEF Settled, Holds, Manned, Used

\* and after every step, which grants in order.
LEMMA SettledStep ==
    ASSUME Settled(sem), [Next]_vars
    PROVE  Settled(sem') /\ InOrder(sem, sem')
<1>1. CASE UNCHANGED sem
      BY <1>1, NoGrants
<1>2. CASE sem' = Sem!Swept(sem)
      BY <1>2, SweptSettled
<1>3. ASSUME NEW n \in 1 .. MaxPermits, DeclareSemaphore(n)
      PROVE  Settled(sem') /\ InOrder(sem, sem')
      BY <1>3, DeclaredSettled DEF DeclareSemaphore
<1>4. ASSUME NEW a \in Agent, Acquire(a) \/ ReturnPermit(a) \/ PermitLapses(a)
      PROVE  Settled(sem') /\ InOrder(sem, sem')
  <2>1. CASE Acquire(a)
        BY <2>1, AcquiredSettled DEF Acquire
  <2>2. CASE ReturnPermit(a)
        BY <2>2, ReturnedSettled DEF ReturnPermit
  <2>3. CASE PermitLapses(a)
        BY <2>3, PermitSettled DEF PermitLapses
  <2> QED BY <1>4, <2>1, <2>2, <2>3
<1>5. ASSUME NEW i \in Sem!Wait, AcquirePoll(i) \/ WaitRunsOut(i)
      PROVE  Settled(sem') /\ InOrder(sem, sem')
      BY <1>5, PolledSettled, LateSettled DEF AcquirePoll, WaitRunsOut
<1>6. ASSUME NEW a \in Agent, Heartbeat(a) \/ Reclaim(a)
      PROVE  Settled(sem') /\ InOrder(sem, sem')
      BY <1>6, PermitSettled, ForsakenSettled DEF Heartbeat, Reclaim
<1>7. CASE UNCHANGED vars
      BY <1>1, <1>7 DEF vars
<1>8. CASE OnFlag
      BY <1>1, <1>2, <1>8 DEF OnFlag, SetLatch, SetSignal, ClearSignal, AwaitFlag, PollFlag,
            StampFlag, SignalLapses, ConsumerRunsOut, OthersSwept, OthersKept
<1>9. CASE OnBarrier
      BY <1>1, <1>2, <1>9 DEF OnBarrier, Declare, Arrive, Connect, ClaimWrite, ReleaseWrite,
            StartMember, EndTrip, Raise, Abort, Consume, EndMerge, LeaseLapses,
            DeadlinePasses, Crash, Restart, OrphanEnds, Wedge, Repair, OthersSwept,
            OthersKept
<1>10. CASE Status \/ \E answers \in BOOLEAN : Sweep(answers)
      BY <1>2, <1>10 DEF Status, Sweep, OthersSwept
<1>11. Tasked \subseteq Agent
      BY PrimitivesAssumption DEF Tasked
<1> QED BY <1>3, <1>4, <1>5, <1>6, <1>7, <1>8, <1>9, <1>10, <1>11 DEF Next, OnSemaphore

\* A free slot is never left lying while somebody waits: a permit that is returned,
\* lapses or is reclaimed with its agent, and a maximum that is raised, reach the head
\* of the queue in the same call; and acquire() makes nobody wait while one is free.
THEOREM NoSlotIsIdle == Spec => []SlotsAreUsed
<1>1. Settled(sem) => SlotsAreUsed
      BY DEF Settled, Used, SlotsAreUsed
<1>2. Init => Settled(sem)
      BY InitSettled
<1>3. Settled(sem) /\ [Next]_vars => Settled(sem)'
  <2>1. ASSUME Settled(sem), [Next]_vars PROVE Settled(sem')
        BY <2>1, SettledStep
  <2> QED BY <2>1
<1> QED BY <1>1, <1>2, <1>3, PTL DEF Spec

\* No call grants more permits than there are, or grants one over the head of a waiter
\* who comes first and still waits: neither promotion, nor the acquire() that finds a
\* slot free.
THEOREM NobodyJumpsTheQueue == Spec => GrantsInOrder
<1>1. Init => Settled(sem)
      BY InitSettled
<1>2. Settled(sem) /\ [Next]_vars => Settled(sem)'
  <2>1. ASSUME Settled(sem), [Next]_vars PROVE Settled(sem')
        BY <2>1, SettledStep
  <2> QED BY <2>1
<1>3. Settled(sem) /\ [Next]_vars =>
        [LET new == Sem!Active(sem)' \ Sem!Active(sem)
         IN  new # {} =>
               /\ Cardinality(Sem!Active(sem)') <= sem.max'
               /\ \A i \in Sem!Waiting(sem) \cap Sem!Waiting(sem)', a \in new :
                     LET w == Sem!Waiter(sem, i)
                         since == {j \in Sem!Waiting(sem) : Sem!Waiter(sem, j) = a}
                     IN  \/ Priority[w] < Priority[a]
                         \/ Priority[w] = Priority[a] /\ \E j \in since : j < i
                         \/ w = a]_vars
  <2>1. ASSUME Settled(sem), [Next]_vars PROVE InOrder(sem, sem')
        BY <2>1, SettledStep
  <2> QED BY <2>1 DEF InOrder
<1> QED BY <1>1, <1>2, <1>3, PTL DEF Spec, GrantsInOrder
=============================================================================
