--------------------------- MODULE Connect_proofs ---------------------------
(***************************************************************************)
(* The two stores agree, for any number of processes, tasks, requests and  *)
(* attempts, with processes that die, leases that are lost and a branch    *)
(* that others move.                                                       *)
(*                                                                         *)
(* The argument follows the identity of an attempt.  Its number is in the  *)
(* task's row, in the merge token, in the request's row and in the trailer *)
(* of the commit, and the invariant says that these agree wherever two of  *)
(* them meet: numbers are never used twice, so a commit belongs to one     *)
(* task, and a task that is owed a commit is the one the token was drawn   *)
(* for.  What processes know is about the effect lock: whoever is not idle *)
(* has it.                                                                 *)
(***************************************************************************)
EXTENDS Connect, FunctionTheorems, FiniteSetTheorems, SequenceTheorems, TLAPS

-----------------------------------------------------------------------------
\* The database d, the branch g and the number n of attempts made

Database == [task : [Task -> TaskRow],
             token : [task : Task \cup {NoTask}, own : BOOLEAN, bind : Binding],
             held : [Task -> BOOLEAN],
             idem : [Request -> IdemRow],
             log : Seq(Task)]

\* A task whose attempt is owed to Git or in Git.
Engaged(d, k) == d.task[k].state \in {"CONNECTING", "MERGED"}

\* The merge token is the one of the task that is CONNECTING.
OneAttempt(d) ==
    \A k \in Task : d.task[k].state = "CONNECTING" =>
        d.token.task = k /\ d.token.bind = d.task[k].bind

\* Attempts have been made before they are bound, and are bound to one task.
Numbered(d, n) ==
    /\ \A k \in Task : Engaged(d, k) => d.task[k].bind.attempt \in 1..n
    /\ \A j, k \in Task : Engaged(d, j) /\ Engaged(d, k) /\ j # k =>
          d.task[j].bind.attempt # d.task[k].bind.attempt

\* Every commit of the coordinator is of a task that is CONNECTING or MERGED,
\* in the attempt the task is bound to, and every MERGED task has one.
Owed(d, g) ==
    /\ \A i \in DOMAIN g : g[i] # Foreign =>
          /\ g[i].task \in Task
          /\ Engaged(d, g[i].task)
          /\ d.task[g[i].task].bind.attempt = g[i].attempt
    /\ \A k \in Task : d.task[k].state = "MERGED" =>
          \E i \in DOMAIN g : g[i].task = k /\ g[i].attempt = d.task[k].bind.attempt

\* The merge log is the list of what is MERGED.
Logged(d) ==
    /\ \A k \in Task : d.task[k].state = "MERGED" <=> \E i \in DOMAIN d.log : d.log[i] = k
    /\ IsInjective(d.log)

\* The row r is in flight and bound to an attempt.
InFlight(d, r) == d.idem[r].status = "INFLIGHT"

\* The requests and the attempts made for them know each other.
Known(d) ==
    /\ \A r \in Request : d.idem[r].status = "DONE" => d.task[Asks[r]].state = "MERGED"
    /\ \A r \in Request :
          InFlight(d, r) /\ d.idem[r].bind # Unbound /\ Engaged(d, Asks[r]) => OwnRequest(d, r)
    /\ \A k \in Task :
          LET r == d.task[k].req
          IN  d.task[k].state = "CONNECTING" /\ r # NoRequest =>
                  Asks[r] = k /\ d.idem[r] = [status |-> "INFLIGHT", bind |-> d.task[k].bind]

Agreed(d, g, n) ==
    d \in Database /\ OneAttempt(d) /\ Numbered(d, n) /\ Owed(d, g) /\ Logged(d) /\ Known(d)

-----------------------------------------------------------------------------
\* The processes

\* Who is in a connect has the effect lock, and so has whose Git process runs.
Locked ==
    /\ \A p \in Process : proc[p].pc # "idle" => lock = p
    /\ child # 0 => lock \in Process /\ proc[lock].pc \in {"merging", "idle"}

\* A Git process that can still commit has not committed yet.
CommitsOnce == child # 0 /\ tree = "merging" => ~Landed(child)

\* What a process in a connect knows: its request is of its task; until it
\* has an attempt nothing else is in flight for a task that could get one;
\* an attempt not begun has not landed; what it settled is settled.
Knows(p) ==
    LET k == proc[p].task
        r == proc[p].req
        a == proc[p].bind.attempt
    IN  /\ proc[p].pc # "idle" => k \in Task /\ (r # NoRequest => Asks[r] = k)
        /\ proc[p].pc = "reserved" =>
              /\ r # NoRequest => idem[r] = [status |-> "INFLIGHT", bind |-> Unbound]
              /\ \A q \in Request : InFlight(DB, q) /\ ~Engaged(DB, Asks[q]) => q = r
        /\ proc[p].pc = "prepared" => a \in 1..attempts /\ ~Landed(a)
        /\ proc[p].pc = "settled" =>
              /\ Connecting = {}
              /\ proc[p].err = "ok" => task[k].state = "MERGED"

TypedRest ==
    /\ synced \in [Task -> Nat \cup {-1}]
    /\ git \in Seq(Commit)
    /\ tree \in TreeState
    /\ child \in Nat
    /\ lock \in Process \cup {NoProcess}
    /\ proc \in [Process -> ProcRow]
    /\ attempts \in Nat /\ deaths \in Nat
    /\ saw \in [Task -> SUBSET (Task \cup {NoTask})]

IInv ==
    /\ Agreed(DB, git, attempts)
    /\ TypedRest
    /\ Locked
    /\ CommitsOnce
    /\ \A p \in Process : Knows(p)

\* No task lands twice.
LandsOnce ==
    \A i, j \in DOMAIN git : i # j /\ git[i] # Foreign => git[i].task # git[j].task

\* What a task has read, where a read claim always stamps the generation: its
\* stamp is a generation there has been, and up to it everything was seen;
\* and a task that is about to land has seen all it reads.
Informed ==
    \A k \in Task :
        /\ synced[k] <= Len(log)
        /\ NoTask \in saw[k] => synced[k] # -1 /\ \A g \in 1..synced[k] : log[g] \in saw[k]
        /\ NoTask \in saw[k] /\ task[k].state = "CONNECTING" =>
              Reads[k] \cap MergedInGit \subseteq saw[k] \cup {k}

-----------------------------------------------------------------------------
\* The ways to settle an attempt, column by column

LEMMA BindingType ==
    /\ Unbound \in Binding /\ Unbound.attempt = 0
    /\ \A b \in Binding, o \in Nat :
          /\ [b EXCEPT !.owner = o, !.gen = @ + 1] \in Binding
          /\ [b EXCEPT !.owner = o, !.gen = @ + 1].attempt = b.attempt
    /\ \A b \in Binding : [Unbound EXCEPT !.gen = b.gen] \in Binding
<1>1. ASSUME NEW b \in Binding, NEW o \in Nat
      PROVE  /\ [b EXCEPT !.owner = o, !.gen = @ + 1] \in Binding
             /\ [b EXCEPT !.owner = o, !.gen = @ + 1].attempt = b.attempt
  <2>1. b.gen + 1 \in Nat
        BY DEF Binding
  <2> QED BY <2>1 DEF Binding
<1>2. ASSUME NEW b \in Binding PROVE [Unbound EXCEPT !.gen = b.gen] \in Binding
      BY DEF Binding, Unbound
<1>3. Unbound \in Binding /\ Unbound.attempt = 0
      BY DEF Binding, Unbound
<1> QED BY <1>1, <1>2, <1>3

LEMMA RowType ==
    ASSUME NEW t \in TaskRow
    PROVE  /\ [t EXCEPT !.state = "MERGED", !.base = 0] \in TaskRow
           /\ \A b \in Binding : [t EXCEPT !.bind = b] \in TaskRow
BY DEF TaskRow

LEMMA ForwardIs ==
    ASSUME NEW d \in Database, NEW k \in Task
    PROVE  /\ Forward(d, k) \in Database
           /\ Forward(d, k).task = [d.task EXCEPT ![k] = [@ EXCEPT !.state = "MERGED", !.base = 0]]
           /\ Forward(d, k).token = NoToken
           /\ Forward(d, k).held = [d.held EXCEPT ![k] = FALSE]
           /\ Forward(d, k).idem = d.idem
           /\ Forward(d, k).log = Append(d.log, k)
<1>1. Append(d.log, k) \in Seq(Task)
      BY AppendProperties DEF Database
<1>2. NoToken \in [task : Task \cup {NoTask}, own : BOOLEAN, bind : Binding]
      BY BindingType DEF NoToken
<1>3. [d.task EXCEPT ![k] = [@ EXCEPT !.state = "MERGED", !.base = 0]] \in [Task -> TaskRow]
  <2> DEFINE row == [d.task[k] EXCEPT !.state = "MERGED", !.base = 0]
  <2>1. row \in TaskRow
        BY RowType DEF Database
  <2> HIDE DEF row
  <2>2. [d.task EXCEPT ![k] = row] \in [Task -> TaskRow]
        BY <2>1 DEF Database
  <2> QED BY <2>2 DEF row
<1> QED BY <1>1, <1>2, <1>3 DEF Forward, Database

LEMMA BackIs ==
    ASSUME NEW d \in Database, NEW k \in Task
    PROVE  /\ Back(d, k) \in Database
           /\ Back(d, k).task = [d.task EXCEPT ![k] =
                  [state |-> "DONE", bind |-> [Unbound EXCEPT !.gen = d.task[k].bind.gen],
                   req |-> NoRequest, base |-> 0]]
           /\ Back(d, k).token = NoToken
           /\ Back(d, k).held = d.held
           /\ Back(d, k).idem = d.idem
           /\ Back(d, k).log = d.log
<1>1. NoToken \in [task : Task \cup {NoTask}, own : BOOLEAN, bind : Binding]
      BY BindingType DEF NoToken
<1>2. [d.task EXCEPT ![k] =
          [state |-> "DONE", bind |-> [Unbound EXCEPT !.gen = d.task[k].bind.gen],
           req |-> NoRequest, base |-> 0]] \in [Task -> TaskRow]
      BY BindingType DEF Database, TaskRow
<1> QED BY <1>1, <1>2 DEF Back, Database

\* The binding of an attempt in the hands of the recovering process m.
Taken(b, m) == [b EXCEPT !.owner = m, !.gen = @ + 1]

LEMMA TakeOverIs ==
    ASSUME NEW d \in Database, NEW k \in Task, NEW m \in Nat
    PROVE  /\ TakeOver(d, k, m) \in Database
           /\ TakeOver(d, k, m).task = [d.task EXCEPT ![k].bind = Taken(d.task[k].bind, m)]
           /\ TakeOver(d, k, m).token = [d.token EXCEPT !.bind = Taken(d.task[k].bind, m)]
           /\ TakeOver(d, k, m).held = d.held
           /\ TakeOver(d, k, m).idem = [r \in Request |->
                 IF r = d.task[k].req THEN [d.idem[r] EXCEPT !.bind = Taken(d.task[k].bind, m)]
                 ELSE d.idem[r]]
           /\ TakeOver(d, k, m).log = d.log
<1> DEFINE b == Taken(d.task[k].bind, m)
<1>1. b \in Binding
      BY BindingType DEF Database, TaskRow, Taken
<1>2. TakeOver(d, k, m) =
         [d EXCEPT !.task[k].bind = b,
                   !.token.bind = b,
                   !.idem = [r \in Request |->
                               IF r = d.task[k].req THEN [d.idem[r] EXCEPT !.bind = b]
                               ELSE d.idem[r]]]
      BY DEF TakeOver, Taken
<1> HIDE DEF b
<1>3. [d.task EXCEPT ![k].bind = b] \in [Task -> TaskRow]
  <2> DEFINE row == [d.task[k] EXCEPT !.bind = b]
  <2>1. row \in TaskRow
        BY <1>1, RowType DEF Database
  <2> HIDE DEF row
  <2>2. [d.task EXCEPT ![k] = row] \in [Task -> TaskRow]
        BY <2>1 DEF Database
  <2> QED BY <2>2 DEF row
<1>4. [d.token EXCEPT !.bind = b] \in [task : Task \cup {NoTask}, own : BOOLEAN, bind : Binding]
      BY <1>1 DEF Database
<1>5. \A r \in Request : [d.idem[r] EXCEPT !.bind = b] \in IdemRow
      BY <1>1 DEF Database, IdemRow
<1>6. [r \in Request |-> IF r = d.task[k].req THEN [d.idem[r] EXCEPT !.bind = b]
                         ELSE d.idem[r]] \in [Request -> IdemRow]
      BY <1>5 DEF Database
<1>7. /\ TakeOver(d, k, m) \in Database
      /\ TakeOver(d, k, m).task = [d.task EXCEPT ![k].bind = b]
      /\ TakeOver(d, k, m).token = [d.token EXCEPT !.bind = b]
      /\ TakeOver(d, k, m).held = d.held
      /\ TakeOver(d, k, m).idem = [r \in Request |->
            IF r = d.task[k].req THEN [d.idem[r] EXCEPT !.bind = b] ELSE d.idem[r]]
      /\ TakeOver(d, k, m).log = d.log
      BY <1>2, <1>3, <1>4, <1>6 DEF Database
<1> QED BY <1>7 DEF b

-----------------------------------------------------------------------------
\* Settling keeps the stores in agreement.

\* The commit is there: the task is MERGED.
LEMMA ForwardAgrees ==
    ASSUME NEW d, NEW g, NEW n, Agreed(d, g, n),
           NEW k \in Task, d.task[k].state = "CONNECTING",
           NEW i \in DOMAIN g, g[i].attempt = d.task[k].bind.attempt
    PROVE  Agreed(Forward(d, k), g, n)
<1> DEFINE e == Forward(d, k)
<1>1. d \in Database /\ OneAttempt(d) /\ Numbered(d, n) /\ Owed(d, g) /\ Logged(d) /\ Known(d)
      BY DEF Agreed
<1>2. /\ e \in Database
      /\ e.task = [d.task EXCEPT ![k] = [@ EXCEPT !.state = "MERGED", !.base = 0]]
      /\ e.idem = d.idem
      /\ e.log = Append(d.log, k)
      BY <1>1, ForwardIs
<1> HIDE DEF e
<1>3. /\ e.task[k].state = "MERGED" /\ e.task[k].bind = d.task[k].bind
      /\ e.task[k].req = d.task[k].req
      /\ \A j \in Task : j # k => e.task[j] = d.task[j]
      BY <1>1, <1>2 DEF Database, TaskRow
<1>4. OneAttempt(e)
      BY <1>1, <1>3 DEF OneAttempt
<1>5. \A j \in Task : (Engaged(e, j) <=> Engaged(d, j)) /\ e.task[j].bind = d.task[j].bind
      BY <1>3 DEF Engaged
<1>6. Numbered(e, n)
      BY <1>1, <1>5 DEF Numbered
<1>7. g[i].task = k
  <2>1. d.task[k].bind.attempt # 0
        BY <1>1 DEF Numbered, Engaged
  <2>2. g[i] # Foreign
        BY <2>1 DEF Foreign
  <2> QED BY <1>1, <2>2 DEF Owed, Numbered, Engaged
<1>8. Owed(e, g)
  <2>1. \A j \in DOMAIN g : g[j] # Foreign =>
           /\ g[j].task \in Task
           /\ Engaged(e, g[j].task)
           /\ e.task[g[j].task].bind.attempt = g[j].attempt
        BY <1>1, <1>5 DEF Owed
  <2>2. ASSUME NEW j \in Task, e.task[j].state = "MERGED"
        PROVE  \E x \in DOMAIN g : g[x].task = j /\ g[x].attempt = e.task[j].bind.attempt
    <3>1. CASE j = k
          BY <1>3, <1>7, <3>1
    <3>2. CASE j # k
          BY <1>1, <1>3, <2>2, <3>2 DEF Owed
    <3> QED BY <3>1, <3>2
  <2> QED BY <2>1, <2>2 DEF Owed
<1>9. Logged(e)
  <2>1. /\ d.log \in Seq(Task) /\ Len(d.log) \in Nat /\ DOMAIN d.log = 1..Len(d.log)
        /\ DOMAIN e.log = 1..(Len(d.log) + 1)
        /\ e.log[Len(d.log) + 1] = k
        /\ \A x \in 1..Len(d.log) : e.log[x] = d.log[x]
        BY <1>1, <1>2, AppendProperties DEF Database
  <2>2. \A x \in DOMAIN d.log : d.log[x] # k
        BY <1>1 DEF Logged
  <2>3. \A j \in Task : e.task[j].state = "MERGED" <=> \E x \in DOMAIN e.log : e.log[x] = j
    <3> SUFFICES ASSUME NEW j \in Task
                 PROVE  e.task[j].state = "MERGED" <=> \E x \in DOMAIN e.log : e.log[x] = j
        OBVIOUS
    <3>1. CASE j = k
          BY <1>3, <2>1, <3>1
    <3>2. CASE j # k
      <4>1. (\E x \in DOMAIN e.log : e.log[x] = j) <=> \E x \in DOMAIN d.log : d.log[x] = j
            BY <2>1, <3>2
      <4> QED BY <1>1, <1>3, <3>2, <4>1 DEF Logged
    <3> QED BY <3>1, <3>2
  <2>4. IsInjective(e.log)
        BY <1>1, <2>1, <2>2 DEF Logged, IsInjective
  <2> QED BY <2>3, <2>4 DEF Logged
<1>10. Known(e)
  <2>1. \A r \in Request : e.idem[r].status = "DONE" => e.task[Asks[r]].state = "MERGED"
        BY <1>1, <1>2, <1>3, ConnectAssumption DEF Known
  <2>2. ASSUME NEW r \in Request, InFlight(e, r), e.idem[r].bind # Unbound, Engaged(e, Asks[r])
        PROVE  OwnRequest(e, r)
    <3>1. Asks[r] \in Task /\ OwnRequest(d, r)
          BY <1>1, <1>2, <1>5, <2>2, ConnectAssumption DEF Known, InFlight
    <3> QED BY <1>2, <1>3, <3>1 DEF OwnRequest
  <2>3. \A j \in Task : e.task[j].state = "CONNECTING" => j # k
        BY <1>3
  <2> QED BY <1>1, <1>2, <1>3, <2>1, <2>2, <2>3 DEF Known
<1> QED BY <1>2, <1>4, <1>6, <1>8, <1>9, <1>10 DEF Agreed, e

\* It is not there: the task is as if there had been no attempt.
LEMMA BackAgrees ==
    ASSUME NEW d, NEW g, NEW n, Agreed(d, g, n),
           NEW k \in Task, d.task[k].state = "CONNECTING",
           \A i \in DOMAIN g : g[i].attempt # d.task[k].bind.attempt
    PROVE  Agreed(Back(d, k), g, n)
<1> DEFINE e == Back(d, k)
<1>1. d \in Database /\ OneAttempt(d) /\ Numbered(d, n) /\ Owed(d, g) /\ Logged(d) /\ Known(d)
      BY DEF Agreed
<1>2. /\ e \in Database
      /\ e.task = [d.task EXCEPT ![k] =
             [state |-> "DONE", bind |-> [Unbound EXCEPT !.gen = d.task[k].bind.gen],
              req |-> NoRequest, base |-> 0]]
      /\ e.idem = d.idem
      /\ e.log = d.log
      BY <1>1, BackIs
<1> HIDE DEF e
<1>3. /\ e.task[k].state = "DONE"
      /\ \A j \in Task : j # k => e.task[j] = d.task[j]
      BY <1>1, <1>2 DEF Database
<1>4. OneAttempt(e)
      BY <1>1, <1>3 DEF OneAttempt
<1>5. \A j \in Task : Engaged(e, j) <=> Engaged(d, j) /\ j # k
      BY <1>3 DEF Engaged
<1>6. Numbered(e, n)
      BY <1>1, <1>3, <1>5 DEF Numbered
<1>7. Owed(e, g)
  <2>1. \A i \in DOMAIN g : g[i] # Foreign => g[i].task # k
        BY <1>1 DEF Owed
  <2> QED BY <1>1, <1>3, <1>5, <2>1 DEF Owed
<1>8. \A j \in Task : e.task[j].state = "MERGED" <=> d.task[j].state = "MERGED"
      BY <1>3
<1>9. Logged(e)
      BY <1>1, <1>2, <1>8 DEF Logged
<1>10. Known(e)
  <2>1. \A r \in Request : e.idem[r].status = "DONE" => e.task[Asks[r]].state = "MERGED"
        BY <1>1, <1>2, <1>8, ConnectAssumption DEF Known
  <2>2. ASSUME NEW r \in Request, InFlight(e, r), e.idem[r].bind # Unbound, Engaged(e, Asks[r])
        PROVE  OwnRequest(e, r)
    <3>1. Asks[r] \in Task /\ Asks[r] # k /\ OwnRequest(d, r)
          BY <1>1, <1>2, <1>5, <2>2, ConnectAssumption DEF Known, InFlight
    <3> QED BY <1>2, <1>3, <3>1 DEF OwnRequest
  <2>3. \A j \in Task : e.task[j].state = "CONNECTING" => j # k
        BY <1>3
  <2> QED BY <1>1, <1>2, <1>3, <2>1, <2>2, <2>3 DEF Known
<1> QED BY <1>2, <1>4, <1>6, <1>7, <1>9, <1>10 DEF Agreed, e

\* Another process answers for the attempt; its number stays.
LEMMA TakeOverAgrees ==
    ASSUME NEW d, NEW g, NEW n, Agreed(d, g, n),
           NEW k \in Task, d.task[k].state = "CONNECTING", NEW m \in Nat
    PROVE  /\ Agreed(TakeOver(d, k, m), g, n)
           /\ TakeOver(d, k, m).task[k].state = "CONNECTING"
           /\ TakeOver(d, k, m).task[k].bind.attempt = d.task[k].bind.attempt
<1> DEFINE e == TakeOver(d, k, m)
           b == Taken(d.task[k].bind, m)
<1>1. d \in Database /\ OneAttempt(d) /\ Numbered(d, n) /\ Owed(d, g) /\ Logged(d) /\ Known(d)
      BY DEF Agreed
<1>2. /\ e \in Database
      /\ e.task = [d.task EXCEPT ![k].bind = b]
      /\ e.token = [d.token EXCEPT !.bind = b]
      /\ e.idem = [r \in Request |-> IF r = d.task[k].req THEN [d.idem[r] EXCEPT !.bind = b]
                                     ELSE d.idem[r]]
      /\ e.log = d.log
      BY <1>1, TakeOverIs
<1>3. b.attempt = d.task[k].bind.attempt /\ d.task[k].bind \in Binding
      BY <1>1, BindingType DEF Taken, Database, TaskRow
<1> HIDE DEF e, b
<1>4. /\ e.task[k].state = "CONNECTING" /\ e.task[k].bind = b /\ e.task[k].req = d.task[k].req
      /\ \A j \in Task : j # k => e.task[j] = d.task[j]
      /\ e.token.task = d.token.task /\ e.token.bind = b
      BY <1>1, <1>2 DEF Database, TaskRow
<1>5. OneAttempt(e)
      BY <1>1, <1>4 DEF OneAttempt
<1>6. /\ \A j \in Task : Engaged(e, j) <=> Engaged(d, j)
      /\ \A j \in Task : e.task[j].state = d.task[j].state
      /\ \A j \in Task : e.task[j].bind.attempt = d.task[j].bind.attempt
      BY <1>3, <1>4 DEF Engaged
<1>7. Numbered(e, n)
      BY <1>1, <1>6 DEF Numbered
<1>8. Owed(e, g)
      BY <1>1, <1>6 DEF Owed
<1>9. Logged(e)
      BY <1>1, <1>2, <1>6 DEF Logged
<1>10. /\ \A r \in Request : r # d.task[k].req => e.idem[r] = d.idem[r]
       /\ \A r \in Request : r = d.task[k].req =>
             /\ Asks[r] = k /\ d.idem[r].status = "INFLIGHT"
             /\ e.idem[r] = [status |-> "INFLIGHT", bind |-> b]
  <2>1. ASSUME NEW r \in Request, r = d.task[k].req
        PROVE  /\ Asks[r] = k /\ d.idem[r].status = "INFLIGHT"
               /\ e.idem[r] = [status |-> "INFLIGHT", bind |-> b]
    <3>1. Asks[r] = k /\ d.idem[r] = [status |-> "INFLIGHT", bind |-> d.task[k].bind]
          BY <1>1, <2>1, ConnectAssumption DEF Known
    <3>2. e.idem[r] = [d.idem[r] EXCEPT !.bind = b]
          BY <1>2, <2>1
    <3> QED BY <3>1, <3>2
  <2> QED BY <1>2, <2>1
<1>11. Known(e)
  <2>1. \A r \in Request : e.idem[r].status = "DONE" => e.task[Asks[r]].state = "MERGED"
        BY <1>1, <1>6, <1>10, ConnectAssumption DEF Known
  <2>2. ASSUME NEW r \in Request, InFlight(e, r), e.idem[r].bind # Unbound, Engaged(e, Asks[r])
        PROVE  OwnRequest(e, r)
    <3>1. CASE r = d.task[k].req
          BY <1>4, <1>10, <3>1 DEF OwnRequest
    <3>2. CASE r # d.task[k].req
      <4>1. Asks[r] \in Task /\ OwnRequest(d, r)
            BY <1>1, <1>6, <1>10, <2>2, <3>2, ConnectAssumption DEF Known, InFlight
      <4>2. Asks[r] # k
            BY <3>2, <4>1 DEF OwnRequest
      <4> QED BY <1>4, <1>10, <3>2, <4>1, <4>2 DEF OwnRequest
    <3> QED BY <3>1, <3>2
  <2>3. ASSUME NEW j \in Task, e.task[j].state = "CONNECTING", e.task[j].req # NoRequest
        PROVE  /\ Asks[e.task[j].req] = j
               /\ e.idem[e.task[j].req] = [status |-> "INFLIGHT", bind |-> e.task[j].bind]
    <3>1. j = k
          BY <1>1, <1>6, <2>3 DEF OneAttempt
    <3>2. e.task[k].req \in Request
          BY <1>2, <2>3, <3>1 DEF Database, TaskRow
    <3> QED BY <1>4, <1>10, <3>1, <3>2
  <2> QED BY <2>1, <2>2, <2>3 DEF Known
<1> QED BY <1>2, <1>3, <1>4, <1>5, <1>7, <1>8, <1>9, <1>11 DEF Agreed, e

\* After a reconciliation of the requests, what is in flight is of a task
\* whose attempt is not settled, or settled in another's favour.
Reckoned(d) == \A r \in Request : InFlight(d, r) => Engaged(d, Asks[r])

\* The requests are answered by what became of their tasks.
LEMMA ReconcileAgrees ==
    ASSUME NEW d, NEW g, NEW n, Agreed(d, g, n)
    PROVE  /\ Agreed(ReconcileRequests(d), g, n)
           /\ Reckoned(ReconcileRequests(d))
           /\ ReconcileRequests(d).task = d.task
<1> DEFINE e == ReconcileRequests(d)
<1>1. d \in Database /\ OneAttempt(d) /\ Numbered(d, n) /\ Owed(d, g) /\ Logged(d) /\ Known(d)
      BY DEF Agreed
<1>2. \A r \in Request : d.idem[r] \in IdemRow /\ Asks[r] \in Task
      BY <1>1, ConnectAssumption DEF Database
<1>3. ASSUME NEW r \in Request
      PROVE  /\ Reconciled(d, r) \in IdemRow
             /\ Reconciled(d, r).bind = d.idem[r].bind
             /\ Reconciled(d, r).status \in {d.idem[r].status, "DONE", "RETRYABLE"}
             /\ Reconciled(d, r).status = "DONE" =>
                   d.idem[r].status = "DONE" \/ d.task[Asks[r]].state = "MERGED"
             /\ Reconciled(d, r).status = "INFLIGHT" =>
                   d.task[Asks[r]].state \notin {"OPEN", "DONE"}
             /\ d.task[Asks[r]].state = "CONNECTING" => Reconciled(d, r) = d.idem[r]
      BY <1>2 DEF Reconciled, IdemRow
<1>4. /\ e \in Database
      /\ e.task = d.task /\ e.token = d.token /\ e.log = d.log
      /\ \A r \in Request : e.idem[r] = Reconciled(d, r)
  <2>1. [r \in Request |-> Reconciled(d, r)] \in [Request -> IdemRow]
        BY <1>3
  <2> QED BY <1>1, <2>1 DEF ReconcileRequests, Database
<1> HIDE DEF e
<1>5. OneAttempt(e) /\ Numbered(e, n) /\ Owed(e, g) /\ Logged(e)
      BY <1>1, <1>4 DEF OneAttempt, Numbered, Owed, Logged, Engaged
<1>6. Known(e)
  <2>1. \A r \in Request : e.idem[r].status = "DONE" => e.task[Asks[r]].state = "MERGED"
        BY <1>1, <1>3, <1>4 DEF Known
  <2>2. \A r \in Request :
          InFlight(e, r) /\ e.idem[r].bind # Unbound /\ Engaged(e, Asks[r]) => OwnRequest(e, r)
        BY <1>1, <1>3, <1>4 DEF Known, InFlight, Engaged, OwnRequest
  <2>3. ASSUME NEW k \in Task, e.task[k].state = "CONNECTING", e.task[k].req # NoRequest
        PROVE  /\ Asks[e.task[k].req] = k
               /\ e.idem[e.task[k].req] = [status |-> "INFLIGHT", bind |-> e.task[k].bind]
    <3>1. d.task[k].req \in Request
          BY <1>1, <1>4, <2>3 DEF Database, TaskRow
    <3> QED BY <1>1, <1>3, <1>4, <2>3, <3>1 DEF Known
  <2> QED BY <2>1, <2>2, <2>3 DEF Known
<1>7. Reckoned(e)
  <2>1. \A k \in Task : d.task[k].state \in {"OPEN", "DONE", "CONNECTING", "MERGED"}
        BY <1>1 DEF Database, TaskRow
  <2> QED BY <1>2, <1>3, <1>4, <2>1 DEF Reckoned, InFlight, Engaged
<1> QED BY <1>4, <1>5, <1>6, <1>7 DEF Agreed, e

\* A token that no attempt answers for is dropped.
LEMMA DropToken ==
    ASSUME NEW d, NEW g, NEW n, Agreed(d, g, n),
           \A k \in Task : d.task[k].state # "CONNECTING"
    PROVE  Agreed([d EXCEPT !.token = NoToken], g, n)
<1> DEFINE e == [d EXCEPT !.token = NoToken]
<1>1. NoToken \in [task : Task \cup {NoTask}, own : BOOLEAN, bind : Binding]
      BY BindingType DEF NoToken
<1>2. /\ e \in Database
      /\ e.task = d.task /\ e.log = d.log /\ e.idem = d.idem
      BY <1>1 DEF Agreed, Database
<1> HIDE DEF e
<1>3. OneAttempt(e) /\ Numbered(e, n) /\ Owed(e, g) /\ Logged(e) /\ Known(e)
      BY <1>2 DEF Agreed, OneAttempt, Numbered, Owed, Logged, Known, Engaged, InFlight, OwnRequest
<1> QED BY <1>2, <1>3 DEF Agreed, e

\* Recovery keeps the stores in agreement, whether Git answers or not.
LEMMA RecoveredAgrees ==
    ASSUME IInv, NEW m \in Nat, NEW answers \in BOOLEAN
    PROVE  /\ Agreed(Recovered(m, answers), git, attempts)
           /\ Reckoned(Recovered(m, answers))
           /\ Recovered(m, answers) \in Database
<1>1. Agreed(DB, git, attempts) /\ DB \in Database
      BY DEF IInv, Agreed
<1>2. DB.task = task
      BY DEF DB
<1>3. CASE Connecting = {}
  <2>1. \A k \in Task : DB.task[k].state # "CONNECTING"
        BY <1>2, <1>3 DEF Connecting
  <2>2. Agreed([DB EXCEPT !.token = NoToken], git, attempts)
        BY <1>1, <2>1, DropToken
  <2>3. Recovered(m, answers) = ReconcileRequests([DB EXCEPT !.token = NoToken])
        BY <1>3 DEF Recovered
  <2> QED BY <2>2, <2>3, ReconcileAgrees DEF Agreed
<1>4. CASE Connecting # {}
  <2> DEFINE k == CHOOSE x \in Connecting : TRUE
             t == TakeOver(DB, k, m)
  <2>1. k \in Task /\ DB.task[k].state = "CONNECTING"
        BY <1>2, <1>4 DEF Connecting
  <2>2. Recovered(m, answers) = ReconcileRequests(RecoverTask(DB, k, m, answers))
        BY <1>4 DEF Recovered
  <2> HIDE DEF k
  <2>3. /\ Agreed(t, git, attempts)
        /\ t.task[k].state = "CONNECTING"
        /\ t.task[k].bind.attempt = DB.task[k].bind.attempt
        BY <1>1, <2>1, TakeOverAgrees
  <2>4. RecoverTask(DB, k, m, answers) \in
           {DB, t} \cup (IF Landed(DB.task[k].bind.attempt) THEN {Forward(t, k)} ELSE {Back(t, k)})
        BY DEF RecoverTask
  <2> HIDE DEF t
  <2>5. Landed(DB.task[k].bind.attempt) => Agreed(Forward(t, k), git, attempts)
        BY <2>1, <2>3, ForwardAgrees DEF Landed
  <2>6. ~Landed(DB.task[k].bind.attempt) => Agreed(Back(t, k), git, attempts)
        BY <2>1, <2>3, BackAgrees DEF Landed
  <2>7. Agreed(RecoverTask(DB, k, m, answers), git, attempts)
        BY <1>1, <2>3, <2>4, <2>5, <2>6
  <2> QED BY <2>2, <2>7, ReconcileAgrees DEF Agreed
<1> QED BY <1>3, <1>4

\* A row of the request table is rewritten that no open attempt is bound to.
LEMMA RowAgrees ==
    ASSUME NEW d, NEW g, NEW n, Agreed(d, g, n),
           NEW r \in Request \cup {NoRequest}, NEW row \in IdemRow,
           r \in Request => /\ row.status = "DONE" => d.task[Asks[r]].state = "MERGED"
                            /\ row.status = "INFLIGHT" => row.bind = Unbound
                            /\ \A k \in Task : d.task[k].state = "CONNECTING" => d.task[k].req # r
    PROVE  LET e == [d EXCEPT !.idem = SetRow(d, r, row)]
           IN  /\ Agreed(e, g, n)
               /\ e \in Database /\ e.task = d.task
               /\ \A q \in Request : e.idem[q] = IF q = r THEN row ELSE d.idem[q]
<1> DEFINE e == [d EXCEPT !.idem = SetRow(d, r, row)]
<1>1. d \in Database /\ OneAttempt(d) /\ Numbered(d, n) /\ Owed(d, g) /\ Logged(d) /\ Known(d)
      BY DEF Agreed
<1>2. /\ SetRow(d, r, row) \in [Request -> IdemRow]
      /\ \A q \in Request : SetRow(d, r, row)[q] = IF q = r THEN row ELSE d.idem[q]
  <2>1. d.idem \in [Request -> IdemRow]
        BY <1>1 DEF Database
  <2> QED BY <2>1, ConnectAssumption DEF SetRow
<1>3. /\ e \in Database
      /\ e.task = d.task /\ e.token = d.token /\ e.log = d.log
      /\ \A q \in Request : e.idem[q] = IF q = r THEN row ELSE d.idem[q]
      BY <1>1, <1>2 DEF Database
<1> HIDE DEF e
<1>4. OneAttempt(e) /\ Numbered(e, n) /\ Owed(e, g) /\ Logged(e)
      BY <1>1, <1>3 DEF OneAttempt, Numbered, Owed, Logged, Engaged
<1>5. Known(e)
  <2>1. \A q \in Request : e.idem[q].status = "DONE" => e.task[Asks[q]].state = "MERGED"
        BY <1>1, <1>3 DEF Known
  <2>2. \A q \in Request :
          InFlight(e, q) /\ e.idem[q].bind # Unbound /\ Engaged(e, Asks[q]) => OwnRequest(e, q)
        BY <1>1, <1>3 DEF Known, InFlight, Engaged, OwnRequest
  <2>3. ASSUME NEW k \in Task, e.task[k].state = "CONNECTING", e.task[k].req # NoRequest
        PROVE  /\ Asks[e.task[k].req] = k
               /\ e.idem[e.task[k].req] = [status |-> "INFLIGHT", bind |-> e.task[k].bind]
    <3>1. d.task[k].req \in Request /\ d.task[k].req # r
          BY <1>1, <1>3, <2>3 DEF Database, TaskRow
    <3> QED BY <1>1, <1>3, <2>3, <3>1 DEF Known
  <2> QED BY <2>1, <2>2, <2>3 DEF Known
<1>6. Agreed(e, g, n)
      BY <1>3, <1>4, <1>5 DEF Agreed
<1> QED BY <1>3, <1>6 DEF e

\* A request that is not in flight is nobody's who is CONNECTING.
LEMMA FreeRow ==
    ASSUME NEW d, NEW g, NEW n, Agreed(d, g, n), NEW r \in Request,
           ~InFlight(d, r) \/ d.idem[r].bind = Unbound
    PROVE  \A k \in Task : d.task[k].state = "CONNECTING" => d.task[k].req # r
<1> SUFFICES ASSUME NEW k \in Task, d.task[k].state = "CONNECTING", d.task[k].req = r
             PROVE  FALSE
    OBVIOUS
<1>1. d.idem[r] = [status |-> "INFLIGHT", bind |-> d.task[k].bind]
      BY ConnectAssumption DEF Agreed, Known
<1>2. d.task[k].bind.attempt \in 1..n
      BY DEF Agreed, Numbered, Engaged
<1>3. d.task[k].bind = Unbound
      BY <1>1 DEF InFlight
<1>4. d.task[k].bind.attempt = 0
      BY <1>3, BindingType
<1> QED BY <1>2, <1>4

-----------------------------------------------------------------------------
\* What a step sees of the database and of the processes.

LEMMA DBIs ==
    /\ DB.task = task /\ DB.token = token /\ DB.held = held /\ DB.idem = idem /\ DB.log = log
    /\ DB'.task = task' /\ DB'.token = token' /\ DB'.held = held' /\ DB'.idem = idem'
    /\ DB'.log = log'
BY DEF DB

LEMMA Stored ==
    ASSUME NEW d \in Database, Store(d)
    PROVE  DB' = d
BY DEF Store, DB, Database

LEMMA SameDB ==
    ASSUME task' = task, token' = token, held' = held, idem' = idem, log' = log
    PROVE  DB' = DB
BY DEF DB

\* Without the effect lock nothing goes on.
LEMMA Quiet ==
    ASSUME IInv
    PROVE  /\ \A q \in Process : lock # q => proc[q].pc = "idle" /\ Knows(q)
           /\ lock = NoProcess => child = 0
<1>1. \A q \in Process : lock # q => proc[q].pc = "idle"
      BY DEF IInv, Locked
<1>2. lock = NoProcess => child = 0
      BY ConnectAssumption DEF IInv, Locked
<1> QED BY <1>1, <1>2 DEF IInv

\* The constructor of a process.
LEMMA RecoverKeeps ==
    ASSUME IInv, NEW p \in Process, NEW answers \in BOOLEAN, Recover(p, answers)
    PROVE  IInv'
<1>1. proc[p].inst \in Nat
      BY DEF IInv, TypedRest, ProcRow
<1>2. Agreed(DB', git, attempts)
      BY <1>1, RecoveredAgrees, Stored DEF Recover
<1>3. lock = NoProcess /\ \A q \in Process : proc[q].pc = "idle"
      BY Quiet, ConnectAssumption DEF Recover, Recovers
<1>4. TypedRest'
      BY DEF IInv, TypedRest, Recover, Recovers, TreeState
<1>5. Locked' /\ CommitsOnce'
      BY <1>3, Quiet DEF IInv, Locked, CommitsOnce, Recover
<1>6. \A q \in Process : Knows(q)'
      BY <1>3 DEF Knows, Recover
<1> QED BY <1>2, <1>4, <1>5, <1>6 DEF IInv, Recover

LEMMA ReplayKeeps ==
    ASSUME IInv, NEW p \in Process, NEW k \in Task, NEW r \in Request \cup {NoRequest},
           NEW answers \in BOOLEAN, Replay(p, k, r, answers)
    PROVE  IInv'
<1> DEFINE d == Recovered(proc[p].inst, answers)
           done == [NoRow EXCEPT !.status = "DONE"]
<1>1. proc[p].inst \in Nat
      BY DEF IInv, TypedRest, ProcRow
<1>2. Agreed(d, git, attempts) /\ d \in Database
      BY <1>1, RecoveredAgrees
<1>3. Agreed(DB', git, attempts)
  <2>1. CASE Store(d)
        BY <1>2, <2>1, Stored
  <2>2. CASE /\ Status(d, r) \in {"NONE", "RETRYABLE"} /\ d.task[k].state = "MERGED"
             /\ Store([d EXCEPT !.idem = SetRow(d, r, done)])
    <3> HIDE DEF d
    <3>1. done \in IdemRow /\ done.status = "DONE"
          BY BindingType DEF NoRow, IdemRow
    <3>2. r \in Request => Asks[r] = k /\ ~InFlight(d, r)
          BY <2>2, ConnectAssumption DEF Replay, Status, InFlight
    <3> HIDE DEF done
    <3>3. r \in Request => \A j \in Task : d.task[j].state = "CONNECTING" => d.task[j].req # r
          BY <1>2, <3>2, FreeRow
    <3>4. /\ Agreed([d EXCEPT !.idem = SetRow(d, r, done)], git, attempts)
          /\ [d EXCEPT !.idem = SetRow(d, r, done)] \in Database
          BY <1>2, <2>2, <3>1, <3>2, <3>3, RowAgrees
    <3> QED BY <2>2, <3>4, Stored
  <2> QED BY <2>1, <2>2 DEF Replay
<1>4. lock = NoProcess /\ \A q \in Process : proc[q].pc = "idle"
      BY Quiet, ConnectAssumption DEF Replay, Recovers
<1>5. /\ UNCHANGED <<synced, git, child, lock, proc, attempts, deaths, saw>>
      /\ tree' = IF answers /\ RolledBack # {} THEN "clean" ELSE tree
      BY DEF Replay, Recovers
<1>6. TypedRest'
      BY <1>5 DEF IInv, TypedRest, TreeState
<1>7. Locked' /\ CommitsOnce'
      BY <1>4, <1>5, Quiet DEF IInv, Locked, CommitsOnce
<1>8. \A q \in Process : Knows(q)'
      BY <1>4, <1>5 DEF Knows
<1> QED BY <1>3, <1>5, <1>6, <1>7, <1>8 DEF IInv

LEMMA ReserveKeeps ==
    ASSUME IInv, NEW p \in Process, NEW k \in Task, NEW r \in Request \cup {NoRequest},
           NEW answers \in BOOLEAN, Reserve(p, k, r, answers)
    PROVE  IInv'
<1> DEFINE d == Recovered(proc[p].inst, answers)
           row == [NoRow EXCEPT !.status = "INFLIGHT"]
           e == [d EXCEPT !.idem = SetRow(d, r, row)]
<1>1. proc[p].inst \in Nat
      BY DEF IInv, TypedRest, ProcRow
<1>2. Agreed(d, git, attempts) /\ d \in Database /\ Reckoned(d)
      BY <1>1, RecoveredAgrees
<1>3. /\ Status(d, r) \in {"NONE", "RETRYABLE"} /\ Store(e)
      /\ r # NoRequest => Asks[r] = k
      BY DEF Reserve
<1> HIDE DEF d
<1>4. row \in IdemRow /\ row = [status |-> "INFLIGHT", bind |-> Unbound]
  <2>1. row = [status |-> "INFLIGHT", bind |-> Unbound]
        BY DEF NoRow
  <2>2. [status |-> "INFLIGHT", bind |-> Unbound] \in IdemRow
        BY BindingType DEF IdemRow
  <2> QED BY <2>1, <2>2
<1> HIDE DEF row
<1>5. r \in Request => ~InFlight(d, r)
      BY <1>3, ConnectAssumption DEF Status, InFlight
<1>6. r \in Request => \A j \in Task : d.task[j].state = "CONNECTING" => d.task[j].req # r
      BY <1>2, <1>5, FreeRow
<1>7. /\ Agreed(e, git, attempts) /\ e \in Database /\ e.task = d.task
      /\ \A q \in Request : e.idem[q] = IF q = r THEN row ELSE d.idem[q]
      BY <1>2, <1>4, <1>6, RowAgrees
<1> HIDE DEF e
<1>8. DB' = e
      BY <1>3, <1>7, Stored
<1>9. /\ lock' = p
      /\ proc' = [proc EXCEPT ![p] = [@ EXCEPT !.pc = "reserved", !.task = k, !.req = r]]
      /\ tree' \in TreeState
      /\ UNCHANGED <<synced, git, child, attempts, deaths, saw>>
      BY DEF Reserve, Recovers, IInv, TypedRest, TreeState
<1>10. lock = NoProcess /\ child = 0 /\ \A q \in Process : proc[q].pc = "idle"
      BY Quiet, ConnectAssumption DEF Reserve, Recovers
<1>11. /\ proc' \in [Process -> ProcRow]
       /\ proc'[p].pc = "reserved" /\ proc'[p].task = k /\ proc'[p].req = r
       /\ \A q \in Process : q # p => proc'[q] = proc[q]
      BY <1>9 DEF IInv, TypedRest, ProcRow
<1>12. TypedRest'
      BY <1>9, <1>11 DEF IInv, TypedRest
<1>13. Locked' /\ CommitsOnce'
      BY <1>9, <1>10, <1>11 DEF IInv, Locked, CommitsOnce
<1>14. Knows(p)'
  <2>1. r # NoRequest => idem'[r] = [status |-> "INFLIGHT", bind |-> Unbound]
        BY <1>4, <1>7, <1>8, DBIs
  <2>2. \A q \in Request : InFlight(DB', q) /\ ~Engaged(DB', Asks[q]) => q = r
        BY <1>2, <1>7, <1>8 DEF Reckoned, InFlight, Engaged
  <2> QED BY <1>3, <1>11, <2>1, <2>2 DEF Knows
<1>15. \A q \in Process : Knows(q)'
      BY <1>10, <1>11, <1>14 DEF Knows
<1>16. Agreed(DB, git, attempts)'
      BY <1>7, <1>8, <1>9
<1> QED BY <1>12, <1>13, <1>15, <1>16 DEF IInv

\* A process that is idle knows nothing it could be wrong about.
LEMMA IdleIs ==
    ASSUME NEW n \in Nat
    PROVE  Idle(n) \in ProcRow /\ Idle(n).pc = "idle"
BY BindingType DEF Idle, ProcRow

\* Who leaves a call leaves nobody in one.
LEMMA LeaveIs ==
    ASSUME IInv, NEW p \in Process, proc[p].pc # "idle", Leave(p)
    PROVE  /\ lock' = NoProcess
           /\ proc' \in [Process -> ProcRow]
           /\ \A q \in Process : proc'[q].pc = "idle"
<1>1. proc[p].inst \in Nat /\ lock = p
      BY DEF IInv, TypedRest, ProcRow, Locked
<1>2. Idle(proc[p].inst) \in ProcRow /\ Idle(proc[p].inst).pc = "idle"
      BY <1>1, IdleIs
<1>3. proc' = [proc EXCEPT ![p] = Idle(proc[p].inst)] /\ lock' = NoProcess
      BY DEF Leave
<1>4. \A q \in Process : q # p => proc[q].pc = "idle"
      BY <1>1, Quiet
<1> QED BY <1>2, <1>3, <1>4 DEF IInv, TypedRest

\* Phase A refuses.
LEMMA RefuseKeeps ==
    ASSUME IInv, NEW p \in Process, Refuse(p)
    PROVE  IInv'
<1> DEFINE r == proc[p].req
<1>1. /\ proc[p].pc = "reserved" /\ Leave(p) /\ idem' = SetRow(DB, r, NoRow)
      /\ UNCHANGED <<task, token, held, log, synced, git, tree, child, attempts, deaths, saw>>
      BY DEF Refuse
<1>2. /\ lock' = NoProcess /\ proc' \in [Process -> ProcRow]
      /\ \A q \in Process : proc'[q].pc = "idle"
      BY <1>1, LeaveIs
<1>3. r \in Request \cup {NoRequest} /\ NoRow \in IdemRow /\ NoRow.status = "NONE"
      BY BindingType DEF IInv, TypedRest, ProcRow, NoRow, IdemRow
<1>4. r \in Request => \A k \in Task : DB.task[k].state = "CONNECTING" => DB.task[k].req # r
  <2>1. r \in Request => DB.idem[r].bind = Unbound
        BY <1>1, DBIs, ConnectAssumption DEF IInv, Knows
  <2> QED BY <2>1, FreeRow DEF IInv
<1> HIDE DEF r
<1>5. LET e == [DB EXCEPT !.idem = SetRow(DB, r, NoRow)]
      IN  Agreed(e, git, attempts) /\ DB' = e
  <2>1. DB' = [DB EXCEPT !.idem = SetRow(DB, r, NoRow)]
        BY <1>1 DEF DB
  <2> QED BY <2>1, <1>3, <1>4, RowAgrees DEF IInv
<1>6. child = 0
      BY <1>1 DEF IInv, Locked
<1>7. TypedRest'
      BY <1>1, <1>2 DEF IInv, TypedRest
<1>8. Locked' /\ CommitsOnce'
      BY <1>1, <1>2, <1>6 DEF Locked, CommitsOnce
<1>9. \A q \in Process : Knows(q)'
      BY <1>2 DEF Knows
<1>10. Agreed(DB, git, attempts)'
      BY <1>1, <1>5
<1> QED BY <1>7, <1>8, <1>9, <1>10 DEF IInv

\* Attempts whose commit is in Git were made before.
LEMMA LandedWasMade ==
    ASSUME IInv
    PROVE  \A a \in Nat : Landed(a) => a <= attempts
<1> SUFFICES ASSUME NEW i \in DOMAIN git PROVE git[i].attempt \in Nat /\ git[i].attempt <= attempts
    BY DEF Landed
<1>1. attempts \in Nat /\ Owed(DB, git) /\ Numbered(DB, attempts)
      BY DEF IInv, TypedRest, Agreed
<1>2. CASE git[i] = Foreign
      BY <1>1, <1>2 DEF Foreign
<1>3. CASE git[i] # Foreign
      BY <1>1, <1>3 DEF Owed, Numbered
<1> QED BY <1>2, <1>3

\* Phase A makes an attempt.
LEMMA PrepareKeeps ==
    ASSUME IInv, NEW p \in Process, Prepare(p)
    PROVE  IInv'
<1> DEFINE k == proc[p].task
           r == proc[p].req
           b == [attempt |-> attempts + 1, owner |-> proc[p].inst, gen |-> task[k].bind.gen + 1]
           row == [status |-> "INFLIGHT", bind |-> b]
           new == [state |-> "CONNECTING", bind |-> b, req |-> r, base |-> Len(git)]
<1>1. /\ proc[p].pc = "reserved" /\ lock = p /\ Admissible(k, r)
      /\ task' = [task EXCEPT ![k] = new]
      /\ token'.task = k /\ token'.bind = b
      /\ \E own \in BOOLEAN : token' = [task |-> k, own |-> own, bind |-> b]
      /\ idem' = SetRow(DB, r, row)
      /\ proc' = [proc EXCEPT ![p] = [@ EXCEPT !.pc = "prepared", !.bind = b]]
      /\ attempts' = attempts + 1
      /\ UNCHANGED <<held, log, synced, git, tree, child, lock, deaths, saw>>
  <2>1. PICK own \in {TRUE} \cup (IF ForeignCaller THEN {FALSE} ELSE {}) :
              token' = [task |-> k, own |-> own, bind |-> b]
        BY DEF Prepare
  <2>2. own \in BOOLEAN /\ token'.task = k /\ token'.bind = b
        BY <2>1
  <2> HIDE DEF b
  <2>3. \E x \in BOOLEAN : token' = [task |-> k, own |-> x, bind |-> b]
        BY <2>1, <2>2
  <2>4. lock = p /\ proc[p].pc = "reserved"
        BY DEF Prepare, IInv, Locked
  <2> QED BY <2>2, <2>3, <2>4 DEF Prepare, b
<1>2. /\ k \in Task /\ r \in Request \cup {NoRequest} /\ (r # NoRequest => Asks[r] = k)
      /\ \A q \in Request : InFlight(DB, q) /\ ~Engaged(DB, Asks[q]) => q = r
      /\ child = 0 /\ attempts \in Nat /\ proc[p].inst \in Nat /\ proc[p] \in ProcRow
      BY <1>1 DEF IInv, Knows, TypedRest, ProcRow, Locked
<1>3. /\ DB \in Database /\ OneAttempt(DB) /\ Numbered(DB, attempts) /\ Owed(DB, git)
      /\ Logged(DB) /\ Known(DB)
      BY DEF IInv, Agreed
<1>4. task[k] \in TaskRow /\ task[k].bind \in Binding /\ task[k].state = "DONE" /\ token = NoToken
      BY <1>1, <1>2, <1>3, DBIs DEF Admissible, Database, TaskRow
<1>5. b \in Binding /\ b.attempt = attempts + 1
  <2>1. task[k].bind.gen \in Nat
        BY <1>4 DEF Binding
  <2> QED BY <1>2, <2>1 DEF Binding
<1>6. \A j \in Task : task[j].state # "CONNECTING"
      BY <1>2, <1>3, <1>4, DBIs, ConnectAssumption DEF OneAttempt, NoToken
<1>7. Len(git) \in Nat
      BY LenProperties DEF IInv, TypedRest
<1> HIDE DEF b
<1>8. row \in IdemRow /\ new \in TaskRow
      BY <1>2, <1>5, <1>7 DEF IdemRow, TaskRow
<1>9. /\ idem' \in [Request -> IdemRow]
      /\ \A q \in Request : idem'[q] = IF q = r THEN row ELSE idem[q]
  <2>1. DB.idem \in [Request -> IdemRow] /\ DB.idem = idem
        BY <1>3, DBIs DEF Database
  <2> QED BY <1>1, <1>8, <2>1, <1>2, ConnectAssumption DEF SetRow
<1>10. /\ task'[k].state = "CONNECTING" /\ task'[k].bind = b /\ task'[k].req = r
       /\ \A j \in Task : j # k => task'[j] = task[j]
       BY <1>1, <1>2, <1>3, DBIs DEF Database
<1>11. DB' \in Database
  <2> HIDE DEF new, k, r, row
  <2>1. task' \in [Task -> TaskRow]
        BY <1>1, <1>8, <1>3, DBIs DEF Database
  <2>2. token' \in [task : Task \cup {NoTask}, own : BOOLEAN, bind : Binding]
        BY <1>1, <1>2, <1>5
  <2>3. held' \in [Task -> BOOLEAN] /\ log' \in Seq(Task)
        BY <1>1, <1>3, DBIs DEF Database
  <2> QED BY <1>9, <2>1, <2>2, <2>3 DEF Database, DB
<1>12. /\ \A j \in Task : Engaged(DB', j) <=> Engaged(DB, j) \/ j = k
       /\ ~Engaged(DB, k)
       BY <1>4, <1>10, DBIs DEF Engaged
<1> HIDE DEF k, r, new
<1>13. OneAttempt(DB')
      BY <1>1, <1>6, <1>10, DBIs DEF OneAttempt
<1>14. Numbered(DB', attempts')
  <2>1. ASSUME NEW j \in Task, Engaged(DB', j), j # k
        PROVE  DB'.task[j] = DB.task[j] /\ DB.task[j].bind.attempt \in 1..attempts
        BY <1>3, <1>10, <1>12, <2>1, DBIs DEF Numbered
  <2>2. DB'.task[k].bind.attempt = attempts + 1
        BY <1>5, <1>10, DBIs
  <2>3. \A j \in Task : Engaged(DB', j) => DB'.task[j].bind.attempt \in 1..attempts'
        BY <1>1, <1>2, <2>1, <2>2
  <2>4. ASSUME NEW i \in Task, NEW j \in Task, Engaged(DB', i), Engaged(DB', j), i # j
        PROVE  DB'.task[i].bind.attempt # DB'.task[j].bind.attempt
    <3>1. CASE i = k
          BY <1>2, <2>1, <2>2, <2>4, <3>1
    <3>2. CASE j = k
          BY <1>2, <2>1, <2>2, <2>4, <3>2
    <3>3. CASE i # k /\ j # k
          BY <1>3, <1>12, <2>1, <2>4, <3>3 DEF Numbered
    <3> QED BY <3>1, <3>2, <3>3
  <2> QED BY <2>3, <2>4 DEF Numbered
<1>15. Owed(DB', git)
  <2>1. \A i \in DOMAIN git : git[i] # Foreign => git[i].task # k
        BY <1>3, <1>12 DEF Owed
  <2> QED BY <1>3, <1>10, <1>12, <2>1, DBIs DEF Owed
<1>16. \A j \in Task : task'[j].state = "MERGED" <=> task[j].state = "MERGED"
      BY <1>4, <1>10
<1>17. Logged(DB')
      BY <1>1, <1>3, <1>16, DBIs DEF Logged
<1>18. Known(DB')
  <2>1. \A q \in Request : DB'.idem[q].status = "DONE" => DB'.task[Asks[q]].state = "MERGED"
        BY <1>3, <1>9, <1>16, DBIs, ConnectAssumption DEF Known
  <2>2. ASSUME NEW q \in Request, InFlight(DB', q), DB'.idem[q].bind # Unbound, Engaged(DB', Asks[q])
        PROVE  OwnRequest(DB', q)
    <3>1. Asks[q] \in Task
          BY ConnectAssumption
    <3>2. CASE q = r
          BY <1>2, <1>9, <1>10, <3>2, DBIs, ConnectAssumption DEF OwnRequest
    <3>3. CASE q # r
      <4>1. DB'.idem[q] = DB.idem[q] /\ InFlight(DB, q)
            BY <1>9, <2>2, <3>3, DBIs DEF InFlight
      <4>2. Asks[q] # k
            BY <1>2, <1>12, <3>3, <4>1
      <4>3. OwnRequest(DB, q)
            BY <1>3, <1>12, <2>2, <3>1, <4>1, <4>2 DEF Known
      <4> QED BY <1>10, <3>1, <4>1, <4>2, <4>3, DBIs DEF OwnRequest
    <3> QED BY <3>2, <3>3
  <2>3. ASSUME NEW j \in Task, DB'.task[j].state = "CONNECTING", DB'.task[j].req # NoRequest
        PROVE  /\ Asks[DB'.task[j].req] = j
               /\ DB'.idem[DB'.task[j].req] = [status |-> "INFLIGHT", bind |-> DB'.task[j].bind]
    <3>1. j = k
          BY <1>6, <1>10, <2>3, DBIs
    <3> QED BY <1>2, <1>9, <1>10, <2>3, <3>1, DBIs
  <2> QED BY <2>1, <2>2, <2>3 DEF Known
<1>19. Agreed(DB, git, attempts)'
      BY <1>1, <1>11, <1>13, <1>14, <1>15, <1>17, <1>18 DEF Agreed
<1>20. /\ proc' \in [Process -> ProcRow]
       /\ proc'[p].pc = "prepared" /\ proc'[p].task = k /\ proc'[p].req = r
       /\ proc'[p].bind.attempt = attempts + 1
       /\ \A q \in Process : q # p => proc'[q].pc = "idle"
  <2>1. [proc[p] EXCEPT !.pc = "prepared", !.bind = b] \in ProcRow
        BY <1>2, <1>5 DEF ProcRow
  <2>2. /\ [proc[p] EXCEPT !.pc = "prepared", !.bind = b].pc = "prepared"
        /\ [proc[p] EXCEPT !.pc = "prepared", !.bind = b].task = k
        /\ [proc[p] EXCEPT !.pc = "prepared", !.bind = b].req = r
        /\ [proc[p] EXCEPT !.pc = "prepared", !.bind = b].bind = b
        BY <1>2 DEF ProcRow, k, r
  <2> DEFINE u == [proc[p] EXCEPT !.pc = "prepared", !.bind = b]
  <2> HIDE DEF u
  <2>3. u \in ProcRow /\ u.pc = "prepared" /\ u.task = k /\ u.req = r /\ u.bind = b
        BY <2>1, <2>2 DEF u
  <2>4. proc' = [proc EXCEPT ![p] = u]
        BY <1>1 DEF u
  <2>5. \A q \in Process : q # p => proc[q].pc = "idle"
        BY <1>1, Quiet
  <2> QED BY <1>5, <2>3, <2>4, <2>5 DEF IInv, TypedRest
<1>21. TypedRest'
      BY <1>1, <1>2, <1>20 DEF IInv, TypedRest
<1>22. Locked' /\ CommitsOnce'
      BY <1>1, <1>2, <1>20 DEF Locked, CommitsOnce
<1>23. \A q \in Process : Knows(q)'
  <2>1. \A i \in DOMAIN git' : git'[i].attempt # attempts + 1
    <3>1. ~Landed(attempts + 1)
          BY <1>2, LandedWasMade
    <3> QED BY <1>1, <3>1 DEF Landed
  <2>2. Knows(p)'
        BY <1>1, <1>2, <1>20, <2>1 DEF Knows, Landed
  <2> QED BY <1>20, <2>2 DEF Knows
<1> QED BY <1>19, <1>21, <1>22, <1>23 DEF IInv

-----------------------------------------------------------------------------
\* The steps that leave the database alone

\* What a process in a connect does next to itself.
LEMMA MoveIs ==
    ASSUME IInv, NEW p \in Process, proc[p].pc # "idle", NEW u \in ProcRow,
           proc' = [proc EXCEPT ![p] = u]
    PROVE  /\ lock = p
           /\ proc' \in [Process -> ProcRow] /\ proc'[p] = u
           /\ \A q \in Process : q # p => proc'[q].pc = "idle"
<1>1. proc \in [Process -> ProcRow] /\ lock = p
      BY DEF IInv, TypedRest, Locked
<1>2. \A q \in Process : q # p => proc[q].pc = "idle"
      BY <1>1, Quiet
<1> QED BY <1>1, <1>2

\* The branch was moved by others.
LEMMA FindDriftKeeps ==
    ASSUME IInv, NEW p \in Process, FindDrift(p)
    PROVE  IInv'
<1> DEFINE u == [proc[p] EXCEPT !.pc = "merged", !.err = "drift"]
<1>1. /\ proc[p].pc = "prepared" /\ proc' = [proc EXCEPT ![p] = u]
      /\ UNCHANGED <<task, token, held, idem, log, synced, git, tree, child, lock, attempts,
                     deaths, saw>>
      BY DEF FindDrift
<1>2. /\ u \in ProcRow /\ u.pc = "merged" /\ u.task = proc[p].task /\ u.req = proc[p].req
      BY DEF IInv, TypedRest, ProcRow
<1> HIDE DEF u
<1>3. /\ lock = p /\ proc' \in [Process -> ProcRow] /\ proc'[p] = u
      /\ \A q \in Process : q # p => proc'[q].pc = "idle"
      BY <1>1, <1>2, MoveIs
<1>4. child = 0
      BY <1>1, <1>3 DEF IInv, Locked
<1>5. DB' = DB
      BY <1>1, SameDB
<1>6. Agreed(DB, git, attempts)' /\ TypedRest'
      BY <1>1, <1>3, <1>5 DEF IInv, TypedRest
<1>7. Locked' /\ CommitsOnce'
      BY <1>1, <1>3, <1>4 DEF Locked, CommitsOnce
<1>8. \A q \in Process : Knows(q)'
      BY <1>1, <1>2, <1>3 DEF IInv, Knows
<1> QED BY <1>6, <1>7, <1>8 DEF IInv

\* A Git process is started for an attempt that has not landed.
LEMMA StartMergeKeeps ==
    ASSUME IInv, NEW p \in Process, StartMerge(p)
    PROVE  IInv'
<1> DEFINE u == [proc[p] EXCEPT !.pc = "merging"]
<1>1. /\ proc[p].pc = "prepared" /\ proc' = [proc EXCEPT ![p] = u]
      /\ tree' = "merging" /\ child' = proc[p].bind.attempt
      /\ UNCHANGED <<task, token, held, idem, log, synced, git, lock, attempts, deaths, saw>>
      BY DEF StartMerge
<1>2. /\ u \in ProcRow /\ u.pc = "merging" /\ u.task = proc[p].task /\ u.req = proc[p].req
      BY DEF IInv, TypedRest, ProcRow
<1> HIDE DEF u
<1>3. /\ lock = p /\ proc' \in [Process -> ProcRow] /\ proc'[p] = u
      /\ \A q \in Process : q # p => proc'[q].pc = "idle"
      BY <1>1, <1>2, MoveIs
<1>4. child' \in Nat /\ ~Landed(child')
      BY <1>1 DEF IInv, Knows, TypedRest
<1>5. DB' = DB
      BY <1>1, SameDB
<1>6. Agreed(DB, git, attempts)' /\ TypedRest'
      BY <1>1, <1>3, <1>4, <1>5 DEF IInv, TypedRest, TreeState
<1>7. Locked'
      BY <1>1, <1>2, <1>3 DEF Locked
<1>8. CommitsOnce'
      BY <1>1, <1>4 DEF CommitsOnce, Landed
<1>9. \A q \in Process : Knows(q)'
      BY <1>1, <1>2, <1>3 DEF IInv, Knows
<1> QED BY <1>6, <1>7, <1>8, <1>9 DEF IInv

\* A commit to the branch.
LEMMA CommitIs ==
    ASSUME IInv, NEW c \in Commit, git' = Append(git, c)
    PROVE  /\ git' \in Seq(Commit)
           /\ Len(git) \in Nat /\ DOMAIN git = 1..Len(git) /\ DOMAIN git' = 1..(Len(git) + 1)
           /\ git'[Len(git) + 1] = c
           /\ \A i \in 1..Len(git) : git'[i] = git[i]
BY AppendProperties DEF IInv, TypedRest

\* What landed stays, and what lands is owed.
LEMMA CommitAgrees ==
    ASSUME IInv, NEW c \in Commit, git' = Append(git, c), UNCHANGED <<DB, attempts>>,
           c # Foreign => /\ c.task \in Task /\ Engaged(DB, c.task)
                          /\ DB.task[c.task].bind.attempt = c.attempt
    PROVE  Agreed(DB, git, attempts)'
<1>1. /\ DB \in Database /\ OneAttempt(DB) /\ Numbered(DB, attempts) /\ Owed(DB, git)
      /\ Logged(DB) /\ Known(DB)
      BY DEF IInv, Agreed
<1>2. /\ Len(git) \in Nat /\ DOMAIN git = 1..Len(git) /\ DOMAIN git' = 1..(Len(git) + 1)
      /\ git'[Len(git) + 1] = c
      /\ \A i \in 1..Len(git) : git'[i] = git[i]
      BY CommitIs
<1>3. ASSUME NEW i \in DOMAIN git', git'[i] # Foreign
      PROVE  /\ git'[i].task \in Task
             /\ Engaged(DB, git'[i].task)
             /\ DB.task[git'[i].task].bind.attempt = git'[i].attempt
  <2>1. CASE i \in DOMAIN git
        BY <1>1, <1>2, <1>3, <2>1 DEF Owed
  <2>2. CASE i = Len(git) + 1
        BY <1>2, <1>3, <2>2
  <2> QED BY <1>2, <2>1, <2>2
<1>4. ASSUME NEW k \in Task, DB.task[k].state = "MERGED"
      PROVE  \E i \in DOMAIN git' : git'[i].task = k /\ git'[i].attempt = DB.task[k].bind.attempt
  <2>1. PICK i \in DOMAIN git : git[i].task = k /\ git[i].attempt = DB.task[k].bind.attempt
        BY <1>1, <1>4 DEF Owed
  <2>2. i \in DOMAIN git' /\ git'[i] = git[i]
        BY <1>2
  <2> QED BY <2>1, <2>2
<1>5. Owed(DB, git')
      BY <1>3, <1>4 DEF Owed
<1> QED BY <1>1, <1>5 DEF Agreed

\* The Git process commits what its attempt is owed.
LEMMA LandKeeps ==
    ASSUME IInv, Land
    PROVE  IInv'
<1>1. PICK k \in Connecting :
          task[k].bind.attempt = child /\ git' = Append(git, [task |-> k, attempt |-> child])
      BY DEF Land
<1>2. /\ child # 0 /\ tree = "merging" /\ tree' = "clean"
      /\ UNCHANGED <<task, token, held, idem, log, synced, child, lock, proc, attempts, deaths, saw>>
      BY DEF Land
<1> DEFINE c == [task |-> k, attempt |-> child]
<1>3. /\ c \in Commit /\ c.task = k /\ c.attempt = child /\ k \in Task
      /\ task[k].state = "CONNECTING"
      BY DEF IInv, TypedRest, Commit, Connecting
<1>4. git' = Append(git, c)
      BY <1>1
<1> HIDE DEF c
<1>5. DB' = DB
      BY <1>2, SameDB
<1>6. Agreed(DB, git, attempts)'
  <2>1. Engaged(DB, k) /\ DB.task[k].bind.attempt = c.attempt
        BY <1>1, <1>3, DBIs DEF Engaged
  <2> QED BY <1>2, <1>3, <1>4, <1>5, <2>1, CommitAgrees
<1>7. TypedRest'
      BY <1>2, <1>3, <1>4, CommitIs DEF IInv, TypedRest, TreeState
<1>8. Locked' /\ CommitsOnce'
      BY <1>2 DEF IInv, Locked, CommitsOnce
<1>9. ASSUME NEW q \in Process PROVE Knows(q)'
  <2>1. proc[q].pc \in {"merging", "idle"}
        BY <1>2, Quiet DEF IInv, Locked
  <2> QED BY <1>2, <2>1 DEF IInv, Knows
<1> QED BY <1>6, <1>7, <1>8, <1>9 DEF IInv

\* Others commit.
LEMMA DriftKeeps ==
    ASSUME IInv, Drift
    PROVE  IInv'
<1>1. /\ git' = Append(git, Foreign)
      /\ UNCHANGED <<task, token, held, idem, log, synced, tree, child, lock, proc, attempts,
                     deaths, saw>>
      BY DEF Drift
<1>2. Foreign \in Commit /\ Foreign.attempt = 0
      BY DEF Foreign, Commit
<1>3. DB' = DB
      BY <1>1, SameDB
<1>4. Agreed(DB, git, attempts)'
      BY <1>1, <1>2, <1>3, CommitAgrees
<1>5. TypedRest'
      BY <1>1, <1>2, CommitIs DEF IInv, TypedRest
<1>6. ASSUME NEW a \in Nat, a # 0, \E i \in DOMAIN git' : git'[i].attempt = a
      PROVE  Landed(a)
  <2>1. PICK i \in DOMAIN git' : git'[i].attempt = a
        BY <1>6
  <2>2. i \in DOMAIN git /\ git'[i] = git[i]
        BY <1>1, <1>2, <1>6, <2>1, CommitIs
  <2> QED BY <2>1, <2>2 DEF Landed
<1>7. Locked' /\ CommitsOnce'
      BY <1>1, <1>6 DEF IInv, TypedRest, Locked, CommitsOnce, Landed
<1>8. ASSUME NEW q \in Process PROVE Knows(q)'
  <2>1. proc[q].pc = "prepared" =>
           proc[q].bind.attempt \in Nat /\ proc[q].bind.attempt # 0 /\ ~Landed(proc[q].bind.attempt)
        BY DEF IInv, TypedRest, Knows
  <2>2. proc[q].pc = "prepared" => ~\E i \in DOMAIN git' : git'[i].attempt = proc[q].bind.attempt
        BY <1>6, <2>1
  <2>3. Knows(q) /\ Connecting' = Connecting
        BY <1>1 DEF IInv, Connecting
  <2> QED BY <1>1, <1>3, <2>2, <2>3 DEF Knows, Landed
<1> QED BY <1>4, <1>5, <1>7, <1>8 DEF IInv

\* The Git process ends, and with it the lock of a process that is gone.
LEMMA ChildEndsKeeps ==
    ASSUME IInv, NEW left \in TreeState, ChildEnds(left)
    PROVE  IInv'
<1>1. /\ child # 0 /\ child' = 0 /\ tree' = left
      /\ UNCHANGED <<task, token, held, idem, log, synced, git, attempts, deaths, saw>>
      BY DEF ChildEnds
<1>2. lock \in Process /\ proc[lock].pc \in {"merging", "idle"}
      BY <1>1 DEF IInv, Locked
<1>3. DB' = DB
      BY <1>1, SameDB
<1>4. Agreed(DB, git, attempts)'
      BY <1>1, <1>3 DEF IInv
<1>5. CommitsOnce'
      BY <1>1 DEF CommitsOnce
<1>6. CASE proc[lock].pc = "merging"
  <2> DEFINE u == [proc[lock] EXCEPT !.pc = "merged"]
  <2>1. proc' = [proc EXCEPT ![lock] = u] /\ lock' = lock
        BY <1>2, <1>6 DEF ChildEnds
  <2>2. u \in ProcRow /\ u.pc = "merged" /\ u.task = proc[lock].task /\ u.req = proc[lock].req
        BY <1>2 DEF IInv, TypedRest, ProcRow
  <2> HIDE DEF u
  <2>3. /\ proc' \in [Process -> ProcRow] /\ proc'[lock] = u
        /\ \A q \in Process : q # lock => proc'[q].pc = "idle"
        BY <1>2, <1>6, <2>1, <2>2, MoveIs
  <2>4. TypedRest'
        BY <1>1, <2>1, <2>3 DEF IInv, TypedRest
  <2>5. Locked'
        BY <1>1, <2>1, <2>3 DEF Locked
  <2>6. Knows(lock)
        BY <1>2 DEF IInv
  <2>7. \A q \in Process : Knows(q)'
        BY <1>1, <1>6, <2>2, <2>3, <2>6 DEF Knows
  <2> QED BY <1>4, <1>5, <2>4, <2>5, <2>7 DEF IInv
<1>7. CASE proc[lock].pc = "idle"
  <2>1. lock' = NoProcess /\ proc' = proc
        BY <1>2, <1>7 DEF ChildEnds
  <2>2. \A q \in Process : proc[q].pc = "idle"
        BY <1>7, Quiet
  <2>3. TypedRest'
        BY <1>1, <2>1 DEF IInv, TypedRest
  <2>4. Locked'
        BY <1>1, <2>1, <2>2 DEF Locked
  <2>5. \A q \in Process : Knows(q)'
        BY <2>1, <2>2 DEF Knows
  <2> QED BY <1>4, <1>5, <2>3, <2>4, <2>5 DEF IInv
<1> QED BY <1>2, <1>6, <1>7

-----------------------------------------------------------------------------
\* Phase C, and what happens around a connect

\* The token that nobody has is of no task that is CONNECTING.
LEMMA NobodyConnects ==
    ASSUME NEW d, NEW g, NEW n, Agreed(d, g, n), d.token = NoToken
    PROVE  \A k \in Task : d.task[k].state # "CONNECTING"
BY ConnectAssumption DEF Agreed, OneAttempt, NoToken

\* The process p settled its attempt.
LEMMA SettledKeeps ==
    ASSUME IInv, NEW p \in Process, proc[p].pc = "merged",
           NEW d \in Database, Store(d), Agreed(d, git, attempts), d.token = NoToken,
           NEW e \in {"failed", "ok"},
           proc' = [proc EXCEPT ![p] = [@ EXCEPT !.pc = "settled", !.err = e]],
           e = "ok" => d.task[proc[p].task].state = "MERGED",
           tree' \in TreeState,
           UNCHANGED <<synced, git, child, lock, attempts, deaths, saw>>
    PROVE  IInv'
<1> DEFINE u == [proc[p] EXCEPT !.pc = "settled", !.err = e]
<1>1. /\ u \in ProcRow /\ u.pc = "settled" /\ u.task = proc[p].task /\ u.req = proc[p].req
      /\ u.err = e
      BY DEF IInv, TypedRest, ProcRow
<1>2. proc' = [proc EXCEPT ![p] = u]
      OBVIOUS
<1> HIDE DEF u
<1>3. /\ lock = p /\ proc' \in [Process -> ProcRow] /\ proc'[p] = u
      /\ \A q \in Process : q # p => proc'[q].pc = "idle"
      BY <1>1, <1>2, MoveIs
<1>4. child = 0
      BY <1>3 DEF IInv, Locked
<1>5. DB' = d
      BY Stored
<1>6. Agreed(DB, git, attempts)'
      BY <1>5
<1>7. TypedRest'
      BY <1>3 DEF IInv, TypedRest
<1>8. Locked' /\ CommitsOnce'
      BY <1>3, <1>4 DEF Locked, CommitsOnce
<1>9. Connecting' = {}
  <2>1. \A k \in Task : task'[k].state # "CONNECTING"
        BY <1>5, DBIs, NobodyConnects
  <2> QED BY <2>1 DEF Connecting
<1>10. Knows(p)'
  <2>1. Knows(p)
        BY DEF IInv
  <2>2. e = "ok" => task'[proc[p].task].state = "MERGED"
        BY <1>5, DBIs
  <2> QED BY <1>1, <1>3, <1>9, <2>1, <2>2 DEF Knows
<1>11. \A q \in Process : Knows(q)'
      BY <1>3, <1>10 DEF Knows
<1> QED BY <1>6, <1>7, <1>8, <1>11 DEF IInv

LEMMA SucceedKeeps ==
    ASSUME IInv, NEW p \in Process, Succeed(p)
    PROVE  IInv'
<1> DEFINE k == proc[p].task
           d == Forward(DB, k)
<1>1. /\ proc[p].pc = "merged" /\ Owns(p) /\ Landed(proc[p].bind.attempt) /\ Store(d)
      /\ proc' = [proc EXCEPT ![p] = [@ EXCEPT !.pc = "settled", !.err = "ok"]]
      /\ UNCHANGED <<synced, git, tree, child, lock, attempts, deaths, saw>>
      BY DEF Succeed
<1>2. k \in Task /\ DB.task[k].state = "CONNECTING" /\ DB.task[k].bind = proc[p].bind
      BY <1>1, DBIs DEF Owns, IInv, Knows
<1>3. Agreed(DB, git, attempts) /\ DB \in Database /\ tree \in TreeState
      BY DEF IInv, Agreed, TypedRest
<1>4. PICK i \in DOMAIN git : git[i].attempt = DB.task[k].bind.attempt
      BY <1>1, <1>2 DEF Landed
<1>5. Agreed(d, git, attempts)
      BY <1>2, <1>3, <1>4, ForwardAgrees
<1>6. /\ d \in Database /\ d.token = NoToken
      /\ d.task = [DB.task EXCEPT ![k] = [@ EXCEPT !.state = "MERGED", !.base = 0]]
      BY <1>2, <1>3, ForwardIs
<1>7. d.task[k].state = "MERGED"
  <2>1. DB.task \in [Task -> TaskRow]
        BY <1>3 DEF Database
  <2>2. DB.task[k] \in TaskRow
        BY <1>2, <2>1
  <2> HIDE DEF d, k
  <2>3. [DB.task[k] EXCEPT !.state = "MERGED", !.base = 0].state = "MERGED"
        BY <2>2 DEF TaskRow
  <2> QED BY <1>2, <1>6, <2>1, <2>3
<1> HIDE DEF d, k
<1> QED BY <1>1, <1>3, <1>5, <1>6, <1>7, SettledKeeps DEF k

LEMMA FailKeeps ==
    ASSUME IInv, NEW p \in Process, Fail(p)
    PROVE  IInv'
<1> DEFINE k == proc[p].task
           d == Back(DB, k)
<1>1. /\ proc[p].pc = "merged" /\ Owns(p) /\ ~Landed(proc[p].bind.attempt) /\ Store(d)
      /\ proc' = [proc EXCEPT ![p] = [@ EXCEPT !.pc = "settled", !.err = "failed"]]
      /\ tree' = tree \/ tree' = "clean"
      /\ UNCHANGED <<synced, git, child, lock, attempts, deaths, saw>>
      BY DEF Fail
<1>2. k \in Task /\ DB.task[k].state = "CONNECTING" /\ DB.task[k].bind = proc[p].bind
      BY <1>1, DBIs DEF Owns, IInv, Knows
<1>3. Agreed(DB, git, attempts) /\ DB \in Database /\ tree' \in TreeState
      BY <1>1 DEF IInv, Agreed, TypedRest, TreeState
<1>4. \A i \in DOMAIN git : git[i].attempt # DB.task[k].bind.attempt
      BY <1>1, <1>2 DEF Landed
<1>5. Agreed(d, git, attempts)
      BY <1>2, <1>3, <1>4, BackAgrees
<1>6. d \in Database /\ d.token = NoToken
      BY <1>2, <1>3, BackIs
<1> HIDE DEF d, k
<1> QED BY <1>1, <1>3, <1>5, <1>6, SettledKeeps DEF k

LEMMA AbandonKeeps ==
    ASSUME IInv, NEW p \in Process, Abandon(p)
    PROVE  IInv'
<1>1. /\ proc[p].pc = "merged" /\ Leave(p)
      /\ UNCHANGED <<task, token, held, idem, log, synced, git, tree, child, attempts, deaths, saw>>
      BY DEF Abandon
<1>2. /\ lock' = NoProcess /\ proc' \in [Process -> ProcRow]
      /\ \A q \in Process : proc'[q].pc = "idle"
      BY <1>1, LeaveIs
<1>3. child = 0
      BY <1>1 DEF IInv, Locked
<1>4. DB' = DB
      BY <1>1, SameDB
<1>5. Agreed(DB, git, attempts)' /\ TypedRest'
      BY <1>1, <1>2, <1>4 DEF IInv, TypedRest
<1>6. Locked' /\ CommitsOnce'
      BY <1>1, <1>2, <1>3 DEF Locked, CommitsOnce
<1>7. \A q \in Process : Knows(q)'
      BY <1>2 DEF Knows
<1> QED BY <1>5, <1>6, <1>7 DEF IInv

\* The request id is finished after its attempt is.
LEMMA CompleteKeeps ==
    ASSUME IInv, NEW p \in Process, Complete(p)
    PROVE  IInv'
<1> DEFINE k == proc[p].task
           r == proc[p].req
           row == IF proc[p].err = "ok" THEN [idem[r] EXCEPT !.status = "DONE"] ELSE NoRow
<1>1. /\ proc[p].pc = "settled" /\ Leave(p)
      /\ idem' \in {idem, SetRow(DB, r, row)}
      /\ UNCHANGED <<task, token, held, log, synced, git, tree, child, attempts, deaths, saw>>
      BY DEF Complete
<1>2. /\ lock' = NoProcess /\ proc' \in [Process -> ProcRow]
      /\ \A q \in Process : proc'[q].pc = "idle"
      BY <1>1, LeaveIs
<1>3. /\ r \in Request \cup {NoRequest} /\ (r # NoRequest => Asks[r] = k)
      /\ Connecting = {} /\ (proc[p].err = "ok" => task[k].state = "MERGED")
      /\ Agreed(DB, git, attempts) /\ DB \in Database
      BY <1>1 DEF IInv, TypedRest, ProcRow, Knows, Agreed
<1>4. \A j \in Task : DB.task[j].state # "CONNECTING"
      BY <1>3, DBIs DEF Connecting
<1>5. r \in Request => /\ row \in IdemRow /\ row.status # "INFLIGHT"
                       /\ row.status = "DONE" => DB.task[Asks[r]].state = "MERGED"
  <2> SUFFICES ASSUME r \in Request
               PROVE  /\ row \in IdemRow /\ row.status # "INFLIGHT"
                      /\ row.status = "DONE" => DB.task[Asks[r]].state = "MERGED"
      OBVIOUS
  <2>1. NoRow \in IdemRow /\ NoRow.status = "NONE"
        BY BindingType DEF NoRow, IdemRow
  <2>2. idem[r] \in IdemRow
        BY <1>3, DBIs DEF Database
  <2>3. [idem[r] EXCEPT !.status = "DONE"] \in IdemRow
        BY <2>2 DEF IdemRow
  <2>4. [idem[r] EXCEPT !.status = "DONE"].status = "DONE"
        BY <2>2 DEF IdemRow
  <2>5. Asks[r] = k
        BY <1>3, ConnectAssumption
  <2> QED BY <1>3, <2>1, <2>3, <2>4, <2>5, DBIs
<1> HIDE DEF row, r
<1>6. Agreed(DB, git, attempts)'
  <2>1. CASE idem' = idem
    <3>1. DB' = DB
          BY <1>1, <2>1, SameDB
    <3> QED BY <1>1, <1>3, <3>1
  <2>2. CASE idem' = SetRow(DB, r, row) /\ r \in Request
    <3>1. Agreed([DB EXCEPT !.idem = SetRow(DB, r, row)], git, attempts)
          BY <1>3, <1>4, <1>5, <2>2, RowAgrees
    <3>2. DB' = [DB EXCEPT !.idem = SetRow(DB, r, row)]
          BY <1>1, <2>2 DEF DB
    <3> QED BY <1>1, <3>1, <3>2
  <2>3. CASE idem' = SetRow(DB, r, row) /\ r = NoRequest
    <3>1. idem' = idem
          BY <2>3, DBIs DEF SetRow
    <3>2. DB' = DB
          BY <1>1, <3>1, SameDB
    <3> QED BY <1>1, <1>3, <3>2
  <2> QED BY <1>1, <1>3, <2>1, <2>2, <2>3
<1>7. child = 0
      BY <1>1 DEF IInv, Locked
<1>8. TypedRest'
      BY <1>1, <1>2 DEF IInv, TypedRest
<1>9. Locked' /\ CommitsOnce'
      BY <1>1, <1>2, <1>7 DEF Locked, CommitsOnce
<1>10. \A q \in Process : Knows(q)'
      BY <1>2 DEF Knows
<1> QED BY <1>6, <1>8, <1>9, <1>10 DEF IInv

\* A process dies; what it had begun stays in the database, and its Git
\* process keeps the lock.
LEMMA DieKeeps ==
    ASSUME IInv, NEW p \in Process, Die(p)
    PROVE  IInv'
<1> DEFINE u == Idle(Cardinality(Process) + deaths + 1)
<1>1. /\ proc[p].pc # "idle" /\ deaths' = deaths + 1
      /\ proc' = [proc EXCEPT ![p] = u]
      /\ lock' = IF proc[p].pc = "merging" THEN lock ELSE NoProcess
      /\ UNCHANGED <<task, token, held, idem, log, synced, git, tree, child, attempts, saw>>
      BY DEF Die
<1>2. deaths \in Nat /\ Cardinality(Process) \in Nat
      BY ConnectAssumption, FS_CardinalityType DEF IInv, TypedRest
<1>3. u \in ProcRow /\ u.pc = "idle"
      BY <1>2, IdleIs
<1> HIDE DEF u
<1>4. /\ lock = p /\ proc' \in [Process -> ProcRow] /\ proc'[p] = u
      /\ \A q \in Process : q # p => proc'[q].pc = "idle"
      BY <1>1, <1>3, MoveIs
<1>5. \A q \in Process : proc'[q].pc = "idle"
      BY <1>3, <1>4
<1>6. proc[p].pc # "merging" => child = 0
      BY <1>1, <1>4 DEF IInv, Locked
<1>7. DB' = DB
      BY <1>1, SameDB
<1>8. Agreed(DB, git, attempts)' /\ TypedRest'
      BY <1>1, <1>2, <1>4, <1>7 DEF IInv, TypedRest
<1>9. Locked'
      BY <1>1, <1>4, <1>5, <1>6 DEF Locked
<1>10. CommitsOnce'
      BY <1>1 DEF IInv, CommitsOnce, Landed
<1>11. \A q \in Process : Knows(q)'
      BY <1>5 DEF Knows
<1> QED BY <1>8, <1>9, <1>10, <1>11 DEF IInv

\* A worktree that was put right is not about to be committed.
LEMMA RepairKeeps ==
    ASSUME IInv, Repair
    PROVE  IInv'
<1>1. /\ child = 0 /\ tree' = "clean"
      /\ UNCHANGED <<task, token, held, idem, log, synced, git, child, lock, proc, attempts,
                     deaths, saw>>
      BY DEF Repair
<1>2. DB' = DB
      BY <1>1, SameDB
<1>3. Agreed(DB, git, attempts)'
      BY <1>1, <1>2 DEF IInv
<1>4. TypedRest' /\ Locked' /\ CommitsOnce'
      BY <1>1 DEF IInv, TypedRest, TreeState, Locked, CommitsOnce
<1>5. \A q \in Process : Knows(q)'
      BY <1>1, <1>2 DEF IInv, Knows, Landed, Connecting, InFlight, Engaged
<1> QED BY <1>3, <1>4, <1>5 DEF IInv

\* The leases, pinned or not, are nothing the stores agree about.
LEMMA LoseLeasesKeeps ==
    ASSUME IInv, NEW k \in Task, LoseLeases(k)
    PROVE  IInv'
<1>1. /\ held' = [held EXCEPT ![k] = FALSE]
      /\ UNCHANGED <<task, token, idem, log, synced, git, tree, child, lock, proc, attempts,
                     deaths, saw>>
      BY DEF LoseLeases
<1>2. DB' \in Database /\ DB'.task = DB.task /\ DB'.token = DB.token /\ DB'.idem = DB.idem
      /\ DB'.log = DB.log
      BY <1>1 DEF IInv, Agreed, Database, DB
<1>3. Agreed(DB, git, attempts)'
      BY <1>1, <1>2 DEF IInv, Agreed, OneAttempt, Numbered, Owed, Logged, Known, Engaged, InFlight,
                        OwnRequest
<1>4. TypedRest' /\ Locked' /\ CommitsOnce'
      BY <1>1 DEF IInv, TypedRest, Locked, CommitsOnce, Landed
<1>5. \A q \in Process : Knows(q)'
      BY <1>1, <1>2 DEF IInv, Knows, Landed, Connecting, InFlight, Engaged
<1> QED BY <1>3, <1>4, <1>5 DEF IInv

\* A task is worked on and finished.
LEMMA WorkKeeps ==
    ASSUME IInv, NEW k \in Task, Work(k)
    PROVE  IInv'
<1> DEFINE row == [task[k] EXCEPT !.state = "DONE"]
<1>1. /\ task[k].state = "OPEN"
      /\ task' = [task EXCEPT ![k] = row]
      /\ held' = [held EXCEPT ![k] = TRUE]
      /\ UNCHANGED <<token, idem, log, synced, git, tree, child, lock, proc, attempts, deaths, saw>>
      BY DEF Work
<1>2. DB \in Database /\ task \in [Task -> TaskRow] /\ held \in [Task -> BOOLEAN]
      BY DBIs DEF IInv, Agreed, Database
<1>3. row \in TaskRow /\ row.state = "DONE" /\ row.bind = task[k].bind /\ row.req = task[k].req
      BY <1>2 DEF TaskRow
<1> HIDE DEF row
<1>4. DB' \in Database
  <2>1. task' \in [Task -> TaskRow] /\ held' \in [Task -> BOOLEAN]
        BY <1>1, <1>2, <1>3
  <2> QED BY <1>1, <1>2, <2>1 DEF Database, DB
<1>5. /\ \A j \in Task : DB'.task[j].bind = DB.task[j].bind /\ DB'.task[j].req = DB.task[j].req
      /\ \A j \in Task : \A s \in {"CONNECTING", "MERGED"} :
            DB'.task[j].state = s <=> DB.task[j].state = s
      /\ DB'.token = DB.token /\ DB'.idem = DB.idem /\ DB'.log = DB.log
      BY <1>1, <1>2, <1>3, DBIs
<1>6. \A j \in Task : Engaged(DB', j) <=> Engaged(DB, j)
      BY <1>5 DEF Engaged
<1>7. /\ \A j \in Task : DB'.task[j].state = "CONNECTING" <=> DB.task[j].state = "CONNECTING"
      /\ \A j \in Task : DB'.task[j].state = "MERGED" <=> DB.task[j].state = "MERGED"
      BY <1>5
<1>8. OneAttempt(DB') /\ Numbered(DB', attempts) /\ Owed(DB', git) /\ Logged(DB')
      BY <1>5, <1>6, <1>7 DEF IInv, Agreed, OneAttempt, Numbered, Owed, Logged
<1>9. \A r \in Request : Asks[r] \in Task
      BY ConnectAssumption
<1>10. \A r \in Request : OwnRequest(DB', r) <=> OwnRequest(DB, r)
      BY <1>5, <1>9 DEF OwnRequest
<1>11. Known(DB')
      BY <1>5, <1>6, <1>7, <1>9, <1>10 DEF IInv, Agreed, Known, InFlight
<1>12. Agreed(DB, git, attempts)'
      BY <1>1, <1>4, <1>8, <1>11 DEF Agreed
<1>13. TypedRest' /\ Locked' /\ CommitsOnce'
      BY <1>1 DEF IInv, TypedRest, Locked, CommitsOnce, Landed
<1>14. Connecting' = Connecting
      BY <1>7, DBIs DEF Connecting
<1>15. ASSUME NEW q \in Process PROVE Knows(q)'
  <2>1. Knows(q)
        BY DEF IInv
  <2>2. proc[q].pc # "idle" => task'[proc[q].task].state = "MERGED" <=> task[proc[q].task].state = "MERGED"
        BY <1>7, <2>1, DBIs DEF Knows
  <2> QED BY <1>1, <1>5, <1>6, <1>9, <1>14, <2>1, <2>2, DBIs DEF Knows, InFlight, Landed
<1> QED BY <1>12, <1>13, <1>15 DEF IInv

LEMMA MergedAreTasks ==
    ASSUME IInv
    PROVE  MergedInGit \subseteq Task
<1>1. \A i \in DOMAIN git : git[i] \in Commit
  <2>1. git \in Seq(Commit) /\ DOMAIN git = 1..Len(git)
        BY LenProperties DEF IInv, TypedRest
  <2> QED BY <2>1, ElementOfSeq
<1>2. \A i \in DOMAIN git : git[i].task \in Task \cup {NoTask}
      BY <1>1 DEF Commit
<1> QED BY <1>2 DEF MergedInGit

\* What a task has read is its agent's business.
LEMMA ReadsKeep ==
    ASSUME IInv, NEW k \in Task, ClaimRead(k) \/ Refresh(k)
    PROVE  IInv'
<1>1. UNCHANGED <<task, token, held, idem, log, git, tree, child, lock, proc, attempts, deaths>>
      BY DEF ClaimRead, Refresh
<1>2. synced' \in [Task -> Nat \cup {-1}] /\ saw' \in [Task -> SUBSET (Task \cup {NoTask})]
  <2>1. MergedInGit \subseteq Task
        BY MergedAreTasks
  <2>2. Len(log) \in Nat
        BY LenProperties, DBIs DEF IInv, Agreed, Database
  <2>3. synced \in [Task -> Nat \cup {-1}] /\ saw \in [Task -> SUBSET (Task \cup {NoTask})]
        BY DEF IInv, TypedRest
  <2>4. CASE ClaimRead(k)
        BY <2>1, <2>2, <2>3, <2>4 DEF ClaimRead
  <2>5. CASE Refresh(k)
        BY <2>1, <2>2, <2>3, <2>5 DEF Refresh
  <2> QED BY <2>4, <2>5
<1>3. DB' = DB
      BY <1>1, SameDB
<1>4. Agreed(DB, git, attempts)' /\ TypedRest' /\ Locked' /\ CommitsOnce'
      BY <1>1, <1>2, <1>3 DEF IInv, TypedRest, Locked, CommitsOnce, Landed
<1>5. \A q \in Process : Knows(q)'
      BY <1>1, <1>3 DEF IInv, Knows, Landed, Connecting
<1> QED BY <1>4, <1>5 DEF IInv

-----------------------------------------------------------------------------
\* The invariant

LEMMA InitIInv == Init => IInv
<1> SUFFICES ASSUME Init PROVE IInv
    OBVIOUS
<1>1. /\ task = [k \in Task |-> [state |-> "OPEN", bind |-> Unbound, req |-> NoRequest, base |-> 0]]
      /\ token = NoToken /\ held = [k \in Task |-> FALSE] /\ idem = [r \in Request |-> NoRow]
      /\ log = <<>> /\ synced = [k \in Task |-> -1] /\ git = <<>> /\ tree = "clean" /\ child = 0
      /\ lock = NoProcess /\ attempts = 0 /\ deaths = 0 /\ saw = [k \in Task |-> {}]
      BY DEF Init
<1>2. DB \in Database
  <2>1. task \in [Task -> TaskRow]
        BY <1>1, BindingType DEF TaskRow
  <2>2. NoToken \in [task : Task \cup {NoTask}, own : BOOLEAN, bind : Binding]
        BY BindingType DEF NoToken
  <2>3. NoRow \in IdemRow
        BY BindingType DEF NoRow, IdemRow
  <2>4. held \in [Task -> BOOLEAN] /\ idem \in [Request -> IdemRow] /\ log \in Seq(Task)
        BY <1>1, <2>3
  <2> QED BY <1>1, <2>1, <2>2, <2>4 DEF DB, Database
<1>3. \A k \in Task : DB.task[k].state = "OPEN"
      BY <1>1, DBIs
<1>4. \A r \in Request : DB.idem[r].status = "NONE"
      BY <1>1, DBIs DEF NoRow
<1>5. OneAttempt(DB) /\ Numbered(DB, attempts) /\ Owed(DB, git) /\ Known(DB)
      BY <1>1, <1>3, <1>4 DEF OneAttempt, Numbered, Owed, Known, Engaged, InFlight
<1>6. Logged(DB)
      BY <1>1, <1>3, DBIs DEF Logged, IsInjective
<1>7. proc \in [Process -> ProcRow] /\ \A p \in Process : proc[p].pc = "idle"
  <2> DEFINE n == Cardinality(Process)
             first == CHOOSE f \in Injection(Process, 1..n) : TRUE
  <2>1. n \in Nat /\ ExistsBijection(Process, 1..n)
        BY ConnectAssumption, FS_CardinalityType, Fun_ExistsBijSymmetric
  <2>2. first \in Injection(Process, 1..n)
        BY <2>1 DEF ExistsBijection, Bijection
  <2>3. \A p \in Process : first[p] \in Nat
        BY <2>1, <2>2 DEF Injection
  <2>4. proc = [p \in Process |-> Idle(first[p])]
        BY DEF Init
  <2> HIDE DEF first
  <2>5. \A p \in Process : Idle(first[p]) \in ProcRow /\ Idle(first[p]).pc = "idle"
        BY <2>3, IdleIs
  <2> QED BY <2>4, <2>5
<1>8. TypedRest
  <2>1. <<>> \in Seq(Commit)
        OBVIOUS
  <2>2. synced \in [Task -> Nat \cup {-1}]
        BY <1>1
  <2>3. saw \in [Task -> SUBSET (Task \cup {NoTask})]
        BY <1>1
  <2> QED BY <1>1, <1>7, <2>1, <2>2, <2>3 DEF TypedRest, TreeState
<1>9. Locked /\ CommitsOnce
      BY <1>1, <1>7 DEF Locked, CommitsOnce
<1>10. \A p \in Process : Knows(p)
      BY <1>7 DEF Knows
<1> QED BY <1>2, <1>5, <1>6, <1>8, <1>9, <1>10 DEF IInv, Agreed

LEMMA NextIInv == IInv /\ [Next]_vars => IInv'
<1> SUFFICES ASSUME IInv, [Next]_vars PROVE IInv'
    OBVIOUS
<1>1. ASSUME NEW p \in Process, NEW answers \in BOOLEAN, Recover(p, answers) PROVE IInv'
      BY <1>1, RecoverKeeps
<1>2. ASSUME NEW p \in Process, NEW k \in Task, NEW r \in Request \cup {NoRequest},
             NEW answers \in BOOLEAN, Replay(p, k, r, answers) \/ Reserve(p, k, r, answers)
      PROVE  IInv'
      BY <1>2, ReplayKeeps, ReserveKeeps
<1>3. ASSUME NEW p \in Process, Step(p) PROVE IInv'
      BY <1>3, RefuseKeeps, PrepareKeeps, FindDriftKeeps, StartMergeKeeps, SucceedKeeps, FailKeeps,
         AbandonKeeps, CompleteKeeps DEF Step
<1>4. CASE Land
      BY <1>4, LandKeeps
<1>5. CASE GitEnds
      BY <1>5, ChildEndsKeeps DEF GitEnds
<1>6. ASSUME NEW p \in Process, Die(p) PROVE IInv'
      BY <1>6, DieKeeps
<1>7. CASE Drift
      BY <1>7, DriftKeeps
<1>8. CASE Repair
      BY <1>8, RepairKeeps
<1>9. ASSUME NEW k \in Task, LoseLeases(k) \/ Work(k) \/ ClaimRead(k) \/ Refresh(k) PROVE IInv'
      BY <1>9, LoseLeasesKeeps, WorkKeeps, ReadsKeep
<1>10. CASE UNCHANGED vars
  <2>1. DB' = DB
        BY <1>10 DEF vars, DB
  <2>2. /\ UNCHANGED <<task, token, held, idem, log, synced, git, tree, child, lock, proc, attempts>>
        /\ UNCHANGED <<deaths, saw>>
        BY <1>10 DEF vars
  <2>3. Agreed(DB, git, attempts)'
        BY <2>1, <2>2 DEF IInv
  <2>4. TypedRest' /\ Locked' /\ CommitsOnce'
        BY <2>2 DEF IInv, TypedRest, Locked, CommitsOnce, Landed
  <2>5. \A q \in Process : Knows(q)'
        BY <2>1, <2>2 DEF IInv, Knows, Landed, Connecting
  <2> QED BY <2>3, <2>4, <2>5 DEF IInv
<1> QED BY <1>1, <1>2, <1>3, <1>4, <1>5, <1>6, <1>7, <1>8, <1>9, <1>10 DEF Next

\* Only the Git process of an attempt and others write to the branch.
LEMMA WhoCommits ==
    ASSUME [Next]_vars
    PROVE  Land \/ Drift \/ git' = git
<1>1. ASSUME NEW p \in Process, Step(p) PROVE git' = git
      BY <1>1 DEF Step, Refuse, Prepare, FindDrift, StartMerge, Succeed, Fail, Abandon, Complete
<1>2. ASSUME NEW p \in Process, NEW k \in Task, NEW r \in Request \cup {NoRequest},
             NEW answers \in BOOLEAN,
             Recover(p, answers) \/ Replay(p, k, r, answers) \/ Reserve(p, k, r, answers)
      PROVE  git' = git
      BY <1>2 DEF Recover, Replay, Reserve
<1>3. ASSUME NEW p \in Process, Die(p) PROVE git' = git
      BY <1>3 DEF Die
<1>4. ASSUME NEW k \in Task, LoseLeases(k) \/ Work(k) \/ ClaimRead(k) \/ Refresh(k) PROVE git' = git
      BY <1>4 DEF LoseLeases, Work, ClaimRead, Refresh
<1>5. CASE GitEnds \/ Repair
      BY <1>5 DEF GitEnds, ChildEnds, Repair
<1>6. ASSUME NEW p \in Process, NEW answers \in BOOLEAN, Recover(p, answers) PROVE git' = git
      BY <1>6 DEF Recover
<1> QED BY <1>1, <1>2, <1>3, <1>4, <1>5, <1>6 DEF Next, vars

\* A task that lands has not landed before.
LEMMA LandsOnceKept ==
    ASSUME IInv, LandsOnce, [Next]_vars
    PROVE  LandsOnce'
<1>1. CASE Land
  <2>1. PICK k \in Connecting :
            task[k].bind.attempt = child /\ git' = Append(git, [task |-> k, attempt |-> child])
        BY <1>1 DEF Land
  <2> DEFINE c == [task |-> k, attempt |-> child]
             n == Len(git)
  <2>2. c \in Commit /\ c.task = k /\ c.attempt = child /\ k \in Task
        BY DEF IInv, TypedRest, Commit, Connecting
  <2>3. git' = Append(git, c)
        BY <2>1
  <2> HIDE DEF c
  <2>4. /\ n \in Nat /\ DOMAIN git = 1..n /\ DOMAIN git' = 1..(n + 1) /\ git'[n + 1] = c
        /\ \A i \in 1..n : git'[i] = git[i]
        BY <2>2, <2>3, CommitIs
  <2>5. ~Landed(child)
        BY <1>1 DEF Land, IInv, CommitsOnce
  <2>6. ASSUME NEW i \in 1..n PROVE git[i].task # k
    <3>1. CASE git[i] = Foreign
          BY <2>2, <3>1, ConnectAssumption DEF Foreign
    <3>2. CASE git[i] # Foreign
      <4>1. DB.task[git[i].task].bind.attempt = git[i].attempt
            BY <2>4, <3>2 DEF IInv, Agreed, Owed
      <4>2. git[i].attempt # child
            BY <2>4, <2>5 DEF Landed
      <4> QED BY <2>1, <4>1, <4>2, DBIs
    <3> QED BY <3>1, <3>2
  <2> QED BY <2>2, <2>4, <2>6 DEF LandsOnce
<1>2. CASE Drift
  <2>1. git' = Append(git, Foreign) /\ Foreign \in Commit /\ Foreign.task = NoTask
        BY <1>2 DEF Drift, Foreign, Commit
  <2>2. /\ Len(git) \in Nat /\ DOMAIN git = 1..Len(git) /\ DOMAIN git' = 1..(Len(git) + 1)
        /\ git'[Len(git) + 1] = Foreign
        /\ \A i \in 1..Len(git) : git'[i] = git[i]
        BY <2>1, CommitIs
  <2>3. \A i \in DOMAIN git : git[i] # Foreign => git[i].task # NoTask
        BY ConnectAssumption DEF IInv, Agreed, Owed
  <2> QED BY <2>1, <2>2, <2>3 DEF LandsOnce
<1>3. CASE git' = git
      BY <1>3 DEF LandsOnce
<1> QED BY <1>1, <1>2, <1>3, WhoCommits

LEMMA Invariant == Spec => [](IInv /\ LandsOnce)
<1>1. Init => IInv /\ LandsOnce
  <2>1. Init => LandsOnce
        BY DEF Init, LandsOnce
  <2> QED BY <2>1, InitIInv
<1>2. IInv /\ LandsOnce /\ [Next]_vars => (IInv /\ LandsOnce)'
      BY NextIInv, LandsOnceKept
<1> QED BY <1>1, <1>2, PTL DEF Spec

-----------------------------------------------------------------------------
\* The theorems

\* Every row, the token, the branch and the processes keep their types, for
\* any number of processes, tasks and requests.
THEOREM TypeCorrect == Spec => []TypeOK
<1>1. IInv => TypeOK
      BY DBIs DEF IInv, TypedRest, Agreed, Database, TypeOK
<1> QED BY <1>1, Invariant, PTL

\* TwoStoresAgree: what the database calls MERGED is in Git, what is in Git is
\* MERGED or owed, and no task lands twice, whoever dies or takes over.
THEOREM StoresAgree == Spec => []TwoStoresAgree
<1>1. IInv /\ LandsOnce => TwoStoresAgree
  <2> SUFFICES ASSUME IInv, LandsOnce PROVE TwoStoresAgree
      OBVIOUS
  <2>1. Owed(DB, git)
        BY DEF IInv, Agreed
  <2>2. \A k \in Task : task[k].state = "MERGED" => Landed(task[k].bind.attempt)
        BY <2>1, DBIs DEF Owed, Landed
  <2>3. \A i \in DOMAIN git : git[i] # Foreign =>
           /\ task[git[i].task].state \in {"CONNECTING", "MERGED"}
           /\ task[git[i].task].bind.attempt = git[i].attempt
        BY <2>1, DBIs DEF Owed, Engaged
  <2> QED BY <2>2, <2>3 DEF TwoStoresAgree, LandsOnce
<1> QED BY <1>1, Invariant, PTL

\* LogIsComplete: every merge is in the merge log once, whether Phase C or
\* recovery settled it.
THEOREM LogCompletes == Spec => []LogIsComplete
<1>1. IInv => LogIsComplete
      BY DBIs DEF IInv, Agreed, Logged, LogIsComplete
<1> QED BY <1>1, Invariant, PTL

\* RequestsTellTheTruth: a request id that is DONE merged its task, and one in
\* flight for an attempt that merged is that attempt's own.
THEOREM RequestsTruth == Spec => []RequestsTellTheTruth
<1>1. IInv => RequestsTellTheTruth
  <2> SUFFICES ASSUME IInv PROVE RequestsTellTheTruth
      OBVIOUS
  <2>1. Known(DB)
        BY DEF IInv, Agreed
  <2>2. \A r \in Request : idem[r].status = "DONE" => task[Asks[r]].state = "MERGED"
        BY <2>1, DBIs DEF Known
  <2>3. ASSUME NEW r \in Request, idem[r].status = "INFLIGHT", idem[r].bind # Unbound,
               task[Asks[r]].state = "MERGED"
        PROVE  OwnRequest(DB, r)
        BY <2>1, <2>3, DBIs DEF Known, InFlight, Engaged
  <2> QED BY <2>2, <2>3 DEF RequestsTellTheTruth
<1> QED BY <1>1, Invariant, PTL

-----------------------------------------------------------------------------
\* Reads, where every read claim stamps the generation and every merge looks
\* at the reads

\* What is in Git while nothing is CONNECTING is what the log says.
LEMMA MergedIsLogged ==
    ASSUME IInv
    PROVE  /\ \A g \in 1..Len(log) : log[g] \in MergedInGit
           /\ \A j \in MergedInGit :
                 task[j].state = "CONNECTING" \/ \E g \in 1..Len(log) : log[g] = j
<1>1. /\ log \in Seq(Task) /\ DOMAIN log = 1..Len(log)
      /\ Owed(DB, git) /\ Logged(DB)
      BY LenProperties, DBIs DEF IInv, Agreed, Database
<1>2. ASSUME NEW g \in 1..Len(log) PROVE log[g] \in MergedInGit
  <2>1. log[g] \in Task /\ log[g] # NoTask
        BY <1>1, <1>2, ElementOfSeq, ConnectAssumption
  <2>2. task[log[g]].state = "MERGED"
        BY <1>1, <2>1, DBIs DEF Logged
  <2>3. \E i \in DOMAIN git : git[i].task = log[g]
        BY <1>1, <2>1, <2>2, DBIs DEF Owed
  <2> QED BY <2>1, <2>3 DEF MergedInGit
<1>3. ASSUME NEW j \in MergedInGit, task[j].state # "CONNECTING"
      PROVE  \E g \in 1..Len(log) : log[g] = j
  <2>1. PICK i \in DOMAIN git : git[i].task = j /\ j # NoTask
        BY DEF MergedInGit
  <2>2. git[i] # Foreign
        BY <2>1 DEF Foreign
  <2>3. j \in Task /\ task[j].state = "MERGED"
        BY <1>1, <1>3, <2>1, <2>2, DBIs DEF Owed, Engaged
  <2> QED BY <1>1, <2>3, DBIs DEF Logged
<1> QED BY <1>2, <1>3

\* A step that makes no attempt, reads nothing and lands nothing.
LEMMA StillInformed ==
    ASSUME IInv, Informed, UNCHANGED <<synced, saw>>, MergedInGit' = MergedInGit,
           log' = log \/ \E j \in Task : log' = Append(log, j),
           \A k \in Task : task'[k].state = "CONNECTING" => task[k].state = "CONNECTING"
    PROVE  Informed'
<1>1. /\ log \in Seq(Task) /\ Len(log) \in Nat
      /\ synced \in [Task -> Nat \cup {-1}]
      BY LenProperties, DBIs DEF IInv, TypedRest, Agreed, Database
<1>2. Len(log') \in Nat /\ Len(log) <= Len(log') /\ \A g \in 1..Len(log) : log'[g] = log[g]
      BY <1>1, AppendProperties
<1> SUFFICES ASSUME NEW k \in Task
             PROVE  /\ synced[k] <= Len(log')
                    /\ NoTask \in saw[k] => synced[k] # -1 /\ \A g \in 1..synced[k] : log'[g] \in saw[k]
                    /\ NoTask \in saw[k] /\ task'[k].state = "CONNECTING" =>
                          Reads[k] \cap MergedInGit' \subseteq saw[k] \cup {k}
    BY DEF Informed
<1>3. /\ synced[k] <= Len(log) /\ synced[k] \in Nat \cup {-1}
      /\ NoTask \in saw[k] => synced[k] # -1 /\ \A g \in 1..synced[k] : log[g] \in saw[k]
      /\ NoTask \in saw[k] /\ task[k].state = "CONNECTING" =>
            Reads[k] \cap MergedInGit \subseteq saw[k] \cup {k}
      BY <1>1 DEF Informed
<1>4. synced[k] <= Len(log')
      BY <1>1, <1>2, <1>3
<1>5. ASSUME NoTask \in saw[k], NEW g \in 1..synced[k] PROVE log'[g] \in saw[k]
  <2>1. g \in 1..Len(log)
        BY <1>1, <1>3, <1>5
  <2> QED BY <1>2, <1>3, <1>5, <2>1
<1> QED BY <1>3, <1>4, <1>5

\* Recovery adds at most one merge to the log and makes no attempt.
LEMMA RecoveredExtends ==
    ASSUME IInv, NEW m \in Nat, NEW answers \in BOOLEAN
    PROVE  LET d == Recovered(m, answers)
           IN  /\ d.log = log \/ \E j \in Task : d.log = Append(log, j)
               /\ \A k \in Task : d.task[k].state = "CONNECTING" => task[k].state = "CONNECTING"
<1> DEFINE Extends(d) ==
             /\ d.log = log \/ \E j \in Task : d.log = Append(log, j)
             /\ \A k \in Task : d.task[k].state = "CONNECTING" => task[k].state = "CONNECTING"
<1>1. DB \in Database /\ DB.task = task /\ DB.log = log
      BY DBIs DEF IInv, Agreed
<1>2. ASSUME NEW d \in Database, Extends(d) PROVE Extends(ReconcileRequests(d))
  <2>1. ReconcileRequests(d).task = d.task /\ ReconcileRequests(d).log = d.log
        BY DEF ReconcileRequests, Database
  <2> QED BY <1>2, <2>1
<1>3. CASE Connecting = {}
  <2> DEFINE d == [DB EXCEPT !.token = NoToken]
  <2>1. NoToken \in [task : Task \cup {NoTask}, own : BOOLEAN, bind : Binding]
        BY BindingType DEF NoToken
  <2>2. d \in Database /\ d.task = task /\ d.log = log
        BY <1>1, <2>1 DEF Database
  <2>3. Recovered(m, answers) = ReconcileRequests(d)
        BY <1>3 DEF Recovered
  <2> HIDE DEF d
  <2>4. Extends(d)
        BY <2>2
  <2> QED BY <1>2, <2>2, <2>3, <2>4
<1>4. CASE Connecting # {}
  <2> DEFINE k == CHOOSE x \in Connecting : TRUE
             t == TakeOver(DB, k, m)
  <2>1. k \in Task /\ task[k].state = "CONNECTING"
        BY <1>4 DEF Connecting
  <2>2. Recovered(m, answers) = ReconcileRequests(RecoverTask(DB, k, m, answers))
        BY <1>4 DEF Recovered
  <2> HIDE DEF k
  <2>3. RecoverTask(DB, k, m, answers) \in {DB, t, Forward(t, k), Back(t, k)}
        BY DEF RecoverTask
  <2>4. /\ t \in Database /\ t.log = log
        /\ \A j \in Task : j # k => t.task[j] = task[j]
    <3>1. /\ t \in Database /\ t.log = log
          /\ t.task = [DB.task EXCEPT ![k].bind = Taken(DB.task[k].bind, m)]
      <4> HIDE DEF Extends
      <4>1. DB \in Database /\ k \in Task /\ m \in Nat
            BY <1>1, <2>1
      <4>2. t.log = DB.log
            BY <4>1, TakeOverIs
      <4>3. t.task = [DB.task EXCEPT ![k].bind = Taken(DB.task[k].bind, m)]
            BY <4>1 DEF TakeOver, Taken, Database
      <4>4. t \in Database
            BY <4>1, TakeOverIs
      <4> QED BY <1>1, <4>2, <4>3, <4>4
    <3> HIDE DEF t
    <3> QED BY <1>1, <3>1 DEF Database
  <2> HIDE DEF t
  <2>5. DB \in Database /\ Extends(DB) /\ Extends(t)
        BY <1>1, <2>1, <2>4
  <2>6. /\ Forward(t, k) \in Database /\ Forward(t, k).log = Append(log, k)
        /\ \A j \in Task : j # k => Forward(t, k).task[j] = task[j]
    <3>1. Forward(t, k).task = [t.task EXCEPT ![k] = [@ EXCEPT !.state = "MERGED", !.base = 0]]
          BY <2>1, <2>4, ForwardIs
    <3>2. \A j \in Task : j # k => Forward(t, k).task[j] = t.task[j]
          BY <2>1, <2>4, <3>1 DEF Database
    <3> QED BY <2>1, <2>4, <3>2, ForwardIs
  <2>7. /\ Back(t, k) \in Database /\ Back(t, k).log = log
        /\ \A j \in Task : j # k => Back(t, k).task[j] = task[j]
    <3>1. /\ Back(t, k) \in Database /\ Back(t, k).log = t.log
          /\ Back(t, k).task = [t.task EXCEPT ![k] =
                [state |-> "DONE", bind |-> [Unbound EXCEPT !.gen = t.task[k].bind.gen],
                 req |-> NoRequest, base |-> 0]]
          BY <2>1, <2>4, BackIs
    <3>2. \A j \in Task : j # k => Back(t, k).task[j] = t.task[j]
          BY <2>1, <2>4, <3>1 DEF Database
    <3> QED BY <2>4, <3>1, <3>2
  <2>8. Extends(Forward(t, k)) /\ Extends(Back(t, k))
        BY <2>1, <2>6, <2>7
  <2> HIDE DEF Extends
  <2>9. /\ RecoverTask(DB, k, m, answers) \in Database
        /\ Extends(RecoverTask(DB, k, m, answers))
        BY <2>3, <2>4, <2>5, <2>6, <2>7, <2>8
  <2>10. Extends(Recovered(m, answers))
        BY <1>2, <2>2, <2>9
  <2> QED BY <2>10 DEF Extends
<1> QED BY <1>3, <1>4

\* The actions that are not about reads.
LEMMA OthersInformed ==
    ASSUME IInv, Informed,
           \/ \E p \in Process :
                 \/ Refuse(p) \/ FindDrift(p) \/ StartMerge(p) \/ Succeed(p) \/ Fail(p)
                 \/ Abandon(p) \/ Complete(p) \/ Die(p)
           \/ \E p \in Process, answers \in BOOLEAN : Recover(p, answers)
           \/ \E p \in Process, k \in Task, r \in Request \cup {NoRequest}, answers \in BOOLEAN :
                 Replay(p, k, r, answers) \/ Reserve(p, k, r, answers)
           \/ GitEnds \/ Repair
           \/ \E k \in Task : LoseLeases(k) \/ Work(k)
           \/ UNCHANGED vars
    PROVE  Informed'
<1>1. DB \in Database /\ task \in [Task -> TaskRow]
      BY DBIs DEF IInv, Agreed, Database
<1>2. ASSUME UNCHANGED <<task, log, git, synced, saw>> PROVE Informed'
      BY <1>2 DEF Informed, MergedInGit
<1>3. ASSUME NEW p \in Process,
             Refuse(p) \/ FindDrift(p) \/ StartMerge(p) \/ Abandon(p) \/ Complete(p) \/ Die(p)
      PROVE  Informed'
      BY <1>2, <1>3 DEF Refuse, FindDrift, StartMerge, Abandon, Complete, Die
<1>4. CASE GitEnds \/ Repair \/ UNCHANGED vars
      BY <1>2, <1>4 DEF GitEnds, ChildEnds, Repair, vars
<1>5. ASSUME NEW k \in Task, LoseLeases(k) PROVE Informed'
      BY <1>2, <1>5 DEF LoseLeases
<1>6. ASSUME NEW k \in Task, Work(k) PROVE Informed'
  <2>1. \A j \in Task : task'[j].state = "CONNECTING" => task[j].state = "CONNECTING"
        BY <1>1, <1>6 DEF Work, TaskRow
  <2>2. UNCHANGED <<synced, saw, log, git>>
        BY <1>6 DEF Work
  <2> QED BY <2>1, <2>2, StillInformed DEF MergedInGit
<1>7. ASSUME NEW p \in Process, Succeed(p) PROVE Informed'
  <2> DEFINE k == proc[p].task
  <2>1. k \in Task /\ Store(Forward(DB, k)) /\ UNCHANGED <<synced, saw, git>>
        BY <1>7 DEF Succeed, IInv, Knows
  <2>2. /\ log' = Append(log, k)
        /\ task' = [task EXCEPT ![k] = [@ EXCEPT !.state = "MERGED", !.base = 0]]
        BY <1>1, <2>1, ForwardIs, DBIs DEF Store
  <2>3. \A j \in Task : task'[j].state = "CONNECTING" => task[j].state = "CONNECTING"
        BY <1>1, <2>2 DEF TaskRow
  <2> QED BY <2>1, <2>2, <2>3, StillInformed DEF MergedInGit
<1>8. ASSUME NEW p \in Process, Fail(p) PROVE Informed'
  <2> DEFINE k == proc[p].task
  <2>1. k \in Task /\ Store(Back(DB, k)) /\ UNCHANGED <<synced, saw, git>>
        BY <1>8 DEF Fail, IInv, Knows
  <2>2. /\ log' = log
        /\ task' = [task EXCEPT ![k] =
              [state |-> "DONE", bind |-> [Unbound EXCEPT !.gen = task[k].bind.gen],
               req |-> NoRequest, base |-> 0]]
        BY <1>1, <2>1, BackIs, DBIs DEF Store
  <2>3. \A j \in Task : task'[j].state = "CONNECTING" => task[j].state = "CONNECTING"
        BY <1>1, <2>2
  <2> QED BY <2>1, <2>2, <2>3, StillInformed DEF MergedInGit
<1>9. ASSUME NEW p \in Process, NEW answers \in BOOLEAN,
             \/ Recover(p, answers)
             \/ \E k \in Task, r \in Request \cup {NoRequest} :
                   Replay(p, k, r, answers) \/ Reserve(p, k, r, answers)
      PROVE  Informed'
  <2> DEFINE d == Recovered(proc[p].inst, answers)
  <2>1. proc[p].inst \in Nat
        BY DEF IInv, TypedRest, ProcRow
  <2>2. UNCHANGED <<synced, saw, git>>
        BY <1>9 DEF Recover, Replay, Reserve
  <2>3. d \in Database
        BY <2>1, RecoveredAgrees
  <2>4. /\ d.log = log \/ \E j \in Task : d.log = Append(log, j)
        /\ \A j \in Task : d.task[j].state = "CONNECTING" => task[j].state = "CONNECTING"
        BY <2>1, RecoveredExtends
  <2>5. Store(d) \/ \E idems : Store([d EXCEPT !.idem = idems])
        BY <1>9 DEF Recover, Replay, Reserve
  <2> HIDE DEF d
  <2>6. task' = d.task /\ log' = d.log
        BY <2>3, <2>5 DEF Store, Database
  <2> QED BY <2>2, <2>4, <2>6, StillInformed DEF MergedInGit
<1> QED BY <1>3, <1>4, <1>5, <1>6, <1>7, <1>8, <1>9

\* Phase A has looked at the reads.
LEMMA PrepareInformed ==
    ASSUME ~ByBarrier, IInv, Informed, NEW p \in Process, Prepare(p)
    PROVE  Informed'
<1> DEFINE k == proc[p].task
<1>1. /\ UNCHANGED <<log, synced, git, saw>> /\ Admissible(k, proc[p].req)
      /\ \A j \in Task : j # k => task'[j] = task[j]
  <2>1. task \in [Task -> TaskRow]
        BY DBIs DEF IInv, Agreed, Database
  <2> QED BY <2>1 DEF Prepare
<1>2. /\ Len(log) \in Nat /\ synced \in [Task -> Nat \cup {-1}]
      BY LenProperties, DBIs DEF IInv, TypedRest, Agreed, Database
<1>3. k \in Task
      BY DEF Prepare, IInv, Knows
<1>4. Ghosts(k) = {} /\ \A j \in Task : task[j].state # "CONNECTING"
      BY <1>1, ConnectAssumption, DBIs DEF Admissible, IInv, Agreed, OneAttempt, NoToken
<1>5. ASSUME NoTask \in saw[k], NEW j \in Reads[k] \cap MergedInGit, j # k
      PROVE  j \in saw[k]
  <2>1. synced[k] # -1 /\ synced[k] \in Nat /\ \A g \in 1..synced[k] : log[g] \in saw[k]
        BY <1>2, <1>3, <1>5 DEF Informed
  <2>2. PICK g \in 1..Len(log) : log[g] = j
        BY <1>4, <1>5, MergedIsLogged, MergedAreTasks
  <2>3. CASE g \in 1..synced[k]
        BY <2>1, <2>2, <2>3
  <2>4. CASE g \notin 1..synced[k]
    <3>1. g \in synced[k] + 1 .. Len(log)
          BY <1>2, <2>1, <2>4
    <3>2. j \in Ghosts(k)
          BY <1>5, <2>1, <2>2, <3>1 DEF Ghosts
    <3> QED BY <1>4, <3>2
  <2> QED BY <2>3, <2>4
<1>6. MergedInGit' = MergedInGit
      BY <1>1 DEF MergedInGit
<1> HIDE DEF k
<1>7. NoTask \in saw[k] => Reads[k] \cap MergedInGit \subseteq saw[k] \cup {k}
      BY <1>5
<1> QED BY <1>1, <1>3, <1>4, <1>6, <1>7 DEF Informed

\* What others commit is no task.
LEMMA DriftLandsNothing ==
    ASSUME IInv, Drift
    PROVE  MergedInGit' = MergedInGit
<1>1. git' = Append(git, Foreign) /\ Foreign \in Commit /\ Foreign.task = NoTask
      BY DEF Drift, Foreign, Commit
<1>2. /\ Len(git) \in Nat /\ DOMAIN git = 1..Len(git) /\ DOMAIN git' = 1..(Len(git) + 1)
      /\ git'[Len(git) + 1] = Foreign
      /\ \A i \in 1..Len(git) : git'[i] = git[i]
      BY <1>1, CommitIs
<1>3. \A j \in MergedInGit' : j \in MergedInGit
      BY <1>1, <1>2 DEF MergedInGit
<1>4. \A j \in MergedInGit : j \in MergedInGit'
      BY <1>2 DEF MergedInGit
<1> QED BY <1>3, <1>4

\* What lands is what was CONNECTING.
LEMMA LandsWhat ==
    ASSUME IInv, [Next]_vars
    PROVE  \A k \in MergedInGit' \ MergedInGit :
              /\ Land /\ k \in Task /\ task[k].state = "CONNECTING"
              /\ MergedInGit' = MergedInGit \cup {k}
<1>1. CASE Land
  <2>1. PICK k \in Connecting :
            task[k].bind.attempt = child /\ git' = Append(git, [task |-> k, attempt |-> child])
        BY <1>1 DEF Land
  <2> DEFINE c == [task |-> k, attempt |-> child]
             n == Len(git)
  <2>2. /\ c \in Commit /\ c.task = k /\ k \in Task /\ k # NoTask
        /\ task[k].state = "CONNECTING"
        BY ConnectAssumption DEF IInv, TypedRest, Commit, Connecting
  <2>3. git' = Append(git, c)
        BY <2>1
  <2> HIDE DEF c
  <2>4. /\ n \in Nat /\ DOMAIN git = 1..n /\ DOMAIN git' = 1..(n + 1) /\ git'[n + 1] = c
        /\ \A i \in 1..n : git'[i] = git[i]
        BY <2>2, <2>3, CommitIs
  <2>5. MergedInGit' = MergedInGit \cup {k}
    <3>1. \A j \in MergedInGit' : j \in MergedInGit \cup {k}
          BY <2>2, <2>4 DEF MergedInGit
    <3>2. \A j \in MergedInGit : j \in MergedInGit'
          BY <2>4 DEF MergedInGit
    <3>3. k \in MergedInGit'
          BY <2>2, <2>4 DEF MergedInGit
    <3> QED BY <3>1, <3>2, <3>3
  <2> QED BY <1>1, <2>2, <2>5
<1>2. CASE Drift
      BY <1>2, DriftLandsNothing
<1>3. CASE git' = git
      BY <1>3 DEF MergedInGit
<1> QED BY <1>1, <1>2, <1>3, WhoCommits

LEMMA LandInformed ==
    ASSUME IInv, Informed, Land
    PROVE  Informed'
<1>1. /\ child # 0 /\ UNCHANGED <<task, log, synced, saw>>
      BY DEF Land
<1>2. [Next]_vars
      BY DEF Next
<1>3. \A j, k \in Task : task[j].state = "CONNECTING" /\ task[k].state = "CONNECTING" => j = k
      BY DBIs DEF IInv, Agreed, OneAttempt
<1>4. MergedInGit \subseteq MergedInGit'
  <2>1. PICK k \in Connecting : git' = Append(git, [task |-> k, attempt |-> child])
        BY DEF Land
  <2>2. [task |-> k, attempt |-> child] \in Commit
        BY DEF IInv, TypedRest, Commit, Connecting
  <2>3. /\ DOMAIN git = 1..Len(git) /\ DOMAIN git' = 1..(Len(git) + 1) /\ Len(git) \in Nat
        /\ \A i \in 1..Len(git) : git'[i] = git[i]
        BY <2>1, <2>2, CommitIs
  <2> QED BY <2>3 DEF MergedInGit
<1>5. ASSUME NEW k \in Task, NoTask \in saw[k], task[k].state = "CONNECTING"
      PROVE  Reads[k] \cap MergedInGit' \subseteq saw[k] \cup {k}
  <2>1. Reads[k] \cap MergedInGit \subseteq saw[k] \cup {k}
        BY <1>5 DEF Informed
  <2>2. \A j \in MergedInGit' \ MergedInGit : j = k
        BY <1>2, <1>3, <1>5, LandsWhat
  <2> QED BY <2>1, <2>2
<1> QED BY <1>1, <1>5 DEF Informed

\* A read claim that is granted and a refresh have seen all there is.
LEMMA ReadsInformed ==
    ASSUME ~QueuedRead, IInv, Informed, NEW k \in Task, ClaimRead(k) \/ Refresh(k)
    PROVE  Informed'
<1>1. UNCHANGED <<task, git, log>> /\ synced' = [synced EXCEPT ![k] = Len(log)]
      BY DEF ClaimRead, Refresh
<1>2. /\ Len(log) \in Nat /\ synced \in [Task -> Nat \cup {-1}]
      /\ saw \in [Task -> SUBSET (Task \cup {NoTask})]
      BY LenProperties, DBIs DEF IInv, TypedRest, Agreed, Database
<1>3. MergedInGit' = MergedInGit
      BY <1>1 DEF MergedInGit
<1>4. /\ synced'[k] = Len(log)
      /\ NoTask \in saw'[k] => MergedInGit \subseteq saw'[k]
      /\ \A j \in Task : j # k => synced'[j] = synced[j] /\ saw'[j] = saw[j]
      BY <1>1, <1>2 DEF ClaimRead, Refresh
<1>5. \A g \in 1..Len(log) : log[g] \in MergedInGit
      BY MergedIsLogged
<1>6. /\ synced'[k] <= Len(log')
      /\ NoTask \in saw'[k] => synced'[k] # -1 /\ \A g \in 1..synced'[k] : log'[g] \in saw'[k]
      /\ NoTask \in saw'[k] => Reads[k] \cap MergedInGit' \subseteq saw'[k] \cup {k}
      BY <1>1, <1>2, <1>3, <1>4, <1>5
<1> QED BY <1>1, <1>3, <1>4, <1>6 DEF Informed

LEMMA InformedKept ==
    ASSUME ~QueuedRead, ~ByBarrier
    PROVE  /\ Init => Informed
           /\ IInv /\ Informed /\ [Next]_vars => Informed'
<1>1. Init => Informed
  <2> SUFFICES ASSUME Init PROVE Informed
      OBVIOUS
  <2>1. \A k \in Task : synced[k] = -1 /\ saw[k] = {}
        BY DEF Init
  <2>2. Len(log) = 0
        BY DEF Init
  <2> QED BY <2>1, <2>2 DEF Informed
<1>2. ASSUME IInv, Informed, [Next]_vars PROVE Informed'
  <2>1. ASSUME NEW p \in Process, Prepare(p) PROVE Informed'
        BY <1>2, <2>1, PrepareInformed
  <2>2. CASE Land
        BY <1>2, <2>2, LandInformed
  <2>3. CASE Drift
    <3>1. UNCHANGED <<task, log, synced, saw>>
          BY <2>3 DEF Drift
    <3> QED BY <1>2, <2>3, <3>1, DriftLandsNothing DEF Informed
  <2>4. ASSUME NEW k \in Task, ClaimRead(k) \/ Refresh(k) PROVE Informed'
        BY <1>2, <2>4, ReadsInformed
  <2>5. CASE ~ \/ \E p \in Process : Prepare(p)
               \/ Land \/ Drift \/ \E k \in Task : ClaimRead(k) \/ Refresh(k)
        BY <1>2, <2>5, OthersInformed DEF Next, Step
  <2> QED BY <2>1, <2>2, <2>3, <2>4, <2>5
<1> QED BY <1>1, <1>2

\* NoGhostMerge: where every read claim stamps its generation and every merge
\* looks at its reads, nothing is merged on top of a change it did not read.
THEOREM NoGhosts ==
    ASSUME ~QueuedRead, ~ByBarrier
    PROVE  Spec => NoGhostMerge
<1> DEFINE Merges == \A k \in MergedInGit' \ MergedInGit :
                        NoTask \in saw[k] => Reads[k] \cap MergedInGit \subseteq saw[k] \cup {k}
<1>1. Spec => []Informed
  <2>1. Init => Informed
        BY InformedKept
  <2>2. IInv /\ Informed /\ [Next]_vars => Informed'
        BY InformedKept
  <2> QED BY <2>1, <2>2, Invariant, PTL DEF Spec
<1>2. IInv /\ Informed /\ [Next]_vars => Merges
      BY LandsWhat DEF Informed
<1>3. IInv /\ Informed /\ [Next]_vars => [Merges]_vars
      BY <1>2
<1> HIDE DEF Merges
<1>4. Spec => [][Merges]_vars
      BY <1>1, <1>3, Invariant, PTL DEF Spec
<1> QED BY <1>4 DEF Merges, NoGhostMerge
=============================================================================
