------------------------- MODULE LeaderLease_proofs -------------------------
(***************************************************************************)
(* The coordinator's singleton, for any number of processes, any labels    *)
(* and any ttls.                                                           *)
(*                                                                         *)
(* That only the process admitted last passes the guard is not inductive:  *)
(* labels may be shared, so it rests on the epochs, and on the row never   *)
(* falling back behind an epoch that a paused process may still carry.     *)
(***************************************************************************)
EXTENDS LeaderLease, TLAPS

\* No process carries an epoch the row has not reached.
EpochsDrawn == \A p \in Proc : epoch[p] <= lease.epoch

\* The process that carries the row's epoch is the one admitted last, and
\* the row is the one it wrote.
Current(p) ==
    /\ p \in admitted
    /\ lease.ttl = Ttl[p]
    /\ silent[p] = lease.age

CarrierIsCurrent ==
    \A p \in Proc : epoch[p] # NoEpoch /\ epoch[p] = lease.epoch => Current(p)

OneAdmitted == \A p, q \in admitted : p = q

IInv == TypeOK /\ EpochsDrawn /\ CarrierIsCurrent /\ OneAdmitted

\* Before the first process is admitted there is no epoch to carry.
LEMMA InitIInv == Init => IInv
BY TtlAssumption, SMT DEF Init, IInv, TypeOK, Lease, NoEpoch, Never,
                          EpochsDrawn, CarrierIsCurrent, OneAdmitted

\* Whoever passes the guard carries the row's epoch.
LEMMA LeadsCurrent ==
    ASSUME IInv, NEW p \in Proc, Leads(p)
    PROVE  Current(p)
BY DEF IInv, CarrierIsCurrent, Leads

\* No critical section of any process, and no passing of time, breaks it.
LEMMA NextIInv == IInv /\ [Next]_vars => IInv'
<1> SUFFICES ASSUME IInv, [Next]_vars
             PROVE  IInv'
    OBVIOUS
<1> USE DEF IInv, TypeOK, EpochsDrawn, CarrierIsCurrent, OneAdmitted, Current
<1>1. ASSUME NEW p \in Proc, Acquire(p)
      PROVE  IInv'
      <2>1. TypeOK'
        <3>1. label[p] \in Label /\ Ttl[p] \in 0..MaxTtl /\ 0 \in 0..Never
              BY LabelAssumption, TtlAssumption, SMT DEF Never
        <3>2. lease.epoch + 1 \in Nat
              BY DEF Lease
        <3> QED BY <1>1, <3>1, <3>2 DEF Acquire, Lease
      <2>2. /\ lease'.epoch = lease.epoch + 1 /\ lease'.ttl = Ttl[p] /\ lease'.age = 0
            /\ epoch'[p] = lease.epoch + 1
            /\ silent'[p] = 0
            /\ \A q \in Proc \ {p} : epoch'[q] = epoch[q]
            BY <1>1 DEF Acquire
      <2>3. lease.epoch \in Nat /\ epoch \in [Proc -> Nat]
            BY DEF Lease
      <2>4. EpochsDrawn'
            BY <2>2, <2>3, SMT
      <2>5. \A q \in Proc : epoch'[q] = lease'.epoch => q = p
            BY <2>2, <2>3, SMT
      <2>6. CarrierIsCurrent'
            BY <1>1, <2>2, <2>5 DEF Acquire
      <2>7. OneAdmitted'
            BY <1>1 DEF Acquire
      <2> QED BY <2>1, <2>4, <2>6, <2>7
<1>2. ASSUME NEW p \in Proc, Heartbeat(p)
      PROVE  IInv'
      <2>1. Current(p)
            BY <1>2, LeadsCurrent DEF Heartbeat
      <2>2. TypeOK'
            BY <1>2, TtlAssumption, SMT DEF Heartbeat, Lease, Never
      <2>3. EpochsDrawn' /\ OneAdmitted'
            BY <1>2 DEF Heartbeat, Lease
      <2>4. CarrierIsCurrent'
            BY <1>2, <2>1 DEF Heartbeat, Lease
      <2> QED BY <2>2, <2>3, <2>4
<1>3. ASSUME NEW p \in Proc, Resign(p)
      PROVE  IInv'
      <2>1. Current(p) /\ epoch[p] = lease.epoch
            BY <1>3, LeadsCurrent DEF Resign, Leads
      <2>2. TypeOK'
            BY <1>3, TtlAssumption, SMT DEF Resign, Lease, NoEpoch, Never
      <2>3. EpochsDrawn' /\ OneAdmitted'
            BY <1>3, SMT DEF Resign, Lease, NoEpoch
      <2>4. \A q \in Proc : epoch[q] # NoEpoch /\ epoch[q] = lease.epoch => q = p
            BY <2>1
      <2>5. CarrierIsCurrent'
            BY <1>3, <2>4 DEF Resign, Lease
      <2> QED BY <2>2, <2>3, <2>5
<1>4. ASSUME NEW p \in Proc, Crash(p)
      PROVE  IInv'
      BY <1>4, SMT DEF Crash, Lease, NoEpoch
<1>5. CASE Tick
      <2>1. \A n \in 0..Never : Older(n) \in 0..Never
            BY TtlAssumption, SMT DEF Older, Never
      <2>2. TypeOK'
            BY <1>5, <2>1 DEF Tick, Lease
      <2>3. EpochsDrawn' /\ OneAdmitted'
            BY <1>5 DEF Tick, Lease
      <2>4. CarrierIsCurrent'
            BY <1>5 DEF Tick, Lease
      <2> QED BY <2>2, <2>3, <2>4
<1>6. CASE UNCHANGED vars
      BY <1>6 DEF vars
<1> QED BY <1>1, <1>2, <1>3, <1>4, <1>5, <1>6 DEF Next

\* So it holds in every state of every behaviour.
LEMMA Inductive == Spec => []IInv
BY InitIInv, NextIInv, PTL DEF Spec

\* The row and every process's view of it keep their types.
THEOREM LeaseTypeCorrect == Spec => []TypeOK
<1>1. IInv => TypeOK
      BY DEF IInv
<1> QED BY <1>1, Inductive, PTL

\* Of all the processes that ever opened the database only the one admitted
\* last can change it: paused leaders and reused labels included.
THEOREM SingleWriter == Spec => []OnlyTheLastWrites
<1>1. IInv => OnlyTheLastWrites
      BY LeadsCurrent DEF OnlyTheLastWrites, Current
<1> QED BY <1>1, Inductive, PTL

\* One step cannot fence out a leader whose heartbeat is in time.
LEMMA StepKeepsPromptLeader ==
    ASSUME IInv, [Next]_vars, NEW p \in Proc, Leads(p), silent[p] <= Ttl[p]
    PROVE  Leads(p)' \/ epoch'[p] = NoEpoch
<1>1. Current(p)
      BY LeadsCurrent
<1>2. LeaderAlive
      BY <1>1 DEF LeaderAlive, Leads, Current
<1>3. ASSUME NEW q \in Proc, Acquire(q)
      PROVE  FALSE
      BY <1>2, <1>3 DEF Acquire
<1>4. ASSUME NEW q \in Proc, Heartbeat(q)
      PROVE  Leads(p)'
      BY <1>4 DEF Heartbeat, Leads, IInv, TypeOK, Lease
<1>5. ASSUME NEW q \in Proc, Resign(q)
      PROVE  epoch'[p] = NoEpoch
      <2>1. p = q
            BY <1>1, <1>5, LeadsCurrent DEF Resign, Current, IInv, OneAdmitted
      <2> QED BY <1>5, <2>1 DEF Resign, IInv, TypeOK
<1>6. ASSUME NEW q \in Proc, Crash(q)
      PROVE  Leads(p)' \/ epoch'[p] = NoEpoch
      BY <1>6 DEF Crash, Leads, IInv, TypeOK
<1>7. CASE Tick
      BY <1>7 DEF Tick, Leads, IInv, TypeOK, Lease
<1>8. CASE UNCHANGED vars
      BY <1>8 DEF vars, Leads
<1> QED BY <1>3, <1>4, <1>5, <1>6, <1>7, <1>8 DEF Next

\* A leader that is prompt by its own ttl is never overtaken, whatever
\* ttl the processes that try to start were given.
THEOREM PromptLeaderIsSafe == Spec => PromptLeaderStays
<1>1. IInv /\ [Next]_vars =>
        [\A p \in Proc :
            Leads(p) /\ silent[p] <= Ttl[p] => Leads(p)' \/ epoch'[p] = NoEpoch]_vars
      BY StepKeepsPromptLeader
<1> QED BY <1>1, Inductive, PTL DEF Spec, PromptLeaderStays
=============================================================================
