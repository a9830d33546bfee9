-------------------------- MODULE SchemaCacheProofs --------------------------
(* Safety of the schema lock for any number of processes. *)
EXTENDS SchemaCache, TLAPS

\* Every step of a process keeps the records well typed.
LEMMA TypeStep == ASSUME TypeOK, [Next]_vars PROVE TypeOK'
<1> USE SchemaCacheAssumption DEF TypeOK, PC, Critical, Waiting, Version
<1>1. ASSUME NEW p \in Procs, Call(p) \/ Enter(p) \/ Acquire(p) \/ Queue(p) PROVE TypeOK'
  BY <1>1 DEF Call, Enter, Acquire, Queue, Goto
<1>2. ASSUME NEW p \in Procs, Check(p) \/ Build(p) \/ Fill(p) \/ PersistManifest(p)
      PROVE TypeOK'
  <2>1. CASE Check(p)
    BY <2>1 DEF Check, Goto
  <2>2. CASE Build(p)
    BY <2>2 DEF Build, Goto
  <2>3. CASE Fill(p)
    BY <2>3 DEF Fill, Goto
  <2>4. CASE PersistManifest(p)
    BY <2>4 DEF PersistManifest, Goto
  <2> QED BY <1>2, <2>1, <2>2, <2>3, <2>4
<1>3. ASSUME NEW p \in Procs, Extend(p) \/ BuildFails(p) \/ Release(p) PROVE TypeOK'
  <2>1. CASE Extend(p)
    BY <2>1 DEF Extend, Goto
  <2>2. CASE BuildFails(p)
    BY <2>2 DEF BuildFails, Goto
  <2>3. CASE Release(p)
    BY <2>3 DEF Release, Goto
  <2> QED BY <1>3, <2>1, <2>2, <2>3
<1>4. ASSUME NEW p \in Procs, Poll(p) \/ LookAtLock(p) PROVE TypeOK'
  BY <1>4 DEF Poll, LookAtLock, Goto
<1>5. ASSUME NEW p \in Procs, Initialise(p) \/ StoreBase(p) \/ Regenerate(p) \/ Clear(p)
      PROVE TypeOK'
  <2>1. CASE Initialise(p)
    BY <2>1 DEF Initialise, Goto
  <2>2. CASE StoreBase(p)
    BY <2>2 DEF StoreBase, Goto
  <2>3. CASE Regenerate(p)
    BY <2>3 DEF Regenerate, Goto
  <2>4. CASE Clear(p)
    BY <2>4 DEF Clear, Goto
  <2> QED BY <1>5, <2>1, <2>2, <2>3, <2>4
<1>6. ASSUME NEW p \in Procs, Done(p) \/ Crash(p) PROVE TypeOK'
  BY <1>6 DEF Done, Crash, Goto
<1>7. CASE Edit \/ Expire
  BY <1>7 DEF Edit, Expire
<1>8. CASE Tick
  BY <1>8 DEF Tick
<1>9. CASE UNCHANGED vars
  BY <1>9 DEF vars
<1> QED
  BY <1>1, <1>2, <1>3, <1>4, <1>5, <1>6, <1>7, <1>8, <1>9 DEF Next, Step

\* Whatever expires, dies or is edited, the records stay well typed.
THEOREM TypeCorrect == Spec => []TypeOK
<1>1. Init => TypeOK
  BY SchemaCacheAssumption DEF Init, TypeOK, PC, Critical, Waiting, Version
<1>2. TypeOK /\ [Next]_vars => TypeOK'
  BY TypeStep
<1> QED BY <1>1, <1>2, PTL DEF Spec

-----------------------------------------------------------------------------

\* The lock stands for the process in the critical section: as long as locks
\* outlive their holders' work, whoever is inside is the holder of a live lock.
Owned == \A p \in Procs : pc[p] \in Critical => lock > 0 /\ holder = p

Inductive == TypeOK /\ Owned /\ NoNeedlessBuild

\* Ownership survives every step in which no lock expires under its holder.
LEMMA OwnedStep == ASSUME TypeOK, Owned, [Next /\ InTime]_vars PROVE Owned'
<1> SUFFICES ASSUME NEW q \in Procs, pc'[q] \in Critical PROVE lock' > 0 /\ holder' = q
  BY DEF Owned
<1>1. ASSUME NEW p \in Procs, Acquire(p) PROVE lock' > 0 /\ holder' = q
  <2>1. lock' > 0 /\ holder' = p
    BY <1>1, SchemaCacheAssumption DEF Acquire
  <2>2. q # p => pc[q] \in Critical
    BY <1>1 DEF Acquire, Goto, TypeOK
  <2>3. lock = 0
    BY <1>1 DEF Acquire
  <2> QED BY <2>1, <2>2, <2>3 DEF Owned, TypeOK
<1>2. ASSUME NEW p \in Procs, Release(p) PROVE lock' > 0 /\ holder' = q
  <2>1. q # p /\ pc[q] \in Critical /\ pc[p] \in Critical
    BY <1>2 DEF Release, Goto, TypeOK, Critical
  <2> QED BY <2>1 DEF Owned
<1>3. CASE Tick /\ InTime
  <2>1. pc[q] \in Critical /\ pc' = pc
    BY <1>3 DEF Tick
  <2>2. lock # 1
    BY <1>3, <2>1 DEF Tick, InTime
  <2> QED BY <1>3, <2>1, <2>2 DEF Tick, Owned, TypeOK
<1>4. ASSUME UNCHANGED <<lock, holder>>, pc'[q] \in Critical => pc[q] \in Critical
      PROVE lock' > 0 /\ holder' = q
  BY <1>4 DEF Owned
<1>5. ASSUME NEW p \in Procs,
             Call(p) \/ Enter(p) \/ Queue(p) \/ Check(p) \/ Build(p) \/ Fill(p) \/ Extend(p)
             \/ BuildFails(p) \/ PersistManifest(p) \/ Poll(p) \/ LookAtLock(p)
             \/ Initialise(p) \/ StoreBase(p) \/ Regenerate(p) \/ Clear(p) \/ Done(p) \/ Crash(p)
      PROVE UNCHANGED <<lock, holder>> /\ (pc'[q] \in Critical => pc[q] \in Critical)
  <2> USE DEF Goto, TypeOK, Critical, Building
  <2>1. CASE Call(p) \/ Enter(p) \/ Queue(p) \/ Check(p)
    BY <2>1 DEF Call, Enter, Queue, Check
  <2>2. CASE Build(p) \/ Fill(p) \/ PersistManifest(p) \/ Extend(p) \/ BuildFails(p)
    BY <2>2 DEF Build, Fill, PersistManifest, Extend, BuildFails
  <2>3. CASE Poll(p) \/ LookAtLock(p) \/ Initialise(p) \/ StoreBase(p)
    BY <2>3 DEF Poll, LookAtLock, Initialise, StoreBase
  <2>4. CASE Regenerate(p) \/ Clear(p) \/ Done(p) \/ Crash(p)
    BY <2>4 DEF Regenerate, Clear, Done, Crash
  <2> QED BY <1>5, <2>1, <2>2, <2>3, <2>4
<1>6. CASE Edit \/ Expire
  BY <1>4, <1>6 DEF Edit, Expire
<1>7. CASE UNCHANGED vars
  BY <1>4, <1>7 DEF vars
<1> QED
  BY <1>1, <1>2, <1>3, <1>4, <1>5, <1>6, <1>7 DEF Next, Step

\* Two owners would be the same process.
LEMMA OwnedExcludes == Owned => MutualExclusion
  BY DEF Owned, MutualExclusion

\* Only the one process in the critical section writes the complete blueprints,
\* and it has stopped building by then.
LEMMA BuildStep ==
  ASSUME TypeOK, Owned, NoNeedlessBuild, [Next /\ InTime]_vars PROVE NoNeedlessBuild'
<1> USE DEF Building, Critical
<1> SUFFICES ASSUME NEW q \in Procs, pc'[q] \in Building PROVE complete' = 0
  BY DEF NoNeedlessBuild
<1>1. ASSUME NEW p \in Procs, Extend(p) PROVE complete' = 0
  <2>1. q # p /\ pc[q] \in Critical /\ pc[p] \in Critical
    BY <1>1 DEF Extend, Goto, TypeOK
  <2> QED BY <2>1 DEF Owned
<1>2. ASSUME NEW p \in Procs,
             Check(p) \/ Build(p) \/ Fill(p) \/ PersistManifest(p) \/ BuildFails(p)
      PROVE complete' = 0
  BY <1>2 DEF Check, Build, Fill, PersistManifest, BuildFails, Goto, TypeOK, NoNeedlessBuild
<1>3. ASSUME NEW p \in Procs, Clear(p) PROVE complete' = 0
  BY <1>3 DEF Clear
<1>4. ASSUME complete' \in {complete, 0}, pc[q] \in Building PROVE complete' = 0
  BY <1>4 DEF NoNeedlessBuild
<1>5. ASSUME NEW p \in Procs, Call(p) \/ Enter(p) \/ Acquire(p) \/ Queue(p) \/ Release(p)
      PROVE complete' \in {complete, 0} /\ pc[q] \in Building
  BY <1>5 DEF Call, Enter, Acquire, Queue, Release, Goto, TypeOK
<1>6. ASSUME NEW p \in Procs,
             Poll(p) \/ LookAtLock(p) \/ Initialise(p) \/ StoreBase(p) \/ Regenerate(p)
             \/ Done(p) \/ Crash(p)
      PROVE complete' \in {complete, 0} /\ pc[q] \in Building
  BY <1>6 DEF Poll, LookAtLock, Initialise, StoreBase, Regenerate, Done, Crash, Goto, TypeOK
<1>7. CASE Edit \/ Expire \/ Tick
  BY <1>4, <1>7 DEF Edit, Expire, Tick
<1>8. CASE UNCHANGED vars
  BY <1>4, <1>8 DEF vars
<1> QED
  BY <1>1, <1>2, <1>3, <1>4, <1>5, <1>6, <1>7, <1>8 DEF Next, Step

\* The inductive invariant of the timely behaviours.
THEOREM Invariant == TimelySpec => []Inductive
<1>1. Init => Inductive
  BY SchemaCacheAssumption
  DEF Init, Inductive, TypeOK, Owned, NoNeedlessBuild, PC, Critical, Building, Waiting, Version
<1>2. Inductive /\ [Next /\ InTime]_vars => Inductive'
  <2> SUFFICES ASSUME Inductive, [Next /\ InTime]_vars PROVE Inductive'
    OBVIOUS
  <2>1. TypeOK'
    BY TypeStep DEF Inductive
  <2>2. Owned'
    BY OwnedStep DEF Inductive
  <2>3. NoNeedlessBuild'
    BY BuildStep DEF Inductive
  <2> QED BY <2>1, <2>2, <2>3 DEF Inductive
<1> QED BY <1>1, <1>2, PTL DEF TimelySpec

\* Blueprints are never created by two processes at once, provided the creation
\* fits in the lock's timeout.
THEOREM Exclusion == TimelySpec => []MutualExclusion
<1>1. Inductive => MutualExclusion
  BY OwnedExcludes DEF Inductive
<1> QED BY <1>1, Invariant, PTL

\* Nor are blueprints created that are cached already.
THEOREM OnlyNeededBuilds == TimelySpec => []NoNeedlessBuild
<1>1. Inductive => NoNeedlessBuild
  BY DEF Inductive
<1> QED BY <1>1, Invariant, PTL

\* The unconditional delete of the finally clause hits the process's own lock.
THEOREM OwnRelease == TimelySpec => ReleasesItsOwn
<1>1. Inductive =>
        \A p \in Procs :
            pc[p] = "releasing" /\ pc'[p] \in {"loaded", "failed"} /\ lock > 0 => holder = p
  BY DEF Inductive, Owned, Critical
<1> QED BY <1>1, Invariant, PTL DEF ReleasesItsOwn
=============================================================================
