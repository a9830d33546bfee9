------------------------- MODULE ProjectsCacheProofs -------------------------
(* Theorems about ProjectsCache, for any number of projects, requests,       *)
(* workers and views, and any bounds.                                        *)
EXTENDS ProjectsCache, TLAPS

\* One step of the cache, as one fact: TypeOK is inductive.
LEMMA TypeStep ==
    ASSUME ProjectsCacheAssumption, TypeOK, [Next]_vars
    PROVE  TypeOK'
<1> USE DEF TypeOK, NoDraft, Builders, Warming, Queued, Goto, bvars, dvars
<1>1. ASSUME NEW e \in Editors, NEW p \in Projects, Save(e, p) PROVE TypeOK'
  BY <1>1 DEF Save
<1>2. ASSUME NEW e \in Editors, Schedule(e) PROVE TypeOK'
  <2>1. forced' \in 0..MaxQueue /\ faults' \in 0..MaxFaults
    BY <1>2, ProjectsCacheAssumption DEF Schedule, ProjectsCacheAssumption
  <2>3. excused' \in BOOLEAN
    BY <1>2 DEF Schedule
  <2>2. /\ edit' \in [Editors -> {"idle", "saved", "asked"}]
        /\ \A f \in Editors : edit'[f] = "idle" <=> edit[f] = "idle"
    BY <1>2 DEF Schedule
  <2> QED BY <2>1, <2>2, <2>3, <1>2 DEF Schedule
<1>3. ASSUME NEW e \in Editors, Commit(e) PROVE TypeOK'
  BY <1>3, ProjectsCacheAssumption DEF Commit, ProjectsCacheAssumption
<1>4. ASSUME NEW e \in Editors, Rollback(e) PROVE TypeOK'
  BY <1>4 DEF Rollback
<1>5. ASSUME NEW p \in Projects, Import(p) PROVE TypeOK'
  BY <1>5, ProjectsCacheAssumption DEF Import, ProjectsCacheAssumption
<1>6. ASSUME Queue PROVE TypeOK'
  BY <1>6, ProjectsCacheAssumption DEF Queue, ProjectsCacheAssumption
<1>7. ASSUME Timeout PROVE TypeOK'
  BY <1>7 DEF Timeout
<1>8. ASSUME Evict PROVE TypeOK'
  BY <1>8 DEF Evict
<1>9. ASSUME NEW w \in Workers, Take(w) PROVE TypeOK'
  <2>1. forced' \in 0..MaxQueue /\ plain' \in 0..MaxQueue
    BY <1>9, ProjectsCacheAssumption DEF Take, ProjectsCacheAssumption
  <2>3. excused' \in BOOLEAN
    BY <1>9 DEF Take
  <2>2. /\ holder' \in Workers \cup {"nobody"}
        /\ pc' \in [Builders -> {"idle"} \cup Warming]
    BY <1>9 DEF Take, Acquire
  <2> QED BY <2>1, <2>2, <2>3, <1>9 DEF Take
<1>10. ASSUME NEW w \in Workers, Periodic(w) PROVE TypeOK'
  BY <1>10 DEF Periodic, Acquire
<1>11. ASSUME NEW w \in Workers, Release(w) PROVE TypeOK'
  BY <1>11 DEF Release
<1>12. ASSUME NEW b \in Builders, View(b) PROVE TypeOK'
  BY <1>12 DEF View
<1>13. ASSUME NEW b \in Builders, Look(b) PROVE TypeOK'
  BY <1>13 DEF Look, Finished
<1>14. ASSUME NEW b \in Builders, Fetch(b) PROVE TypeOK'
  BY <1>14 DEF Fetch
<1>15. ASSUME NEW b \in Builders, Filter(b) PROVE TypeOK'
  BY <1>15 DEF Filter
<1>16. ASSUME NEW b \in Builders, Store(b) PROVE TypeOK'
  <2>1. faults' \in 0..MaxFaults
    BY <1>16, ProjectsCacheAssumption DEF Store, ProjectsCacheAssumption
  <2>4. cached' \in BOOLEAN /\ shown' \subseteq Projects /\ excused' \in BOOLEAN
    BY <1>16 DEF Store
  <2>2. older' \subseteq Builders
    BY <1>16 DEF Store, Outdated
  <2>3. pc' \in [Builders -> {"idle"} \cup Warming] /\ read' \in [Builders -> SUBSET Projects]
    BY <1>16 DEF Store, Finished
  <2> QED BY <2>1, <2>2, <2>3, <2>4, <1>16 DEF Store
<1>17. ASSUME NEW b \in Builders, Fail(b) PROVE TypeOK'
  BY <1>17, ProjectsCacheAssumption DEF Fail, Finished, ProjectsCacheAssumption
<1>18. ASSUME NEW b \in Builders, Die(b) PROVE TypeOK'
  BY <1>18, ProjectsCacheAssumption DEF Die, ProjectsCacheAssumption
<1>19. ASSUME UNCHANGED vars PROVE TypeOK'
  BY <1>19 DEF vars
<1> QED
  BY <1>1, <1>2, <1>3, <1>4, <1>5, <1>6, <1>7, <1>8, <1>9, <1>10, <1>11, <1>12, <1>13,
     <1>14, <1>15, <1>16, <1>17, <1>18, <1>19
  DEF Next, Build

\* The type invariant of cache, queue, lock and builders.
THEOREM TypeCorrect == ASSUME ProjectsCacheAssumption PROVE Spec => []TypeOK
<1>1. Init => TypeOK
  <2> SUFFICES ASSUME Init PROVE TypeOK
    OBVIOUS
  <2>1. NoDraft \in [of : SUBSET Projects, show : BOOLEAN]
    BY DEF NoDraft
  <2>2. 0 \in 0..MaxQueue /\ 0 \in 0..MaxChanges /\ 0 \in 0..MaxFaults
    BY ProjectsCacheAssumption DEF ProjectsCacheAssumption
  <2> QED BY <2>1, <2>2 DEF Init, TypeOK, Builders
<1>2. TypeOK /\ [Next]_vars => TypeOK'
  BY TypeStep, ProjectsCacheAssumption
<1> QED BY <1>1, <1>2, PTL DEF Spec

-----------------------------------------------------------------------------
(* The warming lock *)

\* A worker that is at work holds the lock.
Locked == \A w \in Workers : pc[w] # "idle" => holder = w

LockInv == ~late => Locked /\ WarmingsAreOrdered

\* Acquiring, however it ends, keeps to the lock.
LEMMA AcquireLocked ==
    ASSUME ProjectsCacheAssumption, TypeOK, Locked, NEW w \in Workers, pc[w] = "idle",
           NEW l \in Warming, Acquire(w, l)
    PROVE  Locked'
BY DEF ProjectsCacheAssumption, TypeOK, Locked, Acquire, Goto, Builders

\* The step that moves one builder on, and not out of its warming.
LEMMA MoveLocked ==
    ASSUME TypeOK, Locked, NEW b \in Builders, NEW l \in {"idle"} \cup Warming,
           Goto(b, l), b \in Workers => pc[b] # "idle" \/ l = "idle", holder' = holder
    PROVE  Locked'
BY DEF TypeOK, Locked, Goto

\* As long as no lock expires under its holder, every worker at work holds it.
LEMMA LockedStep ==
    ASSUME ProjectsCacheAssumption, TypeOK, Locked, [Next]_vars, ~late'
    PROVE  Locked'
<1> USE DEF bvars, dvars
<1>1. ASSUME UNCHANGED <<pc, holder>> PROVE Locked'
  BY <1>1 DEF Locked
<1>2. ASSUME NEW w \in Workers, Take(w) PROVE Locked'
  BY <1>2, AcquireLocked DEF Take, Warming
<1>3. ASSUME NEW w \in Workers, Periodic(w) PROVE Locked'
  BY <1>3, AcquireLocked DEF Periodic, Warming
<1>4. ASSUME NEW w \in Workers, Release(w) PROVE Locked'
  BY <1>4 DEF Release, Locked, TypeOK, Goto, Builders
<1>5. ASSUME NEW b \in Builders, View(b) PROVE Locked'
  <2>1. b \notin Workers
    BY <1>5 DEF View, ProjectsCacheAssumption
  <2> QED BY <1>5, <2>1, MoveLocked DEF View, Warming
<1>6. ASSUME NEW b \in Builders, Build(b) \/ Fail(b) \/ Die(b) PROVE Locked'
  BY <1>6, MoveLocked DEF Build, Look, Fetch, Filter, Store, Fail, Die, Finished, Warming
<1>7. ASSUME Timeout PROVE Locked'
  BY <1>7 DEF Timeout, Locked, TypeOK, Builders
<1> QED
  BY <1>1, <1>2, <1>3, <1>4, <1>5, <1>6, <1>7
  DEF Next, vars, Save, Schedule, Commit, Rollback, Import, Queue, Evict

\* While the lock is kept, no other worker has read when a warming stores.
LEMMA OrderedStep ==
    ASSUME ProjectsCacheAssumption, TypeOK, Locked, WarmingsAreOrdered, ~late,
           [Next]_vars, ~late'
    PROVE  WarmingsAreOrdered'
<1>1. CASE \E b \in Builders : Store(b)
  <2> PICK b \in Builders : Store(b)
    BY <1>1
  <2>1. CASE b \in Workers
    <3>1. Outdated(b) \cap Workers = {}
      BY <2>1 DEF Outdated, Locked, Store
    <3> QED BY <2>1, <3>1 DEF Store, WarmingsAreOrdered
  <2>2. CASE b \notin Workers
    BY <2>2 DEF Store, WarmingsAreOrdered
  <2> QED BY <2>1, <2>2
<1>2. CASE ~\E b \in Builders : Store(b)
  <2>1. older' \subseteq older
    BY <1>2
    DEF Next, vars, dvars, bvars, Save, Schedule, Commit, Rollback, Import, Queue, Timeout,
        Evict, Take, Periodic, Release, View, Build, Look, Fetch, Filter, Fail, Die
  <2> QED BY <2>1 DEF WarmingsAreOrdered
<1> QED BY <1>1, <1>2

\* late is never taken back.
LEMMA LateStays ==
    ASSUME TypeOK, [Next]_vars, late
    PROVE  late'
BY DEF Next, vars, dvars, bvars, Save, Schedule, Commit, Rollback, Import, Queue, Timeout,
       Evict, Take, Periodic, Release, View, Build, Look, Fetch, Filter, Store, Fail, Die

\* What the warming lock is for: however many workers, views and requests there
\* are, warmings do not overtake one another unless a lock expires.
THEOREM WarmingsStayOrdered ==
    ASSUME ProjectsCacheAssumption PROVE Spec => []WarmingsAreOrdered
<1>1. Init => LockInv
  BY DEF Init, LockInv, Locked, WarmingsAreOrdered, Builders
<1>2. TypeOK /\ LockInv /\ [Next]_vars => LockInv'
  BY LockedStep, OrderedStep, LateStays, ProjectsCacheAssumption DEF LockInv
<1>3. LockInv => WarmingsAreOrdered
  BY DEF LockInv, WarmingsAreOrdered
<1>4. Spec => []TypeOK
  BY TypeCorrect, ProjectsCacheAssumption
<1> QED BY <1>1, <1>2, <1>3, <1>4, PTL DEF Spec

-----------------------------------------------------------------------------
(* Withdrawn projects *)

Storing == {b \in Builders : pc[b] = "storing"}

Rebuilding == \E w \in Workers : pc[w] \in {"fetching", "filtering", "storing"}

\* A request that has asked and is not committed yet has its refresh queued.
AskedIsQueued == (\E e \in Editors : edit[e] = "asked") => forced > 0

\* What the views are about to store shows nothing that was withdrawn, and what
\* the workers store does only while another refresh is to come.
FreshReads ==
    /\ \A b \in Storing \cap Views : read[b] \subseteq public
    /\ forced = 0 => \A b \in Storing : read[b] \subseteq public

\* Nor does the snapshot, unless it is about to be replaced.
FreshSnapshot == forced = 0 /\ ~Rebuilding => shown \subseteq public

GoneInv == ~excused => ~late /\ Locked /\ AskedIsQueued /\ FreshReads /\ FreshSnapshot

\* An expired lock is an excuse, and an excuse stays one.
LEMMA ExcuseStays ==
    ASSUME TypeOK, [Next]_vars, ~excused', ~excused => ~late
    PROVE  ~excused /\ ~late'
<1> USE DEF dvars, bvars
<1>0. excused \in BOOLEAN
  BY DEF TypeOK
<1>1. CASE \E e \in Editors : Schedule(e) \/ Commit(e)
  <2>1. excused => excused'
    BY <1>0, <1>1 DEF Schedule, Commit
  <2>2. UNCHANGED late
    BY <1>1 DEF Schedule, Commit
  <2> QED BY <2>1, <2>2
<1>2. CASE \E w \in Workers : Take(w)
  <2>1. excused => excused'
    BY <1>0, <1>2 DEF Take
  <2>2. UNCHANGED late
    BY <1>2 DEF Take
  <2> QED BY <2>1, <2>2
<1>3. CASE \E b \in Builders : Store(b) \/ Fail(b) \/ Die(b)
  BY <1>3 DEF Store, Fail, Die
<1>4. CASE Timeout
  BY <1>4 DEF Timeout
<1>5. CASE UNCHANGED <<excused, late>>
  BY <1>5
<1> QED
  BY <1>1, <1>2, <1>3, <1>4, <1>5
  DEF Next, vars, Save, Rollback, Import, Queue, Evict, Periodic, Release, View, Build,
      Look, Fetch, Filter

\* Requests, imports and what else leaves the builders where they are.
LEMMA GoneElsewhere ==
    ASSUME ProjectsCacheAssumption, TypeOK, ~excused, ~excused',
           AskedIsQueued, FreshReads, FreshSnapshot,
           \/ \E e \in Editors : \E p \in Projects : Save(e, p)
           \/ \E e \in Editors : Schedule(e) \/ Commit(e) \/ Rollback(e)
           \/ \E p \in Projects : Import(p)
           \/ Queue \/ Timeout \/ Evict
           \/ UNCHANGED vars
    PROVE  AskedIsQueued' /\ FreshReads' /\ FreshSnapshot'
<1> USE DEF AskedIsQueued, FreshReads, FreshSnapshot, Storing, Rebuilding, Builders,
        bvars, dvars, ProjectsCacheAssumption
<1>0. forced \in Nat
  BY DEF TypeOK
<1>1. ASSUME NEW e \in Editors, NEW p \in Projects, Save(e, p)
      PROVE AskedIsQueued' /\ FreshReads' /\ FreshSnapshot'
  BY <1>1 DEF Save, TypeOK
<1>2. ASSUME NEW e \in Editors, Schedule(e)
      PROVE AskedIsQueued' /\ FreshReads' /\ FreshSnapshot'
  <2>1. forced' = forced + 1
    BY <1>2 DEF Schedule
  <2> QED BY <1>0, <1>2, <2>1 DEF Schedule
<1>3. ASSUME NEW e \in Editors, Commit(e)
      PROVE AskedIsQueued' /\ FreshReads' /\ FreshSnapshot'
  <2>1. forced > 0 /\ forced' = forced
    BY <1>3 DEF Commit
  <2>2. \A b \in Views : pc'[b] # "storing"
    BY <1>3 DEF Commit
  <2> QED BY <1>0, <2>1, <2>2
<1>4. ASSUME NEW e \in Editors, Rollback(e)
      PROVE AskedIsQueued' /\ FreshReads' /\ FreshSnapshot'
  BY <1>4 DEF Rollback, TypeOK
<1>5. ASSUME NEW p \in Projects, Import(p)
      PROVE AskedIsQueued' /\ FreshReads' /\ FreshSnapshot'
  BY <1>5 DEF Import
<1>6. ASSUME Queue PROVE AskedIsQueued' /\ FreshReads' /\ FreshSnapshot'
  BY <1>0, <1>6 DEF Queue
<1>7. ASSUME Timeout \/ Evict \/ UNCHANGED vars
      PROVE AskedIsQueued' /\ FreshReads' /\ FreshSnapshot'
  BY <1>7 DEF Timeout, Evict, vars
<1> QED BY <1>1, <1>2, <1>3, <1>4, <1>5, <1>6, <1>7

\* Taking a task: the last forced one starts the refresh that was asked for.
LEMMA GoneTake ==
    ASSUME ProjectsCacheAssumption, TypeOK, ~excused, ~excused', Locked,
           AskedIsQueued, FreshReads, FreshSnapshot, NEW w \in Workers, Take(w)
    PROVE  AskedIsQueued' /\ FreshReads' /\ FreshSnapshot'
<1> USE DEF TypeOK, Storing, Rebuilding, Builders, bvars, dvars, Acquire, Goto
<1>0. pc[w] = "idle" /\ UNCHANGED <<edit, read, public, shown>>
  BY DEF Take
<1>1. CASE forced' = forced
  <2>1. Storing' = Storing
    BY <1>0 DEF Take
  <2>2. ~Rebuilding' => ~Rebuilding
    BY <1>0 DEF Take
  <2> QED BY <1>0, <1>1, <2>1, <2>2 DEF AskedIsQueued, FreshReads, FreshSnapshot
<1>2. CASE forced' # forced
  <2>1. ~Vain
    BY <1>2 DEF Take
  <2>2. pc' = [pc EXCEPT ![w] = "fetching"]
    BY <1>2, <2>1 DEF Take, Vain
  <2>3. AskedIsQueued'
    BY <1>0, <2>1 DEF Vain, AskedIsQueued
  <2>4. \A b \in Storing' : b \in Storing \cap Views
    BY <2>1, <2>2 DEF Vain, Locked, ProjectsCacheAssumption
  <2>5. Rebuilding'
    BY <2>2
  <2> QED BY <1>0, <2>3, <2>4, <2>5 DEF FreshReads, FreshSnapshot
<1> QED BY <1>1, <1>2

\* A builder's step, but for the store.
LEMMA GoneMove ==
    ASSUME ProjectsCacheAssumption, TypeOK, ~excused, ~excused',
           AskedIsQueued, FreshReads, FreshSnapshot,
           \/ \E w \in Workers : Periodic(w) \/ Release(w)
           \/ \E b \in Builders : View(b) \/ Look(b) \/ Fetch(b) \/ Filter(b)
    PROVE  AskedIsQueued' /\ FreshReads' /\ FreshSnapshot'
<1> USE DEF TypeOK, Builders, bvars, dvars, Goto
<1>0. UNCHANGED <<edit, public, shown, forced>>
  BY DEF Periodic, Release, View, Look, Fetch, Filter
<1>1. \A b \in Storing' :
        (b \in Storing /\ read'[b] = read[b]) \/ read'[b] \subseteq public
  BY DEF Storing, Periodic, Acquire, Release, View, Look, Fetch, Filter, Finished
<1>2. ~Rebuilding' => ~Rebuilding
  BY DEF Rebuilding, Periodic, Acquire, Release, View, Look, Fetch, Filter, Finished,
         ProjectsCacheAssumption
<1> QED BY <1>0, <1>1, <1>2 DEF AskedIsQueued, FreshReads, FreshSnapshot

\* The store: what is shown now was read after the last withdrawal, or another
\* refresh is queued.
LEMMA GoneStore ==
    ASSUME ProjectsCacheAssumption, TypeOK, ~excused, ~excused', Locked,
           AskedIsQueued, FreshReads, FreshSnapshot, NEW b \in Builders, Store(b)
    PROVE  AskedIsQueued' /\ FreshReads' /\ FreshSnapshot'
<1> USE DEF TypeOK, Builders, bvars, dvars, Goto
<1>1. /\ UNCHANGED <<edit, public, forced>>
      /\ shown' = read[b] /\ b \in Storing
  BY DEF Store, Storing
<1>2. \A c \in Storing' : c \in Storing /\ read'[c] = read[c]
  BY DEF Store, Storing, Finished
<1>3. forced = 0 => shown' \subseteq public
  BY <1>1 DEF FreshReads
<1> QED BY <1>1, <1>2, <1>3 DEF AskedIsQueued, FreshReads, FreshSnapshot

\* Failures are excuses.
LEMMA GoneFails ==
    ASSUME NEW b \in Builders, Fail(b) \/ Die(b)
    PROVE  excused'
BY DEF Fail, Die

\* "Revert a project back to restricted workspace visibility", for any number of
\* projects, requests and builders: the refresh a request asks for takes what it
\* withdrew out of the snapshot, but for the excuses the property names.
THEOREM WithdrawnIsGone ==
    ASSUME ProjectsCacheAssumption PROVE Spec => []UnpublishedIsGone
<1>1. Init => GoneInv
  BY DEF Init, GoneInv, Locked, AskedIsQueued, FreshReads, FreshSnapshot, Storing, Builders
<1>2. TypeOK /\ GoneInv /\ [Next]_vars => GoneInv'
  <2> SUFFICES ASSUME TypeOK, GoneInv, [Next]_vars, ~excused'
               PROVE  ~late' /\ Locked' /\ AskedIsQueued' /\ FreshReads' /\ FreshSnapshot'
    BY DEF GoneInv
  <2>1. ~excused /\ ~late'
    BY ExcuseStays DEF GoneInv
  <2>2. Locked /\ AskedIsQueued /\ FreshReads /\ FreshSnapshot
    BY <2>1 DEF GoneInv
  <2>3. Locked'
    BY <2>1, <2>2, LockedStep, ProjectsCacheAssumption
  <2>4. AskedIsQueued' /\ FreshReads' /\ FreshSnapshot'
    <3>1. CASE \E w \in Workers : Take(w)
      BY <2>1, <2>2, <3>1, GoneTake, ProjectsCacheAssumption
    <3>2. CASE \/ \E w \in Workers : Periodic(w) \/ Release(w)
               \/ \E b \in Builders : View(b) \/ Look(b) \/ Fetch(b) \/ Filter(b)
      BY <2>1, <2>2, <3>2, GoneMove, ProjectsCacheAssumption
    <3>3. CASE \E b \in Builders : Store(b)
      BY <2>1, <2>2, <3>3, GoneStore, ProjectsCacheAssumption
    <3>4. CASE \E b \in Builders : Fail(b) \/ Die(b)
      BY <3>4, GoneFails
    <3>5. CASE \/ \E e \in Editors : \E p \in Projects : Save(e, p)
               \/ \E e \in Editors : Schedule(e) \/ Commit(e) \/ Rollback(e)
               \/ \E p \in Projects : Import(p)
               \/ Queue \/ Timeout \/ Evict
               \/ UNCHANGED vars
      BY <2>1, <2>2, <3>5, GoneElsewhere, ProjectsCacheAssumption
    <3> QED BY <3>1, <3>2, <3>3, <3>4, <3>5 DEF Next, Build
  <2> QED BY <2>1, <2>3, <2>4
<1>3. GoneInv => UnpublishedIsGone
  BY DEF GoneInv, UnpublishedIsGone, FreshSnapshot, Rebuilding, Builders
<1>4. Spec => []TypeOK
  BY TypeCorrect, ProjectsCacheAssumption
<1> QED BY <1>1, <1>2, <1>3, <1>4, PTL DEF Spec
=============================================================================
