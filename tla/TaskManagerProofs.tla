-------------------------- MODULE TaskManagerProofs --------------------------
(* Proofs about TaskManager, for every set of tasks and callers.            *)
EXTENDS TaskManager, TLAPS

\* Writing a context to memory, cache and database keeps all three well typed.
LEMMA PersistType ==
    ASSUME TypeOK, NEW t \in Tasks, NEW c \in Context, Persist(t, c)
    PROVE  /\ ctx' \in [Tasks -> Context]
           /\ stateKey' \in [Tasks -> TaskState \cup {"none"}]
           /\ db' \in [Tasks -> Status]
<1>1. c.state \in TaskState /\ SessionStatus(c.state) \in Status
  BY DEF Context, TaskState, Status, SessionStatus
<1> QED BY <1>1 DEF TypeOK, Persist

\* The updates the handlers make to a context.
LEMMA ContextUpdate ==
    ASSUME NEW c \in Context
    PROVE  /\ \A s \in TaskState : [c EXCEPT !.state = s, !.cleaned = TRUE] \in Context
           /\ [c EXCEPT !.requested = TRUE, !.state = "cancelling"] \in Context
           /\ [c EXCEPT !.state = "running", !.age = 0] \in Context
           /\ [c EXCEPT !.requested = TRUE, !.cleaned = TRUE, !.state = "cancelled"] \in Context
           /\ c.age <= TimeoutAge => [c EXCEPT !.age = @ + 1] \in Context
<1>1. \A s \in TaskState : [c EXCEPT !.state = s, !.cleaned = TRUE] \in Context
  BY DEF Context
<1>2. /\ [c EXCEPT !.requested = TRUE, !.state = "cancelling"] \in Context
      /\ [c EXCEPT !.requested = TRUE, !.cleaned = TRUE, !.state = "cancelled"] \in Context
  BY DEF Context, TaskState
<1>3. [c EXCEPT !.state = "running", !.age = 0] \in Context
  <2>1. 0 \in 0..(TimeoutAge + 1)
    BY TaskManagerAssumption
  <2> QED BY <2>1 DEF Context, TaskState
<1>4. c.age <= TimeoutAge => [c EXCEPT !.age = @ + 1] \in Context
  BY TaskManagerAssumption DEF Context
<1> QED BY <1>1, <1>2, <1>3, <1>4

\* Completing a task keeps every variable it touches well typed.
LEMMA CompleteType ==
    ASSUME TypeOK, NEW t \in Tasks, NEW success \in BOOLEAN, Complete(t, success)
    PROVE  /\ ctx' \in [Tasks -> Context]
           /\ stateKey' \in [Tasks -> TaskState \cup {"none"}]
           /\ db' \in [Tasks -> Status]
           /\ cancelKey' \in [Tasks -> 0..FlagTTL]
           /\ timers' \subseteq Timer
<1>1. CASE t \in active
  <2> DEFINE new == [ctx[t] EXCEPT !.state = IF success THEN "completed" ELSE "failed",
                                   !.cleaned = TRUE]
  <2>1. new \in Context
    BY ContextUpdate DEF TypeOK, TaskState
  <2>2. Persist(t, new)
    BY <1>1 DEF Complete
  <2>3. ctx[t].reg \in 0..MaxRegs
    BY DEF TypeOK, Context
  <2>4. [task |-> t, reg |-> ctx[t].reg, left |-> RemovalDelay] \in Timer
    BY <2>3, TaskManagerAssumption DEF Timer
  <2>5. cancelKey' \in [Tasks -> 0..FlagTTL]
    BY <1>1, TaskManagerAssumption DEF Complete, TypeOK
  <2>6. timers' \subseteq Timer
    BY <1>1, <2>4 DEF Complete, TypeOK
  <2> HIDE DEF new
  <2> QED BY <2>1, <2>2, <2>5, <2>6, PersistType
<1>2. CASE t \notin active
  BY <1>2 DEF Complete, TypeOK
<1> QED BY <1>1, <1>2

\* The domains of the variables are respected by every action of the manager.
LEMMA TypeStep == ASSUME TypeOK, [Next]_vars PROVE TypeOK'
<1>1. ASSUME NEW c \in Callers, NEW t \in Tasks, Enter(c, t) PROVE TypeOK'
  <2>1. NewContext(regs[t] + 1) \in Context /\ regs[t] + 1 \in 0..MaxRegs
    BY <1>1, TaskManagerAssumption DEF Enter, NewContext, Context, TaskState, TypeOK
  <2>2. /\ ctx' \in [Tasks -> Context]
        /\ stateKey' \in [Tasks -> TaskState \cup {"none"}]
        /\ db' \in [Tasks -> Status]
    BY <1>1, <2>1, PersistType DEF Enter
  <2> QED BY <1>1, <2>1, <2>2, TaskManagerAssumption DEF Enter, TypeOK
<1>2. ASSUME NEW c \in Callers, Progress(c) PROVE TypeOK'
  <2>1. at[c] \in Tasks /\ ctx[at[c]] \in Context
    BY <1>2 DEF Progress, TypeOK
  <2>2. /\ ctx' \in [Tasks -> Context]
        /\ stateKey' \in [Tasks -> TaskState \cup {"none"}]
        /\ db' \in [Tasks -> Status]
    BY <1>2, <2>1, PersistType DEF Progress
  <2> QED BY <1>2, <2>2 DEF Progress, TypeOK
<1>3. ASSUME NEW c \in Callers, Return(c) \/ Raise(c) PROVE TypeOK'
  <2>1. at[c] \in Tasks /\ (Complete(at[c], TRUE) \/ Complete(at[c], FALSE))
    BY <1>3 DEF Return, Raise, TypeOK
  <2>2. /\ ctx' \in [Tasks -> Context]
        /\ stateKey' \in [Tasks -> TaskState \cup {"none"}]
        /\ db' \in [Tasks -> Status]
        /\ cancelKey' \in [Tasks -> 0..FlagTTL]
        /\ timers' \subseteq Timer
    BY <2>1, CompleteType
  <2> QED BY <1>3, <2>2 DEF Return, Raise, TypeOK
<1>4. ASSUME NEW t \in Tasks, RequestCancellation(t) PROVE TypeOK'
  <2>1. [ctx[t] EXCEPT !.requested = TRUE, !.state = "cancelling"] \in Context
    BY ContextUpdate DEF TypeOK
  <2>2. /\ ctx' \in [Tasks -> Context]
        /\ stateKey' \in [Tasks -> TaskState \cup {"none"}]
        /\ db' \in [Tasks -> Status]
    BY <1>4, <2>1, PersistType DEF RequestCancellation
  <2>3. cancelKey' \in [Tasks -> 0..FlagTTL]
    BY <1>4, TaskManagerAssumption DEF RequestCancellation, TypeOK
  <2> QED BY <1>4, <2>2, <2>3 DEF RequestCancellation, TypeOK
<1>5. CASE MonitorPass
  <2>1. ASSUME NEW c \in Context
        PROVE  Cancelled(c) \in Context /\ Cancelled([c EXCEPT !.requested = TRUE]) \in Context
    BY DEF Cancelled, Context, TaskState
  <2>2. \A t \in Tasks : Monitored(t) \in Context
    BY <2>1 DEF Monitored, TypeOK
  <2>3. ctx' \in [Tasks -> Context]
    BY <1>5, <2>2 DEF MonitorPass, TypeOK
  <2>4. stateKey' \in [Tasks -> TaskState \cup {"none"}] /\ db' \in [Tasks -> Status]
    BY <1>5 DEF MonitorPass, TypeOK, TaskState, Status
  <2> QED BY <1>5, <2>3, <2>4 DEF MonitorPass, TypeOK
<1>6. ASSUME NEW tm \in timers, TimerFires(tm) PROVE TypeOK'
  BY <1>6, TaskManagerAssumption DEF TimerFires, TypeOK, Timer
<1>7. CASE Tick
  <2>1. ctx' \in [Tasks -> Context]
    BY <1>7, ContextUpdate DEF Tick, TypeOK
  <2>2. \A tm \in Timer : [tm EXCEPT !.left = IF @ > 0 THEN @ - 1 ELSE 0] \in Timer
    BY TaskManagerAssumption DEF Timer
  <2>3. timers' \subseteq Timer
    BY <1>7, <2>2 DEF Tick, TypeOK
  <2>4. cancelKey' \in [Tasks -> 0..FlagTTL]
    BY <1>7, TaskManagerAssumption DEF Tick, TypeOK
  <2> QED BY <1>7, <2>1, <2>3, <2>4 DEF Tick, TypeOK
<1>8. ASSUME NEW t \in Tasks, StateKeyExpires(t) PROVE TypeOK'
  BY <1>8 DEF StateKeyExpires, memory, TypeOK
<1>9. ASSUME NEW t \in Tasks,
             OnTaskExecuting(t) \/ OnTaskInterrupted(t) \/ OnTaskError(t)
      PROVE  TypeOK'
  <2>1. /\ [ctx[t] EXCEPT !.state = "running", !.age = 0] \in Context
        /\ [ctx[t] EXCEPT !.state = "interrupted", !.cleaned = TRUE] \in Context
        /\ [ctx[t] EXCEPT !.state = "failed", !.cleaned = TRUE] \in Context
    BY ContextUpdate DEF TypeOK, TaskState
  <2>2. /\ ctx' \in [Tasks -> Context]
        /\ stateKey' \in [Tasks -> TaskState \cup {"none"}]
        /\ db' \in [Tasks -> Status]
    BY <1>9, <2>1, PersistType DEF OnTaskExecuting, OnTaskInterrupted, OnTaskError
  <2> QED BY <1>9, <2>2, TaskManagerAssumption
          DEF OnTaskExecuting, OnTaskInterrupted, OnTaskError, TypeOK
<1>10. CASE GracefulShutdown
  <2>1. \A t \in Tasks : [ctx[t] EXCEPT !.requested = TRUE, !.cleaned = TRUE,
                                        !.state = "cancelled"] \in Context
    BY ContextUpdate DEF TypeOK
  <2>2. ctx' \in [Tasks -> Context]
    BY <1>10, <2>1 DEF GracefulShutdown, TypeOK
  <2>3. stateKey' \in [Tasks -> TaskState \cup {"none"}]
    BY <1>10 DEF GracefulShutdown, TypeOK
  <2>4. cancelKey' \in [Tasks -> 0..FlagTTL]
    <3>1. 0 \in 0..FlagTTL
      BY TaskManagerAssumption
    <3> QED BY <1>10, <3>1 DEF GracefulShutdown, TypeOK
  <2> QED BY <1>10, <2>2, <2>3, <2>4 DEF GracefulShutdown, TypeOK
<1>11. CASE Crash
  BY <1>11 DEF Crash, durable, TypeOK
<1>12. CASE UNCHANGED vars
  BY <1>12 DEF vars, TypeOK
<1> QED
  BY <1>1, <1>2, <1>3, <1>4, <1>5, <1>6, <1>7, <1>8, <1>9, <1>10, <1>11, <1>12
  DEF Next

\* The type invariant of the task manager: no thread, timer, signal or restart
\* leaves one of its records malformed.
THEOREM TypeCorrect == Spec => []TypeOK
<1>1. Init => TypeOK
  BY TaskManagerAssumption DEF Init, TypeOK, NewContext, Context, TaskState, Status
<1> QED BY <1>1, TypeStep, PTL DEF Spec

-----------------------------------------------------------------------------
(* The inductive invariant: the four properties support one another.         *)

IInv == /\ TypeOK /\ ViewsAgree /\ EndedIsCleanedUp /\ FlagsFit /\ NoLeak

\* What one context owes, given the flag and the records kept for it.
Good(c, key, cached, row, mon) ==
    /\ (mon \/ c.state # "cancelled") => row = SessionStatus(c.state)
    /\ cached \in {"none", c.state}
    /\ c.state \in {"cancelled", "completed", "failed", "interrupted"} => c.cleaned
    /\ mon /\ c.state = "cancelled" => c.rolledBack
    /\ mon /\ c.state = "cancelling" => key > 0
    /\ c.state = "failed" => key = 0

AllGood == \A t \in active : Good(ctx[t], cancelKey[t], stateKey[t], db[t], monitoring)

\* The cache key and the session row of every task, in memory or not.
KeyIsRow == \A t \in Tasks : stateKey[t] # "none" => db[t] = SessionStatus(stateKey[t])

\* The invariant, read as one conjunct per lemma below.
LEMMA IInvSplit == IInv <=> TypeOK /\ AllGood /\ KeyIsRow /\ NoLeak
<1>1. TypeOK /\ AllGood /\ KeyIsRow => ViewsAgree /\ EndedIsCleanedUp /\ FlagsFit
  BY DEF TypeOK, AllGood, KeyIsRow, Good, ViewsAgree, EndedIsCleanedUp, FlagsFit
<1>2. TypeOK /\ ViewsAgree /\ EndedIsCleanedUp /\ FlagsFit => AllGood /\ KeyIsRow
  BY DEF TypeOK, AllGood, KeyIsRow, Good, ViewsAgree, EndedIsCleanedUp, FlagsFit
<1> QED BY <1>1, <1>2 DEF IInv

\* Persisting a good context under t leaves the other contexts as they were.
LEMMA PersistGood ==
    ASSUME TypeOK, AllGood, NEW t \in Tasks, NEW c \in Context, Persist(t, c),
           monitoring' = monitoring, active' \subseteq active \cup {t},
           \A u \in Tasks \ {t} : cancelKey'[u] = cancelKey[u],
           Good(c, cancelKey'[t], c.state, SessionStatus(c.state), monitoring)
    PROVE  AllGood'
<1> SUFFICES ASSUME NEW u \in active'
             PROVE  Good(ctx'[u], cancelKey'[u], stateKey'[u], db'[u], monitoring')
  BY DEF AllGood
<1>1. CASE u = t
  BY <1>1 DEF Persist, TypeOK
<1>2. CASE u # t
  <2>1. u \in active /\ ctx'[u] = ctx[u] /\ stateKey'[u] = stateKey[u] /\ db'[u] = db[u]
    BY <1>2 DEF Persist, TypeOK
  <2> QED BY <1>2, <2>1 DEF AllGood, TypeOK
<1> QED BY <1>1, <1>2

\* complete_task leaves a good context, whatever state it found.
LEMMA CompleteGood ==
    ASSUME TypeOK, AllGood, NEW t \in Tasks, NEW success \in BOOLEAN, Complete(t, success),
           monitoring' = monitoring, active' = active
    PROVE  AllGood'
<1>1. CASE t \in active
  <2> DEFINE new == [ctx[t] EXCEPT !.state = IF success THEN "completed" ELSE "failed",
                                   !.cleaned = TRUE]
  <2>1. new \in Context
    BY ContextUpdate DEF TypeOK, TaskState
  <2>2. new.state = (IF success THEN "completed" ELSE "failed") /\ new.cleaned
    BY DEF TypeOK, Context
  <2>3. Persist(t, new)
    BY <1>1 DEF Complete
  <2>4. \A u \in Tasks \ {t} : cancelKey'[u] = cancelKey[u]
    BY <1>1 DEF Complete, TypeOK
  <2>5. ~success => cancelKey'[t] = 0
    BY <1>1 DEF Complete, TypeOK
  <2>6. Good(new, cancelKey'[t], new.state, SessionStatus(new.state), monitoring)
    <3> HIDE DEF new
    <3> QED BY <2>2, <2>5 DEF Good
  <2> HIDE DEF new
  <2> QED BY <1>1, <2>1, <2>3, <2>4, <2>6, PersistGood
<1>2. CASE t \notin active
  BY <1>2 DEF Complete, AllGood
<1> QED BY <1>1, <1>2

\* The monitor's pass: a context it changes becomes a good cancelled one.
LEMMA MonitoredGood ==
    ASSUME TypeOK, AllGood, MonitorPass
    PROVE  AllGood'
<1> SUFFICES ASSUME NEW u \in active
             PROVE  Good(ctx'[u], cancelKey'[u], stateKey'[u], db'[u], monitoring')
  BY DEF MonitorPass, AllGood
<1>1. u \in Tasks /\ ctx[u] \in Context
  BY DEF TypeOK
<1>2. Good(ctx[u], cancelKey[u], stateKey[u], db[u], monitoring)
  BY DEF AllGood
<1>3. ctx'[u] = Monitored(u) /\ cancelKey'[u] = cancelKey[u] /\ monitoring' /\ monitoring
  BY <1>1 DEF MonitorPass
<1>4. \/ Monitored(u).state = ctx[u].state /\ Monitored(u).cleaned = ctx[u].cleaned
          /\ Monitored(u).rolledBack = ctx[u].rolledBack
      \/ ctx[u].state # "cancelled" /\ Monitored(u).state = "cancelled"
          /\ Monitored(u).cleaned /\ Monitored(u).rolledBack
  BY <1>1 DEF Monitored, Cancelled, Context
<1>5. CASE Monitored(u).state = ctx[u].state /\ Monitored(u).cleaned = ctx[u].cleaned
           /\ Monitored(u).rolledBack = ctx[u].rolledBack
  <2>1. stateKey'[u] = stateKey[u] /\ db'[u] = db[u]
    BY <1>1, <1>5 DEF MonitorPass
  <2> QED BY <1>2, <1>3, <1>5, <2>1 DEF Good
<1>6. CASE ctx[u].state # "cancelled" /\ Monitored(u).state = "cancelled"
           /\ Monitored(u).cleaned /\ Monitored(u).rolledBack
  <2>1. stateKey'[u] = "cancelled" /\ db'[u] = "cancelled"
    BY <1>1, <1>6 DEF MonitorPass
  <2> QED BY <1>3, <1>6, <2>1 DEF Good, SessionStatus
<1> QED BY <1>4, <1>5, <1>6

\* No tick passes while the monitor has a cancellation to process, so no flag
\* runs out before it was seen.
LEMMA TickGood ==
    ASSUME TypeOK, AllGood, Tick
    PROVE  AllGood'
<1> SUFFICES ASSUME NEW u \in active
             PROVE  Good(ctx'[u], cancelKey'[u], stateKey'[u], db'[u], monitoring')
  BY DEF Tick, AllGood
<1>1. u \in Tasks /\ ctx[u] \in Context
  BY DEF TypeOK
<1>2. Good(ctx[u], cancelKey[u], stateKey[u], db[u], monitoring)
  BY DEF AllGood
<1>3. /\ ctx'[u].state = ctx[u].state /\ ctx'[u].cleaned = ctx[u].cleaned
      /\ ctx'[u].rolledBack = ctx[u].rolledBack
  BY <1>1 DEF Tick, Context
<1>4. monitoring => ctx[u].state # "cancelling"
  <2> SUFFICES ASSUME monitoring, ctx[u].state = "cancelling" PROVE FALSE
    OBVIOUS
  <2>1. cancelKey[u] > 0
    BY <1>2 DEF Good
  <2>2. Cancelled(ctx[u]).state = "cancelled"
    BY <1>1 DEF Cancelled, Context
  <2>3. Monitored(u).state = "cancelled"
    BY <1>1, <2>1, <2>2 DEF Monitored, Cancelled, Context
  <2>4. MonitorDue(u)
    BY <2>3 DEF MonitorDue
  <2> QED BY <1>1, <2>4 DEF Tick
<1>5. cancelKey[u] = 0 => cancelKey'[u] = 0
  BY <1>1 DEF Tick
<1> QED BY <1>2, <1>3, <1>4, <1>5 DEF Tick, Good

\* Every action leaves each registered context good, one step per action.
LEMMA GoodStep == ASSUME TypeOK, AllGood, [Next]_vars PROVE AllGood'
<1>1. ASSUME NEW c \in Callers, NEW t \in Tasks, Enter(c, t) PROVE AllGood'
  <2>1. NewContext(regs[t] + 1) \in Context
    BY <1>1, TaskManagerAssumption DEF Enter, NewContext, Context, TaskState, TypeOK
  <2>2. Good(NewContext(regs[t] + 1), cancelKey'[t], "pending", "pending", monitoring)
    BY DEF Good, NewContext, SessionStatus
  <2> QED BY <1>1, <2>1, <2>2, PersistGood DEF Enter, NewContext, SessionStatus
<1>2. ASSUME NEW c \in Callers, Progress(c) PROVE AllGood'
  <2>1. at[c] \in active /\ at[c] \in Tasks /\ ctx[at[c]] \in Context
    BY <1>2 DEF Progress, TypeOK
  <2>2. Good(ctx[at[c]], cancelKey'[at[c]], ctx[at[c]].state,
             SessionStatus(ctx[at[c]].state), monitoring)
    BY <1>2, <2>1 DEF Progress, AllGood, Good
  <2> QED BY <1>2, <2>1, <2>2, PersistGood DEF Progress
<1>3. ASSUME NEW c \in Callers, Return(c) \/ Raise(c) PROVE AllGood'
  <2>1. at[c] \in Tasks /\ (Complete(at[c], TRUE) \/ Complete(at[c], FALSE))
    BY <1>3 DEF Return, Raise, TypeOK
  <2> QED BY <1>3, <2>1, CompleteGood DEF Return, Raise
<1>4. ASSUME NEW t \in Tasks, RequestCancellation(t) PROVE AllGood'
  <2> DEFINE new == [ctx[t] EXCEPT !.requested = TRUE, !.state = "cancelling"]
  <2>1. new \in Context
    BY ContextUpdate DEF TypeOK
  <2>2. new.state = "cancelling"
    BY DEF TypeOK, Context
  <2>3. /\ cancelKey'[t] > 0
        /\ \A u \in Tasks \ {t} : cancelKey'[u] = cancelKey[u]
    BY <1>4, TaskManagerAssumption DEF RequestCancellation, TypeOK
  <2>4. Persist(t, new)
    BY <1>4 DEF RequestCancellation
  <2>5. Good(new, cancelKey'[t], new.state, SessionStatus(new.state), monitoring)
    <3> HIDE DEF new
    <3> QED BY <2>2, <2>3 DEF Good
  <2> HIDE DEF new
  <2> QED BY <1>4, <2>1, <2>3, <2>4, <2>5, PersistGood DEF RequestCancellation
<1>5. CASE MonitorPass
  BY <1>5, MonitoredGood
<1>6. ASSUME NEW tm \in timers, TimerFires(tm) PROVE AllGood'
  BY <1>6 DEF TimerFires, AllGood, TypeOK
<1>7. CASE Tick
  BY <1>7, TickGood
<1>8. ASSUME NEW t \in Tasks, StateKeyExpires(t) PROVE AllGood'
  BY <1>8 DEF StateKeyExpires, memory, AllGood, Good, TypeOK
<1>9. ASSUME NEW t \in Tasks,
             OnTaskExecuting(t) \/ OnTaskInterrupted(t) \/ OnTaskError(t)
      PROVE  AllGood'
  <2> DEFINE run == [ctx[t] EXCEPT !.state = "running", !.age = 0]
             int == [ctx[t] EXCEPT !.state = "interrupted", !.cleaned = TRUE]
             err == [ctx[t] EXCEPT !.state = "failed", !.cleaned = TRUE]
  <2>1. run \in Context /\ int \in Context /\ err \in Context
    BY ContextUpdate DEF TypeOK, TaskState
  <2>2. /\ run.state = "running"
        /\ int.state = "interrupted" /\ int.cleaned
        /\ err.state = "failed" /\ err.cleaned
    BY DEF TypeOK, Context
  <2>3. \/ Persist(t, run) /\ cancelKey' = cancelKey
        \/ Persist(t, int) /\ cancelKey' = cancelKey
        \/ Persist(t, err) /\ cancelKey' = [cancelKey EXCEPT ![t] = 0]
    BY <1>9 DEF OnTaskExecuting, OnTaskInterrupted, OnTaskError
  <2>4. /\ \A u \in Tasks \ {t} : cancelKey'[u] = cancelKey[u]
        /\ cancelKey' = [cancelKey EXCEPT ![t] = 0] => cancelKey'[t] = 0
    BY <2>3 DEF TypeOK
  <2>5. active' = active /\ monitoring' = monitoring
    BY <1>9 DEF OnTaskExecuting, OnTaskInterrupted, OnTaskError
  <2> HIDE DEF run, int, err
  <2>6. /\ Good(run, cancelKey'[t], run.state, SessionStatus(run.state), monitoring)
        /\ Good(int, cancelKey'[t], int.state, SessionStatus(int.state), monitoring)
        /\ cancelKey'[t] = 0 =>
             Good(err, cancelKey'[t], err.state, SessionStatus(err.state), monitoring)
    BY <2>2 DEF Good
  <2> QED BY <2>1, <2>3, <2>4, <2>5, <2>6, PersistGood
<1>10. CASE GracefulShutdown
  <2> SUFFICES ASSUME NEW u \in active
               PROVE  Good(ctx'[u], cancelKey'[u], stateKey'[u], db'[u], monitoring')
    BY <1>10 DEF GracefulShutdown, AllGood
  <2>1. ctx'[u].state = "cancelled" /\ ctx'[u].cleaned /\ stateKey'[u] = "none"
    BY <1>10 DEF GracefulShutdown, TypeOK, Context
  <2> QED BY <1>10, <2>1 DEF GracefulShutdown, Good
<1>11. CASE Crash
  BY <1>11 DEF Crash, AllGood
<1>12. CASE UNCHANGED vars
  BY <1>12 DEF vars, AllGood
<1> QED
  BY <1>1, <1>2, <1>3, <1>4, <1>5, <1>6, <1>7, <1>8, <1>9, <1>10, <1>11, <1>12
  DEF Next

\* The key and the row are written together; a key alone is only dropped.
LEMMA KeyStep == ASSUME TypeOK, KeyIsRow, [Next]_vars PROVE KeyIsRow'
<1>1. ASSUME NEW t \in Tasks, NEW c, Persist(t, c) PROVE KeyIsRow'
  BY <1>1 DEF Persist, KeyIsRow, TypeOK
<1>2. ASSUME NEW c \in Callers, NEW t \in Tasks, Enter(c, t) PROVE KeyIsRow'
  BY <1>1, <1>2 DEF Enter
<1>3. ASSUME NEW c \in Callers, Progress(c) PROVE KeyIsRow'
  BY <1>1, <1>3 DEF Progress, TypeOK
<1>4. ASSUME NEW c \in Callers, Return(c) \/ Raise(c) PROVE KeyIsRow'
  <2>1. at[c] \in Tasks /\ (Complete(at[c], TRUE) \/ Complete(at[c], FALSE))
    BY <1>4 DEF Return, Raise, TypeOK
  <2>2. CASE at[c] \in active
    BY <1>1, <2>1, <2>2 DEF Complete
  <2>3. CASE at[c] \notin active
    BY <2>1, <2>3 DEF Complete, KeyIsRow
  <2> QED BY <2>2, <2>3
<1>5. ASSUME NEW t \in Tasks, RequestCancellation(t) PROVE KeyIsRow'
  BY <1>1, <1>5 DEF RequestCancellation
<1>6. CASE MonitorPass
  BY <1>6 DEF MonitorPass, KeyIsRow, SessionStatus
<1>7. ASSUME NEW tm \in timers, TimerFires(tm) PROVE KeyIsRow'
  BY <1>7 DEF TimerFires, KeyIsRow, TypeOK
<1>8. ASSUME NEW t \in Tasks, StateKeyExpires(t) PROVE KeyIsRow'
  BY <1>8 DEF StateKeyExpires, KeyIsRow, TypeOK
<1>9. ASSUME NEW t \in Tasks,
             OnTaskExecuting(t) \/ OnTaskInterrupted(t) \/ OnTaskError(t)
      PROVE  KeyIsRow'
  BY <1>1, <1>9 DEF OnTaskExecuting, OnTaskInterrupted, OnTaskError
<1>10. CASE GracefulShutdown
  BY <1>10 DEF GracefulShutdown, KeyIsRow
<1>11. ASSUME stateKey' = stateKey, db' = db PROVE KeyIsRow'
  BY <1>11 DEF KeyIsRow
<1> QED
  BY <1>2, <1>3, <1>4, <1>5, <1>6, <1>7, <1>8, <1>9, <1>10, <1>11
  DEF Next, vars, durable, Tick, Crash

\* Contexts are added by a thread that enters the wrapper, and a thread leaves it
\* only with the timer started.
LEMMA NoLeakStep == ASSUME TypeOK, NoLeak, [Next]_vars PROVE NoLeak'
<1>1. ASSUME NEW c \in Callers, NEW t \in Tasks, Enter(c, t) PROVE NoLeak'
  <2> SUFFICES ASSUME NEW u \in active' PROVE InBody(u)' # {} \/ \E tm \in timers' : tm.task = u
    BY DEF NoLeak
  <2>1. c \in InBody(t)'
    BY <1>1 DEF Enter, InBody, TypeOK
  <2>2. CASE u # t
    <3>1. at[c] = "none" /\ u \in active /\ u \in Tasks
      BY <1>1, <2>2 DEF Enter, TypeOK
    <3>2. InBody(u) \subseteq InBody(u)'
      BY <1>1, <3>1, TaskManagerAssumption DEF Enter, InBody, TypeOK
    <3> QED BY <1>1, <3>1, <3>2 DEF Enter, NoLeak
  <2> QED BY <2>1, <2>2
<1>2. ASSUME NEW c \in Callers, Return(c) \/ Raise(c) PROVE NoLeak'
  <2> SUFFICES ASSUME NEW u \in active' PROVE InBody(u)' # {} \/ \E tm \in timers' : tm.task = u
    BY DEF NoLeak
  <2>1. /\ active' = active /\ at' = [at EXCEPT ![c] = "none"] /\ u \in Tasks
        /\ Complete(at[c], TRUE) \/ Complete(at[c], FALSE)
    BY <1>2 DEF Return, Raise, TypeOK
  <2>2. timers \subseteq timers' /\ (at[c] \in active => \E tm \in timers' : tm.task = at[c])
    <3>1. CASE at[c] \in active
      <4> DEFINE new == [task |-> at[c], reg |-> ctx[at[c]].reg, left |-> RemovalDelay]
      <4>1. timers' = timers \cup {new}
        BY <2>1, <3>1 DEF Complete
      <4>2. new \in timers' /\ new.task = at[c]
        BY <4>1
      <4> QED BY <4>1, <4>2
    <3>2. CASE at[c] \notin active
      BY <2>1, <3>2 DEF Complete
    <3> QED BY <3>1, <3>2
  <2>3. CASE u # at[c]
    <3>1. InBody(u) \subseteq InBody(u)'
      BY <2>1, <2>3 DEF InBody, TypeOK
    <3> QED BY <2>1, <2>2, <3>1 DEF NoLeak
  <2> QED BY <2>1, <2>2, <2>3
<1>3. ASSUME NEW tm \in timers, TimerFires(tm) PROVE NoLeak'
  BY <1>3 DEF TimerFires, NoLeak, InBody
<1>4. CASE Tick
  <2> SUFFICES ASSUME NEW u \in active PROVE InBody(u)' # {} \/ \E tm \in timers' : tm.task = u
    BY <1>4 DEF Tick, NoLeak
  <2>1. InBody(u)' = InBody(u)
    BY <1>4 DEF Tick, InBody
  <2>2. ASSUME NEW tm \in timers, tm.task = u PROVE \E new \in timers' : new.task = u
    <3>1. [tm EXCEPT !.left = IF @ > 0 THEN @ - 1 ELSE 0] \in timers'
      BY <1>4 DEF Tick
    <3>2. [tm EXCEPT !.left = IF @ > 0 THEN @ - 1 ELSE 0].task = u
      BY <2>2 DEF TypeOK, Timer
    <3> QED BY <3>1, <3>2
  <2> QED BY <2>1, <2>2 DEF NoLeak
<1>5. CASE Crash
  BY <1>5 DEF Crash, NoLeak
<1>6. ASSUME active' = active, timers' = timers, at' = at PROVE NoLeak'
  BY <1>6 DEF NoLeak, InBody
<1> QED
  BY <1>1, <1>2, <1>3, <1>4, <1>5, <1>6
  DEF Next, vars, memory, Progress, RequestCancellation, MonitorPass, StateKeyExpires,
      OnTaskExecuting, OnTaskInterrupted, OnTaskError, GracefulShutdown

\* The invariant is inductive.
THEOREM Invariant == Spec => []IInv
<1>1. Init => IInv
  <2> SUFFICES ASSUME Init PROVE IInv
    OBVIOUS
  <2>1. TypeOK
    BY TaskManagerAssumption DEF Init, TypeOK, NewContext, Context, TaskState, Status
  <2>2. AllGood /\ KeyIsRow /\ NoLeak
    BY DEF Init, AllGood, KeyIsRow, NoLeak
  <2> QED BY <2>1, <2>2, IInvSplit
<1>2. IInv /\ [Next]_vars => IInv'
  <2>1. TypeOK /\ AllGood /\ KeyIsRow /\ NoLeak /\ [Next]_vars
        => TypeOK' /\ AllGood' /\ KeyIsRow' /\ NoLeak'
    BY TypeStep, GoodStep, KeyStep, NoLeakStep
  <2>2. (TypeOK /\ AllGood /\ KeyIsRow /\ NoLeak)' => IInv'
    BY IInvSplit, PTL
  <2> QED BY <2>1, <2>2, IInvSplit
<1> QED BY <1>1, <1>2, PTL DEF Spec

\* The cache, the session row and the context tell one story.
THEOREM ViewsAlwaysAgree == Spec => []ViewsAgree
<1>1. IInv => ViewsAgree
  BY DEF IInv
<1> QED BY <1>1, Invariant, PTL

\* Neither cleanup nor rollback callbacks are skipped, whichever of the caller,
\* the monitor, a signal or the shutdown ends the task.
THEOREM EndIsClean == Spec => []EndedIsCleanedUp
<1>1. IInv => EndedIsCleanedUp
  BY DEF IInv
<1> QED BY <1>1, Invariant, PTL

\* A pending cancellation keeps its flag until the monitor has acted on it, and
\* a task that has failed leaves none for the next of its id.
THEOREM FlagsFitStates == Spec => []FlagsFit
<1>1. IInv => FlagsFit
  BY DEF IInv
<1> QED BY <1>1, Invariant, PTL

\* The manager's dictionary never holds a context nobody will remove.
THEOREM NothingLeaks == Spec => []NoLeak
<1>1. IInv => NoLeak
  BY DEF IInv
<1> QED BY <1>1, Invariant, PTL
-----------------------------------------------------------------------------
(* What the session row says of a task whose threads have left the wrapper.  *)

\* A thread in its body has a context, or it is known to have lost it.
LostIsKnown == \A c \in Callers : at[c] \in active \cup lost \cup {"none"}

\* A context under a running thread goes by a timer or with the process only.
LEMMA LostStep ==
    ASSUME TypeOK, LostIsKnown, [Next]_vars PROVE LostIsKnown'
<1>1. ASSUME NEW c \in Callers, NEW t \in Tasks, Enter(c, t) PROVE LostIsKnown'
  <2>1. at' = [at EXCEPT ![c] = t] /\ active' = active \cup {t} /\ lost' = lost \ {t}
    BY <1>1 DEF Enter
  <2> QED BY <2>1 DEF LostIsKnown, TypeOK
<1>2. ASSUME NEW c \in Callers, Return(c) \/ Raise(c) PROVE LostIsKnown'
  <2>1. at' = [at EXCEPT ![c] = "none"] /\ active' = active /\ lost' = lost
    BY <1>2 DEF Return, Raise
  <2> QED BY <2>1 DEF LostIsKnown, TypeOK
<1>3. ASSUME NEW tm \in timers, TimerFires(tm) PROVE LostIsKnown'
  <2> SUFFICES ASSUME NEW c \in Callers, at[c] # "none" PROVE at[c] \in active' \cup lost'
    BY <1>3 DEF TimerFires, LostIsKnown
  <2>1. at[c] \in active \cup lost /\ lost \subseteq lost'
    BY <1>3 DEF TimerFires, LostIsKnown
  <2>2. CASE at[c] = tm.task /\ at[c] \in active
    <3>1. InBody(tm.task) # {}
      BY <2>2 DEF InBody
    <3> QED BY <1>3, <2>2, <3>1 DEF TimerFires
  <2>3. CASE ~(at[c] = tm.task /\ at[c] \in active)
    BY <1>3, <2>1, <2>3 DEF TimerFires
  <2> QED BY <2>2, <2>3
<1>4. CASE Crash
  BY <1>4 DEF Crash, LostIsKnown
<1>5. ASSUME active' = active, at' = at, lost' = lost PROVE LostIsKnown'
  BY <1>5 DEF LostIsKnown
<1> QED
  BY <1>1, <1>2, <1>3, <1>4, <1>5
  DEF Next, vars, memory, Progress, RequestCancellation, MonitorPass, Tick, StateKeyExpires,
      OnTaskExecuting, OnTaskInterrupted, OnTaskError, GracefulShutdown

\* When the last thread leaves the wrapper the session row takes a final status,
\* and what is written to it afterwards is one too.
LEMMA ReportStep ==
    ASSUME TypeOK, LostIsKnown, ReturnedIsReported, [Next]_vars
    PROVE  ReturnedIsReported'
<1> DEFINE Final == {"completed", "failed", "cancelling", "cancelled"}
<1>1. ASSUME NEW c \in Callers, NEW t \in Tasks, Enter(c, t) PROVE ReturnedIsReported'
  <2> SUFFICES ASSUME NEW u \in Tasks, regs'[u] > 0, InBody(u)' = {}, u \notin lost'
               PROVE  db'[u] \in Final
    BY DEF ReturnedIsReported
  <2>1. u # t
    BY <1>1 DEF Enter, InBody, TypeOK
  <2>2. regs'[u] = regs[u] /\ db'[u] = db[u] /\ u \notin lost
    BY <1>1, <2>1 DEF Enter, Persist, TypeOK
  <2>3. InBody(u) = {}
    <3>1. at[c] = "none" /\ at' = [at EXCEPT ![c] = t]
      BY <1>1 DEF Enter, TypeOK
    <3> QED BY <3>1, TaskManagerAssumption DEF InBody, TypeOK
  <2> QED BY <2>2, <2>3 DEF ReturnedIsReported
<1>2. ASSUME NEW c \in Callers, Progress(c) PROVE ReturnedIsReported'
  <2> SUFFICES ASSUME NEW u \in Tasks, regs'[u] > 0, InBody(u)' = {}, u \notin lost'
               PROVE  db'[u] \in Final
    BY DEF ReturnedIsReported
  <2>1. InBody(u) = {} /\ regs[u] > 0 /\ u \notin lost
    BY <1>2 DEF Progress, InBody
  <2>2. at[c] # u
    BY <2>1 DEF InBody
  <2>3. db'[u] = db[u]
    BY <1>2, <2>2 DEF Progress, Persist, TypeOK
  <2> QED BY <2>1, <2>3 DEF ReturnedIsReported
<1>3. ASSUME NEW c \in Callers, Return(c) \/ Raise(c) PROVE ReturnedIsReported'
  <2>0. PICK t \in Tasks : t = at[c]
    BY <1>3 DEF Return, Raise, TypeOK
  <2>1. /\ at' = [at EXCEPT ![c] = "none"] /\ regs' = regs /\ lost' = lost
        /\ \E success \in BOOLEAN : Complete(t, success)
    BY <1>3, <2>0 DEF Return, Raise
  <2>2. CASE t \notin active
    <3>1. t \in lost /\ db' = db
      BY <2>0, <2>1, <2>2, TaskManagerAssumption DEF LostIsKnown, Complete
    <3>2. \A u \in Tasks \ {t} : InBody(u) \subseteq InBody(u)'
      BY <2>0, <2>1 DEF InBody, TypeOK
    <3> QED BY <2>1, <3>1, <3>2 DEF ReturnedIsReported
  <2>3. PICK success \in BOOLEAN : Complete(t, success)
    BY <2>1
  <2>4. CASE t \in active
    <3>1. PICK new \in Context :
              new.state = (IF success THEN "completed" ELSE "failed") /\ Persist(t, new)
      <4> DEFINE new == [ctx[t] EXCEPT !.state = IF success THEN "completed" ELSE "failed",
                                       !.cleaned = TRUE]
      <4>1. new \in Context
        BY ContextUpdate DEF TypeOK, TaskState
      <4>2. new.state = (IF success THEN "completed" ELSE "failed")
        BY DEF TypeOK, Context
      <4>3. Persist(t, new)
        BY <2>3, <2>4 DEF Complete
      <4> QED BY <4>1, <4>2, <4>3
    <3>2. db'[t] \in Final /\ \A u \in Tasks \ {t} : db'[u] = db[u]
      BY <3>1 DEF Persist, SessionStatus, TypeOK
    <3>3. \A u \in Tasks \ {t} : InBody(u) \subseteq InBody(u)'
      BY <2>0, <2>1 DEF InBody, TypeOK
    <3> QED BY <2>1, <3>2, <3>3 DEF ReturnedIsReported
  <2> QED BY <2>2, <2>4
<1>4. ASSUME NEW t \in Tasks, RequestCancellation(t) PROVE ReturnedIsReported'
  <2>1. PICK new : new.state = "cancelling" /\ Persist(t, new)
    BY <1>4 DEF RequestCancellation, TypeOK, Context
  <2>2. db'[t] = "cancelling" /\ \A u \in Tasks \ {t} : db'[u] = db[u]
    BY <2>1 DEF Persist, SessionStatus, TypeOK
  <2> QED BY <1>4, <2>2 DEF RequestCancellation, ReturnedIsReported, InBody
<1>5. CASE MonitorPass
  <2>1. \A u \in Tasks : db'[u] = "cancelled" \/ db'[u] = db[u]
    BY <1>5 DEF MonitorPass
  <2> QED BY <1>5, <2>1 DEF MonitorPass, ReturnedIsReported, InBody
<1>6. ASSUME NEW t \in Tasks,
             OnTaskExecuting(t) \/ OnTaskInterrupted(t) \/ OnTaskError(t)
      PROVE  ReturnedIsReported'
  <2>1. /\ at' = at /\ regs' = regs /\ lost' = lost /\ InBody(t) # {}
        /\ \E c : Persist(t, c)
    BY <1>6 DEF OnTaskExecuting, OnTaskInterrupted, OnTaskError, SignalFor
  <2>2. \A u \in Tasks \ {t} : db'[u] = db[u]
    BY <2>1 DEF Persist, TypeOK
  <2> QED BY <2>1, <2>2 DEF ReturnedIsReported, InBody
<1>7. CASE Crash
  <2> SUFFICES ASSUME NEW u \in Tasks, regs'[u] > 0, u \notin lost'
               PROVE  db'[u] \in Final
    BY DEF ReturnedIsReported
  <2>1. regs'[u] = regs[u] /\ db'[u] = db[u] /\ lost' = lost \cup {t \in active : InBody(t) # {}}
    BY <1>7 DEF Crash, durable
  <2>2. InBody(u) # {} => u \in active \cup lost
    BY TaskManagerAssumption DEF LostIsKnown, InBody
  <2> QED BY <2>1, <2>2 DEF ReturnedIsReported
<1>8. ASSUME at' = at, db' = db, regs' = regs, lost \subseteq lost' PROVE ReturnedIsReported'
  BY <1>8 DEF ReturnedIsReported, InBody
<1> QED
  BY <1>1, <1>2, <1>3, <1>4, <1>5, <1>6, <1>7, <1>8
  DEF Next, vars, memory, TimerFires, Tick, StateKeyExpires, GracefulShutdown

\* Every session row says how its task ended once the last wrapper has returned,
\* except for tasks whose context was taken away under a running body.
THEOREM ReturnIsReported == Spec => []ReturnedIsReported
<1> DEFINE Inv == TypeOK /\ LostIsKnown /\ ReturnedIsReported
<1>1. Init => Inv
  <2> SUFFICES ASSUME Init PROVE Inv
    OBVIOUS
  <2>1. TypeOK
    BY TaskManagerAssumption DEF Init, TypeOK, NewContext, Context, TaskState, Status
  <2>2. LostIsKnown /\ ReturnedIsReported
    BY DEF Init, LostIsKnown, ReturnedIsReported
  <2> QED BY <2>1, <2>2
<1>2. Inv /\ [Next]_vars => Inv'
  BY TypeStep, LostStep, ReportStep
<1> HIDE DEF Inv
<1>3. Spec => []Inv
  BY <1>1, <1>2, PTL DEF Spec
<1> QED BY <1>3, PTL DEF Inv
=============================================================================
