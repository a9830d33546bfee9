----------------------------- MODULE TaskManager -----------------------------
(***************************************************************************)
(* The import task manager (arkumu/importer/services/task_manager.py): one *)
(* TaskManager object per process, a dictionary of task contexts guarded   *)
(* by one re-entrant lock, a monitor thread that looks at every context    *)
(* once a second, one timer thread per finished task, and two records that *)
(* outlive the process: the cache keys task_state_<id> / task_cancel_<id>  *)
(* and the status column of the IngestSession the task reports to.         *)
(*                                                                         *)
(* cancellable_task passes the session id as the task id, so a task and    *)
(* its session are one value here.  Every method takes the lock for its    *)
(* whole body and is therefore one action; what interleaves is the threads *)
(* inside the wrapper (Callers), the cancel endpoint, the monitor, the     *)
(* timers, Huey's signals and the end of the process.                      *)
(*                                                                         *)
(* A tick is five minutes, the delay of the removal timer.  The monitor    *)
(* runs many times in a tick, so no tick passes while it has work.         *)
(***************************************************************************)
EXTENDS Naturals

CONSTANTS
    Tasks,          \* task ids, each also the id of its IngestSession
    Callers,        \* threads that run a function wrapped by cancellable_task
    HueyIds,        \* registered ids that Huey's signals also carry
    TimeoutAge,     \* age after which _check_timeout answers True (60 minutes)
    RemovalDelay,   \* ticks between complete_task and its timer
    FlagTTL,        \* ticks a cancellation flag lives in the cache
    MaxRegs         \* bound: how often one id is registered

ASSUME TaskManagerAssumption ==
    /\ HueyIds \subseteq Tasks /\ "none" \notin Tasks
    /\ TimeoutAge \in Nat /\ RemovalDelay \in Nat
    /\ FlagTTL \in Nat \ {0} /\ MaxRegs \in Nat \ {0}

VARIABLES
    active,         \* the keys of active_tasks
    ctx,            \* the TaskContext last registered under each id
    timers,         \* removal timers that have been started
    pc,             \* what each thread is doing: idle, body, cancelled
    at,             \* the task each thread is in the wrapper for, or "none"
    monitoring,     \* _monitoring_enabled
    stateKey,       \* cache: task_state_<id>, or "none"
    cancelKey,      \* cache: remaining ticks of task_cancel_<id>, 0 if unset
    db,             \* IngestSession.status
    regs,           \* ghost: registrations made under each id
    lost            \* ghost: tasks whose context died with the process, or was
                    \* taken away by a timer, while a thread was in their body

memory == <<active, ctx, timers, pc, at, monitoring>>
durable == <<stateKey, cancelKey, db>>
vars == <<active, ctx, timers, pc, at, monitoring, stateKey, cancelKey, db, regs, lost>>

TaskState == {"pending", "running", "cancelling", "cancelled",
              "completed", "failed", "interrupted"}

\* Mutant: the session takes the task's state unmapped.
SessionStatus_Unmapped(s) == s

\* _map_task_state_to_session_status
SessionStatus(s) == CASE s = "running" -> "processing"
                      [] s = "interrupted" -> "failed"
                      [] OTHER -> s

Status == {"pending", "processing", "cancelling", "cancelled", "completed", "failed"}

Context == [state: TaskState, requested: BOOLEAN, age: 0..(TimeoutAge + 1),
            cleaned: BOOLEAN, rolledBack: BOOLEAN, reg: 0..MaxRegs]

NewContext(n) == [state |-> "pending", requested |-> FALSE, age |-> 0,
                  cleaned |-> FALSE, rolledBack |-> FALSE, reg |-> n]

Timer == [task: Tasks, reg: 0..MaxRegs, left: 0..RemovalDelay]

InBody(t) == {c \in Callers : at[c] = t}

TypeOK ==
    /\ active \subseteq Tasks
    /\ ctx \in [Tasks -> Context]
    /\ timers \subseteq Timer
    /\ pc \in [Callers -> {"idle", "body", "cancelled"}]
    /\ at \in [Callers -> Tasks \cup {"none"}]
    /\ \A c \in Callers : pc[c] = "idle" <=> at[c] = "none"
    /\ monitoring \in BOOLEAN
    /\ stateKey \in [Tasks -> TaskState \cup {"none"}]
    /\ cancelKey \in [Tasks -> 0..FlagTTL]
    /\ db \in [Tasks -> Status]
    /\ regs \in [Tasks -> 0..MaxRegs]
    /\ lost \subseteq Tasks

Init ==
    /\ active = {}
    /\ ctx = [t \in Tasks |-> NewContext(0)]
    /\ timers = {}
    /\ pc = [c \in Callers |-> "idle"]
    /\ at = [c \in Callers |-> "none"]
    /\ monitoring = TRUE
    /\ stateKey = [t \in Tasks |-> "none"]
    /\ cancelKey = [t \in Tasks |-> 0]
    /\ db = [t \in Tasks |-> "pending"]
    /\ regs = [t \in Tasks |-> 0]
    /\ lost = {}

-----------------------------------------------------------------------------
(* Parts of the handlers *)

\* _persist_task_state: the cache key and the session row take the new state.
Persist(t, c) ==
    /\ ctx' = [ctx EXCEPT ![t] = c]
    /\ stateKey' = [stateKey EXCEPT ![t] = c.state]
    /\ db' = [db EXCEPT ![t] = SessionStatus(c.state)]

\* Mutant: complete_task starts the removal timer for a success only.
Complete_TimerOnSuccess(t, success) ==
    IF t \in active
    THEN /\ Persist(t, [ctx[t] EXCEPT !.state = IF success THEN "completed" ELSE "failed",
                                      !.cleaned = TRUE])
         /\ cancelKey' = IF success THEN cancelKey ELSE [cancelKey EXCEPT ![t] = 0]
         /\ timers' = IF success THEN timers \cup {[task |-> t, reg |-> ctx[t].reg,
                                                   left |-> RemovalDelay]}
                      ELSE timers
    ELSE UNCHANGED <<ctx, stateKey, db, cancelKey, timers>>

\* complete_task: the state is overwritten whatever it was, the cleanup
\* callbacks run (for a failure they drop every Redis key of the task, the
\* cancellation flag with it), and a removal timer is started.
Complete(t, success) ==
    IF t \in active
    THEN /\ Persist(t, [ctx[t] EXCEPT !.state = IF success THEN "completed" ELSE "failed",
                                      !.cleaned = TRUE])
         /\ cancelKey' = IF success THEN cancelKey ELSE [cancelKey EXCEPT ![t] = 0]
         /\ timers' = timers \cup {[task |-> t, reg |-> ctx[t].reg, left |-> RemovalDelay]}
    ELSE UNCHANGED <<ctx, stateKey, db, cancelKey, timers>>

\* Mutant: the early return is also taken when the task is already cancelling.
Cancelled_OnlyOnce(c) ==
    IF c.state \in {"cancelling", "cancelled"} THEN c
    ELSE [c EXCEPT !.state = "cancelled", !.cleaned = TRUE, !.rolledBack = TRUE]

\* _process_cancellation: nothing for a cancelled task, otherwise rollback
\* callbacks, cleanup callbacks, CANCELLED.
Cancelled(c) ==
    IF c.state = "cancelled" THEN c
    ELSE [c EXCEPT !.state = "cancelled", !.cleaned = TRUE, !.rolledBack = TRUE]

\* _check_timeout, which does not ask whether the task is still running.
TimedOut(c) == c.age > TimeoutAge

\* The monitor's treatment of one context: cancellation flag, then timeout.
Monitored(t) ==
    LET c == IF cancelKey[t] > 0 THEN Cancelled(ctx[t]) ELSE ctx[t]
    IN  IF TimedOut(c) THEN Cancelled([c EXCEPT !.requested = TRUE]) ELSE c

MonitorDue(t) == t \in active /\ Monitored(t) # ctx[t]

-----------------------------------------------------------------------------
(* A thread inside cancellable_task's wrapper *)

\* task_context / register_task: a new context replaces the old one.
Enter(c, t) ==
    /\ pc[c] = "idle"
    /\ regs[t] < MaxRegs
    /\ regs' = [regs EXCEPT ![t] = @ + 1]
    /\ active' = active \cup {t}
    /\ Persist(t, NewContext(regs[t] + 1))
    /\ pc' = [pc EXCEPT ![c] = "body"]
    /\ at' = [at EXCEPT ![c] = t]
    /\ lost' = lost \ {t}
    /\ UNCHANGED <<timers, monitoring, cancelKey>>

\* update_task_progress: persists, and raises CancelExecution when the
\* cancellation of the context was requested.
Progress(c) ==
    /\ pc[c] = "body"
    /\ at[c] \in active
    /\ Persist(at[c], ctx[at[c]])
    /\ pc' = IF ctx[at[c]].requested THEN [pc EXCEPT ![c] = "cancelled"] ELSE pc
    /\ UNCHANGED <<active, timers, at, monitoring, cancelKey, regs, lost>>

\* task_context's exit, on return of the body ...
Return(c) ==
    /\ pc[c] = "body"
    /\ Complete(at[c], TRUE)
    /\ pc' = [pc EXCEPT ![c] = "idle"]
    /\ at' = [at EXCEPT ![c] = "none"]
    /\ UNCHANGED <<active, monitoring, regs, lost>>

\* Mutant: an exception leaves the wrapper without complete_task.
Raise_NotCompleted(c) ==
    /\ pc[c] \in {"body", "cancelled"}
    /\ pc' = [pc EXCEPT ![c] = "idle"] /\ at' = [at EXCEPT ![c] = "none"]
    /\ UNCHANGED <<active, ctx, timers, durable, monitoring, regs, lost>>

\* ... and on an exception of the body, CancelExecution included.
Raise(c) ==
    /\ pc[c] \in {"body", "cancelled"}
    /\ Complete(at[c], FALSE)
    /\ pc' = [pc EXCEPT ![c] = "idle"]
    /\ at' = [at EXCEPT ![c] = "none"]
    /\ UNCHANGED <<active, monitoring, regs, lost>>

-----------------------------------------------------------------------------
(* The cancel endpoint, the monitor thread, the timers, time *)

\* Mutant: request_cancellation sets the flag and forgets to persist.
RequestCancellation_NotPersisted(t) ==
    /\ t \in active
    /\ ctx' = [ctx EXCEPT ![t].requested = TRUE, ![t].state = "cancelling"]
    /\ cancelKey' = [cancelKey EXCEPT ![t] = FlagTTL]
    /\ UNCHANGED <<active, timers, pc, at, monitoring, stateKey, db, regs, lost>>

\* Mutant: request_cancellation sets no flag.
RequestCancellation_NoFlag(t) ==
    /\ t \in active
    /\ Persist(t, [ctx[t] EXCEPT !.requested = TRUE, !.state = "cancelling"])
    /\ UNCHANGED <<active, timers, pc, at, monitoring, cancelKey, regs, lost>>

\* request_cancellation: whatever the state of the context is.
RequestCancellation(t) ==
    /\ t \in active
    /\ Persist(t, [ctx[t] EXCEPT !.requested = TRUE, !.state = "cancelling"])
    /\ cancelKey' = [cancelKey EXCEPT ![t] = FlagTTL]
    /\ UNCHANGED <<active, timers, pc, at, monitoring, regs, lost>>

\* One pass of monitor_tasks over all contexts, under the lock.
MonitorPass ==
    /\ monitoring
    /\ \E t \in Tasks : MonitorDue(t)
    /\ LET acted == {t \in active : Monitored(t).state # ctx[t].state} IN
       /\ ctx' = [t \in Tasks |-> IF t \in active THEN Monitored(t) ELSE ctx[t]]
       /\ stateKey' = [t \in Tasks |-> IF t \in acted THEN "cancelled" ELSE stateKey[t]]
       /\ db' = [t \in Tasks |-> IF t \in acted THEN "cancelled" ELSE db[t]]
    /\ UNCHANGED <<active, timers, pc, at, monitoring, cancelKey, regs, lost>>

\* Mutant: the timer drops the cache keys and keeps the context.
TimerFires_KeepsContext(tm) ==
    /\ tm \in timers /\ tm.left = 0
    /\ timers' = timers \ {tm}
    /\ stateKey' = [stateKey EXCEPT ![tm.task] = "none"]
    /\ cancelKey' = [cancelKey EXCEPT ![tm.task] = 0]
    /\ UNCHANGED <<active, ctx, pc, at, monitoring, db, regs, lost>>

\* _cleanup_completed_task: the timer knows the task id only, so it removes
\* whichever context is registered under it now, also one whose body still runs.
TimerFires(tm) ==
    /\ tm \in timers /\ tm.left = 0
    /\ timers' = timers \ {tm}
    /\ active' = active \ {tm.task}
    /\ IF tm.task \in active
       THEN /\ stateKey' = [stateKey EXCEPT ![tm.task] = "none"]
            /\ cancelKey' = [cancelKey EXCEPT ![tm.task] = 0]
       ELSE UNCHANGED <<stateKey, cancelKey>>
    /\ lost' = IF tm.task \in active /\ InBody(tm.task) # {} THEN lost \cup {tm.task} ELSE lost
    /\ UNCHANGED <<ctx, pc, at, monitoring, db, regs>>

\* Five minutes pass; contexts age, timers and flags run down.
Tick ==
    /\ monitoring => \A t \in Tasks : ~MonitorDue(t)
    /\ ctx' = [t \in Tasks |-> IF ctx[t].age <= TimeoutAge
                               THEN [ctx[t] EXCEPT !.age = @ + 1] ELSE ctx[t]]
    /\ timers' = {[tm EXCEPT !.left = IF @ > 0 THEN @ - 1 ELSE 0] : tm \in timers}
    /\ cancelKey' = [t \in Tasks |-> IF cancelKey[t] > 0 THEN cancelKey[t] - 1 ELSE 0]
    /\ UNCHANGED <<active, pc, at, monitoring, stateKey, db, regs, lost>>

\* The hour of a task_state_ key runs out; each persist starts it anew, which
\* the model does not count, so a key may expire at any time.
StateKeyExpires(t) ==
    /\ stateKey[t] # "none"
    /\ stateKey' = [stateKey EXCEPT ![t] = "none"]
    /\ UNCHANGED <<memory, cancelKey, db, regs, lost>>

-----------------------------------------------------------------------------
(* Huey's signals, emitted while the body runs; they carry Huey's own task *)
(* id and find a context only when it is registered under that id.         *)

SignalFor(t) == t \in HueyIds /\ t \in active /\ InBody(t) # {}

OnTaskExecuting(t) ==
    /\ SignalFor(t)
    /\ Persist(t, [ctx[t] EXCEPT !.state = "running", !.age = 0])
    /\ UNCHANGED <<active, timers, pc, at, monitoring, cancelKey, regs, lost>>

\* Mutant: an interrupted task runs no cleanup callbacks.
OnTaskInterrupted_NoCleanup(t) ==
    /\ SignalFor(t)
    /\ Persist(t, [ctx[t] EXCEPT !.state = "interrupted"])
    /\ UNCHANGED <<active, timers, pc, at, monitoring, cancelKey, regs, lost>>

OnTaskInterrupted(t) ==
    /\ SignalFor(t)
    /\ Persist(t, [ctx[t] EXCEPT !.state = "interrupted", !.cleaned = TRUE])
    /\ UNCHANGED <<active, timers, pc, at, monitoring, cancelKey, regs, lost>>

OnTaskError(t) ==
    /\ SignalFor(t)
    /\ Persist(t, [ctx[t] EXCEPT !.state = "failed", !.cleaned = TRUE])
    /\ cancelKey' = [cancelKey EXCEPT ![t] = 0]
    /\ UNCHANGED <<active, timers, pc, at, monitoring, regs, lost>>

-----------------------------------------------------------------------------
(* The end of the process *)

\* _graceful_shutdown, on SIGTERM or SIGINT: the monitor stops, every active
\* task becomes CANCELLED and loses its Redis keys, nothing is persisted.  The
\* handler returns: the process goes on until it is killed.  The flags of
\* tasks without a context stay: django-redis prefixes its keys, and the
\* pattern task_cancel_* of clear_huey_queue_on_shutdown has no prefix.
GracefulShutdown ==
    /\ monitoring' = FALSE
    /\ ctx' = [t \in Tasks |-> IF t \in active
                               THEN [ctx[t] EXCEPT !.requested = TRUE, !.cleaned = TRUE,
                                                   !.state = "cancelled"]
                               ELSE ctx[t]]
    /\ stateKey' = [t \in Tasks |-> IF t \in active THEN "none" ELSE stateKey[t]]
    /\ cancelKey' = [t \in Tasks |-> IF t \in active THEN 0 ELSE cancelKey[t]]
    /\ UNCHANGED <<active, timers, pc, at, db, regs, lost>>

\* The process dies and a new one starts with an empty manager; the cache and
\* the database stay.
Crash ==
    /\ active' = {} /\ timers' = {} /\ monitoring' = TRUE
    /\ pc' = [c \in Callers |-> "idle"]
    /\ at' = [c \in Callers |-> "none"]
    /\ lost' = lost \cup {t \in active : InBody(t) # {}}
    /\ UNCHANGED <<ctx, durable, regs>>

Next ==
    \/ \E c \in Callers, t \in Tasks : Enter(c, t)
    \/ \E c \in Callers : Progress(c) \/ Return(c) \/ Raise(c)
    \/ \E t \in Tasks : RequestCancellation(t)
    \/ MonitorPass
    \/ \E tm \in timers : TimerFires(tm)
    \/ Tick
    \/ \E t \in Tasks : StateKeyExpires(t)
    \/ \E t \in Tasks : OnTaskExecuting(t) \/ OnTaskInterrupted(t) \/ OnTaskError(t)
    \/ GracefulShutdown
    \/ Crash

Spec == Init /\ [][Next]_vars

\* Timers fire, the monitor thread runs and time passes; bodies may never
\* return.  Strong fairness for Tick: cancel requests may keep the monitor busy,
\* not the clock.
Fairness ==
    /\ WF_vars(MonitorPass)
    /\ \A tm \in Timer : WF_vars(TimerFires(tm))
    /\ SF_vars(Tick)

FairSpec == Spec /\ Fairness

-----------------------------------------------------------------------------
(* Properties *)

\* The context in memory and the session row agree after every method, except
\* for the contexts _graceful_shutdown cancels without persisting them.  And the
\* polling page, which reads the cache key or, without one, the session row, is
\* told the same by both, also when the context is gone with its process.
ViewsAgree ==
    /\ \A t \in active :
        (monitoring \/ ctx[t].state # "cancelled") => db[t] = SessionStatus(ctx[t].state)
    /\ \A t \in Tasks : stateKey[t] # "none" =>
        /\ db[t] = SessionStatus(stateKey[t])
        /\ t \in active => stateKey[t] = ctx[t].state

\* No context is left in a state that ends a task before its cleanup callbacks
\* ran, whichever thread ended it, nor cancelled by the monitor before its
\* rollback callbacks ran.
EndedIsCleanedUp ==
    \A t \in active :
        /\ ctx[t].state \in {"cancelled", "completed", "failed", "interrupted"}
            => ctx[t].cleaned
        /\ monitoring /\ ctx[t].state = "cancelled" => ctx[t].rolledBack

\* A cancellation that was accepted still has the flag the monitor looks for, and
\* a failed task leaves none behind that would cancel it a second time.
FlagsFit ==
    \A t \in active :
        /\ monitoring /\ ctx[t].state = "cancelling" => cancelKey[t] > 0
        /\ ctx[t].state = "failed" => cancelKey[t] = 0

\* active_tasks does not leak: each context has a thread that will complete it
\* or a timer that will remove it.
NoLeak ==
    \A t \in active : InBody(t) # {} \/ \E tm \in timers : tm.task = t

\* When every wrapper of an id has returned, however many registrations of it ran
\* into one another, the session says how the task ended; unless the process died
\* under it, or the timer of an earlier registration took its context away.
ReturnedIsReported ==
    \A t \in Tasks : regs[t] > 0 /\ InBody(t) = {} /\ t \notin lost =>
        db[t] \in {"completed", "failed", "cancelling", "cancelled"}

\* "Task should remain completed": a completed task keeps its state as long as
\* it is the one registered.
CompletedStays ==
    [][\A t \in Tasks :
        /\ t \in active /\ ctx[t].state = "completed"
        /\ t \in active' /\ regs'[t] = regs[t] /\ monitoring'
        => ctx'[t].state = "completed"]_vars

\* A cancellation request is acted on, even when the body it asks to stop never
\* returns, unless a shutdown stops the monitor first.
CancellationIsProcessed ==
    \A t \in Tasks : (monitoring /\ t \in active /\ ctx[t].state = "cancelling")
                        ~> ~(monitoring /\ t \in active /\ ctx[t].state = "cancelling")

\* A context that no thread will complete any more is removed from memory in
\* the end, also when its id is registered again.
ContextIsRemoved ==
    \A t \in Tasks, n \in 1..MaxRegs :
        (t \in active /\ ctx[t].reg = n /\ InBody(t) = {})
            ~> ~(t \in active /\ ctx[t].reg = n)
=============================================================================
