--------------------------- MODULE ImportWorkflow ---------------------------
(***************************************************************************)
(* One import of a set of CSV files, one dataset each: the request that    *)
(* starts it (start_import), the wrapper of cancellable_task around the    *)
(* enqueuing of each dataset, the Huey task process_dataset_data and the   *)
(* page that polls the progress (arkumu/importer).                         *)
(*                                                                         *)
(* The request runs in one transaction (ATOMIC_REQUESTS); the tasks are    *)
(* enqueued by its on_commit hooks, in autocommit.  cancellable_task wraps *)
(* the Huey task, not its body: what it registers with the task manager    *)
(* and reports as completed is the enqueuing.                              *)
(*                                                                         *)
(* A session is its status.  Whoever saves one has read the row and sets   *)
(* the status: of what is left of the row nothing is modelled.             *)
(***************************************************************************)
EXTENDS Naturals, FiniteSets

CONSTANTS
    Datasets,       \* the files selected for the import
    Threads,        \* worker threads of the Huey consumer
    Retries         \* retries of the Huey task

ASSUME ImportWorkflowAssumption ==
    /\ IsFiniteSet(Datasets) /\ Datasets # {} /\ "none" \notin Datasets
    /\ Threads \in Nat \ {0} /\ Retries \in Nat

VARIABLES
    session,        \* IngestSession row as committed
    tasks,          \* status of the ImportTask rows as committed
    cache,          \* status under task_state_<ImportTask.task_id>
    unheard,        \* ghost: datasets whose last report did not reach the cache
    web,            \* the request and its on_commit hooks
    job,            \* the Huey task of each dataset
    page            \* the page that polls import_progress_view

vars == <<session, tasks, cache, unheard, web, job, page>>

Final == {"completed", "skipped", "failed"}

SessionStatus == {"absent", "pending", "completed", "failed"}

WebPC == {"idle", "making", "refused", "hooks", "enqueuing", "returned", "done",
          "broken", "dead"}

WebRow == [pc : WebPC, made : SUBSET Datasets, todo : SUBSET Datasets,
           now : Datasets \cup {"none"}, ok : BOOLEAN]

Running == {"begun", "importing", "imported", "closing", "noting"}

JobRow == [pc : Running \cup {"none", "queued", "ended", "lost"}, tries : 0..Retries,
           found : BOOLEAN, result : Final \cup {"none"}]

Report == {"none", "processing", "completed", "failed"}

\* "shown": a poll has listed the datasets, with their buttons.
Page == {"off", "opened", "shown", "stopped", "left"}

Polling == {"opened", "shown"}

TypeOK ==
    /\ session \in SessionStatus
    /\ tasks \in [Datasets -> {"absent", "pending"} \cup Final]
    /\ cache \in [Datasets -> Report] /\ unheard \subseteq Datasets
    /\ web \in WebRow
    /\ job \in [Datasets -> JobRow]
    /\ page \in Page

Idle == [pc |-> "none", tries |-> 0, found |-> FALSE, result |-> "none"]

Fresh == [pc |-> "idle", made |-> {}, todo |-> {}, now |-> "none", ok |-> TRUE]

Init ==
    /\ session = "absent"
    /\ tasks = [d \in Datasets |-> "absent"]
    /\ cache = [d \in Datasets |-> "none"] /\ unheard = {}
    /\ web = Fresh
    /\ job = [d \in Datasets |-> Idle]
    /\ page = "off"

-----------------------------------------------------------------------------
(* The request start_import                                                *)

\* The session is created and the schemas are initialised (SchemaCache).
Start ==
    /\ web.pc = "idle"
    /\ web' = [web EXCEPT !.pc = "making"]
    /\ UNCHANGED <<session, tasks, cache, unheard, job, page>>

\* The schemas cannot be initialised: an error page, the session stays.
Refuse ==
    /\ web.pc = "making" /\ web.made = {}
    /\ web' = [web EXCEPT !.pc = "refused"]
    /\ session' = "pending"
    /\ UNCHANGED <<tasks, cache, unheard, job, page>>

\* Mutant: the task is enqueued at once, not on commit.
Create_Enqueues(d) ==
    /\ web.pc = "making" /\ d \notin web.made
    /\ web' = [web EXCEPT !.made = @ \cup {d}]
    /\ job' = [job EXCEPT ![d].pc = "queued"]
    /\ UNCHANGED <<session, tasks, cache, unheard, page>>

\* ImportTask.objects.create and transaction.on_commit
Create(d) ==
    /\ web.pc = "making" /\ d \notin web.made
    /\ web' = [web EXCEPT !.made = @ \cup {d}]
    /\ UNCHANGED <<session, tasks, cache, unheard, job, page>>

Commit ==
    /\ web.pc = "making" /\ web.made = Datasets
    /\ session' = "pending"
    /\ tasks' = [d \in Datasets |-> "pending"]
    /\ web' = [web EXCEPT !.pc = "hooks", !.made = {}, !.todo = Datasets]
    /\ UNCHANGED <<cache, unheard, job, page>>

-----------------------------------------------------------------------------
(* The hooks, one after the other: task_context of the task manager around *)
(* the enqueuing                                                           *)

\* register_task, _persist_task_state: an error of the save is logged.
Register(d) ==
    /\ web.pc = "hooks" /\ d \in web.todo
    /\ session' \in {session, "pending"}
    /\ web' = [web EXCEPT !.pc = "enqueuing", !.now = d]
    /\ UNCHANGED <<tasks, cache, unheard, job, page>>

Enqueue ==
    /\ web.pc = "enqueuing"
    /\ job' = [job EXCEPT ![web.now].pc = "queued"]
    /\ web' = [web EXCEPT !.pc = "returned", !.ok = TRUE]
    /\ UNCHANGED <<session, tasks, cache, unheard, page>>

\* Redis does not answer.
EnqueueFails ==
    /\ web.pc = "enqueuing"
    /\ web' = [web EXCEPT !.pc = "returned", !.ok = FALSE]
    /\ UNCHANGED <<session, tasks, cache, unheard, job, page>>

\* Mutant: a hook that raised does not keep the others from running.
Complete_Robust ==
    /\ web.pc = "returned"
    /\ session' \in {session, IF web.ok THEN "completed" ELSE "failed"}
    /\ web' = [web EXCEPT !.todo = @ \ {web.now}, !.now = "none",
         !.pc = IF web.todo = {web.now} THEN "done" ELSE "hooks"]
    /\ UNCHANGED <<tasks, cache, unheard, job, page>>

\* complete_task, _persist_task_state.  The exception of a hook ends the
\* request; later hooks do not run.
Complete ==
    /\ web.pc = "returned"
    /\ session' \in {session, IF web.ok THEN "completed" ELSE "failed"}
    /\ web' = [web EXCEPT !.todo = @ \ {web.now}, !.now = "none",
         !.pc = IF ~web.ok THEN "broken" ELSE IF web.todo = {web.now} THEN "done" ELSE "hooks"]
    /\ UNCHANGED <<tasks, cache, unheard, job, page>>

WebStep ==
    \/ Refuse \/ Commit \/ Enqueue \/ EnqueueFails \/ Complete
    \/ \E d \in Datasets : Create(d) \/ Register(d)

\* The server kills the request; what is not committed is rolled back.
WebDies ==
    /\ web.pc \notin {"idle", "refused", "done", "broken", "dead"}
    /\ web' = [Fresh EXCEPT !.pc = "dead"]
    /\ UNCHANGED <<session, tasks, cache, unheard, job, page>>

-----------------------------------------------------------------------------
(* The task process_dataset_data(d)                                        *)

To(d, l) == job' = [job EXCEPT ![d].pc = l]

Over(d) == job' = [job EXCEPT ![d] = [Idle EXCEPT !.pc = "ended"]]

\* Mutant: the number of retries is not looked at.
Retried_Always(d) ==
    job' = [job EXCEPT ![d] = [Idle EXCEPT !.pc = "queued", !.tries = job[d].tries + 1]]

\* What Huey does with a task that raised.
Retried(d) ==
    IF job[d].tries < Retries
    THEN job' = [job EXCEPT ![d] = [Idle EXCEPT !.pc = "queued", !.tries = job[d].tries + 1]]
    ELSE Over(d)

\* A thread takes the task and looks for the ImportTask, whose id names the key.
Take(d) ==
    /\ job[d].pc = "queued"
    /\ Cardinality({e \in Datasets : job[e].pc \in Running}) < Threads
    /\ job' = [job EXCEPT ![d].pc = "begun", ![d].found = tasks[d] # "absent"]
    /\ UNCHANGED <<session, tasks, cache, unheard, web, page>>

\* The query raises, outside the try.
TakeFails(d) ==
    /\ job[d].pc = "begun"
    /\ Retried(d)
    /\ UNCHANGED <<session, tasks, cache, unheard, web, page>>

\* Writing to the key; without an ImportTask it is one that nobody reads.  The
\* cache ignores its exceptions: a report may be lost without a trace.
Tell(d, report) ==
    \/ /\ job[d].found
       /\ cache' = [cache EXCEPT ![d] = report] /\ unheard' = unheard \ {d}
    \/ /\ job[d].found
       /\ unheard' = unheard \cup {d} /\ UNCHANGED cache
    \/ ~job[d].found /\ UNCHANGED <<cache, unheard>>

Progress(d) ==
    /\ job[d].pc = "begun"
    /\ Tell(d, "processing")
    /\ To(d, "importing")
    /\ UNCHANGED <<session, tasks, web, page>>

\* No schema, no mapping, no file, no data: the cache is told, nobody else.
Abandon(d) ==
    /\ job[d].pc = "importing"
    /\ Tell(d, "failed")
    /\ Over(d)
    /\ UNCHANGED <<session, tasks, web, page>>

\* process_with_execution_config; a file without rows is skipped.
Import(d) ==
    /\ job[d].pc = "importing"
    /\ \E r \in {"completed", "skipped"} :
        job' = [job EXCEPT ![d].pc = "imported", ![d].result = r]
    /\ UNCHANGED <<session, tasks, cache, unheard, web, page>>

Succeed(d) ==
    /\ job[d].pc = "imported"
    /\ Tell(d, "completed")
    /\ To(d, "closing")
    /\ UNCHANGED <<session, tasks, web, page>>

\* Mutant: the cache is not told that the dataset failed after all.
Fail_Silently(d) ==
    /\ \/ job[d].pc \in {"importing", "imported"}
       \/ job[d].pc = "noting" /\ job[d].result # "failed"
    /\ job' = [job EXCEPT ![d].pc = "closing", ![d].result = "failed"]
    /\ UNCHANGED <<session, tasks, cache, unheard, web, page>>

\* An exception, be it after the success was reported.
Fail(d) ==
    /\ \/ job[d].pc \in {"importing", "imported"}
       \/ job[d].pc = "noting" /\ job[d].result # "failed"
    /\ Tell(d, "failed")
    /\ job' = [job EXCEPT ![d].pc = "closing", ![d].result = "failed"]
    /\ UNCHANGED <<session, tasks, web, page>>

\* update_upload_session_status: an error is logged.
Close(d) ==
    /\ job[d].pc = "closing"
    /\ session' \in {session, IF job[d].result = "failed" THEN "failed" ELSE "completed"}
    /\ To(d, "noting")
    /\ UNCHANGED <<tasks, cache, unheard, web, page>>

\* Mutant: a dataset that failed is run again.
Note_Retried(d) ==
    /\ job[d].pc = "noting"
    /\ tasks' = IF tasks[d] = "absent" THEN tasks ELSE [tasks EXCEPT ![d] = job[d].result]
    /\ IF job[d].result = "failed" THEN Retried(d) ELSE Over(d)
    /\ UNCHANGED <<session, cache, unheard, web, page>>

\* The status of the ImportTask; a missing one is logged.
Note(d) ==
    /\ job[d].pc = "noting"
    /\ tasks' = IF tasks[d] = "absent" THEN tasks ELSE [tasks EXCEPT ![d] = job[d].result]
    /\ Over(d)
    /\ UNCHANGED <<session, cache, unheard, web, page>>

\* It cannot be saved even as failed: the exception leaves the task.
Escape(d) ==
    /\ job[d].pc = "noting" /\ job[d].result = "failed"
    /\ Retried(d)
    /\ UNCHANGED <<session, tasks, cache, unheard, web, page>>

JobStep(d) ==
    \/ Take(d) \/ TakeFails(d) \/ Progress(d) \/ Abandon(d) \/ Import(d) \/ Succeed(d)
    \/ Fail(d) \/ Close(d) \/ Note(d) \/ Escape(d)

\* The consumer dies: what its threads were at is not in the queue any more.
ConsumerDies ==
    /\ \E d \in Datasets : job[d].pc \in Running
    /\ job' = [d \in Datasets |-> IF job[d].pc \in Running
                                  THEN [Idle EXCEPT !.pc = "lost"] ELSE job[d]]
    /\ UNCHANGED <<session, tasks, cache, unheard, web, page>>

\* A process uses its task manager for the first time: the queue is cleared.
ClearQueue ==
    /\ \E d \in Datasets : job[d].pc = "queued"
    /\ job' = [d \in Datasets |-> IF job[d].pc = "queued"
                                  THEN [Idle EXCEPT !.pc = "lost"] ELSE job[d]]
    /\ UNCHANGED <<session, tasks, cache, unheard, web, page>>

\* The hour of a key is over.
Expire(d) ==
    /\ cache[d] # "none"
    /\ cache' = [cache EXCEPT ![d] = "none"]
    /\ UNCHANGED <<session, tasks, unheard, web, job, page>>

-----------------------------------------------------------------------------
(* The page                                                                *)

Respond ==
    /\ web.pc = "done" /\ page = "off"
    /\ page' = "opened"
    /\ UNCHANGED <<session, tasks, cache, unheard, web, job>>

\* Mutant: a failed dataset does not count as done.
Look_OnlyCompleted ==
    /\ page \in Polling
    /\ page' = IF \A d \in Datasets : cache[d] = "completed" THEN "stopped" ELSE "shown"
    /\ UNCHANGED <<session, tasks, cache, unheard, web, job>>

\* import_progress_view: one look at all keys; should_poll.
Look ==
    /\ page \in Polling
    /\ page' = IF \A d \in Datasets : cache[d] \in {"completed", "failed"}
               THEN "stopped" ELSE "shown"
    /\ UNCHANGED <<session, tasks, cache, unheard, web, job>>

\* The cache does not answer: what it is not told is pending.
LookFails ==
    /\ page = "opened"
    /\ page' = "shown"
    /\ UNCHANGED <<session, tasks, cache, unheard, web, job>>

\* The button Cancel of a dataset that is pending or processing.  The manager
\* knows the id of the session, not of the ImportTask: it refuses, and the page
\* is replaced by the monitor.
Cancel ==
    /\ page = "shown"
    /\ page' = "left"
    /\ UNCHANGED <<session, tasks, cache, unheard, web, job>>

Poll == Respond \/ Look

-----------------------------------------------------------------------------
Next ==
    \/ Start \/ WebStep \/ WebDies
    \/ \E d \in Datasets : JobStep(d) \/ Expire(d)
    \/ ConsumerDies \/ ClearQueue
    \/ Poll \/ LookFails \/ Cancel

Spec == Init /\ [][Next]_vars

\* A request runs on until it is killed, threads take tasks and finish them,
\* and an open page polls every two seconds.
Fairness ==
    /\ WF_vars(WebStep)
    /\ \A d \in Datasets : WF_vars(JobStep(d))
    /\ WF_vars(Poll)

FairSpec == Spec /\ Fairness

-----------------------------------------------------------------------------
(* Properties *)

Reports == INSTANCE DatasetReports WITH row <- tasks, key <- cache

\* What is told of a dataset is told before its row settles, and the row settles
\* once, as it was told last, whether that was heard or not: whichever of its runs
\* failed, was retried or is late.
ImplementsReports == Reports!Spec

\* "ensure ImportTask is committed before queuing task": no run reports under a
\* key that the page does not read.
RunsFindTheirTask ==
    \A d \in Datasets : job[d].pc \in Running => job[d].found

\* The key of d says r, unless it has expired or the report was lost.
Says(d, r) == cache[d] \in {"none", Reports!Outcome(r)} \/ d \in unheard

\* Row and cache of a dataset that has a final status say the same, whatever was
\* retried, unless the key has expired or the report of the run that settled the
\* row was lost; and the dataset's task is over.
ReportsAgree ==
    \A d \in Datasets : tasks[d] \in Final => job[d].pc = "ended" /\ Says(d, tasks[d])

\* A page that polls, polls an import all of whose datasets were enqueued.
PolledIsQueued ==
    page # "off" => \A d \in Datasets : job[d].pc # "none"

\* "what was actually imported": a session listed as completed has no dataset whose
\* task is still to come or still at work.
CompletedIsOver ==
    session = "completed" => \A d \in Datasets : job[d].pc \in {"ended", "lost"}

\* The task of d is over, or lost, and has left no final report in the cache.
Unreported(d) ==
    job[d].pc \in {"ended", "lost"} /\ cache[d] \notin {"completed", "failed"}

\* "Continue polling if any tasks are still processing": the page stops, unless a
\* report is missing for good, be it that it was never made or that it was lost.
PollingEnds ==
    (page \in Polling) ~> (page \notin Polling \/ \E d \in Datasets : Unreported(d))
=============================================================================
