------------------------ MODULE ImportWorkflowProofs ------------------------
(* Safety of one import, for any set of datasets, threads and retries. *)
EXTENDS ImportWorkflow, TLAPS

\* A task has a result from the import on, and what it has told is its result.
ReportsInTurn ==
    \A d \in Datasets :
        /\ job[d].pc \in {"imported", "closing", "noting"} => job[d].result \in Final
        /\ job[d].pc = "imported" => job[d].result # "failed"
        /\ job[d].pc \in {"closing", "noting"} => Says(d, job[d].result)

Hooking == {"hooks", "enqueuing", "returned"}

\* Tasks are enqueued after the commit only.
Committed ==
    /\ web.pc \in Hooking => \A d \in Datasets : tasks[d] # "absent"
    /\ \A d \in Datasets : job[d].pc # "none" => tasks[d] # "absent"
    /\ web.pc \in {"idle", "making", "refused"} =>
         \A d \in Datasets : tasks[d] = "absent" /\ job[d].pc = "none"

\* A hook enqueues a dataset that has not been enqueued.
HooksInTurn ==
    /\ web.pc \in {"enqueuing", "returned"} => web.now \in web.todo
    /\ web.pc \in Hooking => \A d \in web.todo :
         (web.pc = "returned" /\ web.now = d) \/ job[d].pc = "none"

\* What has left the hooks' list has been enqueued.
HooksDone ==
    /\ web.pc \in Hooking => \A d \in Datasets \ web.todo : job[d].pc # "none"
    /\ web.pc = "returned" /\ web.ok => job[web.now].pc # "none"
    /\ web.pc = "done" => \A d \in Datasets : job[d].pc # "none"

Inductive ==
    /\ TypeOK /\ ReportsInTurn
    /\ Committed /\ HooksInTurn /\ HooksDone
    /\ RunsFindTheirTask /\ ReportsAgree /\ PolledIsQueued

-----------------------------------------------------------------------------

\* A task that stands where it starts, at whatever step and try, is a task.
LEMMA IdleRow ==
    ASSUME NEW l \in {"none", "queued", "ended", "lost"}, NEW n \in 0..Retries
    PROVE [Idle EXCEPT !.pc = l, !.tries = n] \in JobRow
BY DEF Idle, JobRow, Final

LEMMA IdleRowAsIs ==
    ASSUME NEW l \in {"none", "queued", "ended", "lost"}
    PROVE [Idle EXCEPT !.pc = l] \in JobRow
<1>1. Retries \in Nat
  BY ImportWorkflowAssumption
<1>2. 0 \in 0..Retries
  BY <1>1
<1> QED BY <1>2 DEF Idle, JobRow, Final

\* What Huey does with a task that raised leaves it a well typed task.
LEMMA RetriedType ==
    ASSUME TypeOK, NEW d \in Datasets, Retried(d) PROVE job' \in [Datasets -> JobRow]
<1>1. CASE job[d].tries < Retries
  <2>1. job[d].tries + 1 \in 0..Retries
    BY <1>1, ImportWorkflowAssumption DEF TypeOK, JobRow
  <2>2. [Idle EXCEPT !.pc = "queued", !.tries = job[d].tries + 1] \in JobRow
    BY <2>1, IdleRow
  <2> QED BY <1>1, <2>2 DEF Retried, TypeOK
<1>2. CASE ~(job[d].tries < Retries)
  BY <1>2, IdleRowAsIs DEF Retried, Over, TypeOK
<1> QED BY <1>1, <1>2

\* Every step of the request and its hooks keeps the state well typed.
LEMMA TypeWeb == ASSUME TypeOK, Start \/ WebStep \/ WebDies PROVE TypeOK'
<1> USE DEF TypeOK, SessionStatus, WebPC, WebRow, Final
<1>1. CASE Start \/ Refuse
  BY <1>1 DEF Start, Refuse
<1>2. ASSUME NEW d \in Datasets, Create(d) PROVE TypeOK'
  BY <1>2 DEF Create
<1>3. CASE Commit
  BY <1>3 DEF Commit
<1>4. ASSUME NEW d \in Datasets, Register(d) PROVE TypeOK'
  BY <1>4 DEF Register
<1>5. CASE Enqueue
  <2>1. job' \in [Datasets -> JobRow]
    BY <1>5 DEF Enqueue, JobRow
  <2> QED BY <1>5, <2>1 DEF Enqueue
<1>6. CASE EnqueueFails
  BY <1>6 DEF EnqueueFails
<1>7. CASE Complete
  BY <1>7 DEF Complete
<1>8. CASE WebDies
  BY <1>8 DEF WebDies, Fresh
<1> QED BY <1>1, <1>2, <1>3, <1>4, <1>5, <1>6, <1>7, <1>8 DEF WebStep

\* Every step of a task keeps the state well typed.
LEMMA TypeJob ==
    ASSUME TypeOK, ReportsInTurn, NEW d \in Datasets, JobStep(d) PROVE TypeOK'
<1> USE ImportWorkflowAssumption DEF TypeOK, Final, Report, SessionStatus
<1>1. CASE Take(d)
  <2>1. (tasks[d] # "absent") \in BOOLEAN
    OBVIOUS
  <2>2. [job[d] EXCEPT !.pc = "begun", !.found = tasks[d] # "absent"] \in JobRow
    BY <2>1 DEF JobRow, Running
  <2>3. job' = [job EXCEPT ![d] = [job[d] EXCEPT !.pc = "begun", !.found = tasks[d] # "absent"]]
    BY <1>1 DEF Take
  <2> QED BY <1>1, <2>2, <2>3 DEF Take
<1>2. CASE TakeFails(d) \/ Escape(d)
  BY <1>2, RetriedType DEF TakeFails, Escape
<1>3. CASE Progress(d)
  BY <1>3 DEF Progress, Tell, To, JobRow, Running
<1>4. CASE Abandon(d)
  BY <1>4, IdleRowAsIs DEF Abandon, Tell, Over
<1>5. CASE Import(d)
  <2>1. PICK r \in {"completed", "skipped"} :
          job' = [job EXCEPT ![d].pc = "imported", ![d].result = r]
    BY <1>5 DEF Import
  <2>2. [job[d] EXCEPT !.pc = "imported", !.result = r] \in JobRow
    BY DEF JobRow, Running
  <2> QED BY <1>5, <2>1, <2>2 DEF Import
<1>6. CASE Succeed(d)
  BY <1>6 DEF Succeed, Tell, To, JobRow, Running
<1>7. CASE Fail(d)
  <2>1. [job[d] EXCEPT !.pc = "closing", !.result = "failed"] \in JobRow
    BY DEF JobRow, Running
  <2> QED BY <1>7, <2>1 DEF Fail, Tell
<1>8. CASE Close(d)
  BY <1>8 DEF Close, To, JobRow, Running
<1>9. CASE Note(d)
  <2>1. job' \in [Datasets -> JobRow]
    BY <1>9, IdleRowAsIs DEF Note, Over
  <2>2. job[d].result \in Final
    BY <1>9 DEF Note, ReportsInTurn
  <2>3. tasks' \in [Datasets -> {"absent", "pending"} \cup Final]
    BY <1>9, <2>2 DEF Note
  <2> QED BY <1>9, <2>1, <2>3 DEF Note
<1> QED BY <1>1, <1>2, <1>3, <1>4, <1>5, <1>6, <1>7, <1>8, <1>9 DEF JobStep

\* So does every step.
LEMMA TypeStep == ASSUME TypeOK, ReportsInTurn, [Next]_vars PROVE TypeOK'
<1>1. ASSUME NEW d \in Datasets, Expire(d) PROVE TypeOK'
  BY <1>1 DEF Expire, TypeOK, Report
<1>2. CASE ConsumerDies \/ ClearQueue
  BY <1>2, IdleRowAsIs DEF ConsumerDies, ClearQueue, TypeOK
<1>3. CASE Poll \/ LookFails \/ Cancel
  BY <1>3 DEF Poll, Respond, Look, LookFails, Cancel, TypeOK, Page
<1>4. CASE UNCHANGED vars
  BY <1>4 DEF vars, TypeOK
<1> QED BY <1>1, <1>2, <1>3, <1>4, TypeWeb, TypeJob DEF Next

-----------------------------------------------------------------------------

\* Huey puts a task that raised back into the queue or ends it.
LEMMA RetriedPC ==
    ASSUME TypeOK, NEW d \in Datasets, Retried(d)
    PROVE /\ job'[d].pc \in {"queued", "ended"}
          /\ \A e \in Datasets \ {d} : job'[e] = job[e]
BY DEF Retried, Over, Idle, TypeOK

\* A step of a task concerns a task that was enqueued and is not over, its row and
\* its key.
LEMMA JobFrame ==
    ASSUME TypeOK, NEW d \in Datasets, JobStep(d)
    PROVE /\ UNCHANGED <<web, page>>
          /\ job[d].pc \in Running \cup {"queued"}
          /\ job'[d].pc # "none"
          /\ tasks[d] # "absent" => tasks'[d] # "absent"
          /\ \A e \in Datasets \ {d} :
               /\ job'[e] = job[e] /\ cache'[e] = cache[e] /\ tasks'[e] = tasks[e]
               /\ e \in unheard' <=> e \in unheard
<1> USE DEF TypeOK, Running
<1>1. CASE Take(d)
  BY <1>1 DEF Take
<1>2. CASE TakeFails(d) \/ Escape(d)
  BY <1>2, RetriedPC DEF TakeFails, Escape
<1>3. CASE Progress(d)
  BY <1>3 DEF Progress, Tell, To
<1>4. CASE Succeed(d)
  BY <1>4 DEF Succeed, Tell, To
<1>5. CASE Close(d)
  BY <1>5 DEF Close, To
<1>6. CASE Abandon(d)
  BY <1>6 DEF Abandon, Tell, Over, Idle
<1>7. CASE Import(d)
  BY <1>7 DEF Import
<1>8. CASE Fail(d)
  BY <1>8 DEF Fail, Tell
<1>9. CASE Note(d)
  <2>1. job[d].result # "absent"
    BY DEF JobRow, Final
  <2> QED BY <1>9, <2>1 DEF Note, Over, Idle
<1> QED BY <1>1, <1>2, <1>3, <1>4, <1>5, <1>6, <1>7, <1>8, <1>9 DEF JobStep

\* What a step of a task leaves in its own row, key and state.
LEMMA JobReports ==
    ASSUME TypeOK, ReportsInTurn, RunsFindTheirTask, ReportsAgree, Committed,
           NEW d \in Datasets, JobStep(d)
    PROVE /\ job'[d].pc \in {"imported", "closing", "noting"} => job'[d].result \in Final
          /\ job'[d].pc = "imported" => job'[d].result # "failed"
          /\ job'[d].pc \in {"closing", "noting"} =>
               cache'[d] \in {"none", Reports!Outcome(job'[d].result)} \/ d \in unheard'
          /\ job'[d].pc \in Running => job'[d].found
          /\ tasks'[d] \in Final =>
               /\ job'[d].pc = "ended"
               /\ cache'[d] \in {"none", Reports!Outcome(tasks'[d])} \/ d \in unheard'
<1> USE DEF TypeOK, Running
<1>0. tasks[d] \notin Final
  BY JobFrame DEF ReportsAgree
<1>a. job[d].pc \in Running => job[d].found
  BY DEF RunsFindTheirTask
<1>b. /\ job[d].pc \in {"imported", "closing", "noting"} => job[d].result \in Final
      /\ job[d].pc = "imported" => job[d].result # "failed"
      /\ job[d].pc \in {"closing", "noting"} =>
           cache[d] \in {"none", Reports!Outcome(job[d].result)} \/ d \in unheard
  BY DEF ReportsInTurn, Says
<1>1. CASE Take(d)
  <2>1. tasks[d] # "absent"
    BY <1>1 DEF Take, Committed
  <2>2. (tasks[d] # "absent") = TRUE
    BY <2>1
  <2>3. job' = [job EXCEPT ![d].pc = "begun", ![d].found = TRUE]
    BY <1>1, <2>2, Zenon DEF Take
  <2>4. job'[d].pc = "begun" /\ job'[d].found
    BY <2>3 DEF JobRow
  <2>5. tasks' = tasks
    BY <1>1 DEF Take
  <2> QED BY <1>0, <2>4, <2>5
<1>2. CASE TakeFails(d) \/ Escape(d)
  BY <1>0, <1>2, RetriedPC DEF TakeFails, Escape
<1>3. CASE Progress(d)
  BY <1>0, <1>a, <1>3 DEF Progress, Tell, To
<1>4. CASE Abandon(d)
  BY <1>0, <1>4 DEF Abandon, Tell, Over, Idle
<1>5. CASE Import(d)
  BY <1>0, <1>a, <1>5 DEF Import, Final
<1>6. CASE Succeed(d)
  BY <1>0, <1>a, <1>b, <1>6 DEF Succeed, Tell, To, Reports!Outcome
<1>7. CASE Fail(d)
  BY <1>0, <1>a, <1>7 DEF Fail, Tell, Reports!Outcome, Final
<1>8. CASE Close(d)
  BY <1>0, <1>a, <1>b, <1>8 DEF Close, To
<1>9. CASE Note(d)
  <2>1. job'[d].pc = "ended" /\ cache' = cache
    BY <1>9 DEF Note, Over, Idle
  <2>2. tasks'[d] \in {tasks[d], job[d].result}
    BY <1>9 DEF Note
  <2> QED BY <1>0, <1>b, <1>9, <2>1, <2>2 DEF Note
<1> QED BY <1>1, <1>2, <1>3, <1>4, <1>5, <1>6, <1>7, <1>8, <1>9 DEF JobStep

\* Reports stay true: the task of a dataset with a final status is over, a hook
\* enqueues no dataset twice, and what expires is gone for both.
LEMMA ReportsStep ==
    ASSUME Inductive, [Next]_vars
    PROVE ReportsInTurn' /\ RunsFindTheirTask' /\ ReportsAgree'
<1> USE DEF Inductive
<1>1. ASSUME NEW d \in Datasets, JobStep(d)
      PROVE ReportsInTurn' /\ RunsFindTheirTask' /\ ReportsAgree'
  <2> SUFFICES ASSUME NEW e \in Datasets
      PROVE /\ job'[e].pc \in {"imported", "closing", "noting"} => job'[e].result \in Final
            /\ job'[e].pc = "imported" => job'[e].result # "failed"
            /\ job'[e].pc \in {"closing", "noting"} =>
                 cache'[e] \in {"none", Reports!Outcome(job'[e].result)} \/ e \in unheard'
            /\ job'[e].pc \in Running => job'[e].found
            /\ tasks'[e] \in Final =>
                 /\ job'[e].pc = "ended"
                 /\ cache'[e] \in {"none", Reports!Outcome(tasks'[e])} \/ e \in unheard'
    BY DEF ReportsInTurn, RunsFindTheirTask, ReportsAgree, Says, Reports!Outcome
  <2>1. CASE e = d
    BY <1>1, <2>1, JobReports
  <2>2. CASE e # d
    BY <1>1, <2>2, JobFrame
       DEF ReportsInTurn, RunsFindTheirTask, ReportsAgree, Says, Reports!Outcome
  <2> QED BY <2>1, <2>2
<1>2. CASE Enqueue
  <2>1. job[web.now].pc = "none" /\ web.now \in Datasets
    BY <1>2 DEF Enqueue, HooksInTurn, Hooking, TypeOK, WebRow
  <2>2. /\ \A d \in Datasets \ {web.now} : job'[d] = job[d]
        /\ job'[web.now].pc = "queued"
        /\ UNCHANGED <<tasks, cache, unheard>>
    BY <1>2, <2>1 DEF Enqueue, TypeOK, JobRow
  <2> QED BY <2>1, <2>2 DEF ReportsInTurn, RunsFindTheirTask, ReportsAgree, Says, Running, Final
<1>3. CASE Commit
  BY <1>3 DEF Commit, Final, ReportsInTurn, RunsFindTheirTask, ReportsAgree, Says
<1>4. CASE \/ Start \/ Refuse \/ EnqueueFails \/ Complete \/ WebDies
           \/ \E d \in Datasets : Create(d) \/ Register(d)
  <2>1. UNCHANGED <<tasks, cache, unheard, job>>
    BY <1>4 DEF Start, Refuse, EnqueueFails, Complete, WebDies, Create, Register
  <2> QED BY <2>1 DEF ReportsInTurn, RunsFindTheirTask, ReportsAgree, Says
<1>5. CASE ConsumerDies \/ ClearQueue
  <2>1. \A d \in Datasets :
          \/ job'[d] = job[d]
          \/ job'[d].pc = "lost" /\ job[d].pc # "ended"
    BY <1>5 DEF ConsumerDies, ClearQueue, Running, Idle
  <2>2. UNCHANGED <<tasks, cache, unheard>>
    BY <1>5 DEF ConsumerDies, ClearQueue
  <2> QED BY <2>1, <2>2 DEF ReportsInTurn, RunsFindTheirTask, ReportsAgree, Says, Running
<1>6. ASSUME NEW d \in Datasets, Expire(d)
      PROVE ReportsInTurn' /\ RunsFindTheirTask' /\ ReportsAgree'
  <2>1. \A e \in Datasets : cache'[e] \in {cache[e], "none"}
    BY <1>6 DEF Expire, TypeOK
  <2> QED BY <1>6, <2>1 DEF Expire, ReportsInTurn, RunsFindTheirTask, ReportsAgree, Says
<1>7. CASE Poll \/ LookFails \/ Cancel \/ UNCHANGED vars
  <2>1. UNCHANGED <<tasks, cache, unheard, job>>
    BY <1>7 DEF Poll, Respond, Look, LookFails, Cancel, vars
  <2> QED BY <2>1 DEF ReportsInTurn, RunsFindTheirTask, ReportsAgree, Says
<1> QED BY <1>1, <1>2, <1>3, <1>4, <1>5, <1>6, <1>7 DEF Next, WebStep

\* The hooks work off their list: what they enqueue has its row and is new.
LEMMA HooksStep ==
    ASSUME Inductive, [Next]_vars
    PROVE Committed' /\ HooksInTurn' /\ HooksDone' /\ PolledIsQueued'
<1> USE DEF Inductive, Committed, HooksInTurn, HooksDone, PolledIsQueued, Hooking
<1>1. ASSUME NEW d \in Datasets, JobStep(d)
      PROVE Committed' /\ HooksInTurn' /\ HooksDone' /\ PolledIsQueued'
  <2>1. web' = web /\ page' = page
    BY <1>1, JobFrame
  <2>2. \A e \in Datasets : job[e].pc = "none" => job'[e].pc = "none"
    BY <1>1, JobFrame DEF Running
  <2>3. \A e \in Datasets : job'[e].pc = "none" => job[e].pc = "none"
    BY <1>1, JobFrame DEF Running
  <2>4. \A e \in Datasets : tasks[e] # "absent" => tasks'[e] # "absent"
    BY <1>1, JobFrame
  <2>5. Committed'
    <3>1. web.pc \notin {"idle", "making", "refused"}
      BY <1>1, JobFrame DEF Running
    <3> QED BY <2>1, <2>2, <2>4, <3>1
  <2>6. HooksInTurn'
    BY <2>1, <2>2 DEF TypeOK, WebRow
  <2>7. HooksDone'
    BY <2>1, <2>3 DEF TypeOK, WebRow
  <2>8. PolledIsQueued'
    BY <2>1, <2>3
  <2> QED BY <2>5, <2>6, <2>7, <2>8
<1>2. CASE Enqueue
  <2>1. web.now \in web.todo /\ web.now \in Datasets
    BY <1>2 DEF Enqueue, TypeOK, WebRow
  <2>2. /\ \A d \in Datasets \ {web.now} : job'[d] = job[d]
        /\ job'[web.now].pc = "queued"
        /\ web' = [web EXCEPT !.pc = "returned", !.ok = TRUE]
        /\ web.pc = "enqueuing"
        /\ UNCHANGED <<tasks, page>>
    BY <1>2, <2>1 DEF Enqueue, TypeOK
  <2>3. /\ web'.pc = "returned" /\ web'.now = web.now /\ web'.todo = web.todo
    BY <2>2 DEF TypeOK, WebRow
  <2> QED BY <2>1, <2>2, <2>3 DEF TypeOK, WebRow
<1>3. CASE EnqueueFails
  BY <1>3 DEF EnqueueFails, TypeOK, WebRow
<1>4. CASE Commit
  BY <1>4 DEF Commit, TypeOK, WebRow
<1>5. CASE Complete
  BY <1>5 DEF Complete, TypeOK, WebRow
<1>6. ASSUME NEW d \in Datasets, Register(d)
      PROVE Committed' /\ HooksInTurn' /\ HooksDone' /\ PolledIsQueued'
  BY <1>6 DEF Register, TypeOK, WebRow
<1>7. CASE Start \/ Refuse \/ WebDies \/ \E d \in Datasets : Create(d)
  BY <1>7 DEF Start, Refuse, WebDies, Create, Fresh, TypeOK, WebRow
<1>8. CASE ConsumerDies \/ ClearQueue
  <2>1. \A d \in Datasets : job'[d].pc = "none" <=> job[d].pc = "none"
    BY <1>8 DEF ConsumerDies, ClearQueue, Running, Idle
  <2> QED BY <1>8, <2>1 DEF ConsumerDies, ClearQueue, TypeOK, WebRow
<1>9. CASE Poll \/ LookFails \/ Cancel \/ (\E d \in Datasets : Expire(d)) \/ UNCHANGED vars
  BY <1>9 DEF Poll, Respond, Look, LookFails, Cancel, Expire, vars, Polling
<1> QED BY <1>1, <1>2, <1>3, <1>4, <1>5, <1>6, <1>7, <1>8, <1>9 DEF Next, WebStep

-----------------------------------------------------------------------------

\* The inductive invariant: reports in turn, hooks in turn, and what follows.
THEOREM Invariant == Spec => []Inductive
<1>1. Init => Inductive
  <2>1. Init => TypeOK
    BY ImportWorkflowAssumption DEF Init, TypeOK, SessionStatus, Final, Report, WebRow, WebPC,
       Fresh, JobRow, Idle, Page
  <2>2. ASSUME Init PROVE Inductive
    BY <2>1, <2>2 DEF Init, Fresh, Idle, Inductive, ReportsInTurn, Committed, HooksInTurn,
       HooksDone, Hooking, RunsFindTheirTask, ReportsAgree, PolledIsQueued, Running, Final
  <2> QED BY <2>2
<1>2. Inductive /\ [Next]_vars => Inductive'
  BY TypeStep, ReportsStep, HooksStep DEF Inductive
<1> QED BY <1>1, <1>2, PTL DEF Spec

\* Whatever fails, is retried, dies or expires, the state stays well typed.
THEOREM TypeCorrect == Spec => []TypeOK
<1>1. Inductive => TypeOK
  BY DEF Inductive
<1> QED BY <1>1, Invariant, PTL

\* Enqueued on commit, every run finds the row whose key the page reads.
THEOREM RunsFind == Spec => []RunsFindTheirTask
<1>1. Inductive => RunsFindTheirTask
  BY DEF Inductive
<1> QED BY <1>1, Invariant, PTL

\* Row and key of a dataset with a final status agree, however often its task was
\* retried and wherever it failed, unless the key expired or the report was lost.
THEOREM ReportsAlwaysAgree == Spec => []ReportsAgree
<1>1. Inductive => ReportsAgree
  BY DEF Inductive
<1> QED BY <1>1, Invariant, PTL

\* A page is only ever opened for an import that was enqueued completely.
THEOREM PolledWasQueued == Spec => []PolledIsQueued
<1>1. Inductive => PolledIsQueued
  BY DEF Inductive
<1> QED BY <1>1, Invariant, PTL

-----------------------------------------------------------------------------
(* The workflow implements DatasetReports *)

\* A step of a task tells while the row is pending, or settles it as it was told.
LEMMA JobImplements ==
    ASSUME Inductive, NEW d \in Datasets, JobStep(d)
    PROVE [Reports!Next]_Reports!vars
<1> USE DEF Inductive, TypeOK, Running
<1>1. tasks[d] = "pending"
  BY JobFrame DEF ReportsAgree, Committed
<1>2. job[d].pc \in Running => job[d].found
  BY DEF RunsFindTheirTask
<1>3. ASSUME NEW r \in {"processing", "completed", "failed"}, Tell(d, r),
             job[d].pc \in Running, UNCHANGED tasks
      PROVE Reports!Next
  BY <1>1, <1>2, <1>3 DEF Tell, Reports!Next, Reports!Tell, Reports!Lose
<1>4. CASE Take(d) \/ TakeFails(d) \/ Import(d) \/ Close(d) \/ Escape(d)
  BY <1>4 DEF Take, TakeFails, Import, Close, Escape, Reports!vars
<1>5. CASE Progress(d)
  BY <1>3, <1>5 DEF Progress
<1>6. CASE Abandon(d) \/ Fail(d)
  BY <1>3, <1>6 DEF Abandon, Fail
<1>7. CASE Succeed(d)
  BY <1>3, <1>7 DEF Succeed
<1>8. CASE Note(d)
  <2>1. job[d].result \in Final /\ Says(d, job[d].result)
    BY <1>8 DEF Note, ReportsInTurn
  <2>2. Reports!Settle(d, job[d].result)
    BY <1>1, <1>8, <2>1 DEF Note, Says, Reports!Settle
  <2> QED BY <2>1, <2>2 DEF Reports!Next, Final
<1> QED BY <1>4, <1>5, <1>6, <1>7, <1>8 DEF JobStep

\* Every step of the workflow is a step of the promise, or none.
LEMMA StepImplements ==
    ASSUME Inductive, [Next]_vars PROVE [Reports!Next]_Reports!vars
<1>1. CASE Commit
  <2>1. \A d \in Datasets : tasks[d] = "absent"
    BY <1>1 DEF Commit, Inductive, Committed
  <2> QED BY <1>1, <2>1 DEF Commit, Reports!Next, Reports!Accept
<1>2. CASE \/ Start \/ Refuse \/ Enqueue \/ EnqueueFails \/ Complete \/ WebDies
           \/ \E d \in Datasets : Create(d) \/ Register(d)
  BY <1>2 DEF Start, Refuse, Enqueue, EnqueueFails, Complete, WebDies, Create, Register,
     Reports!vars
<1>3. ASSUME NEW d \in Datasets, Expire(d) PROVE Reports!Next
  BY <1>3 DEF Expire, Reports!Next, Reports!Forget
<1>4. CASE ConsumerDies \/ ClearQueue \/ Poll \/ LookFails \/ Cancel \/ UNCHANGED vars
  BY <1>4 DEF ConsumerDies, ClearQueue, Poll, Respond, Look, LookFails, Cancel, vars, Reports!vars
<1> QED BY <1>1, <1>2, <1>3, <1>4, JobImplements DEF Next, WebStep

\* The import keeps the promise: told while pending, settled once and as it was told
\* last, were the report lost or not.
THEOREM Refinement == Spec => ImplementsReports
<1>1. Init => Reports!Init
  BY DEF Init, Reports!Init
<1>2. Inductive /\ [Next]_vars => [Reports!Next]_Reports!vars
  BY StepImplements
<1> QED BY <1>1, <1>2, Invariant, PTL DEF Spec, ImplementsReports, Reports!Spec
=============================================================================
