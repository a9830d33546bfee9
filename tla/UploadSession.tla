---------------------------- MODULE UploadSession ----------------------------
(***************************************************************************)
(* One asynchronous upload session and its files: the presigned URLs       *)
(* (AsyncUploadManager), the browser's uploads and its mark-uploaded       *)
(* calls, the flagging of finished sessions (periodic task and command),   *)
(* the staff's requests for a verification and the Huey task that verifies *)
(* the files and creates their S3FileObject rows (arkumu/storage).         *)
(*                                                                         *)
(* Requests run in one READ COMMITTED transaction each (ATOMIC_REQUESTS):  *)
(* a statement sees what is committed and the request's own writes, and a  *)
(* row that was written stays locked until the commit.  Tasks and commands *)
(* run in autocommit.  save() without update_fields writes the whole row   *)
(* as it was read.                                                         *)
(***************************************************************************)
EXTENDS Naturals, FiniteSets

CONSTANTS
    Files,          \* AsyncUploadFile rows of the session
    Staff,          \* members of the staff, or the terminals they type at
    Verifies,       \* runs of verify_upload_session that may be enqueued
    Flaggers,       \* runs of verify_pending_sessions and its command
    Ways,           \* how the staff asks: a subset of AllWays
    Retries,        \* retries of the Huey task
    MaxFaults,      \* bound: exceptions the verification meets
    MaxCrashes      \* bound: deaths of the Huey worker

AllWays == {"dashboard", "command", "sync"}

ASSUME UploadSessionAssumption ==
    /\ IsFiniteSet(Files) /\ "none" \notin Files
    /\ Ways \subseteq AllWays
    /\ Retries \in Nat /\ MaxFaults \in Nat /\ MaxCrashes \in Nat

VARIABLES
    files,          \* AsyncUploadFile rows as committed
    session,        \* AsyncUploadSession row as committed
    slock,          \* the request that has written the session row, or "none"
    objects,        \* S3FileObject rows created for each file
    stored,         \* files whose object is in the bucket
    mark,           \* mark_file_uploaded, one call for each file
    staff,          \* what each member of the staff is doing
    ver,            \* the verification tasks
    flag,           \* the flagging runs
    faults, crashes \* how many of each there have been

vars == <<files, session, slock, objects, stored, mark, staff, ver, flag,
          faults, crashes>>

FileStatus == {"absent", "pending", "uploaded", "completed", "failed"}

SessionStatus == {"initialized", "presigned_generated", "uploading",
                  "awaiting_verification", "processing", "completed", "failed"}

\* The file statuses after which nothing more is expected of the browser.
Terminal == {"uploaded", "completed", "failed"}

FileRow == [status : FileStatus, linked : BOOLEAN]

SessionRow == [status : SessionStatus, completed : Nat, failed : Nat]

Tally == [completed : Nat, failed : Nat, finished : BOOLEAN]

NoRow == [status |-> "absent", linked |-> FALSE]
NoSession == [status |-> "initialized", completed |-> 0, failed |-> 0]
NoTally == [completed |-> 0, failed |-> 0, finished |-> FALSE]

\* Where a call of mark_file_uploaded is; from "saved" to "counted" it holds
\* the lock of its file's row.
Locking == {"saved", "starting", "seen", "counted"}
MarkPC == {"none", "due", "read", "done"} \cup Locking

MarkRow == [pc : MarkPC, row : FileRow, ses : SessionRow, tally : Tally]

StaffRow == [pc : {"idle", "page", "asked"}, ses : SessionRow]

VerifyPC == {"idle", "queued", "checking", "linking", "counted", "done"}

VerifyRow == [pc : VerifyPC, todo : SUBSET Files, rows : [Files -> FileRow],
              now : Files \cup {"none"}, failures : Nat, tries : Nat, tally : Tally]

FlagRow == [pc : {"idle", "spotted", "weighed"}, tally : Tally]

TypeOK ==
    /\ files \in [Files -> FileRow]
    /\ session \in SessionRow
    /\ slock \in Files \cup {"none"}
    /\ objects \in [Files -> Nat]
    /\ stored \subseteq Files
    /\ mark \in [Files -> MarkRow]
    /\ staff \in [Staff -> StaffRow]
    /\ ver \in [Verifies -> VerifyRow]
    /\ flag \in [Flaggers -> FlagRow]
    /\ faults \in 0..MaxFaults
    /\ crashes \in 0..MaxCrashes

NoVerify == [pc |-> "idle", todo |-> {}, rows |-> [f \in Files |-> NoRow],
             now |-> "none", failures |-> 0, tries |-> 0, tally |-> NoTally]

\* A session whose first batch brought it no file.
Init ==
    /\ files = [f \in Files |-> NoRow]
    /\ session = NoSession
    /\ slock = "none"
    /\ objects = [f \in Files |-> 0]
    /\ stored = {}
    /\ mark = [f \in Files |-> [pc |-> "none", row |-> NoRow, ses |-> NoSession, tally |-> NoTally]]
    /\ staff = [s \in Staff |-> [pc |-> "idle", ses |-> NoSession]]
    /\ ver = [v \in Verifies |-> NoVerify]
    /\ flag = [g \in Flaggers |-> [pc |-> "idle", tally |-> NoTally]]
    /\ faults = 0
    /\ crashes = 0

Rows(db) == {f \in Files : db[f].status # "absent"}

\* What the counting queries return when they see the file rows db.
Count(db) ==
    [completed |-> Cardinality({f \in Rows(db) : db[f].status = "completed"}),
     failed    |-> Cardinality({f \in Rows(db) : db[f].status = "failed"}),
     finished  |-> \A f \in Rows(db) : db[f].status \in Terminal]

\* A statement of an autocommit process waits for the request that has written
\* the row.
SessionFree == slock = "none"
FileFree(f) == mark[f].pc \notin Locking

-----------------------------------------------------------------------------
(* The browser: URLs for the files first, then one upload for each, and a  *)
(* call of mark_file_uploaded after each upload.                           *)

\* One batch: the files of F are accepted, others may have been refused.
Presign(F) ==
    /\ F # {} /\ SessionFree
    /\ \A f \in F : files[f].status = "absent"
    /\ \A f \in Files : mark[f].pc = "none"
    /\ files' = [f \in Files |-> IF f \in F THEN [status |-> "pending", linked |-> FALSE]
                                            ELSE files[f]]
    /\ session' = [session EXCEPT !.status = "presigned_generated"]
    /\ UNCHANGED <<slock, objects, stored, mark, staff, ver, flag, faults, crashes>>

Upload(f) ==
    /\ files[f].status # "absent" /\ mark[f].pc = "none"
    /\ stored' = stored \cup {f}
    /\ mark' = [mark EXCEPT ![f] = [@ EXCEPT !.pc = "due"]]
    /\ UNCHANGED <<files, session, slock, objects, staff, ver, flag, faults, crashes>>

-----------------------------------------------------------------------------
(* mark_file_uploaded(f)                                                   *)

MarkRead(f) ==
    /\ mark[f].pc = "due"
    /\ mark' = [mark EXCEPT ![f] = [@ EXCEPT !.pc = "read", !.row = files[f]]]
    /\ UNCHANGED <<files, session, slock, objects, stored, staff, ver, flag, faults, crashes>>

\* Mutant: mark_uploading() is called instead.
MarkSave_Uploading(f) ==
    /\ mark[f].pc = "read"
    /\ mark' = [mark EXCEPT ![f] = [@ EXCEPT
         !.pc = "saved", !.row = [mark[f].row EXCEPT !.status = "uploading"]]]
    /\ UNCHANGED <<files, session, slock, objects, stored, staff, ver, flag, faults, crashes>>

\* upload_file.mark_uploaded(): the whole row, not yet committed.
MarkSave(f) ==
    /\ mark[f].pc = "read"
    /\ mark' = [mark EXCEPT ![f] = [@ EXCEPT
         !.pc = "saved", !.row = [mark[f].row EXCEPT !.status = "uploaded"]]]
    /\ UNCHANGED <<files, session, slock, objects, stored, staff, ver, flag, faults, crashes>>

\* upload_file.session is fetched.
MarkSession(f) ==
    /\ mark[f].pc = "saved"
    /\ LET begun == session.status \in {"uploading", "processing", "completed", "failed",
                                        "awaiting_verification"}
       IN mark' = [mark EXCEPT ![f] = [@ EXCEPT !.pc = IF begun THEN "seen" ELSE "starting",
                                                !.ses = session]]
    /\ UNCHANGED <<files, session, slock, objects, stored, staff, ver, flag, faults, crashes>>

\* session.mark_uploading(): the whole row, not yet committed.
MarkUploading(f) ==
    /\ mark[f].pc = "starting" /\ SessionFree
    /\ slock' = f
    /\ mark' = [mark EXCEPT ![f] = [@ EXCEPT
         !.pc = "seen", !.ses = [mark[f].ses EXCEPT !.status = "uploading"]]]
    /\ UNCHANGED <<files, session, objects, stored, staff, ver, flag, faults, crashes>>

MarkCount(f) ==
    /\ mark[f].pc = "seen"
    /\ mark' = [mark EXCEPT ![f] = [@ EXCEPT
         !.pc = "counted", !.tally = Count([files EXCEPT ![f] = mark[f].row])]]
    /\ UNCHANGED <<files, session, slock, objects, stored, staff, ver, flag, faults, crashes>>

\* session.save(update_fields=...) and the commit.
MarkCommit(f) ==
    /\ mark[f].pc = "counted" /\ slock \in {"none", f}
    /\ files' = [files EXCEPT ![f] = mark[f].row]
    /\ LET base == IF slock = f THEN mark[f].ses ELSE session
       IN session' = [status    |-> IF mark[f].tally.finished
                                    THEN "awaiting_verification" ELSE base.status,
                      completed |-> mark[f].tally.completed,
                      failed    |-> mark[f].tally.failed]
    /\ slock' = "none"
    /\ mark' = [mark EXCEPT ![f] = [pc |-> "done", row |-> NoRow, ses |-> NoSession,
                                    tally |-> NoTally]]
    /\ UNCHANGED <<objects, stored, staff, ver, flag, faults, crashes>>

Mark(f) ==
    \/ MarkRead(f) \/ MarkSave(f) \/ MarkSession(f)
    \/ MarkUploading(f) \/ MarkCount(f) \/ MarkCommit(f)

-----------------------------------------------------------------------------
(* verify_pending_sessions, and flag_uploads_for_verification              *)

Spot(g) ==
    /\ flag[g].pc = "idle" /\ session.status = "uploading"
    /\ flag' = [flag EXCEPT ![g] = [@ EXCEPT !.pc = "spotted"]]
    /\ UNCHANGED <<files, session, slock, objects, stored, mark, staff, ver, faults, crashes>>

\* Mutant: without the look at the remaining files.
Weigh_Unchecked(g) ==
    /\ flag[g].pc = "spotted"
    /\ flag' = [flag EXCEPT ![g] = [pc |-> "weighed", tally |-> Count(files)]]
    /\ UNCHANGED <<files, session, slock, objects, stored, mark, staff, ver, faults, crashes>>

Weigh(g) ==
    /\ flag[g].pc = "spotted"
    /\ flag' = [flag EXCEPT ![g] = IF Count(files).finished
                                   THEN [pc |-> "weighed", tally |-> Count(files)]
                                   ELSE [pc |-> "idle", tally |-> NoTally]]
    /\ UNCHANGED <<files, session, slock, objects, stored, mark, staff, ver, faults, crashes>>

\* Mutant: update_fields lacks the status.
Post_NoStatus(g) ==
    /\ flag[g].pc = "weighed" /\ SessionFree
    /\ session' = [session EXCEPT !.completed = flag[g].tally.completed,
                                  !.failed = flag[g].tally.failed]
    /\ flag' = [flag EXCEPT ![g] = [pc |-> "idle", tally |-> NoTally]]
    /\ UNCHANGED <<files, slock, objects, stored, mark, staff, ver, faults, crashes>>

\* save(update_fields=...) of the session as it was when it was spotted.
Post(g) ==
    /\ flag[g].pc = "weighed" /\ SessionFree
    /\ session' = [status    |-> "awaiting_verification",
                   completed |-> flag[g].tally.completed,
                   failed    |-> flag[g].tally.failed]
    /\ flag' = [flag EXCEPT ![g] = [pc |-> "idle", tally |-> NoTally]]
    /\ UNCHANGED <<files, slock, objects, stored, mark, staff, ver, faults, crashes>>

Flag(g) == Spot(g) \/ Weigh(g) \/ Post(g)

-----------------------------------------------------------------------------
(* The staff asks for a verification.                                      *)

Asking(s) == staff' = [staff EXCEPT ![s] = [pc |-> "asked", ses |-> session]]

\* A page shows the button while the session awaits its verification.
OpenPage(s) ==
    /\ "dashboard" \in Ways /\ staff[s].pc = "idle"
    /\ session.status = "awaiting_verification"
    /\ staff' = [staff EXCEPT ![s] = [@ EXCEPT !.pc = "page"]]
    /\ UNCHANGED <<files, session, slock, objects, stored, mark, ver, flag, faults, crashes>>

\* trigger_upload_verification: the button is pressed, now or much later.
Click(s) ==
    /\ staff[s].pc = "page"
    /\ IF session.status \in {"completed", "processing"}
       THEN staff' = [staff EXCEPT ![s].pc = "idle"]
       ELSE Asking(s)
    /\ UNCHANGED <<files, session, slock, objects, stored, mark, ver, flag, faults, crashes>>

\* queue_upload_verification
Command(s) ==
    /\ "command" \in Ways /\ staff[s].pc = "idle"
    /\ session.status # "processing"
    /\ Asking(s)
    /\ UNCHANGED <<files, session, slock, objects, stored, mark, ver, flag, faults, crashes>>

\* verify_upload_session_sync
Sync(s) ==
    /\ "sync" \in Ways /\ staff[s].pc = "idle"
    /\ Asking(s)
    /\ UNCHANGED <<files, session, slock, objects, stored, mark, ver, flag, faults, crashes>>

\* session.mark_processing(), the whole row, and the task goes to the queue:
\* verify_upload_session(...) enqueues it too, it does not run it.
Enqueue(s, v) ==
    /\ staff[s].pc = "asked" /\ SessionFree
    /\ ver[v].pc = "idle"
    /\ session' = [staff[s].ses EXCEPT !.status = "processing"]
    /\ ver' = [ver EXCEPT ![v] = [@ EXCEPT !.pc = "queued"]]
    /\ staff' = [staff EXCEPT ![s] = [pc |-> "idle", ses |-> NoSession]]
    /\ UNCHANGED <<files, slock, objects, stored, mark, flag, faults, crashes>>

-----------------------------------------------------------------------------
(* The task verify_upload_session                                          *)

Ended(v) == ver' = [ver EXCEPT ![v] = [NoVerify EXCEPT !.pc = "done"]]

\* Mutants: failed files are not verified again; every file is.
Pending_NotFailed == {f \in Rows(files) : files[f].status \notin {"completed", "failed"}}
Pending_All == Rows(files)

\* session.files.exclude(status='completed')
Pending == {f \in Rows(files) : files[f].status # "completed"}

\* There are files to verify: their rows are fetched.
Start(v) ==
    /\ ver[v].pc = "queued" /\ Pending # {}
    /\ ver' = [ver EXCEPT ![v] = [@ EXCEPT !.pc = "checking", !.todo = Pending,
         !.rows = [f \in Files |-> IF f \in Pending THEN files[f] ELSE NoRow]]]
    /\ UNCHANGED <<files, session, slock, objects, stored, mark, staff, flag, faults, crashes>>

\* There are none.
AlreadyCompleted(v) ==
    /\ ver[v].pc = "queued" /\ Pending = {} /\ SessionFree
    /\ session' = [session EXCEPT !.status = "completed"]
    /\ Ended(v)
    /\ UNCHANGED <<files, slock, objects, stored, mark, staff, flag, faults, crashes>>

\* Mutant: without the look into the bucket.
Record_Unchecked(v, f) ==
    /\ ver[v].pc = "checking" /\ f \in ver[v].todo
    /\ objects' = [objects EXCEPT ![f] = @ + 1]
    /\ ver' = [ver EXCEPT ![v] = [@ EXCEPT !.pc = "linking", !.now = f]]
    /\ UNCHANGED <<files, session, slock, stored, mark, staff, flag, faults, crashes>>

\* The object is in the bucket: S3FileObject.objects.create
Record(v, f) ==
    /\ ver[v].pc = "checking" /\ f \in ver[v].todo
    /\ f \in stored
    /\ objects' = [objects EXCEPT ![f] = @ + 1]
    /\ ver' = [ver EXCEPT ![v] = [@ EXCEPT !.pc = "linking", !.now = f]]
    /\ UNCHANGED <<files, session, slock, stored, mark, staff, flag, faults, crashes>>

\* upload_file.save(update_fields=...)
Link(v, f) ==
    /\ ver[v].pc = "linking" /\ ver[v].now = f /\ FileFree(f)
    /\ files' = [files EXCEPT ![f] = [status |-> "completed", linked |-> TRUE]]
    /\ ver' = [ver EXCEPT ![v] = [@ EXCEPT !.pc = "checking", !.now = "none",
         !.todo = ver[v].todo \ {f}, !.rows = [ver[v].rows EXCEPT ![f] = NoRow]]]
    /\ UNCHANGED <<session, slock, objects, stored, mark, staff, flag, faults, crashes>>

\* The object is not found, or a statement raises, be it after the record was
\* made: upload_file.mark_failed(), the whole row as it is in memory.
Miss(v, f) ==
    /\ ver[v].pc \in {"checking", "linking"} /\ f \in ver[v].todo /\ FileFree(f)
    /\ ver[v].pc = "linking" => ver[v].now = f
    /\ IF ver[v].pc = "linking" \/ f \in stored
       THEN faults < MaxFaults /\ faults' = faults + 1
       ELSE faults' = faults
    /\ files' = [files EXCEPT ![f] =
         [status |-> "failed", linked |-> ver[v].pc = "linking" \/ ver[v].rows[f].linked]]
    /\ ver' = [ver EXCEPT ![v] = [@ EXCEPT !.pc = "checking", !.now = "none",
         !.todo = ver[v].todo \ {f}, !.rows = [ver[v].rows EXCEPT ![f] = NoRow],
         !.failures = ver[v].failures + 1]]
    /\ UNCHANGED <<session, slock, objects, stored, mark, staff, flag, crashes>>

Recount(v) ==
    /\ ver[v].pc = "checking" /\ ver[v].todo = {}
    /\ ver' = [ver EXCEPT ![v] = [@ EXCEPT !.pc = "counted", !.tally = Count(files)]]
    /\ UNCHANGED <<files, session, slock, objects, stored, mark, staff, flag, faults, crashes>>

Finish(v) ==
    /\ ver[v].pc = "counted" /\ SessionFree
    /\ session' = [status    |-> IF ver[v].failures > 0 THEN "failed" ELSE "completed",
                   completed |-> ver[v].tally.completed,
                   failed    |-> ver[v].tally.failed]
    /\ Ended(v)
    /\ UNCHANGED <<files, slock, objects, stored, mark, staff, flag, faults, crashes>>

\* An exception outside the loop over the files: Huey runs the task again, or
\* gives it up.
Raise(v) ==
    /\ ver[v].pc \in {"queued", "checking", "linking", "counted"}
    /\ faults < MaxFaults /\ faults' = faults + 1
    /\ ver' = [ver EXCEPT ![v] = IF ver[v].tries < Retries
                THEN [NoVerify EXCEPT !.pc = "queued", !.tries = ver[v].tries + 1]
                ELSE [NoVerify EXCEPT !.pc = "done"]]
    /\ UNCHANGED <<files, session, slock, objects, stored, mark, staff, flag, crashes>>

\* The worker dies: the task has left the queue and is not run again.
Crash(v) ==
    /\ ver[v].pc \in {"checking", "linking", "counted"}
    /\ crashes < MaxCrashes /\ crashes' = crashes + 1
    /\ Ended(v)
    /\ UNCHANGED <<files, session, slock, objects, stored, mark, staff, flag, faults>>

Work(v) ==
    \/ Start(v) \/ AlreadyCompleted(v) \/ Recount(v) \/ Finish(v)
    \/ \E f \in Files : Record(v, f) \/ Link(v, f) \/ Miss(v, f)

Next ==
    \/ \E F \in SUBSET Files : Presign(F)
    \/ \E f \in Files : Upload(f) \/ Mark(f)
    \/ \E g \in Flaggers : Flag(g)
    \/ \E s \in Staff :
          \/ OpenPage(s) \/ Click(s) \/ Command(s) \/ Sync(s)
          \/ \E v \in Verifies : Enqueue(s, v)
    \/ \E v \in Verifies : Work(v) \/ Raise(v) \/ Crash(v)

Spec == Init /\ [][Next]_vars

\* The staff asks when the browser has reported every file, and one at a time.
Patient ==
    \A s \in Staff : staff[s].pc # "asked" /\ staff'[s].pc = "asked" =>
        /\ \A t \in Staff : staff[t].pc # "asked"
        /\ \A v \in Verifies : ver[v].pc \in {"idle", "done"}
        /\ Rows(files) # {} /\ \A f \in Rows(files) : mark[f].pc = "done"

PatientSpec == Init /\ [][Next /\ Patient]_vars

\* Requests and tasks that were begun go on, and the flagging comes round; the
\* browser and the staff need not do anything.
LiveSpec ==
    /\ Spec
    /\ \A f \in Files : WF_vars(mark[f].pc # "due" /\ Mark(f))
    /\ \A g \in Flaggers : WF_vars(Flag(g))
    /\ \A v \in Verifies : WF_vars(Work(v))

-----------------------------------------------------------------------------
(* Safety                                                                  *)

\* A completed file has its S3FileObject and its object was in the bucket
\* (verify_upload_session), whatever stale row a request, a second
\* verification or a retry writes over the file's row.
CompletedIsRecorded ==
    \A f \in Files : files[f].status = "completed" =>
        files[f].linked /\ objects[f] > 0 /\ f \in stored

\* A session that awaits its verification waits for no file of the browser's:
\* neither concurrent mark-uploaded calls, which do not see each other's files,
\* nor a late flagging run promotes it too early.
AwaitingIsFinished ==
    session.status = "awaiting_verification" =>
        \A f \in Rows(files) : files[f].status \in Terminal

\* A completed session has only completed files: "Verify every file in an async
\* upload session" (storage/tasks.py:25).  And it counts them right, unless an
\* exception made Huey start over or a flagging run posted its own counts late.
CompletedIsComplete ==
    session.status = "completed" =>
        /\ \A f \in Rows(files) : files[f].status = "completed"
        /\ faults = 0 =>
              /\ session.completed = Count(files).completed
              /\ session.failed = Count(files).failed

\* One S3FileObject for each file of a session, however often its verification
\* was retried or was asked for; what stops a worker between the two writes
\* leaves one behind.
OneObjectEach == \A f \in Files : objects[f] <= 1 + crashes + faults

-----------------------------------------------------------------------------
(* Liveness                                                                *)

\* When every file has been uploaded and reported, the session does not stay
\* "uploading", although the last two calls of mark_file_uploaded may each miss
\* the other's file.
NoneForgotten ==
    (Rows(files) # {} /\ \A f \in Rows(files) : mark[f].pc = "done")
    ~> session.status # "uploading"

\* A session is "processing" only while a verification is under way
\* ("Verification already running in the background.",
\* metadata/views/dashboard_views.py:466).
VerificationEnds ==
    session.status = "processing" ~> session.status # "processing"
=============================================================================
