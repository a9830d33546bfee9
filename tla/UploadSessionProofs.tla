------------------------- MODULE UploadSessionProofs -------------------------
(***************************************************************************)
(* What UploadSession promises for any number of files, staff members,     *)
(* verifications and flagging runs, any number of retries and failures:    *)
(* its type invariant, that a completed file is a recorded one, that a     *)
(* session that awaits its verification waits for no upload, and that with *)
(* patient staff a completed session is complete and no file is recorded   *)
(* twice.                                                                  *)
(***************************************************************************)
EXTENDS MCUploadSession, FiniteSetTheorems, TLAPS

\* What the counting queries return has the type that is stored.
LEMMA CountType == ASSUME NEW db PROVE Count(db) \in Tally
<1>1. /\ IsFiniteSet({f \in Rows(db) : db[f].status = "completed"})
      /\ IsFiniteSet({f \in Rows(db) : db[f].status = "failed"})
  BY FS_Subset, UploadSessionAssumption DEF Rows
<1> QED BY <1>1, FS_CardinalityType DEF Count, Tally

\* Assigning fields of a well-typed row of bookkeeping leaves it well-typed.
LEMMA MarkUpdate ==
  ASSUME NEW m \in MarkRow, NEW l \in MarkPC
  PROVE  /\ [m EXCEPT !.pc = l] \in MarkRow
         /\ \A r \in FileRow : [m EXCEPT !.pc = l, !.row = r] \in MarkRow
         /\ \A s \in SessionRow : [m EXCEPT !.pc = l, !.ses = s] \in MarkRow
         /\ \A t \in Tally : [m EXCEPT !.pc = l, !.tally = t] \in MarkRow
  BY DEF MarkRow

LEMMA StaffUpdate ==
  ASSUME NEW m \in StaffRow, NEW l \in {"idle", "page", "asked"}
  PROVE  [m EXCEPT !.pc = l] \in StaffRow
  BY DEF StaffRow

LEMMA VerifyUpdate ==
  ASSUME NEW m \in VerifyRow, NEW l \in VerifyPC
  PROVE  /\ [m EXCEPT !.pc = l] \in VerifyRow
         /\ \A n \in Files : [m EXCEPT !.pc = l, !.now = n] \in VerifyRow
         /\ \A y \in Tally : [m EXCEPT !.pc = l, !.tally = y] \in VerifyRow
         /\ \A t \in SUBSET Files, r \in [Files -> FileRow] :
               /\ [m EXCEPT !.pc = l, !.todo = t, !.rows = r] \in VerifyRow
               /\ [m EXCEPT !.pc = l, !.now = "none", !.todo = t, !.rows = r] \in VerifyRow
               /\ \A k \in Nat : [m EXCEPT !.pc = l, !.now = "none", !.todo = t, !.rows = r,
                                      !.failures = k] \in VerifyRow
  BY DEF VerifyRow

LEMMA InitType == Init => TypeOK
  BY UploadSessionAssumption
     DEF Init, TypeOK, MarkRow, StaffRow, VerifyRow, VerifyPC, FlagRow, NoRow, NoSession,
         NoTally, NoVerify, FileRow, SessionRow, Tally, FileStatus, SessionStatus, MarkPC,
         Locking

LEMMA TypeStep == TypeOK /\ [Next]_vars => TypeOK'
<1> USE UploadSessionAssumption
<1> SUFFICES ASSUME TypeOK, [Next]_vars PROVE TypeOK' OBVIOUS
<1>0. /\ \A f \in Files : /\ mark[f] \in MarkRow
                         /\ mark[f].row \in FileRow /\ mark[f].ses \in SessionRow
      /\ \A s \in Staff : staff[s] \in StaffRow
      /\ \A v \in Verifies : /\ ver[v] \in VerifyRow
                            /\ ver[v].todo \in SUBSET Files
                            /\ ver[v].rows \in [Files -> FileRow]
                            /\ ver[v].failures \in Nat /\ ver[v].tries \in Nat
  BY DEF TypeOK, MarkRow, VerifyRow
<1>1. ASSUME NEW F \in SUBSET Files, Presign(F) PROVE TypeOK'
  <2>1. files' \in [Files -> FileRow] BY <1>1 DEF TypeOK, Presign, FileRow, FileStatus
  <2>2. session' \in SessionRow BY <1>1 DEF TypeOK, Presign, SessionRow, SessionStatus
  <2> QED BY <1>1, <2>1, <2>2 DEF TypeOK, Presign
<1>2. ASSUME NEW f \in Files, Upload(f) PROVE TypeOK'
  <2>1. [mark[f] EXCEPT !.pc = "due"] \in MarkRow BY <1>0, MarkUpdate DEF MarkPC
  <2> QED BY <1>2, <2>1 DEF TypeOK, Upload
<1>3. ASSUME NEW f \in Files, MarkRead(f) PROVE TypeOK'
  <2>1. [mark[f] EXCEPT !.pc = "read", !.row = files[f]] \in MarkRow
    BY <1>0, MarkUpdate DEF TypeOK, MarkPC
  <2> QED BY <1>3, <2>1 DEF TypeOK, MarkRead
<1>4. ASSUME NEW f \in Files, MarkSave(f) PROVE TypeOK'
  <2> DEFINE row == [mark[f].row EXCEPT !.status = "uploaded"]
  <2>1. row \in FileRow
    BY <1>0 DEF FileRow, FileStatus
  <2>2. "saved" \in MarkPC BY DEF MarkPC, Locking
  <2> HIDE DEF row
  <2>3. [mark[f] EXCEPT !.pc = "saved", !.row = row] \in MarkRow
    BY <1>0, <2>1, <2>2, MarkUpdate
  <2>4. mark' = [mark EXCEPT ![f] = [mark[f] EXCEPT !.pc = "saved", !.row = row]]
    BY <1>4 DEF MarkSave, row
  <2> QED BY <1>4, <2>3, <2>4 DEF TypeOK, MarkSave
<1>5. ASSUME NEW f \in Files, MarkSession(f) PROVE TypeOK'
  <2>1. \A l \in {"seen", "starting"} : [mark[f] EXCEPT !.pc = l, !.ses = session] \in MarkRow
    BY <1>0, MarkUpdate DEF TypeOK, MarkPC, Locking
  <2> QED BY <1>5, <2>1 DEF TypeOK, MarkSession
<1>6. ASSUME NEW f \in Files, MarkUploading(f) PROVE TypeOK'
  <2> DEFINE ses == [mark[f].ses EXCEPT !.status = "uploading"]
  <2>1. ses \in SessionRow
    BY <1>0 DEF SessionRow, SessionStatus
  <2>2. "seen" \in MarkPC BY DEF MarkPC, Locking
  <2> HIDE DEF ses
  <2>3. [mark[f] EXCEPT !.pc = "seen", !.ses = ses] \in MarkRow
    BY <1>0, <2>1, <2>2, MarkUpdate
  <2>4. mark' = [mark EXCEPT ![f] = [mark[f] EXCEPT !.pc = "seen", !.ses = ses]]
    BY <1>6 DEF MarkUploading, ses
  <2> QED BY <1>6, <2>3, <2>4 DEF TypeOK, MarkUploading
<1>7. ASSUME NEW f \in Files, MarkCount(f) PROVE TypeOK'
  <2> DEFINE tally == Count([files EXCEPT ![f] = mark[f].row])
  <2>1. tally \in Tally BY CountType
  <2>2. "counted" \in MarkPC BY DEF MarkPC, Locking
  <2>3. [mark[f] EXCEPT !.pc = "counted", !.tally = tally] \in MarkRow
    BY <1>0, <2>1, <2>2, MarkUpdate
  <2> QED BY <1>7, <2>3 DEF TypeOK, MarkCount
<1>8. ASSUME NEW f \in Files, MarkCommit(f) PROVE TypeOK'
  <2>1. files' \in [Files -> FileRow] BY <1>8 DEF TypeOK, MarkCommit, MarkRow
  <2>2. session' \in SessionRow
    BY <1>8 DEF TypeOK, MarkCommit, MarkRow, SessionRow, SessionStatus, Tally
  <2>3. mark' \in [Files -> MarkRow]
    BY <1>8 DEF TypeOK, MarkCommit, MarkRow, MarkPC, NoRow, NoSession, NoTally, FileRow,
                SessionRow, Tally, FileStatus, SessionStatus
  <2> QED BY <1>8, <2>1, <2>2, <2>3 DEF TypeOK, MarkCommit
<1>9. ASSUME NEW g \in Flaggers, Flag(g) PROVE TypeOK'
  <2>1. CASE Spot(g)
    <3>1. [flag[g] EXCEPT !.pc = "spotted"] \in FlagRow BY DEF TypeOK, FlagRow
    <3> QED BY <2>1, <3>1 DEF TypeOK, Spot
  <2>2. CASE Weigh(g)
    <3>1. Count(files) \in Tally BY CountType
    <3> QED BY <2>2, <3>1 DEF TypeOK, Weigh, NoTally, Tally, FlagRow
  <2>3. CASE Post(g)
    <3>1. session' \in SessionRow
      BY <2>3 DEF TypeOK, Post, Tally, FlagRow, SessionRow, SessionStatus
    <3>2. flag' \in [Flaggers -> FlagRow] BY <2>3 DEF TypeOK, Post, NoTally, Tally, FlagRow
    <3> QED BY <2>3, <3>1, <3>2 DEF TypeOK, Post
  <2> QED BY <1>9, <2>1, <2>2, <2>3 DEF TypeOK, Flag
<1>10. ASSUME NEW s \in Staff,
              OpenPage(s) \/ Click(s) \/ Command(s) \/ Sync(s)
       PROVE TypeOK'
  <2>1. \A l \in {"page", "idle"} : [staff[s] EXCEPT !.pc = l] \in StaffRow
    BY <1>0, StaffUpdate
  <2>2. [pc |-> "asked", ses |-> session] \in StaffRow BY DEF TypeOK, StaffRow
  <2>3. staff' \in [Staff -> StaffRow]
    BY <1>10, <2>1, <2>2 DEF TypeOK, OpenPage, Click, Command, Sync, Asking
  <2> QED BY <1>10, <2>3 DEF TypeOK, OpenPage, Click, Command, Sync
<1>11. ASSUME NEW s \in Staff, NEW v \in Verifies, Enqueue(s, v) PROVE TypeOK'
  <2>1. session' \in SessionRow
    BY <1>11 DEF TypeOK, Enqueue, StaffRow, SessionRow, SessionStatus
  <2>2. [pc |-> "idle", ses |-> NoSession] \in StaffRow
    BY DEF StaffRow, NoSession, SessionRow, SessionStatus
  <2>3. [ver[v] EXCEPT !.pc = "queued"] \in VerifyRow BY <1>0, VerifyUpdate DEF VerifyPC
  <2> QED BY <1>11, <2>1, <2>2, <2>3 DEF TypeOK, Enqueue
<1>12. ASSUME NEW v \in Verifies, Start(v) PROVE TypeOK'
  <2> DEFINE rows == [f \in Files |-> IF f \in Pending THEN files[f] ELSE NoRow]
  <2>1. Pending \subseteq Files BY DEF Pending, Rows
  <2>2. rows \in [Files -> FileRow] BY DEF TypeOK, NoRow, FileRow, FileStatus
  <2> HIDE DEF rows
  <2>3. [ver[v] EXCEPT !.pc = "checking", !.todo = Pending, !.rows = rows] \in VerifyRow
    BY <1>0, <2>1, <2>2, VerifyUpdate DEF VerifyPC
  <2> QED BY <1>12, <2>3 DEF TypeOK, Start, rows
<1>13. /\ [NoVerify EXCEPT !.pc = "done"] \in VerifyRow
       /\ \A k \in Nat : [NoVerify EXCEPT !.pc = "queued", !.tries = k] \in VerifyRow
  BY DEF VerifyRow, VerifyPC, NoVerify, NoRow, NoTally, FileRow, Tally, FileStatus
<1>14. ASSUME NEW v \in Verifies, AlreadyCompleted(v) PROVE TypeOK'
  <2>1. session' \in SessionRow BY <1>14 DEF TypeOK, AlreadyCompleted, SessionRow, SessionStatus
  <2> QED BY <1>13, <1>14, <2>1 DEF TypeOK, AlreadyCompleted, Ended
<1>15. ASSUME NEW v \in Verifies, NEW f \in Files, Record(v, f) PROVE TypeOK'
  <2>1. [ver[v] EXCEPT !.pc = "linking", !.now = f] \in VerifyRow
    BY <1>0, VerifyUpdate DEF VerifyPC
  <2> QED BY <1>15, <2>1 DEF TypeOK, Record
<1>16. \A v \in Verifies, f \in Files :
          /\ [ver[v].rows EXCEPT ![f] = NoRow] \in [Files -> FileRow]
          /\ \A b \in BOOLEAN : [status |-> "failed", linked |-> b] \in FileRow
          /\ ver[v].todo \ {f} \in SUBSET Files
          /\ ver[v].failures + 1 \in Nat
  BY <1>0 DEF NoRow, FileRow, FileStatus
<1>17. ASSUME NEW v \in Verifies, NEW f \in Files, Link(v, f) PROVE TypeOK'
  <2> DEFINE rows == [ver[v].rows EXCEPT ![f] = NoRow]
             todo == ver[v].todo \ {f}
  <2>1. rows \in [Files -> FileRow] /\ todo \in SUBSET Files BY <1>16
  <2> HIDE DEF rows, todo
  <2>2. [ver[v] EXCEPT !.pc = "checking", !.now = "none", !.todo = todo, !.rows = rows]
          \in VerifyRow
    BY <1>0, <2>1, VerifyUpdate DEF VerifyPC
  <2>3. [status |-> "completed", linked |-> TRUE] \in FileRow BY DEF FileRow, FileStatus
  <2>4. ver' = [ver EXCEPT ![v] = [ver[v] EXCEPT !.pc = "checking", !.now = "none",
                                                 !.todo = todo, !.rows = rows]]
    BY <1>17 DEF Link, rows, todo
  <2> QED BY <1>17, <2>2, <2>3, <2>4 DEF TypeOK, Link
<1>18. ASSUME NEW v \in Verifies, NEW f \in Files, Miss(v, f) PROVE TypeOK'
  <2> DEFINE rows == [ver[v].rows EXCEPT ![f] = NoRow]
             todo == ver[v].todo \ {f}
             failures == ver[v].failures + 1
  <2>1. rows \in [Files -> FileRow] /\ todo \in SUBSET Files /\ failures \in Nat BY <1>16
  <2> HIDE DEF rows, todo, failures
  <2>2. [ver[v] EXCEPT !.pc = "checking", !.now = "none", !.todo = todo, !.rows = rows,
                       !.failures = failures] \in VerifyRow
    BY <1>0, <2>1, VerifyUpdate DEF VerifyPC
  <2>3. faults' \in 0..MaxFaults
    <3>1. faults \in 0..MaxFaults /\ MaxFaults \in Nat BY DEF TypeOK
    <3>2. faults' = faults \/ (faults < MaxFaults /\ faults' = faults + 1) BY <1>18 DEF Miss
    <3> QED BY <3>1, <3>2
  <2>4. files' \in [Files -> FileRow]
    <3>1. (ver[v].pc = "linking" \/ ver[v].rows[f].linked) \in BOOLEAN
      BY <1>0 DEF FileRow
    <3> QED BY <1>16, <1>18, <3>1 DEF TypeOK, Miss
  <2>5. ver' \in [Verifies -> VerifyRow]
    <3>1. ver' = [ver EXCEPT ![v] = [ver[v] EXCEPT !.pc = "checking", !.now = "none",
                       !.todo = todo, !.rows = rows, !.failures = failures]]
      BY <1>18 DEF Miss, rows, todo, failures
    <3> QED BY <2>2, <3>1 DEF TypeOK
  <2> QED BY <1>18, <2>3, <2>4, <2>5 DEF TypeOK, Miss
<1>19. ASSUME NEW v \in Verifies, Recount(v) PROVE TypeOK'
  <2>1. Count(files) \in Tally BY CountType
  <2>2. [ver[v] EXCEPT !.pc = "counted", !.tally = Count(files)] \in VerifyRow
    BY <1>0, <2>1, VerifyUpdate DEF VerifyPC
  <2> QED BY <1>19, <2>2 DEF TypeOK, Recount
<1>20. ASSUME NEW v \in Verifies, Finish(v) PROVE TypeOK'
  <2>1. session' \in SessionRow
    BY <1>20 DEF TypeOK, Finish, VerifyRow, SessionRow, SessionStatus, Tally
  <2> QED BY <1>13, <1>20, <2>1 DEF TypeOK, Finish, Ended
<1>21. ASSUME NEW v \in Verifies, Raise(v) \/ Crash(v) PROVE TypeOK'
  <2>1. ver' \in [Verifies -> VerifyRow]
    <3>1. ver[v].tries + 1 \in Nat BY <1>0
    <3> QED BY <1>13, <1>21, <3>1 DEF TypeOK, Raise, Crash, Ended
  <2> QED BY <1>21, <2>1 DEF TypeOK, Raise, Crash
<1>22. CASE UNCHANGED vars BY <1>22 DEF TypeOK, vars
<1> QED
  BY <1>1, <1>2, <1>3, <1>4, <1>5, <1>6, <1>7, <1>8, <1>9, <1>10, <1>11, <1>12, <1>14,
     <1>15, <1>17, <1>18, <1>19, <1>20, <1>21, <1>22 DEF Next, Mark, Work

\* Whatever happens, every variable keeps its type.
THEOREM TypeCorrect == Spec => []TypeOK
BY InitType, TypeStep, PTL DEF Spec

-----------------------------------------------------------------------------
(* A completed file is a recorded one                                      *)

\* A request that holds the row of a file is about to write it as uploaded.
MarksUploaded == \A f \in Files : mark[f].pc \in Locking => mark[f].row.status = "uploaded"

\* A verification that is about to complete a file has created its record.
LinksRecorded ==
    \A v \in Verifies : ver[v].pc = "linking" =>
        ver[v].now \in stored /\ objects[ver[v].now] > 0

RecordedInv == TypeOK /\ MarksUploaded /\ LinksRecorded /\ CompletedIsRecorded

LEMMA InitMarks == Init => MarksUploaded
BY DEF Init, MarksUploaded, Locking

LEMMA MarksStep == TypeOK /\ MarksUploaded /\ [Next]_vars => MarksUploaded'
<1> SUFFICES ASSUME TypeOK, MarksUploaded, [Next]_vars, NEW g \in Files,
                    mark'[g].pc \in Locking
             PROVE  mark'[g].row.status = "uploaded"
  BY DEF MarksUploaded
<1>0. mark \in [Files -> MarkRow] /\ mark[g] \in MarkRow BY DEF TypeOK
<1>1. CASE mark' = mark BY <1>1 DEF MarksUploaded
<1>2. ASSUME NEW f \in Files, Upload(f) \/ Mark(f) PROVE mark'[g].row.status = "uploaded"
  <2>1. CASE f # g
    <3>1. mark'[g] = mark[g]
      BY <1>0, <1>2, <2>1 DEF Upload, Mark, MarkRead, MarkSave, MarkSession, MarkUploading,
                         MarkCount, MarkCommit
    <3> QED BY <3>1 DEF MarksUploaded
  <2>2. CASE f = g
    <3>1. CASE Upload(f) \/ MarkRead(f)
      <4>1. mark'[g].pc \in {"due", "read"}
        <5>1. CASE Upload(f) BY <1>0, <2>2, <5>1 DEF Upload, MarkRow
        <5>2. CASE MarkRead(f) BY <1>0, <2>2, <5>2 DEF MarkRead, MarkRow
        <5> QED BY <3>1, <5>1, <5>2
      <4> QED BY <4>1 DEF Locking
    <3>2. CASE MarkSave(f)
      BY <1>0, <2>2, <3>2 DEF MarkSave, MarkRow, FileRow
    <3>3. CASE MarkSession(f) \/ MarkUploading(f) \/ MarkCount(f)
      <4>1. mark[g].pc \in Locking
        BY <2>2, <3>3 DEF MarkSession, MarkUploading, MarkCount, Locking
      <4>2. mark'[g].row = mark[g].row
        <5>1. CASE MarkSession(f) BY <1>0, <2>2, <5>1 DEF MarkSession, MarkRow
        <5>2. CASE MarkUploading(f) BY <1>0, <2>2, <5>2 DEF MarkUploading, MarkRow
        <5>3. CASE MarkCount(f) BY <1>0, <2>2, <5>3 DEF MarkCount, MarkRow
        <5> QED BY <3>3, <5>1, <5>2, <5>3
      <4> QED BY <4>1, <4>2 DEF MarksUploaded
    <3>4. CASE MarkCommit(f)
      <4>1. mark'[g].pc = "done" BY <1>0, <2>2, <3>4 DEF MarkCommit
      <4> QED BY <4>1 DEF Locking
    <3> QED BY <1>2, <3>1, <3>2, <3>3, <3>4 DEF Mark
  <2> QED BY <2>1, <2>2
<1> QED
  BY <1>1, <1>2 DEF Next, vars, Presign, Flag, Spot, Weigh, Post, OpenPage, Click, Command,
     Sync, Enqueue, Work, Start, AlreadyCompleted, Record, Link, Miss, Recount,
     Finish, Raise, Crash

\* Neither S3 objects nor their records go away.
LEMMA NothingIsRemoved ==
  ASSUME TypeOK, [Next]_vars
  PROVE  /\ stored \subseteq stored'
         /\ \A f \in Files : objects'[f] \in Nat /\ objects'[f] >= objects[f]
<1>0. objects \in [Files -> Nat] BY DEF TypeOK
<1>1. CASE \E f \in Files : Upload(f)
  BY <1>0, <1>1 DEF Upload
<1>2. ASSUME NEW v \in Verifies, NEW f \in Files, Record(v, f)
      PROVE  /\ stored \subseteq stored'
             /\ \A g \in Files : objects'[g] \in Nat /\ objects'[g] >= objects[g]
  BY <1>0, <1>2 DEF Record
<1>3. CASE stored' = stored /\ objects' = objects BY <1>0, <1>3
<1>4. ASSUME ~ \E f \in Files : Upload(f), ~ \E v \in Verifies, f \in Files : Record(v, f)
      PROVE  stored' = stored /\ objects' = objects
  <2>1. CASE UNCHANGED vars \/ \E F \in SUBSET Files : Presign(F)
    BY <2>1 DEF vars, Presign
  <2>2. CASE \E f \in Files : Mark(f)
    BY <2>2 DEF Mark, MarkRead, MarkSave, MarkSession, MarkUploading, MarkCount, MarkCommit
  <2>3. CASE \E g \in Flaggers : Flag(g) BY <2>3 DEF Flag, Spot, Weigh, Post
  <2>4. CASE \E s \in Staff : \/ OpenPage(s) \/ Click(s) \/ Command(s) \/ Sync(s)
                             \/ \E v \in Verifies : Enqueue(s, v)
    BY <2>4 DEF OpenPage, Click, Command, Sync, Enqueue
  <2>5. CASE \E v \in Verifies : Work(v) \/ Raise(v) \/ Crash(v)
    BY <1>4, <2>5 DEF Work, Start, AlreadyCompleted, Link, Miss, Recount, Finish, Raise, Crash
  <2> QED BY <1>4, <2>1, <2>2, <2>3, <2>4, <2>5 DEF Next
<1> QED BY <1>1, <1>2, <1>3, <1>4

\* A completed file has its record and its object was in the bucket: whole rows
\* that a request or another verification read before are never written back
\* as completed ones.
THEOREM RecordedCorrect == Spec => []CompletedIsRecorded
<1>1. Init => LinksRecorded /\ CompletedIsRecorded
  BY DEF Init, LinksRecorded, CompletedIsRecorded, NoVerify, NoRow, Locking
<1>3. TypeOK /\ LinksRecorded /\ [Next]_vars => LinksRecorded'
  <2> SUFFICES ASSUME TypeOK, LinksRecorded, [Next]_vars, NEW w \in Verifies,
                      ver'[w].pc = "linking"
               PROVE  ver'[w].now \in stored' /\ objects'[ver'[w].now] > 0
    BY DEF LinksRecorded
  <2>0. /\ ver \in [Verifies -> VerifyRow] /\ ver[w] \in VerifyRow
        /\ objects \in [Files -> Nat] /\ stored \subseteq Files
    BY DEF TypeOK
  <2>1. /\ stored \subseteq stored'
        /\ \A f \in Files : objects'[f] \in Nat /\ objects'[f] >= objects[f]
    BY NothingIsRemoved
  <2>2. CASE ver'[w] = ver[w]
    BY <2>0, <2>1, <2>2 DEF LinksRecorded
  <2>3. ASSUME NEW f \in Files, Record(w, f)
        PROVE  ver'[w].now \in stored' /\ objects'[ver'[w].now] > 0
    <3>1. ver'[w].now = f BY <2>0, <2>3 DEF Record, VerifyRow
    <3> QED BY <2>0, <2>3, <3>1 DEF Record
  <2>4. CASE \/ \E s \in Staff : Enqueue(s, w)
             \/ Start(w) \/ AlreadyCompleted(w) \/ Recount(w) \/ Finish(w) \/ Raise(w) \/ Crash(w)
             \/ \E f \in Files : Link(w, f) \/ Miss(w, f)
    <3>1. ver'[w].pc # "linking"
      <4>1. CASE \E s \in Staff : Enqueue(s, w) BY <2>0, <4>1 DEF Enqueue, VerifyRow
      <4>2. CASE Start(w) BY <2>0, <4>2 DEF Start, VerifyRow
      <4>3. CASE Recount(w) BY <2>0, <4>3 DEF Recount, VerifyRow
      <4>4. CASE AlreadyCompleted(w) \/ Finish(w) \/ Raise(w) \/ Crash(w)
        BY <2>0, <4>4 DEF AlreadyCompleted, Finish, Raise, Crash, Ended, NoVerify
      <4>5. CASE \E f \in Files : Link(w, f) BY <2>0, <4>5 DEF Link, VerifyRow
      <4>6. CASE \E f \in Files : Miss(w, f) BY <2>0, <4>6 DEF Miss, VerifyRow
      <4> QED BY <2>4, <4>1, <4>2, <4>3, <4>4, <4>5, <4>6
    <3> QED BY <3>1
  <2>5. ASSUME NEW v \in Verifies, v # w,
               Work(v) \/ Raise(v) \/ Crash(v) \/ \E s \in Staff : Enqueue(s, v)
        PROVE  ver'[w] = ver[w]
    BY <2>0, <2>5 DEF Enqueue, Work, Start, AlreadyCompleted, Record, Link, Miss, Recount,
                 Finish, Raise, Crash, Ended
  <2>6. CASE \/ \E F \in SUBSET Files : Presign(F)
             \/ \E f \in Files : Upload(f) \/ Mark(f)
             \/ \E g \in Flaggers : Flag(g)
             \/ \E s \in Staff : OpenPage(s) \/ Click(s) \/ Command(s) \/ Sync(s)
             \/ UNCHANGED vars
    <3>1. ver' = ver
      BY <2>6 DEF vars, Presign, Upload, Mark, MarkRead, MarkSave, MarkSession, MarkUploading,
                 MarkCount, MarkCommit, Flag, Spot, Weigh, Post, OpenPage, Click, Command,
                 Sync
    <3> QED BY <2>2, <3>1
  <2>7. CASE \E v \in Verifies :
               Work(v) \/ Raise(v) \/ Crash(v) \/ \E s \in Staff : Enqueue(s, v)
    BY <2>2, <2>3, <2>4, <2>5, <2>7 DEF Work
  <2> QED BY <2>6, <2>7 DEF Next
<1>4. TypeOK /\ MarksUploaded /\ LinksRecorded /\ CompletedIsRecorded /\ [Next]_vars
      => CompletedIsRecorded'
  <2> SUFFICES ASSUME TypeOK, MarksUploaded, LinksRecorded, CompletedIsRecorded, [Next]_vars,
                      NEW g \in Files, files'[g].status = "completed"
               PROVE  files'[g].linked /\ objects'[g] > 0 /\ g \in stored'
    BY DEF CompletedIsRecorded
  <2>0. /\ files \in [Files -> FileRow] /\ objects \in [Files -> Nat] /\ stored \subseteq Files
        /\ \A f \in Files : mark[f].row \in FileRow
        /\ \A v \in Verifies : ver[v].rows \in [Files -> FileRow]
    BY DEF TypeOK, MarkRow, VerifyRow
  <2>1. /\ stored \subseteq stored'
        /\ \A f \in Files : objects'[f] \in Nat /\ objects'[f] >= objects[f]
    BY NothingIsRemoved
  <2>2. CASE files'[g] = files[g]
    BY <2>0, <2>1, <2>2 DEF CompletedIsRecorded
  <2>3. ASSUME NEW v \in Verifies, Link(v, g)
        PROVE  files'[g].linked /\ objects'[g] > 0 /\ g \in stored'
    BY <2>0, <2>1, <2>3 DEF Link, LinksRecorded
  <2>4. ASSUME \/ \E F \in SUBSET Files : Presign(F) /\ g \in F
               \/ MarkCommit(g)
               \/ \E v \in Verifies : Miss(v, g)
        PROVE  FALSE
    <3>1. CASE \E F \in SUBSET Files : Presign(F) /\ g \in F BY <3>1 DEF Presign
    <3>2. CASE MarkCommit(g) BY <2>0, <3>2 DEF MarkCommit, MarksUploaded, Locking
    <3>3. CASE \E v \in Verifies : Miss(v, g) BY <2>0, <3>3 DEF Miss, FileRow
    <3> QED BY <2>4, <3>1, <3>2, <3>3
  <2>5. ASSUME NEW f \in Files, f # g,
               MarkCommit(f) \/ \E v \in Verifies : Link(v, f) \/ Miss(v, f)
        PROVE  files'[g] = files[g]
    BY <2>0, <2>5 DEF MarkCommit, Link, Miss
  <2>6. ASSUME NEW F \in SUBSET Files, g \notin F, Presign(F) PROVE files'[g] = files[g]
    BY <2>0, <2>6 DEF Presign
  <2>7. ASSUME \A f \in Files : ~ MarkCommit(f),
               \A f \in Files, v \in Verifies : ~ Link(v, f) /\ ~ Miss(v, f),
               \A F \in SUBSET Files : ~ Presign(F)
        PROVE  files'[g] = files[g]
    <3>1. files' = files
      BY <2>7 DEF Next, vars, Upload, Mark, MarkRead, MarkSave, MarkSession, MarkUploading,
           MarkCount, Flag, Spot, Weigh, Post, OpenPage, Click, Command, Sync, Enqueue,
           Work, Start, AlreadyCompleted, Record, Recount, Finish, Raise, Crash
    <3> QED BY <3>1
  <2> QED BY <2>2, <2>3, <2>4, <2>5, <2>6, <2>7
<1> QED BY <1>1, <1>3, <1>4, InitMarks, MarksStep, TypeCorrect, PTL DEF Spec

-----------------------------------------------------------------------------
(* A session that awaits its verification waits for no upload              *)

Finished(f) == files[f].status \in {"absent"} \cup Terminal

\* A request that counted no unfinished file is still right when it commits.
TalliesHold ==
    \A f \in Files : mark[f].pc = "counted" /\ mark[f].tally.finished =>
        \A g \in Files \ {f} : Finished(g)

\* A request that holds the session's row is about to write it as uploading.
LocksUploading ==
    \A f \in Files : slock = f =>
        mark[f].pc \in {"seen", "counted"} /\ mark[f].ses.status = "uploading"

\* So is a flagging run that found no unfinished file.
WeighedHold == \A r \in Flaggers : flag[r].pc = "weighed" => \A f \in Files : Finished(f)

\* Once a session has been seen uploading, the browser asks for no more URLs.
PresignOver ==
    session.status = "uploading" \/ (\E r \in Flaggers : flag[r].pc # "idle")
    => \E f \in Files : mark[f].pc # "none"

AwaitingHolds == session.status = "awaiting_verification" => \A f \in Files : Finished(f)

AwaitingInv ==
    TypeOK /\ MarksUploaded /\ TalliesHold /\ LocksUploading /\ WeighedHold /\ PresignOver
      /\ AwaitingHolds

LEMMA NoPresign ==
  ASSUME NEW f \in Files, mark[f].pc # "none" PROVE ~ \E F \in SUBSET Files : Presign(F)
BY DEF Presign

\* How far each step takes a mark-uploaded call; the calls of other files stay.
LEMMA MarkMoves ==
  ASSUME TypeOK, NEW f \in Files
  PROVE  /\ Upload(f) => mark'[f].pc = "due"
         /\ MarkRead(f) => mark'[f].pc = "read"
         /\ MarkSave(f) => mark'[f].pc = "saved"
         /\ MarkSession(f) => mark'[f].pc \in {"seen", "starting"}
         /\ MarkUploading(f) => mark'[f].pc = "seen"
         /\ MarkCount(f) => mark'[f].pc = "counted"
         /\ MarkCommit(f) => mark'[f].pc = "done"
         /\ Upload(f) \/ Mark(f) => \A g \in Files \ {f} : mark'[g] = mark[g]
<1>0. mark \in [Files -> MarkRow] /\ mark[f] \in MarkRow BY DEF TypeOK
<1>1. Upload(f) => mark'[f].pc = "due" BY <1>0 DEF Upload, MarkRow
<1>2. MarkRead(f) => mark'[f].pc = "read" BY <1>0 DEF MarkRead, MarkRow
<1>3. MarkSave(f) => mark'[f].pc = "saved" BY <1>0 DEF MarkSave, MarkRow
<1>4. MarkSession(f) => mark'[f].pc \in {"seen", "starting"} BY <1>0 DEF MarkSession, MarkRow
<1>5. MarkUploading(f) => mark'[f].pc = "seen" BY <1>0 DEF MarkUploading, MarkRow
<1>6. MarkCount(f) => mark'[f].pc = "counted" BY <1>0 DEF MarkCount, MarkRow
<1>7. MarkCommit(f) => mark'[f].pc = "done" BY <1>0 DEF MarkCommit
<1>8. Upload(f) \/ Mark(f) => \A g \in Files \ {f} : mark'[g] = mark[g]
  BY <1>0 DEF Upload, Mark, MarkRead, MarkSave, MarkSession, MarkUploading, MarkCount, MarkCommit
<1> QED BY <1>1, <1>2, <1>3, <1>4, <1>5, <1>6, <1>7, <1>8

\* Only the browser's steps and mark_file_uploaded touch these calls and the lock.
LEMMA MarksElsewhere ==
  ASSUME [Next]_vars, ~ \E h \in Files : Upload(h) \/ Mark(h)
  PROVE  mark' = mark /\ slock' = slock
BY DEF Next, vars, Presign, Flag, Spot, Weigh, Post, OpenPage, Click, Command, Sync,
   Enqueue, Work, Start, AlreadyCompleted, Record, Link, Miss, Recount, Finish, Raise, Crash

\* A mark-uploaded call that was sent is never unsent.
LEMMA MarksStay ==
  ASSUME TypeOK, [Next]_vars, NEW f \in Files, mark[f].pc # "none" PROVE mark'[f].pc # "none"
<1>1. CASE Upload(f) \/ Mark(f) BY <1>1, MarkMoves DEF Mark
<1>2. ASSUME NEW h \in Files, h # f, Upload(h) \/ Mark(h) PROVE mark'[f].pc # "none"
  BY <1>2, MarkMoves
<1> QED BY <1>1, <1>2, MarksElsewhere

\* Only a batch of new files has the session wait for the browser again.
LEMMA StaysFinished ==
  ASSUME TypeOK, MarksUploaded, [Next]_vars, ~ \E F \in SUBSET Files : Presign(F),
         NEW f \in Files, Finished(f)
  PROVE  Finished(f)'
<1>0. /\ files \in [Files -> FileRow]
      /\ \A g \in Files : mark[g].row \in FileRow
      /\ \A v \in Verifies : ver[v].rows \in [Files -> FileRow]
  BY DEF TypeOK, MarkRow, VerifyRow
<1>1. CASE files' = files BY <1>1 DEF Finished
<1>2. ASSUME NEW g \in Files, MarkCommit(g) PROVE Finished(f)'
  BY <1>0, <1>2 DEF MarkCommit, MarksUploaded, Finished, Locking, Terminal
<1>3. ASSUME NEW v \in Verifies, NEW g \in Files, Link(v, g) PROVE Finished(f)'
  BY <1>0, <1>3 DEF Link, Finished, Terminal
<1>4. ASSUME NEW v \in Verifies, NEW g \in Files, Miss(v, g) PROVE Finished(f)'
  BY <1>0, <1>4 DEF Miss, Finished, Terminal, FileRow
<1>5. ASSUME ~ \E g \in Files : MarkCommit(g),
             ~ \E v \in Verifies, g \in Files : Link(v, g) \/ Miss(v, g)
      PROVE  files' = files
  BY <1>5 DEF Next, vars, Mark, Upload, MarkRead, MarkSave, MarkSession, MarkUploading,
     MarkCount, Flag, Spot, Weigh, Post, OpenPage, Click, Command, Sync, Enqueue, Work,
     Start, AlreadyCompleted, Record, Recount, Finish, Raise, Crash
<1> QED BY <1>1, <1>2, <1>3, <1>4, <1>5

LEMMA CountFinished ==
  ASSUME NEW db \in [Files -> FileRow], Count(db).finished, NEW f \in Files
  PROVE  db[f].status \in {"absent"} \cup Terminal
BY DEF Count, Rows, FileRow, FileStatus, Terminal

LEMMA TalliesStep == AwaitingInv /\ [Next]_vars => TalliesHold'
<1> SUFFICES ASSUME AwaitingInv, [Next]_vars, NEW f \in Files, mark'[f].pc = "counted",
                    mark'[f].tally.finished, NEW g \in Files \ {f}
             PROVE  Finished(g)'
  BY DEF TalliesHold, Finished
<1>0. /\ mark \in [Files -> MarkRow] /\ mark[f] \in MarkRow /\ mark[f].row \in FileRow
      /\ files \in [Files -> FileRow]
  BY DEF AwaitingInv, TypeOK, MarkRow
<1>1. CASE mark'[f] = mark[f]
  <2>1. mark[f].pc = "counted" /\ Finished(g) BY <1>1 DEF AwaitingInv, TalliesHold
  <2> QED BY <2>1, NoPresign, StaysFinished DEF AwaitingInv
<1>2. CASE MarkCount(f)
  <2> DEFINE db == [files EXCEPT ![f] = mark[f].row]
  <2>1. db \in [Files -> FileRow] BY <1>0
  <2>2. mark'[f].tally = Count(db) BY <1>0, <1>2 DEF MarkCount, MarkRow
  <2>3. db[g] = files'[g] BY <1>0, <1>2 DEF MarkCount
  <2> QED BY <2>1, <2>2, <2>3, CountFinished DEF Finished
<1>3. CASE Upload(f) \/ (Mark(f) /\ ~ MarkCount(f))
  <2>1. mark'[f].pc # "counted" BY <1>3, MarkMoves DEF AwaitingInv, Mark
  <2> QED BY <2>1
<1>4. ASSUME NEW h \in Files, h # f, Upload(h) \/ Mark(h) PROVE mark'[f] = mark[f]
  BY <1>4, MarkMoves DEF AwaitingInv
<1> QED BY <1>1, <1>2, <1>3, <1>4, MarksElsewhere

LEMMA LocksStep == AwaitingInv /\ [Next]_vars => LocksUploading'
<1> SUFFICES ASSUME AwaitingInv, [Next]_vars, NEW f \in Files, slock' = f
             PROVE  mark'[f].pc \in {"seen", "counted"} /\ mark'[f].ses.status = "uploading"
  BY DEF LocksUploading
<1>0. mark \in [Files -> MarkRow] /\ mark[f] \in MarkRow /\ mark[f].ses \in SessionRow
  BY DEF AwaitingInv, TypeOK, MarkRow
<1>a. f # "none" BY UploadSessionAssumption
<1>1. CASE MarkUploading(f)
  <2> DEFINE ses == [mark[f].ses EXCEPT !.status = "uploading"]
  <2>1. ses.status = "uploading" BY <1>0 DEF SessionRow
  <2> HIDE DEF ses
  <2>2. mark' = [mark EXCEPT ![f] = [mark[f] EXCEPT !.pc = "seen", !.ses = ses]]
    BY <1>1 DEF MarkUploading, ses
  <2> QED BY <1>0, <2>1, <2>2 DEF MarkRow
<1>2. CASE slock = f /\ mark'[f] = mark[f] BY <1>2 DEF AwaitingInv, LocksUploading
<1>3. CASE slock = f /\ MarkCount(f)
  BY <1>0, <1>3 DEF MarkCount, MarkRow, AwaitingInv, LocksUploading
<1>4. CASE slock = f /\ (Upload(f) \/ MarkRead(f) \/ MarkSave(f) \/ MarkSession(f))
  BY <1>4 DEF Upload, MarkRead, MarkSave, MarkSession, AwaitingInv, LocksUploading
<1>5. ~ \E h \in Files : MarkCommit(h) BY <1>a DEF MarkCommit
<1>6. ASSUME NEW h \in Files, h # f, Upload(h) \/ Mark(h)
      PROVE  slock = f /\ mark'[f] = mark[f]
  <2>1. mark'[f] = mark[f] BY <1>6, MarkMoves DEF AwaitingInv
  <2>2. slock = f
    BY <1>5, <1>6 DEF Upload, Mark, MarkRead, MarkSave, MarkSession, MarkUploading, MarkCount
  <2> QED BY <2>1, <2>2
<1>7. ASSUME Upload(f) \/ Mark(f) PROVE slock = f \/ MarkUploading(f)
  BY <1>5, <1>7 DEF Upload, Mark, MarkRead, MarkSave, MarkSession, MarkCount
<1> QED BY <1>1, <1>2, <1>3, <1>4, <1>5, <1>6, <1>7, MarksElsewhere DEF Mark

LEMMA WeighedStep == AwaitingInv /\ [Next]_vars => WeighedHold'
<1> SUFFICES ASSUME AwaitingInv, [Next]_vars, NEW r \in Flaggers, flag'[r].pc = "weighed",
                    NEW f \in Files
             PROVE  Finished(f)'
  BY DEF WeighedHold, Finished
<1>0. /\ flag \in [Flaggers -> FlagRow] /\ flag[r] \in FlagRow /\ files \in [Files -> FileRow]
  BY DEF AwaitingInv, TypeOK
<1>1. CASE flag'[r] = flag[r]
  <2>1. Finished(f) BY <1>1 DEF AwaitingInv, WeighedHold
  <2>2. \E g \in Files : mark[g].pc # "none" BY <1>1 DEF AwaitingInv, PresignOver
  <2> QED BY <2>1, <2>2, NoPresign, StaysFinished DEF AwaitingInv
<1>2. CASE Weigh(r)
  <2>1. Count(files).finished BY <1>0, <1>2 DEF Weigh
  <2>2. files' = files BY <1>2 DEF Weigh
  <2> QED BY <1>0, <2>1, <2>2, CountFinished DEF Finished
<1>3. CASE Spot(r) \/ Post(r)
  <2>1. flag'[r].pc # "weighed"
    <3>1. CASE Spot(r) BY <1>0, <3>1 DEF Spot, FlagRow
    <3>2. CASE Post(r) BY <1>0, <3>2 DEF Post
    <3> QED BY <1>3, <3>1, <3>2
  <2> QED BY <2>1
<1>4. ASSUME NEW h \in Flaggers, h # r, Flag(h) PROVE flag'[r] = flag[r]
  BY <1>0, <1>4 DEF Flag, Spot, Weigh, Post
<1>5. ASSUME ~ \E h \in Flaggers : Flag(h) PROVE flag' = flag
  BY <1>5 DEF Next, vars, Presign, Upload, Mark, MarkRead, MarkSave, MarkSession, MarkUploading,
     MarkCount, MarkCommit, OpenPage, Click, Command, Sync, Enqueue, Work, Start,
     AlreadyCompleted, Record, Link, Miss, Recount, Finish, Raise, Crash
<1> QED BY <1>1, <1>2, <1>3, <1>4, <1>5 DEF Flag

\* Who writes the session's status, and what.
LEMMA SessionWrites ==
  ASSUME AwaitingInv, [Next]_vars
  PROVE  \/ session'.status = session.status
         \/ session'.status \notin {"uploading", "awaiting_verification"}
         \/ \E f \in Files : MarkCommit(f)
         \/ session'.status = "awaiting_verification" /\ \E r \in Flaggers : Post(r)
<1>0. session \in SessionRow /\ \A s \in Staff : staff[s].ses \in SessionRow
  BY DEF AwaitingInv, TypeOK, StaffRow
<1>1. CASE session' = session BY <1>1
<1>2. CASE \E F \in SUBSET Files : Presign(F) BY <1>0, <1>2 DEF Presign, SessionRow
<1>3. CASE \E r \in Flaggers : Post(r)
  <2>1. session'.status = "awaiting_verification" BY <1>3 DEF Post
  <2> QED BY <1>3, <2>1
<1>4. CASE \E s \in Staff, v \in Verifies : Enqueue(s, v)
  BY <1>0, <1>4 DEF Enqueue, SessionRow
<1>5. CASE \E v \in Verifies : AlreadyCompleted(v)
  BY <1>0, <1>5 DEF AlreadyCompleted, SessionRow
<1>6. CASE \E v \in Verifies : Finish(v) BY <1>6 DEF Finish
<1>7. ASSUME ~ \E f \in Files : MarkCommit(f), ~ \E F \in SUBSET Files : Presign(F),
             ~ \E r \in Flaggers : Post(r), ~ \E s \in Staff, v \in Verifies : Enqueue(s, v),
             ~ \E v \in Verifies : AlreadyCompleted(v) \/ Finish(v)
      PROVE  session' = session
  BY <1>7 DEF Next, vars, Upload, Mark, MarkRead, MarkSave, MarkSession, MarkUploading,
     MarkCount, Flag, Spot, Weigh, OpenPage, Click, Command, Sync, Work, Start, Record,
     Link, Miss, Recount, Raise, Crash
<1> QED BY <1>1, <1>2, <1>3, <1>4, <1>5, <1>6, <1>7

LEMMA PresignOverStep == AwaitingInv /\ [Next]_vars => PresignOver'
<1> SUFFICES ASSUME AwaitingInv, [Next]_vars,
                    session'.status = "uploading" \/ \E r \in Flaggers : flag'[r].pc # "idle"
             PROVE  \E f \in Files : mark'[f].pc # "none"
  BY DEF PresignOver
<1>0. flag \in [Flaggers -> FlagRow] BY DEF AwaitingInv, TypeOK
<1>1. CASE session.status = "uploading" \/ \E r \in Flaggers : flag[r].pc # "idle"
  BY <1>1, MarksStay DEF AwaitingInv, PresignOver
<1>2. CASE \E f \in Files : MarkCommit(f) BY <1>2, MarkMoves DEF AwaitingInv
<1>3. ASSUME NEW r \in Flaggers, flag'[r].pc # "idle"
      PROVE  session.status = "uploading" \/ flag[r].pc # "idle"
  <2>1. CASE \E h \in Flaggers : Flag(h)
    <3>1. CASE \E h \in Flaggers : Spot(h) BY <3>1 DEF Spot
    <3>2. CASE \E h \in Flaggers : Weigh(h) BY <1>0, <1>3, <3>2 DEF Weigh
    <3>3. CASE \E h \in Flaggers : Post(h) BY <1>0, <1>3, <3>3 DEF Post
    <3> QED BY <2>1, <3>1, <3>2, <3>3 DEF Flag
  <2>2. CASE flag' = flag BY <1>3, <2>2
  <2> QED
    BY <2>1, <2>2 DEF Next, vars, Presign, Upload, Mark, MarkRead, MarkSave, MarkSession,
       MarkUploading, MarkCount, MarkCommit, OpenPage, Click, Command, Sync, Enqueue,
       Work, Start, AlreadyCompleted, Record, Link, Miss, Recount, Finish, Raise, Crash
<1> QED BY <1>1, <1>2, <1>3, SessionWrites

LEMMA AwaitingStep == AwaitingInv /\ [Next]_vars => AwaitingHolds'
<1> SUFFICES ASSUME AwaitingInv, [Next]_vars, session'.status = "awaiting_verification",
                    NEW g \in Files
             PROVE  Finished(g)'
  BY DEF AwaitingHolds, Finished
<1>0. files \in [Files -> FileRow] /\ \A f \in Files : mark[f].row \in FileRow
  BY DEF AwaitingInv, TypeOK, MarkRow
<1>1. ASSUME NEW f \in Files, MarkCommit(f) PROVE Finished(g)'
  <2>1. CASE f = g
    BY <1>0, <1>1, <2>1 DEF MarkCommit, AwaitingInv, MarksUploaded, Locking, Finished, Terminal
  <2>2. CASE f # g /\ mark[f].tally.finished
    <3>1. Finished(g) BY <1>1, <2>2 DEF MarkCommit, AwaitingInv, TalliesHold
    <3> QED BY <1>0, <1>1, <2>2, <3>1 DEF MarkCommit, Finished
  <2>3. CASE f # g /\ ~ mark[f].tally.finished
    <3>1. slock # f
      BY <1>1, <2>3 DEF MarkCommit, AwaitingInv, LocksUploading
    <3>2. session.status = "awaiting_verification" BY <1>1, <2>3, <3>1 DEF MarkCommit
    <3>3. Finished(g) BY <3>2 DEF AwaitingInv, AwaitingHolds
    <3> QED BY <1>0, <1>1, <2>3, <3>3 DEF MarkCommit, Finished
  <2> QED BY <2>1, <2>2, <2>3
<1>2. ASSUME NEW r \in Flaggers, Post(r) PROVE Finished(g)'
  <2>1. Finished(g) BY <1>2 DEF Post, AwaitingInv, WeighedHold
  <2>2. files' = files BY <1>2 DEF Post
  <2> QED BY <2>1, <2>2 DEF Finished
<1>3. CASE session.status = "awaiting_verification"
  <2>1. Finished(g) BY <1>3 DEF AwaitingInv, AwaitingHolds
  <2>2. ~ \E F \in SUBSET Files : Presign(F)
    <3>1. session \in SessionRow BY DEF AwaitingInv, TypeOK
    <3> QED BY <3>1 DEF Presign, SessionRow
  <2> QED BY <2>1, <2>2, StaysFinished DEF AwaitingInv
<1> QED BY <1>1, <1>2, <1>3, SessionWrites

LEMMA AwaitingInvariant == Spec => []AwaitingInv
<1>1. Init => TalliesHold /\ LocksUploading /\ WeighedHold /\ PresignOver /\ AwaitingHolds
  BY UploadSessionAssumption DEF Init, TalliesHold, LocksUploading, WeighedHold, PresignOver,
     AwaitingHolds, NoSession
<1>2. Init => TypeOK /\ MarksUploaded
  BY InitType, InitMarks
<1>3. AwaitingInv /\ [Next]_vars => AwaitingInv'
  BY TypeStep, MarksStep, TalliesStep, LocksStep, WeighedStep, PresignOverStep, AwaitingStep
     DEF AwaitingInv
<1>4. Init => AwaitingInv BY <1>1, <1>2 DEF AwaitingInv
<1> QED BY <1>3, <1>4, PTL DEF Spec

\* A session awaits its verification only when every file it has was reported or
\* has failed, although a request does not see what the others have not yet
\* committed and a flagging run posts what it counted before.
THEOREM AwaitingCorrect == Spec => []AwaitingIsFinished
<1>1. AwaitingInv => AwaitingIsFinished
  BY DEF AwaitingInv, AwaitingHolds, AwaitingIsFinished, Finished, Rows
<1> QED BY <1>1, AwaitingInvariant, PTL

-----------------------------------------------------------------------------
(* Patient staff                                                           *)

Settled == Rows(files) # {} /\ \A f \in Rows(files) : mark[f].pc = "done"

Busy(v) == ver[v].pc \in {"queued", "checking", "linking", "counted"}

Verifying(v) == ver[v].pc \in {"checking", "linking", "counted"}

Asked(s) == staff[s].pc = "asked"

\* No file was verified before the browser reported it, and no session before all were.
Reported ==
    /\ \A f \in Files : mark[f].pc # "none" => f \in Rows(files)
    /\ \A f \in Files : mark[f].pc # "done" =>
          objects[f] = 0 /\ files[f].status \in {"absent", "pending"}
    /\ session.status \in {"processing", "completed", "failed"} => Settled

\* One request or one verification at a time, on a session nothing else writes.
OneAtATime ==
    /\ \A s \in Staff : Asked(s) =>
          /\ Settled /\ staff[s].ses = session /\ session.status # "processing"
          /\ \A t \in Staff : Asked(t) => t = s
          /\ \A v \in Verifies : ~Busy(v)
    /\ \A v \in Verifies : Busy(v) =>
          session.status = "processing" /\ \A w \in Verifies : Busy(w) => w = v

\* A verification has still to do what is not completed.
DoesTheRest ==
    \A v \in Verifies : Verifying(v) =>
        /\ ver[v].todo \subseteq Pending
        /\ ver[v].failures = 0 => Pending \subseteq ver[v].todo
        /\ ver[v].pc = "linking" => ver[v].now \in ver[v].todo
        /\ ver[v].pc = "counted" => ver[v].todo = {} /\ ver[v].tally = Count(files)

Recorded(f) ==
    \/ files[f].status = "completed"
    \/ \E v \in Verifies : ver[v].pc = "linking" /\ ver[v].now = f

\* A record more than there were deaths and exceptions belongs to its file.
RecordsBelong ==
    \A f \in Files : objects[f] <= (IF Recorded(f) THEN 1 ELSE 0) + crashes + faults

\* What a session that is completed or may be found to be says.
CountsHold ==
    /\ session.status = "completed" => Pending = {}
    /\ /\ faults = 0 /\ Pending = {}
       /\ session.status # "processing" \/ \E v \in Verifies : ver[v].pc = "queued"
       => session.completed = Count(files).completed /\ session.failed = Count(files).failed

PatientParts == Reported /\ OneAtATime /\ DoesTheRest /\ RecordsBelong /\ CountsHold

PatientInv == mode = "patient" => PatientParts

\* While the browser works nothing has been asked for.
LEMMA BrowserFirst ==
  ASSUME PatientParts,
         \/ \E F \in SUBSET Files : Presign(F)
         \/ \E f \in Files : Upload(f) \/ Mark(f)
  PROVE  /\ session.status \notin {"processing", "completed", "failed"}
         /\ \A s \in Staff : ~Asked(s)
         /\ \A v \in Verifies : ~Busy(v) /\ ~Verifying(v)
<1>1. ~Settled
  <2>1. ASSUME NEW F \in SUBSET Files, Presign(F) PROVE ~Settled
    BY <2>1 DEF Presign, Settled, Rows
  <2>2. ASSUME NEW f \in Files, Upload(f) PROVE ~Settled
    BY <2>2 DEF Upload, Settled, Rows
  <2>3. ASSUME NEW f \in Files, Mark(f) PROVE ~Settled
    <3>1. mark[f].pc # "none" /\ mark[f].pc # "done"
      BY <2>3 DEF Mark, MarkRead, MarkSave, MarkSession, MarkUploading, MarkCount, MarkCommit
    <3> QED BY <3>1 DEF PatientParts, Reported, Settled
  <2> QED BY <2>1, <2>2, <2>3
<1>2. session.status \notin {"processing", "completed", "failed"}
  BY <1>1 DEF PatientParts, Reported
<1>3. \A s \in Staff : ~Asked(s)
  BY <1>1 DEF PatientParts, OneAtATime
<1>4. \A v \in Verifies : ~Busy(v) /\ ~Verifying(v)
  BY <1>2 DEF PatientParts, OneAtATime, Busy, Verifying
<1> QED BY <1>2, <1>3, <1>4

LEMMA PresignPatient ==
  ASSUME TypeOK, PatientParts, NEW F \in SUBSET Files, Presign(F) PROVE PatientParts'
<1> USE DEF TypeOK
<1>1. /\ \A s \in Staff : ~Asked(s)
      /\ \A v \in Verifies : ~Busy(v) /\ ~Verifying(v)
  BY BrowserFirst
<1>2. /\ UNCHANGED <<mark, objects, staff, ver, faults, crashes>>
      /\ F # {} /\ \A f \in Files : mark[f].pc = "none"
      /\ session'.status = "presigned_generated"
      /\ \A f \in F : files'[f].status = "pending"
      /\ \A f \in Files \ F : files'[f] = files[f]
  BY DEF Presign, SessionRow
<1>3. Reported'
  BY <1>2 DEF PatientParts, Reported
<1>4. OneAtATime' /\ DoesTheRest'
  BY <1>1, <1>2 DEF OneAtATime, DoesTheRest, Asked, Busy, Verifying
<1>5. RecordsBelong'
  <2>1. \A f \in Files : objects'[f] = 0
    BY <1>2 DEF PatientParts, Reported
  <2> QED BY <1>2, <2>1 DEF RecordsBelong
<1>6. CountsHold'
  <2>1. PICK f \in F : TRUE
    BY <1>2
  <2>2. f \in Pending'
    BY <1>2, <2>1 DEF Pending, Rows
  <2> QED BY <1>2, <2>2 DEF CountsHold
<1> QED BY <1>3, <1>4, <1>5, <1>6 DEF PatientParts

\* A report that has not been committed shows in nothing but itself.
LEMMA ReportingPatient ==
  ASSUME TypeOK, PatientParts, NEW f \in Files, Upload(f) \/ (Mark(f) /\ ~MarkCommit(f))
  PROVE  PatientParts'
<1> USE DEF TypeOK
<1>1. /\ session.status \notin {"processing", "completed", "failed"}
      /\ \A s \in Staff : ~Asked(s)
      /\ \A v \in Verifies : ~Busy(v) /\ ~Verifying(v)
  BY BrowserFirst
<1>2. UNCHANGED <<files, session, objects, staff, ver, faults, crashes>>
  BY DEF Upload, Mark, MarkRead, MarkSave, MarkSession, MarkUploading, MarkCount
<1>3. f \in Rows(files) /\ mark[f].pc # "done"
  <2>1. CASE Upload(f)
    BY <2>1 DEF Upload, Rows
  <2>2. CASE Mark(f) /\ ~MarkCommit(f)
    <3>1. mark[f].pc # "none" /\ mark[f].pc # "done"
      BY <2>2 DEF Mark, MarkRead, MarkSave, MarkSession, MarkUploading, MarkCount
    <3> QED BY <3>1 DEF PatientParts, Reported
  <2> QED BY <2>1, <2>2
<1>4. \A g \in Files \ {f} : mark'[g] = mark[g]
  BY MarkMoves
<1>5. Reported'
  BY <1>1, <1>2, <1>3, <1>4 DEF PatientParts, Reported, Rows
<1>6. OneAtATime' /\ DoesTheRest'
  BY <1>1, <1>2 DEF OneAtATime, DoesTheRest, Asked, Busy, Verifying
<1>7. RecordsBelong'
  BY <1>2 DEF PatientParts, RecordsBelong, Recorded
<1>8. CountsHold'
  BY <1>2 DEF PatientParts, CountsHold, Pending, Rows, Count
<1> QED BY <1>5, <1>6, <1>7, <1>8 DEF PatientParts

LEMMA CommitPatient ==
  ASSUME TypeOK, MarksUploaded, LocksUploading, PatientParts, NEW f \in Files, MarkCommit(f)
  PROVE  PatientParts'
<1> USE DEF TypeOK
<1>1. /\ session.status \notin {"processing", "completed", "failed"}
      /\ \A s \in Staff : ~Asked(s)
      /\ \A v \in Verifies : ~Busy(v) /\ ~Verifying(v)
  BY BrowserFirst DEF Mark
<1>2. /\ UNCHANGED <<objects, staff, ver, faults, crashes>>
      /\ mark[f].pc = "counted" /\ mark'[f].pc = "done"
      /\ \A g \in Files \ {f} : mark'[g] = mark[g]
      /\ files'[f].status = "uploaded"
      /\ \A g \in Files \ {f} : files'[g] = files[g]
  BY DEF MarkCommit, MarksUploaded, Locking
<1>3. session'.status \notin {"processing", "completed", "failed"}
  BY <1>1 DEF MarkCommit, LocksUploading
<1>4. Reported'
  BY <1>2, <1>3 DEF PatientParts, Reported, Rows
<1>5. OneAtATime' /\ DoesTheRest'
  BY <1>1, <1>2 DEF OneAtATime, DoesTheRest, Asked, Busy, Verifying
<1>6. RecordsBelong'
  <2>1. objects'[f] = 0
    BY <1>2 DEF PatientParts, Reported
  <2>2. \A g \in Files \ {f} : Recorded(g)' <=> Recorded(g)
    BY <1>2 DEF Recorded
  <2> QED BY <1>2, <2>1, <2>2 DEF PatientParts, RecordsBelong
<1>7. CountsHold'
  <2>1. f \in Pending'
    BY <1>2 DEF Pending, Rows
  <2> QED BY <1>3, <2>1 DEF CountsHold
<1> QED BY <1>4, <1>5, <1>6, <1>7 DEF PatientParts

\* What a member of the staff does, on a page or with a command.
LEMMA AskPatient ==
  ASSUME TypeOK, PatientParts, NEW s \in Staff, OpenPage(s) \/ Click(s) \/ Command(s) \/ Sync(s),
         Patient, Attentive
  PROVE  PatientParts'
<1> USE DEF TypeOK
<1>1. UNCHANGED <<files, session, objects, mark, ver, faults, crashes>>
  BY DEF OpenPage, Click, Command, Sync
<1>2. /\ \A t \in Staff \ {s} : staff'[t] = staff[t]
      /\ ~Asked(s)
      /\ Asked(s)' => staff'[s].ses = session
  <2>1. CASE OpenPage(s)
    BY <2>1 DEF OpenPage, StaffRow, Asked
  <2>2. CASE Click(s)
    BY <2>2 DEF Click, Asking, StaffRow, Asked
  <2>3. CASE Command(s) \/ Sync(s)
    BY <2>3 DEF Command, Sync, Asking, StaffRow, Asked
  <2> QED BY <2>1, <2>2, <2>3
<1>3. Asked(s)' => /\ \A t \in Staff : ~Asked(t)
                   /\ \A v \in Verifies : ~Busy(v)
                   /\ Settled /\ session.status # "processing"
  BY <1>2 DEF Patient, Attentive, Asked, Busy, Settled
<1>4. Reported' /\ DoesTheRest' /\ RecordsBelong' /\ CountsHold'
  <2>1. Reported'
    BY <1>1 DEF PatientParts, Reported, Settled, Rows
  <2>2. DoesTheRest'
    BY <1>1 DEF PatientParts, DoesTheRest, Verifying, Pending, Rows, Count
  <2>3. RecordsBelong'
    BY <1>1 DEF PatientParts, RecordsBelong, Recorded
  <2>4. CountsHold'
    BY <1>1 DEF PatientParts, CountsHold, Pending, Rows, Count
  <2> QED BY <2>1, <2>2, <2>3, <2>4
<1>5. OneAtATime'
  <2>1. ASSUME NEW t \in Staff, Asked(t)'
        PROVE  /\ Settled' /\ staff'[t].ses = session' /\ session'.status # "processing"
               /\ \A u \in Staff : Asked(u)' => u = t
               /\ \A v \in Verifies : ~Busy(v)'
    <3>1. Settled' = Settled /\ \A v \in Verifies : Busy(v)' = Busy(v)
      BY <1>1 DEF Settled, Rows, Busy
    <3>2. \A u \in Staff \ {s} : Asked(u)' <=> Asked(u)
      BY <1>2 DEF Asked
    <3>3. CASE t = s
      BY <1>1, <1>2, <1>3, <2>1, <3>1, <3>2, <3>3
    <3>4. CASE t # s
      BY <1>1, <1>2, <1>3, <2>1, <3>1, <3>2, <3>4 DEF PatientParts, OneAtATime
    <3> QED BY <3>3, <3>4
  <2>2. \A v \in Verifies : Busy(v)' =>
          session'.status = "processing" /\ \A w \in Verifies : Busy(w)' => w = v
    BY <1>1 DEF PatientParts, OneAtATime, Busy
  <2> QED BY <2>1, <2>2 DEF OneAtATime
<1> QED BY <1>4, <1>5 DEF PatientParts

LEMMA EnqueuePatient ==
  ASSUME TypeOK, PatientParts, NEW s \in Staff, NEW v \in Verifies, Enqueue(s, v)
  PROVE  PatientParts'
<1> USE DEF TypeOK
<1>1. /\ UNCHANGED <<files, objects, mark, faults, crashes>>
      /\ Asked(s) /\ ~Asked(s)' /\ \A t \in Staff \ {s} : staff'[t] = staff[t]
      /\ ver[v].pc = "idle" /\ ver'[v].pc = "queued"
      /\ \A w \in Verifies \ {v} : ver'[w] = ver[w]
      /\ session' = [staff[s].ses EXCEPT !.status = "processing"]
  BY DEF Enqueue, Asked, VerifyRow
<1>2. /\ Settled /\ staff[s].ses = session /\ session.status # "processing"
      /\ \A t \in Staff : Asked(t) => t = s
      /\ \A w \in Verifies : ~Busy(w)
  BY <1>1 DEF PatientParts, OneAtATime
<1>3. session'.status = "processing" /\ session'.completed = session.completed
      /\ session'.failed = session.failed
  BY <1>1, <1>2 DEF SessionRow
<1>4. Reported'
  BY <1>1, <1>2 DEF PatientParts, Reported, Settled, Rows
<1>5. OneAtATime'
  <2>1. \A t \in Staff : ~Asked(t)'
    BY <1>1, <1>2 DEF Asked
  <2>2. \A w \in Verifies : Busy(w)' => w = v
    BY <1>1, <1>2 DEF Busy
  <2> QED BY <1>3, <2>1, <2>2 DEF OneAtATime
<1>6. DoesTheRest'
  BY <1>1, <1>2 DEF DoesTheRest, Verifying, Busy
<1>7. RecordsBelong'
  <2>1. \A f \in Files : Recorded(f)' <=> Recorded(f)
    BY <1>1 DEF Recorded
  <2> QED BY <1>1, <2>1 DEF PatientParts, RecordsBelong
<1>8. CountsHold'
  <2>1. Pending' = Pending /\ Count(files)' = Count(files)
    BY <1>1 DEF Pending, Rows, Count
  <2> QED BY <1>1, <1>2, <1>3, <2>1 DEF PatientParts, CountsHold
<1> QED BY <1>4, <1>5, <1>6, <1>7, <1>8 DEF PatientParts

\* What the steps of a verification have in common.
LEMMA WorkFrame ==
  ASSUME TypeOK, PatientParts, NEW v \in Verifies, Busy(v),
         Work(v) \/ Raise(v) \/ Crash(v)
  PROVE  /\ UNCHANGED <<mark, staff>>
         /\ \A w \in Verifies \ {v} : ver'[w] = ver[w] /\ ~Busy(w) /\ ~Verifying(w)
         /\ \A w \in Verifies \ {v} : ~Busy(w)' /\ ~Verifying(w)'
         /\ session.status = "processing" /\ Settled
         /\ \A s \in Staff : ~Asked(s)
<1> USE DEF TypeOK
<1>1. UNCHANGED <<mark, staff>> /\ \A w \in Verifies \ {v} : ver'[w] = ver[w]
  BY DEF Work, Start, AlreadyCompleted, Record, Link, Miss, Recount, Finish, Raise, Crash, Ended
<1>2. \A w \in Verifies \ {v} : ~Busy(w)
  BY DEF PatientParts, OneAtATime
<1>3. session.status = "processing"
  BY DEF PatientParts, OneAtATime
<1>4. Settled
  BY <1>3 DEF PatientParts, Reported
<1>5. \A s \in Staff : ~Asked(s)
  BY DEF PatientParts, OneAtATime
<1> QED BY <1>1, <1>2, <1>3, <1>4, <1>5 DEF Busy, Verifying

LEMMA WorkBrowser ==
  ASSUME TypeOK, PatientParts, NEW v \in Verifies, Busy(v),
         Work(v) \/ Raise(v) \/ Crash(v),
         Rows(files') = Rows(files),
         \A f \in Files \ Rows(files) : files'[f] = files[f] /\ objects'[f] = objects[f],
         Busy(v)' => session' = session
  PROVE  Reported' /\ OneAtATime'
<1>1. /\ UNCHANGED <<mark, staff>>
      /\ \A w \in Verifies \ {v} : ~Busy(w)'
      /\ session.status = "processing" /\ Settled
      /\ \A s \in Staff : ~Asked(s)
  BY WorkFrame
<1>2. Settled'
  BY <1>1 DEF Settled
<1>3. \A f \in Files : mark'[f].pc # "none" => f \in Rows(files')
  BY <1>1 DEF PatientParts, Reported
<1>4. \A f \in Files : mark'[f].pc # "done" =>
        objects'[f] = 0 /\ files'[f].status \in {"absent", "pending"}
  <2> SUFFICES ASSUME NEW f \in Files, mark'[f].pc # "done"
               PROVE  objects'[f] = 0 /\ files'[f].status \in {"absent", "pending"}
    OBVIOUS
  <2>1. f \notin Rows(files) /\ mark[f].pc # "done"
    BY <1>1 DEF Settled
  <2> QED BY <2>1 DEF PatientParts, Reported
<1>5. Reported'
  BY <1>2, <1>3, <1>4 DEF Reported
<1>6. OneAtATime'
  <2>1. \A s \in Staff : ~Asked(s)'
    BY <1>1 DEF Asked
  <2> QED BY <1>1, <2>1 DEF OneAtATime
<1> QED BY <1>5, <1>6

\* Steps that write no file.
LEMMA WorkElsewherePatient ==
  ASSUME TypeOK, PatientParts, NEW v \in Verifies, Busy(v),
         \/ Start(v) \/ AlreadyCompleted(v) \/ Recount(v) \/ Finish(v)
         \/ Raise(v) \/ Crash(v)
  PROVE  PatientParts'
<1> USE DEF TypeOK
<1>1. /\ \A w \in Verifies \ {v} : ver'[w] = ver[w] /\ ~Busy(w) /\ ~Verifying(w)
      /\ \A w \in Verifies \ {v} : ~Busy(w)' /\ ~Verifying(w)'
      /\ session.status = "processing"
  BY WorkFrame DEF Work
<1>2. UNCHANGED <<files, objects>>
  BY DEF Start, AlreadyCompleted, Recount, Finish, Raise, Crash
<1>3. Pending' = Pending /\ Rows(files') = Rows(files) /\ Count(files)' = Count(files)
  BY <1>2 DEF Pending, Rows, Count
<1>4. ver'[v] \in VerifyRow
  BY TypeStep DEF Next, Work
<1>5. /\ Start(v) => ver'[v].pc = "checking" /\ ver'[v].todo = Pending
      /\ AlreadyCompleted(v) \/ Finish(v) \/ Crash(v) => ver'[v].pc = "done"
      /\ Recount(v) => /\ ver'[v].pc = "counted" /\ ver'[v].tally = Count(files)
                       /\ ver'[v].todo = ver[v].todo /\ ver[v].todo = {}
                       /\ ver'[v].failures = ver[v].failures /\ Verifying(v)
      /\ Raise(v) => ver'[v].pc \in {"queued", "done"}
  <2>1. Start(v) => ver'[v].pc = "checking" /\ ver'[v].todo = Pending
    BY DEF Start, VerifyRow
  <2>2. AlreadyCompleted(v) \/ Finish(v) \/ Crash(v) => ver'[v].pc = "done"
    BY DEF AlreadyCompleted, Finish, Crash, Ended, NoVerify
  <2>3. Recount(v) => /\ ver'[v].pc = "counted" /\ ver'[v].tally = Count(files)
                      /\ ver'[v].todo = ver[v].todo /\ ver[v].todo = {}
                      /\ ver'[v].failures = ver[v].failures /\ Verifying(v)
    BY DEF Recount, VerifyRow, Verifying
  <2>4. Raise(v) => ver'[v].pc \in {"queued", "done"}
    BY DEF Raise, NoVerify
  <2> QED BY <2>1, <2>2, <2>3, <2>4
<1>6. /\ Start(v) \/ Recount(v) \/ Raise(v) \/ Crash(v) => session' = session
      /\ Finish(v) => session' = [status |-> IF ver[v].failures > 0 THEN "failed" ELSE "completed",
                                  completed |-> ver[v].tally.completed,
                                  failed |-> ver[v].tally.failed]
      /\ AlreadyCompleted(v) => session'.status = "completed" /\ Pending = {}
                                /\ session'.completed = session.completed
                                /\ session'.failed = session.failed /\ ver[v].pc = "queued"
  BY DEF Start, Recount, Raise, Crash, Finish, AlreadyCompleted, SessionRow
<1>7. Reported' /\ OneAtATime'
  BY <1>2, <1>3, <1>5, <1>6, WorkBrowser DEF Work, Busy
<1>8. DoesTheRest'
  <2> SUFFICES ASSUME Verifying(v)'
               PROVE  /\ ver'[v].todo \subseteq Pending'
                      /\ ver'[v].failures = 0 => Pending' \subseteq ver'[v].todo
                      /\ ver'[v].pc = "linking" => ver'[v].now \in ver'[v].todo
                      /\ ver'[v].pc = "counted" =>
                           ver'[v].todo = {} /\ ver'[v].tally = Count(files)'
    BY <1>1 DEF DoesTheRest
  <2>1. Start(v) \/ Recount(v)
    BY <1>5 DEF Verifying
  <2> QED BY <1>3, <1>5, <2>1 DEF PatientParts, DoesTheRest
<1>9. RecordsBelong'
  <2> SUFFICES ASSUME NEW f \in Files
               PROVE  objects'[f] <= (IF Recorded(f)' THEN 1 ELSE 0) + crashes' + faults'
    BY DEF RecordsBelong
  <2>1. /\ objects[f] <= (IF Recorded(f) THEN 1 ELSE 0) + crashes + faults
        /\ objects'[f] = objects[f] /\ objects[f] \in Nat /\ crashes \in Nat /\ faults \in Nat
    BY <1>2, UploadSessionAssumption DEF PatientParts, RecordsBelong
  <2>2. CASE Raise(v) \/ Crash(v)
    <3>1. objects[f] <= crashes + faults + 1
      BY <2>1
    <3>2. crashes' + faults' = crashes + faults + 1 /\ crashes' \in Nat /\ faults' \in Nat
      BY <2>1, <2>2 DEF Raise, Crash
    <3>3. objects'[f] <= crashes' + faults'
      BY <2>1, <3>1, <3>2
    <3> QED BY <2>1, <3>2, <3>3
  <2>3. CASE Start(v) \/ AlreadyCompleted(v) \/ Recount(v) \/ Finish(v)
    <3>1. ver[v].pc # "linking" /\ ver'[v].pc # "linking" /\ UNCHANGED <<crashes, faults>>
      BY <1>5, <2>3 DEF Start, AlreadyCompleted, Recount, Finish
    <3>2. Recorded(f)' <=> Recorded(f)
      BY <1>1, <1>2, <3>1 DEF Recorded
    <3> QED BY <2>1, <3>1, <3>2
  <2> QED BY <2>2, <2>3
<1>10. CountsHold'
  <2>1. CASE Start(v) \/ Recount(v) \/ Crash(v)
    BY <1>1, <1>5, <1>6, <2>1 DEF CountsHold, Busy
  <2>2. CASE Raise(v)
    <3>1. faults' # 0
      BY <2>2 DEF Raise
    <3> QED BY <1>1, <1>6, <2>2, <3>1 DEF CountsHold
  <2>3. CASE AlreadyCompleted(v)
    BY <1>3, <1>6, <2>3 DEF PatientParts, CountsHold, AlreadyCompleted
  <2>4. CASE Finish(v)
    <3>1. Verifying(v) /\ ver[v].pc = "counted"
      BY <2>4 DEF Finish, Verifying
    <3>2. /\ ver[v].todo = {} /\ ver[v].tally = Count(files)
          /\ ver[v].failures = 0 => Pending = {}
      BY <3>1 DEF PatientParts, DoesTheRest
    <3>3. ver[v].failures \in Nat
      BY DEF VerifyRow
    <3>4. session'.status = "completed" => Pending = {}
      BY <1>6, <2>4, <3>2, <3>3
    <3> QED BY <1>3, <1>6, <2>4, <3>2, <3>4 DEF CountsHold
  <2> QED BY <2>1, <2>2, <2>3, <2>4
<1> QED BY <1>7, <1>8, <1>9, <1>10 DEF PatientParts

\* Steps that verify a file.
LEMMA WorkOnFilePatient ==
  ASSUME TypeOK, PatientParts, NEW v \in Verifies, NEW f \in Files,
         Record(v, f) \/ Link(v, f) \/ Miss(v, f)
  PROVE  PatientParts'
<1> USE DEF TypeOK
<1>1. Busy(v) /\ Verifying(v)
  BY DEF Record, Link, Miss, Busy, Verifying
<1>2. /\ \A w \in Verifies \ {v} : ver'[w] = ver[w] /\ ~Busy(w) /\ ~Verifying(w)
      /\ \A w \in Verifies \ {v} : ~Busy(w)' /\ ~Verifying(w)'
      /\ session.status = "processing"
  BY <1>1, WorkFrame DEF Work
<1>3. session' = session /\ UNCHANGED crashes
  BY DEF Record, Link, Miss
<1>4. /\ ver[v].todo \subseteq Pending
      /\ ver[v].failures = 0 => Pending \subseteq ver[v].todo
      /\ ver[v].pc = "linking" => ver[v].now \in ver[v].todo
  BY <1>1 DEF PatientParts, DoesTheRest
<1>5. f \in ver[v].todo /\ f \in Pending /\ f \in Rows(files) /\ files[f].status # "completed"
      /\ (ver[v].pc = "linking" => ver[v].now = f)
  <2>1. f \in ver[v].todo /\ (ver[v].pc = "linking" => ver[v].now = f)
    BY <1>4 DEF Record, Link, Miss
  <2> QED BY <1>4, <2>1 DEF Pending
<1>6. /\ Record(v, f) =>
           /\ files' = files /\ objects' = [objects EXCEPT ![f] = @ + 1] /\ faults' = faults
           /\ ver[v].pc = "checking" /\ ver'[v].pc = "linking" /\ ver'[v].now = f
           /\ ver'[v].todo = ver[v].todo /\ ver'[v].failures = ver[v].failures
      /\ Link(v, f) =>
           /\ files'[f].status = "completed" /\ objects' = objects /\ faults' = faults
           /\ ver[v].pc = "linking" /\ ver'[v].pc = "checking"
           /\ ver'[v].todo = ver[v].todo \ {f} /\ ver'[v].failures = ver[v].failures
      /\ Miss(v, f) =>
           /\ files'[f].status = "failed" /\ objects' = objects
           /\ faults' = IF ver[v].pc = "linking" \/ f \in stored THEN faults + 1 ELSE faults
           /\ ver'[v].pc = "checking"
           /\ ver'[v].todo = ver[v].todo \ {f} /\ ver'[v].failures = ver[v].failures + 1
  <2>1. Record(v, f) =>
           /\ files' = files /\ objects' = [objects EXCEPT ![f] = @ + 1] /\ faults' = faults
           /\ ver[v].pc = "checking" /\ ver'[v].pc = "linking" /\ ver'[v].now = f
           /\ ver'[v].todo = ver[v].todo /\ ver'[v].failures = ver[v].failures
    BY DEF Record, VerifyRow
  <2>2. Link(v, f) =>
           /\ files'[f].status = "completed" /\ objects' = objects /\ faults' = faults
           /\ ver[v].pc = "linking" /\ ver'[v].pc = "checking"
           /\ ver'[v].todo = ver[v].todo \ {f} /\ ver'[v].failures = ver[v].failures
    BY DEF Link, VerifyRow
  <2>3. Miss(v, f) =>
           /\ files'[f].status = "failed" /\ objects' = objects
           /\ faults' = IF ver[v].pc = "linking" \/ f \in stored THEN faults + 1 ELSE faults
           /\ ver'[v].pc = "checking"
           /\ ver'[v].todo = ver[v].todo \ {f} /\ ver'[v].failures = ver[v].failures + 1
    BY DEF Miss, VerifyRow
  <2> QED BY <2>1, <2>2, <2>3
<1>7. \A g \in Files \ {f} : files'[g] = files[g] /\ objects'[g] = objects[g]
  BY DEF Record, Link, Miss
<1>8. /\ Rows(files') = Rows(files)
      /\ Pending' = IF Link(v, f) THEN Pending \ {f} ELSE Pending
  <2>1. files'[f].status # "absent" /\ (files'[f].status = "completed" <=> Link(v, f))
    <3>1. CASE Record(v, f)
      BY <1>5, <1>6, <3>1 DEF Rows, Link
    <3>2. CASE Link(v, f)
      BY <1>6, <3>2
    <3>3. CASE Miss(v, f)
      BY <1>6, <3>3
    <3> QED BY <3>1, <3>2, <3>3
  <2>2. Rows(files') = Rows(files)
    BY <1>5, <1>7, <2>1 DEF Rows
  <2> QED BY <1>5, <1>7, <2>1 DEF Pending, Rows
<1>9. Reported' /\ OneAtATime'
  BY <1>1, <1>3, <1>5, <1>7, <1>8, WorkBrowser DEF Work
<1>10. DoesTheRest'
  <2>1. /\ ver'[v].todo \subseteq Pending'
        /\ ver'[v].failures = 0 => Pending' \subseteq ver'[v].todo
        /\ ver'[v].pc = "linking" => ver'[v].now \in ver'[v].todo
        /\ ver'[v].pc # "counted"
    <3>1. CASE Record(v, f)
      BY <1>4, <1>5, <1>6, <1>8, <3>1 DEF Link
    <3>2. CASE Link(v, f)
      BY <1>4, <1>6, <1>8, <3>2
    <3>3. CASE Miss(v, f) /\ ~Link(v, f)
      <4>1. ver[v].failures \in Nat
        BY DEF VerifyRow
      <4> QED BY <1>4, <1>6, <1>8, <3>3, <4>1
    <3> QED BY <3>1, <3>2, <3>3
  <2> QED BY <1>2, <2>1 DEF DoesTheRest
<1>11. RecordsBelong'
  <2> SUFFICES ASSUME NEW g \in Files
               PROVE  objects'[g] <= (IF Recorded(g)' THEN 1 ELSE 0) + crashes' + faults'
    BY DEF RecordsBelong
  <2>1. /\ objects[g] <= (IF Recorded(g) THEN 1 ELSE 0) + crashes + faults
        /\ objects[g] \in Nat /\ crashes \in Nat /\ faults \in Nat
    BY UploadSessionAssumption DEF PatientParts, RecordsBelong
  <2>2. Recorded(g) <=> files[g].status = "completed" \/ (ver[v].pc = "linking" /\ g = f)
    BY <1>2, <1>5 DEF Recorded, Verifying
  <2>3. Recorded(g)' <=>
          files'[g].status = "completed" \/ (ver'[v].pc = "linking" /\ ver'[v].now = g)
    BY <1>2 DEF Recorded, Verifying
  <2>4. crashes' = crashes /\ faults' \in Nat /\ faults' >= faults
    BY <1>3, <1>6, <2>1
  <2>5. CASE g # f
    <3>1. Recorded(g)' <=> Recorded(g)
      BY <1>6, <1>7, <2>2, <2>3, <2>5
    <3> QED BY <1>7, <2>1, <2>4, <2>5, <3>1
  <2>6. CASE g = f /\ Record(v, f)
    <3>1. ~Recorded(g) /\ Recorded(g)' /\ objects'[g] = objects[g] + 1
      BY <1>5, <1>6, <2>2, <2>3, <2>6
    <3> QED BY <2>1, <2>4, <3>1
  <2>7. CASE g = f /\ Link(v, f)
    <3>1. Recorded(g)' /\ objects'[g] = objects[g]
      BY <1>6, <2>3, <2>7
    <3> QED BY <2>1, <2>4, <3>1
  <2>8. CASE g = f /\ Miss(v, f)
    <3>1. objects'[g] = objects[g]
      BY <1>6, <2>8
    <3>2. Recorded(g) => faults' = faults + 1
      BY <1>5, <1>6, <2>2, <2>8
    <3> QED BY <2>1, <2>4, <3>1, <3>2
  <2> QED BY <2>5, <2>6, <2>7, <2>8
<1>12. CountsHold'
  <2>1. \A w \in Verifies : ver'[w].pc # "queued"
    BY <1>2, <1>6 DEF Busy
  <2> QED BY <1>2, <1>3, <2>1 DEF CountsHold
<1> QED BY <1>9, <1>10, <1>11, <1>12 DEF PatientParts

\* The flagging runs do not move when nothing of them changes.
LEMMA NoFlag == ASSUME TypeOK, UNCHANGED flag, NEW g \in Flaggers PROVE ~Flag(g)
BY DEF TypeOK, FlagRow, Flag, Spot, Weigh, Post

LEMMA PatientStep ==
  ASSUME TypeOK, MarksUploaded, LocksUploading, PatientParts, Next, Patient, Attentive,
         UNCHANGED flag
  PROVE  PatientParts'
<1>1. ASSUME NEW v \in Verifies, Work(v) \/ Raise(v) \/ Crash(v) PROVE PatientParts'
  <2>1. CASE \E f \in Files : Record(v, f) \/ Link(v, f) \/ Miss(v, f)
    BY <2>1, WorkOnFilePatient
  <2>2. CASE \/ Start(v) \/ AlreadyCompleted(v) \/ Recount(v) \/ Finish(v)
             \/ Raise(v) \/ Crash(v)
    <3>1. Busy(v)
      BY <2>2 DEF Start, AlreadyCompleted, Recount, Finish, Raise, Crash, Busy
    <3> QED BY <2>2, <3>1, WorkElsewherePatient
  <2> QED BY <1>1, <2>1, <2>2 DEF Work
<1>2. ASSUME NEW f \in Files, Upload(f) \/ Mark(f) PROVE PatientParts'
  BY <1>2, ReportingPatient, CommitPatient
<1> QED BY <1>1, <1>2, NoFlag, PresignPatient, AskPatient, EnqueuePatient DEF Next

\* The behaviours of the run are behaviours of Spec.
LEMMA ThreeAreSpec == ThreeSpec => Spec
<1>1. ThreeInit => Init
  BY DEF ThreeInit
<1>2. [ThreeNext]_modeVars => [Next]_vars
  BY DEF ThreeNext, modeVars
<1> QED BY <1>1, <1>2, PTL DEF ThreeSpec, Spec

THEOREM PatientInvariant == ThreeSpec => []PatientInv
<1>1. ThreeInit => PatientInv
  <2> SUFFICES ASSUME Init PROVE PatientParts
    BY DEF ThreeInit, PatientInv
  <2>1. Rows(files) = {} /\ Pending = {}
    BY DEF Init, Rows, Pending, NoRow
  <2>2. Reported /\ OneAtATime /\ DoesTheRest
    BY DEF Init, Reported, OneAtATime, DoesTheRest, NoRow, NoSession, NoVerify, Asked, Busy,
       Verifying
  <2>3. RecordsBelong
    BY DEF Init, RecordsBelong
  <2>4. CountsHold
    <3>1. Count(files) = [completed |-> 0, failed |-> 0, finished |-> TRUE]
      <4>1. /\ {f \in Rows(files) : files[f].status = "completed"} = {}
            /\ {f \in Rows(files) : files[f].status = "failed"} = {}
        BY <2>1
      <4> QED BY <2>1, <4>1, FS_EmptySet DEF Count
    <3> QED BY <3>1 DEF Init, CountsHold, NoSession
  <2> QED BY <2>2, <2>3, <2>4 DEF PatientParts
<1>2. TypeOK /\ MarksUploaded /\ LocksUploading /\ PatientInv /\ [ThreeNext]_modeVars
        => PatientInv'
  <2> SUFFICES ASSUME TypeOK, MarksUploaded, LocksUploading, PatientInv, [ThreeNext]_modeVars,
                      mode' = "patient"
               PROVE  PatientParts'
    BY DEF PatientInv
  <2>1. mode = "patient" /\ PatientParts
    BY DEF ThreeNext, modeVars, PatientInv
  <2>2. CASE ThreeNext
    BY <2>1, <2>2, PatientStep DEF ThreeNext
  <2>3. CASE UNCHANGED modeVars
    BY <2>1, <2>3
    DEF modeVars, vars, PatientParts, Reported, OneAtATime, DoesTheRest, RecordsBelong, CountsHold,
        Settled, Rows, Asked, Busy, Verifying, Recorded, Pending, Count
  <2> QED BY <2>2, <2>3
<1>3. AwaitingInv => TypeOK /\ MarksUploaded /\ LocksUploading
  BY DEF AwaitingInv
<1> QED BY <1>1, <1>2, <1>3, ThreeAreSpec, AwaitingInvariant, PTL DEF ThreeSpec

\* verify_upload_session, "Verify every file in an async upload session": when the staff
\* asks after all reports and one at a time, a session that is completed has only
\* completed files, and without exceptions the counters that belong to them.
THEOREM PatientSessionsAreComplete == ThreeSpec => []PatientCompletedIsComplete
<1>1. PatientInv => PatientCompletedIsComplete
  <2> SUFFICES ASSUME PatientParts PROVE CompletedIsComplete
    BY DEF PatientInv, PatientCompletedIsComplete
  <2>1. Pending = {} => \A f \in Rows(files) : files[f].status = "completed"
    BY DEF Pending
  <2> QED BY <2>1 DEF PatientParts, CountsHold, CompletedIsComplete
<1> QED BY <1>1, PatientInvariant, PTL

\* However often the verification of a session is retried or asked for again, a file has
\* one S3FileObject, and one more at most for each death and each exception.
THEOREM PatientFilesHaveOneObject == ThreeSpec => []PatientOneObjectEach
<1>1. TypeOK /\ PatientInv => PatientOneObjectEach
  <2> SUFFICES ASSUME TypeOK, PatientParts PROVE OneObjectEach
    BY DEF PatientInv, PatientOneObjectEach
  <2>1. crashes \in Nat /\ faults \in Nat /\ \A f \in Files : objects[f] \in Nat
    BY UploadSessionAssumption DEF TypeOK
  <2>2. ASSUME NEW f \in Files PROVE objects[f] <= 1 + crashes + faults
    <3>1. objects[f] <= (IF Recorded(f) THEN 1 ELSE 0) + crashes + faults
      BY DEF PatientParts, RecordsBelong
    <3> QED BY <2>1, <3>1
  <2> QED BY <2>2 DEF OneObjectEach
<1> QED BY <1>1, PatientInvariant, ThreeAreSpec, TypeCorrect, PTL
=============================================================================
