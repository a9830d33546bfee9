---------------------------- MODULE ProjectsCache ----------------------------
(***************************************************************************)
(* The cached cross-institutional snapshot of the public projects: who     *)
(* builds it (ProjectSnapshotService), the warming task with its lock      *)
(* (arkumu/cache/tasks.py), the periodic refresh, the importer's hook and  *)
(* the views that build on a miss or refresh at once, and the publishing   *)
(* and unpublishing of a project, whose request asks for a refresh before  *)
(* its transaction is committed (ATOMIC_REQUESTS).                         *)
(*                                                                         *)
(* Of a snapshot only the set of projects it shows is kept: those in the   *)
(* graph when it was read that were approved when they were filtered.      *)
(***************************************************************************)
EXTENDS Naturals, FiniteSets

CONSTANTS
    Projects,
    Editors,        \* requests that publish or unpublish
    Workers,        \* Huey threads
    Views,          \* web threads and the importer: they build without the lock
    MaxChanges,     \* bound: commits and imports
    MaxQueue,       \* bound: warming tasks queued
    MaxFaults       \* bound: processes that die, locks that expire, stores that fail

ProjectsCacheAssumption ==
    /\ Workers \cap Views = {}
    /\ "nobody" \notin Workers
    /\ MaxChanges \in Nat /\ MaxQueue \in Nat /\ MaxFaults \in Nat

VARIABLES
    graph,          \* projects in the triple store
    public,         \* resources that are public and approved, as committed
    edit,           \* what each request is doing
    draft,          \* the project it has saved, and whether public
    cached,         \* whether the snapshot key is there
    shown,          \* the projects of the cached snapshot
    forced, plain,  \* warming tasks queued, with force_refresh and without
    holder,         \* whose cache.add created the warming lock
    pc,             \* where each builder is
    read,           \* what it has read: the graph, then the projects to show
    older,          \* ghost: builders that had read when a warming stored
    late,           \* ghost: a lock has expired under its holder
    excused,        \* ghost: a refresh came too early, was skipped, failed or was undone
    changes, faults

bvars == <<pc, read>>
dvars == <<graph, public, changes>>
vars == <<graph, public, edit, draft, cached, shown, forced, plain, holder, pc, read,
          older, late, excused, changes, faults>>

Builders == Workers \cup Views

\* Between cache.add of the lock and its delete.
Warming == {"looking", "fetching", "filtering", "storing", "releasing"}

NoDraft == [of |-> {}, show |-> FALSE]

TypeOK ==
    /\ graph \subseteq Projects /\ public \subseteq Projects
    /\ edit \in [Editors -> {"idle", "saved", "asked"}]
    /\ draft \in [Editors -> [of : SUBSET Projects, show : BOOLEAN]]
    /\ \A e \in Editors : edit[e] = "idle" <=> draft[e] = NoDraft
    /\ cached \in BOOLEAN /\ shown \subseteq Projects
    /\ forced \in 0..MaxQueue /\ plain \in 0..MaxQueue
    /\ holder \in Workers \cup {"nobody"}
    /\ pc \in [Builders -> {"idle"} \cup Warming]
    /\ read \in [Builders -> SUBSET Projects]
    /\ older \subseteq Builders /\ late \in BOOLEAN /\ excused \in BOOLEAN
    /\ changes \in 0..MaxChanges /\ faults \in 0..MaxFaults

Init ==
    /\ graph \in SUBSET Projects /\ public = {}
    /\ edit = [e \in Editors |-> "idle"]
    /\ draft = [e \in Editors |-> NoDraft]
    /\ cached = FALSE /\ shown = {}
    /\ forced = 0 /\ plain = 0
    /\ holder = "nobody"
    /\ pc = [b \in Builders |-> "idle"]
    /\ read = [b \in Builders |-> {}]
    /\ older = {} /\ late = FALSE /\ excused = FALSE
    /\ changes = 0 /\ faults = 0

Queued == forced + plain

Goto(b, l) == pc' = [pc EXCEPT ![b] = l]

-----------------------------------------------------------------------------
(* Publishing and unpublishing: ProjectWorkspaceListingService *)

\* project.save() in the transaction of the request, which holds the row.
Save(e, p) ==
    /\ edit[e] = "idle" /\ p \in graph
    /\ \A f \in Editors : p \notin draft[f].of
    /\ edit' = [edit EXCEPT ![e] = "saved"]
    /\ draft' = [draft EXCEPT ![e] = [of |-> {p}, show |-> p \notin public]]
    /\ UNCHANGED <<dvars, cached, shown, forced, plain, holder, bvars, older, late,
                   excused, faults>>

\* Mutant: only publishing asks for a refresh.
Schedule_OnPublish(e) ==
    /\ edit[e] = "saved"
    /\ edit' = [edit EXCEPT ![e] = "asked"]
    /\ forced' = IF draft[e].show /\ Queued < MaxQueue THEN forced + 1 ELSE forced
    /\ UNCHANGED <<dvars, draft, cached, shown, plain, holder, bvars, older, late,
                   excused, faults>>

\* _schedule_snapshot_refresh: the task is queued at once, the transaction still
\* open; "best-effort": a queue that does not take it is ignored.
Schedule(e) ==
    /\ edit[e] = "saved"
    /\ edit' = [edit EXCEPT ![e] = "asked"]
    /\ \/ Queued < MaxQueue /\ forced' = forced + 1 /\ UNCHANGED <<excused, faults>>
       \/ /\ faults < MaxFaults /\ faults' = faults + 1
          /\ excused' = TRUE
          /\ UNCHANGED forced
    /\ UNCHANGED <<dvars, draft, cached, shown, plain, holder, bvars, older, late>>

\* The request is answered and its transaction committed.  A view that has read
\* already will store the project as it was.
Commit(e) ==
    /\ edit[e] = "asked" /\ changes < MaxChanges
    /\ public' = IF draft[e].show THEN public \cup draft[e].of ELSE public \ draft[e].of
    /\ excused' = (excused \/ \E b \in Views : pc[b] = "storing")
    /\ changes' = changes + 1
    /\ edit' = [edit EXCEPT ![e] = "idle"]
    /\ draft' = [draft EXCEPT ![e] = NoDraft]
    /\ UNCHANGED <<graph, cached, shown, forced, plain, holder, bvars, older, late, faults>>

\* Mutant: a request that fails keeps its transaction open.
Rollback_Open(e) ==
    /\ edit[e] \in {"saved", "asked"}
    /\ edit' = [edit EXCEPT ![e] = "idle"]
    /\ UNCHANGED <<dvars, draft, cached, shown, forced, plain, holder, bvars, older, late,
                   excused, faults>>

\* The request fails after all: nothing is committed, the task stays queued.
Rollback(e) ==
    /\ edit[e] \in {"saved", "asked"}
    /\ edit' = [edit EXCEPT ![e] = "idle"]
    /\ draft' = [draft EXCEPT ![e] = NoDraft]
    /\ UNCHANGED <<dvars, cached, shown, forced, plain, holder, bvars, older, late,
                   excused, faults>>

\* An import brings in a project; its hook refreshes like any view (Refresh).
Import(p) ==
    /\ p \notin graph /\ changes < MaxChanges
    /\ graph' = graph \cup {p}
    /\ changes' = changes + 1
    /\ UNCHANGED <<public, edit, draft, cached, shown, forced, plain, holder, bvars,
                   older, late, excused, faults>>

-----------------------------------------------------------------------------
(* The warming task *)

\* A web process starts, or staff ask for a warming or a refresh.
Queue ==
    /\ Queued < MaxQueue
    /\ \/ plain' = plain + 1 /\ UNCHANGED forced
       \/ forced' = forced + 1 /\ UNCHANGED plain
    /\ UNCHANGED <<dvars, edit, draft, cached, shown, holder, bvars, older, late,
                   excused, faults>>

\* Mutant: the lock key is set, not added.
Acquire_Set(w, l) == holder' = w /\ Goto(w, l)

\* cache.add of the lock; without it, "Skipped: already warming".
Acquire(w, l) ==
    IF holder = "nobody"
    THEN holder' = w /\ Goto(w, l)
    ELSE UNCHANGED <<holder, pc>>

\* A forced task does no good before its request has committed, or when skipped.
Vain == holder # "nobody" \/ \E e \in Editors : edit[e] = "asked"

\* warm_cross_institutional_projects_cache, with force_refresh or without.
Take(w) ==
    /\ pc[w] = "idle"
    /\ \/ /\ forced > 0 /\ forced' = forced - 1
          /\ Acquire(w, "fetching")
          /\ excused' = (excused \/ Vain)
          /\ UNCHANGED plain
       \/ /\ plain > 0 /\ plain' = plain - 1
          /\ Acquire(w, "looking")
          /\ UNCHANGED <<forced, excused>>
    /\ UNCHANGED <<dvars, edit, draft, cached, shown, read, older, late, faults>>

\* refresh_projects_cache_periodic, every twenty minutes.
Periodic(w) ==
    /\ pc[w] = "idle"
    /\ Acquire(w, "fetching")
    /\ UNCHANGED <<dvars, edit, draft, cached, shown, forced, plain, read, older, late,
                   excused, faults>>

-----------------------------------------------------------------------------
(* Building: get_cross_institutional_snapshot, refresh_... *)

\* A view needs the snapshot, or the importer's hook and the record lookup of a
\* harvest refresh it outright.
View(b) ==
    /\ b \in Views /\ pc[b] = "idle"
    /\ \E l \in {"looking", "fetching"} : Goto(b, l)
    /\ UNCHANGED <<dvars, edit, draft, cached, shown, forced, plain, holder, read, older,
                   late, excused, faults>>

Finished(b) == IF b \in Workers THEN "releasing" ELSE "idle"

\* A cached snapshot is taken as it is.
Look(b) ==
    /\ pc[b] = "looking"
    /\ Goto(b, IF cached THEN Finished(b) ELSE "fetching")
    /\ UNCHANGED <<dvars, edit, draft, cached, shown, forced, plain, holder, read, older,
                   late, excused, faults>>

\* _fetch_cross_institutional_graph and the records of its projects.
Fetch(b) ==
    /\ pc[b] = "fetching"
    /\ read' = [read EXCEPT ![b] = graph]
    /\ Goto(b, "filtering")
    /\ UNCHANGED <<dvars, edit, draft, cached, shown, forced, plain, holder, older, late,
                   excused, faults>>

\* _filter_public_projects: a second look at the database.
Filter(b) ==
    /\ pc[b] = "filtering"
    /\ read' = [read EXCEPT ![b] = @ \cap public]
    /\ Goto(b, "storing")
    /\ UNCHANGED <<dvars, edit, draft, cached, shown, forced, plain, holder, older, late,
                   excused, faults>>

\* Builders that had read when b stored; b itself starts anew.
Outdated(b) == {c \in Builders \ {b} : pc[c] \in {"filtering", "storing"}}

\* set_cross_institutional_snapshot; a store that fails is logged.
Store(b) ==
    /\ pc[b] = "storing"
    /\ \/ cached' = TRUE /\ shown' = read[b] /\ UNCHANGED <<faults, excused>>
       \/ /\ faults < MaxFaults /\ faults' = faults + 1
          /\ excused' = TRUE
          /\ UNCHANGED <<cached, shown>>
    /\ older' = (older \ {b}) \cup (IF b \in Workers THEN Outdated(b) ELSE {})
    /\ read' = [read EXCEPT ![b] = {}]
    /\ Goto(b, Finished(b))
    /\ UNCHANGED <<dvars, edit, draft, forced, plain, holder, late>>

\* finally: the key is deleted, whoever's it is by now.
Release(w) ==
    /\ pc[w] = "releasing"
    /\ holder' = "nobody"
    /\ Goto(w, "idle")
    /\ UNCHANGED <<dvars, edit, draft, cached, shown, forced, plain, read, older, late,
                   excused, faults>>

\* The translation raises: finally still releases.
Fail(b) ==
    /\ pc[b] \in {"fetching", "filtering"} /\ faults < MaxFaults
    /\ faults' = faults + 1
    /\ read' = [read EXCEPT ![b] = {}]
    /\ older' = older \ {b} /\ excused' = TRUE
    /\ Goto(b, Finished(b))
    /\ UNCHANGED <<dvars, edit, draft, cached, shown, forced, plain, holder, late>>

\* The process dies; its lock stays.
Die(b) ==
    /\ pc[b] # "idle" /\ faults < MaxFaults
    /\ faults' = faults + 1
    /\ read' = [read EXCEPT ![b] = {}]
    /\ older' = older \ {b} /\ excused' = TRUE
    /\ Goto(b, "idle")
    /\ UNCHANGED <<dvars, edit, draft, cached, shown, forced, plain, holder, late>>

\* Mutant: the lock has no timeout.
Timeout_Never == FALSE /\ UNCHANGED vars

\* Five minutes are over.
Timeout ==
    /\ holder # "nobody"
    /\ holder' = "nobody"
    /\ late' = (late \/ pc[holder] # "idle")
    /\ excused' = (excused \/ pc[holder] # "idle")
    /\ UNCHANGED <<dvars, edit, draft, cached, shown, forced, plain, bvars, older, faults>>

\* clear_cache, or the thirty days of the key are over.
Evict ==
    /\ cached
    /\ cached' = FALSE /\ shown' = {}
    /\ UNCHANGED <<dvars, edit, draft, forced, plain, holder, bvars, older, late,
                   excused, faults>>

Build(b) == Look(b) \/ Fetch(b) \/ Filter(b) \/ Store(b)

Next ==
    \/ \E e \in Editors : \E p \in Projects : Save(e, p)
    \/ \E e \in Editors : Schedule(e) \/ Commit(e) \/ Rollback(e)
    \/ \E p \in Projects : Import(p)
    \/ Queue \/ Timeout \/ Evict
    \/ \E w \in Workers : Take(w) \/ Periodic(w) \/ Release(w)
    \/ \E b \in Builders : View(b) \/ Build(b) \/ Fail(b) \/ Die(b)

Spec == Init /\ [][Next]_vars

\* Builds and requests get on, the lock expires, and of the periodic refreshes
\* that find the lock free again and again some are run.
Fairness ==
    /\ \A b \in Builders : WF_vars(Build(b))
    /\ \A w \in Workers : WF_vars(Release(w))
    /\ WF_vars(Timeout)
    /\ SF_vars(\E w \in Workers : Periodic(w))

FairSpec == Spec /\ Fairness

-----------------------------------------------------------------------------
(* Properties *)

\* What the warming lock is for: no warming is at work on what it read before
\* another warming stored, unless its five minutes ran out.
WarmingsAreOrdered == ~late => older \cap Workers = {}

\* "Revert a project back to restricted workspace visibility": once nothing is
\* queued or being built, the snapshot shows no project that is not public,
\* unless the refresh its request asked for ran before the commit, found a
\* warming under way, failed, or was undone by a view that had read before.
UnpublishedIsGone ==
    /\ ~excused /\ forced = 0
    /\ \A e \in Editors : edit[e] = "idle"
    /\ \A b \in Builders : pc[b] \in {"idle", "releasing"}
    => shown \subseteq public

\* However the refreshes of single changes fared, the periodic one brings the
\* snapshot up to date in the end.
SnapshotCatchesUp == <>[](cached => shown = graph \cap public)
=============================================================================
