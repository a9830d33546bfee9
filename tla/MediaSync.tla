------------------------------ MODULE MediaSync ------------------------------
(***************************************************************************)
(* Curated media links and OAI approvals of one institution that is not    *)
(* harvested from S3 (arkumu/oaipmh): the job                              *)
(* run_media_link_seed_and_sync_job and the command media_links_sync seed  *)
(* the links of each project from its record and then approve the projects *)
(* that have some.  Both halves process what changed since a watermark     *)
(* that is written when they end.  Staff edit links and approvals          *)
(* meanwhile, and several runs may be under way: nothing keeps a second    *)
(* job from being started.                                                 *)
(*                                                                         *)
(* The links of a project are one link; a request is one step.             *)
(***************************************************************************)
EXTENDS Naturals, FiniteSets

CONSTANTS
    Projects,       \* the projects of project_queryset_for_org
    Workers,        \* runs that may be under way
    MaxRuns,        \* bound: runs
    MaxChanges,     \* bound: edits
    MaxFaults       \* bound: runs that die, projects that fail

MediaSyncAssumption ==
    /\ IsFiniteSet(Projects)
    /\ MaxRuns \in Nat /\ MaxChanges \in Nat /\ MaxFaults \in Nat

VARIABLES
    media,          \* projects whose record has digital objects
    link,           \* OAIProjectMediaLink of a project
    pub,            \* OAIProjectPublication of a project
    seeded,         \* last_seed_at is set
    synced,         \* last_publication_sync_at is set
    newSeed,        \* projects updated, or whose link was, after last_seed_at
    newPub,         \* projects updated, or whose publication was, after
                    \* last_publication_sync_at
    missed,         \* ghost: changed since their link was seeded, and not in newSeed
    pc,             \* where each run is
    force,          \* force_full_refresh of a run
    only,           \* --approvals-only
    todo,           \* candidates it has still to process
    read,           \* what it has read of the project it is at
    harvestable,    \* harvestable_ids
    behind,         \* ghost: projects changed since a run decided about them
    calm,           \* ghost: nothing changed but by the run itself since it began
    runs, changes, faults

dvars == <<link, pub, seeded, synced, newSeed, newPub, missed, behind, calm>>
wvars == <<pc, force, only, todo, read, harvestable, runs>>
vars == <<media, dvars, wvars, changes, faults>>

Nobody == [at |-> {}, has |-> FALSE]

Busy == {"planning", "seeding", "upserting", "gathering", "publishing", "reporting"}

TypeOK ==
    /\ media \subseteq Projects
    /\ link \in [Projects -> {"none", "fresh", "stale"}]
    /\ pub \in [Projects -> {"absent", "pending", "approved"}]
    /\ seeded \in BOOLEAN /\ synced \in BOOLEAN
    /\ newSeed \subseteq Projects /\ newPub \subseteq Projects /\ missed \subseteq Projects
    /\ pc \in [Workers -> {"idle"} \cup Busy]
    /\ force \in [Workers -> BOOLEAN] /\ only \in [Workers -> BOOLEAN]
    /\ todo \in [Workers -> SUBSET Projects]
    /\ read \in [Workers -> [at : SUBSET Projects, has : BOOLEAN]]
    /\ harvestable \in [Workers -> SUBSET Projects]
    /\ behind \in [Workers -> SUBSET Projects] /\ calm \in [Workers -> BOOLEAN]
    /\ runs \in 0..MaxRuns /\ changes \in 0..MaxChanges /\ faults \in 0..MaxFaults
    /\ \A w \in Workers : (todo[w] # {} => pc[w] \in {"seeding", "upserting", "publishing"})
                          /\ (read[w] # Nobody => pc[w] = "upserting")

Init ==
    /\ media \in SUBSET Projects
    /\ link = [p \in Projects |-> "none"] /\ pub = [p \in Projects |-> "absent"]
    /\ seeded = FALSE /\ synced = FALSE
    /\ newSeed = Projects /\ newPub = Projects /\ missed = {}
    /\ pc = [w \in Workers |-> "idle"]
    /\ force = [w \in Workers |-> FALSE] /\ only = [w \in Workers |-> FALSE]
    /\ todo = [w \in Workers |-> {}]
    /\ read = [w \in Workers |-> Nobody]
    /\ harvestable = [w \in Workers |-> {}]
    /\ behind = [w \in Workers |-> {}] /\ calm = [w \in Workers |-> TRUE]
    /\ runs = 0 /\ changes = 0 /\ faults = 0

-----------------------------------------------------------------------------
(* Edits *)

\* The runs in S are not alone.
Disturbed(S) == calm' = [w \in Workers |-> calm[w] /\ (w \notin S \/ pc[w] \notin Busy)]

\* The seeding runs that have decided about p already will not see its change.
Behind(p) ==
    behind' = [w \in Workers |-> IF pc[w] \in {"seeding", "upserting"} /\ p \notin todo[w]
                                 THEN behind[w] \cup {p} ELSE behind[w]]

Changing ==
    /\ changes < MaxChanges /\ changes' = changes + 1
    /\ Disturbed(Workers)
    /\ UNCHANGED <<seeded, synced, wvars, faults>>

\* The digital objects of a project change, with the row of the project or,
\* when they belong to one of its events, without.
Edit(p, touched) ==
    /\ Changing
    /\ media' = IF p \in media THEN media \ {p} ELSE media \cup {p}
    /\ newSeed' = IF touched THEN newSeed \cup {p} ELSE newSeed
    /\ newPub' = IF touched THEN newPub \cup {p} ELSE newPub
    /\ missed' = IF touched THEN missed ELSE missed \cup {p}
    /\ Behind(p)
    /\ UNCHANGED <<link, pub>>

\* oai_media_link_update with clear_stale, oai_media_link_add and _add_bulk
\* (which also creates the publication).
Curate(p, bulk) ==
    /\ Changing
    /\ link[p] # "fresh" /\ (bulk => link[p] = "none")
    /\ link' = [link EXCEPT ![p] = "fresh"]
    /\ newSeed' = newSeed \cup {p}
    /\ Behind(p)
    /\ LET creates == bulk /\ pub[p] = "absent"
       IN  /\ pub' = IF creates THEN [pub EXCEPT ![p] = "pending"] ELSE pub
           /\ newPub' = IF creates THEN newPub \cup {p} ELSE newPub
    /\ UNCHANGED <<media, missed>>

\* oai_media_link_delete
Remove(p) ==
    /\ Changing
    /\ link[p] # "none"
    /\ link' = [link EXCEPT ![p] = "none"]
    /\ UNCHANGED <<media, pub, newSeed, newPub, missed, behind>>

\* oai_project_status_update
Decide(p, verdict) ==
    /\ Changing
    /\ pub' = [pub EXCEPT ![p] = verdict]
    /\ newPub' = newPub \cup {p}
    /\ UNCHANGED <<media, link, newSeed, missed, behind>>

\* oai_media_link_clear_data: links and publications go, the watermarks stay.
ClearData ==
    /\ Changing
    /\ link' = [p \in Projects |-> "none"] /\ pub' = [p \in Projects |-> "absent"]
    /\ UNCHANGED <<media, newSeed, newPub, missed, behind>>

-----------------------------------------------------------------------------
(* Runs *)

\* A worker takes a job, whose state in the cache says whether it is a full
\* refresh, or the command is called, which may ask for approvals only.
Start(w) ==
    /\ pc[w] = "idle"
    /\ runs < MaxRuns /\ runs' = runs + 1
    /\ \E full, approvals \in BOOLEAN :
         /\ pc' = [pc EXCEPT ![w] = IF approvals THEN "gathering" ELSE "planning"]
         /\ force' = [force EXCEPT ![w] = full] /\ only' = [only EXCEPT ![w] = approvals]
    /\ calm' = [calm EXCEPT ![w] = TRUE]
    /\ UNCHANGED <<media, link, pub, seeded, synced, newSeed, newPub, missed, behind, todo, read,
                   harvestable, changes, faults>>

Leave(w) ==
    /\ pc' = [pc EXCEPT ![w] = "idle"]
    /\ force' = [force EXCEPT ![w] = FALSE] /\ only' = [only EXCEPT ![w] = FALSE]
    /\ todo' = [todo EXCEPT ![w] = {}] /\ read' = [read EXCEPT ![w] = Nobody]
    /\ harvestable' = [harvestable EXCEPT ![w] = {}]
    /\ behind' = [behind EXCEPT ![w] = {}]
    /\ UNCHANGED <<media, link, pub, seeded, synced, newSeed, newPub, missed, calm, runs, changes>>

\* The run is over.
Report(w) == pc[w] = "reporting" /\ Leave(w) /\ UNCHANGED faults

\* A statement fails, which ends the run, or its process dies.
Fail(w) ==
    /\ pc[w] \in Busy
    /\ faults < MaxFaults /\ faults' = faults + 1
    /\ Leave(w)

-----------------------------------------------------------------------------
(* _run_media_link_seed *)

Working == UNCHANGED <<media, force, only, runs, changes>>

\* Mutant: last_seed_at is written before the projects are processed.
Plan_Watermark(w) ==
    /\ pc[w] = "planning"
    /\ todo' = [todo EXCEPT ![w] =
                  IF force[w] \/ ~seeded THEN Projects
                  ELSE newSeed \cup {p \in Projects : link[p] = "none"}]
    /\ seeded' = TRUE /\ newSeed' = {}
    /\ pc' = [pc EXCEPT ![w] = "seeding"]
    /\ UNCHANGED <<link, pub, synced, newPub, missed, behind, calm, read, harvestable, faults>>
    /\ Working

\* collect_seed_candidate_ids
Plan(w) ==
    /\ pc[w] = "planning"
    /\ todo' = [todo EXCEPT ![w] =
                  IF force[w] \/ ~seeded THEN Projects
                  ELSE newSeed \cup {p \in Projects : link[p] = "none"}]
    /\ pc' = [pc EXCEPT ![w] = "seeding"]
    /\ UNCHANGED <<dvars, read, harvestable, faults>>
    /\ Working

\* sync_project assembles the record ...
Assemble(w) ==
    /\ pc[w] = "seeding"
    /\ \E p \in todo[w] :
         /\ read' = [read EXCEPT ![w] = [at |-> {p}, has |-> p \in media]]
         /\ todo' = [todo EXCEPT ![w] = @ \ {p}]
    /\ pc' = [pc EXCEPT ![w] = "upserting"]
    /\ UNCHANGED <<dvars, harvestable, faults>>
    /\ Working

\* ... or cannot ("skipped"), and the run goes on ...
Skip(w) ==
    /\ pc[w] = "seeding"
    /\ faults < MaxFaults /\ faults' = faults + 1
    /\ \E p \in todo[w] :
         /\ todo' = [todo EXCEPT ![w] = @ \ {p}]
         /\ behind' = [behind EXCEPT ![w] = @ \cup {p}]
    /\ calm' = [calm EXCEPT ![w] = FALSE]
    /\ UNCHANGED <<link, pub, seeded, synced, newSeed, newPub, missed, pc, read, harvestable>>
    /\ Working

\* _upsert_links and _mark_project_stale
Seed(p, has) ==
    IF has THEN "fresh" ELSE IF link[p] = "none" THEN "none" ELSE "stale"

\* ... and writes the links.  What changed since the record was assembled is
\* missed, also by the other runs.
Upsert(w) ==
    /\ pc[w] = "upserting"
    /\ \E p \in read[w].at :
         LET new == Seed(p, read[w].has)
         IN  /\ link' = [link EXCEPT ![p] = new]
             /\ newSeed' = IF new # link[p] THEN newSeed \cup {p} ELSE newSeed
             /\ missed' = IF read[w].has = (p \in media) THEN missed \ {p} ELSE missed \cup {p}
             /\ behind' = [v \in Workers |-> IF read[w].has = (p \in media)
                                             THEN behind[v] \ {p} ELSE behind[v]]
    /\ Disturbed(Workers \ {w})
    /\ read' = [read EXCEPT ![w] = Nobody]
    /\ pc' = [pc EXCEPT ![w] = "seeding"]
    /\ UNCHANGED <<pub, seeded, synced, newPub, todo, harvestable, faults>>
    /\ Working

\* last_seed_at = now
Seeded(w) ==
    /\ pc[w] = "seeding" /\ todo[w] = {}
    /\ seeded' = TRUE /\ newSeed' = {}
    /\ missed' = missed \cup behind[w]
    /\ behind' = [behind EXCEPT ![w] = {}]
    /\ pc' = [pc EXCEPT ![w] = "gathering"]
    /\ UNCHANGED <<link, pub, synced, newPub, calm, todo, read, harvestable, faults>>
    /\ Working

-----------------------------------------------------------------------------
(* _sync_oai_publication_for_org *)

Linked == {p \in Projects : link[p] # "none"}

\* Mutant: only what changed is a candidate.
Candidates_New(w) == IF force[w] \/ ~synced THEN Projects ELSE newPub

\* collect_publication_candidate_ids, and every project with a link.
Candidates(w) == IF force[w] \/ ~synced THEN Projects ELSE newPub \cup Linked

Gather(w) ==
    /\ pc[w] = "gathering"
    /\ todo' = [todo EXCEPT ![w] = Candidates(w)]
    /\ harvestable' = [harvestable EXCEPT ![w] = {p \in Projects : link[p] = "fresh"}]
    /\ pc' = [pc EXCEPT ![w] = "publishing"]
    /\ UNCHANGED <<dvars, read, faults>>
    /\ Working

\* A project is approved when it was harvestable, or when the builder finds a
\* link now, stale or not, and else withdrawn.
Evaluate(w) ==
    /\ pc[w] = "publishing"
    /\ \E p \in todo[w] :
         LET new == IF p \in harvestable[w] \cup Linked THEN "approved" ELSE "pending"
         IN  /\ todo' = [todo EXCEPT ![w] = @ \ {p}]
             /\ pub' = [pub EXCEPT ![p] = new]
             /\ newPub' = IF new # pub[p] THEN newPub \cup {p} ELSE newPub
    /\ Disturbed(Workers \ {w})
    /\ UNCHANGED <<link, seeded, synced, newSeed, missed, behind, pc, read, harvestable, faults>>
    /\ Working

\* The record of a project that was not harvestable cannot be built: "errors".
Omit(w) ==
    /\ pc[w] = "publishing"
    /\ faults < MaxFaults /\ faults' = faults + 1
    /\ \E p \in todo[w] \ harvestable[w] : todo' = [todo EXCEPT ![w] = @ \ {p}]
    /\ calm' = [calm EXCEPT ![w] = FALSE]
    /\ UNCHANGED <<link, pub, seeded, synced, newSeed, newPub, missed, behind, pc, read,
                   harvestable>>
    /\ Working

\* last_publication_sync_at = now
Synced(w) ==
    /\ pc[w] = "publishing" /\ todo[w] = {}
    /\ synced' = TRUE /\ newPub' = {}
    /\ harvestable' = [harvestable EXCEPT ![w] = {}]
    /\ pc' = [pc EXCEPT ![w] = "reporting"]
    /\ UNCHANGED <<link, pub, seeded, newSeed, missed, behind, calm, todo, read, faults>>
    /\ Working

-----------------------------------------------------------------------------
Work(w) ==
    \/ Plan(w) \/ Assemble(w) \/ Skip(w) \/ Upsert(w) \/ Seeded(w)
    \/ Gather(w) \/ Evaluate(w) \/ Omit(w) \/ Synced(w) \/ Report(w)

Next ==
    \/ \E p \in Projects :
         \/ \E b \in BOOLEAN : Edit(p, b) \/ Curate(p, b)
         \/ Remove(p)
         \/ \E verdict \in {"pending", "approved"} : Decide(p, verdict)
    \/ ClearData
    \/ \E w \in Workers : Start(w) \/ Work(w) \/ Fail(w)

Spec == Init /\ [][Next]_vars

-----------------------------------------------------------------------------
(* Properties *)

\* "Incremental ... use watermarks to process only changes": once seeded, a
\* project that is not due again, because of its own row or of its link, has a
\* link that says what its record says, unless it was missed: it changed without
\* its row, or before the watermark that a run wrote which had decided about it
\* or had to skip it.
SeededIsCurrent ==
    \A p \in Projects \ (newSeed \cup missed) :
        seeded /\ link[p] # "none" => (link[p] = "fresh") = (p \in media)

\* A run that nothing came in between of leaves every project with media
\* approved, with a fresh link, and no fresh link without media.  An incremental
\* run may leave out the projects that were missed before it: they wait for a full
\* refresh, or for a change of their own.
CalmRunIsComplete ==
    \A w \in Workers : pc[w] = "reporting" /\ calm[w] /\ ~only[w] =>
        \A p \in Projects : force[w] \/ p \notin missed =>
            /\ p \in media => link[p] = "fresh" /\ pub[p] = "approved"
            /\ p \notin media => link[p] # "fresh"
=============================================================================
