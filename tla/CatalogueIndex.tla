---------------------------- MODULE CatalogueIndex ----------------------------
(***************************************************************************)
(* The catalogue's index of projects and the list of cards made from it.   *)
(* ProjectIndexDbService rebuilds the rows of ProjectIndex: institution by *)
(* institution in batches (_rebuild_streaming), or all at once from chosen *)
(* URIs, from the snapshot or from the whole graph (rebuild_from_graph).   *)
(* The command rebuild_project_index then drops the cards and reads them   *)
(* anew; the commands that link vocabularies, and a start with an empty    *)
(* index, do not.  Nothing keeps two rebuilds apart, and projects are      *)
(* published, imported and removed while they run.                         *)
(*                                                                         *)
(* Of a row only the visibility it was given is kept, and whether it has a *)
(* title.                                                                  *)
(***************************************************************************)
EXTENDS Naturals, FiniteSets

CONSTANTS
    Projects,
    Institutions,   \* the projects of each of DEFAULT_ORG_CODES
    Builders,       \* commands and processes that start
    LoadSize,       \* 50: projects loaded at a time
    WriteSize,      \* 50: rows written at a time
    MaxChanges,     \* bound: projects published, imported, removed; builders that die
    MaxJobs         \* bound: rebuilds and warmings

ASSUME CatalogueIndexAssumption ==
    /\ IsFiniteSet(Projects)
    /\ Institutions \subseteq SUBSET Projects
    /\ \A I, J \in Institutions : I # J => I \cap J = {}
    /\ LoadSize \in Nat \ {0} /\ WriteSize \in Nat \ {0}
    /\ MaxChanges \in Nat /\ MaxJobs \in Nat

VARIABLES
    stored,         \* projects with a Resource
    graph,          \* those of them that are typed as projects in the triple store
    public,         \* those that are public and approved
    titled,         \* projects with a title
    broken,         \* those whose record cannot be built from their triples
    row,            \* ProjectIndex: the visibility a project's row was given
    cards,          \* projects of the cached list; an empty list counts as none
    job,            \* what each builder is doing
    changed,        \* ghost: projects that changed since a builder began
    failed,         \* ghost: projects a builder met and could not process
    crowded,        \* ghost: builders that met another one
    changes, jobs

pvars == <<stored, graph, public, titled, broken>>
gvars == <<changed, failed, crowded>>
vars == <<pvars, row, cards, job, gvars, changes, jobs>>

Visibility == {"none", "hidden", "untitled", "shown"}
Rows == [Projects -> Visibility]
NoRows == [p \in Projects |-> "none"]

Streams == {"all", "institution"}
Gathers == {"uris", "snapshot", "whole"}
Prunes == {"all", "snapshot", "whole"}
Warms == Streams \cup {"uris", "snapshot", "refresh", "warm"}

Job == [kind : Warms \cup {"whole", "none"},
        pc : {"idle", "listing", "reading", "processing", "pruning", "gathering", "writing",
              "dropping", "fetching", "putting", "done"},
        ahead : SUBSET Institutions,    \* institutions still to be listed
        scope : SUBSET Projects,        \* what a rebuild at once is about
        todo : SUBSET Projects,         \* projects listed and not yet loaded
        fresh : Rows,                   \* rows made from the batch just loaded
        buffer : Rows,                  \* batch_rows of _rebuild_streaming
        seen : SUBSET Projects,         \* seen_ids
        read : SUBSET Projects,         \* cards read and not yet stored
        heeded : BOOLEAN]               \* ghost: the cache took one of its calls

NoJob == [kind |-> "none", pc |-> "idle", ahead |-> {}, scope |-> {}, todo |-> {},
          fresh |-> NoRows, buffer |-> NoRows, seen |-> {}, read |-> {},
          heeded |-> FALSE]

TypeOK ==
    /\ graph \subseteq stored /\ public \subseteq stored /\ stored \subseteq Projects
    /\ titled \subseteq Projects /\ broken \subseteq Projects
    /\ row \in Rows /\ \A p \in Projects \ stored : row[p] = "none"
    /\ cards \subseteq Projects
    /\ job \in [Builders -> Job]
    /\ changed \in [Builders -> SUBSET Projects]
    /\ failed \in [Builders -> SUBSET Projects]
    /\ crowded \subseteq Builders
    /\ changes \in 0..MaxChanges /\ jobs \in 0..MaxJobs

Init ==
    /\ stored = Projects /\ graph = Projects /\ public \in SUBSET Projects
    /\ titled \in SUBSET Projects /\ broken \in SUBSET Projects
    /\ row = NoRows /\ cards = {}
    /\ job = [b \in Builders |-> NoJob]
    /\ changed = [b \in Builders |-> {}]
    /\ failed = [b \in Builders |-> {}]
    /\ crowded = {}
    /\ changes = 0 /\ jobs = 0

Visible(p) ==
    IF p \notin public THEN "hidden" ELSE IF p \in titled THEN "shown" ELSE "untitled"
Has(rs) == {p \in Projects : rs[p] # "none"}
Made(S) == [p \in Projects |-> IF p \in S \ broken THEN Visible(p) ELSE "none"]
Only(rs, S) == [p \in Projects |-> IF p \in S THEN rs[p] ELSE "none"]
Upsert(rs, new) == [p \in Projects |-> IF new[p] = "none" THEN rs[p] ELSE new[p]]

Active == {b \in Builders : job[b].pc # "idle"}

-----------------------------------------------------------------------------
(* What the index is made from *)

Change(p) ==
    /\ changes < MaxChanges /\ changes' = changes + 1
    /\ changed' = [b \in Builders |-> IF b \in Active THEN changed[b] \cup {p} ELSE {}]
    /\ UNCHANGED <<job, failed, crowded, jobs>>

\* publish_project_workspace, unpublish_project_workspace: neither the row nor
\* the cards are told.
Publish(p) ==
    /\ p \in stored
    /\ public' = IF p \in public THEN public \ {p} ELSE public \cup {p}
    /\ Change(p)
    /\ UNCHANGED <<stored, graph, titled, broken, row, cards>>

\* An import brings a project in, or a row of another table loses its type.
Retype(p) ==
    /\ graph' = IF p \in graph THEN graph \ {p} ELSE graph \cup {p}
    /\ stored' = stored \cup {p}
    /\ Change(p)
    /\ UNCHANGED <<public, titled, broken, row, cards>>

\* An import sets or clears its title.
Retitle(p) ==
    /\ p \in stored
    /\ titled' = IF p \in titled THEN titled \ {p} ELSE titled \cup {p}
    /\ Change(p)
    /\ UNCHANGED <<stored, graph, public, broken, row, cards>>

\* Mutant: the row of a deleted resource stays (DO_NOTHING).
Remove_Keeps(p) ==
    /\ p \in stored
    /\ stored' = stored \ {p} /\ graph' = graph \ {p} /\ public' = public \ {p}
    /\ Change(p)
    /\ UNCHANGED <<titled, broken, row, cards>>

\* The resource is deleted, and its row with it (on_delete=CASCADE).
Remove(p) ==
    /\ p \in stored
    /\ stored' = stored \ {p} /\ graph' = graph \ {p} /\ public' = public \ {p}
    /\ row' = [row EXCEPT ![p] = "none"]
    /\ Change(p)
    /\ UNCHANGED <<titled, broken, cards>>

-----------------------------------------------------------------------------
(* Rebuilds *)

Started(b) ==
    {[NoJob EXCEPT !.kind = "all", !.pc = "listing", !.ahead = Institutions]}
    \cup {[NoJob EXCEPT !.kind = "institution", !.pc = "listing", !.ahead = {I}] :
            I \in Institutions}
    \cup {[NoJob EXCEPT !.kind = "uris", !.pc = "gathering", !.scope = {p}] :
            p \in Projects}
    \cup {[NoJob EXCEPT !.kind = k, !.pc = "gathering", !.scope = Projects] :
            k \in {"snapshot", "whole"}}
    \cup {[NoJob EXCEPT !.kind = "refresh", !.pc = "dropping"],
          [NoJob EXCEPT !.kind = "warm", !.pc = "fetching"]}

\* A command or a process that starts.
Begin(b) ==
    /\ job[b].pc = "idle" /\ jobs < MaxJobs
    /\ \E j \in Started(b) : job' = [job EXCEPT ![b] = j]
    /\ jobs' = jobs + 1
    /\ changed' = [changed EXCEPT ![b] = {}]
    /\ failed' = [failed EXCEPT ![b] = {}]
    /\ crowded' = IF Active = {} THEN {} ELSE crowded \cup Active \cup {b}
    /\ UNCHANGED <<pvars, row, cards, changes>>

End(b) ==
    /\ job' = [job EXCEPT ![b] = NoJob]
    /\ UNCHANGED <<pvars, row, cards, gvars, changes, jobs>>

\* get_all_project_graphs_batched looks up the projects of the next institution.
List(b) ==
    /\ job[b].pc = "listing"
    /\ \E I \in job[b].ahead :
         job' = [job EXCEPT ![b].ahead = @ \ {I}, ![b].todo = I \cap graph, ![b].pc = "reading"]
    /\ UNCHANGED <<pvars, row, cards, gvars, changes, jobs>>

\* A batch is loaded, its resources with their visibility (in_bulk); a project
\* whose resource is gone or whose record cannot be built is left out.
Load(b) ==
    /\ job[b].pc = "reading" /\ job[b].todo # {}
    /\ \E batch \in SUBSET job[b].todo :
         /\ batch = job[b].todo \/ Cardinality(batch) = LoadSize
         /\ Cardinality(batch) <= LoadSize
         /\ job' = [job EXCEPT ![b].todo = @ \ batch, ![b].pc = "processing",
                               ![b].fresh = Made(batch \cap stored)]
         /\ failed' = [failed EXCEPT ![b] = @ \cup (batch \ Has(Made(batch \cap stored)))]
    /\ UNCHANGED <<pvars, row, cards, changed, crowded, changes, jobs>>

\* _process_streaming_batch appends the rows to batch_rows and writes them when
\* there are enough.  The write gives _rebuild_streaming a new list and this call
\* goes on with the old one: what it appends after that is never written.  A
\* write that fails, for a resource deleted meanwhile, is logged and leaves all
\* in the list; the next row to be appended has it tried again.
Process(b) ==
    LET fresh == job[b].fresh
        all == Upsert(job[b].buffer, fresh)
        room == WriteSize - Cardinality(Has(job[b].buffer))
        Kept(left, rs, unwritten) ==
            /\ job' = [job EXCEPT ![b].buffer = left, ![b].seen = @ \cup Has(fresh),
                                  ![b].fresh = NoRows, ![b].pc = "reading"]
            /\ row' = rs
            /\ failed' = [failed EXCEPT ![b] = @ \cup unwritten]
    IN  /\ job[b].pc = "processing"
        /\ IF fresh = NoRows \/ Cardinality(Has(all)) < WriteSize
           THEN Kept(all, row, {})
           ELSE \E S \in SUBSET Has(fresh) :
                  LET out == Upsert(job[b].buffer, Only(fresh, S))
                  IN  /\ Cardinality(S) = IF room < 1 THEN 1 ELSE room
                      /\ IF Has(out) \subseteq stored
                         THEN Kept(NoRows, Upsert(row, out), {})
                         ELSE Kept(all, row, Has(out) \ stored)
        /\ UNCHANGED <<pvars, cards, changed, crowded, changes, jobs>>

AfterStream(j) ==
    IF j.ahead # {} THEN "listing" ELSE IF j.kind \in Prunes THEN "pruning" ELSE "dropping"

\* Mutant: what is left of an institution is not written.
Flush_Not(b) ==
    /\ job[b].pc = "reading" /\ job[b].todo = {}
    /\ job' = [job EXCEPT ![b].buffer = NoRows, ![b].pc = AfterStream(job[b])]
    /\ UNCHANGED <<pvars, row, cards, gvars, changes, jobs>>

\* "Flush remaining after each org": a failure ends the command.
Flush(b) ==
    /\ job[b].pc = "reading" /\ job[b].todo = {}
    /\ IF Has(job[b].buffer) \subseteq stored
       THEN /\ row' = Upsert(row, job[b].buffer)
            /\ job' = [job EXCEPT ![b].buffer = NoRows, ![b].pc = AfterStream(job[b])]
       ELSE /\ job' = [job EXCEPT ![b] = NoJob]
            /\ UNCHANGED row
    /\ UNCHANGED <<pvars, cards, gvars, changes, jobs>>

\* Rows of no project seen are deleted, unless none was.
Prune(b) ==
    /\ job[b].pc = "pruning"
    /\ row' = IF job[b].seen = {} THEN row ELSE Only(row, job[b].seen)
    /\ job' = [job EXCEPT ![b].pc = "dropping"]
    /\ UNCHANGED <<pvars, cards, gvars, changes, jobs>>

\* The records of URIs, of the snapshot or of the whole graph, and their
\* resources; a graph without projects ends rebuild_from_graph.
Gather(b) ==
    /\ job[b].pc = "gathering"
    /\ LET found == job[b].scope \cap graph
           made == Made(found)
       IN  /\ job' = [job EXCEPT ![b].fresh = made, ![b].seen = Has(made),
                                 ![b].pc = IF job[b].kind = "whole" /\ found = {}
                                           THEN "done" ELSE "writing"]
           /\ failed' = [failed EXCEPT ![b] = found \ Has(made)]
    /\ UNCHANGED <<pvars, row, cards, changed, crowded, changes, jobs>>

\* Mutant: every rebuild prunes.
Pruned_Always(rs, j) == Only(rs, j.seen)

\* prune_missing; without a single record all rows go.
Pruned(rs, j) == IF j.kind \in Prunes THEN Only(rs, j.seen) ELSE rs

\* One transaction; a resource deleted meanwhile makes it fail.
WriteAll(b) ==
    /\ job[b].pc = "writing"
    /\ IF Has(job[b].fresh) \subseteq stored
       THEN /\ row' = Pruned(Upsert(row, job[b].fresh), job[b])
            /\ job' = [job EXCEPT ![b].fresh = NoRows,
                                  ![b].pc = IF job[b].kind \in Warms THEN "dropping" ELSE "done"]
       ELSE /\ job' = [job EXCEPT ![b] = NoJob]
            /\ UNCHANGED row
    /\ UNCHANGED <<pvars, cards, gvars, changes, jobs>>

-----------------------------------------------------------------------------
(* The cards.  The cache ignores its exceptions: a call may have no effect. *)

\* invalidate_cards_cache
Drop(b) ==
    /\ job[b].pc = "dropping"
    /\ \E heeded \in BOOLEAN :
         /\ cards' = IF heeded THEN {} ELSE cards
         /\ job' = [job EXCEPT ![b].pc = "fetching", ![b].heeded = heeded]
    /\ UNCHANGED <<pvars, row, gvars, changes, jobs>>

\* warm_cards_cache: the rows that are public and approved and have a title ...
Fetch(b) ==
    /\ job[b].pc = "fetching"
    /\ job' = [job EXCEPT ![b].pc = "putting",
                          ![b].read = {p \in Projects : row[p] = "shown"}]
    /\ UNCHANGED <<pvars, row, cards, gvars, changes, jobs>>

\* ... are stored, "No expiry - invalidate manually after rebuild".
Put(b) ==
    /\ job[b].pc = "putting"
    /\ \E heeded \in BOOLEAN :
         /\ cards' = IF heeded THEN job[b].read ELSE cards
         /\ job' = [job EXCEPT ![b].pc = "done", ![b].read = {}, ![b].heeded = @ \/ heeded]
    /\ UNCHANGED <<pvars, row, gvars, changes, jobs>>

\* An exception is logged, and the command ends as if the cards were stored.
WarmFails(b) ==
    /\ job[b].pc \in {"fetching", "putting"}
    /\ job' = [job EXCEPT ![b].pc = "done", ![b].read = {}]
    /\ UNCHANGED <<pvars, row, cards, gvars, changes, jobs>>

\* get_cards without filters: an empty list counts as none.
Listed == IF cards # {} THEN cards ELSE {p \in Projects : row[p] = "shown"}

Finish(b) == job[b].pc = "done" /\ End(b)

\* The process dies where it is.
Die(b) ==
    /\ job[b].pc \notin {"idle", "done"}
    /\ changes < MaxChanges /\ changes' = changes + 1
    /\ job' = [job EXCEPT ![b] = NoJob]
    /\ UNCHANGED <<pvars, row, cards, gvars, jobs>>

Next ==
    \/ \E p \in Projects : Publish(p) \/ Retype(p) \/ Retitle(p) \/ Remove(p)
    \/ \E b \in Builders : Begin(b) \/ Finish(b) \/ Die(b)
    \/ \E b \in Builders : List(b) \/ Load(b) \/ Process(b) \/ Flush(b) \/ Prune(b)
    \/ \E b \in Builders : Gather(b) \/ WriteAll(b) \/ Drop(b) \/ Fetch(b) \/ Put(b)
    \/ \E b \in Builders : WarmFails(b)

Spec == Init /\ [][Next]_vars

-----------------------------------------------------------------------------
(* Properties *)

Current(p) == IF p \in graph THEN Visible(p) ELSE "none"

Completed(b) == job[b].pc = "done" /\ job[b].kind = "all" /\ b \notin crowded

\* A full rebuild that met no other and could process its projects leaves the
\* row of each institution's project as the project is, whatever else was
\* imported, published or removed while it ran; and the catalogue lists the
\* project exactly if it is public, approved and has a title, unless the cache
\* heeded neither the deletion of the cards nor the new ones.  Rows are not
\* pruned by a rebuild that saw no project.
RebuiltIsCurrent ==
    \A b \in Builders : Completed(b) /\ failed[b] = {} /\ job[b].seen # {} =>
        \A p \in (UNION Institutions) \ changed[b] :
            /\ row[p] = Current(p)
            /\ job[b].heeded => (p \in Listed <=> Current(p) = "shown")

\* "For each batch: fetch graphs -> build records -> serialize RDF -> bulk
\* write": a project a full rebuild counts as done has its row.
CountedIsWritten ==
    \A b \in Builders : Completed(b) =>
        \A p \in job[b].seen \ changed[b] : row[p] = Current(p)

\* "Set False when rebuilding only a subset of orgs to avoid deleting other
\* orgs' indices": whichever rebuilds run together, a project keeps its row
\* unless a rebuild of everything could not process it or began before its last
\* change.
PruneSparesOthers ==
    [][\A p \in (UNION Institutions) \cap graph \cap graph' :
         row[p] # "none" /\ row'[p] = "none" =>
           \E b \in Builders : job[b].kind \in Prunes /\ p \in failed[b] \cup changed[b]]_vars
=============================================================================
