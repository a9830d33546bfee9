---------------------------- MODULE TailoredHarvest ----------------------------
(***************************************************************************)
(* The tailored feed (arkumu/oaipmh/views/tailored.py) and harvesters that *)
(* keep a copy of it up to date.  ListRecords reads the rows of            *)
(* OAIProjectPublication that are approved, oldest change first, in pages  *)
(* that go on after the last (updated_at, project_id) delivered; a signed  *)
(* token carries that cursor, the date the harvest starts from and a       *)
(* marker, the latest updated_at, that is compared with the current one in *)
(* a statement of its own.  Rows are saved by staff, in the transaction of *)
(* their request (ATOMIC_REQUESTS), and by synchronisations.               *)
(*                                                                         *)
(* A project is the id of a project of an active institution in the set    *)
(* that is asked for; time is counted in saves.                            *)
(***************************************************************************)
EXTENDS Naturals, FiniteSets

CONSTANTS
    Projects,       \* project_id
    Harvesters,
    Unready,        \* projects for whom no record can be built
    PageSize,       \* 10
    MaxClock,       \* bound: time
    MaxSaves,       \* bound: saves
    MaxLosses       \* bound: answers lost

TailoredHarvestAssumption ==
    /\ Projects \subseteq Nat \ {0} /\ IsFiniteSet(Projects)
    /\ Unready \subseteq Projects
    /\ PageSize \in Nat \ {0}
    /\ MaxClock \in Nat \ {0} /\ MaxSaves \in Nat /\ MaxLosses \in Nat

VARIABLES
    approved,       \* publications that are approved, as committed
    stamp,          \* updated_at of a publication, 0 without one
    open,           \* saves not yet committed
    clock,          \* time
    saves,          \* saves so far
    state,          \* where each harvester is
    from,           \* the date its harvest starts from
    begun,          \* when it sent its first request
    token,          \* cursor and marker of its token
    marker,         \* cursor_marker of the request in progress
    have,           \* its copy: the updated_at of what it received last
    got,            \* ghost: projects received in this harvest
    twice,          \* ghost: those received again in it
    changed,        \* ghost: publications that changed since it sent its first request
    hidden,         \* ghost: those whose change its token does not show
    slipped,        \* ghost: a change came between the marker and the page of a request
    late,           \* ghost: publications committed after a harvest began that began
                    \* after they were saved
    losses

pvars == <<approved, stamp, open, clock, saves, late>>
gvars == <<got, twice, changed, hidden, slipped>>
hvars == <<state, from, begun, token, marker, have, gvars, losses>>

\* What a change of a publication leaves alone.
kept == <<state, from, begun, token, marker, have, got, twice, losses>>
vars == <<pvars, hvars>>

Never == [at |-> 0, id |-> 0]

NoToken == [after |-> Never, marker |-> 0]

NoSave == [at |-> 0, show |-> FALSE]

Times == 0..MaxClock

Cursor == [at : Times, id : Projects \cup {0}]

TypeOK ==
    /\ approved \subseteq {p \in Projects : stamp[p] > 0}
    /\ stamp \in [Projects -> Times]
    /\ open \in [Projects -> [at : Times, show : BOOLEAN]]
    /\ clock \in 1..MaxClock /\ saves \in 0..MaxSaves
    /\ state \in [Harvesters -> {"idle", "asked", "marked", "waiting", "complete"}]
    /\ from \in [Harvesters -> Times] /\ begun \in [Harvesters -> Times]
    /\ token \in [Harvesters -> [after : Cursor, marker : Times]]
    /\ marker \in [Harvesters -> Times]
    /\ have \in [Harvesters -> [Projects -> Times]]
    /\ got \in [Harvesters -> SUBSET Projects]
    /\ twice \in [Harvesters -> SUBSET Projects]
    /\ changed \in [Harvesters -> SUBSET Projects]
    /\ hidden \in [Harvesters -> SUBSET Projects]
    /\ slipped \subseteq Harvesters
    /\ late \subseteq Harvesters \X Projects
    /\ losses \in 0..MaxLosses

Nothing == [p \in Projects |-> 0]

Init ==
    /\ approved = {} /\ stamp = Nothing /\ clock = 1 /\ saves = 0
    /\ open = [p \in Projects |-> NoSave]
    /\ state = [h \in Harvesters |-> "idle"]
    /\ from = [h \in Harvesters |-> 0] /\ begun = [h \in Harvesters |-> 0]
    /\ token = [h \in Harvesters |-> NoToken]
    /\ marker = [h \in Harvesters |-> 0]
    /\ have = [h \in Harvesters |-> Nothing]
    /\ got = [h \in Harvesters |-> {}] /\ twice = [h \in Harvesters |-> {}]
    /\ changed = [h \in Harvesters |-> {}] /\ hidden = [h \in Harvesters |-> {}]
    /\ slipped = {} /\ late = {} /\ losses = 0

-----------------------------------------------------------------------------
(* Publications *)

\* updated_at (auto_now) of a save: later than the last, or in the same instant.
Now(t) == t \in {clock, clock + 1} /\ t <= MaxClock

Saving(p) ==
    /\ open[p] = NoSave
    /\ saves < MaxSaves /\ saves' = saves + 1

\* A row changes under the harvests in progress.
Written(p, at) ==
    /\ changed' = [h \in Harvesters |->
                     IF state[h] = "idle" THEN changed[h] ELSE changed[h] \cup {p}]
    /\ hidden' = [h \in Harvesters |->
                    IF at > token[h].marker THEN hidden[h] ELSE hidden[h] \cup {p}]
    /\ slipped' = slipped \cup {h \in Harvesters : state[h] = "marked"}
    /\ late' = (late \ (Harvesters \X {p})) \cup ({h \in Harvesters : at < begun[h]} \X {p})

\* A synchronisation approves a publication or withdraws it (autocommit).
Save(p, show) ==
    /\ Saving(p)
    /\ \E t \in Times :
         /\ Now(t)
         /\ clock' = t /\ stamp' = [stamp EXCEPT ![p] = t]
         /\ Written(p, t)
    /\ approved' = IF show THEN approved \cup {p} ELSE approved \ {p}
    /\ UNCHANGED <<open, kept>>

\* Staff approve or revoke it: the save takes its time ...
Open(p, show) ==
    /\ Saving(p)
    /\ \E t \in Times :
         /\ Now(t)
         /\ clock' = t /\ open' = [open EXCEPT ![p] = [at |-> t, show |-> show]]
    /\ UNCHANGED <<approved, stamp, late, hvars>>

\* ... and is seen when the request ends.
Commit(p) ==
    /\ open[p] # NoSave
    /\ stamp' = [stamp EXCEPT ![p] = open[p].at]
    /\ approved' = IF open[p].show THEN approved \cup {p} ELSE approved \ {p}
    /\ open' = [open EXCEPT ![p] = NoSave]
    /\ Written(p, open[p].at)
    /\ UNCHANGED <<clock, saves, kept>>

\* oai_media_link_clear_data, or the project is deleted.
Delete(p) ==
    /\ open[p] = NoSave /\ stamp[p] > 0
    /\ stamp' = [stamp EXCEPT ![p] = 0] /\ approved' = approved \ {p}
    /\ Written(p, clock)
    /\ UNCHANGED <<open, clock, saves, kept>>

-----------------------------------------------------------------------------
(* Harvests *)

\* _approved_publications_queryset
Listed(h) == {p \in approved : stamp[p] >= from[h]}

Row(p) == [at |-> stamp[p], id |-> p]

Before(r, s) == r.at < s.at \/ (r.at = s.at /\ r.id < s.id)

\* _publication_dataset_marker: the latest updated_at, 0 for "empty".
Marker(h) ==
    IF Listed(h) = {} THEN 0
    ELSE stamp[CHOOSE p \in Listed(h) : \A q \in Listed(h) : stamp[q] <= stamp[p]]

\* A harvester asks for what changed since its last complete harvest began.
Begin(h) ==
    /\ state[h] = "idle"
    /\ state' = [state EXCEPT ![h] = "asked"]
    /\ begun' = [begun EXCEPT ![h] = clock]
    /\ UNCHANGED <<pvars, from, token, marker, have, gvars, losses>>

\* It goes on with the token it was given.
Resume(h) ==
    /\ state[h] = "waiting"
    /\ state' = [state EXCEPT ![h] = "asked"]
    /\ UNCHANGED <<pvars, from, begun, token, marker, have, gvars, losses>>

\* The harvest ends; its next one starts from since.
Stop(h, since) ==
    /\ state' = [state EXCEPT ![h] = "idle"]
    /\ from' = [from EXCEPT ![h] = since]
    /\ token' = [token EXCEPT ![h] = NoToken]
    /\ marker' = [marker EXCEPT ![h] = 0]
    /\ got' = [got EXCEPT ![h] = {}] /\ twice' = [twice EXCEPT ![h] = {}]
    /\ changed' = [changed EXCEPT ![h] = {}] /\ hidden' = [hidden EXCEPT ![h] = {}]
    /\ slipped' = slipped \ {h}
    /\ UNCHANGED <<pvars, begun, have, losses>>

\* Mutant: tokens are honoured whatever changed.
Accepted_Any(h) == TRUE

\* "Get marker for detecting dataset changes during pagination."
Accepted(h) == token[h] = NoToken \/ token[h].marker = Marker(h)

\* A request without a token, or with one whose marker is the current one ...
Admit(h) ==
    /\ state[h] = "asked" /\ Accepted(h)
    /\ state' = [state EXCEPT ![h] = "marked"]
    /\ marker' = [marker EXCEPT ![h] = Marker(h)]
    /\ UNCHANGED <<pvars, from, begun, token, have, gvars, losses>>

\* ... or "Dataset has changed; restart harvesting".
Refuse(h) == state[h] = "asked" /\ ~Accepted(h) /\ Stop(h, from[h])

\* Mutant: the cursor is the time alone.
Remaining_ByTime(h) == {p \in Listed(h) : token[h].after.at < stamp[p]}

\* _apply_publication_cursor
Remaining(h) == {p \in Listed(h) : Before(token[h].after, Row(p))}

\* _fetch_publication_page: the first of them, in order.
PageOf(h) == {p \in Remaining(h) :
                Cardinality({q \in Remaining(h) : Before(Row(q), Row(p))}) < PageSize}

\* batch = ordered[:page_size + 1]
HasMore(h) == Cardinality(Remaining(h)) > PageSize

\* "noRecordsMatch": there was nothing new.
Empty(h) ==
    /\ state[h] = "marked" /\ token[h] = NoToken /\ Remaining(h) = {}
    /\ state' = [state EXCEPT ![h] = "complete"]
    /\ UNCHANGED <<pvars, from, begun, token, marker, have, gvars, losses>>

\* The page is read and sent; projects without a record are left out.
Page(h) ==
    LET page == PageOf(h)
        sent == page \ Unready
    IN  /\ state[h] = "marked"
        /\ token[h] # NoToken \/ Remaining(h) # {}
        /\ have' = [have EXCEPT ![h] = [p \in Projects |-> IF p \in sent THEN stamp[p] ELSE @[p]]]
        /\ twice' = [twice EXCEPT ![h] = @ \cup (sent \cap got[h])]
        /\ got' = [got EXCEPT ![h] = @ \cup sent]
        /\ IF HasMore(h)
           THEN /\ state' = [state EXCEPT ![h] = "waiting"]
                /\ \E last \in page :
                     /\ \A p \in page \ {last} : Before(Row(p), Row(last))
                     /\ token' = [token EXCEPT ![h] = [after |-> Row(last), marker |-> marker[h]]]
           ELSE /\ state' = [state EXCEPT ![h] = "complete"]
                /\ UNCHANGED token
        /\ marker' = [marker EXCEPT ![h] = 0]
        /\ UNCHANGED <<pvars, from, begun, changed, hidden, slipped, losses>>

\* The answer is lost: the harvester repeats its request.
Lose(h) ==
    /\ state[h] = "marked"
    /\ losses < MaxLosses /\ losses' = losses + 1
    /\ state' = [state EXCEPT ![h] = "asked"]
    /\ marker' = [marker EXCEPT ![h] = 0]
    /\ UNCHANGED <<pvars, from, begun, token, have, gvars>>

End(h) == state[h] = "complete" /\ Stop(h, begun[h])

Answer(h) == Resume(h) \/ Admit(h) \/ Refuse(h) \/ Empty(h) \/ Page(h)

Next ==
    \/ \E p \in Projects : \E show \in BOOLEAN : Save(p, show) \/ Open(p, show)
    \/ \E p \in Projects : Commit(p) \/ Delete(p)
    \/ \E h \in Harvesters : Begin(h) \/ Answer(h) \/ Lose(h) \/ End(h)

Spec == Init /\ [][Next]_vars

-----------------------------------------------------------------------------
(* Properties *)

\* Whenever a harvest is complete the copy has the current version of each
\* publication that was approved when it began and has not changed since,
\* although the harvest asked only for what changed since the one before; unless
\* the publication was committed so late that its updated_at is older than a
\* harvest that had begun already.
CopyIsCurrent ==
    \A h \in Harvesters : state[h] = "complete" =>
        \A p \in approved \ (Unready \cup changed[h]) :
            <<h, p>> \in late \/ have[h][p] = stamp[p]

\* "Dataset has changed; restart harvesting": a harvest that goes on is sent no
\* project a second time, unless a change came between the two statements of a
\* request or its updated_at was no later than the marker of the token.
NoneTwice ==
    \A h \in Harvesters : h \notin slipped => twice[h] \subseteq hidden[h]
=============================================================================
