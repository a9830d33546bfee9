--------------------------- MODULE SnapshotHarvest ---------------------------
(***************************************************************************)
(* The stored OAI snapshot and its harvesters: the command                 *)
(* create_oai_snapshot (arkumu/oaipmh/management/commands) replaces the    *)
(* rows of OAISnapshotRecord and the row of OAISnapshotMeta statement by   *)
(* statement, ListRecords and ListIdentifiers (arkumu/oaipmh/views/        *)
(* snapshot.py) read them in three statements, and a harvester follows     *)
(* resumption tokens <offset>:<generated_at>.  No transaction spans the    *)
(* statements of a command, and those of a request see what has been       *)
(* committed when each of them runs.                                       *)
(*                                                                         *)
(* A snapshot's generated_at is the number of the run that stored it.      *)
(***************************************************************************)
EXTENDS Naturals, Sequences, FiniteSets

CONSTANTS
    Projects,       \* URIs
    Commands,       \* runs of the command that may be under way at a time
    Harvesters,
    OwnSet,         \* what a selective harvest asks for, by set, from or until
    BatchSize,      \* --batch-size
    PageSize,       \* DEFAULT_PAGE_SIZE
    MaxRuns,        \* bound: snapshots stored
    MaxFaults       \* bound: lost answers, deleted rows, runs that die or that begin
                    \* while another is under way

SnapshotHarvestAssumption ==
    /\ IsFiniteSet(Projects) /\ OwnSet \subseteq Projects
    /\ BatchSize \in Nat \ {0} /\ PageSize \in Nat \ {0}
    /\ MaxRuns \in Nat /\ MaxFaults \in Nat

VARIABLES
    table,          \* OAISnapshotRecord: position of each project + 1, 0 without a row
    metas,          \* OAISnapshotMeta: generated_at of its rows, by primary key
    runs,           \* snapshots stored so far
    cmd,            \* where each run of the command is
    todo,           \* what a run has still to write
    written,        \* rows a run has written
    hv,             \* where each harvester is
    want,           \* what it asked for, and whether it says so again with a token
    token,          \* the token its next request carries
    now,            \* snapshot_marker of the request in progress, 0 before
    count,          \* total_count of the request in progress
    got,            \* how often it received each project
    start,          \* ghost: the rows when its first request was admitted
    disturbed,      \* ghost: a run or a deletion came between the statements of a request
    published,      \* ghost: the rows when the metadata in force was stored
    crowded,        \* ghost: two runs have been under way at the same time
    faults          \* how many there have been

cvars == <<table, metas, runs, cmd, todo, written, published, crowded>>
hvars == <<hv, want, token, now, count, got, start>>
vars == <<table, metas, runs, cmd, todo, written, hv, want, token, now, count, got, start,
          disturbed, published, crowded, faults>>

Present(t) == {u \in Projects : t[u] > 0}

InRequest == {"counting", "paging"}

Running == {c \in Commands : cmd[c] # "idle"}

Nothing == [u \in Projects |-> 0]

Token == [offset : Nat, marker : Nat]

Want == [of : {Projects, OwnSet}, repeats : BOOLEAN]

TypeOK ==
    /\ table \in [Projects -> Nat]
    /\ metas \in Seq(1..MaxRuns) /\ runs \in 0..MaxRuns
    /\ cmd \in [Commands -> {"idle", "clearing", "erasing", "unclearing", "unmarking", "writing"}]
    /\ todo \in [Commands -> Seq(Projects)]
    /\ written \in [Commands -> Nat]
    /\ hv \in [Harvesters -> {"idle", "asked", "waiting", "complete"} \cup InRequest]
    /\ want \in [Harvesters -> Want]
    /\ token \in [Harvesters -> Token]
    /\ now \in [Harvesters -> 0..MaxRuns] /\ count \in [Harvesters -> Nat]
    /\ got \in [Harvesters -> [Projects -> Nat]]
    /\ start \in [Harvesters -> [Projects -> Nat]]
    /\ disturbed \in [Harvesters -> BOOLEAN]
    /\ published \in [Projects -> Nat]
    /\ crowded \in BOOLEAN
    /\ faults \in 0..MaxFaults

NoToken == [offset |-> 0, marker |-> 0]

Unasked == [of |-> Projects, repeats |-> FALSE]

Init ==
    /\ table = Nothing /\ metas = <<>> /\ runs = 0
    /\ cmd = [c \in Commands |-> "idle"]
    /\ todo = [c \in Commands |-> <<>>]
    /\ written = [c \in Commands |-> 0]
    /\ hv = [h \in Harvesters |-> "idle"]
    /\ want = [h \in Harvesters |-> Unasked]
    /\ token = [h \in Harvesters |-> NoToken]
    /\ now = [h \in Harvesters |-> 0] /\ count = [h \in Harvesters |-> 0]
    /\ got = [h \in Harvesters |-> Nothing]
    /\ start = [h \in Harvesters |-> Nothing]
    /\ disturbed = [h \in Harvesters |-> FALSE]
    /\ published = Nothing /\ crowded = FALSE /\ faults = 0

-----------------------------------------------------------------------------
(* create_oai_snapshot *)

\* Requests that are being answered meet this step of a run.
Disturbs == disturbed' = [h \in Harvesters |-> disturbed[h] \/ hv[h] \in InRequest]

\* Command.handle begins, with --clear or without; what it reads of the index
\* is chosen when its resources are known (Unmark).
Run(c) ==
    /\ cmd[c] = "idle"
    /\ runs < MaxRuns
    /\ \E l \in {"clearing", "erasing"} : cmd' = [cmd EXCEPT ![c] = l]
    /\ crowded' = (crowded \/ Running # {})
    /\ Running = {} \/ faults < MaxFaults
    /\ faults' = IF Running = {} THEN faults ELSE faults + 1
    /\ Disturbs
    /\ UNCHANGED <<table, metas, runs, todo, written, published, hvars>>

\* OAISnapshotRecord.objects.all().delete()
Erase(c) ==
    /\ cmd[c] \in {"clearing", "erasing"}
    /\ table' = Nothing
    /\ cmd' = [cmd EXCEPT ![c] = IF @ = "clearing" THEN "unclearing" ELSE "unmarking"]
    /\ Disturbs
    /\ UNCHANGED <<metas, runs, todo, written, published, crowded, hvars, faults>>

\* Mutant: the metadata of the old snapshot stays until the new one is stored.
Unmark_Keeps(c) ==
    /\ cmd[c] = "unmarking"
    /\ cmd' = [cmd EXCEPT ![c] = "writing"]
    /\ \E n \in 0..Cardinality(Projects) : \E s \in [1..n -> Projects] :
          /\ \A i, j \in 1..n : s[i] = s[j] => i = j
          /\ todo' = [todo EXCEPT ![c] = s]
    /\ Disturbs
    /\ UNCHANGED <<table, metas, runs, written, published, crowded, hvars, faults>>

\* OAISnapshotMeta.objects.all().delete(); then resources are loaded, and the
\* harvestable, accessible projects that can be serialised will be written, in
\* the order the index was read in.
Unmark(c) ==
    /\ cmd[c] = "unmarking"
    /\ metas' = <<>>
    /\ cmd' = [cmd EXCEPT ![c] = "writing"]
    /\ \E n \in 0..Cardinality(Projects) : \E s \in [1..n -> Projects] :
          /\ \A i, j \in 1..n : s[i] = s[j] => i = j
          /\ todo' = [todo EXCEPT ![c] = s]
    /\ published' = Nothing
    /\ Disturbs
    /\ UNCHANGED <<table, runs, written, crowded, hvars, faults>>

\* --clear ends here.
Clear(c) ==
    /\ cmd[c] = "unclearing"
    /\ metas' = <<>> /\ published' = Nothing
    /\ cmd' = [cmd EXCEPT ![c] = "idle"]
    /\ Disturbs
    /\ UNCHANGED <<table, runs, todo, written, crowded, hvars, faults>>

Batch(c) == SubSeq(todo[c], 1, IF Len(todo[c]) < BatchSize THEN Len(todo[c]) ELSE BatchSize)

\* bulk_create of a batch; a URI that has a row already, from another run,
\* makes the whole batch and with it the run fail.
Write(c) ==
    /\ cmd[c] = "writing" /\ todo[c] # <<>>
    /\ LET batch == Batch(c)
           new == {batch[i] : i \in DOMAIN batch}
       IN  IF new \cap Present(table) # {}
           THEN /\ cmd' = [cmd EXCEPT ![c] = "idle"]
                /\ todo' = [todo EXCEPT ![c] = <<>>]
                /\ written' = [written EXCEPT ![c] = 0]
                /\ UNCHANGED table
           ELSE /\ table' = [u \in Projects |->
                              IF u \in new
                              THEN written[c] + (CHOOSE i \in DOMAIN batch : batch[i] = u)
                              ELSE table[u]]
                /\ written' = [written EXCEPT ![c] = @ + Len(batch)]
                /\ todo' = [todo EXCEPT ![c] = SubSeq(@, Len(batch) + 1, Len(@))]
                /\ UNCHANGED cmd
    /\ Disturbs
    /\ UNCHANGED <<metas, runs, published, crowded, hvars, faults>>

\* OAISnapshotMeta.objects.create(generated_at=now): the snapshot is there.
Store(c) ==
    /\ cmd[c] = "writing" /\ todo[c] = <<>>
    /\ runs < MaxRuns
    /\ runs' = runs + 1
    /\ metas' = Append(metas, runs + 1)
    /\ published' = table
    /\ cmd' = [cmd EXCEPT ![c] = "idle"]
    /\ written' = [written EXCEPT ![c] = 0]
    /\ Disturbs
    /\ UNCHANGED <<table, todo, crowded, hvars, faults>>

\* The process dies, or the database fails it.
Die(c) ==
    /\ cmd[c] # "idle"
    /\ faults < MaxFaults /\ faults' = faults + 1
    /\ cmd' = [cmd EXCEPT ![c] = "idle"]
    /\ todo' = [todo EXCEPT ![c] = <<>>]
    /\ written' = [written EXCEPT ![c] = 0]
    /\ UNCHANGED <<table, metas, runs, published, crowded, disturbed, hvars>>

\* A row is deleted on the admin site, or with its organisation.
Delete(u) ==
    /\ table[u] > 0
    /\ faults < MaxFaults /\ faults' = faults + 1
    /\ table' = [table EXCEPT ![u] = 0]
    /\ published' = [published EXCEPT ![u] = 0]
    /\ disturbed' = [h \in Harvesters |-> disturbed[h] \/ hv[h] # "idle"]
    /\ UNCHANGED <<metas, runs, cmd, todo, written, crowded, hvars>>

-----------------------------------------------------------------------------
(* A harvest *)

Met(h) == disturbed' = [disturbed EXCEPT ![h] = @ \/ Running # {}]

\* A harvester sends its first request.
Begin(h) ==
    /\ hv[h] = "idle"
    /\ \E w \in Want : want' = [want EXCEPT ![h] = w]
    /\ hv' = [hv EXCEPT ![h] = "asked"]
    /\ UNCHANGED <<token, now, count, got, start, faults, disturbed, cvars>>

\* It goes on with the token it has.
Resume(h) ==
    /\ hv[h] = "waiting"
    /\ hv' = [hv EXCEPT ![h] = "asked"]
    /\ UNCHANGED <<want, token, now, count, got, start, faults, disturbed, cvars>>

\* The harvest is over, with an error or for good.
Forget(h) ==
    /\ hv' = [hv EXCEPT ![h] = "idle"]
    /\ want' = [want EXCEPT ![h] = Unasked]
    /\ token' = [token EXCEPT ![h] = NoToken]
    /\ now' = [now EXCEPT ![h] = 0]
    /\ count' = [count EXCEPT ![h] = 0]
    /\ got' = [got EXCEPT ![h] = Nothing]
    /\ start' = [start EXCEPT ![h] = Nothing]
    /\ disturbed' = [disturbed EXCEPT ![h] = FALSE]
    /\ UNCHANGED <<faults, cvars>>

\* get_current(): the first row of the metadata, 0 without one.
Current == IF metas = <<>> THEN 0 ELSE metas[1]

Admitted(h) ==
    /\ now' = [now EXCEPT ![h] = Current]
    /\ hv' = [hv EXCEPT ![h] = "counting"]
    /\ IF token[h] = NoToken
       THEN /\ start' = [start EXCEPT ![h] = table]
            /\ disturbed' = [disturbed EXCEPT ![h] = Running # {}]
       ELSE /\ Met(h)
            /\ UNCHANGED start
    /\ UNCHANGED <<want, token, count, got, faults, cvars>>

\* A request without a token, or with one of the current snapshot.
Admit(h) ==
    /\ hv[h] = "asked" /\ Current # 0
    /\ token[h] = NoToken \/ token[h].marker = Current
    /\ Admitted(h)

\* "No snapshot available", or "Snapshot has changed; restart harvesting".
Refuse(h) ==
    /\ hv[h] = "asked"
    /\ Current = 0 \/ (token[h] # NoToken /\ token[h].marker # Current)
    /\ Forget(h)

\* The token carries no arguments: a request with a token is for what it says
\* itself, by default for everything.
Unsaid(h) == token[h] # NoToken /\ ~want[h].repeats

Matching(h) == Present(table) \cap (IF Unsaid(h) THEN Projects ELSE want[h].of)

\* qs.count(); without records the answer is noRecordsMatch.
Count(h) ==
    /\ hv[h] = "counting"
    /\ IF Matching(h) = {}
       THEN Forget(h)
       ELSE /\ count' = [count EXCEPT ![h] = Cardinality(Matching(h))]
            /\ hv' = [hv EXCEPT ![h] = "paging"]
            /\ Met(h)
            /\ UNCHANGED <<want, token, now, got, start, faults, cvars>>

\* Mutant: the page is cut without order_by("position").
Rankings_Unordered(S) ==
    {r \in [S -> 0..(Cardinality(S) - 1)] : \A u, v \in S : u # v => r[u] # r[v]}

\* order_by("position"): each way to number the rows that keeps to the order of
\* their positions.
Rankings(S) ==
    {r \in [S -> 0..(Cardinality(S) - 1)] :
        \A u, v \in S : u # v => r[u] # r[v] /\ (table[u] < table[v] => r[u] < r[v])}

\* A token is issued when records are left.
More(h, next) == next < count[h]

\* qs.order_by("position")[offset : offset + page_size]
Page(h) ==
    /\ hv[h] = "paging"
    /\ \E r \in Rankings(Matching(h)) :
         LET offset == token[h].offset
             page == {u \in Matching(h) : offset <= r[u] /\ r[u] < offset + PageSize}
             next == offset + Cardinality(page)
         IN  /\ got' = [got EXCEPT ![h] =
                          [u \in Projects |-> IF u \in page THEN @[u] + 1 ELSE @[u]]]
             /\ token' = [token EXCEPT ![h] = [offset |-> next, marker |-> now[h]]]
             /\ hv' = [hv EXCEPT ![h] = IF More(h, next) THEN "waiting" ELSE "complete"]
    /\ now' = [now EXCEPT ![h] = 0] /\ count' = [count EXCEPT ![h] = 0]
    /\ Met(h)
    /\ UNCHANGED <<want, start, faults, cvars>>

\* The answer is lost: the harvester repeats its request.
Lose(h) ==
    /\ hv[h] = "paging" /\ faults < MaxFaults
    /\ faults' = faults + 1
    /\ hv' = [hv EXCEPT ![h] = "asked"]
    /\ now' = [now EXCEPT ![h] = 0] /\ count' = [count EXCEPT ![h] = 0]
    /\ UNCHANGED <<want, token, got, start, disturbed, cvars>>

End(h) == hv[h] = "complete" /\ Forget(h)

Command(c) ==
    \/ Run(c) \/ Erase(c) \/ Unmark(c) \/ Clear(c) \/ Write(c) \/ Store(c) \/ Die(c)

Answer(h) == Resume(h) \/ Admit(h) \/ Refuse(h) \/ Count(h) \/ Page(h)

Next ==
    \/ \E c \in Commands : Command(c)
    \/ \E u \in Projects : Delete(u)
    \/ \E h \in Harvesters : Begin(h) \/ Answer(h) \/ Lose(h) \/ End(h)

Spec == Init /\ [][Next]_vars

-----------------------------------------------------------------------------
(* Properties *)

\* Rows of one run differ in their positions.
Distinct(t) == \A u, v \in Present(t) : t[u] = t[v] => u = v

\* "Simple offset-based pagination with snapshot timestamp validation": a
\* harvest that is told it is complete has received each record that was there
\* when it began exactly once, and no other, although runs of the command came
\* between its requests; unless rows changed within one of its requests, rows
\* shared a position, or a selective harvester relied on its token.
CompleteIsConsistent ==
    \A h \in Harvesters :
        /\ hv[h] = "complete" /\ ~disturbed[h] /\ Distinct(start[h])
        /\ want[h].repeats \/ want[h].of = Projects
        => \A u \in Projects :
              got[h][u] = IF u \in want[h].of \cap Present(start[h]) THEN 1 ELSE 0

\* "Position in the snapshot for stable pagination": rows share a position only
\* when two runs were under way together.
PositionsDiffer == ~crowded => Distinct(table)

\* "Records are replaced entirely when a new snapshot is generated": a run that
\* fails half-way leaves no snapshot that is served with part of its records,
\* as long as no two runs were under way together.
ServedIsWhole ==
    ~crowded /\ metas # <<>> => table \in {Nothing, published}
=============================================================================
