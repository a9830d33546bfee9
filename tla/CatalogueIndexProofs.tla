------------------------ MODULE CatalogueIndexProofs ------------------------
(* Theorems about CatalogueIndex, for any finite number of projects, any    *)
(* institutions and builders, and any sizes and bounds.                     *)
EXTENDS CatalogueIndex, FiniteSetTheorems, TLAPS

\* The operators on rows return rows.
LEMMA RowsType ==
    ASSUME NEW rs \in Rows, NEW new \in Rows, NEW S
    PROVE  /\ NoRows \in Rows /\ Made(S) \in Rows
           /\ Only(rs, S) \in Rows /\ Upsert(rs, new) \in Rows
           /\ Has(rs) \subseteq Projects
BY DEF Rows, NoRows, Visibility, Made, Visible, Only, Upsert, Has

LEMMA NoJobType == NoJob \in Job
BY DEF NoJob, Job, NoRows, Rows, Visibility

PC == {"idle", "listing", "reading", "processing", "pruning", "gathering", "writing",
       "dropping", "fetching", "putting", "done"}

\* Assigning fields of a job leaves it a job.
LEMMA JobUpdate ==
    ASSUME NEW j \in Job, NEW l \in PC
    PROVE  /\ [j EXCEPT !.pc = l] \in Job
           /\ \A A \in SUBSET Institutions, S \in SUBSET Projects :
                 [j EXCEPT !.ahead = A, !.todo = S, !.pc = l] \in Job
           /\ \A rs \in Rows : /\ [j EXCEPT !.buffer = rs, !.pc = l] \in Job
                               /\ [j EXCEPT !.fresh = rs, !.pc = l] \in Job
           /\ \A S \in SUBSET Projects : [j EXCEPT !.pc = l, !.read = S] \in Job
           /\ \A h \in BOOLEAN, S \in SUBSET Projects :
                 /\ [j EXCEPT !.pc = l, !.heeded = h] \in Job
                 /\ [j EXCEPT !.pc = l, !.read = S, !.heeded = h] \in Job
           /\ \A S \in SUBSET Projects, rs \in Rows :
                 /\ [j EXCEPT !.todo = S, !.pc = l, !.fresh = rs] \in Job
                 /\ [j EXCEPT !.fresh = rs, !.seen = S, !.pc = l] \in Job
           /\ \A S \in SUBSET Projects, rs, ns \in Rows :
                 [j EXCEPT !.buffer = rs, !.seen = S, !.fresh = ns, !.pc = l] \in Job
<1>1. [j EXCEPT !.pc = l] \in Job
  BY DEF Job, PC
<1>2. ASSUME NEW A \in SUBSET Institutions, NEW S \in SUBSET Projects
      PROVE  [j EXCEPT !.ahead = A, !.todo = S, !.pc = l] \in Job
  BY DEF Job, PC
<1>3. ASSUME NEW rs \in Rows
      PROVE  [j EXCEPT !.buffer = rs, !.pc = l] \in Job /\ [j EXCEPT !.fresh = rs, !.pc = l] \in Job
  BY DEF Job, PC
<1>4. ASSUME NEW S \in SUBSET Projects PROVE [j EXCEPT !.pc = l, !.read = S] \in Job
  BY DEF Job, PC
<1>5. ASSUME NEW S \in SUBSET Projects, NEW rs \in Rows
      PROVE  [j EXCEPT !.todo = S, !.pc = l, !.fresh = rs] \in Job
  BY DEF Job, PC
<1>6. ASSUME NEW S \in SUBSET Projects, NEW rs \in Rows
      PROVE  [j EXCEPT !.fresh = rs, !.seen = S, !.pc = l] \in Job
  BY DEF Job, PC
<1>7. ASSUME NEW S \in SUBSET Projects, NEW rs \in Rows, NEW ns \in Rows
      PROVE  [j EXCEPT !.buffer = rs, !.seen = S, !.fresh = ns, !.pc = l] \in Job
  BY DEF Job, PC
<1>8. ASSUME NEW h \in BOOLEAN, NEW S \in SUBSET Projects
      PROVE  /\ [j EXCEPT !.pc = l, !.heeded = h] \in Job
             /\ [j EXCEPT !.pc = l, !.read = S, !.heeded = h] \in Job
  BY DEF Job, PC
<1> QED BY <1>1, <1>2, <1>3, <1>4, <1>5, <1>6, <1>7, <1>8

LEMMA JobFields ==
    ASSUME TypeOK, NEW b \in Builders
    PROVE  /\ job \in [Builders -> Job] /\ job[b] \in Job
           /\ job[b].ahead \in SUBSET Institutions
           /\ job[b].scope \in SUBSET Projects /\ job[b].todo \in SUBSET Projects
           /\ job[b].fresh \in Rows /\ job[b].buffer \in Rows
           /\ job[b].seen \in SUBSET Projects /\ job[b].read \in SUBSET Projects
           /\ job[b].heeded \in BOOLEAN
BY DEF TypeOK, Job

\* A step of one builder that leaves it with a well-formed job.
LEMMA JobType ==
    ASSUME TypeOK, NEW b \in Builders, NEW j \in Job, job' = [job EXCEPT ![b] = j]
    PROVE  job' \in [Builders -> Job]
BY DEF TypeOK

\* Publishing, importing and removing.
LEMMA ChangeType ==
    ASSUME TypeOK, NEW p \in Projects, Publish(p) \/ Retype(p) \/ Retitle(p) \/ Remove(p)
    PROVE  TypeOK'
<1>1. changed' \in [Builders -> SUBSET Projects] /\ changes' \in 0..MaxChanges
  BY CatalogueIndexAssumption DEF TypeOK, Publish, Retype, Retitle, Remove, Change
<1>2. /\ graph' \subseteq stored' /\ public' \subseteq stored' /\ stored' \subseteq Projects
  BY DEF TypeOK, Publish, Retype, Retitle, Remove, Change
<1>3. row' \in Rows /\ \A q \in Projects \ stored' : row'[q] = "none"
  BY DEF TypeOK, Publish, Retype, Retitle, Remove, Change, Rows, Visibility
<1> QED BY <1>1, <1>2, <1>3 DEF TypeOK, Publish, Retype, Retitle, Remove, Change

\* A builder's steps.
LEMMA BeginType ==
    ASSUME TypeOK, NEW b \in Builders, Begin(b)
    PROVE  TypeOK'
<1>1. ASSUME NEW j \in Started(b) PROVE j \in Job
  <2>1. CASE j \in {[NoJob EXCEPT !.kind = "all", !.pc = "listing", !.ahead = Institutions]}
    BY <2>1, NoJobType DEF Job, Warms, Streams
  <2>2. CASE j \in {[NoJob EXCEPT !.kind = "institution", !.pc = "listing", !.ahead = {I}] :
                      I \in Institutions}
    <3>1. PICK I \in Institutions :
            j = [NoJob EXCEPT !.kind = "institution", !.pc = "listing", !.ahead = {I}]
      BY <2>2
    <3> DEFINE A == {I}
    <3>2. A \in SUBSET Institutions
      OBVIOUS
    <3>3. j = [NoJob EXCEPT !.kind = "institution", !.pc = "listing", !.ahead = A]
      BY <3>1
    <3> HIDE DEF A
    <3> QED BY <3>2, <3>3, NoJobType DEF Job, Warms, Streams
  <2>3. CASE j \in {[NoJob EXCEPT !.kind = "uris", !.pc = "gathering", !.scope = {p}] :
                      p \in Projects}
    <3>1. PICK p \in Projects :
            j = [NoJob EXCEPT !.kind = "uris", !.pc = "gathering", !.scope = {p}]
      BY <2>3
    <3> DEFINE S == {p}
    <3>2. S \in SUBSET Projects
      OBVIOUS
    <3>3. j = [NoJob EXCEPT !.kind = "uris", !.pc = "gathering", !.scope = S]
      BY <3>1
    <3> HIDE DEF S
    <3> QED BY <3>2, <3>3, NoJobType DEF Job, Warms
  <2>4. CASE j \in {[NoJob EXCEPT !.kind = k, !.pc = "gathering", !.scope = Projects] :
                      k \in {"snapshot", "whole"}}
    <3>1. PICK k \in {"snapshot", "whole"} :
            j = [NoJob EXCEPT !.kind = k, !.pc = "gathering", !.scope = Projects]
      BY <2>4
    <3> QED BY <3>1, NoJobType DEF Job, Warms
  <2>5. CASE j \in {[NoJob EXCEPT !.kind = "refresh", !.pc = "dropping"],
                    [NoJob EXCEPT !.kind = "warm", !.pc = "fetching"]}
    BY <2>5, NoJobType DEF Job, Warms
  <2> QED BY <2>1, <2>2, <2>3, <2>4, <2>5 DEF Started
<1>2. job' \in [Builders -> Job]
  BY <1>1, JobType DEF Begin
<1>3. jobs' \in 0..MaxJobs
  BY CatalogueIndexAssumption DEF Begin, TypeOK
<1>4. crowded' \subseteq Builders
  BY DEF Begin, Active, TypeOK
<1> QED BY <1>2, <1>3, <1>4 DEF Begin, TypeOK, pvars

LEMMA EndType ==
    ASSUME TypeOK, NEW b \in Builders, Finish(b) \/ Die(b)
    PROVE  TypeOK'
<1>1. job' \in [Builders -> Job]
  BY JobType, NoJobType DEF Finish, End, Die
<1>2. changes' \in 0..MaxChanges
  BY CatalogueIndexAssumption DEF Finish, End, Die, TypeOK
<1> QED BY <1>1, <1>2 DEF Finish, End, Die, TypeOK, pvars, gvars

LEMMA StreamType ==
    ASSUME TypeOK, NEW b \in Builders, List(b) \/ Load(b) \/ Prune(b)
    PROVE  TypeOK'
<1> USE JobFields
<1>1. ASSUME List(b) PROVE TypeOK'
  <2>1. PICK I \in job[b].ahead :
          job' = [job EXCEPT ![b].ahead = @ \ {I}, ![b].todo = I \cap graph, ![b].pc = "reading"]
    BY <1>1 DEF List
  <2>2. job' = [job EXCEPT ![b] = [job[b] EXCEPT !.ahead = @ \ {I}, !.todo = I \cap graph,
                                                 !.pc = "reading"]]
    BY <2>1
  <2>3. I \cap graph \subseteq Projects
    BY DEF TypeOK
  <2>4. job' \in [Builders -> Job]
    BY <2>2, <2>3, JobUpdate DEF PC
  <2> QED BY <1>1, <2>4 DEF List, TypeOK, pvars, gvars
<1>2. ASSUME Load(b) PROVE TypeOK'
  <2>1. PICK batch \in SUBSET job[b].todo :
          /\ job' = [job EXCEPT ![b].todo = @ \ batch, ![b].pc = "processing",
                                ![b].fresh = Made(batch \cap stored)]
          /\ failed' = [failed EXCEPT ![b] = @ \cup (batch \ Has(Made(batch \cap stored)))]
    BY <1>2 DEF Load
  <2>2. Made(batch \cap stored) \in Rows /\ batch \subseteq Projects
    BY RowsType
  <2>3. job' = [job EXCEPT ![b] = [job[b] EXCEPT !.todo = @ \ batch, !.pc = "processing",
                                                 !.fresh = Made(batch \cap stored)]]
    BY <2>1
  <2>4. job' \in [Builders -> Job]
    BY <2>2, <2>3, JobUpdate DEF PC
  <2>5. failed' \in [Builders -> SUBSET Projects]
    BY <2>1, <2>2 DEF TypeOK
  <2> QED BY <1>2, <2>4, <2>5 DEF Load, TypeOK, pvars
<1>3. ASSUME Prune(b) PROVE TypeOK'
  <2>1. row' \in Rows /\ \A p \in Projects \ stored' : row'[p] = "none"
    BY <1>3, RowsType DEF Prune, Only, TypeOK, pvars
  <2>2. job' = [job EXCEPT ![b] = [job[b] EXCEPT !.pc = "dropping"]]
    BY <1>3 DEF Prune
  <2>3. job' \in [Builders -> Job]
    BY <2>2, JobUpdate DEF PC
  <2> QED BY <1>3, <2>1, <2>3 DEF Prune, TypeOK, pvars, gvars
<1> QED BY <1>1, <1>2, <1>3

\* What _process_streaming_batch leaves.
Appended(b, left, rs, unwritten) ==
    /\ job' = [job EXCEPT ![b].buffer = left, ![b].seen = @ \cup Has(job[b].fresh),
                          ![b].fresh = NoRows, ![b].pc = "reading"]
    /\ row' = rs
    /\ failed' = [failed EXCEPT ![b] = @ \cup unwritten]

\* It keeps the rows in its list, writes them, or tries to.
AppendedAll(b, unwritten) == Appended(b, Upsert(job[b].buffer, job[b].fresh), row, unwritten)

Out(b, S) == Upsert(job[b].buffer, Only(job[b].fresh, S))

Room(b) == WriteSize - Cardinality(Has(job[b].buffer))

Overflows(b) ==
    job[b].fresh # NoRows
    /\ ~(Cardinality(Has(Upsert(job[b].buffer, job[b].fresh))) < WriteSize)

LEMMA ProcessCases ==
    ASSUME NEW b \in Builders, Process(b)
    PROVE  \/ ~Overflows(b) /\ AppendedAll(b, {})
           \/ /\ Overflows(b)
              /\ \E S \in SUBSET Has(job[b].fresh) :
                    /\ Cardinality(S) = IF Room(b) < 1 THEN 1 ELSE Room(b)
                    /\ \/ /\ Has(Out(b, S)) \subseteq stored
                          /\ Appended(b, NoRows, Upsert(row, Out(b, S)), {})
                       \/ /\ ~(Has(Out(b, S)) \subseteq stored)
                          /\ AppendedAll(b, Has(Out(b, S)) \ stored)
<1>1. CASE ~Overflows(b)
  BY <1>1 DEF Process, Appended, AppendedAll, Overflows
<1>2. CASE Overflows(b)
  <2>1. PICK S \in SUBSET Has(job[b].fresh) :
          /\ Cardinality(S) = IF Room(b) < 1 THEN 1 ELSE Room(b)
          /\ IF Has(Out(b, S)) \subseteq stored
             THEN Appended(b, NoRows, Upsert(row, Out(b, S)), {})
             ELSE AppendedAll(b, Has(Out(b, S)) \ stored)
    BY <1>2 DEF Process, Appended, AppendedAll, Overflows, Room, Out
  <2> QED BY <1>2, <2>1
<1> QED BY <1>1, <1>2

\* Writing rows of stored projects gives no row to another.
LEMMA WriteType ==
    ASSUME TypeOK, NEW rs \in Rows, Has(rs) \subseteq stored
    PROVE  Upsert(row, rs) \in Rows /\ \A p \in Projects \ stored : Upsert(row, rs)[p] = "none"
BY RowsType DEF TypeOK, Has, Upsert

\* In each case what is left are rows, and nothing stored outside its table.
LEMMA ProcessRows ==
    ASSUME TypeOK, NEW b \in Builders, Process(b)
    PROVE  \E left, rs \in Rows, unwritten \in SUBSET Projects :
              /\ Appended(b, left, rs, unwritten)
              /\ \A p \in Projects \ stored : rs[p] = "none"
              /\ rs = row \/ \E new : rs = Upsert(row, new)
<1>1. Upsert(job[b].buffer, job[b].fresh) \in Rows /\ NoRows \in Rows /\ row \in Rows
  BY JobFields, RowsType DEF TypeOK
<1>2. \A p \in Projects \ stored : row[p] = "none"
  BY DEF TypeOK
<1>3. {} \in SUBSET Projects
  OBVIOUS
<1>4. ASSUME NEW S \in SUBSET Has(job[b].fresh)
      PROVE  Out(b, S) \in Rows /\ Has(Out(b, S)) \subseteq Projects
  <2>1. Only(job[b].fresh, S) \in Rows
    BY JobFields, RowsType
  <2>2. Out(b, S) \in Rows
    BY <2>1, JobFields, RowsType DEF Out
  <2> QED BY <2>2, RowsType
<1>5. ASSUME NEW S \in SUBSET Has(job[b].fresh), Has(Out(b, S)) \subseteq stored
      PROVE  /\ Upsert(row, Out(b, S)) \in Rows
             /\ \A p \in Projects \ stored : Upsert(row, Out(b, S))[p] = "none"
  BY <1>4, <1>5, WriteType
<1>6. ASSUME NEW unwritten \in SUBSET Projects, AppendedAll(b, unwritten)
      PROVE  \E left, rs \in Rows, lost \in SUBSET Projects :
                /\ Appended(b, left, rs, lost)
                /\ \A p \in Projects \ stored : rs[p] = "none"
                /\ rs = row \/ \E new : rs = Upsert(row, new)
  BY <1>1, <1>2, <1>6 DEF AppendedAll
<1>7. CASE Overflows(b)
  <2>1. PICK S \in SUBSET Has(job[b].fresh) :
           \/ /\ Has(Out(b, S)) \subseteq stored
              /\ Appended(b, NoRows, Upsert(row, Out(b, S)), {})
           \/ AppendedAll(b, Has(Out(b, S)) \ stored)
    BY <1>7, ProcessCases
  <2>2. CASE AppendedAll(b, Has(Out(b, S)) \ stored)
    <3>1. Has(Out(b, S)) \ stored \in SUBSET Projects
      BY <1>4
    <3> QED BY <1>6, <2>2, <3>1
  <2>3. CASE /\ Has(Out(b, S)) \subseteq stored
             /\ Appended(b, NoRows, Upsert(row, Out(b, S)), {})
    BY <1>1, <1>5, <2>3
  <2> QED BY <2>1, <2>2, <2>3
<1> QED BY <1>3, <1>6, <1>7, ProcessCases

LEMMA ProcessType ==
    ASSUME TypeOK, NEW b \in Builders, Process(b)
    PROVE  TypeOK'
<1>1. PICK left \in Rows, rs \in Rows, unwritten \in SUBSET Projects :
              /\ Appended(b, left, rs, unwritten)
              /\ \A p \in Projects \ stored : rs[p] = "none"
  BY ProcessRows
<1> DEFINE S == job[b].seen \cup Has(job[b].fresh)
<1>2. S \in SUBSET Projects
  BY JobFields, RowsType
<1>3. job' = [job EXCEPT ![b] = [job[b] EXCEPT !.buffer = left, !.seen = S, !.fresh = NoRows,
                                               !.pc = "reading"]]
  BY <1>1 DEF Appended
<1> HIDE DEF S
<1>4. NoRows \in Rows
  BY DEF NoRows, Rows, Visibility
<1>5. job' \in [Builders -> Job]
  BY <1>1, <1>2, <1>3, <1>4, JobFields, JobUpdate DEF PC
<1>6. failed' \in [Builders -> SUBSET Projects]
  BY <1>1 DEF Appended, TypeOK
<1>7. row' \in Rows /\ \A p \in Projects \ stored : row'[p] = "none"
  BY <1>1 DEF Appended
<1> QED BY <1>5, <1>6, <1>7 DEF Process, TypeOK, pvars

LEMMA FlushType ==
    ASSUME TypeOK, NEW b \in Builders, Flush(b)
    PROVE  TypeOK'
<1>1. CASE Has(job[b].buffer) \subseteq stored
  <2>1. AfterStream(job[b]) \in PC
    BY DEF AfterStream, PC
  <2>2. job' = [job EXCEPT ![b] = [job[b] EXCEPT !.buffer = NoRows, !.pc = AfterStream(job[b])]]
    BY <1>1 DEF Flush
  <2>3. NoRows \in Rows
    BY DEF NoRows, Rows, Visibility
  <2>4. job' \in [Builders -> Job]
    BY <2>1, <2>2, <2>3, JobFields, JobUpdate
  <2>5. row' \in Rows /\ \A p \in Projects \ stored : row'[p] = "none"
    BY <1>1, JobFields, WriteType DEF Flush
  <2> QED BY <2>4, <2>5 DEF Flush, TypeOK, pvars, gvars
<1>2. CASE ~(Has(job[b].buffer) \subseteq stored)
  <2>1. job' \in [Builders -> Job]
    BY <1>2, JobType, NoJobType DEF Flush
  <2> QED BY <1>2, <2>1 DEF Flush, TypeOK, pvars, gvars
<1> QED BY <1>1, <1>2

LEMMA GatherType ==
    ASSUME TypeOK, NEW b \in Builders, Gather(b)
    PROVE  TypeOK'
<1> DEFINE found == job[b].scope \cap graph
           made == Made(found)
           l == IF job[b].kind = "whole" /\ found = {} THEN "done" ELSE "writing"
           S == Has(made)
<1>1. made \in Rows /\ S \in SUBSET Projects /\ found \subseteq Projects
  <2>1. made \in Rows
    BY JobFields, RowsType
  <2> QED BY <2>1, JobFields DEF Has
<1>2. l \in PC
  BY DEF PC
<1>3. job' = [job EXCEPT ![b] = [job[b] EXCEPT !.fresh = made, !.seen = S, !.pc = l]]
  BY DEF Gather
<1>4. failed' = [failed EXCEPT ![b] = found \ S]
  BY DEF Gather
<1> HIDE DEF found, made, l, S
<1>5. job' \in [Builders -> Job]
  BY <1>1, <1>2, <1>3, JobFields, JobUpdate
<1>6. failed' \in [Builders -> SUBSET Projects]
  BY <1>1, <1>4 DEF TypeOK
<1> QED BY <1>5, <1>6 DEF Gather, TypeOK, pvars

LEMMA WriteAllType ==
    ASSUME TypeOK, NEW b \in Builders, WriteAll(b)
    PROVE  TypeOK'
<1>1. CASE Has(job[b].fresh) \subseteq stored
  <2> DEFINE l == IF job[b].kind \in Warms THEN "dropping" ELSE "done"
  <2>1. l \in PC /\ NoRows \in Rows
    BY DEF PC, NoRows, Rows, Visibility
  <2>2. job' = [job EXCEPT ![b] = [job[b] EXCEPT !.fresh = NoRows, !.pc = l]]
    BY <1>1 DEF WriteAll
  <2> HIDE DEF l
  <2>3. job' \in [Builders -> Job]
    BY <2>1, <2>2, JobFields, JobUpdate
  <2>4. row' = Pruned(Upsert(row, job[b].fresh), job[b])
    BY <1>1 DEF WriteAll
  <2> DEFINE rs == Upsert(row, job[b].fresh)
  <2>5. rs \in Rows /\ \A p \in Projects \ stored : rs[p] = "none"
    BY <1>1, JobFields, WriteType
  <2>6. Only(rs, job[b].seen) \in Rows
    BY <2>5, RowsType
  <2>7. row' = rs \/ row' = Only(rs, job[b].seen)
    BY <2>4 DEF Pruned
  <2> HIDE DEF rs
  <2>8. row' \in Rows /\ \A p \in Projects \ stored : row'[p] = "none"
    BY <2>5, <2>6, <2>7 DEF Only
  <2> QED BY <2>3, <2>8 DEF WriteAll, TypeOK, pvars, gvars
<1>2. CASE ~(Has(job[b].fresh) \subseteq stored)
  <2>1. job' \in [Builders -> Job]
    BY <1>2, JobType, NoJobType DEF WriteAll
  <2> QED BY <1>2, <2>1 DEF WriteAll, TypeOK, pvars, gvars
<1> QED BY <1>1, <1>2

LEMMA CardsType ==
    ASSUME TypeOK, NEW b \in Builders, Drop(b) \/ Fetch(b) \/ Put(b) \/ WarmFails(b)
    PROVE  TypeOK'
<1>1. ASSUME Drop(b) PROVE TypeOK'
  <2>1. PICK h \in BOOLEAN :
          /\ cards' = IF h THEN {} ELSE cards
          /\ job' = [job EXCEPT ![b] = [job[b] EXCEPT !.pc = "fetching", !.heeded = h]]
    BY <1>1 DEF Drop
  <2>2. job' \in [Builders -> Job]
    BY <2>1, JobFields, JobUpdate DEF PC
  <2>3. cards' \subseteq Projects
    BY <2>1 DEF TypeOK
  <2> QED BY <1>1, <2>2, <2>3 DEF Drop, TypeOK, pvars, gvars
<1>2. ASSUME Fetch(b) PROVE TypeOK'
  <2> DEFINE S == {p \in Projects : row[p] = "shown"}
  <2>1. job' = [job EXCEPT ![b] = [job[b] EXCEPT !.pc = "putting", !.read = S]]
    BY <1>2 DEF Fetch
  <2>2. S \in SUBSET Projects
    OBVIOUS
  <2> HIDE DEF S
  <2>3. job' \in [Builders -> Job]
    BY <2>1, <2>2, JobFields, JobUpdate DEF PC
  <2> QED BY <1>2, <2>3 DEF Fetch, TypeOK, pvars, gvars
<1>3. ASSUME Put(b) PROVE TypeOK'
  <2>1. PICK h \in BOOLEAN :
          /\ cards' = IF h THEN job[b].read ELSE cards
          /\ job' = [job EXCEPT ![b].pc = "done", ![b].read = {}, ![b].heeded = @ \/ h]
    BY <1>3 DEF Put
  <2> DEFINE g == job[b].heeded \/ h
  <2>2. job' = [job EXCEPT ![b] = [job[b] EXCEPT !.pc = "done", !.read = {}, !.heeded = g]]
    BY <2>1
  <2>3. g \in BOOLEAN
    OBVIOUS
  <2> HIDE DEF g
  <2>4. job' \in [Builders -> Job]
    BY <2>2, <2>3, JobFields, JobUpdate DEF PC
  <2>5. cards' \subseteq Projects
    BY <2>1, JobFields DEF TypeOK
  <2> QED BY <1>3, <2>4, <2>5 DEF Put, TypeOK, pvars, gvars
<1>4. ASSUME WarmFails(b) PROVE TypeOK'
  <2>1. job' = [job EXCEPT ![b] = [job[b] EXCEPT !.pc = "done", !.read = {}]]
    BY <1>4 DEF WarmFails
  <2>2. job' \in [Builders -> Job]
    BY <2>1, JobFields, JobUpdate DEF PC
  <2> QED BY <1>4, <2>2 DEF WarmFails, TypeOK, pvars, gvars
<1> QED BY <1>1, <1>2, <1>3, <1>4

LEMMA InitType == Init => TypeOK
BY CatalogueIndexAssumption, NoJobType DEF Init, TypeOK, NoRows, Rows, Visibility

LEMMA NextType == TypeOK /\ [Next]_vars => TypeOK'
<1> SUFFICES ASSUME TypeOK, [Next]_vars PROVE TypeOK'
  OBVIOUS
<1>1. CASE UNCHANGED vars
  BY <1>1 DEF vars, pvars, gvars, TypeOK
<1>2. CASE Next
  BY <1>2, ChangeType, BeginType, EndType, StreamType, ProcessType, FlushType, GatherType,
     WriteAllType, CardsType DEF Next
<1> QED BY <1>1, <1>2

\* Every value stays in its range, whatever is rebuilt, published, imported,
\* removed or dies; a project that is gone has no row.
THEOREM TypeCorrect == Spec => []TypeOK
BY InitType, NextType, PTL DEF Spec

-----------------------------------------------------------------------------
(* What a rebuild that prunes has still before it, or has seen *)

Streaming == {"listing", "reading", "processing", "pruning"}
Ahead(b) == UNION job[b].ahead
Reached(b) == Ahead(b) \cup job[b].todo \cup Has(job[b].fresh) \cup job[b].seen
Insured == UNION Institutions
Owed(b) == (Insured \cap graph) \ (failed[b] \cup changed[b])

Staged(b) ==
    /\ job[b].pc = "listing" => job[b].todo = {} /\ Has(job[b].fresh) = {}
    /\ job[b].pc = "reading" => Has(job[b].fresh) = {}
    /\ job[b].pc = "pruning" =>
          /\ job[b].kind \in Prunes
          /\ job[b].ahead = {} /\ job[b].todo = {} /\ Has(job[b].fresh) = {}

Covers(b) ==
    job[b].kind \in Prunes =>
        /\ job[b].pc \in Streaming => Owed(b) \subseteq Reached(b)
        /\ job[b].pc = "gathering" => job[b].scope = Projects
        /\ job[b].pc = "writing" => Owed(b) \subseteq job[b].seen

Cover == \A b \in Builders : Staged(b) /\ Covers(b)

\* A builder none of whose state changes is owed no more than before.
LEMMA OtherCovers ==
    ASSUME NEW b, Staged(b), Covers(b), job'[b] = job[b],
           graph' \subseteq graph, failed'[b] = failed[b], changed'[b] = changed[b]
    PROVE  Staged(b)' /\ Covers(b)'
BY DEF Staged, Covers, Reached, Ahead, Owed, Has

\* One whose job is not at a step the invariant speaks of is owed nothing.
LEMMA RestCovers ==
    ASSUME NEW b, job'[b].pc \notin Streaming \cup {"gathering", "writing"}
    PROVE  Staged(b)' /\ Covers(b)'
BY DEF Staged, Covers, Streaming

LEMMA ChangeCover ==
    ASSUME TypeOK, Cover, NEW p \in Projects, Publish(p) \/ Retype(p) \/ Retitle(p) \/ Remove(p)
    PROVE  Cover'
<1> SUFFICES ASSUME NEW b \in Builders PROVE Staged(b)' /\ Covers(b)'
  BY DEF Cover
<1>1. job' = job /\ failed' = failed /\ graph' \subseteq graph \cup {p}
  BY DEF Publish, Retype, Retitle, Remove, Change
<1>2. CASE b \in Active
  <2>1. changed'[b] = changed[b] \cup {p}
    BY <1>2 DEF Publish, Retype, Retitle, Remove, Change
  <2>2. Owed(b)' \subseteq Owed(b)
    BY <1>1, <2>1 DEF Owed
  <2> QED BY <1>1, <2>2 DEF Cover, Staged, Covers, Reached, Ahead, Has
<1>3. CASE b \notin Active
  BY <1>1, <1>3, RestCovers DEF Active, Streaming
<1> QED BY <1>2, <1>3

LEMMA BeginCover ==
    ASSUME TypeOK, Cover, NEW b \in Builders, Begin(b)
    PROVE  Cover'
<1>1. PICK j \in Started(b) : job' = [job EXCEPT ![b] = j]
  BY DEF Begin
<1>2. graph' = graph /\ \A c \in Builders \ {b} : failed'[c] = failed[c] /\ changed'[c] = changed[c]
  BY DEF Begin, pvars, TypeOK
<1>3. job'[b] = j
  BY <1>1 DEF TypeOK
<1>4. Has(NoRows) = {}
  BY DEF Has, NoRows
<1>5. Owed(b)' \subseteq Insured /\ Owed(b)' \subseteq Projects
  BY <1>2 DEF Owed, TypeOK
<1>6. Staged(b)' /\ Covers(b)'
  <2>1. CASE j \in {[NoJob EXCEPT !.kind = "all", !.pc = "listing", !.ahead = Institutions]}
    <3>1. /\ j.pc = "listing" /\ j.todo = {} /\ Has(j.fresh) = {} /\ j.ahead = Institutions
      BY <2>1, <1>4 DEF NoJob
    <3>2. Staged(b)'
      BY <1>3, <3>1 DEF Staged, Has
    <3>3. Covers(b)'
      BY <1>3, <1>5, <3>1 DEF Covers, Reached, Ahead, Insured
    <3> QED BY <3>2, <3>3
  <2>2. CASE j \in {[NoJob EXCEPT !.kind = "institution", !.pc = "listing", !.ahead = {I}] :
                      I \in Institutions}
    <3>1. j.kind = "institution" /\ j.pc = "listing" /\ j.todo = {} /\ Has(j.fresh) = {}
      BY <2>2, <1>4 DEF NoJob
    <3> QED BY <1>3, <3>1 DEF Staged, Covers, Prunes, Has
  <2>3. CASE j \in {[NoJob EXCEPT !.kind = "uris", !.pc = "gathering", !.scope = {p}] :
                      p \in Projects}
    <3>1. j.kind = "uris" /\ j.pc = "gathering"
      BY <2>3 DEF NoJob
    <3> QED BY <1>3, <3>1 DEF Staged, Covers, Prunes
  <2>4. CASE j \in {[NoJob EXCEPT !.kind = k, !.pc = "gathering", !.scope = Projects] :
                      k \in {"snapshot", "whole"}}
    <3>1. j.scope = Projects /\ j.pc = "gathering"
      BY <2>4 DEF NoJob
    <3> QED BY <1>3, <1>5, <3>1 DEF Staged, Covers, Streaming
  <2>5. CASE j \in {[NoJob EXCEPT !.kind = "refresh", !.pc = "dropping"],
                    [NoJob EXCEPT !.kind = "warm", !.pc = "fetching"]}
    <3>1. j.pc \in {"dropping", "fetching"}
      BY <2>5 DEF NoJob
    <3> QED BY <1>3, <3>1, RestCovers DEF Streaming
  <2> QED BY <2>1, <2>2, <2>3, <2>4, <2>5 DEF Started
<1>7. \A c \in Builders \ {b} : job'[c] = job[c]
  BY <1>1 DEF TypeOK
<1> QED BY <1>2, <1>6, <1>7, OtherCovers DEF Cover

LEMMA RestCover ==
    ASSUME TypeOK, Cover, NEW b \in Builders,
           \/ Finish(b) \/ Die(b) \/ Prune(b) \/ WriteAll(b)
           \/ Drop(b) \/ Fetch(b) \/ Put(b) \/ WarmFails(b)
    PROVE  Cover'
<1>1. UNCHANGED <<graph, changed, failed>> /\ \A c \in Builders \ {b} : job'[c] = job[c]
  BY DEF Finish, End, Die, Prune, WriteAll, Drop, Fetch, Put, WarmFails, pvars, gvars, TypeOK
<1>2. NoJob.pc = "idle"
  BY DEF NoJob
<1>3. job'[b].pc \in {"idle", "dropping", "fetching", "putting", "done"}
  BY JobFields, <1>2 DEF Finish, End, Die, Prune, WriteAll, Drop, Fetch, Put, WarmFails, Job
<1>4. Staged(b)' /\ Covers(b)'
  BY <1>3, RestCovers DEF Streaming
<1> QED BY <1>1, <1>4, OtherCovers DEF Cover

LEMMA StreamCover ==
    ASSUME TypeOK, Cover, NEW b \in Builders, List(b) \/ Load(b) \/ Process(b) \/ Flush(b)
    PROVE  Cover'
<1>1. /\ UNCHANGED <<graph, changed>>
      /\ \A c \in Builders \ {b} : job'[c] = job[c] /\ failed'[c] = failed[c]
  <2>1. CASE Process(b)
    <3>1. PICK left, rs, unwritten : Appended(b, left, rs, unwritten)
      BY <2>1, ProcessRows
    <3> QED BY <2>1, <3>1 DEF Appended, Process, pvars, TypeOK
  <2> QED BY <2>1 DEF List, Load, Flush, pvars, gvars, TypeOK
<1>2. Staged(b) /\ Covers(b) /\ job[b] \in Job
  BY JobFields DEF Cover
<1>3. Has(NoRows) = {}
  BY DEF Has, NoRows
<1>4. ASSUME List(b) PROVE Staged(b)' /\ Covers(b)'
  <2>1. PICK I \in job[b].ahead :
          job' = [job EXCEPT ![b].ahead = @ \ {I}, ![b].todo = I \cap graph, ![b].pc = "reading"]
    BY <1>4 DEF List
  <2>2. /\ job'[b].pc = "reading" /\ job'[b].kind = job[b].kind
        /\ job'[b].ahead = job[b].ahead \ {I} /\ job'[b].todo = I \cap graph
        /\ job'[b].fresh = job[b].fresh /\ job'[b].seen = job[b].seen
    BY <2>1, <1>2 DEF TypeOK, Job
  <2>3. job[b].pc = "listing" /\ failed' = failed
    BY <1>4 DEF List, gvars
  <2>4. job[b].todo = {} /\ Has(job[b].fresh) = {}
    BY <1>2, <2>3 DEF Staged
  <2>5. Staged(b)'
    BY <2>2, <2>4 DEF Staged, Has
  <2>6. ASSUME job[b].kind \in Prunes PROVE Owed(b)' \subseteq Reached(b)'
    <3>1. Owed(b)' = Owed(b) /\ Owed(b) \subseteq Reached(b)
      BY <1>1, <1>2, <2>3, <2>6 DEF Owed, Covers, Streaming
    <3>2. Ahead(b) \subseteq Ahead(b)' \cup I
      BY <2>2 DEF Ahead
    <3>3. Owed(b) \subseteq graph
      BY DEF Owed
    <3> QED BY <2>2, <2>4, <3>1, <3>2, <3>3 DEF Reached
  <2> QED BY <2>2, <2>5, <2>6 DEF Covers
<1>5. ASSUME Load(b) PROVE Staged(b)' /\ Covers(b)'
  <2>1. PICK batch \in SUBSET job[b].todo :
          /\ job' = [job EXCEPT ![b].todo = @ \ batch, ![b].pc = "processing",
                                ![b].fresh = Made(batch \cap stored)]
          /\ failed' = [failed EXCEPT ![b] = @ \cup (batch \ Has(Made(batch \cap stored)))]
    BY <1>5 DEF Load
  <2>2. /\ job'[b].pc = "processing" /\ job'[b].kind = job[b].kind
        /\ job'[b].ahead = job[b].ahead /\ job'[b].todo = job[b].todo \ batch
        /\ job'[b].fresh = Made(batch \cap stored) /\ job'[b].seen = job[b].seen
    BY <2>1, <1>2 DEF TypeOK, Job
  <2>3. job[b].pc = "reading"
    BY <1>5 DEF Load
  <2>4. Has(job[b].fresh) = {}
    BY <1>2, <2>3 DEF Staged
  <2> DEFINE made == Has(Made(batch \cap stored))
  <2>5. Has(job[b].fresh)' = made
    BY <2>2 DEF Has, Made, Visible
  <2>6. failed'[b] = failed[b] \cup (batch \ made)
    BY <2>1 DEF TypeOK
  <2> HIDE DEF made
  <2>7. ASSUME job[b].kind \in Prunes PROVE Owed(b)' \subseteq Reached(b)'
    <3>1. Owed(b) \subseteq Reached(b)
      BY <1>2, <2>3, <2>7 DEF Covers, Streaming
    <3>2. Owed(b)' \subseteq Owed(b) \ (batch \ made)
      BY <1>1, <2>6 DEF Owed
    <3>3. Ahead(b)' = Ahead(b)
      BY <2>2 DEF Ahead
    <3> QED BY <2>2, <2>4, <2>5, <3>1, <3>2, <3>3 DEF Reached
  <2> QED BY <2>2, <2>7 DEF Staged, Covers
<1>6. ASSUME Process(b) PROVE Staged(b)' /\ Covers(b)'
  <2>1. PICK left, rs, unwritten : Appended(b, left, rs, unwritten)
    BY <1>6, ProcessRows
  <2>2. /\ job'[b].pc = "reading" /\ job'[b].kind = job[b].kind
        /\ job'[b].ahead = job[b].ahead /\ job'[b].todo = job[b].todo
        /\ job'[b].fresh = NoRows /\ job'[b].seen = job[b].seen \cup Has(job[b].fresh)
    BY <2>1, <1>2 DEF TypeOK, Job, Appended
  <2>3. job[b].pc = "processing" /\ failed[b] \subseteq failed'[b]
    BY <1>6, <2>1 DEF Process, Appended, TypeOK
  <2>4. Has(job[b].fresh)' = {}
    BY <1>3, <2>2 DEF Has
  <2>5. ASSUME job[b].kind \in Prunes PROVE Owed(b)' \subseteq Reached(b)'
    <3>1. Owed(b) \subseteq Reached(b) /\ Owed(b)' \subseteq Owed(b)
      BY <1>1, <1>2, <2>3, <2>5 DEF Covers, Streaming, Owed
    <3>2. Ahead(b)' = Ahead(b)
      BY <2>2 DEF Ahead
    <3> QED BY <2>2, <3>1, <3>2 DEF Reached
  <2> QED BY <2>2, <2>4, <2>5 DEF Staged, Covers
<1>7. ASSUME Flush(b) PROVE Staged(b)' /\ Covers(b)'
  <2>1. job[b].pc = "reading" /\ job[b].todo = {} /\ failed' = failed
    BY <1>7 DEF Flush, gvars
  <2>2. CASE job' = [job EXCEPT ![b] = NoJob]
    <3>1. job'[b].pc = "idle"
      BY <2>2 DEF NoJob, TypeOK
    <3> QED BY <3>1, RestCovers DEF Streaming
  <2>3. CASE job' = [job EXCEPT ![b].buffer = NoRows, ![b].pc = AfterStream(job[b])]
    <3>1. /\ job'[b].pc = AfterStream(job[b]) /\ job'[b].kind = job[b].kind
          /\ job'[b].ahead = job[b].ahead /\ job'[b].todo = {}
          /\ job'[b].fresh = job[b].fresh /\ job'[b].seen = job[b].seen
      BY <2>1, <2>3, <1>2 DEF TypeOK, Job
    <3>2. Has(job[b].fresh) = {} /\ Has(job[b].fresh)' = {}
      BY <1>2, <2>1, <3>1 DEF Staged, Has
    <3>3. Staged(b)'
      BY <3>1, <3>2 DEF Staged, AfterStream
    <3>4. ASSUME job[b].kind \in Prunes PROVE Owed(b)' \subseteq Reached(b)'
      <4>1. Owed(b) \subseteq Reached(b) /\ Owed(b)' = Owed(b)
        BY <1>1, <1>2, <2>1, <3>4 DEF Covers, Streaming, Owed
      <4>2. Ahead(b)' = Ahead(b)
        BY <3>1 DEF Ahead
      <4> QED BY <2>1, <3>1, <3>2, <4>1, <4>2 DEF Reached
    <3>5. job'[b].pc \notin {"gathering", "writing"}
      BY <3>1 DEF AfterStream
    <3> QED BY <3>1, <3>3, <3>4, <3>5 DEF Covers
  <2> QED BY <1>7, <2>2, <2>3 DEF Flush
<1>8. Staged(b)' /\ Covers(b)'
  BY <1>4, <1>5, <1>6, <1>7
<1> QED BY <1>1, <1>8, OtherCovers DEF Cover

LEMMA GatherCover ==
    ASSUME TypeOK, Cover, NEW b \in Builders, Gather(b)
    PROVE  Cover'
<1> DEFINE found == job[b].scope \cap graph
           made == Made(found)
<1>1. /\ UNCHANGED <<graph, changed>>
      /\ \A c \in Builders \ {b} : job'[c] = job[c] /\ failed'[c] = failed[c]
  BY DEF Gather, pvars, TypeOK
<1>2. job[b] \in Job /\ job[b].pc = "gathering" /\ Covers(b)
  BY JobFields DEF Gather, Cover
<1>3. /\ job'[b].kind = job[b].kind /\ job'[b].seen = Has(made)
      /\ job'[b].pc \in {"done", "writing"}
  BY <1>2 DEF Gather, TypeOK, Job
<1>4. failed'[b] = found \ Has(made)
  BY DEF Gather, TypeOK
<1> HIDE DEF made
<1>5. ASSUME job[b].kind \in Prunes PROVE Owed(b)' \subseteq job'[b].seen
  <2>1. Owed(b)' \subseteq graph \ failed'[b]
    BY <1>1 DEF Owed
  <2>2. found = graph
    BY <1>2, <1>5 DEF Covers, TypeOK
  <2> QED BY <1>3, <1>4, <2>1, <2>2
<1>6. Staged(b)' /\ Covers(b)'
  BY <1>3, <1>5 DEF Staged, Covers, Streaming
<1> QED BY <1>1, <1>6, OtherCovers DEF Cover

LEMMA InitCover == Init => Cover
<1> SUFFICES ASSUME Init, NEW b \in Builders PROVE Staged(b) /\ Covers(b)
  BY DEF Cover
<1>1. job[b].pc = "idle"
  BY DEF Init, NoJob
<1> QED BY <1>1 DEF Staged, Covers, Streaming

LEMMA NextCover == TypeOK /\ Cover /\ [Next]_vars => Cover'
<1> SUFFICES ASSUME TypeOK, Cover, [Next]_vars PROVE Cover'
  OBVIOUS
<1>1. CASE UNCHANGED vars
  BY <1>1, OtherCovers DEF vars, pvars, gvars, Cover
<1>2. CASE Next
  BY <1>2, ChangeCover, BeginCover, RestCover, StreamCover, GatherCover DEF Next
<1> QED BY <1>1, <1>2

\* A row that is written to, or not touched, is not lost.
LEMMA WriteKeeps ==
    ASSUME TypeOK, NEW rs, NEW p \in Projects, row[p] # "none"
    PROVE  Upsert(row, rs)[p] # "none"
BY DEF Upsert

\* The steps at which a row is lost.
LEMMA LosingStep ==
    ASSUME TypeOK, Cover, Next, NEW p \in Projects, p \in graph', row[p] # "none", row'[p] = "none"
    PROVE  \E b \in Builders : /\ job[b].kind \in Prunes /\ p \notin job[b].seen
                               /\ job[b].pc \in {"pruning", "writing"}
<1>1. ASSUME NEW q \in Projects, Publish(q) \/ Retype(q) \/ Retitle(q) \/ Remove(q) PROVE FALSE
  BY <1>1 DEF Publish, Retype, Retitle, Remove, TypeOK, Rows
<1>2. ASSUME NEW b \in Builders,
             \/ Begin(b) \/ Finish(b) \/ Die(b) \/ List(b) \/ Load(b)
             \/ Gather(b) \/ Drop(b) \/ Fetch(b) \/ Put(b) \/ WarmFails(b)
      PROVE  FALSE
  BY <1>2 DEF Begin, Finish, End, Die, List, Load, Gather, Drop, Fetch, Put, WarmFails
<1>3. ASSUME NEW b \in Builders, Process(b) PROVE FALSE
  <2>1. PICK rs : row' = row \/ row' = Upsert(row, rs)
    BY <1>3, ProcessRows DEF Appended
  <2> QED BY <2>1, WriteKeeps
<1>4. ASSUME NEW b \in Builders, Flush(b) PROVE FALSE
  BY <1>4, WriteKeeps DEF Flush
<1>5. ASSUME NEW b \in Builders, WriteAll(b)
      PROVE  job[b].kind \in Prunes /\ p \notin job[b].seen /\ job[b].pc = "writing"
  BY <1>5, WriteKeeps DEF WriteAll, Pruned, Only
<1>6. ASSUME NEW b \in Builders, Prune(b)
      PROVE  job[b].kind \in Prunes /\ p \notin job[b].seen /\ job[b].pc = "pruning"
  BY <1>6 DEF Prune, Only, Cover, Staged
<1> QED BY <1>1, <1>2, <1>3, <1>4, <1>5, <1>6 DEF Next

\* Whichever rebuilds run together, whatever the institutions and the sizes of
\* the batches, a project of an institution keeps its row unless a rebuild of
\* everything could not process it or began before its last change: what
\* _rebuild_streaming prunes it has listed, loaded and seen.
THEOREM OthersAreSpared == Spec => PruneSparesOthers
<1>1. Init => TypeOK /\ Cover
  BY InitType, InitCover
<1>2. TypeOK /\ Cover /\ [Next]_vars => (TypeOK /\ Cover)'
  BY NextType, NextCover
<1>3. ASSUME TypeOK, Cover, Next, NEW p \in (UNION Institutions) \cap graph \cap graph',
             row[p] # "none", row'[p] = "none"
      PROVE  \E b \in Builders : job[b].kind \in Prunes /\ p \in failed[b] \cup changed[b]
  <2>1. p \in Insured /\ p \in graph /\ p \in graph'
    BY <1>3 DEF Insured
  <2>5. p \in Projects
    BY <1>3, <2>1 DEF TypeOK
  <2>2. PICK b \in Builders : /\ job[b].kind \in Prunes /\ p \notin job[b].seen
                              /\ job[b].pc \in {"pruning", "writing"}
    BY <1>3, <2>1, <2>5, LosingStep
  <2>3. Staged(b) /\ Covers(b)
    BY <1>3 DEF Cover
  <2>4. p \notin Owed(b)
    <3>1. CASE job[b].pc = "writing"
      BY <2>2, <2>3, <3>1 DEF Covers
    <3>2. CASE job[b].pc = "pruning"
      <4>1. Ahead(b) = {} /\ job[b].todo = {} /\ Has(job[b].fresh) = {}
        BY <2>3, <3>2 DEF Staged, Ahead
      <4>2. Owed(b) \subseteq job[b].seen
        BY <2>2, <2>3, <3>2, <4>1 DEF Covers, Streaming, Reached
      <4> QED BY <2>2, <4>2
    <3> QED BY <2>2, <3>1, <3>2
  <2> QED BY <2>1, <2>2, <2>4 DEF Owed
<1>4. TypeOK /\ Cover /\ [Next]_vars =>
        [\A p \in (UNION Institutions) \cap graph \cap graph' :
           row[p] # "none" /\ row'[p] = "none" =>
             \E b \in Builders : job[b].kind \in Prunes /\ p \in failed[b] \cup changed[b]]_vars
  <2> SUFFICES ASSUME TypeOK, Cover, [Next]_vars, ~UNCHANGED vars,
                      NEW p \in (UNION Institutions) \cap graph \cap graph',
                      row[p] # "none" /\ row'[p] = "none"
               PROVE  \E b \in Builders :
                         job[b].kind \in Prunes /\ p \in failed[b] \cup changed[b]
    OBVIOUS
  <2> QED BY <1>3
<1> QED BY <1>1, <1>2, <1>4, PTL DEF Spec, PruneSparesOthers
-----------------------------------------------------------------------------
(* A full rebuild alone.  Batches of LoadSize fill batch_rows up to exactly   *)
(* WriteSize when one is a multiple of the other (both are 50 in the code):   *)
(* no row is appended after a write.                                          *)

Aligned == \E k \in Nat : WriteSize = k * LoadSize

Alone == \A b \in Active \ crowded : Active \subseteq {b}

Full(b) == job[b].kind = "all" /\ job[b].pc # "idle" /\ b \notin crowded /\ failed[b] = {}

\* batch_rows holds whole batches and has room for one more.
Fitting(n) == n < WriteSize /\ \E m \in Nat : n = m * LoadSize

\* A project is ahead, listed, loaded or seen: one of these at a time.
Parted(b) ==
    /\ job[b].todo \cup Has(job[b].fresh) \cup job[b].seen
         \subseteq UNION (Institutions \ job[b].ahead)
    /\ job[b].todo \cap (Has(job[b].fresh) \cup job[b].seen) = {}
    /\ Has(job[b].fresh) \cap job[b].seen = {}
    /\ Has(job[b].buffer) \subseteq job[b].seen

Counted(b) ==
    /\ job[b].pc = "reading" /\ job[b].todo # {} => Fitting(Cardinality(Has(job[b].buffer)))
    /\ job[b].pc = "processing" =>
          /\ Fitting(Cardinality(Has(job[b].buffer)))
          /\ Cardinality(Has(job[b].fresh)) <= LoadSize
          /\ job[b].todo # {} => Cardinality(Has(job[b].fresh)) = LoadSize
    /\ job[b].pc \notin {"reading", "processing"} => Has(job[b].buffer) = {}

\* What a project that has not changed since owes to where the rebuild is.
Kept(b, p) ==
    /\ p \in job[b].todo => p \in graph
    /\ job[b].fresh[p] # "none" => p \in graph /\ job[b].fresh[p] = Visible(p)
    /\ job[b].buffer[p] # "none" => job[b].buffer[p] = Visible(p)
    /\ p \in job[b].seen => p \in graph /\ (row[p] = Visible(p) \/ job[b].buffer[p] # "none")
    /\ job[b].pc \in {"dropping", "fetching", "putting", "done"} /\ job[b].seen # {}
         => row[p] = Current(p)
    /\ job[b].pc \in {"fetching", "putting"} /\ job[b].heeded => cards = {}
    /\ job[b].pc = "putting" => (p \in job[b].read <=> row[p] = "shown")
    /\ job[b].pc = "done" /\ job[b].heeded => (p \in Listed <=> row[p] = "shown")

Right(b) == \A p \in Insured \ changed[b] : Kept(b, p)

Sound(b) == Parted(b) /\ Counted(b) /\ Right(b)

Streamed == \A b \in Builders : job[b].kind = "all" => job[b].pc \notin {"gathering", "writing"}

FullInv == Alone /\ Streamed /\ \A b \in Builders : Full(b) => Sound(b)

\* Whole batches: what has not reached the size of a write has room for a batch.
LEMMA Multiples ==
    ASSUME NEW m \in Nat, NEW k \in Nat, NEW n \in Nat, m * n < k * n
    PROVE  (m + 1) * n = m * n + n /\ m * n + n <= k * n
<1>1. m < k
  <2> SUFFICES ASSUME k <= m PROVE FALSE
    OBVIOUS
  <2>1. PICK d \in Nat : m = k + d
    BY SMT
  <2>2. m * n = k * n + d * n /\ d * n >= 0
    BY <2>1
  <2> QED BY <2>2
<1>2. PICK d \in Nat : k = (m + 1) + d
  BY <1>1
<1>3. k * n = (m + 1) * n + d * n /\ d * n >= 0 /\ (m + 1) * n = m * n + n
  BY <1>2
<1> QED BY <1>3

LEMMA FittingBatch ==
    ASSUME Aligned, NEW n \in Nat, Fitting(n)
    PROVE  /\ n + LoadSize <= WriteSize
           /\ n + LoadSize < WriteSize => Fitting(n + LoadSize)
<1>1. LoadSize \in Nat /\ WriteSize \in Nat
  BY CatalogueIndexAssumption
<1>2. PICK k \in Nat : WriteSize = k * LoadSize
  BY DEF Aligned
<1>3. PICK m \in Nat : n = m * LoadSize
  BY DEF Fitting
<1>4. n < WriteSize
  BY DEF Fitting
<1>5. (m + 1) * LoadSize = m * LoadSize + LoadSize /\ m * LoadSize + LoadSize <= k * LoadSize
  BY <1>1, <1>2, <1>3, <1>4, Multiples
<1>6. m + 1 \in Nat /\ n + LoadSize = (m + 1) * LoadSize
  BY <1>1, <1>3, <1>5
<1> QED BY <1>2, <1>3, <1>5, <1>6 DEF Fitting

LEMMA FittingNone == Has(NoRows) = {} /\ Fitting(Cardinality({}))
<1>1. Has(NoRows) = {}
  BY DEF Has, NoRows
<1>2. LoadSize \in Nat /\ WriteSize \in Nat /\ 0 < WriteSize
  BY CatalogueIndexAssumption
<1>3. 0 = 0 * LoadSize
  BY <1>2
<1>4. Cardinality({}) = 0
  BY FS_EmptySet
<1> QED BY <1>1, <1>2, <1>3, <1>4 DEF Fitting

\* The rows of a table are finitely many.
LEMMA HasFinite ==
    ASSUME NEW S, S \subseteq Projects
    PROVE  IsFiniteSet(S) /\ Cardinality(S) \in Nat
BY CatalogueIndexAssumption, FS_Subset, FS_CardinalityType

\* Rows of two disjoint tables are counted together.
LEMMA UpsertCount ==
    ASSUME NEW rs \in Rows, NEW new \in Rows, Has(rs) \cap Has(new) = {}
    PROVE  /\ Has(Upsert(rs, new)) = Has(rs) \cup Has(new)
           /\ Cardinality(Has(Upsert(rs, new))) = Cardinality(Has(rs)) + Cardinality(Has(new))
<1>1. Has(Upsert(rs, new)) = Has(rs) \cup Has(new)
  BY DEF Has, Upsert
<1>2. Has(rs) \subseteq Projects /\ Has(new) \subseteq Projects
  BY DEF Has
<1>3. /\ IsFiniteSet(Has(rs)) /\ Cardinality(Has(rs)) \in Nat
      /\ IsFiniteSet(Has(new)) /\ Cardinality(Has(new)) \in Nat
  BY <1>2, HasFinite
<1>4. Cardinality({}) = 0
  BY FS_EmptySet
<1>5. Cardinality(Has(rs) \cup Has(new))
        = Cardinality(Has(rs)) + Cardinality(Has(new)) - Cardinality(Has(rs) \cap Has(new))
  BY <1>3, FS_Union
<1>6. Cardinality(Has(rs) \cap Has(new)) = 0
  BY <1>4
<1>7. Cardinality(Has(rs) \cup Has(new)) = Cardinality(Has(rs)) + Cardinality(Has(new))
  BY <1>3, <1>5, <1>6
<1> QED BY <1>1, <1>7

\* The builder of a step that is not a beginning is the one that is alone.
LEMMA SameBuilder ==
    ASSUME TypeOK, FullInv, NEW b \in Builders, NEW c \in Builders, Full(b)',
           job[c].pc # "idle", crowded' = crowded,
           c # b => job'[b] = job[b]
    PROVE  c = b
BY DEF FullInv, Alone, Full, Active

LEMMA AloneStep ==
    ASSUME TypeOK, FullInv, [Next]_vars
    PROVE  Alone'
<1>1. ASSUME NEW b \in Builders, Begin(b) PROVE Alone'
  <2>1. Active' \subseteq Active \cup {b}
    BY <1>1 DEF Begin, Active, TypeOK
  <2>2. crowded' = IF Active = {} THEN {} ELSE crowded \cup Active \cup {b}
    BY <1>1 DEF Begin
  <2> QED BY <2>1, <2>2 DEF Alone
<1>2. ASSUME crowded' = crowded, \A b \in Builders : job'[b].pc # "idle" => job[b].pc # "idle"
      PROVE  Alone'
  BY <1>2 DEF FullInv, Alone, Active
<1>3. ASSUME NEW b \in Builders,
             \/ Finish(b) \/ Die(b) \/ List(b) \/ Load(b) \/ Process(b) \/ Flush(b) \/ Prune(b)
             \/ Gather(b) \/ WriteAll(b) \/ Drop(b) \/ Fetch(b) \/ Put(b) \/ WarmFails(b)
      PROVE  Alone'
  <2>1. crowded' = crowded /\ job[b].pc # "idle"
    BY <1>3 DEF Finish, End, Die, List, Load, Process, Flush, Prune, Gather, WriteAll, Drop,
                Fetch, Put, WarmFails, gvars
  <2>2. \A c \in Builders \ {b} : job'[c] = job[c]
    <3>1. CASE Process(b)
      <4>1. PICK left, rs, unwritten : Appended(b, left, rs, unwritten)
        BY <3>1, ProcessRows
      <4> QED BY <4>1 DEF Appended, TypeOK
    <3> QED BY <1>3, <3>1 DEF Finish, End, Die, List, Load, Flush, Prune, Gather, WriteAll, Drop,
                              Fetch, Put, WarmFails, TypeOK
  <2> QED BY <1>2, <2>1, <2>2
<1>4. ASSUME NEW p \in Projects, Publish(p) \/ Retype(p) \/ Retitle(p) \/ Remove(p) PROVE Alone'
  BY <1>2, <1>4 DEF Publish, Retype, Retitle, Remove, Change
<1>5. CASE UNCHANGED vars
  BY <1>2, <1>5 DEF vars, pvars, gvars
<1> QED BY <1>1, <1>3, <1>4, <1>5 DEF Next

\* Changes elsewhere are not owed to anybody; the project itself is exempt.
LEMMA ChangeSound ==
    ASSUME TypeOK, FullInv, NEW b \in Builders, Full(b)',
           NEW q \in Projects, Publish(q) \/ Retype(q) \/ Retitle(q) \/ Remove(q)
    PROVE  Sound(b)'
<1>1. /\ job' = job /\ failed' = failed /\ crowded' = crowded /\ cards' = cards
      /\ changed' = [c \in Builders |-> IF c \in Active THEN changed[c] \cup {q} ELSE {}]
  BY DEF Publish, Retype, Retitle, Remove, Change
<1>2. Full(b) /\ Sound(b) /\ b \in Active
  BY <1>1 DEF FullInv, Full, Active
<1>3. changed'[b] = changed[b] \cup {q}
  BY <1>1, <1>2
<1>4. ASSUME NEW p, p # q
      PROVE  /\ p \in graph' <=> p \in graph
             /\ p \in public' <=> p \in public
             /\ p \in titled' <=> p \in titled
             /\ row'[p] = row[p]
  <2>1. CASE Publish(q)
    BY <1>4, <2>1 DEF Publish
  <2>2. CASE Retype(q)
    BY <1>4, <2>2 DEF Retype
  <2>3. CASE Remove(q)
    BY <1>4, <2>3 DEF Remove, TypeOK, Rows
  <2>4. CASE Retitle(q)
    BY <1>4, <2>4 DEF Retitle
  <2> QED BY <2>1, <2>2, <2>3, <2>4
<1>5. Parted(b)' /\ Counted(b)'
  BY <1>1, <1>2 DEF Sound, Parted, Counted, Has, Fitting
<1>6. Right(b)'
  <2> SUFFICES ASSUME NEW p \in Insured \ changed'[b] PROVE Kept(b, p)'
    BY DEF Right, Insured
  <2>1. p # q /\ Kept(b, p)
    BY <1>2, <1>3 DEF Sound, Right
  <2>2. p \in Projects
    BY CatalogueIndexAssumption DEF Insured
  <2>3. (p \in Listed)' <=> p \in Listed
    BY <1>1, <1>4, <2>1, <2>2 DEF Listed
  <2> QED BY <1>1, <1>4, <2>1, <2>3 DEF Kept, Visible, Current
<1> QED BY <1>5, <1>6 DEF Sound

LEMMA BeginSound ==
    ASSUME TypeOK, FullInv, NEW b \in Builders, Full(b)', NEW c \in Builders, Begin(c)
    PROVE  Sound(b)'
<1>1. PICK j \in Started(c) : job' = [job EXCEPT ![c] = j]
  BY DEF Begin
<1>2. crowded' = IF Active = {} THEN {} ELSE crowded \cup Active \cup {c}
  BY DEF Begin
<1>3. c = b
  BY <1>1, <1>2 DEF Full, Active, TypeOK
<1>4. job'[b] = j /\ j.kind = "all"
  BY <1>1, <1>3 DEF Full, TypeOK
<1>5. j = [NoJob EXCEPT !.kind = "all", !.pc = "listing", !.ahead = Institutions]
  <2>1. ASSUME NEW I, j = [NoJob EXCEPT !.kind = "institution", !.pc = "listing", !.ahead = {I}]
        PROVE  FALSE
    BY <1>4, <2>1 DEF NoJob
  <2>2. ASSUME NEW p, j = [NoJob EXCEPT !.kind = "uris", !.pc = "gathering", !.scope = {p}]
        PROVE  FALSE
    BY <1>4, <2>2 DEF NoJob
  <2>3. ASSUME NEW k \in {"snapshot", "whole"},
               j = [NoJob EXCEPT !.kind = k, !.pc = "gathering", !.scope = Projects]
        PROVE  FALSE
    BY <1>4, <2>3 DEF NoJob
  <2>4. /\ j # [NoJob EXCEPT !.kind = "refresh", !.pc = "dropping"]
        /\ j # [NoJob EXCEPT !.kind = "warm", !.pc = "fetching"]
    BY <1>4 DEF NoJob
  <2> QED BY <2>1, <2>2, <2>3, <2>4 DEF Started
<1>6. /\ j.pc = "listing" /\ j.todo = {} /\ j.seen = {} /\ j.fresh = NoRows /\ j.buffer = NoRows
  BY <1>5 DEF NoJob
<1>7. Has(job[b].fresh)' = {} /\ Has(job[b].buffer)' = {}
  BY <1>4, <1>6 DEF Has, NoRows
<1>8. Parted(b)' /\ Counted(b)'
  BY <1>4, <1>6, <1>7 DEF Parted, Counted, Has
<1>9. Right(b)'
  <2> SUFFICES ASSUME NEW p \in Insured PROVE Kept(b, p)'
    BY DEF Right, Insured
  <2>1. p \in Projects
    BY CatalogueIndexAssumption DEF Insured
  <2>2. NoRows[p] = "none"
    BY <2>1 DEF NoRows
  <2> QED BY <1>4, <1>6, <2>2 DEF Kept
<1> QED BY <1>4, <1>6, <1>8, <1>9 DEF Sound

\* What a step of the rebuild leaves alone.
Still == UNCHANGED <<stored, graph, public, titled, broken, changed, crowded>>

LEMMA InsuredProjects == Insured \subseteq Projects
BY CatalogueIndexAssumption DEF Insured

LEMMA ListSound ==
    ASSUME TypeOK, Cover, FullInv, NEW b \in Builders, Full(b)', List(b)
    PROVE  Sound(b)'
<1>1. PICK I \in job[b].ahead :
        job' = [job EXCEPT ![b].ahead = @ \ {I}, ![b].todo = I \cap graph, ![b].pc = "reading"]
  BY DEF List
<1>2. /\ job[b].pc = "listing" /\ Still /\ failed' = failed /\ row' = row
  BY DEF List, pvars, gvars, Still
<1>3. job[b] \in Job /\ job \in [Builders -> Job] /\ job[b].ahead \subseteq Institutions
  BY JobFields
<1>4. /\ job'[b].pc = "reading" /\ job'[b].kind = job[b].kind
      /\ job'[b].ahead = job[b].ahead \ {I} /\ job'[b].todo = I \cap graph
      /\ job'[b].fresh = job[b].fresh /\ job'[b].seen = job[b].seen
      /\ job'[b].buffer = job[b].buffer
  BY <1>1, <1>3 DEF Job
<1>5. Full(b) /\ Sound(b)
  BY <1>2, <1>4 DEF Full, FullInv, Still
<1>6. Has(job[b].fresh) = {} /\ Has(job[b].buffer) = {}
  BY <1>2, <1>5 DEF Cover, Staged, Sound, Counted
<1>7. Has(job[b].fresh)' = {} /\ Has(job[b].buffer)' = {}
  BY <1>4, <1>6 DEF Has
<1>8. Parted(b)'
  <2>1. job[b].seen \subseteq UNION (Institutions \ job[b].ahead)
    BY <1>5 DEF Sound, Parted
  <2>2. I \in Institutions /\ \A J \in Institutions \ job[b].ahead : I \cap J = {}
    BY <1>3, CatalogueIndexAssumption
  <2>3. job[b].seen \cap I = {}
    BY <2>1, <2>2
  <2>4. I \subseteq UNION (Institutions \ job'[b].ahead)
    BY <1>4, <2>2
  <2>5. UNION (Institutions \ job[b].ahead) \subseteq UNION (Institutions \ job'[b].ahead)
    BY <1>4
  <2>6. (I \cap graph) \cup {} \cup job[b].seen \subseteq UNION (Institutions \ job'[b].ahead)
    BY <2>1, <2>4, <2>5
  <2>7. (I \cap graph) \cap ({} \cup job[b].seen) = {}
    BY <2>3
  <2> QED BY <1>4, <1>7, <2>6, <2>7 DEF Parted, Has
<1>9. Counted(b)'
  BY <1>4, <1>7, FittingNone DEF Counted, Has, Fitting
<1>10. Right(b)'
  <2> SUFFICES ASSUME NEW p \in Insured \ changed[b] PROVE Kept(b, p)'
    BY <1>2 DEF Right, Insured, Still
  <2>1. Kept(b, p)
    BY <1>5 DEF Sound, Right
  <2> QED BY <1>2, <1>4, <2>1 DEF Kept, Still, Visible
<1> QED BY <1>4, <1>8, <1>9, <1>10 DEF Sound

LEMMA LoadSound ==
    ASSUME TypeOK, Cover, FullInv, NEW b \in Builders, Full(b)', Load(b)
    PROVE  Sound(b)'
<1>1. PICK batch \in SUBSET job[b].todo :
        /\ batch = job[b].todo \/ Cardinality(batch) = LoadSize
        /\ Cardinality(batch) <= LoadSize
        /\ job' = [job EXCEPT ![b].todo = @ \ batch, ![b].pc = "processing",
                              ![b].fresh = Made(batch \cap stored)]
        /\ failed' = [failed EXCEPT ![b] = @ \cup (batch \ Has(Made(batch \cap stored)))]
  BY DEF Load
<1>2. /\ job[b].pc = "reading" /\ job[b].todo # {} /\ Still /\ row' = row
  BY DEF Load, pvars, Still
<1>3. job[b] \in Job /\ job \in [Builders -> Job] /\ job[b].todo \subseteq Projects
  BY JobFields
<1>4. /\ job'[b].pc = "processing" /\ job'[b].kind = job[b].kind
      /\ job'[b].ahead = job[b].ahead /\ job'[b].todo = job[b].todo \ batch
      /\ job'[b].fresh = Made(batch \cap stored) /\ job'[b].seen = job[b].seen
      /\ job'[b].buffer = job[b].buffer
  BY <1>1, <1>3 DEF Job
<1>5. failed'[b] = failed[b] \cup (batch \ Has(Made(batch \cap stored)))
  BY <1>1 DEF TypeOK
<1>6. failed[b] = {} /\ batch \subseteq Has(Made(batch \cap stored))
  BY <1>5 DEF Full
<1>7. Full(b) /\ Sound(b)
  BY <1>2, <1>4, <1>6 DEF Full, FullInv, Still
<1>8. Has(job[b].fresh) = {}
  BY <1>2, <1>7 DEF Cover, Staged
<1>9. Has(job[b].fresh)' = batch
  <2>1. Has(Made(batch \cap stored)) \subseteq batch
    BY DEF Has, Made
  <2> QED BY <1>4, <1>6, <2>1 DEF Has, Made, Visible
<1>10. Has(job[b].buffer)' = Has(job[b].buffer)
  BY <1>4 DEF Has
<1>11. Parted(b)'
  BY <1>4, <1>7, <1>8, <1>9, <1>10 DEF Sound, Parted
<1>12. Counted(b)'
  <2>1. Fitting(Cardinality(Has(job[b].buffer)))
    BY <1>2, <1>7 DEF Sound, Counted
  <2>2. job'[b].todo # {} => Cardinality(batch) = LoadSize
    BY <1>1, <1>4
  <2>3. Fitting(Cardinality(Has(job[b].buffer)))'
    BY <1>10, <2>1 DEF Fitting
  <2> QED BY <1>1, <1>4, <1>9, <2>2, <2>3 DEF Counted
<1>13. Right(b)'
  <2> SUFFICES ASSUME NEW p \in Insured \ changed[b] PROVE Kept(b, p)'
    BY <1>2 DEF Right, Insured, Still
  <2>1. Kept(b, p) /\ p \in Projects
    BY <1>7, InsuredProjects DEF Sound, Right
  <2>2. Made(batch \cap stored)[p] # "none"
        => p \in batch /\ Made(batch \cap stored)[p] = Visible(p)
    BY <2>1 DEF Made
  <2>3. Visible(p)' = Visible(p) /\ graph' = graph
    BY <1>2 DEF Still, Visible
  <2> QED BY <1>2, <1>4, <2>1, <2>2, <2>3 DEF Kept
<1> QED BY <1>4, <1>11, <1>12, <1>13 DEF Sound
\* A batch that reaches the size of a write fills it exactly: all of it is written.
LEMMA OverflowFits ==
    ASSUME Aligned, TypeOK, NEW b \in Builders, Parted(b), Fitting(Cardinality(Has(job[b].buffer))),
           Cardinality(Has(job[b].fresh)) <= LoadSize, Overflows(b),
           NEW S \in SUBSET Has(job[b].fresh),
           Cardinality(S) = IF Room(b) < 1 THEN 1 ELSE Room(b)
    PROVE  S = Has(job[b].fresh)
<1> DEFINE B == Has(job[b].buffer)
           F == Has(job[b].fresh)
<1>1. B \subseteq Projects /\ F \subseteq Projects /\ S \subseteq Projects
  BY DEF Has
<1>2. /\ IsFiniteSet(F) /\ Cardinality(F) \in Nat /\ Cardinality(B) \in Nat
      /\ IsFiniteSet(S) /\ Cardinality(S) \in Nat
  BY <1>1, HasFinite
<1>3. B \cap F = {}
  BY DEF Parted
<1>4. Cardinality(Has(Upsert(job[b].buffer, job[b].fresh))) = Cardinality(B) + Cardinality(F)
  BY <1>3, JobFields, UpsertCount
<1>5. Cardinality(B) + LoadSize <= WriteSize
  BY <1>2, FittingBatch
<1>6. LoadSize \in Nat \ {0} /\ WriteSize \in Nat
  BY CatalogueIndexAssumption
<1>7. ~(Cardinality(B) + Cardinality(F) < WriteSize)
  BY <1>4 DEF Overflows
<1>8. Cardinality(S) = IF WriteSize - Cardinality(B) < 1 THEN 1 ELSE WriteSize - Cardinality(B)
  BY DEF Room
<1>9. Cardinality(F) <= LoadSize
  OBVIOUS
<1> HIDE DEF B, F
<1>10. Cardinality(S) = Cardinality(F)
  BY <1>2, <1>5, <1>6, <1>7, <1>8, <1>9
<1>11. S \subseteq F
  BY DEF F
<1> QED BY <1>2, <1>10, <1>11, FS_Subset DEF F

\* What stays in the list, or is written, when no write fails.
LEMMA ProcessSound ==
    ASSUME Aligned, TypeOK, Cover, FullInv, NEW b \in Builders, Full(b)', Process(b)
    PROVE  Sound(b)'
<1> DEFINE B == Has(job[b].buffer)
           F == Has(job[b].fresh)
           all == Upsert(job[b].buffer, job[b].fresh)
<1>1. job[b].pc = "processing" /\ Still
  BY DEF Process, pvars, Still
<1>2. job[b] \in Job /\ job \in [Builders -> Job] /\ job[b].fresh \in Rows /\ job[b].buffer \in Rows
  BY JobFields
<1>3. PICK left, rs, unwritten :
         /\ Appended(b, left, rs, unwritten)
         /\ \/ ~Overflows(b) /\ left = all /\ rs = row
            \/ /\ Overflows(b)
               /\ \E S \in SUBSET F :
                    /\ Cardinality(S) = IF Room(b) < 1 THEN 1 ELSE Room(b)
                    /\ \/ left = NoRows /\ rs = Upsert(row, Out(b, S))
                       \/ unwritten # {}
  <2>1. CASE ~Overflows(b)
    BY <2>1, ProcessCases DEF AppendedAll
  <2>2. CASE Overflows(b)
    <3>1. PICK S \in SUBSET F :
             /\ Cardinality(S) = IF Room(b) < 1 THEN 1 ELSE Room(b)
             /\ \/ Appended(b, NoRows, Upsert(row, Out(b, S)), {})
                \/ /\ ~(Has(Out(b, S)) \subseteq stored)
                   /\ AppendedAll(b, Has(Out(b, S)) \ stored)
      BY <2>2, ProcessCases
    <3>2. CASE Appended(b, NoRows, Upsert(row, Out(b, S)), {})
      BY <2>2, <3>1, <3>2
    <3>3. CASE /\ ~(Has(Out(b, S)) \subseteq stored)
               /\ AppendedAll(b, Has(Out(b, S)) \ stored)
      <4>1. Has(Out(b, S)) \ stored # {}
        BY <3>3
      <4> QED BY <2>2, <3>1, <3>3, <4>1 DEF AppendedAll
    <3> QED BY <3>1, <3>2, <3>3
  <2> QED BY <2>1, <2>2
<1>4. /\ job'[b].pc = "reading" /\ job'[b].kind = job[b].kind
      /\ job'[b].ahead = job[b].ahead /\ job'[b].todo = job[b].todo
      /\ job'[b].fresh = NoRows /\ job'[b].seen = job[b].seen \cup F
      /\ job'[b].buffer = left /\ row' = rs
  BY <1>2, <1>3 DEF Job, Appended
<1>5. failed'[b] = failed[b] \cup unwritten
  BY <1>3 DEF Appended, TypeOK
<1>6. failed[b] = {} /\ unwritten = {}
  BY <1>5 DEF Full
<1>7. Full(b) /\ Sound(b)
  BY <1>1, <1>4, <1>6 DEF Full, FullInv, Still
<1>8. Parted(b) /\ Counted(b) /\ Right(b)
  BY <1>7 DEF Sound
<1>9. /\ Fitting(Cardinality(B)) /\ Cardinality(F) <= LoadSize
      /\ job[b].todo # {} => Cardinality(F) = LoadSize
  BY <1>1, <1>8 DEF Counted
<1>10. \/ ~Overflows(b) /\ left = all /\ rs = row
       \/ left = NoRows /\ rs = Upsert(row, Out(b, F))
  BY <1>3, <1>6, <1>8, <1>9, OverflowFits
<1>11. B \cap F = {} /\ B \subseteq Projects /\ F \subseteq Projects
  BY <1>8 DEF Parted, Has
<1>12. /\ Has(all) = B \cup F
       /\ Cardinality(Has(all)) = Cardinality(B) + Cardinality(F)
  BY <1>2, <1>11, UpsertCount
<1>13. Has(job[b].fresh)' = {} /\ Has(job[b].buffer)' = Has(left)
  BY <1>4, FittingNone DEF Has
<1>14. Has(left) \subseteq B \cup F
  BY <1>10, <1>12, FittingNone
<1>15. Parted(b)'
  BY <1>4, <1>8, <1>13, <1>14 DEF Parted
<1>16. Counted(b)'
  <2> SUFFICES ASSUME job[b].todo # {} PROVE Fitting(Cardinality(Has(left)))
    <3>1. Fitting(Cardinality(Has(job[b].buffer)))' <=> Fitting(Cardinality(Has(left)))
      BY <1>13 DEF Fitting
    <3> QED BY <1>4, <3>1 DEF Counted
  <2>1. CASE left = NoRows
    BY <2>1, FittingNone
  <2>2. CASE ~Overflows(b) /\ left = all
    <3>1. Cardinality(Has(all)) = Cardinality(B) + LoadSize
      BY <1>9, <1>12
    <3>2. Cardinality(Has(all)) < WriteSize
      <4>1. CASE job[b].fresh = NoRows
        <5>1. Cardinality(F) = 0
          BY <4>1, FittingNone, FS_EmptySet
        <5> QED BY <5>1, <1>9, CatalogueIndexAssumption
      <4>2. CASE job[b].fresh # NoRows
        BY <2>2, <4>2 DEF Overflows
      <4> QED BY <4>1, <4>2
    <3>3. Cardinality(B) \in Nat
      BY <1>11, HasFinite
    <3> QED BY <1>9, <2>2, <3>1, <3>2, <3>3, FittingBatch
  <2> QED BY <1>10, <2>1, <2>2
<1>17. Right(b)'
  <2> SUFFICES ASSUME NEW p \in Insured \ changed[b] PROVE Kept(b, p)'
    BY <1>1 DEF Right, Insured, Still
  <2>1. Kept(b, p) /\ p \in Projects
    BY <1>8, InsuredProjects DEF Right
  <2>2. p \in F <=> job[b].fresh[p] # "none"
    BY <2>1 DEF Has
  <2>3. NoRows[p] = "none" /\ Visible(p) # "none"
    BY <2>1 DEF NoRows, Visible
  <2>4. Visible(p)' = Visible(p) /\ graph' = graph
    BY <1>1 DEF Still, Visible
  <2>5. CASE left = all /\ rs = row
    <3>1. all[p] = IF job[b].fresh[p] = "none" THEN job[b].buffer[p] ELSE job[b].fresh[p]
      BY <2>1 DEF Upsert
    <3> HIDE DEF all, F
    <3> QED BY <1>4, <2>1, <2>2, <2>3, <2>4, <2>5, <3>1 DEF Kept
  <2>6. CASE left = NoRows /\ rs = Upsert(row, Out(b, F))
    <3>1. Out(b, F)[p] = IF job[b].fresh[p] = "none" THEN job[b].buffer[p] ELSE job[b].fresh[p]
      BY <2>1, <2>2 DEF Out, Upsert, Only
    <3>2. rs[p] = IF Out(b, F)[p] = "none" THEN row[p] ELSE Out(b, F)[p]
      BY <2>1, <2>6 DEF Upsert
    <3> HIDE DEF F
    <3> QED BY <1>4, <2>1, <2>2, <2>3, <2>4, <2>6, <3>1, <3>2 DEF Kept
  <2> QED BY <1>10, <2>5, <2>6
<1> QED BY <1>4, <1>15, <1>16, <1>17 DEF Sound

LEMMA FlushSound ==
    ASSUME TypeOK, Cover, FullInv, NEW b \in Builders, Full(b)', Flush(b)
    PROVE  Sound(b)'
<1>1. job[b].pc = "reading" /\ job[b].todo = {} /\ Still /\ failed' = failed
  BY DEF Flush, pvars, gvars, Still
<1>2. job[b] \in Job /\ job \in [Builders -> Job]
  BY JobFields
<1>3. /\ row' = Upsert(row, job[b].buffer)
      /\ job' = [job EXCEPT ![b].buffer = NoRows, ![b].pc = AfterStream(job[b])]
  <2>1. CASE job' = [job EXCEPT ![b] = NoJob]
    BY <1>2, <2>1 DEF Full, NoJob
  <2> QED BY <2>1 DEF Flush
<1>4. /\ job'[b].pc = AfterStream(job[b]) /\ job'[b].kind = job[b].kind
      /\ job'[b].ahead = job[b].ahead /\ job'[b].todo = {}
      /\ job'[b].fresh = job[b].fresh /\ job'[b].seen = job[b].seen
      /\ job'[b].buffer = NoRows
  BY <1>1, <1>2, <1>3 DEF Job
<1>5. Full(b) /\ Sound(b)
  BY <1>1, <1>4 DEF Full, FullInv, Still
<1>6. job'[b].pc \in {"listing", "pruning"}
  BY <1>4, <1>5 DEF AfterStream, Full, Prunes
<1>7. Has(job[b].buffer)' = {} /\ Has(job[b].fresh)' = Has(job[b].fresh)
  BY <1>4, FittingNone DEF Has
<1>8. Parted(b)' /\ Counted(b)'
  BY <1>4, <1>5, <1>6, <1>7 DEF Sound, Parted, Counted
<1>9. Right(b)'
  <2> SUFFICES ASSUME NEW p \in Insured \ changed[b] PROVE Kept(b, p)'
    BY <1>1 DEF Right, Insured, Still
  <2>1. Kept(b, p) /\ p \in Projects
    BY <1>5, InsuredProjects DEF Sound, Right
  <2>2. NoRows[p] = "none" /\ Visible(p)' = Visible(p) /\ graph' = graph
    BY <1>1, <2>1 DEF NoRows, Visible, Still
  <2>3. row'[p] = IF job[b].buffer[p] = "none" THEN row[p] ELSE job[b].buffer[p]
    BY <1>3, <2>1 DEF Upsert
  <2> QED BY <1>4, <1>6, <2>1, <2>2, <2>3 DEF Kept
<1> QED BY <1>6, <1>8, <1>9 DEF Sound

\* Pruning drops the rows of projects that are not in the graph, and no other.
LEMMA PruneSound ==
    ASSUME TypeOK, Cover, FullInv, NEW b \in Builders, Full(b)', Prune(b)
    PROVE  Sound(b)'
<1>1. /\ job[b].pc = "pruning" /\ Still /\ failed' = failed
      /\ row' = IF job[b].seen = {} THEN row ELSE Only(row, job[b].seen)
  BY DEF Prune, pvars, gvars, Still
<1>2. job[b] \in Job /\ job \in [Builders -> Job]
  BY JobFields
<1>3. /\ job'[b].pc = "dropping" /\ job'[b].kind = job[b].kind
      /\ job'[b].ahead = job[b].ahead /\ job'[b].todo = job[b].todo
      /\ job'[b].fresh = job[b].fresh /\ job'[b].seen = job[b].seen
      /\ job'[b].buffer = job[b].buffer
  BY <1>2 DEF Prune, Job
<1>4. Full(b) /\ Sound(b)
  BY <1>1, <1>3 DEF Full, FullInv, Still
<1>5. Has(job[b].buffer)' = Has(job[b].buffer) /\ Has(job[b].fresh)' = Has(job[b].fresh)
  BY <1>3 DEF Has
<1>6. Parted(b)' /\ Counted(b)'
  BY <1>1, <1>3, <1>4, <1>5 DEF Sound, Parted, Counted
<1>7. Owed(b) \subseteq job[b].seen
  <2>1. Staged(b) /\ Covers(b) /\ job[b].kind \in Prunes
    BY <1>4 DEF Cover, Full, Prunes
  <2>2. Ahead(b) = {} /\ job[b].todo = {} /\ Has(job[b].fresh) = {}
    BY <1>1, <2>1 DEF Staged, Ahead
  <2> QED BY <1>1, <2>1, <2>2 DEF Covers, Streaming, Reached
<1>8. Right(b)'
  <2> SUFFICES ASSUME NEW p \in Insured \ changed[b] PROVE Kept(b, p)'
    BY <1>1 DEF Right, Insured, Still
  <2>1. Kept(b, p) /\ p \in Projects
    BY <1>4, InsuredProjects DEF Sound, Right
  <2>2. job[b].buffer[p] = "none"
    BY <1>1, <1>4, <2>1 DEF Sound, Counted, Has
  <2>3. p \in graph => p \in job[b].seen
    BY <1>4, <1>7 DEF Owed, Full
  <2>4. job[b].seen # {} => row'[p] = IF p \in job[b].seen THEN row[p] ELSE "none"
    BY <1>1, <2>1 DEF Only
  <2>5. Visible(p)' = Visible(p) /\ Current(p)' = Current(p) /\ graph' = graph
    BY <1>1 DEF Still, Visible, Current
  <2>6. job[b].seen # {} => row'[p] = Current(p)
    BY <2>1, <2>2, <2>3, <2>4 DEF Kept, Current
  <2>7. p \in job[b].seen => p \in graph /\ row'[p] = Visible(p)
    BY <2>1, <2>2, <2>4 DEF Kept
  <2> QED BY <1>3, <2>1, <2>5, <2>6, <2>7 DEF Kept
<1> QED BY <1>3, <1>6, <1>8 DEF Sound

\* The cards are those of the rows, which nobody else writes.
LEMMA CardsSound ==
    ASSUME TypeOK, FullInv, NEW b \in Builders, Full(b)',
           Drop(b) \/ Fetch(b) \/ Put(b) \/ WarmFails(b)
    PROVE  Sound(b)'
<1>1. Still /\ failed' = failed /\ row' = row
  BY DEF Drop, Fetch, Put, WarmFails, pvars, gvars, Still
<1>2. job[b] \in Job /\ job \in [Builders -> Job]
  BY JobFields
<1>3. /\ job[b].pc # "idle" /\ job'[b].kind = job[b].kind
      /\ job'[b].ahead = job[b].ahead /\ job'[b].todo = job[b].todo
      /\ job'[b].fresh = job[b].fresh /\ job'[b].seen = job[b].seen
      /\ job'[b].buffer = job[b].buffer
  <2>1. CASE Put(b)
    <3>1. PICK h \in BOOLEAN :
            job' = [job EXCEPT ![b].pc = "done", ![b].read = {}, ![b].heeded = @ \/ h]
      BY <2>1 DEF Put
    <3> DEFINE g == job[b].heeded \/ h
    <3>2. job' = [job EXCEPT ![b] = [job[b] EXCEPT !.pc = "done", !.read = {}, !.heeded = g]]
      BY <3>1
    <3> HIDE DEF g
    <3> QED BY <1>2, <2>1, <3>2 DEF Put, Job
  <2> QED BY <1>2, <2>1 DEF Drop, Fetch, WarmFails, Job
<1>4. \/ /\ job[b].pc = "dropping" /\ job'[b].pc = "fetching"
         /\ job'[b].heeded => cards' = {}
      \/ /\ job[b].pc = "fetching" /\ job'[b].pc = "putting"
         /\ job'[b].read = {p \in Projects : row[p] = "shown"}
         /\ cards' = cards /\ job'[b].heeded = job[b].heeded
      \/ /\ job[b].pc = "putting" /\ job'[b].pc = "done"
         /\ \/ cards' = job[b].read
            \/ cards' = cards /\ job'[b].heeded = job[b].heeded
      \/ /\ job[b].pc \in {"fetching", "putting"} /\ job'[b].pc = "done"
         /\ cards' = cards /\ job'[b].heeded = job[b].heeded
  <2>1. CASE Drop(b)
    <3>1. PICK h \in BOOLEAN :
            /\ cards' = IF h THEN {} ELSE cards
            /\ job' = [job EXCEPT ![b] = [job[b] EXCEPT !.pc = "fetching", !.heeded = h]]
      BY <2>1 DEF Drop
    <3>2. job[b].pc = "dropping" /\ job'[b].pc = "fetching" /\ job'[b].heeded = h
      BY <1>2, <2>1, <3>1 DEF Drop, Job
    <3> QED BY <3>1, <3>2
  <2>2. CASE Fetch(b)
    BY <1>2, <2>2 DEF Fetch, Job
  <2>3. CASE Put(b)
    <3>1. PICK h \in BOOLEAN :
            /\ cards' = IF h THEN job[b].read ELSE cards
            /\ job' = [job EXCEPT ![b].pc = "done", ![b].read = {}, ![b].heeded = @ \/ h]
      BY <2>3 DEF Put
    <3>2. job[b].pc = "putting" /\ job'[b].pc = "done" /\ job'[b].heeded = (job[b].heeded \/ h)
      BY <1>2, <2>3, <3>1 DEF Put, Job
    <3> QED BY <1>2, <3>1, <3>2 DEF Job
  <2>4. CASE WarmFails(b)
    BY <1>2, <2>4 DEF WarmFails, Job
  <2> QED BY <2>1, <2>2, <2>3, <2>4
<1>5. Full(b) /\ Sound(b)
  BY <1>1, <1>3 DEF Full, FullInv, Still
<1>6. Has(job[b].buffer)' = Has(job[b].buffer) /\ Has(job[b].fresh)' = Has(job[b].fresh)
  BY <1>3 DEF Has
<1>7. Parted(b)' /\ Counted(b)'
  BY <1>3, <1>4, <1>5, <1>6 DEF Sound, Parted, Counted
<1>8. Right(b)'
  <2> SUFFICES ASSUME NEW p \in Insured \ changed[b] PROVE Kept(b, p)'
    BY <1>1 DEF Right, Insured, Still
  <2>1. Kept(b, p) /\ p \in Projects
    BY <1>5, InsuredProjects DEF Sound, Right
  <2>2. Visible(p)' = Visible(p) /\ Current(p)' = Current(p) /\ graph' = graph /\ row'[p] = row[p]
    BY <1>1 DEF Still, Visible, Current
  <2>3. Listed' = IF cards' # {} THEN cards' ELSE {q \in Projects : row[q] = "shown"}
    BY <1>1 DEF Listed
  <2>4. /\ job'[b].pc \in {"fetching", "putting"} /\ job'[b].heeded => cards' = {}
        /\ job'[b].pc = "putting" => (p \in job'[b].read <=> row[p] = "shown")
        /\ job'[b].pc = "done" /\ job'[b].heeded => (p \in Listed' <=> row[p] = "shown")
    BY <1>4, <2>1, <2>3 DEF Kept
  <2>5. job[b].pc \in {"dropping", "fetching", "putting", "done"} /\ job'[b].pc # "pruning"
    BY <1>4
  <2> QED BY <1>3, <2>1, <2>2, <2>4, <2>5 DEF Kept
<1> QED BY <1>4, <1>7, <1>8 DEF Sound

LEMMA BuilderSound ==
    ASSUME Aligned, TypeOK, Cover, FullInv, NEW b \in Builders, Full(b)', NEW c \in Builders,
           \/ Finish(c) \/ Die(c) \/ List(c) \/ Load(c) \/ Process(c) \/ Flush(c) \/ Prune(c)
           \/ Gather(c) \/ WriteAll(c) \/ Drop(c) \/ Fetch(c) \/ Put(c) \/ WarmFails(c)
    PROVE  Sound(b)'
<1>1. job[c].pc # "idle" /\ crowded' = crowded /\ (c # b => job'[b] = job[b])
  <2>1. CASE Process(c)
    <3>1. PICK left, rs, unwritten : Appended(c, left, rs, unwritten)
      BY <2>1, ProcessRows
    <3> QED BY <2>1, <3>1 DEF Process, Appended, TypeOK
  <2> QED BY <2>1 DEF Finish, End, Die, List, Load, Flush, Prune, Gather, WriteAll, Drop,
                      Fetch, Put, WarmFails, gvars, TypeOK
<1>2. c = b
  BY <1>1, SameBuilder
<1>3. ASSUME Finish(b) \/ Die(b) PROVE FALSE
  BY <1>3 DEF Finish, End, Die, Full, NoJob, TypeOK
<1>4. ASSUME Gather(b) \/ WriteAll(b) PROVE FALSE
  <2>1. job[b].pc \in {"gathering", "writing"}
    BY <1>4 DEF Gather, WriteAll
  <2>2. job[b] \in Job /\ job \in [Builders -> Job]
    BY JobFields
  <2>3. job[b].kind = "all"
    BY <1>4, <2>2 DEF Full, Gather, WriteAll, NoJob, Job
  <2> QED BY <2>1, <2>3 DEF FullInv, Streamed
<1> QED BY <1>1, <1>2, <1>3, <1>4, ListSound, LoadSound, ProcessSound, FlushSound, PruneSound,
           CardsSound
\* A full rebuild streams: it never gathers its projects at once.
LEMMA StreamedStep ==
    ASSUME TypeOK, FullInv, [Next]_vars
    PROVE  Streamed'
<1>1. ASSUME NEW b \in Builders, \A c \in Builders \ {b} : job'[c] = job[c],
             job'[b].kind = "all" =>
                job[b].kind = "all" /\ (job'[b].pc = job[b].pc
                                         \/ job'[b].pc \notin {"gathering", "writing"})
      PROVE  Streamed'
  BY <1>1 DEF FullInv, Streamed
<1>2. ASSUME NEW b \in Builders, Begin(b) PROVE Streamed'
  <2>1. PICK j \in Started(b) : job' = [job EXCEPT ![b] = j]
    BY <1>2 DEF Begin
  <2>2. j.kind = "all" => j.pc = "listing"
    BY DEF Started, NoJob
  <2> QED BY <2>1, <2>2 DEF FullInv, Streamed, TypeOK
<1>3. ASSUME NEW b \in Builders, Finish(b) \/ Die(b) PROVE Streamed'
  BY <1>1, <1>3 DEF Finish, End, Die, NoJob, TypeOK
<1>4. ASSUME NEW b \in Builders,
             \/ List(b) \/ Load(b) \/ Flush(b) \/ Prune(b)
             \/ Drop(b) \/ Fetch(b) \/ Put(b) \/ WarmFails(b)
      PROVE  Streamed'
  <2>1. job[b] \in Job /\ job \in [Builders -> Job]
    BY JobFields
  <2>2. AfterStream(job[b]) \notin {"gathering", "writing"}
    BY DEF AfterStream
  <2>3. \A c \in Builders \ {b} : job'[c] = job[c]
    BY <1>4, <2>1 DEF List, Load, Flush, Prune, Drop, Fetch, Put, WarmFails
  <2>4. CASE Flush(b)
    <3>1. \/ job'[b].kind = "none"
          \/ job'[b].kind = job[b].kind /\ job'[b].pc = AfterStream(job[b])
      BY <2>1, <2>4 DEF Flush, NoJob, Job
    <3> QED BY <1>1, <2>2, <2>3, <3>1
  <2>5. CASE ~Flush(b)
    <3>1. /\ job'[b].kind = job[b].kind
          /\ job'[b].pc \in {"reading", "processing", "dropping", "fetching", "putting", "done"}
      <4>1. CASE List(b)
        BY <2>1, <4>1 DEF List, Job
      <4>2. CASE Load(b)
        BY <2>1, <4>2 DEF Load, Job
      <4>3. CASE Prune(b) \/ Drop(b)
        BY <2>1, <4>3 DEF Prune, Drop, Job
      <4>4. CASE Fetch(b) \/ Put(b) \/ WarmFails(b)
        BY <2>1, <4>4 DEF Fetch, Put, WarmFails, Job
      <4> QED BY <1>4, <2>5, <4>1, <4>2, <4>3, <4>4
    <3> QED BY <1>1, <2>3, <3>1
  <2> QED BY <2>4, <2>5
<1>5. ASSUME NEW b \in Builders, Process(b) PROVE Streamed'
  <2>1. PICK left, rs, unwritten : Appended(b, left, rs, unwritten)
    BY <1>5, ProcessRows
  <2>2. job[b] \in Job /\ job \in [Builders -> Job]
    BY JobFields
  <2> QED BY <1>1, <2>1, <2>2 DEF Appended, Job
<1>6. ASSUME NEW b \in Builders, Gather(b) \/ WriteAll(b) PROVE Streamed'
  <2>1. job[b] \in Job /\ job \in [Builders -> Job] /\ job[b].kind # "all"
    BY <1>6, JobFields DEF FullInv, Streamed, Gather, WriteAll
  <2>2. job'[b].kind # "all" /\ \A c \in Builders \ {b} : job'[c] = job[c]
    BY <1>6, <2>1 DEF Gather, WriteAll, NoJob, Job
  <2> QED BY <1>1, <2>2
<1>7. ASSUME job' = job PROVE Streamed'
  BY <1>7 DEF FullInv, Streamed
<1> QED
  BY <1>2, <1>3, <1>4, <1>5, <1>6, <1>7 DEF Next, vars, Publish, Retype, Retitle, Remove, Change

\* The invariant is kept by every step, and by none.
LEMMA FullStep ==
    ASSUME Aligned, TypeOK, Cover, FullInv, [Next]_vars
    PROVE  FullInv'
<1> SUFFICES ASSUME NEW b \in Builders, Full(b)' PROVE Sound(b)'
  BY AloneStep, StreamedStep DEF FullInv
<1>1. CASE UNCHANGED vars
  <2>1. Full(b) /\ Sound(b)
    BY <1>1 DEF vars, pvars, gvars, FullInv, Full
  <2> QED BY <1>1, <2>1
          DEF vars, pvars, gvars, Sound, Parted, Counted, Fitting, Right, Kept, Has, Listed,
              Visible, Current, Insured
<1>2. CASE Next
  BY <1>2, ChangeSound, BeginSound, BuilderSound DEF Next
<1> QED BY <1>1, <1>2

LEMMA FullInit == Init => FullInv
<1> SUFFICES ASSUME Init PROVE FullInv
  OBVIOUS
<1>1. \A b \in Builders : job[b].pc = "idle" /\ job[b].kind = "none"
  BY DEF Init, NoJob
<1> QED BY <1>1 DEF FullInv, Alone, Active, Streamed, Full

\* When writes are a whole number of batches, as in the code, a full rebuild that
\* met no other and could process its projects leaves the rows and cards of every
\* institution as its projects are, whatever changed, in whichever order.
THEOREM RebuildsAreCurrent == ASSUME Aligned PROVE Spec => []RebuiltIsCurrent
<1>1. Init => TypeOK /\ Cover /\ FullInv
  BY InitType, InitCover, FullInit
<1>2. TypeOK /\ Cover /\ FullInv /\ [Next]_vars => (TypeOK /\ Cover /\ FullInv)'
  BY NextType, NextCover, FullStep
<1>3. FullInv => RebuiltIsCurrent
  <2> SUFFICES ASSUME FullInv, NEW b \in Builders, Completed(b), failed[b] = {},
                      job[b].seen # {}, NEW p \in Insured \ changed[b]
               PROVE  /\ row[p] = Current(p)
                      /\ job[b].heeded => (p \in Listed <=> Current(p) = "shown")
    BY DEF RebuiltIsCurrent, Insured
  <2>1. Full(b) /\ job[b].pc = "done"
    BY DEF Completed, Full
  <2> QED BY <2>1 DEF FullInv, Sound, Right, Kept
<1> QED BY <1>1, <1>2, <1>3, PTL DEF Spec
=============================================================================
