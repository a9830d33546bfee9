------------------------ MODULE SnapshotHarvestProofs ------------------------
(* Theorems about SnapshotHarvest, for any finite number of projects, any    *)
(* number of commands and harvesters, and any sizes and bounds.              *)
EXTENDS SnapshotHarvest, FiniteSetTheorems, TLAPS

USE DEF SnapshotHarvestAssumption

\* What a run has still to write, and the batch it writes next.
LEMMA BatchType ==
    ASSUME SnapshotHarvestAssumption, NEW s \in Seq(Projects),
           NEW n \in Nat, n <= Len(s), NEW batch, batch = SubSeq(s, 1, n)
    PROVE  /\ batch \in Seq(Projects) /\ Len(batch) = n
           /\ SubSeq(s, Len(batch) + 1, Len(s)) \in Seq(Projects)
OBVIOUS

\* The place of a row in a batch, and the table after it.
Place(batch, u) == CHOOSE i \in DOMAIN batch : batch[i] = u

Filled(t, w, batch) ==
    [u \in Projects |-> IF u \in {batch[i] : i \in DOMAIN batch}
                        THEN w + Place(batch, u) ELSE t[u]]

LEMMA PlaceType ==
    ASSUME NEW batch \in Seq(Projects), NEW u \in {batch[i] : i \in DOMAIN batch}
    PROVE  Place(batch, u) \in 1..Len(batch) /\ batch[Place(batch, u)] = u
<1>1. \E i \in 1..Len(batch) : batch[i] = u
  OBVIOUS
<1> QED BY <1>1 DEF Place

LEMMA FilledType ==
    ASSUME NEW t \in [Projects -> Nat], NEW w \in Nat, NEW batch \in Seq(Projects)
    PROVE  Filled(t, w, batch) \in [Projects -> Nat]
<1>1. \A u \in {batch[i] : i \in DOMAIN batch} : Place(batch, u) \in Nat
  BY PlaceType
<1> QED BY <1>1 DEF Filled

\* Counting the rows a request is about.
LEMMA MatchingCount ==
    ASSUME SnapshotHarvestAssumption, NEW S \in SUBSET Projects
    PROVE  IsFiniteSet(S) /\ Cardinality(S) \in Nat
BY FS_Subset, FS_CardinalityType

\* A batch and what it leaves behind.
LEMMA WriteType ==
    ASSUME SnapshotHarvestAssumption, TypeOK, NEW c \in Commands, Write(c)
    PROVE  /\ table' \in [Projects -> Nat]
           /\ written' \in [Commands -> Nat]
           /\ todo' \in [Commands -> Seq(Projects)]
           /\ Batch(c) \in Seq(Projects) /\ Len(Batch(c)) \in Nat
<1>1. /\ table \in [Projects -> Nat] /\ todo[c] \in Seq(Projects)
      /\ written \in [Commands -> Nat] /\ written[c] \in Nat
  BY DEF TypeOK
<1>2. PICK n \in Nat : n <= Len(todo[c]) /\ Batch(c) = SubSeq(todo[c], 1, n)
  <2>1. Len(todo[c]) \in Nat
    BY <1>1
  <2> QED BY <2>1 DEF Batch
<1>3. Batch(c) \in Seq(Projects)
  BY <1>1, <1>2, BatchType
<1>4. Len(Batch(c)) \in Nat
  BY <1>3
<1>5. SubSeq(todo[c], Len(Batch(c)) + 1, Len(todo[c])) \in Seq(Projects)
  BY <1>1, <1>2, BatchType
<1>6. table' \in [Projects -> Nat]
  <2>1. table' = table \/ table' = Filled(table, written[c], Batch(c))
    BY DEF Write, Filled, Place
  <2>2. Filled(table, written[c], Batch(c)) \in [Projects -> Nat]
    BY <1>1, <1>3, FilledType
  <2> QED BY <1>1, <2>1, <2>2
<1>7. written' \in [Commands -> Nat]
  <2>1. \/ written' = [written EXCEPT ![c] = 0]
        \/ written' = [written EXCEPT ![c] = written[c] + Len(Batch(c))]
    BY DEF Write
  <2>2. 0 \in Nat /\ written[c] + Len(Batch(c)) \in Nat
    BY <1>1, <1>4
  <2> QED BY <1>1, <2>1, <2>2
<1>8. todo' \in [Commands -> Seq(Projects)]
  <2>1. \/ todo' = [todo EXCEPT ![c] = <<>>]
        \/ todo' = [todo EXCEPT ![c] = SubSeq(todo[c], Len(Batch(c)) + 1, Len(todo[c]))]
    BY DEF Write
  <2>2. <<>> \in Seq(Projects) /\ todo \in [Commands -> Seq(Projects)]
    BY DEF TypeOK
  <2> QED BY <1>5, <2>1, <2>2
<1> QED BY <1>3, <1>4, <1>6, <1>7, <1>8

\* A run's steps keep the types.
LEMMA CommandType ==
    ASSUME SnapshotHarvestAssumption, TypeOK, NEW c \in Commands, Command(c)
    PROVE  TypeOK'
<1> USE DEF TypeOK, hvars, Disturbs, InRequest, Nothing
<1>1. ASSUME Run(c) PROVE TypeOK'
  BY <1>1 DEF Run
<1>2. ASSUME Erase(c) PROVE TypeOK'
  BY <1>2 DEF Erase
<1>3. ASSUME Unmark(c) PROVE TypeOK'
  <2>1. PICK n \in 0..Cardinality(Projects) :
            \E s \in [1..n -> Projects] : todo' = [todo EXCEPT ![c] = s]
    BY <1>3 DEF Unmark
  <2>4. PICK s \in [1..n -> Projects] : todo' = [todo EXCEPT ![c] = s]
    BY <2>1
  <2>2. n \in Nat
    BY FS_CardinalityType
  <2>3. s \in Seq(Projects)
    BY <2>2
  <2> QED BY <1>3, <2>3, <2>4 DEF Unmark
<1>4. ASSUME Clear(c) PROVE TypeOK'
  BY <1>4 DEF Clear
<1>5. ASSUME Write(c) PROVE TypeOK'
  BY <1>5, WriteType DEF Write
<1>6. ASSUME Store(c) PROVE TypeOK'
  <2>1. runs' \in 0..MaxRuns /\ runs + 1 \in 1..MaxRuns
    BY <1>6 DEF Store
  <2> QED BY <1>6, <2>1 DEF Store
<1>7. ASSUME Die(c) PROVE TypeOK'
  BY <1>7 DEF Die
<1> QED BY <1>1, <1>2, <1>3, <1>4, <1>5, <1>6, <1>7 DEF Command

\* Nor do a deleted row and a harvester's steps break them.
LEMMA DeleteType ==
    ASSUME SnapshotHarvestAssumption, TypeOK, NEW u \in Projects, Delete(u)
    PROVE  TypeOK'
BY DEF TypeOK, Delete, hvars, cvars, InRequest

LEMMA HarvestType ==
    ASSUME SnapshotHarvestAssumption, TypeOK, NEW h \in Harvesters,
           Begin(h) \/ Answer(h) \/ Lose(h) \/ End(h)
    PROVE  TypeOK'
<1> USE DEF TypeOK, cvars, InRequest, Met
<1>1. Nothing \in [Projects -> Nat] /\ NoToken \in Token /\ Unasked \in Want
  BY DEF Nothing, NoToken, Token, Unasked, Want
<1>2. ASSUME Begin(h) PROVE TypeOK'
  BY <1>2 DEF Begin
<1>3. ASSUME Resume(h) PROVE TypeOK'
  BY <1>3 DEF Resume
<1>8. ASSUME Lose(h) PROVE TypeOK'
  <2>1. faults' \in 0..MaxFaults
    BY <1>8 DEF Lose
  <2>2. now' \in [Harvesters -> 0..MaxRuns] /\ count' \in [Harvesters -> Nat]
    BY <1>8 DEF Lose
  <2> QED BY <1>8, <2>1, <2>2 DEF Lose
<1>4. ASSUME Forget(h) PROVE TypeOK'
  BY <1>1, <1>4 DEF Forget
<1>5. ASSUME Admit(h) PROVE TypeOK'
  <2>1. Current \in 0..MaxRuns
    BY DEF Current
  <2>2. now' \in [Harvesters -> 0..MaxRuns] /\ hv' = [hv EXCEPT ![h] = "counting"]
    BY <1>5, <2>1 DEF Admit, Admitted
  <2>3. start' \in [Harvesters -> [Projects -> Nat]]
    BY <1>5 DEF Admit, Admitted
  <2>4. disturbed' \in [Harvesters -> BOOLEAN]
    BY <1>5 DEF Admit, Admitted
  <2> QED BY <1>5, <2>2, <2>3, <2>4 DEF Admit, Admitted
<1>6. ASSUME Count(h) PROVE TypeOK'
  <2>1. Matching(h) \subseteq Projects
    BY DEF Matching, Present
  <2>2. Cardinality(Matching(h)) \in Nat
    BY <2>1, MatchingCount
  <2>3. CASE Forget(h)
    BY <1>4, <2>3
  <2>4. CASE ~Forget(h)
    <3>1. count' \in [Harvesters -> Nat]
      <4>1. count' = [count EXCEPT ![h] = Cardinality(Matching(h))]
        BY <1>6, <2>4 DEF Count
      <4>2. count \in [Harvesters -> Nat]
        BY DEF TypeOK
      <4> HIDE DEF TypeOK
      <4> QED BY <2>2, <4>1, <4>2
    <3>2. disturbed' \in [Harvesters -> BOOLEAN]
      BY <1>6, <2>4 DEF Count
    <3> QED BY <1>6, <2>4, <3>1, <3>2 DEF Count
  <2> QED BY <2>3, <2>4
<1>7. ASSUME Page(h) PROVE TypeOK'
  <2> DEFINE Of(r) == {u \in Matching(h) :
                         token[h].offset <= r[u] /\ r[u] < token[h].offset + PageSize}
             Next2(r) == token[h].offset + Cardinality(Of(r))
  <2>1. PICK r \in Rankings(Matching(h)) :
            /\ got' = [got EXCEPT ![h] =
                         [u \in Projects |-> IF u \in Of(r) THEN @[u] + 1 ELSE @[u]]]
            /\ token' = [token EXCEPT ![h] = [offset |-> Next2(r), marker |-> now[h]]]
            /\ hv' = [hv EXCEPT ![h] = IF More(h, Next2(r)) THEN "waiting" ELSE "complete"]
    BY <1>7 DEF Page
  <2>2. Of(r) \subseteq Projects
    BY DEF Matching, Present
  <2>3. Cardinality(Of(r)) \in Nat
    BY <2>2, MatchingCount
  <2>4. token[h].offset \in Nat /\ now[h] \in Nat
    BY DEF Token
  <2>5. [offset |-> Next2(r), marker |-> now[h]] \in Token
    BY <2>3, <2>4 DEF Token
  <2>6. token' \in [Harvesters -> Token]
    BY <2>1, <2>5
  <2>7. got' \in [Harvesters -> [Projects -> Nat]]
    BY <2>1
  <2> QED BY <1>7, <2>1, <2>6, <2>7 DEF Page
<1> QED
  BY <1>2, <1>3, <1>4, <1>5, <1>6, <1>7, <1>8 DEF Answer, Refuse, End

\* The type invariant of the tables, the commands and the harvesters.
THEOREM TypeCorrect == ASSUME SnapshotHarvestAssumption PROVE Spec => []TypeOK
<1>1. Init => TypeOK
  <2> SUFFICES ASSUME Init PROVE TypeOK
    OBVIOUS
  <2>1. Nothing \in [Projects -> Nat] /\ NoToken \in Token /\ Unasked \in Want
    BY DEF Nothing, NoToken, Token, Unasked, Want
  <2>2. <<>> \in Seq(1..MaxRuns) /\ <<>> \in Seq(Projects)
    OBVIOUS
  <2>3. 0 \in 0..MaxRuns /\ 0 \in 0..MaxFaults
    BY SnapshotHarvestAssumption
  <2> QED BY <2>1, <2>2, <2>3 DEF Init, TypeOK
<1>2. TypeOK /\ UNCHANGED vars => TypeOK'
  BY DEF TypeOK, vars
<1>3. TypeOK /\ [Next]_vars => TypeOK'
  BY <1>2, SnapshotHarvestAssumption, CommandType, DeleteType, HarvestType DEF Next
<1> QED BY <1>1, <1>3, PTL DEF Spec

-----------------------------------------------------------------------------
(* What a single run of the command leaves behind *)

\* One run at a time, as long as none began while another was under way.
OneRun == \A c, d \in Running : c = d

\* A run numbers its rows on from what it has written, in an emptied table.
Numbered ==
    \A c \in Commands :
        /\ cmd[c] # "writing" => written[c] = 0
        /\ cmd[c] \in {"unmarking", "unclearing"} => table = Nothing
        /\ cmd[c] = "writing" => \A u \in Projects : table[u] <= written[c]

\* Metadata is there only while its rows are, or none at all.
Marked ==
    metas # <<>> =>
        /\ table \in {Nothing, published}
        /\ \A c \in Commands : cmd[c] # "writing"

RunInv == ~crowded => OneRun /\ Numbered /\ Marked /\ Distinct(table)

\* The rows of a batch follow those there are: positions stay different.
LEMMA FilledDistinct ==
    ASSUME NEW t \in [Projects -> Nat], NEW w \in Nat, NEW batch \in Seq(Projects),
           \A u \in Projects : t[u] <= w, Distinct(t)
    PROVE  /\ Distinct(Filled(t, w, batch))
           /\ \A u \in Projects : Filled(t, w, batch)[u] <= w + Len(batch)
<1> DEFINE new == {batch[i] : i \in DOMAIN batch}
           f == Filled(t, w, batch)
<1>1. ASSUME NEW u \in new
      PROVE  /\ u \in Projects /\ batch[Place(batch, u)] = u
             /\ Place(batch, u) \in Nat
             /\ 0 < Place(batch, u) /\ Place(batch, u) <= Len(batch)
  <2>1. Place(batch, u) \in 1..Len(batch) /\ batch[Place(batch, u)] = u
    BY PlaceType
  <2> QED BY <2>1
<1>2. ASSUME NEW u \in Projects
      PROVE  f[u] = IF u \in new THEN w + Place(batch, u) ELSE t[u]
  BY DEF Filled
<1>3. Len(batch) \in Nat
  OBVIOUS
<1> HIDE DEF new, f
<1>4. ASSUME NEW u \in Projects, NEW v \in Projects, f[u] > 0, f[u] = f[v]
      PROVE  u = v
  <2>1. CASE u \in new /\ v \in new
    <3>1. w + Place(batch, u) = w + Place(batch, v)
      BY <1>2, <1>4, <2>1
    <3>2. Place(batch, u) = Place(batch, v)
      BY <1>1, <2>1, <3>1
    <3> QED BY <1>1, <2>1, <3>2
  <2>2. CASE u \in new /\ v \notin new
    <3>1. w + Place(batch, u) = t[v] /\ t[v] <= w
      BY <1>2, <1>4, <2>2
    <3> QED BY <1>1, <2>2, <3>1
  <2>3. CASE u \notin new /\ v \in new
    <3>1. w + Place(batch, v) = t[u] /\ t[u] <= w
      BY <1>2, <1>4, <2>3
    <3> QED BY <1>1, <2>3, <3>1
  <2>4. CASE u \notin new /\ v \notin new
    BY <1>2, <1>4, <2>4 DEF Distinct, Present
  <2> QED BY <2>1, <2>2, <2>3, <2>4
<1>5. ASSUME NEW u \in Projects PROVE f[u] <= w + Len(batch)
  BY <1>1, <1>2, <1>3, <1>5
<1> QED BY <1>4, <1>5 DEF Distinct, Present, f

\* An empty table has no positions to share.
LEMMA NothingDistinct == Distinct(Nothing)
BY DEF Distinct, Present, Nothing

\* A step of the only run.
LEMMA RunStep ==
    ASSUME SnapshotHarvestAssumption, TypeOK, NEW c \in Commands, Command(c),
           OneRun, Numbered, Marked, Distinct(table), ~crowded, ~crowded'
    PROVE  OneRun' /\ Numbered' /\ Marked' /\ Distinct(table)'
<1>0. /\ table \in [Projects -> Nat] /\ written \in [Commands -> Nat]
      /\ cmd \in [Commands -> {"idle", "clearing", "erasing", "unclearing", "unmarking",
                               "writing"}]
  BY DEF TypeOK
<1>1. CASE Run(c)
  <2>1. Running = {}
    BY <1>1 DEF Run
  <2> QED
    BY <1>0, <1>1, <2>1 DEF Run, OneRun, Running, Numbered, Marked, Distinct, Present
<1>2. \A d \in Commands \ {c} : cmd[c] # "idle" => cmd[d] = "idle"
  BY DEF OneRun, Running
<1>3. CASE Erase(c)
  BY <1>0, <1>2, <1>3, NothingDistinct
  DEF Erase, OneRun, Running, Numbered, Marked
<1>4. CASE Unmark(c)
  BY <1>0, <1>2, <1>4 DEF Unmark, OneRun, Running, Numbered, Marked, Nothing, Distinct, Present
<1>5. CASE Clear(c)
  BY <1>0, <1>2, <1>5 DEF Clear, OneRun, Running, Numbered, Marked, Distinct, Present
<1>6. CASE Write(c)
  <2>1. cmd[c] = "writing" /\ metas = <<>> /\ \A u \in Projects : table[u] <= written[c]
    BY <1>6 DEF Write, Marked, Numbered
  <2>2. Batch(c) \in Seq(Projects) /\ Len(Batch(c)) \in Nat
    BY <1>6, WriteType
  <2>3. \A d \in Commands \ {c} : cmd[d] = "idle"
    BY <1>2, <2>1
  <2>4. CASE /\ cmd' = [cmd EXCEPT ![c] = "idle"] /\ written' = [written EXCEPT ![c] = 0]
             /\ UNCHANGED <<table, metas>>
    BY <1>0, <2>1, <2>3, <2>4 DEF OneRun, Running, Numbered, Marked, Distinct, Present
  <2>5. CASE /\ table' = Filled(table, written[c], Batch(c))
             /\ written' = [written EXCEPT ![c] = written[c] + Len(Batch(c))]
             /\ UNCHANGED <<cmd, metas>>
    <3>1. /\ Distinct(table')
          /\ \A u \in Projects : table'[u] <= written[c] + Len(Batch(c))
      BY <1>0, <2>1, <2>2, <2>5, FilledDistinct
    <3> QED
      BY <1>0, <2>1, <2>3, <2>5, <3>1 DEF OneRun, Running, Numbered, Marked, Distinct, Present
  <2> QED BY <1>6, <2>4, <2>5 DEF Write, Filled, Place
<1>7. CASE Store(c)
  BY <1>0, <1>2, <1>7 DEF Store, OneRun, Running, Numbered, Marked, Distinct, Present
<1>8. CASE Die(c)
  BY <1>0, <1>2, <1>8 DEF Die, OneRun, Running, Numbered, Marked, Distinct, Present
<1> QED BY <1>1, <1>3, <1>4, <1>5, <1>6, <1>7, <1>8 DEF Command

\* Runs that met stay known as such.
LEMMA CrowdedStays ==
    ASSUME TypeOK, [Next]_vars, ~crowded'
    PROVE  ~crowded
BY DEF TypeOK, Next, vars, hvars, cvars, Command, Run, Erase, Unmark, Clear, Write, Store, Die,
       Delete, Begin, Answer, Resume, Admit, Admitted, Refuse, Forget, Count, Page, Lose, End

\* A deleted row is deleted from what was published, too; harvesters only read.
LEMMA ElsewhereStep ==
    ASSUME TypeOK, OneRun, Numbered, Marked, Distinct(table),
           \/ \E u \in Projects : Delete(u)
           \/ \E h \in Harvesters : Begin(h) \/ Answer(h) \/ Lose(h) \/ End(h)
           \/ UNCHANGED vars
    PROVE  OneRun' /\ Numbered' /\ Marked' /\ Distinct(table)'
<1>1. CASE \E u \in Projects : Delete(u)
  <2> PICK u \in Projects : Delete(u)
    BY <1>1
  <2>1. /\ table \in [Projects -> Nat] /\ published \in [Projects -> Nat]
        /\ written \in [Commands -> Nat]
    BY DEF TypeOK
  <2>2. /\ table[u] > 0 /\ table # Nothing
        /\ table' = [table EXCEPT ![u] = 0] /\ published' = [published EXCEPT ![u] = 0]
        /\ UNCHANGED <<metas, cmd, written>>
    BY DEF Delete, Nothing
  <2>3. OneRun'
    BY <2>2 DEF OneRun, Running
  <2>4. Numbered'
    BY <2>1, <2>2 DEF Numbered
  <2>5. Marked'
    BY <2>1, <2>2 DEF Marked
  <2>6. Distinct(table)'
    BY <2>1, <2>2 DEF Distinct, Present
  <2> QED BY <2>3, <2>4, <2>5, <2>6
<1>2. CASE UNCHANGED <<table, metas, cmd, written, published>>
  BY <1>2 DEF OneRun, Running, Numbered, Marked, Distinct, Present
<1> QED
  BY <1>1, <1>2
  DEF vars, cvars, Begin, Answer, Resume, Admit, Admitted, Refuse, Forget, Count, Page, Lose, End

\* The invariant of runs that do not meet.
THEOREM RunInvariant == ASSUME SnapshotHarvestAssumption PROVE Spec => []RunInv
<1>1. Init => RunInv
  BY NothingDistinct
  DEF Init, RunInv, OneRun, Running, Numbered, Marked
<1>2. TypeOK /\ RunInv /\ [Next]_vars => RunInv'
  <2> SUFFICES ASSUME TypeOK, RunInv, [Next]_vars, ~crowded'
               PROVE  OneRun' /\ Numbered' /\ Marked' /\ Distinct(table)'
    BY DEF RunInv
  <2>1. ~crowded /\ OneRun /\ Numbered /\ Marked /\ Distinct(table)
    BY CrowdedStays DEF RunInv
  <2>2. CASE \E c \in Commands : Command(c)
    BY <2>1, <2>2, RunStep, SnapshotHarvestAssumption
  <2>3. CASE \/ \E u \in Projects : Delete(u)
             \/ \E h \in Harvesters : Begin(h) \/ Answer(h) \/ Lose(h) \/ End(h)
             \/ UNCHANGED vars
    BY <2>1, <2>3, ElsewhereStep
  <2> QED BY <2>2, <2>3 DEF Next
<1>3. Spec => []TypeOK
  BY TypeCorrect, SnapshotHarvestAssumption
<1> QED BY <1>1, <1>2, <1>3, PTL DEF Spec

\* "Position in the snapshot for stable pagination": rows share no position,
\* whatever the batch size, and wherever a run died, unless two runs were under way
\* together.
THEOREM PositionsAlwaysDiffer ==
    ASSUME SnapshotHarvestAssumption PROVE Spec => []PositionsDiffer
<1>1. RunInv => PositionsDiffer
  BY DEF RunInv, PositionsDiffer
<1> QED BY <1>1, RunInvariant, SnapshotHarvestAssumption, PTL

\* No snapshot is served with part of its records, wherever a run died.
THEOREM ServedStaysWhole ==
    ASSUME SnapshotHarvestAssumption PROVE Spec => []ServedIsWhole
<1>1. RunInv => ServedIsWhole
  BY DEF RunInv, ServedIsWhole, Marked
<1> QED BY <1>1, RunInvariant, SnapshotHarvestAssumption, PTL

-----------------------------------------------------------------------------
(* What a complete harvest has received *)

\* A one-to-one numbering of a finite set from 0 leaves no number out: as many
\* of its members lie in an interval as the interval has numbers.
LEMMA Numbering ==
    ASSUME NEW S, IsFiniteSet(S), NEW r \in [S -> 0..(Cardinality(S) - 1)],
           \A u, v \in S : u # v => r[u] # r[v],
           NEW a \in Nat, NEW b \in Nat, a <= b, b <= Cardinality(S),
           NEW T, T \subseteq S, \A u \in S : u \in T <=> a <= r[u] /\ r[u] < b
    PROVE  IsFiniteSet(T) /\ Cardinality(T) = b - a
<1> DEFINE n == Cardinality(S)
           f == [u \in T |-> r[u]]
<1>1. n \in Nat
  BY FS_CardinalityType
<1>2. IsFiniteSet(0..(n - 1)) /\ Cardinality(0..(n - 1)) = n
  <2>1. 0 \in Int /\ n - 1 \in Int /\ (IF 0 > n - 1 THEN 0 ELSE n - 1 - 0 + 1) = n
    BY <1>1
  <2> HIDE DEF n
  <2>2. IsFiniteSet(0..(n - 1))
    BY <2>1, FS_Interval
  <2>3. Cardinality(0..(n - 1)) = IF 0 > n - 1 THEN 0 ELSE n - 1 - 0 + 1
    BY <2>1, FS_Interval
  <2> QED BY <2>1, <2>2, <2>3
<1>3. r \in Injection(S, 0..(n - 1))
  BY DEF Injection, IsInjective
<1>4. r \in Surjection(S, 0..(n - 1))
  <2> HIDE DEF n
  <2> QED BY <1>2, <1>3, FS_Injection DEF n
<1>5. \A i \in a..(b - 1) : \E u \in T : f[u] = i
  <2> SUFFICES ASSUME NEW i \in a..(b - 1) PROVE \E u \in T : f[u] = i
    OBVIOUS
  <2>1. i \in 0..(n - 1)
    BY <1>1
  <2>2. PICK u \in S : r[u] = i
    BY <1>4, <2>1 DEF Surjection
  <2>3. u \in T
    BY <2>1, <2>2
  <2> QED BY <2>2, <2>3
<1>6. f \in [T -> a..(b - 1)]
  <2> SUFFICES ASSUME NEW u \in T PROVE r[u] \in a..(b - 1)
    OBVIOUS
  <2>1. r[u] \in 0..(n - 1) /\ a <= r[u] /\ r[u] < b
    OBVIOUS
  <2> QED BY <1>1, <2>1
<1>7. f \in Injection(T, a..(b - 1)) /\ f \in Surjection(T, a..(b - 1))
  BY <1>5, <1>6 DEF Injection, IsInjective, Surjection
<1>8. IsFiniteSet(a..(b - 1)) /\ Cardinality(a..(b - 1)) = b - a
  BY FS_Interval
<1> HIDE DEF f
<1> QED BY <1>7, <1>8, FS_Injection

\* What a harvest is for, and the place of a row in its order.
Wanted(h) == want[h].of \cap Present(start[h])

Rank(h, u) == Cardinality({v \in Wanted(h) : start[h][v] < start[h][u]})

\* Rows of different positions have one order.
LEMMA OneRanking ==
    ASSUME SnapshotHarvestAssumption, TypeOK, NEW h \in Harvesters,
           Distinct(start[h]), table = start[h],
           NEW r \in Rankings(Wanted(h))
    PROVE  \A u \in Wanted(h) : r[u] = Rank(h, u)
<1> DEFINE S == Wanted(h)
<1>1. S \subseteq Projects /\ IsFiniteSet(S) /\ Cardinality(S) \in Nat
  BY MatchingCount DEF Wanted, Present
<1>2. /\ r \in [S -> 0..(Cardinality(S) - 1)]
      /\ \A u, v \in S : u # v => r[u] # r[v] /\ (start[h][u] < start[h][v] => r[u] < r[v])
  BY DEF Rankings
<1>3. \A u \in S : start[h][u] \in Nat
  BY <1>1 DEF TypeOK
<1>4. \A u, v \in S : u # v => start[h][u] # start[h][v]
  BY DEF Distinct, Wanted
<1> SUFFICES ASSUME NEW u \in S PROVE r[u] = Rank(h, u)
  OBVIOUS
<1>5. r[u] \in Nat /\ r[u] <= Cardinality(S)
  BY <1>1, <1>2
<1>6. \A v \in S : r[v] \in Nat
  BY <1>1, <1>2
<1>7. {v \in S : start[h][v] < start[h][u]} = {v \in S : 0 <= r[v] /\ r[v] < r[u]}
  <2> HIDE DEF S
  <2>1. ASSUME NEW v \in S PROVE start[h][v] < start[h][u] <=> r[v] < r[u]
    BY <1>2, <1>3, <1>4, <1>5, <1>6
  <2> QED BY <1>6, <2>1
<1>8. Cardinality({v \in S : 0 <= r[v] /\ r[v] < r[u]}) = r[u] - 0
  <2> DEFINE T == {v \in S : 0 <= r[v] /\ r[v] < r[u]}
  <2>1. T = {v \in S : 0 <= r[v] /\ r[v] < r[u]}
    OBVIOUS
  <2>2. 0 \in Nat /\ 0 <= r[u]
    BY <1>5
  <2>3. \A u_1, v \in S : u_1 # v => r[u_1] # r[v]
    BY <1>2
  <2> HIDE DEF S, T
  <2>4. Cardinality(T) = r[u] - 0
    BY <1>1, <1>2, <1>5, <2>1, <2>2, <2>3, Numbering
  <2> QED BY <2>1, <2>4
<1>9. Rank(h, u) = Cardinality({v \in S : start[h][v] < start[h][u]})
  BY DEF Rank
<1> HIDE DEF S
<1> QED BY <1>5, <1>7, <1>8, <1>9

\* The snapshot that a harvest reads: of the request in progress, or of its token.
Reads(h) == IF now[h] > 0 THEN now[h] ELSE token[h].marker

\* Snapshots are numbered as they are stored.
Dated == \A i \in 1..Len(metas) : metas[i] \in 1..runs

\* As long as the snapshot that a harvest reads is in force, its rows are those it
\* began with or none, and no run that has not replaced it can write.
Steady(h) ==
    ~disturbed[h] /\ Reads(h) > 0 =>
        /\ Reads(h) <= runs
        /\ Current = Reads(h) =>
             table \in {start[h], Nothing} /\ \A c \in Commands : cmd[c] # "writing"

\* Where a harvest is, and what it holds.
Asked(h) ==
    /\ hv[h] \in InRequest <=> now[h] > 0
    /\ hv[h] = "idle" => token[h] = NoToken
    /\ hv[h] = "waiting" => token[h].marker > 0
    /\ token[h].marker = 0 => token[h] = NoToken
    /\ token[h] # NoToken /\ now[h] > 0 => now[h] = token[h].marker
    /\ token[h] = NoToken /\ hv[h] # "complete" => got[h] = Nothing

\* No run meets a request that is not disturbed.
Undisturbed(h) ==
    hv[h] \in InRequest /\ ~disturbed[h] => Running = {} /\ Current = now[h]

\* What is counted is what is paged.
Counted(h) ==
    hv[h] = "paging" /\ ~disturbed[h] =>
        count[h] = Cardinality(Matching(h)) /\ Matching(h) # {}

\* Before its end a harvest has received the rows before its offset, once.
Progress(h) ==
    ~disturbed[h] /\ Distinct(start[h]) /\ (want[h].repeats \/ want[h].of = Projects) =>
        IF hv[h] = "complete"
        THEN \A u \in Projects : got[h][u] = IF u \in Wanted(h) THEN 1 ELSE 0
        ELSE /\ token[h].offset <= Cardinality(Wanted(h))
             /\ \A u \in Projects :
                   got[h][u] = IF u \in Wanted(h) /\ Rank(h, u) < token[h].offset THEN 1 ELSE 0

HarvestParts(h) == Steady(h) /\ Asked(h) /\ Undisturbed(h) /\ Counted(h) /\ Progress(h)

HarvestInv == Dated /\ \A h \in Harvesters : HarvestParts(h)

\* What a run or a deletion leaves alone of a harvest.
Alike(h) ==
    /\ hv'[h] = hv[h] /\ want'[h] = want[h] /\ token'[h] = token[h] /\ now'[h] = now[h]
    /\ count'[h] = count[h] /\ got'[h] = got[h] /\ start'[h] = start[h]

\* The first row of the metadata stays the first.
LEMMA FirstStays ==
    ASSUME NEW S, NEW s \in Seq(S), s # <<>>, NEW x
    PROVE  Append(s, x)[1] = s[1] /\ Append(s, x) # <<>>
<1>1. Len(s) \in Nat /\ Len(s) # 0
  OBVIOUS
<1>2. Len(Append(s, x)) = Len(s) + 1
  OBVIOUS
<1>3. Append(s, x)[1] = s[1]
  BY <1>1
<1> QED BY <1>1, <1>2, <1>3

\* A step of a run, but its death, disturbs the requests it meets.
LEMMA CommandHarvest ==
    ASSUME SnapshotHarvestAssumption, TypeOK, HarvestInv, NEW c \in Commands, Command(c)
    PROVE  HarvestInv'
<1> USE DEF TypeOK
<1>1. \A h \in Harvesters : Alike(h)
  BY DEF Command, Run, Erase, Unmark, Clear, Write, Store, Die, hvars, Alike
<1>2. \A h \in Harvesters :
         \/ disturbed'[h] = (disturbed[h] \/ hv[h] \in InRequest)
         \/ UNCHANGED <<disturbed, table, metas>> /\ cmd[c] # "idle"
  BY DEF Command, Run, Erase, Unmark, Clear, Write, Store, Die, Disturbs
<1>3. /\ runs \in Nat /\ runs' \in Nat /\ runs <= runs'
      /\ metas' \in {metas, <<>>} \/ (metas' = Append(metas, runs + 1) /\ runs' = runs + 1)
  BY DEF Command, Run, Erase, Unmark, Clear, Write, Store, Die
<1>4. Dated'
  <2>1. CASE metas' \in {metas, <<>>}
    BY <1>3, <2>1 DEF HarvestInv, Dated
  <2>2. CASE metas' = Append(metas, runs + 1) /\ runs' = runs + 1
    BY <1>3, <2>2 DEF HarvestInv, Dated
  <2> QED BY <1>3, <2>1, <2>2
<1>5. \/ UNCHANGED <<table, metas>> /\ \A d \in Commands : cmd'[d] = "writing" => cmd[d] = "writing"
      \/ UNCHANGED metas /\ table' = Nothing
         /\ \A d \in Commands : cmd'[d] = "writing" => cmd[d] = "writing"
      \/ metas' = <<>>
      \/ cmd[c] = "writing" /\ (UNCHANGED metas \/ metas' = Append(metas, runs + 1))
  <2>1. CASE Run(c) \/ Erase(c)
    BY <2>1 DEF Run, Erase
  <2>2. CASE Unmark(c) \/ Clear(c)
    BY <2>2 DEF Unmark, Clear
  <2>3. CASE Write(c) \/ Store(c)
    BY <2>3 DEF Write, Store
  <2>4. CASE Die(c)
    BY <2>4 DEF Die
  <2> QED BY <2>1, <2>2, <2>3, <2>4 DEF Command
<1>6. ASSUME NEW h \in Harvesters PROVE Steady(h)'
  <2> SUFFICES ASSUME ~disturbed'[h], Reads(h)' > 0 
               PROVE  /\ Reads(h)' <= runs'
                      /\ Current' = Reads(h)' =>
                           table' \in {start'[h], Nothing} /\
                           \A d \in Commands : cmd'[d] # "writing"
    BY DEF Steady, Nothing
  <2>1. Reads(h)' = Reads(h) /\ start'[h] = start[h]
    BY <1>1 DEF Reads, Alike
  <2>2. ~disturbed[h]
    BY <1>2
  <2>8. Reads(h) \in Nat
    BY DEF Reads, Token
  <2>3. /\ Reads(h) <= runs
        /\ Current = Reads(h) =>
             table \in {start[h], Nothing} /\ \A d \in Commands : cmd[d] # "writing"
    BY <2>1, <2>2 DEF HarvestInv, HarvestParts, Steady
  <2>4. UNCHANGED metas => Current' = Current
    BY DEF Current
  <2>5. metas' = <<>> => Current' # Reads(h)
    BY <2>1 DEF Current
  <2>6. metas' = Append(metas, runs + 1) /\ Current # Reads(h) => Current' # Reads(h)
    <3> SUFFICES ASSUME metas' = Append(metas, runs + 1), Current # Reads(h)
                 PROVE  Current' # Reads(h)
      OBVIOUS
    <3>1. metas \in Seq(1..MaxRuns)
      OBVIOUS
    <3>2. Current' = IF metas = <<>> THEN runs + 1 ELSE metas[1]
      <4>1. CASE metas = <<>>
        BY <4>1 DEF Current
      <4>2. CASE metas # <<>>
        <5>1. Append(metas, runs + 1)[1] = metas[1] /\ Append(metas, runs + 1) # <<>>
          BY <3>1, <4>2, FirstStays
        <5> QED BY <4>2, <5>1 DEF Current
      <4> QED BY <4>1, <4>2
    <3> QED BY <1>3, <2>3, <2>8, <3>2 DEF Current
  <2>9. Reads(h) <= runs'
    BY <1>3, <2>3, <2>8
  <2>10. ASSUME Current' = Reads(h)
         PROVE  table' \in {start[h], Nothing} /\ \A d \in Commands : cmd'[d] # "writing"
    <3>1. CASE cmd[c] = "writing"
      BY <1>5, <2>3, <2>4, <2>5, <2>6, <2>10, <3>1
    <3>2. CASE cmd[c] # "writing"
      BY <1>5, <2>3, <2>4, <2>5, <2>10, <3>2
    <3> QED BY <3>1, <3>2
  <2> QED BY <2>1, <2>9, <2>10
<1>7. ASSUME NEW h \in Harvesters PROVE Asked(h)'
  BY <1>1 DEF Alike, Asked, HarvestInv, HarvestParts, Nothing
<1>8. ASSUME NEW h \in Harvesters, hv[h] \in InRequest PROVE disturbed'[h]
  <2>1. CASE disturbed'[h] = (disturbed[h] \/ hv[h] \in InRequest)
    BY <1>8, <2>1
  <2>2. CASE UNCHANGED disturbed /\ cmd[c] # "idle"
    BY <1>8, <2>2 DEF HarvestInv, HarvestParts, Undisturbed, Running
  <2> QED BY <1>2, <2>1, <2>2
<1>9. ASSUME NEW h \in Harvesters PROVE Undisturbed(h)' /\ Counted(h)'
  BY <1>1, <1>8 DEF Alike, Undisturbed, Counted, InRequest
<1>10. ASSUME NEW h \in Harvesters PROVE Progress(h)'
  <2>1. disturbed[h] => disturbed'[h]
    BY <1>2
  <2>2. Wanted(h)' = Wanted(h) /\ Distinct(start[h])' = Distinct(start[h])
    BY <1>1 DEF Alike, Wanted, Distinct, Present
  <2>3. \A u \in Projects : Rank(h, u)' = Rank(h, u)
    BY <1>1, <2>2 DEF Alike, Rank
  <2>4. Progress(h)
    BY DEF HarvestInv, HarvestParts
  <2> QED BY <1>1, <2>1, <2>2, <2>3, <2>4 DEF Alike, Progress
<1> QED BY <1>4, <1>6, <1>7, <1>9, <1>10 DEF HarvestInv, HarvestParts

\* A deletion disturbs every harvest under way.
LEMMA DeleteHarvest ==
    ASSUME SnapshotHarvestAssumption, TypeOK, HarvestInv, NEW u \in Projects, Delete(u)
    PROVE  HarvestInv'
<1> USE DEF TypeOK
<1>1. \A h \in Harvesters : Alike(h) /\ (hv[h] # "idle" => disturbed'[h])
                            /\ (disturbed[h] => disturbed'[h])
  BY DEF Delete, hvars, Alike
<1>2. UNCHANGED <<metas, runs>>
  BY DEF Delete
<1>3. Dated'
  BY <1>2 DEF HarvestInv, Dated
<1>4. ASSUME NEW h \in Harvesters PROVE HarvestParts(h)'
  <2>1. HarvestParts(h)
    BY DEF HarvestInv
  <2>2. Asked(h)'
    BY <1>1, <2>1 DEF Alike, Asked, HarvestParts, Nothing
  <2>3. Reads(h)' = Reads(h) /\ (Reads(h) > 0 => hv[h] # "idle")
    BY <1>1, <2>1 DEF Alike, Reads, Asked, HarvestParts, InRequest, NoToken
  <2>4. Steady(h)' /\ Undisturbed(h)' /\ Counted(h)'
    BY <1>1, <2>3 DEF Alike, Steady, Undisturbed, Counted, InRequest
  <2>5. Wanted(h)' = Wanted(h) /\ Distinct(start[h])' = Distinct(start[h])
    BY <1>1 DEF Alike, Wanted, Distinct, Present
  <2>6. \A v \in Projects : Rank(h, v)' = Rank(h, v)
    BY <1>1, <2>5 DEF Alike, Rank
  <2>7. Progress(h)'
    BY <1>1, <2>1, <2>5, <2>6 DEF Alike, Progress, HarvestParts
  <2> QED BY <2>2, <2>4, <2>7 DEF HarvestParts
<1> QED BY <1>3, <1>4 DEF HarvestInv

\* What a harvester does leaves the snapshot and the others alone.
Step(h) == Begin(h) \/ Answer(h) \/ Lose(h) \/ End(h)

LEMMA StepLeaves ==
    ASSUME TypeOK, NEW h \in Harvesters, Step(h)
    PROVE  /\ UNCHANGED cvars
           /\ \A g \in Harvesters \ {h} : Alike(g) /\ disturbed'[g] = disturbed[g]
<1> USE DEF TypeOK, Alike
<1>1. CASE Begin(h) \/ Resume(h) \/ Lose(h)
  BY <1>1 DEF Begin, Resume, Lose
<1>2. CASE Admit(h)
  BY <1>2 DEF Admit, Admitted, Met
<1>3. CASE Forget(h)
  BY <1>3 DEF Forget
<1>4. CASE Count(h)
  BY <1>3, <1>4 DEF Count, Met
<1>5. CASE Page(h)
  BY <1>5 DEF Page, Met
<1> QED BY <1>1, <1>2, <1>3, <1>4, <1>5 DEF Step, Answer, Refuse, End

\* A harvest nothing happens to.
LEMMA Untouched ==
    ASSUME TypeOK, NEW g \in Harvesters, HarvestParts(g),
           UNCHANGED cvars, Alike(g), disturbed'[g] = disturbed[g]
    PROVE  HarvestParts(g)'
<1> USE DEF cvars, Alike
<1>1. Steady(g)'
  BY DEF HarvestParts, Steady, Reads, Current, Nothing
<1>2. Asked(g)'
  BY DEF HarvestParts, Asked, Nothing
<1>3. Undisturbed(g)' /\ Counted(g)'
  BY DEF HarvestParts, Undisturbed, Counted, Running, Current, Matching, Unsaid, Present, NoToken,
         InRequest
<1>4. Progress(g)'
  <2>1. Wanted(g)' = Wanted(g) /\ Distinct(start[g])' = Distinct(start[g])
    BY DEF Wanted, Distinct, Present
  <2>2. \A v \in Projects : Rank(g, v)' = Rank(g, v)
    BY <2>1 DEF Rank
  <2> QED BY <2>1, <2>2 DEF Progress, HarvestParts
<1> QED BY <1>1, <1>2, <1>3, <1>4 DEF HarvestParts

\* A harvest begins, asks again, or is over.
LEMMA AskStep ==
    ASSUME SnapshotHarvestAssumption, TypeOK, HarvestInv, NEW h \in Harvesters,
           Begin(h) \/ Resume(h) \/ Lose(h)
    PROVE  HarvestParts(h)'
<1> USE DEF TypeOK
<1>1. HarvestParts(h)
  BY DEF HarvestInv
<1>2. /\ UNCHANGED <<cvars, token, got, start, disturbed>> /\ now'[h] \in {0, now[h]}
      /\ hv'[h] = "asked" /\ (Begin(h) \/ want' = want)
  BY DEF Begin, Resume, Lose
<1>3. now'[h] = 0
  BY <1>1, <1>2 DEF Begin, Resume, Lose, HarvestParts, Asked, InRequest
<1>4. Asked(h)'
  BY <1>1, <1>2, <1>3 DEF Begin, Resume, Lose, HarvestParts, Asked, InRequest, Nothing
<1>5. Steady(h)'
  <2>1. Reads(h)' > 0 => Reads(h)' = Reads(h)
    BY <1>1, <1>2, <1>3 DEF Reads, HarvestParts, Asked, NoToken
  <2> QED BY <1>1, <1>2, <2>1 DEF HarvestParts, Steady, cvars, Current, Nothing
<1>6. Undisturbed(h)' /\ Counted(h)'
  BY <1>2 DEF Undisturbed, Counted, InRequest
<1>7. Progress(h)'
  <2>1. CASE Begin(h)
    <3>1. token'[h] = NoToken /\ got'[h] = Nothing
      BY <1>1, <1>2, <2>1 DEF Begin, HarvestParts, Asked
    <3>2. \A n \in Nat : ~(n < 0)
      OBVIOUS
    <3>3. Cardinality(Wanted(h)') \in Nat /\ \A u \in Projects : Rank(h, u)' \in Nat
      <4>1. Wanted(h)' \in SUBSET Projects
        BY DEF Wanted, Present
      <4> QED BY <4>1, MatchingCount DEF Rank
    <3> QED BY <1>2, <3>1, <3>2, <3>3 DEF Progress, NoToken, Nothing
  <2>2. CASE want' = want
    <3>1. hv[h] # "complete"
      BY <1>2, <2>2 DEF Begin, Resume, Lose
    <3>2. Wanted(h)' = Wanted(h) /\ Distinct(start[h])' = Distinct(start[h])
      BY <1>2, <2>2 DEF Wanted, Distinct, Present
    <3>3. \A v \in Projects : Rank(h, v)' = Rank(h, v)
      BY <1>2, <3>2 DEF Rank
    <3> QED BY <1>1, <1>2, <2>2, <3>1, <3>2, <3>3 DEF Progress, HarvestParts
  <2> QED BY <1>2, <2>1, <2>2
<1> QED BY <1>4, <1>5, <1>6, <1>7 DEF HarvestParts

LEMMA ForgetStep ==
    ASSUME SnapshotHarvestAssumption, TypeOK, NEW h \in Harvesters, Forget(h)
    PROVE  HarvestParts(h)'
<1> USE DEF TypeOK
<1>1. /\ hv'[h] = "idle" /\ token'[h] = NoToken /\ now'[h] = 0 /\ got'[h] = Nothing
      /\ start'[h] = Nothing
  BY DEF Forget
<1>2. Wanted(h)' = {}
  BY <1>1 DEF Wanted, Present, Nothing
<1>3. Cardinality({}) = 0
  BY FS_EmptySet
<1>4. Progress(h)'
  BY <1>1, <1>2, <1>3 DEF Progress, NoToken, Nothing
<1>5. Asked(h)' /\ Steady(h)' /\ Undisturbed(h)' /\ Counted(h)'
  BY <1>1 DEF Asked, Steady, Reads, Undisturbed, Counted, InRequest, NoToken, Nothing
<1> QED BY <1>4, <1>5 DEF HarvestParts

\* A first request meets a snapshot; a later one meets it again, or is refused.
LEMMA AdmitStep ==
    ASSUME SnapshotHarvestAssumption, TypeOK, HarvestInv, NEW h \in Harvesters, Admit(h)
    PROVE  HarvestParts(h)'
<1> USE DEF TypeOK
<1>1. HarvestParts(h)
  BY DEF HarvestInv
<1>2. /\ UNCHANGED <<cvars, token, got, want>> /\ hv[h] = "asked" /\ hv'[h] = "counting"
      /\ now'[h] = Current /\ Current # 0
      /\ token[h] = NoToken \/ token[h].marker = Current
      /\ token[h] = NoToken => start'[h] = table /\ disturbed'[h] = (Running # {})
      /\ token[h] # NoToken => UNCHANGED start /\ disturbed'[h] = (disturbed[h] \/ Running # {})
  BY DEF Admit, Admitted, Met
<1>3. Current \in 1..runs /\ runs \in Nat /\ Current' = Current
  <2>1. metas # <<>> /\ Current = metas[1] /\ metas \in Seq(1..MaxRuns)
    BY <1>2 DEF Current
  <2>2. 1 \in 1..Len(metas)
    BY <2>1
  <2> QED BY <1>2, <2>1, <2>2 DEF HarvestInv, Dated, cvars, Current
<1>4. Reads(h)' = Current
  BY <1>2, <1>3 DEF Reads
<1>5. Asked(h)'
  BY <1>1, <1>2, <1>3 DEF HarvestParts, Asked, InRequest, Nothing
<1>6. Undisturbed(h)' /\ Counted(h)'
  BY <1>2, <1>3 DEF Undisturbed, Counted, Running, cvars
<1>7. Steady(h)'
  <2>1. CASE token[h] = NoToken
    <3> SUFFICES ASSUME ~disturbed'[h]
                 PROVE  /\ Current <= runs' /\ table' = start'[h]
                        /\ \A c \in Commands : cmd'[c] # "writing"
      BY <1>4 DEF Steady
    <3>1. \A c \in Commands : cmd[c] = "idle"
      BY <1>2, <2>1 DEF Running
    <3>2. UNCHANGED <<table, runs, cmd>>
      BY <1>2 DEF cvars
    <3> QED BY <1>2, <1>3, <2>1, <3>1, <3>2
  <2>2. CASE token[h] # NoToken
    <3>1. Reads(h) = Current
      BY <1>1, <1>2, <2>2 DEF HarvestParts, Asked, Reads, InRequest
    <3> QED BY <1>1, <1>2, <1>3, <1>4, <2>2, <3>1 DEF HarvestParts, Steady, cvars, Nothing
  <2> QED BY <2>1, <2>2
<1>8. Progress(h)'
  <2>1. CASE token[h] = NoToken
    <3>1. token'[h] = NoToken /\ got'[h] = Nothing
      BY <1>1, <1>2, <2>1 DEF HarvestParts, Asked
    <3>2. \A n \in Nat : ~(n < 0)
      OBVIOUS
    <3>3. Cardinality(Wanted(h)') \in Nat /\ \A u \in Projects : Rank(h, u)' \in Nat
      <4>1. Wanted(h)' \in SUBSET Projects
        BY DEF Wanted, Present
      <4> QED BY <4>1, MatchingCount DEF Rank
    <3> QED BY <1>2, <3>1, <3>2, <3>3 DEF Progress, NoToken, Nothing
  <2>2. CASE token[h] # NoToken
    <3>2. Wanted(h)' = Wanted(h) /\ Distinct(start[h])' = Distinct(start[h])
      BY <1>2, <2>2 DEF Wanted, Distinct, Present
    <3>3. \A v \in Projects : Rank(h, v)' = Rank(h, v)
      BY <1>2, <2>2, <3>2 DEF Rank
    <3> QED BY <1>1, <1>2, <2>2, <3>2, <3>3 DEF Progress, HarvestParts
  <2> QED BY <2>1, <2>2
<1> QED BY <1>5, <1>6, <1>7, <1>8 DEF HarvestParts

LEMMA CountStep ==
    ASSUME SnapshotHarvestAssumption, TypeOK, HarvestInv, NEW h \in Harvesters, Count(h)
    PROVE  HarvestParts(h)'
<1> USE DEF TypeOK
<1>1. CASE Matching(h) = {}
  BY <1>1, ForgetStep DEF Count
<1>2. CASE Matching(h) # {}
  <2>1. HarvestParts(h)
    BY DEF HarvestInv
  <2>2. /\ UNCHANGED <<cvars, token, now, got, start, want>>
        /\ hv[h] = "counting" /\ hv'[h] = "paging"
        /\ count'[h] = Cardinality(Matching(h)) /\ disturbed'[h] = (disturbed[h] \/ Running # {})
    BY <1>2 DEF Count, Met
  <2>3. Matching(h)' = Matching(h)
    BY <2>2 DEF Matching, Unsaid, Present, NoToken, cvars
  <2>4. Asked(h)'
    BY <2>1, <2>2 DEF HarvestParts, Asked, InRequest, Nothing
  <2>5. Counted(h)'
    BY <1>2, <2>2, <2>3 DEF Counted
  <2>6. Undisturbed(h)'
    BY <2>1, <2>2 DEF HarvestParts, Undisturbed, InRequest, Running, Current, cvars
  <2>7. Steady(h)'
    BY <2>1, <2>2 DEF HarvestParts, Steady, Reads, Current, cvars, Nothing
  <2>8. Progress(h)'
    <3>2. Wanted(h)' = Wanted(h) /\ Distinct(start[h])' = Distinct(start[h])
      BY <2>2 DEF Wanted, Distinct, Present
    <3>3. \A v \in Projects : Rank(h, v)' = Rank(h, v)
      BY <2>2, <3>2 DEF Rank
    <3> QED BY <2>1, <2>2, <3>2, <3>3 DEF Progress, HarvestParts
  <2> QED BY <2>4, <2>5, <2>6, <2>7, <2>8 DEF HarvestParts
<1> QED BY <1>1, <1>2

\* A page has the next rows of the order, and the last page the rest.
LEMMA PageStep ==
    ASSUME SnapshotHarvestAssumption, TypeOK, HarvestInv, NEW h \in Harvesters, Page(h)
    PROVE  HarvestParts(h)'
<1> USE DEF TypeOK
<1>1. HarvestParts(h)
  BY DEF HarvestInv
<1> DEFINE offset == token[h].offset
           page(r) == {u \in Matching(h) : offset <= r[u] /\ r[u] < offset + PageSize}
           next(r) == offset + Cardinality(page(r))
<1>2. PICK r \in Rankings(Matching(h)) :
         /\ got' = [got EXCEPT ![h] =
                      [u \in Projects |-> IF u \in page(r) THEN @[u] + 1 ELSE @[u]]]
         /\ token' = [token EXCEPT ![h] = [offset |-> next(r), marker |-> now[h]]]
         /\ hv' = [hv EXCEPT ![h] = IF More(h, next(r)) THEN "waiting" ELSE "complete"]
  BY DEF Page
<1>3. /\ UNCHANGED <<cvars, want, start>> /\ hv[h] = "paging"
      /\ now'[h] = 0 /\ disturbed'[h] = (disturbed[h] \/ Running # {})
  BY DEF Page, Met
<1>4. /\ token'[h] = [offset |-> next(r), marker |-> now[h]]
      /\ hv'[h] = IF next(r) < count[h] THEN "waiting" ELSE "complete"
      /\ \A u \in Projects : got'[h][u] = IF u \in page(r) THEN got[h][u] + 1 ELSE got[h][u]
  BY <1>2 DEF More
<1>5. now[h] \in Nat /\ now[h] > 0
  BY <1>1, <1>3 DEF HarvestParts, Asked, InRequest
<1> HIDE DEF page, next
<1>6. token'[h].marker = now[h] /\ token'[h].offset = next(r) /\ token'[h] # NoToken
  BY <1>4, <1>5 DEF NoToken
<1>7. Asked(h)'
  BY <1>3, <1>4, <1>5, <1>6 DEF Asked, InRequest
<1>8. Undisturbed(h)' /\ Counted(h)'
  BY <1>4 DEF Undisturbed, Counted, InRequest
<1>9. Steady(h)'
  <2>1. Reads(h)' = now[h] /\ Reads(h) = now[h]
    BY <1>3, <1>5, <1>6 DEF Reads
  <2> QED BY <1>1, <1>3, <2>1 DEF HarvestParts, Steady, Current, cvars, Nothing
<1>10. Progress(h)'
  <2> SUFFICES ASSUME ~disturbed'[h], Distinct(start[h])',
                      want'[h].repeats \/ want'[h].of = Projects
               PROVE  Progress(h)'
    BY DEF Progress
  <2>1. ~disturbed[h] /\ Distinct(start[h]) /\ (want[h].repeats \/ want[h].of = Projects)
    BY <1>3 DEF Distinct, Present
  <2>2. table = start[h]
    <3>1. Current = now[h] /\ Reads(h) = now[h] /\ Matching(h) # {}
      BY <1>1, <1>3, <1>5, <2>1 DEF HarvestParts, Undisturbed, Counted, Reads, InRequest
    <3>2. table \in {start[h], Nothing}
      BY <1>1, <1>5, <2>1, <3>1 DEF HarvestParts, Steady
    <3>3. table # Nothing
      BY <3>1 DEF Matching, Present, Nothing
    <3> QED BY <3>2, <3>3
  <2>3. Matching(h) = Wanted(h)
    <3>1. want[h].of \in {Projects, OwnSet} /\ OwnSet \subseteq Projects
      BY DEF Want, SnapshotHarvestAssumption
    <3> QED BY <2>1, <2>2, <3>1 DEF Matching, Wanted, Unsaid, Present
  <2> DEFINE W == Wanted(h)
             n == Cardinality(W)
  <2>4. W \subseteq Projects /\ IsFiniteSet(W) /\ n \in Nat
    BY MatchingCount DEF Wanted, Present
  <2>5. \A u \in W : r[u] = Rank(h, u) /\ r[u] \in Nat /\ r[u] < n
    <3>1. \A u \in W : r[u] = Rank(h, u)
      BY <2>1, <2>2, <2>3, OneRanking
    <3>2. r \in [W -> 0..(n - 1)]
      BY <2>3 DEF Rankings
    <3> QED BY <2>4, <3>1, <3>2
  <2>6. count[h] = n
    BY <1>1, <1>3, <2>1, <2>3 DEF HarvestParts, Counted
  <2>7. /\ offset \in Nat /\ offset <= n
        /\ \A u \in Projects : got[h][u] = IF u \in W /\ r[u] < offset THEN 1 ELSE 0
    <3>1. offset \in Nat
      BY DEF Token
    <3>2. Progress(h)
      BY <1>1 DEF HarvestParts
    <3> QED BY <1>3, <2>1, <2>5, <3>1, <3>2 DEF Progress
  <2> DEFINE end == IF offset + PageSize < n THEN offset + PageSize ELSE n
  <2>8. end \in Nat /\ offset <= end /\ end <= n /\ (end = n \/ end = offset + PageSize)
    <3>1. PageSize \in Nat
      BY DEF SnapshotHarvestAssumption
    <3> HIDE DEF n
    <3> QED BY <2>4, <2>7, <3>1
  <2>9. page(r) = {u \in W : offset <= r[u] /\ r[u] < end}
    <3>1. page(r) = {u \in W : offset <= r[u] /\ r[u] < offset + PageSize}
      BY <2>3 DEF page
    <3>2. \A u \in W : r[u] < offset + PageSize <=> r[u] < end
      <4>1. PageSize \in Nat
        BY DEF SnapshotHarvestAssumption
      <4> HIDE DEF W, n
      <4> QED BY <2>4, <2>5, <2>7, <4>1
    <3> HIDE DEF W, end
    <3> QED BY <3>1, <3>2
  <2>10. next(r) = end
    <3>1. r \in [W -> 0..(Cardinality(W) - 1)] /\ \A u, v \in W : u # v => r[u] # r[v]
      BY <2>3 DEF Rankings
    <3> DEFINE T == page(r)
    <3>2. T \subseteq W /\ \A u \in W : u \in T <=> offset <= r[u] /\ r[u] < end
      BY <2>9
    <3>3. Cardinality(T) = end - offset
      <4>1. IsFiniteSet(W) /\ offset \in Nat /\ end \in Nat /\
            offset <= end /\ end <= Cardinality(W)
        BY <2>4, <2>7, <2>8
      <4> HIDE DEF W, n, T, end, offset, TypeOK
      <4> QED BY <3>1, <3>2, <4>1, Numbering
    <3> HIDE DEF end, offset
    <3> QED BY <2>7, <2>8, <3>3 DEF next
  <2>11. Wanted(h)' = W /\ \A u \in Projects : Rank(h, u)' = Rank(h, u)
    <3>1. Wanted(h)' = W
      BY <1>3 DEF Wanted, Present
    <3> QED BY <1>3, <3>1 DEF Rank
  <2>12. ASSUME NEW u \in Projects
         PROVE  got'[h][u] = IF u \in W /\ r[u] < end THEN 1 ELSE 0
    <3>1. CASE u \in W
      <4>1. u \in page(r) <=> offset <= r[u] /\ r[u] < end
        BY <2>9, <3>1
      <4>2. r[u] \in Nat
        BY <2>5, <3>1
      <4> HIDE DEF W, n, end, offset
      <4> QED BY <1>4, <2>7, <2>8, <3>1, <4>1, <4>2
    <3>2. CASE u \notin W
      <4>1. u \notin page(r)
        BY <2>9, <3>2
      <4> QED BY <1>4, <2>7, <3>2, <4>1
    <3> QED BY <3>1, <3>2
  <2> HIDE DEF W, end, offset
  <2>13. CASE next(r) < count[h]
    <3>1. hv'[h] # "complete" /\ token'[h].offset = end /\ end <= Cardinality(W)
      BY <1>4, <1>6, <2>8, <2>10, <2>13 DEF n
    <3>2. /\ token'[h].offset <= Cardinality(Wanted(h)')
          /\ \A u \in Projects : got'[h][u] =
               IF u \in Wanted(h)' /\ Rank(h, u)' < token'[h].offset THEN 1 ELSE 0
      <4>1. token'[h].offset <= Cardinality(Wanted(h)')
        BY <2>11, <3>1
      <4>2. ASSUME NEW u \in Projects
            PROVE  got'[h][u] =
                     IF u \in Wanted(h)' /\ Rank(h, u)' < token'[h].offset THEN 1 ELSE 0
        <5>1. Wanted(h)' = W /\ Rank(h, u)' = Rank(h, u) /\ token'[h].offset = end
          BY <2>11, <3>1
        <5>2. u \in W => r[u] = Rank(h, u)
          BY <2>5
        <5>3. got'[h][u] = IF u \in W /\ Rank(h, u) < end THEN 1 ELSE 0
          BY <2>12, <5>2
        <5> QED BY <5>1, <5>3
      <4> QED BY <4>1, <4>2
    <3> QED BY <3>1, <3>2 DEF Progress
  <2>14. CASE ~(next(r) < count[h])
    <3>1. hv'[h] = "complete" /\ end = n
      BY <1>4, <2>4, <2>6, <2>8, <2>10, <2>14
    <3>2. \A u \in Projects : got'[h][u] = IF u \in W THEN 1 ELSE 0
      BY <2>5, <2>12, <3>1
    <3> QED BY <2>11, <3>1, <3>2 DEF Progress
  <2> QED BY <2>13, <2>14
<1> QED BY <1>7, <1>8, <1>9, <1>10 DEF HarvestParts

LEMMA HarvestStep ==
    ASSUME SnapshotHarvestAssumption
    PROVE  TypeOK /\ HarvestInv /\ [Next]_vars => HarvestInv'
<1> SUFFICES ASSUME TypeOK, HarvestInv, [Next]_vars PROVE HarvestInv'
  OBVIOUS
<1>1. CASE \E c \in Commands : Command(c)
  BY <1>1, CommandHarvest
<1>2. CASE \E u \in Projects : Delete(u)
  BY <1>2, DeleteHarvest
<1>3. ASSUME NEW h \in Harvesters, Step(h) PROVE HarvestInv'
  <2>1. UNCHANGED cvars /\ \A g \in Harvesters \ {h} : Alike(g) /\ disturbed'[g] = disturbed[g]
    BY <1>3, StepLeaves
  <2>2. Dated'
    BY <2>1 DEF HarvestInv, Dated, cvars
  <2>3. HarvestParts(h)'
    BY <1>3, AskStep, AdmitStep, ForgetStep, CountStep, PageStep
    DEF Step, Answer, Refuse, End
  <2>4. \A g \in Harvesters \ {h} : HarvestParts(g)'
    BY <2>1, Untouched DEF HarvestInv
  <2> QED BY <2>2, <2>3, <2>4 DEF HarvestInv
<1>4. CASE UNCHANGED vars
  <2>1. Dated'
    BY <1>4 DEF vars, HarvestInv, Dated
  <2>2. ASSUME NEW h \in Harvesters PROVE HarvestParts(h)'
    <3>1. UNCHANGED cvars /\ Alike(h) /\ disturbed'[h] = disturbed[h]
      BY <1>4 DEF vars, cvars, Alike
    <3> QED BY <3>1, Untouched DEF HarvestInv
  <2> QED BY <2>1, <2>2 DEF HarvestInv
<1> QED BY <1>1, <1>2, <1>3, <1>4 DEF Next, Step

\* "Simple offset-based pagination with snapshot timestamp validation": a harvest
\* that is told it is complete has received each record of the snapshot it began
\* with once and no other, whatever runs came between its requests.
THEOREM CompleteHarvestIsConsistent ==
    ASSUME SnapshotHarvestAssumption PROVE Spec => []CompleteIsConsistent
<1>1. Init => HarvestInv
  <2> SUFFICES ASSUME Init PROVE HarvestInv
    OBVIOUS
  <2>1. Dated
    BY DEF Init, Dated
  <2>2. ASSUME NEW h \in Harvesters PROVE HarvestParts(h)
    <3>1. Asked(h) /\ Steady(h) /\ Undisturbed(h) /\ Counted(h)
      BY DEF Init, Asked, Steady, Reads, Undisturbed, Counted, InRequest, NoToken
    <3>2. Wanted(h) = {} /\ Cardinality({}) = 0
      BY FS_EmptySet DEF Init, Wanted, Present, Nothing
    <3>3. Progress(h)
      BY <3>2 DEF Init, Progress, NoToken, Nothing
    <3> QED BY <3>1, <3>3 DEF HarvestParts
  <2> QED BY <2>1, <2>2 DEF HarvestInv
<1>2. TypeOK /\ HarvestInv /\ [Next]_vars => HarvestInv'
  BY HarvestStep
<1>3. HarvestInv => CompleteIsConsistent
  BY DEF HarvestInv, HarvestParts, Progress, Wanted, CompleteIsConsistent
<1>4. Spec => []TypeOK
  BY TypeCorrect, SnapshotHarvestAssumption
<1> QED BY <1>1, <1>2, <1>3, <1>4, PTL DEF Spec
=============================================================================
