-------------------------- MODULE PublicationProofs --------------------------
(* Theorems about the ways in which projects get out, for every value of the  *)
(* constants: first about the media links and approvals (Links), the tailored *)
(* feed (Feed) and the snapshot (Snapshot) each by itself, then about the     *)
(* behaviours of AllSpec, which are theirs and those of the catalogue.        *)
EXTENDS MCPublication, CatalogueIndexProofs

-----------------------------------------------------------------------------
(* Media links and approvals: types *)

LEMMA LinksInitType == Links!Init => Links!TypeOK
<1> SUFFICES ASSUME Links!Init PROVE Links!TypeOK
  OBVIOUS
<1>1. runs \in 0..MaxRuns /\ edits \in 0..MaxEdits /\ faults \in 0..MaxFaults
  BY PublicationAssumption DEF PublicationAssumption, Links!MediaSyncAssumption, Links!Init
<1> QED BY <1>1 DEF Links!Init, Links!TypeOK, Links!Nobody

\* What staff and imports do.
LinksEdits ==
    \/ \E p \in Projects :
         \/ \E b \in BOOLEAN : Links!Edit(p, b) \/ Links!Curate(p, b)
         \/ Links!Remove(p)
         \/ \E verdict \in {"pending", "approved"} : Links!Decide(p, verdict)
    \/ Links!ClearData

LEMMA LinksEditType == ASSUME Links!TypeOK, LinksEdits PROVE Links!TypeOK'
<1> USE DEF Links!TypeOK, LinksEdits
<1>1. /\ edits' = edits + 1 /\ edits < MaxEdits
      /\ Links!Disturbed(Builders)
      /\ UNCHANGED <<seeded, synced, Links!wvars, faults>>
  BY DEF Links!Edit, Links!Curate, Links!Remove, Links!Decide, Links!ClearData, Links!Changing
<1>2. edits' \in 0..MaxEdits
  BY <1>1, PublicationAssumption DEF PublicationAssumption, Links!MediaSyncAssumption
<1>3. calm' \in [Builders -> BOOLEAN]
  BY <1>1 DEF Links!Disturbed
<1>4. behind' \in [Builders -> SUBSET Projects]
  BY DEF Links!Edit, Links!Curate, Links!Remove, Links!Decide, Links!ClearData, Links!Behind
<1>5. /\ media' \subseteq Projects
      /\ link' \in [Projects -> {"none", "fresh", "stale"}]
      /\ pub' \in [Projects -> {"absent", "pending", "approved"}]
      /\ newSeed' \subseteq Projects /\ newPub' \subseteq Projects /\ missed' \subseteq Projects
  <2>1. CASE Links!ClearData
    BY <2>1 DEF Links!ClearData
  <2>2. ASSUME NEW p \in Projects, NEW b \in BOOLEAN, Links!Edit(p, b) PROVE <1>5!:
    BY <2>2 DEF Links!Edit
  <2>3. ASSUME NEW p \in Projects, NEW b \in BOOLEAN, Links!Curate(p, b) PROVE <1>5!:
    BY <2>3 DEF Links!Curate
  <2>4. ASSUME NEW p \in Projects, Links!Remove(p) PROVE <1>5!:
    BY <2>4 DEF Links!Remove
  <2>5. ASSUME NEW p \in Projects, NEW v \in {"pending", "approved"}, Links!Decide(p, v)
        PROVE  <1>5!:
    BY <2>5 DEF Links!Decide
  <2> QED BY <2>1, <2>2, <2>3, <2>4, <2>5
<1> QED BY <1>1, <1>2, <1>3, <1>4, <1>5 DEF Links!wvars

LEMMA LinksRunType ==
    ASSUME Links!TypeOK, NEW w \in Builders, Links!Start(w) \/ Links!Work(w) \/ Links!Fail(w)
    PROVE  Links!TypeOK'
<1> USE DEF Links!TypeOK, Links!Busy, Links!Nobody, Links!dvars, Links!Working
<1>1. ASSUME faults' = faults + 1, faults < MaxFaults PROVE faults' \in 0..MaxFaults
  BY <1>1, PublicationAssumption DEF PublicationAssumption, Links!MediaSyncAssumption
<1>2. ASSUME Links!Start(w) PROVE Links!TypeOK'
  <2>1. runs' \in 0..MaxRuns
    BY <1>2, PublicationAssumption
       DEF PublicationAssumption, Links!MediaSyncAssumption, Links!Start
  <2> QED BY <1>2, <2>1 DEF Links!Start
<1>3. ASSUME Links!Plan(w) PROVE Links!TypeOK'
  BY <1>3 DEF Links!Plan
<1>4. ASSUME Links!Assemble(w) PROVE Links!TypeOK'
  <2>1. PICK p \in todo[w] : /\ read' = [read EXCEPT ![w] = [at |-> {p}, has |-> p \in media]]
                             /\ todo' = [todo EXCEPT ![w] = todo[w] \ {p}]
    BY <1>4 DEF Links!Assemble
  <2>2. [at |-> {p}, has |-> p \in media] \in [at : SUBSET Projects, has : BOOLEAN]
    OBVIOUS
  <2> QED BY <1>4, <2>1, <2>2 DEF Links!Assemble
<1>5. ASSUME Links!Skip(w) PROVE Links!TypeOK'
  <2>1. faults' \in 0..MaxFaults
    BY <1>1, <1>5 DEF Links!Skip
  <2> QED BY <1>5, <2>1 DEF Links!Skip
<1>6. ASSUME Links!Upsert(w) PROVE Links!TypeOK'
  BY <1>6 DEF Links!Upsert, Links!Seed, Links!Disturbed
<1>7. ASSUME Links!Seeded(w) PROVE Links!TypeOK'
  BY <1>7 DEF Links!Seeded
<1>8. ASSUME Links!Gather(w) PROVE Links!TypeOK'
  BY <1>8 DEF Links!Gather, Links!Candidates, Links!Linked
<1>9. ASSUME Links!Evaluate(w) PROVE Links!TypeOK'
  BY <1>9 DEF Links!Evaluate, Links!Disturbed
<1>10. ASSUME Links!Omit(w) PROVE Links!TypeOK'
  <2>1. faults' \in 0..MaxFaults
    BY <1>1, <1>10 DEF Links!Omit
  <2> QED BY <1>10, <2>1 DEF Links!Omit
<1>11. ASSUME Links!Synced(w) PROVE Links!TypeOK'
  BY <1>11 DEF Links!Synced
<1>12. ASSUME Links!Report(w) \/ Links!Fail(w) PROVE Links!TypeOK'
  <2>1. Links!Leave(w) /\ faults' \in 0..MaxFaults
    BY <1>1, <1>12 DEF Links!Report, Links!Fail
  <2> QED BY <2>1 DEF Links!Leave
<1> QED BY <1>2, <1>3, <1>4, <1>5, <1>6, <1>7, <1>8, <1>9, <1>10, <1>11, <1>12 DEF Links!Work

\* Whatever the runs and the staff do, the state of the links has its type.
LEMMA LinksType == Links!TypeOK /\ [Links!Next]_Links!vars => Links!TypeOK'
<1> SUFFICES ASSUME Links!TypeOK, [Links!Next]_Links!vars PROVE Links!TypeOK'
  OBVIOUS
<1>1. CASE Links!Next
  <2>1. LinksEdits \/ \E w \in Builders : Links!Start(w) \/ Links!Work(w) \/ Links!Fail(w)
    BY <1>1 DEF Links!Next, LinksEdits
  <2> QED BY <2>1, LinksEditType, LinksRunType
<1>2. CASE UNCHANGED Links!vars
  BY <1>2 DEF Links!vars, Links!dvars, Links!wvars, Links!TypeOK
<1> QED BY <1>1, <1>2

-----------------------------------------------------------------------------
(* What changed is due *)

\* The link of a project says what its record says.
Says(p) == (link[p] = "fresh") = (p \in media)

\* Once links have been seeded, a link that says something else is due, or was missed.
WrongIsDue ==
    \A p \in Projects : seeded /\ link[p] # "none" /\ ~Says(p) => p \in newSeed \cup missed

\* A seeding run has each wrong link before it, or knows that it does not see it.
Accounted(w) ==
    pc[w] \in {"seeding", "upserting"} =>
        \A p \in Projects \ missed : link[p] # "none" /\ ~Says(p) =>
            \/ p \in todo[w] \cup behind[w]
            \/ p \in read[w].at /\ read[w].has = (p \in media)

\* A run is at one project.
AtOne(w) == \A p, q \in read[w].at : p = q

DueInv == WrongIsDue /\ \A w \in Builders : Accounted(w) /\ AtOne(w)

LEMMA DueEdit ==
    ASSUME Links!TypeOK, DueInv, LinksEdits
    PROVE  DueInv'
<1> USE DEF Links!TypeOK
<1>1. UNCHANGED <<seeded, Links!wvars>>
  BY DEF LinksEdits, Links!Edit, Links!Curate, Links!Remove, Links!Decide, Links!ClearData,
         Links!Changing
<1>2. ASSUME NEW p \in Projects, NEW w \in Builders, Links!Behind(p)
      PROVE  behind[w] \subseteq behind'[w] /\ (p \in todo[w] \cup behind'[w]
                                                \/ pc[w] \notin {"seeding", "upserting"})
  BY <1>2 DEF Links!Behind
<1>3. \A w \in Builders : AtOne(w)'
  BY <1>1 DEF DueInv, AtOne, Links!wvars
<1>4. ASSUME NEW p \in Projects, NEW b \in BOOLEAN, Links!Edit(p, b) PROVE DueInv'
  <2>1. \A q \in Projects \ {p} : Says(q)' = Says(q)
    BY <1>4 DEF Links!Edit, Says
  <2>2. UNCHANGED link /\ p \in newSeed' \cup missed'
        /\ newSeed \subseteq newSeed' /\ missed \subseteq missed' /\ Links!Behind(p)
    BY <1>4 DEF Links!Edit
  <2>3. \A q \in Projects \ {p} : (q \in media') = (q \in media)
    BY <1>4 DEF Links!Edit
  <2>4. WrongIsDue'
    BY <1>1, <2>1, <2>2 DEF DueInv, WrongIsDue
  <2>5. ASSUME NEW w \in Builders PROVE Accounted(w)'
    BY <1>1, <1>2, <2>1, <2>2, <2>3 DEF DueInv, Accounted, Links!wvars
  <2> QED BY <1>3, <2>4, <2>5 DEF DueInv
<1>5. ASSUME NEW p \in Projects, NEW b \in BOOLEAN, Links!Curate(p, b) PROVE DueInv'
  <2>1. \A q \in Projects \ {p} : Says(q)' = Says(q) /\ link'[q] = link[q]
    BY <1>5 DEF Links!Curate, Says
  <2>2. UNCHANGED <<media, missed>> /\ newSeed' = newSeed \cup {p} /\ Links!Behind(p)
    BY <1>5 DEF Links!Curate
  <2>4. WrongIsDue'
    BY <1>1, <2>1, <2>2 DEF DueInv, WrongIsDue
  <2>5. ASSUME NEW w \in Builders PROVE Accounted(w)'
    BY <1>1, <1>2, <2>1, <2>2 DEF DueInv, Accounted, Links!wvars
  <2> QED BY <1>3, <2>4, <2>5 DEF DueInv
<1>6. ASSUME \/ Links!ClearData
             \/ \E p \in Projects : \/ Links!Remove(p)
                                    \/ \E v \in {"pending", "approved"} : Links!Decide(p, v)
      PROVE  DueInv'
  <2>1. /\ UNCHANGED <<media, missed, newSeed, behind>>
        /\ \A q \in Projects : link'[q] = link[q] \/ link'[q] = "none"
    BY <1>6 DEF Links!Remove, Links!Decide, Links!ClearData
  <2>2. \A q \in Projects : link'[q] # "none" => Says(q)' = Says(q) /\ link'[q] = link[q]
    BY <2>1 DEF Says
  <2>4. WrongIsDue'
    BY <1>1, <2>1, <2>2 DEF DueInv, WrongIsDue
  <2>5. ASSUME NEW w \in Builders PROVE Accounted(w)'
    BY <1>1, <2>1, <2>2 DEF DueInv, Accounted, Links!wvars
  <2> QED BY <1>3, <2>4, <2>5 DEF DueInv
<1> QED BY <1>4, <1>5, <1>6 DEF LinksEdits

\* A run that has just planned has every wrong link before it.
LEMMA DuePlan ==
    ASSUME Links!TypeOK, DueInv, NEW w \in Builders, Links!Plan(w)
    PROVE  DueInv'
<1> USE DEF Links!TypeOK, Links!Plan, Links!Working, Links!dvars
<1>1. UNCHANGED <<media, Links!dvars, read>>
      /\ \A v \in Builders \ {w} : pc'[v] = pc[v] /\ todo'[v] = todo[v]
  OBVIOUS
<1>2. \A p \in Projects : Says(p)' = Says(p)
  BY <1>1 DEF Says
<1>3. ASSUME NEW p \in Projects \ missed, link[p] # "none", ~Says(p)
      PROVE  p \in todo'[w]
  BY <1>3 DEF DueInv, WrongIsDue
<1>4. WrongIsDue'
  BY <1>1, <1>2 DEF DueInv, WrongIsDue
<1>5. ASSUME NEW v \in Builders PROVE (Accounted(v) /\ AtOne(v))'
  BY <1>1, <1>2, <1>3 DEF DueInv, Accounted, AtOne
<1> QED BY <1>4, <1>5 DEF DueInv

LEMMA DueAssemble ==
    ASSUME Links!TypeOK, DueInv, NEW w \in Builders, Links!Assemble(w) \/ Links!Skip(w)
    PROVE  DueInv'
<1> USE DEF Links!TypeOK, Links!Assemble, Links!Skip, Links!Working, Links!dvars
<1>1. /\ UNCHANGED <<media, link, seeded, newSeed, missed>> /\ pc[w] = "seeding"
      /\ \A v \in Builders \ {w} : /\ pc'[v] = pc[v] /\ todo'[v] = todo[v]
                                   /\ read'[v] = read[v] /\ behind'[v] = behind[v]
  OBVIOUS
<1>2. \A p \in Projects : Says(p)' = Says(p)
  BY <1>1 DEF Says
<1>3. \/ behind'[w] = behind[w]
         /\ \E p \in todo[w] : /\ read'[w] = [at |-> {p}, has |-> p \in media]
                               /\ todo'[w] = todo[w] \ {p}
      \/ \E p \in todo[w] : behind'[w] = behind[w] \cup {p} /\ todo'[w] = todo[w] \ {p}
  OBVIOUS
<1>4. WrongIsDue'
  BY <1>1, <1>2 DEF DueInv, WrongIsDue
<1>5. read[w].at = {}
  BY <1>1 DEF Links!Nobody
<1>6. (Accounted(w) /\ AtOne(w))'
  BY <1>1, <1>2, <1>3, <1>5 DEF DueInv, Accounted, AtOne
<1>7. ASSUME NEW v \in Builders \ {w} PROVE (Accounted(v) /\ AtOne(v))'
  BY <1>1, <1>2 DEF DueInv, Accounted, AtOne
<1> QED BY <1>4, <1>6, <1>7 DEF DueInv

\* A link that is written is right, or missed from now on.
LEMMA DueUpsert ==
    ASSUME Links!TypeOK, DueInv, NEW w \in Builders, Links!Upsert(w)
    PROVE  DueInv'
<1> USE DEF Links!TypeOK
<1>1. PICK p \in read[w].at :
         LET new == Links!Seed(p, read[w].has)
         IN  /\ link' = [link EXCEPT ![p] = new]
             /\ newSeed' = IF new # link[p] THEN newSeed \cup {p} ELSE newSeed
             /\ missed' = IF read[w].has = (p \in media) THEN missed \ {p} ELSE missed \cup {p}
             /\ behind' = [v \in Builders |-> IF read[w].has = (p \in media)
                                              THEN behind[v] \ {p} ELSE behind[v]]
  BY DEF Links!Upsert
<1>2. p \in Projects /\ UNCHANGED <<media, seeded, todo>>
  BY <1>1 DEF Links!Upsert, Links!Working
<1>3. \A q \in Projects \ {p} : Says(q)' = Says(q) /\ link'[q] = link[q]
  BY <1>1, <1>2 DEF Says
<1>4. Says(p)' \/ link'[p] = "none" \/ p \in missed'
  <2>1. read[w].has \in BOOLEAN
    OBVIOUS
  <2> QED BY <1>1, <1>2, <2>1 DEF Says, Links!Seed
<1>5. WrongIsDue'
  BY <1>1, <1>2, <1>3, <1>4 DEF DueInv, WrongIsDue
<1>6. read'[w].at = {} /\ pc[w] = "upserting"
      /\ \A v \in Builders \ {w} : read'[v] = read[v] /\ pc'[v] = pc[v]
  BY DEF Links!Upsert, Links!Nobody
<1>7. ASSUME NEW v \in Builders, NEW q \in Projects \ {p}
      PROVE q \in behind'[v] \/ q \notin behind[v]
  BY <1>1
<1>8. ASSUME NEW v \in Builders \ {w} PROVE (Accounted(v) /\ AtOne(v))'
  BY <1>1, <1>2, <1>3, <1>4, <1>6, <1>7 DEF DueInv, Accounted, AtOne
<1>9. (Accounted(w) /\ AtOne(w))'
  <2>1. read[w].at = {p}
    BY <1>1 DEF DueInv, AtOne
  <2> QED BY <1>1, <1>2, <1>3, <1>4, <1>6, <1>7, <2>1 DEF DueInv, Accounted, AtOne
<1> QED BY <1>5, <1>8, <1>9 DEF DueInv

\* The watermark is written when nothing wrong is left but what is missed.
LEMMA DueSeeded ==
    ASSUME Links!TypeOK, DueInv, NEW w \in Builders, Links!Seeded(w)
    PROVE  DueInv'
<1> USE DEF Links!TypeOK, Links!Seeded, Links!Working
<1>1. /\ UNCHANGED <<media, link, todo, read>> /\ missed' = missed \cup behind[w]
      /\ pc[w] = "seeding" /\ pc'[w] = "gathering" /\ todo[w] = {}
      /\ \A v \in Builders \ {w} : pc'[v] = pc[v] /\ behind'[v] = behind[v]
  OBVIOUS
<1>2. \A p \in Projects : Says(p)' = Says(p)
  BY <1>1 DEF Says
<1>3. read[w].at = {}
  BY <1>1 DEF Links!Nobody
<1>4. WrongIsDue'
  BY <1>1, <1>2, <1>3 DEF DueInv, WrongIsDue, Accounted
<1>5. ASSUME NEW v \in Builders PROVE (Accounted(v) /\ AtOne(v))'
  BY <1>1, <1>2 DEF DueInv, Accounted, AtOne
<1> QED BY <1>4, <1>5 DEF DueInv

LEMMA DueOther ==
    ASSUME Links!TypeOK, DueInv, NEW w \in Builders,
           \/ Links!Start(w) \/ Links!Gather(w) \/ Links!Evaluate(w) \/ Links!Omit(w)
           \/ Links!Synced(w) \/ Links!Report(w) \/ Links!Fail(w)
    PROVE  DueInv'
<1> USE DEF Links!TypeOK
<1>1. /\ UNCHANGED <<media, link, seeded, newSeed, missed>>
      /\ pc'[w] \notin {"seeding", "upserting"}
      /\ \A v \in Builders \ {w} : /\ pc'[v] = pc[v] /\ todo'[v] = todo[v]
                                   /\ read'[v] = read[v] /\ behind'[v] = behind[v]
  BY DEF Links!Start, Links!Gather, Links!Evaluate, Links!Omit, Links!Synced, Links!Report,
         Links!Fail, Links!Leave, Links!Working, Links!dvars
<1>2. \A p \in Projects : Says(p)' = Says(p)
  BY <1>1 DEF Says
<1>3. WrongIsDue'
  BY <1>1, <1>2 DEF DueInv, WrongIsDue
<1>4. ASSUME NEW v \in Builders PROVE Accounted(v)'
  BY <1>1, <1>2 DEF DueInv, Accounted
<1>5. ASSUME NEW v \in Builders PROVE AtOne(v)'
  <2>1. read'[v] = read[v] \/ read'[v] = Links!Nobody
    BY <1>1 DEF Links!Start, Links!Gather, Links!Evaluate, Links!Omit, Links!Synced,
                Links!Report, Links!Fail, Links!Leave, Links!Working
  <2> QED BY <2>1 DEF DueInv, AtOne, Links!Nobody
<1> QED BY <1>3, <1>4, <1>5 DEF DueInv

LEMMA DueStep == Links!TypeOK /\ DueInv /\ [Links!Next]_Links!vars => DueInv'
<1> SUFFICES ASSUME Links!TypeOK, DueInv, [Links!Next]_Links!vars PROVE DueInv'
  OBVIOUS
<1>1. CASE UNCHANGED Links!vars
  BY <1>1 DEF Links!vars, Links!dvars, Links!wvars, DueInv, WrongIsDue, Accounted, AtOne, Says
<1>2. CASE Links!Next
  <2>1. LinksEdits \/ \E w \in Builders : Links!Start(w) \/ Links!Work(w) \/ Links!Fail(w)
    BY <1>2 DEF Links!Next, LinksEdits
  <2>2. ASSUME NEW w \in Builders, Links!Start(w) \/ Links!Work(w) \/ Links!Fail(w)
        PROVE  DueInv'
    BY <2>2, DuePlan, DueAssemble, DueUpsert, DueSeeded, DueOther DEF Links!Work
  <2> QED BY <2>1, <2>2, DueEdit
<1> QED BY <1>1, <1>2

-----------------------------------------------------------------------------
(* A run nothing comes in between of *)

\* The projects that a run is to get right: an incremental one does not see those
\* that were missed.
Ours(w) == {p \in Projects : force[w] \/ p \notin missed}

\* A run that is alone and seeds has got right what it is done with; when it has
\* seeded, all of them are right, and it approves those that have media.
CalmSeeding(w) ==
    /\ pc[w] \in {"seeding", "upserting"} =>
         \A p \in Ours(w) \ (todo[w] \cup read[w].at) : Says(p)
    /\ \A p \in read[w].at : read[w].has = (p \in media)

CalmPublishing(w) ==
    /\ pc[w] \in {"gathering", "publishing", "reporting"} => \A p \in Ours(w) : Says(p)
    /\ pc[w] = "publishing" => harvestable[w] = {p \in Projects : link[p] = "fresh"}
    /\ pc[w] \in {"publishing", "reporting"} =>
         \A p \in Ours(w) \ todo[w] : p \in media => pub[p] = "approved"

CalmInv == \A w \in Builders : calm[w] /\ ~only[w] => CalmSeeding(w) /\ CalmPublishing(w)

\* A step of others that a run is not disturbed by leaves what it relies on.
LEMMA CalmOthers ==
    ASSUME Links!TypeOK, CalmInv, NEW v \in Builders,
           calm'[v] => calm[v], only'[v] = only[v], force'[v] = force[v],
           pc'[v] = pc[v], todo'[v] = todo[v], read'[v] = read[v], harvestable'[v] = harvestable[v],
           pc[v] \in Links!Busy /\ calm'[v]
             => UNCHANGED <<media, link, pub>> /\ missed \subseteq missed'
    PROVE  calm'[v] /\ ~only'[v] => (CalmSeeding(v) /\ CalmPublishing(v))'
<1> SUFFICES ASSUME calm'[v], ~only'[v] PROVE (CalmSeeding(v) /\ CalmPublishing(v))'
  OBVIOUS
<1>1. CASE pc[v] \in Links!Busy
  <2>1. \A p \in Projects : Says(p)' = Says(p)
    BY <1>1 DEF Says
  <2>2. Ours(v)' \subseteq Ours(v)
    BY <1>1 DEF Ours
  <2>3. CalmSeeding(v)'
    BY <1>1, <2>1, <2>2 DEF CalmInv, CalmSeeding, Ours
  <2>4. CalmPublishing(v)'
    BY <1>1, <2>1, <2>2 DEF CalmInv, CalmPublishing, Ours
  <2> QED BY <2>3, <2>4
<1>2. CASE pc[v] \notin Links!Busy
  <2>1. read[v].at = {}
    BY <1>2 DEF Links!TypeOK, Links!Busy, Links!Nobody
  <2> QED BY <1>2, <2>1 DEF Links!Busy, CalmSeeding, CalmPublishing
<1> QED BY <1>1, <1>2

LEMMA CalmEdit ==
    ASSUME Links!TypeOK, CalmInv, LinksEdits
    PROVE  CalmInv'
<1>1. Links!Disturbed(Builders) /\ UNCHANGED Links!wvars
  BY DEF LinksEdits, Links!Edit, Links!Curate, Links!Remove, Links!Decide, Links!ClearData,
         Links!Changing
<1>2. ASSUME NEW v \in Builders
      PROVE  calm'[v] /\ ~only'[v] => (CalmSeeding(v) /\ CalmPublishing(v))'
  BY <1>1, CalmOthers DEF Links!Disturbed, Links!wvars
<1> QED BY <1>2 DEF CalmInv

\* What a step of a run leaves alone of the others.
Apart(w) ==
    \A v \in Builders \ {w} :
        /\ pc'[v] = pc[v] /\ only'[v] = only[v] /\ force'[v] = force[v]
        /\ todo'[v] = todo[v] /\ read'[v] = read[v] /\ harvestable'[v] = harvestable[v]
        /\ calm'[v] => calm[v]
        /\ pc[v] \in Links!Busy /\ calm'[v]
             => UNCHANGED <<media, link, pub>> /\ missed \subseteq missed'

LEMMA RunsApart ==
    ASSUME Links!TypeOK, NEW w \in Builders, Links!Start(w) \/ Links!Work(w) \/ Links!Fail(w)
    PROVE  Apart(w)
<1> USE DEF Links!TypeOK, Links!Working, Links!dvars, Apart
<1>1. ASSUME Links!Upsert(w) \/ Links!Evaluate(w) PROVE Apart(w)
  BY <1>1 DEF Links!Upsert, Links!Evaluate, Links!Disturbed
<1>2. ASSUME \/ Links!Start(w) \/ Links!Plan(w) \/ Links!Assemble(w) \/ Links!Skip(w)
             \/ Links!Seeded(w)
      PROVE  Apart(w)
  BY <1>2 DEF Links!Start, Links!Plan, Links!Assemble, Links!Skip, Links!Seeded
<1>3. ASSUME Links!Gather(w) \/ Links!Omit(w) \/ Links!Synced(w) PROVE Apart(w)
  BY <1>3 DEF Links!Gather, Links!Omit, Links!Synced
<1>4. ASSUME Links!Report(w) \/ Links!Fail(w) PROVE Apart(w)
  BY <1>4 DEF Links!Report, Links!Fail, Links!Leave
<1> QED BY <1>1, <1>2, <1>3, <1>4 DEF Links!Work

\* The step of the run itself.
CalmAfter(w) == calm'[w] /\ ~only'[w] => (CalmSeeding(w) /\ CalmPublishing(w))'

LEMMA CalmBegins ==
    ASSUME Links!TypeOK, DueInv, CalmInv, NEW w \in Builders,
           Links!Start(w) \/ Links!Plan(w) \/ Links!Report(w) \/ Links!Fail(w) \/ Links!Skip(w)
           \/ Links!Omit(w)
    PROVE  CalmAfter(w)
<1> USE DEF Links!TypeOK, Links!Nobody
<1>1. ASSUME Links!Start(w) PROVE CalmAfter(w)
  <2>1. read'[w].at = {} /\ (only'[w] \/ pc'[w] = "planning")
    BY <1>1 DEF Links!Start
  <2> QED BY <2>1 DEF CalmAfter, CalmSeeding, CalmPublishing
<1>2. ASSUME Links!Report(w) \/ Links!Fail(w) PROVE CalmAfter(w)
  <2>1. read'[w].at = {} /\ pc'[w] = "idle"
    BY <1>2 DEF Links!Report, Links!Fail, Links!Leave
  <2> QED BY <2>1 DEF CalmAfter, CalmSeeding, CalmPublishing
<1>3. ASSUME Links!Skip(w) \/ Links!Omit(w) PROVE CalmAfter(w)
  BY <1>3 DEF Links!Skip, Links!Omit, CalmAfter
<1>4. ASSUME Links!Plan(w) PROVE CalmAfter(w)
  <2>1. read'[w].at = {} /\ pc'[w] = "seeding" /\ UNCHANGED <<media, link, missed>>
    BY <1>4 DEF Links!Plan, Links!Working, Links!dvars
  <2>2. \A p \in Ours(w) : ~Says(p) => p \in todo'[w]
    BY <1>4 DEF Links!Plan, DueInv, WrongIsDue, Ours
  <2>5. Ours(w)' = Ours(w) /\ Ours(w) \subseteq Projects
    BY <1>4, <2>1 DEF Links!Plan, Links!Working, Ours
  <2>3. \A p \in Projects : Says(p)' = Says(p)
    BY <2>1 DEF Says
  <2>4. CalmSeeding(w)'
    BY <2>1, <2>2, <2>3, <2>5 DEF CalmSeeding
  <2> QED BY <2>1, <2>4 DEF CalmAfter, CalmPublishing
<1> QED BY <1>1, <1>2, <1>3, <1>4

LEMMA CalmSeeds ==
    ASSUME Links!TypeOK, DueInv, CalmInv, NEW w \in Builders,
           Links!Assemble(w) \/ Links!Upsert(w) \/ Links!Seeded(w)
    PROVE  CalmAfter(w)
<1> USE DEF Links!TypeOK, Links!Working
<1> SUFFICES ASSUME calm'[w], ~only'[w] PROVE (CalmSeeding(w) /\ CalmPublishing(w))'
  BY DEF CalmAfter
<1>1. calm[w] /\ ~only[w] /\ media' = media /\ force' = force
  BY DEF Links!Assemble, Links!Upsert, Links!Seeded, Links!dvars, Links!Disturbed
<1>2. CalmSeeding(w)
  BY <1>1 DEF CalmInv
<1>3. ASSUME Links!Assemble(w) PROVE (CalmSeeding(w) /\ CalmPublishing(w))'
  <2>1. UNCHANGED <<link, missed>> /\ pc[w] = "seeding" /\ pc'[w] = "upserting"
    BY <1>3 DEF Links!Assemble, Links!dvars
  <2>2. PICK p \in todo[w] : /\ read'[w] = [at |-> {p}, has |-> p \in media]
                             /\ todo'[w] = todo[w] \ {p}
    BY <1>3 DEF Links!Assemble
  <2>3. \A q \in Projects : Says(q)' = Says(q)
    BY <1>1, <2>1 DEF Says
  <2>4. read[w].at = {}
    BY <2>1 DEF Links!Nobody
  <2>5. CalmSeeding(w)'
    BY <1>1, <1>2, <2>1, <2>2, <2>3, <2>4 DEF CalmSeeding, Ours
  <2> QED BY <2>1, <2>5 DEF CalmPublishing
<1>4. ASSUME Links!Upsert(w) PROVE (CalmSeeding(w) /\ CalmPublishing(w))'
  <2>1. UNCHANGED todo /\ pc[w] = "upserting" /\ pc'[w] = "seeding" /\ read'[w].at = {}
    BY <1>4 DEF Links!Upsert, Links!Nobody
  <2>2. PICK p \in read[w].at :
             /\ link' = [link EXCEPT ![p] = Links!Seed(p, read[w].has)]
             /\ missed' = IF read[w].has = (p \in media) THEN missed \ {p} ELSE missed \cup {p}
    BY <1>4 DEF Links!Upsert
  <2>3. read[w].at = {p} /\ read[w].has = (p \in media)
    BY <1>2, <2>2 DEF DueInv, AtOne, CalmSeeding
  <2>4. \A q \in Projects \ {p} : Says(q)' = Says(q)
    BY <1>1, <2>2 DEF Says
  <2>5. Says(p)' /\ missed' = missed \ {p}
    BY <1>1, <2>2, <2>3 DEF Says, Links!Seed
  <2>6. CalmSeeding(w)'
    BY <1>1, <1>2, <2>1, <2>3, <2>4, <2>5 DEF CalmSeeding, Ours
  <2> QED BY <2>1, <2>6 DEF CalmPublishing
<1>5. ASSUME Links!Seeded(w) PROVE (CalmSeeding(w) /\ CalmPublishing(w))'
  <2>1. /\ pc[w] = "seeding" /\ pc'[w] = "gathering" /\ todo[w] = {}
        /\ UNCHANGED <<link, read>> /\ missed \subseteq missed'
    BY <1>5 DEF Links!Seeded
  <2>2. read[w].at = {}
    BY <2>1 DEF Links!Nobody
  <2>3. \A q \in Projects : Says(q)' = Says(q)
    BY <1>1, <2>1 DEF Says
  <2>4. CalmPublishing(w)'
    BY <1>1, <1>2, <2>1, <2>2, <2>3 DEF CalmSeeding, CalmPublishing, Ours
  <2> QED BY <2>1, <2>2, <2>4 DEF CalmSeeding
<1> QED BY <1>3, <1>4, <1>5

LEMMA CalmPublishes ==
    ASSUME Links!TypeOK, CalmInv, NEW w \in Builders,
           Links!Gather(w) \/ Links!Evaluate(w) \/ Links!Synced(w)
    PROVE  CalmAfter(w)
<1> USE DEF Links!TypeOK, Links!Working
<1> SUFFICES ASSUME calm'[w], ~only'[w] PROVE (CalmSeeding(w) /\ CalmPublishing(w))'
  BY DEF CalmAfter
<1>1. /\ calm[w] /\ ~only[w] /\ UNCHANGED <<media, link, missed, read, force>>
      /\ pc[w] \in {"gathering", "publishing"} /\ pc'[w] \in {"publishing", "reporting"}
  BY DEF Links!Gather, Links!Evaluate, Links!Synced, Links!dvars, Links!Disturbed
<1>2. CalmPublishing(w)
  BY <1>1 DEF CalmInv
<1>3. /\ \A q \in Projects : Says(q)' = Says(q)
      /\ Ours(w)' = Ours(w) /\ Ours(w) \subseteq Projects
  BY <1>1 DEF Says, Ours
<1>4. read[w].at = {}
  BY <1>1 DEF Links!Nobody
<1>5. CalmSeeding(w)'
  BY <1>1, <1>4 DEF CalmSeeding
<1>6. \A p \in Ours(w) : Says(p)
  BY <1>1, <1>2 DEF CalmPublishing
<1>7. ASSUME Links!Gather(w) PROVE CalmPublishing(w)'
  <2>1. /\ Links!Linked \subseteq todo'[w] 
        /\ harvestable'[w] = {p \in Projects : link[p] = "fresh"}
        /\ pc'[w] = "publishing"
    BY <1>7 DEF Links!Gather, Links!Candidates, Links!Linked
  <2>2. \A p \in Ours(w) : p \in media => p \in todo'[w]
    BY <1>6, <2>1 DEF Links!Linked, Says, Ours
  <2> QED BY <1>1, <1>3, <1>6, <2>1, <2>2 DEF CalmPublishing
<1>8. ASSUME Links!Evaluate(w) PROVE CalmPublishing(w)'
  <2>1. PICK p \in todo[w] :
            LET new == IF p \in harvestable[w] \cup Links!Linked THEN "approved" ELSE "pending"
            IN  todo' = [todo EXCEPT ![w] = @ \ {p}] /\ pub' = [pub EXCEPT ![p] = new]
    BY <1>8 DEF Links!Evaluate
  <2>2. UNCHANGED <<pc, harvestable>> /\ pc[w] = "publishing"
    BY <1>8 DEF Links!Evaluate
  <2>3. p \in Ours(w) /\ p \in media => pub'[p] = "approved"
    BY <1>6, <2>1 DEF Says, Links!Linked, Ours
  <2>4. todo'[w] = todo[w] \ {p} /\ \A q \in Projects \ {p} : pub'[q] = pub[q]
    BY <2>1
  <2>5. \A q \in Ours(w) \ todo[w] : q \in media => pub[q] = "approved"
    BY <1>2, <2>2 DEF CalmPublishing
  <2> QED BY <1>1, <1>2, <1>3, <2>2, <2>3, <2>4, <2>5 DEF CalmPublishing
<1>9. ASSUME Links!Synced(w) PROVE CalmPublishing(w)'
  <2>1. UNCHANGED <<pub, todo>> /\ pc[w] = "publishing" /\ pc'[w] = "reporting"
    BY <1>9 DEF Links!Synced
  <2> QED BY <1>1, <1>2, <1>3, <2>1 DEF CalmPublishing
<1> QED BY <1>5, <1>7, <1>8, <1>9

LEMMA CalmStep == Links!TypeOK /\ DueInv /\ CalmInv /\ [Links!Next]_Links!vars => CalmInv'
<1> SUFFICES ASSUME Links!TypeOK, DueInv, CalmInv, [Links!Next]_Links!vars PROVE CalmInv'
  OBVIOUS
<1>1. CASE UNCHANGED Links!vars
  BY <1>1 DEF Links!vars, Links!dvars, Links!wvars, CalmInv, CalmSeeding, CalmPublishing,
              Says, Ours
<1>2. CASE Links!Next
  <2>1. LinksEdits \/ \E w \in Builders : Links!Start(w) \/ Links!Work(w) \/ Links!Fail(w)
    BY <1>2 DEF Links!Next, LinksEdits
  <2>2. ASSUME NEW w \in Builders, Links!Start(w) \/ Links!Work(w) \/ Links!Fail(w)
        PROVE  CalmInv'
    <3>1. Apart(w)
      BY <2>2, RunsApart
    <3>2. CalmAfter(w)
      BY <2>2, CalmBegins, CalmSeeds, CalmPublishes DEF Links!Work
    <3>3. ASSUME NEW v \in Builders \ {w}
          PROVE  calm'[v] /\ ~only'[v] => (CalmSeeding(v) /\ CalmPublishing(v))'
      BY <3>1, CalmOthers DEF Apart
    <3> QED BY <3>2, <3>3 DEF CalmAfter, CalmInv
  <2> QED BY <2>1, <2>2, CalmEdit
<1> QED BY <1>1, <1>2

LinksInv == Links!TypeOK /\ DueInv /\ CalmInv

LEMMA LinksInvariant == Links!Spec => []LinksInv
<1>1. Links!Init => LinksInv
  <2> SUFFICES ASSUME Links!Init PROVE DueInv /\ CalmInv
    BY LinksInitType DEF LinksInv
  <2>1. DueInv
    BY DEF Links!Init, Links!Nobody, DueInv, WrongIsDue, Accounted, AtOne
  <2>2. CalmInv
    BY DEF Links!Init, Links!Nobody, CalmInv, CalmSeeding, CalmPublishing
  <2> QED BY <2>1, <2>2
<1>2. LinksInv /\ [Links!Next]_Links!vars => LinksInv'
  BY LinksType, DueStep, CalmStep DEF LinksInv
<1> QED BY <1>1, <1>2, PTL DEF Links!Spec

LEMMA LinksPromises == LinksInv => Links!SeededIsCurrent /\ Links!CalmRunIsComplete
<1> SUFFICES ASSUME LinksInv PROVE Links!SeededIsCurrent /\ Links!CalmRunIsComplete
  OBVIOUS
<1>1. Links!SeededIsCurrent
  BY DEF LinksInv, DueInv, WrongIsDue, Says, Links!SeededIsCurrent
<1>2. Links!CalmRunIsComplete
  <2> SUFFICES ASSUME NEW w \in Builders, pc[w] = "reporting", calm[w], ~only[w],
                      NEW p \in Ours(w)
               PROVE  /\ p \in media => link[p] = "fresh" /\ pub[p] = "approved"
                      /\ p \notin media => link[p] # "fresh"
    BY DEF Links!CalmRunIsComplete, Ours
  <2>1. todo[w] = {} /\ CalmPublishing(w)
    BY DEF LinksInv, Links!TypeOK, CalmInv
  <2> QED BY <2>1 DEF CalmPublishing, Says, Ours
<1> QED BY <1>1, <1>2

-----------------------------------------------------------------------------
(* The tailored feed: types and order *)

LEMMA FeedAssumption ==
    /\ FeedProjects \subseteq Nat \ {0} /\ IsFiniteSet(FeedProjects)
    /\ Unready \subseteq FeedProjects
    /\ PageSize \in Nat \ {0}
    /\ MaxClock \in Nat \ {0} /\ MaxSaves \in Nat /\ MaxLosses \in Nat
BY PublicationAssumption
   DEF PublicationAssumption, Feed!TailoredHarvestAssumption, Feed!IsFiniteSet, IsFiniteSet

LEMMA FeedCardinality == \A S : Feed!Cardinality(S) = Cardinality(S)
BY DEF Feed!Cardinality, Cardinality

\* Rows differ in their ids: their order is total.
LEMMA RowOrder ==
    ASSUME NEW r \in Feed!Cursor, NEW s \in Feed!Cursor, NEW t \in Feed!Cursor
    PROVE  /\ Feed!Before(r, s) /\ Feed!Before(s, t) => Feed!Before(r, t)
           /\ r.id # s.id => Feed!Before(r, s) \/ Feed!Before(s, r)
           /\ Feed!Before(r, s) => ~Feed!Before(s, r)
           /\ r # s => Feed!Before(r, s) \/ Feed!Before(s, r)
<1>1. \A u \in Feed!Cursor : u.at \in Nat /\ u.id \in Nat
  <2>1. Feed!Times \subseteq Nat /\ FeedProjects \cup {0} \subseteq Nat
    BY FeedAssumption DEF Feed!Times
  <2> QED BY <2>1 DEF Feed!Cursor
<1>2. r # s => r.at # s.at \/ r.id # s.id
  BY DEF Feed!Cursor
<1> QED BY <1>1, <1>2 DEF Feed!Before

LEMMA RowType ==
    ASSUME Feed!TypeOK, NEW p \in FeedProjects
    PROVE  Feed!Row(p) \in Feed!Cursor /\ Feed!Row(p).at = stamp[p] /\ Feed!Row(p).id = p
BY DEF Feed!TypeOK, Feed!Row, Feed!Cursor

\* Among finite sets there is one that none of the others is a part of.
LEMMA LeastSubset ==
    ASSUME NEW L, NEW T, T \subseteq FiniteSubsetsOf(L), T # {}
    PROVE  \E X \in T : \A Y \in T : ~(<<Y, X>> \in StrictSubsetOrdering(L))
<1>1. IsWellFoundedOn(StrictSubsetOrdering(L), FiniteSubsetsOf(L))
  BY FS_StrictSubsetOrderingWellFounded
<1> QED BY <1>1, WFMin

\* What a harvest lists has a latest change: the marker is its time.
LEMMA MarkerIsLatest ==
    ASSUME Feed!TypeOK, NEW h \in Harvesters
    PROVE  /\ Feed!Marker(h) \in Feed!Times
           /\ \A p \in Feed!Listed(h) : stamp[p] <= Feed!Marker(h)
<1> USE DEF Feed!TypeOK
<1> DEFINE L == Feed!Listed(h)
           Over(p) == {q \in L : stamp[q] > stamp[p]}
<1>1. L \subseteq FeedProjects /\ \A p \in L : stamp[p] \in Nat /\ stamp[p] \in Feed!Times
  BY DEF Feed!Listed, Feed!Times
<1>2. CASE L = {}
  BY <1>2, FeedAssumption DEF Feed!Marker, Feed!Times
<1>3. CASE L # {}
  <2> DEFINE T == {Over(p) : p \in L}
  <2>2. IsFiniteSet(L)
    BY <1>1, FeedAssumption, FS_Subset
  <2>3. T \subseteq FiniteSubsetsOf(L) /\ T # {}
    <3>1. \A p \in L : Over(p) \subseteq L
      OBVIOUS
    <3>2. \A p \in L : IsFiniteSet(Over(p))
      BY <2>2, <3>1, FS_Subset
    <3>3. \A p \in L : Over(p) \in FiniteSubsetsOf(L)
      BY <3>1, <3>2 DEF FiniteSubsetsOf
    <3> HIDE DEF L, Over
    <3> QED BY <1>3, <3>3
  <2>4. PICK S \in T : \A U \in T : ~(<<U, S>> \in StrictSubsetOrdering(L))
    <3> HIDE DEF L, T
    <3> QED BY <2>3, LeastSubset
  <2>5. PICK p \in L : S = Over(p)
    BY <2>4
  <2>6. \A q \in L : stamp[q] <= stamp[p]
    <3> SUFFICES ASSUME NEW q \in L, ~(stamp[q] <= stamp[p]) PROVE FALSE
      OBVIOUS
    <3>1. stamp[q] > stamp[p]
      BY <1>1
    <3>2. Over(q) \subseteq Over(p) /\ q \in Over(p) /\ q \notin Over(q)
      BY <1>1, <3>1
    <3>3. <<Over(q), Over(p)>> \in StrictSubsetOrdering(L)
      BY <3>2 DEF StrictSubsetOrdering
    <3> QED BY <2>4, <2>5, <3>3
  <2>7. \E m \in L : \A q \in L : stamp[q] <= stamp[m]
    BY <2>6
  <2> DEFINE m == CHOOSE m \in L : \A q \in L : stamp[q] <= stamp[m]
  <2>8. m \in L /\ \A q \in L : stamp[q] <= stamp[m]
    BY <2>7
  <2>9. Feed!Marker(h) = stamp[m]
    BY <1>3 DEF Feed!Marker
  <2> QED BY <1>1, <2>8, <2>9
<1> QED BY <1>2, <1>3

\* The page of a request, and what it leaves.
LEMMA PageFacts ==
    ASSUME Feed!TypeOK, NEW h \in Harvesters
    PROVE  /\ Feed!Remaining(h) \subseteq approved \cap FeedProjects
           /\ Feed!PageOf(h) \subseteq Feed!Remaining(h)
           /\ ~Feed!HasMore(h) => Feed!PageOf(h) = Feed!Remaining(h)
           /\ \A p \in Feed!Remaining(h), q \in Feed!PageOf(h) :
                 Feed!Before(Feed!Row(p), Feed!Row(q)) => p \in Feed!PageOf(h)
<1> USE DEF Feed!TypeOK
<1> DEFINE M == Feed!Remaining(h)
           Ahead_(p) == {q \in M : Feed!Before(Feed!Row(q), Feed!Row(p))}
<1>1. M \subseteq approved \cap FeedProjects
  BY DEF Feed!Remaining, Feed!Listed
<1>2. IsFiniteSet(M)
  BY <1>1, FeedAssumption, FS_Subset
<1>3. ASSUME NEW p \in M
      PROVE  /\ IsFiniteSet(Ahead_(p)) /\ Cardinality(Ahead_(p)) \in Nat
             /\ Cardinality(Ahead_(p)) < Cardinality(M)
             /\ p \in Feed!PageOf(h) <=> Cardinality(Ahead_(p)) < PageSize
  <2>1. p \notin Ahead_(p)
    BY <1>1, RowType, RowOrder
  <2>2. Ahead_(p) \subseteq M /\ Ahead_(p) # M
    BY <2>1
  <2>3. p \in Feed!PageOf(h) <=> Cardinality(Ahead_(p)) < PageSize
    BY FeedCardinality DEF Feed!PageOf
  <2> HIDE DEF M, Ahead_
  <2> QED BY <1>2, <2>2, <2>3, FS_Subset, FS_CardinalityType
<1>4. Feed!PageOf(h) \subseteq M
  BY DEF Feed!PageOf
<1>5. ~Feed!HasMore(h) => Feed!PageOf(h) = M
  <2>1. Feed!HasMore(h) <=> Cardinality(M) > PageSize
    BY FeedCardinality DEF Feed!HasMore
  <2>2. Cardinality(M) \in Nat /\ PageSize \in Nat
    BY <1>2, FS_CardinalityType, FeedAssumption
  <2>3. ASSUME ~Feed!HasMore(h), NEW p \in M PROVE p \in Feed!PageOf(h)
    <3> HIDE DEF M, Ahead_
    <3>1. Cardinality(Ahead_(p)) \in Nat /\ Cardinality(Ahead_(p)) < Cardinality(M)
      BY <1>3
    <3>2. Cardinality(Ahead_(p)) < PageSize
      BY <2>1, <2>2, <2>3, <3>1
    <3> QED BY <1>3, <3>2
  <2> QED BY <1>4, <2>3
<1>6. ASSUME NEW p \in M, NEW q \in Feed!PageOf(h), Feed!Before(Feed!Row(p), Feed!Row(q))
      PROVE  p \in Feed!PageOf(h)
  <2>1. q \in M
    BY <1>4
  <2>2. Feed!Row(p) \in Feed!Cursor /\ Feed!Row(q) \in Feed!Cursor
        /\ \A u \in M : Feed!Row(u) \in Feed!Cursor
    BY <1>1, <2>1, RowType
  <2>3. Ahead_(p) \subseteq Ahead_(q)
    BY <1>6, <2>2, RowOrder
  <2>4. Cardinality(Ahead_(p)) <= Cardinality(Ahead_(q))
    <3> HIDE DEF M, Ahead_
    <3> QED BY <1>3, <2>1, <2>3, FS_Subset
  <2>5. PageSize \in Nat
    BY FeedAssumption
  <2> HIDE DEF M, Ahead_
  <2> QED BY <1>3, <2>1, <2>4, <2>5
<1> QED BY <1>1, <1>4, <1>5, <1>6

LEMMA FeedInitType == Feed!Init => Feed!TypeOK
<1> SUFFICES ASSUME Feed!Init PROVE Feed!TypeOK
  OBVIOUS
<1>1. 0 \in Feed!Times /\ 1 \in 1..MaxClock /\ saves \in 0..MaxSaves /\ losses \in 0..MaxLosses
  BY FeedAssumption DEF Feed!Init, Feed!Times
<1>2. Feed!NoToken \in [after : Feed!Cursor, marker : Feed!Times]
  BY <1>1 DEF Feed!NoToken, Feed!Never, Feed!Cursor
<1> QED BY <1>1, <1>2 DEF Feed!Init, Feed!TypeOK, Feed!Nothing, Feed!NoSave

LEMMA WrittenType ==
    ASSUME Feed!TypeOK, NEW p \in FeedProjects, NEW at, Feed!Written(p, at)
    PROVE  /\ resaved' \in [Harvesters -> SUBSET FeedProjects]
           /\ hidden' \in [Harvesters -> SUBSET FeedProjects]
           /\ slipped' \subseteq Harvesters
           /\ late' \subseteq Harvesters \X FeedProjects
BY DEF Feed!TypeOK, Feed!Written

\* A save under way has taken its time.
OpenTimes == \A p \in FeedProjects : open[p] # Feed!NoSave => open[p].at > 0

LEMMA FeedSaveType ==
    ASSUME Feed!TypeOK, OpenTimes, NEW p \in FeedProjects,
           \/ \E show \in BOOLEAN : Feed!Save(p, show) \/ Feed!Open(p, show)
           \/ Feed!Commit(p) \/ Feed!Delete(p)
    PROVE  (Feed!TypeOK /\ OpenTimes)'
<1> USE DEF Feed!TypeOK, Feed!kept
<1>1. ASSUME Feed!Saving(p) PROVE saves' \in 0..MaxSaves
  BY <1>1, FeedAssumption DEF Feed!Saving
<1>2. ASSUME NEW t \in Feed!Times, Feed!Now(t) PROVE t \in 1..MaxClock /\ t > 0
  BY <1>2, FeedAssumption DEF Feed!Now, Feed!Times
<1>3. ASSUME NEW show \in BOOLEAN, Feed!Save(p, show) PROVE Feed!TypeOK'
  <2>1. PICK t \in Feed!Times : /\ Feed!Now(t) /\ clock' = t /\ Feed!Written(p, t)
                                /\ stamp' = [stamp EXCEPT ![p] = t]
    BY <1>3 DEF Feed!Save
  <2>2. saves' \in 0..MaxSaves
    BY <1>1, <1>3 DEF Feed!Save
  <2>3. approved' \subseteq {q \in FeedProjects : stamp'[q] > 0}
    BY <1>2, <1>3, <2>1 DEF Feed!Save
  <2> QED BY <1>2, <1>3, <2>1, <2>2, <2>3, WrittenType DEF Feed!Save
<1>4. ASSUME NEW show \in BOOLEAN, Feed!Open(p, show) PROVE Feed!TypeOK'
  <2>1. PICK t \in Feed!Times : /\ Feed!Now(t) /\ clock' = t
                                /\ open' = [open EXCEPT ![p] = [at |-> t, show |-> show]]
    BY <1>4 DEF Feed!Open
  <2>2. saves' \in 0..MaxSaves
    BY <1>1, <1>4 DEF Feed!Open
  <2> QED BY <1>2, <1>4, <2>1, <2>2 DEF Feed!Open, Feed!hvars, Feed!gvars
<1>5. ASSUME Feed!Commit(p) PROVE Feed!TypeOK'
  <2>1. Feed!NoSave \in [at : Feed!Times, show : BOOLEAN]
    BY FeedAssumption DEF Feed!NoSave, Feed!Times
  <2>2. open[p].at \in Feed!Times /\ open[p].at > 0
    BY <1>5 DEF Feed!Commit, OpenTimes
  <2>3. approved' \subseteq {q \in FeedProjects : stamp'[q] > 0}
    BY <1>5, <2>2 DEF Feed!Commit
  <2> QED BY <1>5, <2>1, <2>2, <2>3, WrittenType DEF Feed!Commit
<1>6. ASSUME Feed!Delete(p) PROVE Feed!TypeOK'
  <2>1. 0 \in Feed!Times
    BY FeedAssumption DEF Feed!Times
  <2>2. approved' \subseteq {q \in FeedProjects : stamp'[q] > 0}
    BY <1>6 DEF Feed!Delete
  <2> QED BY <1>6, <2>1, <2>2, WrittenType DEF Feed!Delete
<1>7. OpenTimes'
  <2>1. \A q \in FeedProjects \ {p} : open'[q] = open[q]
    BY DEF Feed!Save, Feed!Open, Feed!Commit, Feed!Delete
  <2>2. open'[p] # Feed!NoSave => open'[p].at > 0
    <3>1. ASSUME NEW show \in BOOLEAN, Feed!Open(p, show) PROVE open'[p].at > 0
      BY <1>2, <3>1 DEF Feed!Open
    <3>2. ASSUME NEW show \in BOOLEAN, Feed!Save(p, show) PROVE open'[p] = open[p]
      BY <3>2 DEF Feed!Save
    <3>3. ASSUME Feed!Commit(p) \/ Feed!Delete(p)
          PROVE  open'[p] \in {open[p], Feed!NoSave}
      BY <3>3 DEF Feed!Commit, Feed!Delete
    <3> QED BY <3>1, <3>2, <3>3 DEF OpenTimes
  <2> QED BY <2>1, <2>2 DEF OpenTimes
<1> QED BY <1>3, <1>4, <1>5, <1>6, <1>7

\* The end of a harvest.
LEMMA StopType ==
    ASSUME Feed!TypeOK, NEW h \in Harvesters, NEW since \in Feed!Times, Feed!Stop(h, since)
    PROVE  Feed!TypeOK'
<1>1. Feed!NoToken \in [after : Feed!Cursor, marker : Feed!Times] /\ 0 \in Feed!Times
  BY FeedAssumption DEF Feed!NoToken, Feed!Never, Feed!Cursor, Feed!Times
<1> QED BY <1>1 DEF Feed!TypeOK, Feed!Stop, Feed!pvars

LEMMA PageType ==
    ASSUME Feed!TypeOK, NEW h \in Harvesters, Feed!Page(h)
    PROVE  Feed!TypeOK'
<1> USE DEF Feed!TypeOK, Feed!pvars
<1>1. Feed!PageOf(h) \subseteq FeedProjects
  BY PageFacts
<1>2. 0 \in Feed!Times
  BY FeedAssumption DEF Feed!Times
<1>3. have' \in [Harvesters -> [FeedProjects -> Feed!Times]]
  BY <1>1 DEF Feed!Page
<1>4. /\ twice' \in [Harvesters -> SUBSET FeedProjects]
      /\ got' \in [Harvesters -> SUBSET FeedProjects]
  BY <1>1 DEF Feed!Page
<1>5. /\ state' \in [Harvesters -> {"idle", "asked", "marked", "waiting", "complete"}]
      /\ token' \in [Harvesters -> [after : Feed!Cursor, marker : Feed!Times]]
  <2>1. CASE ~Feed!HasMore(h)
    BY <2>1 DEF Feed!Page
  <2>2. CASE Feed!HasMore(h)
    <3>1. PICK last \in Feed!PageOf(h) :
             token' = [token EXCEPT ![h] = [after |-> Feed!Row(last), marker |-> marker[h]]]
      BY <2>2 DEF Feed!Page
    <3>2. Feed!Row(last) \in Feed!Cursor
      BY <1>1, RowType
    <3>3. state' = [state EXCEPT ![h] = "waiting"]
      BY <2>2 DEF Feed!Page
    <3> QED BY <3>1, <3>2, <3>3
  <2> QED BY <2>1, <2>2
<1> QED BY <1>2, <1>3, <1>4, <1>5 DEF Feed!Page

LEMMA FeedHarvestType ==
    ASSUME Feed!TypeOK, OpenTimes, NEW h \in Harvesters,
           Feed!Begin(h) \/ Feed!Answer(h) \/ Feed!Lose(h) \/ Feed!End(h)
    PROVE  (Feed!TypeOK /\ OpenTimes)'
<1> USE DEF Feed!pvars, Feed!gvars
<1>1. UNCHANGED open
  BY DEF Feed!Begin, Feed!Answer, Feed!Lose, Feed!End, Feed!Resume, Feed!Admit, Feed!Refuse,
         Feed!Empty, Feed!Page, Feed!Stop
<1>2. OpenTimes'
  BY <1>1 DEF OpenTimes
<1>3. ASSUME Feed!Refuse(h) \/ Feed!End(h) PROVE Feed!TypeOK'
  <2>1. from[h] \in Feed!Times /\ begun[h] \in Feed!Times
    BY DEF Feed!TypeOK
  <2> QED BY <1>3, <2>1, StopType DEF Feed!Refuse, Feed!End
<1>4. ASSUME Feed!Admit(h) PROVE Feed!TypeOK'
  BY <1>4, MarkerIsLatest DEF Feed!TypeOK, Feed!Admit
<1>5. ASSUME Feed!Lose(h) PROVE Feed!TypeOK'
  <2>1. losses' \in 0..MaxLosses /\ 0 \in Feed!Times
    BY <1>5, FeedAssumption DEF Feed!Lose, Feed!TypeOK, Feed!Times
  <2> QED BY <1>5, <2>1 DEF Feed!Lose, Feed!TypeOK
<1>6. ASSUME Feed!Begin(h) PROVE Feed!TypeOK'
  <2>1. clock \in Feed!Times
    BY FeedAssumption DEF Feed!TypeOK, Feed!Times
  <2> QED BY <1>6, <2>1 DEF Feed!TypeOK, Feed!Begin
<1>7. ASSUME Feed!Resume(h) \/ Feed!Empty(h) PROVE Feed!TypeOK'
  BY <1>7 DEF Feed!TypeOK, Feed!Resume, Feed!Empty
<1> QED BY <1>2, <1>3, <1>4, <1>5, <1>6, <1>7, PageType DEF Feed!Answer

\* Whatever is saved and harvested, the state of the feed has its type.
LEMMA FeedType ==
    Feed!TypeOK /\ OpenTimes /\ [Feed!Next]_Feed!vars => (Feed!TypeOK /\ OpenTimes)'
<1> SUFFICES ASSUME Feed!TypeOK, OpenTimes, [Feed!Next]_Feed!vars
             PROVE  (Feed!TypeOK /\ OpenTimes)'
  OBVIOUS
<1>1. CASE UNCHANGED Feed!vars
  BY <1>1 DEF Feed!vars, Feed!pvars, Feed!hvars, Feed!gvars, Feed!TypeOK, OpenTimes
<1>2. CASE Feed!Next
  BY <1>2, FeedSaveType, FeedHarvestType DEF Feed!Next
<1> QED BY <1>1, <1>2

-----------------------------------------------------------------------------
(* The tailored feed: copies *)

Harvesting == {"asked", "marked", "waiting"}

\* A harvester has the current version of a publication, or that was committed late.
Copied(h, p) == <<h, p>> \in late \/ have[h][p] = stamp[p]

Ready == approved \ Unready

InOrder(h) ==
    /\ from[h] <= begun[h] /\ begun[h] <= clock
    /\ state[h] = "idle" => resaved[h] = {} /\ token[h] = Feed!NoToken

\* What a harvester does not ask for any more it has.
Settled(h) == \A p \in Ready : stamp[p] < from[h] => Copied(h, p)

\* What changed since a harvest began is for the next one, or late.
LeftToNext(h) == \A p \in approved \cap resaved[h] : stamp[p] >= begun[h] \/ <<h, p>> \in late

\* What the cursor of a harvest has passed has been copied.
Passed(h) ==
    state[h] \in Harvesting =>
        \A p \in Ready \ resaved[h] :
            stamp[p] >= from[h] /\ ~Feed!Before(token[h].after, Feed!Row(p)) => Copied(h, p)

AllCopied(h) == state[h] = "complete" => \A p \in Ready \ resaved[h] : Copied(h, p)

CopyParts(h) == InOrder(h) /\ Settled(h) /\ LeftToNext(h) /\ Passed(h) /\ AllCopied(h)

CopyInv == \A h \in Harvesters : CopyParts(h)

\* A row that is saved at a time is later than each harvest that has begun, or late.
LEMMA WrittenCopy ==
    ASSUME Feed!TypeOK, CopyInv, NEW p \in FeedProjects, NEW at \in Feed!Times,
           Feed!Written(p, at),
           stamp' = [stamp EXCEPT ![p] = at] \/ p \notin approved',
           \A q \in FeedProjects \ {p} : stamp'[q] = stamp[q] /\
             (q \in approved' <=> q \in approved),
           approved' \subseteq FeedProjects, clock' \in Nat, clock <= clock',
           UNCHANGED <<state, from, begun, token, have>>
    PROVE  CopyInv'
<1> SUFFICES ASSUME NEW h \in Harvesters PROVE CopyParts(h)'
  BY DEF CopyInv
<1>1. CopyParts(h) /\ h \in Harvesters /\ begun[h] \in Nat /\ from[h] \in Nat /\ clock \in Nat
      /\ at \in Nat
  BY FeedAssumption DEF CopyInv, Feed!TypeOK, Feed!Times
<1>2. /\ \A q \in FeedProjects \ {p} : <<h, q>> \in late' <=> <<h, q>> \in late
      /\ <<h, p>> \in late' <=> at < begun[h]
      /\ resaved'[h] = IF state[h] = "idle" THEN resaved[h] ELSE resaved[h] \cup {p}
  BY DEF Feed!Written, Feed!TypeOK
<1>3. p \in approved' => stamp'[p] = at /\ (at >= begun[h] \/ <<h, p>> \in late')
  BY <1>1, <1>2 DEF Feed!TypeOK
<1>4. \A q \in FeedProjects \ {p} : /\ Copied(h, q)' <=> Copied(h, q)
                                    /\ Feed!Row(q)' = Feed!Row(q)
  BY <1>2 DEF Copied, Feed!Row
<1>5. InOrder(h)'
  BY <1>1, <1>2 DEF CopyParts, InOrder
<1>6. Settled(h)'
  <2>1. p \in approved' /\ stamp'[p] < from[h] => Copied(h, p)'
    BY <1>1, <1>3 DEF CopyParts, InOrder, Copied
  <2> QED BY <1>1, <1>4, <2>1 DEF CopyParts, Settled, Ready
<1>7. LeftToNext(h)'
  BY <1>1, <1>2, <1>3 DEF CopyParts, LeftToNext, InOrder
<1>8. state[h] # "idle" => p \in resaved'[h] /\ resaved[h] \subseteq resaved'[h]
  BY <1>2
<1>9. Passed(h)'
  BY <1>1, <1>4, <1>8 DEF CopyParts, Passed, Ready, Harvesting
<1>10. AllCopied(h)'
  BY <1>1, <1>4, <1>8 DEF CopyParts, AllCopied, Ready
<1> QED BY <1>5, <1>6, <1>7, <1>9, <1>10 DEF CopyParts

LEMMA SaveCopy ==
    ASSUME Feed!TypeOK, OpenTimes, CopyInv, NEW p \in FeedProjects,
           \/ \E show \in BOOLEAN : Feed!Save(p, show) \/ Feed!Open(p, show)
           \/ Feed!Commit(p) \/ Feed!Delete(p)
    PROVE  CopyInv'
<1>1. clock \in Nat /\ clock' \in Nat /\ clock <= clock' /\ approved' \subseteq FeedProjects
  <2>1. (Feed!TypeOK)'
    BY FeedSaveType
  <2>2. clock' = clock \/ \E t \in Feed!Times : Feed!Now(t) /\ clock' = t
    BY DEF Feed!Save, Feed!Open, Feed!Commit, Feed!Delete
  <2> QED BY <2>1, <2>2, FeedAssumption DEF Feed!TypeOK, Feed!Now
<1>2. ASSUME NEW show \in BOOLEAN, Feed!Save(p, show) PROVE CopyInv'
  <2>1. PICK t \in Feed!Times : Feed!Written(p, t) /\ stamp' = [stamp EXCEPT ![p] = t]
    BY <1>2 DEF Feed!Save
  <2>2. /\ \A q \in FeedProjects \ {p} : stamp'[q] = stamp[q] /\
             (q \in approved' <=> q \in approved)
        /\ UNCHANGED <<state, from, begun, token, have>>
    BY <1>2, <2>1 DEF Feed!TypeOK, Feed!Save, Feed!kept
  <2> QED BY <1>1, <2>1, <2>2, WrittenCopy
<1>3. ASSUME NEW show \in BOOLEAN, Feed!Open(p, show) PROVE CopyInv'
  <2>1. UNCHANGED <<approved, stamp, late, state, from, begun, token, have, resaved>>
    BY <1>3 DEF Feed!Open, Feed!hvars, Feed!gvars
  <2>2. \A h \in Harvesters : begun[h] \in Nat
    BY FeedAssumption DEF Feed!TypeOK, Feed!Times
  <2> QED BY <1>1, <2>1, <2>2 DEF CopyInv, CopyParts, InOrder, Settled, LeftToNext, Passed,
                                  AllCopied, Copied, Ready, Feed!Row
<1>4. ASSUME Feed!Commit(p) PROVE CopyInv'
  <2>1. /\ open[p].at \in Feed!Times /\ Feed!Written(p, open[p].at)
        /\ stamp' = [stamp EXCEPT ![p] = open[p].at]
    BY <1>4 DEF Feed!TypeOK, Feed!Commit
  <2>2. /\ \A q \in FeedProjects \ {p} : stamp'[q] = stamp[q] /\
             (q \in approved' <=> q \in approved)
        /\ UNCHANGED <<state, from, begun, token, have>>
    BY <1>4, <2>1 DEF Feed!TypeOK, Feed!Commit, Feed!kept
  <2> QED BY <1>1, <2>1, <2>2, WrittenCopy
<1>5. ASSUME Feed!Delete(p) PROVE CopyInv'
  <2>1. clock \in Feed!Times /\ Feed!Written(p, clock) /\ p \notin approved'
    BY <1>5, FeedAssumption DEF Feed!TypeOK, Feed!Delete, Feed!Times
  <2>2. /\ \A q \in FeedProjects \ {p} : stamp'[q] = stamp[q] /\
             (q \in approved' <=> q \in approved)
        /\ UNCHANGED <<state, from, begun, token, have>>
    BY <1>5 DEF Feed!TypeOK, Feed!Delete, Feed!kept
  <2> QED BY <1>1, <2>1, <2>2, WrittenCopy
<1> QED BY <1>2, <1>3, <1>4, <1>5

\* A harvester's own step does not touch what the others have.
LEMMA HarvestCopyOthers ==
    ASSUME Feed!TypeOK, CopyInv, NEW h \in Harvesters, NEW g \in Harvesters \ {h},
           Feed!Begin(h) \/ Feed!Answer(h) \/ Feed!Lose(h) \/ Feed!End(h)
    PROVE  CopyParts(g)'
<1> USE DEF Feed!pvars, Feed!gvars
<1>1. UNCHANGED <<approved, stamp, late, clock>>
      /\ state'[g] = state[g] /\ from'[g] = from[g] /\ begun'[g] = begun[g]
      /\ token'[g] = token[g] /\ have'[g] = have[g] /\ resaved'[g] = resaved[g]
  <2>1. CASE Feed!Page(h)
    BY <2>1 DEF Feed!TypeOK, Feed!Page
  <2>2. CASE Feed!Refuse(h) \/ Feed!End(h)
    BY <2>2 DEF Feed!TypeOK, Feed!Refuse, Feed!End, Feed!Stop
  <2>3. CASE Feed!Begin(h) \/ Feed!Resume(h) \/ Feed!Admit(h) \/ Feed!Empty(h) \/ Feed!Lose(h)
    BY <2>3 DEF Feed!TypeOK, Feed!Begin, Feed!Resume, Feed!Admit, Feed!Empty, Feed!Lose
  <2> QED BY <2>1, <2>2, <2>3 DEF Feed!Answer
<1>2. CopyParts(g)
  BY DEF CopyInv
<1> QED BY <1>1, <1>2 DEF CopyParts, InOrder, Settled, LeftToNext, Passed, AllCopied, Copied,
                         Ready, Feed!Row

LEMMA PageCopy ==
    ASSUME Feed!TypeOK, CopyInv, NEW h \in Harvesters, Feed!Page(h)
    PROVE  CopyParts(h)'
<1> USE DEF Feed!TypeOK
<1> DEFINE page == Feed!PageOf(h)
<1>1. /\ UNCHANGED <<approved, stamp, late, clock, from, begun, resaved>>
      /\ state[h] = "marked" /\ state'[h] \in {"waiting", "complete"}
      /\ \A p \in FeedProjects : have'[h][p] = IF p \in page \ Unready THEN stamp[p] ELSE have[h][p]
  BY DEF Feed!Page, Feed!pvars
<1>2. CopyParts(h)
  BY DEF CopyInv
<1>3. /\ \A p \in FeedProjects : Copied(h, p) => Copied(h, p)'
      /\ \A p \in page \ Unready : Copied(h, p)'
      /\ approved \subseteq FeedProjects /\ page \subseteq FeedProjects
  BY <1>1, PageFacts DEF Copied
<1>4. InOrder(h)' /\ Settled(h)' /\ LeftToNext(h)'
  BY <1>1, <1>2, <1>3 DEF CopyParts, InOrder, Settled, LeftToNext, Ready
<1>5. ASSUME NEW p \in Ready \ resaved[h], stamp[p] >= from[h], p \notin Feed!Remaining(h)
      PROVE  Copied(h, p)
  BY <1>1, <1>2, <1>5 DEF CopyParts, Passed, Harvesting, Ready, Feed!Remaining, Feed!Listed
<1>6. ASSUME NEW p \in Ready \ resaved[h], ~(stamp[p] >= from[h]) PROVE Copied(h, p)'
  <2>1. stamp[p] < from[h]
    BY <1>3, <1>6, FeedAssumption DEF Ready, Feed!Times
  <2> QED BY <1>2, <1>3, <2>1 DEF CopyParts, Settled, Ready
<1>7. CASE ~Feed!HasMore(h)
  <2>1. state'[h] = "complete" /\ page = Feed!Remaining(h)
    BY <1>7, PageFacts DEF Feed!Page
  <2>2. \A p \in Ready \ resaved[h] : Copied(h, p)'
    BY <1>3, <1>5, <1>6, <2>1 DEF Ready
  <2> QED BY <1>1, <1>4, <2>1, <2>2 DEF CopyParts, Passed, AllCopied, Harvesting, Ready
<1>8. CASE Feed!HasMore(h)
  <2>1. PICK last \in page : /\ \A p \in page \ {last} : Feed!Before(Feed!Row(p), Feed!Row(last))
                             /\ token' = [token EXCEPT ![h] = [after |-> Feed!Row(last),
                                                               marker |-> marker[h]]]
    BY <1>8 DEF Feed!Page
  <2>2. state'[h] = "waiting" /\ token'[h].after = Feed!Row(last)
    BY <1>8, <2>1 DEF Feed!Page
  <2>3. ASSUME NEW p \in Feed!Remaining(h), ~Feed!Before(Feed!Row(last), Feed!Row(p))
        PROVE  p \in page
    <3>1. last \in FeedProjects /\ p \in FeedProjects
      BY <1>3, <2>1, PageFacts
    <3>2. p # last => Feed!Before(Feed!Row(p), Feed!Row(last))
      BY <2>3, <3>1, RowType, RowOrder
    <3> QED BY <2>1, <3>2, PageFacts
  <2>4. \A p \in Ready \ resaved[h] :
           stamp[p] >= from[h] /\ ~Feed!Before(Feed!Row(last), Feed!Row(p)) => Copied(h, p)'
    BY <1>3, <1>5, <2>3 DEF Ready
  <2>5. \A p \in FeedProjects : Feed!Row(p)' = Feed!Row(p)
    BY <1>1 DEF Feed!Row
  <2>6. Passed(h)'
    BY <1>1, <1>3, <2>2, <2>4, <2>5 DEF Passed, Ready
  <2> QED BY <1>4, <2>2, <2>6 DEF CopyParts, AllCopied
<1> QED BY <1>7, <1>8

LEMMA HarvestCopy ==
    ASSUME Feed!TypeOK, CopyInv, NEW h \in Harvesters,
           Feed!Begin(h) \/ Feed!Answer(h) \/ Feed!Lose(h) \/ Feed!End(h)
    PROVE  CopyParts(h)'
<1> USE DEF Feed!pvars, Feed!gvars
<1>1. CopyParts(h)
  BY DEF CopyInv
<1>2. /\ clock \in Nat /\ begun[h] \in Nat /\ from[h] \in Nat
      /\ approved \subseteq FeedProjects /\ \A p \in approved : stamp[p] \in Nat /\ stamp[p] > 0
  BY FeedAssumption DEF Feed!TypeOK, Feed!Times
<1>3. ASSUME Feed!Begin(h) PROVE CopyParts(h)'
  <2>1. /\ UNCHANGED <<approved, stamp, late, clock, from, token, have, resaved>>
        /\ state[h] = "idle" /\ state'[h] = "asked" /\ begun'[h] = clock
    BY <1>3 DEF Feed!TypeOK, Feed!Begin
  <2>2. resaved[h] = {} /\ token[h] = Feed!NoToken
    BY <1>1, <2>1 DEF CopyParts, InOrder
  <2>3. \A p \in approved : Feed!Before(token[h].after, Feed!Row(p)) /\ Feed!Row(p)' = Feed!Row(p)
    BY <1>2, <2>1, <2>2 DEF Feed!Before, Feed!NoToken, Feed!Never, Feed!Row
  <2>4. InOrder(h)' /\ Settled(h)' /\ LeftToNext(h)'
    BY <1>1, <1>2, <2>1, <2>2 DEF CopyParts, InOrder, Settled, LeftToNext, Copied, Ready
  <2>5. Passed(h)' /\ AllCopied(h)'
    BY <2>1, <2>3 DEF Passed, AllCopied, Ready
  <2> QED BY <2>4, <2>5 DEF CopyParts
<1>4. ASSUME Feed!Resume(h) \/ Feed!Admit(h) \/ Feed!Lose(h) PROVE CopyParts(h)'
  <2>1. /\ UNCHANGED <<approved, stamp, late, clock, from, begun, token, have, resaved>>
        /\ state[h] \in Harvesting /\ state'[h] \in Harvesting
    BY <1>4 DEF Feed!TypeOK, Feed!Resume, Feed!Admit, Feed!Lose, Harvesting
  <2> QED BY <1>1, <2>1 DEF CopyParts, InOrder, Settled, LeftToNext, Passed, AllCopied, Copied,
                            Ready, Feed!Row, Harvesting
<1>5. ASSUME Feed!Empty(h) PROVE CopyParts(h)'
  <2>1. /\ UNCHANGED <<approved, stamp, late, clock, from, begun, token, have, resaved>>
        /\ state[h] \in Harvesting /\ state'[h] = "complete" /\ Feed!Remaining(h) = {}
    BY <1>5 DEF Feed!TypeOK, Feed!Empty, Harvesting
  <2>2. \A p \in Ready \ resaved[h] : Copied(h, p)
    <3> SUFFICES ASSUME NEW p \in Ready \ resaved[h] PROVE Copied(h, p)
      OBVIOUS
    <3>1. CASE stamp[p] >= from[h]
      BY <1>1, <2>1, <3>1 DEF CopyParts, Passed, Ready, Feed!Remaining, Feed!Listed
    <3>2. CASE ~(stamp[p] >= from[h])
      BY <1>1, <1>2, <3>2 DEF CopyParts, Settled, Ready
    <3> QED BY <3>1, <3>2
  <2> QED BY <1>1, <2>1, <2>2 DEF CopyParts, InOrder, Settled, LeftToNext, Passed, AllCopied,
                                  Copied, Ready, Harvesting
<1>6. ASSUME NEW since \in {from[h], begun[h]}, Feed!Stop(h, since),
             since = begun[h] => state[h] = "complete" \/ from[h] = begun[h]
      PROVE  CopyParts(h)'
  <2>1. /\ UNCHANGED <<approved, stamp, late, clock, begun, have>>
        /\ state'[h] = "idle" /\ from'[h] = since
        /\ resaved'[h] = {} /\ token'[h] = Feed!NoToken
    BY <1>6 DEF Feed!TypeOK, Feed!Stop
  <2>2. InOrder(h)' /\ LeftToNext(h)' /\ Passed(h)' /\ AllCopied(h)'
    BY <1>1, <1>2, <2>1 DEF CopyParts, InOrder, LeftToNext, Passed, AllCopied, Harvesting
  <2>3. Settled(h)'
    <3> SUFFICES ASSUME NEW p \in Ready, stamp[p] < since PROVE Copied(h, p)
      BY <2>1 DEF Settled, Ready, Copied
    <3>1. CASE since = from[h]
      BY <1>1, <3>1 DEF CopyParts, Settled
    <3>2. CASE state[h] = "complete" /\ since = begun[h]
      <4>1. p \in resaved[h] => <<h, p>> \in late
        BY <1>1, <1>2, <3>2 DEF CopyParts, LeftToNext, Ready
      <4> QED BY <1>1, <3>2, <4>1 DEF CopyParts, AllCopied, Copied
    <3> QED BY <1>6, <3>1, <3>2
  <2> QED BY <2>2, <2>3 DEF CopyParts
<1>7. ASSUME Feed!Refuse(h) PROVE CopyParts(h)'
  BY <1>6, <1>7 DEF Feed!Refuse
<1>8. ASSUME Feed!End(h) PROVE CopyParts(h)'
  BY <1>6, <1>8 DEF Feed!End
<1> QED BY <1>3, <1>4, <1>5, <1>7, <1>8, PageCopy DEF Feed!Answer

LEMMA CopyStep ==
    Feed!TypeOK /\ OpenTimes /\ CopyInv /\ [Feed!Next]_Feed!vars => CopyInv'
<1> SUFFICES ASSUME Feed!TypeOK, OpenTimes, CopyInv, [Feed!Next]_Feed!vars PROVE CopyInv'
  OBVIOUS
<1>1. CASE UNCHANGED Feed!vars
  BY <1>1 DEF Feed!vars, Feed!pvars, Feed!hvars, Feed!gvars, CopyInv, CopyParts, InOrder, Settled,
              LeftToNext, Passed, AllCopied, Copied, Ready, Feed!Row
<1>2. CASE Feed!Next
  <2>1. ASSUME NEW h \in Harvesters,
               Feed!Begin(h) \/ Feed!Answer(h) \/ Feed!Lose(h) \/ Feed!End(h)
        PROVE  CopyInv'
    <3>1. CopyParts(h)'
      BY <2>1, HarvestCopy
    <3>2. \A g \in Harvesters \ {h} : CopyParts(g)'
      BY <2>1, HarvestCopyOthers
    <3> QED BY <3>1, <3>2 DEF CopyInv
  <2> QED BY <1>2, <2>1, SaveCopy DEF Feed!Next
<1> QED BY <1>1, <1>2

-----------------------------------------------------------------------------
(* The tailored feed: nothing twice *)

\* A harvest that has no token has received nothing.
Fresh(h) == token[h] = Feed!NoToken => got[h] = {} \/ state[h] = "complete"

\* A request that is admitted has the marker of its token, and as long as nothing
\* comes in between no publication it lists has changed after it.
Marked(h) ==
    state[h] = "marked" =>
        /\ token[h] = Feed!NoToken \/ marker[h] = token[h].marker
        /\ h \in slipped \/ \A p \in Feed!Listed(h) : stamp[p] <= marker[h]

\* What a harvest has received is behind its cursor, or changed after its marker.
GotPast(h) ==
    state[h] \in Harvesting /\ h \notin slipped =>
        \A p \in (got[h] \cap approved) \ hidden[h] :
            ~Feed!Before(token[h].after, Feed!Row(p)) \/ stamp[p] > token[h].marker

Once(h) == h \notin slipped => twice[h] \subseteq hidden[h]

OnceParts(h) == Fresh(h) /\ Marked(h) /\ GotPast(h) /\ Once(h)

OnceInv == \A h \in Harvesters : OnceParts(h)

LEMMA WrittenOnce ==
    ASSUME Feed!TypeOK, OnceInv, NEW p \in FeedProjects, NEW at \in Feed!Times,
           Feed!Written(p, at),
           stamp' = [stamp EXCEPT ![p] = at] \/ p \notin approved',
           \A q \in FeedProjects \ {p} : stamp'[q] = stamp[q] /\
             (q \in approved' <=> q \in approved),
           approved' \subseteq FeedProjects,
           UNCHANGED <<state, token, marker, got, twice>>
    PROVE  OnceInv'
<1> SUFFICES ASSUME NEW h \in Harvesters PROVE OnceParts(h)'
  BY DEF OnceInv
<1>1. OnceParts(h)
  BY DEF OnceInv
<1>2. /\ hidden[h] \subseteq hidden'[h]
      /\ at > token[h].marker \/ p \in hidden'[h]
      /\ h \notin slipped' => h \notin slipped /\ state[h] # "marked"
  BY DEF Feed!Written, Feed!TypeOK
<1>3. p \in approved' => stamp'[p] = at
  BY DEF Feed!TypeOK
<1>4. \A q \in FeedProjects \ {p} : Feed!Row(q)' = Feed!Row(q)
  BY DEF Feed!Row
<1>5. Fresh(h)' /\ Marked(h)' /\ Once(h)'
  BY <1>1, <1>2 DEF OnceParts, Fresh, Marked, Once
<1>6. GotPast(h)'
  BY <1>1, <1>2, <1>3, <1>4 DEF OnceParts, GotPast
<1> QED BY <1>5, <1>6 DEF OnceParts

LEMMA SaveOnce ==
    ASSUME Feed!TypeOK, OpenTimes, OnceInv, NEW p \in FeedProjects,
           \/ \E show \in BOOLEAN : Feed!Save(p, show) \/ Feed!Open(p, show)
           \/ Feed!Commit(p) \/ Feed!Delete(p)
    PROVE  OnceInv'
<1>1. approved' \subseteq FeedProjects
  BY FeedSaveType DEF Feed!TypeOK
<1>2. ASSUME NEW show \in BOOLEAN, Feed!Save(p, show) PROVE OnceInv'
  <2>1. PICK t \in Feed!Times : Feed!Written(p, t) /\ stamp' = [stamp EXCEPT ![p] = t]
    BY <1>2 DEF Feed!Save
  <2>2. /\ \A q \in FeedProjects \ {p} : stamp'[q] = stamp[q] /\
             (q \in approved' <=> q \in approved)
        /\ UNCHANGED <<state, token, marker, got, twice>>
    BY <1>2, <2>1 DEF Feed!TypeOK, Feed!Save, Feed!kept
  <2> QED BY <1>1, <2>1, <2>2, WrittenOnce
<1>3. ASSUME NEW show \in BOOLEAN, Feed!Open(p, show) PROVE OnceInv'
  <2>1. UNCHANGED <<approved, stamp, from, state, token, marker, got, twice, hidden, slipped>>
    BY <1>3 DEF Feed!Open, Feed!hvars, Feed!gvars
  <2> QED BY <2>1 DEF OnceInv, OnceParts, Fresh, Marked, GotPast, Once, Feed!Row, Feed!Listed
<1>4. ASSUME Feed!Commit(p) PROVE OnceInv'
  <2>1. /\ open[p].at \in Feed!Times /\ Feed!Written(p, open[p].at)
        /\ stamp' = [stamp EXCEPT ![p] = open[p].at]
    BY <1>4 DEF Feed!TypeOK, Feed!Commit
  <2>2. /\ \A q \in FeedProjects \ {p} : stamp'[q] = stamp[q] /\
             (q \in approved' <=> q \in approved)
        /\ UNCHANGED <<state, token, marker, got, twice>>
    BY <1>4, <2>1 DEF Feed!TypeOK, Feed!Commit, Feed!kept
  <2> QED BY <1>1, <2>1, <2>2, WrittenOnce
<1>5. ASSUME Feed!Delete(p) PROVE OnceInv'
  <2>1. clock \in Feed!Times /\ Feed!Written(p, clock) /\ p \notin approved'
    BY <1>5, FeedAssumption DEF Feed!TypeOK, Feed!Delete, Feed!Times
  <2>2. /\ \A q \in FeedProjects \ {p} : stamp'[q] = stamp[q] /\
             (q \in approved' <=> q \in approved)
        /\ UNCHANGED <<state, token, marker, got, twice>>
    BY <1>5 DEF Feed!TypeOK, Feed!Delete, Feed!kept
  <2> QED BY <1>1, <2>1, <2>2, WrittenOnce
<1> QED BY <1>2, <1>3, <1>4, <1>5

LEMMA HarvestOnceOthers ==
    ASSUME Feed!TypeOK, OnceInv, NEW h \in Harvesters, NEW g \in Harvesters \ {h},
           Feed!Begin(h) \/ Feed!Answer(h) \/ Feed!Lose(h) \/ Feed!End(h)
    PROVE  OnceParts(g)'
<1> USE DEF Feed!pvars, Feed!gvars
<1>1. UNCHANGED <<approved, stamp>>
      /\ state'[g] = state[g] /\ from'[g] = from[g] /\ token'[g] = token[g]
      /\ marker'[g] = marker[g] /\ got'[g] = got[g] /\ twice'[g] = twice[g]
      /\ hidden'[g] = hidden[g] /\ (g \in slipped' <=> g \in slipped)
  <2>1. CASE Feed!Page(h)
    BY <2>1 DEF Feed!TypeOK, Feed!Page
  <2>2. CASE Feed!Refuse(h) \/ Feed!End(h)
    BY <2>2 DEF Feed!TypeOK, Feed!Refuse, Feed!End, Feed!Stop
  <2>3. CASE Feed!Begin(h) \/ Feed!Resume(h) \/ Feed!Admit(h) \/ Feed!Empty(h) \/ Feed!Lose(h)
    BY <2>3 DEF Feed!TypeOK, Feed!Begin, Feed!Resume, Feed!Admit, Feed!Empty, Feed!Lose
  <2> QED BY <2>1, <2>2, <2>3 DEF Feed!Answer
<1>2. OnceParts(g)
  BY DEF OnceInv
<1> QED BY <1>1, <1>2 DEF OnceParts, Fresh, Marked, GotPast, Once, Feed!Row, Feed!Listed

LEMMA PageOnce ==
    ASSUME Feed!TypeOK, OnceInv, NEW h \in Harvesters, Feed!Page(h)
    PROVE  OnceParts(h)'
<1> USE DEF Feed!TypeOK
<1> DEFINE page == Feed!PageOf(h)
           sent == page \ Unready
<1>1. /\ UNCHANGED <<approved, stamp, from, hidden, slipped>>
      /\ state[h] = "marked" /\ state'[h] \in {"waiting", "complete"}
      /\ twice'[h] = twice[h] \cup (sent \cap got[h]) /\ got'[h] = got[h] \cup sent
  BY DEF Feed!Page, Feed!pvars
<1>2. OnceParts(h)
  BY DEF OnceInv
<1>3. /\ approved \subseteq FeedProjects
      /\ \A p \in approved : stamp[p] \in Nat /\ stamp[p] > 0
      /\ token[h].marker \in Nat /\ marker[h] \in Nat /\ token[h].after \in Feed!Cursor
      /\ page \subseteq Feed!Remaining(h) /\ Feed!Remaining(h) \subseteq approved
  BY FeedAssumption, PageFacts DEF Feed!Times
<1>4. got[h] = {} \/ token[h] # Feed!NoToken
  BY <1>1, <1>2 DEF OnceParts, Fresh
<1>5. ASSUME h \notin slipped, NEW p \in page, p \in got[h] PROVE p \in hidden[h]
  <2> SUFFICES ASSUME p \notin hidden[h] PROVE FALSE
    OBVIOUS
  <2>1. p \in Feed!Listed(h) /\ Feed!Before(token[h].after, Feed!Row(p))
    BY <1>3 DEF Feed!Remaining
  <2>2. stamp[p] <= marker[h] /\ marker[h] = token[h].marker
    BY <1>1, <1>2, <1>4, <1>5, <2>1 DEF OnceParts, Marked
  <2>3. stamp[p] > token[h].marker
    BY <1>1, <1>2, <1>3, <1>5, <2>1 DEF OnceParts, GotPast, Harvesting
  <2> QED BY <1>3, <2>2, <2>3
<1>6. Once(h)'
  BY <1>1, <1>2, <1>5 DEF OnceParts, Once
<1>7. CASE ~Feed!HasMore(h)
  <2>1. state'[h] = "complete"
    BY <1>7 DEF Feed!Page
  <2> QED BY <1>6, <2>1 DEF OnceParts, Fresh, Marked, GotPast, Harvesting
<1>8. CASE Feed!HasMore(h)
  <2>1. PICK last \in page : /\ \A p \in page \ {last} : Feed!Before(Feed!Row(p), Feed!Row(last))
                             /\ token' = [token EXCEPT ![h] = [after |-> Feed!Row(last),
                                                               marker |-> marker[h]]]
    BY <1>8 DEF Feed!Page
  <2>2. /\ state'[h] = "waiting" /\ token'[h].after = Feed!Row(last)
        /\ token'[h].marker = marker[h]
    BY <1>8, <2>1 DEF Feed!Page
  <2>3. last \in FeedProjects /\ last \in Feed!Remaining(h) /\ Feed!Row(last) \in Feed!Cursor
        /\ Feed!Row(last).at > 0
    BY <1>3, <2>1, RowType
  <2>4. token'[h] # Feed!NoToken
    BY <2>2, <2>3 DEF Feed!NoToken, Feed!Never
  <2>5. Feed!Before(token[h].after, Feed!Row(last))
    BY <2>3 DEF Feed!Remaining
  <2>6. \A p \in sent : ~Feed!Before(Feed!Row(last), Feed!Row(p))
    <3>1. ASSUME NEW p \in sent PROVE ~Feed!Before(Feed!Row(last), Feed!Row(p))
      <4>1. Feed!Row(p) \in Feed!Cursor
        BY <1>3, RowType
      <4> QED BY <2>1, <2>3, <4>1, RowOrder
    <3> QED BY <3>1
  <2>7. ASSUME h \notin slipped, NEW p \in (got[h] \cap approved) \ hidden[h]
        PROVE  ~Feed!Before(Feed!Row(last), Feed!Row(p)) \/ stamp[p] > marker[h]
    <3>1. ~Feed!Before(token[h].after, Feed!Row(p)) \/ stamp[p] > token[h].marker
      BY <1>1, <1>2, <2>7 DEF OnceParts, GotPast, Harvesting
    <3>2. Feed!Row(p) \in Feed!Cursor
      BY <1>3, RowType
    <3>3. marker[h] = token[h].marker
      BY <1>1, <1>2, <1>4, <2>7 DEF OnceParts, Marked
    <3> QED BY <1>3, <2>3, <2>5, <3>1, <3>2, <3>3, RowOrder
  <2>8. \A p \in FeedProjects : Feed!Row(p)' = Feed!Row(p)
    BY <1>1 DEF Feed!Row
  <2>9. GotPast(h)'
    BY <1>1, <1>3, <2>2, <2>6, <2>7, <2>8 DEF GotPast
  <2> QED BY <1>6, <2>2, <2>4, <2>9 DEF OnceParts, Fresh, Marked
<1> QED BY <1>7, <1>8

LEMMA HarvestOnce ==
    ASSUME Feed!TypeOK, CopyInv, OnceInv, NEW h \in Harvesters,
           Feed!Begin(h) \/ Feed!Answer(h) \/ Feed!Lose(h) \/ Feed!End(h)
    PROVE  OnceParts(h)'
<1> USE DEF Feed!pvars, Feed!gvars
<1>1. OnceParts(h) /\ InOrder(h)
  BY DEF OnceInv, CopyInv, CopyParts
<1>2. ASSUME Feed!Begin(h) PROVE OnceParts(h)'
  <2>1. /\ UNCHANGED <<approved, stamp, token, got, twice, hidden, slipped>>
        /\ state[h] = "idle" /\ state'[h] = "asked"
    BY <1>2 DEF Feed!TypeOK, Feed!Begin
  <2>2. got[h] = {}
    BY <1>1, <2>1 DEF OnceParts, Fresh, InOrder
  <2> QED BY <1>1, <2>1, <2>2 DEF OnceParts, Fresh, Marked, GotPast, Once
<1>3. ASSUME Feed!Resume(h) \/ Feed!Lose(h) PROVE OnceParts(h)'
  <2>1. /\ UNCHANGED <<approved, stamp, token, got, twice, hidden, slipped>>
        /\ state[h] \in Harvesting /\ state'[h] = "asked"
    BY <1>3 DEF Feed!TypeOK, Feed!Resume, Feed!Lose, Harvesting
  <2> QED BY <1>1, <2>1 DEF OnceParts, Fresh, Marked, GotPast, Once, Harvesting, Feed!Row
<1>4. ASSUME Feed!Empty(h) PROVE OnceParts(h)'
  <2>1. UNCHANGED <<token, got, twice, hidden, slipped>> /\ state'[h] = "complete"
    BY <1>4 DEF Feed!TypeOK, Feed!Empty
  <2> QED BY <1>1, <2>1 DEF OnceParts, Fresh, Marked, GotPast, Once, Harvesting
<1>5. ASSUME Feed!Refuse(h) \/ Feed!End(h) PROVE OnceParts(h)'
  <2>1. state'[h] = "idle" /\ got'[h] = {} /\ twice'[h] = {}
    BY <1>5 DEF Feed!TypeOK, Feed!Refuse, Feed!End, Feed!Stop
  <2> QED BY <2>1 DEF OnceParts, Fresh, Marked, GotPast, Once, Harvesting
<1>6. ASSUME Feed!Admit(h) PROVE OnceParts(h)'
  <2>1. /\ UNCHANGED <<approved, stamp, from, token, got, twice, hidden, slipped>>
        /\ state[h] = "asked" /\ state'[h] = "marked" /\ marker'[h] = Feed!Marker(h)
        /\ token[h] = Feed!NoToken \/ token[h].marker = Feed!Marker(h)
    BY <1>6 DEF Feed!TypeOK, Feed!Admit, Feed!Accepted
  <2>2. Feed!Listed(h)' = Feed!Listed(h)
    BY <2>1 DEF Feed!Listed
  <2>3. Marked(h)'
    BY <2>1, <2>2, MarkerIsLatest DEF Marked
  <2> QED BY <1>1, <2>1, <2>3 DEF OnceParts, Fresh, GotPast, Once, Harvesting, Feed!Row
<1> QED BY <1>2, <1>3, <1>4, <1>5, <1>6, PageOnce DEF Feed!Answer

LEMMA OnceStep ==
    Feed!TypeOK /\ OpenTimes /\ CopyInv /\ OnceInv /\ [Feed!Next]_Feed!vars => OnceInv'
<1> SUFFICES ASSUME Feed!TypeOK, OpenTimes, CopyInv, OnceInv, [Feed!Next]_Feed!vars
             PROVE  OnceInv'
  OBVIOUS
<1>1. CASE UNCHANGED Feed!vars
  BY <1>1 DEF Feed!vars, Feed!pvars, Feed!hvars, Feed!gvars, OnceInv, OnceParts, Fresh, Marked,
              GotPast, Once, Feed!Row, Feed!Listed
<1>2. CASE Feed!Next
  <2>1. ASSUME NEW h \in Harvesters,
               Feed!Begin(h) \/ Feed!Answer(h) \/ Feed!Lose(h) \/ Feed!End(h)
        PROVE  OnceInv'
    <3>1. OnceParts(h)'
      BY <2>1, HarvestOnce
    <3>2. \A g \in Harvesters \ {h} : OnceParts(g)'
      BY <2>1, HarvestOnceOthers
    <3> QED BY <3>1, <3>2 DEF OnceInv
  <2> QED BY <1>2, <2>1, SaveOnce DEF Feed!Next
<1> QED BY <1>1, <1>2

FeedInv == Feed!TypeOK /\ OpenTimes /\ CopyInv /\ OnceInv

LEMMA FeedInvariant == Feed!Spec => []FeedInv
<1>1. Feed!Init => FeedInv
  <2> SUFFICES ASSUME Feed!Init PROVE OpenTimes /\ CopyInv /\ OnceInv
    BY FeedInitType DEF FeedInv
  <2> USE DEF Feed!Init
  <2>1. OpenTimes
    BY DEF OpenTimes
  <2>2. CopyInv
    BY DEF CopyInv, CopyParts, InOrder, Settled, LeftToNext, Passed, AllCopied, Ready, Harvesting
  <2>3. OnceInv
    BY DEF OnceInv, OnceParts, Fresh, Marked, GotPast, Once, Harvesting
  <2> QED BY <2>1, <2>2, <2>3
<1>2. FeedInv /\ [Feed!Next]_Feed!vars => FeedInv'
  BY FeedType, CopyStep, OnceStep DEF FeedInv
<1> QED BY <1>1, <1>2, PTL DEF Feed!Spec

LEMMA FeedPromises == FeedInv => Feed!CopyIsCurrent /\ Feed!NoneTwice
<1> SUFFICES ASSUME FeedInv PROVE Feed!CopyIsCurrent /\ Feed!NoneTwice
  OBVIOUS
<1>1. Feed!CopyIsCurrent
  BY DEF FeedInv, CopyInv, CopyParts, AllCopied, Copied, Ready, Feed!CopyIsCurrent
<1>2. Feed!NoneTwice
  BY DEF FeedInv, OnceInv, OnceParts, Once, Feed!NoneTwice
<1> QED BY <1>1, <1>2

-----------------------------------------------------------------------------
(* The snapshot: what SnapshotHarvestProofs proves of it *)

Snap == INSTANCE SnapshotHarvestProofs
          WITH Projects <- Records, Commands <- Builders, MaxRuns <- MaxStores,
               runs <- stores, todo <- ahead, token <- offset, got <- received,
               crowded <- together, faults <- mishaps

LEMMA SnapAssumption == Snap!SnapshotHarvestAssumption
BY PublicationAssumption
   DEF PublicationAssumption, Snapshot!SnapshotHarvestAssumption, Snap!SnapshotHarvestAssumption,
       Snapshot!IsFiniteSet, Snap!IsFiniteSet

LEMMA SnapInit == Snapshot!Init => Snap!Init
BY DEF Snapshot!Init, Snap!Init, Snapshot!Nothing, Snap!Nothing, Snapshot!Unasked, Snap!Unasked,
       Snapshot!NoToken, Snap!NoToken

LEMMA SnapCommand == ASSUME NEW c, Snapshot!Command(c) PROVE Snap!Command(c)
<1> USE DEF Snapshot!hvars, Snap!hvars, Snapshot!Disturbs, Snap!Disturbs, Snapshot!InRequest,
            Snap!InRequest, Snapshot!Running, Snap!Running, Snapshot!Nothing, Snap!Nothing
<1>1. Snapshot!Run(c) => Snap!Run(c)
  BY DEF Snapshot!Run, Snap!Run
<1>2. Snapshot!Erase(c) => Snap!Erase(c)
  BY DEF Snapshot!Erase, Snap!Erase
<1>3. Snapshot!Unmark(c) => Snap!Unmark(c)
  BY DEF Snapshot!Unmark, Snap!Unmark, Snapshot!Cardinality, Snap!Cardinality
<1>4. Snapshot!Clear(c) => Snap!Clear(c)
  BY DEF Snapshot!Clear, Snap!Clear
<1>5. Snapshot!Write(c) => Snap!Write(c)
  BY DEF Snapshot!Write, Snap!Write, Snapshot!Batch, Snap!Batch, Snapshot!Present, Snap!Present
<1>6. Snapshot!Store(c) => Snap!Store(c)
  BY DEF Snapshot!Store, Snap!Store
<1>7. Snapshot!Die(c) => Snap!Die(c)
  BY DEF Snapshot!Die, Snap!Die
<1> QED BY <1>1, <1>2, <1>3, <1>4, <1>5, <1>6, <1>7 DEF Snapshot!Command, Snap!Command

LEMMA SnapDelete == ASSUME NEW u, Snapshot!Delete(u) PROVE Snap!Delete(u)
BY DEF Snapshot!Delete, Snap!Delete, Snapshot!hvars, Snap!hvars

LEMMA SnapForget == \A h : Snapshot!Forget(h) <=> Snap!Forget(h)
BY DEF Snapshot!Forget, Snap!Forget, Snapshot!cvars, Snap!cvars, Snapshot!Unasked, Snap!Unasked,
       Snapshot!NoToken, Snap!NoToken, Snapshot!Nothing, Snap!Nothing

LEMMA SnapCurrent == Snapshot!Current = Snap!Current
BY DEF Snapshot!Current, Snap!Current

LEMMA SnapHarvest ==
    ASSUME NEW h, Snapshot!Begin(h) \/ Snapshot!Answer(h) \/ Snapshot!Lose(h) \/ Snapshot!End(h)
    PROVE  Snap!Begin(h) \/ Snap!Answer(h) \/ Snap!Lose(h) \/ Snap!End(h)
<1> USE DEF Snapshot!cvars, Snap!cvars, Snapshot!NoToken, Snap!NoToken, Snapshot!Met, Snap!Met,
            Snapshot!Running, Snap!Running
<1>1. Snapshot!Begin(h) => Snap!Begin(h)
  BY DEF Snapshot!Begin, Snap!Begin, Snapshot!Want, Snap!Want
<1>2. Snapshot!Resume(h) => Snap!Resume(h)
  BY DEF Snapshot!Resume, Snap!Resume
<1>3. Snapshot!Admit(h) => Snap!Admit(h)
  BY DEF Snapshot!Admit, Snap!Admit, Snapshot!Admitted, Snap!Admitted, Snapshot!Current,
         Snap!Current
<1>4. Snapshot!Refuse(h) => Snap!Refuse(h)
  BY SnapForget, SnapCurrent DEF Snapshot!Refuse, Snap!Refuse
<1>5. Snapshot!Count(h) => Snap!Count(h)
  BY DEF Snapshot!Count, Snap!Count, Snapshot!Matching, Snap!Matching, Snapshot!Unsaid,
         Snap!Unsaid, Snapshot!Present, Snap!Present, Snapshot!Forget, Snap!Forget,
         Snapshot!Unasked, Snap!Unasked, Snapshot!Nothing, Snap!Nothing,
         Snapshot!Cardinality, Snap!Cardinality
<1>6. Snapshot!Page(h) => Snap!Page(h)
  BY DEF Snapshot!Page, Snap!Page, Snapshot!Matching, Snap!Matching, Snapshot!Unsaid,
         Snap!Unsaid, Snapshot!Present, Snap!Present, Snapshot!Rankings, Snap!Rankings,
         Snapshot!More, Snap!More, Snapshot!Cardinality, Snap!Cardinality
<1>7. Snapshot!Lose(h) => Snap!Lose(h)
  BY DEF Snapshot!Lose, Snap!Lose
<1>8. Snapshot!End(h) => Snap!End(h)
  BY SnapForget DEF Snapshot!End, Snap!End
<1> QED BY <1>1, <1>2, <1>3, <1>4, <1>5, <1>6, <1>7, <1>8 DEF Snapshot!Answer, Snap!Answer

LEMMA SnapNext == Snapshot!Next => Snap!Next
BY SnapCommand, SnapDelete, SnapHarvest DEF Snapshot!Next, Snap!Next

LEMMA SnapType == Snap!TypeOK => Snapshot!TypeOK
BY DEF Snapshot!TypeOK, Snap!TypeOK, Snapshot!InRequest, Snap!InRequest, Snapshot!Want, Snap!Want,
       Snapshot!Token, Snap!Token

LEMMA SnapServed == Snap!ServedIsWhole => Snapshot!ServedIsWhole
BY DEF Snapshot!ServedIsWhole, Snap!ServedIsWhole, Snapshot!Nothing, Snap!Nothing

LEMMA SnapConsistent == Snap!CompleteIsConsistent => Snapshot!CompleteIsConsistent
BY DEF Snapshot!CompleteIsConsistent, Snap!CompleteIsConsistent, Snapshot!Distinct, Snap!Distinct,
       Snapshot!Present, Snap!Present

LEMMA SnapshotPromises ==
    Snapshot!Spec =>
        [](Snapshot!TypeOK /\ Snapshot!ServedIsWhole /\ Snapshot!CompleteIsConsistent)
<1>1. Snapshot!Init => Snap!Init
  BY SnapInit
<1>2. [Snapshot!Next]_Snapshot!vars => [Snap!Next]_Snap!vars
  BY SnapNext DEF Snapshot!vars, Snap!vars
<1>3. Snapshot!Spec => Snap!Spec
  BY <1>1, <1>2, PTL DEF Snapshot!Spec, Snap!Spec
<1>4. Snap!Spec => []Snap!TypeOK
  BY SnapAssumption, Snap!TypeCorrect
<1>5. Snap!Spec => []Snap!ServedIsWhole
  BY SnapAssumption, Snap!ServedStaysWhole
<1>6. Snap!Spec => []Snap!CompleteIsConsistent
  BY SnapAssumption, Snap!CompleteHarvestIsConsistent
<1> QED BY <1>3, <1>4, <1>5, <1>6, SnapType, SnapServed, SnapConsistent, PTL
-----------------------------------------------------------------------------
(* All of them, in MCPublication *)

\* A behaviour of AllSpec is one of each of them, that of the others standing still.
LEMMA AllAreTheirs == AllSpec => Spec /\ Links!Spec /\ Feed!Spec /\ Snapshot!Spec
<1>1. AllInit => Init /\ Links!Init /\ Feed!Init /\ Snapshot!Init
  BY DEF AllInit
<1>2. [AllNext]_allVars => [Next]_vars
  BY DEF AllNext, allVars
<1>3. [AllNext]_allVars => [Links!Next]_Links!vars
  <2>1. UNCHANGED linkVars => UNCHANGED Links!vars
    BY DEF linkVars, Links!vars, Links!dvars, Links!wvars
  <2>2. [AllNext]_allVars => Links!Next \/ UNCHANGED linkVars
    BY DEF AllNext, allVars
  <2> QED BY <2>1, <2>2
<1>4. [AllNext]_allVars => [Feed!Next]_Feed!vars
  <2>1. UNCHANGED feedVars => UNCHANGED Feed!vars
    BY DEF feedVars, Feed!vars, Feed!pvars, Feed!hvars, Feed!gvars
  <2>2. [AllNext]_allVars => Feed!Next \/ UNCHANGED feedVars
    BY DEF AllNext, allVars
  <2> QED BY <2>1, <2>2
<1>5. [AllNext]_allVars => [Snapshot!Next]_Snapshot!vars
  <2>1. UNCHANGED snapshotVars => UNCHANGED Snapshot!vars
    BY DEF snapshotVars, Snapshot!vars
  <2>2. [AllNext]_allVars => Snapshot!Next \/ UNCHANGED snapshotVars
    BY DEF AllNext, allVars
  <2> QED BY <2>1, <2>2
<1> QED
  BY <1>1, <1>2, <1>3, <1>4, <1>5, PTL
  DEF AllSpec, Spec, Links!Spec, Feed!Spec, Snapshot!Spec

\* The type invariant of the catalogue, the links, the feed and the snapshot.
THEOREM AllTypesCorrect == AllSpec => []AllTypeOK
<1>1. LinksInv => Links!TypeOK
  BY DEF LinksInv
<1>2. FeedInv => Feed!TypeOK
  BY DEF FeedInv
<1>3. TypeOK /\ Links!TypeOK /\ Feed!TypeOK /\ Snapshot!TypeOK => AllTypeOK
  BY DEF AllTypeOK
<1> QED
  BY <1>1, <1>2, <1>3, AllAreTheirs, TypeCorrect, LinksInvariant, FeedInvariant,
     SnapshotPromises, PTL

\* MediaAccessSyncService, "Incremental ... use watermarks to process only changes":
\* once the links are seeded, a project that is not due again has a link that says
\* what its record says, however many runs and changes interleave and wherever runs
\* die, unless a change of it escaped the watermarks (missed).
THEOREM SeedsAreCurrent == AllSpec => []SeededIsCurrent
<1>1. LinksInv => SeededIsCurrent
  BY LinksPromises DEF SeededIsCurrent
<1> QED BY <1>1, AllAreTheirs, LinksInvariant, PTL

\* A run of sync_media_access that nothing came in between of leaves the links and
\* approvals as the records are: a full refresh those of every project, an
\* incremental run those of every project that was not missed before it.
THEOREM CalmRunsAreComplete == AllSpec => []CalmRunIsComplete
<1>1. LinksInv => CalmRunIsComplete
  BY LinksPromises DEF CalmRunIsComplete
<1> QED BY <1>1, AllAreTheirs, LinksInvariant, PTL

\* The tailored feed: a harvester that followed its tokens to the end has the current
\* version of each publication that did not change since it began, although it asked
\* only for what was changed, unless the publication was committed too late.
THEOREM CopiesAreCurrent == AllSpec => []CopyIsCurrent
<1>1. FeedInv => CopyIsCurrent
  BY FeedPromises DEF CopyIsCurrent
<1> QED BY <1>1, AllAreTheirs, FeedInvariant, PTL

\* The tailored feed, "Dataset has changed; restart harvesting": no token lets a
\* project be sent twice, whatever the order in which projects are changed, unless
\* the change could not be told from the marker or came within a request.
THEOREM RowsComeOnce == AllSpec => []NoneTwice
<1>1. FeedInv => NoneTwice
  BY FeedPromises DEF NoneTwice
<1> QED BY <1>1, AllAreTheirs, FeedInvariant, PTL

\* "Simple offset-based pagination with snapshot timestamp validation": the records of
\* a complete harvest are those of the snapshot it began with, each of them once.
THEOREM HarvestsAreConsistent == AllSpec => []CompleteIsConsistent
<1>1. Snapshot!CompleteIsConsistent => CompleteIsConsistent
  BY DEF CompleteIsConsistent
<1> QED BY <1>1, AllAreTheirs, SnapshotPromises, PTL

\* "Records are replaced entirely when a new snapshot is generated": a run of
\* create_oai_snapshot that dies leaves no snapshot that is served in part.
THEOREM SnapshotsAreWhole == AllSpec => []ServedIsWhole
<1>1. Snapshot!ServedIsWhole => ServedIsWhole
  BY DEF ServedIsWhole
<1> QED BY <1>1, AllAreTheirs, SnapshotPromises, PTL

\* A full rebuild of the catalogue that met no other leaves rows and cards as the
\* projects are, when flushes fall between loads (WriteSize a multiple of LoadSize).
THEOREM AllRebuildsAreCurrent == ASSUME Aligned PROVE AllSpec => []RebuiltIsCurrent
BY AllAreTheirs, RebuildsAreCurrent, PTL

\* Whichever rebuilds run together, none takes the row of a project that is another
\* organisation's, or that it has not seen removed.
THEOREM AllSpareOthers == AllSpec => PruneSparesOthers
BY AllAreTheirs, OthersAreSpared, PTL
=============================================================================
