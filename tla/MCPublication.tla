---------------------------- MODULE MCPublication ----------------------------
(* TLC instance of the ways in which projects get out: the catalogue, the     *)
(* media links and approvals, the tailored feed of what is approved and the   *)
(* OAI snapshot.  They are taken one at a time: a behaviour is one of theirs, *)
(* and the state of the others stays as it was.                               *)
EXTENDS CatalogueIndex, TLC

CONSTANTS MaxRuns, MaxEdits, MaxFaults,
          FeedProjects, Harvesters, Unready, PageSize, MaxClock, MaxSaves, MaxLosses,
          Records, OwnSet, BatchSize, MaxStores

VARIABLES alive,
          media, link, pub, seeded, synced, newSeed, newPub, missed, pc, force, only, todo, read,
          harvestable, behind, calm, runs, edits, faults,
          approved, stamp, open, clock, saves, state, from, begun, token, marker, have, got,
          twice, resaved, hidden, slipped, late, losses,
          table, metas, stores, cmd, ahead, written, hv, want, offset, now, count, received,
          start, disturbed, published, together, mishaps

\* The processes that run jobs are those that run commands.
Links == INSTANCE MediaSync WITH Workers <- Builders, MaxChanges <- MaxEdits, changes <- edits
Feed == INSTANCE TailoredHarvest WITH Projects <- FeedProjects, changed <- resaved
Snapshot == INSTANCE SnapshotHarvest
              WITH Projects <- Records, Commands <- Builders, MaxRuns <- MaxStores,
                   runs <- stores, todo <- ahead, token <- offset, got <- received,
                   crowded <- together, faults <- mishaps

ASSUME PublicationAssumption ==
       /\ Links!MediaSyncAssumption
       /\ Feed!TailoredHarvestAssumption
       /\ Snapshot!SnapshotHarvestAssumption

linkVars == <<media, link, pub, seeded, synced, newSeed, newPub, missed, pc, force, only, todo,
              read, harvestable, behind, calm, runs, edits, faults>>
feedVars == <<approved, stamp, open, clock, saves, state, from, begun, token, marker, have, got,
              twice, resaved, hidden, slipped, late, losses>>
snapshotVars == <<table, metas, stores, cmd, ahead, written, hv, want, offset, now, count,
                  received, start, disturbed, published, together, mishaps>>
allVars == <<alive, vars, linkVars, feedVars, snapshotVars>>

AllInit ==
    /\ alive \in {"catalogue", "links", "feed", "snapshot"}
    /\ Init /\ titled = Projects       \* an import may clear a title
    /\ IF alive = "catalogue"
       THEN public # {} /\ broken \subseteq public /\ broken # Projects
       ELSE public = {} /\ broken = {}
    /\ Links!Init /\ (alive # "links" => media = {})
    /\ Feed!Init /\ Snapshot!Init

AllNext ==
    \/ alive = "catalogue" /\ Next /\ UNCHANGED <<alive, linkVars, feedVars, snapshotVars>>
    \/ alive = "links" /\ Links!Next /\ UNCHANGED <<alive, vars, feedVars, snapshotVars>>
    \/ alive = "feed" /\ Feed!Next /\ UNCHANGED <<alive, vars, linkVars, snapshotVars>>
    \/ alive = "snapshot" /\ Snapshot!Next /\ UNCHANGED <<alive, vars, linkVars, feedVars>>

AllSpec == AllInit /\ [][AllNext]_allVars

Symmetry == Permutations(Projects) \cup Permutations(Builders)

AllTypeOK ==
    /\ TypeOK
    /\ alive = "links" => Links!TypeOK
    /\ alive = "feed" => Feed!TypeOK
    /\ alive = "snapshot" => Snapshot!TypeOK

SeededIsCurrent == alive = "links" => Links!SeededIsCurrent
CalmRunIsComplete == alive = "links" => Links!CalmRunIsComplete

CopyIsCurrent == alive = "feed" => Feed!CopyIsCurrent
NoneTwice == alive = "feed" => Feed!NoneTwice

CompleteIsConsistent == alive = "snapshot" => Snapshot!CompleteIsConsistent
ServedIsWhole == alive = "snapshot" => Snapshot!ServedIsWhole
=============================================================================
