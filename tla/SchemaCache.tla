----------------------------- MODULE SchemaCache -----------------------------
(***************************************************************************)
(* The schema blueprints of one mapping and the lock under which they are  *)
(* built: SchemaService (arkumu/importer/services/schema_service.py) on    *)
(* top of CompleteSchemaProcessor and MappingAwareProcessor, the           *)
(* unlocked schema initialisation of an import, and the command            *)
(* regenerate_schema_blueprints.  Processes (web workers, Huey workers,    *)
(* commands) share only the cache, in which each get, set, add and delete  *)
(* is one step, and the mapping row, which is edited in place.             *)
(*                                                                         *)
(* Blueprints are what the mapping's version was when they were derived.   *)
(***************************************************************************)
EXTENDS Naturals

CONSTANTS
    Procs,          \* processes and threads that use the service
    LockTTL,        \* lock_timeout, in ticks
    WaitLimit,      \* max_wait_time, in ticks
    MaxVersion      \* bound: versions of the mapping

ASSUME SchemaCacheAssumption ==
    /\ "none" \notin Procs
    /\ LockTTL \in Nat \ {0} /\ WaitLimit \in Nat /\ MaxVersion \in Nat \ {0}

VARIABLES
    mapping,        \* version of the Mapping row
    base,           \* cache: schema_blueprints_mapping_<id>, 0 if absent
    complete,       \* cache: complete_schema_blueprints_mapping_<id>, 0 if absent
    lock,           \* cache: remaining ticks of schema_creation_lock_mapping_<id>
    holder,         \* ghost: whose cache.add created the lock
    pc,             \* where each process is in the service
    conf,           \* version of the mapping a process last read, 1 before it reads
    got,            \* version of the blueprints a process ended with, 0 if none
    waited,         \* ticks a process has waited for somebody else's build
    wanted          \* ghost: version a regeneration started from, 0 otherwise

vars == <<mapping, base, complete, lock, holder, pc, conf, got, waited, wanted>>

\* Between cache.add of the lock and its delete.
Critical == {"checking", "building", "filling", "persisting", "extending", "releasing"}

\* Deriving blueprints, the cache having been found empty.
Building == {"building", "filling", "persisting", "extending"}

Waiting == {"waiting", "missed"}

PC == {"idle", "clearing", "entering", "locking", "initialising", "recording",
       "initialised", "loaded", "failed"} \cup Critical \cup Waiting

Version == 1..MaxVersion

TypeOK ==
    /\ mapping \in Version
    /\ base \in Version \cup {0}
    /\ complete \in Version \cup {0}
    /\ lock \in 0..LockTTL
    /\ holder \in Procs \cup {"none"}
    /\ pc \in [Procs -> PC]
    /\ conf \in [Procs -> Version]
    /\ got \in [Procs -> Version \cup {0}]
    /\ waited \in [Procs -> 0..(WaitLimit + 1)]
    /\ wanted \in [Procs -> Version \cup {0}]

Init ==
    /\ mapping = 1 /\ base = 0 /\ complete = 0
    /\ lock = 0 /\ holder = "none"
    /\ pc = [p \in Procs |-> "idle"]
    /\ conf = [p \in Procs |-> 1]
    /\ got = [p \in Procs |-> 0]
    /\ waited = [p \in Procs |-> 0]
    /\ wanted = [p \in Procs |-> 0]

Goto(p, l) == pc' = [pc EXCEPT ![p] = l]

-----------------------------------------------------------------------------
(* A call of the service: _ensure_schema_loaded *)

Call(p) ==
    /\ pc[p] = "idle"
    /\ Goto(p, "entering")
    /\ UNCHANGED <<mapping, base, complete, lock, holder, conf, got, waited, wanted>>

\* Cached blueprints are trusted.
Enter(p) ==
    /\ pc[p] = "entering"
    /\ got' = [got EXCEPT ![p] = complete]
    /\ Goto(p, IF complete # 0 THEN "loaded" ELSE "locking")
    /\ UNCHANGED <<mapping, base, complete, lock, holder, conf, waited, wanted>>

\* Mutant: the lock key is set, not added.
Acquire_Set(p) ==
    /\ pc[p] = "locking"
    /\ lock' = LockTTL /\ holder' = p
    /\ Goto(p, "checking")
    /\ UNCHANGED <<mapping, base, complete, conf, got, waited, wanted>>

\* Mutant: the lock lives longer than its timeout.
Acquire_Longer(p) ==
    /\ pc[p] = "locking" /\ lock = 0
    /\ lock' = LockTTL + 1 /\ holder' = p
    /\ Goto(p, "checking")
    /\ UNCHANGED <<mapping, base, complete, conf, got, waited, wanted>>

\* cache.add: atomic, succeeds for one caller only.
Acquire(p) ==
    /\ pc[p] = "locking" /\ lock = 0
    /\ lock' = LockTTL /\ holder' = p
    /\ Goto(p, "checking")
    /\ UNCHANGED <<mapping, base, complete, conf, got, waited, wanted>>

Queue(p) ==
    /\ pc[p] = "locking" /\ lock > 0
    /\ waited' = [waited EXCEPT ![p] = 0]
    /\ Goto(p, "waiting")
    /\ UNCHANGED <<mapping, base, complete, lock, holder, conf, got, wanted>>

\* Mutant: the cache is not looked at again once the lock is held.
Check_Once(p) ==
    /\ pc[p] = "checking"
    /\ conf' = [conf EXCEPT ![p] = mapping]
    /\ Goto(p, "building")
    /\ UNCHANGED <<mapping, base, complete, lock, holder, got, waited, wanted>>

\* The second look at the cache; without a hit the mapping is translated.
Check(p) ==
    /\ pc[p] = "checking"
    /\ IF complete # 0
       THEN /\ got' = [got EXCEPT ![p] = complete]
            /\ Goto(p, "releasing")
            /\ UNCHANGED conf
       ELSE /\ conf' = [conf EXCEPT ![p] = mapping]
            /\ Goto(p, "building")
            /\ UNCHANGED got
    /\ UNCHANGED <<mapping, base, complete, lock, holder, waited, wanted>>

-----------------------------------------------------------------------------
(* Creating the schema, with the lock *)

\* CompleteSchemaProcessor finds no complete blueprints (it would take them),
\* MappingAwareProcessor looks for base blueprints of its own.  With base
\* blueprints at hand it reads the mapping again, to note their manifest in it.
Build(p) ==
    /\ pc[p] = "building"
    /\ IF complete # 0
       THEN /\ got' = [got EXCEPT ![p] = complete]
            /\ Goto(p, "releasing")
            /\ UNCHANGED conf
       ELSE /\ got' = [got EXCEPT ![p] = base]
            /\ conf' = IF base # 0 THEN [conf EXCEPT ![p] = mapping] ELSE conf
            /\ Goto(p, IF base # 0 THEN "persisting" ELSE "filling")
    /\ UNCHANGED <<mapping, base, complete, lock, holder, waited, wanted>>

\* The base blueprints have been derived and are cached; a cache that cannot
\* be written is ignored.
Fill(p) ==
    /\ pc[p] = "filling"
    /\ base' \in {base, conf[p]}
    /\ got' = [got EXCEPT ![p] = conf[p]]
    /\ conf' = [conf EXCEPT ![p] = mapping]
    /\ Goto(p, "persisting")
    /\ UNCHANGED <<mapping, complete, lock, holder, waited, wanted>>

\* _persist_schema_manifest: unless the manifest is unchanged, the whole
\* configuration that was read is written back with the manifest in it.
PersistManifest(p) ==
    /\ pc[p] \in {"persisting", "recording"}
    /\ mapping' \in {mapping, conf[p]}
    /\ Goto(p, IF pc[p] = "persisting" THEN "extending" ELSE "initialised")
    /\ UNCHANGED <<base, complete, lock, holder, conf, got, waited, wanted>>

\* The complete blueprints are cached, or fail to be.
Extend(p) ==
    /\ pc[p] = "extending"
    /\ complete' \in {complete, got[p]}
    /\ Goto(p, "releasing")
    /\ UNCHANGED <<mapping, base, lock, holder, conf, got, waited, wanted>>

\* Anything may raise: the translation, the database, or base blueprints that
\* do not know a column of the config.
BuildFails(p) ==
    /\ pc[p] \in Building
    /\ got' = [got EXCEPT ![p] = 0]
    /\ Goto(p, "releasing")
    /\ UNCHANGED <<mapping, base, complete, lock, holder, conf, waited, wanted>>

\* finally: the key is deleted, whoever's it is by now.
Release(p) ==
    /\ pc[p] = "releasing"
    /\ lock' = 0 /\ holder' = "none"
    /\ Goto(p, IF got[p] # 0 THEN "loaded" ELSE "failed")
    /\ UNCHANGED <<mapping, base, complete, conf, got, waited, wanted>>

-----------------------------------------------------------------------------
(* Waiting for somebody else's build *)

\* A round of the loop first looks for the blueprints ...
Poll(p) ==
    /\ pc[p] = "waiting"
    /\ got' = [got EXCEPT ![p] = complete]
    /\ Goto(p, IF complete # 0 THEN "loaded" ELSE "missed")
    /\ UNCHANGED <<mapping, base, complete, lock, holder, conf, waited, wanted>>

\* Mutant: a waiter whose time is over goes on waiting.
LookAtLock_Forever(p) ==
    /\ pc[p] = "missed"
    /\ Goto(p, IF lock = 0 THEN "failed" ELSE "waiting")
    /\ UNCHANGED <<mapping, base, complete, lock, holder, conf, got, waited, wanted>>

\* Mutant: a waiter that gives up runs the finally clause on a lock it never had.
LookAtLock_Deletes(p) ==
    /\ pc[p] = "missed"
    /\ IF lock = 0 \/ waited[p] > WaitLimit
       THEN Goto(p, "failed") /\ lock' = 0 /\ holder' = "none"
       ELSE Goto(p, "waiting") /\ UNCHANGED <<lock, holder>>
    /\ UNCHANGED <<mapping, base, complete, conf, got, waited, wanted>>

\* ... and then at the lock: without one, or out of time, the call fails.
LookAtLock(p) ==
    /\ pc[p] = "missed"
    /\ Goto(p, IF lock = 0 \/ waited[p] > WaitLimit THEN "failed" ELSE "waiting")
    /\ UNCHANGED <<mapping, base, complete, lock, holder, conf, got, waited, wanted>>

-----------------------------------------------------------------------------
(* Other users of the keys *)

\* _initialize_mapping_schemas_sync, before an import: base blueprints are taken
\* from the cache or derived, without the lock.  What it then calls to cache
\* the complete ones, create_complete_schema, is no method of SchemaService;
\* the error is caught.
Initialise(p) ==
    /\ pc[p] = "idle"
    /\ conf' = [conf EXCEPT ![p] = mapping]
    /\ got' = [got EXCEPT ![p] = base]
    /\ Goto(p, "initialising")
    /\ UNCHANGED <<mapping, base, complete, lock, holder, waited, wanted>>

StoreBase(p) ==
    /\ pc[p] = "initialising"
    /\ base' \in IF got[p] = 0 THEN {base, conf[p]} ELSE {base}
    /\ got' = [got EXCEPT ![p] = IF @ = 0 THEN conf[p] ELSE @]
    /\ conf' = [conf EXCEPT ![p] = mapping]
    /\ Goto(p, "recording")
    /\ UNCHANGED <<mapping, complete, lock, holder, waited, wanted>>

\* regenerate_schema_blueprints deletes both keys, one by one, and calls.
Regenerate(p) ==
    /\ pc[p] = "idle"
    /\ base' = 0
    /\ wanted' = [wanted EXCEPT ![p] = mapping]
    /\ Goto(p, "clearing")
    /\ UNCHANGED <<mapping, complete, lock, holder, conf, got, waited>>

Clear(p) ==
    /\ pc[p] = "clearing"
    /\ complete' = 0
    /\ Goto(p, "entering")
    /\ UNCHANGED <<mapping, base, lock, holder, conf, got, waited, wanted>>

\* The caller has its answer; the next call starts from scratch.
Done(p) ==
    /\ pc[p] \in {"loaded", "failed", "initialised"}
    /\ Goto(p, "idle")
    /\ got' = [got EXCEPT ![p] = 0]
    /\ conf' = [conf EXCEPT ![p] = 1]
    /\ waited' = [waited EXCEPT ![p] = 0]
    /\ wanted' = [wanted EXCEPT ![p] = 0]
    /\ UNCHANGED <<mapping, base, complete, lock, holder>>

\* The process dies anywhere; its lock stays until it expires.
Crash(p) ==
    /\ pc[p] # "idle"
    /\ Goto(p, "idle")
    /\ got' = [got EXCEPT ![p] = 0]
    /\ conf' = [conf EXCEPT ![p] = 1]
    /\ waited' = [waited EXCEPT ![p] = 0]
    /\ wanted' = [wanted EXCEPT ![p] = 0]
    /\ UNCHANGED <<mapping, base, complete, lock, holder>>

\* A saved mapping is changed; no cache key is.
Edit ==
    /\ mapping < MaxVersion
    /\ mapping' = mapping + 1
    /\ UNCHANGED <<base, complete, lock, holder, pc, conf, got, waited, wanted>>

\* The hour of a blueprint key is over.
Expire ==
    /\ base # 0 \/ complete # 0
    /\ base' \in {base, 0} /\ complete' \in {complete, 0}
    /\ <<base', complete'>> # <<base, complete>>
    /\ UNCHANGED <<mapping, lock, holder, pc, conf, got, waited, wanted>>

\* Minutes pass: the lock runs down and waiters wait.
Tick ==
    /\ lock' = IF lock > 0 THEN lock - 1 ELSE 0
    /\ holder' = IF lock > 1 THEN holder ELSE "none"
    /\ waited' = [p \in Procs |-> IF pc[p] \in Waiting /\ waited[p] <= WaitLimit
                                  THEN waited[p] + 1 ELSE waited[p]]
    /\ UNCHANGED <<mapping, base, complete, pc, conf, got, wanted>>

Step(p) ==
    \/ Enter(p) \/ Acquire(p) \/ Queue(p) \/ Check(p)
    \/ Build(p) \/ Fill(p) \/ PersistManifest(p) \/ Extend(p) \/ BuildFails(p) \/ Release(p)
    \/ Poll(p) \/ LookAtLock(p) \/ StoreBase(p) \/ Clear(p)

Next ==
    \/ \E p \in Procs : Call(p) \/ Step(p) \/ Done(p) \/ Crash(p)
                            \/ Initialise(p) \/ Regenerate(p)
    \/ Edit \/ Expire \/ Tick

Spec == Init /\ [][Next]_vars

\* "5 minutes max for schema creation": behaviours in which no lock expires
\* while its holder is still at work.
InTime == lock = 1 /\ lock' = 0 /\ pc' = pc => \A p \in Procs : pc[p] \notin Critical

TimelySpec == Init /\ [][Next /\ InTime]_vars

\* Processes go on with a call they began, and time passes.
Fairness == (\A p \in Procs : WF_vars(Step(p))) /\ WF_vars(Tick)

TimelyFairSpec == TimelySpec /\ Fairness

-----------------------------------------------------------------------------
(* Properties *)

\* "distributed locking to prevent concurrent creation": one process at most is
\* between acquiring the lock and giving it back.
MutualExclusion ==
    \A p, q \in Procs : pc[p] \in Critical /\ pc[q] \in Critical => p = q

\* The second look at the cache: nobody derives blueprints that are there.
NoNeedlessBuild ==
    \A p \in Procs : pc[p] \in Building => complete = 0

\* "Release lock if we acquired it": no process deletes the lock of another.
ReleasesItsOwn ==
    [][\A p \in Procs :
        pc[p] = "releasing" /\ pc'[p] \in {"loaded", "failed"} /\ lock > 0 => holder = p]_vars

\* "reads the latest field metadata after a mapping change": a regeneration that
\* succeeds has blueprints no older than the mapping it started from.
RegeneratedIsCurrent ==
    \A p \in Procs : pc[p] = "loaded" => got[p] >= wanted[p]

\* "Successfully updated mapping": an edit that was saved stays.
EditsStay == [][mapping' >= mapping]_vars

\* Every call is answered, with blueprints or a failure, whoever died meanwhile.
CallsEnd ==
    \A p \in Procs : pc[p] = "entering" ~> pc[p] \in {"loaded", "failed", "idle"}
=============================================================================
