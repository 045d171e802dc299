----------------------------- MODULE MongoLeases -----------------------------
(***************************************************************************)
(* Writers and fsck runs of MongoStore, kept apart by lease documents in   *)
(* the metadata collection (backend/mongo/leases.py, with the parts of     *)
(* store.py and fsck.py that run under a lease).                           *)
(*                                                                         *)
(* A writer inserts its lease and then looks for the fsck lease; fsck      *)
(* inserts its lease and then looks for writers.  Freshness of a heartbeat *)
(* is all the queries ask of it, so a heartbeat is "fresh" or "stale" here *)
(* and Age lets it expire.  One operation (a top-level save or             *)
(* transaction, or one fsck run) is one element of Writers or Fscks: each  *)
(* gets a new uuid, so an operation is never started twice.                *)
(*                                                                         *)
(* The guarded data is one pool of dependency-role documents: a save       *)
(* writes or finds a dependency, then inserts the main document that       *)
(* refers to it; fsck deletes the dependencies no main document reaches.   *)
(***************************************************************************)
EXTENDS Naturals, FiniteSets

CONSTANTS
  Stores,       \* MongoStore objects, each in a process of its own
  Latecomers,   \* the stores that may be opened while an fsck is running
  Writers,      \* saves and transactions
  SlowWriters,  \* writers that may miss their heartbeat while they run
  Fscks,        \* fsck runs
  Forced,       \* the fsck runs called with force=True
  MaxDeaths,    \* bound on the operations that die with their process
  None          \* "no store", "no owner", "no document"

Ops == Writers \cup Fscks
Sids == Writers   \* the sid a save draws for its dependency is never reused

ASSUME LeasesAssumption ==
  /\ Latecomers \subseteq Stores
  /\ SlowWriters \subseteq Writers
  /\ Forced \subseteq Fscks
  /\ Writers \cap Fscks = {}
  /\ None \notin Stores \cup Ops
  /\ MaxDeaths \in Nat

VARIABLES
  open,         \* the stores whose process is up
  known,        \* _last_generation of each store
  cache,        \* unreachable dependencies fetched into the identity cache of each store
  pc,           \* where each operation is
  at,           \* the store running it, None before it starts and after it ends
  local,        \* its local variables
  writerLease,  \* the heartbeat of each writer's lease document, or "absent"
  fsckLease,    \* owner and heartbeat of the document "lease/fsck"
  generation,   \* the generation of the document "layout"
  deps,         \* the dependency-role documents
  rooted        \* the dependencies that main documents refer to

stores == <<open, known, cache>>
leases == <<writerLease, fsckLease>>
data == <<generation, deps, rooted>>
vars == <<stores, pc, at, local, leases, data>>

Blank == [gen |-> 0, fresh |-> {}, marked |-> {}, ref |-> None]

Init ==
  /\ open = Stores
  /\ known = [s \in Stores |-> 0]
  /\ cache = [s \in Stores |-> {}]
  /\ pc = [o \in Ops |-> "new"]
  /\ at = [o \in Ops |-> None]
  /\ local = [o \in Ops |-> Blank]
  /\ writerLease = [w \in Writers |-> "absent"]
  /\ fsckLease = [owner |-> None, beat |-> "null"]
  /\ generation = 0
  /\ deps = {}
  /\ rooted = {}
-----------------------------------------------------------------------------
(* What the lease queries find.                                            *)

LeasedWriters == {w \in Writers : writerLease[w] # "absent"}

\* Faulty: every registration counts, whatever its heartbeat.
RegisteredWriters == LeasedWriters

FreshWriters == {w \in Writers : writerLease[w] = "fresh"}

FsckLocked == fsckLease.owner # None

\* {"$lte": ["$heartbeat", cutoff]}: null sorts before every date.
Replaceable == fsckLease.beat \in {"null", "stale"}

\* refresh_heartbeat matches the document by owner.
Displaced(f) == fsckLease.owner # f

(* An operation runs in an open store that runs no other: every writer and *)
(* fsck of a store holds its _write_lock.                                  *)
Begin(o, s, next) ==
  /\ pc[o] = "new"
  /\ s \in open
  /\ \A p \in Ops : at[p] # s
  /\ pc' = [pc EXCEPT ![o] = next]
  /\ at' = [at EXCEPT ![o] = s]

Goto(o, here, next) ==
  /\ pc[o] = here
  /\ pc' = [pc EXCEPT ![o] = next]
  /\ UNCHANGED at

End(o) ==
  /\ pc' = [pc EXCEPT ![o] = "ended"]
  /\ at' = [at EXCEPT ![o] = None]
  /\ local' = [local EXCEPT ![o] = Blank]

\* Faulty: release() deletes by identifier alone.
FsckLeaseDeleted(f) == [owner |-> None, beat |-> "null"]

\* release() of an fsck: delete by identifier and owner.
FsckLeaseReleased(f) ==
  IF Displaced(f) THEN fsckLease ELSE [owner |-> None, beat |-> "null"]

ReleaseFsck(f) ==
  /\ fsckLease' = FsckLeaseReleased(f)
  /\ End(f)
  /\ UNCHANGED <<stores, writerLease, data>>
-----------------------------------------------------------------------------
(* A writer: acquire_writer, then the degraded save, then release.         *)

RegisterWriter(w, s) ==
  /\ Begin(w, s, "registered")
  /\ writerLease' = [writerLease EXCEPT ![w] = "fresh"]
  /\ UNCHANGED <<stores, local, fsckLease, data>>

\* Faulty: the blocked writer raises without releasing.
WriterBlockedLeaking(w) ==
  /\ pc[w] = "registered"
  /\ FsckLocked
  /\ End(w)
  /\ UNCHANGED <<stores, leases, data>>

\* Even a stale fsck lease blocks.
WriterBlocked(w) ==
  /\ pc[w] = "registered"
  /\ FsckLocked
  /\ writerLease' = [writerLease EXCEPT ![w] = "absent"]
  /\ End(w)
  /\ UNCHANGED <<stores, fsckLease, data>>

\* Faulty: the generation is taken over and the caches are kept.
ObserveKeepingCaches(s, gen) ==
  /\ cache' = cache
  /\ known' = [known EXCEPT ![s] = gen]

\* _observe_generation
Observe(s, gen) ==
  /\ cache' = IF gen # known[s] THEN [cache EXCEPT ![s] = {}] ELSE cache
  /\ known' = [known EXCEPT ![s] = gen]

\* Faulty: an expired fsck lease is taken for a dead one.
WriterAdmittedPastStaleFsck(w) ==
  /\ Goto(w, "registered", "writing")
  /\ FsckLocked => fsckLease.beat = "stale"
  /\ Observe(at[w], generation)
  /\ UNCHANGED <<open, local, leases, data>>

(* One find returns both the fsck lease and the layout document; what the  *)
(* store does next with the generation is out of sight of other processes. *)
WriterAdmitted(w) ==
  /\ Goto(w, "registered", "writing")
  /\ ~FsckLocked
  /\ Observe(at[w], generation)
  /\ UNCHANGED <<open, local, leases, data>>

\* Faulty: a dependency found by content is not remembered for its owner.
WriteDependencyUnnamed(w) ==
  /\ Goto(w, "writing", "attaching")
  /\ \E d \in deps \cup {w} :
       /\ deps' = deps \cup {d}
       /\ local' = IF d = w THEN [local EXCEPT ![w].ref = d] ELSE local
  /\ UNCHANGED <<stores, leases, generation, rooted>>

\* _save of a dependency: found by content, or inserted under a new sid.
WriteDependency(w) ==
  /\ Goto(w, "writing", "attaching")
  /\ \E d \in deps \cup {w} :
       /\ deps' = deps \cup {d}
       /\ local' = [local EXCEPT ![w].ref = d]
  /\ UNCHANGED <<stores, leases, generation, rooted>>

\* Insertion of the main document.
WriteMain(w) ==
  /\ Goto(w, "attaching", "saved")
  /\ rooted' = rooted \cup {local[w].ref}
  /\ UNCHANGED <<stores, local, leases, generation, deps>>

Writing(w) == pc[w] \in {"writing", "attaching"}

ReleaseWriter(w) ==
  /\ writerLease' = [writerLease EXCEPT ![w] = "absent"]
  /\ End(w)
  /\ UNCHANGED <<stores, fsckLease, data>>

SaveReturns(w) == pc[w] = "saved" /\ ReleaseWriter(w)

\* A save that raises leaves what it wrote and gives up its lease.
SaveFails(w) == Writing(w) /\ ReleaseWriter(w)

\* refresh_heartbeat at the start of every _save of the writer
Heartbeat(w) ==
  /\ Writing(w)
  /\ writerLease' = [writerLease EXCEPT ![w] = "fresh"]
  /\ UNCHANGED <<stores, pc, at, local, fsckLease, data>>
-----------------------------------------------------------------------------
(* fsck: acquire_fsck.                                                     *)

\* insert_one of the singleton, with a null heartbeat.
InstallFsck(f, s) ==
  /\ Begin(f, s, "installed")
  /\ ~FsckLocked
  /\ fsckLease' = [owner |-> f, beat |-> "null"]
  /\ UNCHANGED <<stores, local, writerLease, data>>

\* DuplicateKeyError: only a forced run goes on.
FsckDuplicate(f, s) ==
  /\ f \in Forced
  /\ FsckLocked
  /\ Begin(f, s, "replacing")
  /\ UNCHANGED <<stores, local, leases, data>>

FsckRefused(f, s) ==
  /\ f \notin Forced
  /\ FsckLocked
  /\ pc[f] = "new" /\ s \in open /\ \A p \in Ops : at[p] # s
  /\ End(f)
  /\ UNCHANGED <<stores, leases, data>>

(* find_one_and_update on a stale singleton.  force=True asserts that the  *)
(* owner of a lease that has expired is dead; a lease whose first          *)
(* heartbeat is yet to come matches too, and its owner is alive.           *)
ReplaceFsck(f) ==
  /\ Goto(f, "replacing", "installed")
  /\ FsckLocked /\ Replaceable
  /\ fsckLease.beat = "stale" => pc[fsckLease.owner] = "dead"
  /\ fsckLease' = [owner |-> f, beat |-> "fresh"]
  /\ UNCHANGED <<stores, local, writerLease, data>>

ReplaceRefused(f) ==
  /\ pc[f] = "replacing"
  /\ ~(FsckLocked /\ Replaceable)
  /\ End(f)
  /\ UNCHANGED <<stores, leases, data>>

\* Faulty: the refresh after the installation is rate-limited like the others.
FirstHeartbeatSkipped(f) ==
  /\ Goto(f, "installed", "draining")
  /\ UNCHANGED <<stores, local, leases, data>>

\* The forced refresh finds out whether the singleton is still this run's.
FirstHeartbeat(f) ==
  /\ Goto(f, "installed", "draining")
  /\ ~Displaced(f)
  /\ fsckLease' = [fsckLease EXCEPT !.beat = "fresh"]
  /\ UNCHANGED <<stores, local, writerLease, data>>

NoFreshWriters(f) ==
  /\ Goto(f, "draining", "drained")
  /\ FreshWriters = {}
  /\ UNCHANGED <<stores, local, leases, data>>

\* sleep, then a refresh; the loop queries again.
DrainAgain(f) ==
  /\ pc[f] = "draining"
  /\ FreshWriters # {}
  /\ ~Displaced(f)
  /\ fsckLease' = [fsckLease EXCEPT !.beat = "fresh"]
  /\ UNCHANGED <<stores, pc, at, local, writerLease, data>>

\* _stale_writer_documents: the second query for fresh writers ...
QueryAgain(f) ==
  /\ Goto(f, "drained", "comparing")
  /\ local' = [local EXCEPT ![f].fresh = FreshWriters]
  /\ UNCHANGED <<stores, leases, data>>

\* ... and the query for all of them.
StaleWriters(f) == LeasedWriters \ local[f].fresh

GrantFsck(f) ==
  /\ Goto(f, "comparing", "granted")
  /\ f \in Forced \/ StaleWriters(f) = {}
  /\ UNCHANGED <<stores, local, leases, data>>

StaleWritersRefuse(f) ==
  /\ pc[f] = "comparing"
  /\ f \notin Forced
  /\ StaleWriters(f) # {}
  /\ ReleaseFsck(f)
-----------------------------------------------------------------------------
(* fsck: run_fsck under the lease.                                         *)

BumpGeneration(f) ==
  /\ Goto(f, "granted", "marking")
  /\ generation' = generation + 1
  /\ local' = [local EXCEPT ![f].gen = generation + 1]
  /\ UNCHANGED <<stores, leases, deps, rooted>>

\* _mark follows references from the main documents.
Mark(f) ==
  /\ Goto(f, "marking", "sweeping")
  /\ local' = [local EXCEPT ![f].marked = rooted]
  /\ UNCHANGED <<stores, leases, data>>

(* _sweep deletes the unmarked dependencies, unless the caller wants no    *)
(* collection or some collection belongs to no known schema.               *)
Sweep(f) ==
  /\ Goto(f, "sweeping", "swept")
  /\ deps' \in {deps, deps \cap local[f].marked}
  /\ UNCHANGED <<stores, local, leases, generation, rooted>>

ForgetSwept(f) ==
  /\ Goto(f, "swept", "finished")
  /\ cache' = [cache EXCEPT ![at[f]] = {}]
  /\ known' = [known EXCEPT ![at[f]] = local[f].gen]
  /\ UNCHANGED <<open, local, leases, data>>

(* A pass refreshes the lease, and ends the run when it was displaced; any *)
(* other error ends it too, with the lease released.                       *)
FsckHeartbeat(f) ==
  /\ pc[f] \in {"marking", "sweeping", "swept"}
  /\ ~Displaced(f) /\ fsckLease.beat = "stale"
  /\ fsckLease' = [fsckLease EXCEPT !.beat = "fresh"]
  /\ UNCHANGED <<stores, pc, at, local, writerLease, data>>

LeaseLost(f) ==
  /\ pc[f] \in {"installed", "draining", "marking", "sweeping", "swept"}
  /\ Displaced(f)
  /\ ReleaseFsck(f)

FsckReturns(f) == pc[f] = "finished" /\ ReleaseFsck(f)

FsckFails(f) ==
  /\ pc[f] \in {"installed", "draining", "drained", "comparing", "granted",
                "marking", "sweeping", "swept"}
  /\ ReleaseFsck(f)
-----------------------------------------------------------------------------
(* Stores, readers, time and the administrator.                            *)

Running(o) == at[o] # None
Dead(o) == pc[o] = "dead"

\* The process ends or is killed; the lease of the operation it ran stays.
StoreDies(s) ==
  /\ s \in open
  /\ (\E o \in Ops : at[o] = s) => Cardinality({o \in Ops : Dead(o)}) < MaxDeaths
  /\ open' = open \ {s}
  /\ cache' = [cache EXCEPT ![s] = {}]
  /\ known' = [known EXCEPT ![s] = 0]
  /\ pc' = [o \in Ops |-> IF at[o] = s THEN "dead" ELSE pc[o]]
  /\ local' = [o \in Ops |-> IF at[o] = s THEN Blank ELSE local[o]]
  /\ at' = [o \in Ops |-> IF at[o] = s THEN None ELSE at[o]]
  /\ UNCHANGED <<leases, data>>

\* Opening reads the generation and looks for no lease.
OpenStore(s) ==
  /\ s \notin open
  /\ s \in Latecomers \/ ~FsckLocked
  /\ open' = open \cup {s}
  /\ known' = [known EXCEPT ![s] = generation]
  /\ UNCHANGED <<cache, pc, at, local, leases, data>>

(* fetch hydrates a document and remembers it; a read takes no lease.  A   *)
(* document in use is never swept, so only the others matter in a cache.   *)
Fetch(s) ==
  /\ s \in open
  /\ \E d \in deps \ rooted : cache' = [cache EXCEPT ![s] = @ \cup {d}]
  /\ UNCHANGED <<open, known, pc, at, local, leases, data>>

WriterExpires(w) ==
  /\ writerLease[w] = "fresh"
  /\ Dead(w) \/ w \in SlowWriters
  /\ writerLease' = [writerLease EXCEPT ![w] = "stale"]
  /\ UNCHANGED <<stores, pc, at, local, fsckLease, data>>

\* Some passes of fsck refresh nothing, so the lease of a live run expires too.
FsckExpires ==
  /\ FsckLocked
  /\ fsckLease.beat = "fresh"
  /\ fsckLease' = [fsckLease EXCEPT !.beat = "stale"]
  /\ UNCHANGED <<stores, pc, at, local, writerLease, data>>

\* The administrator vouches that the owner of an expired lease is dead.
ClearStaleLock ==
  /\ FsckLocked /\ Replaceable
  /\ fsckLease.beat = "stale" => Dead(fsckLease.owner)
  /\ fsckLease' = [owner |-> None, beat |-> "null"]
  /\ UNCHANGED <<stores, pc, at, local, writerLease, data>>
-----------------------------------------------------------------------------
Save(w) ==
  \/ WriterBlocked(w) \/ WriterAdmitted(w) \/ WriteDependency(w)
  \/ WriteMain(w) \/ SaveReturns(w)

AcquireFsck(f) ==
  \/ ReplaceFsck(f) \/ ReplaceRefused(f) \/ FirstHeartbeat(f)
  \/ NoFreshWriters(f) \/ DrainAgain(f) \/ QueryAgain(f)
  \/ GrantFsck(f) \/ StaleWritersRefuse(f)

RunFsck(f) ==
  \/ BumpGeneration(f) \/ Mark(f) \/ Sweep(f) \/ ForgetSwept(f)
  \/ FsckHeartbeat(f) \/ LeaseLost(f) \/ FsckReturns(f)

Next ==
  \/ \E w \in Writers :
       \/ \E s \in Stores : RegisterWriter(w, s)
       \/ Save(w) \/ SaveFails(w) \/ Heartbeat(w) \/ WriterExpires(w)
  \/ \E f \in Fscks :
       \/ \E s \in Stores : InstallFsck(f, s) \/ FsckDuplicate(f, s) \/ FsckRefused(f, s)
       \/ AcquireFsck(f)
       \/ RunFsck(f) \/ FsckFails(f)
  \/ \E s \in Stores : StoreDies(s) \/ OpenStore(s) \/ Fetch(s)
  \/ FsckExpires
  \/ ClearStaleLock

Spec == Init /\ [][Next]_vars

(* Calls in progress go on until they return and none is obliged to fail;  *)
(* time passes for the lease of a dead writer.  Nothing obliges a caller   *)
(* to start a call.                                                        *)
Fairness ==
  /\ \A w \in Writers : WF_vars(Save(w)) /\ WF_vars(WriterExpires(w))
  /\ \A f \in Fscks : WF_vars(AcquireFsck(f)) /\ WF_vars(RunFsck(f))

FairSpec == Spec /\ Fairness
-----------------------------------------------------------------------------
(* Properties.                                                             *)

WriterStates == {"new", "registered", "writing", "attaching", "saved"}
FsckStates == {"new", "replacing", "installed", "draining", "drained", "comparing",
               "granted", "marking", "sweeping", "swept", "finished"}
Ended == {"ended", "dead"}

\* The types of the variables.
TypeOK ==
  /\ open \subseteq Stores
  /\ known \in [Stores -> Nat]
  /\ cache \in [Stores -> SUBSET Sids]
  /\ pc \in [Ops -> WriterStates \cup FsckStates \cup Ended]
  /\ at \in [Ops -> Stores \cup {None}]
  /\ local \in [Ops -> [gen : Nat, fresh : SUBSET Writers,
                       marked : SUBSET Sids, ref : Sids \cup {None}]]
  /\ writerLease \in [Writers -> {"absent", "fresh", "stale"}]
  /\ fsckLease \in [owner : Fscks \cup {None}, beat : {"null", "fresh", "stale"}]
  /\ generation \in Nat
  /\ deps \subseteq Sids
  /\ rooted \subseteq Sids

Exclusive(f) == pc[f] \in {"granted", "marking", "sweeping", "swept"}

(* From the moment acquire_fsck returns until the sweep is over, no writer *)
(* is between its admission and its last insert.                           *)
FsckExcludesWriters ==
  \A f \in Fscks, w \in Writers : Exclusive(f) => ~Writing(w)

(* Two fsck runs never work at once, although a forced run may take the    *)
(* singleton of a run that has installed it and not yet sent a heartbeat.  *)
OneFsck ==
  \A f, g \in Fscks : Exclusive(f) /\ Exclusive(g) => f = g

(* A sweep never deletes a dependency that a save has found or written and *)
(* goes on to refer to: every reference in a main document resolves.       *)
ReferencesResolve == rooted \subseteq deps

(* A store that was not opened in the middle of an fsck no longer holds a  *)
(* swept document in its identity cache once a save of it is admitted      *)
(* (_observe_generation).                                                  *)
SavesObserveSweeps ==
  \A w \in Writers :
    Writing(w) /\ at[w] \notin Latecomers => cache[at[w]] \subseteq deps

(* Leases are not leaked: a lease document belongs to an operation that is *)
(* still running, or whose process died.                                   *)
LeasesOwned ==
  /\ \A w \in Writers : writerLease[w] # "absent" => Running(w) \/ Dead(w)
  /\ FsckLocked => Running(fsckLease.owner) \/ Dead(fsckLease.owner)

(* The drain ends: writers that arrive while the singleton is installed    *)
(* turn back, and the leases of dead ones expire.                          *)
DrainEnds == \A f \in Fscks : []<>(pc[f] # "draining")

(* What acquire_fsck says of a run without force, whatever the pace of the *)
(* writers: "stale writer leases require fsck(force=True) to override".    *)
OrdinaryFsckExcludesWriters ==
  \A f \in Fscks \ Forced, w \in Writers : Exclusive(f) => ~Writing(w)

(* What docs/details/mongo.md says of every live process: it may serve     *)
(* cached instances of swept documents "until its next write observes the  *)
(* generation bump".                                                       *)
NextSaveObservesSweeps ==
  \A w \in Writers : Writing(w) => cache[at[w]] \subseteq deps
=============================================================================
