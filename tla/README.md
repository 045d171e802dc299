# A TLA+ development of httk-store

`httk-store` keeps typed scientific records in SQL databases (SQLite, DuckDB,
PostgreSQL, ClickHouse) or in MongoDB, gives entries stable ids through a signed
ledger file, and serves and queries them through OPTIMADE. This directory holds
TLA+ models of the parts of it that coordinate: who may write, what a crash
leaves behind, what a reader may see, and whether the two translations of a
query mean the same. Each model is checked on small instances with TLC, and the
properties that matter most are proved with TLAPS for every value of the
constants.

Paths below are relative to `src/src/httk/store/` unless they say otherwise.

## 1. Inventory

| Part | State | Operations | What is hard |
|---|---|---|---|
| **Id ledger** `id_ledger.py` | an SQLite file (records, segments), a `.lock` file, one object per session | `create`, `open` (write, read-only), `assign`, `alias`, `close` | several processes, crash at any step, a reader without lock, the retry of a failed close |
| **Mongo leases** `backend/mongo/leases.py` | lease documents with heartbeats, the layout generation | `acquire_writer`, `acquire_fsck`, `refresh_heartbeat`, `release`, `clear_stale_lock` | a handshake by polling, expiry, forced replacement, no fencing |
| **Mongo store** `backend/mongo/store.py` | documents with a role (main, dep), identity claims, dispatch documents, sid counters, links, per-process identity caches | `save`, `replace`, `transaction`, `fetch`, `link`, `retract` | degraded mode without transactions: every insert is a crash point; two saves racing to one content id; retries |
| **Mongo fsck** `backend/mongo/fsck.py` | the same, exclusively | integrity pass, mark, sweep, reconciliation of claims | deletes what it believes unreachable, under a lease that can be lost |
| **SQL store** `backend/sql/store.py` | tables with sid, logical id, alternative id, role; ownership of entry ids; pending tables; transaction stack; caches | `save`, `replace`, `transaction`, `link`, `fsck` | rollback has to undo process state too; nested scopes; threads |
| **SQL degraded profile** `backend/sql/store.py` | a `lease` row, `dirty:<table>` rows | the same, in autocommit | a lease that is stolen or released under a running operation; sweep of residue |
| **Store clock** `store_timestamp.py` | a high-water mark per process | capture, advance | clocks that go back, several processes |
| **Bulk ingest** `backend/sql/bulk.py`, `bulk_deferred.py`, `bulk_parallel.py` | ingest marker, staging tables, provisional sids, worker queues | enter, `save`, flush, finalize, exit | each failure has its own clean-up; workers die |
| **ClickHouse fences** `backend/clickhouse/support.py` | KeeperMap rows: lease, ingest marker, bootstrap lock | strict insert, exact delete | a statement can land although the client saw it fail |
| **Federation, paging, remote client** `federated_store.py`, `query/paging_tokens.py`, `optimade/client.py` | frozen plans, a count cache, continuation tokens, a learned page size | iterate, slice, count, next page | arithmetic of offset and limit over several sources, sources that change |
| **Layout** `storage_layout.py`, `backend/sql/layout.py` | markers in the metadata table | initialize, validate, upgrade | a crash or a second process in the middle |
| **Weak links** `backend/sql/store.py`, `backend/mongo/store.py` | append-only link and retraction rows, by lineage | `link`, `unlink`, `linked` | calls that overlap leave several lineages of one pair |
| **Searchers** `backend/sql/searcher.py`, `backend/mongo/searcher.py` | the expression put together so far | combine, negate, execute | negation over child rows and nulls, in two translations |
| **Serving**: codecs, entry providers, OPTIMADE filters, export | none | functions of their input | not a matter of states; not modelled |

How they interact. A store owns a database connection and is the only way in for
saves, transactions and fsck; bulk ingest borrows the store's lock and its
lease. Writers of one MongoStore database, or of one degraded SQLite file, are
separate processes that meet only in the database, through lease documents or
the lease row; every store caches hydrated records and learns from a generation
number (Mongo) or from its own rollback (SQL) when to drop them. fsck is a
writer with exclusive claims. The ledger is a file beside the stores, used while
an entry catalogue is built. Federations, pages and remote clients only read.

`PROJECT.json` lists the components with their status, and the hazards: the
places in this code where a step of another process, a crash, a retry or a
boundary could go wrong in a way the tests would hardly reach. Properties exist
for the sake of hazards.

## 2. Modules

| Module | What it is |
|---|---|
| `IdLedger` | the ledger file, its lock and its sessions |
| `IdRegistry` | abstract: an atomic registry of ids, which `IdLedger` implements |
| `MCIdLedger` | its instances |
| `IdLedgerProofs` | proofs about `IdLedger`, and that it implements `IdRegistry` |
| `MongoLeases` | writers, fsck runs, leases, mark and sweep, identity caches |
| `MCMongoLeases` | constants of its instances |
| `MongoLeasesProofs` | proofs about `MongoLeases` |
| `SqlDegraded` | the degraded profile of `SqlStore`: lease, markers, ordered writes, fsck |
| `MCSqlDegraded` | its instances |
| `SqlDegradedProofs` | proofs about its lease and its tables |
| `NumberFacts` | lemmas on sets of numbers: least and greatest elements, induction |
| `SqlTransactions` | the transactional profile of `SqlStore`: saves, replacements, alternatives, transactions, caches, fsck |
| `MCSqlTransactions` | constants of its instance |
| `SqlTransactionsProofs` | proofs about `SqlTransactions`: its types, caches, returns and timestamps |
| `SqlIdentityProofs` | proofs about who owns what in `SqlTransactions`, and that what it commits is whole |
| `MongoSave` | saves of `MongoStore` and the repairs of its fsck |
| `MCMongoSave` | its instance |
| `MongoSaveProofs` | proofs about `MongoSave` |
| `BulkIngest` | serial, parallel and deferred bulk ingest |
| `MCBulkIngest` | constants of its instances |
| `MCSqlStore` | one instance of `SqlTransactions` and `BulkIngest` |
| `MCWaits` | one instance of `MongoLeases` and of the waits of `BulkIngest`, under fairness |
| `StoreOpening` | the first opening, later openings, upgrades, and the fenced ingest of ClickHouse |
| `Searching` | expressions in SQL and in MongoDB, and the weak links they follow |
| `ResultPages` | continuation pages of a result set |
| `Federation` | searches and pages of entries over several stores |
| `MCStores` | one instance of `StoreOpening`, `Searching`, `ResultPages` and `Federation` |
| `StoresProofs` | proofs about `StoreOpening` and `ResultPages`: a store that opens is whole, pages partition the rows |

The modules of one MC module share no state, and in each behaviour one of them is
active: a run of several is as good as a run of each.

Operators with a comment that begins with "Faulty" are mistakes the code could
have made. No specification uses them; putting one in the place of the operator
it imitates must break the property `PROJECT.json` names beside it.

### 2.1 The id ledger

State. `exists`, `rows` and `segments` are the container file, `lock` the name
in the `.lock` file, `session` the `IdLedger` object of each process (its
records, `_persisted`, `_segments`, `_dirty`, bases), `scan` the segments a
read-only open has fetched, `pc` the call a process is in.

Actions follow the statements that other processes can see: `AcquireLock`
(`O_CREAT|O_EXCL`), the existence check of `create` under the lock
(`NoContainer`, `CreateRefused`), `LayDownSchema`, the transaction that appends a
segment (`CreateCommits`, `CloseCommits`), `Unlock`; `OpenForWrite` reads and
validates everything; `Assign` and `Alias` work in memory; a read-only open is
two steps, `ScanSegments` and `ScanRecords`, because the code issues two SELECTs
outside a transaction. `Crash` takes a process out of any state and leaves the
file and the lock; `BreakLock` is the operator who deletes the lock of a process
that has died. `CreateFails`, `OpenRefused` and `Refuse` are the error paths.

`Valid` is what `_read_and_validate` accepts: numbers in the base of their
family, unique ids, sound aliases and supersessions, segments that partition the
records and whose signed body matches them.

Abstractions. A signature is good exactly when its body matches; keys and trust
are folded into `Signers` and the nondeterministic `OpenRefused`. An id is a base
and a number. COMMIT and the three assignments after it are one step (the code
comments on the interrupt between them). Lookups (`get`, `bindings`) keep no
state.

`IdRegistry` has one registry (which key each id was minted for, which id each
key is bound to) that processes read in one step and publish to by
compare-and-swap on what they read; publishing only adds owners, never reuses a
number and never unbinds a key. `IdLedger` implements it (`ImplementsRegistry`),
the registry being what the committed rows say and a view what a session had
read.

### 2.2 Mongo leases, fsck and the identity caches

State. `writerLease` and `fsckLease` are the lease documents. The protocol
compares heartbeats with the server's clock and an expiry, so a heartbeat is
"fresh", "stale" or, for the singleton before its first refresh, "null";
`generation` is the counter in the layout document. `open`, `known` and `cache`
are the processes: whether one is up, its `_last_generation`, and what its
identity cache holds. `deps` and `rooted` are the guarded data: dependency-role
documents, and those that some main document refers to. `pc`, `at` and `local`
are the operations in progress; each save and each fsck is one element of
`Writers` or `Fscks`, since each draws a fresh uuid.

Actions. A save: `RegisterWriter` (upsert of the lease), `WriterBlocked` or
`WriterAdmitted` (one find returns the singleton and the layout),
`WriteDependency` (found by content or inserted), `WriteMain`, `SaveReturns`,
with `Heartbeat` in between and `SaveFails` at any point. An fsck:
`InstallFsck`, or `FsckDuplicate`, `FsckRefused`, `ReplaceFsck`,
`ReplaceRefused` when the singleton is there; `FirstHeartbeat`; the loop
`NoFreshWriters`/`DrainAgain`; `QueryAgain` and `GrantFsck` or
`StaleWritersRefuse` for the second look at the writers; then `BumpGeneration`,
`Mark`, `Sweep`, `ForgetSwept`, `FsckReturns`, with `LeaseLost` and `FsckFails`.
Around them: `StoreDies`, `OpenStore`, `Fetch`, expiry, `ClearStaleLock`.

What the environment may do is where this model makes decisions:

- A live writer's heartbeat expires only if it is in `SlowWriters`; the heartbeat
  of a dead one always may. The heartbeat of an fsck may expire while it lives,
  because several of its passes refresh nothing.
- `force=True` and `clear_stale_lock` are, in the words of the code,
  "an administrative assertion that those owners are dead". So an *expired*
  singleton is replaced or cleared only when its owner is dead. A singleton with
  a null heartbeat also matches the query, and for it the model asks nothing: no
  administrator can tell an owner that has just started from a dead one.
- `Latecomers` are stores that may be opened while fsck runs.

Abstractions. A cache entry matters only for a document no main document refers
to, since others are never swept. Mark and sweep are one step each: no writer
runs then, which is the property proved. A fetch is one step, so a store is used
by one thread at a time. The integrity pass, the reconciliation of ownership and
the clamp come with `MongoSave`. The upgrade path of `MongoStore.__init__`, which
takes the fsck lease without bumping the generation, is left out.

### 2.3 The degraded profile of the SQL store

State. The database: `lease` is the value of the `lease` row, `marker` of the
`dirty:<table>` rows, `counter` is `_httk_sid_counters`, `rows` are parent rows
(content, sid, role, references), `kids` the rows of child tables, `claims` the
ownership rows of entry ids, `dispatch` the dispatch rows. The processes: `holds`
says whose `_lease_value` is set, `observed` what a steal has read, `up` which
stores are neither disposed nor dead. Operations: `pc`, `at` (the store that runs
it), `job` (the call stack of `_save_active` as a stage per record, reserved and
found sids, what fsck has marked and has still to collect), `touched`.

A record is a content with a type, references, and items that become rows of a
child table; an item may be a record itself. `AcyclicAssumption` says that no
record is part of itself, at any depth, and that there are finitely many; the
save of an object that reaches itself is refused (`store.py:2110`). Actions follow the durable
statements. A save: `StartSave`, `Descend` into each reference, `Promote` for a
top-level record found by content, `Reserve` a sid, `Descend` into element
records, `TouchChildTable`, `WriteKid` row by row, `ClaimEntry`, `WriteParent`,
`WriteDispatch`; `SaveFails` anywhere; then `ClearMarker` for each table and
`EndOperation`. An fsck: `StartFsck`, `RepairAndMark`, `CollectType` for each
type, `SweepChildren`, `SyncClaims`. Around them `ReadForSteal` and `Steal` (the
compare-and-swap), `StealFree`, `Dispose`, and `Die`, possible before every step
of an operation. `Refused` is the operation that finds the lease lost or taken.

What the environment may do:

- A steal replaces the lease of a store that is not in an operation: dead, or
  idle for now and refused when it next starts one. The documentation reserves
  the call for when "recovery authority is clear"; nothing in the code stops a
  thief from writing beside a victim in mid-operation.
- A store may die in a save. Whether it may die in fsck is `FsckDies`: the
  passing run says no, and `sql_degraded_fsck` shows what happens otherwise.
- The model has no SQL errors of its own; `SaveFails` stands for every exception
  of a save. An fsck that raises is no different from one that dies, but for its
  markers.

Abstractions. A lease value names its store, so a store opens once. The steps
that take several statements without a choice between them are one step:
`_touch_dirty_table` with its sweep, acquisition with its read-back, the two
claims of an entry, release and marker deletion of one table, mark. In each of
them a crash in between leaves what a crash before the step leaves, or a marker
that causes the same sweep again. Entry types are those with enforced ids and a
dispatch table. Creation of tables, timestamps, by-value records, alternatives
and `replace` are left out, and so is `transaction()`, which in this profile only
groups saves under one hold of the lock.

### 2.4 The transactional profile of the SQL store

State. The database: `rows` are parent rows with what they own (content key,
references, elements, lineage `kin`, alternative `group` and `kind`, entry id and
immutable id, timestamp), `mains` the rows whose role is main, `claims` the
rows of the two ownership tables (an id of one group in one backing, an immutable id
of one row; in both the id is unique and so is the owner), `dispatch` the rows of the entry family. Each carries in `by` the
open transaction that wrote it. The processes: `tx` is the transaction of a store
(`"lost"`: rolled back while its block still runs), `op` the call in progress,
`stack` its `_save_active` frames, `stamp` the captured timestamp, `cache` the
identity caches, `held` a lazy row in the caller's hands, `mark` the
high-water mark of timestamps.

Actions follow the statements of a save, since other transactions commit between
them: `Lookup` by content, with `Hit` (metadata comparison, promotion, the
refusal of a replacement that would fall together with another lineage);
`Prepare` (the checks of entry ids); `Discard` and `HitLate` (the content was
stored meanwhile, or a by-value row agrees in all columns); `Insert`; `Claim`;
`WriteKids`; `WriteDispatch`. A frame goes down into the next reference or element
by itself (`GoOn`). `StartSave`, `StartAlternative` and `StartReplace` begin a
call and with it a transaction, of that call alone or of a `transaction()`
block; `Commit`, `Abort`, `Raise`, `RaiseConflict` (an id conflict rolls the whole
transaction back at once) and `Caught` (the caller swallows an exception inside
the block) end it; `Reopen` is the death of a process. `Fsck` is one step.

The two engines differ in what the environment may do. On SQLite whoever has
written holds the write lock and sids are `max + 1`, so a rolled-back sid comes
again; on PostgreSQL writers overlap, an insert waits for another transaction's
row of the same key (`InsertWaits`, `ClaimWaits`, `DispatchWaits`), and a sequence
never gives a sid twice. `GiveUp` is the deadlock or lock timeout.

Abstractions. Content identity is a constant of each object; the policy says
whether it is enforced by a unique index, compared by columns, or not at all.
`Earlier` are rows of former sessions: committed, finitely many, numbered from 1 in
the order of their inserts, with unique contents and ids, groups within one table, and
the first row of every alternative's lineage, all of them main rows, each with the
rows of what it refers to and of its elements
(`EarlierAssumption`; its clauses on owners and on parts are those that `Ownership`
and `Wholeness` show of what this code commits). `Depth` says how deep the parts of
a content are nested, at most as deep as there are objects (`PartsAssumption`): a
content identity includes the contents of its parts, and `_save` refuses an object
that is part of itself (`backend/sql/store.py:2107-2109`). It leaves out a by-value
record that agrees in all columns with one inside it. An alternative and a
replacement are of the record type of the row that they follow. `None` is no store, object,
call or lazy row (`TransactionsAssumption`). The clock may show anything each time it is
read. Sids of a table of one type stand for all tables. A store is used by one
thread. Creation of tables, the grace sleep, foreign registrations and the repairs
of fsck are left out.

### 2.5 Saves of MongoStore and the repairs of fsck

State. `db` maps keys to values: a document by collection and sid, its entry in
the unique content index, a dispatch document, an identity claim, the sid counter
of a collection. `txn` is the transaction of a store, its snapshot and its
writes; `op` the save in progress; `known`, `seen` and `gen` are the identity
caches and the layout generation; `fsck` is the run in progress.

On a standalone server every insert is durable by itself, and a save may fail or
die between any two: sid, claims, document, dispatch. Whoever loses the race to
the content index takes the winner's document (`Insert`). On a
replica set the save is a transaction that is run again, at most `Attempts`
times, when it conflicts or meets a key that another has inserted, or belongs to a
transaction of the caller; what it inserted for a record that proves to be stored
it takes back (`Undone`). An id that another document has claimed ends the save
(`ClaimIdentity`): the duplicate key aborts the transaction, so that its caller cannot go
on. fsck puts dispatch documents back, marks from the main documents, sweeps, and
reconciles claims. The leases that keep both apart are those of `MongoLeases`,
which this module takes for granted.

Assumptions on the constants. A content identity takes in those of what a record
refers to, so that no record is a part of itself (`PartsAssumption`); by-value records are
ranked with them. A deployment is a standalone server or a replica set, and `Attempts` is at least
one (`SaveAssumption`). `None` is no value of a key (`NoneAssumption`).

### 2.6 Bulk ingest

State. `enc` holds what the encoders have in memory (of the process itself and of
each worker), `queue` and `worker` the bounded queues and the workers, `rows`,
`dispatch`, `tables` and `marker` the database, `work` the transaction of the
ingest, `returned` and `resolved` what the caller was given.

Serial parity looks each chunk up when it is flushed and remaps sids; parallel
parity lets workers encode without knowledge of each other, then collapses equal
contents, sweeps what only dropped rows reached, renumbers and promotes; deferred
finalization does this with maps beside the tables. The properties compare the
outcome with a loop of `save()` over the same calls, which the module defines
independently (`Shapes`, `RefusesWhatSavesRefuse`). Workers may be killed; a
killed or failing one ends the ingest with its clean-up.

### 2.7 Opening, upgrading and fenced ingest

State. `db` is what is durable (tables, columns, stamps, records, claims, lease,
fence, ingest marker, stage), `tx` what a transaction sees, `proc` the processes,
each with the steps it has still to do. An opening is a sequence of steps:
`Bootstrap`, `Ownership` (the upgrade that claims an identity for every record)
and `Additive` (new tables and nullable columns). Whether a step is durable at
once depends on the deployment (`Durable`): PostgreSQL rolls an opening back as a
whole, SQLite what follows its first statement on rows, the others nothing; then
`DropMade` is the clean-up of what the failed opening created. The upgrade of a
degraded store and of a ClickHouse store runs under the writers' lease, that of
MongoDB under the lease of fsck. ClickHouse has no table of claims: there the upgrade
only compares the records' identities before it marks the ownership.

In a ClickHouse store statements fail in three ways: not executed, executed
although the client saw an error (`FaultLanded`), or executed later (`LateLands`).
The ingest writes its marker under the lease, creates its relations, loads a stage,
projects it, verifies and clears the marker; `Undo` is its clean-up, which drops what
the ingest knows to be its own (`built`). `LoadShard` and `Reload` are the load of a
shard with its count before and after: a failed insert may be there in whole, in part
or not at all, or come later; where the rows cannot be counted the load
is taken to have failed cleanly. Projection adds the rows of the stage to what is there
and compares the count. `Recover` is the operator who removes a lease or fence of a
holder that is dead.

Abstractions. A schema fingerprint is a version; an id stands for all identities
of a record; a lease whose insert landed unseen belongs to nobody. A database may begin
empty or as a store from before identities were claimed, and in the profiles with a
lease also with that of a writer who died.
`FaultsAt` names the steps whose failure is allowed. `stores` leaves out failures whose
clean-up drops a store that another process has opened in the meantime (the second
table and the stamps on PostgreSQL, the end of the fence on ClickHouse):
`_cleanup_initialization_tables` drops the tables it has created by their names,
whoever uses them by now. `FaultsLeaveNothing` is the hypothesis of the proofs that
leaves this out. A profile
that has landed although its insert failed, whose clean-up may meet an open store
in the same way, is no step of `FaultLanded`.

### 2.8 Searches and weak links

State. `expr` is the expression a client has put together, `scope` the cutoff and
the revisions its searcher sees; `links` and `writing` are the link table and the
transactions of two writers.

`SqlAnswer` evaluates what `SqlColumn`, `SqlExpression` and `SqlSearcher` render:
a WHERE clause per joined row, grouped, and a HAVING clause over the group, with
SQL's three values. `MongoAnswer` evaluates what `MongoField` and `render_node`
render: for each node a filter for its truth and one for its falsity, over
documents with looked-up links. `Meant` is the reference definition: what the
expression says of the values themselves, at the cutoff.

`link` and `unlink` read the latest rows of a pair, append, and commit. Only
SQLite's write lock keeps two of them apart; on MongoDB the counter of the
collection makes one of two conflict, if both insert.

### 2.9 Pages and federations

`ResultPages` keeps the rows of a live query (`status`), the page being fetched
and the rows of the pages a client went through in one direction. `SortsBefore`
is the ORDER BY and `$sort`, `InOrder` what it makes of a set of rows (each in the place
given by how many come before it), `Past` the seek predicate, `Token` what a token
carries, `ReadBatch` the loop that collects verified candidates. What a token keeps
of a row is not always what the row is sorted by: `_page_anchor` of MongoDB looks every
key up among the fields of the record, and the scalars that the store manages
itself (`logical_id`, `store_timestamp`, `alt_kind`) are not there (`PageAnchor`).
`Anchored` says of a query that its tokens hold its keys. Values of order keys are
integers or missing: only their order matters. The reference
order (`Ahead`) is stated separately. Rows come and go between two reads.

`Federation` has two halves. A federated searcher (`builder`) with conditions,
offset and limit is frozen into a plan, sliced and counted; `asked` is what the
same calls leave of the concatenation of all sources. Served pages fix a cutoff
with the first page; counts and fetch are separate reads, and records are saved
between them. `BeginSave` captures the timestamp of a transaction from its store's
clock, `CommitSave` makes it visible, and time, counts and pages go on in between.
A page without a sort takes the rows of a source in whatever order its database gives
them, another one for each page. `Audit`, `NextBatch` and `PopIds` are the merge of id-only
batches that looks for duplicates. Bounds: one transaction at a time saves to
a source, and it saves one record; nothing is committed to a source without timestamps
while pages are served from it; no time passes in an audit.

## 3. Runs

| Run | Instance | Result |
|---|---|---|
| `id_ledger` | 2 processes that can sign, 2 keys, 2 families, 3 base maps (one, its extension, one with a clash), up to 4 records and 3 segments | passes, 141,507 states |
| `id_ledger_reader` | a process with a key and one without, 1 key, up to 2 records | `ReadOnlyOpenSucceeds` is violated |
| `mongo_leases` | 2 stores, 2 saves, 2 fsck runs (one forced), one death of an operation, one latecomer; and an ingest of 4 calls, chunks of 1, 2 workers, two of them killed | passes, 455,626 states |
| `mongo_leases_slow` | one fsck without force, one slow writer, no crash | `OrdinaryFsckExcludesWriters` is violated |
| `mongo_leases_late` | one fsck, one store opened late | `NextSaveObservesSweeps` is violated |
| `sql_degraded` | 3 stores, 2 saves and 1 fsck, an entry with a dependency, a scalar item and an item that is an entry of its own type | passes, 663,770 states |
| `sql_degraded_fsck` | the same operations on an entry that refers to `a` and `b`, and `a` to `b`; death in fsck | `VisibleMeansComplete` is violated |
| `sql_store` | 2 stores, 2 calls out of 6 saves, a replacement and an alternative, or a garbage collection; SQLite and PostgreSQL; and an ingest of 3 calls out of 9, chunks of 2, 2 workers, queues of 1, one worker killed; six modes | passes, 852,735 states |
| `mongo_save` | 2 stores, 2 saves of 5 objects and one after each fsck, one failure or death, one fsck; standalone and replica set | passes, about 873,000 states |
| `stores` | see below | passes, 587,550 states |
| `pages_managed` | the pages of `stores`, all queries | `EveryWalkPartitions` is violated |
| `federation_snapshot` | the served pages of `stores` | `SnapshotKept` is violated |

`id_ledger` checks that the lock names whoever writes (`LockOwned`), that
sessions and file agree (`SessionCurrent`), that what is committed would be
accepted by the next open (`DurableValid`) and is never rewritten
(`AppendOnly`), that the ledger is an atomic registry (`ImplementsRegistry`) and
that sessions end (`SessionEnds`). Two processes suffice for every interleaving
of a lock with one holder; four records and three segments make a
supersession, an alias, an extension of the base map and a second append to a
non-empty container possible. `MaxRows` and
`MaxSegments` bound the records of a session and the segments of a container.

`mongo_leases` checks `FsckExcludesWriters`, `OneFsck`, `ReferencesResolve`,
`SavesObserveSweeps`, `LeasesOwned` and `DrainEnds`. Two saves let one find the
other's dependency; two fsck runs of which one is forced let the singleton be
displaced in each of its states; `MaxDeaths` bounds the operations that die with
their process (idle processes die and reopen without bound). Operations are
one-shot, so the system may stop when all have ended, and the runs do not look
for deadlock. In the other behaviours of the run a SQL ingest goes on, and ends
whatever happens to its workers (`IngestEnds`): both parts are about waits that must
come to an end, and share nothing else. With chunks and queues of one task a save has
to wait for room at its third call.

`sql_degraded` checks `OneWriter`, that what main and dispatch rows reach is there
with exactly its own child rows (`MainsComplete`), that residue of crashes is
swept before a table is written (`CrashResidueSwept`), that claims and rows stay
in step (`ClaimsSound`), and that what a save returned stays (`SavesStay`). Two
saves let one die at every step and another meet its residue, or follow fsck;
three stores let a third take the lease between the two halves of a steal. The
element of the entry's own type makes a nested save use a table the outer save
has already marked. One fsck is enough for a collection before, between or after
the saves. Operations are one-shot and stores end, so deadlock is not looked for.

`sql_store` checks that a committed row comes with all it refers to
(`CommittedWhole`) and that contents, ids and alternatives belong to one row, group
and lineage (`IdentitiesOwned`; together `CommittedSound`), that caches and lazy rows outlive no rollback (`CachesTrue`), that what a committed save returned is a main row of its
lineage (`SavesKept`), and that a store's timestamps never go back
(`StampsAdvance`). Two calls are enough for each pair that races or shares a
transaction; the objects are chosen so that a reference, an element, a by-value
record, a given id, a metadata conflict and a supersession each occur. Two ticks
of the clock show a regression. Nobody is obliged to call, and when the calls are
made the system stops, so deadlock is not looked for; `GiveUp` stands for the
engine's own detection. A garbage collection beside a save in progress is not in the
run (`FsckOnline = FALSE`; see the disagreements).

In the other behaviours of `sql_store` an ingest runs. It checks that an ingest does
what a loop of `save()` over the same calls
would do (`IngestsLikeSaves`): it has stored the same (`CommitsWhatSavesStore`), the
sids it returned and resolves lead there (`HandlesResolve`), so do dispatch rows
(`DispatchesResolve`), and it refuses only what saves would refuse
(`RefusesWhatSavesRefuse`); and that a failed ingest leaves either nothing or its
marker (`NoPartialStore`). Three calls with
chunks of two make a duplicate within a chunk, across chunks and across workers.

`mongo_save` checks that documents have what they refer to and entries own their
identities (`DocumentsWhole`, of the parts `ReferencesWhole` and `IdentitiesOwned`),
that what a save returned stays (`SavesStay`), that caches name what is stored
(`CachesTrue`) and that fsck leaves dispatch documents and claims complete
(`FsckRestores`). The objects make each race occur: two entries with one given
id, two objects of one by-value record, a dependency that two records share. fsck
may die in its repairs and after its end, not within its sweep: the collections
are swept one after another, and a death there leaves the state that
`sql_degraded_fsck` shows for SQL. Calls run out, so deadlock is not looked for.

`stores` runs four modules that share no state, in each behaviour one of them:

- `StoreOpening`: 2 processes that open twice each, any of three schema versions
  (the second and the third extend the first, each in its own way), on five deployments,
  with 2 failing statements among those of `FaultsAt`, one death, 3 records and 2 ids. A
  database may begin empty or as an older store, with or without two records of one
  id and with or without the lease of a writer who died. It checks (`StoresWhole`) that what an
  opening would accept is complete (`MarkedWhole`), that stores open to writers hold
  no identity twice (`IdentitiesOwned`) and that a store that opens holds an ingest in whole
  or not at all (`NoPartialStore`). That an open store is not taken away is not
  among them, because it may be: see `CleanUpHarmless` and `UpgradesBenign` below.
- `Searching`: expressions of up to 4 nodes over 25 atoms, 6 rows, 3 rows they refer
  to, 6 link rows and 3 scopes (`FiltersAgree`); and 3 calls of `link` and `unlink` by 2
  writers on one pair, two ticks of the clock, on three engines (`SavesStay`: the last call
  that ran alone decides). Four nodes give a negated combination of two predicates,
  or three predicates in one.
- `ResultPages`: 7 rows with missing and equal keys, two inserted late and one that
  goes, five queries with tokens handed from one to the other, one of them by a
  scalar that the store manages in each engine, and three that are
  refused, pages of 1 and 2 (`PagesPartition`, of queries that are `Anchored`; of the
  MongoDB query that is not see `pages_managed`).
- `Federation`: 3 sources with 3, 0 and 3 rows, limits and offsets up to 3, two
  conditions, two slices, failing counts; and 4 streams with clocks of resolution 2, 2,
  3 and none, 2 ids, one or two versions each, 3 sorts, 3 saves in 4 instants, pages of one entry
  (`FederationAgrees`). One save races an audit. `SnapshotServed`, the part of it that is about served
  pages, holds when nothing with a timestamp before the cutoff was being saved as the
  first page was asked for, whatever begins, commits or is caught between
  counts and fetch after that; what happens otherwise is `federation_snapshot`.

Processes, walks and calls run out in each of them, so deadlock is not looked for.

The runs that end in a violation are statements of the documentation that
the code does not keep; `PROJECT.json` quotes them:

- a read-only open beside a committing writer may report a corrupt ledger;
- fsck without `force` may run beside a live writer whose heartbeat was late;
- a process started during fsck does not notice the sweep at its next save;
- a store that dies while fsck collects may leave a visible dependency that
  refers to a deleted one, and a later save builds on it;
- a MongoDB query paged by `logical_id`, `store_timestamp` or `alt_kind` leaves out
  all rows after its first page (`backend/mongo/results.py:419`);
- a save that captured its timestamp before the cutoff of a federated list and commits after
  its first page enters the list (`backend/sql/stored_federation.py:440-442`).

### Disagreements met while modelling

These came up while the models were written; the instances avoid them, and no run
is about them.

- Searches: `~root.is_in(x)` of a null field is true in SQL and unknown in MongoDB
  (`tests/test_db_searcher.py:308-310`, `tests/test_mongo_searcher.py:87-89`);
  `Meant` takes the difference as a parameter. Comparing a child field with `None`
  and `is_in()` without values differ too, and are no atoms. A reference followed
  under `as_of` drops records whose reference is null, even under `or`, in both
  engines (`ReferenceAsOf`). MongoDB's `page()` builds its pipeline without the link
  lookups and the stages that remove alternatives and superseded revisions
  (`backend/mongo/results.py:287-327`), unlike its `results()`.
- Pages: with nulls first, a MongoDB walk by a scalar that the store manages begins
  anew with each page and does not end, since every page is past a token that
  holds null.
- Federation: duplicates are looked for among sources of equal prefix only.
  Without a sort there is no ORDER BY (`backend/sql/stored_federation.py:328-330`), so
  pages of one source may repeat an entry and leave another out.
- Opening: "IF EXISTS makes the same path harmless" (`backend/sql/store.py:1231-1232`), but
  where the engine has rolled a failed first opening back, as PostgreSQL does, the clean-up
  that follows may drop the tables of a store that another process has created and opened
  in between. "A concurrent `upgrade=True` loser is benign" (`:867-868`) holds for processes of
  one schema: an upgrade is planned from the fingerprint it has read and stamps its own
  (`:888`; `backend/mongo/store.py:751-754`), so of two upgrades that each add a
  field of their own the later takes back what the earlier has promised, and the code of the
  earlier is refused when it opens the store again. The module states both as
  `CleanUpHarmless` and `UpgradesBenign`; TLC finds them violated in an instance with two processes that
  open twice, `Deployments = {"postgresql"}`, versions with the fields name, then name and note or
  name and size, one id, one row, no death and `FaultsAt["postgresql"] = {"stamp"}`, the first with
  `MaxFaults = 1`, the second with none.
  A degraded store of the older kind whose lease belongs to a dead
  process can neither be upgraded nor have its lease stolen
  (`docs/details/db-recovery.md:26-28`). A death in SQLite's bootstrap leaves a
  metadata table that no opening accepts; the loser of two additive upgrades raises
  on its duplicate column. A ClickHouse ingest asks whether the store is empty before it
  has the lease; one that is overtaken there finds the other's relations, raises, and leaves its
  marker on a store that is complete, which then opens no more.
- MongoStore: after a save that failed or was retried, `sid_of` answers None for an
  object that is stored (`backend/mongo/store.py:1302`, `:2086`).
- SQL: garbage collection on SQLite takes the write lock, but a save refers in its
  first insert to what it found before it held the lock
  (`backend/sql/store.py:1511`, `:2186`); the instance runs a collection only
  while the other stores are closed (`FsckOnline = FALSE`; with `TRUE`,
  `CommittedWhole` is violated).
- SQL, from the source and not from a run: "a row matching all parent-table columns
  is reused" (`backend/sql/store.py:26-28`), but if the row that a by-value record
  matches was inserted inside the save of that very record, `_discard_inserted`
  deletes it before its sid is returned (`:2222-2248`, `:4031-4064`).
  `PartsAssumption` leaves this out.
- Bulk ingest: the by-value keys of deferred and serial finalization include the
  role or the content ids of references, which the save loop does not compare;
  parallel parity compares the references of identity-skipped fields before it has
  collapsed them and may refuse what the save loop takes; the merge compares the
  id columns of an occurrence with an id and one without; the serial index of ids
  keeps those of rows it swept; an append to SQLite creates tables outside its transaction.

### Fairness

Ledger: a call or write session that has begun comes to its end (calls return,
`with` blocks close). Nobody is obliged to remove the lock of a dead process, and
`SessionEnds` does not need it: it speaks of processes that are alive. Leases: a call in
progress goes on until it returns, none is obliged to fail, and time passes for
the lease of a dead writer. Nothing obliges anyone to start a call. The drain
needs no strong fairness: a writer that registers while the singleton is
installed turns back without refreshing its heartbeat again. Bulk ingest
(in `mongo_leases`): the process goes on until its block is left and a worker that is alive
goes on with its task, as operating system processes do; nobody is obliged to be
killed or to fail.

## 4. Proofs

`IdLedgerProofs` (assumption: `LedgerAssumption`, types of the constants):

- `TypeCorrect`, and `WritersExclude` (`LockOwned`), which is inductive;
- `SessionsStayCurrent`: `SessionInv` adds, for each place of the program, what
  part of a session is already on disk; it rests on `LockOwned`, without which
  another writer could move the file under a session;
- `NothingIsRewritten`: the action property, from the same invariant;
- `CommittedLedgerIsValid`: `LedgerInv` says that file and in-memory records of
  a session satisfy `Valid`'s parts; the work is that `Assign` and `Alias`
  keep ids unique and in base, because the next number is taken over every id
  ever assigned;
- `LedgerImplementsRegistry`: each step of the ledger is a step of `IdRegistry`
  or a stutter under the refinement mapping, by these invariants.

`MongoLeasesProofs` (assumption: `LeasesAssumption`; all but the first and the last
also `SlowWriters = {}`, which the code needs, as `mongo_leases_slow` shows):

- `LeaseTypes`;
- `FsckIsExclusive` and `FsckIsSingle`: `LockInv` is inductive. A live writer has
  a fresh lease; a run past its first heartbeat owns the singleton with a
  heartbeat that is not null; a run that has found no fresh writer coexists with
  none that writes. The second part is why an expired lease may be replaced only
  when its owner is dead;
- `SweepsAreSafe`: `DataInv` adds that what a save is about to refer to exists,
  and that what a run has marked includes everything referred to;
- `SavesForgetSwept` (`SavesObserveSweeps`): `CacheInv` relates the generation a
  store knows to the one of the database, and what is not yet swept to what the
  caches of stores that know the newest may hold;
- `LeasesAreOwned` (`LeasesOwned`) needs no assumption on the pace of writers.

`SqlDegradedProofs` (assumptions: `DegradedAssumption`, and but for the first
theorem `AcyclicAssumption`; the last two theorems also `FsckDies = FALSE`, which the
code needs for the second, as `sql_degraded_fsck` shows). After the first, each
theorem adds a layer to one inductive invariant, and uses the layers below it:

- `OneStoreWrites` (`OneWriter`): inductive together with the type of `at`. A
  beginning operation has read the lease as its own or none; the row leaves a
  working store by no disposal and no steal, because the compare-and-swap
  replaces only the value it has read, of a store that is not working then;
- `TablesTyped`: `TypeInv` adds to `TypeOK` that the rows are finitely many (a
  first sid is above all of them), that what a staged record refers to has been
  found, and that a child row of an element record has its sid;
- `WorkInv`: from `OneWriter`, at most one operation is at work in all stores;
- `EntriesClaimed` (`ClaimsSound`): `MarkInv` says that a touched table carries
  the operation's marker, and that the parent table of a reserved sid is
  touched. `ClaimInv`: a claim without a row is in a table that is marked, so
  the next operation releases it before it can meet one;
- `ReturnedStays` (`SavesStay`): `RowInv`. A record has at most one row, none
  while a sid is reserved for it; a dispatch row names a main row; main rows
  stay. That only the root of a save can be promoted last, with nothing else on
  its call stack, rests on the ranks of the records (`OnlyRoot`);
- `ResidueSwept` (`CrashResidueSwept`): `ResidueInv` excuses each ownerless child
  row: its operation failed and lives, is still at work on it, died and left
  both its markers, or fsck is about to sweep it;
- `ReachedIsComplete` (`MainsComplete`): `SidInv` says that a reserved sid is
  below the counter and nobody else's, with child rows of its own save and
  record only, one per element, and element records that exist: the parent row
  written last finds exactly its child rows. `WholeInv`: all rows are whole, or
  fsck is collecting, and then those it has marked are whole and refer to marked
  ones, and the tables it is done with have no others. The proof follows `Reach`
  through its steps in both directions: it stays in a closed set
  (`ReachWithin`), and it is closed itself, because each step goes down the
  ranks and there are as many steps as records (`ReachClosed`).

`SqlTransactionsProofs` (assumptions: `TransactionsAssumption` and
`EarlierAssumption`; all theorems also `FsckOnline = FALSE`, fsck in exclusive
use): one inductive invariant for every property (`Invariance`), of stores
without number on either engine.

- The seventeen disjuncts of `Next` fall into thirteen effects (`Effect`,
  `Sweeps`): rolled back, caught, committed, entered, moved on, inserted, claimed,
  hit, elements written, taken back, dispatched, read, swept. `StepEffect` says
  so, with the types; everything after it reasons about effects alone;
- `TablesSound` is about the database. A sid is one row, and PostgreSQL's
  sequence is ahead of all of them; what a main, dispatch or return record names
  is a row that is committed, or pending in the same transaction, so that
  neither a rollback nor a commit separates the two;
- `StoreSound` is about each store. `StackSound`: a frame knows how many rows the
  call had inserted when it began, and all that outer frames inserted comes
  before. This is what makes `_discard_inserted` safe: `TakenBackUnnamed` shows
  that no frame, main row, dispatch row, return or lazy row names what it
  deletes (`Pinned`). `FramesHaveRows`, `RootHasRow` and `FoundRow` say that what
  a call knows is a row of its content and lineage. `CacheSound` and `HeldSound`
  are the caches; they survive because a rollback empties them and a commit
  leaves sids alone. `StampSound` puts the rows of a store below its mark and
  those of its transaction at its stamp;
- `OthersSound`: a step of one store leaves all others sound, because what they
  can see (`OthersSee`) stays as it was;
- from it `Typed`, `CachesAreTrue`, `ReturnsAreKept` and the action property
  `StampsDoAdvance`, whose only step that matters is a commit (`OnlyCommits`).

`SqlIdentityProofs` (the same assumptions, and `FsckOnline = FALSE`) proves
`IdentitiesAreOwned` (`IdentitiesOwned`) from a second inductive invariant,
`OwnedInv`, which `Ownership` adds to the first. `IdentitiesOwned` is not inductive,
and the checks of a save do not make it so: they see committed rows and the
transaction's own, and on PostgreSQL two transactions may pass them together. What
decides is that a claim waits for another transaction's claim of the same id or
of the same owner, and then fails. So the invariant says of pending rows as well
as of committed ones who holds what:

- `KeysUnique` and `ClaimsUnique` hold over all transactions, by the two waits;
- `RowsIdentified`, `RowsClaimed`, `ClaimsOwned`: a row has an id but for the moment
  between its insert and its claim; a row with an id has both claims, made by its
  own transaction or committed before; a claim has a row of its owner, committed
  with it or before. The last fails unless what takes rows away takes their claims
  with them: a rollback takes both, a row found to have been stored meanwhile
  releases the claims that nothing else owns (`Owned`), fsck those whose last
  row it has deleted;
- `LineagesSound` and `KindsFounded`: a lineage bears the sid of its first row, so the
  first row of an alternative has the immutable id of revision 1, and it never goes
  while another row of the lineage is there. Two lineages of one kind in one
  group would share that immutable id, which has one owner: this is why no check
  of kinds is needed for what the race of two alternatives ends in;
- `GroupsSound`: a group is named after a sid and has rows of one table, so that
  two groups are two owners;
- `CallOwned`: the row a call continues or joins (`Followed`) stays until the
  call ends, since it is committed or the transaction's own but not one of the call's
  inserts, which `_discard_inserted` may delete; only the root of a call has a
  kind, and what is deleted is never the root; a frame that claims is innermost
  and its row has no id yet; a transaction that is over owns nothing.

As before, each step is reduced to its effect first (`OwnEffect`), and the
tables, the groups, the call of the store itself and those of the others are
followed one by one (`TablesStay`, `GroupsStay`, `OwnCallOwned`, `OthersOwned`).

The second half of `SqlIdentityProofs` (the same assumptions, `PartsAssumption` and
`FsckOnline = FALSE`) proves `CommittedIsWhole` (`CommittedWhole`) and with it `CommittedIsSound`
(`CommittedSound`), from a third inductive invariant, `WholeInv`, which `Wholeness`
adds to the other two. `CommittedWhole` is not inductive: a commit makes pending
rows committed, and a call takes back rows that it has inserted. So the invariant
speaks of pending rows, and of what a call in progress has in hand:

- `RowsWhole`: every row, committed or not, has with it (`With`: committed, or of
  the same transaction) the rows of what it refers to, and of its elements unless
  it is torn or a frame is still to write them (`Unfinished`). A commit and a
  rollback both respect this, since neither separates a row from what is with it;
- `FramesGot` and `Ready`: what a frame has got so far is there for its transaction
  to see, and a frame that inserts or writes its elements has got them all. There is
  one exception, `Superseded`: a frame whose content turns out to be stored takes
  back what was inserted for it (`_discard_inserted`), and with it what it has got;
  it inserts no row of its own then, and returns the one it has found;
- `Inside` and `Under`: what a frame has inserted before its own row are smaller
  parts, so none has the content looked up; no row from before the frame names any
  of it; and no outer frame has got anything from inside it. This is what makes
  `_discard_inserted` safe for all rows that stay. It needs `Depth`: if a part could
  have the content of the whole, the row found might be one of those deleted.

For garbage collection the proof needs that `_mark` comes to an end with all that
main rows reach: each step goes down in `Depth`, so that as many steps as there are
objects are enough (`MarkedClosed`), and what fsck keeps names only what fsck keeps
(`SweepRowsWhole`). The other effects follow as before, the rows first
(`RowsStayWhole`), then the call of the store itself (`OwnWhole`) and those of the
others (`OthersWhole`).

`MongoSaveProofs` (assumptions: `SaveAssumption`, `NoneAssumption`,
`PartsAssumption`; `DocumentsStayWhole` also that fsck does not die while it sweeps,
as in the run: what it has yet to delete may refer to what it has deleted) proves
all that `mongo_save` checks: `TypesKept`, `DocumentsStayWhole`, `ReturnedStays`,
`CachesStayTrue`, `FsckLeavesClean`, and without that condition that entries own their identities
(`ClaimsStayOwned`). All come from one inductive invariant, `Inv`
(`Invariant`), which TLC has checked on the instance of the run as well. None of the
properties is inductive: they speak of what is durable, and a commit makes durable in
one step what a transaction wrote in many, each of them judged by its own view.

- `Whole(f, ...)` says that each value of a database `f` fits the others:
  documents have what they refer to, their entry in the content index and their
  claims; index and dispatch documents name documents; nothing has a number above
  its counter. `Grown(f, g)` says that `g` has kept what `f` had, and at most promoted
  a document, counted further or added keys. What fits a database fits what it grows
  into (`FitsGrown`), so that a step is looked at one key at a time (`WroteWhole`);
- `TxnSound`: the view of a transaction is whole, but for the claims of the document
  it has just inserted (`OpenSids`), and snapshot, view and database have grown
  from the snapshot. The database refuses a key that another has written or changed, so
  the keys a transaction writes are still those of its snapshot (`Agrees`) and the
  result of a commit is whole: each key has the value of the view or that of the
  database, and both fit (`CommitWhole`);
- `CallSound` is about a save in progress, standalone or not: its stack, with the ranks of
  its records (`FramesSound`), what its frames have got (`GotSound`), what it remembers
  (`MemoSound`), and the sid it has taken for the document to come (`HeldSound`), which
  is nobody else's. That claims precede the document on a standalone server is what
  makes a durable entry own its claims there;
- `InsertedSound` is why a transaction may take back what it has inserted for a record
  that proves to be stored: nothing else in its view refers to it, no frame below has got
  it, no dispatch document names it, and its sid is above the snapshot's counter, so
  that nobody else knows it (`UndoneWhole`, `TakenBack`);
- `FsckSound`: no save is under way; once the repairs are made every main document is
  routed; while it sweeps, all that is marked is there; at the end nothing is garbage
  or orphaned. The mark comes to an end with all that main documents reach, because each
  step goes down in rank (`MarkedClosed`); a sweep takes nothing marked and leaves the
  mark at most smaller (`MarkedFewer`, `SweptWhole`), and what is left over when nothing is
  garbage is whole again (`ReconciledWhole`). No claim is missing then, so the second
  half of the reconciliation finds nothing to do (`NoneLack`);
- the caches: what is learned from a save is durable by its commit, and a run of fsck makes every
  cache one of an earlier generation (`CachesSound`).

The steps of a save are reduced to a few lemmas first: a save that goes on without writing (`Moved`),
that writes (`Wrote`), that ends or begins (`Turned`, `Afresh`).

`StoresProofs`, openings (assumption: `OpeningAssumption`: types of the constants, every
version has the table of records, none that is the store's own). `OpenedIsWhole`
is `StoresWhole` for any processes, schemas, deployments and faults under one
hypothesis, `FaultsLeaveNothing`: no failure whose clean-up drops what another process has made
anew by then. The code does not establish it; it leaves out two steps of PostgreSQL's first
opening and one of ClickHouse's, and no death, upgrade or other failure. What may happen without it is the
first of the disagreements about openings above: a store is taken away under an
open process, and what its clean-up leaves is nothing the invariant speaks of.

The instance of `stores` meets it. The argument (`OpeningInvariant`):

- every program runs in one order of all steps (`Rank`), and takes each step once, so the set of
  those still to do (`StepsOf`) says what has been done (`NextStep`, `StepsInTurn`);
- `DbSound`: a database is no store yet, and then without records, or it is a sound one: the
  ownership is marked only where all records are claimed and no two clash, and a
  fingerprint promises only what is there. It holds of what is durable and of what a
  transaction sees (`TxOk`);
- `Grown`: what those who work with a database rely on stays there, whoever changes it. Each
  process relies on what `ProcOk` says for its steps: a first opening on the tables it has
  created (`Begun`), an upgrade on its claims, tables and columns (`OpenOk`), an open store
  on its stamps and a fingerprint its code can work with (`Fits`);
- a clean-up would break `Grown`. `MakerOk` and `MakingOk` say why it does not: who has made tables
  of a store that is not finished is alone with it, and nobody takes it for a store,
  because what makes it one (the profile, or all stamps at once) comes last;
- so an action is one of four: it changes what is durable (`DurableStep`), what a transaction
  sees (`PendingStep`), its own state only (`QuietStep`), or it raises (`RaiseStep`);
- `IngestInv`, beside it: without a marker nothing of an ingest is there in part; the process
  whose marker it is holds the lease, and the steps it has still to do are the end of the
  ingest, so that rows are counted, verified and swept before the marker is cleared
  (`MarkedStep`, `ErrorStep`). That a lease or a marker that has landed unseen
  belongs to nobody is needed here.

`StoresProofs`, pages (assumption: `PagesAssumption`: finitely many rows with sids of their
own, order keys that compare, a verifier that only rejects candidates) proves
`PagesStayAPartition` (`PagesPartition`) for any orders, page sizes and writers, and for all
queries whose tokens hold the keys that their pages are sorted by (`Anchored`): every SQL
query, and every MongoDB query that has no scalar of the store's own among its orders. For the
others the code does not keep it, as `pages_managed` shows. They are walked in the same
specification, and their tokens can be handed to the queries the theorem is about.

- The sort is a strict total order on rows in both directions (`BeforeTransitive`,
  `BeforeTotal`), because rank, value and sid are compared in turn and the sid decides
  last; backward is its converse (`BeforeTurns`); forward it is what the client asked for
  (`BeforeAsAsked`); and to be past a token is to come after the row the token was made of
  (`SeekIsAfter`). This last lemma is where the seek predicate and the ORDER BY, which
  the code writes separately, must agree on missing keys: with `SqlEquals` for
  `SameKey` it is false, and it needs that the token holds the keys;
- so a batch is the first rows of what is found, each once (`InOrderIsSorted`,
  `BatchInSequence`). `FetchIs` is the invariant of the loop: nothing that stayed lies
  between the cursor and the seek but what has been collected. A batch keeps it with the seek at its
  last candidate, accepted or not (`NextSeek`); with the last accepted one
  or any other row it would not. `FullPage` and `LastPage` turn it into what a page fills;
- `PagesPartition` is not inductive: it does not say that the tokens the client holds
  point at the ends of its page, nor that the page alone is a stretch of the rows,
  which a walk that turns around falls back on. `PagesInv` adds both (`IsPageOf`,
  `IsEndOf`), and that a token accepted by another query has the same fingerprint,
  hence the same orders and matches (`SameFingerprint`). Then a page extends the walk
  at the end it was asked for (`CoversWithNext`, `CoversWithPrevious`).

Only model-checked: everything under fairness (`SessionEnds`, `DrainEnds`,
`IngestEnds`), the properties of `BulkIngest`, `Searching` and `Federation`, and
`TypeOK` of `stores`. Fairness is out of the prover's reach; so are `BulkIngest`,
`Searching` and `Federation`, which walk calls, expressions and streams by
recursive operators. `VisibleMeansComplete` and the other
properties of violation runs are refuted, not proved.

## 5. Plan

All components with control of their own have a module. What the plan has left
is proofs and details, in this order:

1. Proofs: `TypeOK` and `NoPartialStore` of `BulkIngest`, once its recursive operators are recursive
   functions.
2. `SqlDegraded`: `replace` and alternatives, by-value records.
3. `MongoSave`: replacements, alternatives, the clamp of timestamps.
4. `Federation`: fetch by id, related entries.

## 6. Not modelled

The remote OPTIMADE client, which follows the links of a server that is not part
of this repository in one thread; codecs and stored properties, string matches and
numbers of exact type in filters; serving, export and schema discovery:
functions of their input without state of their own. Database engines are taken at their word: a
statement is atomic, a transaction is atomic and isolated, a unique index holds.
