---------------------------- MODULE StoreOpening ----------------------------
(***************************************************************************)
(* How a database becomes a store and stays one: the first opening, which  *)
(* creates and stamps the metadata, later openings, which read the stamps, *)
(* the upgrades an opening may run, and the bulk ingest of ClickHouse with *)
(* its fences (backend/sql/store.py, backend/mongo/store.py,               *)
(* backend/clickhouse/support.py, backend/sql/bulk.py).                    *)
(*                                                                         *)
(* An opening is a program, the sequence of what it has still to do.  What *)
(* a step of it writes is durable at once or with the commit, depending on *)
(* the deployment: PostgreSQL has all of it in one transaction, SQLite the *)
(* part that begins with its first statement on rows, the degraded profile *)
(* and the others nothing.                                                 *)
(***************************************************************************)
EXTENDS Naturals, Sequences, FiniteSets

CONSTANTS
  Procs,        \* the processes
  Deployments,  \* "sqlite", "degraded", "postgresql", "mongo", "clickhouse"
  Schema,       \* per version of the code, of each table the fields and the
                \* rest that determines it
  Addable,      \* the fields that say nothing of identity and may be null
  Ids,          \* the entry ids
  MaxOpens,     \* how often each process opens the store
  MaxRows,      \* how many records there are at most
  MaxFaults,    \* how many statements fail
  MaxDeaths,    \* how many processes die
  FaultsAt,     \* the steps of each deployment that may fail
  None          \* no process

\* Whose lease, fence or marker it is that has landed with a value nobody can know.
Nobody == "lost"

ASSUME OpeningAssumption ==
  /\ {MaxOpens, MaxRows, MaxFaults, MaxDeaths} \subseteq Nat /\ DOMAIN Schema \subseteq Nat
  /\ 1 \in DOMAIN Schema
  /\ \A v \in DOMAIN Schema : "records" \in DOMAIN Schema[v] /\ DOMAIN Schema[v] \cap {"meta", "owners"} = {}
  /\ Deployments \subseteq {"sqlite", "degraded", "postgresql", "mongo", "clickhouse"}
  /\ None \notin Procs /\ Nobody \notin Procs \cup {None}

VARIABLES
  deployment,  \* what the database is
  db,          \* what is durable in it
  tx,          \* what the transaction in progress sees
  lock,        \* whose it is
  proc,        \* the processes
  faults,      \* how many statements have failed
  deaths       \* how many processes have died

openingVars == <<deployment, db, tx, lock, proc, faults, deaths>>

(* The metadata: protocol stands for the declaration too.  ClickHouse and  *)
(* the degraded profile stamp their write profile, after everything else.  *)
Profiled == deployment \in {"degraded", "clickhouse"}
Required == {"protocol", "schemas", "timestamps", "ownership"}
Stamps == IF Profiled THEN <<"protocol", "schemas", "timestamps", "ownership", "profile">>
                      ELSE <<"protocol", "schemas", "timestamps", "ownership">>
Value(k, ver) == IF k = "schemas" THEN ver ELSE 1
Stamped(d, k, v) == [d EXCEPT !.keys = [x \in DOMAIN @ \cup {k} |-> IF x = k THEN v ELSE @[x]]]

\* Whose a lease, fence or marker may be, and the stage of an ingest: whether
\* it is there, the rows loaded into it, and rows still on their way.
Holders == Procs \cup {None, Nobody}
NoStage == [made |-> FALSE, rows |-> 0, late |-> 0]

Nothing == [tables |-> {}, columns |-> {}, keys |-> <<>>, rows |-> {}, claims |-> {}, lease |-> None, fence |-> None,
            marker |-> None, stage |-> NoStage, bulk |-> 0]

\* Tables are created whole, as the code that creates them declares them;
\* those that exist stay as they are.
Columns(ver, tables) == UNION {{t} \X Schema[ver][t].fields : t \in tables}
WithTables(d, ver) ==
  LET new == DOMAIN Schema[ver] \ d.tables
  IN [d EXCEPT !.tables = @ \cup new, !.columns = @ \cup Columns(ver, new)]

\* A store from before the claims of identities were kept, with two records;
\* its last writer may have died with the lease.
Legacy(ids) ==
  [WithTables(Nothing, 1) EXCEPT !.tables = @ \cup {"meta"},
     !.keys = [k \in {Stamps[i] : i \in DOMAIN Stamps} \ {"ownership"} |-> 1],
     !.rows = {<<1, ids[1]>>, <<2, ids[2]>>}]

Away == [pc |-> "out", job |-> "open", ver |-> 1, upgrade |-> FALSE, todo |-> <<>>, made |-> {},
         seen |-> {}, ready |-> FALSE,
         marked |-> FALSE, keep |-> FALSE, built |-> {}, held |-> FALSE, opens |-> 0]
\* What a process keeps that has failed to open a store, or has closed it.
Gone(r) == [Away EXCEPT !.opens = r.opens]

OpeningInit ==
  /\ deployment \in Deployments
  /\ \/ db = Nothing
     \/ \E ids \in [1..2 -> Ids] : db = Legacy(ids)
     \/ Profiled /\ \E ids \in [1..2 -> Ids] : db = [Legacy(ids) EXCEPT !.lease = Nobody]
  /\ tx = Nothing /\ lock = None
  /\ proc = [p \in Procs |-> Away]
  /\ faults = 0 /\ deaths = 0

\* Nothing to open.
OpeningAway == /\ deployment = None /\ db = Nothing /\ tx = Nothing /\ lock = None
               /\ proc = [p \in Procs |-> Away] /\ faults = 0 /\ deaths = 0

View(p) == IF lock = p THEN tx ELSE db
At(p, step) == proc[p].pc = "run" /\ proc[p].todo # <<>> /\ Head(proc[p].todo) = step
Goes(p, r) == proc' = [proc EXCEPT ![p] = r]
Then(p) == [proc[p] EXCEPT !.todo = Tail(@)]

\* The effect d of a statement; another transaction's locks keep it waiting.
Durable(ddl) == deployment \notin {"sqlite", "postgresql"} \/ (deployment = "sqlite" /\ ddl)
Writes(p, d, ddl) ==
  /\ lock \in {None, p}
  /\ IF lock = p \/ ~Durable(ddl) THEN tx' = d /\ lock' = p /\ UNCHANGED db
                                  ELSE db' = d /\ UNCHANGED <<tx, lock>>
  /\ UNCHANGED <<deployment, faults, deaths>>

\* An error leaves the transaction, the fence and, of MongoDB, the lease of
\* fsck.  Next, a first opening drops the tables it has created, and an
\* ingest undoes what it has done since its marker, unless it must keep it.
Left(p, d) == [d EXCEPT !.fence = IF @ = p THEN None ELSE @,
                        !.lease = IF @ = p /\ deployment = "mongo" THEN None ELSE @]
Ended(p) == IF lock = p THEN lock' = None /\ tx' = Nothing ELSE UNCHANGED <<lock, tx>>
Raises(p, d, keep) ==
  /\ db' = Left(p, d)
  /\ Ended(p)
  /\ LET r == [proc[p] EXCEPT !.todo = <<>>, !.keep = keep]
     IN Goes(p, CASE r.job # "ingest" /\ r.made = {} -> Gone(r)
                  [] r.job # "ingest" /\ r.made # {} -> [r EXCEPT !.pc = "clean"]
                  [] r.job = "ingest" /\ r.marked /\ ~At(p, "clear") -> [r EXCEPT !.pc = "undo"]
                  [] OTHER -> [r EXCEPT !.pc = "open", !.job = "open", !.marked = FALSE])
  /\ UNCHANGED deployment
Refused(p) == Raises(p, db, FALSE) /\ UNCHANGED <<faults, deaths>>

-----------------------------------------------------------------------------
(* Openings.                                                               *)

Bootstrap ==
  CASE deployment \in {"sqlite", "postgresql"} -> <<"meta", "owners", "stamp">>
    [] deployment = "degraded" -> <<"meta", "owners">> \o Stamps
    [] deployment = "mongo" -> <<"layout", "owners", "ownership">>
    [] deployment = "clickhouse" -> <<"fence", "recheck", "meta">> \o Stamps \o <<"unfence">>


\* Faulty: marks the ownership before the claims are there.
MarkFirst ==
  CASE deployment \in {"sqlite", "postgresql"} -> <<"owners", "ownership", "claims">>
    [] deployment = "degraded" -> <<"lease", "owners", "ownership", "claims">>
    [] deployment = "mongo" -> <<"lease", "owners", "ownership", "claims", "unlease">>
    [] deployment = "clickhouse" -> <<"lease", "ownership", "claims">>

Ownership ==
  CASE deployment \in {"sqlite", "postgresql"} -> <<"owners", "claims", "ownership">>
    [] deployment = "degraded" -> <<"lease", "owners", "claims", "ownership">>
    [] deployment = "mongo" -> <<"lease", "owners", "claims", "ownership", "unlease">>
    [] deployment = "clickhouse" -> <<"lease", "claims", "ownership">>


Additive == IF deployment = "mongo" THEN <<"restamp">> ELSE <<"tables", "column", "restamp">>

\* _initialize_layout: a database without any table is made a store, one
\* with the metadata table is read, any other is refused.
Look(p) ==
  /\ proc[p].pc = "out" /\ proc[p].opens < MaxOpens
  /\ \E ver \in DOMAIN Schema, upgrade \in BOOLEAN :
       LET r == [Away EXCEPT !.opens = proc[p].opens + 1, !.ver = ver, !.upgrade = upgrade]
       IN Goes(p, IF "meta" \in db.tables THEN [r EXCEPT !.pc = "read"]
                  ELSE IF db.tables = {} THEN [r EXCEPT !.pc = "run", !.todo = Bootstrap, !.job = "first"]
                  ELSE Gone(r))
  /\ UNCHANGED <<deployment, db, tx, lock, faults, deaths>>

Pending(d) == Required \ DOMAIN d.keys = {"ownership"}

\* Faulty: takes a store that is still being stamped for one to upgrade.
AnyProfile(d) == Required \ DOMAIN d.keys \in {{}, {"ownership"}} /\ d.marker = None

Recognized(d) ==
  /\ Required \ DOMAIN d.keys \in {{}, {"ownership"}}
  /\ Profiled <=> "profile" \in DOMAIN d.keys
  /\ d.marker = None

\* classify_schema_upgrade: tables may be new, those that are there may gain
\* fields of the addable kind, and nothing else may differ.
IsAdditive(old, new) ==
  \A t \in DOMAIN Schema[old] :
    /\ t \in DOMAIN Schema[new] /\ Schema[new][t].fixed = Schema[old][t].fixed
    /\ Schema[old][t].fields \subseteq Schema[new][t].fields
    /\ Schema[new][t].fields \ Schema[old][t].fields \subseteq Addable

Checked(d, ver, upgrade) ==
  /\ "meta" \in d.tables /\ Recognized(d)
  /\ d.keys["schemas"] = ver \/ (IsAdditive(d.keys["schemas"], ver) /\ upgrade /\ deployment # "clickhouse")
  /\ Pending(d) \/ deployment = "clickhouse" \/ "owners" \in d.tables

\* _open_marked_layout: everything is verified before anything is changed.
Read(p) ==
  /\ proc[p].pc = "read"
  /\ LET r == proc[p]
     IN IF ~Checked(db, r.ver, r.upgrade) THEN Refused(p)
        ELSE /\ Goes(p, [r EXCEPT !.pc = "run", !.job = "open", !.upgrade = FALSE, !.ready = ~Pending(db),
                                  !.todo = (IF Pending(db) /\ r.upgrade THEN Ownership ELSE <<>>)
                                           \o (IF db.keys["schemas"] # r.ver THEN Additive ELSE <<>>)])
             /\ db' = Left(p, db)
             /\ UNCHANGED <<deployment, tx, lock, faults, deaths>>

CreateMetadata(p) ==
  /\ At(p, "meta")
  /\ IF "meta" \in View(p).tables THEN lock \in {None, p} /\ Refused(p)
     ELSE /\ Writes(p, [View(p) EXCEPT !.tables = @ \cup {"meta"}], TRUE)
          /\ Goes(p, [Then(p) EXCEPT !.made = @ \cup {"meta"}])

\* Stamped in one statement, or a row at a time where rows are durable.
Stamp(p) ==
  /\ At(p, "stamp")
  /\ Writes(p, [View(p) EXCEPT !.keys = [k \in {Stamps[i] : i \in DOMAIN Stamps} |-> Value(k, proc[p].ver)]], FALSE)
  /\ Goes(p, [Then(p) EXCEPT !.ready = TRUE])

StampKey(p) ==
  \E k \in Required \cup {"profile"} :
    /\ At(p, k)
    /\ IF k \in DOMAIN View(p).keys /\ deployment # "mongo" THEN lock \in {None, p} /\ Refused(p)
       ELSE /\ Writes(p, Stamped(View(p), k, Value(k, proc[p].ver)), FALSE)
            /\ Goes(p, [Then(p) EXCEPT !.ready = @ \/ k = "ownership"])

\* MongoDB's metadata is one document, first without the ownership; who
\* finds it there has lost the race and reads it.
InsertLayout(p) ==
  /\ At(p, "layout")
  /\ IF "meta" \in db.tables
     THEN Goes(p, [proc[p] EXCEPT !.pc = "read", !.todo = <<>>]) /\ UNCHANGED <<deployment, db, tx, lock, faults, deaths>>
     ELSE /\ Writes(p, [db EXCEPT !.tables = @ \cup {"meta"},
                         !.keys = [k \in Required \ {"ownership"} |-> Value(k, proc[p].ver)]], TRUE)
          /\ Goes(p, Then(p))

\* The tables with the unique constraints on identities; an upgrade takes
\* those it finds.
CreateOwners(p) ==
  /\ At(p, "owners")
  /\ IF "owners" \notin View(p).tables
     THEN /\ Writes(p, [View(p) EXCEPT !.tables = @ \cup {"owners"}], TRUE)
          /\ Goes(p, [Then(p) EXCEPT !.made = IF proc[p].job = "first" /\ deployment # "mongo"
                                              THEN @ \cup {"owners"} ELSE @])
     ELSE IF proc[p].job = "first" /\ deployment # "mongo" THEN lock \in {None, p} /\ Refused(p)
     ELSE Goes(p, Then(p)) /\ UNCHANGED <<deployment, db, tx, lock, faults, deaths>>

\* The lease of a degraded writer, of fsck, of an ingest.  fsck's expires.
Dead(q) == q \in Procs /\ proc[q].pc = "dead"
Holds(p) == proc[p].held /\ db.lease = p
TakeLease(p) ==
  /\ At(p, "lease")
  /\ IF db.lease = None \/ Holds(p) \/ (deployment = "mongo" /\ Dead(db.lease))
     THEN Writes(p, [db EXCEPT !.lease = p], FALSE) /\ Goes(p, [Then(p) EXCEPT !.held = TRUE])
     ELSE Refused(p)

ReleaseLease(p) ==
  /\ At(p, "unlease")
  /\ Writes(p, [db EXCEPT !.lease = None], FALSE) /\ Goes(p, Then(p))


\* Faulty: looks for two claims of one record only.
SameRecord(d, row) == \E other \in d.rows \cup d.claims : other # row /\ other[1] = row[1]

\* _sync_identity_ownership: every record claims its identity, or two of
\* them have the same; MongoDB claims for one after the other, ClickHouse
\* compares only, as no record is ever added to those it has.
Clash(d, row) == \E other \in d.rows \cup d.claims : other # row /\ (other[1] = row[1] \/ other[2] = row[2])
Unclaimed(d) == d.rows \ d.claims
ClaimRows(p) ==
  /\ At(p, "claims")
  /\ LET d == View(p)
     IN IF deployment = "mongo" /\ Unclaimed(d) # {}
        THEN \E row \in Unclaimed(d) :
               IF \E c \in d.claims : c[2] = row[2] THEN Refused(p)
               ELSE Writes(p, [d EXCEPT !.claims = @ \cup {row}], FALSE) /\ UNCHANGED proc
        ELSE IF \E row \in d.rows : Clash(d, row) THEN lock \in {None, p} /\ Refused(p)
        ELSE Writes(p, [d EXCEPT !.claims = IF deployment = "clickhouse" THEN @ ELSE @ \cup d.rows], FALSE) /\ Goes(p, Then(p))

\* _apply_additive_upgrade: tables, columns that were not seen, and last
\* the fingerprint that promises them.
AddTables(p) ==
  /\ At(p, "tables")
  /\ Writes(p, WithTables(View(p), proc[p].ver), TRUE)
  /\ Goes(p, [Then(p) EXCEPT !.seen = Columns(proc[p].ver, DOMAIN Schema[proc[p].ver]) \cap WithTables(View(p), proc[p].ver).columns])

AddColumn(p) ==
  /\ At(p, "column")
  /\ LET new == Columns(proc[p].ver, DOMAIN Schema[proc[p].ver]) \ proc[p].seen
     IN IF new \cap View(p).columns # {} THEN lock \in {None, p} /\ Refused(p)
        ELSE Writes(p, [View(p) EXCEPT !.columns = @ \cup new], TRUE) /\ Goes(p, Then(p))

Restamp(p) ==
  /\ At(p, "restamp")
  /\ Writes(p, Stamped(View(p), "schemas", proc[p].ver), FALSE)
  /\ Goes(p, Then(p))

\* The transaction commits with the end of the program.
Opened(p) ==
  /\ proc[p].pc = "run" /\ proc[p].todo = <<>>
  /\ db' = IF lock = p THEN tx ELSE db
  /\ Ended(p)
  /\ Goes(p, [proc[p] EXCEPT !.pc = "open", !.job = "open", !.upgrade = FALSE, !.made = {}, !.seen = {}, !.marked = FALSE])
  /\ UNCHANGED <<deployment, faults, deaths>>

\* A statement that waits for another's transaction may give up, or find
\* there what it was about to create.
Busy(p) ==
  /\ proc[p].pc = "run" /\ proc[p].todo # <<>> /\ lock \notin {None, p}
  /\ Refused(p)

\* _cleanup_initialization_tables: in a transaction of its own, the last
\* table first; with the metadata table go the stamps, a lease and a marker.
Dropped(d, t) ==
  IF t = "owners" THEN [d EXCEPT !.tables = @ \ {t}, !.claims = {}]
                  ELSE [d EXCEPT !.tables = @ \ {t}, !.keys = <<>>, !.lease = None, !.marker = None]
DropMade(p) ==
  /\ proc[p].pc = "clean" /\ lock = None
  /\ LET t == IF "owners" \in proc[p].made THEN "owners" ELSE "meta"
         r == [proc[p] EXCEPT !.made = @ \ {t}]
     IN /\ db' = Dropped(db, t)
        /\ Goes(p, IF r.made = {} THEN Gone(r) ELSE r)
  /\ UNCHANGED <<deployment, tx, lock, faults, deaths>>

-----------------------------------------------------------------------------
(* Strict inserts into KeeperMap, which may land although the client sees  *)
(* a failure.                                                              *)

TakeFence(p) ==
  /\ At(p, "fence")
  /\ IF db.fence = None THEN Writes(p, [db EXCEPT !.fence = p], FALSE) /\ Goes(p, Then(p)) ELSE Refused(p)

\* Under the fence the catalogue is read again: another may have been first.
Recheck(p) ==
  /\ At(p, "recheck")
  /\ Goes(p, IF "meta" \in db.tables THEN [proc[p] EXCEPT !.pc = "read", !.todo = <<>>] ELSE Then(p))
  /\ UNCHANGED <<deployment, db, tx, lock, faults, deaths>>

ReleaseFence(p) ==
  /\ At(p, "unfence")
  /\ Writes(p, [db EXCEPT !.fence = None], FALSE) /\ Goes(p, Then(p))

Fails(p) == proc[p].pc = "run" /\ proc[p].todo # <<>> /\ Head(proc[p].todo) \in FaultsAt[deployment]
            /\ faults < MaxFaults /\ faults' = faults + 1 /\ UNCHANGED deaths
Fault(p) == Fails(p) /\ Raises(p, db, FALSE)

\* The value of a lease or of a fence that landed so belongs to nobody; a
\* marker is taken back if its deletion succeeds; a metadata table that is
\* there after all is opened as another's.
FaultLanded(p) ==
  /\ deployment = "clickhouse" /\ Fails(p)
  /\ \/ At(p, "lease") /\ db.lease = None /\ Raises(p, [db EXCEPT !.lease = Nobody], FALSE)
     \/ At(p, "fence") /\ db.fence = None /\ Raises(p, [db EXCEPT !.fence = Nobody], FALSE)
     \/ At(p, "marker") /\ db.marker = None /\ Raises(p, [db EXCEPT !.marker = Nobody], FALSE)
     \/ At(p, "clear") /\ db.lease = p /\ Raises(p, [db EXCEPT !.marker = None], FALSE)
     \/ \E k \in Required : At(p, k) /\ k \notin DOMAIN db.keys /\ Raises(p, Stamped(db, k, Value(k, proc[p].ver)), FALSE)
     \/ /\ At(p, "meta") /\ db' = [db EXCEPT !.tables = @ \cup {"meta"}]
        /\ Goes(p, [proc[p] EXCEPT !.pc = "read", !.todo = <<>>])
        /\ UNCHANGED <<deployment, tx, lock>>

\* An operator removes a fence or a lease whose holder is dead or unknown.
Recover ==
  /\ deployment = "clickhouse"
  /\ \/ db.lease = Nobody \/ Dead(db.lease)
     \/ db.fence = Nobody \/ Dead(db.fence)
  /\ db' = [db EXCEPT !.lease = IF @ = Nobody \/ Dead(@) THEN None ELSE @,
                      !.fence = IF @ = Nobody \/ Dead(@) THEN None ELSE @]
  /\ UNCHANGED <<deployment, tx, lock, proc, faults, deaths>>

-----------------------------------------------------------------------------
(* The ingest of ClickHouse: under the lease and the marker it loads its    *)
(* shard, two rows, into a stage, projects the stage, verifies, and clears  *)
(* the marker.                                                              *)

\* Faulty: creates the relations before the lease and the marker are there.
MarkLate == <<"relations", "lease", "marker", "load", "project", "verify", "sweep", "clear">>
Ingest == <<"lease", "marker", "relations", "load", "project", "verify", "sweep", "clear">>
Empty(d) == "records" \notin d.tables

\* Whether there is anything is asked before the lease is taken.
BeginIngest(p) ==
  /\ deployment = "clickhouse" /\ proc[p].pc = "open" /\ proc[p].ready /\ Empty(db)
  /\ Goes(p, [proc[p] EXCEPT !.pc = "run", !.job = "ingest", !.todo = Ingest, !.built = {}])
  /\ UNCHANGED <<deployment, db, tx, lock, faults, deaths>>

WriteMarker(p) ==
  /\ At(p, "marker")
  /\ IF Holds(p) /\ db.marker = None
     THEN Writes(p, [db EXCEPT !.marker = p], FALSE) /\ Goes(p, [Then(p) EXCEPT !.marked = TRUE])
     ELSE Refused(p)

CreateRelations(p) ==
  /\ At(p, "relations")
  /\ IF ~Empty(db) THEN Refused(p)
     ELSE /\ Writes(p, [db EXCEPT !.tables = @ \cup {"records"}, !.stage = [NoStage EXCEPT !.made = TRUE]], TRUE)
          /\ Goes(p, [Then(p) EXCEPT !.built = {"records"}])

\* load_parquet_stages: the rows are counted before and after an insert.
\* A failed insert may have landed in whole or in part, or land later; it is
\* repeated once, and only if nothing of it is there.  Who cannot count says
\* that the load has failed cleanly.
Loads(here, later) == [db EXCEPT !.stage.rows = @ + here, !.stage.late = @ + later]
Staged(p) == [Then(p) EXCEPT !.built = @ \cup {"stage"}]
Keeps(p, d) == Raises(p, d, TRUE)
Unsure == faults < MaxFaults /\ faults' = faults + 1 /\ UNCHANGED deaths
LoadShard(p) ==
  /\ At(p, "load")
  /\ \/ Writes(p, Loads(2, 0), FALSE) /\ Goes(p, Staged(p))
     \/ /\ Unsure
        /\ \E here \in 0..2 : \E later \in {0, 2 - here} :
             \/ CASE here = 2 -> db' = Loads(2, 0) /\ Goes(p, Staged(p)) /\ UNCHANGED <<deployment, tx, lock>>
                  [] here = 1 -> Keeps(p, Loads(here, later))
                  [] here = 0 -> /\ db' = Loads(0, later) /\ UNCHANGED <<deployment, tx, lock>>
                                 /\ Goes(p, [Then(p) EXCEPT !.todo = <<"reload">> \o @])
             \/ Raises(p, Loads(here, later), FALSE)

Reload(p) ==
  /\ At(p, "reload")
  /\ \/ /\ UNCHANGED <<faults, deaths>>
        /\ IF db.stage.rows = 0 THEN Writes(p, Loads(2, 0), FALSE) /\ Goes(p, Staged(p))
           ELSE Keeps(p, Loads(2, 0))
     \/ /\ Unsure
        /\ \E here \in {0, 2} :
             IF db.stage.rows + here = 2
             THEN db' = Loads(here, 0) /\ Goes(p, Staged(p)) /\ UNCHANGED <<deployment, tx, lock>>
             ELSE Keeps(p, Loads(here, 0))

LateLands ==
  /\ db.stage.late > 0
  /\ db' = [db EXCEPT !.stage.rows = @ + db.stage.late, !.stage.late = 0]
  /\ UNCHANGED <<deployment, tx, lock, proc, faults, deaths>>

\* What is inserted is counted with what is there.
Project(p) ==
  /\ At(p, "project")
  /\ LET d == [db EXCEPT !.bulk = @ + db.stage.rows]
     IN IF d.bulk = db.stage.rows THEN Writes(p, d, FALSE) /\ Goes(p, Then(p))
        ELSE Raises(p, d, FALSE) /\ UNCHANGED <<faults, deaths>>


\* verify_bulk_integrity: a sid that is there twice is no error of ours to
\* undo, and the marker stays.
Verify(p) ==
  /\ At(p, "verify")
  /\ IF db.bulk = 2 THEN Goes(p, Then(p)) /\ UNCHANGED <<deployment, db, tx, lock, faults, deaths>>
     ELSE Keeps(p, db) /\ UNCHANGED <<faults, deaths>>

SweepStage(p) ==
  /\ At(p, "sweep")
  /\ Writes(p, [db EXCEPT !.stage = NoStage], TRUE) /\ Goes(p, Then(p))

ClearMarker(p) ==
  /\ At(p, "clear")
  /\ IF db.lease = p THEN Writes(p, [db EXCEPT !.marker = None], FALSE) /\ Goes(p, [Then(p) EXCEPT !.marked = FALSE]) ELSE Refused(p)

\* _clean_up_after_failure and _clear_marker_after_failure: what is known to
\* be the ingest's is dropped, a stage once all is loaded, and the marker goes
\* only if the catalogue is as it was, and the error was not of a kind that may
\* have left rows behind.
Undo(p) ==
  /\ proc[p].pc = "undo"
  /\ \E dropped \in BOOLEAN :
       /\ dropped \/ (proc[p].built # {} /\ faults < MaxFaults)
       /\ faults' = IF dropped THEN faults ELSE faults + 1
       /\ LET built == IF dropped THEN proc[p].built ELSE {}
              e == IF "records" \in built THEN [db EXCEPT !.tables = @ \ {"records"}, !.bulk = 0] ELSE db
              d == IF "stage" \in built THEN [e EXCEPT !.stage = NoStage] ELSE e
          IN db' = IF dropped /\ Empty(d) /\ ~d.stage.made /\ ~proc[p].keep /\ db.lease = p THEN [d EXCEPT !.marker = None] ELSE d
  /\ Goes(p, [proc[p] EXCEPT !.pc = "open", !.job = "open", !.marked = FALSE, !.keep = FALSE])
  /\ UNCHANGED <<deployment, tx, lock, deaths>>

-----------------------------------------------------------------------------
(* Use of an open store.                                                   *)

\* A save, the details of which are SqlTransactions, SqlDegraded and
\* MongoSave: it claims an identity where the constraints are, and does not
\* run on a store that is not ready, nor without the lease.
Save(p) ==
  /\ proc[p].pc = "open" /\ proc[p].ready /\ deployment # "clickhouse"
  /\ lock = None /\ Cardinality(db.rows) < MaxRows
  /\ deployment # "mongo" => "owners" \in db.tables
  /\ deployment = "degraded" => db.lease = None \/ Holds(p)
  /\ deployment = "mongo" => db.lease = None
  /\ \E id \in Ids :
       LET row == <<Cardinality(db.rows) + 1, id>>
       IN /\ "owners" \in db.tables => \A c \in db.claims : c[2] # id
          /\ db' = [WithTables(db, proc[p].ver) EXCEPT !.rows = @ \cup {row}, !.claims = @ \cup {row},
                                                          !.lease = IF deployment = "degraded" THEN p ELSE @]
  /\ Goes(p, [proc[p] EXCEPT !.held = (deployment = "degraded")])
  /\ UNCHANGED <<deployment, tx, lock, faults, deaths>>

\* Disposal of the backend gives the lease back.
Close(p) ==
  /\ proc[p].pc \in {"open", "out"} /\ (proc[p].pc = "open" \/ db.lease = p)
  /\ db' = [db EXCEPT !.lease = IF @ = p THEN None ELSE @]
  /\ Goes(p, Gone(proc[p]))
  /\ UNCHANGED <<deployment, tx, lock, faults, deaths>>

Die(p) ==
  /\ proc[p].pc # "dead" /\ deaths < MaxDeaths /\ deaths' = deaths + 1
  /\ Ended(p)
  /\ Goes(p, [Away EXCEPT !.pc = "dead"])
  /\ UNCHANGED <<deployment, db, faults>>

OpeningNext ==
  /\ deployment # None
  /\ \/ \E p \in Procs :
          \/ Look(p) \/ Read(p) \/ CreateMetadata(p) \/ Stamp(p) \/ StampKey(p) \/ InsertLayout(p)
          \/ CreateOwners(p) \/ TakeLease(p) \/ ReleaseLease(p) \/ ClaimRows(p) \/ AddTables(p)
          \/ AddColumn(p) \/ Restamp(p) \/ Opened(p) \/ Busy(p) \/ DropMade(p)
          \/ TakeFence(p) \/ Recheck(p) \/ ReleaseFence(p) \/ Fault(p) \/ FaultLanded(p)
          \/ BeginIngest(p) \/ WriteMarker(p) \/ CreateRelations(p) \/ LoadShard(p) \/ Reload(p)
          \/ Project(p) \/ Verify(p) \/ SweepStage(p) \/ ClearMarker(p) \/ Undo(p)
          \/ Save(p) \/ Close(p) \/ Die(p)
     \/ Recover \/ LateLands

OpeningSpec == OpeningInit /\ [][OpeningNext]_openingVars

-----------------------------------------------------------------------------
Database ==
  [tables : SUBSET ({"meta", "owners"} \cup UNION {DOMAIN Schema[v] : v \in DOMAIN Schema}),
   columns : SUBSET UNION {Columns(v, DOMAIN Schema[v]) : v \in DOMAIN Schema},
   keys : UNION {[ks -> DOMAIN Schema] : ks \in SUBSET (Required \cup {"profile"})},
   rows : SUBSET ((1..MaxRows) \X Ids), claims : SUBSET ((1..MaxRows) \X Ids),
   lease : Holders, fence : Holders, marker : Holders,
   stage : [made : BOOLEAN, rows : 0..4, late : 0..2], bulk : 0..4]

OpeningTypeOK ==
  /\ deployment \in Deployments \cup {None}
  /\ db \in Database /\ tx \in Database /\ lock \in Procs \cup {None}
  /\ DOMAIN proc = Procs
  /\ \A p \in Procs : proc[p].pc \in {"out", "read", "run", "clean", "undo", "open", "dead"}
  /\ faults \in 0..MaxFaults /\ deaths \in 0..MaxDeaths

\* What an opening takes for complete is: the constraints are there and every
\* record has claimed its identity, what the fingerprint promises exists, and
\* the profile is the one the deployment has.
MarkedWhole ==
  \A ver \in DOMAIN Schema :
    Checked(db, ver, FALSE) /\ ~Pending(db) =>
      /\ deployment # "clickhouse" => "owners" \in db.tables /\ db.claims = db.rows
      /\ "records" \in db.tables /\ deployment \notin {"mongo", "clickhouse"} =>
           LET promised == Schema[db.keys["schemas"]]
           IN DOMAIN promised \subseteq db.tables /\ Columns(db.keys["schemas"], DOMAIN promised) \subseteq db.columns

\* No two records of a store that anybody may write to have one identity.
IdentitiesOwned ==
  (\E p \in Procs : proc[p].pc = "open" /\ proc[p].ready) =>
     \A r, s \in db.rows : r[2] = s[2] => r = s

\* A store that opens holds an ingest in whole or not at all.
NoPartialStore ==
  (\E ver \in DOMAIN Schema : Checked(db, ver, FALSE)) => db.bulk \in {0, 2} /\ ~db.stage.made

\* Whatever fails of the steps in FaultsAt and whoever dies while stores are opened,
\* upgraded and loaded: what opens is complete, and what is written to has its identities.
StoresWhole == MarkedWhole /\ IdentitiesOwned /\ NoPartialStore

\* Two things one would like to have of a store that is open, and has not: that a failed
\* first opening drops what it has created only (_cleanup_initialization_tables),
CleanUpHarmless ==
  \A p \in Procs : proc[p].pc = "open" =>
    /\ "meta" \in db.tables /\ Required \ {"ownership"} \subseteq DOMAIN db.keys
    /\ proc[p].ready => "ownership" \in DOMAIN db.keys

\* and that of several upgrades none takes back what the code of an open store relies
\* on (_apply_additive_upgrade).
UpgradesBenign ==
  \A p \in Procs : proc[p].pc = "open" =>
    db.keys["schemas"] = proc[p].ver \/ IsAdditive(proc[p].ver, db.keys["schemas"])
=============================================================================
