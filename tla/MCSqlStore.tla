----------------------------- MODULE MCSqlStore -----------------------------
(* Two parts of a SQL store that share no state, one of them active in     *)
(* each behaviour: transactions, and bulk ingests.                         *)
EXTENDS MCSqlTransactions, MCBulkIngest
VARIABLES part, mode, phase, ingested, handles, enc, queue, worker, pending, loaded, routed, tables, marker, work, resolved
Bulk == INSTANCE BulkIngest WITH
  Objects <- BulkObjects, Content <- BulkContent, Meta <- BulkMeta, Refs <- BulkRefs, Skips <- BulkSkips,
  Items <- BulkItems, Policy <- BulkPolicy, Planned <- {"a", "g"}, Entries <- BulkEntries, GivenId <- BulkGivenId(None),
  Unfit <- {"u"}, Calls <- BulkCalls, MaxCalls <- 3, Modes <- BulkModes, Workers <- {1, 2}, ChunkSize <- 2,
  QueueSize <- 1, Block <- 20, MaxDeaths <- 1, Earlier <- BulkEarlier,
  calls <- ingested, returned <- handles, rows <- loaded, dispatch <- routed
ASSUME BulkAssumption == Bulk!IngestAssumption

bulkVars == <<mode, phase, ingested, handles, enc, queue, worker, pending, loaded, routed, tables, marker, work, resolved>>
StoreInit ==
  /\ Init /\ Bulk!Init
  /\ \/ part = "transactions" /\ mode = CHOOSE m \in BulkModes : TRUE
     \/ part = "ingest" /\ engine = CHOOSE x \in Engines : TRUE
StoreNext ==
  \/ part = "transactions" /\ Next /\ UNCHANGED <<part, bulkVars>>
  \/ part = "ingest" /\ Bulk!Next /\ UNCHANGED <<part, vars>>
StoreSpec == StoreInit /\ [][StoreNext]_<<part, vars, bulkVars>>

\* The types of both parts.
StoreTypeOK == TypeOK /\ Bulk!TypeOK
\* An ingest does what a loop of save() would do.
IngestsLikeSaves == Bulk!IngestsLikeSaves
\* Without the marker the store is as before, or holds the whole ingest.
NoPartialStore == Bulk!NoPartialStore
=============================================================================
