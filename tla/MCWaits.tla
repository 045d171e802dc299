------------------------------- MODULE MCWaits -------------------------------
(* Two parts that share no state, one of them active in each behaviour:    *)
(* the leases of a MongoDB store, and a SQL ingest of up to four saves,    *)
(* flushed one by one, whose workers are killed and fail.                  *)
EXTENDS MCMongoLeases, MCBulkIngest
VARIABLES part, mode, phase, calls, returned, enc, queue, worker, pending, rows, dispatch, tables, marker, work, resolved
Bulk == INSTANCE BulkIngest WITH
  Objects <- BulkObjects, Content <- BulkContent, Meta <- BulkMeta, Refs <- BulkRefs, Skips <- BulkSkips,
  Items <- BulkItems, Policy <- BulkPolicy, Planned <- {"a", "g"}, Entries <- BulkEntries, GivenId <- BulkGivenId(None),
  Unfit <- {"u"}, Calls <- FewCalls, MaxCalls <- 4, Modes <- BulkModes, Workers <- {1, 2}, ChunkSize <- 1,
  QueueSize <- 1, Block <- 20, MaxDeaths <- 2, Earlier <- BulkEarlier
ASSUME BulkAssumption == Bulk!IngestAssumption

bulkVars == <<mode, phase, calls, returned, enc, queue, worker, pending, rows, dispatch, tables, marker, work, resolved>>
WaitsInit ==
  /\ Init /\ Bulk!Init
  /\ \/ part = "leases" /\ mode = CHOOSE m \in BulkModes : TRUE
     \/ part = "ingest"
WaitsNext ==
  \/ part = "leases" /\ Next /\ UNCHANGED <<part, bulkVars>>
  \/ part = "ingest" /\ Bulk!Next /\ UNCHANGED <<part, vars>>
\* The fairness of each part, as its module has it.
WaitsSpec ==
  /\ WaitsInit /\ [][WaitsNext]_<<part, vars, bulkVars>>
  /\ part = "leases" => Fairness
  /\ WF_bulkVars(part = "ingest" /\ Bulk!ProcessStep)
  /\ \A w \in {1, 2} : WF_bulkVars(part = "ingest" /\ Bulk!WorkerStep(w))
\* A save that waits for room, and the end of an ingest, come to an end.
IngestEnds == Bulk!IngestEnds
=============================================================================
