------------------------------ MODULE IdLedger ------------------------------
(***************************************************************************)
(* The signed, append-only id ledger of src/src/httk/store/id_ledger.py.   *)
(*                                                                         *)
(* Several operating-system processes share one container file (tables     *)
(* records and segments) guarded by a <path>.lock file.  A write session   *)
(* holds the lock from open (or create) to close, collects records in      *)
(* memory, and appends them as one signed segment when it closes.  A       *)
(* read-only open takes no lock.  A process may die anywhere; its lock     *)
(* file then stays until an operator deletes it.                           *)
(*                                                                         *)
(* An operator whose comment begins with "Faulty" is not part of the       *)
(* specification: it is a mistake the code could have made, kept to show   *)
(* which property notices it.                                              *)
(***************************************************************************)
EXTENDS Naturals, SequencesExt

CONSTANTS
  Procs,        \* processes that open the ledger
  Signers,      \* the processes that hold a signing key
  Keys,         \* source keys
  Families,     \* id families
  BaseNames,    \* id bases a family can be given
  Schemes,      \* the family-to-base maps callers pass to create and open
  None,         \* "no holder", "no prior binding"
  MaxRows,      \* bound on the records a session can hold
  MaxSegments   \* bound: a container with this many segments is opened for no more writes

BaseMaps == UNION {[F -> BaseNames] : F \in SUBSET Families}

ASSUME LedgerAssumption ==
  /\ Signers \subseteq Procs
  /\ None \notin Procs
  /\ Schemes \subseteq BaseMaps
  /\ MaxRows \in Nat
  /\ MaxSegments \in Nat \ {0}

VARIABLES
  exists,    \* the container file is on disk
  rows,      \* its records table, in seq order
  segments,  \* its segments table, in segment order
  lock,      \* the process named in <path>.lock, or None when there is no such file
  pc,        \* what each process is doing with the ledger
  session,   \* the IdLedger object of each process
  scan       \* the segment rows a read-only open has fetched

disk == <<exists, rows, segments>>
vars == <<exists, rows, segments, lock, pc, session, scan>>
-----------------------------------------------------------------------------
(* Data.  A record's id is the id its key resolves to: the minted id of an *)
(* assignment, the target of an alias (_live_id).                          *)

Ids == [base : BaseNames, num : Nat]

Records == [key : Keys, family : Families \cup {None}, alias : BOOLEAN,
            id : Ids, supersedes : Ids \cup {None}]

\* Per-family id bases; _validate_bases refuses an empty map and a shared base.
ValidBases(bases) ==
  /\ DOMAIN bases # {}
  /\ \A f, g \in DOMAIN bases : bases[f] = bases[g] => f = g

\* The map `later` keeps every family of `earlier` with the same base.
KeepsBases(earlier, later) ==
  \A f \in DOMAIN earlier : f \in DOMAIN later /\ later[f] = earlier[f]

Segments == [first : Nat \ {0}, count : Nat, bases : BaseMaps, body : Seq(Records)]

Sessions == [records : Seq(Records), persisted : Nat, segments : Nat,
             bases : BaseMaps, dirty : BOOLEAN]

NoSession == [records |-> <<>>, persisted |-> 0, segments |-> 0,
              bases |-> [f \in {} |-> None], dirty |-> FALSE]

\* The indices of the live (newest) record of a key: empty or one index.
Newest(recs, k) ==
  {i \in DOMAIN recs : /\ recs[i].key = k
                       /\ \A j \in DOMAIN recs : recs[j].key = k => j <= i}

Unbound(recs, k) == \A i \in DOMAIN recs : recs[i].key # k

AssignedIds(recs) == {recs[i].id : i \in {j \in DOMAIN recs : ~recs[j].alias}}

\* Faulty: the record instead of its id.
LiveRecord(rec) == rec

\* The id a record binds its key to.
LiveId(rec) == rec.id

\* Faulty: forgets the numbers of superseded assignments.
LiveNumbers(recs, f) ==
  {recs[i].id.num : i \in {j \in DOMAIN recs : /\ ~recs[j].alias /\ recs[j].family = f
                                              /\ j \in Newest(recs, recs[j].key)}}

\* The numbers assigned in a family, superseded ones included (_next_number).
AssignedNumbers(recs, f) ==
  {recs[i].id.num : i \in {j \in DOMAIN recs : ~recs[j].alias /\ recs[j].family = f}}
-----------------------------------------------------------------------------
(* What _read_and_validate accepts.                                        *)

\* The bases a container is opened with: those of its newest segment.
StoredBases(segs) == segs[Len(segs)].bases

ValidSegments(segs, recs) ==
  /\ segs # <<>>
  /\ segs[1].first = 1
  /\ \A s \in 1..(Len(segs) - 1) :
        /\ segs[s + 1].first = segs[s].first + segs[s].count
        /\ KeepsBases(segs[s].bases, segs[s + 1].bases)
  /\ Len(recs) + 1 = segs[Len(segs)].first + segs[Len(segs)].count
  /\ \A s \in DOMAIN segs :
        /\ segs[s].first + segs[s].count - 1 <= Len(recs)
        /\ SubSeq(recs, segs[s].first, segs[s].first + segs[s].count - 1) = segs[s].body
  /\ ValidBases(StoredBases(segs))

\* The id a key resolved to just before record i, if any.
PriorIds(recs, i) ==
  {recs[j].id : j \in {j \in 1..(i - 1) :
                         /\ recs[j].key = recs[i].key
                         /\ \A l \in 1..(i - 1) : recs[l].key = recs[i].key => l <= j}}

ValidEntries(recs, bases) ==
  \A i \in DOMAIN recs :
    /\ IF recs[i].alias
       THEN recs[i].id \in AssignedIds(recs)
       ELSE /\ recs[i].family \in DOMAIN bases
            /\ recs[i].id.base = bases[recs[i].family]
            /\ \A j \in 1..(i - 1) : ~recs[j].alias => recs[j].id # recs[i].id
    /\ IF PriorIds(recs, i) = {}
       THEN recs[i].supersedes = None
       ELSE recs[i].supersedes \in PriorIds(recs, i)

Valid(segs, recs) ==
  /\ ValidSegments(segs, recs)
  /\ ValidEntries(recs, StoredBases(segs))
-----------------------------------------------------------------------------
Init ==
  /\ exists = FALSE
  /\ rows = <<>>
  /\ segments = <<>>
  /\ lock = None
  /\ pc = [p \in Procs |-> "idle"]
  /\ session = [p \in Procs |-> NoSession]
  /\ scan = [p \in Procs |-> <<>>]

\* The states of a process that believes it holds the lock file.
Writing == {"creating", "laid", "opening", "open", "closing"}

\* Leave the ledger, dropping the IdLedger object.
Leave(p) ==
  /\ pc' = [pc EXCEPT ![p] = "idle"]
  /\ session' = [session EXCEPT ![p] = NoSession]
  /\ scan' = [scan EXCEPT ![p] = <<>>]

(* _acquire_lock: O_CREAT | O_EXCL, the first step of create and of a      *)
(* write-mode open; a held lock raises and changes nothing.                *)
AcquireLock(p, step) ==
  /\ pc[p] = "idle"
  /\ lock = None
  /\ lock' = p
  /\ pc' = [pc EXCEPT ![p] = step]
  /\ UNCHANGED <<disk, session, scan>>

\* Faulty: the file was looked for before the lock was taken.
NotChecked == TRUE

\* create() looks for the file once it holds the lock.
NoContainer == ~exists

(* create(), under the lock: the file must not exist and a key must be     *)
(* there to sign segment 1, or the call raises and drops its lock.         *)
CreateRefused(p) ==
  /\ pc[p] = "creating"
  /\ ~NoContainer \/ p \notin Signers
  /\ lock' = None
  /\ Leave(p)
  /\ UNCHANGED disk

\* create() -> _write() -> _initialize_schema: tables and meta, no segment yet.
LayDownSchema(p, bases) ==
  /\ pc[p] = "creating"
  /\ NoContainer
  /\ p \in Signers
  /\ ValidBases(bases)
  /\ exists' = TRUE
  /\ pc' = [pc EXCEPT ![p] = "laid"]
  /\ session' = [session EXCEPT ![p] = [NoSession EXCEPT !.bases = bases]]
  /\ UNCHANGED <<rows, segments, lock, scan>>

\* A write that fails inside create() unlinks the partial file, then the lock.
CreateFails(p) ==
  /\ pc[p] = "laid"
  /\ exists' = FALSE
  /\ rows' = <<>>
  /\ segments' = <<>>
  /\ lock' = None
  /\ Leave(p)

\* Faulty: loses the first new record.
SkipsOne(s) == SubSeq(s.records, s.persisted + 2, Len(s.records))

\* The records of a session that no segment covers yet.
Unpersisted(s) == SubSeq(s.records, s.persisted + 1, Len(s.records))

\* Faulty: the session does not count the segment it wrote.
SegmentUncounted(s, count) == [s EXCEPT !.persisted = @ + count, !.dirty = FALSE]

\* The bookkeeping after COMMIT.
Persisted(s, count) ==
  [s EXCEPT !.persisted = @ + count, !.segments = @ + 1, !.dirty = FALSE]

(* The transaction of _write(): one segment covering the records that are  *)
(* not yet persisted, inserted under explicit primary keys, so a session   *)
(* that is not current with the file fails and changes nothing.            *)
WriteSegment(p) ==
  LET s   == session[p]
      new == Unpersisted(s)
  IN  /\ p \in Signers
      /\ Len(segments) = s.segments
      /\ new = <<>> \/ Len(rows) = s.persisted
      /\ rows' = rows \o new
      /\ segments' = Append(segments, [first |-> s.persisted + 1, count |-> Len(new),
                                       bases |-> s.bases, body |-> new])
      /\ session' = [session EXCEPT ![p] = Persisted(s, Len(new))]

CreateCommits(p) ==
  /\ pc[p] = "laid"
  /\ WriteSegment(p)
  /\ pc' = [pc EXCEPT ![p] = "open"]
  /\ UNCHANGED <<exists, lock, scan>>

(* open() for writing: nothing else writes while the lock is held, so its  *)
(* reads form one step.  `expected` is the caller's base map (_extend_     *)
(* bases): a superset of the stored one; families it adds make the session *)
(* dirty.                                                                  *)
OpenForWrite(p, expected) ==
  /\ pc[p] = "opening"
  /\ exists
  /\ Valid(segments, rows)
  /\ Len(segments) < MaxSegments
  /\ KeepsBases(StoredBases(segments), expected)
  /\ ValidBases(expected)
  /\ session' = [session EXCEPT ![p] = [records   |-> rows,
                                        persisted |-> Len(rows),
                                        segments  |-> Len(segments),
                                        bases     |-> expected,
                                        dirty     |-> expected # StoredBases(segments)]]
  /\ pc' = [pc EXCEPT ![p] = "open"]
  /\ UNCHANGED <<disk, lock, scan>>

\* open() raises: no file, no container, an invalid one, or a series, trusted
\* key or base map the caller does not agree with.  The lock is dropped.
OpenRefused(p) ==
  /\ pc[p] = "opening"
  /\ lock' = None
  /\ Leave(p)
  /\ UNCHANGED disk

\* _append: one record more, which becomes the live binding of its key.
AppendRecord(p, rec) ==
  /\ Len(session[p].records) < MaxRows
  /\ session' = [session EXCEPT ![p] = [session[p] EXCEPT !.records = Append(@, rec),
                                                          !.dirty   = TRUE]]
  /\ UNCHANGED <<disk, lock, pc, scan>>

\* _mint: the next number of the family; None supersedes nothing.
Mint(p, k, f, superseded) ==
  /\ f \in DOMAIN session[p].bases
  /\ \E highest \in AssignedNumbers(session[p].records, f) \cup {0} :
       /\ \A n \in AssignedNumbers(session[p].records, f) : n <= highest
       /\ AppendRecord(p, [key |-> k, family |-> f, alias |-> FALSE,
                           id |-> [base |-> session[p].bases[f], num |-> highest + 1],
                           supersedes |-> superseded])

(* assign(): a new key mints; an aliased key mints when the caller         *)
(* supersedes.  Every other call returns the bound id or raises.           *)
Assign(p, k, f) ==
  LET recs == session[p].records
  IN  /\ pc[p] = "open"
      /\ \/ Unbound(recs, k) /\ Mint(p, k, f, None)
         \/ \E i \in Newest(recs, k) : recs[i].alias /\ Mint(p, k, f, LiveId(recs[i]))

(* alias(): a new key points at an assigned id; an assigned key moves to   *)
(* another id when the caller supersedes.                                  *)
Alias(p, k, target) ==
  LET recs == session[p].records
      AliasRecord(superseded) == [key |-> k, family |-> None, alias |-> TRUE,
                                  id |-> target, supersedes |-> superseded]
  IN  /\ pc[p] = "open"
      /\ target \in AssignedIds(recs)
      /\ \/ Unbound(recs, k) /\ AppendRecord(p, AliasRecord(None))
         \/ \E i \in Newest(recs, k) :
              /\ ~recs[i].alias
              /\ recs[i].id # target
              /\ AppendRecord(p, AliasRecord(LiveId(recs[i])))

\* close() of a changed ledger: the segment is durable, the lock still there.
CloseCommits(p) ==
  /\ pc[p] = "open"
  /\ session[p].dirty
  /\ WriteSegment(p)
  /\ pc' = [pc EXCEPT ![p] = "closing"]
  /\ UNCHANGED <<exists, lock, scan>>

\* close() unlinks the lock: after its commit, or at once when nothing changed.
Unlock(p) ==
  /\ pc[p] = "closing" \/ (pc[p] = "open" /\ ~session[p].dirty)
  /\ lock' = None
  /\ Leave(p)
  /\ UNCHANGED disk

(* A read-only open fetches the segments and the records with two SELECTs  *)
(* of an autocommit connection: a writer can commit between them.          *)
ScanSegments(p) ==
  /\ pc[p] = "idle"
  /\ exists /\ segments # <<>>
  /\ scan' = [scan EXCEPT ![p] = segments]
  /\ pc' = [pc EXCEPT ![p] = "scanning"]
  /\ UNCHANGED <<disk, lock, session>>

ScanRecords(p) ==
  /\ pc[p] = "scanning"
  /\ \/ /\ Valid(scan[p], rows)
        /\ pc' = [pc EXCEPT ![p] = "reading"]
        /\ session' = [session EXCEPT ![p] = [records   |-> rows,
                                              persisted |-> Len(rows),
                                              segments  |-> Len(scan[p]),
                                              bases     |-> StoredBases(scan[p]),
                                              dirty     |-> FALSE]]
     \/ /\ ~Valid(scan[p], rows)
        /\ pc' = [pc EXCEPT ![p] = "refused"]
        /\ UNCHANGED session
  /\ scan' = [scan EXCEPT ![p] = <<>>]
  /\ UNCHANGED <<disk, lock>>

\* Faulty: close() of a read-only ledger unlinks the lock file.
CloseReaderUnlocking(p) ==
  /\ pc[p] \in {"reading", "refused"}
  /\ Leave(p)
  /\ lock' = None
  /\ UNCHANGED disk

\* close() of a read-only ledger touches no file.
CloseReader(p) ==
  /\ pc[p] \in {"reading", "refused"}
  /\ Leave(p)
  /\ UNCHANGED <<disk, lock>>

\* The process dies: what it had in memory is gone, its lock file is not.
Crash(p) ==
  /\ pc[p] # "idle"
  /\ Leave(p)
  /\ UNCHANGED <<disk, lock>>

\* The manual remedy: an operator deletes the lock of a process that is gone.
BreakLock(p) ==
  /\ lock = p
  /\ pc[p] \notin Writing
  /\ lock' = None
  /\ UNCHANGED <<disk, pc, session, scan>>

Open(p)  == AcquireLock(p, "opening") \/ \E expected \in Schemes : OpenForWrite(p, expected)
Create(p) == \/ AcquireLock(p, "creating")
             \/ \E bases \in Schemes : LayDownSchema(p, bases)
             \/ CreateCommits(p)
Close(p) == CloseCommits(p) \/ Unlock(p)
Refuse(p) == CreateRefused(p) \/ CreateFails(p) \/ OpenRefused(p)
Use(p)   == \E k \in Keys : \/ \E f \in Families : Assign(p, k, f)
                            \/ \E i \in DOMAIN session[p].records :
                                 Alias(p, k, session[p].records[i].id)
Read(p)  == ScanSegments(p) \/ ScanRecords(p) \/ CloseReader(p)

Next == \E p \in Procs :
  Create(p) \/ Open(p) \/ Use(p) \/ Close(p) \/ Refuse(p) \/ Read(p) \/ Crash(p) \/ BreakLock(p)

Spec == Init /\ [][Next]_vars

\* A call that runs and a `with` block that is entered come to their end.
Finish(p) == lock = p /\ (Create(p) \/ Open(p) \/ Close(p) \/ Refuse(p))

FairSpec == Spec /\ \A p \in Procs : WF_vars(Finish(p))
-----------------------------------------------------------------------------
TypeOK ==
  /\ exists \in BOOLEAN
  /\ rows \in Seq(Records)
  /\ segments \in Seq(Segments)
  /\ lock \in Procs \cup {None}
  /\ pc \in [Procs -> {"idle", "scanning", "reading", "refused"} \cup Writing]
  /\ session \in [Procs -> Sessions]
  /\ scan \in [Procs -> Seq(Segments)]

(* A process inside create, a write-mode open or a write session holds the *)
(* lock file: no refusal, close or clean-up of another process ever takes  *)
(* it away, so at most one process is writing.                             *)
LockOwned == \A p \in Procs : pc[p] \in Writing => lock = p

(* What a write session believes is stored is what is stored: the file's   *)
(* records are the first `persisted` records of the session, and its       *)
(* segments are counted.  Otherwise the next segment is signed over the    *)
(* wrong range, or its INSERT collides and close() can never succeed.      *)
SessionCurrent ==
  \A p \in Procs : pc[p] \in {"laid", "open", "closing"} =>
    /\ session[p].segments = Len(segments)
    /\ session[p].persisted = Len(rows)
    /\ IsPrefix(rows, session[p].records)
    /\ session[p].dirty \/ rows = session[p].records

(* Everything a session writes is accepted by the next open: the segments  *)
(* partition the records, each signature covers the records it was made    *)
(* for, ids are unique and in their family's base, and every re-binding    *)
(* names the binding it replaces.                                          *)
DurableValid == segments # <<>> => Valid(segments, rows)

(* A container that has a segment is never overwritten, truncated or       *)
(* removed: whatever two creates, openers and closers do, rows and         *)
(* segments only grow at the end.                                          *)
AppendOnly == [][segments # <<>> => /\ IsPrefix(rows, rows')
                                    /\ IsPrefix(segments, segments')]_vars

(* Every call and session of a process that can sign ends with the lock    *)
(* released, unless the process dies: close() never finds a state in which *)
(* its segment cannot be inserted.                                         *)
SessionEnds == \A p \in Signers : lock = p ~> (lock # p \/ pc[p] \notin Writing)

(* open() says of read_only: "this succeeds even while another process     *)
(* holds the write lock".                                                  *)
ReadOnlyOpenSucceeds == \A p \in Procs : pc[p] # "refused"
-----------------------------------------------------------------------------
(* The ledger implements an append-only registry of ids that its users     *)
(* read and publish to atomically.                                         *)

RegistryOf(recs) ==
  [owners   |-> {<<recs[i].id, recs[i].key>> : i \in {j \in DOMAIN recs : ~recs[j].alias}},
   bindings |-> {<<recs[i].key, recs[i].id>> :
                   i \in UNION {Newest(recs, recs[j].key) : j \in DOMAIN recs}}]

Registry == INSTANCE IdRegistry WITH
  registry <- RegistryOf(rows),
  view     <- [p \in Procs |-> IF pc[p] \in {"open", "closing", "reading"}
                               THEN RegistryOf(SubSeq(session[p].records, 1, session[p].persisted))
                               ELSE None]

(* Each committed segment is one atomic publication made on top of the     *)
(* very registry its session had read, so no session's ids are lost or     *)
(* issued twice, and what a reader is shown was the registry at one moment.*)
ImplementsRegistry == Registry!Spec
=============================================================================
