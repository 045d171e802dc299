------------------------------ MODULE MongoSave ------------------------------
(***************************************************************************)
(* Saves of MongoStore (backend/mongo/store.py) and the repairs of its     *)
(* fsck (backend/mongo/fsck.py).  On a standalone server each write is     *)
(* durable by itself: an identity claim, the document, the dispatch        *)
(* document.  On a replica set a save is a transaction, run again from the *)
(* start as long as it conflicts with another, or belongs to one that its  *)
(* caller opened and ends.  The lease protocol that keeps fsck and saves   *)
(* apart is MongoLeases.                                                   *)
(*                                                                         *)
(* The database is a function from keys to values, and a transaction its   *)
(* snapshot and the keys it has written.                                   *)
(***************************************************************************)
EXTENDS Naturals, Sequences, FiniteSets

CONSTANTS
  Stores,        \* the stores, one to a process
  Objects,       \* the objects that are saved
  Content,       \* the content identity of each; each content has a collection
  Refs,          \* the objects it refers to
  Listed,        \* those of them in lists, which a value is not compared by
  Policy,        \* the dedup policy of each content's record type
  Entries,       \* the contents of a family with several backings
  GivenId,       \* the entry id an object brings, or None to have one minted
  Calls,         \* the objects that are saved by themselves
  MaxCalls,      \* how many saves are started, and one more after each run of fsck
  MaxFaults,     \* how many operations fail or processes die
  MaxFsck,       \* how many times fsck runs
  Attempts,      \* how often a conflicting transaction is run
  Deployments,   \* "standalone", "replica set"
  FsckDiesAt,    \* the stages of fsck at which its process may die
  None           \* no value

Collections == {Content[o] : o \in Objects}

\* A document is known by its collection and its sid.
Sid == Collections \X (Nat \ {0})
DocType == [obj : Objects, refs : SUBSET Sid, compared : SUBSET Sid, role : {"main", "dep"}]
RunType == [by : Stores, stage : {"repair", "sweep", "end"}]

ASSUME SaveAssumption ==
  /\ IsFiniteSet(Objects)
  /\ Refs \in [Objects -> SUBSET Objects] /\ \A o \in Objects : Listed[o] \subseteq Refs[o]
  /\ \A c \in Collections : Policy[c] \in {"content_id", "by_value", "none"}
  /\ Calls \subseteq Objects /\ {MaxCalls, MaxFaults, MaxFsck} \subseteq Nat /\ Attempts \in Nat \ {0}
  /\ Deployments \subseteq {"standalone", "replica set"} /\ FsckDiesAt \subseteq {"repair", "sweep", "end"}

ASSUME NoneAssumption == None \notin Objects \cup Nat \cup Sid \cup DocType \cup RunType

\* The content identity of a record takes in those of what it refers to, so
\* none is a part of itself.
ASSUME PartsAssumption ==
  \E rank \in [Collections -> 1 .. Cardinality(Objects)] :
    \A o \in Objects : \A q \in Refs[o] : rank[Content[q]] < rank[Content[o]]

VARIABLES
  deployment,  \* what the server is
  db,          \* the durable value of each key
  txn,         \* the transaction of each store: its snapshot, its writes, and,
               \* if its caller opened it, what its saves found and returned
  op,          \* the save each store is in
  known,       \* the objects each store has in its identity cache, with their sids
  seen,        \* the layout generation each store has observed
  gen,         \* the layout generation
  fsck,        \* the run of fsck: who and where, or None
  returned,    \* what saves have returned for which object
  used         \* calls, faults and runs of fsck so far

vars == <<deployment, db, txn, op, known, seen, gen, fsck, returned, used>>

At(f, k) == IF k \in DOMAIN f THEN f[k] ELSE None
Put(k, v) == [q \in {k} |-> v]
Over(new, old) == [k \in DOMAIN new \cup DOMAIN old |-> IF k \in DOMAIN new THEN new[k] ELSE old[k]]

\* The keys: a document by its collection and sid, a unique index entry, a
\* dispatch document, an identity claim, the sid counter of a collection.
Doc(s) == <<"doc", s>>
Index(c) == <<"index", c>>
Route(c) == <<"dispatch", c>>
Claim(kind, value) == <<"claim", kind, value>>
Counter(c) == <<"counter", c>>

Sids(f) == {k[2] : k \in {q \in DOMAIN f : q[1] = "doc" /\ f[q] # None}}
Document(f, s) == f[Doc(s)]
IdOf(o, s) == IF GivenId[o] # None THEN GivenId[o] ELSE s

Transactional == deployment = "replica set"
View(p) == IF Transactional THEN Over(txn[p].writes, txn[p].snapshot) ELSE db

\* The database refuses a transaction a key that another one has written, or
\* has changed since the snapshot.
Conflict(p, k) ==
  /\ Transactional
  /\ \/ At(db, k) # At(txn[p].snapshot, k)
     \/ \E q \in Stores \ {p} : k \in DOMAIN txn[q].writes

Write(p, values) ==
  IF Transactional THEN txn' = [txn EXCEPT ![p].writes = Over(values, @)] /\ UNCHANGED db
                   ELSE db' = Over(values, db) /\ UNCHANGED txn

Nothing == [k \in {} |-> None]
NoTxn == [snapshot |-> Nothing, writes |-> Nothing, open |-> FALSE, pending |-> {}, answers |-> {}]
Frame(o, top, mark) ==
  [obj |-> o, top |-> top, stage |-> "find", todo |-> Refs[o], got |-> {}, compared |-> {}, sid |-> None, mark |-> mark]
Idle == [call |-> None, attempt |-> 0, frames |-> <<>>, memo |-> {}, inserted |-> <<>>]
Begun(o, n) == [Idle EXCEPT !.call = o, !.attempt = n, !.frames = <<Frame(o, TRUE, 0)>>]

Init ==
  /\ deployment \in Deployments
  /\ db = Nothing
  /\ txn = [p \in Stores |-> NoTxn] /\ op = [p \in Stores |-> Idle]
  /\ known = [p \in Stores |-> {}]
  /\ seen = [p \in Stores |-> 0] /\ gen = 0
  /\ fsck = None /\ returned = {}
  /\ used = [calls |-> 0, faults |-> 0, runs |-> 0]

Settled == UNCHANGED <<known, seen, gen, fsck, returned, used>>
-----------------------------------------------------------------------------
(* A save.                                                                 *)

\* Faulty: the caches outlive what fsck has swept.
KeepKnown(p) == known[p]

\* _observe_generation: the writer lease shows it, and a new one clears the
\* caches.
Observed(p) == IF seen[p] = gen THEN known[p] ELSE {}

\* _save_graph.
Start(p, o) ==
  /\ op[p].call = None /\ fsck = None /\ used.calls < MaxCalls + used.runs
  /\ used' = [used EXCEPT !.calls = @ + 1]
  /\ op' = [op EXCEPT ![p] = Begun(o, 1)]
  /\ txn' = [txn EXCEPT ![p].snapshot = IF Transactional /\ ~txn[p].open THEN db ELSE @]
  /\ known' = [known EXCEPT ![p] = Observed(p)]
  /\ seen' = [seen EXCEPT ![p] = gen]
  /\ UNCHANGED <<deployment, db, gen, fsck, returned>>

\* _transaction_scope: the caller opens a transaction for his next saves.
OpenTransaction(p) ==
  /\ Transactional /\ ~txn[p].open /\ op[p].call = None /\ fsck = None /\ used.calls < MaxCalls + used.runs
  /\ txn' = [txn EXCEPT ![p] = [NoTxn EXCEPT !.snapshot = db, !.open = TRUE]]
  /\ known' = [known EXCEPT ![p] = Observed(p)]
  /\ seen' = [seen EXCEPT ![p] = gen]
  /\ UNCHANGED <<deployment, db, op, gen, fsck, returned, used>>

Top(p) == op[p].frames[Len(op[p].frames)]
In(p, stage) == op[p].frames # <<>> /\ Top(p).stage = stage
At_(p, f) == [op EXCEPT ![p].frames[Len(op[p].frames)] = f]

\* encode_record saves the references one by one.
Descended(save) ==
  LET n == Len(save.frames)
  IN IF n > 0 /\ save.frames[n].stage = "refs" /\ save.frames[n].todo # {}
     THEN [save EXCEPT !.frames = Append(@, Frame(CHOOSE r \in @[n].todo : TRUE, FALSE, Len(save.inserted)))]
     ELSE save

Took(frame, o, s) ==
  [frame EXCEPT !.got = @ \cup {s}, !.compared = IF o \in Listed[frame.obj] THEN @ ELSE @ \cup {s}, !.todo = @ \ {o}]

\* The frame on top is done and hands its sid to the one below.
Popped(save, s) ==
  LET n == Len(save.frames)
      o == save.frames[n].obj
  IN [save EXCEPT !.memo = @ \cup {[obj |-> o, sid |-> s]},
                  !.frames = IF n = 1 THEN <<>> ELSE Append(SubSeq(@, 1, n - 2), Took(@[n - 1], o, s))]

HandDown(save, s) == Descended(Popped(save, s))

Given(p, s) == HandDown(op[p], s)

Give(p, s) == op' = [op EXCEPT ![p] = Given(p, s)]

\* Faulty: a document goes without its immutable id's claim.
ClaimIdOnly(o, s) == IF Content[o] \in Entries THEN <<Claim("id", IdOf(o, s))>> ELSE <<>>

\* The claims of an entry document: its id, then its immutable id.
ClaimsOf(o, s) ==
  IF Content[o] \in Entries THEN <<Claim("id", IdOf(o, s)), Claim("immutable_id", IdOf(o, s))>> ELSE <<>>

Claimed(f, s) == LET claims == ClaimsOf(Document(f, s).obj, s) IN {claims[i] : i \in DOMAIN claims}

\* Faulty: a dependency stays one.
PromoteNothing(p, s) == Nothing

\* A dependency that is saved by itself becomes a main document.
Promotion(p, s) ==
  IF Top(p).top /\ Document(View(p), s).role = "dep"
  THEN Put(Doc(s), [Document(View(p), s) EXCEPT !.role = "main"]) ELSE Nothing

\* What a stored record is given when a save finds it: its role, and, by
\* _check_metadata, the claims it lacks.
Adoption(p, s) ==
  Over(Promotion(p, s), [k \in {c \in Claimed(View(p), s) : At(View(p), c) = None} |-> s])

Objs(found) == {m.obj : m \in found}

\* An error leaves the save, and the transaction it is in: nothing of that
\* stays.  Without a transaction all that was written does.
Leave(p) ==
  /\ op' = [op EXCEPT ![p] = Idle]
  /\ txn' = [txn EXCEPT ![p] = NoTxn]
  /\ known' = [known EXCEPT ![p] = IF txn[p].open THEN {} ELSE @]
  /\ UNCHANGED <<deployment, db, seen, gen, fsck, returned>>

\* The caller of a save in his own transaction may also go on after an error
\* that the database does not know of.
Raise(p) ==
  /\ UNCHANGED used
  /\ \/ Leave(p)
     \/ /\ txn[p].open
        /\ op' = [op EXCEPT ![p] = Idle]
        /\ UNCHANGED <<deployment, db, txn, known, seen, gen, fsck, returned>>

\* Faulty: one attempt too many.
OneMore(p) == op[p].attempt <= Attempts

AttemptsLeft(p) == op[p].attempt < Attempts

\* _save_implicit_transaction: run again, and give up after Attempts.
Again(p) ==
  IF txn[p].open THEN Leave(p) ELSE
  /\ IF AttemptsLeft(p)
     THEN /\ op' = [op EXCEPT ![p] = Begun(@.call, @.attempt + 1)]
          /\ txn' = [txn EXCEPT ![p] = [NoTxn EXCEPT !.snapshot = db]]
          /\ UNCHANGED known
     ELSE /\ op' = [op EXCEPT ![p] = Idle]
          /\ txn' = [txn EXCEPT ![p] = NoTxn]
          /\ known' = [known EXCEPT ![p] = {}]
  /\ UNCHANGED <<deployment, db, seen, gen, fsck, returned>>

Retry(p) == Again(p) /\ UNCHANGED used

\* A record that this save has stored already, or that is found by content.
Find(p) ==
  /\ In(p, "find")
  /\ LET o == Top(p).obj
         mine == {m \in op[p].memo : m.obj = o}
         hit == IF Policy[Content[o]] = "content_id" THEN At(View(p), Index(Content[o])) ELSE None
     IN IF mine # {} THEN /\ Give(p, (CHOOSE m \in mine : TRUE).sid)
                          /\ UNCHANGED <<deployment, db, txn>> /\ Settled
        ELSE IF hit = None THEN
          /\ op' = [op EXCEPT ![p] = Descended([op[p] EXCEPT !.frames[Len(op[p].frames)].stage = "refs"])]
          /\ UNCHANGED <<deployment, db, txn>> /\ Settled
        ELSE IF \E k \in DOMAIN Adoption(p, hit) : Conflict(p, k) THEN Retry(p)
        ELSE /\ op' = [op EXCEPT ![p] = HandDown(op[p], hit)]
             /\ Write(p, Adoption(p, hit))
             /\ UNCHANGED deployment /\ Settled

\* The documents of a by-value collection with the same value.
Same(p, o) ==
  {s \in Sids(View(p)) : LET d == Document(View(p), s)
                         IN Policy[Content[o]] = "by_value" /\ Content[d.obj] = Content[o] /\ d.compared = Top(p).compared}

\* Faulty: all that the save has inserted is taken back.
AllInserted(p) == {op[p].inserted[i] : i \in DOMAIN op[p].inserted}

\* What was inserted for the record on top.
Inserted(p) ==
  {op[p].inserted[i] : i \in Top(p).mark + 1 .. Len(op[p].inserted)}

\* Faulty: what is taken back is still remembered.
ForgetNothing(p) == op[p].memo

Forget(p) == {m \in op[p].memo : m.sid \notin Inserted(p)}

\* _discard_inserts: only a transaction takes back what it inserted for a
\* record that turned out to be stored.
Undone(p) ==
  [k \in UNION {{Doc(s)} \cup Claimed(View(p), s)
                   \cup (IF Policy[s[1]] = "content_id" THEN {Index(s[1])} ELSE {}) : s \in Inserted(p)} |-> None]

\* A value that is stored.
FindValue(p) ==
  /\ In(p, "refs") /\ Top(p).todo = {} /\ Same(p, Top(p).obj) # {}
  /\ LET s == CHOOSE t \in Same(p, Top(p).obj) : TRUE
     IN IF \E k \in DOMAIN Adoption(p, s) : Conflict(p, k) THEN Retry(p)
        ELSE /\ Write(p, Over(Adoption(p, s), IF Transactional THEN Undone(p) ELSE Nothing))
             /\ op' = [op EXCEPT ![p] =
                  IF Transactional
                  THEN HandDown([op[p] EXCEPT !.memo = Forget(p), !.inserted = SubSeq(@, 1, Top(p).mark)], s)
                  ELSE Given(p, s)]
             /\ UNCHANGED deployment /\ Settled

\* Another entry has the id that this object brings.
IdTaken(p, o) ==
  /\ Content[o] \in Entries /\ GivenId[o] # None
  /\ \E s \in Sids(View(p)) : s[1] \in Entries /\ IdOf(Document(View(p), s).obj, s) = GivenId[o]

\* counter_next and _prepare_entry_ids.
Number(p) ==
  /\ In(p, "refs") /\ Top(p).todo = {} /\ Same(p, Top(p).obj) = {}
  /\ LET o == Top(p).obj
         c == Content[o]
         n == At(View(p), Counter(c))
         s == <<c, IF n = None THEN 1 ELSE n + 1>>
     IN IF Conflict(p, Counter(c)) THEN Retry(p)
        ELSE IF IdTaken(p, o) THEN Raise(p)
        ELSE /\ Write(p, Put(Counter(c), s[2]))
             /\ op' = At_(p, [Top(p) EXCEPT !.sid = s, !.stage = IF Transactional THEN "insert" ELSE "claim"])
             /\ UNCHANGED deployment /\ Settled

Wanting(p) == ClaimsOf(Top(p).obj, Top(p).sid)
Unclaimed(p) == {i \in DOMAIN Wanting(p) : At(View(p), Wanting(p)[i]) # Top(p).sid}

\* _claim_entry_identity, one upsert at a time: before the document without
\* transactions, and after it with them.  A duplicate aborts the transaction.
ClaimIdentity(p) ==
  /\ In(p, "claim")
  /\ LET i == CHOOSE j \in Unclaimed(p) : \A k \in Unclaimed(p) : j <= k
     IN IF Unclaimed(p) = {}
        THEN /\ IF Transactional THEN Give(p, Top(p).sid) ELSE op' = At_(p, [Top(p) EXCEPT !.stage = "insert"])
             /\ UNCHANGED <<deployment, db, txn>> /\ Settled
        ELSE IF Conflict(p, Wanting(p)[i]) THEN Retry(p)
        ELSE IF At(View(p), Wanting(p)[i]) # None THEN Leave(p) /\ UNCHANGED used
        ELSE /\ Write(p, Put(Wanting(p)[i], Top(p).sid))
             /\ UNCHANGED <<deployment, op>> /\ Settled

\* insert_one.  The unique index of content decides between two saves: the
\* loser takes the winner's document, or its transaction runs again.
Insert(p) ==
  /\ In(p, "insert")
  /\ LET f == Top(p)
         c == Content[f.obj]
         s == f.sid
         unique == Policy[c] = "content_id"
         winner == IF unique THEN At(View(p), Index(c)) ELSE None
         document == Put(Doc(s), [obj |-> f.obj, refs |-> f.got, compared |-> f.compared,
                                  role |-> IF f.top THEN "main" ELSE "dep"])
         values == IF unique THEN Over(document, Put(Index(c), s)) ELSE document
     IN IF (\E k \in DOMAIN values : Conflict(p, k)) \/ (Transactional /\ winner # None) THEN Retry(p)
        ELSE IF winner # None
        THEN /\ Write(p, Adoption(p, winner))
             /\ Give(p, winner)
             /\ UNCHANGED deployment /\ Settled
        ELSE /\ Write(p, values)
             /\ op' = [op EXCEPT ![p] =
                  IF Transactional THEN [op[p] EXCEPT !.inserted = Append(@, s),
                                                      !.frames[Len(op[p].frames)].stage = "claim"]
                  ELSE HandDown([op[p] EXCEPT !.inserted = Append(@, s)], s)]
             /\ UNCHANGED deployment /\ Settled

Saved(p) == (CHOOSE m \in op[p].memo : m.obj = op[p].call).sid
InDispatch(p) == op[p].call # None /\ op[p].frames = <<>>
Dispatched(p) == Saved(p)[1] \notin Entries \/ At(View(p), Route(Saved(p)[1])) = Saved(p)

\* _save_entry_dispatch.
Dispatch(p) ==
  /\ InDispatch(p) /\ ~Dispatched(p)
  /\ LET k == Route(Saved(p)[1])
     IN IF Conflict(p, k) THEN Retry(p)
        ELSE IF At(View(p), k) # None THEN Raise(p)
        ELSE Write(p, Put(k, Saved(p))) /\ UNCHANGED <<deployment, op>> /\ Settled

Learned(p, found) == {k \in known[p] : k.obj \notin Objs(found)} \cup found
Answer(p) == [obj |-> op[p].call, sid |-> Saved(p)]

\* The end of _save_once, the commit, and the caches: at once, or when the
\* caller ends his transaction.
Finish(p) ==
  /\ InDispatch(p) /\ Dispatched(p)
  /\ op' = [op EXCEPT ![p] = Idle]
  /\ IF txn[p].open
     THEN /\ txn' = [txn EXCEPT ![p].pending = @ \cup op[p].memo, ![p].answers = @ \cup {Answer(p)}]
          /\ UNCHANGED <<db, known, returned>>
     ELSE /\ db' = Over(txn[p].writes, db)
          /\ txn' = [txn EXCEPT ![p] = NoTxn]
          /\ known' = [known EXCEPT ![p] = Learned(p, op[p].memo)]
          /\ returned' = returned \cup {Answer(p)}
  /\ UNCHANGED <<deployment, seen, gen, fsck, used>>

CommitTransaction(p) ==
  /\ txn[p].open /\ op[p].call = None
  /\ db' = Over(txn[p].writes, db)
  /\ known' = [known EXCEPT ![p] = Learned(p, txn[p].pending)]
  /\ returned' = returned \cup txn[p].answers
  /\ txn' = [txn EXCEPT ![p] = NoTxn]
  /\ UNCHANGED <<deployment, op, seen, gen, fsck, used>>

\* The caller leaves the transaction with an error, or the commit fails.
RollBack(p) == txn[p].open /\ op[p].call = None /\ Leave(p) /\ UNCHANGED used

SaveStep(p) ==
  \/ Find(p) \/ FindValue(p) \/ Number(p) \/ ClaimIdentity(p) \/ Insert(p) \/ Dispatch(p) \/ Finish(p)

\* An operation fails in the middle of a save: for good, or as a transient
\* error of a transaction.  The last operation is the commit.
Fault(p) ==
  /\ op[p].call # None /\ used.faults < MaxFaults
  /\ used' = [used EXCEPT !.faults = @ + 1]
  /\ Leave(p) \/ (Transactional /\ Again(p))

\* A process dies, and another one opens the store.
Restarted(p) ==
  /\ known' = [known EXCEPT ![p] = {}] /\ seen' = [seen EXCEPT ![p] = gen]
  /\ UNCHANGED returned

Die(p) ==
  /\ op[p].call # None \/ txn[p].open
  /\ used.faults < MaxFaults /\ used' = [used EXCEPT !.faults = @ + 1]
  /\ op' = [op EXCEPT ![p] = Idle] /\ txn' = [txn EXCEPT ![p] = NoTxn]
  /\ Restarted(p)
  /\ UNCHANGED <<deployment, db, gen, fsck>>
-----------------------------------------------------------------------------
(* fsck: it excludes saves.                                                *)

Mains(f) == {s \in Sids(f) : Document(f, s).role = "main"}

FsckStart(p) ==
  /\ fsck = None /\ used.runs < MaxFsck
  /\ \A q \in Stores : op[q].call = None /\ ~txn[q].open
  /\ used' = [used EXCEPT !.runs = @ + 1]
  /\ gen' = gen + 1
  /\ fsck' = [by |-> p, stage |-> "repair"]
  /\ UNCHANGED <<deployment, db, txn, op, known, seen, returned>>

\* Faulty: dispatch documents of main documents are not put back.
NoRepair(f) == Nothing

\* _integrity_pass: a main document without dispatch gets one.
Missing(f) ==
  {s \in Mains(f) : s[1] \in Entries /\ Policy[s[1]] = "content_id" /\ At(f, Route(s[1])) = None}
Repairs(f) == [k \in {Route(s[1]) : s \in Missing(f)} |-> CHOOSE s \in Missing(f) : k = Route(s[1])]

FsckRepair ==
  /\ fsck # None /\ fsck.stage = "repair"
  /\ db' = Over(Repairs(db), db)
  /\ fsck' = [fsck EXCEPT !.stage = "sweep"]
  /\ UNCHANGED <<deployment, txn, op, known, seen, gen, returned, used>>

\* _mark: main documents, what dispatch documents name, and what they refer to.
Roots(f) == Mains(f) \cup ({f[k] : k \in {q \in DOMAIN f : q[1] = "dispatch"}} \cap Sids(f))
Referred(f, X) == UNION {Document(f, s).refs : s \in X \cap Sids(f)}
Marked(f) ==
  LET reach[n \in Nat] ==
        IF n = 0 THEN Roots(f) ELSE LET before == reach[n - 1] IN before \cup Referred(f, before)
  IN reach[Cardinality(Objects)]

Garbage(f) == {s \in Sids(f) \ Marked(f) : Document(f, s).role = "dep"}

\* _sweep: one delete_many for each collection.
FsckSweep(c) ==
  /\ fsck # None /\ fsck.stage = "sweep"
  /\ LET gone == {s \in Garbage(db) : s[1] = c}
     IN /\ gone # {}
        /\ db' = Over([k \in {Doc(s) : s \in gone} \cup (IF Policy[c] = "content_id" THEN {Index(c)} ELSE {}) |-> None], db)
  /\ UNCHANGED <<deployment, txn, op, known, seen, gen, fsck, returned, used>>

\* Faulty: claims are checked against nothing.
NoOrphans(f) == {}

Orphans(f) == {k \in DOMAIN f : k[1] = "claim" /\ f[k] # None /\ f[k] \notin Sids(f)}

\* _sync_identity_ownership: claims without a document go, and documents get
\* the claims they lack.
FsckReconcile ==
  /\ fsck # None /\ fsck.stage = "sweep" /\ Garbage(db) = {}
  /\ db' = LET owners(k) == {s \in Sids(db) : k \in Claimed(db, s)}
               lacking == {k \in UNION {Claimed(db, s) : s \in Sids(db)} : At(db, k) = None \/ k \in Orphans(db)}
           IN Over([k \in lacking |-> CHOOSE s \in owners(k) : TRUE], Over([k \in Orphans(db) |-> None], db))
  /\ fsck' = [fsck EXCEPT !.stage = "end"]
  /\ UNCHANGED <<deployment, txn, op, known, seen, gen, returned, used>>

FsckEnd ==
  /\ fsck # None /\ fsck.stage = "end"
  /\ known' = [known EXCEPT ![fsck.by] = {}]
  /\ seen' = [seen EXCEPT ![fsck.by] = gen]
  /\ fsck' = None
  /\ UNCHANGED <<deployment, db, txn, op, gen, returned, used>>

FsckDies ==
  /\ fsck # None /\ fsck.stage \in FsckDiesAt
  /\ used.faults < MaxFaults /\ used' = [used EXCEPT !.faults = @ + 1]
  /\ fsck' = None
  /\ Restarted(fsck.by)
  /\ UNCHANGED <<deployment, db, txn, op, gen>>

FsckStep == FsckRepair \/ (\E c \in Collections : FsckSweep(c)) \/ FsckReconcile \/ FsckEnd
-----------------------------------------------------------------------------
Next ==
  \/ \E p \in Stores :
       \/ \E o \in Calls : Start(p, o)
       \/ OpenTransaction(p) \/ CommitTransaction(p) \/ RollBack(p)
       \/ SaveStep(p) \/ Fault(p) \/ Die(p) \/ FsckStart(p)
  \/ FsckStep \/ FsckDies

Spec == Init /\ [][Next]_vars
-----------------------------------------------------------------------------
(* Properties.                                                             *)

\* The types of the variables.
TypeOK ==
  /\ deployment \in Deployments
  /\ \A s \in Sids(db) : LET d == Document(db, s)
                         IN d.obj \in Objects /\ s[1] = Content[d.obj] /\ s[2] \in Nat \ {0} /\ d.role \in {"main", "dep"}
  /\ \A p \in Stores : /\ op[p].call \in Calls \cup {None} /\ op[p].attempt \in 0 .. Attempts
                       /\ seen[p] \in 0 .. gen
  /\ fsck # None => fsck.by \in Stores /\ fsck.stage \in {"repair", "sweep", "end"}

(* What a durable document refers to is durable, whoever was interrupted   *)
(* or took his inserts back: one save may have found what another wrote.   *)
(* While fsck sweeps, that holds of what main documents reach.             *)
ReferencesWhole ==
  LET sids == Sids(db)
      reached == IF fsck = None THEN sids ELSE Marked(db)
  IN reached \subseteq sids /\ \A s \in reached : Document(db, s).refs \subseteq sids

(* What a save has returned stays: a main document with that content,      *)
(* reached through its dispatch document and owner of its identities.      *)
SavesStay ==
  \A r \in returned :
    /\ r.sid \in Sids(db) /\ Document(db, r.sid).role = "main"
    /\ r.sid[1] = Content[r.obj]
    /\ r.sid[1] \in Entries => At(db, Route(r.sid[1])) = r.sid

(* No document without its identities: each durable entry owns the claims  *)
(* of its id and immutable id, so no other can take them.                  *)
IdentitiesOwned ==
  \A s \in Sids(db) : s[1] \in Entries =>
    \A kind \in {"id", "immutable_id"} : At(db, Claim(kind, IdOf(Document(db, s).obj, s))) = s

(* What a store remembers of an object is a document with its content, in  *)
(* the generation the store has seen: neither a rolled back attempt nor    *)
(* one that took its inserts back is remembered.                           *)
CachesTrue ==
  \A p \in Stores : seen[p] = gen /\ fsck = None =>
    \A k \in known[p] : k.sid \in Sids(db) /\ k.sid[1] = Content[k.obj]

(* However saves were interrupted, fsck leaves every main entry with its   *)
(* dispatch document, no dependency that nothing reaches and no claim      *)
(* without its document.                                                   *)
FsckRestores ==
  fsck # None /\ fsck.stage = "end" =>
    /\ \A s \in Mains(db) : s[1] \in Entries /\ Policy[s[1]] = "content_id" => At(db, Route(s[1])) = s
    /\ \A s \in Sids(db) : Document(db, s).role = "dep" => \E t \in Sids(db) : s \in Document(db, t).refs
    /\ \A k \in DOMAIN db : k[1] = "claim" /\ db[k] # None => db[k] \in Sids(db)

(* What is durable can be used at any moment: documents have all that they *)
(* refer to, and entries their identities.                                 *)
DocumentsWhole == ReferencesWhole /\ IdentitiesOwned
=============================================================================
