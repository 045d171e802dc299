--------------------------- MODULE SqlTransactions ---------------------------
(***************************************************************************)
(* The transactional write profile of SqlStore (backend/sql/store.py):     *)
(* several stores, each a process with its own caches, on one SQLite file  *)
(* or one PostgreSQL database.  A save goes down the graph of its object   *)
(* statement by statement: look the content up, save what it refers to,    *)
(* check the entry ids, insert the row, claim the ids, save the elements.  *)
(*                                                                         *)
(* SQLite lets one transaction write from its first write statement on,    *)
(* and gives the sid after the highest one again; the statements before    *)
(* read what is committed.  PostgreSQL runs READ COMMITTED: a statement    *)
(* sees what is committed when it starts, an insert waits for another      *)
(* transaction's row of the same key, and a sequence gives each sid once.  *)
(***************************************************************************)
EXTENDS Naturals, Sequences, FiniteSetsExt

CONSTANTS
  Stores,      \* SqlStore objects, one per process
  Engines,     \* the database engines to consider
  Objects,     \* the objects that callers save
  Content,     \* what content identity each of them has
  Meta,        \* its identity-skipped metadata
  Refs,        \* the objects it refers to
  Items,       \* the objects that are elements of its child tables
  Depth,       \* how deep the parts of each content are nested
  Policy,      \* the dedup policy of each content's record type
  Backing,     \* the backing table of each content that is an entry
  GivenId,     \* the entry id an object brings, or None
  Earlier,     \* the rows that the database has when the stores open it
  Requests,    \* the save and replace calls that are made
  MaxOps,      \* how many calls are made in all
  MaxClock,    \* the clock may show any of 1 .. MaxClock whenever it is read
  FsckOnline,  \* whether fsck runs beside open stores
  None         \* "no id", "no kind", "committed"

Contents == {Content[o] : o \in Objects}
Entries == DOMAIN Backing
SameTable(c, d) == (c \in Entries <=> d \in Entries) /\ (c \in Entries => Backing[c] = Backing[d])
Calls == [do : {"save", "replace"}, obj : Objects, old : Objects, of : {None} \cup {GivenId[o] : o \in Objects},
          kind : {None, "alternative"}]

\* What the variables and the tables hold.
Stages == {"lookup", "refs", "insert", "claim", "kids"}
Kinds == {None, "alternative"}
Sid == Nat \ {0}
EntryIds == {None} \cup {GivenId[o] : o \in Objects} \cup Seq(Nat)
Keys == [content : Contents, of : EntryIds, kind : Kinds]
Writers == Stores \cup {None}
RowType ==
  [sid : Sid, key : Keys, obj : Objects, refs : SUBSET Nat, kids : SUBSET Nat, kin : Sid, group : Sid,
   kind : Kinds, id : EntryIds, imm : {None} \cup (EntryIds \X Kinds \X Nat),
   ts : 1 .. MaxClock, who : Stores, torn : BOOLEAN, by : Writers]
CallType ==
  [obj : Objects, kin : Nat, group : Nat, id : EntryIds, of : EntryIds, kind : Kinds, sid : Nat,
   inserted : Seq(Sid), done : BOOLEAN]
FrameType ==
  [obj : Objects, stage : Stages, got : SUBSET (Objects \X Nat), sid : Nat, base : Nat]
LazyRow == [sid : Sid, key : Keys, tx : BOOLEAN]

\* Two tables say who owns an id, and who owns an immutable id: a group and a
\* row of a backing.
Owner(what, x) == <<Backing[x.key.content], IF what = "entry" THEN x.group ELSE x.sid>>
ClaimOf(what, id, x, s) == [what |-> what, id |-> id, owner |-> Owner(what, x), by |-> s]

ASSUME TransactionsAssumption ==
  /\ None \notin Stores \cup Objects \cup CallType \cup LazyRow \cup Seq(Nat)
  /\ IsFiniteSet(Objects)
  /\ Engines \subseteq {"sqlite", "postgresql"}
  /\ Refs \in [Objects -> SUBSET Objects] /\ Items \in [Objects -> SUBSET Objects]
  /\ Policy \in [Contents -> {"content_id", "by_value", "none"}]
  /\ \A c \in Entries : c \in Contents /\ Policy[c] = "content_id"
  /\ Requests \subseteq Calls
  /\ MaxOps \in Nat /\ MaxClock \in Nat \ {0}
  /\ FsckOnline \in BOOLEAN

\* A content has parts of other contents: a content identity includes theirs,
\* and _save refuses an object that is part of itself.  This leaves out a
\* by-value record inside which there is one that agrees with it in all columns.
ASSUME PartsAssumption ==
  /\ Depth \in [Contents -> 1 .. Cardinality(Objects)]
  /\ \A o \in Objects : \A q \in Refs[o] \cup Items[o] : Depth[Content[q]] < Depth[Content[o]]

\* The sids are those of rows of the objects, and each object has one.
AreRowsOf(table, sids, objs) ==
  /\ \A n \in sids : \E y \in table, q \in objs : y.sid = n /\ y.key.content = Content[q]
  /\ \A q \in objs : \E y \in table : y.sid \in sids /\ y.key.content = Content[q]

\* What earlier stores have committed, numbered in the order of the inserts:
\* a row has what it refers to, and its elements unless it is torn; a key, an id
\* and an immutable id have one owner, a group has the rows of one table, and the
\* first row of an alternative is there.
ASSUME EarlierAssumption ==
  /\ IsFiniteSet(Earlier) /\ Earlier \subseteq RowType
  /\ \A x \in Earlier :
       /\ x.by = None /\ x.sid <= Cardinality(Earlier) /\ x.key.content = Content[x.obj]
       /\ AreRowsOf(Earlier, x.refs, Refs[x.obj])
       /\ IF x.torn THEN x.kids = {} ELSE AreRowsOf(Earlier, x.kids, Items[x.obj])
       /\ x.kin <= x.sid /\ x.group <= x.sid /\ (x.id # None <=> x.key.content \in Entries)
       /\ IF x.kind = None THEN x.group = x.kin
          ELSE \E y \in Earlier : /\ y.kin = x.kin /\ y.group = x.group /\ y.kind = x.kind
                                 /\ y.id # None /\ y.imm = <<y.id, y.kind, 1>>
  /\ \A x, y \in Earlier :
       /\ x.sid = y.sid => x = y
       /\ x.key = y.key /\ Policy[x.key.content] = "content_id" => x = y
       /\ x.group = y.group => SameTable(x.key.content, y.key.content)
       /\ x.id # None /\ y.id # None =>
            /\ x.id = y.id <=> Owner("entry", x) = Owner("entry", y)
            /\ x.imm = y.imm => x = y

VARIABLES
  engine,    \* the engine of the database
  rows,      \* the parent rows with what they own; "by" is the open transaction, None once committed
  mains,     \* the sids whose role is main
  claims,    \* the owners of entry ids and of immutable ids
  dispatch,  \* the dispatch rows of the entry family
  nextSid,   \* the sequence of sids (PostgreSQL)
  tx,        \* "none", "single" (one call), "open" (transaction()), "lost" (rolled back inside it)
  op,        \* the call in progress
  stack,     \* its _save_active frames, the innermost first
  stamp,     \* the timestamp captured in this transaction, 0 before
  cache,     \* the identity caches: which sid an object has
  held,      \* a lazy row the caller holds
  mark,      \* the timestamp high-water mark
  calls,     \* how many calls have been made
  returned   \* what save has returned

db == <<rows, mains, claims, dispatch, nextSid>>
session == <<tx, op, stack, stamp>>
memory == <<cache, held, mark>>
vars == <<engine, db, session, memory, calls, returned>>

\* _initialize_store_timestamp_mark
Newest == Max({0} \cup {x.ts : x \in {y \in rows : y.by = None}})

Init ==
  /\ engine \in Engines
  /\ rows = Earlier
  /\ mains = {[sid |-> x.sid, by |-> None] : x \in Earlier}
  /\ claims = LET identified == {x \in Earlier : x.id # None}
              IN {ClaimOf("entry", x.id, x, None) : x \in identified}
                 \cup {ClaimOf("row", x.imm, x, None) : x \in identified}
  /\ dispatch = {[key |-> x.key, sid |-> x.sid, by |-> None] : x \in Earlier}
  /\ nextSid = Cardinality(Earlier) + 1
  /\ tx = [s \in Stores |-> "none"]
  /\ op = [s \in Stores |-> None]
  /\ stack = [s \in Stores |-> <<>>]
  /\ stamp = [s \in Stores |-> 0]
  /\ cache = [s \in Stores |-> {}]
  /\ held = [s \in Stores |-> None]
  /\ mark = [s \in Stores |-> Newest]
  /\ calls = 0
  /\ returned = {}
-----------------------------------------------------------------------------
(* What a statement of a store sees, and what it waits for.                *)

Seen(s, table) == {x \in table : x.by \in {None, s}}
Pending(s, table) == {x \in table : x.by \notin {None, s}}
Committed(table) == {x \in table : x.by = None}
WithKey(table, k) == {x \in table : x.key = k}
Row(n) == CHOOSE x \in rows : x.sid = n

Wrote(s) == \E table \in {rows, mains, claims, dispatch} : \E x \in table : x.by = s

\* Another transaction holds SQLite's write lock.
Locked(s) == engine = "sqlite" /\ \E t \in Stores \ {s} : Wrote(t)

NewSid(s) == IF engine = "sqlite" THEN Max({0} \cup {x.sid : x \in Seen(s, rows)}) + 1 ELSE nextSid

Without(table, s) == {x \in table : x.by # s}
Settled(table, s) == {IF x.by = s THEN [x EXCEPT !.by = None] ELSE x : x \in table}
-----------------------------------------------------------------------------
(* Transactions.                                                           *)

\* Faulty: the caches outlive the transaction they were filled in.
ForgetNothing(s) == UNCHANGED <<cache, held>>

\* Lazy rows that carry the token of a lost transaction expire.
Expired(s) == IF held[s] # None /\ held[s].tx THEN None ELSE held[s]

Forget(s) ==
  /\ cache' = [cache EXCEPT ![s] = {}]
  /\ held' = [held EXCEPT ![s] = Expired(s)]

RollBack(s) ==
  /\ rows' = Without(rows, s)
  /\ mains' = Without(mains, s)
  /\ claims' = Without(claims, s)
  /\ dispatch' = Without(dispatch, s)
  /\ returned' = Without(returned, s)
  /\ Forget(s)

EndCall(s, next) ==
  /\ tx' = [tx EXCEPT ![s] = next]
  /\ op' = [op EXCEPT ![s] = None]
  /\ stack' = [stack EXCEPT ![s] = <<>>]
  /\ stamp' = [stamp EXCEPT ![s] = IF next = "open" THEN @ ELSE 0]

\* The caller catches the exception inside its transaction and goes on.
Caught(s) ==
  /\ tx[s] = "open"
  /\ EndCall(s, "open")
  /\ rows' = {IF \E i \in DOMAIN stack[s] : stack[s][i].sid = x.sid /\ x.by = s
              THEN [x EXCEPT !.torn = TRUE] ELSE x : x \in rows}
  /\ UNCHANGED <<mains, claims, dispatch, returned, cache, held>>

\* An exception other than EntryIdConflictError.
Raise(s) ==
  /\ \/ Caught(s)
     \/ RollBack(s) /\ EndCall(s, "none")
  /\ UNCHANGED <<engine, nextSid, mark, calls>>

\* _write_connection rolls the whole transaction back at once.
RaiseConflict(s) ==
  /\ RollBack(s)
  /\ EndCall(s, IF tx[s] = "open" THEN "lost" ELSE "none")
  /\ UNCHANGED <<engine, nextSid, mark, calls>>

\* Faulty: the mark moves only for calls outside transaction().
AdvanceOwnMark(s) == IF tx[s] = "open" THEN mark[s] ELSE Max({mark[s], stamp[s]})

AdvancedMark(s) == Max({mark[s], stamp[s]})

Commit(s) ==
  /\ \/ tx[s] = "open" /\ op[s] = None
     \/ tx[s] = "single" /\ op[s].done
  /\ rows' = Settled(rows, s)
  /\ mains' = Settled(mains, s)
  /\ claims' = Settled(claims, s)
  /\ dispatch' = Settled(dispatch, s)
  /\ returned' = Settled(returned, s)
  /\ mark' = [mark EXCEPT ![s] = AdvancedMark(s)]
  /\ held' = [held EXCEPT ![s] = IF @ # None THEN [@ EXCEPT !.tx = FALSE] ELSE @]
  /\ EndCall(s, "none")
  /\ UNCHANGED <<engine, nextSid, cache, calls>>

\* The block raises, by itself or because the transaction is lost already.
Abort(s) ==
  /\ tx[s] = "lost" \/ (tx[s] = "open" /\ op[s] = None)
  /\ RollBack(s)
  /\ EndCall(s, "none")
  /\ UNCHANGED <<engine, nextSid, mark, calls>>

\* The process ends in whatever it does, and another opens the store.
Reopen(s) ==
  /\ tx[s] # "none"
  /\ rows' = Without(rows, s) /\ mains' = Without(mains, s)
  /\ claims' = Without(claims, s) /\ dispatch' = Without(dispatch, s)
  /\ returned' = Without(returned, s)
  /\ EndCall(s, "none")
  /\ cache' = [cache EXCEPT ![s] = {}]
  /\ held' = [held EXCEPT ![s] = None]
  /\ mark' = [mark EXCEPT ![s] = Newest]
  /\ UNCHANGED <<engine, nextSid, calls>>

-----------------------------------------------------------------------------
(* The start of a call.                                                    *)

Frame(o) == [obj |-> o, stage |-> "lookup", got |-> {}, sid |-> 0, base |-> 0]

PlainKey(o) == [content |-> Content[o], of |-> None, kind |-> None]

\* sid_of: the caches first, then the content.
SidsOf(s, o) ==
  LET known == {e.sid : e \in {c \in cache[s] : c.obj = o}}
  IN IF known # {} THEN known
     ELSE IF Policy[Content[o]] # "content_id" THEN {}
     ELSE {x.sid : x \in WithKey(Seen(s, rows), PlainKey(o))}

Call(o, x, of, kind) ==
  [obj |-> o, kin |-> x.kin, group |-> x.group, id |-> x.id, of |-> of, kind |-> kind,
   sid |-> 0, inserted |-> <<>>, done |-> FALSE]

\* One timestamp for all that a transaction writes.
Captured(s) == IF stamp[s] = 0 THEN 1 .. MaxClock ELSE {stamp[s]}

\* The first call begins the transaction, that of one call or transaction().
\* A clock behind the mark is refused (StoreClockRegressionError).
Enter(s, c, seen) ==
  /\ tx[s] \in {"none", "open"} /\ op[s] = None
  /\ calls < MaxOps
  /\ \E now \in Captured(s) : now >= mark[s] /\ stamp' = [stamp EXCEPT ![s] = now]
  /\ \E t \in IF tx[s] = "none" THEN {"single", "open"} ELSE {"open"} : tx' = [tx EXCEPT ![s] = t]
  /\ op' = [op EXCEPT ![s] = c]
  /\ stack' = [stack EXCEPT ![s] = <<Frame(c.obj)>>]
  /\ cache' = [cache EXCEPT ![s] = @ \cup seen]
  /\ calls' = calls + 1
  /\ UNCHANGED <<engine, db, held, mark, returned>>

StartSave(s, q) ==
  /\ q.do = "save" /\ q.of = None
  /\ Enter(s, Call(q.obj, [kin |-> 0, group |-> 0, id |-> None], None, None), {})

\* An alternative joins the group of a main in its table and copies its id.
StartAlternative(s, q) ==
  /\ q.do = "save" /\ q.of # None /\ q.kind # None
  /\ \E x \in Seen(s, rows) :
       /\ x.id = q.of /\ x.kind = None /\ SameTable(x.key.content, Content[q.obj])
       /\ Enter(s, Call(q.obj, [kin |-> 0, group |-> x.kin, id |-> x.id], x.id, q.kind), {})

\* replace copies the lineage, the group and the id of its predecessor.
StartReplace(s, q) ==
  /\ q.do = "replace"
  /\ \E x \in Seen(s, rows) :
       /\ x.sid \in SidsOf(s, q.old) /\ SameTable(x.key.content, Content[q.obj])
       /\ Enter(s, Call(q.obj, x, IF x.kind = None THEN None ELSE x.id, x.kind),
                {[obj |-> q.old, sid |-> x.sid]})
-----------------------------------------------------------------------------
(* The frames of a save.  "lookup": find the content; "refs": save what it *)
(* refers to; "insert": write the row; "claim": take the ids; "kids": save *)
(* the elements.  With no frame left the call writes its dispatch row.     *)

Saving(s, stage) == stack[s] # <<>> /\ Head(stack[s]).stage = stage
Top(s) == Head(stack[s])
IsRoot(s) == Len(stack[s]) = 1
Con(s) == Content[Top(s).obj]
IsEntry(s) == Con(s) \in Entries

\* Lineage, group, kind and given id concern the root only.
Kin(s) == IF IsRoot(s) THEN op[s].kin ELSE 0
Group(s) == IF IsRoot(s) THEN op[s].group ELSE 0
Kind(s) == IF IsRoot(s) THEN op[s].kind ELSE None
ForcedId(s) == IF IsRoot(s) THEN op[s].id ELSE None
Key(s) ==
  IF IsRoot(s) THEN [content |-> Con(s), of |-> op[s].of, kind |-> op[s].kind]
  ELSE PlainKey(Top(s).obj)

Stay(s, change) == stack' = [stack EXCEPT ![s] = <<change>> \o Tail(@)]

Wanted(f) ==
  (IF f.stage = "refs" THEN Refs[f.obj] ELSE IF f.stage = "kids" THEN Items[f.obj] ELSE {}) \ {g[1] : g \in f.got}

\* The frame goes on with the next object it has to save, if there is one.
GoOn(f) == IF Wanted(f) = {} THEN <<f>> ELSE <<Frame(CHOOSE q \in Wanted(f) : TRUE), f>>
GotSids(s, objs) == {g[2] : g \in {h \in Top(s).got : h[1] \in objs}}

\* The frame returns a sid to the one that called it.
Return(s, n) ==
  LET callers == Tail(stack[s])
  IN /\ stack' = [stack EXCEPT ![s] =
           IF callers = <<>> THEN <<>>
           ELSE GoOn([Head(callers) EXCEPT !.got = @ \cup {<<Top(s).obj, n>>}]) \o Tail(callers)]
     /\ op' = [op EXCEPT ![s].sid = IF callers = <<>> THEN n ELSE @]

Remember(s, n) == cache' = [cache EXCEPT ![s] = @ \cup {[obj |-> Top(s).obj, sid |-> n]}]

\* A replacement may fall together with a row of its own lineage only.
Collides(s, x) == Kin(s) # 0 /\ x.kin # Kin(s)
Differs(s, x) == Policy[Con(s)] = "content_id" /\ Meta[x.obj] # Meta[Top(s).obj]

\* Faulty: a dependency stays one.
PromoteNothing(s, x) == mains

\* Role 0 becomes 1 when the root is there already.
Promoted(s, x) ==
  IF IsRoot(s) /\ ~\E m \in Seen(s, mains) : m.sid = x.sid THEN mains \cup {[sid |-> x.sid, by |-> s]} ELSE mains

\* The content is stored: compare the metadata, promote, return its sid.
Hit(s, x) ==
  IF Collides(s, x) \/ Differs(s, x) THEN Raise(s)
  ELSE /\ Promoted(s, x) # mains => ~Locked(s)
       /\ mains' = Promoted(s, x)
       /\ Return(s, x.sid)
       /\ Remember(s, x.sid)
       /\ UNCHANGED <<engine, rows, claims, dispatch, nextSid, tx, stamp, held, mark, calls, returned>>

Lookup(s) ==
  /\ Saving(s, "lookup")
  /\ LET found == IF Policy[Con(s)] = "content_id" THEN WithKey(Seen(s, rows), Key(s)) ELSE {}
     IN \/ \E x \in found : Hit(s, x)
        \/ /\ found = {}
           /\ stack' = [stack EXCEPT ![s] =
                GoOn([Top(s) EXCEPT !.stage = "refs", !.base = Len(op[s].inserted)]) \o Tail(@)]
           /\ UNCHANGED <<engine, db, tx, op, stamp, memory, calls, returned>>

\* The ids as far as they are known before the row has a sid.
EarlyId(s) == IF ForcedId(s) # None THEN ForcedId(s) ELSE GivenId[Top(s).obj]

\* _prepare_entry_ids: an id belongs to one group of one backing, and a
\* group has one lineage of a kind.
IdTaken(s, id, n, group) ==
  \E x \in Seen(s, rows) :
    /\ x.id = id /\ id # None
    /\ \/ Backing[x.key.content] # Backing[Con(s)]
       \/ x.sid # n /\ x.group # group
KindTaken(s) ==
  Kind(s) # None /\ \E x \in Seen(s, rows) : x.group = Group(s) /\ x.kind = Kind(s) /\ x.kin # Kin(s)

Inconsistent(s) == ForcedId(s) # None /\ GivenId[Top(s).obj] \notin {None, ForcedId(s)}

Prepare(s) ==
  /\ Saving(s, "refs") /\ IsEntry(s)
  /\ IF Inconsistent(s) \/ KindTaken(s) \/ IdTaken(s, EarlyId(s), 0, Group(s))
     THEN RaiseConflict(s)
     ELSE /\ Stay(s, [Top(s) EXCEPT !.stage = "insert"])
          /\ UNCHANGED <<engine, db, tx, op, stamp, memory, calls, returned>>

Inserting(s) ==
  Saving(s, "insert") \/ (Saving(s, "refs") /\ ~IsEntry(s))

\* The row that is there by now: by content, or by all columns of the parent.
Matches(s) ==
  LET same == WithKey(Seen(s, rows), Key(s))
  IN IF Policy[Con(s)] = "content_id" THEN same
     ELSE IF Policy[Con(s)] = "by_value" THEN {x \in same : x.refs = GotSids(s, Refs[Top(s).obj])}
     ELSE {}

InsertedSince(s) == {op[s].inserted[i] : i \in (Top(s).base + 1) .. Len(op[s].inserted)}

\* _release_unused_identity_claims keeps these.
Owned(s, table) ==
  {c \in claims : \/ c.by \notin {None, s}
                  \/ \E x \in Seen(s, table) : x.key.content \in Entries /\ c.owner = Owner(c.what, x)}

\* _discard_inserted: rows inserted for a row that is there already.
Discard(s) ==
  /\ Inserting(s) /\ Matches(s) # {} /\ InsertedSince(s) # {}
  /\ rows' = {x \in rows : x.sid \notin InsertedSince(s)}
  /\ claims' = Owned(s, rows')
  /\ op' = [op EXCEPT ![s].inserted = SubSeq(@, 1, Top(s).base)]
  /\ cache' = [cache EXCEPT ![s] = {}]
  /\ UNCHANGED <<engine, mains, dispatch, nextSid, tx, stack, stamp, held, mark, calls, returned>>

\* The content was stored since the lookup, or all columns agree.
HitLate(s) ==
  /\ Inserting(s) /\ InsertedSince(s) = {}
  /\ \E x \in Matches(s) : Hit(s, x)

\* An insert of the same content is under way in another transaction.
InsertWaits(s) ==
  /\ Inserting(s)
  /\ \/ Locked(s)
     \/ Policy[Con(s)] = "content_id" /\ WithKey(Pending(s, rows), Key(s)) # {}

Insert(s) ==
  /\ Inserting(s) /\ Matches(s) = {} /\ ~InsertWaits(s)
  /\ LET n == NewSid(s)
     IN /\ rows' = rows \cup
             {[sid |-> n, key |-> Key(s), obj |-> Top(s).obj,
               refs |-> GotSids(s, Refs[Top(s).obj]), kids |-> {},
               kin |-> IF Kin(s) # 0 THEN Kin(s) ELSE n,
               group |-> IF Group(s) # 0 THEN Group(s) ELSE n,
               kind |-> Kind(s), id |-> None, imm |-> None,
               ts |-> stamp[s], who |-> s, torn |-> FALSE, by |-> s]}
        /\ mains' = IF IsRoot(s) THEN mains \cup {[sid |-> n, by |-> s]} ELSE mains
        /\ nextSid' = nextSid + 1
        /\ op' = [op EXCEPT ![s].inserted = Append(@, n)]
        /\ stack' = [stack EXCEPT ![s] =
             GoOn([Top(s) EXCEPT !.sid = n, !.stage = IF IsEntry(s) THEN "claim" ELSE "kids"]) \o Tail(@)]
  /\ UNCHANGED <<engine, claims, dispatch, tx, stamp, memory, calls, returned>>

\* Without an id, one is minted from the lineage.
FinalId(s, x) == IF EarlyId(s) # None THEN EarlyId(s) ELSE <<x.kin>>

\* The revision counts the rows of the lineage that are there before.
Revision(s, x) == 1 + Cardinality({y \in Seen(s, rows) : y.kin = x.kin /\ y.sid # x.sid})

ImmutableId(s, x) == <<FinalId(s, x), x.kind, Revision(s, x)>>

IdClaims(s, x) == {ClaimOf("entry", FinalId(s, x), x, s), ClaimOf("row", ImmutableId(s, x), x, s)}

\* An id has one owner, and an owner has one id.
SameId(c, d) == c.what = d.what /\ c.id = d.id
SameOwner(c, d) == c.what = d.what /\ c.owner = d.owner

ClaimWaits(s) ==
  /\ Saving(s, "claim")
  /\ \E c \in Pending(s, claims), d \in IdClaims(s, Row(Top(s).sid)) : SameId(c, d) \/ SameOwner(c, d)

\* Faulty: the claim is written over another's.
NeverClaimed(s, x) == FALSE

ClaimedElsewhere(s, x) ==
  \E c \in Seen(s, claims), d \in IdClaims(s, x) : ~(SameId(c, d) <=> SameOwner(c, d))

\* The second _prepare_entry_ids, and _claim_entry_identity.
Claim(s) ==
  /\ Saving(s, "claim") /\ ~ClaimWaits(s)
  /\ LET x == Row(Top(s).sid)
     IN IF IdTaken(s, FinalId(s, x), x.sid, x.group) \/ ClaimedElsewhere(s, x) THEN RaiseConflict(s)
        ELSE /\ rows' = (rows \ {x}) \cup {[x EXCEPT !.id = FinalId(s, x), !.imm = ImmutableId(s, x)]}
             /\ claims' = claims \cup
                  {d \in IdClaims(s, x) : \A c \in Seen(s, claims) : ~SameId(c, d)}
             /\ stack' = [stack EXCEPT ![s] = GoOn([Top(s) EXCEPT !.stage = "kids"]) \o Tail(@)]
             /\ UNCHANGED <<engine, mains, dispatch, nextSid, tx, op, stamp, memory, calls, returned>>

\* The child rows are written when all elements are saved.
WriteKids(s) ==
  /\ Saving(s, "kids")
  /\ LET x == Row(Top(s).sid)
     IN rows' = (rows \ {x}) \cup {[x EXCEPT !.kids = GotSids(s, Items[Top(s).obj])]}
  /\ Return(s, Top(s).sid)
  /\ Remember(s, Top(s).sid)
  /\ UNCHANGED <<engine, mains, claims, dispatch, nextSid, tx, stamp, held, mark, calls, returned>>

Dispatching(s) == op[s] # None /\ op[s].sid # 0 /\ ~op[s].done

RootKey(s) == [content |-> Content[op[s].obj], of |-> op[s].of, kind |-> op[s].kind]

DispatchWaits(s) ==
  /\ Dispatching(s)
  /\ Content[op[s].obj] \in Entries
  /\ WithKey(Seen(s, dispatch), RootKey(s)) = {}
  /\ Locked(s) \/ WithKey(Pending(s, dispatch), RootKey(s)) # {}

\* _save_entry_dispatch; then save returns.
WriteDispatch(s) ==
  /\ Dispatching(s) /\ ~DispatchWaits(s)
  /\ dispatch' = IF Content[op[s].obj] \in Entries /\ WithKey(Seen(s, dispatch), RootKey(s)) = {}
                 THEN dispatch \cup {[key |-> RootKey(s), sid |-> op[s].sid, by |-> s]} ELSE dispatch
  /\ returned' = returned \cup {[key |-> RootKey(s), sid |-> op[s].sid, kin |-> op[s].kin, by |-> s]}
  /\ op' = [op EXCEPT ![s] = IF tx[s] = "open" THEN None ELSE [@ EXCEPT !.done = TRUE]]
  /\ UNCHANGED <<engine, rows, mains, claims, nextSid, tx, stack, stamp, memory, calls>>

\* Deadlock, or the lock timeout of SQLite.
GiveUp(s) ==
  /\ InsertWaits(s) \/ ClaimWaits(s) \/ DispatchWaits(s)
  /\ RollBack(s)
  /\ EndCall(s, "none")
  /\ UNCHANGED <<engine, nextSid, mark, calls>>
-----------------------------------------------------------------------------
(* Reading, and fsck.                                                      *)

\* fetch: a lazy row, bound to the transaction it was read in.  The rows that
\* may go are those the transaction wrote.
Fetch(s) ==
  /\ tx[s] = "open" /\ op[s] = None /\ held[s] = None
  /\ \E x \in {y \in rows : y.by = s} : held' = [held EXCEPT ![s] = [sid |-> x.sid, key |-> x.key, tx |-> TRUE]]
  /\ UNCHANGED <<engine, db, session, cache, mark, calls, returned>>

\* Faulty: the child tables are not followed.
ReferredTo(X) == UNION {x.refs : x \in {y \in Committed(rows) : y.sid \in X}}

Reached(X) == UNION {x.refs \cup x.kids : x \in {y \in Committed(rows) : y.sid \in X}}

\* Faulty: only entries are roots.
DispatchedRoots == {e.sid : e \in Committed(dispatch)}

Roots == {m.sid : m \in Committed(mains)} \cup {e.sid : e \in Committed(dispatch)}

\* _mark: what main rows and dispatch rows reach.
Marked ==
  LET reach[n \in Nat] ==
        IF n = 0 THEN Roots ELSE reach[n - 1] \cup Reached(reach[n - 1])
  IN reach[Cardinality(Objects)]

\* The other stores are closed, or freshly open.
Exclusive(s) == \A t \in Stores \ {s} : tx[t] = "none" /\ cache[t] = {} /\ held[t] = None

\* fsck(collect_garbage=True); BEGIN IMMEDIATE waits for SQLite's write lock.
Fsck(s) ==
  /\ tx[s] = "none" /\ held[s] = None
  /\ calls < MaxOps
  /\ ~Locked(s) /\ (FsckOnline \/ Exclusive(s))
  /\ LET stay == Marked \cup {x.sid : x \in Pending(None, rows)}
     IN rows' = {x \in rows : x.sid \in stay}
  /\ claims' = Owned(s, rows')
  /\ calls' = calls + 1
  /\ cache' = [cache EXCEPT ![s] = {}]
  /\ UNCHANGED <<engine, mains, dispatch, nextSid, session, held, mark, returned>>
-----------------------------------------------------------------------------
SaveStep(s) ==
  \/ Lookup(s) \/ Prepare(s) \/ Discard(s) \/ HitLate(s) \/ Insert(s)
  \/ Claim(s) \/ WriteKids(s) \/ WriteDispatch(s)

Next ==
  \E s \in Stores :
       \/ Commit(s) \/ Abort(s) \/ Reopen(s)
       \/ \E q \in Requests : StartSave(s, q) \/ StartAlternative(s, q) \/ StartReplace(s, q)
       \/ SaveStep(s) \/ GiveUp(s)
       \/ Fetch(s) \/ Fsck(s)

Spec == Init /\ [][Next]_vars
-----------------------------------------------------------------------------
(* Properties.                                                             *)

\* The types of the variables.
TypeOK ==
  /\ engine \in Engines
  /\ \A x \in rows :
       /\ x.sid \in Nat \ {0} /\ x.obj \in Objects /\ x.key.content \in Contents
       /\ x.ts \in 1 .. MaxClock /\ x.who \in Stores /\ x.by \in Stores \cup {None}
       /\ \A y \in rows : x.sid = y.sid => x = y
  /\ \A m \in mains \cup dispatch : \E x \in rows : x.sid = m.sid
  /\ tx \in [Stores -> {"none", "single", "open", "lost"}]
  /\ \A s \in Stores : \A i \in DOMAIN stack[s] : stack[s][i].stage \in Stages
  /\ stamp \in [Stores -> 0 .. MaxClock] /\ mark \in [Stores -> 0 .. MaxClock]
  /\ calls \in 0 .. MaxOps

Whole(x) ==
  /\ AreRowsOf(Committed(rows), x.refs, Refs[x.obj])
  /\ AreRowsOf(Committed(rows), x.kids, Items[x.obj])

(* Whatever transactions race, fail or die: a committed row comes with all *)
(* that it refers to and all its elements.  The exception is a row of a    *)
(* save that raised, where the caller caught it and committed the rest.    *)
CommittedWhole == \A x \in Committed(rows) : x.torn \/ Whole(x)

(* The caches of a store never name a row that it cannot see, or one that  *)
(* took over the sid of a row that was rolled back, and a lazy row that    *)
(* can still be read is the row that was fetched.                          *)
CachesTrue ==
  \A s \in Stores :
    /\ \A e \in cache[s] : \E x \in Seen(s, rows) : x.sid = e.sid /\ x.key.content = Content[e.obj]
    /\ held[s] # None => \E x \in Seen(s, rows) : x.sid = held[s].sid /\ x.key = held[s].key

(* Whatever transactions race: one content, one row; one id, one group in  *)
(* one backing; one kind of alternative, one lineage in its group; no      *)
(* immutable id twice.                                                     *)
IdentitiesOwned ==
  \A x, y \in Committed(rows) : x # y =>
    /\ x.key = y.key => Policy[x.key.content] # "content_id"
    /\ x.id # None /\ x.id = y.id =>
         x.group = y.group /\ Backing[x.key.content] = Backing[y.key.content] /\ x.imm # y.imm
    /\ x.kind # None /\ x.group = y.group /\ x.kind = y.kind => x.kin = y.kin

(* What is committed is whole, and has one owner. *)
CommittedSound == CommittedWhole /\ IdentitiesOwned

(* What a committed save has returned is there: a main row of that content *)
(* under that sid, of the lineage that a replacement was to continue.      *)
SavesKept ==
  \A r \in Committed(returned) : \E x \in Committed(rows) :
    /\ x.sid = r.sid /\ x.key = r.key
    /\ \E m \in Committed(mains) : m.sid = r.sid
    /\ r.kin # 0 => x.kin = r.kin

(* A store never stamps a row earlier than one it has committed, also      *)
(* after it was opened again, and a transaction has one timestamp.         *)
StampsAdvance ==
  [][\A y \in rows' : y.by = None /\ (\A x \in rows : x.sid = y.sid => x.by # None) =>
       \A x \in rows' : x.by = None /\ x.who = y.who =>
         IF \E z \in rows : z = x THEN x.ts <= y.ts ELSE x.ts = y.ts]_vars
=============================================================================
