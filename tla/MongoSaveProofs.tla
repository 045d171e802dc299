--------------------------- MODULE MongoSaveProofs ---------------------------
(***************************************************************************)
(* The properties of MongoSave hold for all constants.                     *)
(*                                                                         *)
(* Two relations carry the proofs.  Whole(f, ...) says that each value of  *)
(* a database f fits the others; Grown(f, g) that g has kept what f had,   *)
(* and at most promoted a document, counted further or added keys.  Whole  *)
(* is kept by what grows, key by key, and so is the result of a commit:    *)
(* each of its keys has the value of the transaction's view or of the      *)
(* database, and has grown from both.                                      *)
(***************************************************************************)
EXTENDS MongoSave, SequenceTheorems, NumberFacts

Stages == {"find", "refs", "claim", "insert"}
FrameType == [obj : Objects, top : BOOLEAN, stage : Stages, todo : SUBSET Objects, got : SUBSET Sid,
              compared : SUBSET Sid, sid : Sid \cup {None}, mark : Nat]
MemoType == [obj : Objects, sid : Sid]
CallType == [call : Calls \cup {None}, attempt : 0 .. Attempts, frames : Seq(FrameType),
             memo : SUBSET MemoType, inserted : Seq(Sid)]

\* How deep the parts of a record go.
Rank == CHOOSE rank \in [Collections -> 1 .. Cardinality(Objects)] :
          \A o \in Objects : \A q \in Refs[o] : rank[Content[q]] < rank[Content[o]]

\* References dangle in what a sweep has yet to delete, so they are whole as
\* long as fsck does not die there.
Kept == "sweep" \notin FsckDiesAt
-----------------------------------------------------------------------------
(* A database.                                                             *)

IsKey(k) ==
  \/ k[1] = "doc" /\ k = Doc(k[2])
  \/ k[1] = "index" /\ k = Index(k[2])
  \/ k[1] = "dispatch" /\ k = Route(k[2])
  \/ k[1] = "claim" /\ k = Claim(k[2], k[3])
  \/ k[1] = "counter" /\ k = Counter(k[2])

Numbered(f, s) == s \in Sid /\ At(f, Counter(s[1])) # None /\ s[2] <= At(f, Counter(s[1]))

Claims(o, s) == {ClaimsOf(o, s)[i] : i \in DOMAIN ClaimsOf(o, s)}

DocFits(s, d, f, whole, open) ==
  /\ s \in Sid /\ d \in DocType /\ s[1] = Content[d.obj] /\ Numbered(f, s)
  /\ \A t \in d.refs : Rank[t[1]] < Rank[s[1]] /\ (whole => t \in Sids(f))
  /\ Policy[s[1]] = "content_id" => At(f, Index(s[1])) = s
  /\ s \notin open => \A k \in Claims(d.obj, s) : At(f, k) = s

Fits(k, x, f, whole, open) ==
  /\ k[1] = "doc" => DocFits(k[2], x, f, whole, open)
  /\ k[1] = "index" => x \in Sids(f) /\ x[1] = k[2] /\ Policy[k[2]] = "content_id"
  /\ k[1] = "dispatch" => x \in Mains(f) /\ x[1] = k[2]
  /\ k[1] = "claim" => Numbered(f, x)
  /\ k[1] = "counter" => x \in Nat

Keyed(f) == f = [k \in DOMAIN f |-> f[k]] /\ \A k \in DOMAIN f : IsKey(k)

Whole(f, whole, open) == Keyed(f) /\ \A k \in DOMAIN f : f[k] # None => Fits(k, f[k], f, whole, open)

KeyGrows(k, x, y) ==
  x # None =>
    /\ y # None
    /\ k[1] = "doc" => y.obj = x.obj /\ y.refs = x.refs /\ (x.role = "main" => y.role = "main")
    /\ k[1] \in {"index", "dispatch", "claim"} => y = x
    /\ k[1] = "counter" => x \in Nat /\ y \in Nat /\ x <= y

Grown(f, g) == \A k \in DOMAIN f : KeyGrows(k, At(f, k), At(g, k))
-----------------------------------------------------------------------------
(* A save, c, with its view f of the database, b the snapshot of its       *)
(* transaction and t whether it is in one.                                 *)

TopOf(c) == c.frames[Len(c.frames)]
At0(c, stages) == c.frames # <<>> /\ TopOf(c).stage \in stages

\* The sid that the save has taken for the document to come, and the document
\* whose claims are to come.
Held(c) == IF At0(c, {"claim", "insert"}) THEN {TopOf(c).sid} ELSE {}
OpenSids(c, t) == IF t /\ At0(c, {"claim"}) THEN {TopOf(c).sid} ELSE {}

SinceMark(c, m) == {c.inserted[j] : j \in m + 1 .. Len(c.inserted)}

FramesSound(c) ==
  \A i \in 1 .. Len(c.frames) :
    LET fr == c.frames[i]
    IN /\ fr.top = (i = 1) /\ (i = 1 => fr.obj = c.call)
       /\ fr.todo \subseteq Refs[fr.obj]
       /\ fr.mark <= Len(c.inserted)
       /\ i < Len(c.frames) => fr.stage = "refs"
       /\ \A s \in fr.got : Rank[s[1]] < Rank[Content[fr.obj]]
       /\ \A j \in 1 .. i - 1 : Rank[Content[fr.obj]] < Rank[Content[c.frames[j].obj]] /\ c.frames[j].mark <= fr.mark

GotSound(c, f) == \A i \in 1 .. Len(c.frames) : c.frames[i].got \subseteq Sids(f)

MemoSound(c, f) ==
  /\ \A m \in c.memo :
       /\ m.sid \in Sids(f) /\ m.sid[1] = Content[m.obj]
       /\ c.frames # <<>> => Rank[Content[m.obj]] < Rank[Content[c.call]]
       /\ m.obj = c.call => m.sid \in Mains(f)
  /\ c.frames = <<>> /\ c.call # None => \E m \in c.memo : m.obj = c.call

HeldSound(c, f, b, t) ==
  At0(c, {"claim", "insert"}) =>
    LET fr == TopOf(c)
    IN /\ fr.sid \in Sid /\ fr.sid[1] = Content[fr.obj] /\ Numbered(f, fr.sid)
       /\ t /\ fr.stage = "insert" => fr.sid \notin Sids(f) /\ ~Numbered(b, fr.sid)
       /\ t /\ fr.stage = "claim" => /\ fr.sid \in Sids(f) /\ At(f, Doc(fr.sid)).obj = fr.obj
                                     /\ fr.top => fr.sid \in Mains(f)
                                     /\ fr.mark < Len(c.inserted) /\ c.inserted[Len(c.inserted)] = fr.sid
       /\ ~t => fr.sid \notin Sids(f)
       /\ ~t /\ fr.stage = "insert" => \A k \in Claims(fr.obj, fr.sid) : At(f, k) = fr.sid

\* What the transaction of the save has inserted can be taken back: nothing
\* else refers to it, and the frames below have not got it.
InsertedSound(c, f, b) ==
  /\ \A j \in DOMAIN c.inserted : c.inserted[j] \in Sids(f) /\ ~Numbered(b, c.inserted[j])
  /\ \A i, j \in DOMAIN c.inserted : c.inserted[i] = c.inserted[j] => i = j
  /\ \A i \in 1 .. Len(c.frames) : \A j \in c.frames[i].mark + 1 .. Len(c.inserted) :
       \/ Rank[c.inserted[j][1]] < Rank[Content[c.frames[i].obj]]
       \/ c.frames[i].stage = "claim" /\ j = Len(c.inserted)
  /\ \A i \in 1 .. Len(c.frames) - 1 : c.frames[i].got \cap SinceMark(c, c.frames[i + 1].mark) = {}
  /\ Kept => \A j \in DOMAIN c.inserted : \A s \in Sids(f) :
       c.inserted[j] \in At(f, Doc(s)).refs => s \in SinceMark(c, j)
  /\ \A k \in DOMAIN f : k[1] = "dispatch" => f[k] \notin SinceMark(c, 0)

CallBase(c, f, b, t) ==
  /\ c \in CallType /\ (c.call = None => c = Idle)
  /\ FramesSound(c) /\ GotSound(c, f) /\ MemoSound(c, f)
  /\ t /\ c.frames # <<>> => InsertedSound(c, f, b)

CallSound(c, f, b, t) == CallBase(c, f, b, t) /\ HeldSound(c, f, b, t)

\* What the saves of a caller's transaction have found and returned.
OpenSound(x, c, f) ==
  /\ \A m \in x.pending : m.sid \in Sids(f) /\ m.sid[1] = Content[m.obj]
  /\ \A a \in x.answers : /\ a.sid \in Mains(f) /\ a.sid[1] = Content[a.obj]
                          /\ a.sid[1] \in Entries => At(f, Route(a.sid[1])) = a.sid
  /\ c.frames # <<>> => \A m \in x.pending \cup x.answers : m.sid \notin SinceMark(c, 0)

\* A transaction x over the database f.
Agrees(x, f) == \A k \in DOMAIN x.writes : At(f, k) = At(x.snapshot, k)
TxnSound(x, c, f) ==
  LET v == Over(x.writes, x.snapshot)
  IN /\ Whole(x.snapshot, Kept, {}) /\ Grown(x.snapshot, f)
     /\ Grown(x.snapshot, v) /\ Whole(v, Kept, OpenSids(c, TRUE))
     /\ Agrees(x, f) /\ OpenSound(x, c, v)
-----------------------------------------------------------------------------
(* The invariant.                                                          *)

Active(p) == op[p].call # None \/ txn[p].open

TypeInv ==
  /\ deployment \in {"standalone", "replica set"} /\ deployment \in Deployments
  /\ op \in [Stores -> CallType]
  /\ txn = [p \in Stores |-> txn[p]]
  /\ \A p \in Stores : txn[p] = [snapshot |-> txn[p].snapshot, writes |-> txn[p].writes, open |-> txn[p].open,
                                 pending |-> txn[p].pending, answers |-> txn[p].answers]
  /\ known = [p \in Stores |-> known[p]]
  /\ gen \in Nat /\ seen \in [Stores -> 0 .. gen]
  /\ fsck \in RunType \cup {None}
  /\ None \notin RunType

SavesSound ==
  /\ \A p \in Stores : CallSound(op[p], View(p), txn[p].snapshot, Transactional)
  /\ \A p, q \in Stores : ~Transactional /\ p # q => Held(op[p]) \cap Held(op[q]) = {}
  /\ \A p \in Stores : ~(Transactional /\ Active(p)) => txn[p] = NoTxn
  /\ \A p \in Stores : Transactional /\ Active(p) => TxnSound(txn[p], op[p], db)
  /\ \A p, q \in Stores : p # q => DOMAIN txn[p].writes \cap DOMAIN txn[q].writes = {}

Returned(f) ==
  \A r \in returned : /\ r.sid \in Mains(f) /\ r.sid[1] = Content[r.obj]
                      /\ r.sid[1] \in Entries => At(f, Route(r.sid[1])) = r.sid

CachesSound == \A p \in Stores : seen[p] = gen => \A k \in known[p] : k.sid \in Sids(db) /\ k.sid[1] = Content[k.obj]

Sweeping == fsck # None /\ fsck.stage = "sweep"

RoutedMains(f) == \A s \in Mains(f) : s[1] \in Entries /\ Policy[s[1]] = "content_id" => At(f, Route(s[1])) = s

FsckSound ==
  fsck # None =>
    /\ \A p \in Stores : ~Active(p) /\ seen[p] < gen
    /\ fsck.stage \in {"sweep", "end"} => RoutedMains(db)
    /\ fsck.stage = "sweep" /\ Kept => Marked(db) \subseteq Sids(db)
    /\ fsck.stage = "end" => Garbage(db) = {} /\ Orphans(db) = {}

Inv ==
  /\ TypeInv /\ Whole(db, Kept /\ ~Sweeping, {}) /\ SavesSound
  /\ Returned(db) /\ CachesSound /\ FsckSound
-----------------------------------------------------------------------------
(* Facts about the constants and the databases.                            *)

LEMMA Constants ==
  /\ Rank \in [Collections -> 1 .. Cardinality(Objects)] /\ Cardinality(Objects) \in Nat
  /\ \A o \in Objects : \A q \in Refs[o] : Rank[Content[q]] < Rank[Content[o]]
  /\ \A c \in Collections : Rank[c] \in Nat
  /\ \A o \in Objects : Content[o] \in Collections /\ Refs[o] \subseteq Objects
<1>1. /\ Rank \in [Collections -> 1 .. Cardinality(Objects)]
      /\ \A o \in Objects : \A q \in Refs[o] : Rank[Content[q]] < Rank[Content[o]]
  BY PartsAssumption DEF Rank
<1>2. Cardinality(Objects) \in Nat
  BY SaveAssumption, FS_CardinalityType
<1>3. \A c \in Collections : Rank[c] \in Nat
  BY <1>1, <1>2
<1>4. \A o \in Objects : Content[o] \in Collections /\ Refs[o] \subseteq Objects
  BY SaveAssumption DEF Collections
<1> QED BY <1>1, <1>2, <1>3, <1>4

LEMMA NoneApart ==
  /\ None \notin Objects /\ None \notin Nat /\ None \notin Sid /\ None \notin DocType /\ None \notin RunType
BY NoneAssumption

LEMMA AtOver ==
  ASSUME NEW v, NEW f
  PROVE  /\ \A k : At(Over(v, f), k) = IF k \in DOMAIN v THEN v[k] ELSE At(f, k)
         /\ DOMAIN Over(v, f) = DOMAIN v \cup DOMAIN f
BY DEF At, Over

LEMMA OverOver ==
  ASSUME NEW u, NEW v, NEW f
  PROVE  Over(u, Over(v, f)) = Over(Over(u, v), f)
<1>1. DOMAIN Over(u, Over(v, f)) = DOMAIN Over(Over(u, v), f)
  BY DEF Over
<1>2. \A k \in DOMAIN Over(u, Over(v, f)) : Over(u, Over(v, f))[k] = Over(Over(u, v), f)[k]
  BY DEF Over
<1> QED BY <1>1, <1>2 DEF Over

LEMMA OverNothing ==
  ASSUME NEW f, f = [k \in DOMAIN f |-> f[k]]
  PROVE  Over(Nothing, f) = f
BY DEF Over, Nothing

LEMMA PutAt == ASSUME NEW k, NEW v PROVE DOMAIN Put(k, v) = {k} /\ Put(k, v)[k] = v
BY DEF Put

\* Keys of different kinds differ, and so do those of different things.
LEMMA KeysDiffer ==
  /\ \A s : IsKey(Doc(s)) /\ Doc(s)[1] = "doc" /\ Doc(s)[2] = s
  /\ \A c : IsKey(Index(c)) /\ Index(c)[1] = "index" /\ Index(c)[2] = c
  /\ \A c : IsKey(Route(c)) /\ Route(c)[1] = "dispatch" /\ Route(c)[2] = c
  /\ \A c : IsKey(Counter(c)) /\ Counter(c)[1] = "counter" /\ Counter(c)[2] = c
  /\ \A a, b : IsKey(Claim(a, b)) /\ Claim(a, b)[1] = "claim" /\ Claim(a, b)[2] = a /\ Claim(a, b)[3] = b
BY DEF IsKey, Doc, Index, Route, Counter, Claim

LEMMA KeyKinds ==
  ASSUME NEW k, IsKey(k)
  PROVE  /\ k[1] \in {"doc", "index", "dispatch", "claim", "counter"}
         /\ k[1] = "doc" => k = Doc(k[2])
         /\ k[1] = "index" => k = Index(k[2])
         /\ k[1] = "dispatch" => k = Route(k[2])
         /\ k[1] = "counter" => k = Counter(k[2])
         /\ k[1] = "claim" => k = Claim(k[2], k[3])
BY DEF IsKey

LEMMA SidsAt ==
  ASSUME NEW f, Keyed(f)
  PROVE  /\ \A s : s \in Sids(f) <=> At(f, Doc(s)) # None
         /\ \A s \in Sids(f) : Document(f, s) = At(f, Doc(s))
         /\ \A s : s \in Mains(f) <=> s \in Sids(f) /\ At(f, Doc(s)).role = "main"
<1>1. ASSUME NEW s PROVE s \in Sids(f) <=> At(f, Doc(s)) # None
  <2>1. ASSUME s \in Sids(f) PROVE At(f, Doc(s)) # None
    <3>1. PICK k \in DOMAIN f : k[1] = "doc" /\ f[k] # None /\ s = k[2]
      BY <2>1 DEF Sids
    <3>2. k = Doc(s)
      BY <3>1, KeyKinds DEF Keyed
    <3> QED BY <3>1, <3>2 DEF At
  <2>2. ASSUME At(f, Doc(s)) # None PROVE s \in Sids(f)
    <3>1. Doc(s) \in DOMAIN f /\ f[Doc(s)] # None
      BY <2>2 DEF At
    <3> QED BY <3>1, KeysDiffer DEF Sids
  <2> QED BY <2>1, <2>2
<1>2. \A s \in Sids(f) : Document(f, s) = At(f, Doc(s))
  BY <1>1 DEF Document, At
<1> QED BY <1>1, <1>2 DEF Mains

LEMMA ClaimsAre ==
  ASSUME NEW o, NEW s
  PROVE  /\ Claims(o, s) = IF Content[o] \in Entries
                           THEN {Claim("id", IdOf(o, s)), Claim("immutable_id", IdOf(o, s))} ELSE {}
         /\ \A k \in Claims(o, s) : IsKey(k) /\ k[1] = "claim"
<1>1. CASE Content[o] \in Entries
  <2>1. DOMAIN ClaimsOf(o, s) = {1, 2}
    BY <1>1 DEF ClaimsOf
  <2>2. ClaimsOf(o, s)[1] = Claim("id", IdOf(o, s)) /\ ClaimsOf(o, s)[2] = Claim("immutable_id", IdOf(o, s))
    BY <1>1 DEF ClaimsOf
  <2>3. Claims(o, s) = {Claim("id", IdOf(o, s)), Claim("immutable_id", IdOf(o, s))}
    BY <2>1, <2>2 DEF Claims
  <2> QED BY <1>1, <2>3, KeysDiffer
<1>2. CASE Content[o] \notin Entries
  <2>1. DOMAIN ClaimsOf(o, s) = {}
    BY <1>2 DEF ClaimsOf
  <2> QED BY <1>2, <2>1 DEF Claims
<1> QED BY <1>1, <1>2

LEMMA KeyedOver ==
  ASSUME NEW v, NEW f, \A k \in DOMAIN v : IsKey(k), Keyed(f)
  PROVE  Keyed(Over(v, f))
<1>1. DOMAIN Over(v, f) = DOMAIN v \cup DOMAIN f
  BY AtOver
<1>2. Over(v, f) = [k \in DOMAIN Over(v, f) |-> Over(v, f)[k]]
  BY DEF Over
<1>3. \A k \in DOMAIN Over(v, f) : IsKey(k)
  BY <1>1 DEF Keyed
<1> QED BY <1>2, <1>3 DEF Keyed

LEMMA WholeDocs ==
  ASSUME NEW f, NEW whole, NEW open, Whole(f, whole, open), NEW s \in Sids(f)
  PROVE  DocFits(s, At(f, Doc(s)), f, whole, open) /\ At(f, Doc(s)) # None /\ Document(f, s) = At(f, Doc(s))
<1>1. Keyed(f) /\ At(f, Doc(s)) # None
  BY SidsAt DEF Whole
<1>2. Doc(s) \in DOMAIN f /\ At(f, Doc(s)) = f[Doc(s)]
  BY <1>1 DEF At
<1>3. Fits(Doc(s), f[Doc(s)], f, whole, open)
  BY <1>1, <1>2 DEF Whole
<1> QED BY <1>1, <1>2, <1>3, SidsAt, KeysDiffer DEF Fits

LEMMA WholeKeys ==
  ASSUME NEW f, NEW whole, NEW open, Whole(f, whole, open)
  PROVE  /\ \A c : At(f, Index(c)) # None =>
              At(f, Index(c)) \in Sids(f) /\ At(f, Index(c))[1] = c /\ Policy[c] = "content_id"
         /\ \A c : At(f, Route(c)) # None => At(f, Route(c)) \in Mains(f) /\ At(f, Route(c))[1] = c
         /\ \A a, b : At(f, Claim(a, b)) # None => Numbered(f, At(f, Claim(a, b)))
         /\ \A c : At(f, Counter(c)) # None => At(f, Counter(c)) \in Nat
<1>1. \A k : At(f, k) # None => Fits(k, At(f, k), f, whole, open)
  BY DEF At, Whole
<1>2. ASSUME NEW c PROVE At(f, Index(c)) # None =>
              At(f, Index(c)) \in Sids(f) /\ At(f, Index(c))[1] = c /\ Policy[c] = "content_id"
  BY <1>1, KeysDiffer DEF Fits
<1>3. ASSUME NEW c PROVE At(f, Route(c)) # None => At(f, Route(c)) \in Mains(f) /\ At(f, Route(c))[1] = c
  BY <1>1, KeysDiffer DEF Fits
<1>4. ASSUME NEW a, NEW b PROVE At(f, Claim(a, b)) # None => Numbered(f, At(f, Claim(a, b)))
  BY <1>1, KeysDiffer DEF Fits
<1>5. ASSUME NEW c PROVE At(f, Counter(c)) # None => At(f, Counter(c)) \in Nat
  BY <1>1, KeysDiffer DEF Fits
<1> QED BY <1>2, <1>3, <1>4, <1>5

\* A collection of records that are known by content has one document for it.
LEMMA OneByContent ==
  ASSUME NEW f, NEW whole, NEW open, Whole(f, whole, open), NEW s \in Sids(f), NEW t \in Sids(f),
         s[1] = t[1], Policy[s[1]] = "content_id"
  PROVE  s = t
BY WholeDocs DEF DocFits

LEMMA NumbersAfter ==
  ASSUME NEW f, NEW whole, NEW open, Whole(f, whole, open), NEW s \in Sid, ~Numbered(f, s)
  PROVE  s \notin Sids(f)
BY WholeDocs DEF DocFits
-----------------------------------------------------------------------------
(* What grows.                                                             *)

LEMMA GrownAt ==
  ASSUME NEW f, NEW g, Grown(f, g)
  PROVE  \A k : KeyGrows(k, At(f, k), At(g, k))
BY DEF Grown, At, KeyGrows

LEMMA GrownSame ==
  ASSUME NEW f, NEW whole, NEW open, Whole(f, whole, open)
  PROVE  Grown(f, f)
<1> SUFFICES ASSUME NEW k \in DOMAIN f PROVE KeyGrows(k, At(f, k), At(f, k))
  BY DEF Grown
<1>1. At(f, k) # None => Fits(k, At(f, k), f, whole, open)
  BY DEF At, Whole
<1> QED BY <1>1 DEF KeyGrows, Fits

LEMMA GrownOn ==
  ASSUME NEW f, NEW g, NEW h, Grown(f, g), Grown(g, h)
  PROVE  Grown(f, h)
<1> SUFFICES ASSUME NEW k \in DOMAIN f PROVE KeyGrows(k, At(f, k), At(h, k))
  BY DEF Grown
<1>1. KeyGrows(k, At(f, k), At(g, k)) /\ KeyGrows(k, At(g, k), At(h, k))
  BY GrownAt
<1> QED BY <1>1 DEF KeyGrows

LEMMA GrownFacts ==
  ASSUME NEW f, NEW g, Keyed(f), Keyed(g), Grown(f, g)
  PROVE  /\ Sids(f) \subseteq Sids(g) /\ Mains(f) \subseteq Mains(g)
         /\ \A s \in Sids(f) : /\ At(g, Doc(s)).obj = At(f, Doc(s)).obj
                               /\ At(g, Doc(s)).refs = At(f, Doc(s)).refs
         /\ \A s : Numbered(f, s) => Numbered(g, s)
         /\ \A c : At(f, Index(c)) # None => At(g, Index(c)) = At(f, Index(c))
         /\ \A c : At(f, Route(c)) # None => At(g, Route(c)) = At(f, Route(c))
         /\ \A k : k[1] = "claim" /\ At(f, k) # None => At(g, k) = At(f, k)
<1>1. \A k : KeyGrows(k, At(f, k), At(g, k))
  BY GrownAt
<1>2. ASSUME NEW s \in Sids(f)
      PROVE  /\ s \in Sids(g) /\ At(g, Doc(s)).obj = At(f, Doc(s)).obj /\ At(g, Doc(s)).refs = At(f, Doc(s)).refs
             /\ s \in Mains(f) => s \in Mains(g)
  <2>1. KeyGrows(Doc(s), At(f, Doc(s)), At(g, Doc(s))) /\ Doc(s)[1] = "doc"
    BY <1>1, KeysDiffer
  <2> QED BY <2>1, SidsAt DEF KeyGrows
<1>3. ASSUME NEW s, Numbered(f, s) PROVE Numbered(g, s)
  <2>1. KeyGrows(Counter(s[1]), At(f, Counter(s[1])), At(g, Counter(s[1]))) /\ Counter(s[1])[1] = "counter"
    BY <1>1, KeysDiffer
  <2>2. s \in Sid /\ s[2] \in Nat
    BY <1>3 DEF Numbered, Sid
  <2> QED BY <1>3, <2>1, <2>2 DEF KeyGrows, Numbered
<1>4. ASSUME NEW c PROVE /\ At(f, Index(c)) # None => At(g, Index(c)) = At(f, Index(c))
                         /\ At(f, Route(c)) # None => At(g, Route(c)) = At(f, Route(c))
  <2>1. /\ KeyGrows(Index(c), At(f, Index(c)), At(g, Index(c))) /\ Index(c)[1] = "index"
        /\ KeyGrows(Route(c), At(f, Route(c)), At(g, Route(c))) /\ Route(c)[1] = "dispatch"
    BY <1>1, KeysDiffer
  <2> QED BY <2>1 DEF KeyGrows
<1>5. ASSUME NEW k, k[1] = "claim", At(f, k) # None PROVE At(g, k) = At(f, k)
  BY <1>1, <1>5 DEF KeyGrows
<1>6. Mains(f) \subseteq Sids(f)
  BY DEF Mains
<1> QED BY <1>2, <1>3, <1>4, <1>5, <1>6

\* What fits a database fits what it grows into.
LEMMA FitsGrown ==
  ASSUME NEW f, NEW g, Keyed(f), Keyed(g), Grown(f, g), NEW whole, NEW open,
         NEW k, IsKey(k), NEW x, Fits(k, x, f, whole, open)
  PROVE  Fits(k, x, g, whole, open)
<1>0. /\ Sids(f) \subseteq Sids(g) /\ Mains(f) \subseteq Mains(g)
      /\ \A s : Numbered(f, s) => Numbered(g, s)
      /\ \A c : At(f, Index(c)) # None => At(g, Index(c)) = At(f, Index(c))
      /\ \A q : q[1] = "claim" /\ At(f, q) # None => At(g, q) = At(f, q)
  BY GrownFacts
<1>1. ASSUME k[1] = "doc" PROVE DocFits(k[2], x, g, whole, open)
  <2>1. DocFits(k[2], x, f, whole, open)
    BY <1>1 DEF Fits
  <2>2. k[2] \in Sid /\ k[2] # None
    BY <2>1, NoneApart DEF DocFits
  <2>3. Policy[k[2][1]] = "content_id" => At(g, Index(k[2][1])) = k[2]
    BY <1>0, <2>1, <2>2 DEF DocFits
  <2>4. k[2] \notin open => \A q \in Claims(x.obj, k[2]) : At(g, q) = k[2]
    BY <1>0, <2>1, <2>2, ClaimsAre DEF DocFits
  <2> QED BY <1>0, <2>1, <2>3, <2>4 DEF DocFits
<1> QED BY <1>0, <1>1 DEF Fits

LEMMA WroteWhole ==
  ASSUME NEW f, NEW v, NEW g, g = Over(v, f), NEW whole, NEW open, NEW open2,
         Whole(f, whole, open), open \subseteq open2,
         \A k \in DOMAIN v : /\ IsKey(k) /\ KeyGrows(k, At(f, k), v[k])
                             /\ v[k] # None => Fits(k, v[k], g, whole, open2)
  PROVE  Whole(g, whole, open2) /\ Grown(f, g)
<1>0. \A k \in DOMAIN v : IsKey(k) /\ KeyGrows(k, At(f, k), v[k])
  OBVIOUS
<1>1. Keyed(f) /\ Keyed(g)
  BY <1>0, KeyedOver DEF Whole
<1>2. Grown(f, g)
  <2> SUFFICES ASSUME NEW k \in DOMAIN f PROVE KeyGrows(k, At(f, k), At(g, k))
    BY DEF Grown
  <2>1. At(g, k) = IF k \in DOMAIN v THEN v[k] ELSE At(f, k)
    BY DEF At, Over
  <2>2. KeyGrows(k, At(f, k), At(f, k))
    BY GrownSame, GrownAt
  <2> QED BY <1>0, <2>1, <2>2
<1>3. ASSUME NEW k \in DOMAIN g, g[k] # None PROVE Fits(k, g[k], g, whole, open2)
  <2>1. CASE k \in DOMAIN v
    <3>1. g[k] = v[k]
      BY <2>1 DEF Over
    <3>2. v[k] # None => Fits(k, v[k], g, whole, open2)
      BY <2>1
    <3> QED BY <1>3, <3>1, <3>2
  <2>2. CASE k \notin DOMAIN v
    <3>1. k \in DOMAIN f /\ g[k] = f[k]
      BY <2>2 DEF Over
    <3>2. Fits(k, f[k], f, whole, open) /\ IsKey(k)
      BY <1>3, <3>1 DEF Whole, Keyed
    <3>3. Fits(k, f[k], g, whole, open)
      BY <1>1, <1>2, <3>2, FitsGrown
    <3> QED BY <3>1, <3>3 DEF Fits, DocFits
  <2> QED BY <2>1, <2>2
<1> QED BY <1>1, <1>2, <1>3 DEF Whole

\* A commit: what the transaction has written over a database that has grown
\* since its snapshot, though none of the keys it writes has changed.
LEMMA CommitWhole ==
  ASSUME NEW b, NEW w, NEW f, NEW whole, NEW v, v = Over(w, b), NEW g, g = Over(w, f),
         Keyed(b), Whole(v, whole, {}), Whole(f, whole, {}), Grown(b, f), Grown(b, v),
         \A k \in DOMAIN w : At(f, k) = At(b, k)
  PROVE  Whole(g, whole, {}) /\ Grown(f, g) /\ Grown(v, g)
<1>1. Keyed(v) /\ Keyed(f) /\ Keyed(g)
  <2>1. \A k \in DOMAIN w : IsKey(k)
    BY AtOver DEF Whole, Keyed
  <2> QED BY <2>1, KeyedOver DEF Whole
<1>2. \A k : At(g, k) = IF k \in DOMAIN w THEN w[k] ELSE At(f, k)
  BY DEF At, Over
<1>3. \A k : At(v, k) = IF k \in DOMAIN w THEN w[k] ELSE At(b, k)
  BY DEF At, Over
<1>4. Grown(f, g)
  <2> SUFFICES ASSUME NEW k \in DOMAIN f PROVE KeyGrows(k, At(f, k), At(g, k))
    BY DEF Grown
  <2>1. CASE k \in DOMAIN w
    BY <1>2, <1>3, <2>1, GrownAt
  <2>2. CASE k \notin DOMAIN w
    BY <1>2, <2>2, GrownSame, GrownAt
  <2> QED BY <2>1, <2>2
<1>5. Grown(v, g)
  <2> SUFFICES ASSUME NEW k \in DOMAIN v PROVE KeyGrows(k, At(v, k), At(g, k))
    BY DEF Grown
  <2>1. CASE k \in DOMAIN w
    <3>1. At(g, k) = At(v, k)
      BY <1>2, <1>3, <2>1
    <3> QED BY <3>1, GrownSame, GrownAt
  <2>2. CASE k \notin DOMAIN w
    BY <1>2, <1>3, <2>2, GrownAt
  <2> QED BY <2>1, <2>2
<1>6. ASSUME NEW k \in DOMAIN g, g[k] # None PROVE Fits(k, g[k], g, whole, {})
  <2>0. IsKey(k) /\ At(g, k) = g[k]
    BY <1>1 DEF Keyed, At
  <2>1. CASE k \in DOMAIN w
    <3>1. k \in DOMAIN v /\ v[k] = g[k]
      BY <2>1 DEF Over
    <3>2. Fits(k, v[k], v, whole, {})
      BY <1>6, <3>1 DEF Whole
    <3> QED BY <1>1, <1>5, <2>0, <3>1, <3>2, FitsGrown
  <2>2. CASE k \notin DOMAIN w
    <3>1. k \in DOMAIN f /\ f[k] = g[k]
      BY <2>2 DEF Over
    <3>2. Fits(k, f[k], f, whole, {})
      BY <1>6, <3>1 DEF Whole
    <3> QED BY <1>1, <1>4, <2>0, <3>1, <3>2, FitsGrown
  <2> QED BY <2>1, <2>2
<1> QED BY <1>1, <1>4, <1>5, <1>6 DEF Whole

-----------------------------------------------------------------------------
(* What a save writes.                                                     *)

\* The keys of a database besides v's are unchanged, and its documents are
\* those of s besides.
LEMMA SidsPut ==
  ASSUME NEW f, NEW v, NEW g, g = Over(v, f), Keyed(f), Keyed(g), NEW S,
         \A s : (Doc(s) \in DOMAIN v => s \in S /\ v[Doc(s)] # None), \A s \in S : Doc(s) \in DOMAIN v
  PROVE  Sids(g) = Sids(f) \cup S
<1> SUFFICES ASSUME NEW s PROVE s \in Sids(g) <=> s \in Sids(f) \cup S
  OBVIOUS
<1>1. s \in Sids(g) <=> At(g, Doc(s)) # None
  BY SidsAt
<1>2. s \in Sids(f) <=> At(f, Doc(s)) # None
  BY SidsAt
<1>3. CASE Doc(s) \in DOMAIN v
  <2>1. At(g, Doc(s)) = v[Doc(s)]
    BY <1>3 DEF At, Over
  <2> QED BY <1>1, <1>3, <2>1
<1>4. CASE Doc(s) \notin DOMAIN v
  <2>1. At(g, Doc(s)) = At(f, Doc(s))
    BY <1>4 DEF At, Over
  <2> QED BY <1>1, <1>2, <1>4, <2>1
<1> QED BY <1>3, <1>4

LEMMA PromotedWhole ==
  ASSUME NEW f, NEW whole, NEW open, Whole(f, whole, open), NEW s \in Sids(f),
         NEW g, g = Over(Put(Doc(s), [At(f, Doc(s)) EXCEPT !.role = "main"]), f)
  PROVE  /\ Whole(g, whole, open) /\ Grown(f, g) /\ Sids(g) = Sids(f) /\ s \in Mains(g)
         /\ \A k : k[1] # "doc" => At(g, k) = At(f, k)
<1> DEFINE d == At(f, Doc(s))
           e == [d EXCEPT !.role = "main"]
           v == Put(Doc(s), e)
<1>1. DocFits(s, d, f, whole, open) /\ d # None /\ d \in DocType
  BY WholeDocs DEF DocFits
<1>2. /\ e \in DocType /\ e # None /\ e.obj = d.obj /\ e.refs = d.refs /\ e.role = "main"
  BY <1>1, NoneApart DEF DocType
<1>3. DOMAIN v = {Doc(s)} /\ v[Doc(s)] = e /\ IsKey(Doc(s)) /\ Doc(s)[1] = "doc" /\ Doc(s)[2] = s
  <2>1. DOMAIN v = {Doc(s)} /\ v[Doc(s)] = e
    BY PutAt
  <2> QED BY <2>1, KeysDiffer
<1>4. g = Over(v, f) /\ Keyed(f) /\ Keyed(g)
  BY <1>3, KeyedOver DEF Whole
<1> HIDE DEF v, e, d
<1>5. Sids(g) = Sids(f)
  <2>1. \A t : Doc(t) \in DOMAIN v => t \in {s} /\ v[Doc(t)] # None
    BY <1>2, <1>3, KeysDiffer
  <2>2. \A t \in {s} : Doc(t) \in DOMAIN v
    BY <1>3
  <2>3. Sids(g) = Sids(f) \cup {s}
    BY <1>4, <2>1, <2>2, SidsPut
  <2> QED BY <2>3
<1>6. \A k : k # Doc(s) => At(g, k) = At(f, k)
  BY <1>3, <1>4 DEF At, Over
<1>7. At(g, Doc(s)) = e
  BY <1>3, <1>4 DEF At, Over
<1>8. Fits(Doc(s), e, g, whole, open)
  <2>1. Numbered(f, s) => Numbered(g, s)
    BY <1>6, KeysDiffer DEF Numbered
  <2>2. At(g, Index(s[1])) = At(f, Index(s[1]))
    BY <1>6, KeysDiffer
  <2>3. \A k \in Claims(e.obj, s) : At(g, k) = At(f, k)
    BY <1>3, <1>6, ClaimsAre
  <2>4. DocFits(s, e, g, whole, open)
    BY <1>1, <1>2, <1>5, <2>1, <2>2, <2>3 DEF DocFits
  <2> QED BY <1>3, <2>4 DEF Fits
<1>9. KeyGrows(Doc(s), At(f, Doc(s)), e)
  BY <1>2, <1>3 DEF KeyGrows, d
<1>10. Whole(g, whole, open) /\ Grown(f, g)
  BY <1>3, <1>4, <1>8, <1>9, WroteWhole
<1>11. s \in Mains(g)
  BY <1>2, <1>4, <1>5, <1>7, SidsAt
<1>12. \A k : k[1] # "doc" => At(g, k) = At(f, k)
  BY <1>3, <1>6
<1> QED BY <1>5, <1>10, <1>11, <1>12

LEMMA CountedWhole ==
  ASSUME NEW f, NEW whole, NEW open, Whole(f, whole, open), NEW c \in Collections,
         NEW n, n = (IF At(f, Counter(c)) = None THEN 1 ELSE At(f, Counter(c)) + 1),
         NEW g, g = Over(Put(Counter(c), n), f)
  PROVE  /\ Whole(g, whole, open) /\ Grown(f, g) /\ Sids(g) = Sids(f)
         /\ <<c, n>> \in Sid /\ Numbered(g, <<c, n>>) /\ ~Numbered(f, <<c, n>>)
         /\ \A k : k[1] # "counter" => At(g, k) = At(f, k)
<1>1. At(f, Counter(c)) # None => At(f, Counter(c)) \in Nat
  BY WholeKeys
<1>2. n \in Nat \ {0} /\ n # None
  BY <1>1, NoneApart
<1> DEFINE v == Put(Counter(c), n)
<1>3. DOMAIN v = {Counter(c)} /\ v[Counter(c)] = n /\ IsKey(Counter(c)) /\ Counter(c)[1] = "counter"
  <2>1. DOMAIN v = {Counter(c)} /\ v[Counter(c)] = n
    BY PutAt
  <2> QED BY <2>1, KeysDiffer
<1>4. g = Over(v, f) /\ Keyed(f) /\ Keyed(g)
  BY <1>3, KeyedOver DEF Whole
<1> HIDE DEF v
<1>5. Sids(g) = Sids(f)
  <2>1. \A t : Doc(t) \notin DOMAIN v
    BY <1>3, KeysDiffer
  <2>2. Sids(g) = Sids(f) \cup {}
    BY <1>4, <2>1, SidsPut
  <2> QED BY <2>2
<1>6. \A k : k # Counter(c) => At(g, k) = At(f, k)
  BY <1>3, <1>4 DEF At, Over
<1>7. At(g, Counter(c)) = n
  BY <1>3, <1>4 DEF At, Over
<1>8. KeyGrows(Counter(c), At(f, Counter(c)), n) /\ Fits(Counter(c), n, g, whole, open)
  <2>1. At(f, Counter(c)) # None => At(f, Counter(c)) \in Nat /\ At(f, Counter(c)) <= n
    BY <1>1
  <2> QED BY <1>2, <1>3, <2>1 DEF KeyGrows, Fits
<1>9. Whole(g, whole, open) /\ Grown(f, g)
  BY <1>3, <1>4, <1>8, WroteWhole
<1>10. <<c, n>> \in Sid /\ <<c, n>>[1] = c /\ <<c, n>>[2] = n
  BY <1>2 DEF Sid
<1>11. Numbered(g, <<c, n>>)
  BY <1>2, <1>7, <1>10 DEF Numbered
<1>12. ~Numbered(f, <<c, n>>)
  BY <1>1, <1>10 DEF Numbered
<1>13. \A k : k[1] # "counter" => At(g, k) = At(f, k)
  BY <1>3, <1>6
<1> QED BY <1>5, <1>9, <1>10, <1>11, <1>12, <1>13

LEMMA ClaimedWhole ==
  ASSUME NEW f, NEW whole, NEW open, Whole(f, whole, open), NEW k, IsKey(k), k[1] = "claim",
         NEW s, Numbered(f, s), At(f, k) = None, NEW g, g = Over(Put(k, s), f)
  PROVE  /\ Whole(g, whole, open) /\ Grown(f, g) /\ Sids(g) = Sids(f)
         /\ At(g, k) = s /\ \A q : q # k => At(g, q) = At(f, q)
<1> DEFINE v == Put(k, s)
<1>1. DOMAIN v = {k} /\ v[k] = s
  BY PutAt
<1>2. g = Over(v, f) /\ Keyed(f) /\ Keyed(g)
  BY <1>1, KeyedOver DEF Whole
<1> HIDE DEF v
<1>3. Sids(g) = Sids(f)
  <2>1. \A t : Doc(t) \notin DOMAIN v
    BY <1>1, KeysDiffer
  <2>2. Sids(g) = Sids(f) \cup {}
    BY <1>2, <2>1, SidsPut
  <2> QED BY <2>2
<1>4. \A q : q # k => At(g, q) = At(f, q)
  BY <1>1, <1>2 DEF At, Over
<1>5. At(g, k) = s
  BY <1>1, <1>2 DEF At, Over
<1>6. Numbered(g, s)
  BY <1>4, KeysDiffer DEF Numbered
<1>7. KeyGrows(k, At(f, k), s) /\ Fits(k, s, g, whole, open)
  BY <1>6 DEF KeyGrows, Fits
<1>8. Whole(g, whole, open) /\ Grown(f, g)
  BY <1>1, <1>2, <1>7, WroteWhole
<1> QED BY <1>3, <1>4, <1>5, <1>8

LEMMA RoutedWhole ==
  ASSUME NEW f, NEW whole, NEW open, Whole(f, whole, open), NEW s \in Mains(f),
         At(f, Route(s[1])) = None, NEW g, g = Over(Put(Route(s[1]), s), f)
  PROVE  /\ Whole(g, whole, open) /\ Grown(f, g) /\ Sids(g) = Sids(f) /\ Mains(g) = Mains(f)
         /\ At(g, Route(s[1])) = s
<1> DEFINE k == Route(s[1])
           v == Put(k, s)
<1>1. DOMAIN v = {k} /\ v[k] = s /\ IsKey(k) /\ k[1] = "dispatch" /\ k[2] = s[1]
  <2>1. DOMAIN v = {k} /\ v[k] = s
    BY PutAt
  <2> QED BY <2>1, KeysDiffer
<1>2. g = Over(v, f) /\ Keyed(f) /\ Keyed(g) /\ At(f, k) = None
  BY <1>1, KeyedOver DEF Whole
<1> HIDE DEF v, k
<1>3. Sids(g) = Sids(f)
  <2>1. \A t : Doc(t) \notin DOMAIN v
    BY <1>1, KeysDiffer
  <2>2. Sids(g) = Sids(f) \cup {}
    BY <1>2, <2>1, SidsPut
  <2> QED BY <2>2
<1>4. \A q : q # k => At(g, q) = At(f, q)
  BY <1>1, <1>2 DEF At, Over
<1>5. At(g, k) = s
  BY <1>1, <1>2 DEF At, Over
<1>6. Mains(g) = Mains(f)
  <2>1. \A t : At(g, Doc(t)) = At(f, Doc(t))
    BY <1>1, <1>4, KeysDiffer
  <2>2. \A t : t \in Mains(g) <=> t \in Mains(f)
    BY <1>2, <1>3, <2>1, SidsAt
  <2> QED BY <2>2
<1>7. KeyGrows(k, At(f, k), s) /\ Fits(k, s, g, whole, open)
  BY <1>1, <1>2, <1>6 DEF KeyGrows, Fits
<1>8. Whole(g, whole, open) /\ Grown(f, g)
  BY <1>1, <1>2, <1>7, WroteWhole
<1> QED BY <1>3, <1>5, <1>6, <1>8 DEF k

\* The document of an object o whose parts are saved, and its index entry.
InsertedValues(s, o, got, compared, role) ==
  LET document == Put(Doc(s), [obj |-> o, refs |-> got, compared |-> compared, role |-> role])
  IN IF Policy[s[1]] = "content_id" THEN Over(document, Put(Index(s[1]), s)) ELSE document

InsertedInto(f, g, s, o, got, role) ==
  /\ Grown(f, g) /\ Sids(g) = Sids(f) \cup {s}
  /\ At(g, Doc(s)).obj = o /\ At(g, Doc(s)).refs = got /\ At(g, Doc(s)).role = role
  /\ \A k : k[1] \notin {"doc", "index"} => At(g, k) = At(f, k)

LEMMA InsertedWhole ==
  ASSUME NEW f, NEW whole, NEW open, NEW open2, Whole(f, whole, open), open \subseteq open2,
         NEW s \in Sid, Numbered(f, s), s \notin Sids(f), NEW o \in Objects, s[1] = Content[o],
         NEW got \in SUBSET Sid, got \subseteq Sids(f), \A t \in got : Rank[t[1]] < Rank[s[1]],
         NEW compared \in SUBSET Sid, NEW role, role \in {"main", "dep"},
         Policy[s[1]] = "content_id" => At(f, Index(s[1])) = None,
         s \notin open2 => \A k \in Claims(o, s) : At(f, k) = s,
         NEW v, v = InsertedValues(s, o, got, compared, role), NEW g, g = Over(v, f)
  PROVE  Whole(g, whole, open2) /\ InsertedInto(f, g, s, o, got, role)
<1> DEFINE d == [obj |-> o, refs |-> got, compared |-> compared, role |-> role]
           K == {Doc(s)} \cup (IF Policy[s[1]] = "content_id" THEN {Index(s[1])} ELSE {})
<1>1. d \in DocType /\ d # None /\ d.obj = o /\ d.refs = got /\ d.role = role /\ s # None
  BY NoneApart DEF DocType
<1>2. /\ IsKey(Doc(s)) /\ Doc(s)[1] = "doc" /\ Doc(s)[2] = s
      /\ IsKey(Index(s[1])) /\ Index(s[1])[1] = "index" /\ Index(s[1])[2] = s[1]
  BY KeysDiffer
<1>3. /\ DOMAIN v = K /\ v[Doc(s)] = d
      /\ Policy[s[1]] = "content_id" => v[Index(s[1])] = s
  BY <1>2 DEF InsertedValues, Over, Put
<1> HIDE DEF d
<1>4. Keyed(f) /\ Keyed(g)
  BY <1>2, <1>3, KeyedOver DEF Whole
<1>6. \A k : k \notin K => At(g, k) = At(f, k)
  BY <1>3 DEF At, Over
<1>7. At(g, Doc(s)) = d /\ (Policy[s[1]] = "content_id" => At(g, Index(s[1])) = s)
  BY <1>3 DEF At, Over
<1>5. Sids(g) = Sids(f) \cup {s}
  <2>1. \A t : t # s => At(g, Doc(t)) = At(f, Doc(t))
    BY <1>2, <1>6, KeysDiffer
  <2>2. \A t : t \in Sids(g) <=> t \in Sids(f) \cup {s}
    BY <1>1, <1>4, <1>7, <2>1, SidsAt
  <2> QED BY <2>2
<1>8. \A k : k[1] \notin {"doc", "index"} => At(g, k) = At(f, k)
  BY <1>2, <1>6
<1>9. Fits(Doc(s), d, g, whole, open2)
  <2>1. Numbered(g, s)
    BY <1>8, KeysDiffer DEF Numbered
  <2>2. s \notin open2 => \A k \in Claims(d.obj, s) : At(g, k) = s
    BY <1>1, <1>8, ClaimsAre
  <2>3. DocFits(s, d, g, whole, open2)
    BY <1>1, <1>5, <1>7, <2>1, <2>2 DEF DocFits
  <2> QED BY <1>2, <2>3 DEF Fits
<1>10. Policy[s[1]] = "content_id" => Fits(Index(s[1]), s, g, whole, open2)
  BY <1>2, <1>5 DEF Fits
<1>11. /\ KeyGrows(Doc(s), At(f, Doc(s)), d)
       /\ Policy[s[1]] = "content_id" => KeyGrows(Index(s[1]), At(f, Index(s[1])), s)
  <2>1. At(f, Doc(s)) = None
    BY <1>4, SidsAt
  <2> QED BY <2>1 DEF KeyGrows
<1>12. \A k \in DOMAIN v : /\ IsKey(k) /\ KeyGrows(k, At(f, k), v[k])
                           /\ v[k] # None => Fits(k, v[k], g, whole, open2)
  BY <1>2, <1>3, <1>9, <1>10, <1>11
<1>13. Whole(g, whole, open2) /\ Grown(f, g)
  BY <1>12, WroteWhole
<1> QED BY <1>1, <1>5, <1>7, <1>8, <1>13 DEF InsertedInto

-----------------------------------------------------------------------------
(* The frames of a save.                                                   *)

LEMMA SeqPut ==
  ASSUME NEW S, NEW q \in Seq(S), NEW i \in 1 .. Len(q), NEW x \in S,
         NEW r, r = [q EXCEPT ![i] = x]
  PROVE  /\ r \in Seq(S) /\ Len(r) = Len(q)
         /\ \A j \in 1 .. Len(q) : r[j] = IF j = i THEN x ELSE q[j]
OBVIOUS

LEMMA CallFields ==
  ASSUME NEW c \in CallType
  PROVE  /\ c.call \in Calls \cup {None} /\ c.attempt \in 0 .. Attempts /\ c.frames \in Seq(FrameType)
         /\ c.memo \subseteq MemoType /\ c.inserted \in Seq(Sid)
         /\ Len(c.frames) \in Nat /\ Len(c.inserted) \in Nat
         /\ c.frames # <<>> => Len(c.frames) > 0 /\ TopOf(c) \in FrameType /\ TopOf(c) = c.frames[Len(c.frames)]
<1>1. /\ c.call \in Calls \cup {None} /\ c.attempt \in 0 .. Attempts /\ c.frames \in Seq(FrameType)
      /\ c.memo \subseteq MemoType /\ c.inserted \in Seq(Sid)
  BY DEF CallType
<1>2. ASSUME c.frames # <<>> PROVE Len(c.frames) > 0 /\ c.frames[Len(c.frames)] \in FrameType
  <2>1. PICK q \in Seq(FrameType) : q = c.frames
    BY <1>1
  <2>2. Len(q) \in Nat /\ Len(q) > 0 /\ q[Len(q)] \in FrameType
    BY <1>2, <2>1
  <2> QED BY <2>1, <2>2
<1> QED BY <1>1, <1>2 DEF TopOf

LEMMA FrameFields ==
  ASSUME NEW r \in FrameType
  PROVE  /\ r.obj \in Objects /\ r.top \in BOOLEAN /\ r.stage \in Stages /\ r.todo \subseteq Objects
         /\ r.got \subseteq Sid /\ r.compared \subseteq Sid /\ r.mark \in Nat
BY DEF FrameType

LEMMA FirstOf ==
  ASSUME NEW S, NEW q \in Seq(S), NEW n \in Nat, n <= Len(q)
  PROVE  /\ SubSeq(q, 1, n) \in Seq(S) /\ Len(SubSeq(q, 1, n)) = n
         /\ \A i \in 1 .. n : SubSeq(q, 1, n)[i] = q[i]
<1>1. n \in Int /\ 1 \in Int /\ \A i \in 1 .. n : q[i] \in S
  OBVIOUS
<1>2. /\ SubSeq(q, 1, n) \in Seq(S) /\ Len(SubSeq(q, 1, n)) = IF 1 <= n THEN n - 1 + 1 ELSE 0
      /\ \A i \in 1 .. n - 1 + 1 : SubSeq(q, 1, n)[i] = q[1 + i - 1]
  BY <1>1, SubSeqProperties
<1> QED BY <1>2

LEMMA CallExcept ==
  ASSUME NEW c \in CallType, NEW frames, NEW memo, NEW inserted
  PROVE  /\ [c EXCEPT !.memo = memo, !.frames = frames] =
              [call |-> c.call, attempt |-> c.attempt, frames |-> frames, memo |-> memo, inserted |-> c.inserted]
         /\ [c EXCEPT !.frames = frames] =
              [call |-> c.call, attempt |-> c.attempt, frames |-> frames, memo |-> c.memo, inserted |-> c.inserted]
         /\ [c EXCEPT !.inserted = inserted, !.frames = frames] =
              [call |-> c.call, attempt |-> c.attempt, frames |-> frames, memo |-> c.memo, inserted |-> inserted]
         /\ [c EXCEPT !.memo = memo, !.inserted = inserted] =
              [call |-> c.call, attempt |-> c.attempt, frames |-> c.frames, memo |-> memo, inserted |-> inserted]
         /\ [c EXCEPT !.inserted = inserted] =
              [call |-> c.call, attempt |-> c.attempt, frames |-> c.frames, memo |-> c.memo, inserted |-> inserted]
<1>1. c = [call |-> c.call, attempt |-> c.attempt, frames |-> c.frames, memo |-> c.memo, inserted |-> c.inserted]
  BY DEF CallType
<1>2. PICK x, y, z, u, w : c = [call |-> x, attempt |-> y, frames |-> z, memo |-> u, inserted |-> w]
  BY <1>1
<1>3. PICK d : d = [c EXCEPT !.memo = memo]
  OBVIOUS
<1>4. PICK e : e = [c EXCEPT !.inserted = inserted]
  OBVIOUS
<1>5. /\ d = [call |-> c.call, attempt |-> c.attempt, frames |-> c.frames, memo |-> memo, inserted |-> c.inserted]
      /\ e = [call |-> c.call, attempt |-> c.attempt, frames |-> c.frames, memo |-> c.memo, inserted |-> inserted]
  BY <1>1, <1>3, <1>4
<1>6. [c EXCEPT !.memo = memo, !.frames = frames] =
        [call |-> c.call, attempt |-> c.attempt, frames |-> frames, memo |-> memo, inserted |-> c.inserted]
  <2>1. [d EXCEPT !.frames = frames] =
          [call |-> c.call, attempt |-> c.attempt, frames |-> frames, memo |-> memo, inserted |-> c.inserted]
    BY <1>5
  <2> QED BY <1>3, <2>1
<1>8. [c EXCEPT !.frames = frames] =
        [call |-> c.call, attempt |-> c.attempt, frames |-> frames, memo |-> c.memo, inserted |-> c.inserted]
  BY <1>2
<1>9. [c EXCEPT !.inserted = inserted, !.frames = frames] =
        [call |-> c.call, attempt |-> c.attempt, frames |-> frames, memo |-> c.memo, inserted |-> inserted]
  <2>1. [e EXCEPT !.frames = frames] =
          [call |-> c.call, attempt |-> c.attempt, frames |-> frames, memo |-> c.memo, inserted |-> inserted]
    BY <1>5
  <2> QED BY <1>4, <2>1
<1>10. [c EXCEPT !.memo = memo, !.inserted = inserted] =
         [call |-> c.call, attempt |-> c.attempt, frames |-> c.frames, memo |-> memo, inserted |-> inserted]
  <2>1. [d EXCEPT !.inserted = inserted] =
          [call |-> c.call, attempt |-> c.attempt, frames |-> c.frames, memo |-> memo, inserted |-> inserted]
    BY <1>5
  <2> QED BY <1>3, <2>1
<1>7. [c EXCEPT !.inserted = inserted] =
        [call |-> c.call, attempt |-> c.attempt, frames |-> c.frames, memo |-> c.memo, inserted |-> inserted]
  BY <1>2
<1> QED BY <1>6, <1>7, <1>8, <1>9, <1>10

\* The call of a save without frames: it is over, or about to be dispatched.
LEMMA FramesOfCall ==
  ASSUME NEW c, NEW f, NEW b, NEW t, CallBase(c, f, b, t), c.frames # <<>>
  PROVE  c.call # None /\ c.call \in Objects /\ c.frames[1].obj = c.call /\ TopOf(c).top = (Len(c.frames) = 1)
<1>1. c.call # None
  BY DEF CallBase, Idle
<1>2. c \in CallType /\ FramesSound(c)
  BY DEF CallBase
<1>3. Len(c.frames) \in Nat /\ Len(c.frames) > 0 /\ c.call \in Objects
  BY <1>1, <1>2, CallFields, SaveAssumption
<1>4. 1 \in 1 .. Len(c.frames) /\ Len(c.frames) \in 1 .. Len(c.frames)
  BY <1>3
<1> QED BY <1>1, <1>2, <1>3, <1>4 DEF FramesSound, TopOf

LEMMA SinceFacts ==
  ASSUME NEW c \in CallType
  PROVE  /\ \A m \in Nat : SinceMark(c, m) \subseteq Sid /\ None \notin SinceMark(c, m) /\ SinceMark(c, m) \subseteq SinceMark(c, 0)
         /\ \A m, n \in Nat : m <= n => SinceMark(c, n) \subseteq SinceMark(c, m)
         /\ SinceMark(c, Len(c.inserted)) = {}
<1>1. PICK q \in Seq(Sid) : q = c.inserted
  BY CallFields
<1>2. \A j \in 1 .. Len(q) : q[j] \in Sid
  BY <1>1
<1>3. Len(q) \in Nat
  BY <1>1
<1>4. \A m : SinceMark(c, m) = {q[j] : j \in m + 1 .. Len(q)}
  BY <1>1 DEF SinceMark
<1>5. ASSUME NEW m \in Nat PROVE SinceMark(c, m) \subseteq Sid
  BY <1>2, <1>3, <1>4
<1>6. ASSUME NEW m \in Nat, NEW n \in Nat, m <= n PROVE SinceMark(c, n) \subseteq SinceMark(c, m)
  <2>1. n + 1 .. Len(q) \subseteq m + 1 .. Len(q)
    BY <1>3, <1>6
  <2> QED BY <1>4, <2>1
<1>7. SinceMark(c, Len(q)) = {}
  <2>1. Len(q) + 1 .. Len(q) = {}
    BY <1>3
  <2> QED BY <1>4, <2>1
<1>8. \A m \in Nat : SinceMark(c, m) \subseteq SinceMark(c, 0) /\ None \notin SinceMark(c, m)
  BY <1>5, <1>6, NoneApart
<1> QED BY <1>1, <1>5, <1>6, <1>7, <1>8

LEMMA BaseKept ==
  ASSUME NEW c, NEW f, NEW g, NEW b, NEW t, CallBase(c, f, b, t), Keyed(f), Keyed(g), Grown(f, g),
         t /\ c.frames # <<>> => Sids(g) = Sids(f) /\ \A k : k[1] = "dispatch" => At(g, k) = At(f, k)
  PROVE  CallBase(c, g, b, t)
<1>1. /\ Sids(f) \subseteq Sids(g) /\ Mains(f) \subseteq Mains(g)
      /\ \A s \in Sids(f) : At(g, Doc(s)).refs = At(f, Doc(s)).refs
  BY GrownFacts
<1>2. c \in CallType
  BY DEF CallBase
<1>3. GotSound(c, g) /\ MemoSound(c, g)
  BY <1>1 DEF CallBase, GotSound, MemoSound
<1>4. ASSUME t, c.frames # <<>> PROVE InsertedSound(c, g, b)
  <2>1. InsertedSound(c, f, b) /\ Sids(g) = Sids(f) /\ \A k : k[1] = "dispatch" => At(g, k) = At(f, k)
    BY <1>4 DEF CallBase
  <2>2. \A k \in DOMAIN g : k[1] = "dispatch" => g[k] \notin SinceMark(c, 0)
    <3> SUFFICES ASSUME NEW k \in DOMAIN g, k[1] = "dispatch" PROVE g[k] \notin SinceMark(c, 0)
      OBVIOUS
    <3>1. g[k] = At(f, k)
      BY <2>1 DEF At
    <3>2. CASE k \in DOMAIN f
      BY <2>1, <3>1, <3>2 DEF At, InsertedSound
    <3>3. CASE k \notin DOMAIN f
      <4>1. g[k] = None
        BY <3>1, <3>3 DEF At
      <4> QED BY <1>2, <4>1, SinceFacts
    <3> QED BY <3>2, <3>3
  <2>3. Kept => \A j \in DOMAIN c.inserted : \A s \in Sids(g) :
          c.inserted[j] \in At(g, Doc(s)).refs => s \in SinceMark(c, j)
    BY <1>1, <2>1 DEF InsertedSound
  <2>4. \A j \in DOMAIN c.inserted : c.inserted[j] \in Sids(g) /\ ~Numbered(b, c.inserted[j])
    BY <2>1 DEF InsertedSound
  <2> QED BY <2>1, <2>2, <2>3, <2>4 DEF InsertedSound
<1> QED BY <1>3, <1>4 DEF CallBase

LEMMA HeldKept ==
  ASSUME NEW c, NEW f, NEW g, NEW b, NEW t, HeldSound(c, f, b, t), Keyed(f), Keyed(g), Grown(f, g),
         Held(c) \cap Sids(g) \subseteq Sids(f)
  PROVE  HeldSound(c, g, b, t)
<1> SUFFICES ASSUME At0(c, {"claim", "insert"}) PROVE HeldSound(c, g, b, t)
  BY DEF HeldSound
<1> DEFINE fr == TopOf(c)
<1>1. /\ Sids(f) \subseteq Sids(g) /\ Mains(f) \subseteq Mains(g)
      /\ \A s \in Sids(f) : At(g, Doc(s)).obj = At(f, Doc(s)).obj
      /\ \A s : Numbered(f, s) => Numbered(g, s)
      /\ \A k : k[1] = "claim" /\ At(f, k) # None => At(g, k) = At(f, k)
  BY GrownFacts
<1>2. fr.sid \in Held(c)
  BY DEF Held
<1>3. fr.sid \in Sids(g) => fr.sid \in Sids(f)
  BY <1>2
<1>4. fr.sid \in Sid /\ fr.sid # None /\ fr.sid[1] = Content[fr.obj] /\ Numbered(f, fr.sid)
  BY NoneApart DEF HeldSound
<1>5. \A k \in Claims(fr.obj, fr.sid) : At(f, k) = fr.sid => At(g, k) = fr.sid
  BY <1>1, <1>4, ClaimsAre
<1> QED BY <1>1, <1>3, <1>4, <1>5 DEF HeldSound

LEMMA TookFields ==
  ASSUME NEW y \in FrameType, NEW o \in Objects, NEW s \in Sid, NEW x, x = Took(y, o, s)
  PROVE  /\ x \in FrameType /\ x.obj = y.obj /\ x.top = y.top /\ x.stage = y.stage /\ x.sid = y.sid /\ x.mark = y.mark
         /\ x.todo \subseteq y.todo /\ x.got \subseteq y.got \cup {s}
<1>1. y = [obj |-> y.obj, top |-> y.top, stage |-> y.stage, todo |-> y.todo, got |-> y.got,
           compared |-> y.compared, sid |-> y.sid, mark |-> y.mark]
  BY DEF FrameType
<1>2. /\ y.obj \in Objects /\ y.top \in BOOLEAN /\ y.stage \in Stages /\ y.todo \subseteq Objects
      /\ y.got \subseteq Sid /\ y.compared \subseteq Sid /\ y.mark \in Nat /\ y.sid \in Sid \cup {None}
  BY DEF FrameType
<1>3. PICK z : z = IF o \in Listed[y.obj] THEN y.compared ELSE y.compared \cup {s}
  OBVIOUS
<1>4. z \subseteq Sid
  BY <1>2, <1>3
<1>5. x = [obj |-> y.obj, top |-> y.top, stage |-> y.stage, todo |-> y.todo \ {o}, got |-> y.got \cup {s},
           compared |-> z, sid |-> y.sid, mark |-> y.mark]
  BY <1>1, <1>3 DEF Took
<1>6. y.got \cup {s} \in SUBSET Sid /\ y.todo \ {o} \in SUBSET Objects
  BY <1>2
<1>7. x \in FrameType
  BY <1>2, <1>4, <1>5, <1>6 DEF FrameType
<1> QED BY <1>5, <1>7

\* The frames of c but for the one on top, the next of which has got s.
PoppedFrames(frames, c, s, n) ==
  /\ frames # <<>> /\ Len(frames) = n - 1
  /\ \A i \in 1 .. n - 1 : i # n - 1 => frames[i] = c.frames[i]
  /\ \A i \in 1 .. n - 1 : /\ frames[i].obj = c.frames[i].obj /\ frames[i].top = c.frames[i].top
                           /\ frames[i].stage = c.frames[i].stage /\ frames[i].sid = c.frames[i].sid
                           /\ frames[i].mark = c.frames[i].mark
                           /\ frames[i].todo \subseteq c.frames[i].todo
                           /\ frames[i].got \subseteq c.frames[i].got \cup {s}

LEMMA PoppedFields ==
  ASSUME NEW c \in CallType, c.frames # <<>>, NEW s \in Sid, NEW n, n = Len(c.frames), NEW e, e = Popped(c, s)
  PROVE  /\ e \in CallType /\ e.call = c.call /\ e.attempt = c.attempt /\ e.inserted = c.inserted
         /\ e.memo = c.memo \cup {[obj |-> TopOf(c).obj, sid |-> s]}
         /\ n = 1 => e.frames = <<>>
         /\ n > 1 => PoppedFrames(e.frames, c, s, n)
<1>1. PICK q \in Seq(FrameType) : q = c.frames
  BY CallFields
<1>2. n \in Nat /\ n > 0 /\ n = Len(q) /\ TopOf(c) = q[n] /\ q[n] \in FrameType /\ q[n].obj \in Objects
  BY <1>1, CallFields, FrameFields
<1> DEFINE o == q[n].obj
           m == [obj |-> o, sid |-> s]
<1>3. m \in MemoType /\ c.memo \cup {m} \subseteq MemoType
  BY <1>2, CallFields DEF MemoType
<1>4. PICK v : v = IF n = 1 THEN <<>> ELSE Append(SubSeq(q, 1, n - 2), Took(q[n - 1], o, s))
  OBVIOUS
<1>7. e = [call |-> c.call, attempt |-> c.attempt, frames |-> v, memo |-> c.memo \cup {m}, inserted |-> c.inserted]
  <2>1. e = [c EXCEPT !.memo = c.memo \cup {m}, !.frames = v]
    BY <1>1, <1>4 DEF Popped
  <2> HIDE DEF m
  <2> QED BY <2>1, CallExcept
<1>5. CASE n = 1
  <2>2. /\ e.call = c.call /\ e.attempt = c.attempt /\ e.inserted = c.inserted
        /\ e.memo = c.memo \cup {m} /\ e.frames = <<>>
        /\ e = [call |-> c.call, attempt |-> c.attempt, frames |-> <<>>, memo |-> c.memo \cup {m}, inserted |-> c.inserted]
    <3>1. v = <<>>
      BY <1>4, <1>5
    <3> HIDE DEF m
    <3> QED BY <1>7, <3>1
  <2>3. <<>> \in Seq(FrameType)
    OBVIOUS
  <2>4. e \in CallType
    BY <1>3, <2>2, <2>3, CallFields DEF CallType
  <2> QED BY <1>2, <1>5, <2>2, <2>4
<1>6. CASE n > 1
  <2>1. q[n - 1] \in FrameType
    BY <1>2, <1>6
  <2>2. PICK x : x = Took(q[n - 1], o, s)
    OBVIOUS
  <2>3. /\ x \in FrameType /\ x.obj = q[n - 1].obj /\ x.top = q[n - 1].top /\ x.stage = q[n - 1].stage
        /\ x.sid = q[n - 1].sid /\ x.mark = q[n - 1].mark
        /\ x.todo \subseteq q[n - 1].todo /\ x.got \subseteq q[n - 1].got \cup {s}
    BY <1>2, <2>1, <2>2, TookFields
  <2>4. PICK r \in Seq(FrameType) : r = SubSeq(q, 1, n - 2) /\ Len(r) = n - 2 /\ \A i \in 1 .. n - 2 : r[i] = q[i]
    <3>1. n - 2 \in Nat /\ n - 2 <= Len(q)
      BY <1>2, <1>6
    <3>2. /\ SubSeq(q, 1, n - 2) \in Seq(FrameType) /\ Len(SubSeq(q, 1, n - 2)) = n - 2
          /\ \A i \in 1 .. n - 2 : SubSeq(q, 1, n - 2)[i] = q[i]
      BY <3>1, FirstOf
    <3> QED BY <3>2
  <2>5. PICK u : u = Append(r, x)
    OBVIOUS
  <2>6. /\ u \in Seq(FrameType) /\ Len(u) = n - 1
        /\ \A j \in 1 .. n - 1 : u[j] = IF j = n - 1 THEN x ELSE r[j]
    BY <1>2, <1>6, <2>3, <2>4, <2>5
  <2>7. v = u
    <3>1. v = Append(SubSeq(q, 1, n - 2), Took(q[n - 1], o, s))
      BY <1>2, <1>4, <1>6
    <3> QED BY <2>2, <2>4, <2>5, <3>1
  <2>8. /\ e.call = c.call /\ e.attempt = c.attempt /\ e.inserted = c.inserted
        /\ e.memo = c.memo \cup {m} /\ e.frames = u
        /\ e = [call |-> c.call, attempt |-> c.attempt, frames |-> u, memo |-> c.memo \cup {m}, inserted |-> c.inserted]
    BY <1>7, <2>7
  <2>9. e \in CallType
    BY <1>3, <2>6, <2>8, CallFields DEF CallType
  <2>10. u # <<>>
    BY <1>2, <1>6, <2>6
  <2>11. ASSUME NEW i \in 1 .. n - 1
         PROVE  /\ i # n - 1 => u[i] = q[i]
                /\ u[i].obj = q[i].obj /\ u[i].top = q[i].top /\ u[i].stage = q[i].stage /\ u[i].sid = q[i].sid
                /\ u[i].mark = q[i].mark /\ u[i].todo \subseteq q[i].todo
                /\ u[i].got \subseteq q[i].got \cup {s}
    <3>1. CASE i = n - 1
      BY <2>3, <2>6, <3>1
    <3>2. CASE i # n - 1
      <4>1. u[i] = r[i] /\ i \in 1 .. n - 2
        BY <1>2, <2>6, <3>2
      <4> QED BY <2>4, <3>2, <4>1
    <3> QED BY <3>1, <3>2
  <2>12. \A i \in 1 .. n - 1 : i # n - 1 => u[i] = q[i]
    BY <2>11
  <2>13. n # 1
    BY <1>2, <1>6
  <2>14. e.memo = c.memo \cup {[obj |-> TopOf(c).obj, sid |-> s]}
    BY <1>2, <2>8
  <2>15. /\ e.frames # <<>> /\ Len(e.frames) = n - 1
         /\ \A i \in 1 .. n - 1 : i # n - 1 => e.frames[i] = c.frames[i]
    BY <1>1, <2>6, <2>8, <2>10, <2>12
  <2>16. \A i \in 1 .. n - 1 : /\ e.frames[i].obj = c.frames[i].obj /\ e.frames[i].top = c.frames[i].top
                               /\ e.frames[i].stage = c.frames[i].stage /\ e.frames[i].sid = c.frames[i].sid
                               /\ e.frames[i].mark = c.frames[i].mark
                               /\ e.frames[i].todo \subseteq c.frames[i].todo
                               /\ e.frames[i].got \subseteq c.frames[i].got \cup {s}
    <3> HIDE DEF m
    <3> QED BY <1>1, <2>8, <2>11
  <2>17. PoppedFrames(e.frames, c, s, n)
    BY <2>15, <2>16 DEF PoppedFrames
  <2> HIDE DEF m
  <2> QED BY <2>8, <2>9, <2>13, <2>14, <2>17
<1> QED BY <1>2, <1>5, <1>6

\* What the frame on top has got is gone with it.
Poppable(c, f, b, t) ==
  /\ c \in CallType /\ c.call # None /\ c.frames # <<>>
  /\ FramesSound(c) /\ MemoSound(c, f) /\ (t => InsertedSound(c, f, b))
  /\ \A i \in 1 .. Len(c.frames) - 1 : c.frames[i].got \subseteq Sids(f)

LEMMA PoppedSound ==
  ASSUME NEW c, NEW f, NEW b, NEW t, Poppable(c, f, b, t), NEW s \in Sid, s \in Sids(f),
         s[1] = Content[TopOf(c).obj], Len(c.frames) = 1 => s \in Mains(f), NEW e, e = Popped(c, s)
  PROVE  /\ CallBase(e, f, b, t) /\ e.call = c.call /\ e.inserted = c.inserted
         /\ ~At0(e, {"claim", "insert"}) /\ (e.frames # <<>> => TopOf(e).stage = "refs")
<1>a. PICK n, o, m : n = Len(c.frames) /\ o = TopOf(c).obj /\ m = [obj |-> TopOf(c).obj, sid |-> s]
  OBVIOUS
<1>0. n = Len(c.frames) /\ o = TopOf(c).obj /\ m.obj = o /\ m.sid = s
  BY <1>a
<1>1. /\ c \in CallType /\ FramesSound(c) /\ MemoSound(c, f) /\ (t => InsertedSound(c, f, b))
      /\ c.call # None /\ c.frames # <<>>
  BY DEF Poppable
<1>2. n \in Nat /\ n > 0 /\ TopOf(c) = c.frames[n] /\ o \in Objects
  BY <1>0, <1>1, CallFields, FrameFields
<1>3. c.call # None /\ c.frames[1].obj = c.call
  <2>1. 1 \in 1 .. Len(c.frames)
    BY <1>0, <1>2
  <2> QED BY <1>1, <2>1 DEF FramesSound
<1>4. /\ e \in CallType /\ e.call = c.call /\ e.attempt = c.attempt /\ e.inserted = c.inserted
      /\ e.memo = c.memo \cup {m}
      /\ n = 1 => e.frames = <<>>
  <2>1. /\ e \in CallType /\ e.call = c.call /\ e.attempt = c.attempt /\ e.inserted = c.inserted
        /\ n = 1 => e.frames = <<>>
    BY <1>0, <1>1, PoppedFields
  <2>2. e.memo = c.memo \cup {[obj |-> TopOf(c).obj, sid |-> s]}
    BY <1>0, <1>1, PoppedFields
  <2> QED BY <1>a, <2>1, <2>2
<1>5. n > 1 => PoppedFrames(e.frames, c, s, n)
  BY <1>0, <1>1, PoppedFields
<1>6. n > 1 => Rank[Content[o]] < Rank[Content[c.call]]
  <2>1. n > 1 => n \in 1 .. n /\ 1 \in 1 .. n - 1
    BY <1>2
  <2> QED BY <1>0, <1>1, <1>2, <1>3, <2>1 DEF FramesSound
<1>7. MemoSound(e, f)
  <2>1. \A k \in c.memo : /\ k.sid \in Sids(f) /\ k.sid[1] = Content[k.obj]
                          /\ Rank[Content[k.obj]] < Rank[Content[c.call]]
                          /\ k.obj = c.call => k.sid \in Mains(f)
    BY <1>1 DEF MemoSound
  <2>2. m.sid \in Sids(f) /\ m.sid[1] = Content[m.obj]
    BY <1>0, <1>4
  <2>3. e.frames # <<>> => n > 1
    BY <1>2, <1>4
  <2>4. e.frames # <<>> => Rank[Content[m.obj]] < Rank[Content[c.call]]
    BY <1>0, <1>4, <1>6, <2>3
  <2>5. m.obj = c.call => m.sid \in Mains(f)
    <3>1. CASE n = 1
      BY <1>0, <1>4, <3>1
    <3>2. CASE n > 1
      <4>1. Rank[Content[c.call]] \in Nat
        BY <1>1, <1>3, CallFields, SaveAssumption, Constants
      <4> QED BY <1>0, <1>4, <1>6, <3>2, <4>1
    <3> QED BY <1>2, <3>1, <3>2
  <2>6. e.frames = <<>> => m.obj = c.call
    <3>1. n = 1 => o = c.call
      BY <1>0, <1>2, <1>3
    <3>2. n > 1 => e.frames # <<>>
      BY <1>5 DEF PoppedFrames
    <3>3. n = 1 \/ n > 1
      BY <1>2
    <3> QED BY <1>0, <3>1, <3>2, <3>3
  <2> QED BY <1>0, <1>4, <2>1, <2>2, <2>4, <2>5, <2>6 DEF MemoSound
<1>8. CASE n = 1
  <2>1. e.frames = <<>> /\ Len(e.frames) = 0
    BY <1>0, <1>4, <1>8
  <2> QED BY <1>3, <1>4, <1>7, <2>1 DEF CallBase, FramesSound, GotSound, At0
<1>9. CASE n > 1
  <2>0. n - 1 \in Nat /\ n \in 1 .. n /\ n - 1 \in 1 .. n - 1 /\ 1 .. n - 1 \subseteq 1 .. n
    BY <1>2, <1>9
  <2>1. /\ e.frames # <<>> /\ Len(e.frames) = n - 1
        /\ \A i \in 1 .. n - 1 : i # n - 1 => e.frames[i] = c.frames[i]
        /\ \A i \in 1 .. n - 1 : /\ e.frames[i].obj = c.frames[i].obj /\ e.frames[i].top = c.frames[i].top
                                 /\ e.frames[i].stage = c.frames[i].stage /\ e.frames[i].sid = c.frames[i].sid
                                 /\ e.frames[i].mark = c.frames[i].mark
                                 /\ e.frames[i].todo \subseteq c.frames[i].todo
                                 /\ e.frames[i].got \subseteq c.frames[i].got \cup {s}
    BY <1>5, <1>9 DEF PoppedFrames
  <2>2. \A i \in 1 .. n : LET fr == c.frames[i]
       IN /\ fr.top = (i = 1) /\ (i = 1 => fr.obj = c.call)
          /\ fr.todo \subseteq Refs[fr.obj]
          /\ fr.mark <= Len(c.inserted)
          /\ i < n => fr.stage = "refs"
          /\ \A x \in fr.got : Rank[x[1]] < Rank[Content[fr.obj]]
          /\ \A j \in 1 .. i - 1 : Rank[Content[fr.obj]] < Rank[Content[c.frames[j].obj]] /\ c.frames[j].mark <= fr.mark
    BY <1>0, <1>1 DEF FramesSound
  <2>3. \A i \in 1 .. n - 1 : e.frames[i].stage = "refs"
    <3> TAKE i \in 1 .. n - 1
    <3>1. i \in 1 .. n /\ i < n
      BY <1>2
    <3> QED BY <2>1, <2>2, <3>1
  <2>4. FramesSound(e)
    <3> SUFFICES ASSUME NEW i \in 1 .. n - 1
                 PROVE  LET fr == e.frames[i]
                        IN /\ fr.top = (i = 1) /\ (i = 1 => fr.obj = e.call)
                           /\ fr.todo \subseteq Refs[fr.obj]
                           /\ fr.mark <= Len(e.inserted)
                           /\ i < n - 1 => fr.stage = "refs"
                           /\ \A x \in fr.got : Rank[x[1]] < Rank[Content[fr.obj]]
                           /\ \A j \in 1 .. i - 1 : /\ Rank[Content[fr.obj]] < Rank[Content[e.frames[j].obj]]
                                                    /\ e.frames[j].mark <= fr.mark
      BY <2>1 DEF FramesSound
    <3>1. i \in 1 .. n
      BY <2>0
    <3>2. ASSUME NEW x \in e.frames[i].got PROVE Rank[x[1]] < Rank[Content[e.frames[i].obj]]
      <4>1. CASE i # n - 1
        BY <2>1, <2>2, <3>1, <3>2, <4>1
      <4>2. CASE i = n - 1
        <5>1. x \in c.frames[i].got \/ x = s
          BY <2>1, <3>2
        <5>2. CASE x \in c.frames[i].got
          BY <2>1, <2>2, <3>1, <5>2
        <5>3. CASE x = s
          <6>1. i \in 1 .. n - 1 /\ Rank[Content[c.frames[n].obj]] < Rank[Content[c.frames[i].obj]]
            BY <2>0, <2>2
          <6> QED BY <1>0, <1>2, <2>1, <5>3, <6>1
        <5> QED BY <5>1, <5>2, <5>3
      <4> QED BY <4>1, <4>2
    <3>3. ASSUME NEW j \in 1 .. i - 1
          PROVE  /\ Rank[Content[e.frames[i].obj]] < Rank[Content[e.frames[j].obj]]
                 /\ e.frames[j].mark <= e.frames[i].mark
      <4>1. j \in 1 .. n - 1
        BY <1>2
      <4> QED BY <2>1, <2>2, <3>1, <4>1
    <3> QED BY <1>4, <2>1, <2>2, <2>3, <3>1, <3>2, <3>3
  <2>5. GotSound(e, f)
    <3>1. \A i \in 1 .. n - 1 : c.frames[i].got \subseteq Sids(f)
      BY <1>0 DEF Poppable
    <3>2. \A i \in 1 .. n - 1 : e.frames[i].got \subseteq Sids(f)
      BY <2>0, <2>1, <3>1
    <3> QED BY <2>1, <3>2 DEF GotSound
  <2>6. ASSUME t PROVE InsertedSound(e, f, b)
    <3>1. InsertedSound(c, f, b)
      BY <1>1, <2>6
    <3>2. \A i \in 1 .. Len(e.frames) : \A j \in e.frames[i].mark + 1 .. Len(e.inserted) :
             Rank[e.inserted[j][1]] < Rank[Content[e.frames[i].obj]]
      <4> SUFFICES ASSUME NEW i \in 1 .. n - 1, NEW j \in c.frames[i].mark + 1 .. Len(c.inserted)
                   PROVE  Rank[c.inserted[j][1]] < Rank[Content[c.frames[i].obj]]
        BY <1>4, <2>1
      <4>1. i \in 1 .. n /\ c.frames[i].stage # "claim"
        BY <2>0, <2>1, <2>3
      <4> QED BY <1>0, <3>1, <4>1 DEF InsertedSound
    <3>3. \A x : SinceMark(e, x) = SinceMark(c, x)
      BY <1>4 DEF SinceMark
    <3>4. \A i \in 1 .. Len(e.frames) - 1 : e.frames[i].got \cap SinceMark(e, e.frames[i + 1].mark) = {}
      <4> SUFFICES ASSUME NEW i \in 1 .. (n - 1) - 1
                   PROVE  e.frames[i].got \cap SinceMark(c, e.frames[i + 1].mark) = {}
        BY <2>1, <3>3
      <4>1. i \in 1 .. n - 1 /\ i # n - 1 /\ i + 1 \in 1 .. n - 1
        BY <1>2
      <4> QED BY <1>0, <2>1, <3>1, <4>1 DEF InsertedSound
    <3> QED BY <1>4, <3>1, <3>2, <3>3, <3>4 DEF InsertedSound
  <2>7. TopOf(e).stage = "refs"
    BY <2>0, <2>1, <2>3 DEF TopOf
  <2> QED BY <1>3, <1>4, <1>7, <2>4, <2>5, <2>6, <2>7 DEF CallBase, At0
<1> QED BY <1>2, <1>8, <1>9

LEMMA FrameFresh ==
  ASSUME NEW o \in Objects, NEW top \in BOOLEAN, NEW mark \in Nat, NEW x, x = Frame(o, top, mark)
  PROVE  /\ x \in FrameType /\ x.obj = o /\ x.top = top /\ x.stage = "find" /\ x.todo = Refs[o] /\ x.got = {}
         /\ x.mark = mark
<1>1. Refs[o] \in SUBSET Objects /\ "find" \in Stages
  BY SaveAssumption DEF Stages
<1>2. x = [obj |-> o, top |-> top, stage |-> "find", todo |-> Refs[o], got |-> {}, compared |-> {}, sid |-> None, mark |-> mark]
  BY DEF Frame
<1> QED BY <1>1, <1>2 DEF FrameType

LEMMA Unheld ==
  ASSUME NEW c, NEW f, NEW b, NEW t, ~At0(c, {"claim", "insert"})
  PROVE  HeldSound(c, f, b, t) /\ Held(c) = {} /\ OpenSids(c, t) = {}
BY DEF HeldSound, Held, OpenSids, At0

LEMMA DescendedSound ==
  ASSUME NEW c, NEW f, NEW b, NEW t, CallBase(c, f, b, t), ~At0(c, {"claim", "insert"}), NEW e, e = Descended(c)
  PROVE  /\ CallSound(e, f, b, t) /\ e.call = c.call /\ e.inserted = c.inserted
         /\ ~At0(e, {"claim", "insert"}) /\ (e.frames = <<>> <=> c.frames = <<>>)
<1>0. PICK n : n = Len(c.frames)
  OBVIOUS
<1>1. c \in CallType /\ FramesSound(c) /\ GotSound(c, f) /\ MemoSound(c, f) /\ (c.call = None => c = Idle)
  BY DEF CallBase
<1>2. PICK q \in Seq(FrameType) : q = c.frames
  BY <1>1, CallFields
<1>3. n \in Nat /\ n = Len(q) /\ (n > 0 <=> c.frames # <<>>)
  BY <1>0, <1>2
<1>4. CASE ~(n > 0 /\ c.frames[n].stage = "refs" /\ c.frames[n].todo # {})
  <2>1. e = c
    BY <1>0, <1>4 DEF Descended
  <2> QED BY <2>1, Unheld DEF CallSound
<1>5. CASE n > 0 /\ c.frames[n].stage = "refs" /\ c.frames[n].todo # {}
  <2>1. PICK r \in c.frames[n].todo : r = CHOOSE z \in c.frames[n].todo : TRUE
    BY <1>5
  <2>2. PICK x : x = Frame(r, FALSE, Len(c.inserted))
    OBVIOUS
  <2>3. e = [c EXCEPT !.frames = Append(q, x)]
    BY <1>0, <1>2, <1>5, <2>1, <2>2 DEF Descended
  <2>4. PICK u : u = Append(q, x)
    OBVIOUS
  <2>5. /\ e = [call |-> c.call, attempt |-> c.attempt, frames |-> u, memo |-> c.memo, inserted |-> c.inserted]
        /\ e.call = c.call /\ e.attempt = c.attempt /\ e.frames = u /\ e.memo = c.memo /\ e.inserted = c.inserted
    <3>1. e = [c EXCEPT !.frames = u]
      BY <2>3, <2>4
    <3>2. e = [call |-> c.call, attempt |-> c.attempt, frames |-> u, memo |-> c.memo, inserted |-> c.inserted]
      BY <1>1, <3>1, CallExcept
    <3> QED BY <3>2
  <2>6. n \in 1 .. n /\ q[n] \in FrameType /\ Len(c.inserted) \in Nat /\ r \in Objects /\ r \in Refs[q[n].obj] /\ q[n].obj \in Objects
    <3>1. n \in 1 .. n /\ q[n] \in FrameType
      BY <1>3, <1>5
    <3>2. q[n].todo \subseteq Refs[q[n].obj]
      BY <1>0, <1>1, <1>2, <3>1 DEF FramesSound
    <3> QED BY <1>1, <1>2, <2>1, <3>1, <3>2, CallFields, FrameFields
  <2>7. /\ x \in FrameType /\ x.obj = r /\ x.top = FALSE /\ x.stage = "find" /\ x.todo = Refs[r] /\ x.got = {}
        /\ x.mark = Len(c.inserted)
    <3>1. PICK y : y = FALSE
      OBVIOUS
    <3>2. x = Frame(r, y, Len(c.inserted)) /\ y \in BOOLEAN
      BY <2>2, <3>1
    <3>3. /\ x \in FrameType /\ x.obj = r /\ x.top = y /\ x.stage = "find" /\ x.todo = Refs[r] /\ x.got = {}
          /\ x.mark = Len(c.inserted)
      BY <2>6, <3>2, FrameFresh
    <3> QED BY <3>1, <3>3
  <2>8. u \in Seq(FrameType) /\ Len(u) = n + 1 /\ u[n + 1] = x /\ \A i \in 1 .. n : u[i] = q[i]
    BY <1>3, <2>4, <2>7
  <2>9. e \in CallType
    BY <1>1, <2>5, <2>8, CallFields DEF CallType
  <2>10. u # <<>> /\ c.frames # <<>> /\ 1 .. n + 1 = 1 .. n \cup {n + 1} /\ n + 1 > 1
    BY <1>3, <1>5, <2>8
  <2>11. c.call # None
    BY <2>10, FramesOfCall
  <2>12. \A i \in 1 .. n : LET fr == q[i]
       IN /\ fr.top = (i = 1) /\ (i = 1 => fr.obj = c.call)
          /\ fr.todo \subseteq Refs[fr.obj]
          /\ fr.mark <= Len(c.inserted)
          /\ i < n => fr.stage = "refs"
          /\ \A y \in fr.got : Rank[y[1]] < Rank[Content[fr.obj]]
          /\ \A j \in 1 .. i - 1 : Rank[Content[fr.obj]] < Rank[Content[q[j].obj]] /\ q[j].mark <= fr.mark
    BY <1>0, <1>1, <1>2 DEF FramesSound
  <2>13. FramesSound(e)
    <3> SUFFICES ASSUME NEW i \in 1 .. n + 1
                 PROVE  LET fr == u[i]
                        IN /\ fr.top = (i = 1) /\ (i = 1 => fr.obj = c.call)
                           /\ fr.todo \subseteq Refs[fr.obj]
                           /\ fr.mark <= Len(c.inserted)
                           /\ i < n + 1 => fr.stage = "refs"
                           /\ \A y \in fr.got : Rank[y[1]] < Rank[Content[fr.obj]]
                           /\ \A j \in 1 .. i - 1 : /\ Rank[Content[fr.obj]] < Rank[Content[u[j].obj]]
                                                    /\ u[j].mark <= fr.mark
      BY <2>5, <2>8 DEF FramesSound
    <3>1. CASE i \in 1 .. n
      <4>1. \A j \in 1 .. i - 1 : j \in 1 .. n
        BY <1>3, <3>1
      <4>2. i < n \/ i = n
        BY <1>3, <3>1
      <4>3. q[i].stage = "refs"
        BY <1>2, <1>5, <2>12, <3>1, <4>2
      <4> QED BY <2>8, <2>12, <3>1, <4>1, <4>3
    <3>2. CASE i = n + 1
      <4>1. u[i] = x
        BY <2>8, <3>2
      <4>2. Rank[Content[r]] < Rank[Content[q[n].obj]]
        BY <2>6, Constants
      <4>3. ASSUME NEW j \in 1 .. i - 1
            PROVE  Rank[Content[r]] < Rank[Content[u[j].obj]] /\ u[j].mark <= Len(c.inserted)
        <5>1. j \in 1 .. n /\ u[j] = q[j] /\ q[j] \in FrameType /\ q[j].obj \in Objects
          BY <1>3, <2>8, <3>2, FrameFields
        <5>2. q[j].mark <= Len(c.inserted)
          BY <2>12, <5>1
        <5>3. j = n \/ j \in 1 .. n - 1
          BY <1>3, <5>1
        <5>4. CASE j = n
          BY <4>2, <5>1, <5>2, <5>4
        <5>5. CASE j \in 1 .. n - 1
          <6>1. Rank[Content[q[n].obj]] < Rank[Content[q[j].obj]]
            BY <2>6, <2>12, <5>5
          <6>2. Rank[Content[q[n].obj]] \in Nat /\ Rank[Content[q[j].obj]] \in Nat /\ Rank[Content[r]] \in Nat
            BY <2>6, <5>1, Constants
          <6> QED BY <4>2, <5>1, <5>2, <6>1, <6>2
        <5> QED BY <5>3, <5>4, <5>5
      <4>4. i # 1 /\ ~(i < n + 1)
        BY <1>3, <2>10, <3>2
      <4>5. u[i].top = (i = 1)
        BY <2>7, <4>1, <4>4
      <4> QED BY <2>6, <2>7, <4>1, <4>3, <4>4, <4>5
    <3> QED BY <2>10, <3>1, <3>2
  <2>14. GotSound(e, f)
    <3>1. \A i \in 1 .. n : q[i].got \subseteq Sids(f)
      BY <1>0, <1>1, <1>2 DEF GotSound
    <3>2. \A i \in 1 .. n + 1 : u[i].got \subseteq Sids(f)
      BY <2>7, <2>8, <2>10, <3>1
    <3> QED BY <2>5, <2>8, <3>2 DEF GotSound
  <2>15. MemoSound(e, f)
    BY <1>1, <2>5, <2>10 DEF MemoSound
  <2>16. ASSUME t PROVE InsertedSound(e, f, b)
    <3>1. InsertedSound(c, f, b)
      BY <2>10, <2>16 DEF CallBase
    <3>2. \A z : SinceMark(e, z) = SinceMark(c, z)
      BY <2>5 DEF SinceMark
    <3>3. ASSUME NEW i \in 1 .. n + 1, NEW j \in u[i].mark + 1 .. Len(c.inserted)
          PROVE  \/ Rank[c.inserted[j][1]] < Rank[Content[u[i].obj]]
                 \/ u[i].stage = "claim" /\ j = Len(c.inserted)
      <4>1. CASE i \in 1 .. n
        <5>1. u[i] = c.frames[i] /\ i \in 1 .. Len(c.frames)
          BY <1>0, <1>2, <2>8, <4>1
        <5> QED BY <3>1, <3>3, <5>1 DEF InsertedSound
      <4>2. CASE i = n + 1
        <5>1. u[i].mark = Len(c.inserted)
          BY <2>7, <2>8, <4>2
        <5> QED BY <2>6, <3>3, <5>1
      <4> QED BY <2>10, <4>1, <4>2
    <3>4. ASSUME NEW i \in 1 .. n PROVE u[i].got \cap SinceMark(c, u[i + 1].mark) = {}
      <4>1. CASE i = n
        <5>1. u[i + 1].mark = Len(c.inserted)
          BY <2>7, <2>8, <4>1
        <5> QED BY <1>1, <5>1, SinceFacts
      <4>2. CASE i # n
        <5>1. i \in 1 .. n - 1 /\ u[i] = c.frames[i] /\ u[i + 1] = c.frames[i + 1]
          <6>1. i \in 1 .. n - 1 /\ i + 1 \in 1 .. n
            BY <1>3, <4>2
          <6> QED BY <1>2, <2>8, <6>1
        <5>2. c.frames[i].got \cap SinceMark(c, c.frames[i + 1].mark) = {}
          BY <1>0, <3>1, <5>1 DEF InsertedSound
        <5> QED BY <5>1, <5>2
      <4> QED BY <4>1, <4>2
    <3>5. \A i \in 1 .. Len(e.frames) : \A j \in e.frames[i].mark + 1 .. Len(e.inserted) :
             \/ Rank[e.inserted[j][1]] < Rank[Content[e.frames[i].obj]]
             \/ e.frames[i].stage = "claim" /\ j = Len(e.inserted)
      BY <2>5, <2>8, <3>3
    <3>6. \A i \in 1 .. Len(e.frames) - 1 : e.frames[i].got \cap SinceMark(e, e.frames[i + 1].mark) = {}
      <4>1. Len(e.frames) - 1 = n
        BY <1>3, <2>5, <2>8
      <4> QED BY <2>5, <3>2, <3>4, <4>1
    <3> QED BY <2>5, <3>1, <3>2, <3>5, <3>6 DEF InsertedSound
  <2>17. CallBase(e, f, b, t)
    BY <2>5, <2>9, <2>11, <2>13, <2>14, <2>15, <2>16 DEF CallBase
  <2>18. ~At0(e, {"claim", "insert"})
    <3>1. TopOf(e).stage = "find"
      BY <2>5, <2>7, <2>8 DEF TopOf
    <3> QED BY <3>1 DEF At0
  <2> QED BY <2>5, <2>10, <2>17, <2>18, Unheld DEF CallSound
<1> QED BY <1>4, <1>5

LEMMA PoppableSave ==
  ASSUME NEW c, NEW f, NEW b, NEW t, CallBase(c, f, b, t), c.frames # <<>>
  PROVE  Poppable(c, f, b, t)
<1>1. /\ c \in CallType /\ FramesSound(c) /\ GotSound(c, f) /\ MemoSound(c, f) /\ (t => InsertedSound(c, f, b))
  BY DEF CallBase
<1>2. c.call # None /\ Len(c.frames) \in Nat
  BY <1>1, FramesOfCall, CallFields
<1>3. \A i \in 1 .. Len(c.frames) - 1 : i \in 1 .. Len(c.frames)
  BY <1>2
<1> QED BY <1>1, <1>2, <1>3 DEF Poppable, GotSound

LEMMA HandDownSound ==
  ASSUME NEW c, NEW f, NEW b, NEW t, Poppable(c, f, b, t), NEW s \in Sid, s \in Sids(f),
         s[1] = Content[TopOf(c).obj], Len(c.frames) = 1 => s \in Mains(f), NEW e, e = HandDown(c, s)
  PROVE  /\ CallSound(e, f, b, t) /\ e.call = c.call /\ e.inserted = c.inserted
         /\ ~At0(e, {"claim", "insert"})
<1>1. PICK d : d = Popped(c, s)
  OBVIOUS
<1>2. CallBase(d, f, b, t) /\ d.call = c.call /\ d.inserted = c.inserted /\ ~At0(d, {"claim", "insert"})
  BY <1>1, PoppedSound
<1>3. e = Descended(d)
  BY <1>1 DEF HandDown
<1> QED BY <1>2, <1>3, DescendedSound

LEMMA BegunSound ==
  ASSUME NEW o \in Calls, NEW k \in 0 .. Attempts, NEW f, NEW b, NEW t, NEW e, e = Begun(o, k)
  PROVE  /\ CallSound(e, f, b, t) /\ e.call = o /\ e.call # None /\ e.inserted = <<>>
         /\ ~At0(e, {"claim", "insert"})
<1>1. o \in Objects /\ o # None
  BY SaveAssumption, NoneApart
<1>2. PICK x : x = Frame(o, TRUE, 0)
  OBVIOUS
<1>3. /\ x \in FrameType /\ x.obj = o /\ x.top = TRUE /\ x.stage = "find" /\ x.todo = Refs[o] /\ x.got = {}
      /\ x.mark = 0
  <2>1. PICK y : y = TRUE
    OBVIOUS
  <2>2. x = Frame(o, y, 0) /\ y \in BOOLEAN
    BY <1>2, <2>1
  <2>3. /\ x \in FrameType /\ x.obj = o /\ x.top = y /\ x.stage = "find" /\ x.todo = Refs[o] /\ x.got = {}
        /\ x.mark = 0
    BY <1>1, <2>2, FrameFresh
  <2> QED BY <2>1, <2>3
<1>4. PICK u : u = <<x>>
  OBVIOUS
<1>5. u \in Seq(FrameType) /\ Len(u) = 1 /\ u[1] = x /\ u # <<>>
  BY <1>3, <1>4
<1>6. /\ e = [call |-> o, attempt |-> k, frames |-> u, memo |-> {}, inserted |-> <<>>]
      /\ e.call = o /\ e.attempt = k /\ e.frames = u /\ e.memo = {} /\ e.inserted = <<>>
  <2>0. PICK a, n, q, m : a = None /\ n = 0 /\ q = <<>> /\ m = {}
    OBVIOUS
  <2>8. PICK i : i = [call |-> a, attempt |-> n, frames |-> q, memo |-> m, inserted |-> q]
    OBVIOUS
  <2>9. i = Idle
    BY <2>0, <2>8 DEF Idle
  <2>1. PICK z : z = [i EXCEPT !.call = o]
    OBVIOUS
  <2>2. z = [call |-> o, attempt |-> n, frames |-> q, memo |-> m, inserted |-> q]
    BY <2>1, <2>8
  <2>3. PICK y : y = [z EXCEPT !.attempt = k]
    OBVIOUS
  <2>4. y = [call |-> o, attempt |-> k, frames |-> q, memo |-> m, inserted |-> q]
    BY <2>2, <2>3
  <2>5. e = [y EXCEPT !.frames = u]
    BY <1>2, <1>4, <2>1, <2>3, <2>9 DEF Begun
  <2>6. e = [call |-> o, attempt |-> k, frames |-> u, memo |-> m, inserted |-> q]
    BY <2>4, <2>5
  <2>7. e.call = o /\ e.attempt = k /\ e.frames = u /\ e.memo = m /\ e.inserted = q
    BY <2>6
  <2> QED BY <2>0, <2>6, <2>7
<1>7. e \in CallType
  <2>1. <<>> \in Seq(Sid)
    OBVIOUS
  <2> QED BY <1>5, <1>6, <2>1 DEF CallType
<1>8. FramesSound(e)
  <2>1. Len(e.frames) = 1 /\ e.frames[1] = x
    BY <1>5, <1>6
  <2>2. Len(e.inserted) = 0
    BY <1>6
  <2>3. x.mark <= Len(e.inserted)
    BY <1>3, <2>2
  <2>4. \A i \in 1 .. Len(e.frames) : i = 1 /\ 1 .. i - 1 = {} /\ ~(i < Len(e.frames))
    BY <2>1
  <2>5. ASSUME NEW i, i = 1 PROVE x.top = (i = 1)
    BY <1>3, <2>5
  <2> QED BY <1>3, <1>6, <2>1, <2>3, <2>4, <2>5 DEF FramesSound
<1>9. GotSound(e, f) /\ MemoSound(e, f)
  <2>1. Len(e.frames) = 1 /\ e.frames[1] = x
    BY <1>5, <1>6
  <2>2. GotSound(e, f)
    BY <1>3, <2>1 DEF GotSound
  <2>3. MemoSound(e, f)
    BY <1>5, <1>6 DEF MemoSound
  <2> QED BY <2>2, <2>3
<1>10. InsertedSound(e, f, b)
  <2>1. DOMAIN e.inserted = {} /\ Len(e.inserted) = 0
    <3>1. DOMAIN << >> = {} /\ Len(<< >>) = 0
      OBVIOUS
    <3> QED BY <1>6, <3>1
  <2>2. SinceMark(e, 0) = {}
    BY <2>1 DEF SinceMark
  <2>5. Len(e.frames) = 1 /\ e.frames[1].mark = 0
    BY <1>3, <1>5, <1>6
  <2>3. \A i \in 1 .. Len(e.frames) : e.frames[i].mark + 1 .. Len(e.inserted) = {}
    BY <2>1, <2>5
  <2>4. 1 .. Len(e.frames) - 1 = {}
    BY <2>5
  <2> QED BY <2>1, <2>2, <2>3, <2>4 DEF InsertedSound
<1>11. CallBase(e, f, b, t)
  BY <1>1, <1>6, <1>7, <1>8, <1>9, <1>10 DEF CallBase
<1>12. ~At0(e, {"claim", "insert"})
  BY <1>3, <1>5, <1>6 DEF At0, TopOf
<1> QED BY <1>1, <1>6, <1>11, <1>12, Unheld DEF CallSound

LEMMA IdleSound ==
  ASSUME NEW f, NEW b, NEW t
  PROVE  CallSound(Idle, f, b, t) /\ Idle.call = None /\ Idle.frames = <<>> /\ ~At0(Idle, {"claim", "insert"})
<1>1. /\ Idle.call = None /\ Idle.attempt = 0 /\ Idle.frames = <<>> /\ Idle.memo = {} /\ Idle.inserted = <<>>
  BY DEF Idle
<1>2. Idle \in CallType
  <2>1. \A S : <<>> \in Seq(S)
    OBVIOUS
  <2>2. 0 \in 0 .. Attempts
    <3>1. Attempts \in Nat
      BY SaveAssumption
    <3> QED BY <3>1
  <2> QED BY <2>1, <2>2 DEF CallType, Idle
<1>3. 1 .. Len(Idle.frames) = {}
  BY <1>1
<1>4. FramesSound(Idle) /\ GotSound(Idle, f) /\ MemoSound(Idle, f)
  BY <1>1, <1>3 DEF FramesSound, GotSound, MemoSound
<1>5. ~At0(Idle, {"claim", "insert"})
  BY <1>1 DEF At0
<1> QED BY <1>1, <1>2, <1>4, <1>5, Unheld DEF CallSound, CallBase

\* The view of a save in the middle, and what is known of it.
LEMMA ViewFacts ==
  ASSUME Inv, NEW p \in Stores, Active(p), NEW f, f = View(p), NEW b, b = txn[p].snapshot, NEW t, t = Transactional
  PROVE  /\ t \in BOOLEAN /\ fsck = None /\ ~Sweeping /\ (~t => f = db) /\ (t => f = Over(txn[p].writes, b))
         /\ Whole(f, Kept, OpenSids(op[p], t)) /\ Whole(db, Kept, {})
         /\ CallSound(op[p], f, b, t) /\ CallBase(op[p], f, b, t) /\ op[p] \in CallType
         /\ t => TxnSound(txn[p], op[p], db) /\ Whole(b, Kept, {}) /\ Grown(b, f) /\ Grown(b, db)
                 /\ Agrees(txn[p], db) /\ OpenSound(txn[p], op[p], f)
<1>1. fsck = None /\ ~Sweeping
  BY DEF Inv, FsckSound, Sweeping
<1>2. t \in BOOLEAN
  BY DEF Transactional
<1>3. (~t => f = db) /\ (t => f = Over(txn[p].writes, b))
  BY DEF View
<1>4. CallSound(op[p], f, b, t) /\ CallBase(op[p], f, b, t) /\ op[p] \in CallType
  <2>1. CallSound(op[p], f, b, t)
    BY DEF Inv, SavesSound
  <2> QED BY <2>1 DEF CallSound, CallBase
<1>5. Whole(db, Kept, {})
  <2>1. (Kept /\ ~Sweeping) = Kept
    BY <1>1 DEF Kept
  <2> QED BY <2>1 DEF Inv
<1>6. t => TxnSound(txn[p], op[p], db)
  BY DEF Inv, SavesSound
<1>7. t => Whole(b, Kept, {}) /\ Grown(b, f) /\ Grown(b, db) /\ Agrees(txn[p], db) /\ OpenSound(txn[p], op[p], f)
           /\ Whole(f, Kept, OpenSids(op[p], TRUE))
  BY <1>3, <1>6 DEF TxnSound
<1>8. Whole(f, Kept, OpenSids(op[p], t))
  <2>1. CASE t
    <3>1. t = TRUE
      BY <1>2, <2>1
    <3> QED BY <1>7, <3>1
  <2>2. CASE ~t
    <3>1. OpenSids(op[p], t) = {}
      BY <2>2 DEF OpenSids
    <3> QED BY <1>3, <1>5, <2>2, <3>1
  <2> QED BY <2>1, <2>2
<1> QED BY <1>1, <1>2, <1>3, <1>4, <1>5, <1>6, <1>7, <1>8

LEMMA OpenKept ==
  ASSUME NEW x, NEW c, NEW f, NEW d, NEW g, OpenSound(x, c, f), NEW whole, NEW open, Whole(f, whole, open), Keyed(g), Grown(f, g),
         d.frames # <<>> => c.frames # <<>> /\ SinceMark(d, 0) \cap Sids(f) \subseteq SinceMark(c, 0)
  PROVE  OpenSound(x, d, g)
<1>1. /\ Sids(f) \subseteq Sids(g) /\ Mains(f) \subseteq Mains(g)
      /\ \A s : At(f, Route(s)) # None => At(g, Route(s)) = At(f, Route(s))
  BY GrownFacts DEF Whole
<1>2. None \notin Mains(f) /\ Mains(f) \subseteq Sids(f)
  BY WholeDocs, NoneApart DEF DocFits, Mains
<1> QED BY <1>1, <1>2 DEF OpenSound

\* The step of a save c that writes: its transaction's writes become w and its
\* view g.
LEMMA Stepped ==
  ASSUME Inv, NEW p \in Stores, op[p].call # None, NEW t, t = Transactional, NEW b, b = txn[p].snapshot,
         NEW c, NEW g, NEW w,
         op' = [op EXCEPT ![p] = c], UNCHANGED <<deployment, known, seen, gen, fsck, returned>>,
         c.call # None, CallSound(c, g, b, t), Whole(g, Kept, OpenSids(c, t)),
         t => /\ db' = db /\ txn' = [txn EXCEPT ![p].writes = w] /\ g = Over(w, b)
              /\ \A k \in DOMAIN w : k \in DOMAIN txn[p].writes \/ ~Conflict(p, k)
              /\ Grown(b, g) /\ OpenSound(txn[p], c, g),
         ~t => /\ db' = g /\ UNCHANGED txn /\ Grown(db, g)
               /\ \A q \in Stores \ {p} : Held(op[q]) \cap Held(c) = {} /\ Held(op[q]) \cap Sids(g) \subseteq Sids(db)
  PROVE  Inv'
<1>1. Active(p)
  BY DEF Active
<1>2. t \in BOOLEAN /\ fsck = None /\ ~Sweeping /\ Whole(db, Kept, {}) /\ (t => TxnSound(txn[p], op[p], db))
  BY <1>1, ViewFacts
<1>3. t' = t /\ (Transactional <=> t) /\ (Transactional' <=> t)
  BY DEF Transactional
<1>4. TypeInv /\ SavesSound /\ Returned(db) /\ CachesSound
  BY DEF Inv
<1>5. c \in CallType
  BY DEF CallSound, CallBase
<1>6. op' \in [Stores -> CallType] /\ op'[p] = c /\ \A q \in Stores \ {p} : op'[q] = op[q]
  BY <1>4, <1>5 DEF TypeInv
<1>7. \A q \in Stores \ {p} : txn'[q] = txn[q]
  BY <1>4 DEF TypeInv
<1>8. ASSUME t
      PROVE  /\ txn'[p].snapshot = b /\ txn'[p].writes = w /\ txn'[p].open = txn[p].open
             /\ txn'[p].pending = txn[p].pending /\ txn'[p].answers = txn[p].answers
             /\ txn'[p] = [snapshot |-> b, writes |-> w, open |-> txn[p].open, pending |-> txn[p].pending,
                           answers |-> txn[p].answers]
  <2>1. PICK x : x = txn[p]
    OBVIOUS
  <2>2. PICK y : y = [x EXCEPT !.writes = w]
    OBVIOUS
  <2>3. x = [snapshot |-> b, writes |-> x.writes, open |-> x.open, pending |-> x.pending, answers |-> x.answers]
    BY <1>4, <2>1 DEF TypeInv
  <2>4. y = [snapshot |-> b, writes |-> w, open |-> x.open, pending |-> x.pending, answers |-> x.answers]
    BY <2>2, <2>3
  <2>5. txn'[p] = y
    BY <1>4, <1>8, <2>1, <2>2 DEF TypeInv
  <2> QED BY <2>1, <2>4, <2>5
<1>9. txn' = [q \in Stores |-> txn'[q]]
  <2>1. CASE t
    BY <1>4, <2>1 DEF TypeInv
  <2>2. CASE ~t
    BY <1>4, <2>2 DEF TypeInv
  <2> QED BY <2>1, <2>2
<1>10. TypeInv'
  <2>1. \A q \in Stores : txn'[q] = [snapshot |-> txn'[q].snapshot, writes |-> txn'[q].writes, open |-> txn'[q].open,
                                     pending |-> txn'[q].pending, answers |-> txn'[q].answers]
    <3> TAKE q \in Stores
    <3>1. CASE q = p /\ t
      BY <1>8, <3>1
    <3>2. CASE q # p \/ ~t
      <4>1. txn'[q] = txn[q]
        BY <1>7, <3>2
      <4> QED BY <1>4, <4>1 DEF TypeInv
    <3> QED BY <3>1, <3>2
  <2> QED BY <1>4, <1>6, <1>9, <2>1 DEF TypeInv
<1>11. Whole(db', Kept, {}) /\ Grown(db, db')
  <2>1. CASE t
    <3>1. db' = db
      BY <2>1
    <3> QED BY <1>2, <3>1, GrownSame
  <2>2. CASE ~t
    <3>1. OpenSids(c, t) = {}
      BY <2>2 DEF OpenSids
    <3> QED BY <2>2, <3>1
  <2> QED BY <1>2, <2>1, <2>2
<1>12. Keyed(db) /\ Keyed(db') /\ Sids(db) \subseteq Sids(db') /\ Mains(db) \subseteq Mains(db')
       /\ \A s : At(db, Route(s)) # None => At(db', Route(s)) = At(db, Route(s))
  <2>1. Keyed(db) /\ Keyed(db')
    BY <1>2, <1>11 DEF Whole
  <2> QED BY <1>11, <2>1, GrownFacts
<1>13. (t => View(p)' = Over(w, b)) /\ (~t => \A q \in Stores : View(q)' = db')
       /\ (t => \A q \in Stores \ {p} : View(q)' = View(q)) /\ (~t => \A q \in Stores : View(q) = db)
  BY <1>3, <1>7, <1>8 DEF View
<1>14. ASSUME NEW q \in Stores PROVE CallSound(op[q], View(q), txn[q].snapshot, Transactional)'
  <2>1. CASE q = p
    <3>1. op'[q] = c /\ View(q)' = g /\ txn'[q].snapshot = b /\ Transactional' = t
      BY <1>2, <1>3, <1>6, <1>8, <1>13, <2>1 DEF Transactional
    <3> QED BY <3>1
  <2>2. CASE q # p /\ t
    <3>1. op'[q] = op[q] /\ View(q)' = View(q) /\ txn'[q] = txn[q] /\ Transactional' = Transactional
      BY <1>6, <1>7, <1>13, <2>2 DEF Transactional
    <3> QED BY <1>4, <3>1 DEF SavesSound
  <2>3. CASE q # p /\ ~t
    <3>1. op'[q] = op[q] /\ View(q)' = db' /\ View(q) = db /\ txn'[q] = txn[q] /\ Transactional' = Transactional
      BY <1>6, <1>7, <1>13, <2>3 DEF Transactional
    <3>2. CallSound(op[q], db, txn[q].snapshot, Transactional)
      BY <1>4, <3>1 DEF SavesSound
    <3>3. CallBase(op[q], db', txn[q].snapshot, Transactional)
      BY <1>11, <1>12, <2>3, <3>2, BaseKept DEF CallSound
    <3>4. HeldSound(op[q], db', txn[q].snapshot, Transactional)
      <4>1. Held(op[q]) \cap Sids(db') \subseteq Sids(db)
        BY <2>3
      <4> QED BY <1>11, <1>12, <3>2, <4>1, HeldKept DEF CallSound
    <3> QED BY <3>1, <3>3, <3>4 DEF CallSound
  <2> QED BY <2>1, <2>2, <2>3
<1>15. ASSUME NEW q \in Stores, NEW r \in Stores, ~t, q # r PROVE Held(op'[q]) \cap Held(op'[r]) = {}
  <2>1. CASE q = p
    BY <1>6, <1>15, <2>1
  <2>2. CASE r = p
    BY <1>6, <1>15, <2>2
  <2>3. CASE q # p /\ r # p
    BY <1>3, <1>4, <1>6, <1>15, <2>3 DEF SavesSound
  <2> QED BY <2>1, <2>2, <2>3
<1>16. ASSUME NEW q \in Stores, ~(t /\ Active(q)') PROVE txn'[q] = NoTxn
  <2>1. txn'[q] = txn[q] /\ ~(t /\ Active(q))
    <3>1. CASE t
      <4>1. q # p
        BY <1>6, <1>16, <3>1 DEF Active
      <4> QED BY <1>6, <1>7, <1>16, <4>1 DEF Active
    <3>2. CASE ~t
      BY <3>2
    <3> QED BY <3>1, <3>2
  <2> QED BY <1>3, <1>4, <2>1 DEF SavesSound
<1>17. ASSUME NEW q \in Stores, t, Active(q)' PROVE TxnSound(txn[q], op[q], db)'
  <2>1. CASE q # p
    <3>1. txn'[q] = txn[q] /\ op'[q] = op[q] /\ db' = db /\ Active(q)
      BY <1>6, <1>7, <1>17, <2>1 DEF Active
    <3>2. TxnSound(txn[q], op[q], db)
      BY <1>3, <1>4, <1>17, <3>1 DEF SavesSound
    <3> QED BY <3>1, <3>2
  <2>2. CASE q = p
    <3>1. PICK x : x = txn'[p]
      OBVIOUS
    <3>2. /\ x.snapshot = b /\ x.writes = w /\ x.pending = txn[p].pending /\ x.answers = txn[p].answers
      BY <1>8, <1>17, <3>1
    <3>3. Whole(b, Kept, {}) /\ Grown(b, db) /\ Agrees(txn[p], db)
      BY <1>2, <1>17 DEF TxnSound
    <3>4. Agrees(x, db)
      <4> SUFFICES ASSUME NEW k \in DOMAIN w PROVE At(db, k) = At(b, k)
        BY <3>2 DEF Agrees
      <4>1. CASE k \in DOMAIN txn[p].writes
        BY <3>3, <4>1 DEF Agrees
      <4>2. CASE ~Conflict(p, k)
        BY <1>3, <1>17, <4>2 DEF Conflict
      <4> QED BY <1>17, <4>1, <4>2
    <3>5. OpenSound(x, c, g)
      BY <1>17, <3>2 DEF OpenSound
    <3>6. t = TRUE
      BY <1>2, <1>17
    <3>7. TxnSound(x, c, db)
      BY <1>17, <3>2, <3>3, <3>4, <3>5, <3>6 DEF TxnSound
    <3>8. db' = db /\ txn'[q] = x /\ op'[q] = c
      BY <1>6, <1>17, <2>2, <3>1
    <3> QED BY <3>7, <3>8
  <2> QED BY <2>1, <2>2
<1>18. ASSUME NEW q \in Stores, NEW r \in Stores, q # r PROVE DOMAIN txn'[q].writes \cap DOMAIN txn'[r].writes = {}
  <2>1. CASE ~t
    BY <1>4, <1>18, <2>1 DEF SavesSound
  <2>2. ASSUME t, NEW z \in Stores, z # p PROVE DOMAIN w \cap DOMAIN txn[z].writes = {}
    <3> SUFFICES ASSUME NEW k \in DOMAIN w PROVE k \notin DOMAIN txn[z].writes
      OBVIOUS
    <3>1. CASE k \in DOMAIN txn[p].writes
      BY <1>4, <2>2, <3>1 DEF SavesSound
    <3>2. CASE ~Conflict(p, k)
      BY <1>3, <2>2, <3>2 DEF Conflict
    <3> QED BY <2>2, <3>1, <3>2
  <2>3. CASE t /\ q = p
    BY <1>7, <1>8, <1>18, <2>2, <2>3
  <2>4. CASE t /\ r = p
    BY <1>7, <1>8, <1>18, <2>2, <2>4
  <2>5. CASE t /\ q # p /\ r # p
    BY <1>4, <1>7, <1>18, <2>5 DEF SavesSound
  <2> QED BY <2>1, <2>3, <2>4, <2>5
<1>19. SavesSound'
  <2>1. \A q \in Stores : CallSound(op[q], View(q), txn[q].snapshot, Transactional)'
    BY <1>14
  <2>2. \A q, r \in Stores : ~Transactional' /\ q # r => Held(op'[q]) \cap Held(op'[r]) = {}
    BY <1>3, <1>15
  <2>3. \A q \in Stores : ~(Transactional' /\ Active(q)') => txn'[q] = NoTxn
    BY <1>3, <1>16
  <2>4. \A q \in Stores : Transactional' /\ Active(q)' => TxnSound(txn[q], op[q], db)'
    BY <1>3, <1>17
  <2> QED BY <1>18, <2>1, <2>2, <2>3, <2>4 DEF SavesSound
<1>20. Returned(db)' /\ CachesSound'
  <2>1. Returned(db)'
    <3> SUFFICES ASSUME NEW r \in returned
                 PROVE  /\ r.sid \in Mains(db') /\ r.sid[1] = Content[r.obj]
                        /\ r.sid[1] \in Entries => At(db', Route(r.sid[1])) = r.sid
      BY DEF Returned
    <3>1. /\ r.sid \in Mains(db) /\ r.sid[1] = Content[r.obj]
          /\ r.sid[1] \in Entries => At(db, Route(r.sid[1])) = r.sid
      BY <1>4 DEF Returned
    <3>2. r.sid # None
      <4>1. r.sid \in Sids(db)
        BY <3>1 DEF Mains
      <4> QED BY <1>2, <4>1, WholeDocs, NoneApart DEF DocFits
    <3> QED BY <1>12, <3>1, <3>2
  <2>2. CachesSound'
    BY <1>4, <1>12 DEF CachesSound
  <2> QED BY <2>1, <2>2
<1>21. FsckSound' /\ ~Sweeping'
  BY <1>2 DEF FsckSound, Sweeping
<1>22. Whole(db, Kept /\ ~Sweeping, {})'
  <2>1. (Kept' /\ ~Sweeping') = Kept
    BY <1>21 DEF Kept
  <2> QED BY <1>11, <2>1
<1> QED BY <1>10, <1>19, <1>20, <1>21, <1>22 DEF Inv

LEMMA Wrote ==
  ASSUME Inv, NEW p \in Stores, op[p].call # None, NEW t, t = Transactional, NEW b, b = txn[p].snapshot,
         NEW f, f = View(p), NEW c, NEW v, NEW g, g = Over(v, f),
         Write(p, v), \A k \in DOMAIN v : ~Conflict(p, k),
         op' = [op EXCEPT ![p] = c], UNCHANGED <<deployment, known, seen, gen, fsck, returned>>,
         c.call # None, CallSound(c, g, b, t), Whole(g, Kept, OpenSids(c, t)), Grown(f, g),
         t => OpenSound(txn[p], c, g),
         ~t => \A q \in Stores \ {p} : Held(op[q]) \cap Held(c) = {} /\ Held(op[q]) \cap Sids(g) \subseteq Sids(db)
  PROVE  Inv'
<1>1. PICK w : w = Over(v, txn[p].writes)
  OBVIOUS
<1>2. (t => f = Over(txn[p].writes, b) /\ Grown(b, f)) /\ (~t => f = db)
  <2>1. Active(p)
    BY DEF Active
  <2> QED BY <2>1, ViewFacts
<1>3. ASSUME t
      PROVE  /\ db' = db /\ txn' = [txn EXCEPT ![p].writes = w] /\ g = Over(w, b)
             /\ \A k \in DOMAIN w : k \in DOMAIN txn[p].writes \/ ~Conflict(p, k)
             /\ Grown(b, g) /\ OpenSound(txn[p], c, g)
  <2>1. db' = db /\ txn' = [txn EXCEPT ![p].writes = w]
    BY <1>1, <1>3 DEF Write
  <2>2. g = Over(w, b)
    BY <1>1, <1>2, <1>3, OverOver
  <2>3. DOMAIN w = DOMAIN v \cup DOMAIN txn[p].writes
    BY <1>1, AtOver
  <2>4. Grown(b, g)
    BY <1>2, <1>3, GrownOn
  <2> QED BY <1>3, <2>1, <2>2, <2>3, <2>4
<1>4. ASSUME ~t PROVE db' = g /\ UNCHANGED txn /\ Grown(db, g)
  BY <1>2, <1>4 DEF Write
<1> QED BY <1>3, <1>4, Stepped

LEMMA Moved ==
  ASSUME Inv, NEW p \in Stores, op[p].call # None, NEW t, t = Transactional, NEW b, b = txn[p].snapshot,
         NEW f, f = View(p), NEW c, UNCHANGED <<deployment, db, txn>>,
         op' = [op EXCEPT ![p] = c], UNCHANGED <<known, seen, gen, fsck, returned>>,
         c.call # None, CallSound(c, f, b, t), Whole(f, Kept, OpenSids(c, t)),
         t => OpenSound(txn[p], c, f),
         ~t => \A q \in Stores \ {p} : Held(op[q]) \cap Held(c) = {}
  PROVE  Inv'
<1>1. PICK w : w = txn[p].writes
  OBVIOUS
<1>2. /\ t => f = Over(w, b) /\ Grown(b, f)
      /\ ~t => f = db
      /\ Whole(db, Kept, {})
  <2>1. Active(p)
    BY DEF Active
  <2> QED BY <1>1, <2>1, ViewFacts
<1>3. txn' = [txn EXCEPT ![p].writes = w]
  <2>1. PICK x : x = txn[p]
    OBVIOUS
  <2>2. x = [snapshot |-> x.snapshot, writes |-> w, open |-> x.open, pending |-> x.pending, answers |-> x.answers]
    BY <1>1, <2>1 DEF Inv, TypeInv
  <2>3. x = [x EXCEPT !.writes = w]
    BY <2>2
  <2>4. txn = [txn EXCEPT ![p] = x]
    BY <2>1 DEF Inv, TypeInv
  <2>5. [txn EXCEPT ![p].writes = w] = [txn EXCEPT ![p] = [x EXCEPT !.writes = w]]
    BY <2>1
  <2> QED BY <2>3, <2>4, <2>5
<1>4. ASSUME t
      PROVE  /\ db' = db /\ f = Over(w, b)
             /\ \A k \in DOMAIN w : k \in DOMAIN txn[p].writes \/ ~Conflict(p, k)
             /\ Grown(b, f) /\ OpenSound(txn[p], c, f)
  BY <1>1, <1>2, <1>4
<1>5. ASSUME ~t
      PROVE  /\ db' = f /\ UNCHANGED txn /\ Grown(db, f)
             /\ \A q \in Stores \ {p} : Held(op[q]) \cap Held(c) = {} /\ Held(op[q]) \cap Sids(f) \subseteq Sids(db)
  BY <1>2, <1>5, GrownSame
<1> QED BY <1>3, <1>4, <1>5, Stepped

LEMMA CallMade ==
  ASSUME NEW a, NEW k, NEW u, NEW m, NEW i, NEW e,
         e = [call |-> a, attempt |-> k, frames |-> u, memo |-> m, inserted |-> i]
  PROVE  e.call = a /\ e.attempt = k /\ e.frames = u /\ e.memo = m /\ e.inserted = i
OBVIOUS

\* A new frame on top, for the same record.
LEMMA TopSet ==
  ASSUME NEW c, NEW f, NEW b, NEW t, CallBase(c, f, b, t), c.frames # <<>>,
         NEW n, n = Len(c.frames), NEW y, y = TopOf(c), NEW x \in FrameType,
         x.obj = y.obj, x.top = y.top, x.todo = y.todo, x.got = y.got, x.mark = y.mark,
         t => y.stage # "claim", NEW e, e = [c EXCEPT !.frames[n] = x]
  PROVE  /\ CallBase(e, f, b, t) /\ e.call = c.call /\ e.inserted = c.inserted
         /\ e.frames # <<>> /\ TopOf(e) = x
<1>1. /\ c \in CallType /\ FramesSound(c) /\ GotSound(c, f) /\ MemoSound(c, f) /\ (c.call = None => c = Idle)
      /\ (t => InsertedSound(c, f, b))
  BY DEF CallBase
<1>2. PICK q \in Seq(FrameType) : q = c.frames
  BY <1>1, CallFields
<1>3. n \in Nat /\ n = Len(q) /\ n > 0 /\ y = q[n] /\ n \in 1 .. n
  <2>1. Len(c.frames) \in Nat /\ Len(c.frames) > 0 /\ TopOf(c) = c.frames[Len(c.frames)]
    BY <1>1, CallFields
  <2> QED BY <1>2, <2>1
<1>4. PICK u : u = [q EXCEPT ![n] = x]
  OBVIOUS
<1>5. u \in Seq(FrameType) /\ Len(u) = n /\ \A j \in 1 .. n : u[j] = IF j = n THEN x ELSE q[j]
  BY <1>3, <1>4, SeqPut
<1>6. /\ e = [call |-> c.call, attempt |-> c.attempt, frames |-> u, memo |-> c.memo, inserted |-> c.inserted]
      /\ e.call = c.call /\ e.attempt = c.attempt /\ e.frames = u /\ e.memo = c.memo /\ e.inserted = c.inserted
  <2>1. e = [c EXCEPT !.frames = u]
    BY <1>2, <1>4
  <2>2. e = [call |-> c.call, attempt |-> c.attempt, frames |-> u, memo |-> c.memo, inserted |-> c.inserted]
    <3>1. c \in CallType
      BY <1>1
    <3> QED BY <2>1, <3>1, CallExcept
  <2>3. e.call = c.call /\ e.attempt = c.attempt /\ e.frames = u /\ e.memo = c.memo /\ e.inserted = c.inserted
    BY <2>2, CallMade
  <2> QED BY <2>2, <2>3
<1>7. e \in CallType
  BY <1>1, <1>5, <1>6, CallFields DEF CallType
<1>8. u # <<>> /\ TopOf(e) = x
  BY <1>3, <1>5, <1>6 DEF TopOf
<1>9. c.call # None
  BY FramesOfCall
<1>10. \A i \in 1 .. n : /\ u[i].obj = q[i].obj /\ u[i].top = q[i].top /\ u[i].todo = q[i].todo /\ u[i].got = q[i].got
                         /\ u[i].mark = q[i].mark /\ (i # n => u[i].stage = q[i].stage)
  BY <1>3, <1>5
<1>11. FramesSound(e)
  <2> SUFFICES ASSUME NEW i \in 1 .. n
               PROVE  LET fr == u[i]
                      IN /\ fr.top = (i = 1) /\ (i = 1 => fr.obj = c.call)
                         /\ fr.todo \subseteq Refs[fr.obj]
                         /\ fr.mark <= Len(c.inserted)
                         /\ i < n => fr.stage = "refs"
                         /\ \A z \in fr.got : Rank[z[1]] < Rank[Content[fr.obj]]
                         /\ \A j \in 1 .. i - 1 : /\ Rank[Content[fr.obj]] < Rank[Content[u[j].obj]]
                                                  /\ u[j].mark <= fr.mark
    BY <1>5, <1>6 DEF FramesSound
  <2>1. LET fr == q[i]
        IN /\ fr.top = (i = 1) /\ (i = 1 => fr.obj = c.call)
           /\ fr.todo \subseteq Refs[fr.obj]
           /\ fr.mark <= Len(c.inserted)
           /\ i < n => fr.stage = "refs"
           /\ \A z \in fr.got : Rank[z[1]] < Rank[Content[fr.obj]]
           /\ \A j \in 1 .. i - 1 : Rank[Content[fr.obj]] < Rank[Content[q[j].obj]] /\ q[j].mark <= fr.mark
    BY <1>1, <1>2, <1>3 DEF FramesSound
  <2>2. \A j \in 1 .. i - 1 : j \in 1 .. n
    BY <1>3
  <2>3. i < n => i # n
    BY <1>3
  <2> QED BY <1>10, <2>1, <2>2, <2>3
<1>12. GotSound(e, f)
  BY <1>1, <1>2, <1>3, <1>5, <1>6, <1>10 DEF GotSound
<1>13. MemoSound(e, f)
  BY <1>1, <1>6, <1>8 DEF MemoSound
<1>14. ASSUME t PROVE InsertedSound(e, f, b)
  <2>1. InsertedSound(c, f, b)
    BY <1>1, <1>14
  <2>2. \A z : SinceMark(e, z) = SinceMark(c, z)
    BY <1>6 DEF SinceMark
  <2>3. \A i \in 1 .. Len(e.frames) : \A j \in e.frames[i].mark + 1 .. Len(e.inserted) :
          \/ Rank[e.inserted[j][1]] < Rank[Content[e.frames[i].obj]]
          \/ e.frames[i].stage = "claim" /\ j = Len(e.inserted)
    <3> SUFFICES ASSUME NEW i \in 1 .. n, NEW j \in q[i].mark + 1 .. Len(c.inserted)
                 PROVE  Rank[c.inserted[j][1]] < Rank[Content[q[i].obj]] \/ (u[i].stage = "claim" /\ j = Len(c.inserted))
      BY <1>5, <1>6, <1>10
    <3>1. Rank[c.inserted[j][1]] < Rank[Content[q[i].obj]] \/ (q[i].stage = "claim" /\ j = Len(c.inserted))
      BY <1>2, <1>3, <2>1 DEF InsertedSound
    <3> QED BY <1>3, <1>10, <1>14, <3>1
  <2>4. \A i \in 1 .. Len(e.frames) - 1 : e.frames[i].got \cap SinceMark(e, e.frames[i + 1].mark) = {}
    <3> SUFFICES ASSUME NEW i \in 1 .. n - 1 PROVE u[i].got \cap SinceMark(c, u[i + 1].mark) = {}
      BY <1>5, <1>6, <2>2
    <3>1. i \in 1 .. n /\ i + 1 \in 1 .. n
      BY <1>3
    <3>2. q[i].got \cap SinceMark(c, q[i + 1].mark) = {}
      BY <1>2, <1>3, <2>1 DEF InsertedSound
    <3> QED BY <1>10, <3>1, <3>2
  <2>5. e.inserted = c.inserted
    BY <1>6
  <2>6. /\ \A j \in DOMAIN e.inserted : e.inserted[j] \in Sids(f) /\ ~Numbered(b, e.inserted[j])
        /\ \A i, j \in DOMAIN e.inserted : e.inserted[i] = e.inserted[j] => i = j
    BY <2>1, <2>5 DEF InsertedSound
  <2>7. /\ Kept => \A j \in DOMAIN e.inserted : \A s \in Sids(f) :
             e.inserted[j] \in At(f, Doc(s)).refs => s \in SinceMark(e, j)
        /\ \A k \in DOMAIN f : k[1] = "dispatch" => f[k] \notin SinceMark(e, 0)
    BY <2>1, <2>2, <2>5 DEF InsertedSound
  <2> QED BY <2>3, <2>4, <2>6, <2>7 DEF InsertedSound
<1> QED BY <1>6, <1>7, <1>8, <1>9, <1>11, <1>12, <1>13, <1>14 DEF CallBase

\* What a save is given of the writes of another: a document's role only, for
\* each document has its claims.
LEMMA AdoptionIs ==
  ASSUME NEW p, NEW f, f = View(p), NEW whole, NEW open, Whole(f, whole, open), NEW s \in Sids(f), s \notin open,
         NEW g, g = Over(Adoption(p, s), f)
  PROVE  /\ Whole(g, whole, open) /\ Grown(f, g) /\ Sids(g) = Sids(f)
         /\ \A k : k[1] # "doc" => At(g, k) = At(f, k)
         /\ Top(p).top => s \in Mains(g)
         /\ DOMAIN Adoption(p, s) \subseteq {Doc(s)}
         /\ \A k \in DOMAIN Adoption(p, s) : Adoption(p, s)[k] = [At(f, Doc(s)) EXCEPT !.role = "main"]
<1>0. PICK d : d = At(f, Doc(s))
  OBVIOUS
<1>1. /\ Document(f, s) = d /\ d # None /\ Keyed(f) /\ d \in DocType /\ s # None
      /\ \A k \in Claims(d.obj, s) : At(f, k) = s
  <2>1. DocFits(s, d, f, whole, open) /\ d # None /\ Document(f, s) = d
    BY <1>0, WholeDocs
  <2> QED BY <2>1, NoneApart DEF DocFits, Whole
<1>2. {c \in Claimed(View(p), s) : At(View(p), c) = None} = {}
  <2>1. Claimed(f, s) = Claims(d.obj, s)
    BY <1>1 DEF Claimed, Claims
  <2> QED BY <1>1, <2>1
<1>3. \A v : Over(v, [k \in {} |-> s]) = [k \in DOMAIN v |-> v[k]]
  BY DEF Over
<1>4. Adoption(p, s) = [k \in DOMAIN Promotion(p, s) |-> Promotion(p, s)[k]]
  BY <1>2, <1>3 DEF Adoption
<1>5. CASE Top(p).top /\ d.role = "dep"
  <2>1. PICK v : v = Put(Doc(s), [d EXCEPT !.role = "main"])
    OBVIOUS
  <2>2. Promotion(p, s) = v
    BY <1>1, <1>5, <2>1 DEF Promotion
  <2>3. v = [k \in DOMAIN v |-> v[k]]
    BY <2>1 DEF Put
  <2>4. Adoption(p, s) = v
    BY <1>4, <2>2, <2>3
  <2>5. /\ Whole(g, whole, open) /\ Grown(f, g) /\ Sids(g) = Sids(f) /\ s \in Mains(g)
        /\ \A k : k[1] # "doc" => At(g, k) = At(f, k)
    <3>1. g = Over(Put(Doc(s), [At(f, Doc(s)) EXCEPT !.role = "main"]), f)
      BY <1>0, <2>1, <2>4
    <3> QED BY <3>1, PromotedWhole
  <2>6. DOMAIN v = {Doc(s)} /\ v[Doc(s)] = [d EXCEPT !.role = "main"]
    BY <2>1, PutAt
  <2> QED BY <1>0, <2>4, <2>5, <2>6
<1>6. CASE ~(Top(p).top /\ d.role = "dep")
  <2>1. Promotion(p, s) = Nothing
    BY <1>1, <1>6 DEF Promotion
  <2>2. Adoption(p, s) = Nothing /\ DOMAIN Nothing = {}
    BY <1>4, <2>1 DEF Nothing
  <2>3. g = f
    BY <1>1, <2>2, OverNothing DEF Keyed
  <2>4. Top(p).top => s \in Mains(g)
    <3>1. d.role \in {"main", "dep"}
      BY <1>1 DEF DocType
    <3> QED BY <1>0, <1>1, <1>6, <2>3, <3>1, SidsAt
  <2>5. Whole(g, whole, open) /\ Grown(f, g)
    BY <2>3, GrownSame
  <2> QED BY <2>2, <2>3, <2>4, <2>5
<1> QED BY <1>5, <1>6

\* What saves have found, and what they have returned, is in the database.
Found(found, f) == \A m \in found : m.sid \in Sids(f) /\ m.sid[1] = Content[m.obj]
Answered(answers, f) ==
  \A a \in answers : /\ a.sid \in Mains(f) /\ a.sid[1] = Content[a.obj]
                     /\ a.sid[1] \in Entries => At(f, Route(a.sid[1])) = a.sid

\* A save or a transaction begins or ends: it is c and in x from here.
LEMMA Ended ==
  ASSUME Inv, NEW p \in Stores, fsck = None, fsck' = None, NEW t, t = Transactional, NEW c, NEW x, NEW K, NEW z, NEW f,
         op' = [op EXCEPT ![p] = c], txn' = [txn EXCEPT ![p] = x],
         known' = [known EXCEPT ![p] = K], seen' = [seen EXCEPT ![p] = z], UNCHANGED <<deployment, gen>>,
         Whole(db', Kept, {}), Grown(db, db'), ~t => db' = db,
         t => \A q \in Stores \ {p} : Agrees(txn[q], db'),
         NEW A, returned' \subseteq returned \cup A, Answered(A, db'),
         z \in {seen[p], gen}, z = gen => Found(K, db'),
         x = [snapshot |-> x.snapshot, writes |-> x.writes, open |-> x.open, pending |-> x.pending, answers |-> x.answers],
         t => f = Over(x.writes, x.snapshot), ~t => f = db, CallSound(c, f, x.snapshot, t), ~At0(c, {"claim", "insert"}),
         t /\ (c.call # None \/ x.open) => TxnSound(x, c, db'),
         ~(t /\ (c.call # None \/ x.open)) => x = NoTxn,
         DOMAIN x.writes \subseteq DOMAIN txn[p].writes
  PROVE  Inv'
<1>1. TypeInv /\ SavesSound /\ Returned(db) /\ CachesSound
  BY DEF Inv
<1>2. t \in BOOLEAN /\ (Transactional <=> t) /\ (Transactional' <=> t) /\ Transactional' = Transactional
  BY DEF Transactional
<1>3. c \in CallType /\ Held(c) = {} /\ OpenSids(c, TRUE) = {}
  <2>1. c \in CallType
    BY DEF CallSound, CallBase
  <2>2. Held(c) = {}
    BY DEF Held
  <2>3. OpenSids(c, TRUE) = {}
    BY DEF OpenSids, At0
  <2> QED BY <2>1, <2>2, <2>3
<1>4. op' \in [Stores -> CallType] /\ op'[p] = c /\ \A q \in Stores \ {p} : op'[q] = op[q]
  BY <1>1, <1>3 DEF TypeInv
<1>5. txn' = [q \in Stores |-> txn'[q]] /\ txn'[p] = x /\ \A q \in Stores \ {p} : txn'[q] = txn[q]
  BY <1>1 DEF TypeInv
<1>6. /\ known' = [q \in Stores |-> known'[q]] /\ known'[p] = K /\ \A q \in Stores \ {p} : known'[q] = known[q]
      /\ seen' \in [Stores -> 0 .. gen] /\ seen'[p] = z /\ \A q \in Stores \ {p} : seen'[q] = seen[q]
  <2>1. gen \in 0 .. gen /\ z \in 0 .. gen /\ seen \in [Stores -> 0 .. gen]
    <3>1. gen \in Nat /\ seen \in [Stores -> 0 .. gen]
      BY <1>1 DEF TypeInv
    <3>2. gen \in 0 .. gen /\ seen[p] \in 0 .. gen
      BY <3>1
    <3> QED BY <3>1, <3>2
  <2> QED BY <1>1, <2>1 DEF TypeInv
<1>7. TypeInv'
  <2>1. \A q \in Stores : txn'[q] = [snapshot |-> txn'[q].snapshot, writes |-> txn'[q].writes, open |-> txn'[q].open,
                                     pending |-> txn'[q].pending, answers |-> txn'[q].answers]
    <3> TAKE q \in Stores
    <3>1. CASE q = p
      BY <1>5, <3>1
    <3>2. CASE q # p
      BY <1>1, <1>5, <3>2 DEF TypeInv
    <3> QED BY <3>1, <3>2
  <2> QED BY <1>1, <1>4, <1>5, <1>6, <2>1 DEF TypeInv
<1>8. Whole(db, Kept, {}) /\ ~Sweeping /\ ~Sweeping'
  <2>1. ~Sweeping /\ ~Sweeping'
    BY DEF Sweeping
  <2>2. (Kept /\ ~Sweeping) = Kept
    BY <2>1 DEF Kept
  <2> QED BY <2>1, <2>2 DEF Inv
<1>9. /\ Keyed(db) /\ Keyed(db') /\ Sids(db) \subseteq Sids(db') /\ Mains(db) \subseteq Mains(db')
      /\ \A s : At(db, Route(s)) # None => At(db', Route(s)) = At(db, Route(s))
  <2>1. Keyed(db) /\ Keyed(db')
    BY <1>8 DEF Whole
  <2> QED BY <2>1, GrownFacts
<1>10. (t => View(p)' = Over(x.writes, x.snapshot)) /\ (~t => \A q \in Stores : View(q)' = db)
       /\ (t => \A q \in Stores \ {p} : View(q)' = View(q)) /\ (~t => \A q \in Stores : View(q) = db)
  BY <1>2, <1>5 DEF View
<1>11. ASSUME NEW q \in Stores PROVE CallSound(op[q], View(q), txn[q].snapshot, Transactional)'
  <2>1. CASE q = p
    <3>1. op'[q] = c /\ View(q)' = f /\ txn'[q].snapshot = x.snapshot /\ Transactional' = t
      BY <1>2, <1>4, <1>5, <1>10, <2>1
    <3> QED BY <3>1
  <2>2. CASE q # p
    <3>1. op'[q] = op[q] /\ View(q)' = View(q) /\ txn'[q] = txn[q] /\ Transactional' = Transactional
      BY <1>2, <1>4, <1>5, <1>10, <2>2
    <3> QED BY <1>1, <3>1 DEF SavesSound
  <2> QED BY <2>1, <2>2
<1>12. ASSUME NEW q \in Stores, NEW r \in Stores, ~t, q # r PROVE Held(op'[q]) \cap Held(op'[r]) = {}
  <2>1. CASE q = p
    BY <1>3, <1>4, <2>1
  <2>2. CASE r = p
    BY <1>3, <1>4, <2>2
  <2>3. CASE q # p /\ r # p
    BY <1>1, <1>2, <1>4, <1>12, <2>3 DEF SavesSound
  <2> QED BY <2>1, <2>2, <2>3
<1>13. ASSUME NEW q \in Stores PROVE ~(Transactional' /\ Active(q)') => txn'[q] = NoTxn
  <2>1. CASE q = p
    BY <1>2, <1>4, <1>5, <2>1 DEF Active
  <2>2. CASE q # p
    <3>1. op'[q] = op[q] /\ txn'[q] = txn[q]
      BY <1>4, <1>5, <2>2
    <3> QED BY <1>1, <1>2, <3>1 DEF SavesSound, Active
  <2> QED BY <2>1, <2>2
<1>14. ASSUME NEW q \in Stores, t, Active(q)' PROVE TxnSound(txn[q], op[q], db)'
  <2>1. CASE q = p
    <3>1. op'[q] = c /\ txn'[q] = x /\ (c.call # None \/ x.open)
      BY <1>4, <1>5, <1>14, <2>1 DEF Active
    <3> QED BY <1>14, <3>1
  <2>2. CASE q # p
    <3>1. op'[q] = op[q] /\ txn'[q] = txn[q] /\ Active(q)
      BY <1>4, <1>5, <1>14, <2>2 DEF Active
    <3>2. TxnSound(txn[q], op[q], db)
      BY <1>1, <1>2, <1>14, <3>1 DEF SavesSound
    <3>3. Agrees(txn[q], db')
      BY <1>14, <2>2
    <3>4. Grown(txn[q].snapshot, db')
      BY <3>2, GrownOn DEF TxnSound
    <3>5. TxnSound(txn[q], op[q], db')
      BY <3>2, <3>3, <3>4 DEF TxnSound
    <3> QED BY <3>1, <3>5
  <2> QED BY <2>1, <2>2
<1>15. ASSUME NEW q \in Stores, NEW r \in Stores, q # r PROVE DOMAIN txn'[q].writes \cap DOMAIN txn'[r].writes = {}
  <2>1. DOMAIN txn[q].writes \cap DOMAIN txn[r].writes = {}
    BY <1>1, <1>15 DEF SavesSound
  <2>2. CASE q = p
    BY <1>5, <1>15, <2>1, <2>2
  <2>3. CASE r = p
    BY <1>5, <1>15, <2>1, <2>3
  <2>4. CASE q # p /\ r # p
    BY <1>5, <2>1, <2>4
  <2> QED BY <2>2, <2>3, <2>4
<1>16. SavesSound'
  <2>1. \A q \in Stores : CallSound(op[q], View(q), txn[q].snapshot, Transactional)'
    BY <1>11
  <2>2. \A q, r \in Stores : ~Transactional' /\ q # r => Held(op'[q]) \cap Held(op'[r]) = {}
    BY <1>2, <1>12
  <2>3. \A q \in Stores : ~(Transactional' /\ Active(q)') => txn'[q] = NoTxn
    BY <1>13
  <2>4. \A q \in Stores : Transactional' /\ Active(q)' => TxnSound(txn[q], op[q], db)'
    BY <1>2, <1>14
  <2> QED BY <1>15, <2>1, <2>2, <2>3, <2>4 DEF SavesSound
<1>17. Returned(db)'
  <2> SUFFICES ASSUME NEW r \in returned'
               PROVE  /\ r.sid \in Mains(db') /\ r.sid[1] = Content[r.obj]
                      /\ r.sid[1] \in Entries => At(db', Route(r.sid[1])) = r.sid
    BY DEF Returned
  <2>1. CASE r \in returned
    <3>1. /\ r.sid \in Mains(db) /\ r.sid[1] = Content[r.obj]
          /\ r.sid[1] \in Entries => At(db, Route(r.sid[1])) = r.sid
      BY <1>1, <2>1 DEF Returned
    <3>2. r.sid # None
      <4>1. r.sid \in Sids(db)
        BY <3>1 DEF Mains
      <4> QED BY <1>8, <4>1, WholeDocs, NoneApart DEF DocFits
    <3> QED BY <1>9, <3>1, <3>2
  <2>2. CASE r \notin returned
    BY <2>2 DEF Answered
  <2> QED BY <2>1, <2>2
<1>18. CachesSound'
  <2> SUFFICES ASSUME NEW q \in Stores, seen'[q] = gen, NEW k \in known'[q]
               PROVE  k.sid \in Sids(db') /\ k.sid[1] = Content[k.obj]
    BY DEF CachesSound
  <2>1. CASE q = p
    BY <1>6, <2>1 DEF Found
  <2>2. CASE q # p
    BY <1>1, <1>6, <1>9, <2>2 DEF CachesSound
  <2> QED BY <2>1, <2>2
<1>19. FsckSound'
  BY DEF FsckSound
<1>20. Whole(db, Kept /\ ~Sweeping, {})'
  <2>1. (Kept' /\ ~Sweeping') = Kept
    BY <1>8 DEF Kept
  <2> QED BY <2>1
<1> QED BY <1>7, <1>16, <1>17, <1>18, <1>19, <1>20 DEF Inv

\* The same, where the database does not change and nothing is returned.
LEMMA Turned ==
  ASSUME Inv, NEW p \in Stores, fsck = None, fsck' = None, NEW t, t = Transactional, NEW c, NEW x, NEW K, NEW z, NEW f,
         op' = [op EXCEPT ![p] = c], txn' = [txn EXCEPT ![p] = x],
         known' = [known EXCEPT ![p] = K], seen' = [seen EXCEPT ![p] = z], UNCHANGED <<deployment, gen, returned>>,
         Whole(db', Kept, {}), Grown(db, db'), ~t => db' = db,
         t => \A q \in Stores \ {p} : Agrees(txn[q], db'),
         z \in {seen[p], gen}, z = gen => \A k \in K : k.sid \in Sids(db') /\ k.sid[1] = Content[k.obj],
         x = [snapshot |-> x.snapshot, writes |-> x.writes, open |-> x.open, pending |-> x.pending, answers |-> x.answers],
         t => f = Over(x.writes, x.snapshot), ~t => f = db, CallSound(c, f, x.snapshot, t), ~At0(c, {"claim", "insert"}),
         t /\ (c.call # None \/ x.open) => TxnSound(x, c, db'),
         ~(t /\ (c.call # None \/ x.open)) => x = NoTxn,
         DOMAIN x.writes \subseteq DOMAIN txn[p].writes
  PROVE  Inv'
<1>1. PICK A : A = {}
  OBVIOUS
<1>2. returned' \subseteq returned \cup A /\ Answered(A, db') /\ (z = gen => Found(K, db'))
  BY <1>1 DEF Answered, Found
<1> QED BY <1>2, Ended

LEMMA NoTxnFields ==
  ASSUME NEW f
  PROVE  /\ NoTxn.snapshot = Nothing /\ NoTxn.writes = Nothing /\ ~NoTxn.open /\ NoTxn.pending = {} /\ NoTxn.answers = {}
         /\ NoTxn = [snapshot |-> NoTxn.snapshot, writes |-> NoTxn.writes, open |-> NoTxn.open,
                     pending |-> NoTxn.pending, answers |-> NoTxn.answers]
         /\ DOMAIN Nothing = {}
         /\ \A x : x = [NoTxn EXCEPT !.snapshot = f] \/ x = [NoTxn EXCEPT !.snapshot = f, !.open = TRUE] =>
              /\ x.snapshot = f /\ x.writes = Nothing /\ x.pending = {} /\ x.answers = {}
              /\ x = [snapshot |-> x.snapshot, writes |-> x.writes, open |-> x.open,
                      pending |-> x.pending, answers |-> x.answers]
         /\ [NoTxn EXCEPT !.snapshot = f, !.open = TRUE].open
<1>1. PICK a, u, w, m, n : a = FALSE /\ u = Nothing /\ w = Nothing /\ m = {} /\ n = {}
  OBVIOUS
<1>2. PICK i : i = [snapshot |-> u, writes |-> w, open |-> a, pending |-> m, answers |-> n]
  OBVIOUS
<1>3. i = NoTxn
  BY <1>1, <1>2 DEF NoTxn
<1>4. /\ i.snapshot = u /\ i.writes = w /\ i.open = a /\ i.pending = m /\ i.answers = n
      /\ i = [snapshot |-> i.snapshot, writes |-> i.writes, open |-> i.open, pending |-> i.pending, answers |-> i.answers]
  BY <1>2
<1>5. PICK d : d = [i EXCEPT !.snapshot = f]
  OBVIOUS
<1>6. /\ d = [snapshot |-> f, writes |-> w, open |-> a, pending |-> m, answers |-> n]
      /\ d.snapshot = f /\ d.writes = w /\ d.pending = m /\ d.answers = n
      /\ d = [snapshot |-> d.snapshot, writes |-> d.writes, open |-> d.open, pending |-> d.pending, answers |-> d.answers]
  <2>1. d = [snapshot |-> f, writes |-> w, open |-> a, pending |-> m, answers |-> n]
    BY <1>2, <1>5
  <2> QED BY <2>1
<1>7. PICK o : o = TRUE
  OBVIOUS
<1>8. PICK e : e = [d EXCEPT !.open = o]
  OBVIOUS
<1>9. /\ e.snapshot = f /\ e.writes = w /\ e.pending = m /\ e.answers = n /\ e.open = o
      /\ e = [snapshot |-> e.snapshot, writes |-> e.writes, open |-> e.open, pending |-> e.pending, answers |-> e.answers]
  <2>1. e = [snapshot |-> f, writes |-> w, open |-> o, pending |-> m, answers |-> n]
    BY <1>6, <1>8
  <2> QED BY <2>1
<1>10. [NoTxn EXCEPT !.snapshot = f] = d /\ [NoTxn EXCEPT !.snapshot = f, !.open = TRUE] = e
  BY <1>3, <1>5, <1>7, <1>8
<1>11. DOMAIN Nothing = {}
  BY DEF Nothing
<1> QED BY <1>1, <1>3, <1>4, <1>6, <1>7, <1>9, <1>10, <1>11

LEMMA TxnFresh ==
  ASSUME NEW f, Whole(f, Kept, {}), NEW c, ~At0(c, {"claim", "insert"}), NEW x,
         x.snapshot = f, x.writes = Nothing, x.pending = {}, x.answers = {}
  PROVE  TxnSound(x, c, f) /\ Over(x.writes, x.snapshot) = f
<1>1. Over(Nothing, f) = f
  BY OverNothing DEF Whole, Keyed
<1>2. OpenSids(c, TRUE) = {} /\ DOMAIN Nothing = {}
  BY DEF OpenSids, At0, Nothing
<1>3. Grown(f, f)
  BY GrownSame
<1>4. Agrees(x, f) /\ OpenSound(x, c, f)
  BY <1>2 DEF Agrees, OpenSound
<1> QED BY <1>1, <1>2, <1>3, <1>4 DEF TxnSound

\* A save or a transaction that is left behind, with what it had not written.
LEMMA Left ==
  ASSUME Inv, NEW p \in Stores, Active(p), op' = [op EXCEPT ![p] = Idle], txn' = [txn EXCEPT ![p] = NoTxn],
         NEW K, NEW z, known' = [known EXCEPT ![p] = K], seen' = [seen EXCEPT ![p] = z],
         K = {} \/ (K = known[p] /\ z = seen[p]), z \in {seen[p], gen},
         UNCHANGED <<deployment, db, gen, fsck, returned>>
  PROVE  Inv'
<1>1. fsck = None /\ Whole(db, Kept, {})
  BY ViewFacts
<1>2. PICK t, x, f : t = Transactional /\ x = NoTxn /\ f = IF Transactional THEN Over(NoTxn.writes, NoTxn.snapshot) ELSE db
  OBVIOUS
<1>3. /\ x.snapshot = Nothing /\ x.writes = Nothing /\ ~x.open
      /\ x = [snapshot |-> x.snapshot, writes |-> x.writes, open |-> x.open, pending |-> x.pending, answers |-> x.answers]
      /\ DOMAIN x.writes = {}
  BY <1>2, NoTxnFields
<1>4. PICK c : c = Idle
  OBVIOUS
<1>5. c.call = None /\ CallSound(c, f, x.snapshot, t) /\ ~At0(c, {"claim", "insert"})
  BY <1>4, IdleSound
<1>6. Grown(db, db')
  BY <1>1, GrownSame
<1>7. ASSUME t PROVE \A q \in Stores \ {p} : Agrees(txn[q], db')
  <2> SUFFICES ASSUME NEW q \in Stores PROVE Agrees(txn[q], db)
    OBVIOUS
  <2>1. CASE Active(q)
    BY <1>2, <1>7, <2>1, ViewFacts
  <2>2. CASE ~Active(q)
    <3>1. txn[q] = NoTxn
      BY <2>2 DEF Inv, SavesSound
    <3> QED BY <3>1, NoTxnFields DEF Agrees
  <2> QED BY <2>1, <2>2
<1>8. z = gen => \A k \in K : k.sid \in Sids(db') /\ k.sid[1] = Content[k.obj]
  BY DEF Inv, CachesSound
<1>9. Whole(db', Kept, {}) /\ fsck' = None
  BY <1>1
<1> QED BY <1>1, <1>2, <1>3, <1>4, <1>5, <1>6, <1>7, <1>8, <1>9, Turned

LEMMA AllAgree ==
  ASSUME Inv, Transactional, NEW q \in Stores
  PROVE  Agrees(txn[q], db)
<1>1. CASE Active(q)
  BY <1>1, ViewFacts
<1>2. CASE ~Active(q)
  <2>1. txn[q] = NoTxn
    BY <1>2 DEF Inv, SavesSound
  <2> QED BY <2>1, NoTxnFields DEF Agrees
<1> QED BY <1>1, <1>2

\* The caches a store has after it has observed the generation, and before.
LEMMA CacheSound ==
  ASSUME Inv, NEW p \in Stores
  PROVE  /\ known = [known EXCEPT ![p] = known[p]] /\ seen = [seen EXCEPT ![p] = seen[p]]
         /\ seen[p] = gen => \A k \in known[p] : k.sid \in Sids(db) /\ k.sid[1] = Content[k.obj]
         /\ \A k \in Observed(p) : k.sid \in Sids(db) /\ k.sid[1] = Content[k.obj]
<1>1. known = [q \in Stores |-> known[q]] /\ seen \in [Stores -> 0 .. gen] /\ CachesSound
  BY DEF Inv, TypeInv
<1>2. known = [known EXCEPT ![p] = known[p]]
  BY <1>1
<1>3. seen = [seen EXCEPT ![p] = seen[p]]
  BY <1>1
<1>4. seen[p] = gen => \A k \in known[p] : k.sid \in Sids(db) /\ k.sid[1] = Content[k.obj]
  BY <1>1 DEF CachesSound
<1> QED BY <1>2, <1>3, <1>4 DEF Observed

LEMMA LeaveKeeps ==
  ASSUME Inv, NEW p \in Stores, Active(p), Leave(p)
  PROVE  Inv'
<1>1. PICK K : K = IF txn[p].open THEN {} ELSE known[p]
  OBVIOUS
<1>2. known' = [known EXCEPT ![p] = K]
  BY <1>1 DEF Leave
<1>3. seen' = [seen EXCEPT ![p] = seen[p]]
  BY CacheSound DEF Leave
<1>4. K = {} \/ K = known[p]
  BY <1>1
<1> QED BY <1>2, <1>3, <1>4, Left DEF Leave

\* A save begins over a fresh transaction.
LEMMA Afresh ==
  ASSUME Inv, NEW p \in Stores, fsck = None, UNCHANGED <<deployment, db, gen, fsck, returned>>,
         NEW o \in Calls, NEW k \in 0 .. Attempts, NEW x, x = [NoTxn EXCEPT !.snapshot = db], Transactional,
         op' = [op EXCEPT ![p] = Begun(o, k)], txn' = [txn EXCEPT ![p] = x],
         NEW K, known' = [known EXCEPT ![p] = K], NEW z, seen' = [seen EXCEPT ![p] = z], z \in {seen[p], gen},
         z = gen => \A m \in K : m.sid \in Sids(db) /\ m.sid[1] = Content[m.obj]
  PROVE  Inv'
<1>1. Whole(db, Kept, {})
  <2>1. (Kept /\ ~Sweeping) = Kept
    BY DEF Kept, Sweeping
  <2> QED BY <2>1 DEF Inv
<1>2. PICK t, c, f : t = Transactional /\ c = Begun(o, k) /\ f = db
  OBVIOUS
<1>3. /\ x.snapshot = db /\ x.writes = Nothing /\ x.pending = {} /\ x.answers = {} /\ DOMAIN x.writes = {}
      /\ x = [snapshot |-> x.snapshot, writes |-> x.writes, open |-> x.open, pending |-> x.pending, answers |-> x.answers]
  BY NoTxnFields
<1>4. CallSound(c, f, x.snapshot, t) /\ c.call # None /\ ~At0(c, {"claim", "insert"})
  <2>1. c = Begun(o, k)
    BY <1>2
  <2>2. PICK b : b = x.snapshot
    OBVIOUS
  <2>3. CallSound(c, f, b, t) /\ c.call # None /\ ~At0(c, {"claim", "insert"})
    BY <2>1, BegunSound
  <2> QED BY <2>2, <2>3
<1>5. TxnSound(x, c, db) /\ Over(x.writes, x.snapshot) = f
  BY <1>1, <1>2, <1>3, <1>4, TxnFresh
<1>6. Grown(db, db')
  BY <1>1, GrownSame
<1>7. t => \A q \in Stores \ {p} : Agrees(txn[q], db')
  BY <1>2, AllAgree
<1>8. Whole(db', Kept, {}) /\ TxnSound(x, c, db') /\ fsck' = None
  BY <1>1, <1>5
<1> QED BY <1>2, <1>3, <1>4, <1>5, <1>6, <1>7, <1>8, Turned

LEMMA AgainKeeps ==
  ASSUME Inv, NEW p \in Stores, op[p].call # None, Transactional, Again(p)
  PROVE  Inv'
<1>1. Active(p)
  BY DEF Active
<1>2. fsck = None
  BY <1>1, ViewFacts
<1>3. CASE txn[p].open
  <2>1. Leave(p)
    BY <1>3 DEF Again
  <2> QED BY <1>1, <2>1, LeaveKeeps
<1>4. CASE ~txn[p].open /\ AttemptsLeft(p)
  <2>1. /\ op' = [op EXCEPT ![p] = Begun(@.call, @.attempt + 1)]
        /\ txn' = [txn EXCEPT ![p] = [NoTxn EXCEPT !.snapshot = db]]
        /\ UNCHANGED <<known, deployment, db, seen, gen, fsck, returned>>
    BY <1>4 DEF Again
  <2>2. op \in [Stores -> CallType]
    BY DEF Inv, TypeInv
  <2>3. PICK o, k : o = op[p].call /\ k = op[p].attempt + 1
    OBVIOUS
  <2>4. o \in Calls /\ k \in 0 .. Attempts
    <3>1. op[p].call \in Calls /\ op[p].attempt \in 0 .. Attempts
      BY <2>2, CallFields
    <3>2. op[p].attempt < Attempts /\ Attempts \in Nat
      BY <1>4, SaveAssumption DEF AttemptsLeft
    <3> QED BY <2>3, <3>1, <3>2
  <2>5. op' = [op EXCEPT ![p] = Begun(o, k)]
    BY <2>1, <2>2, <2>3
  <2>6. PICK x : x = [NoTxn EXCEPT !.snapshot = db]
    OBVIOUS
  <2>7. txn' = [txn EXCEPT ![p] = x]
    BY <2>1, <2>6
  <2>8. known' = [known EXCEPT ![p] = known[p]] /\ seen' = [seen EXCEPT ![p] = seen[p]]
        /\ (seen[p] = gen => \A m \in known[p] : m.sid \in Sids(db) /\ m.sid[1] = Content[m.obj])
    BY <2>1, CacheSound
  <2>9. UNCHANGED <<deployment, db, gen, fsck, returned>> /\ seen[p] \in {seen[p], gen}
    BY <2>1
  <2> QED BY <1>2, <2>4, <2>5, <2>6, <2>7, <2>8, <2>9, Afresh
<1>5. CASE ~txn[p].open /\ ~AttemptsLeft(p)
  <2>1. /\ op' = [op EXCEPT ![p] = Idle] /\ txn' = [txn EXCEPT ![p] = NoTxn] /\ known' = [known EXCEPT ![p] = {}]
        /\ UNCHANGED <<deployment, db, seen, gen, fsck, returned>>
    BY <1>5 DEF Again
  <2>2. seen' = [seen EXCEPT ![p] = seen[p]]
    BY <2>1, CacheSound
  <2> QED BY <1>1, <2>1, <2>2, Left
<1> QED BY <1>3, <1>4, <1>5

LEMMA RaiseKeeps ==
  ASSUME Inv, NEW p \in Stores, op[p].call # None, ~At0(op[p], {"claim", "insert"}), Raise(p)
  PROVE  Inv'
<1>1. Active(p)
  BY DEF Active
<1>2. CASE Leave(p)
  BY <1>1, <1>2, LeaveKeeps
<1>3. CASE txn[p].open /\ op' = [op EXCEPT ![p] = Idle] /\ UNCHANGED <<deployment, db, txn, known, seen, gen, fsck, returned>>
  <2>1. PICK t, b, x, c, f : t = Transactional /\ b = txn[p].snapshot /\ x = txn[p] /\ c = Idle /\ f = View(p)
    OBVIOUS
  <2>2. /\ fsck = None /\ (~t => f = db) /\ (t => f = Over(x.writes, b)) /\ Whole(db, Kept, {})
        /\ Whole(f, Kept, OpenSids(op[p], t))
        /\ t => TxnSound(x, op[p], db) /\ Grown(b, f)
    BY <1>1, <2>1, ViewFacts
  <2>3. CASE ~t
    <3>1. txn[p] = NoTxn
      BY <2>1, <2>3 DEF Inv, SavesSound
    <3> QED BY <1>3, <3>1, NoTxnFields
  <2>4. CASE t
    <3>1. Whole(f, Kept, {}) /\ OpenSids(c, TRUE) = {} /\ c.call = None /\ CallSound(c, f, b, t) /\ ~At0(c, {"claim", "insert"})
      BY <2>1, <2>2, IdleSound, Unheld
    <3>2. OpenSound(x, c, f)
      <4>1. OpenSound(x, op[p], f) /\ c.frames = <<>>
        BY <1>1, <2>1, <2>4, ViewFacts, IdleSound
      <4> QED BY <4>1 DEF OpenSound
    <3>3. TxnSound(x, c, db)
      BY <2>1, <2>2, <2>4, <3>1, <3>2 DEF TxnSound
    <3>4. txn' = [txn EXCEPT ![p] = x] /\ x = [snapshot |-> x.snapshot, writes |-> x.writes, open |-> x.open,
                                              pending |-> x.pending, answers |-> x.answers]
      BY <1>3, <2>1 DEF Inv, TypeInv
    <3>5. known' = [known EXCEPT ![p] = known[p]] /\ seen' = [seen EXCEPT ![p] = seen[p]]
          /\ (seen[p] = gen => \A m \in known[p] : m.sid \in Sids(db') /\ m.sid[1] = Content[m.obj])
      BY <1>3, CacheSound
    <3>6. Grown(db, db') /\ Whole(db', Kept, {}) /\ fsck' = None /\ db' = db
      BY <1>3, <2>2, GrownSame
    <3>7. \A q \in Stores \ {p} : Agrees(txn[q], db')
      BY <2>1, <2>4, <3>6, AllAgree
    <3>8. op' = [op EXCEPT ![p] = c] /\ x.open /\ seen[p] \in {seen[p], gen} /\ UNCHANGED <<deployment, gen, returned>>
      BY <1>3, <2>1
    <3>9. TxnSound(x, c, db') /\ CallSound(c, f, x.snapshot, t) /\ DOMAIN x.writes \subseteq DOMAIN txn[p].writes
      BY <2>1, <3>1, <3>3, <3>6
    <3> QED BY <2>1, <2>2, <2>4, <3>1, <3>4, <3>5, <3>6, <3>7, <3>8, <3>9, Turned
  <2> QED BY <2>3, <2>4
<1> QED BY <1>2, <1>3 DEF Raise

LEMMA RetryKeeps ==
  ASSUME Inv, NEW p \in Stores, op[p].call # None, Transactional, Retry(p)
  PROVE  Inv'
BY AgainKeeps DEF Retry

LEMMA FaultKeeps ==
  ASSUME Inv, NEW p \in Stores, Fault(p) \/ Die(p) \/ RollBack(p)
  PROVE  Inv'
<1>1. CASE Fault(p)
  <2>1. Active(p) /\ op[p].call # None
    BY <1>1 DEF Fault, Active
  <2>2. CASE Leave(p)
    BY <2>1, <2>2, LeaveKeeps
  <2>3. CASE Transactional /\ Again(p)
    BY <2>1, <2>3, AgainKeeps
  <2> QED BY <1>1, <2>2, <2>3 DEF Fault
<1>2. CASE Die(p)
  <2>1. Active(p)
    BY <1>2 DEF Die, Active
  <2>2. /\ op' = [op EXCEPT ![p] = Idle] /\ txn' = [txn EXCEPT ![p] = NoTxn]
        /\ known' = [known EXCEPT ![p] = {}] /\ seen' = [seen EXCEPT ![p] = gen]
        /\ UNCHANGED <<deployment, db, gen, fsck, returned>>
    BY <1>2 DEF Die, Restarted
  <2> QED BY <2>1, <2>2, Left
<1>3. CASE RollBack(p)
  <2>1. Active(p) /\ Leave(p)
    BY <1>3 DEF RollBack, Active
  <2> QED BY <2>1, LeaveKeeps
<1> QED BY <1>1, <1>2, <1>3

LEMMA StartKeeps ==
  ASSUME Inv, NEW p \in Stores, NEW o \in Calls, Start(p, o)
  PROVE  Inv'
<1>1. /\ op[p].call = None /\ fsck = None
      /\ op' = [op EXCEPT ![p] = Begun(o, 1)]
      /\ known' = [known EXCEPT ![p] = Observed(p)] /\ seen' = [seen EXCEPT ![p] = gen]
      /\ UNCHANGED <<deployment, db, gen, fsck, returned>>
  BY DEF Start
<1>2. gen = gen => \A k \in Observed(p) : k.sid \in Sids(db) /\ k.sid[1] = Content[k.obj]
  BY CacheSound
<1>3. 1 \in 0 .. Attempts
  <2>1. Attempts \in Nat \ {0}
    BY SaveAssumption
  <2> QED BY <2>1
<1>4. Whole(db, Kept, {})
  <2>1. (Kept /\ ~Sweeping) = Kept
    BY <1>1 DEF Kept, Sweeping
  <2> QED BY <2>1 DEF Inv
<1>5. CASE Transactional /\ ~txn[p].open
  <2>1. txn[p] = NoTxn
    BY <1>1, <1>5 DEF Inv, SavesSound, Active
  <2>2. PICK x : x = [NoTxn EXCEPT !.snapshot = db]
    OBVIOUS
  <2>3. txn' = [txn EXCEPT ![p].snapshot = db]
    BY <1>5 DEF Start
  <2>4. txn' = [txn EXCEPT ![p] = x]
    BY <2>1, <2>2, <2>3
  <2> QED BY <1>1, <1>2, <1>3, <1>5, <2>2, <2>4, Afresh
<1>6. CASE ~(Transactional /\ ~txn[p].open)
  <2>1. PICK t, b, x, c, f : t = Transactional /\ b = txn[p].snapshot /\ x = txn[p] /\ c = Begun(o, 1) /\ f = View(p)
    OBVIOUS
  <2>2. /\ x = [snapshot |-> x.snapshot, writes |-> x.writes, open |-> x.open, pending |-> x.pending, answers |-> x.answers]
        /\ txn = [q \in Stores |-> txn[q]]
    BY <2>1 DEF Inv, TypeInv
  <2>3. txn' = [txn EXCEPT ![p] = x]
    <3>1. txn' = [txn EXCEPT ![p].snapshot = txn[p].snapshot]
      BY <1>6 DEF Start
    <3>2. PICK y : y = [x EXCEPT !.snapshot = x.snapshot]
      OBVIOUS
    <3>3. y = x
      BY <2>2, <3>2
    <3>4. txn' = [txn EXCEPT ![p] = y]
      BY <2>1, <3>1, <3>2
    <3> QED BY <3>3, <3>4
  <2>4. CallSound(c, f, b, t) /\ c.call # None /\ ~At0(c, {"claim", "insert"}) /\ c.inserted = <<>>
    BY <1>3, <2>1, BegunSound
  <2>5. c \in CallType
    BY <2>4 DEF CallSound, CallBase
  <2>6. SinceMark(c, 0) = {} /\ OpenSids(c, TRUE) = {}
    <3>1. Len(c.inserted) = 0
      BY <2>4
    <3>2. SinceMark(c, 0) = {}
      BY <2>5, <3>1, SinceFacts
    <3> QED BY <2>4, <3>2 DEF OpenSids, At0
  <2>7. Grown(db, db') /\ Whole(db', Kept, {}) /\ fsck' = None /\ db' = db
    BY <1>1, <1>4, GrownSame
  <2>8. CASE t
    <3>1. txn[p].open /\ Active(p)
      BY <1>6, <2>1, <2>8 DEF Active
    <3>2. TxnSound(x, op[p], db) /\ f = Over(x.writes, x.snapshot)
      BY <2>1, <2>8, <3>1, ViewFacts
    <3>3. OpenSids(op[p], TRUE) = {}
      <4>1. op[p] = Idle
        BY <1>1 DEF Inv, SavesSound, CallSound, CallBase
      <4> QED BY <4>1, IdleSound, Unheld
    <3>4. TxnSound(x, c, db)
      BY <2>6, <3>2, <3>3 DEF TxnSound, OpenSound
    <3>5. \A q \in Stores \ {p} : Agrees(txn[q], db')
      BY <2>1, <2>7, <2>8, AllAgree
    <3>6. CallSound(c, f, x.snapshot, t) /\ TxnSound(x, c, db')
      BY <2>1, <2>4, <2>7, <3>4
    <3>7. \A k \in Observed(p) : k.sid \in Sids(db') /\ k.sid[1] = Content[k.obj]
      BY <1>2, <2>7
    <3> QED BY <1>1, <2>1, <2>2, <2>3, <2>4, <2>7, <2>8, <3>2, <3>5, <3>6, <3>7, Turned
  <2>9. CASE ~t
    <3>1. x = NoTxn
      BY <2>1, <2>9 DEF Inv, SavesSound
    <3>2. f = db /\ CallSound(c, f, x.snapshot, t)
      BY <2>1, <2>4, <2>9 DEF View
    <3>3. \A k \in Observed(p) : k.sid \in Sids(db') /\ k.sid[1] = Content[k.obj]
      BY <1>2, <2>7
    <3> QED BY <1>1, <2>1, <2>2, <2>3, <2>4, <2>7, <2>9, <3>1, <3>2, <3>3, Turned
  <2> QED BY <2>8, <2>9
<1> QED BY <1>5, <1>6

LEMMA OpenTransactionKeeps ==
  ASSUME Inv, NEW p \in Stores, OpenTransaction(p)
  PROVE  Inv'
<1>1. /\ op[p].call = None /\ fsck = None /\ Transactional /\ ~txn[p].open
      /\ txn' = [txn EXCEPT ![p] = [NoTxn EXCEPT !.snapshot = db, !.open = TRUE]]
      /\ known' = [known EXCEPT ![p] = Observed(p)] /\ seen' = [seen EXCEPT ![p] = gen]
      /\ UNCHANGED <<deployment, db, op, gen, fsck, returned>>
  BY DEF OpenTransaction
<1>2. Whole(db, Kept, {})
  <2>1. (Kept /\ ~Sweeping) = Kept
    BY <1>1 DEF Kept, Sweeping
  <2> QED BY <2>1 DEF Inv
<1>3. PICK t, x, c, f : /\ t = Transactional /\ x = [NoTxn EXCEPT !.snapshot = db, !.open = TRUE]
                        /\ c = Idle /\ f = db
  OBVIOUS
<1>4. /\ x.snapshot = db /\ x.writes = Nothing /\ x.pending = {} /\ x.answers = {} /\ DOMAIN x.writes = {} /\ x.open
      /\ x = [snapshot |-> x.snapshot, writes |-> x.writes, open |-> x.open, pending |-> x.pending, answers |-> x.answers]
  BY <1>3, NoTxnFields
<1>5. CallSound(c, f, x.snapshot, t) /\ ~At0(c, {"claim", "insert"})
  BY <1>3, IdleSound
<1>6. TxnSound(x, c, db) /\ Over(x.writes, x.snapshot) = f
  BY <1>2, <1>3, <1>4, <1>5, TxnFresh
<1>7. op' = [op EXCEPT ![p] = c]
  <2>1. op[p] = Idle /\ op = [q \in Stores |-> op[q]]
    BY <1>1 DEF Inv, SavesSound, CallSound, CallBase, TypeInv
  <2> QED BY <1>1, <1>3, <2>1
<1>8. Grown(db, db') /\ Whole(db', Kept, {}) /\ fsck' = None /\ TxnSound(x, c, db')
  BY <1>1, <1>2, <1>6, GrownSame
<1>9. \A k \in Observed(p) : k.sid \in Sids(db') /\ k.sid[1] = Content[k.obj]
  BY <1>1, CacheSound
<1>10. \A q \in Stores \ {p} : Agrees(txn[q], db')
  BY <1>1, AllAgree
<1>11. txn' = [txn EXCEPT ![p] = x] /\ gen \in {seen[p], gen}
  BY <1>1, <1>3
<1>12. t /\ UNCHANGED <<deployment, gen, returned>> /\ fsck = None /\ f = Over(x.writes, x.snapshot)
  BY <1>1, <1>3, <1>6
<1>13. seen' = [seen EXCEPT ![p] = gen] /\ known' = [known EXCEPT ![p] = Observed(p)]
  BY <1>1
<1>14. ~t => db' = db /\ f = db
  BY <1>12
<1>15. t => (f = Over(x.writes, x.snapshot) /\ \A q \in Stores \ {p} : Agrees(txn[q], db'))
  BY <1>10, <1>12
<1>16. /\ t /\ (c.call # None \/ x.open) => TxnSound(x, c, db')
       /\ ~(t /\ (c.call # None \/ x.open)) => x = NoTxn
  BY <1>4, <1>8, <1>12
<1>17. DOMAIN x.writes \subseteq DOMAIN txn[p].writes
  BY <1>4
<1>18. gen = gen => \A k \in Observed(p) : k.sid \in Sids(db') /\ k.sid[1] = Content[k.obj]
  BY <1>9
<1>19. Whole(db', Kept, {}) /\ Grown(db, db') /\ fsck' = None
  BY <1>8
<1>20. t = Transactional /\ UNCHANGED <<deployment, gen>> /\ returned' = returned /\ fsck = None
  BY <1>3, <1>12
<1>21. x = [snapshot |-> x.snapshot, writes |-> x.writes, open |-> x.open, pending |-> x.pending, answers |-> x.answers]
  BY <1>4
<1> QED BY <1>5, <1>7, <1>11, <1>13, <1>14, <1>15, <1>16, <1>17, <1>18, <1>19, <1>20, <1>21, Turned

LEMMA CommitSound ==
  ASSUME Inv, NEW p \in Stores, Active(p), ~At0(op[p], {"claim", "insert"}), NEW f, f = View(p),
         NEW g, g = Over(txn[p].writes, db)
  PROVE  /\ Whole(g, Kept, {}) /\ Grown(db, g) /\ Grown(f, g)
         /\ Transactional => \A q \in Stores \ {p} : Agrees(txn[q], g)
         /\ ~Transactional => g = db
<1>1. PICK t, b, x : t = Transactional /\ b = txn[p].snapshot /\ x = txn[p]
  OBVIOUS
<1>2. /\ t \in BOOLEAN /\ (~t => f = db) /\ (t => f = Over(x.writes, b)) /\ Whole(db, Kept, {})
      /\ Whole(f, Kept, OpenSids(op[p], t)) /\ OpenSids(op[p], t) = {}
      /\ t => Whole(b, Kept, {}) /\ Grown(b, f) /\ Grown(b, db) /\ Agrees(x, db)
  BY <1>1, ViewFacts, Unheld
<1>3. CASE t
  <2>1. \A k \in DOMAIN x.writes : At(db, k) = At(b, k)
    BY <1>1, <1>2, <1>3 DEF Agrees
  <2>2. Keyed(b) /\ Whole(f, Kept, {})
    BY <1>2, <1>3 DEF Whole
  <2>3. Whole(g, Kept, {}) /\ Grown(db, g) /\ Grown(f, g)
    BY <1>1, <1>2, <1>3, <2>1, <2>2, CommitWhole
  <2>4. ASSUME NEW q \in Stores \ {p} PROVE Agrees(txn[q], g)
    <3> SUFFICES ASSUME NEW k \in DOMAIN txn[q].writes PROVE At(g, k) = At(txn[q].snapshot, k)
      BY DEF Agrees
    <3>1. k \notin DOMAIN x.writes
      BY <1>1 DEF Inv, SavesSound
    <3>2. At(g, k) = At(db, k)
      BY <1>1, <3>1 DEF At, Over
    <3>3. At(db, k) = At(txn[q].snapshot, k)
      BY <1>1, <1>3, AllAgree DEF Agrees
    <3> QED BY <3>2, <3>3
  <2> QED BY <1>1, <1>3, <2>3, <2>4
<1>4. CASE ~t
  <2>1. x = NoTxn
    BY <1>1, <1>4 DEF Inv, SavesSound
  <2>2. g = db
    <3>1. g = Over(Nothing, db)
      BY <1>1, <2>1, NoTxnFields
    <3>2. db = [k \in DOMAIN db |-> db[k]]
      BY <1>2 DEF Whole, Keyed
    <3> QED BY <3>1, <3>2, OverNothing
  <2>3. Grown(db, db)
    BY <1>2, GrownSame
  <2> QED BY <1>1, <1>2, <1>4, <2>2, <2>3
<1> QED BY <1>3, <1>4

\* What a save has found for its object, once its frames are done.
LEMMA SavedIs ==
  ASSUME Inv, NEW p \in Stores, InDispatch(p), NEW f, f = View(p)
  PROVE  /\ Active(p) /\ ~At0(op[p], {"claim", "insert"})
         /\ Saved(p) \in Mains(f) /\ Saved(p) \in Sids(f) /\ Saved(p) # None /\ Saved(p)[1] = Content[op[p].call]
<1>1. op[p].call # None /\ op[p].frames = <<>> /\ Active(p)
  BY DEF InDispatch, Active
<1>2. PICK t, b, whole, open : t = Transactional /\ b = txn[p].snapshot /\ whole = Kept /\ open = OpenSids(op[p], t)
  OBVIOUS
<1>3. CallBase(op[p], f, b, t) /\ Whole(f, whole, open)
  BY <1>1, <1>2, ViewFacts
<1>4. MemoSound(op[p], f)
  BY <1>3 DEF CallBase
<1>5. PICK m \in op[p].memo : m.obj = op[p].call /\ m = CHOOSE k \in op[p].memo : k.obj = op[p].call
  BY <1>1, <1>4 DEF MemoSound
<1>6. Saved(p) = m.sid
  BY <1>5 DEF Saved
<1>7. m.sid \in Mains(f) /\ m.sid[1] = Content[m.obj] /\ m.sid \in Sids(f)
  BY <1>4, <1>5 DEF MemoSound
<1>8. m.sid # None
  BY <1>3, <1>7, WholeDocs, NoneApart DEF DocFits
<1> QED BY <1>1, <1>5, <1>6, <1>7, <1>8 DEF At0

LEMMA LearnedSound ==
  ASSUME Inv, NEW p \in Stores, NEW found, NEW f, NEW g, Found(found, f),
         Sids(f) \subseteq Sids(g), Sids(db) \subseteq Sids(g), seen[p] = gen
  PROVE  Found(Learned(p, found), g)
<1>1. \A k \in known[p] : k.sid \in Sids(db) /\ k.sid[1] = Content[k.obj]
  BY DEF Inv, CachesSound
<1> QED BY <1>1 DEF Learned, Found

LEMMA CommitKeeps ==
  ASSUME Inv, NEW p \in Stores, Active(p), ~At0(op[p], {"claim", "insert"}), NEW f, f = View(p),
         NEW found, Found(found, f), NEW answers, Answered(answers, f),
         op' = [op EXCEPT ![p] = Idle], db' = Over(txn[p].writes, db), txn' = [txn EXCEPT ![p] = NoTxn],
         known' = [known EXCEPT ![p] = Learned(p, found)], returned' = returned \cup answers,
         UNCHANGED <<deployment, seen, gen, fsck>>
  PROVE  Inv'
<1>1. fsck = None /\ fsck' = None
  BY ViewFacts
<1>2. PICK t, c, x, h, g : /\ t = Transactional /\ c = Idle /\ x = NoTxn /\ g = Over(txn[p].writes, db)
                           /\ h = IF t THEN Over(x.writes, x.snapshot) ELSE db
  OBVIOUS
<1>3. /\ Whole(g, Kept, {}) /\ Grown(db, g) /\ Grown(f, g) /\ db' = g
      /\ t => \A q \in Stores \ {p} : Agrees(txn[q], g)
      /\ ~t => g = db
  BY <1>2, CommitSound
<1>4. Whole(db, Kept, {}) /\ Whole(f, Kept, OpenSids(op[p], Transactional))
  BY ViewFacts
<1>5. Keyed(f) /\ Keyed(db) /\ Keyed(g)
  BY <1>3, <1>4 DEF Whole
<1>6. /\ Sids(f) \subseteq Sids(g) /\ Mains(f) \subseteq Mains(g)
      /\ \A s : At(f, Route(s)) # None => At(g, Route(s)) = At(f, Route(s))
      /\ Sids(db) \subseteq Sids(g)
  BY <1>3, <1>5, GrownFacts
<1>7. Answered(answers, g)
  <2> SUFFICES ASSUME NEW a \in answers
               PROVE  /\ a.sid \in Mains(g) /\ a.sid[1] = Content[a.obj]
                      /\ a.sid[1] \in Entries => At(g, Route(a.sid[1])) = a.sid
    BY DEF Answered
  <2>1. /\ a.sid \in Mains(f) /\ a.sid \in Sids(f) /\ a.sid[1] = Content[a.obj]
        /\ a.sid[1] \in Entries => At(f, Route(a.sid[1])) = a.sid
    BY DEF Mains, Answered
  <2>2. a.sid # None
    BY <1>4, <2>1, WholeDocs, NoneApart DEF DocFits
  <2> QED BY <1>6, <2>1, <2>2
<1>9. PICK K, z : K = Learned(p, found) /\ z = seen[p]
  OBVIOUS
<1>10. z = gen => Found(K, g)
  <2> SUFFICES ASSUME z = gen PROVE Found(K, g)
    OBVIOUS
  <2>1. seen[p] = gen
    BY <1>9
  <2>2. Found(Learned(p, found), g)
    BY <1>6, <2>1, LearnedSound
  <2> QED BY <1>9, <2>2
<1>11. known' = [known EXCEPT ![p] = K] /\ seen' = [seen EXCEPT ![p] = z] /\ z \in {seen[p], gen}
  BY <1>9, CacheSound
<1>12. /\ ~x.open /\ DOMAIN x.writes = {}
       /\ x = [snapshot |-> x.snapshot, writes |-> x.writes, open |-> x.open, pending |-> x.pending, answers |-> x.answers]
  BY <1>2, NoTxnFields
<1>13. CallSound(c, h, x.snapshot, t) /\ ~At0(c, {"claim", "insert"}) /\ c.call = None
  BY <1>2, IdleSound
<1>14. op' = [op EXCEPT ![p] = c] /\ txn' = [txn EXCEPT ![p] = x] /\ UNCHANGED <<deployment, gen>>
  BY <1>2
<1>15. (t => h = Over(x.writes, x.snapshot)) /\ (~t => h = db) /\ t = Transactional
  BY <1>2
<1>16. /\ Whole(db', Kept, {}) /\ Grown(db, db') /\ (~t => db' = db)
       /\ t => \A q \in Stores \ {p} : Agrees(txn[q], db')
  BY <1>3
<1>17. returned' \subseteq returned \cup answers /\ Answered(answers, db')
  BY <1>3, <1>7
<1>18. z = gen => Found(K, db')
  BY <1>3, <1>10
<1>19. /\ t /\ (c.call # None \/ x.open) => TxnSound(x, c, db')
       /\ ~(t /\ (c.call # None \/ x.open)) => x = NoTxn
       /\ DOMAIN x.writes \subseteq DOMAIN txn[p].writes
  BY <1>2, <1>12, <1>13
<1> QED BY <1>1, <1>11, <1>12, <1>13, <1>14, <1>15, <1>16, <1>17, <1>18, <1>19, Ended

LEMMA CommitTransactionKeeps ==
  ASSUME Inv, NEW p \in Stores, CommitTransaction(p)
  PROVE  Inv'
<1>1. /\ Active(p) /\ txn[p].open /\ op[p].call = None
      /\ op' = op /\ db' = Over(txn[p].writes, db) /\ txn' = [txn EXCEPT ![p] = NoTxn]
      /\ known' = [known EXCEPT ![p] = Learned(p, txn[p].pending)] /\ returned' = returned \cup txn[p].answers
      /\ UNCHANGED <<deployment, seen, gen, fsck>>
  BY DEF CommitTransaction, Active
<1>2. PICK f, x : f = View(p) /\ x = txn[p]
  OBVIOUS
<1>3. Transactional
  <2>1. ~Transactional => x = NoTxn
    BY <1>2 DEF Inv, SavesSound
  <2> QED BY <1>1, <1>2, <2>1, NoTxnFields
<1>4. OpenSound(x, op[p], f)
  BY <1>1, <1>2, <1>3, ViewFacts
<1>5. op[p] = Idle /\ op = [q \in Stores |-> op[q]]
  BY <1>1 DEF Inv, SavesSound, CallSound, CallBase, TypeInv
<1>6. op' = [op EXCEPT ![p] = Idle] /\ ~At0(op[p], {"claim", "insert"})
  BY <1>1, <1>5, IdleSound
<1>7. /\ \A m \in x.pending : m.sid \in Sids(f) /\ m.sid[1] = Content[m.obj]
      /\ \A a \in x.answers : /\ a.sid \in Mains(f) /\ a.sid[1] = Content[a.obj]
                              /\ a.sid[1] \in Entries => At(f, Route(a.sid[1])) = a.sid
  BY <1>4 DEF OpenSound
<1>8. PICK found, answers : found = x.pending /\ answers = x.answers
  OBVIOUS
<1>9. /\ known' = [known EXCEPT ![p] = Learned(p, found)] /\ returned' = returned \cup answers
      /\ db' = Over(txn[p].writes, db) /\ txn' = [txn EXCEPT ![p] = NoTxn] /\ UNCHANGED <<deployment, seen, gen, fsck>>
  BY <1>1, <1>2, <1>8
<1>10. Found(found, f) /\ Answered(answers, f)
  BY <1>7, <1>8 DEF Found, Answered
<1> QED BY <1>1, <1>2, <1>6, <1>9, <1>10, CommitKeeps

LEMMA FinishKeeps ==
  ASSUME Inv, NEW p \in Stores, Finish(p)
  PROVE  Inv'
<1>1. PICK t, b, f, c, x, s : /\ t = Transactional /\ b = txn[p].snapshot /\ f = View(p) /\ c = op[p] /\ x = txn[p]
                              /\ s = Saved(p)
  OBVIOUS
<1>2. /\ InDispatch(p) /\ (s[1] \notin Entries \/ At(f, Route(s[1])) = s) /\ op' = [op EXCEPT ![p] = Idle]
      /\ c.frames = <<>> /\ c.call # None
  BY <1>1 DEF Finish, Dispatched, InDispatch
<1>3. /\ Active(p) /\ ~At0(op[p], {"claim", "insert"}) /\ s \in Mains(f) /\ s \in Sids(f) /\ s[1] = Content[c.call]
  BY <1>1, <1>2, SavedIs
<1>4. CallBase(c, f, b, t)
  BY <1>1, <1>3, ViewFacts
<1>5. PICK found, answers : found = c.memo /\ answers = {Answer(p)}
  OBVIOUS
<1>6. Found(found, f)
  BY <1>4, <1>5 DEF Found, CallBase, MemoSound
<1>7. Answered(answers, f)
  <2>1. PICK a : a = Answer(p)
    OBVIOUS
  <2>2. a.obj = c.call /\ a.sid = s
    BY <1>1, <2>1 DEF Answer
  <2> QED BY <1>2, <1>3, <1>5, <2>1, <2>2 DEF Answered
<1>8. CASE ~x.open
  <2>1. /\ db' = Over(txn[p].writes, db) /\ txn' = [txn EXCEPT ![p] = NoTxn]
        /\ known' = [known EXCEPT ![p] = Learned(p, found)] /\ returned' = returned \cup answers
        /\ UNCHANGED <<deployment, seen, gen, fsck>>
    BY <1>1, <1>5, <1>8 DEF Finish
  <2> QED BY <1>1, <1>2, <1>3, <1>6, <1>7, <2>1, CommitKeeps
<1>9. CASE x.open
  <2>1. /\ txn' = [txn EXCEPT ![p].pending = @ \cup op[p].memo, ![p].answers = @ \cup {Answer(p)}]
        /\ UNCHANGED <<db, known, returned>> /\ UNCHANGED <<deployment, seen, gen, fsck, used>>
    BY <1>1, <1>9 DEF Finish
  <2>2. t
    <3>1. ~t => x = NoTxn
      BY <1>1 DEF Inv, SavesSound
    <3> QED BY <1>9, <3>1, NoTxnFields
  <2>a. PICK m, n : m = x.pending \cup found /\ n = x.answers \cup answers
    OBVIOUS
  <2>3. PICK y : y = [x EXCEPT !.pending = m]
    OBVIOUS
  <2>4. PICK z : z = [y EXCEPT !.answers = n]
    OBVIOUS
  <2>5. x = [snapshot |-> b, writes |-> x.writes, open |-> x.open, pending |-> x.pending, answers |-> x.answers]
        /\ txn = [q \in Stores |-> txn[q]]
    BY <1>1 DEF Inv, TypeInv
  <2>6. y = [snapshot |-> b, writes |-> x.writes, open |-> x.open, pending |-> m, answers |-> x.answers]
    BY <2>3, <2>5
  <2>7. y.answers = x.answers
    BY <2>6
  <2>8. /\ z = [snapshot |-> z.snapshot, writes |-> z.writes, open |-> z.open, pending |-> z.pending, answers |-> z.answers]
        /\ z.snapshot = b /\ z.writes = x.writes /\ z.open = x.open /\ z.pending = m /\ z.answers = n
    <3>1. z = [snapshot |-> b, writes |-> x.writes, open |-> x.open, pending |-> m, answers |-> n]
      BY <2>4, <2>6
    <3> QED BY <3>1
  <2>9. txn' = [txn EXCEPT ![p] = z]
    <3>1. PICK u : u = [txn EXCEPT ![p] = y]
      OBVIOUS
    <3>2. u = [txn EXCEPT ![p].pending = @ \cup op[p].memo]
      BY <1>1, <1>5, <2>3, <2>a, <3>1
    <3>3. txn' = [u EXCEPT ![p].answers = @ \cup {Answer(p)}]
      BY <2>1, <3>2
    <3>4. u[p] = y /\ u = [q \in Stores |-> u[q]] /\ \A q \in Stores \ {p} : u[q] = txn[q]
      BY <2>5, <3>1
    <3>5. txn' = [u EXCEPT ![p] = z]
      BY <1>5, <2>4, <2>7, <2>a, <3>3, <3>4
    <3> QED BY <2>5, <3>4, <3>5
  <2>10. PICK i : i = Idle
    OBVIOUS
  <2>11. i.call = None /\ i.frames = <<>> /\ CallSound(i, f, z.snapshot, t) /\ ~At0(i, {"claim", "insert"})
    BY <2>10, IdleSound
  <2>12. /\ fsck = None /\ f = Over(x.writes, b) /\ Whole(db, Kept, {}) /\ Whole(f, Kept, OpenSids(c, t))
         /\ TxnSound(x, c, db) /\ OpenSound(x, c, f) /\ t \in BOOLEAN
    BY <1>1, <1>3, <2>2, ViewFacts
  <2>13. OpenSids(c, TRUE) = {} /\ OpenSids(i, TRUE) = {}
    BY <1>1, <1>3, <2>11, Unheld
  <2>14. TxnSound(z, i, db)
    <3>1. OpenSound(z, i, f)
      BY <1>6, <1>7, <2>8, <2>11, <2>12, <2>a DEF OpenSound, Found, Answered
    <3>2. Agrees(z, db)
      BY <2>8, <2>12, <1>1 DEF TxnSound, Agrees
    <3> QED BY <1>1, <2>8, <2>12, <2>13, <3>1, <3>2 DEF TxnSound
  <2>15. known' = [known EXCEPT ![p] = known[p]] /\ seen' = [seen EXCEPT ![p] = seen[p]]
         /\ (seen[p] = gen => \A k \in known[p] : k.sid \in Sids(db') /\ k.sid[1] = Content[k.obj])
    BY <2>1, CacheSound
  <2>16. Grown(db, db') /\ Whole(db', Kept, {}) /\ fsck' = None /\ db' = db
    BY <2>1, <2>12, GrownSame
  <2>17. t => \A q \in Stores \ {p} : Agrees(txn[q], db')
    BY <1>1, <2>16, AllAgree
  <2>18. op' = [op EXCEPT ![p] = i] /\ seen[p] \in {seen[p], gen} /\ UNCHANGED <<deployment, gen, returned>>
    BY <1>2, <2>1, <2>10
  <2>19. /\ t /\ (i.call # None \/ z.open) => TxnSound(z, i, db')
         /\ ~(t /\ (i.call # None \/ z.open)) => z = NoTxn
         /\ DOMAIN z.writes \subseteq DOMAIN txn[p].writes
         /\ t => f = Over(z.writes, z.snapshot)
         /\ ~t => f = db
         /\ ~t => db' = db
    BY <1>1, <1>9, <2>2, <2>8, <2>12, <2>14, <2>16
  <2>20. z = [snapshot |-> z.snapshot, writes |-> z.writes, open |-> z.open, pending |-> z.pending, answers |-> z.answers]
    BY <2>8
  <2> QED BY <1>1, <2>9, <2>11, <2>12, <2>15, <2>16, <2>17, <2>18, <2>19, <2>20, Turned
<1> QED BY <1>8, <1>9

\* A step that gives a stored document to the frame below, once the view is g.
LEMMA GivenSound ==
  ASSUME NEW c, NEW f, NEW b, NEW t, NEW whole, NEW open, CallBase(c, f, b, t), c.frames # <<>>,
         Whole(f, whole, open), NEW s \in Sids(f), s[1] = Content[TopOf(c).obj], TopOf(c).top => s \in Mains(f),
         NEW e, e = HandDown(c, s)
  PROVE  /\ CallSound(e, f, b, t) /\ e.call = c.call /\ e.call # None /\ e.inserted = c.inserted
         /\ ~At0(e, {"claim", "insert"}) /\ Held(e) = {} /\ OpenSids(e, t) = {}
<1>1. s \in Sid
  BY WholeDocs DEF DocFits
<1>2. Len(c.frames) = 1 => s \in Mains(f)
  BY FramesOfCall
<1>3. CallSound(e, f, b, t) /\ e.call = c.call /\ e.inserted = c.inserted /\ ~At0(e, {"claim", "insert"})
  BY <1>1, <1>2, PoppableSave, HandDownSound
<1>4. c.call # None
  BY FramesOfCall
<1> QED BY <1>3, <1>4, Unheld

LEMMA FindKeeps ==
  ASSUME Inv, NEW p \in Stores, Find(p)
  PROVE  Inv'
<1>1. PICK t, b, f, c, y, o, mine, hit :
        /\ t = Transactional /\ b = txn[p].snapshot /\ f = View(p) /\ c = op[p] /\ y = TopOf(c) /\ o = y.obj
        /\ mine = {m \in c.memo : m.obj = o}
        /\ hit = IF Policy[Content[o]] = "content_id" THEN At(f, Index(Content[o])) ELSE None
  OBVIOUS
<1>2. Top(p) = y /\ c.frames # <<>> /\ y.stage = "find" /\ ~At0(c, {"claim", "insert"})
  BY <1>1 DEF Find, In, Top, TopOf, At0
<1>3. op[p].call # None /\ Active(p)
  <2>1. CallBase(op[p], View(p), txn[p].snapshot, Transactional)
    BY DEF Inv, SavesSound, CallSound
  <2>2. op[p].call # None
    BY <1>1, <1>2, <2>1, FramesOfCall
  <2> QED BY <2>2 DEF Active
<1>4. /\ t \in BOOLEAN /\ fsck = None /\ (~t => f = db) /\ Whole(f, Kept, OpenSids(c, t))
      /\ CallSound(c, f, b, t) /\ CallBase(c, f, b, t) /\ c \in CallType
      /\ t => OpenSound(txn[p], c, f)
  BY <1>1, <1>3, ViewFacts
<1>5. OpenSids(c, t) = {} /\ Whole(f, Kept, {}) /\ Keyed(f)
  <2>1. OpenSids(c, t) = {}
    BY <1>2, Unheld
  <2> QED BY <1>4, <2>1 DEF Whole
<1>6. y \in FrameType /\ o \in Objects /\ Content[o] \in Collections
  BY <1>1, <1>2, <1>4, CallFields, FrameFields, Constants
<1>7. CASE mine # {}
  <2>1. PICK m \in mine : m = CHOOSE k \in mine : TRUE
    BY <1>7
  <2>2. op' = [op EXCEPT ![p] = HandDown(c, m.sid)] /\ UNCHANGED <<deployment, db, txn>> /\ Settled
    BY <1>1, <1>2, <1>7, <2>1 DEF Find, Give, Given
  <2>3. m.sid \in Sids(f) /\ m.sid[1] = Content[o] /\ m.obj = o /\ Rank[Content[o]] < Rank[Content[c.call]]
    BY <1>1, <1>2, <1>4, <2>1 DEF CallBase, MemoSound
  <2>4. ~y.top
    <3>1. Rank[Content[o]] \in Nat
      BY <1>6, Constants
    <3>2. c.frames[1].obj = c.call /\ (y.top = (Len(c.frames) = 1)) /\ y = c.frames[Len(c.frames)]
      BY <1>1, <1>2, <1>4, FramesOfCall DEF TopOf
    <3>3. y.top => o = c.call
      BY <1>1, <3>2
    <3> QED BY <2>3, <3>1, <3>3
  <2>5. PICK e : e = HandDown(c, m.sid)
    OBVIOUS
  <2>6. /\ CallSound(e, f, b, t) /\ e.call # None /\ e.inserted = c.inserted
        /\ Held(e) = {} /\ OpenSids(e, t) = {}
    BY <1>1, <1>2, <1>4, <2>3, <2>4, <2>5, GivenSound
  <2>7. t => OpenSound(txn[p], e, f)
    <3>1. SinceMark(e, 0) = SinceMark(c, 0)
      BY <2>6 DEF SinceMark
    <3> QED BY <1>2, <1>4, <1>5, <3>1, GrownSame, OpenKept
  <2>8. Whole(f, Kept, OpenSids(e, t)) /\ (~t => \A q \in Stores \ {p} : Held(op[q]) \cap Held(e) = {})
    BY <1>5, <2>6
  <2>9. /\ t = Transactional /\ b = txn[p].snapshot /\ f = View(p) /\ op' = [op EXCEPT ![p] = e]
        /\ UNCHANGED <<deployment, db, txn>> /\ UNCHANGED <<known, seen, gen, fsck, returned>>
    BY <1>1, <2>2, <2>5 DEF Settled
  <2> QED BY <1>3, <2>6, <2>7, <2>8, <2>9, Moved
<1>8. CASE mine = {} /\ hit = None
  <2>1. PICK n : n = Len(c.frames)
    OBVIOUS
  <2>2. PICK x : x = [y EXCEPT !.stage = "refs"]
    OBVIOUS
  <2>3. PICK d : d = [c EXCEPT !.frames[n] = x]
    OBVIOUS
  <2>4. /\ op' = [op EXCEPT ![p] = Descended([op[p] EXCEPT !.frames[Len(op[p].frames)].stage = "refs"])]
        /\ UNCHANGED <<deployment, db, txn>> /\ Settled
    BY <1>1, <1>2, <1>8 DEF Find
  <2>5. d = [c EXCEPT !.frames[Len(c.frames)].stage = "refs"]
    BY <1>1, <2>1, <2>2, <2>3 DEF TopOf
  <2>6. /\ x \in FrameType /\ x.obj = y.obj /\ x.top = y.top /\ x.todo = y.todo /\ x.got = y.got /\ x.mark = y.mark
        /\ x.stage = "refs"
    BY <1>6, <2>2 DEF FrameType, Stages
  <2>7. CallBase(d, f, b, t) /\ d.call = c.call /\ d.inserted = c.inserted /\ d.frames # <<>> /\ TopOf(d) = x
    BY <1>1, <1>2, <1>4, <2>1, <2>3, <2>6, TopSet
  <2>8. ~At0(d, {"claim", "insert"})
    BY <2>6, <2>7 DEF At0
  <2>9. PICK e : e = Descended(d)
    OBVIOUS
  <2>10. CallSound(e, f, b, t) /\ e.call = d.call /\ e.inserted = d.inserted /\ ~At0(e, {"claim", "insert"})
    BY <2>7, <2>8, <2>9, DescendedSound
  <2>11. Held(e) = {} /\ OpenSids(e, t) = {} /\ op' = [op EXCEPT ![p] = e] /\ e.call # None
    BY <1>1, <1>3, <2>4, <2>5, <2>7, <2>9, <2>10, Unheld
  <2>12. t => OpenSound(txn[p], e, f)
    <3>1. SinceMark(e, 0) = SinceMark(c, 0)
      BY <2>7, <2>10 DEF SinceMark
    <3> QED BY <1>2, <1>4, <1>5, <3>1, GrownSame, OpenKept
  <2>13. Whole(f, Kept, OpenSids(e, t)) /\ (~t => \A q \in Stores \ {p} : Held(op[q]) \cap Held(e) = {})
    BY <1>5, <2>11
  <2>14. /\ t = Transactional /\ b = txn[p].snapshot /\ f = View(p)
         /\ UNCHANGED <<deployment, db, txn>> /\ UNCHANGED <<known, seen, gen, fsck, returned>>
    BY <1>1, <2>4 DEF Settled
  <2> QED BY <1>3, <2>10, <2>11, <2>12, <2>13, <2>14, Moved
<1>9. CASE mine = {} /\ hit # None /\ \E k \in DOMAIN Adoption(p, hit) : Conflict(p, k)
  <2>1. Transactional /\ Retry(p)
    BY <1>1, <1>2, <1>9 DEF Find, Conflict
  <2> QED BY <1>3, <2>1, RetryKeeps
<1>10. CASE mine = {} /\ hit # None /\ ~\E k \in DOMAIN Adoption(p, hit) : Conflict(p, k)
  <2>1. /\ op' = [op EXCEPT ![p] = HandDown(c, hit)] /\ Write(p, Adoption(p, hit)) /\ UNCHANGED deployment /\ Settled
    BY <1>1, <1>2, <1>10 DEF Find
  <2>2. hit \in Sids(f) /\ hit[1] = Content[o]
    BY <1>1, <1>5, <1>10, WholeKeys
  <2>3. PICK v, g : v = Adoption(p, hit) /\ g = Over(v, f)
    OBVIOUS
  <2>4. /\ Whole(g, Kept, {}) /\ Grown(f, g) /\ Sids(g) = Sids(f) /\ (y.top => hit \in Mains(g))
        /\ \A k : k[1] # "doc" => At(g, k) = At(f, k)
    BY <1>1, <1>2, <1>5, <2>2, <2>3, AdoptionIs
  <2>5. Keyed(g) /\ \A k : k[1] = "dispatch" => At(g, k) = At(f, k)
    BY <2>4 DEF Whole
  <2>6. CallBase(c, g, b, t)
    BY <1>4, <1>5, <2>4, <2>5, BaseKept
  <2>7. PICK e : e = HandDown(c, hit)
    OBVIOUS
  <2>8. /\ CallSound(e, g, b, t) /\ e.call # None /\ e.inserted = c.inserted
        /\ Held(e) = {} /\ OpenSids(e, t) = {}
    BY SMTT(20), <1>1, <1>2, <2>2, <2>4, <2>6, <2>7, GivenSound
  <2>9. t => OpenSound(txn[p], e, g)
    <3>1. SinceMark(e, 0) = SinceMark(c, 0)
      BY <2>8 DEF SinceMark
    <3> QED BY <1>2, <1>4, <1>5, <2>4, <2>5, <3>1, OpenKept
  <2>10. \A k \in DOMAIN v : ~Conflict(p, k)
    BY <1>10, <2>3
  <2>11. ~t => \A q \in Stores \ {p} : Held(op[q]) \cap Held(e) = {} /\ Held(op[q]) \cap Sids(g) \subseteq Sids(db)
    BY <1>4, <2>4, <2>8
  <2>12. Whole(g, Kept, OpenSids(e, t)) /\ Grown(f, g)
    BY <2>4, <2>8
  <2>13. /\ t = Transactional /\ b = txn[p].snapshot /\ f = View(p) /\ op' = [op EXCEPT ![p] = e] /\ g = Over(v, f)
         /\ UNCHANGED <<deployment, known, seen, gen, fsck, returned>> /\ Write(p, v)
    BY <1>1, <2>1, <2>3, <2>7 DEF Settled
  <2> QED BY <1>3, <2>8, <2>9, <2>10, <2>11, <2>12, <2>13, Wrote
<1> QED BY <1>7, <1>8, <1>9, <1>10

\* What a step on top of a save's frames starts from.
LEMMA OnTop ==
  ASSUME Inv, NEW p \in Stores, NEW stage, In(p, stage), NEW t, t = Transactional, NEW b, b = txn[p].snapshot,
         NEW f, f = View(p), NEW c, c = op[p], NEW y, y = TopOf(c)
  PROVE  /\ Top(p) = y /\ c.frames # <<>> /\ y.stage = stage /\ op[p].call # None /\ Active(p)
         /\ t \in BOOLEAN /\ fsck = None /\ (~t => f = db) /\ Whole(f, Kept, OpenSids(c, t)) /\ Keyed(f)
         /\ CallSound(c, f, b, t) /\ CallBase(c, f, b, t) /\ c \in CallType
         /\ (t => OpenSound(txn[p], c, f) /\ Grown(b, f) /\ Keyed(b) /\ InsertedSound(c, f, b))
         /\ y \in FrameType /\ y.obj \in Objects /\ Content[y.obj] \in Collections
<1>1. Top(p) = y /\ c.frames # <<>> /\ y.stage = stage
  BY DEF In, Top, TopOf
<1>2. op[p].call # None /\ Active(p)
  <2>1. CallBase(op[p], View(p), txn[p].snapshot, Transactional)
    BY DEF Inv, SavesSound, CallSound
  <2>2. op[p].call # None
    BY <1>1, <2>1, FramesOfCall
  <2> QED BY <2>2 DEF Active
<1>3. /\ t \in BOOLEAN /\ fsck = None /\ (~t => f = db) /\ Whole(f, Kept, OpenSids(c, t))
      /\ CallSound(c, f, b, t) /\ CallBase(c, f, b, t) /\ c \in CallType
      /\ t => OpenSound(txn[p], c, f) /\ Grown(b, f) /\ Whole(b, Kept, {})
  BY <1>2, ViewFacts
<1>4. Keyed(f) /\ (t => Keyed(b) /\ InsertedSound(c, f, b))
  BY <1>1, <1>3 DEF Whole, CallBase
<1>5. y \in FrameType /\ y.obj \in Objects /\ Content[y.obj] \in Collections
  BY <1>1, <1>3, CallFields, FrameFields, Constants
<1> QED BY <1>1, <1>2, <1>3, <1>4, <1>5

LEMMA NumberKeeps ==
  ASSUME Inv, NEW p \in Stores, Number(p)
  PROVE  Inv'
<1>1. PICK t, b, f, c, y, o, m, n, s :
        /\ t = Transactional /\ b = txn[p].snapshot /\ f = View(p) /\ c = op[p] /\ y = TopOf(c) /\ o = y.obj
        /\ m = Content[o] /\ n = (IF At(f, Counter(m)) = None THEN 1 ELSE At(f, Counter(m)) + 1) /\ s = <<m, n>>
  OBVIOUS
<1>2. In(p, "refs")
  BY DEF Number
<1>3. /\ Top(p) = y /\ c.frames # <<>> /\ y.stage = "refs" /\ op[p].call # None /\ Active(p)
      /\ t \in BOOLEAN /\ fsck = None /\ (~t => f = db) /\ Whole(f, Kept, OpenSids(c, t)) /\ Keyed(f)
      /\ CallSound(c, f, b, t) /\ CallBase(c, f, b, t) /\ c \in CallType
      /\ (t => OpenSound(txn[p], c, f) /\ Grown(b, f) /\ Keyed(b))
      /\ y \in FrameType /\ y.obj \in Objects /\ m \in Collections
  BY <1>1, <1>2, OnTop
<1>4. ~At0(c, {"claim", "insert"})
  BY <1>1, <1>3 DEF At0
<1>5. OpenSids(c, t) = {} /\ Whole(f, Kept, {})
  BY <1>3, <1>4, Unheld
<1>6. CASE Conflict(p, Counter(m))
  <2>1. Transactional /\ Retry(p)
    BY <1>1, <1>3, <1>6 DEF Number, Conflict
  <2> QED BY <1>3, <2>1, RetryKeeps
<1>7. CASE ~Conflict(p, Counter(m)) /\ IdTaken(p, o)
  <2>1. Raise(p)
    BY <1>1, <1>3, <1>7 DEF Number
  <2> QED BY <1>1, <1>3, <1>4, <2>1, RaiseKeeps
<1>8. CASE ~Conflict(p, Counter(m)) /\ ~IdTaken(p, o)
  <2>1. PICK st : st = IF Transactional THEN "insert" ELSE "claim"
    OBVIOUS
  <2>2. PICK x : x = [y EXCEPT !.sid = s, !.stage = st]
    OBVIOUS
  <2>3. PICK k : k = Len(c.frames)
    OBVIOUS
  <2>4. PICK e : e = [c EXCEPT !.frames[k] = x]
    OBVIOUS
  <2>5. PICK v, g : v = Put(Counter(m), n) /\ g = Over(v, f)
    OBVIOUS
  <2>6. s[2] = n /\ s[1] = m
    BY <1>1
  <2>7. Write(p, v) /\ UNCHANGED deployment /\ Settled /\ op' = [op EXCEPT ![p] = e]
    <3>1. /\ Write(p, Put(Counter(m), s[2])) /\ op' = At_(p, [Top(p) EXCEPT !.sid = s, !.stage = st])
          /\ UNCHANGED deployment /\ Settled
      BY <1>1, <1>3, <1>8, <2>1 DEF Number
    <3>2. op' = [op EXCEPT ![p].frames[k] = x]
      BY <1>1, <1>3, <2>2, <2>3, <3>1 DEF At_
    <3>3. op' = [op EXCEPT ![p] = e]
      BY <1>1, <2>4, <3>2
    <3> QED BY <2>5, <2>6, <3>1, <3>3
  <2>8. /\ Whole(g, Kept, {}) /\ Grown(f, g) /\ Sids(g) = Sids(f)
        /\ s \in Sid /\ Numbered(g, s) /\ ~Numbered(f, s)
        /\ \A q : q[1] # "counter" => At(g, q) = At(f, q)
    <3>1. /\ Whole(g, Kept, {}) /\ Grown(f, g) /\ Sids(g) = Sids(f)
          /\ <<m, n>> \in Sid /\ Numbered(g, <<m, n>>) /\ ~Numbered(f, <<m, n>>)
          /\ \A q : q[1] # "counter" => At(g, q) = At(f, q)
      BY <1>1, <1>3, <1>5, <2>5, CountedWhole
    <3> QED BY <1>1, <3>1
  <2>9. Keyed(g) /\ \A q : q[1] = "dispatch" => At(g, q) = At(f, q)
    BY <2>8 DEF Whole
  <2>10. CallBase(c, g, b, t)
    BY <1>3, <2>8, <2>9, BaseKept
  <2>11. /\ x \in FrameType /\ x.obj = y.obj /\ x.top = y.top /\ x.todo = y.todo /\ x.got = y.got /\ x.mark = y.mark
         /\ x.stage = st /\ x.sid = s
    <3>1. PICK z : z = [y EXCEPT !.sid = s]
      OBVIOUS
    <3>2. x = [z EXCEPT !.stage = st]
      BY <2>2, <3>1
    <3>3. y = [obj |-> y.obj, top |-> y.top, stage |-> y.stage, todo |-> y.todo, got |-> y.got,
               compared |-> y.compared, sid |-> y.sid, mark |-> y.mark]
      BY <1>3 DEF FrameType
    <3>4. z = [obj |-> y.obj, top |-> y.top, stage |-> y.stage, todo |-> y.todo, got |-> y.got,
               compared |-> y.compared, sid |-> s, mark |-> y.mark]
      BY <3>1, <3>3
    <3>5. x = [obj |-> y.obj, top |-> y.top, stage |-> st, todo |-> y.todo, got |-> y.got,
               compared |-> y.compared, sid |-> s, mark |-> y.mark]
      BY <3>2, <3>4
    <3>6. st \in Stages /\ s \in Sid \cup {None}
      BY <2>1, <2>8 DEF Stages
    <3>7. x \in FrameType
      BY <1>3, <3>5, <3>6 DEF FrameType
    <3> QED BY <3>5, <3>7
  <2>12. /\ CallBase(e, g, b, t) /\ e.call = c.call /\ e.inserted = c.inserted /\ e.frames # <<>> /\ TopOf(e) = x
    BY SMTT(20), <1>1, <1>3, <2>3, <2>4, <2>10, <2>11, TopSet
  <2>13. s \notin Sids(g)
    BY <1>5, <2>8, NumbersAfter
  <2>14. t => ~Numbered(b, s)
    BY <1>3, <2>8, GrownFacts
  <2>15. HeldSound(e, g, b, t)
    <3>1. s[1] = Content[x.obj]
      BY <1>1, <2>6, <2>11
    <3>2. (t => st = "insert") /\ (~t => st = "claim")
      BY <1>1, <2>1
    <3> QED BY <2>8, <2>11, <2>12, <2>13, <2>14, <3>1, <3>2 DEF HeldSound
  <2>16. OpenSids(e, t) = {}
    BY <1>1, <2>1, <2>11, <2>12 DEF OpenSids, At0
  <2>17. t => OpenSound(txn[p], e, g)
    <3>1. SinceMark(e, 0) = SinceMark(c, 0)
      BY <2>12 DEF SinceMark
    <3> QED BY <1>3, <1>5, <2>8, <2>9, <3>1, OpenKept
  <2>18. ASSUME ~t, NEW q \in Stores \ {p}
         PROVE  Held(op[q]) \cap Held(e) = {} /\ Held(op[q]) \cap Sids(g) \subseteq Sids(db)
    <3>1. Held(e) \subseteq {s}
      BY <2>11, <2>12 DEF Held
    <3>2. s \notin Held(op[q])
      <4>1. HeldSound(op[q], View(q), txn[q].snapshot, Transactional) /\ View(q) = f
        BY <1>1, <1>3, <2>18 DEF Inv, SavesSound, CallSound, View
      <4>2. \A z \in Held(op[q]) : Numbered(f, z)
        BY <4>1 DEF Held, HeldSound
      <4> QED BY <2>8, <4>2
    <3> QED BY <1>3, <2>8, <2>18, <3>1, <3>2
  <2>19. \A q \in DOMAIN v : ~Conflict(p, q)
    BY <1>8, <2>5, PutAt
  <2>20. /\ t = Transactional /\ b = txn[p].snapshot /\ f = View(p) /\ op' = [op EXCEPT ![p] = e] /\ g = Over(v, f)
         /\ UNCHANGED <<deployment, known, seen, gen, fsck, returned>> /\ Write(p, v)
    BY <1>1, <2>5, <2>7 DEF Settled
  <2>21. CallSound(e, g, b, t) /\ Whole(g, Kept, OpenSids(e, t)) /\ Grown(f, g) /\ e.call # None
    BY <1>1, <1>3, <2>8, <2>12, <2>15, <2>16 DEF CallSound
  <2> QED BY <1>3, <2>17, <2>18, <2>19, <2>20, <2>21, Wrote
<1> QED BY <1>6, <1>7, <1>8

\* A document that has its claims is no longer open.
LEMMA ClosedWhole ==
  ASSUME NEW f, NEW whole, NEW open, Whole(f, whole, open),
         \A s \in open : s \in Sids(f) => \A k \in Claims(At(f, Doc(s)).obj, s) : At(f, k) = s
  PROVE  Whole(f, whole, {})
<1> SUFFICES ASSUME NEW k \in DOMAIN f, f[k] # None PROVE Fits(k, f[k], f, whole, {})
  BY DEF Whole
<1>1. Fits(k, f[k], f, whole, open) /\ IsKey(k) /\ Keyed(f)
  BY DEF Whole, Keyed
<1>2. ASSUME k[1] = "doc" PROVE DocFits(k[2], f[k], f, whole, {})
  <2>1. k = Doc(k[2]) /\ At(f, k) = f[k]
    BY <1>1, <1>2, KeyKinds DEF At
  <2>2. k[2] \in Sids(f)
    BY <1>1, <2>1, SidsAt
  <2>3. DocFits(k[2], f[k], f, whole, open)
    BY <1>1, <1>2 DEF Fits
  <2>4. \A q \in Claims(f[k].obj, k[2]) : At(f, q) = k[2]
    BY <2>1, <2>2, <2>3 DEF DocFits
  <2> QED BY <2>3, <2>4 DEF DocFits
<1> QED BY <1>1, <1>2 DEF Fits

LEMMA ClaimIdentityKeeps ==
  ASSUME Inv, NEW p \in Stores, ClaimIdentity(p)
  PROVE  Inv'
<1>1. PICK t, b, f, c, y, o, s :
        /\ t = Transactional /\ b = txn[p].snapshot /\ f = View(p) /\ c = op[p] /\ y = TopOf(c) /\ o = y.obj /\ s = y.sid
  OBVIOUS
<1>2. In(p, "claim")
  BY DEF ClaimIdentity
<1>3. /\ Top(p) = y /\ c.frames # <<>> /\ y.stage = "claim" /\ op[p].call # None /\ Active(p)
      /\ t \in BOOLEAN /\ fsck = None /\ (~t => f = db) /\ Whole(f, Kept, OpenSids(c, t)) /\ Keyed(f)
      /\ CallSound(c, f, b, t) /\ CallBase(c, f, b, t) /\ c \in CallType
      /\ (t => OpenSound(txn[p], c, f) /\ Grown(b, f) /\ Keyed(b))
      /\ y \in FrameType /\ y.obj \in Objects
  BY <1>1, <1>2, OnTop
<1>4. At0(c, {"claim", "insert"}) /\ At0(c, {"claim"}) /\ Held(c) = {s} /\ OpenSids(c, t) \subseteq {s}
  BY <1>1, <1>3 DEF At0, Held, OpenSids
<1>5. /\ s \in Sid /\ s # None /\ s[1] = Content[o] /\ Numbered(f, s)
      /\ t => /\ s \in Sids(f) /\ At(f, Doc(s)).obj = o /\ (y.top => s \in Mains(f))
              /\ y.mark < Len(c.inserted) /\ c.inserted[Len(c.inserted)] = s
      /\ ~t => s \notin Sids(f)
  BY <1>1, <1>3, <1>4, NoneApart DEF CallSound, HeldSound
<1>6. Wanting(p) = ClaimsOf(o, s) /\ Unclaimed(p) = {i \in DOMAIN ClaimsOf(o, s) : At(f, ClaimsOf(o, s)[i]) # s}
  BY <1>1, <1>3 DEF Wanting, Unclaimed
<1>7. ASSUME Unclaimed(p) = {} PROVE \A k \in Claims(o, s) : At(f, k) = s
  BY <1>6, <1>7 DEF Claims
<1>8. CASE Unclaimed(p) = {} /\ t
  <2>1. op' = [op EXCEPT ![p] = HandDown(c, s)] /\ UNCHANGED <<deployment, db, txn>> /\ Settled
    BY <1>1, <1>3, <1>8 DEF ClaimIdentity, Give, Given
  <2>2. Whole(f, Kept, {})
    <3>1. \A z \in OpenSids(c, t) : z \in Sids(f) => \A k \in Claims(At(f, Doc(z)).obj, z) : At(f, k) = z
      BY <1>4, <1>5, <1>7, <1>8
    <3> QED BY <1>3, <3>1, ClosedWhole
  <2>3. PICK e : e = HandDown(c, s)
    OBVIOUS
  <2>4. s \in Sids(f) /\ s[1] = Content[TopOf(c).obj] /\ (TopOf(c).top => s \in Mains(f))
    BY <1>1, <1>5, <1>8
  <2>5. /\ CallSound(e, f, b, t) /\ e.call # None /\ e.inserted = c.inserted
        /\ Held(e) = {} /\ OpenSids(e, t) = {}
    BY <1>3, <2>2, <2>3, <2>4, GivenSound
  <2>6. t => OpenSound(txn[p], e, f)
    <3>1. SinceMark(e, 0) = SinceMark(c, 0)
      BY <2>5 DEF SinceMark
    <3> QED BY <1>3, <2>2, <3>1, GrownSame, OpenKept
  <2>7. Whole(f, Kept, OpenSids(e, t)) /\ (~t => \A q \in Stores \ {p} : Held(op[q]) \cap Held(e) = {})
    BY <2>2, <2>5
  <2>8. /\ t = Transactional /\ b = txn[p].snapshot /\ f = View(p) /\ op' = [op EXCEPT ![p] = e]
        /\ UNCHANGED <<deployment, db, txn>> /\ UNCHANGED <<known, seen, gen, fsck, returned>>
    BY <1>1, <2>1, <2>3 DEF Settled
  <2> QED BY <1>3, <2>5, <2>6, <2>7, <2>8, Moved
<1>9. CASE Unclaimed(p) = {} /\ ~t
  <2>1. PICK x : x = [y EXCEPT !.stage = "insert"]
    OBVIOUS
  <2>2. PICK k : k = Len(c.frames)
    OBVIOUS
  <2>3. PICK e : e = [c EXCEPT !.frames[k] = x]
    OBVIOUS
  <2>4. op' = [op EXCEPT ![p] = e] /\ UNCHANGED <<deployment, db, txn>> /\ Settled
    <3>1. op' = At_(p, [Top(p) EXCEPT !.stage = "insert"]) /\ UNCHANGED <<deployment, db, txn>> /\ Settled
      BY <1>1, <1>9 DEF ClaimIdentity
    <3>2. op' = [op EXCEPT ![p].frames[k] = x]
      BY <1>1, <1>3, <2>1, <2>2, <3>1 DEF At_
    <3> QED BY <1>1, <2>3, <3>1, <3>2
  <2>5. /\ x \in FrameType /\ x.obj = y.obj /\ x.top = y.top /\ x.todo = y.todo /\ x.got = y.got /\ x.mark = y.mark
        /\ x.stage = "insert" /\ x.sid = y.sid
    BY <1>3, <2>1 DEF FrameType, Stages
  <2>6. /\ CallBase(e, f, b, t) /\ e.call = c.call /\ e.frames # <<>> /\ TopOf(e) = x
    BY <1>1, <1>3, <1>9, <2>2, <2>3, <2>5, TopSet
  <2>7. HeldSound(e, f, b, t)
    <3>1. \A q \in Claims(x.obj, x.sid) : At(f, q) = x.sid
      BY <1>1, <1>7, <1>9, <2>5
    <3>2. x.sid = s /\ x.obj = o
      BY <1>1, <2>5
    <3> QED BY <1>5, <1>9, <2>5, <2>6, <3>1, <3>2 DEF HeldSound
  <2>8. Held(e) \subseteq Held(c) /\ OpenSids(e, t) = {} /\ OpenSids(c, t) = {}
    BY <1>1, <1>4, <1>9, <2>5, <2>6 DEF Held, OpenSids
  <2>9. ASSUME NEW q \in Stores \ {p}, ~t PROVE Held(op[q]) \cap Held(e) = {}
    <3>1. Held(op[q]) \cap Held(c) = {}
      BY <1>1, <2>9 DEF Inv, SavesSound
    <3> QED BY <2>8, <3>1
  <2>10. CallSound(e, f, b, t) /\ Whole(f, Kept, OpenSids(e, t)) /\ e.call # None
    BY <1>1, <1>3, <2>6, <2>7, <2>8 DEF CallSound
  <2>11. /\ t = Transactional /\ b = txn[p].snapshot /\ f = View(p) /\ op' = [op EXCEPT ![p] = e]
         /\ UNCHANGED <<deployment, db, txn>> /\ UNCHANGED <<known, seen, gen, fsck, returned>>
    BY <1>1, <2>4 DEF Settled
  <2>12. t => OpenSound(txn[p], e, f)
    BY <1>9
  <2> QED BY <1>3, <2>9, <2>10, <2>11, <2>12, Moved
<1>10. CASE Unclaimed(p) # {}
  <2>1. PICK i : i = CHOOSE j \in Unclaimed(p) : \A z \in Unclaimed(p) : j <= z
    OBVIOUS
  <2>2. i \in Unclaimed(p)
    <3>1. DOMAIN ClaimsOf(o, s) \subseteq {1, 2}
      BY DEF ClaimsOf
    <3>2. Unclaimed(p) \subseteq {1, 2}
      BY <1>6, <3>1
    <3>3. \E j \in Unclaimed(p) : \A z \in Unclaimed(p) : j <= z
      BY <1>10, <3>2
    <3> QED BY <2>1, <3>3
  <2>3. PICK k : k = Wanting(p)[i]
    OBVIOUS
  <2>4. k \in Claims(o, s) /\ At(f, k) # s
    BY <1>6, <2>2, <2>3 DEF Claims
  <2>5. IsKey(k) /\ k[1] = "claim"
    BY <2>4, ClaimsAre
  <2>6. CASE Conflict(p, k)
    <3>1. Transactional /\ Retry(p)
      BY <1>10, <2>1, <2>3, <2>6 DEF ClaimIdentity, Conflict
    <3> QED BY <1>3, <3>1, RetryKeeps
  <2>7. CASE ~Conflict(p, k) /\ At(f, k) # None
    <3>1. Leave(p)
      BY <1>1, <1>10, <2>1, <2>3, <2>7 DEF ClaimIdentity
    <3> QED BY <1>3, <3>1, LeaveKeeps
  <2>8. CASE ~Conflict(p, k) /\ At(f, k) = None
    <3>1. PICK v, g : v = Put(k, s) /\ g = Over(v, f)
      OBVIOUS
    <3>2. Write(p, v) /\ UNCHANGED <<deployment, op>> /\ Settled
      BY <1>1, <1>3, <1>10, <2>1, <2>3, <2>8, <3>1 DEF ClaimIdentity
    <3>3. /\ Whole(g, Kept, OpenSids(c, t)) /\ Grown(f, g) /\ Sids(g) = Sids(f) /\ \A q : q # k => At(g, q) = At(f, q)
      BY <1>3, <1>5, <2>5, <2>8, <3>1, ClaimedWhole
    <3>4. Keyed(g) /\ \A q : q[1] = "dispatch" => At(g, q) = At(f, q)
      BY <2>5, <3>3 DEF Whole
    <3>5. CallBase(c, g, b, t)
      BY <1>3, <3>3, <3>4, BaseKept
    <3>6. HeldSound(c, g, b, t)
      <4>1. HeldSound(c, f, b, t) /\ Held(c) \cap Sids(g) \subseteq Sids(f)
        BY <1>3, <3>3 DEF CallSound
      <4> QED BY <1>3, <3>3, <3>4, <4>1, HeldKept
    <3>7. t => OpenSound(txn[p], c, g)
      BY <1>3, <3>3, <3>4, OpenKept
    <3>8. ~t => \A q \in Stores \ {p} : Held(op[q]) \cap Held(c) = {} /\ Held(op[q]) \cap Sids(g) \subseteq Sids(db)
      BY <1>1, <1>3, <3>3 DEF Inv, SavesSound
    <3>9. \A q \in DOMAIN v : ~Conflict(p, q)
      BY <2>8, <3>1, PutAt
    <3>10. op' = [op EXCEPT ![p] = c]
      BY <1>1, <3>2 DEF Inv, TypeInv
    <3>11. /\ t = Transactional /\ b = txn[p].snapshot /\ f = View(p) /\ g = Over(v, f)
           /\ UNCHANGED <<deployment, known, seen, gen, fsck, returned>> /\ Write(p, v)
      BY <1>1, <3>1, <3>2 DEF Settled
    <3>12. CallSound(c, g, b, t) /\ c.call # None
      BY <1>1, <1>3, <3>5, <3>6 DEF CallSound
    <3> QED BY <1>3, <3>3, <3>7, <3>8, <3>9, <3>10, <3>11, <3>12, Wrote
  <2> QED BY <2>6, <2>7, <2>8
<1> QED BY <1>8, <1>9, <1>10

LEMMA SeqAppend ==
  ASSUME NEW S, NEW q \in Seq(S), NEW x \in S, NEW k, k = Len(q), NEW w, w = Append(q, x)
  PROVE  /\ w \in Seq(S) /\ Len(w) = k + 1 /\ k \in Nat /\ w[k + 1] = x /\ \A j \in 1 .. k : w[j] = q[j]
         /\ DOMAIN w = 1 .. k + 1 /\ DOMAIN q = 1 .. k
OBVIOUS

\* A document s that is inserted for the record on top, whose frame becomes x.
AppendedCall(c, x, s) ==
  [call |-> c.call, attempt |-> c.attempt, frames |-> [c.frames EXCEPT ![Len(c.frames)] = x], memo |-> c.memo,
   inserted |-> Append(c.inserted, s)]

AppendedTo(c, e, x, s, f) ==
  /\ e.call = c.call /\ e.frames # <<>> /\ TopOf(e) = x /\ Len(e.frames) = Len(c.frames)
  /\ x.mark < Len(e.inserted) /\ e.inserted[Len(e.inserted)] = s
  /\ SinceMark(e, 0) \cap Sids(f) \subseteq SinceMark(c, 0)

LEMMA AppendedSound ==
  ASSUME NEW c, NEW f, NEW b, NEW t, CallBase(c, f, b, t), c.frames # <<>>, NEW open, Whole(f, Kept, open),
         NEW y, y = TopOf(c), t => y.stage = "insert",
         NEW x \in FrameType, x.obj = y.obj, x.top = y.top, x.todo = y.todo, x.got = y.got, x.mark = y.mark,
         t => x.stage = "claim",
         NEW s \in Sid, s \notin Sids(f), s[1] = Content[y.obj], t => ~Numbered(b, s),
         NEW g, Keyed(g), Grown(f, g), Sids(g) = Sids(f) \cup {s}, At(g, Doc(s)).refs = y.got,
         \A k : k[1] = "dispatch" => At(g, k) = At(f, k),
         NEW e, e = AppendedCall(c, x, s)
  PROVE  CallBase(e, g, b, t) /\ AppendedTo(c, e, x, s, f)
<1>0. PICK n, u, w : n = Len(c.frames) /\ u = [c.frames EXCEPT ![n] = x] /\ w = Append(c.inserted, s)
  OBVIOUS
<1>1. /\ c \in CallType /\ FramesSound(c) /\ GotSound(c, f) /\ MemoSound(c, f) /\ c.call # None
      /\ (t => InsertedSound(c, f, b))
  BY FramesOfCall DEF CallBase
<1>2. PICK q \in Seq(FrameType) : q = c.frames
  BY <1>1, CallFields
<1>3. PICK i0 \in Seq(Sid) : i0 = c.inserted
  BY <1>1, CallFields
<1>4. n \in Nat /\ n = Len(q) /\ n > 0 /\ y = q[n] /\ n \in 1 .. n
  <2>1. Len(c.frames) \in Nat /\ Len(c.frames) > 0 /\ TopOf(c) = c.frames[Len(c.frames)]
    BY <1>1, CallFields
  <2> QED BY <1>0, <1>2, <2>1
<1>5. u \in Seq(FrameType) /\ Len(u) = n /\ \A j \in 1 .. n : u[j] = IF j = n THEN x ELSE q[j]
  BY <1>0, <1>2, <1>4, SeqPut
<1>6. PICK k : k = Len(i0)
  OBVIOUS
<1>7. /\ w \in Seq(Sid) /\ Len(w) = k + 1 /\ k \in Nat /\ w[k + 1] = s /\ \A j \in 1 .. k : w[j] = i0[j]
      /\ DOMAIN w = 1 .. k + 1 /\ DOMAIN i0 = 1 .. k
  BY <1>0, <1>3, <1>6, SeqAppend
<1>8. e.call = c.call /\ e.attempt = c.attempt /\ e.frames = u /\ e.memo = c.memo /\ e.inserted = w
  BY <1>0, CallMade DEF AppendedCall
<1>9. e \in CallType
  BY <1>0, <1>1, <1>5, <1>7, CallFields DEF AppendedCall, CallType
<1>10. u # <<>> /\ TopOf(e) = x
  BY <1>4, <1>5, <1>8 DEF TopOf
<1>11. \A i \in 1 .. n : /\ u[i].obj = q[i].obj /\ u[i].top = q[i].top /\ u[i].todo = q[i].todo /\ u[i].got = q[i].got
                         /\ u[i].mark = q[i].mark /\ (i # n => u[i].stage = q[i].stage)
  BY <1>4, <1>5
<1>12. \A i \in 1 .. n : LET fr == q[i]
         IN /\ fr.top = (i = 1) /\ (i = 1 => fr.obj = c.call)
            /\ fr.todo \subseteq Refs[fr.obj]
            /\ fr.mark <= k /\ fr.mark \in Nat
            /\ i < n => fr.stage = "refs"
            /\ \A z \in fr.got : Rank[z[1]] < Rank[Content[fr.obj]]
            /\ \A j \in 1 .. i - 1 : Rank[Content[fr.obj]] < Rank[Content[q[j].obj]] /\ q[j].mark <= fr.mark
  <2> TAKE i \in 1 .. n
  <2>1. q[i] \in FrameType
    BY <1>2, <1>4
  <2>2. q[i].mark \in Nat
    BY <2>1, FrameFields
  <2> QED BY <1>1, <1>2, <1>3, <1>4, <1>6, <2>2 DEF FramesSound
<1>13. FramesSound(e)
  <2> SUFFICES ASSUME NEW i \in 1 .. n
               PROVE  LET fr == u[i]
                      IN /\ fr.top = (i = 1) /\ (i = 1 => fr.obj = c.call)
                         /\ fr.todo \subseteq Refs[fr.obj]
                         /\ fr.mark <= k + 1
                         /\ i < n => fr.stage = "refs"
                         /\ \A z \in fr.got : Rank[z[1]] < Rank[Content[fr.obj]]
                         /\ \A j \in 1 .. i - 1 : /\ Rank[Content[fr.obj]] < Rank[Content[u[j].obj]]
                                                  /\ u[j].mark <= fr.mark
    BY <1>5, <1>7, <1>8 DEF FramesSound
  <2>1. \A j \in 1 .. i - 1 : j \in 1 .. n
    BY <1>4
  <2>2. (i < n => i # n) /\ u[i].mark <= k + 1
    BY <1>4, <1>7, <1>11, <1>12
  <2>3. \A j \in 1 .. i - 1 : Rank[Content[u[i].obj]] < Rank[Content[u[j].obj]] /\ u[j].mark <= u[i].mark
    <3> TAKE j \in 1 .. i - 1
    <3>1. Rank[Content[q[i].obj]] < Rank[Content[q[j].obj]] /\ q[j].mark <= q[i].mark
      BY <1>12
    <3>2. u[i].obj = q[i].obj /\ u[i].mark = q[i].mark /\ u[j].obj = q[j].obj /\ u[j].mark = q[j].mark
      BY <1>11, <2>1
    <3> QED BY <3>1, <3>2
  <2>4. u[i].top = (i = 1)
    <3>1. u[i].top = q[i].top
      BY <1>11
    <3>2. q[i].top = (i = 1)
      BY <1>12
    <3> QED BY <3>1, <3>2
  <2>5. /\ i = 1 => u[i].obj = c.call
        /\ u[i].todo \subseteq Refs[u[i].obj]
        /\ i < n => u[i].stage = "refs"
        /\ \A z \in u[i].got : Rank[z[1]] < Rank[Content[u[i].obj]]
    <3>1. /\ u[i].obj = q[i].obj /\ u[i].todo = q[i].todo /\ u[i].got = q[i].got
          /\ i # n => u[i].stage = q[i].stage
      BY <1>11
    <3> QED BY <1>12, <2>2, <3>1
  <2> QED BY <2>2, <2>3, <2>4, <2>5
<1>14. GotSound(e, g) /\ MemoSound(e, g)
  <2>1. Sids(f) \subseteq Sids(g) /\ Mains(f) \subseteq Mains(g)
    BY GrownFacts DEF Whole
  <2>2. \A i \in 1 .. n : q[i].got \subseteq Sids(f)
    BY <1>1, <1>2, <1>4 DEF GotSound
  <2>3. GotSound(e, g)
    <3>1. \A i \in 1 .. n : u[i].got \subseteq Sids(g)
      <4> TAKE i \in 1 .. n
      <4>1. u[i].got = q[i].got /\ q[i].got \subseteq Sids(f)
        BY <1>11, <2>2
      <4> QED BY <2>1, <4>1
    <3>2. e.frames = u /\ Len(u) = n
      BY <1>5, <1>8
    <3> QED BY <3>1, <3>2 DEF GotSound
  <2>4. MemoSound(e, g)
    BY <1>1, <1>8, <1>10, <2>1 DEF MemoSound
  <2> QED BY <2>3, <2>4
<1>15. ASSUME NEW m \in Nat PROVE SinceMark(e, m) \subseteq SinceMark(c, m) \cup {s}
  <2> SUFFICES ASSUME NEW j \in m + 1 .. k + 1 PROVE w[j] \in SinceMark(c, m) \cup {s}
    <3>1. SinceMark(e, m) = {w[j] : j \in m + 1 .. k + 1}
      BY <1>7, <1>8 DEF SinceMark
    <3> QED BY <3>1
  <2>1. CASE j = k + 1
    BY <1>7, <2>1
  <2>2. CASE j # k + 1
    <3>1. j \in 1 .. k /\ j \in m + 1 .. k
      BY <1>7, <2>2
    <3> QED BY <1>3, <1>6, <1>7, <3>1 DEF SinceMark
  <2> QED BY <2>1, <2>2
<1>16. SinceMark(e, 0) \cap Sids(f) \subseteq SinceMark(c, 0)
  BY <1>15
<1>17. x.mark < Len(e.inserted) /\ e.inserted[Len(e.inserted)] = s
  <2>1. q[n].mark <= k /\ q[n].mark \in Nat
    BY <1>4, <1>12
  <2> QED BY <1>4, <1>7, <1>8, <2>1
<1>18. ASSUME t PROVE InsertedSound(e, g, b)
  <2>1. InsertedSound(c, f, b)
    BY <1>1, <1>18
  <2>2. \A j \in 1 .. k : i0[j] \in Sids(f) /\ ~Numbered(b, i0[j])
    BY <1>3, <1>7, <2>1 DEF InsertedSound
  <2>3. \A j \in 1 .. k + 1 : j \in 1 .. k \/ j = k + 1
    BY <1>7
  <2>4. \A j \in DOMAIN e.inserted : e.inserted[j] \in Sids(g) /\ ~Numbered(b, e.inserted[j])
    BY <1>7, <1>8, <1>18, <2>2, <2>3
  <2>5. \A i, j \in DOMAIN e.inserted : e.inserted[i] = e.inserted[j] => i = j
    <3>1. \A i, j \in 1 .. k : i0[i] = i0[j] => i = j
      BY <1>3, <1>7, <2>1 DEF InsertedSound
    <3>2. \A j \in 1 .. k : i0[j] # s
      BY <2>2
    <3> QED BY <1>7, <1>8, <2>3, <3>1, <3>2
  <2>6. \A i \in 1 .. Len(e.frames) : \A j \in e.frames[i].mark + 1 .. Len(e.inserted) :
          \/ Rank[e.inserted[j][1]] < Rank[Content[e.frames[i].obj]]
          \/ e.frames[i].stage = "claim" /\ j = Len(e.inserted)
    <3> SUFFICES ASSUME NEW i \in 1 .. Len(e.frames), NEW j \in e.frames[i].mark + 1 .. Len(e.inserted)
                 PROVE  \/ Rank[e.inserted[j][1]] < Rank[Content[e.frames[i].obj]]
                        \/ e.frames[i].stage = "claim" /\ j = Len(e.inserted)
      OBVIOUS
    <3>a. e.frames = u /\ Len(u) = n /\ e.inserted = w /\ Len(w) = k + 1
      BY <1>5, <1>7, <1>8
    <3>b. i \in 1 .. n
      BY <3>a
    <3>c. u[i].mark = q[i].mark /\ u[i].obj = q[i].obj
      BY <1>11, <3>b
    <3>d. j \in q[i].mark + 1 .. k + 1
      BY <3>a, <3>c
    <3> SUFFICES Rank[w[j][1]] < Rank[Content[q[i].obj]] \/ (u[i].stage = "claim" /\ j = k + 1)
      BY <3>a, <3>c
    <3>1. CASE j = k + 1 /\ i = n
      BY <1>4, <1>5, <1>18, <3>1, <3>b, <3>d
    <3>2. CASE j = k + 1 /\ i # n
      <4>1. i \in 1 .. n - 1
        BY <1>4, <3>2, <3>b
      <4>2. Rank[Content[q[n].obj]] < Rank[Content[q[i].obj]]
        BY <1>4, <1>12, <4>1
      <4> QED BY <1>4, <1>7, <3>2, <4>2
    <3>3. CASE j # k + 1
      <4>1. j \in 1 .. k /\ j \in q[i].mark + 1 .. k
        BY <1>7, <1>12, <3>3, <3>b, <3>d
      <4>2. Rank[i0[j][1]] < Rank[Content[q[i].obj]] \/ q[i].stage = "claim"
        BY <1>2, <1>3, <1>4, <1>6, <2>1, <3>b, <4>1 DEF InsertedSound
      <4>3. q[i].stage # "claim"
        <5>1. CASE i = n
          BY <1>4, <1>18, <5>1
        <5>2. CASE i # n
          <6>1. i < n
            BY <1>4, <5>2, <3>b
          <6> QED BY <1>12, <6>1, <3>b
        <5> QED BY <5>1, <5>2
      <4> QED BY <1>7, <4>1, <4>2, <4>3
    <3> QED BY <3>1, <3>2, <3>3
  <2>7. \A i \in 1 .. Len(e.frames) - 1 : e.frames[i].got \cap SinceMark(e, e.frames[i + 1].mark) = {}
    <3> SUFFICES ASSUME NEW i \in 1 .. n - 1 PROVE u[i].got \cap SinceMark(e, u[i + 1].mark) = {}
      BY <1>5, <1>8
    <3>1. i \in 1 .. n /\ i + 1 \in 1 .. n
      BY <1>4
    <3>2. q[i].got \cap SinceMark(c, q[i + 1].mark) = {} /\ q[i].got \subseteq Sids(f)
      BY <1>1, <1>2, <1>4, <2>1, <3>1 DEF InsertedSound, GotSound
    <3>3. q[i + 1].mark \in Nat /\ u[i + 1].mark = q[i + 1].mark /\ u[i].got = q[i].got
      BY <1>11, <1>12, <3>1
    <3>4. SinceMark(e, q[i + 1].mark) \subseteq SinceMark(c, q[i + 1].mark) \cup {s}
      BY <1>15, <3>3
    <3> QED BY <3>2, <3>3, <3>4
  <2>8. ASSUME Kept, NEW j \in DOMAIN e.inserted, NEW z \in Sids(g), e.inserted[j] \in At(g, Doc(z)).refs
        PROVE  z \in SinceMark(e, j)
    <3>1. z # s => z \in Sids(f) /\ At(g, Doc(z)).refs = At(f, Doc(z)).refs
      BY GrownFacts DEF Whole
    <3>2. At(g, Doc(z)).refs \subseteq Sids(f)
      <4>1. CASE z = s
        BY <1>1, <1>2, <1>4, <4>1 DEF GotSound
      <4>2. CASE z # s
        BY <2>8, <3>1, <4>2, WholeDocs DEF DocFits
      <4> QED BY <4>1, <4>2
    <3>3. w[j] # s
      BY <1>8, <2>8, <3>2
    <3>4. j \in 1 .. k
      BY <1>7, <1>8, <2>3, <3>3
    <3>5. CASE z = s
      <4>1. k + 1 \in j + 1 .. Len(w)
        BY <1>7, <3>4
      <4> QED BY <1>7, <1>8, <3>5, <4>1 DEF SinceMark
    <3>6. CASE z # s
      <4>1. z \in SinceMark(c, j)
        BY <1>3, <1>7, <1>8, <2>1, <2>8, <3>1, <3>4, <3>6 DEF InsertedSound
      <4>2. PICK l \in j + 1 .. k : z = i0[l]
        BY <1>3, <1>6, <4>1 DEF SinceMark
      <4>3. l \in j + 1 .. Len(w) /\ w[l] = z
        BY <1>7, <3>4, <4>2
      <4> QED BY <1>8, <4>3 DEF SinceMark
    <3> QED BY <3>5, <3>6
  <2>9. ASSUME NEW r \in DOMAIN g, r[1] = "dispatch" PROVE g[r] \notin SinceMark(e, 0)
    <3>1. g[r] = At(f, r)
      BY <2>9 DEF At
    <3>2. CASE At(f, r) = None
      BY <1>9, <3>1, <3>2, SinceFacts
    <3>3. CASE At(f, r) # None
      <4>1. r \in DOMAIN f /\ f[r] = At(f, r)
        BY <3>3 DEF At
      <4>2. f[r] \in Sids(f)
        BY <2>9, <3>3, <4>1 DEF Whole, Fits, Mains
      <4>3. f[r] \notin SinceMark(c, 0)
        BY <2>1, <2>9, <4>1 DEF InsertedSound
      <4> QED BY <1>15, <3>1, <4>1, <4>2, <4>3
    <3> QED BY <3>2, <3>3
  <2> QED BY <2>4, <2>5, <2>6, <2>7, <2>8, <2>9 DEF InsertedSound
<1> QED BY <1>0, <1>1, <1>5, <1>8, <1>9, <1>10, <1>13, <1>14, <1>16, <1>17, <1>18 DEF CallBase, AppendedTo

LEMMA InsertKeeps ==
  ASSUME Inv, NEW p \in Stores, Insert(p)
  PROVE  Inv'
<1>1. PICK t, b, f, c, y, o, s, m, role, v, winner, n :
        /\ t = Transactional /\ b = txn[p].snapshot /\ f = View(p) /\ c = op[p] /\ y = TopOf(c) /\ o = y.obj /\ s = y.sid
        /\ m = Content[o] /\ role = (IF y.top THEN "main" ELSE "dep")
        /\ v = InsertedValues(s, o, y.got, y.compared, role)
        /\ winner = (IF Policy[m] = "content_id" THEN At(f, Index(m)) ELSE None)
        /\ n = Len(c.frames)
  OBVIOUS
<1>2. In(p, "insert")
  BY DEF Insert
<1>3. /\ Top(p) = y /\ c.frames # <<>> /\ y.stage = "insert" /\ op[p].call # None /\ Active(p)
      /\ t \in BOOLEAN /\ fsck = None /\ (~t => f = db) /\ Whole(f, Kept, OpenSids(c, t)) /\ Keyed(f)
      /\ CallSound(c, f, b, t) /\ CallBase(c, f, b, t) /\ c \in CallType
      /\ (t => OpenSound(txn[p], c, f) /\ Grown(b, f) /\ Keyed(b))
      /\ y \in FrameType /\ y.obj \in Objects
  BY <1>1, <1>2, OnTop
<1>4. At0(c, {"claim", "insert"}) /\ ~At0(c, {"claim"}) /\ Held(c) = {s} /\ OpenSids(c, t) = {}
  BY <1>1, <1>3 DEF At0, Held, OpenSids
<1>5. Whole(f, Kept, {})
  BY <1>3, <1>4
<1>6. /\ s \in Sid /\ s # None /\ s[1] = m /\ Numbered(f, s) /\ s \notin Sids(f)
      /\ t => ~Numbered(b, s)
      /\ ~t => \A k \in Claims(o, s) : At(f, k) = s
  BY <1>1, <1>3, <1>4, NoneApart DEF CallSound, HeldSound
<1>7. /\ y.got \in SUBSET Sid /\ y.got \subseteq Sids(f) /\ y.compared \in SUBSET Sid /\ role \in {"main", "dep"}
      /\ \A z \in y.got : Rank[z[1]] < Rank[s[1]]
  <2>1. n \in 1 .. Len(c.frames) /\ y = c.frames[n]
    BY <1>1, <1>3, CallFields
  <2>2. y.got \subseteq Sids(f) /\ \A z \in y.got : Rank[z[1]] < Rank[Content[y.obj]]
    BY <1>3, <2>1 DEF CallBase, FramesSound, GotSound
  <2> QED BY <1>1, <1>3, <1>6, <2>2, FrameFields
<1>8. v = LET document == Put(Doc(s), [obj |-> o, refs |-> y.got, compared |-> y.compared, role |-> role])
          IN IF Policy[m] = "content_id" THEN Over(document, Put(Index(m), s)) ELSE document
  BY <1>1, <1>6 DEF InsertedValues
<1>9. CASE (\E k \in DOMAIN v : Conflict(p, k)) \/ (t /\ winner # None)
  <2>1. Transactional /\ Retry(p)
    BY <1>1, <1>3, <1>8, <1>9 DEF Insert, Conflict
  <2> QED BY <1>3, <2>1, RetryKeeps
<1>10. CASE ~(\E k \in DOMAIN v : Conflict(p, k)) /\ ~t /\ winner # None
  <2>1. /\ op' = [op EXCEPT ![p] = HandDown(c, winner)] /\ Write(p, Adoption(p, winner))
        /\ UNCHANGED deployment /\ Settled
    BY <1>1, <1>3, <1>8, <1>10 DEF Insert, Give, Given
  <2>2. winner \in Sids(f) /\ winner[1] = m
    BY <1>1, <1>5, <1>10, WholeKeys
  <2>3. PICK a, g : a = Adoption(p, winner) /\ g = Over(a, f)
    OBVIOUS
  <2>4. /\ Whole(g, Kept, {}) /\ Grown(f, g) /\ Sids(g) = Sids(f) /\ (y.top => winner \in Mains(g))
        /\ \A k : k[1] # "doc" => At(g, k) = At(f, k)
    <3>1. f = View(p) /\ Whole(f, Kept, {}) /\ winner \in Sids(f) /\ winner \notin {} /\ Top(p) = y
          /\ g = Over(Adoption(p, winner), f)
      BY <1>1, <1>3, <1>5, <2>2, <2>3
    <3> QED BY <3>1, AdoptionIs
  <2>5. Keyed(g) /\ \A k : k[1] = "dispatch" => At(g, k) = At(f, k)
    BY <2>4 DEF Whole
  <2>6. CallBase(c, g, b, t)
    BY <1>3, <2>4, <2>5, BaseKept
  <2>7. PICK e : e = HandDown(c, winner)
    OBVIOUS
  <2>8. /\ CallSound(e, g, b, t) /\ e.call # None /\ e.inserted = c.inserted
        /\ Held(e) = {} /\ OpenSids(e, t) = {}
    <3>1. /\ Whole(g, Kept, {}) /\ winner \in Sids(g) /\ winner[1] = Content[TopOf(c).obj]
          /\ TopOf(c).top => winner \in Mains(g)
      BY <1>1, <2>2, <2>4
    <3>2. c.frames # <<>>
      BY <1>3
    <3>3. CallSound(e, g, b, t) /\ e.call # None /\ e.inserted = c.inserted /\ Held(e) = {} /\ OpenSids(e, t) = {}
      BY <2>6, <2>7, <3>1, <3>2, GivenSound
    <3> QED BY <3>3
  <2>9. t => OpenSound(txn[p], e, g)
    BY <1>10
  <2>10. \A k \in DOMAIN a : ~Conflict(p, k)
    BY <1>1, <1>10 DEF Conflict
  <2>11. ~t => \A q \in Stores \ {p} : Held(op[q]) \cap Held(e) = {} /\ Held(op[q]) \cap Sids(g) \subseteq Sids(db)
    BY <1>3, <2>4, <2>8
  <2>12. Whole(g, Kept, OpenSids(e, t)) /\ Grown(f, g)
    BY <2>4, <2>8
  <2>13. /\ t = Transactional /\ b = txn[p].snapshot /\ f = View(p) /\ op' = [op EXCEPT ![p] = e] /\ g = Over(a, f)
         /\ UNCHANGED <<deployment, known, seen, gen, fsck, returned>> /\ Write(p, a)
    BY <1>1, <2>1, <2>3, <2>7 DEF Settled
  <2> QED BY <1>3, <2>8, <2>9, <2>10, <2>11, <2>12, <2>13, Wrote
<1>11. CASE ~(\E k \in DOMAIN v : Conflict(p, k)) /\ winner = None
  <2>1. PICK g : g = Over(v, f)
    OBVIOUS
  <2>2. PICK open2 : open2 = IF t THEN {s} ELSE {}
    OBVIOUS
  <2>3. (s \notin open2 => \A k \in Claims(o, s) : At(f, k) = s) /\ {} \subseteq open2
    BY <1>3, <1>6, <2>2
  <2>4. Policy[s[1]] = "content_id" => At(f, Index(s[1])) = None
    BY <1>1, <1>6, <1>11
  <2>5. o \in Objects /\ s[1] = Content[o]
    BY <1>1, <1>3, <1>6
  <2>6. /\ Whole(g, Kept, open2) /\ Grown(f, g) /\ Sids(g) = Sids(f) \cup {s}
        /\ At(g, Doc(s)).obj = o /\ At(g, Doc(s)).refs = y.got /\ At(g, Doc(s)).role = role
        /\ \A k : k[1] \notin {"doc", "index"} => At(g, k) = At(f, k)
    <3>1. PICK got, compared : got = y.got /\ compared = y.compared
      OBVIOUS
    <3>2. /\ got \in SUBSET Sid /\ got \subseteq Sids(f) /\ compared \in SUBSET Sid /\ role \in {"main", "dep"}
          /\ \A z \in got : Rank[z[1]] < Rank[s[1]]
      BY <1>7, <3>1
    <3>3. v = InsertedValues(s, o, got, compared, role)
      BY <1>1, <3>1
    <3>4. s \in Sid /\ Numbered(f, s) /\ s \notin Sids(f)
      BY <1>6
    <3>5. Whole(g, Kept, open2) /\ InsertedInto(f, g, s, o, got, role)
      <4>1. PICK kept, none : kept = Kept /\ none = {}
        OBVIOUS
      <4>2. Whole(f, kept, none) /\ none \subseteq open2
        BY <1>5, <4>1
      <4>3. Whole(g, kept, open2) /\ InsertedInto(f, g, s, o, got, role)
        BY <2>1, <2>3, <2>4, <2>5, <3>2, <3>3, <3>4, <4>2, InsertedWhole
      <4> QED BY <4>1, <4>3
    <3> QED BY <3>1, <3>5 DEF InsertedInto
  <2>7. Keyed(g) /\ \A k : k[1] = "dispatch" => At(g, k) = At(f, k)
    BY <2>6 DEF Whole
  <2>8. s \in Sids(g) /\ (y.top => s \in Mains(g)) /\ Numbered(g, s)
    BY <1>1, <1>3, <1>6, <2>6, <2>7, SidsAt, GrownFacts
  <2>9. PICK x : x = IF t THEN [y EXCEPT !.stage = "claim"] ELSE y
    OBVIOUS
  <2>10. /\ x \in FrameType /\ x.obj = y.obj /\ x.top = y.top /\ x.todo = y.todo /\ x.got = y.got /\ x.mark = y.mark
         /\ x.sid = s /\ (t => x.stage = "claim") /\ (~t => x = y)
    <3>1. CASE t
      <4>1. x = [y EXCEPT !.stage = "claim"]
        BY <2>9, <3>1
      <4> QED BY <1>1, <1>3, <3>1, <4>1 DEF FrameType, Stages
    <3>2. CASE ~t
      BY <1>1, <1>3, <2>9, <3>2
    <3> QED BY <1>3, <3>1, <3>2
  <2>11. PICK u, w, e : /\ u = [c.frames EXCEPT ![n] = x] /\ w = Append(c.inserted, s)
                        /\ e = [call |-> c.call, attempt |-> c.attempt, frames |-> u, memo |-> c.memo, inserted |-> w]
    OBVIOUS
  <2>19. e = AppendedCall(c, x, s)
    BY <1>1, <2>11 DEF AppendedCall
  <2>12. t => y.stage = "insert"
    BY <1>3
  <2>13. /\ CallBase(e, g, b, t) /\ e.call = c.call /\ e.frames # <<>> /\ TopOf(e) = x /\ Len(e.frames) = n
         /\ x.mark < Len(e.inserted) /\ e.inserted[Len(e.inserted)] = s
         /\ SinceMark(e, 0) \cap Sids(f) \subseteq SinceMark(c, 0)
    <3>1. s[1] = Content[y.obj] /\ At(g, Doc(s)).refs = y.got
      BY <1>1, <1>6, <2>6
    <3>2. /\ CallBase(c, f, b, t) /\ c.frames # <<>> /\ Whole(f, Kept, {}) /\ n = Len(c.frames) /\ y = TopOf(c)
          /\ s \in Sid /\ s \notin Sids(f) /\ (t => ~Numbered(b, s)) /\ Keyed(g) /\ Grown(f, g)
          /\ Sids(g) = Sids(f) \cup {s}
          /\ \A k : k[1] = "dispatch" => At(g, k) = At(f, k)
      BY <1>1, <1>3, <1>5, <1>6, <2>6, <2>7
    <3>3. /\ x \in FrameType /\ x.obj = y.obj /\ x.top = y.top /\ x.todo = y.todo /\ x.got = y.got /\ x.mark = y.mark
          /\ (t => x.stage = "claim")
      BY <2>10
    <3>4. CallBase(e, g, b, t) /\ AppendedTo(c, e, x, s, f)
      BY <2>12, <2>19, <3>1, <3>2, <3>3, AppendedSound
    <3> QED BY <1>1, <3>4 DEF AppendedTo
  <2>14. \A q \in DOMAIN v : ~Conflict(p, q)
    BY <1>11
  <2>15. Write(p, v) /\ UNCHANGED deployment /\ Settled
    BY <1>1, <1>3, <1>8, <1>11 DEF Insert
  <2>16. /\ t = Transactional /\ b = txn[p].snapshot /\ f = View(p) /\ g = Over(v, f)
         /\ UNCHANGED <<deployment, known, seen, gen, fsck, returned>> /\ Write(p, v)
    BY <1>1, <2>1, <2>15 DEF Settled
  <2>17. CASE t
    <3>1. op' = [op EXCEPT ![p] = e]
      <4>1. op' = [op EXCEPT ![p] = [op[p] EXCEPT !.inserted = Append(@, s),
                                                  !.frames[Len(op[p].frames)].stage = "claim"]]
        BY <1>1, <1>3, <1>8, <1>11, <2>17 DEF Insert
      <4>2. x = [y EXCEPT !.stage = "claim"] /\ y = c.frames[n]
        BY <1>1, <2>9, <2>17 DEF TopOf
      <4>3. PICK z : z = [c EXCEPT !.inserted = w, !.frames = u]
        OBVIOUS
      <4>4. z = [call |-> c.call, attempt |-> c.attempt, frames |-> u, memo |-> c.memo, inserted |-> w]
        BY ZenonT(20), <1>3, <4>3, CallExcept
      <4>5. [c EXCEPT !.inserted = Append(@, s), !.frames[n].stage = "claim"] = z
        BY <1>3, <2>11, <4>2, <4>3 DEF CallType
      <4> QED BY <1>1, <2>11, <4>1, <4>4, <4>5
    <3>2. At0(e, {"claim", "insert"}) /\ OpenSids(e, t) = {s} /\ Whole(g, Kept, OpenSids(e, t))
      BY <2>2, <2>6, <2>10, <2>13, <2>17 DEF At0, OpenSids
    <3>3. HeldSound(e, g, b, t)
      <4>1. x.sid[1] = Content[x.obj] /\ At(g, Doc(x.sid)).obj = x.obj /\ (x.top => x.sid \in Mains(g))
        BY <1>1, <1>6, <2>6, <2>8, <2>10
      <4> QED BY <1>6, <2>8, <2>10, <2>13, <2>17, <4>1 DEF HeldSound
    <3>4. t => OpenSound(txn[p], e, g)
      BY <1>3, <1>5, <2>6, <2>7, <2>13, OpenKept
    <3>5. ~t => \A q \in Stores \ {p} : Held(op[q]) \cap Held(e) = {} /\ Held(op[q]) \cap Sids(g) \subseteq Sids(db)
      BY <2>17
    <3>6. CallSound(e, g, b, t) /\ e.call # None /\ Grown(f, g)
      BY <1>1, <1>3, <2>6, <2>13, <3>3 DEF CallSound
    <3> QED BY <1>3, <2>14, <2>16, <3>1, <3>2, <3>4, <3>5, <3>6, Wrote
  <2>18. CASE ~t
    <3>1. op' = [op EXCEPT ![p] = HandDown(e, s)]
      <4>1. op' = [op EXCEPT ![p] = HandDown([op[p] EXCEPT !.inserted = Append(@, s)], s)]
        BY <1>1, <1>3, <1>8, <1>11, <2>18 DEF Insert
      <4>2. u = c.frames
        <5>1. PICK q \in Seq(FrameType) : q = c.frames
          BY <1>3, CallFields
        <5>2. x = q[n]
          BY <1>1, <2>10, <2>18, <5>1 DEF TopOf
        <5>3. [q EXCEPT ![n] = x] = q
          BY <5>1, <5>2
        <5> QED BY <2>11, <5>1, <5>3
      <4>3. PICK z : z = [c EXCEPT !.inserted = w]
        OBVIOUS
      <4>4. z = [call |-> c.call, attempt |-> c.attempt, frames |-> c.frames, memo |-> c.memo, inserted |-> w]
        BY <1>3, <4>3, CallExcept
      <4>5. z = e
        BY <2>11, <4>2, <4>4
      <4> QED BY <1>1, <2>11, <4>1, <4>3, <4>5
    <3>2. Whole(g, Kept, {})
      BY <2>2, <2>6, <2>18
    <3>3. PICK d : d = HandDown(e, s)
      OBVIOUS
    <3>4. s[1] = Content[TopOf(e).obj] /\ (TopOf(e).top => s \in Mains(g))
      BY <2>5, <2>8, <2>10, <2>13, <1>1
    <3>5. /\ CallSound(d, g, b, t) /\ d.call # None /\ Held(d) = {} /\ OpenSids(d, t) = {}
      BY <2>8, <2>13, <3>2, <3>3, <3>4, GivenSound
    <3>6. ASSUME NEW q \in Stores \ {p} PROVE Held(op[q]) \cap Held(d) = {} /\ Held(op[q]) \cap Sids(g) \subseteq Sids(db)
      <4>1. Held(op[q]) \cap Held(c) = {}
        BY <1>1, <2>18 DEF Inv, SavesSound
      <4> QED BY <1>3, <1>4, <2>6, <2>18, <3>5, <4>1
    <3>7. ~t => \A q \in Stores \ {p} : Held(op[q]) \cap Held(d) = {} /\ Held(op[q]) \cap Sids(g) \subseteq Sids(db)
      BY <3>6
    <3>8. (t => OpenSound(txn[p], d, g)) /\ op' = [op EXCEPT ![p] = d]
      BY <2>18, <3>1, <3>3
    <3>9. Whole(g, Kept, OpenSids(d, t)) /\ Grown(f, g)
      BY <2>6, <3>2, <3>5
    <3> QED BY <1>3, <2>14, <2>16, <3>5, <3>7, <3>8, <3>9, Wrote
  <2> QED BY <1>3, <2>17, <2>18
<1> QED BY <1>3, <1>9, <1>10, <1>11

LEMMA DispatchKeeps ==
  ASSUME Inv, NEW p \in Stores, Dispatch(p)
  PROVE  Inv'
<1>1. PICK t, b, f, c, s, k :
        /\ t = Transactional /\ b = txn[p].snapshot /\ f = View(p) /\ c = op[p] /\ s = Saved(p) /\ k = Route(s[1])
  OBVIOUS
<1>2. InDispatch(p) /\ ~Dispatched(p) /\ c.frames = <<>> /\ op[p].call # None
  BY <1>1 DEF Dispatch, InDispatch
<1>3. /\ Active(p) /\ ~At0(c, {"claim", "insert"}) /\ s \in Mains(f) /\ s \in Sids(f) /\ s # None
      /\ s[1] \in Entries /\ At(f, k) # s
  BY <1>1, <1>2, SavedIs DEF Dispatched
<1>4. /\ t \in BOOLEAN /\ fsck = None /\ (~t => f = db) /\ Whole(f, Kept, OpenSids(c, t))
      /\ CallSound(c, f, b, t) /\ CallBase(c, f, b, t) /\ c \in CallType
      /\ t => OpenSound(txn[p], c, f)
  BY <1>1, <1>3, ViewFacts
<1>5. OpenSids(c, t) = {} /\ Whole(f, Kept, {}) /\ Keyed(f) /\ Held(c) = {}
  <2>1. OpenSids(c, t) = {} /\ Held(c) = {}
    BY <1>3, Unheld
  <2> QED BY <1>4, <2>1 DEF Whole
<1>6. CASE Conflict(p, k)
  <2>1. Transactional /\ Retry(p)
    BY <1>1, <1>6 DEF Dispatch, Conflict
  <2> QED BY <1>2, <2>1, RetryKeeps
<1>7. CASE ~Conflict(p, k) /\ At(f, k) # None
  <2>1. Raise(p)
    BY <1>1, <1>7 DEF Dispatch
  <2> QED BY <1>1, <1>2, <1>3, <2>1, RaiseKeeps
<1>8. CASE ~Conflict(p, k) /\ At(f, k) = None
  <2>1. PICK v, g : v = Put(k, s) /\ g = Over(v, f)
    OBVIOUS
  <2>2. Write(p, v) /\ UNCHANGED <<deployment, op>> /\ Settled
    BY <1>1, <1>8, <2>1 DEF Dispatch
  <2>3. /\ Whole(g, Kept, {}) /\ Grown(f, g) /\ Sids(g) = Sids(f)
    BY <1>1, <1>3, <1>5, <1>8, <2>1, RoutedWhole
  <2>4. Keyed(g)
    BY <2>3 DEF Whole
  <2>5. CallBase(c, g, b, t)
    BY <1>2, <1>4, <1>5, <2>3, <2>4, BaseKept
  <2>6. CallSound(c, g, b, t) /\ c.call # None
    BY <1>1, <1>2, <1>3, <2>5, Unheld DEF CallSound
  <2>7. t => OpenSound(txn[p], c, g)
    BY <1>2, <1>4, <1>5, <2>3, <2>4, OpenKept
  <2>8. ~t => \A q \in Stores \ {p} : Held(op[q]) \cap Held(c) = {} /\ Held(op[q]) \cap Sids(g) \subseteq Sids(db)
    BY <1>4, <1>5, <2>3
  <2>9. \A q \in DOMAIN v : ~Conflict(p, q)
    BY <1>8, <2>1, PutAt
  <2>10. op' = [op EXCEPT ![p] = c]
    BY <1>1, <2>2 DEF Inv, TypeInv
  <2>11. /\ t = Transactional /\ b = txn[p].snapshot /\ f = View(p) /\ g = Over(v, f)
         /\ UNCHANGED <<deployment, known, seen, gen, fsck, returned>> /\ Write(p, v)
    BY <1>1, <2>1, <2>2 DEF Settled
  <2>12. Whole(g, Kept, OpenSids(c, t)) /\ Grown(f, g)
    BY <1>5, <2>3
  <2> QED BY <1>2, <2>6, <2>7, <2>8, <2>9, <2>10, <2>11, <2>12, Wrote
<1> QED BY <1>6, <1>7, <1>8

\* The keys of the documents J, of their claims and index entries.
KeysOf(f, J) ==
  UNION {{Doc(s)} \cup Claims(At(f, Doc(s)).obj, s) \cup (IF Policy[s[1]] = "content_id" THEN {Index(s[1])} ELSE {}) : s \in J}

Unreferred(f, J) == Kept => \A s \in Sids(f) \ J : At(f, Doc(s)).refs \cap J = {}

Without(h, f, J) ==
  /\ Sids(h) = Sids(f) \ J
  /\ \A s \in Sids(h) : At(h, Doc(s)) = At(f, Doc(s))
  /\ \A k : k[1] \in {"dispatch", "counter"} => At(h, k) = At(f, k)

LEMMA KeysOfAre ==
  ASSUME NEW f, Whole(f, Kept, {}), NEW J, J \subseteq Sids(f), NEW k
  PROVE  k \in KeysOf(f, J) =>
           /\ IsKey(k) /\ k[1] \in {"doc", "claim", "index"} /\ At(f, k) # None
           /\ \E s \in J : /\ k = Doc(s) \/ At(f, k) = s
                           /\ k[1] = "claim" => At(f, k) = s
                           /\ k[1] = "index" => At(f, k) = s /\ k = Index(s[1])
                           /\ k[1] = "doc" => k = Doc(s)
<1> SUFFICES ASSUME k \in KeysOf(f, J)
             PROVE  \E s \in J : /\ IsKey(k) /\ k[1] \in {"doc", "claim", "index"} /\ At(f, k) # None
                                 /\ k = Doc(s) \/ At(f, k) = s
                                 /\ k[1] = "claim" => At(f, k) = s
                                 /\ k[1] = "index" => At(f, k) = s /\ k = Index(s[1])
                                 /\ k[1] = "doc" => k = Doc(s)
  OBVIOUS
<1>1. PICK s \in J : \/ k = Doc(s) \/ k \in Claims(At(f, Doc(s)).obj, s)
                     \/ (Policy[s[1]] = "content_id" /\ k = Index(s[1]))
  BY DEF KeysOf
<1>2. DocFits(s, At(f, Doc(s)), f, Kept, {}) /\ At(f, Doc(s)) # None
  BY <1>1, WholeDocs
<1>3. s \in Sid /\ s # None
  BY <1>2, NoneApart DEF DocFits
<1>4. CASE k = Doc(s)
  BY <1>2, <1>4, KeysDiffer
<1>5. CASE k \in Claims(At(f, Doc(s)).obj, s)
  <2>1. At(f, k) = s
    BY <1>2, <1>5 DEF DocFits
  <2> QED BY <1>3, <1>5, <2>1, ClaimsAre
<1>6. CASE Policy[s[1]] = "content_id" /\ k = Index(s[1])
  <2>1. At(f, k) = s
    BY <1>2, <1>6 DEF DocFits
  <2> QED BY <1>3, <1>6, <2>1, KeysDiffer
<1> QED BY <1>1, <1>4, <1>5, <1>6

\* What a transaction has inserted is taken back, and nothing else refers to it.
LEMMA UndoneWhole ==
  ASSUME NEW f, NEW b, Whole(f, Kept, {}), Whole(b, Kept, {}), Grown(b, f), NEW J, J \subseteq Sids(f),
         \A s \in J : ~Numbered(b, s),
         Unreferred(f, J),
         \A k \in DOMAIN f : k[1] = "dispatch" => f[k] \notin J,
         NEW u, u = [k \in KeysOf(f, J) |-> None], NEW h, h = Over(u, f)
  PROVE  /\ Whole(h, Kept, {}) /\ Grown(b, h) /\ Without(h, f, J)
         /\ \A k \in DOMAIN u : At(f, k) # None /\ At(b, k) = None
<1>1. DOMAIN u = KeysOf(f, J) /\ \A k \in DOMAIN u : u[k] = None
  OBVIOUS
<1>2. \A k : At(h, k) = IF k \in KeysOf(f, J) THEN None ELSE At(f, k)
  BY <1>1 DEF At, Over
<1>3. Keyed(f) /\ Keyed(h) /\ Keyed(b)
  <2>1. \A k \in DOMAIN u : IsKey(k)
    BY <1>1, KeysOfAre
  <2>2. Keyed(f) /\ Keyed(b)
    BY DEF Whole
  <2> QED BY <2>1, <2>2, KeyedOver
<1>4. ASSUME NEW s PROVE Doc(s) \in KeysOf(f, J) <=> s \in J
  <2>1. ASSUME s \in J PROVE Doc(s) \in KeysOf(f, J)
    BY <2>1 DEF KeysOf
  <2>2. ASSUME Doc(s) \in KeysOf(f, J) PROVE s \in J
    <3>1. PICK z \in J : Doc(s)[1] = "doc" => Doc(s) = Doc(z)
      BY <2>2, KeysOfAre
    <3> QED BY <3>1, KeysDiffer
  <2> QED BY <2>1, <2>2
<1>5. Sids(h) = Sids(f) \ J
  BY <1>2, <1>3, <1>4, SidsAt
<1>6. \A s \in Sids(h) : At(h, Doc(s)) = At(f, Doc(s))
  BY <1>2, <1>4, <1>5
<1>7. \A k : k[1] \in {"dispatch", "counter"} => At(h, k) = At(f, k)
  BY <1>2, KeysOfAre
<1>8. Without(h, f, J)
  BY <1>5, <1>6, <1>7 DEF Without
<1>9. Mains(h) = Mains(f) \ J
  BY <1>3, <1>5, <1>6, SidsAt
<1>10. \A s : Numbered(h, s) <=> Numbered(f, s)
  BY <1>7, KeysDiffer DEF Numbered
<1>11. ASSUME NEW s \in Sids(h) PROVE DocFits(s, At(h, Doc(s)), h, Kept, {})
  <2>1. s \in Sids(f) /\ s \notin J /\ At(h, Doc(s)) = At(f, Doc(s))
    BY <1>5, <1>6
  <2>2. PICK d : d = At(f, Doc(s))
    OBVIOUS
  <2>3. DocFits(s, d, f, Kept, {})
    BY <2>1, <2>2, WholeDocs
  <2>4. Numbered(h, s)
    BY <1>10, <2>3 DEF DocFits
  <2>5. \A z \in d.refs : Rank[z[1]] < Rank[s[1]] /\ (Kept => z \in Sids(h))
    BY <1>5, <2>1, <2>2, <2>3 DEF DocFits, Unreferred
  <2>6. Policy[s[1]] = "content_id" => At(h, Index(s[1])) = s
    <3>1. ASSUME Policy[s[1]] = "content_id", Index(s[1]) \in KeysOf(f, J) PROVE FALSE
      <4>1. At(f, Index(s[1])) = s
        BY <2>3, <3>1 DEF DocFits
      <4>2. PICK z \in J : Index(s[1])[1] = "index" => At(f, Index(s[1])) = z
        BY <3>1, KeysOfAre
      <4> QED BY <2>1, <4>1, <4>2, KeysDiffer
    <3> QED BY <1>2, <2>3, <3>1 DEF DocFits
  <2>7. \A k \in Claims(d.obj, s) : At(h, k) = s
    <3> TAKE k \in Claims(d.obj, s)
    <3>1. At(f, k) = s /\ k[1] = "claim"
      BY <2>3, ClaimsAre DEF DocFits
    <3>2. k \notin KeysOf(f, J)
      <4>1. ASSUME k \in KeysOf(f, J) PROVE FALSE
        <5>1. PICK z \in J : k[1] = "claim" => At(f, k) = z
          BY <4>1, KeysOfAre
        <5> QED BY <2>1, <3>1, <5>1
      <4> QED BY <4>1
    <3> QED BY <1>2, <3>1, <3>2
  <2>8. DocFits(s, d, h, Kept, {})
    BY <2>3, <2>4, <2>5, <2>6, <2>7 DEF DocFits
  <2> QED BY <2>1, <2>2, <2>8
<1>12. Whole(h, Kept, {})
  <2> SUFFICES ASSUME NEW k \in DOMAIN h, h[k] # None PROVE Fits(k, h[k], h, Kept, {})
    BY <1>3 DEF Whole
  <2>1. PICK x : x = h[k] /\ x # None
    OBVIOUS
  <2>2. At(h, k) = x /\ IsKey(k)
    BY <1>3, <2>1 DEF At, Keyed
  <2>3. k \notin KeysOf(f, J) /\ At(f, k) = x
    BY <1>2, <2>1, <2>2
  <2>4. k \in DOMAIN f /\ f[k] = x
    BY <2>1, <2>3 DEF At
  <2>5. Fits(k, x, f, Kept, {})
    BY <2>1, <2>4 DEF Whole
  <2>6. k[1] = "doc" => DocFits(k[2], x, h, Kept, {})
    <3>1. ASSUME k[1] = "doc" PROVE k = Doc(k[2]) /\ k[2] \in Sids(h)
      <4>1. k = Doc(k[2])
        BY <2>2, <3>1, KeyKinds
      <4> QED BY <1>3, <2>1, <2>2, <4>1, SidsAt
    <3> QED BY <1>11, <2>2, <3>1
  <2>7. k[1] = "index" => x \in Sids(h) /\ x[1] = k[2] /\ Policy[k[2]] = "content_id"
    <3>1. ASSUME k[1] = "index" PROVE x \notin J
      <4>1. x[1] = k[2] /\ Policy[k[2]] = "content_id" /\ k = Index(k[2])
        BY <2>2, <2>5, <3>1, KeyKinds DEF Fits
      <4>2. ASSUME x \in J PROVE Index(x[1]) \in KeysOf(f, J)
        <5>1. Policy[x[1]] = "content_id"
          BY <4>1
        <5>2. Index(x[1]) \in {Doc(x)} \cup Claims(At(f, Doc(x)).obj, x)
                                 \cup (IF Policy[x[1]] = "content_id" THEN {Index(x[1])} ELSE {})
          BY <5>1
        <5>3. PICK K : K = {Doc(x)} \cup Claims(At(f, Doc(x)).obj, x)
                                 \cup (IF Policy[x[1]] = "content_id" THEN {Index(x[1])} ELSE {})
          OBVIOUS
        <5>4. K \subseteq KeysOf(f, J)
          BY <4>2, <5>3 DEF KeysOf
        <5> QED BY <5>2, <5>3, <5>4
      <4> QED BY <2>3, <4>1, <4>2
    <3> QED BY <1>5, <2>5, <3>1 DEF Fits
  <2>8. k[1] = "dispatch" => x \in Mains(h) /\ x[1] = k[2]
    BY <1>9, <2>4, <2>5 DEF Fits
  <2>9. (k[1] = "claim" => Numbered(h, x)) /\ (k[1] = "counter" => x \in Nat)
    BY <1>10, <2>5 DEF Fits
  <2> QED BY <2>1, <2>6, <2>7, <2>8, <2>9 DEF Fits
<1>13. ASSUME NEW k \in KeysOf(f, J) PROVE At(f, k) # None /\ At(b, k) = None
  <2>1. PICK s \in J : /\ At(f, k) # None /\ k[1] \in {"doc", "claim", "index"} /\ IsKey(k)
                       /\ k[1] = "claim" => At(f, k) = s
                       /\ k[1] = "index" => At(f, k) = s /\ k = Index(s[1])
                       /\ k[1] = "doc" => k = Doc(s)
    BY <1>13, KeysOfAre
  <2>2. ~Numbered(b, s) /\ s \notin Sids(b)
    <3>1. ~Numbered(b, s)
      BY <2>1
    <3>2. s \in Sid
      BY <2>1, WholeDocs DEF DocFits
    <3> QED BY <3>1, <3>2, NumbersAfter
  <2>3. KeyGrows(k, At(b, k), At(f, k))
    BY GrownAt
  <2>4. CASE k[1] = "doc"
    BY <1>3, <2>1, <2>2, <2>4, SidsAt
  <2>5. CASE k[1] = "index" /\ At(b, k) # None
    <3>1. At(b, k) = s
      BY <2>1, <2>3, <2>5 DEF KeyGrows
    <3>2. At(b, k) \in Sids(b)
      BY <2>1, <2>5, WholeKeys
    <3> QED BY <2>2, <3>1, <3>2
  <2>6. CASE k[1] = "claim" /\ At(b, k) # None
    <3>1. At(b, k) = s
      BY <2>1, <2>3, <2>6 DEF KeyGrows
    <3>2. k = Claim(k[2], k[3])
      BY <2>1, <2>6, KeyKinds
    <3>3. Numbered(b, At(b, k))
      BY <2>6, <3>2, WholeKeys
    <3> QED BY <2>2, <3>1, <3>3
  <2> QED BY <2>1, <2>4, <2>5, <2>6
<1>14. Grown(b, h)
  <2> SUFFICES ASSUME NEW k \in DOMAIN b PROVE KeyGrows(k, At(b, k), At(h, k))
    BY DEF Grown
  <2>1. CASE k \in KeysOf(f, J)
    BY <1>13, <2>1 DEF KeyGrows
  <2>2. CASE k \notin KeysOf(f, J)
    BY <1>2, <2>2, GrownAt
  <2> QED BY <2>1, <2>2
<1> QED BY <1>1, <1>8, <1>12, <1>13, <1>14

\* What was inserted for the record on top can be taken back.
LEMMA TopInserted ==
  ASSUME NEW c, NEW f, NEW b, NEW t, t, CallBase(c, f, b, t), c.frames # <<>>, NEW y, y = TopOf(c), y.stage = "refs",
         NEW J, J = SinceMark(c, y.mark)
  PROVE  /\ J \subseteq Sids(f) /\ J \subseteq SinceMark(c, 0)
         /\ \A s \in J : ~Numbered(b, s) /\ Rank[s[1]] < Rank[Content[y.obj]]
         /\ Unreferred(f, J)
         /\ \A k \in DOMAIN f : k[1] = "dispatch" => f[k] \notin J
<1>1. c \in CallType /\ FramesSound(c) /\ InsertedSound(c, f, b)
  BY DEF CallBase
<1>2. PICK n, k : n = Len(c.frames) /\ k = Len(c.inserted)
  OBVIOUS
<1>3. n \in Nat /\ k \in Nat /\ n \in 1 .. n /\ y = c.frames[n] /\ y \in FrameType /\ y.mark \in Nat
  BY <1>1, <1>2, CallFields, FrameFields
<1>4. PICK q \in Seq(Sid) : q = c.inserted
  BY <1>1, CallFields
<1>5. J = {q[j] : j \in y.mark + 1 .. k} /\ \A j \in y.mark + 1 .. k : j \in DOMAIN q
  BY <1>2, <1>3, <1>4 DEF SinceMark
<1>6. J \subseteq SinceMark(c, 0)
  BY <1>1, <1>3, SinceFacts
<1>7. \A j \in DOMAIN q : q[j] \in Sids(f) /\ ~Numbered(b, q[j])
  BY <1>1, <1>4 DEF InsertedSound
<1>8. \A j \in y.mark + 1 .. k : Rank[q[j][1]] < Rank[Content[y.obj]]
  <2>1. \A j \in c.frames[n].mark + 1 .. k :
          \/ Rank[q[j][1]] < Rank[Content[c.frames[n].obj]]
          \/ c.frames[n].stage = "claim" /\ j = k
    BY <1>1, <1>2, <1>3, <1>4 DEF InsertedSound
  <2> QED BY <1>3, <2>1
<1>9. ASSUME Kept, NEW s \in Sids(f), NEW j \in y.mark + 1 .. k, q[j] \in At(f, Doc(s)).refs PROVE s \in J
  <2>1. s \in SinceMark(c, j)
    BY <1>1, <1>4, <1>5, <1>9 DEF InsertedSound
  <2>2. SinceMark(c, j) \subseteq J
    <3>1. j \in Nat /\ y.mark <= j
      BY <1>3
    <3> QED BY <1>1, <1>3, <3>1, SinceFacts
  <2> QED BY <2>1, <2>2
<1>10. Unreferred(f, J)
  BY <1>5, <1>9 DEF Unreferred
<1>11. \A x \in DOMAIN f : x[1] = "dispatch" => f[x] \notin J
  BY <1>1, <1>6 DEF InsertedSound
<1> QED BY <1>5, <1>6, <1>7, <1>8, <1>10, <1>11

TakenFrom(c, d, g, b, t, y) ==
  Poppable(d, g, b, t) /\ d.call = c.call /\ TopOf(d) = y /\ SinceMark(d, 0) \subseteq SinceMark(c, 0)

LEMMA TakenBack ==
  ASSUME NEW c, NEW f, NEW b, NEW t, t, CallBase(c, f, b, t), c.frames # <<>>, NEW y, y = TopOf(c), y.stage = "refs",
         NEW J, J = SinceMark(c, y.mark), NEW g, Sids(g) = Sids(f) \ J, Mains(f) \ J \subseteq Mains(g),
         \A s \in Sids(g) : At(g, Doc(s)).refs = At(f, Doc(s)).refs,
         \A k : k[1] = "dispatch" => At(g, k) = At(f, k),
         NEW m, m \subseteq c.memo, \A x \in m : x.sid \notin J, NEW i, i = SubSeq(c.inserted, 1, y.mark),
         NEW d, d = [call |-> c.call, attempt |-> c.attempt, frames |-> c.frames, memo |-> m, inserted |-> i]
  PROVE  TakenFrom(c, d, g, b, t, y)
<1>1. /\ c \in CallType /\ FramesSound(c) /\ GotSound(c, f) /\ MemoSound(c, f) /\ InsertedSound(c, f, b)
      /\ c.call # None
  BY FramesOfCall DEF CallBase
<1>2. PICK n, k, a : n = Len(c.frames) /\ k = Len(c.inserted) /\ a = y.mark
  OBVIOUS
<1>3. n \in Nat /\ k \in Nat /\ n \in 1 .. n /\ y = c.frames[n] /\ a \in Nat
  BY <1>1, <1>2, CallFields, FrameFields
<1>4. PICK q \in Seq(Sid) : q = c.inserted
  BY <1>1, CallFields
<1>5. /\ a <= k
      /\ \A j \in 1 .. n : c.frames[j].mark <= a /\ c.frames[j].mark \in Nat /\ c.frames[j].stage = "refs"
  <2>1. ASSUME NEW j \in 1 .. n PROVE c.frames[j].mark <= a /\ c.frames[j].mark \in Nat /\ c.frames[j].stage = "refs"
    <3>1. c.frames[j] \in FrameType
      <4>1. PICK u \in Seq(FrameType) : u = c.frames
        BY <1>1, CallFields
      <4> QED BY <1>2, <4>1
    <3>2. c.frames[j].mark \in Nat
      BY <3>1, FrameFields
    <3>3. CASE j = n
      BY <1>2, <1>3, <3>2, <3>3
    <3>4. CASE j # n
      <4>1. j < n /\ j \in 1 .. n - 1
        BY <1>3, <3>4
      <4> QED BY <1>1, <1>2, <1>3, <3>2, <4>1 DEF FramesSound
    <3> QED BY <3>3, <3>4
  <2>2. a <= k
    BY <1>1, <1>2, <1>3 DEF FramesSound
  <2> QED BY <2>1, <2>2
<1>6. i \in Seq(Sid) /\ Len(i) = a /\ DOMAIN i = 1 .. a /\ DOMAIN q = 1 .. k /\ \A j \in 1 .. a : i[j] = q[j] /\ j \in 1 .. k
  <2>1. i \in Seq(Sid) /\ Len(i) = a /\ \A j \in 1 .. a : i[j] = q[j]
    BY <1>2, <1>3, <1>4, <1>5, FirstOf
  <2> QED BY <1>2, <1>3, <1>4, <1>5, <2>1
<1>7. d.call = c.call /\ d.attempt = c.attempt /\ d.frames = c.frames /\ d.memo = m /\ d.inserted = i
  BY CallMade
<1>8. d \in CallType
  <2>1. m \in SUBSET MemoType
    BY <1>1, CallFields
  <2> QED BY <1>1, <1>6, <2>1, CallFields DEF CallType
<1>9. J = {q[j] : j \in a + 1 .. k}
  BY <1>2, <1>4 DEF SinceMark
<1>10. \A x, z \in 1 .. k : q[x] = q[z] => x = z
  BY <1>1, <1>4, <1>6 DEF InsertedSound
<1>11. \A j \in 1 .. a : q[j] \notin J
  <2> SUFFICES ASSUME NEW j \in 1 .. a, NEW z \in a + 1 .. k, q[j] = q[z] PROVE FALSE
    BY <1>9
  <2>1. j \in 1 .. k /\ z \in 1 .. k /\ j # z
    BY <1>3, <1>5
  <2> QED BY <1>10, <2>1
<1>12. ASSUME NEW x \in Nat
       PROVE  SinceMark(d, x) \subseteq SinceMark(c, x) /\ SinceMark(c, x) \ J \subseteq SinceMark(d, x)
  <2>1. SinceMark(d, x) = {i[j] : j \in x + 1 .. a} /\ SinceMark(c, x) = {q[j] : j \in x + 1 .. k}
    BY <1>2, <1>4, <1>6, <1>7 DEF SinceMark
  <2>2. ASSUME NEW j \in x + 1 .. a PROVE i[j] \in SinceMark(c, x)
    <3>1. j \in 1 .. a /\ j \in x + 1 .. k
      BY <1>3, <1>5
    <3> QED BY <1>6, <2>1, <3>1
  <2>3. ASSUME NEW j \in x + 1 .. k, q[j] \notin J PROVE q[j] \in SinceMark(d, x)
    <3>1. j \notin a + 1 .. k
      BY <1>9, <2>3
    <3>2. j \in 1 .. a /\ j \in x + 1 .. a
      BY <1>3, <3>1
    <3> QED BY <1>6, <2>1, <3>2
  <2> QED BY <2>1, <2>2, <2>3
<1>13. FramesSound(d)
  <2>1. \A j \in 1 .. n : d.frames[j].mark <= Len(d.inserted)
    BY <1>5, <1>6, <1>7
  <2> QED BY ZenonT(20), <1>1, <1>2, <1>7, <2>1 DEF FramesSound
<1>14. MemoSound(d, g)
  BY <1>1, <1>7 DEF MemoSound
<1>15. \A j \in 1 .. Len(d.frames) - 1 : d.frames[j].got \subseteq Sids(g)
  <2> SUFFICES ASSUME NEW j \in 1 .. n - 1 PROVE c.frames[j].got \subseteq Sids(f) \ J
    BY <1>2, <1>7
  <2>1. j \in 1 .. n /\ j + 1 \in 1 .. n
    BY <1>3
  <2>2. c.frames[j].got \subseteq Sids(f) /\ c.frames[j].got \cap SinceMark(c, c.frames[j + 1].mark) = {}
    BY <1>1, <1>2, <2>1 DEF GotSound, InsertedSound
  <2>3. J \subseteq SinceMark(c, c.frames[j + 1].mark)
    BY <1>1, <1>2, <1>3, <1>5, <2>1, SinceFacts
  <2> QED BY <2>2, <2>3
<1>16. InsertedSound(d, g, b)
  <2>1. \A j \in DOMAIN d.inserted : d.inserted[j] \in Sids(g) /\ ~Numbered(b, d.inserted[j])
    <3>1. \A j \in 1 .. k : q[j] \in Sids(f) /\ ~Numbered(b, q[j])
      BY <1>1, <1>4, <1>6 DEF InsertedSound
    <3> QED BY <1>6, <1>7, <1>11, <3>1
  <2>2. \A x, z \in DOMAIN d.inserted : d.inserted[x] = d.inserted[z] => x = z
    <3> SUFFICES ASSUME NEW x \in DOMAIN d.inserted, NEW z \in DOMAIN d.inserted, d.inserted[x] = d.inserted[z]
                 PROVE  x = z
      OBVIOUS
    <3>1. x \in 1 .. a /\ z \in 1 .. a /\ i[x] = i[z]
      BY <1>6, <1>7
    <3>2. x \in 1 .. k /\ z \in 1 .. k /\ i[x] = q[x] /\ i[z] = q[z]
      BY <1>6, <3>1
    <3> QED BY <1>10, <3>1, <3>2
  <2>3. \A x \in 1 .. Len(d.frames) : \A j \in d.frames[x].mark + 1 .. Len(d.inserted) :
          \/ Rank[d.inserted[j][1]] < Rank[Content[d.frames[x].obj]]
          \/ d.frames[x].stage = "claim" /\ j = Len(d.inserted)
    <3> SUFFICES ASSUME NEW x \in 1 .. n, NEW j \in c.frames[x].mark + 1 .. a
                 PROVE  Rank[i[j][1]] < Rank[Content[c.frames[x].obj]]
      BY <1>2, <1>6, <1>7
    <3>1. j \in 1 .. a /\ j \in c.frames[x].mark + 1 .. k /\ c.frames[x].stage # "claim"
      BY <1>3, <1>5
    <3>2. Rank[q[j][1]] < Rank[Content[c.frames[x].obj]]
      BY <1>1, <1>2, <1>4, <3>1 DEF InsertedSound
    <3> QED BY <1>6, <3>1, <3>2
  <2>4. \A x \in 1 .. Len(d.frames) - 1 : d.frames[x].got \cap SinceMark(d, d.frames[x + 1].mark) = {}
    <3> SUFFICES ASSUME NEW x \in 1 .. n - 1 PROVE c.frames[x].got \cap SinceMark(d, c.frames[x + 1].mark) = {}
      BY <1>2, <1>7
    <3>1. x + 1 \in 1 .. n
      BY <1>3
    <3>2. c.frames[x].got \cap SinceMark(c, c.frames[x + 1].mark) = {}
      BY <1>1, <1>2 DEF InsertedSound
    <3> QED BY <1>5, <1>12, <3>1, <3>2
  <2>5. ASSUME Kept, NEW j \in DOMAIN d.inserted, NEW s \in Sids(g), d.inserted[j] \in At(g, Doc(s)).refs
        PROVE  s \in SinceMark(d, j)
    <3>1. j \in 1 .. a /\ j \in 1 .. k /\ i[j] = q[j] /\ j \in Nat
      BY <1>6, <1>7
    <3>2. q[j] \in At(f, Doc(s)).refs /\ s \in Sids(f) /\ s \notin J
      BY <1>7, <2>5, <3>1
    <3>3. s \in SinceMark(c, j)
      BY <1>1, <1>4, <1>6, <2>5, <3>1, <3>2 DEF InsertedSound
    <3> QED BY <1>12, <3>1, <3>2, <3>3
  <2>6. \A x \in DOMAIN g : x[1] = "dispatch" => g[x] \notin SinceMark(d, 0)
    <3>1. SinceMark(d, 0) \subseteq SinceMark(c, 0)
      BY <1>12
    <3>2. ASSUME NEW x \in DOMAIN g, x[1] = "dispatch" PROVE g[x] \notin SinceMark(c, 0)
      <4>1. g[x] = At(f, x)
        BY <3>2 DEF At
      <4>2. CASE x \in DOMAIN f
        BY <1>1, <3>2, <4>1, <4>2 DEF At, InsertedSound
      <4>3. CASE x \notin DOMAIN f
        BY <1>1, <4>1, <4>3, SinceFacts DEF At
      <4> QED BY <4>2, <4>3
    <3> QED BY <3>1, <3>2
  <2> QED BY <2>1, <2>2, <2>3, <2>4, <2>5, <2>6 DEF InsertedSound
<1>17. TopOf(d) = y
  BY <1>7 DEF TopOf
<1>18. SinceMark(d, 0) \subseteq SinceMark(c, 0)
  BY <1>12
<1> QED BY <1>1, <1>7, <1>8, <1>13, <1>14, <1>15, <1>16, <1>17, <1>18 DEF Poppable, TakenFrom

\* The adoption of a document that has not changed since.
LEMMA AdoptedAfter ==
  ASSUME NEW p, NEW f, f = View(p), Whole(f, Kept, {}), NEW s \in Sids(f), NEW h, Whole(h, Kept, {}), s \in Sids(h),
         At(h, Doc(s)) = At(f, Doc(s)), NEW g, g = Over(Adoption(p, s), h)
  PROVE  /\ Whole(g, Kept, {}) /\ Grown(h, g) /\ Sids(g) = Sids(h)
         /\ \A k : k[1] # "doc" => At(g, k) = At(h, k)
         /\ Top(p).top => s \in Mains(g)
<1>1. PICK a, x : a = Adoption(p, s) /\ x = Over(a, f)
  OBVIOUS
<1>2. /\ Top(p).top => s \in Mains(x)
      /\ DOMAIN a \subseteq {Doc(s)} /\ \A k \in DOMAIN a : a[k] = [At(f, Doc(s)) EXCEPT !.role = "main"]
  BY <1>1, AdoptionIs
<1>3. Keyed(f) /\ Keyed(h)
  BY DEF Whole
<1>4. CASE Doc(s) \in DOMAIN a
  <2>1. DOMAIN a = {Doc(s)} /\ a[Doc(s)] = [At(h, Doc(s)) EXCEPT !.role = "main"]
    BY <1>2, <1>4
  <2>2. PICK v : v = Put(Doc(s), [At(h, Doc(s)) EXCEPT !.role = "main"])
    OBVIOUS
  <2>3. DOMAIN v = {Doc(s)} /\ v[Doc(s)] = [At(h, Doc(s)) EXCEPT !.role = "main"]
    BY <2>2, PutAt
  <2>4. DOMAIN a = DOMAIN v /\ \A k \in DOMAIN v : a[k] = v[k]
    BY <2>1, <2>3
  <2>5. Over(a, h) = Over(v, h)
    BY <2>4 DEF Over
  <2>6. g = Over(Put(Doc(s), [At(h, Doc(s)) EXCEPT !.role = "main"]), h)
    BY <1>1, <2>2, <2>5
  <2> QED BY <2>6, PromotedWhole
<1>5. CASE Doc(s) \notin DOMAIN a
  <2>1. DOMAIN a = {}
    BY <1>2, <1>5
  <2>2. \A z : z = [k \in DOMAIN z |-> z[k]] => Over(a, z) = z
    BY <2>1 DEF Over
  <2>3. g = h /\ x = f
    BY <1>1, <1>3, <2>2 DEF Keyed
  <2>4. Top(p).top => s \in Mains(g)
    BY <1>2, <1>3, <2>3, SidsAt
  <2>5. Grown(h, g)
    BY <2>3, GrownSame
  <2> QED BY <2>3, <2>4, <2>5
<1> QED BY <1>4, <1>5

LEMMA UndoneIs ==
  ASSUME NEW p, NEW f, f = View(p), NEW J, J = Inserted(p), J \subseteq Sids(f), Whole(f, Kept, {})
  PROVE  Undone(p) = [k \in KeysOf(f, J) |-> None]
<1>1. ASSUME NEW s \in J PROVE Claimed(f, s) = Claims(At(f, Doc(s)).obj, s)
  <2>1. Document(f, s) = At(f, Doc(s))
    BY WholeDocs
  <2> QED BY <2>1 DEF Claimed, Claims
<1>2. \A s \in J : {Doc(s)} \cup Claimed(f, s) \cup (IF Policy[s[1]] = "content_id" THEN {Index(s[1])} ELSE {})
                 = {Doc(s)} \cup Claims(At(f, Doc(s)).obj, s) \cup (IF Policy[s[1]] = "content_id" THEN {Index(s[1])} ELSE {})
  BY <1>1
<1>3. UNION {{Doc(s)} \cup Claimed(f, s) \cup (IF Policy[s[1]] = "content_id" THEN {Index(s[1])} ELSE {}) : s \in J}
      = KeysOf(f, J)
  BY <1>2 DEF KeysOf
<1> QED BY <1>3 DEF Undone

LEMMA FindValueKeeps ==
  ASSUME Inv, NEW p \in Stores, FindValue(p)
  PROVE  Inv'
<1>1. PICK t, b, f, c, y, o, s, a :
        /\ t = Transactional /\ b = txn[p].snapshot /\ f = View(p) /\ c = op[p] /\ y = TopOf(c) /\ o = y.obj
        /\ s = (CHOOSE z \in Same(p, Top(p).obj) : TRUE) /\ a = Adoption(p, s)
  OBVIOUS
<1>10. t = Transactional /\ b = txn[p].snapshot /\ f = View(p) /\ c = op[p] /\ y = TopOf(c) /\ o = y.obj
  BY <1>1
<1>2. In(p, "refs") /\ Same(p, Top(p).obj) # {}
  BY DEF FindValue
<1>3. /\ Top(p) = y /\ c.frames # <<>> /\ y.stage = "refs" /\ op[p].call # None /\ Active(p)
      /\ t \in BOOLEAN /\ fsck = None /\ (~t => f = db) /\ Whole(f, Kept, OpenSids(c, t)) /\ Keyed(f)
      /\ CallSound(c, f, b, t) /\ CallBase(c, f, b, t) /\ c \in CallType
      /\ (t => OpenSound(txn[p], c, f) /\ Grown(b, f) /\ Keyed(b))
      /\ y \in FrameType /\ y.obj \in Objects
  BY <1>1, <1>2, OnTop
<1>4. ~At0(c, {"claim", "insert"})
  BY <1>1, <1>3 DEF At0
<1>5. OpenSids(c, t) = {} /\ Whole(f, Kept, {})
  BY <1>3, <1>4, Unheld
<1>6. s \in Sids(f) /\ s[1] = Content[o] /\ s \in Sid
  <2>1. s \in Same(p, o)
    BY <1>1, <1>2, <1>3
  <2>2. s \in Sids(f) /\ Content[Document(f, s).obj] = Content[o]
    BY <1>1, <2>1 DEF Same
  <2>3. s \in Sid /\ s[1] = Content[Document(f, s).obj]
    BY <1>5, <2>2, WholeDocs DEF DocFits
  <2> QED BY <2>2, <2>3
<1>7. CASE \E k \in DOMAIN a : Conflict(p, k)
  <2>1. Transactional /\ Retry(p)
    BY <1>1, <1>7 DEF FindValue, Conflict
  <2> QED BY <1>3, <2>1, RetryKeeps
<1>8. CASE ~(\E k \in DOMAIN a : Conflict(p, k)) /\ ~t
  <2>1. PICK v, g, e : v = Over(a, Nothing) /\ g = Over(v, f) /\ e = HandDown(c, s)
    OBVIOUS
  <2>2. Write(p, v) /\ op' = [op EXCEPT ![p] = e] /\ UNCHANGED deployment /\ Settled
    BY <1>1, <1>8, <2>1 DEF FindValue, Given
  <2>3. g = Over(Adoption(p, s), f) /\ DOMAIN v = DOMAIN a
    BY <1>1, <2>1 DEF Over, Nothing
  <2>4. /\ Whole(g, Kept, {}) /\ Grown(f, g) /\ Sids(g) = Sids(f) /\ (y.top => s \in Mains(g))
        /\ \A k : k[1] # "doc" => At(g, k) = At(f, k)
    BY <1>3, <1>5, <1>6, <1>10, <2>3, AdoptionIs
  <2>5. Keyed(g) /\ \A k : k[1] = "dispatch" => At(g, k) = At(f, k)
    BY <2>4 DEF Whole
  <2>6. CallBase(c, g, b, t)
    BY <1>3, <2>4, <2>5, BaseKept
  <2>7. /\ CallSound(e, g, b, t) /\ e.call # None /\ Held(e) = {} /\ OpenSids(e, t) = {}
    <3>1. s \in Sids(g) /\ s[1] = Content[TopOf(c).obj] /\ (TopOf(c).top => s \in Mains(g)) /\ e = HandDown(c, s)
      BY <1>6, <1>10, <2>1, <2>4
    <3>2. Whole(g, Kept, {}) /\ c.frames # <<>>
      BY <1>3, <2>4
    <3> QED BY <2>6, <3>1, <3>2, GivenSound
  <2>8. t => OpenSound(txn[p], e, g)
    BY <1>8
  <2>9. \A k \in DOMAIN v : ~Conflict(p, k)
    BY <1>8, <2>3
  <2>10. ~t => \A q \in Stores \ {p} : Held(op[q]) \cap Held(e) = {} /\ Held(op[q]) \cap Sids(g) \subseteq Sids(db)
    BY <1>3, <2>4, <2>7
  <2>11. Whole(g, Kept, OpenSids(e, t)) /\ Grown(f, g)
    BY <2>4, <2>7
  <2>12. /\ t = Transactional /\ b = txn[p].snapshot /\ f = View(p) /\ op' = [op EXCEPT ![p] = e] /\ g = Over(v, f)
         /\ UNCHANGED <<deployment, known, seen, gen, fsck, returned>> /\ Write(p, v)
    BY <1>1, <2>1, <2>2 DEF Settled
  <2> QED BY <1>3, <2>7, <2>8, <2>9, <2>10, <2>11, <2>12, Wrote
<1>9. CASE ~(\E k \in DOMAIN a : Conflict(p, k)) /\ t
  <2>1. PICK J, u, h, w, g, m, i, d, e :
          /\ J = SinceMark(c, y.mark) /\ u = [k \in KeysOf(f, J) |-> None] /\ h = Over(u, f)
          /\ w = Over(Over(a, u), txn[p].writes) /\ g = Over(a, h)
          /\ m = {x \in c.memo : x.sid \notin J} /\ i = SubSeq(c.inserted, 1, y.mark)
          /\ d = [call |-> c.call, attempt |-> c.attempt, frames |-> c.frames, memo |-> m, inserted |-> i]
          /\ e = HandDown(d, s)
    OBVIOUS
  <2>2. /\ J \subseteq Sids(f) /\ J \subseteq SinceMark(c, 0)
        /\ \A z \in J : ~Numbered(b, z) /\ Rank[z[1]] < Rank[Content[y.obj]]
        /\ Unreferred(f, J)
        /\ \A k \in DOMAIN f : k[1] = "dispatch" => f[k] \notin J
    <3>1. J = SinceMark(c, y.mark)
      BY <2>1
    <3>2. t /\ CallBase(c, f, b, t) /\ c.frames # <<>> /\ y = TopOf(c) /\ y.stage = "refs"
      BY <1>3, <1>9, <1>10
    <3> QED BY ZenonT(20), <3>1, <3>2, TopInserted
  <2>3. Inserted(p) = J
    BY <1>1, <1>3, <2>1 DEF Inserted, SinceMark
  <2>4. Undone(p) = u
    BY <1>1, <1>5, <2>1, <2>2, <2>3, UndoneIs
  <2>5. Whole(b, Kept, {}) /\ Grown(b, f) /\ f = Over(txn[p].writes, b)
    BY <1>1, <1>3, <1>9, ViewFacts
  <2>6. /\ Whole(h, Kept, {}) /\ Grown(b, h) /\ Without(h, f, J)
        /\ \A k \in DOMAIN u : At(f, k) # None /\ At(b, k) = None
    <3>1. \A z \in J : ~Numbered(b, z)
      BY <2>2
    <3> QED BY <1>5, <2>1, <2>2, <2>5, <3>1, UndoneWhole
  <2>7. s \notin J
    <3>1. Rank[Content[o]] \in Nat
      BY <1>1, <1>3, Constants
    <3> QED BY <1>1, <1>6, <2>2, <3>1
  <2>8. s \in Sids(h) /\ At(h, Doc(s)) = At(f, Doc(s))
    BY <1>6, <2>6, <2>7 DEF Without
  <2>9. /\ Whole(g, Kept, {}) /\ Grown(h, g) /\ Sids(g) = Sids(h) /\ (y.top => s \in Mains(g))
        /\ \A k : k[1] # "doc" => At(g, k) = At(h, k)
    <3>1. g = Over(Adoption(p, s), h)
      BY <1>1, <2>1
    <3>2. Whole(h, Kept, {})
      BY <2>6
    <3> QED BY <1>3, <1>5, <1>6, <1>10, <2>8, <3>1, <3>2, AdoptedAfter
  <2>10. Keyed(g) /\ Keyed(h) /\ Grown(b, g)
    BY <2>6, <2>9, GrownOn DEF Whole
  <2>11. /\ Sids(g) = Sids(f) \ J /\ Mains(f) \ J \subseteq Mains(g)
         /\ \A z \in Sids(g) : At(g, Doc(z)).refs = At(f, Doc(z)).refs
         /\ \A k : k[1] = "dispatch" => At(g, k) = At(f, k)
    <3>1. /\ Sids(h) = Sids(f) \ J /\ \A z \in Sids(h) : At(h, Doc(z)) = At(f, Doc(z))
          /\ \A k : k[1] = "dispatch" => At(h, k) = At(f, k)
      BY <2>6 DEF Without
    <3>2. Mains(h) \subseteq Mains(g) /\ \A z \in Sids(h) : At(g, Doc(z)).refs = At(h, Doc(z)).refs
      BY <2>9, <2>10, GrownFacts
    <3>3. Mains(f) \ J \subseteq Mains(h)
      BY <1>3, <2>10, <3>1, SidsAt
    <3> QED BY <2>9, <3>1, <3>2, <3>3
  <2>12. Poppable(d, g, b, t) /\ d.call = c.call /\ TopOf(d) = y /\ SinceMark(d, 0) \subseteq SinceMark(c, 0)
    <3>1. J = SinceMark(c, y.mark)
      BY <2>1
    <3>2. m \subseteq c.memo /\ \A x \in m : x.sid \notin J
      BY <2>1
    <3>3. i = SubSeq(c.inserted, 1, y.mark)
      BY <2>1
    <3>4. d = [call |-> c.call, attempt |-> c.attempt, frames |-> c.frames, memo |-> m, inserted |-> i]
      BY <2>1
    <3>5. t /\ CallBase(c, f, b, t) /\ c.frames # <<>> /\ y = TopOf(c) /\ y.stage = "refs"
      BY <1>3, <1>9, <1>10
    <3>6. /\ Sids(g) = Sids(f) \ J /\ Mains(f) \ J \subseteq Mains(g)
          /\ \A s_1 \in Sids(g) : At(g, Doc(s_1)).refs = At(f, Doc(s_1)).refs
          /\ \A k : k[1] = "dispatch" => At(g, k) = At(f, k)
      BY <2>11
    <3>7. TakenFrom(c, d, g, b, t, y)
      BY <3>1, <3>2, <3>3, <3>4, <3>5, <3>6, TakenBack
    <3> QED BY <3>7 DEF TakenFrom
  <2>13. Len(d.frames) = 1 => s \in Mains(g)
    <3>1. d.frames = c.frames
      BY <2>1, CallMade
    <3> QED BY <1>1, <1>3, <2>9, <3>1, FramesOfCall
  <2>14. CallSound(e, g, b, t) /\ e.call = d.call /\ e.inserted = d.inserted /\ ~At0(e, {"claim", "insert"})
    <3>1. s \in Sids(g) /\ s[1] = Content[TopOf(d).obj]
      BY <1>1, <1>6, <2>8, <2>9, <2>12
    <3>2. e = HandDown(d, s) /\ s \in Sid
      BY <1>6, <2>1
    <3>3. Poppable(d, g, b, t)
      BY <2>12
    <3> QED BY <2>13, <3>1, <3>2, <3>3, HandDownSound
  <2>15. Held(e) = {} /\ OpenSids(e, t) = {}
    BY <2>14, Unheld
  <2>16. OpenSound(txn[p], e, g)
    <3>1. SinceMark(e, 0) \subseteq SinceMark(c, 0)
      BY <2>12, <2>14 DEF SinceMark
    <3>2. \A z \in txn[p].pending \cup txn[p].answers : z.sid \notin SinceMark(c, 0) /\ z.sid \notin J
      BY <1>3, <1>9, <2>2 DEF OpenSound
    <3>3. \A z \in txn[p].pending : z.sid \in Sids(g) /\ z.sid[1] = Content[z.obj]
      BY <1>3, <1>9, <2>11, <3>2 DEF OpenSound
    <3>4. \A z \in txn[p].answers : /\ z.sid \in Mains(g) /\ z.sid[1] = Content[z.obj]
                                    /\ z.sid[1] \in Entries => At(g, Route(z.sid[1])) = z.sid
      <4>1. \A k : At(g, Route(k)) = At(f, Route(k))
        BY <2>11, KeysDiffer
      <4> QED BY <1>3, <1>9, <2>11, <3>2, <4>1 DEF OpenSound
    <3> QED BY <3>1, <3>2, <3>3, <3>4 DEF OpenSound
  <2>17. /\ Write(p, Over(a, u)) /\ UNCHANGED deployment /\ Settled
         /\ op' = [op EXCEPT ![p] = HandDown([op[p] EXCEPT !.memo = Forget(p), !.inserted = SubSeq(@, 1, Top(p).mark)], s)]
    BY <1>1, <1>9, <2>4 DEF FindValue
  <2>18. op' = [op EXCEPT ![p] = e]
    <3>1. Forget(p) = m
      BY <1>1, <2>1, <2>3 DEF Forget
    <3>2. PICK z : z = [c EXCEPT !.memo = m, !.inserted = i]
      OBVIOUS
    <3>3. z = d
      <4>1. z = [call |-> c.call, attempt |-> c.attempt, frames |-> c.frames, memo |-> m, inserted |-> i]
        BY <1>3, <3>2, CallExcept
      <4> QED BY <2>1, <4>1
    <3>4. [op[p] EXCEPT !.memo = Forget(p), !.inserted = SubSeq(@, 1, Top(p).mark)] = z
      BY <1>1, <1>3, <2>1, <3>1, <3>2
    <3> QED BY <2>1, <2>17, <3>3, <3>4
  <2>19. db' = db /\ txn' = [txn EXCEPT ![p].writes = w]
    BY <1>1, <1>9, <2>1, <2>17 DEF Write
  <2>20. g = Over(w, b)
    <3>1. PICK W : W = txn[p].writes
      OBVIOUS
    <3>2. Over(w, b) = Over(Over(a, u), Over(W, b))
      BY <2>1, <3>1, OverOver
    <3>3. Over(Over(a, u), f) = Over(a, h)
      BY <2>1, OverOver
    <3> QED BY <2>1, <2>5, <3>1, <3>2, <3>3
  <2>21. \A k \in DOMAIN w : k \in DOMAIN txn[p].writes \/ ~Conflict(p, k)
    <3>1. DOMAIN w \subseteq DOMAIN a \cup DOMAIN u \cup DOMAIN txn[p].writes
      BY <2>1 DEF Over
    <3>2. \A k \in DOMAIN u : k \in DOMAIN txn[p].writes
      BY <2>5, <2>6 DEF At, Over
    <3> QED BY <1>9, <3>1, <3>2
  <2>22. /\ t = Transactional /\ b = txn[p].snapshot /\ op' = [op EXCEPT ![p] = e]
         /\ UNCHANGED <<deployment, known, seen, gen, fsck, returned>>
         /\ e.call # None /\ CallSound(e, g, b, t) /\ Whole(g, Kept, OpenSids(e, t))
    BY <1>1, <1>3, <2>9, <2>12, <2>14, <2>15, <2>17, <2>18 DEF Settled
  <2>23. /\ t => /\ db' = db /\ txn' = [txn EXCEPT ![p].writes = w] /\ g = Over(w, b)
                 /\ \A k \in DOMAIN w : k \in DOMAIN txn[p].writes \/ ~Conflict(p, k)
                 /\ Grown(b, g) /\ OpenSound(txn[p], e, g)
         /\ ~t => /\ db' = g /\ UNCHANGED txn /\ Grown(db, g)
                  /\ \A q \in Stores \ {p} : Held(op[q]) \cap Held(e) = {} /\ Held(op[q]) \cap Sids(g) \subseteq Sids(db)
    BY <1>9, <2>10, <2>16, <2>19, <2>20, <2>21
  <2> QED BY <1>3, <2>22, <2>23, Stepped
<1> QED BY <1>3, <1>7, <1>8, <1>9

-----------------------------------------------------------------------------
(* fsck.                                                                   *)

\* While no save is under way.
LEMMA Rested ==
  ASSUME Inv, \A p \in Stores : ~Active(p), UNCHANGED <<deployment, txn, op>>
  PROVE  SavesSound' /\ (\A p \in Stores : ~Active(p))' /\ Transactional' = Transactional
<1>1. Transactional' = Transactional
  BY DEF Transactional
<1>2. ASSUME NEW p \in Stores PROVE op[p] = Idle /\ txn[p] = NoTxn /\ ~Active(p)
  <2>1. op[p].call = None
    BY DEF Active
  <2>2. CallSound(op[p], View(p), txn[p].snapshot, Transactional)
    BY DEF Inv, SavesSound
  <2>3. op[p] = Idle
    BY <2>1, <2>2 DEF CallSound, CallBase
  <2> QED BY <2>3 DEF Inv, SavesSound
<1>3. \A p \in Stores : op'[p] = Idle /\ txn'[p] = NoTxn
  BY <1>2
<1>4. (\A p \in Stores : ~Active(p))'
  BY <1>2 DEF Active
<1>5. Held(Idle) = {}
  BY IdleSound, Unheld
<1>6. \A p \in Stores : CallSound(op[p], View(p), txn[p].snapshot, Transactional)'
  <2> SUFFICES ASSUME NEW p \in Stores PROVE CallSound(op'[p], View(p)', txn'[p].snapshot, Transactional')
    OBVIOUS
  <2> QED BY <1>3, IdleSound
<1>7. \A p, q \in Stores : ~Transactional' /\ p # q => Held(op'[p]) \cap Held(op'[q]) = {}
  BY <1>3, <1>5
<1>8. DOMAIN NoTxn.writes = {}
  BY NoTxnFields
<1>9. \A p, q \in Stores : p # q => DOMAIN txn'[p].writes \cap DOMAIN txn'[q].writes = {}
  BY <1>3, <1>8
<1>10. SavesSound'
  <2>1. \A p \in Stores : ~(Transactional /\ Active(p))' => txn'[p] = NoTxn
    BY <1>3
  <2>2. \A p \in Stores : (Transactional /\ Active(p))' => TxnSound(txn'[p], op'[p], db')
    BY <1>4
  <2> QED BY <1>6, <1>7, <1>9, <2>1, <2>2 DEF SavesSound
<1> QED BY <1>1, <1>4, <1>10

LEMMA FsckStartKeeps ==
  ASSUME Inv, NEW p \in Stores, FsckStart(p)
  PROVE  Inv'
<1>1. /\ fsck = None /\ gen' = gen + 1
      /\ fsck' = [by |-> p, stage |-> "repair"]
      /\ UNCHANGED <<deployment, db, txn, op, known, seen, returned>>
  BY DEF FsckStart
<1>2. \A q \in Stores : ~Active(q)
  BY DEF FsckStart, Active
<1>3. SavesSound' /\ (\A q \in Stores : ~Active(q))'
  BY <1>1, <1>2, Rested
<1>4. fsck' # None /\ fsck' \in RunType /\ fsck'.stage = "repair"
  BY <1>1, NoneApart DEF RunType
<1>5. gen \in Nat /\ \A q \in Stores : seen[q] \in 0 .. gen
  BY DEF Inv, TypeInv
<1>6. gen' \in Nat /\ \A q \in Stores : seen'[q] \in 0 .. gen' /\ seen'[q] < gen'
  BY <1>1, <1>5
<1>7. TypeInv'
  <2>1. seen' \in [Stores -> 0 .. gen']
    <3>1. seen = [q \in Stores |-> seen[q]]
      BY DEF Inv, TypeInv
    <3> QED BY <1>1, <1>6, <3>1
  <2> QED BY <1>1, <1>4, <1>6, <2>1 DEF Inv, TypeInv
<1>8. CachesSound'
  BY <1>6 DEF CachesSound
<1>9. FsckSound'
  BY <1>3, <1>4, <1>6 DEF FsckSound
<1>10. Whole(db, Kept /\ ~Sweeping, {})'
  <2>1. (Kept /\ ~Sweeping)' = (Kept /\ ~Sweeping)
    BY <1>1, <1>4 DEF Kept, Sweeping
  <2> QED BY <1>1, <2>1 DEF Inv
<1>11. Returned(db)'
  BY <1>1 DEF Inv, Returned
<1> QED BY <1>3, <1>7, <1>8, <1>9, <1>10, <1>11 DEF Inv

LEMMA MarkedSteps ==
  ASSUME NEW f, Whole(f, TRUE, {}) \/ Whole(f, FALSE, {})
  PROVE  \E h : /\ h[0] = Roots(f) /\ Marked(f) = h[Cardinality(Objects)]
                /\ \A n \in Nat : h[n + 1] = h[n] \cup Referred(f, h[n])
<1>0. Keyed(f) /\ Sids(f) \subseteq Sid /\ \A s \in Sids(f) : Document(f, s).refs \subseteq Sid
  <2>1. Keyed(f)
    BY DEF Whole
  <2>2. PICK whole : whole \in BOOLEAN /\ Whole(f, whole, {})
    OBVIOUS
  <2>3. \A s \in Sids(f) : s \in Sid /\ Document(f, s) \in DocType
    BY <2>2, WholeDocs DEF DocFits
  <2> QED BY <2>1, <2>3 DEF DocType
<1>1. Roots(f) \in SUBSET Sid
  BY <1>0, SidsAt DEF Roots
<1>2. \A X \in SUBSET Sid : Referred(f, X) \in SUBSET Sid
  BY <1>0 DEF Referred
<1> DEFINE F == [X \in SUBSET Sid |-> X \cup Referred(f, X)]
           Steps(g) == g = [n \in Nat |-> IF n = 0 THEN Roots(f)
                                          ELSE LET before == g[n - 1] IN before \cup Referred(f, before)]
<1>3. F \in [SUBSET Sid -> SUBSET Sid]
  BY <1>2
<1>4. PICK g \in [Nat -> SUBSET Sid] : g = [n \in Nat |-> IF n = 0 THEN Roots(f) ELSE F[g[n - 1]]]
  <2>1. PICK D : D = SUBSET Sid
    OBVIOUS
  <2>2. F \in [D -> D] /\ Roots(f) \in D
    BY <1>1, <1>3, <2>1
  <2> HIDE DEF F
  <2>3. \E g \in [Nat -> D] : g = [n \in Nat |-> IF n = 0 THEN Roots(f) ELSE F[g[n - 1]]]
    BY <2>2, Iterates
  <2> QED BY <2>1, <2>3
<1>5. \A n \in Nat : g[n] = IF n = 0 THEN Roots(f) ELSE g[n - 1] \cup Referred(f, g[n - 1])
  <2> TAKE n \in Nat
  <2>1. g[n] = IF n = 0 THEN Roots(f) ELSE F[g[n - 1]]
    BY <1>4
  <2>2. n # 0 => g[n - 1] \in SUBSET Sid
    BY SMTT(20), <1>4
  <2> QED BY <2>1, <2>2
<1>6. Steps(g)
  <2>1. g = [n \in Nat |-> g[n]]
    BY <1>4
  <2> QED BY <1>5, <2>1
<1> HIDE DEF Steps
<1>7. PICK h : h = CHOOSE k : Steps(k)
  OBVIOUS
<1>8. Steps(h)
  BY <1>6, <1>7
<1>9. Marked(f) = h[Cardinality(Objects)]
  BY <1>7 DEF Marked, Steps
<1>10. h[0] = Roots(f)
  BY <1>8 DEF Steps
<1>11. \A n \in Nat : h[n + 1] = h[n] \cup Referred(f, h[n])
  <2> TAKE n \in Nat
  <2>1. n + 1 \in Nat /\ n + 1 # 0 /\ (n + 1) - 1 = n
    OBVIOUS
  <2> QED BY <1>8, <2>1 DEF Steps
<1> QED BY <1>9, <1>10, <1>11

\* The mark starts from the roots, stays in each set that has them and what
\* its members refer to, and takes in what the marked refer to.
LEMMA RootsMarked ==
  ASSUME NEW f, Whole(f, TRUE, {}) \/ Whole(f, FALSE, {})
  PROVE  Roots(f) \subseteq Marked(f)
<1>1. PICK h : /\ h[0] = Roots(f) /\ Marked(f) = h[Cardinality(Objects)]
               /\ \A n \in Nat : h[n + 1] = h[n] \cup Referred(f, h[n])
  BY MarkedSteps
<1> DEFINE S == {n \in Nat : Roots(f) \subseteq h[n]}
<1>2. 0 \in S /\ S \subseteq Nat /\ \A n \in S : n + 1 \in S
  BY <1>1
<1>3. S = Nat
  <2> HIDE DEF S
  <2> QED BY <1>2, NumberInduction
<1> QED BY <1>1, <1>3, Constants

LEMMA MarkedWithin ==
  ASSUME NEW f, Whole(f, TRUE, {}) \/ Whole(f, FALSE, {}), NEW X, Roots(f) \subseteq X, Referred(f, X) \subseteq X
  PROVE  Marked(f) \subseteq X
<1>1. PICK h : /\ h[0] = Roots(f) /\ Marked(f) = h[Cardinality(Objects)]
               /\ \A n \in Nat : h[n + 1] = h[n] \cup Referred(f, h[n])
  BY MarkedSteps
<1> DEFINE S == {n \in Nat : h[n] \subseteq X}
<1>2. 0 \in S /\ S \subseteq Nat /\ \A n \in S : n + 1 \in S
  <2>1. \A Y : Y \subseteq X => Referred(f, Y) \subseteq Referred(f, X)
    BY DEF Referred
  <2>2. ASSUME NEW n \in S PROVE n + 1 \in S
    <3>1. h[n + 1] = h[n] \cup Referred(f, h[n]) /\ h[n] \subseteq X
      BY <1>1
    <3> QED BY <2>1, <3>1
  <2> QED BY <1>1, <2>2
<1>3. S = Nat
  <2> HIDE DEF S
  <2> QED BY <1>2, NumberInduction
<1> QED BY <1>1, <1>3, Constants

LEMMA MarkedClosed ==
  ASSUME NEW f, Whole(f, TRUE, {}) \/ Whole(f, FALSE, {})
  PROVE  Referred(f, Marked(f)) \subseteq Marked(f)
<1> DEFINE N == Cardinality(Objects)
<1>1. N \in Nat
  BY Constants
<1>2. PICK h : /\ h[0] = Roots(f) /\ Marked(f) = h[N]
               /\ \A n \in Nat : h[n + 1] = h[n] \cup Referred(f, h[n])
  BY MarkedSteps
<1>3. \A s \in Sids(f) : Rank[s[1]] \in 1 .. N
  <2> TAKE s \in Sids(f)
  <2>1. s \in Sid
    BY WholeDocs DEF DocFits
  <2> QED BY <2>1, Constants DEF Sid
<1>4. \A s \in Sids(f) : \A t \in Document(f, s).refs : Rank[t[1]] < Rank[s[1]]
  BY WholeDocs DEF DocFits
<1> HIDE DEF N
<1> DEFINE Closed(n) == \A s \in Sids(f) : s \in h[n] /\ Rank[s[1]] + n > N => Document(f, s).refs \subseteq h[n]
           S == {n \in Nat : Closed(n)}
<1>5. 0 \in S /\ S \subseteq Nat
  BY <1>1, <1>3
<1>6. ASSUME NEW n \in Nat, Closed(n) PROVE Closed(n + 1)
  <2> SUFFICES ASSUME NEW s \in Sids(f), s \in h[n + 1], Rank[s[1]] + (n + 1) > N
               PROVE  Document(f, s).refs \subseteq h[n + 1]
    OBVIOUS
  <2>1. h[n + 1] = h[n] \cup Referred(f, h[n])
    BY <1>2
  <2>2. s \in h[n]
    <3>1. CASE s \in Referred(f, h[n])
      <4>1. PICK z \in Sids(f) : z \in h[n] /\ s \in Document(f, z).refs
        BY <3>1 DEF Referred
      <4>2. Rank[s[1]] < Rank[z[1]]
        BY <1>4, <4>1
      <4>3. Rank[z[1]] + n > N
        BY <1>1, <1>3, <4>2
      <4> QED BY <1>6, <4>1, <4>3
    <3> QED BY <2>1, <3>1
  <2>3. Document(f, s).refs \subseteq Referred(f, h[n])
    BY <2>2 DEF Referred
  <2> QED BY <2>1, <2>3
<1>7. \A n \in S : n + 1 \in S
  BY <1>6
<1> HIDE DEF S, Closed
<1>8. S = Nat
  BY <1>5, <1>7, NumberInduction
<1>9. Closed(N)
  BY <1>1, <1>8 DEF S
<1>10. ASSUME NEW s \in Sids(f), s \in Marked(f) PROVE Document(f, s).refs \subseteq Marked(f)
  <2>1. Rank[s[1]] + N > N
    BY <1>1, <1>3
  <2> QED BY <1>2, <1>9, <1>10, <2>1 DEF Closed
<1> QED BY <1>10 DEF Referred

LEMMA FsckWhole ==
  ASSUME Inv
  PROVE  Whole(db, FALSE, {}) /\ (Kept /\ ~Sweeping => Whole(db, TRUE, {}))
<1>1. PICK whole : whole = (Kept /\ ~Sweeping)
  OBVIOUS
<1>2. Whole(db, whole, {}) /\ whole \in BOOLEAN
  BY <1>1 DEF Inv
<1>3. Whole(db, FALSE, {})
  BY <1>2 DEF Whole, Fits, DocFits
<1>4. Kept /\ ~Sweeping => whole = TRUE
  BY <1>1
<1> QED BY <1>2, <1>3, <1>4

LEMMA MarkedIn ==
  ASSUME NEW f, Whole(f, TRUE, {})
  PROVE  Marked(f) \subseteq Sids(f) /\ Referred(f, Sids(f)) \subseteq Sids(f)
<1>1. Roots(f) \subseteq Sids(f)
  BY DEF Roots, Mains
<1>2. \A s \in Sids(f) : Document(f, s).refs \subseteq Sids(f)
  BY WholeDocs DEF DocFits
<1>3. Referred(f, Sids(f)) \subseteq Sids(f)
  BY <1>2 DEF Referred
<1> QED BY <1>1, <1>3, MarkedWithin

\* The steps of fsck change the database and its stage, and leave what is
\* returned where it is.
LEMMA FsckMoved ==
  ASSUME Inv, fsck # None, NEW stage \in {"repair", "sweep", "end"}, fsck' = [by |-> fsck.by, stage |-> stage],
         UNCHANGED <<deployment, txn, op, known, seen, gen, returned>>,
         stage = "sweep" => Whole(db', FALSE, {}),
         stage # "sweep" => Whole(db', Kept, {}),
         Mains(db) \subseteq Mains(db'), \A c : At(db, Route(c)) # None => At(db', Route(c)) = At(db, Route(c)),
         stage \in {"sweep", "end"} => RoutedMains(db'),
         stage = "sweep" /\ Kept => Marked(db') \subseteq Sids(db'),
         stage = "end" => Garbage(db') = {} /\ Orphans(db') = {}
  PROVE  Inv'
<1>1. \A q \in Stores : ~Active(q) /\ seen[q] < gen
  BY DEF Inv, FsckSound
<1>2. SavesSound' /\ (\A q \in Stores : ~Active(q))'
  BY <1>1, Rested
<1>3. fsck' # None /\ fsck' \in RunType /\ fsck'.stage = stage
  <2>1. fsck \in RunType
    BY DEF Inv, TypeInv
  <2>2. fsck.by \in Stores
    BY <2>1 DEF RunType
  <2>3. fsck' \in RunType
    BY <2>2 DEF RunType
  <2> QED BY <2>3, NoneApart
<1>4. TypeInv'
  BY <1>3 DEF Inv, TypeInv
<1>5. gen \in Nat /\ \A q \in Stores : seen[q] \in 0 .. gen
  BY DEF Inv, TypeInv
<1>6. CachesSound'
  BY <1>1, <1>5 DEF CachesSound
<1>7. FsckSound'
  BY <1>1, <1>2, <1>3 DEF FsckSound
<1>8. Whole(db, Kept /\ ~Sweeping, {})'
  <2>1. CASE stage = "sweep"
    <3>1. (Kept /\ ~Sweeping)' = FALSE
      BY <1>3, <2>1 DEF Sweeping
    <3> QED BY <2>1, <3>1
  <2>2. CASE stage # "sweep"
    <3>1. (Kept /\ ~Sweeping)' = Kept
      BY <1>3, <2>2 DEF Sweeping, Kept
    <3> QED BY <2>2, <3>1
  <2> QED BY <2>1, <2>2
<1>9. Returned(db)'
  <2> SUFFICES ASSUME NEW r \in returned
               PROVE  /\ r.sid \in Mains(db') /\ r.sid[1] = Content[r.obj]
                      /\ r.sid[1] \in Entries => At(db', Route(r.sid[1])) = r.sid
    BY DEF Returned
  <2>1. /\ r.sid \in Mains(db) /\ r.sid[1] = Content[r.obj]
        /\ r.sid[1] \in Entries => At(db, Route(r.sid[1])) = r.sid
    BY DEF Inv, Returned
  <2>2. r.sid # None
    <3>1. r.sid \in Sids(db)
      BY <2>1 DEF Mains
    <3>2. r.sid \in Sid
      BY <3>1, FsckWhole, WholeDocs DEF DocFits
    <3> QED BY <3>2, NoneApart
  <2> QED BY <2>1, <2>2
<1> QED BY <1>2, <1>4, <1>6, <1>7, <1>8, <1>9 DEF Inv

LEMMA FsckRepairKeeps ==
  ASSUME Inv, FsckRepair
  PROVE  Inv'
<1>1. /\ fsck # None /\ fsck.stage = "repair"
      /\ UNCHANGED <<deployment, txn, op, known, seen, gen, returned>>
  BY DEF FsckRepair
<1>2. PICK v, g : v = Repairs(db) /\ g = Over(v, db)
  OBVIOUS
<1>3. db' = g
  BY <1>2 DEF FsckRepair
<1>4. Whole(db, Kept, {})
  <2>1. (Kept /\ ~Sweeping) = Kept
    BY <1>1 DEF Kept, Sweeping
  <2> QED BY <2>1 DEF Inv
<1>5. \A k \in DOMAIN v : v[k] \in Missing(db) /\ k = Route(v[k][1])
  <2>1. DOMAIN v = {Route(s[1]) : s \in Missing(db)}
    BY <1>2 DEF Repairs
  <2> SUFFICES ASSUME NEW k \in DOMAIN v PROVE v[k] \in Missing(db) /\ k = Route(v[k][1])
    OBVIOUS
  <2>2. v[k] = CHOOSE s \in Missing(db) : k = Route(s[1])
    BY <1>2, <2>1 DEF Repairs
  <2>3. \E s \in Missing(db) : k = Route(s[1])
    BY <2>1
  <2> QED BY <2>2, <2>3
<1>6. \A s \in Missing(db) : Route(s[1]) \in DOMAIN v
  BY <1>2 DEF Repairs
<1> DEFINE miss == Missing(db)
<1>7. \A s \in miss : s \in Mains(db) /\ At(db, Route(s[1])) = None
  BY DEF Missing
<1>8. \A s \in Mains(db) : s[1] \in Entries /\ Policy[s[1]] = "content_id" /\ At(db, Route(s[1])) = None => s \in miss
  BY DEF Missing
<1> HIDE DEF miss
<1>9. \A k \in DOMAIN v : IsKey(k) /\ k[1] = "dispatch" /\ k[2] = v[k][1] /\ At(db, k) = None /\ v[k] \in Mains(db)
  BY <1>5, <1>7, KeysDiffer DEF miss
<1>10. Keyed(db) /\ Keyed(g)
  BY <1>2, <1>4, <1>9, KeyedOver DEF Whole
<1>11. \A k : At(g, k) = IF k \in DOMAIN v THEN v[k] ELSE At(db, k)
  BY <1>2 DEF At, Over
<1>12. \A s : At(g, Doc(s)) = At(db, Doc(s))
  <2>1. \A s : Doc(s) \notin DOMAIN v
    BY <1>9, KeysDiffer
  <2> QED BY <1>11, <2>1
<1>13. Mains(g) = Mains(db) /\ Sids(g) = Sids(db)
  BY <1>10, <1>12, SidsAt
<1>14. \A k \in DOMAIN v : /\ IsKey(k) /\ KeyGrows(k, At(db, k), v[k])
                           /\ v[k] # None => Fits(k, v[k], g, Kept, {})
  BY <1>9, <1>13 DEF KeyGrows, Fits
<1>15. Whole(g, Kept, {}) /\ Grown(db, g)
  BY <1>2, <1>4, <1>14, WroteWhole
<1>16. \A c : At(db, Route(c)) # None => At(g, Route(c)) = At(db, Route(c))
  BY <1>10, <1>15, GrownFacts
<1>17. RoutedMains(g)
  <2> SUFFICES ASSUME NEW s \in Mains(g), s[1] \in Entries, Policy[s[1]] = "content_id"
               PROVE  At(g, Route(s[1])) = s
    BY DEF RoutedMains
  <2>1. At(g, Route(s[1])) # None
    <3>1. CASE At(db, Route(s[1])) = None
      <4>1. Route(s[1]) \in DOMAIN v
        BY <1>6, <1>8, <1>13, <3>1 DEF miss
      <4>2. v[Route(s[1])] \in Sid
        <5>1. v[Route(s[1])] \in Sids(db)
          BY <1>9, <4>1 DEF Mains
        <5> QED BY <1>4, <5>1, WholeDocs DEF DocFits
      <4> QED BY <1>11, <4>1, <4>2, NoneApart
    <3>2. CASE At(db, Route(s[1])) # None
      BY <1>16, <3>2
    <3> QED BY <3>1, <3>2
  <2>2. PICK t : t = At(g, Route(s[1]))
    OBVIOUS
  <2>3. t \in Mains(g) /\ t[1] = s[1]
    BY <1>15, <2>1, <2>2, WholeKeys
  <2>4. t \in Sids(g) /\ s \in Sids(g)
    BY <2>3 DEF Mains
  <2>5. t = s
    BY <1>15, <2>3, <2>4, OneByContent
  <2> QED BY <2>2, <2>5
<1>18. Whole(g, FALSE, {}) /\ (Kept => Whole(g, TRUE, {}))
  <2>1. Kept \in BOOLEAN
    BY DEF Kept
  <2>2. Whole(g, FALSE, {})
    BY <1>15, <2>1 DEF Whole, Fits, DocFits
  <2>3. Kept => Kept = TRUE
    BY <2>1
  <2> QED BY <1>15, <2>2, <2>3
<1>19. Kept => Marked(g) \subseteq Sids(g)
  BY <1>18, MarkedIn
<1>20. PICK stage : stage = "sweep"
  OBVIOUS
<1>21. fsck' = [by |-> fsck.by, stage |-> stage]
  <2>1. fsck \in RunType
    BY <1>1 DEF Inv, TypeInv
  <2>2. fsck = [by |-> fsck.by, stage |-> fsck.stage]
    BY <2>1 DEF RunType
  <2> QED BY <1>20, <2>2 DEF FsckRepair
<1>22. /\ stage = "sweep" => Whole(db', FALSE, {})
       /\ stage # "sweep" => Whole(db', Kept, {})
       /\ Mains(db) \subseteq Mains(db')
       /\ \A c : At(db, Route(c)) # None => At(db', Route(c)) = At(db, Route(c))
       /\ stage \in {"sweep", "end"} => RoutedMains(db')
       /\ stage = "sweep" /\ Kept => Marked(db') \subseteq Sids(db')
       /\ stage = "end" => Garbage(db') = {} /\ Orphans(db') = {}
       /\ stage \in {"repair", "sweep", "end"}
  BY <1>3, <1>13, <1>16, <1>17, <1>18, <1>19, <1>20
<1> QED BY <1>1, <1>21, <1>22, FsckMoved

LEMMA RootsAre ==
  ASSUME NEW f, Whole(f, FALSE, {})
  PROVE  Roots(f) = Mains(f) /\ Mains(f) \subseteq Marked(f)
<1>1. ASSUME NEW k \in DOMAIN f, k[1] = "dispatch", f[k] \in Sids(f) PROVE f[k] \in Mains(f)
  <2>1. f[k] # None
    <3>1. f[k] \in Sid
      BY <1>1, WholeDocs DEF DocFits
    <3> QED BY <3>1, NoneApart
  <2> QED BY <1>1, <2>1 DEF Whole, Fits
<1>2. Roots(f) = Mains(f)
  BY <1>1 DEF Roots
<1> QED BY <1>2, RootsMarked

\* fsck leaves the roots and the references of what it keeps.
LEMMA MarkedFewer ==
  ASSUME NEW f, Whole(f, FALSE, {}), NEW g, Whole(g, FALSE, {}), Mains(g) \subseteq Mains(f), Sids(g) \subseteq Sids(f),
         \A s \in Sids(g) : At(g, Doc(s)) = At(f, Doc(s))
  PROVE  Marked(g) \subseteq Marked(f)
<1>1. Roots(g) \subseteq Marked(f)
  BY RootsAre
<1>2. \A s \in Sids(g) : Document(g, s) = Document(f, s)
  BY WholeDocs
<1>3. Referred(g, Marked(f)) \subseteq Referred(f, Marked(f))
  BY <1>2 DEF Referred
<1>4. Referred(f, Marked(f)) \subseteq Marked(f)
  BY MarkedClosed
<1> QED BY <1>1, <1>3, <1>4, MarkedWithin

SweptKeys(c, gone) == {Doc(s) : s \in gone} \cup (IF Policy[c] = "content_id" THEN {Index(c)} ELSE {})
Erased(m) == [k \in m |-> None]
Swept(f, g, gone) ==
  /\ Whole(g, FALSE, {}) /\ Mains(g) = Mains(f) /\ Sids(g) = Sids(f) \ gone
  /\ \A s \in Sids(g) : At(g, Doc(s)) = At(f, Doc(s))
  /\ \A q : At(g, Route(q)) = At(f, Route(q))

\* A sweep without the documents of a collection that nothing reaches.
LEMMA SweptWhole ==
  ASSUME NEW f, Whole(f, FALSE, {}), NEW c, NEW gone, gone \subseteq Garbage(f), \A s \in gone : s[1] = c, gone # {},
         NEW m, m = SweptKeys(c, gone), NEW g, g = Over(Erased(m), f)
  PROVE  Swept(f, g, gone)
<1>1. (\A k : At(g, k) = IF k \in m THEN None ELSE At(f, k)) /\ DOMAIN g = m \cup DOMAIN f
  BY DEF At, Over, Erased
<1>2. /\ \A k \in m : IsKey(k) /\ ((k[1] = "doc" /\ k[2] \in gone) \/ (k = Index(c) /\ Policy[c] = "content_id"))
      /\ \A s \in gone : Doc(s) \in m
      /\ Policy[c] = "content_id" => Index(c) \in m
  <2>1. ASSUME NEW k \in m
        PROVE  IsKey(k) /\ ((k[1] = "doc" /\ k[2] \in gone) \/ (k = Index(c) /\ Policy[c] = "content_id"))
    <3>1. (\E s \in gone : k = Doc(s)) \/ (k = Index(c) /\ Policy[c] = "content_id")
      BY <2>1 DEF SweptKeys
    <3> QED BY <3>1, KeysDiffer
  <2>2. (\A s \in gone : Doc(s) \in m) /\ (Policy[c] = "content_id" => Index(c) \in m)
    BY DEF SweptKeys
  <2> QED BY <2>1, <2>2
<1>3. Keyed(f) /\ Keyed(g)
  <2>1. Keyed(f)
    BY DEF Whole
  <2>2. PICK v : v = Erased(m)
    OBVIOUS
  <2>3. \A k \in DOMAIN v : IsKey(k)
    BY <1>2, <2>2 DEF Erased
  <2> QED BY <2>1, <2>2, <2>3, KeyedOver
<1>4. gone \subseteq Sids(f) /\ \A s \in gone : s \notin Mains(f)
  <2>1. \A s \in gone : s \in Sids(f) /\ Document(f, s).role = "dep"
    BY DEF Garbage
  <2> QED BY <2>1 DEF Mains
<1>5. \A s : At(g, Doc(s)) = IF s \in gone THEN None ELSE At(f, Doc(s))
  <2>1. \A s : Doc(s) \in m <=> s \in gone
    BY <1>2, KeysDiffer
  <2> QED BY <1>1, <2>1
<1>6. Sids(g) = Sids(f) \ gone /\ Mains(g) = Mains(f)
  <2>1. \A s : s \in Sids(g) <=> s \in Sids(f) \ gone
    BY <1>3, <1>5, SidsAt
  <2>2. \A s : s \in Mains(g) <=> s \in Mains(f)
    BY <1>3, <1>4, <1>5, <2>1, SidsAt
  <2> QED BY <2>1, <2>2
<1>7. \A k : k[1] \in {"dispatch", "claim", "counter"} => At(g, k) = At(f, k)
  <2>1. \A k \in m : k[1] \in {"doc", "index"}
    BY <1>2, KeysDiffer
  <2> QED BY <1>1, <2>1
<1>8. \A s : Numbered(f, s) => Numbered(g, s)
  BY <1>7, KeysDiffer DEF Numbered
<1>9. ASSUME NEW k \in DOMAIN g, g[k] # None PROVE Fits(k, g[k], g, FALSE, {})
  <2>1. k \notin m /\ k \in DOMAIN f /\ g[k] = f[k]
    BY <1>9 DEF Over, Erased
  <2>2. Fits(k, f[k], f, FALSE, {}) /\ IsKey(k)
    BY <1>9, <2>1 DEF Whole, Keyed
  <2>3. PICK x : x = f[k]
    OBVIOUS
  <2>4. ASSUME k[1] = "doc" PROVE DocFits(k[2], x, g, FALSE, {})
    <3>1. PICK s : s = k[2]
      OBVIOUS
    <3>2. k = Doc(s) /\ DocFits(s, x, f, FALSE, {})
      BY <2>2, <2>3, <2>4, <3>1, KeyKinds DEF Fits
    <3>3. s \notin gone /\ s \in Sids(f)
      <4>1. At(f, Doc(s)) # None
        BY <1>9, <2>1, <3>2 DEF At
      <4> QED BY <1>2, <1>3, <2>1, <3>2, <4>1, SidsAt
    <3>4. Policy[s[1]] = "content_id" => At(g, Index(s[1])) = s
      <4> SUFFICES ASSUME Policy[s[1]] = "content_id" PROVE Index(s[1]) \notin m
        BY <1>1, <3>2 DEF DocFits
      <4>1. s[1] # c
        <5> SUFFICES ASSUME s[1] = c PROVE FALSE
          OBVIOUS
        <5>1. PICK t \in gone : t[1] = c /\ t \in Sids(f)
          BY <1>4
        <5>2. s = t
          BY <3>3, <5>1, OneByContent
        <5> QED BY <3>3, <5>2
      <4> QED BY <1>2, <4>1, KeysDiffer
    <3>5. \A q \in Claims(x.obj, s) : At(g, q) = s
      <4>1. \A q \in Claims(x.obj, s) : At(f, q) = s
        BY <3>2 DEF DocFits
      <4> QED BY <1>7, <4>1, ClaimsAre
    <3> QED BY <1>8, <3>1, <3>2, <3>4, <3>5 DEF DocFits
  <2>5. ASSUME k[1] = "index" PROVE x \in Sids(g) /\ x[1] = k[2] /\ Policy[k[2]] = "content_id"
    <3>1. x \in Sids(f) /\ x[1] = k[2] /\ Policy[k[2]] = "content_id" /\ k = Index(k[2])
      BY <2>2, <2>3, <2>5, KeyKinds DEF Fits
    <3>2. x \notin gone
      BY <1>2, <2>1, <3>1
    <3> QED BY <1>6, <3>1, <3>2
  <2>6. k[1] = "dispatch" => x \in Mains(g) /\ x[1] = k[2]
    BY <1>6, <2>2, <2>3 DEF Fits
  <2>7. (k[1] = "claim" => Numbered(g, x)) /\ (k[1] = "counter" => x \in Nat)
    BY <1>8, <2>2, <2>3 DEF Fits
  <2> QED BY <2>1, <2>3, <2>4, <2>5, <2>6, <2>7 DEF Fits
<1>10. Whole(g, FALSE, {})
  BY <1>3, <1>9 DEF Whole
<1>11. \A s \in Sids(g) : At(g, Doc(s)) = At(f, Doc(s))
  BY <1>5, <1>6
<1>12. \A q : At(g, Route(q)) = At(f, Route(q))
  BY <1>7, KeysDiffer
<1> QED BY <1>6, <1>10, <1>11, <1>12 DEF Swept

LEMMA FsckSweepKeeps ==
  ASSUME Inv, NEW c \in Collections, FsckSweep(c)
  PROVE  Inv'
<1>1. /\ fsck # None /\ fsck.stage = "sweep"
      /\ UNCHANGED <<deployment, txn, op, known, seen, gen, returned>> /\ fsck' = fsck
  BY DEF FsckSweep
<1>2. PICK gone, m, g : /\ gone = {s \in Garbage(db) : s[1] = c}
                        /\ m = SweptKeys(c, gone) /\ g = Over(Erased(m), db)
  OBVIOUS
<1>3. gone # {} /\ db' = g
  BY <1>2 DEF FsckSweep, SweptKeys, Erased
<1>4. gone \subseteq Garbage(db) /\ \A s \in gone : s[1] = c
  BY <1>2
<1>5. Whole(db, FALSE, {})
  BY FsckWhole
<1>6. /\ Whole(g, FALSE, {}) /\ Mains(g) = Mains(db) /\ Sids(g) = Sids(db) \ gone
      /\ \A s \in Sids(g) : At(g, Doc(s)) = At(db, Doc(s))
      /\ \A q : At(g, Route(q)) = At(db, Route(q))
  <2>1. m = SweptKeys(c, gone) /\ g = Over(Erased(m), db)
    BY <1>2
  <2>2. Swept(db, g, gone)
    BY <2>1, <1>3, <1>4, <1>5, SweptWhole
  <2> QED BY <2>2 DEF Swept
<1>7. Marked(g) \subseteq Marked(db)
  BY <1>5, <1>6, MarkedFewer
<1>8. Kept => Marked(g) \subseteq Sids(g)
  <2>1. Kept => Marked(db) \subseteq Sids(db)
    BY <1>1 DEF Inv, FsckSound
  <2>2. gone \cap Marked(db) = {}
    BY <1>4 DEF Garbage
  <2> QED BY <1>6, <1>7, <2>1, <2>2
<1>9. RoutedMains(g)
  <2>1. RoutedMains(db)
    BY <1>1 DEF Inv, FsckSound
  <2> QED BY <1>6, <2>1 DEF RoutedMains
<1>10. PICK stage : stage = "sweep"
  OBVIOUS
<1>11. fsck' = [by |-> fsck.by, stage |-> stage]
  <2>1. fsck \in RunType
    BY <1>1 DEF Inv, TypeInv
  <2>2. fsck = [by |-> fsck.by, stage |-> fsck.stage]
    BY <2>1 DEF RunType
  <2> QED BY <1>1, <1>10, <2>2
<1>12. /\ stage = "sweep" => Whole(db', FALSE, {})
       /\ stage # "sweep" => Whole(db', Kept, {})
       /\ Mains(db) \subseteq Mains(db')
       /\ \A q : At(db, Route(q)) # None => At(db', Route(q)) = At(db, Route(q))
       /\ stage \in {"sweep", "end"} => RoutedMains(db')
       /\ stage = "sweep" /\ Kept => Marked(db') \subseteq Sids(db')
       /\ stage = "end" => Garbage(db') = {} /\ Orphans(db') = {}
       /\ stage \in {"repair", "sweep", "end"}
  BY <1>3, <1>6, <1>8, <1>9, <1>10
<1> QED BY <1>1, <1>11, <1>12, FsckMoved

\* What is left once the claims without a document are gone.
Reconciled(f, g) ==
  /\ Whole(g, Kept, {}) /\ Mains(g) = Mains(f) /\ Garbage(g) = {} /\ Orphans(g) = {}
  /\ \A q : At(g, Route(q)) = At(f, Route(q))

LEMMA ReconciledWhole ==
  ASSUME NEW f, Whole(f, FALSE, {}), Garbage(f) = {}, Kept => Marked(f) \subseteq Sids(f),
         NEW m, m = Orphans(f), NEW g, g = Over(Erased(m), f)
  PROVE  Reconciled(f, g)
<1>1. (\A k : At(g, k) = IF k \in m THEN None ELSE At(f, k)) /\ DOMAIN g = m \cup DOMAIN f
  BY DEF At, Over, Erased
<1>2. \A k \in m : k \in DOMAIN f /\ k[1] = "claim" /\ f[k] \notin Sids(f)
  BY DEF Orphans
<1>3. Keyed(f) /\ Keyed(g)
  <2>1. Keyed(f)
    BY DEF Whole
  <2>2. PICK v : v = Erased(m)
    OBVIOUS
  <2>3. \A k \in DOMAIN v : IsKey(k)
    BY <1>2, <2>1, <2>2 DEF Erased, Keyed
  <2> QED BY <2>1, <2>2, <2>3, KeyedOver
<1>4. \A k : k[1] # "claim" => At(g, k) = At(f, k)
  BY <1>1, <1>2
<1>5. \A s : At(g, Doc(s)) = At(f, Doc(s))
  BY <1>4, KeysDiffer
<1>6. /\ Sids(g) = Sids(f) /\ Mains(g) = Mains(f)
      /\ \A s \in Sids(f) : Document(g, s) = Document(f, s) /\ Document(f, s) = At(f, Doc(s))
  <2>1. /\ \A s : s \in Sids(f) <=> At(f, Doc(s)) # None
        /\ \A s \in Sids(f) : Document(f, s) = At(f, Doc(s))
        /\ \A s : s \in Mains(f) <=> s \in Sids(f) /\ At(f, Doc(s)).role = "main"
    BY <1>3, SidsAt
  <2>2. /\ \A s : s \in Sids(g) <=> At(f, Doc(s)) # None
        /\ \A s \in Sids(g) : Document(g, s) = At(f, Doc(s))
        /\ \A s : s \in Mains(g) <=> s \in Sids(g) /\ At(f, Doc(s)).role = "main"
    BY <1>3, <1>5, SidsAt
  <2>3. Sids(g) = Sids(f)
    BY <2>1, <2>2
  <2>4. Mains(g) = Mains(f)
    BY <2>1, <2>2, <2>3
  <2> QED BY <2>1, <2>2, <2>3, <2>4
<1>7. \A s : Numbered(f, s) => Numbered(g, s)
  BY <1>4, KeysDiffer DEF Numbered
<1>8. Kept => \A s \in Sids(f) : At(f, Doc(s)).refs \subseteq Sids(f)
  <2> SUFFICES ASSUME Kept, NEW s \in Sids(f) PROVE At(f, Doc(s)).refs \subseteq Sids(f)
    OBVIOUS
  <2>1. s \in Marked(f)
    <3>1. CASE At(f, Doc(s)).role = "main"
      BY <1>3, <3>1, SidsAt, RootsAre
    <3>2. CASE At(f, Doc(s)).role # "main"
      <4>1. At(f, Doc(s)).role = "dep"
        BY <3>2, WholeDocs DEF DocFits, DocType
      <4> QED BY <1>6, <4>1 DEF Garbage
    <3> QED BY <3>1, <3>2
  <2>2. At(f, Doc(s)).refs \subseteq Referred(f, Marked(f))
    BY <1>6, <2>1 DEF Referred
  <2> QED BY <2>2, MarkedClosed
<1>9. ASSUME NEW k \in DOMAIN g, g[k] # None PROVE Fits(k, g[k], g, Kept, {})
  <2>1. k \notin m /\ k \in DOMAIN f /\ g[k] = f[k]
    BY <1>2, <1>9 DEF Over, Erased
  <2>2. Fits(k, f[k], f, FALSE, {}) /\ IsKey(k)
    BY <1>9, <2>1 DEF Whole, Keyed
  <2>3. PICK x : x = f[k]
    OBVIOUS
  <2>4. ASSUME k[1] = "doc" PROVE DocFits(k[2], x, g, Kept, {})
    <3>1. PICK s : s = k[2]
      OBVIOUS
    <3>2. k = Doc(s) /\ DocFits(s, x, f, FALSE, {})
      BY <2>2, <2>3, <2>4, <3>1, KeyKinds DEF Fits
    <3>3. s \in Sids(f) /\ x = At(f, Doc(s))
      <4>1. At(f, Doc(s)) # None
        BY <1>9, <2>1, <3>2 DEF At
      <4> QED BY <1>3, <2>1, <2>3, <3>2, <4>1, SidsAt DEF At
    <3>4. Policy[s[1]] = "content_id" => At(g, Index(s[1])) = s
      BY <1>4, <3>2, KeysDiffer DEF DocFits
    <3>5. \A q \in Claims(x.obj, s) : At(g, q) = s
      <4> SUFFICES ASSUME NEW q \in Claims(x.obj, s) PROVE At(g, q) = s
        OBVIOUS
      <4>1. At(f, q) = s
        BY <3>2 DEF DocFits
      <4>2. q \notin m
        BY <1>2, <3>3, <4>1 DEF At
      <4> QED BY <1>1, <4>1, <4>2
    <3>6. \A t \in x.refs : Rank[t[1]] < Rank[s[1]] /\ (Kept => t \in Sids(g))
      BY <1>6, <1>8, <3>2, <3>3 DEF DocFits
    <3> QED BY <1>7, <3>1, <3>2, <3>4, <3>5, <3>6 DEF DocFits
  <2>5. k[1] = "index" => x \in Sids(g) /\ x[1] = k[2] /\ Policy[k[2]] = "content_id"
    BY <1>6, <2>2, <2>3 DEF Fits
  <2>6. k[1] = "dispatch" => x \in Mains(g) /\ x[1] = k[2]
    BY <1>6, <2>2, <2>3 DEF Fits
  <2>7. (k[1] = "claim" => Numbered(g, x)) /\ (k[1] = "counter" => x \in Nat)
    BY <1>7, <2>2, <2>3 DEF Fits
  <2> QED BY <2>1, <2>3, <2>4, <2>5, <2>6, <2>7 DEF Fits
<1>10. Whole(g, Kept, {})
  BY <1>3, <1>9 DEF Whole
<1>11. Garbage(g) = {}
  <2>1. Whole(g, FALSE, {})
    <3>1. Kept \in BOOLEAN
      BY DEF Kept
    <3> QED BY <1>10, <3>1 DEF Whole, Fits, DocFits
  <2>2. Marked(f) \subseteq Marked(g)
    BY <1>5, <1>6, <2>1, MarkedFewer
  <2> QED BY <1>6, <2>2 DEF Garbage
<1>12. Orphans(g) = {}
  <2> SUFFICES ASSUME NEW k \in DOMAIN g, k[1] = "claim", g[k] # None, g[k] \notin Sids(g) PROVE FALSE
    BY DEF Orphans
  <2>1. k \notin m /\ k \in DOMAIN f /\ g[k] = f[k]
    BY <1>2 DEF Over, Erased
  <2> QED BY <1>6, <2>1 DEF Orphans
<1>13. \A q : At(g, Route(q)) = At(f, Route(q))
  BY <1>4, KeysDiffer
<1> QED BY <1>6, <1>10, <1>11, <1>12, <1>13 DEF Reconciled

\* No document lacks a claim, so claims are only taken away.
LEMMA NoneLack ==
  ASSUME Whole(db, FALSE, {})
  PROVE  \A k \in UNION {Claimed(db, s) : s \in Sids(db)} : At(db, k) # None /\ k \notin Orphans(db)
<1> SUFFICES ASSUME NEW s \in Sids(db), NEW k \in Claimed(db, s) PROVE At(db, k) # None /\ k \notin Orphans(db)
  OBVIOUS
<1>1. Claimed(db, s) = Claims(Document(db, s).obj, s)
  BY DEF Claimed, Claims
<1>2. s \in Sid /\ \A q \in Claims(Document(db, s).obj, s) : At(db, q) = s
  <2>1. DocFits(s, At(db, Doc(s)), db, FALSE, {}) /\ Document(db, s) = At(db, Doc(s))
    BY WholeDocs
  <2> QED BY <2>1 DEF DocFits
<1>3. At(db, k) = s /\ s # None
  BY <1>1, <1>2, NoneApart
<1>4. k \notin Orphans(db)
  BY <1>3 DEF Orphans, At
<1> QED BY <1>3, <1>4

LEMMA FsckReconcileKeeps ==
  ASSUME Inv, FsckReconcile
  PROVE  Inv'
<1>1. /\ fsck # None /\ fsck.stage = "sweep" /\ Garbage(db) = {}
      /\ UNCHANGED <<deployment, txn, op, known, seen, gen, returned>>
  BY DEF FsckReconcile
<1>2. Whole(db, FALSE, {})
  BY FsckWhole
<1>3. PICK m, g : m = Orphans(db) /\ g = Over(Erased(m), db)
  OBVIOUS
<1>4. db' = g
  <2>1. PICK lacking : lacking = {k \in UNION {Claimed(db, s) : s \in Sids(db)} : At(db, k) = None \/ k \in Orphans(db)}
    OBVIOUS
  <2>2. lacking = {}
    BY <1>2, <2>1, NoneLack
  <2>3. db' = Over([k \in lacking |-> CHOOSE s \in {t \in Sids(db) : k \in Claimed(db, t)} : TRUE], g)
    BY <1>3, <2>1 DEF FsckReconcile, Erased
  <2>4. g = [k \in DOMAIN g |-> g[k]]
    BY <1>3 DEF Over
  <2> QED BY <2>2, <2>3, <2>4 DEF Over
<1>5. Kept => Marked(db) \subseteq Sids(db)
  BY <1>1 DEF Inv, FsckSound
<1>6. Reconciled(db, g)
  BY <1>1, <1>2, <1>3, <1>5, ReconciledWhole
<1>7. RoutedMains(g)
  <2>1. RoutedMains(db)
    BY <1>1 DEF Inv, FsckSound
  <2> QED BY <1>6, <2>1 DEF RoutedMains, Reconciled
<1>8. PICK stage : stage = "end"
  OBVIOUS
<1>9. fsck' = [by |-> fsck.by, stage |-> stage]
  <2>1. fsck \in RunType
    BY <1>1 DEF Inv, TypeInv
  <2>2. fsck = [by |-> fsck.by, stage |-> fsck.stage]
    BY <2>1 DEF RunType
  <2> QED BY <1>8, <2>2 DEF FsckReconcile
<1>10. /\ stage = "sweep" => Whole(db', FALSE, {})
       /\ stage # "sweep" => Whole(db', Kept, {})
       /\ Mains(db) \subseteq Mains(db')
       /\ \A q : At(db, Route(q)) # None => At(db', Route(q)) = At(db, Route(q))
       /\ stage \in {"sweep", "end"} => RoutedMains(db')
       /\ stage = "sweep" /\ Kept => Marked(db') \subseteq Sids(db')
       /\ stage = "end" => Garbage(db') = {} /\ Orphans(db') = {}
       /\ stage \in {"repair", "sweep", "end"}
  BY <1>4, <1>6, <1>7, <1>8 DEF Reconciled
<1> QED BY <1>1, <1>9, <1>10, FsckMoved

\* A run of fsck ends, or its process dies.
LEMMA FsckOver ==
  ASSUME Inv, fsck # None, Kept => fsck.stage # "sweep",
         known' = [known EXCEPT ![fsck.by] = {}], seen' = [seen EXCEPT ![fsck.by] = gen], fsck' = None,
         UNCHANGED <<deployment, db, txn, op, gen, returned>>
  PROVE  Inv'
<1>1. \A q \in Stores : ~Active(q) /\ seen[q] < gen
  BY DEF Inv, FsckSound
<1>2. SavesSound'
  BY <1>1, Rested
<1>3. gen \in Nat /\ seen \in [Stores -> 0 .. gen] /\ known = [p \in Stores |-> known[p]]
  BY DEF Inv, TypeInv
<1>4. fsck.by \in Stores
  BY DEF Inv, TypeInv, RunType
<1>5. TypeInv'
  <2>1. gen \in 0 .. gen
    BY <1>3
  <2>2. seen' \in [Stores -> 0 .. gen]
    BY <1>3, <2>1
  <2>3. known' = [p \in Stores |-> known'[p]]
    BY <1>3
  <2> QED BY <2>2, <2>3 DEF Inv, TypeInv
<1>6. CachesSound'
  <2> SUFFICES ASSUME NEW p \in Stores, seen'[p] = gen, NEW k \in known'[p] PROVE FALSE
    BY DEF CachesSound
  <2>1. p # fsck.by
    BY <1>3, <1>4
  <2>2. seen[p] = gen /\ seen[p] < gen
    BY <1>1, <1>3, <2>1
  <2> QED BY <1>3, <2>2
<1>7. FsckSound'
  BY DEF FsckSound
<1>8. Whole(db, Kept /\ ~Sweeping, {})'
  <2>1. (Kept /\ ~Sweeping)' = (Kept /\ ~Sweeping)
    BY DEF Sweeping, Kept
  <2> QED BY <2>1 DEF Inv
<1>9. Returned(db)'
  BY DEF Inv, Returned
<1> QED BY <1>2, <1>5, <1>6, <1>7, <1>8, <1>9 DEF Inv

LEMMA FsckEndKeeps ==
  ASSUME Inv, FsckEnd \/ FsckDies
  PROVE  Inv'
<1>1. CASE FsckEnd
  <2>1. /\ fsck # None /\ fsck.stage = "end"
        /\ known' = [known EXCEPT ![fsck.by] = {}] /\ seen' = [seen EXCEPT ![fsck.by] = gen] /\ fsck' = None
        /\ UNCHANGED <<deployment, db, txn, op, gen, returned>>
    BY <1>1 DEF FsckEnd
  <2> QED BY <2>1, FsckOver
<1>2. CASE FsckDies
  <2>1. /\ fsck # None /\ fsck.stage \in FsckDiesAt
        /\ known' = [known EXCEPT ![fsck.by] = {}] /\ seen' = [seen EXCEPT ![fsck.by] = gen] /\ fsck' = None
        /\ UNCHANGED <<deployment, db, txn, op, gen, returned>>
    BY <1>2 DEF FsckDies, Restarted
  <2>2. Kept => fsck.stage # "sweep"
    BY <2>1 DEF Kept
  <2> QED BY <2>1, <2>2, FsckOver
<1> QED BY <1>1, <1>2

-----------------------------------------------------------------------------
(* The invariant, and the properties.                                      *)

LEMMA InitInv ==
  ASSUME Init
  PROVE  Inv
<1>1. /\ deployment \in Deployments /\ db = Nothing
      /\ txn = [p \in Stores |-> NoTxn] /\ op = [p \in Stores |-> Idle]
      /\ known = [p \in Stores |-> {}] /\ seen = [p \in Stores |-> 0] /\ gen = 0
      /\ fsck = None /\ returned = {}
  BY DEF Init
<1>2. TypeInv
  <2>1. Idle \in CallType
    <3>1. CallSound(Idle, db, db, TRUE)
      BY IdleSound
    <3> QED BY <3>1 DEF CallSound, CallBase
  <2>2. deployment \in {"standalone", "replica set"}
    BY <1>1, SaveAssumption
  <2>3. op \in [Stores -> CallType]
    BY <1>1, <2>1
  <2>4. gen \in Nat /\ seen \in [Stores -> 0 .. gen]
    BY <1>1
  <2>5. \A p \in Stores : txn[p] = [snapshot |-> txn[p].snapshot, writes |-> txn[p].writes, open |-> txn[p].open,
                                    pending |-> txn[p].pending, answers |-> txn[p].answers]
    BY <1>1, NoTxnFields
  <2>6. txn = [p \in Stores |-> txn[p]] /\ known = [p \in Stores |-> known[p]]
    BY <1>1
  <2> QED BY <1>1, <2>2, <2>3, <2>4, <2>5, <2>6, NoneApart DEF TypeInv
<1>3. DOMAIN db = {} /\ db = [k \in DOMAIN db |-> db[k]]
  BY <1>1 DEF Nothing
<1>4. Whole(db, Kept /\ ~Sweeping, {})
  BY <1>3 DEF Whole, Keyed
<1>5. SavesSound
  <2>1. Held(Idle) = {} /\ DOMAIN NoTxn.writes = {} /\ Idle.call = None /\ ~NoTxn.open
    BY IdleSound, Unheld, NoTxnFields
  <2>2. \A p \in Stores : op[p] = Idle /\ txn[p] = NoTxn
    BY <1>1
  <2>3. \A p \in Stores : ~Active(p)
    BY <2>1, <2>2 DEF Active
  <2>4. \A p \in Stores : CallSound(op[p], View(p), txn[p].snapshot, Transactional)
    BY <2>2, IdleSound
  <2> QED BY <2>1, <2>2, <2>3, <2>4 DEF SavesSound
<1> QED BY <1>1, <1>2, <1>4, <1>5 DEF Inv, Returned, CachesSound, FsckSound

LEMMA StutterKeeps ==
  ASSUME Inv, UNCHANGED vars
  PROVE  Inv'
<1>1. UNCHANGED <<deployment, db, txn, op, known, seen, gen, fsck, returned>>
  BY DEF vars
<1>2. Transactional' = Transactional /\ Sweeping' = Sweeping /\ Kept' = Kept
  BY <1>1 DEF Transactional, Sweeping, Kept
<1>3. \A p \in Stores : View(p)' = View(p) /\ Active(p)' = Active(p)
  BY <1>1, <1>2 DEF View, Active
<1>4. TypeInv'
  BY <1>1 DEF Inv, TypeInv
<1>5. Whole(db, Kept /\ ~Sweeping, {})'
  BY <1>1, <1>2 DEF Inv
<1>6. SavesSound'
  BY <1>1, <1>2, <1>3 DEF Inv, SavesSound
<1>7. Returned(db)' /\ CachesSound'
  BY <1>1 DEF Inv, Returned, CachesSound
<1>8. FsckSound'
  BY <1>1, <1>3 DEF Inv, FsckSound
<1> QED BY <1>4, <1>5, <1>6, <1>7, <1>8 DEF Inv

LEMMA InvStep ==
  ASSUME Inv, [Next]_vars
  PROVE  Inv'
<1>1. CASE UNCHANGED vars
  BY <1>1, StutterKeeps
<1>2. ASSUME NEW p \in Stores, NEW o \in Calls, Start(p, o) PROVE Inv'
  BY <1>2, StartKeeps
<1>3. ASSUME NEW p \in Stores, OpenTransaction(p) PROVE Inv'
  BY <1>3, OpenTransactionKeeps
<1>4. ASSUME NEW p \in Stores, CommitTransaction(p) PROVE Inv'
  BY <1>4, CommitTransactionKeeps
<1>5. ASSUME NEW p \in Stores, RollBack(p) \/ Fault(p) \/ Die(p) PROVE Inv'
  BY <1>5, FaultKeeps
<1>6. ASSUME NEW p \in Stores, SaveStep(p) PROVE Inv'
  <2>1. CASE Find(p)
    BY <2>1, FindKeeps
  <2>2. CASE FindValue(p)
    BY <2>2, FindValueKeeps
  <2>3. CASE Number(p)
    BY <2>3, NumberKeeps
  <2>4. CASE ClaimIdentity(p)
    BY <2>4, ClaimIdentityKeeps
  <2>5. CASE Insert(p)
    BY <2>5, InsertKeeps
  <2>6. CASE Dispatch(p)
    BY <2>6, DispatchKeeps
  <2>7. CASE Finish(p)
    BY <2>7, FinishKeeps
  <2> QED BY <1>6, <2>1, <2>2, <2>3, <2>4, <2>5, <2>6, <2>7 DEF SaveStep
<1>7. ASSUME NEW p \in Stores, FsckStart(p) PROVE Inv'
  BY <1>7, FsckStartKeeps
<1>8. CASE FsckStep
  <2>1. ASSUME NEW c \in Collections, FsckSweep(c) PROVE Inv'
    BY <2>1, FsckSweepKeeps
  <2>2. CASE FsckRepair
    BY <2>2, FsckRepairKeeps
  <2>3. CASE FsckReconcile
    BY <2>3, FsckReconcileKeeps
  <2>4. CASE FsckEnd
    BY <2>4, FsckEndKeeps
  <2> QED BY <1>8, <2>1, <2>2, <2>3, <2>4 DEF FsckStep
<1>9. CASE FsckDies
  BY <1>9, FsckEndKeeps
<1> QED BY <1>1, <1>2, <1>3, <1>4, <1>5, <1>6, <1>7, <1>8, <1>9 DEF Next

LEMMA Invariant == Spec => []Inv
<1>1. Init => Inv
  BY InitInv
<1>2. Inv /\ [Next]_vars => Inv'
  BY InvStep
<1> QED BY <1>1, <1>2, PTL DEF Spec

(* The variables keep their types: documents are of the collection that    *)
(* their content belongs to, and a save is never run more than Attempts    *)
(* times.                                                                  *)
THEOREM TypesKept == Spec => []TypeOK
<1>1. Inv => TypeOK
  <2> SUFFICES ASSUME Inv PROVE TypeOK
    OBVIOUS
  <2>1. ASSUME NEW s \in Sids(db)
        PROVE  LET d == Document(db, s)
               IN d.obj \in Objects /\ s[1] = Content[d.obj] /\ s[2] \in Nat \ {0} /\ d.role \in {"main", "dep"}
    <3>1. DocFits(s, At(db, Doc(s)), db, FALSE, {}) /\ Document(db, s) = At(db, Doc(s))
      BY FsckWhole, WholeDocs
    <3> QED BY <3>1 DEF DocFits, DocType, Sid
  <2>2. ASSUME NEW p \in Stores
        PROVE  op[p].call \in Calls \cup {None} /\ op[p].attempt \in 0 .. Attempts /\ seen[p] \in 0 .. gen
    BY CallFields DEF Inv, TypeInv, CallType
  <2>3. fsck # None => fsck.by \in Stores /\ fsck.stage \in {"repair", "sweep", "end"}
    BY DEF Inv, TypeInv, RunType
  <2>4. deployment \in Deployments
    BY DEF Inv, TypeInv
  <2> QED BY <2>1, <2>2, <2>3, <2>4 DEF TypeOK
<1> QED BY <1>1, Invariant, PTL

(* No document without its identities: each durable entry owns the claims  *)
(* of its id and its immutable id, whoever raced for them, rolled back or  *)
(* died, and whatever fsck took away.                                      *)
THEOREM ClaimsStayOwned == Spec => []IdentitiesOwned
<1>1. Inv => IdentitiesOwned
  <2> SUFFICES ASSUME Inv, NEW s \in Sids(db), s[1] \in Entries, NEW kind \in {"id", "immutable_id"}
               PROVE  At(db, Claim(kind, IdOf(Document(db, s).obj, s))) = s
    BY DEF IdentitiesOwned
  <2>1. DocFits(s, At(db, Doc(s)), db, FALSE, {}) /\ Document(db, s) = At(db, Doc(s))
    BY FsckWhole, WholeDocs
  <2>2. PICK o : o = Document(db, s).obj
    OBVIOUS
  <2>3. Content[o] \in Entries /\ \A k \in Claims(o, s) : At(db, k) = s
    BY <2>1, <2>2 DEF DocFits
  <2> QED BY <2>2, <2>3, ClaimsAre
<1> QED BY <1>1, Invariant, PTL

(* What is durable can be used at any moment: documents have all that they *)
(* refer to, and entries their identities.  A process that dies while fsck *)
(* sweeps is excluded: what it has yet to delete may refer to what it has  *)
(* deleted already.                                                        *)
THEOREM DocumentsStayWhole == "sweep" \notin FsckDiesAt => (Spec => []DocumentsWhole)
<1> SUFFICES ASSUME "sweep" \notin FsckDiesAt PROVE Spec => []DocumentsWhole
  OBVIOUS
<1>1. Inv => ReferencesWhole
  <2> SUFFICES ASSUME Inv PROVE ReferencesWhole
    OBVIOUS
  <2>1. Kept
    BY DEF Kept
  <2>2. Whole(db, FALSE, {}) /\ \A s \in Sids(db) : Document(db, s) = At(db, Doc(s))
    BY FsckWhole, WholeDocs
  <2>3. Marked(db) \subseteq Sids(db)
    <3>1. CASE Sweeping
      BY <2>1, <3>1 DEF Inv, FsckSound, Sweeping
    <3>2. CASE ~Sweeping
      BY <2>1, <3>2, FsckWhole, MarkedIn
    <3> QED BY <3>1, <3>2
  <2>4. \A s \in Marked(db) : Document(db, s).refs \subseteq Sids(db)
    <3>1. Referred(db, Marked(db)) \subseteq Marked(db)
      BY <2>2, MarkedClosed
    <3> QED BY <2>3, <3>1 DEF Referred
  <2>5. fsck = None => \A s \in Sids(db) : Document(db, s).refs \subseteq Sids(db)
    <3> SUFFICES ASSUME fsck = None PROVE Referred(db, Sids(db)) \subseteq Sids(db)
      BY DEF Referred
    <3>1. ~Sweeping
      BY DEF Sweeping
    <3> QED BY <2>1, <3>1, FsckWhole, MarkedIn
  <2> QED BY <2>3, <2>4, <2>5 DEF ReferencesWhole
<1>2. Spec => []ReferencesWhole
  BY <1>1, Invariant, PTL
<1>3. DocumentsWhole <=> ReferencesWhole /\ IdentitiesOwned
  BY DEF DocumentsWhole
<1> QED BY <1>2, <1>3, ClaimsStayOwned, PTL

(* What a save has returned stays a main document with that content, and   *)
(* the one that the dispatch document of its family names, whatever is     *)
(* saved, rolled back, retried or swept later.                             *)
THEOREM ReturnedStays == Spec => []SavesStay
<1>1. Inv => SavesStay
  <2> SUFFICES ASSUME Inv, NEW r \in returned
               PROVE  /\ r.sid \in Sids(db) /\ Document(db, r.sid).role = "main" /\ r.sid[1] = Content[r.obj]
                      /\ r.sid[1] \in Entries => At(db, Route(r.sid[1])) = r.sid
    BY DEF SavesStay
  <2> QED BY DEF Inv, Returned, Mains
<1> QED BY <1>1, Invariant, PTL

(* What a store remembers of an object is a durable document with its      *)
(* content: neither what was rolled back or taken back is remembered, nor  *)
(* what fsck has swept.                                                    *)
THEOREM CachesStayTrue == Spec => []CachesTrue
<1>1. Inv => CachesTrue
  BY DEF Inv, CachesSound, CachesTrue
<1> QED BY <1>1, Invariant, PTL

(* However saves were interrupted, fsck leaves every main entry with its   *)
(* dispatch document, no dependency that nothing refers to and no claim    *)
(* without its document.                                                   *)
THEOREM FsckLeavesClean == Spec => []FsckRestores
<1>1. Inv => FsckRestores
  <2> SUFFICES ASSUME Inv, fsck # None, fsck.stage = "end" PROVE FsckRestores
    BY DEF FsckRestores
  <2>1. RoutedMains(db) /\ Garbage(db) = {} /\ Orphans(db) = {}
    BY DEF Inv, FsckSound
  <2>2. ASSUME NEW s \in Sids(db), Document(db, s).role = "dep"
        PROVE  \E t \in Sids(db) : s \in Document(db, t).refs
    <3>1. Whole(db, FALSE, {}) /\ s \in Marked(db)
      BY <2>1, <2>2, FsckWhole DEF Garbage
    <3>2. PICK X : X = Mains(db) \cup Referred(db, Sids(db))
      OBVIOUS
    <3>3. Roots(db) \subseteq X
      BY <3>1, <3>2, RootsAre
    <3>4. Referred(db, X) \subseteq Referred(db, Sids(db))
      BY DEF Referred
    <3>5. Marked(db) \subseteq X
      BY <3>1, <3>2, <3>3, <3>4, MarkedWithin
    <3>6. s \notin Mains(db)
      BY <2>2 DEF Mains
    <3> QED BY <3>1, <3>2, <3>5, <3>6 DEF Referred
  <2> QED BY <2>1, <2>2 DEF FsckRestores, RoutedMains, Orphans
<1> QED BY <1>1, Invariant, PTL
=============================================================================
