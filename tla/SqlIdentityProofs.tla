-------------------------- MODULE SqlIdentityProofs --------------------------
(***************************************************************************)
(* Who owns a content, an id, an immutable id and a kind of alternative,   *)
(* whatever transactions of SqlTransactions race.  The rows of two         *)
(* transactions do not see each other, so the checks of a save decide      *)
(* nothing: what decides is that a claim of an id waits for another's.     *)
(* And a committed row comes with all that it refers to and all its        *)
(* elements, whatever transactions fail or are taken back.                 *)
(***************************************************************************)
EXTENDS SqlTransactionsProofs

-----------------------------------------------------------------------------
(* What the claims and the lineages of the rows have in common.            *)

IsEntryRow(x) == x.key.content \in Entries

\* The row is inserted and its ids are not claimed yet.
AtClaim(x) == \E s \in Stores : x.by = s /\ Saving(s, "claim") /\ Top(s).sid = x.sid

\* One content, one row.
KeysUnique == \A x, y \in rows : x.key = y.key /\ Policy[x.key.content] = "content_id" => x = y

\* An id has one owner, and an owner one id.
ClaimsUnique == \A c, d \in claims : SameId(c, d) \/ SameOwner(c, d) => c = d

\* Entries have ids but for the moment between insert and claim.
RowsIdentified ==
  \A x \in rows : (x.id # None => IsEntryRow(x)) /\ (x.id = None /\ IsEntryRow(x) => AtClaim(x))

IdOf(what, x) == IF what = "entry" THEN x.id ELSE x.imm

\* c is the claim of x, and is committed with it or before.
Covers(c, what, x) == c.what = what /\ c.id = IdOf(what, x) /\ c.owner = Owner(what, x) /\ c.by \in {None, x.by}

RowsClaimed ==
  \A x \in rows : x.id # None => \A what \in {"entry", "row"} : \E c \in claims : Covers(c, what, x)

\* x is a row that c was made for, committed with it or before.
OwnerIs(c, x) ==
  /\ x.id # None /\ c.what \in {"entry", "row"} /\ c.id = IdOf(c.what, x) /\ c.owner = Owner(c.what, x)
  /\ x.by \in {None, c.by} /\ (c.what = "row" => x.by = c.by)

ClaimsOwned == \A c \in claims : \E x \in rows : OwnerIs(c, x)

\* The first row of the lineage of x has the first immutable id of its kind.
Founds(y, x) ==
  /\ y.kin = x.kin /\ y.group = x.group /\ y.kind = x.kind /\ y.by \in {None, x.by}
  /\ IF y.id = None THEN y.kin = y.sid ELSE y.imm = <<y.id, y.kind, 1>>

\* A lineage is named after a row that is there or was, and a lineage whose
\* first row is not identified has no other row.
LineagesSound ==
  /\ \A x \in rows : x.kin <= x.sid
  /\ \A x, y \in rows : x.id = None /\ IsEntryRow(x) /\ x.kin = x.sid /\ y.kin = x.kin => y = x

\* An alternative is an entry and a main row, and has the first of its lineage.
KindsFounded ==
  \A x \in rows : x.kind # None =>
    /\ IsEntryRow(x)
    /\ \E y \in rows : Founds(y, x)
    /\ \E m \in mains : m.sid = x.sid /\ m.by \in {None, x.by}

\* A group is named after a row that is there or was, and has the rows of one
\* table, the mains of one lineage among them.
GroupsSound ==
  /\ \A x \in rows : x.group <= x.sid /\ (x.kind = None => x.group = x.kin)
  /\ \A x, y \in rows : x.group = y.group => SameTable(x.key.content, y.key.content)

\* A row that the call reads stays, if it is none of the call's own.
Followed(s, x) == x \in Seen(s, rows) /\ \A i \in DOMAIN op[s].inserted : op[s].inserted[i] # x.sid

\* The row that the call continues is there, and one of the group that it joins.
CallFollows(s) ==
  op[s] # None =>
    /\ IF op[s].kind = None THEN op[s].group = op[s].kin ELSE Content[op[s].obj] \in Entries
    /\ op[s].kin # 0 =>
         \E x \in rows : Followed(s, x) /\ x.kin = op[s].kin /\ x.group = op[s].group /\ x.kind = op[s].kind
    /\ op[s].group # 0 =>
         \E x \in rows : Followed(s, x) /\ x.group = op[s].group /\ SameTable(x.key.content, Content[op[s].obj])

\* Of what the call inserts only the root has a kind.
KindsAtRoot(s) ==
  stack[s] # <<>> => \A x \in rows : x.kind # None =>
    \A i \in DOMAIN op[s].inserted : op[s].inserted[i] = x.sid => x.sid = Root(s).sid

\* Only the innermost frame claims ids, and its row is an entry without them.
ClaimFrame(s) ==
  \A i \in DOMAIN stack[s] : stack[s][i].stage = "claim" =>
    i = 1 /\ \A x \in rows : x.sid = stack[s][1].sid => x.id = None /\ IsEntryRow(x)

Unwritten(s) == tx[s] \in {"none", "lost"} => \A x \in rows \cup claims : x.by # s

TablesOwned ==
  /\ KeysUnique /\ ClaimsUnique /\ RowsIdentified /\ RowsClaimed /\ ClaimsOwned
  /\ LineagesSound /\ KindsFounded

CallOwned(s) == CallFollows(s) /\ KindsAtRoot(s) /\ ClaimFrame(s) /\ Unwritten(s)

OwnedInv == TablesOwned /\ GroupsSound /\ \A s \in Stores : CallOwned(s)

-----------------------------------------------------------------------------
(* Steps that keep all rows and claims, but perhaps whose they are.        *)

\* The row y is x, written by m[x.by].
Carried(x, y, m) ==
  /\ y.sid = x.sid /\ y.key = x.key /\ y.kin = x.kin /\ y.group = x.group /\ y.kind = x.kind
  /\ y.id = x.id /\ y.imm = x.imm /\ y.by = m[x.by]

RowsCarried(m) ==
  /\ \A x \in rows : \E y \in rows' : Carried(x, y, m)
  /\ \A y \in rows' : \E x \in rows : Carried(x, y, m)

Reclaimed(c, d, m) == d.what = c.what /\ d.id = c.id /\ d.owner = c.owner /\ d.by = m[c.by]

ClaimsCarried(m) ==
  /\ \A c \in claims : \E d \in claims' : Reclaimed(c, d, m)
  /\ \A d \in claims' : \E c \in claims : Reclaimed(c, d, m)

MainsCarried(m) == \A k \in mains : \E n \in mains' : n.sid = k.sid /\ n.by = m[k.by]

LEMMA CarriedOwner ==
  ASSUME NEW x, NEW y, NEW m, Carried(x, y, m), NEW what
  PROVE  Owner(what, y) = Owner(what, x) /\ IdOf(what, y) = IdOf(what, x)
  BY DEF Carried, Owner, IdOf

LEMMA TablesCarried ==
  ASSUME TablesOwned, TypeInv', SidsUnique', NEW m, m[None] = None,
         RowsCarried(m), ClaimsCarried(m), MainsCarried(m),
         \A x \in rows, y \in rows' : Carried(x, y, m) /\ AtClaim(x) => AtClaim(y)'
  PROVE  TablesOwned'
<1>1. KeysUnique'
  <2> SUFFICES ASSUME NEW y \in rows', NEW w \in rows', y.key = w.key, Policy[y.key.content] = "content_id"
               PROVE  y = w
    BY DEF KeysUnique
  <2>1. PICK x \in rows : Carried(x, y, m)
    BY DEF RowsCarried
  <2>2. PICK v \in rows : Carried(v, w, m)
    BY DEF RowsCarried
  <2>3. x = v
    BY <2>1, <2>2 DEF Carried, TablesOwned, KeysUnique
  <2> QED BY <2>1, <2>2, <2>3 DEF Carried, SidsUnique
<1>2. ClaimsUnique'
  <2> SUFFICES ASSUME NEW d \in claims', NEW e \in claims', SameId(d, e) \/ SameOwner(d, e)
               PROVE  d = e
    BY DEF ClaimsUnique, SameId, SameOwner
  <2>1. PICK c \in claims : Reclaimed(c, d, m)
    BY DEF ClaimsCarried
  <2>2. PICK b \in claims : Reclaimed(b, e, m)
    BY DEF ClaimsCarried
  <2>3. SameId(c, b) \/ SameOwner(c, b)
    BY <2>1, <2>2 DEF Reclaimed, SameId, SameOwner
  <2>4. c = b
    BY <2>3 DEF TablesOwned, ClaimsUnique
  <2>5. d.what = e.what /\ d.id = e.id /\ d.owner = e.owner /\ d.by = e.by
    BY <2>1, <2>2, <2>4 DEF Reclaimed
  <2>6. d \in ClaimType /\ e \in ClaimType
    BY DEF TypeInv, TablesTyped
  <2> QED BY <2>5, <2>6 DEF ClaimType
<1>3. RowsIdentified'
  <2> SUFFICES ASSUME NEW y \in rows'
               PROVE  (y.id # None => IsEntryRow(y)) /\ (y.id = None /\ IsEntryRow(y) => AtClaim(y)')
    BY DEF RowsIdentified, IsEntryRow
  <2>1. PICK x \in rows : Carried(x, y, m)
    BY DEF RowsCarried
  <2>2. (x.id # None => IsEntryRow(x)) /\ (x.id = None /\ IsEntryRow(x) => AtClaim(x))
    BY DEF TablesOwned, RowsIdentified
  <2>3. IsEntryRow(y) <=> IsEntryRow(x)
    BY <2>1 DEF Carried, IsEntryRow
  <2>4. y.id = x.id
    BY <2>1 DEF Carried
  <2> QED BY <2>1, <2>2, <2>3, <2>4
<1>4. RowsClaimed'
  <2> SUFFICES ASSUME NEW y \in rows', y.id # None, NEW what \in {"entry", "row"}
               PROVE  \E d \in claims' : Covers(d, what, y)
    BY DEF RowsClaimed, Covers, IdOf, Owner
  <2>1. PICK x \in rows : Carried(x, y, m)
    BY DEF RowsCarried
  <2>2. x.id # None
    BY <2>1 DEF Carried
  <2>3. PICK c \in claims : Covers(c, what, x)
    BY <2>2 DEF TablesOwned, RowsClaimed
  <2>4. PICK d \in claims' : Reclaimed(c, d, m)
    BY DEF ClaimsCarried
  <2>5. d.by \in {None, y.by}
    BY <2>1, <2>3, <2>4 DEF Carried, Covers, Reclaimed
  <2> QED BY <2>1, <2>3, <2>4, <2>5, CarriedOwner DEF Covers, Reclaimed
<1>5. ClaimsOwned'
  <2> SUFFICES ASSUME NEW d \in claims' PROVE \E y \in rows' : OwnerIs(d, y)
    BY DEF ClaimsOwned, OwnerIs, IdOf, Owner
  <2>1. PICK c \in claims : Reclaimed(c, d, m)
    BY DEF ClaimsCarried
  <2>2. PICK x \in rows : OwnerIs(c, x)
    BY DEF TablesOwned, ClaimsOwned
  <2>3. PICK y \in rows' : Carried(x, y, m)
    BY DEF RowsCarried
  <2>4. /\ y.by \in {None, d.by} /\ (d.what = "row" => y.by = d.by)
        /\ y.id # None /\ d.what \in {"entry", "row"}
    BY <2>1, <2>2, <2>3 DEF Carried, OwnerIs, Reclaimed
  <2>5. d.id = IdOf(d.what, y) /\ d.owner = Owner(d.what, y)
    BY <2>1, <2>2, <2>3, CarriedOwner DEF OwnerIs, Reclaimed
  <2> QED BY <2>4, <2>5 DEF OwnerIs
<1>6. LineagesSound'
  <2>1. ASSUME NEW y \in rows' PROVE y.kin <= y.sid
    <3>1. PICK x \in rows : Carried(x, y, m)
      BY DEF RowsCarried
    <3> QED BY <3>1 DEF Carried, TablesOwned, LineagesSound
  <2>2. ASSUME NEW y \in rows', NEW w \in rows', y.id = None, IsEntryRow(y), y.kin = y.sid, w.kin = y.kin
        PROVE  w = y
    <3>1. PICK x \in rows : Carried(x, y, m)
      BY DEF RowsCarried
    <3>2. PICK v \in rows : Carried(v, w, m)
      BY DEF RowsCarried
    <3>3. x.id = None /\ IsEntryRow(x) /\ x.kin = x.sid /\ v.kin = x.kin
      BY <2>2, <3>1, <3>2 DEF Carried, IsEntryRow
    <3>4. v = x
      BY <3>3 DEF TablesOwned, LineagesSound
    <3> QED BY <3>1, <3>2, <3>4 DEF Carried, SidsUnique
  <2> QED BY <2>1, <2>2 DEF LineagesSound, IsEntryRow
<1>7. KindsFounded'
  <2> SUFFICES ASSUME NEW y \in rows', y.kind # None
               PROVE  /\ IsEntryRow(y)
                      /\ \E w \in rows' : Founds(w, y)
                      /\ \E n \in mains' : n.sid = y.sid /\ n.by \in {None, y.by}
    BY DEF KindsFounded, IsEntryRow, Founds
  <2>1. PICK x \in rows : Carried(x, y, m)
    BY DEF RowsCarried
  <2>2. x.kind # None
    BY <2>1 DEF Carried
  <2>3. IsEntryRow(x)
    BY <2>2 DEF TablesOwned, KindsFounded
  <2>4. PICK v \in rows : Founds(v, x)
    BY <2>2 DEF TablesOwned, KindsFounded
  <2>5. PICK w \in rows' : Carried(v, w, m)
    BY DEF RowsCarried
  <2>6. Founds(w, y)
    BY <2>1, <2>4, <2>5 DEF Founds, Carried
  <2>7. PICK k \in mains : k.sid = x.sid /\ k.by \in {None, x.by}
    BY <2>2 DEF TablesOwned, KindsFounded
  <2>8. PICK n \in mains' : n.sid = k.sid /\ n.by = m[k.by]
    BY DEF MainsCarried
  <2>9. n.sid = y.sid /\ n.by \in {None, y.by}
    BY <2>1, <2>7, <2>8 DEF Carried
  <2> QED BY <2>1, <2>3, <2>6, <2>9 DEF Carried, IsEntryRow
<1> QED BY <1>1, <1>2, <1>3, <1>4, <1>5, <1>6, <1>7 DEF TablesOwned

-----------------------------------------------------------------------------
(* Steps that take rows away, and claims with them.                        *)

LEMMA TablesLessened ==
  ASSUME TablesOwned, rows' \subseteq rows, claims' \subseteq claims,
         \A x \in rows', c \in claims : \A what : x.id # None /\ Covers(c, what, x) => c \in claims',
         \A c \in claims' : \E x \in rows' : OwnerIs(c, x),
         \A x \in rows', y \in rows : x.kind # None /\ Founds(y, x) => y \in rows',
         \A x \in rows', k \in mains : x.kind # None /\ k.sid = x.sid /\ k.by \in {None, x.by} => k \in mains',
         \A x \in rows' : AtClaim(x) => AtClaim(x)'
  PROVE  TablesOwned'
<1>1. KeysUnique' /\ ClaimsUnique'
  BY DEF TablesOwned, KeysUnique, ClaimsUnique, SameId, SameOwner
<1>2. RowsIdentified'
  BY DEF TablesOwned, RowsIdentified, IsEntryRow
<1>3. RowsClaimed'
  <2> SUFFICES ASSUME NEW x \in rows', x.id # None, NEW what \in {"entry", "row"}
               PROVE  \E c \in claims' : Covers(c, what, x)
    BY DEF RowsClaimed, Covers, IdOf, Owner
  <2>1. PICK c \in claims : Covers(c, what, x)
    BY DEF TablesOwned, RowsClaimed
  <2> QED BY <2>1
<1>4. ClaimsOwned'
  BY DEF ClaimsOwned, OwnerIs, IdOf, Owner
<1>5. LineagesSound'
  BY DEF TablesOwned, LineagesSound, IsEntryRow
<1>6. KindsFounded'
  <2> SUFFICES ASSUME NEW x \in rows', x.kind # None
               PROVE  /\ IsEntryRow(x)
                      /\ \E w \in rows' : Founds(w, x)
                      /\ \E n \in mains' : n.sid = x.sid /\ n.by \in {None, x.by}
    BY DEF KindsFounded, IsEntryRow, Founds
  <2>1. IsEntryRow(x)
    BY DEF TablesOwned, KindsFounded
  <2>2. PICK y \in rows : Founds(y, x)
    BY DEF TablesOwned, KindsFounded
  <2>3. PICK k \in mains : k.sid = x.sid /\ k.by \in {None, x.by}
    BY DEF TablesOwned, KindsFounded
  <2> QED BY <2>1, <2>2, <2>3
<1> QED BY <1>1, <1>2, <1>3, <1>4, <1>5, <1>6 DEF TablesOwned
-----------------------------------------------------------------------------
(* The ends of transactions, and fsck.                                     *)

LEMMA OthersAtClaim ==
  ASSUME NEW s \in Stores, OthersKept(s), NEW x, AtClaim(x), NEW y, y.sid = x.sid, y.by = x.by, x.by # s
  PROVE  AtClaim(y)'
<1>1. PICK t \in Stores : x.by = t /\ Saving(t, "claim") /\ Top(t).sid = x.sid
  BY DEF AtClaim
<1>2. t \in Stores \ {s}
  BY <1>1
<1>3. stack'[t] = stack[t]
  BY <1>2 DEF OthersKept
<1> QED BY <1>1, <1>3 DEF AtClaim, Saving, Top

\* A store that is not claiming has no entry without ids.
LEMMA NoneUnclaimed ==
  ASSUME RowsIdentified, NEW s \in Stores, ~Saving(s, "claim"), None \notin Stores,
         NEW x \in rows, x.by \in {None, s}, IsEntryRow(x)
  PROVE  x.id # None
  BY DEF RowsIdentified, AtClaim

LEMMA UndoneTables ==
  ASSUME Inv, OwnedInv, NEW s \in Stores, Undone(s)
  PROVE  TablesOwned'
<1>0. None # s
  BY TransactionsAssumption
<1>1. /\ rows' = {x \in rows : x.by # s} /\ claims' = {c \in claims : c.by # s}
      /\ mains' = {k \in mains : k.by # s} /\ OthersKept(s)
  BY DEF Undone, Without
<1>2. \A x \in rows', c \in claims : \A what : x.id # None /\ Covers(c, what, x) => c \in claims'
  BY <1>0, <1>1 DEF Covers
<1>3. \A c \in claims' : \E x \in rows' : OwnerIs(c, x)
  <2> TAKE c \in claims'
  <2>1. c \in claims /\ c.by # s
    BY <1>1
  <2>2. PICK x \in rows : OwnerIs(c, x)
    BY <2>1 DEF OwnedInv, TablesOwned, ClaimsOwned
  <2> QED BY <1>0, <1>1, <2>1, <2>2 DEF OwnerIs
<1>4. \A x \in rows', y \in rows : x.kind # None /\ Founds(y, x) => y \in rows'
  BY <1>0, <1>1 DEF Founds
<1>5. \A x \in rows', k \in mains : x.kind # None /\ k.sid = x.sid /\ k.by \in {None, x.by} => k \in mains'
  BY <1>0, <1>1
<1>6. \A x \in rows' : AtClaim(x) => AtClaim(x)'
  BY <1>1, OthersAtClaim
<1>7. rows' \subseteq rows /\ claims' \subseteq claims /\ TablesOwned
  BY <1>1 DEF OwnedInv
<1> QED BY <1>2, <1>3, <1>4, <1>5, <1>6, <1>7, TablesLessened

LEMMA SweepsTables ==
  ASSUME Inv, OwnedInv, NEW s \in Stores, Fsck(s), Sweeps(s)
  PROVE  TablesOwned'
<1>0. TablesOwned /\ TypeInv /\ None \notin Stores
  BY TransactionsAssumption DEF OwnedInv, Inv
<1>1. \A x \in rows \cup claims : x.by = None
  <2> TAKE x \in rows \cup claims
  <2>1. x.by \in Stores \cup {None}
    BY <1>0 DEF TypeInv, TablesTyped, RowType, ClaimType, Writers
  <2>2. ASSUME NEW t \in Stores PROVE x.by # t
    <3>1. tx[t] = "none"
      BY DEF Sweeps
    <3> QED BY <3>1 DEF OwnedInv, CallOwned, Unwritten
  <2> QED BY <2>1, <2>2
<1>2. rows' \subseteq rows /\ claims' \subseteq claims /\ mains' = mains
  BY DEF Fsck, Owned
<1>3. \A x \in rows : IsEntryRow(x) => x.id # None
  BY <1>0, <1>1 DEF TablesOwned, RowsIdentified, AtClaim
<1>4. \A c \in claims : c \in claims' <=> \E x \in rows' : IsEntryRow(x) /\ c.owner = Owner(c.what, x)
  <2>1. Seen(s, rows') = rows'
    BY <1>1, <1>2 DEF Seen
  <2> QED BY <1>1, <2>1 DEF Fsck, Owned, IsEntryRow
<1>5. \A x \in rows', c \in claims : \A what : x.id # None /\ Covers(c, what, x) => c \in claims'
  BY <1>0, <1>2, <1>4 DEF Covers, TablesOwned, RowsIdentified
<1>6. \A c \in claims' : \E x \in rows' : OwnerIs(c, x)
  <2> TAKE c \in claims'
  <2>1. PICK x \in rows' : IsEntryRow(x) /\ c.owner = Owner(c.what, x)
    BY <1>2, <1>4
  <2>2. x \in rows /\ x.id # None /\ c \in claims /\ c.what \in {"entry", "row"}
    BY <1>0, <1>2, <1>3, <2>1 DEF TypeInv, TablesTyped, ClaimType
  <2>3. PICK b \in claims : Covers(b, c.what, x)
    BY <1>0, <2>2 DEF TablesOwned, RowsClaimed
  <2>4. b = c
    BY <1>0, <2>1, <2>2, <2>3 DEF Covers, TablesOwned, ClaimsUnique, SameOwner
  <2> QED BY <1>1, <2>2, <2>3, <2>4 DEF OwnerIs, Covers
<1>7. \A x \in rows', y \in rows : x.kind # None /\ Founds(y, x) => y \in rows'
  <2> SUFFICES ASSUME NEW y \in rows, y.kind # None PROVE y \in rows'
    BY DEF Founds
  <2>1. PICK k \in mains : k.sid = y.sid /\ k.by \in {None, y.by}
    BY <1>0 DEF TablesOwned, KindsFounded
  <2>2. y.sid \in Roots
    BY <1>1, <2>1 DEF Roots, Committed
  <2> QED BY <2>2 DEF Sweeps
<1>8. \A x \in rows' : ~AtClaim(x)
  BY <1>0, <1>1, <1>2 DEF AtClaim
<1> QED BY <1>0, <1>2, <1>5, <1>6, <1>7, <1>8, TablesLessened

\* What a commit does to records that say who wrote them.
Settlement(s) == [w \in Writers |-> IF w = s THEN None ELSE w]

LEMMA SettledCarried ==
  ASSUME TypeInv, NEW s \in Stores, rows' = Settled(rows, s), claims' = Settled(claims, s), mains' = Settled(mains, s)
  PROVE  RowsCarried(Settlement(s)) /\ ClaimsCarried(Settlement(s)) /\ MainsCarried(Settlement(s))
<1> DEFINE m == Settlement(s)
<1>1. RowsCarried(m)
  <2> DEFINE f == [x \in rows |-> IF x.by = s THEN [x EXCEPT !.by = None] ELSE x]
  <2>1. rows' = {f[x] : x \in rows}
    BY DEF Settled
  <2>2. ASSUME NEW x \in rows PROVE Carried(x, f[x], m)
    <3>1. x \in RowType /\ x.by \in Writers
      BY DEF TypeInv, TablesTyped, RowType
    <3>2. CASE x.by = s
      <4>1. f[x] = [x EXCEPT !.by = None]
        BY <3>2
      <4> QED BY <3>1, <3>2, <4>1 DEF Carried, RowType, Settlement
    <3>3. CASE x.by # s
      <4>1. f[x] = x
        BY <3>3
      <4> QED BY <3>1, <3>3, <4>1 DEF Carried, Settlement
    <3> QED BY <3>2, <3>3
  <2> HIDE DEF f, m
  <2> QED BY <2>1, <2>2 DEF RowsCarried
<1>2. ClaimsCarried(m)
  <2> DEFINE f == [c \in claims |-> IF c.by = s THEN [c EXCEPT !.by = None] ELSE c]
  <2>1. claims' = {f[c] : c \in claims}
    BY DEF Settled
  <2>2. ASSUME NEW c \in claims PROVE Reclaimed(c, f[c], m)
    <3>1. c \in ClaimType /\ c.by \in Writers
      BY DEF TypeInv, TablesTyped, ClaimType
    <3>2. CASE c.by = s
      <4>1. f[c] = [c EXCEPT !.by = None]
        BY <3>2
      <4> QED BY <3>1, <3>2, <4>1 DEF Reclaimed, ClaimType, Settlement
    <3>3. CASE c.by # s
      <4>1. f[c] = c
        BY <3>3
      <4> QED BY <3>1, <3>3, <4>1 DEF Reclaimed, Settlement
    <3> QED BY <3>2, <3>3
  <2> HIDE DEF f, m
  <2> QED BY <2>1, <2>2 DEF ClaimsCarried
<1>3. MainsCarried(m)
  <2>1. mains \subseteq MarkType
    BY DEF TypeInv, TablesTyped
  <2>2. ASSUME NEW k \in mains PROVE \E n \in mains' : n.sid = k.sid /\ n.by = m[k.by]
    <3>1. PICK n \in mains' : n.sid = k.sid /\ n.by = (IF k.by = s THEN None ELSE k.by)
      BY <2>1, SettledRecords
    <3>2. k.by \in Writers
      BY <2>1 DEF MarkType
    <3> QED BY <3>1, <3>2 DEF Settlement
  <2> QED BY <2>2 DEF MainsCarried
<1> QED BY <1>1, <1>2, <1>3

LEMMA CommitsTables ==
  ASSUME Inv, OwnedInv, NEW s \in Stores, Commits(s), TypeInv', SidsUnique'
  PROVE  TablesOwned'
<1> DEFINE m == Settlement(s)
<1>0. TablesOwned /\ TypeInv /\ None \notin Stores /\ rows' = Settled(rows, s)
      /\ claims' = Settled(claims, s) /\ mains' = Settled(mains, s) /\ OthersKept(s)
  BY TransactionsAssumption DEF OwnedInv, Inv, Commits
<1>1. m[None] = None
  BY <1>0 DEF Settlement, Writers
<1>2. stack[s] = <<>>
  BY <1>0 DEF Commits, TypeInv, Active
<1>3. \A x \in rows, y \in rows' : Carried(x, y, m) /\ AtClaim(x) => AtClaim(y)'
  <2> SUFFICES ASSUME NEW x \in rows, NEW y \in rows', Carried(x, y, m), AtClaim(x) PROVE AtClaim(y)'
    OBVIOUS
  <2>1. x.by # s
    BY <1>2 DEF AtClaim, Saving
  <2>2. x.by \in Writers
    BY <1>0 DEF TypeInv, TablesTyped, RowType
  <2>3. y.sid = x.sid /\ y.by = x.by
    BY <2>1, <2>2 DEF Carried, Settlement
  <2> QED BY <1>0, <2>1, <2>3, OthersAtClaim
<1>4. RowsCarried(m) /\ ClaimsCarried(m) /\ MainsCarried(m)
  BY <1>0, SettledCarried
<1> HIDE DEF m
<1> QED BY <1>0, <1>1, <1>3, <1>4, TablesCarried
\* A row with a kind is not one of those that a frame takes back.
LEMMA KindsNotTakenBack ==
  ASSUME Inv, OwnedInv, NEW s \in Stores, stack[s] # <<>>, Top(s).stage \in {"refs", "insert"},
         NEW x \in rows, x.kind # None
  PROVE  x.sid \notin InsertedSince(s)
<1> SUFFICES ASSUME x.sid \in InsertedSince(s) PROVE FALSE
  OBVIOUS
<1>0. TypeInv /\ SidsUnique /\ StackSound(s) /\ InsertedHere(s) /\ KindsAtRoot(s)
  BY DEF Inv, TablesSound, StoreSound, OwnedInv, CallOwned
<1>1. PICK i \in DOMAIN op[s].inserted : i > Top(s).base /\ op[s].inserted[i] = x.sid
  BY <1>0, InsertedOwn
<1>2. x.sid = Root(s).sid
  BY <1>0, <1>1 DEF KindsAtRoot
<1>3. /\ stack[s] \in Seq(FrameType) /\ Top(s) = stack[s][1] /\ Top(s) \in FrameType
      /\ op[s] \in CallType /\ op[s] # None
  BY <1>0, TopTyped
<1>4. FramesSound(stack[s], op[s].inserted) /\ NoneTwice(op[s].inserted)
  BY <1>0, <1>3 DEF StackSound
<1>5. x.sid # 0
  BY <1>0 DEF TypeInv, TablesTyped, RowType, Sid
<1>6. PICK k \in Nat \ {0} : k = Len(stack[s])
  BY <1>3
<1>7. DOMAIN stack[s] = 1 .. k /\ 1 \in 1 .. k /\ k \in 1 .. k
  BY <1>3, <1>6
<1>8. CASE k = 1
  <2>1. Root(s) = Top(s)
    BY <1>3, <1>6, <1>8 DEF Root
  <2>2. Top(s).sid = 0
    BY <1>3, <1>4, <1>7 DEF FramesSound
  <2> QED BY <1>2, <1>5, <2>1, <2>2
<1>9. CASE k # 1
  <2>1. Root(s) = stack[s][k] /\ 1 < k /\ stack[s][1].stage # "lookup"
    <3>1. Root(s) = stack[s][k]
      BY <1>6 DEF Root
    <3>2. 1 < k
      <4>1. k \in Nat /\ k # 0 /\ k # 1
        BY <1>9
      <4> QED BY <4>1
    <3>3. stack[s][1].stage # "lookup"
      BY <1>3
    <3> QED BY <3>1, <3>2, <3>3
  <2>2. stack[s][k].sid # 0
    BY <1>2, <1>5, <2>1
  <2>3. PICK n \in 1 .. stack[s][1].base : op[s].inserted[n] = stack[s][k].sid
    BY <1>4, <1>7, <2>1, <2>2 DEF FramesSound
  <2>4. stack[s][1].base <= Len(op[s].inserted) /\ stack[s][1].base \in Nat
    BY <1>3, <1>4, <1>7, <2>1 DEF FramesSound, FrameType
  <2>5. Len(op[s].inserted) \in Nat /\ DOMAIN op[s].inserted = 1 .. Len(op[s].inserted)
    BY <1>3 DEF CallType
  <2>6. n \in DOMAIN op[s].inserted /\ n < i
    BY <1>1, <1>3, <2>4, <2>5
  <2>7. n = i
    BY <1>1, <1>2, <1>4, <2>1, <2>3, <2>6 DEF NoneTwice
  <2> QED BY <2>5, <2>6, <2>7
<1> QED BY <1>8, <1>9

LEMMA TakesBackTables ==
  ASSUME Inv, OwnedInv, NEW s \in Stores, Discard(s), TakesBack(s)
  PROVE  TablesOwned'
<1>0. /\ TablesOwned /\ TypeInv /\ SidsUnique /\ InsertedHere(s) /\ None \notin Stores
      /\ stack[s] # <<>> /\ Top(s).stage \in {"refs", "insert"}
  BY TransactionsAssumption DEF OwnedInv, Inv, TablesSound, StoreSound, TakesBack
<1>1. /\ rows' = {x \in rows : x.sid \notin InsertedSince(s)} /\ claims' = Owned(s, rows')
      /\ mains' = mains /\ stack' = stack
  BY DEF Discard
<1>2. rows' \subseteq rows /\ claims' \subseteq claims
  BY <1>1 DEF Owned
<1>3. \A x \in rows : x.by # s => x \in rows'
  BY <1>0, <1>1, InsertedOwn
<1>4. \A x \in rows : x.by \in {None, s} /\ IsEntryRow(x) => x.id # None
  BY <1>0, NoneUnclaimed DEF TablesOwned, Saving, Top
<1>5. \A x \in rows : x.id # None => IsEntryRow(x)
  BY <1>0 DEF TablesOwned, RowsIdentified
<1>6. \A c \in claims : c.by \notin {None, s} => c \in claims'
  BY <1>1 DEF Owned
<1>7. \A c \in claims, x \in rows' : x.by \in {None, s} /\ x.id # None /\ c.owner = Owner(c.what, x) => c \in claims'
  BY <1>1, <1>2, <1>5 DEF Owned, Seen, IsEntryRow
<1>8. \A c \in claims : c.by # s => \E x \in rows' : OwnerIs(c, x)
  <2> SUFFICES ASSUME NEW c \in claims, c.by # s PROVE \E x \in rows' : OwnerIs(c, x)
    OBVIOUS
  <2>1. PICK x \in rows : OwnerIs(c, x)
    BY <1>0 DEF TablesOwned, ClaimsOwned
  <2>2. x.by # s
    BY <1>0, <2>1 DEF OwnerIs
  <2> QED BY <1>3, <2>1, <2>2
<1>9. \A c \in claims : c.by = None => c \in claims'
  <2> SUFFICES ASSUME NEW c \in claims, c.by = None PROVE c \in claims'
    OBVIOUS
  <2>1. PICK x \in rows' : OwnerIs(c, x)
    BY <1>0, <1>8
  <2> QED BY <1>7, <2>1 DEF OwnerIs
<1>10. \A x \in rows', c \in claims : \A what : x.id # None /\ Covers(c, what, x) => c \in claims'
  <2> SUFFICES ASSUME NEW x \in rows', NEW c \in claims, NEW what, x.id # None, Covers(c, what, x)
               PROVE  c \in claims'
    OBVIOUS
  <2>1. CASE c.by = s
    <3>1. x.by \in {None, s} /\ c.owner = Owner(c.what, x)
      BY <1>0, <2>1 DEF Covers
    <3> QED BY <1>7, <3>1
  <2>2. CASE c.by # s
    BY <1>6, <1>9, <2>2
  <2> QED BY <2>1, <2>2
<1>11. \A c \in claims' : \E x \in rows' : OwnerIs(c, x)
  <2> TAKE c \in claims'
  <2>1. CASE c.by # s
    BY <1>2, <1>8, <2>1
  <2>2. CASE c.by = s
    <3>1. PICK x \in Seen(s, rows') : IsEntryRow(x) /\ c.owner = Owner(c.what, x)
      BY <1>1, <2>2 DEF Owned, IsEntryRow
    <3>2. /\ x \in rows' /\ x \in rows /\ x.by \in {None, s} /\ x.id # None
          /\ c \in claims /\ c.what \in {"entry", "row"}
      BY <1>0, <1>2, <1>4, <3>1 DEF Seen, TypeInv, TablesTyped, ClaimType
    <3>3. PICK b \in claims : Covers(b, c.what, x)
      BY <1>0, <3>2 DEF TablesOwned, RowsClaimed
    <3>4. b = c
      BY <1>0, <3>1, <3>2, <3>3 DEF Covers, TablesOwned, ClaimsUnique, SameOwner
    <3>5. ASSUME c.what = "row" PROVE x.by = c.by
      <4>1. PICK v \in rows : OwnerIs(c, v)
        BY <1>0, <3>2 DEF TablesOwned, ClaimsOwned
      <4>2. v.sid = x.sid
        BY <3>1, <3>5, <4>1 DEF OwnerIs, Owner
      <4>3. v = x
        BY <1>0, <3>2, <4>2 DEF SidsUnique
      <4> QED BY <3>5, <4>1, <4>3 DEF OwnerIs
    <3> QED BY <2>2, <3>2, <3>3, <3>4, <3>5 DEF OwnerIs, Covers
  <2> QED BY <2>1, <2>2
<1>12. \A x \in rows', y \in rows : x.kind # None /\ Founds(y, x) => y \in rows'
  BY <1>0, <1>1, KindsNotTakenBack DEF Founds
<1>13. \A x \in rows' : AtClaim(x) => AtClaim(x)'
  BY <1>1 DEF AtClaim, Saving, Top
<1> QED BY <1>0, <1>1, <1>2, <1>10, <1>11, <1>12, <1>13, TablesLessened
-----------------------------------------------------------------------------
(* Steps that leave the ids alone.                                         *)

Writing == [w \in Writers |-> w]

\* No frame claims ids, before and after.
NoClaims(st) == \A i \in DOMAIN st : st[i].stage # "claim"

LEMMA NotSavingClaim ==
  ASSUME TypeInv, NEW s \in Stores, NoClaims(stack[s])
  PROVE  ~Saving(s, "claim")
<1> SUFFICES ASSUME Saving(s, "claim") PROVE FALSE
  OBVIOUS
<1>1. stack[s] # <<>> /\ Top(s).stage = "claim"
  BY DEF Saving, Top
<1>2. Top(s) = stack[s][1] /\ 1 \in DOMAIN stack[s]
  BY <1>1, TopTyped
<1> QED BY <1>1, <1>2 DEF NoClaims

LEMMA QuietTables ==
  ASSUME Inv, OwnedInv, NEW s \in Stores, OthersKept(s), NoClaims(stack[s]), RowsCarried(Writing),
         claims' = claims, mains \subseteq mains', TypeInv', SidsUnique'
  PROVE  TablesOwned'
<1>0. TypeInv /\ TablesOwned /\ ~Saving(s, "claim")
  BY NotSavingClaim DEF Inv, OwnedInv
<1>1. Writing[None] = None
  BY DEF Writing, Writers
<1>2. ClaimsCarried(Writing)
  <2>1. \A c \in claims : Reclaimed(c, c, Writing)
    BY <1>0 DEF Reclaimed, Writing, TypeInv, TablesTyped, ClaimType
  <2> QED BY <2>1 DEF ClaimsCarried
<1>3. MainsCarried(Writing)
  <2>1. \A k \in mains : k.by = Writing[k.by]
    BY <1>0 DEF Writing, TypeInv, TablesTyped, MarkType
  <2> QED BY <2>1 DEF MainsCarried
<1>4. \A x \in rows, y \in rows' : Carried(x, y, Writing) /\ AtClaim(x) => AtClaim(y)'
  <2> SUFFICES ASSUME NEW x \in rows, NEW y \in rows', Carried(x, y, Writing), AtClaim(x) PROVE AtClaim(y)'
    OBVIOUS
  <2>1. x.by # s
    BY <1>0 DEF AtClaim
  <2>2. x.by \in Writers
    BY <1>0 DEF TypeInv, TablesTyped, RowType
  <2>3. y.sid = x.sid /\ y.by = x.by
    BY <2>2 DEF Carried, Writing
  <2> QED BY <2>1, <2>3, OthersAtClaim
<1> QED BY <1>0, <1>1, <1>2, <1>3, <1>4, TablesCarried

-----------------------------------------------------------------------------
(* Ids are claimed.                                                        *)

\* What Claim does where it does not raise.
IdsClaimed(s) ==
  LET x == Row(Top(s).sid)
  IN /\ Saving(s, "claim") /\ ~ClaimWaits(s) /\ ~ClaimedElsewhere(s, x)
     /\ rows' = (rows \ {x}) \cup {[x EXCEPT !.id = FinalId(s, x), !.imm = ImmutableId(s, x)]}
     /\ claims' = claims \cup {d \in IdClaims(s, x) : \A c \in Seen(s, claims) : ~SameId(c, d)}
     /\ mains' = mains

\* The row that claims its ids.
LEMMA ClaimingRow ==
  ASSUME Inv, OwnedInv, NEW s \in Stores, Saving(s, "claim")
  PROVE  LET x == Row(Top(s).sid)
         IN /\ x \in rows /\ x \in RowType /\ x.sid = Top(s).sid /\ x.by = s /\ x.id = None /\ IsEntryRow(x)
            /\ FinalId(s, x) # None
<1> DEFINE x == Row(Top(s).sid)
<1>0. TypeInv /\ SidsUnique /\ FramesHaveRows(s) /\ StackSound(s) /\ ClaimFrame(s)
  BY DEF Inv, TablesSound, StoreSound, OwnedInv, CallOwned
<1>1. /\ stack[s] # <<>> /\ Top(s).stage = "claim" /\ 1 \in DOMAIN stack[s] /\ Top(s) = stack[s][1] /\ op[s] # None
  BY <1>0, TopTyped DEF Saving, Top
<1>2. Top(s).sid # 0
  BY <1>0, <1>1 DEF StackSound, FramesSound
<1>3. x \in rows /\ x \in RowType /\ x.sid = Top(s).sid /\ x.by = s
  BY <1>0, <1>1, <1>2, RowOfFrame
<1>4. x.id = None /\ IsEntryRow(x)
  BY <1>0, <1>1, <1>3 DEF ClaimFrame
<1>5. FinalId(s, x) # None
  <2>1. x.kin \in Nat
    BY <1>3 DEF RowType, Sid
  <2>2. <<x.kin>> \in Seq(Nat)
    BY <2>1
  <2>3. <<x.kin>> # None
    BY <2>2, TransactionsAssumption
  <2> QED BY <2>3 DEF FinalId
<1> QED BY <1>3, <1>4, <1>5

LEMMA ClaimTables ==
  ASSUME Inv, OwnedInv, NEW s \in Stores, OthersKept(s), IdsClaimed(s), TypeInv', SidsUnique'
  PROVE  TablesOwned'
<1> DEFINE x == Row(Top(s).sid)
           y == [x EXCEPT !.id = FinalId(s, x), !.imm = ImmutableId(s, x)]
<1>0. TypeInv /\ TablesOwned /\ SidsUnique /\ Saving(s, "claim") /\ None \notin Stores
  BY TransactionsAssumption DEF Inv, TablesSound, OwnedInv, IdsClaimed
<1>1. /\ x \in rows /\ x \in RowType /\ x.sid = Top(s).sid /\ x.by = s /\ x.id = None /\ IsEntryRow(x)
      /\ FinalId(s, x) # None
  BY <1>0, ClaimingRow
<1>2. /\ y.sid = x.sid /\ y.key = x.key /\ y.kin = x.kin /\ y.group = x.group /\ y.kind = x.kind /\ y.by = s
      /\ y.id = FinalId(s, x) /\ y.imm = ImmutableId(s, x)
  <2>1. PICK z \in RowType : z = x
    BY <1>1
  <2>2. y = [z EXCEPT !.id = FinalId(s, z), !.imm = ImmutableId(s, z)] /\ z.by = s
    BY <1>1, <2>1
  <2> HIDE DEF x, y
  <2> QED BY <2>1, <2>2 DEF RowType
<1> DEFINE made(what) == ClaimOf(what, IdOf(what, y), y, s)
<1>3. IdClaims(s, x) = {made("entry"), made("row")}
  <2>1. Owner("entry", y) = Owner("entry", x) /\ Owner("row", y) = Owner("row", x)
    BY <1>2 DEF Owner
  <2> HIDE DEF x, y
  <2> QED BY <1>2, <2>1 DEF IdClaims, IdOf, ClaimOf
<1>4. /\ rows' = (rows \ {x}) \cup {y} /\ mains' = mains
      /\ ~ClaimWaits(s) /\ ~ClaimedElsewhere(s, x)
      /\ claims' = claims \cup {d \in {made("entry"), made("row")} : \A c \in Seen(s, claims) : ~SameId(c, d)}
  BY <1>3 DEF IdsClaimed
<1>5. \A c \in claims, d \in {made("entry"), made("row")} :
        (SameId(c, d) <=> SameOwner(c, d)) /\ (SameId(c, d) => c \in Seen(s, claims))
  <2> TAKE c \in claims, d \in {made("entry"), made("row")}
  <2>1. CASE c \in Pending(s, claims)
    BY <1>0, <1>3, <1>4, <2>1 DEF ClaimWaits
  <2>2. CASE c \in Seen(s, claims)
    BY <1>3, <1>4, <2>2 DEF ClaimedElsewhere
  <2> QED BY <2>1, <2>2 DEF Pending, Seen
<1>6. \A what : /\ made(what).what = what /\ made(what).id = IdOf(what, y)
                /\ made(what).owner = Owner(what, y) /\ made(what).by = s
  BY DEF ClaimOf
<1> HIDE DEF x, y, made
<1>7. \A w \in rows' : w = y \/ (w \in rows /\ w # x)
  BY <1>4
<1>8. y \in rows' /\ \A w \in rows : w # x => w \in rows'
  BY <1>4
<1>9. y.id # None /\ IsEntryRow(y)
  BY <1>1, <1>2 DEF IsEntryRow
<1>10. KeysUnique'
  <2> SUFFICES ASSUME NEW v \in rows', NEW w \in rows', v.key = w.key, Policy[v.key.content] = "content_id"
               PROVE  v = w
    BY DEF KeysUnique
  <2>1. \A a, b \in rows : a.key = b.key /\ Policy[a.key.content] = "content_id" => a = b
    BY <1>0 DEF TablesOwned, KeysUnique
  <2> QED BY <1>1, <1>2, <1>7, <2>1
<1>11. ClaimsUnique'
  <2> SUFFICES ASSUME NEW c \in claims', NEW d \in claims', SameId(c, d) \/ SameOwner(c, d)
               PROVE  c = d
    BY DEF ClaimsUnique, SameId, SameOwner
  <2>1. ASSUME NEW a \in claims, NEW b \in claims', b \notin claims
        PROVE  ~SameId(a, b) /\ ~SameOwner(a, b)
    <3>1. b \in {made("entry"), made("row")} /\ \A e \in Seen(s, claims) : ~SameId(e, b)
      BY <1>4, <2>1
    <3> QED BY <1>5, <3>1
  <2>2. CASE c \in claims /\ d \in claims
    BY <1>0, <2>2 DEF TablesOwned, ClaimsUnique
  <2>3. CASE c \in claims /\ d \notin claims
    BY <2>1, <2>3
  <2>4. CASE c \notin claims /\ d \in claims
    BY <2>1, <2>4 DEF SameId, SameOwner
  <2>5. CASE c \notin claims /\ d \notin claims
    <3>1. c \in {made("entry"), made("row")} /\ d \in {made("entry"), made("row")}
      BY <1>4, <2>5
    <3> QED BY <1>6, <3>1 DEF SameId, SameOwner
  <2> QED BY <2>2, <2>3, <2>4, <2>5
<1>12. RowsIdentified'
  <2> SUFFICES ASSUME NEW w \in rows'
               PROVE  (w.id # None => IsEntryRow(w)) /\ (w.id = None /\ IsEntryRow(w) => AtClaim(w)')
    BY DEF RowsIdentified, IsEntryRow
  <2>1. CASE w = y
    BY <1>9, <2>1
  <2>2. CASE w \in rows /\ w # x
    <3>1. (w.id # None => IsEntryRow(w)) /\ (w.id = None /\ IsEntryRow(w) => AtClaim(w))
      BY <1>0, <2>2 DEF TablesOwned, RowsIdentified
    <3>2. ASSUME AtClaim(w) PROVE AtClaim(w)'
      <4>1. w.by # s
        BY <1>0, <1>1, <2>2, <3>2 DEF AtClaim, SidsUnique
      <4> QED BY <3>2, <4>1, OthersAtClaim
    <3> QED BY <3>1, <3>2
  <2> QED BY <1>7, <2>1, <2>2
<1>13. RowsClaimed'
  <2> SUFFICES ASSUME NEW w \in rows', w.id # None, NEW what \in {"entry", "row"}
               PROVE  \E c \in claims' : Covers(c, what, w)
    BY DEF RowsClaimed, Covers, IdOf, Owner
  <2>1. CASE w = y
    <3>1. CASE made(what) \in claims'
      <4>1. Covers(made(what), what, y)
        BY <1>2, <1>6 DEF Covers
      <4> QED BY <2>1, <3>1, <4>1
    <3>2. CASE made(what) \notin claims'
      <4>1. PICK c \in Seen(s, claims) : SameId(c, made(what))
        BY <1>4, <3>2
      <4>2. c \in claims /\ c \in claims' /\ c.by \in {None, s}
        BY <1>4, <4>1 DEF Seen
      <4>3. SameOwner(c, made(what))
        BY <1>5, <4>1, <4>2
      <4>4. Covers(c, what, y)
        BY <1>2, <1>6, <4>1, <4>2, <4>3 DEF Covers, SameId, SameOwner
      <4> QED BY <2>1, <4>2, <4>4
    <3> QED BY <3>1, <3>2
  <2>2. CASE w \in rows /\ w # x
    <3>1. PICK c \in claims : Covers(c, what, w)
      BY <1>0, <2>2 DEF TablesOwned, RowsClaimed
    <3> QED BY <1>4, <3>1
  <2> QED BY <1>7, <2>1, <2>2
<1>14. ClaimsOwned'
  <2> SUFFICES ASSUME NEW c \in claims' PROVE \E w \in rows' : OwnerIs(c, w)
    BY DEF ClaimsOwned, OwnerIs, IdOf, Owner
  <2>1. CASE c \in claims
    <3>1. PICK w \in rows : OwnerIs(c, w)
      BY <1>0, <2>1 DEF TablesOwned, ClaimsOwned
    <3>2. w # x
      BY <1>1, <3>1 DEF OwnerIs
    <3> QED BY <1>8, <3>1, <3>2
  <2>2. CASE c \notin claims
    <3>1. PICK what \in {"entry", "row"} : c = made(what)
      BY <1>4, <2>2
    <3>2. OwnerIs(c, y)
      BY <1>2, <1>6, <1>9, <3>1 DEF OwnerIs
    <3> QED BY <1>8, <3>2
  <2> QED BY <2>1, <2>2
<1>15. LineagesSound'
  <2>1. ASSUME NEW w \in rows' PROVE w.kin <= w.sid
    BY <1>0, <1>1, <1>2, <1>7 DEF TablesOwned, LineagesSound
  <2>2. ASSUME NEW v \in rows', NEW w \in rows', v.id = None, IsEntryRow(v), v.kin = v.sid, w.kin = v.kin
        PROVE  w = v
    <3>1. v \in rows /\ v # x
      BY <1>7, <1>9, <2>2
    <3>2. CASE w = y
      <4>1. x = v
        BY <1>0, <1>1, <1>2, <2>2, <3>1, <3>2 DEF TablesOwned, LineagesSound
      <4> QED BY <3>1, <4>1
    <3>3. CASE w \in rows
      BY <1>0, <2>2, <3>1, <3>3 DEF TablesOwned, LineagesSound
    <3> QED BY <1>7, <3>2, <3>3
  <2> QED BY <2>1, <2>2 DEF LineagesSound, IsEntryRow
<1>16. KindsFounded'
  <2> SUFFICES ASSUME NEW w \in rows', w.kind # None
               PROVE  /\ IsEntryRow(w)
                      /\ \E v \in rows' : Founds(v, w)
                      /\ \E k \in mains' : k.sid = w.sid /\ k.by \in {None, w.by}
    BY DEF KindsFounded, IsEntryRow, Founds
  <2>1. CASE w \in rows /\ w # x
    <3>1. IsEntryRow(w) /\ \E k \in mains : k.sid = w.sid /\ k.by \in {None, w.by}
      BY <1>0, <2>1 DEF TablesOwned, KindsFounded
    <3>2. PICK v \in rows : Founds(v, w)
      BY <1>0, <2>1 DEF TablesOwned, KindsFounded
    <3>3. v # x
      <4> SUFFICES ASSUME v = x PROVE FALSE
        OBVIOUS
      <4>1. x.kin = x.sid /\ w.kin = x.kin
        BY <1>1, <3>2 DEF Founds
      <4>2. w = x
        BY <1>0, <1>1, <2>1, <4>1 DEF TablesOwned, LineagesSound
      <4> QED BY <2>1, <4>2
    <3> QED BY <1>4, <1>8, <3>1, <3>2, <3>3
  <2>2. CASE w = y
    <3>1. x.kind # None
      BY <1>2, <2>2
    <3>2. \E k \in mains' : k.sid = w.sid /\ k.by \in {None, w.by}
      BY <1>0, <1>1, <1>2, <1>4, <2>2, <3>1 DEF TablesOwned, KindsFounded
    <3>3. PICK v \in rows : Founds(v, x)
      BY <1>0, <1>1, <3>1 DEF TablesOwned, KindsFounded
    <3>4. CASE v # x
      <4>1. Founds(v, y)
        BY <1>1, <1>2, <3>3 DEF Founds
      <4> QED BY <1>8, <1>9, <2>2, <3>2, <3>4, <4>1
    <3>5. CASE v = x
      <4>1. x.kin = x.sid
        BY <1>1, <3>3, <3>5 DEF Founds
      <4>2. {z \in Seen(s, rows) : z.kin = x.kin /\ z.sid # x.sid} = {}
        BY <1>0, <1>1, <4>1 DEF TablesOwned, LineagesSound, Seen
      <4>3. Revision(s, x) = 1
        BY <4>2, FS_EmptySet DEF Revision
      <4>4. y.imm = <<y.id, y.kind, 1>>
        BY <1>2, <4>3 DEF ImmutableId
      <4>5. Founds(y, y)
        BY <1>9, <4>4 DEF Founds
      <4> QED BY <1>8, <1>9, <2>2, <3>2, <4>5
    <3> QED BY <3>4, <3>5
  <2> QED BY <1>7, <2>1, <2>2
<1> QED BY <1>10, <1>11, <1>12, <1>13, <1>14, <1>15, <1>16 DEF TablesOwned

-----------------------------------------------------------------------------
(* A row is inserted.                                                      *)

\* What is written into it.
IsNew(s, r) ==
  /\ rows' = rows \cup {r}
  /\ r.sid = NewSid(s) /\ r.key = Key(s) /\ r.by = s /\ r.id = None
  /\ r.kin = (IF Kin(s) # 0 THEN Kin(s) ELSE r.sid)
  /\ r.group = (IF Group(s) # 0 THEN Group(s) ELSE r.sid)
  /\ r.kind = Kind(s)

LEMMA InsertedRow ==
  ASSUME NEW s \in Stores, Insert(s), TypeInv'
  PROVE  \E r \in RowType : IsNew(s, r)
<1> DEFINE r == [sid |-> NewSid(s), key |-> Key(s), obj |-> Top(s).obj,
                 refs |-> GotSids(s, Refs[Top(s).obj]), kids |-> {},
                 kin |-> IF Kin(s) # 0 THEN Kin(s) ELSE NewSid(s),
                 group |-> IF Group(s) # 0 THEN Group(s) ELSE NewSid(s),
                 kind |-> Kind(s), id |-> None, imm |-> None,
                 ts |-> stamp[s], who |-> s, torn |-> FALSE, by |-> s]
<1>1. rows' = rows \cup {r}
  BY DEF Insert
<1>2. /\ r.sid = NewSid(s) /\ r.key = Key(s) /\ r.by = s /\ r.id = None
      /\ r.kin = (IF Kin(s) # 0 THEN Kin(s) ELSE r.sid)
      /\ r.group = (IF Group(s) # 0 THEN Group(s) ELSE r.sid)
      /\ r.kind = Kind(s)
  OBVIOUS
<1> HIDE DEF r
<1>3. r \in RowType
  BY <1>1 DEF TypeInv, TablesTyped
<1> QED BY <1>1, <1>2, <1>3 DEF IsNew

\* The frame goes on to claim the ids of an entry.
LEMMA InsertedFrame ==
  ASSUME TypeInv, SidsUnique, NEW s \in Stores, Insert(s)
  PROVE  \E f \in FrameType :
           /\ GoesOn(stack'[s], stack[s], f) /\ f.sid = NewSid(s) /\ f.obj = Top(s).obj
           /\ f.stage = (IF IsEntry(s) THEN "claim" ELSE "kids")
           /\ IsEntry(s) => Len(stack'[s]) = Len(stack[s]) /\ stack'[s][1] = f
<1> DEFINE f == [Top(s) EXCEPT !.sid = NewSid(s), !.stage = IF IsEntry(s) THEN "claim" ELSE "kids"]
<1>1. stack[s] # <<>> /\ ~Locked(s)
  BY DEF Insert, InsertWaits, Inserting, Saving
<1>2. /\ stack[s] \in Seq(FrameType) /\ Top(s) \in FrameType /\ NewSid(s) \in Nat
      /\ stack \in [Stores -> Seq(FrameType)]
  BY <1>1, TopTyped, NewSidFresh DEF Sid, TypeInv, SessionsTyped
<1>3. f \in FrameType /\ f.sid = NewSid(s) /\ f.obj = Top(s).obj /\ f.stage = (IF IsEntry(s) THEN "claim" ELSE "kids")
  BY <1>2 DEF FrameType, Stages
<1>4. stack'[s] = GoOn(f) \o Tail(stack[s])
  BY <1>2 DEF Insert
<1> HIDE DEF f
<1>5. GoesOn(stack'[s], stack[s], f)
  BY <1>1, <1>2, <1>3, <1>4, WentOn
<1>6. ASSUME IsEntry(s) PROVE Len(stack'[s]) = Len(stack[s]) /\ stack'[s][1] = f
  <2>1. Wanted(f) = {}
    BY <1>3, <1>6 DEF Wanted
  <2>2. stack'[s] = <<f>> \o Tail(stack[s])
    BY <1>4, <2>1 DEF GoOn
  <2>3. PICK q \in Seq(FrameType) : q = stack[s]
    BY <1>2
  <2>4. q # <<>> /\ stack'[s] = <<f>> \o Tail(q)
    BY <1>1, <2>2, <2>3
  <2>5. Tail(q) \in Seq(FrameType) /\ Len(Tail(q)) = Len(q) - 1 /\ Len(q) \in Nat \ {0}
    BY <2>4
  <2> QED BY <1>3, <2>3, <2>4, <2>5
<1> QED BY <1>3, <1>5, <1>6

LEMMA InsertTables ==
  ASSUME Inv, OwnedInv, NEW s \in Stores, Insert(s), Adds(s), TypeInv', SidsUnique'
  PROVE  TablesOwned'
<1>0. /\ TypeInv /\ SidsUnique /\ TablesOwned /\ CallFollows(s) /\ StackSound(s) /\ None \notin Stores
      /\ stack[s] # <<>> /\ Top(s).stage \in {"refs", "insert"} /\ ~Locked(s)
  BY TransactionsAssumption DEF Inv, TablesSound, StoreSound, OwnedInv, CallOwned, Adds, Insert, InsertWaits
<1>1. PICK r \in RowType : IsNew(s, r)
  BY InsertedRow
<1>2. PICK f \in FrameType : /\ f.sid = NewSid(s) /\ f.stage = (IF IsEntry(s) THEN "claim" ELSE "kids")
                             /\ IsEntry(s) => Len(stack'[s]) = Len(stack[s]) /\ stack'[s][1] = f
  BY <1>0, InsertedFrame
<1>3. /\ r.sid \in Sid /\ \A x \in rows : x.sid < r.sid /\ x.sid # r.sid
      /\ rows' = rows \cup {r} /\ r.id = None /\ r.by = s /\ r.sid = NewSid(s)
  BY <1>0, <1>1, NewSidFresh DEF IsNew
<1>4. claims' = claims /\ mains \subseteq mains' /\ OthersKept(s)
  BY DEF Adds
<1>5. /\ stack[s] \in Seq(FrameType) /\ Top(s) = stack[s][1] /\ op[s] \in CallType /\ op[s] # None
      /\ Len(stack[s]) \in Nat \ {0}
  BY <1>0, TopTyped
<1>6. IsEntryRow(r) <=> IsEntry(s)
  BY <1>0, <1>1, KeyTyped DEF IsNew, IsEntryRow, IsEntry, Con
<1>7. \A x \in Seen(s, rows) : IsEntryRow(x) => x.id # None
  <2>1. ~Saving(s, "claim")
    BY <1>0 DEF Saving, Top
  <2> QED BY <1>0, <2>1, NoneUnclaimed DEF Seen, TablesOwned
<1>8. ASSUME Kin(s) # 0
      PROVE  \E p \in Seen(s, rows) : p.kin = Kin(s) /\ p.group = op[s].group /\ p.kind = op[s].kind
  <2>1. Kin(s) = op[s].kin
    BY <1>8 DEF Kin
  <2> QED BY <1>0, <1>5, <1>8, <2>1 DEF CallFollows, Followed
<1>9. Seen(s, rows) \subseteq rows
  BY DEF Seen
<1>10. KeysUnique'
  <2>1. ASSUME NEW x \in rows, x.key = Key(s), Policy[x.key.content] = "content_id"
        PROVE  FALSE
    <3>1. Policy[Con(s)] = "content_id"
      BY <1>0, <2>1, KeyTyped DEF Con
    <3>2. CASE x \in Seen(s, rows)
      <4>1. x \in Matches(s)
        BY <2>1, <3>1, <3>2 DEF Matches, WithKey
      <4> QED BY <4>1 DEF Insert
    <3>3. CASE x \in Pending(s, rows)
      <4>1. WithKey(Pending(s, rows), Key(s)) # {}
        BY <2>1, <3>3 DEF WithKey
      <4> QED BY <3>1, <4>1 DEF Insert, InsertWaits
    <3> QED BY <3>2, <3>3 DEF Seen, Pending
  <2>2. r.key = Key(s)
    BY <1>1 DEF IsNew
  <2> QED BY <1>0, <1>3, <2>1, <2>2 DEF KeysUnique, TablesOwned
<1>11. ClaimsUnique'
  BY <1>0, <1>4 DEF TablesOwned, ClaimsUnique, SameId, SameOwner
<1>12. RowsIdentified'
  <2> SUFFICES ASSUME NEW w \in rows'
               PROVE  (w.id # None => IsEntryRow(w)) /\ (w.id = None /\ IsEntryRow(w) => AtClaim(w)')
    BY DEF RowsIdentified, IsEntryRow
  <2>1. CASE w = r
    <3>1. ASSUME IsEntryRow(r) PROVE AtClaim(r)'
      <4>1. IsEntry(s) /\ stack'[s][1] = f /\ Len(stack'[s]) = Len(stack[s]) /\ f.stage = "claim"
        BY <1>2, <1>6, <3>1
      <4>2. stack'[s] # <<>> /\ Head(stack'[s]) = f
        <5>1. stack'[s] \in Seq(FrameType)
          BY DEF TypeInv, SessionsTyped
        <5>2. PICK q \in Seq(FrameType) : q = stack'[s]
          BY <5>1
        <5> QED BY <1>5, <4>1, <5>2
      <4> QED BY <1>2, <1>3, <4>1, <4>2 DEF AtClaim, Saving, Top
    <3> QED BY <1>3, <2>1, <3>1
  <2>2. CASE w \in rows
    <3>1. (w.id # None => IsEntryRow(w)) /\ (w.id = None /\ IsEntryRow(w) => AtClaim(w))
      BY <1>0, <2>2 DEF TablesOwned, RowsIdentified
    <3>2. ASSUME AtClaim(w) PROVE AtClaim(w)'
      <4>1. w.by # s
        BY <1>0, <3>2 DEF AtClaim, Saving, Top
      <4> QED BY <1>4, <3>2, <4>1, OthersAtClaim
    <3> QED BY <3>1, <3>2
  <2> QED BY <1>3, <2>1, <2>2
<1>13. RowsClaimed'
  <2> SUFFICES ASSUME NEW w \in rows', w.id # None, NEW what \in {"entry", "row"}
               PROVE  \E c \in claims' : Covers(c, what, w)
    BY DEF RowsClaimed, Covers, IdOf, Owner
  <2>1. w \in rows
    BY <1>3
  <2> QED BY <1>0, <1>4, <2>1 DEF TablesOwned, RowsClaimed
<1>14. ClaimsOwned'
  <2> SUFFICES ASSUME NEW c \in claims' PROVE \E w \in rows' : OwnerIs(c, w)
    BY DEF ClaimsOwned, OwnerIs, IdOf, Owner
  <2>1. PICK w \in rows : OwnerIs(c, w)
    BY <1>0, <1>4 DEF TablesOwned, ClaimsOwned
  <2> QED BY <1>3, <2>1
<1>15. LineagesSound'
  <2>1. r.kin <= r.sid
    <3>1. CASE Kin(s) = 0
      BY <1>1, <1>3, <3>1 DEF IsNew, Sid
    <3>2. CASE Kin(s) # 0
      <4>1. PICK p \in rows : p.kin = Kin(s)
        BY <1>8, <1>9, <3>2
      <4>2. r.kin = p.kin /\ p.kin <= p.sid /\ p.sid < r.sid
        BY <1>0, <1>1, <1>3, <3>2, <4>1 DEF IsNew, TablesOwned, LineagesSound
      <4>3. p.kin \in Nat /\ p.sid \in Nat /\ r.sid \in Nat
        BY <1>0, <1>3 DEF TypeInv, TablesTyped, RowType, Sid
      <4> QED BY <4>2, <4>3
    <3> QED BY <3>1, <3>2
  <2>2. ASSUME NEW v \in rows', NEW w \in rows', v.id = None, IsEntryRow(v), v.kin = v.sid, w.kin = v.kin
        PROVE  w = v
    <3>1. CASE v = r /\ w \in rows
      <4>1. w.kin <= w.sid /\ w.sid < r.sid /\ w.kin = r.sid
        BY <1>0, <1>3, <2>2, <3>1 DEF TablesOwned, LineagesSound
      <4>2. w.sid \in Nat /\ r.sid \in Nat
        BY <1>0, <1>3, <3>1 DEF TypeInv, TablesTyped, RowType, Sid
      <4> QED BY <4>1, <4>2
    <3>2. CASE v \in rows /\ w = r
      <4>1. r.kin # r.sid
        BY <1>3, <2>2, <3>2
      <4>2. Kin(s) # 0 /\ r.kin = Kin(s)
        BY <1>1, <4>1 DEF IsNew
      <4>3. PICK p \in Seen(s, rows) : p.kin = Kin(s)
        BY <1>8, <4>2
      <4>4. p = v
        BY <1>0, <1>9, <2>2, <3>2, <4>2, <4>3 DEF TablesOwned, LineagesSound
      <4> QED BY <1>7, <2>2, <4>3, <4>4
    <3>3. CASE v \in rows /\ w \in rows
      BY <1>0, <2>2, <3>3 DEF TablesOwned, LineagesSound
    <3> QED BY <1>3, <3>1, <3>2, <3>3
  <2>3. \A w \in rows' : w.kin <= w.sid
    BY <1>0, <1>3, <2>1 DEF TablesOwned, LineagesSound
  <2> QED BY <2>2, <2>3 DEF LineagesSound, IsEntryRow
<1>16. KindsFounded'
  <2> SUFFICES ASSUME NEW w \in rows', w.kind # None
               PROVE  /\ IsEntryRow(w)
                      /\ \E v \in rows' : Founds(v, w)
                      /\ \E k \in mains' : k.sid = w.sid /\ k.by \in {None, w.by}
    BY DEF KindsFounded, IsEntryRow, Founds
  <2>1. CASE w \in rows
    BY <1>0, <1>3, <1>4, <2>1 DEF TablesOwned, KindsFounded
  <2>2. CASE w = r
    <3>1. IsRoot(s) /\ Kind(s) = op[s].kind /\ op[s].kind # None /\ r.kind = op[s].kind
          /\ Kin(s) = op[s].kin /\ Group(s) = op[s].group
      BY <1>1, <2>2 DEF IsNew, Kind, Kin, Group
    <3>2. Top(s) = Root(s)
      BY <1>5, <3>1 DEF IsRoot, Root
    <3>3. IsEntryRow(r)
      BY <1>0, <1>5, <1>6, <3>1, <3>2 DEF CallFollows, StackSound, IsEntry, Con
    <3>4. \E k \in mains' : k.sid = r.sid /\ k.by \in {None, r.by}
      <4>1. [sid |-> r.sid, by |-> s] \in mains'
        BY <1>3, <3>1 DEF Insert
      <4> QED BY <1>3, <4>1
    <3>5. CASE Kin(s) = 0
      <4>1. Founds(r, r)
        BY <1>1, <1>3, <3>5 DEF IsNew, Founds
      <4> QED BY <1>3, <2>2, <3>3, <3>4, <4>1
    <3>6. CASE Kin(s) # 0
      <4>1. PICK p \in Seen(s, rows) : p.kin = Kin(s) /\ p.group = op[s].group /\ p.kind = op[s].kind
        BY <1>8, <3>6
      <4>2. p \in rows /\ p.by \in {None, s} /\ p.group # 0
        BY <1>0, <4>1 DEF Seen, TypeInv, TablesTyped, RowType, Sid
      <4>3. PICK y \in rows : Founds(y, p)
        BY <1>0, <3>1, <4>1, <4>2 DEF TablesOwned, KindsFounded
      <4>4. r.kin = p.kin /\ r.group = p.group /\ r.kind = p.kind
        BY <1>1, <3>1, <3>6, <4>1, <4>2 DEF IsNew
      <4>5. Founds(y, r)
        BY <1>3, <4>2, <4>3, <4>4 DEF Founds
      <4> QED BY <1>3, <2>2, <3>3, <3>4, <4>5
    <3> QED BY <3>5, <3>6
  <2> QED BY <1>3, <2>1, <2>2
<1> QED BY <1>10, <1>11, <1>12, <1>13, <1>14, <1>15, <1>16 DEF TablesOwned
-----------------------------------------------------------------------------
(* Every step is one of these, of which the last writes no ids.            *)

\* A call begins, of an alternative or a replacement with the row it is to follow.
Begins(s) == Enters(s) /\ CallFollows(s)'

Quiet(s) ==
  /\ NoClaims(stack[s]) /\ RowsCarried(Writing)
  /\ \/ CaughtIn(s) \/ Begins(s) \/ Moves(s) \/ WritesKids(s) \/ Dispatches(s) \/ Reads(s)
     \/ \E x \in rows : Hits(s, x)

OwnEffect(s) ==
  \/ Undone(s) \/ Commits(s) \/ Quiet(s)
  \/ (Claims(s) /\ IdsClaimed(s)) \/ (Adds(s) /\ Insert(s)) \/ (TakesBack(s) /\ Discard(s))
  \/ (Sweeps(s) /\ Fsck(s))

LEMMA NoneClaiming ==
  ASSUME TypeInv, NEW s \in Stores, ClaimFrame(s), ~Saving(s, "claim")
  PROVE  NoClaims(stack[s])
<1> SUFFICES ASSUME NEW i \in DOMAIN stack[s], stack[s][i].stage = "claim" PROVE FALSE
  BY DEF NoClaims
<1>1. i = 1
  BY DEF ClaimFrame
<1>2. stack[s] \in Seq(FrameType) /\ stack[s] # <<>>
  BY <1>1 DEF TypeInv, SessionsTyped
<1>3. Top(s) = stack[s][1]
  BY <1>2, TopTyped
<1> QED BY <1>1, <1>2, <1>3 DEF Saving, Top

LEMMA UnchangedCarried ==
  ASSUME TypeInv, rows' = rows
  PROVE  RowsCarried(Writing)
<1>1. \A x \in rows : x.by = Writing[x.by]
  BY DEF TypeInv, TablesTyped, RowType, Writing
<1> QED BY <1>1 DEF RowsCarried, Carried

LEMMA CaughtCarried ==
  ASSUME TypeInv, NEW s \in Stores, CaughtIn(s)
  PROVE  RowsCarried(Writing)
<1> DEFINE Torn(x) == \E i \in DOMAIN stack[s] : stack[s][i].sid = x.sid /\ x.by = s
           f == [x \in rows |-> IF Torn(x) THEN [x EXCEPT !.torn = TRUE] ELSE x]
<1>1. rows' = {f[x] : x \in rows}
  BY DEF CaughtIn
<1>2. \A x \in rows : Carried(x, f[x], Writing)
  <2> TAKE x \in rows
  <2>1. x \in RowType /\ x.by = Writing[x.by]
    BY DEF TypeInv, TablesTyped, RowType, Writing
  <2>2. CASE Torn(x)
    <3>1. f[x] = [x EXCEPT !.torn = TRUE]
      BY <2>2
    <3> QED BY <2>1, <3>1 DEF Carried, RowType
  <2>3. CASE ~Torn(x)
    <3>1. f[x] = x
      BY <2>3
    <3> QED BY <2>1, <3>1 DEF Carried
  <2> QED BY <2>2, <2>3
<1> HIDE DEF f
<1> QED BY <1>1, <1>2 DEF RowsCarried

LEMMA KidsCarried ==
  ASSUME Inv, NEW s \in Stores, WriteKids(s)
  PROVE  RowsCarried(Writing)
<1> DEFINE x == Row(Top(s).sid)
           y == [x EXCEPT !.kids = GotSids(s, Items[Top(s).obj])]
<1>0. TypeInv /\ SidsUnique /\ FramesHaveRows(s) /\ StackSound(s)
  BY DEF Inv, TablesSound, StoreSound
<1>1. stack[s] # <<>> /\ Top(s).stage = "kids" /\ Top(s) = stack[s][1] /\ 1 \in DOMAIN stack[s] /\ op[s] # None
  BY <1>0, TopTyped DEF WriteKids, Saving, Top
<1>2. Top(s).sid # 0
  BY <1>0, <1>1 DEF StackSound, FramesSound
<1>3. x \in rows /\ x \in RowType
  BY <1>0, <1>1, <1>2, RowOfFrame
<1>4. Carried(x, y, Writing)
  <2>1. PICK z \in RowType : z = x
    BY <1>3
  <2>2. y = [z EXCEPT !.kids = GotSids(s, Items[Top(s).obj])]
    BY <2>1
  <2> HIDE DEF x, y
  <2> QED BY <2>1, <2>2 DEF Carried, RowType, Writing
<1>5. rows' = (rows \ {x}) \cup {y}
  BY DEF WriteKids
<1> HIDE DEF x, y
<1>6. \A z \in rows : Carried(z, z, Writing)
  BY <1>0 DEF Carried, TypeInv, TablesTyped, RowType, Writing
<1> QED BY <1>3, <1>4, <1>5, <1>6 DEF RowsCarried

LEMMA StartFollows ==
  ASSUME Inv, OwnedInv, NEW s \in Stores, NEW q \in Requests,
         StartSave(s, q) \/ StartAlternative(s, q) \/ StartReplace(s, q)
  PROVE  CallFollows(s)'
<1>0. TypeInv /\ TablesOwned /\ GroupsSound /\ op \in [Stores -> CallType \cup {None}]
  BY DEF Inv, OwnedInv, TypeInv, SessionsTyped
<1>1. CASE StartSave(s, q)
  <2>1. op'[s] = Call(q.obj, [kin |-> 0, group |-> 0, id |-> None], None, None)
    BY <1>0, <1>1 DEF StartSave, Enter
  <2>2. op'[s].kind = None /\ op'[s].kin = 0 /\ op'[s].group = 0
    BY <2>1 DEF Call
  <2> QED BY <2>2 DEF CallFollows
<1>2. CASE StartAlternative(s, q)
  <2>1. PICK x \in Seen(s, rows) :
           /\ x.id = q.of /\ x.kind = None /\ SameTable(x.key.content, Content[q.obj])
           /\ Enter(s, Call(q.obj, [kin |-> 0, group |-> x.kin, id |-> x.id], x.id, q.kind), {})
    BY <1>2 DEF StartAlternative
  <2>2. op'[s] = Call(q.obj, [kin |-> 0, group |-> x.kin, id |-> x.id], x.id, q.kind)
    BY <1>0, <2>1 DEF Enter
  <2>3. op'[s].obj = q.obj /\ op'[s].kin = 0 /\ op'[s].group = x.kin /\ op'[s].inserted = <<>>
    BY <2>2 DEF Call
  <2>4. x \in rows /\ x.id # None
    BY <1>2, <2>1 DEF Seen, StartAlternative
  <2>5. Content[q.obj] \in Entries
    BY <1>0, <2>1, <2>4 DEF TablesOwned, RowsIdentified, IsEntryRow, SameTable
  <2>6. x \in rows' /\ x.group = x.kin
    BY <1>0, <2>1, <2>4 DEF Enter, db, GroupsSound
  <2>7. Followed(s, x)'
    BY <2>1, <2>3, <2>6 DEF Followed, Seen
  <2>8. op'[s].kind # None
    BY <1>2, <2>2 DEF Call, StartAlternative
  <2> QED BY <2>1, <2>3, <2>5, <2>6, <2>7, <2>8 DEF CallFollows
<1>3. CASE StartReplace(s, q)
  <2>1. PICK x \in Seen(s, rows) :
           /\ SameTable(x.key.content, Content[q.obj])
           /\ Enter(s, Call(q.obj, x, IF x.kind = None THEN None ELSE x.id, x.kind), {[obj |-> q.old, sid |-> x.sid]})
    BY <1>3 DEF StartReplace
  <2>2. op'[s] = Call(q.obj, x, IF x.kind = None THEN None ELSE x.id, x.kind) /\ rows' = rows
    BY <1>0, <2>1 DEF Enter, db
  <2>3. /\ op'[s].obj = q.obj /\ op'[s].kin = x.kin /\ op'[s].group = x.group /\ op'[s].kind = x.kind
        /\ op'[s].inserted = <<>>
    BY <2>2 DEF Call
  <2>4. x \in rows'
    BY <2>2 DEF Seen
  <2>5. IF x.kind = None THEN x.group = x.kin ELSE Content[q.obj] \in Entries
    BY <1>0, <2>1 DEF Seen, TablesOwned, KindsFounded, IsEntryRow, SameTable, GroupsSound
  <2>6. Followed(s, x)'
    BY <2>2, <2>3 DEF Followed, Seen
  <2> QED BY <2>1, <2>3, <2>4, <2>5, <2>6 DEF CallFollows
<1> QED BY <1>1, <1>2, <1>3

LEMMA StepIsOwn ==
  ASSUME Inv, OwnedInv, ~FsckOnline, NEW s \in Stores, Step(s)
  PROVE  OwnEffect(s)
<1> USE DEF OwnEffect
<1>0. TypeInv /\ SidsUnique /\ StackSound(s) /\ FramesHaveRows(s) /\ CacheSound(s) /\ ClaimFrame(s)
  BY DEF Inv, TablesSound, StoreSound, OwnedInv, CallOwned
<1>1. ~Saving(s, "claim") => NoClaims(stack[s])
  BY <1>0, NoneClaiming
<1>2. rows' = rows => RowsCarried(Writing)
  BY <1>0, UnchangedCarried
<1>3. ASSUME CaughtIn(s) \/ Moves(s) \/ \E x \in rows : Hits(s, x) PROVE RowsCarried(Writing)
  <2>1. CASE CaughtIn(s)
    BY <1>0, <2>1, CaughtCarried
  <2>2. CASE Moves(s) \/ \E x \in rows : Hits(s, x)
    BY <1>2, <2>2 DEF Moves, Hits, db
  <2> QED BY <1>3, <2>1, <2>2
<1>4. CASE Commit(s)
  BY <1>0, <1>4, CommitEffect
<1>5. CASE Abort(s)
  BY <1>0, <1>5, AbortUndoes
<1>6. CASE Reopen(s)
  BY <1>0, <1>6, ReopenUndoes
<1>7. CASE \E q \in Requests : StartSave(s, q) \/ StartAlternative(s, q) \/ StartReplace(s, q)
  <2>1. Begins(s)
    BY <1>0, <1>7, StartEffect, StartFollows DEF Begins
  <2>2. rows' = rows /\ op[s] = None
    BY <2>1 DEF Begins, Enters, db
  <2>3. ~Saving(s, "claim")
    BY <1>0, <2>2, TopTyped DEF Saving
  <2> QED BY <1>1, <1>2, <2>1, <2>2, <2>3 DEF Quiet
<1>8. CASE Lookup(s)
  <2>1. Moves(s) \/ Undone(s) \/ CaughtIn(s) \/ \E x \in rows : Hits(s, x)
    BY <1>0, <1>8, LookupEffect
  <2>2. ~Saving(s, "claim")
    BY <1>8 DEF Lookup, Saving
  <2> QED BY <1>1, <1>3, <2>1, <2>2 DEF Quiet
<1>9. CASE Prepare(s)
  <2>1. Moves(s) \/ Undone(s)
    BY <1>0, <1>9, PrepareEffect
  <2>2. ~Saving(s, "claim")
    BY <1>9 DEF Prepare, Saving
  <2> QED BY <1>1, <1>3, <2>1, <2>2 DEF Quiet
<1>10. CASE Discard(s)
  BY <1>0, <1>10, DiscardEffect
<1>11. CASE HitLate(s)
  <2>1. Undone(s) \/ CaughtIn(s) \/ \E x \in rows : Hits(s, x)
    BY <1>0, <1>11, HitLateEffect
  <2>2. ~Saving(s, "claim")
    BY <1>11 DEF HitLate, Inserting, Saving
  <2> QED BY <1>1, <1>3, <2>1, <2>2 DEF Quiet
<1>12. CASE Insert(s)
  BY <1>0, <1>12, InsertEffect
<1>13. CASE Claim(s)
  <2>1. Claims(s) \/ Undone(s)
    BY <1>0, <1>13, ClaimEffect
  <2>2. RaiseConflict(s) \/ IdsClaimed(s)
    BY <1>13 DEF Claim, IdsClaimed
  <2>3. RaiseConflict(s) => Undone(s)
    BY <1>0, ConflictUndoes
  <2> QED BY <2>1, <2>2, <2>3
<1>14. CASE WriteKids(s)
  <2>1. WritesKids(s) /\ RowsCarried(Writing)
    BY <1>0, <1>14, WriteKidsEffect, KidsCarried
  <2>2. ~Saving(s, "claim")
    BY <1>14 DEF WriteKids, Saving
  <2> QED BY <1>1, <2>1, <2>2 DEF Quiet
<1>15. CASE WriteDispatch(s)
  <2>1. Dispatches(s)
    BY <1>0, <1>15, WriteDispatchEffect
  <2>2. rows' = rows /\ ~Saving(s, "claim")
    BY <2>1 DEF Dispatches, Saving
  <2> QED BY <1>1, <1>2, <2>1, <2>2 DEF Quiet
<1>16. CASE GiveUp(s)
  BY <1>0, <1>16, GiveUpUndoes
<1>17. CASE Fetch(s)
  <2>1. Reads(s)
    BY <1>0, <1>17, FetchEffect
  <2>2. rows' = rows /\ op[s] = None
    BY <2>1 DEF Reads, db
  <2>3. ~Saving(s, "claim")
    BY <1>0, <2>2, TopTyped DEF Saving
  <2> QED BY <1>1, <1>2, <2>1, <2>2, <2>3 DEF Quiet
<1>18. CASE Fsck(s)
  BY <1>0, <1>18, FsckEffect
<1> QED
  BY <1>4, <1>5, <1>6, <1>7, <1>8, <1>9, <1>10, <1>11, <1>12, <1>13, <1>14, <1>15, <1>16, <1>17, <1>18
     DEF Step, SaveStep

-----------------------------------------------------------------------------
(* The calls of the other stores.                                          *)

LEMMA EffectOrSweep ==
  ASSUME NEW s \in Stores, OwnEffect(s)
  PROVE  Effect(s) \/ Sweeps(s)
  BY DEF OwnEffect, Quiet, Begins, Effect

\* No step makes claims for another transaction.
LEMMA OthersClaims ==
  ASSUME TypeInv, NEW s \in Stores, NEW t \in Stores \ {s}, OwnEffect(s)
  PROVE  \A d \in claims' : d.by = t => \E c \in claims : c.by = t
<1> SUFFICES ASSUME NEW d \in claims', d.by = t, d \notin claims PROVE \E c \in claims : c.by = t
  OBVIOUS
<1>0. None \notin Stores
  BY TransactionsAssumption
<1>1. CASE Undone(s)
  BY <1>1 DEF Undone, Without
<1>2. CASE Commits(s)
  <2>1. claims' = {IF c.by = s THEN [c EXCEPT !.by = None] ELSE c : c \in claims}
    BY <1>2 DEF Commits, Settled
  <2>2. PICK c \in claims : d = IF c.by = s THEN [c EXCEPT !.by = None] ELSE c
    BY <2>1
  <2>3. c \in ClaimType
    BY DEF TypeInv, TablesTyped
  <2>4. c.by = s => d.by = None
    BY <2>2, <2>3 DEF ClaimType
  <2> QED BY <1>0, <2>2, <2>4
<1>3. CASE Quiet(s) \/ Adds(s)
  <2>1. claims' = claims
    BY <1>3 DEF Quiet, CaughtIn, Begins, Enters, Moves, WritesKids, Hits, CameBack, Dispatches, Reads, Adds, db
  <2> QED BY <2>1
<1>4. CASE IdsClaimed(s)
  <2>1. d \in IdClaims(s, Row(Top(s).sid))
    BY <1>4 DEF IdsClaimed
  <2>2. d.by = s
    BY <2>1 DEF IdClaims, ClaimOf
  <2> QED BY <2>2
<1>5. CASE Discard(s) \/ Fsck(s)
  BY <1>5 DEF Discard, Fsck, Owned
<1> QED BY <1>1, <1>2, <1>3, <1>4, <1>5 DEF OwnEffect

LEMMA SweepsOwned ==
  ASSUME Inv, OwnedInv, NEW s \in Stores, Sweeps(s), Fsck(s), NEW t \in Stores
  PROVE  CallOwned(t)'
<1>1. tx[t] = "none" /\ tx' = tx /\ op' = op /\ stack' = stack
  BY DEF Sweeps, session
<1>2. op[t] = None /\ stack[t] = <<>>
  BY <1>1 DEF Inv, TypeInv, Active
<1>3. \A x \in rows \cup claims : x.by # t
  BY <1>1 DEF OwnedInv, CallOwned, Unwritten
<1>4. rows' \subseteq rows /\ claims' \subseteq claims
  BY DEF Fsck, Owned
<1>5. Unwritten(t)'
  BY <1>3, <1>4 DEF Unwritten
<1>6. CallFollows(t)' /\ KindsAtRoot(t)' /\ ClaimFrame(t)'
  BY <1>1, <1>2 DEF CallFollows, KindsAtRoot, ClaimFrame
<1> QED BY <1>5, <1>6 DEF CallOwned

LEMMA OthersOwned ==
  ASSUME Inv, OwnedInv, NEW s \in Stores, NEW t \in Stores \ {s}, OwnEffect(s), Effect(s), SidsUnique'
  PROVE  CallOwned(t)'
<1>0. /\ TypeInv /\ InsertedHere(t) /\ FramesHaveRows(t) /\ StackSound(t) /\ CallOwned(t) /\ None \notin Stores
      /\ \A x, y \in rows' : x.sid = y.sid => x = y
  BY TransactionsAssumption DEF Inv, StoreSound, OwnedInv, SidsUnique
<1>1. op'[t] = op[t] /\ stack'[t] = stack[t] /\ tx'[t] = tx[t]
  <2>1. OthersKept(s)
    BY DEF Effect, Undone, CaughtIn, Commits, Enters, Moves, Claims, Adds, TakesBack, Hits, WritesKids,
           CameBack, Dispatches, Reads
  <2> QED BY <2>1 DEF OthersKept
<1>2. /\ \A x \in rows : x.by \in {None, t} => x \in rows'
      /\ \A x \in rows' : x.by = t => x \in rows
  BY OthersEffect DEF OthersSee
<1>3. CallFollows(t)'
  <2>1. \A x \in rows : Followed(t, x) => x \in rows' /\ Followed(t, x)'
    BY <1>1, <1>2 DEF Followed, Seen
  <2> QED BY <1>0, <1>1, <2>1 DEF CallOwned, CallFollows
<1>4. KindsAtRoot(t)'
  <2> SUFFICES ASSUME stack[t] # <<>>, NEW x \in rows', x.kind # None,
                      NEW i \in DOMAIN op[t].inserted, op[t].inserted[i] = x.sid
               PROVE  x.sid = Root(t).sid
    BY <1>1 DEF KindsAtRoot, Root
  <2>1. op[t] # None
    BY <1>0, TopTyped
  <2>2. PICK y \in rows : y.sid = op[t].inserted[i] /\ y.by = t
    BY <1>0, <2>1 DEF InsertedHere
  <2>3. y = x
    BY <1>0, <1>2, <2>2
  <2> QED BY <1>0, <2>2, <2>3 DEF CallOwned, KindsAtRoot
<1>5. ClaimFrame(t)'
  <2> SUFFICES ASSUME NEW i \in DOMAIN stack[t], stack[t][i].stage = "claim"
               PROVE  i = 1 /\ \A x \in rows' : x.sid = stack[t][1].sid => x.id = None /\ IsEntryRow(x)
    BY <1>1 DEF ClaimFrame, IsEntryRow
  <2>1. i = 1 /\ \A x \in rows : x.sid = stack[t][1].sid => x.id = None /\ IsEntryRow(x)
    BY <1>0 DEF CallOwned, ClaimFrame
  <2>2. ASSUME NEW x \in rows', x.sid = stack[t][1].sid PROVE x \in rows
    <3>0. stack[t] # <<>>
      BY <2>1, <1>0 DEF TypeInv, SessionsTyped
    <3>1. stack[t][1].sid # 0
      BY <1>0, <2>1, <3>0, TopTyped DEF StackSound, FramesSound
    <3>2. PICK y \in rows : y.sid = x.sid /\ y.by = t
      BY <1>0, <2>1, <2>2, <3>1 DEF FramesHaveRows
    <3> QED BY <1>0, <1>2, <3>2
  <2> QED BY <2>1, <2>2
<1>6. Unwritten(t)'
  <2>1. \A d \in claims' : d.by = t => \E c \in claims : c.by = t
    BY <1>0, OthersClaims
  <2> QED BY <1>0, <1>1, <1>2, <2>1 DEF CallOwned, Unwritten
<1> QED BY <1>3, <1>4, <1>5, <1>6 DEF CallOwned

-----------------------------------------------------------------------------
(* The call of the store that takes the step.                              *)

LEMMA GoneOn ==
  ASSUME NEW st \in Seq(FrameType), st # <<>>, NEW f \in FrameType, NEW n, GoesOn(n, st, f),
         \A j \in 2 .. Len(st) : st[j].stage # "claim"
  PROVE  /\ n \in Seq(FrameType) /\ n # <<>>
         /\ n[Len(n)].sid = IF Len(st) = 1 THEN f.sid ELSE st[Len(st)].sid
         /\ f.stage # "claim" => NoClaims(n)
<1>1. /\ n \in Seq(FrameType) /\ n # <<>>
      /\ n[Len(n)] = IF Len(st) = 1 THEN f ELSE st[Len(st)]
      /\ \A i \in DOMAIN n : \/ n[i].sid = 0 /\ n[i].stage = "lookup"
                             \/ n[i] = f
                             \/ \E j \in 2 .. Len(st) : n[i] = st[j]
  BY GoesOnFrames
<1> QED BY <1>1 DEF NoClaims

LEMMA NoCall ==
  ASSUME NEW s, op'[s] = None, stack'[s] = <<>>
  PROVE  CallFollows(s)' /\ KindsAtRoot(s)' /\ ClaimFrame(s)'
  BY DEF CallFollows, KindsAtRoot, ClaimFrame

LEMMA StillFollows ==
  ASSUME NEW s, CallFollows(s), RowsLike(s), op[s] # None, op'[s].kind = op[s].kind, op'[s].obj = op[s].obj,
         op'[s].kin = op[s].kin, op'[s].group = op[s].group, op'[s].inserted = op[s].inserted
  PROVE  CallFollows(s)'
<1>1. ASSUME NEW x \in rows, Followed(s, x) PROVE \E y \in rows' : Like(x, y) /\ Followed(s, y)'
  <2>1. PICK y \in rows' : Like(x, y) /\ y.by = x.by
    BY DEF RowsLike
  <2>2. Followed(s, y)'
    BY <1>1, <2>1 DEF Followed, Seen, Like
  <2> QED BY <2>1, <2>2
<1> QED BY <1>1 DEF CallFollows, Like

LEMMA StillAtRoot ==
  ASSUME NEW s, KindsAtRoot(s), RowsLike(s), stack[s] # <<>>, op'[s].inserted = op[s].inserted,
         Root(s)'.sid = Root(s).sid
  PROVE  KindsAtRoot(s)'
<1> SUFFICES ASSUME NEW y \in rows', y.kind # None, NEW i \in DOMAIN op'[s].inserted, op'[s].inserted[i] = y.sid
             PROVE  y.sid = Root(s)'.sid
  BY DEF KindsAtRoot
<1>1. PICK x \in rows : Like(x, y)
  BY DEF RowsLike
<1> QED BY <1>1 DEF KindsAtRoot, Like

\* The call has its frames, or those but the innermost.
LEMMA FrameReturns ==
  ASSUME TypeInv, NEW s \in Stores, NoClaims(stack[s]), NEW n, CameBack(s, n)
  PROVE  /\ NoClaims(stack'[s])
         /\ stack'[s] # <<>> => Root(s)'.sid = Root(s).sid
         /\ op'[s] # None /\ op'[s].kind = op[s].kind /\ op'[s].obj = op[s].obj
         /\ op'[s].kin = op[s].kin /\ op'[s].group = op[s].group /\ op'[s].inserted = op[s].inserted
<1>1. stack[s] # <<>> /\ ReturnsTo(s, n) /\ n \in Sid
  BY DEF CameBack
<1>2. PICK q \in Seq(FrameType) : q = stack[s]
  BY DEF TypeInv, SessionsTyped
<1>3. PICK k \in Nat \ {0} : k = Len(q)
  BY <1>1, <1>2
<1>4. op[s] \in CallType /\ op[s] # None
  BY <1>1, TopTyped
<1>5. CASE Tail(stack[s]) = <<>> /\ stack'[s] = <<>> /\ op'[s] = [op[s] EXCEPT !.sid = n]
  <2>1. NoClaims(stack'[s])
    BY <1>5 DEF NoClaims
  <2>2. [op[s] EXCEPT !.sid = n] \in CallType
    BY <1>1, <1>4 DEF CallType, Sid
  <2>3. op'[s] # None
    BY <1>5, <2>2, TransactionsAssumption
  <2>4. PICK c \in CallType : c = op[s]
    BY <1>4
  <2>5. op'[s] = [c EXCEPT !.sid = n]
    BY <1>5, <2>4
  <2> QED BY <1>5, <2>1, <2>3, <2>4, <2>5 DEF CallType
<1>6. ASSUME Tail(stack[s]) # <<>>, op'[s] = op[s],
             NEW f \in FrameType, GoesOn(stack'[s], Tail(stack[s]), f),
             f.stage = stack[s][2].stage, f.sid = stack[s][2].sid
      PROVE  NoClaims(stack'[s]) /\ Root(s)'.sid = Root(s).sid
  <2>0. q # <<>>
    BY <1>1, <1>2
  <2> DEFINE rest == Tail(q)
  <2>9. rest \in Seq(FrameType) /\ Len(rest) = k - 1 /\ \A i \in 1 .. k - 1 : rest[i] = q[i + 1]
    BY <1>3, <2>0
  <2>10. rest = Tail(stack[s])
    BY <1>2
  <2> HIDE DEF rest
  <2>1. PICK st \in Seq(FrameType) : st = rest
    BY <2>9
  <2>11. st # <<>>
    BY <1>6, <2>1, <2>10
  <2>2. st # <<>> /\ Len(st) = k - 1 /\ k > 1 /\ \A i \in 1 .. k - 1 : st[i] = q[i + 1]
    BY <1>3, <2>1, <2>9, <2>11
  <2>3. \A i \in 1 .. k : q[i].stage # "claim"
    BY <1>2, <1>3 DEF NoClaims
  <2>4. \A j \in 2 .. Len(st) : st[j].stage # "claim"
    <3> TAKE j \in 2 .. Len(st)
    <3>1. j \in 1 .. k - 1 /\ j + 1 \in 1 .. k
      BY <2>2
    <3> QED BY <2>2, <2>3, <3>1
  <2>5. GoesOn(stack'[s], st, f)
    BY <1>6, <2>1, <2>10
  <2>6. f.stage # "claim"
    <3>1. 2 \in 1 .. k
      BY <2>2
    <3> QED BY <1>2, <1>6, <2>3, <3>1
  <2>7. NoClaims(stack'[s]) /\ stack'[s][Len(stack'[s])].sid = IF Len(st) = 1 THEN f.sid ELSE st[Len(st)].sid
    BY <2>2, <2>4, <2>5, <2>6, GoneOn
  <2>8. stack[s][k].sid = IF Len(st) = 1 THEN f.sid ELSE st[Len(st)].sid
    <3>1. CASE k = 2
      BY <1>2, <1>6, <2>2, <3>1
    <3>2. CASE k # 2
      <4>1. k - 1 \in 1 .. k - 1 /\ Len(st) # 1
        BY <2>2, <3>2
      <4>2. st[k - 1] = q[k - 1 + 1] /\ k - 1 + 1 = k
        BY <2>2, <4>1
      <4> QED BY <1>2, <2>2, <4>1, <4>2
    <3> QED BY <3>1, <3>2
  <2> QED BY <1>2, <1>3, <2>7, <2>8 DEF Root
<1>7. CASE /\ Tail(stack[s]) # <<>> /\ op'[s] = op[s]
           /\ \E f \in FrameType :
                /\ GoesOn(stack'[s], Tail(stack[s]), f)
                /\ f.obj = stack[s][2].obj /\ f.stage = stack[s][2].stage
                /\ f.sid = stack[s][2].sid /\ f.base = stack[s][2].base
  BY <1>4, <1>6, <1>7
<1> QED BY <1>1, <1>5, <1>7 DEF ReturnsTo

LEMMA CameBackOwned ==
  ASSUME Inv, NEW s \in Stores, CallOwned(s), NoClaims(stack[s]), NEW n, CameBack(s, n), RowsLike(s)
  PROVE  CallFollows(s)' /\ KindsAtRoot(s)' /\ ClaimFrame(s)'
<1>0. TypeInv /\ stack[s] # <<>> /\ op[s] # None
  BY TopTyped DEF Inv, CameBack
<1>1. /\ NoClaims(stack'[s])
      /\ stack'[s] # <<>> => Root(s)'.sid = Root(s).sid
      /\ op'[s] # None /\ op'[s].kind = op[s].kind /\ op'[s].obj = op[s].obj
      /\ op'[s].kin = op[s].kin /\ op'[s].group = op[s].group /\ op'[s].inserted = op[s].inserted
  BY <1>0, FrameReturns
<1>2. CallFollows(s)'
  BY <1>0, <1>1, StillFollows DEF CallOwned
<1>3. KindsAtRoot(s)'
  <2>1. CASE stack'[s] = <<>>
    BY <2>1 DEF KindsAtRoot
  <2>2. CASE stack'[s] # <<>>
    BY <1>0, <1>1, <2>2, StillAtRoot DEF CallOwned
  <2> QED BY <2>1, <2>2
<1>4. ClaimFrame(s)'
  BY <1>1 DEF NoClaims, ClaimFrame
<1> QED BY <1>2, <1>3, <1>4

LEMMA MovesOwned ==
  ASSUME Inv, NEW s \in Stores, CallOwned(s), NoClaims(stack[s]), Moves(s)
  PROVE  CallFollows(s)' /\ KindsAtRoot(s)' /\ ClaimFrame(s)'
<1>0. /\ TypeInv /\ stack[s] # <<>> /\ op[s] # None /\ stack[s] \in Seq(FrameType) /\ Top(s) = stack[s][1]
      /\ Len(stack[s]) \in Nat \ {0} /\ DOMAIN stack[s] = 1 .. Len(stack[s])
  BY TopTyped DEF Inv, Moves
<1>1. PICK f \in FrameType : GoesOn(stack'[s], stack[s], f) /\ f.sid = Top(s).sid /\ f.stage \in {"refs", "insert"}
  BY DEF Moves
<1>2. rows' = rows /\ op' = op
  BY DEF Moves, db
<1>3. \A j \in 2 .. Len(stack[s]) : stack[s][j].stage # "claim"
  BY <1>0 DEF NoClaims
<1>4. NoClaims(stack'[s]) /\ stack'[s][Len(stack'[s])].sid =
                             IF Len(stack[s]) = 1 THEN f.sid ELSE stack[s][Len(stack[s])].sid
  BY <1>0, <1>1, <1>3, GoneOn
<1>5. Root(s)'.sid = Root(s).sid
  BY <1>0, <1>1, <1>4 DEF Root
<1>6. RowsLike(s)
  BY <1>2, RowsAlike
<1>7. CallFollows(s)'
  BY <1>0, <1>2, <1>6, StillFollows DEF CallOwned
<1>8. KindsAtRoot(s)'
  BY <1>0, <1>2, <1>5, <1>6, StillAtRoot DEF CallOwned
<1>9. ClaimFrame(s)'
  BY <1>4 DEF NoClaims, ClaimFrame
<1> QED BY <1>7, <1>8, <1>9

\* The frames inside the innermost do not claim.
LEMMA OuterFrames ==
  ASSUME TypeInv, NEW s \in Stores, stack[s] # <<>>, ClaimFrame(s)
  PROVE  \A j \in 2 .. Len(stack[s]) : stack[s][j].stage # "claim"
<1>1. PICK q \in Seq(FrameType) : q = stack[s]
  BY DEF TypeInv, SessionsTyped
<1>2. \A j \in 2 .. Len(q) : j \in DOMAIN q /\ j # 1
  OBVIOUS
<1> QED BY <1>1, <1>2 DEF ClaimFrame

LEMMA ClaimsCallOwned ==
  ASSUME Inv, NEW s \in Stores, CallOwned(s), Claims(s)
  PROVE  CallFollows(s)' /\ KindsAtRoot(s)' /\ ClaimFrame(s)'
<1>0. /\ TypeInv /\ stack[s] # <<>> /\ op[s] # None /\ stack[s] \in Seq(FrameType) /\ Top(s) = stack[s][1]
      /\ Len(stack[s]) \in Nat \ {0} /\ DOMAIN stack[s] = 1 .. Len(stack[s])
  BY TopTyped DEF Inv, Claims
<1>1. PICK f \in FrameType : GoesOn(stack'[s], stack[s], f) /\ f.sid = Top(s).sid /\ f.stage = "kids"
  BY DEF Claims
<1>2. RowsLike(s) /\ op' = op
  BY DEF Claims
<1>3. \A j \in 2 .. Len(stack[s]) : stack[s][j].stage # "claim"
  BY <1>0, OuterFrames DEF CallOwned
<1>4. NoClaims(stack'[s]) /\ stack'[s][Len(stack'[s])].sid =
                             IF Len(stack[s]) = 1 THEN f.sid ELSE stack[s][Len(stack[s])].sid
  BY <1>0, <1>1, <1>3, GoneOn
<1>5. Root(s)'.sid = Root(s).sid
  BY <1>0, <1>1, <1>4 DEF Root
<1>6. CallFollows(s)'
  BY <1>0, <1>2, StillFollows DEF CallOwned
<1>7. KindsAtRoot(s)'
  BY <1>0, <1>2, <1>5, StillAtRoot DEF CallOwned
<1>8. ClaimFrame(s)'
  BY <1>4 DEF NoClaims, ClaimFrame
<1> QED BY <1>6, <1>7, <1>8

LEMMA InsertCallOwned ==
  ASSUME Inv, NEW s \in Stores, CallOwned(s), Insert(s), Adds(s), TypeInv', SidsUnique'
  PROVE  CallFollows(s)' /\ KindsAtRoot(s)' /\ ClaimFrame(s)'
<1>0. /\ TypeInv /\ SidsUnique /\ InsertedHere(s) /\ StackSound(s)
      /\ stack[s] # <<>> /\ op[s] # None /\ op[s] \in CallType /\ stack[s] \in Seq(FrameType)
      /\ Top(s) = stack[s][1] /\ Top(s).stage \in {"refs", "insert"} /\ ~Locked(s)
      /\ Len(stack[s]) \in Nat \ {0} /\ DOMAIN stack[s] = 1 .. Len(stack[s])
  BY TopTyped DEF Inv, TablesSound, StoreSound, Adds, Insert, InsertWaits
<1>1. PICK r \in RowType : IsNew(s, r)
  BY InsertedRow
<1>2. PICK f \in FrameType : /\ GoesOn(stack'[s], stack[s], f) /\ f.sid = NewSid(s)
                             /\ f.stage = (IF IsEntry(s) THEN "claim" ELSE "kids")
                             /\ IsEntry(s) => Len(stack'[s]) = Len(stack[s]) /\ stack'[s][1] = f
  BY <1>0, InsertedFrame
<1>3. /\ r.sid \in Sid /\ \A x \in rows : x.sid # r.sid
      /\ rows' = rows \cup {r} /\ r.id = None /\ r.by = s /\ r.sid = NewSid(s) /\ r.kind = Kind(s)
  BY <1>0, <1>1, NewSidFresh DEF IsNew
<1>4. PICK k \in Nat : k = Len(op[s].inserted)
  BY <1>0 DEF CallType
<1>5. /\ op'[s].kind = op[s].kind /\ op'[s].obj = op[s].obj /\ op'[s].kin = op[s].kin /\ op'[s].group = op[s].group
      /\ op'[s].inserted = Append(op[s].inserted, r.sid)
  <2>1. op'[s] = [op[s] EXCEPT !.inserted = Append(@, r.sid)]
    BY <1>0, <1>3 DEF Insert, TypeInv, SessionsTyped
  <2>2. PICK c \in CallType : c = op[s]
    BY <1>0
  <2>3. op'[s] = [c EXCEPT !.inserted = Append(@, r.sid)]
    BY <2>1, <2>2
  <2> QED BY <2>2, <2>3 DEF CallType
<1>6. /\ DOMAIN op[s].inserted = 1 .. k /\ DOMAIN op'[s].inserted = 1 .. k + 1
      /\ op'[s].inserted[k + 1] = r.sid /\ \A i \in 1 .. k : op'[s].inserted[i] = op[s].inserted[i]
  BY <1>0, <1>3, <1>4, <1>5 DEF CallType
<1>7. \A i \in 1 .. k + 1 : i \in 1 .. k \/ i = k + 1
  BY <1>4
<1>8. CallFollows(s)'
  <2>1. ASSUME NEW x \in rows, Followed(s, x) PROVE x \in rows' /\ Followed(s, x)'
    <3>1. x.by \in {None, s} /\ \A i \in 1 .. k : op[s].inserted[i] # x.sid
      BY <1>6, <2>1 DEF Followed, Seen
    <3>2. x \in Seen(s, rows)' /\ x.sid # r.sid
      BY <1>3, <3>1 DEF Seen
    <3> QED BY <1>3, <1>6, <1>7, <3>1, <3>2 DEF Followed
  <2> QED BY <1>0, <1>5, <2>1 DEF CallOwned, CallFollows
<1>9. stack'[s] # <<>> /\ (f.stage # "claim" => NoClaims(stack'[s]))
      /\ Root(s)'.sid = IF Len(stack[s]) = 1 THEN r.sid ELSE Root(s).sid
  <2>1. \A j \in 2 .. Len(stack[s]) : stack[s][j].stage # "claim"
    BY <1>0, OuterFrames DEF CallOwned
  <2>2. /\ stack'[s] # <<>> /\ (f.stage # "claim" => NoClaims(stack'[s]))
        /\ stack'[s][Len(stack'[s])].sid = IF Len(stack[s]) = 1 THEN f.sid ELSE stack[s][Len(stack[s])].sid
    BY <1>0, <1>2, <2>1, GoneOn
  <2> QED BY <1>2, <1>3, <2>2 DEF Root
<1>10. KindsAtRoot(s)'
  <2> SUFFICES ASSUME NEW x \in rows', x.kind # None, NEW i \in 1 .. k + 1, op'[s].inserted[i] = x.sid
               PROVE  x.sid = Root(s)'.sid
    BY <1>6 DEF KindsAtRoot
  <2>1. CASE i = k + 1
    <3>1. x = r
      BY <1>3, <1>6, <2>1
    <3>2. IsRoot(s)
      BY <1>3, <3>1 DEF Kind
    <3> QED BY <1>9, <3>1, <3>2 DEF IsRoot
  <2>2. CASE i \in 1 .. k
    <3>1. PICK y \in rows : y.sid = op[s].inserted[i] /\ y.by = s
      BY <1>0, <1>6, <2>2 DEF InsertedHere
    <3>2. x \in rows /\ op[s].inserted[i] = x.sid
      BY <1>3, <1>6, <2>2, <3>1
    <3>3. x.sid = Root(s).sid
      BY <1>0, <1>6, <2>2, <3>2 DEF CallOwned, KindsAtRoot
    <3>4. Len(stack[s]) # 1
      <4> SUFFICES ASSUME Len(stack[s]) = 1 PROVE FALSE
        OBVIOUS
      <4>1. Root(s) = stack[s][1] /\ 1 \in DOMAIN stack[s]
        BY <1>0 DEF Root
      <4>2. stack[s][1].sid = 0
        BY <1>0, <4>1 DEF StackSound, FramesSound
      <4> QED BY <1>0, <3>2, <3>3, <4>1, <4>2 DEF TypeInv, TablesTyped, RowType, Sid
    <3> QED BY <1>9, <3>3, <3>4
  <2> QED BY <1>7, <2>1, <2>2
<1>11. ClaimFrame(s)'
  <2>1. CASE f.stage # "claim"
    BY <1>9, <2>1 DEF NoClaims, ClaimFrame
  <2>2. CASE f.stage = "claim"
    <3>1. IsEntry(s) /\ Len(stack'[s]) = Len(stack[s]) /\ stack'[s][1] = f
      BY <1>2, <2>2
    <3>2. PICK m \in Nat \ {0} : m = Len(stack[s])
      BY <1>0
    <3>3. PICK n \in Seq(FrameType) : n = stack'[s]
      BY <1>2 DEF GoesOn
    <3>4. DOMAIN n = 1 .. m /\ Len(n) = m
      BY <3>1, <3>2, <3>3
    <3>5. \A i \in 2 .. m : n[i] = stack[s][i]
      BY <1>2, <3>2, <3>3, <3>4 DEF GoesOn
    <3>6. \A i \in 2 .. m : n[i].stage # "claim"
      BY <1>0, <3>2, <3>5, OuterFrames DEF CallOwned
    <3>7. \A i \in 1 .. m : i = 1 \/ i \in 2 .. m
      BY <3>2
    <3>8. ASSUME NEW x \in rows', x.sid = f.sid PROVE x.id = None /\ IsEntryRow(x)
      <4>1. x = r
        BY <1>2, <1>3, <3>8
      <4>2. r.key.content = Con(s)
        BY <1>0, <1>1, KeyTyped DEF IsNew, Con
      <4> QED BY <1>3, <3>1, <4>1, <4>2 DEF IsEntryRow, IsEntry
    <3> QED BY <3>1, <3>3, <3>4, <3>6, <3>7, <3>8 DEF ClaimFrame, IsEntryRow
  <2> QED BY <2>1, <2>2
<1> QED BY <1>8, <1>10, <1>11

LEMMA TakesBackCallOwned ==
  ASSUME Inv, NEW s \in Stores, CallOwned(s), TakesBack(s)
  PROVE  CallFollows(s)' /\ KindsAtRoot(s)' /\ ClaimFrame(s)'
<1>0. /\ TypeInv /\ SidsUnique /\ InsertedHere(s) /\ StackSound(s)
      /\ stack[s] # <<>> /\ op[s] # None /\ op[s] \in CallType /\ stack[s] \in Seq(FrameType)
      /\ Top(s) = stack[s][1] /\ Top(s).stage \in {"refs", "insert"} /\ Top(s) \in FrameType /\ 1 \in DOMAIN stack[s]
  BY TopTyped DEF Inv, TablesSound, StoreSound, TakesBack
<1>1. rows' = {x \in rows : x.sid \notin InsertedSince(s)} /\ stack' = stack
      /\ op'[s] = [op[s] EXCEPT !.inserted = SubSeq(@, 1, Top(s).base)]
  BY DEF TakesBack
<1>2. Top(s).base \in Nat /\ Top(s).base <= Len(op[s].inserted)
  BY <1>0 DEF StackSound, FramesSound, FrameType
<1>3. /\ op'[s].kind = op[s].kind /\ op'[s].obj = op[s].obj /\ op'[s].kin = op[s].kin /\ op'[s].group = op[s].group
      /\ op'[s].inserted = SubSeq(op[s].inserted, 1, Top(s).base)
  <2>1. PICK c \in CallType : c = op[s]
    BY <1>0
  <2>2. op'[s] = [c EXCEPT !.inserted = SubSeq(@, 1, Top(s).base)]
    BY <1>1, <2>1
  <2> QED BY <2>1, <2>2 DEF CallType
<1>4. PICK ins \in Seq(Sid) : ins = op[s].inserted
  BY <1>0 DEF CallType
<1>5. PICK b \in Nat : b = Top(s).base
  BY <1>2
<1>6. \A i \in DOMAIN op'[s].inserted : i \in DOMAIN op[s].inserted /\ op'[s].inserted[i] = op[s].inserted[i]
  <2>1. op'[s].inserted = SubSeq(ins, 1, b) /\ b <= Len(ins)
    BY <1>2, <1>3, <1>4, <1>5
  <2>2. \A i \in DOMAIN SubSeq(ins, 1, b) : i \in DOMAIN ins /\ SubSeq(ins, 1, b)[i] = ins[i]
    BY <2>1
  <2> QED BY <1>4, <2>1, <2>2
<1>7. CallFollows(s)'
  <2>1. ASSUME NEW x \in rows, Followed(s, x) PROVE x \in rows' /\ Followed(s, x)'
    <3>1. x.by \in {None, s} /\ \A i \in DOMAIN op[s].inserted : op[s].inserted[i] # x.sid
      BY <2>1 DEF Followed, Seen
    <3>2. x.sid \notin InsertedSince(s)
      BY <1>0, <3>1, InsertedOwn
    <3> QED BY <1>1, <1>6, <3>1, <3>2 DEF Followed, Seen
  <2> QED BY <1>0, <1>3, <2>1 DEF CallOwned, CallFollows
<1>8. KindsAtRoot(s)'
  BY <1>0, <1>1, <1>6 DEF CallOwned, KindsAtRoot, Root
<1>9. ClaimFrame(s)'
  BY <1>1 DEF CallOwned, ClaimFrame, IsEntryRow
<1> QED BY <1>7, <1>8, <1>9

LEMMA OwnCallOwned ==
  ASSUME Inv, OwnedInv, NEW s \in Stores, OwnEffect(s), TypeInv', SidsUnique'
  PROVE  CallFollows(s)' /\ KindsAtRoot(s)' /\ ClaimFrame(s)'
<1>0. TypeInv /\ CallOwned(s)
  BY DEF Inv, OwnedInv
<1>1. CASE Undone(s) \/ Commits(s) \/ CaughtIn(s)
  BY <1>1, NoCall DEF Undone, Commits, CaughtIn
<1>2. CASE Quiet(s) /\ Begins(s)
  <2>1. op'[s].inserted = <<>> /\ stack'[s] = <<Frame(op'[s].obj)>>
    BY <1>2 DEF Begins, Enters
  <2>2. KindsAtRoot(s)'
    BY <2>1 DEF KindsAtRoot
  <2>3. ClaimFrame(s)'
    BY <2>1 DEF ClaimFrame, Frame
  <2> QED BY <1>2, <2>2, <2>3 DEF Begins
<1>3. CASE Quiet(s) /\ Moves(s)
  BY <1>0, <1>3, MovesOwned DEF Quiet
<1>4. ASSUME Quiet(s), NEW x \in rows, Hits(s, x)
      PROVE  CallFollows(s)' /\ KindsAtRoot(s)' /\ ClaimFrame(s)'
  <2>1. CameBack(s, x.sid) /\ RowsLike(s)
    BY <1>4, RowsAlike DEF Hits
  <2> QED BY <1>0, <1>4, <2>1, CameBackOwned DEF Quiet
<1>5. CASE Quiet(s) /\ WritesKids(s)
  BY <1>0, <1>5, CameBackOwned DEF Quiet, WritesKids
<1>6. CASE Dispatches(s)
  <2>1. stack'[s] = <<>> /\ rows' = rows /\ op[s] # None
    BY <1>6 DEF Dispatches
  <2>2. CASE op'[s] = None
    BY <2>1, <2>2, NoCall
  <2>3. CASE op'[s] = [op[s] EXCEPT !.done = TRUE]
    <3>1. PICK c \in CallType : c = op[s]
      BY <1>0, <2>1 DEF TypeInv, SessionsTyped
    <3>2. op'[s] = [c EXCEPT !.done = TRUE]
      BY <2>3, <3>1
    <3>3. /\ op'[s].kind = op[s].kind /\ op'[s].obj = op[s].obj /\ op'[s].kin = op[s].kin
          /\ op'[s].group = op[s].group /\ op'[s].inserted = op[s].inserted
      BY <3>1, <3>2 DEF CallType
    <3>4. CallFollows(s)'
      BY <1>0, <2>1, <3>3, RowsAlike, StillFollows DEF CallOwned
    <3> QED BY <2>1, <3>4 DEF KindsAtRoot, ClaimFrame
  <2> QED BY <1>6, <2>2, <2>3 DEF Dispatches
<1>7. CASE Reads(s)
  <2>1. op'[s] = None /\ stack'[s] = <<>>
    BY <1>0, <1>7 DEF Reads, session, TypeInv, Active
  <2> QED BY <2>1, NoCall
<1>8. CASE Claims(s)
  BY <1>0, <1>8, ClaimsCallOwned
<1>9. CASE Adds(s) /\ Insert(s)
  BY <1>0, <1>9, InsertCallOwned
<1>10. CASE TakesBack(s)
  BY <1>0, <1>10, TakesBackCallOwned
<1>11. CASE Sweeps(s) /\ Fsck(s)
  BY <1>11, SweepsOwned DEF CallOwned
<1> QED BY <1>1, <1>2, <1>3, <1>4, <1>5, <1>6, <1>7, <1>8, <1>9, <1>10, <1>11 DEF OwnEffect, Quiet

LEMMA OwnUnwritten ==
  ASSUME Inv, OwnedInv, NEW s \in Stores, OwnEffect(s)
  PROVE  Unwritten(s)'
<1>0. /\ TypeInv /\ Unwritten(s) /\ None \notin Stores
  BY TransactionsAssumption DEF Inv, OwnedInv, CallOwned
<1>1. CASE Undone(s)
  BY <1>1 DEF Undone, Without, Unwritten
<1>2. CASE Commits(s)
  <2>1. \A y \in rows' : y.by # s
    <3>1. rows' = Settled(rows, s)
      BY <1>2 DEF Commits
    <3> QED BY <1>0, <3>1, SettledRows
  <2>2. \A d \in claims' : d.by # s
    <3>1. ClaimsCarried(Settlement(s))
      BY <1>0, <1>2, SettledCarried DEF Commits
    <3>2. ASSUME NEW d \in claims' PROVE d.by # s
      <4>1. PICK c \in claims : d.by = Settlement(s)[c.by]
        BY <3>1 DEF ClaimsCarried, Reclaimed
      <4>2. c.by \in Writers
        BY <1>0 DEF TypeInv, TablesTyped, ClaimType
      <4> QED BY <1>0, <4>1, <4>2 DEF Settlement
    <3> QED BY <3>2
  <2> QED BY <2>1, <2>2 DEF Unwritten
<1>3. CASE Begins(s) \/ CaughtIn(s)
  BY <1>3 DEF Begins, Enters, CaughtIn, Unwritten
<1>4. ASSUME tx' = tx, op[s] # None PROVE Unwritten(s)'
  BY <1>0, <1>4 DEF TypeInv, Active, Unwritten
<1>5. stack[s] # <<>> => op[s] # None
  BY <1>0 DEF TypeInv, Active
<1>6. CASE Moves(s) \/ WritesKids(s) \/ (\E x \in rows : Hits(s, x)) \/ Claims(s) \/ Adds(s) \/ TakesBack(s)
  BY <1>4, <1>5, <1>6 DEF Moves, WritesKids, Hits, CameBack, Claims, Adds, TakesBack
<1>7. CASE Dispatches(s)
  BY <1>4, <1>7 DEF Dispatches
<1>8. CASE Reads(s)
  BY <1>0, <1>8 DEF Reads, session, db, Unwritten
<1>9. CASE Sweeps(s) /\ Fsck(s)
  BY <1>9, SweepsOwned DEF CallOwned
<1> QED BY <1>1, <1>2, <1>3, <1>6, <1>7, <1>8, <1>9 DEF OwnEffect, Quiet

-----------------------------------------------------------------------------
(* The groups, and all of the invariant.                                   *)

\* No row has a group, a lineage or a key that none had.
LEMMA GroupsCarried ==
  ASSUME GroupsSound,
         \A y \in rows' : \E x \in rows : /\ y.sid = x.sid /\ y.key = x.key /\ y.kin = x.kin
                                          /\ y.group = x.group /\ y.kind = x.kind
  PROVE  GroupsSound'
  BY DEF GroupsSound

LEMMA InsertGroups ==
  ASSUME Inv, OwnedInv, NEW s \in Stores, Insert(s), TypeInv'
  PROVE  GroupsSound'
<1>0. /\ TypeInv /\ SidsUnique /\ GroupsSound /\ CallFollows(s) /\ StackSound(s)
      /\ stack[s] # <<>> /\ ~Locked(s)
  BY DEF Inv, TablesSound, StoreSound, OwnedInv, CallOwned, Insert, InsertWaits, Inserting, Saving
<1>1. PICK r \in RowType : IsNew(s, r)
  BY InsertedRow
<1>2. /\ op[s] # None /\ stack[s] \in Seq(FrameType) /\ Top(s) = stack[s][1]
  BY <1>0, TopTyped
<1>3. /\ rows' = rows \cup {r} /\ r.key.content = Content[Top(s).obj]
      /\ r.kin = (IF Kin(s) # 0 THEN Kin(s) ELSE r.sid)
      /\ r.group = (IF Group(s) # 0 THEN Group(s) ELSE r.sid)
      /\ r.kind = Kind(s)
  BY <1>0, <1>1, KeyTyped DEF IsNew
<1>4. \A x \in rows : x.sid < r.sid /\ x.sid \in Nat /\ r.sid \in Nat /\ x.group \in Nat
  BY SMTT(20), <1>0, <1>1, NewSidFresh DEF IsNew, TypeInv, TablesTyped, RowType, Sid
<1>5. ASSUME Group(s) # 0
      PROVE  \E p \in rows : p.group = r.group /\ SameTable(p.key.content, r.key.content)
  <2>1. IsRoot(s) /\ op[s].group # 0 /\ r.group = op[s].group
    BY <1>3, <1>5 DEF Group
  <2>2. Root(s) = Top(s)
    BY <1>2, <2>1 DEF Root, IsRoot
  <2>3. r.key.content = Content[op[s].obj]
    BY <1>0, <1>2, <1>3, <2>2 DEF StackSound
  <2> QED BY <1>0, <1>2, <2>1, <2>3 DEF CallFollows
<1>6. r.group <= r.sid
  <2>1. CASE Group(s) = 0
    BY <1>1, <1>3, <2>1 DEF RowType, Sid
  <2>2. CASE Group(s) # 0
    <3>1. PICK p \in rows : p.group = r.group
      BY <1>5, <2>2
    <3>2. p.group <= p.sid
      BY <1>0 DEF GroupsSound
    <3> QED BY <1>4, <3>1, <3>2
  <2> QED BY <2>1, <2>2
<1>7. r.kind = None => r.group = r.kin
  BY <1>0, <1>2, <1>3 DEF CallFollows, Kind, Kin, Group
<1>8. ASSUME NEW x \in rows, x.group = r.group
      PROVE  SameTable(x.key.content, r.key.content)
  <2>1. CASE Group(s) = 0
    <3>1. x.group <= x.sid /\ x.group = r.sid
      BY <1>0, <1>3, <1>8, <2>1 DEF GroupsSound
    <3> QED BY <1>4, <3>1
  <2>2. CASE Group(s) # 0
    <3>1. PICK p \in rows : p.group = r.group /\ SameTable(p.key.content, r.key.content)
      BY <1>5, <2>2
    <3>2. SameTable(x.key.content, p.key.content)
      BY <1>0, <1>8, <3>1 DEF GroupsSound
    <3> QED BY <3>1, <3>2 DEF SameTable
  <2> QED BY <2>1, <2>2
<1>9. \A x \in rows' : x.group <= x.sid /\ (x.kind = None => x.group = x.kin)
  BY <1>0, <1>3, <1>6, <1>7 DEF GroupsSound
<1>10. \A x, y \in rows' : x.group = y.group => SameTable(x.key.content, y.key.content)
  <2> SUFFICES ASSUME NEW x \in rows', NEW y \in rows', x.group = y.group
               PROVE  SameTable(x.key.content, y.key.content)
    OBVIOUS
  <2>1. CASE x \in rows /\ y \in rows
    BY <1>0, <2>1 DEF GroupsSound
  <2>2. CASE x = r /\ y = r
    BY <2>2 DEF SameTable
  <2>3. CASE x \in rows /\ y = r
    BY <1>8, <2>3
  <2>4. CASE x = r /\ y \in rows
    <3>1. SameTable(y.key.content, r.key.content)
      BY <1>8, <2>4
    <3> QED BY <2>4, <3>1 DEF SameTable
  <2> QED BY <1>3, <2>1, <2>2, <2>3, <2>4
<1> QED BY <1>9, <1>10 DEF GroupsSound

LEMMA GroupsStay ==
  ASSUME Inv, OwnedInv, NEW s \in Stores, OwnEffect(s), TypeInv'
  PROVE  GroupsSound'
<1>0. TypeInv /\ GroupsSound
  BY DEF Inv, OwnedInv
<1>1. ASSUME rows' \subseteq rows PROVE GroupsSound'
  BY <1>0, <1>1, GroupsCarried
<1>2. CASE Undone(s) \/ TakesBack(s) \/ Sweeps(s)
  BY <1>1, <1>2 DEF Undone, Without, TakesBack, Sweeps
<1>3. CASE Commits(s)
  <2>1. rows' = Settled(rows, s)
    BY <1>3 DEF Commits
  <2>2. \A y \in rows' : \E x \in rows : Like(x, y)
    BY <1>0, <2>1, SettledRows
  <2> QED BY <1>0, <2>2, GroupsCarried DEF Like
<1>4. CASE Quiet(s)
  BY <1>0, <1>4, GroupsCarried DEF Quiet, RowsCarried, Carried
<1>5. CASE Claims(s)
  BY <1>0, <1>5, GroupsCarried DEF Claims, RowsLike, Like
<1>6. CASE Adds(s) /\ Insert(s)
  BY <1>6, InsertGroups
<1> QED BY <1>2, <1>3, <1>4, <1>5, <1>6 DEF OwnEffect

LEMMA TablesStay ==
  ASSUME Inv, OwnedInv, NEW s \in Stores, OwnEffect(s), TypeInv', SidsUnique'
  PROVE  TablesOwned'
<1>1. CASE Undone(s)
  BY <1>1, UndoneTables
<1>2. CASE Commits(s)
  BY <1>2, CommitsTables
<1>3. CASE Quiet(s)
  <2>1. OthersKept(s) /\ claims' = claims
    BY <1>3 DEF Quiet, CaughtIn, Begins, Enters, Moves, WritesKids, Hits, CameBack, Dispatches, Reads, db
  <2>2. mains \subseteq mains'
    BY <1>3 DEF Quiet, CaughtIn, Begins, Enters, Moves, WritesKids, Hits, Promoted, Dispatches, Reads, db
  <2> QED BY <1>3, <2>1, <2>2, QuietTables DEF Quiet
<1>4. CASE Claims(s) /\ IdsClaimed(s)
  BY <1>4, ClaimTables DEF Claims
<1>5. CASE Adds(s) /\ Insert(s)
  BY <1>5, InsertTables
<1>6. CASE TakesBack(s) /\ Discard(s)
  BY <1>6, TakesBackTables
<1>7. CASE Sweeps(s) /\ Fsck(s)
  BY <1>7, SweepsTables
<1> QED BY <1>1, <1>2, <1>3, <1>4, <1>5, <1>6, <1>7 DEF OwnEffect

LEMMA OwnedInit ==
  ASSUME Init
  PROVE  OwnedInv
<1>0. /\ rows = Earlier /\ Earlier \subseteq RowType /\ None \notin Stores
      /\ mains = {[sid |-> x.sid, by |-> None] : x \in Earlier}
      /\ op = [s \in Stores |-> None] /\ stack = [s \in Stores |-> <<>>]
      /\ \A x \in Earlier : x.by = None
  BY TransactionsAssumption, EarlierAssumption DEF Init
<1>1. \A x \in Earlier : x.kin <= x.sid /\ x.group <= x.sid /\ (x.id # None <=> IsEntryRow(x))
  BY EarlierAssumption DEF IsEntryRow
<1>2. \A x, y \in Earlier :
        /\ x.sid = y.sid => x = y
        /\ x.key = y.key /\ Policy[x.key.content] = "content_id" => x = y
        /\ x.group = y.group => SameTable(x.key.content, y.key.content)
        /\ x.id # None /\ y.id # None =>
             /\ x.id = y.id <=> Owner("entry", x) = Owner("entry", y)
             /\ x.imm = y.imm => x = y
  BY EarlierAssumption
<1> DEFINE made(what, x) == ClaimOf(what, IdOf(what, x), x, None)
<1>3. claims = UNION {{made(what, x) : what \in {"entry", "row"}} : x \in {y \in Earlier : y.id # None}}
  <2>1. claims = {ClaimOf("entry", x.id, x, None) : x \in {y \in Earlier : y.id # None}}
                 \cup {ClaimOf("row", x.imm, x, None) : x \in {y \in Earlier : y.id # None}}
    BY DEF Init
  <2>2. \A x : made("entry", x) = ClaimOf("entry", x.id, x, None) /\ made("row", x) = ClaimOf("row", x.imm, x, None)
    BY DEF IdOf
  <2> HIDE DEF made
  <2> QED BY <2>1, <2>2
<1>4. \A what, x : /\ made(what, x).what = what /\ made(what, x).id = IdOf(what, x)
                   /\ made(what, x).owner = Owner(what, x) /\ made(what, x).by = None
  BY DEF ClaimOf
<1> HIDE DEF made
<1>5. \A c \in claims : \E x \in Earlier, what \in {"entry", "row"} : x.id # None /\ c = made(what, x)
  BY <1>3
<1>6. \A x \in Earlier, what \in {"entry", "row"} : x.id # None => made(what, x) \in claims
  BY <1>3
<1>7. KeysUnique
  BY <1>0, <1>2 DEF KeysUnique
<1>8. ClaimsUnique
  <2> SUFFICES ASSUME NEW c \in claims, NEW d \in claims, SameId(c, d) \/ SameOwner(c, d) PROVE c = d
    BY DEF ClaimsUnique
  <2>1. PICK x \in Earlier, what \in {"entry", "row"} : x.id # None /\ c = made(what, x)
    BY <1>5
  <2>2. PICK y \in Earlier, what2 \in {"entry", "row"} : y.id # None /\ d = made(what2, y)
    BY <1>5
  <2>3. what2 = what /\ (IdOf(what, x) = IdOf(what, y) \/ Owner(what, x) = Owner(what, y))
    BY <1>4, <2>1, <2>2 DEF SameId, SameOwner
  <2>4. CASE what = "entry"
    <3>1. IdOf(what, x) = IdOf(what, y) /\ Owner(what, x) = Owner(what, y)
      BY <1>2, <2>1, <2>2, <2>3, <2>4 DEF IdOf
    <3> QED BY <2>1, <2>2, <2>3, <3>1 DEF made, ClaimOf
  <2>5. CASE what = "row"
    <3>1. x = y
      BY <1>2, <2>1, <2>2, <2>3, <2>5 DEF IdOf, Owner
    <3> QED BY <2>1, <2>2, <2>3, <3>1
  <2> QED BY <2>4, <2>5
<1>9. RowsIdentified
  BY <1>0, <1>1 DEF RowsIdentified
<1>10. RowsClaimed
  <2> SUFFICES ASSUME NEW x \in Earlier, x.id # None, NEW what \in {"entry", "row"}
               PROVE  \E c \in claims : Covers(c, what, x)
    BY <1>0 DEF RowsClaimed
  <2>1. Covers(made(what, x), what, x)
    BY <1>4 DEF Covers
  <2> QED BY <1>6, <2>1
<1>11. ClaimsOwned
  <2> SUFFICES ASSUME NEW c \in claims PROVE \E x \in Earlier : OwnerIs(c, x)
    BY <1>0 DEF ClaimsOwned
  <2>1. PICK x \in Earlier, what \in {"entry", "row"} : x.id # None /\ c = made(what, x)
    BY <1>5
  <2>2. OwnerIs(c, x)
    BY <1>0, <1>4, <2>1 DEF OwnerIs
  <2> QED BY <2>2
<1>12. LineagesSound
  BY <1>0, <1>1 DEF LineagesSound
<1>13. KindsFounded
  <2> SUFFICES ASSUME NEW x \in Earlier, x.kind # None
               PROVE  /\ IsEntryRow(x)
                      /\ \E y \in Earlier : Founds(y, x)
                      /\ \E m \in mains : m.sid = x.sid /\ m.by \in {None, x.by}
    BY <1>0 DEF KindsFounded
  <2>1. PICK y \in Earlier : /\ y.kin = x.kin /\ y.group = x.group /\ y.kind = x.kind
                             /\ y.id # None /\ y.imm = <<y.id, y.kind, 1>>
    BY EarlierAssumption
  <2>2. Founds(y, x)
    BY <1>0, <2>1 DEF Founds
  <2>3. IsEntryRow(x)
    BY <1>1, <1>2, <2>1 DEF IsEntryRow, SameTable
  <2>4. [sid |-> x.sid, by |-> None] \in mains
    BY <1>0
  <2> QED BY <2>2, <2>3, <2>4
<1>14. GroupsSound
  <2>1. \A x \in Earlier : x.kind = None => x.group = x.kin
    BY EarlierAssumption
  <2> QED BY <1>0, <1>1, <1>2, <2>1 DEF GroupsSound
<1>15. ASSUME NEW s \in Stores PROVE CallOwned(s)
  <2>1. \A c \in claims : c.by = None
    BY <1>4, <1>5
  <2>2. Unwritten(s)
    BY <1>0, <2>1 DEF Unwritten
  <2>3. op[s] = None /\ stack[s] = <<>>
    BY <1>0
  <2> QED BY <2>2, <2>3 DEF CallOwned, CallFollows, KindsAtRoot, ClaimFrame
<1> QED BY <1>7, <1>8, <1>9, <1>10, <1>11, <1>12, <1>13, <1>14, <1>15 DEF OwnedInv, TablesOwned

LEMMA OwnedStutters ==
  ASSUME OwnedInv, UNCHANGED vars
  PROVE  OwnedInv'
<1>1. UNCHANGED <<rows, mains, claims, tx, op, stack>>
  BY DEF vars, db, session
<1>2. \A s \in Stores : Saving(s, "claim")' = Saving(s, "claim") /\ Top(s)' = Top(s)
  BY <1>1 DEF Saving, Top
<1>3. TablesOwned'
  BY <1>1, <1>2 DEF OwnedInv, TablesOwned, KeysUnique, ClaimsUnique, RowsIdentified, AtClaim, RowsClaimed,
     ClaimsOwned, LineagesSound, KindsFounded
<1>4. GroupsSound'
  BY <1>1 DEF OwnedInv, GroupsSound
<1>5. ASSUME NEW s \in Stores PROVE CallOwned(s)'
  BY <1>1 DEF OwnedInv, CallOwned, CallFollows, Followed, Seen, KindsAtRoot, Root, ClaimFrame, Unwritten
<1> QED BY <1>3, <1>4, <1>5 DEF OwnedInv

LEMMA OwnedNext ==
  ASSUME Inv, OwnedInv, ~FsckOnline, [Next]_vars
  PROVE  OwnedInv'
<1>1. CASE UNCHANGED vars
  BY <1>1, OwnedStutters
<1>2. CASE Next
  <2>1. PICK s \in Stores : Step(s)
    BY <1>2, NextIsStep
  <2>2. OwnEffect(s) /\ TypeInv'
    BY <2>1, StepIsOwn, StepEffect
  <2>3. SidsUnique'
    BY <2>2, EffectOrSweep, SidsStayUnique
  <2>4. TablesOwned' /\ GroupsSound'
    BY <2>2, <2>3, TablesStay, GroupsStay
  <2>5. ASSUME NEW t \in Stores PROVE CallOwned(t)'
    <3>1. CASE t = s
      BY <2>2, <2>3, <3>1, OwnCallOwned, OwnUnwritten DEF CallOwned
    <3>2. CASE t # s /\ Sweeps(s) /\ Fsck(s)
      BY <3>2, SweepsOwned
    <3>3. CASE t # s /\ Effect(s)
      BY <2>2, <2>3, <3>3, OthersOwned
    <3>4. Effect(s) \/ (Sweeps(s) /\ Fsck(s))
      BY <2>2 DEF OwnEffect, Quiet, Begins, Effect
    <3> QED BY <3>1, <3>2, <3>3, <3>4
  <2> QED BY <2>4, <2>5 DEF OwnedInv
<1> QED BY <1>1, <1>2

-----------------------------------------------------------------------------
(* Theorems.                                                               *)

(* Who owns what, in every state: in particular the claims of an id and of *)
(* its owner agree across transactions that do not see each other's.       *)
THEOREM Ownership == FsckOnline = FALSE => (Spec => [](Inv /\ OwnedInv))
<1> SUFFICES ASSUME FsckOnline = FALSE PROVE Spec => [](Inv /\ OwnedInv)
  OBVIOUS
<1>1. Init => Inv /\ OwnedInv
  BY InvInit, OwnedInit
<1>2. Inv /\ OwnedInv /\ [Next]_vars => (Inv /\ OwnedInv)'
  BY InvNext, OwnedNext
<1> QED BY <1>1, <1>2, PTL DEF Spec

\* A committed row claims no ids any more.
LEMMA CommittedIdentified ==
  ASSUME OwnedInv, NEW x \in rows, x.by = None, IsEntryRow(x)
  PROVE  x.id # None
<1>1. None \notin Stores
  BY TransactionsAssumption
<1> QED BY <1>1 DEF OwnedInv, TablesOwned, RowsIdentified, AtClaim

\* An id is one owner's.
LEMMA OneOwner ==
  ASSUME OwnedInv, NEW x \in rows, NEW y \in rows, x.id # None, y.id # None, NEW what \in {"entry", "row"},
         IdOf(what, x) = IdOf(what, y)
  PROVE  Owner(what, x) = Owner(what, y)
<1>1. PICK c \in claims : Covers(c, what, x)
  BY DEF OwnedInv, TablesOwned, RowsClaimed
<1>2. PICK d \in claims : Covers(d, what, y)
  BY DEF OwnedInv, TablesOwned, RowsClaimed
<1>3. c = d
  BY <1>1, <1>2 DEF Covers, OwnedInv, TablesOwned, ClaimsUnique, SameId
<1> QED BY <1>1, <1>2, <1>3 DEF Covers

\* A group has one id.
LEMMA OneId ==
  ASSUME OwnedInv, NEW x \in rows, NEW y \in rows, x.id # None, y.id # None, Owner("entry", x) = Owner("entry", y)
  PROVE  x.id = y.id
<1>1. PICK c \in claims : Covers(c, "entry", x)
  BY DEF OwnedInv, TablesOwned, RowsClaimed
<1>2. PICK d \in claims : Covers(d, "entry", y)
  BY DEF OwnedInv, TablesOwned, RowsClaimed
<1>3. c = d
  BY <1>1, <1>2 DEF Covers, OwnedInv, TablesOwned, ClaimsUnique, SameOwner
<1> QED BY <1>1, <1>2, <1>3 DEF Covers, IdOf

(* Whatever transactions race, and whatever they read before: what is      *)
(* committed has one row of a content, one group of an id in one backing,  *)
(* no immutable id twice, and in a group one lineage of each kind.         *)
THEOREM IdentitiesAreOwned == FsckOnline = FALSE => (Spec => []IdentitiesOwned)
<1> SUFFICES ASSUME FsckOnline = FALSE PROVE Spec => []IdentitiesOwned
  OBVIOUS
<1>1. Inv /\ OwnedInv => IdentitiesOwned
  <2> SUFFICES ASSUME Inv, OwnedInv, NEW x \in Committed(rows), NEW y \in Committed(rows), x # y
               PROVE  /\ x.key = y.key => Policy[x.key.content] # "content_id"
                      /\ x.id # None /\ x.id = y.id =>
                           x.group = y.group /\ Backing[x.key.content] = Backing[y.key.content] /\ x.imm # y.imm
                      /\ x.kind # None /\ x.group = y.group /\ x.kind = y.kind => x.kin = y.kin
    BY DEF IdentitiesOwned
  <2>0. x \in rows /\ y \in rows /\ x.by = None /\ y.by = None /\ x.sid # y.sid
    BY DEF Committed, Inv, TablesSound, SidsUnique
  <2>1. x.key = y.key => Policy[x.key.content] # "content_id"
    BY <2>0 DEF OwnedInv, TablesOwned, KeysUnique
  <2>2. ASSUME x.id # None, x.id = y.id
        PROVE  x.group = y.group /\ Backing[x.key.content] = Backing[y.key.content] /\ x.imm # y.imm
    <3>1. Owner("entry", x) = Owner("entry", y)
      BY <2>0, <2>2, OneOwner DEF IdOf
    <3>2. Owner("row", x) # Owner("row", y)
      BY <2>0 DEF Owner
    <3>3. x.imm # y.imm
      BY <2>0, <2>2, <3>2, OneOwner DEF IdOf
    <3> QED BY <3>1, <3>3 DEF Owner
  <2>3. ASSUME x.kind # None, x.group = y.group, x.kind = y.kind
        PROVE  x.kin = y.kin
    <3>1. PICK v \in rows : Founds(v, x)
      BY <2>0, <2>3 DEF OwnedInv, TablesOwned, KindsFounded
    <3>2. PICK w \in rows : Founds(w, y)
      BY <2>0, <2>3 DEF OwnedInv, TablesOwned, KindsFounded
    <3>3. /\ v.by = None /\ w.by = None /\ v.kind = x.kind /\ w.kind = x.kind /\ v.group = w.group
          /\ v.kin = x.kin /\ w.kin = y.kin
      BY <2>0, <2>3, <3>1, <3>2 DEF Founds
    <3>4. IsEntryRow(v) /\ IsEntryRow(w)
      BY <2>3, <3>3 DEF OwnedInv, TablesOwned, KindsFounded
    <3>5. v.id # None /\ w.id # None
      BY <3>3, <3>4, CommittedIdentified
    <3>6. Backing[v.key.content] = Backing[w.key.content]
      BY <3>3, <3>4 DEF OwnedInv, GroupsSound, SameTable, IsEntryRow
    <3>7. v.id = w.id
      BY <3>3, <3>5, <3>6, OneId DEF Owner
    <3>8. v.imm = w.imm
      BY <3>1, <3>2, <3>3, <3>5, <3>7 DEF Founds
    <3>9. Owner("row", v) = Owner("row", w)
      BY <3>5, <3>8, OneOwner DEF IdOf
    <3>10. v = w
      BY <3>9 DEF Owner, Inv, TablesSound, SidsUnique
    <3> QED BY <3>3, <3>10
  <2> QED BY <2>1, <2>2, <2>3
<1>2. Spec => [](Inv /\ OwnedInv)
  BY Ownership
<1> QED BY <1>1, <1>2, PTL

-----------------------------------------------------------------------------
(* What is true of the rows, and of a call in progress.                    *)

\* The rows that are committed with x or before.
With(x) == {y \in rows : y.by \in {None, x.by}}

\* The elements of the row are still to be written.
Unfinished(x) == x.by \in Stores /\ \E i \in DOMAIN stack[x.by] : stack[x.by][i].sid = x.sid

RowWhole(x) ==
  /\ x.key.content = Content[x.obj]
  /\ AreRowsOf(With(x), x.refs, Refs[x.obj])
  /\ x.torn => ~Unfinished(x)
  /\ IF x.torn \/ Unfinished(x) THEN x.kids = {} ELSE AreRowsOf(With(x), x.kids, Items[x.obj])

RowsWhole == \A x \in rows : RowWhole(x)

DepthOf(f) == Depth[Content[f.obj]]

\* What the call, of which ins are the rows it has inserted, has inserted since
\* the frame f has looked for its content.
Since(f, ins) == {ins[m] : m \in (f.base + 1) .. Len(ins)}

\* What a frame inserts before its own row are parts of it, and what was there
\* before the frame names nothing that was inserted inside it.
Inside(f, ins, R) ==
  /\ f.sid # 0 => f.sid \in Since(f, ins) /\ \A x \in R : x.sid = f.sid => x.obj = f.obj
  /\ f.stage # "lookup" =>
       /\ f.sid = 0 => \A x \in R : x.sid \in Since(f, ins) => Depth[x.key.content] < DepthOf(f)
       /\ \A x \in R : x.sid \notin Since(f, ins) => (x.refs \cup x.kids) \cap Since(f, ins) = {}

\* f saves a part of what g saves, and g has got nothing from inside of f yet.
Under(f, g, ins) ==
  /\ g.stage \in {"refs", "kids"} /\ DepthOf(f) < DepthOf(g)
  /\ f.stage # "lookup" => \A h \in g.got : h[2] \notin Since(f, ins)

FramesWhole(st, ins, R) ==
  /\ \A i \in DOMAIN st : Inside(st[i], ins, R)
  /\ \A i, j \in DOMAIN st : i < j => Under(st[i], st[j], ins)

\* The content of the innermost frame was stored by another.
Superseded(s) == Inserting(s) /\ Matches(s) # {}

GotThere(f, S) == \A g \in f.got : \E y \in S : y.sid = g[2] /\ y.key.content = Content[g[1]]

FramesGot(s) == \A i \in DOMAIN stack[s] : GotThere(stack[s][i], Seen(s, rows)) \/ (i = 1 /\ Superseded(s))

\* A frame that is the innermost has got all that it needs for its stage.
Ready(f) ==
  /\ f.stage \in {"refs", "insert"} => Refs[f.obj] \subseteq {g[1] : g \in f.got}
  /\ f.stage = "kids" => Items[f.obj] \subseteq {g[1] : g \in f.got}

CallWhole(s) ==
  stack[s] # <<>> =>
    FramesWhole(stack[s], op[s].inserted, rows) /\ FramesGot(s) /\ Ready(stack[s][1])

WholeInv == RowsWhole /\ \A s \in Stores : CallWhole(s)

-----------------------------------------------------------------------------
(* Frames of a call.                                                       *)

LEMMA DepthTyped ==
  ASSUME NEW o \in Objects
  PROVE  /\ Depth[Content[o]] \in 1 .. Cardinality(Objects) /\ Depth[Content[o]] \in Nat
         /\ \A q \in Refs[o] \cup Items[o] : q \in Objects /\ Depth[Content[q]] < Depth[Content[o]]
<1>1. Content[o] \in Contents
  BY DEF Contents
<1>2. Refs[o] \in SUBSET Objects /\ Items[o] \in SUBSET Objects
  BY TransactionsAssumption
<1>3. Cardinality(Objects) \in Nat
  BY TransactionsAssumption, FS_CardinalityType
<1> QED BY <1>1, <1>2, <1>3, PartsAssumption

\* n has the frames of v, and perhaps a fresh one for an object that its first frame wants.
Extends(n, v) ==
  /\ n \in Seq(FrameType) /\ v \in Seq(FrameType) /\ v # <<>>
  /\ \/ Wanted(v[1]) = {} /\ Len(n) = Len(v) /\ \A i \in 1 .. Len(v) : n[i] = v[i]
     \/ /\ Len(n) = Len(v) + 1 /\ \A i \in 1 .. Len(v) : n[i + 1] = v[i]
        /\ \E o \in Wanted(v[1]) : n[1] = Frame(o)

\* v is st with f as its innermost frame.
Tops(v, f, st) ==
  /\ v \in Seq(FrameType) /\ Len(v) = Len(st) /\ v # <<>>
  /\ v[1] = f /\ \A i \in 2 .. Len(st) : v[i] = st[i]

LEMMA GoOnExtends ==
  ASSUME NEW st \in Seq(FrameType), st # <<>>, NEW f \in FrameType
  PROVE  Extends(GoOn(f) \o Tail(st), <<f>> \o Tail(st)) /\ Tops(<<f>> \o Tail(st), f, st)
<1> DEFINE rest == Tail(st)
           v == <<f>> \o rest
<1>1. /\ rest \in Seq(FrameType) /\ Len(rest) = Len(st) - 1 /\ Len(st) \in Nat \ {0}
      /\ \A i \in 1 .. Len(st) - 1 : rest[i] = st[i + 1]
  OBVIOUS
<1> HIDE DEF rest
<1>2. v \in Seq(FrameType) /\ Len(v) = Len(st) /\ v # <<>> /\ v[1] = f
  BY <1>1
<1>3. \A i \in 2 .. Len(st) : v[i] = st[i]
  <2> TAKE i \in 2 .. Len(st)
  <2>1. v[i] = rest[i - 1]
    BY <1>1
  <2> QED BY <1>1, <2>1
<1>4. CASE Wanted(f) = {}
  <2>1. GoOn(f) \o rest = v
    BY <1>4 DEF GoOn
  <2> HIDE DEF v
  <2> QED BY <1>2, <1>3, <1>4, <2>1 DEF Extends, Tops, rest, v
<1>5. CASE Wanted(f) # {}
  <2>1. PICK o : o = CHOOSE q \in Wanted(f) : TRUE
    OBVIOUS
  <2>2. o \in Wanted(f)
    BY <1>5, <2>1
  <2>3. o \in Objects
    BY <2>2, TransactionsAssumption DEF Wanted, FrameType
  <2>4. PICK e \in FrameType : e = Frame(o)
    BY <2>3, FrameTyped
  <2> DEFINE n == <<e, f>> \o rest
  <2>5. GoOn(f) \o rest = n
    BY <1>5, <2>1, <2>4 DEF GoOn
  <2>6. n \in Seq(FrameType) /\ Len(n) = Len(v) + 1 /\ n[1] = e
    BY <1>1, <1>2, <2>4
  <2>7. \A i \in 1 .. Len(v) : n[i + 1] = v[i]
    <3> TAKE i \in 1 .. Len(v)
    <3>1. CASE i = 1
      BY <1>1, <1>2, <2>4, <3>1
    <3>2. CASE i # 1
      <4>1. n[i + 1] = rest[i - 1] /\ v[i] = rest[i - 1]
        BY <1>1, <1>2, <2>4, <3>2
      <4> QED BY <4>1
    <3> QED BY <3>1, <3>2
  <2> HIDE DEF n, v
  <2> QED BY <1>2, <1>3, <2>2, <2>4, <2>5, <2>6, <2>7 DEF Extends, Tops, rest, v
<1> QED BY <1>4, <1>5

\* A fresh frame saves a part of what the frame saves that calls it.
LEMMA FreshFrame ==
  ASSUME NEW f \in FrameType, NEW o \in Wanted(f), NEW ins, NEW R, NEW S
  PROVE  /\ Inside(Frame(o), ins, R) /\ Under(Frame(o), f, ins)
         /\ GotThere(Frame(o), S) /\ Ready(Frame(o))
<1>1. f.obj \in Objects /\ o \in Refs[f.obj] \cup Items[f.obj]
  BY DEF FrameType, Wanted
<1>2. DepthOf(Frame(o)) < DepthOf(f) /\ f.stage \in {"refs", "kids"}
  BY <1>1, DepthTyped DEF DepthOf, Frame, Wanted
<1> QED BY <1>2 DEF Inside, Under, GotThere, Ready, Frame

LEMMA WholeExtends ==
  ASSUME NEW v, NEW n, Extends(n, v), NEW ins, NEW R, FramesWhole(v, ins, R)
  PROVE  FramesWhole(n, ins, R)
<1>0. /\ n \in Seq(FrameType) /\ v \in Seq(FrameType) /\ Len(v) \in Nat \ {0} /\ DOMAIN v = 1 .. Len(v)
      /\ DOMAIN n = 1 .. Len(n)
  BY DEF Extends
<1>1. CASE Len(n) = Len(v) /\ \A i \in 1 .. Len(v) : n[i] = v[i]
  BY <1>0, <1>1 DEF FramesWhole
<1>2. CASE /\ Len(n) = Len(v) + 1 /\ \A i \in 1 .. Len(v) : n[i + 1] = v[i]
           /\ \E o \in Wanted(v[1]) : n[1] = Frame(o)
  <2>1. PICK o \in Wanted(v[1]) : n[1] = Frame(o)
    BY <1>2
  <2>2. v[1] \in FrameType /\ 1 \in DOMAIN v
    BY <1>0
  <2>3. Inside(n[1], ins, R) /\ Under(n[1], v[1], ins)
    BY <2>1, <2>2, FreshFrame
  <2>4. \A i \in DOMAIN n : i = 1 \/ (i - 1 \in DOMAIN v /\ n[i] = v[i - 1])
    <3> TAKE i \in DOMAIN n
    <3>1. CASE i # 1
      <4>1. i - 1 \in 1 .. Len(v) /\ (i - 1) + 1 = i
        BY <1>0, <1>2, <3>1
      <4> QED BY <1>0, <1>2, <4>1
    <3> QED BY <3>1
  <2>5. \A i \in DOMAIN n : Inside(n[i], ins, R)
    BY <2>3, <2>4 DEF FramesWhole
  <2>6. ASSUME NEW i \in DOMAIN n, NEW j \in DOMAIN n, i < j PROVE Under(n[i], n[j], ins)
    <3>1. j - 1 \in DOMAIN v /\ n[j] = v[j - 1]
      BY <1>0, <2>4, <2>6
    <3>2. CASE i = 1
      <4>1. CASE j - 1 = 1
        BY <2>3, <3>1, <3>2, <4>1
      <4>2. CASE j - 1 # 1
        <5>1. 1 < j - 1
          BY <1>0, <3>1, <4>2
        <5>2. Under(v[1], v[j - 1], ins)
          BY <2>2, <3>1, <5>1 DEF FramesWhole
        <5>3. v[j - 1] \in FrameType /\ o \in Objects
          <6>1. v[1].obj \in Objects
            BY <2>2 DEF FrameType
          <6> QED BY <1>0, <3>1, <6>1, TransactionsAssumption DEF Wanted
        <5>4. DepthOf(v[1]) \in Nat /\ DepthOf(v[j - 1]) \in Nat /\ DepthOf(n[1]) \in Nat
          BY <2>1, <2>2, <5>3, DepthTyped DEF DepthOf, FrameType, Frame
        <5>5. DepthOf(n[1]) < DepthOf(n[j])
          BY <2>3, <3>1, <5>2, <5>4 DEF Under
        <5>6. n[1].stage = "lookup"
          BY <2>1 DEF Frame
        <5> QED BY <3>1, <3>2, <5>2, <5>5, <5>6 DEF Under
      <4> QED BY <4>1, <4>2
    <3>3. CASE i # 1
      <4>1. i - 1 \in DOMAIN v /\ n[i] = v[i - 1] /\ i - 1 < j - 1
        BY <1>0, <2>4, <2>6, <3>3
      <4> QED BY <3>1, <4>1 DEF FramesWhole
    <3> QED BY <3>2, <3>3
  <2> QED BY <2>5, <2>6 DEF FramesWhole
<1> QED BY <1>1, <1>2 DEF Extends

\* Where all frames have got rows that are there, and the first goes on.
LEMMA GotExtends ==
  ASSUME NEW v, NEW n, Extends(n, v), NEW S, \A i \in DOMAIN v : GotThere(v[i], S),
         v[1].stage \in {"refs", "claim", "kids"} \/ Ready(v[1])
  PROVE  (\A i \in DOMAIN n : GotThere(n[i], S)) /\ Ready(n[1])
<1>0. /\ n \in Seq(FrameType) /\ v \in Seq(FrameType) /\ Len(v) \in Nat \ {0} /\ DOMAIN v = 1 .. Len(v)
      /\ DOMAIN n = 1 .. Len(n) /\ v[1] \in FrameType
  BY DEF Extends
<1>1. CASE Wanted(v[1]) = {} /\ Len(n) = Len(v) /\ \A i \in 1 .. Len(v) : n[i] = v[i]
  <2>1. Ready(v[1])
    <3>1. v[1].stage = "refs" => Refs[v[1].obj] \subseteq {g[1] : g \in v[1].got}
      BY <1>1 DEF Wanted
    <3>2. v[1].stage = "kids" => Items[v[1].obj] \subseteq {g[1] : g \in v[1].got}
      BY <1>1 DEF Wanted
    <3> QED BY <3>1, <3>2 DEF Ready
  <2> QED BY <1>0, <1>1, <2>1
<1>2. CASE /\ Len(n) = Len(v) + 1 /\ \A i \in 1 .. Len(v) : n[i + 1] = v[i]
           /\ \E o \in Wanted(v[1]) : n[1] = Frame(o)
  <2>1. PICK o \in Wanted(v[1]) : n[1] = Frame(o)
    BY <1>2
  <2>2. GotThere(n[1], S) /\ Ready(n[1])
    BY <1>0, <2>1, FreshFrame
  <2>3. ASSUME NEW i \in DOMAIN n PROVE GotThere(n[i], S)
    <3>1. CASE i # 1
      <4>1. i - 1 \in 1 .. Len(v) /\ (i - 1) + 1 = i
        BY <1>0, <1>2, <3>1
      <4>2. n[i] = v[i - 1]
        BY <1>2, <4>1
      <4> QED BY <1>0, <4>1, <4>2
    <3> QED BY <2>2, <3>1
  <2> QED BY <2>2, <2>3
<1> QED BY <1>1, <1>2 DEF Extends

\* What the frames have in common that are not the innermost.
Outer(st, ins, R, S) ==
  \A j \in 2 .. Len(st) :
    /\ Inside(st[j], ins, R) /\ GotThere(st[j], S)
    /\ \A i \in 2 .. Len(st) : i < j => Under(st[i], st[j], ins)

LEMMA CallFrames ==
  ASSUME TypeInv, NEW s \in Stores, CallWhole(s), stack[s] # <<>>
  PROVE  /\ stack[s] \in Seq(FrameType) /\ Top(s) = stack[s][1] /\ Top(s) \in FrameType
         /\ Inside(Top(s), op[s].inserted, rows) /\ Ready(Top(s))
         /\ GotThere(Top(s), Seen(s, rows)) \/ Superseded(s)
         /\ Outer(stack[s], op[s].inserted, rows, Seen(s, rows))
         /\ \A j \in 2 .. Len(stack[s]) : Under(Top(s), stack[s][j], op[s].inserted)
<1>1. stack[s] \in Seq(FrameType) /\ Top(s) = stack[s][1] /\ Top(s) \in FrameType /\ 1 \in DOMAIN stack[s]
  BY TopTyped
<1>2. FramesWhole(stack[s], op[s].inserted, rows) /\ FramesGot(s) /\ Ready(Top(s))
  BY <1>1 DEF CallWhole
<1>3. \A j \in 2 .. Len(stack[s]) : j \in DOMAIN stack[s] /\ j # 1 /\ 1 < j
  BY <1>1
<1>4. Outer(stack[s], op[s].inserted, rows, Seen(s, rows))
  BY <1>2, <1>3 DEF Outer, FramesWhole, FramesGot
<1>5. \A j \in 2 .. Len(stack[s]) : Under(Top(s), stack[s][j], op[s].inserted)
  BY <1>1, <1>2, <1>3 DEF FramesWhole
<1>6. Inside(Top(s), op[s].inserted, rows) /\ (GotThere(Top(s), Seen(s, rows)) \/ Superseded(s))
  BY <1>1, <1>2 DEF FramesWhole, FramesGot
<1> QED BY <1>1, <1>2, <1>4, <1>5, <1>6

\* The call goes on with the frame f in place of the first of st.
LEMMA CallGoesOn ==
  ASSUME NEW s \in Stores, NEW st \in Seq(FrameType), st # <<>>, NEW f \in FrameType,
         stack'[s] = GoOn(f) \o Tail(st),
         Inside(f, op'[s].inserted, rows'), GotThere(f, Seen(s, rows)'), f.stage # "insert" \/ Ready(f),
         f.stage # "lookup",
         Outer(st, op'[s].inserted, rows', Seen(s, rows)'),
         \A j \in 2 .. Len(st) : Under(f, st[j], op'[s].inserted)
  PROVE  CallWhole(s)'
<1> DEFINE v == <<f>> \o Tail(st)
<1>1. Extends(stack'[s], v) /\ Tops(v, f, st)
  BY GoOnExtends
<1> HIDE DEF v
<1>2. /\ DOMAIN v = 1 .. Len(st) /\ v[1] = f /\ Len(st) \in Nat \ {0}
      /\ \A i \in DOMAIN v : i = 1 \/ (i \in 2 .. Len(st) /\ v[i] = st[i])
  <2>1. DOMAIN v = 1 .. Len(st) /\ v[1] = f /\ Len(st) \in Nat \ {0} /\ \A i \in 2 .. Len(st) : v[i] = st[i]
    BY <1>1 DEF Tops
  <2> QED BY <2>1
<1>3. FramesWhole(v, op'[s].inserted, rows')
  <2>1. \A i \in DOMAIN v : Inside(v[i], op'[s].inserted, rows')
    BY <1>2 DEF Outer
  <2>2. ASSUME NEW i \in DOMAIN v, NEW j \in DOMAIN v, i < j PROVE Under(v[i], v[j], op'[s].inserted)
    <3>1. j \in 2 .. Len(st) /\ v[j] = st[j]
      BY <1>2, <2>2
    <3>2. CASE i = 1
      BY <1>2, <3>1, <3>2
    <3>3. CASE i \in 2 .. Len(st) /\ v[i] = st[i]
      BY <2>2, <3>1, <3>3 DEF Outer
    <3> QED BY <1>2, <3>2, <3>3
  <2> QED BY <2>1, <2>2 DEF FramesWhole
<1>4. \A i \in DOMAIN v : GotThere(v[i], Seen(s, rows)')
  BY <1>2 DEF Outer
<1>5. f.stage \in {"refs", "claim", "kids"} \/ Ready(f)
  BY DEF FrameType, Stages
<1>6. (\A i \in DOMAIN stack'[s] : GotThere(stack'[s][i], Seen(s, rows)')) /\ Ready(stack'[s][1])
  BY <1>1, <1>2, <1>4, <1>5, GotExtends
<1>7. FramesGot(s)'
  BY <1>6 DEF FramesGot, GotThere
<1> QED BY <1>1, <1>3, <1>6, <1>7, WholeExtends DEF CallWhole

\* A row keeps its parts.
Parts(x, y) == y.sid = x.sid /\ y.key = x.key /\ y.obj = x.obj /\ y.refs = x.refs /\ y.kids = x.kids

LEMMA InsideParts ==
  ASSUME NEW f, NEW ins, NEW R, NEW R2, Inside(f, ins, R), \A y \in R2 : \E x \in R : Parts(x, y)
  PROVE  Inside(f, ins, R2)
  BY DEF Inside, Parts

LEMMA GotMore ==
  ASSUME NEW f, NEW S, NEW S2, GotThere(f, S),
         \A x \in S : (\E g \in f.got : g[2] = x.sid) => \E y \in S2 : y.sid = x.sid /\ y.key = x.key
  PROVE  GotThere(f, S2)
  BY DEF GotThere

LEMMA OuterParts ==
  ASSUME NEW st, NEW ins, NEW R, NEW R2, NEW S, NEW S2, Outer(st, ins, R, S),
         \A y \in R2 : \E x \in R : Parts(x, y), \A x \in S : \E y \in S2 : y.sid = x.sid /\ y.key = x.key
  PROVE  Outer(st, ins, R2, S2)
<1> SUFFICES ASSUME NEW j \in 2 .. Len(st) PROVE Inside(st[j], ins, R2) /\ GotThere(st[j], S2)
  BY DEF Outer
<1>1. Inside(st[j], ins, R) /\ GotThere(st[j], S)
  BY DEF Outer
<1> QED BY <1>1, InsideParts, GotMore

-----------------------------------------------------------------------------
(* The steps of a call leave its frames whole.                             *)

LEMMA LookupWhole ==
  ASSUME Inv, NEW s \in Stores, CallWhole(s), Saving(s, "lookup"),
         stack' = [stack EXCEPT ![s] =
           GoOn([Top(s) EXCEPT !.stage = "refs", !.base = Len(op[s].inserted)]) \o Tail(@)],
         UNCHANGED <<rows, op>>
  PROVE  CallWhole(s)'
<1> DEFINE st == stack[s]
           ins == op[s].inserted
           f == [Top(s) EXCEPT !.stage = "refs", !.base = Len(op[s].inserted)]
<1>0. TypeInv /\ st # <<>> /\ Top(s).stage = "lookup"
  BY DEF Inv, Saving, Top
<1>1. /\ st \in Seq(FrameType) /\ Top(s) = st[1] /\ Top(s) \in FrameType /\ ins \in Seq(Sid)
      /\ 1 \in DOMAIN st /\ op[s] # None
  BY <1>0, TopTyped DEF CallType
<1>2. Top(s).sid = 0
  BY <1>0, <1>1 DEF Inv, StoreSound, StackSound, FramesSound
<1>3. /\ f \in FrameType /\ f.obj = Top(s).obj /\ f.sid = 0 /\ f.stage = "refs" /\ f.got = Top(s).got
      /\ f.base = Len(ins)
  <2>1. PICK n \in Nat : n = Len(op[s].inserted)
    BY <1>1
  <2> QED BY <1>1, <1>2, <2>1 DEF FrameType, Stages
<1>4. stack'[s] = GoOn(f) \o Tail(st)
  BY <1>0 DEF TypeInv, SessionsTyped
<1> HIDE DEF f
<1>5. Since(f, ins) = {}
  BY <1>1, <1>3 DEF Since
<1>6. Inside(f, ins, rows)
  BY <1>3, <1>5 DEF Inside
<1>7. GotThere(f, Seen(s, rows))
  <2>1. ~Superseded(s)
    BY <1>0 DEF Superseded, Inserting, Saving, Top
  <2>2. GotThere(Top(s), Seen(s, rows))
    BY <1>0, <2>1, CallFrames
  <2> QED BY <1>3, <2>2 DEF GotThere
<1>8. Outer(st, ins, rows, Seen(s, rows))
  BY <1>0, CallFrames
<1>9. \A j \in 2 .. Len(st) : Under(f, st[j], ins)
  <2>1. \A j \in 2 .. Len(st) : Under(Top(s), st[j], ins)
    BY <1>0, CallFrames
  <2> QED BY <1>3, <1>5, <2>1 DEF Under, DepthOf
<1>10. op'[s].inserted = ins /\ rows' = rows /\ Seen(s, rows)' = Seen(s, rows)
  BY DEF Seen
<1>11. f.stage # "insert" /\ f.stage # "lookup"
  BY <1>3
<1> HIDE DEF st, ins
<1> QED BY <1>0, <1>1, <1>3, <1>4, <1>6, <1>7, <1>8, <1>9, <1>10, <1>11, CallGoesOn DEF st

LEMMA PrepareWhole ==
  ASSUME Inv, NEW s \in Stores, CallWhole(s), Saving(s, "refs"), IsEntry(s),
         Stay(s, [Top(s) EXCEPT !.stage = "insert"]), UNCHANGED <<rows, op>>
  PROVE  CallWhole(s)'
<1> DEFINE st == stack[s]
           ins == op[s].inserted
           f == [Top(s) EXCEPT !.stage = "insert"]
<1>0. TypeInv /\ st # <<>> /\ Top(s).stage = "refs"
  BY DEF Inv, Saving, Top
<1>1. st \in Seq(FrameType) /\ Top(s) \in FrameType
  BY <1>0, TopTyped
<1>2. /\ f \in FrameType /\ f.obj = Top(s).obj /\ f.sid = Top(s).sid /\ f.stage = "insert"
      /\ f.got = Top(s).got /\ f.base = Top(s).base
  BY <1>1 DEF FrameType, Stages
<1>3. stack'[s] = <<f>> \o Tail(st)
  BY <1>0 DEF TypeInv, SessionsTyped, Stay
<1> HIDE DEF f
<1>4. stack'[s] = GoOn(f) \o Tail(st)
  <2>1. Wanted(f) = {}
    BY <1>2 DEF Wanted
  <2> QED BY <1>3, <2>1 DEF GoOn
<1>5. Since(f, ins) = Since(Top(s), ins)
  BY <1>2 DEF Since
<1>6. Inside(f, ins, rows)
  <2>1. Inside(Top(s), ins, rows)
    BY <1>0, CallFrames
  <2> QED BY <1>0, <1>2, <1>5, <2>1 DEF Inside, DepthOf
<1>7. GotThere(f, Seen(s, rows))
  <2>1. ~Superseded(s)
    BY <1>0 DEF Superseded, Inserting, Saving, Top
  <2>2. GotThere(Top(s), Seen(s, rows))
    BY <1>0, <2>1, CallFrames
  <2> QED BY <1>2, <2>2 DEF GotThere
<1>8. Ready(f)
  <2>1. Ready(Top(s))
    BY <1>0, CallFrames
  <2> QED BY <1>0, <1>2, <2>1 DEF Ready
<1>9. Outer(st, ins, rows, Seen(s, rows))
  BY <1>0, CallFrames
<1>10. \A j \in 2 .. Len(st) : Under(f, st[j], ins)
  <2>1. \A j \in 2 .. Len(st) : Under(Top(s), st[j], ins)
    BY <1>0, CallFrames
  <2> QED BY <1>0, <1>2, <1>5, <2>1 DEF Under, DepthOf
<1>11. op'[s].inserted = ins /\ rows' = rows /\ Seen(s, rows)' = Seen(s, rows)
  BY DEF Seen
<1>12. f.stage # "lookup"
  BY <1>2
<1> HIDE DEF st, ins
<1> QED BY <1>0, <1>1, <1>2, <1>4, <1>6, <1>7, <1>8, <1>9, <1>10, <1>11, <1>12, CallGoesOn DEF st

LEMMA ClaimWhole ==
  ASSUME Inv, NEW s \in Stores, CallWhole(s), Saving(s, "claim"),
         stack' = [stack EXCEPT ![s] = GoOn([Top(s) EXCEPT !.stage = "kids"]) \o Tail(@)],
         \A y \in rows' : \E x \in rows : Parts(x, y) /\ y.by = x.by,
         \A x \in rows : \E y \in rows' : Parts(x, y) /\ y.by = x.by, UNCHANGED op
  PROVE  CallWhole(s)'
<1> DEFINE st == stack[s]
           ins == op[s].inserted
           f == [Top(s) EXCEPT !.stage = "kids"]
<1>0. TypeInv /\ st # <<>> /\ Top(s).stage = "claim"
  BY DEF Inv, Saving, Top
<1>1. st \in Seq(FrameType) /\ Top(s) \in FrameType /\ Top(s) = st[1] /\ 1 \in DOMAIN st /\ op[s] # None
  BY <1>0, TopTyped
<1>2. /\ f \in FrameType /\ f.obj = Top(s).obj /\ f.sid = Top(s).sid /\ f.stage = "kids"
      /\ f.got = Top(s).got /\ f.base = Top(s).base
  BY <1>1 DEF FrameType, Stages
<1>3. stack'[s] = GoOn(f) \o Tail(st)
  BY <1>0 DEF TypeInv, SessionsTyped
<1> HIDE DEF f
<1>4. Since(f, ins) = Since(Top(s), ins)
  BY <1>2 DEF Since
<1>5. Inside(f, ins, rows)
  <2>1. Inside(Top(s), ins, rows)
    BY <1>0, CallFrames
  <2> QED BY <1>0, <1>2, <1>4, <2>1 DEF Inside, DepthOf
<1>6. \A x \in Seen(s, rows) : \E y \in Seen(s, rows)' : y.sid = x.sid /\ y.key = x.key
  BY DEF Seen, Parts
<1>7. GotThere(f, Seen(s, rows)')
  <2>1. ~Superseded(s)
    BY <1>0 DEF Superseded, Inserting, Saving, Top
  <2>2. GotThere(Top(s), Seen(s, rows))
    BY <1>0, <2>1, CallFrames
  <2>3. GotThere(f, Seen(s, rows))
    BY <1>2, <2>2 DEF GotThere
  <2> QED BY <1>6, <2>3, GotMore
<1>8. Outer(st, ins, rows', Seen(s, rows)')
  <2>1. Outer(st, ins, rows, Seen(s, rows))
    BY <1>0, CallFrames
  <2> QED BY <1>6, <2>1, OuterParts
<1>9. \A j \in 2 .. Len(st) : Under(f, st[j], ins)
  <2>1. \A j \in 2 .. Len(st) : Under(Top(s), st[j], ins)
    BY <1>0, CallFrames
  <2> QED BY <1>0, <1>2, <1>4, <2>1 DEF Under, DepthOf
<1>10. Inside(f, ins, rows')
  BY <1>5, InsideParts
<1>11. op'[s].inserted = ins /\ f.stage # "insert" /\ f.stage # "lookup"
  BY <1>2
<1> HIDE DEF st, ins
<1> QED BY <1>0, <1>1, <1>2, <1>3, <1>7, <1>8, <1>9, <1>10, <1>11, CallGoesOn DEF st

\* What a row names is there.
LEMMA NamedRows ==
  ASSUME TypeInv, RowsWhole, NEW x \in rows, NEW n \in x.refs \cup x.kids
  PROVE  \E y \in rows : y.sid = n /\ y.by \in {None, x.by} /\ Depth[y.key.content] < Depth[x.key.content]
<1>1. RowWhole(x)
  BY DEF RowsWhole
<1>2. x.obj \in Objects /\ x.key.content = Content[x.obj]
  BY <1>1 DEF RowWhole, TypeInv, TablesTyped, RowType
<1>3. PICK y \in With(x), q \in Refs[x.obj] \cup Items[x.obj] : y.sid = n /\ y.key.content = Content[q]
  BY <1>1 DEF RowWhole, AreRowsOf
<1>4. Depth[y.key.content] < Depth[x.key.content]
  BY <1>2, <1>3, DepthTyped
<1> QED BY <1>3, <1>4 DEF With

LEMMA SinceAppend ==
  ASSUME NEW f \in FrameType, NEW ins \in Seq(Sid), NEW n \in Sid, f.base <= Len(ins)
  PROVE  Since(f, Append(ins, n)) = Since(f, ins) \cup {n}
<1> DEFINE more == Append(ins, n)
<1>1. /\ f.base \in Nat /\ Len(ins) \in Nat /\ Len(more) = Len(ins) + 1 /\ more[Len(ins) + 1] = n
      /\ \A m \in 1 .. Len(ins) : more[m] = ins[m]
  BY DEF FrameType
<1> HIDE DEF more
<1>2. \A m \in (f.base + 1) .. Len(more) : more[m] \in Since(f, ins) \cup {n}
  <2> TAKE m \in (f.base + 1) .. Len(more)
  <2>1. CASE m = Len(ins) + 1
    BY <1>1, <2>1
  <2>2. CASE m # Len(ins) + 1
    <3>1. m \in (f.base + 1) .. Len(ins) /\ m \in 1 .. Len(ins)
      BY <1>1, <2>2
    <3> QED BY <1>1, <3>1 DEF Since
  <2> QED BY <2>1, <2>2
<1>3. \A m \in (f.base + 1) .. Len(ins) : ins[m] \in Since(f, more)
  <2> TAKE m \in (f.base + 1) .. Len(ins)
  <2>1. m \in (f.base + 1) .. Len(more) /\ more[m] = ins[m]
    BY <1>1
  <2> QED BY <2>1 DEF Since
<1>4. n \in Since(f, more)
  <2>1. Len(ins) + 1 \in (f.base + 1) .. Len(more)
    BY <1>1
  <2> QED BY <1>1, <2>1 DEF Since
<1> QED BY <1>2, <1>3, <1>4 DEF Since, more

\* The row that an insert writes.
Written(s, r) ==
  /\ r.sid \in Sid /\ \A x \in rows : x.sid # r.sid
  /\ r.key = Key(s) /\ r.obj = Top(s).obj /\ r.refs = GotSids(s, Refs[Top(s).obj]) /\ r.kids = {}
  /\ r.torn = FALSE /\ r.by = s
  /\ rows' = rows \cup {r}

LEMMA InsertWrites ==
  ASSUME Inv, NEW s \in Stores, Insert(s)
  PROVE  \E r : /\ Written(s, r) /\ op'[s].inserted = Append(op[s].inserted, r.sid)
                /\ \E f \in FrameType :
                     /\ stack'[s] = GoOn(f) \o Tail(stack[s])
                     /\ f.obj = Top(s).obj /\ f.got = Top(s).got /\ f.base = Top(s).base
                     /\ f.sid = r.sid /\ f.stage \in {"claim", "kids"}
<1> DEFINE n == NewSid(s)
           r == [sid |-> n, key |-> Key(s), obj |-> Top(s).obj,
                 refs |-> GotSids(s, Refs[Top(s).obj]), kids |-> {},
                 kin |-> IF Kin(s) # 0 THEN Kin(s) ELSE n,
                 group |-> IF Group(s) # 0 THEN Group(s) ELSE n,
                 kind |-> Kind(s), id |-> None, imm |-> None,
                 ts |-> stamp[s], who |-> s, torn |-> FALSE, by |-> s]
           f == [Top(s) EXCEPT !.sid = n, !.stage = IF IsEntry(s) THEN "claim" ELSE "kids"]
<1>0. TypeInv /\ SidsUnique /\ stack[s] # <<>> /\ ~Locked(s)
  BY DEF Inv, TablesSound, Insert, InsertWaits, Inserting, Saving
<1>1. Top(s) \in FrameType /\ op[s] \in CallType
  BY <1>0, TopTyped
<1>2. n \in Sid /\ \A x \in rows : x.sid # n
  BY <1>0, NewSidFresh
<1>3. /\ rows' = rows \cup {r}
      /\ op' = [op EXCEPT ![s].inserted = Append(@, n)]
      /\ stack' = [stack EXCEPT ![s] = GoOn(f) \o Tail(@)]
  BY DEF Insert
<1>4. op'[s].inserted = Append(op[s].inserted, n)
  BY <1>0, <1>1, <1>3 DEF TypeInv, SessionsTyped, CallType
<1>5. stack'[s] = GoOn(f) \o Tail(stack[s])
  BY <1>0, <1>3 DEF TypeInv, SessionsTyped
<1>6. /\ f \in FrameType /\ f.obj = Top(s).obj /\ f.got = Top(s).got /\ f.base = Top(s).base
      /\ f.sid = n /\ f.stage \in {"claim", "kids"}
  <2>1. PICK k \in Sid : k = n
    BY <1>2
  <2>2. PICK g \in {"claim", "kids"} : g = IF IsEntry(s) THEN "claim" ELSE "kids"
    OBVIOUS
  <2>3. f = [Top(s) EXCEPT !.sid = k, !.stage = g]
    BY <2>1, <2>2
  <2> HIDE DEF n, f
  <2> QED BY <1>1, <2>1, <2>2, <2>3 DEF FrameType, Stages, Sid
<1>7. Written(s, r)
  <2> HIDE DEF n
  <2> QED BY <1>2, <1>3 DEF Written
<1>8. r.sid = n
  OBVIOUS
<1> HIDE DEF r, f, n
<1> QED BY <1>4, <1>5, <1>6, <1>7, <1>8

LEMMA InsertWhole ==
  ASSUME Inv, RowsWhole, NEW s \in Stores, CallWhole(s), Insert(s)
  PROVE  CallWhole(s)'
<1> DEFINE st == stack[s]
           ins == op[s].inserted
<1>1. PICK r : /\ Written(s, r) /\ op'[s].inserted = Append(ins, r.sid)
               /\ \E f \in FrameType :
                    /\ stack'[s] = GoOn(f) \o Tail(st)
                    /\ f.obj = Top(s).obj /\ f.got = Top(s).got /\ f.base = Top(s).base
                    /\ f.sid = r.sid /\ f.stage \in {"claim", "kids"}
  BY InsertWrites
<1>2. PICK f \in FrameType : /\ stack'[s] = GoOn(f) \o Tail(st)
                             /\ f.obj = Top(s).obj /\ f.got = Top(s).got /\ f.base = Top(s).base
                             /\ f.sid = r.sid /\ f.stage \in {"claim", "kids"}
  BY <1>1
<1>3. PICK n \in Sid : n = r.sid
  BY <1>1 DEF Written
<1>4. /\ \A x \in rows : x.sid # n
      /\ rows' = rows \cup {r} /\ r.sid = n /\ r.by = s /\ r.obj = Top(s).obj /\ r.key = Key(s)
      /\ op'[s].inserted = Append(ins, n)
  BY <1>1, <1>3 DEF Written
<1>5. TypeInv /\ st # <<>> /\ Top(s).stage \in {"refs", "insert"} /\ Matches(s) = {}
  BY DEF Inv, Insert, Inserting, Saving, Top
<1>6. /\ st \in Seq(FrameType) /\ Top(s) = st[1] /\ Top(s) \in FrameType /\ ins \in Seq(Sid)
      /\ 1 \in DOMAIN st /\ op[s] # None /\ StackSound(s)
  BY <1>5, TopTyped DEF CallType, Inv, StoreSound
<1>7. Top(s).sid = 0 /\ Top(s).base <= Len(ins)
  BY <1>5, <1>6 DEF StackSound, FramesSound
<1>8. \A j \in 2 .. Len(st) : st[j] \in FrameType /\ j \in DOMAIN st /\ j # 1
  BY <1>6
<1>9. \A j \in 2 .. Len(st) : st[j].stage # "lookup" /\ st[j].base <= Len(ins)
  BY <1>6, <1>8 DEF StackSound, FramesSound
<1>10. /\ Since(f, Append(ins, n)) = Since(Top(s), ins) \cup {n}
       /\ \A j \in 2 .. Len(st) : Since(st[j], Append(ins, n)) = Since(st[j], ins) \cup {n}
  <2>1. Since(f, ins) = Since(Top(s), ins)
    BY <1>2 DEF Since
  <2>2. f.base <= Len(ins)
    BY <1>2, <1>7
  <2> QED BY <1>6, <1>8, <1>9, <2>1, <2>2, SinceAppend
<1>11. \A x \in rows : n \notin x.refs \cup x.kids
  BY <1>4, <1>5, NamedRows
<1>12. /\ Inside(Top(s), ins, rows) /\ GotThere(Top(s), Seen(s, rows))
       /\ Outer(st, ins, rows, Seen(s, rows))
       /\ \A j \in 2 .. Len(st) : Under(Top(s), st[j], ins)
  BY <1>5, CallFrames DEF Superseded
<1>13. \A j \in 2 .. Len(st) : \A h \in st[j].got : h[2] # n
  <2> TAKE j \in 2 .. Len(st)
  <2>1. GotThere(st[j], Seen(s, rows))
    BY <1>12 DEF Outer
  <2> QED BY <1>4, <2>1 DEF GotThere, Seen
<1>14. Seen(s, rows) \subseteq Seen(s, rows)'
  BY <1>4 DEF Seen
<1>15. Inside(f, Append(ins, n), rows')
  <2>1. \A x \in rows' : x.sid = f.sid => x.obj = f.obj
    BY <1>2, <1>3, <1>4
  <2>2. \A x \in rows' : x.sid \notin Since(Top(s), ins) \cup {n} =>
          (x.refs \cup x.kids) \cap (Since(Top(s), ins) \cup {n}) = {}
    <3>1. \A x \in rows : x.sid \notin Since(Top(s), ins) => (x.refs \cup x.kids) \cap Since(Top(s), ins) = {}
      BY <1>5, <1>12 DEF Inside
    <3> QED BY <1>4, <1>11, <3>1
  <2>3. f.sid # 0
    BY <1>2, <1>3 DEF Sid
  <2> QED BY <1>2, <1>3, <1>10, <2>1, <2>2, <2>3 DEF Inside
<1>16. ASSUME NEW j \in 2 .. Len(st) PROVE Inside(st[j], Append(ins, n), rows')
  <2>0. Inside(st[j], ins, rows) /\ st[j].stage # "lookup" /\ Under(Top(s), st[j], ins)
    BY <1>9, <1>12 DEF Outer
  <2>1. ASSUME st[j].sid # 0
        PROVE  /\ st[j].sid \in Since(st[j], Append(ins, n))
               /\ \A x \in rows' : x.sid = st[j].sid => x.obj = st[j].obj
    <3>1. st[j].sid # n
      <4>1. \E x \in rows : x.sid = st[j].sid
        BY <1>8, <2>1 DEF Inv, StoreSound, FramesHaveRows
      <4> QED BY <1>4, <4>1
    <3> QED BY <1>4, <1>10, <2>0, <2>1, <3>1 DEF Inside
  <2>2. ASSUME st[j].sid = 0, NEW x \in rows', x.sid \in Since(st[j], Append(ins, n))
        PROVE  Depth[x.key.content] < DepthOf(st[j])
    <3>1. CASE x = r
      <4>1. x.key.content = Content[Top(s).obj]
        BY <1>4, <1>5, <3>1, KeyTyped
      <4> QED BY <2>0, <4>1 DEF Under, DepthOf
    <3>2. CASE x \in rows
      <4>1. x.sid \in Since(st[j], ins)
        <5>1. Since(st[j], Append(ins, n)) = Since(st[j], ins) \cup {n}
          BY <1>10
        <5>2. x.sid # n
          BY <1>4, <3>2
        <5> QED BY <2>2, <5>1, <5>2
      <4> QED BY <2>0, <2>2, <3>2, <4>1 DEF Inside
    <3> QED BY <1>4, <3>1, <3>2
  <2>3. \A x \in rows' : x.sid \notin Since(st[j], Append(ins, n)) =>
          (x.refs \cup x.kids) \cap Since(st[j], Append(ins, n)) = {}
    <3>1. \A x \in rows : x.sid \notin Since(st[j], ins) => (x.refs \cup x.kids) \cap Since(st[j], ins) = {}
      BY <2>0 DEF Inside
    <3>2. Since(st[j], Append(ins, n)) = Since(st[j], ins) \cup {n}
      BY <1>10
    <3> SUFFICES ASSUME NEW x \in rows', x.sid \notin Since(st[j], ins) \cup {n}
                 PROVE  (x.refs \cup x.kids) \cap (Since(st[j], ins) \cup {n}) = {}
      BY <3>2
    <3>3. x \in rows
      BY <1>4
    <3> HIDE DEF st, ins
    <3> QED BY <1>11, <3>1, <3>3
  <2> QED BY <2>1, <2>2, <2>3 DEF Inside
<1>17. Outer(st, Append(ins, n), rows', Seen(s, rows)')
  <2> SUFFICES ASSUME NEW j \in 2 .. Len(st)
               PROVE  /\ Inside(st[j], Append(ins, n), rows') /\ GotThere(st[j], Seen(s, rows)')
                      /\ \A i \in 2 .. Len(st) : i < j => Under(st[i], st[j], Append(ins, n))
    BY DEF Outer
  <2>1. GotThere(st[j], Seen(s, rows)')
    BY <1>12, <1>14 DEF Outer, GotThere
  <2>2. \A i \in 2 .. Len(st) : i < j => Under(st[i], st[j], Append(ins, n))
    BY <1>10, <1>12, <1>13 DEF Outer, Under
  <2> QED BY <1>16, <2>1, <2>2
<1>18. \A j \in 2 .. Len(st) : Under(f, st[j], Append(ins, n))
  BY <1>2, <1>5, <1>10, <1>12, <1>13 DEF Under, DepthOf
<1>19. GotThere(f, Seen(s, rows)')
  BY <1>2, <1>12, <1>14 DEF GotThere
<1>20. f.stage # "insert" /\ f.stage # "lookup"
  BY <1>2
<1> HIDE DEF st, ins
<1> QED BY <1>2, <1>4, <1>5, <1>6, <1>15, <1>17, <1>18, <1>19, <1>20, CallGoesOn DEF st

LEMMA ReturnWhole ==
  ASSUME Inv, NEW s \in Stores, CallWhole(s), stack[s] # <<>>, NEW n \in Sid, Return(s, n),
         \E x \in Seen(s, rows)' : x.sid = n /\ x.key.content = Content[Top(s).obj],
         Outer(stack[s], op[s].inserted, rows', Seen(s, rows)')
  PROVE  CallWhole(s)'
<1> DEFINE st == stack[s]
           ins == op[s].inserted
           callers == Tail(st)
           f == [Head(callers) EXCEPT !.got = @ \cup {<<Top(s).obj, n>>}]
<1>1. /\ st \in Seq(FrameType) /\ Top(s) = st[1] /\ Top(s) \in FrameType /\ Len(st) \in Nat
      /\ op[s] \in CallType /\ op[s] # None /\ TypeInv /\ Top(s).obj \in Objects
  <2>1. TypeInv
    BY DEF Inv
  <2>2. /\ st \in Seq(FrameType) /\ Top(s) = st[1] /\ Top(s) \in FrameType
        /\ op[s] \in CallType /\ op[s] # None
    BY <2>1, TopTyped
  <2>3. Top(s).obj \in Objects
    BY <2>2 DEF FrameType
  <2> QED BY <2>1, <2>2, <2>3
<1>2. /\ callers \in Seq(FrameType) /\ Len(callers) = Len(st) - 1
      /\ \A j \in 1 .. Len(st) - 1 : callers[j] = st[j + 1]
  BY <1>1
<1>3. op'[s].inserted = ins
  BY <1>1 DEF Return, TypeInv, SessionsTyped, CallType
<1>4. stack'[s] = IF callers = <<>> THEN <<>> ELSE GoOn(f) \o Tail(callers)
  BY <1>1 DEF Return, TypeInv, SessionsTyped
<1>5. CASE callers = <<>>
  BY <1>4, <1>5 DEF CallWhole
<1>6. CASE callers # <<>>
  <2>1. /\ Head(callers) = st[2] /\ st[2] \in FrameType /\ 2 \in 2 .. Len(st)
        /\ Len(callers) \in Nat \ {0}
    BY <1>1, <1>2, <1>6
  <2>2. /\ f \in FrameType /\ f.obj = st[2].obj /\ f.stage = st[2].stage /\ f.sid = st[2].sid
        /\ f.base = st[2].base /\ f.got = st[2].got \cup {<<Top(s).obj, n>>}
    <3>1. PICK g \in FrameType : g = st[2]
      BY <2>1
    <3>2. f = [g EXCEPT !.got = @ \cup {<<Top(s).obj, n>>}]
      BY <2>1, <3>1
    <3>3. g.got \cup {<<Top(s).obj, n>>} \in SUBSET (Objects \X Nat)
      BY <1>1 DEF FrameType, Sid
    <3> HIDE DEF f
    <3> QED BY <3>1, <3>2, <3>3 DEF FrameType
  <2> HIDE DEF f, callers
  <2>3. st[2].stage \in {"refs", "kids"}
    <3>1. Under(Top(s), st[2], ins)
      BY <2>1, <1>1, CallFrames
    <3> QED BY <3>1 DEF Under
  <2>4. Since(f, ins) = Since(st[2], ins)
    BY <2>2 DEF Since
  <2>5. Inside(f, ins, rows')
    <3>1. Inside(st[2], ins, rows')
      BY <2>1 DEF Outer
    <3> QED BY <2>2, <2>4, <3>1 DEF Inside, DepthOf
  <2>6. GotThere(f, Seen(s, rows)')
    <3>1. GotThere(st[2], Seen(s, rows)')
      BY <2>1 DEF Outer
    <3>2. ASSUME NEW g \in f.got
          PROVE  \E y \in Seen(s, rows)' : y.sid = g[2] /\ y.key.content = Content[g[1]]
      <4>1. CASE g \in st[2].got
        BY <3>1, <4>1 DEF GotThere
      <4>2. CASE g = <<Top(s).obj, n>>
        BY <4>2
      <4> QED BY <2>2, <4>1, <4>2
    <3> QED BY <3>2 DEF GotThere
  <2>7. \A j \in 2 .. Len(callers) : j + 1 \in 2 .. Len(st) /\ callers[j] = st[j + 1] /\ 2 < j + 1
    BY <1>1, <1>2
  <2>8. Outer(callers, ins, rows', Seen(s, rows)')
    <3> SUFFICES ASSUME NEW j \in 2 .. Len(callers)
                 PROVE  /\ Inside(callers[j], ins, rows') /\ GotThere(callers[j], Seen(s, rows)')
                        /\ \A i \in 2 .. Len(callers) : i < j => Under(callers[i], callers[j], ins)
      BY DEF Outer
    <3>1. Inside(callers[j], ins, rows') /\ GotThere(callers[j], Seen(s, rows)')
      BY <2>7 DEF Outer
    <3>2. ASSUME NEW i \in 2 .. Len(callers), i < j PROVE Under(callers[i], callers[j], ins)
      <4>1. i + 1 < j + 1
        BY <3>2, <2>1
      <4> QED BY <2>7, <4>1 DEF Outer
    <3> QED BY <3>1, <3>2
  <2>9. \A j \in 2 .. Len(callers) : Under(f, callers[j], ins)
    <3> TAKE j \in 2 .. Len(callers)
    <3>1. Under(st[2], st[j + 1], ins)
      BY <2>1, <2>7 DEF Outer
    <3> QED BY <2>2, <2>4, <2>7, <3>1 DEF Under, DepthOf
  <2>10. stack'[s] = GoOn(f) \o Tail(callers)
    BY <1>4, <1>6
  <2>11. f.stage # "insert" /\ f.stage # "lookup"
    BY <2>2, <2>3
  <2> HIDE DEF st, ins
  <2> QED BY <1>2, <1>3, <1>6, <2>2, <2>5, <2>6, <2>8, <2>9, <2>10, <2>11, CallGoesOn
<1> QED BY <1>5, <1>6

LEMMA HitWhole ==
  ASSUME Inv, NEW s \in Stores, CallWhole(s), NEW x \in rows, Hits(s, x), Return(s, x.sid)
  PROVE  CallWhole(s)'
<1>1. TypeInv /\ stack[s] # <<>> /\ x \in Seen(s, rows) /\ x.key = Key(s) /\ rows' = rows /\ x.sid \in Sid
  BY DEF Inv, Hits, CameBack
<1>2. x.key.content = Content[Top(s).obj]
  BY <1>1, KeyTyped
<1>3. Seen(s, rows)' = Seen(s, rows)
  BY <1>1 DEF Seen
<1>4. Outer(stack[s], op[s].inserted, rows', Seen(s, rows)')
  BY <1>1, <1>3, CallFrames
<1> QED BY <1>1, <1>2, <1>3, <1>4, ReturnWhole

LEMMA SinceNested ==
  ASSUME NEW f \in FrameType, NEW g \in FrameType, g.base <= f.base, NEW ins \in Seq(Sid)
  PROVE  Since(f, ins) \subseteq Since(g, ins)
<1>1. f.base \in Nat /\ g.base \in Nat /\ Len(ins) \in Nat
  BY DEF FrameType
<1>2. \A m \in (f.base + 1) .. Len(ins) : m \in (g.base + 1) .. Len(ins)
  BY <1>1
<1> QED BY <1>2 DEF Since

\* The row of the innermost frame gets its elements.
Finishes(s, x, y) ==
  /\ x \in rows /\ x.sid = Top(s).sid /\ x.by = s /\ x.key.content = Content[Top(s).obj]
  /\ rows' = (rows \ {x}) \cup {y}
  /\ y.sid = x.sid /\ y.key = x.key /\ y.obj = x.obj /\ y.refs = x.refs /\ y.by = x.by /\ y.torn = x.torn
  /\ y.kids = GotSids(s, Items[Top(s).obj])

LEMMA WriteKidsFinishes ==
  ASSUME Inv, NEW s \in Stores, WriteKids(s)
  PROVE  \E x, y : Finishes(s, x, y)
<1>1. TypeInv /\ SidsUnique /\ FramesHaveRows(s) /\ StackSound(s)
  BY DEF Inv, TablesSound, StoreSound
<1>2. stack[s] # <<>> /\ Top(s).stage = "kids"
  BY DEF WriteKids, Saving, Top
<1>3. Top(s) = stack[s][1] /\ 1 \in DOMAIN stack[s] /\ op[s] # None
  BY <1>1, <1>2, TopTyped
<1>4. Top(s).sid # 0
  BY <1>1, <1>2, <1>3 DEF StackSound, FramesSound
<1>5. PICK x \in RowType : x = Row(Top(s).sid)
  BY <1>1, <1>2, <1>4, RowOfFrame
<1>6. x \in rows /\ x.sid = Top(s).sid /\ x.by = s /\ x.key.content = Content[Top(s).obj]
  BY <1>1, <1>2, <1>4, <1>5, RowOfFrame
<1>7. PICK k : k = GotSids(s, Items[Top(s).obj])
  OBVIOUS
<1> DEFINE y == [x EXCEPT !.kids = k]
<1>8. rows' = (rows \ {x}) \cup {y}
  BY <1>5, <1>7 DEF WriteKids
<1>9. y.sid = x.sid /\ y.key = x.key /\ y.obj = x.obj /\ y.refs = x.refs /\ y.by = x.by /\ y.torn = x.torn
      /\ y.kids = k
  BY <1>5 DEF RowType
<1> HIDE DEF y
<1>10. Finishes(s, x, y)
  BY <1>6, <1>7, <1>8, <1>9 DEF Finishes
<1> QED BY <1>10

LEMMA WriteKidsWhole ==
  ASSUME Inv, NEW s \in Stores, CallWhole(s), WriteKids(s)
  PROVE  CallWhole(s)'
<1> DEFINE st == stack[s]
           ins == op[s].inserted
<1>1. TypeInv /\ st # <<>> /\ Return(s, Top(s).sid) /\ StackSound(s) /\ Top(s).stage = "kids"
  BY DEF Inv, StoreSound, WriteKids, Saving, Top
<1>2. /\ st \in Seq(FrameType) /\ Top(s) = st[1] /\ Top(s) \in FrameType /\ ins \in Seq(Sid)
      /\ 1 \in DOMAIN st /\ op[s] # None
  BY <1>1, TopTyped DEF CallType
<1>3. Top(s).sid # 0 /\ Top(s).sid \in Sid
  BY <1>1, <1>2 DEF StackSound, FramesSound, FrameType, Sid
<1>4. PICK x, y : Finishes(s, x, y)
  BY WriteKidsFinishes
<1>5. y \in Seen(s, rows)' /\ y.sid = Top(s).sid /\ y.key.content = Content[Top(s).obj]
  BY <1>4 DEF Finishes, Seen
<1>6. \A z \in Seen(s, rows) : \E w \in Seen(s, rows)' : w.sid = z.sid /\ w.key = z.key
  <2> TAKE z \in Seen(s, rows)
  <2>1. CASE z = x
    BY <1>4, <1>5, <2>1 DEF Finishes
  <2>2. CASE z # x
    BY <1>4, <2>2 DEF Finishes, Seen
  <2> QED BY <2>1, <2>2
<1>7. /\ Inside(Top(s), ins, rows) /\ Outer(st, ins, rows, Seen(s, rows))
  BY <1>1, CallFrames
<1>8. Outer(st, ins, rows', Seen(s, rows)')
  <2> SUFFICES ASSUME NEW j \in 2 .. Len(st)
               PROVE  Inside(st[j], ins, rows') /\ GotThere(st[j], Seen(s, rows)')
    BY <1>7 DEF Outer
  <2>1. Inside(st[j], ins, rows) /\ GotThere(st[j], Seen(s, rows))
    BY <1>7 DEF Outer
  <2>2. GotThere(st[j], Seen(s, rows)')
    BY <1>6, <2>1, GotMore
  <2>3. st[j] \in FrameType /\ st[j].base <= Top(s).base
    BY <1>1, <1>2 DEF StackSound, FramesSound
  <2>4. y.sid \in Since(st[j], ins)
    <3>1. Top(s).sid \in Since(Top(s), ins)
      BY <1>3, <1>7 DEF Inside
    <3> QED BY <1>2, <1>5, <2>3, <3>1, SinceNested
  <2>5. \A z \in rows' : z.sid \notin Since(st[j], ins) => z \in rows
    BY <1>4, <2>4 DEF Finishes
  <2>6. \A z \in rows' : \E w \in rows : w.sid = z.sid /\ w.obj = z.obj /\ w.key = z.key
    BY <1>4 DEF Finishes
  <2>7. Inside(st[j], ins, rows')
    BY <2>1, <2>5, <2>6 DEF Inside
  <2> QED BY <2>2, <2>7
<1> HIDE DEF st, ins
<1> QED BY <1>1, <1>3, <1>5, <1>8, ReturnWhole DEF st, ins

LEMMA DiscardWhole ==
  ASSUME Inv, NEW s \in Stores, CallWhole(s), Discard(s)
  PROVE  CallWhole(s)'
<1> DEFINE st == stack[s]
           ins == op[s].inserted
           less == SubSeq(ins, 1, Top(s).base)
           gone == Since(Top(s), ins)
<1>1. /\ TypeInv /\ st # <<>> /\ StackSound(s) /\ Top(s).stage \in {"refs", "insert"} /\ Inserting(s)
      /\ Matches(s) # {} /\ SidsUnique
  BY DEF Inv, TablesSound, StoreSound, Discard, Inserting, Saving, Top
<1>2. /\ st \in Seq(FrameType) /\ Top(s) = st[1] /\ Top(s) \in FrameType /\ op[s] \in CallType /\ ins \in Seq(Sid)
      /\ 1 \in DOMAIN st /\ op[s] # None
  BY <1>1, TopTyped DEF CallType
<1>3. Top(s).sid = 0 /\ Top(s).base \in Nat /\ Top(s).base <= Len(ins)
  BY <1>1, <1>2 DEF StackSound, FramesSound, FrameType
<1>4. less \in Seq(Sid) /\ Len(less) = Top(s).base /\ \A m \in 1 .. Top(s).base : less[m] = ins[m]
  BY <1>2, <1>3
<1>5. /\ rows' = {x \in rows : x.sid \notin gone} /\ stack' = stack
      /\ op'[s].inserted = less
  <2>1. gone = InsertedSince(s)
    BY DEF Since, InsertedSince
  <2>2. TakesBack(s)
    BY <1>1, DiscardEffect
  <2>3. op'[s].inserted = less
    BY <1>2, <2>2 DEF TakesBack, CallType
  <2> HIDE DEF gone, less
  <2> QED BY <2>1, <2>2, <2>3 DEF TakesBack
<1>6. /\ Inside(Top(s), ins, rows) /\ Outer(st, ins, rows, Seen(s, rows)) /\ Ready(Top(s))
      /\ \A j \in 2 .. Len(st) : Under(Top(s), st[j], ins)
  BY <1>1, CallFrames
<1>7. PICK x \in Matches(s) : TRUE
  BY <1>1
<1>8. x \in rows' /\ x \in Seen(s, rows)
  <2>1. x \in Seen(s, rows) /\ x.key = Key(s) /\ x \in rows
    BY DEF Matches, WithKey, Seen
  <2>2. x.key.content = Content[Top(s).obj] /\ Depth[Content[Top(s).obj]] \in Nat
    <3>1. Top(s).obj \in Objects
      BY <1>2 DEF FrameType
    <3> QED BY <1>1, <2>1, <3>1, KeyTyped, DepthTyped
  <2>3. x.sid \notin gone
    BY <1>1, <1>3, <1>6, <2>1, <2>2 DEF Inside, DepthOf
  <2> QED BY <1>5, <2>1, <2>3
<1>9. Superseded(s)'
  <2>1. Key(s)' = Key(s) /\ Con(s)' = Con(s) /\ Top(s)' = Top(s)
    <3>1. op'[s].of = op[s].of /\ op'[s].kind = op[s].kind
      BY <1>2 DEF Discard, TypeInv, SessionsTyped, CallType
    <3> QED BY <1>5, <3>1 DEF Key, IsRoot, Con, Top
  <2>2. Inserting(s)'
    BY <1>1, <1>5, <2>1 DEF Inserting, Saving, IsEntry, Con, Top
  <2>3. x \in Seen(s, rows)'
    BY <1>8 DEF Seen
  <2>4. x \in Matches(s)'
    <3>1. \A objs : GotSids(s, objs)' = GotSids(s, objs)
      BY <2>1 DEF GotSids
    <3>2. Matches(s) = {y \in WithKey(Seen(s, rows), Key(s)) :
                          \/ Policy[Con(s)] = "content_id"
                          \/ Policy[Con(s)] = "by_value" /\ y.refs = GotSids(s, Refs[Top(s).obj])}
      BY DEF Matches
    <3>3. Matches(s)' = {y \in WithKey(Seen(s, rows)', Key(s)) :
                          \/ Policy[Con(s)] = "content_id"
                          \/ Policy[Con(s)] = "by_value" /\ y.refs = GotSids(s, Refs[Top(s).obj])}
      BY <2>1, <3>1 DEF Matches, WithKey
    <3> QED BY <2>3, <3>2, <3>3 DEF WithKey
  <2> QED BY <2>2, <2>4 DEF Superseded
<1>10. Since(st[1], less) = {}
  BY <1>2, <1>3, <1>4 DEF Since
<1>11. ASSUME NEW j \in 2 .. Len(st)
       PROVE  /\ Since(st[j], less) \subseteq Since(st[j], ins)
              /\ Since(st[j], ins) \subseteq Since(st[j], less) \cup gone
              /\ st[j].stage # "lookup" /\ st[j].base <= Top(s).base /\ st[j] \in FrameType /\ j \in DOMAIN st
  <2>1. st[j].stage # "lookup" /\ st[j].base <= Top(s).base /\ st[j] \in FrameType /\ j \in DOMAIN st /\ 1 < j
    BY <1>1, <1>2 DEF StackSound, FramesSound
  <2>2. st[j].base \in Nat
    BY <2>1 DEF FrameType
  <2>0. Len(ins) \in Nat
    BY <1>2
  <2> HIDE DEF less, ins, st
  <2>3. \A m \in (st[j].base + 1) .. Len(less) : m \in (st[j].base + 1) .. Len(ins) /\ less[m] = ins[m]
    BY <1>3, <1>4, <2>0, <2>2
  <2>4. \A m \in (st[j].base + 1) .. Len(ins) :
          \/ m \in (st[j].base + 1) .. Len(less) /\ less[m] = ins[m]
          \/ m \in (Top(s).base + 1) .. Len(ins)
    BY <1>3, <1>4, <2>0, <2>2
  <2> QED BY <2>1, <2>3, <2>4 DEF Since
<1>12. ASSUME NEW j \in 2 .. Len(st) PROVE Inside(st[j], less, rows')
  <2>0. Inside(st[j], ins, rows)
    BY <1>6 DEF Outer
  <2>1. ASSUME st[j].sid # 0 PROVE st[j].sid \in Since(st[j], less)
    <3>1. PICK m \in 1 .. Top(s).base : ins[m] = st[j].sid
      BY <1>1, <1>2, <1>11, <2>1 DEF StackSound, FramesSound
    <3>2. PICK k \in (st[j].base + 1) .. Len(ins) : ins[k] = st[j].sid
      BY <2>0, <2>1 DEF Inside, Since
    <3>3. st[j].base \in Nat
      BY <1>11 DEF FrameType
    <3>4. m \in DOMAIN ins /\ k \in DOMAIN ins
      BY SMTT(20), <1>2, <1>3, <3>3
    <3>5. m = k
      BY <1>1, <1>2, <3>1, <3>2, <3>4 DEF StackSound, NoneTwice
    <3>6. m \in (st[j].base + 1) .. Len(less) /\ less[m] = st[j].sid
      BY <1>3, <1>4, <3>1, <3>2, <3>3, <3>5
    <3> HIDE DEF less, ins, st
    <3> QED BY <3>6 DEF Since
  <2>2. ASSUME NEW z \in rows', z.sid \notin Since(st[j], less)
        PROVE  (z.refs \cup z.kids) \cap Since(st[j], less) = {}
    <3>1. z \in rows /\ z.sid \notin gone
      BY <1>5
    <3>2. z.sid \notin Since(st[j], ins)
      BY <1>11, <2>2, <3>1
    <3> HIDE DEF less, gone
    <3>3. (z.refs \cup z.kids) \cap Since(st[j], ins) = {}
      BY <1>11, <2>0, <3>1, <3>2 DEF Inside
    <3> QED BY <1>11, <3>3
  <2>3. rows' \subseteq rows
    BY <1>5
  <2> HIDE DEF less, ins, st, gone
  <2> QED BY <1>11, <2>0, <2>1, <2>2, <2>3 DEF Inside
<1>13. ASSUME NEW j \in 2 .. Len(st) PROVE GotThere(st[j], Seen(s, rows)')
  <2>1. \A h \in st[j].got : h[2] \notin gone
    BY <1>1, <1>6 DEF Under
  <2>2. GotThere(st[j], Seen(s, rows))
    BY <1>6 DEF Outer
  <2>3. \A z \in Seen(s, rows) : z.sid \notin gone => z \in Seen(s, rows)'
    BY <1>5 DEF Seen
  <2> HIDE DEF gone, st
  <2> QED BY <2>1, <2>2, <2>3 DEF GotThere
<1>14. Inside(st[1], less, rows')
  BY <1>2, <1>3, <1>10 DEF Inside
<1>15. \A i \in DOMAIN st : i = 1 \/ i \in 2 .. Len(st)
  BY <1>2
<1>16. FramesWhole(st, less, rows')
  <2>1. \A i \in DOMAIN st : Inside(st[i], less, rows')
    BY <1>12, <1>14, <1>15
  <2>2. ASSUME NEW i \in DOMAIN st, NEW j \in DOMAIN st, i < j PROVE Under(st[i], st[j], less)
    <3>1. j \in 2 .. Len(st)
      BY <1>2, <1>15, <2>2
    <3>2. Under(st[i], st[j], ins)
      BY <1>2, <1>6, <1>15, <2>2, <3>1 DEF Outer
    <3>3. Since(st[i], less) \subseteq Since(st[i], ins)
      BY <1>10, <1>11, <1>15
    <3> QED BY <3>2, <3>3 DEF Under
  <2> QED BY <2>1, <2>2 DEF FramesWhole
<1>17. FramesGot(s)'
  <2>1. \A i \in DOMAIN st : GotThere(st[i], Seen(s, rows)') \/ i = 1
    BY <1>13, <1>15
  <2> QED BY <1>5, <1>9, <2>1 DEF FramesGot, GotThere
<1> QED BY <1>2, <1>5, <1>6, <1>16, <1>17 DEF CallWhole

-----------------------------------------------------------------------------
(* The rows stay whole.                                                    *)

LEMMA PartsCarried ==
  ASSUME NEW T, NEW T2, NEW sids, NEW objs, AreRowsOf(T, sids, objs),
         \A w \in T : w.sid \in sids => \E v \in T2 : v.sid = w.sid /\ v.key = w.key
  PROVE  AreRowsOf(T2, sids, objs)
  BY DEF AreRowsOf

LEMMA RowCarried ==
  ASSUME NEW x \in rows, RowWhole(x), NEW y, y.key = x.key, y.obj = x.obj, y.refs = x.refs, y.kids = x.kids,
         y.torn = x.torn, Unfinished(y)' <=> Unfinished(x),
         \A w \in With(x) : w.sid \in x.refs \cup x.kids => \E v \in With(y)' : v.sid = w.sid /\ v.key = w.key
  PROVE  RowWhole(y)'
<1>1. AreRowsOf(With(y)', y.refs, Refs[y.obj])
  BY PartsCarried DEF RowWhole
<1>2. ~(x.torn \/ Unfinished(x)) => AreRowsOf(With(y)', y.kids, Items[y.obj])
  BY PartsCarried DEF RowWhole
<1> QED BY <1>1, <1>2 DEF RowWhole, AreRowsOf

FrameSids(st) == {st[i].sid : i \in DOMAIN st} \ {0}

OuterSids(st) == {st[j].sid : j \in 2 .. Len(st)} \ {0}

LEMMA UnfinishedSids ==
  ASSUME TypeInv, NEW x \in rows
  PROVE  Unfinished(x) <=> x.by \in Stores /\ x.sid \in FrameSids(stack[x.by])
<1>1. x.sid # 0
  BY NamesTyped
<1> QED BY <1>1 DEF Unfinished, FrameSids

LEMMA SidsGoOn ==
  ASSUME NEW n, NEW st \in Seq(FrameType), st # <<>>, NEW f \in FrameType, GoesOn(n, st, f)
  PROVE  FrameSids(n) = ({f.sid} \cup OuterSids(st)) \ {0}
<1>0. /\ n \in Seq(FrameType) /\ DOMAIN n = 1 .. Len(n) /\ Len(n) \in Nat /\ Len(st) \in Nat \ {0}
  BY DEF GoesOn
<1>1. \A i \in DOMAIN n : n[i].sid = 0 \/ n[i] = f \/ \E j \in 2 .. Len(st) : n[i] = st[j]
  BY GoesOnFrames
<1>2. \E i \in DOMAIN n : n[i] = f
  <2>1. CASE Len(n) = Len(st) /\ n[1] = f
    <3>1. 1 \in 1 .. Len(n)
      BY <1>0, <2>1
    <3> QED BY <1>0, <2>1, <3>1
  <2>2. CASE Len(n) = Len(st) + 1 /\ n[2] = f
    <3>1. 2 \in 1 .. Len(n)
      BY <1>0, <2>2
    <3> QED BY <1>0, <2>2, <3>1
  <2> QED BY <2>1, <2>2 DEF GoesOn
<1>3. \A j \in 2 .. Len(st) : \E i \in DOMAIN n : n[i] = st[j]
  <2> TAKE j \in 2 .. Len(st)
  <2>1. CASE Len(n) = Len(st) /\ \A i \in 2 .. Len(st) : n[i] = st[i]
    BY <1>0, <2>1
  <2>2. CASE Len(n) = Len(st) + 1 /\ \A i \in 2 .. Len(st) : n[i + 1] = st[i]
    <3>1. j + 1 \in 1 .. Len(n)
      BY <1>0, <2>2
    <3> QED BY <1>0, <2>2, <3>1
  <2> QED BY <2>1, <2>2 DEF GoesOn
<1> QED BY <1>1, <1>2, <1>3 DEF FrameSids, OuterSids

LEMMA SidsOfFrames ==
  ASSUME NEW st \in Seq(FrameType), st # <<>>
  PROVE  FrameSids(st) = ({st[1].sid} \cup OuterSids(st)) \ {0}
<1>1. DOMAIN st = 1 .. Len(st) /\ Len(st) \in Nat \ {0}
  OBVIOUS
<1>2. \A i \in DOMAIN st : i = 1 \/ i \in 2 .. Len(st)
  BY <1>1
<1>3. 1 \in DOMAIN st /\ \A j \in 2 .. Len(st) : j \in DOMAIN st
  BY <1>1
<1> QED BY <1>2, <1>3 DEF FrameSids, OuterSids

LEMMA SidsReturn ==
  ASSUME TypeInv, NEW s \in Stores, stack[s] # <<>>, NEW n, ReturnsTo(s, n)
  PROVE  FrameSids(stack'[s]) = OuterSids(stack[s])
<1> DEFINE st == stack[s]
           callers == Tail(st)
<1>1. st \in Seq(FrameType)
  BY TopTyped
<1>2. /\ callers \in Seq(FrameType) /\ Len(callers) = Len(st) - 1 /\ Len(st) \in Nat \ {0}
      /\ \A j \in 1 .. Len(st) - 1 : callers[j] = st[j + 1]
  BY <1>1
<1>3. FrameSids(callers) = OuterSids(st)
  <2>1. \A j \in DOMAIN callers : j + 1 \in 2 .. Len(st) /\ callers[j] = st[j + 1]
    BY <1>2
  <2>2. \A j \in 2 .. Len(st) : j - 1 \in DOMAIN callers /\ callers[j - 1] = st[j]
    BY <1>2
  <2> HIDE DEF callers, st
  <2> QED BY <2>1, <2>2 DEF FrameSids, OuterSids
<1>4. CASE callers = <<>> /\ stack'[s] = <<>>
  BY <1>3, <1>4 DEF FrameSids
<1>5. ASSUME callers # <<>>, NEW f \in FrameType, GoesOn(stack'[s], callers, f), f.sid = st[2].sid
      PROVE  FrameSids(stack'[s]) = OuterSids(st)
  <2>1. callers[1] = st[2]
    BY <1>2, <1>5
  <2>2. PICK q \in Seq(FrameType) : q = callers
    BY <1>2
  <2> HIDE DEF callers
  <2>3. q # <<>> /\ GoesOn(stack'[s], q, f) /\ f.sid = q[1].sid
    BY <1>5, <2>1, <2>2
  <2>4. FrameSids(stack'[s]) = ({f.sid} \cup OuterSids(q)) \ {0}
    BY <2>3, SidsGoOn
  <2>5. FrameSids(q) = ({q[1].sid} \cup OuterSids(q)) \ {0}
    BY <2>3, SidsOfFrames
  <2> QED BY <1>3, <2>2, <2>3, <2>4, <2>5
<1>6. \/ callers = <<>> /\ stack'[s] = <<>>
      \/ callers # <<>> /\ \E f \in FrameType : GoesOn(stack'[s], callers, f) /\ f.sid = st[2].sid
  BY DEF ReturnsTo
<1> HIDE DEF callers, st
<1> QED BY <1>4, <1>5, <1>6 DEF st

\* The rows keep what they are made of, and whether they are finished.
LEMMA RowsKeptWhole ==
  ASSUME TypeInv, RowsWhole, TypeInv', NEW s \in Stores, OthersKept(s),
         \A y \in rows' : \E x \in rows : Parts(x, y) /\ y.torn = x.torn /\ y.by = x.by,
         \A x \in rows : \E y \in rows' : y.sid = x.sid /\ y.key = x.key /\ y.by = x.by,
         \A x \in rows : x.by = s => (x.sid \in FrameSids(stack'[s]) <=> x.sid \in FrameSids(stack[s]))
  PROVE  RowsWhole'
<1> SUFFICES ASSUME NEW y \in rows' PROVE RowWhole(y)'
  BY DEF RowsWhole
<1>1. PICK x \in rows : Parts(x, y) /\ y.torn = x.torn /\ y.by = x.by
  OBVIOUS
<1>2. Unfinished(y)' <=> y.by \in Stores /\ y.sid \in FrameSids(stack'[y.by])
  <2>1. y.sid # 0
    BY DEF TypeInv, TablesTyped, RowType, Sid
  <2> QED BY <2>1 DEF Unfinished, FrameSids
<1>3. x.by \in Stores /\ x.by # s => stack'[x.by] = stack[x.by]
  BY DEF OthersKept
<1>4. Unfinished(y)' <=> Unfinished(x)
  BY <1>1, <1>2, <1>3, UnfinishedSids DEF Parts
<1>5. \A w \in With(x) : \E v \in With(y)' : v.sid = w.sid /\ v.key = w.key
  BY <1>1 DEF With
<1>6. RowWhole(x)
  BY DEF RowsWhole
<1> QED BY <1>1, <1>4, <1>5, <1>6, RowCarried DEF Parts

-----------------------------------------------------------------------------
(* Every step is one of these.                                             *)

\* The frame has not found its content, or has what its row is to name.
Looks(s) ==
  /\ Moves(s) /\ Saving(s, "lookup")
  /\ stack' = [stack EXCEPT ![s] =
       GoOn([Top(s) EXCEPT !.stage = "refs", !.base = Len(op[s].inserted)]) \o Tail(@)]

Prepares(s) ==
  /\ Moves(s) /\ Saving(s, "refs") /\ IsEntry(s)
  /\ Stay(s, [Top(s) EXCEPT !.stage = "insert"])

\* The row keeps its parts as it gets its ids.
TakesIds(s) ==
  /\ Claims(s)
  /\ \A y \in rows' : \E x \in rows : Parts(x, y) /\ y.torn = x.torn /\ y.by = x.by
  /\ \A x \in rows : \E y \in rows' : Parts(x, y) /\ y.torn = x.torn /\ y.by = x.by
  /\ stack' = [stack EXCEPT ![s] = GoOn([Top(s) EXCEPT !.stage = "kids"]) \o Tail(@)]

Finds(s) == \E x \in rows : Hits(s, x) /\ Return(s, x.sid) /\ Top(s).stage \in {"lookup", "refs", "insert"}

WholeEffect(s) ==
  \/ Undone(s) \/ CaughtIn(s) \/ Commits(s) \/ Enters(s) \/ Dispatches(s) \/ Reads(s)
  \/ Looks(s) \/ Prepares(s) \/ TakesIds(s) \/ Finds(s)
  \/ (Adds(s) /\ Insert(s)) \/ (TakesBack(s) /\ Discard(s)) \/ (WritesKids(s) /\ WriteKids(s))
  \/ (Sweeps(s) /\ Fsck(s))

LEMMA HitFinds ==
  ASSUME TypeInv, NEW s \in Stores, stack[s] # <<>>, Top(s).stage \in {"lookup", "refs", "insert"},
         NEW x \in Seen(s, rows), x.key = Key(s), Hit(s, x)
  PROVE  Undone(s) \/ CaughtIn(s) \/ Finds(s)
<1>1. CASE Collides(s, x) \/ Differs(s, x)
  <2>1. Raise(s)
    BY <1>1 DEF Hit
  <2> QED BY <2>1, RaiseEffect
<1>2. CASE ~(Collides(s, x) \/ Differs(s, x))
  <2>1. Return(s, x.sid) /\ x \in rows
    BY <1>2 DEF Hit, Seen
  <2>2. Hits(s, x) \/ Undone(s) \/ CaughtIn(s)
    BY HitEffect
  <2> QED BY <2>1, <2>2 DEF Finds
<1> QED BY <1>1, <1>2

LEMMA ClaimTakesIds ==
  ASSUME Inv, OwnedInv, NEW s \in Stores, Claim(s)
  PROVE  TakesIds(s) \/ Undone(s)
<1> DEFINE x == Row(Top(s).sid)
           y == [x EXCEPT !.id = FinalId(s, x), !.imm = ImmutableId(s, x)]
<1>0. TypeInv /\ SidsUnique /\ StackSound(s) /\ FramesHaveRows(s)
  BY DEF Inv, TablesSound, StoreSound
<1>1. Claims(s) \/ Undone(s)
  BY <1>0, ClaimEffect
<1>2. CASE RaiseConflict(s)
  BY <1>0, <1>2, ConflictUndoes
<1>3. CASE Claims(s) /\ ~RaiseConflict(s)
  <2>1. /\ rows' = (rows \ {x}) \cup {y}
        /\ stack' = [stack EXCEPT ![s] = GoOn([Top(s) EXCEPT !.stage = "kids"]) \o Tail(@)]
    BY <1>3 DEF Claim
  <2>2. x \in rows /\ x \in RowType
    BY ClaimingRow DEF Claim
  <2>3. Parts(x, y) /\ y.torn = x.torn /\ y.by = x.by
    <3>1. PICK z \in RowType : z = x
      BY <2>2
    <3>2. y = [z EXCEPT !.id = FinalId(s, x), !.imm = ImmutableId(s, x)]
      BY <3>1
    <3> HIDE DEF x, y
    <3> QED BY <3>1, <3>2 DEF Parts, RowType
  <2> HIDE DEF x, y
  <2>4. \A z : Parts(z, z)
    BY DEF Parts
  <2>5. \A w \in rows' : \E z \in rows : Parts(z, w) /\ w.torn = z.torn /\ w.by = z.by
    BY <2>1, <2>2, <2>3, <2>4
  <2>6. \A z \in rows : \E w \in rows' : Parts(z, w) /\ w.torn = z.torn /\ w.by = z.by
    BY <2>1, <2>2, <2>3, <2>4
  <2> QED BY <1>3, <2>1, <2>5, <2>6 DEF TakesIds
<1> QED BY <1>1, <1>2, <1>3

LEMMA StepIsWhole ==
  ASSUME Inv, OwnedInv, ~FsckOnline, NEW s \in Stores, Step(s)
  PROVE  WholeEffect(s)
<1> USE DEF WholeEffect
<1>0. TypeInv /\ SidsUnique /\ StackSound(s) /\ FramesHaveRows(s) /\ CacheSound(s)
  BY DEF Inv, TablesSound, StoreSound
<1>1. CASE Commit(s)
  BY <1>0, <1>1, CommitEffect
<1>2. CASE Abort(s)
  BY <1>0, <1>2, AbortUndoes
<1>3. CASE Reopen(s)
  BY <1>0, <1>3, ReopenUndoes
<1>4. CASE \E q \in Requests : StartSave(s, q) \/ StartAlternative(s, q) \/ StartReplace(s, q)
  BY <1>0, <1>4, StartEffect
<1>5. CASE Lookup(s)
  <2> DEFINE found == IF Policy[Con(s)] = "content_id" THEN WithKey(Seen(s, rows), Key(s)) ELSE {}
  <2>1. stack[s] # <<>> /\ Top(s).stage = "lookup" /\ Saving(s, "lookup")
    BY <1>5 DEF Lookup, Saving, Top
  <2>2. ASSUME NEW x \in found, Hit(s, x) PROVE Undone(s) \/ CaughtIn(s) \/ Finds(s)
    <3>1. x \in Seen(s, rows) /\ x.key = Key(s)
      BY DEF WithKey
    <3> HIDE DEF found
    <3> QED BY <1>0, <2>1, <2>2, <3>1, HitFinds
  <2>3. CASE /\ stack' = [stack EXCEPT ![s] =
                  GoOn([Top(s) EXCEPT !.stage = "refs", !.base = Len(op[s].inserted)]) \o Tail(@)]
             /\ UNCHANGED <<engine, db, tx, op, stamp, memory, calls, returned>>
    BY <1>0, <2>1, <2>3, LookupMoves DEF Looks
  <2> QED BY <1>5, <2>2, <2>3 DEF Lookup
<1>6. CASE Prepare(s)
  <2>1. Moves(s) \/ Undone(s)
    BY <1>0, <1>6, PrepareEffect
  <2>2. RaiseConflict(s) => Undone(s)
    BY <1>0, ConflictUndoes
  <2> QED BY <1>6, <2>1, <2>2 DEF Prepare, Prepares
<1>7. CASE Discard(s)
  BY <1>0, <1>7, DiscardEffect
<1>8. CASE HitLate(s)
  <2>1. PICK x \in Matches(s) : Hit(s, x)
    BY <1>8 DEF HitLate
  <2>2. x \in Seen(s, rows) /\ x.key = Key(s)
    BY <2>1 DEF Matches, WithKey
  <2>3. stack[s] # <<>> /\ Top(s).stage \in {"lookup", "refs", "insert"}
    BY <1>8 DEF HitLate, Inserting, Saving, Top
  <2> QED BY <1>0, <2>1, <2>2, <2>3, HitFinds
<1>9. CASE Insert(s)
  BY <1>0, <1>9, InsertEffect
<1>10. CASE Claim(s)
  BY <1>10, ClaimTakesIds
<1>11. CASE WriteKids(s)
  BY <1>0, <1>11, WriteKidsEffect
<1>12. CASE WriteDispatch(s)
  BY <1>0, <1>12, WriteDispatchEffect
<1>13. CASE GiveUp(s)
  BY <1>0, <1>13, GiveUpUndoes
<1>14. CASE Fetch(s)
  BY <1>0, <1>14, FetchEffect
<1>15. CASE Fsck(s)
  BY <1>0, <1>15, FsckEffect
<1> QED
  BY <1>1, <1>2, <1>3, <1>4, <1>5, <1>6, <1>7, <1>8, <1>9, <1>10, <1>11, <1>12, <1>13, <1>14, <1>15
     DEF Step, SaveStep

\* The call of the store that takes the step.
LEMMA OwnWhole ==
  ASSUME Inv, RowsWhole, NEW s \in Stores, CallWhole(s), WholeEffect(s)
  PROVE  CallWhole(s)'
<1>0. TypeInv
  BY DEF Inv
<1>1. ASSUME stack'[s] = <<>> PROVE CallWhole(s)'
  BY <1>1 DEF CallWhole
<1>2. op[s] = None => stack[s] = <<>>
  BY <1>0 DEF TypeInv, Active
<1>3. CASE Undone(s) \/ CaughtIn(s) \/ Commits(s) \/ Dispatches(s) \/ Reads(s)
  <2>1. CASE Undone(s) \/ CaughtIn(s) \/ Commits(s)
    BY <1>1, <2>1 DEF Undone, CaughtIn, Commits
  <2>2. CASE Dispatches(s)
    BY <1>1, <2>2 DEF Dispatches
  <2>3. CASE Reads(s)
    BY <1>1, <1>2, <2>3 DEF Reads, session
  <2> QED BY <1>3, <2>1, <2>2, <2>3
<1>4. CASE Sweeps(s)
  <2>1. stack' = stack /\ op[s] = None
    BY <1>0, <1>4 DEF Sweeps, session, TypeInv, Active
  <2> QED BY <1>1, <1>2, <2>1
<1>5. CASE Enters(s)
  <2>1. PICK f : f = Frame(op'[s].obj)
    OBVIOUS
  <2>2. stack'[s] = <<f>> /\ DOMAIN stack'[s] = {1} /\ stack'[s][1] = f
    BY <1>5, <2>1 DEF Enters
  <2>3. f.stage = "lookup" /\ f.sid = 0 /\ f.got = {}
    BY <2>1 DEF Frame
  <2>4. FramesWhole(stack'[s], op'[s].inserted, rows')
    BY <2>2, <2>3 DEF FramesWhole, Inside
  <2>5. Ready(stack'[s][1])
    BY <2>2, <2>3 DEF Ready
  <2>6. FramesGot(s)'
    BY <2>2, <2>3 DEF FramesGot, GotThere
  <2> QED BY <2>4, <2>5, <2>6 DEF CallWhole
<1>6. CASE Looks(s)
  BY <1>6, LookupWhole DEF Looks, Moves, db
<1>7. CASE Prepares(s)
  BY <1>7, PrepareWhole DEF Prepares, Moves, db
<1>8. CASE TakesIds(s)
  <2>1. Saving(s, "claim")
    BY <1>8 DEF TakesIds, Claims, Saving, Top
  <2> QED BY <1>8, <2>1, ClaimWhole DEF TakesIds, Claims
<1>9. CASE Finds(s)
  BY <1>9, HitWhole DEF Finds
<1>10. CASE Insert(s)
  BY <1>10, InsertWhole
<1>11. CASE Discard(s)
  BY <1>11, DiscardWhole
<1>12. CASE WriteKids(s)
  BY <1>12, WriteKidsWhole
<1> QED BY <1>3, <1>4, <1>5, <1>6, <1>7, <1>8, <1>9, <1>10, <1>11, <1>12 DEF WholeEffect

-----------------------------------------------------------------------------
(* The rows stay whole under every step.                                   *)

LEMMA KeptRowsWhole ==
  ASSUME Inv, RowsWhole, TypeInv', NEW s \in Stores,
         Enters(s) \/ Dispatches(s) \/ Reads(s) \/ Looks(s) \/ Prepares(s) \/ TakesIds(s) \/ Finds(s)
  PROVE  RowsWhole'
<1>0. TypeInv /\ StackSound(s)
  BY DEF Inv, StoreSound
<1>1. OthersKept(s)
  BY DEF Enters, Dispatches, Reads, Looks, Prepares, Moves, TakesIds, Claims, Finds, Hits, CameBack
<1>2. /\ \A y \in rows' : \E x \in rows : Parts(x, y) /\ y.torn = x.torn /\ y.by = x.by
      /\ \A x \in rows : \E y \in rows' : Parts(x, y) /\ y.torn = x.torn /\ y.by = x.by
  <2>1. CASE TakesIds(s)
    BY <2>1 DEF TakesIds
  <2>2. CASE rows' = rows
    BY <2>2 DEF Parts
  <2> QED BY <2>1, <2>2 DEF Enters, Dispatches, Reads, Looks, Prepares, Moves, Finds, Hits, db
<1>3. \A x \in rows : \E y \in rows' : y.sid = x.sid /\ y.key = x.key /\ y.by = x.by
  BY <1>2 DEF Parts
<1>4. FrameSids(stack'[s]) = FrameSids(stack[s])
  <2>1. CASE Enters(s)
    <3>1. stack[s] = <<>>
      BY <1>0, <2>1 DEF Enters, TypeInv, Active
    <3>2. PICK f : f = Frame(op'[s].obj)
      OBVIOUS
    <3>3. stack'[s] = <<f>> /\ f.sid = 0
      BY <2>1, <3>2 DEF Enters, Frame
    <3>4. DOMAIN stack'[s] = {1} /\ stack'[s][1] = f
      BY <3>3
    <3>5. FrameSids(stack[s]) = {}
      BY <3>1 DEF FrameSids
    <3>6. \A i \in DOMAIN stack'[s] : stack'[s][i].sid = 0
      BY <3>3, <3>4
    <3>7. FrameSids(stack'[s]) = {}
      BY <3>6 DEF FrameSids
    <3> QED BY <3>5, <3>7
  <2>2. CASE Dispatches(s) \/ Reads(s)
    BY <2>2 DEF Dispatches, Reads, session
  <2>3. CASE Looks(s) \/ Prepares(s) \/ TakesIds(s)
    <3>1. stack[s] # <<>> /\ \E f \in FrameType : GoesOn(stack'[s], stack[s], f) /\ f.sid = Top(s).sid
      BY <2>3 DEF Looks, Prepares, TakesIds, Moves, Claims
    <3>2. stack[s] \in Seq(FrameType) /\ Top(s) = stack[s][1]
      BY <1>0, <3>1, TopTyped
    <3>3. PICK f \in FrameType : GoesOn(stack'[s], stack[s], f) /\ f.sid = Top(s).sid
      BY <3>1
    <3>4. FrameSids(stack'[s]) = ({f.sid} \cup OuterSids(stack[s])) \ {0}
      BY <3>1, <3>2, <3>3, SidsGoOn
    <3>5. FrameSids(stack[s]) = ({stack[s][1].sid} \cup OuterSids(stack[s])) \ {0}
      BY <3>1, <3>2, SidsOfFrames
    <3> QED BY <3>2, <3>3, <3>4, <3>5
  <2>4. CASE Finds(s)
    <3>1. PICK x \in rows : CameBack(s, x.sid) /\ Top(s).stage \in {"lookup", "refs", "insert"}
      BY <2>4 DEF Finds, Hits
    <3>2. stack[s] # <<>> /\ ReturnsTo(s, x.sid)
      BY <3>1 DEF CameBack
    <3>3. stack[s] \in Seq(FrameType) /\ Top(s) = stack[s][1] /\ 1 \in DOMAIN stack[s] /\ op[s] # None
      BY <1>0, <3>2, TopTyped
    <3>4. Top(s).sid = 0
      BY <1>0, <3>1, <3>3 DEF StackSound, FramesSound
    <3>5. FrameSids(stack'[s]) = OuterSids(stack[s])
      BY <1>0, <3>2, SidsReturn
    <3>6. FrameSids(stack[s]) = ({0} \cup OuterSids(stack[s])) \ {0}
      BY <3>2, <3>3, <3>4, SidsOfFrames
    <3> QED BY <3>5, <3>6 DEF OuterSids
  <2> QED BY <2>1, <2>2, <2>3, <2>4
<1> QED BY <1>0, <1>1, <1>2, <1>3, <1>4, RowsKeptWhole

LEMMA UndoneRowsWhole ==
  ASSUME TypeInv, RowsWhole, NEW s \in Stores, Undone(s)
  PROVE  RowsWhole'
<1>0. None \notin Stores
  BY TransactionsAssumption
<1> SUFFICES ASSUME NEW x \in rows' PROVE RowWhole(x)'
  BY DEF RowsWhole
<1>1. x \in rows /\ x.by # s /\ RowWhole(x)
  BY DEF Undone, Without, RowsWhole
<1>2. Unfinished(x)' <=> Unfinished(x)
  BY <1>1 DEF Unfinished, Undone, OthersKept
<1>3. \A w \in With(x) : w \in With(x)'
  BY <1>0, <1>1 DEF With, Undone, Without
<1> QED BY <1>1, <1>2, <1>3, RowCarried

LEMMA CaughtRowsWhole ==
  ASSUME TypeInv, RowsWhole, NEW s \in Stores, CaughtIn(s)
  PROVE  RowsWhole'
<1> DEFINE Torn(x) == \E i \in DOMAIN stack[s] : stack[s][i].sid = x.sid /\ x.by = s
           f == [x \in rows |-> IF Torn(x) THEN [x EXCEPT !.torn = TRUE] ELSE x]
           Becomes(x, y) == /\ Parts(x, y) /\ y.by = x.by
                            /\ Torn(x) => y.torn
                            /\ ~Torn(x) => y = x
<1>1. rows' = {f[x] : x \in rows}
  BY DEF CaughtIn
<1>2. \A x \in rows : Becomes(x, f[x])
  <2> TAKE x \in rows
  <2>1. x \in RowType
    BY DEF TypeInv, TablesTyped
  <2>2. CASE Torn(x)
    <3>1. f[x] = [x EXCEPT !.torn = TRUE]
      BY <2>2
    <3> QED BY <2>1, <2>2, <3>1 DEF Parts, RowType
  <2>3. CASE ~Torn(x)
    <3>1. f[x] = x
      BY <2>3
    <3> QED BY <2>3, <3>1 DEF Parts
  <2> QED BY <2>2, <2>3
<1> HIDE DEF f, Becomes
<1>3. /\ \A y \in rows' : \E x \in rows : Becomes(x, y)
      /\ \A x \in rows : \E y \in rows' : Becomes(x, y)
  BY <1>1, <1>2
<1> SUFFICES ASSUME NEW y \in rows' PROVE RowWhole(y)'
  BY DEF RowsWhole
<1>4. PICK x \in rows : Becomes(x, y)
  BY <1>3
<1>5. Parts(x, y) /\ y.by = x.by /\ RowWhole(x)
  BY <1>4 DEF RowsWhole, Becomes
<1>6. \A w \in With(x) : \E v \in With(y)' : v.sid = w.sid /\ v.key = w.key
  BY <1>3, <1>5 DEF With, Parts, Becomes
<1>7. stack'[s] = <<>> /\ \A t \in Stores \ {s} : stack'[t] = stack[t]
  BY DEF CaughtIn, OthersKept
<1>8. CASE Torn(x)
  <2>1. Unfinished(x) /\ y.torn
    BY <1>4, <1>8 DEF Unfinished, Becomes
  <2>2. y.kids = {}
    BY <1>5, <2>1 DEF RowWhole, Parts
  <2>3. ~Unfinished(y)'
    BY <1>5, <1>7, <1>8 DEF Unfinished
  <2>4. AreRowsOf(With(y)', y.refs, Refs[y.obj])
    <3>1. AreRowsOf(With(x), x.refs, Refs[x.obj])
      BY <1>5 DEF RowWhole
    <3> QED BY <1>5, <1>6, <3>1, PartsCarried DEF Parts
  <2>5. y.key.content = Content[y.obj]
    BY <1>5 DEF RowWhole, Parts
  <2> QED BY <2>1, <2>2, <2>3, <2>4, <2>5 DEF RowWhole, AreRowsOf
<1>9. CASE ~Torn(x)
  <2>1. y = x
    BY <1>4, <1>9 DEF Becomes
  <2>2. Unfinished(y)' <=> Unfinished(x)
    BY <1>7, <1>9, <2>1 DEF Unfinished
  <2> QED BY <1>5, <1>6, <2>1, <2>2, RowCarried
<1> QED BY <1>8, <1>9

LEMMA CommitsRowsWhole ==
  ASSUME TypeInv, RowsWhole, NEW s \in Stores, Commits(s)
  PROVE  RowsWhole'
<1> DEFINE f == [x \in rows |-> IF x.by = s THEN [x EXCEPT !.by = None] ELSE x]
           Becomes(x, y) == Parts(x, y) /\ y.torn = x.torn /\ y.by = (IF x.by = s THEN None ELSE x.by)
<1>0. None \notin Stores
  BY TransactionsAssumption
<1>1. rows' = {f[x] : x \in rows}
  BY DEF Commits, Settled
<1>2. \A x \in rows : Becomes(x, f[x])
  <2> TAKE x \in rows
  <2>1. x \in RowType
    BY DEF TypeInv, TablesTyped
  <2>2. CASE x.by = s
    <3>1. f[x] = [x EXCEPT !.by = None]
      BY <2>2
    <3> QED BY <2>1, <2>2, <3>1 DEF Parts, RowType
  <2>3. CASE x.by # s
    <3>1. f[x] = x
      BY <2>3
    <3> QED BY <2>3, <3>1 DEF Parts
  <2> QED BY <2>2, <2>3
<1> HIDE DEF f, Becomes
<1>3. /\ \A y \in rows' : \E x \in rows : Becomes(x, y)
      /\ \A x \in rows : \E y \in rows' : Becomes(x, y)
  BY <1>1, <1>2
<1> SUFFICES ASSUME NEW y \in rows' PROVE RowWhole(y)'
  BY DEF RowsWhole
<1>4. PICK x \in rows : Becomes(x, y)
  BY <1>3
<1>5. RowWhole(x) /\ Parts(x, y) /\ y.torn = x.torn /\ y.by = (IF x.by = s THEN None ELSE x.by)
  BY <1>4 DEF RowsWhole, Becomes
<1>6. \A w \in With(x) : \E v \in With(y)' : v.sid = w.sid /\ v.key = w.key
  <2> TAKE w \in With(x)
  <2>1. PICK v \in rows' : Becomes(w, v)
    BY <1>3 DEF With
  <2>2. v.by \in {None, y.by}
    BY <1>0, <1>5, <2>1 DEF With, Becomes
  <2> QED BY <2>1, <2>2 DEF With, Becomes, Parts
<1>7. stack[s] = <<>> /\ stack'[s] = <<>> /\ \A t \in Stores \ {s} : stack'[t] = stack[t]
  <2>1. op[s] # None => op[s].done
    BY DEF Commits
  <2>2. stack[s] = <<>>
    BY <2>1 DEF TypeInv, Active
  <2> QED BY <2>2 DEF Commits, OthersKept
<1>8. Unfinished(y)' <=> Unfinished(x)
  <2>1. CASE x.by = s
    BY <1>0, <1>5, <1>7, <2>1 DEF Unfinished
  <2>2. CASE x.by # s
    BY <1>5, <1>7, <2>2 DEF Unfinished, Parts
  <2> QED BY <2>1, <2>2
<1> QED BY <1>5, <1>6, <1>8, RowCarried DEF Parts

\* What the innermost frame has got is what its row is to name.
LEMMA GotAll ==
  ASSUME NEW s, NEW T, GotThere(Top(s), T), NEW objs, objs \subseteq {g[1] : g \in Top(s).got}
  PROVE  AreRowsOf(T, GotSids(s, objs), objs)
<1>1. \A n \in GotSids(s, objs) : \E y \in T, q \in objs : y.sid = n /\ y.key.content = Content[q]
  BY DEF GotSids, GotThere
<1>2. \A q \in objs : \E y \in T : y.sid \in GotSids(s, objs) /\ y.key.content = Content[q]
  <2> TAKE q \in objs
  <2>1. PICK g \in Top(s).got : g[1] = q
    OBVIOUS
  <2>2. g[2] \in GotSids(s, objs)
    BY <2>1 DEF GotSids
  <2> QED BY <2>1, <2>2 DEF GotThere
<1> QED BY <1>1, <1>2 DEF AreRowsOf

LEMMA InsertRowsWhole ==
  ASSUME Inv, RowsWhole, NEW s \in Stores, CallWhole(s), Insert(s), OthersKept(s), TypeInv'
  PROVE  RowsWhole'
<1> DEFINE st == stack[s]
<1>1. TypeInv /\ StackSound(s) /\ st # <<>> /\ Top(s).stage \in {"refs", "insert"} /\ ~Superseded(s)
  BY DEF Inv, StoreSound, Insert, Inserting, Saving, Top, Superseded
<1>2. PICK r : /\ Written(s, r)
               /\ \E f \in FrameType : stack'[s] = GoOn(f) \o Tail(st) /\ f.sid = r.sid
  BY InsertWrites
<1>3. PICK f \in FrameType : stack'[s] = GoOn(f) \o Tail(st) /\ f.sid = r.sid
  BY <1>2
<1>4. st \in Seq(FrameType) /\ Top(s) = st[1] /\ 1 \in DOMAIN st /\ op[s] # None /\ Top(s) \in FrameType
  BY <1>1, TopTyped
<1>5. /\ rows' = rows \cup {r} /\ r.by = s /\ r.sid \in Sid /\ \A x \in rows : x.sid # r.sid
  BY <1>2 DEF Written
<1>6. FrameSids(stack'[s]) = {r.sid} \cup OuterSids(st)
  <2>1. FrameSids(stack'[s]) = ({r.sid} \cup OuterSids(st)) \ {0}
    <3>1. GoesOn(GoOn(f) \o Tail(st), st, f)
      BY <1>1, <1>4, WentOn
    <3> HIDE DEF st
    <3>2. GoesOn(stack'[s], st, f)
      BY <1>3, <3>1
    <3> QED BY ZenonT(20), <1>1, <1>3, <1>4, <3>2, SidsGoOn
  <2> QED BY <1>5, <2>1 DEF OuterSids, Sid
<1>7. FrameSids(st) = OuterSids(st)
  <2>1. Top(s).sid = 0
    BY <1>1, <1>4 DEF StackSound, FramesSound
  <2>2. FrameSids(st) = ({0} \cup OuterSids(st)) \ {0}
    BY <1>1, <1>4, <2>1, SidsOfFrames
  <2> QED BY <2>2 DEF OuterSids
<1>8. \A y \in rows' : Unfinished(y)' <=> y.by \in Stores /\ y.sid \in FrameSids(stack'[y.by])
  BY DEF Unfinished, FrameSids, TypeInv, TablesTyped, RowType, Sid
<1> HIDE DEF st
<1>9. ASSUME NEW x \in rows PROVE RowWhole(x)'
  <2>1. Unfinished(x)' <=> Unfinished(x)
    <3>1. Unfinished(x) <=> x.by \in Stores /\ x.sid \in FrameSids(stack[x.by])
      BY <1>1, UnfinishedSids
    <3>2. CASE x.by = s
      BY <1>5, <1>6, <1>7, <1>8, <3>1, <3>2 DEF st
    <3>3. CASE x.by # s
      BY <1>5, <1>8, <3>1, <3>3 DEF OthersKept
    <3> QED BY <3>2, <3>3
  <2>2. \A w \in With(x) : w \in With(x)'
    BY <1>5 DEF With
  <2>3. RowWhole(x)
    BY DEF RowsWhole
  <2> QED BY <2>1, <2>2, <2>3, RowCarried
<1>10. RowWhole(r)'
  <2>1. r.key.content = Content[r.obj] /\ r.refs = GotSids(s, Refs[r.obj]) /\ r.kids = {} /\ r.torn = FALSE
        /\ r.obj = Top(s).obj
    <3>1. Key(s).content = Content[Top(s).obj]
      BY <1>1, KeyTyped DEF st
    <3> QED BY <1>2, <3>1 DEF Written
  <2>2. Unfinished(r)'
    BY <1>5, <1>6, <1>8
  <2>3. GotThere(Top(s), Seen(s, rows)) /\ Ready(Top(s))
    BY <1>1, CallFrames DEF st
  <2>4. AreRowsOf(Seen(s, rows), r.refs, Refs[r.obj])
    <3>1. Refs[r.obj] \subseteq {g[1] : g \in Top(s).got}
      BY <1>1, <2>1, <2>3 DEF Ready
    <3> QED BY <2>1, <2>3, <3>1, GotAll
  <2>5. \A w \in Seen(s, rows) : w \in With(r)'
    BY <1>5 DEF Seen, With
  <2>6. AreRowsOf(With(r)', r.refs, Refs[r.obj])
    BY <2>4, <2>5, PartsCarried
  <2> QED BY <2>1, <2>2, <2>6 DEF RowWhole, AreRowsOf
<1> QED BY <1>5, <1>9, <1>10 DEF RowsWhole

LEMMA DiscardRowsWhole ==
  ASSUME Inv, RowsWhole, NEW s \in Stores, CallWhole(s), TakesBack(s)
  PROVE  RowsWhole'
<1> SUFFICES ASSUME NEW x \in rows' PROVE RowWhole(x)'
  BY DEF RowsWhole
<1>1. TypeInv /\ stack[s] # <<>> /\ Top(s).stage # "lookup" /\ stack' = stack
      /\ rows' = {y \in rows : y.sid \notin InsertedSince(s)}
  BY DEF Inv, TakesBack
<1>2. InsertedSince(s) = Since(Top(s), op[s].inserted)
  BY DEF InsertedSince, Since
<1>3. Inside(Top(s), op[s].inserted, rows)
  BY <1>1, CallFrames
<1>4. x \in rows /\ RowWhole(x) /\ (x.refs \cup x.kids) \cap InsertedSince(s) = {}
  BY <1>1, <1>2, <1>3 DEF Inside, RowsWhole
<1>5. \A w \in With(x) : w.sid \in x.refs \cup x.kids => w \in With(x)'
  BY <1>1, <1>4 DEF With
<1>6. Unfinished(x)' <=> Unfinished(x)
  BY <1>1 DEF Unfinished
<1> QED BY <1>4, <1>5, <1>6, RowCarried

\* The row of a frame is no row of the frames that called it.
LEMMA TopIsNoOther ==
  ASSUME TypeInv, NEW s \in Stores, StackSound(s), stack[s] # <<>>, Top(s).sid # 0,
         Top(s).sid \in Since(Top(s), op[s].inserted)
  PROVE  Top(s).sid \notin OuterSids(stack[s])
<1> DEFINE st == stack[s]
           ins == op[s].inserted
<1>1. /\ st \in Seq(FrameType) /\ Top(s) = st[1] /\ Top(s) \in FrameType /\ 1 \in DOMAIN st /\ op[s] # None
      /\ ins \in Seq(Sid)
  BY TopTyped DEF CallType
<1>2. Top(s).stage # "lookup" /\ Top(s).base \in Nat /\ Top(s).base <= Len(ins)
  BY <1>1 DEF StackSound, FramesSound, FrameType
<1>3. PICK m \in (Top(s).base + 1) .. Len(ins) : ins[m] = Top(s).sid
  BY DEF Since
<1> SUFFICES ASSUME NEW j \in 2 .. Len(st), st[j].sid = Top(s).sid PROVE FALSE
  BY DEF OuterSids
<1>4. j \in DOMAIN st /\ 1 < j
  BY <1>1
<1>5. PICK k \in 1 .. Top(s).base : ins[k] = st[j].sid
  BY <1>1, <1>2, <1>4 DEF StackSound, FramesSound
<1>6. k \in DOMAIN ins /\ m \in DOMAIN ins /\ k # m
  BY <1>1, <1>2
<1> QED BY <1>1, <1>3, <1>5, <1>6 DEF StackSound, NoneTwice

LEMMA KidsRowsWhole ==
  ASSUME Inv, RowsWhole, NEW s \in Stores, CallWhole(s), WriteKids(s), WritesKids(s), TypeInv'
  PROVE  RowsWhole'
<1> DEFINE st == stack[s]
           ins == op[s].inserted
<1>1. TypeInv /\ SidsUnique /\ StackSound(s) /\ st # <<>> /\ Top(s).stage = "kids" /\ ~Superseded(s)
  BY DEF Inv, TablesSound, StoreSound, WriteKids, Saving, Top, Superseded, Inserting
<1>2. PICK x, y : Finishes(s, x, y)
  BY WriteKidsFinishes
<1>3. st \in Seq(FrameType) /\ Top(s) = st[1] /\ 1 \in DOMAIN st /\ op[s] # None /\ Top(s) \in FrameType
  BY <1>1, TopTyped
<1>4. Top(s).sid # 0
  BY <1>1, <1>3 DEF StackSound, FramesSound
<1>5. Inside(Top(s), ins, rows) /\ GotThere(Top(s), Seen(s, rows)) /\ Ready(Top(s))
  BY <1>1, CallFrames
<1>6. FrameSids(stack'[s]) = OuterSids(st) /\ FrameSids(st) = {Top(s).sid} \cup OuterSids(st)
  <2>1. FrameSids(stack'[s]) = OuterSids(st)
    BY <1>1, SidsReturn DEF WritesKids, CameBack
  <2>2. FrameSids(st) = ({Top(s).sid} \cup OuterSids(st)) \ {0}
    BY <1>1, <1>3, SidsOfFrames
  <2> QED BY <1>4, <2>1, <2>2 DEF OuterSids
<1>7. Top(s).sid \notin OuterSids(st)
  BY <1>1, <1>4, <1>5, TopIsNoOther DEF Inside
<1>8. \A z \in rows' : Unfinished(z)' <=> z.by \in Stores /\ z.sid \in FrameSids(stack'[z.by])
  BY DEF Unfinished, FrameSids, TypeInv, TablesTyped, RowType, Sid
<1>9. \A z \in rows : \E v \in rows' : v.sid = z.sid /\ v.key = z.key /\ v.by = z.by
  BY <1>2 DEF Finishes
<1>10. OthersKept(s)
  BY DEF WritesKids, CameBack
<1> HIDE DEF st, ins
<1>11. ASSUME NEW z \in rows, z # x PROVE RowWhole(z)'
  <2>1. Unfinished(z)' <=> Unfinished(z)
    <3>1. z \in rows'
      BY <1>2, <1>11 DEF Finishes
    <3>2. Unfinished(z) <=> z.by \in Stores /\ z.sid \in FrameSids(stack[z.by])
      BY <1>1, UnfinishedSids
    <3>3. z.sid # Top(s).sid
      BY <1>1, <1>2, <1>11 DEF Finishes, SidsUnique
    <3>4. CASE z.by = s
      BY <1>6, <1>8, <3>1, <3>2, <3>3, <3>4 DEF st
    <3>5. CASE z.by # s
      BY <1>8, <1>10, <3>1, <3>2, <3>5 DEF OthersKept
    <3> QED BY <3>4, <3>5
  <2>2. \A w \in With(z) : \E v \in With(z)' : v.sid = w.sid /\ v.key = w.key
    BY <1>9 DEF With
  <2>3. RowWhole(z)
    BY DEF RowsWhole
  <2> QED BY <2>1, <2>2, <2>3, RowCarried
<1>12. RowWhole(y)'
  <2>1. /\ x \in rows /\ x.sid = Top(s).sid /\ x.by = s /\ y \in rows' /\ y.by = s
        /\ y.sid = x.sid /\ y.key = x.key /\ y.obj = x.obj /\ y.refs = x.refs /\ y.torn = x.torn
        /\ y.kids = GotSids(s, Items[Top(s).obj])
    BY <1>2 DEF Finishes
  <2>2. x.obj = Top(s).obj
    BY <1>4, <1>5, <2>1 DEF Inside
  <2>3. RowWhole(x) /\ Unfinished(x)
    BY <1>1, <1>6, <2>1, UnfinishedSids DEF RowsWhole, st
  <2>4. ~Unfinished(y)'
    BY <1>6, <1>7, <1>8, <2>1
  <2>5. \A w \in Seen(s, rows) : \E v \in With(y)' : v.sid = w.sid /\ v.key = w.key
    BY <1>9, <2>1 DEF Seen, With
  <2>6. AreRowsOf(With(y)', y.refs, Refs[y.obj])
    <3>1. AreRowsOf(Seen(s, rows), x.refs, Refs[x.obj])
      BY <2>1, <2>3 DEF RowWhole, With, Seen
    <3> QED BY <2>1, <2>5, <3>1, PartsCarried
  <2>7. AreRowsOf(With(y)', y.kids, Items[y.obj])
    <3>1. Items[Top(s).obj] \subseteq {g[1] : g \in Top(s).got}
      BY <1>1, <1>5 DEF Ready
    <3>2. AreRowsOf(Seen(s, rows), y.kids, Items[y.obj])
      BY <1>5, <2>1, <2>2, <3>1, GotAll
    <3> QED BY <2>5, <3>2, PartsCarried
  <2>8. y.key.content = Content[y.obj] /\ ~y.torn
    BY <2>1, <2>3 DEF RowWhole
  <2> QED BY <2>4, <2>6, <2>7, <2>8 DEF RowWhole, AreRowsOf
<1> QED BY <1>2, <1>11, <1>12 DEF Finishes, RowsWhole

\* With no transaction open, what a marked row names is marked.
LEMMA MarkedClosed ==
  ASSUME TypeInv, SidsUnique, RowsWhole, \A x \in rows : x.by = None
  PROVE  \A x \in rows : x.sid \in Marked => x.refs \cup x.kids \subseteq Marked
<1> DEFINE N == Cardinality(Objects)
<1>1. N \in Nat
  BY TransactionsAssumption, FS_CardinalityType
<1>2. PICK h : /\ h[0] = Roots /\ Marked = h[N]
               /\ \A n \in Nat : h[n + 1] = h[n] \cup Reached(h[n])
  BY MarkedSteps
<1>3. \A X : Reached(X) = UNION {x.refs \cup x.kids : x \in {y \in rows : y.sid \in X}}
  <2>1. Committed(rows) = rows
    BY DEF Committed
  <2> QED BY <2>1 DEF Reached
<1>4. \A x \in rows : Depth[x.key.content] \in 1 .. N
  <2> TAKE x \in rows
  <2>1. x.obj \in Objects /\ x.key.content = Content[x.obj]
    BY DEF RowsWhole, RowWhole, TypeInv, TablesTyped, RowType
  <2> QED BY <2>1, DepthTyped
<1> HIDE DEF N
<1> DEFINE Closed(n) == \A x \in rows : x.sid \in h[n] /\ Depth[x.key.content] + n > N =>
                          x.refs \cup x.kids \subseteq h[n]
           S == {n \in Nat : Closed(n)}
<1>5. 0 \in S /\ S \subseteq Nat
  BY <1>1, <1>4
<1>6. ASSUME NEW n \in Nat, Closed(n) PROVE Closed(n + 1)
  <2> SUFFICES ASSUME NEW x \in rows, x.sid \in h[n + 1], Depth[x.key.content] + (n + 1) > N
               PROVE  x.refs \cup x.kids \subseteq h[n + 1]
    OBVIOUS
  <2>1. h[n + 1] = h[n] \cup Reached(h[n])
    BY <1>2
  <2>2. x.sid \in h[n]
    <3>1. CASE x.sid \in Reached(h[n])
      <4>1. PICK z \in rows : z.sid \in h[n] /\ x.sid \in z.refs \cup z.kids
        BY <1>3, <3>1
      <4>2. Depth[x.key.content] < Depth[z.key.content]
        <5>1. PICK y \in rows : y.sid = x.sid /\ Depth[y.key.content] < Depth[z.key.content]
          BY <4>1, NamedRows
        <5> QED BY <5>1 DEF SidsUnique
      <4>3. Depth[z.key.content] + n > N
        BY <1>1, <1>4, <4>2
      <4> QED BY <1>6, <4>1, <4>3
    <3> QED BY <2>1, <3>1
  <2>3. x.refs \cup x.kids \subseteq Reached(h[n])
    BY <1>3, <2>2
  <2> QED BY <2>1, <2>3
<1>7. \A n \in S : n + 1 \in S
  BY <1>6
<1> HIDE DEF S, Closed
<1>8. S = Nat
  BY <1>5, <1>7, NumberInduction
<1>9. Closed(N)
  BY <1>1, <1>8 DEF S
<1> QED BY <1>1, <1>2, <1>4, <1>9 DEF Closed

LEMMA SweepRowsWhole ==
  ASSUME Inv, OwnedInv, RowsWhole, NEW s \in Stores, Sweeps(s), Fsck(s)
  PROVE  RowsWhole'
<1>0. TypeInv /\ SidsUnique /\ None \notin Stores
  BY TransactionsAssumption DEF Inv, TablesSound
<1>1. \A x \in rows : x.by = None
  <2>1. \A t \in Stores, x \in rows : x.by # t
    BY DEF Sweeps, OwnedInv, CallOwned, Unwritten
  <2> QED BY <1>0, <2>1, NamesTyped
<1>2. rows' = {x \in rows : x.sid \in Marked}
  BY <1>1 DEF Fsck, Pending
<1> SUFFICES ASSUME NEW x \in rows' PROVE RowWhole(x)'
  BY DEF RowsWhole
<1>3. x \in rows /\ x.refs \cup x.kids \subseteq Marked
  BY <1>0, <1>1, <1>2, MarkedClosed
<1>4. \A w \in With(x) : w.sid \in x.refs \cup x.kids => w \in With(x)'
  BY <1>2, <1>3 DEF With
<1>5. Unfinished(x)' <=> Unfinished(x)
  BY DEF Unfinished, Sweeps, session
<1>6. RowWhole(x)
  BY <1>3 DEF RowsWhole
<1> QED BY <1>3, <1>4, <1>5, <1>6, RowCarried

LEMMA RowsStayWhole ==
  ASSUME Inv, OwnedInv, RowsWhole, NEW s \in Stores, CallWhole(s), WholeEffect(s), TypeInv'
  PROVE  RowsWhole'
<1>0. TypeInv
  BY DEF Inv
<1>1. CASE Enters(s) \/ Dispatches(s) \/ Reads(s) \/ Looks(s) \/ Prepares(s) \/ TakesIds(s) \/ Finds(s)
  BY <1>1, KeptRowsWhole
<1>2. CASE Undone(s)
  BY <1>0, <1>2, UndoneRowsWhole
<1>3. CASE CaughtIn(s)
  BY <1>0, <1>3, CaughtRowsWhole
<1>4. CASE Commits(s)
  BY <1>0, <1>4, CommitsRowsWhole
<1>5. CASE Adds(s) /\ Insert(s)
  BY <1>5, InsertRowsWhole DEF Adds
<1>6. CASE TakesBack(s)
  BY <1>6, DiscardRowsWhole
<1>7. CASE WritesKids(s) /\ WriteKids(s)
  BY <1>7, KidsRowsWhole
<1>8. CASE Sweeps(s) /\ Fsck(s)
  BY <1>8, SweepRowsWhole
<1> QED BY <1>1, <1>2, <1>3, <1>4, <1>5, <1>6, <1>7, <1>8 DEF WholeEffect

-----------------------------------------------------------------------------
(* The calls of the other stores.                                          *)

\* What matches goes on doing so while the call does nothing.
LEMMA StillSuperseded ==
  ASSUME NEW t \in Stores, stack'[t] = stack[t], op'[t] = op[t], Seen(t, rows) \subseteq Seen(t, rows)',
         Superseded(t)
  PROVE  Superseded(t)'
<1>1. Top(t)' = Top(t) /\ Con(t)' = Con(t) /\ Key(t)' = Key(t)
  BY DEF Top, Con, Key, IsRoot, PlainKey
<1>2. Inserting(t)'
  BY DEF Superseded, Inserting, Saving, IsEntry, Con, Top
<1>3. \A objs : GotSids(t, objs)' = GotSids(t, objs)
  BY <1>1 DEF GotSids
<1>4. Matches(t) = {y \in WithKey(Seen(t, rows), Key(t)) :
                      \/ Policy[Con(t)] = "content_id"
                      \/ Policy[Con(t)] = "by_value" /\ y.refs = GotSids(t, Refs[Top(t).obj])}
  BY DEF Matches
<1>5. Matches(t)' = {y \in WithKey(Seen(t, rows)', Key(t)) :
                       \/ Policy[Con(t)] = "content_id"
                       \/ Policy[Con(t)] = "by_value" /\ y.refs = GotSids(t, Refs[Top(t).obj])}
  BY <1>1, <1>3 DEF Matches, WithKey
<1>6. Matches(t) \subseteq Matches(t)'
  BY <1>4, <1>5 DEF WithKey
<1> QED BY <1>2, <1>6 DEF Superseded

LEMMA OthersWhole ==
  ASSUME Inv, RowsWhole, RowsWhole', TypeInv', SidsUnique', NEW s \in Stores, NEW t \in Stores \ {s},
         CallWhole(t), Effect(s)
  PROVE  CallWhole(t)'
<1> DEFINE st == stack[t]
           ins == op[t].inserted
<1>0. /\ TypeInv /\ InsertedHere(t) /\ FramesHaveRows(t) /\ None \notin Stores
      /\ \A x, y \in rows' : x.sid = y.sid => x = y
  BY TransactionsAssumption DEF Inv, StoreSound, SidsUnique
<1>1. op'[t] = op[t] /\ stack'[t] = stack[t]
  <2>1. OthersKept(s)
    BY DEF Effect, Undone, CaughtIn, Commits, Enters, Moves, Claims, Adds, TakesBack, Hits, WritesKids,
           CameBack, Dispatches, Reads
  <2> QED BY <2>1 DEF OthersKept
<1>2. /\ \A x \in rows : x.by \in {None, t} => x \in rows'
      /\ \A x \in rows' : x.by = t => x \in rows
  BY OthersEffect DEF OthersSee
<1> SUFFICES ASSUME st # <<>>
             PROVE  FramesWhole(st, ins, rows') /\ FramesGot(t)' /\ Ready(st[1])
  BY <1>1 DEF CallWhole
<1>3. FramesWhole(st, ins, rows) /\ FramesGot(t) /\ Ready(st[1])
  BY DEF CallWhole
<1>4. op[t] # None /\ ins \in Seq(Sid) /\ st \in Seq(FrameType)
  BY <1>0, TopTyped DEF CallType
<1>5. ASSUME NEW f \in FrameType, NEW n \in Since(f, ins)
      PROVE  \E y \in rows : y.sid = n /\ y.by = t
  <2>1. f.base \in Nat
    BY DEF FrameType
  <2>2. PICK m \in (f.base + 1) .. Len(ins) : ins[m] = n
    BY DEF Since
  <2>3. m \in DOMAIN ins
    BY <1>4, <2>1
  <2> QED BY <1>0, <1>4, <2>2, <2>3 DEF InsertedHere
<1>6. ASSUME NEW i \in DOMAIN st PROVE Inside(st[i], ins, rows')
  <2>0. Inside(st[i], ins, rows) /\ st[i] \in FrameType
    BY <1>3, <1>4 DEF FramesWhole
  <2>1. ASSUME st[i].sid # 0, NEW x \in rows', x.sid = st[i].sid PROVE x.obj = st[i].obj
    <3>1. PICK y \in rows : y.sid = st[i].sid /\ y.by = t
      BY <1>0, <2>1 DEF FramesHaveRows
    <3>2. y = x
      BY <1>0, <1>2, <2>1, <3>1
    <3> QED BY <2>0, <2>1, <3>1, <3>2 DEF Inside
  <2>2. ASSUME NEW x \in rows', x.sid \in Since(st[i], ins) PROVE x \in rows
    <3>1. PICK y \in rows : y.sid = x.sid /\ y.by = t
      BY <1>5, <2>0, <2>2
    <3> QED BY <1>0, <1>2, <3>1
  <2>3. ASSUME st[i].stage # "lookup", NEW x \in rows', x.sid \notin Since(st[i], ins),
               NEW n \in x.refs \cup x.kids, n \in Since(st[i], ins)
        PROVE  FALSE
    <3>1. PICK y \in rows : y.sid = n /\ y.by = t
      BY <1>5, <2>0, <2>3
    <3>2. PICK z \in rows' : z.sid = n /\ z.by \in {None, x.by}
      <4>1. \A v \in rows' : \A k \in v.refs \cup v.kids : \E w \in rows' : w.sid = k /\ w.by \in {None, v.by}
        BY DEF RowsWhole, RowWhole, AreRowsOf, With
      <4> QED BY <4>1
    <3>3. x \in rows
      BY <1>0, <1>2, <3>1, <3>2
    <3> QED BY <2>0, <2>3, <3>3 DEF Inside
  <2> QED BY <2>0, <2>1, <2>2, <2>3 DEF Inside
<1>7. FramesWhole(st, ins, rows')
  BY <1>3, <1>6 DEF FramesWhole
<1>8. Seen(t, rows) \subseteq Seen(t, rows)'
  BY <1>2 DEF Seen
<1>9. Superseded(t) => Superseded(t)'
  BY <1>1, <1>8, StillSuperseded
<1>10. FramesGot(t)'
  <2>1. \A i \in DOMAIN st : GotThere(st[i], Seen(t, rows)') \/ (i = 1 /\ Superseded(t))
    BY <1>3, <1>8 DEF FramesGot, GotThere
  <2> QED BY <1>1, <1>9, <2>1 DEF FramesGot, GotThere
<1> QED BY <1>3, <1>7, <1>10

-----------------------------------------------------------------------------
(* All of the invariant.                                                   *)

LEMMA WholeInit ==
  ASSUME Init
  PROVE  WholeInv
<1>0. rows = Earlier /\ \A s \in Stores : stack[s] = <<>>
  BY DEF Init
<1>1. ASSUME NEW x \in Earlier
      PROVE  /\ x.key.content = Content[x.obj] /\ x.by = None
             /\ AreRowsOf(Earlier, x.refs, Refs[x.obj])
             /\ IF x.torn THEN x.kids = {} ELSE AreRowsOf(Earlier, x.kids, Items[x.obj])
  BY EarlierAssumption
<1>2. ASSUME NEW x \in rows PROVE RowWhole(x)
  <2>1. ~Unfinished(x)
    BY <1>0, <1>1, TransactionsAssumption DEF Unfinished
  <2>2. With(x) = Earlier
    BY <1>0, <1>1 DEF With
  <2> QED BY <1>0, <1>1, <2>1, <2>2 DEF RowWhole
<1> QED BY <1>0, <1>2 DEF WholeInv, RowsWhole, CallWhole

LEMMA WholeStutters ==
  ASSUME WholeInv, UNCHANGED vars
  PROVE  WholeInv'
<1>1. UNCHANGED <<rows, op, stack>>
  BY DEF vars, db, session
<1>2. ASSUME NEW x \in rows PROVE RowWhole(x)'
  <2>1. With(x)' = With(x)
    BY <1>1 DEF With
  <2>2. Unfinished(x)' <=> Unfinished(x)
    BY <1>1 DEF Unfinished
  <2>3. RowWhole(x)
    BY DEF WholeInv, RowsWhole
  <2> QED BY <2>1, <2>2, <2>3 DEF RowWhole
<1>3. ASSUME NEW s \in Stores PROVE CallWhole(s)'
  <2>1. Seen(s, rows)' = Seen(s, rows)
    BY <1>1 DEF Seen
  <2>2. Superseded(s) => Superseded(s)'
    BY <1>1, <2>1, StillSuperseded
  <2>3. FramesGot(s) => FramesGot(s)'
    BY <1>1, <2>1, <2>2 DEF FramesGot, GotThere
  <2> QED BY <1>1, <2>3 DEF WholeInv, CallWhole
<1> QED BY <1>1, <1>2, <1>3 DEF WholeInv, RowsWhole

LEMMA WholeNext ==
  ASSUME Inv, OwnedInv, WholeInv, ~FsckOnline, [Next]_vars
  PROVE  WholeInv'
<1>1. CASE UNCHANGED vars
  BY <1>1, WholeStutters
<1>2. CASE Next
  <2>1. PICK s \in Stores : Step(s)
    BY <1>2, NextIsStep
  <2>2. WholeEffect(s) /\ (Effect(s) \/ Sweeps(s)) /\ TypeInv'
    BY <2>1, StepIsWhole, StepEffect
  <2>3. SidsUnique'
    BY <2>2, SidsStayUnique
  <2>4. RowsWhole'
    BY <2>2, RowsStayWhole DEF WholeInv
  <2>5. ASSUME NEW t \in Stores PROVE CallWhole(t)'
    <3>1. CASE t = s
      BY <2>2, <3>1, OwnWhole DEF WholeInv
    <3>2. CASE t # s /\ Effect(s)
      BY <2>2, <2>3, <2>4, <3>2, OthersWhole DEF WholeInv
    <3>3. CASE Sweeps(s)
      <4>1. tx[t] = "none" /\ stack' = stack
        BY <3>3 DEF Sweeps, session
      <4>2. stack'[t] = <<>>
        BY <4>1 DEF Inv, TypeInv, Active
      <4> QED BY <4>2 DEF CallWhole
    <3> QED BY <2>2, <3>1, <3>2, <3>3
  <2> QED BY <2>4, <2>5 DEF WholeInv
<1> QED BY <1>1, <1>2

-----------------------------------------------------------------------------
(* Theorems.                                                               *)

(* In every state, what a row names is there with it, and what a call in   *)
(* progress has got so far is there for the row it is to write.            *)
THEOREM Wholeness == FsckOnline = FALSE => (Spec => [](Inv /\ OwnedInv /\ WholeInv))
<1> SUFFICES ASSUME FsckOnline = FALSE PROVE Spec => [](Inv /\ OwnedInv /\ WholeInv)
  OBVIOUS
<1>1. Init => Inv /\ OwnedInv /\ WholeInv
  BY InvInit, OwnedInit, WholeInit
<1>2. Inv /\ OwnedInv /\ WholeInv /\ [Next]_vars => (Inv /\ OwnedInv /\ WholeInv)'
  BY InvNext, OwnedNext, WholeNext
<1> QED BY <1>1, <1>2, PTL DEF Spec

(* Whatever transactions race, fail or die, and whatever they take back on *)
(* the way: a committed row comes with all that it refers to, and with all *)
(* its elements unless its save raised and the caller committed the rest.  *)
THEOREM CommittedIsWhole == FsckOnline = FALSE => (Spec => []CommittedWhole)
<1> SUFFICES ASSUME FsckOnline = FALSE PROVE Spec => []CommittedWhole
  OBVIOUS
<1>1. WholeInv => CommittedWhole
  <2> SUFFICES ASSUME WholeInv, NEW x \in Committed(rows), ~x.torn PROVE Whole(x)
    BY DEF CommittedWhole
  <2>1. RowWhole(x) /\ x.by = None
    BY DEF WholeInv, RowsWhole, Committed
  <2>2. ~Unfinished(x)
    BY <2>1, TransactionsAssumption DEF Unfinished
  <2>3. With(x) = Committed(rows)
    BY <2>1 DEF With, Committed
  <2> QED BY <2>1, <2>2, <2>3 DEF RowWhole, Whole
<1>2. Spec => [](Inv /\ OwnedInv /\ WholeInv)
  BY Wholeness
<1> QED BY <1>1, <1>2, PTL

(* What is committed is whole, and has one owner: one content is one row,  *)
(* one id is one group's in one backing.                                   *)
THEOREM CommittedIsSound == FsckOnline = FALSE => (Spec => []CommittedSound)
<1> SUFFICES ASSUME FsckOnline = FALSE PROVE Spec => []CommittedSound
  OBVIOUS
<1>1. Spec => []CommittedWhole
  BY CommittedIsWhole
<1>2. Spec => []IdentitiesOwned
  BY IdentitiesAreOwned
<1>3. CommittedWhole /\ IdentitiesOwned => CommittedSound
  BY DEF CommittedSound
<1> QED BY <1>1, <1>2, <1>3, PTL
=============================================================================
