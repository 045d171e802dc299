---------------------------- MODULE StoresProofs ----------------------------
(***************************************************************************)
(* Proofs about two of the parts that MCStores runs.  StoreOpening: what   *)
(* opens is a whole store, whatever fails and whoever dies while stores    *)
(* are opened, upgraded and loaded.  ResultPages: the pages of a walk      *)
(* whose tokens hold its keys (Anchored) leave out nothing, however the    *)
(* rows come and go between its reads.                                     *)
(***************************************************************************)
EXTENDS StoreOpening, ResultPages, NumberFacts

(***************************************************************************)
(* OPENINGS.  A database is no store yet, or it is sound (DbSound); what a *)
(* process has still to do (StepsOf) says what it may rely on by now.      *)
(***************************************************************************)

-----------------------------------------------------------------------------
(* What is left to do.                                                     *)

StepsOf(t) == {t[i] : i \in 1..Len(t)}

\* One order of all steps, in which every program runs.
Rank == [fence |-> 1, recheck |-> 2, meta |-> 3, layout |-> 4, lease |-> 5, owners |-> 6, stamp |-> 7, claims |-> 8,
         protocol |-> 9, schemas |-> 10, timestamps |-> 11, ownership |-> 12, profile |-> 13, unfence |-> 14, unlease |-> 15,
         tables |-> 16, column |-> 17, restamp |-> 18, marker |-> 19, relations |-> 20, reload |-> 21, load |-> 22,
         project |-> 23, verify |-> 24, sweep |-> 25, clear |-> 26]
Steps == {"fence", "recheck", "meta", "layout", "lease", "owners", "stamp", "claims", "protocol", "schemas", "timestamps",
          "ownership", "profile", "unfence", "unlease", "tables", "column", "restamp", "marker", "relations", "reload",
          "load", "project", "verify", "sweep", "clear"}
InTurn(t) == t \in Seq(Steps) /\ \A i, j \in 1..Len(t) : i < j => Rank[t[i]] < Rank[t[j]]

LEMMA RanksAreNumbers == \A s \in Steps : Rank[s] \in Nat
  BY DEF Steps, Rank

\* The first step is before all others, and is taken once.
LEMMA NextStep ==
  ASSUME NEW t, InTurn(t), t # <<>>
  PROVE  /\ InTurn(Tail(t)) /\ StepsOf(Tail(t)) = StepsOf(t) \ {Head(t)}
         /\ Head(t) \in StepsOf(t) /\ StepsOf(t) \subseteq Steps
         /\ \A s \in StepsOf(t) : s = Head(t) \/ Rank[Head(t)] < Rank[s]
<1>1. t \in Seq(Steps) /\ Len(t) \in Nat /\ Len(t) >= 1 /\ Head(t) = t[1] /\ \A i \in 1..Len(t) : t[i] \in Steps
  BY DEF InTurn
<1>2. Tail(t) \in Seq(Steps) /\ Len(Tail(t)) = Len(t) - 1 /\ \A i \in 1..Len(t) - 1 : Tail(t)[i] = t[i + 1]
  BY <1>1
<1>3. InTurn(Tail(t))
  <2> SUFFICES ASSUME NEW i \in 1..Len(Tail(t)), NEW j \in 1..Len(Tail(t)), i < j
               PROVE  Rank[Tail(t)[i]] < Rank[Tail(t)[j]]
    BY <1>2 DEF InTurn
  <2>1. i + 1 \in 1..Len(t) /\ j + 1 \in 1..Len(t) /\ i + 1 < j + 1
    BY <1>1, <1>2
  <2>2. Rank[t[i + 1]] < Rank[t[j + 1]]
    BY <2>1 DEF InTurn
  <2> QED BY <1>2, <2>2
<1>4. \A i \in 1..Len(t) : i = 1 \/ Rank[t[1]] < Rank[t[i]]
  <2> SUFFICES ASSUME NEW i \in 1..Len(t), i # 1 PROVE Rank[t[1]] < Rank[t[i]]
    OBVIOUS
  <2>1. 1 \in 1..Len(t) /\ 1 < i
    BY <1>1
  <2> QED BY <2>1 DEF InTurn
<1>5. Head(t) \in StepsOf(t) /\ StepsOf(t) \subseteq Steps
  BY <1>1 DEF StepsOf
<1>6. \A s \in StepsOf(t) : s = Head(t) \/ Rank[Head(t)] < Rank[s]
  BY <1>1, <1>4 DEF StepsOf
<1>7. StepsOf(Tail(t)) \subseteq StepsOf(t) \ {Head(t)}
  <2> SUFFICES ASSUME NEW i \in 1..Len(Tail(t)) PROVE Tail(t)[i] \in StepsOf(t) /\ Tail(t)[i] # Head(t)
    BY DEF StepsOf
  <2>1. i + 1 \in 1..Len(t) /\ i + 1 # 1 /\ Tail(t)[i] = t[i + 1]
    BY <1>1, <1>2
  <2>2. t[i + 1] \in Steps /\ t[1] \in Steps /\ Rank[t[1]] < Rank[t[i + 1]]
    BY <1>1, <1>4, <2>1
  <2>3. Rank[t[1]] \in Nat
    BY <2>2, RanksAreNumbers
  <2> QED BY <1>1, <2>1, <2>2, <2>3 DEF StepsOf
<1>8. StepsOf(t) \ {Head(t)} \subseteq StepsOf(Tail(t))
  <2> SUFFICES ASSUME NEW i \in 1..Len(t), t[i] # t[1] PROVE t[i] \in StepsOf(Tail(t))
    BY <1>1 DEF StepsOf
  <2>1. i - 1 \in 1..Len(t) - 1 /\ Tail(t)[i - 1] = t[i]
    <3>1. i # 1 /\ i - 1 \in 1..Len(t) - 1
      BY <1>1
    <3>2. Tail(t)[i - 1] = t[(i - 1) + 1] /\ (i - 1) + 1 = i
      BY <1>2, <3>1
    <3> QED BY <3>1, <3>2
  <2> QED BY <1>2, <2>1 DEF StepsOf
<1> QED BY <1>3, <1>5, <1>6, <1>7, <1>8

LEMMA NoSteps ==
  ASSUME NEW t, InTurn(t)
  PROVE  t = <<>> <=> StepsOf(t) = {}
<1>1. t # <<>> => StepsOf(t) # {}
  BY NextStep
<1>2. t = <<>> => StepsOf(t) = {}
  BY DEF StepsOf
<1> QED BY <1>1, <1>2

\* One program after another.
LEMMA StepsInTurn ==
  ASSUME NEW s, InTurn(s), NEW t, InTurn(t), \A x \in StepsOf(s) : \A y \in StepsOf(t) : Rank[x] < Rank[y]
  PROVE  InTurn(s \o t) /\ StepsOf(s \o t) = StepsOf(s) \cup StepsOf(t)
<1> DEFINE u == s \o t
<1>1. /\ s \in Seq(Steps) /\ t \in Seq(Steps) /\ u \in Seq(Steps)
      /\ Len(s) \in Nat /\ Len(t) \in Nat /\ Len(u) = Len(s) + Len(t)
  BY DEF InTurn
<1>2. \A i \in 1..Len(u) : IF i <= Len(s) THEN i \in 1..Len(s) /\ u[i] = s[i] ELSE i - Len(s) \in 1..Len(t) /\ u[i] = t[i - Len(s)]
  BY <1>1
<1>3. (\A i \in 1..Len(s) : i \in 1..Len(u) /\ u[i] = s[i]) /\ (\A i \in 1..Len(t) : Len(s) + i \in 1..Len(u) /\ u[Len(s) + i] = t[i])
  BY <1>1
<1> HIDE DEF u
<1>4. ASSUME NEW i \in 1..Len(u), NEW j \in 1..Len(u), i < j PROVE Rank[u[i]] < Rank[u[j]]
  <2>1. CASE j <= Len(s)
    <3>1. i \in 1..Len(s) /\ j \in 1..Len(s) /\ u[i] = s[i] /\ u[j] = s[j]
      BY <1>1, <1>2, <1>4, <2>1
    <3> QED BY <1>4, <3>1 DEF InTurn
  <2>2. CASE i > Len(s)
    <3>1. i - Len(s) \in 1..Len(t) /\ j - Len(s) \in 1..Len(t) /\ u[i] = t[i - Len(s)] /\ u[j] = t[j - Len(s)] /\ i - Len(s) < j - Len(s)
      BY <1>1, <1>2, <1>4, <2>2
    <3> QED BY <3>1 DEF InTurn
  <2>3. CASE i <= Len(s) /\ j > Len(s)
    <3>1. i \in 1..Len(s) /\ u[i] = s[i] /\ j - Len(s) \in 1..Len(t) /\ u[j] = t[j - Len(s)]
      BY <1>1, <1>2, <2>3
    <3> QED BY <3>1 DEF StepsOf
  <2> QED BY <1>1, <2>1, <2>2, <2>3
<1>5. StepsOf(u) = StepsOf(s) \cup StepsOf(t)
  <2>1. StepsOf(u) \subseteq StepsOf(s) \cup StepsOf(t)
    BY <1>1, <1>2 DEF StepsOf
  <2>2. StepsOf(s) \subseteq StepsOf(u) /\ StepsOf(t) \subseteq StepsOf(u)
    BY <1>3 DEF StepsOf
  <2> QED BY <2>1, <2>2
<1> QED BY <1>1, <1>4, <1>5 DEF InTurn, u

-----------------------------------------------------------------------------
(* The invariant of openings.                                              *)

Transactional(k) == k \in {"sqlite", "postgresql"}
Tabled(k) == k \in {"sqlite", "degraded", "postgresql"}
HasProfile(k) == k \in {"degraded", "clickhouse"}

\* A store that an opening takes for one, with or without the ownership.
Settled(k, d) == /\ "meta" \in d.tables /\ Required \ {"ownership"} \subseteq DOMAIN d.keys
                 /\ HasProfile(k) => "profile" \in DOMAIN d.keys
Distinct(d) == \A r, s \in d.rows : r[2] = s[2] => r = s
Owned(d) == d.claims = d.rows /\ Distinct(d)
\* ClickHouse has no claims, and no record is added to those of a store.
Sole(k, d) == IF k = "clickhouse" THEN Distinct(d) ELSE Owned(d)
Promised(d, v) == DOMAIN Schema[v] \subseteq d.tables /\ Columns(v, DOMAIN Schema[v]) \subseteq d.columns

\* The failures whose clean-up drops tables that another process may have made
\* anew, or has opened, are left out (see CleanUpHarmless).
FaultsLeaveNothing == FaultsAt["postgresql"] \cap {"owners", "stamp"} = {} /\ "unfence" \notin FaultsAt["clickhouse"]

\* What is durable, or what a transaction sees, is no store yet or a sound one.
DbSound(k, d) ==
  /\ "meta" \notin d.tables => DOMAIN d.keys = {} /\ "owners" \notin d.tables
  /\ "schemas" \in DOMAIN d.keys => d.keys["schemas"] \in DOMAIN Schema
  /\ d.claims \subseteq d.rows
  /\ ~Settled(k, d) => d.rows = {} /\ d.marker = None /\ (Tabled(k) => "records" \notin d.tables)
  /\ k = "clickhouse" => d.claims = {} /\ "owners" \notin d.tables
  /\ Tabled(k) /\ "records" \notin d.tables => d.tables \subseteq {"meta", "owners"}
  /\ Settled(k, d) /\ "ownership" \in DOMAIN d.keys => Sole(k, d) /\ (k # "clickhouse" => "owners" \in d.tables)
  /\ Tabled(k) /\ Settled(k, d) /\ "records" \in d.tables => Promised(d, d.keys["schemas"])

\* What those who work with d may rely on is there in e.
Grown(k, d, e) ==
  /\ d.tables \cap {"meta", "owners"} \subseteq e.tables /\ DOMAIN d.keys \subseteq DOMAIN e.keys
  /\ Tabled(k) => d.tables \subseteq e.tables /\ d.columns \subseteq e.columns
  /\ Owned(d) => Owned(e)
  /\ k = "clickhouse" => e.rows = d.rows
  /\ "schemas" \in DOMAIN d.keys /\ d.keys["schemas"] # e.keys["schemas"] => (Tabled(k) => "records" \in e.tables)

\* The code of r can work with the store.
Fits(k, r, d) == Tabled(k) /\ "records" \notin d.tables => d.keys["schemas"] = r.ver

Marks(k) == IF ~HasProfile(k) THEN {"owners", "stamp"}
            ELSE {"protocol", "schemas", "timestamps", "ownership", "profile"} \cup (IF k = "degraded" THEN {"owners"} ELSE {"unfence"})
\* A first opening, with S still to do: after the metadata table, before it, and
\* the one of MongoDB.
Begun(k, r, d, S) ==
  /\ S \subseteq Marks(k) /\ "meta" \in r.made
  /\ k # "clickhouse" /\ "owners" \notin S => "owners" \in r.made /\ "owners" \in d.tables
  /\ "owners" \in S => "owners" \notin r.made /\ Marks(k) \subseteq S
  /\ HasProfile(k) => Required \cup {"profile"} \subseteq DOMAIN d.keys \cup S /\ ("schemas" \notin S => Fits(k, r, d))
  /\ ~HasProfile(k) /\ "stamp" \notin S => Required \subseteq DOMAIN d.keys /\ Fits(k, r, d)
  /\ r.ready => "ownership" \in DOMAIN d.keys
Coming(k, r, S) ==
  /\ r.made = {} /\ ~r.ready
  /\ Marks(k) \subseteq S /\ S \subseteq Marks(k) \cup {"meta"} \cup (IF k = "clickhouse" THEN {"fence", "recheck"} ELSE {})
LayoutOk(k, r, d, S) ==
  /\ S \subseteq {"layout", "owners", "ownership"} /\ r.made = {}
  /\ IF "layout" \in S THEN S = {"layout", "owners", "ownership"} /\ ~r.ready
     ELSE /\ Settled(k, d) /\ Fits(k, r, d) /\ Owned(d)
          /\ "owners" \notin S => "owners" \in d.tables
          /\ "ownership" \notin S => "ownership" \in DOMAIN d.keys
          /\ r.ready => "ownership" \in DOMAIN d.keys
FirstOk(k, r, d, S) == IF k = "mongo" THEN LayoutOk(k, r, d, S) 
                       ELSE IF "meta" \in S THEN Coming(k, r, S) ELSE Begun(k, r, d, S)

Upgrades(k) == CASE k = "clickhouse" -> {"lease", "claims", "ownership"}
                 [] k = "mongo" -> {"lease", "owners", "claims", "ownership", "unlease", "restamp"}
                 [] k = "degraded" -> {"lease", "owners", "claims", "ownership", "tables", "column", "restamp"}
                 [] OTHER -> {"owners", "claims", "ownership", "tables", "column", "restamp"}
\* An opening of a store, with the steps of an upgrade still to do.
OpenOk(k, r, d, S) ==
  /\ S \subseteq Upgrades(k)
  /\ "ownership" \in S => /\ k # "clickhouse" /\ "owners" \notin S => "owners" \in d.tables
                          /\ "claims" \notin S => Sole(k, d)
  /\ IF "restamp" \in S
     THEN /\ Tabled(k) /\ "records" \notin d.tables => IsAdditive(d.keys["schemas"], r.ver)
          /\ Tabled(k) /\ "tables" \notin S => DOMAIN Schema[r.ver] \subseteq d.tables /\ r.seen \subseteq d.columns
          /\ Tabled(k) /\ "column" \notin S => Promised(d, r.ver)
     ELSE Fits(k, r, d) /\ "tables" \notin S /\ "column" \notin S

IngestSteps == {"lease", "marker", "relations", "reload", "load", "project", "verify", "sweep", "clear"}
IngestOk(k, r, d, S) == k = "clickhouse" /\ r.ready /\ Fits(k, r, d) /\ S \subseteq IngestSteps
InUse(k, r, d) == r.made = {} /\ Settled(k, d) /\ (r.ready => "ownership" \in DOMAIN d.keys)

ProcOk(k, r, d) ==
  /\ r.ver \in DOMAIN Schema /\ r.made \subseteq {"meta", "owners"}
  /\ r.pc \in {"out", "read", "run", "clean", "undo", "open", "dead"} /\ r.job \in {"first", "open", "ingest"}
  /\ r.pc \in {"out", "read", "dead"} => r.made = {} /\ r.job # "ingest"
  /\ r.pc = "clean" => r.job = "first" /\ "meta" \in r.made /\ k # "mongo"
  /\ r.pc = "open" => InUse(k, r, d) /\ Fits(k, r, d)
  /\ r.pc = "undo" => r.job = "ingest" /\ InUse(k, r, d) /\ IngestOk(k, r, d, {})
  /\ r.pc = "run" => /\ InTurn(r.todo)
                     /\ r.job = "first" => FirstOk(k, r, d, StepsOf(r.todo))
                     /\ r.job = "open" => InUse(k, r, d) /\ OpenOk(k, r, d, StepsOf(r.todo))
                     /\ r.job = "ingest" => InUse(k, r, d) /\ IngestOk(k, r, d, StepsOf(r.todo))

\* r has made tables of a store that is not one yet.
MakerOk(k, r, d) ==
  r.made # {} =>
    /\ "meta" \in d.tables
    /\ "owners" \notin r.made => "owners" \notin d.tables
    /\ HasProfile(k) /\ "profile" \in DOMAIN d.keys => r.pc = "run" /\ StepsOf(r.todo) \subseteq {"unfence"}
    /\ ~HasProfile(k) /\ r.pc = "run" /\ "stamp" \in StepsOf(r.todo) => DOMAIN d.keys = {}

DbFields == {"tables", "columns", "keys", "rows", "claims", "lease", "fence", "marker", "stage", "bulk"}
ProcFields == {"pc", "job", "ver", "upgrade", "todo", "made", "seen", "ready", "marked", "keep", "built", "held", "opens"}
Shapes == /\ DOMAIN db = DbFields /\ DOMAIN tx = DbFields /\ proc = [p \in Procs |-> proc[p]] /\ \A p \in Procs : DOMAIN proc[p] = ProcFields
          /\ deployment \in Deployments /\ lock \in Procs \cup {None}

\* A transaction in progress goes on from what is durable.
TxOk ==
  LET r == proc[lock]
  IN  lock # None =>
        /\ Transactional(deployment) /\ r.pc = "run" /\ DbSound(deployment, tx) /\ Grown(deployment, db, tx)
        /\ r.made = {} => r.job = "open" /\ Settled(deployment, db)
        /\ r.made # {} /\ deployment = "sqlite" => r.todo = <<>>
\* Who makes a store is alone with it.
MakingOk(p) ==
  proc[p].made # {} => /\ deployment = "postgresql" => proc[p].pc = "run" /\ lock = p
                       /\ ~HasProfile(deployment) /\ lock # p => DOMAIN db.keys = {}
                       /\ \A q \in Procs : proc[q].made # {} => q = p

OpenInv ==
  /\ Shapes
  /\ DbSound(deployment, db)
  /\ TxOk
  /\ \A p \in Procs : ProcOk(deployment, proc[p], View(p)) /\ MakerOk(deployment, proc[p], View(p)) /\ MakingOk(p)

\* No ingest has left a part of itself, or its marker says so.
Clean(d) == "made" \in DOMAIN d.stage /\ (d.marker = None => d.bulk \in {0, 2} /\ ~d.stage.made)

\* The process whose marker it is holds the lease, and what it has still to do is the end of the ingest.
MarkingOk(k, r, p, d) ==
  LET S == StepsOf(r.todo)
  IN  /\ r.marked => k = "clickhouse" /\ r.job = "ingest" /\ r.pc \in {"run", "undo"} /\ d.marker = p /\ d.lease = p
      /\ r.pc = "undo" => r.marked
      /\ r.pc = "run" /\ r.job = "ingest" =>
           /\ \A s \in S, t \in {"relations", "verify", "sweep", "clear"} : Rank[s] < Rank[t] => t \in S
           /\ r.marked <=> "marker" \notin S /\ S # {}
           /\ r.marked /\ "verify" \notin S => d.bulk = 2
           /\ r.marked /\ "sweep" \notin S => ~d.stage.made
           /\ r.marked /\ "relations" \notin S => "records" \in r.built
      /\ r.marked /\ "records" \notin r.built => d.bulk \in {0, 2}

IngestInv ==
  /\ Clean(db) /\ (lock # None => Clean(tx))
  /\ \A p \in Procs : MarkingOk(deployment, proc[p], p, db)

-----------------------------------------------------------------------------
(* Versions.                                                               *)

LEMMA AdditiveSelf ==
  ASSUME NEW a
  PROVE  IsAdditive(a, a)
BY DEF IsAdditive

LEMMA AdditiveChain ==
  ASSUME NEW a, NEW b, NEW c, IsAdditive(a, b), IsAdditive(b, c)
  PROVE  IsAdditive(a, c)
<1> SUFFICES ASSUME NEW t \in DOMAIN Schema[a]
             PROVE  /\ t \in DOMAIN Schema[c] /\ Schema[c][t].fixed = Schema[a][t].fixed
                    /\ Schema[a][t].fields \subseteq Schema[c][t].fields
                    /\ Schema[c][t].fields \ Schema[a][t].fields \subseteq Addable
  BY DEF IsAdditive
<1>1. /\ t \in DOMAIN Schema[b] /\ Schema[b][t].fixed = Schema[a][t].fixed
      /\ Schema[a][t].fields \subseteq Schema[b][t].fields
      /\ Schema[b][t].fields \ Schema[a][t].fields \subseteq Addable
  BY DEF IsAdditive
<1>2. /\ t \in DOMAIN Schema[c] /\ Schema[c][t].fixed = Schema[b][t].fixed
      /\ Schema[b][t].fields \subseteq Schema[c][t].fields
      /\ Schema[c][t].fields \ Schema[b][t].fields \subseteq Addable
  BY <1>1 DEF IsAdditive
<1> QED BY <1>1, <1>2

LEMMA PromisedBefore ==
  ASSUME NEW a, NEW b, NEW d, IsAdditive(a, b), Promised(d, b)
  PROVE  Promised(d, a)
<1>1. DOMAIN Schema[a] \subseteq d.tables
  BY DEF IsAdditive, Promised
<1>2. ASSUME NEW x \in Columns(a, DOMAIN Schema[a]) PROVE x \in d.columns
  <2>1. PICK t \in DOMAIN Schema[a] : x \in {t} \X Schema[a][t].fields
    BY <1>2 DEF Columns
  <2>2. t \in DOMAIN Schema[b] /\ x \in {t} \X Schema[b][t].fields
    BY <2>1 DEF IsAdditive
  <2>3. x \in Columns(b, DOMAIN Schema[b])
    BY <2>2 DEF Columns
  <2> QED BY <2>3 DEF Promised
<1> QED BY <1>1, <1>2 DEF Promised

-----------------------------------------------------------------------------
(* A database that grows.                                                  *)

LEMMA OwnedAndSettledGrow ==
  ASSUME NEW k, NEW d, NEW e, Grown(k, d, e), Settled(k, d)
  PROVE  Settled(k, e) /\ "schemas" \in DOMAIN d.keys /\ "schemas" \in DOMAIN e.keys
BY DEF Grown, Settled, Required

LEMMA FitsGrows ==
  ASSUME NEW k, NEW r, NEW d, NEW e, Grown(k, d, e), "schemas" \in DOMAIN d.keys, Fits(k, r, d)
  PROVE  Fits(k, r, e)
<1>1. CASE d.keys["schemas"] = e.keys["schemas"]
  BY <1>1 DEF Fits, Grown
<1>2. CASE d.keys["schemas"] # e.keys["schemas"]
  <2>1. Tabled(k) => "records" \in e.tables
    BY <1>2 DEF Grown
  <2> QED BY <2>1 DEF Fits
<1> QED BY <1>1, <1>2

LEMMA GrownChain ==
  ASSUME NEW k, NEW d, NEW e, NEW f, Grown(k, d, e), Grown(k, e, f)
  PROVE  Grown(k, d, f)
<1>1. d.tables \cap {"meta", "owners"} \subseteq f.tables /\ DOMAIN d.keys \subseteq DOMAIN f.keys
  BY DEF Grown
<1>2. Tabled(k) => d.tables \subseteq f.tables /\ d.columns \subseteq f.columns
  BY DEF Grown
<1>3. Owned(d) => Owned(f)
  BY DEF Grown
<1>4. ASSUME "schemas" \in DOMAIN d.keys, d.keys["schemas"] # f.keys["schemas"]
      PROVE  Tabled(k) => "records" \in f.tables
  <2>1. "schemas" \in DOMAIN e.keys
    BY <1>4 DEF Grown
  <2>2. CASE d.keys["schemas"] = e.keys["schemas"]
    BY <1>4, <2>1, <2>2 DEF Grown
  <2>3. CASE d.keys["schemas"] # e.keys["schemas"] /\ e.keys["schemas"] = f.keys["schemas"]
    BY <1>4, <2>1, <2>3 DEF Grown
  <2>4. CASE d.keys["schemas"] # e.keys["schemas"] /\ e.keys["schemas"] # f.keys["schemas"]
    BY <1>4, <2>1, <2>4 DEF Grown
  <2> QED BY <2>2, <2>3, <2>4
<1> QED BY <1>1, <1>2, <1>3, <1>4 DEF Grown

\* Nothing of a database that an opening looks at has changed.
Untouched(k, d, e) ==
  /\ e.keys = d.keys /\ e.rows = d.rows /\ e.claims = d.claims /\ e.columns = d.columns
  /\ Tabled(k) => e.tables = d.tables
  /\ Settled(k, d) \/ e.marker \in {d.marker, None}
  /\ \A t \in {"meta", "owners"} : t \in d.tables <=> t \in e.tables

LEMMA UntouchedGrows ==
  ASSUME NEW k, NEW d, NEW e, Untouched(k, d, e)
  PROVE  /\ Grown(k, d, e) /\ Grown(k, e, d)
         /\ Settled(k, d) <=> Settled(k, e)
         /\ DbSound(k, d) => DbSound(k, e)
<1>1. Grown(k, d, e) /\ Grown(k, e, d)
  BY DEF Untouched, Grown, Owned, Distinct
<1>2. Settled(k, d) <=> Settled(k, e)
  BY DEF Untouched, Settled
<1>3. DbSound(k, d) => DbSound(k, e)
  BY <1>2 DEF Untouched, DbSound, Owned, Sole, Distinct, Promised
<1> QED BY <1>1, <1>2, <1>3

LEMMA UntouchedChain ==
  ASSUME NEW k, NEW d, NEW e, NEW f, Untouched(k, d, e), Untouched(k, e, f)
  PROVE  Untouched(k, d, f)
<1>1. Settled(k, d) <=> Settled(k, e)
  BY UntouchedGrows
<1> QED BY <1>1 DEF Untouched

LEMMA FirstGrows ==
  ASSUME NEW k, NEW r, NEW d, NEW e, NEW S, Grown(k, d, e), FirstOk(k, r, d, S)
  PROVE  FirstOk(k, r, e, S)
<1>1. CASE k = "mongo"
  <2>1. LayoutOk(k, r, d, S)
    BY <1>1 DEF FirstOk
  <2>2. CASE "layout" \in S
    BY <1>1, <2>1, <2>2 DEF FirstOk, LayoutOk
  <2>3. CASE "layout" \notin S
    <3>1. /\ Settled(k, d) /\ Fits(k, r, d) /\ Owned(d)
          /\ "owners" \notin S => "owners" \in d.tables
          /\ "ownership" \notin S => "ownership" \in DOMAIN d.keys
          /\ r.ready => "ownership" \in DOMAIN d.keys
      BY <2>1, <2>3 DEF LayoutOk
    <3>2. Settled(k, e) /\ Fits(k, r, e)
      BY <3>1, OwnedAndSettledGrow, FitsGrows
    <3>3. /\ Owned(e)
          /\ "owners" \notin S => "owners" \in e.tables
          /\ "ownership" \notin S => "ownership" \in DOMAIN e.keys
          /\ r.ready => "ownership" \in DOMAIN e.keys
      BY <3>1 DEF Grown
    <3> QED BY <1>1, <2>1, <2>3, <3>2, <3>3 DEF FirstOk, LayoutOk
  <2> QED BY <2>2, <2>3
<1>2. CASE k # "mongo" /\ "meta" \in S
  BY <1>2 DEF FirstOk
<1>3. CASE k # "mongo" /\ "meta" \notin S
  <2>1. Begun(k, r, d, S)
    BY <1>3 DEF FirstOk
  <2>2. DOMAIN d.keys \subseteq DOMAIN e.keys /\ ("owners" \in d.tables => "owners" \in e.tables)
    BY DEF Grown
  <2>3. ASSUME HasProfile(k) PROVE Required \cup {"profile"} \subseteq DOMAIN e.keys \cup S /\ ("schemas" \notin S => Fits(k, r, e))
    <3>1. Required \cup {"profile"} \subseteq DOMAIN d.keys \cup S /\ ("schemas" \notin S => Fits(k, r, d))
      BY <2>1, <2>3 DEF Begun
    <3>2. "schemas" \notin S => "schemas" \in DOMAIN d.keys
      BY <3>1 DEF Required
    <3> QED BY <2>2, <3>1, <3>2, FitsGrows
  <2>4. ASSUME ~HasProfile(k), "stamp" \notin S PROVE Required \subseteq DOMAIN e.keys /\ Fits(k, r, e)
    <3>1. Required \subseteq DOMAIN d.keys /\ Fits(k, r, d)
      BY <2>1, <2>4 DEF Begun
    <3>2. "schemas" \in DOMAIN d.keys
      BY <3>1 DEF Required
    <3> QED BY <2>2, <3>1, <3>2, FitsGrows
  <2> QED BY <1>3, <2>1, <2>2, <2>3, <2>4 DEF Begun, FirstOk
<1> QED BY <1>1, <1>2, <1>3

LEMMA UpgradeGrows ==
  ASSUME NEW k, NEW r, NEW d, NEW e, NEW S, Grown(k, d, e), DbSound(k, d), DbSound(k, e), r.ver \in DOMAIN Schema,
         Settled(k, d), OpenOk(k, r, d, S)
  PROVE  OpenOk(k, r, e, S)
<1>1. Settled(k, e) /\ "schemas" \in DOMAIN d.keys /\ "schemas" \in DOMAIN e.keys
  BY OwnedAndSettledGrow
<1>2. "ownership" \in S => /\ k # "clickhouse" /\ "owners" \notin S => "owners" \in e.tables
                           /\ "claims" \notin S => Sole(k, e)
  <2>1. Sole(k, d) => Sole(k, e)
    BY DEF Grown, Sole, Distinct
  <2> QED BY <2>1 DEF OpenOk, Grown
<1>3. CASE "restamp" \notin S
  <2>1. Fits(k, r, e)
    BY <1>1, <1>3, FitsGrows DEF OpenOk
  <2> QED BY <1>2, <1>3, <2>1 DEF OpenOk
<1>4. CASE "restamp" \in S
  <2>1. /\ Tabled(k) /\ "records" \notin d.tables => IsAdditive(d.keys["schemas"], r.ver)
        /\ Tabled(k) /\ "tables" \notin S => DOMAIN Schema[r.ver] \subseteq d.tables /\ r.seen \subseteq d.columns
        /\ Tabled(k) /\ "column" \notin S => Promised(d, r.ver)
    BY <1>4 DEF OpenOk
  <2>2. d.keys["schemas"] \in DOMAIN Schema /\ e.keys["schemas"] \in DOMAIN Schema
    BY <1>1 DEF DbSound
  <2>4. ASSUME Tabled(k), "records" \notin e.tables PROVE IsAdditive(e.keys["schemas"], r.ver)
    <3>1. d.tables \subseteq e.tables /\ d.keys["schemas"] = e.keys["schemas"]
      BY <1>1, <2>4 DEF Grown
    <3> QED BY <2>1, <2>4, <3>1
  <2>5. Tabled(k) => d.tables \subseteq e.tables /\ d.columns \subseteq e.columns
    BY DEF Grown
  <2>6. Tabled(k) /\ "column" \notin S => Promised(e, r.ver)
    BY <2>1, <2>5 DEF Promised
  <2>7. Tabled(k) /\ "tables" \notin S => DOMAIN Schema[r.ver] \subseteq e.tables /\ r.seen \subseteq e.columns
    BY <2>1, <2>5
  <2>8. S \subseteq Upgrades(k)
    BY DEF OpenOk
  <2> QED BY <1>2, <1>4, <2>1, <2>4, <2>6, <2>7, <2>8 DEF OpenOk
<1> QED BY <1>3, <1>4

LEMMA ProcGrows ==
  ASSUME NEW k, NEW r, NEW d, NEW e, Grown(k, d, e), DbSound(k, d), DbSound(k, e), ProcOk(k, r, d)
  PROVE  ProcOk(k, r, e)
<1>1. InUse(k, r, d) => InUse(k, r, e) /\ "schemas" \in DOMAIN d.keys
  <2> SUFFICES ASSUME InUse(k, r, d) PROVE InUse(k, r, e) /\ "schemas" \in DOMAIN d.keys
    OBVIOUS
  <2>1. Settled(k, e) /\ "schemas" \in DOMAIN d.keys
    BY OwnedAndSettledGrow DEF InUse
  <2>2. r.ready => "ownership" \in DOMAIN e.keys
    BY DEF InUse, Grown
  <2> QED BY <2>1, <2>2 DEF InUse
<1>2. /\ r.ver \in DOMAIN Schema /\ r.made \subseteq {"meta", "owners"}
      /\ r.pc \in {"out", "read", "run", "clean", "undo", "open", "dead"} /\ r.job \in {"first", "open", "ingest"}
      /\ r.pc \in {"out", "read", "dead"} => r.made = {} /\ r.job # "ingest"
      /\ r.pc = "clean" => r.job = "first" /\ "meta" \in r.made /\ k # "mongo"
  BY DEF ProcOk
<1>3. r.pc = "open" => InUse(k, r, e) /\ Fits(k, r, e)
  BY <1>1, FitsGrows DEF ProcOk
<1>4. ASSUME NEW S, InUse(k, r, d), IngestOk(k, r, d, S) PROVE InUse(k, r, e) /\ IngestOk(k, r, e, S)
  <2>1. InUse(k, r, e) /\ Fits(k, r, e)
    BY <1>1, <1>4, FitsGrows DEF IngestOk
  <2> QED BY <1>4, <2>1 DEF IngestOk
<1>5. r.pc = "undo" => r.job = "ingest" /\ InUse(k, r, e) /\ IngestOk(k, r, e, {})
  BY <1>4 DEF ProcOk
<1>6. ASSUME r.pc = "run"
      PROVE  /\ InTurn(r.todo)
             /\ r.job = "first" => FirstOk(k, r, e, StepsOf(r.todo))
             /\ r.job = "open" => InUse(k, r, e) /\ OpenOk(k, r, e, StepsOf(r.todo))
             /\ r.job = "ingest" => InUse(k, r, e) /\ IngestOk(k, r, e, StepsOf(r.todo))
  <2>1. InTurn(r.todo)
    BY <1>6 DEF ProcOk
  <2>2. r.job = "first" => FirstOk(k, r, e, StepsOf(r.todo))
    BY <1>6, FirstGrows DEF ProcOk
  <2>3. ASSUME r.job = "open" PROVE InUse(k, r, e) /\ OpenOk(k, r, e, StepsOf(r.todo))
    <3>1. InUse(k, r, d) /\ OpenOk(k, r, d, StepsOf(r.todo))
      BY <1>6, <2>3 DEF ProcOk
    <3>2. Settled(k, d)
      BY <3>1 DEF InUse
    <3> QED BY <1>1, <1>2, <3>1, <3>2, UpgradeGrows
  <2>4. r.job = "ingest" => InUse(k, r, e) /\ IngestOk(k, r, e, StepsOf(r.todo))
    BY <1>4, <1>6 DEF ProcOk
  <2> QED BY <2>1, <2>2, <2>3, <2>4
<1> QED BY <1>2, <1>3, <1>5, <1>6 DEF ProcOk

\* Whoever has made nothing does not rely on a store that is none yet.
LEMMA ProcIdle ==
  ASSUME NEW k, NEW r, NEW d, NEW e, ProcOk(k, r, d), r.made = {}, ~Settled(k, d)
  PROVE  ProcOk(k, r, e)
<1>1. r.pc \notin {"open", "undo", "clean"} /\ (r.pc = "run" => r.job = "first")
  BY DEF ProcOk, InUse
<1>2. r.pc = "run" => FirstOk(k, r, e, StepsOf(r.todo))
  <2> SUFFICES ASSUME r.pc = "run" PROVE FirstOk(k, r, e, StepsOf(r.todo))
    OBVIOUS
  <2>1. FirstOk(k, r, d, StepsOf(r.todo))
    BY <1>1 DEF ProcOk
  <2> QED BY <2>1 DEF FirstOk, LayoutOk, Begun
<1> QED BY <1>1, <1>2 DEF ProcOk

LEMMA MakerGrows ==
  ASSUME NEW k, NEW r, NEW d, NEW e, Grown(k, d, e), DbSound(k, d), DbSound(k, e), ProcOk(k, r, d), MakerOk(k, r, d),
         Settled(k, d) \/ Untouched(k, d, e), HasProfile(k) \/ r.made = {} \/ DOMAIN d.keys = {}
  PROVE  MakerOk(k, r, e)
<1> SUFFICES ASSUME r.made # {}
             PROVE  /\ "meta" \in e.tables
                    /\ "owners" \notin r.made => "owners" \notin e.tables
                    /\ HasProfile(k) /\ "profile" \in DOMAIN e.keys => r.pc = "run" /\ StepsOf(r.todo) \subseteq {"unfence"}
                    /\ ~HasProfile(k) /\ r.pc = "run" /\ "stamp" \in StepsOf(r.todo) => DOMAIN e.keys = {}
  BY DEF MakerOk
<1>1. /\ "meta" \in d.tables
      /\ "owners" \notin r.made => "owners" \notin d.tables
      /\ HasProfile(k) /\ "profile" \in DOMAIN d.keys => r.pc = "run" /\ StepsOf(r.todo) \subseteq {"unfence"}
      /\ ~HasProfile(k) /\ r.pc = "run" /\ "stamp" \in StepsOf(r.todo) => DOMAIN d.keys = {}
  BY DEF MakerOk
<1>2. CASE Untouched(k, d, e)
  BY <1>1, <1>2 DEF Untouched
<1>3. CASE Settled(k, d)
  <2>1. HasProfile(k) /\ "profile" \in DOMAIN d.keys
    BY <1>3 DEF Settled, Required
  <2>2. r.pc = "run" /\ StepsOf(r.todo) \subseteq {"unfence"} /\ "meta" \in e.tables
    BY <1>1, <2>1 DEF Grown
  <2>3. "owners" \notin r.made => "owners" \notin e.tables
    <3>1. CASE k = "clickhouse"
      BY <3>1 DEF DbSound
    <3>2. CASE k # "clickhouse"
      <4>1. k = "degraded" /\ r.job = "first"
        BY <2>1, <2>2, <3>2 DEF HasProfile, ProcOk, InUse
      <4>2. FirstOk(k, r, d, StepsOf(r.todo))
        BY <2>2, <4>1 DEF ProcOk
      <4>3. "owners" \in r.made
        BY <2>2, <4>1, <4>2 DEF FirstOk, Begun, Coming
      <4> QED BY <4>3
    <3> QED BY <3>1, <3>2
  <2> QED BY <2>1, <2>2, <2>3
<1> QED BY <1>2, <1>3

-----------------------------------------------------------------------------
(* Steps.                                                                  *)

\* What a process has before a step of it.
SoundFor(p) == /\ Shapes /\ DbSound(deployment, db) /\ TxOk
             /\ ProcOk(deployment, proc[p], View(p)) /\ MakerOk(deployment, proc[p], View(p)) /\ MakingOk(p)

LEMMA ViewFacts ==
  ASSUME OpenInv, NEW p \in Procs
  PROVE  /\ SoundFor(p) /\ DOMAIN View(p) = DbFields /\ DbSound(deployment, View(p)) /\ Grown(deployment, db, View(p))
         /\ lock # p => View(p) = db
         /\ lock = p => View(p) = tx
         /\ lock # p /\ lock # None => lock \in Procs
         /\ ~Transactional(deployment) => lock = None
         /\ None \notin Procs
<1>1. SoundFor(p) /\ None \notin Procs
  BY OpeningAssumption DEF OpenInv, SoundFor
<1>2. DOMAIN View(p) = DbFields /\ (lock # p => View(p) = db) /\ (lock = p => View(p) = tx)
  BY <1>1 DEF SoundFor, Shapes, View
<1>3. (lock # p /\ lock # None => lock \in Procs) /\ (~Transactional(deployment) => lock = None)
  BY <1>1 DEF SoundFor, Shapes, TxOk
<1>4. lock = p => DbSound(deployment, tx) /\ Grown(deployment, db, tx)
  BY <1>1 DEF SoundFor, TxOk
<1>5. DbSound(deployment, db) /\ Grown(deployment, db, db)
  BY <1>1 DEF SoundFor, Grown
<1> QED BY <1>1, <1>2, <1>3, <1>4, <1>5

\* The making of another store is not disturbed.
Polite(p, d, e) == Settled(deployment, d) \/ Untouched(deployment, d, e) \/ \A q \in Procs : proc[q].made # {} => q = p

\* Of r, which p becomes, if the database becomes d.
Becomes(p, r, d) == DOMAIN r = ProcFields /\ ProcOk(deployment, r, d) /\ MakerOk(deployment, r, d)

\* What p writes is durable at once, and p is not in a transaction.
LEMMA DurableStep ==
  ASSUME OpenInv, NEW p \in Procs, NEW d, NEW r, lock = None, lock' = None, tx' = tx, deployment' = deployment,
         db' = d, proc' = [proc EXCEPT ![p] = r], DOMAIN d = DbFields,
         DbSound(deployment, d), Grown(deployment, db, d), Polite(p, db, d), Becomes(p, r, d),
         r.made # {} => /\ deployment # "postgresql" /\ (~HasProfile(deployment) => DOMAIN d.keys = {})
                        /\ \A q \in Procs : proc[q].made # {} => q = p
  PROVE  OpenInv'
<1>1. Shapes'
  BY DEF OpenInv, Shapes, Becomes
<1>2. DbSound(deployment', db')
  OBVIOUS
<1>3. TxOk'
  BY DEF TxOk
<1>4. ASSUME NEW q \in Procs
      PROVE  ProcOk(deployment, proc[q], View(q))' /\ MakerOk(deployment, proc[q], View(q))' /\ MakingOk(q)'
  <2>1. View(q)' = d /\ View(q) = db
    BY OpeningAssumption DEF View
  <2>2. CASE q = p
    <3>1. proc'[q] = r
      BY <2>2 DEF OpenInv, Shapes
    <3>2. MakingOk(q)'
      <4> SUFFICES ASSUME r.made # {}
                   PROVE  /\ deployment = "postgresql" => proc'[p].pc = "run" /\ lock' = p
                          /\ ~HasProfile(deployment) /\ lock' # p => DOMAIN d.keys = {}
                          /\ \A o \in Procs : proc'[o].made # {} => o = p
        BY <2>2, <3>1 DEF MakingOk
      <4>1. ASSUME NEW o \in Procs, o # p PROVE proc'[o] = proc[o]
        BY <4>1 DEF OpenInv, Shapes
      <4> QED BY <4>1
    <3> QED BY <2>1, <3>1, <3>2 DEF Becomes
  <2>3. CASE q # p
    <3>1. proc'[q] = proc[q] /\ proc'[p] = r
      BY <2>3 DEF OpenInv, Shapes
    <3>2. DbSound(deployment, db) /\ ProcOk(deployment, proc[q], db) /\ MakerOk(deployment, proc[q], db) /\ MakingOk(q)
      BY <2>1 DEF OpenInv
    <3>3. ProcOk(deployment, proc[q], d)
      BY <3>2, ProcGrows
    <3>4. proc[q].made # {} => Settled(deployment, db) \/ Untouched(deployment, db, d)
      BY <2>3 DEF Polite
    <3>5. proc[q].made # {} /\ ~HasProfile(deployment) => DOMAIN db.keys = {}
      BY <3>2, OpeningAssumption DEF MakingOk
    <3>6. MakerOk(deployment, proc[q], d)
      <4>1. CASE proc[q].made = {}
        BY <4>1 DEF MakerOk
      <4>2. CASE proc[q].made # {}
        BY <3>2, <3>4, <3>5, <4>2, MakerGrows
      <4> QED BY <4>1, <4>2
    <3>7. MakingOk(q)'
      <4> SUFFICES ASSUME proc[q].made # {}
                   PROVE  /\ deployment = "postgresql" => proc[q].pc = "run" /\ lock' = q
                          /\ ~HasProfile(deployment) /\ lock' # q => DOMAIN d.keys = {}
                          /\ \A o \in Procs : proc'[o].made # {} => o = q
        BY <3>1 DEF MakingOk
      <4>1. deployment # "postgresql" /\ \A o \in Procs : proc[o].made # {} => o = q
        BY <3>2, OpeningAssumption DEF MakingOk
      <4>2. ~HasProfile(deployment) => DOMAIN d.keys = {}
        <5> SUFFICES ASSUME ~HasProfile(deployment) PROVE DOMAIN d.keys = {}
          OBVIOUS
        <5>1. DOMAIN db.keys = {}
          BY <3>5
        <5>2. ~Settled(deployment, db)
          BY <5>1 DEF Settled, Required
        <5> QED BY <3>4, <5>1, <5>2 DEF Untouched
      <4>3. r.made = {}
        BY <2>3
      <4>4. \A o \in Procs : proc'[o] = IF o = p THEN r ELSE proc[o]
        BY DEF OpenInv, Shapes
      <4> QED BY <4>1, <4>2, <4>3, <4>4
    <3> QED BY <2>1, <3>1, <3>3, <3>6, <3>7
  <2> QED BY <2>2, <2>3
<1> QED BY <1>1, <1>2, <1>3, <1>4 DEF OpenInv

\* What p writes belongs to its transaction.
Joins(p, r, d) ==
  /\ Transactional(deployment) /\ DOMAIN d = DbFields /\ DbSound(deployment, d) /\ Grown(deployment, View(p), d)
  /\ Becomes(p, r, d) /\ r.pc = "run"
  /\ r.made = {} => r.job = "open" /\ proc[p].made = {} /\ Settled(deployment, View(p))
  /\ r.made # {} => /\ deployment = "sqlite" => r.todo = <<>>
                    /\ \A q \in Procs : proc[q].made # {} => q = p

LEMMA PendingStep ==
  ASSUME OpenInv, NEW p \in Procs, NEW d, NEW r, lock = None \/ lock = p, lock' = p, db' = db, deployment' = deployment,
         tx' = d, proc' = [proc EXCEPT ![p] = r], Joins(p, r, d)
  PROVE  OpenInv'
<1> USE DEF Joins
<1>1. Shapes'
  BY DEF OpenInv, Shapes, Becomes
<1>2. DbSound(deployment', db')
  BY DEF OpenInv
<1>v. SoundFor(p) /\ Grown(deployment, db, View(p)) /\ (lock # p => View(p) = db) /\ None \notin Procs
  BY ViewFacts
<1>p. proc'[p] = r /\ \A q \in Procs : q # p => proc'[q] = proc[q]
  BY DEF OpenInv, Shapes
<1>3. TxOk'
  <2>1. Grown(deployment, db, d)
    BY <1>v, GrownChain
  <2>2. r.made = {} => Settled(deployment, db)
    <3>1. CASE lock # p
      BY <1>v, <3>1
    <3>2. CASE lock = p
      BY <1>v, <3>2 DEF SoundFor, TxOk
    <3> QED BY <3>1, <3>2
  <2> QED BY <1>p, <2>1, <2>2 DEF TxOk
<1>4. ASSUME NEW q \in Procs
      PROVE  ProcOk(deployment, proc[q], View(q))' /\ MakerOk(deployment, proc[q], View(q))' /\ MakingOk(q)'
  <2>2. CASE q = p
    <3>1. proc'[q] = r /\ View(q)' = d
      BY <1>p, <2>2 DEF View
    <3>2. MakingOk(q)'
      BY <1>p, <2>2 DEF MakingOk
    <3> QED BY <3>1, <3>2 DEF Becomes
  <2>3. CASE q # p
    <3>1. proc'[q] = proc[q] /\ View(q)' = db /\ View(q) = db /\ lock # q
      BY <1>p, <1>v, <2>3 DEF View
    <3>2. ProcOk(deployment, proc[q], db) /\ MakerOk(deployment, proc[q], db) /\ MakingOk(q)
      BY <3>1 DEF OpenInv
    <3>3. MakingOk(q)'
      <4> SUFFICES ASSUME proc[q].made # {}
                   PROVE  /\ deployment = "postgresql" => proc[q].pc = "run" /\ lock' = q
                          /\ ~HasProfile(deployment) /\ lock' # q => DOMAIN db.keys = {}
                          /\ \A o \in Procs : proc'[o].made # {} => o = q
        BY <3>1 DEF MakingOk
      <4>1. deployment # "postgresql" /\ (~HasProfile(deployment) => DOMAIN db.keys = {}) /\ \A o \in Procs : proc[o].made # {} => o = q
        BY <3>1, <3>2 DEF MakingOk
      <4>2. r.made = {}
        BY <2>3
      <4> QED BY <1>p, <4>1, <4>2
    <3> QED BY <3>1, <3>2, <3>3
  <2> QED BY <2>2, <2>3
<1> QED BY <1>1, <1>2, <1>3, <1>4 DEF OpenInv

\* Nothing that an opening looks at changes, except for p.
LEMMA QuietStep ==
  ASSUME OpenInv, NEW p \in Procs, NEW d, NEW r, lock' = lock, tx' = tx, deployment' = deployment,
         db' = d, proc' = [proc EXCEPT ![p] = r], DOMAIN d = DbFields, Untouched(deployment, db, d),
         Becomes(p, r, View(p)), r.made = {} \/ r.made = proc[p].made,
         lock = p \/ (deployment = "postgresql" /\ r.made # {}) => r.pc = "run" /\ r.made = {} /\ proc[p].made = {} /\ r.job = proc[p].job
  PROVE  OpenInv'
<1>v. SoundFor(p) /\ None \notin Procs
  BY ViewFacts
<1>p. proc'[p] = r /\ \A q \in Procs : q # p => proc'[q] = proc[q]
  BY DEF OpenInv, Shapes
<1>g. Grown(deployment, db, d) /\ Grown(deployment, d, db) /\ (Settled(deployment, db) <=> Settled(deployment, d)) /\ DbSound(deployment, d)
  BY <1>v, UntouchedGrows DEF SoundFor
<1>1. Shapes'
  BY DEF OpenInv, Shapes, Becomes
<1>2. DbSound(deployment', db')
  BY <1>g
<1>3. TxOk'
  <2> SUFFICES ASSUME lock # None
               PROVE  /\ Transactional(deployment) /\ proc'[lock].pc = "run" /\ DbSound(deployment, tx) /\ Grown(deployment, d, tx)
                      /\ proc'[lock].made = {} => proc'[lock].job = "open" /\ Settled(deployment, d)
                      /\ proc'[lock].made # {} /\ deployment = "sqlite" => proc'[lock].todo = <<>>
    BY DEF TxOk
  <2>1. /\ Transactional(deployment) /\ proc[lock].pc = "run" /\ DbSound(deployment, tx) /\ Grown(deployment, db, tx)
        /\ proc[lock].made = {} => proc[lock].job = "open" /\ Settled(deployment, db)
        /\ proc[lock].made # {} /\ deployment = "sqlite" => proc[lock].todo = <<>>
        /\ lock \in Procs
    BY <1>v DEF SoundFor, TxOk, Shapes
  <2>2. Grown(deployment, d, tx)
    BY <1>g, <2>1, GrownChain
  <2> QED BY <1>g, <1>p, <2>1, <2>2
<1>4. ASSUME NEW q \in Procs
      PROVE  ProcOk(deployment, proc[q], View(q))' /\ MakerOk(deployment, proc[q], View(q))' /\ MakingOk(q)'
  <2>1. /\ ProcOk(deployment, proc'[q], View(q)) /\ MakerOk(deployment, proc'[q], View(q)) /\ MakingOk(q)
        /\ View(q) = IF lock = q THEN tx ELSE db
        /\ View(q)' = IF lock = q THEN tx ELSE d
    BY <1>p DEF OpenInv, View, Becomes
  <2>2. proc'[q].made = {} \/ proc'[q].made = proc[q].made
    BY <1>p
  <2>3. MakingOk(q)'
    <3> SUFFICES ASSUME proc'[q].made # {}
                 PROVE  /\ deployment = "postgresql" => proc'[q].pc = "run" /\ lock = q
                        /\ ~HasProfile(deployment) /\ lock # q => DOMAIN d.keys = {}
                        /\ \A o \in Procs : proc'[o].made # {} => o = q
      BY DEF MakingOk
    <3>1. /\ deployment = "postgresql" => proc[q].pc = "run" /\ lock = q
          /\ ~HasProfile(deployment) /\ lock # q => DOMAIN db.keys = {}
          /\ \A o \in Procs : proc[o].made # {} => o = q
      BY <2>1, <2>2 DEF MakingOk
    <3>2. \A o \in Procs : proc'[o].made = {} \/ proc'[o].made = proc[o].made
      BY <1>p
    <3>3. deployment = "postgresql" => proc'[q].pc = "run" /\ lock = q
      BY <1>p, <3>1
    <3> QED BY <3>1, <3>2, <3>3 DEF Untouched
  <2>4. CASE lock = q
    BY <2>1, <2>3, <2>4
  <2>5. CASE lock # q
    <3>1. ProcOk(deployment, proc'[q], db) /\ MakerOk(deployment, proc'[q], db) /\ DbSound(deployment, db)
      BY <1>v, <2>1, <2>5 DEF SoundFor
    <3>2. ProcOk(deployment, proc'[q], d)
      BY <1>g, <3>1, ProcGrows
    <3>3. HasProfile(deployment) \/ proc'[q].made = {} \/ DOMAIN db.keys = {}
      BY <2>1, <2>2, <2>5 DEF MakingOk
    <3>4. MakerOk(deployment, proc'[q], d)
      BY <1>g, <3>1, <3>3, MakerGrows
    <3> QED BY <2>1, <2>3, <2>5, <3>2, <3>4
  <2> QED BY <2>4, <2>5
<1> QED BY <1>1, <1>2, <1>3, <1>4 DEF OpenInv

\* p rolls back what it has done in a transaction, and becomes r.
LEMMA EndingStep ==
  ASSUME OpenInv, NEW p \in Procs, NEW d, NEW r, Ended(p), deployment' = deployment,
         db' = d, proc' = [proc EXCEPT ![p] = r], DOMAIN d = DbFields,
         DbSound(deployment, d), Grown(deployment, db, d), Untouched(deployment, db, d) \/ (Polite(p, db, d) /\ lock = None),
         Becomes(p, r, d),
         r.made # {} => /\ r.made = proc[p].made /\ lock # p /\ deployment # "postgresql"
                        /\ ~HasProfile(deployment) => DOMAIN d.keys = {}
  PROVE  OpenInv'
<1>v. SoundFor(p) /\ None \notin Procs /\ (lock # p => View(p) = db)
  BY ViewFacts
<1>p. proc'[p] = r /\ \A q \in Procs : q # p => proc'[q] = proc[q]
  BY DEF OpenInv, Shapes
<1>1. CASE lock = None
  <2>1. lock' = None /\ tx' = tx
    BY <1>1, <1>v DEF Ended
  <2>2. Polite(p, db, d)
    BY DEF Polite
  <2>3. r.made # {} => \A q \in Procs : proc[q].made # {} => q = p
    BY <1>v DEF SoundFor, MakingOk
  <2> QED BY <1>1, <2>1, <2>2, <2>3, DurableStep
<1>2. CASE lock = p
  <2>1. lock' = None /\ tx' = Nothing /\ Untouched(deployment, db, d) /\ r.made = {}
    BY <1>2, <1>v DEF Ended
  <2>2. Shapes'
    BY <2>1 DEF OpenInv, Shapes, Becomes, Nothing, DbFields
  <2>3. TxOk'
    BY <2>1 DEF TxOk
  <2>4. ASSUME NEW q \in Procs
        PROVE  ProcOk(deployment, proc[q], View(q))' /\ MakerOk(deployment, proc[q], View(q))' /\ MakingOk(q)'
    <3>1. View(q)' = d
      BY <1>v, <2>1 DEF View
    <3>2. CASE q = p
      <4>1. MakingOk(q)'
        BY <1>p, <2>1, <3>2 DEF MakingOk
      <4> QED BY <1>p, <3>1, <3>2, <4>1 DEF Becomes
    <3>3. CASE q # p
      <4>1. proc'[q] = proc[q] /\ View(q) = db
        BY <1>2, <1>p, <3>3 DEF View
      <4>2. ProcOk(deployment, proc[q], db) /\ MakerOk(deployment, proc[q], db) /\ MakingOk(q) /\ DbSound(deployment, db)
        BY <4>1 DEF OpenInv
      <4>3. ProcOk(deployment, proc[q], d)
        BY <4>2, ProcGrows
      <4>4. HasProfile(deployment) \/ proc[q].made = {} \/ DOMAIN db.keys = {}
        BY <1>2, <3>3, <4>2 DEF MakingOk
      <4>5. MakerOk(deployment, proc[q], d)
        BY <2>1, <4>2, <4>4, MakerGrows
      <4>6. MakingOk(q)'
        <5> SUFFICES ASSUME proc[q].made # {}
                     PROVE  /\ deployment = "postgresql" => proc[q].pc = "run" /\ lock' = q
                            /\ ~HasProfile(deployment) /\ lock' # q => DOMAIN d.keys = {}
                            /\ \A o \in Procs : proc'[o].made # {} => o = q
          BY <4>1 DEF MakingOk
        <5>1. deployment # "postgresql" /\ (~HasProfile(deployment) => DOMAIN db.keys = {}) /\ \A o \in Procs : proc[o].made # {} => o = q
          BY <1>2, <3>3, <4>2 DEF MakingOk
        <5> QED BY <1>p, <2>1, <5>1 DEF Untouched
      <4> QED BY <3>1, <4>1, <4>3, <4>5, <4>6
    <3> QED BY <3>2, <3>3
  <2> QED BY <2>2, <2>3, <2>4 DEF OpenInv
<1>3. CASE lock \notin {None, p}
  <2>1. lock' = lock /\ tx' = tx /\ Untouched(deployment, db, d) /\ View(p) = db
    BY <1>3, <1>v DEF Ended
  <2>2. ProcOk(deployment, r, d) /\ MakerOk(deployment, r, d) /\ DOMAIN r = ProcFields
    BY DEF Becomes
  <2>3. Grown(deployment, d, db) /\ DbSound(deployment, db) /\ Untouched(deployment, d, db)
    <3>1. Grown(deployment, d, db) /\ (Settled(deployment, db) <=> Settled(deployment, d)) /\ DbSound(deployment, db)
      BY <2>1, <1>v, UntouchedGrows DEF SoundFor
    <3>2. Settled(deployment, d) \/ db.marker = None
      BY <3>1 DEF DbSound
    <3> QED BY <2>1, <3>1, <3>2 DEF Untouched
  <2>4. ProcOk(deployment, r, db)
    BY <2>2, <2>3, ProcGrows
  <2>5. MakerOk(deployment, r, db)
    <3>1. CASE r.made = {}
      BY <3>1 DEF MakerOk
    <3>2. CASE r.made # {}
      BY <2>2, <2>3, <3>2, MakerGrows
    <3> QED BY <3>1, <3>2
  <2>6. Becomes(p, r, View(p))
    BY <2>1, <2>2, <2>4, <2>5 DEF Becomes
  <2>7. r.made = {} \/ r.made = proc[p].made
    OBVIOUS
  <2>8. lock # p /\ ~(deployment = "postgresql" /\ r.made # {})
    BY <1>3
  <2> QED BY <2>1, <2>6, <2>7, <2>8, QuietStep
<1> QED BY <1>1, <1>2, <1>3

\* What a clean-up after an error finds.
LEMMA RaiseStep ==
  ASSUME OpenInv, NEW p \in Procs, NEW d, NEW keep, Raises(p, d, keep), DOMAIN d = DbFields,
         DbSound(deployment, d), Grown(deployment, db, d), Untouched(deployment, db, d) \/ (Polite(p, db, d) /\ lock = None),
         proc[p].pc \in {"read", "run"},
         proc[p].made # {} => /\ deployment # "postgresql" /\ proc[p].todo # <<>> /\ Head(proc[p].todo) # "unfence"
                              /\ Untouched(deployment, db, d) \/ MakerOk(deployment, proc[p], d)
                              /\ ~HasProfile(deployment) => DOMAIN d.keys = DOMAIN db.keys
  PROVE  OpenInv'
<1> DEFINE e == Left(p, d)
           s == [proc[p] EXCEPT !.todo = <<>>, !.keep = keep]
           r == CASE s.job # "ingest" /\ s.made = {} -> Gone(s)
                  [] s.job # "ingest" /\ s.made # {} -> [s EXCEPT !.pc = "clean"]
                  [] s.job = "ingest" /\ s.marked /\ ~At(p, "clear") -> [s EXCEPT !.pc = "undo"]
                  [] OTHER -> [s EXCEPT !.pc = "open", !.job = "open", !.marked = FALSE]
<1>v. /\ SoundFor(p) /\ None \notin Procs /\ (lock # p => View(p) = db) /\ (lock = p => View(p) = tx)
      /\ DOMAIN proc[p] = ProcFields /\ DbSound(deployment, db) /\ (~Transactional(deployment) => lock = None)
  BY ViewFacts DEF SoundFor, Shapes
<1>1. db' = e /\ Ended(p) /\ proc' = [proc EXCEPT ![p] = r] /\ deployment' = deployment
  BY DEF Raises, Goes
<1>2. DOMAIN e = DbFields /\ Untouched(deployment, d, e)
  BY DEF Left, Untouched, DbFields
<1>3. DbSound(deployment, e) /\ Grown(deployment, d, e) /\ Grown(deployment, db, e)
  BY <1>2, UntouchedGrows, GrownChain
<1>4. Untouched(deployment, db, e) \/ (Polite(p, db, e) /\ lock = None)
  BY <1>2, UntouchedChain DEF Polite
<1>5. /\ DOMAIN s = ProcFields /\ s.pc = proc[p].pc /\ s.job = proc[p].job /\ s.ver = proc[p].ver /\ s.made = proc[p].made
      /\ s.ready = proc[p].ready /\ s.todo = <<>>
  BY <1>v DEF ProcFields
<1>6. s.job # "ingest" /\ s.made = {} => r = Gone(s)
  OBVIOUS
<1>7. s.job # "ingest" /\ s.made # {} => r = [s EXCEPT !.pc = "clean"]
  OBVIOUS
<1>8. s.job = "ingest" => r = [s EXCEPT !.pc = "undo"] \/ r = [s EXCEPT !.pc = "open", !.job = "open", !.marked = FALSE]
  OBVIOUS
<1> HIDE DEF e, s, r
<1>9. CASE s.job # "ingest" /\ s.made = {}
  <2>1. DOMAIN r = ProcFields /\ r.made = {} /\ r.pc = "out" /\ r.ver = 1 /\ r.job = "open"
    BY <1>6, <1>9 DEF Gone, Away, ProcFields
  <2>2. Becomes(p, r, e)
    BY <2>1, OpeningAssumption DEF Becomes, ProcOk, MakerOk
  <2> QED BY <1>1, <1>2, <1>3, <1>4, <2>1, <2>2, EndingStep
<1>10. CASE s.job # "ingest" /\ s.made # {}
  <2>1. /\ DOMAIN r = ProcFields /\ r.made = proc[p].made /\ r.pc = "clean" /\ r.ver = proc[p].ver /\ r.job = proc[p].job
    BY <1>5, <1>7, <1>10 DEF ProcFields
  <2>2. /\ ProcOk(deployment, proc[p], View(p)) /\ MakerOk(deployment, proc[p], View(p)) /\ MakingOk(p)
        /\ proc[p].made # {} /\ proc[p].pc = "run" /\ proc[p].job = "first"
    BY <1>v, <1>5, <1>10 DEF SoundFor, ProcOk, InUse
  <2>3. /\ deployment # "mongo" /\ "meta" \in proc[p].made /\ proc[p].ver \in DOMAIN Schema
        /\ proc[p].made \subseteq {"meta", "owners"}
    BY <2>2 DEF ProcOk, FirstOk, LayoutOk, Coming, Begun
  <2>4. lock # p
    BY <1>v, <2>2 DEF SoundFor, TxOk, Transactional
  <2>5. proc[p].todo # <<>> /\ InTurn(proc[p].todo) /\ Head(proc[p].todo) # "unfence"
    BY <2>2 DEF ProcOk
  <2>6. ~(StepsOf(proc[p].todo) \subseteq {"unfence"})
    BY <2>5, NextStep
  <2>7. MakerOk(deployment, proc[p], d)
    <3>1. CASE Untouched(deployment, db, d)
      <4>1. MakerOk(deployment, proc[p], db)
        BY <1>v, <2>2, <2>4
      <4> QED BY <3>1, <4>1 DEF MakerOk, Untouched
    <3> QED BY <2>2, <3>1
  <2>8. MakerOk(deployment, r, e)
    BY <1>2, <2>1, <2>2, <2>6, <2>7 DEF MakerOk, Untouched
  <2>9. Becomes(p, r, e)
    BY <2>1, <2>2, <2>3, <2>8 DEF Becomes, ProcOk
  <2>10. ~HasProfile(deployment) => DOMAIN e.keys = {}
    BY <1>2, <2>2, <2>4 DEF MakingOk, Untouched
  <2> QED BY <1>1, <1>2, <1>3, <1>4, <2>1, <2>2, <2>4, <2>9, <2>10, EndingStep
<1>11. CASE s.job = "ingest"
  <2>1. proc[p].pc = "run" /\ proc[p].job = "ingest" /\ ProcOk(deployment, proc[p], View(p))
    BY <1>v, <1>5, <1>11 DEF SoundFor, ProcOk
  <2>2. InUse(deployment, proc[p], View(p)) /\ IngestOk(deployment, proc[p], View(p), StepsOf(proc[p].todo)) /\ proc[p].made = {} /\ proc[p].ver \in DOMAIN Schema
    BY <2>1 DEF ProcOk, InUse
  <2>3. View(p) = db
    <3>1. deployment = "clickhouse"
      BY <2>2 DEF IngestOk
    <3> QED BY <1>v, <3>1 DEF Transactional
  <2>4. /\ DOMAIN r = ProcFields /\ r.made = proc[p].made /\ r.ver = proc[p].ver /\ r.ready = proc[p].ready
        /\ \/ r.pc = "undo" /\ r.job = "ingest"
           \/ r.pc = "open" /\ r.job = "open"
    BY <1>5, <1>8, <1>11 DEF ProcFields
  <2>5. InUse(deployment, r, db) /\ IngestOk(deployment, r, db, {}) /\ Fits(deployment, r, db)
    BY <2>2, <2>3, <2>4 DEF InUse, IngestOk, Fits
  <2>6. ProcOk(deployment, r, db)
    BY <2>2, <2>4, <2>5 DEF ProcOk
  <2>7. ProcOk(deployment, r, e)
    BY <1>3, <1>v, <2>6, ProcGrows
  <2>8. Becomes(p, r, e)
    BY <2>2, <2>4, <2>7 DEF Becomes, MakerOk
  <2> QED BY <1>1, <1>2, <1>3, <1>4, <2>2, <2>4, <2>8, EndingStep
<1> QED BY <1>9, <1>10, <1>11

\* Nothing has been written.
LEMMA RefusedStep ==
  ASSUME OpenInv, NEW p \in Procs, NEW keep, Raises(p, db, keep), proc[p].pc \in {"read", "run"},
         proc[p].made # {} => deployment # "postgresql" /\ proc[p].todo # <<>> /\ Head(proc[p].todo) # "unfence"
  PROVE  OpenInv'
<1>1. DOMAIN db = DbFields /\ DbSound(deployment, db) /\ Untouched(deployment, db, db)
  BY DEF OpenInv, Shapes, Untouched
<1>2. Grown(deployment, db, db)
  BY <1>1, UntouchedGrows
<1> QED BY <1>1, <1>2, RaiseStep

LEMMA WriteStep ==
  ASSUME OpenInv, NEW p \in Procs, NEW d, NEW r, NEW ddl, Writes(p, d, ddl), Goes(p, r), DOMAIN d = DbFields,
         DbSound(deployment, d), Grown(deployment, View(p), d), Polite(p, View(p), d), Becomes(p, r, d), r.pc = "run",
         r.made = {} => \/ r.job = "open" /\ proc[p].made = {} /\ Settled(deployment, View(p))
                        \/ ~Transactional(deployment),
         r.made # {} => /\ \A q \in Procs : proc[q].made # {} => q = p
                        /\ deployment = "sqlite" /\ (lock = p \/ ~Durable(ddl)) => r.todo = <<>>
                        /\ deployment = "sqlite" /\ lock # p /\ Durable(ddl) => DOMAIN d.keys = {}
                        /\ deployment # "mongo"
  PROVE  OpenInv'
<1>v. SoundFor(p) /\ None \notin Procs /\ (lock # p => View(p) = db) /\ (~Transactional(deployment) => lock = None) /\ deployment \in Deployments
  BY ViewFacts DEF SoundFor, Shapes
<1>1. CASE lock = p \/ ~Durable(ddl)
  <2>1. lock \in {None, p} /\ lock' = p /\ db' = db /\ tx' = d /\ deployment' = deployment /\ Transactional(deployment)
    BY <1>1, <1>v DEF Writes, Durable, Transactional
  <2>2. proc' = [proc EXCEPT ![p] = r]
    BY DEF Goes
  <2>3. r.made # {} => /\ deployment = "sqlite" => r.todo = <<>>
                       /\ \A q \in Procs : proc[q].made # {} => q = p
    BY <1>1
  <2>4. r.made = {} => r.job = "open" /\ proc[p].made = {} /\ Settled(deployment, View(p))
    BY <2>1
  <2>5. Joins(p, r, d)
    BY <2>1, <2>3, <2>4 DEF Joins
  <2>6. (lock = None \/ lock = p) /\ lock' = p /\ db' = db /\ tx' = d /\ deployment' = deployment
    BY <2>1
  <2>7. OpenInv /\ p \in Procs
    OBVIOUS
  <2> QED BY ONLY <2>2, <2>5, <2>6, <2>7, PendingStep
<1>2. CASE lock # p /\ Durable(ddl)
  <2>1. lock = None /\ lock' = None /\ db' = d /\ tx' = tx /\ deployment' = deployment /\ deployment # "postgresql" /\ View(p) = db
    BY <1>2, <1>v DEF Writes, Durable
  <2>2. proc' = [proc EXCEPT ![p] = r]
    BY DEF Goes
  <2>3. r.made # {} => /\ deployment # "postgresql" /\ (~HasProfile(deployment) => DOMAIN d.keys = {})
                       /\ \A q \in Procs : proc[q].made # {} => q = p
    BY <1>2, <1>v, <2>1, OpeningAssumption DEF HasProfile
  <2> QED BY <2>1, <2>2, <2>3, DurableStep
<1> QED BY <1>1, <1>2

\* What p has left to do when it takes a step of its program.
LEMMA Taken ==
  ASSUME OpenInv, NEW p \in Procs, NEW h, At(p, h)
  PROVE  LET r == proc[p]
             S == StepsOf(proc[p].todo)
         IN  /\ h \in S /\ S \subseteq Steps /\ \A s \in S : s = h \/ Rank[h] < Rank[s]
             /\ r.pc = "run" /\ r.todo # <<>> /\ Head(r.todo) = h
             /\ r.job = "first" => FirstOk(deployment, r, View(p), S)
             /\ r.job = "open" => InUse(deployment, r, View(p)) /\ OpenOk(deployment, r, View(p), S)
             /\ r.job = "ingest" => InUse(deployment, r, View(p)) /\ IngestOk(deployment, r, View(p), S)
             /\ r.job \in {"first", "open", "ingest"} /\ r.ver \in DOMAIN Schema /\ r.made \subseteq {"meta", "owners"}
<1>1. ProcOk(deployment, proc[p], View(p))
  BY DEF OpenInv
<1>2. proc[p].pc = "run" /\ proc[p].todo # <<>> /\ Head(proc[p].todo) = h
  BY DEF At
<1>3. InTurn(proc[p].todo)
  BY <1>1, <1>2 DEF ProcOk
<1>4. /\ h \in StepsOf(proc[p].todo) /\ StepsOf(proc[p].todo) \subseteq Steps
      /\ \A s \in StepsOf(proc[p].todo) : s = h \/ Rank[h] < Rank[s]
  BY <1>2, <1>3, NextStep
<1> QED BY <1>1, <1>2, <1>4 DEF ProcOk

LEMMA ThenFields ==
  ASSUME OpenInv, NEW p \in Procs, NEW h, At(p, h)
  PROVE  LET r == proc[p]
         IN  /\ DOMAIN Then(p) = ProcFields /\ InTurn(Then(p).todo) /\ StepsOf(Then(p).todo) = StepsOf(r.todo) \ {h}
             /\ Then(p).pc = "run" /\ Then(p).job = r.job /\ Then(p).ver = r.ver /\ Then(p).made = r.made /\ Then(p).seen = r.seen
             /\ Then(p).ready = r.ready /\ DOMAIN r = ProcFields
<1>1. ProcOk(deployment, proc[p], View(p)) /\ DOMAIN proc[p] = ProcFields
  BY DEF OpenInv, Shapes
<1>2. proc[p].pc = "run" /\ proc[p].todo # <<>> /\ Head(proc[p].todo) = h
  BY DEF At
<1>3. InTurn(proc[p].todo)
  BY <1>1, <1>2 DEF ProcOk
<1>4. InTurn(Tail(proc[p].todo)) /\ StepsOf(Tail(proc[p].todo)) = StepsOf(proc[p].todo) \ {h}
  BY <1>2, <1>3, NextStep
<1>5. Then(p) = [proc[p] EXCEPT !.todo = Tail(proc[p].todo)]
  BY DEF Then
<1> QED BY <1>1, <1>2, <1>4, <1>5 DEF ProcFields

-----------------------------------------------------------------------------
(* Programs.                                                               *)

LEMMA Pieces ==
  /\ InTurn(<<>>) /\ StepsOf(<<>>) = {}
  /\ InTurn(<<"meta", "owners">>) /\ StepsOf(<<"meta", "owners">>) = {"meta", "owners"}
  /\ InTurn(<<"fence", "recheck", "meta">>) /\ StepsOf(<<"fence", "recheck", "meta">>) = {"fence", "recheck", "meta"}
  /\ InTurn(<<"unfence">>) /\ StepsOf(<<"unfence">>) = {"unfence"}
  /\ InTurn(<<"meta", "owners", "stamp">>) /\ StepsOf(<<"meta", "owners", "stamp">>) = {"meta", "owners", "stamp"}
  /\ InTurn(<<"layout", "owners", "ownership">>) /\ StepsOf(<<"layout", "owners", "ownership">>) = {"layout", "owners", "ownership"}
<1>1. InTurn(<<>>) /\ StepsOf(<<>>) = {}
  BY DEF InTurn, StepsOf
<1>2. InTurn(<<"meta", "owners">>) /\ StepsOf(<<"meta", "owners">>) = {"meta", "owners"}
  BY DEF InTurn, StepsOf, Rank, Steps
<1>3. InTurn(<<"fence", "recheck", "meta">>) /\ StepsOf(<<"fence", "recheck", "meta">>) = {"fence", "recheck", "meta"}
  BY DEF InTurn, StepsOf, Rank, Steps
<1>4. InTurn(<<"unfence">>) /\ StepsOf(<<"unfence">>) = {"unfence"}
  BY DEF InTurn, StepsOf, Rank, Steps
<1>5. InTurn(<<"meta", "owners", "stamp">>) /\ StepsOf(<<"meta", "owners", "stamp">>) = {"meta", "owners", "stamp"}
  BY DEF InTurn, StepsOf, Rank, Steps
<1>6. InTurn(<<"layout", "owners", "ownership">>) /\ StepsOf(<<"layout", "owners", "ownership">>) = {"layout", "owners", "ownership"}
  BY DEF InTurn, StepsOf, Rank, Steps
<1> QED BY <1>1, <1>2, <1>3, <1>4, <1>5, <1>6

LEMMA StampsInTurn ==
  LET t == <<"protocol", "schemas", "timestamps", "ownership", "profile">>
  IN  InTurn(t) /\ StepsOf(t) = {"protocol", "schemas", "timestamps", "ownership", "profile"}
BY DEF InTurn, StepsOf, Rank, Steps

LEMMA FirstProgram ==
  ASSUME deployment \in Deployments
  PROVE  LET S == StepsOf(Bootstrap)
         IN  /\ InTurn(Bootstrap)
             /\ deployment = "mongo" => S = {"layout", "owners", "ownership"}
             /\ deployment # "mongo" =>
                  "meta" \in S /\ S = Marks(deployment) \cup {"meta"} \cup (IF deployment = "clickhouse" THEN {"fence", "recheck"} ELSE {})
<1>1. CASE Transactional(deployment)
  <2>1. Bootstrap = <<"meta", "owners", "stamp">>
    BY <1>1 DEF Transactional, Bootstrap
  <2> QED BY <1>1, <2>1, Pieces DEF Marks, HasProfile, Transactional
<1>2. CASE deployment = "mongo"
  <2>1. Bootstrap = <<"layout", "owners", "ownership">>
    BY <1>2 DEF Bootstrap
  <2> QED BY <1>2, <2>1, Pieces
<1> DEFINE stamps == <<"protocol", "schemas", "timestamps", "ownership", "profile">>
<1>3. InTurn(stamps) /\ StepsOf(stamps) = {"protocol", "schemas", "timestamps", "ownership", "profile"}
  BY StampsInTurn
<1>4. CASE deployment = "degraded"
  <2>1. Bootstrap = <<"meta", "owners">> \o stamps
    BY <1>4 DEF Bootstrap, Stamps, Profiled
  <2> HIDE DEF stamps
  <2>2. \A x \in StepsOf(<<"meta", "owners">>) : \A y \in StepsOf(stamps) : Rank[x] < Rank[y]
    BY <1>3, Pieces DEF Rank
  <2> DEFINE s == <<"meta", "owners">>
  <2>3. InTurn(s) /\ StepsOf(s) = {"meta", "owners"} /\ \A x \in StepsOf(s) : \A y \in StepsOf(stamps) : Rank[x] < Rank[y]
    BY <2>2, Pieces
  <2> HIDE DEF s
  <2>4. InTurn(s \o stamps) /\ StepsOf(s \o stamps) = {"meta", "owners"} \cup StepsOf(stamps)
    BY <1>3, <2>3, StepsInTurn
  <2>5. Bootstrap = s \o stamps
    BY <2>1 DEF s
  <2> QED BY <1>3, <1>4, <2>4, <2>5 DEF Marks, HasProfile
<1>5. CASE deployment = "clickhouse"
  <2>1. Bootstrap = (<<"fence", "recheck", "meta">> \o stamps) \o <<"unfence">>
    BY <1>5 DEF Bootstrap, Stamps, Profiled
  <2> HIDE DEF stamps
  <2>2. \A x \in StepsOf(<<"fence", "recheck", "meta">>) : \A y \in StepsOf(stamps) : Rank[x] < Rank[y]
    BY <1>3, Pieces DEF Rank
  <2> DEFINE s == <<"fence", "recheck", "meta">> \o stamps
  <2>3. InTurn(s) /\ StepsOf(s) = {"fence", "recheck", "meta"} \cup StepsOf(stamps)
    BY <1>3, <2>2, Pieces, StepsInTurn
  <2> HIDE DEF s
  <2>4. \A x \in StepsOf(s) : \A y \in StepsOf(<<"unfence">>) : Rank[x] < Rank[y]
    BY <1>3, <2>3, Pieces DEF Rank
  <2>5. InTurn(Bootstrap) /\ StepsOf(Bootstrap) = {"fence", "recheck", "meta"} \cup StepsOf(stamps) \cup {"unfence"}
    <3>1. Bootstrap = s \o <<"unfence">>
      BY <2>1 DEF s
    <3> QED BY <2>3, <2>4, <3>1, Pieces, StepsInTurn
  <2> QED BY <1>3, <1>5, <2>5 DEF Marks, HasProfile
<1> QED BY <1>1, <1>2, <1>4, <1>5, OpeningAssumption DEF Transactional

LEMMA UpgradePieces ==
  /\ InTurn(<<"owners", "claims", "ownership">>) /\ StepsOf(<<"owners", "claims", "ownership">>) = {"owners", "claims", "ownership"}
  /\ InTurn(<<"lease", "owners", "claims", "ownership">>)
  /\ StepsOf(<<"lease", "owners", "claims", "ownership">>) = {"lease", "owners", "claims", "ownership"}
  /\ InTurn(<<"lease", "owners", "claims", "ownership", "unlease">>)
  /\ StepsOf(<<"lease", "owners", "claims", "ownership", "unlease">>) = {"lease", "owners", "claims", "ownership", "unlease"}
  /\ InTurn(<<"tables", "column", "restamp">>) /\ StepsOf(<<"tables", "column", "restamp">>) = {"tables", "column", "restamp"}
  /\ InTurn(<<"restamp">>) /\ StepsOf(<<"restamp">>) = {"restamp"}
  /\ InTurn(<<"lease", "claims", "ownership">>) /\ StepsOf(<<"lease", "claims", "ownership">>) = {"lease", "claims", "ownership"}
<1>1. InTurn(<<"owners", "claims", "ownership">>) /\ StepsOf(<<"owners", "claims", "ownership">>) = {"owners", "claims", "ownership"}
  BY DEF InTurn, StepsOf, Rank, Steps
<1>2. /\ InTurn(<<"lease", "owners", "claims", "ownership">>)
      /\ StepsOf(<<"lease", "owners", "claims", "ownership">>) = {"lease", "owners", "claims", "ownership"}
  BY DEF InTurn, StepsOf, Rank, Steps
<1>3. /\ InTurn(<<"lease", "owners", "claims", "ownership", "unlease">>)
      /\ StepsOf(<<"lease", "owners", "claims", "ownership", "unlease">>) = {"lease", "owners", "claims", "ownership", "unlease"}
  BY DEF InTurn, StepsOf, Rank, Steps
<1>4. InTurn(<<"tables", "column", "restamp">>) /\ StepsOf(<<"tables", "column", "restamp">>) = {"tables", "column", "restamp"}
  BY DEF InTurn, StepsOf, Rank, Steps
<1>5. InTurn(<<"restamp">>) /\ StepsOf(<<"restamp">>) = {"restamp"}
  BY DEF InTurn, StepsOf, Rank, Steps
<1>6. InTurn(<<"lease", "claims", "ownership">>) /\ StepsOf(<<"lease", "claims", "ownership">>) = {"lease", "claims", "ownership"}
  BY DEF InTurn, StepsOf, Rank, Steps
<1> QED BY <1>1, <1>2, <1>3, <1>4, <1>5, <1>6

LEMMA UpgradeProgram ==
  ASSUME deployment \in Deployments, deployment # "clickhouse", NEW s \in {Ownership, <<>>}, NEW t \in {Additive, <<>>}
  PROVE  LET S == StepsOf(s \o t)
         IN  /\ InTurn(s \o t) /\ S \subseteq Upgrades(deployment)
             /\ "ownership" \in S => {"owners", "claims"} \subseteq S
             /\ "restamp" \in S => t = Additive
             /\ t = Additive => "restamp" \in S
             /\ "restamp" \in S /\ deployment # "mongo" => {"tables", "column"} \subseteq S
             /\ "restamp" \notin S => "tables" \notin S /\ "column" \notin S
<1> DEFINE A == StepsOf(s)
           B == StepsOf(t)
<1>1. /\ InTurn(Ownership) /\ StepsOf(Ownership) \subseteq Upgrades(deployment) \ {"tables", "column", "restamp"}
      /\ {"owners", "claims"} \subseteq StepsOf(Ownership)
  <2>1. CASE Transactional(deployment)
    <3>1. Ownership = <<"owners", "claims", "ownership">>
      BY <2>1 DEF Transactional, Ownership
    <3> QED BY <2>1, <3>1, UpgradePieces DEF Upgrades, Transactional
  <2>2. CASE deployment = "degraded"
    <3>1. Ownership = <<"lease", "owners", "claims", "ownership">>
      BY <2>2 DEF Ownership
    <3> QED BY <2>2, <3>1, UpgradePieces DEF Upgrades
  <2>3. CASE deployment = "mongo"
    <3>1. Ownership = <<"lease", "owners", "claims", "ownership", "unlease">>
      BY <2>3 DEF Ownership
    <3> QED BY <2>3, <3>1, UpgradePieces DEF Upgrades
  <2> QED BY <2>1, <2>2, <2>3, OpeningAssumption DEF Transactional
<1>2. /\ InTurn(Additive) /\ Additive # <<>>
      /\ deployment = "mongo" => StepsOf(Additive) = {"restamp"}
      /\ deployment # "mongo" => StepsOf(Additive) = {"tables", "column", "restamp"}
  <2>1. CASE deployment = "mongo"
    <3>1. Additive = <<"restamp">>
      BY <2>1 DEF Additive
    <3> QED BY <2>1, <3>1, UpgradePieces
  <2>2. CASE deployment # "mongo"
    <3>1. Additive = <<"tables", "column", "restamp">>
      BY <2>2 DEF Additive
    <3> QED BY <2>2, <3>1, UpgradePieces
  <2> QED BY <2>1, <2>2
<1>3. /\ InTurn(s) /\ A \subseteq Upgrades(deployment) \ {"tables", "column", "restamp"}
      /\ A # {} => {"owners", "claims"} \subseteq A
  BY <1>1, Pieces
<1>4. /\ InTurn(t) /\ (t = <<>> => B = {}) /\ (t = Additive => "restamp" \in B /\ (deployment # "mongo" => {"tables", "column"} \subseteq B))
      /\ B \subseteq {"tables", "column", "restamp"} \cap Upgrades(deployment)
  <2>1. CASE t = <<>>
    BY <1>2, <2>1, Pieces
  <2>2. CASE t = Additive
    <3>1. {"tables", "column", "restamp"} \cap Upgrades(deployment) = IF deployment = "mongo" THEN {"restamp"} ELSE {"tables", "column", "restamp"}
      BY OpeningAssumption DEF Upgrades
    <3> QED BY <1>2, <2>2, <3>1
  <2> QED BY <2>1, <2>2
<1>5. \A x \in A : \A y \in B : Rank[x] < Rank[y]
  <2>1. A \subseteq {"lease", "owners", "claims", "ownership", "unlease"} /\ B \subseteq {"tables", "column", "restamp"}
    <3>1. Upgrades(deployment) \subseteq {"lease", "owners", "claims", "ownership", "unlease", "tables", "column", "restamp"}
      BY OpeningAssumption DEF Upgrades
    <3> QED BY <1>3, <1>4, <3>1
  <2>2. \A x \in {"lease", "owners", "claims", "ownership", "unlease"} : \A y \in {"tables", "column", "restamp"} : Rank[x] < Rank[y]
    BY DEF Rank
  <2> HIDE DEF A, B
  <2> QED BY <2>1, <2>2
<1>6. InTurn(s \o t) /\ StepsOf(s \o t) = A \cup B
  BY <1>3, <1>4, <1>5, StepsInTurn
<1> HIDE DEF A, B
<1>7. ("restamp" \in A \cup B => t = Additive) /\ (t # Additive => "tables" \notin A \cup B /\ "column" \notin A \cup B)
  BY <1>3, <1>4
<1> QED BY <1>3, <1>4, <1>6, <1>7

-----------------------------------------------------------------------------
(* Looking and reading.                                                    *)

LEMMA Looks ==
  ASSUME OpenInv, NEW p \in Procs, Look(p)
  PROVE  OpenInv'
<1>v. /\ SoundFor(p) /\ deployment \in Deployments /\ DOMAIN db = DbFields /\ DOMAIN proc[p] = ProcFields
      /\ lock # p
  BY ViewFacts DEF SoundFor, Shapes, TxOk, Look
<1>1. PICK ver \in DOMAIN Schema, upgrade \in BOOLEAN :
        LET r == [Away EXCEPT !.opens = proc[p].opens + 1, !.ver = ver, !.upgrade = upgrade]
        IN Goes(p, IF "meta" \in db.tables THEN [r EXCEPT !.pc = "read"]
                   ELSE IF db.tables = {} THEN [r EXCEPT !.pc = "run", !.todo = Bootstrap, !.job = "first"]
                   ELSE Gone(r))
  BY DEF Look
<1> DEFINE s == [Away EXCEPT !.opens = proc[p].opens + 1, !.ver = ver, !.upgrade = upgrade]
           r == IF "meta" \in db.tables THEN [s EXCEPT !.pc = "read"]
                ELSE IF db.tables = {} THEN [s EXCEPT !.pc = "run", !.todo = Bootstrap, !.job = "first"]
                ELSE Gone(s)
<1>2. lock' = lock /\ tx' = tx /\ deployment' = deployment /\ db' = db /\ proc' = [proc EXCEPT ![p] = r]
  BY <1>1 DEF Look, Goes
<1>3. DOMAIN r = ProcFields /\ r.made = {} /\ r.ver \in DOMAIN Schema /\ ~r.ready
  BY OpeningAssumption DEF Away, Gone, ProcFields
<1>4. (r.pc \in {"read", "out"} /\ r.job = "open") \/ (r.pc = "run" /\ r.job = "first" /\ r.todo = Bootstrap)
  BY DEF Away, Gone
<1> HIDE DEF r
<1>5. r.pc = "run" => InTurn(r.todo) /\ FirstOk(deployment, r, View(p), StepsOf(r.todo))
  <2> SUFFICES ASSUME r.pc = "run" PROVE InTurn(r.todo) /\ FirstOk(deployment, r, View(p), StepsOf(r.todo))
    OBVIOUS
  <2>1. r.todo = Bootstrap
    BY <1>4
  <2> QED BY <1>3, <1>v, <2>1, FirstProgram DEF FirstOk, LayoutOk, Coming
<1>6. ProcOk(deployment, r, View(p))
  BY <1>3, <1>4, <1>5 DEF ProcOk
<1>7. Becomes(p, r, View(p)) /\ Untouched(deployment, db, db)
  BY <1>3, <1>6 DEF Becomes, MakerOk, Untouched
<1> QED BY <1>2, <1>3, <1>7, <1>v, QuietStep

LEMMA Reads ==
  ASSUME OpenInv, NEW p \in Procs, Read(p)
  PROVE  OpenInv'
<1>v. /\ SoundFor(p) /\ deployment \in Deployments /\ DOMAIN db = DbFields /\ DOMAIN proc[p] = ProcFields /\ proc[p].pc = "read"
      /\ lock # p /\ View(p) = db /\ ProcOk(deployment, proc[p], db) /\ DbSound(deployment, db)
  BY ViewFacts DEF SoundFor, Shapes, TxOk, Read
<1>m. proc[p].made = {} /\ proc[p].ver \in DOMAIN Schema
  BY <1>v DEF ProcOk
<1>1. CASE ~Checked(db, proc[p].ver, proc[p].upgrade)
  <2>1. Raises(p, db, FALSE)
    BY <1>1 DEF Read, Refused
  <2> QED BY <1>v, <1>m, <2>1, RefusedStep
<1>2. CASE Checked(db, proc[p].ver, proc[p].upgrade)
  <2> DEFINE s == IF Pending(db) /\ proc[p].upgrade THEN Ownership ELSE <<>>
             t == IF db.keys["schemas"] # proc[p].ver THEN Additive ELSE <<>>
             r == [proc[p] EXCEPT !.pc = "run", !.job = "open", !.upgrade = FALSE, !.ready = ~Pending(db), !.todo = s \o t]
             d == Left(p, db)
  <2>1. lock' = lock /\ tx' = tx /\ deployment' = deployment /\ db' = d /\ proc' = [proc EXCEPT ![p] = r]
    BY <1>2 DEF Read, Goes
  <2>2. DOMAIN d = DbFields /\ Untouched(deployment, db, d)
    BY <1>v DEF Left, DbFields, Untouched
  <2>3. /\ DOMAIN r = ProcFields /\ r.made = {} /\ r.ver = proc[p].ver /\ r.pc = "run" /\ r.job = "open" /\ r.todo = s \o t
        /\ r.ready = ~Pending(db) /\ r.ver \in DOMAIN Schema
    BY <1>v, <1>m DEF ProcFields
  <2>c. /\ "meta" \in db.tables /\ Required \ DOMAIN db.keys \in {{}, {"ownership"}} /\ (Profiled <=> "profile" \in DOMAIN db.keys)
        /\ db.keys["schemas"] = r.ver \/ (IsAdditive(db.keys["schemas"], r.ver) /\ deployment # "clickhouse")
    BY <1>2, <2>3 DEF Checked, Recognized
  <2>4. InUse(deployment, r, db)
    <3>1. Settled(deployment, db)
      BY <2>c DEF Settled, Profiled, HasProfile
    <3>2. r.ready => "ownership" \in DOMAIN db.keys
      BY <2>3, <2>c DEF Pending, Required
    <3> QED BY <2>3, <3>1, <3>2 DEF InUse
  <2>5. db.keys["schemas"] \in DOMAIN Schema
    BY <1>v, <2>4 DEF InUse, Settled, DbSound, Required
  <2>6. InTurn(s \o t) /\ OpenOk(deployment, r, db, StepsOf(s \o t))
    <3>1. CASE deployment = "clickhouse"
      <4>1. s \in {<<"lease", "claims", "ownership">>, <<>>} /\ t = <<>> /\ Fits(deployment, r, db)
        BY <2>c, <2>3, <3>1 DEF Ownership, Fits, Tabled
      <4> HIDE DEF s, t
      <4>2. InTurn(s) /\ StepsOf(s) \in {{"lease", "claims", "ownership"}, {}}
        BY <4>1, Pieces, UpgradePieces
      <4>3. s \o t = s
        BY <4>1
      <4>4. \A x \in {"restamp", "tables", "column"} : x \notin StepsOf(s)
        BY <4>2
      <4>5. StepsOf(s) \subseteq Upgrades(deployment) /\ ("ownership" \in StepsOf(s) => "claims" \in StepsOf(s))
        BY <3>1, <4>2 DEF Upgrades
      <4> QED BY <3>1, <4>1, <4>2, <4>3, <4>4, <4>5 DEF OpenOk
    <3>2. CASE deployment # "clickhouse"
      <4> DEFINE S == StepsOf(s \o t)
      <4>1. s \in {Ownership, <<>>} /\ t \in {Additive, <<>>}
        OBVIOUS
      <4> HIDE DEF s
      <4>2. t = Additive <=> db.keys["schemas"] # r.ver
        <5>1. Additive # <<>>
          BY DEF Additive
        <5> QED BY <2>3, <5>1
      <4> HIDE DEF t
      <4>3. /\ InTurn(s \o t) /\ S \subseteq Upgrades(deployment)
            /\ "ownership" \in S => {"owners", "claims"} \subseteq S
            /\ "restamp" \in S => t = Additive
            /\ t = Additive => "restamp" \in S
            /\ "restamp" \in S /\ deployment # "mongo" => {"tables", "column"} \subseteq S
            /\ "restamp" \notin S => "tables" \notin S /\ "column" \notin S
        BY <1>v, <3>2, <4>1, UpgradeProgram
      <4> HIDE DEF S
      <4>4. CASE "restamp" \in S
        <5>1. db.keys["schemas"] # r.ver /\ IsAdditive(db.keys["schemas"], r.ver)
          BY <2>c, <4>2, <4>3, <4>4
        <5>2. Tabled(deployment) => {"tables", "column"} \subseteq S
          BY <4>3, <4>4 DEF Tabled
        <5> QED BY <4>3, <4>4, <5>1, <5>2 DEF OpenOk, S
      <4>5. CASE "restamp" \notin S
        <5>1. db.keys["schemas"] = r.ver
          BY <4>2, <4>3, <4>5
        <5>2. Fits(deployment, r, db)
          BY <5>1 DEF Fits
        <5> QED BY <4>3, <4>5, <5>2 DEF OpenOk, S
      <4> QED BY <4>4, <4>5
    <3> QED BY <3>1, <3>2
  <2> HIDE DEF r, s, t, d
  <2>7. ProcOk(deployment, r, db)
    BY <2>3, <2>4, <2>6 DEF ProcOk
  <2>8. Becomes(p, r, View(p))
    BY <1>v, <2>3, <2>7 DEF Becomes, MakerOk
  <2>9. r.made = {} /\ lock # p
    BY <1>v, <2>3
  <2> QED BY <2>1, <2>2, <2>8, <2>9, QuietStep
<1> QED BY <1>1, <1>2

-----------------------------------------------------------------------------
(* The first opening.                                                      *)

\* Steps of first openings only.
LEMMA FirstStep ==
  ASSUME OpenInv, NEW p \in Procs, NEW h, At(p, h), h \in {"fence", "recheck", "meta", "stamp", "protocol", "schemas", "timestamps", "profile", "unfence"}
  PROVE  LET S == StepsOf(proc[p].todo)
         IN  /\ proc[p].job = "first" /\ deployment # "mongo" /\ h \in S /\ proc[p].ver \in DOMAIN Schema
             /\ IF "meta" \in S THEN Coming(deployment, proc[p], S) ELSE Begun(deployment, proc[p], View(p), S)
             /\ \A s \in S : s = h \/ Rank[h] < Rank[s]
             /\ proc[p].made \subseteq {"meta", "owners"}
<1> DEFINE S == StepsOf(proc[p].todo)
<1>1. /\ h \in S /\ \A s \in S : s = h \/ Rank[h] < Rank[s]
      /\ proc[p].job = "first" => FirstOk(deployment, proc[p], View(p), S)
      /\ proc[p].job = "open" => OpenOk(deployment, proc[p], View(p), S)
      /\ proc[p].job = "ingest" => IngestOk(deployment, proc[p], View(p), S)
      /\ proc[p].job \in {"first", "open", "ingest"} /\ proc[p].ver \in DOMAIN Schema /\ proc[p].made \subseteq {"meta", "owners"}
  BY Taken
<1> HIDE DEF S
<1>2. proc[p].job # "open"
  <2>1. Upgrades(deployment) \subseteq {"lease", "owners", "claims", "ownership", "unlease", "tables", "column", "restamp"}
    BY DEF Upgrades
  <2>2. h \notin Upgrades(deployment)
    BY <2>1
  <2> QED BY <1>1, <2>2 DEF OpenOk
<1>3. proc[p].job # "ingest"
  BY <1>1 DEF IngestOk, IngestSteps
<1>4. proc[p].job = "first" /\ FirstOk(deployment, proc[p], View(p), S)
  BY <1>1, <1>2, <1>3
<1>5. deployment # "mongo"
  BY <1>1, <1>4 DEF FirstOk, LayoutOk
<1> QED BY <1>1, <1>4, <1>5 DEF FirstOk, S

LEMMA CreatesMetadata ==
  ASSUME OpenInv, NEW p \in Procs, CreateMetadata(p)
  PROVE  OpenInv'
<1> DEFINE S == StepsOf(proc[p].todo)
<1>1. At(p, "meta")
  BY DEF CreateMetadata
<1>2. /\ proc[p].job = "first" /\ deployment # "mongo" /\ "meta" \in S /\ Coming(deployment, proc[p], S)
      /\ \A s \in S : s = "meta" \/ Rank["meta"] < Rank[s]
      /\ proc[p].ver \in DOMAIN Schema
  BY <1>1, FirstStep
<1>3. /\ proc[p].made = {} /\ ~proc[p].ready /\ S \ {"meta"} = Marks(deployment) /\ proc[p].pc = "run"
  <2>1. "fence" \notin S /\ "recheck" \notin S
    BY <1>2 DEF Rank
  <2> HIDE DEF S
  <2> QED BY <1>1, <1>2, <2>1 DEF Coming, At, Marks
<1>v. /\ DOMAIN View(p) = DbFields /\ DbSound(deployment, View(p)) /\ Grown(deployment, db, View(p)) /\ (lock # p => View(p) = db)
      /\ SoundFor(p) /\ deployment \in Deployments
  BY ViewFacts DEF SoundFor, Shapes
<1>4. CASE "meta" \in View(p).tables
  <2>1. Raises(p, db, FALSE)
    BY <1>4 DEF CreateMetadata, Refused
  <2> QED BY <1>3, <2>1, RefusedStep
<1>5. CASE "meta" \notin View(p).tables
  <2> DEFINE d == [View(p) EXCEPT !.tables = @ \cup {"meta"}]
             r == [Then(p) EXCEPT !.made = @ \cup {"meta"}]
  <2>1. Writes(p, d, TRUE) /\ Goes(p, r)
    BY <1>5 DEF CreateMetadata
  <2>2. /\ DOMAIN d = DbFields /\ d.tables = View(p).tables \cup {"meta"} /\ d.columns = View(p).columns /\ d.keys = View(p).keys
        /\ d.rows = View(p).rows /\ d.marker = View(p).marker /\ d.claims = View(p).claims
    BY <1>v DEF DbFields
  <2>3. /\ DOMAIN r = ProcFields /\ r.made = {"meta"} /\ r.pc = "run" /\ r.job = "first" /\ r.ver = proc[p].ver /\ ~r.ready
        /\ InTurn(r.todo) /\ StepsOf(r.todo) = S \ {"meta"}
    BY <1>1, <1>2, <1>3, ThenFields DEF ProcFields
  <2> HIDE DEF d, r, S
  <2>4. DOMAIN d.keys = {} /\ "owners" \notin View(p).tables
    BY <1>5, <1>v, <2>2 DEF DbSound
  <2>5. ~Settled(deployment, View(p)) /\ ~Settled(deployment, d)
    BY <1>5, <2>4 DEF Settled, Required
  <2>6. DbSound(deployment, d)
    BY <1>v, <2>2, <2>4, <2>5 DEF Owned, Distinct, Sole, DbSound
  <2>7. Grown(deployment, View(p), d)
    BY <2>2 DEF Distinct, Grown, Owned
  <2>8. \A q \in Procs : proc[q].made = {}
    <3> SUFFICES ASSUME NEW q \in Procs, proc[q].made # {} PROVE FALSE
      OBVIOUS
    <3>1. MakerOk(deployment, proc[q], View(q)) /\ "meta" \in View(q).tables /\ q # p /\ MakingOk(q)
      BY <1>3 DEF OpenInv, MakerOk
    <3>2. lock \in {None, p}
      BY <2>1 DEF Writes
    <3>3. View(q) = db
      BY <1>v, <3>1, <3>2, OpeningAssumption DEF View
    <3> QED BY <1>5, <1>v, <3>1, <3>3 DEF Grown
  <2>9. ~Transactional(deployment) \/ lock # p
    <3>1. lock = p => Settled(deployment, db)
      BY <1>3, <1>v, OpeningAssumption DEF SoundFor, TxOk
    <3> QED BY <1>v, <2>5, <3>1, OwnedAndSettledGrow
  <2>10. Begun(deployment, r, d, Marks(deployment))
    <3>1. deployment # "clickhouse" => "owners" \in Marks(deployment)
      BY <1>v, OpeningAssumption DEF Marks, HasProfile
    <3>2. HasProfile(deployment) => Required \cup {"profile"} \subseteq Marks(deployment)
      BY DEF Marks, Required
    <3>3. ~HasProfile(deployment) => "stamp" \in Marks(deployment)
      BY DEF Marks
    <3> QED BY <2>3, <3>1, <3>2, <3>3 DEF Begun, Required
  <2>11. ProcOk(deployment, r, d)
    <3>1. "meta" \notin Marks(deployment)
      BY DEF Marks
    <3> QED BY <1>2, <1>3, <2>3, <2>10, <3>1 DEF ProcOk, FirstOk
  <2>12. MakerOk(deployment, r, d)
    BY <2>2, <2>3, <2>4 DEF MakerOk
  <2>13. Becomes(p, r, d) /\ Polite(p, View(p), d)
    BY <2>3, <2>8, <2>11, <2>12 DEF Becomes, Polite
  <2>14. deployment = "sqlite" => lock # p /\ Durable(TRUE)
    BY <2>9 DEF Durable, Transactional
  <2> QED BY <1>2, <2>1, <2>2, <2>3, <2>4, <2>6, <2>7, <2>8, <2>13, <2>14, WriteStep
<1> QED BY <1>4, <1>5

LEMMA StampedFields ==
  ASSUME NEW d, DOMAIN d = DbFields, NEW x, NEW v
  PROVE  LET e == Stamped(d, x, v)
         IN  /\ DOMAIN e = DbFields /\ e.tables = d.tables /\ e.columns = d.columns /\ e.rows = d.rows /\ e.marker = d.marker /\ e.claims = d.claims
             /\ DOMAIN e.keys = DOMAIN d.keys \cup {x} /\ e.keys[x] = v
             /\ \A y \in DOMAIN d.keys : y # x => e.keys[y] = d.keys[y]
BY DEF Stamped, DbFields

LEMMA StampsAll ==
  ASSUME NEW p \in Procs, NEW d, DOMAIN d = DbFields, ~HasProfile(deployment)
  PROVE  LET e == [d EXCEPT !.keys = [k \in {Stamps[i] : i \in DOMAIN Stamps} |-> Value(k, proc[p].ver)]]
         IN  /\ DOMAIN e = DbFields /\ e.tables = d.tables /\ e.columns = d.columns /\ e.rows = d.rows /\ e.marker = d.marker /\ e.claims = d.claims
             /\ DOMAIN e.keys = Required /\ e.keys["schemas"] = proc[p].ver
<1>1. Stamps = <<"protocol", "schemas", "timestamps", "ownership">>
  BY DEF Stamps, Profiled, HasProfile
<1>2. {Stamps[i] : i \in DOMAIN Stamps} = Required
  BY <1>1 DEF Required
<1> QED BY <1>2 DEF DbFields, Value, Required

LEMMA StampsStores ==
  ASSUME OpenInv, NEW p \in Procs, Stamp(p)
  PROVE  OpenInv'
<1> DEFINE S == StepsOf(proc[p].todo)
           d == [View(p) EXCEPT !.keys = [k \in {Stamps[i] : i \in DOMAIN Stamps} |-> Value(k, proc[p].ver)]]
           r == [Then(p) EXCEPT !.ready = TRUE]
<1>1. At(p, "stamp") /\ Writes(p, d, FALSE) /\ Goes(p, r)
  BY DEF Stamp
<1>2. /\ proc[p].job = "first" /\ deployment # "mongo" /\ "stamp" \in S /\ proc[p].ver \in DOMAIN Schema
      /\ IF "meta" \in S THEN Coming(deployment, proc[p], S) ELSE Begun(deployment, proc[p], View(p), S)
      /\ \A s \in S : s = "stamp" \/ Rank["stamp"] < Rank[s]
      /\ proc[p].pc = "run" /\ proc[p].todo # <<>>
      /\ proc[p].made \subseteq {"meta", "owners"}
  BY <1>1, FirstStep DEF At
<1>v. /\ DOMAIN View(p) = DbFields /\ DbSound(deployment, View(p)) /\ Grown(deployment, db, View(p)) /\ (lock # p => View(p) = db)
      /\ SoundFor(p) /\ deployment \in Deployments /\ MakerOk(deployment, proc[p], View(p)) /\ MakingOk(p)
  BY ViewFacts DEF SoundFor, Shapes
<1>3. Begun(deployment, proc[p], View(p), S) /\ "owners" \notin S /\ "meta" \notin S
  BY <1>2 DEF Rank
<1>4. S = {"stamp"} /\ ~HasProfile(deployment) /\ proc[p].made # {} /\ proc[p].made = {"meta", "owners"} /\ "owners" \in View(p).tables
  <2>1. ~HasProfile(deployment)
    BY <1>2, <1>3 DEF Begun, Marks
  <2>2. S = {"stamp"}
    BY <1>2, <1>3, <2>1 DEF Begun, Marks
  <2>3. "meta" \in proc[p].made /\ (deployment # "clickhouse" => "owners" \in proc[p].made /\ "owners" \in View(p).tables)
    BY <1>3 DEF Begun
  <2>4. deployment # "clickhouse"
    BY <2>1 DEF HasProfile
  <2> QED BY <1>2, <2>1, <2>2, <2>3, <2>4
<1>5. "meta" \in View(p).tables /\ DOMAIN View(p).keys = {}
  BY <1>2, <1>4, <1>v DEF MakerOk
<1>6. /\ DOMAIN d = DbFields /\ d.tables = View(p).tables /\ d.columns = View(p).columns /\ d.rows = View(p).rows /\ d.marker = View(p).marker /\ d.claims = View(p).claims
      /\ DOMAIN d.keys = Required /\ d.keys["schemas"] = proc[p].ver
  BY <1>4, <1>v, StampsAll
<1>7. /\ DOMAIN r = ProcFields /\ r.made = proc[p].made /\ r.pc = "run" /\ r.job = "first" /\ r.ver = proc[p].ver
      /\ InTurn(r.todo) /\ StepsOf(r.todo) = {}
  <2>1. /\ DOMAIN r = ProcFields /\ r.made = proc[p].made /\ r.pc = "run" /\ r.job = proc[p].job /\ r.ver = proc[p].ver
        /\ InTurn(r.todo) /\ StepsOf(r.todo) = S \ {"stamp"}
    BY <1>1, ThenFields DEF ProcFields
  <2> QED BY <1>2, <1>4, <2>1
<1> HIDE DEF d, r, S
<1>8. r.todo = <<>>
  BY <1>7, NoSteps
<1>9. ~Settled(deployment, View(p))
  BY <1>5 DEF Settled, Required
<1>10. d.rows = {} /\ d.claims = {} /\ d.marker = None /\ (Tabled(deployment) => "records" \notin d.tables)
  BY <1>6, <1>9, <1>v DEF DbSound
<1>11. DbSound(deployment, d)
  <2>1. Settled(deployment, d)
    BY <1>4, <1>5, <1>6 DEF Settled
  <2> QED BY <1>2, <1>4, <1>5, <1>6, <1>10, <1>v, <2>1 DEF Distinct, Sole, DbSound, Owned, HasProfile
<1>12. Grown(deployment, View(p), d)
  BY <1>5, <1>6 DEF Distinct, Grown, Owned
<1>13. Fits(deployment, r, d)
  BY <1>6, <1>7, AdditiveSelf DEF Fits
<1>14. Begun(deployment, r, d, {})
  BY <1>4, <1>6, <1>7, <1>13 DEF Begun, Required
<1>15. ProcOk(deployment, r, d)
  BY <1>2, <1>7, <1>14 DEF ProcOk, FirstOk
<1>16. MakerOk(deployment, r, d)
  BY <1>4, <1>5, <1>6, <1>7 DEF MakerOk
<1>17. \A q \in Procs : proc[q].made # {} => q = p
  BY <1>4, <1>v DEF MakingOk
<1>18. Becomes(p, r, d) /\ Polite(p, View(p), d)
  BY <1>7, <1>15, <1>16, <1>17 DEF Becomes, Polite
<1>19. ~(deployment = "sqlite" /\ lock # p /\ Durable(FALSE))
  BY DEF Durable
<1> QED BY <1>1, <1>2, <1>4, <1>6, <1>7, <1>8, <1>11, <1>12, <1>17, <1>18, <1>19, WriteStep

\* A step of an upgrade.
LEMMA UpgradeStep ==
  ASSUME OpenInv, NEW p \in Procs, NEW h, At(p, h), proc[p].job = "open", NEW d, NEW r, NEW ddl, Writes(p, d, ddl), Goes(p, r),
         DOMAIN d = DbFields, DbSound(deployment, d), Grown(deployment, View(p), d),
         DOMAIN r = ProcFields, r.pc = "run", r.job = "open", r.ver = proc[p].ver, r.made = proc[p].made,
         InTurn(r.todo), OpenOk(deployment, r, d, StepsOf(r.todo)), r.ready => proc[p].ready \/ "ownership" \in DOMAIN d.keys
  PROVE  OpenInv'
<1>1. InUse(deployment, proc[p], View(p)) /\ proc[p].ver \in DOMAIN Schema
  BY Taken
<1>2. Settled(deployment, d) /\ Settled(deployment, View(p)) /\ r.made = {} /\ proc[p].made = {}
  BY <1>1, OwnedAndSettledGrow DEF InUse
<1>3. InUse(deployment, r, d)
  BY <1>1, <1>2 DEF InUse, Grown
<1>4. ProcOk(deployment, r, d)
  BY <1>1, <1>2, <1>3 DEF ProcOk
<1>5. Becomes(p, r, d) /\ Polite(p, View(p), d)
  BY <1>2, <1>4 DEF Becomes, MakerOk, Polite
<1> QED BY <1>2, <1>5, WriteStep

\* The metadata of a profile, one row after the other.
LEMMA StampedKey ==
  ASSUME OpenInv, NEW p \in Procs, NEW x \in Required \cup {"profile"}, At(p, x), proc[p].job = "first", HasProfile(deployment),
         x \notin DOMAIN View(p).keys
  PROVE  LET S == StepsOf(proc[p].todo)
             d == Stamped(View(p), x, Value(x, proc[p].ver))
         IN  /\ x \in S /\ \A s \in S : s = x \/ Rank[x] < Rank[s]
             /\ proc[p].ver \in DOMAIN Schema /\ proc[p].made \subseteq {"meta", "owners"}
             /\ View(p) = db /\ lock = None /\ MakerOk(deployment, proc[p], View(p)) /\ MakingOk(p)
             /\ DOMAIN d = DbFields /\ d.tables = View(p).tables
             /\ DOMAIN d.keys = DOMAIN View(p).keys \cup {x} /\ d.keys[x] = Value(x, proc[p].ver)
             /\ Begun(deployment, proc[p], View(p), S) /\ "owners" \notin S /\ "meta" \notin S
             /\ proc[p].made # {} /\ "meta" \in View(p).tables /\ "profile" \notin DOMAIN View(p).keys
             /\ ("owners" \notin proc[p].made => "owners" \notin View(p).tables)
             /\ (deployment # "clickhouse" => "owners" \in proc[p].made /\ "owners" \in View(p).tables)
             /\ S \subseteq Required \cup {"profile", "unfence"}
             /\ DbSound(deployment, d) /\ Grown(deployment, View(p), d)
             /\ \A q \in Procs : proc[q].made # {} => q = p
<1> DEFINE S == StepsOf(proc[p].todo)
           d == Stamped(View(p), x, Value(x, proc[p].ver))
<1>2. /\ x \in S /\ \A s \in S : s = x \/ Rank[x] < Rank[s]
      /\ FirstOk(deployment, proc[p], View(p), S)
      /\ proc[p].ver \in DOMAIN Schema /\ proc[p].made \subseteq {"meta", "owners"}
      /\ proc[p].pc = "run" /\ proc[p].todo # <<>>
  BY Taken
<1>v. /\ DOMAIN View(p) = DbFields /\ DbSound(deployment, View(p)) /\ Grown(deployment, db, View(p))
      /\ lock # p /\ View(p) = db
      /\ SoundFor(p) /\ deployment \in Deployments /\ MakerOk(deployment, proc[p], View(p)) /\ MakingOk(p)
  BY ViewFacts, OpeningAssumption DEF SoundFor, Shapes, HasProfile, Transactional
<1>6. /\ DOMAIN d = DbFields /\ d.tables = View(p).tables /\ d.columns = View(p).columns /\ d.rows = View(p).rows /\ d.marker = View(p).marker /\ d.claims = View(p).claims
      /\ DOMAIN d.keys = DOMAIN View(p).keys \cup {x} /\ d.keys[x] = Value(x, proc[p].ver)
      /\ \A y \in DOMAIN View(p).keys : y # x => d.keys[y] = View(p).keys[y]
  BY <1>v, StampedFields
<1> HIDE DEF d, S
<1>3. Begun(deployment, proc[p], View(p), S) /\ "owners" \notin S /\ "meta" \notin S
  <2>1. "owners" \notin S /\ "meta" \notin S
    BY <1>2 DEF Rank, Required
  <2> QED BY <1>2, <2>1 DEF FirstOk, HasProfile
<1>4. /\ proc[p].made # {} /\ "meta" \in View(p).tables /\ "profile" \notin DOMAIN View(p).keys
      /\ ("owners" \notin proc[p].made => "owners" \notin View(p).tables)
      /\ (deployment # "clickhouse" => "owners" \in proc[p].made /\ "owners" \in View(p).tables)
      /\ S \subseteq Required \cup {"profile", "unfence"}
  <2>1. proc[p].made # {} /\ (deployment # "clickhouse" => "owners" \in proc[p].made /\ "owners" \in View(p).tables)
    BY <1>3 DEF Begun
  <2>2. ~(S \subseteq {"unfence"})
    BY <1>2 DEF Required
  <2>3. S \subseteq Required \cup {"profile", "unfence"}
    BY <1>3 DEF Begun, Marks, Required
  <2> QED BY <1>v, <2>1, <2>2, <2>3 DEF MakerOk, S
<1>5. /\ Required \cup {"profile"} \subseteq DOMAIN View(p).keys \cup S
      /\ "schemas" \notin S => Fits(deployment, proc[p], View(p))
      /\ proc[p].ready => "ownership" \in DOMAIN View(p).keys
  BY <1>3 DEF Begun
<1>9. ~Settled(deployment, View(p))
  BY <1>4 DEF Settled
<1>10. View(p).rows = {} /\ View(p).claims = {} /\ View(p).marker = None /\ (Tabled(deployment) => "records" \notin View(p).tables)
  BY <1>9, <1>v DEF DbSound
<1>11. "schemas" \in DOMAIN d.keys => d.keys["schemas"] \in DOMAIN Schema /\ ("schemas" \in DOMAIN View(p).keys => d.keys["schemas"] = View(p).keys["schemas"])
  <2>1. CASE x = "schemas"
    BY <1>2, <1>6, <2>1 DEF Value
  <2>2. CASE x # "schemas"
    BY <1>6, <1>v, <2>2 DEF DbSound
  <2> QED BY <2>1, <2>2
<1>12. DbSound(deployment, d)
  <2>1. "meta" \in d.tables /\ d.rows = {} /\ d.claims = {} /\ d.marker = None /\ (Tabled(deployment) => "records" \notin d.tables) /\ (deployment # "clickhouse" => "owners" \in d.tables)
    BY <1>4, <1>6, <1>10
  <2>2. (deployment = "clickhouse" => "owners" \notin d.tables) /\ (Tabled(deployment) /\ "records" \notin d.tables => d.tables \subseteq {"meta", "owners"})
    BY <1>6, <1>v DEF DbSound
  <2>3. Owned(d)
    BY <2>1 DEF Distinct, Owned
  <2> QED BY <1>11, <2>1, <2>2, <2>3 DEF Owned, Distinct, Sole, DbSound
<1>13. Grown(deployment, View(p), d)
  BY <1>6, <1>11 DEF Distinct, Grown, Owned
<1>14. \A q \in Procs : proc[q].made # {} => q = p
  BY <1>4, <1>v DEF MakingOk
<1>15. lock = None
  BY <1>v, ViewFacts DEF HasProfile, Transactional
<1> QED BY <1>2, <1>v, <1>6, <1>3, <1>4, <1>12, <1>13, <1>14, <1>15 DEF S, d

LEMMA StampsAKeyFirst ==
  ASSUME OpenInv, NEW p \in Procs, NEW x \in Required \cup {"profile"}, At(p, x), proc[p].job = "first", HasProfile(deployment),
         Writes(p, Stamped(View(p), x, Value(x, proc[p].ver)), FALSE),
         Goes(p, [Then(p) EXCEPT !.ready = @ \/ x = "ownership"]), x \notin DOMAIN View(p).keys
  PROVE  OpenInv'
<1> DEFINE S == StepsOf(proc[p].todo)
           d == Stamped(View(p), x, Value(x, proc[p].ver))
           r == [Then(p) EXCEPT !.ready = @ \/ x = "ownership"]
<1>1. Writes(p, d, FALSE) /\ Goes(p, r)
  OBVIOUS
<1>2. /\ x \in S /\ \A s \in S : s = x \/ Rank[x] < Rank[s]
      /\ proc[p].ver \in DOMAIN Schema
  BY StampedKey
<1>6. /\ DOMAIN d = DbFields /\ d.tables = View(p).tables
      /\ DOMAIN d.keys = DOMAIN View(p).keys \cup {x} /\ d.keys[x] = Value(x, proc[p].ver)
  BY StampedKey
<1>7. /\ DOMAIN r = ProcFields /\ r.made = proc[p].made /\ r.pc = "run" /\ r.job = "first" /\ r.ver = proc[p].ver
      /\ InTurn(r.todo) /\ StepsOf(r.todo) = S \ {x} /\ (r.ready => proc[p].ready \/ x = "ownership")
  BY ThenFields DEF ProcFields
<1>3. Begun(deployment, proc[p], View(p), S) /\ "owners" \notin S /\ "meta" \notin S
  BY StampedKey
<1>4. /\ proc[p].made # {} /\ "meta" \in View(p).tables /\ "profile" \notin DOMAIN View(p).keys
      /\ ("owners" \notin proc[p].made => "owners" \notin View(p).tables)
      /\ (deployment # "clickhouse" => "owners" \in proc[p].made /\ "owners" \in View(p).tables)
      /\ S \subseteq Required \cup {"profile", "unfence"} /\ proc[p].made \subseteq {"meta", "owners"}
  BY StampedKey
<1>18. DbSound(deployment, d) /\ Grown(deployment, View(p), d) /\ \A q \in Procs : proc[q].made # {} => q = p
  BY StampedKey
<1> HIDE DEF d, r, S
<1>5. /\ Required \cup {"profile"} \subseteq DOMAIN View(p).keys \cup S
      /\ "schemas" \notin S => Fits(deployment, proc[p], View(p))
      /\ proc[p].ready => "ownership" \in DOMAIN View(p).keys
  BY <1>3 DEF Begun
<1>14. "schemas" \notin S \ {x} => Fits(deployment, r, d)
  <2>1. CASE x = "schemas"
    <3>1. d.keys["schemas"] = r.ver
      BY <1>6, <1>7, <2>1 DEF Value
    <3> QED BY <3>1, AdditiveSelf DEF Fits
  <2>2. CASE x # "schemas"
    <3> SUFFICES ASSUME "schemas" \notin S PROVE Fits(deployment, r, d)
      BY <2>2
    <3>1. Fits(deployment, proc[p], View(p)) /\ "schemas" \in DOMAIN View(p).keys
      BY <1>5 DEF Required
    <3>2. Fits(deployment, proc[p], d)
      BY <1>18, <3>1, FitsGrows
    <3> QED BY <1>7, <3>2 DEF Fits
  <2> QED BY <2>1, <2>2
<1>15. Begun(deployment, r, d, S \ {x})
  <2>1. S \ {x} \subseteq Marks(deployment) /\ "meta" \in r.made
    BY <1>3, <1>7 DEF Begun
  <2>2. Required \cup {"profile"} \subseteq DOMAIN d.keys \cup (S \ {x})
    BY <1>5, <1>6
  <2>3. r.ready => "ownership" \in DOMAIN d.keys
    BY <1>5, <1>6, <1>7
  <2>4. (deployment # "clickhouse" /\ "owners" \notin S \ {x} => "owners" \in r.made /\ "owners" \in d.tables) /\ "owners" \notin S \ {x}
    BY <1>3, <1>4, <1>6, <1>7
  <2> QED BY <1>14, <2>1, <2>2, <2>3, <2>4 DEF Begun
<1>16. ProcOk(deployment, r, d)
  BY <1>2, <1>3, <1>4, <1>7, <1>15 DEF ProcOk, FirstOk, HasProfile
<1>17. MakerOk(deployment, r, d)
  <2>1. "profile" \in DOMAIN d.keys => S \ {x} \subseteq {"unfence"}
    <3> SUFFICES ASSUME "profile" \in DOMAIN d.keys PROVE S \ {x} \subseteq {"unfence"}
      OBVIOUS
    <3>1. x = "profile"
      BY <1>4, <1>6
    <3> QED BY <1>2, <1>4, <3>1 DEF Rank, Required
  <2> QED BY <1>4, <1>6, <1>7, <2>1 DEF MakerOk
<1>19. Becomes(p, r, d) /\ Polite(p, View(p), d)
  BY <1>7, <1>16, <1>17, <1>18 DEF Becomes, Polite
<1>20. deployment # "sqlite" /\ deployment # "mongo" /\ ~Transactional(deployment)
  BY DEF HasProfile, Transactional
<1> QED BY <1>1, <1>6, <1>7, <1>18, <1>19, <1>20, WriteStep

\* The ownership is marked once every record has its identity.
LEMMA OwnershipMarked ==
  ASSUME OpenInv, NEW p \in Procs, At(p, "ownership"), proc[p].job = "open" \/ deployment = "mongo"
  PROVE  LET d == Stamped(View(p), "ownership", Value("ownership", proc[p].ver))
         IN  /\ DOMAIN d = DbFields /\ d.tables = View(p).tables /\ DOMAIN d.keys = DOMAIN View(p).keys \cup {"ownership"}
             /\ Settled(deployment, View(p)) /\ proc[p].made = {} /\ DbSound(deployment, View(p))
             /\ DbSound(deployment, d) /\ Grown(deployment, View(p), d)
<1> DEFINE S == StepsOf(proc[p].todo)
           d == Stamped(View(p), "ownership", Value("ownership", proc[p].ver))
<1>2. /\ "ownership" \in S /\ \A s \in S : s = "ownership" \/ Rank["ownership"] < Rank[s]
      /\ proc[p].job = "first" => FirstOk(deployment, proc[p], View(p), S)
      /\ proc[p].job = "open" => InUse(deployment, proc[p], View(p)) /\ OpenOk(deployment, proc[p], View(p), S)
      /\ proc[p].job = "ingest" => IngestOk(deployment, proc[p], View(p), S)
      /\ proc[p].job \in {"first", "open", "ingest"}
      /\ proc[p].ver \in DOMAIN Schema /\ proc[p].made \subseteq {"meta", "owners"}
      /\ proc[p].pc = "run" /\ proc[p].todo # <<>>
  BY Taken
<1>v. /\ DOMAIN View(p) = DbFields /\ DbSound(deployment, View(p)) /\ SoundFor(p) /\ deployment \in Deployments
  BY ViewFacts DEF SoundFor, Shapes
<1>6. /\ DOMAIN d = DbFields /\ d.tables = View(p).tables /\ d.columns = View(p).columns /\ d.rows = View(p).rows /\ d.marker = View(p).marker /\ d.claims = View(p).claims
      /\ DOMAIN d.keys = DOMAIN View(p).keys \cup {"ownership"}
      /\ \A y \in DOMAIN View(p).keys : y # "ownership" => d.keys[y] = View(p).keys[y]
  BY <1>v, StampedFields
<1> HIDE DEF d, S
<1>3. "owners" \notin S /\ "layout" \notin S /\ "claims" \notin S
  BY <1>2 DEF Rank
<1>4. Settled(deployment, View(p)) /\ (deployment # "clickhouse" => "owners" \in View(p).tables) /\ Sole(deployment, View(p)) /\ proc[p].made = {}
  <2>1. CASE proc[p].job = "open"
    BY <1>2, <1>3, <2>1 DEF OpenOk, InUse
  <2>2. CASE proc[p].job = "first"
    BY <1>2, <1>3, <2>2 DEF FirstOk, LayoutOk, Sole
  <2>3. CASE proc[p].job = "ingest"
    BY <1>2, <2>3 DEF IngestOk
  <2> QED BY <1>2, <2>1, <2>2, <2>3
<1>5. Settled(deployment, d) /\ Sole(deployment, d) /\ d.keys["schemas"] = View(p).keys["schemas"] /\ "schemas" \in DOMAIN View(p).keys
  <2>1. Settled(deployment, d) /\ d.keys["schemas"] = View(p).keys["schemas"] /\ "schemas" \in DOMAIN View(p).keys
    BY <1>4, <1>6 DEF Settled, Required
  <2>2. Sole(deployment, d)
    BY <1>4, <1>6 DEF Distinct, Owned, Sole
  <2> QED BY <2>1, <2>2
<1>8. DbSound(deployment, d)
  <2>1. "meta" \in d.tables /\ "schemas" \in DOMAIN View(p).keys /\ (deployment # "clickhouse" => "owners" \in d.tables)
    BY <1>4, <1>5, <1>6 DEF Settled
  <2>2. (Tabled(deployment) /\ "records" \in d.tables => Promised(d, d.keys["schemas"])) /\ (deployment = "clickhouse" => d.claims = {} /\ "owners" \notin d.tables)
    BY <1>4, <1>5, <1>6, <1>v DEF DbSound, Promised
  <2> QED BY <1>4, <1>5, <1>6, <1>v, <2>1, <2>2 DEF DbSound
<1>9. Grown(deployment, View(p), d)
  BY <1>5, <1>6 DEF Grown, Owned, Distinct
<1> QED BY <1>4, <1>6, <1>8, <1>9, <1>v DEF d

\* The last step of a first opening of MongoDB, and of the upgrade.
LEMMA MarksOwnership ==
  ASSUME OpenInv, NEW p \in Procs, At(p, "ownership"), proc[p].job = "open" \/ deployment = "mongo",
         Writes(p, Stamped(View(p), "ownership", Value("ownership", proc[p].ver)), FALSE),
         Goes(p, [Then(p) EXCEPT !.ready = @ \/ "ownership" = "ownership"])
  PROVE  OpenInv'
<1> DEFINE S == StepsOf(proc[p].todo)
           d == Stamped(View(p), "ownership", Value("ownership", proc[p].ver))
           r == [Then(p) EXCEPT !.ready = @ \/ "ownership" = "ownership"]
<1>1. Writes(p, d, FALSE) /\ Goes(p, r)
  OBVIOUS
<1>2. /\ "ownership" \in S /\ \A s \in S : s = "ownership" \/ Rank["ownership"] < Rank[s]
      /\ proc[p].job = "first" => FirstOk(deployment, proc[p], View(p), S)
      /\ proc[p].job = "open" => InUse(deployment, proc[p], View(p)) /\ OpenOk(deployment, proc[p], View(p), S)
      /\ proc[p].job = "ingest" => IngestOk(deployment, proc[p], View(p), S)
      /\ proc[p].job \in {"first", "open", "ingest"}
      /\ proc[p].ver \in DOMAIN Schema /\ proc[p].made \subseteq {"meta", "owners"}
      /\ proc[p].pc = "run" /\ proc[p].todo # <<>>
  BY Taken
<1>6. /\ DOMAIN d = DbFields /\ d.tables = View(p).tables /\ DOMAIN d.keys = DOMAIN View(p).keys \cup {"ownership"}
      /\ Settled(deployment, View(p)) /\ proc[p].made = {} /\ DbSound(deployment, View(p))
      /\ DbSound(deployment, d) /\ Grown(deployment, View(p), d)
  BY OwnershipMarked
<1>7. /\ DOMAIN r = ProcFields /\ r.made = proc[p].made /\ r.pc = "run" /\ r.job = proc[p].job /\ r.ver = proc[p].ver /\ r.seen = proc[p].seen
      /\ InTurn(r.todo) /\ StepsOf(r.todo) = S \ {"ownership"}
  BY ThenFields DEF ProcFields
<1> HIDE DEF d, r, S
<1>3. "owners" \notin S /\ "layout" \notin S /\ "claims" \notin S
  BY <1>2 DEF Rank
<1>10. CASE proc[p].job = "open"
  <2>1. OpenOk(deployment, proc[p], d, S)
    BY <1>2, <1>6, <1>10, UpgradeGrows
  <2>2. OpenOk(deployment, r, d, S \ {"ownership"})
    BY <1>7, <2>1 DEF OpenOk, Fits
  <2>3. "ownership" \in DOMAIN d.keys
    BY <1>6
  <2> QED BY <1>1, <1>6, <1>7, <1>10, <2>2, <2>3, UpgradeStep
<1>11. CASE proc[p].job = "first"
  <2>1. FirstOk(deployment, proc[p], d, S) /\ deployment = "mongo"
    BY <1>2, <1>6, <1>11, FirstGrows
  <2>2. FirstOk(deployment, r, d, S \ {"ownership"})
    BY <1>3, <1>6, <1>7, <2>1 DEF FirstOk, LayoutOk, Fits
  <2>3. ProcOk(deployment, r, d)
    BY <1>2, <1>7, <1>11, <2>2 DEF ProcOk
  <2>4. Becomes(p, r, d) /\ Polite(p, View(p), d) /\ r.made = {}
    BY <1>6, <1>7, <2>3 DEF Becomes, MakerOk, Polite
  <2>5. ~Transactional(deployment)
    BY <2>1 DEF Transactional
  <2> QED BY <1>1, <1>6, <1>7, <2>4, <2>5, WriteStep
<1>12. proc[p].job # "ingest"
  BY <1>2 DEF IngestOk, IngestSteps
<1> QED BY <1>2, <1>10, <1>11, <1>12

LEMMA StampsAKey ==
  ASSUME OpenInv, NEW p \in Procs, StampKey(p)
  PROVE  OpenInv'
<1>1. PICK x \in Required \cup {"profile"} :
        /\ At(p, x)
        /\ IF x \in DOMAIN View(p).keys /\ deployment # "mongo" THEN lock \in {None, p} /\ Refused(p)
           ELSE /\ Writes(p, Stamped(View(p), x, Value(x, proc[p].ver)), FALSE)
                /\ Goes(p, [Then(p) EXCEPT !.ready = @ \/ x = "ownership"])
  BY DEF StampKey
<1>2. /\ proc[p].job = "first" => FirstOk(deployment, proc[p], View(p), StepsOf(proc[p].todo))
      /\ proc[p].job = "open" => InUse(deployment, proc[p], View(p)) /\ OpenOk(deployment, proc[p], View(p), StepsOf(proc[p].todo))
      /\ proc[p].job = "ingest" => IngestOk(deployment, proc[p], View(p), StepsOf(proc[p].todo))
      /\ proc[p].job \in {"first", "open", "ingest"}
      /\ x \in StepsOf(proc[p].todo) /\ proc[p].pc = "run" /\ proc[p].todo # <<>> /\ Head(proc[p].todo) = x
  BY <1>1, Taken
<1>3. \/ proc[p].job = "first" /\ HasProfile(deployment)
      \/ x = "ownership" /\ (proc[p].job = "open" \/ deployment = "mongo") /\ proc[p].made = {}
  <2>1. CASE proc[p].job = "first" /\ deployment # "mongo"
    <3>1. ~HasProfile(deployment) => x \notin Marks(deployment) /\ x # "meta" /\ deployment # "clickhouse"
      BY DEF Marks, Required, HasProfile
    <3> QED BY <1>2, <2>1, <3>1 DEF FirstOk, Coming, Begun
  <2>2. CASE proc[p].job = "first" /\ deployment = "mongo"
    BY <1>2, <2>2 DEF FirstOk, LayoutOk, Required
  <2>3. CASE proc[p].job = "open"
    <3>1. Upgrades(deployment) \subseteq {"lease", "owners", "claims", "ownership", "unlease", "tables", "column", "restamp"}
      BY DEF Upgrades
    <3>2. x = "ownership"
      BY <1>2, <2>3, <3>1 DEF OpenOk, Required
    <3> QED BY <1>2, <2>3, <3>2 DEF InUse
  <2>4. CASE proc[p].job = "ingest"
    BY <1>2, <2>4 DEF IngestOk, IngestSteps, Required
  <2> QED BY <1>2, <2>1, <2>2, <2>3, <2>4
<1>4. CASE x \in DOMAIN View(p).keys /\ deployment # "mongo"
  <2>1. Raises(p, db, FALSE)
    BY <1>1, <1>4 DEF Refused
  <2>2. proc[p].made # {} => deployment # "postgresql" /\ Head(proc[p].todo) # "unfence"
    BY <1>2, <1>3 DEF HasProfile, Required
  <2> QED BY <1>2, <2>1, <2>2, RefusedStep
<1>5. CASE ~(x \in DOMAIN View(p).keys /\ deployment # "mongo")
  <2>1. CASE proc[p].job = "first" /\ HasProfile(deployment)
    <3>1. x \notin DOMAIN View(p).keys
      BY <1>5, <2>1 DEF HasProfile
    <3> QED BY <1>1, <1>5, <2>1, <3>1, StampsAKeyFirst
  <2>2. CASE x = "ownership" /\ (proc[p].job = "open" \/ deployment = "mongo") /\ proc[p].made = {}
    BY <1>1, <1>5, <2>2, MarksOwnership
  <2> QED BY <1>3, <2>1, <2>2
<1> QED BY <1>4, <1>5

LEMMA MongoMakesNothing ==
  ASSUME OpenInv, deployment = "mongo", NEW q \in Procs
  PROVE  proc[q].made = {}
<1>1. ProcOk(deployment, proc[q], View(q))
  BY DEF OpenInv
<1> QED BY <1>1 DEF ProcOk, FirstOk, LayoutOk, InUse

LEMMA InsertsLayout ==
  ASSUME OpenInv, NEW p \in Procs, InsertLayout(p)
  PROVE  OpenInv'
<1> DEFINE S == StepsOf(proc[p].todo)
<1>1. At(p, "layout")
  BY DEF InsertLayout
<1>2. /\ "layout" \in S
      /\ proc[p].job = "first" => FirstOk(deployment, proc[p], View(p), S)
      /\ proc[p].job = "open" => OpenOk(deployment, proc[p], View(p), S)
      /\ proc[p].job = "ingest" => IngestOk(deployment, proc[p], View(p), S)
      /\ proc[p].job \in {"first", "open", "ingest"} /\ proc[p].ver \in DOMAIN Schema
  BY <1>1, Taken
<1>v. /\ DOMAIN View(p) = DbFields /\ DbSound(deployment, View(p)) /\ SoundFor(p) /\ (~Transactional(deployment) => lock = None)
      /\ None \notin Procs /\ (lock # p => View(p) = db) /\ DOMAIN db = DbFields
  BY ViewFacts DEF SoundFor, Shapes
<1> HIDE DEF S
<1>3. proc[p].job = "first" /\ deployment = "mongo" /\ LayoutOk(deployment, proc[p], View(p), S)
  <2>1. Upgrades(deployment) \subseteq {"lease", "owners", "claims", "ownership", "unlease", "tables", "column", "restamp"}
    BY DEF Upgrades
  <2>2. proc[p].job # "open" /\ proc[p].job # "ingest"
    BY <1>2, <2>1 DEF OpenOk, IngestOk, IngestSteps
  <2>3. deployment = "mongo"
    <3>1. "layout" \notin Marks(deployment)
      BY DEF Marks
    <3> QED BY <1>2, <2>2, <3>1 DEF FirstOk, Coming, Begun
  <2> QED BY <1>2, <2>2, <2>3 DEF FirstOk
<1>4. S = {"layout", "owners", "ownership"} /\ proc[p].made = {} /\ ~proc[p].ready
  BY <1>2, <1>3 DEF LayoutOk
<1>5. lock = None /\ lock # p /\ View(p) = db
  BY <1>3, <1>v DEF Transactional
<1>6. CASE "meta" \in db.tables
  <2> DEFINE r == [proc[p] EXCEPT !.pc = "read", !.todo = <<>>]
  <2>1. lock' = lock /\ tx' = tx /\ deployment' = deployment /\ db' = db /\ proc' = [proc EXCEPT ![p] = r]
    BY <1>6 DEF InsertLayout, Goes
  <2>2. DOMAIN r = ProcFields /\ r.made = {} /\ r.ver = proc[p].ver /\ r.pc = "read" /\ r.job = "first"
    BY <1>3, <1>4, <1>v DEF SoundFor, Shapes, ProcFields
  <2>3. ProcOk(deployment, r, View(p))
    BY <1>2, <2>2 DEF ProcOk
  <2>4. Becomes(p, r, View(p)) /\ Untouched(deployment, db, db)
    BY <2>2, <2>3 DEF Becomes, MakerOk, Untouched
  <2> HIDE DEF r
  <2> QED BY <1>5, <1>v, <2>1, <2>2, <2>4, QuietStep
<1>7. CASE "meta" \notin db.tables
  <2> DEFINE d == [db EXCEPT !.tables = @ \cup {"meta"}, !.keys = [k \in Required \ {"ownership"} |-> Value(k, proc[p].ver)]]
             r == Then(p)
  <2>1. Writes(p, d, TRUE) /\ Goes(p, r)
    BY <1>7 DEF InsertLayout
  <2>2. /\ DOMAIN d = DbFields /\ d.tables = db.tables \cup {"meta"} /\ d.columns = db.columns /\ d.rows = db.rows /\ d.marker = db.marker /\ d.claims = db.claims
        /\ DOMAIN d.keys = Required \ {"ownership"} /\ d.keys["schemas"] = proc[p].ver
    BY <1>v DEF DbFields, Required, Value
  <2>3. /\ DOMAIN r = ProcFields /\ r.made = {} /\ r.pc = "run" /\ r.job = "first" /\ r.ver = proc[p].ver /\ ~r.ready
        /\ InTurn(r.todo) /\ StepsOf(r.todo) = S \ {"layout"}
    BY <1>1, <1>3, <1>4, ThenFields DEF S
  <2> HIDE DEF d, r
  <2>4. DOMAIN db.keys = {} /\ db.rows = {} /\ db.claims = {}
    BY <1>5, <1>7, <1>v DEF DbSound, Settled
  <2>5. Settled(deployment, d) /\ Owned(d) /\ "ownership" \notin DOMAIN d.keys
    BY <1>3, <2>2, <2>4 DEF Distinct, Settled, HasProfile, Owned
  <2>6. DbSound(deployment, d)
    BY <1>2, <1>3, <2>2, <2>4, <2>5 DEF DbSound, Tabled
  <2>7. Grown(deployment, View(p), d)
    BY <1>5, <2>2, <2>4 DEF Distinct, Grown, Owned
  <2>8. Fits(deployment, r, d)
    BY <1>3, <2>2, <2>3, AdditiveSelf DEF Fits, Tabled
  <2>9. FirstOk(deployment, r, d, S \ {"layout"})
    BY <1>3, <1>4, <2>3, <2>5, <2>8 DEF FirstOk, LayoutOk
  <2>10. ProcOk(deployment, r, d)
    BY <1>2, <2>3, <2>9 DEF ProcOk
  <2>11. Becomes(p, r, d) /\ Polite(p, View(p), d)
    BY <1>3, <2>3, <2>10, MongoMakesNothing DEF Becomes, MakerOk, Polite
  <2>12. ~Transactional(deployment)
    BY <1>3 DEF Transactional
  <2> QED BY <2>1, <2>2, <2>3, <2>6, <2>7, <2>11, <2>12, WriteStep
<1> QED BY <1>6, <1>7

LEMMA CreatesOwners ==
  ASSUME OpenInv, NEW p \in Procs, CreateOwners(p)
  PROVE  OpenInv'
<1> DEFINE S == StepsOf(proc[p].todo)
<1>1. At(p, "owners")
  BY DEF CreateOwners
<1>2. /\ "owners" \in S /\ \A s \in S : s = "owners" \/ Rank["owners"] < Rank[s]
      /\ proc[p].job = "first" => FirstOk(deployment, proc[p], View(p), S)
      /\ proc[p].job = "open" => InUse(deployment, proc[p], View(p)) /\ OpenOk(deployment, proc[p], View(p), S)
      /\ proc[p].job = "ingest" => IngestOk(deployment, proc[p], View(p), S)
      /\ proc[p].job \in {"first", "open", "ingest"} /\ proc[p].ver \in DOMAIN Schema /\ proc[p].made \subseteq {"meta", "owners"}
      /\ proc[p].pc = "run" /\ proc[p].todo # <<>>
  BY <1>1, Taken
<1>v. /\ DOMAIN View(p) = DbFields /\ DbSound(deployment, View(p)) /\ SoundFor(p) /\ (~Transactional(deployment) => lock = None)
      /\ None \notin Procs /\ (lock # p => View(p) = db) /\ DOMAIN db = DbFields /\ deployment \in Deployments
      /\ MakerOk(deployment, proc[p], View(p)) /\ MakingOk(p)
  BY ViewFacts DEF SoundFor, Shapes
<1>t. /\ DOMAIN Then(p) = ProcFields /\ InTurn(Then(p).todo) /\ StepsOf(Then(p).todo) = S \ {"owners"}
      /\ Then(p).pc = "run" /\ Then(p).job = proc[p].job /\ Then(p).ver = proc[p].ver /\ Then(p).made = proc[p].made /\ Then(p).seen = proc[p].seen
      /\ Then(p).ready = proc[p].ready
  BY <1>1, ThenFields
<1> HIDE DEF S
<1>3. "meta" \notin S /\ "layout" \notin S
  BY <1>2 DEF Rank
<1>4. \/ proc[p].job = "open" /\ deployment # "clickhouse" /\ proc[p].made = {}
      \/ proc[p].job = "first" /\ deployment = "mongo" /\ proc[p].made = {}
      \/ proc[p].job = "first" /\ deployment \notin {"mongo", "clickhouse"} /\ Begun(deployment, proc[p], View(p), S) /\ proc[p].made # {}
         /\ "owners" \notin View(p).tables
  <2>1. CASE proc[p].job = "open"
    BY <1>2, <2>1 DEF OpenOk, Upgrades, InUse
  <2>2. CASE proc[p].job = "first" /\ deployment = "mongo"
    BY <1>2, <2>2 DEF FirstOk, LayoutOk
  <2>3. CASE proc[p].job = "first" /\ deployment # "mongo"
    <3>1. Begun(deployment, proc[p], View(p), S)
      BY <1>2, <1>3, <2>3 DEF FirstOk
    <3>2. proc[p].made # {} /\ "owners" \notin proc[p].made /\ deployment # "clickhouse"
      BY <1>2, <3>1 DEF Begun, Marks, HasProfile
    <3> QED BY <1>v, <2>3, <3>1, <3>2 DEF MakerOk
  <2>4. proc[p].job # "ingest"
    BY <1>2 DEF IngestOk, IngestSteps
  <2> QED BY <1>2, <2>1, <2>2, <2>3, <2>4
<1>5. CASE "owners" \notin View(p).tables
  <2> DEFINE d == [View(p) EXCEPT !.tables = @ \cup {"owners"}]
             r == [Then(p) EXCEPT !.made = IF proc[p].job = "first" /\ deployment # "mongo" THEN @ \cup {"owners"} ELSE @]
  <2>1. Writes(p, d, TRUE) /\ Goes(p, r)
    BY <1>5 DEF CreateOwners
  <2>2. /\ DOMAIN d = DbFields /\ d.tables = View(p).tables \cup {"owners"} /\ d.columns = View(p).columns /\ d.keys = View(p).keys
        /\ d.rows = View(p).rows /\ d.marker = View(p).marker /\ d.claims = View(p).claims
    BY <1>v DEF DbFields
  <2>3. /\ DOMAIN r = ProcFields /\ InTurn(r.todo) /\ StepsOf(r.todo) = S \ {"owners"}
        /\ r.pc = "run" /\ r.job = proc[p].job /\ r.ver = proc[p].ver /\ r.seen = proc[p].seen /\ r.ready = proc[p].ready
        /\ r.made = IF proc[p].job = "first" /\ deployment # "mongo" THEN proc[p].made \cup {"owners"} ELSE proc[p].made
    BY <1>t DEF ProcFields
  <2> HIDE DEF d, r
  <2>4. Grown(deployment, View(p), d)
    BY <2>2 DEF Distinct, Grown, Owned
  <2>5. "meta" \in View(p).tables
    <3>1. CASE proc[p].made # {}
      BY <1>v, <3>1 DEF MakerOk
    <3>2. CASE proc[p].made = {}
      BY <1>2, <1>3, <1>4, <3>2 DEF InUse, Settled, FirstOk, LayoutOk
    <3> QED BY <3>1, <3>2
  <2>6. (Settled(deployment, d) <=> Settled(deployment, View(p))) /\ Owned(d) <=> Owned(View(p))
    BY <2>2, <2>5 DEF Distinct, Settled, Owned
  <2>7. Settled(deployment, View(p)) => "ownership" \notin DOMAIN View(p).keys
    BY <1>4, <1>5, <1>v DEF DbSound
  <2>8. DbSound(deployment, d)
    <3>1. deployment # "clickhouse"
      BY <1>4
    <3>2. Tabled(deployment) /\ Settled(deployment, View(p)) /\ "records" \in View(p).tables => Promised(d, d.keys["schemas"])
      BY <1>v, <2>2 DEF DbSound, Promised
    <3>3. Settled(deployment, d) <=> Settled(deployment, View(p))
      BY <2>2, <2>5 DEF Settled
    <3> QED BY <1>v, <2>2, <2>5, <2>7, <3>1, <3>2, <3>3 DEF Owned, Distinct, Sole, DbSound
  <2>9. CASE proc[p].job = "open"
    <3>1. OpenOk(deployment, proc[p], d, S)
      BY <1>2, <1>v, <2>4, <2>8, <2>9, UpgradeGrows DEF InUse
    <3>2. OpenOk(deployment, r, d, S \ {"owners"})
      BY <2>2, <2>3, <3>1 DEF OpenOk, Fits
    <3>3. r.made = proc[p].made
      BY <2>3, <2>9
    <3> QED BY <1>1, <2>1, <2>2, <2>3, <2>4, <2>8, <2>9, <3>2, <3>3, UpgradeStep
  <2>10. CASE proc[p].job = "first" /\ deployment = "mongo"
    <3>1. FirstOk(deployment, proc[p], d, S)
      BY <1>2, <2>4, <2>10, FirstGrows
    <3>2. FirstOk(deployment, r, d, S \ {"owners"})
      BY <1>3, <2>2, <2>3, <2>10, <3>1 DEF FirstOk, LayoutOk, Fits
    <3>3. ProcOk(deployment, r, d)
      BY <1>2, <2>3, <2>10, <3>2 DEF ProcOk
    <3>4. r.made = {} /\ Becomes(p, r, d) /\ Polite(p, View(p), d) /\ ~Transactional(deployment)
      BY <1>4, <2>3, <2>10, <3>3, MongoMakesNothing DEF Becomes, MakerOk, Polite, Transactional
    <3> QED BY <2>1, <2>2, <2>3, <2>4, <2>8, <3>4, WriteStep
  <2>11. CASE proc[p].job = "first" /\ deployment # "mongo"
    <3>1. Begun(deployment, proc[p], View(p), S) /\ proc[p].made # {} /\ Marks(deployment) \subseteq S
      BY <1>2, <1>4, <2>11 DEF Begun
    <3>2. /\ HasProfile(deployment) => "profile" \notin DOMAIN View(p).keys /\ "schemas" \in S /\ "profile" \in S
          /\ ~HasProfile(deployment) => DOMAIN View(p).keys = {} /\ "stamp" \in S
      <4>1. /\ HasProfile(deployment) => "schemas" \in S /\ "profile" \in S
            /\ ~HasProfile(deployment) => "stamp" \in S
        BY <3>1 DEF Marks
      <4> QED BY <1>2, <1>v, <3>1, <4>1 DEF MakerOk, S
    <3>3. Begun(deployment, r, d, S \ {"owners"})
      BY <2>2, <2>3, <2>11, <3>1, <3>2 DEF Begun, Required
    <3>4. ProcOk(deployment, r, d)
      BY <1>2, <1>3, <2>3, <2>11, <3>3 DEF ProcOk, FirstOk
    <3>5. MakerOk(deployment, r, d)
      BY <2>2, <2>3, <2>5, <2>11, <3>2 DEF MakerOk
    <3>6. \A q \in Procs : proc[q].made # {} => q = p
      BY <1>v, <3>1 DEF MakingOk
    <3>7. Becomes(p, r, d) /\ Polite(p, View(p), d)
      BY <2>3, <3>4, <3>5, <3>6 DEF Becomes, Polite
    <3>8. deployment = "sqlite" => Durable(TRUE) /\ lock # p /\ DOMAIN d.keys = {}
      BY <1>2, <1>v, <2>2, <3>1, <3>2 DEF Durable, SoundFor, TxOk, HasProfile
    <3>9. r.made # {}
      BY <2>3, <3>1
    <3> QED BY <2>1, <2>2, <2>3, <2>4, <2>8, <2>11, <3>6, <3>7, <3>8, <3>9, WriteStep
  <2> QED BY <1>4, <2>9, <2>10, <2>11
<1>6. CASE "owners" \in View(p).tables
  <2>1. Goes(p, Then(p)) /\ UNCHANGED <<deployment, db, tx, lock, faults, deaths>> /\ proc[p].made = {} /\ (proc[p].job = "open" \/ deployment = "mongo")
    BY <1>4, <1>6 DEF CreateOwners
  <2> DEFINE r == Then(p)
  <2> HIDE DEF r
  <2>2. /\ DOMAIN r = ProcFields /\ InTurn(r.todo) /\ StepsOf(r.todo) = S \ {"owners"}
        /\ r.pc = "run" /\ r.job = proc[p].job /\ r.ver = proc[p].ver /\ r.seen = proc[p].seen /\ r.ready = proc[p].ready /\ r.made = {}
    BY <1>t, <2>1 DEF r
  <2>3. lock' = lock /\ tx' = tx /\ deployment' = deployment /\ db' = db /\ proc' = [proc EXCEPT ![p] = r]
    BY <2>1 DEF Goes, r
  <2>4. CASE proc[p].job = "open"
    <3>1. OpenOk(deployment, r, View(p), S \ {"owners"}) /\ InUse(deployment, r, View(p))
      BY <1>2, <1>6, <2>2, <2>4 DEF OpenOk, Fits, InUse
    <3>2. ProcOk(deployment, r, View(p))
      BY <1>2, <2>2, <2>4, <3>1 DEF ProcOk
    <3>3. Becomes(p, r, View(p)) /\ Untouched(deployment, db, db)
      BY <2>2, <3>2 DEF Becomes, MakerOk, Untouched
    <3> QED BY <1>v, <2>1, <2>2, <2>3, <3>3, QuietStep
  <2>5. CASE proc[p].job = "first" /\ deployment = "mongo"
    <3>1. FirstOk(deployment, r, View(p), S \ {"owners"})
      BY <1>2, <1>3, <1>6, <2>2, <2>5 DEF FirstOk, LayoutOk, Fits
    <3>2. ProcOk(deployment, r, View(p))
      BY <1>2, <2>2, <2>5, <3>1 DEF ProcOk
    <3>3. Becomes(p, r, View(p)) /\ Untouched(deployment, db, db)
      BY <2>2, <3>2 DEF Becomes, MakerOk, Untouched
    <3> QED BY <1>v, <2>1, <2>2, <2>3, <3>3, QuietStep
  <2> QED BY <1>4, <2>1, <2>4, <2>5
<1> QED BY <1>5, <1>6

-----------------------------------------------------------------------------
(* Upgrades.                                                               *)

\* A step that only uses up its place in the program.
LEMMA DoneStep ==
  ASSUME OpenInv, NEW p \in Procs, NEW h, At(p, h), h \in {"lease", "unlease"} \cup IngestSteps,
         NEW d, NEW r, lock' = lock, tx' = tx, deployment' = deployment, db' = d, Goes(p, r), DOMAIN d = DbFields,
         Untouched(deployment, db, d), DOMAIN r = ProcFields, r.pc = "run", r.job = proc[p].job, r.ver = proc[p].ver,
         r.ready = proc[p].ready, r.made = proc[p].made, r.seen = proc[p].seen, InTurn(r.todo),
         StepsOf(r.todo) = StepsOf(proc[p].todo) \ {h} \/ (proc[p].job = "ingest" /\ StepsOf(r.todo) \subseteq IngestSteps)
  PROVE  OpenInv'
<1> DEFINE S == StepsOf(proc[p].todo)
<1>2. /\ h \in S
      /\ proc[p].job = "first" => FirstOk(deployment, proc[p], View(p), S)
      /\ proc[p].job = "open" => InUse(deployment, proc[p], View(p)) /\ OpenOk(deployment, proc[p], View(p), S)
      /\ proc[p].job = "ingest" => InUse(deployment, proc[p], View(p)) /\ IngestOk(deployment, proc[p], View(p), S)
      /\ proc[p].job \in {"first", "open", "ingest"} /\ proc[p].ver \in DOMAIN Schema
  BY Taken
<1> HIDE DEF S
<1>3. proc[p].job # "first"
  <2>1. FirstOk(deployment, proc[p], View(p), S) => h \notin S
    BY DEF FirstOk, LayoutOk, Coming, Begun, Marks, IngestSteps
  <2> QED BY <1>2, <2>1
<1>4. proc[p].made = {} /\ InUse(deployment, r, View(p))
  BY <1>2, <1>3 DEF InUse
<1>5. CASE proc[p].job = "open"
  <2>1. StepsOf(r.todo) = S \ {h}
    BY <1>5 DEF S
  <2>2. h \notin {"owners", "claims", "ownership", "tables", "column", "restamp"}
    BY DEF IngestSteps
  <2>3. OpenOk(deployment, proc[p], View(p), S)
    BY <1>2, <1>5
  <2>4. OpenOk(deployment, r, View(p), S \ {h})
    BY <2>2, <2>3 DEF OpenOk, Fits
  <2>5. ProcOk(deployment, r, View(p))
    BY <1>2, <1>4, <1>5, <2>1, <2>4 DEF ProcOk
  <2>6. Becomes(p, r, View(p)) /\ r.made = {}
    BY <1>4, <2>5 DEF Becomes, MakerOk
  <2>7. proc' = [proc EXCEPT ![p] = r]
    BY DEF Goes
  <2> QED BY <1>4, <2>6, <2>7, QuietStep
<1>6. CASE proc[p].job = "ingest"
  <2>1. StepsOf(r.todo) \subseteq IngestSteps
    BY <1>2, <1>6 DEF IngestOk, S
  <2>2. IngestOk(deployment, r, View(p), StepsOf(r.todo))
    BY <1>2, <1>6, <2>1 DEF IngestOk, Fits
  <2>3. ProcOk(deployment, r, View(p))
    BY <1>2, <1>4, <1>6, <2>2 DEF ProcOk
  <2>4. Becomes(p, r, View(p)) /\ r.made = {}
    BY <1>4, <2>3 DEF Becomes, MakerOk
  <2>5. proc' = [proc EXCEPT ![p] = r]
    BY DEF Goes
  <2> QED BY <1>4, <2>4, <2>5, QuietStep
<1> QED BY <1>2, <1>3, <1>5, <1>6

\* Leases belong to deployments without transactions.
LEMMA LeaseStep ==
  ASSUME OpenInv, NEW p \in Procs, NEW h, At(p, h), h \in {"lease", "unlease"} \cup IngestSteps
  PROVE  /\ lock = None /\ proc[p].made = {} /\ Durable(TRUE) /\ Durable(FALSE) /\ proc[p].pc = "run" /\ DOMAIN db = DbFields /\ View(p) = db
         /\ h \notin {"lease", "unlease"} => proc[p].job = "ingest" /\ deployment = "clickhouse"
         /\ Settled(deployment, db)
<1> DEFINE S == StepsOf(proc[p].todo)
<1>2. /\ h \in S /\ proc[p].pc = "run"
      /\ proc[p].job = "first" => FirstOk(deployment, proc[p], View(p), S)
      /\ proc[p].job = "open" => InUse(deployment, proc[p], View(p)) /\ OpenOk(deployment, proc[p], View(p), S)
      /\ proc[p].job = "ingest" => InUse(deployment, proc[p], View(p)) /\ IngestOk(deployment, proc[p], View(p), S)
      /\ proc[p].job \in {"first", "open", "ingest"}
  BY Taken
<1> HIDE DEF S
<1>3. proc[p].job # "first"
  <2>1. FirstOk(deployment, proc[p], View(p), S) => h \notin S
    BY DEF FirstOk, LayoutOk, Coming, Begun, Marks, IngestSteps
  <2> QED BY <1>2, <2>1
<1>4. proc[p].job = "open" => h \in {"lease", "unlease"} /\ ~Transactional(deployment)
  <2> SUFFICES ASSUME proc[p].job = "open" PROVE h \in {"lease", "unlease"} /\ ~Transactional(deployment)
    OBVIOUS
  <2>1. S \subseteq Upgrades(deployment)
    BY <1>2 DEF OpenOk
  <2>2. Upgrades(deployment) \subseteq {"lease", "owners", "claims", "ownership", "unlease", "tables", "column", "restamp"}
    BY DEF Upgrades
  <2>3. h \in {"lease", "unlease"}
    BY <1>2, <2>1, <2>2 DEF IngestSteps
  <2>4. Transactional(deployment) => Upgrades(deployment) = {"owners", "claims", "ownership", "tables", "column", "restamp"}
    BY DEF Upgrades, Transactional
  <2> QED BY <1>2, <2>1, <2>3, <2>4
<1>5. proc[p].job = "ingest" => deployment = "clickhouse"
  BY <1>2 DEF IngestOk
<1>6. ~Transactional(deployment)
  BY <1>2, <1>3, <1>4, <1>5 DEF Transactional
<1>7. Durable(TRUE) /\ Durable(FALSE)
  BY <1>6 DEF Durable, Transactional
<1>8. lock = None /\ DOMAIN db = DbFields /\ View(p) = db
  BY <1>6, ViewFacts DEF SoundFor, Shapes
<1>9. proc[p].made = {} /\ Settled(deployment, db)
  BY <1>2, <1>3, <1>8 DEF InUse
<1> QED BY <1>2, <1>3, <1>4, <1>5, <1>7, <1>8, <1>9

LEMMA TakesLease ==
  ASSUME OpenInv, NEW p \in Procs, TakeLease(p)
  PROVE  OpenInv'
<1>1. At(p, "lease")
  BY DEF TakeLease
<1>2. lock = None /\ proc[p].made = {} /\ Durable(FALSE) /\ proc[p].pc = "run" /\ DOMAIN db = DbFields /\ None \notin Procs
  BY <1>1, LeaseStep, OpeningAssumption
<1> DEFINE d == [db EXCEPT !.lease = p]
           r == [Then(p) EXCEPT !.held = TRUE]
<1>3. CASE Refused(p)
  <2>1. Raises(p, db, FALSE)
    BY <1>3 DEF Refused
  <2> QED BY <1>2, <2>1, RefusedStep
<1>4. CASE Writes(p, d, FALSE) /\ Goes(p, r)
  <2>1. lock' = lock /\ tx' = tx /\ deployment' = deployment /\ db' = d
    BY <1>2, <1>4 DEF Writes
  <2>2. DOMAIN d = DbFields /\ Untouched(deployment, db, d)
    BY <1>2 DEF DbFields, Untouched
  <2>3. /\ DOMAIN r = ProcFields /\ r.pc = "run" /\ r.job = proc[p].job /\ r.ver = proc[p].ver /\ r.ready = proc[p].ready
        /\ r.made = proc[p].made /\ r.seen = proc[p].seen /\ InTurn(r.todo) /\ StepsOf(r.todo) = StepsOf(proc[p].todo) \ {"lease"}
    BY <1>1, ThenFields DEF ProcFields
  <2>4. Goes(p, r)
    BY <1>4
  <2> HIDE DEF d, r
  <2> QED BY <1>1, <2>1, <2>2, <2>3, <2>4, DoneStep
<1> QED BY <1>3, <1>4 DEF TakeLease

LEMMA ReleasesLease ==
  ASSUME OpenInv, NEW p \in Procs, ReleaseLease(p)
  PROVE  OpenInv'
<1>1. At(p, "unlease")
  BY DEF ReleaseLease
<1>2. lock = None /\ Durable(FALSE) /\ DOMAIN db = DbFields /\ None \notin Procs
  BY <1>1, LeaseStep, OpeningAssumption
<1> DEFINE d == [db EXCEPT !.lease = None]
           r == Then(p)
<1>4. Writes(p, d, FALSE) /\ Goes(p, r)
  BY DEF ReleaseLease
<1>5. lock' = lock /\ tx' = tx /\ deployment' = deployment /\ db' = d
  BY <1>2, <1>4 DEF Writes
<1>6. DOMAIN d = DbFields /\ Untouched(deployment, db, d)
  BY <1>2 DEF DbFields, Untouched
<1>7. /\ DOMAIN r = ProcFields /\ r.pc = "run" /\ r.job = proc[p].job /\ r.ver = proc[p].ver /\ r.ready = proc[p].ready
      /\ r.made = proc[p].made /\ r.seen = proc[p].seen /\ InTurn(r.todo) /\ StepsOf(r.todo) = StepsOf(proc[p].todo) \ {"unlease"}
  BY <1>1, ThenFields
<1>8. Goes(p, r)
  BY <1>4
<1> HIDE DEF d, r
<1> QED BY <1>1, <1>5, <1>6, <1>7, <1>8, DoneStep

\* What a step of an upgrade begins with.
LEMMA UpgradeFacts ==
  ASSUME OpenInv, NEW p \in Procs, NEW h, At(p, h), h \in {"claims", "tables", "column", "restamp"}
  PROVE  LET S == StepsOf(proc[p].todo)
             d == View(p)
         IN  /\ h \in S /\ \A s \in S : s = h \/ Rank[h] < Rank[s]
             /\ proc[p].job = "open" /\ proc[p].pc = "run" /\ proc[p].made = {} /\ proc[p].ver \in DOMAIN Schema
             /\ InUse(deployment, proc[p], d) /\ OpenOk(deployment, proc[p], d, S) /\ Settled(deployment, d)
             /\ (h # "claims" => deployment # "clickhouse") /\ (h \in {"tables", "column"} => Tabled(deployment))
             /\ DOMAIN d = DbFields /\ DbSound(deployment, d) /\ d.keys["schemas"] \in DOMAIN Schema /\ "schemas" \in DOMAIN d.keys
             /\ "meta" \in d.tables /\ deployment \in Deployments
<1> DEFINE S == StepsOf(proc[p].todo)
<1>2. /\ h \in S /\ \A s \in S : s = h \/ Rank[h] < Rank[s]
      /\ proc[p].pc = "run" /\ proc[p].ver \in DOMAIN Schema
      /\ proc[p].job = "first" => FirstOk(deployment, proc[p], View(p), S)
      /\ proc[p].job = "open" => InUse(deployment, proc[p], View(p)) /\ OpenOk(deployment, proc[p], View(p), S)
      /\ proc[p].job = "ingest" => IngestOk(deployment, proc[p], View(p), S)
      /\ proc[p].job \in {"first", "open", "ingest"}
  BY Taken
<1>v. DOMAIN View(p) = DbFields /\ DbSound(deployment, View(p)) /\ deployment \in Deployments
  BY ViewFacts DEF SoundFor, Shapes
<1> HIDE DEF S
<1>3. proc[p].job = "open"
  <2>1. FirstOk(deployment, proc[p], View(p), S) => h \notin S
    BY DEF FirstOk, LayoutOk, Coming, Begun, Marks
  <2>2. IngestOk(deployment, proc[p], View(p), S) => h \notin S
    BY DEF IngestOk, IngestSteps
  <2> QED BY <1>2, <2>1, <2>2
<1>4. S \subseteq Upgrades(deployment)
  BY <1>2, <1>3 DEF OpenOk
<1>5. h # "claims" => deployment # "clickhouse"
  <2>1. deployment = "clickhouse" => Upgrades(deployment) = {"lease", "claims", "ownership"}
    BY DEF Upgrades
  <2> QED BY <1>2, <1>4, <2>1
<1>6. h \in {"tables", "column"} => Tabled(deployment)
  <2>1. deployment = "mongo" => Upgrades(deployment) = {"lease", "owners", "claims", "ownership", "unlease", "restamp"}
    BY DEF Upgrades
  <2> QED BY <1>2, <1>4, <1>5, <1>v, <2>1, OpeningAssumption DEF Tabled
<1>7. Settled(deployment, View(p)) /\ proc[p].made = {}
  BY <1>2, <1>3 DEF InUse
<1>8. "schemas" \in DOMAIN View(p).keys /\ "meta" \in View(p).tables
  BY <1>7 DEF Settled, Required
<1>9. View(p).keys["schemas"] \in DOMAIN Schema
  BY <1>8, <1>v DEF DbSound
<1> QED BY <1>2, <1>3, <1>5, <1>6, <1>7, <1>8, <1>9, <1>v DEF S

LEMMA ClaimsRows ==
  ASSUME OpenInv, NEW p \in Procs, ClaimRows(p)
  PROVE  OpenInv'
<1> DEFINE S == StepsOf(proc[p].todo)
           v == View(p)
<1>1. At(p, "claims")
  BY DEF ClaimRows
<1>2. /\ "claims" \in S /\ \A s \in S : s = "claims" \/ Rank["claims"] < Rank[s]
      /\ proc[p].job = "open" /\ proc[p].pc = "run" /\ proc[p].made = {} /\ proc[p].ver \in DOMAIN Schema
      /\ InUse(deployment, proc[p], v) /\ OpenOk(deployment, proc[p], v, S) /\ Settled(deployment, v)
      /\ DOMAIN v = DbFields /\ DbSound(deployment, v)
  BY <1>1, UpgradeFacts
<1>3. CASE Refused(p)
  <2>1. Raises(p, db, FALSE)
    BY <1>3 DEF Refused
  <2> QED BY <1>2, <2>1, RefusedStep
<1>4. ASSUME deployment = "mongo", NEW row \in Unclaimed(v), Writes(p, [v EXCEPT !.claims = @ \cup {row}], FALSE), UNCHANGED proc
      PROVE  OpenInv'
  <2> DEFINE d == [v EXCEPT !.claims = @ \cup {row}]
             r == proc[p]
  <2>1. Writes(p, d, FALSE)
    BY <1>4
  <2>2. Goes(p, r)
    BY <1>4 DEF Goes, OpenInv, Shapes
  <2>3. /\ DOMAIN d = DbFields /\ d.tables = v.tables /\ d.columns = v.columns /\ d.keys = v.keys /\ d.rows = v.rows
        /\ d.marker = v.marker /\ d.claims = v.claims \cup {row} /\ row \in v.rows /\ row \notin v.claims
    BY <1>2, <1>4 DEF DbFields, Unclaimed
  <2>4. DOMAIN r = ProcFields /\ InTurn(r.todo)
    BY <1>2 DEF OpenInv, Shapes, ProcOk
  <2> HIDE DEF d, v, S
  <2>5. ~Owned(v)
    BY <2>3 DEF Owned
  <2>6. Grown(deployment, v, d)
    BY <2>3, <2>5 DEF Grown
  <2>7. Settled(deployment, d) <=> Settled(deployment, v)
    BY <2>3 DEF Settled
  <2>8. DbSound(deployment, d)
    BY <1>2, <1>4, <2>3, <2>5, <2>7 DEF Owned, Distinct, Sole, DbSound, Promised
  <2>9. OpenOk(deployment, r, d, StepsOf(r.todo))
    BY <1>2, <2>6, <2>8, UpgradeGrows DEF S
  <2> HIDE DEF r
  <2>10. r = proc[p]
    BY DEF r
  <2> QED BY <1>1, <1>2, <2>1, <2>2, <2>3, <2>4, <2>6, <2>8, <2>9, <2>10, UpgradeStep DEF v
<1>5. ASSUME \A row \in v.rows : ~Clash(v, row), Goes(p, Then(p)),
             Writes(p, [v EXCEPT !.claims = IF deployment = "clickhouse" THEN @ ELSE @ \cup v.rows], FALSE)
      PROVE  OpenInv'
  <2> DEFINE d == [v EXCEPT !.claims = IF deployment = "clickhouse" THEN @ ELSE @ \cup v.rows]
             r == Then(p)
  <2>1. Writes(p, d, FALSE) /\ Goes(p, r)
    BY <1>5
  <2>2. /\ DOMAIN d = DbFields /\ d.tables = v.tables /\ d.columns = v.columns /\ d.keys = v.keys /\ d.rows = v.rows
        /\ d.marker = v.marker /\ d.claims = IF deployment = "clickhouse" THEN v.claims ELSE v.claims \cup v.rows
    BY <1>2 DEF DbFields
  <2>3. /\ DOMAIN r = ProcFields /\ InTurn(r.todo) /\ StepsOf(r.todo) = S \ {"claims"}
        /\ r.pc = "run" /\ r.job = proc[p].job /\ r.ver = proc[p].ver /\ r.made = proc[p].made /\ r.seen = proc[p].seen /\ r.ready = proc[p].ready
    BY <1>1, ThenFields
  <2>4. \A a, b \in v.rows : a[2] = b[2] => a = b
    BY <1>5 DEF Clash
  <2> HIDE DEF d, r, v, S
  <2>5. Sole(deployment, d)
    BY <1>2, <2>2, <2>4 DEF Distinct, Sole, Owned, DbSound
  <2>6. Grown(deployment, v, d)
    BY <2>2, <2>5 DEF Grown, Sole, Owned, Distinct
  <2>7. Settled(deployment, d) <=> Settled(deployment, v)
    BY <2>2 DEF Settled
  <2>8. DbSound(deployment, d)
    BY <1>2, <2>2, <2>5, <2>7 DEF Distinct, Sole, DbSound, Promised, Owned
  <2>9. OpenOk(deployment, proc[p], d, S)
    BY <1>2, <2>6, <2>8, UpgradeGrows
  <2>10. OpenOk(deployment, r, d, S \ {"claims"})
    BY <2>3, <2>5, <2>9 DEF OpenOk, Fits
  <2> QED BY <1>1, <1>2, <2>1, <2>2, <2>3, <2>6, <2>8, <2>10, UpgradeStep DEF v
<1> QED BY <1>3, <1>4, <1>5 DEF ClaimRows

LEMMA WithTablesFields ==
  ASSUME NEW d, DOMAIN d = DbFields, NEW v
  PROVE  LET e == WithTables(d, v)
         IN  /\ DOMAIN e = DbFields /\ e.tables = d.tables \cup DOMAIN Schema[v]
             /\ e.columns = d.columns \cup Columns(v, DOMAIN Schema[v] \ d.tables)
             /\ e.keys = d.keys /\ e.rows = d.rows /\ e.marker = d.marker /\ e.claims = d.claims
BY DEF WithTables, DbFields

\* The tables of a version a store can be upgraded to, or has.
LEMMA TablesAdded ==
  ASSUME NEW k, NEW d, DOMAIN d = DbFields, NEW v \in DOMAIN Schema, DbSound(k, d), Settled(k, d), k # "clickhouse",
         Tabled(k) /\ "records" \notin d.tables => IsAdditive(d.keys["schemas"], v)
  PROVE  DbSound(k, WithTables(d, v)) /\ Grown(k, d, WithTables(d, v)) /\ Settled(k, WithTables(d, v))
<1> DEFINE e == WithTables(d, v)
<1>1. /\ DOMAIN e = DbFields /\ e.tables = d.tables \cup DOMAIN Schema[v]
      /\ e.columns = d.columns \cup Columns(v, DOMAIN Schema[v] \ d.tables)
      /\ e.keys = d.keys /\ e.rows = d.rows /\ e.marker = d.marker /\ e.claims = d.claims
  BY WithTablesFields
<1> HIDE DEF e
<1>2. "records" \in e.tables /\ "meta" \in d.tables /\ "meta" \in e.tables
  BY <1>1, OpeningAssumption DEF Settled
<1>3. Settled(k, e) /\ Grown(k, d, e)
  BY <1>1 DEF Distinct, Settled, Grown, Owned
<1>4. ASSUME Tabled(k) PROVE Promised(e, e.keys["schemas"])
  <2>1. CASE "records" \in d.tables
    <3>1. Promised(d, d.keys["schemas"])
      BY <1>4, <2>1 DEF DbSound
    <3> QED BY <1>1, <3>1 DEF Promised
  <2>2. CASE "records" \notin d.tables
    <3>1. d.tables \subseteq {"meta", "owners"} /\ DOMAIN Schema[v] \cap {"meta", "owners"} = {}
      BY <1>4, <2>2, OpeningAssumption DEF DbSound
    <3>2. DOMAIN Schema[v] \ d.tables = DOMAIN Schema[v]
      BY <3>1
    <3>3. Promised(e, v)
      BY <1>1, <3>2 DEF Promised
    <3> QED BY <1>1, <1>4, <2>2, <3>3, PromisedBefore
  <2> QED BY <2>1, <2>2
<1>5. DbSound(k, e)
  BY <1>1, <1>2, <1>3, <1>4 DEF Distinct, Sole, DbSound, Owned
<1> QED BY <1>3, <1>5 DEF e

LEMMA AddsTables ==
  ASSUME OpenInv, NEW p \in Procs, AddTables(p)
  PROVE  OpenInv'
<1> DEFINE S == StepsOf(proc[p].todo)
           v == View(p)
           d == WithTables(View(p), proc[p].ver)
           r == [Then(p) EXCEPT !.seen = Columns(proc[p].ver, DOMAIN Schema[proc[p].ver]) \cap WithTables(View(p), proc[p].ver).columns]
<1>1. At(p, "tables") /\ Writes(p, d, TRUE) /\ Goes(p, r)
  BY DEF AddTables
<1>2. /\ "tables" \in S /\ proc[p].job = "open" /\ proc[p].made = {} /\ proc[p].ver \in DOMAIN Schema
      /\ OpenOk(deployment, proc[p], v, S) /\ Settled(deployment, v)
      /\ deployment # "clickhouse" /\ Tabled(deployment)
      /\ DOMAIN v = DbFields /\ DbSound(deployment, v)
  BY <1>1, UpgradeFacts
<1>3. /\ DOMAIN r = ProcFields /\ InTurn(r.todo) /\ StepsOf(r.todo) = S \ {"tables"}
      /\ r.pc = "run" /\ r.job = proc[p].job /\ r.ver = proc[p].ver /\ r.made = proc[p].made /\ r.ready = proc[p].ready
      /\ r.seen \subseteq d.columns
  BY <1>1, ThenFields DEF ProcFields
<1>4. DOMAIN d = DbFields /\ DOMAIN Schema[proc[p].ver] \subseteq d.tables
  <2> DEFINE n == proc[p].ver
  <2>1. d = WithTables(v, n)
    OBVIOUS
  <2> HIDE DEF v, d, n
  <2>2. DOMAIN WithTables(v, n) = DbFields /\ WithTables(v, n).tables = v.tables \cup DOMAIN Schema[n]
    BY <1>2, WithTablesFields
  <2> QED BY <2>1, <2>2 DEF n
<1> HIDE DEF S, v, r
<1>5. "restamp" \in S
  BY <1>2 DEF OpenOk
<1>6. Tabled(deployment) /\ "records" \notin v.tables => IsAdditive(v.keys["schemas"], proc[p].ver)
  BY <1>2, <1>5 DEF OpenOk
<1>7. DbSound(deployment, d) /\ Grown(deployment, v, d)
  BY <1>2, <1>6, TablesAdded DEF v
<1> HIDE DEF d
<1>8. OpenOk(deployment, proc[p], d, S)
  BY <1>2, <1>7, UpgradeGrows
<1>9. OpenOk(deployment, r, d, S \ {"tables"})
  BY <1>3, <1>4, <1>5, <1>8 DEF OpenOk
<1> QED BY <1>1, <1>2, <1>3, <1>4, <1>7, <1>9, UpgradeStep DEF v

LEMMA AddsColumn ==
  ASSUME OpenInv, NEW p \in Procs, AddColumn(p)
  PROVE  OpenInv'
<1> DEFINE S == StepsOf(proc[p].todo)
           v == View(p)
           new == Columns(proc[p].ver, DOMAIN Schema[proc[p].ver]) \ proc[p].seen
           d == [v EXCEPT !.columns = @ \cup new]
           r == Then(p)
<1>1. At(p, "column")
  BY DEF AddColumn
<1>2. /\ "column" \in S /\ \A s \in S : s = "column" \/ Rank["column"] < Rank[s]
      /\ proc[p].job = "open" /\ proc[p].pc = "run" /\ proc[p].made = {} /\ proc[p].ver \in DOMAIN Schema
      /\ OpenOk(deployment, proc[p], v, S) /\ Settled(deployment, v)
      /\ deployment # "clickhouse" /\ Tabled(deployment)
      /\ DOMAIN v = DbFields /\ DbSound(deployment, v)
  BY <1>1, UpgradeFacts
<1>3. CASE Refused(p)
  <2>1. Raises(p, db, FALSE)
    BY <1>3 DEF Refused
  <2> QED BY <1>2, <2>1, RefusedStep
<1>4. CASE Writes(p, d, TRUE) /\ Goes(p, r)
  <2>1. /\ DOMAIN r = ProcFields /\ InTurn(r.todo) /\ StepsOf(r.todo) = S \ {"column"}
        /\ r.pc = "run" /\ r.job = proc[p].job /\ r.ver = proc[p].ver /\ r.made = proc[p].made /\ r.ready = proc[p].ready /\ r.seen = proc[p].seen
    BY <1>1, ThenFields
  <2>2. /\ DOMAIN d = DbFields /\ d.tables = v.tables /\ d.columns = v.columns \cup new /\ d.keys = v.keys /\ d.rows = v.rows /\ d.marker = v.marker /\ d.claims = v.claims
    BY <1>2 DEF DbFields
  <2>w. Writes(p, d, TRUE) /\ Goes(p, r)
    BY <1>4
  <2> HIDE DEF S, v, r, d
  <2>3. "restamp" \in S /\ "tables" \notin S
    BY <1>2 DEF OpenOk, Rank
  <2>4. DOMAIN Schema[proc[p].ver] \subseteq v.tables /\ proc[p].seen \subseteq v.columns
    BY <1>2, <2>3 DEF OpenOk
  <2>5. Promised(d, proc[p].ver)
    BY <2>2, <2>4 DEF Promised
  <2>6. Grown(deployment, v, d) /\ (Settled(deployment, d) <=> Settled(deployment, v))
    BY <2>2 DEF Distinct, Grown, Owned, Settled
  <2>7. DbSound(deployment, d)
    BY <1>2, <2>2, <2>6 DEF Distinct, Sole, DbSound, Owned, Promised
  <2>8. OpenOk(deployment, proc[p], d, S)
    BY <1>2, <2>6, <2>7, UpgradeGrows
  <2>9. OpenOk(deployment, r, d, S \ {"column"})
    BY <2>1, <2>3, <2>5, <2>8 DEF OpenOk
  <2> QED BY <1>1, <1>2, <2>1, <2>2, <2>w, <2>6, <2>7, <2>9, UpgradeStep DEF v
<1> QED BY <1>3, <1>4 DEF AddColumn

LEMMA Restamps ==
  ASSUME OpenInv, NEW p \in Procs, Restamp(p)
  PROVE  OpenInv'
<1> DEFINE S == StepsOf(proc[p].todo)
           v == View(p)
           d == Stamped(v, "schemas", proc[p].ver)
           r == Then(p)
<1>1. At(p, "restamp") /\ Writes(p, d, FALSE) /\ Goes(p, r)
  BY DEF Restamp
<1>2. /\ "restamp" \in S /\ \A s \in S : s = "restamp" \/ Rank["restamp"] < Rank[s]
      /\ proc[p].job = "open" /\ proc[p].pc = "run" /\ proc[p].made = {} /\ proc[p].ver \in DOMAIN Schema
      /\ OpenOk(deployment, proc[p], v, S) /\ Settled(deployment, v)
      /\ deployment # "clickhouse" /\ "meta" \in v.tables /\ "schemas" \in DOMAIN v.keys
      /\ DOMAIN v = DbFields /\ DbSound(deployment, v)
  BY <1>1, UpgradeFacts
<1>3. /\ DOMAIN r = ProcFields /\ InTurn(r.todo) /\ StepsOf(r.todo) = S \ {"restamp"}
      /\ r.pc = "run" /\ r.job = proc[p].job /\ r.ver = proc[p].ver /\ r.made = proc[p].made /\ r.ready = proc[p].ready /\ r.seen = proc[p].seen
  BY <1>1, ThenFields
<1>4. /\ DOMAIN d = DbFields /\ d.tables = v.tables /\ d.columns = v.columns /\ d.rows = v.rows /\ d.marker = v.marker /\ d.claims = v.claims
      /\ DOMAIN d.keys = DOMAIN v.keys \cup {"schemas"} /\ d.keys["schemas"] = proc[p].ver
      /\ \A y \in DOMAIN v.keys : y # "schemas" => d.keys[y] = v.keys[y]
  BY <1>2, StampedFields
<1> HIDE DEF S, v, d, r
<1>5. "tables" \notin S /\ "column" \notin S /\ "ownership" \notin S
  BY <1>2 DEF Rank
<1>6. Tabled(deployment) => Promised(v, proc[p].ver)
  BY <1>2, <1>5 DEF OpenOk
<1>7. Tabled(deployment) => Promised(d, proc[p].ver) /\ "records" \in v.tables
  <2>1. "records" \in DOMAIN Schema[proc[p].ver]
    BY <1>2, OpeningAssumption
  <2> QED BY <1>4, <1>6, <2>1 DEF Promised
<1>8. DOMAIN d.keys = DOMAIN v.keys
  BY <1>2, <1>4
<1>9. Grown(deployment, v, d) /\ (Settled(deployment, d) <=> Settled(deployment, v))
  BY <1>4, <1>6, <1>7, <1>8 DEF Distinct, Grown, Owned, Settled
<1>10. DbSound(deployment, d)
  BY <1>2, <1>4, <1>7, <1>8, <1>9 DEF Distinct, Sole, DbSound, Owned
<1>11. OpenOk(deployment, r, d, S \ {"restamp"})
  <2>1. Fits(deployment, r, d)
    BY <1>3, <1>4, <1>7 DEF Fits
  <2>2. S \subseteq Upgrades(deployment)
    BY <1>2 DEF OpenOk
  <2> QED BY <1>5, <2>1, <2>2 DEF OpenOk
<1> QED BY <1>1, <1>2, <1>3, <1>4, <1>9, <1>10, <1>11, UpgradeStep DEF v

-----------------------------------------------------------------------------
(* The ends of openings.                                                   *)

LEMMA Opens ==
  ASSUME OpenInv, NEW p \in Procs, Opened(p)
  PROVE  OpenInv'
<1> DEFINE r == [proc[p] EXCEPT !.pc = "open", !.job = "open", !.upgrade = FALSE, !.made = {}, !.seen = {}, !.marked = FALSE]
<1>1. proc[p].pc = "run" /\ proc[p].todo = <<>> /\ Ended(p) /\ deployment' = deployment /\ proc' = [proc EXCEPT ![p] = r]
      /\ db' = View(p)
  BY DEF Opened, Goes, View
<1>v. /\ DOMAIN View(p) = DbFields /\ DbSound(deployment, View(p)) /\ Grown(deployment, db, View(p)) /\ (lock # p => View(p) = db)
      /\ ProcOk(deployment, proc[p], View(p)) /\ MakerOk(deployment, proc[p], View(p)) /\ TxOk /\ DOMAIN proc[p] = ProcFields /\ Shapes
      /\ None \notin Procs /\ DOMAIN db = DbFields /\ DbSound(deployment, db)
  BY ViewFacts DEF SoundFor, Shapes
<1>2. DOMAIN r = ProcFields /\ r.pc = "open" /\ r.job = "open" /\ r.made = {} /\ r.ver = proc[p].ver /\ r.ready = proc[p].ready
  BY <1>v DEF ProcFields
<1> HIDE DEF r
<1>3. StepsOf(proc[p].todo) = {}
  BY <1>1 DEF StepsOf
<1>4. /\ proc[p].job = "first" => FirstOk(deployment, proc[p], View(p), {})
      /\ proc[p].job = "open" => InUse(deployment, proc[p], View(p)) /\ OpenOk(deployment, proc[p], View(p), {})
      /\ proc[p].job = "ingest" => InUse(deployment, proc[p], View(p)) /\ IngestOk(deployment, proc[p], View(p), {})
      /\ proc[p].job \in {"first", "open", "ingest"} /\ proc[p].ver \in DOMAIN Schema
  BY <1>1, <1>3, <1>v DEF ProcOk
<1>5. Settled(deployment, View(p)) /\ Fits(deployment, proc[p], View(p)) /\ (proc[p].ready => "ownership" \in DOMAIN View(p).keys)
  <2>1. CASE proc[p].job = "open"
    BY <1>4, <2>1 DEF InUse, OpenOk
  <2>2. CASE proc[p].job = "ingest"
    BY <1>4, <2>2 DEF InUse, IngestOk
  <2>3. CASE proc[p].job = "first" /\ deployment = "mongo"
    BY <1>4, <2>3 DEF FirstOk, LayoutOk
  <2>4. CASE proc[p].job = "first" /\ deployment # "mongo"
    <3>1. Begun(deployment, proc[p], View(p), {})
      BY <1>4, <2>4 DEF FirstOk
    <3>2. "meta" \in View(p).tables
      BY <1>v, <3>1 DEF Begun, MakerOk
    <3>3. /\ HasProfile(deployment) => Required \cup {"profile"} \subseteq DOMAIN View(p).keys
          /\ ~HasProfile(deployment) => Required \subseteq DOMAIN View(p).keys
          /\ Fits(deployment, proc[p], View(p)) /\ (proc[p].ready => "ownership" \in DOMAIN View(p).keys)
      BY <3>1 DEF Begun
    <3> QED BY <3>2, <3>3 DEF Settled
  <2> QED BY <1>4, <2>1, <2>2, <2>3, <2>4
<1>6. InUse(deployment, r, View(p)) /\ Fits(deployment, r, View(p))
  BY <1>2, <1>5 DEF InUse, Fits
<1>7. Becomes(p, r, View(p))
  BY <1>2, <1>4, <1>6 DEF Becomes, MakerOk, ProcOk
<1>8. CASE lock # p
  <2>1. View(p) = db /\ db' = db /\ lock' = lock /\ tx' = tx /\ Untouched(deployment, db, db)
    BY <1>1, <1>8, <1>v DEF Ended, Untouched
  <2> QED BY <1>1, <1>2, <1>7, <1>8, <1>v, <2>1, QuietStep
<1>9. CASE lock = p
  <2>1. lock' = None /\ tx' = Nothing
    BY <1>1, <1>9 DEF Ended
  <2>p. proc'[p] = r /\ \A q \in Procs : q # p => proc'[q] = proc[q]
    BY <1>1, <1>v DEF Shapes
  <2>2. Shapes'
    BY <1>1, <1>2, <1>v, <2>1 DEF Shapes, Nothing, DbFields
  <2>3. TxOk'
    BY <2>1 DEF TxOk
  <2>4. ASSUME NEW q \in Procs, q # p PROVE proc[q].made = {} /\ ProcOk(deployment, proc[q], View(p))
    <3>1. View(q) = db /\ ProcOk(deployment, proc[q], View(q)) /\ MakingOk(q)
      BY <1>9, <2>4 DEF OpenInv, View
    <3>2. ProcOk(deployment, proc[q], View(p))
      BY <1>v, <3>1, ProcGrows
    <3>3. proc[q].made = {}
      <4> SUFFICES ASSUME proc[q].made # {} PROVE FALSE
        OBVIOUS
      <4>1. Transactional(deployment) /\ (proc[p].made = {} => Settled(deployment, db))
        BY <1>9, <1>v DEF TxOk
      <4>2. ~HasProfile(deployment)
        BY <4>1 DEF Transactional, HasProfile
      <4>3. DOMAIN db.keys = {} /\ proc[p].made = {}
        BY <1>9, <2>4, <3>1, <4>2 DEF MakingOk
      <4> QED BY <4>1, <4>3 DEF Settled, Required
    <3> QED BY <3>2, <3>3
  <2>5. ASSUME NEW q \in Procs
        PROVE  ProcOk(deployment, proc[q], View(q))' /\ MakerOk(deployment, proc[q], View(q))' /\ MakingOk(q)'
    <3>1. View(q)' = View(p) /\ proc'[q].made = {}
      BY <1>1, <1>2, <1>v, <2>1, <2>4, <2>p DEF View
    <3>2. ProcOk(deployment, proc'[q], View(p))
      BY <1>7, <2>4, <2>p DEF Becomes
    <3> QED BY <1>1, <3>1, <3>2 DEF MakerOk, MakingOk
  <2>6. DbSound(deployment', db')
    BY <1>1, <1>v
  <2> QED BY <2>2, <2>3, <2>5, <2>6 DEF OpenInv
<1> QED BY <1>8, <1>9

LEMMA IsBusy ==
  ASSUME OpenInv, NEW p \in Procs, Busy(p)
  PROVE  OpenInv'
<1>1. Raises(p, db, FALSE) /\ proc[p].pc = "run" /\ proc[p].todo # <<>> /\ lock \notin {None, p}
  BY DEF Busy, Refused
<1>2. Transactional(deployment) /\ MakingOk(p)
  BY <1>1, ViewFacts DEF SoundFor
<1>3. Head(proc[p].todo) # "unfence"
  <2> SUFFICES ASSUME Head(proc[p].todo) = "unfence" PROVE FALSE
    OBVIOUS
  <2>1. At(p, "unfence")
    BY <1>1 DEF At
  <2>2. "unfence" \in Marks(deployment)
    BY <2>1, FirstStep DEF Coming, Begun
  <2> QED BY <1>2, <2>2 DEF Marks, Transactional, HasProfile
<1>4. proc[p].made # {} => deployment # "postgresql"
  BY <1>1, <1>2 DEF MakingOk
<1> QED BY <1>1, <1>3, <1>4, RefusedStep

LEMMA DropsMade ==
  ASSUME OpenInv, NEW p \in Procs, DropMade(p)
  PROVE  OpenInv'
<1> DEFINE t == IF "owners" \in proc[p].made THEN "owners" ELSE "meta"
           s == [proc[p] EXCEPT !.made = @ \ {t}]
           r == IF s.made = {} THEN Gone(s) ELSE s
           d == Dropped(db, t)
<1>1. /\ proc[p].pc = "clean" /\ lock = None /\ db' = d /\ proc' = [proc EXCEPT ![p] = r]
      /\ deployment' = deployment /\ tx' = tx /\ lock' = lock
  BY DEF DropMade, Goes
<1>v. /\ View(p) = db /\ DOMAIN db = DbFields /\ DbSound(deployment, db) /\ Shapes
      /\ ProcOk(deployment, proc[p], db) /\ MakerOk(deployment, proc[p], db) /\ MakingOk(p) /\ DOMAIN proc[p] = ProcFields
      /\ None \notin Procs
  BY <1>1, ViewFacts DEF SoundFor, Shapes
<1>2. proc[p].job = "first" /\ "meta" \in proc[p].made /\ deployment # "mongo" /\ proc[p].made \subseteq {"meta", "owners"} /\ proc[p].ver \in DOMAIN Schema
  BY <1>1, <1>v DEF ProcOk
<1>3. /\ "meta" \in db.tables /\ ("owners" \notin proc[p].made => "owners" \notin db.tables)
      /\ HasProfile(deployment) => "profile" \notin DOMAIN db.keys
      /\ ~HasProfile(deployment) => DOMAIN db.keys = {}
      /\ deployment # "postgresql" /\ \A q \in Procs : proc[q].made # {} => q = p
  BY <1>1, <1>2, <1>v DEF MakerOk, MakingOk
<1>4. ~Settled(deployment, db)
  BY <1>3 DEF Settled, Required
<1>5. /\ DOMAIN d = DbFields /\ d.tables = db.tables \ {t} /\ d.columns = db.columns /\ d.rows = db.rows
      /\ d.claims = (IF t = "owners" THEN {} ELSE db.claims) /\ d.keys = (IF t = "meta" THEN <<>> ELSE db.keys)
      /\ d.marker \in {db.marker, None}
  BY <1>v DEF Dropped, DbFields
<1>6. /\ t = "owners" => DOMAIN r = ProcFields /\ r.made = {"meta"} /\ r.pc = "clean" /\ r.job = "first" /\ r.ver = proc[p].ver
      /\ t = "meta" => DOMAIN r = ProcFields /\ r.made = {} /\ r.pc = "out" /\ r.job = "open" /\ r.ver = 1
      /\ t \in {"owners", "meta"} /\ (t = "meta" => "owners" \notin proc[p].made)
  <2>1. CASE "owners" \in proc[p].made
    <3>1. t = "owners" /\ s.made = {"meta"} /\ r = s
      BY <1>2, <1>v, <2>1 DEF ProcFields
    <3> QED BY <1>1, <1>2, <1>v, <3>1 DEF ProcFields
  <2>2. CASE "owners" \notin proc[p].made
    <3>1. t = "meta" /\ s.made = {} /\ r = Gone(s)
      BY <1>2, <1>v, <2>2 DEF ProcFields
    <3> QED BY <2>2, <3>1 DEF Gone, Away, ProcFields
  <2> QED BY <2>1, <2>2
<1> HIDE DEF t, s, r, d
<1>8. ~Settled(deployment, d)
  <2>1. t = "meta" => "meta" \notin d.tables
    BY <1>5
  <2>2. t = "owners" => d.keys = db.keys
    BY <1>5
  <2> QED BY <1>3, <1>6, <2>1, <2>2 DEF Settled, Required
<1>9. DbSound(deployment, d)
  <2>1. db.rows = {} /\ db.claims = {} /\ db.marker = None /\ (Tabled(deployment) => "records" \notin db.tables)
    BY <1>4, <1>v DEF DbSound
  <2>2. CASE t = "meta"
    <3>1. DOMAIN d.keys = {} /\ "owners" \notin d.tables
      BY <1>3, <1>5, <1>6, <2>2
    <3> QED BY <1>5, <1>8, <1>v, <2>1, <2>2, <3>1 DEF Owned, Distinct, Sole, DbSound
  <2>3. CASE t = "owners"
    <3>1. d.keys = db.keys /\ "meta" \in d.tables /\ d.claims = {}
      BY <1>3, <1>5, <2>3
    <3> QED BY <1>5, <1>8, <1>v, <2>1, <2>3, <3>1 DEF Owned, Distinct, Sole, DbSound
  <2> QED BY <1>6, <2>2, <2>3
<1>10. DOMAIN r = ProcFields /\ ProcOk(deployment, r, d) /\ MakerOk(deployment, r, d)
  <2>1. CASE t = "meta"
    BY <1>6, <2>1, OpeningAssumption DEF ProcOk, MakerOk
  <2>2. CASE t = "owners"
    <3>1. d.keys = db.keys /\ "meta" \in d.tables /\ "owners" \notin d.tables
      BY <1>3, <1>5, <2>2
    <3> QED BY <1>2, <1>3, <1>6, <2>2, <3>1 DEF ProcOk, MakerOk
  <2> QED BY <1>6, <2>1, <2>2
<1>p. proc'[p] = r /\ \A q \in Procs : q # p => proc'[q] = proc[q]
  BY <1>1, <1>v DEF Shapes
<1>11. ASSUME NEW q \in Procs
       PROVE  ProcOk(deployment, proc[q], View(q))' /\ MakerOk(deployment, proc[q], View(q))' /\ MakingOk(q)'
  <2>1. View(q)' = d /\ View(q) = db
    BY <1>1, <1>v DEF View
  <2>2. CASE q = p
    <3>1. MakingOk(q)'
      <4> SUFFICES ASSUME r.made # {}
                   PROVE  /\ deployment = "postgresql" => r.pc = "run" /\ lock' = p
                          /\ ~HasProfile(deployment) /\ lock' # p => DOMAIN d.keys = {}
                          /\ \A o \in Procs : proc'[o].made # {} => o = p
        BY <1>1, <1>p, <2>2 DEF MakingOk
      <4>1. d.keys = db.keys
        BY <1>5, <1>6
      <4> QED BY <1>3, <1>p, <4>1
    <3> QED BY <1>1, <1>10, <1>p, <2>1, <2>2, <3>1
  <2>3. CASE q # p
    <3>1. proc[q].made = {} /\ proc'[q] = proc[q] /\ ProcOk(deployment, proc[q], db)
      BY <1>3, <1>p, <2>1, <2>3 DEF OpenInv
    <3>2. ProcOk(deployment, proc[q], d)
      BY <1>4, <3>1, ProcIdle
    <3> QED BY <1>1, <2>1, <3>1, <3>2 DEF MakerOk, MakingOk
  <2> QED BY <2>2, <2>3
<1>12. Shapes'
  BY <1>1, <1>5, <1>10, <1>v DEF Shapes
<1>13. TxOk'
  BY <1>1 DEF TxOk
<1> QED BY <1>1, <1>9, <1>11, <1>12, <1>13 DEF OpenInv

-----------------------------------------------------------------------------
(* Fences, and what fails.                                                 *)

LEMMA FenceStep ==
  ASSUME OpenInv, NEW p \in Procs, NEW h, At(p, h), h = "fence" \/ h = "recheck"
  PROVE  LET S == StepsOf(proc[p].todo)
         IN  /\ deployment = "clickhouse" /\ lock = None /\ View(p) = db /\ DOMAIN db = DbFields /\ Durable(FALSE) /\ proc[p].pc = "run"
             /\ Coming(deployment, proc[p], S) /\ "meta" \in S \ {h} /\ proc[p].job = "first" /\ proc[p].ver \in DOMAIN Schema /\ proc[p].made = {}
<1> DEFINE S == StepsOf(proc[p].todo)
<1>1. /\ proc[p].job = "first" /\ deployment # "mongo" /\ h \in S /\ proc[p].ver \in DOMAIN Schema
      /\ IF "meta" \in S THEN Coming(deployment, proc[p], S) ELSE Begun(deployment, proc[p], View(p), S)
  BY FirstStep
<1> HIDE DEF S
<1>2. h \notin Marks(deployment) /\ h # "meta"
  BY DEF Marks
<1>3. "meta" \in S /\ Coming(deployment, proc[p], S)
  BY <1>1, <1>2 DEF Begun
<1>4. deployment = "clickhouse"
  BY <1>1, <1>2, <1>3 DEF Coming
<1>5. lock = None /\ View(p) = db /\ DOMAIN db = DbFields
  BY <1>4, ViewFacts DEF Transactional, SoundFor, Shapes
<1> QED BY <1>1, <1>2, <1>3, <1>4, <1>5 DEF S, Coming, Durable, At

LEMMA FencedStep ==
  ASSUME OpenInv, NEW p \in Procs, NEW h, At(p, h), h = "fence" \/ h = "recheck", NEW d, lock' = lock, tx' = tx, deployment' = deployment,
         db' = d, Goes(p, Then(p)), DOMAIN d = DbFields, Untouched(deployment, db, d)
  PROVE  OpenInv'
<1> DEFINE S == StepsOf(proc[p].todo)
           r == Then(p)
<1>1. /\ deployment = "clickhouse" /\ lock = None /\ View(p) = db
      /\ Coming(deployment, proc[p], S) /\ "meta" \in S \ {h} /\ proc[p].job = "first" /\ proc[p].ver \in DOMAIN Schema /\ proc[p].made = {}
  BY FenceStep
<1>2. /\ DOMAIN r = ProcFields /\ InTurn(r.todo) /\ StepsOf(r.todo) = S \ {h}
      /\ r.pc = "run" /\ r.job = proc[p].job /\ r.ver = proc[p].ver /\ r.made = proc[p].made /\ r.ready = proc[p].ready
  BY ThenFields
<1>3. proc' = [proc EXCEPT ![p] = r]
  BY DEF Goes
<1> HIDE DEF S, r
<1>4. h \notin Marks(deployment)
  BY DEF Marks
<1>5. Coming(deployment, r, S \ {h})
  BY <1>1, <1>2, <1>4 DEF Coming
<1>6. Becomes(p, r, View(p))
  BY <1>1, <1>2, <1>5 DEF Becomes, ProcOk, MakerOk, FirstOk
<1>7. lock # p
  BY <1>1, OpeningAssumption
<1> QED BY <1>1, <1>2, <1>3, <1>6, <1>7, QuietStep

LEMMA TakesFence ==
  ASSUME OpenInv, NEW p \in Procs, TakeFence(p)
  PROVE  OpenInv'
<1>1. At(p, "fence")
  BY DEF TakeFence
<1>2. lock = None /\ DOMAIN db = DbFields /\ Durable(FALSE) /\ proc[p].pc = "run" /\ proc[p].made = {} /\ None \notin Procs
  BY <1>1, FenceStep, OpeningAssumption
<1> DEFINE d == [db EXCEPT !.fence = p]
<1>3. CASE Refused(p)
  <2>1. Raises(p, db, FALSE)
    BY <1>3 DEF Refused
  <2> QED BY <1>2, <2>1, RefusedStep
<1>4. CASE Writes(p, d, FALSE) /\ Goes(p, Then(p))
  <2>1. lock' = lock /\ tx' = tx /\ deployment' = deployment /\ db' = d
    BY <1>2, <1>4 DEF Writes
  <2>2. DOMAIN d = DbFields /\ Untouched(deployment, db, d)
    BY <1>2 DEF DbFields, Untouched
  <2>3. Goes(p, Then(p))
    BY <1>4
  <2> HIDE DEF d
  <2> QED BY <1>1, <2>1, <2>2, <2>3, FencedStep
<1> QED BY <1>3, <1>4 DEF TakeFence

LEMMA Rechecks ==
  ASSUME OpenInv, NEW p \in Procs, Recheck(p)
  PROVE  OpenInv'
<1> DEFINE r == [proc[p] EXCEPT !.pc = "read", !.todo = <<>>]
<1>1. At(p, "recheck") /\ db' = db /\ lock' = lock /\ tx' = tx /\ deployment' = deployment
  BY DEF Recheck
<1>2. /\ lock = None /\ View(p) = db /\ DOMAIN db = DbFields
      /\ proc[p].job = "first" /\ proc[p].ver \in DOMAIN Schema /\ proc[p].made = {} /\ None \notin Procs /\ DOMAIN proc[p] = ProcFields
  BY <1>1, FenceStep, ThenFields, OpeningAssumption
<1>3. Untouched(deployment, db, db)
  BY DEF Untouched
<1>4. CASE Goes(p, Then(p))
  BY <1>1, <1>2, <1>3, <1>4, FencedStep
<1>5. CASE Goes(p, r)
  <2>1. DOMAIN r = ProcFields /\ r.pc = "read" /\ r.job = "first" /\ r.ver = proc[p].ver /\ r.made = {}
    BY <1>2 DEF ProcFields
  <2>2. proc' = [proc EXCEPT ![p] = r]
    BY <1>5 DEF Goes
  <2> HIDE DEF r
  <2>3. Becomes(p, r, View(p))
    BY <1>2, <2>1 DEF Becomes, ProcOk, MakerOk
  <2>4. lock # p
    BY <1>2
  <2> QED BY <1>1, <1>2, <1>3, <2>1, <2>2, <2>3, <2>4, QuietStep
<1> QED BY <1>4, <1>5 DEF Recheck

\* The end of a first opening of ClickHouse.
LEMMA UnfenceStep ==
  ASSUME OpenInv, NEW p \in Procs, At(p, "unfence")
  PROVE  LET S == StepsOf(proc[p].todo)
         IN  /\ deployment = "clickhouse" /\ lock = None /\ View(p) = db /\ DOMAIN db = DbFields /\ Durable(FALSE)
             /\ Begun(deployment, proc[p], db, {"unfence"}) /\ S = {"unfence"} /\ proc[p].job = "first" /\ proc[p].ver \in DOMAIN Schema
             /\ proc[p].made \subseteq {"meta", "owners"}
<1> DEFINE S == StepsOf(proc[p].todo)
<1>1. /\ proc[p].job = "first" /\ deployment # "mongo" /\ "unfence" \in S /\ proc[p].ver \in DOMAIN Schema
      /\ IF "meta" \in S THEN Coming(deployment, proc[p], S) ELSE Begun(deployment, proc[p], View(p), S)
      /\ \A s \in S : s = "unfence" \/ Rank["unfence"] < Rank[s]
      /\ proc[p].made \subseteq {"meta", "owners"}
  BY FirstStep
<1> HIDE DEF S
<1>2. "meta" \notin S
  BY <1>1 DEF Rank
<1>3. Begun(deployment, proc[p], View(p), S)
  BY <1>1, <1>2
<1>4. deployment = "clickhouse"
  BY <1>1, <1>3 DEF Begun, Marks, HasProfile
<1>5. S = {"unfence"}
  <2>1. S \subseteq {"protocol", "schemas", "timestamps", "ownership", "profile", "unfence"}
    BY <1>3, <1>4 DEF Begun, Marks, HasProfile
  <2>2. \A s \in {"protocol", "schemas", "timestamps", "ownership", "profile"} : ~(Rank["unfence"] < Rank[s]) /\ s # "unfence"
    BY DEF Rank
  <2> QED BY <1>1, <2>1, <2>2
<1>6. lock = None /\ View(p) = db /\ DOMAIN db = DbFields
  BY <1>4, ViewFacts DEF Transactional, SoundFor, Shapes
<1> QED BY <1>1, <1>3, <1>4, <1>5, <1>6 DEF S, Durable

LEMMA ReleasesFence ==
  ASSUME OpenInv, NEW p \in Procs, ReleaseFence(p)
  PROVE  OpenInv'
<1> DEFINE d == [db EXCEPT !.fence = None]
           r == Then(p)
<1>1. At(p, "unfence") /\ Writes(p, d, FALSE) /\ Goes(p, r)
  BY DEF ReleaseFence
<1>2. /\ deployment = "clickhouse" /\ lock = None /\ View(p) = db /\ DOMAIN db = DbFields /\ Durable(FALSE)
      /\ Begun(deployment, proc[p], db, {"unfence"}) /\ StepsOf(proc[p].todo) = {"unfence"} /\ proc[p].job = "first" /\ proc[p].ver \in DOMAIN Schema
      /\ proc[p].made \subseteq {"meta", "owners"} /\ None \notin Procs
  BY <1>1, UnfenceStep, OpeningAssumption
<1>3. lock' = lock /\ tx' = tx /\ deployment' = deployment /\ db' = d
  BY <1>1, <1>2 DEF Writes
<1>4. DOMAIN d = DbFields /\ Untouched(deployment, db, d)
  BY <1>2 DEF DbFields, Untouched
<1>5. /\ DOMAIN r = ProcFields /\ InTurn(r.todo) /\ StepsOf(r.todo) = StepsOf(proc[p].todo) \ {"unfence"}
      /\ r.pc = "run" /\ r.job = proc[p].job /\ r.ver = proc[p].ver /\ r.made = proc[p].made /\ r.ready = proc[p].ready
  BY <1>1, ThenFields
<1>6. proc' = [proc EXCEPT ![p] = r] /\ MakerOk(deployment, proc[p], db)
  BY <1>1, <1>2, ViewFacts DEF Goes, SoundFor
<1> HIDE DEF d, r
<1>7. StepsOf(r.todo) = {}
  BY <1>2, <1>5
<1>8. Begun(deployment, r, db, {})
  <2>1. "schemas" # "unfence" /\ "unfence" \notin Required \cup {"profile"}
    BY DEF Required
  <2>2. Fits(deployment, r, db)
    BY <1>2, <1>5 DEF Begun, Fits, HasProfile
  <2>3. HasProfile(deployment) /\ Required \cup {"profile"} \subseteq DOMAIN db.keys
    BY <1>2, <2>1 DEF Begun, HasProfile
  <2> QED BY <1>2, <1>5, <2>2, <2>3 DEF Begun
<1>9. MakerOk(deployment, r, db)
  BY <1>5, <1>6, <1>7 DEF MakerOk, HasProfile
<1>10. Becomes(p, r, View(p))
  BY <1>2, <1>5, <1>7, <1>8, <1>9 DEF Becomes, ProcOk, FirstOk
<1>11. lock # p /\ deployment # "postgresql"
  BY <1>2
<1> QED BY <1>3, <1>4, <1>5, <1>6, <1>10, <1>11, QuietStep

LEMMA Faults ==
  ASSUME OpenInv, FaultsLeaveNothing, NEW p \in Procs, Fault(p)
  PROVE  OpenInv'
<1> DEFINE h == Head(proc[p].todo)
           S == StepsOf(proc[p].todo)
<1>1. Raises(p, db, FALSE) /\ proc[p].pc = "run" /\ proc[p].todo # <<>> /\ h \in FaultsAt[deployment]
  BY DEF Fault, Fails
<1>2. At(p, h)
  BY <1>1 DEF At
<1>3. h # "unfence"
  <2> SUFFICES ASSUME h = "unfence" PROVE FALSE
    OBVIOUS
  <2>1. deployment = "clickhouse"
    BY <1>2, UnfenceStep
  <2> QED BY <1>1, <2>1 DEF FaultsLeaveNothing
<1>4. proc[p].made # {} => deployment # "postgresql"
  <2> SUFFICES ASSUME proc[p].made # {}, deployment = "postgresql" PROVE FALSE
    OBVIOUS
  <2>1. /\ h \in S
        /\ proc[p].job = "first" => FirstOk(deployment, proc[p], View(p), S)
        /\ proc[p].job = "open" => InUse(deployment, proc[p], View(p))
        /\ proc[p].job = "ingest" => InUse(deployment, proc[p], View(p))
        /\ proc[p].job \in {"first", "open", "ingest"}
    BY <1>2, Taken
  <2> HIDE DEF h, S
  <2>2. FirstOk(deployment, proc[p], View(p), S)
    BY <2>1 DEF InUse
  <2>3. S \subseteq {"owners", "stamp"}
    BY <2>2 DEF FirstOk, Coming, Begun, Marks, HasProfile
  <2> QED BY <1>1, <2>1, <2>3 DEF FaultsLeaveNothing
<1> QED BY <1>1, <1>3, <1>4, RefusedStep

\* A key that has landed although its insert has failed.
LEMMA KeyLands ==
  ASSUME OpenInv, NEW p \in Procs, deployment = "clickhouse", NEW x \in Required, At(p, x), x \notin DOMAIN db.keys,
         Raises(p, Stamped(db, x, Value(x, proc[p].ver)), FALSE)
  PROVE  OpenInv'
<1> DEFINE d == Stamped(db, x, Value(x, proc[p].ver))
<1>1. HasProfile(deployment) /\ View(p) = db /\ x \in Required \cup {"profile"} /\ lock = None
  BY ViewFacts DEF HasProfile, Transactional
<1>a. CASE proc[p].job = "open"
  <2>1. /\ OpenOk(deployment, proc[p], View(p), StepsOf(proc[p].todo)) /\ x \in StepsOf(proc[p].todo)
        /\ proc[p].pc = "run" /\ proc[p].todo # <<>> /\ Head(proc[p].todo) = x
    BY <1>a, Taken
  <2>2. x \in {"lease", "claims", "ownership"}
    BY <2>1 DEF OpenOk, Upgrades
  <2>3. x = "ownership"
    BY <2>2 DEF Required
  <2>4. /\ DOMAIN d = DbFields /\ Settled(deployment, db) /\ proc[p].made = {}
        /\ DbSound(deployment, d) /\ Grown(deployment, db, d)
    BY <1>1, <1>a, <2>3, OwnershipMarked
  <2>5. Raises(p, d, FALSE) /\ Polite(p, db, d)
    BY <2>4 DEF Polite
  <2> HIDE DEF d
  <2> QED BY <1>1, <2>1, <2>4, <2>5, RaiseStep
<1>b. ASSUME proc[p].job # "open" PROVE proc[p].job = "first" /\ proc[p].pc = "run" /\ proc[p].todo # <<>> /\ Head(proc[p].todo) = x
  <2>1. /\ proc[p].job = "ingest" => IngestOk(deployment, proc[p], View(p), StepsOf(proc[p].todo))
        /\ proc[p].job \in {"first", "open", "ingest"} /\ x \in StepsOf(proc[p].todo)
        /\ proc[p].pc = "run" /\ proc[p].todo # <<>> /\ Head(proc[p].todo) = x
    BY Taken
  <2>2. proc[p].job # "ingest"
    BY <2>1 DEF IngestOk, IngestSteps, Required
  <2> QED BY <1>b, <2>1, <2>2
<1> SUFFICES ASSUME proc[p].job # "open" PROVE OpenInv'
  BY <1>a
<1>2. proc[p].job = "first" /\ proc[p].pc = "run" /\ proc[p].todo # <<>> /\ Head(proc[p].todo) = x
  BY <1>b
<1>3. x \notin DOMAIN View(p).keys
  BY <1>1
<1>4. /\ DOMAIN Stamped(View(p), x, Value(x, proc[p].ver)) = DbFields
      /\ Stamped(View(p), x, Value(x, proc[p].ver)).tables = View(p).tables
      /\ DOMAIN Stamped(View(p), x, Value(x, proc[p].ver)).keys = DOMAIN View(p).keys \cup {x}
      /\ DbSound(deployment, Stamped(View(p), x, Value(x, proc[p].ver)))
      /\ Grown(deployment, View(p), Stamped(View(p), x, Value(x, proc[p].ver)))
      /\ MakerOk(deployment, proc[p], View(p)) /\ lock = None /\ "profile" \notin DOMAIN View(p).keys
      /\ \A q \in Procs : proc[q].made # {} => q = p
  BY <1>1, <1>2, <1>3, StampedKey
<1>5. /\ DOMAIN d = DbFields /\ d.tables = db.tables /\ DOMAIN d.keys = DOMAIN db.keys \cup {x}
      /\ DbSound(deployment, d) /\ Grown(deployment, db, d)
  BY <1>1, <1>4
<1>6. Raises(p, d, FALSE)
  OBVIOUS
<1> HIDE DEF d
<1>7. MakerOk(deployment, proc[p], d)
  <2>1. "profile" \notin DOMAIN d.keys
    BY <1>1, <1>4, <1>5 DEF Required
  <2> QED BY <1>1, <1>4, <1>5, <2>1 DEF MakerOk
<1>8. Polite(p, db, d) /\ lock = None
  BY <1>4 DEF Polite
<1>9. Head(proc[p].todo) # "unfence" /\ deployment # "postgresql"
  BY <1>2 DEF Required
<1> QED BY <1>1, <1>2, <1>5, <1>6, <1>7, <1>8, <1>9, RaiseStep

\* Likewise the metadata table: whoever has created it, it is read.
LEMMA MetadataLands ==
  ASSUME OpenInv, NEW p \in Procs, deployment = "clickhouse", At(p, "meta"), db' = [db EXCEPT !.tables = @ \cup {"meta"}],
         Goes(p, [proc[p] EXCEPT !.pc = "read", !.todo = <<>>]), deployment' = deployment, tx' = tx, lock' = lock
  PROVE  OpenInv'
<1> DEFINE S == StepsOf(proc[p].todo)
           d == [db EXCEPT !.tables = @ \cup {"meta"}]
           r == [proc[p] EXCEPT !.pc = "read", !.todo = <<>>]
<1>1. /\ proc[p].job = "first" /\ proc[p].ver \in DOMAIN Schema /\ "meta" \in S
      /\ IF "meta" \in S THEN Coming(deployment, proc[p], S) ELSE Begun(deployment, proc[p], View(p), S)
  BY FirstStep
<1>2. proc[p].made = {}
  BY <1>1 DEF Coming
<1>v. /\ View(p) = db /\ lock = None /\ DOMAIN db = DbFields /\ DbSound(deployment, db) /\ DOMAIN proc[p] = ProcFields /\ None \notin Procs
  BY ViewFacts DEF Transactional, SoundFor, Shapes
<1>3. DOMAIN r = ProcFields /\ r.pc = "read" /\ r.job = "first" /\ r.ver = proc[p].ver /\ r.made = {}
  BY <1>1, <1>2, <1>v DEF ProcFields
<1>4. DOMAIN d = DbFields /\ d.tables = db.tables \cup {"meta"} /\ d.keys = db.keys /\ d.rows = db.rows /\ d.marker = db.marker /\ d.claims = db.claims /\ d.columns = db.columns
  BY <1>v DEF DbFields
<1>5. db' = d /\ proc' = [proc EXCEPT ![p] = r]
  BY DEF Goes
<1> HIDE DEF S, d, r
<1>6. Becomes(p, r, d) /\ Becomes(p, r, View(p))
  BY <1>1, <1>3 DEF Becomes, ProcOk, MakerOk
<1>7. CASE "meta" \in db.tables
  <2>1. Untouched(deployment, db, d)
    BY <1>4, <1>7 DEF Untouched
  <2>2. lock # p
    BY <1>v
  <2> QED BY <1>3, <1>4, <1>5, <1>6, <2>1, <2>2, QuietStep
<1>8. CASE "meta" \notin db.tables
  <2>1. DOMAIN d.keys = {} /\ "owners" \notin d.tables
    BY <1>4, <1>8, <1>v DEF DbSound
  <2>2. ~Settled(deployment, db) /\ ~Settled(deployment, d)
    BY <1>8, <2>1 DEF Settled, Required
  <2>3. DbSound(deployment, d)
    BY <1>4, <1>v, <2>1, <2>2 DEF Owned, Distinct, Sole, DbSound
  <2>4. Grown(deployment, db, d)
    BY <1>4 DEF Distinct, Grown, Owned
  <2>5. ASSUME NEW q \in Procs PROVE proc[q].made = {}
    <3>1. MakerOk(deployment, proc[q], db)
      BY <1>v DEF OpenInv, View
    <3> QED BY <1>8, <3>1 DEF MakerOk
  <2>6. Polite(p, db, d)
    BY <2>5 DEF Polite
  <2>7. lock = None /\ lock' = None
    BY <1>v
  <2> QED BY <1>3, <1>4, <1>5, <1>6, <2>3, <2>4, <2>6, <2>7, DurableStep
<1> QED BY <1>7, <1>8

LEMMA FaultsLand ==
  ASSUME OpenInv, NEW p \in Procs, FaultLanded(p)
  PROVE  OpenInv'
<1>1. deployment = "clickhouse" /\ proc[p].pc = "run" /\ proc[p].todo # <<>>
  BY DEF FaultLanded, Fails
<1>2. DOMAIN db = DbFields /\ DbSound(deployment, db)
  BY ViewFacts DEF SoundFor, Shapes
<1>3. ASSUME NEW h, NEW d, At(p, h), h # "unfence", Raises(p, d, FALSE), DOMAIN d = DbFields, Untouched(deployment, db, d)
      PROVE  OpenInv'
  <2>1. DbSound(deployment, d) /\ Grown(deployment, db, d)
    BY <1>2, <1>3, UntouchedGrows
  <2>2. Head(proc[p].todo) # "unfence" /\ deployment # "postgresql"
    BY <1>1, <1>3 DEF At
  <2>3. ~HasProfile(deployment) => DOMAIN d.keys = DOMAIN db.keys
    BY <1>1 DEF HasProfile
  <2> QED BY <1>1, <1>3, <2>1, <2>2, <2>3, RaiseStep
<1>4. CASE At(p, "lease") /\ Raises(p, [db EXCEPT !.lease = Nobody], FALSE)
  <2> DEFINE d == [db EXCEPT !.lease = Nobody]
  <2>1. DOMAIN d = DbFields /\ Untouched(deployment, db, d)
    BY <1>2 DEF DbFields, Untouched
  <2> QED BY <1>3, <1>4, <2>1
<1>5. CASE At(p, "fence") /\ Raises(p, [db EXCEPT !.fence = Nobody], FALSE)
  <2> DEFINE d == [db EXCEPT !.fence = Nobody]
  <2>1. DOMAIN d = DbFields /\ Untouched(deployment, db, d)
    BY <1>2 DEF DbFields, Untouched
  <2> QED BY <1>3, <1>5, <2>1
<1>6. CASE At(p, "marker") /\ Raises(p, [db EXCEPT !.marker = Nobody], FALSE)
  <2> DEFINE d == [db EXCEPT !.marker = Nobody]
  <2>1. DOMAIN d = DbFields /\ Untouched(deployment, db, d)
    <3>1. Settled(deployment, db)
      BY <1>6, LeaseStep DEF IngestSteps
    <3> QED BY <1>2, <3>1 DEF DbFields, Untouched
  <2> QED BY <1>3, <1>6, <2>1
<1>7. CASE At(p, "clear") /\ Raises(p, [db EXCEPT !.marker = None], FALSE)
  <2> DEFINE d == [db EXCEPT !.marker = None]
  <2>1. DOMAIN d = DbFields /\ Untouched(deployment, db, d)
    BY <1>2 DEF DbFields, Untouched
  <2> QED BY <1>3, <1>7, <2>1
<1>8. CASE \E k \in Required : At(p, k) /\ k \notin DOMAIN db.keys /\ Raises(p, Stamped(db, k, Value(k, proc[p].ver)), FALSE)
  BY <1>1, <1>8, KeyLands
<1>9. CASE /\ At(p, "meta") /\ db' = [db EXCEPT !.tables = @ \cup {"meta"}]
           /\ Goes(p, [proc[p] EXCEPT !.pc = "read", !.todo = <<>>])
           /\ UNCHANGED <<deployment, tx, lock>>
  <2>1. At(p, "meta") /\ db' = [db EXCEPT !.tables = @ \cup {"meta"}]
    BY <1>9
  <2>2. Goes(p, [proc[p] EXCEPT !.pc = "read", !.todo = <<>>])
    BY <1>9
  <2>3. deployment' = deployment /\ tx' = tx /\ lock' = lock
    BY <1>9
  <2>4. OpenInv /\ p \in Procs /\ deployment = "clickhouse"
    BY <1>1
  <2> QED BY ONLY <2>1, <2>2, <2>3, <2>4, MetadataLands, Zenon
<1> QED BY <1>4, <1>5, <1>6, <1>7, <1>8, <1>9 DEF FaultLanded

-----------------------------------------------------------------------------
(* The ingest.                                                             *)

LEMMA IngestProgram == InTurn(Ingest) /\ StepsOf(Ingest) = IngestSteps \ {"reload"}
<1> DEFINE s == <<"lease", "marker", "relations", "load">>
           t == <<"project", "verify", "sweep", "clear">>
<1>1. InTurn(s) /\ StepsOf(s) = {"lease", "marker", "relations", "load"}
  BY DEF InTurn, StepsOf, Rank, Steps
<1>2. InTurn(t) /\ StepsOf(t) = {"project", "verify", "sweep", "clear"}
  BY DEF InTurn, StepsOf, Rank, Steps
<1>3. Ingest = s \o t
  BY DEF Ingest
<1> HIDE DEF s, t
<1>4. \A x \in StepsOf(s) : \A y \in StepsOf(t) : Rank[x] < Rank[y]
  BY <1>1, <1>2 DEF Rank
<1>5. InTurn(s \o t) /\ StepsOf(s \o t) = StepsOf(s) \cup StepsOf(t)
  BY <1>1, <1>2, <1>4, StepsInTurn
<1> QED BY <1>1, <1>2, <1>3, <1>5 DEF IngestSteps

LEMMA BeginsIngest ==
  ASSUME OpenInv, NEW p \in Procs, BeginIngest(p)
  PROVE  OpenInv'
<1> DEFINE r == [proc[p] EXCEPT !.pc = "run", !.job = "ingest", !.todo = Ingest, !.built = {}]
<1>1. /\ deployment = "clickhouse" /\ proc[p].pc = "open" /\ proc[p].ready /\ proc' = [proc EXCEPT ![p] = r]
      /\ deployment' = deployment /\ db' = db /\ tx' = tx /\ lock' = lock
  BY DEF BeginIngest, Goes
<1>2. /\ View(p) = db /\ lock = None /\ DOMAIN db = DbFields /\ DOMAIN proc[p] = ProcFields /\ ProcOk(deployment, proc[p], db) /\ None \notin Procs
      /\ Untouched(deployment, db, db)
  BY <1>1, ViewFacts DEF Transactional, SoundFor, Shapes, Untouched
<1>3. /\ DOMAIN r = ProcFields /\ r.pc = "run" /\ r.job = "ingest" /\ r.todo = Ingest /\ r.made = proc[p].made /\ r.ready = proc[p].ready
      /\ r.ver = proc[p].ver
  BY <1>2 DEF ProcFields
<1> HIDE DEF r
<1>4. InUse(deployment, proc[p], db) /\ Fits(deployment, proc[p], db) /\ proc[p].made = {} /\ proc[p].ver \in DOMAIN Schema
  BY <1>1, <1>2 DEF ProcOk, InUse
<1>5. InTurn(r.todo) /\ StepsOf(r.todo) \subseteq IngestSteps
  BY <1>3, IngestProgram
<1>6. InUse(deployment, r, db) /\ IngestOk(deployment, r, db, StepsOf(r.todo))
  BY <1>1, <1>3, <1>4, <1>5 DEF InUse, Fits, IngestOk
<1>7. Becomes(p, r, View(p))
  BY <1>2, <1>3, <1>4, <1>5, <1>6 DEF Becomes, ProcOk, MakerOk
<1>8. lock # p
  BY <1>2
<1> QED BY <1>1, <1>2, <1>3, <1>4, <1>7, <1>8, QuietStep

\* How a process goes on after a step of an ingest.
Onward(p) == {Then(p), [Then(p) EXCEPT !.marked = TRUE], [Then(p) EXCEPT !.marked = FALSE], [Then(p) EXCEPT !.built = {"records"}], Staged(p)}

LEMMA OnwardFields ==
  ASSUME OpenInv, NEW p \in Procs, NEW h, At(p, h), NEW r \in Onward(p)
  PROVE  /\ DOMAIN r = ProcFields /\ r.pc = "run" /\ r.job = proc[p].job /\ r.ver = proc[p].ver /\ r.ready = proc[p].ready
         /\ r.made = proc[p].made /\ r.seen = proc[p].seen /\ InTurn(r.todo) /\ StepsOf(r.todo) = StepsOf(proc[p].todo) \ {h}
BY ThenFields DEF ProcFields, Onward, Staged

\* A statement of an ingest is durable at once, and of no concern to an opening.
LEMMA IngestWrites ==
  ASSUME OpenInv, NEW p \in Procs, NEW h \in IngestSteps, h # "lease", At(p, h), NEW d, NEW ddl, ddl = TRUE \/ ddl = FALSE,
         Writes(p, d, ddl), NEW r \in Onward(p), Goes(p, r), DOMAIN d = DbFields, Untouched(deployment, db, d)
  PROVE  OpenInv'
<1>1. lock = None /\ Durable(ddl) /\ None \notin Procs
  BY LeaseStep, OpeningAssumption
<1>2. lock' = lock /\ tx' = tx /\ deployment' = deployment /\ db' = d
  BY <1>1 DEF Writes
<1>3. /\ DOMAIN r = ProcFields /\ r.pc = "run" /\ r.job = proc[p].job /\ r.ver = proc[p].ver /\ r.ready = proc[p].ready
      /\ r.made = proc[p].made /\ r.seen = proc[p].seen /\ InTurn(r.todo) /\ StepsOf(r.todo) = StepsOf(proc[p].todo) \ {h}
  BY OnwardFields
<1> QED BY <1>2, <1>3, DoneStep

LEMMA IngestRaises ==
  ASSUME OpenInv, NEW p \in Procs, NEW h \in IngestSteps, h # "lease", At(p, h), NEW d, NEW keep, Raises(p, d, keep),
         DOMAIN d = DbFields, Untouched(deployment, db, d)
  PROVE  OpenInv'
<1>1. proc[p].made = {} /\ proc[p].pc = "run" /\ DbSound(deployment, db)
  BY LeaseStep DEF OpenInv
<1>2. DbSound(deployment, d) /\ Grown(deployment, db, d)
  BY <1>1, UntouchedGrows
<1> QED BY <1>1, <1>2, RaiseStep

LEMMA WritesMarker ==
  ASSUME OpenInv, NEW p \in Procs, WriteMarker(p)
  PROVE  OpenInv'
<1> DEFINE d == [db EXCEPT !.marker = p]
<1>1. At(p, "marker") /\ "marker" \in IngestSteps /\ "marker" # "lease"
  BY DEF WriteMarker, IngestSteps
<1>2. DOMAIN db = DbFields /\ Untouched(deployment, db, db) /\ DOMAIN d = DbFields /\ Untouched(deployment, db, d)
  <2>1. DOMAIN db = DbFields /\ Settled(deployment, db)
    BY <1>1, LeaseStep
  <2> QED BY <2>1 DEF DbFields, Untouched
<1> DEFINE r == [Then(p) EXCEPT !.marked = TRUE]
<1>3. Raises(p, db, FALSE) \/ (Writes(p, d, FALSE) /\ Goes(p, r) /\ r \in Onward(p))
  BY DEF WriteMarker, Refused, Onward
<1> HIDE DEF d, r
<1> QED BY <1>1, <1>2, <1>3, IngestWrites, IngestRaises

LEMMA ClearsMarker ==
  ASSUME OpenInv, NEW p \in Procs, ClearMarker(p)
  PROVE  OpenInv'
<1> DEFINE d == [db EXCEPT !.marker = None]
<1>1. At(p, "clear") /\ "clear" \in IngestSteps /\ "clear" # "lease"
  BY DEF ClearMarker, IngestSteps
<1>2. DOMAIN db = DbFields /\ Untouched(deployment, db, db) /\ DOMAIN d = DbFields /\ Untouched(deployment, db, d)
  BY <1>1, LeaseStep DEF DbFields, Untouched
<1> DEFINE r == [Then(p) EXCEPT !.marked = FALSE]
<1>3. Raises(p, db, FALSE) \/ (Writes(p, d, FALSE) /\ Goes(p, r) /\ r \in Onward(p))
  BY DEF ClearMarker, Refused, Onward
<1> HIDE DEF d, r
<1> QED BY <1>1, <1>2, <1>3, IngestWrites, IngestRaises

LEMMA CreatesRelations ==
  ASSUME OpenInv, NEW p \in Procs, CreateRelations(p)
  PROVE  OpenInv'
<1> DEFINE d == [db EXCEPT !.tables = @ \cup {"records"}, !.stage = [NoStage EXCEPT !.made = TRUE]]
           r == [Then(p) EXCEPT !.built = {"records"}]
<1>1. At(p, "relations") /\ "relations" \in IngestSteps /\ "relations" # "lease"
  BY DEF CreateRelations, IngestSteps
<1>2. DOMAIN db = DbFields /\ deployment = "clickhouse"
  <2>1. "relations" \in {"lease", "unlease"} \cup IngestSteps /\ "relations" \notin {"lease", "unlease"}
    BY <1>1
  <2> QED BY <1>1, <2>1, LeaseStep
<1>3. DOMAIN d = DbFields /\ Untouched(deployment, db, d) /\ Untouched(deployment, db, db)
  BY <1>2 DEF DbFields, Untouched, Tabled
<1>4. Raises(p, db, FALSE) \/ (Writes(p, d, TRUE) /\ Goes(p, r) /\ r \in Onward(p))
  BY DEF CreateRelations, Refused, Onward
<1> HIDE DEF d, r
<1> QED BY <1>1, <1>2, <1>3, <1>4, IngestWrites, IngestRaises

LEMMA Projects ==
  ASSUME OpenInv, NEW p \in Procs, Project(p)
  PROVE  OpenInv'
<1> DEFINE d == [db EXCEPT !.bulk = @ + db.stage.rows]
<1>1. At(p, "project") /\ "project" \in IngestSteps /\ "project" # "lease"
  BY DEF Project, IngestSteps
<1>2. DOMAIN d = DbFields /\ Untouched(deployment, db, d)
  BY <1>1, LeaseStep DEF DbFields, Untouched
<1>3. Raises(p, d, FALSE) \/ (Writes(p, d, FALSE) /\ Goes(p, Then(p)) /\ Then(p) \in Onward(p))
  BY DEF Project, Onward
<1> HIDE DEF d
<1> QED BY <1>1, <1>2, <1>3, IngestWrites, IngestRaises

LEMMA SweepsStage ==
  ASSUME OpenInv, NEW p \in Procs, SweepStage(p)
  PROVE  OpenInv'
<1> DEFINE d == [db EXCEPT !.stage = NoStage]
<1>1. At(p, "sweep") /\ "sweep" \in IngestSteps /\ "sweep" # "lease" /\ Writes(p, d, TRUE) /\ Goes(p, Then(p)) /\ Then(p) \in Onward(p)
  BY DEF SweepStage, IngestSteps, Onward
<1>2. DOMAIN d = DbFields /\ Untouched(deployment, db, d)
  BY <1>1, LeaseStep DEF DbFields, Untouched
<1> HIDE DEF d
<1> QED BY <1>1, <1>2, IngestWrites

\* A step that writes without a transaction, whatever it finds.
LEMMA IngestPasses ==
  ASSUME OpenInv, NEW p \in Procs, NEW h \in IngestSteps, h # "lease", At(p, h), NEW d, db' = d, NEW r \in Onward(p), Goes(p, r),
         deployment' = deployment, tx' = tx, lock' = lock, DOMAIN d = DbFields, Untouched(deployment, db, d)
  PROVE  OpenInv'
<1>1. /\ DOMAIN r = ProcFields /\ r.pc = "run" /\ r.job = proc[p].job /\ r.ver = proc[p].ver /\ r.ready = proc[p].ready
      /\ r.made = proc[p].made /\ r.seen = proc[p].seen /\ InTurn(r.todo) /\ StepsOf(r.todo) = StepsOf(proc[p].todo) \ {h}
  BY OnwardFields
<1> QED BY <1>1, DoneStep

LEMMA Verifies ==
  ASSUME OpenInv, NEW p \in Procs, Verify(p)
  PROVE  OpenInv'
<1>1. At(p, "verify") /\ "verify" \in IngestSteps /\ "verify" # "lease"
  BY DEF Verify, IngestSteps
<1>2. DOMAIN db = DbFields /\ Untouched(deployment, db, db)
  BY <1>1, LeaseStep DEF Untouched
<1>3. CASE Goes(p, Then(p)) /\ UNCHANGED <<deployment, db, tx, lock, faults, deaths>>
  <2>1. Then(p) \in Onward(p)
    BY DEF Onward
  <2> QED BY <1>1, <1>2, <1>3, <2>1, IngestPasses
<1>4. CASE Keeps(p, db)
  <2>1. Raises(p, db, TRUE)
    BY <1>4 DEF Keeps
  <2> QED BY <1>1, <1>2, <2>1, IngestRaises
<1> QED BY <1>3, <1>4 DEF Verify

LEMMA LoadsFields ==
  ASSUME NEW p, DOMAIN db = DbFields, NEW here, NEW later
  PROVE  DOMAIN Loads(here, later) = DbFields /\ Untouched(deployment, db, Loads(here, later))
BY DEF Loads, DbFields, Untouched

LEMMA Reloads ==
  ASSUME OpenInv, NEW p \in Procs, Reload(p)
  PROVE  OpenInv'
<1>1. At(p, "reload") /\ "reload" \in IngestSteps /\ "reload" # "lease"
  BY DEF Reload, IngestSteps
<1>2. DOMAIN db = DbFields
  BY <1>1, LeaseStep
<1>3. \A here, later : DOMAIN Loads(here, later) = DbFields /\ Untouched(deployment, db, Loads(here, later))
  BY <1>2, LoadsFields
<1>s. Staged(p) \in Onward(p)
  BY DEF Onward
<1>4. CASE Writes(p, Loads(2, 0), FALSE) /\ Goes(p, Staged(p))
  BY <1>1, <1>3, <1>4, <1>s, IngestWrites
<1>5. ASSUME NEW here, Keeps(p, Loads(here, 0)) PROVE OpenInv'
  <2>1. Raises(p, Loads(here, 0), TRUE)
    BY <1>5 DEF Keeps
  <2> QED BY <1>1, <1>3, <2>1, IngestRaises
<1>6. ASSUME NEW here, db' = Loads(here, 0), Goes(p, Staged(p)), UNCHANGED <<deployment, tx, lock>> PROVE OpenInv'
  BY <1>1, <1>3, <1>6, <1>s, IngestPasses
<1> QED BY <1>4, <1>5, <1>6 DEF Reload

LEMMA LoadsShard ==
  ASSUME OpenInv, NEW p \in Procs, LoadShard(p)
  PROVE  OpenInv'
<1> DEFINE r == [Then(p) EXCEPT !.todo = <<"reload">> \o @]
<1>1. At(p, "load") /\ "load" \in IngestSteps /\ "load" # "lease"
  BY DEF LoadShard, IngestSteps
<1>2. DOMAIN db = DbFields /\ proc[p].job = "ingest" /\ deployment = "clickhouse"
  <2>1. "load" \in {"lease", "unlease"} \cup IngestSteps /\ "load" \notin {"lease", "unlease"}
    BY <1>1
  <2> QED BY <1>1, <2>1, LeaseStep
<1>3. \A here, later : DOMAIN Loads(here, later) = DbFields /\ Untouched(deployment, db, Loads(here, later))
  BY <1>2, LoadsFields
<1>s. Staged(p) \in Onward(p)
  BY DEF Onward
<1>4. CASE Writes(p, Loads(2, 0), FALSE) /\ Goes(p, Staged(p))
  BY <1>1, <1>3, <1>4, <1>s, IngestWrites
<1>5. ASSUME NEW here, NEW later, Keeps(p, Loads(here, later)) PROVE OpenInv'
  <2>1. Raises(p, Loads(here, later), TRUE)
    BY <1>5 DEF Keeps
  <2> QED BY <1>1, <1>3, <2>1, IngestRaises
<1>6. ASSUME db' = Loads(2, 0), Goes(p, Staged(p)), UNCHANGED <<deployment, tx, lock>> PROVE OpenInv'
  BY <1>1, <1>3, <1>6, <1>s, IngestPasses
<1>7. ASSUME NEW later, db' = Loads(0, later), Goes(p, r), UNCHANGED <<deployment, tx, lock>> PROVE OpenInv'
  <2> DEFINE S == StepsOf(proc[p].todo)
             t == Then(p).todo
  <2>1. /\ DOMAIN Then(p) = ProcFields /\ InTurn(t) /\ StepsOf(t) = S \ {"load"}
        /\ Then(p).pc = "run" /\ Then(p).job = proc[p].job /\ Then(p).ver = proc[p].ver /\ Then(p).made = proc[p].made
        /\ Then(p).seen = proc[p].seen /\ Then(p).ready = proc[p].ready
    BY <1>1, ThenFields
  <2>2. /\ \A s \in S : s = "load" \/ Rank["load"] < Rank[s]
        /\ IngestOk(deployment, proc[p], View(p), S) /\ S \subseteq Steps
    BY <1>1, <1>2, Taken
  <2> HIDE DEF S
  <2>3. S \subseteq IngestSteps
    BY <2>2 DEF IngestOk
  <2>4. InTurn(<<"reload">>) /\ StepsOf(<<"reload">>) = {"reload"}
    BY DEF InTurn, StepsOf, Rank, Steps
  <2>5. \A x \in StepsOf(<<"reload">>) : \A y \in StepsOf(t) : Rank[x] < Rank[y]
    <3> SUFFICES ASSUME NEW y \in S, y # "load" PROVE Rank["reload"] < Rank[y]
      BY <2>1, <2>4
    <3>1. Rank["load"] < Rank[y] /\ Rank[y] \in Nat
      BY <2>2, RanksAreNumbers
    <3> QED BY <3>1 DEF Rank
  <2>6. InTurn(<<"reload">> \o t) /\ StepsOf(<<"reload">> \o t) = {"reload"} \cup StepsOf(t)
    BY <2>1, <2>4, <2>5, StepsInTurn
  <2>7. /\ DOMAIN r = ProcFields /\ r.pc = "run" /\ r.job = proc[p].job /\ r.ver = proc[p].ver /\ r.ready = proc[p].ready
        /\ r.made = proc[p].made /\ r.seen = proc[p].seen /\ r.todo = <<"reload">> \o t
    BY <2>1 DEF ProcFields
  <2>8. InTurn(r.todo) /\ StepsOf(r.todo) \subseteq IngestSteps
    BY <2>1, <2>3, <2>6, <2>7 DEF IngestSteps
  <2>9. "load" \in {"lease", "unlease"} \cup IngestSteps
    BY <1>1
  <2>10. DOMAIN db' = DbFields /\ Untouched(deployment, db, db') /\ Goes(p, r) /\ lock' = lock /\ tx' = tx /\ deployment' = deployment
    BY <1>3, <1>7
  <2> HIDE DEF r
  <2> QED BY <1>1, <1>2, <2>7, <2>8, <2>9, <2>10, DoneStep
<1>8. ASSUME NEW here \in 0..2, NEW later, Raises(p, Loads(here, later), FALSE) PROVE OpenInv'
  BY <1>1, <1>3, <1>8, IngestRaises
<1>9. ASSUME NEW here \in 0..2, NEW later,
             CASE here = 2 -> db' = Loads(2, 0) /\ Goes(p, Staged(p)) /\ UNCHANGED <<deployment, tx, lock>>
               [] here = 1 -> Keeps(p, Loads(here, later))
               [] here = 0 -> /\ db' = Loads(0, later) /\ UNCHANGED <<deployment, tx, lock>>
                              /\ Goes(p, r)
      PROVE  OpenInv'
  <2> DEFINE A == db' = Loads(2, 0) /\ Goes(p, Staged(p)) /\ UNCHANGED <<deployment, tx, lock>>
             B == Keeps(p, Loads(here, later))
             C == db' = Loads(0, later) /\ UNCHANGED <<deployment, tx, lock>> /\ Goes(p, r)
  <2>1. (CASE here = 2 -> A [] here = 1 -> B [] here = 0 -> C)
    BY <1>9
  <2>2. A \/ B \/ C
    <3> HIDE DEF A, B, C
    <3>1. here = 0 \/ here = 1 \/ here = 2
      OBVIOUS
    <3> QED BY ONLY <2>1, <3>1
  <2> HIDE DEF r
  <2> QED BY <1>5, <1>6, <1>7, <2>2
<1> HIDE DEF r
<1>10. ASSUME Unsure,
              \E here \in 0..2 : \E later \in {0, 2 - here} :
                 \/ CASE here = 2 -> db' = Loads(2, 0) /\ Goes(p, Staged(p)) /\ UNCHANGED <<deployment, tx, lock>>
                      [] here = 1 -> Keeps(p, Loads(here, later))
                      [] here = 0 -> /\ db' = Loads(0, later) /\ UNCHANGED <<deployment, tx, lock>>
                                     /\ Goes(p, r)
                 \/ Raises(p, Loads(here, later), FALSE)
       PROVE  OpenInv'
  BY <1>8, <1>9, <1>10
<1> QED BY <1>4, <1>10 DEF LoadShard, r

LEMMA Undoes ==
  ASSUME OpenInv, NEW p \in Procs, Undo(p)
  PROVE  OpenInv'
<1> DEFINE r == [proc[p] EXCEPT !.pc = "open", !.job = "open", !.marked = FALSE, !.keep = FALSE]
<1>1. proc[p].pc = "undo" /\ proc' = [proc EXCEPT ![p] = r] /\ deployment' = deployment /\ tx' = tx /\ lock' = lock
  BY DEF Undo, Goes
<1>v. /\ DOMAIN db = DbFields /\ DOMAIN proc[p] = ProcFields /\ ProcOk(deployment, proc[p], View(p)) /\ None \notin Procs
      /\ (~Transactional(deployment) => lock = None) /\ (lock # p => View(p) = db)
  BY ViewFacts DEF SoundFor, Shapes
<1>2. deployment = "clickhouse" /\ InUse(deployment, proc[p], View(p)) /\ Fits(deployment, proc[p], View(p)) /\ proc[p].ver \in DOMAIN Schema
  BY <1>1, <1>v DEF ProcOk, IngestOk
<1>3. lock = None /\ View(p) = db
  BY <1>2, <1>v DEF Transactional
<1>4. DOMAIN db' = DbFields /\ Untouched(deployment, db, db')
  <2> DEFINE e == [db EXCEPT !.tables = @ \ {"records"}, !.bulk = 0]
             f == [db EXCEPT !.stage = NoStage]
             g == [e EXCEPT !.stage = NoStage]
  <2>1. PICK d \in {db, e, f, g} : db' = d \/ db' = [d EXCEPT !.marker = None]
    BY DEF Undo
  <2>2. /\ DOMAIN e = DbFields /\ Untouched(deployment, db, e)
        /\ DOMAIN f = DbFields /\ Untouched(deployment, db, f)
        /\ DOMAIN g = DbFields /\ Untouched(deployment, db, g)
    BY <1>2, <1>v DEF DbFields, Untouched, Tabled
  <2>3. DOMAIN d = DbFields /\ Untouched(deployment, db, d)
    BY <1>v, <2>2, UntouchedGrows DEF Untouched
  <2> HIDE DEF e, f, g
  <2> QED BY <2>1, <2>3 DEF DbFields, Untouched
<1>5. DOMAIN r = ProcFields /\ r.pc = "open" /\ r.job = "open" /\ r.made = proc[p].made /\ r.ver = proc[p].ver /\ r.ready = proc[p].ready
  BY <1>v DEF ProcFields
<1> HIDE DEF r
<1>6. InUse(deployment, r, View(p)) /\ Fits(deployment, r, View(p)) /\ r.made = {}
  BY <1>2, <1>5 DEF InUse, Fits
<1>7. Becomes(p, r, View(p))
  BY <1>2, <1>5, <1>6 DEF Becomes, ProcOk, MakerOk
<1>8. lock # p
  BY <1>3, <1>v
<1> QED BY <1>1, <1>2, <1>4, <1>6, <1>7, <1>8, QuietStep

-----------------------------------------------------------------------------
(* Use.                                                                    *)

LEMMA Saves ==
  ASSUME OpenInv, NEW p \in Procs, Save(p)
  PROVE  OpenInv'
<1> DEFINE r == [proc[p] EXCEPT !.held = (deployment = "degraded")]
           n == proc[p].ver
           e == WithTables(db, n)
<1>1. /\ proc[p].pc = "open" /\ proc[p].ready /\ deployment # "clickhouse" /\ lock = None
      /\ proc' = [proc EXCEPT ![p] = r] /\ deployment' = deployment /\ tx' = tx /\ lock' = lock
  BY DEF Save, Goes
<1>2. PICK id \in Ids :
        /\ "owners" \in db.tables => \A c \in db.claims : c[2] # id
        /\ db' = [WithTables(db, proc[p].ver) EXCEPT !.rows = @ \cup {<<Cardinality(db.rows) + 1, id>>}, !.claims = @ \cup {<<Cardinality(db.rows) + 1, id>>},
                           !.lease = IF deployment = "degraded" THEN p ELSE @]
  BY ZenonT(30) DEF Save
<1> DEFINE row == <<Cardinality(db.rows) + 1, id>>
           d == [e EXCEPT !.rows = @ \cup {row}, !.claims = @ \cup {row}, !.lease = IF deployment = "degraded" THEN p ELSE @]
<1>v. /\ DOMAIN db = DbFields /\ DOMAIN proc[p] = ProcFields /\ View(p) = db /\ ProcOk(deployment, proc[p], db) /\ DbSound(deployment, db)
      /\ None \notin Procs
  BY <1>1, ViewFacts DEF SoundFor, Shapes
<1>3. /\ InUse(deployment, proc[p], db) /\ Fits(deployment, proc[p], db) /\ n \in DOMAIN Schema
      /\ Settled(deployment, db) /\ "ownership" \in DOMAIN db.keys /\ proc[p].made = {}
  BY <1>1, <1>v DEF ProcOk, InUse
<1>4. Tabled(deployment) /\ "records" \notin db.tables => IsAdditive(db.keys["schemas"], n)
  BY <1>3, AdditiveSelf DEF Fits
<1>5. DbSound(deployment, e) /\ Grown(deployment, db, e) /\ Settled(deployment, e)
  BY <1>1, <1>3, <1>4, <1>v, TablesAdded
<1>6. DOMAIN e = DbFields /\ e.keys = db.keys /\ e.rows = db.rows /\ e.marker = db.marker /\ e.claims = db.claims
  BY <1>v, WithTablesFields
<1>7. row[2] = id
  OBVIOUS
<1>8. db' = d
  BY <1>2
<1> HIDE DEF e, row
<1>9. DOMAIN d = DbFields /\ d.keys = e.keys /\ d.tables = e.tables /\ d.columns = e.columns /\ d.rows = e.rows \cup {row} /\ d.marker = e.marker /\ d.claims = e.claims \cup {row}
  BY <1>6 DEF DbFields
<1>10. DOMAIN r = ProcFields /\ r.pc = "open" /\ r.job = proc[p].job /\ r.made = proc[p].made /\ r.ver = n /\ r.ready = proc[p].ready
  BY <1>1, <1>v DEF ProcFields
<1> HIDE DEF d, r, n
<1>11. "owners" \in db.tables /\ Owned(db) /\ "owners" \in e.tables
  BY <1>1, <1>3, <1>5, <1>v DEF Owned, Distinct, Sole, DbSound, Grown
<1>12. Owned(d)
  <2>1. d.claims = d.rows /\ \A s \in db.rows : s[2] # id
    BY <1>2, <1>6, <1>9, <1>11 DEF Owned
  <2>2. \A s, t \in d.rows : s[2] = t[2] => s = t
    BY <1>6, <1>7, <1>9, <1>11, <2>1 DEF Distinct, Owned
  <2> QED BY <2>1, <2>2 DEF Distinct, Owned
<1>13. Grown(deployment, e, d) /\ Settled(deployment, d)
  BY <1>1, <1>5, <1>9, <1>12 DEF Grown, Settled
<1>14. Grown(deployment, db, d)
  BY <1>5, <1>13, GrownChain
<1>15. DbSound(deployment, d)
  BY <1>1, <1>5, <1>9, <1>11, <1>12, <1>13 DEF Distinct, Sole, DbSound, Owned, Promised
<1>16. ProcOk(deployment, proc[p], d)
  BY <1>14, <1>15, <1>v, ProcGrows
<1>17. InUse(deployment, r, d) /\ Fits(deployment, r, d)
  <2>1. InUse(deployment, proc[p], d) /\ Fits(deployment, proc[p], d)
    BY <1>1, <1>16 DEF ProcOk
  <2> QED BY <1>10, <2>1 DEF InUse, Fits, n
<1>18. Becomes(p, r, d)
  <2>1. r.job \in {"first", "open", "ingest"} /\ r.ver \in DOMAIN Schema /\ r.made = {}
    BY <1>3, <1>10, <1>v DEF ProcOk
  <2> QED BY <1>10, <1>17, <2>1 DEF Becomes, ProcOk, MakerOk
<1>19. Polite(p, db, d) /\ r.made = {} /\ lock' = None
  BY <1>1, <1>3, <1>10 DEF Polite
<1> QED BY <1>1, <1>8, <1>9, <1>14, <1>15, <1>18, <1>19, DurableStep

LEMMA Closes ==
  ASSUME OpenInv, NEW p \in Procs, Close(p)
  PROVE  OpenInv'
<1> DEFINE r == Gone(proc[p])
           d == [db EXCEPT !.lease = IF @ = p THEN None ELSE @]
<1>1. proc[p].pc # "run" /\ db' = d /\ proc' = [proc EXCEPT ![p] = r] /\ deployment' = deployment /\ tx' = tx /\ lock' = lock
  BY DEF Close, Goes
<1>v. DOMAIN db = DbFields /\ TxOk /\ None \notin Procs
  BY ViewFacts DEF SoundFor, Shapes
<1>2. DOMAIN d = DbFields /\ Untouched(deployment, db, d)
  BY <1>v DEF DbFields, Untouched
<1>3. DOMAIN r = ProcFields /\ r.made = {} /\ r.pc = "out" /\ r.ver = 1 /\ r.job = "open"
  BY DEF Gone, Away, ProcFields
<1> HIDE DEF d, r
<1>4. Becomes(p, r, View(p))
  BY <1>3, OpeningAssumption DEF Becomes, ProcOk, MakerOk
<1>5. lock # p
  BY <1>1, <1>v DEF TxOk
<1> QED BY <1>1, <1>2, <1>3, <1>4, <1>5, QuietStep

LEMMA Dies ==
  ASSUME OpenInv, NEW p \in Procs, Die(p)
  PROVE  OpenInv'
<1> DEFINE r == [Away EXCEPT !.pc = "dead"]
<1>1. Ended(p) /\ db' = db /\ proc' = [proc EXCEPT ![p] = r] /\ deployment' = deployment
  BY DEF Die, Goes
<1>v. DOMAIN db = DbFields /\ DbSound(deployment, db) /\ Untouched(deployment, db, db)
  BY ViewFacts DEF SoundFor, Shapes, Untouched
<1>2. Grown(deployment, db, db)
  BY <1>v, UntouchedGrows
<1>3. DOMAIN r = ProcFields /\ r.made = {} /\ r.pc = "dead" /\ r.ver = 1 /\ r.job = "open"
  BY DEF Away, ProcFields
<1> HIDE DEF r
<1>4. Becomes(p, r, db)
  BY <1>3, OpeningAssumption DEF Becomes, ProcOk, MakerOk
<1> QED BY <1>1, <1>2, <1>3, <1>4, <1>v, EndingStep

\* Nobody moves.
LEMMA IdleStep ==
  ASSUME OpenInv, NEW d, db' = d, DOMAIN d = DbFields, Untouched(deployment, db, d), UNCHANGED <<deployment, tx, lock, proc>>
  PROVE  OpenInv'
<1>g. Grown(deployment, db, d) /\ Grown(deployment, d, db) /\ (Settled(deployment, db) <=> Settled(deployment, d)) /\ DbSound(deployment, d)
  BY UntouchedGrows DEF OpenInv
<1>1. Shapes'
  BY DEF OpenInv, Shapes
<1>2. DbSound(deployment', db')
  BY <1>g
<1>3. TxOk'
  <2> SUFFICES ASSUME lock # None
               PROVE  /\ Transactional(deployment) /\ proc[lock].pc = "run" /\ DbSound(deployment, tx) /\ Grown(deployment, d, tx)
                      /\ proc[lock].made = {} => proc[lock].job = "open" /\ Settled(deployment, d)
                      /\ proc[lock].made # {} /\ deployment = "sqlite" => proc[lock].todo = <<>>
    BY DEF TxOk
  <2>1. /\ Transactional(deployment) /\ proc[lock].pc = "run" /\ DbSound(deployment, tx) /\ Grown(deployment, db, tx)
        /\ proc[lock].made = {} => proc[lock].job = "open" /\ Settled(deployment, db)
        /\ proc[lock].made # {} /\ deployment = "sqlite" => proc[lock].todo = <<>>
    BY DEF OpenInv, TxOk
  <2>2. Grown(deployment, d, tx)
    BY <1>g, <2>1, GrownChain
  <2> QED BY <1>g, <2>1, <2>2
<1>4. ASSUME NEW q \in Procs
      PROVE  ProcOk(deployment, proc[q], View(q))' /\ MakerOk(deployment, proc[q], View(q))' /\ MakingOk(q)'
  <2>1. /\ ProcOk(deployment, proc[q], View(q)) /\ MakerOk(deployment, proc[q], View(q)) /\ MakingOk(q) /\ DbSound(deployment, db)
        /\ View(q) = IF lock = q THEN tx ELSE db
        /\ View(q)' = IF lock = q THEN tx ELSE d
    BY DEF OpenInv, View
  <2>2. MakingOk(q)'
    BY <2>1 DEF MakingOk, Untouched
  <2>3. CASE lock = q
    BY <2>1, <2>2, <2>3
  <2>4. CASE lock # q
    <3>1. ProcOk(deployment, proc[q], d)
      BY <1>g, <2>1, <2>4, ProcGrows
    <3>2. HasProfile(deployment) \/ proc[q].made = {} \/ DOMAIN db.keys = {}
      BY <2>1, <2>4 DEF MakingOk
    <3>3. MakerOk(deployment, proc[q], d)
      BY <1>g, <2>1, <2>4, <3>2, MakerGrows
    <3> QED BY <2>1, <2>2, <2>4, <3>1, <3>3
  <2> QED BY <2>3, <2>4
<1> QED BY <1>1, <1>2, <1>3, <1>4 DEF OpenInv

LEMMA Recovers ==
  ASSUME OpenInv, Recover
  PROVE  OpenInv'
<1> DEFINE d == [db EXCEPT !.lease = IF @ = Nobody \/ Dead(@) THEN None ELSE @, !.fence = IF @ = Nobody \/ Dead(@) THEN None ELSE @]
<1>1. db' = d /\ UNCHANGED <<deployment, tx, lock, proc>> /\ DOMAIN db = DbFields
  BY DEF Recover, OpenInv, Shapes
<1>2. DOMAIN d = DbFields /\ Untouched(deployment, db, d)
  BY <1>1 DEF DbFields, Untouched
<1> HIDE DEF d
<1> QED BY <1>1, <1>2, IdleStep

LEMMA Lands ==
  ASSUME OpenInv, LateLands
  PROVE  OpenInv'
<1> DEFINE d == [db EXCEPT !.stage.rows = @ + db.stage.late, !.stage.late = 0]
<1>1. db' = d /\ UNCHANGED <<deployment, tx, lock, proc>> /\ DOMAIN db = DbFields
  BY DEF LateLands, OpenInv, Shapes
<1>2. DOMAIN d = DbFields /\ Untouched(deployment, db, d)
  BY <1>1 DEF DbFields, Untouched
<1> HIDE DEF d
<1> QED BY <1>1, <1>2, IdleStep

LEMMA Stands ==
  ASSUME OpenInv, UNCHANGED openingVars
  PROVE  OpenInv'
<1>1. UNCHANGED <<deployment, db, tx, lock, proc>> /\ DOMAIN db = DbFields /\ Untouched(deployment, db, db)
  BY DEF openingVars, OpenInv, Shapes, Untouched
<1> QED BY <1>1, IdleStep

-----------------------------------------------------------------------------
(* The openings' invariant holds.                                          *)

LEMMA LegacyFields ==
  ASSUME NEW ids, deployment \in Deployments
  PROVE  LET d == Legacy(ids)
         IN  /\ DOMAIN d = DbFields /\ d.tables = DOMAIN Schema[1] \cup {"meta"} /\ d.claims = {}
             /\ d.columns = Columns(1, DOMAIN Schema[1]) /\ d.marker = None /\ d.bulk = 0 /\ d.stage = NoStage
             /\ Required \ {"ownership"} \subseteq DOMAIN d.keys /\ "ownership" \notin DOMAIN d.keys /\ d.keys["schemas"] = 1
             /\ HasProfile(deployment) => "profile" \in DOMAIN d.keys
<1> DEFINE d == Legacy(ids)
           e == WithTables(Nothing, 1)
           ks == {Stamps[i] : i \in DOMAIN Stamps} \ {"ownership"}
<1>1. /\ DOMAIN e = DbFields /\ e.tables = DOMAIN Schema[1] /\ e.claims = {} /\ e.columns = Columns(1, DOMAIN Schema[1])
      /\ e.marker = None /\ e.bulk = 0 /\ e.stage = NoStage
  BY DEF WithTables, Nothing, DbFields
<1>2. d = [e EXCEPT !.tables = @ \cup {"meta"}, !.keys = [k \in ks |-> 1], !.rows = {<<1, ids[1]>>, <<2, ids[2]>>}]
  BY DEF Legacy
<1> HIDE DEF d, e
<1>3. ks = IF HasProfile(deployment) THEN {"protocol", "schemas", "timestamps", "profile"} ELSE {"protocol", "schemas", "timestamps"}
  <2>1. CASE HasProfile(deployment)
    <3>1. Stamps = <<"protocol", "schemas", "timestamps", "ownership", "profile">>
      BY <2>1 DEF Stamps, Profiled, HasProfile
    <3>2. {Stamps[i] : i \in DOMAIN Stamps} = {"protocol", "schemas", "timestamps", "ownership", "profile"}
      BY <3>1
    <3> QED BY <2>1, <3>2
  <2>2. CASE ~HasProfile(deployment)
    <3>1. Stamps = <<"protocol", "schemas", "timestamps", "ownership">>
      BY <2>2 DEF Stamps, Profiled, HasProfile
    <3>2. {Stamps[i] : i \in DOMAIN Stamps} = {"protocol", "schemas", "timestamps", "ownership"}
      BY <3>1
    <3> QED BY <2>2, <3>2
  <2> QED BY <2>1, <2>2
<1> HIDE DEF ks
<1>4. /\ DOMAIN d = DbFields /\ d.tables = DOMAIN Schema[1] \cup {"meta"} /\ d.claims = {}
      /\ d.columns = Columns(1, DOMAIN Schema[1]) /\ d.marker = None /\ d.bulk = 0 /\ d.stage = NoStage
      /\ d.keys = [k \in ks |-> 1]
  BY <1>1, <1>2 DEF DbFields
<1>5. Required \ {"ownership"} = {"protocol", "schemas", "timestamps"}
  BY DEF Required
<1> QED BY <1>3, <1>4, <1>5 DEF d

LEMMA InitInvariant == OpeningInit => OpenInv
<1> SUFFICES ASSUME OpeningInit PROVE OpenInv
  OBVIOUS
<1>1. /\ deployment \in Deployments /\ tx = Nothing /\ lock = None /\ proc = [p \in Procs |-> Away]
  BY DEF OpeningInit
<1>2. DOMAIN Nothing = DbFields /\ DOMAIN Away = ProcFields
  BY DEF Nothing, Away, DbFields, ProcFields
<1>3. DOMAIN db = DbFields /\ DbSound(deployment, db)
  <2>1. CASE db = Nothing
    <3>1. DOMAIN db.keys = {} /\ db.tables = {} /\ db.rows = {} /\ db.claims = {} /\ db.marker = None
      BY <2>1 DEF Nothing
    <3> QED BY <1>2, <2>1, <3>1 DEF Distinct, Sole, DbSound, Settled, Owned
  <2>2. CASE \E ids : db = Legacy(ids) \/ db = [Legacy(ids) EXCEPT !.lease = Nobody]
    <3>1. PICK ids : db = Legacy(ids) \/ db = [Legacy(ids) EXCEPT !.lease = Nobody]
      BY <2>2
    <3>2. LET d == Legacy(ids)
          IN  /\ DOMAIN d = DbFields /\ d.tables = DOMAIN Schema[1] \cup {"meta"} /\ d.claims = {}
              /\ d.columns = Columns(1, DOMAIN Schema[1]) /\ d.marker = None /\ d.bulk = 0 /\ d.stage = NoStage
              /\ Required \ {"ownership"} \subseteq DOMAIN d.keys /\ "ownership" \notin DOMAIN d.keys /\ d.keys["schemas"] = 1
              /\ HasProfile(deployment) => "profile" \in DOMAIN d.keys
      BY <1>1, LegacyFields
    <3>3. /\ DOMAIN db = DbFields /\ db.tables = DOMAIN Schema[1] \cup {"meta"} /\ db.claims = {}
          /\ db.columns = Columns(1, DOMAIN Schema[1])
          /\ Required \ {"ownership"} \subseteq DOMAIN db.keys /\ "ownership" \notin DOMAIN db.keys /\ db.keys["schemas"] = 1
          /\ HasProfile(deployment) => "profile" \in DOMAIN db.keys
      BY <3>1, <3>2 DEF DbFields
    <3>4. Settled(deployment, db) /\ Promised(db, 1) /\ "records" \in db.tables
      BY <3>3, OpeningAssumption DEF Settled, Promised
    <3> QED BY <2>2, <3>3, <3>4, OpeningAssumption DEF DbSound
  <2> QED BY <2>1, <2>2 DEF OpeningInit
<1>4. Shapes
  BY <1>1, <1>2, <1>3 DEF Shapes
<1>5. TxOk
  BY <1>1 DEF TxOk
<1>6. ASSUME NEW p \in Procs PROVE ProcOk(deployment, proc[p], View(p)) /\ MakerOk(deployment, proc[p], View(p)) /\ MakingOk(p)
  <2>1. proc[p] = Away
    BY <1>1
  <2>2. Away.pc = "out" /\ Away.job = "open" /\ Away.made = {} /\ Away.ver = 1
    BY DEF Away
  <2> QED BY <2>1, <2>2, OpeningAssumption DEF ProcOk, MakerOk, MakingOk
<1> QED BY <1>3, <1>4, <1>5, <1>6 DEF OpenInv

LEMMA OpeningsStep ==
  ASSUME OpenInv, [OpeningNext]_openingVars, FaultsLeaveNothing
  PROVE  OpenInv'
<1>1. CASE UNCHANGED openingVars
  BY <1>1, Stands
<1>2. CASE Recover \/ LateLands
  BY <1>2, Recovers, Lands
<1>3. ASSUME NEW p \in Procs,
             \/ Look(p) \/ Read(p) \/ CreateMetadata(p) \/ Stamp(p) \/ StampKey(p) \/ InsertLayout(p)
             \/ CreateOwners(p) \/ TakeLease(p) \/ ReleaseLease(p) \/ ClaimRows(p) \/ AddTables(p)
      PROVE  OpenInv'
  BY <1>3, Looks, Reads, CreatesMetadata, StampsStores, StampsAKey, InsertsLayout, CreatesOwners, TakesLease, ReleasesLease, ClaimsRows,
     AddsTables
<1>4. ASSUME NEW p \in Procs,
             \/ AddColumn(p) \/ Restamp(p) \/ Opened(p) \/ Busy(p) \/ DropMade(p)
             \/ TakeFence(p) \/ Recheck(p) \/ ReleaseFence(p) \/ Fault(p) \/ FaultLanded(p)
      PROVE  OpenInv'
  BY <1>4, AddsColumn, Restamps, Opens, IsBusy, DropsMade, TakesFence, Rechecks, ReleasesFence, Faults, FaultsLand
<1>5. ASSUME NEW p \in Procs,
             \/ BeginIngest(p) \/ WriteMarker(p) \/ CreateRelations(p) \/ LoadShard(p) \/ Reload(p)
             \/ Project(p) \/ Verify(p) \/ SweepStage(p) \/ ClearMarker(p) \/ Undo(p)
             \/ Save(p) \/ Close(p) \/ Die(p)
      PROVE  OpenInv'
  BY <1>5, BeginsIngest, WritesMarker, CreatesRelations, LoadsShard, Reloads, Projects, Verifies, SweepsStage, ClearsMarker, Undoes,
     Saves, Closes, Dies
<1> QED BY <1>1, <1>2, <1>3, <1>4, <1>5 DEF OpeningNext

-----------------------------------------------------------------------------
(* The ingest's invariant.                                                 *)

\* Whoever else has a marker keeps it.
Spared(p, d) ==
  \A q \in Procs : q # p /\ proc[q].marked =>
    d.marker = q /\ d.lease = q /\ d.bulk = db.bulk /\ d.stage.made = db.stage.made
\* Nothing of an ingest has changed.
Alike(d, e) == e.marker = d.marker /\ e.lease = d.lease /\ e.bulk = d.bulk /\ e.stage = d.stage
\* Not in an ingest.
Free(r) == ~r.marked /\ r.pc # "undo" /\ ~(r.pc = "run" /\ r.job = "ingest")

LEMMA MarkedFacts ==
  ASSUME OpenInv, IngestInv, NEW q \in Procs, proc[q].marked
  PROVE  /\ deployment = "clickhouse" /\ proc[q].job = "ingest" /\ proc[q].pc \in {"run", "undo"} /\ db.marker = q /\ db.lease = q
         /\ "records" \notin proc[q].built => db.bulk \in {0, 2}
         /\ lock = None /\ None \notin Procs /\ Nobody \notin Procs /\ View(q) = db /\ q # None /\ q # Nobody
<1>1. /\ deployment = "clickhouse" /\ proc[q].job = "ingest" /\ proc[q].pc \in {"run", "undo"} /\ db.marker = q /\ db.lease = q
      /\ "records" \notin proc[q].built => db.bulk \in {0, 2}
  BY DEF IngestInv, MarkingOk
<1>2. lock = None /\ View(q) = db
  BY <1>1, ViewFacts DEF Transactional
<1> QED BY <1>1, <1>2, OpeningAssumption

LEMMA SparedBy ==
  ASSUME OpenInv, IngestInv, NEW p \in Procs, NEW d, deployment # "clickhouse" \/ proc[p].marked \/ Alike(db, d)
  PROVE  Spared(p, d)
<1> SUFFICES ASSUME NEW q \in Procs, q # p, proc[q].marked
             PROVE  d.marker = q /\ d.lease = q /\ d.bulk = db.bulk /\ d.stage.made = db.stage.made
  BY DEF Spared
<1>1. deployment = "clickhouse" /\ db.marker = q /\ db.lease = q
  BY MarkedFacts
<1>2. ~proc[p].marked
  BY <1>1, MarkedFacts
<1> QED BY <1>1, <1>2 DEF Alike

\* A step of p that leaves the others their markers.
LEMMA MarkStep ==
  ASSUME OpenInv, IngestInv, NEW p \in Procs, NEW d, NEW r, db' = d, deployment' = deployment, proc' = [proc EXCEPT ![p] = r],
         Clean(d), lock' # None => Clean(tx'), Spared(p, d), MarkingOk(deployment, r, p, d)
  PROVE  IngestInv'
<1>1. proc'[p] = r /\ \A q \in Procs : q # p => proc'[q] = proc[q]
  BY DEF OpenInv, Shapes
<1>2. ASSUME NEW q \in Procs PROVE MarkingOk(deployment', proc'[q], q, db')
  <2>1. CASE q = p
    BY <1>1, <2>1
  <2>2. CASE q # p
    <3>1. MarkingOk(deployment, proc[q], q, db) /\ proc'[q] = proc[q]
      BY <1>1, <2>2 DEF IngestInv
    <3>2. proc[q].marked => d.marker = q /\ d.lease = q /\ d.bulk = db.bulk /\ d.stage.made = db.stage.made
      BY <2>2 DEF Spared
    <3>3. MarkingOk(deployment, proc[q], q, d)
      BY <3>1, <3>2 DEF MarkingOk
    <3> QED BY <3>1, <3>3
  <2> QED BY <2>1, <2>2
<1> QED BY <1>2 DEF IngestInv

LEMMA FreeMarks ==
  ASSUME NEW k, NEW r, NEW p, NEW d, Free(r)
  PROVE  MarkingOk(k, r, p, d)
BY DEF Free, MarkingOk

\* A step outside of an ingest.
LEMMA FreeStep ==
  ASSUME OpenInv, IngestInv, NEW p \in Procs, NEW r, deployment' = deployment, proc' = [proc EXCEPT ![p] = r], Free(r),
         Alike(db, db') \/ (deployment # "clickhouse" /\ Clean(db')), lock' # None => Clean(tx')
  PROVE  IngestInv'
<1>1. Clean(db')
  BY DEF IngestInv, Clean, Alike
<1>2. Spared(p, db')
  BY SparedBy
<1>3. MarkingOk(deployment, r, p, db')
  BY FreeMarks
<1> QED BY <1>1, <1>2, <1>3, MarkStep

LEMMA FreeWrite ==
  ASSUME OpenInv, IngestInv, NEW p \in Procs, NEW d, NEW r, NEW ddl, Writes(p, d, ddl), Goes(p, r), Free(r),
         Alike(View(p), d) \/ (deployment # "clickhouse" /\ Clean(d))
  PROVE  IngestInv'
<1>1. /\ lock = None \/ lock = p
      /\ IF lock = p \/ ~Durable(ddl) THEN tx' = d /\ lock' = p /\ db' = db ELSE db' = d /\ tx' = tx /\ lock' = lock
      /\ deployment' = deployment /\ proc' = [proc EXCEPT ![p] = r]
  BY DEF Writes, Goes
<1>2. Clean(View(p)) /\ (lock # p => View(p) = db) /\ None \notin Procs
  BY ViewFacts, OpeningAssumption DEF IngestInv, View
<1>3. Clean(d)
  BY <1>2 DEF Clean, Alike
<1>4. CASE lock = p \/ ~Durable(ddl)
  <2>1. Alike(db, db')
    BY <1>1, <1>4 DEF Alike
  <2> QED BY <1>1, <1>3, <1>4, <2>1, FreeStep
<1>5. CASE ~(lock = p \/ ~Durable(ddl))
  <2>1. lock' = None /\ db' = d /\ View(p) = db
    BY <1>1, <1>2, <1>5
  <2>2. Alike(db, db') \/ (deployment # "clickhouse" /\ Clean(db'))
    BY <1>3, <2>1
  <2> QED BY <1>1, <2>1, <2>2, FreeStep
<1> QED BY <1>4, <1>5

\* An error leaves the marker, unless it is that of the clearing.
LEMMA ErrorStep ==
  ASSUME OpenInv, IngestInv, NEW p \in Procs, NEW d, NEW keep, Raises(p, d, keep), DOMAIN d = DbFields,
         proc[p].pc \in {"read", "run"}, Clean(d), Spared(p, d),
         proc[p].marked => At(p, "clear") \/ (d.marker = p /\ d.lease = p /\ ("records" \notin proc[p].built => d.bulk \in {0, 2}))
  PROVE  IngestInv'
<1> DEFINE e == Left(p, d)
           s == [proc[p] EXCEPT !.todo = <<>>, !.keep = keep]
           r == CASE s.job # "ingest" /\ s.made = {} -> Gone(s)
                  [] s.job # "ingest" /\ s.made # {} -> [s EXCEPT !.pc = "clean"]
                  [] s.job = "ingest" /\ s.marked /\ ~At(p, "clear") -> [s EXCEPT !.pc = "undo"]
                  [] OTHER -> [s EXCEPT !.pc = "open", !.job = "open", !.marked = FALSE]
<1>v. DOMAIN proc[p] = ProcFields /\ None \notin Procs
  BY ViewFacts DEF SoundFor, Shapes
<1>1. db' = e /\ Ended(p) /\ proc' = [proc EXCEPT ![p] = r] /\ deployment' = deployment
  BY DEF Raises, Goes
<1>2. /\ e.marker = d.marker /\ e.bulk = d.bulk /\ e.stage = d.stage /\ (deployment # "mongo" => e.lease = d.lease)
  BY DEF Left, DbFields
<1>3. Clean(e) /\ Spared(p, e)
  <2>1. Clean(e)
    BY <1>2 DEF Clean
  <2> HIDE DEF e
  <2>2. CASE deployment = "mongo"
    <3>1. deployment # "clickhouse"
      BY <2>2
    <3> QED BY <2>1, <3>1, SparedBy
  <2>3. CASE deployment # "mongo"
    <3>1. e.marker = d.marker /\ e.bulk = d.bulk /\ e.stage = d.stage /\ e.lease = d.lease
      BY <1>2, <2>3
    <3> QED BY <2>1, <3>1 DEF Spared
  <2> QED BY <2>1, <2>2, <2>3
<1>4. lock' # None => Clean(tx')
  BY <1>1, <1>v DEF Ended, IngestInv
<1>5. DOMAIN s = ProcFields /\ s.pc = proc[p].pc /\ s.job = proc[p].job /\ s.marked = proc[p].marked /\ s.built = proc[p].built
  BY <1>v DEF ProcFields
<1>6. s.job # "ingest" /\ s.made = {} => r = Gone(s)
  OBVIOUS
<1>7. s.job # "ingest" /\ s.made # {} => r = [s EXCEPT !.pc = "clean"]
  OBVIOUS
<1>8. s.job = "ingest" => (s.marked /\ ~At(p, "clear") /\ r = [s EXCEPT !.pc = "undo"]) \/ r = [s EXCEPT !.pc = "open", !.job = "open", !.marked = FALSE]
  OBVIOUS
<1> HIDE DEF e, s, r
<1>9. MarkingOk(deployment, r, p, e)
  <2>1. CASE s.job # "ingest" /\ s.made = {}
    <3>1. Free(r)
      BY <1>6, <2>1 DEF Gone, Away, Free
    <3> QED BY <3>1, FreeMarks
  <2>2. CASE s.job # "ingest" /\ s.made # {}
    <3>1. ~proc[p].marked
      BY <1>5, <2>2, MarkedFacts
    <3>2. r.pc = "clean" /\ r.marked = s.marked
      BY <1>5, <1>7, <2>2 DEF ProcFields
    <3>3. Free(r)
      BY <1>5, <3>1, <3>2 DEF Free
    <3> QED BY <3>3, FreeMarks
  <2>3. CASE r = [s EXCEPT !.pc = "open", !.job = "open", !.marked = FALSE]
    <3>1. Free(r)
      BY <1>5, <2>3 DEF Free, ProcFields
    <3> QED BY <3>1, FreeMarks
  <2>4. CASE s.job = "ingest" /\ s.marked /\ ~At(p, "clear") /\ r = [s EXCEPT !.pc = "undo"]
    <3>1. r.pc = "undo" /\ r.marked = s.marked /\ r.job = "ingest" /\ r.built = proc[p].built
      BY <1>5, <2>4 DEF ProcFields
    <3>2. proc[p].marked /\ d.marker = p /\ d.lease = p /\ ("records" \notin proc[p].built => d.bulk \in {0, 2})
      BY <1>5, <2>4
    <3>3. deployment = "clickhouse"
      BY <3>2, MarkedFacts
    <3>4. e.marker = p /\ e.lease = p /\ ("records" \notin r.built => e.bulk \in {0, 2})
      BY <1>2, <3>1, <3>2, <3>3
    <3> QED BY <1>5, <3>1, <3>2, <3>3, <3>4 DEF MarkingOk
  <2> QED BY <1>8, <2>1, <2>2, <2>3, <2>4
<1> QED BY <1>1, <1>3, <1>4, <1>9, MarkStep

LEMMA RefusalStep ==
  ASSUME OpenInv, IngestInv, NEW p \in Procs, NEW d, NEW keep, Raises(p, d, keep), DOMAIN d = DbFields, proc[p].pc \in {"read", "run"}, Alike(db, d)
  PROVE  IngestInv'
<1>1. Clean(d)
  BY DEF IngestInv, Clean, Alike
<1>2. Spared(p, d)
  BY SparedBy
<1>3. proc[p].marked => d.marker = p /\ d.lease = p /\ ("records" \notin proc[p].built => d.bulk \in {0, 2})
  BY MarkedFacts DEF Alike
<1> QED BY <1>1, <1>2, <1>3, ErrorStep

\* The steps of openings are none of an ingest.
LEMMA FreeThen ==
  ASSUME OpenInv, IngestInv, NEW p \in Procs, NEW h, At(p, h), h \notin IngestSteps \/ proc[p].job # "ingest"
  PROVE  /\ ~proc[p].marked /\ proc[p].job # "ingest" /\ proc[p].pc = "run" /\ DOMAIN db = DbFields /\ DOMAIN View(p) = DbFields
         /\ Then(p).marked = proc[p].marked /\ Then(p).pc = "run" /\ Then(p).job = proc[p].job /\ DOMAIN Then(p) = ProcFields
         /\ DOMAIN proc[p] = ProcFields /\ Free(Then(p))
<1>1. proc[p].job # "ingest" /\ proc[p].pc = "run"
  <2>1. h \in StepsOf(proc[p].todo) /\ (proc[p].job = "ingest" => IngestOk(deployment, proc[p], View(p), StepsOf(proc[p].todo))) /\ proc[p].pc = "run"
    BY Taken
  <2> QED BY <2>1 DEF IngestOk
<1>2. ~proc[p].marked
  BY <1>1, MarkedFacts
<1>3. /\ Then(p).pc = "run" /\ Then(p).job = proc[p].job /\ DOMAIN Then(p) = ProcFields /\ DOMAIN proc[p] = ProcFields
  BY ThenFields
<1>4. Then(p).marked = proc[p].marked
  BY <1>3 DEF Then, ProcFields
<1>5. DOMAIN db = DbFields /\ DOMAIN View(p) = DbFields
  BY ViewFacts DEF SoundFor, Shapes
<1> QED BY <1>1, <1>2, <1>3, <1>4, <1>5 DEF Free

LEMMA SmallStep ==
  ASSUME OpenInv, IngestInv, NEW p \in Procs, NEW h, h \notin IngestSteps, At(p, h), NEW d, NEW r, NEW ddl, Writes(p, d, ddl), Goes(p, r),
         Alike(View(p), d) \/ (deployment # "clickhouse" /\ Clean(d)), r.marked = Then(p).marked, r.pc = Then(p).pc, r.job = Then(p).job
  PROVE  IngestInv'
<1>1. Free(r)
  BY FreeThen DEF Free
<1> QED BY <1>1, FreeWrite

\* Only the program changes.
LEMMA SmallMove ==
  ASSUME OpenInv, IngestInv, NEW p \in Procs, NEW r, Goes(p, r), Free(r), UNCHANGED <<deployment, db, tx, lock>>
  PROVE  IngestInv'
<1>1. Alike(db, db') /\ proc' = [proc EXCEPT ![p] = r] /\ (lock' # None => Clean(tx'))
  BY DEF Alike, Goes, IngestInv
<1> QED BY <1>1, FreeStep

LEMMA MetadataMarks ==
  ASSUME OpenInv, IngestInv, NEW p \in Procs, CreateMetadata(p)
  PROVE  IngestInv'
<1> DEFINE d == [View(p) EXCEPT !.tables = @ \cup {"meta"}]
           r == [Then(p) EXCEPT !.made = @ \cup {"meta"}]
<1>1. At(p, "meta") /\ "meta" \notin IngestSteps
  BY DEF CreateMetadata, IngestSteps
<1>2. proc[p].pc = "run" /\ DOMAIN db = DbFields /\ DOMAIN View(p) = DbFields /\ DOMAIN Then(p) = ProcFields /\ Alike(db, db)
  BY <1>1, FreeThen DEF Alike
<1>3. CASE Refused(p)
  <2>1. Raises(p, db, FALSE)
    BY <1>3 DEF Refused
  <2> QED BY <1>2, <2>1, RefusalStep
<1>4. CASE Writes(p, d, TRUE) /\ Goes(p, r)
  <2>1. Alike(View(p), d)
    BY <1>2 DEF Alike, DbFields
  <2>2. r.marked = Then(p).marked /\ r.pc = Then(p).pc /\ r.job = Then(p).job
    BY <1>2 DEF ProcFields
  <2>3. Writes(p, d, TRUE) /\ Goes(p, r)
    BY <1>4
  <2> HIDE DEF d, r
  <2> QED BY <1>1, <2>1, <2>2, <2>3, SmallStep
<1> QED BY <1>3, <1>4 DEF CreateMetadata

LEMMA StampMarks ==
  ASSUME OpenInv, IngestInv, NEW p \in Procs, Stamp(p)
  PROVE  IngestInv'
<1> DEFINE d == [View(p) EXCEPT !.keys = [k \in {Stamps[i] : i \in DOMAIN Stamps} |-> Value(k, proc[p].ver)]]
           r == [Then(p) EXCEPT !.ready = TRUE]
<1>1. At(p, "stamp") /\ "stamp" \notin IngestSteps
  BY DEF Stamp, IngestSteps
<1>2. proc[p].pc = "run" /\ DOMAIN db = DbFields /\ DOMAIN View(p) = DbFields /\ DOMAIN Then(p) = ProcFields /\ Alike(db, db)
  BY <1>1, FreeThen DEF Alike
<1>3. CASE Refused(p)
  <2>1. Raises(p, db, FALSE)
    BY <1>3 DEF Refused
  <2> QED BY <1>2, <2>1, RefusalStep
<1>4. CASE Writes(p, d, FALSE) /\ Goes(p, r)
  <2>1. Alike(View(p), d)
    BY <1>2 DEF Alike, DbFields
  <2>2. r.marked = Then(p).marked /\ r.pc = Then(p).pc /\ r.job = Then(p).job
    BY <1>2 DEF ProcFields
  <2>3. Writes(p, d, FALSE) /\ Goes(p, r)
    BY <1>4
  <2> HIDE DEF d, r
  <2> QED BY <1>1, <2>1, <2>2, <2>3, SmallStep
<1> QED BY <1>4 DEF Stamp

LEMMA FenceMarks ==
  ASSUME OpenInv, IngestInv, NEW p \in Procs, TakeFence(p)
  PROVE  IngestInv'
<1> DEFINE d == [db EXCEPT !.fence = p]
           r == Then(p)
<1>1. At(p, "fence") /\ "fence" \notin IngestSteps
  BY DEF TakeFence, IngestSteps
<1>2. proc[p].pc = "run" /\ DOMAIN db = DbFields /\ DOMAIN View(p) = DbFields /\ DOMAIN Then(p) = ProcFields /\ Alike(db, db)
  BY <1>1, FreeThen DEF Alike
<1>3. CASE Refused(p)
  <2>1. Raises(p, db, FALSE)
    BY <1>3 DEF Refused
  <2> QED BY <1>2, <2>1, RefusalStep
<1>4. CASE Writes(p, d, FALSE) /\ Goes(p, r)
  <2>1. Alike(View(p), d)
    <3>1. View(p) = db
      BY <1>1, FenceStep
    <3> QED BY <1>2, <3>1 DEF Alike, DbFields
  <2>2. r.marked = Then(p).marked /\ r.pc = Then(p).pc /\ r.job = Then(p).job
    BY <1>2 DEF ProcFields
  <2>3. Writes(p, d, FALSE) /\ Goes(p, r)
    BY <1>4
  <2> HIDE DEF d, r
  <2> QED BY <1>1, <2>1, <2>2, <2>3, SmallStep
<1> QED BY <1>3, <1>4 DEF TakeFence

LEMMA UnfenceMarks ==
  ASSUME OpenInv, IngestInv, NEW p \in Procs, ReleaseFence(p)
  PROVE  IngestInv'
<1> DEFINE d == [db EXCEPT !.fence = None]
           r == Then(p)
<1>1. At(p, "unfence") /\ "unfence" \notin IngestSteps
  BY DEF ReleaseFence, IngestSteps
<1>2. proc[p].pc = "run" /\ DOMAIN db = DbFields /\ DOMAIN View(p) = DbFields /\ DOMAIN Then(p) = ProcFields /\ Alike(db, db)
  BY <1>1, FreeThen DEF Alike
<1>3. CASE Refused(p)
  <2>1. Raises(p, db, FALSE)
    BY <1>3 DEF Refused
  <2> QED BY <1>2, <2>1, RefusalStep
<1>4. CASE Writes(p, d, FALSE) /\ Goes(p, r)
  <2>1. Alike(View(p), d)
    <3>1. View(p) = db
      BY <1>1, UnfenceStep
    <3> QED BY <1>2, <3>1 DEF Alike, DbFields
  <2>2. r.marked = Then(p).marked /\ r.pc = Then(p).pc /\ r.job = Then(p).job
    BY <1>2 DEF ProcFields
  <2>3. Writes(p, d, FALSE) /\ Goes(p, r)
    BY <1>4
  <2> HIDE DEF d, r
  <2> QED BY <1>1, <2>1, <2>2, <2>3, SmallStep
<1> QED BY <1>4 DEF ReleaseFence

LEMMA TablesMarks ==
  ASSUME OpenInv, IngestInv, NEW p \in Procs, AddTables(p)
  PROVE  IngestInv'
<1> DEFINE d == WithTables(View(p), proc[p].ver)
           r == [Then(p) EXCEPT !.seen = Columns(proc[p].ver, DOMAIN Schema[proc[p].ver]) \cap WithTables(View(p), proc[p].ver).columns]
<1>1. At(p, "tables") /\ "tables" \notin IngestSteps
  BY DEF AddTables, IngestSteps
<1>2. proc[p].pc = "run" /\ DOMAIN db = DbFields /\ DOMAIN View(p) = DbFields /\ DOMAIN Then(p) = ProcFields /\ Alike(db, db)
  BY <1>1, FreeThen DEF Alike
<1>3. CASE Refused(p)
  <2>1. Raises(p, db, FALSE)
    BY <1>3 DEF Refused
  <2> QED BY <1>2, <2>1, RefusalStep
<1>4. CASE Writes(p, d, TRUE) /\ Goes(p, r)
  <2>1. Alike(View(p), d)
    BY <1>2 DEF Alike, DbFields, WithTables
  <2>2. r.marked = Then(p).marked /\ r.pc = Then(p).pc /\ r.job = Then(p).job
    BY <1>2 DEF ProcFields
  <2>3. Writes(p, d, TRUE) /\ Goes(p, r)
    BY <1>4
  <2> HIDE DEF d, r
  <2> QED BY <1>1, <2>1, <2>2, <2>3, SmallStep
<1> QED BY <1>4 DEF AddTables

LEMMA ColumnMarks ==
  ASSUME OpenInv, IngestInv, NEW p \in Procs, AddColumn(p)
  PROVE  IngestInv'
<1> DEFINE d == [View(p) EXCEPT !.columns = @ \cup (Columns(proc[p].ver, DOMAIN Schema[proc[p].ver]) \ proc[p].seen)]
           r == Then(p)
<1>1. At(p, "column") /\ "column" \notin IngestSteps
  BY DEF AddColumn, IngestSteps
<1>2. proc[p].pc = "run" /\ DOMAIN db = DbFields /\ DOMAIN View(p) = DbFields /\ DOMAIN Then(p) = ProcFields /\ Alike(db, db)
  BY <1>1, FreeThen DEF Alike
<1>3. CASE Refused(p)
  <2>1. Raises(p, db, FALSE)
    BY <1>3 DEF Refused
  <2> QED BY <1>2, <2>1, RefusalStep
<1>4. CASE Writes(p, d, TRUE) /\ Goes(p, r)
  <2>1. Alike(View(p), d)
    BY <1>2 DEF Alike, DbFields
  <2>2. r.marked = Then(p).marked /\ r.pc = Then(p).pc /\ r.job = Then(p).job
    BY <1>2 DEF ProcFields
  <2>3. Writes(p, d, TRUE) /\ Goes(p, r)
    BY <1>4
  <2> HIDE DEF d, r
  <2> QED BY <1>1, <2>1, <2>2, <2>3, SmallStep
<1> QED BY <1>3, <1>4 DEF AddColumn

LEMMA RestampMarks ==
  ASSUME OpenInv, IngestInv, NEW p \in Procs, Restamp(p)
  PROVE  IngestInv'
<1> DEFINE d == Stamped(View(p), "schemas", proc[p].ver)
           r == Then(p)
<1>1. At(p, "restamp") /\ "restamp" \notin IngestSteps
  BY DEF Restamp, IngestSteps
<1>2. proc[p].pc = "run" /\ DOMAIN db = DbFields /\ DOMAIN View(p) = DbFields /\ DOMAIN Then(p) = ProcFields /\ Alike(db, db)
  BY <1>1, FreeThen DEF Alike
<1>3. CASE Refused(p)
  <2>1. Raises(p, db, FALSE)
    BY <1>3 DEF Refused
  <2> QED BY <1>2, <2>1, RefusalStep
<1>4. CASE Writes(p, d, FALSE) /\ Goes(p, r)
  <2>1. Alike(View(p), d)
    BY <1>2 DEF Alike, DbFields, Stamped
  <2>2. r.marked = Then(p).marked /\ r.pc = Then(p).pc /\ r.job = Then(p).job
    BY <1>2 DEF ProcFields
  <2>3. Writes(p, d, FALSE) /\ Goes(p, r)
    BY <1>4
  <2> HIDE DEF d, r
  <2> QED BY <1>1, <2>1, <2>2, <2>3, SmallStep
<1> QED BY <1>4 DEF Restamp

LEMMA KeyMarks ==
  ASSUME OpenInv, IngestInv, NEW p \in Procs, StampKey(p)
  PROVE  IngestInv'
<1>1. PICK k \in Required \cup {"profile"} :
        /\ At(p, k)
        /\ \/ Raises(p, db, FALSE)
           \/ Writes(p, Stamped(View(p), k, Value(k, proc[p].ver)), FALSE) /\ Goes(p, [Then(p) EXCEPT !.ready = @ \/ k = "ownership"])
  BY DEF StampKey, Refused
<1>2. k \notin IngestSteps
  BY DEF Required, IngestSteps
<1>3. proc[p].pc = "run" /\ DOMAIN db = DbFields /\ DOMAIN View(p) = DbFields /\ DOMAIN Then(p) = ProcFields /\ Alike(db, db)
  BY <1>1, <1>2, FreeThen DEF Alike
<1>4. CASE Raises(p, db, FALSE)
  BY <1>3, <1>4, RefusalStep
<1> DEFINE d == Stamped(View(p), k, Value(k, proc[p].ver))
           r == [Then(p) EXCEPT !.ready = @ \/ k = "ownership"]
<1>5. CASE Writes(p, d, FALSE) /\ Goes(p, r)
  <2>1. Alike(View(p), d)
    BY <1>3 DEF Alike, DbFields, Stamped
  <2>2. r.marked = Then(p).marked /\ r.pc = Then(p).pc /\ r.job = Then(p).job
    BY <1>3 DEF ProcFields
  <2>3. Writes(p, d, FALSE) /\ Goes(p, r)
    BY <1>5
  <2> HIDE DEF d, r
  <2> QED BY <1>1, <1>2, <2>1, <2>2, <2>3, SmallStep
<1> QED BY <1>1, <1>4, <1>5

LEMMA LayoutMarks ==
  ASSUME OpenInv, IngestInv, NEW p \in Procs, InsertLayout(p)
  PROVE  IngestInv'
<1> DEFINE d == [db EXCEPT !.tables = @ \cup {"meta"}, !.keys = [k \in Required \ {"ownership"} |-> Value(k, proc[p].ver)]]
           r == [proc[p] EXCEPT !.pc = "read", !.todo = <<>>]
<1>1. At(p, "layout") /\ "layout" \notin IngestSteps
  BY DEF InsertLayout, IngestSteps
<1>2. ~proc[p].marked /\ DOMAIN db = DbFields /\ DOMAIN proc[p] = ProcFields
  BY <1>1, FreeThen
<1>3. CASE Goes(p, r) /\ UNCHANGED <<deployment, db, tx, lock>>
  <2>1. Free(r)
    BY <1>2 DEF Free, ProcFields
  <2> QED BY <1>3, <2>1, SmallMove
<1>4. CASE Writes(p, d, TRUE) /\ Goes(p, Then(p))
  <2>1. Writes(p, d, TRUE) /\ Goes(p, Then(p))
    BY <1>4
  <2>2. deployment = "mongo"
    <3>1. /\ "layout" \in StepsOf(proc[p].todo)
          /\ proc[p].job = "first" => FirstOk(deployment, proc[p], View(p), StepsOf(proc[p].todo))
          /\ proc[p].job = "open" => OpenOk(deployment, proc[p], View(p), StepsOf(proc[p].todo))
          /\ proc[p].job = "ingest" => IngestOk(deployment, proc[p], View(p), StepsOf(proc[p].todo))
          /\ proc[p].job \in {"first", "open", "ingest"}
      BY <1>1, Taken
    <3>2. proc[p].job # "open"
      BY <3>1 DEF OpenOk, Upgrades
    <3>3. proc[p].job # "ingest"
      BY <3>1 DEF IngestOk, IngestSteps
    <3> QED BY <3>1, <3>2, <3>3 DEF FirstOk, Coming, Begun, Marks
  <2>3. Clean(d)
    <3>1. d.marker = db.marker /\ d.bulk = db.bulk /\ d.stage = db.stage
      BY <1>2 DEF DbFields
    <3> QED BY <3>1 DEF IngestInv, Clean
  <2>4. Alike(View(p), d) \/ (deployment # "clickhouse" /\ Clean(d))
    BY <2>2, <2>3
  <2> HIDE DEF d
  <2> QED BY <1>1, <2>1, <2>4, SmallStep
<1> QED BY <1>3, <1>4 DEF InsertLayout

LEMMA OwnersMarks ==
  ASSUME OpenInv, IngestInv, NEW p \in Procs, CreateOwners(p)
  PROVE  IngestInv'
<1> DEFINE d == [View(p) EXCEPT !.tables = @ \cup {"owners"}]
           r == [Then(p) EXCEPT !.made = IF proc[p].job = "first" /\ deployment # "mongo" THEN @ \cup {"owners"} ELSE @]
<1>1. At(p, "owners") /\ "owners" \notin IngestSteps
  BY DEF CreateOwners, IngestSteps
<1>2. proc[p].pc = "run" /\ DOMAIN db = DbFields /\ DOMAIN View(p) = DbFields /\ DOMAIN Then(p) = ProcFields /\ Alike(db, db) /\ Free(Then(p))
  BY <1>1, FreeThen DEF Alike
<1>3. CASE Refused(p)
  <2>1. Raises(p, db, FALSE)
    BY <1>3 DEF Refused
  <2> QED BY <1>2, <2>1, RefusalStep
<1>4. CASE Goes(p, Then(p)) /\ UNCHANGED <<deployment, db, tx, lock>>
  BY <1>2, <1>4, SmallMove
<1>5. CASE Writes(p, d, TRUE) /\ Goes(p, r)
  <2>1. Alike(View(p), d)
    BY <1>2 DEF Alike, DbFields
  <2>2. r.marked = Then(p).marked /\ r.pc = Then(p).pc /\ r.job = Then(p).job
    BY <1>2 DEF ProcFields
  <2>3. Writes(p, d, TRUE) /\ Goes(p, r)
    BY <1>5
  <2> HIDE DEF d, r
  <2> QED BY <1>1, <2>1, <2>2, <2>3, SmallStep
<1> QED BY <1>3, <1>4, <1>5 DEF CreateOwners

LEMMA UnleaseMarks ==
  ASSUME OpenInv, IngestInv, NEW p \in Procs, ReleaseLease(p)
  PROVE  IngestInv'
<1> DEFINE d == [db EXCEPT !.lease = None]
<1>1. At(p, "unlease") /\ "unlease" \notin IngestSteps /\ Writes(p, d, FALSE) /\ Goes(p, Then(p))
  BY DEF ReleaseLease, IngestSteps
<1>2. deployment # "clickhouse" /\ DOMAIN db = DbFields
  <2>1. /\ "unlease" \in StepsOf(proc[p].todo)
        /\ proc[p].job = "first" => FirstOk(deployment, proc[p], View(p), StepsOf(proc[p].todo))
        /\ proc[p].job = "open" => OpenOk(deployment, proc[p], View(p), StepsOf(proc[p].todo))
        /\ proc[p].job = "ingest" => IngestOk(deployment, proc[p], View(p), StepsOf(proc[p].todo))
        /\ proc[p].job \in {"first", "open", "ingest"}
    BY <1>1, Taken
  <2>2. proc[p].job # "first"
    BY <2>1 DEF FirstOk, LayoutOk, Coming, Begun, Marks
  <2>3. proc[p].job # "ingest"
    BY <2>1 DEF IngestOk, IngestSteps
  <2>4. deployment # "clickhouse"
    BY <2>1, <2>2, <2>3 DEF OpenOk, Upgrades
  <2> QED BY <1>1, <2>4, FreeThen
<1>3. Clean(d)
  <2>1. d.marker = db.marker /\ d.bulk = db.bulk /\ d.stage = db.stage
    BY <1>2 DEF DbFields
  <2> QED BY <2>1 DEF IngestInv, Clean
<1> HIDE DEF d
<1> QED BY <1>1, <1>2, <1>3, SmallStep

LEMMA ClaimMarks ==
  ASSUME OpenInv, IngestInv, NEW p \in Procs, ClaimRows(p)
  PROVE  IngestInv'
<1>1. At(p, "claims") /\ "claims" \notin IngestSteps
  BY DEF ClaimRows, IngestSteps
<1>2. /\ proc[p].pc = "run" /\ DOMAIN db = DbFields /\ DOMAIN View(p) = DbFields /\ DOMAIN Then(p) = ProcFields /\ DOMAIN proc[p] = ProcFields
      /\ Alike(db, db) /\ Free(Then(p)) /\ ~proc[p].marked /\ proc[p].job # "ingest"
  BY <1>1, FreeThen DEF Alike
<1>3. CASE Refused(p)
  <2>1. Raises(p, db, FALSE)
    BY <1>3 DEF Refused
  <2> QED BY <1>2, <2>1, RefusalStep
<1>4. ASSUME NEW cs, Writes(p, [View(p) EXCEPT !.claims = cs], FALSE), Goes(p, Then(p)) \/ proc' = proc PROVE IngestInv'
  <2> DEFINE d == [View(p) EXCEPT !.claims = cs]
  <2>1. Alike(View(p), d)
    BY <1>2 DEF Alike, DbFields
  <2>2. PICK r \in {Then(p), proc[p]} : Goes(p, r)
    <3>1. proc' = proc => Goes(p, proc[p])
      BY DEF Goes, OpenInv, Shapes
    <3> QED BY <1>4, <3>1
  <2>3. Free(r)
    BY <1>2, <2>2 DEF Free
  <2>4. Writes(p, d, FALSE)
    BY <1>4
  <2> HIDE DEF d
  <2> QED BY <2>1, <2>2, <2>3, <2>4, FreeWrite
<1> QED BY <1>3, <1>4 DEF ClaimRows

LEMMA RecheckMarks ==
  ASSUME OpenInv, IngestInv, NEW p \in Procs, Recheck(p)
  PROVE  IngestInv'
<1> DEFINE r == [proc[p] EXCEPT !.pc = "read", !.todo = <<>>]
<1>1. At(p, "recheck") /\ "recheck" \notin IngestSteps /\ (Goes(p, r) \/ Goes(p, Then(p))) /\ UNCHANGED <<deployment, db, tx, lock>>
  BY DEF Recheck, IngestSteps
<1>2. Free(r) /\ Free(Then(p))
  BY <1>1, FreeThen DEF Free, ProcFields
<1> HIDE DEF r
<1> QED BY <1>1, <1>2, SmallMove

LEMMA LookMarks ==
  ASSUME OpenInv, IngestInv, NEW p \in Procs, Look(p)
  PROVE  IngestInv'
<1>1. PICK ver, upgrade : LET r == [Away EXCEPT !.opens = proc[p].opens + 1, !.ver = ver, !.upgrade = upgrade]
                          IN  Goes(p, IF "meta" \in db.tables THEN [r EXCEPT !.pc = "read"]
                                      ELSE IF db.tables = {} THEN [r EXCEPT !.pc = "run", !.todo = Bootstrap, !.job = "first"]
                                      ELSE Gone(r))
  BY DEF Look
<1> DEFINE r == [Away EXCEPT !.opens = proc[p].opens + 1, !.ver = ver, !.upgrade = upgrade]
           s == IF "meta" \in db.tables THEN [r EXCEPT !.pc = "read"]
                ELSE IF db.tables = {} THEN [r EXCEPT !.pc = "run", !.todo = Bootstrap, !.job = "first"] ELSE Gone(r)
<1>2. Goes(p, s) /\ UNCHANGED <<deployment, db, tx, lock>>
  BY <1>1 DEF Look
<1>3. Free(s)
  <2>1. ~r.marked /\ DOMAIN r = ProcFields
    BY DEF Away, ProcFields
  <2>2. ~Gone(r).marked /\ Gone(r).pc = "out"
    BY DEF Gone, Away
  <2> HIDE DEF r
  <2> QED BY <2>1, <2>2 DEF Free, ProcFields
<1> HIDE DEF s
<1> QED BY <1>2, <1>3, SmallMove

LEMMA ReadMarks ==
  ASSUME OpenInv, IngestInv, NEW p \in Procs, Read(p)
  PROVE  IngestInv'
<1> DEFINE todo == (IF Pending(db) /\ proc[p].upgrade THEN Ownership ELSE <<>>) \o (IF db.keys["schemas"] # proc[p].ver THEN Additive ELSE <<>>)
           r == [proc[p] EXCEPT !.pc = "run", !.job = "open", !.upgrade = FALSE, !.ready = ~Pending(db), !.todo = todo]
<1>1. proc[p].pc = "read" /\ (Raises(p, db, FALSE) \/ (Goes(p, r) /\ db' = Left(p, db) /\ UNCHANGED <<deployment, tx, lock>>))
  BY DEF Read, Refused
<1>2. DOMAIN db = DbFields /\ Alike(db, db) /\ DOMAIN proc[p] = ProcFields
  BY ViewFacts DEF SoundFor, Shapes, Alike
<1>3. CASE Raises(p, db, FALSE)
  BY <1>1, <1>2, <1>3, RefusalStep
<1>4. CASE Goes(p, r) /\ db' = Left(p, db) /\ UNCHANGED <<deployment, tx, lock>>
  <2>1. ~proc[p].marked
    BY <1>1, MarkedFacts
  <2>2. Free(r)
    BY <1>2, <2>1 DEF Free, ProcFields
  <2>3. db'.marker = db.marker /\ db'.bulk = db.bulk /\ db'.stage = db.stage /\ (deployment # "mongo" => db'.lease = db.lease)
    BY <1>2, <1>4 DEF Left, DbFields
  <2>4. Clean(db') /\ (lock' # None => Clean(tx'))
    BY <1>4, <2>3 DEF Clean, IngestInv
  <2>5. Alike(db, db') \/ (deployment # "clickhouse" /\ Clean(db'))
    BY <2>3, <2>4 DEF Alike
  <2> HIDE DEF r
  <2>6. proc' = [proc EXCEPT ![p] = r] /\ deployment' = deployment
    BY <1>4 DEF Goes
  <2> QED BY <2>2, <2>4, <2>5, <2>6, FreeStep
<1> QED BY <1>1, <1>3, <1>4

LEMMA OpenedMarks ==
  ASSUME OpenInv, IngestInv, NEW p \in Procs, Opened(p)
  PROVE  IngestInv'
<1> DEFINE r == [proc[p] EXCEPT !.pc = "open", !.job = "open", !.upgrade = FALSE, !.made = {}, !.seen = {}, !.marked = FALSE]
<1>1. Ended(p) /\ deployment' = deployment /\ proc' = [proc EXCEPT ![p] = r] /\ db' = View(p)
  BY DEF Opened, Goes, View
<1>2. DOMAIN proc[p] = ProcFields /\ None \notin Procs /\ (lock # p => View(p) = db) /\ (lock = p => View(p) = tx)
      /\ (~Transactional(deployment) => lock = None)
  BY ViewFacts DEF SoundFor, Shapes
<1>3. Free(r)
  BY <1>2 DEF Free, ProcFields
<1>4. lock' # None => Clean(tx')
  BY <1>1, <1>2 DEF Ended, IngestInv
<1>5. Alike(db, db') \/ (deployment # "clickhouse" /\ Clean(db'))
  BY <1>1, <1>2 DEF Alike, Transactional, IngestInv
<1> HIDE DEF r
<1> QED BY <1>1, <1>3, <1>4, <1>5, FreeStep

LEMMA ErrorMarks ==
  ASSUME OpenInv, IngestInv, NEW p \in Procs, Busy(p) \/ Fault(p)
  PROVE  IngestInv'
<1>1. Raises(p, db, FALSE) /\ proc[p].pc \in {"read", "run"}
  BY DEF Busy, Fault, Fails, Refused
<1>2. DOMAIN db = DbFields /\ Alike(db, db)
  BY ViewFacts DEF SoundFor, Shapes, Alike
<1> QED BY <1>1, <1>2, RefusalStep

LEMMA DropMarks ==
  ASSUME OpenInv, IngestInv, NEW p \in Procs, DropMade(p)
  PROVE  IngestInv'
<1> DEFINE t == IF "owners" \in proc[p].made THEN "owners" ELSE "meta"
           s == [proc[p] EXCEPT !.made = @ \ {t}]
           r == IF s.made = {} THEN Gone(s) ELSE s
<1>1. /\ proc[p].pc = "clean" /\ db' = Dropped(db, t) /\ proc' = [proc EXCEPT ![p] = r] /\ UNCHANGED <<deployment, tx, lock>>
  BY DEF DropMade, Goes
<1>2. DOMAIN db = DbFields /\ DOMAIN proc[p] = ProcFields
  BY ViewFacts DEF SoundFor, Shapes
<1>3. db.marker = None
  <2>1. /\ ProcOk(deployment, proc[p], View(p)) /\ MakerOk(deployment, proc[p], View(p)) /\ MakingOk(p) /\ None \notin Procs
        /\ DbSound(deployment, db)
    BY ViewFacts DEF SoundFor
  <2>2. lock = None /\ lock # p /\ View(p) = db
    BY <2>1 DEF DropMade, View
  <2>3. proc[p].made # {}
    BY <1>1, <2>1 DEF ProcOk
  <2>4. ~Settled(deployment, db)
    <3>1. CASE HasProfile(deployment)
      BY <1>1, <2>1, <2>2, <2>3, <3>1 DEF MakerOk, Settled
    <3>2. CASE ~HasProfile(deployment)
      <4>1. DOMAIN db.keys = {}
        BY <2>1, <2>2, <2>3, <3>2 DEF MakingOk
      <4> QED BY <4>1 DEF Settled, Required
    <3> QED BY <3>1, <3>2
  <2> QED BY <2>1, <2>4 DEF DbSound
<1>4. Spared(p, db')
  <2> SUFFICES ASSUME NEW q \in Procs, q # p, proc[q].marked PROVE FALSE
    BY DEF Spared
  <2> QED BY <1>3, MarkedFacts
<1>5. ~proc[p].marked
  BY <1>1, MarkedFacts
<1>6. Free(r)
  <2>1. Free(s)
    BY <1>1, <1>2, <1>5 DEF Free, ProcFields
  <2>2. Free(Gone(s))
    BY DEF Gone, Away, Free
  <2> QED BY <2>1, <2>2
<1>7. Clean(db')
  <2>1. db'.bulk = db.bulk /\ db'.stage = db.stage
    BY <1>1, <1>2 DEF Dropped, DbFields
  <2> QED BY <1>3, <2>1 DEF IngestInv, Clean
<1>8. lock' # None => Clean(tx')
  BY <1>1 DEF IngestInv
<1>9. MarkingOk(deployment, r, p, db')
  BY <1>6, FreeMarks
<1> HIDE DEF r
<1> QED BY <1>1, <1>4, <1>7, <1>8, <1>9, MarkStep

LEMMA SaveMarks ==
  ASSUME OpenInv, IngestInv, NEW p \in Procs, Save(p)
  PROVE  IngestInv'
<1> DEFINE r == [proc[p] EXCEPT !.held = (deployment = "degraded")]
           e == WithTables(db, proc[p].ver)
<1>1. /\ proc[p].pc = "open" /\ deployment # "clickhouse" /\ lock = None /\ proc' = [proc EXCEPT ![p] = r] /\ UNCHANGED <<deployment, tx, lock>>
  BY DEF Save, Goes
<1>2. PICK id \in Ids :
        db' = [WithTables(db, proc[p].ver) EXCEPT !.rows = @ \cup {<<Cardinality(db.rows) + 1, id>>}, !.claims = @ \cup {<<Cardinality(db.rows) + 1, id>>},
                           !.lease = IF deployment = "degraded" THEN p ELSE @]
  BY ZenonT(30) DEF Save
<1>3. DOMAIN db = DbFields /\ DOMAIN proc[p] = ProcFields
  BY ViewFacts DEF SoundFor, Shapes
<1>4. DOMAIN e = DbFields /\ e.marker = db.marker /\ e.bulk = db.bulk /\ e.stage = db.stage
  BY <1>3 DEF WithTables, DbFields
<1> HIDE DEF e
<1>5. Clean(db')
  <2>1. db'.marker = e.marker /\ db'.bulk = e.bulk /\ db'.stage = e.stage
    BY <1>2, <1>4 DEF DbFields, e
  <2> QED BY <1>4, <2>1 DEF Clean, IngestInv
<1>6. ~proc[p].marked
  BY <1>1, MarkedFacts
<1>7. Free(r)
  BY <1>1, <1>3, <1>6 DEF Free, ProcFields
<1> HIDE DEF r
<1> QED BY <1>1, <1>5, <1>7, FreeStep

LEMMA CloseMarks ==
  ASSUME OpenInv, IngestInv, NEW p \in Procs, Close(p)
  PROVE  IngestInv'
<1> DEFINE r == Gone(proc[p])
<1>1. /\ proc[p].pc \in {"open", "out"} /\ db' = [db EXCEPT !.lease = IF @ = p THEN None ELSE @] /\ proc' = [proc EXCEPT ![p] = r]
      /\ UNCHANGED <<deployment, tx, lock>>
  BY DEF Close, Goes
<1>2. DOMAIN db = DbFields
  BY ViewFacts DEF SoundFor, Shapes
<1>3. /\ db'.marker = db.marker /\ db'.bulk = db.bulk /\ db'.stage = db.stage /\ (db.lease # p => db'.lease = db.lease)
  BY <1>1, <1>2 DEF DbFields
<1>4. Clean(db') /\ (lock' # None => Clean(tx'))
  BY <1>1, <1>3 DEF Clean, IngestInv
<1>5. Spared(p, db')
  <2> SUFFICES ASSUME NEW q \in Procs, q # p, proc[q].marked
               PROVE  db'.marker = q /\ db'.lease = q /\ db'.bulk = db.bulk /\ db'.stage.made = db.stage.made
    BY DEF Spared
  <2>1. db.marker = q /\ db.lease = q
    BY MarkedFacts
  <2> QED BY <1>3, <2>1
<1>6. Free(r)
  BY DEF Gone, Away, Free
<1>7. MarkingOk(deployment, r, p, db')
  BY <1>6, FreeMarks
<1> HIDE DEF r
<1> QED BY <1>1, <1>4, <1>5, <1>7, MarkStep

LEMMA DeathMarks ==
  ASSUME OpenInv, IngestInv, NEW p \in Procs, Die(p)
  PROVE  IngestInv'
<1> DEFINE r == [Away EXCEPT !.pc = "dead"]
<1>1. Ended(p) /\ db' = db /\ deployment' = deployment /\ proc' = [proc EXCEPT ![p] = r] /\ None \notin Procs
  BY OpeningAssumption DEF Die, Goes
<1>2. Free(r)
  BY DEF Away, Free
<1>3. Alike(db, db') /\ (lock' # None => Clean(tx'))
  BY <1>1 DEF Alike, Ended, IngestInv
<1> HIDE DEF r
<1> QED BY <1>1, <1>2, <1>3, FreeStep

LEMMA RecoveryMarks ==
  ASSUME OpenInv, IngestInv, Recover \/ LateLands \/ UNCHANGED openingVars
  PROVE  IngestInv'
<1>1. UNCHANGED <<deployment, tx, lock, proc>> /\ DOMAIN db = DbFields
  BY DEF Recover, LateLands, openingVars, OpenInv, Shapes
<1>2. db'.marker = db.marker /\ db'.bulk = db.bulk /\ db'.stage.made = db.stage.made /\ "made" \in DOMAIN db'.stage
  <2>1. CASE Recover
    BY <1>1, <2>1 DEF Recover, DbFields, IngestInv, Clean
  <2>2. CASE LateLands
    <3> DEFINE d == [db EXCEPT !.stage.rows = @ + db.stage.late, !.stage.late = 0]
    <3>1. db' = d
      BY <2>2 DEF LateLands
    <3>2. d.marker = db.marker /\ d.bulk = db.bulk /\ d.stage = [db.stage EXCEPT !.rows = @ + db.stage.late, !.late = 0]
      BY <1>1 DEF DbFields
    <3>3. d.stage.made = db.stage.made /\ "made" \in DOMAIN d.stage
      BY <3>2 DEF IngestInv, Clean
    <3> QED BY <3>1, <3>2, <3>3
  <2>3. CASE UNCHANGED openingVars
    BY <2>3 DEF openingVars, IngestInv, Clean
  <2> QED BY <2>1, <2>2, <2>3
<1>3. ASSUME NEW q \in Procs, proc[q].marked PROVE db'.lease = q
  <2>1. db.lease = q /\ q # Nobody /\ proc[q].pc # "dead"
    BY <1>3, MarkedFacts
  <2>2. ~Dead(q)
    BY <2>1 DEF Dead
  <2> QED BY <1>1, <2>1, <2>2 DEF Recover, LateLands, openingVars, DbFields
<1>4. Clean(db') /\ (lock' # None => Clean(tx'))
  BY <1>1, <1>2 DEF Clean, IngestInv
<1>5. ASSUME NEW q \in Procs PROVE MarkingOk(deployment', proc'[q], q, db')
  <2>1. MarkingOk(deployment, proc[q], q, db)
    BY DEF IngestInv
  <2> QED BY <1>1, <1>2, <1>3, <2>1 DEF MarkingOk
<1> QED BY <1>4, <1>5 DEF IngestInv

-----------------------------------------------------------------------------
(* The steps of an ingest.                                                 *)

LEMMA IngestFacts ==
  ASSUME OpenInv, IngestInv, NEW p \in Procs, NEW h, h \in IngestSteps, h # "lease", At(p, h)
  PROVE  LET r == proc[p]
             S == StepsOf(proc[p].todo)
         IN  /\ deployment = "clickhouse" /\ r.job = "ingest" /\ r.pc = "run" /\ lock = None /\ DOMAIN db = DbFields
             /\ Durable(TRUE) /\ Durable(FALSE) /\ None \notin Procs /\ p # None
             /\ h \in S /\ S \subseteq IngestSteps /\ \A s \in S : s = h \/ Rank[h] < Rank[s]
             /\ \A s \in S, t \in {"relations", "verify", "sweep", "clear"} : Rank[s] < Rank[t] => t \in S
             /\ (r.marked <=> "marker" \notin S) /\ (r.marked => db.marker = p /\ db.lease = p)
             /\ (r.marked /\ "verify" \notin S => db.bulk = 2) /\ (r.marked /\ "sweep" \notin S => ~db.stage.made)
             /\ (r.marked /\ "relations" \notin S => "records" \in r.built) /\ (r.marked /\ "records" \notin r.built => db.bulk \in {0, 2})
             /\ Then(p).built = r.built /\ DOMAIN r = ProcFields /\ DOMAIN Then(p) = ProcFields /\ StepsOf(Then(p).todo) = S \ {h}
             /\ Then(p).pc = "run" /\ Then(p).job = "ingest" /\ Then(p).marked = r.marked
             /\ Clean(db) /\ "made" \in DOMAIN db.stage
<1> DEFINE S == StepsOf(proc[p].todo)
<1>1. h \in {"lease", "unlease"} \cup IngestSteps /\ h \notin {"lease", "unlease"}
  BY DEF IngestSteps
<1>2. /\ lock = None /\ Durable(TRUE) /\ Durable(FALSE) /\ proc[p].pc = "run" /\ DOMAIN db = DbFields
      /\ proc[p].job = "ingest" /\ deployment = "clickhouse"
  BY <1>1, LeaseStep
<1>3. /\ h \in S /\ \A s \in S : s = h \/ Rank[h] < Rank[s]
      /\ proc[p].job = "ingest" => IngestOk(deployment, proc[p], View(p), S)
  BY Taken
<1>4. S \subseteq IngestSteps
  BY <1>2, <1>3 DEF IngestOk
<1>5. MarkingOk(deployment, proc[p], p, db) /\ Clean(db)
  BY DEF IngestInv
<1>6. /\ \A s \in S, t \in {"relations", "verify", "sweep", "clear"} : Rank[s] < Rank[t] => t \in S
      /\ proc[p].marked <=> "marker" \notin S /\ S # {}
      /\ proc[p].marked /\ "verify" \notin S => db.bulk = 2
      /\ proc[p].marked /\ "sweep" \notin S => ~db.stage.made
      /\ proc[p].marked => db.marker = p /\ db.lease = p
      /\ proc[p].marked /\ "relations" \notin S => "records" \in proc[p].built
      /\ proc[p].marked /\ "records" \notin proc[p].built => db.bulk \in {0, 2}
  BY <1>2, <1>5 DEF MarkingOk
<1>7. /\ Then(p).pc = "run" /\ Then(p).job = "ingest" /\ DOMAIN Then(p) = ProcFields /\ DOMAIN proc[p] = ProcFields
      /\ StepsOf(Then(p).todo) = S \ {h}
  BY <1>2, ThenFields
<1>8. Then(p).marked = proc[p].marked /\ Then(p).built = proc[p].built
  BY <1>7 DEF Then, ProcFields
<1>9. None \notin Procs /\ p # None /\ "made" \in DOMAIN db.stage
  BY <1>5, OpeningAssumption DEF Clean
<1> QED BY <1>2, <1>3, <1>4, <1>5, <1>6, <1>7, <1>8, <1>9

\* Behind its marker an ingest has still to verify what it has loaded, to sweep the stage, and to clear the marker.
LEMMA RanksAhead ==
  ASSUME NEW S, S \subseteq IngestSteps, NEW h, h \in S, \A s \in S : s = h \/ Rank[h] < Rank[s],
         \A s \in S, t \in {"relations", "verify", "sweep", "clear"} : Rank[s] < Rank[t] => t \in S
  PROVE  /\ h \notin {"lease", "marker"} => "marker" \notin S
         /\ h \in {"lease", "marker", "relations", "reload", "load", "project"} => {"verify", "sweep", "clear"} \subseteq S
         /\ h = "verify" => {"sweep", "clear"} \subseteq S
         /\ h = "sweep" => "clear" \in S /\ "verify" \notin S
         /\ h = "clear" => S = {"clear"}
         /\ h = "marker" => "relations" \in S
         /\ h \notin {"lease", "marker", "relations"} => "relations" \notin S
<1>1. h \notin {"lease", "marker"} => "marker" \notin S
  BY DEF Rank, IngestSteps
<1>2. h \in {"lease", "marker", "relations", "reload", "load", "project"} => {"verify", "sweep", "clear"} \subseteq S
  <2> SUFFICES ASSUME h \in {"lease", "marker", "relations", "reload", "load", "project"} PROVE {"verify", "sweep", "clear"} \subseteq S
    OBVIOUS
  <2>1. Rank[h] < Rank["verify"] /\ Rank[h] < Rank["sweep"] /\ Rank[h] < Rank["clear"]
    BY DEF Rank
  <2> QED BY <2>1
<1>3. h = "verify" => {"sweep", "clear"} \subseteq S
  BY DEF Rank
<1>4. h = "sweep" => "clear" \in S /\ "verify" \notin S
  BY DEF Rank
<1>5. h = "clear" => S = {"clear"}
  <2> SUFFICES ASSUME h = "clear", NEW s \in S PROVE s = "clear"
    OBVIOUS
  <2>1. s \in IngestSteps => ~(Rank["clear"] < Rank[s])
    BY DEF Rank, IngestSteps
  <2> QED BY <2>1
<1>6. h = "marker" => "relations" \in S
  <2>1. Rank["marker"] < Rank["relations"]
    BY DEF Rank
  <2> QED BY <2>1
<1>7. h \notin {"lease", "marker", "relations"} => "relations" \notin S
  BY DEF Rank, IngestSteps
<1> QED BY <1>1, <1>2, <1>3, <1>4, <1>5, <1>6, <1>7

\* A step behind the marker, or the one that writes it.
LEMMA MarkedStep ==
  ASSUME OpenInv, IngestInv, NEW p \in Procs, NEW h, h \in IngestSteps, h \notin {"lease", "clear"}, At(p, h), NEW d, NEW r,
         db' = d, deployment' = deployment, tx' = tx, lock' = lock, proc' = [proc EXCEPT ![p] = r],
         r.pc = "run", r.job = "ingest", r.marked = TRUE,
         \/ StepsOf(r.todo) = StepsOf(proc[p].todo) \ {h}
         \/ h = "load" /\ StepsOf(r.todo) = {"reload"} \cup (StepsOf(proc[p].todo) \ {h}),
         d.marker = p, d.lease = p, "made" \in DOMAIN d.stage, Spared(p, d),
         "verify" \in StepsOf(proc[p].todo) \ {h} \/ d.bulk = 2, "sweep" \in StepsOf(proc[p].todo) \ {h} \/ ~d.stage.made,
         "relations" \in StepsOf(proc[p].todo) \ {h} \/ "records" \in r.built, "records" \in r.built \/ d.bulk \in {0, 2}
  PROVE  IngestInv'
<1> DEFINE S == StepsOf(proc[p].todo)
           T == StepsOf(r.todo)
<1>1. /\ deployment = "clickhouse" /\ h \in S /\ S \subseteq IngestSteps /\ \A s \in S : s = h \/ Rank[h] < Rank[s]
      /\ \A s \in S, t \in {"relations", "verify", "sweep", "clear"} : Rank[s] < Rank[t] => t \in S
      /\ p # None /\ lock = None
  BY IngestFacts
<1>2. /\ h # "marker" => "marker" \notin S
      /\ "clear" \in S /\ (h = "load" => {"verify", "sweep", "clear"} \subseteq S)
  <2>1. /\ h \notin {"lease", "marker"} => "marker" \notin S
        /\ h \in {"lease", "marker", "relations", "reload", "load", "project"} => {"verify", "sweep", "clear"} \subseteq S
        /\ h = "verify" => {"sweep", "clear"} \subseteq S
        /\ h = "sweep" => "clear" \in S
    BY <1>1, RanksAhead
  <2>2. h \in {"lease", "marker", "relations", "reload", "load", "project"} \/ h = "verify" \/ h = "sweep"
    BY DEF IngestSteps
  <2> QED BY <2>1, <2>2
<1>3. \A s \in IngestSteps : Rank[s] \in Nat
  BY RanksAreNumbers DEF IngestSteps, Steps
<1>4. T = S \ {h} \/ (h = "load" /\ T = {"reload"} \cup (S \ {h}))
  OBVIOUS
<1>v. /\ d.marker = p /\ d.lease = p /\ r.pc = "run" /\ r.job = "ingest" /\ r.marked = TRUE
      /\ ("verify" \in S \ {h} \/ d.bulk = 2) /\ ("sweep" \in S \ {h} \/ ~d.stage.made)
      /\ ("relations" \in S \ {h} \/ "records" \in r.built) /\ ("records" \in r.built \/ d.bulk \in {0, 2})
  OBVIOUS
<1> HIDE DEF S, T
<1>5. \A s \in T, t \in {"relations", "verify", "sweep", "clear"} : Rank[s] < Rank[t] => t \in T
  <2> SUFFICES ASSUME NEW s \in T, NEW t \in {"relations", "verify", "sweep", "clear"}, Rank[s] < Rank[t] PROVE t \in T
    OBVIOUS
  <2>1. CASE s \in S \ {h}
    <3>1. t \in S /\ Rank[h] < Rank[s]
      BY <1>1, <2>1
    <3>2. t # h
      BY <1>1, <1>3, <2>1, <3>1
    <3> QED BY <1>4, <3>1, <3>2
  <2>2. CASE s = "reload" /\ h = "load" /\ T = {"reload"} \cup (S \ {h})
    <3>1. t # "relations" /\ t # "load"
      BY <2>2 DEF Rank
    <3>2. t \in S
      BY <1>2, <2>2, <3>1
    <3> QED BY <2>2, <3>1, <3>2
  <2> QED BY <1>4, <2>1, <2>2
<1>6. "marker" \notin T /\ T # {}
  BY <1>2, <1>4
<1>7. ("verify" \notin T => d.bulk = 2) /\ ("sweep" \notin T => ~d.stage.made) /\ ("relations" \notin T => "records" \in r.built)
  BY <1>4, <1>v
<1>8. MarkingOk(deployment, r, p, d)
  BY <1>1, <1>5, <1>6, <1>7, <1>v DEF MarkingOk, T
<1>9. Clean(d) /\ lock' = None
  BY <1>1 DEF Clean
<1> QED BY <1>8, <1>9, MarkStep

LEMMA MarkerMarks ==
  ASSUME OpenInv, IngestInv, NEW p \in Procs, WriteMarker(p)
  PROVE  IngestInv'
<1> DEFINE d == [db EXCEPT !.marker = p]
           r == [Then(p) EXCEPT !.marked = TRUE]
           S == StepsOf(proc[p].todo)
<1>1. At(p, "marker") /\ "marker" \in IngestSteps /\ "marker" # "lease" /\ "marker" \notin {"lease", "clear"}
  BY DEF WriteMarker, IngestSteps
<1>2. /\ DOMAIN db = DbFields /\ lock = None /\ Durable(FALSE) /\ proc[p].pc = "run" /\ DOMAIN Then(p) = ProcFields
      /\ "marker" \in S /\ S \subseteq IngestSteps /\ \A s \in S : s = "marker" \/ Rank["marker"] < Rank[s]
      /\ \A s \in S, t \in {"relations", "verify", "sweep", "clear"} : Rank[s] < Rank[t] => t \in S
      /\ "made" \in DOMAIN db.stage /\ StepsOf(Then(p).todo) = S \ {"marker"} /\ p # None
      /\ Then(p).pc = "run" /\ Then(p).job = "ingest" /\ Clean(db)
  BY <1>1, IngestFacts
<1>3. CASE Refused(p)
  <2>1. Raises(p, db, FALSE) /\ Alike(db, db)
    BY <1>3 DEF Refused, Alike
  <2> QED BY <1>2, <2>1, RefusalStep
<1>4. CASE Holds(p) /\ db.marker = None /\ Writes(p, d, FALSE) /\ Goes(p, r)
  <2>1. deployment' = deployment /\ tx' = tx /\ lock' = lock /\ db' = d /\ proc' = [proc EXCEPT ![p] = r]
    BY <1>2, <1>4 DEF Writes, Goes
  <2>2. d.marker = p /\ d.lease = p /\ d.stage = db.stage /\ d.bulk = db.bulk
    BY <1>2, <1>4 DEF Holds, DbFields
  <2>3. r.pc = "run" /\ r.job = "ingest" /\ r.marked = TRUE /\ StepsOf(r.todo) = S \ {"marker"}
    BY <1>2 DEF ProcFields
  <2>4. Spared(p, d)
    <3> SUFFICES ASSUME NEW q \in Procs, q # p, proc[q].marked PROVE FALSE
      BY DEF Spared
    <3>1. db.lease = q
      BY MarkedFacts
    <3> QED BY <1>4, <3>1 DEF Holds
  <2>5. {"verify", "sweep", "clear"} \subseteq S /\ "relations" \in S
    BY <1>2, RanksAhead
  <2>6. "made" \in DOMAIN d.stage
    BY <1>2, <2>2
  <2>7. "verify" \in S \ {"marker"} /\ "sweep" \in S \ {"marker"} /\ "relations" \in S \ {"marker"}
    BY <2>5
  <2>8. d.bulk \in {0, 2}
    BY <1>2, <1>4, <2>2 DEF Clean
  <2> HIDE DEF d, r
  <2> QED BY <1>1, <2>1, <2>2, <2>3, <2>4, <2>6, <2>7, <2>8, MarkedStep
<1> QED BY <1>3, <1>4 DEF WriteMarker

\* What a step behind the marker has to leave.
LEMMA BehindMarker ==
  ASSUME OpenInv, IngestInv, NEW p \in Procs, NEW h, h \in IngestSteps, h \notin {"lease", "marker"}, At(p, h)
  PROVE  LET S == StepsOf(proc[p].todo)
         IN  /\ proc[p].marked /\ db.marker = p /\ db.lease = p /\ DOMAIN db = DbFields /\ lock = None /\ deployment = "clickhouse"
             /\ Durable(TRUE) /\ Durable(FALSE) /\ proc[p].pc = "run" /\ "made" \in DOMAIN db.stage /\ \A d : Spared(p, d)
             /\ h \in {"relations", "reload", "load", "project"} => {"verify", "sweep", "clear"} \subseteq S \ {h}
             /\ h = "verify" => {"sweep", "clear"} \subseteq S \ {h}
             /\ h = "sweep" => "clear" \in S /\ db.bulk = 2
             /\ h = "clear" => S = {"clear"} /\ db.bulk = 2 /\ ~db.stage.made
             /\ DOMAIN Then(p) = ProcFields /\ StepsOf(Then(p).todo) = S \ {h}
             /\ Then(p).pc = "run" /\ Then(p).job = "ingest" /\ Then(p).marked /\ Then(p).built = proc[p].built
             /\ (h # "relations" => "records" \in proc[p].built) /\ ("records" \notin proc[p].built => db.bulk \in {0, 2})
<1> DEFINE S == StepsOf(proc[p].todo)
<1>1. /\ deployment = "clickhouse" /\ proc[p].pc = "run" /\ lock = None /\ DOMAIN db = DbFields /\ Durable(TRUE) /\ Durable(FALSE)
      /\ h \in S /\ S \subseteq IngestSteps /\ \A s \in S : s = h \/ Rank[h] < Rank[s]
      /\ \A s \in S, t \in {"relations", "verify", "sweep", "clear"} : Rank[s] < Rank[t] => t \in S
      /\ (proc[p].marked <=> "marker" \notin S) /\ (proc[p].marked => db.marker = p /\ db.lease = p)
      /\ (proc[p].marked /\ "verify" \notin S => db.bulk = 2) /\ (proc[p].marked /\ "sweep" \notin S => ~db.stage.made)
      /\ DOMAIN Then(p) = ProcFields /\ StepsOf(Then(p).todo) = S \ {h}
      /\ (proc[p].marked /\ "relations" \notin S => "records" \in proc[p].built)
      /\ (proc[p].marked /\ "records" \notin proc[p].built => db.bulk \in {0, 2}) /\ Then(p).built = proc[p].built
      /\ Then(p).pc = "run" /\ Then(p).job = "ingest" /\ Then(p).marked = proc[p].marked /\ "made" \in DOMAIN db.stage
  BY IngestFacts
<1>2. /\ h \notin {"lease", "marker"} => "marker" \notin S
      /\ h \in {"lease", "marker", "relations", "reload", "load", "project"} => {"verify", "sweep", "clear"} \subseteq S
      /\ h = "verify" => {"sweep", "clear"} \subseteq S
      /\ h = "sweep" => "clear" \in S /\ "verify" \notin S
      /\ h = "clear" => S = {"clear"}
      /\ h \notin {"lease", "marker", "relations"} => "relations" \notin S
  BY <1>1, RanksAhead
<1>3. proc[p].marked
  BY <1>1, <1>2
<1>4. \A d : Spared(p, d)
  BY <1>3, SparedBy
<1> HIDE DEF S
<1>5. h \in {"relations", "reload", "load", "project"} => {"verify", "sweep", "clear"} \subseteq S \ {h}
  BY <1>2
<1>6. /\ h = "verify" => {"sweep", "clear"} \subseteq S \ {h}
      /\ h = "sweep" => "clear" \in S /\ db.bulk = 2
      /\ h = "clear" => S = {"clear"} /\ db.bulk = 2 /\ ~db.stage.made
  BY <1>1, <1>2, <1>3
<1>7. (h # "relations" => "records" \in proc[p].built) /\ ("records" \notin proc[p].built => db.bulk \in {0, 2})
  BY <1>1, <1>2, <1>3
<1> QED BY <1>1, <1>3, <1>4, <1>5, <1>6, <1>7 DEF S

\* A statement behind the marker, while all is still to be verified.
LEMMA LoadingStep ==
  ASSUME OpenInv, IngestInv, NEW p \in Procs, NEW h, h \in {"relations", "reload", "load", "project"}, At(p, h), NEW d, db' = d,
         NEW r \in Onward(p), Goes(p, r), r.marked = Then(p).marked, "records" \in r.built,
         UNCHANGED <<deployment, tx, lock>>, DOMAIN d = DbFields, d.marker = db.marker, d.lease = db.lease,
         "made" \in DOMAIN d.stage
  PROVE  IngestInv'
<1>1. h \in IngestSteps /\ h \notin {"lease", "marker"} /\ h \notin {"lease", "clear"}
  BY DEF IngestSteps
<1>2. /\ db.marker = p /\ db.lease = p /\ Spared(p, d) /\ {"verify", "sweep", "clear"} \subseteq StepsOf(proc[p].todo) \ {h}
      /\ Then(p).job = "ingest" /\ Then(p).marked
  BY <1>1, BehindMarker
<1>3. r.pc = "run" /\ r.job = proc[p].job /\ StepsOf(r.todo) = StepsOf(proc[p].todo) \ {h} /\ Then(p).job = proc[p].job
  BY OnwardFields, ThenFields
<1>4. proc' = [proc EXCEPT ![p] = r] /\ d.marker = p /\ d.lease = p /\ r.job = "ingest"
  BY <1>2, <1>3 DEF Goes
<1>5. "verify" \in StepsOf(proc[p].todo) \ {h} /\ "sweep" \in StepsOf(proc[p].todo) \ {h}
  BY <1>2
<1>6. r.marked = TRUE
  BY <1>2
<1> QED BY <1>1, <1>2, <1>3, <1>4, <1>5, <1>6, MarkedStep

LEMMA RelationsMarks ==
  ASSUME OpenInv, IngestInv, NEW p \in Procs, CreateRelations(p)
  PROVE  IngestInv'
<1> DEFINE d == [db EXCEPT !.tables = @ \cup {"records"}, !.stage = [NoStage EXCEPT !.made = TRUE]]
           r == [Then(p) EXCEPT !.built = {"records"}]
<1>1. /\ At(p, "relations") /\ "relations" \in {"relations", "reload", "load", "project"}
      /\ "relations" \in IngestSteps /\ "relations" \notin {"lease", "marker"}
  BY DEF CreateRelations, IngestSteps
<1>2. DOMAIN db = DbFields /\ lock = None /\ Durable(TRUE) /\ DOMAIN Then(p) = ProcFields /\ proc[p].pc \in {"read", "run"}
  BY <1>1, BehindMarker
<1>3. CASE Refused(p)
  <2>1. Raises(p, db, FALSE) /\ Alike(db, db)
    BY <1>3 DEF Refused, Alike
  <2> QED BY <1>2, <2>1, RefusalStep
<1>4. CASE Writes(p, d, TRUE) /\ Goes(p, r)
  <2>1. DOMAIN d = DbFields /\ d.marker = db.marker /\ d.lease = db.lease /\ "made" \in DOMAIN d.stage
    BY <1>2 DEF DbFields, NoStage
  <2>2. r \in Onward(p) /\ r.marked = Then(p).marked /\ "records" \in r.built
    BY <1>2 DEF Onward, ProcFields
  <2>3. Goes(p, r)
    BY <1>4
  <2>4. db' = d /\ UNCHANGED <<deployment, tx, lock>>
    <3> HIDE DEF d, r
    <3> QED BY <1>2, <1>4, OpeningAssumption DEF Writes
  <2> HIDE DEF d, r
  <2> QED BY <1>1, <2>1, <2>2, <2>3, <2>4, LoadingStep
<1> QED BY <1>3, <1>4 DEF CreateRelations

LEMMA LoadsMarks ==
  ASSUME OpenInv, IngestInv, NEW p, NEW here, NEW later, DOMAIN db = DbFields
  PROVE  LET d == Loads(here, later)
         IN  DOMAIN d = DbFields /\ d.marker = db.marker /\ d.lease = db.lease /\ "made" \in DOMAIN d.stage
<1>1. "made" \in DOMAIN db.stage
  BY DEF IngestInv, Clean
<1>2. Loads(here, later).stage = [db.stage EXCEPT !.rows = @ + here, !.late = @ + later]
  BY DEF Loads, DbFields
<1>3. DOMAIN Loads(here, later) = DbFields /\ Loads(here, later).marker = db.marker /\ Loads(here, later).lease = db.lease
  BY DEF Loads, DbFields
<1> QED BY <1>1, <1>2, <1>3

\* An error behind the marker leaves it.
LEMMA KeepingStep ==
  ASSUME OpenInv, IngestInv, NEW p \in Procs, NEW h, h \in IngestSteps, h \notin {"lease", "marker"}, h # "relations", At(p, h), NEW d,
         NEW keep, Raises(p, d, keep), DOMAIN d = DbFields, d.marker = db.marker, d.lease = db.lease, "made" \in DOMAIN d.stage
  PROVE  IngestInv'
<1>1. /\ db.marker = p /\ db.lease = p /\ proc[p].pc = "run" /\ Spared(p, d) /\ "records" \in proc[p].built
  BY BehindMarker
<1>2. Clean(d) /\ d.marker = p /\ d.lease = p
  BY <1>1, OpeningAssumption DEF Clean
<1>3. proc[p].pc \in {"read", "run"}
  BY <1>1
<1> QED BY <1>1, <1>2, <1>3, ErrorStep

LEMMA ProjectMarks ==
  ASSUME OpenInv, IngestInv, NEW p \in Procs, Project(p)
  PROVE  IngestInv'
<1> DEFINE d == [db EXCEPT !.bulk = @ + db.stage.rows]
<1>1. /\ At(p, "project") /\ "project" \in {"relations", "reload", "load", "project"}
      /\ "project" \in IngestSteps /\ "project" \notin {"lease", "marker"} /\ "project" # "relations"
  BY DEF Project, IngestSteps
<1>2. /\ DOMAIN db = DbFields /\ lock = None /\ Durable(FALSE) /\ "made" \in DOMAIN db.stage
      /\ "records" \in Then(p).built /\ Then(p) \in Onward(p)
  BY <1>1, BehindMarker DEF Onward
<1>3. DOMAIN d = DbFields /\ d.marker = db.marker /\ d.lease = db.lease /\ d.stage = db.stage
  BY <1>2 DEF DbFields
<1>4. "made" \in DOMAIN d.stage
  BY <1>2, <1>3
<1>5. Raises(p, d, FALSE) \/ (Writes(p, d, FALSE) /\ Goes(p, Then(p)))
  BY DEF Project
<1> HIDE DEF d
<1>6. CASE Raises(p, d, FALSE)
  BY <1>1, <1>3, <1>4, <1>6, KeepingStep
<1>7. CASE Writes(p, d, FALSE) /\ Goes(p, Then(p))
  <2>1. db' = d /\ UNCHANGED <<deployment, tx, lock>>
    BY <1>2, <1>7, OpeningAssumption DEF Writes
  <2> QED BY <1>1, <1>2, <1>3, <1>4, <1>7, <2>1, LoadingStep
<1> QED BY <1>5, <1>6, <1>7

LEMMA VerifyMarks ==
  ASSUME OpenInv, IngestInv, NEW p \in Procs, Verify(p)
  PROVE  IngestInv'
<1>1. At(p, "verify") /\ "verify" \in IngestSteps /\ "verify" \notin {"lease", "marker"} /\ "verify" \notin {"lease", "clear"} /\ "verify" # "relations"
  BY DEF Verify, IngestSteps
<1>2. /\ DOMAIN db = DbFields /\ db.marker = p /\ db.lease = p /\ "made" \in DOMAIN db.stage /\ Spared(p, db)
      /\ {"sweep", "clear"} \subseteq StepsOf(proc[p].todo) \ {"verify"}
      /\ StepsOf(Then(p).todo) = StepsOf(proc[p].todo) \ {"verify"} /\ Then(p).pc = "run" /\ Then(p).job = "ingest" /\ Then(p).marked
      /\ "records" \in Then(p).built
  BY <1>1, BehindMarker
<1>3. CASE db.bulk = 2 /\ Goes(p, Then(p)) /\ UNCHANGED <<deployment, db, tx, lock, faults, deaths>>
  <2>1. db' = db /\ deployment' = deployment /\ tx' = tx /\ lock' = lock /\ proc' = [proc EXCEPT ![p] = Then(p)] /\ db.bulk = 2
    BY <1>3 DEF Goes
  <2>2. "sweep" \in StepsOf(proc[p].todo) \ {"verify"} /\ Then(p).marked = TRUE
    BY <1>2
  <2> QED BY <1>1, <1>2, <2>1, <2>2, MarkedStep
<1>4. CASE Keeps(p, db)
  <2>1. Raises(p, db, TRUE)
    BY <1>4 DEF Keeps
  <2> QED BY <1>1, <1>2, <2>1, KeepingStep
<1> QED BY <1>3, <1>4 DEF Verify

LEMMA SweepMarks ==
  ASSUME OpenInv, IngestInv, NEW p \in Procs, SweepStage(p)
  PROVE  IngestInv'
<1> DEFINE d == [db EXCEPT !.stage = NoStage]
<1>1. /\ At(p, "sweep") /\ "sweep" \in IngestSteps /\ "sweep" \notin {"lease", "marker"} /\ "sweep" \notin {"lease", "clear"}
      /\ Writes(p, d, TRUE) /\ Goes(p, Then(p))
  BY DEF SweepStage, IngestSteps
<1>2. /\ DOMAIN db = DbFields /\ db.marker = p /\ db.lease = p /\ Spared(p, d) /\ lock = None /\ Durable(TRUE) /\ db.bulk = 2
      /\ StepsOf(Then(p).todo) = StepsOf(proc[p].todo) \ {"sweep"} /\ Then(p).pc = "run" /\ Then(p).job = "ingest" /\ Then(p).marked
      /\ "records" \in Then(p).built
  BY <1>1, BehindMarker
<1>3. d.marker = p /\ d.lease = p /\ d.bulk = 2 /\ "made" \in DOMAIN d.stage /\ ~d.stage.made
  BY <1>2 DEF DbFields, NoStage
<1> HIDE DEF d
<1>4. db' = d /\ deployment' = deployment /\ tx' = tx /\ lock' = lock /\ proc' = [proc EXCEPT ![p] = Then(p)]
  BY <1>1, <1>2, OpeningAssumption DEF Writes, Goes
<1>5. Then(p).marked = TRUE
  BY <1>2
<1> QED BY <1>1, <1>2, <1>3, <1>4, <1>5, MarkedStep

LEMMA StagedOn ==
  ASSUME OpenInv, NEW p \in Procs, DOMAIN Then(p) = ProcFields, "records" \in Then(p).built
  PROVE  Staged(p) \in Onward(p) /\ Staged(p).marked = Then(p).marked /\ "records" \in Staged(p).built
BY DEF Onward, Staged, ProcFields

LEMMA ReloadMarks ==
  ASSUME OpenInv, IngestInv, NEW p \in Procs, Reload(p)
  PROVE  IngestInv'
<1>1. /\ At(p, "reload") /\ "reload" \in IngestSteps /\ "reload" \notin {"lease", "marker"} /\ "reload" \in {"relations", "reload", "load", "project"}
      /\ "reload" # "relations"
  BY DEF Reload, IngestSteps
<1>2. DOMAIN db = DbFields /\ lock = None /\ Durable(FALSE) /\ DOMAIN Then(p) = ProcFields /\ "records" \in Then(p).built
  BY <1>1, BehindMarker
<1>s. Staged(p) \in Onward(p) /\ Staged(p).marked = Then(p).marked /\ "records" \in Staged(p).built
  BY <1>2, StagedOn
<1>3. ASSUME NEW here, NEW later
      PROVE  LET d == Loads(here, later)
             IN  DOMAIN d = DbFields /\ d.marker = db.marker /\ d.lease = db.lease /\ "made" \in DOMAIN d.stage
  BY <1>2, LoadsMarks
<1>4. ASSUME NEW here, db' = Loads(here, 0), Goes(p, Staged(p)), UNCHANGED <<deployment, tx, lock>> PROVE IngestInv'
  BY <1>1, <1>3, <1>4, <1>s, LoadingStep
<1>5. ASSUME NEW here, Keeps(p, Loads(here, 0)) PROVE IngestInv'
  <2>1. Raises(p, Loads(here, 0), TRUE)
    BY <1>5 DEF Keeps
  <2> QED BY <1>1, <1>3, <2>1, KeepingStep
<1>6. CASE Writes(p, Loads(2, 0), FALSE) /\ Goes(p, Staged(p))
  <2>1. db' = Loads(2, 0) /\ Goes(p, Staged(p)) /\ UNCHANGED <<deployment, tx, lock>>
    BY <1>2, <1>6, OpeningAssumption DEF Writes
  <2> QED BY <1>4, <2>1
<1> QED BY <1>4, <1>5, <1>6 DEF Reload

LEMMA ShardMarks ==
  ASSUME OpenInv, IngestInv, NEW p \in Procs, LoadShard(p)
  PROVE  IngestInv'
<1> DEFINE r == [Then(p) EXCEPT !.todo = <<"reload">> \o @]
<1>1. /\ At(p, "load") /\ "load" \in IngestSteps /\ "load" \notin {"lease", "marker"} /\ "load" \in {"relations", "reload", "load", "project"}
      /\ "load" \notin {"lease", "clear"} /\ "load" # "lease" /\ "load" # "relations"
  BY DEF LoadShard, IngestSteps
<1>2. /\ DOMAIN db = DbFields /\ lock = None /\ Durable(FALSE) /\ db.marker = p /\ db.lease = p /\ (\A d : Spared(p, d))
      /\ {"verify", "sweep", "clear"} \subseteq StepsOf(proc[p].todo) \ {"load"}
      /\ Then(p).pc = "run" /\ Then(p).job = "ingest" /\ Then(p).marked /\ DOMAIN Then(p) = ProcFields
      /\ StepsOf(Then(p).todo) = StepsOf(proc[p].todo) \ {"load"} /\ Then(p).built = proc[p].built
  BY <1>1, BehindMarker
<1>b. "records" \in Then(p).built
  <2>1. "load" # "relations" => "records" \in proc[p].built
    BY <1>1, BehindMarker
  <2> QED BY <1>1, <1>2, <2>1
<1>s. Staged(p) \in Onward(p) /\ Staged(p).marked = Then(p).marked /\ "records" \in Staged(p).built
  BY <1>2, <1>b, StagedOn
<1>3. ASSUME NEW here, NEW later
      PROVE  LET d == Loads(here, later)
             IN  DOMAIN d = DbFields /\ d.marker = db.marker /\ d.lease = db.lease /\ "made" \in DOMAIN d.stage
  BY <1>2, LoadsMarks
<1>4. ASSUME db' = Loads(2, 0), Goes(p, Staged(p)), UNCHANGED <<deployment, tx, lock>> PROVE IngestInv'
  BY <1>1, <1>3, <1>4, <1>s, LoadingStep
<1>5. ASSUME NEW here, NEW later, NEW keep, Raises(p, Loads(here, later), keep) PROVE IngestInv'
  BY <1>1, <1>3, <1>5, KeepingStep
<1>6. CASE Writes(p, Loads(2, 0), FALSE) /\ Goes(p, Staged(p))
  <2>1. db' = Loads(2, 0) /\ Goes(p, Staged(p)) /\ UNCHANGED <<deployment, tx, lock>>
    BY <1>2, <1>6, OpeningAssumption DEF Writes
  <2> QED BY <1>4, <2>1
<1>7. ASSUME NEW later, db' = Loads(0, later), Goes(p, r), UNCHANGED <<deployment, tx, lock>> PROVE IngestInv'
  <2> DEFINE d == Loads(0, later)
             t == Then(p).todo
  <2>1. /\ r.pc = "run" /\ r.job = "ingest" /\ r.marked = TRUE /\ "records" \in r.built /\ r.todo = <<"reload">> \o t
    BY <1>2, <1>b DEF ProcFields
  <2>2. StepsOf(<<"reload">> \o t) = {"reload"} \cup StepsOf(t)
    <3>1. /\ InTurn(t) /\ (\A s \in StepsOf(proc[p].todo) : s = "load" \/ Rank["load"] < Rank[s]) /\ StepsOf(proc[p].todo) \subseteq Steps
      BY <1>1, ThenFields, Taken
    <3>2. InTurn(<<"reload">>) /\ StepsOf(<<"reload">>) = {"reload"}
      BY DEF InTurn, StepsOf, Rank, Steps
    <3>3. \A x \in StepsOf(<<"reload">>) : \A y \in StepsOf(t) : Rank[x] < Rank[y]
      <4> SUFFICES ASSUME NEW y \in StepsOf(proc[p].todo), y # "load" PROVE Rank["reload"] < Rank[y]
        BY <1>2, <3>2
      <4>1. Rank["load"] < Rank[y] /\ Rank[y] \in Nat
        BY <3>1, RanksAreNumbers
      <4> QED BY <4>1 DEF Rank
    <3> QED BY <3>1, <3>2, <3>3, StepsInTurn
  <2>3. StepsOf(r.todo) = {"reload"} \cup (StepsOf(proc[p].todo) \ {"load"})
    BY <1>2, <2>1, <2>2
  <2>4. d.marker = p /\ d.lease = p /\ "made" \in DOMAIN d.stage /\ Spared(p, d)
    BY <1>2, <1>3
  <2>5. db' = d /\ deployment' = deployment /\ tx' = tx /\ lock' = lock /\ proc' = [proc EXCEPT ![p] = r]
    BY <1>7 DEF Goes
  <2>6. "verify" \in StepsOf(proc[p].todo) \ {"load"} /\ "sweep" \in StepsOf(proc[p].todo) \ {"load"}
    BY <1>2
  <2> HIDE DEF r, d, t
  <2> QED BY <1>1, <2>1, <2>3, <2>4, <2>5, <2>6, MarkedStep
<1>8. ASSUME NEW here \in 0..2, NEW later,
             CASE here = 2 -> db' = Loads(2, 0) /\ Goes(p, Staged(p)) /\ UNCHANGED <<deployment, tx, lock>>
               [] here = 1 -> Keeps(p, Loads(here, later))
               [] here = 0 -> /\ db' = Loads(0, later) /\ UNCHANGED <<deployment, tx, lock>>
                              /\ Goes(p, r)
      PROVE  IngestInv'
  <2> DEFINE A == db' = Loads(2, 0) /\ Goes(p, Staged(p)) /\ UNCHANGED <<deployment, tx, lock>>
             B == Keeps(p, Loads(here, later))
             C == db' = Loads(0, later) /\ UNCHANGED <<deployment, tx, lock>> /\ Goes(p, r)
  <2>1. (CASE here = 2 -> A [] here = 1 -> B [] here = 0 -> C)
    BY <1>8
  <2>2. A \/ B \/ C
    <3> HIDE DEF A, B, C
    <3>1. here = 0 \/ here = 1 \/ here = 2
      OBVIOUS
    <3> QED BY ONLY <2>1, <3>1
  <2>3. CASE B
    <3>1. Raises(p, Loads(here, later), TRUE)
      BY <2>3 DEF Keeps
    <3> QED BY <1>5, <3>1
  <2> HIDE DEF r
  <2> QED BY <1>4, <1>7, <2>2, <2>3
<1> HIDE DEF r
<1>9. ASSUME Unsure,
             \E here \in 0..2 : \E later \in {0, 2 - here} :
                \/ CASE here = 2 -> db' = Loads(2, 0) /\ Goes(p, Staged(p)) /\ UNCHANGED <<deployment, tx, lock>>
                     [] here = 1 -> Keeps(p, Loads(here, later))
                     [] here = 0 -> /\ db' = Loads(0, later) /\ UNCHANGED <<deployment, tx, lock>>
                                    /\ Goes(p, r)
                \/ Raises(p, Loads(here, later), FALSE)
      PROVE  IngestInv'
  BY <1>5, <1>8, <1>9
<1> QED BY <1>6, <1>9 DEF LoadShard, r

LEMMA ClearMarks ==
  ASSUME OpenInv, IngestInv, NEW p \in Procs, ClearMarker(p)
  PROVE  IngestInv'
<1> DEFINE d == [db EXCEPT !.marker = None]
           r == [Then(p) EXCEPT !.marked = FALSE]
<1>1. At(p, "clear") /\ "clear" \in IngestSteps /\ "clear" \notin {"lease", "marker"}
  BY DEF ClearMarker, IngestSteps
<1>2. /\ DOMAIN db = DbFields /\ lock = None /\ Durable(FALSE) /\ proc[p].pc \in {"read", "run"} /\ Spared(p, d) /\ DOMAIN Then(p) = ProcFields
      /\ StepsOf(proc[p].todo) = {"clear"} /\ StepsOf(Then(p).todo) = StepsOf(proc[p].todo) \ {"clear"}
      /\ db.bulk = 2 /\ ~db.stage.made /\ "made" \in DOMAIN db.stage
  BY <1>1, BehindMarker
<1>3. CASE Refused(p)
  <2>1. Raises(p, db, FALSE) /\ Alike(db, db)
    BY <1>3 DEF Refused, Alike
  <2> QED BY <1>2, <2>1, RefusalStep
<1>4. CASE Writes(p, d, FALSE) /\ Goes(p, r)
  <2>1. db' = d /\ deployment' = deployment /\ lock' = lock /\ tx' = tx /\ proc' = [proc EXCEPT ![p] = r]
    <3> HIDE DEF d, r
    <3> QED BY <1>2, <1>4, OpeningAssumption DEF Writes, Goes
  <2>2. d.bulk = 2 /\ d.stage = db.stage
    BY <1>2 DEF DbFields
  <2>3. Clean(d)
    BY <1>2, <2>2 DEF Clean
  <2>4. ~r.marked /\ StepsOf(r.todo) = {} /\ r.pc = Then(p).pc
    BY <1>2 DEF ProcFields
  <2>5. r.pc # "undo"
    BY <1>1, <2>4, ThenFields
  <2>6. MarkingOk(deployment, r, p, d)
    BY <2>4, <2>5 DEF MarkingOk
  <2>7. lock' # None => Clean(tx')
    BY <1>2, <2>1
  <2> HIDE DEF d, r
  <2> QED BY <1>2, <2>1, <2>3, <2>6, <2>7, MarkStep
<1> QED BY <1>3, <1>4 DEF ClearMarker

LEMMA UndoMarks ==
  ASSUME OpenInv, IngestInv, NEW p \in Procs, Undo(p)
  PROVE  IngestInv'
<1> DEFINE r == [proc[p] EXCEPT !.pc = "open", !.job = "open", !.marked = FALSE, !.keep = FALSE]
           e == [db EXCEPT !.tables = @ \ {"records"}, !.bulk = 0]
<1>1. proc[p].pc = "undo" /\ proc' = [proc EXCEPT ![p] = r] /\ deployment' = deployment /\ tx' = tx /\ lock' = lock
  BY DEF Undo, Goes
<1>2. DOMAIN db = DbFields /\ DOMAIN proc[p] = ProcFields
  BY ViewFacts DEF SoundFor, Shapes
<1>3. proc[p].marked
  <2>1. MarkingOk(deployment, proc[p], p, db)
    BY DEF IngestInv
  <2> QED BY <1>1, <2>1 DEF MarkingOk
<1>4. /\ lock = None /\ db.marker = p /\ p # None /\ Spared(p, db') /\ "made" \in DOMAIN db.stage
      /\ "records" \notin proc[p].built => db.bulk \in {0, 2}
  BY <1>3, MarkedFacts, SparedBy DEF IngestInv, Clean
<1>5. Clean(db')
  <2> DEFINE Built(dropped) == IF dropped THEN proc[p].built ELSE {}
             F(dropped) == IF "records" \in Built(dropped) THEN e ELSE db
             D(dropped) == IF "stage" \in Built(dropped) THEN [F(dropped) EXCEPT !.stage = NoStage] ELSE F(dropped)
  <2>u. PICK dropped \in BOOLEAN :
          db' = IF dropped /\ Empty(D(dropped)) /\ ~D(dropped).stage.made /\ ~proc[p].keep /\ db.lease = p
                THEN [D(dropped) EXCEPT !.marker = None] ELSE D(dropped)
    BY ZenonT(30) DEF Undo
  <2> DEFINE f == F(dropped)
             d == D(dropped)
  <2>w. /\ f = db \/ f = e
        /\ f = e => "records" \in proc[p].built \/ e = db
        /\ d = f \/ d = [f EXCEPT !.stage = NoStage]
        /\ dropped /\ "records" \in proc[p].built => f = e
    OBVIOUS
  <2>x. db' = d \/ (dropped /\ ~d.stage.made /\ db' = [d EXCEPT !.marker = None])
    BY <2>u
  <2> HIDE DEF Built, F, D, f, d
  <2>1. /\ f = db \/ f = e
        /\ \/ db' = f \/ db' = [f EXCEPT !.stage = NoStage]
           \/ ("records" \in proc[p].built => f = e) /\ db' = [[f EXCEPT !.stage = NoStage] EXCEPT !.marker = None]
           \/ ("records" \in proc[p].built => f = e) /\ ~f.stage.made /\ db' = [f EXCEPT !.marker = None]
    <3>1. CASE d = f
      BY <2>w, <2>x, <3>1
    <3>2. CASE d = [f EXCEPT !.stage = NoStage]
      BY <2>w, <2>x, <3>2
    <3> QED BY <2>w, <3>1, <3>2
  <2>2. DOMAIN e = DbFields /\ e.bulk = 0 /\ e.stage = db.stage /\ e.marker = db.marker
    BY <1>2 DEF DbFields
  <2> HIDE DEF e
  <2>3. DOMAIN f = DbFields /\ f.stage = db.stage /\ f.marker = db.marker
    BY <1>2, <2>1, <2>2
  <2>4. "made" \in DOMAIN NoStage /\ NoStage.made = FALSE
    BY DEF NoStage
  <2>5. ("records" \in proc[p].built => f = e) => f.bulk \in {0, 2}
    BY <1>4, <2>1, <2>2
  <2>6. CASE db' = f \/ db' = [f EXCEPT !.stage = NoStage]
    <3>1. db'.marker = p /\ "made" \in DOMAIN db'.stage
      BY <1>4, <2>3, <2>4, <2>6 DEF DbFields
    <3> QED BY <1>4, <3>1 DEF Clean
  <2>7. CASE ("records" \in proc[p].built => f = e) /\ db' = [[f EXCEPT !.stage = NoStage] EXCEPT !.marker = None]
    <3>1. db'.bulk = f.bulk /\ db'.stage = NoStage
      BY <2>3, <2>7 DEF DbFields
    <3> QED BY <2>4, <2>5, <2>7, <3>1 DEF Clean
  <2>8. CASE ("records" \in proc[p].built => f = e) /\ ~f.stage.made /\ db' = [f EXCEPT !.marker = None]
    <3>1. db'.bulk = f.bulk /\ db'.stage = f.stage
      BY <2>3, <2>8 DEF DbFields
    <3> QED BY <1>4, <2>3, <2>5, <2>8, <3>1 DEF Clean
  <2> QED BY <2>1, <2>6, <2>7, <2>8
<1>6. Free(r)
  BY <1>2 DEF Free, ProcFields
<1>7. MarkingOk(deployment, r, p, db')
  BY <1>6, FreeMarks
<1> HIDE DEF r
<1> QED BY <1>1, <1>4, <1>5, <1>7, MarkStep

LEMMA BeginMarks ==
  ASSUME OpenInv, IngestInv, NEW p \in Procs, BeginIngest(p)
  PROVE  IngestInv'
<1> DEFINE r == [proc[p] EXCEPT !.pc = "run", !.job = "ingest", !.todo = Ingest, !.built = {}]
<1>1. /\ proc[p].pc = "open" /\ proc' = [proc EXCEPT ![p] = r] /\ deployment' = deployment /\ db' = db /\ tx' = tx /\ lock' = lock
  BY DEF BeginIngest, Goes
<1>2. DOMAIN proc[p] = ProcFields /\ Clean(db) /\ (lock' # None => Clean(tx')) /\ Spared(p, db)
  <2>1. Alike(db, db)
    BY DEF Alike
  <2> QED BY <1>1, <2>1, ViewFacts, SparedBy DEF SoundFor, Shapes, IngestInv
<1>3. ~proc[p].marked
  BY <1>1, MarkedFacts
<1>4. ~r.marked /\ r.pc = "run" /\ StepsOf(r.todo) = IngestSteps \ {"reload"}
  BY <1>2, <1>3, IngestProgram DEF ProcFields
<1> HIDE DEF r
<1>5. "marker" \in StepsOf(r.todo) /\ {"relations", "verify", "sweep", "clear"} \subseteq StepsOf(r.todo)
  BY <1>4 DEF IngestSteps
<1>6. MarkingOk(deployment, r, p, db)
  BY <1>4, <1>5 DEF MarkingOk
<1> QED BY <1>1, <1>2, <1>6, MarkStep

\* A lease is taken that nobody with a marker has.
LEMMA LeaseMarks ==
  ASSUME OpenInv, IngestInv, NEW p \in Procs, TakeLease(p)
  PROVE  IngestInv'
<1> DEFINE d == [db EXCEPT !.lease = p]
           r == [Then(p) EXCEPT !.held = TRUE]
           S == StepsOf(proc[p].todo)
<1>1. At(p, "lease") /\ "lease" \in {"lease", "unlease"} \cup IngestSteps /\ "lease" \in IngestSteps
  BY DEF TakeLease, IngestSteps
<1>2. lock = None /\ Durable(FALSE) /\ proc[p].pc \in {"read", "run"} /\ DOMAIN db = DbFields /\ View(p) = db
  BY <1>1, LeaseStep
<1>3. CASE Refused(p)
  <2>1. Raises(p, db, FALSE) /\ Alike(db, db)
    BY <1>3 DEF Refused, Alike
  <2> QED BY <1>2, <2>1, RefusalStep
<1>4. CASE /\ db.lease = None \/ Holds(p) \/ (deployment = "mongo" /\ Dead(db.lease))
           /\ Writes(p, d, FALSE) /\ Goes(p, r)
  <2>1. db' = d /\ deployment' = deployment /\ lock' = lock /\ tx' = tx /\ proc' = [proc EXCEPT ![p] = r]
    <3> HIDE DEF d, r
    <3> QED BY <1>2, <1>4, OpeningAssumption DEF Writes, Goes
  <2>2. d.bulk = db.bulk /\ d.stage = db.stage /\ d.marker = db.marker /\ d.lease = p
    BY <1>2 DEF DbFields
  <2>3. Clean(d) /\ (lock' # None => Clean(tx'))
    BY <1>2, <2>1, <2>2 DEF Clean, IngestInv
  <2>4. Spared(p, d)
    <3> SUFFICES ASSUME NEW q \in Procs, q # p, proc[q].marked PROVE FALSE
      BY DEF Spared
    <3>1. db.lease = q /\ q # None /\ deployment = "clickhouse"
      BY MarkedFacts
    <3> QED BY <1>4, <3>1 DEF Holds
  <2>5. /\ DOMAIN Then(p) = ProcFields /\ Then(p).pc = "run" /\ Then(p).job = proc[p].job /\ StepsOf(Then(p).todo) = S \ {"lease"}
        /\ DOMAIN proc[p] = ProcFields
    BY <1>1, ThenFields
  <2>6. Then(p).marked = proc[p].marked /\ Then(p).built = proc[p].built
    BY <2>5 DEF Then, ProcFields
  <2>7. r.marked = proc[p].marked /\ r.built = proc[p].built /\ r.pc = "run" /\ r.job = proc[p].job /\ StepsOf(r.todo) = S \ {"lease"}
    BY <2>5, <2>6 DEF ProcFields
  <2> HIDE DEF d, r
  <2>8. MarkingOk(deployment, r, p, d)
    <3>1. CASE proc[p].job # "ingest"
      <4>1. ~proc[p].marked
        BY <3>1, MarkedFacts
      <4>2. Free(r)
        BY <2>7, <3>1, <4>1 DEF Free
      <4> QED BY <4>2, FreeMarks
    <3>2. CASE proc[p].job = "ingest"
      <4>1. MarkingOk(deployment, proc[p], p, db)
        BY DEF IngestInv
      <4>2. /\ "lease" \in S /\ (\A s \in S : s = "lease" \/ Rank["lease"] < Rank[s])
            /\ S \subseteq IngestSteps /\ proc[p].pc = "run"
        BY <1>1, <3>2, Taken DEF IngestOk
      <4>3. /\ \A s \in S, t \in {"relations", "verify", "sweep", "clear"} : Rank[s] < Rank[t] => t \in S
            /\ proc[p].marked <=> "marker" \notin S /\ S # {}
            /\ proc[p].marked => deployment = "clickhouse" /\ db.marker = p
            /\ proc[p].marked /\ "relations" \notin S => "records" \in proc[p].built
            /\ proc[p].marked /\ "records" \notin proc[p].built => db.bulk \in {0, 2}
        BY <3>2, <4>1, <4>2 DEF MarkingOk
      <4>4. {"verify", "sweep", "clear"} \subseteq S
        BY <4>2, <4>3, RanksAhead
      <4> HIDE DEF S
      <4> DEFINE T == S \ {"lease"}
      <4>5. \A s \in T, t \in {"relations", "verify", "sweep", "clear"} : Rank[s] < Rank[t] => t \in T
        BY <4>3, <4>4
      <4>6. (r.marked <=> "marker" \notin T /\ T # {}) /\ "verify" \in T /\ "sweep" \in T
        BY <2>7, <4>2, <4>3, <4>4
      <4>7. StepsOf(r.todo) = T /\ r.pc = "run" /\ r.job = "ingest" /\ (r.marked => deployment = "clickhouse" /\ d.marker = p /\ d.lease = p)
        BY <2>2, <2>7, <3>2, <4>3
      <4>8. /\ r.marked /\ "relations" \notin T => "records" \in r.built
            /\ r.marked /\ "records" \notin r.built => d.bulk \in {0, 2}
        BY <2>2, <2>7, <4>3
      <4> HIDE DEF T
      <4> QED BY <4>5, <4>6, <4>7, <4>8 DEF MarkingOk
    <3> QED BY <3>1, <3>2
  <2> QED BY <2>1, <2>3, <2>4, <2>8, MarkStep
<1> QED BY <1>3, <1>4 DEF TakeLease

LEMMA LandedMarks ==
  ASSUME OpenInv, IngestInv, NEW p \in Procs, FaultLanded(p)
  PROVE  IngestInv'
<1>1. proc[p].pc \in {"read", "run"}
  BY DEF FaultLanded, Fails
<1>2. DOMAIN db = DbFields /\ DOMAIN proc[p] = ProcFields /\ Clean(db)
  BY ViewFacts DEF SoundFor, Shapes, IngestInv
<1>3. ASSUME NEW d, Raises(p, d, FALSE), DOMAIN d = DbFields, Clean(d), \A q \in Procs : ~proc[q].marked
      PROVE  IngestInv'
  <2>1. Spared(p, d)
    BY <1>3 DEF Spared
  <2> QED BY <1>1, <1>3, <2>1, ErrorStep
<1>4. CASE db.lease = None /\ Raises(p, [db EXCEPT !.lease = Nobody], FALSE)
  <2> DEFINE d == [db EXCEPT !.lease = Nobody]
  <2>1. DOMAIN d = DbFields /\ d.marker = db.marker /\ d.bulk = db.bulk /\ d.stage = db.stage
    BY <1>2 DEF DbFields
  <2>2. Clean(d)
    BY <1>2, <2>1 DEF Clean
  <2>3. \A q \in Procs : ~proc[q].marked
    BY <1>4, MarkedFacts
  <2> HIDE DEF d
  <2> QED BY <1>3, <1>4, <2>1, <2>2, <2>3 DEF d
<1>5. CASE Raises(p, [db EXCEPT !.fence = Nobody], FALSE)
  <2> DEFINE d == [db EXCEPT !.fence = Nobody]
  <2>1. DOMAIN d = DbFields /\ Alike(db, d)
    BY <1>2 DEF DbFields, Alike
  <2> QED BY <1>1, <1>5, <2>1, RefusalStep
<1>6. CASE db.marker = None /\ Raises(p, [db EXCEPT !.marker = Nobody], FALSE)
  <2> DEFINE d == [db EXCEPT !.marker = Nobody]
  <2>1. DOMAIN d = DbFields /\ d.marker = Nobody /\ d.stage = db.stage
    BY <1>2 DEF DbFields
  <2>2. Clean(d)
    BY <1>2, <2>1, OpeningAssumption DEF Clean
  <2>3. \A q \in Procs : ~proc[q].marked
    BY <1>6, MarkedFacts
  <2> HIDE DEF d
  <2> QED BY <1>3, <1>6, <2>1, <2>2, <2>3 DEF d
<1>7. CASE At(p, "clear") /\ Raises(p, [db EXCEPT !.marker = None], FALSE)
  <2> DEFINE d == [db EXCEPT !.marker = None]
  <2>1. "clear" \in IngestSteps /\ "clear" \notin {"lease", "marker"}
    BY DEF IngestSteps
  <2>2. db.bulk = 2 /\ ~db.stage.made /\ "made" \in DOMAIN db.stage /\ Spared(p, d)
    BY <1>7, <2>1, BehindMarker
  <2>3. DOMAIN d = DbFields /\ d.bulk = db.bulk /\ d.stage = db.stage
    BY <1>2 DEF DbFields
  <2>4. Clean(d)
    BY <2>2, <2>3 DEF Clean
  <2>5. Raises(p, d, FALSE) /\ (proc[p].marked => At(p, "clear"))
    BY <1>7
  <2> HIDE DEF d
  <2> QED BY <1>1, <2>2, <2>3, <2>4, <2>5, ErrorStep
<1>8. ASSUME NEW k \in Required, Raises(p, Stamped(db, k, Value(k, proc[p].ver)), FALSE) PROVE IngestInv'
  <2> DEFINE d == Stamped(db, k, Value(k, proc[p].ver))
  <2>1. DOMAIN d = DbFields /\ Alike(db, d)
    BY <1>2 DEF DbFields, Alike, Stamped
  <2> HIDE DEF d
  <2>2. Raises(p, d, FALSE)
    BY <1>8 DEF d
  <2> QED BY <1>1, <2>1, <2>2, RefusalStep
<1>9. CASE /\ At(p, "meta") /\ db' = [db EXCEPT !.tables = @ \cup {"meta"}]
           /\ Goes(p, [proc[p] EXCEPT !.pc = "read", !.todo = <<>>])
           /\ UNCHANGED <<deployment, tx, lock>>
  <2> DEFINE r == [proc[p] EXCEPT !.pc = "read", !.todo = <<>>]
  <2>1. "meta" \notin IngestSteps
    BY DEF IngestSteps
  <2>2. ~proc[p].marked
    BY <1>9, <2>1, FreeThen
  <2>3. Free(r)
    BY <1>2, <2>2 DEF Free, ProcFields
  <2>4. Alike(db, db') /\ (lock' # None => Clean(tx'))
    BY <1>2, <1>9 DEF Alike, DbFields, IngestInv
  <2>5. proc' = [proc EXCEPT ![p] = r] /\ deployment' = deployment
    BY <1>9 DEF Goes
  <2> HIDE DEF r
  <2> QED BY <2>3, <2>4, <2>5, FreeStep
<1> QED BY <1>4, <1>5, <1>6, <1>7, <1>8, <1>9 DEF FaultLanded

-----------------------------------------------------------------------------
(* The theorems.                                                           *)

LEMMA IngestInit == OpeningInit => IngestInv
<1> SUFFICES ASSUME OpeningInit PROVE IngestInv
  OBVIOUS
<1>1. deployment \in Deployments /\ lock = None /\ proc = [p \in Procs |-> Away]
  BY DEF OpeningInit
<1>2. "made" \in DOMAIN NoStage /\ NoStage.made = FALSE
  BY DEF NoStage
<1>3. db.bulk = 0 /\ db.stage = NoStage
  <2>1. CASE db = Nothing
    BY <2>1 DEF Nothing
  <2>2. CASE \E ids : db = Legacy(ids) \/ db = [Legacy(ids) EXCEPT !.lease = Nobody]
    <3>1. PICK ids : db = Legacy(ids) \/ db = [Legacy(ids) EXCEPT !.lease = Nobody]
      BY <2>2
    <3>2. DOMAIN Legacy(ids) = DbFields /\ Legacy(ids).bulk = 0 /\ Legacy(ids).stage = NoStage
      BY <1>1, LegacyFields
    <3> QED BY <3>1, <3>2 DEF DbFields
  <2> QED BY <2>1, <2>2 DEF OpeningInit
<1>4. Clean(db)
  BY <1>2, <1>3 DEF Clean
<1>5. ASSUME NEW p \in Procs PROVE MarkingOk(deployment, proc[p], p, db)
  <2>1. Free(proc[p])
    BY <1>1 DEF Free, Away
  <2> QED BY <2>1, FreeMarks
<1> QED BY <1>1, <1>4, <1>5 DEF IngestInv

LEMMA IngestStep ==
  ASSUME OpenInv, IngestInv, [OpeningNext]_openingVars
  PROVE  IngestInv'
<1>1. CASE UNCHANGED openingVars \/ Recover \/ LateLands
  BY <1>1, RecoveryMarks
<1>2. ASSUME NEW p \in Procs,
             \/ Look(p) \/ Read(p) \/ CreateMetadata(p) \/ Stamp(p) \/ StampKey(p) \/ InsertLayout(p)
             \/ CreateOwners(p) \/ TakeLease(p) \/ ReleaseLease(p) \/ ClaimRows(p) \/ AddTables(p)
      PROVE  IngestInv'
  BY <1>2, LookMarks, ReadMarks, MetadataMarks, StampMarks, KeyMarks, LayoutMarks, OwnersMarks, LeaseMarks, UnleaseMarks, ClaimMarks,
     TablesMarks
<1>3. ASSUME NEW p \in Procs,
             \/ AddColumn(p) \/ Restamp(p) \/ Opened(p) \/ Busy(p) \/ DropMade(p)
             \/ TakeFence(p) \/ Recheck(p) \/ ReleaseFence(p) \/ Fault(p) \/ FaultLanded(p)
      PROVE  IngestInv'
  BY <1>3, ColumnMarks, RestampMarks, OpenedMarks, ErrorMarks, DropMarks, FenceMarks, RecheckMarks, UnfenceMarks, LandedMarks
<1>4. ASSUME NEW p \in Procs,
             \/ BeginIngest(p) \/ WriteMarker(p) \/ CreateRelations(p) \/ LoadShard(p) \/ Reload(p)
             \/ Project(p) \/ Verify(p) \/ SweepStage(p) \/ ClearMarker(p) \/ Undo(p)
             \/ Save(p) \/ Close(p) \/ Die(p)
      PROVE  IngestInv'
  BY <1>4, BeginMarks, MarkerMarks, RelationsMarks, ShardMarks, ReloadMarks, ProjectMarks, VerifyMarks, SweepMarks, ClearMarks, UndoMarks,
     SaveMarks, CloseMarks, DeathMarks
<1> QED BY <1>1, <1>2, <1>3, <1>4 DEF OpeningNext

\* What Recognized reads off the stamps.
LEMMA RecognizedFacts ==
  ASSUME NEW ver, Checked(db, ver, FALSE), deployment \in Deployments
  PROVE  /\ "meta" \in db.tables /\ Settled(deployment, db) /\ db.marker = None
         /\ ~Pending(db) => "ownership" \in DOMAIN db.keys
<1>1. /\ "meta" \in db.tables /\ db.marker = None /\ Required \ DOMAIN db.keys \in {{}, {"ownership"}}
      /\ Profiled <=> "profile" \in DOMAIN db.keys
  BY DEF Checked, Recognized
<1>2. Required \ {"ownership"} \subseteq DOMAIN db.keys
  BY <1>1
<1>3. ~Pending(db) => "ownership" \in DOMAIN db.keys
  BY <1>1 DEF Pending, Required
<1>4. HasProfile(deployment) => "profile" \in DOMAIN db.keys
  BY <1>1 DEF HasProfile, Profiled
<1> QED BY <1>1, <1>2, <1>3, <1>4 DEF Settled

LEMMA MarkedWholeFollows == OpenInv => MarkedWhole
<1> SUFFICES ASSUME OpenInv, NEW ver \in DOMAIN Schema, Checked(db, ver, FALSE), ~Pending(db)
             PROVE  /\ deployment # "clickhouse" => "owners" \in db.tables /\ db.claims = db.rows
                    /\ "records" \in db.tables /\ deployment \notin {"mongo", "clickhouse"} =>
                         DOMAIN Schema[db.keys["schemas"]] \subseteq db.tables
                         /\ Columns(db.keys["schemas"], DOMAIN Schema[db.keys["schemas"]]) \subseteq db.columns
  BY DEF MarkedWhole
<1>1. deployment \in Deployments /\ DbSound(deployment, db)
  BY DEF OpenInv, Shapes
<1>2. Settled(deployment, db) /\ "ownership" \in DOMAIN db.keys
  BY <1>1, RecognizedFacts
<1>3. deployment # "clickhouse" => "owners" \in db.tables /\ db.claims = db.rows
  BY <1>1, <1>2 DEF Distinct, Sole, DbSound, Owned
<1>4. deployment \notin {"mongo", "clickhouse"} => Tabled(deployment)
  BY <1>1, OpeningAssumption DEF Tabled
<1>5. "records" \in db.tables /\ deployment \notin {"mongo", "clickhouse"} => Promised(db, db.keys["schemas"])
  BY <1>1, <1>2, <1>4 DEF DbSound
<1> QED BY <1>3, <1>5 DEF Promised

\* A process that works with an open store has no transaction, and what it relies on is there.
LEMMA OpenFacts ==
  ASSUME OpenInv, NEW p \in Procs, proc[p].pc = "open"
  PROVE  /\ Settled(deployment, db) /\ Fits(deployment, proc[p], db)
         /\ proc[p].ready => "ownership" \in DOMAIN db.keys
<1>1. lock # p
  BY OpeningAssumption DEF OpenInv, TxOk
<1>2. ProcOk(deployment, proc[p], db)
  BY <1>1 DEF OpenInv, View
<1> QED BY <1>2 DEF ProcOk, InUse

LEMMA IdentitiesFollow == OpenInv => IdentitiesOwned
<1> SUFFICES ASSUME OpenInv, NEW p \in Procs, proc[p].pc = "open", proc[p].ready
             PROVE  \A r, s \in db.rows : r[2] = s[2] => r = s
  BY DEF IdentitiesOwned
<1>1. Settled(deployment, db) /\ "ownership" \in DOMAIN db.keys /\ DbSound(deployment, db)
  BY OpenFacts DEF OpenInv
<1>2. CASE deployment = "clickhouse"
  BY <1>1, <1>2 DEF Owned, Distinct, Sole, DbSound
<1>3. CASE deployment # "clickhouse"
  <2>1. Owned(db)
    BY <1>1, <1>3 DEF Owned, Distinct, Sole, DbSound
  <2> QED BY <2>1 DEF Distinct, Owned
<1> QED BY <1>2, <1>3

LEMMA NoPartialFollows == OpenInv /\ IngestInv => NoPartialStore
<1> SUFFICES ASSUME OpenInv, IngestInv, NEW ver \in DOMAIN Schema, Checked(db, ver, FALSE)
             PROVE  db.bulk \in {0, 2} /\ ~db.stage.made
  BY DEF NoPartialStore
<1>1. db.marker = None
  BY DEF Checked, Recognized
<1> QED BY <1>1 DEF IngestInv, Clean

\* The invariant of openings and of ingests, whatever fails and whoever dies (_initialize_layout,
\* _open_marked_layout, ClickHouse's bulk ingest).
THEOREM OpeningInvariant ==
  ASSUME FaultsLeaveNothing
  PROVE  OpeningSpec => [](OpenInv /\ IngestInv)
<1>1. OpeningInit => OpenInv /\ IngestInv
  BY InitInvariant, IngestInit
<1>2. OpenInv /\ IngestInv /\ [OpeningNext]_openingVars => OpenInv' /\ IngestInv'
  BY OpeningsStep, IngestStep
<1> QED BY <1>1, <1>2, PTL DEF OpeningSpec

\* What an opening accepts is a whole store, no two records of one that is open for
\* writing have an identity in common, and no store that opens holds a part of an
\* ingest (_open_marked_layout, _sync_identity_ownership, the marker of an ingest).
\* FaultsLeaveNothing leaves failures out, no upgrade, no death and no other process.
THEOREM OpenedIsWhole ==
  ASSUME FaultsLeaveNothing
  PROVE  OpeningSpec => []StoresWhole
<1>1. OpenInv /\ IngestInv => StoresWhole
  BY MarkedWholeFollows, IdentitiesFollow, NoPartialFollows DEF StoresWhole
<1> QED BY <1>1, OpeningInvariant, PTL

(***************************************************************************)
(* PAGES.  The seek and the sort agree on one strict total order; a page   *)
(* is a stretch of it behind the cursor.                                   *)
(***************************************************************************)

-----------------------------------------------------------------------------
(* One key: its order, and the seek past it.                               *)

Values == Int \cup {Missing}

IsOrderBy(o) == o.descending \in BOOLEAN /\ o.nulls \in {"first", "last"}

\* u sorts before v.
KeyBefore(u, v, o, backward) ==
  IF NullRank(u, o) # NullRank(v, o) THEN (NullRank(u, o) < NullRank(v, o)) # backward
  ELSE u # v /\ IF o.descending # backward THEN u > v ELSE u < v

\* The rank puts missing keys on the side the order asks for.
LEMMA RanksOfKeys ==
  ASSUME NEW o, IsOrderBy(o), NEW u \in Values, NEW v \in Values
  PROVE  /\ NullRank(u, o) \in {0, 1} /\ NullRank(v, o) \in {0, 1}
         /\ NullRank(u, o) = NullRank(v, o) <=> ((u = Missing) <=> (v = Missing))
         /\ NullRank(u, o) < NullRank(v, o) <=>
              \/ u = Missing /\ v # Missing /\ o.nulls = "first"
              \/ u # Missing /\ v = Missing /\ o.nulls # "first"
BY DEF NullRank, IsOrderBy

\* The order of a key, in terms of which of two values are missing.
LEMMA KeyBeforeIs ==
  ASSUME NEW o, IsOrderBy(o), NEW u \in Values, NEW v \in Values, NEW b \in BOOLEAN
  PROVE  KeyBefore(u, v, o, b) <=>
           \/ u = Missing /\ v # Missing /\ (b <=> o.nulls # "first")
           \/ u # Missing /\ v = Missing /\ (b <=> o.nulls = "first")
           \/ u # Missing /\ v # Missing /\ IF o.descending = b THEN u < v ELSE u > v
<1>1. Missing \notin Int
  BY PagesAssumption
<1>2. CASE u = Missing /\ v = Missing
  BY <1>2, RanksOfKeys DEF KeyBefore
<1>3. CASE u = Missing /\ v # Missing
  <2>1. NullRank(u, o) # NullRank(v, o)
    BY <1>3, RanksOfKeys
  <2>2. NullRank(u, o) < NullRank(v, o) <=> o.nulls = "first"
    BY <1>3, RanksOfKeys
  <2>3. KeyBefore(u, v, o, b) <=> ((NullRank(u, o) < NullRank(v, o)) # b)
    BY <2>1 DEF KeyBefore
  <2> QED BY <1>3, <2>2, <2>3
<1>4. CASE u # Missing /\ v = Missing
  <2>1. NullRank(u, o) # NullRank(v, o)
    BY <1>4, RanksOfKeys
  <2>2. NullRank(u, o) < NullRank(v, o) <=> o.nulls # "first"
    BY <1>4, RanksOfKeys
  <2>3. KeyBefore(u, v, o, b) <=> ((NullRank(u, o) < NullRank(v, o)) # b)
    BY <2>1 DEF KeyBefore
  <2> QED BY <1>4, <2>2, <2>3
<1>5. CASE u # Missing /\ v # Missing
  <2>1. NullRank(u, o) = NullRank(v, o)
    BY <1>5, RanksOfKeys
  <2>2. u \in Int /\ v \in Int
    BY <1>5 DEF Values
  <2>3. KeyBefore(u, v, o, b) <=> (u # v /\ IF o.descending # b THEN u > v ELSE u < v)
    BY <2>1 DEF KeyBefore
  <2>4. o.descending # b \/ o.descending = b
    OBVIOUS
  <2> QED BY <1>5, <2>2, <2>3, <2>4
<1> QED BY <1>2, <1>3, <1>4, <1>5

\* The values of a key are in a strict total order, and turned around backward.
LEMMA KeyOrder ==
  ASSUME NEW o, IsOrderBy(o), NEW b \in BOOLEAN,
         NEW u \in Values, NEW v \in Values, NEW w \in Values
  PROVE  /\ ~KeyBefore(u, u, o, b)
         /\ KeyBefore(u, v, o, b) /\ KeyBefore(v, w, o, b) => KeyBefore(u, w, o, b)
         /\ u # v => KeyBefore(u, v, o, b) \/ KeyBefore(v, u, o, b)
         /\ KeyBefore(u, v, o, ~b) <=> KeyBefore(v, u, o, b)
<1>1. Missing \notin Int /\ o.descending \in BOOLEAN /\ (~b) \in BOOLEAN
  <2>1. Missing \notin Int /\ o.descending \in BOOLEAN
    BY PagesAssumption DEF IsOrderBy
  <2>2. (~b) \in BOOLEAN
    OBVIOUS
  <2> QED BY <2>1, <2>2
<1>2. ~KeyBefore(u, u, o, b)
  BY <1>1, KeyBeforeIs DEF Values
<1>3. KeyBefore(u, v, o, b) /\ KeyBefore(v, w, o, b) => KeyBefore(u, w, o, b)
  <2> SUFFICES ASSUME KeyBefore(u, v, o, b), KeyBefore(v, w, o, b) PROVE KeyBefore(u, w, o, b)
    OBVIOUS
  <2>1. KeyBefore(u, v, o, b) <=>
           \/ u = Missing /\ v # Missing /\ (b <=> o.nulls # "first")
           \/ u # Missing /\ v = Missing /\ (b <=> o.nulls = "first")
           \/ u # Missing /\ v # Missing /\ IF o.descending = b THEN u < v ELSE u > v
    BY KeyBeforeIs
  <2>2. KeyBefore(v, w, o, b) <=>
           \/ v = Missing /\ w # Missing /\ (b <=> o.nulls # "first")
           \/ v # Missing /\ w = Missing /\ (b <=> o.nulls = "first")
           \/ v # Missing /\ w # Missing /\ IF o.descending = b THEN v < w ELSE v > w
    BY KeyBeforeIs
  <2>3. KeyBefore(u, w, o, b) <=>
           \/ u = Missing /\ w # Missing /\ (b <=> o.nulls # "first")
           \/ u # Missing /\ w = Missing /\ (b <=> o.nulls = "first")
           \/ u # Missing /\ w # Missing /\ IF o.descending = b THEN u < w ELSE u > w
    BY KeyBeforeIs
  <2>4. CASE o.descending = b
    BY <1>1, <2>1, <2>2, <2>3, <2>4 DEF Values
  <2>5. CASE o.descending # b
    BY <1>1, <2>1, <2>2, <2>3, <2>5 DEF Values
  <2> QED BY <2>4, <2>5
<1>4. u # v => KeyBefore(u, v, o, b) \/ KeyBefore(v, u, o, b)
  BY <1>1, KeyBeforeIs DEF Values
<1>5. KeyBefore(u, v, o, ~b) <=> KeyBefore(v, u, o, b)
  <2>1. KeyBefore(u, v, o, ~b) <=>
           \/ u = Missing /\ v # Missing /\ (~b <=> o.nulls # "first")
           \/ u # Missing /\ v = Missing /\ (~b <=> o.nulls = "first")
           \/ u # Missing /\ v # Missing /\ IF o.descending = ~b THEN u < v ELSE u > v
    BY <1>1, KeyBeforeIs
  <2>2. KeyBefore(v, u, o, b) <=>
           \/ v = Missing /\ u # Missing /\ (b <=> o.nulls # "first")
           \/ v # Missing /\ u = Missing /\ (b <=> o.nulls = "first")
           \/ v # Missing /\ u # Missing /\ IF o.descending = b THEN v < u ELSE v > u
    BY KeyBeforeIs
  <2>3. CASE o.descending = b
    <3>1. ~(o.descending = ~b)
      BY <1>1, <2>3
    <3> QED BY <2>1, <2>2, <2>3, <3>1, <1>1 DEF Values
  <2>4. CASE o.descending # b
    <3>1. o.descending = ~b
      BY <1>1, <2>4
    <3> QED BY <2>1, <2>2, <2>4, <3>1, <1>1 DEF Values
  <2> QED BY <2>3, <2>4
<1> QED BY <1>2, <1>3, <1>4, <1>5

\* The order that the client asked for is the order that sorts, and the seek
\* goes past a key as the order does.
LEMMA KeyAgrees ==
  ASSUME NEW o, IsOrderBy(o), NEW u \in Values, NEW v \in Values, NEW b \in BOOLEAN
  PROVE  /\ KeyAhead(u, v, o) <=> KeyBefore(u, v, o, FALSE)
         /\ PastKey(u, v, o, b) <=> KeyBefore(v, u, o, b)
<1>1. Missing \notin Int /\ o.descending \in BOOLEAN
  BY PagesAssumption DEF IsOrderBy
<1>2. KeyAhead(u, v, o) <=> KeyBefore(u, v, o, FALSE)
  <2>1. KeyBefore(u, v, o, FALSE) <=>
           \/ u = Missing /\ v # Missing /\ (FALSE <=> o.nulls # "first")
           \/ u # Missing /\ v = Missing /\ (FALSE <=> o.nulls = "first")
           \/ u # Missing /\ v # Missing /\ IF o.descending = FALSE THEN u < v ELSE u > v
    BY KeyBeforeIs
  <2>2. CASE o.descending
    BY <1>1, <2>1, <2>2 DEF KeyAhead, Values
  <2>3. CASE ~o.descending
    BY <1>1, <2>1, <2>3 DEF KeyAhead, Values
  <2> QED BY <2>2, <2>3
<1>3. PastKey(u, v, o, b) <=> KeyBefore(v, u, o, b)
  <2>1. KeyBefore(v, u, o, b) <=>
           \/ v = Missing /\ u # Missing /\ (b <=> o.nulls # "first")
           \/ v # Missing /\ u = Missing /\ (b <=> o.nulls = "first")
           \/ v # Missing /\ u # Missing /\ IF o.descending = b THEN v < u ELSE v > u
    BY KeyBeforeIs
  <2>2. PastKey(u, v, o, b) <=>
           \/ IF b THEN NullRank(u, o) < NullRank(v, o) ELSE NullRank(u, o) > NullRank(v, o)
           \/ v # Missing /\ NullRank(u, o) = NullRank(v, o) /\ IF o.descending = b THEN u > v ELSE u < v
    BY DEF PastKey
  <2>3. NullRank(u, o) > NullRank(v, o) <=> NullRank(v, o) < NullRank(u, o)
    BY RanksOfKeys
  <2>4. NullRank(u, o) < NullRank(v, o) <=>
              \/ u = Missing /\ v # Missing /\ o.nulls = "first"
              \/ u # Missing /\ v = Missing /\ o.nulls # "first"
    BY RanksOfKeys
  <2>5. NullRank(v, o) < NullRank(u, o) <=>
              \/ v = Missing /\ u # Missing /\ o.nulls = "first"
              \/ v # Missing /\ u = Missing /\ o.nulls # "first"
    BY RanksOfKeys
  <2>6. NullRank(u, o) = NullRank(v, o) <=> ((u = Missing) <=> (v = Missing))
    BY RanksOfKeys
  <2>7. CASE b
    BY <1>1, <2>1, <2>2, <2>4, <2>6, <2>7 DEF Values
  <2>8. CASE ~b
    BY <1>1, <2>1, <2>2, <2>3, <2>5, <2>6, <2>8 DEF Values
  <2> QED BY <2>7, <2>8
<1> QED BY <1>2, <1>3

\* The equality of the seek is that of the sort: equal values have equal ranks.
LEMMA SameKeyIsEqual ==
  ASSUME NEW o, IsOrderBy(o), NEW u \in Values, NEW v \in Values
  PROVE  SameKey(u, v, o) <=> u = v
BY RanksOfKeys DEF SameKey

-----------------------------------------------------------------------------
(* The rows: keys in their order, and the sid last.                        *)

\* A request that is not refused, and one whose tokens hold its keys.
IsAsked(q) == q \in Requests /\ Pageable(q)
IsPaged(q) == IsAsked(q) /\ Anchored(q)

KeyOf(x, q, i) == OrderKey(x, q.orders[i])

\* x comes before y at the n-th key, behind equal keys.
BeforeAt(x, y, q, backward, n) ==
  /\ \A i \in 1..n - 1 : KeyOf(x, q, i) = KeyOf(y, q, i)
  /\ IF n > Len(q.orders) THEN IF backward THEN x.sid > y.sid ELSE x.sid < y.sid
     ELSE KeyBefore(KeyOf(x, q, n), KeyOf(y, q, n), q.orders[n], backward)

Before(x, y, q, backward) == SortsBefore(x, y, q.orders, backward)

\* The orders of a request project comparable values.
LEMMA OrdersOfRequest ==
  ASSUME NEW q, IsPaged(q)
  PROVE  /\ Len(q.orders) \in Nat /\ DOMAIN q.orders = 1..Len(q.orders)
         /\ \A i \in 1..Len(q.orders) : IsOrderBy(q.orders[i])
         /\ \A x \in PageRows, i \in 1..Len(q.orders) : KeyOf(x, q, i) \in Values
<1> DEFINE Orders == [name : STRING, descending : BOOLEAN, nulls : {"first", "last"}]
<1>1. q.orders \in Seq(Orders)
  BY PagesAssumption DEF IsPaged, IsAsked
<1>2. Len(q.orders) \in Nat /\ DOMAIN q.orders = 1..Len(q.orders)
  BY <1>1
<1>3. \A i \in 1..Len(q.orders) : q.orders[i] \in Orders
  <2> HIDE DEF Orders
  <2> QED BY <1>1, <1>2
<1>4. \A i \in 1..Len(q.orders) : IsOrderBy(q.orders[i])
  BY <1>3 DEF IsOrderBy
<1>5. ASSUME NEW x \in PageRows, NEW i \in 1..Len(q.orders) PROVE KeyOf(x, q, i) \in Values
  <2>1. Cardinality(Named(q.orders[i])) = 1 /\ \A y \in Named(q.orders[i]) : y.scalar
    BY <1>2 DEF IsPaged, IsAsked, Pageable
  <2>2. Named(q.orders[i]) # {}
    <3> SUFFICES ASSUME Named(q.orders[i]) = {} PROVE FALSE
      OBVIOUS
    <3> QED BY <2>1, FS_EmptySet
  <2>3. PICK y \in Named(q.orders[i]) : y = CHOOSE z \in Named(q.orders[i]) : TRUE
    BY <2>2
  <2>4. y \in Outputs /\ y.scalar
    BY <2>1 DEF Named
  <2>5. x.keys[y.column] \in Int \cup {Missing}
    BY <2>4, PagesAssumption
  <2>6. KeyOf(x, q, i) = x.keys[y.column]
    BY <2>3 DEF KeyOf, OrderKey, OutputOf
  <2> QED BY <2>5, <2>6 DEF Values
<1> QED BY <1>2, <1>4, <1>5

\* The sort in terms of the first place where two rows differ.
LEMMA BeforeIs ==
  ASSUME NEW q, IsPaged(q), NEW x \in PageRows, NEW y \in PageRows, NEW b \in BOOLEAN
  PROVE  Before(x, y, q, b) <=> \E n \in 1..Len(q.orders) + 1 : BeforeAt(x, y, q, b, n)
BY DEF Before, SortsBefore, BeforeAt, KeyBefore, KeyOf

\* The last resort of the order is a number no two rows share.
LEMMA Sids ==
  ASSUME NEW x \in PageRows, NEW y \in PageRows
  PROVE  x.sid \in Int /\ y.sid \in Int /\ (x.sid = y.sid => x = y)
BY PagesAssumption

\* The sort is a strict order ...
LEMMA BeforeIrreflexive ==
  ASSUME NEW q, IsPaged(q), NEW x \in PageRows, NEW b \in BOOLEAN
  PROVE  ~Before(x, x, q, b)
<1> SUFFICES ASSUME NEW n \in 1..Len(q.orders) + 1, BeforeAt(x, x, q, b, n) PROVE FALSE
  BY BeforeIs
<1>1. Len(q.orders) \in Nat
  BY OrdersOfRequest
<1>2. CASE n > Len(q.orders)
  BY <1>2, Sids DEF BeforeAt
<1>3. CASE n \in 1..Len(q.orders)
  <2>1. KeyBefore(KeyOf(x, q, n), KeyOf(x, q, n), q.orders[n], b)
    BY <1>1, <1>3 DEF BeforeAt
  <2>2. KeyOf(x, q, n) \in Values /\ IsOrderBy(q.orders[n])
    BY <1>3, OrdersOfRequest
  <2> QED BY <2>1, <2>2, KeyOrder
<1> QED BY <1>1, <1>2, <1>3

\* ... that is transitive ...
LEMMA BeforeTransitive ==
  ASSUME NEW q, IsPaged(q), NEW b \in BOOLEAN,
         NEW x \in PageRows, NEW y \in PageRows, NEW z \in PageRows,
         Before(x, y, q, b), Before(y, z, q, b)
  PROVE  Before(x, z, q, b)
<1>1. Len(q.orders) \in Nat
  BY OrdersOfRequest
<1>2. PICK m \in 1..Len(q.orders) + 1 : BeforeAt(x, y, q, b, m)
  BY BeforeIs
<1>3. PICK n \in 1..Len(q.orders) + 1 : BeforeAt(y, z, q, b, n)
  BY BeforeIs
<1>4. (\A i \in 1..m - 1 : KeyOf(x, q, i) = KeyOf(y, q, i)) /\ (\A i \in 1..n - 1 : KeyOf(y, q, i) = KeyOf(z, q, i))
  BY <1>2, <1>3 DEF BeforeAt
<1>5. CASE m < n
  <2>1. m \in 1..Len(q.orders) /\ m \in 1..n - 1
    BY <1>1, <1>5
  <2>2. KeyBefore(KeyOf(x, q, m), KeyOf(y, q, m), q.orders[m], b)
    BY <1>1, <1>2, <2>1 DEF BeforeAt
  <2>3. KeyOf(y, q, m) = KeyOf(z, q, m)
    BY <1>4, <2>1
  <2>4. \A i \in 1..m - 1 : KeyOf(x, q, i) = KeyOf(z, q, i)
    <3>1. \A i \in 1..m - 1 : i \in 1..n - 1
      BY <1>5
    <3> QED BY <1>4, <3>1
  <2>5. BeforeAt(x, z, q, b, m)
    BY <1>1, <2>1, <2>2, <2>3, <2>4 DEF BeforeAt
  <2> QED BY <2>5, BeforeIs
<1>6. CASE n < m
  <2>1. n \in 1..Len(q.orders) /\ n \in 1..m - 1
    BY <1>1, <1>6
  <2>2. KeyBefore(KeyOf(y, q, n), KeyOf(z, q, n), q.orders[n], b)
    BY <1>1, <1>3, <2>1 DEF BeforeAt
  <2>3. KeyOf(x, q, n) = KeyOf(y, q, n)
    BY <1>4, <2>1
  <2>4. \A i \in 1..n - 1 : KeyOf(x, q, i) = KeyOf(z, q, i)
    <3>1. \A i \in 1..n - 1 : i \in 1..m - 1
      BY <1>6
    <3> QED BY <1>4, <3>1
  <2>5. BeforeAt(x, z, q, b, n)
    BY <1>1, <2>1, <2>2, <2>3, <2>4 DEF BeforeAt
  <2> QED BY <2>5, BeforeIs
<1>7. CASE m = n
  <2>1. \A i \in 1..m - 1 : KeyOf(x, q, i) = KeyOf(z, q, i)
    BY <1>4, <1>7
  <2>2. CASE m > Len(q.orders)
    <3>1. IF b THEN x.sid > z.sid ELSE x.sid < z.sid
      <4>1. (IF b THEN x.sid > y.sid ELSE x.sid < y.sid) /\ (IF b THEN y.sid > z.sid ELSE y.sid < z.sid)
        BY <1>2, <1>3, <1>7, <2>2 DEF BeforeAt
      <4>2. x.sid \in Int /\ y.sid \in Int /\ z.sid \in Int
        BY Sids
      <4> QED BY <4>1, <4>2
    <3>2. BeforeAt(x, z, q, b, m)
      BY <2>1, <2>2, <3>1 DEF BeforeAt
    <3> QED BY <3>2, BeforeIs
  <2>3. CASE m \in 1..Len(q.orders)
    <3>1. /\ KeyBefore(KeyOf(x, q, m), KeyOf(y, q, m), q.orders[m], b)
          /\ KeyBefore(KeyOf(y, q, m), KeyOf(z, q, m), q.orders[m], b)
      BY <1>1, <1>2, <1>3, <1>7, <2>3 DEF BeforeAt
    <3>2. /\ KeyOf(x, q, m) \in Values /\ KeyOf(y, q, m) \in Values /\ KeyOf(z, q, m) \in Values
          /\ IsOrderBy(q.orders[m])
      BY <2>3, OrdersOfRequest
    <3>3. KeyBefore(KeyOf(x, q, m), KeyOf(z, q, m), q.orders[m], b)
      BY <3>1, <3>2, KeyOrder
    <3>4. BeforeAt(x, z, q, b, m)
      BY <1>1, <2>1, <2>3, <3>3 DEF BeforeAt
    <3> QED BY <3>4, BeforeIs
  <2> QED BY <1>1, <2>2, <2>3
<1> QED BY <1>1, <1>5, <1>6, <1>7

\* ... and total, because of the sid.
LEMMA BeforeTotal ==
  ASSUME NEW q, IsPaged(q), NEW b \in BOOLEAN, NEW x \in PageRows, NEW y \in PageRows, x # y
  PROVE  Before(x, y, q, b) \/ Before(y, x, q, b)
<1> DEFINE D == {i \in 1..Len(q.orders) : KeyOf(x, q, i) # KeyOf(y, q, i)}
<1>1. Len(q.orders) \in Nat
  BY OrdersOfRequest
<1>2. CASE D = {}
  <2> DEFINE n == Len(q.orders) + 1
  <2>1. n \in 1..Len(q.orders) + 1 /\ n > Len(q.orders)
    BY <1>1
  <2>2. \A i \in 1..n - 1 : KeyOf(x, q, i) = KeyOf(y, q, i) /\ KeyOf(y, q, i) = KeyOf(x, q, i)
    BY <1>1, <1>2
  <2>3. x.sid < y.sid \/ y.sid < x.sid
    BY Sids
  <2> HIDE DEF n
  <2>4. CASE IF b THEN x.sid > y.sid ELSE x.sid < y.sid
    <3>1. BeforeAt(x, y, q, b, n)
      BY <2>1, <2>2, <2>4 DEF BeforeAt
    <3> QED BY <2>1, <3>1, BeforeIs
  <2>5. CASE IF b THEN y.sid > x.sid ELSE y.sid < x.sid
    <3>1. BeforeAt(y, x, q, b, n)
      BY <2>1, <2>2, <2>5 DEF BeforeAt
    <3> QED BY <2>1, <3>1, BeforeIs
  <2>6. x.sid \in Int /\ y.sid \in Int
    BY Sids
  <2> QED BY <2>3, <2>4, <2>5, <2>6
<1>3. CASE D # {}
  <2>1. D \in SUBSET Nat
    BY <1>1
  <2> HIDE DEF D
  <2>2. PICK n \in D : \A k \in D : n <= k
    BY <1>3, <2>1, LeastNumber
  <2>3. n \in 1..Len(q.orders) /\ KeyOf(x, q, n) # KeyOf(y, q, n)
    BY <2>2 DEF D
  <2>4. \A i \in 1..n - 1 : KeyOf(x, q, i) = KeyOf(y, q, i)
    <3> SUFFICES ASSUME NEW i \in 1..n - 1, KeyOf(x, q, i) # KeyOf(y, q, i) PROVE FALSE
      OBVIOUS
    <3>1. i \in 1..Len(q.orders) /\ i < n
      BY <1>1, <2>3
    <3>2. i \in D
      BY <3>1 DEF D
    <3> QED BY <2>2, <3>1, <3>2, <2>1
  <2>5. KeyOf(x, q, n) \in Values /\ KeyOf(y, q, n) \in Values /\ IsOrderBy(q.orders[n])
    BY <2>3, OrdersOfRequest
  <2>6. n \in 1..Len(q.orders) + 1 /\ ~(n > Len(q.orders))
    BY <1>1, <2>3
  <2>7. CASE KeyBefore(KeyOf(x, q, n), KeyOf(y, q, n), q.orders[n], b)
    <3>1. BeforeAt(x, y, q, b, n)
      BY <2>4, <2>6, <2>7 DEF BeforeAt
    <3> QED BY <2>6, <3>1, BeforeIs
  <2>8. CASE KeyBefore(KeyOf(y, q, n), KeyOf(x, q, n), q.orders[n], b)
    <3>1. BeforeAt(y, x, q, b, n)
      BY <2>4, <2>6, <2>8 DEF BeforeAt
    <3> QED BY <2>6, <3>1, BeforeIs
  <2> QED BY <2>3, <2>5, <2>7, <2>8, KeyOrder
<1> QED BY <1>2, <1>3

\* Backward is the order turned around.
LEMMA BeforeTurns ==
  ASSUME NEW q, IsPaged(q), NEW x \in PageRows, NEW y \in PageRows
  PROVE  Before(x, y, q, TRUE) <=> Before(y, x, q, FALSE)
<1>1. Len(q.orders) \in Nat
  BY OrdersOfRequest
<1>2. ASSUME NEW n \in 1..Len(q.orders) + 1 PROVE BeforeAt(x, y, q, TRUE, n) <=> BeforeAt(y, x, q, FALSE, n)
  <2>1. (\A i \in 1..n - 1 : KeyOf(x, q, i) = KeyOf(y, q, i)) <=> (\A i \in 1..n - 1 : KeyOf(y, q, i) = KeyOf(x, q, i))
    OBVIOUS
  <2>2. CASE n > Len(q.orders)
    <3>1. x.sid > y.sid <=> y.sid < x.sid
      BY Sids
    <3> QED BY <2>1, <2>2, <3>1 DEF BeforeAt
  <2>3. CASE n \in 1..Len(q.orders)
    <3>1. KeyOf(x, q, n) \in Values /\ KeyOf(y, q, n) \in Values /\ IsOrderBy(q.orders[n])
      BY <2>3, OrdersOfRequest
    <3>2. KeyBefore(KeyOf(x, q, n), KeyOf(y, q, n), q.orders[n], ~FALSE)
            <=> KeyBefore(KeyOf(y, q, n), KeyOf(x, q, n), q.orders[n], FALSE)
      BY <3>1, KeyOrder
    <3>3. KeyBefore(KeyOf(x, q, n), KeyOf(y, q, n), q.orders[n], TRUE)
            <=> KeyBefore(KeyOf(y, q, n), KeyOf(x, q, n), q.orders[n], FALSE)
      BY <3>2
    <3>4. ~(n > Len(q.orders))
      BY <1>1, <2>3
    <3> QED BY <2>1, <3>3, <3>4 DEF BeforeAt
  <2>4. n > Len(q.orders) \/ n \in 1..Len(q.orders)
    BY <1>1
  <2> QED BY <2>2, <2>3, <2>4
<1> QED BY <1>2, BeforeIs

\* Backward is the converse of forward, from either side.
LEMMA BeforeTurnsEither ==
  ASSUME NEW q, IsPaged(q), NEW x \in PageRows, NEW y \in PageRows, NEW b \in BOOLEAN, NEW c \in BOOLEAN, b # c
  PROVE  Before(x, y, q, b) <=> Before(y, x, q, c)
<1>1. CASE b = TRUE /\ c = FALSE
  BY <1>1, BeforeTurns, Zenon
<1>2. CASE b = FALSE /\ c = TRUE
  BY <1>2, BeforeTurns, Zenon
<1>3. (b = TRUE /\ c = FALSE) \/ (b = FALSE /\ c = TRUE)
  OBVIOUS
<1> QED BY <1>1, <1>2, <1>3, Zenon

\* The order asked for is the order of the forward sort.
LEMMA BeforeAsAsked ==
  ASSUME NEW q, IsPaged(q), NEW x \in PageRows, NEW y \in PageRows
  PROVE  Ahead(x, y, q.orders) <=> Before(x, y, q, FALSE)
<1>1. Len(q.orders) \in Nat
  BY OrdersOfRequest
<1> DEFINE AheadAt(n) == /\ \A i \in 1..n - 1 : KeyOf(x, q, i) = KeyOf(y, q, i)
                         /\ IF n > Len(q.orders) THEN x.sid < y.sid
                            ELSE KeyAhead(KeyOf(x, q, n), KeyOf(y, q, n), q.orders[n])
<1>2. Ahead(x, y, q.orders) <=> \E n \in 1..Len(q.orders) + 1 : AheadAt(n)
  BY DEF Ahead, KeyOf
<1>3. ASSUME NEW n \in 1..Len(q.orders) + 1 PROVE AheadAt(n) <=> BeforeAt(x, y, q, FALSE, n)
  <2>1. CASE n > Len(q.orders)
    BY <2>1 DEF BeforeAt
  <2>2. CASE n \in 1..Len(q.orders)
    <3>1. KeyOf(x, q, n) \in Values /\ KeyOf(y, q, n) \in Values /\ IsOrderBy(q.orders[n])
      BY <2>2, OrdersOfRequest
    <3>2. KeyAhead(KeyOf(x, q, n), KeyOf(y, q, n), q.orders[n])
            <=> KeyBefore(KeyOf(x, q, n), KeyOf(y, q, n), q.orders[n], FALSE)
      BY <3>1, KeyAgrees
    <3>3. ~(n > Len(q.orders))
      BY <1>1, <2>2
    <3> QED BY <3>2, <3>3 DEF BeforeAt
  <2>3. n > Len(q.orders) \/ n \in 1..Len(q.orders)
    BY <1>1
  <2> QED BY <2>1, <2>2, <2>3
<1> HIDE DEF AheadAt
<1> QED BY <1>2, <1>3, BeforeIs

\* The seek past the anchor of a row finds what sorts after that row.
LEMMA SeekIsAfter ==
  ASSUME NEW q, IsPaged(q), NEW a \in PageRows, NEW r \in PageRows, NEW b \in BOOLEAN,
         NEW toward, b <=> toward = "backward"
  PROVE  Past(r, Token(a, toward, q), q.orders) <=> Before(a, r, q, b)
<1>1. Len(q.orders) \in Nat /\ DOMAIN q.orders = 1..Len(q.orders)
  BY OrdersOfRequest
<1> DEFINE t == Token(a, toward, q)
<1>2. \A i \in 1..Len(q.orders) : PageAnchor(a, q.orders[i], q) = KeyOf(a, q, i)
  BY <1>1 DEF PageAnchor, KeyOf, IsPaged, Anchored
<1>3. t.toward = toward /\ t.sid = a.sid /\ \A i \in 1..Len(q.orders) : t.anchors[i] = KeyOf(a, q, i)
  BY <1>1, <1>2 DEF Token
<1> HIDE DEF t
<1> DEFINE PastAt(n) == /\ \A i \in 1..n - 1 : SameKey(KeyOf(r, q, i), t.anchors[i], q.orders[i])
                        /\ IF n =< Len(q.orders) THEN PastKey(KeyOf(r, q, n), t.anchors[n], q.orders[n], b)
                           ELSE IF b THEN r.sid < t.sid ELSE r.sid > t.sid
<1>4. Past(r, t, q.orders) <=> \E n \in 1..Len(q.orders) + 1 : PastAt(n)
  BY <1>3 DEF Past, KeyOf
<1>5. ASSUME NEW n \in 1..Len(q.orders) + 1 PROVE PastAt(n) <=> BeforeAt(a, r, q, b, n)
  <2>1. ASSUME NEW i \in 1..n - 1
        PROVE  SameKey(KeyOf(r, q, i), t.anchors[i], q.orders[i]) <=> KeyOf(a, q, i) = KeyOf(r, q, i)
    <3>1. i \in 1..Len(q.orders)
      BY <1>1
    <3>2. KeyOf(a, q, i) \in Values /\ KeyOf(r, q, i) \in Values /\ IsOrderBy(q.orders[i])
      BY <3>1, OrdersOfRequest
    <3>3. t.anchors[i] = KeyOf(a, q, i)
      BY <1>3, <3>1
    <3>4. SameKey(KeyOf(r, q, i), KeyOf(a, q, i), q.orders[i]) <=> KeyOf(r, q, i) = KeyOf(a, q, i)
      BY <3>2, SameKeyIsEqual
    <3> QED BY <3>3, <3>4
  <2>2. CASE n > Len(q.orders)
    <3>1. ~(n =< Len(q.orders))
      BY <1>1, <2>2
    <3>2. (IF b THEN r.sid < a.sid ELSE r.sid > a.sid) <=> (IF b THEN a.sid > r.sid ELSE a.sid < r.sid)
      BY Sids
    <3> QED BY <1>3, <2>1, <2>2, <3>1, <3>2 DEF BeforeAt
  <2>3. CASE n \in 1..Len(q.orders)
    <3>1. KeyOf(a, q, n) \in Values /\ KeyOf(r, q, n) \in Values /\ IsOrderBy(q.orders[n])
      BY <2>3, OrdersOfRequest
    <3>2. t.anchors[n] = KeyOf(a, q, n)
      BY <1>3, <2>3
    <3>3. PastKey(KeyOf(r, q, n), KeyOf(a, q, n), q.orders[n], b)
            <=> KeyBefore(KeyOf(a, q, n), KeyOf(r, q, n), q.orders[n], b)
      BY <3>1, KeyAgrees
    <3>4. n =< Len(q.orders) /\ ~(n > Len(q.orders))
      BY <1>1, <2>3
    <3> QED BY <2>1, <3>2, <3>3, <3>4 DEF BeforeAt
  <2>4. n > Len(q.orders) \/ n \in 1..Len(q.orders)
    BY <1>1
  <2> QED BY <2>2, <2>3, <2>4
<1> HIDE DEF PastAt
<1>6. Past(r, t, q.orders) <=> Before(a, r, q, b)
  BY <1>4, <1>5, BeforeIs
<1> QED BY <1>6 DEF t

-----------------------------------------------------------------------------
(* Rows in order.                                                          *)

RowsIn(s) == {s[i] : i \in 1..Len(s)}

InSequence(s, q, backward) ==
  /\ s \in Seq(PageRows)
  /\ \A i, j \in 1..Len(s) : i < j => Before(s[i], s[j], q, backward)

RowsBefore(x, S, q, backward) == {y \in S : Before(y, x, q, backward)}

LEMMA EmptyInSequence == \A q, b : InSequence(<<>>, q, b) /\ RowsIn(<<>>) = {}
<1>1. Len(<<>>) = 0 /\ <<>> \in Seq(PageRows)
  OBVIOUS
<1>2. 1..0 = {}
  OBVIOUS
<1> QED BY <1>1, <1>2 DEF InSequence, RowsIn

\* The ends and elements of a sequence of rows.
LEMMA RowsAreRows ==
  ASSUME NEW s \in Seq(PageRows)
  PROVE  /\ RowsIn(s) \subseteq PageRows /\ Len(s) \in Nat
         /\ \A i \in 1..Len(s) : s[i] \in PageRows /\ s[i] \in RowsIn(s)
         /\ \A r \in RowsIn(s) : \E i \in 1..Len(s) : s[i] = r
         /\ s # <<>> => Last(s) = s[Len(s)] /\ Head(s) = s[1] /\ Len(s) >= 1 /\ Last(s) \in RowsIn(s) /\ Head(s) \in RowsIn(s)
<1>1. Len(s) \in Nat /\ DOMAIN s = 1..Len(s) /\ \A i \in 1..Len(s) : s[i] \in PageRows
  OBVIOUS
<1>2. ASSUME s # <<>>
      PROVE  Last(s) = s[Len(s)] /\ Head(s) = s[1] /\ Len(s) >= 1 /\ Last(s) \in RowsIn(s) /\ Head(s) \in RowsIn(s)
  <2>1. Len(s) >= 1
    BY <1>2
  <2>2. Head(s) = s[1]
    BY <1>2
  <2>3. 1 \in 1..Len(s) /\ Len(s) \in 1..Len(s)
    BY <1>1, <2>1
  <2> QED BY <2>1, <2>2, <2>3 DEF Last, RowsIn
<1> QED BY <1>1, <1>2 DEF RowsIn

\* The rank of a row among finitely many: no two have the same, and every
\* number below their number is one's.
LEMMA RanksAreDistinct ==
  ASSUME NEW q, IsPaged(q), NEW b \in BOOLEAN, NEW S \in SUBSET PageRows,
         NEW x \in S, NEW y \in S, Before(x, y, q, b)
  PROVE  /\ Cardinality(RowsBefore(x, S, q, b)) \in Nat /\ Cardinality(RowsBefore(y, S, q, b)) \in Nat
         /\ Cardinality(RowsBefore(x, S, q, b)) < Cardinality(RowsBefore(y, S, q, b))
<1>1. IsFiniteSet(S)
  BY PagesAssumption, FS_Subset
<1>2. RowsBefore(x, S, q, b) \subseteq S /\ RowsBefore(y, S, q, b) \subseteq S
  BY DEF RowsBefore
<1>3. IsFiniteSet(RowsBefore(y, S, q, b)) /\ IsFiniteSet(RowsBefore(x, S, q, b))
  BY <1>1, <1>2, FS_Subset
<1>4. RowsBefore(x, S, q, b) \subseteq RowsBefore(y, S, q, b)
  <2> SUFFICES ASSUME NEW z \in S, Before(z, x, q, b) PROVE Before(z, y, q, b)
    BY DEF RowsBefore
  <2> QED BY BeforeTransitive
<1>5. x \in RowsBefore(y, S, q, b) /\ x \notin RowsBefore(x, S, q, b)
  BY BeforeIrreflexive DEF RowsBefore
<1>6. /\ Cardinality(RowsBefore(x, S, q, b)) <= Cardinality(RowsBefore(y, S, q, b))
      /\ Cardinality(RowsBefore(x, S, q, b)) # Cardinality(RowsBefore(y, S, q, b))
  BY <1>3, <1>4, <1>5, FS_Subset
<1>7. Cardinality(RowsBefore(x, S, q, b)) \in Nat /\ Cardinality(RowsBefore(y, S, q, b)) \in Nat
  BY <1>3, FS_CardinalityType
<1> QED BY <1>6, <1>7

\* Among n rows, each number below n is how many come before one of them.
LEMMA EveryRankIsOnes ==
  ASSUME NEW q, IsPaged(q), NEW b \in BOOLEAN, NEW S \in SUBSET PageRows
  PROVE  /\ Cardinality(S) \in Nat
         /\ \A i \in 1..Cardinality(S) : \E x \in S : Cardinality(RowsBefore(x, S, q, b)) = i - 1
<1> DEFINE n == Cardinality(S)
           f == [x \in S |-> Cardinality(RowsBefore(x, S, q, b)) + 1]
<1>1. IsFiniteSet(S) /\ n \in Nat
  <2>1. IsFiniteSet(S)
    BY PagesAssumption, FS_Subset
  <2> QED BY <2>1, FS_CardinalityType
<1>2. \A x \in S : f[x] \in 1..n
  <2> SUFFICES ASSUME NEW x \in S PROVE Cardinality(RowsBefore(x, S, q, b)) + 1 \in 1..n
    OBVIOUS
  <2>1. RowsBefore(x, S, q, b) \in SUBSET S /\ x \notin RowsBefore(x, S, q, b)
    BY BeforeIrreflexive DEF RowsBefore
  <2>2. IsFiniteSet(RowsBefore(x, S, q, b)) /\ Cardinality(RowsBefore(x, S, q, b)) <= n /\ Cardinality(RowsBefore(x, S, q, b)) # n
    BY <1>1, <2>1, FS_Subset
  <2>3. Cardinality(RowsBefore(x, S, q, b)) \in Nat
    BY <2>2, FS_CardinalityType
  <2> QED BY <1>1, <2>2, <2>3
<1>3. \A x, y \in S : f[x] = f[y] => x = y
  <2> SUFFICES ASSUME NEW x \in S, NEW y \in S, x # y PROVE f[x] # f[y]
    OBVIOUS
  <2>1. Before(x, y, q, b) \/ Before(y, x, q, b)
    BY BeforeTotal
  <2>2. CASE Before(x, y, q, b)
    BY <2>2, RanksAreDistinct
  <2>3. CASE Before(y, x, q, b)
    BY <2>3, RanksAreDistinct
  <2> QED BY <2>1, <2>2, <2>3
<1>4. f \in [S -> 1..n]
  BY <1>2
<1>5. IsFiniteSet(1..n) /\ Cardinality(1..n) = n
  <2>1. 1 \in Int /\ n \in Int
    BY <1>1
  <2>2. IsFiniteSet(1..n) /\ Cardinality(1..n) = IF 1 > n THEN 0 ELSE n - 1 + 1
    BY <2>1, FS_Interval
  <2> HIDE DEF n
  <2> QED BY <1>1, <2>2
<1> HIDE DEF f
<1>6. f \in Injection(S, 1..n)
  BY <1>3, <1>4 DEF Injection, IsInjective
<1>7. f \in Surjection(S, 1..n)
  <2>1. Cardinality(S) = Cardinality(1..n)
    BY <1>5
  <2> HIDE DEF n
  <2>2. IsFiniteSet(1..n) /\ f \in Injection(S, 1..n)
    BY <1>5, <1>6
  <2>3. Cardinality(S) = Cardinality(1..n) <=> f \in Surjection(S, 1..n)
    BY <2>2, FS_Injection
  <2> QED BY <2>1, <2>3
<1>8. \A i \in 1..n : \E x \in S : f[x] = i
  BY <1>7 DEF Surjection
<1>9. ASSUME NEW i \in 1..n PROVE \E x \in S : Cardinality(RowsBefore(x, S, q, b)) = i - 1
  <2>1. PICK x \in S : f[x] = i
    BY <1>8
  <2>2. f[x] = Cardinality(RowsBefore(x, S, q, b)) + 1
    BY DEF f
  <2>3. Cardinality(RowsBefore(x, S, q, b)) \in Nat
    <3>1. RowsBefore(x, S, q, b) \in SUBSET S
      BY DEF RowsBefore
    <3> QED BY <1>1, <3>1, FS_Subset, FS_CardinalityType
  <2> QED BY <2>1, <2>2, <2>3
<1> QED BY <1>1, <1>9

\* So the sorted rows are well defined: each once, in order.
LEMMA InOrderIsSorted ==
  ASSUME NEW q, IsPaged(q), NEW b \in BOOLEAN, NEW S \in SUBSET PageRows
  PROVE  /\ InSequence(InOrder(S, q, b), q, b)
         /\ RowsIn(InOrder(S, q, b)) = S
         /\ Len(InOrder(S, q, b)) = Cardinality(S)
<1> DEFINE s == InOrder(S, q, b)
           n == Cardinality(S)
<1>1. n \in Nat /\ \A i \in 1..n : \E x \in S : Cardinality(RowsBefore(x, S, q, b)) = i - 1
  BY EveryRankIsOnes
<1>2. s = [i \in 1..n |-> CHOOSE x \in S : Cardinality(RowsBefore(x, S, q, b)) = i - 1]
  BY DEF InOrder, RowsBefore, Before
<1> HIDE DEF s
<1>3. ASSUME NEW i \in 1..n PROVE s[i] \in S /\ Cardinality(RowsBefore(s[i], S, q, b)) = i - 1
  <2>1. \E x \in S : Cardinality(RowsBefore(x, S, q, b)) = i - 1
    BY <1>1
  <2>2. s[i] = CHOOSE x \in S : Cardinality(RowsBefore(x, S, q, b)) = i - 1
    BY <1>2
  <2> QED BY <2>1, <2>2
<1>4. DOMAIN s = 1..n /\ s = [i \in 1..n |-> s[i]]
  BY <1>2
<1> HIDE DEF n
<1>5. s \in Seq(PageRows) /\ Len(s) = n
  <2>1. s \in [1..n -> PageRows]
    BY <1>3, <1>4
  <2>2. s \in Seq(PageRows)
    BY <1>1, <2>1
  <2> QED BY <1>1, <1>4, <2>2
<1>6. ASSUME NEW i \in 1..n, NEW j \in 1..n, i < j PROVE Before(s[i], s[j], q, b)
  <2>1. /\ s[i] \in S /\ Cardinality(RowsBefore(s[i], S, q, b)) = i - 1
        /\ s[j] \in S /\ Cardinality(RowsBefore(s[j], S, q, b)) = j - 1
    BY <1>3
  <2>2. s[i] # s[j]
    BY <2>1, <1>6, <1>1
  <2>3. CASE Before(s[j], s[i], q, b)
    <3>1. Cardinality(RowsBefore(s[j], S, q, b)) < Cardinality(RowsBefore(s[i], S, q, b))
      BY <2>1, <2>3, RanksAreDistinct
    <3> QED BY <2>1, <3>1, <1>6, <1>1
  <2>4. s[i] \in PageRows /\ s[j] \in PageRows
    BY <2>1
  <2> QED BY <2>2, <2>3, <2>4, BeforeTotal
<1>7. ASSUME NEW x \in S PROVE x \in RowsIn(s)
  <2>1. RowsBefore(x, S, q, b) \in SUBSET S /\ x \notin RowsBefore(x, S, q, b)
    BY BeforeIrreflexive DEF RowsBefore
  <2>2. IsFiniteSet(S)
    BY PagesAssumption, FS_Subset
  <2>3. IsFiniteSet(RowsBefore(x, S, q, b)) /\ Cardinality(RowsBefore(x, S, q, b)) <= n /\ Cardinality(RowsBefore(x, S, q, b)) # n
    BY <2>1, <2>2, FS_Subset DEF n
  <2>4. Cardinality(RowsBefore(x, S, q, b)) \in Nat
    BY <2>3, FS_CardinalityType
  <2> DEFINE i == Cardinality(RowsBefore(x, S, q, b)) + 1
  <2>5. i \in 1..n /\ Cardinality(RowsBefore(x, S, q, b)) = i - 1
    BY <1>1, <2>3, <2>4
  <2> HIDE DEF i
  <2>6. s[i] \in S /\ Cardinality(RowsBefore(s[i], S, q, b)) = i - 1
    BY <1>3, <2>5
  <2>7. CASE s[i] # x
    <3>1. CASE Before(s[i], x, q, b)
      <4>1. Cardinality(RowsBefore(s[i], S, q, b)) < Cardinality(RowsBefore(x, S, q, b))
        BY <2>6, <3>1, RanksAreDistinct
      <4> QED BY <4>1, <2>4, <2>5, <2>6
    <3>2. CASE Before(x, s[i], q, b)
      <4>1. Cardinality(RowsBefore(x, S, q, b)) < Cardinality(RowsBefore(s[i], S, q, b))
        BY <2>6, <3>2, RanksAreDistinct
      <4> QED BY <4>1, <2>4, <2>5, <2>6
    <3>3. s[i] \in PageRows /\ x \in PageRows
      BY <2>6
    <3> QED BY <2>7, <3>1, <3>2, <3>3, BeforeTotal
  <2> QED BY <1>5, <2>5, <2>7 DEF RowsIn
<1>8. RowsIn(s) \subseteq S
  BY <1>3, <1>5 DEF RowsIn
<1> QED BY <1>5, <1>6, <1>7, <1>8 DEF InSequence, s, n

\* A part of the front of a sequence of rows.
LEMMA FrontInSequence ==
  ASSUME NEW q, IsPaged(q), NEW b \in BOOLEAN, NEW s, InSequence(s, q, b), NEW n \in Nat, n < Len(s)
  PROVE  /\ InSequence(SubSeq(s, 1, n), q, b) /\ Len(SubSeq(s, 1, n)) = n
         /\ RowsIn(SubSeq(s, 1, n)) \subseteq RowsIn(s)
         /\ \A r \in RowsIn(s) \ RowsIn(SubSeq(s, 1, n)) : \A i \in 1..n : Before(SubSeq(s, 1, n)[i], r, q, b)
<1> DEFINE t == SubSeq(s, 1, n)
<1>1. s \in Seq(PageRows) /\ Len(s) \in Nat /\ \A i, j \in 1..Len(s) : i < j => Before(s[i], s[j], q, b)
  BY DEF InSequence
<1>2. t \in Seq(PageRows) /\ Len(t) = n /\ \A i \in 1..n : t[i] = s[i] /\ i \in 1..Len(s)
  BY <1>1
<1> HIDE DEF t
<1>3. InSequence(t, q, b)
  BY <1>1, <1>2 DEF InSequence
<1>4. RowsIn(t) \subseteq RowsIn(s)
  BY <1>2 DEF RowsIn
<1>5. ASSUME NEW r \in RowsIn(s), r \notin RowsIn(t), NEW i \in 1..n PROVE Before(t[i], r, q, b)
  <2>1. PICK j \in 1..Len(s) : r = s[j]
    BY DEF RowsIn
  <2>2. j \notin 1..n
    BY <1>2, <1>5, <2>1 DEF RowsIn
  <2>3. i \in 1..Len(s) /\ i < j
    BY <1>1, <2>2
  <2> QED BY <1>1, <1>2, <2>1, <2>3
<1> QED BY <1>2, <1>3, <1>4, <1>5 DEF t

Joined(u, s, t) == u = s \o t

\* One sequence of rows behind another.
LEMMA JoinedElements ==
  ASSUME NEW s \in Seq(PageRows), NEW t \in Seq(PageRows), NEW u, Joined(u, s, t)
  PROVE  /\ u \in Seq(PageRows) /\ Len(u) = Len(s) + Len(t) /\ Len(s) \in Nat /\ Len(t) \in Nat
         /\ \A i \in 1..Len(s) : u[i] = s[i] /\ i \in 1..Len(u)
         /\ \A i \in 1..Len(t) : u[Len(s) + i] = t[i] /\ Len(s) + i \in 1..Len(u)
         /\ \A i \in 1..Len(u) : i \in 1..Len(s) \/ (i - Len(s) \in 1..Len(t) /\ u[i] = t[i - Len(s)])
<1> DEFINE m == Len(s)
           n == Len(t)
<1>1. u \in Seq(PageRows) /\ Len(u) = m + n /\ \A i \in 1..m + n : u[i] = IF i <= m THEN s[i] ELSE t[i - m]
  BY DEF Joined
<1>2. m \in Nat /\ n \in Nat
  OBVIOUS
<1> HIDE DEF m, n
<1>3. \A i \in 1..m : u[i] = s[i] /\ i \in 1..m + n
  BY <1>1, <1>2
<1>4. ASSUME NEW i \in 1..n PROVE u[m + i] = t[i] /\ m + i \in 1..m + n
  <2>1. m + i \in 1..m + n /\ ~(m + i <= m) /\ (m + i) - m = i
    BY <1>2
  <2> QED BY <1>1, <2>1
<1>5. ASSUME NEW i \in 1..m + n PROVE i \in 1..m \/ (i - m \in 1..n /\ u[i] = t[i - m])
  <2>1. i \in 1..m \/ (i - m \in 1..n /\ ~(i <= m))
    BY <1>2
  <2> QED BY <1>1, <2>1
<1> QED BY <1>1, <1>2, <1>3, <1>4, <1>5 DEF m, n

LEMMA JoinedRows ==
  ASSUME NEW s \in Seq(PageRows), NEW t \in Seq(PageRows), NEW u, Joined(u, s, t)
  PROVE  RowsIn(u) = RowsIn(s) \cup RowsIn(t)
<1>1. RowsIn(u) \subseteq RowsIn(s) \cup RowsIn(t)
  <2> SUFFICES ASSUME NEW i \in 1..Len(u) PROVE u[i] \in RowsIn(s) \cup RowsIn(t)
    BY DEF RowsIn
  <2>1. CASE i \in 1..Len(s)
    BY <2>1, JoinedElements DEF RowsIn
  <2>2. CASE i - Len(s) \in 1..Len(t) /\ u[i] = t[i - Len(s)]
    BY <2>2 DEF RowsIn
  <2> QED BY <2>1, <2>2, JoinedElements
<1>2. RowsIn(s) \subseteq RowsIn(u)
  BY JoinedElements DEF RowsIn
<1>3. RowsIn(t) \subseteq RowsIn(u)
  <2> SUFFICES ASSUME NEW i \in 1..Len(t) PROVE t[i] \in RowsIn(u)
    BY DEF RowsIn
  <2>1. u[Len(s) + i] = t[i] /\ Len(s) + i \in 1..Len(u)
    BY JoinedElements
  <2> QED BY <2>1 DEF RowsIn
<1> QED BY <1>1, <1>2, <1>3

LEMMA JoinedEnds ==
  ASSUME NEW s \in Seq(PageRows), NEW t \in Seq(PageRows), NEW u, Joined(u, s, t)
  PROVE  /\ s # <<>> => u # <<>> /\ Head(u) = Head(s)
         /\ t # <<>> => u # <<>> /\ Last(u) = Last(t)
         /\ s = <<>> => u = t
         /\ t = <<>> => u = s
<1>1. ASSUME s # <<>> PROVE u # <<>> /\ Head(u) = Head(s)
  <2>1. Len(s) >= 1 /\ Head(s) = s[1]
    BY <1>1, RowsAreRows
  <2>2. 1 \in 1..Len(s) /\ u[1] = s[1] /\ Len(u) # 0 /\ u \in Seq(PageRows)
    BY <2>1, JoinedElements
  <2>3. u # <<>>
    BY <2>2
  <2> QED BY <2>1, <2>2, <2>3, RowsAreRows
<1>2. ASSUME t # <<>> PROVE u # <<>> /\ Last(u) = Last(t)
  <2>1. Len(t) >= 1 /\ Last(t) = t[Len(t)]
    BY <1>2, RowsAreRows
  <2>2. Len(t) \in 1..Len(t) /\ u[Len(s) + Len(t)] = t[Len(t)] /\ Len(u) = Len(s) + Len(t) /\ Len(u) # 0 /\ u \in Seq(PageRows)
    BY <2>1, JoinedElements
  <2>3. u # <<>>
    BY <2>2
  <2> QED BY <2>1, <2>2, <2>3, RowsAreRows
<1>3. s = <<>> => u = t
  BY DEF Joined
<1>4. t = <<>> => u = s
  BY DEF Joined
<1> QED BY <1>1, <1>2, <1>3, <1>4

\* Sequences one after the other are in order together.
LEMMA JoinedInSequence ==
  ASSUME NEW q, NEW b \in BOOLEAN, NEW s, InSequence(s, q, b), NEW t, InSequence(t, q, b), NEW u, Joined(u, s, t),
         \A x \in RowsIn(s) : \A y \in RowsIn(t) : Before(x, y, q, b)
  PROVE  InSequence(u, q, b)
<1>1. /\ s \in Seq(PageRows) /\ \A i, j \in 1..Len(s) : i < j => Before(s[i], s[j], q, b)
      /\ t \in Seq(PageRows) /\ \A i, j \in 1..Len(t) : i < j => Before(t[i], t[j], q, b)
  BY DEF InSequence
<1>2. /\ u \in Seq(PageRows) /\ Len(s) \in Nat
      /\ \A i \in 1..Len(s) : u[i] = s[i]
      /\ \A i \in 1..Len(u) : i \in 1..Len(s) \/ (i - Len(s) \in 1..Len(t) /\ u[i] = t[i - Len(s)])
  BY <1>1, JoinedElements
<1>3. ASSUME NEW i \in 1..Len(u), NEW j \in 1..Len(u), i < j PROVE Before(u[i], u[j], q, b)
  <2>1. CASE i \in 1..Len(s) /\ j \in 1..Len(s)
    BY <1>1, <1>2, <1>3, <2>1
  <2>2. CASE i \in 1..Len(s) /\ j \notin 1..Len(s)
    <3>1. u[i] \in RowsIn(s) /\ u[j] \in RowsIn(t)
      BY <1>2, <2>2 DEF RowsIn
    <3> QED BY <3>1
  <2>3. CASE i \notin 1..Len(s)
    <3>1. i - Len(s) \in 1..Len(t) /\ u[i] = t[i - Len(s)]
      BY <1>2, <2>3
    <3>2. j \notin 1..Len(s)
      BY <1>2, <1>3, <2>3
    <3>3. j - Len(s) \in 1..Len(t) /\ u[j] = t[j - Len(s)]
      BY <1>2, <3>2
    <3>4. i - Len(s) < j - Len(s)
      BY <1>2, <1>3
    <3> QED BY <1>1, <3>1, <3>3, <3>4
  <2> QED BY <2>1, <2>2, <2>3
<1> QED BY <1>2, <1>3 DEF InSequence

\* A sequence of rows turned around is in the order turned around.
LEMMA ReversedInSequence ==
  ASSUME NEW q, IsPaged(q), NEW b \in BOOLEAN, NEW c \in BOOLEAN, b # c, NEW s, InSequence(s, q, b)
  PROVE  /\ InSequence(Reverse(s), q, c) /\ RowsIn(Reverse(s)) = RowsIn(s)
         /\ Reverse(s) = <<>> <=> s = <<>>
         /\ s # <<>> => Head(Reverse(s)) = Last(s) /\ Last(Reverse(s)) = Head(s)
<1> DEFINE n == Len(s)
           t == Reverse(s)
<1>1. s \in Seq(PageRows) /\ n \in Nat /\ \A i, j \in 1..n : i < j => Before(s[i], s[j], q, b)
  BY DEF InSequence
<1>2. t = [i \in 1..n |-> s[n + 1 - i]]
  BY DEF Reverse
<1>3. \A i \in 1..n : s[i] \in PageRows
  BY <1>1
<1>4. RowsIn(s) = {s[i] : i \in 1..n} /\ (s # <<>> => n >= 1 /\ Last(s) = s[n] /\ Head(s) = s[1]) /\ (n >= 1 => s # <<>>)
  BY <1>1, RowsAreRows DEF RowsIn
<1> HIDE DEF n, t
<1>5. \A i \in 1..n : n + 1 - i \in 1..n /\ t[i] = s[n + 1 - i] /\ t[n + 1 - i] = s[i]
  <2> SUFFICES ASSUME NEW i \in 1..n PROVE n + 1 - i \in 1..n /\ t[i] = s[n + 1 - i] /\ t[n + 1 - i] = s[i]
    OBVIOUS
  <2>1. n + 1 - i \in 1..n /\ n + 1 - (n + 1 - i) = i
    BY <1>1
  <2> QED BY <1>2, <2>1
<1>6. t \in Seq(PageRows) /\ Len(t) = n
  <2>1. t \in [1..n -> PageRows]
    BY <1>2, <1>3, <1>5
  <2>2. t \in Seq(PageRows)
    BY <1>1, <2>1
  <2>3. DOMAIN t = 1..n
    BY <2>1
  <2> QED BY <1>1, <2>2, <2>3
<1>7. ASSUME NEW i \in 1..n, NEW j \in 1..n, i < j PROVE Before(t[i], t[j], q, c)
  <2>1. n + 1 - i \in 1..n /\ n + 1 - j \in 1..n /\ n + 1 - j < n + 1 - i
    BY <1>1, <1>7
  <2>2. Before(s[n + 1 - j], s[n + 1 - i], q, b)
    BY <1>1, <2>1
  <2>3. Before(t[j], t[i], q, b) /\ t[i] \in PageRows /\ t[j] \in PageRows
    BY <1>3, <1>5, <2>1, <2>2
  <2> QED BY <2>3, BeforeTurnsEither
<1>8. RowsIn(t) = {t[i] : i \in 1..n}
  BY <1>6 DEF RowsIn
<1>9. RowsIn(t) = RowsIn(s)
  <2>1. RowsIn(t) \subseteq RowsIn(s)
    BY <1>4, <1>5, <1>8
  <2>2. ASSUME NEW i \in 1..n PROVE s[i] \in RowsIn(t)
    BY <1>5, <1>8
  <2> QED BY <1>4, <2>1, <2>2
<1>10. t = <<>> <=> s = <<>>
  BY <1>1, <1>4, <1>6, RowsAreRows
<1>11. s # <<>> => Head(t) = Last(s) /\ Last(t) = Head(s)
  <2> SUFFICES ASSUME s # <<>> PROVE Head(t) = Last(s) /\ Last(t) = Head(s)
    OBVIOUS
  <2>1. Last(t) = t[n] /\ Head(t) = t[1] /\ n >= 1
    BY <1>4, <1>6, <1>10, RowsAreRows
  <2>2. 1 \in 1..n /\ n + 1 - 1 = n
    BY <1>1, <2>1
  <2>3. t[1] = s[n] /\ t[n] = s[1]
    BY <1>5, <2>2
  <2> QED BY <1>4, <2>1, <2>3
<1> QED BY <1>6, <1>7, <1>9, <1>10, <1>11 DEF InSequence, t

-----------------------------------------------------------------------------
(* A batch, and what the verifier accepts of it.                           *)

Toward(b) == IF b THEN "backward" ELSE "forward"

\* The places a fetch in a direction can seek from.
Seeks(q, b) == {Missing} \cup {Token(a, Toward(b), q) : a \in PageRows}

Beyond(r, seek, q) == seek # Missing => Past(r, seek, q.orders)

\* The matches of q that were there from the start.
StayedFor(q) == {r \in PageRows \ LateRows : status[r] = "here" /\ r.sid \in q.verified}

\* A token is not mistaken for the absence of one.
LEMMA TokensAreSomething ==
  ASSUME NEW q, IsPaged(q), NEW a \in PageRows, NEW toward \in {"forward", "backward"}
  PROVE  Token(a, toward, q) # Missing
<1>1. Token(a, toward, q) \in Tokens
  BY DEF Tokens, IsPaged, IsAsked
<1> QED BY <1>1, PagesAssumption

\* To be past a token is to come after the row it was made of.
LEMMA BeyondARow ==
  ASSUME NEW q, IsPaged(q), NEW b \in BOOLEAN, NEW a \in PageRows, NEW r \in PageRows
  PROVE  Beyond(r, Token(a, Toward(b), q), q) <=> Before(a, r, q, b)
<1>1. Toward(b) \in {"forward", "backward"} /\ (b <=> Toward(b) = "backward")
  BY DEF Toward
<1>2. Token(a, Toward(b), q) # Missing
  BY <1>1, TokensAreSomething
<1>3. Past(r, Token(a, Toward(b), q), q.orders) <=> Before(a, r, q, b)
  BY <1>1, SeekIsAfter
<1> QED BY <1>2, <1>3 DEF Beyond

\* A batch is the first n of what is found, in order; what it leaves out comes after it.
LEMMA BatchInSequence ==
  ASSUME NEW q, IsPaged(q), NEW b \in BOOLEAN, NEW seek, NEW n \in Nat, n > 0
  PROVE  /\ InSequence(Batch(q, seek, b, n), q, b)
         /\ Len(Batch(q, seek, b, n)) \in Nat /\ Len(Batch(q, seek, b, n)) <= n
         /\ RowsIn(Batch(q, seek, b, n)) \subseteq Found(q, seek)
         /\ Len(Batch(q, seek, b, n)) < n => RowsIn(Batch(q, seek, b, n)) = Found(q, seek)
         /\ \A r \in Found(q, seek) \ RowsIn(Batch(q, seek, b, n)) :
              Batch(q, seek, b, n) # <<>> /\ Before(Last(Batch(q, seek, b, n)), r, q, b)
<1> DEFINE S == Found(q, seek)
           s == InOrder(S, q, b)
           B == Batch(q, seek, b, n)
<1>1. S \in SUBSET PageRows
  BY DEF Found
<1>2. B = IF Len(s) > n THEN SubSeq(s, 1, n) ELSE s
  BY DEF Batch
<1> HIDE DEF S
<1>3. InSequence(s, q, b) /\ RowsIn(s) = S
  BY <1>1, InOrderIsSorted
<1> HIDE DEF s, B
<1>4. s \in Seq(PageRows) /\ Len(s) \in Nat
  BY <1>3 DEF InSequence
<1>5. CASE ~(Len(s) > n)
  <2>1. B = s /\ Len(s) <= n
    BY <1>2, <1>4, <1>5
  <2> QED BY <1>3, <1>4, <2>1 DEF B, S
<1>6. CASE Len(s) > n
  <2>1. B = SubSeq(s, 1, n)
    BY <1>2, <1>6
  <2>2. /\ InSequence(B, q, b) /\ Len(B) = n /\ RowsIn(B) \subseteq S
        /\ \A r \in S \ RowsIn(B) : \A i \in 1..n : Before(B[i], r, q, b)
    <3>1. n < Len(s)
      BY <1>4, <1>6
    <3>2. /\ InSequence(SubSeq(s, 1, n), q, b) /\ Len(SubSeq(s, 1, n)) = n
          /\ RowsIn(SubSeq(s, 1, n)) \subseteq RowsIn(s)
          /\ \A r \in RowsIn(s) \ RowsIn(SubSeq(s, 1, n)) : \A i \in 1..n : Before(SubSeq(s, 1, n)[i], r, q, b)
      BY <1>3, <3>1, FrontInSequence
    <3> QED BY <1>3, <2>1, <3>2
  <2>3. B # <<>> /\ Last(B) = B[n] /\ n \in 1..n
    BY <2>2 DEF Last
  <2>4. \A r \in S \ RowsIn(B) : B # <<>> /\ Before(Last(B), r, q, b)
    BY <2>2, <2>3
  <2> QED BY <2>2, <2>4 DEF B, S
<1> QED BY <1>5, <1>6

\* What is accepted of a batch keeps its order.
LEMMA AcceptedInSequence ==
  ASSUME NEW q, IsPaged(q), NEW b \in BOOLEAN, NEW s, InSequence(s, q, b)
  PROVE  /\ InSequence(Accepted(q, s, b), q, b)
         /\ RowsIn(Accepted(q, s, b)) = {r \in RowsIn(s) : r.sid \in q.verified}
<1> DEFINE S == {r \in RowsIn(s) : r.sid \in q.verified}
<1>1. DOMAIN s = 1..Len(s) /\ RowsIn(s) \subseteq PageRows
  BY RowsAreRows DEF InSequence
<1>2. Accepted(q, s, b) = InOrder(S, q, b)
  BY <1>1 DEF Accepted, RowsIn
<1>3. S \in SUBSET PageRows
  BY <1>1
<1> HIDE DEF S
<1>4. InSequence(InOrder(S, q, b), q, b) /\ RowsIn(InOrder(S, q, b)) = S
  BY <1>3, InOrderIsSorted
<1> QED BY <1>2, <1>4 DEF S

-----------------------------------------------------------------------------
(* A page being fetched.                                                   *)

\* f is what has been found for the page of size n behind the cursor c, and
\* nothing that stayed is left out between the cursor and the seek s.
FetchIs(q, n, c, s, f, b) ==
  /\ IsPaged(q) /\ n \in PageSizes /\ c \in Seeks(q, b) /\ s \in Seeks(q, b)
  /\ InSequence(f, q, b)
  /\ \A r \in RowsIn(f) : r.sid \in q.verified /\ Beyond(r, c, q) /\ ~Beyond(r, s, q)
  /\ \A r \in PageRows : Beyond(r, s, q) => Beyond(r, c, q)
  /\ \A r \in StayedFor(q) : Beyond(r, c, q) => r \in RowsIn(f) \/ Beyond(r, s, q)

\* The rows v fill a page behind the cursor c, with or without more behind it.
FillsPage(q, c, v, more, b) ==
  /\ IsPaged(q) /\ c \in Seeks(q, b)
  /\ InSequence(v, q, b)
  /\ \A r \in RowsIn(v) : r.sid \in q.verified /\ Beyond(r, c, q)
  /\ \A r \in StayedFor(q) \ RowsIn(v) : Beyond(r, c, q) => more /\ Before(Last(v), r, q, b)
  /\ more => v # <<>>

\* A batch B is read, and g is found with it.
BatchRead(q, n, s, f, b, B, g) == B = Batch(q, s, b, n + 1) /\ g = f \o Accepted(q, B, b)

BatchAdding(q, n, c, s, f, b, B, g) ==
  /\ InSequence(B, q, b) /\ Len(B) \in Nat /\ Len(B) <= n + 1
  /\ \A r \in RowsIn(B) : Beyond(r, s, q) /\ Beyond(r, c, q)
  /\ InSequence(g, q, b) /\ RowsIn(g) = RowsIn(f) \cup {r \in RowsIn(B) : r.sid \in q.verified}
  /\ \A r \in RowsIn(g) : r.sid \in q.verified /\ Beyond(r, c, q)
  /\ \A x \in RowsIn(f) : \A y \in PageRows : Beyond(y, s, q) => Before(x, y, q, b)
  /\ \A r \in StayedFor(q) : Beyond(r, c, q) =>
       r \in RowsIn(g) \/ (B # <<>> /\ r \in Found(q, s) /\ r \notin RowsIn(B) /\ Before(Last(B), r, q, b))
  /\ Len(B) < n + 1 => \A r \in StayedFor(q) : Beyond(r, c, q) => r \in RowsIn(g)

\* What another batch adds to it.
LEMMA BatchAdds ==
  ASSUME NEW q, NEW n, NEW c, NEW s, NEW f, NEW b \in BOOLEAN, FetchIs(q, n, c, s, f, b),
         NEW B, NEW g, BatchRead(q, n, s, f, b, B, g)
  PROVE  BatchAdding(q, n, c, s, f, b, B, g)
<1>1. IsPaged(q) /\ n \in Nat /\ n + 1 \in Nat /\ n + 1 > 0 /\ s \in Seeks(q, b)
  BY PagesAssumption DEF FetchIs
<1>2. /\ InSequence(B, q, b) /\ Len(B) \in Nat /\ Len(B) <= n + 1 /\ RowsIn(B) \subseteq Found(q, s)
      /\ Len(B) < n + 1 => RowsIn(B) = Found(q, s)
      /\ \A r \in Found(q, s) \ RowsIn(B) : B # <<>> /\ Before(Last(B), r, q, b)
  BY <1>1, BatchInSequence DEF BatchRead
<1>3. \A r \in RowsIn(B) : r \in PageRows /\ Beyond(r, s, q) /\ Beyond(r, c, q)
  BY <1>2 DEF Found, Beyond, FetchIs
<1> PICK A : A = Accepted(q, B, b)
  OBVIOUS
<1>4. InSequence(A, q, b) /\ RowsIn(A) = {r \in RowsIn(B) : r.sid \in q.verified}
  BY <1>1, <1>2, AcceptedInSequence
<1>5. InSequence(f, q, b) /\ RowsIn(f) \subseteq PageRows
  BY RowsAreRows DEF FetchIs, InSequence
<1>6. ASSUME NEW x \in RowsIn(f), NEW y \in PageRows, Beyond(y, s, q) PROVE Before(x, y, q, b)
  <2>1. ~Beyond(x, s, q) /\ x \in PageRows
    BY <1>5 DEF FetchIs
  <2>2. s # Missing
    BY <2>1 DEF Beyond
  <2>3. PICK a \in PageRows : s = Token(a, Toward(b), q)
    BY <1>1, <2>2 DEF Seeks
  <2>4. Before(a, y, q, b) /\ ~Before(a, x, q, b)
    BY <1>1, <1>6, <2>1, <2>3, BeyondARow
  <2>5. CASE x = a
    BY <2>4, <2>5
  <2>6. CASE x # a
    <3>1. Before(x, a, q, b)
      BY <1>1, <2>1, <2>4, <2>6, BeforeTotal
    <3> QED BY <1>1, <2>1, <2>4, <3>1, BeforeTransitive
  <2> QED BY <2>5, <2>6
<1>7. /\ InSequence(g, q, b)
      /\ RowsIn(g) = RowsIn(f) \cup {r \in RowsIn(B) : r.sid \in q.verified}
  <2>1. Joined(g, f, A)
    BY DEF Joined, BatchRead
  <2>2. \A x \in RowsIn(f) : \A y \in RowsIn(A) : Before(x, y, q, b)
    BY <1>3, <1>4, <1>6
  <2>3. InSequence(f, q, b) /\ InSequence(A, q, b)
    BY <1>4, <1>5
  <2>4. InSequence(g, q, b)
    BY ONLY b \in BOOLEAN, <2>1, <2>2, <2>3, JoinedInSequence, Zenon
  <2>5. RowsIn(g) = RowsIn(f) \cup RowsIn(A)
    <3>1. f \in Seq(PageRows) /\ A \in Seq(PageRows)
      BY <2>3 DEF InSequence
    <3> QED BY ONLY <2>1, <3>1, JoinedRows
  <2> QED BY <1>4, <2>4, <2>5
<1>8. \A r \in RowsIn(g) : r.sid \in q.verified /\ Beyond(r, c, q)
  BY <1>3, <1>7 DEF FetchIs
<1>9. ASSUME NEW r \in StayedFor(q), Beyond(r, c, q), r \notin RowsIn(g)
      PROVE  r \in Found(q, s) /\ r \notin RowsIn(B)
  <2>1. r \in PageRows /\ status[r] = "here" /\ r.sid \in q.verified
    BY DEF StayedFor
  <2>2. r.sid \in q.candidates
    BY <1>1, <2>1, PagesAssumption DEF IsPaged, IsAsked
  <2>3. Beyond(r, s, q)
    BY <1>7, <1>9 DEF FetchIs
  <2> QED BY <1>7, <1>9, <2>1, <2>2, <2>3 DEF Found, Beyond
<1>10. ASSUME NEW r \in StayedFor(q), Beyond(r, c, q), r \notin RowsIn(g)
       PROVE  B # <<>> /\ r \in Found(q, s) /\ r \notin RowsIn(B) /\ Before(Last(B), r, q, b)
  BY <1>2, <1>9, <1>10
<1>11. ASSUME Len(B) < n + 1, NEW r \in StayedFor(q), Beyond(r, c, q) PROVE r \in RowsIn(g)
  BY <1>2, <1>9, <1>11
<1> QED BY <1>2, <1>3, <1>6, <1>7, <1>8, <1>10, <1>11 DEF BatchAdding

\* The page is full before the batch ends.
LEMMA FullPage ==
  ASSUME NEW q, NEW n, NEW c, NEW s, NEW f, NEW b \in BOOLEAN, FetchIs(q, n, c, s, f, b),
         NEW B, NEW g, BatchRead(q, n, s, f, b, B, g), Len(g) > n,
         NEW more \in BOOLEAN, more
  PROVE  FillsPage(q, c, SubSeq(g, 1, n), more, b)
<1> DEFINE v == SubSeq(g, 1, n)
<1>1. IsPaged(q) /\ n \in Nat /\ n > 0 /\ c \in Seeks(q, b)
  BY PagesAssumption DEF FetchIs
<1>2. /\ InSequence(g, q, b)
      /\ RowsIn(g) = RowsIn(f) \cup {r \in RowsIn(B) : r.sid \in q.verified}
      /\ \A r \in RowsIn(g) : r.sid \in q.verified /\ Beyond(r, c, q)
      /\ InSequence(B, q, b)
  BY BatchAdds DEF BatchAdding
<1>3. Len(g) \in Nat /\ RowsIn(g) \subseteq PageRows
  BY <1>2, RowsAreRows DEF InSequence
<1>4. /\ InSequence(v, q, b) /\ Len(v) = n /\ RowsIn(v) \subseteq RowsIn(g)
      /\ \A r \in RowsIn(g) \ RowsIn(v) : \A i \in 1..n : Before(v[i], r, q, b)
  <2>1. n < Len(g)
    BY <1>1, <1>3
  <2> QED BY <1>1, <1>2, <2>1, FrontInSequence
<1> HIDE DEF v
<1>5. v # <<>> /\ Last(v) = v[n] /\ n \in 1..n /\ Last(v) \in RowsIn(v)
  <2>1. v # <<>> /\ Last(v) = v[n] /\ n \in 1..n
    BY <1>1, <1>4 DEF Last
  <2> QED BY <1>4, <2>1 DEF RowsIn
<1>6. ASSUME NEW r \in StayedFor(q), r \notin RowsIn(v), Beyond(r, c, q) PROVE Before(Last(v), r, q, b)
  <2>1. r \in PageRows
    BY DEF StayedFor
  <2>2. CASE r \in RowsIn(g)
    BY <1>4, <1>5, <1>6, <2>2
  <2>3. CASE r \notin RowsIn(g)
    <3>1. B # <<>> /\ r \in Found(q, s) /\ r \notin RowsIn(B) /\ Before(Last(B), r, q, b)
      BY <1>6, <2>3, BatchAdds DEF BatchAdding
    <3>2. Last(v) \in RowsIn(f) \cup RowsIn(B) /\ Last(v) \in PageRows
      BY <1>2, <1>3, <1>4, <1>5
    <3>3. CASE Last(v) \in RowsIn(f)
      <4>1. Beyond(r, s, q)
        BY <3>1 DEF Found, Beyond
      <4>2. \A x \in RowsIn(f) : \A y \in PageRows : Beyond(y, s, q) => Before(x, y, q, b)
        BY BatchAdds DEF BatchAdding
      <4> QED BY <2>1, <3>3, <4>1, <4>2
    <3>4. CASE Last(v) \in RowsIn(B)
      <4>1. B \in Seq(PageRows) /\ \A i, j \in 1..Len(B) : i < j => Before(B[i], B[j], q, b)
        BY <1>2 DEF InSequence
      <4>2. PICK i \in 1..Len(B) : Last(v) = B[i]
        BY <3>4 DEF RowsIn
      <4>3. Last(B) = B[Len(B)] /\ Len(B) \in Nat /\ Len(B) \in 1..Len(B) /\ Last(B) \in PageRows
        BY <3>1, <4>1, RowsAreRows
      <4>4. CASE i = Len(B)
        BY <3>1, <4>2, <4>3, <4>4
      <4>5. CASE i < Len(B)
        <5>1. Before(Last(v), Last(B), q, b)
          BY <4>1, <4>2, <4>3, <4>5
        <5> QED BY <1>1, <2>1, <3>1, <3>2, <4>3, <5>1, BeforeTransitive
      <4> QED BY <4>3, <4>4, <4>5
    <3> QED BY <3>2, <3>3, <3>4
  <2> QED BY <2>2, <2>3
<1>7. \A r \in RowsIn(v) : r.sid \in q.verified /\ Beyond(r, c, q)
  BY <1>2, <1>4
<1> QED BY <1>1, <1>4, <1>5, <1>6, <1>7 DEF FillsPage, v

\* The batch comes back short.
LEMMA LastPage ==
  ASSUME NEW q, NEW n, NEW c, NEW s, NEW f, NEW b \in BOOLEAN, FetchIs(q, n, c, s, f, b),
         NEW B, NEW g, BatchRead(q, n, s, f, b, B, g), Len(B) < n + 1,
         NEW more \in BOOLEAN, ~more
  PROVE  FillsPage(q, c, g, more, b)
<1>1. IsPaged(q) /\ c \in Seeks(q, b)
  BY DEF FetchIs
<1>2. InSequence(g, q, b)
  BY BatchAdds DEF BatchAdding
<1>3. \A r \in RowsIn(g) : r.sid \in q.verified /\ Beyond(r, c, q)
  BY BatchAdds DEF BatchAdding
<1>4. \A r \in StayedFor(q) : Beyond(r, c, q) => r \in RowsIn(g)
  BY BatchAdds DEF BatchAdding
<1> QED BY <1>1, <1>2, <1>3, <1>4 DEF FillsPage

\* The next batch seeks from the last candidate of this one.
LEMMA NextSeek ==
  ASSUME NEW q, NEW n, NEW c, NEW s, NEW f, NEW b \in BOOLEAN, FetchIs(q, n, c, s, f, b),
         NEW B, NEW g, BatchRead(q, n, s, f, b, B, g), Len(B) = n + 1,
         NEW t, t = Token(Last(B), Toward(b), q)
  PROVE  FetchIs(q, n, c, t, g, b)
<1>1. IsPaged(q) /\ n \in PageSizes /\ n \in Nat /\ c \in Seeks(q, b) /\ s \in Seeks(q, b)
  BY PagesAssumption DEF FetchIs
<1>2. /\ InSequence(g, q, b)
      /\ RowsIn(g) = RowsIn(f) \cup {r \in RowsIn(B) : r.sid \in q.verified}
      /\ InSequence(B, q, b)
  BY BatchAdds DEF BatchAdding
<1>3. \A r \in RowsIn(g) : r.sid \in q.verified /\ Beyond(r, c, q)
  BY BatchAdds DEF BatchAdding
<1>4. \A x \in RowsIn(f) : \A y \in PageRows : Beyond(y, s, q) => Before(x, y, q, b)
  BY BatchAdds DEF BatchAdding
<1>5. \A r \in RowsIn(B) : Beyond(r, s, q) /\ Beyond(r, c, q)
  BY BatchAdds DEF BatchAdding
<1>6. /\ B \in Seq(PageRows) /\ Last(B) = B[Len(B)] /\ Last(B) \in RowsIn(B) /\ Last(B) \in PageRows
      /\ Len(B) \in Nat /\ Len(B) \in 1..Len(B)
      /\ \A i, j \in 1..Len(B) : i < j => Before(B[i], B[j], q, b)
  <2>1. B \in Seq(PageRows) /\ \A i, j \in 1..Len(B) : i < j => Before(B[i], B[j], q, b)
    BY <1>2 DEF InSequence
  <2>2. B # <<>> /\ Len(B) \in Nat /\ Len(B) \in 1..Len(B)
    BY <1>1, <2>1
  <2> QED BY <2>1, <2>2, RowsAreRows
<1>7. t \in Seeks(q, b)
  BY <1>6 DEF Seeks
<1>8. \A r \in PageRows : Beyond(r, t, q) <=> Before(Last(B), r, q, b)
  BY <1>1, <1>6, BeyondARow
<1>9. ASSUME NEW r \in PageRows, Before(Last(B), r, q, b) PROVE Beyond(r, s, q)
  <2>1. CASE s = Missing
    BY <2>1 DEF Beyond
  <2>2. CASE s # Missing
    <3>1. PICK a \in PageRows : s = Token(a, Toward(b), q)
      BY <1>1, <2>2 DEF Seeks
    <3>2. Before(a, Last(B), q, b)
      BY <1>1, <1>5, <1>6, <3>1, BeyondARow
    <3>3. Before(a, r, q, b)
      BY <1>1, <1>6, <1>9, <3>2, BeforeTransitive
    <3> QED BY <1>1, <3>1, <3>3, BeyondARow
  <2> QED BY <2>1, <2>2
<1>10. \A r \in PageRows : Beyond(r, t, q) => Beyond(r, c, q)
  BY <1>8, <1>9 DEF FetchIs
<1>11. ASSUME NEW r \in RowsIn(g) PROVE ~Beyond(r, t, q)
  <2>1. r \in PageRows /\ (r \in RowsIn(f) \/ r \in RowsIn(B))
    <3>1. RowsIn(g) \subseteq PageRows
      BY <1>2, RowsAreRows DEF InSequence
    <3> QED BY <1>2, <3>1
  <2>2. SUFFICES ASSUME Before(Last(B), r, q, b) PROVE FALSE
    BY <1>8, <2>1
  <2>3. ~Before(r, Last(B), q, b) /\ r # Last(B)
    <3>1. ~Before(r, r, q, b)
      BY <1>1, <2>1, BeforeIrreflexive
    <3>2. ASSUME Before(r, Last(B), q, b) PROVE Before(r, r, q, b)
      BY <1>1, <1>6, <2>1, <2>2, <3>2, BeforeTransitive
    <3> QED BY <2>2, <3>1, <3>2
  <2>4. CASE r \in RowsIn(f)
    <3>1. Beyond(Last(B), s, q)
      BY <1>5, <1>6
    <3> QED BY <1>4, <1>6, <2>3, <2>4, <3>1
  <2>5. CASE r \in RowsIn(B)
    <3>1. PICK i \in 1..Len(B) : r = B[i]
      BY <2>5 DEF RowsIn
    <3>2. i < Len(B)
      BY <1>6, <2>3, <3>1
    <3> QED BY <1>6, <2>3, <3>1, <3>2
  <2> QED BY <2>1, <2>4, <2>5
<1>12. ASSUME NEW r \in StayedFor(q), Beyond(r, c, q), r \notin RowsIn(g) PROVE Beyond(r, t, q)
  <2>1. Before(Last(B), r, q, b)
    BY <1>12, BatchAdds DEF BatchAdding
  <2>2. r \in PageRows
    BY DEF StayedFor
  <2> QED BY <1>8, <2>1, <2>2
<1> QED BY <1>1, <1>2, <1>3, <1>7, <1>10, <1>11, <1>12 DEF FetchIs

-----------------------------------------------------------------------------
(* The page as the client sees it, in the order it asked for.              *)

AsAsked(rows, q) ==
  /\ rows \in Seq(PageRows)
  /\ \A i, j \in 1..Len(rows) : i < j => Ahead(rows[i], rows[j], q.orders)

AllVerified(rows, q) == \A r \in RowsIn(rows) : r.sid \in q.verified

\* The order asked for is the forward sort.
LEMMA AheadIs ==
  ASSUME NEW q, IsPaged(q), NEW b \in BOOLEAN, NEW x \in PageRows, NEW y \in PageRows
  PROVE  /\ ~b => (Ahead(x, y, q.orders) <=> Before(x, y, q, b))
         /\ b => (Ahead(y, x, q.orders) <=> Before(x, y, q, b))
<1>1. ASSUME ~b PROVE Ahead(x, y, q.orders) <=> Before(x, y, q, b)
  <2>1. b = FALSE
    BY <1>1
  <2> QED BY <2>1, BeforeAsAsked, Zenon
<1>2. ASSUME b PROVE Ahead(y, x, q.orders) <=> Before(x, y, q, b)
  <2>1. PICK c \in BOOLEAN : ~c /\ b # c
    <3>1. FALSE \in BOOLEAN /\ ~FALSE /\ b # FALSE
      BY <1>2
    <3> QED BY <3>1
  <2>2. Before(x, y, q, b) <=> Before(y, x, q, c)
    BY <2>1, BeforeTurnsEither
  <2>3. c = FALSE
    BY <2>1
  <2>4. Ahead(y, x, q.orders) <=> Before(y, x, q, c)
    BY <2>3, BeforeAsAsked, Zenon
  <2> QED BY <2>2, <2>4
<1> QED BY <1>1, <1>2

\* So it is a strict total order as well.
LEMMA AheadOrder ==
  ASSUME NEW q, IsPaged(q), NEW x \in PageRows, NEW y \in PageRows, NEW z \in PageRows
  PROVE  /\ ~Ahead(x, x, q.orders)
         /\ Ahead(x, y, q.orders) /\ Ahead(y, z, q.orders) => Ahead(x, z, q.orders)
         /\ x # y => Ahead(x, y, q.orders) \/ Ahead(y, x, q.orders)
<1>1. PICK b \in BOOLEAN : ~b
  <2>1. FALSE \in BOOLEAN /\ ~FALSE
    OBVIOUS
  <2> QED BY <2>1
<1>2. ~Ahead(x, x, q.orders)
  <2>1. Ahead(x, x, q.orders) <=> Before(x, x, q, b)
    BY <1>1, AheadIs
  <2> QED BY <1>1, <2>1, BeforeIrreflexive
<1>3. /\ Ahead(x, y, q.orders) <=> Before(x, y, q, b)
      /\ Ahead(y, z, q.orders) <=> Before(y, z, q, b)
      /\ Ahead(x, z, q.orders) <=> Before(x, z, q, b)
      /\ Ahead(y, x, q.orders) <=> Before(y, x, q, b)
  <2>1. Ahead(x, y, q.orders) <=> Before(x, y, q, b)
    BY <1>1, AheadIs
  <2>2. Ahead(y, z, q.orders) <=> Before(y, z, q, b)
    BY <1>1, AheadIs
  <2>3. Ahead(x, z, q.orders) <=> Before(x, z, q, b)
    BY <1>1, AheadIs
  <2>4. Ahead(y, x, q.orders) <=> Before(y, x, q, b)
    BY <1>1, AheadIs
  <2> QED BY <2>1, <2>2, <2>3, <2>4
<1>4. Ahead(x, y, q.orders) /\ Ahead(y, z, q.orders) => Ahead(x, z, q.orders)
  BY <1>1, <1>3, BeforeTransitive
<1>5. x # y => Ahead(x, y, q.orders) \/ Ahead(y, x, q.orders)
  BY <1>1, <1>3, BeforeTotal
<1> QED BY <1>2, <1>4, <1>5

LEMMA ForwardAsAsked ==
  ASSUME NEW q, IsPaged(q), NEW b \in BOOLEAN, ~b, NEW s, InSequence(s, q, b)
  PROVE  AsAsked(s, q)
<1>1. s \in Seq(PageRows) /\ \A i, j \in 1..Len(s) : i < j => Before(s[i], s[j], q, b)
  BY DEF InSequence
<1>2. \A i \in 1..Len(s) : s[i] \in PageRows
  BY <1>1
<1>3. ASSUME NEW i \in 1..Len(s), NEW j \in 1..Len(s), i < j PROVE Ahead(s[i], s[j], q.orders)
  <2>1. Before(s[i], s[j], q, b) /\ s[i] \in PageRows /\ s[j] \in PageRows
    BY <1>1, <1>2, <1>3
  <2> QED BY <2>1, AheadIs
<1> QED BY <1>1, <1>3 DEF AsAsked

\* Behind the row a, with or without more behind that.
FillsForward(q, a, rows, more) ==
  /\ AsAsked(rows, q) /\ AllVerified(rows, q)
  /\ \A r \in RowsIn(rows) : Ahead(a, r, q.orders)
  /\ \A r \in StayedFor(q) \ RowsIn(rows) : Ahead(a, r, q.orders) => more /\ Ahead(Last(rows), r, q.orders)
  /\ more => rows # <<>>

\* Ahead of the row a.
FillsBackward(q, a, rows, more) ==
  /\ AsAsked(rows, q) /\ AllVerified(rows, q)
  /\ \A r \in RowsIn(rows) : Ahead(r, a, q.orders)
  /\ \A r \in StayedFor(q) \ RowsIn(rows) : Ahead(r, a, q.orders) => more /\ Ahead(r, Head(rows), q.orders)
  /\ more => rows # <<>>

FillsFirst(q, rows, more) ==
  /\ AsAsked(rows, q) /\ AllVerified(rows, q)
  /\ \A r \in StayedFor(q) \ RowsIn(rows) : more /\ Ahead(Last(rows), r, q.orders)
  /\ more => rows # <<>>

\* A page behind a forward token is the stretch after its row ...
LEMMA PageGoesForward ==
  ASSUME NEW q, NEW b \in BOOLEAN, ~b, NEW more \in BOOLEAN, NEW v, NEW c, FillsPage(q, c, v, more, b),
         NEW a \in PageRows, c = Token(a, Toward(b), q)
  PROVE  FillsForward(q, a, v, more)
<1>1. IsPaged(q) /\ InSequence(v, q, b) /\ v \in Seq(PageRows) /\ (more => v # <<>>)
  BY DEF FillsPage, InSequence
<1>2. AsAsked(v, q) /\ RowsIn(v) \subseteq PageRows
  BY <1>1, ForwardAsAsked, RowsAreRows
<1>3. \A r \in PageRows : Beyond(r, c, q) <=> Ahead(a, r, q.orders)
  <2> SUFFICES ASSUME NEW r \in PageRows PROVE Beyond(r, c, q) <=> Ahead(a, r, q.orders)
    OBVIOUS
  <2>1. Beyond(r, Token(a, Toward(b), q), q) <=> Before(a, r, q, b)
    BY <1>1, BeyondARow
  <2>2. Ahead(a, r, q.orders) <=> Before(a, r, q, b)
    BY <1>1, AheadIs
  <2> QED BY <2>1, <2>2
<1>4. AllVerified(v, q) /\ \A r \in RowsIn(v) : Ahead(a, r, q.orders)
  BY <1>2, <1>3 DEF FillsPage, AllVerified
<1>5. ASSUME NEW r \in StayedFor(q), r \notin RowsIn(v), Ahead(a, r, q.orders)
      PROVE  more /\ Ahead(Last(v), r, q.orders)
  <2>1. r \in PageRows
    BY DEF StayedFor
  <2>2. more /\ Before(Last(v), r, q, b)
    BY <1>3, <1>5, <2>1 DEF FillsPage
  <2>3. Last(v) \in PageRows
    BY <1>1, <1>2, <2>2, RowsAreRows
  <2> QED BY <1>1, <2>1, <2>2, <2>3, AheadIs
<1> QED BY <1>1, <1>2, <1>4, <1>5 DEF FillsForward

\* ... the first page the stretch at the start ...
LEMMA PageGoesFirst ==
  ASSUME NEW q, NEW b \in BOOLEAN, ~b, NEW more \in BOOLEAN, NEW v, NEW c, FillsPage(q, c, v, more, b), c = Missing
  PROVE  FillsFirst(q, v, more)
<1>1. IsPaged(q) /\ InSequence(v, q, b) /\ v \in Seq(PageRows) /\ (more => v # <<>>)
  BY DEF FillsPage, InSequence
<1>2. AsAsked(v, q) /\ RowsIn(v) \subseteq PageRows
  BY <1>1, ForwardAsAsked, RowsAreRows
<1>3. AllVerified(v, q)
  BY DEF FillsPage, AllVerified
<1>4. ASSUME NEW r \in StayedFor(q), r \notin RowsIn(v) PROVE more /\ Ahead(Last(v), r, q.orders)
  <2>1. r \in PageRows /\ Beyond(r, c, q)
    BY DEF StayedFor, Beyond
  <2>2. more /\ Before(Last(v), r, q, b)
    BY <1>4, <2>1 DEF FillsPage
  <2>3. Last(v) \in PageRows
    BY <1>1, <1>2, <2>2, RowsAreRows
  <2> QED BY <1>1, <2>1, <2>2, <2>3, AheadIs
<1> QED BY <1>1, <1>2, <1>3, <1>4 DEF FillsFirst

\* ... and a page behind a backward token, reversed, the stretch before its row.
LEMMA PageGoesBackward ==
  ASSUME NEW q, NEW b \in BOOLEAN, b, NEW more \in BOOLEAN, NEW v, NEW c, FillsPage(q, c, v, more, b),
         NEW a \in PageRows, c = Token(a, Toward(b), q), NEW rows, rows = Reverse(v)
  PROVE  FillsBackward(q, a, rows, more)
<1>1. IsPaged(q) /\ InSequence(v, q, b) /\ v \in Seq(PageRows) /\ (more => v # <<>>)
  BY DEF FillsPage, InSequence
<1>2. PICK d \in BOOLEAN : ~d /\ b # d
  <2>1. FALSE \in BOOLEAN /\ ~FALSE /\ b # FALSE
    OBVIOUS
  <2> QED BY <2>1
<1>3. InSequence(Reverse(v), q, d)
  BY <1>1, <1>2, ReversedInSequence
<1>4. RowsIn(Reverse(v)) = RowsIn(v) /\ (v # <<>> => Reverse(v) # <<>>) /\ (v # <<>> => Head(Reverse(v)) = Last(v))
  <2>1. RowsIn(Reverse(v)) = RowsIn(v)
    BY <1>1, <1>2, ReversedInSequence
  <2>2. v # <<>> => Reverse(v) # <<>>
    <3>1. v # <<>> => Head(v) \in RowsIn(Reverse(v))
      BY <1>1, <2>1, RowsAreRows
    <3>2. RowsIn(<<>>) = {}
      BY EmptyInSequence
    <3> QED BY <3>1, <3>2
  <2>3. v # <<>> => Head(Reverse(v)) = Last(v)
    BY <1>1, <1>2, ReversedInSequence
  <2> QED BY <2>1, <2>2, <2>3
<1>5. AsAsked(rows, q) /\ RowsIn(v) \subseteq PageRows
  BY <1>1, <1>2, <1>3, ForwardAsAsked, RowsAreRows
<1>6. \A r \in PageRows : Beyond(r, c, q) <=> Ahead(r, a, q.orders)
  <2> SUFFICES ASSUME NEW r \in PageRows PROVE Beyond(r, c, q) <=> Ahead(r, a, q.orders)
    OBVIOUS
  <2>1. Beyond(r, Token(a, Toward(b), q), q) <=> Before(a, r, q, b)
    BY <1>1, BeyondARow
  <2>2. Ahead(r, a, q.orders) <=> Before(a, r, q, b)
    BY <1>1, AheadIs
  <2> QED BY <2>1, <2>2
<1>7. AllVerified(rows, q) /\ \A r \in RowsIn(rows) : Ahead(r, a, q.orders)
  BY <1>4, <1>5, <1>6 DEF FillsPage, AllVerified
<1>8. ASSUME NEW r \in StayedFor(q), r \notin RowsIn(rows), Ahead(r, a, q.orders)
      PROVE  more /\ Ahead(r, Head(rows), q.orders)
  <2>1. r \in PageRows
    BY DEF StayedFor
  <2>2. more /\ Before(Last(v), r, q, b)
    BY <1>4, <1>6, <1>8, <2>1 DEF FillsPage
  <2>3. Last(v) \in PageRows /\ Head(rows) = Last(v)
    BY <1>1, <1>4, <1>5, <2>2, RowsAreRows
  <2> QED BY <1>1, <2>1, <2>2, <2>3, AheadIs
<1> QED BY <1>1, <1>4, <1>5, <1>7, <1>8 DEF FillsBackward

-----------------------------------------------------------------------------
(* What the rows of some pages leave out.                                  *)

\* r is before the rows, which do not start yet, or after them.
IsOutside(r, rows, q, start, end) ==
  IF rows = <<>> THEN ~(start \/ end)
  ELSE \/ Ahead(r, Head(rows), q.orders) /\ ~start
       \/ Ahead(Last(rows), r, q.orders) /\ ~end

Covers(rows, q, start, end) ==
  /\ AsAsked(rows, q) /\ AllVerified(rows, q)
  /\ \A r \in StayedFor(q) \ RowsIn(rows) : IsOutside(r, rows, q, start, end)

LEMMA EndsOfRows ==
  ASSUME NEW q, NEW rows, AsAsked(rows, q)
  PROVE  /\ RowsIn(rows) \subseteq PageRows
         /\ rows # <<>> => /\ Head(rows) \in RowsIn(rows) /\ Last(rows) \in RowsIn(rows)
                           /\ \A r \in RowsIn(rows) : r = Last(rows) \/ Ahead(r, Last(rows), q.orders)
                           /\ \A r \in RowsIn(rows) : r = Head(rows) \/ Ahead(Head(rows), r, q.orders)
<1>1. rows \in Seq(PageRows) /\ Len(rows) \in Nat /\ \A i, j \in 1..Len(rows) : i < j => Ahead(rows[i], rows[j], q.orders)
  BY DEF AsAsked
<1>2. RowsIn(rows) \subseteq PageRows
  BY <1>1, RowsAreRows
<1>3. ASSUME rows # <<>>
      PROVE  /\ Head(rows) \in RowsIn(rows) /\ Last(rows) \in RowsIn(rows)
             /\ Last(rows) = rows[Len(rows)] /\ Head(rows) = rows[1] /\ Len(rows) \in 1..Len(rows) /\ 1 \in 1..Len(rows)
  <2>1. Len(rows) >= 1
    BY <1>1, <1>3, RowsAreRows
  <2> QED BY <1>1, <1>3, <2>1, RowsAreRows
<1>4. ASSUME rows # <<>>, NEW r \in RowsIn(rows)
      PROVE  (r = Last(rows) \/ Ahead(r, Last(rows), q.orders)) /\ (r = Head(rows) \/ Ahead(Head(rows), r, q.orders))
  <2>1. PICK i \in 1..Len(rows) : r = rows[i]
    BY DEF RowsIn
  <2>2. (i = Len(rows) \/ i < Len(rows)) /\ (i = 1 \/ 1 < i)
    BY <1>1
  <2> QED BY <1>1, <1>3, <1>4, <2>1, <2>2
<1> QED BY <1>2, <1>3, <1>4

LEMMA JoinedAsAsked ==
  ASSUME NEW q, NEW s, AsAsked(s, q), NEW t, AsAsked(t, q), NEW u, Joined(u, s, t),
         \A x \in RowsIn(s) : \A y \in RowsIn(t) : Ahead(x, y, q.orders)
  PROVE  AsAsked(u, q)
<1>1. /\ s \in Seq(PageRows) /\ \A i, j \in 1..Len(s) : i < j => Ahead(s[i], s[j], q.orders)
      /\ t \in Seq(PageRows) /\ \A i, j \in 1..Len(t) : i < j => Ahead(t[i], t[j], q.orders)
  BY DEF AsAsked
<1>2. /\ u \in Seq(PageRows) /\ Len(s) \in Nat
      /\ \A i \in 1..Len(s) : u[i] = s[i]
      /\ \A i \in 1..Len(u) : i \in 1..Len(s) \/ (i - Len(s) \in 1..Len(t) /\ u[i] = t[i - Len(s)])
  BY <1>1, JoinedElements
<1>3. ASSUME NEW i \in 1..Len(u), NEW j \in 1..Len(u), i < j PROVE Ahead(u[i], u[j], q.orders)
  <2>1. CASE i \in 1..Len(s) /\ j \in 1..Len(s)
    BY <1>1, <1>2, <1>3, <2>1
  <2>2. CASE i \in 1..Len(s) /\ j \notin 1..Len(s)
    <3>1. u[i] \in RowsIn(s) /\ u[j] \in RowsIn(t)
      BY <1>2, <2>2 DEF RowsIn
    <3> QED BY <3>1
  <2>3. CASE i \notin 1..Len(s)
    <3>1. i - Len(s) \in 1..Len(t) /\ u[i] = t[i - Len(s)]
      BY <1>2, <2>3
    <3>2. j \notin 1..Len(s)
      BY <1>2, <1>3, <2>3
    <3>3. j - Len(s) \in 1..Len(t) /\ u[j] = t[j - Len(s)]
      BY <1>2, <3>2
    <3>4. i - Len(s) < j - Len(s)
      BY <1>2, <1>3
    <3> QED BY <1>1, <3>1, <3>3, <3>4
  <2> QED BY <2>1, <2>2, <2>3
<1> QED BY <1>2, <1>3 DEF AsAsked

\* The pages before, and the next.
LEMMA CoversWithNext ==
  ASSUME NEW q, IsPaged(q), NEW start \in BOOLEAN, NEW end \in BOOLEAN, NEW old, Covers(old, q, start, end), old # <<>>,
         NEW more \in BOOLEAN, NEW rows, FillsForward(q, Last(old), rows, more),
         NEW new, Joined(new, old, rows), NEW newEnd \in BOOLEAN, newEnd <=> ~more
  PROVE  Covers(new, q, start, newEnd)
<1> DEFINE a == Last(old)
<1>1. AsAsked(old, q) /\ AllVerified(old, q) /\ AsAsked(rows, q) /\ AllVerified(rows, q)
  BY DEF Covers, FillsForward
<1>2. old \in Seq(PageRows) /\ rows \in Seq(PageRows)
  BY <1>1 DEF AsAsked
<1>3. a \in PageRows /\ \A r \in RowsIn(old) : r \in PageRows /\ (r = a \/ Ahead(r, a, q.orders))
  BY <1>1, EndsOfRows
<1>4. \A r \in RowsIn(rows) : r \in PageRows /\ Ahead(a, r, q.orders)
  BY <1>1, EndsOfRows DEF FillsForward
<1>5. new # <<>> /\ Head(new) = Head(old) /\ (rows # <<>> => Last(new) = Last(rows)) /\ (rows = <<>> => new = old)
  <2>1. new # <<>> /\ Head(new) = Head(old)
    BY <1>2, JoinedEnds
  <2>2. rows # <<>> => Last(new) = Last(rows)
    BY <1>2, JoinedEnds
  <2>3. rows = <<>> => new = old
    BY <1>2, JoinedEnds
  <2> QED BY <2>1, <2>2, <2>3
<1>6. RowsIn(new) = RowsIn(old) \cup RowsIn(rows)
  BY <1>2, JoinedRows
<1> HIDE DEF a
<1>7. AsAsked(new, q)
  <2>1. \A x \in RowsIn(old) : \A y \in RowsIn(rows) : Ahead(x, y, q.orders)
    BY <1>3, <1>4, AheadOrder
  <2> QED BY <1>1, <2>1, JoinedAsAsked
<1>8. AllVerified(new, q)
  BY <1>1, <1>6 DEF AllVerified
<1>9. ASSUME NEW r \in StayedFor(q), r \notin RowsIn(new) PROVE IsOutside(r, new, q, start, newEnd)
  <2>1. r \notin RowsIn(old) /\ r \notin RowsIn(rows)
    BY <1>6, <1>9
  <2>2. (Ahead(r, Head(old), q.orders) /\ ~start) \/ (Ahead(a, r, q.orders) /\ ~end)
    BY <2>1 DEF Covers, IsOutside, a
  <2>3. CASE Ahead(r, Head(old), q.orders) /\ ~start
    BY <1>5, <2>3 DEF IsOutside
  <2>4. CASE Ahead(a, r, q.orders)
    <3>1. more /\ Ahead(Last(rows), r, q.orders) /\ rows # <<>>
      BY <2>1, <2>4 DEF FillsForward, a
    <3> QED BY <1>5, <3>1 DEF IsOutside
  <2> QED BY <2>2, <2>3, <2>4
<1> QED BY <1>5, <1>7, <1>8, <1>9 DEF Covers

\* The pages after, and the previous.
LEMMA CoversWithPrevious ==
  ASSUME NEW q, IsPaged(q), NEW start \in BOOLEAN, NEW end \in BOOLEAN, NEW old, Covers(old, q, start, end), old # <<>>,
         NEW more \in BOOLEAN, NEW rows, FillsBackward(q, Head(old), rows, more),
         NEW new, Joined(new, rows, old), NEW newStart \in BOOLEAN, newStart <=> ~more
  PROVE  Covers(new, q, newStart, end)
<1> DEFINE a == Head(old)
<1>1. AsAsked(old, q) /\ AllVerified(old, q) /\ AsAsked(rows, q) /\ AllVerified(rows, q)
  BY DEF Covers, FillsBackward
<1>2. old \in Seq(PageRows) /\ rows \in Seq(PageRows)
  BY <1>1 DEF AsAsked
<1>3. a \in PageRows /\ \A r \in RowsIn(old) : r \in PageRows /\ (r = a \/ Ahead(a, r, q.orders))
  BY <1>1, EndsOfRows
<1>4. \A r \in RowsIn(rows) : r \in PageRows /\ Ahead(r, a, q.orders)
  BY <1>1, EndsOfRows DEF FillsBackward
<1>5. new # <<>> /\ Last(new) = Last(old) /\ (rows # <<>> => Head(new) = Head(rows)) /\ (rows = <<>> => new = old)
  <2>1. new # <<>> /\ Last(new) = Last(old)
    BY <1>2, JoinedEnds
  <2>2. rows # <<>> => Head(new) = Head(rows)
    BY <1>2, JoinedEnds
  <2>3. rows = <<>> => new = old
    BY <1>2, JoinedEnds
  <2> QED BY <2>1, <2>2, <2>3
<1>6. RowsIn(new) = RowsIn(rows) \cup RowsIn(old)
  BY <1>2, JoinedRows
<1> HIDE DEF a
<1>7. AsAsked(new, q)
  <2>1. \A x \in RowsIn(rows) : \A y \in RowsIn(old) : Ahead(x, y, q.orders)
    BY <1>3, <1>4, AheadOrder
  <2> QED BY <1>1, <2>1, JoinedAsAsked
<1>8. AllVerified(new, q)
  BY <1>1, <1>6 DEF AllVerified
<1>9. ASSUME NEW r \in StayedFor(q), r \notin RowsIn(new) PROVE IsOutside(r, new, q, newStart, end)
  <2>1. r \notin RowsIn(old) /\ r \notin RowsIn(rows)
    BY <1>6, <1>9
  <2>2. (Ahead(r, a, q.orders) /\ ~start) \/ (Ahead(Last(old), r, q.orders) /\ ~end)
    BY <2>1 DEF Covers, IsOutside, a
  <2>3. CASE Ahead(Last(old), r, q.orders) /\ ~end
    BY <1>5, <2>3 DEF IsOutside
  <2>4. CASE Ahead(r, a, q.orders)
    <3>1. more /\ Ahead(r, Head(rows), q.orders) /\ rows # <<>>
      BY <2>1, <2>4 DEF FillsBackward, a
    <3> QED BY <1>5, <3>1 DEF IsOutside
  <2> QED BY <2>2, <2>3, <2>4
<1> QED BY <1>5, <1>7, <1>8, <1>9 DEF Covers

\* A page on its own.
LEMMA CoversForward ==
  ASSUME NEW q, IsPaged(q), NEW a \in PageRows, NEW more \in BOOLEAN, NEW rows, rows # <<>>,
         FillsForward(q, a, rows, more),
         NEW start \in BOOLEAN, ~start, NEW end \in BOOLEAN, end <=> ~more
  PROVE  Covers(rows, q, start, end)
<1>1. AsAsked(rows, q) /\ AllVerified(rows, q) /\ \A r \in RowsIn(rows) : Ahead(a, r, q.orders)
  BY DEF FillsForward
<1>2. Head(rows) \in PageRows /\ Ahead(a, Head(rows), q.orders)
  BY <1>1, EndsOfRows
<1>3. ASSUME NEW r \in StayedFor(q), r \notin RowsIn(rows) PROVE IsOutside(r, rows, q, start, end)
  <2>1. r \in PageRows
    BY DEF StayedFor
  <2>2. CASE Ahead(a, r, q.orders)
    BY <1>3, <2>2 DEF IsOutside, FillsForward
  <2>3. CASE ~Ahead(a, r, q.orders)
    <3>1. Ahead(r, Head(rows), q.orders)
      BY <1>2, <2>1, <2>3, AheadOrder
    <3> QED BY <3>1 DEF IsOutside
  <2> QED BY <2>2, <2>3
<1> QED BY <1>1, <1>3 DEF Covers

LEMMA CoversBackward ==
  ASSUME NEW q, IsPaged(q), NEW a \in PageRows, NEW more \in BOOLEAN, NEW rows, rows # <<>>,
         FillsBackward(q, a, rows, more),
         NEW end \in BOOLEAN, ~end, NEW start \in BOOLEAN, start <=> ~more
  PROVE  Covers(rows, q, start, end)
<1>1. AsAsked(rows, q) /\ AllVerified(rows, q) /\ \A r \in RowsIn(rows) : Ahead(r, a, q.orders)
  BY DEF FillsBackward
<1>2. Last(rows) \in PageRows /\ Ahead(Last(rows), a, q.orders)
  BY <1>1, EndsOfRows
<1>3. ASSUME NEW r \in StayedFor(q), r \notin RowsIn(rows) PROVE IsOutside(r, rows, q, start, end)
  <2>1. r \in PageRows
    BY DEF StayedFor
  <2>2. CASE Ahead(r, a, q.orders)
    BY <1>3, <2>2 DEF IsOutside, FillsBackward
  <2>3. CASE ~Ahead(r, a, q.orders)
    <3>1. Ahead(Last(rows), r, q.orders)
      BY <1>2, <2>1, <2>3, AheadOrder
    <3> QED BY <3>1 DEF IsOutside
  <2> QED BY <2>2, <2>3
<1> QED BY <1>1, <1>3 DEF Covers

LEMMA CoversFirst ==
  ASSUME NEW q, NEW more \in BOOLEAN, NEW rows, FillsFirst(q, rows, more),
         NEW start \in BOOLEAN, NEW end \in BOOLEAN, end <=> ~more
  PROVE  Covers(rows, q, start, end)
<1>1. ASSUME NEW r \in StayedFor(q), r \notin RowsIn(rows) PROVE IsOutside(r, rows, q, start, end)
  <2>1. more /\ Ahead(Last(rows), r, q.orders) /\ rows # <<>>
    BY <1>1 DEF FillsFirst
  <2> QED BY <2>1 DEF IsOutside
<1> QED BY <1>1 DEF Covers, FillsFirst

-----------------------------------------------------------------------------
(* The inductive invariant.                                                *)

IsPageOf(p, q) ==
  /\ p.rows \in Seq(PageRows)
  /\ p.next # Missing => p.rows # <<>> /\ p.next = Token(Last(p.rows), "forward", q)
  /\ p.previous # Missing => p.rows # <<>> /\ p.previous = Token(Head(p.rows), "backward", q)
  /\ p.rows # <<>> =>
       \A start, end \in BOOLEAN :
         (start <=> p.previous = Missing) /\ (end <=> p.next = Missing) => Covers(p.rows, q, start, end)

\* The page is where the walk has come to.
IsEndOf(p, rows, toward) ==
  p.rows # <<>> => /\ rows # <<>>
                   /\ IF toward = "backward" THEN Head(rows) = Head(p.rows) ELSE Last(rows) = Last(p.rows)

\* The tokens of a page are the walk's, and a fetch goes on with the same query.
TokensInv ==
  /\ page # Missing => walk.request # Missing
  /\ walk.request # Missing =>
       \A c \in {page.next, page.previous} : c # Missing => c.fingerprint = Fingerprint(walk.request)
  /\ fetch # Missing =>
       /\ IsAsked(fetch.request)
       /\ fetch.cursor # Missing => walk.request # Missing /\ Fingerprint(walk.request) = Fingerprint(fetch.request)

WalkInv ==
  walk.request # Missing /\ Anchored(walk.request) =>
    /\ IsPaged(walk.request)
    /\ walk.toward \in {"forward", "backward"} /\ walk.atStart \in BOOLEAN /\ walk.atEnd \in BOOLEAN
    /\ Covers(walk.rows, walk.request, walk.atStart, walk.atEnd)
    /\ IsPageOf(page, walk.request)
    /\ IsEndOf(page, walk.rows, walk.toward)

FetchInv ==
  fetch # Missing /\ Anchored(fetch.request) =>
    /\ \A b \in BOOLEAN : (b <=> Backward(fetch.cursor)) =>
         FetchIs(fetch.request, fetch.size, fetch.cursor, fetch.seek, fetch.found, b)
    /\ fetch.cursor # Missing => fetch.cursor \in {page.next, page.previous}

StatusInv == status \in [PageRows -> {"coming", "here", "gone"}]

PagesInv ==
  /\ StatusInv
  /\ TokensInv
  /\ FetchInv
  /\ WalkInv

LEMMA InitEstablishesPagesInv ==
  ASSUME PagesInit
  PROVE  PagesInv
<1>1. StatusInv
  BY DEF PagesInit, StatusInv
<1>2. fetch = Missing /\ page = Missing /\ walk.request = Missing
  BY DEF PagesInit
<1> QED BY <1>1, <1>2 DEF PagesInv, TokensInv, FetchInv, WalkInv

\* Two requests that a token cannot tell apart.
LEMMA SameFingerprint ==
  ASSUME NEW q, NEW w, Fingerprint(w) = Fingerprint(q)
  PROVE  /\ q.orders = w.orders /\ q.verified = w.verified
         /\ Anchored(q) <=> Anchored(w)
         /\ \A a, toward : Token(a, toward, q) = Token(a, toward, w)
         /\ StayedFor(q) = StayedFor(w)
         /\ \A rows, start, end : Covers(rows, w, start, end) <=> Covers(rows, q, start, end)
<1>1. q.orders = w.orders /\ q.verified = w.verified /\ q.backend = w.backend
  BY DEF Fingerprint
<1>2. \A a, toward : Token(a, toward, q) = Token(a, toward, w)
  BY <1>1 DEF Token, PageAnchor
<1>3. StayedFor(q) = StayedFor(w)
  BY <1>1 DEF StayedFor
<1>4. ASSUME NEW rows, NEW start, NEW end
      PROVE  Covers(rows, w, start, end) <=> Covers(rows, q, start, end)
  BY <1>1, <1>3 DEF Covers, AsAsked, AllVerified, IsOutside
<1>5. Anchored(q) <=> Anchored(w)
  BY <1>1 DEF Anchored
<1> QED BY <1>1, <1>2, <1>3, <1>4, <1>5

\* The walk stays sound when no page is delivered and the same rows have stayed.
LEMMA WalkStays ==
  ASSUME WalkInv, page' = page, walk' = walk, \A r : StayedFor(r)' = StayedFor(r)
  PROVE  WalkInv'
<1>1. \A rows, r, start, end : Covers(rows, r, start, end)' <=> Covers(rows, r, start, end)
  BY DEF Covers
<1>2. \A p, r : IsPageOf(p, r)' <=> IsPageOf(p, r)
  BY <1>1 DEF IsPageOf
<1>3. PICK w, p : w = walk /\ p = page
  OBVIOUS
<1>4. /\ Covers(w.rows, w.request, w.atStart, w.atEnd)' <=> Covers(w.rows, w.request, w.atStart, w.atEnd)
      /\ IsPageOf(p, w.request)' <=> IsPageOf(p, w.request)
  BY <1>1, <1>2
<1> QED BY <1>3, <1>4 DEF WalkInv

-----------------------------------------------------------------------------
(* The steps of other writers.                                             *)

\* Rows that come are not among those that stayed; rows that go are fewer to leave out.
LEMMA WritersKeepPagesInv ==
  ASSUME PagesInv, NEW x \in PageRows, RowComes(x) \/ RowGoes(x)
  PROVE  PagesInv'
<1>1. status \in [PageRows -> {"coming", "here", "gone"}] /\ fetch' = fetch /\ page' = page /\ walk' = walk
  BY DEF PagesInv, StatusInv, RowComes, RowGoes
<1>2. StatusInv'
  BY <1>1 DEF StatusInv, RowComes, RowGoes
<1>3. \A r \in PageRows \ LateRows : status'[r] = "here" => status[r] = "here"
  BY <1>1 DEF RowComes, RowGoes
<1>4. ASSUME NEW q PROVE StayedFor(q)' \subseteq StayedFor(q)
  BY <1>3 DEF StayedFor
<1>5. ASSUME NEW rows, NEW q, NEW start, NEW end, Covers(rows, q, start, end) PROVE Covers(rows, q, start, end)'
  BY <1>4, <1>5 DEF Covers
<1>6. ASSUME NEW q, NEW n, NEW c, NEW s, NEW f, NEW b, FetchIs(q, n, c, s, f, b) PROVE FetchIs(q, n, c, s, f, b)'
  BY <1>4, <1>6 DEF FetchIs
<1>7. ASSUME NEW p, NEW q, IsPageOf(p, q) PROVE IsPageOf(p, q)'
  BY <1>5, <1>7 DEF IsPageOf
<1>t. TokensInv'
  BY <1>1 DEF PagesInv, TokensInv
<1>8. WalkInv'
  <2> SUFFICES ASSUME walk.request # Missing, Anchored(walk.request) PROVE WalkInv'
    BY <1>1 DEF WalkInv
  <2>1. /\ IsPaged(walk.request)
        /\ walk.toward \in {"forward", "backward"} /\ walk.atStart \in BOOLEAN /\ walk.atEnd \in BOOLEAN
        /\ Covers(walk.rows, walk.request, walk.atStart, walk.atEnd)
        /\ IsPageOf(page, walk.request)
        /\ IsEndOf(page, walk.rows, walk.toward)
    BY DEF PagesInv, WalkInv
  <2>2. Covers(walk.rows, walk.request, walk.atStart, walk.atEnd)'
    <3>1. PICK w : w = walk
      OBVIOUS
    <3>2. Covers(w.rows, w.request, w.atStart, w.atEnd)'
      BY <2>1, <3>1, <1>5
    <3> QED BY <1>1, <3>1, <3>2
  <2>3. IsPageOf(page, walk.request)'
    <3>1. PICK w, p : w = walk /\ p = page
      OBVIOUS
    <3>2. IsPageOf(p, w.request)'
      BY <2>1, <3>1, <1>7
    <3> QED BY <1>1, <3>1, <3>2
  <2> QED BY <1>1, <2>1, <2>2, <2>3 DEF WalkInv
<1>9. FetchInv'
  <2> SUFFICES ASSUME fetch # Missing, Anchored(fetch.request) PROVE FetchInv'
    BY <1>1 DEF FetchInv
  <2>1. PICK g : g = fetch
    OBVIOUS
  <2>2. ASSUME NEW b \in BOOLEAN, b <=> Backward(g.cursor)
        PROVE  FetchIs(g.request, g.size, g.cursor, g.seek, g.found, b)'
    <3>1. FetchIs(g.request, g.size, g.cursor, g.seek, g.found, b)
      BY <2>1, <2>2 DEF PagesInv, FetchInv
    <3> QED BY <3>1, <1>6
  <2>3. fetch.cursor # Missing => fetch.cursor \in {page.next, page.previous}
    BY DEF PagesInv, FetchInv
  <2> QED BY <1>1, <2>1, <2>2, <2>3 DEF FetchInv
<1> QED BY <1>2, <1>t, <1>8, <1>9 DEF PagesInv

-----------------------------------------------------------------------------
(* Asking for a page.                                                      *)

\* A token handed to another query with its fingerprint means the same there.
LEMMA AskPageKeepsPagesInv ==
  ASSUME PagesInv, NEW q \in Requests, NEW n \in PageSizes, NEW c, AskPage(q, n, c)
  PROVE  PagesInv'
<1>1. IsAsked(q)
  BY DEF AskPage, IsAsked
<1>2. status' = status /\ page' = page /\ walk' = walk
  BY DEF AskPage
<1>3. fetch' = [request |-> q, size |-> n, cursor |-> c, seek |-> c, found |-> <<>>]
  BY DEF AskPage
<1>4. fetch'.request = q /\ fetch'.size = n /\ fetch'.cursor = c /\ fetch'.seek = c /\ fetch'.found = <<>>
  BY <1>3
<1>5. c # Missing => page # Missing /\ c \in {page.next, page.previous} /\ Decodes(c, q)
  BY DEF AskPage
<1>6. c # Missing => walk.request # Missing /\ Fingerprint(walk.request) = Fingerprint(q)
  BY <1>5 DEF PagesInv, TokensInv, Decodes
<1>t. ASSUME c # Missing, Anchored(q)
      PROVE  \E a \in PageRows : \E toward \in {"forward", "backward"} : c = Token(a, toward, q)
  <2>1. IsPageOf(page, walk.request)
    BY <1>6, <1>t, SameFingerprint DEF PagesInv, WalkInv
  <2>2. page.rows \in Seq(PageRows)
    BY <2>1 DEF IsPageOf
  <2>3. page.rows # <<>> => Last(page.rows) \in PageRows /\ Head(page.rows) \in PageRows
    BY <2>2, RowsAreRows
  <2>4. PICK a \in PageRows, toward \in {"forward", "backward"} : c = Token(a, toward, walk.request)
    <3>1. CASE c = page.next
      BY <1>t, <2>1, <2>3, <3>1 DEF IsPageOf
    <3>2. CASE c = page.previous
      BY <1>t, <2>1, <2>3, <3>2 DEF IsPageOf
    <3> QED BY <1>5, <1>t, <3>1, <3>2
  <2>5. c = Token(a, toward, q)
    BY <1>6, <1>t, <2>4, SameFingerprint
  <2> QED BY <2>4, <2>5
<1>7. ASSUME Anchored(q), NEW b \in BOOLEAN, b <=> Backward(c) PROVE FetchIs(q, n, c, c, <<>>, b)
  <2>1. c \in Seeks(q, b)
    <3>1. CASE c = Missing
      BY <3>1 DEF Seeks
    <3>2. CASE c # Missing
      <4>1. PICK a \in PageRows, toward \in {"forward", "backward"} : c = Token(a, toward, q)
        BY <1>t, <1>7, <3>2
      <4>2. c.toward = toward
        BY <4>1 DEF Token
      <4>3. toward = Toward(b)
        BY <1>7, <3>2, <4>2 DEF Backward, Toward
      <4> QED BY <4>1, <4>3 DEF Seeks
    <3> QED BY <3>1, <3>2
  <2>2. InSequence(<<>>, q, b) /\ RowsIn(<<>>) = {}
    BY EmptyInSequence
  <2> QED BY <1>1, <1>7, <2>1, <2>2 DEF FetchIs, IsPaged
<1>8. FetchInv'
  <2>1. ASSUME Anchored(q), NEW b \in BOOLEAN, b <=> Backward(c)
        PROVE  FetchIs(q, n, c, c, <<>>, b)'
    <3>1. StayedFor(q)' = StayedFor(q)
      BY <1>2 DEF StayedFor
    <3> QED BY <1>7, <2>1, <3>1 DEF FetchIs
  <2>2. c # Missing => c \in {page.next, page.previous}
    BY <1>5
  <2> QED BY <1>2, <1>4, <2>1, <2>2 DEF FetchInv
<1>9. \A r : StayedFor(r)' = StayedFor(r)
  BY <1>2 DEF StayedFor
<1>10. WalkInv'
  BY <1>2, <1>9, WalkStays DEF PagesInv
<1>11. StatusInv'
  BY <1>2 DEF PagesInv, StatusInv
<1>12. TokensInv'
  BY <1>1, <1>2, <1>4, <1>6 DEF PagesInv, TokensInv
<1> QED BY <1>8, <1>10, <1>11, <1>12 DEF PagesInv

-----------------------------------------------------------------------------
(* The page that is delivered.                                             *)

\* p is the page that the rows v fill, the walk goes on from it.
LEMMA PageRowsAndTokens ==
  ASSUME NEW q, IsPaged(q), NEW c, NEW v \in Seq(PageRows), NEW more \in BOOLEAN, more => v # <<>>,
         NEW p, p = Page(q, c, v, more), NEW rows, rows = IF Backward(c) THEN Reverse(v) ELSE v,
         rows \in Seq(PageRows), v # <<>> => rows # <<>>
  PROVE  /\ p.rows = rows
         /\ p.next # Missing => rows # <<>> /\ p.next = Token(Last(rows), "forward", q)
         /\ p.previous # Missing => rows # <<>> /\ p.previous = Token(Head(rows), "backward", q)
         /\ ~Backward(c) => (p.next = Missing <=> ~more)
         /\ Backward(c) /\ rows # <<>> => p.next # Missing
         /\ c = Missing => p.previous = Missing
         /\ c # Missing /\ Backward(c) => (p.previous = Missing <=> ~more)
         /\ c # Missing /\ ~Backward(c) /\ rows # <<>> => p.previous # Missing
<1>1. rows # <<>> => /\ Token(Last(rows), "forward", q) # Missing
                     /\ Token(Head(rows), "backward", q) # Missing
  <2> SUFFICES ASSUME rows # <<>>
               PROVE  Token(Last(rows), "forward", q) # Missing /\ Token(Head(rows), "backward", q) # Missing
    OBVIOUS
  <2>1. Last(rows) \in PageRows /\ Head(rows) \in PageRows
    BY RowsAreRows
  <2> QED BY <2>1, TokensAreSomething
<1> DEFINE forward == IF rows = <<>> THEN Missing ELSE Token(Last(rows), "forward", q)
           back == IF rows = <<>> THEN Missing ELSE Token(Head(rows), "backward", q)
<1>2. /\ p.rows = rows
      /\ p.next = IF Backward(c) \/ more THEN forward ELSE Missing
      /\ p.previous = IF c = Missing \/ (Backward(c) /\ ~more) THEN Missing ELSE back
  BY DEF Page
<1>3. rows # <<>> => forward # Missing /\ back # Missing
  BY <1>1
<1>4. more => rows # <<>>
  OBVIOUS
<1>5. forward # Missing => rows # <<>> /\ forward = Token(Last(rows), "forward", q)
  OBVIOUS
<1>6. back # Missing => rows # <<>> /\ back = Token(Head(rows), "backward", q)
  OBVIOUS
<1> HIDE DEF forward, back
<1> QED BY <1>2, <1>3, <1>4, <1>5, <1>6

LEMMA ReversedRows ==
  ASSUME NEW q, IsPaged(q), NEW b \in BOOLEAN, NEW v, InSequence(v, q, b)
  PROVE  v \in Seq(PageRows) /\ Reverse(v) \in Seq(PageRows) /\ (v # <<>> => Reverse(v) # <<>>)
<1>1. v \in Seq(PageRows) /\ Len(v) \in Nat
  BY DEF InSequence
<1>2. \A i \in 1..Len(v) : v[Len(v) + 1 - i] \in PageRows
  <2> SUFFICES ASSUME NEW i \in 1..Len(v) PROVE v[Len(v) + 1 - i] \in PageRows
    OBVIOUS
  <2>1. Len(v) + 1 - i \in 1..Len(v)
    BY <1>1
  <2> QED BY <1>1, <2>1
<1>3. Reverse(v) \in [1..Len(v) -> PageRows]
  BY <1>2 DEF Reverse
<1>4. Reverse(v) \in Seq(PageRows)
  BY <1>1, <1>3
<1>5. v # <<>> => Reverse(v) # <<>>
  <2>1. v # <<>> => Len(v) >= 1
    BY <1>1
  <2>2. DOMAIN Reverse(v) = 1..Len(v)
    BY <1>3
  <2>3. DOMAIN <<>> = 1..0
    OBVIOUS
  <2>4. Reverse(v) = <<>> => 1..Len(v) = 1..0
    BY <2>2, <2>3
  <2>5. Len(v) >= 1 => 1 \in 1..Len(v) /\ 1 \notin 1..0
    BY <1>1
  <2> QED BY <2>1, <2>4, <2>5
<1> QED BY <1>1, <1>4, <1>5

\* Where the client stands when it hands back a token of its page, in a walk w
\* with the page p: a is the row of the token.
LEMMA TokenIsOfThePage ==
  ASSUME NEW q, IsPaged(q), NEW w, IsPaged(w), Fingerprint(w) = Fingerprint(q), NEW p, IsPageOf(p, w),
         NEW c, c # Missing, c \in {p.next, p.previous}
  PROVE  /\ p.rows # <<>> /\ Last(p.rows) \in PageRows /\ Head(p.rows) \in PageRows
         /\ ~Backward(c) => c = Token(Last(p.rows), "forward", q) /\ c.toward = "forward" /\ p.next # Missing
         /\ Backward(c) => c = Token(Head(p.rows), "backward", q) /\ c.toward = "backward" /\ p.previous # Missing
<1>1. p.rows \in Seq(PageRows)
  BY DEF IsPageOf
<1>2. p.rows # <<>>
  BY DEF IsPageOf
<1>3. Last(p.rows) \in PageRows /\ Head(p.rows) \in PageRows
  BY <1>1, <1>2, RowsAreRows
<1>4. \A a, toward : Token(a, toward, q) = Token(a, toward, w) /\ Token(a, toward, q).toward = toward
  BY SameFingerprint DEF Token
<1>5. CASE c = p.next
  <2>1. c = Token(Last(p.rows), "forward", q) /\ c.toward = "forward"
    BY <1>4, <1>5 DEF IsPageOf
  <2> QED BY <1>2, <1>3, <1>5, <2>1 DEF Backward
<1>6. CASE c = p.previous
  <2>1. c = Token(Head(p.rows), "backward", q) /\ c.toward = "backward"
    BY <1>4, <1>6 DEF IsPageOf
  <2> QED BY <1>2, <1>3, <1>6, <2>1 DEF Backward
<1> QED BY <1>5, <1>6

\* The rows v make the page p behind the cursor c, with these rows in it.
IsNewPage(p, rows, q, c, v, more) ==
  p = Page(q, c, v, more) /\ rows = IF Backward(c) THEN Reverse(v) ELSE v

PageFits(p, rows, q, c, more) ==
  /\ p.rows = rows /\ rows \in Seq(PageRows)
  /\ IsPageOf(p, q)
  /\ c = Missing => FillsFirst(q, rows, more) /\ p.previous = Missing
  /\ \A a \in PageRows : c = Token(a, "forward", q) => FillsForward(q, a, rows, more)
  /\ \A a \in PageRows : c = Token(a, "backward", q) => FillsBackward(q, a, rows, more)
  /\ ~Backward(c) => (p.next = Missing <=> ~more)
  /\ c # Missing /\ Backward(c) => (p.previous = Missing <=> ~more)

\* A page fits behind the cursor it was asked for with.
LEMMA NewPageIsPage ==
  ASSUME NEW q, NEW c, NEW b \in BOOLEAN, b <=> Backward(c), NEW more \in BOOLEAN, NEW v, FillsPage(q, c, v, more, b),
         NEW p, NEW rows, IsNewPage(p, rows, q, c, v, more)
  PROVE  PageFits(p, rows, q, c, more)
<1> p = Page(q, c, v, more) /\ rows = IF Backward(c) THEN Reverse(v) ELSE v
  BY DEF IsNewPage
<1>1. IsPaged(q) /\ InSequence(v, q, b) /\ c \in Seeks(q, b) /\ (more => v # <<>>)
  BY DEF FillsPage
<1>2. v \in Seq(PageRows) /\ Reverse(v) \in Seq(PageRows) /\ (v # <<>> => Reverse(v) # <<>>)
  BY <1>1, ReversedRows
<1>3. rows \in Seq(PageRows) /\ (v # <<>> => rows # <<>>)
  BY <1>2
<1>4. /\ p.rows = rows
      /\ p.next # Missing => rows # <<>> /\ p.next = Token(Last(rows), "forward", q)
      /\ p.previous # Missing => rows # <<>> /\ p.previous = Token(Head(rows), "backward", q)
      /\ ~Backward(c) => (p.next = Missing <=> ~more)
      /\ Backward(c) /\ rows # <<>> => p.next # Missing
      /\ c = Missing => p.previous = Missing
      /\ c # Missing /\ Backward(c) => (p.previous = Missing <=> ~more)
      /\ c # Missing /\ ~Backward(c) /\ rows # <<>> => p.previous # Missing
  BY <1>1, <1>2, <1>3, PageRowsAndTokens
<1>5. ASSUME c = Missing PROVE FillsFirst(q, rows, more)
  <2>1. ~b /\ rows = v
    BY <1>5 DEF Backward
  <2> QED BY <1>5, <2>1, PageGoesFirst
<1>6. ASSUME NEW a \in PageRows, c = Token(a, "forward", q) PROVE FillsForward(q, a, rows, more) /\ c # Missing /\ ~Backward(c)
  <2>1. c.toward = "forward" /\ c # Missing
    BY <1>1, <1>6, TokensAreSomething DEF Token
  <2>2. ~Backward(c) /\ ~b /\ rows = v /\ Toward(b) = "forward"
    BY <2>1 DEF Backward, Toward
  <2> QED BY <1>6, <2>1, <2>2, PageGoesForward
<1>7. ASSUME NEW a \in PageRows, c = Token(a, "backward", q) PROVE FillsBackward(q, a, rows, more) /\ c # Missing /\ Backward(c)
  <2>1. c.toward = "backward" /\ c # Missing
    BY <1>1, <1>7, TokensAreSomething DEF Token
  <2>2. Backward(c) /\ b /\ rows = Reverse(v) /\ Toward(b) = "backward"
    BY <2>1 DEF Backward, Toward
  <2> QED BY <1>7, <2>1, <2>2, PageGoesBackward
<1>8. ASSUME rows # <<>>, NEW start \in BOOLEAN, NEW end \in BOOLEAN, start <=> p.previous = Missing, end <=> p.next = Missing
      PROVE  Covers(rows, q, start, end)
  <2>1. CASE c = Missing
    <3>1. ~Backward(c)
      BY <2>1 DEF Backward
    <3>2. end <=> ~more
      BY <1>4, <1>8, <3>1
    <3> QED BY <1>5, <2>1, <3>2, CoversFirst
  <2>2. CASE c # Missing
    <3>1. PICK a \in PageRows : c = Token(a, Toward(b), q)
      BY <1>1, <2>2 DEF Seeks
    <3>2. CASE c = Token(a, "forward", q)
      <4>1. FillsForward(q, a, rows, more) /\ c # Missing /\ ~Backward(c)
        BY <1>6, <3>2
      <4>2. ~start /\ (end <=> ~more)
        BY <1>4, <1>8, <4>1
      <4> QED BY <1>1, <1>8, <4>1, <4>2, CoversForward
    <3>3. CASE c = Token(a, "backward", q)
      <4>1. FillsBackward(q, a, rows, more) /\ c # Missing /\ Backward(c)
        BY <1>7, <3>3
      <4>2. ~end /\ (start <=> ~more)
        BY <1>4, <1>8, <4>1
      <4> QED BY <1>1, <1>8, <4>1, <4>2, CoversBackward
    <3> QED BY <3>1, <3>2, <3>3 DEF Toward
  <2> QED BY <2>1, <2>2
<1>9. IsPageOf(p, q)
  BY <1>3, <1>4, <1>8 DEF IsPageOf
<1> QED BY <1>3, <1>4, <1>5, <1>6, <1>7, <1>9 DEF PageFits

\* Whatever a page is, its tokens have the fingerprint of its query.
LEMMA DeliverKeepsTokens ==
  ASSUME TokensInv, fetch # Missing, NEW v, NEW more, Deliver(v, more)
  PROVE  TokensInv' /\ fetch' = Missing /\ walk'.request = fetch.request
<1>1. PICK q, c : q = fetch.request /\ c = fetch.cursor
  OBVIOUS
<1>2. page' = Page(q, c, v, more) /\ fetch' = Missing /\ walk'.request = q
  BY <1>1 DEF Deliver
<1>3. q # Missing
  BY <1>1, PagesAssumption DEF TokensInv, IsAsked
<1>4. \A a, toward : Token(a, toward, q).fingerprint = Fingerprint(q)
  BY DEF Token
<1>5. \A t \in {page'.next, page'.previous} : t # Missing => t.fingerprint = Fingerprint(q)
  BY <1>2, <1>4 DEF Page
<1> QED BY <1>1, <1>2, <1>3, <1>5 DEF TokensInv

\* The walk goes on with the page p.
LEMMA DeliverKeepsPagesInv ==
  ASSUME PagesInv, fetch # Missing, Anchored(fetch.request), status' = status,
         NEW b \in BOOLEAN, b <=> Backward(fetch.cursor), NEW more \in BOOLEAN, NEW v,
         FillsPage(fetch.request, fetch.cursor, v, more, b), Deliver(v, more)
  PROVE  PagesInv'
<1>1. PICK q, c, w, p, pOld, rows :
        /\ q = fetch.request /\ c = fetch.cursor /\ w = walk /\ pOld = page
        /\ p = Page(q, c, v, more) /\ rows = IF Backward(c) THEN Reverse(v) ELSE v
  OBVIOUS
<1>2. /\ p.rows = rows /\ rows \in Seq(PageRows)
      /\ IsPageOf(p, q)
      /\ c = Missing => FillsFirst(q, rows, more) /\ p.previous = Missing
      /\ \A a \in PageRows : c = Token(a, "forward", q) => FillsForward(q, a, rows, more)
      /\ \A a \in PageRows : c = Token(a, "backward", q) => FillsBackward(q, a, rows, more)
      /\ ~Backward(c) => (p.next = Missing <=> ~more)
      /\ c # Missing /\ Backward(c) => (p.previous = Missing <=> ~more)
  <2>1. FillsPage(q, c, v, more, b) /\ (b <=> Backward(c)) /\ IsNewPage(p, rows, q, c, v, more)
    BY <1>1 DEF IsNewPage
  <2>2. PageFits(p, rows, q, c, more)
    BY ONLY b \in BOOLEAN, more \in BOOLEAN, <2>1, NewPageIsPage
  <2> QED BY <2>2 DEF PageFits
<1>3. IsPaged(q)
  BY <1>1 DEF FillsPage
<1> DEFINE turned == w.toward # c.toward
           before == IF turned THEN pOld.rows ELSE w.rows
           start == IF turned THEN pOld.previous = Missing ELSE w.atStart
           end == IF turned THEN pOld.next = Missing ELSE w.atEnd
           toward == IF Backward(c) THEN "backward" ELSE "forward"
           new == IF c = Missing THEN rows ELSE IF Backward(c) THEN rows \o before ELSE before \o rows
           newStart == IF c = Missing \/ Backward(c) THEN p.previous = Missing ELSE start
           newEnd == IF Backward(c) THEN end ELSE p.next = Missing
<1>4. page' = p /\ fetch' = Missing
  BY <1>1 DEF Deliver
<1>5. walk' = [request |-> q, toward |-> toward, rows |-> new, atStart |-> newStart, atEnd |-> newEnd]
  BY <1>1, <1>2 DEF Deliver, Turned
<1>6. c # Missing =>
        /\ w.request # Missing /\ IsPaged(w.request) /\ Fingerprint(w.request) = Fingerprint(q)
        /\ IsPageOf(pOld, w.request) /\ c \in {pOld.next, pOld.previous}
        /\ w.toward \in {"forward", "backward"} /\ w.atStart \in BOOLEAN /\ w.atEnd \in BOOLEAN
        /\ Covers(w.rows, w.request, w.atStart, w.atEnd)
        /\ IsEndOf(pOld, w.rows, w.toward)
  BY <1>1, SameFingerprint DEF PagesInv, TokensInv, FetchInv, WalkInv
<1>7. c # Missing =>
        /\ pOld.rows # <<>> /\ Last(pOld.rows) \in PageRows /\ Head(pOld.rows) \in PageRows
        /\ ~Backward(c) => c = Token(Last(pOld.rows), "forward", q) /\ c.toward = "forward"
        /\ Backward(c) => c = Token(Head(pOld.rows), "backward", q) /\ c.toward = "backward"
  BY <1>3, <1>6, TokenIsOfThePage
\* What the walk has before the page is added.
<1>8. ASSUME c # Missing
      PROVE  /\ before # <<>> /\ start \in BOOLEAN /\ end \in BOOLEAN
             /\ Covers(before, q, start, end)
             /\ ~Backward(c) => Last(before) = Last(pOld.rows)
             /\ Backward(c) => Head(before) = Head(pOld.rows)
  <2>1. CASE turned
    <3>1. before = pOld.rows /\ start = (pOld.previous = Missing) /\ end = (pOld.next = Missing)
      BY <2>1
    <3>2. PICK x \in BOOLEAN, y \in BOOLEAN : x = (pOld.previous = Missing) /\ y = (pOld.next = Missing)
      OBVIOUS
    <3>3. Covers(pOld.rows, w.request, x, y)
      BY <1>6, <1>7, <1>8, <3>2 DEF IsPageOf
    <3>4. Covers(pOld.rows, q, x, y)
      BY <1>3, <1>6, <1>8, <3>3, SameFingerprint
    <3> HIDE DEF before, start, end, turned
    <3>5. start = x /\ end = y
      BY <3>1, <3>2
    <3> QED BY <1>7, <1>8, <3>1, <3>2, <3>4, <3>5
  <2>2. CASE ~turned
    <3>1. before = w.rows /\ start = w.atStart /\ end = w.atEnd
      BY <2>2
    <3>2. Covers(w.rows, q, w.atStart, w.atEnd)
      BY <1>3, <1>6, <1>8, SameFingerprint
    <3>3. w.rows # <<>> /\ (~Backward(c) => Last(w.rows) = Last(pOld.rows)) /\ (Backward(c) => Head(w.rows) = Head(pOld.rows))
      <4>1. w.toward = c.toward
        BY <2>2
      <4> QED BY <1>6, <1>7, <1>8, <4>1 DEF IsEndOf
    <3> HIDE DEF before, start, end, turned
    <3> QED BY <1>6, <1>8, <3>1, <3>2, <3>3
  <2> QED BY <2>1, <2>2
<1> HIDE DEF turned, before, start, end
<1>9. newStart \in BOOLEAN /\ newEnd \in BOOLEAN /\ toward \in {"forward", "backward"}
  <2>1. c = Missing => ~Backward(c)
    BY DEF Backward
  <2> QED BY <1>8, <2>1
<1>10. PICK x \in BOOLEAN, y \in BOOLEAN : x = newStart /\ y = newEnd
  BY <1>9
<1>11. Covers(new, q, x, y) /\ IsEndOf(p, new, toward)
  <2>1. CASE c = Missing
    <3>1. ~Backward(c) /\ new = rows /\ toward = "forward" /\ newEnd = (p.next = Missing)
      BY <2>1 DEF Backward
    <3>2. y <=> ~more
      BY <1>2, <1>10, <3>1
    <3>3. Covers(rows, q, x, y)
      BY <1>2, <1>10, <2>1, <3>2, CoversFirst
    <3>4. IsEndOf(p, rows, "forward")
      BY <1>2 DEF IsEndOf
    <3> HIDE DEF new, toward, newEnd, newStart
    <3> QED BY <3>1, <3>3, <3>4
  <2>2. CASE c # Missing /\ ~Backward(c)
    <3>1. new = before \o rows /\ toward = "forward" /\ newStart = start /\ newEnd = (p.next = Missing)
      BY <2>2
    <3>2. y <=> ~more
      BY <1>2, <1>10, <2>2, <3>1
    <3>3. FillsForward(q, Last(before), rows, more)
      BY <1>2, <1>7, <1>8, <2>2
    <3>4. Joined(new, before, rows)
      BY <3>1 DEF Joined
    <3> HIDE DEF new, toward, newEnd, newStart
    <3>5. PICK z \in BOOLEAN : z = end
      BY <1>8, <2>2
    <3>6. Covers(before, q, x, z) /\ before # <<>>
      BY <1>8, <1>10, <2>2, <3>1, <3>5
    <3>7. Covers(new, q, x, y)
      BY <1>3, <1>10, <3>2, <3>3, <3>4, <3>5, <3>6, CoversWithNext
    <3> before \in Seq(PageRows)
      BY <3>6 DEF Covers, AsAsked
    <3>8. new # <<>>
      BY <1>2, <3>4, <3>6, JoinedEnds
    <3>9. rows # <<>> => Last(new) = Last(rows)
      BY <1>2, <3>4, <3>6, JoinedEnds
    <3> QED BY <1>2, <3>1, <3>7, <3>8, <3>9 DEF IsEndOf
  <2>3. CASE c # Missing /\ Backward(c)
    <3>1. new = rows \o before /\ toward = "backward" /\ newEnd = end /\ newStart = (p.previous = Missing)
      BY <2>3
    <3>2. x <=> ~more
      BY <1>2, <1>10, <2>3, <3>1
    <3>3. FillsBackward(q, Head(before), rows, more)
      BY <1>2, <1>7, <1>8, <2>3
    <3>4. Joined(new, rows, before)
      BY <3>1 DEF Joined
    <3> HIDE DEF new, toward, newEnd, newStart
    <3>5. PICK z \in BOOLEAN : z = start
      BY <1>8, <2>3
    <3>6. Covers(before, q, z, y) /\ before # <<>>
      BY <1>8, <1>10, <2>3, <3>1, <3>5
    <3>7. Covers(new, q, x, y)
      BY <1>3, <1>10, <3>2, <3>3, <3>4, <3>5, <3>6, CoversWithPrevious
    <3> before \in Seq(PageRows)
      BY <3>6 DEF Covers, AsAsked
    <3>8. new # <<>>
      BY <1>2, <3>4, <3>6, JoinedEnds
    <3>9. rows # <<>> => Head(new) = Head(rows)
      BY <1>2, <3>4, <3>6, JoinedEnds
    <3> QED BY <1>2, <3>1, <3>7, <3>8, <3>9 DEF IsEndOf
  <2> QED BY <2>1, <2>2, <2>3
<1>12. /\ walk'.request = q /\ walk'.toward = toward /\ walk'.rows = new
       /\ walk'.atStart = newStart /\ walk'.atEnd = newEnd
  BY <1>5
<1> HIDE DEF toward, new, newStart, newEnd
<1>13. StayedFor(q)' = StayedFor(q)
  BY DEF StayedFor
<1>14. Covers(new, q, x, y)'
  BY <1>11, <1>13 DEF Covers
<1>15. IsPageOf(p, q)'
  <2>1. \A r, s, e : Covers(r, q, s, e)' <=> Covers(r, q, s, e)
    BY <1>13 DEF Covers
  <2> QED BY <1>2, <2>1 DEF IsPageOf
<1>16. WalkInv'
  <2>1. walk'.atStart = x /\ walk'.atEnd = y
    BY <1>10, <1>12
  <2> QED BY <1>3, <1>4, <1>9, <1>10, <1>11, <1>12, <1>14, <1>15, <2>1 DEF WalkInv
<1>17. StatusInv' /\ FetchInv'
  BY <1>4 DEF PagesInv, StatusInv, FetchInv
<1>18. TokensInv'
  BY DeliverKeepsTokens DEF PagesInv
<1> QED BY <1>16, <1>17, <1>18 DEF PagesInv

-----------------------------------------------------------------------------
(* Reading a batch.                                                        *)

\* The parts of a fetch, and what is done with the batch it reads.
IsFetch(q, n, c, s, f, b) ==
  /\ b = Backward(fetch.cursor)
  /\ q = fetch.request /\ n = fetch.size /\ c = fetch.cursor /\ s = fetch.seek /\ f = fetch.found

BatchGoes(q, n, b, B, g) ==
  \/ Len(g) > n /\ Deliver(SubSeq(g, 1, n), TRUE)
  \/ Len(g) <= n /\ Len(B) < n + 1 /\ Deliver(g, FALSE)
  \/ /\ Len(g) <= n /\ Len(B) = n + 1
     /\ fetch' = [fetch EXCEPT !.found = g, !.seek = Token(Last(B), IF b THEN "backward" ELSE "forward", q)]
     /\ UNCHANGED <<page, walk>>

\* A batch is read from where the seek is, and the rows of the request are taken from it.
LEMMA BatchOfFetch ==
  ASSUME ReadBatch, NEW q, NEW n, NEW c, NEW s, NEW f, NEW b, IsFetch(q, n, c, s, f, b)
  PROVE  \E B, g : B = Batch(q, s, b, n + 1) /\ g = f \o Accepted(q, B, b) /\ BatchGoes(q, n, b, B, g)
<1>1. /\ b = Backward(fetch.cursor)
      /\ q = fetch.request /\ n = fetch.size /\ c = fetch.cursor /\ s = fetch.seek /\ f = fetch.found
  BY DEF IsFetch
<1>2. PICK B : /\ B = Batch(fetch.request, fetch.seek, Backward(fetch.cursor), fetch.size + 1)
               /\ LET found == fetch.found \o Accepted(fetch.request, B, Backward(fetch.cursor)) IN
                  \/ Len(found) > fetch.size /\ Deliver(SubSeq(found, 1, fetch.size), TRUE)
                  \/ Len(found) <= fetch.size /\ Len(B) < fetch.size + 1 /\ Deliver(found, FALSE)
                  \/ /\ Len(found) <= fetch.size /\ Len(B) = fetch.size + 1
                     /\ fetch' = [fetch EXCEPT !.found = found,
                                    !.seek = Token(Last(B), IF Backward(fetch.cursor) THEN "backward" ELSE "forward",
                                                   fetch.request)]
                     /\ UNCHANGED <<page, walk>>
  BY Zenon DEF ReadBatch
<1>3. PICK g : g = fetch.found \o Accepted(fetch.request, B, Backward(fetch.cursor))
  OBVIOUS
<1>4. BatchGoes(fetch.request, fetch.size, Backward(fetch.cursor), B, g)
  BY <1>2, <1>3, Zenon DEF BatchGoes
<1> QED BY <1>1, <1>2, <1>3, <1>4, Zenon

\* A batch fills the page, ends it, or moves the seek on.
LEMMA ReadBatchOfAnchored ==
  ASSUME PagesInv, ReadBatch, Anchored(fetch.request)
  PROVE  PagesInv'
<1>1. Backward(fetch.cursor) \in BOOLEAN
  BY DEF Backward
<1>b. PICK b \in BOOLEAN : b = Backward(fetch.cursor) /\ (b <=> Backward(fetch.cursor))
  BY <1>1
<1>q. PICK q, n, c, s, f : /\ q = fetch.request /\ n = fetch.size /\ c = fetch.cursor
                           /\ s = fetch.seek /\ f = fetch.found
  OBVIOUS
<1>2. /\ b = Backward(fetch.cursor) /\ (b <=> Backward(fetch.cursor))
      /\ q = fetch.request /\ n = fetch.size /\ c = fetch.cursor /\ s = fetch.seek /\ f = fetch.found
  BY <1>b, <1>q
<1>3. fetch # Missing /\ status' = status
  BY DEF ReadBatch
<1>4. FetchIs(q, n, c, s, f, b)
  BY <1>2, <1>3 DEF PagesInv, FetchInv
<1>i. IsFetch(q, n, c, s, f, b)
  BY <1>2 DEF IsFetch
<1>5. PICK B, g : B = Batch(q, s, b, n + 1) /\ g = f \o Accepted(q, B, b) /\ BatchGoes(q, n, b, B, g)
  BY <1>i, BatchOfFetch
<1>6. BatchRead(q, n, s, f, b, B, g)
  BY <1>5 DEF BatchRead
<1>7. CASE Len(g) > n /\ Deliver(SubSeq(g, 1, n), TRUE)
  <2>v. PICK v : v = SubSeq(g, 1, n)
    OBVIOUS
  <2>m. PICK more \in BOOLEAN : more = TRUE
    OBVIOUS
  <2>1. more = TRUE /\ v = SubSeq(g, 1, n)
    BY <2>v, <2>m
  <2>2. FillsPage(q, c, SubSeq(g, 1, n), more, b)
    BY <1>4, <1>6, <1>7, <2>1, FullPage
  <2>3. Deliver(v, more) /\ FillsPage(fetch.request, fetch.cursor, v, more, b)
    BY <1>2, <1>7, <2>1, <2>2
  <2> QED BY <1>2, <1>3, <2>3, DeliverKeepsPagesInv
<1>8. CASE Len(g) <= n /\ Len(B) < n + 1 /\ Deliver(g, FALSE)
  <2>1. PICK more \in BOOLEAN : more = FALSE
    OBVIOUS
  <2>2. FillsPage(q, c, g, more, b)
    BY <1>4, <1>6, <1>8, <2>1, LastPage
  <2>3. Deliver(g, more) /\ FillsPage(fetch.request, fetch.cursor, g, more, b)
    BY <1>2, <1>8, <2>1, <2>2
  <2> QED BY <1>2, <1>3, <2>3, DeliverKeepsPagesInv
<1>9. CASE /\ Len(g) <= n /\ Len(B) = n + 1
           /\ fetch' = [fetch EXCEPT !.found = g, !.seek = Token(Last(B), IF b THEN "backward" ELSE "forward", q)]
           /\ UNCHANGED <<page, walk>>
  <2>1. PICK t : t = Token(Last(B), Toward(b), q)
    OBVIOUS
  <2>2. FetchIs(q, n, c, t, g, b)
    BY <1>4, <1>6, <1>9, <2>1, NextSeek
  <2>3. /\ fetch'.request = fetch.request /\ fetch'.size = fetch.size /\ fetch'.cursor = fetch.cursor
        /\ fetch'.seek = t /\ fetch'.found = g
    BY <1>9, <2>1 DEF Toward
  <2>4. \A r : StayedFor(r)' = StayedFor(r)
    BY <1>3 DEF StayedFor
  <2>5. FetchIs(q, n, c, t, g, b)'
    BY <2>2, <2>4 DEF FetchIs
  <2>6. FetchInv'
    <3>1. fetch.cursor # Missing => fetch.cursor \in {page.next, page.previous}
      BY <1>3 DEF PagesInv, FetchInv
    <3>2. ASSUME NEW a \in BOOLEAN, a <=> Backward(c) PROVE FetchIs(q, n, c, t, g, a)'
      <4>1. a = b
        BY <1>2, <3>2
      <4> QED BY <2>5, <4>1
    <3> QED BY <1>2, <1>9, <2>3, <3>1, <3>2 DEF FetchInv
  <2>7. WalkInv'
    BY <1>9, <2>4, WalkStays DEF PagesInv
  <2>8. StatusInv' /\ TokensInv'
    BY <1>3, <1>9, <2>3 DEF PagesInv, StatusInv, TokensInv
  <2> QED BY <2>6, <2>7, <2>8 DEF PagesInv
<1> QED BY <1>5, <1>7, <1>8, <1>9 DEF BatchGoes

\* Nothing is promised of a query whose tokens lack a key.
LEMMA ReadBatchKeepsPagesInv ==
  ASSUME PagesInv, ReadBatch
  PROVE  PagesInv'
<1>1. CASE Anchored(fetch.request)
  BY <1>1, ReadBatchOfAnchored
<1>2. CASE ~Anchored(fetch.request)
  <2>1. status' = status /\ fetch # Missing
    BY DEF ReadBatch
  <2>2. PICK q, n, c, s, f, b : IsFetch(q, n, c, s, f, b)
    BY DEF IsFetch
  <2>3. PICK B, g : BatchGoes(q, n, b, B, g)
    BY <2>2, BatchOfFetch
  <2>4. ASSUME NEW v, NEW more, Deliver(v, more) PROVE PagesInv'
    <3>1. TokensInv' /\ fetch' = Missing /\ walk'.request = fetch.request
      BY <2>1, <2>4, DeliverKeepsTokens DEF PagesInv
    <3> QED BY <1>2, <2>1, <3>1 DEF PagesInv, StatusInv, FetchInv, WalkInv
  <2>5. ASSUME fetch'.request = fetch.request, fetch'.cursor = fetch.cursor, UNCHANGED <<page, walk>> PROVE PagesInv'
    <3>1. \A r : StayedFor(r)' = StayedFor(r)
      BY <2>1 DEF StayedFor
    <3>2. WalkInv'
      BY <2>5, <3>1, WalkStays DEF PagesInv
    <3>3. TokensInv' /\ FetchInv' /\ StatusInv'
      BY <1>2, <2>1, <2>5 DEF PagesInv, TokensInv, FetchInv, StatusInv
    <3> QED BY <3>2, <3>3 DEF PagesInv
  <2>6. CASE Deliver(SubSeq(g, 1, n), TRUE) \/ Deliver(g, FALSE)
    BY <2>4, <2>6
  <2>7. CASE /\ fetch' = [fetch EXCEPT !.found = g, !.seek = Token(Last(B), IF b THEN "backward" ELSE "forward", q)]
             /\ UNCHANGED <<page, walk>>
    <3>1. fetch'.request = fetch.request /\ fetch'.cursor = fetch.cursor
      BY <2>7
    <3> QED BY <2>5, <2>7, <3>1
  <2> QED BY <2>3, <2>6, <2>7 DEF BatchGoes
<1> QED BY <1>1, <1>2

-----------------------------------------------------------------------------
(* The theorems.                                                           *)

LEMMA StutterKeepsPagesInv ==
  ASSUME PagesInv, UNCHANGED pageVars
  PROVE  PagesInv'
<1>1. status' = status /\ fetch' = fetch /\ page' = page /\ walk' = walk
  BY DEF pageVars
<1>2. \A r : StayedFor(r)' = StayedFor(r)
  BY <1>1 DEF StayedFor
<1>3. WalkInv'
  BY <1>1, <1>2, WalkStays DEF PagesInv
<1>4. FetchInv'
  <2>1. PICK g : g = fetch
    OBVIOUS
  <2>2. ASSUME g # Missing, Anchored(g.request), NEW b \in BOOLEAN, b <=> Backward(g.cursor)
        PROVE  FetchIs(g.request, g.size, g.cursor, g.seek, g.found, b)'
    <3>1. FetchIs(g.request, g.size, g.cursor, g.seek, g.found, b)
      BY <2>1, <2>2 DEF PagesInv, FetchInv
    <3> QED BY <1>2, <3>1 DEF FetchIs
  <2> QED BY <1>1, <2>1, <2>2 DEF PagesInv, FetchInv
<1> QED BY <1>1, <1>3, <1>4 DEF PagesInv, TokensInv, StatusInv

LEMMA StepKeepsPagesInv ==
  ASSUME PagesInv, [PagesNext]_pageVars
  PROVE  PagesInv'
<1>1. ASSUME NEW q \in Requests, NEW n \in PageSizes, NEW c, AskPage(q, n, c) PROVE PagesInv'
  BY <1>1, AskPageKeepsPagesInv
<1>2. ASSUME NEW r \in PageRows, RowComes(r) \/ RowGoes(r) PROVE PagesInv'
  BY <1>2, WritersKeepPagesInv
<1>3. CASE ReadBatch
  BY <1>3, ReadBatchKeepsPagesInv
<1>4. CASE UNCHANGED pageVars
  BY <1>4, StutterKeepsPagesInv
<1> QED BY <1>1, <1>2, <1>3, <1>4 DEF PagesNext

LEMMA PagesInvPartitions ==
  ASSUME PagesInv
  PROVE  PagesPartition
<1> SUFFICES ASSUME walk # Missing, walk.request # Missing, Anchored(walk.request)
             PROVE  LET rows == walk.rows
                        Shown == {rows[i] : i \in DOMAIN rows}
                        Missed == Stayed \ Shown
                    IN  /\ \A i, j \in DOMAIN rows : i < j => Ahead(rows[i], rows[j], walk.request.orders)
                        /\ \A r \in Shown : r.sid \in walk.request.verified
                        /\ \A r \in Missed :
                             IF rows = <<>> THEN ~(walk.atStart \/ walk.atEnd)
                             ELSE \/ Ahead(r, Head(rows), walk.request.orders) /\ ~walk.atStart
                                  \/ Ahead(Last(rows), r, walk.request.orders) /\ ~walk.atEnd
  BY DEF PagesPartition, WalkIsWhole
<1>1. Covers(walk.rows, walk.request, walk.atStart, walk.atEnd)
  BY DEF PagesInv, WalkInv
<1>2. walk.rows \in Seq(PageRows) /\ \A i, j \in 1..Len(walk.rows) : i < j => Ahead(walk.rows[i], walk.rows[j], walk.request.orders)
  BY <1>1 DEF Covers, AsAsked
<1>3. DOMAIN walk.rows = 1..Len(walk.rows)
  BY <1>2
<1>4. {walk.rows[i] : i \in DOMAIN walk.rows} = RowsIn(walk.rows)
  BY <1>3 DEF RowsIn
<1>5. \A r \in RowsIn(walk.rows) : r.sid \in walk.request.verified
  BY <1>1 DEF Covers, AllVerified
<1>6. Stayed = StayedFor(walk.request)
  BY DEF Stayed, StayedFor
<1>7. \A r \in Stayed \ RowsIn(walk.rows) : IsOutside(r, walk.rows, walk.request, walk.atStart, walk.atEnd)
  BY <1>1, <1>6 DEF Covers
<1> QED BY <1>2, <1>3, <1>4, <1>5, <1>7 DEF IsOutside

\* What a fetch has collected and what a walk has shown leave out no row that
\* stayed, in every state: whichever pages are asked for, whatever commits
\* between two batches of a page.  That is of the requests whose tokens hold
\* the keys they sort by; the others (MongoDB's _page_anchor of a managed key)
\* are walked too, and nothing is said of them.
THEOREM WalksLeaveNothingOut == PagesSpec => []PagesInv
<1>1. PagesInit => PagesInv
  BY InitEstablishesPagesInv
<1>2. PagesInv /\ [PagesNext]_pageVars => PagesInv'
  BY StepKeepsPagesInv
<1> QED BY <1>1, <1>2, PTL DEF PagesSpec

\* The pages that a client goes through with continuation tokens partition the
\* rows of its query, unless MongoDB sorts them by a key it does not find in its
\* own tokens: in the order it asked for, none twice, and none that stayed left
\* out, for any rows, queries, orders and page sizes.
THEOREM PagesStayAPartition == PagesSpec => []PagesPartition
<1>1. PagesInv => PagesPartition
  BY PagesInvPartitions
<1> QED BY <1>1, WalksLeaveNothingOut, PTL
=============================================================================
