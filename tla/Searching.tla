----------------------------- MODULE Searching -----------------------------
\* Searches of one store, and the weak links they follow: an expression is put
\* together from atoms, translated for SQL (a WHERE and a HAVING clause over
\* joined rows) and for MongoDB (a filter for truth, a filter for falsity), and
\* answered; link() and unlink() append to the link table in concurrent
\* transactions.
EXTENDS Integers, FiniteSets
CONSTANTS
  Null,       \* no value: SQL NULL, a missing or null field of a document
  Sources,    \* the rows a search ranges over
  Targets,    \* the rows they refer to and are linked to
  Linked,     \* the links a search of a fixed content finds
  Atoms,      \* the predicates an expression is put together from
  Scopes,     \* the scopes a searcher is opened with
  MaxSize,    \* nodes of an expression
  Writers,    \* connections that link and unlink
  LinkPairs,  \* the <<source lineage, target lineage>> they work on
  LinkProbes, \* the expressions asked while they do
  LinkScopes, \* and the scopes they are asked in
  Engines,    \* where they do: subset of {"sqlite", "postgresql", "mongo"}
  MaxLinkCalls,
  MaxClock
VARIABLES
  links,     \* the rows of the link table
  nextLink,  \* its next sid
  clock,     \* the next store timestamp
  engine,    \* an engine, or Null: the links do not change
  writing,   \* [Writers -> the transaction of link or unlink, or Idle]
  linkCalls,
  wanted,    \* [<<source, target>> -> whether the last call that ran alone linked them, Null after calls that overlapped]
  expr,      \* the expression, or Null
  scope      \* the scope of its searcher
searchVars == <<links, nextLink, clock, engine, writing, linkCalls, wanted, expr, scope>>

\* ---------------------------------------------------------------- expressions
Is(a, n) == [op |-> "is", atom |-> a, alias |-> n]
Negation(e) == [op |-> "not", of |-> e]
Pair(op, x, y) == [op |-> op, left |-> x, right |-> y]
RECURSIVE Leaves(_), Size(_)
Leaves(e) == CASE e.op = "is" -> {e}
               [] e.op = "not" -> Leaves(e.of)
               [] OTHER -> Leaves(e.left) \cup Leaves(e.right)
Size(e) == CASE e.op = "is" -> 1
             [] e.op = "not" -> 1 + Size(e.of)
             [] OTHER -> 1 + Size(e.left) + Size(e.right)
\* Attribute access makes a fresh alias of a child table or a link table.
Fresh(e) == Cardinality(Leaves(e)) + 1
Uses(e, names) == \E l \in Leaves(e) : l.atom.on \in names
\* A second query variable over the targets.
TwoVariables(e) == Uses(e, {"join", "other"})

\* ------------------------------------------------------- three-valued logic
No == 0
Unknown == 1
Yes == 2
Truth(b) == IF b THEN Yes ELSE No
Opposite(x) == 2 - x
Lower(x, y) == IF x < y THEN x ELSE y
Upper(x, y) == IF x < y THEN y ELSE x
Holding(test, x, y) == CASE test = "eq" -> x = y
                         [] test = "ne" -> x # y
                         [] test = "lt" -> x < y
                         [] test = "ge" -> x >= y
Compare(test, x, y) == IF Null \in {x, y} THEN Unknown ELSE Truth(Holding(test, x, y))
Literal(a) == CHOOSE v \in a.set : TRUE

\* ---------------------------------------------------------------- revisions
Within(x, t) == t = Null \/ x.ts <= t
\* The NOT EXISTS subquery, the anti-join: no newer row of the lineage, as of t.
Newest(x, rows, t) == \A y \in rows : y.lid = x.lid /\ y.sid > x.sid => ~Within(y, t)
Latest(rows) == {x \in rows : \A y \in rows : y.lid = x.lid => y.sid =< x.sid}
InScope(x, rows) == /\ Within(x, scope.asOf)
                    /\ scope.latest => Newest(x, rows, scope.asOf)
                    /\ scope.mains => x.alt = Null
ReferredBy(x) == {y \in Targets : y.sid = x.ref}
OrNull(S) == IF S = {} THEN {Null} ELSE S
\* The live link rows a traversal joins, and the latest revisions behind them.
LiveLinks(lid, t) == {x \in links : x.src = lid /\ x.retracted = 0 /\ Newest(x, links, t) /\ Within(x, t)}
Behind(x, t) == {y \in Targets : y.lid = x.tgt /\ Newest(y, Targets, t) /\ Within(y, t)}

\* ---------------------------------------------------------------------- SQL
\* A clause is a test of a column, a count of the joined rows that pass a
\* clause ("some": positive, "none": zero), or a combination.
Clause(op, x) == [op |-> op, of |-> x]
Constantly(b) == [op |-> "const", value |-> Truth(b)]
Test(l, test, set) == [op |-> "test", leaf |-> l, test |-> test, set |-> set]
Expression(where, having, post, derived) == [where |-> where, having |-> having, post |-> post, derived |-> derived]
Same(c) == Expression(c, c, FALSE, FALSE)
FromChild(l) == l.atom.on \in {"kids", "link", "linkField", "edge", "owner"}
Plain(l, c) == IF FromChild(l) THEN Expression(c, Clause("some", c), FALSE, TRUE) ELSE Same(c)

Member(l, S) ==
  LET in == Test(l, "in", S \ {Null}) IN
  CASE FromChild(l) -> in
    [] S = {} -> Constantly(FALSE)
    [] S = {Null} -> Test(l, "null", {})
    [] Null \in S -> Pair("or", Test(l, "null", {}), in)
    [] OTHER -> Pair("and", Test(l, "known", {}), in)
IsIn(l, S) == Expression(IF FromChild(l) THEN Constantly(TRUE) ELSE Member(l, S),
                         Clause("none", Negation(Member(l, S))), FromChild(l), FromChild(l))
HasAny(l, S) == LET in == Test(l, "in", S) IN Expression(in, Clause("some", in), FALSE, TRUE)
HasOnly(l, S) ==
  LET outside == IF S = {} THEN Test(l, "known", {}) ELSE Negation(Test(l, "in", S))
  IN  Expression(Constantly(TRUE), Clause("none", outside), TRUE, TRUE)

SqlAtom(l) ==
  LET a == l.atom IN
  CASE a.test \in {"true", "false"} -> Same(Constantly(a.test = "true"))
    [] a.test = "in" -> IsIn(l, a.set)
    [] a.test = "any" -> HasAny(l, a.set)
    [] a.test = "only" -> HasOnly(l, a.set)
    [] a.test \in {"null", "known", "same", "join"} -> Same(Test(l, a.test, {}))
    [] OTHER -> Plain(l, Test(l, a.test, a.set))

\* Faulty: a predicate on a set of rows is negated row by row.
RowwiseInvert(x) == Expression(Negation(x.where), Negation(x.having), x.post, x.derived)
\* __invert__: row by row, except where the truth depends on a set of rows.
Invert(x) == IF x.derived THEN Expression(Constantly(TRUE), Negation(x.having), TRUE, TRUE)
                          ELSE Expression(Negation(x.where), Negation(x.having), x.post, FALSE)
Combine(op, x, y) == Expression(Pair(op, x.where, y.where), Pair(op, x.having, y.having),
                                x.post \/ y.post, x.derived \/ y.derived)
RECURSIVE Sql(_)
Sql(e) == CASE e.op = "is" -> SqlAtom(e)
            [] e.op = "not" -> Invert(Sql(e.of))
            [] OTHER -> Combine(e.op, Sql(e.left), Sql(e.right))

\* The owner a reverse strong link joins: its latest main revision.
OwnerJoins(o) == o.alt = Null /\ Newest(o, Sources, scope.asOf) /\ Within(o, scope.asOf)
\* What the LEFT OUTER JOIN of a leaf's own alias puts beside a source row.
Beside(l, r) ==
  LET live == LiveLinks(r.lid, scope.asOf) IN
  CASE l.atom.on = "kids" -> OrNull(r.kids)
    [] l.atom.on = "edge" -> OrNull(r.edges)
    [] l.atom.on = "owner" -> OrNull({IF OwnerJoins(o) THEN o.lid ELSE Null : o \in {o \in Sources : r.lid \in o.edges}})
    [] l.atom.on = "link" -> OrNull({x.tgt : x \in live})
    [] l.atom.on = "linkField" -> OrNull(UNION {OrNull({y.num : y \in Behind(x, scope.asOf)}) : x \in live})
JoinedRows(e, r) ==
  LET own == {l \in Leaves(e) : FromChild(l)}
  IN  {f \in [{l.alias : l \in own} -> UNION {Beside(l, r) : l \in own}] : \A l \in own : f[l.alias] \in Beside(l, r)}
ReferredNum(r) == LET y == ReferredBy(r) IN IF y = {} THEN Null ELSE (CHOOSE x \in y : TRUE).num
Column(l, r, w, f) == CASE l.atom.on = "num" -> r.num
                        [] l.atom.on \in {"ref", "join"} -> r.ref
                        [] l.atom.on = "refNum" -> ReferredNum(r)
                        [] l.atom.on = "other" -> w.num
                        [] OTHER -> f[l.alias]

\* The value of a clause over a group of joined rows (one row in WHERE).
RECURSIVE Evaluated(_, _, _, _)
Evaluated(c, r, w, group) ==
  CASE c.op = "const" -> c.value
    [] c.op = "not" -> Opposite(Evaluated(c.of, r, w, group))
    [] c.op = "and" -> Lower(Evaluated(c.left, r, w, group), Evaluated(c.right, r, w, group))
    [] c.op = "or" -> Upper(Evaluated(c.left, r, w, group), Evaluated(c.right, r, w, group))
    [] c.op = "some" -> Truth(\E f \in group : Evaluated(c.of, r, w, {f}) = Yes)
    [] c.op = "none" -> Truth(\A f \in group : Evaluated(c.of, r, w, {f}) # Yes)
    [] OTHER ->
       LET x == Column(c.leaf, r, w, CHOOSE f \in group : TRUE) IN
       CASE c.test = "null" -> Truth(x = Null)
         [] c.test = "known" -> Truth(x # Null)
         [] c.test = "in" -> IF c.set = {} THEN No ELSE IF x = Null THEN Unknown ELSE Truth(x \in c.set)
         [] c.test = "same" -> Compare("eq", x, ReferredNum(r))
         [] c.test = "join" -> Compare("eq", x, w.sid)
         [] OTHER -> Compare(c.test, x, Literal(c))

NoOther == [sid |-> Null, lid |-> Null, num |-> Null, ts |-> Null, alt |-> Null]
Others(e) == IF TwoVariables(e) THEN {w \in Targets : InScope(w, Targets)} ELSE {NoOther}
\* A reference that an expression follows adds its own cutoff to the search.
ReferenceAsOf(e, r) == Uses(e, {"refNum"}) /\ scope.asOf # Null => \E y \in ReferredBy(r) : Within(y, scope.asOf)
SqlAnswer(e) ==
  LET x == Sql(e) IN
  {p \in {r \in Sources : InScope(r, Sources) /\ ReferenceAsOf(e, r)} \X Others(e) :
     LET group == {f \in JoinedRows(e, p[1]) : Evaluated(x.where, p[1], p[2], {f}) = Yes}
     IN  group # {} /\ (x.post => Evaluated(x.having, p[1], p[2], group) = Yes)}

\* ------------------------------------------------------------------ MongoDB
\* A filter is the set of the documents it matches; each node has two.
Filters(truth, falsity) == [truth |-> truth, falsity |-> falsity]
Elements(l, d) == IF l.atom.on = "kids" THEN d[1].kids
                  ELSE LET live == LiveLinks(d[1].lid, scope.asOf) IN
                       IF l.atom.on = "link" THEN {x.tgt : x \in live}
                       ELSE UNION {OrNull({y.num : y \in Behind(x, scope.asOf)}) : x \in live}
Matching(l, D, S) == {d \in D : Elements(l, d) \cap S # {}}
Guarded(l, x) == x # Null /\ Holding(l.atom.test, x, Literal(l.atom))
Scalar(l, d) == Column(l, d[1], d[2], <<>>)
Known(l, D) == {d \in D : Scalar(l, d) # Null}

Comparison(l, D, right) ==
  LET known == {d \in Known(l, D) : right[d] # Null}
      true == {d \in known : Holding(IF l.atom.test \in {"same", "join"} THEN "eq" ELSE l.atom.test, Scalar(l, d), right[d])}
  IN  Filters(true, known \ true)
Membership(l, D) ==
  LET S == l.atom.set
      known == Known(l, D)
      in == {d \in known : Scalar(l, d) \in S}
  IN  Filters(IF Null \in S THEN in \cup (D \ known) ELSE in, known \ in)
Existential(l, D, S) == LET some == Matching(l, D, S) IN Filters(some, D \ some)
Universal(l, D, S) == LET outsider == Matching(l, D, S) IN Filters(D \ outsider, outsider)

MongoAtom(l, D) ==
  LET a == l.atom
      stored == UNION {Elements(l, d) : d \in D}
  IN  CASE a.test = "true" -> Filters(D, {})
        [] a.test = "false" -> Filters({}, D)
        [] a.test = "null" -> Filters(D \ Known(l, D), Known(l, D))
        [] a.test = "known" -> Filters(Known(l, D), D \ Known(l, D))
        [] a.test = "same" -> Comparison(l, D, [d \in D |-> ReferredNum(d[1])])
        [] a.test = "join" -> Comparison(l, D, [d \in D |-> d[2].sid])
        [] FromChild(l) /\ a.test = "any" -> Existential(l, D, a.set)
        [] FromChild(l) /\ a.test \in {"only", "in"} -> Universal(l, D, stored \ a.set)
        [] FromChild(l) -> Existential(l, D, {v \in stored : Guarded(l, v)})
        [] a.test = "in" -> Membership(l, D)
        [] OTHER -> Comparison(l, D, [d \in D |-> Literal(a)])
Swapped(x, D) == Filters(x.falsity, x.truth)
RECURSIVE Render(_, _)
Render(e, D) ==
  CASE e.op = "is" -> MongoAtom(e, D)
    [] e.op = "not" -> Swapped(Render(e.of, D), D)
    [] e.op = "and" -> LET x == Render(e.left, D) y == Render(e.right, D)
                       IN  Filters(x.truth \cap y.truth, x.falsity \cup y.falsity)
    [] e.op = "or" -> LET x == Render(e.left, D) y == Render(e.right, D)
                      IN  Filters(x.truth \cup y.truth, x.falsity \cap y.falsity)

\* Only a positive conjunct can join the second variable; a search it does not
\* join is refused, and so is one that follows a strong link.
RECURSIVE RequiredNodes(_)
RequiredNodes(e) == CASE e.op = "is" -> {e}
                      [] e.op = "and" -> RequiredNodes(e.left) \cup RequiredNodes(e.right)
                      [] OTHER -> {}
Bound(e) == /\ TwoVariables(e) => \E l \in RequiredNodes(e) : l.atom.test = "join"
            /\ ~Uses(e, {"edge", "owner"})
\* The lookup of the second variable, unwound.
Looked(e, r) == IF TwoVariables(e) THEN OrNull(ReferredBy(r)) ELSE {NoOther}
Documents(e) == {<<r, w>> \in Sources \X (Targets \cup {NoOther}) :
                   w \in {IF y = Null THEN NoOther ELSE y : y \in Looked(e, r)}}
MongoAnswer(e) ==
  {d \in Render(e, Documents(e)).truth :
     /\ InScope(d[1], Sources)
     /\ TwoVariables(e) => InScope(d[2], Targets)
     /\ ReferenceAsOf(e, d[1])}

\* ----------------------------------------------------------------- weak links
Idle == [pc |-> "idle"]
Of(pair) == {x \in links : <<x.src, x.tgt>> = pair}
Live(rows) == {x \in rows : x.retracted = 0}
\* _linked_by_lid, what linked() and the .links of a fetched record return.
LinkedBy(lid, t) ==
  LET live == Live(Latest({x \in links : x.src = lid /\ Within(x, t)}))
      found == {y \in Targets : Within(y, t) /\ \E x \in live : x.tgt = y.lid}
  IN  Latest(found)

Working(w) == writing[w].pc # "idle"
Overlapping(w, pair) == {v \in Writers \ {w} : Working(v) /\ writing[v].pair = pair}
\* The store timestamp, then the latest rows of the pair. SQLite's write lock
\* lets one transaction at a time come this far.
BeginLink(w, call, pair) ==
  /\ engine # Null /\ ~Working(w) /\ linkCalls < MaxLinkCalls
  /\ engine = "sqlite" => \A v \in Writers : ~Working(v)
  /\ writing' = [v \in Writers |->
       IF v = w THEN [pc |-> "read", call |-> call, pair |-> pair, ts |-> clock, latest |-> Latest(Of(pair)),
                      seen |-> links, rows |-> {}, alone |-> Overlapping(w, pair) = {}]
       ELSE IF v \in Overlapping(w, pair) THEN [writing[v] EXCEPT !.alone = FALSE]
       ELSE writing[v]]
  /\ linkCalls' = linkCalls + 1
  /\ UNCHANGED <<links, nextLink, clock, engine, wanted, expr, scope>>

LinkRow(tx, sid, lid, retracted) ==
  [sid |-> sid, lid |-> lid, src |-> tx.pair[1], tgt |-> tx.pair[2], retracted |-> retracted, ts |-> tx.ts]
MaxLineage(rows, sid) == IF rows = {} THEN sid ELSE CHOOSE n \in {x.lid : x \in rows} : \A x \in rows : x.lid =< n
DoLink(tx) == IF Live(tx.latest) # {} THEN {}
              ELSE {LinkRow(tx, nextLink, MaxLineage(tx.latest, nextLink), 0)}
\* Faulty: only the first of the lineages is retracted.
RetractOne(tx) == LET live == Live(tx.latest) IN
  {LinkRow(tx, nextLink, x.lid, 1) : x \in {y \in live : \A z \in live : y.lid =< z.lid}}
\* Faulty: the next sid is taken once for all of them.
RetractUnderOneSid(tx) == {LinkRow(tx, nextLink, x.lid, 1) : x \in Live(tx.latest)}
\* One retraction per live lineage of the pair, in the order of the lineages.
DoUnlink(tx) == LET live == Live(tx.latest) IN
  {LinkRow(tx, nextLink + Cardinality({y \in live : y.lid < x.lid}), x.lid, 1) : x \in live}

\* The counter of a MongoDB collection: a transaction that takes a sid after
\* another took one that is not in its snapshot conflicts.
CounterTaken(w) == engine = "mongo" /\ (links # writing[w].seen \/ \E v \in Writers \ {w} : Working(v) /\ writing[v].rows # {})
InsertLinks(w) ==
  LET tx == writing[w]
      rows == IF tx.pc = "idle" THEN {} ELSE IF tx.call = "link" THEN DoLink(tx) ELSE DoUnlink(tx)
  IN  /\ tx.pc = "read"
      /\ rows # {} => ~CounterTaken(w)
      /\ writing' = [writing EXCEPT ![w].pc = "written", ![w].rows = rows]
      /\ nextLink' = nextLink + Cardinality(rows)
      /\ UNCHANGED <<links, clock, engine, linkCalls, wanted, expr, scope>>
CommitLinks(w) ==
  LET tx == writing[w] IN
  /\ tx.pc = "written"
  /\ links' = links \cup tx.rows
  /\ wanted' = [wanted EXCEPT ![tx.pair] = IF tx.alone THEN tx.call = "link" ELSE Null]
  /\ writing' = [writing EXCEPT ![w] = Idle]
  /\ UNCHANGED <<nextLink, clock, engine, linkCalls, expr, scope>>
RollBackLinks(w) ==
  /\ Working(w)
  /\ writing' = [writing EXCEPT ![w] = Idle]
  /\ UNCHANGED <<links, nextLink, clock, engine, linkCalls, wanted, expr, scope>>
\* The next tick of the store's clock.
TickClock == /\ engine # Null /\ clock < MaxClock /\ clock' = clock + 1
             /\ UNCHANGED <<links, nextLink, engine, writing, linkCalls, wanted, expr, scope>>

\* ---------------------------------------------------- building an expression
Grow(e) == /\ Size(e) =< MaxSize /\ expr' = e
           /\ UNCHANGED <<links, nextLink, clock, engine, writing, linkCalls, wanted, scope>>
Negate == Grow(Negation(expr))
Extend(op, a, negated) == LET leaf == Is(a, Fresh(expr))
                          IN  Grow(Pair(op, expr, IF negated THEN Negation(leaf) ELSE leaf))

SearchAway == /\ links = {} /\ nextLink = 1 /\ clock = 1 /\ engine = Null /\ linkCalls = 0
              /\ writing = [w \in Writers |-> Idle] /\ wanted = [p \in LinkPairs |-> Null]
              /\ expr = Null /\ scope = Null
SearchInit ==
  /\ nextLink = 1 /\ clock = 1 /\ linkCalls = 0 /\ writing = [w \in Writers |-> Idle]
  /\ \/ engine = Null /\ links = Linked /\ wanted = [p \in LinkPairs |-> Null]
        /\ scope \in Scopes /\ expr \in {Is(a, 1) : a \in Atoms}
     \/ engine \in Engines /\ links = {} /\ wanted = [p \in LinkPairs |-> FALSE]
        /\ scope \in LinkScopes /\ expr \in {Is(a, 1) : a \in LinkProbes}
SearchNext ==
  \/ /\ engine = Null /\ expr # Null
     /\ \/ Negate
        \/ \E op \in {"and", "or"}, a \in Atoms, negated \in BOOLEAN : Extend(op, a, negated)
  \/ \E w \in Writers : \/ \E call \in {"link", "unlink"}, pair \in LinkPairs : BeginLink(w, call, pair)
                        \/ InsertLinks(w)
                        \/ CommitLinks(w)
                        \/ RollBackLinks(w)
  \/ TickClock
SearchSpec == SearchInit /\ [][SearchNext]_searchVars

\* ------------------------------------------------------------------ meaning
\* What an atom says of a row, from the values themselves.
Values(l, r) ==
  CASE l.atom.on = "kids" -> r.kids
    [] l.atom.on = "edge" -> r.edges
    [] l.atom.on = "owner" -> {o.lid : o \in {o \in Latest({x \in Sources : Within(x, scope.asOf)}) :
                                               o.alt = Null /\ r.lid \in o.edges}}
    [] l.atom.on = "link" -> {y.lid : y \in LinkedBy(r.lid, scope.asOf)}
    [] l.atom.on = "linkField" -> {y.num : y \in LinkedBy(r.lid, scope.asOf)}
AtomMeaning(l, r, w, threeValued) ==
  LET a == l.atom IN
  CASE a.test \in {"true", "false"} -> Truth(a.test = "true")
    [] FromChild(l) /\ a.test = "any" -> Truth(Values(l, r) \cap a.set # {})
    [] FromChild(l) /\ a.test \in {"only", "in"} -> Truth(Values(l, r) \subseteq a.set)
    [] FromChild(l) -> Truth(\E v \in Values(l, r) : v # Null /\ Holding(a.test, v, Literal(a)))
    [] OTHER ->
       LET x == Column(l, r, w, <<>>) IN
       CASE a.test = "null" -> Truth(x = Null)
         [] a.test = "known" -> Truth(x # Null)
         [] a.test = "in" -> IF threeValued /\ x = Null /\ Null \notin a.set THEN Unknown ELSE Truth(x \in a.set)
         [] a.test = "same" -> Compare("eq", x, ReferredNum(r))
         [] a.test = "join" -> Compare("eq", x, w.sid)
         [] OTHER -> Compare(a.test, x, Literal(a))
RECURSIVE Meaning(_, _, _, _)
Meaning(e, r, w, three) ==
  CASE e.op = "is" -> AtomMeaning(e, r, w, three)
    [] e.op = "not" -> Opposite(Meaning(e.of, r, w, three))
    [] e.op = "and" -> Lower(Meaning(e.left, r, w, three), Meaning(e.right, r, w, three))
    [] e.op = "or" -> Upper(Meaning(e.left, r, w, three), Meaning(e.right, r, w, three))
\* The rows of the store as it was at the cutoff.
AsItWas(rows) ==
  LET past == {x \in rows : Within(x, scope.asOf)}
  IN  {x \in IF scope.latest THEN Latest(past) ELSE past : scope.mains => x.alt = Null}
Meant(e, three) ==
  {p \in AsItWas(Sources) \X (IF TwoVariables(e) THEN AsItWas(Targets) ELSE {NoOther}) :
     ReferenceAsOf(e, p[1]) /\ Meaning(e, p[1], p[2], three) = Yes}

\* SQL and MongoDB find the rows an expression means, whatever it is put together
\* from and whatever cutoff, revisions and alternatives its searcher sees: the
\* WHERE and HAVING clauses over joined rows, and the two filters over embedded
\* arrays, both keep the reading "some element", "every element" under negation.
\* MongoDB reads is_in of a null field as unknown, SQL as false; MongoDB refuses
\* strong links and a second variable that no positive conjunct joins.
FiltersAgree ==
  expr # Null =>
  /\ SqlAnswer(expr) = Meant(expr, FALSE)
  /\ Bound(expr) => MongoAnswer(expr) = Meant(expr, TRUE)

\* A link or unlink that ran alone stays done, whatever concurrent calls did to
\* the pair before: duplicate lineages of a pair and revived ones included.
SavesStay ==
  engine # Null => \A p \in LinkPairs : wanted[p] # Null => (p[2] \in {y.lid : y \in LinkedBy(p[1], Null)} <=> wanted[p])

SearchTypeOK ==
  /\ nextLink \in Nat /\ clock \in 1..MaxClock /\ engine \in Engines \cup {Null} /\ linkCalls \in 0..MaxLinkCalls
  /\ \A x \in links : x.sid < nextLink \/ engine = Null
  /\ \A x, y \in links : x.sid = y.sid => x = y
  /\ DOMAIN writing = Writers /\ DOMAIN wanted = LinkPairs
  /\ expr # Null => Size(expr) =< MaxSize
=============================================================================
