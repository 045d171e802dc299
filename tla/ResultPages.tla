---------------------------- MODULE ResultPages ----------------------------
\* page() of the result sets: a client walks forward and backward over a live
\* query with continuation tokens, while rows come and go. A SQL page is one
\* statement; a MongoDB page whose candidates need a verifier is several.
EXTENDS Integers, Sequences, FiniteSets
CONSTANTS
  Missing,   \* no value of an order key, no token, no page
  PageRows,  \* the rows: [sid, keys]
  LateRows,  \* those that are inserted during the walk
  Outputs,   \* declared outputs: [name, scalar, managed, column]
  Requests,  \* queries: [backend, plain, orders, candidates, verified]
  PageSizes,
  MaxOrders, \* _PAGE_ORDER_MAX
  MaxLeaves  \* rows that disappear
VARIABLES
  status, \* [PageRows -> "coming", "here" or "gone"]
  fetch,  \* the page being fetched, or Missing
  page,   \* the page the client holds, or Missing
  walk    \* the rows of the pages it went through in one direction
pageVars == <<status, fetch, page, walk>>

\* --------------------------------------------------------------- the ordering
\* One root variable, no sorts, no window, and order names that stand for one
\* declared scalar output each.
Named(o) == {x \in Outputs : x.name = o.name}
Pageable(q) ==
  /\ q.plain
  /\ Len(q.orders) =< MaxOrders
  /\ \A i, j \in DOMAIN q.orders : q.orders[i].name = q.orders[j].name => i = j
  /\ \A i \in DOMAIN q.orders : Cardinality(Named(q.orders[i])) = 1 /\ \A x \in Named(q.orders[i]) : x.scalar
OutputOf(o) == CHOOSE x \in Named(o) : TRUE
OrderKey(row, o) == row.keys[OutputOf(o).column]
NullRank(v, o) == IF (v = Missing) = (o.nulls = "first") THEN 0 ELSE 1

\* ORDER BY, or $sort: rank, value and sid, each turned around going backward.
SortsBefore(x, y, orders, backward) ==
  \E n \in 1..Len(orders) + 1 :
    /\ \A i \in 1..n - 1 : OrderKey(x, orders[i]) = OrderKey(y, orders[i])
    /\ IF n > Len(orders) THEN IF backward THEN x.sid > y.sid ELSE x.sid < y.sid
       ELSE LET o == orders[n]
                u == OrderKey(x, o)
                v == OrderKey(y, o)
            IN  IF NullRank(u, o) # NullRank(v, o) THEN (NullRank(u, o) < NullRank(v, o)) # backward
                ELSE u # v /\ IF o.descending # backward THEN u > v ELSE u < v

\* The strict seek past an anchor: one choice per key, each behind the equality
\* of the keys before it, and the sid last.
PastKey(x, a, o, before) ==
  LET rank == NullRank(x, o)
      anchorRank == NullRank(a, o)
  IN  \/ IF before THEN rank < anchorRank ELSE rank > anchorRank
      \/ a # Missing /\ rank = anchorRank /\ IF o.descending = before THEN x > a ELSE x < a
\* Faulty: a missing key equals nothing.
SqlEquals(x, a, o) == Missing \notin {x, a} /\ x = a
SameKey(x, a, o) == NullRank(x, o) = NullRank(a, o) /\ x = a
Past(row, c, orders) ==
  LET before == c.toward = "backward" IN
  \E n \in 1..Len(orders) + 1 :
    /\ \A i \in 1..n - 1 : SameKey(OrderKey(row, orders[i]), c.anchors[i], orders[i])
    /\ IF n =< Len(orders) THEN PastKey(OrderKey(row, orders[n]), c.anchors[n], orders[n], before)
       ELSE IF before THEN row.sid < c.sid ELSE row.sid > c.sid

\* -------------------------------------------------------------------- tokens
\* What a token keeps of a row. SQL reads the key columns of the statement.
\* MongoDB looks every key up among the record's fields, where the three scalars
\* a store manages itself (logical_id, store_timestamp, alt_kind) never are.
PageAnchor(row, o, q) == IF q.backend = "mongo" /\ OutputOf(o).managed THEN Missing ELSE OrderKey(row, o)
Fingerprint(q) == <<q.backend, q.orders, q.candidates, q.verified>>
Token(row, toward, q) == [toward |-> toward, sid |-> row.sid, fingerprint |-> Fingerprint(q),
                          anchors |-> [i \in DOMAIN q.orders |-> PageAnchor(row, q.orders[i], q)]]
Tokens == {Token(r, toward, q) : r \in PageRows, toward \in {"forward", "backward"}, q \in {x \in Requests : Pageable(x)}}
Decodes(token, q) == token.fingerprint = Fingerprint(q) /\ Len(token.anchors) = Len(q.orders)

\* Rows have sids of their own, what a scalar output projects can be compared,
\* and a verifier rejects some of the candidates.
ASSUME PagesAssumption ==
  /\ IsFiniteSet(PageRows) /\ LateRows \subseteq PageRows
  /\ \A x, y \in PageRows : x.sid \in Int /\ (x.sid = y.sid => x = y)
  /\ \A r \in PageRows, x \in Outputs : x.scalar => r.keys[x.column] \in Int \cup {Missing}
  /\ PageSizes \subseteq Nat \ {0}
  /\ \A q \in Requests : /\ q.orders \in Seq([name : STRING, descending : BOOLEAN, nulls : {"first", "last"}])
                        /\ q.verified \subseteq q.candidates
  /\ Missing \notin Int \cup Requests \cup Tokens

\* --------------------------------------------------------------- one page
Backward(cursor) == cursor # Missing /\ cursor.toward = "backward"
Found(q, seek) == {r \in PageRows : /\ status[r] = "here" /\ r.sid \in q.candidates
                                    /\ seek # Missing => Past(r, seek, q.orders)}
\* The rows sorted: the i-th has i - 1 before it.
InOrder(S, q, backward) ==
  [i \in 1..Cardinality(S) |-> CHOOSE x \in S : Cardinality({y \in S : SortsBefore(y, x, q.orders, backward)}) = i - 1]
Batch(q, seek, backward, n) ==
  LET sorted == InOrder(Found(q, seek), q, backward)
  IN  IF Len(sorted) > n THEN SubSeq(sorted, 1, n) ELSE sorted
\* The verified ones of a batch, in the order they came, which is the sort's.
Accepted(q, batch, backward) == InOrder({r \in {batch[i] : i \in DOMAIN batch} : r.sid \in q.verified}, q, backward)

\* The client asks for the first page, or hands back a token of its page.
AskPage(q, n, cursor) ==
  /\ fetch = Missing /\ Pageable(q)
  /\ IF page = Missing THEN cursor = Missing
     ELSE cursor \in {page.next, page.previous} \ {Missing} /\ Decodes(cursor, q)
  /\ fetch' = [request |-> q, size |-> n, cursor |-> cursor, seek |-> cursor, found |-> <<>>]
  /\ UNCHANGED <<status, page, walk>>

Last(s) == s[Len(s)]
Reverse(s) == [i \in 1..Len(s) |-> s[Len(s) + 1 - i]]

\* The rows of a page, and the tokens on either side of it.
Page(q, cursor, visible, more) ==
  LET rows == IF Backward(cursor) THEN Reverse(visible) ELSE visible
      forward == IF rows = <<>> THEN Missing ELSE Token(Last(rows), "forward", q)
      back == IF rows = <<>> THEN Missing ELSE Token(Head(rows), "backward", q)
  IN  [rows |-> rows,
       next |-> IF Backward(cursor) \/ more THEN forward ELSE Missing,
       previous |-> IF cursor = Missing \/ (Backward(cursor) /\ ~more) THEN Missing ELSE back]
Turned == walk.toward # fetch.cursor.toward
Deliver(visible, more) ==
  LET delivered == Page(fetch.request, fetch.cursor, visible, more)
      before == IF Turned THEN page.rows ELSE walk.rows
      atStart == IF Turned THEN page.previous = Missing ELSE walk.atStart
      atEnd == IF Turned THEN page.next = Missing ELSE walk.atEnd
  IN  /\ page' = delivered
      /\ walk' = [request |-> fetch.request, toward |-> IF Backward(fetch.cursor) THEN "backward" ELSE "forward",
                  rows |-> IF fetch.cursor = Missing THEN delivered.rows
                           ELSE IF Backward(fetch.cursor) THEN delivered.rows \o before ELSE before \o delivered.rows,
                  atStart |-> IF fetch.cursor = Missing \/ Backward(fetch.cursor) THEN delivered.previous = Missing ELSE atStart,
                  atEnd |-> IF Backward(fetch.cursor) THEN atEnd ELSE delivered.next = Missing]
      /\ fetch' = Missing

\* Verified candidates are collected until they fill the page and its probe, or
\* a batch comes back short; the next batch seeks from the last candidate.
ReadBatch ==
  /\ fetch # Missing
  /\ UNCHANGED status
  /\ \E batch \in {Batch(fetch.request, fetch.seek, Backward(fetch.cursor), fetch.size + 1)} :
     LET found == fetch.found \o Accepted(fetch.request, batch, Backward(fetch.cursor)) IN
     \/ Len(found) > fetch.size /\ Deliver(SubSeq(found, 1, fetch.size), TRUE)
     \/ Len(found) =< fetch.size /\ Len(batch) < fetch.size + 1 /\ Deliver(found, FALSE)
     \/ /\ Len(found) =< fetch.size /\ Len(batch) = fetch.size + 1
        /\ fetch' = [fetch EXCEPT !.found = found,
                       !.seek = Token(Last(batch), IF Backward(fetch.cursor) THEN "backward" ELSE "forward", fetch.request)]
        /\ UNCHANGED <<page, walk>>

\* Writers that commit between two reads.
RowComes(r) == /\ r \in LateRows /\ status[r] = "coming"
               /\ status' = [status EXCEPT ![r] = "here"] /\ UNCHANGED <<fetch, page, walk>>
RowGoes(r) == /\ status[r] = "here" /\ Cardinality({x \in PageRows : status[x] = "gone"}) < MaxLeaves
              /\ status' = [status EXCEPT ![r] = "gone"] /\ UNCHANGED <<fetch, page, walk>>

PagesAway == status = [r \in PageRows |-> "gone"] /\ fetch = Missing /\ page = Missing /\ walk = Missing
PagesInit == /\ status = [r \in PageRows |-> IF r \in LateRows THEN "coming" ELSE "here"]
             /\ fetch = Missing /\ page = Missing
             /\ walk = [request |-> Missing, toward |-> "forward", rows |-> <<>>, atStart |-> FALSE, atEnd |-> FALSE]
PagesNext ==
  /\ walk # Missing
  /\ \/ \E q \in Requests, n \in PageSizes :
          \E cursor \in IF page = Missing THEN {Missing} ELSE {page.next, page.previous} : AskPage(q, n, cursor)
     \/ ReadBatch
     \/ \E r \in PageRows : RowComes(r) \/ RowGoes(r)
PagesSpec == PagesInit /\ [][PagesNext]_pageVars

\* ---------------------------------------------------------------- properties
\* The order a client asked for: missing values where it put them, whichever
\* way the values go, and the sid between equals.
KeyAhead(u, v, o) == IF Missing \in {u, v} THEN u # v /\ (u = Missing) = (o.nulls = "first")
                     ELSE IF o.descending THEN u > v ELSE u < v
Ahead(x, y, orders) ==
  \E n \in 1..Len(orders) + 1 :
    /\ \A i \in 1..n - 1 : OrderKey(x, orders[i]) = OrderKey(y, orders[i])
    /\ IF n > Len(orders) THEN x.sid < y.sid ELSE KeyAhead(OrderKey(x, orders[n]), OrderKey(y, orders[n]), orders[n])
\* The matches that were there from the first page on.
Stayed == {r \in PageRows \ LateRows : status[r] = "here" /\ r.sid \in walk.request.verified}

\* A query whose tokens hold the keys that its pages are sorted by.
Anchored(q) == q.backend = "mongo" => \A i \in DOMAIN q.orders : ~OutputOf(q.orders[i]).managed

\* The pages a client went through are in the order asked for, without a row
\* twice, and no row that stayed is left out between them, after the page that
\* has no next token or before the one that has no previous token.
WalkIsWhole ==
    LET rows == walk.rows
        Shown == {rows[i] : i \in DOMAIN rows}
        Missed == Stayed \ Shown
    IN  /\ \A i, j \in DOMAIN rows : i < j => Ahead(rows[i], rows[j], walk.request.orders)
        /\ \A r \in Shown : r.sid \in walk.request.verified
        /\ \A r \in Missed :
             IF rows = <<>> THEN ~(walk.atStart \/ walk.atEnd)
             ELSE \/ Ahead(r, Head(rows), walk.request.orders) /\ ~walk.atStart
                  \/ Ahead(Last(rows), r, walk.request.orders) /\ ~walk.atEnd

\* Every walk of a query whose tokens hold its keys is whole: whatever comes and
\* goes between two pages or two batches, whichever candidates the verifier
\* rejects, wherever the walk turns around, and whatever query a token is handed
\* back to.
PagesPartition == walk # Missing /\ walk.request # Missing /\ Anchored(walk.request) => WalkIsWhole
\* As documented, of every query that can be paged. MongoDB's pages by a scalar
\* that the store manages leave rows out.
EveryWalkPartitions == walk # Missing /\ walk.request # Missing => WalkIsWhole

PageTypeOK ==
  /\ DOMAIN status = PageRows
  /\ fetch # Missing => fetch.request \in Requests /\ Len(fetch.found) =< fetch.size
  /\ page # Missing => Len(page.rows) =< CHOOSE n \in PageSizes : \A m \in PageSizes : m =< n
=============================================================================
