---------------------------- MODULE Federation ----------------------------
\* Searches over several stores: the plan a federated searcher freezes, its
\* slices and its cached totals; and the pages of entries served from the
\* streams of several stores at one cutoff, while records are saved.
EXTENDS Integers, Sequences, FiniteSets
LOCAL INSTANCE SequencesExt
CONSTANTS
  Absent,        \* no limit, no total, no key, no store timestamps
  Union,         \* what the sources of a searcher hold, in their order: a sequence of sequences
  Limits,        \* limits, offsets and slice bounds
  MaxConditions,
  MaxSlices,
  MaxOffset,
  Streams,       \* one per source and record class: [source, index, resolution, prefix]
  EntryIds,
  EntryKeys,     \* per stream, values of the property pages are sorted by, or Absent
  Sorts,         \* the sorts asked for: sequences of [name, descending]
  Sizes,         \* page sizes, and batch sizes of an audit
  MaxInstant,
  MaxSaves
VARIABLES
  builder, \* a FederatedSearcher: [least, offset, limit, cache], or Absent
  totals,  \* the cached total of each count cache
  plan,    \* a FederatedResultSet, or Absent
  asked,   \* the rows that the results and slices so far leave
  instant, \* now, in nanoseconds
  saving,  \* the records of transactions that are not over
  saved,   \* the records of the streams
  served,  \* the pages a client went through, or Absent
  audit    \* a scan for duplicate ids, or Absent
planVars == <<builder, totals, plan, asked>>
servedVars == <<instant, saving, saved, served, audit>>
federationVars == <<builder, totals, plan, asked, instant, saving, saved, served, audit>>

Smaller(x, y) == IF x < y THEN x ELSE y
Nonnegative(x) == IF x < 0 THEN 0 ELSE x
Least(x, y) == IF x = Absent THEN y ELSE IF y = Absent THEN x ELSE Smaller(x, y)
\* The rows of s after the first skip, at most limit of them.
Window(s, skip, limit) ==
  SubSeq(s, skip + 1, IF limit = Absent THEN Len(s) ELSE Smaller(Len(s), skip + limit))
Sum(s) == FoldSeq(LAMBDA x, y : x + y, 0, s)

\* ------------------------------------------------------------- frozen plans
\* The conditions added to a searcher, replayed in one source.
Replayed(i, least) == LET rows == SelectSeq(Union[i], LAMBDA v : v >= least)
                      IN  [j \in DOMAIN rows |-> <<i, rows[j]>>]
\* _execute_plan: each source limited to what the window can reach, the
\* sources one after the other, and the window over them all.
ChildLimit(p, limit) == IF limit = Absent THEN Absent ELSE p.offset + limit
Execute(p, maximum) ==
  LET limit == Least(p.limit, maximum) IN
  IF limit = 0 THEN <<>>
  ELSE Window(FlattenSeq([i \in DOMAIN Union |-> Window(Replayed(i, p.least), 0, ChildLimit(p, limit))]), p.offset, limit)
Length(p, total) == IF p.limit = 0 THEN 0 ELSE Least(Nonnegative(total - p.offset), p.limit)
\* The sum over the sources: no total if one of them fails.
Counted(least, failing) ==
  IF failing # Absent THEN Absent ELSE Sum([i \in DOMAIN Union |-> Len(Replayed(i, least))])

\* A condition makes the searcher another query; frozen plans keep their cache.
Add(least) ==
  /\ builder # Absent /\ Len(totals) < MaxConditions /\ least > builder.least
  /\ builder' = [builder EXCEPT !.least = least, !.cache = Len(totals) + 1]
  /\ totals' = Append(totals, Absent)
  /\ UNCHANGED <<plan, asked, servedVars>>
\* A negative limit clears it.
SetLimit(n) == /\ builder # Absent
               /\ builder' = [builder EXCEPT !.limit = IF n < 0 THEN Absent ELSE n]
               /\ UNCHANGED <<totals, plan, asked, servedVars>>
AddOffset(n) == /\ builder # Absent /\ builder.offset + n =< MaxOffset
                /\ builder' = [builder EXCEPT !.offset = @ + n]
                /\ UNCHANGED <<totals, plan, asked, servedVars>>
Results ==
  /\ builder # Absent
  /\ plan' = [least |-> builder.least, offset |-> builder.offset, limit |-> builder.limit,
              cache |-> builder.cache, slices |-> 0]
  /\ asked' = Window(FlattenSeq([i \in DOMAIN Union |-> Replayed(i, builder.least)]), builder.offset, builder.limit)
  /\ UNCHANGED <<builder, totals, servedVars>>
\* plan[start:stop]
Slice(start, stop) ==
  /\ plan # Absent /\ plan.slices < MaxSlices
  /\ LET remaining == IF plan.limit = Absent THEN Absent ELSE Nonnegative(plan.limit - start)
         width == IF stop = Absent THEN Absent ELSE Nonnegative(stop - start)
     IN  plan' = [plan EXCEPT !.offset = @ + start, !.limit = Least(remaining, width), !.slices = @ + 1]
  /\ asked' = SubSeq(asked, start + 1, Least(stop, Len(asked)))
  /\ UNCHANGED <<builder, totals, servedVars>>
Count(p, failing) ==
  /\ p # Absent /\ totals[p.cache] = Absent
  /\ totals' = [totals EXCEPT ![p.cache] = Counted(p.least, failing)]
  /\ UNCHANGED <<builder, plan, asked, servedVars>>

\* ------------------------------------------------------------- served pages
PublicId(r) == <<Streams[r.stream].prefix, r.id>>
InStream(i) == {r \in saved : r.stream = i}
\* The earliest start of a bucket that now falls in, and the instant before it,
\* whose units no save that begins from now on is given. The first is not yet
\* over: faulty as the cutoff.
CutoffNow == LET buckets == {(instant \div Streams[i].resolution) * Streams[i].resolution :
                               i \in {i \in DOMAIN Streams : Streams[i].resolution # Absent}}
             IN  IF buckets = {} THEN Absent ELSE CHOOSE t \in buckets : \A u \in buckets : t =< u
Cutoff == IF CutoffNow = Absent THEN Absent ELSE CutoffNow - 1
Units(i, cutoff) == IF Absent \in {cutoff, Streams[i].resolution} THEN Absent ELSE cutoff \div Streams[i].resolution
\* The latest main of each lineage at the cutoff.
Visible(i, cutoff) ==
  LET past == {r \in InStream(i) : Units(i, cutoff) = Absent \/ r.ts =< Units(i, cutoff)}
  IN  {r \in past : \A x \in past : x.id = r.id => x.sid =< r.sid}
ListAt(cutoff) == UNION {Visible(i, cutoff) : i \in DOMAIN Streams}

\* Missing values last, whichever way the others go.
SortValue(r, s) == IF s.name = "id" THEN PublicId(r) ELSE r.key
PublicBefore(x, y) == x[1] < y[1] \/ (x[1] = y[1] /\ x[2] < y[2])
Precedes(u, v, s) == CASE Absent \in {u, v} -> u # v /\ v = Absent
                       [] s.name = "id" -> IF s.descending THEN PublicBefore(v, u) ELSE PublicBefore(u, v)
                       [] OTHER -> IF s.descending THEN u > v ELSE u < v
Tied(x, y, sort, n) == \A i \in 1..n : SortValue(x, sort[i]) = SortValue(y, sort[i])
Ranked(x, y, sort) ==
  \E n \in DOMAIN sort : Tied(x, y, sort, n - 1) /\ Precedes(SortValue(x, sort[n]), SortValue(y, sort[n]), sort[n])
ById == <<[name |-> "id", descending |-> FALSE]>>
\* A stream breaks ties by the public id, unless the sort has it already.
StreamSort(sort) == IF \E i \in DOMAIN sort : sort[i].name = "id" THEN sort ELSE sort \o ById
StreamRows(i, sort, cutoff) == SetToSortSeq(Visible(i, cutoff), LAMBDA x, y : Ranked(x, y, StreamSort(sort)))
\* The heap: the sort, the public id, and the stream.
Pops(x, y, sort) ==
  \/ Ranked(x, y, sort)
  \/ /\ Tied(x, y, sort, Len(sort))
     /\ PublicBefore(PublicId(x), PublicId(y)) \/ (PublicId(x) = PublicId(y) /\ x.stream < y.stream)
RECURSIVE Merged(_, _, _)
Merged(rows, sort, n) ==
  LET left == {i \in DOMAIN rows : rows[i] # <<>>} IN
  IF left = {} \/ n = 0 THEN <<>>
  ELSE LET i == CHOOSE i \in left : \A j \in left \ {i} : Pops(Head(rows[i]), Head(rows[j]), sort)
       IN  <<Head(rows[i])>> \o Merged([rows EXCEPT ![i] = Tail(@)], sort, n - 1)
SortedCandidates(offset) ==
  LET needed == offset + served.size + 1
      rows == [i \in DOMAIN Streams |-> Window(StreamRows(i, served.sort, served.cutoff), 0, needed)]
  IN  Window(Merged(rows, served.sort, needed), offset, Absent)
\* Stream after stream, skipping by the counts taken before; the rows of each in
\* the order that its database has for a query that asks for none.
RECURSIVE Taken(_, _, _, _)
Taken(native, i, skipped, remaining) ==
  IF i > Len(Streams) \/ remaining = 0 THEN <<>>
  ELSE IF skipped >= served.counts[i] THEN Taken(native, i + 1, skipped - served.counts[i], remaining)
  ELSE LET fetched == Window(SelectSeq(native, LAMBDA r : r.stream = i), skipped, Smaller(served.counts[i] - skipped, remaining))
       IN  fetched \o Taken(native, i + 1, 0, remaining - Len(fetched))
UnsortedCandidates(native, offset) == Taken(native, 1, offset, served.size + 1)
\* The other streams of a prefix that several sources serve.
Colliding(r) ==
  \E i \in DOMAIN Streams \ {r.stream} :
    /\ Streams[i].prefix = Streams[r.stream].prefix
    /\ \E j, k \in DOMAIN Streams : /\ Streams[j].prefix = Streams[i].prefix /\ Streams[k].prefix = Streams[i].prefix
                                    /\ Streams[j].source # Streams[k].source
    /\ \E x \in Visible(i, served.cutoff) : x.id = r.id

\* The first save of a transaction captures the timestamp that all its records
\* get. An id lives in one stream of a source, and what is there already is not
\* saved again. One transaction at a time saves to a source, and it saves one
\* record (bounds).
Captured(i) == IF Streams[i].resolution = Absent THEN Absent ELSE instant \div Streams[i].resolution
BeginSave(i, id, key) ==
  /\ instant # Absent /\ Cardinality(saved \cup saving) < MaxSaves
  /\ \A r \in saving : Streams[r.stream].source # Streams[i].source
  /\ \A r \in saved : r.id = id /\ r.stream # i => Streams[r.stream].source # Streams[i].source
  /\ \A r \in InStream(i) : r.id = id /\ r.key = key => \E x \in InStream(i) : x.id = id /\ x.sid > r.sid
  /\ saving' = saving \cup {[stream |-> i, id |-> id, key |-> key, sid |-> Cardinality(InStream(i)) + 1, ts |-> Captured(i)]}
  /\ UNCHANGED <<planVars, instant, saved, served, audit>>
\* Nothing is committed to a store without timestamps while pages are served from
\* it: its pages have no cutoff, as query says (bound).
CommitSave(r) ==
  /\ served # Absent => Streams[r.stream].resolution # Absent
  /\ saving' = saving \ {r}
  /\ saved' = saved \cup {r}
  /\ UNCHANGED <<planVars, instant, served, audit>>
Advance == /\ instant # Absent /\ audit = Absent /\ instant < MaxInstant /\ instant' = instant + 1
           /\ UNCHANGED <<planVars, saving, saved, served, audit>>
\* The first page fixes the cutoff of all that follow. "late" (for the
\* properties): what is being saved then with a timestamp before the cutoff.
Serve(sort, size) ==
  /\ instant # Absent /\ served = Absent /\ audit = Absent
  /\ served' = [sort |-> sort, size |-> size, cutoff |-> Cutoff, view |-> ListAt(Cutoff),
                late |-> {r \in saving : r.ts # Absent /\ r.ts =< Units(r.stream, Cutoff)},
                counts |-> <<>>, total |-> Absent, shown |-> <<>>, more |-> TRUE, refused |-> FALSE]
  /\ UNCHANGED <<planVars, instant, saving, saved, audit>>
CountStreams ==
  /\ served # Absent /\ served.counts = <<>> /\ served.more /\ ~served.refused
  /\ served' = [served EXCEPT !.counts = [i \in DOMAIN Streams |-> Cardinality(Visible(i, served.cutoff))]]
  /\ UNCHANGED <<planVars, instant, saving, saved, audit>>
FetchEntries ==
  /\ served # Absent /\ served.counts # <<>>
  /\ \E found \in IF served.sort # <<>> THEN {SortedCandidates(Len(served.shown))}
                  ELSE {UnsortedCandidates(native, Len(served.shown)) : native \in SetToSeqs(ListAt(served.cutoff))} :
     LET visible == Window(found, 0, served.size) IN
     IF \E i \in DOMAIN visible : Colliding(visible[i])
     THEN served' = [served EXCEPT !.refused = TRUE, !.counts = <<>>]
     ELSE served' = [served EXCEPT !.shown = @ \o visible, !.more = Len(found) > Len(visible),
                                   !.total = Sum(served.counts), !.counts = <<>>]
  /\ UNCHANGED <<planVars, instant, saving, saved, audit>>

\* audit_duplicate_ids: every stream in batches by id, merged, until two streams
\* have one id. It reads no timestamps, so time stands still, and one save
\* races it (bounds).
Audit(size) ==
  /\ instant = 0 /\ served = Absent /\ audit = Absent /\ Cardinality(saved) = MaxSaves - 1
  /\ audit' = [size |-> size, rows |-> [i \in DOMAIN Streams |-> <<>>], last |-> [i \in DOMAIN Streams |-> Absent],
               done |-> [i \in DOMAIN Streams |-> FALSE], end |-> "", old |-> saved]
  /\ UNCHANGED <<planVars, instant, saving, saved, served>>
NextBatch(i) ==
  /\ audit # Absent /\ audit.end = "" /\ audit.rows[i] = <<>> /\ ~audit.done[i]
  /\ \A j \in 1..i - 1 : audit.rows[j] # <<>> \/ audit.done[j]
  /\ \E rows \in {SelectSeq(StreamRows(i, ById, Absent), LAMBDA r : audit.last[i] = Absent \/ r.id > audit.last[i])} :
     LET batch == Window(rows, 0, audit.size) IN
     audit' = [audit EXCEPT !.rows[i] = batch, !.done[i] = Len(batch) < audit.size,
                            !.last[i] = IF batch = <<>> THEN @ ELSE Last(batch).id]
  /\ UNCHANGED <<planVars, instant, saving, saved, served>>
PopIds ==
  /\ audit # Absent /\ audit.end = ""
  /\ \A i \in DOMAIN Streams : audit.rows[i] # <<>> \/ audit.done[i]
  /\ LET left == {i \in DOMAIN Streams : audit.rows[i] # <<>>}
         first == {i \in left : \A j \in left : ~PublicBefore(PublicId(Head(audit.rows[j])), PublicId(Head(audit.rows[i])))}
     IN  audit' = IF left = {} THEN [audit EXCEPT !.end = "clean"]
                  ELSE IF Cardinality(first) > 1 THEN [audit EXCEPT !.end = "duplicate"]
                  ELSE [audit EXCEPT !.rows = [i \in DOMAIN Streams |-> IF i \in first THEN Tail(@[i]) ELSE @[i]]]
  /\ UNCHANGED <<planVars, instant, saving, saved, served>>

NoPlans == builder = Absent /\ totals = <<>> /\ plan = Absent /\ asked = <<>>
NoServing == instant = Absent /\ saving = {} /\ saved = {} /\ served = Absent /\ audit = Absent
FederationAway == NoPlans /\ NoServing
FederationInit ==
  \/ /\ builder = [least |-> 0, offset |-> 0, limit |-> Absent, cache |-> 1] /\ totals = <<Absent>> /\ plan = Absent /\ asked = <<>>
     /\ NoServing
  \/ NoPlans /\ instant = 0 /\ saving = {} /\ saved = {} /\ served = Absent /\ audit = Absent
FederationNext ==
  \/ \E n \in Limits : \/ Add(n) \/ SetLimit(n) \/ SetLimit(-1) \/ AddOffset(n)
                       \/ \E stop \in Limits \cup {Absent} : Slice(n, stop)
  \/ Results
  \/ \E failing \in DOMAIN Union \cup {Absent} : Count(builder, failing) \/ Count(plan, failing)
  \/ \E i \in DOMAIN Streams, id \in EntryIds : \E key \in EntryKeys[i] : BeginSave(i, id, key)
  \/ \E r \in saving : CommitSave(r)
  \/ Advance
  \/ \E sort \in Sorts, size \in Sizes : Serve(sort, size)
  \/ CountStreams
  \/ FetchEntries
  \/ \E size \in Sizes : Audit(size)
  \/ \E i \in DOMAIN Streams : NextBatch(i)
  \/ PopIds
FederationSpec == FederationInit /\ [][FederationNext]_federationVars

\* ---------------------------------------------------------------- properties
MatchesOf(least) == UNION {{<<i, j>> : j \in {j \in DOMAIN Union[i] : Union[i][j] >= least}} : i \in DOMAIN Union}
\* Executing a plan, or only its first rows, yields the rows that the results
\* and slices so far leave; a cached total is that of the plan's own query,
\* whatever was counted, failed or was added to the searcher meanwhile.
PlansAgree ==
  /\ plan # Absent =>
       /\ Execute(plan, Absent) = asked
       /\ totals[plan.cache] # Absent => Length(plan, totals[plan.cache]) = Len(asked)
       /\ \A n \in {1, 2} : Execute(plan, n) = SubSeq(asked, 1, Smaller(n, Len(asked)))
  /\ \A p \in {plan, builder} \ {Absent} : totals[p.cache] # Absent => totals[p.cache] = Cardinality(MatchesOf(p.least))
\* The pages of a sorted list served so far are its beginning, the entries that
\* were there when the first was asked for, whatever is saved between two pages or
\* between the counts and the fetch of one, and no id is on them twice. Without a
\* sort a place has some entry of the stream that the list has there. The total
\* is the length of the list, and the page without a next one ends it.
Snapshot ==
  LET list == SetToSortSeq(served.view, LAMBDA x, y : IF served.sort # <<>> THEN Pops(x, y, served.sort)
                                                      ELSE x.stream < y.stream \/ (x.stream = y.stream /\ x.sid < y.sid))
      shown == served.shown
  IN  /\ Len(shown) =< Len(list)
      /\ \A i \in DOMAIN shown : IF served.sort = <<>> THEN shown[i] \in served.view /\ shown[i].stream = list[i].stream
                                 ELSE shown[i] = list[i] /\ \A j \in 1..i - 1 : PublicId(shown[j]) # PublicId(shown[i])
      /\ ~served.more => Len(shown) = Len(list)
      /\ served.total # Absent => served.total = Len(list)
\* What snapshot_cutoff_ns says: no save enters a list that is being served. It
\* does not hold: one that captured its timestamp before the cutoff may commit
\* after the first page.
SnapshotKept == served # Absent => Snapshot
\* What holds: a list is kept if nothing was being saved, with a timestamp before
\* its cutoff, when the first page was asked for.
SnapshotServed == served # Absent /\ served.late = {} => Snapshot
\* An audit finds two entries of one public id if both were there when it began,
\* whatever is saved between its batches.
AuditTrue ==
  audit # Absent /\ audit.end # "" =>
    LET Duplicates(records) == {r \in records : \E x \in records : x.stream # r.stream /\ PublicId(x) = PublicId(r)}
    IN  IF audit.end = "clean" THEN Duplicates(audit.old) = {} ELSE Duplicates(saved) # {}
\* A federation of stores answers like one store.
FederationAgrees == PlansAgree /\ SnapshotServed /\ AuditTrue
=============================================================================
