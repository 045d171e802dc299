----------------------------- MODULE BulkIngest -----------------------------
(***************************************************************************)
(* BulkIngest (backend/sql/bulk.py, bulk_parallel.py, bulk_deferred.py):   *)
(* a stream of saves that is encoded in memory, by the process itself or   *)
(* by forked workers, and comes into the store set-wise.                   *)
(*                                                                         *)
(* Serial parity gives out sids at once and looks each chunk up in the     *)
(* tables when it is flushed; parallel parity loads what the workers made, *)
(* collapses duplicates and renumbers; deferred does the same with maps    *)
(* beside the tables.  All of them promise what a loop of save() does.     *)
(***************************************************************************)
EXTENDS Naturals, Sequences, FiniteSetsExt, Functions

CONSTANTS
  Objects,    \* the objects of the stream
  Content,    \* the content identity of each
  Meta,       \* its identity-skipped scalars
  Refs,       \* the objects it refers to
  Skips,      \* the objects that identity-skipped fields refer to
  Items,      \* the objects that are elements of its child tables
  Policy,     \* the dedup policy of each content's record type
  Planned,    \* the contents whose type has metadata to compare
  Entries,    \* the contents whose family has several backings
  GivenId,    \* the entry id an object brings, or None
  Unfit,      \* the objects that do not encode
  Calls,      \* the calls of save: an object, and the objects to promote
  MaxCalls,   \* how many are made
  Modes,      \* the ways to open an ingest
  Workers,    \* the worker processes of a parallel one: 1 .. n
  ChunkSize,  \* calls per flush
  QueueSize,  \* tasks that fit into a worker's queue
  Block,      \* the sids of a worker
  MaxDeaths,  \* how many workers may be killed
  Earlier,    \* the rows of a populated store
  None        \* no id, no call

\* What the constants must satisfy: assumed where the module is instantiated.
IngestAssumption ==
  /\ \A r \in {Refs, Skips, Items} : r \in [Objects -> SUBSET Objects]
  /\ \A o \in Objects : Policy[Content[o]] \in {"content_id", "by_value", "none"}
  /\ Calls \subseteq [obj : Objects, promote : SUBSET Objects]
  /\ Modes \subseteq [workers : {0, Cardinality(Workers)}, finalize : {"parity", "deferred"},
                      tracked : BOOLEAN, verify : BOOLEAN, populated : BOOLEAN, engine : {"sqlite", "postgresql"}]
  /\ \A m \in Modes : m.populated => m.workers = 0 /\ m.finalize = "parity"
  /\ {MaxCalls, MaxDeaths} \subseteq Nat /\ {ChunkSize, QueueSize, Block} \subseteq Nat \ {0}

VARIABLES
  mode,      \* how the ingest was opened
  phase,     \* where it is
  calls,     \* the calls made so far
  returned,  \* what save returned for each
  enc,       \* the encoders: 0 of the process itself, the others of the workers
  queue,     \* the tasks of each worker
  worker,    \* "run", "ok", "error", "dead", and "none" where there is no worker
  pending,   \* the call that waits for room in a queue
  rows,      \* the committed rows
  dispatch,  \* the committed dispatch rows: a content key, and the sid of its record
  tables,    \* the tables as committed: "absent", "bare" (no index), "built"
  marker,    \* the ingest marker in the metadata table
  work,      \* the rows and dispatch rows as the ingest's transaction has them
  resolved   \* what resolved_sid says of each call, after a clean exit

stream == <<calls, returned, pending>>
pool == <<enc, queue, worker>>
store == <<rows, dispatch, tables, marker>>
vars == <<mode, phase, stream, pool, store, work, resolved>>

Parallel == mode.workers > 0
AtEntry == IF mode.populated THEN Earlier ELSE {}

\* The dispatch row of a main record whose family has several backings.
Link(o, n) == [key |-> Content[o], sid |-> n]
Dispatched(R) == {Link(x.obj, x.sid) : x \in {y \in R : y.main /\ Content[y.obj] \in Entries}}
-----------------------------------------------------------------------------
(* Encoding: what one save adds to the rows an encoder holds.  An encoder  *)
(* of kind "save" is the store itself in a loop of save().                 *)

Encoder(kind, m, first, known) ==
  [kind |-> kind, tracked |-> m.tracked, verify |-> m.verify,
   known |-> known, rows |-> {}, shard |-> {}, next |-> first,
   ids |-> IF kind = "save" THEN {[id |-> GivenId[k.obj], sid |-> k.sid] : k \in known} ELSE {},
   roots |-> {}, late |-> {}, links |-> {}, moved |-> <<>>, since |-> 0, count |-> 0,
   ok |-> TRUE, sid |-> 0, got |-> {}, heads |-> {}]

\* A worker keeps no keys of untracked records, nor of records with metadata:
\* the merge has to see each of their occurrences.
Remembers(e, c) ==
  e.kind = "worker" => e.tracked /\ (Policy[c] = "content_id" => c \notin Planned)

Within[o \in Objects] == LET direct == Refs[o] \cup Skips[o] \cup Items[o]
                         IN direct \cup UNION {Within[q] : q \in direct}

\* A hit goes down only where it may meet an object to promote.
Branches(e, o, p) ==
  IF e.kind = "save" THEN Within[o] \cap p
  ELSE {q \in Refs[o] \cup Skips[o] \cup Items[o] : ({q} \cup Within[q]) \cap p # {}}

\* What an occurrence says beside its content, down to what it refers to.
Said[o \in Objects] ==
  {<<Content[o], Meta[o], {Content[q] : q \in Skips[o]}>>} \cup UNION {Said[q] : q \in Refs[o]}

\* An occurrence without an id agrees with any.
Conflicts(stored, o) ==
  Said[stored] # Said[o] \/ GivenId[o] \notin {None, GivenId[stored]}

Failed(e) == [e EXCEPT !.ok = FALSE]
Found(e, o, n, p) == [e EXCEPT !.sid = n, !.heads = IF o \in p THEN @ \cup {[obj |-> o, sid |-> n]} ELSE @]
Added(e, x) ==
  [e EXCEPT !.known = @ \cup {x}, !.rows = @ \cup {x}, !.next = @ + 1,
            !.ids = IF GivenId[x.obj] # None THEN @ \cup {[id |-> GivenId[x.obj], sid |-> x.sid]} ELSE @]
WithKids(e, n, kids) == [e EXCEPT !.rows = {IF x.sid = n THEN [x EXCEPT !.kids = kids] ELSE x : x \in @}]

IdSeen(e, o) == e.kind # "worker" /\ GivenId[o] # None /\ \E i \in e.ids : i.id = GivenId[o]

\* F of the value x, which is computed once.
With(x, F(_)) == CHOOSE r \in {F(y) : y \in {x}} : TRUE

RECURSIVE Encode(_, _, _), EncodeEach(_, _, _, _)

EncodeEach(e, todo, got, p) ==
  IF todo = {} \/ ~e.ok THEN [e EXCEPT !.got = got]
  ELSE LET o == CHOOSE q \in todo : TRUE
       IN With(Encode(e, o, p), LAMBDA f : EncodeEach(f, todo \ {o}, got \cup {f.sid}, p))

\* A content hit: nothing below is encoded, only what has to be promoted.
Reuse(e, o, p, k) ==
  IF e.kind # "worker" /\ e.verify /\ Conflicts(k.obj, o) THEN Failed(e)
  ELSE Found(EncodeEach(e, Branches(e, o, p), {}, p), o, k.sid, p)

\* The row of o, which refers to refs and to skips, unless its value is known.
NewRow(e, o, p, refs, skips) ==
  LET c == Content[o]
      same == IF Policy[c] = "by_value" /\ Remembers(e, c)
              THEN {k \in e.known : Content[k.obj] = c /\ k.refs = refs /\ k.skips = skips} ELSE {}
      x == [sid |-> e.next, obj |-> o, refs |-> refs, skips |-> skips, kids |-> {}, main |-> FALSE]
  IN IF ~e.ok THEN e
     ELSE IF same # {} THEN
       Found(EncodeEach(e, Branches(e, o, p) \ (Refs[o] \cup Skips[o]), {}, p), o, (CHOOSE k \in same : TRUE).sid, p)
     ELSE IF IdSeen(e, o) THEN Failed(e)
     ELSE With(EncodeEach(Added(e, x), Items[o], {}, p), LAMBDA f : Found(WithKids(f, x.sid, f.got), o, x.sid, p))

\* _encode_active, and _save_active of the store.
Encode(e, o, p) ==
  LET c == Content[o]
      hits == IF Policy[c] = "content_id" /\ Remembers(e, c) THEN {k \in e.known : Content[k.obj] = c} ELSE {}
  IN IF ~e.ok \/ o \in Unfit THEN Failed(e)
     ELSE IF hits # {} THEN Reuse(e, o, p, CHOOSE k \in hits : TRUE)
     ELSE With(EncodeEach(e, Refs[o], {}, p),
               LAMBDA f : With(EncodeEach(f, Skips[o], {}, p), LAMBDA g : NewRow(g, o, p, f.got, g.got)))

\* _promote_occurrence of the record itself and of the nested ones.
Promoted(f) ==
  LET tops == {k.sid : k \in f.heads}
      marked == {x.sid : x \in f.rows} \cap tops
      noted == f.kind # "worker" \/ f.tracked
  IN IF ~f.ok THEN f
     ELSE [f EXCEPT
            !.rows = {IF x.sid \in tops THEN [x EXCEPT !.main = TRUE] ELSE x : x \in @},
            !.roots = IF noted THEN @ \cup tops ELSE @,
            !.late = IF noted THEN @ \cup (tops \ marked) ELSE @,
            !.links = IF noted THEN @ \cup {Link(k.obj, k.sid) : k \in {q \in f.heads : Content[q.obj] \in Entries}} ELSE @,
            !.since = @ + 1, !.count = @ + 1]

SaveInto(e, call) ==
  With(Encode([e EXCEPT !.heads = {}], call.obj, call.promote \cup {call.obj}), Promoted)

RECURSIVE SaveLoop(_, _)

\* The loop of save(), with the sid each call returns.
SaveLoop(e, todo) ==
  IF todo = <<>> \/ ~e.ok THEN e
  ELSE With(SaveInto(e, Head(todo)), LAMBDA f : SaveLoop([f EXCEPT !.moved = Append(@, f.sid)], Tail(todo)))

Loop == LET first == 1 + Cardinality(AtEntry)
            e == [Encoder("save", mode, first, AtEntry) EXCEPT !.rows = AtEntry]
        IN SaveLoop(e, calls)
-----------------------------------------------------------------------------
(* Serial parity: a chunk meets the tables.                                *)

At(m, n) == IF n \in DOMAIN m THEN m[n] ELSE n
Image(m, X) == {At(m, n) : n \in X}

\* Faulty: references to a dropped duplicate stay.
NotRenamed(m, x) == x

Renamed(m, x) == [x EXCEPT !.refs = Image(m, @), !.skips = Image(m, @), !.kids = Image(m, @)]

\* Two rows of one type that agree in all columns of the parent.
SameValue(m, x, y) ==
  /\ Content[x.obj] = Content[y.obj]
  /\ Image(m, x.refs) = Image(m, y.refs) /\ Image(m, x.skips) = Image(m, y.skips)

\* What the chunk's row is in the tables, given what is known of the others.
Twins(T, m, x) ==
  IF Policy[Content[x.obj]] = "content_id" THEN {y \in T : Content[y.obj] = Content[x.obj]}
  ELSE IF Policy[Content[x.obj]] = "by_value" THEN {y \in T : SameValue(m, x, y)}
  ELSE {}

RECURSIVE HitsIn(_, _, _)

\* _dedup_content and _dedup_by_value, referenced tables before referrers.
HitsIn(T, R, m) ==
  LET new == {x \in R : x.sid \notin DOMAIN m /\ Twins(T, m, x) # {}}
      found == [n \in DOMAIN m \cup {x.sid : x \in new} |->
                 IF n \in DOMAIN m THEN m[n]
                 ELSE Min({y.sid : y \in Twins(T, m, CHOOSE x \in new : x.sid = n)})]
  IN IF new = {} THEN m ELSE HitsIn(T, R, found)

RECURSIVE Reach(_, _, _)

Reach(R, m, X) ==
  LET more == X \cup UNION {Image(m, x.refs \cup x.skips \cup x.kids) : x \in {y \in R : y.sid \in X}}
  IN IF more = X THEN X ELSE Reach(R, m, more)

\* Faulty: what a dropped duplicate brought along is inserted.
KeepGarbage(e, kept, hits) == kept

\* _collect_garbage: after a hit, only what this chunk's roots still reach.
Collected(e, kept, hits) ==
  IF hits = <<>> THEN kept
  ELSE LET reached == Reach(kept, hits, e.roots \cap {x.sid : x \in kept})
       IN {x \in kept : x.sid \in reached}

\* _resolve_and_insert: the encoder after the flush, and the tables.
FlushedWith(e, T, hits) ==
  LET kept == {Renamed(hits, x) : x \in {y \in e.rows : y.sid \notin DOMAIN hits}}
      stay == Collected(e, kept, hits)
      swept == {x.sid : x \in kept \ stay}
      mains == {hits[x.sid] : x \in {y \in e.rows : y.main /\ y.sid \in DOMAIN hits}} \cup e.late
      clash == \/ /\ e.verify
                  /\ \E x \in e.rows, y \in T :
                       /\ Policy[Content[x.obj]] = "content_id" /\ x.sid \in DOMAIN hits
                       /\ hits[x.sid] = y.sid /\ Conflicts(y.obj, x.obj)
               \/ \E x \in stay, y \in T : GivenId[x.obj] # None /\ GivenId[x.obj] = GivenId[y.obj]
  IN [enc |-> [e EXCEPT !.rows = {}, !.roots = {}, !.links = {[l EXCEPT !.sid = At(hits, @)] : l \in @}, !.late = {}, !.since = 0, !.ok = ~clash,
                        !.known = {[Renamed(hits, k) EXCEPT !.sid = At(hits, @)] : k \in {q \in @ : q.sid \notin swept}},
                        !.moved = [n \in DOMAIN @ \cup DOMAIN hits |-> IF n \in DOMAIN hits THEN hits[n] ELSE @[n]]],
      tables |-> {IF y.sid \in mains THEN [y EXCEPT !.main = TRUE] ELSE y : y \in T} \cup stay]

Flushed(e, T) ==
  With(IF mode.populated THEN HitsIn(T, e.rows, <<>>) ELSE <<>>, LAMBDA hits : FlushedWith(e, T, hits))
-----------------------------------------------------------------------------
(* The merge of what workers, or the deferred stage, have written.         *)

Encoders == IF Parallel THEN Workers ELSE {0}
Staged == UNION {enc[w].rows \cup enc[w].shard : w \in Encoders}
LateRoots == UNION {enc[w].late : w \in Encoders}
Roots == IF mode.tracked THEN UNION {enc[w].roots : w \in Encoders} ELSE {x.sid : x \in {y \in Staged : y.main}}

\* Faulty: each worker's occurrence of a content stays.
OwnContent(R) == [n \in {x.sid : x \in R} |-> n]

\* The first occurrence of each content stands for all.
ByContent(R) ==
  [n \in {x.sid : x \in R} |->
    LET c == Content[(CHOOSE x \in R : x.sid = n).obj]
    IN IF Policy[c] = "content_id" THEN Min({y.sid : y \in {z \in R : Content[z.obj] = c}}) ELSE n]

\* The key of a by-value row is its parent columns.  The deferred maps take
\* the role column as one of them.
SameKey(m, x, y) == SameValue(m, x, y) /\ (mode.finalize = "deferred" => x.main = y.main)

RECURSIVE ByValue(_, _)

\* The by-value collapse, to the fixpoint.
ByValue(R, m) ==
  LET next == [n \in DOMAIN m |->
                LET x == CHOOSE y \in R : y.sid = n
                IN IF Policy[Content[x.obj]] = "by_value"
                   THEN Min({y.sid : y \in {z \in R : SameKey(m, x, z)}}) ELSE m[n]]
  IN IF next = m THEN m ELSE ByValue(R, next)

Canonical == ByValue(Staged, ByContent(Staged))

\* The occurrences of a content have to agree.  Parity looks when contents
\* are collapsed and values are not yet.
MergeConflict ==
  LET m == IF mode.finalize = "parity" THEN ByContent(Staged) ELSE Canonical
  IN \E x, y \in Staged :
       /\ Policy[Content[x.obj]] = "content_id" /\ Content[x.obj] = Content[y.obj]
       /\ \/ Meta[x.obj] # Meta[y.obj]
          \/ GivenId[x.obj] # GivenId[y.obj]
          \/ Image(m, x.skips) # Image(m, y.skips)

Kept(m) == {x \in Staged : m[x.sid] = x.sid}

\* _sweep_orphans and the survivors of the deferred maps.
Survivors(m) == Reach({Renamed(m, x) : x \in Kept(m)}, m, Image(m, Roots))

\* Faulty: the duplicates that were collapsed count too.
StagedIdsCollide(m) ==
  \E x, y \in Staged : x # y /\ GivenId[x.obj] # None /\ GivenId[x.obj] = GivenId[y.obj]

IdsCollide(m) ==
  \E x, y \in Kept(m) :
    /\ {x.sid, y.sid} \subseteq Survivors(m) /\ x # y
    /\ GivenId[x.obj] # None /\ GivenId[x.obj] = GivenId[y.obj]

\* Dense final sids, in the order of the staged ones.
Final(m) == [n \in Survivors(m) |-> Cardinality({k \in Survivors(m) : k <= n})]

IsMain(m, x) ==
  IF mode.finalize = "deferred" THEN x.sid \in Image(m, Roots)
  ELSE \E y \in Staged : m[y.sid] = x.sid /\ (y.main \/ y.sid \in LateRoots)

Merged(m) ==
  LET f == Final(m)
  IN {[Renamed(f, Renamed(m, x)) EXCEPT !.sid = f[x.sid], !.main = IsMain(m, x)] :
       x \in {y \in Kept(m) : y.sid \in Survivors(m)}}

\* Faulty: a link to a dropped duplicate goes to the number it would have had.
StagedLinks(m) ==
  {[l EXCEPT !.sid = At(Final(m), @)] : l \in UNION {enc[w].links : w \in Encoders}}

\* _merge_dispatch: the links noted, or those of the main rows.
Links(m) ==
  IF ~mode.tracked THEN Dispatched(Merged(m))
  ELSE {[l EXCEPT !.sid = Final(m)[m[@]]] : l \in UNION {enc[w].links : w \in Encoders}}

\* A content key that leads to two records.
DispatchConflict(L) == \E x, y \in L : x.key = y.key /\ x.sid # y.sid
-----------------------------------------------------------------------------
(* The life of an ingest.                                                  *)

Init ==
  /\ mode \in Modes
  /\ phase = "idle"
  /\ calls = <<>> /\ returned = <<>> /\ pending = None
  /\ enc = [w \in Workers \cup {0} |->
             Encoder(IF mode.workers = 0 /\ mode.finalize = "parity" THEN "serial" ELSE "worker", mode,
                     IF mode.populated THEN 1 + Max({x.sid : x \in Earlier}) ELSE w * Block + 1, {})]
  /\ queue = [w \in Workers |-> <<>>]
  /\ worker = [w \in Workers |-> "none"]
  /\ rows = AtEntry
  /\ tables = IF mode.populated THEN "built" ELSE "absent"
  /\ marker = FALSE
  /\ dispatch = Dispatched(AtEntry)
  /\ work = [rows |-> rows, dispatch |-> dispatch]
  /\ resolved = <<>>

\* Faulty: the marker waits for the first rows.
NoMarker == FALSE

\* __enter__: a physically empty store is marked before anything is done to it.
Marked == ~mode.populated

Enter ==
  /\ phase = "idle"
  /\ phase' = "open"
  /\ marker' = Marked
  /\ worker' = [w \in Workers |-> IF Parallel THEN "run" ELSE "none"]
  /\ UNCHANGED <<mode, stream, enc, queue, rows, dispatch, tables, work, resolved>>

Open == phase = "open" /\ pending = None /\ Len(calls) < MaxCalls

\* SQLite commits a CREATE TABLE at once as long as nothing is written.
Created == IF mode.engine = "sqlite" /\ tables = "absent" THEN "bare" ELSE tables

Raise == phase' = "failing"   \* something else went wrong
Refuse == phase' = "refused"  \* the ingest itself objects to the stream

\* What save returns for a deferred record: one number for each content and
\* for each value, the references of a value being told apart by content.
LogicalKey(o) ==
  IF Policy[Content[o]] = "content_id" THEN <<Content[o]>>
  ELSE <<Content[o], {Content[q] : q \in Refs[o]}, {Content[q] : q \in Skips[o]}>>

PublicSid(c, n) ==
  LET first == {i \in DOMAIN calls : LogicalKey(calls[i].obj) = LogicalKey(c.obj)}
  IN IF Policy[Content[c.obj]] = "none" \/ first = {} THEN n ELSE returned[Min(first)]

\* save of a serial ingest, with the flush that a full chunk causes.
Save(c) ==
  /\ Open /\ ~Parallel
  /\ \E e \in {SaveInto(enc[0], c)} : \E full \in {e.ok /\ e.since >= ChunkSize} :
     \E f \in {IF full THEN Flushed(e, work.rows) ELSE [enc |-> e, tables |-> work.rows]} :
        IF ~e.ok \/ (full /\ mode.finalize = "parity" /\ ~f.enc.ok)
        THEN /\ Refuse /\ calls' = Append(calls, c)
             /\ UNCHANGED <<returned, enc, work>>
        ELSE /\ calls' = Append(calls, c)
             /\ enc' = [enc EXCEPT ![0] =
                  IF ~full THEN e
                  ELSE IF mode.finalize = "parity" THEN f.enc
                  ELSE [e EXCEPT !.shard = @ \cup e.rows, !.rows = {}, !.since = 0]]
             /\ work' = IF full /\ mode.finalize = "parity" THEN [work EXCEPT !.rows = f.tables] ELSE work
             /\ returned' = Append(returned, IF mode.finalize = "parity" THEN e.sid ELSE PublicSid(c, e.sid))
             /\ UNCHANGED phase
  /\ tables' = IF mode.finalize = "parity" THEN Created ELSE tables
  /\ UNCHANGED <<mode, pending, queue, worker, rows, dispatch, marker, resolved>>

\* _parallel_save: the call has a token and waits for its worker's queue.
Submit(c) ==
  /\ Open /\ Parallel
  /\ calls' = Append(calls, c)
  /\ returned' = Append(returned, Len(calls) + 1)
  /\ pending' = Len(calls) + 1
  /\ tables' = IF mode.finalize = "parity" THEN Created ELSE tables
  /\ UNCHANGED <<mode, phase, pool, rows, dispatch, marker, work, resolved>>

\* Tokens go round the workers.
Route(token) == (token % mode.workers) + 1

Dispatch ==
  /\ pending # None
  /\ Len(queue[Route(pending)]) < QueueSize
  /\ queue' = [queue EXCEPT ![Route(pending)] = Append(@, pending)]
  /\ pending' = None
  /\ UNCHANGED <<mode, phase, calls, returned, enc, worker, store, work, resolved>>

\* Faulty: only a worker that reports is noticed.
Reported == \E w \in Workers : worker[w] = "error"

\* _raise_if_worker_broken: an error reported, or an exit without a report.
Broken == \E w \in Workers : worker[w] \in {"error", "dead"}

DispatchRaises ==
  /\ pending # None /\ Broken
  /\ Raise /\ pending' = None
  /\ UNCHANGED <<mode, calls, returned, pool, store, work, resolved>>

\* A worker encodes one task; an error ends it.
WorkerEncodes(w) ==
  /\ worker[w] = "run" /\ queue[w] # <<>> /\ Head(queue[w]) # 0
  /\ \E e \in {SaveInto(enc[w], calls[Head(queue[w])])} :
        /\ worker' = [worker EXCEPT ![w] = IF e.ok THEN "run" ELSE "error"]
        /\ enc' = [enc EXCEPT ![w] =
             LET f == [e EXCEPT !.moved = [n \in DOMAIN @ \cup {Head(queue[w])} |->
                                             IF n = Head(queue[w]) THEN e.sid ELSE @[n]]]
             IN IF e.since < ChunkSize THEN f ELSE [f EXCEPT !.shard = @ \cup f.rows, !.rows = {}, !.since = 0]]
  /\ queue' = [queue EXCEPT ![w] = Tail(@)]
  /\ UNCHANGED <<mode, phase, stream, store, work, resolved>>

\* The stop sentinel (0): the worker reports its manifest and exits.
WorkerStops(w) ==
  /\ worker[w] = "run" /\ queue[w] # <<>> /\ Head(queue[w]) = 0
  /\ worker' = [worker EXCEPT ![w] = "ok"]
  /\ queue' = [queue EXCEPT ![w] = Tail(@)]
  /\ UNCHANGED <<mode, phase, stream, enc, store, work, resolved>>

WorkerDies(w) ==
  /\ worker[w] = "run"
  /\ Cardinality({v \in Workers : worker[v] = "dead"}) < MaxDeaths
  /\ worker' = [worker EXCEPT ![w] = "dead"]
  /\ UNCHANGED <<mode, phase, stream, enc, queue, store, work, resolved>>

\* The block ends, or raises.
Exit ==
  /\ phase = "open" /\ pending = None
  /\ phase' \in {"closing", "failing"}
  /\ UNCHANGED <<mode, stream, pool, store, work, resolved>>

\* _send_sentinels, once for each worker.
Signalled(w) == worker[w] = "ok" \/ \E i \in DOMAIN queue[w] : queue[w][i] = 0
SendSentinel(w) ==
  /\ phase = "closing" /\ Parallel /\ ~Signalled(w) /\ Len(queue[w]) < QueueSize
  /\ queue' = [queue EXCEPT ![w] = Append(@, 0)]
  /\ UNCHANGED <<mode, phase, stream, enc, worker, store, work, resolved>>

\* finish: while sentinels do not fit, a broken worker aborts; and when all
\* workers have exited, one that failed or did not report.
FinishRaises ==
  /\ phase = "closing" /\ Parallel /\ Broken
  /\ \/ \E w \in Workers : ~Signalled(w) /\ Len(queue[w]) >= QueueSize
     \/ \A w \in Workers : worker[w] # "run"
  /\ Raise
  /\ UNCHANGED <<mode, stream, pool, store, work, resolved>>

Ready == phase = "closing" /\ (Parallel => \A w \in Workers : worker[w] = "ok")

\* _assert_no_lost_tasks.
NothingLost ==
  IF mode.tracked THEN UNION {DOMAIN enc[w].moved : w \in Workers} = DOMAIN calls
  ELSE FoldSet(LAMBDA w, n : n + enc[w].count, 0, Workers) = Len(calls)

\* _finalize of a serial parity ingest.
FinalizeSerial ==
  /\ Ready /\ ~Parallel /\ mode.finalize = "parity"
  /\ \E f \in {Flushed(enc[0], work.rows)} :
        IF ~f.enc.ok \/ DispatchConflict(dispatch \cup f.enc.links) THEN Refuse /\ UNCHANGED <<enc, work, resolved>>
        ELSE /\ phase' = "finalized"
             /\ enc' = [enc EXCEPT ![0] = f.enc]
             /\ work' = [rows |-> f.tables, dispatch |-> dispatch \cup f.enc.links]
             /\ resolved' = [i \in DOMAIN returned |-> At(f.enc.moved, returned[i])]
  /\ UNCHANGED <<mode, stream, queue, worker, store>>

\* Faulty: tokens are resolved before the collapse.
ResolveStaged(m, n) == IF n \in DOMAIN Final(m) THEN Final(m)[n] ELSE n

Resolve(m, n) == Final(m)[m[n]]

\* _parallel_finalize and _deferred_finalize.
FinalizeStaged ==
  /\ Ready /\ (Parallel \/ mode.finalize = "deferred")
  /\ \E m \in {Canonical} :
        IF (Parallel /\ ~NothingLost) \/ (mode.verify /\ MergeConflict) \/ IdsCollide(m) \/ DispatchConflict(Links(m))
        THEN Refuse /\ UNCHANGED <<work, resolved>>
        ELSE /\ phase' = "finalized"
             /\ work' = [rows |-> Merged(m), dispatch |-> Links(m)]
             /\ resolved' = IF ~mode.tracked THEN <<>>
                            ELSE [i \in DOMAIN returned |->
                                   Resolve(m, IF Parallel THEN enc[Route(i)].moved[i] ELSE returned[i])]
  /\ tables' = IF mode.finalize = "deferred" THEN Created ELSE tables
  /\ UNCHANGED <<mode, stream, pool, rows, dispatch, marker>>

\* Anything the database refuses on the way: a flush, an index, a commit.
DatabaseFails ==
  /\ phase \in {"closing", "finalized"}
  /\ Raise
  /\ UNCHANGED <<mode, stream, pool, store, work, resolved>>

Commit ==
  /\ phase = "finalized"
  /\ phase' = "committed"
  /\ rows' = work.rows /\ dispatch' = work.dispatch /\ tables' = "built"
  /\ UNCHANGED <<mode, stream, pool, marker, work, resolved>>

ClearMarker ==
  /\ phase = "committed"
  /\ phase' = "done"
  /\ marker' = FALSE
  /\ UNCHANGED <<mode, stream, pool, rows, dispatch, tables, work, resolved>>

\* rollback, then _clean_up_after_failure, whose own failure is swallowed.
CleanUp ==
  /\ phase \in {"failing", "refused"}
  /\ phase' = "cleaned"
  /\ work' = [rows |-> rows, dispatch |-> dispatch]
  /\ tables' \in {tables, IF mode.populated THEN tables ELSE "absent"}
  /\ worker' = [w \in Workers |-> IF worker[w] = "run" THEN "dead" ELSE worker[w]]
  /\ UNCHANGED <<mode, stream, enc, queue, rows, dispatch, marker, resolved>>

\* The catalogue is compared with that of __enter__.
Restored == tables = (IF mode.populated THEN "built" ELSE "absent")

ClearMarkerAfterFailure ==
  /\ phase = "cleaned"
  /\ phase' = "failed"
  /\ marker' = (marker /\ ~Restored)
  /\ UNCHANGED <<mode, stream, pool, rows, dispatch, tables, work, resolved>>

Ended == {"done", "failed", "crashed"}

Crash ==
  /\ phase \notin Ended \cup {"idle"}
  /\ phase' = "crashed"
  /\ UNCHANGED <<mode, stream, pool, store, work, resolved>>
-----------------------------------------------------------------------------
WorkerStep(w) == WorkerEncodes(w) \/ WorkerStops(w)

\* What the process does by itself once it is in a call or at the end.
ProcessStep ==
  \/ Dispatch \/ DispatchRaises
  \/ \E w \in Workers : SendSentinel(w)
  \/ FinishRaises \/ FinalizeSerial \/ FinalizeStaged
  \/ Commit \/ ClearMarker \/ CleanUp \/ ClearMarkerAfterFailure

Next ==
  \/ Enter \/ Exit
  \/ \E c \in Calls : Save(c) \/ Submit(c)
  \/ ProcessStep
  \/ \E w \in Workers : WorkerStep(w) \/ WorkerDies(w)
  \/ DatabaseFails \/ Crash

Fairness == WF_vars(ProcessStep) /\ \A w \in Workers : WF_vars(WorkerStep(w))

Spec == Init /\ [][Next]_vars /\ Fairness
-----------------------------------------------------------------------------
(* Properties.                                                             *)

\* The types of the variables, and no sid twice.
TypeOK ==
  /\ mode \in Modes
  /\ phase \in Ended \cup {"idle", "open", "closing", "finalized", "committed", "failing", "refused", "cleaned"}
  /\ \A R \in {rows, work.rows} : \A x, y \in R :
       /\ x.sid \in Nat \ {0} /\ (x.sid = y.sid => x = y)
       /\ x.refs \cup x.skips \cup x.kids \subseteq {z.sid : z \in R}
  /\ \A w \in Workers : queue[w] \in Seq(0 .. MaxCalls) /\ Len(queue[w]) <= QueueSize
  /\ worker \in [Workers -> {"none", "run", "ok", "error", "dead"}]
  /\ tables \in {"absent", "bare", "built"} /\ marker \in BOOLEAN
  /\ pending \in {None} \cup DOMAIN calls

RECURSIVE Shape(_, _)

\* A row as a reader sees it, whatever its sid is.
Shape(R, n) ==
  LET x == CHOOSE y \in R : y.sid = n
  IN [content |-> Content[x.obj], meta |-> Meta[x.obj], id |-> GivenId[x.obj], main |-> x.main,
      refs |-> {Shape(R, k) : k \in x.refs}, skips |-> {Shape(R, k) : k \in x.skips},
      kids |-> {Shape(R, k) : k \in x.kids}]

Shapes(R) == {Shape(R, x.sid) : x \in R}
Copies(R, s) == Cardinality({x \in R : Shape(R, x.sid) = s})

(* What an ingest commits is what a loop of save() would have stored: the  *)
(* same records as often, main where they were saved by themselves, with   *)
(* the same references; and it commits only what that loop would accept.   *)
CommitsWhatSavesStore ==
  phase \in {"committed", "done"} =>
    LET saved == Loop.rows
    IN Loop.ok /\ Shapes(rows) = Shapes(saved) /\ \A s \in Shapes(rows) : Copies(rows, s) = Copies(saved, s)

(* And it refuses only what that loop refuses: a save, a worker or the     *)
(* finalization raises by itself only when some save of the stream would   *)
(* have raised.                                                            *)
RefusesWhatSavesRefuse ==
  phase = "refused" \/ (\E w \in Workers : worker[w] = "error") => ~Loop.ok

(* After a clean exit each call resolves to the row that the loop of save  *)
(* would have returned, and two calls to one row exactly if it did.        *)
HandlesResolve ==
  phase \in {"committed", "done"} /\ mode.tracked =>
    LET by == Loop.moved
    IN \A i, j \in DOMAIN resolved :
         /\ \E x \in rows : x.sid = resolved[i]
         /\ Shape(rows, resolved[i]) = Shape(Loop.rows, by[i])
         /\ (resolved[i] = resolved[j]) = (by[i] = by[j])

(* What an ingest commits is reachable by its content: each main record of *)
(* a family with several backings has its dispatch row, and a dispatch row *)
(* leads to the main record of its key, whatever was collapsed meanwhile.  *)
DispatchesResolve == phase \in {"committed", "done"} => dispatch = Dispatched(rows)

(* An ingest does to the store and to its caller what a loop of save()     *)
(* over the same calls would do.                                           *)
IngestsLikeSaves == CommitsWhatSavesStore /\ RefusesWhatSavesRefuse /\ HandlesResolve /\ DispatchesResolve

(* Whatever fails and wherever the process dies: without the marker the    *)
(* store is what it was before, or holds the whole ingest.                 *)
NoPartialStore ==
  phase \in Ended /\ ~marker =>
    \/ rows = AtEntry /\ dispatch = Dispatched(rows) /\ Restored
    \/ rows = work.rows /\ dispatch = work.dispatch /\ tables = "built" /\ Len(resolved) \in {0, Len(calls)}

(* The process never waits for ever on a worker that is gone: neither with *)
(* a task its queue has no room for, nor for a report at the end.  Of a    *)
(* state that is left for good, []<>~P says what P ~> ~P does.             *)
IngestEnds == []<>(pending = None /\ phase \in {"idle", "open"} \cup Ended)
=============================================================================
