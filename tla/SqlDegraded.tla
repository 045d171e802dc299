----------------------------- MODULE SqlDegraded -----------------------------
(***************************************************************************)
(* The degraded write profile of SqlStore (backend/sql/store.py, with      *)
(* fsck.py): SQLite in autocommit, so every statement is durable at once   *)
(* and nothing rolls back.  What stands in for transactions is a lease     *)
(* row, one "dirty" row per table being written, an order of writes that   *)
(* puts a parent row last, and a sweep of what crashes leave behind.       *)
(*                                                                         *)
(* A record is a content: it has a type (its table), records it refers to, *)
(* and items that become rows of its child table; an item that is a record *)
(* is saved first.  A save goes down this graph depth first.  At most one  *)
(* row of a record is visible (the unique content id).                     *)
(***************************************************************************)
EXTENDS Naturals, Sequences, FiniteSetsExt

CONSTANTS
  Stores,        \* SqlStore objects: each opens once and ends disposed or dead
  Saves,         \* top-level saves
  Fscks,         \* fsck runs
  Records,       \* record contents
  Types,         \* record types, each with a parent table and a child table
  Type,          \* the type of each record
  Refs,          \* the records each record refers to
  Items,         \* the child elements of each record, some of them records
  EntryTypes,    \* the types with enforced entry ids and a dispatch table
  FsckDies,      \* whether a store may die while it runs fsck
  None           \* "no lease", "no marker"

Ops == Saves \cup Fscks
Tables == Types \X {"parent", "child"}

ASSUME DegradedAssumption ==
  /\ None \notin Stores \cup Ops
  /\ Saves \cap Fscks = {}
  /\ Type \in [Records -> Types]
  /\ Refs \in [Records -> SUBSET Records]
  /\ EntryTypes \subseteq Types
  /\ FsckDies \in BOOLEAN

\* What a record holds of other records.
Parts(r) == Refs[r] \cup (Items[r] \cap Records)

\* The save of an object that reaches itself is refused.
ASSUME AcyclicAssumption ==
  /\ IsFiniteSet(Records)
  /\ \E rank \in [Records -> 1..Cardinality(Records)] :
       \A r \in Records : \A q \in Parts(r) : rank[q] < rank[r]

VARIABLES
  up,        \* the stores that may run operations
  holds,     \* the stores whose _lease_value is set
  observed,  \* the lease a steal in progress has read, None if there is none
  pc,        \* where each operation is
  at,        \* the store that runs it
  job,       \* its local variables
  touched,   \* the tables it has marked, in order
  lease,     \* the value of the "lease" row
  marker,    \* the value of each "dirty:<table>" row
  counter,   \* _httk_sid_counters, 0 before the first allocation
  rows,      \* the parent rows
  kids,      \* the rows of the child tables
  claims,    \* the ownership rows of entry ids
  dispatch   \* the dispatch rows

process == <<up, holds, observed>>
running == <<pc, at, job>>
tables == <<counter, rows, kids>>
vars == <<process, running, touched, lease, marker, tables, claims, dispatch>>

Idle == [root |-> {}, stage |-> [r \in Records |-> "none"],
         sid |-> [r \in Records |-> 0], found |-> [r \in Records |-> 0],
         marked |-> {}, todo |-> {}]

Init ==
  /\ up = Stores
  /\ holds = {}
  /\ observed = [s \in Stores |-> None]
  /\ pc = [o \in Ops |-> "new"]
  /\ at = [o \in Ops |-> None]
  /\ job = [o \in Ops |-> Idle]
  /\ touched = [o \in Ops |-> <<>>]
  /\ lease = None
  /\ marker = [t \in Tables |-> None]
  /\ counter = [y \in Types |-> 0]
  /\ rows = {}
  /\ kids = {}
  /\ claims = {}
  /\ dispatch = {}
-----------------------------------------------------------------------------
(* What the tables say.                                                    *)

RowsOf(y) == {x \in rows : Type[x.rec] = y}
HasRow(y, n) == \E x \in RowsOf(y) : x.sid = n
Visible(r) == {x \in rows : x.rec = r}

Orphans(y) == {k \in kids : Type[k.rec] = y /\ ~HasRow(y, k.sid)}

\* _release_unused_identity_claims deletes these.
Unused(y) == {c \in claims : Type[c.rec] = y /\ ~HasRow(y, c.sid)}

\* What a row refers to, directly or by the elements of its child table.
Targets(r, n) ==
  (UNION {x.refs : x \in {y \in Visible(r) : y.sid = n}})
    \cup {<<k.item, k.ref>> : k \in {j \in kids : j.rec = r /\ j.sid = n /\ j.item \in Records}}

\* _mark: what main rows and dispatch rows reach.
Roots == {<<x.rec, x.sid>> : x \in {y \in rows : y.main}} \cup {<<d.rec, d.sid>> : d \in dispatch}
Reach ==
  LET grow[n \in Nat] ==
        IF n = 0 THEN Roots
        ELSE grow[n - 1] \cup UNION {Targets(p[1], p[2]) : p \in grow[n - 1]}
  IN grow[Cardinality(Records)]
-----------------------------------------------------------------------------
(* Operations run under the mutation lock of their store.                  *)

Working(s) == \E o \in Ops : at[o] = s

\* The mutation lock is held, by an operation or by a steal.
Busy(s) == Working(s) \/ observed[s] # None

\* _ensure_degraded_lease: acquire once, verify at the start of every operation.
LeaseEnsured(s) ==
  /\ IF s \in holds THEN lease = s ELSE lease = None
  /\ lease' = s
  /\ holds' = holds \cup {s}

LeaseRefused(s) == IF s \in holds THEN lease # s ELSE lease # None

\* Faulty: claims are left to fsck.
NoClaimsReleased == {}

\* _begin_degraded_operation looks at every marker, its own table or not.
ReleasedAtStart == UNION {Unused(y) : y \in {z \in Types : marker[<<z, "parent">>] # None}}

Begin(o, s, next, start) ==
  /\ pc[o] = "new"
  /\ s \in up /\ ~Busy(s)
  /\ LeaseEnsured(s)
  /\ pc' = [pc EXCEPT ![o] = next]
  /\ at' = [at EXCEPT ![o] = s]
  /\ job' = [job EXCEPT ![o] = start]
  /\ claims' = claims \ ReleasedAtStart
  /\ UNCHANGED <<up, observed, touched, marker, tables, dispatch>>

\* The operation raises: the lease is another's, or was stolen.
Refused(o, s) ==
  /\ pc[o] = "new"
  /\ s \in up /\ ~Busy(s)
  /\ LeaseRefused(s)
  /\ pc' = [pc EXCEPT ![o] = "failed"]
  /\ UNCHANGED <<process, at, job, touched, lease, marker, tables, claims, dispatch>>

Touched(o) == Range(touched[o])

\* Faulty: a leftover marker is taken over without a sweep.
TouchDirtyUnswept(o, t) ==
  /\ touched' = [touched EXCEPT ![o] = IF t \in Touched(o) THEN @ ELSE Append(@, t)]
  /\ marker' = [marker EXCEPT ![t] = o]
  /\ claims' = claims
  /\ kids' = kids

\* _touch_dirty_table, with _targeted_dirty_sweep for a leftover marker.
TouchDirty(o, t) ==
  LET leftover == t \notin Touched(o) /\ marker[t] \notin {None, o}
  IN /\ touched' = [touched EXCEPT ![o] = IF t \in Touched(o) THEN @ ELSE Append(@, t)]
     /\ marker' = [marker EXCEPT ![t] = o]
     /\ claims' = IF leftover /\ t[2] = "parent" THEN claims \ Unused(t[1]) ELSE claims
     /\ kids' = IF leftover THEN kids \ Orphans(t[1]) ELSE kids
-----------------------------------------------------------------------------
(* A save.  job.stage says what _save_active has on the call stack: "refs" *)
(* while it saves references, "kids" once the sid is reserved, "row" when  *)
(* everything but the parent row is written.                               *)

Stage(o, r) == job[o].stage[r]

\* The innermost _save_active: none of what it saves is on the stack.
Innermost(o, r) ==
  /\ pc[o] = "saving"
  /\ Stage(o, r) # "none"
  /\ \A q \in Parts(r) : Stage(o, q) = "none"

StartSave(o, s, r) ==
  Begin(o, s, "saving", [Idle EXCEPT !.root = {r}, !.stage[r] = "refs"])

Wanted(o, r) ==
  IF Stage(o, r) = "refs" THEN Refs[r]
  ELSE IF Stage(o, r) = "kids" THEN Items[r] \cap Records ELSE {}

\* A nested record is found by content, or saved.
Descend(o, r, q) ==
  /\ Innermost(o, r)
  /\ q \in Wanted(o, r)
  /\ job[o].found[q] = 0
  /\ \/ \E x \in Visible(q) : job' = [job EXCEPT ![o].found[q] = x.sid]
     \/ Visible(q) = {} /\ job' = [job EXCEPT ![o].stage[q] = "refs"]
  /\ UNCHANGED <<process, pc, at, touched, lease, marker, tables, claims, dispatch>>

\* Faulty: a dependency found by content stays one.
PromoteNothing(o, r) ==
  /\ Innermost(o, r)
  /\ job[o].root = {r} /\ Stage(o, r) = "refs"
  /\ \E x \in Visible(r) :
       job' = [job EXCEPT ![o].found[r] = x.sid, ![o].stage[r] = "none"]
  /\ pc' = [pc EXCEPT ![o] = "dispatching"]
  /\ UNCHANGED <<process, at, touched, lease, marker, tables, claims, dispatch>>

\* The top-level record is there already: a dependency is promoted.
Promote(o, r) ==
  /\ Innermost(o, r)
  /\ job[o].root = {r} /\ Stage(o, r) = "refs"
  /\ \E x \in Visible(r) :
       /\ rows' = (rows \ {x}) \cup {[x EXCEPT !.main = TRUE]}
       /\ job' = [job EXCEPT ![o].found[r] = x.sid, ![o].stage[r] = "none"]
  /\ pc' = [pc EXCEPT ![o] = "dispatching"]
  /\ UNCHANGED <<process, at, touched, lease, marker, counter, kids, claims, dispatch>>

\* The sid after the highest of the parent rows.
SidAboveRows(y) == Max({0} \cup {x.sid : x \in RowsOf(y)}) + 1

\* Faulty: there is no counter, and a sid without a row is given out again.
SidWithoutCounter(y) == SidAboveRows(y)

\* _allocate_degraded_sid: a counter starts above the rows and never goes back.
NextSid(y) == IF counter[y] = 0 THEN SidAboveRows(y) ELSE counter[y]

\* Faulty: the references may still be under way.
ReserveEarly(o, r) ==
  /\ Innermost(o, r)
  /\ Stage(o, r) = "refs" /\ Visible(r) = {}
  /\ TouchDirty(o, <<Type[r], "parent">>)
  /\ counter' = [counter EXCEPT ![Type[r]] = NextSid(Type[r]) + 1]
  /\ job' = [job EXCEPT ![o].sid[r] = NextSid(Type[r]), ![o].stage[r] = "kids"]
  /\ UNCHANGED <<process, pc, at, lease, rows, dispatch>>

Reserve(o, r) ==
  /\ Innermost(o, r)
  /\ Stage(o, r) = "refs" /\ Visible(r) = {}
  /\ \A q \in Refs[r] : job[o].found[q] # 0
  /\ TouchDirty(o, <<Type[r], "parent">>)
  /\ counter' = [counter EXCEPT ![Type[r]] = NextSid(Type[r]) + 1]
  /\ job' = [job EXCEPT ![o].sid[r] = NextSid(Type[r]), ![o].stage[r] = "kids"]
  /\ UNCHANGED <<process, pc, at, lease, rows, dispatch>>

Written(o, r) == {k.item : k \in {j \in kids : j.rec = r /\ j.sid = job[o].sid[r] /\ j.by = o}}

\* The element records are saved before the first child row is written.
Encoded(o, r) ==
  /\ Stage(o, r) = "kids"
  /\ \A i \in Items[r] \cap Records : job[o].found[i] # 0

\* _insert_child_rows; each row is durable on its own.
WriteKid(o, r) ==
  /\ Innermost(o, r) /\ Encoded(o, r)
  /\ <<Type[r], "child">> \in Touched(o)
  /\ \E i \in Items[r] \ Written(o, r) :
       kids' = kids \cup
         {[rec |-> r, sid |-> job[o].sid[r], item |-> i, by |-> o,
           ref |-> IF i \in Records THEN job[o].found[i] ELSE 0]}
  /\ UNCHANGED <<process, running, touched, lease, marker, counter, rows, claims, dispatch>>

TouchChildTable(o, r) ==
  /\ Innermost(o, r) /\ Encoded(o, r)
  /\ Items[r] # {}
  /\ <<Type[r], "child">> \notin Touched(o)
  /\ TouchDirty(o, <<Type[r], "child">>)
  /\ UNCHANGED <<process, running, lease, counter, rows, dispatch>>

\* _claim_entry_identity: a claim of the id that names another row is refused.
ClaimEntry(o, r) ==
  /\ Innermost(o, r)
  /\ Stage(o, r) = "kids" /\ Items[r] \subseteq Written(o, r)
  /\ Type[r] \in EntryTypes => \A c \in claims : c.rec = r => c.sid = job[o].sid[r]
  /\ claims' = claims \cup
       (IF Type[r] \in EntryTypes THEN {[rec |-> r, sid |-> job[o].sid[r]]} ELSE {})
  /\ job' = [job EXCEPT ![o].stage[r] = "row"]
  /\ UNCHANGED <<process, pc, at, touched, lease, marker, tables, dispatch>>

IsRoot(o, r) == job[o].root = {r}

WriteParent(o, r) ==
  /\ Innermost(o, r)
  /\ Stage(o, r) = "row"
  /\ rows' = rows \cup {[rec |-> r, sid |-> job[o].sid[r], main |-> IsRoot(o, r),
                         refs |-> {<<q, job[o].found[q]>> : q \in Refs[r]}]}
  /\ job' = [job EXCEPT ![o].found[r] = job[o].sid[r], ![o].stage[r] = "none"]
  /\ pc' = [pc EXCEPT ![o] = IF IsRoot(o, r) THEN "dispatching" ELSE @]
  /\ UNCHANGED <<process, at, touched, lease, marker, counter, kids, claims, dispatch>>

\* _save_entry_dispatch comes last, also for a record found by content.
WriteDispatch(o) ==
  /\ pc[o] = "dispatching"
  /\ \E r \in job[o].root :
       dispatch' = IF Type[r] \in EntryTypes /\ ~\E d \in dispatch : d.rec = r
                   THEN dispatch \cup {[rec |-> r, sid |-> job[o].found[r]]}
                   ELSE dispatch
  /\ pc' = [pc EXCEPT ![o] = "saved"]
  /\ UNCHANGED <<process, at, job, touched, lease, marker, tables, claims>>

\* An exception in the middle; no error path deletes what is written.
SaveFails(o) ==
  /\ pc[o] \in {"saving", "dispatching"}
  /\ pc' = [pc EXCEPT ![o] = "raising"]
  /\ UNCHANGED <<process, at, job, touched, lease, marker, tables, claims, dispatch>>

Ending(o) == pc[o] \in {"saved", "raising", "swept"}

\* _end_degraded_operation, table by table ...
ClearMarker(o, t) ==
  /\ Ending(o)
  /\ touched[o] # <<>> /\ t = Head(touched[o])
  /\ claims' = IF t[2] = "parent" THEN claims \ Unused(t[1]) ELSE claims
  /\ marker' = [marker EXCEPT ![t] = IF @ = o THEN None ELSE @]
  /\ touched' = [touched EXCEPT ![o] = Tail(@)]
  /\ UNCHANGED <<process, running, lease, tables, dispatch>>

\* ... whether the operation succeeded or not.
EndOperation(o) ==
  /\ Ending(o)
  /\ touched[o] = <<>>
  /\ pc' = [pc EXCEPT ![o] = IF @ = "raising" THEN "failed" ELSE "returned"]
  /\ at' = [at EXCEPT ![o] = None]
  /\ UNCHANGED <<process, job, touched, lease, marker, tables, claims, dispatch>>
-----------------------------------------------------------------------------
(* fsck, in the same autocommit mode.                                      *)

StartFsck(f, s) == Begin(f, s, "repairing", Idle)

\* _repair_dispatches for main rows without one, then _mark.
RepairAndMark(f) ==
  /\ pc[f] = "repairing"
  /\ dispatch' = dispatch \cup
       {[rec |-> x.rec, sid |-> x.sid] :
          x \in {y \in rows : y.main /\ Type[y.rec] \in EntryTypes
                              /\ ~\E d \in dispatch : d.rec = y.rec}}
  /\ job' = [job EXCEPT ![f].marked = Reach, ![f].todo = Types]
  /\ pc' = [pc EXCEPT ![f] = "collecting"]
  /\ UNCHANGED <<process, at, touched, lease, marker, tables, claims>>

(* Unmarked dependencies go table by table, in the order a search of the   *)
(* schemas has met them: a type may come before one that refers to it.     *)
CollectType(f, y) ==
  /\ pc[f] = "collecting"
  /\ y \in job[f].todo
  /\ IF y \in EntryTypes THEN TouchDirty(f, <<y, "parent">>)
     ELSE UNCHANGED <<touched, marker, claims, kids>>
  /\ rows' = {x \in rows : Type[x.rec] = y => x.main \/ <<x.rec, x.sid>> \in job[f].marked}
  /\ job' = [job EXCEPT ![f].todo = @ \ {y}]
  /\ UNCHANGED <<process, pc, at, lease, counter, dispatch>>

\* _sweep_ownerless_children
SweepChildren(f) ==
  /\ pc[f] = "collecting" /\ job[f].todo = {}
  /\ kids' = kids \ UNION {Orphans(y) : y \in Types}
  /\ pc' = [pc EXCEPT ![f] = "claiming"]
  /\ UNCHANGED <<process, at, job, touched, lease, marker, counter, rows, claims, dispatch>>

\* Claims without owner are released, and owners without claim get theirs.
SyncClaims(f) ==
  /\ pc[f] = "claiming"
  /\ claims' = {[rec |-> x.rec, sid |-> x.sid] : x \in {y \in rows : Type[y.rec] \in EntryTypes}}
  /\ pc' = [pc EXCEPT ![f] = "swept"]
  /\ UNCHANGED <<process, at, job, touched, lease, marker, tables, dispatch>>
-----------------------------------------------------------------------------
(* The lease and the end of stores.                                        *)

ReadForSteal(s) ==
  /\ s \in up /\ ~Busy(s)
  /\ lease \notin {None, s}
  /\ observed' = [observed EXCEPT ![s] = lease]
  /\ UNCHANGED <<up, holds, running, touched, lease, marker, tables, claims, dispatch>>

\* Faulty: the new value is written over whatever is there.
StealOverwriting(s) ==
  /\ observed[s] # None
  /\ ~Working(observed[s])
  /\ lease' = s
  /\ holds' = holds \cup {s}
  /\ observed' = [observed EXCEPT ![s] = None]
  /\ UNCHANGED <<up, running, touched, marker, tables, claims, dispatch>>

(* steal_lease compares and swaps.  It is for whoever knows that the store *)
(* it read of is dead or will not write on.                                *)
Steal(s) ==
  /\ observed[s] # None
  /\ ~Working(observed[s])
  /\ lease' = IF lease = observed[s] THEN s ELSE lease
  /\ holds' = IF lease = observed[s] THEN holds \cup {s} ELSE holds
  /\ observed' = [observed EXCEPT ![s] = None]
  /\ UNCHANGED <<up, running, touched, marker, tables, claims, dispatch>>

\* There is none to steal: it is acquired.
StealFree(s) ==
  /\ s \in up /\ ~Busy(s)
  /\ lease = None
  /\ LeaseEnsured(s)
  /\ UNCHANGED <<up, observed, running, touched, marker, tables, claims, dispatch>>

\* _release_degraded_lease deletes the row by key and value.
DisposedLease(s) == IF s \in holds /\ lease = s THEN None ELSE lease

\* Backend.dispose waits for the mutation in progress.
Dispose(s) ==
  /\ s \in up /\ ~Busy(s)
  /\ lease' = DisposedLease(s)
  /\ up' = up \ {s}
  /\ holds' = holds \ {s}
  /\ UNCHANGED <<observed, running, touched, marker, tables, claims, dispatch>>

Die(s) ==
  /\ s \in up /\ Working(s)
  /\ (\E f \in Fscks : at[f] = s) => FsckDies
  /\ up' = up \ {s}
  /\ holds' = holds \ {s}
  /\ pc' = [o \in Ops |-> IF at[o] # s THEN pc[o]
                          ELSE IF pc[o] = "raising" THEN "failed" ELSE "dead"]
  /\ job' = [o \in Ops |-> IF at[o] = s THEN Idle ELSE job[o]]
  /\ touched' = [o \in Ops |-> IF at[o] = s THEN <<>> ELSE touched[o]]
  /\ at' = [o \in Ops |-> IF at[o] = s THEN None ELSE at[o]]
  /\ UNCHANGED <<observed, lease, marker, tables, claims, dispatch>>
-----------------------------------------------------------------------------
SaveRecord(o, r) ==
  \/ \E q \in Records : Descend(o, r, q)
  \/ Promote(o, r) \/ Reserve(o, r) \/ TouchChildTable(o, r)
  \/ WriteKid(o, r) \/ ClaimEntry(o, r) \/ WriteParent(o, r)

End(o) == EndOperation(o) \/ \E t \in Tables : ClearMarker(o, t)

Fsck(f) ==
  \/ RepairAndMark(f) \/ SweepChildren(f) \/ SyncClaims(f)
  \/ \E y \in Types : CollectType(f, y)

Next ==
  \/ \E o \in Saves :
       \/ \E s \in Stores, r \in Records : StartSave(o, s, r)
       \/ \E r \in Records : SaveRecord(o, r)
       \/ WriteDispatch(o) \/ SaveFails(o)
  \/ \E f \in Fscks :
       \/ \E s \in Stores : StartFsck(f, s)
       \/ Fsck(f)
  \/ \E o \in Ops : End(o) \/ \E s \in Stores : Refused(o, s)
  \/ \E s \in Stores : ReadForSteal(s) \/ Steal(s) \/ StealFree(s) \/ Dispose(s) \/ Die(s)

Spec == Init /\ [][Next]_vars
-----------------------------------------------------------------------------
(* Properties.                                                             *)

Stages == {"none", "refs", "kids", "row"}
Places == {"new", "saving", "dispatching", "saved", "raising", "repairing", "collecting",
           "claiming", "swept", "returned", "failed", "dead"}
AllItems == UNION {Items[r] : r \in Records}
Sid == Nat \ {0}

\* The types of the variables.
TypeOK ==
  /\ up \subseteq Stores
  /\ holds \subseteq Stores
  /\ observed \in [Stores -> Stores \cup {None}]
  /\ pc \in [Ops -> Places]
  /\ at \in [Ops -> Stores \cup {None}]
  /\ job \in [Ops -> [root : SUBSET Records, stage : [Records -> Stages],
                      sid : [Records -> Nat], found : [Records -> Nat],
                      marked : SUBSET (Records \X Sid), todo : SUBSET Types]]
  /\ touched \in [Ops -> Seq(Tables)]
  /\ lease \in Stores \cup {None}
  /\ marker \in [Tables -> Ops \cup {None}]
  /\ counter \in [Types -> Nat]
  /\ rows \subseteq [rec : Records, sid : Sid, main : BOOLEAN, refs : SUBSET (Records \X Sid)]
  /\ kids \subseteq [rec : Records, sid : Sid, item : AllItems, by : Ops, ref : Nat]
  /\ claims \subseteq [rec : Records, sid : Sid]
  /\ dispatch \subseteq [rec : Records, sid : Sid]

(* Whoever is in the middle of an operation holds the lease row, so no two *)
(* stores write at once, whatever was stolen, disposed or left by the dead *)
(* in between.                                                             *)
OneWriter == \A s \in Stores : Working(s) => lease = s

KidsOf(x) == {k \in kids : Type[k.rec] = Type[x.rec] /\ k.sid = x.sid}

\* All that a row refers to is there, and its child rows are its own.
Complete(x) ==
  /\ {k.item : k \in KidsOf(x)} = Items[x.rec]
  /\ Cardinality(KidsOf(x)) = Cardinality(Items[x.rec])
  /\ \A p \in Targets(x.rec, x.sid) : \E y \in rows : p = <<y.rec, y.sid>>

(* Ordered writes replace transactions: whatever a main or dispatch row    *)
(* reaches exists and has exactly its own child rows, at every moment and  *)
(* however often writers fail and die; residue is never adopted by a later *)
(* row of the same sid.                                                    *)
MainsComplete ==
  \A p \in Reach : \E x \in rows : <<x.rec, x.sid>> = p /\ Complete(x)

(* A leftover marker arranges a sweep before the next write to its table:  *)
(* once a save has touched a table, the ownerless child rows left in it    *)
(* are its own, or those of an operation that failed and lived.            *)
CrashResidueSwept ==
  \A o \in Saves, t \in Tables :
    t \in Touched(o) => \A k \in Orphans(t[1]) : k.by = o \/ pc[k.by] \in {"failed", "raising"}

(* Entry ids and rows stay in step: a visible entry has its claim, and     *)
(* while a save runs a claim without its row is the save's own, so that a  *)
(* crashed save can be repeated under the same id.                         *)
ClaimsSound ==
  /\ \A x \in rows :
       Type[x.rec] \in EntryTypes => [rec |-> x.rec, sid |-> x.sid] \in claims
  /\ \A o \in Saves, c \in claims :
       at[o] # None /\ ~HasRow(Type[c.rec], c.sid) =>
         Stage(o, c.rec) = "row" /\ job[o].sid[c.rec] = c.sid

(* What save has returned stays: a main row of its record under that sid,  *)
(* and its dispatch row, through later saves, crashes and fsck runs.       *)
SavesStay ==
  \A o \in Saves : pc[o] = "returned" =>
    \A r \in job[o].root :
      /\ \E x \in rows : x.rec = r /\ x.sid = job[o].found[r] /\ x.main
      /\ Type[r] \in EntryTypes => [rec |-> r, sid |-> job[o].found[r]] \in dispatch

(* What docs/details/db-recovery.md says of the profile: "a visible parent *)
(* means its subtree is complete"; asked here of the parents that a save   *)
(* has returned.                                                           *)
VisibleMeansComplete ==
  \A o \in Saves : pc[o] = "returned" =>
    \A p \in Reach : \E x \in rows : <<x.rec, x.sid>> = p /\ Complete(x)
=============================================================================
