-------------------------- MODULE SqlDegradedProofs --------------------------
(***************************************************************************)
(* The properties of SqlDegraded, for any number of stores, operations and *)
(* records: first that one store writes at a time, then what the tables    *)
(* say: their types, the claims of entries, the saves that have returned,  *)
(* what crashes leave behind, and what main rows reach.                    *)
(***************************************************************************)
EXTENDS SqlDegraded, NumberFacts

-----------------------------------------------------------------------------
(* The lease.  OneWriter is inductive with the type of "at": the row can   *)
(* only leave a store that has an operation in progress by a steal, and a  *)
(* steal writes only over the store it has read of, which is not working   *)
(* then.                                                                   *)

AtType == at \in [Ops -> Stores \cup {None}]

WriterInv == AtType /\ OneWriter

\* Initially no operation runs.
LEMMA WriterInit == Init => WriterInv
  BY DegradedAssumption DEF Init, WriterInv, AtType, OneWriter, Working

\* A step that leaves at and the lease alone keeps the invariant.
LEMMA WriterUntouched ==
  ASSUME WriterInv, UNCHANGED <<at, lease>>
  PROVE  WriterInv'
  BY DEF WriterInv, AtType, OneWriter, Working

(* An operation begins under the lease: its store had it, or nobody did,   *)
(* and then no other store was working.                                    *)
LEMMA WriterBegins ==
  ASSUME WriterInv, NEW o \in Ops, NEW s \in Stores, NEW next, NEW start,
         Begin(o, s, next, start)
  PROVE  WriterInv'
<1> USE DegradedAssumption DEF WriterInv
<1>1. /\ lease \in {None, s} /\ lease' = s
      /\ at' = [at EXCEPT ![o] = s]
  BY DEF Begin, LeaseEnsured
<1>2. AtType'
  BY <1>1 DEF AtType
<1>3. ASSUME NEW t \in Stores, Working(t)' PROVE lease' = t
  <2>1. CASE t = s
    BY <2>1, <1>1
  <2>2. CASE t # s
    <3>1. Working(t)
      BY <1>1, <1>3, <2>2 DEF Working, AtType
    <3>2. lease = t
      BY <3>1 DEF OneWriter
    <3> QED BY <1>1, <2>2, <3>2
  <2> QED BY <2>1, <2>2
<1> QED BY <1>2, <1>3 DEF OneWriter

\* An operation ends, by itself or with its process.
LEMMA WriterEnds ==
  ASSUME WriterInv, lease' = lease,
         \/ \E o \in Ops : at' = [at EXCEPT ![o] = None]
         \/ \E s \in Stores : at' = [o \in Ops |-> IF at[o] = s THEN None ELSE at[o]]
  PROVE  WriterInv'
<1> USE DegradedAssumption DEF WriterInv
<1>1. AtType'
  BY DEF AtType
<1>2. ASSUME NEW t \in Stores, Working(t)' PROVE Working(t)
  BY <1>2 DEF Working, AtType
<1> QED BY <1>1, <1>2 DEF OneWriter

(* The lease row changes between operations: a steal, a steal that finds   *)
(* none, a disposal.                                                       *)
LEMMA WriterLeaseMoves ==
  ASSUME WriterInv, NEW s \in Stores, at' = at,
         Steal(s) \/ StealFree(s) \/ Dispose(s)
  PROVE  WriterInv'
<1> USE DegradedAssumption DEF WriterInv
<1>1. ASSUME NEW t \in Stores, Working(t) PROVE lease' = t
  <2>1. lease = t
    BY <1>1 DEF OneWriter
  <2>2. CASE Steal(s)
    BY <1>1, <2>1, <2>2 DEF Steal
  <2>3. CASE StealFree(s)
    BY <2>1, <2>3 DEF StealFree
  <2>4. CASE Dispose(s)
    BY <1>1, <2>1, <2>4 DEF Dispose, DisposedLease, Busy
  <2> QED BY <2>2, <2>3, <2>4
<1>2. \A t \in Stores : Working(t)' <=> Working(t)
  BY DEF Working
<1> QED BY <1>1, <1>2 DEF AtType, OneWriter

\* Every step keeps the invariant.
LEMMA WriterStep == WriterInv /\ [Next]_vars => WriterInv'
<1> SUFFICES ASSUME WriterInv, [Next]_vars PROVE WriterInv'
  OBVIOUS
<1>1. CASE UNCHANGED vars
  BY <1>1, WriterUntouched DEF vars, running
<1>2. ASSUME NEW o \in Saves, NEW s \in Stores, NEW r \in Records, StartSave(o, s, r)
      PROVE  WriterInv'
  BY <1>2, WriterBegins DEF StartSave, Ops
<1>3. ASSUME NEW o \in Saves, NEW r \in Records, SaveRecord(o, r)
      PROVE  WriterInv'
  <2>1. UNCHANGED <<at, lease>>
    <3>1. CASE \E q \in Records : Descend(o, r, q)
      BY <3>1 DEF Descend
    <3>2. CASE Promote(o, r)
      BY <3>2 DEF Promote
    <3>3. CASE Reserve(o, r)
      BY <3>3 DEF Reserve
    <3>4. CASE TouchChildTable(o, r)
      BY <3>4 DEF TouchChildTable, running
    <3>5. CASE WriteKid(o, r)
      BY <3>5 DEF WriteKid, running
    <3>6. CASE ClaimEntry(o, r)
      BY <3>6 DEF ClaimEntry
    <3>7. CASE WriteParent(o, r)
      BY <3>7 DEF WriteParent
    <3> QED BY <1>3, <3>1, <3>2, <3>3, <3>4, <3>5, <3>6, <3>7 DEF SaveRecord
  <2> QED BY <2>1, WriterUntouched
<1>4. ASSUME NEW o \in Saves, WriteDispatch(o) \/ SaveFails(o)
      PROVE  WriterInv'
  BY <1>4, WriterUntouched DEF WriteDispatch, SaveFails
<1>5. ASSUME NEW f \in Fscks, NEW s \in Stores, StartFsck(f, s)
      PROVE  WriterInv'
  BY <1>5, WriterBegins DEF StartFsck, Ops
<1>6. ASSUME NEW f \in Fscks, Fsck(f)
      PROVE  WriterInv'
  <2>1. CASE RepairAndMark(f)
    BY <2>1, WriterUntouched DEF RepairAndMark
  <2>2. CASE SweepChildren(f)
    BY <2>2, WriterUntouched DEF SweepChildren
  <2>3. CASE SyncClaims(f)
    BY <2>3, WriterUntouched DEF SyncClaims
  <2>4. CASE \E y \in Types : CollectType(f, y)
    BY <2>4, WriterUntouched DEF CollectType
  <2> QED BY <1>6, <2>1, <2>2, <2>3, <2>4 DEF Fsck
<1>7. ASSUME NEW o \in Ops, End(o)
      PROVE  WriterInv'
  <2>1. CASE EndOperation(o)
    BY <2>1, WriterEnds DEF EndOperation
  <2>2. CASE \E t \in Tables : ClearMarker(o, t)
    BY <2>2, WriterUntouched DEF ClearMarker, running
  <2> QED BY <1>7, <2>1, <2>2 DEF End
<1>8. ASSUME NEW o \in Ops, NEW s \in Stores, Refused(o, s)
      PROVE  WriterInv'
  BY <1>8, WriterUntouched DEF Refused
<1>9. ASSUME NEW s \in Stores, ReadForSteal(s) \/ Steal(s) \/ StealFree(s) \/ Dispose(s) \/ Die(s)
      PROVE  WriterInv'
  <2>1. CASE ReadForSteal(s)
    BY <2>1, WriterUntouched DEF ReadForSteal, running
  <2>2. CASE Steal(s) \/ StealFree(s) \/ Dispose(s)
    <3>1. at' = at
      BY <2>2 DEF Steal, StealFree, Dispose, running
    <3> QED BY <2>2, <3>1, WriterLeaseMoves
  <2>3. CASE Die(s)
    BY <2>3, WriterEnds DEF Die
  <2> QED BY <1>9, <2>1, <2>2, <2>3
<1> QED
  BY <1>1, <1>2, <1>3, <1>4, <1>5, <1>6, <1>7, <1>8, <1>9 DEF Next

(* No two stores are ever in the middle of an operation together: the lease *)
(* row names whoever is, through steals, disposals and deaths.              *)
THEOREM OneStoreWrites == Spec => []OneWriter
<1>1. Init => WriterInv
  BY WriterInit
<1>2. WriterInv /\ [Next]_vars => WriterInv'
  BY WriterStep
<1>3. WriterInv => OneWriter
  BY DEF WriterInv
<1> QED BY <1>1, <1>2, <1>3, PTL DEF Spec
-----------------------------------------------------------------------------
(* The tables.                                                             *)

SavePlaces == {"saving", "dispatching", "saved", "raising"}
FsckPlaces == {"repairing", "collecting", "claiming", "swept"}

\* The sid of the record is reserved and its parent row is not written.
Staged(o, r) == pc[o] = "saving" /\ Stage(o, r) \in {"kids", "row"}

\* The steps that leave the tables and the operations in progress alone.
Quiet ==
  /\ UNCHANGED <<at, job, touched, marker, tables, claims, dispatch>>
  /\ \/ pc' = pc
     \/ \E o \in Ops : pc[o] = "new" /\ pc' = [pc EXCEPT ![o] = "failed"]

LEMMA QuietSteps ==
  ASSUME \/ UNCHANGED vars
         \/ \E o \in Ops, s \in Stores : Refused(o, s)
         \/ \E s \in Stores : ReadForSteal(s) \/ Steal(s) \/ StealFree(s) \/ Dispose(s)
  PROVE  Quiet
<1>1. CASE UNCHANGED vars
  BY <1>1 DEF Quiet, vars, running
<1>2. ASSUME NEW o \in Ops, NEW s \in Stores, Refused(o, s) PROVE Quiet
  BY <1>2 DEF Quiet, Refused
<1>3. ASSUME NEW s \in Stores, ReadForSteal(s) PROVE Quiet
  BY <1>3 DEF Quiet, ReadForSteal, running
<1>4. ASSUME NEW s \in Stores, Steal(s) PROVE Quiet
  BY <1>4 DEF Quiet, Steal, running
<1>5. ASSUME NEW s \in Stores, StealFree(s) PROVE Quiet
  BY <1>5 DEF Quiet, StealFree, running
<1>6. ASSUME NEW s \in Stores, Dispose(s) PROVE Quiet
  BY <1>6 DEF Quiet, Dispose, running
<1> QED BY <1>1, <1>2, <1>3, <1>4, <1>5, <1>6
-----------------------------------------------------------------------------
(* What main and dispatch rows reach.                                      *)

(* What is reached in one more step, and the function that Reach builds.   *)
Onward(S) == S \cup UNION {Targets(p[1], p[2]) : p \in S}
Steps(g) == g = [n \in Nat |-> IF n = 0 THEN Roots ELSE Onward(g[n - 1])]

LEMMA StepsExist == \E g : Steps(g)
<1> DEFINE Upto(n, g) == g = [i \in 0..n |-> IF i = 0 THEN Roots ELSE Onward(g[i - 1])]
           Built == {n \in Nat : \E g : Upto(n, g)}
<1>1. ASSUME NEW n \in Nat, NEW g, Upto(n, g), NEW i \in 0..n
      PROVE  g[i] = IF i = 0 THEN Roots ELSE Onward(g[i - 1])
  BY <1>1
<1>2. ASSUME NEW n \in Nat, NEW g, DOMAIN g = 0..n, g = [i \in DOMAIN g |-> g[i]],
             \A i \in 0..n : g[i] = IF i = 0 THEN Roots ELSE Onward(g[i - 1])
      PROVE  Upto(n, g)
  BY <1>2
<1> HIDE DEF Upto
<1>3. 0 \in Built
  <2>1. Upto(0, [i \in 0..0 |-> Roots])
    BY DEF Upto
  <2> QED BY <2>1
<1>4. ASSUME NEW n \in Built PROVE n + 1 \in Built
  <2>1. PICK g : Upto(n, g)
    BY <1>4
  <2>a. n \in Nat /\ n + 1 \in Nat
    BY <1>4
  <2> DEFINE h == [i \in 0..(n + 1) |-> IF i = n + 1 THEN Onward(g[n]) ELSE g[i]]
  <2>2. DOMAIN h = 0..(n + 1) /\ h = [i \in DOMAIN h |-> h[i]]
    OBVIOUS
  <2>3. h[n + 1] = Onward(g[n]) /\ \A i \in 0..n : h[i] = g[i]
    OBVIOUS
  <2> HIDE DEF h
  <2>4. ASSUME NEW i \in 0..(n + 1)
        PROVE  h[i] = IF i = 0 THEN Roots ELSE Onward(h[i - 1])
    <3>1. CASE i = n + 1
      <4>1. h[i - 1] = g[n]
        BY <3>1, <2>3
      <4> QED BY <3>1, <4>1, <2>3
    <3>2. CASE i \in 0..n
      <4>1. g[i] = IF i = 0 THEN Roots ELSE Onward(g[i - 1])
        BY <2>a, <2>1, <1>1, <3>2
      <4>2. i # 0 => h[i - 1] = g[i - 1]
        BY <3>2, <2>3
      <4> QED BY <4>1, <4>2, <2>3, <3>2
    <3> QED BY <3>1, <3>2
  <2>5. Upto(n + 1, h)
    BY <2>a, <1>2, <2>2, <2>4
  <2> QED BY <2>5
<1>5. Built = Nat
  <2>1. Built \subseteq Nat
    OBVIOUS
  <2> HIDE DEF Built
  <2> QED BY <1>3, <1>4, <2>1, NumberInduction
<1> DEFINE part == [n \in Nat |-> CHOOSE g : Upto(n, g)]
           whole == [n \in Nat |-> part[n][n]]
<1>6. \A n \in Nat : Upto(n, part[n])
  <2> SUFFICES ASSUME NEW n \in Nat PROVE Upto(n, part[n])
    OBVIOUS
  <2>1. n \in Built
    BY <1>5
  <2>2. \E g : Upto(n, g)
    BY <2>1
  <2> QED BY <2>2
<1> HIDE DEF part, Built
<1> DEFINE Same == {i \in Nat : \A m, n \in Nat : i <= m /\ i <= n => part[m][i] = part[n][i]}
<1>7. Same = Nat
  <2>1. 0 \in Same
    <3>1. ASSUME NEW m \in Nat, NEW n \in Nat PROVE part[m][0] = part[n][0]
      <4>1. part[m][0] = Roots /\ part[n][0] = Roots
        BY <1>6, <1>1
      <4> QED BY <4>1
    <3> QED BY <3>1
  <2>2. ASSUME NEW i \in Same PROVE i + 1 \in Same
    <3>1. ASSUME NEW m \in Nat, NEW n \in Nat, i + 1 <= m, i + 1 <= n
          PROVE  part[m][i + 1] = part[n][i + 1]
      <4>1. i + 1 \in 0..m /\ i + 1 \in 0..n /\ i + 1 # 0 /\ (i + 1) - 1 = i
        BY <3>1
      <4>2. part[m][i + 1] = Onward(part[m][i]) /\ part[n][i + 1] = Onward(part[n][i])
        BY <4>1, <1>6, <1>1
      <4>3. part[m][i] = part[n][i]
        BY <3>1
      <4> QED BY <4>2, <4>3
    <3> QED BY <3>1
  <2>3. Same \subseteq Nat
    OBVIOUS
  <2> HIDE DEF Same
  <2> QED BY <2>1, <2>2, <2>3, NumberInduction
<1>8. \A n \in Nat : whole[n] = IF n = 0 THEN Roots ELSE Onward(whole[n - 1])
  <2> SUFFICES ASSUME NEW n \in Nat
               PROVE  whole[n] = IF n = 0 THEN Roots ELSE Onward(whole[n - 1])
    OBVIOUS
  <2>1. n \in 0..n /\ (n # 0 => n - 1 \in Nat)
    OBVIOUS
  <2>2. part[n][n] = IF n = 0 THEN Roots ELSE Onward(part[n][n - 1])
    BY <2>1, <1>6, <1>1
  <2>3. n # 0 => part[n][n - 1] = part[n - 1][n - 1]
    <3> SUFFICES ASSUME n # 0 PROVE part[n][n - 1] = part[n - 1][n - 1]
      OBVIOUS
    <3>1. n - 1 \in Same
      BY <1>7, <2>1
    <3> QED BY <3>1, <2>1
  <2> QED BY <2>1, <2>2, <2>3
<1> QED
  <2>1. whole = [n \in Nat |-> whole[n]]
    OBVIOUS
  <2> HIDE DEF whole
  <2>2. whole = [n \in Nat |-> IF n = 0 THEN Roots ELSE Onward(whole[n - 1])]
    BY <2>1, <1>8
  <2> QED BY <2>2 DEF Steps

LEMMA ReachBySteps == \E g : Steps(g) /\ Reach = g[Cardinality(Records)]
<1>1. PICK g : g = CHOOSE h : Steps(h)
  OBVIOUS
<1>2. Steps(g)
  BY <1>1, StepsExist
<1>3. Reach = g[Cardinality(Records)]
  BY <1>1 DEF Reach, Steps, Onward
<1> QED BY <1>2, <1>3

\* What is reached stays in a set that has the roots and is closed.
LEMMA ReachWithin ==
  ASSUME NEW G, Roots \subseteq G, \A p \in G : Targets(p[1], p[2]) \subseteq G
  PROVE  Reach \subseteq G
<1>1. PICK g : Steps(g) /\ Reach = g[Cardinality(Records)]
  BY ReachBySteps
<1> DEFINE Inside == {n \in Nat : g[n] \subseteq G}
<1>2. 0 \in Inside
  BY <1>1 DEF Steps
<1>3. ASSUME NEW n \in Inside PROVE n + 1 \in Inside
  <2>1. g[n + 1] = Onward(g[n])
    BY <1>1 DEF Steps
  <2>2. g[n] \subseteq G
    BY <1>3
  <2>3. Onward(g[n]) \subseteq G
    BY <2>2 DEF Onward
  <2> QED BY <2>1, <2>3
<1>4. Inside = Nat
  <2>1. Inside \subseteq Nat
    OBVIOUS
  <2> HIDE DEF Inside
  <2> QED BY <1>2, <1>3, <2>1, NumberInduction
<1>5. Cardinality(Records) \in Inside
  BY <1>4, AcyclicAssumption, FS_CardinalityType
<1> QED BY <1>1, <1>5

-----------------------------------------------------------------------------
(* Types.                                                                  *)

JobType == [root : SUBSET Records, stage : [Records -> Stages],
            sid : [Records -> Nat], found : [Records -> Nat],
            marked : SUBSET (Records \X Sid), todo : SUBSET Types]
RowType == [rec : Records, sid : Sid, main : BOOLEAN, refs : SUBSET (Records \X Sid)]
KidType == [rec : Records, sid : Sid, item : AllItems, by : Ops, ref : Nat]
EntryKey == [rec : Records, sid : Sid]

(* A reserved sid is one, the references of a staged record have sids, and  *)
(* so has the root when its dispatch row is due.                           *)
JobSound(o) ==
  /\ \A r \in Records :
       Staged(o, r) => job[o].sid[r] # 0 /\ \A q \in Refs[r] : job[o].found[q] # 0
  /\ pc[o] = "dispatching" => \A r \in job[o].root : job[o].found[r] # 0

RecordKidsRefer == \A k \in kids : k.item \in Records => k.ref # 0

TypeInv ==
  /\ TypeOK
  /\ IsFiniteSet(rows)
  /\ RecordKidsRefer
  /\ \A o \in Saves : JobSound(o)

LEMMA TypeInit == Init => TypeInv
<1> SUFFICES ASSUME Init PROVE TypeInv
  OBVIOUS
<1>1. Idle \in JobType
  BY DEF Idle, JobType, Stages
<1>2. job \in [Ops -> JobType]
  BY <1>1 DEF Init
<1>3. touched \in [Ops -> Seq(Tables)]
  BY DEF Init
<1>4. TypeOK
  BY <1>2, <1>3 DEF Init, TypeOK, JobType, Places, Tables
<1>5. IsFiniteSet(rows)
  BY FS_EmptySet DEF Init
<1>6. \A o \in Saves : JobSound(o)
  BY DEF Init, JobSound, Staged, Ops
<1> QED BY <1>4, <1>5, <1>6 DEF Init, TypeInv, RecordKidsRefer

\* The next sid is one.
LEMMA NextSidType ==
  ASSUME TypeInv, NEW y \in Types
  PROVE  NextSid(y) \in Sid
<1> DEFINE S == {0} \cup {x.sid : x \in RowsOf(y)}
<1>1. IsFiniteSet(RowsOf(y))
  BY FS_Subset DEF TypeInv, RowsOf
<1>2. IsFiniteSet({x.sid : x \in RowsOf(y)})
  <2> DEFINE f == [x \in RowsOf(y) |-> x.sid]
  <2>1. f \in Surjection(RowsOf(y), {x.sid : x \in RowsOf(y)})
    BY DEF Surjection
  <2> QED BY <1>1, <2>1, FS_Surjection
<1>3. IsFiniteSet(S)
  BY <1>2, FS_AddElement
<1>4. S \subseteq Nat
  BY DEF TypeInv, TypeOK, RowsOf, Sid
<1>5. Max(S) \in Nat
  <2> HIDE DEF S
  <2>1. S # {}
    BY DEF S
  <2> QED BY <1>3, <1>4, <2>1, GreatestNumber
<1>6. SidAboveRows(y) \in Sid
  BY <1>5 DEF SidAboveRows, Sid
<1>7. counter[y] \in Nat
  BY DEF TypeInv, TypeOK
<1> QED BY <1>6, <1>7 DEF NextSid, Sid

LEMMA JobSoundKept ==
  ASSUME NEW p \in Saves, JobSound(p), pc'[p] = pc[p], job'[p] = job[p]
  PROVE  JobSound(p)'
  BY DEF JobSound, Staged, Stage

\* A table is touched and swept within the types.
LEMMA TouchTyped ==
  ASSUME TypeInv, NEW o \in Ops, NEW t \in Tables, TouchDirty(o, t)
  PROVE  /\ touched' \in [Ops -> Seq(Tables)]
         /\ marker' \in [Tables -> Ops \cup {None}]
         /\ claims' \subseteq claims
         /\ kids' \subseteq kids
<1>1. touched \in [Ops -> Seq(Tables)] /\ marker \in [Tables -> Ops \cup {None}]
  BY DEF TypeInv, TypeOK
<1>2. touched' \in [Ops -> Seq(Tables)]
  <2>1. Append(touched[o], t) \in Seq(Tables)
    BY <1>1
  <2> QED BY <1>1, <2>1 DEF TouchDirty
<1> QED BY <1>1, <1>2 DEF TouchDirty

\* An operation begins.
LEMMA TypeBegins ==
  ASSUME TypeInv, NEW o \in Ops, NEW s \in Stores, NEW next \in {"saving", "repairing"},
         NEW start \in JobType, Begin(o, s, next, start),
         \A r \in Records : start.stage[r] \in {"none", "refs"}
  PROVE  TypeInv'
<1>1. /\ pc' = [pc EXCEPT ![o] = next] /\ at' = [at EXCEPT ![o] = s]
      /\ job' = [job EXCEPT ![o] = start]
      /\ lease' = s /\ holds' = holds \cup {s} /\ claims' \subseteq claims
      /\ UNCHANGED <<up, observed, touched, marker, counter, rows, kids, dispatch>>
  BY DEF Begin, LeaseEnsured, tables
<1>2. job \in [Ops -> JobType]
  BY DEF TypeInv, TypeOK, JobType
<1>3. job' \in [Ops -> JobType]
  BY <1>1, <1>2
<1>4. TypeOK'
  BY <1>1, <1>3 DEF TypeInv, TypeOK, JobType, Places
<1>5. ASSUME NEW p \in Saves PROVE JobSound(p)'
  <2>1. CASE p = o
    BY <2>1, <1>1, <1>2 DEF TypeInv, TypeOK, JobSound, Staged, Stage
  <2>2. CASE p # o
    BY <2>2, <1>1, JobSoundKept DEF TypeInv
  <2> QED BY <2>1, <2>2
<1> QED BY <1>1, <1>4, <1>5 DEF TypeInv, RecordKidsRefer

(* A step that changes neither the operations' variables nor anything but  *)
(* by what fits in the types.                                              *)
LEMMA TypeUntouched ==
  ASSUME TypeInv, UNCHANGED <<pc, at, job, counter>>,
         up' \subseteq up, observed' \in [Stores -> Stores \cup {None}],
         holds' \subseteq Stores, lease' \in Stores \cup {None},
         touched' \in [Ops -> Seq(Tables)], marker' \in [Tables -> Ops \cup {None}],
         rows' \subseteq rows, kids' \subseteq KidType, RecordKidsRefer',
         claims' \subseteq EntryKey, dispatch' \subseteq EntryKey
  PROVE  TypeInv'
<1>1. TypeOK'
  BY DEF TypeInv, TypeOK, KidType, EntryKey
<1>2. IsFiniteSet(rows')
  BY FS_Subset DEF TypeInv
<1>3. \A p \in Saves : JobSound(p)'
  BY JobSoundKept DEF TypeInv
<1> QED BY <1>1, <1>2, <1>3 DEF TypeInv

\* The steps of a save that has begun.
LEMMA TypeSave ==
  ASSUME TypeInv, NEW o \in Saves, NEW r \in Records, SaveRecord(o, r)
  PROVE  TypeInv'
<1> USE DegradedAssumption
<1>0. /\ o \in Ops /\ Saves \subseteq Ops
      /\ job \in [Ops -> JobType] /\ job[o] \in JobType
      /\ pc \in [Ops -> Places]
      /\ counter \in [Types -> Nat]
      /\ rows \subseteq RowType /\ kids \subseteq KidType
      /\ Type[r] \in Types
      /\ Refs[r] \subseteq Records
  BY DEF TypeInv, TypeOK, Ops, JobType, RowType, KidType
<1>a. ASSUME NEW p \in Saves, p # o, \A q \in Saves : q # o => pc'[q] = pc[q] /\ job'[q] = job[q]
      PROVE  JobSound(p)'
  BY <1>a, JobSoundKept DEF TypeInv
<1>1. ASSUME NEW q \in Records, Descend(o, r, q) PROVE TypeInv'
  <2>1. /\ UNCHANGED <<up, holds, observed, pc, at, touched, lease, marker, counter, rows, kids, claims, dispatch>>
        /\ \/ \E x \in Visible(q) : job' = [job EXCEPT ![o].found[q] = x.sid]
           \/ job' = [job EXCEPT ![o].stage[q] = "refs"]
    BY <1>1 DEF Descend, process, tables
  <2>2. \A x \in Visible(q) : x.sid \in Sid
    BY <1>0 DEF Visible, RowType
  <2>3. /\ job' \in [Ops -> JobType]
        /\ JobSound(o)'
        /\ \A p \in Saves : p # o => pc'[p] = pc[p] /\ job'[p] = job[p]
    <3>1. CASE job' = [job EXCEPT ![o].stage[q] = "refs"]
      BY <3>1, <1>0, <2>1 DEF TypeInv, JobSound, Staged, Stage, JobType, Stages
    <3>2. CASE \E x \in Visible(q) : job' = [job EXCEPT ![o].found[q] = x.sid]
      <4>1. PICK n \in Sid : job' = [job EXCEPT ![o].found[q] = n]
        BY <3>2, <2>2
      <4> QED BY <4>1, <1>0, <2>1 DEF TypeInv, JobSound, Staged, Stage, JobType, Sid
    <3> QED BY <3>1, <3>2, <2>1
  <2>4. TypeOK'
    BY <2>1, <2>3 DEF TypeInv, TypeOK, JobType
  <2> QED BY <2>1, <2>3, <2>4, <1>a DEF TypeInv, RecordKidsRefer
<1>2. ASSUME Promote(o, r) PROVE TypeInv'
  <2>1. PICK x \in Visible(r) :
          /\ rows' = (rows \ {x}) \cup {[x EXCEPT !.main = TRUE]}
          /\ job' = [job EXCEPT ![o].found[r] = x.sid, ![o].stage[r] = "none"]
    BY <1>2 DEF Promote
  <2>2. /\ UNCHANGED <<up, holds, observed, at, touched, lease, marker, counter, kids, claims, dispatch>>
        /\ pc' = [pc EXCEPT ![o] = "dispatching"]
        /\ job[o].root = {r}
    BY <1>2 DEF Promote, process
  <2>3. x \in RowType /\ x.sid \in Sid /\ [x EXCEPT !.main = TRUE] \in RowType
    BY <1>0 DEF Visible, RowType
  <2>4. job' \in [Ops -> JobType]
    BY <1>0, <2>1, <2>3 DEF JobType, Stages, Sid
  <2>5. rows' \subseteq RowType
    BY <1>0, <2>1, <2>3
  <2>6. TypeOK'
    BY <2>2, <2>4, <2>5 DEF TypeInv, TypeOK, JobType, RowType, Places
  <2>7. IsFiniteSet(rows')
    BY <2>1, FS_RemoveElement, FS_AddElement DEF TypeInv
  <2>8. JobSound(o)'
    BY <1>0, <2>1, <2>2, <2>3 DEF JobSound, Staged, JobType, Sid
  <2>9. \A p \in Saves : p # o => pc'[p] = pc[p] /\ job'[p] = job[p]
    BY <2>1, <2>2, <1>0
  <2> QED BY <2>2, <2>6, <2>7, <2>8, <2>9, <1>a DEF TypeInv, RecordKidsRefer
<1>3. ASSUME Reserve(o, r) PROVE TypeInv'
  <2>1. /\ UNCHANGED <<up, holds, observed, pc, at, lease, rows, dispatch>>
        /\ counter' = [counter EXCEPT ![Type[r]] = NextSid(Type[r]) + 1]
        /\ job' = [job EXCEPT ![o].sid[r] = NextSid(Type[r]), ![o].stage[r] = "kids"]
        /\ TouchDirty(o, <<Type[r], "parent">>)
        /\ \A q \in Refs[r] : job[o].found[q] # 0
    BY <1>3 DEF Reserve, process
  <2>2. NextSid(Type[r]) \in Sid
    BY <1>0, NextSidType
  <2>3. <<Type[r], "parent">> \in Tables
    BY <1>0 DEF Tables
  <2>4. /\ touched' \in [Ops -> Seq(Tables)]
        /\ marker' \in [Tables -> Ops \cup {None}]
        /\ claims' \subseteq claims
        /\ kids' \subseteq kids
    BY <1>0, <2>1, <2>3, TouchTyped
  <2>5. job' \in [Ops -> JobType]
    BY <1>0, <2>1, <2>2 DEF JobType, Stages, Sid
  <2>6. TypeOK'
    <3>1. counter' \in [Types -> Nat]
      BY <1>0, <2>1, <2>2 DEF Sid
    <3> QED BY <3>1, <2>1, <2>4, <2>5 DEF TypeInv, TypeOK, JobType
  <2>7. JobSound(o)'
    BY <1>0, <2>1, <2>2 DEF TypeInv, JobSound, Staged, Stage, JobType, Sid
  <2>8. \A p \in Saves : p # o => pc'[p] = pc[p] /\ job'[p] = job[p]
    BY <2>1, <1>0
  <2> QED BY <2>1, <2>4, <2>6, <2>7, <2>8, <1>a DEF TypeInv, RecordKidsRefer
<1>4. ASSUME TouchChildTable(o, r) PROVE TypeInv'
  <2>1. /\ UNCHANGED <<up, holds, observed, pc, at, job, lease, counter, rows, dispatch>>
        /\ TouchDirty(o, <<Type[r], "child">>)
    BY <1>4 DEF TouchChildTable, process, running
  <2>2. <<Type[r], "child">> \in Tables
    BY <1>0 DEF Tables
  <2>3. /\ touched' \in [Ops -> Seq(Tables)]
        /\ marker' \in [Tables -> Ops \cup {None}]
        /\ claims' \subseteq claims
        /\ kids' \subseteq kids
    BY <1>0, <2>1, <2>2, TouchTyped
  <2>4. RecordKidsRefer'
    BY <2>3 DEF TypeInv, RecordKidsRefer
  <2> QED BY <1>0, <2>1, <2>3, <2>4, TypeUntouched DEF TypeInv, TypeOK, EntryKey
<1>5. ASSUME WriteKid(o, r) PROVE TypeInv'
  <2>1. /\ UNCHANGED <<up, holds, observed, pc, at, job, touched, lease, marker, counter, rows, claims, dispatch>>
        /\ Staged(o, r)
        /\ \A i \in Items[r] \cap Records : job[o].found[i] # 0
    BY <1>5 DEF WriteKid, process, running, Encoded, Innermost, Staged
  <2>2. PICK i \in Items[r] \ Written(o, r) :
          kids' = kids \cup {[rec |-> r, sid |-> job[o].sid[r], item |-> i, by |-> o,
                              ref |-> IF i \in Records THEN job[o].found[i] ELSE 0]}
    BY <1>5 DEF WriteKid
  <2>3. job[o].sid[r] \in Sid
    BY <1>0, <2>1 DEF TypeInv, JobSound, JobType, Sid
  <2>4. (IF i \in Records THEN job[o].found[i] ELSE 0) \in Nat
    BY <1>0 DEF JobType
  <2>5. i \in AllItems
    BY DEF AllItems
  <2>6. kids' \subseteq KidType
    BY <1>0, <2>2, <2>3, <2>4, <2>5 DEF KidType
  <2>7. RecordKidsRefer'
    BY <2>1, <2>2 DEF TypeInv, RecordKidsRefer
  <2> QED BY <2>1, <2>6, <2>7, TypeUntouched DEF TypeInv, TypeOK, EntryKey
<1>6. ASSUME ClaimEntry(o, r) PROVE TypeInv'
  <2>1. /\ UNCHANGED <<up, holds, observed, pc, at, touched, lease, marker, counter, rows, kids, dispatch>>
        /\ claims' \subseteq claims \cup {[rec |-> r, sid |-> job[o].sid[r]]}
        /\ job' = [job EXCEPT ![o].stage[r] = "row"]
        /\ Staged(o, r)
    BY <1>6 DEF ClaimEntry, process, tables, Innermost, Staged
  <2>2. job[o].sid[r] \in Sid
    BY <1>0, <2>1 DEF TypeInv, JobSound, JobType, Sid
  <2>3. job' \in [Ops -> JobType]
    BY <1>0, <2>1 DEF JobType, Stages
  <2>4. claims' \subseteq EntryKey
    BY <2>1, <2>2 DEF TypeInv, TypeOK, EntryKey
  <2>5. TypeOK'
    BY <1>0, <2>1, <2>3, <2>4 DEF TypeInv, TypeOK, JobType, EntryKey
  <2>6. JobSound(o)'
    BY <1>0, <2>1 DEF TypeInv, JobSound, Staged, Stage, JobType
  <2>7. \A p \in Saves : p # o => pc'[p] = pc[p] /\ job'[p] = job[p]
    BY <2>1, <1>0
  <2> QED BY <2>1, <2>5, <2>6, <2>7, <1>a DEF TypeInv, RecordKidsRefer
<1>7. ASSUME WriteParent(o, r) PROVE TypeInv'
  <2> DEFINE new == [rec |-> r, sid |-> job[o].sid[r], main |-> IsRoot(o, r),
                     refs |-> {<<q, job[o].found[q]>> : q \in Refs[r]}]
  <2>1. /\ UNCHANGED <<up, holds, observed, at, touched, lease, marker, counter, kids, claims, dispatch>>
        /\ rows' = rows \cup {new}
        /\ job' = [job EXCEPT ![o].found[r] = job[o].sid[r], ![o].stage[r] = "none"]
        /\ pc' = [pc EXCEPT ![o] = IF IsRoot(o, r) THEN "dispatching" ELSE @]
        /\ Staged(o, r)
    BY <1>7 DEF WriteParent, process, Innermost, Staged
  <2>2. job[o].sid[r] \in Sid /\ \A q \in Refs[r] : job[o].found[q] \in Sid
    BY <1>0, <2>1 DEF TypeInv, JobSound, JobType, Sid
  <2>3. new \in RowType
    <3>1. {<<q, job[o].found[q]>> : q \in Refs[r]} \subseteq Records \X Sid
      BY <1>0, <2>2
    <3>2. IsRoot(o, r) \in BOOLEAN
      BY DEF IsRoot
    <3> QED BY <3>1, <3>2, <2>2 DEF RowType
  <2>4. job' \in [Ops -> JobType]
    BY <1>0, <2>1, <2>2 DEF JobType, Stages, Sid
  <2>5. rows' \subseteq RowType
    BY <1>0, <2>1, <2>3
  <2>6. pc' \in [Ops -> Places]
    BY <1>0, <2>1 DEF Places
  <2>7. TypeOK'
    BY <2>1, <2>4, <2>5, <2>6 DEF TypeInv, TypeOK, JobType, RowType
  <2>8. IsFiniteSet(rows')
    BY <2>1, FS_AddElement DEF TypeInv
  <2>9. JobSound(o)'
    BY <1>0, <2>1, <2>2 DEF TypeInv, JobSound, Staged, Stage, IsRoot, JobType, Sid
  <2>10. \A p \in Saves : p # o => pc'[p] = pc[p] /\ job'[p] = job[p]
    BY <2>1, <1>0
  <2> QED BY <2>1, <2>7, <2>8, <2>9, <2>10, <1>a DEF TypeInv, RecordKidsRefer
<1> QED BY <1>1, <1>2, <1>3, <1>4, <1>5, <1>6, <1>7 DEF SaveRecord

\* Pairs of records and sids reach such pairs.
LEMMA TargetsTyped ==
  ASSUME TypeInv, NEW p \in Records \X Sid
  PROVE  Targets(p[1], p[2]) \subseteq Records \X Sid
<1>1. /\ \A x \in rows : x.refs \subseteq Records \X Sid
      /\ kids \subseteq KidType /\ RecordKidsRefer
  BY DEF TypeInv, TypeOK, KidType
<1>2. \A k \in kids : k.item \in Records => <<k.item, k.ref>> \in Records \X Sid
  BY <1>1 DEF RecordKidsRefer, KidType, Sid
<1> DEFINE ofRow == UNION {x.refs : x \in {y \in Visible(p[1]) : y.sid = p[2]}}
           ofKids == {<<k.item, k.ref>> : k \in {j \in kids : j.rec = p[1] /\ j.sid = p[2] /\ j.item \in Records}}
<1>3. ofRow \subseteq Records \X Sid
  BY <1>1 DEF Visible
<1>4. ofKids \subseteq Records \X Sid
  BY <1>2
<1>5. Targets(p[1], p[2]) = ofRow \cup ofKids
  BY DEF Targets
<1> HIDE DEF ofRow, ofKids
<1> QED BY <1>3, <1>4, <1>5

LEMMA RootsTyped == TypeInv => Roots \subseteq Records \X Sid
  BY DEF TypeInv, TypeOK, Roots

LEMMA ReachTyped == TypeInv => Reach \subseteq Records \X Sid
  BY RootsTyped, TargetsTyped, ReachWithin

\* The steps of an fsck that has begun.
LEMMA TypeFsck ==
  ASSUME TypeInv, NEW f \in Fscks, Fsck(f)
  PROVE  TypeInv'
<1> USE DegradedAssumption
<1>0. /\ f \in Ops /\ Saves \subseteq Ops /\ f \notin Saves
      /\ job \in [Ops -> JobType] /\ job[f] \in JobType
      /\ pc \in [Ops -> Places]
      /\ rows \subseteq RowType /\ kids \subseteq KidType /\ dispatch \subseteq EntryKey
  BY DEF TypeInv, TypeOK, Ops, JobType, RowType, KidType, EntryKey
<1>a. ASSUME \A p \in Saves : pc'[p] = pc[p] /\ job'[p] = job[p]
      PROVE  \A p \in Saves : JobSound(p)'
  BY <1>a, JobSoundKept DEF TypeInv
<1>1. ASSUME RepairAndMark(f) PROVE TypeInv'
  <2>1. /\ UNCHANGED <<up, holds, observed, at, touched, lease, marker, counter, rows, kids, claims>>
        /\ job' = [job EXCEPT ![f].marked = Reach, ![f].todo = Types]
        /\ pc' = [pc EXCEPT ![f] = "collecting"]
    BY <1>1 DEF RepairAndMark, process, tables
  <2>2. job' \in [Ops -> JobType]
    BY <1>0, <2>1, ReachTyped DEF JobType
  <2>3. dispatch' \subseteq EntryKey
    BY <1>0, <1>1 DEF RepairAndMark, RowType, EntryKey
  <2>4. TypeOK'
    BY <2>1, <2>2, <2>3 DEF TypeInv, TypeOK, JobType, EntryKey, Places
  <2>5. \A p \in Saves : pc'[p] = pc[p] /\ job'[p] = job[p]
    BY <2>1, <1>0
  <2> QED BY <2>1, <2>4, <2>5, <1>a DEF TypeInv, RecordKidsRefer
<1>2. ASSUME NEW y \in Types, CollectType(f, y) PROVE TypeInv'
  <2>1. /\ UNCHANGED <<up, holds, observed, pc, at, lease, counter, dispatch>>
        /\ job' = [job EXCEPT ![f].todo = @ \ {y}]
        /\ rows' \subseteq rows
    BY <1>2 DEF CollectType, process
  <2>2. /\ touched' \in [Ops -> Seq(Tables)]
        /\ marker' \in [Tables -> Ops \cup {None}]
        /\ claims' \subseteq claims
        /\ kids' \subseteq kids
    <3>1. CASE y \in EntryTypes
      <4>1. <<y, "parent">> \in Tables
        BY DEF Tables
      <4> QED BY <1>0, <3>1, <4>1, <1>2, TouchTyped DEF CollectType
    <3>2. CASE y \notin EntryTypes
      BY <3>2, <1>2 DEF CollectType, TypeInv, TypeOK
    <3> QED BY <3>1, <3>2
  <2>3. job' \in [Ops -> JobType]
    BY <1>0, <2>1 DEF JobType
  <2>4. TypeOK'
    BY <2>1, <2>2, <2>3 DEF TypeInv, TypeOK, JobType
  <2>5. IsFiniteSet(rows')
    BY <2>1, FS_Subset DEF TypeInv
  <2>6. \A p \in Saves : pc'[p] = pc[p] /\ job'[p] = job[p]
    BY <2>1, <1>0
  <2> QED BY <2>2, <2>4, <2>5, <2>6, <1>a DEF TypeInv, RecordKidsRefer
<1>3. ASSUME SweepChildren(f) \/ SyncClaims(f) PROVE TypeInv'
  <2>1. /\ UNCHANGED <<up, holds, observed, at, job, touched, lease, marker, counter, rows, dispatch>>
        /\ pc' = [pc EXCEPT ![f] = "claiming"] \/ pc' = [pc EXCEPT ![f] = "swept"]
        /\ kids' \subseteq kids
    BY <1>3 DEF SweepChildren, SyncClaims, process, tables
  <2>2. claims' \subseteq EntryKey
    <3>1. CASE SweepChildren(f)
      BY <3>1 DEF SweepChildren, TypeInv, TypeOK, EntryKey
    <3>2. CASE SyncClaims(f)
      BY <3>2, <1>0 DEF SyncClaims, RowType, EntryKey
    <3> QED BY <1>3, <3>1, <3>2
  <2>3. pc' \in [Ops -> Places]
    BY <1>0, <2>1 DEF Places
  <2>4. TypeOK'
    BY <2>1, <2>2, <2>3 DEF TypeInv, TypeOK, EntryKey
  <2>5. \A p \in Saves : pc'[p] = pc[p] /\ job'[p] = job[p]
    BY <2>1, <1>0
  <2> QED BY <2>1, <2>4, <2>5, <1>a DEF TypeInv, RecordKidsRefer
<1> QED BY <1>1, <1>2, <1>3 DEF Fsck

\* The end of an operation, and the steps between operations.
LEMMA TypeRest ==
  ASSUME TypeInv,
         \/ \E o \in Saves : WriteDispatch(o) \/ SaveFails(o)
         \/ \E o \in Ops : End(o)
         \/ \E s \in Stores : Die(s)
  PROVE  TypeInv'
<1> USE DegradedAssumption
<1>0. /\ Saves \subseteq Ops
      /\ job \in [Ops -> JobType]
      /\ pc \in [Ops -> Places]
  BY DEF TypeInv, TypeOK, Ops, JobType
<1>a. ASSUME job' = job,
             \A p \in Saves : pc'[p] = pc[p] \/ pc'[p] \notin {"saving", "dispatching"}
      PROVE  \A p \in Saves : JobSound(p)'
  BY <1>a DEF TypeInv, JobSound, Staged, Stage
<1>1. ASSUME NEW o \in Saves, WriteDispatch(o) PROVE TypeInv'
  <2>1. /\ UNCHANGED <<up, holds, observed, at, job, touched, lease, marker, counter, rows, kids, claims>>
        /\ pc' = [pc EXCEPT ![o] = "saved"]
    BY <1>1 DEF WriteDispatch, process, tables
  <2>2. dispatch' \subseteq EntryKey
    <3>1. PICK r \in job[o].root :
            dispatch' = IF Type[r] \in EntryTypes /\ ~\E d \in dispatch : d.rec = r
                        THEN dispatch \cup {[rec |-> r, sid |-> job[o].found[r]]}
                        ELSE dispatch
      BY <1>1 DEF WriteDispatch
    <3>2. r \in Records /\ job[o].found[r] \in Sid
      BY <1>0, <1>1 DEF WriteDispatch, TypeInv, JobSound, JobType, Sid
    <3> QED BY <3>1, <3>2 DEF TypeInv, TypeOK, EntryKey
  <2>3. pc' \in [Ops -> Places]
    BY <1>0, <2>1 DEF Places
  <2>4. TypeOK'
    BY <2>1, <2>2, <2>3 DEF TypeInv, TypeOK, EntryKey
  <2> QED BY <2>1, <2>4, <1>0, <1>a DEF TypeInv, RecordKidsRefer
<1>2. ASSUME NEW o \in Saves, SaveFails(o) PROVE TypeInv'
  <2>1. /\ UNCHANGED <<up, holds, observed, at, job, touched, lease, marker, counter, rows, kids, claims, dispatch>>
        /\ pc' = [pc EXCEPT ![o] = "raising"]
    BY <1>2 DEF SaveFails, process, tables
  <2>2. TypeOK'
    BY <1>0, <2>1 DEF TypeInv, TypeOK, Places
  <2> QED BY <2>1, <2>2, <1>0, <1>a DEF TypeInv, RecordKidsRefer
<1>3. ASSUME NEW o \in Ops, NEW t \in Tables, ClearMarker(o, t) PROVE TypeInv'
  <2>1. /\ UNCHANGED <<up, holds, observed, pc, at, job, lease, counter, rows, kids, dispatch>>
        /\ touched[o] # <<>>
        /\ claims' \subseteq claims
        /\ marker' = [marker EXCEPT ![t] = IF @ = o THEN None ELSE @]
        /\ touched' = [touched EXCEPT ![o] = Tail(@)]
    BY <1>3 DEF ClearMarker, process, running, tables
  <2>2. touched' \in [Ops -> Seq(Tables)] /\ marker' \in [Tables -> Ops \cup {None}]
    <3>1. Tail(touched[o]) \in Seq(Tables)
      BY <2>1 DEF TypeInv, TypeOK
    <3> QED BY <2>1, <3>1 DEF TypeInv, TypeOK
  <2> QED BY <2>1, <2>2, TypeUntouched DEF TypeInv, TypeOK, EntryKey, KidType, RecordKidsRefer
<1>4. ASSUME NEW o \in Ops, EndOperation(o) PROVE TypeInv'
  <2>1. /\ UNCHANGED <<up, holds, observed, job, touched, lease, marker, counter, rows, kids, claims, dispatch>>
        /\ pc' = [pc EXCEPT ![o] = IF @ = "raising" THEN "failed" ELSE "returned"]
        /\ at' = [at EXCEPT ![o] = None]
    BY <1>4 DEF EndOperation, process, tables
  <2>2. TypeOK'
    BY <1>0, <2>1 DEF TypeInv, TypeOK, Places
  <2> QED BY <2>1, <2>2, <1>0, <1>a DEF TypeInv, RecordKidsRefer
<1>5. ASSUME NEW s \in Stores, Die(s) PROVE TypeInv'
  <2>1. /\ UNCHANGED <<observed, lease, marker, counter, rows, kids, claims, dispatch>>
        /\ up' \subseteq up /\ holds' \subseteq holds
        /\ pc' = [o \in Ops |-> IF at[o] # s THEN pc[o]
                                ELSE IF pc[o] = "raising" THEN "failed" ELSE "dead"]
        /\ job' = [o \in Ops |-> IF at[o] = s THEN Idle ELSE job[o]]
        /\ touched' = [o \in Ops |-> IF at[o] = s THEN <<>> ELSE touched[o]]
        /\ at' = [o \in Ops |-> IF at[o] = s THEN None ELSE at[o]]
    BY <1>5 DEF Die, tables
  <2>2. Idle \in JobType
    BY DEF Idle, JobType, Stages
  <2>3. job' \in [Ops -> JobType]
    BY <1>0, <2>1, <2>2
  <2>4. touched' \in [Ops -> Seq(Tables)]
    BY <2>1 DEF TypeInv, TypeOK
  <2>5. TypeOK'
    BY <1>0, <2>1, <2>3, <2>4 DEF TypeInv, TypeOK, JobType, Places
  <2>6. ASSUME NEW p \in Saves PROVE JobSound(p)'
    <3>1. CASE at[p] = s
      BY <1>0, <2>1, <3>1 DEF JobSound, Staged
    <3>2. CASE at[p] # s
      BY <1>0, <2>1, <3>2, JobSoundKept DEF TypeInv
    <3> QED BY <3>1, <3>2
  <2> QED BY <2>1, <2>5, <2>6 DEF TypeInv, RecordKidsRefer
<1> QED BY <1>1, <1>2, <1>3, <1>4, <1>5 DEF End

LEMMA TypeQuiet ==
  ASSUME TypeInv,
         \/ UNCHANGED vars
         \/ \E o \in Ops, s \in Stores : Refused(o, s)
         \/ \E s \in Stores : ReadForSteal(s) \/ Steal(s) \/ StealFree(s) \/ Dispose(s)
  PROVE  TypeInv'
<1>1. up' \subseteq up /\ holds' \subseteq Stores
      /\ observed' \in [Stores -> Stores \cup {None}] /\ lease' \in Stores \cup {None}
  <2>1. /\ up \subseteq Stores /\ holds \subseteq Stores
        /\ observed \in [Stores -> Stores \cup {None}] /\ lease \in Stores \cup {None}
    BY DEF TypeInv, TypeOK
  <2>2. CASE UNCHANGED vars
    BY <2>1, <2>2 DEF vars, process
  <2>3. ASSUME NEW o \in Ops, NEW s \in Stores, Refused(o, s)
        PROVE  UNCHANGED <<up, holds, observed, lease>>
    BY <2>3 DEF Refused, process
  <2>4. ASSUME NEW s \in Stores, ReadForSteal(s) PROVE <1>1
    BY <2>1, <2>4 DEF ReadForSteal
  <2>5. ASSUME NEW s \in Stores, Steal(s) PROVE <1>1
    BY <2>1, <2>5 DEF Steal
  <2>6. ASSUME NEW s \in Stores, StealFree(s) PROVE <1>1
    BY <2>1, <2>6 DEF StealFree, LeaseEnsured
  <2>7. ASSUME NEW s \in Stores, Dispose(s) PROVE <1>1
    BY <2>1, <2>7 DEF Dispose, DisposedLease
  <2> QED BY <2>1, <2>2, <2>3, <2>4, <2>5, <2>6, <2>7
<1>2. Quiet
  BY QuietSteps
<1>3. CASE pc' = pc
  BY <1>1, <1>2, <1>3, TypeUntouched
     DEF Quiet, tables, TypeInv, TypeOK, KidType, EntryKey, RecordKidsRefer
<1>4. ASSUME NEW o \in Ops, pc[o] = "new", pc' = [pc EXCEPT ![o] = "failed"] PROVE TypeInv'
  <2>1. TypeOK'
    BY <1>1, <1>2, <1>4 DEF Quiet, tables, TypeInv, TypeOK, Places
  <2>2. ASSUME NEW p \in Saves PROVE JobSound(p)'
    BY <1>2, <1>4 DEF Quiet, TypeInv, TypeOK, JobSound, Staged, Stage, Ops
  <2> QED BY <1>2, <2>1, <2>2 DEF Quiet, tables, TypeInv, RecordKidsRefer
<1> QED BY <1>2, <1>3, <1>4 DEF Quiet

LEMMA TypeStep == TypeInv /\ [Next]_vars => TypeInv'
<1> SUFFICES ASSUME TypeInv, [Next]_vars PROVE TypeInv'
  OBVIOUS
<1>1. ASSUME NEW o \in Saves, NEW s \in Stores, NEW r \in Records, StartSave(o, s, r)
      PROVE  TypeInv'
  <2> DEFINE start == [Idle EXCEPT !.root = {r}, !.stage[r] = "refs"]
  <2>1. start \in JobType /\ \A q \in Records : start.stage[q] \in {"none", "refs"}
    BY DEF Idle, JobType, Stages
  <2>2. Begin(o, s, "saving", start)
    BY <1>1 DEF StartSave
  <2> HIDE DEF start
  <2> QED BY <2>1, <2>2, TypeBegins DEF Ops
<1>2. ASSUME NEW f \in Fscks, NEW s \in Stores, StartFsck(f, s)
      PROVE  TypeInv'
  <2>1. Idle \in JobType /\ \A q \in Records : Idle.stage[q] \in {"none", "refs"}
    BY DEF Idle, JobType, Stages
  <2> QED BY <1>2, <2>1, TypeBegins DEF StartFsck, Ops
<1>3. ASSUME NEW o \in Saves, NEW r \in Records, SaveRecord(o, r)
      PROVE  TypeInv'
  BY <1>3, TypeSave
<1>4. ASSUME NEW f \in Fscks, Fsck(f)
      PROVE  TypeInv'
  BY <1>4, TypeFsck
<1> QED BY <1>1, <1>2, <1>3, <1>4, TypeRest, TypeQuiet DEF Next

(* The variables keep their types: among them that sids are never zero,    *)
(* that what fsck marks are rows by their sid, and that a record has       *)
(* its references' sids before its own row refers to them.                 *)
THEOREM TablesTyped == Spec => []TypeOK
<1>1. TypeInv => TypeOK
  BY DEF TypeInv
<1> QED BY <1>1, TypeInit, TypeStep, PTL DEF Spec
-----------------------------------------------------------------------------
(* Operations at work.                                                     *)

PlacesOf(o) == IF o \in Saves THEN SavePlaces ELSE FsckPlaces

\* An operation has a store while it is under way, and marks only then.
Placed(o) ==
  /\ at[o] # None <=> pc[o] \in PlacesOf(o)
  /\ pc[o] \in SavePlaces \cup FsckPlaces => pc[o] \in PlacesOf(o)
  /\ touched[o] # <<>> => at[o] # None

OneAtWork == \A p, q \in Ops : at[p] # None /\ at[q] # None => p = q

WorkInv == (\A o \in Ops : Placed(o)) /\ OneAtWork

LEMMA WorkInit == Init => WorkInv
  BY DEF Init, WorkInv, Placed, OneAtWork, PlacesOf, SavePlaces, FsckPlaces

\* No operation is at work when one begins: its store would hold the lease.
LEMMA NobodyAtWork ==
  ASSUME TypeInv, WriterInv, NEW s \in Stores, ~Busy(s), LeaseEnsured(s)
  PROVE  \A p \in Ops : at[p] = None
<1> SUFFICES ASSUME NEW p \in Ops, at[p] # None PROVE FALSE
  OBVIOUS
<1>1. at[p] \in Stores /\ Working(at[p])
  BY DEF TypeInv, TypeOK, Working
<1>2. lease = at[p]
  BY <1>1 DEF WriterInv, OneWriter
<1>3. at[p] = s
  BY <1>1, <1>2, DegradedAssumption DEF LeaseEnsured
<1> QED BY <1>1, <1>3 DEF Busy

LEMMA WorkBegins ==
  ASSUME TypeInv, WriterInv, WorkInv, NEW o \in Ops, NEW s \in Stores,
         NEW next \in PlacesOf(o), NEW start, Begin(o, s, next, start)
  PROVE  WorkInv'
<1> USE DegradedAssumption
<1>1. /\ pc' = [pc EXCEPT ![o] = next] /\ at' = [at EXCEPT ![o] = s]
      /\ touched' = touched
      /\ \A p \in Ops : at[p] = None
  BY NobodyAtWork DEF Begin
<1>2. pc \in [Ops -> Places] /\ at \in [Ops -> Stores \cup {None}]
  BY DEF TypeInv, TypeOK
<1>3. ASSUME NEW p \in Ops PROVE Placed(p)'
  <2>1. CASE p = o
    BY <1>1, <1>2, <2>1 DEF Placed, PlacesOf
  <2>2. CASE p # o
    BY <1>1, <1>2, <2>2 DEF WorkInv, Placed
  <2> QED BY <2>1, <2>2
<1>4. OneAtWork'
  BY <1>1, <1>2 DEF OneAtWork
<1> QED BY <1>3, <1>4 DEF WorkInv

\* A step of the operation at work.
LEMMA WorkGoesOn ==
  ASSUME WorkInv, NEW o \in Ops, pc[o] \in PlacesOf(o), at' = at,
         pc'[o] \in PlacesOf(o),
         \A p \in Ops \ {o} : pc'[p] = pc[p] /\ touched'[p] = touched[p]
  PROVE  WorkInv'
<1>1. ASSUME NEW p \in Ops PROVE Placed(p)'
  <2>1. CASE p = o
    BY <2>1 DEF WorkInv, Placed
  <2>2. CASE p # o
    BY <2>2 DEF WorkInv, Placed
  <2> QED BY <2>1, <2>2
<1> QED BY <1>1 DEF WorkInv, OneAtWork

\* Who takes which step of a save.
LEMMA SaverIs ==
  ASSUME TypeInv, NEW o \in Saves, NEW r \in Records, SaveRecord(o, r)
  PROVE  /\ pc[o] = "saving"
         /\ at' = at
         /\ pc'[o] \in {"saving", "dispatching"}
         /\ \A p \in Ops \ {o} : /\ pc'[p] = pc[p]
                                 /\ job'[p] = job[p]
                                 /\ touched'[p] = touched[p]
<1>1. /\ o \in Ops
      /\ pc \in [Ops -> Places] /\ DOMAIN job = Ops /\ DOMAIN touched = Ops
  BY DEF TypeInv, TypeOK, Ops
<1>2. CASE \E q \in Records : Descend(o, r, q)
  BY <1>1, <1>2 DEF Descend, Innermost
<1>3. CASE Promote(o, r)
  BY <1>1, <1>3 DEF Promote, Innermost
<1>4. CASE Reserve(o, r)
  BY <1>1, <1>4 DEF Reserve, Innermost, TouchDirty
<1>5. CASE TouchChildTable(o, r)
  BY <1>1, <1>5 DEF TouchChildTable, Innermost, TouchDirty, running
<1>6. CASE WriteKid(o, r)
  BY <1>1, <1>6 DEF WriteKid, Innermost, running
<1>7. CASE ClaimEntry(o, r)
  BY <1>1, <1>7 DEF ClaimEntry, Innermost
<1>8. CASE WriteParent(o, r)
  BY <1>1, <1>8 DEF WriteParent, Innermost
<1> QED BY <1>2, <1>3, <1>4, <1>5, <1>6, <1>7, <1>8 DEF SaveRecord

\* And which step of an fsck.
LEMMA FsckIs ==
  ASSUME TypeInv, NEW f \in Fscks, Fsck(f)
  PROVE  /\ pc[f] \in FsckPlaces
         /\ pc'[f] \in FsckPlaces
         /\ at' = at
         /\ \A p \in Ops \ {f} : /\ pc'[p] = pc[p]
                                 /\ job'[p] = job[p]
                                 /\ touched'[p] = touched[p]
<1> USE DEF FsckPlaces
<1>1. /\ f \in Ops
      /\ pc \in [Ops -> Places] /\ DOMAIN job = Ops /\ DOMAIN touched = Ops
  BY DEF TypeInv, TypeOK, Ops
<1>2. CASE RepairAndMark(f)
  BY <1>1, <1>2 DEF RepairAndMark
<1>3. CASE SweepChildren(f)
  BY <1>1, <1>3 DEF SweepChildren
<1>4. CASE SyncClaims(f)
  BY <1>1, <1>4 DEF SyncClaims
<1>5. ASSUME NEW y \in Types, CollectType(f, y)
      PROVE  /\ pc[f] = "collecting" /\ pc' = pc /\ at' = at
             /\ \A p \in Ops \ {f} : job'[p] = job[p] /\ touched'[p] = touched[p]
  <2>1. CASE y \in EntryTypes
    BY <1>1, <1>5, <2>1 DEF CollectType, TouchDirty
  <2>2. CASE y \notin EntryTypes
    BY <1>1, <1>5, <2>2 DEF CollectType
  <2> QED BY <2>1, <2>2
<1> QED BY <1>1, <1>2, <1>3, <1>4, <1>5 DEF Fsck

LEMMA WorkStep == TypeInv /\ WriterInv /\ WorkInv /\ [Next]_vars => WorkInv'
<1> SUFFICES ASSUME TypeInv, WriterInv, WorkInv, [Next]_vars PROVE WorkInv'
  OBVIOUS
<1> USE DegradedAssumption
<1>0. /\ Saves \subseteq Ops /\ Fscks \subseteq Ops /\ \A f \in Fscks : f \notin Saves
      /\ pc \in [Ops -> Places] /\ at \in [Ops -> Stores \cup {None}]
      /\ DOMAIN touched = Ops
      /\ \A o \in Ops : o \in Saves \/ o \in Fscks
  BY DEF Ops, TypeInv, TypeOK
<1>1. ASSUME NEW o \in Saves, NEW s \in Stores, NEW r \in Records, StartSave(o, s, r)
      PROVE  WorkInv'
  BY <1>0, <1>1, WorkBegins DEF StartSave, PlacesOf, SavePlaces
<1>2. ASSUME NEW f \in Fscks, NEW s \in Stores, StartFsck(f, s)
      PROVE  WorkInv'
  BY <1>0, <1>2, WorkBegins DEF StartFsck, PlacesOf, FsckPlaces
<1>3. ASSUME NEW o \in Saves, NEW r \in Records, SaveRecord(o, r)
      PROVE  WorkInv'
  BY <1>0, <1>3, SaverIs, WorkGoesOn DEF PlacesOf, SavePlaces
<1>4. ASSUME NEW o \in Saves, WriteDispatch(o) \/ SaveFails(o)
      PROVE  WorkInv'
  <2>1. /\ pc[o] \in PlacesOf(o) /\ pc'[o] \in PlacesOf(o) /\ UNCHANGED <<at, touched>>
        /\ \A p \in Ops \ {o} : pc'[p] = pc[p]
    <3>1. CASE WriteDispatch(o)
      BY <1>0, <3>1 DEF WriteDispatch, PlacesOf, SavePlaces
    <3>2. CASE SaveFails(o)
      BY <1>0, <3>2 DEF SaveFails, PlacesOf, SavePlaces
    <3> QED BY <1>4, <3>1, <3>2
  <2> QED BY <1>0, <2>1, WorkGoesOn
<1>5. ASSUME NEW f \in Fscks, Fsck(f)
      PROVE  WorkInv'
  BY <1>0, <1>5, FsckIs, WorkGoesOn DEF PlacesOf
<1>6. ASSUME NEW o \in Ops, End(o)
      PROVE  WorkInv'
  <2>1. pc[o] \in PlacesOf(o)
    BY <1>6 DEF End, EndOperation, ClearMarker, Ending, WorkInv, Placed, SavePlaces, FsckPlaces
  <2>2. CASE EndOperation(o)
    <3>1. /\ pc' = [pc EXCEPT ![o] = IF @ = "raising" THEN "failed" ELSE "returned"]
          /\ at' = [at EXCEPT ![o] = None]
          /\ touched' = touched /\ touched[o] = <<>>
      BY <2>2 DEF EndOperation
    <3>2. ASSUME NEW p \in Ops PROVE Placed(p)'
      <4>1. CASE p = o
        BY <1>0, <3>1, <4>1 DEF Placed, PlacesOf, SavePlaces, FsckPlaces
      <4>2. CASE p # o
        BY <1>0, <3>1, <4>2 DEF WorkInv, Placed
      <4> QED BY <4>1, <4>2
    <3> QED BY <1>0, <3>1, <3>2 DEF WorkInv, OneAtWork
  <2>3. ASSUME NEW t \in Tables, ClearMarker(o, t) PROVE WorkInv'
    BY <1>0, <2>1, <2>3, WorkGoesOn DEF ClearMarker, running
  <2> QED BY <1>6, <2>2, <2>3 DEF End
<1>7. ASSUME NEW s \in Stores, Die(s)
      PROVE  WorkInv'
  <2>1. /\ pc' = [o \in Ops |-> IF at[o] # s THEN pc[o]
                                ELSE IF pc[o] = "raising" THEN "failed" ELSE "dead"]
        /\ touched' = [o \in Ops |-> IF at[o] = s THEN <<>> ELSE touched[o]]
        /\ at' = [o \in Ops |-> IF at[o] = s THEN None ELSE at[o]]
    BY <1>7 DEF Die
  <2>2. ASSUME NEW p \in Ops PROVE Placed(p)'
    <3>1. CASE at[p] = s
      BY <1>0, <2>1, <3>1 DEF Placed, PlacesOf, SavePlaces, FsckPlaces
    <3>2. CASE at[p] # s
      BY <1>0, <2>1, <3>2 DEF WorkInv, Placed
    <3> QED BY <3>1, <3>2
  <2> QED BY <1>0, <2>1, <2>2 DEF WorkInv, OneAtWork
<1>8. CASE Quiet
  <2>1. CASE pc' = pc
    BY <1>8, <2>1 DEF Quiet, WorkInv, Placed, OneAtWork
  <2>2. ASSUME NEW o \in Ops, pc[o] = "new", pc' = [pc EXCEPT ![o] = "failed"] PROVE WorkInv'
    <3>1. ASSUME NEW p \in Ops PROVE Placed(p)'
      <4>1. CASE p = o
        BY <1>0, <1>8, <2>2, <4>1 DEF Quiet, WorkInv, Placed, PlacesOf, SavePlaces, FsckPlaces
      <4>2. CASE p # o
        BY <1>0, <1>8, <2>2, <4>2 DEF Quiet, WorkInv, Placed
      <4> QED BY <4>1, <4>2
    <3> QED BY <1>8, <3>1 DEF Quiet, WorkInv, OneAtWork
  <2> QED BY <1>8, <2>1, <2>2 DEF Quiet
<1> QED BY <1>1, <1>2, <1>3, <1>4, <1>5, <1>6, <1>7, <1>8, QuietSteps DEF Next
-----------------------------------------------------------------------------
(* What a step does to a save under way.                                   *)

\* Only the save itself changes its call stack, and only Reserve stages a record.
LEMMA StagedBefore ==
  ASSUME TypeInv, NEW o \in Saves, NEW r \in Records, SaveRecord(o, r),
         NEW q \in Records, Staged(o, q)'
  PROVE  \/ Reserve(o, r) /\ q = r
         \/ /\ Staged(o, q) /\ job'[o].sid[q] = job[o].sid[q]
            /\ job'[o].stage[q] = job[o].stage[q] \/ (ClaimEntry(o, r) /\ q = r)
<1>1. o \in Ops /\ pc \in [Ops -> Places] /\ job \in [Ops -> JobType] /\ job[o] \in JobType
  BY DEF TypeInv, TypeOK, Ops, JobType
<1> USE DEF Staged, Stage
<1>2. ASSUME NEW u \in Records, Descend(o, r, u)
      PROVE  Staged(o, q) /\ job'[o].sid[q] = job[o].sid[q] /\ job'[o].stage[q] = job[o].stage[q]
  <2>1. pc[o] = "saving"
    BY <1>2 DEF Descend, Innermost
  <2>2. CASE job' = [job EXCEPT ![o].stage[u] = "refs"]
    BY <1>1, <2>1, <2>2 DEF JobType
  <2>3. CASE \E x \in Visible(u) : job' = [job EXCEPT ![o].found[u] = x.sid]
    BY <1>1, <2>1, <2>3 DEF JobType
  <2> QED BY <1>2, <2>2, <2>3 DEF Descend
<1>3. CASE Promote(o, r)
  BY <1>1, <1>3 DEF Promote
<1>4. CASE Reserve(o, r)
  <2>1. /\ job' = [job EXCEPT ![o].sid[r] = NextSid(Type[r]), ![o].stage[r] = "kids"]
        /\ pc[o] = "saving"
    BY <1>4 DEF Reserve, Innermost
  <2>2. /\ job'[o].stage = [job[o].stage EXCEPT ![r] = "kids"]
        /\ job'[o].sid = [job[o].sid EXCEPT ![r] = NextSid(Type[r])]
    BY <1>1, <2>1 DEF JobType
  <2>3. CASE q # r
    <3>1. job'[o].stage[q] = job[o].stage[q] /\ job'[o].sid[q] = job[o].sid[q]
      BY <1>1, <2>2, <2>3 DEF JobType
    <3>2. job[o].stage[q] \in {"kids", "row"}
      BY <3>1
    <3> QED BY <2>1, <3>1, <3>2
  <2> QED BY <1>4, <2>3
<1>5. CASE TouchChildTable(o, r) \/ WriteKid(o, r)
  <2>1. UNCHANGED <<pc, job>>
    <3>1. CASE TouchChildTable(o, r)
      BY <3>1 DEF TouchChildTable, running
    <3>2. CASE WriteKid(o, r)
      BY <3>2 DEF WriteKid, running
    <3> QED BY <1>5, <3>1, <3>2
  <2> QED BY <2>1
<1>6. CASE ClaimEntry(o, r)
  <2>1. /\ job' = [job EXCEPT ![o].stage[r] = "row"]
        /\ pc[o] = "saving" /\ job[o].stage[r] = "kids"
    BY <1>6 DEF ClaimEntry, Innermost
  <2>2. /\ job'[o].stage = [job[o].stage EXCEPT ![r] = "row"]
        /\ job'[o].sid = job[o].sid
    BY <1>1, <2>1 DEF JobType
  <2> QED BY <1>1, <1>6, <2>1, <2>2 DEF JobType
<1>7. CASE WriteParent(o, r)
  <2>1. /\ job' = [job EXCEPT ![o].found[r] = job[o].sid[r], ![o].stage[r] = "none"]
        /\ pc[o] = "saving"
    BY <1>7 DEF WriteParent, Innermost
  <2>2. /\ job'[o].stage = [job[o].stage EXCEPT ![r] = "none"]
        /\ job'[o].sid = job[o].sid
    BY <1>1, <2>1 DEF JobType
  <2> QED BY <1>1, <2>1, <2>2 DEF JobType
<1> QED BY <1>2, <1>3, <1>4, <1>5, <1>6, <1>7 DEF SaveRecord

\* While an operation is at work, steps are its own, or quiet, or its end.
LEMMA StepsAreIts ==
  ASSUME TypeInv, WriterInv, WorkInv, [Next]_vars, NEW p \in Ops, at[p] # None
  PROVE  \/ Quiet
         \/ p \in Saves /\ \E r \in Records : SaveRecord(p, r)
         \/ p \in Saves /\ (WriteDispatch(p) \/ SaveFails(p))
         \/ p \in Fscks /\ Fsck(p)
         \/ End(p)
         \/ at[p] \in Stores /\ Die(at[p])
<1> DEFINE Goal == \/ Quiet
                   \/ p \in Saves /\ \E r \in Records : SaveRecord(p, r)
                   \/ p \in Saves /\ (WriteDispatch(p) \/ SaveFails(p))
                   \/ p \in Fscks /\ Fsck(p)
                   \/ End(p)
                   \/ at[p] \in Stores /\ Die(at[p])
<1> USE DegradedAssumption
<1>0. Saves \subseteq Ops /\ Fscks \subseteq Ops /\ \A f \in Fscks : f \notin Saves
  BY DEF Ops
<1>1. ASSUME NEW o \in Ops, pc[o] \in PlacesOf(o) PROVE o = p
  BY <1>1 DEF WorkInv, Placed, OneAtWork
<1>2. ASSUME NEW o \in Ops, NEW s \in Stores, NEW next, NEW start, Begin(o, s, next, start)
      PROVE  FALSE
  BY <1>2, NobodyAtWork DEF Begin
<1>3. ASSUME NEW o \in Saves, NEW s \in Stores, NEW r \in Records, StartSave(o, s, r) PROVE Goal
  BY <1>0, <1>2, <1>3 DEF StartSave
<1>4. ASSUME NEW f \in Fscks, NEW s \in Stores, StartFsck(f, s) PROVE Goal
  BY <1>0, <1>2, <1>4 DEF StartFsck
<1>5. ASSUME NEW o \in Saves, NEW r \in Records, SaveRecord(o, r) PROVE Goal
  <2>1. o = p
    BY <1>0, <1>1, <1>5, SaverIs DEF PlacesOf, SavePlaces
  <2> QED BY <2>1, <1>5
<1>6. ASSUME NEW o \in Saves, WriteDispatch(o) \/ SaveFails(o) PROVE Goal
  <2>1. o = p
    <3>1. pc[o] \in SavePlaces
      BY <1>6 DEF WriteDispatch, SaveFails, SavePlaces
    <3> QED BY <1>0, <1>1, <3>1 DEF PlacesOf
  <2> QED BY <2>1, <1>6
<1>7. ASSUME NEW f \in Fscks, Fsck(f) PROVE Goal
  <2>1. f = p
    BY <1>0, <1>1, <1>7, FsckIs DEF PlacesOf
  <2> QED BY <2>1, <1>7
<1>8. ASSUME NEW o \in Ops, End(o) PROVE Goal
  <2>1. Ending(o)
    BY <1>8 DEF End, EndOperation, ClearMarker
  <2>2. o = p
    BY <1>1, <2>1 DEF Ending, WorkInv, Placed, SavePlaces, FsckPlaces
  <2> QED BY <2>2, <1>8
<1>9. ASSUME NEW s \in Stores, Die(s) PROVE Goal
  <2>1. s = at[p]
    BY <1>9 DEF Die, Working, WorkInv, OneAtWork
  <2> QED BY <2>1, <1>9
<1>10. ASSUME Quiet PROVE Goal
  BY <1>10
<1> HIDE DEF Goal
<1>11. ASSUME UNCHANGED vars PROVE Goal
  BY <1>10, <1>11, QuietSteps
<1>12. ASSUME NEW o \in Ops, NEW s \in Stores, Refused(o, s) PROVE Goal
  <2>1. Quiet
    BY <1>12, QuietSteps
  <2> QED BY <2>1, <1>10
<1>13. ASSUME NEW s \in Stores, ReadForSteal(s) \/ Steal(s) \/ StealFree(s) \/ Dispose(s)
       PROVE  Goal
  <2>1. Quiet
    BY <1>13, QuietSteps
  <2> QED BY <2>1, <1>10
<1>14. Goal
  BY <1>3, <1>4, <1>5, <1>6, <1>7, <1>8, <1>9, <1>11, <1>12, <1>13 DEF Next
<1> QED BY <1>14 DEF Goal

\* The steps after which a save is in the middle of its records.
LEMMA SavingBefore ==
  ASSUME TypeInv, WriterInv, WorkInv, [Next]_vars, NEW p \in Saves, pc'[p] = "saving"
  PROVE  \/ \E s \in Stores, r \in Records : StartSave(p, s, r)
         \/ pc[p] = "saving" /\ \E r \in Records : SaveRecord(p, r)
         \/ pc[p] = "saving" /\ Quiet
<1> USE DegradedAssumption
<1>0. /\ p \in Ops /\ p \notin Fscks
      /\ pc \in [Ops -> Places] /\ at \in [Ops -> Stores \cup {None}]
  BY DEF Ops, TypeInv, TypeOK
<1>1. CASE at[p] # None
  <2>1. CASE Quiet
    <3>1. pc[p] = "saving"
      BY <1>0, <2>1 DEF Quiet
    <3> QED BY <2>1, <3>1
  <2>2. CASE \E r \in Records : SaveRecord(p, r)
    BY <2>2, SaverIs
  <2>3. ASSUME WriteDispatch(p) \/ SaveFails(p) PROVE FALSE
    BY <1>0, <2>3 DEF WriteDispatch, SaveFails
  <2>4. ASSUME End(p) PROVE FALSE
    BY <1>0, <2>4 DEF End, EndOperation, ClearMarker, running, Ending
  <2>5. ASSUME at[p] \in Stores, Die(at[p]) PROVE FALSE
    BY <1>0, <2>5 DEF Die
  <2> QED BY <1>0, <1>1, <2>1, <2>2, <2>3, <2>4, <2>5, StepsAreIts
<1>2. CASE at[p] = None
  <2>1. pc[p] # "saving"
    BY <1>0, <1>2 DEF WorkInv, Placed, PlacesOf, SavePlaces
  <2>2. ASSUME NEW o \in Saves, NEW s \in Stores, NEW r \in Records, StartSave(o, s, r)
        PROVE  o = p
    BY <1>0, <2>1, <2>2 DEF StartSave, Begin
  <2>3. ASSUME NEW f \in Fscks, NEW s \in Stores, StartFsck(f, s) PROVE FALSE
    BY <1>0, <2>1, <2>3 DEF StartFsck, Begin
  <2>4. ASSUME NEW o \in Saves, NEW r \in Records, SaveRecord(o, r) PROVE FALSE
    BY <1>0, <2>1, <2>4, SaverIs
  <2>5. ASSUME NEW o \in Saves, WriteDispatch(o) \/ SaveFails(o) PROVE FALSE
    BY <1>0, <2>1, <2>5 DEF WriteDispatch, SaveFails
  <2>6. ASSUME NEW f \in Fscks, Fsck(f) PROVE FALSE
    BY <1>0, <2>1, <2>6, FsckIs DEF FsckPlaces
  <2>7. ASSUME NEW o \in Ops, End(o) PROVE FALSE
    BY <1>0, <2>1, <2>7 DEF End, EndOperation, ClearMarker, running
  <2>8. ASSUME NEW s \in Stores, Die(s) PROVE FALSE
    BY <1>0, <2>1, <2>8 DEF Die
  <2>9. ASSUME Quiet PROVE FALSE
    BY <1>0, <2>1, <2>9 DEF Quiet
  <2> QED BY <2>2, <2>3, <2>4, <2>5, <2>6, <2>7, <2>8, <2>9, QuietSteps DEF Next
<1> QED BY <1>1, <1>2
-----------------------------------------------------------------------------
(* Markers: a table that an operation has touched carries its name, and    *)
(* the parent table of a record with a reserved sid is touched.            *)

NoRepeats ==
  \A o \in Ops : \A i, j \in 1..Len(touched[o]) : touched[o][i] = touched[o][j] => i = j

MarkersOwn == \A o \in Ops : \A t \in Touched(o) : marker[t] = o

ReservedMarked ==
  \A o \in Saves, r \in Records : Staged(o, r) => <<Type[r], "parent">> \in Touched(o)

MarkInv == NoRepeats /\ MarkersOwn /\ ReservedMarked

LEMMA TouchedIs ==
  ASSUME TypeInv, NEW o \in Ops
  PROVE  /\ touched[o] \in Seq(Tables)
         /\ Touched(o) = {touched[o][i] : i \in 1..Len(touched[o])}
         /\ Touched(o) \subseteq Tables
         /\ touched[o] = <<>> => Touched(o) = {}
<1>1. touched[o] \in Seq(Tables)
  BY DEF TypeInv, TypeOK
<1>2. Touched(o) = {touched[o][i] : i \in 1..Len(touched[o])}
  BY <1>1 DEF Touched, Range
<1> QED BY <1>1, <1>2

LEMMA MarkInit == Init => MarkInv
<1> SUFFICES ASSUME Init PROVE MarkInv
  OBVIOUS
<1>1. \A o \in Ops : touched[o] = <<>> /\ pc[o] = "new"
  BY DEF Init
<1>2. \A o \in Ops : Touched(o) = {}
  BY <1>1, TypeInit, TouchedIs
<1> QED BY <1>1, <1>2 DEF MarkInv, NoRepeats, MarkersOwn, ReservedMarked, Staged, Ops

\* What touching a table does to the tables touched.
LEMMA TouchMarks ==
  ASSUME TypeInv, WorkInv, NoRepeats, MarkersOwn,
         NEW o \in Ops, at[o] # None, NEW t \in Tables, TouchDirty(o, t)
  PROVE  /\ NoRepeats' /\ MarkersOwn'
         /\ Touched(o)' = Touched(o) \cup {t}
         /\ marker' = [marker EXCEPT ![t] = o]
<1>1. touched' = [touched EXCEPT ![o] = IF t \in Touched(o) THEN @ ELSE Append(@, t)]
      /\ marker' = [marker EXCEPT ![t] = o]
  BY DEF TouchDirty
<1>2. touched \in [Ops -> Seq(Tables)] /\ marker \in [Tables -> Ops \cup {None}]
  BY DEF TypeInv, TypeOK
<1>3. /\ Touched(o) = {touched[o][i] : i \in 1..Len(touched[o])}
      /\ Touched(o) \subseteq Tables
  BY TouchedIs
<1>4. Touched(o)' = Touched(o) \cup {t} /\ \A i, j \in 1..Len(touched'[o]) : touched'[o][i] = touched'[o][j] => i = j
  <2>1. CASE t \in Touched(o)
    <3>1. touched'[o] = touched[o]
      BY <1>1, <1>2, <2>1
    <3> QED BY <2>1, <3>1 DEF Touched, NoRepeats
  <2>2. CASE t \notin Touched(o)
    <3>1. touched'[o] = Append(touched[o], t)
      BY <1>1, <1>2, <2>2
    <3>2. /\ Len(touched'[o]) = Len(touched[o]) + 1 /\ Len(touched[o]) \in Nat
          /\ touched'[o][Len(touched[o]) + 1] = t
          /\ \A i \in 1..Len(touched[o]) : touched'[o][i] = touched[o][i]
          /\ DOMAIN touched'[o] = 1..Len(touched'[o])
      BY <1>2, <3>1
    <3>3. Touched(o)' = {touched'[o][i] : i \in 1..Len(touched'[o])}
      BY <3>2 DEF Touched, Range
    <3>4. Touched(o)' = Touched(o) \cup {t}
      BY <1>3, <3>2, <3>3
    <3>5. \A i \in 1..Len(touched[o]) : touched[o][i] # t
      BY <1>3, <2>2
    <3>6. PICK k \in Nat : k = Len(touched[o])
      BY <3>2
    <3>7. \A i \in 1..Len(touched'[o]) :
            \/ i \in 1..k /\ touched'[o][i] = touched[o][i] /\ touched'[o][i] # t
            \/ i = k + 1 /\ touched'[o][i] = t
      BY <3>2, <3>5, <3>6
    <3>8. \A i, j \in 1..k : touched[o][i] = touched[o][j] => i = j
      BY <3>6 DEF NoRepeats
    <3>9. \A i, j \in 1..Len(touched'[o]) : touched'[o][i] = touched'[o][j] => i = j
      BY <3>7, <3>8
    <3> QED BY <3>4, <3>9
  <2> QED BY <2>1, <2>2
<1>5. ASSUME NEW p \in Ops, p # o PROVE touched[p] = <<>> /\ touched'[p] = <<>> /\ Touched(p)' = {}
  <2>1. touched[p] = <<>>
    BY <1>5 DEF WorkInv, Placed, OneAtWork
  <2>2. touched'[p] = <<>>
    BY <1>1, <1>2, <1>5, <2>1
  <2> QED BY <2>1, <2>2 DEF Touched, Range
<1>6. NoRepeats'
  BY <1>4, <1>5 DEF NoRepeats
<1>7. MarkersOwn'
  <2>1. \A u \in Touched(o)' : marker'[u] = o
    BY <1>1, <1>2, <1>3, <1>4 DEF MarkersOwn
  <2> QED BY <1>5, <2>1 DEF MarkersOwn
<1> QED BY <1>1, <1>4, <1>6, <1>7

\* The steps that move markers.
LEMMA MarksMove ==
  ASSUME TypeInv, WorkInv, [Next]_vars
  PROVE  \/ UNCHANGED <<touched, marker>>
         \/ \E o \in Ops, t \in Tables : at[o] # None /\ TouchDirty(o, t)
         \/ \E o \in Ops, t \in Tables : ClearMarker(o, t)
         \/ \E s \in Stores : Die(s)
<1> DEFINE Goal == \/ UNCHANGED <<touched, marker>>
                   \/ \E o \in Ops, t \in Tables : at[o] # None /\ TouchDirty(o, t)
                   \/ \E o \in Ops, t \in Tables : ClearMarker(o, t)
                   \/ \E s \in Stores : Die(s)
<1> USE DegradedAssumption
<1>0. Saves \subseteq Ops /\ Fscks \subseteq Ops /\ \A f \in Fscks : f \notin Saves
  BY DEF Ops
<1>1. ASSUME NEW o \in Saves, NEW s \in Stores, NEW r \in Records, StartSave(o, s, r) PROVE Goal
  BY <1>1 DEF StartSave, Begin
<1>2. ASSUME NEW f \in Fscks, NEW s \in Stores, StartFsck(f, s) PROVE Goal
  BY <1>2 DEF StartFsck, Begin
<1>3. ASSUME NEW o \in Saves, NEW r \in Records, SaveRecord(o, r) PROVE Goal
  <2>1. at[o] # None /\ o \in Ops
    BY <1>0, <1>3, SaverIs DEF WorkInv, Placed, PlacesOf, SavePlaces
  <2>2. <<Type[r], "parent">> \in Tables /\ <<Type[r], "child">> \in Tables
    BY DEF Tables
  <2>3. CASE \E q \in Records : Descend(o, r, q)
    BY <2>3 DEF Descend
  <2>4. CASE Promote(o, r)
    BY <2>4 DEF Promote
  <2>5. CASE Reserve(o, r)
    BY <2>1, <2>2, <2>5 DEF Reserve
  <2>6. CASE TouchChildTable(o, r)
    BY <2>1, <2>2, <2>6 DEF TouchChildTable
  <2>7. CASE WriteKid(o, r)
    BY <2>7 DEF WriteKid
  <2>8. CASE ClaimEntry(o, r)
    BY <2>8 DEF ClaimEntry
  <2>9. CASE WriteParent(o, r)
    BY <2>9 DEF WriteParent
  <2> QED BY <1>3, <2>3, <2>4, <2>5, <2>6, <2>7, <2>8, <2>9 DEF SaveRecord
<1>4. ASSUME NEW o \in Saves, WriteDispatch(o) \/ SaveFails(o) PROVE Goal
  BY <1>4 DEF WriteDispatch, SaveFails
<1>5. ASSUME NEW f \in Fscks, Fsck(f) PROVE Goal
  <2>1. at[f] # None /\ f \in Ops
    BY <1>0, <1>5, FsckIs DEF WorkInv, Placed, PlacesOf
  <2>2. CASE RepairAndMark(f)
    BY <2>2 DEF RepairAndMark
  <2>3. CASE SweepChildren(f)
    BY <2>3 DEF SweepChildren
  <2>4. CASE SyncClaims(f)
    BY <2>4 DEF SyncClaims
  <2>5. ASSUME NEW y \in Types, CollectType(f, y) PROVE Goal
    <3>1. <<y, "parent">> \in Tables
      BY DEF Tables
    <3>2. CASE y \in EntryTypes
      BY <2>1, <2>5, <3>1, <3>2 DEF CollectType
    <3>3. CASE y \notin EntryTypes
      BY <2>5, <3>3 DEF CollectType
    <3> QED BY <3>2, <3>3
  <2> QED BY <1>5, <2>2, <2>3, <2>4, <2>5 DEF Fsck
<1>6. ASSUME NEW o \in Ops, End(o) PROVE Goal
  BY <1>6 DEF End, EndOperation
<1>7. ASSUME NEW s \in Stores, Die(s) PROVE Goal
  BY <1>7
<1>8. ASSUME Quiet PROVE Goal
  BY <1>8 DEF Quiet
<1> HIDE DEF Goal
<1>9. ASSUME UNCHANGED vars PROVE Goal
  BY <1>8, <1>9, QuietSteps
<1>10. ASSUME NEW o \in Ops, NEW s \in Stores, Refused(o, s) PROVE Goal
  BY <1>8, <1>10, QuietSteps
<1>11. ASSUME NEW s \in Stores, ReadForSteal(s) \/ Steal(s) \/ StealFree(s) \/ Dispose(s)
       PROVE  Goal
  BY <1>8, <1>11, QuietSteps
<1>12. Goal
  BY <1>1, <1>2, <1>3, <1>4, <1>5, <1>6, <1>7, <1>9, <1>10, <1>11 DEF Next
<1> QED BY <1>12 DEF Goal

\* The first table of an operation at its end is cleared, and it is there once.
LEMMA ClearMarks ==
  ASSUME TypeInv, WorkInv, NoRepeats, MarkersOwn, NEW o \in Ops, NEW t \in Tables, ClearMarker(o, t)
  PROVE  /\ NoRepeats' /\ MarkersOwn'
         /\ Touched(o)' = Touched(o) \ {t}
         /\ t \in Touched(o)
         /\ marker' = [marker EXCEPT ![t] = None]
<1>1. /\ touched[o] # <<>> /\ t = Head(touched[o])
      /\ marker' = [marker EXCEPT ![t] = IF @ = o THEN None ELSE @]
      /\ touched' = [touched EXCEPT ![o] = Tail(@)]
  BY DEF ClearMarker
<1>2. touched \in [Ops -> Seq(Tables)] /\ marker \in [Tables -> Ops \cup {None}]
  BY DEF TypeInv, TypeOK
<1>3. /\ Touched(o) = {touched[o][i] : i \in 1..Len(touched[o])}
      /\ Touched(o) \subseteq Tables
  BY TouchedIs
<1> DEFINE n == Len(touched[o])
<1>4. /\ n \in Nat /\ n >= 1
      /\ touched[o][1] = t
      /\ touched'[o] = Tail(touched[o])
      /\ Len(touched'[o]) = n - 1
      /\ \A i \in 1..(n - 1) : touched'[o][i] = touched[o][i + 1]
      /\ DOMAIN touched'[o] = 1..(n - 1)
  BY <1>1, <1>2
<1>5. Touched(o)' = {touched[o][i + 1] : i \in 1..(n - 1)}
  BY <1>4 DEF Touched, Range
<1>6. \A i \in 2..n : touched[o][i] # t
  BY <1>4 DEF NoRepeats
<1> HIDE DEF n
<1>7. Touched(o)' = Touched(o) \ {t} /\ t \in Touched(o)
  <2>1. t \in Touched(o)
    BY <1>3, <1>4 DEF n
  <2>2. \A u \in Touched(o)' : u \in Touched(o) \ {t}
    <3> SUFFICES ASSUME NEW i \in 1..(n - 1) PROVE touched[o][i + 1] \in Touched(o) \ {t}
      BY <1>5
    <3>1. i + 1 \in 2..n /\ i + 1 \in 1..Len(touched[o])
      BY <1>4 DEF n
    <3> QED BY <1>3, <1>6, <3>1
  <2>3. \A u \in Touched(o) \ {t} : u \in Touched(o)'
    <3> SUFFICES ASSUME NEW i \in 1..n, touched[o][i] # t PROVE touched[o][i] \in Touched(o)'
      BY <1>3 DEF n
    <3>1. i - 1 \in 1..(n - 1) /\ (i - 1) + 1 = i
      BY <1>4
    <3> QED BY <1>5, <3>1
  <2> QED BY <2>1, <2>2, <2>3
<1>8. NoRepeats'
  <2>1. \A i, j \in 1..(n - 1) : touched'[o][i] = touched'[o][j] => i = j
    <3> SUFFICES ASSUME NEW i \in 1..(n - 1), NEW j \in 1..(n - 1), touched'[o][i] = touched'[o][j]
                 PROVE  i = j
      OBVIOUS
    <3>1. touched[o][i + 1] = touched[o][j + 1]
      BY <1>4
    <3>2. i + 1 \in 1..Len(touched[o]) /\ j + 1 \in 1..Len(touched[o])
      BY <1>4 DEF n
    <3>3. i + 1 = j + 1
      BY <3>1, <3>2 DEF NoRepeats
    <3> QED BY <3>3
  <2>2. \A p \in Ops \ {o} : touched'[p] = touched[p]
    BY <1>1, <1>2
  <2> QED BY <1>4, <2>1, <2>2 DEF NoRepeats
<1>9. ASSUME NEW p \in Ops, p # o PROVE Touched(p)' = {}
  <2>1. touched[p] = <<>>
    BY <1>1, <1>9 DEF WorkInv, Placed, OneAtWork
  <2>2. touched'[p] = <<>>
    BY <1>1, <1>2, <1>9, <2>1
  <2> QED BY <2>2 DEF Touched, Range
<1>10. marker' = [marker EXCEPT ![t] = None]
  BY <1>1, <1>7 DEF MarkersOwn
<1>11. MarkersOwn'
  <2>1. \A u \in Touched(o)' : marker'[u] = o
    BY <1>2, <1>3, <1>7, <1>10 DEF MarkersOwn
  <2> QED BY <1>9, <2>1 DEF MarkersOwn
<1> QED BY <1>7, <1>8, <1>10, <1>11

LEMMA MarkStep == TypeInv /\ WriterInv /\ WorkInv /\ MarkInv /\ [Next]_vars => MarkInv'
<1> SUFFICES ASSUME TypeInv, WriterInv, WorkInv, MarkInv, [Next]_vars PROVE MarkInv'
  OBVIOUS
<1>0. NoRepeats /\ MarkersOwn /\ touched \in [Ops -> Seq(Tables)]
  BY DEF MarkInv, TypeInv, TypeOK
<1>1. NoRepeats' /\ MarkersOwn'
  <2>1. CASE UNCHANGED <<touched, marker>>
    BY <1>0, <2>1 DEF NoRepeats, MarkersOwn, Touched
  <2>2. CASE \E o \in Ops, t \in Tables : at[o] # None /\ TouchDirty(o, t)
    BY <1>0, <2>2, TouchMarks
  <2>3. CASE \E o \in Ops, t \in Tables : ClearMarker(o, t)
    BY <1>0, <2>3, ClearMarks
  <2>4. ASSUME NEW s \in Stores, Die(s) PROVE NoRepeats' /\ MarkersOwn'
    <3>1. /\ marker' = marker
          /\ touched' = [o \in Ops |-> IF at[o] = s THEN <<>> ELSE touched[o]]
      BY <2>4 DEF Die
    <3>2. ASSUME NEW o \in Ops
          PROVE  /\ \A i, j \in 1..Len(touched'[o]) : touched'[o][i] = touched'[o][j] => i = j
                 /\ \A t \in Touched(o)' : marker[t] = o
      <4>1. CASE at[o] = s
        BY <3>1, <4>1 DEF Touched, Range
      <4>2. CASE at[o] # s
        BY <1>0, <3>1, <4>2 DEF NoRepeats, MarkersOwn, Touched
      <4> QED BY <4>1, <4>2
    <3> QED BY <3>1, <3>2 DEF NoRepeats, MarkersOwn
  <2> QED BY <2>1, <2>2, <2>3, <2>4, MarksMove
<1>2. ASSUME NEW p \in Saves, NEW q \in Records, Staged(p, q)'
      PROVE  <<Type[q], "parent">> \in Touched(p)'
  <2>0. p \in Ops /\ pc'[p] = "saving"
    BY <1>2 DEF Ops, Staged
  <2>1. ASSUME NEW s \in Stores, NEW r \in Records, StartSave(p, s, r) PROVE FALSE
    BY <1>2, <2>0, <2>1 DEF StartSave, Begin, TypeInv, TypeOK, Staged, Stage, Idle
  <2>2. ASSUME NEW r \in Records, SaveRecord(p, r) PROVE <<Type[q], "parent">> \in Touched(p)'
    <3>a. at[p] # None
      BY <2>0, <2>2, SaverIs DEF WorkInv, Placed, PlacesOf, SavePlaces
    <3>b. <<Type[r], "parent">> \in Tables /\ <<Type[r], "child">> \in Tables
      BY DegradedAssumption DEF Tables
    <3>c. ASSUME Reserve(p, r)
          PROVE  Touched(p) \subseteq Touched(p)' /\ <<Type[r], "parent">> \in Touched(p)'
      BY <1>0, <2>0, <3>a, <3>b, <3>c, TouchMarks DEF Reserve
    <3>1. Touched(p) \subseteq Touched(p)'
      <4>2. CASE Reserve(p, r)
        BY <4>2, <3>c
      <4>3. CASE TouchChildTable(p, r)
        BY <1>0, <2>0, <3>a, <3>b, <4>3, TouchMarks DEF TouchChildTable
      <4>4. CASE touched' = touched
        BY <4>4 DEF Touched
      <4>5. \/ Reserve(p, r) \/ TouchChildTable(p, r) \/ touched' = touched
        BY <2>2 DEF SaveRecord, Descend, Promote, WriteKid, ClaimEntry, WriteParent
      <4> QED BY <4>2, <4>3, <4>4, <4>5
    <3>2. CASE Reserve(p, r) /\ q = r
      BY <3>c, <3>2
    <3>3. CASE Staged(p, q)
      BY <3>1, <3>3 DEF MarkInv, ReservedMarked
    <3> QED BY <1>2, <2>2, <3>2, <3>3, StagedBefore
  <2>3. CASE Quiet /\ pc[p] = "saving"
    BY <1>2, <2>3 DEF Quiet, Staged, Stage, MarkInv, ReservedMarked, Touched
  <2> QED BY <2>0, <2>1, <2>2, <2>3, SavingBefore
<1> QED BY <1>1, <1>2 DEF MarkInv, ReservedMarked
-----------------------------------------------------------------------------
(* Claims: a row of an entry type has its claim; a claim without a row has *)
(* a marked table, so that the next operation releases it, and belongs to  *)
(* the save at work, if there is one.                                      *)

Loose(c) == ~HasRow(Type[c.rec], c.sid)

ClaimOf(r, n) == [rec |-> r, sid |-> n]

EntryClaims == \A c \in claims : Type[c.rec] \in EntryTypes

RowsClaimed == \A x \in rows : Type[x.rec] \in EntryTypes => ClaimOf(x.rec, x.sid) \in claims

StageClaimed ==
  \A o \in Saves, r \in Records :
    pc[o] = "saving" /\ Stage(o, r) = "row" /\ Type[r] \in EntryTypes =>
      ClaimOf(r, job[o].sid[r]) \in claims

LooseMarked == \A c \in claims : Loose(c) => marker[<<Type[c.rec], "parent">>] # None

LooseOwn ==
  \A o \in Saves, c \in claims :
    at[o] # None /\ Loose(c) => Stage(o, c.rec) = "row" /\ job[o].sid[c.rec] = c.sid

ClaimInv == EntryClaims /\ RowsClaimed /\ StageClaimed /\ LooseMarked /\ LooseOwn

LEMMA ClaimInit == Init => ClaimInv
  BY DEF Init, ClaimInv, EntryClaims, RowsClaimed, StageClaimed, LooseMarked, LooseOwn, Ops

\* A step that takes nothing from rows, claims and markers and no save further.
LEMMA ClaimUntouched ==
  ASSUME ClaimInv, UNCHANGED <<rows, claims, marker>>,
         \A p \in Saves : pc'[p] = "saving" => pc[p] = "saving" /\ job'[p] = job[p],
         \A p \in Saves : at'[p] # None => at[p] # None /\ job'[p] = job[p]
  PROVE  ClaimInv'
<1>1. \A c \in claims : Loose(c)' <=> Loose(c)
  BY DEF Loose, HasRow, RowsOf
<1>2. EntryClaims' /\ RowsClaimed'
  BY DEF ClaimInv, EntryClaims, RowsClaimed
<1>3. StageClaimed'
  BY DEF ClaimInv, StageClaimed, Stage
<1>4. LooseMarked' /\ LooseOwn'
  BY <1>1 DEF ClaimInv, LooseMarked, LooseOwn, Stage
<1> QED BY <1>2, <1>3, <1>4 DEF ClaimInv

\* Release takes no claim of a row.
LEMMA ReleaseKeepsRows ==
  ASSUME TypeInv, RowsClaimed, NEW S \in SUBSET Types, rows' = rows,
         claims' = claims \ UNION {Unused(y) : y \in S}
  PROVE  RowsClaimed'
<1> SUFFICES ASSUME NEW x \in rows, Type[x.rec] \in EntryTypes
             PROVE  ClaimOf(x.rec, x.sid) \in claims'
  BY DEF RowsClaimed
<1>1. ClaimOf(x.rec, x.sid) \in claims
  BY DEF RowsClaimed
<1>2. HasRow(Type[x.rec], x.sid)
  BY DEF HasRow, RowsOf
<1>3. \A y \in S : ClaimOf(x.rec, x.sid) \notin Unused(y)
  BY <1>2 DEF Unused, ClaimOf
<1> QED BY <1>1, <1>3

LEMMA ClaimBegins ==
  ASSUME TypeInv, WriterInv, WorkInv, ClaimInv, NEW o \in Ops, NEW s \in Stores,
         NEW next, NEW start, Begin(o, s, next, start),
         \A r \in Records : start.stage[r] # "row"
  PROVE  ClaimInv'
<1>1. /\ rows' = rows /\ marker' = marker
      /\ pc' = [pc EXCEPT ![o] = next]
      /\ job' = [job EXCEPT ![o] = start]
      /\ claims' = claims \ ReleasedAtStart
      /\ \A p \in Ops : at[p] = None
  BY NobodyAtWork DEF Begin, tables
<1>2. \A c \in claims' : c \in claims /\ ~Loose(c) /\ ~Loose(c)'
  <2> SUFFICES ASSUME NEW c \in claims' PROVE c \in claims /\ ~Loose(c) /\ ~Loose(c)'
    OBVIOUS
  <2>1. c \in claims /\ Type[c.rec] \in Types
    BY <1>1, DegradedAssumption DEF TypeInv, TypeOK
  <2>2. ~Loose(c)
    <3> SUFFICES ASSUME Loose(c) PROVE FALSE
      OBVIOUS
    <3>1. marker[<<Type[c.rec], "parent">>] # None
      BY <2>1 DEF ClaimInv, LooseMarked
    <3>2. c \in Unused(Type[c.rec])
      BY <2>1 DEF Unused, Loose
    <3> QED BY <1>1, <2>1, <3>1, <3>2 DEF ReleasedAtStart
  <2> QED BY <1>1, <2>1, <2>2 DEF Loose, HasRow, RowsOf
<1>3. RowsClaimed'
  BY <1>1, ReleaseKeepsRows DEF ClaimInv, ReleasedAtStart
<1>4. EntryClaims' /\ LooseMarked' /\ LooseOwn'
  BY <1>2 DEF ClaimInv, EntryClaims, LooseMarked, LooseOwn
<1>5. StageClaimed'
  <2> SUFFICES ASSUME NEW p \in Saves, NEW r \in Records, pc'[p] = "saving", job'[p].stage[r] = "row"
               PROVE  FALSE
    BY DEF StageClaimed, Stage
  <2>1. p \in Ops /\ DOMAIN pc = Ops /\ DOMAIN job = Ops
    BY DEF Ops, TypeInv, TypeOK
  <2>2. CASE p = o
    BY <1>1, <2>1, <2>2
  <2>3. CASE p # o
    BY <1>1, <2>1, <2>3 DEF WorkInv, Placed, PlacesOf, SavePlaces
  <2> QED BY <2>2, <2>3
<1> QED BY <1>3, <1>4, <1>5 DEF ClaimInv

(* Touching a table releases claims that have no row; none of them is of   *)
(* a record that the operation has reserved.                               *)
LEMMA ClaimTouch ==
  ASSUME TypeInv, WorkInv, MarkInv, ClaimInv, NEW o \in Ops, at[o] # None,
         NEW t \in Tables, TouchDirty(o, t), rows' = rows
  PROVE  /\ EntryClaims' /\ RowsClaimed' /\ LooseMarked'
         /\ claims' \subseteq claims
         /\ \A c \in claims : c \in claims' \/ (Loose(c) /\ t = <<Type[c.rec], "parent">> /\ t \notin Touched(o))
<1>1. /\ marker' = [marker EXCEPT ![t] = o]
      /\ claims' = IF (t \notin Touched(o) /\ marker[t] \notin {None, o}) /\ t[2] = "parent"
                   THEN claims \ Unused(t[1]) ELSE claims
  BY DEF TouchDirty
<1>2. marker \in [Tables -> Ops \cup {None}] /\ o # None
  BY DegradedAssumption DEF TypeInv, TypeOK
<1>3. t[1] \in Types /\ t = <<t[1], t[2]>>
  BY DEF Tables
<1>4. RowsClaimed'
  <2>1. CASE claims' = claims
    BY <2>1 DEF ClaimInv, RowsClaimed
  <2>2. CASE claims' = claims \ Unused(t[1])
    <3>1. claims' = claims \ UNION {Unused(y) : y \in {t[1]}}
      BY <2>2
    <3>2. {t[1]} \in SUBSET Types /\ RowsClaimed
      BY <1>3 DEF ClaimInv
    <3> QED BY <3>1, <3>2, ReleaseKeepsRows
  <2> QED BY <1>1, <2>1, <2>2
<1>5. claims' \subseteq claims
  BY <1>1
<1>6. EntryClaims'
  BY <1>5 DEF ClaimInv, EntryClaims
<1>7. LooseMarked'
  <2> SUFFICES ASSUME NEW c \in claims', Loose(c)' PROVE marker'[<<Type[c.rec], "parent">>] # None
    BY DEF LooseMarked
  <2>1. Loose(c) /\ c \in claims
    BY <1>5 DEF Loose, HasRow, RowsOf
  <2>2. <<Type[c.rec], "parent">> \in Tables
    BY <2>1, DegradedAssumption DEF Tables, TypeInv, TypeOK
  <2>3. marker[<<Type[c.rec], "parent">>] # None
    BY <2>1 DEF ClaimInv, LooseMarked
  <2> QED BY <1>1, <1>2, <2>2, <2>3
<1>8. ASSUME NEW c \in claims, c \notin claims'
      PROVE  Loose(c) /\ t = <<Type[c.rec], "parent">> /\ t \notin Touched(o)
  BY <1>1, <1>3, <1>8 DEF Unused, Loose
<1> QED BY <1>4, <1>5, <1>6, <1>7, <1>8

\* Only the save at work has claims without rows.
LEMMA ClaimSaver ==
  ASSUME TypeInv, WorkInv, NEW o \in Saves, at[o] # None, at' = at,
         \A p \in Ops \ {o} : pc'[p] = pc[p],
         EntryClaims', RowsClaimed', LooseMarked',
         \A q \in Records :
           pc'[o] = "saving" /\ job'[o].stage[q] = "row" /\ Type[q] \in EntryTypes =>
             ClaimOf(q, job'[o].sid[q]) \in claims',
         \A c \in claims' :
           Loose(c)' => job'[o].stage[c.rec] = "row" /\ job'[o].sid[c.rec] = c.sid
  PROVE  ClaimInv'
<1>1. ASSUME NEW p \in Saves, p # o PROVE at'[p] = None /\ pc'[p] # "saving"
  <2>1. p \in Ops /\ o \in Ops
    BY DEF Ops
  <2> QED BY <1>1, <2>1 DEF WorkInv, Placed, OneAtWork, PlacesOf, SavePlaces
<1>2. StageClaimed'
  BY <1>1 DEF StageClaimed, Stage
<1>3. LooseOwn'
  BY <1>1 DEF LooseOwn, Stage
<1> QED BY <1>2, <1>3 DEF ClaimInv

LEMMA ClaimSave ==
  ASSUME TypeInv, WorkInv, MarkInv, ClaimInv, NEW o \in Saves, NEW r \in Records, SaveRecord(o, r)
  PROVE  ClaimInv'
<1>0. /\ o \in Ops /\ pc[o] = "saving" /\ at[o] # None /\ at' = at
      /\ \A p \in Ops \ {o} : pc'[p] = pc[p] /\ job'[p] = job[p]
  BY SaverIs DEF Ops, WorkInv, Placed, PlacesOf, SavePlaces
<1>a. job \in [Ops -> JobType] /\ job[o] \in JobType
  BY <1>0 DEF TypeInv, TypeOK, JobType
<1>b. \A c \in claims : c.rec \in Records
  BY DEF TypeInv, TypeOK
<1>c. EntryClaims /\ RowsClaimed /\ StageClaimed /\ LooseMarked /\ LooseOwn
  BY DEF ClaimInv
<1>d. /\ \A q \in Records : Stage(o, q) = "row" /\ Type[q] \in EntryTypes =>
                              ClaimOf(q, job[o].sid[q]) \in claims
      /\ \A c \in claims : Loose(c) => Stage(o, c.rec) = "row" /\ job[o].sid[c.rec] = c.sid
  BY <1>0, <1>c DEF StageClaimed, LooseOwn
<1>e. ASSUME rows' = rows PROVE \A c : Loose(c)' <=> Loose(c)
  BY <1>e DEF Loose, HasRow, RowsOf
<1>1. ASSUME NEW q \in Records, Descend(o, r, q) PROVE ClaimInv'
  <2>1. UNCHANGED <<rows, claims, marker>>
    BY <1>1 DEF Descend, tables
  <2>2. Stage(o, q) = "none"
    BY <1>1 DEF Descend, Innermost, Wanted, Parts
  <2>3. job'[o].sid = job[o].sid
        /\ \A u \in Records : job'[o].stage[u] = "row" <=> job[o].stage[u] = "row"
    <3>1. CASE job' = [job EXCEPT ![o].stage[q] = "refs"]
      <4>1. job'[o].stage = [job[o].stage EXCEPT ![q] = "refs"] /\ job'[o].sid = job[o].sid
        BY <1>0, <1>a, <3>1 DEF JobType
      <4> QED BY <1>a, <2>2, <4>1 DEF JobType, Stage
    <3>2. CASE \E x \in Visible(q) : job' = [job EXCEPT ![o].found[q] = x.sid]
      BY <1>0, <1>a, <3>2 DEF JobType
    <3> QED BY <1>1, <3>1, <3>2 DEF Descend
  <2>4. EntryClaims' /\ RowsClaimed' /\ LooseMarked'
    BY <1>c, <1>e, <2>1 DEF EntryClaims, RowsClaimed, LooseMarked
  <2> QED BY <1>0, <1>b, <1>d, <1>e, <2>1, <2>3, <2>4, ClaimSaver DEF Stage
<1>2. ASSUME Promote(o, r) PROVE ClaimInv'
  <2>1. PICK x \in Visible(r) :
          /\ rows' = (rows \ {x}) \cup {[x EXCEPT !.main = TRUE]}
          /\ job' = [job EXCEPT ![o].found[r] = x.sid, ![o].stage[r] = "none"]
    BY <1>2 DEF Promote
  <2>2. UNCHANGED <<claims, marker>> /\ pc'[o] # "saving" /\ Stage(o, r) = "refs"
    BY <1>0, <1>2 DEF Promote, TypeInv, TypeOK
  <2>3. x \in RowType /\ x \in rows
    BY <2>1 DEF TypeInv, TypeOK, RowType, Visible
  <2> DEFINE z == [x EXCEPT !.main = TRUE]
  <2>z. z.rec = x.rec /\ z.sid = x.sid /\ z \in rows'
    BY <2>1, <2>3 DEF RowType
  <2> HIDE DEF z
  <2>4. \A c : Loose(c)' => Loose(c)
    <3> SUFFICES ASSUME NEW c, HasRow(Type[c.rec], c.sid) PROVE HasRow(Type[c.rec], c.sid)'
      BY DEF Loose
    <3>1. PICK w \in rows : Type[w.rec] = Type[c.rec] /\ w.sid = c.sid
      BY DEF HasRow, RowsOf
    <3>2. CASE w = x
      BY <2>z, <3>1, <3>2 DEF HasRow, RowsOf
    <3>3. CASE w # x
      BY <2>1, <3>1, <3>3 DEF HasRow, RowsOf
    <3> QED BY <3>2, <3>3
  <2>5. RowsClaimed'
    <3> SUFFICES ASSUME NEW w \in rows', Type[w.rec] \in EntryTypes
                 PROVE  ClaimOf(w.rec, w.sid) \in claims
      BY <2>2 DEF RowsClaimed
    <3>1. CASE w = z
      BY <1>c, <2>3, <2>z, <3>1 DEF RowsClaimed
    <3>2. CASE w # z
      BY <1>c, <2>1, <3>2 DEF RowsClaimed, z
    <3> QED BY <3>1, <3>2
  <2>6. EntryClaims' /\ LooseMarked'
    BY <1>c, <2>2, <2>4 DEF EntryClaims, LooseMarked
  <2>7. job'[o].sid = job[o].sid /\ \A u \in Records : job[o].stage[u] = "row" => job'[o].stage[u] = "row"
    <3>1. job'[o].stage = [job[o].stage EXCEPT ![r] = "none"] /\ job'[o].sid = job[o].sid
      BY <1>0, <1>a, <2>1 DEF JobType
    <3> QED BY <1>a, <2>2, <3>1 DEF JobType, Stage
  <2> QED BY <1>0, <1>b, <1>d, <2>2, <2>4, <2>5, <2>6, <2>7, ClaimSaver DEF Stage
<1>3. ASSUME Reserve(o, r) PROVE ClaimInv'
  <2>1. /\ rows' = rows /\ TouchDirty(o, <<Type[r], "parent">>)
        /\ job' = [job EXCEPT ![o].sid[r] = NextSid(Type[r]), ![o].stage[r] = "kids"]
        /\ Stage(o, r) = "refs"
    BY <1>3 DEF Reserve
  <2>2. /\ job'[o].stage = [job[o].stage EXCEPT ![r] = "kids"]
        /\ job'[o].sid = [job[o].sid EXCEPT ![r] = NextSid(Type[r])]
    BY <1>0, <1>a, <2>1 DEF JobType
  <2>3. /\ EntryClaims' /\ RowsClaimed' /\ LooseMarked' /\ claims' \subseteq claims
        /\ \A c \in claims : c \in claims' \/ <<Type[c.rec], "parent">> \notin Touched(o)
    <3>1. <<Type[r], "parent">> \in Tables
      BY DegradedAssumption DEF Tables
    <3> QED BY <1>0, <2>1, <3>1, ClaimTouch
  <2>4. ASSUME NEW q \in Records, job'[o].stage[q] = "row", Type[q] \in EntryTypes
        PROVE  ClaimOf(q, job'[o].sid[q]) \in claims'
    <3>1. q # r /\ Stage(o, q) = "row" /\ job'[o].sid[q] = job[o].sid[q]
      BY <1>a, <2>2, <2>4 DEF JobType, Stage
    <3>2. <<Type[q], "parent">> \in Touched(o)
      BY <1>0, <3>1 DEF MarkInv, ReservedMarked, Staged
    <3>3. ClaimOf(q, job[o].sid[q]) \in claims /\ ClaimOf(q, job[o].sid[q]).rec = q
      BY <1>d, <2>4, <3>1 DEF ClaimOf
    <3> QED BY <2>3, <3>1, <3>2, <3>3
  <2>5. ASSUME NEW c \in claims', Loose(c)'
        PROVE  job'[o].stage[c.rec] = "row" /\ job'[o].sid[c.rec] = c.sid
    <3>1. c \in claims /\ Loose(c) /\ c.rec \in Records
      BY <1>b, <1>e, <2>1, <2>3, <2>5
    <3>2. Stage(o, c.rec) = "row" /\ job[o].sid[c.rec] = c.sid /\ c.rec # r
      BY <1>d, <2>1, <3>1
    <3> QED BY <1>a, <2>2, <3>1, <3>2 DEF JobType, Stage
  <2> QED BY <1>0, <2>3, <2>4, <2>5, ClaimSaver
<1>4. ASSUME TouchChildTable(o, r) PROVE ClaimInv'
  <2>1. /\ rows' = rows /\ job' = job /\ TouchDirty(o, <<Type[r], "child">>)
    BY <1>4 DEF TouchChildTable, running
  <2>2. /\ EntryClaims' /\ RowsClaimed' /\ LooseMarked' /\ claims' = claims
    <3>1. <<Type[r], "child">> \in Tables
      BY DegradedAssumption DEF Tables
    <3>2. claims' = claims
      BY <2>1 DEF TouchDirty
    <3> QED BY <1>0, <2>1, <3>1, <3>2, ClaimTouch
  <2> QED BY <1>0, <1>d, <1>e, <2>1, <2>2, ClaimSaver DEF Stage
<1>5. ASSUME WriteKid(o, r) PROVE ClaimInv'
  <2>1. UNCHANGED <<pc, at, job, rows, claims, marker>>
    BY <1>5 DEF WriteKid, running
  <2> QED BY <2>1, ClaimUntouched
<1>6. ASSUME ClaimEntry(o, r) PROVE ClaimInv'
  <2>1. /\ UNCHANGED <<rows, marker>> /\ Stage(o, r) = "kids"
        /\ job' = [job EXCEPT ![o].stage[r] = "row"]
        /\ claims' = claims \cup (IF Type[r] \in EntryTypes THEN {ClaimOf(r, job[o].sid[r])} ELSE {})
    BY <1>6 DEF ClaimEntry, tables, ClaimOf
  <2>2. /\ job'[o].stage = [job[o].stage EXCEPT ![r] = "row"]
        /\ job'[o].sid = job[o].sid
    BY <1>0, <1>a, <2>1 DEF JobType
  <2> DEFINE n == ClaimOf(r, job[o].sid[r])
  <2>3. n.rec = r /\ n.sid = job[o].sid[r]
    BY DEF ClaimOf
  <2>4. marker[<<Type[r], "parent">>] = o /\ o # None
    BY <1>0, <2>1, DegradedAssumption DEF MarkInv, ReservedMarked, MarkersOwn, Staged
  <2>a. \A c \in claims' : c \in claims \/ (c = n /\ Type[r] \in EntryTypes)
    BY <2>1
  <2>b. RowsClaimed'
    BY <1>c, <2>1 DEF RowsClaimed
  <2> HIDE DEF n
  <2>5. EntryClaims'
    BY <1>c, <2>3, <2>a DEF EntryClaims
  <2>c. LooseMarked'
    BY <1>c, <1>e, <2>1, <2>3, <2>4, <2>a DEF LooseMarked
  <2>6. ASSUME NEW q \in Records, job'[o].stage[q] = "row", Type[q] \in EntryTypes
        PROVE  ClaimOf(q, job'[o].sid[q]) \in claims'
    <3>1. CASE q = r
      BY <2>1, <2>2, <2>6, <3>1
    <3>2. CASE q # r
      BY <1>a, <1>d, <2>1, <2>2, <2>6, <3>2 DEF JobType, Stage
    <3> QED BY <3>1, <3>2
  <2>7. ASSUME NEW c \in claims', Loose(c)'
        PROVE  job'[o].stage[c.rec] = "row" /\ job'[o].sid[c.rec] = c.sid
    <3>1. CASE c = n
      BY <1>a, <2>2, <2>3, <3>1 DEF JobType
    <3>2. CASE c \in claims
      <4>1. Loose(c) /\ c.rec \in Records
        BY <1>b, <1>e, <2>1, <2>7, <3>2
      <4> QED BY <1>a, <1>d, <2>2, <3>2, <4>1 DEF JobType, Stage
    <3> QED BY <2>a, <3>1, <3>2
  <2> QED BY <1>0, <2>5, <2>b, <2>c, <2>6, <2>7, ClaimSaver
<1>7. ASSUME WriteParent(o, r) PROVE ClaimInv'
  <2> DEFINE n == [rec |-> r, sid |-> job[o].sid[r], main |-> IsRoot(o, r),
                   refs |-> {<<q, job[o].found[q]>> : q \in Refs[r]}]
  <2>1. /\ UNCHANGED <<claims, marker>> /\ Stage(o, r) = "row"
        /\ rows' = rows \cup {n}
        /\ job' = [job EXCEPT ![o].found[r] = job[o].sid[r], ![o].stage[r] = "none"]
    BY <1>7 DEF WriteParent
  <2>2. /\ job'[o].stage = [job[o].stage EXCEPT ![r] = "none"]
        /\ job'[o].sid = job[o].sid
    BY <1>0, <1>a, <2>1 DEF JobType
  <2>3. n.rec = r /\ n.sid = job[o].sid[r] /\ n \in rows'
    BY <2>1
  <2> HIDE DEF n
  <2>4. \A c : Loose(c)' => Loose(c)
    BY <2>1 DEF Loose, HasRow, RowsOf
  <2>5. RowsClaimed'
    <3> SUFFICES ASSUME NEW w \in rows', Type[w.rec] \in EntryTypes
                 PROVE  ClaimOf(w.rec, w.sid) \in claims
      BY <2>1 DEF RowsClaimed
    <3>1. CASE w = n
      BY <1>d, <2>1, <2>3, <3>1
    <3>2. CASE w \in rows
      BY <1>c, <3>2 DEF RowsClaimed
    <3> QED BY <2>1, <3>1, <3>2
  <2>6. EntryClaims' /\ LooseMarked'
    BY <1>c, <2>1, <2>4 DEF EntryClaims, LooseMarked
  <2>7. ASSUME NEW q \in Records, job'[o].stage[q] = "row", Type[q] \in EntryTypes
        PROVE  ClaimOf(q, job'[o].sid[q]) \in claims'
    BY <1>a, <1>d, <2>1, <2>2, <2>7 DEF JobType, Stage
  <2>8. ASSUME NEW c \in claims', Loose(c)'
        PROVE  job'[o].stage[c.rec] = "row" /\ job'[o].sid[c.rec] = c.sid
    <3>1. c \in claims /\ Loose(c) /\ c.rec \in Records
      BY <1>b, <2>1, <2>4, <2>8
    <3>2. Stage(o, c.rec) = "row" /\ job[o].sid[c.rec] = c.sid
      BY <1>d, <3>1
    <3>3. c.rec # r
      <4> SUFFICES ASSUME c.rec = r PROVE FALSE
        OBVIOUS
      <4>1. n \in rows' /\ Type[n.rec] = Type[c.rec] /\ n.sid = c.sid
        BY <2>3, <3>2
      <4> QED BY <2>8, <4>1 DEF Loose, HasRow, RowsOf
    <3> QED BY <1>a, <2>2, <3>1, <3>2, <3>3 DEF JobType, Stage
  <2> QED BY <1>0, <2>5, <2>6, <2>7, <2>8, ClaimSaver
<1> QED BY <1>1, <1>2, <1>3, <1>4, <1>5, <1>6, <1>7 DEF SaveRecord

\* While fsck is at work, no save is.
LEMMA ClaimFsck ==
  ASSUME TypeInv, WorkInv, ClaimInv, NEW f \in Fscks, Fsck(f)
  PROVE  ClaimInv'
<1> USE DegradedAssumption
<1>0. f \in Ops /\ at[f] # None /\ f \notin Saves
  BY FsckIs DEF Ops, WorkInv, Placed, PlacesOf
<1>1. \A p \in Saves : at'[p] = None /\ pc'[p] # "saving"
  <2> SUFFICES ASSUME NEW p \in Saves PROVE at'[p] = None /\ pc'[p] # "saving"
    OBVIOUS
  <2>1. p \in Ops /\ p # f
    BY <1>0 DEF Ops
  <2>2. at[p] = None /\ pc[p] # "saving"
    BY <1>0, <2>1 DEF WorkInv, Placed, OneAtWork, PlacesOf, SavePlaces
  <2> QED BY <2>1, <2>2, FsckIs
<1>2. StageClaimed' /\ LooseOwn'
  BY <1>1 DEF StageClaimed, LooseOwn
<1>3. EntryClaims /\ RowsClaimed /\ LooseMarked
  BY DEF ClaimInv
<1>4. CASE UNCHANGED <<rows, claims, marker>>
  <2>1. EntryClaims' /\ RowsClaimed' /\ LooseMarked'
    BY <1>3, <1>4 DEF EntryClaims, RowsClaimed, LooseMarked, Loose, HasRow, RowsOf
  <2> QED BY <1>2, <2>1 DEF ClaimInv
<1>5. ASSUME NEW y \in Types, CollectType(f, y) PROVE ClaimInv'
  <2>1. /\ rows' = {x \in rows : Type[x.rec] = y => x.main \/ <<x.rec, x.sid>> \in job[f].marked}
        /\ y \in EntryTypes => TouchDirty(f, <<y, "parent">>)
        /\ y \notin EntryTypes => UNCHANGED <<marker, claims>>
    BY <1>5 DEF CollectType
  <2>2. /\ claims' \subseteq claims
        /\ \A c \in claims : c \in claims' \/ Loose(c)
        /\ y \in EntryTypes => marker' = [marker EXCEPT ![<<y, "parent">>] = f]
        /\ y \notin EntryTypes => marker' = marker
    BY <2>1 DEF TouchDirty, Unused, Loose
  <2>3. EntryClaims'
    BY <1>3, <2>2 DEF EntryClaims
  <2>4. RowsClaimed'
    <3> SUFFICES ASSUME NEW x \in rows', Type[x.rec] \in EntryTypes
                 PROVE  ClaimOf(x.rec, x.sid) \in claims'
      BY DEF RowsClaimed
    <3>1. x \in rows /\ ClaimOf(x.rec, x.sid) \in claims
      BY <1>3, <2>1 DEF RowsClaimed
    <3>2. ~Loose(ClaimOf(x.rec, x.sid))
      BY <3>1 DEF Loose, HasRow, RowsOf, ClaimOf
    <3> QED BY <2>2, <3>1, <3>2
  <2>5. LooseMarked'
    <3> SUFFICES ASSUME NEW c \in claims', Loose(c)' PROVE marker'[<<Type[c.rec], "parent">>] # None
      BY DEF LooseMarked
    <3>1. c \in claims /\ <<Type[c.rec], "parent">> \in Tables /\ Type[c.rec] \in EntryTypes
      BY <1>3, <2>2 DEF EntryClaims, Tables
    <3>2. marker \in [Tables -> Ops \cup {None}]
      BY DEF TypeInv, TypeOK
    <3>3. CASE Type[c.rec] = y
      BY <1>0, <2>2, <3>1, <3>2, <3>3
    <3>4. CASE Type[c.rec] # y
      <4>1. Loose(c)
        BY <2>1, <3>4 DEF Loose, HasRow, RowsOf
      <4>2. marker[<<Type[c.rec], "parent">>] # None
        BY <1>3, <3>1, <4>1 DEF LooseMarked
      <4> QED BY <2>2, <3>1, <3>2, <3>4, <4>2
    <3> QED BY <3>3, <3>4
  <2> QED BY <1>2, <2>3, <2>4, <2>5 DEF ClaimInv
<1>6. CASE SyncClaims(f)
  <2>1. /\ claims' = {[rec |-> x.rec, sid |-> x.sid] : x \in {z \in rows : Type[z.rec] \in EntryTypes}}
        /\ rows' = rows
    BY <1>6 DEF SyncClaims, tables
  <2>2. EntryClaims' /\ RowsClaimed'
    BY <2>1 DEF EntryClaims, RowsClaimed, ClaimOf
  <2>3. \A c \in claims' : ~Loose(c)'
    BY <2>1 DEF Loose, HasRow, RowsOf
  <2>4. LooseMarked'
    BY <2>3 DEF LooseMarked
  <2> QED BY <1>2, <2>2, <2>4 DEF ClaimInv
<1>7. CASE RepairAndMark(f) \/ SweepChildren(f)
  <2>1. UNCHANGED <<rows, claims, marker>>
    BY <1>7 DEF RepairAndMark, SweepChildren, tables
  <2> QED BY <1>4, <2>1
<1> QED BY <1>5, <1>6, <1>7 DEF Fsck

LEMMA ClaimStep == TypeInv /\ WriterInv /\ WorkInv /\ MarkInv /\ ClaimInv /\ [Next]_vars => ClaimInv'
<1> SUFFICES ASSUME TypeInv, WriterInv, WorkInv, MarkInv, ClaimInv, [Next]_vars PROVE ClaimInv'
  OBVIOUS
<1> USE DegradedAssumption
<1>0. /\ Saves \subseteq Ops /\ Fscks \subseteq Ops
      /\ pc \in [Ops -> Places] /\ at \in [Ops -> Stores \cup {None}]
      /\ job \in [Ops -> JobType]
  BY DEF Ops, TypeInv, TypeOK, JobType
<1>1. ASSUME NEW o \in Saves, NEW s \in Stores, NEW r \in Records, StartSave(o, s, r)
      PROVE  ClaimInv'
  <2> DEFINE start == [Idle EXCEPT !.root = {r}, !.stage[r] = "refs"]
  <2>1. \A q \in Records : start.stage[q] # "row"
    BY DEF Idle
  <2>2. Begin(o, s, "saving", start)
    BY <1>1 DEF StartSave
  <2> HIDE DEF start
  <2> QED BY <1>0, <2>1, <2>2, ClaimBegins
<1>2. ASSUME NEW f \in Fscks, NEW s \in Stores, StartFsck(f, s)
      PROVE  ClaimInv'
  <2>1. \A q \in Records : Idle.stage[q] # "row"
    BY DEF Idle
  <2> QED BY <1>0, <1>2, <2>1, ClaimBegins DEF StartFsck
<1>3. ASSUME NEW o \in Saves, NEW r \in Records, SaveRecord(o, r)
      PROVE  ClaimInv'
  BY <1>3, ClaimSave
<1>4. ASSUME NEW o \in Saves, WriteDispatch(o) \/ SaveFails(o)
      PROVE  ClaimInv'
  <2>1. CASE WriteDispatch(o)
    <3>1. /\ UNCHANGED <<rows, claims, marker, at, job>>
          /\ pc' = [pc EXCEPT ![o] = "saved"]
      BY <2>1 DEF WriteDispatch, tables
    <3> QED BY <1>0, <3>1, ClaimUntouched
  <2>2. CASE SaveFails(o)
    <3>1. /\ UNCHANGED <<rows, claims, marker, at, job>>
          /\ pc' = [pc EXCEPT ![o] = "raising"]
      BY <2>2 DEF SaveFails, tables
    <3> QED BY <1>0, <3>1, ClaimUntouched
  <2> QED BY <1>4, <2>1, <2>2
<1>5. ASSUME NEW f \in Fscks, Fsck(f)
      PROVE  ClaimInv'
  BY <1>5, ClaimFsck
<1>6. ASSUME NEW o \in Ops, End(o)
      PROVE  ClaimInv'
  <2>1. CASE EndOperation(o)
    <3>1. /\ UNCHANGED <<rows, claims, marker, job>>
          /\ pc' = [pc EXCEPT ![o] = IF @ = "raising" THEN "failed" ELSE "returned"]
          /\ at' = [at EXCEPT ![o] = None]
      BY <2>1 DEF EndOperation, tables
    <3> QED BY <1>0, <3>1, ClaimUntouched
  <2>2. ASSUME NEW t \in Tables, ClearMarker(o, t) PROVE ClaimInv'
    <3>1. /\ UNCHANGED <<rows, job, at, pc>> /\ Ending(o)
          /\ claims' = IF t[2] = "parent" THEN claims \ Unused(t[1]) ELSE claims
          /\ marker' = [marker EXCEPT ![t] = None]
      BY <2>2, ClearMarks DEF ClearMarker, tables, running, MarkInv
    <3>2. at[o] # None
      BY <3>1 DEF Ending, WorkInv, Placed, SavePlaces, FsckPlaces
    <3>3. \A p \in Saves : pc'[p] # "saving"
      BY <1>0, <3>1, <3>2 DEF Ending, WorkInv, Placed, OneAtWork, PlacesOf, SavePlaces
    <3>4. EntryClaims /\ RowsClaimed /\ LooseMarked /\ LooseOwn
      BY DEF ClaimInv
    <3>5. /\ claims' \subseteq claims
          /\ \A c \in claims : c \in claims' \/ Loose(c)
          /\ \A c \in claims : Loose(c)' <=> Loose(c)
      BY <3>1 DEF Unused, Loose, HasRow, RowsOf
    <3>6. EntryClaims' /\ LooseOwn'
      BY <3>1, <3>4, <3>5 DEF EntryClaims, LooseOwn, Stage
    <3>7. RowsClaimed'
      <4> SUFFICES ASSUME NEW x \in rows, Type[x.rec] \in EntryTypes
                   PROVE  ClaimOf(x.rec, x.sid) \in claims'
        BY <3>1 DEF RowsClaimed
      <4>1. ClaimOf(x.rec, x.sid) \in claims
        BY <3>4 DEF RowsClaimed
      <4>2. ~Loose(ClaimOf(x.rec, x.sid))
        BY <4>1 DEF Loose, HasRow, RowsOf, ClaimOf
      <4> QED BY <3>5, <4>1, <4>2
    <3>8. LooseMarked'
      <4> SUFFICES ASSUME NEW c \in claims', Loose(c)' PROVE marker'[<<Type[c.rec], "parent">>] # None
        BY DEF LooseMarked
      <4>1. c \in claims /\ Loose(c) /\ <<Type[c.rec], "parent">> \in Tables
        BY <3>5 DEF Tables, TypeInv, TypeOK
      <4>2. marker[<<Type[c.rec], "parent">>] # None
        BY <3>4, <4>1 DEF LooseMarked
      <4>3. t # <<Type[c.rec], "parent">>
        BY <3>1, <4>1 DEF Unused, Loose
      <4>4. marker \in [Tables -> Ops \cup {None}]
        BY DEF TypeInv, TypeOK
      <4> QED BY <3>1, <4>1, <4>2, <4>3, <4>4
    <3> QED BY <3>3, <3>6, <3>7, <3>8 DEF ClaimInv, StageClaimed
  <2> QED BY <1>6, <2>1, <2>2 DEF End
<1>7. ASSUME NEW s \in Stores, Die(s)
      PROVE  ClaimInv'
  <2>1. /\ UNCHANGED <<rows, claims, marker>>
        /\ pc' = [o \in Ops |-> IF at[o] # s THEN pc[o]
                                ELSE IF pc[o] = "raising" THEN "failed" ELSE "dead"]
        /\ job' = [o \in Ops |-> IF at[o] = s THEN Idle ELSE job[o]]
        /\ at' = [o \in Ops |-> IF at[o] = s THEN None ELSE at[o]]
    BY <1>7 DEF Die, tables
  <2> QED BY <1>0, <2>1, ClaimUntouched
<1>8. CASE Quiet
  <2>1. UNCHANGED <<rows, claims, marker, at, job>>
    BY <1>8 DEF Quiet, tables
  <2>2. \A p \in Saves : pc'[p] = "saving" => pc[p] = "saving"
    BY <1>0, <1>8 DEF Quiet
  <2> QED BY <2>1, <2>2, ClaimUntouched
<1> QED BY <1>1, <1>2, <1>3, <1>4, <1>5, <1>6, <1>7, <1>8, QuietSteps DEF Next

(* Entry ids and rows stay in step: what is visible is claimed, and a      *)
(* claim without a row is the running save's own, so that a save that dies *)
(* can be repeated under its id.                                           *)
THEOREM EntriesClaimed == Spec => []ClaimsSound
<1> DEFINE Inv == TypeInv /\ WriterInv /\ WorkInv /\ MarkInv /\ ClaimInv
<1>1. Init => Inv
  BY TypeInit, WriterInit, WorkInit, MarkInit, ClaimInit
<1>2. Inv /\ [Next]_vars => Inv'
  BY TypeStep, WriterStep, WorkStep, MarkStep, ClaimStep
<1>3. Inv => ClaimsSound
  BY DEF ClaimInv, RowsClaimed, LooseOwn, Loose, ClaimOf, ClaimsSound
<1> QED BY <1>1, <1>2, <1>3, PTL DEF Spec
-----------------------------------------------------------------------------
(* Rows: a record has one row at most, none while its sid is reserved; the *)
(* row that a save is for stays a main row from the moment it is there.    *)

OneRow == \A y, z \in rows : y.rec = z.rec => y = z

StagedHidden == \A o \in Saves, r \in Records : Staged(o, r) => Visible(r) = {}

MainRow(r, n) == \E z \in rows : z.rec = r /\ z.sid = n /\ z.main

DispatchMain == \A d \in dispatch : MainRow(d.rec, d.sid)

\* A save has its record; its row when it dispatches; its dispatch row when it ends.
RootSound(o) ==
  /\ pc[o] \in {"saving", "dispatching", "saved", "returned"} => \E r \in Records : job[o].root = {r}
  /\ pc[o] \in {"dispatching", "saved", "returned"} =>
       \A r \in job[o].root : MainRow(r, job[o].found[r])
  /\ pc[o] \in {"saved", "returned"} =>
       \A r \in job[o].root : Type[r] \in EntryTypes => ClaimOf(r, job[o].found[r]) \in dispatch

RowInv == OneRow /\ StagedHidden /\ DispatchMain /\ \A o \in Saves : RootSound(o)

LEMMA RowInit == Init => RowInv
  BY DEF Init, RowInv, OneRow, StagedHidden, DispatchMain, RootSound, Staged, Ops

\* The steps that change parent rows, and those that change dispatch rows.
LEMMA RowsMove ==
  ASSUME [Next]_vars
  PROVE  /\ \/ rows' = rows
            \/ \E o \in Saves, r \in Records : SaveRecord(o, r) /\ (Promote(o, r) \/ WriteParent(o, r))
            \/ \E f \in Fscks, y \in Types : CollectType(f, y)
         /\ \/ dispatch' = dispatch
            \/ \E o \in Saves : WriteDispatch(o)
            \/ \E f \in Fscks : RepairAndMark(f)
<1> DEFINE Goal == /\ \/ rows' = rows
                      \/ \E o \in Saves, r \in Records : SaveRecord(o, r) /\ (Promote(o, r) \/ WriteParent(o, r))
                      \/ \E f \in Fscks, y \in Types : CollectType(f, y)
                   /\ \/ dispatch' = dispatch
                      \/ \E o \in Saves : WriteDispatch(o)
                      \/ \E f \in Fscks : RepairAndMark(f)
<1>1. ASSUME NEW o \in Saves, NEW s \in Stores, NEW r \in Records, StartSave(o, s, r) PROVE Goal
  BY <1>1 DEF StartSave, Begin, tables
<1>2. ASSUME NEW f \in Fscks, NEW s \in Stores, StartFsck(f, s) PROVE Goal
  BY <1>2 DEF StartFsck, Begin, tables
<1>3. ASSUME NEW o \in Saves, NEW r \in Records, SaveRecord(o, r) PROVE Goal
  <2>1. CASE Promote(o, r) \/ WriteParent(o, r)
    <3>1. dispatch' = dispatch
      BY <2>1 DEF Promote, WriteParent
    <3> QED BY <1>3, <2>1, <3>1
  <2>2. CASE ~(Promote(o, r) \/ WriteParent(o, r))
    <3>1. UNCHANGED <<rows, dispatch>>
      BY <1>3, <2>2 DEF SaveRecord, Descend, Reserve, TouchChildTable, WriteKid, ClaimEntry, tables
    <3> QED BY <3>1
  <2> QED BY <2>1, <2>2
<1>4. ASSUME NEW o \in Saves, WriteDispatch(o) \/ SaveFails(o) PROVE Goal
  <2>1. CASE WriteDispatch(o)
    BY <2>1 DEF WriteDispatch, tables
  <2>2. CASE SaveFails(o)
    BY <2>2 DEF SaveFails, tables
  <2> QED BY <1>4, <2>1, <2>2
<1>5. ASSUME NEW f \in Fscks, Fsck(f) PROVE Goal
  <2>1. CASE RepairAndMark(f)
    BY <2>1 DEF RepairAndMark, tables
  <2>2. CASE SweepChildren(f)
    BY <2>2 DEF SweepChildren
  <2>3. CASE SyncClaims(f)
    BY <2>3 DEF SyncClaims, tables
  <2>4. ASSUME NEW y \in Types, CollectType(f, y) PROVE Goal
    <3>1. dispatch' = dispatch
      BY <2>4 DEF CollectType
    <3> QED BY <2>4, <3>1
  <2> QED BY <1>5, <2>1, <2>2, <2>3, <2>4 DEF Fsck
<1>6. ASSUME NEW o \in Ops, End(o) PROVE Goal
  BY <1>6 DEF End, EndOperation, ClearMarker, tables
<1>7. ASSUME NEW s \in Stores, Die(s) PROVE Goal
  BY <1>7 DEF Die, tables
<1>8. ASSUME Quiet PROVE Goal
  BY <1>8 DEF Quiet, tables
<1> HIDE DEF Goal
<1>9. ASSUME \/ UNCHANGED vars
             \/ \E o \in Ops, s \in Stores : Refused(o, s)
             \/ \E s \in Stores : ReadForSteal(s) \/ Steal(s) \/ StealFree(s) \/ Dispose(s)
      PROVE  Goal
  BY <1>8, <1>9, QuietSteps
<1>10. Goal
  BY <1>1, <1>2, <1>3, <1>4, <1>5, <1>6, <1>7, <1>9 DEF Next
<1> QED BY <1>10 DEF Goal

\* Row x of the root becomes z.
Promotion(o, r, x, z) ==
  /\ x \in rows /\ z \in rows'
  /\ x.rec = r /\ x \in RowType
  /\ z.rec = r /\ z.sid = x.sid /\ z.main /\ z.refs = x.refs
  /\ rows' = (rows \ {x}) \cup {z}
  /\ \A w \in rows : w.rec = r => w = x
  /\ job'[o].found[r] = x.sid
  /\ job'[o].root = {r} /\ pc'[o] = "dispatching"

LEMMA Promoted ==
  ASSUME TypeInv, OneRow, NEW o \in Saves, NEW r \in Records, Promote(o, r)
  PROVE  \E x, z : Promotion(o, r, x, z)
<1>1. PICK x \in Visible(r) :
        /\ rows' = (rows \ {x}) \cup {[x EXCEPT !.main = TRUE]}
        /\ job' = [job EXCEPT ![o].found[r] = x.sid, ![o].stage[r] = "none"]
  BY DEF Promote
<1>2. x \in rows /\ x.rec = r /\ x \in RowType
  BY <1>1 DEF Visible, TypeInv, TypeOK, RowType
<1> DEFINE z == [x EXCEPT !.main = TRUE]
<1>3. z.rec = r /\ z.sid = x.sid /\ z.main /\ z.refs = x.refs
  BY <1>2 DEF RowType
<1>4. job'[o].found[r] = x.sid /\ job'[o].root = {r} /\ pc'[o] = "dispatching"
  <2>1. o \in Ops /\ job \in [Ops -> JobType] /\ pc \in [Ops -> Places]
    BY DEF Ops, TypeInv, TypeOK, JobType
  <2>2. pc' = [pc EXCEPT ![o] = "dispatching"] /\ job[o].root = {r}
    BY DEF Promote
  <2> QED BY <1>1, <2>1, <2>2 DEF JobType
<1>5. \A w \in rows : w.rec = r => w = x
  BY <1>2 DEF OneRow
<1>6. z \in rows' /\ rows' = (rows \ {x}) \cup {z}
  BY <1>1
<1> HIDE DEF z
<1>7. Promotion(o, r, x, z)
  BY <1>2, <1>3, <1>4, <1>5, <1>6 DEF Promotion
<1> QED BY <1>7

\* Row n of the record is written.
Parenting(o, r, n) ==
  /\ n \in rows' /\ rows' = rows \cup {n}
  /\ n.rec = r /\ n.sid = job[o].sid[r] /\ n.main = IsRoot(o, r)
  /\ n.refs = {<<q, job[o].found[q]>> : q \in Refs[r]}
  /\ Stage(o, r) = "row" /\ Staged(o, r)
  /\ job'[o].found = [job[o].found EXCEPT ![r] = job[o].sid[r]]
  /\ job'[o].stage = [job[o].stage EXCEPT ![r] = "none"]
  /\ job'[o].sid = job[o].sid /\ job'[o].root = job[o].root
  /\ pc'[o] = IF IsRoot(o, r) THEN "dispatching" ELSE "saving"

LEMMA ParentWritten ==
  ASSUME TypeInv, NEW o \in Saves, NEW r \in Records, WriteParent(o, r)
  PROVE  \E n : Parenting(o, r, n)
<1> DEFINE n == [rec |-> r, sid |-> job[o].sid[r], main |-> IsRoot(o, r),
                 refs |-> {<<q, job[o].found[q]>> : q \in Refs[r]}]
<1>1. /\ rows' = rows \cup {n} /\ Stage(o, r) = "row" /\ pc[o] = "saving"
      /\ job' = [job EXCEPT ![o].found[r] = job[o].sid[r], ![o].stage[r] = "none"]
      /\ pc' = [pc EXCEPT ![o] = IF IsRoot(o, r) THEN "dispatching" ELSE @]
  BY DEF WriteParent, Innermost
<1>2. /\ job'[o].found = [job[o].found EXCEPT ![r] = job[o].sid[r]]
      /\ job'[o].stage = [job[o].stage EXCEPT ![r] = "none"]
      /\ job'[o].sid = job[o].sid /\ job'[o].root = job[o].root
      /\ pc'[o] = IF IsRoot(o, r) THEN "dispatching" ELSE "saving"
  <2>1. o \in Ops /\ job \in [Ops -> JobType] /\ pc \in [Ops -> Places]
    BY DEF Ops, TypeInv, TypeOK, JobType
  <2> QED BY <1>1, <2>1 DEF JobType
<1>3. /\ n.rec = r /\ n.sid = job[o].sid[r] /\ n.main = IsRoot(o, r) /\ n \in rows'
      /\ n.refs = {<<q, job[o].found[q]>> : q \in Refs[r]}
  BY <1>1
<1> HIDE DEF n
<1>4. Parenting(o, r, n)
  BY <1>1, <1>2, <1>3 DEF Parenting, Staged
<1> QED BY <1>4

\* Main rows stay what they are.
LEMMA MainsStay ==
  ASSUME TypeInv, RowInv, [Next]_vars, NEW r, NEW n, MainRow(r, n)
  PROVE  MainRow(r, n)'
<1>1. PICK w \in rows : w.rec = r /\ w.sid = n /\ w.main
  BY DEF MainRow
<1>2. CASE rows' = rows
  BY <1>1, <1>2 DEF MainRow
<1>3. ASSUME NEW o \in Saves, NEW q \in Records, Promote(o, q) PROVE MainRow(r, n)'
  <2>1. PICK x, z : Promotion(o, q, x, z)
    BY <1>3, Promoted DEF RowInv
  <2>2. CASE w = x
    BY <1>1, <2>1, <2>2 DEF MainRow, Promotion
  <2>3. CASE w # x
    BY <1>1, <2>1, <2>3 DEF MainRow, Promotion
  <2> QED BY <2>2, <2>3
<1>4. ASSUME NEW o \in Saves, NEW q \in Records, WriteParent(o, q) PROVE MainRow(r, n)'
  BY <1>1, <1>4 DEF MainRow, WriteParent
<1>5. ASSUME NEW f \in Fscks, NEW y \in Types, CollectType(f, y) PROVE MainRow(r, n)'
  BY <1>1, <1>5 DEF MainRow, CollectType
<1> QED BY <1>2, <1>3, <1>4, <1>5, RowsMove

LEMMA FoundMainStays ==
  ASSUME TypeInv, RowInv, [Next]_vars, NEW o \in Saves, NEW r,
         MainRow(r, job[o].found[r]), job'[o].found[r] = job[o].found[r]
  PROVE  MainRow(r, job[o].found[r])'
<1>1. PICK n : n = job[o].found[r]
  OBVIOUS
<1>2. MainRow(r, n)'
  BY <1>1, MainsStay
<1> QED BY <1>1, <1>2 DEF MainRow

LEMMA OneRowStep ==
  ASSUME TypeInv, RowInv, [Next]_vars
  PROVE  OneRow'
<1>0. OneRow
  BY DEF RowInv
<1>1. CASE rows' = rows
  BY <1>0, <1>1 DEF OneRow
<1>2. ASSUME NEW o \in Saves, NEW q \in Records, Promote(o, q) PROVE OneRow'
  <2>1. PICK x, z : Promotion(o, q, x, z)
    BY <1>0, <1>2, Promoted
  <2> QED BY <1>0, <2>1 DEF OneRow, Promotion
<1>3. ASSUME NEW o \in Saves, NEW q \in Records, WriteParent(o, q) PROVE OneRow'
  <2>1. PICK n : Parenting(o, q, n)
    BY <1>3, ParentWritten
  <2>2. \A w \in rows : w.rec # q
    BY <2>1 DEF RowInv, StagedHidden, Visible, Parenting
  <2> QED BY <1>0, <2>1, <2>2 DEF OneRow, Parenting
<1>4. ASSUME NEW f \in Fscks, NEW y \in Types, CollectType(f, y) PROVE OneRow'
  BY <1>0, <1>4 DEF OneRow, CollectType
<1> QED BY <1>1, <1>2, <1>3, <1>4, RowsMove

LEMMA StagedHiddenStep ==
  ASSUME TypeInv, WriterInv, WorkInv, RowInv, [Next]_vars
  PROVE  StagedHidden'
<1> SUFFICES ASSUME NEW p \in Saves, NEW q \in Records, Staged(p, q)' PROVE Visible(q)' = {}
  BY DEF StagedHidden
<1>0. p \in Ops /\ pc'[p] = "saving"
  BY DEF Ops, Staged
<1>1. ASSUME NEW s \in Stores, NEW r \in Records, StartSave(p, s, r) PROVE FALSE
  BY <1>0, <1>1 DEF StartSave, Begin, TypeInv, TypeOK, Staged, Stage, Idle
<1>2. ASSUME NEW r \in Records, SaveRecord(p, r) PROVE Visible(q)' = {}
  <2>1. Visible(q) = {}
    <3>1. CASE Reserve(p, r) /\ q = r
      BY <3>1 DEF Reserve
    <3>2. CASE Staged(p, q)
      BY <3>2 DEF RowInv, StagedHidden
    <3> QED BY <1>2, <3>1, <3>2, StagedBefore
  <2>2. CASE rows' = rows
    BY <2>1, <2>2 DEF Visible
  <2>3. ASSUME Promote(p, r) PROVE FALSE
    BY <1>0, <2>3 DEF Promote, TypeInv, TypeOK
  <2>4. CASE WriteParent(p, r)
    <3>1. PICK n : Parenting(p, r, n)
      BY <2>4, ParentWritten
    <3>2. q # r
      <4>1. job[p].stage \in [Records -> Stages]
        BY <1>0 DEF TypeInv, TypeOK
      <4> QED BY <3>1, <4>1 DEF Staged, Stage, Parenting
    <3> QED BY <2>1, <3>1, <3>2 DEF Visible, Parenting
  <2>5. rows' = rows \/ Promote(p, r) \/ WriteParent(p, r)
    BY <1>2 DEF SaveRecord, Descend, Reserve, TouchChildTable, WriteKid, ClaimEntry, tables
  <2> QED BY <2>2, <2>3, <2>4, <2>5
<1>3. CASE Quiet /\ pc[p] = "saving"
  BY <1>3 DEF Quiet, Staged, Stage, RowInv, StagedHidden, Visible, tables
<1> QED BY <1>0, <1>1, <1>2, <1>3, SavingBefore

LEMMA DispatchStep ==
  ASSUME TypeInv, RowInv, [Next]_vars
  PROVE  DispatchMain' /\ dispatch \subseteq dispatch'
<1>1. \A d \in dispatch : MainRow(d.rec, d.sid)'
  BY MainsStay DEF RowInv, DispatchMain
<1>2. CASE dispatch' = dispatch
  BY <1>1, <1>2 DEF DispatchMain
<1>3. ASSUME NEW o \in Saves, WriteDispatch(o) PROVE DispatchMain' /\ dispatch \subseteq dispatch'
  <2>1. PICK r \in job[o].root :
          \/ dispatch' = dispatch
          \/ dispatch' = dispatch \cup {[rec |-> r, sid |-> job[o].found[r]]}
    BY <1>3 DEF WriteDispatch
  <2>2. pc[o] = "dispatching"
    BY <1>3 DEF WriteDispatch
  <2>3. job' = job
    BY <1>3 DEF WriteDispatch
  <2>4. MainRow(r, job[o].found[r])'
    <3>1. MainRow(r, job[o].found[r])
      BY <2>2 DEF RowInv, RootSound
    <3> QED BY <2>3, <3>1, FoundMainStays
  <2> QED BY <1>1, <2>1, <2>3, <2>4 DEF DispatchMain, MainRow
<1>4. ASSUME NEW f \in Fscks, RepairAndMark(f) PROVE DispatchMain' /\ dispatch \subseteq dispatch'
  <2>1. /\ dispatch' = dispatch \cup
             {[rec |-> x.rec, sid |-> x.sid] :
                x \in {y \in rows : y.main /\ Type[y.rec] \in EntryTypes
                                    /\ ~\E d \in dispatch : d.rec = y.rec}}
        /\ rows' = rows
    BY <1>4 DEF RepairAndMark, tables
  <2>2. \A d \in dispatch' : d \in dispatch \/ \E x \in rows : x.main /\ d = [rec |-> x.rec, sid |-> x.sid]
    BY <2>1
  <2>3. DispatchMain'
    BY <1>1, <2>1, <2>2 DEF DispatchMain, MainRow
  <2> QED BY <2>1, <2>3
<1> QED BY <1>2, <1>3, <1>4, RowsMove

LEMMA RootStep ==
  ASSUME TypeInv, WorkInv, RowInv, [Next]_vars, NEW p \in Saves
  PROVE  RootSound(p)'
<1> USE DegradedAssumption
<1>0. /\ p \in Ops /\ p \notin Fscks /\ Saves \subseteq Ops /\ Fscks \subseteq Ops
      /\ pc \in [Ops -> Places] /\ job \in [Ops -> JobType] /\ job[p] \in JobType
      /\ RootSound(p)
  BY DEF Ops, TypeInv, TypeOK, JobType, RowInv
<1>a. dispatch \subseteq dispatch'
  BY DispatchStep
<1>b. ASSUME pc'[p] = pc[p], job'[p] = job[p] PROVE RootSound(p)'
  <2>1. ASSUME NEW r \in job[p].root, pc[p] \in {"dispatching", "saved", "returned"}
        PROVE  MainRow(r, job[p].found[r])'
    <3>1. MainRow(r, job[p].found[r])
      BY <1>0, <2>1 DEF RootSound
    <3> QED BY <1>b, <3>1, FoundMainStays
  <2> QED BY <1>0, <1>a, <1>b, <2>1 DEF RootSound
<1>c. ASSUME pc'[p] \notin {"saving", "dispatching", "saved", "returned"} PROVE RootSound(p)'
  BY <1>c DEF RootSound
<1>1. ASSUME NEW o \in Saves, NEW s \in Stores, NEW r \in Records, StartSave(o, s, r)
      PROVE  RootSound(p)'
  <2>1. /\ pc' = [pc EXCEPT ![o] = "saving"]
        /\ job' = [job EXCEPT ![o] = [Idle EXCEPT !.root = {r}, !.stage[r] = "refs"]]
    BY <1>1 DEF StartSave, Begin
  <2>2. CASE o = p
    BY <1>0, <2>1, <2>2 DEF RootSound, Idle
  <2>3. CASE o # p
    BY <1>0, <1>b, <2>1, <2>3
  <2> QED BY <2>2, <2>3
<1>2. ASSUME NEW f \in Fscks, NEW s \in Stores, StartFsck(f, s) PROVE RootSound(p)'
  BY <1>0, <1>2, <1>b DEF StartFsck, Begin
<1>3. ASSUME NEW o \in Saves, NEW r \in Records, SaveRecord(o, r) PROVE RootSound(p)'
  <2>1. CASE o # p
    BY <1>0, <1>3, <1>b, <2>1, SaverIs
  <2>2. CASE o = p /\ Promote(p, r)
    <3>1. PICK x, z : Promotion(p, r, x, z)
      BY <2>2, Promoted DEF RowInv
    <3>2. job'[p].root = {r} /\ pc'[p] = "dispatching"
      BY <3>1 DEF Promotion
    <3>3. MainRow(r, job[p].found[r])'
      BY <3>1 DEF MainRow, Promotion
    <3> QED BY <3>2, <3>3 DEF RootSound
  <2>3. CASE o = p /\ WriteParent(p, r)
    <3>1. PICK n : Parenting(p, r, n)
      BY <2>3, ParentWritten
    <3>2. CASE IsRoot(p, r)
      <4>1. job'[p].root = {r} /\ pc'[p] = "dispatching"
        BY <3>1, <3>2 DEF IsRoot, Parenting
      <4>2. job'[p].found[r] = n.sid /\ n \in rows' /\ n.rec = r /\ n.main
        BY <1>0, <3>1, <3>2 DEF JobType, Parenting
      <4>3. MainRow(r, job[p].found[r])'
        BY <4>2 DEF MainRow
      <4> QED BY <4>1, <4>3 DEF RootSound
    <3>3. CASE ~IsRoot(p, r)
      <4>1. pc'[p] = "saving" /\ pc[p] = "saving" /\ job'[p].root = job[p].root
        BY <3>1, <3>3 DEF Parenting, Staged
      <4> QED BY <1>0, <4>1 DEF RootSound
    <3> QED BY <3>2, <3>3
  <2>4. ASSUME o = p, ~Promote(p, r), ~WriteParent(p, r) PROVE pc' = pc /\ job'[p].root = job[p].root
    <3>1. CASE \E q \in Records : Descend(p, r, q)
      BY <1>0, <3>1 DEF Descend, JobType
    <3>2. CASE Reserve(p, r)
      BY <1>0, <3>2 DEF Reserve, JobType
    <3>3. CASE TouchChildTable(p, r)
      BY <3>3 DEF TouchChildTable, running
    <3>4. CASE WriteKid(p, r)
      BY <3>4 DEF WriteKid, running
    <3>5. CASE ClaimEntry(p, r)
      BY <1>0, <3>5 DEF ClaimEntry, JobType
    <3> QED BY <1>3, <2>4, <3>1, <3>2, <3>3, <3>4, <3>5 DEF SaveRecord
  <2>5. CASE o = p /\ ~Promote(p, r) /\ ~WriteParent(p, r)
    <3>1. pc'[p] = "saving" /\ pc[p] = "saving"
      BY <1>3, <2>4, <2>5, SaverIs
    <3> QED BY <1>0, <2>4, <2>5, <3>1 DEF RootSound
  <2> QED BY <2>1, <2>2, <2>3, <2>5
<1>4. ASSUME NEW o \in Saves, WriteDispatch(o) PROVE RootSound(p)'
  <2>1. job' = job /\ pc' = [pc EXCEPT ![o] = "saved"] /\ pc[o] = "dispatching"
    BY <1>4 DEF WriteDispatch
  <2>2. CASE o # p
    BY <1>0, <1>b, <2>1, <2>2
  <2>3. CASE o = p
    <3>1. PICK r \in Records : job[p].root = {r}
      BY <1>0, <2>1, <2>3 DEF RootSound
    <3>2. MainRow(r, job[p].found[r])
      BY <1>0, <2>1, <2>3, <3>1 DEF RootSound
    <3>3. MainRow(r, job[p].found[r])'
      BY <2>1, <3>2, FoundMainStays
    <3>4. Type[r] \in EntryTypes => ClaimOf(r, job[p].found[r]) \in dispatch'
      <4> SUFFICES ASSUME Type[r] \in EntryTypes PROVE ClaimOf(r, job[p].found[r]) \in dispatch'
        OBVIOUS
      <4>1. CASE \E d \in dispatch : d.rec = r
        <5>1. PICK d \in dispatch : d.rec = r
          BY <4>1
        <5>2. MainRow(r, d.sid)
          BY <5>1 DEF RowInv, DispatchMain
        <5>3. d.sid = job[p].found[r]
          BY <3>2, <5>2 DEF MainRow, RowInv, OneRow
        <5>4. d \in EntryKey
          BY DEF TypeInv, TypeOK, EntryKey
        <5>5. d = ClaimOf(r, job[p].found[r])
          BY <5>1, <5>3, <5>4 DEF EntryKey, ClaimOf
        <5> QED BY <1>a, <5>5
      <4>2. CASE ~\E d \in dispatch : d.rec = r
        BY <1>4, <2>3, <3>1, <4>2 DEF WriteDispatch, ClaimOf
      <4> QED BY <4>1, <4>2
    <3>5. pc'[p] = "saved" /\ job'[p].root = {r}
      BY <1>0, <2>1, <2>3, <3>1
    <3> QED BY <2>1, <3>3, <3>4, <3>5 DEF RootSound
  <2> QED BY <2>2, <2>3
<1>5. ASSUME NEW o \in Saves, SaveFails(o) PROVE RootSound(p)'
  <2>1. job' = job /\ pc' = [pc EXCEPT ![o] = "raising"]
    BY <1>5 DEF SaveFails
  <2>2. CASE o # p
    BY <1>0, <1>b, <2>1, <2>2
  <2>3. CASE o = p
    BY <1>0, <1>c, <2>1, <2>3
  <2> QED BY <2>2, <2>3
<1>6. ASSUME NEW f \in Fscks, Fsck(f) PROVE RootSound(p)'
  <2>1. p # f
    BY <1>0
  <2> QED BY <1>0, <1>6, <1>b, <2>1, FsckIs
<1>7. ASSUME NEW o \in Ops, EndOperation(o) PROVE RootSound(p)'
  <2>1. /\ job' = job /\ dispatch' = dispatch
        /\ pc' = [pc EXCEPT ![o] = IF @ = "raising" THEN "failed" ELSE "returned"]
        /\ pc[o] \in {"saved", "raising", "swept"}
    BY <1>7 DEF EndOperation, Ending
  <2>2. CASE o # p
    BY <1>0, <1>b, <2>1, <2>2
  <2>3. CASE o = p /\ pc[p] = "raising"
    BY <1>0, <1>c, <2>1, <2>3
  <2>4. CASE o = p /\ pc[p] # "raising"
    <3>1. pc[p] = "saved"
      BY <1>0, <2>1, <2>4 DEF WorkInv, Placed, PlacesOf, SavePlaces, FsckPlaces
    <3>2. pc'[p] = "returned"
      BY <1>0, <2>1, <2>4
    <3>3. ASSUME NEW r \in job[p].root PROVE MainRow(r, job[p].found[r])'
      <4>1. MainRow(r, job[p].found[r])
        BY <1>0, <3>1 DEF RootSound
      <4> QED BY <2>1, <4>1, FoundMainStays
    <3> QED BY <1>0, <2>1, <3>1, <3>2, <3>3 DEF RootSound
  <2> QED BY <2>2, <2>3, <2>4
<1>8. ASSUME NEW o \in Ops, NEW t \in Tables, ClearMarker(o, t) PROVE RootSound(p)'
  BY <1>8, <1>b DEF ClearMarker, running
<1>9. ASSUME NEW s \in Stores, Die(s) PROVE RootSound(p)'
  <2>1. CASE at[p] = s
    <3>1. pc'[p] \in {"failed", "dead"}
      BY <1>0, <1>9, <2>1 DEF Die
    <3> QED BY <1>c, <3>1
  <2>2. CASE at[p] # s
    BY <1>0, <1>9, <1>b, <2>2 DEF Die
  <2> QED BY <2>1, <2>2
<1>10. CASE Quiet
  <2>1. job' = job /\ (pc'[p] = pc[p] \/ pc'[p] = "failed")
    BY <1>0, <1>10 DEF Quiet
  <2> QED BY <1>b, <1>c, <2>1
<1> QED BY <1>1, <1>2, <1>3, <1>4, <1>5, <1>6, <1>7, <1>8, <1>9, <1>10, QuietSteps DEF Next, End

LEMMA RowStep == TypeInv /\ WriterInv /\ WorkInv /\ RowInv /\ [Next]_vars => RowInv'
<1> SUFFICES ASSUME TypeInv, WriterInv, WorkInv, RowInv, [Next]_vars PROVE RowInv'
  OBVIOUS
<1>1. OneRow' /\ StagedHidden' /\ DispatchMain'
  BY OneRowStep, StagedHiddenStep, DispatchStep
<1>2. \A p \in Saves : RootSound(p)'
  BY RootStep
<1> QED BY <1>1, <1>2 DEF RowInv

(* What save has returned stays: the main row of its record under the sid  *)
(* that it returned, and its dispatch row, whatever runs, fails or dies    *)
(* later.                                                                  *)
THEOREM ReturnedStays == Spec => []SavesStay
<1> DEFINE Inv == TypeInv /\ WriterInv /\ WorkInv /\ RowInv
<1>1. Init => Inv
  BY TypeInit, WriterInit, WorkInit, RowInit
<1>2. Inv /\ [Next]_vars => Inv'
  BY TypeStep, WriterStep, WorkStep, RowStep
<1>3. Inv => SavesStay
  BY DEF RowInv, RootSound, MainRow, ClaimOf, SavesStay
<1> QED BY <1>1, <1>2, <1>3, PTL DEF Spec
-----------------------------------------------------------------------------
(* Residue: a child row without its parent row is of a save under way, or  *)
(* of one that failed and lived, or of one that died and whose markers are *)
(* still there; or fsck is about to sweep it.                              *)

\* What is on the call stack is the root or part of something on the stack.
Chained ==
  \A o \in Saves, r \in Records :
    pc[o] = "saving" /\ Stage(o, r) # "none" =>
      job[o].root = {r} \/ \E p \in Records : Stage(o, p) # "none" /\ r \in Parts(p)

Collecting == \E f \in Fscks : pc[f] = "collecting"

UnderWay(k) ==
  /\ Staged(k.by, k.rec) /\ job[k.by].sid[k.rec] = k.sid
  /\ <<Type[k.rec], "child">> \in Touched(k.by)

LeftMarked(k) ==
  /\ pc[k.by] = "dead"
  /\ marker[<<Type[k.rec], "parent">>] = k.by
  /\ marker[<<Type[k.rec], "child">>] = k.by

Excused(k) == pc[k.by] \in {"failed", "raising"} \/ UnderWay(k) \/ LeftMarked(k)

OrphansExcused ==
  \A k \in kids : ~HasRow(Type[k.rec], k.sid) => Excused(k) \/ Collecting

ResidueInv == Chained /\ OrphansExcused

LEMMA ResidueInit == Init => ResidueInv
  BY DEF Init, ResidueInv, Chained, OrphansExcused, Ops

(* When the root is innermost, nothing else is on the stack: of what else  *)
(* is there, the record of the highest rank has no part it could be of.    *)
LEMMA OnlyRoot ==
  ASSUME TypeInv, Chained, NEW o \in Saves, NEW r \in Records, Innermost(o, r), job[o].root = {r},
         NEW q \in Records, Stage(o, q) # "none"
  PROVE  q = r
<1>1. PICK rank \in [Records -> 1..Cardinality(Records)] :
        \A u \in Records : \A v \in Parts(u) : rank[v] < rank[u]
  BY AcyclicAssumption
<1>2. Cardinality(Records) \in Nat /\ IsFiniteSet(1..Cardinality(Records))
  BY AcyclicAssumption, FS_CardinalityType, FS_Interval
<1> DEFINE Others == {u \in Records : Stage(o, u) # "none" /\ u # r}
           S == {rank[u] : u \in Others}
<1> SUFFICES ASSUME q # r PROVE FALSE
  OBVIOUS
<1>3. S \subseteq 1..Cardinality(Records) /\ S # {}
  OBVIOUS
<1>4. IsFiniteSet(S) /\ S \in SUBSET Nat
  BY <1>2, <1>3, FS_Subset
<1> HIDE DEF S
<1>5. Max(S) \in S /\ \A n \in S : n <= Max(S)
  BY <1>3, <1>4, GreatestNumber
<1>6. PICK u \in Others : \A v \in Others : rank[v] <= rank[u]
  BY <1>5 DEF S
<1>7. PICK p \in Records : Stage(o, p) # "none" /\ u \in Parts(p)
  BY <1>6 DEF Chained, Innermost
<1>8. p # r
  BY <1>6, <1>7 DEF Innermost
<1>9. rank[p] <= rank[u] /\ rank[u] < rank[p]
  BY <1>1, <1>6, <1>7, <1>8
<1>10. rank[p] \in Nat /\ rank[u] \in Nat
  BY <1>1, <1>2, <1>6, <1>7
<1> QED BY <1>9, <1>10

\* The stack grows from the innermost record and shrinks from it.
LEMMA ChainedStep ==
  ASSUME TypeInv, WriterInv, WorkInv, Chained, [Next]_vars
  PROVE  Chained'
<1> SUFFICES ASSUME NEW o \in Saves, NEW q \in Records, pc'[o] = "saving", job'[o].stage[q] # "none"
             PROVE  \/ job'[o].root = {q}
                    \/ \E p \in Records : job'[o].stage[p] # "none" /\ q \in Parts(p)
  BY DEF Chained, Stage
<1>0. o \in Ops /\ job \in [Ops -> JobType] /\ job[o] \in JobType /\ pc \in [Ops -> Places]
  BY DEF Ops, TypeInv, TypeOK, JobType
<1> DEFINE Goal == \/ job'[o].root = {q}
                   \/ \E p \in Records : job'[o].stage[p] # "none" /\ q \in Parts(p)
<1>1. ASSUME NEW s \in Stores, NEW r \in Records, StartSave(o, s, r) PROVE Goal
  BY <1>0, <1>1 DEF StartSave, Begin, Idle
<1>2. ASSUME pc[o] = "saving", job'[o].root = job[o].root,
             \A u \in Records : job[o].stage[u] # "none" => job'[o].stage[u] # "none",
             job[o].stage[q] # "none"
      PROVE  Goal
  BY <1>2 DEF Chained, Stage
<1>3. ASSUME pc[o] = "saving", NEW r \in Records, SaveRecord(o, r) PROVE Goal
  <2>1. ASSUME NEW u \in Records, Descend(o, r, u) PROVE Goal
    <3>1. CASE job' = [job EXCEPT ![o].stage[u] = "refs"]
      <4>1. job'[o].stage = [job[o].stage EXCEPT ![u] = "refs"] /\ job'[o].root = job[o].root
        BY <1>0, <3>1 DEF JobType
      <4>2. \A v \in Records : job[o].stage[v] # "none" => job'[o].stage[v] # "none"
        BY <1>0, <4>1 DEF JobType
      <4>3. CASE q = u
        <5>1. Stage(o, r) # "none" /\ u \in Parts(r)
          BY <2>1 DEF Descend, Innermost, Wanted, Parts
        <5> QED BY <4>2, <4>3, <5>1 DEF Stage
      <4>4. CASE q # u
        <5>1. job[o].stage[q] # "none"
          BY <1>0, <4>1, <4>4 DEF JobType
        <5> QED BY <1>2, <1>3, <4>1, <4>2, <5>1
      <4> QED BY <4>3, <4>4
    <3>2. CASE \E x \in Visible(u) : job' = [job EXCEPT ![o].found[u] = x.sid]
      <4>1. job'[o].stage = job[o].stage /\ job'[o].root = job[o].root
        BY <1>0, <3>2 DEF JobType
      <4> QED BY <1>2, <1>3, <4>1
    <3> QED BY <2>1, <3>1, <3>2 DEF Descend
  <2>2. ASSUME Promote(o, r) PROVE FALSE
    BY <1>0, <2>2 DEF Promote
  <2>3. CASE Reserve(o, r)
    <3>1. /\ job'[o].stage = [job[o].stage EXCEPT ![r] = "kids"] /\ job'[o].root = job[o].root
          /\ job[o].stage[r] = "refs"
      BY <1>0, <2>3 DEF Reserve, JobType, Stage
    <3>2. \A u \in Records : job[o].stage[u] # "none" <=> job'[o].stage[u] # "none"
      BY <1>0, <3>1 DEF JobType
    <3> QED BY <1>2, <1>3, <3>1, <3>2
  <2>4. CASE TouchChildTable(o, r) \/ WriteKid(o, r)
    <3>1. job' = job
      BY <2>4 DEF TouchChildTable, WriteKid, running
    <3> QED BY <1>2, <1>3, <3>1
  <2>5. CASE ClaimEntry(o, r)
    <3>1. /\ job'[o].stage = [job[o].stage EXCEPT ![r] = "row"] /\ job'[o].root = job[o].root
          /\ job[o].stage[r] = "kids"
      BY <1>0, <2>5 DEF ClaimEntry, JobType, Stage
    <3>2. \A u \in Records : job[o].stage[u] # "none" <=> job'[o].stage[u] # "none"
      BY <1>0, <3>1 DEF JobType
    <3> QED BY <1>2, <1>3, <3>1, <3>2
  <2>6. CASE WriteParent(o, r)
    <3>1. /\ job'[o].stage = [job[o].stage EXCEPT ![r] = "none"] /\ job'[o].root = job[o].root
          /\ Innermost(o, r)
      BY <1>0, <2>6 DEF WriteParent, JobType
    <3>2. /\ q # r /\ job[o].stage[q] # "none"
          /\ \A u \in Records : u # r => job'[o].stage[u] = job[o].stage[u]
      BY <1>0, <3>1 DEF JobType
    <3>3. CASE job[o].root = {q}
      BY <3>1, <3>3
    <3>4. CASE \E p \in Records : Stage(o, p) # "none" /\ q \in Parts(p)
      <4>1. PICK p \in Records : Stage(o, p) # "none" /\ q \in Parts(p)
        BY <3>4
      <4>2. p # r
        BY <3>1, <3>2, <4>1 DEF Innermost, Stage
      <4> QED BY <3>2, <4>1, <4>2 DEF Stage
    <3> QED BY <1>3, <3>2, <3>3, <3>4 DEF Chained, Stage
  <2> QED BY <1>3, <2>1, <2>2, <2>3, <2>4, <2>5, <2>6 DEF SaveRecord
<1>4. ASSUME pc[o] = "saving" /\ Quiet PROVE Goal
  <2>1. job' = job
    BY <1>4 DEF Quiet
  <2> QED BY <1>2, <1>4, <2>1
<1> HIDE DEF Goal
<1>5. Goal
  BY <1>1, <1>3, <1>4, SavingBefore
<1> QED BY <1>5 DEF Goal

\* An operation that is over stays as it is.
LEMMA RestStays ==
  ASSUME TypeInv, WorkInv, [Next]_vars, NEW p \in Ops, at[p] = None, pc[p] # "new"
  PROVE  pc'[p] = pc[p] /\ job'[p] = job[p]
<1> DEFINE Goal == pc'[p] = pc[p] /\ job'[p] = job[p]
<1> USE DegradedAssumption
<1>0. /\ Saves \subseteq Ops /\ Fscks \subseteq Ops
      /\ pc \in [Ops -> Places] /\ at \in [Ops -> Stores \cup {None}] /\ DOMAIN job = Ops
      /\ pc[p] \notin SavePlaces /\ pc[p] \notin FsckPlaces
  BY DEF Ops, TypeInv, TypeOK, WorkInv, Placed
<1>1. ASSUME NEW o \in Saves, NEW s \in Stores, NEW r \in Records, StartSave(o, s, r) PROVE Goal
  BY <1>0, <1>1 DEF StartSave, Begin
<1>2. ASSUME NEW f \in Fscks, NEW s \in Stores, StartFsck(f, s) PROVE Goal
  BY <1>0, <1>2 DEF StartFsck, Begin
<1>3. ASSUME NEW o \in Saves, NEW r \in Records, SaveRecord(o, r) PROVE Goal
  <2>1. p # o
    BY <1>0, <1>3, SaverIs DEF SavePlaces
  <2> QED BY <1>3, <2>1, SaverIs
<1>4. ASSUME NEW o \in Saves, WriteDispatch(o) \/ SaveFails(o) PROVE Goal
  BY <1>0, <1>4 DEF WriteDispatch, SaveFails, SavePlaces
<1>5. ASSUME NEW f \in Fscks, Fsck(f) PROVE Goal
  <2>1. p # f
    BY <1>0, <1>5, FsckIs
  <2> QED BY <1>5, <2>1, FsckIs
<1>6. ASSUME NEW o \in Ops, End(o) PROVE Goal
  <2>1. CASE EndOperation(o)
    BY <1>0, <2>1 DEF EndOperation, Ending, SavePlaces, FsckPlaces
  <2>2. CASE \E t \in Tables : ClearMarker(o, t)
    BY <2>2 DEF ClearMarker, running
  <2> QED BY <1>6, <2>1, <2>2 DEF End
<1>7. ASSUME NEW s \in Stores, Die(s) PROVE Goal
  BY <1>0, <1>7 DEF Die
<1>8. ASSUME Quiet PROVE Goal
  BY <1>0, <1>8 DEF Quiet
<1> HIDE DEF Goal
<1>9. ASSUME \/ UNCHANGED vars
             \/ \E o \in Ops, s \in Stores : Refused(o, s)
             \/ \E s \in Stores : ReadForSteal(s) \/ Steal(s) \/ StealFree(s) \/ Dispose(s)
      PROVE  Goal
  BY <1>8, <1>9, QuietSteps
<1>10. Goal
  BY <1>1, <1>2, <1>3, <1>4, <1>5, <1>6, <1>7, <1>9 DEF Next
<1> QED BY <1>10 DEF Goal

\* A failure stays one.
LEMMA FailureStays ==
  ASSUME TypeInv, WriterInv, WorkInv, [Next]_vars, NEW p \in Ops, pc[p] \in {"failed", "raising"}
  PROVE  pc'[p] \in {"failed", "raising"}
<1> USE DegradedAssumption
<1>0. pc \in [Ops -> Places] /\ at \in [Ops -> Stores \cup {None}]
  BY DEF TypeInv, TypeOK
<1>1. CASE at[p] = None
  BY <1>1, RestStays
<1>2. CASE at[p] # None
  <2>0. pc[p] = "raising"
    BY <1>2 DEF WorkInv, Placed, PlacesOf, SavePlaces, FsckPlaces
  <2>1. CASE Quiet
    BY <1>0, <2>0, <2>1 DEF Quiet
  <2>2. ASSUME p \in Saves, NEW r \in Records, SaveRecord(p, r) PROVE FALSE
    BY <2>0, <2>2, SaverIs
  <2>3. ASSUME WriteDispatch(p) \/ SaveFails(p) PROVE FALSE
    BY <2>0, <2>3 DEF WriteDispatch, SaveFails
  <2>4. ASSUME p \in Fscks, Fsck(p) PROVE FALSE
    BY <2>0, <2>4, FsckIs DEF FsckPlaces
  <2>5. CASE End(p)
    <3>1. CASE EndOperation(p)
      BY <1>0, <2>0, <3>1 DEF EndOperation
    <3>2. CASE \E t \in Tables : ClearMarker(p, t)
      BY <2>0, <3>2 DEF ClearMarker, running
    <3> QED BY <2>5, <3>1, <3>2 DEF End
  <2>6. CASE at[p] \in Stores /\ Die(at[p])
    BY <1>0, <2>0, <2>6 DEF Die
  <2> QED BY <1>2, <2>1, <2>2, <2>3, <2>4, <2>5, <2>6, StepsAreIts
<1> QED BY <1>1, <1>2

\* Only WriteKid adds child rows.
LEMMA KidsMove ==
  ASSUME TypeInv, [Next]_vars
  PROVE  \/ kids' \subseteq kids
         \/ \E o \in Saves, r \in Records : SaveRecord(o, r) /\ WriteKid(o, r)
<1> DEFINE Goal == \/ kids' \subseteq kids
                   \/ \E o \in Saves, r \in Records : SaveRecord(o, r) /\ WriteKid(o, r)
<1>1. ASSUME NEW o \in Saves, NEW s \in Stores, NEW r \in Records, StartSave(o, s, r) PROVE Goal
  BY <1>1 DEF StartSave, Begin, tables
<1>2. ASSUME NEW f \in Fscks, NEW s \in Stores, StartFsck(f, s) PROVE Goal
  BY <1>2 DEF StartFsck, Begin, tables
<1>3. ASSUME NEW o \in Saves, NEW r \in Records, SaveRecord(o, r) PROVE Goal
  <2>1. CASE WriteKid(o, r)
    BY <1>3, <2>1
  <2>2. CASE ~WriteKid(o, r)
    BY <1>3, <2>2 DEF SaveRecord, Descend, Promote, Reserve, TouchChildTable, TouchDirty,
                      ClaimEntry, WriteParent, tables
  <2> QED BY <2>1, <2>2
<1>4. ASSUME NEW o \in Saves, WriteDispatch(o) \/ SaveFails(o) PROVE Goal
  BY <1>4 DEF WriteDispatch, SaveFails, tables
<1>5. ASSUME NEW f \in Fscks, Fsck(f) PROVE Goal
  <2>1. CASE RepairAndMark(f)
    BY <2>1 DEF RepairAndMark, tables
  <2>2. CASE SweepChildren(f)
    BY <2>2 DEF SweepChildren
  <2>3. CASE SyncClaims(f)
    BY <2>3 DEF SyncClaims, tables
  <2>4. CASE \E y \in Types : CollectType(f, y)
    BY <2>4 DEF CollectType, TouchDirty
  <2> QED BY <1>5, <2>1, <2>2, <2>3, <2>4 DEF Fsck
<1>6. ASSUME NEW o \in Ops, End(o) PROVE Goal
  BY <1>6 DEF End, EndOperation, ClearMarker, tables
<1>7. ASSUME NEW s \in Stores, Die(s) PROVE Goal
  BY <1>7 DEF Die, tables
<1>8. ASSUME Quiet PROVE Goal
  BY <1>8 DEF Quiet, tables
<1> HIDE DEF Goal
<1>9. ASSUME \/ UNCHANGED vars
             \/ \E o \in Ops, s \in Stores : Refused(o, s)
             \/ \E s \in Stores : ReadForSteal(s) \/ Steal(s) \/ StealFree(s) \/ Dispose(s)
      PROVE  Goal
  BY <1>8, <1>9, QuietSteps
<1>10. Goal
  BY <1>1, <1>2, <1>3, <1>4, <1>5, <1>6, <1>7, <1>9 DEF Next
<1> QED BY <1>10 DEF Goal

\* The child row that WriteKid writes.
KidWritten(o, r, k) ==
  /\ kids' = kids \cup {k}
  /\ k.rec = r /\ k.sid = job[o].sid[r] /\ k.by = o
  /\ k.item \in Items[r] \ Written(o, r)
  /\ k.ref = IF k.item \in Records THEN job[o].found[k.item] ELSE 0
  /\ Staged(o, r) /\ Stage(o, r) = "kids" /\ <<Type[r], "child">> \in Touched(o)
  /\ Encoded(o, r)
  /\ UNCHANGED <<pc, at, job, touched, marker, counter, rows, claims, dispatch>>

LEMMA KidIs ==
  ASSUME NEW o \in Saves, NEW r \in Records, WriteKid(o, r)
  PROVE  \E k : KidWritten(o, r, k)
<1>1. PICK i \in Items[r] \ Written(o, r) :
        kids' = kids \cup
          {[rec |-> r, sid |-> job[o].sid[r], item |-> i, by |-> o,
            ref |-> IF i \in Records THEN job[o].found[i] ELSE 0]}
  BY DEF WriteKid
<1> DEFINE k == [rec |-> r, sid |-> job[o].sid[r], item |-> i, by |-> o,
                 ref |-> IF i \in Records THEN job[o].found[i] ELSE 0]
<1>2. /\ k.rec = r /\ k.sid = job[o].sid[r] /\ k.by = o /\ k.item = i
      /\ k.ref = IF i \in Records THEN job[o].found[i] ELSE 0
      /\ kids' = kids \cup {k}
  BY <1>1
<1> HIDE DEF k
<1>3. /\ pc[o] = "saving" /\ Stage(o, r) = "kids" /\ <<Type[r], "child">> \in Touched(o)
      /\ Encoded(o, r)
      /\ UNCHANGED <<pc, at, job, touched, marker, counter, rows, claims, dispatch>>
  BY DEF WriteKid, Innermost, Encoded, running
<1>4. KidWritten(o, r, k)
  BY <1>1, <1>2, <1>3 DEF KidWritten, Staged
<1> QED BY <1>4

\* But for collected dependencies, rows keep their sids.
LEMMA RowsKeepSids ==
  ASSUME TypeInv, RowInv, [Next]_vars, ~Collecting, NEW y, NEW n, HasRow(y, n)
  PROVE  HasRow(y, n)'
<1>1. PICK w \in rows : Type[w.rec] = y /\ w.sid = n
  BY DEF HasRow, RowsOf
<1>2. CASE w \in rows'
  BY <1>1, <1>2 DEF HasRow, RowsOf
<1>3. ASSUME NEW o \in Saves, NEW q \in Records, Promote(o, q) PROVE HasRow(y, n)'
  <2>1. PICK x, z : Promotion(o, q, x, z)
    BY <1>3, Promoted DEF RowInv
  <2>2. CASE w = x
    BY <1>1, <2>1, <2>2 DEF HasRow, RowsOf, Promotion
  <2>3. CASE w # x
    BY <1>2, <2>1, <2>3 DEF Promotion
  <2> QED BY <2>2, <2>3
<1>4. ASSUME NEW o \in Saves, NEW q \in Records, WriteParent(o, q) PROVE HasRow(y, n)'
  BY <1>2, <1>4 DEF WriteParent
<1>5. ASSUME NEW f \in Fscks, NEW u \in Types, CollectType(f, u) PROVE FALSE
  BY <1>5 DEF CollectType, Collecting
<1> QED BY <1>2, <1>3, <1>4, <1>5, RowsMove

\* The child rows of a save under way get their parent row, or it fails, or it dies marked.
LEMMA UnderWayStep ==
  ASSUME TypeInv, WriterInv, WorkInv, MarkInv, Chained, [Next]_vars,
         NEW k \in kids, UnderWay(k), ~HasRow(Type[k.rec], k.sid)'
  PROVE  Excused(k)'
<1> USE DegradedAssumption
<1>0. /\ k.by \in Ops /\ k.rec \in Records /\ pc[k.by] = "saving"
      /\ job \in [Ops -> JobType] /\ pc \in [Ops -> Places] /\ at \in [Ops -> Stores \cup {None}]
      /\ Stage(k.by, k.rec) \in {"kids", "row"} /\ job[k.by].sid[k.rec] = k.sid
      /\ <<Type[k.rec], "child">> \in Touched(k.by)
  BY DEF TypeInv, TypeOK, JobType, UnderWay, Staged
<1>1. PICK p \in Ops, q \in Records : p = k.by /\ q = k.rec
  BY <1>0
<1>2. p \in Saves /\ at[p] # None
  BY <1>0, <1>1 DEF WorkInv, Placed, PlacesOf, SavePlaces, FsckPlaces
<1>3. CASE Quiet
  <2>1. pc'[p] = "saving" /\ job' = job /\ touched' = touched
    BY <1>0, <1>1, <1>3 DEF Quiet
  <2> QED BY <1>0, <1>1, <2>1 DEF Excused, UnderWay, Staged, Stage, Touched
<1>4. ASSUME NEW r \in Records, SaveRecord(p, r) PROVE Excused(k)'
  <2>a. <<Type[r], "parent">> \in Tables /\ <<Type[r], "child">> \in Tables
    BY DEF Tables
  <2>1. ASSUME job'[p].stage[q] \in {"kids", "row"}, job'[p].sid[q] = job[p].sid[q],
               Touched(p) \subseteq Touched(p)', pc'[p] = "saving"
        PROVE  Excused(k)'
    BY <1>0, <1>1, <2>1 DEF Excused, UnderWay, Staged, Stage
  <2>2. ASSUME NEW u \in Records, Descend(p, r, u) PROVE Excused(k)'
    <3>1. /\ touched' = touched /\ pc' = pc /\ Stage(p, u) = "none"
      BY <2>2 DEF Descend, Innermost, Wanted, Parts
    <3>2. job'[p].sid = job[p].sid /\ job'[p].stage[q] = job[p].stage[q]
      <4>1. CASE job' = [job EXCEPT ![p].stage[u] = "refs"]
        <5>1. job'[p].stage = [job[p].stage EXCEPT ![u] = "refs"] /\ job'[p].sid = job[p].sid
          BY <1>0, <4>1 DEF JobType
        <5>2. q # u
          BY <1>0, <1>1, <3>1
        <5> QED BY <1>0, <5>1, <5>2 DEF JobType
      <4>2. CASE \E x \in Visible(u) : job' = [job EXCEPT ![p].found[u] = x.sid]
        BY <1>0, <4>2 DEF JobType
      <4> QED BY <2>2, <4>1, <4>2 DEF Descend
    <3> QED BY <1>0, <1>1, <2>1, <3>1, <3>2 DEF Stage, Touched
  <2>3. ASSUME Promote(p, r) PROVE FALSE
    <3>1. Innermost(p, r) /\ job[p].root = {r} /\ Stage(p, r) = "refs"
      BY <2>3 DEF Promote
    <3>2. q = r
      BY <1>0, <1>1, <1>2, <3>1, OnlyRoot
    <3> QED BY <1>0, <1>1, <3>1, <3>2
  <2>4. CASE Reserve(p, r)
    <3>1. /\ job' = [job EXCEPT ![p].sid[r] = NextSid(Type[r]), ![p].stage[r] = "kids"]
          /\ Stage(p, r) = "refs" /\ pc' = pc /\ TouchDirty(p, <<Type[r], "parent">>)
      BY <2>4 DEF Reserve
    <3>2. /\ job'[p].stage = [job[p].stage EXCEPT ![r] = "kids"]
          /\ job'[p].sid = [job[p].sid EXCEPT ![r] = NextSid(Type[r])]
      BY <1>0, <3>1 DEF JobType
    <3>3. q # r
      BY <1>0, <1>1, <3>1
    <3>4. job'[p].stage[q] = job[p].stage[q] /\ job'[p].sid[q] = job[p].sid[q]
      BY <1>0, <3>2, <3>3 DEF JobType
    <3>5. Touched(p) \subseteq Touched(p)'
      BY <1>2, <2>a, <3>1, TouchMarks DEF MarkInv
    <3> QED BY <1>0, <1>1, <2>1, <3>1, <3>4, <3>5 DEF Stage
  <2>5. CASE TouchChildTable(p, r)
    <3>1. job' = job /\ pc' = pc /\ TouchDirty(p, <<Type[r], "child">>)
      BY <2>5 DEF TouchChildTable, running
    <3>2. Touched(p) \subseteq Touched(p)'
      BY <1>2, <2>a, <3>1, TouchMarks DEF MarkInv
    <3> QED BY <1>0, <1>1, <2>1, <3>1, <3>2 DEF Stage
  <2>6. CASE WriteKid(p, r)
    <3>1. job' = job /\ pc' = pc /\ touched' = touched
      BY <2>6 DEF WriteKid, running
    <3> QED BY <1>0, <1>1, <2>1, <3>1 DEF Stage, Touched
  <2>7. CASE ClaimEntry(p, r)
    <3>1. /\ job' = [job EXCEPT ![p].stage[r] = "row"] /\ pc' = pc /\ touched' = touched
      BY <2>7 DEF ClaimEntry
    <3>2. job'[p].stage = [job[p].stage EXCEPT ![r] = "row"] /\ job'[p].sid = job[p].sid
      BY <1>0, <3>1 DEF JobType
    <3>3. job'[p].stage[q] \in {"kids", "row"}
      BY <1>0, <1>1, <3>2 DEF JobType, Stage
    <3> QED BY <1>0, <1>1, <2>1, <3>1, <3>2, <3>3 DEF Touched
  <2>8. CASE WriteParent(p, r)
    <3>1. PICK n : Parenting(p, r, n)
      BY <1>2, <2>8, ParentWritten
    <3>2. q # r
      <4> SUFFICES ASSUME q = r PROVE FALSE
        OBVIOUS
      <4>1. n \in rows' /\ n.rec = r /\ n.sid = job[p].sid[r]
        BY <3>1 DEF Parenting
      <4>2. n.rec = k.rec /\ n.sid = k.sid
        BY <1>0, <1>1, <4>1
      <4> QED BY <4>1, <4>2 DEF HasRow, RowsOf
    <3>3. ~IsRoot(p, r)
      <4> SUFFICES ASSUME IsRoot(p, r) PROVE FALSE
        OBVIOUS
      <4>1. Innermost(p, r) /\ job[p].root = {r}
        BY <2>8 DEF WriteParent, IsRoot
      <4> QED BY <1>0, <1>1, <1>2, <3>2, <4>1, OnlyRoot
    <3>4. pc'[p] = "saving" /\ touched' = touched /\ job'[p].sid = job[p].sid
      BY <2>8, <3>1, <3>3 DEF Parenting, WriteParent
    <3>5. job'[p].stage[q] = job[p].stage[q]
      BY <1>0, <3>1, <3>2 DEF Parenting, JobType
    <3> QED BY <1>0, <1>1, <2>1, <3>4, <3>5 DEF Stage, Touched
  <2> QED BY <1>4, <2>2, <2>3, <2>4, <2>5, <2>6, <2>7, <2>8 DEF SaveRecord
<1>5. ASSUME WriteDispatch(p) \/ SaveFails(p) PROVE Excused(k)'
  <2>1. pc'[p] = "raising"
    BY <1>0, <1>1, <1>5 DEF WriteDispatch, SaveFails
  <2> QED BY <1>1, <2>1 DEF Excused
<1>6. ASSUME p \in Fscks PROVE FALSE
  BY <1>2, <1>6
<1>7. ASSUME End(p) PROVE FALSE
  BY <1>0, <1>1, <1>7 DEF End, EndOperation, ClearMarker, Ending
<1>8. CASE at[p] \in Stores /\ Die(at[p])
  <2>1. pc'[p] = "dead" /\ marker' = marker
    BY <1>0, <1>1, <1>8 DEF Die
  <2>2. /\ marker[<<Type[q], "parent">>] = p
        /\ marker[<<Type[q], "child">>] = p
    BY <1>0, <1>1, <1>2 DEF MarkInv, MarkersOwn, ReservedMarked, Staged
  <2> QED BY <1>1, <2>1, <2>2 DEF Excused, LeftMarked
<1> QED BY <1>2, <1>3, <1>4, <1>5, <1>6, <1>7, <1>8, StepsAreIts

\* The markers of the dead are theirs until a sweep takes what they mark.
LEMMA LeftMarkedStep ==
  ASSUME TypeInv, WorkInv, MarkInv, [Next]_vars,
         NEW k \in kids, LeftMarked(k), ~HasRow(Type[k.rec], k.sid), k \in kids'
  PROVE  LeftMarked(k)'
<1> USE DegradedAssumption
<1>0. /\ k.by \in Ops /\ k.rec \in Records /\ pc[k.by] = "dead" /\ at[k.by] = None
      /\ marker \in [Tables -> Ops \cup {None}]
      /\ <<Type[k.rec], "parent">> \in Tables /\ <<Type[k.rec], "child">> \in Tables
      /\ k.by # None
  <2>1. k.by \in Ops /\ k.rec \in Records /\ pc[k.by] = "dead"
        /\ marker \in [Tables -> Ops \cup {None}] /\ k.by # None
    BY DEF TypeInv, TypeOK, LeftMarked
  <2>2. at[k.by] = None
    BY <2>1 DEF WorkInv, Placed, PlacesOf, SavePlaces, FsckPlaces
  <2>3. <<Type[k.rec], "parent">> \in Tables /\ <<Type[k.rec], "child">> \in Tables
    BY <2>1 DEF Tables
  <2> QED BY <2>1, <2>2, <2>3
<1>1. pc'[k.by] = "dead"
  BY <1>0, RestStays
<1> DEFINE Own == {<<Type[k.rec], "parent">>, <<Type[k.rec], "child">>}
<1>2. \A t \in Own : marker[t] = k.by /\ t \in Tables /\ t[1] = Type[k.rec]
  BY <1>0 DEF LeftMarked
<1> HIDE DEF Own
<1>3. \A t \in Own : marker'[t] = k.by
  <2>1. CASE UNCHANGED <<touched, marker>>
    BY <1>2, <2>1
  <2>2. ASSUME NEW o \in Ops, NEW t \in Tables, at[o] # None, TouchDirty(o, t)
        PROVE  \A u \in Own : marker'[u] = k.by
    <3>1. t \notin Own
      <4> SUFFICES ASSUME t \in Own PROVE FALSE
        OBVIOUS
      <4>1. marker[t] = k.by /\ k.by # o /\ t[1] = Type[k.rec]
        BY <1>0, <1>2, <2>2
      <4>2. t \notin Touched(o)
        BY <4>1 DEF MarkInv, MarkersOwn
      <4>3. kids' = kids \ Orphans(t[1])
        BY <1>0, <2>2, <4>1, <4>2 DEF TouchDirty
      <4>4. k \in Orphans(t[1])
        BY <4>1 DEF Orphans
      <4> QED BY <4>3, <4>4
    <3>2. marker' = [marker EXCEPT ![t] = o]
      BY <2>2 DEF TouchDirty
    <3> QED BY <1>0, <1>2, <3>1, <3>2
  <2>3. ASSUME NEW o \in Ops, NEW t \in Tables, ClearMarker(o, t)
        PROVE  \A u \in Own : marker'[u] = k.by
    <3>1. t \in Touched(o) /\ marker' = [marker EXCEPT ![t] = None]
      BY <2>3, ClearMarks DEF MarkInv
    <3>2. pc[o] # "dead"
      BY <2>3 DEF ClearMarker, Ending
    <3>3. t \notin Own
      BY <1>0, <1>2, <3>1, <3>2 DEF MarkInv, MarkersOwn
    <3> QED BY <1>0, <1>2, <3>1, <3>3
  <2>4. ASSUME NEW s \in Stores, Die(s) PROVE marker' = marker
    BY <2>4 DEF Die
  <2> QED BY <1>2, <2>1, <2>2, <2>3, <2>4, MarksMove
<1> QED BY <1>1, <1>3 DEF LeftMarked, Own

(* A fsck that collects goes on until it has swept, if no store dies while *)
(* it runs one.                                                            *)
LEMMA CollectingStep ==
  ASSUME TypeInv, WriterInv, WorkInv, FsckDies = FALSE, [Next]_vars, Collecting,
         NEW k \in kids', ~HasRow(Type[k.rec], k.sid)'
  PROVE  Collecting'
<1> USE DegradedAssumption
<1>1. PICK f \in Fscks : pc[f] = "collecting"
  BY DEF Collecting
<1>2. f \in Ops /\ f \notin Saves /\ at[f] # None
      /\ pc \in [Ops -> Places] /\ at \in [Ops -> Stores \cup {None}]
  BY <1>1 DEF Ops, TypeInv, TypeOK, WorkInv, Placed, PlacesOf, SavePlaces, FsckPlaces
<1>3. CASE Quiet
  <2>1. pc'[f] = "collecting"
    BY <1>1, <1>2, <1>3 DEF Quiet
  <2> QED BY <2>1 DEF Collecting
<1>4. CASE Fsck(f)
  <2>1. ASSUME NEW y \in Types, CollectType(f, y) PROVE pc'[f] = "collecting"
    BY <1>1, <2>1 DEF CollectType
  <2>2. ASSUME RepairAndMark(f) PROVE FALSE
    BY <1>1, <2>2 DEF RepairAndMark
  <2>3. ASSUME SyncClaims(f) PROVE FALSE
    BY <1>1, <2>3 DEF SyncClaims
  <2>4. ASSUME SweepChildren(f) PROVE FALSE
    <3>1. kids' = kids \ UNION {Orphans(y) : y \in Types} /\ rows' = rows
      BY <2>4 DEF SweepChildren
    <3>2. k \in kids /\ Type[k.rec] \in Types
      BY <3>1 DEF TypeInv, TypeOK
    <3>3. k \in Orphans(Type[k.rec])
      BY <3>1, <3>2 DEF Orphans, HasRow, RowsOf
    <3> QED BY <3>1, <3>2, <3>3
  <2>5. pc'[f] = "collecting"
    BY <1>4, <2>1, <2>2, <2>3, <2>4 DEF Fsck
  <2> QED BY <2>5 DEF Collecting
<1>5. ASSUME End(f) PROVE FALSE
  BY <1>1, <1>5 DEF End, EndOperation, ClearMarker, Ending
<1>6. ASSUME Die(at[f]) PROVE FALSE
  BY <1>6 DEF Die
<1> QED BY <1>2, <1>3, <1>4, <1>5, <1>6, StepsAreIts

LEMMA ResidueStep ==
  FsckDies = FALSE =>
    (TypeInv /\ WriterInv /\ WorkInv /\ MarkInv /\ RowInv /\ ResidueInv /\ [Next]_vars => ResidueInv')
<1> SUFFICES ASSUME FsckDies = FALSE, TypeInv, WriterInv, WorkInv, MarkInv, RowInv, ResidueInv,
                    [Next]_vars
             PROVE  ResidueInv'
  OBVIOUS
<1>1. Chained'
  BY ChainedStep DEF ResidueInv
<1>2. OrphansExcused'
  <2> SUFFICES ASSUME NEW k \in kids', ~HasRow(Type[k.rec], k.sid)', ~Collecting'
               PROVE  Excused(k)'
    BY DEF OrphansExcused
  <2>1. ~Collecting
    BY CollectingStep
  <2>2. CASE k \in kids
    <3>1. ~HasRow(Type[k.rec], k.sid)
      BY <2>1, RowsKeepSids
    <3>2. k.by \in Ops
      BY <2>2 DEF TypeInv, TypeOK
    <3>3. CASE pc[k.by] \in {"failed", "raising"}
      BY <3>2, <3>3, FailureStays DEF Excused
    <3>4. CASE UnderWay(k)
      BY <2>2, <3>4, UnderWayStep DEF ResidueInv
    <3>5. CASE LeftMarked(k)
      BY <2>2, <3>1, <3>5, LeftMarkedStep DEF Excused
    <3> QED BY <2>1, <2>2, <3>1, <3>3, <3>4, <3>5 DEF ResidueInv, OrphansExcused, Excused
  <2>3. CASE k \notin kids
    <3>1. PICK o \in Saves, r \in Records : WriteKid(o, r)
      BY <2>3, KidsMove
    <3>2. PICK j : KidWritten(o, r, j)
      BY <3>1, KidIs
    <3>3. j = k
      BY <2>3, <3>2 DEF KidWritten
    <3> QED BY <3>2, <3>3 DEF KidWritten, Excused, UnderWay, Staged, Stage, Touched
  <2> QED BY <2>2, <2>3
<1> QED BY <1>1, <1>2 DEF ResidueInv

(* A leftover marker arranges a sweep before the next write to its table,  *)
(* so that no save writes child rows among those of a crash.  A store that *)
(* dies while it runs fsck is excluded: it can leave child rows of         *)
(* collected dependencies in tables it has not marked.                     *)
THEOREM ResidueSwept == FsckDies = FALSE => (Spec => []CrashResidueSwept)
<1> DEFINE Inv == TypeInv /\ WriterInv /\ WorkInv /\ MarkInv /\ RowInv /\ ResidueInv
<1> SUFFICES ASSUME FsckDies = FALSE PROVE Spec => []CrashResidueSwept
  OBVIOUS
<1>1. Init => Inv
  BY TypeInit, WriterInit, WorkInit, MarkInit, RowInit, ResidueInit
<1>2. Inv /\ [Next]_vars => Inv'
  BY TypeStep, WriterStep, WorkStep, MarkStep, RowStep, ResidueStep
<1>3. Inv => CrashResidueSwept
  <2> SUFFICES ASSUME Inv, NEW o \in Saves, NEW t \in Tables, t \in Touched(o),
                      NEW k \in Orphans(t[1])
               PROVE  k.by = o \/ pc[k.by] \in {"failed", "raising"}
    BY DEF CrashResidueSwept
  <2> USE DegradedAssumption
  <2>1. /\ k \in kids /\ Type[k.rec] = t[1] /\ ~HasRow(Type[k.rec], k.sid)
        /\ k.by \in Ops /\ o \in Ops /\ o \notin Fscks
        /\ \A f \in Fscks : f \in Ops
    BY DEF Orphans, TypeInv, TypeOK, Ops
  <2>2. at[o] # None /\ marker[t] = o
    <3>1. touched[o] # <<>>
      BY <2>1, TouchedIs
    <3> QED BY <2>1, <3>1 DEF WorkInv, Placed, MarkInv, MarkersOwn
  <2>3. ~Collecting
    <3> SUFFICES ASSUME NEW f \in Fscks, pc[f] = "collecting" PROVE FALSE
      BY DEF Collecting
    <3>1. at[f] # None
      BY <2>1 DEF WorkInv, Placed, PlacesOf, SavePlaces, FsckPlaces
    <3> QED BY <2>1, <2>2, <3>1 DEF WorkInv, OneAtWork
  <2>4. Excused(k)
    BY <2>1, <2>3 DEF ResidueInv, OrphansExcused
  <2>5. CASE UnderWay(k)
    <3>1. at[k.by] # None
      BY <2>1, <2>5 DEF UnderWay, Staged, WorkInv, Placed, PlacesOf, SavePlaces, FsckPlaces
    <3> QED BY <2>1, <2>2, <3>1 DEF WorkInv, OneAtWork
  <2>6. CASE LeftMarked(k)
    <3>1. t = <<Type[k.rec], "parent">> \/ t = <<Type[k.rec], "child">>
      BY <2>1 DEF Tables
    <3> QED BY <2>2, <2>6, <3>1 DEF LeftMarked
  <2> QED BY <2>4, <2>5, <2>6 DEF Excused
<1> QED BY <1>1, <1>2, <1>3, PTL DEF Spec
-----------------------------------------------------------------------------
(* Sids: a reserved sid is new and its child rows are its own, so that the *)
(* row that is written last has exactly the child rows of its record.      *)

Keys == {<<x.rec, x.sid>> : x \in rows}

KidAt(k, y, n) == k \in kids /\ Type[k.rec] = y /\ k.sid = n

SidsBelow ==
  /\ \A x \in rows : x.sid < counter[Type[x.rec]]
  /\ \A k \in kids : k.sid < counter[Type[k.rec]]

ItemsOwn == \A k \in kids : k.item \in Items[k.rec]

OneKidPerItem ==
  \A k, l \in kids : Type[k.rec] = Type[l.rec] /\ k.sid = l.sid /\ k.item = l.item => k = l

\* Nothing has the sid but the record and its child rows, whose element records are saved.
Reserved(o, r) ==
  LET y == Type[r]
      n == job[o].sid[r]
  IN /\ n < counter[y]
     /\ ~HasRow(y, n)
     /\ \A k : KidAt(k, y, n) =>
          /\ k.rec = r /\ k.by = o /\ <<y, "child">> \in Touched(o)
          /\ k.item \in Records => <<k.item, k.ref>> \in Keys
     /\ \A q \in Records : Staged(o, q) /\ Type[q] = y /\ job[o].sid[q] = n => q = r
     /\ Stage(o, r) = "row" =>
          \A i \in Items[r] : \E k : KidAt(k, y, n) /\ k.item = i

FoundThere ==
  \A o \in Saves, q \in Records :
    pc[o] = "saving" /\ job[o].found[q] # 0 => <<q, job[o].found[q]>> \in Keys

SidInv ==
  /\ IsFiniteSet(kids)
  /\ SidsBelow /\ ItemsOwn /\ OneKidPerItem /\ FoundThere
  /\ \A o \in Saves, r \in Records : Staged(o, r) => Reserved(o, r)

LEMMA SidInit == Init => SidInv
  BY FS_EmptySet DEF Init, SidInv, SidsBelow, ItemsOwn, OneKidPerItem, FoundThere, Staged, Ops

\* Child rows go only when they have no parent row.
LEMMA KidsGo ==
  ASSUME TypeInv, [Next]_vars, NEW k \in kids, HasRow(Type[k.rec], k.sid)
  PROVE  k \in kids'
<1> DEFINE Goal == k \in kids'
<1>0. \A y : k \notin Orphans(y)
  BY DEF Orphans
<1>1. ASSUME NEW o \in Saves, NEW s \in Stores, NEW r \in Records, StartSave(o, s, r) PROVE Goal
  BY <1>1 DEF StartSave, Begin, tables
<1>2. ASSUME NEW f \in Fscks, NEW s \in Stores, StartFsck(f, s) PROVE Goal
  BY <1>2 DEF StartFsck, Begin, tables
<1>a. ASSUME NEW o \in Ops, NEW t \in Tables, TouchDirty(o, t) PROVE Goal
  BY <1>0, <1>a DEF TouchDirty
<1>3. ASSUME NEW o \in Saves, NEW r \in Records, SaveRecord(o, r) PROVE Goal
  <2>0. o \in Ops /\ <<Type[r], "parent">> \in Tables /\ <<Type[r], "child">> \in Tables
    BY DegradedAssumption DEF Tables, Ops
  <2>1. CASE WriteKid(o, r)
    BY <2>1 DEF WriteKid
  <2>2. CASE Reserve(o, r)
    BY <1>a, <2>0, <2>2 DEF Reserve
  <2>3. CASE TouchChildTable(o, r)
    BY <1>a, <2>0, <2>3 DEF TouchChildTable
  <2>4. CASE ~WriteKid(o, r) /\ ~Reserve(o, r) /\ ~TouchChildTable(o, r)
    BY <1>3, <2>4 DEF SaveRecord, Descend, Promote, ClaimEntry, WriteParent, tables
  <2> QED BY <2>1, <2>2, <2>3, <2>4
<1>4. ASSUME NEW o \in Saves, WriteDispatch(o) \/ SaveFails(o) PROVE Goal
  BY <1>4 DEF WriteDispatch, SaveFails, tables
<1>5. ASSUME NEW f \in Fscks, Fsck(f) PROVE Goal
  <2>1. CASE RepairAndMark(f)
    BY <2>1 DEF RepairAndMark, tables
  <2>2. CASE SweepChildren(f)
    BY <1>0, <2>2 DEF SweepChildren
  <2>3. CASE SyncClaims(f)
    BY <2>3 DEF SyncClaims, tables
  <2>4. ASSUME NEW y \in Types, CollectType(f, y) PROVE Goal
    <3>1. f \in Ops /\ <<y, "parent">> \in Tables
      BY DEF Tables, Ops
    <3>2. CASE y \in EntryTypes
      BY <1>a, <2>4, <3>1, <3>2 DEF CollectType
    <3>3. CASE y \notin EntryTypes
      BY <2>4, <3>3 DEF CollectType
    <3> QED BY <3>2, <3>3
  <2> QED BY <1>5, <2>1, <2>2, <2>3, <2>4 DEF Fsck
<1>6. ASSUME NEW o \in Ops, End(o) PROVE Goal
  BY <1>6 DEF End, EndOperation, ClearMarker, tables
<1>7. ASSUME NEW s \in Stores, Die(s) PROVE Goal
  BY <1>7 DEF Die, tables
<1>8. ASSUME Quiet PROVE Goal
  BY <1>8 DEF Quiet, tables
<1> HIDE DEF Goal
<1>9. ASSUME \/ UNCHANGED vars
             \/ \E o \in Ops, s \in Stores : Refused(o, s)
             \/ \E s \in Stores : ReadForSteal(s) \/ Steal(s) \/ StealFree(s) \/ Dispose(s)
      PROVE  Goal
  BY <1>8, <1>9, QuietSteps
<1>10. Goal
  BY <1>1, <1>2, <1>3, <1>4, <1>5, <1>6, <1>7, <1>9 DEF Next
<1> QED BY <1>10 DEF Goal

\* The child rows of a row stay as they are.
LEMMA KidsOfRowsStay ==
  ASSUME TypeInv, SidInv, [Next]_vars, NEW y, NEW n, HasRow(y, n), NEW k
  PROVE  KidAt(k, y, n)' <=> KidAt(k, y, n)
<1>1. ASSUME KidAt(k, y, n) PROVE KidAt(k, y, n)'
  BY <1>1, KidsGo DEF KidAt
<1>2. ASSUME KidAt(k, y, n)' PROVE KidAt(k, y, n)
  <2>1. CASE kids' \subseteq kids
    BY <1>2, <2>1 DEF KidAt
  <2>2. ASSUME NEW o \in Saves, NEW r \in Records, WriteKid(o, r), k \notin kids PROVE FALSE
    <3>1. PICK j : KidWritten(o, r, j)
      BY <2>2, KidIs
    <3>2. j = k
      BY <1>2, <2>2, <3>1 DEF KidWritten, KidAt
    <3>3. Staged(o, r) /\ y = Type[r] /\ n = job[o].sid[r]
      BY <1>2, <3>1, <3>2 DEF KidWritten, KidAt
    <3>4. Reserved(o, r)
      BY <3>3 DEF SidInv
    <3> QED BY <3>3, <3>4 DEF Reserved
  <2> QED BY <1>2, <2>1, <2>2, KidsMove DEF KidAt
<1> QED BY <1>1, <1>2

\* But for collected dependencies, rows stay, perhaps as main rows.
LEMMA KeysStay ==
  ASSUME TypeInv, RowInv, [Next]_vars, ~Collecting
  PROVE  Keys \subseteq Keys'
<1> SUFFICES ASSUME NEW w \in rows PROVE <<w.rec, w.sid>> \in Keys'
  BY DEF Keys
<1>1. CASE w \in rows'
  BY <1>1 DEF Keys
<1>2. ASSUME NEW o \in Saves, NEW q \in Records, Promote(o, q) PROVE <<w.rec, w.sid>> \in Keys'
  <2>1. PICK x, z : Promotion(o, q, x, z)
    BY <1>2, Promoted DEF RowInv
  <2>2. CASE w = x
    BY <2>1, <2>2 DEF Keys, Promotion
  <2>3. CASE w # x
    BY <1>1, <2>1, <2>3 DEF Promotion
  <2> QED BY <2>2, <2>3
<1>3. ASSUME NEW o \in Saves, NEW q \in Records, WriteParent(o, q) PROVE w \in rows'
  BY <1>3 DEF WriteParent
<1>4. ASSUME NEW f \in Fscks, NEW u \in Types, CollectType(f, u) PROVE FALSE
  BY <1>4 DEF CollectType, Collecting
<1> QED BY <1>1, <1>2, <1>3, <1>4, RowsMove

\* A reserved sid is not below the counter.
LEMMA NextSidAbove ==
  ASSUME TypeInv, NEW y \in Types
  PROVE  NextSid(y) \in Sid /\ counter[y] <= NextSid(y)
<1>1. NextSid(y) \in Sid /\ counter[y] \in Nat
  BY NextSidType DEF TypeInv, TypeOK
<1> QED BY <1>1 DEF NextSid, Sid

\* The counters move only forward, by a reservation.
LEMMA CountersGrow ==
  ASSUME TypeInv, [Next]_vars, NEW y \in Types
  PROVE  /\ counter[y] <= counter'[y] /\ counter'[y] \in Nat /\ counter[y] \in Nat
         /\ \A o \in Saves, r \in Records : Reserve(o, r) /\ Type[r] = y => counter'[y] = NextSid(y) + 1
<1> DEFINE Goal == counter' = counter
<1>0. counter \in [Types -> Nat] /\ \A r \in Records : Type[r] \in Types
  BY DegradedAssumption DEF TypeInv, TypeOK
<1>a. ASSUME NEW o \in Saves, NEW r \in Records, Reserve(o, r)
      PROVE  /\ counter[y] <= counter'[y] /\ counter'[y] \in Nat
             /\ Type[r] = y => counter'[y] = NextSid(y) + 1
  <2>1. counter' = [counter EXCEPT ![Type[r]] = NextSid(Type[r]) + 1]
    BY <1>a DEF Reserve
  <2>2. CASE Type[r] = y
    <3>1. counter'[y] = NextSid(y) + 1
      BY <1>0, <2>1, <2>2
    <3> QED BY <1>0, <3>1, NextSidAbove DEF Sid
  <2>3. CASE Type[r] # y
    BY <1>0, <2>1, <2>3
  <2> QED BY <2>2, <2>3
<1>1. ASSUME NEW o \in Saves, NEW s \in Stores, NEW r \in Records, StartSave(o, s, r) PROVE Goal
  BY <1>1 DEF StartSave, Begin, tables
<1>2. ASSUME NEW f \in Fscks, NEW s \in Stores, StartFsck(f, s) PROVE Goal
  BY <1>2 DEF StartFsck, Begin, tables
<1>3. ASSUME NEW o \in Saves, NEW r \in Records, SaveRecord(o, r), ~Reserve(o, r) PROVE Goal
  BY <1>3 DEF SaveRecord, Descend, Promote, TouchChildTable, WriteKid, ClaimEntry, WriteParent, tables
<1>4. ASSUME NEW o \in Saves, WriteDispatch(o) \/ SaveFails(o) PROVE Goal
  BY <1>4 DEF WriteDispatch, SaveFails, tables
<1>5. ASSUME NEW f \in Fscks, Fsck(f) PROVE Goal
  BY <1>5 DEF Fsck, RepairAndMark, SweepChildren, SyncClaims, CollectType, tables
<1>6. ASSUME NEW o \in Ops, End(o) PROVE Goal
  BY <1>6 DEF End, EndOperation, ClearMarker, tables
<1>7. ASSUME NEW s \in Stores, Die(s) PROVE Goal
  BY <1>7 DEF Die, tables
<1>8. ASSUME Quiet PROVE Goal
  BY <1>8 DEF Quiet, tables
<1> HIDE DEF Goal
<1>9. ASSUME \/ UNCHANGED vars
             \/ \E o \in Ops, s \in Stores : Refused(o, s)
             \/ \E s \in Stores : ReadForSteal(s) \/ Steal(s) \/ StealFree(s) \/ Dispose(s)
      PROVE  Goal
  BY <1>8, <1>9, QuietSteps
<1>10. Goal \/ \E o \in Saves, r \in Records : Reserve(o, r)
  BY <1>1, <1>2, <1>3, <1>4, <1>5, <1>6, <1>7, <1>9 DEF Next
<1>11. counter[y] <= counter'[y] /\ counter'[y] \in Nat /\ counter[y] \in Nat
  <2>1. CASE Goal
    BY <1>0, <2>1 DEF Goal
  <2>2. CASE \E o \in Saves, r \in Records : Reserve(o, r)
    BY <1>0, <1>a, <2>2
  <2> QED BY <1>10, <2>1, <2>2
<1> QED BY <1>a, <1>11

\* A save sweeps none of its own child rows: it has touched both their tables.
LEMMA OwnKidsStay ==
  ASSUME TypeInv, WorkInv, MarkInv, NEW o \in Saves, NEW r \in Records, SaveRecord(o, r),
         NEW q \in Records, Staged(o, q), Reserved(o, q),
         NEW k, KidAt(k, Type[q], job[o].sid[q])
  PROVE  k \in kids'
<1>0. /\ o \in Ops /\ k \in kids /\ Type[k.rec] = Type[q]
      /\ <<Type[q], "child">> \in Touched(o) /\ <<Type[q], "parent">> \in Touched(o)
      /\ <<Type[r], "parent">> \in Tables /\ <<Type[r], "child">> \in Tables
  BY DegradedAssumption DEF Ops, KidAt, Reserved, MarkInv, ReservedMarked, Tables
<1>1. ASSUME NEW t \in Tables, TouchDirty(o, t) PROVE k \in kids'
  <2>1. CASE t \in Touched(o)
    BY <1>0, <1>1, <2>1 DEF TouchDirty
  <2>2. CASE t \notin Touched(o)
    <3>1. t[1] # Type[q]
      BY <1>0, <2>2 DEF Tables
    <3>2. k \notin Orphans(t[1])
      BY <1>0, <3>1 DEF Orphans
    <3> QED BY <1>0, <1>1, <3>2 DEF TouchDirty
  <2> QED BY <2>1, <2>2
<1>2. CASE Reserve(o, r)
  BY <1>0, <1>1, <1>2 DEF Reserve
<1>3. CASE TouchChildTable(o, r)
  BY <1>0, <1>1, <1>3 DEF TouchChildTable
<1>4. CASE WriteKid(o, r)
  BY <1>0, <1>4 DEF WriteKid
<1>5. CASE ~Reserve(o, r) /\ ~TouchChildTable(o, r) /\ ~WriteKid(o, r)
  BY <1>0, <1>5 DEF SaveRecord, Descend, Promote, ClaimEntry, WriteParent, tables
<1> QED BY <1>2, <1>3, <1>4, <1>5

\* No table of the operation is forgotten while it saves.
LEMMA TouchedGrows ==
  ASSUME TypeInv, WorkInv, MarkInv, NEW o \in Saves, NEW r \in Records, SaveRecord(o, r)
  PROVE  Touched(o) \subseteq Touched(o)'
<1>0. /\ o \in Ops /\ at[o] # None
      /\ <<Type[r], "parent">> \in Tables /\ <<Type[r], "child">> \in Tables
  BY SaverIs, DegradedAssumption DEF Ops, WorkInv, Placed, PlacesOf, SavePlaces, Tables
<1>2. CASE Reserve(o, r)
  BY <1>0, <1>2, TouchMarks DEF Reserve, MarkInv
<1>3. CASE TouchChildTable(o, r)
  BY <1>0, <1>3, TouchMarks DEF TouchChildTable, MarkInv
<1>4. CASE ~Reserve(o, r) /\ ~TouchChildTable(o, r)
  <2>1. touched' = touched
    BY <1>4 DEF SaveRecord, Descend, Promote, WriteKid, ClaimEntry, WriteParent
  <2> QED BY <2>1 DEF Touched
<1> QED BY <1>2, <1>3, <1>4

\* The kids at a sid that is not below its counter.
LEMMA FreshSid ==
  ASSUME TypeInv, SidInv, NEW r \in Records
  PROVE  /\ ~HasRow(Type[r], NextSid(Type[r]))
         /\ \A k : ~KidAt(k, Type[r], NextSid(Type[r]))
         /\ \A o \in Saves, q \in Records :
              Staged(o, q) /\ Type[q] = Type[r] => job[o].sid[q] # NextSid(Type[r])
<1> DEFINE y == Type[r]
<1>1. y \in Types /\ NextSid(y) \in Nat /\ counter[y] \in Nat /\ counter[y] <= NextSid(y)
  BY NextSidAbove, DegradedAssumption DEF TypeInv, TypeOK, Sid
<1> HIDE DEF y
<1>2. ~HasRow(y, NextSid(y))
  <2> SUFFICES ASSUME NEW x \in rows, Type[x.rec] = y, x.sid = NextSid(y) PROVE FALSE
    BY DEF HasRow, RowsOf
  <2>1. x.sid < counter[y]
    BY DEF SidInv, SidsBelow
  <2> QED BY <1>1, <2>1
<1>3. ASSUME NEW k, KidAt(k, y, NextSid(y)) PROVE FALSE
  <2>1. k.sid < counter[y] /\ k.sid = NextSid(y)
    BY <1>3 DEF SidInv, SidsBelow, KidAt
  <2> QED BY <1>1, <2>1
<1>4. ASSUME NEW o \in Saves, NEW q \in Records, Staged(o, q), Type[q] = y, job[o].sid[q] = NextSid(y)
      PROVE  FALSE
  <2>1. job[o].sid[q] < counter[y]
    BY <1>4 DEF SidInv, Reserved
  <2> QED BY <1>1, <1>4, <2>1
<1> QED BY <1>2, <1>3, <1>4 DEF y

\* The record that is reserved now.
LEMMA ReservedNow ==
  ASSUME TypeInv, WorkInv, SidInv, [Next]_vars, NEW o \in Saves, NEW r \in Records, Reserve(o, r)
  PROVE  Reserved(o, r)'
<1>y. PICK y, n : y = Type[r] /\ n = NextSid(Type[r])
  OBVIOUS
<1>0. /\ o \in Ops /\ job \in [Ops -> JobType] /\ y \in Types /\ n \in Sid
  BY <1>y, NextSidAbove, DegradedAssumption DEF Ops, TypeInv, TypeOK, JobType
<1>1. /\ job'[o].sid = [job[o].sid EXCEPT ![r] = n]
      /\ job'[o].stage = [job[o].stage EXCEPT ![r] = "kids"]
      /\ counter'[y] = n + 1 /\ rows' = rows /\ pc' = pc /\ kids' \subseteq kids
      /\ pc[o] = "saving"
  <2>1. /\ job' = [job EXCEPT ![o].sid[r] = NextSid(Type[r]), ![o].stage[r] = "kids"]
        /\ rows' = rows /\ pc' = pc /\ kids' \subseteq kids /\ pc[o] = "saving"
    BY DEF Reserve, TouchDirty, Innermost
  <2>2. counter'[y] = n + 1
    BY <1>y, <1>0, CountersGrow
  <2> QED BY <1>y, <1>0, <2>1, <2>2 DEF JobType
<1>2. job'[o].sid[r] = n /\ job'[o].stage[r] = "kids"
      /\ \A q \in Records : q # r => job'[o].sid[q] = job[o].sid[q] /\ job'[o].stage[q] = job[o].stage[q]
  BY <1>0, <1>1 DEF JobType
<1>3. ~HasRow(y, n) /\ (\A k : ~KidAt(k, y, n))
      /\ \A q \in Records : Staged(o, q) /\ Type[q] = y => job[o].sid[q] # n
  BY <1>y, FreshSid
<1>4. n < n + 1
  BY <1>0 DEF Sid
<1>5. ~HasRow(y, n)' /\ \A k : ~KidAt(k, y, n)'
  BY <1>1, <1>3 DEF HasRow, RowsOf, KidAt
<1>6. \A q \in Records : Staged(o, q)' /\ Type[q] = y /\ job'[o].sid[q] = n => q = r
  <2> SUFFICES ASSUME NEW q \in Records, Staged(o, q)', Type[q] = y, job'[o].sid[q] = n, q # r
               PROVE  FALSE
    OBVIOUS
  <2>1. Staged(o, q)
    BY <1>1, <1>2 DEF Staged, Stage
  <2> QED BY <1>2, <1>3, <2>1
<1> QED BY <1>y, <1>1, <1>2, <1>4, <1>5, <1>6 DEF Reserved, Stage, HasRow, RowsOf, KidAt

\* A record that has been reserved.
LEMMA ReservedLater ==
  ASSUME TypeInv, WriterInv, WorkInv, MarkInv, RowInv, SidInv, [Next]_vars,
         NEW o \in Saves, NEW r \in Records, SaveRecord(o, r), pc'[o] = "saving",
         NEW q \in Records, Staged(o, q), Staged(o, q)', job'[o].sid[q] = job[o].sid[q],
         job'[o].stage[q] = job[o].stage[q] \/ (ClaimEntry(o, r) /\ q = r)
  PROVE  Reserved(o, q)'
<1>n. PICK y, n : y = Type[q] /\ n = job[o].sid[q] /\ n = job'[o].sid[q]
  OBVIOUS
<1> USE DegradedAssumption
<1>0. /\ o \in Ops /\ job \in [Ops -> JobType] /\ job[o] \in JobType /\ pc \in [Ops -> Places]
      /\ y \in Types /\ Reserved(o, q) /\ pc[o] = "saving" /\ at[o] # None /\ n \in Nat
  <2>1. o \in Ops /\ pc[o] = "saving"
    BY SaverIs DEF Ops
  <2>2. job \in [Ops -> JobType] /\ pc \in [Ops -> Places]
    BY DEF TypeInv, TypeOK, JobType
  <2>3. job[o] \in JobType /\ y \in Types /\ n \in Nat
    BY <1>n, <2>1, <2>2 DEF JobType
  <2>4. Reserved(o, q)
    BY DEF SidInv
  <2>5. at[o] # None
    BY <2>1 DEF WorkInv, Placed, PlacesOf, SavePlaces
  <2> QED BY <2>1, <2>2, <2>3, <2>4, <2>5
<1>1. ~Collecting
  <2> SUFFICES ASSUME NEW f \in Fscks, pc[f] = "collecting" PROVE FALSE
    BY DEF Collecting
  <2>1. f \in Ops /\ f # o
    BY DEF Ops
  <2>2. at[f] # None
    BY <2>1 DEF WorkInv, Placed, PlacesOf, SavePlaces, FsckPlaces
  <2> QED BY <1>n, <1>0, <2>1, <2>2 DEF WorkInv, OneAtWork
<1>2. Keys \subseteq Keys'
  BY <1>1, KeysStay
<1>3. n < counter'[y]
  <2>1. n < counter[y]
    BY <1>n, <1>0 DEF Reserved
  <2>2. counter[y] <= counter'[y] /\ counter[y] \in Nat /\ counter'[y] \in Nat
    BY <1>n, <1>0, CountersGrow
  <2> QED BY <1>n, <1>0, <2>1, <2>2
<1>4. ~HasRow(y, n)'
  <2>0. ~HasRow(y, n)
    BY <1>n, <1>0 DEF Reserved
  <2>1. CASE rows' = rows
    BY <2>0, <2>1 DEF HasRow, RowsOf
  <2>2. CASE WriteParent(o, r)
    <3>1. PICK w : Parenting(o, r, w)
      BY <2>2, ParentWritten
    <3>2. q # r
      BY <1>n, <1>0, <3>1 DEF Parenting, Staged, Stage, JobType
    <3>3. ~(Type[r] = y /\ job[o].sid[r] = n)
      BY <1>n, <1>0, <3>1, <3>2 DEF Parenting, Reserved
    <3>4. rows' = rows \cup {w} /\ w.rec = r /\ w.sid = job[o].sid[r]
      BY <3>1 DEF Parenting
    <3> QED BY <2>0, <3>3, <3>4 DEF HasRow, RowsOf
  <2>3. ASSUME Promote(o, r) PROVE FALSE
    BY <1>n, <1>0, <2>3 DEF Promote
  <2>4. rows' = rows \/ WriteParent(o, r) \/ Promote(o, r)
    BY DEF SaveRecord, Descend, Reserve, TouchChildTable, WriteKid, ClaimEntry, tables
  <2> QED BY <2>1, <2>2, <2>3, <2>4
<1>5. ASSUME NEW k, KidAt(k, y, n)'
      PROVE  /\ k.rec = q /\ k.by = o /\ <<y, "child">> \in Touched(o)'
             /\ k.item \in Records => <<k.item, k.ref>> \in Keys'
  <2>1. Touched(o) \subseteq Touched(o)'
    BY TouchedGrows
  <2>2. CASE KidAt(k, y, n)
    BY <1>n, <1>0, <1>2, <2>1, <2>2 DEF Reserved
  <2>3. CASE ~KidAt(k, y, n)
    <3>1. k \notin kids /\ ~(kids' \subseteq kids)
      BY <1>5, <2>3 DEF KidAt
    <3>2. WriteKid(o, r)
      BY <3>1 DEF SaveRecord, Descend, Promote, Reserve, TouchChildTable, TouchDirty, ClaimEntry,
                  WriteParent, tables
    <3>3. PICK j : KidWritten(o, r, j)
      BY <3>2, KidIs
    <3>4. j = k
      BY <1>5, <3>1, <3>3 DEF KidWritten, KidAt
    <3>5. Type[r] = y /\ job[o].sid[r] = n /\ k.rec = r /\ k.by = o
      BY <1>5, <3>3, <3>4 DEF KidWritten, KidAt
    <3>6. r = q
      BY <1>n, <1>0, <3>3, <3>5 DEF KidWritten, Reserved
    <3>7. k.item \in Records => <<k.item, k.ref>> \in Keys
      <4> SUFFICES ASSUME k.item \in Records PROVE <<k.item, k.ref>> \in Keys
        OBVIOUS
      <4>1. k.item \in Items[r] \cap Records /\ k.ref = job[o].found[k.item]
        BY <3>3, <3>4 DEF KidWritten
      <4>2. job[o].found[k.item] # 0
        BY <3>3, <4>1 DEF KidWritten, Encoded
      <4> QED BY <1>n, <1>0, <4>1, <4>2 DEF SidInv, FoundThere
    <3> QED BY <1>2, <2>1, <3>3, <3>5, <3>6, <3>7 DEF KidWritten
  <2> QED BY <2>2, <2>3
<1>6. ASSUME NEW u \in Records, Staged(o, u)', Type[u] = y, job'[o].sid[u] = n
      PROVE  u = q
  <2>1. CASE Reserve(o, r) /\ u = r
    <3>1. job'[o].sid[r] = NextSid(Type[r])
      BY <1>n, <1>0, <2>1 DEF Reserve, JobType
    <3> QED BY <1>n, <1>6, <2>1, <3>1, FreshSid
  <2>2. CASE Staged(o, u) /\ job'[o].sid[u] = job[o].sid[u]
    BY <1>n, <1>0, <1>6, <2>2 DEF Reserved
  <2> QED BY <1>6, <2>1, <2>2, StagedBefore
<1>7. ASSUME job'[o].stage[q] = "row", NEW i \in Items[q]
      PROVE  \E k : KidAt(k, y, n)' /\ k.item = i
  <2>1. \E k : KidAt(k, y, n) /\ k.item = i
    <3>1. CASE job'[o].stage[q] = job[o].stage[q]
      BY <1>n, <1>0, <1>7, <3>1 DEF Reserved, Stage
    <3>2. CASE ClaimEntry(o, r) /\ q = r
      <4>1. i \in Written(o, q)
        BY <1>7, <3>2 DEF ClaimEntry
      <4> QED BY <1>n, <4>1 DEF Written, KidAt
    <3> QED BY <3>1, <3>2
  <2>2. PICK k : KidAt(k, y, n) /\ k.item = i
    BY <2>1
  <2>3. k \in kids'
    BY <1>n, <1>0, <2>2, OwnKidsStay
  <2> QED BY <2>2, <2>3 DEF KidAt
<1> QED BY <1>n, <1>3, <1>4, <1>5, <1>6, <1>7 DEF Reserved, Stage, HasRow, RowsOf, KidAt

LEMMA SidsBelowStep ==
  ASSUME TypeInv, RowInv, SidInv, [Next]_vars
  PROVE  SidsBelow'
<1> USE DegradedAssumption
<1>0. /\ \A y \in Types : counter[y] <= counter'[y] /\ counter[y] \in Nat /\ counter'[y] \in Nat
      /\ \A x \in rows : x.rec \in Records /\ x.sid \in Nat /\ x.sid < counter[Type[x.rec]]
      /\ \A k \in kids : k.rec \in Records /\ k.sid \in Nat /\ k.sid < counter[Type[k.rec]]
      /\ \A r \in Records : Type[r] \in Types
  <2>1. \A y \in Types : counter[y] <= counter'[y] /\ counter[y] \in Nat /\ counter'[y] \in Nat
    BY CountersGrow
  <2> QED BY <2>1 DEF TypeInv, TypeOK, Sid, SidInv, SidsBelow
<1>a. ASSUME NEW o \in Saves, NEW r \in Records, Staged(o, r)
      PROVE  job[o].sid[r] < counter'[Type[r]]
  <2>1. job[o].sid[r] < counter[Type[r]]
    BY <1>a DEF SidInv, Reserved
  <2>2. job[o].sid[r] \in Nat
    BY DEF TypeInv, TypeOK, Ops
  <2> QED BY <1>0, <2>1, <2>2
<1>b. \A r \in Records, n \in Nat : n < counter[Type[r]] => n < counter'[Type[r]]
  <2> SUFFICES ASSUME NEW r \in Records, NEW n \in Nat, n < counter[Type[r]] PROVE n < counter'[Type[r]]
    OBVIOUS
  <2>1. counter[Type[r]] <= counter'[Type[r]] /\ counter[Type[r]] \in Nat /\ counter'[Type[r]] \in Nat
    BY <1>0
  <2> QED BY <2>1
<1>1. \A x \in rows' : x.sid < counter'[Type[x.rec]]
  <2>1. \A x \in rows : x.sid < counter'[Type[x.rec]]
    BY <1>0, <1>b
  <2>2. CASE rows' \subseteq rows
    BY <2>1, <2>2
  <2>3. ASSUME NEW o \in Saves, NEW r \in Records, Promote(o, r) PROVE <1>1
    <3>1. PICK x, z : Promotion(o, r, x, z)
      BY <2>3, Promoted DEF RowInv
    <3> QED BY <2>1, <3>1 DEF Promotion
  <2>4. ASSUME NEW o \in Saves, NEW r \in Records, WriteParent(o, r) PROVE <1>1
    <3>1. PICK w : Parenting(o, r, w)
      BY <2>4, ParentWritten
    <3>2. rows' = rows \cup {w} /\ w.rec = r /\ w.sid < counter'[Type[r]]
      BY <1>a, <3>1 DEF Parenting
    <3> QED BY <2>1, <3>2
  <2>5. ASSUME NEW f \in Fscks, NEW y \in Types, CollectType(f, y) PROVE rows' \subseteq rows
    BY <2>5 DEF CollectType
  <2> QED BY <2>2, <2>3, <2>4, <2>5, RowsMove
<1>2. \A k \in kids' : k.sid < counter'[Type[k.rec]]
  <2>1. \A k \in kids : k.sid < counter'[Type[k.rec]]
    BY <1>0, <1>b
  <2>2. CASE kids' \subseteq kids
    BY <2>1, <2>2
  <2>3. ASSUME NEW o \in Saves, NEW r \in Records, WriteKid(o, r) PROVE <1>2
    <3>1. PICK k : KidWritten(o, r, k)
      BY <2>3, KidIs
    <3>2. kids' = kids \cup {k} /\ k.rec = r /\ k.sid < counter'[Type[r]]
      BY <1>a, <3>1 DEF KidWritten
    <3> QED BY <2>1, <3>2
  <2> QED BY <2>2, <2>3, KidsMove
<1> QED BY <1>1, <1>2 DEF SidsBelow

LEMMA KidsStep ==
  ASSUME TypeInv, SidInv, [Next]_vars
  PROVE  IsFiniteSet(kids') /\ ItemsOwn' /\ OneKidPerItem'
<1>0. IsFiniteSet(kids) /\ ItemsOwn /\ OneKidPerItem
  BY DEF SidInv
<1>1. CASE kids' \subseteq kids
  <2>1. IsFiniteSet(kids')
    BY <1>0, <1>1, FS_Subset
  <2>2. ItemsOwn'
    BY <1>0, <1>1 DEF ItemsOwn
  <2>3. OneKidPerItem'
    BY <1>0, <1>1 DEF OneKidPerItem
  <2> QED BY <2>1, <2>2, <2>3
<1>2. ASSUME NEW o \in Saves, NEW r \in Records, WriteKid(o, r)
      PROVE  IsFiniteSet(kids') /\ ItemsOwn' /\ OneKidPerItem'
  <2>1. PICK k : KidWritten(o, r, k)
    BY <1>2, KidIs
  <2>2. /\ kids' = kids \cup {k} /\ k.rec = r /\ k.sid = job[o].sid[r]
        /\ k.item \in Items[r] /\ k.item \notin Written(o, r) /\ Reserved(o, r)
    BY <2>1 DEF KidWritten, SidInv
  <2>3. IsFiniteSet(kids')
    BY <1>0, <2>2, FS_AddElement
  <2>4. ItemsOwn'
    BY <1>0, <2>2 DEF ItemsOwn
  <2>5. \A l \in kids : ~(Type[l.rec] = Type[r] /\ l.sid = k.sid /\ l.item = k.item)
    <3> SUFFICES ASSUME NEW l \in kids, Type[l.rec] = Type[r], l.sid = k.sid, l.item = k.item
                 PROVE  FALSE
      OBVIOUS
    <3>1. l.rec = r /\ l.by = o
      BY <2>2 DEF Reserved, KidAt
    <3> QED BY <2>2, <3>1 DEF Written
  <2>6. OneKidPerItem'
    BY <1>0, <2>2, <2>5 DEF OneKidPerItem
  <2> QED BY <2>3, <2>4, <2>6
<1> QED BY <1>1, <1>2, KidsMove

LEMMA FoundStep ==
  ASSUME TypeInv, WriterInv, WorkInv, RowInv, SidInv, [Next]_vars
  PROVE  FoundThere'
<1> SUFFICES ASSUME NEW o \in Saves, NEW q \in Records, pc'[o] = "saving", job'[o].found[q] # 0
             PROVE  <<q, job'[o].found[q]>> \in Keys'
  BY DEF FoundThere
<1> USE DegradedAssumption
<1>0. /\ o \in Ops /\ job \in [Ops -> JobType] /\ job[o] \in JobType /\ pc \in [Ops -> Places]
  BY DEF Ops, TypeInv, TypeOK, JobType
<1>1. ASSUME NEW s \in Stores, NEW r \in Records, StartSave(o, s, r) PROVE FALSE
  BY <1>0, <1>1 DEF StartSave, Begin, Idle
<1>2. ASSUME pc[o] = "saving" PROVE Keys \subseteq Keys'
  <2>1. ~Collecting
    <3> SUFFICES ASSUME NEW f \in Fscks, pc[f] = "collecting" PROVE FALSE
      BY DEF Collecting
    <3>1. f \in Ops /\ f # o
      BY DEF Ops
    <3>2. at[f] # None /\ at[o] # None
      BY <1>0, <1>2, <3>1 DEF WorkInv, Placed, PlacesOf, SavePlaces, FsckPlaces
    <3> QED BY <1>0, <3>1, <3>2 DEF WorkInv, OneAtWork
  <2> QED BY <2>1, KeysStay
<1>3. ASSUME pc[o] = "saving", job'[o].found[q] = job[o].found[q]
      PROVE  <<q, job'[o].found[q]>> \in Keys'
  BY <1>2, <1>3 DEF SidInv, FoundThere
<1>4. ASSUME pc[o] = "saving", NEW r \in Records, SaveRecord(o, r)
      PROVE  <<q, job'[o].found[q]>> \in Keys'
  <2>1. ASSUME NEW u \in Records, Descend(o, r, u) PROVE <<q, job'[o].found[q]>> \in Keys'
    <3>1. CASE job' = [job EXCEPT ![o].stage[u] = "refs"]
      <4>1. job'[o].found = job[o].found
        BY <1>0, <3>1 DEF JobType
      <4> QED BY <1>3, <1>4, <4>1
    <3>2. ASSUME NEW x \in Visible(u), job' = [job EXCEPT ![o].found[u] = x.sid]
          PROVE  <<q, job'[o].found[q]>> \in Keys'
      <4>1. job'[o].found = [job[o].found EXCEPT ![u] = x.sid]
        BY <1>0, <3>2 DEF JobType
      <4>2. CASE q = u
        <5>1. <<q, x.sid>> \in Keys /\ job'[o].found[q] = x.sid
          BY <1>0, <4>1, <4>2 DEF Keys, Visible, JobType
        <5> QED BY <1>2, <1>4, <5>1
      <4>3. CASE q # u
        <5>1. job'[o].found[q] = job[o].found[q]
          BY <1>0, <4>1, <4>3 DEF JobType
        <5> QED BY <1>3, <1>4, <5>1
      <4> QED BY <4>2, <4>3
    <3> QED BY <2>1, <3>1, <3>2 DEF Descend
  <2>2. ASSUME Promote(o, r) PROVE FALSE
    BY <1>0, <2>2 DEF Promote
  <2>3. CASE Reserve(o, r)
    <3>1. job'[o].found = job[o].found
      BY <1>0, <2>3 DEF Reserve, JobType
    <3> QED BY <1>3, <1>4, <3>1
  <2>4. CASE TouchChildTable(o, r) \/ WriteKid(o, r)
    <3>1. job' = job
      BY <2>4 DEF TouchChildTable, WriteKid, running
    <3> QED BY <1>3, <1>4, <3>1
  <2>5. CASE ClaimEntry(o, r)
    <3>1. job'[o].found = job[o].found
      BY <1>0, <2>5 DEF ClaimEntry, JobType
    <3> QED BY <1>3, <1>4, <3>1
  <2>6. CASE WriteParent(o, r)
    <3>1. PICK w : Parenting(o, r, w)
      BY <2>6, ParentWritten
    <3>2. job'[o].found = [job[o].found EXCEPT ![r] = job[o].sid[r]]
          /\ w \in rows' /\ w.rec = r /\ w.sid = job[o].sid[r]
      BY <3>1 DEF Parenting
    <3>3. CASE q = r
      <4>1. job'[o].found[q] = w.sid
        BY <1>0, <3>2, <3>3 DEF JobType
      <4> QED BY <3>2, <3>3, <4>1 DEF Keys
    <3>4. CASE q # r
      <4>1. job'[o].found[q] = job[o].found[q]
        BY <1>0, <3>2, <3>4 DEF JobType
      <4> QED BY <1>3, <1>4, <4>1
    <3> QED BY <3>3, <3>4
  <2> QED BY <1>4, <2>1, <2>2, <2>3, <2>4, <2>5, <2>6 DEF SaveRecord
<1>5. ASSUME pc[o] = "saving", Quiet PROVE <<q, job'[o].found[q]>> \in Keys'
  BY <1>3, <1>5 DEF Quiet
<1> QED BY <1>1, <1>4, <1>5, SavingBefore

LEMMA SidStep ==
  TypeInv /\ WriterInv /\ WorkInv /\ MarkInv /\ RowInv /\ SidInv /\ [Next]_vars => SidInv'
<1> SUFFICES ASSUME TypeInv, WriterInv, WorkInv, MarkInv, RowInv, SidInv, [Next]_vars
             PROVE  SidInv'
  OBVIOUS
<1>1. ASSUME NEW o \in Saves, NEW q \in Records, Staged(o, q)' PROVE Reserved(o, q)'
  <2>0. o \in Ops /\ pc'[o] = "saving"
    BY <1>1 DEF Ops, Staged
  <2>1. ASSUME NEW s \in Stores, NEW r \in Records, StartSave(o, s, r) PROVE FALSE
    BY <1>1, <2>0, <2>1 DEF StartSave, Begin, TypeInv, TypeOK, Staged, Stage, Idle
  <2>2. ASSUME NEW r \in Records, SaveRecord(o, r) PROVE Reserved(o, q)'
    <3>1. CASE Reserve(o, r) /\ q = r
      BY <3>1, ReservedNow
    <3>2. CASE /\ Staged(o, q) /\ job'[o].sid[q] = job[o].sid[q]
               /\ job'[o].stage[q] = job[o].stage[q] \/ (ClaimEntry(o, r) /\ q = r)
      BY <1>1, <2>0, <2>2, <3>2, ReservedLater
    <3> QED BY <1>1, <2>2, <3>1, <3>2, StagedBefore
  <2>3. CASE Quiet /\ pc[o] = "saving"
    <3>1. UNCHANGED <<job, touched, counter, rows, kids>> /\ pc'[o] = pc[o]
      BY <2>0, <2>3 DEF Quiet, tables
    <3>2. Staged(o, q)
      BY <1>1, <3>1 DEF Staged, Stage
    <3>3. Reserved(o, q)
      BY <3>2 DEF SidInv
    <3> QED BY <3>1, <3>3 DEF Reserved, Staged, Stage, HasRow, RowsOf, KidAt, Keys, Touched
  <2> QED BY <2>0, <2>1, <2>2, <2>3, SavingBefore
<1> QED BY <1>1, SidsBelowStep, KidsStep, FoundStep DEF SidInv

-----------------------------------------------------------------------------
(* What main and dispatch rows reach is whole.                             *)

\* The row has the child rows of its record, and refers to what is in G.
Within(x, G) ==
  /\ {k.item : k \in KidsOf(x)} = Items[x.rec]
  /\ x.refs \subseteq G
  /\ \A k \in KidsOf(x) : k.rec = x.rec /\ (k.item \in Records => <<k.item, k.ref>> \in G)

\* G has what main and dispatch rows name, and is closed.
WholeUpTo(G) ==
  /\ G \subseteq Keys
  /\ Roots \subseteq G
  /\ \A x \in rows : <<x.rec, x.sid>> \in G => Within(x, G)

\* The rows of the types that fsck is done with are marked.
Frontier(f) == \A x \in rows : Type[x.rec] \notin job[f].todo => <<x.rec, x.sid>> \in job[f].marked

RefsOwn == \A x \in rows : \A p \in x.refs : p[1] \in Refs[x.rec]

(* All rows are whole, but while fsck collects: then those it has marked   *)
(* are, and it leaves no others.                                           *)
WholeInv ==
  /\ RefsOwn
  /\ ~Collecting => WholeUpTo(Keys)
  /\ \A f \in Fscks : pc[f] = "collecting" => WholeUpTo(job[f].marked) /\ Frontier(f)

LEMMA WholeInit == Init => WholeInv
  BY DEF Init, WholeInv, RefsOwn, WholeUpTo, Keys, Roots, Ops

\* A set that is whole contains what is reached.
LEMMA WholeTargets ==
  ASSUME OneRow, NEW G, WholeUpTo(G), NEW p \in G
  PROVE  \E x \in rows : <<x.rec, x.sid>> = p /\ Within(x, G) /\ Targets(p[1], p[2]) \subseteq G
<1>1. PICK x \in rows : <<x.rec, x.sid>> = p
  BY DEF WholeUpTo, Keys
<1>2. Within(x, G)
  BY <1>1 DEF WholeUpTo
<1>3. \A y \in Visible(p[1]) : y = x
  BY <1>1 DEF Visible, OneRow
<1>4. UNION {y.refs : y \in {z \in Visible(p[1]) : z.sid = p[2]}} \subseteq G
  BY <1>2, <1>3 DEF Within
<1>5. \A k \in kids : k.rec = p[1] /\ k.sid = p[2] => k \in KidsOf(x)
  BY <1>1 DEF KidsOf
<1>6. \A k \in kids : k.rec = p[1] /\ k.sid = p[2] /\ k.item \in Records => <<k.item, k.ref>> \in G
  BY <1>2, <1>5 DEF Within
<1>7. Targets(p[1], p[2]) \subseteq G
  BY <1>4, <1>6 DEF Targets
<1> QED BY <1>1, <1>2, <1>7

LEMMA WholeReach ==
  ASSUME OneRow, NEW G, WholeUpTo(G)
  PROVE  Reach \subseteq G
<1>1. Roots \subseteq G
  BY DEF WholeUpTo
<1>2. \A p \in G : Targets(p[1], p[2]) \subseteq G
  BY WholeTargets
<1> QED BY <1>1, <1>2, ReachWithin

\* Such a row has all that Complete asks for.
LEMMA WholeIsComplete ==
  ASSUME SidInv, OneRow, NEW G, WholeUpTo(G), NEW p \in G
  PROVE  \E x \in rows : <<x.rec, x.sid>> = p /\ Complete(x)
<1>1. PICK x \in rows : <<x.rec, x.sid>> = p /\ Within(x, G) /\ Targets(p[1], p[2]) \subseteq G
  BY WholeTargets
<1>2. \A q \in Targets(x.rec, x.sid) : \E y \in rows : q = <<y.rec, y.sid>>
  BY <1>1 DEF WholeUpTo, Keys
<1>3. {k.item : k \in KidsOf(x)} = Items[x.rec]
  BY <1>1 DEF Within
<1>4. Cardinality(KidsOf(x)) = Cardinality(Items[x.rec])
  <2> DEFINE f == [k \in KidsOf(x) |-> k.item]
  <2>1. f \in Surjection(KidsOf(x), Items[x.rec])
    BY <1>3 DEF Surjection
  <2>2. f \in Injection(KidsOf(x), Items[x.rec])
    <3>1. f \in [KidsOf(x) -> Items[x.rec]]
      BY <1>3
    <3>2. \A k, l \in KidsOf(x) : k.item = l.item => k = l
      BY DEF SidInv, OneKidPerItem, KidsOf
    <3> QED BY <3>1, <3>2 DEF Injection, IsInjective
  <2>3. IsFiniteSet(KidsOf(x))
    BY FS_Subset DEF SidInv, KidsOf
  <2> QED BY <2>1, <2>2, <2>3, FS_Surjection
<1> QED BY <1>1, <1>2, <1>3, <1>4 DEF Complete

LEMMA RootsAreRows ==
  ASSUME DispatchMain
  PROVE  Roots \subseteq Keys
<1>1. \A d \in dispatch : <<d.rec, d.sid>> \in Keys
  BY DEF DispatchMain, MainRow, Keys
<1> QED BY <1>1 DEF Roots, Keys

\* What a row refers to are parts of its record.
LEMMA TargetsAreParts ==
  ASSUME RefsOwn, SidInv, NEW p, NEW q \in Targets(p[1], p[2])
  PROVE  q[1] \in Parts(p[1])
<1>1. CASE q \in UNION {x.refs : x \in {y \in Visible(p[1]) : y.sid = p[2]}}
  BY <1>1 DEF RefsOwn, Visible, Parts
<1>2. CASE q \in {<<k.item, k.ref>> : k \in {j \in kids : j.rec = p[1] /\ j.sid = p[2] /\ j.item \in Records}}
  BY <1>2 DEF SidInv, ItemsOwn, Parts
<1> QED BY <1>1, <1>2 DEF Targets

(* What is reached in as many steps as there are records is all that can   *)
(* be reached: each step goes down the ranks of the records.               *)
LEMMA ReachClosed ==
  ASSUME TypeInv, RefsOwn, SidInv
  PROVE  /\ Roots \subseteq Reach
         /\ \A p \in Reach : Targets(p[1], p[2]) \subseteq Reach
<1>1. PICK rank \in [Records -> 1..Cardinality(Records)] :
        \A u \in Records : \A v \in Parts(u) : rank[v] < rank[u]
  BY AcyclicAssumption
<1>2. PICK N \in Nat : N = Cardinality(Records)
  BY AcyclicAssumption, FS_CardinalityType
<1>3. PICK g : Steps(g) /\ Reach = g[N]
  BY <1>2, ReachBySteps
<1>4. g[0] = Roots /\ \A n \in Nat : g[n + 1] = Onward(g[n])
  BY <1>3 DEF Steps
<1>5. \A r \in Records : rank[r] \in Nat /\ 1 <= rank[r] /\ rank[r] <= N
  BY <1>1, <1>2
<1> DEFINE Settled(n) ==
             /\ Roots \subseteq g[n]
             /\ g[n] \subseteq Records \X Sid
             /\ \A p \in g[n] : Targets(p[1], p[2]) \subseteq g[n] \/ rank[p[1]] + n <= N
           S == {n \in Nat : Settled(n)}
<1>6. 0 \in S
  BY <1>4, <1>5, RootsTyped
<1>7. ASSUME NEW n \in S PROVE n + 1 \in S
  <2>0. n \in Nat /\ Settled(n) /\ g[n + 1] = Onward(g[n])
    BY <1>4
  <2>1. Roots \subseteq g[n + 1] /\ g[n] \subseteq g[n + 1]
    BY <2>0 DEF Onward
  <2>2. \A p \in g[n] : Targets(p[1], p[2]) \subseteq g[n + 1]
    BY <2>0 DEF Onward
  <2>3. \A p \in g[n + 1] : p \in g[n] \/ \E q \in g[n] : p \in Targets(q[1], q[2])
    BY <2>0 DEF Onward
  <2>4. g[n + 1] \subseteq Records \X Sid
    BY <2>0, <2>3, TargetsTyped
  <2>5. ASSUME NEW p \in g[n + 1]
        PROVE  Targets(p[1], p[2]) \subseteq g[n + 1] \/ rank[p[1]] + (n + 1) <= N
    <3>1. CASE p \in g[n]
      BY <2>2, <3>1
    <3>2. ASSUME NEW q \in g[n], p \in Targets(q[1], q[2]), p \notin g[n]
          PROVE  rank[p[1]] + (n + 1) <= N
      <4>1. rank[q[1]] + n <= N /\ q[1] \in Records /\ p[1] \in Records
        BY <2>0, <2>4, <3>2
      <4>2. rank[p[1]] < rank[q[1]]
        BY <1>1, <3>2, <4>1, TargetsAreParts
      <4>3. rank[p[1]] \in Nat /\ rank[q[1]] \in Nat
        BY <1>5, <4>1
      <4> QED BY <1>2, <2>0, <4>1, <4>2, <4>3
    <3> QED BY <2>3, <3>1, <3>2
  <2> HIDE DEF Settled
  <2>6. Settled(n + 1)
    BY <2>1, <2>4, <2>5 DEF Settled
  <2> QED BY <2>0, <2>6
<1>8. S = Nat
  <2>1. S \subseteq Nat
    OBVIOUS
  <2> HIDE DEF S
  <2> QED BY <1>6, <1>7, <2>1, NumberInduction
<1>9. Settled(N)
  <2>1. N \in S
    BY <1>2, <1>8
  <2> QED BY <2>1
<1>10. ASSUME NEW p \in g[N] PROVE Targets(p[1], p[2]) \subseteq g[N]
  <2>1. p[1] \in Records
    BY <1>9
  <2>2. ~(rank[p[1]] + N <= N)
    BY <1>2, <1>5, <2>1
  <2> QED BY <1>9, <2>2
<1> QED BY <1>3, <1>9, <1>10

\* What is reached in whole tables is whole.
LEMMA ReachIsWhole ==
  ASSUME TypeInv, RefsOwn, SidInv, OneRow, WholeUpTo(Keys)
  PROVE  WholeUpTo(Reach)
<1>1. Reach \subseteq Keys
  BY WholeReach
<1>2. ASSUME NEW x \in rows, <<x.rec, x.sid>> \in Reach PROVE Within(x, Reach)
  <2>1. Targets(x.rec, x.sid) \subseteq Reach
    <3>1. \A p \in Reach : Targets(p[1], p[2]) \subseteq Reach
      BY ReachClosed
    <3>2. PICK p : p = <<x.rec, x.sid>>
      OBVIOUS
    <3> QED BY <1>2, <3>1, <3>2
  <2>2. Within(x, Keys)
    BY <1>1, <1>2 DEF WholeUpTo
  <2>3. x.refs \subseteq Targets(x.rec, x.sid)
    BY DEF Targets, Visible
  <2>4. \A k \in KidsOf(x) : k.item \in Records => <<k.item, k.ref>> \in Targets(x.rec, x.sid)
    BY <2>2 DEF Targets, KidsOf, Within
  <2> QED BY <2>1, <2>2, <2>3, <2>4 DEF Within
<1> QED BY <1>1, <1>2, ReachClosed DEF WholeUpTo

\* A row that stays keeps its child rows.
LEMMA WithinStays ==
  ASSUME TypeInv, SidInv, [Next]_vars, NEW x \in rows, NEW G, Within(x, G), NEW H, G \subseteq H
  PROVE  KidsOf(x)' = KidsOf(x) /\ Within(x, H)'
<1>y. PICK y, n : y = Type[x.rec] /\ n = x.sid
  OBVIOUS
<1>1. HasRow(y, n)
  BY <1>y DEF HasRow, RowsOf
<1>2. \A k : KidAt(k, y, n)' <=> KidAt(k, y, n)
  BY <1>1, KidsOfRowsStay
<1>3. KidsOf(x)' = {k \in kids' : Type[k.rec] = y /\ k.sid = n} /\ KidsOf(x) = {k \in kids : Type[k.rec] = y /\ k.sid = n}
  BY <1>y DEF KidsOf
<1>4. KidsOf(x)' = KidsOf(x)
  BY <1>2, <1>3 DEF KidAt
<1> QED BY <1>4 DEF Within

\* The rows that a step leaves are those of before, promoted or not, or one new row.
LEMMA RefsStep ==
  ASSUME TypeInv, RowInv, RefsOwn, [Next]_vars
  PROVE  RefsOwn'
<1>1. CASE rows' \subseteq rows
  BY <1>1 DEF RefsOwn
<1>2. ASSUME NEW o \in Saves, NEW r \in Records, Promote(o, r) PROVE RefsOwn'
  <2>1. PICK x, z : Promotion(o, r, x, z)
    BY <1>2, Promoted DEF RowInv
  <2> QED BY <2>1 DEF Promotion, RefsOwn
<1>3. ASSUME NEW o \in Saves, NEW r \in Records, WriteParent(o, r) PROVE RefsOwn'
  <2>1. PICK n : Parenting(o, r, n)
    BY <1>3, ParentWritten
  <2>2. \A p \in n.refs : p[1] \in Refs[n.rec]
    BY <2>1 DEF Parenting
  <2> QED BY <2>1, <2>2 DEF Parenting, RefsOwn
<1>4. ASSUME NEW f \in Fscks, NEW y \in Types, CollectType(f, y) PROVE rows' \subseteq rows
  BY <1>4 DEF CollectType
<1> QED BY <1>1, <1>2, <1>3, <1>4, RowsMove

\* A fsck that collects has just marked, or goes on.
LEMMA CollectingBefore ==
  ASSUME TypeInv, WriterInv, WorkInv, [Next]_vars, NEW f \in Fscks, pc'[f] = "collecting"
  PROVE  \/ RepairAndMark(f)
         \/ pc[f] = "collecting" /\ (Quiet \/ \E y \in Types : CollectType(f, y))
<1> USE DegradedAssumption
<1>0. /\ f \in Ops /\ f \notin Saves
      /\ pc \in [Ops -> Places] /\ at \in [Ops -> Stores \cup {None}]
  BY DEF Ops, TypeInv, TypeOK
<1>1. CASE at[f] # None
  <2>1. CASE Quiet
    <3>1. pc[f] = "collecting"
      BY <1>0, <2>1 DEF Quiet
    <3> QED BY <2>1, <3>1
  <2>2. CASE Fsck(f)
    <3>1. ASSUME SweepChildren(f) PROVE FALSE
      BY <1>0, <3>1 DEF SweepChildren
    <3>2. ASSUME SyncClaims(f) PROVE FALSE
      BY <1>0, <3>2 DEF SyncClaims
    <3>3. ASSUME NEW y \in Types, CollectType(f, y) PROVE pc[f] = "collecting"
      BY <3>3 DEF CollectType
    <3> QED BY <2>2, <3>1, <3>2, <3>3 DEF Fsck
  <2>4. ASSUME End(f) PROVE FALSE
    BY <1>0, <2>4 DEF End, EndOperation, ClearMarker, running, Ending
  <2>5. ASSUME at[f] \in Stores, Die(at[f]) PROVE FALSE
    BY <1>0, <2>5 DEF Die
  <2> QED BY <1>0, <1>1, <2>1, <2>2, <2>4, <2>5, StepsAreIts
<1>2. CASE at[f] = None
  <2>1. pc[f] \notin FsckPlaces /\ pc[f] # "collecting"
    BY <1>0, <1>2 DEF WorkInv, Placed, PlacesOf, FsckPlaces
  <2>2. ASSUME NEW o \in Saves, NEW s \in Stores, NEW r \in Records, StartSave(o, s, r) PROVE FALSE
    BY <1>0, <2>1, <2>2 DEF StartSave, Begin
  <2>3. ASSUME NEW g \in Fscks, NEW s \in Stores, StartFsck(g, s) PROVE FALSE
    BY <1>0, <2>1, <2>3 DEF StartFsck, Begin
  <2>4. ASSUME NEW o \in Saves, NEW r \in Records, SaveRecord(o, r) PROVE FALSE
    BY <1>0, <2>1, <2>4, SaverIs
  <2>5. ASSUME NEW o \in Saves, WriteDispatch(o) \/ SaveFails(o) PROVE FALSE
    BY <1>0, <2>1, <2>5 DEF WriteDispatch, SaveFails
  <2>6. ASSUME NEW g \in Fscks, Fsck(g) PROVE FALSE
    BY <1>0, <2>1, <2>6, FsckIs
  <2>7. ASSUME NEW o \in Ops, End(o) PROVE FALSE
    BY <1>0, <2>1, <2>7 DEF End, EndOperation, ClearMarker, running
  <2>8. ASSUME NEW s \in Stores, Die(s) PROVE FALSE
    BY <1>0, <2>1, <2>8 DEF Die
  <2>9. ASSUME Quiet PROVE FALSE
    BY <1>0, <2>1, <2>9 DEF Quiet
  <2>10. FALSE
    BY <2>2, <2>3, <2>4, <2>5, <2>6, <2>7, <2>8, <2>9, QuietSteps DEF Next
  <2> QED BY <2>10
<1> QED BY <1>1, <1>2

\* While no fsck collects, rows stay whole and a new row is written whole.
LEMMA WholeGrows ==
  ASSUME TypeInv, RowInv, SidInv, WholeUpTo(Keys), ~Collecting, [Next]_vars, DispatchMain'
  PROVE  WholeUpTo(Keys)'
<1>k. PICK K : K = Keys'
  OBVIOUS
<1>1. Keys \subseteq K
  BY <1>k, KeysStay
<1>2. Roots' \subseteq Keys'
  <2>1. (Roots \subseteq Keys)'
    BY RootsAreRows, PTL
  <2> QED BY <2>1
<1>3. ASSUME NEW x \in rows PROVE Within(x, K)'
  <2>1. Within(x, Keys)
    BY DEF WholeUpTo, Keys
  <2> QED BY <1>1, <2>1, WithinStays
<1>4. \A x \in rows' : Within(x, K)'
  <2>1. CASE rows' = rows
    BY <1>3, <2>1
  <2>2. ASSUME NEW o \in Saves, NEW r \in Records, Promote(o, r), NEW w \in rows' PROVE Within(w, K)'
    <3>1. PICK x, z : Promotion(o, r, x, z)
      BY <2>2, Promoted DEF RowInv
    <3>2. CASE w \in rows
      BY <1>3, <3>2
    <3>3. CASE w = z
      <4>1. w.rec = x.rec /\ w.sid = x.sid /\ w.refs = x.refs /\ x \in rows
        BY <3>1, <3>3 DEF Promotion
      <4>2. Within(x, K)'
        BY <1>3, <4>1
      <4>3. KidsOf(w)' = KidsOf(x)'
        BY <4>1 DEF KidsOf
      <4> QED BY <4>1, <4>2, <4>3 DEF Within
    <3> QED BY <2>2, <3>1, <3>2, <3>3 DEF Promotion
  <2>3. ASSUME NEW o \in Saves, NEW r \in Records, WriteParent(o, r), NEW w \in rows'
        PROVE  Within(w, K)'
    <3>1. PICK n : Parenting(o, r, n)
      BY <2>3, ParentWritten
    <3>2. CASE w \in rows
      BY <1>3, <3>2
    <3>3. CASE w = n
      <4>1. PICK y, m : y = Type[r] /\ m = job[o].sid[r] /\ w.rec = r /\ w.sid = m
        BY <3>1, <3>3 DEF Parenting
      <4>2. kids' = kids
        BY <2>3 DEF WriteParent
      <4>3. Staged(o, r) /\ Stage(o, r) = "row" /\ Reserved(o, r)
        BY <3>1 DEF Parenting, SidInv
      <4>4. \A k \in KidsOf(w)' : KidAt(k, y, m)
        BY <4>1, <4>2 DEF KidsOf, KidAt
      <4>5. \A k : KidAt(k, y, m) => k \in KidsOf(w)'
        BY <4>1, <4>2 DEF KidsOf, KidAt
      <4>6. \A k : KidAt(k, y, m) => /\ k.rec = r /\ k.item \in Items[r]
                                     /\ k.item \in Records => <<k.item, k.ref>> \in Keys
        BY <4>1, <4>3 DEF Reserved, SidInv, ItemsOwn, KidAt
      <4>7. \A i \in Items[r] : \E k : KidAt(k, y, m) /\ k.item = i
        BY <4>1, <4>3 DEF Reserved
      <4>8. w.refs \subseteq Keys
        <5>1. w.refs = {<<q, job[o].found[q]>> : q \in Refs[r]}
          BY <3>1, <3>3 DEF Parenting
        <5>2. \A q \in Refs[r] : q \in Records /\ job[o].found[q] # 0
          BY <4>3, DegradedAssumption DEF TypeInv, JobSound
        <5>3. pc[o] = "saving"
          BY <4>3 DEF Staged
        <5> QED BY <5>1, <5>2, <5>3 DEF SidInv, FoundThere
      <4>9. {k.item : k \in KidsOf(w)'} = Items[w.rec]
        <5>1. PICK J : J = KidsOf(w)'
          OBVIOUS
        <5>2. \A k \in J : k.item \in Items[r]
          BY <4>4, <4>6, <5>1
        <5>3. \A i \in Items[r] : \E k \in J : k.item = i
          BY <4>5, <4>7, <5>1
        <5>4. {k.item : k \in J} = Items[r]
          BY <5>2, <5>3
        <5> QED BY <4>1, <5>1, <5>4
      <4> QED BY <1>1, <4>1, <4>4, <4>6, <4>8, <4>9 DEF Within
    <3> QED BY <2>3, <3>1, <3>2, <3>3 DEF Parenting
  <2>4. ASSUME NEW f \in Fscks, NEW y \in Types, CollectType(f, y) PROVE FALSE
    BY <2>4 DEF CollectType, Collecting
  <2> QED BY <2>1, <2>2, <2>3, <2>4, RowsMove
<1> QED BY <1>k, <1>2, <1>4 DEF WholeUpTo, Within

\* When a fsck marks, nothing has been collected yet and what it marks is whole.
LEMMA MarkedWhole ==
  ASSUME TypeInv, WorkInv, RowInv, SidInv, WholeInv, NEW f \in Fscks, RepairAndMark(f)
  PROVE  WholeUpTo(job[f].marked)' /\ Frontier(f)'
<1> USE DegradedAssumption
<1>0. /\ f \in Ops /\ f \notin Saves /\ pc[f] = "repairing" /\ DOMAIN job = Ops
      /\ job[f] \in JobType
      /\ \A r \in Records : Type[r] \in Types
  BY DEF Ops, RepairAndMark, TypeInv, TypeOK, JobType
<1>1. ~Collecting
  <2> SUFFICES ASSUME NEW g \in Fscks, pc[g] = "collecting" PROVE FALSE
    BY DEF Collecting
  <2>1. g \in Ops /\ g \notin Saves
    BY DEF Ops
  <2>2. at[g] # None /\ at[f] # None
    BY <1>0, <2>1 DEF WorkInv, Placed, PlacesOf, FsckPlaces
  <2> QED BY <1>0, <2>1, <2>2 DEF WorkInv, OneAtWork
<1>2. PICK M : M = Reach
  OBVIOUS
<1>3. job'[f].marked = M /\ job'[f].todo = Types /\ rows' = rows /\ kids' = kids
  BY <1>0, <1>2 DEF RepairAndMark, tables, JobType
<1>4. WholeUpTo(M)
  BY <1>1, <1>2, ReachIsWhole DEF WholeInv, RowInv
<1>5. Roots' \subseteq M
  <2> DEFINE new == {[rec |-> x.rec, sid |-> x.sid] :
                       x \in {y \in rows : y.main /\ Type[y.rec] \in EntryTypes
                                           /\ ~\E d \in dispatch : d.rec = y.rec}}
  <2>1. /\ dispatch' = dispatch \cup new
        /\ \A d \in new : \E x \in rows : x.main /\ d.rec = x.rec /\ d.sid = x.sid
    BY DEF RepairAndMark
  <2> HIDE DEF new
  <2>2. Roots' \subseteq Roots
    BY <1>3, <2>1 DEF Roots
  <2> QED BY <1>4, <2>2 DEF WholeUpTo
<1>6. (WholeUpTo(M))'
  BY <1>3, <1>4, <1>5 DEF WholeUpTo, Keys, Within, KidsOf
<1>7. Frontier(f)'
  BY <1>0, <1>3 DEF Frontier, TypeInv, TypeOK
<1> QED BY <1>3, <1>6, <1>7 DEF WholeUpTo, Within

\* A collected table keeps what is marked and nothing else.
LEMMA CollectedWhole ==
  ASSUME TypeInv, SidInv, [Next]_vars, NEW f \in Fscks, NEW y \in Types, CollectType(f, y),
         WholeUpTo(job[f].marked), Frontier(f)
  PROVE  WholeUpTo(job[f].marked)' /\ Frontier(f)'
<1>0. /\ f \in Ops /\ DOMAIN job = Ops /\ job[f] \in JobType
  BY DEF Ops, TypeInv, TypeOK, JobType
<1>1. PICK M : M = job[f].marked
  OBVIOUS
<1>2. /\ job'[f].marked = M /\ job'[f].todo = job[f].todo \ {y} /\ dispatch' = dispatch
      /\ rows' = {x \in rows : Type[x.rec] = y => x.main \/ <<x.rec, x.sid>> \in M}
  BY <1>0, <1>1 DEF CollectType, JobType
<1>3. M \subseteq Keys /\ Roots \subseteq M
  BY <1>1 DEF WholeUpTo
<1>4. \A x \in rows : x.main => <<x.rec, x.sid>> \in M
  BY <1>3 DEF Roots
<1>5. M \subseteq Keys'
  BY <1>2, <1>3 DEF Keys
<1>6. Roots' \subseteq M
  BY <1>2, <1>3 DEF Roots
<1>7. ASSUME NEW x \in rows', <<x.rec, x.sid>> \in M PROVE (Within(x, M))'
  <2>1. x \in rows /\ Within(x, M)
    BY <1>1, <1>2, <1>7 DEF WholeUpTo
  <2> QED BY <2>1, WithinStays
<1>8. WholeUpTo(job[f].marked)'
  BY <1>2, <1>5, <1>6, <1>7 DEF WholeUpTo, Within
<1>9. Frontier(f)'
  BY <1>1, <1>2, <1>4 DEF Frontier
<1> QED BY <1>8, <1>9

\* When fsck has swept, all rows are marked ones.
LEMMA SweptWhole ==
  ASSUME FsckDies = FALSE, TypeInv, WriterInv, WorkInv, RowInv, SidInv, WholeInv, [Next]_vars,
         Collecting, ~Collecting'
  PROVE  WholeUpTo(Keys)'
<1> USE DegradedAssumption
<1>1. PICK f \in Fscks : pc[f] = "collecting"
  BY DEF Collecting
<1>2. /\ f \in Ops /\ f \notin Saves /\ at[f] # None /\ pc'[f] # "collecting"
      /\ pc \in [Ops -> Places] /\ at \in [Ops -> Stores \cup {None}]
  BY <1>1 DEF Ops, TypeInv, TypeOK, WorkInv, Placed, PlacesOf, SavePlaces, FsckPlaces, Collecting
<1>3. SweepChildren(f)
  <2>1. ASSUME Quiet PROVE FALSE
    BY <1>1, <1>2, <2>1 DEF Quiet
  <2>2. CASE Fsck(f)
    <3>1. ASSUME NEW y \in Types, CollectType(f, y) PROVE FALSE
      BY <1>1, <1>2, <3>1 DEF CollectType
    <3>2. ASSUME RepairAndMark(f) PROVE FALSE
      BY <1>1, <3>2 DEF RepairAndMark
    <3>3. ASSUME SyncClaims(f) PROVE FALSE
      BY <1>1, <3>3 DEF SyncClaims
    <3> QED BY <2>2, <3>1, <3>2, <3>3 DEF Fsck
  <2>3. ASSUME End(f) PROVE FALSE
    BY <1>1, <2>3 DEF End, EndOperation, ClearMarker, Ending
  <2>4. ASSUME Die(at[f]) PROVE FALSE
    BY <2>4 DEF Die
  <2> QED BY <1>2, <2>1, <2>2, <2>3, <2>4, StepsAreIts
<1>4. job[f].todo = {} /\ rows' = rows /\ dispatch' = dispatch
  BY <1>3 DEF SweepChildren
<1>5. PICK M : M = job[f].marked /\ WholeUpTo(M)
  BY <1>1 DEF WholeInv
<1>6. M = Keys
  <2>1. Keys \subseteq M
    BY <1>1, <1>4, <1>5 DEF WholeInv, Frontier, Keys
  <2> QED BY <1>5, <2>1 DEF WholeUpTo
<1>7. Keys' = M /\ Roots' = Roots
  BY <1>4, <1>6 DEF Keys, Roots
<1>8. \A x \in rows' : (Within(x, M))'
  <2> TAKE x \in rows'
  <2>1. x \in rows /\ Within(x, M)
    BY <1>4, <1>5, <1>6 DEF WholeUpTo, Keys
  <2> QED BY <2>1, WithinStays
<1> QED BY <1>5, <1>7, <1>8 DEF WholeUpTo, Within

LEMMA WholeStep ==
  FsckDies = FALSE =>
    (TypeInv /\ WriterInv /\ WorkInv /\ RowInv /\ SidInv /\ WholeInv /\ [Next]_vars => WholeInv')
<1> SUFFICES ASSUME FsckDies = FALSE, TypeInv, WriterInv, WorkInv, RowInv, SidInv, WholeInv,
                    [Next]_vars
             PROVE  WholeInv'
  OBVIOUS
<1>1. RefsOwn'
  BY RefsStep DEF WholeInv
<1>2. ASSUME ~Collecting' PROVE WholeUpTo(Keys)'
  <2>1. CASE Collecting
    BY <1>2, <2>1, SweptWhole
  <2>2. CASE ~Collecting
    <3>1. DispatchMain'
      BY RowStep DEF RowInv
    <3> QED BY <2>2, <3>1, WholeGrows DEF WholeInv
  <2> QED BY <2>1, <2>2
<1>3. ASSUME NEW f \in Fscks, pc'[f] = "collecting"
      PROVE  WholeUpTo(job[f].marked)' /\ Frontier(f)'
  <2>1. CASE RepairAndMark(f)
    BY <2>1, MarkedWhole
  <2>2. ASSUME pc[f] = "collecting", NEW y \in Types, CollectType(f, y)
        PROVE  WholeUpTo(job[f].marked)' /\ Frontier(f)'
    BY <2>2, CollectedWhole DEF WholeInv
  <2>3. CASE pc[f] = "collecting" /\ Quiet
    <3>1. WholeUpTo(job[f].marked) /\ Frontier(f)
      BY <2>3 DEF WholeInv
    <3>2. UNCHANGED <<job, rows, kids, dispatch>>
      BY <2>3 DEF Quiet, tables
    <3> QED BY <3>1, <3>2 DEF WholeUpTo, Frontier, Keys, Roots, Within, KidsOf
  <2> QED BY <1>3, <2>1, <2>2, <2>3, CollectingBefore
<1> QED BY <1>1, <1>2, <1>3 DEF WholeInv

(* Ordered writes replace transactions: at every moment, whatever a main   *)
(* or dispatch row reaches exists and has exactly its own child rows,      *)
(* however often writers fail and die.  A store that dies while it runs    *)
(* fsck is excluded: it can leave an unmarked row whose reference it has   *)
(* collected, and a later save finds that row by its content.              *)
THEOREM ReachedIsComplete == FsckDies = FALSE => (Spec => []MainsComplete)
<1> DEFINE Inv == TypeInv /\ WriterInv /\ WorkInv /\ MarkInv /\ RowInv /\ SidInv /\ WholeInv
<1> SUFFICES ASSUME FsckDies = FALSE PROVE Spec => []MainsComplete
  OBVIOUS
<1>1. Init => Inv
  BY TypeInit, WriterInit, WorkInit, MarkInit, RowInit, SidInit, WholeInit
<1>2. Inv /\ [Next]_vars => Inv'
  BY TypeStep, WriterStep, WorkStep, MarkStep, RowStep, SidStep, WholeStep
<1>3. Inv => MainsComplete
  <2> SUFFICES ASSUME Inv PROVE MainsComplete
    OBVIOUS
  <2>1. \E G : WholeUpTo(G)
    BY DEF WholeInv, Collecting
  <2>2. PICK G : WholeUpTo(G)
    BY <2>1
  <2>3. Reach \subseteq G
    BY <2>2, WholeReach DEF RowInv
  <2> QED BY <2>2, <2>3, WholeIsComplete DEF MainsComplete, RowInv
<1> QED BY <1>1, <1>2, <1>3, PTL DEF Spec
=============================================================================
