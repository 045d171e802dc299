--------------------------- MODULE IdLedgerProofs ---------------------------
(***************************************************************************)
(* Proofs about the id ledger, for any number of processes, keys, families *)
(* and segments: type correctness, mutual exclusion of writers, agreement  *)
(* of a write session with the file, durability of what was committed, and *)
(* the refinement of the registry of ids.                                  *)
(***************************************************************************)
EXTENDS IdLedger, SequenceTheorems, TLAPS

-----------------------------------------------------------------------------
(* Type correctness.                                                       *)

LEMMA NoSessionType == NoSession \in Sessions
<1>1. [f \in {} |-> None] \in BaseMaps
  <2>1. [f \in {} |-> None] \in [{} -> BaseNames]  OBVIOUS
  <2> QED  BY <2>1 DEF BaseMaps
<1>2. <<>> \in Seq(Records)  BY EmptySeq
<1> QED  BY <1>1, <1>2 DEF NoSession, Sessions

LEMMA LeaveType ==
  ASSUME TypeOK, NEW p \in Procs, Leave(p)
  PROVE  /\ pc' \in [Procs -> {"idle", "scanning", "reading", "refused"} \cup Writing]
         /\ session' \in [Procs -> Sessions]
         /\ scan' \in [Procs -> Seq(Segments)]
<1>1. <<>> \in Seq(Segments)  BY EmptySeq
<1> QED  BY NoSessionType, <1>1 DEF TypeOK, Leave, Writing

\* The records of a session that no segment covers are the tail of the session.
LEMMA UnpersistedProperties ==
  ASSUME NEW s \in Sessions
  PROVE  /\ Unpersisted(s) \in Seq(Records)
         /\ s.persisted <= Len(s.records) =>
              /\ Len(Unpersisted(s)) = Len(s.records) - s.persisted
              /\ \A i \in 1..(Len(s.records) - s.persisted) :
                   Unpersisted(s)[i] = s.records[s.persisted + i]
<1>1. /\ s.records \in Seq(Records) /\ s.persisted \in Nat
      /\ Len(s.records) \in Nat
  BY LenProperties DEF Sessions
<1>2. \A i \in (s.persisted + 1)..Len(s.records) : s.records[i] \in Records
  BY <1>1, ElementOfSeq
<1>3. s.persisted + 1 \in Int /\ Len(s.records) \in Int  BY <1>1
<1> DEFINE new == SubSeq(s.records, s.persisted + 1, Len(s.records))
<1>4. /\ new \in Seq(Records)
      /\ Len(new) = IF s.persisted + 1 <= Len(s.records)
                    THEN Len(s.records) - (s.persisted + 1) + 1 ELSE 0
      /\ \A i \in 1 .. (Len(s.records) - (s.persisted + 1) + 1) :
           new[i] = s.records[s.persisted + 1 + i - 1]
  <2>1. \A m, n \in Int : (\A i \in m..n : s.records[i] \in Records) =>
          /\ SubSeq(s.records, m, n) \in Seq(Records)
          /\ Len(SubSeq(s.records, m, n)) = IF m <= n THEN n - m + 1 ELSE 0
          /\ \A i \in 1 .. n - m + 1 : SubSeq(s.records, m, n)[i] = s.records[m + i - 1]
    BY SubSeqProperties
  <2> QED  BY <1>2, <1>3, <2>1, Zenon
<1> HIDE DEF new
<1>5. Unpersisted(s) = new  BY DEF Unpersisted, new
<1>6. ASSUME s.persisted <= Len(s.records),
             NEW i \in 1..(Len(s.records) - s.persisted)
      PROVE  new[i] = s.records[s.persisted + i]
  <2>1. Len(s.records) - (s.persisted + 1) + 1 = Len(s.records) - s.persisted
        /\ s.persisted + 1 + i - 1 = s.persisted + i
    BY <1>1
  <2> QED  BY <1>4, <2>1
<1>7. s.persisted <= Len(s.records) => Len(new) = Len(s.records) - s.persisted
  BY <1>1, <1>4
<1> QED  BY <1>4, <1>5, <1>6, <1>7

LEMMA WriteSegmentType ==
  ASSUME TypeOK, NEW p \in Procs, WriteSegment(p)
  PROVE  /\ rows' \in Seq(Records)
         /\ segments' \in Seq(Segments)
         /\ session' \in [Procs -> Sessions]
<1> DEFINE s   == session[p]
           new == Unpersisted(s)
           seg == [first |-> s.persisted + 1, count |-> Len(new), bases |-> s.bases, body |-> new]
<1>1. s \in Sessions  BY DEF TypeOK
<1>2. new \in Seq(Records) /\ Len(new) \in Nat
  BY <1>1, UnpersistedProperties, LenProperties
<1>3. seg \in Segments
  BY <1>1, <1>2 DEF Sessions, Segments
<1>4. rows' = rows \o new /\ segments' = Append(segments, seg)
      /\ session' = [session EXCEPT ![p] = Persisted(s, Len(new))]
  BY DEF WriteSegment
<1> HIDE DEF s, new, seg
<1>5. Persisted(s, Len(new)) \in Sessions
  <2>1. s.persisted + Len(new) \in Nat /\ s.segments + 1 \in Nat
    BY <1>1, <1>2 DEF Sessions
  <2> QED  BY <1>1, <2>1 DEF Persisted, Sessions
<1>6. rows' \in Seq(Records)  BY <1>2, <1>4, ConcatProperties DEF TypeOK
<1>7. segments' \in Seq(Segments)  BY <1>3, <1>4, AppendProperties DEF TypeOK
<1> QED  BY <1>4, <1>5, <1>6, <1>7 DEF TypeOK

\* What assign and alias add to a session is a well-typed record, and the
\* session is otherwise left alone.
LEMMA UseAppends ==
  ASSUME TypeOK, NEW p \in Procs, Use(p)
  PROVE  pc[p] = "open" /\ \E rec \in Records : AppendRecord(p, rec)
<1>1. session[p].records \in Seq(Records) /\ session[p].bases \in BaseMaps
  BY DEF TypeOK, Sessions
<1>2. DOMAIN session[p].records = 1..Len(session[p].records)
      /\ \A i \in DOMAIN session[p].records : session[p].records[i] \in Records
  BY <1>1, ElementOfSeq, LenProperties
<1>3. ASSUME NEW k \in Keys, NEW f \in Families, NEW superseded \in Ids \cup {None},
             Mint(p, k, f, superseded)
      PROVE  \E rec \in Records : AppendRecord(p, rec)
  <2>1. PICK highest \in AssignedNumbers(session[p].records, f) \cup {0} :
          AppendRecord(p, [key |-> k, family |-> f, alias |-> FALSE,
                           id |-> [base |-> session[p].bases[f], num |-> highest + 1],
                           supersedes |-> superseded])
    BY <1>3 DEF Mint
  <2>2. highest \in Nat  BY <1>2 DEF AssignedNumbers, Records, Ids
  <2>3. session[p].bases[f] \in BaseNames  BY <1>1, <1>3 DEF BaseMaps, Mint
  <2>4. [base |-> session[p].bases[f], num |-> highest + 1] \in Ids  BY <2>2, <2>3 DEF Ids
  <2> QED  BY <2>1, <2>4 DEF Records
<1>4. ASSUME NEW k \in Keys, NEW f \in Families, Assign(p, k, f)
      PROVE  pc[p] = "open" /\ \E rec \in Records : AppendRecord(p, rec)
  <2>1. CASE Mint(p, k, f, None)  BY <1>3, <1>4, <2>1 DEF Assign
  <2>2. ASSUME NEW i \in DOMAIN session[p].records, Mint(p, k, f, LiveId(session[p].records[i]))
        PROVE  \E rec \in Records : AppendRecord(p, rec)
    <3>1. LiveId(session[p].records[i]) \in Ids  BY <1>2 DEF LiveId, Records
    <3> QED  BY <1>3, <2>2, <3>1
  <2> QED  BY <1>4, <2>1, <2>2 DEF Assign, Newest
<1>5. ASSUME NEW k \in Keys, NEW n \in DOMAIN session[p].records,
             Alias(p, k, session[p].records[n].id)
      PROVE  pc[p] = "open" /\ \E rec \in Records : AppendRecord(p, rec)
  <2> DEFINE target == session[p].records[n].id
             Rec(superseded) == [key |-> k, family |-> None, alias |-> TRUE,
                                 id |-> target, supersedes |-> superseded]
  <2>1. target \in Ids  BY <1>2 DEF Records
  <2>2. \A superseded \in Ids \cup {None} : Rec(superseded) \in Records
    BY <2>1 DEF Records
  <2>3. \A i \in Newest(session[p].records, k) : LiveId(session[p].records[i]) \in Ids
    BY <1>2 DEF LiveId, Records, Newest
  <2>4. \/ AppendRecord(p, Rec(None))
        \/ \E i \in Newest(session[p].records, k) : AppendRecord(p, Rec(LiveId(session[p].records[i])))
    BY <1>5 DEF Alias
  <2> QED  BY <1>5, <2>2, <2>3, <2>4 DEF Alias
<1> QED  BY <1>4, <1>5 DEF Use

LEMMA InitType == Init => TypeOK
<1> SUFFICES ASSUME Init PROVE TypeOK  OBVIOUS
<1>1. <<>> \in Seq(Records) /\ <<>> \in Seq(Segments)  BY EmptySeq
<1> QED  BY <1>1, NoSessionType DEF Init, TypeOK, Writing

LEMMA NextType == TypeOK /\ [Next]_vars => TypeOK'
<1> SUFFICES ASSUME TypeOK, [Next]_vars PROVE TypeOK'  OBVIOUS
<1>1. CASE UNCHANGED vars  BY <1>1 DEF vars, TypeOK
<1>2. ASSUME NEW p \in Procs, Create(p) PROVE TypeOK'
  <2>1. CASE AcquireLock(p, "creating")
    BY <2>1 DEF AcquireLock, TypeOK, Writing, disk
  <2>2. ASSUME NEW bases \in Schemes, LayDownSchema(p, bases) PROVE TypeOK'
    <3>1. [NoSession EXCEPT !.bases = bases] \in Sessions
      BY NoSessionType, LedgerAssumption DEF Sessions
    <3> QED  BY <2>2, <3>1 DEF LayDownSchema, TypeOK, Writing
  <2>3. CASE CreateCommits(p)
    BY <2>3, WriteSegmentType DEF CreateCommits, TypeOK, Writing
  <2> QED  BY <1>2, <2>1, <2>2, <2>3 DEF Create
<1>3. ASSUME NEW p \in Procs, Open(p) PROVE TypeOK'
  <2>1. CASE AcquireLock(p, "opening")
    BY <2>1 DEF AcquireLock, TypeOK, Writing, disk
  <2>2. ASSUME NEW expected \in Schemes, OpenForWrite(p, expected) PROVE TypeOK'
    <3>1. Len(rows) \in Nat /\ Len(segments) \in Nat
      BY LenProperties DEF TypeOK
    <3>2. [records |-> rows, persisted |-> Len(rows), segments |-> Len(segments),
           bases |-> expected, dirty |-> expected # StoredBases(segments)] \in Sessions
      BY <3>1, LedgerAssumption DEF TypeOK, Sessions
    <3> QED  BY <2>2, <3>2 DEF OpenForWrite, TypeOK, Writing, disk
  <2> QED  BY <1>3, <2>1, <2>2 DEF Open
<1>4. ASSUME NEW p \in Procs, Use(p) PROVE TypeOK'
  <2>1. PICK rec \in Records : AppendRecord(p, rec)  BY <1>4, UseAppends
  <2>2. session[p] \in Sessions  BY DEF TypeOK
  <2>3. Append(session[p].records, rec) \in Seq(Records)
    BY <2>2, AppendProperties DEF Sessions
  <2>4. [session[p] EXCEPT !.records = Append(session[p].records, rec), !.dirty = TRUE] \in Sessions
    BY <2>2, <2>3 DEF Sessions
  <2> QED  BY <2>1, <2>4 DEF AppendRecord, TypeOK, disk
<1>5. ASSUME NEW p \in Procs, Close(p) PROVE TypeOK'
  <2>1. CASE CloseCommits(p)
    BY <2>1, WriteSegmentType DEF CloseCommits, TypeOK, Writing
  <2>2. CASE Unlock(p)  BY <2>2, LeaveType DEF Unlock, TypeOK, disk
  <2> QED  BY <1>5, <2>1, <2>2 DEF Close
<1>6. ASSUME NEW p \in Procs, Refuse(p) PROVE TypeOK'
  <2>1. CASE CreateRefused(p)  BY <2>1, LeaveType DEF CreateRefused, TypeOK, disk
  <2>2. CASE CreateFails(p)
    <3>1. <<>> \in Seq(Records) /\ <<>> \in Seq(Segments)  BY EmptySeq
    <3> QED  BY <2>2, <3>1, LeaveType DEF CreateFails, TypeOK
  <2>3. CASE OpenRefused(p)  BY <2>3, LeaveType DEF OpenRefused, TypeOK, disk
  <2> QED  BY <1>6, <2>1, <2>2, <2>3 DEF Refuse
<1>7. ASSUME NEW p \in Procs, Read(p) PROVE TypeOK'
  <2>1. CASE ScanSegments(p)  BY <2>1 DEF ScanSegments, TypeOK, Writing, disk
  <2>2. CASE ScanRecords(p)
    <3>1. <<>> \in Seq(Segments)  BY EmptySeq
    <3>2. CASE ~Valid(scan[p], rows)
      BY <2>2, <3>1, <3>2 DEF ScanRecords, TypeOK, Writing, disk
    <3>3. CASE Valid(scan[p], rows)
      <4>1. Len(rows) \in Nat /\ Len(scan[p]) \in Nat
        BY LenProperties DEF TypeOK
      <4>2. scan[p][Len(scan[p])] \in Segments
        <5>1. scan[p] \in Seq(Segments) /\ scan[p] # <<>>
          BY <3>3 DEF TypeOK, Valid, ValidSegments
        <5> QED  BY <5>1, <4>1, EmptySeq, ElementOfSeq
      <4>3. [records |-> rows, persisted |-> Len(rows), segments |-> Len(scan[p]),
             bases |-> StoredBases(scan[p]), dirty |-> FALSE] \in Sessions
        BY <4>1, <4>2 DEF TypeOK, Sessions, StoredBases, Segments
      <4> QED  BY <2>2, <3>1, <3>3, <4>3 DEF ScanRecords, TypeOK, Writing, disk
    <3> QED  BY <3>2, <3>3
  <2>3. CASE CloseReader(p)  BY <2>3, LeaveType DEF CloseReader, TypeOK, disk
  <2> QED  BY <1>7, <2>1, <2>2, <2>3 DEF Read
<1>8. ASSUME NEW p \in Procs, Crash(p) PROVE TypeOK'
  BY <1>8, LeaveType DEF Crash, TypeOK, disk
<1>9. ASSUME NEW p \in Procs, BreakLock(p) PROVE TypeOK'
  BY <1>9 DEF BreakLock, TypeOK, disk
<1> QED  BY <1>1, <1>2, <1>3, <1>4, <1>5, <1>6, <1>7, <1>8, <1>9 DEF Next

\* Every variable keeps its type, for any number of processes and rows.
THEOREM TypeCorrect == Spec => []TypeOK
BY InitType, NextType, PTL DEF Spec
-----------------------------------------------------------------------------
(* Mutual exclusion of writers, and agreement of a session with the file.  *)

\* IsPrefix by elements, the form the proofs use.
LEMMA PrefixElements ==
  ASSUME NEW S, NEW a \in Seq(S), NEW b \in Seq(S)
  PROVE  IsPrefix(a, b) <=> Len(a) <= Len(b) /\ \A i \in 1..Len(a) : a[i] = b[i]
<1>1. Len(a) \in Nat /\ Len(b) \in Nat  BY LenProperties
<1>2. SubSeq(a, 1, Len(a)) = a  BY SubSeqFull
<1>3. CASE Len(a) <= Len(b)
  <2>1. \A i \in 1..Len(a) : b[i] \in S  BY <1>1, <1>3, ElementOfSeq
  <2>2. /\ SubSeq(b, 1, Len(a)) \in Seq(S)
        /\ Len(SubSeq(b, 1, Len(a))) = Len(a)
        /\ \A i \in 1..Len(a) : SubSeq(b, 1, Len(a))[i] = b[i]
    BY <1>1, <2>1, SubSeqProperties
  <2>3. (\A i \in 1..Len(a) : a[i] = b[i]) => a = SubSeq(b, 1, Len(a))
    BY <2>2, SeqEqual
  <2> QED  BY <1>2, <1>3, <2>2, <2>3 DEF IsPrefix
<1>4. CASE ~(Len(a) <= Len(b))  BY <1>4 DEF IsPrefix
<1> QED  BY <1>3, <1>4

LEMMA PrefixOfAppend ==
  ASSUME NEW S, NEW a \in Seq(S), NEW b \in Seq(S), NEW e \in S, IsPrefix(a, b)
  PROVE  IsPrefix(a, Append(b, e))
<1> DEFINE c == Append(b, e)
<1>1. Len(a) \in Nat /\ Len(b) \in Nat  BY LenProperties
<1>2. c \in Seq(S) /\ Len(c) = Len(b) + 1 /\ \A i \in 1..Len(b) : c[i] = b[i]
  BY AppendProperties
<1>3. Len(a) <= Len(b) /\ \A i \in 1..Len(a) : a[i] = b[i]  BY PrefixElements
<1> HIDE DEF c
<1>4. Len(a) <= Len(c) /\ \A i \in 1..Len(a) : a[i] = c[i]  BY <1>1, <1>2, <1>3
<1>5. IsPrefix(a, c)  BY <1>2, <1>4, PrefixElements
<1> QED  BY <1>5 DEF c

LEMMA PrefixReflexive ==
  ASSUME NEW S, NEW a \in Seq(S)
  PROVE  IsPrefix(a, a)
<1>1. Len(a) \in Nat  BY LenProperties
<1> QED  BY <1>1, PrefixElements

\* A session that is current with the file holds, after the file's records,
\* exactly the ones no segment covers.
LEMMA SessionRecords ==
  ASSUME NEW s \in Sessions, NEW r \in Seq(Records),
         s.persisted = Len(r), IsPrefix(r, s.records)
  PROVE  r \o Unpersisted(s) = s.records /\ Len(Unpersisted(s)) = Len(s.records) - Len(r)
<1>1. s.records \in Seq(Records) /\ Len(r) \in Nat /\ Len(s.records) \in Nat
  BY LenProperties DEF Sessions
<1>2. Len(r) <= Len(s.records) /\ \A i \in 1..Len(r) : r[i] = s.records[i]
  BY <1>1, PrefixElements
<1>3. /\ Unpersisted(s) \in Seq(Records)
      /\ Len(Unpersisted(s)) = Len(s.records) - Len(r)
      /\ \A i \in 1..(Len(s.records) - Len(r)) : Unpersisted(s)[i] = s.records[Len(r) + i]
  BY <1>2, UnpersistedProperties
<1> DEFINE c == r \o Unpersisted(s)
<1>4. /\ c \in Seq(Records)
      /\ Len(c) = Len(r) + Len(Unpersisted(s))
      /\ \A i \in 1..(Len(r) + Len(Unpersisted(s))) :
           c[i] = IF i <= Len(r) THEN r[i] ELSE Unpersisted(s)[i - Len(r)]
  BY <1>3, ConcatProperties
<1> HIDE DEF c
<1>5. Len(c) = Len(s.records)  BY <1>1, <1>3, <1>4
<1>6. ASSUME NEW i \in 1..Len(c) PROVE c[i] = s.records[i]
  <2>1. CASE i <= Len(r)  BY <1>1, <1>2, <1>3, <1>4, <1>5, <2>1
  <2>2. CASE ~(i <= Len(r))
    <3>1. i - Len(r) \in 1..(Len(s.records) - Len(r)) /\ Len(r) + (i - Len(r)) = i
      BY <1>1, <1>5, <2>2
    <3>2. i \in 1..(Len(r) + Len(Unpersisted(s)))  BY <1>1, <1>3, <1>5
    <3>3. c[i] = Unpersisted(s)[i - Len(r)]  BY <1>4, <2>2, <3>2
    <3> QED  BY <1>3, <3>1, <3>3
  <2> QED  BY <2>1, <2>2
<1>7. c = s.records  BY <1>1, <1>4, <1>5, <1>6, SeqEqual
<1> QED  BY <1>3, <1>7 DEF c

\* Without a container there is nothing in it, a session has a container, and
\* one that is being created is still empty.
Fresh ==
  /\ ~exists => rows = <<>> /\ segments = <<>>
  /\ \A p \in Procs : pc[p] \in {"laid", "open", "closing"} => exists
  /\ \A p \in Procs : pc[p] = "laid" => /\ rows = <<>> /\ segments = <<>>
                                        /\ session[p].records = <<>>

SessionInv == TypeOK /\ LockOwned /\ Fresh /\ SessionCurrent

\* The lock argument: two processes are never writing together.
LEMMA Exclusion ==
  ASSUME LockOwned, NEW p \in Procs, NEW q \in Procs, pc[p] \in Writing, pc[q] \in Writing
  PROVE  p = q
BY DEF LockOwned

LEMMA InitSession == Init => SessionInv
<1> SUFFICES ASSUME Init PROVE SessionInv  OBVIOUS
<1>1. TypeOK  BY InitType
<1> QED  BY <1>1 DEF Init, SessionInv, LockOwned, Fresh, SessionCurrent, Writing

LEMMA NextLockOwned == TypeOK /\ LockOwned /\ [Next]_vars => LockOwned'
<1> SUFFICES ASSUME TypeOK, LockOwned, [Next]_vars,
                    NEW q \in Procs, pc'[q] \in Writing
             PROVE  lock' = q
  BY DEF LockOwned
<1>1. CASE UNCHANGED vars  BY <1>1 DEF vars, LockOwned
<1>2. ASSUME NEW p \in Procs, Create(p) PROVE lock' = q
  <2>1. CASE AcquireLock(p, "creating")
    BY <2>1, LedgerAssumption DEF AcquireLock, TypeOK, LockOwned
  <2>2. ASSUME NEW bases \in Schemes, LayDownSchema(p, bases) PROVE lock' = q
    BY <2>2 DEF LayDownSchema, TypeOK, LockOwned, Writing
  <2>3. CASE CreateCommits(p)
    BY <2>3 DEF CreateCommits, TypeOK, LockOwned, Writing
  <2> QED  BY <1>2, <2>1, <2>2, <2>3 DEF Create
<1>3. ASSUME NEW p \in Procs, Open(p) PROVE lock' = q
  <2>1. CASE AcquireLock(p, "opening")
    BY <2>1, LedgerAssumption DEF AcquireLock, TypeOK, LockOwned
  <2>2. ASSUME NEW expected \in Schemes, OpenForWrite(p, expected) PROVE lock' = q
    BY <2>2 DEF OpenForWrite, TypeOK, LockOwned, Writing
  <2> QED  BY <1>3, <2>1, <2>2 DEF Open
<1>4. ASSUME NEW p \in Procs, Use(p) PROVE lock' = q
  <2>1. PICK rec \in Records : AppendRecord(p, rec)  BY <1>4, UseAppends
  <2> QED  BY <2>1 DEF AppendRecord, LockOwned
<1>5. ASSUME NEW p \in Procs, Close(p) PROVE lock' = q
  <2>1. CASE CloseCommits(p)
    BY <2>1 DEF CloseCommits, TypeOK, LockOwned, Writing
  <2>2. CASE Unlock(p)
    BY <2>2 DEF Unlock, Leave, TypeOK, LockOwned, Writing
  <2> QED  BY <1>5, <2>1, <2>2 DEF Close
<1>6. ASSUME NEW p \in Procs, Refuse(p) PROVE lock' = q
  <2>1. pc[p] \in Writing /\ pc' = [pc EXCEPT ![p] = "idle"]
    BY <1>6 DEF Refuse, CreateRefused, CreateFails, OpenRefused, Leave, Writing
  <2> QED  BY <2>1 DEF TypeOK, LockOwned, Writing
<1>7. ASSUME NEW p \in Procs, Read(p) PROVE lock' = q
  BY <1>7 DEF Read, ScanSegments, ScanRecords, CloseReader, Leave, TypeOK, LockOwned, Writing
<1>8. ASSUME NEW p \in Procs, Crash(p) PROVE lock' = q
  BY <1>8 DEF Crash, Leave, TypeOK, LockOwned, Writing
<1>9. ASSUME NEW p \in Procs, BreakLock(p) PROVE lock' = q
  BY <1>9 DEF BreakLock, LockOwned
<1> QED  BY <1>1, <1>2, <1>3, <1>4, <1>5, <1>6, <1>7, <1>8, <1>9 DEF Next

\* At most the process named in the lock file is inside create, a write-mode
\* open or a write session, whoever crashes and whatever the operator deletes.
THEOREM WritersExclude == Spec => []LockOwned
<1>1. Init => LockOwned  BY DEF Init, LockOwned, Writing
<1> QED  BY <1>1, NextLockOwned, TypeCorrect, PTL DEF Spec

\* The transaction of _write() adds one segment.
LEMMA WriteSegmentAppends ==
  ASSUME TypeOK, NEW p \in Procs, WriteSegment(p)
  PROVE  \E seg \in Segments :
           /\ segments' = Append(segments, seg)
           /\ seg = [first |-> session[p].persisted + 1, count |-> Len(Unpersisted(session[p])),
                     bases |-> session[p].bases, body |-> Unpersisted(session[p])]
<1>1. session[p] \in Sessions  BY DEF TypeOK
<1>2. Unpersisted(session[p]) \in Seq(Records) /\ Len(Unpersisted(session[p])) \in Nat
  BY <1>1, UnpersistedProperties, LenProperties
<1>3. [first |-> session[p].persisted + 1, count |-> Len(Unpersisted(session[p])),
       bases |-> session[p].bases, body |-> Unpersisted(session[p])] \in Segments
  BY <1>1, <1>2 DEF Sessions, Segments
<1> QED  BY <1>3 DEF WriteSegment

\* What the transaction of _write() does to the file when the session that
\* commits is current: the file then holds exactly the session's records.
LEMMA WriteSegmentEffect ==
  ASSUME SessionInv, NEW p \in Procs, pc[p] \in {"laid", "open"}, WriteSegment(p)
  PROVE  /\ rows' = session[p].records
         /\ IsPrefix(rows, rows')
         /\ session'[p].records = session[p].records
         /\ session'[p].persisted = Len(rows')
         /\ session'[p].segments = Len(segments')
         /\ \A q \in Procs \ {p} : session'[q] = session[q]
<1> DEFINE s == session[p]
<1>1. s \in Sessions /\ rows \in Seq(Records) /\ segments \in Seq(Segments)
  BY DEF SessionInv, TypeOK
<1>2. s.segments = Len(segments) /\ s.persisted = Len(rows) /\ IsPrefix(rows, s.records)
  BY DEF SessionInv, SessionCurrent
<1>3. rows \o Unpersisted(s) = s.records /\ Len(Unpersisted(s)) = Len(s.records) - Len(rows)
  BY <1>1, <1>2, SessionRecords
<1>4. /\ rows' = rows \o Unpersisted(s)
      /\ session' = [session EXCEPT ![p] = Persisted(s, Len(Unpersisted(s)))]
  BY DEF WriteSegment
<1>5. Len(segments') = Len(segments) + 1
  <2>1. PICK seg : segments' = Append(segments, seg)  BY DEF WriteSegment
  <2>2. segments' = Append(segments, seg) /\ segments' \in Seq(Segments)
    BY <2>1, WriteSegmentType DEF SessionInv
  <2> QED  BY <1>1, <2>2
<1>6. session'[p] = Persisted(s, Len(Unpersisted(s)))
  BY <1>4 DEF SessionInv, TypeOK
<1>7. s.records \in Seq(Records) /\ Len(s.records) \in Nat /\ Len(rows) \in Nat
  BY <1>1, LenProperties DEF Sessions
<1> HIDE DEF s
<1>8. /\ Persisted(s, Len(Unpersisted(s))).records = s.records
      /\ Persisted(s, Len(Unpersisted(s))).persisted = s.persisted + Len(Unpersisted(s))
      /\ Persisted(s, Len(Unpersisted(s))).segments = s.segments + 1
  BY <1>1 DEF Persisted, Sessions
<1>9. \A q \in Procs \ {p} : session'[q] = session[q]
  BY <1>4 DEF SessionInv, TypeOK
<1> QED  BY <1>2, <1>3, <1>4, <1>5, <1>6, <1>7, <1>8, <1>9 DEF s

\* The commit leaves its own session current.
LEMMA WriteSegmentKeepsCurrent ==
  ASSUME SessionInv, NEW p \in Procs, pc[p] \in {"laid", "open"}, WriteSegment(p)
  PROVE  /\ session'[p].segments = Len(segments')
         /\ session'[p].persisted = Len(rows')
         /\ IsPrefix(rows', session'[p].records)
         /\ rows' = session'[p].records
<1>1. session[p].records \in Seq(Records)  BY DEF SessionInv, TypeOK, Sessions
<1> QED  BY <1>1, WriteSegmentEffect, PrefixReflexive

LEMMA NextFresh == SessionInv /\ [Next]_vars => Fresh'
<1> SUFFICES ASSUME SessionInv, [Next]_vars PROVE Fresh'  OBVIOUS
<1> USE DEF SessionInv
<1>1. CASE UNCHANGED vars  BY <1>1 DEF vars, Fresh
<1>2. ASSUME NEW p \in Procs, Create(p) PROVE Fresh'
  <2>1. CASE AcquireLock(p, "creating")
    BY <2>1 DEF AcquireLock, TypeOK, Fresh, disk
  <2>2. ASSUME NEW bases \in Schemes, LayDownSchema(p, bases) PROVE Fresh'
    <3>1. [NoSession EXCEPT !.bases = bases].records = <<>>  BY DEF NoSession
    <3> QED  BY <2>2, <3>1 DEF LayDownSchema, NoContainer, TypeOK, Fresh
  <2>3. CASE CreateCommits(p)
    <3>1. pc[p] = "laid" /\ pc' = [pc EXCEPT ![p] = "open"] /\ exists' = exists
      BY <2>3 DEF CreateCommits
    <3>2. \A q \in Procs : pc'[q] # "laid"
      BY <3>1, Exclusion DEF TypeOK, Writing
    <3>3. exists  BY <3>1 DEF Fresh
    <3> QED  BY <3>1, <3>2, <3>3 DEF Fresh
  <2> QED  BY <1>2, <2>1, <2>2, <2>3 DEF Create
<1>3. ASSUME NEW p \in Procs, Open(p) PROVE Fresh'
  <2>1. CASE AcquireLock(p, "opening")
    BY <2>1 DEF AcquireLock, TypeOK, Fresh, disk
  <2>2. ASSUME NEW expected \in Schemes, OpenForWrite(p, expected) PROVE Fresh'
    <3>1. \A q \in Procs : pc'[q] # "laid"
      BY <2>2, Exclusion DEF OpenForWrite, TypeOK, Writing
    <3> QED  BY <2>2, <3>1 DEF OpenForWrite, Fresh, disk
  <2> QED  BY <1>3, <2>1, <2>2 DEF Open
<1>4. ASSUME NEW p \in Procs, Use(p) PROVE Fresh'
  <2>1. PICK rec \in Records : pc[p] = "open" /\ AppendRecord(p, rec)  BY <1>4, UseAppends
  <2>2. \A q \in Procs \ {p} : session'[q] = session[q]
    BY <2>1 DEF AppendRecord, TypeOK
  <2> QED  BY <2>1, <2>2 DEF AppendRecord, Fresh, disk
<1>5. ASSUME NEW p \in Procs, Close(p) PROVE Fresh'
  <2>1. CASE CloseCommits(p)
    <3>1. pc[p] = "open" /\ pc' = [pc EXCEPT ![p] = "closing"] /\ exists' = exists
      BY <2>1 DEF CloseCommits
    <3>2. \A q \in Procs : pc'[q] # "laid"
      BY <3>1, Exclusion DEF TypeOK, Writing
    <3>3. exists  BY <3>1 DEF Fresh
    <3> QED  BY <3>1, <3>2, <3>3 DEF Fresh
  <2>2. CASE Unlock(p)  BY <2>2 DEF Unlock, Leave, TypeOK, Fresh, disk
  <2> QED  BY <1>5, <2>1, <2>2 DEF Close
<1>6. ASSUME NEW p \in Procs, Refuse(p) PROVE Fresh'
  <2>1. CASE CreateRefused(p)  BY <2>1 DEF CreateRefused, Leave, TypeOK, Fresh, disk
  <2>2. CASE CreateFails(p)
    <3>1. \A q \in Procs : pc'[q] \notin Writing
      BY <2>2, Exclusion DEF CreateFails, Leave, TypeOK, Writing
    <3> QED  BY <2>2, <3>1 DEF CreateFails, Fresh, Writing
  <2>3. CASE OpenRefused(p)  BY <2>3 DEF OpenRefused, Leave, TypeOK, Fresh, disk
  <2> QED  BY <1>6, <2>1, <2>2, <2>3 DEF Refuse
<1>7. ASSUME NEW p \in Procs, Read(p) PROVE Fresh'
  <2>1. CASE ScanSegments(p)  BY <2>1 DEF ScanSegments, TypeOK, Fresh, disk
  <2>2. CASE ScanRecords(p)  BY <2>2 DEF ScanRecords, TypeOK, Fresh, disk
  <2>3. CASE CloseReader(p)  BY <2>3 DEF CloseReader, Leave, TypeOK, Fresh, disk
  <2> QED  BY <1>7, <2>1, <2>2, <2>3 DEF Read
<1>8. ASSUME NEW p \in Procs, Crash(p) PROVE Fresh'
  BY <1>8 DEF Crash, Leave, TypeOK, Fresh, disk
<1>9. ASSUME NEW p \in Procs, BreakLock(p) PROVE Fresh'
  BY <1>9 DEF BreakLock, Fresh, disk
<1> QED  BY <1>1, <1>2, <1>3, <1>4, <1>5, <1>6, <1>7, <1>8, <1>9 DEF Next

LEMMA NextSessionCurrent == SessionInv /\ [Next]_vars => SessionCurrent'
<1> SUFFICES ASSUME SessionInv, [Next]_vars,
                    NEW q \in Procs, pc'[q] \in {"laid", "open", "closing"}
             PROVE  /\ session'[q].segments = Len(segments')
                    /\ session'[q].persisted = Len(rows')
                    /\ IsPrefix(rows', session'[q].records)
                    /\ session'[q].dirty \/ rows' = session'[q].records
  BY DEF SessionCurrent
<1> DEFINE Goal == /\ session'[q].segments = Len(segments')
                   /\ session'[q].persisted = Len(rows')
                   /\ IsPrefix(rows', session'[q].records)
                   /\ session'[q].dirty \/ rows' = session'[q].records
<1> USE DEF SessionInv
\* A step that leaves q and the file alone keeps q current.
<1>0. ASSUME UNCHANGED <<rows, segments>>, pc'[q] = pc[q], session'[q] = session[q] PROVE Goal
  BY <1>0 DEF SessionCurrent
<1>1. CASE UNCHANGED vars  BY <1>0, <1>1 DEF vars
<1>2. ASSUME NEW p \in Procs, Create(p) PROVE Goal
  <2>1. CASE AcquireLock(p, "creating")
    BY <1>0, <2>1 DEF AcquireLock, TypeOK, disk
  <2>2. ASSUME NEW bases \in Schemes, LayDownSchema(p, bases) PROVE Goal
    <3>1. CASE q = p
      <4>1. rows' = <<>> /\ segments' = <<>>
        BY <2>2 DEF LayDownSchema, NoContainer, Fresh
      <4>2. session'[q] = [NoSession EXCEPT !.bases = bases]
        BY <2>2, <3>1 DEF LayDownSchema, TypeOK
      <4>3. /\ session'[q].records = <<>>
            /\ session'[q].segments = 0
            /\ session'[q].persisted = 0
        BY <4>2 DEF NoSession
      <4>4. IsPrefix(rows', session'[q].records)
        BY <4>1, <4>3, EmptySeq, PrefixReflexive
      <4> QED  BY <4>1, <4>3, <4>4
    <3>2. CASE q # p  BY <1>0, <2>2, <3>2 DEF LayDownSchema, TypeOK
    <3> QED  BY <3>1, <3>2
  <2>3. CASE CreateCommits(p)
    <3>1. q = p
      BY <2>3, Exclusion DEF CreateCommits, TypeOK, Writing
    <3>2. pc[p] = "laid" /\ WriteSegment(p)  BY <2>3 DEF CreateCommits
    <3> QED  BY <3>1, <3>2, WriteSegmentKeepsCurrent
  <2> QED  BY <1>2, <2>1, <2>2, <2>3 DEF Create
<1>3. ASSUME NEW p \in Procs, Open(p) PROVE Goal
  <2>1. CASE AcquireLock(p, "opening")
    BY <1>0, <2>1 DEF AcquireLock, TypeOK, disk
  <2>2. ASSUME NEW expected \in Schemes, OpenForWrite(p, expected) PROVE Goal
    <3>1. q = p  BY <2>2, Exclusion DEF OpenForWrite, TypeOK, Writing
    <3>2. session'[q] = [records |-> rows, persisted |-> Len(rows), segments |-> Len(segments),
                         bases |-> expected, dirty |-> expected # StoredBases(segments)]
      BY <2>2, <3>1 DEF OpenForWrite, TypeOK
    <3>3. IsPrefix(rows, rows)  BY PrefixReflexive DEF TypeOK
    <3> QED  BY <2>2, <3>2, <3>3 DEF OpenForWrite, disk
  <2> QED  BY <1>3, <2>1, <2>2 DEF Open
<1>4. ASSUME NEW p \in Procs, Use(p) PROVE Goal
  <2>1. PICK rec \in Records : pc[p] = "open" /\ AppendRecord(p, rec)  BY <1>4, UseAppends
  <2>2. CASE q = p
    <3>1. session[p] \in Sessions /\ session[p].records \in Seq(Records)
      BY DEF TypeOK, Sessions
    <3>2. session'[q] = [session[p] EXCEPT !.records = Append(session[p].records, rec), !.dirty = TRUE]
      BY <2>1, <2>2 DEF AppendRecord, TypeOK
    <3>3. /\ session'[q].records = Append(session[p].records, rec)
          /\ session'[q].dirty = TRUE
          /\ session'[q].persisted = session[p].persisted
          /\ session'[q].segments = session[p].segments
      BY <3>1, <3>2 DEF Sessions
    <3>4. /\ IsPrefix(rows, session[p].records)
          /\ session[p].persisted = Len(rows)
          /\ session[p].segments = Len(segments)
      BY <2>1 DEF SessionCurrent
    <3>5. IsPrefix(rows, session'[q].records)
      BY <3>1, <3>3, <3>4, PrefixOfAppend DEF TypeOK
    <3> QED  BY <2>1, <3>3, <3>4, <3>5 DEF AppendRecord, disk
  <2>3. CASE q # p  BY <1>0, <2>1, <2>3 DEF AppendRecord, TypeOK, disk
  <2> QED  BY <2>2, <2>3
<1>5. ASSUME NEW p \in Procs, Close(p) PROVE Goal
  <2>1. CASE CloseCommits(p)
    <3>1. q = p  BY <2>1, Exclusion DEF CloseCommits, TypeOK, Writing
    <3>2. pc[p] = "open" /\ WriteSegment(p)  BY <2>1 DEF CloseCommits
    <3> QED  BY <3>1, <3>2, WriteSegmentKeepsCurrent
  <2>2. CASE Unlock(p)  BY <1>0, <2>2 DEF Unlock, Leave, TypeOK, disk
  <2> QED  BY <1>5, <2>1, <2>2 DEF Close
<1>6. ASSUME NEW p \in Procs, Refuse(p) PROVE Goal
  <2>1. CASE CreateRefused(p)  BY <1>0, <2>1 DEF CreateRefused, Leave, TypeOK, disk
  <2>2. CASE CreateFails(p)
    <3>1. pc'[q] \notin Writing
      BY <2>2, Exclusion DEF CreateFails, Leave, TypeOK, Writing
    <3> QED  BY <3>1 DEF Writing
  <2>3. CASE OpenRefused(p)  BY <1>0, <2>3 DEF OpenRefused, Leave, TypeOK, disk
  <2> QED  BY <1>6, <2>1, <2>2, <2>3 DEF Refuse
<1>7. ASSUME NEW p \in Procs, Read(p) PROVE Goal
  <2>1. CASE ScanSegments(p)  BY <1>0, <2>1 DEF ScanSegments, TypeOK, disk
  <2>2. CASE ScanRecords(p)  BY <1>0, <2>2 DEF ScanRecords, TypeOK, disk
  <2>3. CASE CloseReader(p)  BY <1>0, <2>3 DEF CloseReader, Leave, TypeOK, disk
  <2> QED  BY <1>7, <2>1, <2>2, <2>3 DEF Read
<1>8. ASSUME NEW p \in Procs, Crash(p) PROVE Goal
  BY <1>0, <1>8 DEF Crash, Leave, TypeOK, disk
<1>9. ASSUME NEW p \in Procs, BreakLock(p) PROVE Goal
  BY <1>0, <1>9 DEF BreakLock, disk
<1> QED  BY <1>1, <1>2, <1>3, <1>4, <1>5, <1>6, <1>7, <1>8, <1>9 DEF Next

LEMMA SessionInductive == Spec => []SessionInv
<1>1. SessionInv /\ [Next]_vars => SessionInv'
  BY NextType, NextLockOwned, NextFresh, NextSessionCurrent DEF SessionInv
<1> QED  BY <1>1, InitSession, PTL DEF Spec

\* A write session and the file agree until the session's segment is
\* committed, and again after it.
THEOREM SessionsStayCurrent == Spec => []SessionCurrent
BY SessionInductive, PTL DEF SessionInv

-----------------------------------------------------------------------------
(* Durability: a container with a segment only ever grows at its end.      *)

LEMMA AppendOnlyStep ==
  ASSUME SessionInv, Next, segments # <<>>
  PROVE  IsPrefix(rows, rows') /\ IsPrefix(segments, segments')
<1> USE DEF SessionInv
<1>0. rows \in Seq(Records) /\ segments \in Seq(Segments)  BY DEF TypeOK
<1>1. IsPrefix(rows, rows) /\ IsPrefix(segments, segments)  BY <1>0, PrefixReflexive
<1>2. ASSUME UNCHANGED <<rows, segments>>
      PROVE  IsPrefix(rows, rows') /\ IsPrefix(segments, segments')
  BY <1>1, <1>2
<1>3. ASSUME NEW p \in Procs, pc[p] \in {"laid", "open"}, WriteSegment(p)
      PROVE  IsPrefix(rows, rows') /\ IsPrefix(segments, segments')
  <2>1. IsPrefix(rows, rows')  BY <1>3, WriteSegmentEffect
  <2>2. PICK seg \in Segments : segments' = Append(segments, seg)
    BY <1>3, WriteSegmentAppends
  <2>3. IsPrefix(segments, Append(segments, seg))
    BY <1>0, <1>1, PrefixOfAppend
  <2> QED  BY <2>1, <2>2, <2>3
<1>4. PICK p \in Procs :
        Create(p) \/ Open(p) \/ Use(p) \/ Close(p) \/ Refuse(p) \/ Read(p) \/ Crash(p) \/ BreakLock(p)
  BY DEF Next
<1>5. CASE Create(p)
  <2>1. CASE CreateCommits(p)  BY <1>3, <2>1 DEF CreateCommits
  <2> QED  BY <1>2, <1>5, <2>1 DEF Create, AcquireLock, LayDownSchema, disk
<1>6. CASE Open(p)  BY <1>2, <1>6 DEF Open, AcquireLock, OpenForWrite, disk
<1>7. CASE Use(p)
  <2>1. PICK rec \in Records : AppendRecord(p, rec)  BY <1>7, UseAppends
  <2> QED  BY <1>2, <2>1 DEF AppendRecord, disk
<1>8. CASE Close(p)
  <2>1. CASE CloseCommits(p)  BY <1>3, <2>1 DEF CloseCommits
  <2> QED  BY <1>2, <1>8, <2>1 DEF Close, Unlock, disk
<1>9. CASE Refuse(p)
  <2>1. ~CreateFails(p)  BY DEF CreateFails, Fresh
  <2> QED  BY <1>2, <1>9, <2>1 DEF Refuse, CreateRefused, OpenRefused, disk
<1>10. CASE Read(p)
  BY <1>2, <1>10 DEF Read, ScanSegments, ScanRecords, CloseReader, disk
<1>11. CASE Crash(p)  BY <1>2, <1>11 DEF Crash, disk
<1>12. CASE BreakLock(p)  BY <1>2, <1>12 DEF BreakLock, disk
<1> QED  BY <1>4, <1>5, <1>6, <1>7, <1>8, <1>9, <1>10, <1>11, <1>12

\* What a segment covers is never overwritten, truncated or removed.
THEOREM NothingIsRewritten == Spec => AppendOnly
<1>1. SessionInv /\ [Next]_vars =>
        [segments # <<>> => IsPrefix(rows, rows') /\ IsPrefix(segments, segments')]_vars
  BY AppendOnlyStep
<1> QED  BY <1>1, SessionInductive, PTL DEF Spec, AppendOnly
-----------------------------------------------------------------------------
(* Writer and validator agree: what sessions commit, open accepts.         *)

\* A record that extends a valid sequence of records.
Fits(recs, bases, rec) ==
  /\ IF rec.alias
     THEN rec.id \in AssignedIds(recs)
     ELSE /\ rec.family \in DOMAIN bases
          /\ rec.id.base = bases[rec.family]
          /\ rec.id \notin AssignedIds(recs)
  /\ \/ Unbound(recs, rec.key) /\ rec.supersedes = None
     \/ \E i \in Newest(recs, rec.key) : rec.supersedes = recs[i].id

LEMMA FittingRecord ==
  ASSUME NEW recs \in Seq(Records), NEW rec \in Records, NEW bases,
         ValidEntries(recs, bases), Fits(recs, bases, rec)
  PROVE  ValidEntries(Append(recs, rec), bases)
<1> DEFINE c == Append(recs, rec)
           n == Len(recs)
<1>1. /\ n \in Nat /\ DOMAIN recs = 1..n
      /\ c \in Seq(Records) /\ DOMAIN c = 1..(n + 1)
      /\ \A i \in 1..n : c[i] = recs[i]
      /\ c[n + 1] = rec
  BY LenProperties, AppendProperties
<1> HIDE DEF c, n
<1>2. AssignedIds(recs) \subseteq AssignedIds(c)
  BY <1>1 DEF AssignedIds
<1>3. ASSUME NEW i \in 1..n PROVE PriorIds(c, i) = PriorIds(recs, i)
  <2>1. \A j \in 1..(i - 1) : j \in 1..n  BY <1>1
  <2> QED  BY <1>1, <2>1 DEF PriorIds
<1>4. PriorIds(c, n + 1) = {recs[j].id : j \in Newest(recs, rec.key)}
  <2>1. (n + 1) - 1 = n  BY <1>1
  <2> QED  BY <1>1, <2>1 DEF PriorIds, Newest
<1>5. ASSUME NEW i \in 1..n
      PROVE  /\ IF c[i].alias
                THEN c[i].id \in AssignedIds(c)
                ELSE /\ c[i].family \in DOMAIN bases
                     /\ c[i].id.base = bases[c[i].family]
                     /\ \A j \in 1..(i - 1) : ~c[j].alias => c[j].id # c[i].id
             /\ IF PriorIds(c, i) = {}
                THEN c[i].supersedes = None
                ELSE c[i].supersedes \in PriorIds(c, i)
  <2>1. \A j \in 1..(i - 1) : j \in 1..n  BY <1>1
  <2> QED  BY <1>1, <1>2, <1>3, <2>1 DEF ValidEntries
<1>6. /\ IF c[n + 1].alias
         THEN c[n + 1].id \in AssignedIds(c)
         ELSE /\ c[n + 1].family \in DOMAIN bases
              /\ c[n + 1].id.base = bases[c[n + 1].family]
              /\ \A j \in 1..((n + 1) - 1) : ~c[j].alias => c[j].id # c[n + 1].id
      /\ IF PriorIds(c, n + 1) = {}
         THEN c[n + 1].supersedes = None
         ELSE c[n + 1].supersedes \in PriorIds(c, n + 1)
  <2>1. (n + 1) - 1 = n  BY <1>1
  <2>2. \A j \in 1..n : ~c[j].alias => c[j].id \in AssignedIds(recs)
    BY <1>1 DEF AssignedIds
  <2>3. Unbound(recs, rec.key) => Newest(recs, rec.key) = {}
    BY DEF Unbound, Newest
  <2> QED  BY <1>1, <1>2, <1>4, <2>1, <2>2, <2>3 DEF Fits
<1>7. \A i \in 1..(n + 1) : i \in 1..n \/ i = n + 1  BY <1>1
<1>8. ValidEntries(c, bases)  BY <1>1, <1>5, <1>6, <1>7 DEF ValidEntries
<1> QED  BY <1>8 DEF c

\* _mint: one above the family's highest number is an id nobody was ever given.
LEMMA MintedIdIsNew ==
  ASSUME NEW recs \in Seq(Records), NEW bases,
         ValidBases(bases), ValidEntries(recs, bases),
         NEW f \in DOMAIN bases, NEW highest \in Nat,
         \A m \in AssignedNumbers(recs, f) : m <= highest
  PROVE  [base |-> bases[f], num |-> highest + 1] \notin AssignedIds(recs)
<1> DEFINE id == [base |-> bases[f], num |-> highest + 1]
<1>1. \A i \in DOMAIN recs : recs[i] \in Records  BY ElementOfSeq, LenProperties
<1>2. SUFFICES ASSUME NEW i \in DOMAIN recs, ~recs[i].alias, recs[i].id = id PROVE FALSE
  BY DEF AssignedIds
<1>3. recs[i].family \in DOMAIN bases /\ recs[i].id.base = bases[recs[i].family]
  BY <1>2 DEF ValidEntries
<1>4. recs[i].family = f  BY <1>2, <1>3 DEF ValidBases
<1>5. recs[i].id.num <= highest  BY <1>2, <1>4 DEF AssignedNumbers
<1> QED  BY <1>2, <1>5

LEMMA SubSeqOfPrefix ==
  ASSUME NEW S, NEW a \in Seq(S), NEW b \in Seq(S), IsPrefix(a, b),
         NEW m \in Nat \ {0}, NEW n \in Int, n <= Len(a)
  PROVE  SubSeq(b, m, n) = SubSeq(a, m, n)
<1> DEFINE sa == SubSeq(a, m, n)
           sb == SubSeq(b, m, n)
<1>1. Len(a) \in Nat /\ Len(b) \in Nat  BY LenProperties
<1>2. Len(a) <= Len(b) /\ \A i \in 1..Len(a) : a[i] = b[i]  BY PrefixElements
<1>3. \A i \in m..n : i \in 1..Len(a) /\ i \in 1..Len(b)  BY <1>1, <1>2
<1>4. (\A i \in m..n : a[i] \in S) /\ (\A i \in m..n : b[i] \in S)
  BY <1>3, ElementOfSeq
<1>5. m \in Int  OBVIOUS
<1>6. /\ sa \in Seq(S)
      /\ Len(sa) = IF m <= n THEN n - m + 1 ELSE 0
      /\ \A i \in 1..(n - m + 1) : sa[i] = a[m + i - 1]
  BY <1>4, <1>5, SubSeqProperties
<1>7. /\ sb \in Seq(S)
      /\ Len(sb) = IF m <= n THEN n - m + 1 ELSE 0
      /\ \A i \in 1..(n - m + 1) : sb[i] = b[m + i - 1]
  BY <1>4, <1>5, SubSeqProperties
<1> HIDE DEF sa, sb
<1>8. ASSUME NEW i \in 1..Len(sb) PROVE sb[i] = sa[i]
  <2>1. i \in 1..(n - m + 1) /\ m + i - 1 \in 1..Len(a)  BY <1>1, <1>7
  <2> QED  BY <1>2, <1>6, <1>7, <2>1
<1>9. sb = sa  BY <1>6, <1>7, <1>8, SeqEqual
<1> QED  BY <1>9 DEF sa, sb

\* The segment a current session commits extends the partition of the records.
LEMMA CommittedSegments ==
  ASSUME NEW segs \in Seq(Segments), NEW recs \in Seq(Records), NEW s \in Sessions,
         segs = <<>> => recs = <<>>,
         segs # <<>> => ValidSegments(segs, recs) /\ KeepsBases(StoredBases(segs), s.bases),
         s.persisted = Len(recs), IsPrefix(recs, s.records), ValidBases(s.bases),
         NEW seg \in Segments,
         seg = [first |-> s.persisted + 1, count |-> Len(Unpersisted(s)),
                bases |-> s.bases, body |-> Unpersisted(s)]
  PROVE  ValidSegments(Append(segs, seg), s.records)
<1> DEFINE c == Append(segs, seg)
           m == Len(segs)
           r == s.records
<1>1. r \in Seq(Records) /\ Len(r) \in Nat /\ Len(recs) \in Nat /\ m \in Nat
  BY LenProperties DEF Sessions
<1>2. IsPrefix(recs, r) /\ Len(recs) <= Len(r)  BY <1>1, PrefixElements
<1>3. Len(Unpersisted(s)) = Len(r) - Len(recs)  BY SessionRecords
<1>4. /\ DOMAIN segs = 1..m
      /\ c \in Seq(Segments) /\ Len(c) = m + 1 /\ DOMAIN c = 1..(m + 1) /\ c # <<>>
      /\ \A i \in 1..m : c[i] = segs[i]
      /\ c[m + 1] = seg
  BY <1>1, LenProperties, AppendProperties
<1>5. /\ seg.first = Len(recs) + 1
      /\ seg.count = Len(r) - Len(recs)
      /\ seg.bases = s.bases
      /\ seg.body = Unpersisted(s)
  BY <1>3
<1>6. \A i \in 1..m : segs[i].first \in Nat \ {0} /\ segs[i].count \in Nat
  <2>1. \A i \in 1..m : segs[i] \in Segments  BY ElementOfSeq
  <2> QED  BY <2>1 DEF Segments
<1>7. m = 0 <=> segs = <<>>  BY <1>1, EmptySeq
<1> HIDE DEF c, m, r
<1>8. c[1].first = 1
  <2>1. CASE m = 0
    <3>1. Len(recs) = 0  BY <1>7, <2>1, EmptySeq
    <3> QED  BY <1>4, <1>5, <2>1, <3>1
  <2>2. CASE m # 0
    <3>1. 1 \in 1..m  BY <1>1, <2>2
    <3> QED  BY <1>4, <1>7, <2>2, <3>1 DEF ValidSegments
  <2> QED  BY <2>1, <2>2
<1>9. ASSUME NEW i \in 1..(Len(c) - 1)
      PROVE  c[i + 1].first = c[i].first + c[i].count /\ KeepsBases(c[i].bases, c[i + 1].bases)
  <2>1. i \in 1..m /\ segs # <<>>  BY <1>1, <1>4, <1>7
  <2>2. CASE i = m
    <3>1. Len(recs) + 1 = segs[m].first + segs[m].count  BY <2>1 DEF ValidSegments, m
    <3>2. KeepsBases(segs[m].bases, s.bases)  BY <2>1 DEF StoredBases, m
    <3> QED  BY <1>4, <1>5, <2>1, <2>2, <3>1, <3>2
  <2>3. CASE i # m
    <3>1. i \in 1..(m - 1) /\ i + 1 \in 1..m  BY <1>1, <2>1, <2>3
    <3>2. segs[i + 1].first = segs[i].first + segs[i].count
          /\ KeepsBases(segs[i].bases, segs[i + 1].bases)
      BY <2>1, <3>1 DEF ValidSegments, m
    <3> QED  BY <1>4, <2>1, <3>1, <3>2
  <2> QED  BY <2>2, <2>3
<1>10. Len(r) + 1 = c[Len(c)].first + c[Len(c)].count
  <2>1. c[Len(c)] = seg  BY <1>4
  <2>2. (Len(recs) + 1) + (Len(r) - Len(recs)) = Len(r) + 1  BY <1>1
  <2> QED  BY <1>5, <2>1, <2>2
<1>11. ASSUME NEW i \in DOMAIN c
       PROVE  /\ c[i].first + c[i].count - 1 <= Len(r)
              /\ SubSeq(r, c[i].first, c[i].first + c[i].count - 1) = c[i].body
  <2>1. CASE i \in 1..m
    <3>1. segs # <<>>  BY <1>1, <1>7, <2>1
    <3>2. /\ segs[i].first + segs[i].count - 1 <= Len(recs)
          /\ SubSeq(recs, segs[i].first, segs[i].first + segs[i].count - 1) = segs[i].body
      BY <1>4, <2>1, <3>1 DEF ValidSegments
    <3> DEFINE last == segs[i].first + segs[i].count - 1
    <3>3. segs[i].first \in Nat \ {0} /\ segs[i].count \in Nat  BY <1>6, <2>1
    <3>4. last \in Int  BY <3>3
    <3>5. last <= Len(recs)  BY <3>2
    <3> HIDE DEF last
    <3>6. last <= Len(r)  BY <1>1, <1>2, <3>4, <3>5
    <3>7. SubSeq(r, segs[i].first, last) = SubSeq(recs, segs[i].first, last)
      BY <1>1, <1>2, <3>3, <3>4, <3>5, SubSeqOfPrefix
    <3> QED  BY <1>4, <2>1, <3>2, <3>6, <3>7 DEF last
  <2>2. CASE i = m + 1
    <3>1. /\ c[i].first = Len(recs) + 1
          /\ c[i].count = Len(r) - Len(recs)
          /\ c[i].body = Unpersisted(s)
      BY <1>4, <1>5, <2>2
    <3>2. (Len(recs) + 1) + (Len(r) - Len(recs)) - 1 = Len(r)  BY <1>1
    <3>3. Unpersisted(s) = SubSeq(r, Len(recs) + 1, Len(r))  BY DEF Unpersisted, r
    <3> QED  BY <1>1, <3>1, <3>2, <3>3
  <2> QED  BY <1>1, <1>4, <2>1, <2>2
<1>12. ValidBases(StoredBases(c))  BY <1>4, <1>5 DEF StoredBases
<1>13. ValidSegments(c, r)
  <2>1. c # <<>>  BY <1>4
  <2>2. \A i \in 1..(Len(c) - 1) :
          /\ c[i + 1].first = c[i].first + c[i].count
          /\ KeepsBases(c[i].bases, c[i + 1].bases)
    BY <1>9
  <2>3. \A i \in DOMAIN c :
          /\ c[i].first + c[i].count - 1 <= Len(r)
          /\ SubSeq(r, c[i].first, c[i].first + c[i].count - 1) = c[i].body
    BY <1>11
  <2> QED  BY <1>8, <1>10, <1>12, <2>1, <2>2, <2>3 DEF ValidSegments
<1> QED  BY <1>13 DEF c, r

\* What assign and alias add to a valid session fits it.
LEMMA UseFits ==
  ASSUME TypeOK, NEW p \in Procs, Use(p),
         ValidBases(session[p].bases), ValidEntries(session[p].records, session[p].bases)
  PROVE  \E rec \in Records : AppendRecord(p, rec) /\ Fits(session[p].records, session[p].bases, rec)
<1> DEFINE recs  == session[p].records
           bases == session[p].bases
<1>1. recs \in Seq(Records) /\ bases \in BaseMaps
  BY DEF TypeOK, Sessions
<1>2. DOMAIN recs = 1..Len(recs) /\ \A i \in DOMAIN recs : recs[i] \in Records
  BY <1>1, ElementOfSeq, LenProperties
<1> DEFINE Supersession(k, superseded) ==
             \/ Unbound(recs, k) /\ superseded = None
             \/ \E i \in Newest(recs, k) : superseded = recs[i].id
<1>3. ASSUME NEW k \in Keys, NEW f \in Families, NEW superseded \in Ids \cup {None},
             Mint(p, k, f, superseded), Supersession(k, superseded)
      PROVE  \E rec \in Records : AppendRecord(p, rec) /\ Fits(recs, bases, rec)
  <2>1. PICK highest \in AssignedNumbers(recs, f) \cup {0} :
          /\ \A n \in AssignedNumbers(recs, f) : n <= highest
          /\ AppendRecord(p, [key |-> k, family |-> f, alias |-> FALSE,
                              id |-> [base |-> bases[f], num |-> highest + 1],
                              supersedes |-> superseded])
    BY <1>3 DEF Mint
  <2> DEFINE id  == [base |-> bases[f], num |-> highest + 1]
             rec == [key |-> k, family |-> f, alias |-> FALSE, id |-> id, supersedes |-> superseded]
  <2>2. highest \in Nat  BY <1>2 DEF AssignedNumbers, Records, Ids
  <2>3. f \in DOMAIN bases  BY <1>3 DEF Mint
  <2>4. bases[f] \in BaseNames  BY <1>1, <2>3 DEF BaseMaps
  <2>5. id \in Ids /\ id.base = bases[f]  BY <2>2, <2>4 DEF Ids
  <2>6. id \notin AssignedIds(recs)
    BY <1>1, <2>1, <2>2, <2>3, MintedIdIsNew
  <2> HIDE DEF id
  <2>7. rec \in Records  BY <2>5 DEF Records
  <2>8. Fits(recs, bases, rec)  BY <1>3, <2>3, <2>5, <2>6 DEF Fits
  <2> QED  BY <2>1, <2>7, <2>8 DEF id
<1>4. ASSUME NEW k \in Keys, NEW f \in Families, Assign(p, k, f)
      PROVE  \E rec \in Records : AppendRecord(p, rec) /\ Fits(recs, bases, rec)
  <2>1. CASE Unbound(recs, k) /\ Mint(p, k, f, None)  BY <1>3, <2>1
  <2>2. ASSUME NEW i \in Newest(recs, k), Mint(p, k, f, LiveId(recs[i]))
        PROVE  \E rec \in Records : AppendRecord(p, rec) /\ Fits(recs, bases, rec)
    <3>1. LiveId(recs[i]) \in Ids /\ LiveId(recs[i]) = recs[i].id
      BY <1>2 DEF LiveId, Records, Newest
    <3> QED  BY <1>3, <2>2, <3>1
  <2> QED  BY <1>4, <2>1, <2>2 DEF Assign
<1>5. ASSUME NEW k \in Keys, NEW n \in DOMAIN recs, Alias(p, k, recs[n].id)
      PROVE  \E rec \in Records : AppendRecord(p, rec) /\ Fits(recs, bases, rec)
  <2> DEFINE Rec(superseded) == [key |-> k, family |-> None, alias |-> TRUE,
                                 id |-> recs[n].id, supersedes |-> superseded]
  <2>1. recs[n].id \in Ids /\ recs[n].id \in AssignedIds(recs)
    BY <1>2, <1>5 DEF Records, Alias
  <2>2. \A superseded \in Ids \cup {None} : Rec(superseded) \in Records
    BY <2>1 DEF Records
  <2>3. \A superseded \in Ids \cup {None} :
          Supersession(k, superseded) => Fits(recs, bases, Rec(superseded))
    BY <2>1 DEF Fits
  <2>4. \A i \in Newest(recs, k) : LiveId(recs[i]) \in Ids /\ LiveId(recs[i]) = recs[i].id
    BY <1>2 DEF LiveId, Records, Newest
  <2>5. \/ Unbound(recs, k) /\ AppendRecord(p, Rec(None))
        \/ \E i \in Newest(recs, k) : AppendRecord(p, Rec(LiveId(recs[i])))
    BY <1>5 DEF Alias
  <2> QED  BY <2>2, <2>3, <2>4, <2>5
<1> QED  BY <1>4, <1>5 DEF Use

\* The inductive invariant: the file is valid, and the session that may commit
\* next holds valid records under a base map that only grew.
LedgerInv ==
  /\ SessionInv
  /\ DurableValid
  /\ segments = <<>> => rows = <<>>
  /\ \A p \in Procs : pc[p] \in {"laid", "open", "closing"} =>
       /\ ValidBases(session[p].bases)
       /\ ValidEntries(session[p].records, session[p].bases)
       /\ segments # <<>> => KeepsBases(StoredBases(segments), session[p].bases)

LEMMA EmptyIsValid ==
  ASSUME NEW bases
  PROVE  ValidEntries(<<>>, bases)
BY DEF ValidEntries

\* Growing the base map keeps the records valid.
LEMMA GrownBases ==
  ASSUME NEW recs, NEW earlier, NEW later, ValidEntries(recs, earlier), KeepsBases(earlier, later)
  PROVE  ValidEntries(recs, later)
BY DEF ValidEntries, KeepsBases

LEMMA WriteSegmentValid ==
  ASSUME LedgerInv, NEW p \in Procs, pc[p] \in {"laid", "open"}, WriteSegment(p)
  PROVE  /\ Valid(segments', rows')
         /\ segments' # <<>>
         /\ StoredBases(segments') = session[p].bases
         /\ session'[p].bases = session[p].bases
         /\ session'[p].records = session[p].records
<1> DEFINE s == session[p]
<1> USE DEF LedgerInv, SessionInv
<1>1. s \in Sessions /\ rows \in Seq(Records) /\ segments \in Seq(Segments)
  BY DEF TypeOK
<1>2. s.persisted = Len(rows) /\ IsPrefix(rows, s.records)
  BY DEF SessionCurrent
<1>3. ValidBases(s.bases) /\ ValidEntries(s.records, s.bases)
  OBVIOUS
<1>4. segments # <<>> => ValidSegments(segments, rows) /\ KeepsBases(StoredBases(segments), s.bases)
  BY DEF DurableValid, Valid
<1>5. PICK seg \in Segments :
        /\ segments' = Append(segments, seg)
        /\ seg = [first |-> s.persisted + 1, count |-> Len(Unpersisted(s)),
                  bases |-> s.bases, body |-> Unpersisted(s)]
  BY WriteSegmentAppends
<1>6. rows' = s.records /\ session'[p].records = s.records  BY WriteSegmentEffect
<1> HIDE DEF s
<1>7. ValidSegments(Append(segments, seg), s.records)
  BY <1>1, <1>2, <1>3, <1>4, <1>5, CommittedSegments
<1>8. StoredBases(segments') = s.bases /\ segments' # <<>>
  <2>1. /\ Append(segments, seg) # <<>>
        /\ Len(Append(segments, seg)) = Len(segments) + 1
        /\ Append(segments, seg)[Len(segments) + 1] = seg
    BY <1>1, AppendProperties
  <2>2. seg.bases = s.bases  BY <1>5
  <2> QED  BY <1>5, <2>1, <2>2 DEF StoredBases
<1>9. session'[p].bases = s.bases
  <2>1. session' = [session EXCEPT ![p] = Persisted(s, Len(Unpersisted(s)))]
    BY DEF WriteSegment, s
  <2>2. Persisted(s, Len(Unpersisted(s))).bases = s.bases  BY <1>1 DEF Persisted, Sessions
  <2> QED  BY <2>1, <2>2 DEF TypeOK
<1> QED  BY <1>3, <1>5, <1>6, <1>7, <1>8, <1>9 DEF Valid, s

LEMMA InitLedger == Init => LedgerInv
<1> SUFFICES ASSUME Init PROVE LedgerInv  OBVIOUS
<1> QED  BY InitSession DEF Init, LedgerInv, DurableValid

LEMMA NextLedger == LedgerInv /\ [Next]_vars => LedgerInv'
<1> SUFFICES ASSUME LedgerInv, [Next]_vars PROVE LedgerInv'  OBVIOUS
<1> USE DEF LedgerInv
<1>0. SessionInv'
  BY NextType, NextLockOwned, NextFresh, NextSessionCurrent DEF SessionInv
<1> DEFINE Held(q) == /\ ValidBases(session[q].bases)
                      /\ ValidEntries(session[q].records, session[q].bases)
                      /\ segments # <<>> => KeepsBases(StoredBases(segments), session[q].bases)
           Same(q) == /\ pc'[q] \in {"laid", "open", "closing"} => pc[q] \in {"laid", "open", "closing"}
                      /\ session'[q] = session[q]
\* A step that leaves the file alone has to look after the sessions only.
<1>1. ASSUME UNCHANGED <<rows, segments>>,
             \A q \in Procs : pc'[q] \in {"laid", "open", "closing"} => Same(q) \/ Held(q)'
      PROVE  LedgerInv'
  BY <1>0, <1>1 DEF DurableValid
\* A step that commits leaves a single session.
<1>2. ASSUME NEW p \in Procs, pc[p] \in {"laid", "open"}, WriteSegment(p),
             NEW next, pc' = [pc EXCEPT ![p] = next]
      PROVE  LedgerInv'
  <2>1. Valid(segments', rows') /\ segments' # <<>>
        /\ StoredBases(segments') = session[p].bases
        /\ session'[p].bases = session[p].bases
        /\ session'[p].records = session[p].records
    BY <1>2, WriteSegmentValid
  <2>2. KeepsBases(session[p].bases, session[p].bases)  BY DEF KeepsBases
  <2>3. \A q \in Procs : pc'[q] \in {"laid", "open", "closing"} => q = p
    BY <1>2, Exclusion DEF SessionInv, TypeOK, Writing
  <2>4. Held(p)'  BY <1>2, <2>1, <2>2
  <2> QED  BY <1>0, <2>1, <2>3, <2>4 DEF DurableValid
<1>3. CASE UNCHANGED vars  BY <1>1, <1>3 DEF vars
<1>4. ASSUME NEW p \in Procs, Create(p) PROVE LedgerInv'
  <2>1. CASE AcquireLock(p, "creating")
    BY <1>1, <2>1 DEF AcquireLock, SessionInv, TypeOK, disk
  <2>2. ASSUME NEW bases \in Schemes, LayDownSchema(p, bases) PROVE LedgerInv'
    <3>1. segments' = <<>>  BY <2>2 DEF LayDownSchema, NoContainer, SessionInv, Fresh
    <3>2. session'[p] = [NoSession EXCEPT !.bases = bases]
      BY <2>2 DEF LayDownSchema, SessionInv, TypeOK
    <3>3. session'[p].bases = bases /\ session'[p].records = <<>>
      BY <3>2 DEF NoSession
    <3>4. Held(p)'  BY <2>2, <3>1, <3>3, EmptyIsValid DEF LayDownSchema
    <3>5. \A q \in Procs \ {p} : Same(q)
      BY <2>2 DEF LayDownSchema, SessionInv, TypeOK
    <3> QED  BY <1>1, <2>2, <3>4, <3>5 DEF LayDownSchema
  <2>3. CASE CreateCommits(p)  BY <1>2, <2>3 DEF CreateCommits
  <2> QED  BY <1>4, <2>1, <2>2, <2>3 DEF Create
<1>5. ASSUME NEW p \in Procs, Open(p) PROVE LedgerInv'
  <2>1. CASE AcquireLock(p, "opening")
    BY <1>1, <2>1 DEF AcquireLock, SessionInv, TypeOK, disk
  <2>2. ASSUME NEW expected \in Schemes, OpenForWrite(p, expected) PROVE LedgerInv'
    <3>1. session'[p] = [records |-> rows, persisted |-> Len(rows), segments |-> Len(segments),
                         bases |-> expected, dirty |-> expected # StoredBases(segments)]
      BY <2>2 DEF OpenForWrite, SessionInv, TypeOK
    <3>2. ValidEntries(rows, expected)
      BY <2>2, GrownBases DEF OpenForWrite, Valid
    <3>3. Held(p)'  BY <2>2, <3>1, <3>2 DEF OpenForWrite, disk
    <3>4. \A q \in Procs \ {p} : Same(q)
      BY <2>2 DEF OpenForWrite, SessionInv, TypeOK
    <3> QED  BY <1>1, <2>2, <3>3, <3>4 DEF OpenForWrite, disk
  <2> QED  BY <1>5, <2>1, <2>2 DEF Open
<1>6. ASSUME NEW p \in Procs, Use(p) PROVE LedgerInv'
  <2>1. pc[p] = "open"  BY <1>6, UseAppends DEF SessionInv
  <2>2. PICK rec \in Records :
          AppendRecord(p, rec) /\ Fits(session[p].records, session[p].bases, rec)
    BY <1>6, <2>1, UseFits DEF SessionInv
  <2>3. session[p] \in Sessions  BY DEF SessionInv, TypeOK
  <2>4. session'[p] = [session[p] EXCEPT !.records = Append(session[p].records, rec), !.dirty = TRUE]
    BY <2>2 DEF AppendRecord, SessionInv, TypeOK
  <2>5. session'[p].bases = session[p].bases
        /\ session'[p].records = Append(session[p].records, rec)
    BY <2>3, <2>4 DEF Sessions
  <2>6. ValidEntries(Append(session[p].records, rec), session[p].bases)
    BY <2>1, <2>2, <2>3, FittingRecord DEF Sessions
  <2>7. Held(p)'  BY <2>1, <2>2, <2>5, <2>6 DEF AppendRecord, disk
  <2>8. \A q \in Procs \ {p} : Same(q)
    BY <2>2 DEF AppendRecord, SessionInv, TypeOK
  <2> QED  BY <1>1, <2>2, <2>7, <2>8 DEF AppendRecord, disk
<1>7. ASSUME NEW p \in Procs, Close(p) PROVE LedgerInv'
  <2>1. CASE CloseCommits(p)  BY <1>2, <2>1 DEF CloseCommits
  <2>2. CASE Unlock(p)  BY <1>1, <2>2 DEF Unlock, Leave, SessionInv, TypeOK, disk
  <2> QED  BY <1>7, <2>1, <2>2 DEF Close
<1>8. ASSUME NEW p \in Procs, Refuse(p) PROVE LedgerInv'
  <2>1. CASE CreateRefused(p)
    BY <1>1, <2>1 DEF CreateRefused, Leave, SessionInv, TypeOK, disk
  <2>2. CASE CreateFails(p)
    <3>1. \A q \in Procs : pc'[q] \notin {"laid", "open", "closing"}
      BY <2>2, Exclusion DEF CreateFails, Leave, SessionInv, TypeOK, Writing
    <3> QED  BY <1>0, <2>2, <3>1 DEF CreateFails, DurableValid
  <2>3. CASE OpenRefused(p)
    BY <1>1, <2>3 DEF OpenRefused, Leave, SessionInv, TypeOK, disk
  <2> QED  BY <1>8, <2>1, <2>2, <2>3 DEF Refuse
<1>9. ASSUME NEW p \in Procs, Read(p) PROVE LedgerInv'
  <2>1. CASE ScanSegments(p)  BY <1>1, <2>1 DEF ScanSegments, SessionInv, TypeOK, disk
  <2>2. CASE ScanRecords(p)  BY <1>1, <2>2 DEF ScanRecords, SessionInv, TypeOK, disk
  <2>3. CASE CloseReader(p)  BY <1>1, <2>3 DEF CloseReader, Leave, SessionInv, TypeOK, disk
  <2> QED  BY <1>9, <2>1, <2>2, <2>3 DEF Read
<1>10. ASSUME NEW p \in Procs, Crash(p) PROVE LedgerInv'
  BY <1>1, <1>10 DEF Crash, Leave, SessionInv, TypeOK, disk
<1>11. ASSUME NEW p \in Procs, BreakLock(p) PROVE LedgerInv'
  BY <1>1, <1>11 DEF BreakLock, disk
<1> QED  BY <1>3, <1>4, <1>5, <1>6, <1>7, <1>8, <1>9, <1>10, <1>11 DEF Next

\* Whatever sessions, crashes and lock removals happen, the committed file is
\* one that open() accepts: ids are unique and in their family's base, every
\* re-binding names what it replaces, and the segments partition the records.
THEOREM CommittedLedgerIsValid == Spec => []DurableValid
<1>1. Spec => []LedgerInv  BY InitLedger, NextLedger, PTL DEF Spec
<1> QED  BY <1>1, PTL DEF LedgerInv

-----------------------------------------------------------------------------
(* The ledger implements the registry of IdRegistry.  A session reads the  *)
(* registry when it is opened and publishes to it when its segment         *)
(* commits; every other step of the ledger is a stutter or lets a view go. *)

(* Records in order: the numbers of a base rise along the records, and a   *)
(* key that occurs has a newest record.                                    *)

Rising(recs) ==
  \A i, j \in DOMAIN recs :
    i < j /\ ~recs[i].alias /\ ~recs[j].alias /\ recs[i].id.base = recs[j].id.base
      => recs[i].id.num < recs[j].id.num

Resolved(recs) == \A i \in DOMAIN recs : Newest(recs, recs[i].key) # {}

Ordered(recs) == Rising(recs) /\ Resolved(recs)

LEMMA EmptyIsOrdered == Ordered(<<>>)
BY DEF Ordered, Rising, Resolved

\* A record that mints an id numbers it above every id of its base.
Above(recs, rec) ==
  ~rec.alias => \A i \in DOMAIN recs :
                  ~recs[i].alias /\ recs[i].id.base = rec.id.base => recs[i].id.num < rec.id.num

LEMMA OrderedAppend ==
  ASSUME NEW recs \in Seq(Records), NEW rec \in Records, Ordered(recs), Above(recs, rec)
  PROVE  Ordered(Append(recs, rec))
<1> DEFINE c == Append(recs, rec)
           n == Len(recs)
<1>1. /\ n \in Nat /\ DOMAIN recs = 1..n
      /\ DOMAIN c = 1..(n + 1)
      /\ \A i \in 1..n : c[i] = recs[i]
      /\ c[n + 1] = rec
  BY LenProperties, AppendProperties
<1> HIDE DEF c, n
<1>2. \A i \in 1..(n + 1) : i \in 1..n \/ i = n + 1
  BY <1>1
<1>3. Rising(c)
  <2> SUFFICES ASSUME NEW i \in 1..(n + 1), NEW j \in 1..(n + 1), i < j,
                      ~c[i].alias, ~c[j].alias, c[i].id.base = c[j].id.base
               PROVE  c[i].id.num < c[j].id.num
    BY <1>1 DEF Rising
  <2>1. i \in 1..n
    BY <1>1
  <2>2. CASE j \in 1..n
    BY <1>1, <2>1, <2>2 DEF Ordered, Rising
  <2>3. CASE j = n + 1
    BY <1>1, <2>1, <2>3 DEF Above
  <2> QED BY <1>2, <2>2, <2>3
<1>4. n + 1 \in Newest(c, rec.key)
  BY <1>1 DEF Newest
<1>5. ASSUME NEW i \in 1..n, c[i].key # rec.key PROVE Newest(c, c[i].key) # {}
  <2>1. PICK l \in 1..n : l \in Newest(recs, recs[i].key)
    BY <1>1 DEF Ordered, Resolved, Newest
  <2>2. l \in Newest(c, c[i].key)
    BY <1>1, <1>2, <1>5, <2>1 DEF Newest
  <2> QED BY <2>2
<1>6. Resolved(c)
  BY <1>1, <1>2, <1>4, <1>5 DEF Resolved
<1> QED BY <1>3, <1>6 DEF Ordered, c

\* assign and alias add a record that is in order: _mint numbers above the
\* family's highest, and no other family shares its base.
LEMMA UseOrdered ==
  ASSUME TypeOK, NEW p \in Procs, Use(p),
         ValidBases(session[p].bases), ValidEntries(session[p].records, session[p].bases)
  PROVE  \E rec \in Records : AppendRecord(p, rec) /\ Above(session[p].records, rec)
<1> DEFINE recs  == session[p].records
           bases == session[p].bases
<1>1. recs \in Seq(Records) /\ bases \in BaseMaps
  BY DEF TypeOK, Sessions
<1>2. DOMAIN recs = 1..Len(recs) /\ \A i \in DOMAIN recs : recs[i] \in Records
  BY <1>1, ElementOfSeq, LenProperties
<1>3. ASSUME NEW k \in Keys, NEW f \in Families, NEW superseded \in Ids \cup {None},
             Mint(p, k, f, superseded)
      PROVE  \E rec \in Records : AppendRecord(p, rec) /\ Above(recs, rec)
  <2>1. PICK highest \in AssignedNumbers(recs, f) \cup {0} :
          /\ \A n \in AssignedNumbers(recs, f) : n <= highest
          /\ AppendRecord(p, [key |-> k, family |-> f, alias |-> FALSE,
                              id |-> [base |-> bases[f], num |-> highest + 1],
                              supersedes |-> superseded])
    BY <1>3 DEF Mint
  <2> DEFINE id  == [base |-> bases[f], num |-> highest + 1]
             rec == [key |-> k, family |-> f, alias |-> FALSE, id |-> id, supersedes |-> superseded]
  <2>2. highest \in Nat /\ f \in DOMAIN bases
    BY <1>2, <1>3 DEF AssignedNumbers, Records, Ids, Mint
  <2>3. id \in Ids /\ id.base = bases[f] /\ id.num = highest + 1
    BY <1>1, <2>2 DEF Ids, BaseMaps
  <2>4. ASSUME NEW i \in DOMAIN recs, ~recs[i].alias, recs[i].id.base = bases[f]
        PROVE  recs[i].id.num < highest + 1
    <3>1. recs[i].family \in DOMAIN bases /\ recs[i].id.base = bases[recs[i].family]
      BY <2>4 DEF ValidEntries
    <3>2. recs[i].family = f
      BY <2>2, <2>4, <3>1 DEF ValidBases
    <3>3. recs[i].id.num \in AssignedNumbers(recs, f) /\ recs[i].id.num \in Nat
      BY <1>2, <2>4, <3>2 DEF AssignedNumbers, Records, Ids
    <3> QED BY <2>1, <2>2, <3>3
  <2> HIDE DEF id
  <2>5. rec \in Records
    BY <2>3 DEF Records
  <2>6. Above(recs, rec)
    BY <2>3, <2>4 DEF Above
  <2> QED BY <2>1, <2>5, <2>6 DEF id
<1>4. ASSUME NEW k \in Keys, NEW f \in Families, Assign(p, k, f)
      PROVE  \E rec \in Records : AppendRecord(p, rec) /\ Above(recs, rec)
  <2>1. CASE Mint(p, k, f, None)
    BY <1>3, <2>1
  <2>2. ASSUME NEW i \in Newest(recs, k), Mint(p, k, f, LiveId(recs[i]))
        PROVE  \E rec \in Records : AppendRecord(p, rec) /\ Above(recs, rec)
    <3>1. LiveId(recs[i]) \in Ids
      BY <1>2 DEF LiveId, Records, Newest
    <3> QED BY <1>3, <2>2, <3>1
  <2> QED BY <1>4, <2>1, <2>2 DEF Assign
<1>5. ASSUME NEW k \in Keys, NEW n \in DOMAIN recs, Alias(p, k, recs[n].id)
      PROVE  \E rec \in Records : AppendRecord(p, rec) /\ Above(recs, rec)
  <2> DEFINE Rec(superseded) == [key |-> k, family |-> None, alias |-> TRUE,
                                 id |-> recs[n].id, supersedes |-> superseded]
  <2>1. \A superseded \in Ids \cup {None} :
          Rec(superseded) \in Records /\ Above(recs, Rec(superseded))
    BY <1>2 DEF Records, Above
  <2>2. \A i \in Newest(recs, k) : LiveId(recs[i]) \in Ids
    BY <1>2 DEF LiveId, Records, Newest
  <2>3. \/ AppendRecord(p, Rec(None))
        \/ \E i \in Newest(recs, k) : AppendRecord(p, Rec(LiveId(recs[i])))
    BY <1>5 DEF Alias
  <2> QED BY <2>1, <2>2, <2>3
<1> QED BY <1>4, <1>5 DEF Use

\* The inductive invariant: besides what LedgerInv says, the records of the
\* file and of a session that may commit are in order.
OrderInv ==
  /\ LedgerInv
  /\ Ordered(rows)
  /\ \A p \in Procs : pc[p] \in {"laid", "open", "closing"} => Ordered(session[p].records)

LEMMA InitOrder == Init => OrderInv
BY InitLedger, EmptyIsOrdered DEF Init, OrderInv

LEMMA NextOrder == OrderInv /\ [Next]_vars => OrderInv'
<1> SUFFICES ASSUME OrderInv, [Next]_vars PROVE OrderInv'
  OBVIOUS
<1> USE DEF OrderInv
<1>0. LedgerInv' /\ SessionInv /\ TypeOK
  BY NextLedger DEF LedgerInv, SessionInv
<1> DEFINE Same(q) == /\ pc'[q] \in {"laid", "open", "closing"} => pc[q] \in {"laid", "open", "closing"}
                      /\ session'[q] = session[q]
           Kept(q) == pc'[q] \in {"laid", "open", "closing"} => Same(q) \/ Ordered(session'[q].records)
\* A step that leaves the file alone has to look after the sessions only.
<1>1. ASSUME UNCHANGED rows, \A q \in Procs : Kept(q) PROVE OrderInv'
  BY <1>0, <1>1
\* A step that commits makes the file hold the records of its session.
<1>2. ASSUME NEW p \in Procs, pc[p] \in {"laid", "open"}, WriteSegment(p),
             NEW next, pc' = [pc EXCEPT ![p] = next]
      PROVE  OrderInv'
  <2>1. rows' = session[p].records /\ session'[p].records = session[p].records
    BY <1>0, <1>2, WriteSegmentEffect
  <2>2. \A q \in Procs : pc'[q] \in {"laid", "open", "closing"} => q = p
    BY <1>0, <1>2, Exclusion DEF SessionInv, TypeOK, Writing
  <2> QED BY <1>0, <1>2, <2>1, <2>2
<1>3. CASE UNCHANGED vars
  BY <1>1, <1>3 DEF vars
<1>4. ASSUME NEW p \in Procs, Create(p) PROVE OrderInv'
  <2>1. CASE AcquireLock(p, "creating")
    BY <1>0, <1>1, <2>1 DEF AcquireLock, TypeOK, disk
  <2>2. ASSUME NEW bases \in Schemes, LayDownSchema(p, bases) PROVE OrderInv'
    <3>1. session'[p] = [NoSession EXCEPT !.bases = bases]
      BY <1>0, <2>2 DEF LayDownSchema, TypeOK
    <3>2. session'[p].records = <<>>
      BY <3>1 DEF NoSession
    <3>3. \A q \in Procs \ {p} : Same(q)
      BY <1>0, <2>2 DEF LayDownSchema, TypeOK
    <3> QED BY <1>1, <2>2, <3>2, <3>3, EmptyIsOrdered DEF LayDownSchema
  <2>3. CASE CreateCommits(p)
    BY <1>2, <2>3 DEF CreateCommits
  <2> QED BY <1>4, <2>1, <2>2, <2>3 DEF Create
<1>5. ASSUME NEW p \in Procs, Open(p) PROVE OrderInv'
  <2>1. CASE AcquireLock(p, "opening")
    BY <1>0, <1>1, <2>1 DEF AcquireLock, TypeOK, disk
  <2>2. ASSUME NEW expected \in Schemes, OpenForWrite(p, expected) PROVE OrderInv'
    <3>1. session'[p].records = rows
      BY <1>0, <2>2 DEF OpenForWrite, TypeOK
    <3>2. \A q \in Procs \ {p} : Same(q)
      BY <1>0, <2>2 DEF OpenForWrite, TypeOK
    <3> QED BY <1>1, <2>2, <3>1, <3>2 DEF OpenForWrite, disk
  <2> QED BY <1>5, <2>1, <2>2 DEF Open
<1>6. ASSUME NEW p \in Procs, Use(p) PROVE OrderInv'
  <2>1. pc[p] = "open"
    BY <1>0, <1>6, UseAppends
  <2>2. PICK rec \in Records : AppendRecord(p, rec) /\ Above(session[p].records, rec)
    BY <1>0, <1>6, <2>1, UseOrdered DEF LedgerInv
  <2>3. session[p] \in Sessions
    BY <1>0 DEF TypeOK
  <2>4. session'[p].records = Append(session[p].records, rec)
    BY <1>0, <2>2, <2>3 DEF AppendRecord, TypeOK, Sessions
  <2>5. Ordered(session'[p].records)
    BY <2>1, <2>2, <2>3, <2>4, OrderedAppend DEF Sessions
  <2>6. \A q \in Procs \ {p} : Same(q)
    BY <1>0, <2>2 DEF AppendRecord, TypeOK
  <2> QED BY <1>1, <2>2, <2>5, <2>6 DEF AppendRecord, disk
<1>7. ASSUME NEW p \in Procs, Close(p) PROVE OrderInv'
  <2>1. CASE CloseCommits(p)
    BY <1>2, <2>1 DEF CloseCommits
  <2>2. CASE Unlock(p)
    BY <1>0, <1>1, <2>2 DEF Unlock, Leave, TypeOK, disk
  <2> QED BY <1>7, <2>1, <2>2 DEF Close
<1>8. ASSUME NEW p \in Procs, Refuse(p) PROVE OrderInv'
  <2>1. CASE CreateRefused(p)
    BY <1>0, <1>1, <2>1 DEF CreateRefused, Leave, TypeOK, disk
  <2>2. CASE CreateFails(p)
    <3>1. \A q \in Procs : pc'[q] \notin {"laid", "open", "closing"}
      BY <1>0, <2>2, Exclusion DEF CreateFails, Leave, SessionInv, TypeOK, Writing
    <3> QED BY <1>0, <2>2, <3>1, EmptyIsOrdered DEF CreateFails
  <2>3. CASE OpenRefused(p)
    BY <1>0, <1>1, <2>3 DEF OpenRefused, Leave, TypeOK, disk
  <2> QED BY <1>8, <2>1, <2>2, <2>3 DEF Refuse
<1>9. ASSUME NEW p \in Procs, Read(p) PROVE OrderInv'
  <2>1. CASE ScanSegments(p)
    BY <1>0, <1>1, <2>1 DEF ScanSegments, TypeOK, disk
  <2>2. CASE ScanRecords(p)
    BY <1>0, <1>1, <2>2 DEF ScanRecords, TypeOK, disk
  <2>3. CASE CloseReader(p)
    BY <1>0, <1>1, <2>3 DEF CloseReader, Leave, TypeOK, disk
  <2> QED BY <1>9, <2>1, <2>2, <2>3 DEF Read
<1>10. ASSUME NEW p \in Procs, Crash(p) PROVE OrderInv'
  BY <1>0, <1>1, <1>10 DEF Crash, Leave, TypeOK, disk
<1>11. ASSUME NEW p \in Procs, BreakLock(p) PROVE OrderInv'
  BY <1>1, <1>11 DEF BreakLock, disk
<1> QED BY <1>3, <1>4, <1>5, <1>6, <1>7, <1>8, <1>9, <1>10, <1>11 DEF Next

LEMMA OrderAlways == Spec => []OrderInv
BY InitOrder, NextOrder, PTL DEF Spec
-----------------------------------------------------------------------------
(* The refinement, step by step.                                           *)

\* The registry a process has read and not yet let go of.
Shown(q) == IF pc[q] \in {"open", "closing", "reading"}
            THEN RegistryOf(SubSeq(session[q].records, 1, session[q].persisted))
            ELSE None

\* What a session is shown is what the file holds, until it lets go.
LEMMA SessionShown ==
  ASSUME SessionInv, NEW p \in Procs, pc[p] \in {"open", "closing"}
  PROVE  Shown(p) = RegistryOf(rows)
<1>1. session[p].records \in Seq(Records) /\ rows \in Seq(Records)
  BY DEF SessionInv, TypeOK, Sessions
<1>2. SubSeq(session[p].records, 1, Len(rows)) = rows
  <2>1. Len(rows) \in Nat /\ SubSeq(rows, 1, Len(rows)) = rows
    BY <1>1, LenProperties, SubSeqFull
  <2> QED BY <2>1 DEF SessionInv, SessionCurrent, IsPrefix
<1> QED BY <1>2 DEF Shown, SessionInv, SessionCurrent

\* A publication mints new ids above the ones in use, and binds keys.
LEMMA CommitExtends ==
  ASSUME NEW r \in Seq(Records), NEW c \in Seq(Records), NEW bases,
         IsPrefix(r, c), Ordered(c), ValidEntries(c, bases)
  PROVE  Registry!Extends(RegistryOf(r), RegistryOf(c))
<1> DEFINE old == RegistryOf(r)
           new == RegistryOf(c)
<1>1. /\ Len(r) \in Nat /\ Len(c) \in Nat /\ Len(r) <= Len(c)
      /\ DOMAIN r = 1..Len(r) /\ DOMAIN c = 1..Len(c)
      /\ \A i \in 1..Len(r) : i \in 1..Len(c) /\ r[i] = c[i]
  BY PrefixElements, LenProperties
<1>2. \A i \in 1..Len(c) : c[i] \in Records
  BY ElementOfSeq
<1>3. /\ \A i \in 1..Len(r) : ~r[i].alias => <<r[i].id, r[i].key>> \in old.owners
      /\ \A o \in old.owners : \E i \in 1..Len(r) : ~r[i].alias /\ o = <<r[i].id, r[i].key>>
      /\ \A i \in 1..Len(c) : ~c[i].alias => <<c[i].id, c[i].key>> \in new.owners
      /\ \A o \in new.owners : \E i \in 1..Len(c) : ~c[i].alias /\ o = <<c[i].id, c[i].key>>
  BY <1>1 DEF RegistryOf
<1>4. /\ \A b \in old.bindings : \E j \in 1..Len(r) : \E i \in Newest(r, r[j].key) : b = <<r[i].key, r[i].id>>
      /\ \A j \in 1..Len(c) : \A i \in Newest(c, c[j].key) : <<c[i].key, c[i].id>> \in new.bindings
      /\ \A b \in new.bindings : \E j \in 1..Len(c) : \E i \in Newest(c, c[j].key) : b = <<c[i].key, c[i].id>>
  BY <1>1 DEF RegistryOf
<1>5. /\ \A k : Newest(r, k) \subseteq 1..Len(r) /\ \A i \in Newest(r, k) : r[i].key = k
      /\ \A k : Newest(c, k) \subseteq 1..Len(c) /\ \A i \in Newest(c, k) : c[i].key = k
  BY <1>1 DEF Newest
<1> HIDE DEF old, new
<1>6. /\ \A i \in 1..Len(r) : ~r[i].alias => r[i].id \in Registry!Minted(old)
      /\ \A n \in Registry!Minted(old) : \E i \in 1..Len(r) : ~r[i].alias /\ n = r[i].id
      /\ \A i \in 1..Len(c) : ~c[i].alias => c[i].id \in Registry!Minted(new)
      /\ \A n \in Registry!Minted(new) : \E i \in 1..Len(c) : ~c[i].alias /\ n = c[i].id
  <2>1. /\ \A o \in old.owners : o[1] \in Registry!Minted(old)
        /\ \A n \in Registry!Minted(old) : \E o \in old.owners : n = o[1]
        /\ \A o \in new.owners : o[1] \in Registry!Minted(new)
        /\ \A n \in Registry!Minted(new) : \E o \in new.owners : n = o[1]
    BY DEF Registry!Minted
  <2>2. \A a, b : <<a, b>>[1] = a
    OBVIOUS
  <2>3. \A i \in 1..Len(r) : ~r[i].alias => r[i].id \in Registry!Minted(old)
    BY <1>3, <2>1, <2>2
  <2>4. \A n \in Registry!Minted(old) : \E i \in 1..Len(r) : ~r[i].alias /\ n = r[i].id
    BY <1>3, <2>1, <2>2
  <2>5. \A i \in 1..Len(c) : ~c[i].alias => c[i].id \in Registry!Minted(new)
    BY <1>3, <2>1, <2>2
  <2>6. \A n \in Registry!Minted(new) : \E i \in 1..Len(c) : ~c[i].alias /\ n = c[i].id
    BY <1>3, <2>1, <2>2
  <2> QED BY <2>3, <2>4, <2>5, <2>6
<1>7. old.owners \subseteq new.owners
  BY <1>1, <1>3
<1>8. \A o1, o2 \in new.owners : o1[1] = o2[1] => o1 = o2
  <2>1. ASSUME NEW k \in 1..Len(c), NEW l \in 1..Len(c), k < l, ~c[k].alias, ~c[l].alias
        PROVE  c[k].id # c[l].id
    <3>1. k \in 1..(l - 1)
      BY <1>1, <2>1
    <3> QED BY <1>1, <2>1, <3>1 DEF ValidEntries
  <2>2. \A k, l \in 1..Len(c) : ~c[k].alias /\ ~c[l].alias /\ c[k].id = c[l].id => k = l
    BY <1>1, <2>1
  <2> SUFFICES ASSUME NEW o1 \in new.owners, NEW o2 \in new.owners, o1[1] = o2[1]
               PROVE  o1 = o2
    OBVIOUS
  <2>3. PICK k \in 1..Len(c) : ~c[k].alias /\ o1 = <<c[k].id, c[k].key>>
    BY <1>3
  <2>4. PICK l \in 1..Len(c) : ~c[l].alias /\ o2 = <<c[l].id, c[l].key>>
    BY <1>3
  <2>5. c[k].id = c[l].id
    BY <2>3, <2>4
  <2> QED BY <2>2, <2>3, <2>4, <2>5
<1>9. ASSUME NEW n \in Registry!Minted(new) \ Registry!Minted(old),
             NEW o \in Registry!Minted(old), n.base = o.base
      PROVE  n.num > o.num
  <2>1. PICK j \in 1..Len(c) : ~c[j].alias /\ n = c[j].id
    BY <1>6, <1>9
  <2>2. PICK i \in 1..Len(r) : ~r[i].alias /\ o = r[i].id
    BY <1>6, <1>9
  <2>3. j \notin 1..Len(r)
    BY <1>1, <1>6, <1>9, <2>1
  <2>4. i < j /\ i \in 1..Len(c) /\ r[i] = c[i]
    BY <1>1, <2>3
  <2>5. c[i].id.num < c[j].id.num
    BY <1>1, <1>9, <2>1, <2>2, <2>4 DEF Ordered, Rising
  <2>6. c[i].id.num \in Nat /\ c[j].id.num \in Nat
    BY <1>2, <2>1, <2>2, <2>4 DEF Records, Ids
  <2> QED BY <2>1, <2>2, <2>4, <2>5, <2>6
<1>10. Registry!Bound(old) \subseteq Registry!Bound(new)
  <2> SUFFICES ASSUME NEW b \in old.bindings
               PROVE  \E d \in new.bindings : d[1] = b[1]
    BY DEF Registry!Bound
  <2>1. PICK j \in 1..Len(r) : \E i \in Newest(r, r[j].key) : b = <<r[i].key, r[i].id>>
    BY <1>4
  <2>2. j \in 1..Len(c) /\ c[j].key = b[1]
    BY <1>1, <1>5, <2>1
  <2>3. PICK l \in Newest(c, c[j].key) : TRUE
    BY <1>1, <2>2 DEF Ordered, Resolved
  <2>4. <<c[l].key, c[l].id>> \in new.bindings /\ c[l].key = b[1]
    BY <1>4, <1>5, <2>2, <2>3
  <2> QED BY <2>4
<1>11. \A b1, b2 \in new.bindings : b1[1] = b2[1] => b1 = b2
  <2> SUFFICES ASSUME NEW b1 \in new.bindings, NEW b2 \in new.bindings, b1[1] = b2[1]
               PROVE  b1 = b2
    OBVIOUS
  <2>1. PICK k \in 1..Len(c) : \E i \in Newest(c, c[k].key) : b1 = <<c[i].key, c[i].id>>
    BY <1>4
  <2>2. PICK l \in 1..Len(c) : \E j \in Newest(c, c[l].key) : b2 = <<c[j].key, c[j].id>>
    BY <1>4
  <2>3. PICK i \in Newest(c, c[k].key) : b1 = <<c[i].key, c[i].id>>
    BY <2>1
  <2>4. PICK j \in Newest(c, c[l].key) : b2 = <<c[j].key, c[j].id>>
    BY <2>2
  <2>5. i \in 1..Len(c) /\ j \in 1..Len(c) /\ c[i].key = c[j].key
    BY <1>5, <2>3, <2>4
  <2>6. i <= j /\ j <= i
    BY <1>1, <1>5, <2>3, <2>4, <2>5 DEF Newest
  <2>7. i = j
    BY <2>5, <2>6
  <2> QED BY <2>3, <2>4, <2>7
<1>12. \A b \in new.bindings : b[2] \in Registry!Minted(new)
  <2>1. \A i \in 1..Len(c) : c[i].id \in AssignedIds(c)
    BY <1>1 DEF ValidEntries, AssignedIds
  <2>2. \A i \in 1..Len(c) : c[i].id \in Registry!Minted(new)
    BY <1>1, <1>6, <2>1 DEF AssignedIds
  <2>3. \A a, b : <<a, b>>[2] = b
    OBVIOUS
  <2> QED BY <1>4, <1>5, <2>2, <2>3
<1>13. Registry!Extends(old, new)
  BY <1>7, <1>8, <1>9, <1>10, <1>11, <1>12 DEF Registry!Extends
<1> QED BY <1>13 DEF old, new

\* How a step of the ledger looks to the registry.
LEMMA Stutters ==
  ASSUME RegistryOf(rows') = RegistryOf(rows), \A q \in Procs : Shown(q)' = Shown(q)
  PROVE  UNCHANGED Registry!vars
BY DEF Registry!vars, Shown

LEMMA LetsGo ==
  ASSUME NEW p \in Procs, TypeOK, Leave(p), RegistryOf(rows') = RegistryOf(rows)
  PROVE  Registry!LetGo(p)
<1>1. Shown(p)' = None /\ \A q \in Procs \ {p} : Shown(q)' = Shown(q)
  BY DEF Leave, TypeOK, Shown
<1> QED BY <1>1 DEF Registry!LetGo, Shown

LEMMA Reads ==
  ASSUME NEW p \in Procs, pc[p] \notin {"open", "closing", "reading"},
         RegistryOf(rows') = RegistryOf(rows),
         Shown(p)' = RegistryOf(rows), \A q \in Procs \ {p} : Shown(q)' = Shown(q)
  PROVE  Registry!Read(p)
BY DEF Registry!Read, Shown

LEMMA Publishes ==
  ASSUME NEW p \in Procs, Shown(p) = RegistryOf(rows), Shown(p)' = RegistryOf(rows'),
         Registry!Extends(RegistryOf(rows), RegistryOf(rows')),
         \A q \in Procs \ {p} : Shown(q)' = Shown(q)
  PROVE  Registry!Publish(p)
BY DEF Registry!Publish, Shown

LEMMA NextRefines ==
  ASSUME OrderInv, [Next]_vars
  PROVE  [Registry!Next]_Registry!vars
<1>0. SessionInv /\ TypeOK /\ SessionInv'
  BY NextOrder DEF OrderInv, LedgerInv, SessionInv
<1> USE DEF Registry!Next
<1>1. CASE UNCHANGED vars
  <2>1. RegistryOf(rows') = RegistryOf(rows) /\ \A q \in Procs : Shown(q)' = Shown(q)
    BY <1>1 DEF vars, Shown
  <2> QED BY <2>1, Stutters
<1>2. ASSUME NEW p \in Procs, Create(p) PROVE [Registry!Next]_Registry!vars
  <2>1. CASE AcquireLock(p, "creating")
    <3>1. RegistryOf(rows') = RegistryOf(rows) /\ \A q \in Procs : Shown(q)' = Shown(q)
      BY <1>0, <2>1 DEF AcquireLock, Shown, TypeOK, disk
    <3> QED BY <3>1, Stutters
  <2>2. ASSUME NEW bases \in Schemes, LayDownSchema(p, bases) PROVE [Registry!Next]_Registry!vars
    <3>1. RegistryOf(rows') = RegistryOf(rows) /\ \A q \in Procs : Shown(q)' = Shown(q)
      BY <1>0, <2>2 DEF LayDownSchema, Shown, TypeOK
    <3> QED BY <3>1, Stutters
  <2>3. CASE CreateCommits(p)
    \* The first segment is empty: its session reads the empty registry.
    <3>1. pc[p] = "laid" /\ WriteSegment(p) /\ pc' = [pc EXCEPT ![p] = "open"]
      BY <2>3 DEF CreateCommits
    <3>2. rows' = session[p].records /\ \A q \in Procs \ {p} : session'[q] = session[q]
      BY <1>0, <3>1, WriteSegmentEffect
    <3>3. rows = <<>> /\ rows' = <<>>
      BY <1>0, <3>1, <3>2 DEF SessionInv, Fresh
    <3>4. pc'[p] = "open" /\ \A q \in Procs \ {p} : Shown(q)' = Shown(q)
      BY <1>0, <3>1, <3>2 DEF TypeOK, Shown
    <3>5. Shown(p)' = RegistryOf(rows')
      <4>1. (SessionInv /\ pc[p] \in {"open", "closing"} => Shown(p) = RegistryOf(rows))'
        BY SessionShown, PTL
      <4> QED BY <1>0, <3>4, <4>1
    <3>6. Registry!Read(p)
      BY <3>1, <3>3, <3>4, <3>5, Reads
    <3> QED BY <3>6
  <2> QED BY <1>2, <2>1, <2>2, <2>3 DEF Create
<1>3. ASSUME NEW p \in Procs, Open(p) PROVE [Registry!Next]_Registry!vars
  <2>1. CASE AcquireLock(p, "opening")
    <3>1. RegistryOf(rows') = RegistryOf(rows) /\ \A q \in Procs : Shown(q)' = Shown(q)
      BY <1>0, <2>1 DEF AcquireLock, Shown, TypeOK, disk
    <3> QED BY <3>1, Stutters
  <2>2. ASSUME NEW expected \in Schemes, OpenForWrite(p, expected)
        PROVE  [Registry!Next]_Registry!vars
    <3>1. pc[p] = "opening" /\ pc'[p] = "open" /\ rows' = rows
      BY <1>0, <2>2 DEF OpenForWrite, TypeOK, disk
    <3>2. \A q \in Procs \ {p} : Shown(q)' = Shown(q)
      BY <1>0, <2>2 DEF OpenForWrite, TypeOK, Shown
    <3>3. (SessionInv /\ pc[p] \in {"open", "closing"} => Shown(p) = RegistryOf(rows))'
      BY SessionShown, PTL
    <3>4. Registry!Read(p)
      BY <1>0, <3>1, <3>2, <3>3, Reads
    <3> QED BY <3>4
  <2> QED BY <1>3, <2>1, <2>2 DEF Open
<1>4. ASSUME NEW p \in Procs, Use(p) PROVE [Registry!Next]_Registry!vars
  \* New records stay in the session until it commits.
  <2>1. PICK rec \in Records : pc[p] = "open" /\ AppendRecord(p, rec)
    BY <1>0, <1>4, UseAppends
  <2>2. rows' = rows /\ pc' = pc /\ \A q \in Procs \ {p} : session'[q] = session[q]
    BY <1>0, <2>1 DEF AppendRecord, TypeOK, disk
  <2>3. \A q \in Procs \ {p} : Shown(q)' = Shown(q)
    BY <2>2 DEF Shown
  <2>4. (SessionInv /\ pc[p] \in {"open", "closing"} => Shown(p) = RegistryOf(rows))'
    BY SessionShown, PTL
  <2>5. Shown(p)' = Shown(p)
    BY <1>0, <2>1, <2>2, <2>4, SessionShown
  <2> QED BY <2>2, <2>3, <2>5, Stutters
<1>5. ASSUME NEW p \in Procs, Close(p) PROVE [Registry!Next]_Registry!vars
  <2>1. CASE CloseCommits(p)
    <3>1. pc[p] = "open" /\ WriteSegment(p) /\ pc' = [pc EXCEPT ![p] = "closing"]
      BY <2>1 DEF CloseCommits
    <3>2. /\ rows' = session[p].records /\ IsPrefix(rows, rows')
          /\ \A q \in Procs \ {p} : session'[q] = session[q]
      BY <1>0, <3>1, WriteSegmentEffect
    <3>3. pc'[p] = "closing" /\ \A q \in Procs \ {p} : Shown(q)' = Shown(q)
      BY <1>0, <3>1, <3>2 DEF TypeOK, Shown
    <3>4. (SessionInv /\ pc[p] \in {"open", "closing"} => Shown(p) = RegistryOf(rows))'
      BY SessionShown, PTL
    <3>5. Shown(p) = RegistryOf(rows) /\ Shown(p)' = RegistryOf(rows')
      BY <1>0, <3>1, <3>3, <3>4, SessionShown
    <3>6. /\ Ordered(rows') /\ ValidEntries(rows', session[p].bases)
          /\ rows \in Seq(Records) /\ rows' \in Seq(Records)
      BY <1>0, <3>1, <3>2 DEF OrderInv, LedgerInv, TypeOK, Sessions
    <3>7. Registry!Extends(RegistryOf(rows), RegistryOf(rows'))
      BY <3>2, <3>6, CommitExtends
    <3>8. Registry!Publish(p)
      BY <3>3, <3>5, <3>7, Publishes
    <3> QED BY <3>8
  <2>2. CASE Unlock(p)
    BY <1>0, <2>2, LetsGo DEF Unlock, disk
  <2> QED BY <1>5, <2>1, <2>2 DEF Close
<1>6. ASSUME NEW p \in Procs, Refuse(p) PROVE [Registry!Next]_Registry!vars
  <2>1. CASE CreateFails(p)
    \* The file that is unlinked has no record yet.
    <3>1. rows' = rows
      BY <1>0, <2>1 DEF CreateFails, SessionInv, Fresh
    <3> QED BY <1>0, <2>1, <3>1, LetsGo DEF CreateFails
  <2>2. CASE CreateRefused(p) \/ OpenRefused(p)
    BY <1>0, <2>2, LetsGo DEF CreateRefused, OpenRefused, disk
  <2> QED BY <1>6, <2>1, <2>2 DEF Refuse
<1>7. ASSUME NEW p \in Procs, Read(p) PROVE [Registry!Next]_Registry!vars
  <2>1. CASE ScanSegments(p)
    <3>1. RegistryOf(rows') = RegistryOf(rows) /\ \A q \in Procs : Shown(q)' = Shown(q)
      BY <1>0, <2>1 DEF ScanSegments, Shown, TypeOK, disk
    <3> QED BY <3>1, Stutters
  <2>2. CASE ScanRecords(p) /\ Valid(scan[p], rows)
    <3>1. /\ pc[p] = "scanning" /\ pc' = [pc EXCEPT ![p] = "reading"] /\ rows' = rows
          /\ session'[p].records = rows /\ session'[p].persisted = Len(rows)
          /\ \A q \in Procs \ {p} : session'[q] = session[q]
      BY <1>0, <2>2 DEF ScanRecords, TypeOK, disk
    <3>2. pc'[p] = "reading" /\ \A q \in Procs \ {p} : Shown(q)' = Shown(q)
      BY <1>0, <3>1 DEF TypeOK, Shown
    <3>3. SubSeq(rows, 1, Len(rows)) = rows
      BY <1>0, SubSeqFull DEF TypeOK
    <3>4. Shown(p)' = RegistryOf(rows)
      BY <3>1, <3>2, <3>3 DEF Shown
    <3>5. Registry!Read(p)
      BY <3>1, <3>2, <3>4, Reads
    <3> QED BY <3>5
  <2>3. CASE ScanRecords(p) /\ ~Valid(scan[p], rows)
    <3>1. RegistryOf(rows') = RegistryOf(rows) /\ \A q \in Procs : Shown(q)' = Shown(q)
      BY <1>0, <2>3 DEF ScanRecords, Shown, TypeOK, disk
    <3> QED BY <3>1, Stutters
  <2>4. CASE CloseReader(p)
    BY <1>0, <2>4, LetsGo DEF CloseReader, disk
  <2> QED BY <1>7, <2>1, <2>2, <2>3, <2>4 DEF Read
<1>8. ASSUME NEW p \in Procs, Crash(p) PROVE [Registry!Next]_Registry!vars
  BY <1>0, <1>8, LetsGo DEF Crash, disk
<1>9. ASSUME NEW p \in Procs, BreakLock(p) PROVE [Registry!Next]_Registry!vars
  <2>1. RegistryOf(rows') = RegistryOf(rows) /\ \A q \in Procs : Shown(q)' = Shown(q)
    BY <1>9 DEF BreakLock, Shown, disk
  <2> QED BY <2>1, Stutters
<1> QED BY <1>1, <1>2, <1>3, <1>4, <1>5, <1>6, <1>7, <1>8, <1>9 DEF Next

\* Whatever processes create, open, use, close and break, each committed
\* segment is one publication on top of the registry its session had read:
\* no session's ids are lost or issued twice, and a reader is shown the
\* registry as it was at one moment.
THEOREM LedgerImplementsRegistry == Spec => ImplementsRegistry
<1>1. Init => Registry!Init
  <2> SUFFICES ASSUME Init PROVE Registry!Init
    OBVIOUS
  <2>1. RegistryOf(rows) = [owners |-> {}, bindings |-> {}]
    <3>1. rows = <<>> /\ DOMAIN rows = {}
      BY DEF Init
    <3>2. {j \in DOMAIN rows : ~rows[j].alias} = {} /\ UNION {Newest(rows, rows[j].key) : j \in DOMAIN rows} = {}
      BY <3>1
    <3>3. /\ {<<rows[i].id, rows[i].key>> : i \in {}} = {}
          /\ {<<rows[i].key, rows[i].id>> : i \in {}} = {}
      OBVIOUS
    <3> QED BY <3>2, <3>3, Zenon DEF RegistryOf
  <2>2. \A q \in Procs : pc[q] \notin {"open", "closing", "reading"}
    BY DEF Init
  <2> QED BY <2>1, <2>2 DEF Registry!Init
<1>2. OrderInv /\ [Next]_vars => [Registry!Next]_Registry!vars
  BY NextRefines
<1> QED BY OrderAlways, <1>1, <1>2, PTL DEF Spec, ImplementsRegistry, Registry!Spec
=============================================================================
