-------------------------- MODULE MongoLeasesProofs --------------------------
(***************************************************************************)
(* Proofs about MongoLeases, for any stores, writers and fsck runs.        *)
(*                                                                         *)
(* The exclusion of writers rests on one assumption of the lease protocol: *)
(* a writer that is alive keeps its heartbeat fresh (no SlowWriters).      *)
(* LockInv is the inductive invariant behind it, DataInv the one behind    *)
(* the safety of the sweep.                                                *)
(***************************************************************************)
EXTENDS MongoLeases, TLAPS

\* A save that is about to attach its dependency has named it.
RefNamed == \A w \in Writers : pc[w] = "attaching" => local[w].ref \in Sids

TypeInv == TypeOK /\ RefNamed

(* A live writer has a fresh lease; a run past its first heartbeat owns    *)
(* the singleton; and once a run has found no fresh writer nobody writes.  *)
Leased(w) == pc[w] \in {"registered", "writing", "attaching", "saved"}
Settled(f) == pc[f] \in {"draining", "drained", "comparing", "granted",
                         "marking", "sweeping", "swept", "finished"}
Closed(f) == pc[f] \in {"drained", "comparing", "granted", "marking", "sweeping", "swept"}

WritersFresh == \A w \in Writers : Leased(w) => writerLease[w] = "fresh"
Singleton == \A f \in Fscks : Settled(f) => fsckLease.owner = f /\ fsckLease.beat # "null"
NoneWrites == \A f \in Fscks, w \in Writers : Closed(f) => ~Writing(w)

LockInv == WritersFresh /\ Singleton /\ NoneWrites

(* What a writer is about to refer to is there, and what a run is about to *)
(* keep includes everything referred to.                                   *)
FoundKept == \A w \in Writers : pc[w] = "attaching" => local[w].ref \in deps
MarkedAll == \A f \in Fscks : pc[f] = "sweeping" => rooted \subseteq local[f].marked

DataInv == ReferencesResolve /\ FoundKept /\ MarkedAll
-----------------------------------------------------------------------------
(* The variables have their types in every state.                          *)

USE DEF stores, leases, data

LEMMA TypeInit == Init => TypeInv
  BY LeasesAssumption
  DEF Init, TypeInv, RefNamed, TypeOK, Blank, Sids, Ops, WriterStates, FsckStates, Ended

LEMMA WriterTypes ==
  ASSUME TypeInv, NEW w \in Writers
  PROVE  /\ \A s \in Stores : RegisterWriter(w, s) => TypeInv'
         /\ Save(w) => TypeInv'
         /\ SaveFails(w) \/ Heartbeat(w) \/ WriterExpires(w) => TypeInv'
<1> USE LeasesAssumption DEF TypeInv, RefNamed, TypeOK, Ops, Sids, WriterStates, FsckStates,
                             Ended, Goto, Begin, End, Blank
<1>1. ASSUME NEW s \in Stores, RegisterWriter(w, s) PROVE TypeInv'
  BY <1>1 DEF RegisterWriter
<1>2. ASSUME WriterBlocked(w) PROVE TypeInv'
  BY <1>2 DEF WriterBlocked
<1>3. ASSUME WriterAdmitted(w) PROVE TypeInv'
  BY <1>3 DEF WriterAdmitted, Observe
<1>4. ASSUME WriteDependency(w) PROVE TypeInv'
  BY <1>4 DEF WriteDependency
<1>5. ASSUME WriteMain(w) PROVE TypeInv'
  BY <1>5 DEF WriteMain
<1>6. ASSUME ReleaseWriter(w) PROVE TypeInv'
  BY <1>6 DEF ReleaseWriter
<1>7. ASSUME Heartbeat(w) \/ WriterExpires(w) PROVE TypeInv'
  BY <1>7 DEF Heartbeat, WriterExpires
<1> HIDE LeasesAssumption DEF TypeInv, RefNamed, TypeOK, Ops, Sids, WriterStates, FsckStates,
                              Ended, Goto, Begin, End, Blank
<1> QED BY <1>1, <1>2, <1>3, <1>4, <1>5, <1>6, <1>7 DEF Save, SaveReturns, SaveFails

LEMMA FsckTypes ==
  ASSUME TypeInv, NEW f \in Fscks
  PROVE  /\ \A s \in Stores : InstallFsck(f, s) \/ FsckDuplicate(f, s) \/ FsckRefused(f, s) => TypeInv'
         /\ AcquireFsck(f) => TypeInv'
         /\ RunFsck(f) \/ FsckFails(f) => TypeInv'
<1> USE LeasesAssumption DEF TypeInv, RefNamed, TypeOK, Ops, Sids, WriterStates, FsckStates,
                             Ended, Goto, Begin, End, Blank
<1>1. ASSUME NEW s \in Stores, InstallFsck(f, s) PROVE TypeInv'
  BY <1>1 DEF InstallFsck
<1>2. ASSUME NEW s \in Stores, FsckDuplicate(f, s) PROVE TypeInv'
  BY <1>2 DEF FsckDuplicate
<1>3. ASSUME NEW s \in Stores, FsckRefused(f, s) PROVE TypeInv'
  BY <1>3 DEF FsckRefused
<1>4. ASSUME ReplaceFsck(f) PROVE TypeInv'
  BY <1>4 DEF ReplaceFsck
<1>5. ASSUME ReplaceRefused(f) PROVE TypeInv'
  BY <1>5 DEF ReplaceRefused
<1>6. ASSUME FirstHeartbeat(f) \/ DrainAgain(f) \/ FsckHeartbeat(f) PROVE TypeInv'
  <2>1. CASE FirstHeartbeat(f)
    BY <2>1 DEF FirstHeartbeat
  <2>2. CASE DrainAgain(f)
    BY <2>2 DEF DrainAgain
  <2>3. CASE FsckHeartbeat(f)
    BY <2>3 DEF FsckHeartbeat
  <2> QED BY <1>6, <2>1, <2>2, <2>3
<1>7. ASSUME NoFreshWriters(f) PROVE TypeInv'
  BY <1>7 DEF NoFreshWriters
<1>8. ASSUME QueryAgain(f) PROVE TypeInv'
  BY <1>8 DEF QueryAgain, FreshWriters
<1>9. ASSUME GrantFsck(f) PROVE TypeInv'
  BY <1>9 DEF GrantFsck
<1>10. ASSUME BumpGeneration(f) PROVE TypeInv'
  BY <1>10 DEF BumpGeneration
<1>11. ASSUME Mark(f) PROVE TypeInv'
  BY <1>11 DEF Mark
<1>12. ASSUME Sweep(f) PROVE TypeInv'
  BY <1>12 DEF Sweep
<1>13. ASSUME ForgetSwept(f) PROVE TypeInv'
  BY <1>13 DEF ForgetSwept
<1>14. ASSUME ReleaseFsck(f) PROVE TypeInv'
  BY <1>14 DEF ReleaseFsck, FsckLeaseReleased
<1> HIDE LeasesAssumption DEF TypeInv, RefNamed, TypeOK, Ops, Sids, WriterStates, FsckStates,
                              Ended, Goto, Begin, End, Blank
<1> QED
  BY <1>1, <1>2, <1>3, <1>4, <1>5, <1>6, <1>7, <1>8, <1>9, <1>10, <1>11, <1>12, <1>13, <1>14
  DEF AcquireFsck, RunFsck, StaleWritersRefuse, LeaseLost, FsckReturns, FsckFails

LEMMA WorldTypes ==
  ASSUME TypeInv,
         (\E s \in Stores : StoreDies(s) \/ OpenStore(s) \/ Fetch(s)) \/ FsckExpires \/ ClearStaleLock
  PROVE  TypeInv'
<1> USE LeasesAssumption DEF TypeInv, RefNamed, TypeOK, Ops, Sids, WriterStates, FsckStates, Ended, Blank
<1>1. ASSUME NEW s \in Stores, StoreDies(s) PROVE TypeInv'
  BY <1>1 DEF StoreDies
<1>2. ASSUME NEW s \in Stores, OpenStore(s) \/ Fetch(s) PROVE TypeInv'
  BY <1>2 DEF OpenStore, Fetch
<1>3. ASSUME FsckExpires \/ ClearStaleLock PROVE TypeInv'
  BY <1>3 DEF FsckExpires, ClearStaleLock
<1> QED BY <1>1, <1>2, <1>3

LEMMA TypeStep == TypeInv /\ [Next]_vars => TypeInv'
<1>1. ASSUME TypeInv, Next PROVE TypeInv'
  BY <1>1, WriterTypes, FsckTypes, WorldTypes DEF Next
<1>2. ASSUME TypeInv, UNCHANGED vars PROVE TypeInv'
  BY <1>2 DEF vars, TypeInv, RefNamed, TypeOK
<1> QED BY <1>1, <1>2

(* Every variable of the lease protocol keeps its type, whatever the pace  *)
(* of the writers.                                                         *)
THEOREM LeaseTypes == Spec => []TypeOK
<1>1. TypeInv => TypeOK
  BY DEF TypeInv
<1> QED BY TypeInit, TypeStep, <1>1, PTL DEF Spec
-----------------------------------------------------------------------------
(* Mutual exclusion.                                                       *)

LEMMA LockInit == Init => LockInv
  BY LeasesAssumption
  DEF Init, LockInv, WritersFresh, Singleton, NoneWrites, Leased, Settled, Closed, Writing, Ops

LEMMA WriterLocks ==
  ASSUME TypeInv, LockInv, NEW w \in Writers, SlowWriters = {}
  PROVE  /\ \A s \in Stores : RegisterWriter(w, s) => LockInv'
         /\ Save(w) => LockInv'
         /\ SaveFails(w) \/ Heartbeat(w) \/ WriterExpires(w) => LockInv'
<1> USE LeasesAssumption DEF TypeInv, TypeOK, Ops, LockInv, WritersFresh, Singleton, NoneWrites,
                             Leased, Settled, Closed, Writing, Goto, Begin, End
<1>1. ASSUME NEW s \in Stores, RegisterWriter(w, s) PROVE LockInv'
  BY <1>1 DEF RegisterWriter
<1>2. ASSUME WriterBlocked(w) PROVE LockInv'
  BY <1>2 DEF WriterBlocked
<1>3. ASSUME WriterAdmitted(w) PROVE LockInv'
  BY <1>3 DEF WriterAdmitted, FsckLocked
<1>4. ASSUME WriteDependency(w) PROVE LockInv'
  BY <1>4 DEF WriteDependency
<1>5. ASSUME WriteMain(w) PROVE LockInv'
  BY <1>5 DEF WriteMain
<1>6. ASSUME ReleaseWriter(w) PROVE LockInv'
  BY <1>6 DEF ReleaseWriter
<1>7. ASSUME Heartbeat(w) PROVE LockInv'
  BY <1>7 DEF Heartbeat
<1>8. ASSUME WriterExpires(w) PROVE LockInv'
  BY <1>8 DEF WriterExpires, Dead
<1> HIDE LeasesAssumption DEF TypeInv, TypeOK, Ops, LockInv, WritersFresh, Singleton, NoneWrites,
                              Leased, Settled, Closed, Writing, Goto, Begin, End
<1> QED BY <1>1, <1>2, <1>3, <1>4, <1>5, <1>6, <1>7, <1>8 DEF Save, SaveReturns, SaveFails

LEMMA FsckLocks ==
  ASSUME TypeInv, LockInv, NEW f \in Fscks
  PROVE  /\ \A s \in Stores : InstallFsck(f, s) \/ FsckDuplicate(f, s) \/ FsckRefused(f, s) => LockInv'
         /\ AcquireFsck(f) => LockInv'
         /\ RunFsck(f) \/ FsckFails(f) => LockInv'
<1> USE LeasesAssumption DEF TypeInv, TypeOK, Ops, LockInv, WritersFresh, Singleton, NoneWrites,
                             Leased, Settled, Closed, Writing, Goto, Begin, End
<1>1. ASSUME NEW s \in Stores, InstallFsck(f, s) PROVE LockInv'
  BY <1>1 DEF InstallFsck, FsckLocked
<1>2. ASSUME NEW s \in Stores, FsckDuplicate(f, s) \/ FsckRefused(f, s) PROVE LockInv'
  BY <1>2 DEF FsckDuplicate, FsckRefused
<1>3. ASSUME ReplaceFsck(f) PROVE LockInv'
  \* The run displaced is dead, or has yet to send its first heartbeat.
  <2>1. \A g \in Fscks : ~Settled(g)
    BY <1>3 DEF ReplaceFsck, Replaceable, FsckLocked
  <2> QED BY <1>3, <2>1 DEF ReplaceFsck
<1>4. ASSUME ReplaceRefused(f) PROVE LockInv'
  BY <1>4 DEF ReplaceRefused
<1>5. ASSUME FirstHeartbeat(f) \/ DrainAgain(f) \/ FsckHeartbeat(f) PROVE LockInv'
  BY <1>5 DEF FirstHeartbeat, DrainAgain, FsckHeartbeat, Displaced
<1>6. ASSUME NoFreshWriters(f) PROVE LockInv'
  BY <1>6 DEF NoFreshWriters, FreshWriters
<1>7. ASSUME QueryAgain(f) \/ GrantFsck(f) \/ BumpGeneration(f) \/ Mark(f) \/ Sweep(f) \/ ForgetSwept(f)
      PROVE LockInv'
  BY <1>7 DEF QueryAgain, GrantFsck, BumpGeneration, Mark, Sweep, ForgetSwept
<1>8. ASSUME ReleaseFsck(f) PROVE LockInv'
  BY <1>8 DEF ReleaseFsck, FsckLeaseReleased, Displaced
<1> HIDE LeasesAssumption DEF TypeInv, TypeOK, Ops, LockInv, WritersFresh, Singleton, NoneWrites,
                              Leased, Settled, Closed, Writing, Goto, Begin, End
<1> QED
  BY <1>1, <1>2, <1>3, <1>4, <1>5, <1>6, <1>7, <1>8
  DEF AcquireFsck, RunFsck, StaleWritersRefuse, LeaseLost, FsckReturns, FsckFails

LEMMA WorldLocks ==
  ASSUME TypeInv, LockInv,
         (\E s \in Stores : StoreDies(s) \/ OpenStore(s) \/ Fetch(s)) \/ FsckExpires \/ ClearStaleLock
  PROVE  LockInv'
<1> USE LeasesAssumption DEF TypeInv, TypeOK, Ops, LockInv, WritersFresh, Singleton, NoneWrites,
                             Leased, Settled, Closed, Writing
<1>1. ASSUME NEW s \in Stores, StoreDies(s) PROVE LockInv'
  BY <1>1 DEF StoreDies
<1>2. ASSUME NEW s \in Stores, OpenStore(s) \/ Fetch(s) PROVE LockInv'
  BY <1>2 DEF OpenStore, Fetch
<1>3. ASSUME FsckExpires PROVE LockInv'
  BY <1>3 DEF FsckExpires
<1>4. ASSUME ClearStaleLock PROVE LockInv'
  <2>1. \A g \in Fscks : ~Settled(g)
    BY <1>4 DEF ClearStaleLock, Replaceable, FsckLocked, Dead
  <2> QED BY <1>4, <2>1 DEF ClearStaleLock
<1> QED BY <1>1, <1>2, <1>3, <1>4

LEMMA LockStep ==
  ASSUME TypeInv, LockInv, SlowWriters = {}, [Next]_vars
  PROVE  LockInv'
<1>1. CASE Next
  BY <1>1, WriterLocks, FsckLocks, WorldLocks DEF Next
<1>2. CASE UNCHANGED vars
  BY <1>2 DEF vars, LockInv, WritersFresh, Singleton, NoneWrites, Leased, Settled, Closed, Writing
<1> QED BY <1>1, <1>2

LEMMA LockImplies ==
  ASSUME TypeInv, LockInv
  PROVE  FsckExcludesWriters /\ OneFsck
<1>1. FsckExcludesWriters
  BY DEF LockInv, NoneWrites, FsckExcludesWriters, Exclusive, Closed
<1>2. OneFsck
  BY DEF LockInv, Singleton, OneFsck, Exclusive, Settled
<1> QED BY <1>1, <1>2

LEMMA LockAlways == SlowWriters = {} => (Spec => [](TypeInv /\ LockInv))
<1> SUFFICES ASSUME SlowWriters = {} PROVE Spec => [](TypeInv /\ LockInv)
  OBVIOUS
<1>1. Init => TypeInv /\ LockInv
  BY TypeInit, LockInit
<1>2. TypeInv /\ LockInv /\ [Next]_vars => TypeInv' /\ LockInv'
  BY TypeStep, LockStep
<1> QED BY <1>1, <1>2, PTL DEF Spec

(* When live writers keep their heartbeats fresh, an fsck run that has     *)
(* been granted its lease excludes every writer until its sweep is over.   *)
THEOREM FsckIsExclusive == SlowWriters = {} => (Spec => []FsckExcludesWriters)
<1>1. TypeInv /\ LockInv => FsckExcludesWriters
  BY LockImplies
<1> QED BY LockAlways, <1>1, PTL

(* Under the same assumption two runs never work at once, although the     *)
(* second may have taken the singleton from the first.                     *)
THEOREM FsckIsSingle == SlowWriters = {} => (Spec => []OneFsck)
<1>1. TypeInv /\ LockInv => OneFsck
  BY LockImplies
<1> QED BY LockAlways, <1>1, PTL
-----------------------------------------------------------------------------
(* The sweep.                                                              *)

LEMMA DataInit == Init => DataInv
  BY LeasesAssumption DEF Init, DataInv, ReferencesResolve, FoundKept, MarkedAll, Ops

LEMMA WriterKeeps ==
  ASSUME TypeInv, LockInv, DataInv, NEW w \in Writers
  PROVE  /\ \A s \in Stores : RegisterWriter(w, s) => DataInv'
         /\ Save(w) => DataInv'
         /\ SaveFails(w) \/ Heartbeat(w) \/ WriterExpires(w) => DataInv'
<1> USE LeasesAssumption DEF TypeInv, TypeOK, Ops, DataInv, ReferencesResolve, FoundKept, MarkedAll,
                             Goto, Begin, End
<1>1. ASSUME NEW s \in Stores, RegisterWriter(w, s) PROVE DataInv'
  BY <1>1 DEF RegisterWriter
<1>2. ASSUME WriterBlocked(w) PROVE DataInv'
  BY <1>2 DEF WriterBlocked
<1>3. ASSUME WriterAdmitted(w) PROVE DataInv'
  BY <1>3 DEF WriterAdmitted
<1>4. ASSUME WriteDependency(w) PROVE DataInv'
  BY <1>4 DEF WriteDependency
<1>5. ASSUME WriteMain(w) PROVE DataInv'
  \* No run is sweeping while a writer attaches.
  <2>1. \A f \in Fscks : pc[f] # "sweeping"
    BY <1>5 DEF WriteMain, LockInv, NoneWrites, Closed, Writing
  <2> QED BY <1>5, <2>1 DEF WriteMain
<1>6. ASSUME ReleaseWriter(w) PROVE DataInv'
  BY <1>6 DEF ReleaseWriter
<1>7. ASSUME Heartbeat(w) \/ WriterExpires(w) PROVE DataInv'
  BY <1>7 DEF Heartbeat, WriterExpires
<1> HIDE LeasesAssumption DEF TypeInv, TypeOK, Ops, DataInv, ReferencesResolve, FoundKept, MarkedAll,
                              Goto, Begin, End
<1> QED BY <1>1, <1>2, <1>3, <1>4, <1>5, <1>6, <1>7 DEF Save, SaveReturns, SaveFails

LEMMA FsckKeeps ==
  ASSUME TypeInv, LockInv, DataInv, NEW f \in Fscks
  PROVE  /\ \A s \in Stores : InstallFsck(f, s) \/ FsckDuplicate(f, s) \/ FsckRefused(f, s) => DataInv'
         /\ AcquireFsck(f) => DataInv'
         /\ RunFsck(f) \/ FsckFails(f) => DataInv'
<1> USE LeasesAssumption DEF TypeInv, TypeOK, Ops, DataInv, ReferencesResolve, FoundKept, MarkedAll,
                             Goto, Begin, End
<1>1. ASSUME NEW s \in Stores, InstallFsck(f, s) \/ FsckDuplicate(f, s) \/ FsckRefused(f, s) PROVE DataInv'
  BY <1>1 DEF InstallFsck, FsckDuplicate, FsckRefused
<1>2. ASSUME ReplaceFsck(f) \/ ReplaceRefused(f) PROVE DataInv'
  BY <1>2 DEF ReplaceFsck, ReplaceRefused
<1>3. ASSUME FirstHeartbeat(f) \/ DrainAgain(f) \/ FsckHeartbeat(f) PROVE DataInv'
  BY <1>3 DEF FirstHeartbeat, DrainAgain, FsckHeartbeat
<1>4. ASSUME NoFreshWriters(f) \/ QueryAgain(f) \/ GrantFsck(f) PROVE DataInv'
  BY <1>4 DEF NoFreshWriters, QueryAgain, GrantFsck
<1>5. ASSUME BumpGeneration(f) PROVE DataInv'
  BY <1>5 DEF BumpGeneration
<1>6. ASSUME Mark(f) PROVE DataInv'
  BY <1>6 DEF Mark
<1>7. ASSUME Sweep(f) PROVE DataInv'
  \* Nobody is attaching, no other run is sweeping, and the marks are complete.
  <2>1. \A w \in Writers : pc[w] # "attaching"
    BY <1>7 DEF Sweep, LockInv, NoneWrites, Closed, Writing
  <2>2. \A g \in Fscks \ {f} : pc[g] # "sweeping"
    BY <1>7 DEF Sweep, LockInv, Singleton, Settled
  <2> QED BY <1>7, <2>1, <2>2 DEF Sweep
<1>8. ASSUME ForgetSwept(f) PROVE DataInv'
  BY <1>8 DEF ForgetSwept
<1>9. ASSUME ReleaseFsck(f) PROVE DataInv'
  BY <1>9 DEF ReleaseFsck
<1> HIDE LeasesAssumption DEF TypeInv, TypeOK, Ops, DataInv, ReferencesResolve, FoundKept, MarkedAll,
                              Goto, Begin, End
<1> QED
  BY <1>1, <1>2, <1>3, <1>4, <1>5, <1>6, <1>7, <1>8, <1>9
  DEF AcquireFsck, RunFsck, StaleWritersRefuse, LeaseLost, FsckReturns, FsckFails

LEMMA WorldKeeps ==
  ASSUME TypeInv, DataInv,
         (\E s \in Stores : StoreDies(s) \/ OpenStore(s) \/ Fetch(s)) \/ FsckExpires \/ ClearStaleLock
  PROVE  DataInv'
<1> USE LeasesAssumption DEF TypeInv, TypeOK, Ops, DataInv, ReferencesResolve, FoundKept, MarkedAll
<1>1. ASSUME NEW s \in Stores, StoreDies(s) PROVE DataInv'
  BY <1>1 DEF StoreDies
<1>2. ASSUME NEW s \in Stores, OpenStore(s) \/ Fetch(s) PROVE DataInv'
  BY <1>2 DEF OpenStore, Fetch
<1>3. ASSUME FsckExpires \/ ClearStaleLock PROVE DataInv'
  BY <1>3 DEF FsckExpires, ClearStaleLock
<1> QED BY <1>1, <1>2, <1>3

LEMMA DataStep ==
  ASSUME TypeInv, LockInv, DataInv, [Next]_vars
  PROVE  DataInv'
<1>1. CASE Next
  BY <1>1, WriterKeeps, FsckKeeps, WorldKeeps DEF Next
<1>2. CASE UNCHANGED vars
  BY <1>2 DEF vars, DataInv, ReferencesResolve, FoundKept, MarkedAll
<1> QED BY <1>1, <1>2

(* When live writers keep their heartbeats fresh, no sweep deletes what a  *)
(* main document refers to, nor what a save in progress has found and will *)
(* refer to.                                                               *)
THEOREM SweepsAreSafe == SlowWriters = {} => (Spec => []ReferencesResolve)
<1> SUFFICES ASSUME SlowWriters = {} PROVE Spec => []ReferencesResolve
  OBVIOUS
<1>1. TypeInv /\ LockInv /\ DataInv /\ [Next]_vars => DataInv'
  BY DataStep
<1>2. DataInv => ReferencesResolve
  BY DEF DataInv
<1> QED BY LockAlways, DataInit, <1>1, <1>2, PTL DEF Spec
-----------------------------------------------------------------------------
(* Leases and their owners.  An operation runs in an open store from its   *)
(* first step to its last, and a lease document names one that does, or    *)
(* one that has died.                                                      *)

Idle(o) == pc[o] \in {"new", "ended", "dead"}
Holding(f) == Settled(f) \/ pc[f] \in {"installed", "dead"}

Placed == \A o \in Ops : IF Idle(o) THEN at[o] = None ELSE at[o] \in open
WriterOwned == \A w \in Writers : writerLease[w] # "absent" => Leased(w) \/ pc[w] = "dead"
FsckOwned == \A f \in Fscks : fsckLease.owner = f => Holding(f)

OwnerInv == Placed /\ WriterOwned /\ FsckOwned

LEMMA OwnerInit == Init => OwnerInv
  BY LeasesAssumption DEF Init, OwnerInv, Placed, WriterOwned, FsckOwned, Idle, Ops

LEMMA WriterOwners ==
  ASSUME TypeInv, OwnerInv, NEW w \in Writers
  PROVE  /\ \A s \in Stores : RegisterWriter(w, s) => OwnerInv'
         /\ Save(w) => OwnerInv'
         /\ SaveFails(w) \/ Heartbeat(w) \/ WriterExpires(w) => OwnerInv'
<1> USE LeasesAssumption DEF TypeInv, TypeOK, Ops, OwnerInv, Placed, WriterOwned, FsckOwned,
                             Idle, Holding, Leased, Settled, Goto, Begin, End
<1>1. ASSUME NEW s \in Stores, RegisterWriter(w, s) PROVE OwnerInv'
  BY <1>1 DEF RegisterWriter
<1>2. ASSUME WriterBlocked(w) PROVE OwnerInv'
  BY <1>2 DEF WriterBlocked
<1>3. ASSUME WriterAdmitted(w) PROVE OwnerInv'
  BY <1>3 DEF WriterAdmitted
<1>4. ASSUME WriteDependency(w) \/ WriteMain(w) PROVE OwnerInv'
  BY <1>4 DEF WriteDependency, WriteMain
<1>5. ASSUME ReleaseWriter(w) PROVE OwnerInv'
  BY <1>5 DEF ReleaseWriter
<1>6. ASSUME Heartbeat(w) \/ WriterExpires(w) PROVE OwnerInv'
  BY <1>6 DEF Heartbeat, WriterExpires, Writing
<1> HIDE LeasesAssumption DEF TypeInv, TypeOK, Ops, OwnerInv, Placed, WriterOwned, FsckOwned,
                              Idle, Holding, Leased, Settled, Goto, Begin, End
<1> QED BY <1>1, <1>2, <1>3, <1>4, <1>5, <1>6 DEF Save, SaveReturns, SaveFails

LEMMA FsckOwners ==
  ASSUME TypeInv, OwnerInv, NEW f \in Fscks
  PROVE  /\ \A s \in Stores : InstallFsck(f, s) \/ FsckDuplicate(f, s) \/ FsckRefused(f, s) => OwnerInv'
         /\ AcquireFsck(f) => OwnerInv'
         /\ RunFsck(f) \/ FsckFails(f) => OwnerInv'
<1> USE LeasesAssumption DEF TypeInv, TypeOK, Ops, OwnerInv, Placed, WriterOwned, FsckOwned,
                             Idle, Holding, Leased, Settled, Goto, Begin, End
<1>1. ASSUME NEW s \in Stores, InstallFsck(f, s) PROVE OwnerInv'
  BY <1>1 DEF InstallFsck
<1>2. ASSUME NEW s \in Stores, FsckDuplicate(f, s) \/ FsckRefused(f, s) PROVE OwnerInv'
  \* A run that has not begun owns no lease.
  <2>1. CASE FsckDuplicate(f, s)
    BY <2>1 DEF FsckDuplicate
  <2>2. CASE FsckRefused(f, s)
    <3>1. fsckLease.owner # f
      BY <2>2 DEF FsckRefused
    <3> QED BY <2>2, <3>1 DEF FsckRefused
  <2> QED BY <1>2, <2>1, <2>2
<1>3. ASSUME ReplaceFsck(f) \/ ReplaceRefused(f) PROVE OwnerInv'
  BY <1>3 DEF ReplaceFsck, ReplaceRefused
<1>4. ASSUME FirstHeartbeat(f) \/ DrainAgain(f) \/ FsckHeartbeat(f) PROVE OwnerInv'
  BY <1>4 DEF FirstHeartbeat, DrainAgain, FsckHeartbeat
<1>5. ASSUME NoFreshWriters(f) \/ QueryAgain(f) \/ GrantFsck(f) PROVE OwnerInv'
  BY <1>5 DEF NoFreshWriters, QueryAgain, GrantFsck
<1>6. ASSUME BumpGeneration(f) \/ Mark(f) \/ Sweep(f) \/ ForgetSwept(f) PROVE OwnerInv'
  BY <1>6 DEF BumpGeneration, Mark, Sweep, ForgetSwept
<1>7. ASSUME ReleaseFsck(f) PROVE OwnerInv'
  BY <1>7 DEF ReleaseFsck, FsckLeaseReleased, Displaced
<1> HIDE LeasesAssumption DEF TypeInv, TypeOK, Ops, OwnerInv, Placed, WriterOwned, FsckOwned,
                              Idle, Holding, Leased, Settled, Goto, Begin, End
<1> QED
  BY <1>1, <1>2, <1>3, <1>4, <1>5, <1>6, <1>7
  DEF AcquireFsck, RunFsck, StaleWritersRefuse, LeaseLost, FsckReturns, FsckFails

LEMMA WorldOwners ==
  ASSUME TypeInv, OwnerInv,
         (\E s \in Stores : StoreDies(s) \/ OpenStore(s) \/ Fetch(s)) \/ FsckExpires \/ ClearStaleLock
  PROVE  OwnerInv'
<1> USE LeasesAssumption DEF TypeInv, TypeOK, Ops, OwnerInv, Placed, WriterOwned, FsckOwned,
                             Idle, Holding, Leased, Settled
<1>1. ASSUME NEW s \in Stores, StoreDies(s) PROVE OwnerInv'
  BY <1>1 DEF StoreDies
<1>2. ASSUME NEW s \in Stores, OpenStore(s) \/ Fetch(s) PROVE OwnerInv'
  BY <1>2 DEF OpenStore, Fetch
<1>3. ASSUME FsckExpires \/ ClearStaleLock PROVE OwnerInv'
  BY <1>3 DEF FsckExpires, ClearStaleLock
<1> QED BY <1>1, <1>2, <1>3

LEMMA OwnerStep == TypeInv /\ OwnerInv /\ [Next]_vars => OwnerInv'
<1>1. ASSUME TypeInv, OwnerInv, Next PROVE OwnerInv'
  BY <1>1, WriterOwners, FsckOwners, WorldOwners DEF Next
<1>2. ASSUME OwnerInv, UNCHANGED vars PROVE OwnerInv'
  BY <1>2 DEF vars, OwnerInv, Placed, WriterOwned, FsckOwned, Idle, Holding, Leased, Settled
<1> QED BY <1>1, <1>2

LEMMA OwnersAlways == Spec => [](TypeInv /\ OwnerInv)
  BY TypeInit, TypeStep, OwnerInit, OwnerStep, PTL DEF Spec

(* No lease document is leaked, whatever is displaced, refused, raised or  *)
(* killed and whatever the pace of the writers: it belongs to an operation *)
(* that runs or whose process died.                                        *)
THEOREM LeasesAreOwned == Spec => []LeasesOwned
<1>1. ASSUME TypeInv, OwnerInv PROVE LeasesOwned
  <2> USE LeasesAssumption, <1>1 DEF TypeInv, TypeOK, Ops, OwnerInv, Placed, Idle, Running, Dead
  <2>1. ASSUME NEW w \in Writers, writerLease[w] # "absent" PROVE Running(w) \/ Dead(w)
    BY <2>1 DEF WriterOwned, Leased
  <2>2. ASSUME FsckLocked PROVE Running(fsckLease.owner) \/ Dead(fsckLease.owner)
    BY <2>2 DEF FsckLocked, FsckOwned, Holding, Settled
  <2> QED BY <2>1, <2>2 DEF LeasesOwned
<1>2. TypeInv /\ OwnerInv => LeasesOwned
  BY <1>1
<1> QED BY OwnersAlways, <1>2, PTL
-----------------------------------------------------------------------------
(* Caches.  A swept document left the database after the generation was    *)
(* raised, so a store that may still cache it knows an older generation.   *)
(* A store opened in the middle of an fsck knows the new one too early;    *)
(* the others are not opened then.                                         *)

Prompt == Stores \ Latecomers

KnownPast == \A s \in Stores : known[s] <= generation
BumpedPast == \A o \in Ops : local[o].gen <= generation
ClosedEmpty == \A s \in Stores : s \notin open => cache[s] = {}
SweepAhead == \A f \in Fscks, s \in Prompt : pc[f] \in {"marking", "sweeping"} => known[s] < generation
KnownClean == \A s \in Prompt : known[s] = generation => cache[s] \subseteq deps
WritersKnow == \A w \in Writers : Writing(w) /\ at[w] \in Prompt => known[at[w]] = generation

CacheInv == KnownPast /\ BumpedPast /\ ClosedEmpty /\ SweepAhead /\ KnownClean /\ WritersKnow

LEMMA CacheInit == Init => CacheInv
  BY LeasesAssumption
  DEF Init, CacheInv, KnownPast, BumpedPast, ClosedEmpty, SweepAhead, KnownClean, WritersKnow,
      Prompt, Ops, Blank, Writing

LEMMA WriterCaches ==
  ASSUME TypeInv, LockInv, OwnerInv, CacheInv, NEW w \in Writers
  PROVE  /\ \A s \in Stores : RegisterWriter(w, s) => CacheInv'
         /\ Save(w) => CacheInv'
         /\ SaveFails(w) \/ Heartbeat(w) \/ WriterExpires(w) => CacheInv'
<1> USE LeasesAssumption DEF TypeInv, TypeOK, Ops, CacheInv, KnownPast, BumpedPast, ClosedEmpty,
                             SweepAhead, KnownClean, WritersKnow, Prompt, Writing, Goto, Begin, End, Blank
<1>1. ASSUME NEW s \in Stores, RegisterWriter(w, s) PROVE CacheInv'
  BY <1>1 DEF RegisterWriter
<1>2. ASSUME WriterBlocked(w) PROVE CacheInv'
  BY <1>2 DEF WriterBlocked
<1>3. ASSUME WriterAdmitted(w) PROVE CacheInv'
  \* No run is between its bump and its sweep when a writer finds no lease.
  <2>1. \A f \in Fscks : pc[f] \notin {"marking", "sweeping"}
    BY <1>3 DEF WriterAdmitted, FsckLocked, LockInv, Singleton, Settled
  <2>2. at[w] \in open
    BY <1>3 DEF WriterAdmitted, OwnerInv, Placed, Idle
  <2>3. KnownPast' /\ BumpedPast'
    BY <1>3, <2>2 DEF WriterAdmitted, Observe
  <2>4. ClosedEmpty' /\ KnownClean'
    BY <1>3, <2>2 DEF WriterAdmitted, Observe
  <2>5. SweepAhead'
    BY <1>3, <2>1 DEF WriterAdmitted
  <2>6. WritersKnow'
    BY <1>3, <2>2 DEF WriterAdmitted, Observe
  <2> QED BY <2>3, <2>4, <2>5, <2>6
<1>4. ASSUME WriteDependency(w) PROVE CacheInv'
  BY <1>4 DEF WriteDependency
<1>5. ASSUME WriteMain(w) PROVE CacheInv'
  BY <1>5 DEF WriteMain
<1>6. ASSUME ReleaseWriter(w) PROVE CacheInv'
  BY <1>6 DEF ReleaseWriter
<1>7. ASSUME Heartbeat(w) \/ WriterExpires(w) PROVE CacheInv'
  BY <1>7 DEF Heartbeat, WriterExpires
<1> HIDE LeasesAssumption DEF TypeInv, TypeOK, Ops, CacheInv, KnownPast, BumpedPast, ClosedEmpty,
                             SweepAhead, KnownClean, WritersKnow, Prompt, Writing, Goto, Begin, End, Blank
<1> QED BY <1>1, <1>2, <1>3, <1>4, <1>5, <1>6, <1>7 DEF Save, SaveReturns, SaveFails

LEMMA FsckCaches ==
  ASSUME TypeInv, LockInv, OwnerInv, CacheInv, NEW f \in Fscks
  PROVE  /\ \A s \in Stores : InstallFsck(f, s) \/ FsckDuplicate(f, s) \/ FsckRefused(f, s) => CacheInv'
         /\ AcquireFsck(f) => CacheInv'
         /\ RunFsck(f) \/ FsckFails(f) => CacheInv'
<1> USE LeasesAssumption DEF TypeInv, TypeOK, Ops, CacheInv, KnownPast, BumpedPast, ClosedEmpty,
                             SweepAhead, KnownClean, WritersKnow, Prompt, Writing, Goto, Begin, End, Blank
<1>1. ASSUME NEW s \in Stores, InstallFsck(f, s) PROVE CacheInv'
  BY <1>1 DEF InstallFsck
<1>2. ASSUME NEW s \in Stores, FsckDuplicate(f, s) \/ FsckRefused(f, s) PROVE CacheInv'
  <2>1. CASE FsckDuplicate(f, s)
    BY <2>1 DEF FsckDuplicate
  <2>2. CASE FsckRefused(f, s)
    BY <2>2 DEF FsckRefused
  <2> QED BY <1>2, <2>1, <2>2
<1>3. ASSUME ReplaceFsck(f) \/ ReplaceRefused(f) PROVE CacheInv'
  <2>1. CASE ReplaceFsck(f)
    BY <2>1 DEF ReplaceFsck
  <2>2. CASE ReplaceRefused(f)
    BY <2>2 DEF ReplaceRefused
  <2> QED BY <1>3, <2>1, <2>2
<1>4. ASSUME FirstHeartbeat(f) \/ DrainAgain(f) \/ FsckHeartbeat(f) PROVE CacheInv'
  <2>1. CASE FirstHeartbeat(f)
    BY <2>1 DEF FirstHeartbeat
  <2>2. CASE DrainAgain(f)
    BY <2>2 DEF DrainAgain
  <2>3. CASE FsckHeartbeat(f)
    BY <2>3 DEF FsckHeartbeat
  <2> QED BY <1>4, <2>1, <2>2, <2>3
<1>5. ASSUME NoFreshWriters(f) \/ QueryAgain(f) \/ GrantFsck(f) PROVE CacheInv'
  <2>1. CASE NoFreshWriters(f)
    BY <2>1 DEF NoFreshWriters
  <2>2. CASE QueryAgain(f)
    BY <2>2 DEF QueryAgain
  <2>3. CASE GrantFsck(f)
    BY <2>3 DEF GrantFsck
  <2> QED BY <1>5, <2>1, <2>2, <2>3
<1>6. ASSUME BumpGeneration(f) PROVE CacheInv'
  \* Nobody writes under the granted lease, and every store now knows less.
  <2>1. \A w \in Writers : ~Writing(w)
    BY <1>6 DEF BumpGeneration, LockInv, NoneWrites, Closed
  <2>2. \A s \in Stores : known[s] < generation + 1
    OBVIOUS
  <2>3. generation' = generation + 1 /\ UNCHANGED <<open, known, cache, deps>>
    BY <1>6 DEF BumpGeneration
  <2>4. WritersKnow'
    BY <1>6, <2>1 DEF BumpGeneration
  <2>5. BumpedPast'
    BY <1>6 DEF BumpGeneration
  <2> QED BY <2>2, <2>3, <2>4, <2>5
<1>7. ASSUME Mark(f) PROVE CacheInv'
  BY <1>7 DEF Mark
<1>8. ASSUME Sweep(f) PROVE CacheInv'
  \* No prompt store knows the generation of this sweep yet.
  BY <1>8 DEF Sweep
<1>9. ASSUME ForgetSwept(f) PROVE CacheInv'
  <2>1. /\ \A w \in Writers : ~Writing(w)
        /\ \A g \in Fscks : pc[g] \notin {"marking", "sweeping"}
    BY <1>9 DEF ForgetSwept, LockInv, NoneWrites, Closed, Singleton, Settled
  <2>2. at[f] \in open
    BY <1>9 DEF ForgetSwept, OwnerInv, Placed, Idle
  <2>3. KnownPast' /\ BumpedPast' /\ ClosedEmpty' /\ KnownClean'
    BY <1>9, <2>2 DEF ForgetSwept
  <2>4. SweepAhead' /\ WritersKnow'
    BY <1>9, <2>1 DEF ForgetSwept
  <2> QED BY <2>3, <2>4
<1>10. ASSUME ReleaseFsck(f) PROVE CacheInv'
  BY <1>10 DEF ReleaseFsck
<1> HIDE LeasesAssumption DEF TypeInv, TypeOK, Ops, CacheInv, KnownPast, BumpedPast, ClosedEmpty,
                             SweepAhead, KnownClean, WritersKnow, Prompt, Writing, Goto, Begin, End, Blank
<1> QED
  BY <1>1, <1>2, <1>3, <1>4, <1>5, <1>6, <1>7, <1>8, <1>9, <1>10
  DEF AcquireFsck, RunFsck, StaleWritersRefuse, LeaseLost, FsckReturns, FsckFails

LEMMA WorldCaches ==
  ASSUME TypeInv, LockInv, OwnerInv, CacheInv,
         (\E s \in Stores : StoreDies(s) \/ OpenStore(s) \/ Fetch(s)) \/ FsckExpires \/ ClearStaleLock
  PROVE  CacheInv'
<1> USE LeasesAssumption DEF TypeInv, TypeOK, Ops, CacheInv, KnownPast, BumpedPast, ClosedEmpty,
                             SweepAhead, KnownClean, WritersKnow, Prompt, Writing, Blank
<1>1. ASSUME NEW s \in Stores, StoreDies(s) PROVE CacheInv'
  <2>1. KnownPast' /\ BumpedPast' /\ ClosedEmpty'
    BY <1>1 DEF StoreDies
  <2>2. SweepAhead'
    BY <1>1 DEF StoreDies
  <2>3. KnownClean'
    BY <1>1 DEF StoreDies
  <2>4. WritersKnow'
    BY <1>1 DEF StoreDies
  <2> QED BY <2>1, <2>2, <2>3, <2>4
<1>2. ASSUME NEW s \in Stores, OpenStore(s) PROVE CacheInv'
  \* A prompt store is opened when no run owns the singleton.
  <2>1. s \in Prompt => \A f \in Fscks : pc[f] \notin {"marking", "sweeping"}
    BY <1>2 DEF OpenStore, FsckLocked, LockInv, Singleton, Settled
  <2>2. \A o \in Ops : at[o] # s
    BY <1>2 DEF OpenStore, OwnerInv, Placed, Idle
  <2>3. KnownPast' /\ BumpedPast' /\ ClosedEmpty' /\ KnownClean'
    BY <1>2 DEF OpenStore
  <2>4. SweepAhead'
    BY <1>2, <2>1 DEF OpenStore
  <2>5. WritersKnow'
    BY <1>2, <2>2 DEF OpenStore
  <2> QED BY <2>3, <2>4, <2>5
<1>3. ASSUME NEW s \in Stores, Fetch(s) PROVE CacheInv'
  BY <1>3 DEF Fetch
<1>4. ASSUME FsckExpires \/ ClearStaleLock PROVE CacheInv'
  BY <1>4 DEF FsckExpires, ClearStaleLock
<1> QED BY <1>1, <1>2, <1>3, <1>4

LEMMA CacheStep ==
  ASSUME TypeInv, LockInv, OwnerInv, CacheInv, [Next]_vars
  PROVE  CacheInv'
<1>1. CASE Next
  BY <1>1, WriterCaches, FsckCaches, WorldCaches DEF Next
<1>2. CASE UNCHANGED vars
  BY <1>2 DEF vars, CacheInv, KnownPast, BumpedPast, ClosedEmpty, SweepAhead, KnownClean, WritersKnow, Writing
<1> QED BY <1>1, <1>2

(* When live writers keep their heartbeats fresh, a save in a store that   *)
(* was not opened in the middle of an fsck meets no swept document in its  *)
(* identity cache.                                                         *)
THEOREM SavesForgetSwept == SlowWriters = {} => (Spec => []SavesObserveSweeps)
<1> SUFFICES ASSUME SlowWriters = {} PROVE Spec => []SavesObserveSweeps
  OBVIOUS
<1>1. TypeInv /\ LockInv /\ OwnerInv /\ CacheInv /\ [Next]_vars => CacheInv'
  BY CacheStep
<1>2. ASSUME TypeInv, OwnerInv, CacheInv PROVE SavesObserveSweeps
  <2> SUFFICES ASSUME NEW w \in Writers, Writing(w), at[w] \notin Latecomers
               PROVE  cache[at[w]] \subseteq deps
    BY DEF SavesObserveSweeps
  <2>1. at[w] \in Prompt
    BY <1>2 DEF OwnerInv, Placed, Idle, Writing, Ops, Prompt, TypeInv, TypeOK
  <2> QED BY <1>2, <2>1 DEF CacheInv, WritersKnow, KnownClean
<1>3. TypeInv /\ OwnerInv /\ CacheInv => SavesObserveSweeps
  BY <1>2
<1> QED BY LockAlways, OwnersAlways, CacheInit, <1>1, <1>3, PTL DEF Spec
=============================================================================
