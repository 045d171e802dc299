------------------------ MODULE SqlTransactionsProofs ------------------------
(***************************************************************************)
(* What the transactions of SqlTransactions leave in the database and in   *)
(* the caches of the stores, for any number of stores, objects and calls.  *)
(***************************************************************************)
EXTENDS SqlTransactions, NumberFacts

-----------------------------------------------------------------------------
(* Stacks of frames.                                                       *)

\* The stack n is st with f as its innermost frame, and perhaps a fresh frame inside it.
GoesOn(n, st, f) ==
  /\ n \in Seq(FrameType)
  /\ \/ Len(n) = Len(st) /\ n[1] = f /\ \A i \in 2 .. Len(st) : n[i] = st[i]
     \/ /\ Len(n) = Len(st) + 1 /\ n[2] = f /\ \A i \in 2 .. Len(st) : n[i + 1] = st[i]
        /\ \E o \in Objects : n[1] = Frame(o)

LEMMA FrameTyped ==
  ASSUME NEW o \in Objects
  PROVE  Frame(o) \in FrameType
  BY DEF Frame, FrameType, Stages

\* The innermost frame changes.
LEMMA Changed ==
  ASSUME NEW st \in Seq(FrameType), st # <<>>, NEW f \in FrameType
  PROVE  GoesOn(<<f>> \o Tail(st), st, f)
<1> DEFINE n == <<f>> \o Tail(st)
<1>1. Tail(st) \in Seq(FrameType) /\ Len(Tail(st)) = Len(st) - 1 /\ Len(st) \in Nat \ {0}
      /\ \A i \in 1 .. Len(st) - 1 : Tail(st)[i] = st[i + 1]
  OBVIOUS
<1>2. n \in Seq(FrameType) /\ Len(n) = Len(st) /\ n[1] = f
  BY <1>1
<1>3. \A i \in 2 .. Len(st) : n[i] = st[i]
  <2> TAKE i \in 2 .. Len(st)
  <2>1. n[i] = Tail(st)[i - 1]
    BY <1>1
  <2> QED BY <1>1, <2>1
<1> QED BY <1>2, <1>3 DEF GoesOn

\* It changes and may call another.
LEMMA WentOn ==
  ASSUME NEW st \in Seq(FrameType), st # <<>>, NEW f \in FrameType
  PROVE  GoesOn(GoOn(f) \o Tail(st), st, f)
<1> USE TransactionsAssumption
<1>1. CASE Wanted(f) = {}
  BY <1>1, Changed DEF GoOn
<1>2. CASE Wanted(f) # {}
  <2>1. PICK o : o = CHOOSE q \in Wanted(f) : TRUE
    OBVIOUS
  <2>2. o \in Wanted(f)
    BY <1>2, <2>1
  <2>3. o \in Objects
    BY <2>2 DEF Wanted, FrameType
  <2>4. Frame(o) \in FrameType
    BY <2>3, FrameTyped
  <2>5. GoOn(f) = <<Frame(o), f>>
    BY <1>2, <2>1 DEF GoOn
  <2> DEFINE n == <<Frame(o), f>> \o Tail(st)
  <2> HIDE DEF GoOn
  <2>6. Tail(st) \in Seq(FrameType) /\ Len(Tail(st)) = Len(st) - 1 /\ Len(st) \in Nat \ {0}
        /\ \A i \in 1 .. Len(st) - 1 : Tail(st)[i] = st[i + 1]
    OBVIOUS
  <2>7. n \in Seq(FrameType) /\ Len(n) = Len(st) + 1 /\ n[1] = Frame(o) /\ n[2] = f
    BY <2>4, <2>6
  <2>8. \A i \in 2 .. Len(st) : n[i + 1] = st[i]
    <3> TAKE i \in 2 .. Len(st)
    <3>1. n[i + 1] = Tail(st)[i - 1]
      BY <2>4, <2>6
    <3> QED BY <2>6, <3>1
  <2> QED BY <2>3, <2>5, <2>7, <2>8 DEF GoesOn
<1> QED BY <1>1, <1>2

-----------------------------------------------------------------------------
(* Types.                                                                  *)

Phases == {"none", "single", "open", "lost"}
MarkType == [sid : Sid, by : Writers]
OwnerType == {Backing[c] : c \in Contents} \X Nat
ClaimType ==
  [what : {"entry", "row"}, id : EntryIds \cup (EntryIds \X Kinds \X Nat), owner : OwnerType, by : Writers]
DispatchType == [key : Keys, sid : Sid, by : Writers]
ReturnType == [key : Keys, sid : Sid, kin : Nat, by : Writers]
CacheType == [obj : Objects, sid : Sid]

TablesTyped ==
  /\ IsFiniteSet(rows) /\ rows \subseteq RowType
  /\ mains \subseteq MarkType
  /\ claims \subseteq ClaimType
  /\ dispatch \subseteq DispatchType
  /\ returned \subseteq ReturnType
  /\ nextSid \in Sid

SessionsTyped ==
  /\ tx \in [Stores -> Phases]
  /\ op \in [Stores -> CallType \cup {None}]
  /\ stack \in [Stores -> Seq(FrameType)]
  /\ stamp \in [Stores -> 0 .. MaxClock]
  /\ calls \in 0 .. MaxOps

MemoryTyped ==
  /\ cache \in [Stores -> SUBSET CacheType]
  /\ held \in [Stores -> LazyRow \cup {None}]
  /\ mark \in [Stores -> 0 .. MaxClock]

\* A call has its transaction and its timestamp, and frames until it has its sid.
Active(s) ==
  /\ stack[s] # <<>> => op[s] # None /\ op[s].sid = 0 /\ ~op[s].done
  /\ op[s] # None => tx[s] \in {"single", "open"} /\ stamp[s] # 0
  /\ tx[s] = "single" => op[s] # None
  /\ tx[s] \in {"none", "lost"} => stamp[s] = 0

TypeInv ==
  /\ engine \in {"sqlite", "postgresql"}
  /\ TablesTyped /\ SessionsTyped /\ MemoryTyped
  /\ \A s \in Stores : Active(s)

LEMMA ClaimTyped ==
  ASSUME NEW x \in RowType, NEW what \in {"entry", "row"},
         NEW id \in EntryIds \cup (EntryIds \X Kinds \X Nat), NEW s \in Writers
  PROVE  ClaimOf(what, id, x, s) \in ClaimType
<1>1. x.group \in Nat /\ x.sid \in Nat /\ x.key.content \in Contents
  BY DEF RowType, Sid, Keys
<1>2. Owner(what, x) \in OwnerType
  BY <1>1 DEF Owner, OwnerType
<1> QED BY <1>2 DEF ClaimOf, ClaimType

\* The newest timestamp, and the mark that follows from it.
LEMMA NewestTyped ==
  ASSUME TablesTyped
  PROVE  /\ Newest \in 0 .. MaxClock
         /\ \A x \in rows : x.by = None => x.ts <= Newest
<1> DEFINE C == {y \in rows : y.by = None}
           T == {x.ts : x \in C}
           S == {0} \cup T
<1>1. IsFiniteSet(C)
  BY FS_Subset DEF TablesTyped
<1>2. IsFiniteSet(T)
  <2> DEFINE f == [x \in C |-> x.ts]
  <2>1. f \in Surjection(C, T)
    BY DEF Surjection
  <2> QED BY <1>1, <2>1, FS_Surjection
<1>3. IsFiniteSet(S)
  BY <1>2, FS_AddElement
<1>4. T \subseteq 0 .. MaxClock
  BY DEF TablesTyped, RowType
<1>5. MaxClock \in Nat
  BY TransactionsAssumption
<1>6. S \subseteq 0 .. MaxClock /\ S # {} /\ S \in SUBSET Nat
  BY <1>4, <1>5
<1> HIDE DEF S
<1>7. Max(S) \in S /\ \A n \in S : n <= Max(S)
  BY <1>3, <1>6, GreatestNumber
<1>8. Newest = Max(S)
  BY DEF Newest, S
<1>9. \A x \in rows : x.by = None => x.ts \in S
  BY DEF S
<1> QED BY <1>6, <1>7, <1>8, <1>9

LEMMA MarkTyped ==
  ASSUME NEW m \in Nat, NEW n \in Nat
  PROVE  /\ Max({m, n}) \in {m, n}
         /\ m <= Max({m, n}) /\ n <= Max({m, n})
<1>1. IsFiniteSet({m, n})
  <2>1. IsFiniteSet({m})
    BY FS_Singleton
  <2>2. {m, n} = {m} \cup {n}
    OBVIOUS
  <2> QED BY <2>1, <2>2, FS_AddElement
<1> QED BY <1>1, GreatestNumber

LEMMA TypeInit == Init => TypeInv
<1> SUFFICES ASSUME Init PROVE TypeInv
  OBVIOUS
<1> USE TransactionsAssumption, EarlierAssumption
<1>0. Cardinality(Earlier) \in Nat
  BY FS_CardinalityType
<1>1. TablesTyped
  <2>1. IsFiniteSet(rows) /\ rows \subseteq RowType /\ rows = Earlier
    BY DEF Init
  <2>2. mains \subseteq MarkType
    BY <2>1 DEF Init, MarkType, RowType, Writers
  <2>3. claims \subseteq ClaimType
    <3>1. ASSUME NEW x \in Earlier, x.id # None
          PROVE  ClaimOf("entry", x.id, x, None) \in ClaimType /\ ClaimOf("row", x.imm, x, None) \in ClaimType
      <4>1. x \in RowType
        BY <3>1
      <4>2. x.id \in EntryIds /\ x.imm \in EntryIds \cup (EntryIds \X Kinds \X Nat)
        BY <4>1 DEF RowType, EntryIds
      <4> QED BY <4>1, <4>2, ClaimTyped DEF Writers
    <3> QED BY <3>1 DEF Init
  <2>4. dispatch \subseteq DispatchType
    BY <2>1 DEF Init, DispatchType, RowType, Writers
  <2> QED BY <1>0, <2>1, <2>2, <2>3, <2>4 DEF Init, TablesTyped, Sid
<1>2. SessionsTyped
  BY DEF Init, SessionsTyped, Phases
<1>3. Newest \in 0 .. MaxClock
  BY <1>1, NewestTyped
<1>4. MemoryTyped
  BY <1>3 DEF Init, MemoryTyped
<1>5. \A s \in Stores : Active(s)
  BY DEF Init, Active
<1>6. engine \in {"sqlite", "postgresql"}
  BY DEF Init
<1> QED BY <1>1, <1>2, <1>4, <1>5, <1>6 DEF TypeInv

-----------------------------------------------------------------------------
(* What the steps do.                                                      *)

Step(s) ==
  \/ Commit(s) \/ Abort(s) \/ Reopen(s)
  \/ \E q \in Requests : StartSave(s, q) \/ StartAlternative(s, q) \/ StartReplace(s, q)
  \/ SaveStep(s) \/ GiveUp(s)
  \/ Fetch(s) \/ Fsck(s)

LEMMA NextIsStep == Next <=> \E s \in Stores : Step(s)
  BY DEF Next, Step

\* The sessions and memories of the others.
OthersKept(s) ==
  \A t \in Stores \ {s} :
    /\ tx'[t] = tx[t] /\ op'[t] = op[t] /\ stack'[t] = stack[t] /\ stamp'[t] = stamp[t]
    /\ cache'[t] = cache[t] /\ held'[t] = held[t] /\ mark'[t] = mark[t]

\* A row keeps what it was inserted with.
Like(x, y) ==
  /\ y.sid = x.sid /\ y.key = x.key /\ y.obj = x.obj /\ y.refs = x.refs
  /\ y.kin = x.kin /\ y.group = x.group /\ y.kind = x.kind /\ y.ts = x.ts /\ y.who = x.who

\* The transaction is rolled back.
Undone(s) ==
  /\ rows' = Without(rows, s) /\ mains' = Without(mains, s) /\ claims' = Without(claims, s)
  /\ dispatch' = Without(dispatch, s) /\ returned' = Without(returned, s)
  /\ stack'[s] = <<>> /\ op'[s] = None /\ stamp'[s] = 0 /\ tx'[s] \in {"none", "lost"}
  /\ cache'[s] = {} /\ held'[s] \in {None, held[s]}
  /\ held[s] # None /\ held[s].tx => held'[s] = None
  /\ mark'[s] \in {mark[s], Newest}
  /\ engine' = engine /\ nextSid' = nextSid /\ calls' = calls
  /\ OthersKept(s)

\* An exception is caught in the transaction.
CaughtIn(s) ==
  /\ rows' = {IF \E i \in DOMAIN stack[s] : stack[s][i].sid = x.sid /\ x.by = s
              THEN [x EXCEPT !.torn = TRUE] ELSE x : x \in rows}
  /\ UNCHANGED <<mains, claims, dispatch, returned, cache, held, mark, engine, nextSid, calls, tx, stamp>>
  /\ tx[s] = "open" /\ stack'[s] = <<>> /\ op'[s] = None
  /\ OthersKept(s)

LEMMA CallEnds ==
  ASSUME TypeInv, NEW s \in Stores, NEW next \in Phases, EndCall(s, next)
  PROVE  /\ stack'[s] = <<>> /\ op'[s] = None /\ tx'[s] = next
         /\ stamp'[s] = (IF next = "open" THEN stamp[s] ELSE 0)
         /\ \A t \in Stores \ {s} : /\ tx'[t] = tx[t] /\ op'[t] = op[t]
                                    /\ stack'[t] = stack[t] /\ stamp'[t] = stamp[t]
         /\ tx' \in [Stores -> Phases] /\ op' \in [Stores -> CallType \cup {None}]
         /\ stack' \in [Stores -> Seq(FrameType)] /\ stamp' \in [Stores -> 0 .. MaxClock]
<1>1. <<>> \in Seq(FrameType) /\ None \in CallType \cup {None} /\ 0 \in 0 .. MaxClock
  BY TransactionsAssumption
<1> QED BY <1>1 DEF EndCall, TypeInv, SessionsTyped

\* The sessions of the others are as active as before.
LEMMA OthersActive ==
  ASSUME TypeInv, NEW s \in Stores, Active(s)',
         \A t \in Stores \ {s} : /\ tx'[t] = tx[t] /\ op'[t] = op[t]
                                 /\ stack'[t] = stack[t] /\ stamp'[t] = stamp[t]
  PROVE  \A t \in Stores : Active(t)'
  BY DEF TypeInv, Active

LEMMA WithoutTyped ==
  ASSUME TypeInv, NEW s \in Stores, rows' = Without(rows, s), mains' = Without(mains, s),
         claims' = Without(claims, s), dispatch' = Without(dispatch, s),
         returned' = Without(returned, s), nextSid' = nextSid
  PROVE  TablesTyped'
<1>1. IsFiniteSet(rows')
  BY FS_Subset DEF TypeInv, TablesTyped, Without
<1> QED BY <1>1 DEF TypeInv, TablesTyped, Without

LEMMA RolledBack ==
  ASSUME TypeInv, NEW s \in Stores, NEW next \in {"none", "lost"}, RollBack(s), EndCall(s, next),
         UNCHANGED <<engine, nextSid, mark, calls>>
  PROVE  Undone(s) /\ TypeInv'
<1>1. /\ cache'[s] = {} /\ held'[s] = Expired(s)
      /\ \A t \in Stores \ {s} : cache'[t] = cache[t] /\ held'[t] = held[t]
  BY DEF RollBack, Forget, TypeInv, MemoryTyped
<1>2. next \in Phases
  BY DEF Phases
<1>3. Undone(s)
  BY <1>1, <1>2, CallEnds DEF Undone, OthersKept, RollBack, Expired
<1>4. Active(s)'
  BY <1>2, CallEnds DEF Active
<1>5. \A t \in Stores : Active(t)'
  BY <1>2, <1>4, CallEnds, OthersActive
<1>6. TablesTyped'
  BY WithoutTyped DEF RollBack
<1>7. SessionsTyped'
  BY <1>2, CallEnds DEF SessionsTyped, TypeInv
<1>8. MemoryTyped'
  BY DEF MemoryTyped, TypeInv, RollBack, Forget, Expired
<1> QED BY <1>3, <1>5, <1>6, <1>7, <1>8 DEF TypeInv

LEMMA AbortUndoes ==
  ASSUME TypeInv, NEW s \in Stores, Abort(s)
  PROVE  Undone(s) /\ TypeInv'
  BY RolledBack DEF Abort

LEMMA GiveUpUndoes ==
  ASSUME TypeInv, NEW s \in Stores, GiveUp(s)
  PROVE  Undone(s) /\ TypeInv'
  BY RolledBack DEF GiveUp

LEMMA ConflictUndoes ==
  ASSUME TypeInv, NEW s \in Stores, RaiseConflict(s)
  PROVE  Undone(s) /\ TypeInv'
  BY RolledBack DEF RaiseConflict

LEMMA ReopenUndoes ==
  ASSUME TypeInv, NEW s \in Stores, Reopen(s)
  PROVE  Undone(s) /\ TypeInv'
<1>1. /\ cache'[s] = {} /\ held'[s] = None /\ mark'[s] = Newest
      /\ \A t \in Stores \ {s} : cache'[t] = cache[t] /\ held'[t] = held[t] /\ mark'[t] = mark[t]
  BY DEF Reopen, TypeInv, MemoryTyped
<1>2. EndCall(s, "none") /\ "none" \in Phases /\ "none" # "open"
  BY DEF Reopen, Phases
<1>3. Undone(s)
  BY <1>1, <1>2, CallEnds DEF Reopen, Undone, OthersKept
<1>4. Active(s)'
  BY <1>2, CallEnds DEF Active
<1>5. \A t \in Stores : Active(t)'
  BY <1>2, <1>4, CallEnds, OthersActive
<1>6. TablesTyped'
  BY WithoutTyped DEF Reopen
<1>7. SessionsTyped'
  BY <1>2, CallEnds DEF SessionsTyped, TypeInv, Reopen
<1>8. MemoryTyped'
  <2>1. Newest \in 0 .. MaxClock
    BY NewestTyped DEF TypeInv
  <2> QED BY <2>1 DEF MemoryTyped, TypeInv, Reopen
<1>9. engine' = engine
  BY DEF Reopen
<1> QED BY <1>3, <1>5, <1>6, <1>7, <1>8, <1>9 DEF TypeInv

\* A table with a row for each row of another.
LEMMA MappedFinite ==
  ASSUME NEW S, IsFiniteSet(S), NEW f, f = [x \in S |-> f[x]]
  PROVE  IsFiniteSet({f[x] : x \in S})
<1> DEFINE T == {f[x] : x \in S}
<1>1. f \in Surjection(S, T)
  BY DEF Surjection
<1> QED BY <1>1, FS_Surjection

LEMMA RaiseEffect ==
  ASSUME TypeInv, NEW s \in Stores, Raise(s)
  PROVE  (Undone(s) \/ CaughtIn(s)) /\ TypeInv'
<1>1. CASE RollBack(s) /\ EndCall(s, "none")
  BY <1>1, RolledBack DEF Raise
<1>2. CASE Caught(s)
  <2>0. EndCall(s, "open") /\ "open" \in Phases
    BY <1>2 DEF Caught, Phases
  <2>1. /\ stack'[s] = <<>> /\ op'[s] = None /\ tx'[s] = "open" /\ stamp'[s] = stamp[s]
        /\ \A t \in Stores \ {s} : /\ tx'[t] = tx[t] /\ op'[t] = op[t]
                                   /\ stack'[t] = stack[t] /\ stamp'[t] = stamp[t]
    BY <2>0, CallEnds
  <2>2. tx' = tx /\ stamp' = stamp
    BY <1>2 DEF Caught, EndCall, TypeInv, SessionsTyped
  <2>3. CaughtIn(s)
    BY <1>2, <2>1, <2>2 DEF Caught, Raise, CaughtIn, OthersKept
  <2> DEFINE Torn(x) == \E i \in DOMAIN stack[s] : stack[s][i].sid = x.sid /\ x.by = s
             f == [x \in rows |-> IF Torn(x) THEN [x EXCEPT !.torn = TRUE] ELSE x]
  <2>4. rows' = {f[x] : x \in rows}
    BY <1>2 DEF Caught
  <2>5. IsFiniteSet(rows')
    <3> HIDE DEF f
    <3>1. f = [x \in rows |-> f[x]]
      BY DEF f
    <3> QED BY <2>4, <3>1, MappedFinite DEF TypeInv, TablesTyped
  <2>6. rows' \subseteq RowType
    <3>1. ASSUME NEW x \in rows PROVE f[x] \in RowType
      <4>1. x \in RowType
        BY DEF TypeInv, TablesTyped
      <4>2. [x EXCEPT !.torn = TRUE] \in RowType
        BY <4>1 DEF RowType
      <4> QED BY <4>1, <4>2
    <3> QED BY <2>4, <3>1
  <2>7. TablesTyped'
    BY <1>2, <2>5, <2>6 DEF TypeInv, TablesTyped, Caught, Raise
  <2>8. SessionsTyped'
    BY <1>2, <2>0, CallEnds DEF SessionsTyped, TypeInv, Raise
  <2>9. MemoryTyped'
    BY <1>2 DEF MemoryTyped, TypeInv, Caught, Raise
  <2>10. Active(s)'
    <3>1. stamp[s] # 0 \/ tx[s] # "lost"
      BY <1>2 DEF Caught
    <3> QED BY <2>1 DEF Active
  <2>11. \A t \in Stores : Active(t)'
    BY <2>1, <2>10, OthersActive
  <2>12. engine' = engine
    BY DEF Raise
  <2> QED BY <2>3, <2>7, <2>8, <2>9, <2>11, <2>12 DEF TypeInv
<1> QED BY <1>1, <1>2 DEF Raise

-----------------------------------------------------------------------------
(* What is true of the tables, of a call in progress and of the caches.    *)

\* A sid is one row, and the sequence is ahead of them.
SidsUnique ==
  /\ \A x, y \in rows : x.sid = y.sid => x = y
  /\ engine = "postgresql" => \A x \in rows : x.sid < nextSid

\* What names a row is committed after it.
NamesHaveRows == \A m \in mains \cup dispatch : \E x \in rows : x.sid = m.sid /\ x.by \in {None, m.by}

ReturnsHaveRows ==
  \A r \in returned :
    /\ \E x \in rows : /\ x.sid = r.sid /\ x.key = r.key /\ x.by \in {None, r.by}
                       /\ r.kin # 0 => x.kin = r.kin
    /\ \E m \in mains : m.sid = r.sid /\ m.by \in {None, r.by}

\* The frames of a call, of which ins are the rows that it has inserted.
FramesSound(st, ins) ==
  /\ \A i \in DOMAIN st :
       /\ st[i].stage = "lookup" => i = 1
       /\ st[i].stage \in {"claim", "kids"} <=> st[i].sid # 0
       /\ st[i].sid # 0 => \E m \in DOMAIN ins : ins[m] = st[i].sid
       /\ st[i].stage # "lookup" => st[i].base <= Len(ins)
  /\ \A i, j \in DOMAIN st : i < j /\ st[i].stage # "lookup" =>
       /\ st[j].base <= st[i].base
       /\ st[j].sid # 0 => \E m \in 1 .. st[i].base : ins[m] = st[j].sid

NoneTwice(ins) == \A i, j \in DOMAIN ins : ins[i] = ins[j] => i = j

Root(s) == stack[s][Len(stack[s])]

StackSound(s) ==
  op[s] # None =>
    /\ NoneTwice(op[s].inserted)
    /\ FramesSound(stack[s], op[s].inserted)
    /\ stack[s] # <<>> => Root(s).obj = op[s].obj

InsertedHere(s) ==
  op[s] # None => \A i \in DOMAIN op[s].inserted : \E x \in rows : x.sid = op[s].inserted[i] /\ x.by = s

FramesHaveRows(s) ==
  \A i \in DOMAIN stack[s] : stack[s][i].sid # 0 =>
    \E x \in rows : x.sid = stack[s][i].sid /\ x.by = s /\ x.key.content = Content[stack[s][i].obj]

\* The row that the call is about.
IsFound(s, x) == x.key = RootKey(s) /\ (op[s].kin # 0 => x.kin = op[s].kin)

RootHasRow(s) ==
  stack[s] # <<>> /\ Root(s).sid # 0 =>
    /\ \E x \in rows : x.sid = Root(s).sid /\ x.by = s /\ IsFound(s, x)
    /\ \E m \in mains : m.sid = Root(s).sid /\ m.by = s

FoundRow(s) ==
  op[s] # None /\ op[s].sid # 0 =>
    /\ \E x \in rows : x.sid = op[s].sid /\ x.by \in {None, s} /\ IsFound(s, x)
    /\ \E m \in mains : m.sid = op[s].sid /\ m.by \in {None, s}

\* Nothing but the root's main row names what the call has inserted.
Pinned(s) ==
  stack[s] # <<>> => \A i \in DOMAIN op[s].inserted :
    /\ \A m \in mains : m.by = s /\ m.sid = op[s].inserted[i] => m.sid = Root(s).sid
    /\ \A r \in dispatch \cup returned : r.by = s => r.sid # op[s].inserted[i]
    /\ held[s] # None => held[s].sid # op[s].inserted[i]

Unowned(s) == tx[s] \in {"none", "lost"} => \A m \in mains \cup dispatch \cup returned : m.by # s

StampSound(s) ==
  /\ stamp[s] # 0 => mark[s] <= stamp[s]
  /\ \A x \in rows : x.by = s => x.who = s /\ x.ts = stamp[s]
  /\ \A x \in rows : x.by = None /\ x.who = s => x.ts <= mark[s]

CacheSound(s) == \A e \in cache[s] : \E x \in Seen(s, rows) : x.sid = e.sid /\ x.key.content = Content[e.obj]

HeldSound(s) ==
  held[s] # None =>
    \E x \in Seen(s, rows) : x.sid = held[s].sid /\ x.key = held[s].key /\ (held[s].tx \/ x.by = None)

StoreSound(s) ==
  /\ StackSound(s) /\ InsertedHere(s) /\ FramesHaveRows(s) /\ RootHasRow(s) /\ FoundRow(s)
  /\ Pinned(s) /\ Unowned(s) /\ StampSound(s) /\ CacheSound(s) /\ HeldSound(s)

TablesSound == SidsUnique /\ NamesHaveRows /\ ReturnsHaveRows

Inv == TypeInv /\ TablesSound /\ \A s \in Stores : StoreSound(s)

-----------------------------------------------------------------------------
(* Frames of a call.                                                       *)

LEMMA GoesOnFrames ==
  ASSUME NEW st \in Seq(FrameType), st # <<>>, NEW f \in FrameType, NEW n, GoesOn(n, st, f)
  PROVE  /\ n \in Seq(FrameType) /\ n # <<>>
         /\ n[Len(n)] = IF Len(st) = 1 THEN f ELSE st[Len(st)]
         /\ \A i \in DOMAIN n : \/ n[i].sid = 0 /\ n[i].stage = "lookup"
                                \/ n[i] = f
                                \/ \E j \in 2 .. Len(st) : n[i] = st[j]
<1>0. Len(st) \in Nat \ {0} /\ n \in Seq(FrameType) /\ DOMAIN n = 1 .. Len(n) /\ Len(n) \in Nat
  BY DEF GoesOn
<1>1. CASE Len(n) = Len(st) /\ n[1] = f /\ \A i \in 2 .. Len(st) : n[i] = st[i]
  <2>1. \A i \in DOMAIN n : i = 1 \/ i \in 2 .. Len(st)
    BY <1>0, <1>1
  <2>2. \A i \in DOMAIN n : n[i] = f \/ \E j \in 2 .. Len(st) : n[i] = st[j]
    BY <1>1, <2>1
  <2> QED BY <1>0, <1>1, <2>2
<1>2. ASSUME Len(n) = Len(st) + 1 /\ n[2] = f, \A i \in 2 .. Len(st) : n[i + 1] = st[i],
             NEW o \in Objects, n[1] = Frame(o)
      PROVE  /\ n # <<>>
             /\ n[Len(n)] = IF Len(st) = 1 THEN f ELSE st[Len(st)]
             /\ \A i \in DOMAIN n : \/ n[i].sid = 0 /\ n[i].stage = "lookup"
                                    \/ n[i] = f
                                    \/ \E j \in 2 .. Len(st) : n[i] = st[j]
  <2>1. n[1].sid = 0 /\ n[1].stage = "lookup"
    BY <1>2 DEF Frame
  <2>2. ASSUME NEW i \in DOMAIN n, i > 2 PROVE \E j \in 2 .. Len(st) : n[i] = st[j]
    <3>1. i - 1 \in 2 .. Len(st) /\ (i - 1) + 1 = i
      BY <1>0, <1>2, <2>2
    <3> QED BY <1>2, <3>1
  <2>3. \A i \in DOMAIN n : i = 1 \/ i = 2 \/ i > 2
    BY <1>0
  <2>4. ASSUME Len(st) = 1 PROVE n[Len(n)] = f
    BY <1>0, <1>2, <2>4
  <2>5. ASSUME Len(st) # 1 PROVE n[Len(n)] = st[Len(st)]
    <3>1. Len(st) \in 2 .. Len(st)
      <4> DEFINE k == Len(st)
      <4>1. k \in Nat /\ k # 0 /\ k # 1
        BY <1>0, <2>5
      <4> HIDE DEF k
      <4>2. k \in 2 .. k
        BY <4>1
      <4> QED BY <4>2 DEF k
    <3>2. n[Len(st) + 1] = st[Len(st)]
      BY <1>2, <3>1
    <3> QED BY <1>2, <3>2
  <2>6. n[Len(n)] = IF Len(st) = 1 THEN f ELSE st[Len(st)]
    BY <2>4, <2>5
  <2>7. n # <<>>
    BY <1>0, <1>2
  <2>8. \A i \in DOMAIN n : \/ n[i].sid = 0 /\ n[i].stage = "lookup"
                           \/ n[i] = f
                           \/ \E j \in 2 .. Len(st) : n[i] = st[j]
    <3> TAKE i \in DOMAIN n
    <3>1. CASE i = 1
      BY <2>1, <3>1
    <3>2. CASE i = 2
      BY <1>2, <3>2
    <3>3. CASE i > 2
      BY <2>2, <3>3
    <3> QED BY <2>3, <3>1, <3>2, <3>3
  <2> QED BY <2>6, <2>7, <2>8
<1> QED BY <1>0, <1>1, <1>2 DEF GoesOn

\* The innermost frame goes on, and the call has inserted more by then.
LEMMA FramesGoOn ==
  ASSUME NEW st \in Seq(FrameType), st # <<>>, NEW f \in FrameType, NEW n, GoesOn(n, st, f),
         NEW ins \in Seq(Sid), NEW more \in Seq(Sid), FramesSound(st, ins),
         Len(ins) <= Len(more), \A i \in DOMAIN ins : more[i] = ins[i],
         f.stage # "lookup", f.stage \in {"claim", "kids"} <=> f.sid # 0,
         f.sid # 0 => \E m \in DOMAIN more : more[m] = f.sid,
         f.base <= Len(more),
         \A j \in 2 .. Len(st) : /\ st[j].base <= f.base
                                 /\ st[j].sid # 0 => \E m \in 1 .. f.base : more[m] = st[j].sid
  PROVE  FramesSound(n, more)
<1>0. /\ Len(st) \in Nat \ {0} /\ n \in Seq(FrameType) /\ DOMAIN n = 1 .. Len(n) /\ Len(n) \in Nat
      /\ Len(ins) \in Nat /\ Len(more) \in Nat /\ DOMAIN ins = 1 .. Len(ins) /\ DOMAIN more = 1 .. Len(more)
      /\ DOMAIN st = 1 .. Len(st)
  BY DEF GoesOn
\* An outer frame is as sound as before.
<1>1. ASSUME NEW j \in 2 .. Len(st)
      PROVE  /\ st[j].stage # "lookup"
             /\ st[j].stage \in {"claim", "kids"} <=> st[j].sid # 0
             /\ st[j].sid # 0 => \E m \in DOMAIN more : more[m] = st[j].sid
             /\ st[j].base \in Nat /\ st[j].base <= Len(more)
  <2>1. j \in DOMAIN st /\ st[j] \in FrameType /\ j # 1
    BY <1>0
  <2>2. st[j].stage # "lookup" /\ st[j].base <= Len(ins) /\ st[j].base \in Nat
    BY <2>1 DEF FramesSound, FrameType
  <2>3. (st[j].stage \in {"claim", "kids"} <=> st[j].sid # 0)
    BY <2>1 DEF FramesSound
  <2>4. st[j].sid # 0 => \E m \in DOMAIN ins : ins[m] = st[j].sid
    BY <2>1 DEF FramesSound
  <2>5. \A m \in DOMAIN ins : m \in DOMAIN more /\ more[m] = ins[m]
    BY <1>0
  <2> QED BY <1>0, <2>2, <2>3, <2>4, <2>5
<1>2. ASSUME NEW i \in 2 .. Len(st), NEW j \in 2 .. Len(st), i < j
      PROVE  /\ st[j].base <= st[i].base
             /\ st[j].sid # 0 => \E m \in 1 .. st[i].base : more[m] = st[j].sid
  <2>1. i \in DOMAIN st /\ j \in DOMAIN st /\ st[i].stage # "lookup" /\ st[i] \in FrameType
    BY <1>0, <1>1
  <2>2. st[j].base <= st[i].base /\ (st[j].sid # 0 => \E m \in 1 .. st[i].base : ins[m] = st[j].sid)
    BY <1>2, <2>1 DEF FramesSound
  <2>3. st[i].base <= Len(ins) /\ st[i].base \in Nat
    BY <2>1 DEF FramesSound, FrameType
  <2>4. \A m \in 1 .. st[i].base : m \in DOMAIN ins
    BY <1>0, <2>3
  <2> QED BY <2>2, <2>4
<1>3. CASE Len(n) = Len(st) /\ n[1] = f /\ \A i \in 2 .. Len(st) : n[i] = st[i]
  <2>1. \A i \in DOMAIN n : i = 1 \/ (i \in 2 .. Len(st) /\ n[i] = st[i])
    BY <1>0, <1>3
  <2>2. ASSUME NEW i \in DOMAIN n
        PROVE  /\ n[i].stage = "lookup" => i = 1
               /\ n[i].stage \in {"claim", "kids"} <=> n[i].sid # 0
               /\ n[i].sid # 0 => \E m \in DOMAIN more : more[m] = n[i].sid
               /\ n[i].stage # "lookup" => n[i].base <= Len(more)
    <3>1. CASE i = 1
      BY <1>3, <3>1
    <3>2. CASE i \in 2 .. Len(st) /\ n[i] = st[i]
      BY <1>1, <3>2
    <3> QED BY <2>1, <3>1, <3>2
  <2>3. ASSUME NEW i \in DOMAIN n, NEW j \in DOMAIN n, i < j, n[i].stage # "lookup"
        PROVE  /\ n[j].base <= n[i].base
               /\ n[j].sid # 0 => \E m \in 1 .. n[i].base : more[m] = n[j].sid
    <3>1. j \in 2 .. Len(st) /\ n[j] = st[j]
      BY <1>0, <2>1, <2>3
    <3>2. CASE i = 1
      BY <1>3, <3>1, <3>2
    <3>3. CASE i \in 2 .. Len(st) /\ n[i] = st[i]
      BY <1>2, <2>3, <3>1, <3>3
    <3> QED BY <2>1, <3>2, <3>3
  <2> QED BY <2>2, <2>3 DEF FramesSound
<1>4. ASSUME Len(n) = Len(st) + 1 /\ n[2] = f, \A i \in 2 .. Len(st) : n[i + 1] = st[i],
             NEW o \in Objects, n[1] = Frame(o)
      PROVE  FramesSound(n, more)
  <2>1. n[1].sid = 0 /\ n[1].stage = "lookup"
    BY <1>4 DEF Frame
  <2>2. \A i \in DOMAIN n : i = 1 \/ i = 2 \/ (i - 1 \in 2 .. Len(st) /\ n[i] = st[i - 1])
    <3> TAKE i \in DOMAIN n
    <3>1. CASE i > 2
      <4>1. i - 1 \in 2 .. Len(st) /\ (i - 1) + 1 = i
        BY <1>0, <1>4, <3>1
      <4> QED BY <1>4, <4>1
    <3> QED BY <1>0, <3>1
  <2>3. ASSUME NEW i \in DOMAIN n
        PROVE  /\ n[i].stage = "lookup" => i = 1
               /\ n[i].stage \in {"claim", "kids"} <=> n[i].sid # 0
               /\ n[i].sid # 0 => \E m \in DOMAIN more : more[m] = n[i].sid
               /\ n[i].stage # "lookup" => n[i].base <= Len(more)
    <3>1. CASE i = 1
      BY <2>1, <3>1
    <3>2. CASE i = 2
      BY <1>4, <3>2
    <3>3. CASE i - 1 \in 2 .. Len(st) /\ n[i] = st[i - 1]
      BY <1>1, <3>3
    <3> QED BY <2>2, <3>1, <3>2, <3>3
  <2>4. ASSUME NEW i \in DOMAIN n, NEW j \in DOMAIN n, i < j, n[i].stage # "lookup"
        PROVE  /\ n[j].base <= n[i].base
               /\ n[j].sid # 0 => \E m \in 1 .. n[i].base : more[m] = n[j].sid
    <3>1. i # 1
      BY <2>1, <2>4
    <3>2. j - 1 \in 2 .. Len(st) /\ n[j] = st[j - 1]
      <4>1. i \in Nat /\ j \in Nat /\ i >= 1
        BY <1>0
      <4>2. j # 1 /\ j # 2
        BY <2>4, <3>1, <4>1
      <4> QED BY <2>2, <4>2
    <3>3. CASE i = 2
      BY <1>4, <3>2, <3>3
    <3>4. CASE i - 1 \in 2 .. Len(st) /\ n[i] = st[i - 1]
      <4>1. i - 1 < j - 1
        BY <1>0, <2>4
      <4> QED BY <1>2, <3>2, <3>4, <4>1
    <3> QED BY <2>2, <3>1, <3>3, <3>4
  <2> QED BY <2>3, <2>4 DEF FramesSound
<1> QED BY <1>3, <1>4 DEF GoesOn

\* The innermost frame is gone.
LEMMA FramesTail ==
  ASSUME NEW st \in Seq(FrameType), st # <<>>, NEW ins \in Seq(Sid), FramesSound(st, ins)
  PROVE  FramesSound(Tail(st), ins)
<1> DEFINE n == Tail(st)
<1>0. /\ Len(st) \in Nat \ {0} /\ n \in Seq(FrameType) /\ DOMAIN n = 1 .. Len(st) - 1 /\ DOMAIN st = 1 .. Len(st)
      /\ \A i \in 1 .. Len(st) - 1 : n[i] = st[i + 1]
  OBVIOUS
<1>1. \A i \in DOMAIN n : n[i] = st[i + 1] /\ i + 1 \in DOMAIN st /\ i + 1 # 1
  BY <1>0
<1>2. \A i \in DOMAIN n : /\ n[i].stage = "lookup" => i = 1
                          /\ n[i].stage \in {"claim", "kids"} <=> n[i].sid # 0
                          /\ n[i].sid # 0 => \E m \in DOMAIN ins : ins[m] = n[i].sid
                          /\ n[i].stage # "lookup" => n[i].base <= Len(ins)
  BY <1>1 DEF FramesSound
<1>3. \A i, j \in DOMAIN n : i < j => i + 1 < j + 1
  BY <1>0
<1>4. \A i, j \in DOMAIN n : i < j /\ n[i].stage # "lookup" =>
        /\ n[j].base <= n[i].base
        /\ n[j].sid # 0 => \E m \in 1 .. n[i].base : ins[m] = n[j].sid
  BY <1>1, <1>3 DEF FramesSound
<1> HIDE DEF n
<1>5. FramesSound(n, ins)
  BY <1>2, <1>4 DEF FramesSound
<1> QED BY <1>5 DEF n

\* What the innermost frame has called for is taken back.
LEMMA FramesTakeBack ==
  ASSUME NEW st \in Seq(FrameType), st # <<>>, NEW ins \in Seq(Sid), FramesSound(st, ins),
         st[1].stage # "lookup", st[1].sid = 0
  PROVE  /\ SubSeq(ins, 1, st[1].base) \in Seq(Sid)
         /\ FramesSound(st, SubSeq(ins, 1, st[1].base))
<1> DEFINE b == st[1].base
           less == SubSeq(ins, 1, b)
<1>0. /\ Len(st) \in Nat \ {0} /\ DOMAIN st = 1 .. Len(st) /\ 1 \in DOMAIN st /\ st[1] \in FrameType
      /\ \A i \in DOMAIN st : st[i] \in FrameType
  OBVIOUS
<1>1. b \in Nat /\ b <= Len(ins)
  BY <1>0 DEF FramesSound, FrameType
<1>2. less \in Seq(Sid) /\ Len(less) = b /\ DOMAIN less = 1 .. b /\ \A i \in 1 .. b : less[i] = ins[i]
  BY <1>1
<1> HIDE DEF less
<1>3. ASSUME NEW i \in DOMAIN st
      PROVE  /\ st[i].stage = "lookup" => i = 1
             /\ st[i].stage \in {"claim", "kids"} <=> st[i].sid # 0
             /\ st[i].sid # 0 => \E m \in DOMAIN less : less[m] = st[i].sid
             /\ st[i].stage # "lookup" => st[i].base <= Len(less)
  <2>1. (st[i].stage = "lookup" => i = 1) /\ (st[i].stage \in {"claim", "kids"} <=> st[i].sid # 0)
    BY DEF FramesSound
  <2>2. CASE i = 1
    BY <2>1, <2>2, <1>2, <1>1
  <2>3. CASE i > 1
    <3>1. st[i].base <= b /\ (st[i].sid # 0 => \E m \in 1 .. b : ins[m] = st[i].sid)
      BY <1>0, <2>3 DEF FramesSound
    <3> QED BY <2>1, <3>1, <1>2
  <2> QED BY <1>0, <2>2, <2>3
<1>4. ASSUME NEW i \in DOMAIN st, NEW j \in DOMAIN st, i < j, st[i].stage # "lookup"
      PROVE  /\ st[j].base <= st[i].base
             /\ st[j].sid # 0 => \E m \in 1 .. st[i].base : less[m] = st[j].sid
  <2>1. st[j].base <= st[i].base /\ (st[j].sid # 0 => \E m \in 1 .. st[i].base : ins[m] = st[j].sid)
    BY <1>4 DEF FramesSound
  <2>2. st[i].base <= b /\ st[i].base \in Nat
    BY <1>2, <1>3, <1>4, <1>0 DEF FrameType
  <2>3. \A m \in 1 .. st[i].base : less[m] = ins[m]
    BY <1>2, <1>1, <2>2
  <2> QED BY <2>1, <2>3
<1>5. FramesSound(st, less)
  BY <1>3, <1>4 DEF FramesSound
<1> QED BY <1>2, <1>5 DEF less

-----------------------------------------------------------------------------
(* The steps of a transaction.                                             *)

\* What the transaction wrote is committed.
Commits(s) ==
  /\ tx[s] \in {"single", "open"} /\ (op[s] # None => op[s].done)
  /\ rows' = Settled(rows, s) /\ mains' = Settled(mains, s) /\ claims' = Settled(claims, s)
  /\ dispatch' = Settled(dispatch, s) /\ returned' = Settled(returned, s)
  /\ mark'[s] \in {mark[s], stamp[s]} /\ mark[s] <= mark'[s] /\ stamp[s] <= mark'[s]
  /\ held'[s] = IF held[s] # None THEN [held[s] EXCEPT !.tx = FALSE] ELSE None
  /\ stack'[s] = <<>> /\ op'[s] = None /\ stamp'[s] = 0 /\ tx'[s] = "none"
  /\ UNCHANGED <<engine, nextSid, cache, calls>>
  /\ OthersKept(s)

LEMMA SettledTyped ==
  ASSUME TypeInv, NEW s \in Stores, rows' = Settled(rows, s), mains' = Settled(mains, s),
         claims' = Settled(claims, s), dispatch' = Settled(dispatch, s),
         returned' = Settled(returned, s), nextSid' = nextSid
  PROVE  TablesTyped'
<1> USE DEF TypeInv, TablesTyped
<1> DEFINE f == [x \in rows |-> IF x.by = s THEN [x EXCEPT !.by = None] ELSE x]
<1>1. rows' = {f[x] : x \in rows}
  BY DEF Settled
<1>2. \A x \in rows : f[x] \in RowType
  <2> TAKE x \in rows
  <2>1. x \in RowType
    OBVIOUS
  <2>2. [x EXCEPT !.by = None] \in RowType
    BY <2>1 DEF RowType, Writers
  <2> QED BY <2>1, <2>2
<1>3. IsFiniteSet(rows')
  <2> HIDE DEF f
  <2>1. f = [x \in rows |-> f[x]]
    BY DEF f
  <2> QED BY <1>1, <2>1, MappedFinite
<1>4. rows' \subseteq RowType
  BY <1>1, <1>2
<1>5. mains' \subseteq MarkType
  <2>1. \A m \in mains : m \in MarkType /\ [m EXCEPT !.by = None] \in MarkType
    BY DEF MarkType, Writers
  <2> QED BY <2>1 DEF Settled
<1>6. claims' \subseteq ClaimType
  <2>1. \A c \in claims : c \in ClaimType /\ [c EXCEPT !.by = None] \in ClaimType
    BY DEF ClaimType, Writers
  <2> QED BY <2>1 DEF Settled
<1>7. dispatch' \subseteq DispatchType
  <2>1. \A d \in dispatch : d \in DispatchType /\ [d EXCEPT !.by = None] \in DispatchType
    BY DEF DispatchType, Writers
  <2> QED BY <2>1 DEF Settled
<1>8. returned' \subseteq ReturnType
  <2>1. \A r \in returned : r \in ReturnType /\ [r EXCEPT !.by = None] \in ReturnType
    BY DEF ReturnType, Writers
  <2> QED BY <2>1 DEF Settled
<1> HIDE DEF f
<1> QED BY <1>3, <1>4, <1>5, <1>6, <1>7, <1>8

LEMMA CommitEffect ==
  ASSUME TypeInv, NEW s \in Stores, Commit(s)
  PROVE  Commits(s) /\ TypeInv'
<1>0. EndCall(s, "none") /\ "none" \in Phases /\ "none" # "open"
  BY DEF Commit, Phases
<1>1. mark[s] \in Nat /\ stamp[s] \in Nat /\ mark[s] \in 0 .. MaxClock /\ stamp[s] \in 0 .. MaxClock
  BY TransactionsAssumption DEF TypeInv, MemoryTyped, SessionsTyped
<1>2. /\ AdvancedMark(s) \in {mark[s], stamp[s]}
      /\ mark[s] <= AdvancedMark(s) /\ stamp[s] <= AdvancedMark(s)
  BY <1>1, MarkTyped DEF AdvancedMark
<1>3. mark'[s] = AdvancedMark(s) /\ \A t \in Stores \ {s} : mark'[t] = mark[t]
  BY DEF Commit, TypeInv, MemoryTyped
<1>4. /\ held'[s] = IF held[s] # None THEN [held[s] EXCEPT !.tx = FALSE] ELSE None
      /\ \A t \in Stores \ {s} : held'[t] = held[t]
  BY DEF Commit, TypeInv, MemoryTyped
<1>5. tx[s] \in {"single", "open"} /\ (op[s] # None => op[s].done)
  BY DEF Commit
<1>6. Commits(s)
  <2>1. OthersKept(s)
    BY <1>0, <1>3, <1>4, CallEnds DEF OthersKept, Commit
  <2> QED BY <1>0, <1>2, <1>3, <1>4, <1>5, <2>1, CallEnds DEF Commits, Commit
<1>7. TablesTyped'
  BY SettledTyped DEF Commit
<1>8. SessionsTyped'
  BY <1>0, CallEnds DEF SessionsTyped, TypeInv, Commit
<1>9. MemoryTyped'
  <2>1. AdvancedMark(s) \in 0 .. MaxClock
    BY <1>1, <1>2
  <2>2. ASSUME held[s] # None PROVE [held[s] EXCEPT !.tx = FALSE] \in LazyRow
    BY <2>2 DEF TypeInv, MemoryTyped, LazyRow
  <2>3. held' \in [Stores -> LazyRow \cup {None}]
    BY <2>2 DEF Commit, TypeInv, MemoryTyped
  <2>4. mark' \in [Stores -> 0 .. MaxClock]
    BY <2>1 DEF Commit, TypeInv, MemoryTyped
  <2> QED BY <2>3, <2>4 DEF MemoryTyped, TypeInv, Commit
<1>10. Active(s)'
  BY <1>6 DEF Commits, Active
<1>11. \A t \in Stores : Active(t)'
  BY <1>0, <1>10, CallEnds, OthersActive
<1>12. engine' = engine
  BY DEF Commit
<1> QED BY <1>6, <1>7, <1>8, <1>9, <1>11, <1>12 DEF TypeInv

\* A call begins.
Enters(s) ==
  /\ tx[s] \in {"none", "open"} /\ op[s] = None
  /\ op'[s] \in CallType /\ op'[s].sid = 0 /\ op'[s].inserted = <<>> /\ ~op'[s].done
  /\ stack'[s] = <<Frame(op'[s].obj)>>
  /\ tx'[s] \in {"single", "open"}
  /\ stamp'[s] \in 1 .. MaxClock /\ mark[s] <= stamp'[s] /\ (stamp[s] # 0 => stamp'[s] = stamp[s])
  /\ \A e \in cache'[s] \ cache[s] : \E x \in Seen(s, rows) : x.sid = e.sid /\ x.key.content = Content[e.obj]
  /\ UNCHANGED <<engine, db, held, mark, returned>>
  /\ OthersKept(s)

LEMMA EnterEffect ==
  ASSUME TypeInv, NEW s \in Stores, NEW c \in CallType, c.sid = 0, c.inserted = <<>>, ~c.done,
         NEW seen \in SUBSET CacheType,
         \A e \in seen : \E x \in Seen(s, rows) : x.sid = e.sid /\ x.key.content = Content[e.obj],
         Enter(s, c, seen)
  PROVE  Enters(s) /\ TypeInv'
<1> USE TransactionsAssumption
<1>0. /\ tx \in [Stores -> Phases] /\ op \in [Stores -> CallType \cup {None}]
      /\ stack \in [Stores -> Seq(FrameType)] /\ stamp \in [Stores -> 0 .. MaxClock]
      /\ cache \in [Stores -> SUBSET CacheType] /\ MaxClock \in Nat
  BY DEF TypeInv, SessionsTyped, MemoryTyped
<1>1. PICK now \in Captured(s) : now >= mark[s] /\ stamp' = [stamp EXCEPT ![s] = now]
  BY DEF Enter
<1>2. PICK t \in {"single", "open"} : tx' = [tx EXCEPT ![s] = t]
  BY DEF Enter
<1>3. now \in 1 .. MaxClock /\ (stamp[s] # 0 => now = stamp[s])
  BY <1>0 DEF Captured
<1>4. mark[s] <= now
  BY <1>0, <1>1, <1>3 DEF TypeInv, MemoryTyped
<1>5. Frame(c.obj) \in FrameType
  BY FrameTyped DEF CallType
<1>6. /\ op' = [op EXCEPT ![s] = c] /\ stack' = [stack EXCEPT ![s] = <<Frame(c.obj)>>]
      /\ cache' = [cache EXCEPT ![s] = @ \cup seen] /\ calls' = calls + 1 /\ calls < MaxOps
      /\ tx[s] \in {"none", "open"} /\ op[s] = None
      /\ UNCHANGED <<engine, db, held, mark, returned>>
  BY DEF Enter
<1>7. /\ op'[s] = c /\ stack'[s] = <<Frame(c.obj)>> /\ cache'[s] = cache[s] \cup seen
      /\ stamp'[s] = now /\ tx'[s] = t
  BY <1>0, <1>1, <1>2, <1>6
<1>8. \A u \in Stores \ {s} : /\ tx'[u] = tx[u] /\ op'[u] = op[u] /\ stack'[u] = stack[u]
                              /\ stamp'[u] = stamp[u] /\ cache'[u] = cache[u]
  BY <1>0, <1>1, <1>2, <1>6
<1>9. Enters(s)
  <2>1. OthersKept(s)
    BY <1>6, <1>8 DEF OthersKept
  <2>2. \A e \in cache'[s] \ cache[s] : e \in seen
    BY <1>7
  <2> QED BY <1>3, <1>4, <1>6, <1>7, <2>1, <2>2 DEF Enters
<1>10. TablesTyped'
  BY <1>6 DEF TypeInv, TablesTyped, db
<1>11. SessionsTyped'
  <2>1. tx' \in [Stores -> Phases]
    BY <1>0, <1>2 DEF Phases
  <2>2. op' \in [Stores -> CallType \cup {None}] /\ stack' \in [Stores -> Seq(FrameType)]
    BY <1>0, <1>5, <1>6
  <2>3. stamp' \in [Stores -> 0 .. MaxClock]
    BY <1>0, <1>1, <1>3
  <2>4. calls' \in 0 .. MaxOps
    BY <1>6 DEF TypeInv, SessionsTyped
  <2> QED BY <2>1, <2>2, <2>3, <2>4 DEF SessionsTyped
<1>12. MemoryTyped'
  BY <1>0, <1>6 DEF MemoryTyped, TypeInv
<1>13. Active(s)'
  <2>1. c # None
    OBVIOUS
  <2> QED BY <1>3, <1>7, <2>1 DEF Active
<1>14. \A u \in Stores : Active(u)'
  BY <1>8, <1>13, OthersActive
<1> QED BY <1>6, <1>9, <1>10, <1>11, <1>12, <1>14 DEF TypeInv

LEMMA CallTyped ==
  ASSUME NEW o \in Objects, NEW x, x.kin \in Nat, x.group \in Nat, x.id \in EntryIds,
         NEW of \in EntryIds, NEW kind \in Kinds
  PROVE  /\ Call(o, x, of, kind) \in CallType
         /\ Call(o, x, of, kind).sid = 0 /\ Call(o, x, of, kind).inserted = <<>> /\ ~Call(o, x, of, kind).done
<1>1. <<>> \in Seq(Sid)
  OBVIOUS
<1> QED BY <1>1 DEF Call, CallType

LEMMA RequestTyped ==
  ASSUME NEW q \in Requests
  PROVE  q.obj \in Objects /\ q.old \in Objects /\ q.of \in EntryIds /\ q.kind \in Kinds
  BY TransactionsAssumption DEF Calls, EntryIds, Kinds

LEMMA StartEffect ==
  ASSUME TypeInv, SidsUnique, NEW s \in Stores, CacheSound(s), NEW q \in Requests,
         StartSave(s, q) \/ StartAlternative(s, q) \/ StartReplace(s, q)
  PROVE  Enters(s) /\ TypeInv'
<1>0. None \in EntryIds /\ None \in Kinds /\ rows \subseteq RowType
  BY DEF EntryIds, Kinds, TypeInv, TablesTyped
<1>1. CASE StartSave(s, q)
  <2> DEFINE x == [kin |-> 0, group |-> 0, id |-> None]
  <2>1. x.kin \in Nat /\ x.group \in Nat /\ x.id \in EntryIds
    BY <1>0
  <2>2. {} \in SUBSET CacheType
    OBVIOUS
  <2>3. Enter(s, Call(q.obj, x, None, None), {})
    BY <1>1 DEF StartSave
  <2> HIDE DEF x
  <2> QED BY <1>0, <2>1, <2>2, <2>3, CallTyped, RequestTyped, EnterEffect
<1>2. CASE StartAlternative(s, q)
  <2>1. PICK x \in Seen(s, rows) : Enter(s, Call(q.obj, [kin |-> 0, group |-> x.kin, id |-> x.id], x.id, q.kind), {})
    BY <1>2 DEF StartAlternative
  <2>2. x.kin \in Nat /\ x.id \in EntryIds
    BY <1>0 DEF Seen, RowType, Sid
  <2> DEFINE y == [kin |-> 0, group |-> x.kin, id |-> x.id]
  <2>3. y.kin \in Nat /\ y.group \in Nat /\ y.id \in EntryIds
    BY <2>2
  <2>4. {} \in SUBSET CacheType
    OBVIOUS
  <2>5. Enter(s, Call(q.obj, y, x.id, q.kind), {})
    BY <2>1
  <2> HIDE DEF y
  <2> QED BY <2>2, <2>3, <2>4, <2>5, CallTyped, RequestTyped, EnterEffect
<1>3. CASE StartReplace(s, q)
  <2>1. PICK x \in Seen(s, rows) :
           /\ x.sid \in SidsOf(s, q.old)
           /\ Enter(s, Call(q.obj, x, IF x.kind = None THEN None ELSE x.id, x.kind), {[obj |-> q.old, sid |-> x.sid]})
    BY <1>3 DEF StartReplace
  <2>2. x \in rows /\ x.kin \in Nat /\ x.group \in Nat /\ x.id \in EntryIds /\ x.kind \in Kinds /\ x.sid \in Sid
    BY <1>0, <2>1 DEF Seen, RowType, Sid
  <2> DEFINE seen == {[obj |-> q.old, sid |-> x.sid]}
             of == IF x.kind = None THEN None ELSE x.id
  <2>3. of \in EntryIds
    BY <1>0, <2>2
  <2>4. seen \in SUBSET CacheType
    BY <2>2, RequestTyped DEF CacheType
  <2>5. x.key.content = Content[q.old]
    <3> DEFINE known == {e.sid : e \in {c \in cache[s] : c.obj = q.old}}
    <3>1. CASE known # {}
      <4>1. x.sid \in known
        BY <2>1, <3>1 DEF SidsOf
      <4>2. PICK e \in cache[s] : e.obj = q.old /\ e.sid = x.sid
        BY <4>1
      <4>3. PICK y \in Seen(s, rows) : y.sid = e.sid /\ y.key.content = Content[e.obj]
        BY DEF CacheSound
      <4>4. y = x
        BY <2>2, <4>2, <4>3 DEF SidsUnique, Seen
      <4> QED BY <4>2, <4>3, <4>4
    <3>2. CASE known = {}
      <4>1. x.sid \in {y.sid : y \in WithKey(Seen(s, rows), PlainKey(q.old))}
        BY <2>1, <3>2 DEF SidsOf
      <4>2. PICK y \in WithKey(Seen(s, rows), PlainKey(q.old)) : y.sid = x.sid
        BY <4>1
      <4>3. y = x
        BY <2>2, <4>2 DEF SidsUnique, Seen, WithKey
      <4>4. y.key = PlainKey(q.old)
        BY DEF WithKey
      <4> QED BY <4>3, <4>4 DEF PlainKey
    <3> QED BY <3>1, <3>2
  <2>6. \A e \in seen : \E y \in Seen(s, rows) : y.sid = e.sid /\ y.key.content = Content[e.obj]
    BY <2>1, <2>5
  <2>7. Enter(s, Call(q.obj, x, of, x.kind), seen)
    BY <2>1
  <2> HIDE DEF seen, of
  <2> QED BY <2>2, <2>3, <2>4, <2>6, <2>7, CallTyped, RequestTyped, EnterEffect
<1> QED BY <1>1, <1>2, <1>3

-----------------------------------------------------------------------------
(* The steps of a frame.                                                   *)

\* Each row stays, and those of other transactions stay as they are.
RowsLike(s) ==
  /\ \A x \in rows : \E y \in rows' : Like(x, y) /\ y.by = x.by /\ (x.by # s => y = x)
  /\ \A y \in rows' : \E x \in rows : Like(x, y) /\ y.by = x.by /\ (x.by # s => y = x)

LEMMA RowsAlike ==
  ASSUME rows' = rows, NEW s
  PROVE  RowsLike(s)
  BY DEF RowsLike, Like

LEMMA RowReplaced ==
  ASSUME TypeInv, SidsUnique, NEW s, NEW x \in rows, NEW y \in RowType, Like(x, y), x.by = s, y.by = s,
         rows' = (rows \ {x}) \cup {y}
  PROVE  /\ RowsLike(s) /\ IsFiniteSet(rows') /\ rows' \subseteq RowType
         /\ \A z, w \in rows' : z.sid = w.sid => z = w
<1>1. IsFiniteSet(rows \ {x})
  BY FS_Subset DEF TypeInv, TablesTyped
<1>2. IsFiniteSet(rows')
  BY <1>1, FS_AddElement
<1>3. rows' \subseteq RowType
  BY DEF TypeInv, TablesTyped
<1>4. \A z \in rows : Like(z, z)
  BY DEF Like
<1>5. RowsLike(s)
  <2>1. ASSUME NEW z \in rows PROVE \E w \in rows' : Like(z, w) /\ w.by = z.by /\ (z.by # s => w = z)
    <3>1. CASE z = x
      BY <3>1
    <3>2. CASE z # x
      BY <3>2, <1>4
    <3> QED BY <3>1, <3>2
  <2>2. ASSUME NEW w \in rows' PROVE \E z \in rows : Like(z, w) /\ w.by = z.by /\ (z.by # s => w = z)
    <3>1. CASE w = y
      BY <3>1
    <3>2. CASE w # y
      BY <3>2, <1>4
    <3> QED BY <3>1, <3>2
  <2> QED BY <2>1, <2>2 DEF RowsLike
<1>6. \A z \in rows \ {x} : z.sid # y.sid
  BY DEF SidsUnique, Like
<1>7. \A z, w \in rows' : z.sid = w.sid => z = w
  BY <1>6 DEF SidsUnique
<1> QED BY <1>2, <1>3, <1>5, <1>7

LEMMA TopTyped ==
  ASSUME TypeInv, NEW s \in Stores, stack[s] # <<>>
  PROVE  /\ stack[s] \in Seq(FrameType) /\ Top(s) = stack[s][1] /\ Top(s) \in FrameType
         /\ 1 \in DOMAIN stack[s]
         /\ op[s] \in CallType /\ op[s] # None /\ op[s].sid = 0 /\ ~op[s].done
         /\ tx[s] \in {"single", "open"} /\ stamp[s] \in 1 .. MaxClock
<1> USE TransactionsAssumption
<1>1. stack[s] \in Seq(FrameType)
  BY DEF TypeInv, SessionsTyped
<1>2. /\ op[s] # None /\ op[s].sid = 0 /\ ~op[s].done /\ tx[s] \in {"single", "open"} /\ stamp[s] # 0
  BY DEF TypeInv, Active
<1>3. op[s] \in CallType /\ stamp[s] \in 1 .. MaxClock
  BY <1>2 DEF TypeInv, SessionsTyped
<1> QED BY <1>1, <1>2, <1>3 DEF Top

LEMMA KeyTyped ==
  ASSUME TypeInv, NEW s \in Stores, stack[s] # <<>>
  PROVE  /\ Key(s) \in Keys /\ Key(s).content = Content[Top(s).obj] /\ Con(s) \in Contents
         /\ Kin(s) \in Nat /\ Group(s) \in Nat /\ Kind(s) \in Kinds /\ ForcedId(s) \in EntryIds
         /\ GivenId[Top(s).obj] \in EntryIds
<1>1. Top(s) \in FrameType /\ op[s] \in CallType
  BY TopTyped
<1>2. Top(s).obj \in Objects
  BY <1>1 DEF FrameType
<1>3. Con(s) \in Contents /\ Con(s) = Content[Top(s).obj]
  BY <1>2 DEF Con, Contents
<1>4. None \in EntryIds /\ None \in Kinds
  BY DEF EntryIds, Kinds
<1>5. Key(s) \in Keys /\ Key(s).content = Content[Top(s).obj]
  <2>1. op[s].of \in EntryIds /\ op[s].kind \in Kinds
    BY <1>1 DEF CallType
  <2>2. CASE IsRoot(s)
    BY <1>3, <2>1, <2>2 DEF Key, Keys
  <2>3. CASE ~IsRoot(s)
    BY <1>3, <1>4, <2>3 DEF Key, Keys, PlainKey, Con
  <2> QED BY <2>2, <2>3
<1>6. Kin(s) \in Nat /\ Group(s) \in Nat /\ Kind(s) \in Kinds /\ ForcedId(s) \in EntryIds
  BY <1>1, <1>4 DEF Kin, Group, Kind, ForcedId, CallType
<1>7. GivenId[Top(s).obj] \in EntryIds
  BY <1>2 DEF EntryIds
<1> QED BY <1>3, <1>5, <1>6, <1>7

\* The innermost frame hands a sid to its caller.
ReturnsTo(s, n) ==
  \/ Tail(stack[s]) = <<>> /\ stack'[s] = <<>> /\ op'[s] = [op[s] EXCEPT !.sid = n]
  \/ /\ Tail(stack[s]) # <<>> /\ op'[s] = op[s]
     /\ \E f \in FrameType :
          /\ GoesOn(stack'[s], Tail(stack[s]), f)
          /\ f.obj = stack[s][2].obj /\ f.stage = stack[s][2].stage
          /\ f.sid = stack[s][2].sid /\ f.base = stack[s][2].base

CameBack(s, n) ==
  /\ stack[s] # <<>> /\ n \in Sid /\ ReturnsTo(s, n)
  /\ cache'[s] = cache[s] \cup {[obj |-> Top(s).obj, sid |-> n]}
  /\ UNCHANGED <<engine, claims, dispatch, nextSid, tx, stamp, held, mark, calls, returned>>
  /\ OthersKept(s)

LEMMA ReturnEffect ==
  ASSUME TypeInv, NEW s \in Stores, stack[s] # <<>>, NEW n \in Sid, Return(s, n), Remember(s, n),
         UNCHANGED <<engine, claims, dispatch, nextSid, tx, stamp, held, mark, calls, returned>>
  PROVE  /\ CameBack(s, n)
         /\ SessionsTyped' /\ MemoryTyped' /\ \A t \in Stores : Active(t)'
<1> DEFINE callers == Tail(stack[s])
           g == [Head(callers) EXCEPT !.got = @ \cup {<<Top(s).obj, n>>}]
           st == IF callers = <<>> THEN <<>> ELSE GoOn(g) \o Tail(callers)
           c == [op[s] EXCEPT !.sid = IF callers = <<>> THEN n ELSE @]
<1>0. /\ tx \in [Stores -> Phases] /\ op \in [Stores -> CallType \cup {None}]
      /\ stack \in [Stores -> Seq(FrameType)] /\ stamp \in [Stores -> 0 .. MaxClock]
      /\ cache \in [Stores -> SUBSET CacheType] /\ calls \in 0 .. MaxOps
  BY DEF TypeInv, SessionsTyped, MemoryTyped
<1>1. /\ stack[s] \in Seq(FrameType) /\ Top(s) = stack[s][1] /\ Top(s) \in FrameType /\ op[s] \in CallType
      /\ op[s] # None /\ op[s].sid = 0 /\ ~op[s].done /\ tx[s] \in {"single", "open"} /\ stamp[s] \in 1 .. MaxClock
  BY TopTyped
<1>2. callers \in Seq(FrameType)
  BY <1>1
<1>3. Top(s).obj \in Objects
  BY <1>1 DEF FrameType
<1>4. stack' = [stack EXCEPT ![s] = st] /\ op' = [op EXCEPT ![s].sid = IF callers = <<>> THEN n ELSE @]
  BY DEF Return
<1>5. stack'[s] = st /\ op'[s] = c
  BY <1>0, <1>1, <1>4
<1>6. c \in CallType /\ ~c.done /\ c # None
  BY ZenonT(20), <1>1, TransactionsAssumption DEF CallType, Sid
<1>7. ASSUME callers # <<>>
      PROVE  /\ st \in Seq(FrameType) /\ c = op[s]
             /\ g \in FrameType /\ GoesOn(st, callers, g)
             /\ g.obj = stack[s][2].obj /\ g.stage = stack[s][2].stage
             /\ g.sid = stack[s][2].sid /\ g.base = stack[s][2].base
  <2>1. Head(callers) = stack[s][2] /\ Head(callers) \in FrameType
    BY <1>1, <1>2, <1>7
  <2>2. g \in FrameType /\ g.obj = stack[s][2].obj /\ g.stage = stack[s][2].stage
        /\ g.sid = stack[s][2].sid /\ g.base = stack[s][2].base
    <3>1. PICK h \in FrameType : h = Head(callers)
      BY <2>1
    <3>2. h.got \cup {<<Top(s).obj, n>>} \in SUBSET (Objects \X Nat)
      BY <1>3 DEF FrameType, Sid
    <3>3. PICK got \in SUBSET (Objects \X Nat) : got = h.got \cup {<<Top(s).obj, n>>}
      BY <3>2
    <3>4. g = [h EXCEPT !.got = got]
      BY <3>1, <3>3
    <3> HIDE DEF g
    <3>5. g \in FrameType /\ g.obj = h.obj /\ g.stage = h.stage /\ g.sid = h.sid /\ g.base = h.base
      BY <3>4 DEF FrameType
    <3> QED BY <2>1, <3>1, <3>5
  <2> HIDE DEF g
  <2>3. GoesOn(GoOn(g) \o Tail(callers), callers, g)
    BY <1>2, <1>7, <2>2, WentOn
  <2>4. st = GoOn(g) \o Tail(callers)
    BY <1>7
  <2>5. c = op[s]
    BY <1>1, <1>7 DEF CallType
  <2> QED BY <2>2, <2>3, <2>4, <2>5 DEF GoesOn
<1>8. ASSUME callers = <<>> PROVE st = <<>> /\ c = [op[s] EXCEPT !.sid = n]
  BY <1>8
<1> HIDE DEF st, c
<1>9. ReturnsTo(s, n)
  BY <1>5, <1>7, <1>8 DEF ReturnsTo
<1>10. st \in Seq(FrameType)
  <2>1. CASE callers = <<>>
    <3>1. <<>> \in Seq(FrameType)
      OBVIOUS
    <3> QED BY <1>8, <2>1, <3>1
  <2>2. CASE callers # <<>>
    BY <1>7, <2>2
  <2> QED BY <2>1, <2>2
<1>11. op' \in [Stores -> CallType \cup {None}]
  <2>1. op' = [op EXCEPT ![s] = c]
    BY <1>0, <1>1, <1>4 DEF c
  <2> QED BY <1>0, <1>6, <2>1
<1>12. stack' \in [Stores -> Seq(FrameType)]
  BY <1>0, <1>4, <1>10
<1>13. /\ cache'[s] = cache[s] \cup {[obj |-> Top(s).obj, sid |-> n]}
       /\ cache' \in [Stores -> SUBSET CacheType]
       /\ \A t \in Stores \ {s} : cache'[t] = cache[t]
  BY <1>0, <1>3 DEF Remember, CacheType
<1>14. \A t \in Stores \ {s} : op'[t] = op[t] /\ stack'[t] = stack[t]
  BY <1>0, <1>4
<1>15. OthersKept(s)
  BY <1>13, <1>14 DEF OthersKept
<1>16. Active(s)'
  <2>1. stack'[s] # <<>> => op'[s].sid = 0
    BY <1>1, <1>5, <1>7, <1>8
  <2> QED BY <1>1, <1>5, <1>6, <2>1 DEF Active
<1>17. \A t \in Stores : Active(t)'
  BY <1>14, <1>16, OthersActive
<1> QED BY <1>0, <1>9, <1>11, <1>12, <1>13, <1>15, <1>17
        DEF CameBack, SessionsTyped, MemoryTyped, TypeInv

\* The frame goes on; what it knows of its sid stays.
Moves(s) ==
  /\ stack[s] # <<>> /\ Top(s).stage \in {"lookup", "refs"}
  /\ \E f \in FrameType :
       /\ GoesOn(stack'[s], stack[s], f)
       /\ f.obj = Top(s).obj /\ f.sid = Top(s).sid /\ f.stage \in {"refs", "insert"}
       /\ f.base = IF Top(s).stage = "lookup" THEN Len(op[s].inserted) ELSE Top(s).base
  /\ UNCHANGED <<engine, db, tx, op, stamp, memory, calls, returned>>
  /\ OthersKept(s)

LEMMA MoveEffect ==
  ASSUME TypeInv, NEW s \in Stores, stack[s] # <<>>, Top(s).stage \in {"lookup", "refs"},
         NEW f \in FrameType, NEW st, GoesOn(st, stack[s], f), stack' = [stack EXCEPT ![s] = st],
         f.obj = Top(s).obj, f.sid = Top(s).sid, f.stage \in {"refs", "insert"},
         f.base = IF Top(s).stage = "lookup" THEN Len(op[s].inserted) ELSE Top(s).base,
         UNCHANGED <<engine, db, tx, op, stamp, memory, calls, returned>>
  PROVE  Moves(s) /\ TypeInv'
<1>0. stack \in [Stores -> Seq(FrameType)]
  BY DEF TypeInv, SessionsTyped
<1>1. st \in Seq(FrameType)
  BY DEF GoesOn
<1>2. stack'[s] = st /\ stack' \in [Stores -> Seq(FrameType)] /\ \A t \in Stores \ {s} : stack'[t] = stack[t]
  BY <1>0, <1>1
<1>3. OthersKept(s)
  BY <1>2 DEF OthersKept, memory
<1>4. Moves(s)
  BY <1>2, <1>3 DEF Moves
<1>5. Active(s)'
  BY TopTyped DEF Active, TypeInv
<1>6. \A t \in Stores : Active(t)'
  BY <1>2, <1>5, OthersActive
<1>7. TablesTyped' /\ SessionsTyped' /\ MemoryTyped'
  BY <1>2 DEF TypeInv, TablesTyped, SessionsTyped, MemoryTyped, db, memory
<1> QED BY <1>4, <1>6, <1>7 DEF TypeInv

LEMMA LookupMoves ==
  ASSUME TypeInv, NEW s \in Stores, Saving(s, "lookup"),
         stack' = [stack EXCEPT ![s] =
           GoOn([Top(s) EXCEPT !.stage = "refs", !.base = Len(op[s].inserted)]) \o Tail(@)],
         UNCHANGED <<engine, db, tx, op, stamp, memory, calls, returned>>
  PROVE  Moves(s) /\ TypeInv'
<1> DEFINE f == [Top(s) EXCEPT !.stage = "refs", !.base = Len(op[s].inserted)]
<1>1. /\ stack[s] # <<>> /\ Top(s).stage = "lookup" /\ Top(s) \in FrameType /\ op[s] \in CallType
      /\ stack[s] \in Seq(FrameType)
  BY TopTyped DEF Saving, Top
<1>2. Len(op[s].inserted) \in Nat
  BY <1>1 DEF CallType
<1>3. /\ f \in FrameType /\ f.obj = Top(s).obj /\ f.sid = Top(s).sid /\ f.stage = "refs"
      /\ f.base = Len(op[s].inserted)
  <2>1. PICK n \in Nat : n = Len(op[s].inserted)
    BY <1>2
  <2> QED BY <1>1, <2>1 DEF FrameType, Stages
<1> HIDE DEF f
<1>4. GoesOn(GoOn(f) \o Tail(stack[s]), stack[s], f)
  BY <1>1, <1>3, WentOn
<1>5. stack' = [stack EXCEPT ![s] = GoOn(f) \o Tail(stack[s])]
  BY DEF f
<1> QED BY <1>1, <1>3, <1>4, <1>5, MoveEffect

LEMMA PrepareEffect ==
  ASSUME TypeInv, NEW s \in Stores, Prepare(s)
  PROVE  (Moves(s) \/ Undone(s)) /\ TypeInv'
<1>1. CASE RaiseConflict(s)
  BY <1>1, ConflictUndoes
<1>2. CASE /\ Stay(s, [Top(s) EXCEPT !.stage = "insert"])
           /\ UNCHANGED <<engine, db, tx, op, stamp, memory, calls, returned>>
  <2> DEFINE f == [Top(s) EXCEPT !.stage = "insert"]
  <2>1. /\ stack[s] # <<>> /\ Top(s).stage = "refs" /\ Top(s) \in FrameType /\ stack[s] \in Seq(FrameType)
    BY TopTyped DEF Prepare, Saving, Top
  <2>2. /\ f \in FrameType /\ f.obj = Top(s).obj /\ f.sid = Top(s).sid /\ f.stage = "insert"
        /\ f.base = Top(s).base
    BY <2>1 DEF FrameType, Stages
  <2> HIDE DEF f
  <2>3. GoesOn(<<f>> \o Tail(stack[s]), stack[s], f)
    BY <2>1, <2>2, Changed
  <2>4. stack' = [stack EXCEPT ![s] = <<f>> \o Tail(stack[s])]
    BY <1>2 DEF f, Stay
  <2> QED BY <1>2, <2>1, <2>2, <2>3, <2>4, MoveEffect
<1> QED BY <1>1, <1>2 DEF Prepare

\* The content is stored already.
Hits(s, x) ==
  /\ CameBack(s, x.sid)
  /\ rows' = rows /\ mains' = Promoted(s, x)
  /\ x \in Seen(s, rows) /\ x.key = Key(s) /\ ~Collides(s, x)

LEMMA HitEffect ==
  ASSUME TypeInv, NEW s \in Stores, stack[s] # <<>>, NEW x \in Seen(s, rows), x.key = Key(s), Hit(s, x)
  PROVE  (Hits(s, x) \/ Undone(s) \/ CaughtIn(s)) /\ TypeInv'
<1>1. CASE Collides(s, x) \/ Differs(s, x)
  <2>1. Raise(s)
    BY <1>1 DEF Hit
  <2> QED BY <2>1, RaiseEffect
<1>2. CASE ~(Collides(s, x) \/ Differs(s, x))
  <2>1. /\ mains' = Promoted(s, x) /\ Return(s, x.sid) /\ Remember(s, x.sid)
        /\ UNCHANGED <<engine, rows, claims, dispatch, nextSid, tx, stamp, held, mark, calls, returned>>
    BY <1>2 DEF Hit
  <2>2. x.sid \in Sid
    BY DEF Seen, TypeInv, TablesTyped, RowType
  <2>3. CameBack(s, x.sid) /\ SessionsTyped' /\ MemoryTyped' /\ \A t \in Stores : Active(t)'
    BY <2>1, <2>2, ReturnEffect
  <2>4. mains' \subseteq MarkType
    BY <2>1, <2>2 DEF Promoted, MarkType, Writers, TypeInv, TablesTyped
  <2>5. TablesTyped'
    BY <2>1, <2>4 DEF TypeInv, TablesTyped
  <2>6. Hits(s, x)
    BY <1>2, <2>1, <2>3 DEF Hits
  <2>7. engine' = engine
    BY <2>1
  <2> QED BY <2>3, <2>5, <2>6, <2>7 DEF TypeInv
<1> QED BY <1>1, <1>2

LEMMA LookupEffect ==
  ASSUME TypeInv, NEW s \in Stores, Lookup(s)
  PROVE  (Moves(s) \/ Undone(s) \/ CaughtIn(s) \/ \E x \in rows : Hits(s, x)) /\ TypeInv'
<1> DEFINE found == IF Policy[Con(s)] = "content_id" THEN WithKey(Seen(s, rows), Key(s)) ELSE {}
<1>1. ASSUME NEW x \in found, Hit(s, x)
      PROVE  (Moves(s) \/ Undone(s) \/ CaughtIn(s) \/ \E y \in rows : Hits(s, y)) /\ TypeInv'
  <2>1. x \in Seen(s, rows) /\ x.key = Key(s) /\ x \in rows
    BY DEF WithKey, Seen
  <2>2. stack[s] # <<>>
    BY DEF Lookup, Saving
  <2> HIDE DEF found
  <2> QED BY <1>1, <2>1, <2>2, HitEffect
<1>2. CASE /\ found = {}
           /\ stack' = [stack EXCEPT ![s] =
                GoOn([Top(s) EXCEPT !.stage = "refs", !.base = Len(op[s].inserted)]) \o Tail(@)]
           /\ UNCHANGED <<engine, db, tx, op, stamp, memory, calls, returned>>
  <2>1. Saving(s, "lookup")
    BY DEF Lookup
  <2> QED BY <1>2, <2>1, LookupMoves
<1> QED BY <1>1, <1>2 DEF Lookup

LEMMA HitLateEffect ==
  ASSUME TypeInv, NEW s \in Stores, HitLate(s)
  PROVE  (Undone(s) \/ CaughtIn(s) \/ \E x \in rows : Hits(s, x)) /\ TypeInv'
<1>1. PICK x \in Matches(s) : Hit(s, x)
  BY DEF HitLate
<1>2. x \in Seen(s, rows) /\ x.key = Key(s) /\ x \in rows
  BY DEF Matches, WithKey, Seen
<1>3. stack[s] # <<>>
  BY DEF HitLate, Inserting, Saving
<1> QED BY <1>1, <1>2, <1>3, HitEffect

\* The row of the innermost frame.
LEMMA RowOfFrame ==
  ASSUME TypeInv, SidsUnique, NEW s \in Stores, FramesHaveRows(s), stack[s] # <<>>, Top(s).sid # 0
  PROVE  /\ Row(Top(s).sid) \in rows /\ Row(Top(s).sid) \in RowType /\ Row(Top(s).sid).sid = Top(s).sid
         /\ Row(Top(s).sid).by = s /\ Row(Top(s).sid).key.content = Content[Top(s).obj]
<1>1. Top(s) = stack[s][1] /\ 1 \in DOMAIN stack[s]
  BY TopTyped
<1>2. PICK x \in rows : x.sid = Top(s).sid /\ x.by = s /\ x.key.content = Content[Top(s).obj]
  BY <1>1 DEF FramesHaveRows
<1>3. Row(Top(s).sid) \in rows /\ Row(Top(s).sid).sid = Top(s).sid
  BY <1>2 DEF Row
<1>4. Row(Top(s).sid) = x
  BY <1>2, <1>3 DEF SidsUnique
<1> QED BY <1>2, <1>4 DEF TypeInv, TablesTyped

\* Ids are claimed, in the row of the frame.
Claims(s) ==
  /\ stack[s] # <<>> /\ Top(s).sid # 0 /\ Top(s).stage = "claim"
  /\ RowsLike(s) /\ SidsUnique'
  /\ \E f \in FrameType :
       /\ GoesOn(stack'[s], stack[s], f)
       /\ f.obj = Top(s).obj /\ f.sid = Top(s).sid /\ f.stage = "kids" /\ f.base = Top(s).base
  /\ UNCHANGED <<engine, mains, dispatch, nextSid, tx, op, stamp, memory, calls, returned>>
  /\ OthersKept(s)

LEMMA IdsTyped ==
  ASSUME TypeInv, NEW s \in Stores, stack[s] # <<>>, NEW x \in RowType
  PROVE  FinalId(s, x) \in EntryIds /\ ImmutableId(s, x) \in EntryIds \X Kinds \X Nat
<1>1. EarlyId(s) \in EntryIds
  BY KeyTyped DEF EarlyId
<1>2. x.kin \in Nat /\ x.kind \in Kinds
  BY DEF RowType, Sid
<1>3. <<x.kin>> \in EntryIds
  <2>1. <<x.kin>> \in Seq(Nat)
    BY <1>2
  <2> QED BY <2>1 DEF EntryIds
<1>4. FinalId(s, x) \in EntryIds
  BY <1>1, <1>3 DEF FinalId
<1>5. Revision(s, x) \in Nat
  <2> DEFINE S == {y \in Seen(s, rows) : y.kin = x.kin /\ y.sid # x.sid}
  <2>1. IsFiniteSet(S)
    <3>1. S \subseteq rows
      BY DEF Seen
    <3> HIDE DEF S
    <3> QED BY <3>1, FS_Subset DEF TypeInv, TablesTyped
  <2>2. Cardinality(S) \in Nat
    BY <2>1, FS_CardinalityType
  <2> QED BY <2>2 DEF Revision
<1> QED BY <1>2, <1>4, <1>5 DEF ImmutableId

LEMMA ClaimEffect ==
  ASSUME TypeInv, SidsUnique, NEW s \in Stores, FramesHaveRows(s), StackSound(s), Claim(s)
  PROVE  (Claims(s) \/ Undone(s)) /\ TypeInv'
<1> DEFINE x == Row(Top(s).sid)
           y == [x EXCEPT !.id = FinalId(s, x), !.imm = ImmutableId(s, x)]
           f == [Top(s) EXCEPT !.stage = "kids"]
<1>1. /\ stack[s] # <<>> /\ Top(s).stage = "claim" /\ Top(s) \in FrameType /\ stack[s] \in Seq(FrameType)
      /\ 1 \in DOMAIN stack[s] /\ Top(s) = stack[s][1] /\ op[s] # None
  BY TopTyped DEF Claim, Saving, Top
<1>2. Top(s).sid # 0
  BY <1>1 DEF StackSound, FramesSound
<1>3. x \in rows /\ x \in RowType /\ x.sid = Top(s).sid /\ x.by = s
  BY <1>1, <1>2, RowOfFrame
<1>4. FinalId(s, x) \in EntryIds /\ ImmutableId(s, x) \in EntryIds \X Kinds \X Nat
  BY <1>1, <1>3, IdsTyped
<1>5. CASE RaiseConflict(s)
  BY <1>5, ConflictUndoes
<1>6. CASE /\ rows' = (rows \ {x}) \cup {y}
           /\ claims' = claims \cup {d \in IdClaims(s, x) : \A c \in Seen(s, claims) : ~SameId(c, d)}
           /\ stack' = [stack EXCEPT ![s] = GoOn(f) \o Tail(@)]
           /\ UNCHANGED <<engine, mains, dispatch, nextSid, tx, op, stamp, memory, calls, returned>>
  <2>1. y \in RowType /\ Like(x, y) /\ y.by = s
    <3>1. PICK z \in RowType : z = x
      BY <1>3
    <3>2. PICK i \in EntryIds, j \in EntryIds \X Kinds \X Nat : i = FinalId(s, x) /\ j = ImmutableId(s, x)
      BY <1>4
    <3>3. y = [z EXCEPT !.id = i, !.imm = j]
      BY <3>1, <3>2
    <3>4. z.by = s
      BY <3>1, <1>3
    <3> HIDE DEF x, y
    <3> QED BY <3>1, <3>3, <3>4 DEF RowType, Like
  <2>2. f \in FrameType /\ f.obj = Top(s).obj /\ f.sid = Top(s).sid /\ f.stage = "kids" /\ f.base = Top(s).base
    BY <1>1 DEF FrameType, Stages
  <2>3. IdClaims(s, x) \subseteq ClaimType
    <3> HIDE DEF x
    <3> QED BY <1>3, <1>4, ClaimTyped DEF IdClaims, Writers
  <2> HIDE DEF x, y, f
  <2>4. RowsLike(s) /\ IsFiniteSet(rows') /\ rows' \subseteq RowType /\ \A z, w \in rows' : z.sid = w.sid => z = w
    BY <1>3, <1>6, <2>1, RowReplaced
  <2>5. SidsUnique'
    <3>1. engine = "postgresql" => \A z \in rows' : z.sid < nextSid
      BY <2>4 DEF SidsUnique, RowsLike, Like
    <3> QED BY <1>6, <2>4, <3>1 DEF SidsUnique
  <2>6. GoesOn(GoOn(f) \o Tail(stack[s]), stack[s], f)
    BY <1>1, <2>2, WentOn
  <2>7. stack'[s] = GoOn(f) \o Tail(stack[s]) /\ \A t \in Stores \ {s} : stack'[t] = stack[t]
    BY <1>6 DEF TypeInv, SessionsTyped
  <2>8. stack' \in [Stores -> Seq(FrameType)]
    BY <1>6, <2>6 DEF TypeInv, SessionsTyped, GoesOn
  <2>9. OthersKept(s)
    BY <1>6, <2>7 DEF OthersKept, memory
  <2>10. Claims(s)
    BY <1>1, <1>2, <1>6, <2>2, <2>4, <2>5, <2>6, <2>7, <2>9 DEF Claims
  <2>11. Active(s)'
    BY <1>1, <1>6, TopTyped DEF Active, TypeInv
  <2>12. \A t \in Stores : Active(t)'
    BY <1>6, <2>7, <2>11, OthersActive
  <2>13. TablesTyped'
    BY <1>6, <2>3, <2>4 DEF TypeInv, TablesTyped
  <2>14. SessionsTyped' /\ MemoryTyped'
    BY <1>6, <2>8 DEF TypeInv, SessionsTyped, MemoryTyped, memory
  <2> QED BY <1>6, <2>10, <2>12, <2>13, <2>14 DEF TypeInv
<1>7. \/ RaiseConflict(s)
      \/ /\ rows' = (rows \ {x}) \cup {y}
         /\ claims' = claims \cup {d \in IdClaims(s, x) : \A c \in Seen(s, claims) : ~SameId(c, d)}
         /\ stack' = [stack EXCEPT ![s] = GoOn(f) \o Tail(@)]
         /\ UNCHANGED <<engine, mains, dispatch, nextSid, tx, op, stamp, memory, calls, returned>>
  BY DEF Claim
<1> QED BY <1>5, <1>6, <1>7

\* The child rows are written.
WritesKids(s) ==
  /\ CameBack(s, Top(s).sid) /\ RowsLike(s) /\ SidsUnique' /\ mains' = mains

LEMMA WriteKidsEffect ==
  ASSUME TypeInv, SidsUnique, NEW s \in Stores, FramesHaveRows(s), StackSound(s), WriteKids(s)
  PROVE  WritesKids(s) /\ TypeInv'
<1> DEFINE x == Row(Top(s).sid)
           kids == GotSids(s, Items[Top(s).obj])
           y == [x EXCEPT !.kids = kids]
<1>1. /\ stack[s] # <<>> /\ Top(s).stage = "kids" /\ Top(s) \in FrameType /\ stack[s] \in Seq(FrameType)
      /\ 1 \in DOMAIN stack[s] /\ Top(s) = stack[s][1] /\ op[s] # None
  BY TopTyped DEF WriteKids, Saving, Top
<1>2. Top(s).sid # 0 /\ Top(s).sid \in Sid
  BY <1>1 DEF StackSound, FramesSound, FrameType, Sid
<1>3. x \in rows /\ x \in RowType /\ x.sid = Top(s).sid /\ x.by = s
  BY <1>1, <1>2, RowOfFrame
<1>4. kids \in SUBSET Nat
  BY <1>1 DEF GotSids, FrameType
<1>5. /\ rows' = (rows \ {x}) \cup {y} /\ Return(s, Top(s).sid) /\ Remember(s, Top(s).sid)
      /\ UNCHANGED <<engine, mains, claims, dispatch, nextSid, tx, stamp, held, mark, calls, returned>>
  BY DEF WriteKids
<1>6. y \in RowType /\ Like(x, y) /\ y.by = s
  <2>1. PICK z \in RowType : z = x
    BY <1>3
  <2>2. PICK k \in SUBSET Nat : k = kids
    BY <1>4
  <2>3. y = [z EXCEPT !.kids = k]
    BY <2>1, <2>2
  <2>4. z.by = s
    BY <2>1, <1>3
  <2> HIDE DEF x, y
  <2> QED BY <2>1, <2>3, <2>4 DEF RowType, Like
<1> HIDE DEF x, y
<1>7. RowsLike(s) /\ IsFiniteSet(rows') /\ rows' \subseteq RowType /\ \A z, w \in rows' : z.sid = w.sid => z = w
  BY <1>3, <1>5, <1>6, RowReplaced
<1>8. SidsUnique'
  <2>1. engine = "postgresql" => \A z \in rows' : z.sid < nextSid
    BY <1>7 DEF SidsUnique, RowsLike, Like
  <2> QED BY <1>5, <1>7, <2>1 DEF SidsUnique
<1>9. CameBack(s, Top(s).sid) /\ SessionsTyped' /\ MemoryTyped' /\ \A t \in Stores : Active(t)'
  BY <1>1, <1>2, <1>5, ReturnEffect
<1>10. TablesTyped'
  BY <1>5, <1>7 DEF TypeInv, TablesTyped
<1> QED BY <1>5, <1>7, <1>8, <1>9, <1>10 DEF WritesKids, TypeInv

\* A sid that an insert gives is a new one.
LEMMA NewSidFresh ==
  ASSUME TypeInv, SidsUnique, NEW s \in Stores, ~Locked(s)
  PROVE  /\ NewSid(s) \in Sid /\ (engine = "postgresql" => NewSid(s) = nextSid)
         /\ \A x \in rows : x.sid < NewSid(s) /\ x.sid # NewSid(s)
<1>1. CASE engine = "postgresql"
  <2>1. NewSid(s) = nextSid /\ nextSid \in Sid
    BY <1>1 DEF NewSid, TypeInv, TablesTyped
  <2>2. \A x \in rows : x.sid < nextSid /\ x.sid \in Nat
    BY <1>1 DEF SidsUnique, TypeInv, TablesTyped, RowType, Sid
  <2> QED BY <2>1, <2>2 DEF Sid
<1>2. CASE engine = "sqlite"
  <2> DEFINE T == {x.sid : x \in Seen(s, rows)}
             S == {0} \cup T
  <2>1. Seen(s, rows) = rows
    <3>1. \A x \in rows : x.by \in Stores \cup {None}
      BY DEF TypeInv, TablesTyped, RowType, Writers
    <3>2. \A x \in rows : x.by \in Stores \ {s} => Wrote(x.by)
      BY DEF Wrote
    <3>3. \A x \in rows : x.by \notin Stores \ {s}
      BY <1>2, <3>2 DEF Locked
    <3> QED BY <3>1, <3>3 DEF Seen
  <2>2. IsFiniteSet(T)
    <3> DEFINE f == [x \in rows |-> x.sid]
    <3>1. f \in Surjection(rows, T)
      BY <2>1 DEF Surjection
    <3> QED BY <3>1, FS_Surjection DEF TypeInv, TablesTyped
  <2>3. IsFiniteSet(S) /\ S \in SUBSET Nat /\ S # {}
    <3>1. IsFiniteSet(S)
      BY <2>2, FS_AddElement
    <3>2. T \subseteq Nat
      BY <2>1 DEF TypeInv, TablesTyped, RowType, Sid
    <3> QED BY <3>1, <3>2
  <2>4. NewSid(s) = Max(S) + 1
    BY <1>2 DEF NewSid
  <2>5. \A x \in rows : x.sid \in S
    BY <2>1
  <2> HIDE DEF S
  <2>6. Max(S) \in S /\ \A n \in S : n <= Max(S)
    BY <2>3, GreatestNumber
  <2>7. Max(S) \in Nat /\ \A x \in rows : x.sid \in Nat /\ x.sid <= Max(S)
    BY <2>3, <2>5, <2>6
  <2> QED BY <1>2, <2>4, <2>7 DEF Sid
<1> QED BY <1>1, <1>2 DEF TypeInv

\* A row is inserted.
Adds(s) ==
  /\ stack[s] # <<>> /\ Top(s).stage \in {"refs", "insert"}
  /\ \E r \in RowType :
       /\ \A x \in rows : x.sid # r.sid
       /\ engine = "postgresql" => r.sid = nextSid
       /\ r.key = Key(s) /\ r.by = s /\ r.who = s /\ r.ts = stamp[s] /\ (Kin(s) # 0 => r.kin = Kin(s))
       /\ rows' = rows \cup {r}
       /\ mains' = IF IsRoot(s) THEN mains \cup {[sid |-> r.sid, by |-> s]} ELSE mains
       /\ op'[s] = [op[s] EXCEPT !.inserted = Append(@, r.sid)]
       /\ \E f \in FrameType :
            /\ GoesOn(stack'[s], stack[s], f)
            /\ f.obj = Top(s).obj /\ f.sid = r.sid /\ f.stage \in {"claim", "kids"} /\ f.base = Top(s).base
  /\ nextSid' = nextSid + 1
  /\ UNCHANGED <<engine, claims, dispatch, tx, stamp, memory, calls, returned>>
  /\ OthersKept(s)

LEMMA InsertEffect ==
  ASSUME TypeInv, SidsUnique, NEW s \in Stores, Insert(s)
  PROVE  Adds(s) /\ TypeInv'
<1> DEFINE n == NewSid(s)
           refs == GotSids(s, Refs[Top(s).obj])
           r == [sid |-> n, key |-> Key(s), obj |-> Top(s).obj,
                 refs |-> refs, kids |-> {},
                 kin |-> IF Kin(s) # 0 THEN Kin(s) ELSE n,
                 group |-> IF Group(s) # 0 THEN Group(s) ELSE n,
                 kind |-> Kind(s), id |-> None, imm |-> None,
                 ts |-> stamp[s], who |-> s, torn |-> FALSE, by |-> s]
           f == [Top(s) EXCEPT !.sid = n, !.stage = IF IsEntry(s) THEN "claim" ELSE "kids"]
           c == [op[s] EXCEPT !.inserted = Append(@, n)]
<1>1. /\ stack[s] # <<>> /\ Top(s).stage \in {"refs", "insert"} /\ ~Locked(s)
  BY DEF Insert, InsertWaits, Inserting, Saving, Top
<1>2. /\ Top(s) \in FrameType /\ stack[s] \in Seq(FrameType) /\ op[s] \in CallType
      /\ op[s] # None /\ op[s].sid = 0 /\ ~op[s].done /\ tx[s] \in {"single", "open"} /\ stamp[s] \in 1 .. MaxClock
  BY <1>1, TopTyped
<1>3. n \in Sid /\ (engine = "postgresql" => n = nextSid) /\ \A x \in rows : x.sid # n
  BY <1>1, NewSidFresh
<1>4. /\ rows' = rows \cup {r}
      /\ mains' = IF IsRoot(s) THEN mains \cup {[sid |-> n, by |-> s]} ELSE mains
      /\ nextSid' = nextSid + 1
      /\ op' = [op EXCEPT ![s].inserted = Append(@, n)]
      /\ stack' = [stack EXCEPT ![s] = GoOn(f) \o Tail(@)]
      /\ UNCHANGED <<engine, claims, dispatch, tx, stamp, memory, calls, returned>>
  BY DEF Insert
<1>5. r \in RowType
  <2>1. refs \in SUBSET Nat
    BY <1>2 DEF GotSids, FrameType
  <2>2. /\ Key(s) \in Keys /\ Kin(s) \in Nat /\ Group(s) \in Nat /\ Kind(s) \in Kinds
    BY <1>1, KeyTyped
  <2>3. Top(s).obj \in Objects /\ None \in EntryIds
    BY <1>2 DEF FrameType, EntryIds
  <2> HIDE DEF n, refs
  <2> QED BY <1>2, <1>3, <2>1, <2>2, <2>3 DEF RowType, Sid, Writers
<1>6. f \in FrameType /\ f.obj = Top(s).obj /\ f.sid = n /\ f.stage \in {"claim", "kids"} /\ f.base = Top(s).base
  <2> HIDE DEF n
  <2> QED BY <1>2, <1>3 DEF FrameType, Stages, Sid
<1>7. c \in CallType /\ c.sid = 0 /\ ~c.done /\ c # None
  <2>1. Append(op[s].inserted, n) \in Seq(Sid)
    BY <1>2, <1>3 DEF CallType
  <2>2. PICK q \in Seq(Sid) : q = Append(op[s].inserted, n)
    BY <2>1
  <2>3. c = [op[s] EXCEPT !.inserted = q]
    BY <2>2
  <2>4. c \in CallType /\ c.sid = 0 /\ ~c.done
    <3> HIDE DEF c
    <3> QED BY <1>2, <2>3 DEF CallType
  <2> QED BY <2>4, TransactionsAssumption
<1>8. op'[s] = c /\ op' = [op EXCEPT ![s] = c]
  BY <1>2, <1>4 DEF TypeInv, SessionsTyped
<1>9. r.sid = n /\ r.key = Key(s) /\ r.by = s /\ r.who = s /\ r.ts = stamp[s] /\ (Kin(s) # 0 => r.kin = Kin(s))
  OBVIOUS
<1>10. c = [op[s] EXCEPT !.inserted = Append(@, r.sid)]
  OBVIOUS
<1> HIDE DEF n, r, f, c
<1>11. GoesOn(GoOn(f) \o Tail(stack[s]), stack[s], f)
  BY <1>1, <1>2, <1>6, WentOn
<1>12. stack'[s] = GoOn(f) \o Tail(stack[s]) /\ \A t \in Stores \ {s} : stack'[t] = stack[t]
  BY <1>4 DEF TypeInv, SessionsTyped
<1>13. \A t \in Stores \ {s} : op'[t] = op[t]
  BY <1>8 DEF TypeInv, SessionsTyped
<1>14. OthersKept(s)
  BY <1>4, <1>12, <1>13 DEF OthersKept, memory
<1>15. Adds(s)
  <2>1. \E g \in FrameType :
          /\ GoesOn(stack'[s], stack[s], g)
          /\ g.obj = Top(s).obj /\ g.sid = r.sid /\ g.stage \in {"claim", "kids"} /\ g.base = Top(s).base
    BY <1>6, <1>9, <1>11, <1>12
  <2> QED BY <1>1, <1>3, <1>4, <1>5, <1>8, <1>9, <1>10, <1>14, <2>1 DEF Adds
<1>16. TablesTyped'
  <2>1. IsFiniteSet(rows')
    BY <1>4, FS_AddElement DEF TypeInv, TablesTyped
  <2>2. rows' \subseteq RowType
    BY <1>4, <1>5 DEF TypeInv, TablesTyped
  <2>3. mains' \subseteq MarkType
    BY <1>3, <1>4 DEF TypeInv, TablesTyped, MarkType, Writers
  <2>4. nextSid' \in Sid
    BY <1>4 DEF TypeInv, TablesTyped, Sid
  <2> QED BY <1>4, <2>1, <2>2, <2>3, <2>4 DEF TypeInv, TablesTyped
<1>17. SessionsTyped' /\ MemoryTyped'
  <2>1. op' \in [Stores -> CallType \cup {None}]
    BY <1>7, <1>8 DEF TypeInv, SessionsTyped
  <2>2. stack' \in [Stores -> Seq(FrameType)]
    BY <1>4, <1>11 DEF TypeInv, SessionsTyped, GoesOn
  <2> QED BY <1>4, <2>1, <2>2 DEF TypeInv, SessionsTyped, MemoryTyped, memory
<1>18. Active(s)'
  <2>1. stamp[s] # 0
    BY <1>2, TransactionsAssumption
  <2> QED BY <1>2, <1>4, <1>7, <1>8, <2>1 DEF Active
<1>19. \A t \in Stores : Active(t)'
  BY <1>4, <1>12, <1>13, <1>18, OthersActive
<1> QED BY <1>4, <1>15, <1>16, <1>17, <1>19 DEF TypeInv

\* Rows of this call go again.
TakesBack(s) ==
  /\ stack[s] # <<>> /\ Top(s).stage \in {"refs", "insert"}
  /\ rows' = {x \in rows : x.sid \notin InsertedSince(s)}
  /\ op'[s] = [op[s] EXCEPT !.inserted = SubSeq(@, 1, Top(s).base)]
  /\ cache'[s] = {}
  /\ UNCHANGED <<engine, mains, dispatch, nextSid, tx, stack, stamp, held, mark, calls, returned>>
  /\ OthersKept(s)

LEMMA DiscardEffect ==
  ASSUME TypeInv, NEW s \in Stores, StackSound(s), Discard(s)
  PROVE  TakesBack(s) /\ TypeInv'
<1> DEFINE less == SubSeq(op[s].inserted, 1, Top(s).base)
           c == [op[s] EXCEPT !.inserted = SubSeq(@, 1, Top(s).base)]
<1>1. stack[s] # <<>> /\ Top(s).stage \in {"refs", "insert"}
  BY DEF Discard, Inserting, Saving, Top
<1>2. /\ Top(s) \in FrameType /\ stack[s] \in Seq(FrameType) /\ op[s] \in CallType /\ Top(s) = stack[s][1]
      /\ op[s] # None /\ op[s].sid = 0 /\ ~op[s].done /\ 1 \in DOMAIN stack[s]
  BY <1>1, TopTyped
<1>3. FramesSound(stack[s], op[s].inserted)
  BY <1>2 DEF StackSound
<1>4. Top(s).sid = 0 /\ op[s].inserted \in Seq(Sid)
  BY <1>1, <1>2, <1>3 DEF FramesSound, CallType
<1>5. less \in Seq(Sid)
  BY <1>1, <1>2, <1>3, <1>4, FramesTakeBack
<1>6. c \in CallType /\ c.sid = 0 /\ ~c.done /\ c # None
  <2>1. PICK q \in Seq(Sid) : q = less
    BY <1>5
  <2>2. c = [op[s] EXCEPT !.inserted = q]
    BY <2>1
  <2>3. c \in CallType /\ c.sid = 0 /\ ~c.done
    <3> HIDE DEF c
    <3> QED BY <1>2, <2>2 DEF CallType
  <2> QED BY <2>3, TransactionsAssumption
<1>7. op' = [op EXCEPT ![s] = c] /\ op'[s] = c /\ \A t \in Stores \ {s} : op'[t] = op[t]
  BY <1>2 DEF Discard, TypeInv, SessionsTyped
<1>8. cache'[s] = {} /\ (\A t \in Stores \ {s} : cache'[t] = cache[t]) /\ cache' \in [Stores -> SUBSET CacheType]
  BY DEF Discard, TypeInv, MemoryTyped
<1>9. OthersKept(s)
  BY <1>7, <1>8 DEF OthersKept, Discard
<1>10. TakesBack(s)
  BY <1>1, <1>7, <1>8, <1>9 DEF TakesBack, Discard
<1>11. TablesTyped'
  <2>1. rows' \subseteq rows /\ claims' \subseteq claims
    BY DEF Discard, Owned
  <2>2. IsFiniteSet(rows')
    BY <2>1, FS_Subset DEF TypeInv, TablesTyped
  <2> QED BY <2>1, <2>2 DEF TypeInv, TablesTyped, Discard
<1>12. SessionsTyped' /\ MemoryTyped'
  <2>1. op' \in [Stores -> CallType \cup {None}]
    BY <1>6, <1>7 DEF TypeInv, SessionsTyped
  <2> QED BY <1>8, <2>1 DEF TypeInv, SessionsTyped, MemoryTyped, Discard
<1>13. Active(s)'
  <2>1. Active(s)
    BY DEF TypeInv
  <2> QED BY <1>2, <1>6, <1>7, <2>1 DEF Active, Discard
<1>14. \A t \in Stores : Active(t)'
  BY <1>7, <1>13, OthersActive DEF Discard
<1> QED BY <1>10, <1>11, <1>12, <1>14 DEF TypeInv, Discard

\* The dispatch row is written or there, and save returns.
Dispatches(s) ==
  /\ op[s] # None /\ op[s].sid # 0 /\ stack[s] = <<>>
  /\ \/ dispatch' = dispatch
     \/ dispatch' = dispatch \cup {[key |-> RootKey(s), sid |-> op[s].sid, by |-> s]}
  /\ returned' = returned \cup {[key |-> RootKey(s), sid |-> op[s].sid, kin |-> op[s].kin, by |-> s]}
  /\ \/ op'[s] = None
     \/ op'[s] = [op[s] EXCEPT !.done = TRUE]
  /\ UNCHANGED <<engine, rows, mains, claims, nextSid, tx, stack, stamp, memory, calls>>
  /\ OthersKept(s)

LEMMA WriteDispatchEffect ==
  ASSUME TypeInv, NEW s \in Stores, WriteDispatch(s)
  PROVE  Dispatches(s) /\ TypeInv'
<1> DEFINE c == IF tx[s] = "open" THEN None ELSE [op[s] EXCEPT !.done = TRUE]
<1>1. op[s] # None /\ op[s].sid # 0 /\ op[s] \in CallType
  BY DEF WriteDispatch, Dispatching, TypeInv, SessionsTyped
<1>2. stack[s] = <<>> /\ tx[s] \in {"single", "open"} /\ stamp[s] # 0
  BY <1>1 DEF TypeInv, Active
<1>3. [op[s] EXCEPT !.done = TRUE] \in CallType
  BY <1>1 DEF CallType
<1>4. op' = [op EXCEPT ![s] = c]
  BY DEF WriteDispatch
<1>5. op'[s] = c /\ \A t \in Stores \ {s} : op'[t] = op[t]
  BY <1>4 DEF TypeInv, SessionsTyped
<1>6. OthersKept(s)
  BY <1>5 DEF OthersKept, WriteDispatch, memory
<1>7. Dispatches(s)
  BY <1>1, <1>2, <1>5, <1>6 DEF Dispatches, WriteDispatch
<1>8. RootKey(s) \in Keys /\ op[s].sid \in Sid /\ op[s].kin \in Nat
  BY <1>1 DEF RootKey, Keys, Contents, CallType, Sid
<1>9. TablesTyped'
  <2>1. dispatch' \subseteq DispatchType
    BY <1>7, <1>8 DEF Dispatches, DispatchType, TypeInv, TablesTyped, Writers
  <2>2. returned' \subseteq ReturnType
    BY <1>7, <1>8 DEF Dispatches, ReturnType, TypeInv, TablesTyped, Writers
  <2> QED BY <2>1, <2>2 DEF WriteDispatch, TypeInv, TablesTyped
<1>10. SessionsTyped' /\ MemoryTyped'
  <2>1. op' \in [Stores -> CallType \cup {None}]
    BY <1>3, <1>4 DEF TypeInv, SessionsTyped
  <2> QED BY <2>1 DEF TypeInv, SessionsTyped, MemoryTyped, WriteDispatch, memory
<1>11. Active(s)'
  <2>1. tx[s] = "single" => op'[s] # None
    BY <1>3, <1>5, TransactionsAssumption
  <2> QED BY <1>2, <2>1 DEF Active, WriteDispatch
<1>12. \A t \in Stores : Active(t)'
  BY <1>5, <1>11, OthersActive DEF WriteDispatch
<1> QED BY <1>7, <1>9, <1>10, <1>12 DEF TypeInv, WriteDispatch

\* A row of the transaction is read lazily.
Reads(s) ==
  /\ op[s] = None
  /\ \E x \in rows : x.by = s /\ held'[s] = [sid |-> x.sid, key |-> x.key, tx |-> TRUE]
  /\ UNCHANGED <<engine, db, session, cache, mark, calls, returned>>
  /\ OthersKept(s)

LEMMA FetchEffect ==
  ASSUME TypeInv, NEW s \in Stores, Fetch(s)
  PROVE  Reads(s) /\ TypeInv'
<1>1. PICK x \in {y \in rows : y.by = s} : held' = [held EXCEPT ![s] = [sid |-> x.sid, key |-> x.key, tx |-> TRUE]]
  BY DEF Fetch
<1>2. [sid |-> x.sid, key |-> x.key, tx |-> TRUE] \in LazyRow
  BY DEF LazyRow, TypeInv, TablesTyped, RowType
<1>3. /\ held' \in [Stores -> LazyRow \cup {None}]
      /\ held'[s] = [sid |-> x.sid, key |-> x.key, tx |-> TRUE]
      /\ \A t \in Stores \ {s} : held'[t] = held[t]
  BY <1>1, <1>2 DEF TypeInv, MemoryTyped
<1>4. /\ UNCHANGED <<engine, rows, mains, claims, dispatch, nextSid, tx, op, stack, stamp, cache, mark, calls, returned>>
  BY DEF Fetch, db, session
<1>5. OthersKept(s)
  BY <1>3, <1>4 DEF OthersKept
<1>6. Reads(s)
  BY <1>3, <1>5 DEF Reads, Fetch
<1>7. TablesTyped' /\ SessionsTyped' /\ MemoryTyped' /\ (\A t \in Stores : Active(t)')
  BY <1>3, <1>4 DEF TypeInv, TablesTyped, SessionsTyped, MemoryTyped, Active
<1> QED BY <1>4, <1>6, <1>7 DEF TypeInv

-----------------------------------------------------------------------------
(* Fsck.                                                                   *)

\* What is marked is reached from what main and dispatch rows name.
LEMMA MarkedSteps ==
  ASSUME TypeInv
  PROVE  \E h : /\ h[0] = Roots /\ Marked = h[Cardinality(Objects)]
                /\ \A n \in Nat : h[n + 1] = h[n] \cup Reached(h[n])
<1>1. Roots \in SUBSET Nat
  BY DEF Roots, Committed, TypeInv, TablesTyped, MarkType, DispatchType, Sid
<1>2. \A X \in SUBSET Nat : Reached(X) \in SUBSET Nat
  BY DEF Reached, Committed, TypeInv, TablesTyped, RowType
<1> DEFINE F == [X \in SUBSET Nat |-> X \cup Reached(X)]
           Steps(g) == g = [n \in Nat |-> IF n = 0 THEN Roots ELSE g[n - 1] \cup Reached(g[n - 1])]
<1>3. F \in [SUBSET Nat -> SUBSET Nat]
  BY <1>2
<1>4. PICK g \in [Nat -> SUBSET Nat] : g = [n \in Nat |-> IF n = 0 THEN Roots ELSE F[g[n - 1]]]
  <2>1. PICK D : D = SUBSET Nat
    OBVIOUS
  <2>2. F \in [D -> D] /\ Roots \in D
    BY <1>1, <1>3, <2>1
  <2> HIDE DEF F
  <2>3. \E g \in [Nat -> D] : g = [n \in Nat |-> IF n = 0 THEN Roots ELSE F[g[n - 1]]]
    BY <2>2, Iterates
  <2> QED BY <2>1, <2>3
<1>5. \A n \in Nat : g[n] = IF n = 0 THEN Roots ELSE g[n - 1] \cup Reached(g[n - 1])
  <2> TAKE n \in Nat
  <2>1. g[n] = IF n = 0 THEN Roots ELSE F[g[n - 1]]
    BY <1>4
  <2>2. n # 0 => g[n - 1] \in SUBSET Nat
    BY SMTT(20), <1>4
  <2> QED BY <2>1, <2>2
<1>6. Steps(g)
  <2>1. g = [n \in Nat |-> g[n]]
    BY <1>4
  <2> QED BY <1>5, <2>1
<1> HIDE DEF Steps
<1>7. PICK h : h = CHOOSE k : Steps(k)
  OBVIOUS
<1>8. Steps(h)
  BY <1>6, <1>7
<1>9. Marked = h[Cardinality(Objects)]
  BY <1>7 DEF Marked, Steps
<1>10. h[0] = Roots
  BY <1>8 DEF Steps
<1>11. \A n \in Nat : h[n + 1] = h[n] \cup Reached(h[n])
  <2> TAKE n \in Nat
  <2>1. n + 1 \in Nat /\ n + 1 # 0 /\ (n + 1) - 1 = n
    OBVIOUS
  <2> QED BY <1>8, <2>1 DEF Steps
<1> QED BY <1>9, <1>10, <1>11

\* What main and dispatch rows name is marked.
LEMMA RootsMarked ==
  ASSUME TypeInv
  PROVE  Roots \subseteq Marked
<1>1. Cardinality(Objects) \in Nat
  BY TransactionsAssumption, FS_CardinalityType
<1>2. PICK h : /\ h[0] = Roots /\ Marked = h[Cardinality(Objects)]
               /\ \A n \in Nat : h[n + 1] = h[n] \cup Reached(h[n])
  BY MarkedSteps
<1> DEFINE S == {n \in Nat : Roots \subseteq h[n]}
<1>3. S = Nat
  <2>1. 0 \in S /\ S \subseteq Nat
    BY <1>2
  <2>2. \A n \in S : n + 1 \in S
    BY <1>2
  <2> HIDE DEF S
  <2> QED BY <2>1, <2>2, NumberInduction
<1> QED BY <1>1, <1>2, <1>3

\* Committed rows go that nothing names, while no transaction is open.
Sweeps(s) ==
  /\ \A t \in Stores : tx[t] = "none" /\ held[t] = None /\ (t # s => cache[t] = {})
  /\ rows' \subseteq rows /\ \A x \in rows : x.sid \in Roots => x \in rows'
  /\ cache'[s] = {}
  /\ UNCHANGED <<engine, mains, dispatch, nextSid, session, held, mark, returned>>
  /\ OthersKept(s)

LEMMA FsckEffect ==
  ASSUME TypeInv, NEW s \in Stores, ~FsckOnline, Fsck(s)
  PROVE  Sweeps(s) /\ TypeInv'
<1>1. rows' \subseteq rows /\ claims' \subseteq claims /\ \A x \in rows : x.sid \in Marked => x \in rows'
  BY DEF Fsck, Owned
<1>2. /\ cache' \in [Stores -> SUBSET CacheType] /\ cache'[s] = {}
      /\ \A t \in Stores \ {s} : cache'[t] = cache[t]
  BY DEF Fsck, TypeInv, MemoryTyped
<1>3. UNCHANGED <<engine, mains, dispatch, nextSid, tx, op, stack, stamp, held, mark, returned>>
  BY DEF Fsck, session
<1>4. OthersKept(s)
  BY <1>2, <1>3 DEF OthersKept
<1>5. \A t \in Stores : tx[t] = "none" /\ held[t] = None /\ (t # s => cache[t] = {})
  BY DEF Fsck, Exclusive
<1>6. Sweeps(s)
  BY <1>1, <1>2, <1>4, <1>5, RootsMarked DEF Sweeps, Fsck
<1>7. TablesTyped'
  <2>1. IsFiniteSet(rows')
    BY <1>1, FS_Subset DEF TypeInv, TablesTyped
  <2> QED BY <1>1, <1>3, <2>1 DEF TypeInv, TablesTyped
<1>8. calls' \in 0 .. MaxOps
  <2>1. calls \in 0 .. MaxOps /\ calls < MaxOps /\ calls' = calls + 1 /\ MaxOps \in Nat
    BY TransactionsAssumption DEF Fsck, TypeInv, SessionsTyped
  <2> QED BY <2>1
<1>9. SessionsTyped' /\ MemoryTyped' /\ (\A t \in Stores : Active(t)')
  BY <1>2, <1>3, <1>8 DEF TypeInv, SessionsTyped, MemoryTyped, Active
<1> QED BY <1>3, <1>6, <1>7, <1>9 DEF TypeInv

-----------------------------------------------------------------------------
(* Every step has one of these effects.                                    *)

Effect(s) ==
  \/ Undone(s) \/ CaughtIn(s) \/ Commits(s) \/ Enters(s)
  \/ Moves(s) \/ Claims(s) \/ Adds(s) \/ TakesBack(s)
  \/ (\E x \in rows : Hits(s, x)) \/ WritesKids(s)
  \/ Dispatches(s) \/ Reads(s)

LEMMA StepEffect ==
  ASSUME Inv, ~FsckOnline, NEW s \in Stores, Step(s)
  PROVE  (Effect(s) \/ Sweeps(s)) /\ TypeInv'
<1> USE DEF Effect
<1>0. TypeInv /\ SidsUnique /\ StackSound(s) /\ FramesHaveRows(s) /\ CacheSound(s)
  BY DEF Inv, TablesSound, StoreSound
<1>1. CASE Commit(s)
  BY <1>0, <1>1, CommitEffect
<1>2. CASE Abort(s)
  BY <1>0, <1>2, AbortUndoes
<1>3. CASE Reopen(s)
  BY <1>0, <1>3, ReopenUndoes
<1>4. CASE \E q \in Requests : StartSave(s, q) \/ StartAlternative(s, q) \/ StartReplace(s, q)
  BY <1>0, <1>4, StartEffect
<1>5. CASE Lookup(s)
  BY <1>0, <1>5, LookupEffect
<1>6. CASE Prepare(s)
  BY <1>0, <1>6, PrepareEffect
<1>7. CASE Discard(s)
  BY <1>0, <1>7, DiscardEffect
<1>8. CASE HitLate(s)
  BY <1>0, <1>8, HitLateEffect
<1>9. CASE Insert(s)
  BY <1>0, <1>9, InsertEffect
<1>10. CASE Claim(s)
  BY <1>0, <1>10, ClaimEffect
<1>11. CASE WriteKids(s)
  BY <1>0, <1>11, WriteKidsEffect
<1>12. CASE WriteDispatch(s)
  BY <1>0, <1>12, WriteDispatchEffect
<1>13. CASE GiveUp(s)
  BY <1>0, <1>13, GiveUpUndoes
<1>14. CASE Fetch(s)
  BY <1>0, <1>14, FetchEffect
<1>15. CASE Fsck(s)
  BY <1>0, <1>15, FsckEffect
<1> QED
  BY <1>1, <1>2, <1>3, <1>4, <1>5, <1>6, <1>7, <1>8, <1>9, <1>10, <1>11, <1>12, <1>13, <1>14, <1>15
     DEF Step, SaveStep

\* The steps that keep all rows.
LEMMA CaughtLike ==
  ASSUME TypeInv, SidsUnique, NEW s \in Stores, CaughtIn(s)
  PROVE  RowsLike(s) /\ SidsUnique'
<1> DEFINE Torn(x) == \E i \in DOMAIN stack[s] : stack[s][i].sid = x.sid /\ x.by = s
           f == [x \in rows |-> IF Torn(x) THEN [x EXCEPT !.torn = TRUE] ELSE x]
<1>1. rows' = {f[x] : x \in rows}
  BY DEF CaughtIn
<1>2. \A x \in rows : Like(x, f[x]) /\ f[x].by = x.by /\ (x.by # s => f[x] = x)
  <2> TAKE x \in rows
  <2>1. x \in RowType
    BY DEF TypeInv, TablesTyped
  <2>2. CASE Torn(x)
    <3>1. f[x] = [x EXCEPT !.torn = TRUE] /\ x.by = s
      BY <2>2
    <3> QED BY <2>1, <3>1 DEF Like, RowType
  <2>3. CASE ~Torn(x)
    <3>1. f[x] = x
      BY <2>3
    <3> QED BY <3>1 DEF Like
  <2> QED BY <2>2, <2>3
<1> HIDE DEF f
<1>3. RowsLike(s)
  BY <1>1, <1>2 DEF RowsLike
<1>4. \A x, y \in rows' : x.sid = y.sid => x = y
  <2> SUFFICES ASSUME NEW x \in rows', NEW y \in rows', x.sid = y.sid PROVE x = y
    OBVIOUS
  <2>1. PICK v \in rows : x = f[v]
    BY <1>1
  <2>2. PICK w \in rows : y = f[w]
    BY <1>1
  <2>3. v.sid = w.sid
    BY <1>2, <2>1, <2>2 DEF Like
  <2> QED BY <2>1, <2>2, <2>3 DEF SidsUnique
<1>5. engine = "postgresql" => \A x \in rows' : x.sid < nextSid
  BY <1>3 DEF SidsUnique, RowsLike, Like
<1> QED BY <1>3, <1>4, <1>5 DEF SidsUnique, CaughtIn

\* The rows after a commit.
LEMMA SettledRows ==
  ASSUME TypeInv, NEW s \in Stores, rows' = Settled(rows, s)
  PROVE  /\ \A x \in rows : \E y \in rows' : /\ Like(x, y) /\ y.by = (IF x.by = s THEN None ELSE x.by)
                                             /\ x.by # s => y = x
         /\ \A y \in rows' : \E x \in rows : /\ Like(x, y) /\ y.by = (IF x.by = s THEN None ELSE x.by)
                                             /\ x.by # s => y = x
         /\ SidsUnique => \A x, y \in rows' : x.sid = y.sid => x = y
<1> DEFINE f == [x \in rows |-> IF x.by = s THEN [x EXCEPT !.by = None] ELSE x]
<1>1. rows' = {f[x] : x \in rows}
  BY DEF Settled
<1>2. \A x \in rows : /\ Like(x, f[x]) /\ f[x].by = (IF x.by = s THEN None ELSE x.by)
                      /\ x.by # s => f[x] = x
  <2> TAKE x \in rows
  <2>1. x \in RowType
    BY DEF TypeInv, TablesTyped
  <2>2. CASE x.by = s
    <3>1. f[x] = [x EXCEPT !.by = None]
      BY <2>2
    <3> QED BY <2>1, <2>2, <3>1 DEF Like, RowType
  <2>3. CASE x.by # s
    <3>1. f[x] = x
      BY <2>3
    <3> QED BY <2>3, <3>1 DEF Like
  <2> QED BY <2>2, <2>3
<1> HIDE DEF f
<1>3. ASSUME SidsUnique, NEW x \in rows', NEW y \in rows', x.sid = y.sid PROVE x = y
  <2>1. PICK v \in rows : x = f[v]
    BY <1>1
  <2>2. PICK w \in rows : y = f[w]
    BY <1>1
  <2>3. v.sid = w.sid
    BY <1>2, <1>3, <2>1, <2>2 DEF Like
  <2> QED BY <1>3, <2>1, <2>2, <2>3 DEF SidsUnique
<1> QED BY <1>1, <1>2, <1>3

\* The other records of a commit.
LEMMA SettledRecords ==
  ASSUME NEW T, NEW s,
         \/ T \subseteq MarkType \/ T \subseteq DispatchType \/ T \subseteq ReturnType
  PROVE  /\ \A m \in T : \E k \in Settled(T, s) :
              /\ k.sid = m.sid /\ k.by = (IF m.by = s THEN None ELSE m.by)
              /\ T \subseteq ReturnType => k.key = m.key /\ k.kin = m.kin
              /\ m.by # s => k = m
         /\ \A k \in Settled(T, s) : \E m \in T :
              /\ k.sid = m.sid /\ k.by = (IF m.by = s THEN None ELSE m.by)
              /\ T \subseteq ReturnType => k.key = m.key /\ k.kin = m.kin
              /\ m.by # s => k = m
<1> DEFINE f == [m \in T |-> IF m.by = s THEN [m EXCEPT !.by = None] ELSE m]
<1>1. Settled(T, s) = {f[m] : m \in T}
  BY DEF Settled
<1>2. \A m \in T : /\ f[m].sid = m.sid /\ f[m].by = (IF m.by = s THEN None ELSE m.by)
                   /\ T \subseteq ReturnType => f[m].key = m.key /\ f[m].kin = m.kin
                   /\ m.by # s => f[m] = m
  <2> TAKE m \in T
  <2>1. CASE m.by = s
    <3>1. f[m] = [m EXCEPT !.by = None]
      BY <2>1
    <3>2. m \in MarkType \/ m \in DispatchType \/ m \in ReturnType
      OBVIOUS
    <3>3. f[m].sid = m.sid /\ f[m].by = None
      BY <3>1, <3>2 DEF MarkType, DispatchType, ReturnType
    <3>4. T \subseteq ReturnType => f[m].key = m.key /\ f[m].kin = m.kin
      BY <3>1 DEF ReturnType
    <3> QED BY <2>1, <3>3, <3>4
  <2>2. CASE m.by # s
    BY <2>2
  <2> QED BY <2>1, <2>2
<1> HIDE DEF f
<1> QED BY <1>1, <1>2

\* Rows that this call has inserted are of its transaction, and no others have their sids.
LEMMA InsertedOwn ==
  ASSUME TypeInv, SidsUnique, NEW s \in Stores, InsertedHere(s), stack[s] # <<>>,
         NEW x \in rows, x.sid \in InsertedSince(s)
  PROVE  /\ x.by = s
         /\ \E i \in DOMAIN op[s].inserted : i > Top(s).base /\ op[s].inserted[i] = x.sid
<1>1. op[s] # None /\ op[s].inserted \in Seq(Sid) /\ Top(s).base \in Nat
  BY TopTyped DEF CallType, FrameType
<1>2. PICK i \in (Top(s).base + 1) .. Len(op[s].inserted) : op[s].inserted[i] = x.sid
  BY DEF InsertedSince
<1>3. i \in DOMAIN op[s].inserted /\ i > Top(s).base
  BY <1>1, <1>2
<1>4. PICK y \in rows : y.sid = op[s].inserted[i] /\ y.by = s
  BY <1>1, <1>3 DEF InsertedHere
<1>5. y = x
  BY <1>2, <1>4 DEF SidsUnique
<1> QED BY <1>2, <1>3, <1>4, <1>5

-----------------------------------------------------------------------------
(* What another store sees of a step.                                      *)

OthersSee(s, t) ==
  /\ \A x \in rows : x.by \in {None, t} => x \in rows'
  /\ \A x \in rows' : x.by = t \/ (x.by = None /\ x.who = t) => x \in rows
  /\ \A m \in mains : m.by \in {None, t} => m \in mains'
  /\ \A m \in mains' : m.by = t => m \in mains
  /\ \A d \in dispatch' : d.by = t => d \in dispatch
  /\ \A r \in returned' : r.by = t => r \in returned

\* Records of other transactions stay, and none of theirs are new.
Others(T, T2, t) ==
  /\ \A m \in T : m.by \in {None, t} => m \in T2
  /\ \A m \in T2 : m.by = t => m \in T

LEMMA OthersWithout ==
  ASSUME NEW T, NEW s \in Stores, NEW t \in Stores \ {s}
  PROVE  Others(T, Without(T, s), t)
<1>1. None \notin Stores
  BY TransactionsAssumption
<1> QED BY <1>1 DEF Others, Without

LEMMA OthersSettled ==
  ASSUME NEW T, NEW s \in Stores, NEW t \in Stores \ {s},
         \/ T \subseteq MarkType \/ T \subseteq DispatchType \/ T \subseteq ReturnType
  PROVE  Others(T, Settled(T, s), t)
<1>1. None \notin Stores
  BY TransactionsAssumption
<1>2. \A m \in T : m.by # s => m \in Settled(T, s)
  BY SettledRecords
<1>3. \A k \in Settled(T, s) : k.by = t => k \in T
  <2> TAKE k \in Settled(T, s)
  <2>1. PICK m \in T : k.by = (IF m.by = s THEN None ELSE m.by) /\ (m.by # s => k = m)
    BY SettledRecords
  <2> QED BY <1>1, <2>1
<1> QED BY <1>1, <1>2, <1>3 DEF Others

LEMMA OthersLike ==
  ASSUME TypeInv, NEW s \in Stores, NEW t \in Stores \ {s}, RowsLike(s)
  PROVE  /\ \A x \in rows : x.by \in {None, t} => x \in rows'
         /\ \A x \in rows' : x.by = t \/ (x.by = None /\ x.who = t) => x \in rows
<1>1. None \notin Stores
  BY TransactionsAssumption
<1> QED BY <1>1 DEF RowsLike

LEMMA OthersEffect ==
  ASSUME Inv, NEW s \in Stores, NEW t \in Stores \ {s}, Effect(s)
  PROVE  OthersSee(s, t)
<1>0. /\ TypeInv /\ SidsUnique /\ None \notin Stores /\ StampSound(s) /\ InsertedHere(s)
      /\ rows \subseteq RowType /\ mains \subseteq MarkType /\ dispatch \subseteq DispatchType
      /\ returned \subseteq ReturnType
  BY TransactionsAssumption DEF Inv, TablesSound, StoreSound, TypeInv, TablesTyped
<1>1. CASE Undone(s)
  <2>1. \A T : Others(T, Without(T, s), t)
    BY OthersWithout
  <2>2. /\ Others(rows, rows', t) /\ Others(mains, mains', t)
        /\ Others(dispatch, dispatch', t) /\ Others(returned, returned', t)
    BY <1>1, <2>1 DEF Undone
  <2>3. \A x \in rows' : x \in rows
    BY <1>1 DEF Undone, Without
  <2> QED BY <2>2, <2>3 DEF Others, OthersSee
<1>2. CASE CaughtIn(s)
  <2>1. RowsLike(s) /\ UNCHANGED <<mains, dispatch, returned>>
    BY <1>0, <1>2, CaughtLike DEF CaughtIn
  <2> QED BY <1>0, <2>1, OthersLike DEF OthersSee
<1>3. CASE Commits(s)
  <2>1. /\ Others(mains, mains', t) /\ Others(dispatch, dispatch', t) /\ Others(returned, returned', t)
    BY <1>0, <1>3, OthersSettled DEF Commits
  <2>2. rows' = Settled(rows, s)
    BY <1>3 DEF Commits
  <2>3. \A x \in rows : x.by \in {None, t} => x \in rows'
    <3> TAKE x \in rows
    <3>1. PICK y \in rows' : x.by # s => y = x
      BY <1>0, <2>2, SettledRows
    <3> QED BY <1>0, <3>1
  <2>4. \A y \in rows' : y.by = t \/ (y.by = None /\ y.who = t) => y \in rows
    <3> TAKE y \in rows'
    <3>1. PICK x \in rows : Like(x, y) /\ y.by = (IF x.by = s THEN None ELSE x.by) /\ (x.by # s => y = x)
      BY <1>0, <2>2, SettledRows
    <3>2. CASE x.by = s
      <4>1. x.who = s
        BY <1>0, <3>2 DEF StampSound
      <4>2. y.who = s /\ y.by = None
        BY <3>1, <3>2, <4>1 DEF Like
      <4> QED BY <1>0, <4>2
    <3> QED BY <3>1, <3>2
  <2> QED BY <2>1, <2>3, <2>4 DEF Others, OthersSee
<1>4. CASE Enters(s) \/ Moves(s) \/ Reads(s)
  <2>1. UNCHANGED <<rows, mains, dispatch, returned>>
    BY <1>4 DEF Enters, Moves, Reads, db
  <2> QED BY <2>1 DEF OthersSee
<1>5. CASE Claims(s)
  <2>1. RowsLike(s) /\ UNCHANGED <<mains, dispatch, returned>>
    BY <1>5 DEF Claims
  <2> QED BY <1>0, <2>1, OthersLike DEF OthersSee
<1>6. CASE Adds(s)
  <2>1. PICK r \in RowType : r.by = s /\ rows' = rows \cup {r}
          /\ mains' = IF IsRoot(s) THEN mains \cup {[sid |-> r.sid, by |-> s]} ELSE mains
    BY <1>6 DEF Adds
  <2>2. UNCHANGED <<dispatch, returned>>
    BY <1>6 DEF Adds
  <2>3. \A m \in mains' : m \in mains \/ m.by = s
    BY <2>1
  <2> QED BY <1>0, <2>1, <2>2, <2>3 DEF OthersSee
<1>7. CASE TakesBack(s)
  <2>1. /\ rows' = {x \in rows : x.sid \notin InsertedSince(s)} /\ stack[s] # <<>>
        /\ UNCHANGED <<mains, dispatch, returned>>
    BY <1>7 DEF TakesBack
  <2>2. \A x \in rows : x.sid \in InsertedSince(s) => x.by = s
    BY <1>0, <2>1, InsertedOwn
  <2> QED BY <1>0, <2>1, <2>2 DEF OthersSee
<1>8. ASSUME NEW x \in rows, Hits(s, x) PROVE OthersSee(s, t)
  <2>1. rows' = rows /\ mains' = Promoted(s, x) /\ UNCHANGED <<dispatch, returned>>
    BY <1>8 DEF Hits, CameBack
  <2>2. \A m \in mains' : m \in mains \/ m.by = s
    BY <2>1 DEF Promoted
  <2>3. mains \subseteq mains'
    BY <2>1 DEF Promoted
  <2> QED BY <1>0, <2>1, <2>2, <2>3 DEF OthersSee
<1>9. CASE WritesKids(s)
  <2>1. RowsLike(s) /\ UNCHANGED <<mains, dispatch, returned>>
    BY <1>9 DEF WritesKids, CameBack
  <2> QED BY <1>0, <2>1, OthersLike DEF OthersSee
<1>10. CASE Dispatches(s)
  <2>1. UNCHANGED <<rows, mains>>
    BY <1>10 DEF Dispatches
  <2>2. (\A d \in dispatch' : d \in dispatch \/ d.by = s) /\ (\A r \in returned' : r \in returned \/ r.by = s)
    BY <1>10 DEF Dispatches
  <2> QED BY <1>0, <2>1, <2>2 DEF OthersSee
<1> QED BY <1>1, <1>2, <1>3, <1>4, <1>5, <1>6, <1>7, <1>8, <1>9, <1>10 DEF Effect

\* A step leaves the others sound.
LEMMA OthersSound ==
  ASSUME Inv, NEW s \in Stores, NEW t \in Stores \ {s}, Effect(s)
  PROVE  StoreSound(t)'
<1>1. /\ TypeInv /\ StoreSound(t) /\ OthersSee(s, t) /\ None \notin Stores
      /\ op'[t] = op[t] /\ stack'[t] = stack[t] /\ stamp'[t] = stamp[t] /\ tx'[t] = tx[t]
      /\ cache'[t] = cache[t] /\ held'[t] = held[t] /\ mark'[t] = mark[t]
  <2>1. OthersKept(s)
    BY DEF Effect, Undone, CaughtIn, Commits, Enters, Moves, Claims, Adds, TakesBack, Hits, WritesKids,
           CameBack, Dispatches, Reads
  <2> QED BY <2>1, OthersEffect, TransactionsAssumption DEF Inv, OthersKept
<1>2. /\ \A x \in rows : x.by \in {None, t} => x \in rows'
      /\ \A m \in mains : m.by \in {None, t} => m \in mains'
      /\ \A m \in mains' : m.by = t => m \in mains
      /\ \A d \in dispatch' : d.by = t => d \in dispatch
      /\ \A r \in returned' : r.by = t => r \in returned
      /\ \A x \in rows' : x.by = t \/ (x.by = None /\ x.who = t) => x \in rows
  BY <1>1 DEF OthersSee
<1>3. StackSound(t)'
  BY <1>1 DEF StoreSound, StackSound, Root
<1>4. InsertedHere(t)'
  BY <1>1, <1>2 DEF StoreSound, InsertedHere
<1>5. FramesHaveRows(t)'
  BY <1>1, <1>2 DEF StoreSound, FramesHaveRows
<1>6. \A x : IsFound(t, x)' <=> IsFound(t, x)
  BY <1>1 DEF IsFound, RootKey
<1>7. RootHasRow(t)'
  BY <1>1, <1>2, <1>6 DEF StoreSound, RootHasRow, Root
<1>8. FoundRow(t)'
  BY <1>1, <1>2, <1>6 DEF StoreSound, FoundRow
<1>9. Pinned(t)'
  BY <1>1, <1>2 DEF StoreSound, Pinned, Root
<1>10. Unowned(t)'
  BY <1>1, <1>2 DEF StoreSound, Unowned
<1>11. StampSound(t)'
  BY <1>1, <1>2 DEF StoreSound, StampSound
<1>12. \A x \in Seen(t, rows) : x \in Seen(t, rows)'
  BY <1>2 DEF Seen
<1>13. CacheSound(t)'
  BY <1>1, <1>12 DEF StoreSound, CacheSound
<1>14. HeldSound(t)'
  BY <1>1, <1>12 DEF StoreSound, HeldSound
<1> QED BY <1>3, <1>4, <1>5, <1>7, <1>8, <1>9, <1>10, <1>11, <1>13, <1>14 DEF StoreSound

-----------------------------------------------------------------------------
(* The tables stay sound.                                                  *)

\* A row has a sid that is one, and what names it has too.
LEMMA NamesTyped ==
  ASSUME TypeInv
  PROVE  /\ \A x \in rows : x.sid # 0 /\ x.sid \in Nat /\ x.by \in Stores \cup {None}
         /\ \A m \in mains \cup dispatch \cup returned : m.sid # 0 /\ m.sid \in Nat /\ m.by \in Stores \cup {None}
  BY DEF TypeInv, TablesTyped, RowType, MarkType, DispatchType, ReturnType, Sid, Writers

\* Nothing but a row of the call is named as the root is not inserted yet.
LEMMA TakenBackUnnamed ==
  ASSUME Inv, NEW s \in Stores, stack[s] # <<>>, Top(s).stage \in {"refs", "insert"},
         NEW x \in rows, x.sid \in InsertedSince(s)
  PROVE  \A m \in mains \cup dispatch \cup returned : x.by \in {None, m.by} => m.sid # x.sid
<1>0. /\ TypeInv /\ SidsUnique /\ InsertedHere(s) /\ StackSound(s) /\ Pinned(s)
  BY DEF Inv, TablesSound, StoreSound
<1>1. /\ stack[s] \in Seq(FrameType) /\ Top(s) = stack[s][1] /\ Top(s) \in FrameType /\ 1 \in DOMAIN stack[s]
      /\ op[s] # None
  BY <1>0, TopTyped
<1>2. x.by = s /\ \E i \in DOMAIN op[s].inserted : i > Top(s).base /\ op[s].inserted[i] = x.sid
  BY <1>0, InsertedOwn
<1>3. PICK i \in DOMAIN op[s].inserted : i > Top(s).base /\ op[s].inserted[i] = x.sid
  BY <1>2
<1>4. ASSUME NEW m \in mains \cup dispatch \cup returned, x.by \in {None, m.by}, m.sid = x.sid
      PROVE  FALSE
  <2>1. m.by = s
    BY <1>2, <1>4, TransactionsAssumption
  <2>2. m \in mains /\ m.sid = Root(s).sid
    BY <1>3, <1>4, <2>1 DEF Pinned, Inv, StoreSound
  <2>3. Root(s).sid # 0
    BY <1>0, <2>2, NamesTyped
  <2>4. Top(s).sid = 0
    BY <1>1, <1>0 DEF StackSound, FramesSound
  <2> DEFINE n == Len(stack[s])
  <2>5. n \in DOMAIN stack[s] /\ Root(s) = stack[s][n] /\ n \in Nat \ {0}
    BY <1>1 DEF Root
  <2>6. n # 1
    BY <1>1, <2>3, <2>4, <2>5
  <2>7. 1 < n
    <3> HIDE DEF n
    <3> QED BY <2>5, <2>6
  <2>8. \E k \in 1 .. Top(s).base : op[s].inserted[k] = Root(s).sid
    BY <1>0, <1>1, <2>3, <2>5, <2>7 DEF StackSound, FramesSound
  <2>9. PICK k \in 1 .. Top(s).base : op[s].inserted[k] = x.sid
    BY <1>4, <2>2, <2>8
  <2>10. Top(s).base \in Nat /\ Top(s).base <= Len(op[s].inserted)
         /\ DOMAIN op[s].inserted = 1 .. Len(op[s].inserted) /\ Len(op[s].inserted) \in Nat
    <3>1. op[s].inserted \in Seq(Sid)
      BY <1>0, TopTyped DEF CallType
    <3>2. Top(s).base <= Len(op[s].inserted)
      BY <1>0, <1>1 DEF StackSound, FramesSound
    <3> QED BY <1>1, <3>1, <3>2 DEF FrameType
  <2>11. k \in DOMAIN op[s].inserted /\ k # i
    BY <1>3, <2>9, <2>10
  <2>12. k = i
    BY <1>0, <1>1, <1>3, <2>9, <2>11 DEF StackSound, NoneTwice
  <2> QED BY <2>11, <2>12
<1> QED BY <1>4

\* The steps under which each row and each record stays, if not as it was.
Stays ==
  /\ \A x \in rows : \E y \in rows' : Like(x, y) /\ y.by = x.by
  /\ mains \subseteq mains'

LEMMA EffectStays ==
  ASSUME TypeInv, SidsUnique, NEW s \in Stores
  PROVE  /\ CaughtIn(s) \/ Enters(s) \/ Moves(s) \/ Claims(s) \/ Adds(s) \/ WritesKids(s) \/ Dispatches(s)
              \/ Reads(s) => Stays
         /\ \A x \in rows : Hits(s, x) => Stays
<1>1. RowsLike(s) => \A x \in rows : \E y \in rows' : Like(x, y) /\ y.by = x.by
  BY DEF RowsLike
<1>2. rows' = rows => RowsLike(s)
  BY RowsAlike
<1>3. CASE CaughtIn(s)
  BY <1>1, <1>3, CaughtLike DEF Stays, CaughtIn
<1>4. CASE Enters(s) \/ Moves(s) \/ Reads(s)
  <2>1. rows' = rows /\ mains' = mains
    BY <1>4 DEF Enters, Moves, Reads, db
  <2> QED BY <1>1, <1>2, <2>1 DEF Stays
<1>5. CASE Claims(s)
  BY <1>1, <1>5 DEF Stays, Claims
<1>6. CASE WritesKids(s)
  BY <1>1, <1>6 DEF Stays, WritesKids
<1>7. CASE Dispatches(s)
  BY <1>1, <1>2, <1>7 DEF Stays, Dispatches
<1>8. CASE Adds(s)
  <2>1. rows \subseteq rows' /\ mains \subseteq mains'
    BY <1>8 DEF Adds
  <2> QED BY <2>1 DEF Stays, Like
<1>9. ASSUME NEW x \in rows, Hits(s, x) PROVE Stays
  <2>1. rows' = rows /\ mains \subseteq mains'
    BY <1>9 DEF Hits, Promoted
  <2> QED BY <1>1, <1>2, <2>1 DEF Stays
<1> QED BY <1>3, <1>4, <1>5, <1>6, <1>7, <1>8, <1>9

LEMMA SidsStayUnique ==
  ASSUME Inv, NEW s \in Stores, Effect(s) \/ Sweeps(s)
  PROVE  SidsUnique'
<1>0. TypeInv /\ SidsUnique
  BY DEF Inv, TablesSound
<1>1. ASSUME rows' \subseteq rows, UNCHANGED <<engine, nextSid>> PROVE SidsUnique'
  BY <1>0, <1>1 DEF SidsUnique
<1>2. CASE Undone(s)
  BY <1>1, <1>2 DEF Undone, Without
<1>3. CASE CaughtIn(s)
  BY <1>0, <1>3, CaughtLike
<1>4. CASE Commits(s)
  <2>1. rows' = Settled(rows, s) /\ UNCHANGED <<engine, nextSid>>
    BY <1>4 DEF Commits
  <2>2. \A x, y \in rows' : x.sid = y.sid => x = y
    BY <1>0, <2>1, SettledRows
  <2>3. engine = "postgresql" => \A y \in rows' : y.sid < nextSid
    BY <1>0, <2>1, SettledRows DEF SidsUnique, Like
  <2> QED BY <2>1, <2>2, <2>3 DEF SidsUnique
<1>5. CASE Enters(s) \/ Moves(s) \/ Reads(s) \/ Dispatches(s)
  BY <1>1, <1>5 DEF Enters, Moves, Reads, Dispatches, db
<1>6. CASE Claims(s) \/ WritesKids(s)
  BY <1>6 DEF Claims, WritesKids
<1>7. CASE Adds(s)
  <2>1. PICK r \in RowType : (\A x \in rows : x.sid # r.sid) /\ rows' = rows \cup {r}
                             /\ (engine = "postgresql" => r.sid = nextSid)
    BY <1>7 DEF Adds
  <2>2. \A x, y \in rows' : x.sid = y.sid => x = y
    BY <1>0, <2>1 DEF SidsUnique
  <2>3. ASSUME engine = "postgresql", NEW x \in rows' PROVE x.sid < nextSid + 1
    <3>1. nextSid \in Nat
      BY <1>0 DEF TypeInv, TablesTyped, Sid
    <3>2. CASE x \in rows
      <4>1. x.sid < nextSid /\ x.sid \in Nat
        BY <1>0, <2>3, <3>2, NamesTyped DEF SidsUnique
      <4> QED BY <3>1, <4>1
    <3>3. CASE x = r
      BY <2>1, <2>3, <3>1, <3>3
    <3> QED BY <2>1, <3>2, <3>3
  <2> QED BY <1>7, <2>2, <2>3 DEF Adds, SidsUnique
<1>8. CASE TakesBack(s)
  BY <1>1, <1>8 DEF TakesBack
<1>9. ASSUME NEW x \in rows, Hits(s, x) PROVE SidsUnique'
  BY <1>1, <1>9 DEF Hits, CameBack
<1>10. CASE Sweeps(s)
  BY <1>1, <1>10 DEF Sweeps
<1> QED BY <1>2, <1>3, <1>4, <1>5, <1>6, <1>7, <1>8, <1>9, <1>10 DEF Effect

LEMMA NamesStay ==
  ASSUME Inv, NEW s \in Stores, Effect(s) \/ Sweeps(s)
  PROVE  NamesHaveRows'
<1>0. /\ TypeInv /\ SidsUnique /\ NamesHaveRows /\ FoundRow(s) /\ None \notin Stores
      /\ mains \subseteq MarkType /\ dispatch \subseteq DispatchType
  BY TransactionsAssumption DEF Inv, TablesSound, StoreSound, TypeInv, TablesTyped
\* Records that were there before keep their rows.
<1>1. ASSUME Stays, NEW m \in mains \cup dispatch PROVE \E y \in rows' : y.sid = m.sid /\ y.by \in {None, m.by}
  <2>1. PICK x \in rows : x.sid = m.sid /\ x.by \in {None, m.by}
    BY <1>0 DEF NamesHaveRows
  <2>2. PICK y \in rows' : Like(x, y) /\ y.by = x.by
    BY <1>1 DEF Stays
  <2> QED BY <2>1, <2>2 DEF Like
<1>2. ASSUME Stays, mains' \cup dispatch' \subseteq mains \cup dispatch PROVE NamesHaveRows'
  BY <1>1, <1>2 DEF NamesHaveRows
<1>3. CASE Undone(s)
  <2>1. ASSUME NEW m \in mains' \cup dispatch' PROVE \E y \in rows' : y.sid = m.sid /\ y.by \in {None, m.by}
    <3>1. m \in mains \cup dispatch /\ m.by # s
      BY <1>3 DEF Undone, Without
    <3>2. PICK x \in rows : x.sid = m.sid /\ x.by \in {None, m.by}
      BY <1>0, <3>1 DEF NamesHaveRows
    <3>3. x \in rows'
      BY <1>0, <1>3, <3>1, <3>2 DEF Undone, Without
    <3> QED BY <3>2, <3>3
  <2> QED BY <2>1 DEF NamesHaveRows
<1>4. CASE Commits(s)
  <2>1. ASSUME NEW T, T = mains \/ T = dispatch, NEW k \in Settled(T, s)
        PROVE  \E y \in rows' : y.sid = k.sid /\ y.by \in {None, k.by}
    <3>1. PICK m \in T : k.sid = m.sid /\ k.by = (IF m.by = s THEN None ELSE m.by)
      BY <1>0, <2>1, SettledRecords
    <3>2. PICK x \in rows : x.sid = m.sid /\ x.by \in {None, m.by}
      BY <1>0, <2>1, <3>1 DEF NamesHaveRows
    <3>3. PICK y \in rows' : Like(x, y) /\ y.by = (IF x.by = s THEN None ELSE x.by)
      BY <1>0, <1>4, SettledRows DEF Commits
    <3>4. y.sid = k.sid
      BY <3>1, <3>2, <3>3 DEF Like
    <3>5. y.by \in {None, k.by}
      BY <3>1, <3>2, <3>3
    <3> QED BY <3>4, <3>5
  <2>2. mains' = Settled(mains, s) /\ dispatch' = Settled(dispatch, s)
    BY <1>4 DEF Commits
  <2> QED BY <2>1, <2>2 DEF NamesHaveRows
<1>5. CASE CaughtIn(s) \/ Enters(s) \/ Moves(s) \/ Claims(s) \/ WritesKids(s) \/ Reads(s)
  <2>1. Stays
    BY <1>0, <1>5, EffectStays
  <2>2. mains' = mains /\ dispatch' = dispatch
    BY <1>5 DEF CaughtIn, Enters, Moves, Claims, WritesKids, CameBack, Reads, db
  <2> QED BY <1>2, <2>1, <2>2
<1>6. CASE Adds(s)
  <2>1. PICK r \in RowType : /\ rows' = rows \cup {r} /\ r.by = s
                             /\ mains' = IF IsRoot(s) THEN mains \cup {[sid |-> r.sid, by |-> s]} ELSE mains
    BY <1>6 DEF Adds
  <2>2. dispatch' = dispatch
    BY <1>6 DEF Adds
  <2>3. Stays
    BY <1>0, <1>6, EffectStays
  <2>4. ASSUME NEW m \in mains' \cup dispatch' PROVE \E y \in rows' : y.sid = m.sid /\ y.by \in {None, m.by}
    <3>1. CASE m \in mains \cup dispatch
      BY <1>1, <2>3, <3>1
    <3>2. CASE m = [sid |-> r.sid, by |-> s]
      BY <2>1, <3>2
    <3> QED BY <2>1, <2>2, <3>1, <3>2
  <2> QED BY <2>4 DEF NamesHaveRows
<1>7. CASE TakesBack(s)
  <2>1. /\ stack[s] # <<>> /\ Top(s).stage \in {"refs", "insert"}
        /\ rows' = {x \in rows : x.sid \notin InsertedSince(s)} /\ UNCHANGED <<mains, dispatch>>
    BY <1>7 DEF TakesBack
  <2>2. ASSUME NEW m \in mains \cup dispatch PROVE \E y \in rows' : y.sid = m.sid /\ y.by \in {None, m.by}
    <3>1. PICK x \in rows : x.sid = m.sid /\ x.by \in {None, m.by}
      BY <1>0 DEF NamesHaveRows
    <3>2. x \in rows'
      BY <2>1, <3>1, TakenBackUnnamed
    <3> QED BY <3>1, <3>2
  <2> QED BY <2>1, <2>2 DEF NamesHaveRows
<1>8. ASSUME NEW x \in rows, Hits(s, x) PROVE NamesHaveRows'
  <2>1. rows' = rows /\ mains' = Promoted(s, x) /\ dispatch' = dispatch /\ x.by \in {None, s}
    BY <1>8 DEF Hits, CameBack, Seen
  <2>2. \A m \in mains' : m \in mains \/ m = [sid |-> x.sid, by |-> s]
    BY <2>1 DEF Promoted
  <2>3. ASSUME NEW m \in mains' \cup dispatch' PROVE \E y \in rows' : y.sid = m.sid /\ y.by \in {None, m.by}
    <3>1. CASE m \in mains \cup dispatch
      BY <1>0, <2>1, <3>1 DEF NamesHaveRows
    <3>2. CASE m = [sid |-> x.sid, by |-> s]
      BY <2>1, <3>2
    <3> QED BY <2>1, <2>2, <3>1, <3>2
  <2> QED BY <2>3 DEF NamesHaveRows
<1>9. CASE Dispatches(s)
  <2>1. rows' = rows /\ mains' = mains /\ op[s] # None /\ op[s].sid # 0
        /\ \A d \in dispatch' : d \in dispatch \/ d = [key |-> RootKey(s), sid |-> op[s].sid, by |-> s]
    BY <1>9 DEF Dispatches
  <2>2. PICK x \in rows : x.sid = op[s].sid /\ x.by \in {None, s}
    BY <1>0, <2>1 DEF FoundRow
  <2>3. ASSUME NEW m \in mains' \cup dispatch' PROVE \E y \in rows' : y.sid = m.sid /\ y.by \in {None, m.by}
    <3>1. CASE m \in mains \cup dispatch
      BY <1>0, <2>1, <3>1 DEF NamesHaveRows
    <3>2. CASE m = [key |-> RootKey(s), sid |-> op[s].sid, by |-> s]
      BY <2>1, <2>2, <3>2
    <3> QED BY <2>1, <3>1, <3>2
  <2> QED BY <2>3 DEF NamesHaveRows
<1>10. CASE Sweeps(s)
  <2>1. \A m \in mains \cup dispatch : m.by = None
    BY <1>0, <1>10, NamesTyped DEF Sweeps, Inv, StoreSound, Unowned
  <2>2. \A m \in mains \cup dispatch : m.sid \in Roots
    BY <2>1 DEF Roots, Committed
  <2>3. ASSUME NEW m \in mains \cup dispatch PROVE \E y \in rows' : y.sid = m.sid /\ y.by \in {None, m.by}
    <3>1. PICK x \in rows : x.sid = m.sid /\ x.by \in {None, m.by}
      BY <1>0 DEF NamesHaveRows
    <3>2. x \in rows'
      BY <1>10, <2>2, <3>1 DEF Sweeps
    <3> QED BY <3>1, <3>2
  <2> QED BY <1>10, <2>3 DEF NamesHaveRows, Sweeps
<1> QED BY <1>3, <1>4, <1>5, <1>6, <1>7, <1>8, <1>9, <1>10 DEF Effect

\* What a return promises, of rows and main rows.
Kept(r, R, M) ==
  /\ \E x \in R : x.sid = r.sid /\ x.key = r.key /\ x.by \in {None, r.by} /\ (r.kin # 0 => x.kin = r.kin)
  /\ \E m \in M : m.sid = r.sid /\ m.by \in {None, r.by}

LEMMA ReturnsStay ==
  ASSUME Inv, NEW s \in Stores, Effect(s) \/ Sweeps(s)
  PROVE  ReturnsHaveRows'
<1>0. /\ TypeInv /\ SidsUnique /\ FoundRow(s) /\ None \notin Stores
      /\ mains \subseteq MarkType /\ returned \subseteq ReturnType
      /\ \A r \in returned : Kept(r, rows, mains)
  BY TransactionsAssumption
     DEF Inv, TablesSound, StoreSound, TypeInv, TablesTyped, ReturnsHaveRows, Kept
<1>a. ASSUME \A r \in returned' : Kept(r, rows', mains') PROVE ReturnsHaveRows'
  BY <1>a DEF ReturnsHaveRows, Kept
<1>1. ASSUME Stays, NEW r \in returned PROVE Kept(r, rows', mains')
  <2>1. PICK x \in rows : x.sid = r.sid /\ x.key = r.key /\ x.by \in {None, r.by} /\ (r.kin # 0 => x.kin = r.kin)
    BY <1>0 DEF Kept
  <2>2. PICK y \in rows' : Like(x, y) /\ y.by = x.by
    BY <1>1 DEF Stays
  <2>3. \E m \in mains' : m.sid = r.sid /\ m.by \in {None, r.by}
    BY <1>0, <1>1 DEF Stays, Kept
  <2> QED BY <2>1, <2>2, <2>3 DEF Kept, Like
<1>2. CASE Undone(s)
  <2>1. ASSUME NEW r \in returned' PROVE Kept(r, rows', mains')
    <3>1. r \in returned /\ r.by # s
      BY <1>2 DEF Undone, Without
    <3>2. \A x : x.by \in {None, r.by} => x.by # s
      BY <1>0, <3>1
    <3>3. Kept(r, rows, mains)
      BY <1>0, <3>1
    <3>4. rows' = Without(rows, s) /\ mains' = Without(mains, s)
      BY <1>2 DEF Undone
    <3> QED BY <3>2, <3>3, <3>4 DEF Kept, Without
  <2> QED BY <2>1, <1>a
<1>3. CASE Commits(s)
  <2>1. ASSUME NEW k \in returned' PROVE Kept(k, rows', mains')
    <3>1. PICK r \in returned : /\ k.sid = r.sid /\ k.by = (IF r.by = s THEN None ELSE r.by)
                                /\ k.key = r.key /\ k.kin = r.kin
      BY <1>0, <1>3, SettledRecords DEF Commits
    <3>2. Kept(r, rows, mains)
      BY <1>0
    <3>3. PICK x \in rows : x.sid = r.sid /\ x.key = r.key /\ x.by \in {None, r.by} /\ (r.kin # 0 => x.kin = r.kin)
      BY <3>2 DEF Kept
    <3>4. PICK y \in rows' : Like(x, y) /\ y.by = (IF x.by = s THEN None ELSE x.by)
      BY <1>0, <1>3, SettledRows DEF Commits
    <3>5. PICK m \in mains : m.sid = r.sid /\ m.by \in {None, r.by}
      BY <3>2 DEF Kept
    <3>6. PICK n \in mains' : n.sid = m.sid /\ n.by = (IF m.by = s THEN None ELSE m.by)
      BY <1>0, <1>3, SettledRecords DEF Commits
    <3>7. y.sid = k.sid /\ y.key = k.key /\ (k.kin # 0 => y.kin = k.kin)
      BY <3>1, <3>3, <3>4 DEF Like
    <3>8. y.by \in {None, k.by} /\ n.by \in {None, k.by}
      BY <3>1, <3>3, <3>4, <3>5, <3>6
    <3> QED BY <3>1, <3>5, <3>6, <3>7, <3>8 DEF Kept
  <2> QED BY <2>1, <1>a
<1>4. CASE CaughtIn(s) \/ Enters(s) \/ Moves(s) \/ Claims(s) \/ WritesKids(s) \/ Reads(s) \/ Adds(s)
  <2>1. Stays
    BY <1>0, <1>4, EffectStays
  <2>2. returned' = returned
    BY <1>4 DEF CaughtIn, Enters, Moves, Claims, WritesKids, CameBack, Reads, Adds
  <2> QED BY <1>1, <2>1, <2>2, <1>a
<1>5. ASSUME NEW x \in rows, Hits(s, x) PROVE ReturnsHaveRows'
  <2>1. Stays
    BY <1>0, <1>5, EffectStays
  <2>2. returned' = returned
    BY <1>5 DEF Hits, CameBack
  <2> QED BY <1>1, <2>1, <2>2, <1>a
<1>6. CASE TakesBack(s)
  <2>1. /\ stack[s] # <<>> /\ Top(s).stage \in {"refs", "insert"}
        /\ rows' = {x \in rows : x.sid \notin InsertedSince(s)} /\ UNCHANGED <<mains, returned>>
    BY <1>6 DEF TakesBack
  <2>2. ASSUME NEW r \in returned PROVE Kept(r, rows', mains')
    <3>1. PICK x \in rows : x.sid = r.sid /\ x.key = r.key /\ x.by \in {None, r.by} /\ (r.kin # 0 => x.kin = r.kin)
      BY <1>0 DEF Kept
    <3>2. x \in rows'
      BY <2>1, <3>1, TakenBackUnnamed
    <3>3. \E m \in mains' : m.sid = r.sid /\ m.by \in {None, r.by}
      BY <1>0, <2>1 DEF Kept
    <3> QED BY <3>1, <3>2, <3>3 DEF Kept
  <2> QED BY <2>1, <2>2, <1>a
<1>7. CASE Dispatches(s)
  <2> DEFINE d == [key |-> RootKey(s), sid |-> op[s].sid, kin |-> op[s].kin, by |-> s]
  <2>1. /\ rows' = rows /\ mains' = mains /\ op[s] # None /\ op[s].sid # 0
        /\ returned' = returned \cup {d}
    BY <1>7 DEF Dispatches
  <2>2. Stays
    BY <1>0, <1>7, EffectStays
  <2>3. Kept(d, rows, mains)
    <3>1. \E x \in rows : x.sid = op[s].sid /\ x.by \in {None, s} /\ IsFound(s, x)
      BY <1>0, <2>1 DEF FoundRow
    <3>2. \E m \in mains : m.sid = op[s].sid /\ m.by \in {None, s}
      BY <1>0, <2>1 DEF FoundRow
    <3>3. d.sid = op[s].sid /\ d.key = RootKey(s) /\ d.kin = op[s].kin /\ d.by = s
      OBVIOUS
    <3> HIDE DEF d
    <3> QED BY <3>1, <3>2, <3>3 DEF Kept, IsFound
  <2> HIDE DEF d
  <2> QED BY <1>1, <2>1, <2>2, <2>3, <1>a
<1>8. CASE Sweeps(s)
  <2>1. \A m \in mains \cup returned : m.by = None
    BY <1>0, <1>8, NamesTyped DEF Sweeps, Inv, StoreSound, Unowned
  <2>2. ASSUME NEW r \in returned PROVE Kept(r, rows', mains')
    <3>1. PICK x \in rows : x.sid = r.sid /\ x.key = r.key /\ x.by \in {None, r.by} /\ (r.kin # 0 => x.kin = r.kin)
      BY <1>0 DEF Kept
    <3>2. PICK m \in mains : m.sid = r.sid /\ m.by \in {None, r.by}
      BY <1>0 DEF Kept
    <3>3. m.sid \in Roots
      BY <2>1 DEF Roots, Committed
    <3>4. x \in rows' /\ mains' = mains
      BY <1>8, <3>1, <3>2, <3>3 DEF Sweeps
    <3> QED BY <3>1, <3>2, <3>4 DEF Kept
  <2>3. returned' = returned
    BY <1>8 DEF Sweeps
  <2> QED BY <2>2, <2>3, <1>a
<1> QED BY <1>2, <1>3, <1>4, <1>5, <1>6, <1>7, <1>8 DEF Effect

-----------------------------------------------------------------------------
(* A step leaves its own store sound.                                      *)

LEMMA CallOver ==
  ASSUME NEW s \in Stores, op'[s] = None, stack'[s] = <<>>
  PROVE  /\ StackSound(s)' /\ InsertedHere(s)' /\ FramesHaveRows(s)' /\ RootHasRow(s)'
         /\ FoundRow(s)' /\ Pinned(s)'
  BY DEF StackSound, InsertedHere, FramesHaveRows, RootHasRow, FoundRow, Pinned

LEMMA CacheStays ==
  ASSUME Stays, NEW s \in Stores, CacheSound(s),
         \A e \in cache'[s] \ cache[s] : \E x \in Seen(s, rows) : x.sid = e.sid /\ x.key.content = Content[e.obj]
  PROVE  CacheSound(s)'
<1>1. ASSUME NEW e \in cache'[s] PROVE \E y \in Seen(s, rows)' : y.sid = e.sid /\ y.key.content = Content[e.obj]
  <2>1. PICK x \in Seen(s, rows) : x.sid = e.sid /\ x.key.content = Content[e.obj]
    BY DEF CacheSound
  <2>2. x \in rows /\ x.by \in {None, s}
    BY DEF Seen
  <2>3. PICK y \in rows' : Like(x, y) /\ y.by = x.by
    BY <2>2 DEF Stays
  <2> QED BY <2>1, <2>2, <2>3 DEF Seen, Like
<1> QED BY <1>1 DEF CacheSound

LEMMA HeldStays ==
  ASSUME Stays, NEW s \in Stores, HeldSound(s), held'[s] = held[s]
  PROVE  HeldSound(s)'
<1>1. ASSUME held[s] # None
      PROVE  \E y \in Seen(s, rows)' : y.sid = held[s].sid /\ y.key = held[s].key /\ (held[s].tx \/ y.by = None)
  <2>1. PICK x \in Seen(s, rows) : x.sid = held[s].sid /\ x.key = held[s].key /\ (held[s].tx \/ x.by = None)
    BY <1>1 DEF HeldSound
  <2>2. x \in rows /\ x.by \in {None, s}
    BY DEF Seen
  <2>3. PICK y \in rows' : Like(x, y) /\ y.by = x.by
    BY <2>2 DEF Stays
  <2> QED BY <2>1, <2>2, <2>3 DEF Seen, Like
<1> QED BY <1>1 DEF HeldSound

LEMMA StampStays ==
  ASSUME NEW s \in Stores, RowsLike(s), StampSound(s), stamp'[s] = stamp[s], mark'[s] = mark[s]
  PROVE  StampSound(s)'
<1>1. \A y \in rows' : \E x \in rows : Like(x, y) /\ y.by = x.by
  BY DEF RowsLike
<1> QED BY <1>1 DEF StampSound, Like

LEMMA UndoneSound ==
  ASSUME Inv, NEW s \in Stores, Undone(s)
  PROVE  StoreSound(s)'
<1>0. /\ TypeInv /\ TablesTyped /\ StampSound(s) /\ HeldSound(s) /\ None \notin Stores
  BY TransactionsAssumption DEF Inv, TypeInv, StoreSound
<1>1. /\ rows' = Without(rows, s) /\ mains' = Without(mains, s) /\ dispatch' = Without(dispatch, s)
      /\ returned' = Without(returned, s) /\ op'[s] = None /\ stack'[s] = <<>> /\ stamp'[s] = 0
      /\ cache'[s] = {} /\ held'[s] \in {None, held[s]} /\ (held[s] # None /\ held[s].tx => held'[s] = None)
      /\ mark'[s] \in {mark[s], Newest}
  BY DEF Undone
<1>2. Unowned(s)'
  BY <1>1 DEF Unowned, Without
<1>3. \A x \in rows : x.by = None /\ x.who = s => x.ts <= mark'[s]
  BY <1>0, <1>1, NewestTyped DEF StampSound
<1>4. StampSound(s)'
  BY <1>1, <1>3 DEF StampSound, Without
<1>5. CacheSound(s)'
  BY <1>1 DEF CacheSound
<1>6. HeldSound(s)'
  <2>1. ASSUME held'[s] # None
        PROVE  \E x \in Seen(s, rows)' : x.sid = held'[s].sid /\ x.key = held'[s].key /\ (held'[s].tx \/ x.by = None)
    <3>1. held'[s] = held[s] /\ held[s] # None /\ ~held[s].tx
      BY <1>1, <2>1
    <3>2. PICK x \in Seen(s, rows) : x.sid = held[s].sid /\ x.key = held[s].key /\ x.by = None
      BY <1>0, <3>1 DEF HeldSound
    <3>3. x \in Seen(s, rows)'
      BY <1>0, <1>1, <3>2 DEF Seen, Without
    <3> QED BY <3>1, <3>2, <3>3
  <2> QED BY <2>1 DEF HeldSound
<1> QED BY <1>1, <1>2, <1>4, <1>5, <1>6, CallOver DEF StoreSound

LEMMA CaughtSound ==
  ASSUME Inv, NEW s \in Stores, CaughtIn(s)
  PROVE  StoreSound(s)'
<1>0. TypeInv /\ SidsUnique /\ StoreSound(s)
  BY DEF Inv, TablesSound
<1>1. RowsLike(s) /\ Stays
  BY <1>0, CaughtLike, EffectStays
<1>2. /\ op'[s] = None /\ stack'[s] = <<>> /\ stamp'[s] = stamp[s] /\ mark'[s] = mark[s]
      /\ cache'[s] = cache[s] /\ held'[s] = held[s] /\ tx'[s] = "open"
  BY DEF CaughtIn
<1>3. Unowned(s)'
  BY <1>2 DEF Unowned
<1>4. StampSound(s)'
  BY <1>0, <1>1, <1>2, StampStays DEF StoreSound
<1>5. CacheSound(s)' /\ HeldSound(s)'
  BY <1>0, <1>1, <1>2, CacheStays, HeldStays DEF StoreSound
<1> QED BY <1>2, <1>3, <1>4, <1>5, CallOver DEF StoreSound

LEMMA CommitsSound ==
  ASSUME Inv, NEW s \in Stores, Commits(s)
  PROVE  StoreSound(s)'
<1>0. /\ TypeInv /\ TablesTyped /\ StampSound(s) /\ HeldSound(s) /\ CacheSound(s) /\ None \notin Stores
      /\ mains \subseteq MarkType /\ dispatch \subseteq DispatchType /\ returned \subseteq ReturnType
      /\ rows \subseteq RowType /\ MaxClock \in Nat
  BY TransactionsAssumption DEF Inv, TypeInv, TablesTyped, StoreSound
<1>1. /\ rows' = Settled(rows, s) /\ mains' = Settled(mains, s) /\ dispatch' = Settled(dispatch, s)
      /\ returned' = Settled(returned, s) /\ op'[s] = None /\ stack'[s] = <<>> /\ stamp'[s] = 0
      /\ cache'[s] = cache[s] /\ held'[s] = (IF held[s] # None THEN [held[s] EXCEPT !.tx = FALSE] ELSE None)
      /\ mark'[s] \in {mark[s], stamp[s]} /\ mark[s] <= mark'[s] /\ stamp[s] <= mark'[s]
  BY DEF Commits
<1>2. Unowned(s)'
  <2>1. \A T : T = mains \/ T = dispatch \/ T = returned => \A k \in Settled(T, s) : k.by # s
    BY <1>0, SettledRecords
  <2> QED BY <1>1, <2>1 DEF Unowned
<1>3. \A x \in rows : \E y \in rows' : Like(x, y) /\ y.by = (IF x.by = s THEN None ELSE x.by)
  BY <1>0, <1>1, SettledRows
<1>4. \A y \in rows' : \E x \in rows : Like(x, y) /\ y.by = (IF x.by = s THEN None ELSE x.by)
  BY <1>0, <1>1, SettledRows
<1>5. StampSound(s)'
  <2>1. ASSUME NEW y \in rows', y.by = None, y.who = s PROVE y.ts <= mark'[s]
    <3>1. PICK x \in rows : Like(x, y) /\ y.by = (IF x.by = s THEN None ELSE x.by)
      BY <1>4
    <3>2. x.ts \in Nat /\ mark[s] \in Nat /\ stamp[s] \in Nat /\ mark'[s] \in Nat
      BY <1>0, <1>1 DEF RowType, TypeInv, MemoryTyped, SessionsTyped
    <3>3. CASE x.by = s
      <4>1. x.ts = stamp[s]
        BY <1>0, <3>3 DEF StampSound
      <4> QED BY <1>1, <3>1, <4>1 DEF Like
    <3>4. CASE x.by # s
      <4>1. x.by = None /\ x.who = s
        BY <2>1, <3>1, <3>4 DEF Like
      <4>2. x.ts <= mark[s]
        BY <1>0, <4>1 DEF StampSound
      <4>3. x.ts <= mark'[s]
        BY <1>1, <3>2, <4>2
      <4> QED BY <3>1, <4>3 DEF Like
    <3> QED BY <3>3, <3>4
  <2>2. \A y \in rows' : y.by # s
    BY <1>0, <1>4
  <2> QED BY <1>1, <2>1, <2>2 DEF StampSound
<1>6. \A x \in Seen(s, rows) : \E y \in Seen(s, rows)' : Like(x, y) /\ y.by = None
  BY <1>3 DEF Seen
<1>7. CacheSound(s)'
  <2>1. ASSUME NEW e \in cache[s] PROVE \E y \in Seen(s, rows)' : y.sid = e.sid /\ y.key.content = Content[e.obj]
    <3>1. PICK x \in Seen(s, rows) : x.sid = e.sid /\ x.key.content = Content[e.obj]
      BY <1>0 DEF CacheSound
    <3> QED BY <1>6, <3>1 DEF Like
  <2> QED BY <1>1, <2>1 DEF CacheSound
<1>8. HeldSound(s)'
  <2>1. ASSUME held[s] # None
        PROVE  \E y \in Seen(s, rows)' : y.sid = held'[s].sid /\ y.key = held'[s].key /\ y.by = None
    <3>1. PICK x \in Seen(s, rows) : x.sid = held[s].sid /\ x.key = held[s].key
      BY <1>0, <2>1 DEF HeldSound
    <3>2. held[s] \in LazyRow
      BY <1>0, <2>1 DEF TypeInv, MemoryTyped
    <3>3. held'[s].sid = held[s].sid /\ held'[s].key = held[s].key
      BY <1>1, <2>1, <3>2 DEF LazyRow
    <3> QED BY <1>6, <3>1, <3>3 DEF Like
  <2> QED BY <1>1, <2>1 DEF HeldSound
<1> QED BY <1>1, <1>2, <1>5, <1>7, <1>8, CallOver DEF StoreSound

LEMMA EntersSound ==
  ASSUME Inv, NEW s \in Stores, Enters(s)
  PROVE  StoreSound(s)'
<1>0. /\ TypeInv /\ SidsUnique /\ StoreSound(s) /\ rows \subseteq RowType /\ MaxClock \in Nat
  BY TransactionsAssumption DEF Inv, TypeInv, TablesTyped, TablesSound
<1>1. /\ op'[s] \in CallType /\ op'[s].sid = 0 /\ op'[s].inserted = <<>>
      /\ stack'[s] = <<Frame(op'[s].obj)>> /\ tx'[s] \in {"single", "open"}
      /\ stamp'[s] \in 1 .. MaxClock /\ mark[s] <= stamp'[s] /\ (stamp[s] # 0 => stamp'[s] = stamp[s])
      /\ rows' = rows /\ mark'[s] = mark[s] /\ held'[s] = held[s]
      /\ \A e \in cache'[s] \ cache[s] : \E x \in Seen(s, rows) : x.sid = e.sid /\ x.key.content = Content[e.obj]
  BY DEF Enters, db
<1>2. Stays
  BY <1>0, EffectStays
<1>3. PICK f : f = Frame(op'[s].obj)
  OBVIOUS
<1>4. f.sid = 0 /\ f.stage = "lookup" /\ f.obj = op'[s].obj
  BY <1>3 DEF Frame
<1>5. stack'[s] = <<f>> /\ Len(stack'[s]) = 1 /\ DOMAIN stack'[s] = {1} /\ stack'[s][1] = f
  BY <1>1, <1>3
<1>6. StackSound(s)'
  <2>1. NoneTwice(op[s].inserted)'
    BY <1>1 DEF NoneTwice
  <2>2. FramesSound(stack[s], op[s].inserted)'
    BY <1>4, <1>5 DEF FramesSound
  <2>3. Root(s)' = f
    BY <1>5 DEF Root
  <2> QED BY <1>4, <2>1, <2>2, <2>3 DEF StackSound
<1>7. InsertedHere(s)' /\ Pinned(s)'
  BY <1>1 DEF InsertedHere, Pinned
<1>8. FramesHaveRows(s)' /\ RootHasRow(s)' /\ FoundRow(s)'
  BY <1>1, <1>4, <1>5 DEF FramesHaveRows, RootHasRow, FoundRow, Root
<1>9. Unowned(s)'
  BY <1>1 DEF Unowned
<1>10. StampSound(s)'
  <2>1. \A x \in rows : x.by = s => stamp[s] # 0
    BY <1>0 DEF StoreSound, StampSound, RowType
  <2> QED BY <1>0, <1>1, <2>1 DEF StoreSound, StampSound
<1>11. CacheSound(s)' /\ HeldSound(s)'
  BY <1>0, <1>1, <1>2, CacheStays, HeldStays DEF StoreSound
<1> QED BY <1>6, <1>7, <1>8, <1>9, <1>10, <1>11 DEF StoreSound

\* What the innermost frame calls for comes after what the others had.
LEMMA TopFits ==
  ASSUME NEW st \in Seq(FrameType), st # <<>>, NEW ins \in Seq(Sid), FramesSound(st, ins), NEW b,
         b = Len(ins) \/ (st[1].stage # "lookup" /\ b = st[1].base)
  PROVE  /\ b <= Len(ins) /\ b \in Nat
         /\ \A j \in 2 .. Len(st) : /\ st[j].base <= b
                                    /\ st[j].sid # 0 => \E m \in 1 .. b : ins[m] = st[j].sid
<1>0. /\ Len(st) \in Nat /\ DOMAIN st = 1 .. Len(st) /\ 1 \in DOMAIN st /\ st[1] \in FrameType
      /\ Len(ins) \in Nat /\ DOMAIN ins = 1 .. Len(ins)
  OBVIOUS
<1>1. \A j \in 2 .. Len(st) : j \in DOMAIN st /\ 1 < j /\ j # 1
  BY <1>0
<1>2. CASE b = Len(ins)
  BY <1>0, <1>1, <1>2 DEF FramesSound
<1>3. CASE st[1].stage # "lookup" /\ b = st[1].base
  <2>1. b <= Len(ins) /\ b \in Nat
    BY <1>0, <1>3 DEF FramesSound, FrameType
  <2>2. \A j \in 2 .. Len(st) : /\ st[j].base <= b
                                /\ st[j].sid # 0 => \E m \in 1 .. b : ins[m] = st[j].sid
    BY <1>0, <1>1, <1>3 DEF FramesSound
  <2> QED BY <2>1, <2>2
<1> QED BY <1>2, <1>3

\* The frames that go on, of which st are those that were there, keep their rows.
LEMMA FramesKept ==
  ASSUME TypeInv, NEW s \in Stores, stack[s] # <<>>, StackSound(s), FramesHaveRows(s), RootHasRow(s), Stays,
         NEW st \in Seq(FrameType), st # <<>>, NEW d \in Nat, Len(stack[s]) = Len(st) + d,
         \A i \in 1 .. Len(st) : st[i] = stack[s][i + d],
         NEW f \in FrameType, GoesOn(stack'[s], st, f), f.obj = st[1].obj,
         \/ f.sid = st[1].sid
         \/ \E y \in rows' : /\ y.sid = f.sid /\ y.by = s /\ y.key.content = Content[f.obj]
                             /\ Len(st) = 1 => IsFound(s, y) /\ \E m \in mains' : m.sid = f.sid /\ m.by = s,
         op'[s] # None, op'[s].obj = op[s].obj, op'[s].of = op[s].of, op'[s].kind = op[s].kind,
         op'[s].kin = op[s].kin
  PROVE  /\ FramesHaveRows(s)' /\ RootHasRow(s)' /\ stack'[s] # <<>>
         /\ Root(s)'.obj = op'[s].obj /\ Root(s)'.sid = (IF Len(st) = 1 THEN f.sid ELSE Root(s).sid)
<1>0. /\ stack[s] \in Seq(FrameType) /\ DOMAIN stack[s] = 1 .. Len(stack[s]) /\ op[s] # None
      /\ Len(st) \in Nat \ {0} /\ Len(stack[s]) \in Nat
  BY TopTyped
<1>1. PICK n : n = stack'[s]
  OBVIOUS
<1>2. /\ n \in Seq(FrameType) /\ n # <<>> /\ n[Len(n)] = (IF Len(st) = 1 THEN f ELSE st[Len(st)])
      /\ \A i \in DOMAIN n : \/ n[i].sid = 0 /\ n[i].stage = "lookup"
                             \/ n[i] = f
                             \/ \E j \in 2 .. Len(st) : n[i] = st[j]
  <2>1. GoesOn(n, st, f)
    BY <1>1
  <2> QED BY <2>1, GoesOnFrames
<1>3. ASSUME NEW j \in 1 .. Len(st)
      PROVE  j + d \in DOMAIN stack[s] /\ st[j] = stack[s][j + d]
  BY <1>0
<1>4. ASSUME NEW j \in 1 .. Len(st), st[j].sid # 0
      PROVE  \E y \in rows' : y.sid = st[j].sid /\ y.by = s /\ y.key.content = Content[st[j].obj]
  <2>1. PICK x \in rows : x.sid = st[j].sid /\ x.by = s /\ x.key.content = Content[st[j].obj]
    BY <1>3, <1>4 DEF FramesHaveRows
  <2>2. PICK y \in rows' : Like(x, y) /\ y.by = x.by
    BY DEF Stays
  <2> QED BY <2>1, <2>2 DEF Like
<1>5. f.sid # 0 => \E y \in rows' : y.sid = f.sid /\ y.by = s /\ y.key.content = Content[f.obj]
  <2>1. 1 \in 1 .. Len(st)
    BY <1>0
  <2> QED BY <1>4, <2>1
<1>6. FramesHaveRows(s)'
  <2>1. ASSUME NEW i \in DOMAIN n, n[i].sid # 0
        PROVE  \E y \in rows' : y.sid = n[i].sid /\ y.by = s /\ y.key.content = Content[n[i].obj]
    <3>1. CASE n[i] = f
      BY <1>5, <2>1, <3>1
    <3>2. ASSUME NEW j \in 2 .. Len(st), n[i] = st[j]
          PROVE  \E y \in rows' : y.sid = n[i].sid /\ y.by = s /\ y.key.content = Content[n[i].obj]
      <4>1. j \in 1 .. Len(st)
        BY <1>0
      <4> QED BY <1>4, <2>1, <3>2, <4>1
    <3> QED BY <1>2, <2>1, <3>1, <3>2
  <2> QED BY <1>1, <2>1 DEF FramesHaveRows
<1>7. Root(s) = st[Len(st)]
  <2>1. Len(st) \in 1 .. Len(st)
    <3> DEFINE k == Len(st)
    <3>1. k \in Nat \ {0}
      BY <1>0
    <3> HIDE DEF k
    <3>2. k \in 1 .. k
      BY <3>1
    <3> QED BY <3>2 DEF k
  <2> QED BY <2>1 DEF Root
<1>8. Root(s)' = n[Len(n)]
  BY <1>1 DEF Root
<1>9. Root(s)'.obj = op'[s].obj
  <2>1. Root(s).obj = op[s].obj
    BY <1>0 DEF StackSound
  <2> QED BY <1>2, <1>7, <1>8, <2>1
<1>10. Root(s)'.sid = (IF Len(st) = 1 THEN f.sid ELSE Root(s).sid)
  BY <1>2, <1>7, <1>8
<1>11. \A x : IsFound(s, x)' <=> IsFound(s, x)
  BY DEF IsFound, RootKey
\* The row of the root stays.
<1>12. ASSUME Root(s).sid # 0
       PROVE  /\ \E x \in rows' : x.sid = Root(s).sid /\ x.by = s /\ IsFound(s, x)
              /\ \E m \in mains' : m.sid = Root(s).sid /\ m.by = s
  <2>1. PICK x \in rows : x.sid = Root(s).sid /\ x.by = s /\ IsFound(s, x)
    BY <1>12 DEF RootHasRow
  <2>2. PICK y \in rows' : Like(x, y) /\ y.by = x.by
    BY DEF Stays
  <2>3. y.sid = Root(s).sid /\ y.by = s /\ IsFound(s, y)
    BY <2>1, <2>2 DEF Like, IsFound
  <2>4. \E m \in mains' : m.sid = Root(s).sid /\ m.by = s
    BY <1>12 DEF RootHasRow, Stays
  <2> QED BY <2>3, <2>4
<1>13. PICK r : r = Root(s)'
  OBVIOUS
<1>14. ASSUME r.sid # 0
       PROVE  /\ \E x \in rows' : x.sid = r.sid /\ x.by = s /\ IsFound(s, x)
              /\ \E m \in mains' : m.sid = r.sid /\ m.by = s
  <2>1. CASE r.sid = Root(s).sid
    BY <1>12, <1>14, <2>1
  <2>2. CASE r.sid # Root(s).sid
    <3>1. Len(st) = 1 /\ r.sid = f.sid /\ f.sid # st[1].sid
      BY <1>7, <1>10, <1>13, <2>2
    <3> QED BY <3>1
  <2> QED BY <2>1, <2>2
<1>15. RootHasRow(s)'
  BY <1>11, <1>13, <1>14 DEF RootHasRow
<1> QED BY <1>1, <1>2, <1>6, <1>9, <1>10, <1>15

\* Names of the call's rows are those that there were.
LEMMA PinnedStays ==
  ASSUME NEW s \in Stores, Pinned(s), stack[s] # <<>>, op'[s].inserted = op[s].inserted,
         UNCHANGED <<mains, dispatch, returned>>, held'[s] = held[s],
         stack'[s] # <<>> => Root(s)'.sid = Root(s).sid
  PROVE  Pinned(s)'
  BY DEF Pinned

LEMMA MovesSound ==
  ASSUME Inv, NEW s \in Stores, Moves(s)
  PROVE  StoreSound(s)'
<1>0. /\ TypeInv /\ SidsUnique /\ StoreSound(s)
  BY DEF Inv, TablesSound
<1>1. /\ stack[s] # <<>> /\ Top(s).stage \in {"lookup", "refs"}
      /\ rows' = rows /\ mains' = mains /\ dispatch' = dispatch /\ returned' = returned
      /\ op' = op /\ tx' = tx /\ stamp' = stamp /\ cache' = cache /\ held' = held /\ mark' = mark
  BY DEF Moves, db, memory
<1>2. PICK f \in FrameType :
         /\ GoesOn(stack'[s], stack[s], f)
         /\ f.obj = Top(s).obj /\ f.sid = Top(s).sid /\ f.stage \in {"refs", "insert"}
         /\ f.base = IF Top(s).stage = "lookup" THEN Len(op[s].inserted) ELSE Top(s).base
  BY DEF Moves
<1>3. /\ stack[s] \in Seq(FrameType) /\ Top(s) = stack[s][1] /\ 1 \in DOMAIN stack[s]
      /\ op[s] \in CallType /\ op[s] # None /\ tx[s] \in {"single", "open"} /\ op[s].sid = 0
  BY <1>0, <1>1, TopTyped
<1>4. op[s].inserted \in Seq(Sid)
  BY <1>3 DEF CallType
<1>5. FramesSound(stack[s], op[s].inserted)
  BY <1>0, <1>3 DEF StoreSound, StackSound
<1>6. f.sid = 0
  BY <1>1, <1>2, <1>3, <1>5 DEF FramesSound
<1>7. f.base <= Len(op[s].inserted) /\ \A j \in 2 .. Len(stack[s]) :
         /\ stack[s][j].base <= f.base
         /\ stack[s][j].sid # 0 => \E m \in 1 .. f.base : op[s].inserted[m] = stack[s][j].sid
  <2>1. f.base = Len(op[s].inserted) \/ (stack[s][1].stage # "lookup" /\ f.base = stack[s][1].base)
    BY <1>2, <1>3
  <2> QED BY ZenonT(20), <1>1, <1>3, <1>4, <1>5, <2>1, TopFits
<1>8. FramesSound(stack'[s], op[s].inserted)
  <2>1. PICK n : n = stack'[s]
    OBVIOUS
  <2>2. GoesOn(n, stack[s], f)
    BY <1>2, <2>1
  <2>3. FramesSound(n, op[s].inserted)
    <3>1. PICK ins \in Seq(Sid) : ins = op[s].inserted
      BY <1>4
    <3>2. FramesSound(stack[s], ins) /\ Len(ins) <= Len(ins) /\ \A i \in DOMAIN ins : ins[i] = ins[i]
      BY <1>5, <3>1
    <3>3. /\ f.stage # "lookup" /\ (f.stage \in {"claim", "kids"} <=> f.sid # 0)
          /\ f.sid # 0 => \E m \in DOMAIN ins : ins[m] = f.sid
      BY <1>2, <1>6
    <3>4. f.base <= Len(ins) /\ \A j \in 2 .. Len(stack[s]) :
             /\ stack[s][j].base <= f.base
             /\ stack[s][j].sid # 0 => \E m \in 1 .. f.base : ins[m] = stack[s][j].sid
      BY <1>7, <3>1
    <3>5. FramesSound(n, ins)
      BY <1>1, <1>3, <2>2, <3>2, <3>3, <3>4, FramesGoOn
    <3> QED BY <3>1, <3>5
  <2> QED BY <2>1, <2>3
<1>9. Stays
  BY <1>0, EffectStays
<1>10. /\ FramesHaveRows(s)' /\ RootHasRow(s)' /\ stack'[s] # <<>>
       /\ Root(s)'.obj = op'[s].obj
       /\ Root(s)'.sid = (IF Len(stack[s]) = 1 THEN f.sid ELSE Root(s).sid)
  <2>1. 0 \in Nat /\ Len(stack[s]) = Len(stack[s]) + 0
        /\ \A i \in 1 .. Len(stack[s]) : stack[s][i] = stack[s][i + 0]
    BY <1>3
  <2>2. f.obj = stack[s][1].obj /\ f.sid = stack[s][1].sid
    BY <1>2, <1>3
  <2> QED BY <1>0, <1>1, <1>2, <1>3, <1>9, <2>1, <2>2, FramesKept DEF StoreSound
<1>11. Root(s)'.sid = Root(s).sid
  BY <1>2, <1>3, <1>10 DEF Root
<1>12. StackSound(s)'
  BY <1>0, <1>1, <1>3, <1>8, <1>10 DEF StoreSound, StackSound
<1>13. InsertedHere(s)'
  BY <1>0, <1>1 DEF StoreSound, InsertedHere
<1>14. FoundRow(s)' /\ Unowned(s)'
  BY <1>1, <1>3 DEF FoundRow, Unowned
<1>15. Pinned(s)'
  BY <1>0, <1>1, <1>11, PinnedStays DEF StoreSound
<1>16. StampSound(s)'
  BY <1>0, <1>1, RowsAlike, StampStays DEF StoreSound
<1>17. CacheSound(s)' /\ HeldSound(s)'
  BY <1>0, <1>1, <1>9, CacheStays, HeldStays DEF StoreSound
<1> QED BY <1>10, <1>12, <1>13, <1>14, <1>15, <1>16, <1>17 DEF StoreSound

LEMMA ClaimsSound ==
  ASSUME Inv, NEW s \in Stores, Claims(s)
  PROVE  StoreSound(s)'
<1>0. /\ TypeInv /\ SidsUnique /\ StoreSound(s)
  BY DEF Inv, TablesSound
<1>1. /\ stack[s] # <<>> /\ Top(s).sid # 0 /\ Top(s).stage = "claim"
      /\ RowsLike(s) /\ mains' = mains /\ dispatch' = dispatch /\ returned' = returned
      /\ op' = op /\ tx' = tx /\ stamp' = stamp /\ cache' = cache /\ held' = held /\ mark' = mark
  BY DEF Claims, memory
<1>2. PICK f \in FrameType :
         /\ GoesOn(stack'[s], stack[s], f)
         /\ f.obj = Top(s).obj /\ f.sid = Top(s).sid /\ f.stage = "kids" /\ f.base = Top(s).base
  BY DEF Claims
<1>3. /\ stack[s] \in Seq(FrameType) /\ Top(s) = stack[s][1] /\ 1 \in DOMAIN stack[s]
      /\ op[s] \in CallType /\ op[s] # None /\ tx[s] \in {"single", "open"} /\ op[s].sid = 0
  BY <1>0, <1>1, TopTyped
<1>4. op[s].inserted \in Seq(Sid)
  BY <1>3 DEF CallType
<1>5. PICK ins \in Seq(Sid) : ins = op[s].inserted
  BY <1>4
<1>6. FramesSound(stack[s], ins)
  BY <1>0, <1>3, <1>5 DEF StoreSound, StackSound
<1>7. f.base <= Len(ins) /\ \A j \in 2 .. Len(stack[s]) :
         /\ stack[s][j].base <= f.base
         /\ stack[s][j].sid # 0 => \E m \in 1 .. f.base : ins[m] = stack[s][j].sid
  <2>1. stack[s][1].stage # "lookup" /\ f.base = stack[s][1].base
    BY <1>1, <1>2, <1>3
  <2> QED BY ZenonT(20), <1>1, <1>3, <1>6, <2>1, TopFits
<1>8. FramesSound(stack'[s], ins)
  <2>1. PICK n : n = stack'[s]
    OBVIOUS
  <2>2. GoesOn(n, stack[s], f)
    BY <1>2, <2>1
  <2>3. Len(ins) <= Len(ins) /\ \A i \in DOMAIN ins : ins[i] = ins[i]
    OBVIOUS
  <2>4. /\ f.stage # "lookup" /\ (f.stage \in {"claim", "kids"} <=> f.sid # 0)
        /\ f.sid # 0 => \E m \in DOMAIN ins : ins[m] = f.sid
    BY <1>1, <1>2, <1>3, <1>6 DEF FramesSound
  <2>5. FramesSound(n, ins)
    BY <1>1, <1>3, <1>6, <1>7, <2>2, <2>3, <2>4, FramesGoOn
  <2> QED BY <2>1, <2>5
<1>9. Stays
  BY <1>0, EffectStays
<1>10. /\ FramesHaveRows(s)' /\ RootHasRow(s)' /\ stack'[s] # <<>>
       /\ Root(s)'.obj = op'[s].obj
       /\ Root(s)'.sid = (IF Len(stack[s]) = 1 THEN f.sid ELSE Root(s).sid)
  <2>1. 0 \in Nat /\ Len(stack[s]) = Len(stack[s]) + 0
        /\ \A i \in 1 .. Len(stack[s]) : stack[s][i] = stack[s][i + 0]
    BY <1>3
  <2>2. f.obj = stack[s][1].obj /\ f.sid = stack[s][1].sid
    BY <1>2, <1>3
  <2> QED BY <1>0, <1>1, <1>2, <1>3, <1>9, <2>1, <2>2, FramesKept DEF StoreSound
<1>11. Root(s)'.sid = Root(s).sid
  BY <1>2, <1>3, <1>10 DEF Root
<1>12. StackSound(s)'
  BY <1>0, <1>1, <1>3, <1>5, <1>8, <1>10 DEF StoreSound, StackSound
<1>13. InsertedHere(s)'
  <2>1. ASSUME NEW i \in DOMAIN op[s].inserted
        PROVE  \E y \in rows' : y.sid = op[s].inserted[i] /\ y.by = s
    <3>1. PICK x \in rows : x.sid = op[s].inserted[i] /\ x.by = s
      BY <1>0, <1>3 DEF StoreSound, InsertedHere
    <3>2. PICK y \in rows' : Like(x, y) /\ y.by = x.by
      BY <1>9 DEF Stays
    <3> QED BY <3>1, <3>2 DEF Like
  <2> QED BY <1>1, <2>1 DEF InsertedHere
<1>14. FoundRow(s)' /\ Unowned(s)'
  BY <1>1, <1>3 DEF FoundRow, Unowned
<1>15. Pinned(s)'
  BY <1>0, <1>1, <1>11, PinnedStays DEF StoreSound
<1>16. StampSound(s)'
  BY <1>0, <1>1, StampStays DEF StoreSound
<1>17. CacheSound(s)' /\ HeldSound(s)'
  BY <1>0, <1>1, <1>9, CacheStays, HeldStays DEF StoreSound
<1> QED BY <1>10, <1>12, <1>13, <1>14, <1>15, <1>16, <1>17 DEF StoreSound

LEMMA AddsSound ==
  ASSUME Inv, NEW s \in Stores, Adds(s)
  PROVE  StoreSound(s)'
<1>0. /\ TypeInv /\ SidsUnique /\ StoreSound(s) /\ NamesHaveRows /\ ReturnsHaveRows /\ None \notin Stores
  BY TransactionsAssumption DEF Inv, TablesSound
<1>1. /\ stack[s] # <<>> /\ Top(s).stage \in {"refs", "insert"}
      /\ dispatch' = dispatch /\ returned' = returned
      /\ tx' = tx /\ stamp' = stamp /\ cache' = cache /\ held' = held /\ mark' = mark
  BY DEF Adds, memory
<1>2. PICK r \in RowType :
         /\ \A x \in rows : x.sid # r.sid
         /\ r.key = Key(s) /\ r.by = s /\ r.who = s /\ r.ts = stamp[s] /\ (Kin(s) # 0 => r.kin = Kin(s))
         /\ rows' = rows \cup {r}
         /\ mains' = IF IsRoot(s) THEN mains \cup {[sid |-> r.sid, by |-> s]} ELSE mains
         /\ op'[s] = [op[s] EXCEPT !.inserted = Append(@, r.sid)]
         /\ \E f \in FrameType :
              /\ GoesOn(stack'[s], stack[s], f)
              /\ f.obj = Top(s).obj /\ f.sid = r.sid /\ f.stage \in {"claim", "kids"} /\ f.base = Top(s).base
  BY DEF Adds
<1>3. PICK f \in FrameType :
         /\ GoesOn(stack'[s], stack[s], f)
         /\ f.obj = Top(s).obj /\ f.sid = r.sid /\ f.stage \in {"claim", "kids"} /\ f.base = Top(s).base
  BY <1>2
<1>4. /\ stack[s] \in Seq(FrameType) /\ Top(s) = stack[s][1] /\ 1 \in DOMAIN stack[s] /\ Top(s) \in FrameType
      /\ op[s] \in CallType /\ op[s] # None /\ tx[s] \in {"single", "open"} /\ op[s].sid = 0
  BY <1>0, <1>1, TopTyped
<1>5. PICK ins \in Seq(Sid) : ins = op[s].inserted
  BY <1>4 DEF CallType
<1>6. PICK n \in Sid : n = r.sid
  BY DEF RowType
<1> DEFINE more == Append(ins, n)
<1>7. /\ more \in Seq(Sid) /\ Len(more) = Len(ins) + 1 /\ Len(ins) \in Nat
      /\ (\A i \in DOMAIN ins : more[i] = ins[i] /\ i \in DOMAIN more) /\ more[Len(ins) + 1] = n
      /\ DOMAIN more = 1 .. Len(ins) + 1 /\ DOMAIN ins = 1 .. Len(ins)
      /\ \A i \in DOMAIN more : i \in DOMAIN ins \/ i = Len(ins) + 1
  OBVIOUS
<1>8. op'[s].inserted = more /\ op'[s].obj = op[s].obj /\ op'[s].of = op[s].of /\ op'[s].kind = op[s].kind
      /\ op'[s].kin = op[s].kin /\ op'[s].sid = 0 /\ op'[s] # None
  <2>1. op'[s] = [op[s] EXCEPT !.inserted = more]
    BY <1>2, <1>5, <1>6
  <2>2. op'[s] \in CallType
    <3> HIDE DEF more
    <3> QED BY <1>4, <1>7, <2>1 DEF CallType
  <2>3. op'[s] # None
    BY <2>2, TransactionsAssumption
  <2> HIDE DEF more
  <2> QED BY <1>4, <2>1, <2>3 DEF CallType
<1> HIDE DEF more
<1>9. FramesSound(stack[s], ins) /\ NoneTwice(ins) /\ Root(s).obj = op[s].obj
  BY <1>0, <1>1, <1>4, <1>5 DEF StoreSound, StackSound
<1>10. f.base <= Len(ins) /\ f.base \in Nat /\ \A j \in 2 .. Len(stack[s]) :
         /\ stack[s][j].base <= f.base
         /\ stack[s][j].sid # 0 => \E m \in 1 .. f.base : ins[m] = stack[s][j].sid
  <2>1. stack[s][1].stage # "lookup" /\ f.base = stack[s][1].base
    BY <1>1, <1>3, <1>4
  <2>2. stack[s] \in Seq(FrameType) /\ stack[s] # <<>> /\ ins \in Seq(Sid) /\ FramesSound(stack[s], ins)
    BY <1>1, <1>4, <1>9
  <2> QED BY ZenonT(20), <2>1, <2>2, TopFits
<1>11. FramesSound(stack'[s], more)
  <2>1. PICK st : st = stack'[s]
    OBVIOUS
  <2>2. GoesOn(st, stack[s], f)
    BY <1>3, <2>1
  <2>3. Len(ins) <= Len(more) /\ \A i \in DOMAIN ins : more[i] = ins[i]
    BY <1>7
  <2>4. f.sid \in Sid /\ f.sid # 0
    BY <1>3, <1>6 DEF Sid
  <2>5. Len(ins) + 1 \in DOMAIN more
    BY <1>7
  <2>6. /\ f.stage # "lookup" /\ (f.stage \in {"claim", "kids"} <=> f.sid # 0)
        /\ f.sid # 0 => \E m \in DOMAIN more : more[m] = f.sid
    BY <1>3, <1>6, <1>7, <2>4, <2>5
  <2>7. f.base <= Len(more)
    BY <1>7, <1>10
  <2>8. \A m \in 1 .. f.base : more[m] = ins[m]
    BY <1>7, <1>10
  <2>9. \A j \in 2 .. Len(stack[s]) :
          /\ stack[s][j].base <= f.base
          /\ stack[s][j].sid # 0 => \E m \in 1 .. f.base : more[m] = stack[s][j].sid
    BY <1>10, <2>8
  <2>10. FramesSound(st, more)
    BY <1>1, <1>4, <1>7, <1>9, <2>2, <2>3, <2>6, <2>7, <2>9, FramesGoOn
  <2> QED BY <2>1, <2>10
<1>12. Stays
  BY <1>0, EffectStays
\* The new row is that of the frame.
<1>13. /\ r \in rows' /\ r.sid = f.sid /\ r.by = s /\ r.key.content = Content[f.obj]
       /\ Len(stack[s]) = 1 => IsFound(s, r) /\ \E m \in mains' : m.sid = f.sid /\ m.by = s
  <2>1. r.key.content = Content[f.obj]
    BY <1>0, <1>1, <1>2, <1>3, KeyTyped
  <2>2. ASSUME Len(stack[s]) = 1 PROVE IsFound(s, r) /\ \E m \in mains' : m.sid = f.sid /\ m.by = s
    <3>1. IsRoot(s) /\ Root(s) = Top(s)
      BY <1>4, <2>2 DEF IsRoot, Root
    <3>2. Key(s) = RootKey(s) /\ Kin(s) = op[s].kin
      BY <1>9, <3>1 DEF Key, RootKey, Con, Kin
    <3>3. [sid |-> r.sid, by |-> s] \in mains'
      BY <1>2, <3>1
    <3> QED BY <1>2, <1>3, <3>2, <3>3 DEF IsFound
  <2> QED BY <1>2, <1>3, <2>1, <2>2
<1>14. /\ FramesHaveRows(s)' /\ RootHasRow(s)' /\ stack'[s] # <<>>
       /\ Root(s)'.obj = op'[s].obj
       /\ Root(s)'.sid = (IF Len(stack[s]) = 1 THEN f.sid ELSE Root(s).sid)
  <2>1. 0 \in Nat /\ Len(stack[s]) = Len(stack[s]) + 0
        /\ \A i \in 1 .. Len(stack[s]) : stack[s][i] = stack[s][i + 0]
    BY <1>4
  <2>2. f.obj = stack[s][1].obj
    BY <1>3, <1>4
  <2> QED BY <1>0, <1>1, <1>3, <1>4, <1>8, <1>12, <1>13, <2>1, <2>2, FramesKept DEF StoreSound
\* No row of the call has its sid.
<1>15. \A i \in DOMAIN ins : ins[i] # n /\ \E x \in rows : x.sid = ins[i] /\ x.by = s
  BY <1>0, <1>2, <1>4, <1>5, <1>6 DEF StoreSound, InsertedHere
<1>16. NoneTwice(more)
  BY <1>7, <1>9, <1>15 DEF NoneTwice
<1>17. StackSound(s)'
  BY <1>8, <1>11, <1>14, <1>16 DEF StackSound
<1>18. InsertedHere(s)'
  <2>1. ASSUME NEW i \in DOMAIN more PROVE \E x \in rows' : x.sid = more[i] /\ x.by = s
    BY <1>2, <1>6, <1>7, <1>15
  <2> QED BY <1>8, <2>1 DEF InsertedHere
<1>19. FoundRow(s)' /\ Unowned(s)'
  BY <1>1, <1>4, <1>8 DEF FoundRow, Unowned
<1>20. Pinned(s)'
  <2>1. \A m \in mains : m.sid # n
    BY <1>0, <1>2, <1>6 DEF NamesHaveRows
  <2>2. \A d \in dispatch \cup returned : d.sid # n
    BY <1>0, <1>2, <1>6 DEF NamesHaveRows, ReturnsHaveRows
  <2>3. held[s] # None => held[s].sid # n
    BY <1>0, <1>2, <1>6 DEF StoreSound, HeldSound, Seen
  <2>4. ASSUME NEW i \in DOMAIN more
        PROVE  /\ \A m \in mains' : m.by = s /\ m.sid = more[i] => m.sid = Root(s)'.sid
               /\ \A d \in dispatch \cup returned : d.by = s => d.sid # more[i]
               /\ held[s] # None => held[s].sid # more[i]
    <3>1. CASE i \in DOMAIN ins
      <4>1. more[i] = ins[i]
        BY <1>7, <3>1
      <4>2. /\ \A m \in mains : m.by = s /\ m.sid = ins[i] => m.sid = Root(s).sid
            /\ \A d \in dispatch \cup returned : d.by = s => d.sid # ins[i]
            /\ held[s] # None => held[s].sid # ins[i]
        BY <1>0, <1>1, <1>5, <3>1 DEF StoreSound, Pinned
      <4>3. ASSUME NEW m \in mains', m.by = s, m.sid = ins[i] PROVE m.sid = Root(s)'.sid
        <5>1. m \in mains
          BY <1>2, <1>6, <1>15, <3>1, <4>3
        <5>2. m.sid = Root(s).sid /\ m.sid # 0
          BY <1>0, <4>2, <4>3, <5>1, NamesTyped
        <5>3. ASSUME Len(stack[s]) = 1 PROVE FALSE
          <6>1. Root(s) = Top(s)
            BY <1>4, <5>3 DEF Root
          <6>2. Top(s).sid = 0
            BY <1>1, <1>4, <1>9 DEF FramesSound
          <6> QED BY <5>2, <6>1, <6>2
        <5> QED BY <1>14, <5>2, <5>3
      <4> QED BY <4>1, <4>2, <4>3
    <3>2. CASE i = Len(ins) + 1
      <4>1. more[i] = n
        BY <1>7, <3>2
      <4>2. ASSUME NEW m \in mains', m.sid = n PROVE m.sid = Root(s)'.sid
        <5>1. IsRoot(s)
          BY <1>2, <2>1, <4>2
        <5> QED BY <1>3, <1>6, <1>14, <4>2, <5>1 DEF IsRoot
      <4> QED BY <2>2, <2>3, <4>1, <4>2
    <3> QED BY <1>7, <3>1, <3>2
  <2> QED BY <1>1, <1>8, <2>4 DEF Pinned
<1>21. StampSound(s)'
  BY <1>0, <1>1, <1>2 DEF StoreSound, StampSound
<1>22. CacheSound(s)' /\ HeldSound(s)'
  BY <1>0, <1>1, <1>12, CacheStays, HeldStays DEF StoreSound
<1> QED BY <1>14, <1>17, <1>18, <1>19, <1>20, <1>21, <1>22 DEF StoreSound

\* The innermost frame hands the sid of a row that the store sees to its caller.
LEMMA CameBackSound ==
  ASSUME Inv, NEW s \in Stores, NEW n \in Sid, CameBack(s, n), RowsLike(s), Stays,
         Len(stack[s]) # 1 => mains' = mains,
         \E y \in Seen(s, rows) : y.sid = n /\ y.key.content = Content[Top(s).obj],
         Len(stack[s]) = 1 => /\ \E y \in rows' : y.sid = n /\ y.by \in {None, s} /\ IsFound(s, y)
                              /\ \E m \in mains' : m.sid = n /\ m.by \in {None, s}
  PROVE  StoreSound(s)'
<1>0. /\ TypeInv /\ SidsUnique /\ StoreSound(s)
  BY DEF Inv, TablesSound
<1>1. /\ stack[s] # <<>> /\ ReturnsTo(s, n)
      /\ cache'[s] = cache[s] \cup {[obj |-> Top(s).obj, sid |-> n]}
      /\ dispatch' = dispatch /\ returned' = returned
      /\ tx' = tx /\ stamp' = stamp /\ held' = held /\ mark' = mark
  BY DEF CameBack
<1>2. /\ stack[s] \in Seq(FrameType) /\ op[s] \in CallType /\ op[s] # None
      /\ tx[s] \in {"single", "open"} /\ op[s].sid = 0
  BY <1>0, <1>1, TopTyped
<1>t. /\ Tail(stack[s]) \in Seq(FrameType) /\ Len(stack[s]) \in Nat \ {0}
      /\ Len(Tail(stack[s])) = Len(stack[s]) - 1
      /\ \A i \in 1 .. Len(Tail(stack[s])) : Tail(stack[s])[i] = stack[s][i + 1]
  <2>1. PICK q \in Seq(FrameType) : q = stack[s]
    BY <1>2
  <2>2. /\ Tail(q) \in Seq(FrameType) /\ Len(q) \in Nat \ {0} /\ Len(Tail(q)) = Len(q) - 1
        /\ \A i \in 1 .. Len(Tail(q)) : Tail(q)[i] = q[i + 1]
    BY <1>1, <2>1
  <2> QED BY <2>1, <2>2
<1>3. PICK ins \in Seq(Sid) : ins = op[s].inserted
  BY <1>2 DEF CallType
<1>4. FramesSound(stack[s], ins) /\ NoneTwice(ins) /\ Root(s).obj = op[s].obj
  BY <1>0, <1>1, <1>2, <1>3 DEF StoreSound, StackSound
<1>5. \A i \in DOMAIN ins : \E y \in rows' : y.sid = ins[i] /\ y.by = s
  <2> TAKE i \in DOMAIN ins
  <2>1. PICK x \in rows : x.sid = ins[i] /\ x.by = s
    BY <1>0, <1>2, <1>3 DEF StoreSound, InsertedHere
  <2>2. PICK y \in rows' : Like(x, y) /\ y.by = x.by
    BY <2>1 DEF Stays
  <2> QED BY <2>1, <2>2 DEF Like
<1>6. Unowned(s)'
  BY <1>1, <1>2 DEF Unowned
<1>7. StampSound(s)'
  BY <1>0, <1>1, StampStays DEF StoreSound
<1>8. CacheSound(s)'
  <2>1. \A e \in cache'[s] \ cache[s] : \E x \in Seen(s, rows) : x.sid = e.sid /\ x.key.content = Content[e.obj]
    BY <1>1
  <2> QED BY <1>0, <2>1, CacheStays DEF StoreSound
<1>9. HeldSound(s)'
  BY <1>0, <1>1, HeldStays DEF StoreSound
<1>10. CASE Tail(stack[s]) = <<>>
  <2>1. Len(stack[s]) = 1
    <3>1. Len(Tail(stack[s])) = Len(<<>>)
      BY <1>10, Zenon
    <3> QED BY <1>t, <3>1
  <2>2. stack'[s] = <<>> /\ op'[s] = [op[s] EXCEPT !.sid = n]
    BY <1>1, <1>10 DEF ReturnsTo
  <2>3. /\ op'[s].sid = n /\ op'[s].inserted = ins /\ op'[s].obj = op[s].obj /\ op'[s].of = op[s].of
        /\ op'[s].kind = op[s].kind /\ op'[s].kin = op[s].kin
    BY <1>2, <1>3, <2>2 DEF CallType
  <2>4. StackSound(s)'
    BY <1>4, <2>2, <2>3 DEF StackSound, FramesSound
  <2>5. InsertedHere(s)'
    BY <1>5, <2>3 DEF InsertedHere
  <2>6. FramesHaveRows(s)' /\ RootHasRow(s)' /\ Pinned(s)'
    BY <2>2 DEF FramesHaveRows, RootHasRow, Pinned
  <2>7. FoundRow(s)'
    BY <2>1, <2>3 DEF FoundRow, IsFound, RootKey
  <2> QED BY <1>6, <1>7, <1>8, <1>9, <2>4, <2>5, <2>6, <2>7 DEF StoreSound
<1>11. CASE Tail(stack[s]) # <<>>
  <2>1. PICK st \in Seq(FrameType) : st = Tail(stack[s])
    BY <1>t
  <2>2. /\ st # <<>> /\ Len(stack[s]) = Len(st) + 1 /\ Len(st) \in Nat \ {0}
        /\ \A i \in 1 .. Len(st) : st[i] = stack[s][i + 1]
    BY <1>t, <1>11, <2>1
  <2>3. Len(stack[s]) # 1 /\ mains' = mains
    BY <2>2
  <2>4. st[1] = stack[s][2] /\ st[1] \in FrameType /\ 2 \in DOMAIN stack[s] /\ 1 \in DOMAIN st
    BY <1>2, <2>2
  <2>5. op'[s] = op[s] /\ \E f \in FrameType :
          /\ GoesOn(stack'[s], st, f)
          /\ f.obj = st[1].obj /\ f.stage = st[1].stage /\ f.sid = st[1].sid /\ f.base = st[1].base
    BY <1>1, <1>11, <2>1, <2>4 DEF ReturnsTo
  <2>6. PICK f \in FrameType :
          /\ GoesOn(stack'[s], st, f)
          /\ f.obj = st[1].obj /\ f.stage = st[1].stage /\ f.sid = st[1].sid /\ f.base = st[1].base
    BY <2>5
  <2>7. FramesSound(st, ins)
    BY <1>1, <1>2, <1>4, <2>1, FramesTail
  <2>8. st[1].stage # "lookup"
    BY <1>4, <2>4 DEF FramesSound
  <2>9. f.base <= Len(ins) /\ \A j \in 2 .. Len(st) :
          /\ st[j].base <= f.base
          /\ st[j].sid # 0 => \E m \in 1 .. f.base : ins[m] = st[j].sid
    BY <2>2, <2>6, <2>7, <2>8, TopFits
  <2>10. FramesSound(stack'[s], ins)
    <3>1. PICK k : k = stack'[s]
      OBVIOUS
    <3>2. GoesOn(k, st, f)
      BY <2>6, <3>1
    <3>3. Len(ins) <= Len(ins) /\ \A i \in DOMAIN ins : ins[i] = ins[i]
      OBVIOUS
    <3>4. /\ f.stage # "lookup" /\ (f.stage \in {"claim", "kids"} <=> f.sid # 0)
          /\ f.sid # 0 => \E m \in DOMAIN ins : ins[m] = f.sid
      BY <2>4, <2>6, <2>7, <2>8 DEF FramesSound
    <3>5. FramesSound(k, ins)
      BY <2>2, <2>7, <2>9, <3>2, <3>3, <3>4, FramesGoOn
    <3> QED BY <3>1, <3>5
  <2>11. /\ FramesHaveRows(s)' /\ RootHasRow(s)' /\ stack'[s] # <<>>
         /\ Root(s)'.obj = op'[s].obj
         /\ Root(s)'.sid = (IF Len(st) = 1 THEN f.sid ELSE Root(s).sid)
    <3>1. 1 \in Nat
      OBVIOUS
    <3>2. op'[s] # None /\ op'[s].obj = op[s].obj /\ op'[s].of = op[s].of /\ op'[s].kind = op[s].kind
          /\ op'[s].kin = op[s].kin
      BY <1>2, <2>5
    <3>3. StackSound(s) /\ FramesHaveRows(s) /\ RootHasRow(s)
      BY <1>0 DEF StoreSound
    <3> QED BY <1>0, <1>1, <2>2, <2>6, <3>1, <3>2, <3>3, FramesKept
  <2>12. Root(s)'.sid = Root(s).sid
    BY <2>2, <2>4, <2>6, <2>11 DEF Root
  <2>13. StackSound(s)'
    BY <1>3, <1>4, <2>5, <2>10, <2>11 DEF StackSound
  <2>14. InsertedHere(s)'
    BY <1>3, <1>5, <2>5 DEF InsertedHere
  <2>15. FoundRow(s)'
    BY <1>2, <2>5 DEF FoundRow
  <2>16. Pinned(s)'
    BY <1>0, <1>1, <2>3, <2>5, <2>12, PinnedStays DEF StoreSound
  <2> QED BY <1>6, <1>7, <1>8, <1>9, <2>11, <2>13, <2>14, <2>15, <2>16 DEF StoreSound
<1> QED BY <1>10, <1>11

LEMMA HitsSound ==
  ASSUME Inv, NEW s \in Stores, NEW x \in rows, Hits(s, x)
  PROVE  StoreSound(s)'
<1>0. /\ TypeInv /\ SidsUnique /\ StoreSound(s)
  BY DEF Inv, TablesSound
<1>1. /\ CameBack(s, x.sid) /\ rows' = rows /\ mains' = Promoted(s, x)
      /\ x \in Seen(s, rows) /\ x.key = Key(s) /\ ~Collides(s, x)
  BY DEF Hits
<1>2. x.by \in {None, s}
  BY <1>1 DEF Seen
<1>3. stack[s] # <<>> /\ x.sid \in Sid
  BY <1>1 DEF CameBack
<1>4. stack[s] \in Seq(FrameType) /\ Top(s) = stack[s][1] /\ op[s] # None
  BY <1>0, <1>3, TopTyped
<1>5. Stays /\ RowsLike(s)
  BY <1>0, <1>1, EffectStays, RowsAlike
<1>6. Len(stack[s]) # 1 => mains' = mains
  BY <1>1 DEF Promoted, IsRoot
<1>7. \E y \in Seen(s, rows) : y.sid = x.sid /\ y.key.content = Content[Top(s).obj]
  <2>1. Key(s).content = Content[Top(s).obj]
    BY <1>0, <1>3, KeyTyped
  <2> QED BY <1>1, <2>1
<1>8. ASSUME Len(stack[s]) = 1
      PROVE  /\ \E y \in rows' : y.sid = x.sid /\ y.by \in {None, s} /\ IsFound(s, y)
             /\ \E m \in mains' : m.sid = x.sid /\ m.by \in {None, s}
  <2>1. IsRoot(s) /\ Root(s) = Top(s)
    BY <1>4, <1>8 DEF IsRoot, Root
  <2>2. Root(s).obj = op[s].obj
    BY <1>0, <1>3, <1>4 DEF StoreSound, StackSound
  <2>3. Key(s) = RootKey(s) /\ Kin(s) = op[s].kin
    BY <2>1, <2>2 DEF Key, RootKey, Con, Kin
  <2>4. IsFound(s, x)
    BY <1>1, <2>3 DEF Collides, IsFound
  <2>5. \E m \in mains' : m.sid = x.sid /\ m.by \in {None, s}
    <3>1. CASE \E m \in Seen(s, mains) : m.sid = x.sid
      BY <1>1, <3>1 DEF Promoted, Seen
    <3>2. CASE ~\E m \in Seen(s, mains) : m.sid = x.sid
      <4>1. mains' = mains \cup {[sid |-> x.sid, by |-> s]}
        BY <1>1, <2>1, <3>2 DEF Promoted
      <4>2. PICK m : m = [sid |-> x.sid, by |-> s]
        OBVIOUS
      <4>3. m \in mains' /\ m.sid = x.sid /\ m.by = s
        BY <4>1, <4>2
      <4> QED BY <4>3
    <3> QED BY <3>1, <3>2
  <2> QED BY <1>1, <1>2, <2>4, <2>5
<1> QED BY <1>1, <1>3, <1>5, <1>6, <1>7, <1>8, CameBackSound

LEMMA WritesKidsSound ==
  ASSUME Inv, NEW s \in Stores, WritesKids(s)
  PROVE  StoreSound(s)'
<1>0. /\ TypeInv /\ SidsUnique /\ StoreSound(s)
  BY DEF Inv, TablesSound
<1>1. CameBack(s, Top(s).sid) /\ RowsLike(s) /\ mains' = mains
  BY DEF WritesKids
<1>2. stack[s] # <<>> /\ Top(s).sid \in Sid
  BY <1>1 DEF CameBack
<1>3. PICK n \in Sid : n = Top(s).sid
  BY <1>2
<1>4. stack[s] \in Seq(FrameType) /\ Top(s) = stack[s][1] /\ 1 \in DOMAIN stack[s] /\ n # 0
  BY <1>0, <1>2, TopTyped DEF Sid
<1>5. Stays
  BY <1>0, EffectStays
<1>6. \E y \in Seen(s, rows) : y.sid = n /\ y.key.content = Content[Top(s).obj]
  BY <1>0, <1>3, <1>4 DEF StoreSound, FramesHaveRows, Seen
<1>7. ASSUME Len(stack[s]) = 1
      PROVE  /\ \E y \in rows' : y.sid = n /\ y.by \in {None, s} /\ IsFound(s, y)
             /\ \E m \in mains' : m.sid = n /\ m.by \in {None, s}
  <2>1. Root(s) = Top(s)
    BY <1>4, <1>7 DEF Root
  <2>2. /\ \E x \in rows : x.sid = n /\ x.by = s /\ IsFound(s, x)
        /\ \E m \in mains : m.sid = n /\ m.by = s
    BY <1>0, <1>2, <1>3, <1>4, <2>1 DEF StoreSound, RootHasRow
  <2>3. PICK x \in rows : x.sid = n /\ x.by = s /\ IsFound(s, x)
    BY <2>2
  <2>4. PICK y \in rows' : Like(x, y) /\ y.by = x.by
    BY <1>5 DEF Stays
  <2>5. IsFound(s, y)
    BY <2>3, <2>4 DEF IsFound, Like
  <2> QED BY <1>1, <2>2, <2>3, <2>4, <2>5 DEF Like
<1>8. CameBack(s, n)
  BY <1>1, <1>3
<1> QED BY <1>1, <1>5, <1>6, <1>7, <1>8, CameBackSound

LEMMA DispatchesSound ==
  ASSUME Inv, NEW s \in Stores, Dispatches(s)
  PROVE  StoreSound(s)'
<1>0. /\ TypeInv /\ SidsUnique /\ StoreSound(s)
  BY DEF Inv, TablesSound
<1>1. /\ op[s] # None /\ op[s].sid # 0 /\ stack[s] = <<>>
      /\ \/ op'[s] = None
         \/ op'[s] = [op[s] EXCEPT !.done = TRUE]
      /\ UNCHANGED <<rows, mains, tx, stack, stamp, cache, held, mark>>
  BY DEF Dispatches, memory
<1>2. op[s] \in CallType /\ tx[s] \in {"single", "open"}
  BY <1>0, <1>1 DEF TypeInv, SessionsTyped, Active
<1>3. StampSound(s)'
  BY <1>0, <1>1 DEF StoreSound, StampSound
<1>4. CacheSound(s)' /\ HeldSound(s)'
  BY <1>0, <1>1 DEF StoreSound, CacheSound, HeldSound, Seen
<1>5. Unowned(s)'
  BY <1>1, <1>2 DEF Unowned
<1>6. CASE op'[s] = None
  BY <1>1, <1>3, <1>4, <1>5, <1>6, CallOver DEF StoreSound
<1>7. CASE op'[s] = [op[s] EXCEPT !.done = TRUE]
  <2>1. /\ op'[s].sid = op[s].sid /\ op'[s].inserted = op[s].inserted /\ op'[s].obj = op[s].obj
        /\ op'[s].of = op[s].of /\ op'[s].kind = op[s].kind /\ op'[s].kin = op[s].kin
    BY <1>2, <1>7 DEF CallType
  <2>2. StackSound(s)'
    BY <1>0, <1>1, <2>1 DEF StoreSound, StackSound
  <2>3. InsertedHere(s)'
    BY <1>0, <1>1, <2>1 DEF StoreSound, InsertedHere
  <2>4. FramesHaveRows(s)' /\ RootHasRow(s)' /\ Pinned(s)'
    BY <1>1 DEF FramesHaveRows, RootHasRow, Pinned
  <2>5. FoundRow(s)'
    BY <1>0, <1>1, <2>1 DEF StoreSound, FoundRow, IsFound, RootKey
  <2> QED BY <1>3, <1>4, <1>5, <2>2, <2>3, <2>4, <2>5 DEF StoreSound
<1> QED BY <1>1, <1>6, <1>7

LEMMA ReadsSound ==
  ASSUME Inv, NEW s \in Stores, Reads(s)
  PROVE  StoreSound(s)'
<1>0. /\ TypeInv /\ SidsUnique /\ StoreSound(s)
  BY DEF Inv, TablesSound
<1>1. /\ op[s] = None /\ UNCHANGED <<rows, mains, dispatch, returned, tx, op, stack, stamp, cache, mark>>
  BY DEF Reads, db, session
<1>2. stack[s] = <<>>
  BY <1>0, <1>1, TopTyped
<1>3. StampSound(s)' /\ CacheSound(s)' /\ Unowned(s)'
  BY <1>0, <1>1 DEF StoreSound, StampSound, CacheSound, Unowned, Seen
<1>4. HeldSound(s)'
  <2>1. PICK x \in rows : x.by = s /\ held'[s] = [sid |-> x.sid, key |-> x.key, tx |-> TRUE]
    BY DEF Reads
  <2>2. x \in Seen(s, rows)'
    BY <1>1, <2>1 DEF Seen
  <2> QED BY <2>1, <2>2 DEF HeldSound
<1> QED BY <1>1, <1>2, <1>3, <1>4, CallOver DEF StoreSound

LEMMA TakesBackSound ==
  ASSUME Inv, NEW s \in Stores, TakesBack(s)
  PROVE  StoreSound(s)'
<1>0. /\ TypeInv /\ SidsUnique /\ StoreSound(s) /\ None \notin Stores
  BY TransactionsAssumption DEF Inv, TablesSound
<1>1. /\ stack[s] # <<>> /\ Top(s).stage \in {"refs", "insert"}
      /\ rows' = {x \in rows : x.sid \notin InsertedSince(s)}
      /\ op'[s] = [op[s] EXCEPT !.inserted = SubSeq(@, 1, Top(s).base)]
      /\ cache'[s] = {}
      /\ UNCHANGED <<mains, dispatch, tx, stack, stamp, held, mark, returned>>
  BY DEF TakesBack
<1>2. /\ stack[s] \in Seq(FrameType) /\ Top(s) = stack[s][1] /\ 1 \in DOMAIN stack[s]
      /\ op[s] \in CallType /\ op[s] # None /\ op[s].sid = 0 /\ tx[s] \in {"single", "open"}
  BY <1>0, <1>1, TopTyped
<1>3. PICK ins \in Seq(Sid) : ins = op[s].inserted
  BY <1>2 DEF CallType
<1>4. PICK st \in Seq(FrameType) : st = stack[s]
  BY <1>2
<1>5. /\ FramesSound(st, ins) /\ NoneTwice(ins) /\ Root(s).obj = op[s].obj
      /\ st # <<>> /\ st[1].stage # "lookup" /\ st[1].sid = 0 /\ Top(s) = st[1]
  <2>1. FramesSound(st, ins) /\ NoneTwice(ins) /\ Root(s).obj = op[s].obj
    BY <1>0, <1>1, <1>2, <1>3, <1>4 DEF StoreSound, StackSound
  <2> QED BY <1>1, <1>2, <1>4, <2>1 DEF FramesSound
<1>6. PICK b \in Nat : b = st[1].base /\ b <= Len(ins)
  <2>1. st[1] \in FrameType /\ 1 \in DOMAIN st
    BY <1>2, <1>4
  <2> QED BY <1>5, <2>1 DEF FramesSound, FrameType
<1>7. PICK less \in Seq(Sid) : less = SubSeq(ins, 1, b) /\ FramesSound(st, less)
  BY <1>5, <1>6, FramesTakeBack
<1>8. Len(less) = b /\ DOMAIN less = 1 .. b /\ \A i \in 1 .. b : less[i] = ins[i] /\ i \in DOMAIN ins
  BY <1>6, <1>7
<1>9. /\ op'[s].inserted = less /\ op'[s].sid = 0 /\ op'[s].obj = op[s].obj /\ op'[s].of = op[s].of
      /\ op'[s].kind = op[s].kind /\ op'[s].kin = op[s].kin
  <2>1. op'[s] = [op[s] EXCEPT !.inserted = less]
    BY <1>1, <1>3, <1>5, <1>6, <1>7
  <2> QED BY <1>2, <2>1 DEF CallType
\* What stays of the call's rows stays in the table.
<1>10. ASSUME NEW x \in rows, NEW i \in 1 .. b, x.sid = ins[i] PROVE x \in rows'
  <2>1. ASSUME x.sid \in InsertedSince(s) PROVE FALSE
    <3>1. PICK j \in (Top(s).base + 1) .. Len(op[s].inserted) : x.sid = op[s].inserted[j]
      BY <2>1 DEF InsertedSince
    <3>2. j \in b + 1 .. Len(ins) /\ ins[j] = ins[i]
      BY <1>3, <1>5, <1>6, <1>10, <3>1
    <3>3. j \in DOMAIN ins /\ i \in DOMAIN ins /\ j # i
      BY <1>6, <1>8, <3>2
    <3> QED BY <1>5, <3>2, <3>3 DEF NoneTwice
  <2> QED BY <1>1, <2>1
\* A frame with a row has it from before the innermost one.
<1>11. ASSUME NEW i \in DOMAIN st, st[i].sid # 0
       PROVE  \E m \in 1 .. b : ins[m] = st[i].sid
  <2>1. \E m \in DOMAIN less : less[m] = st[i].sid
    BY <1>7, <1>11 DEF FramesSound
  <2> QED BY <1>8, <2>1
<1>12. StackSound(s)'
  <2>1. NoneTwice(less)
    BY <1>5, <1>8 DEF NoneTwice
  <2> QED BY <1>1, <1>4, <1>5, <1>7, <1>9, <2>1 DEF StackSound, Root
<1>13. InsertedHere(s)'
  <2>1. ASSUME NEW i \in DOMAIN less PROVE \E x \in rows' : x.sid = less[i] /\ x.by = s
    <3>1. i \in 1 .. b /\ less[i] = ins[i] /\ i \in DOMAIN ins
      BY <1>8
    <3>2. PICK x \in rows : x.sid = ins[i] /\ x.by = s
      BY <1>0, <1>2, <1>3, <3>1 DEF StoreSound, InsertedHere
    <3>3. x \in rows'
      BY <1>10, <3>1, <3>2
    <3> QED BY <3>1, <3>2, <3>3
  <2> QED BY <1>9, <2>1 DEF InsertedHere
<1>14. FramesHaveRows(s)'
  <2>1. ASSUME NEW i \in DOMAIN st, st[i].sid # 0
        PROVE  \E x \in rows' : x.sid = st[i].sid /\ x.by = s /\ x.key.content = Content[st[i].obj]
    <3>1. PICK x \in rows : x.sid = st[i].sid /\ x.by = s /\ x.key.content = Content[st[i].obj]
      BY <1>0, <1>4, <2>1 DEF StoreSound, FramesHaveRows
    <3>2. PICK m \in 1 .. b : ins[m] = st[i].sid
      BY <1>11, <2>1
    <3>3. x \in rows'
      BY <1>10, <3>1, <3>2
    <3> QED BY <3>1, <3>3
  <2> QED BY <1>1, <1>4, <2>1 DEF FramesHaveRows
<1>15. RootHasRow(s)'
  <2>1. Root(s)' = Root(s) /\ Root(s) = st[Len(st)] /\ Len(st) \in DOMAIN st
    <3>1. Len(st) \in DOMAIN st
      <4> DEFINE k == Len(st)
      <4>1. k \in Nat /\ k # 0
        BY <1>5
      <4>2. DOMAIN st = 1 .. k
        OBVIOUS
      <4> HIDE DEF k
      <4>3. k \in 1 .. k
        BY <4>1
      <4> QED BY <4>2, <4>3 DEF k
    <3> QED BY <1>1, <1>4, <3>1 DEF Root
  <2>2. ASSUME Root(s).sid # 0
        PROVE  /\ \E x \in rows' : x.sid = Root(s).sid /\ x.by = s /\ IsFound(s, x)'
               /\ \E m \in mains' : m.sid = Root(s).sid /\ m.by = s
    <3>1. /\ \E x \in rows : x.sid = Root(s).sid /\ x.by = s /\ IsFound(s, x)
          /\ \E m \in mains : m.sid = Root(s).sid /\ m.by = s
      BY <1>0, <1>1, <2>2 DEF StoreSound, RootHasRow
    <3>2. PICK x \in rows : x.sid = Root(s).sid /\ x.by = s /\ IsFound(s, x)
      BY <3>1
    <3>3. PICK m \in 1 .. b : ins[m] = Root(s).sid
      BY <1>11, <2>1, <2>2
    <3>4. x \in rows'
      BY <1>10, <3>2, <3>3
    <3>5. IsFound(s, x)'
      BY <1>9, <3>2 DEF IsFound, RootKey
    <3> QED BY <1>1, <3>1, <3>2, <3>4, <3>5
  <2> QED BY <2>1, <2>2 DEF RootHasRow
<1>16. FoundRow(s)' /\ Unowned(s)' /\ CacheSound(s)'
  BY <1>1, <1>2, <1>9 DEF FoundRow, Unowned, CacheSound
<1>17. Pinned(s)'
  <2>1. \A i \in DOMAIN less : i \in DOMAIN op[s].inserted /\ less[i] = op[s].inserted[i]
    BY <1>3, <1>8
  <2>2. Root(s)' = Root(s)
    BY <1>1 DEF Root
  <2>3. \A i \in DOMAIN op[s].inserted :
          /\ \A m \in mains : m.by = s /\ m.sid = op[s].inserted[i] => m.sid = Root(s).sid
          /\ \A r \in dispatch \cup returned : r.by = s => r.sid # op[s].inserted[i]
          /\ held[s] # None => held[s].sid # op[s].inserted[i]
    BY <1>0, <1>1 DEF StoreSound, Pinned
  <2>4. ASSUME NEW i \in DOMAIN less
        PROVE  /\ \A m \in mains' : m.by = s /\ m.sid = less[i] => m.sid = Root(s)'.sid
               /\ \A r \in dispatch' \cup returned' : r.by = s => r.sid # less[i]
               /\ held'[s] # None => held'[s].sid # less[i]
    <3>1. PICK n : n = less[i] /\ n = op[s].inserted[i]
      BY <2>1
    <3>2. /\ \A m \in mains : m.by = s /\ m.sid = n => m.sid = Root(s).sid
          /\ \A r \in dispatch \cup returned : r.by = s => r.sid # n
          /\ held[s] # None => held[s].sid # n
      BY <2>1, <2>3, <3>1
    <3> QED BY <1>1, <2>2, <3>1, <3>2
  <2> QED BY <1>9, <2>4 DEF Pinned
<1>18. StampSound(s)'
  BY <1>0, <1>1 DEF StoreSound, StampSound
<1>19. HeldSound(s)'
  <2>1. ASSUME held[s] # None
        PROVE  \E x \in Seen(s, rows)' : x.sid = held[s].sid /\ x.key = held[s].key /\ (held[s].tx \/ x.by = None)
    <3>1. PICK x \in Seen(s, rows) : x.sid = held[s].sid /\ x.key = held[s].key /\ (held[s].tx \/ x.by = None)
      BY <1>0, <2>1 DEF StoreSound, HeldSound
    <3>2. x.sid \notin InsertedSince(s)
      <4>1. ASSUME x.sid \in InsertedSince(s) PROVE FALSE
        <5>1. x \in rows
          BY <3>1 DEF Seen
        <5>2. PICK i \in DOMAIN op[s].inserted : op[s].inserted[i] = x.sid
          BY <1>0, <1>1, <4>1, <5>1, InsertedOwn DEF StoreSound
        <5> QED BY <1>0, <1>1, <2>1, <3>1, <5>2 DEF StoreSound, Pinned
      <4> QED BY <4>1
    <3>3. x \in Seen(s, rows)'
      BY <1>1, <3>1, <3>2 DEF Seen
    <3> QED BY <3>1, <3>3
  <2> QED BY <1>1, <2>1 DEF HeldSound
<1> QED BY <1>12, <1>13, <1>14, <1>15, <1>16, <1>17, <1>18, <1>19 DEF StoreSound

\* Fsck leaves every store sound.
LEMMA SweepsSound ==
  ASSUME Inv, NEW s \in Stores, Sweeps(s), NEW t \in Stores
  PROVE  StoreSound(t)'
<1>0. /\ TypeInv /\ StoreSound(t)
  BY DEF Inv
<1>1. /\ tx[t] = "none" /\ held[t] = None
      /\ rows' \subseteq rows
      /\ UNCHANGED <<mains, dispatch, tx, op, stack, stamp, held, mark, returned>>
  BY DEF Sweeps, session
<1>2. cache'[t] = {}
  <2>1. CASE t = s
    BY <2>1 DEF Sweeps
  <2>2. CASE t # s
    BY <2>2 DEF Sweeps, OthersKept
  <2> QED BY <2>1, <2>2
<1>3. op[t] = None
  BY <1>0, <1>1 DEF TypeInv, Active
<1>4. stack[t] = <<>>
  BY <1>0, <1>3, TopTyped
<1>5. Unowned(t)'
  BY <1>0, <1>1 DEF StoreSound, Unowned
<1>6. StampSound(t)'
  BY <1>0, <1>1 DEF StoreSound, StampSound
<1>7. CacheSound(t)' /\ HeldSound(t)'
  BY <1>1, <1>2 DEF CacheSound, HeldSound
<1> QED BY <1>1, <1>3, <1>4, <1>5, <1>6, <1>7, CallOver DEF StoreSound

-----------------------------------------------------------------------------
(* The invariant holds.                                                    *)

LEMMA InvInit == Init => Inv /\ engine \in Engines
<1> SUFFICES ASSUME Init PROVE Inv /\ engine \in Engines
  OBVIOUS
<1>0. TypeInv /\ None \notin Stores /\ Cardinality(Earlier) \in Nat
  BY TypeInit, EarlierAssumption, TransactionsAssumption, FS_CardinalityType
<1>1. /\ rows = Earlier /\ nextSid = Cardinality(Earlier) + 1 /\ returned = {}
      /\ mains = {[sid |-> x.sid, by |-> None] : x \in Earlier}
      /\ dispatch = {[key |-> x.key, sid |-> x.sid, by |-> None] : x \in Earlier}
      /\ engine \in Engines
  BY DEF Init
<1>2. /\ \A x \in rows : x.by = None /\ x.sid <= Cardinality(Earlier) /\ x.sid \in Nat
      /\ \A x, y \in rows : x.sid = y.sid => x = y
  BY <1>0, <1>1, EarlierAssumption, NamesTyped
<1>3. SidsUnique
  <2>1. \A x \in rows : x.sid < nextSid
    BY <1>0, <1>1, <1>2
  <2> QED BY <1>2, <2>1 DEF SidsUnique
<1>4. \A m \in mains \cup dispatch : m.by = None /\ \E x \in rows : x.sid = m.sid
  BY <1>1
<1>5. NamesHaveRows /\ ReturnsHaveRows
  BY <1>1, <1>2, <1>4 DEF NamesHaveRows, ReturnsHaveRows
<1>6. ASSUME NEW s \in Stores PROVE StoreSound(s)
  <2>1. /\ op[s] = None /\ stack[s] = <<>> /\ stamp[s] = 0 /\ cache[s] = {} /\ held[s] = None
        /\ mark[s] = Newest
    BY DEF Init
  <2>2. StackSound(s) /\ InsertedHere(s) /\ FramesHaveRows(s) /\ RootHasRow(s) /\ FoundRow(s) /\ Pinned(s)
    BY <2>1 DEF StackSound, InsertedHere, FramesHaveRows, RootHasRow, FoundRow, Pinned
  <2>3. Unowned(s)
    BY <1>0, <1>1, <1>4 DEF Unowned
  <2>4. StampSound(s)
    BY <1>0, <1>2, <2>1, NewestTyped DEF StampSound, TypeInv
  <2>5. CacheSound(s) /\ HeldSound(s)
    BY <2>1 DEF CacheSound, HeldSound
  <2> QED BY <2>2, <2>3, <2>4, <2>5 DEF StoreSound
<1> QED BY <1>0, <1>1, <1>3, <1>5, <1>6 DEF Inv, TablesSound

LEMMA Stutters ==
  ASSUME Inv, UNCHANGED vars
  PROVE  Inv'
<1>1. UNCHANGED <<engine, rows, mains, claims, dispatch, nextSid, tx, op, stack, stamp,
                  cache, held, mark, calls, returned>>
  BY DEF vars, db, session, memory
<1>2. TypeInv'
  BY <1>1 DEF Inv, TypeInv, TablesTyped, SessionsTyped, MemoryTyped, Active
<1>3. TablesSound'
  BY <1>1 DEF Inv, TablesSound, SidsUnique, NamesHaveRows, ReturnsHaveRows
<1>4. ASSUME NEW s \in Stores PROVE StoreSound(s)'
  <2>0. StoreSound(s)
    BY DEF Inv
  <2>1. StackSound(s)' /\ InsertedHere(s)' /\ FramesHaveRows(s)'
    BY <1>1, <2>0 DEF StoreSound, StackSound, InsertedHere, FramesHaveRows, Root
  <2>2. RootHasRow(s)' /\ FoundRow(s)' /\ Pinned(s)'
    BY <1>1, <2>0 DEF StoreSound, RootHasRow, FoundRow, Pinned, Root, IsFound, RootKey
  <2>3. Unowned(s)' /\ StampSound(s)' /\ CacheSound(s)' /\ HeldSound(s)'
    BY <1>1, <2>0 DEF StoreSound, Unowned, StampSound, CacheSound, HeldSound, Seen
  <2> QED BY <2>1, <2>2, <2>3 DEF StoreSound
<1> QED BY <1>2, <1>3, <1>4 DEF Inv

LEMMA OwnSound ==
  ASSUME Inv, NEW s \in Stores, Effect(s)
  PROVE  StoreSound(s)'
  BY UndoneSound, CaughtSound, CommitsSound, EntersSound, MovesSound, ClaimsSound, AddsSound,
     TakesBackSound, HitsSound, WritesKidsSound, DispatchesSound, ReadsSound DEF Effect

LEMMA InvNext ==
  ASSUME Inv, ~FsckOnline, [Next]_vars
  PROVE  Inv' /\ engine' = engine
<1>1. CASE UNCHANGED vars
  BY <1>1, Stutters DEF vars
<1>2. CASE Next
  <2>1. PICK s \in Stores : Step(s)
    BY <1>2, NextIsStep
  <2>2. (Effect(s) \/ Sweeps(s)) /\ TypeInv'
    BY <2>1, StepEffect
  <2>3. TablesSound'
    BY <2>2, SidsStayUnique, NamesStay, ReturnsStay DEF TablesSound
  <2>4. ASSUME NEW t \in Stores PROVE StoreSound(t)'
    <3>1. CASE Sweeps(s)
      BY <3>1, SweepsSound
    <3>2. CASE Effect(s) /\ t = s
      BY <3>2, OwnSound
    <3>3. CASE Effect(s) /\ t # s
      BY <3>3, OthersSound
    <3> QED BY <2>2, <3>1, <3>2, <3>3
  <2>5. engine' = engine
    BY <2>2 DEF Effect, Sweeps, Undone, CaughtIn, Commits, Enters, Moves, Claims, Adds, TakesBack,
                Hits, WritesKids, CameBack, Dispatches, Reads
  <2> QED BY <2>2, <2>3, <2>4, <2>5 DEF Inv
<1> QED BY <1>1, <1>2

\* Rows are committed by commits alone.
LEMMA OnlyCommits ==
  ASSUME Inv, NEW s \in Stores, Effect(s) \/ Sweeps(s), ~Commits(s), NEW y \in rows', y.by = None
  PROVE  \E x \in rows : x.sid = y.sid /\ x.by = None
<1>0. /\ TypeInv /\ SidsUnique /\ None \notin Stores
  BY TransactionsAssumption DEF Inv, TablesSound
<1>1. ASSUME RowsLike(s) PROVE \E x \in rows : x.sid = y.sid /\ x.by = None
  BY <1>1 DEF RowsLike, Like
<1>2. ASSUME y \in rows PROVE \E x \in rows : x.sid = y.sid /\ x.by = None
  BY <1>2
<1>3. CASE Undone(s) \/ Enters(s) \/ Moves(s) \/ Reads(s)
  <2>1. rows' \subseteq rows
    BY <1>3 DEF Undone, Without, Enters, Moves, Reads, db
  <2> QED BY <1>2, <2>1
<1>4. CASE CaughtIn(s)
  BY <1>0, <1>1, <1>4, CaughtLike
<1>5. CASE Claims(s) \/ WritesKids(s)
  BY <1>1, <1>5 DEF Claims, WritesKids
<1>6. CASE Adds(s)
  <2>1. PICK r \in RowType : r.by = s /\ rows' = rows \cup {r}
    BY <1>6 DEF Adds
  <2> QED BY <1>0, <1>2, <2>1
<1>7. CASE TakesBack(s) \/ Dispatches(s) \/ Sweeps(s)
  <2>1. rows' \subseteq rows
    BY <1>7 DEF TakesBack, Dispatches, Sweeps
  <2> QED BY <1>2, <2>1
<1>8. ASSUME NEW x \in rows, Hits(s, x) PROVE \E z \in rows : z.sid = y.sid /\ z.by = None
  BY <1>2, <1>8 DEF Hits
<1> QED BY <1>3, <1>4, <1>5, <1>6, <1>7, <1>8 DEF Effect

\* What a commit makes of the stamps.
LEMMA CommitStamps ==
  ASSUME Inv, NEW s \in Stores, Commits(s),
         NEW y \in rows', y.by = None, \A x \in rows : x.sid = y.sid => x.by # None,
         NEW x \in rows', x.by = None, x.who = y.who
  PROVE  IF \E z \in rows : z = x THEN x.ts <= y.ts ELSE x.ts = y.ts
<1>0. /\ TypeInv /\ StampSound(s) /\ rows \subseteq RowType /\ MaxClock \in Nat /\ rows' = Settled(rows, s)
      /\ mark \in [Stores -> 0 .. MaxClock]
  BY TransactionsAssumption DEF Inv, StoreSound, TypeInv, TablesTyped, MemoryTyped, Commits
<1>1. PICK v \in rows : Like(v, y) /\ y.by = (IF v.by = s THEN None ELSE v.by)
  BY <1>0, SettledRows
<1>2. v.by = s
  BY <1>1 DEF Like
<1>3. y.ts = stamp[s] /\ y.who = s /\ y.ts \in 1 .. MaxClock
  <2>1. v.who = s /\ v.ts = stamp[s] /\ v.ts \in 1 .. MaxClock
    BY <1>0, <1>2 DEF StampSound, RowType
  <2> QED BY <1>1, <2>1 DEF Like
<1>4. PICK w \in rows : Like(w, x) /\ x.by = (IF w.by = s THEN None ELSE w.by) /\ (w.by # s => x = w)
  BY <1>0, SettledRows
<1>5. CASE w.by = s
  <2>1. w.ts = stamp[s]
    BY <1>0, <1>5 DEF StampSound
  <2>2. x.ts = y.ts
    BY <1>3, <1>4, <2>1 DEF Like
  <2>3. y.ts \in Nat
    BY <1>0, <1>3
  <2>4. x.ts <= y.ts
    BY <2>2, <2>3
  <2> QED BY <2>2, <2>4
<1>6. CASE w.by # s
  <2>1. x = w /\ x \in rows /\ x.who = s
    BY <1>3, <1>4, <1>6
  <2>2. x.ts <= mark[s] /\ mark[s] <= stamp[s]
    <3>1. stamp[s] # 0
      BY <1>3
    <3> QED BY <1>0, <2>1, <3>1 DEF StampSound
  <2>3. x.ts \in Nat /\ mark[s] \in Nat /\ stamp[s] \in Nat
    BY <1>0, <1>3, <2>1 DEF RowType
  <2>4. x.ts <= y.ts
    BY <1>3, <2>2, <2>3
  <2> QED BY <2>1, <2>4
<1> QED BY <1>5, <1>6

(* The inductive invariant of the profile, with fsck in exclusive use: what *)
(* the tables name, what a call in progress has written and found, and what *)
(* a store remembers, however transactions of several stores interleave.    *)
THEOREM Invariance == FsckOnline = FALSE => (Spec => [](Inv /\ engine \in Engines))
<1> SUFFICES ASSUME FsckOnline = FALSE PROVE Spec => [](Inv /\ engine \in Engines)
  OBVIOUS
<1> DEFINE I == Inv /\ engine \in Engines
<1>1. Init => I
  BY InvInit
<1>2. I /\ [Next]_vars => I'
  BY InvNext
<1>3. Spec => []I
  BY <1>1, <1>2, PTL DEF Spec
<1> QED BY <1>3

(* The types of the variables; among the rest, no two rows have one sid,   *)
(* and no main or dispatch row is left without its row.                    *)
THEOREM Typed == FsckOnline = FALSE => (Spec => []TypeOK)
<1> SUFFICES ASSUME FsckOnline = FALSE PROVE Spec => []TypeOK
  OBVIOUS
<1>1. Inv /\ engine \in Engines => TypeOK
  <2> SUFFICES ASSUME Inv, engine \in Engines PROVE TypeOK
    OBVIOUS
  <2>1. \A x \in rows :
          /\ x.sid \in Nat \ {0} /\ x.obj \in Objects /\ x.key.content \in Contents
          /\ x.ts \in 1 .. MaxClock /\ x.who \in Stores /\ x.by \in Stores \cup {None}
          /\ \A y \in rows : x.sid = y.sid => x = y
    BY DEF Inv, TablesSound, SidsUnique, TypeInv, TablesTyped, RowType, Sid, Keys, Writers
  <2>2. \A m \in mains \cup dispatch : \E x \in rows : x.sid = m.sid
    BY DEF Inv, TablesSound, NamesHaveRows
  <2>3. ASSUME NEW s \in Stores, NEW i \in DOMAIN stack[s] PROVE stack[s][i].stage \in Stages
    <3>1. stack[s] \in Seq(FrameType)
      BY DEF Inv, TypeInv, SessionsTyped
    <3>2. stack[s][i] \in FrameType
      BY <3>1
    <3> QED BY <3>2 DEF FrameType
  <2>4. /\ tx \in [Stores -> {"none", "single", "open", "lost"}]
        /\ stamp \in [Stores -> 0 .. MaxClock] /\ mark \in [Stores -> 0 .. MaxClock]
        /\ calls \in 0 .. MaxOps
    BY DEF Inv, TypeInv, SessionsTyped, MemoryTyped, Phases
  <2> QED BY <2>1, <2>2, <2>3, <2>4 DEF TypeOK
<1>2. Spec => [](Inv /\ engine \in Engines)
  BY Invariance
<1> QED BY <1>1, <1>2, PTL

(* The identity caches never name a row that the store cannot see, or one  *)
(* that took over the sid of a row that was rolled back, and a lazy row    *)
(* that can still be read is the one that was fetched.  This takes fsck in *)
(* exclusive use: beside an open store it collects what a cache names.     *)
THEOREM CachesAreTrue == FsckOnline = FALSE => (Spec => []CachesTrue)
<1> SUFFICES ASSUME FsckOnline = FALSE PROVE Spec => []CachesTrue
  OBVIOUS
<1>1. Inv /\ engine \in Engines => CachesTrue
  BY DEF Inv, StoreSound, CacheSound, HeldSound, CachesTrue
<1>2. Spec => [](Inv /\ engine \in Engines)
  BY Invariance
<1> QED BY <1>1, <1>2, PTL

(* What a committed save has returned is there: a main row of that content *)
(* under that sid, of the lineage that a replacement was to continue,      *)
(* whatever other transactions, discarded inserts or fsck do.              *)
THEOREM ReturnsAreKept == FsckOnline = FALSE => (Spec => []SavesKept)
<1> SUFFICES ASSUME FsckOnline = FALSE PROVE Spec => []SavesKept
  OBVIOUS
<1>1. Inv /\ engine \in Engines => SavesKept
  <2> SUFFICES ASSUME Inv, NEW r \in Committed(returned)
               PROVE  \E x \in Committed(rows) :
                        /\ x.sid = r.sid /\ x.key = r.key
                        /\ \E m \in Committed(mains) : m.sid = r.sid
                        /\ r.kin # 0 => x.kin = r.kin
    BY DEF SavesKept
  <2>1. r \in returned /\ r.by = None
    BY DEF Committed
  <2>2. /\ \E x \in rows : /\ x.sid = r.sid /\ x.key = r.key /\ x.by \in {None, r.by}
                           /\ r.kin # 0 => x.kin = r.kin
        /\ \E m \in mains : m.sid = r.sid /\ m.by \in {None, r.by}
    BY <2>1 DEF Inv, TablesSound, ReturnsHaveRows
  <2> QED BY <2>1, <2>2 DEF Committed
<1>2. Spec => [](Inv /\ engine \in Engines)
  BY Invariance
<1> QED BY <1>1, <1>2, PTL

(* A store never commits a row with an earlier timestamp than one it has   *)
(* committed, also after it was opened again, and all rows of one          *)
(* transaction have one timestamp.                                         *)
THEOREM StampsDoAdvance == FsckOnline = FALSE => (Spec => StampsAdvance)
<1> SUFFICES ASSUME FsckOnline = FALSE PROVE Spec => StampsAdvance
  OBVIOUS
<1> DEFINE A == \A y \in rows' : y.by = None /\ (\A x \in rows : x.sid = y.sid => x.by # None) =>
                  \A x \in rows' : x.by = None /\ x.who = y.who =>
                    IF \E z \in rows : z = x THEN x.ts <= y.ts ELSE x.ts = y.ts
<1>1. Inv /\ [Next]_vars => [A]_vars
  <2> SUFFICES ASSUME Inv, Next PROVE A
    OBVIOUS
  <2>1. PICK s \in Stores : Step(s)
    BY NextIsStep
  <2>2. Effect(s) \/ Sweeps(s)
    BY <2>1, StepEffect
  <2> SUFFICES ASSUME NEW y \in rows', y.by = None, \A x \in rows : x.sid = y.sid => x.by # None,
                      NEW x \in rows', x.by = None, x.who = y.who
               PROVE  IF \E z \in rows : z = x THEN x.ts <= y.ts ELSE x.ts = y.ts
    OBVIOUS
  <2>3. Commits(s)
    BY <2>2, OnlyCommits
  <2> QED BY <2>3, CommitStamps
<1>2. Spec => [](Inv /\ engine \in Engines)
  BY Invariance
<1>3. Spec => [][A]_vars
  BY <1>1, <1>2, PTL DEF Spec
<1> QED BY <1>3 DEF StampsAdvance
=============================================================================
