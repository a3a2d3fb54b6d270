---------------------------- MODULE GlobalMapProofs ----------------------------
(***************************************************************************)
(* Theorems of GlobalMap, for any number of processes, words, bits and     *)
(* points: the types, and that the updates of the modules are atomic until *)
(* the mutex is disturbed.  What is known of the mutex is cited from       *)
(* PlcMutexProofs.                                                         *)
(***************************************************************************)
EXTENDS GlobalMap, SequenceTheorems, TLAPS

MP == INSTANCE PlcMutexProofs WITH Tryers <- {}

\* What an update exchanges, one after the other: points, or whole words.
Item == Point \cup {[word |-> w, bits |-> WordBits(w)] : w \in 1..NWords}

LEMMA Items ==
  /\ \A it \in Item : it.word \in 1..NWords /\ it.bits \subseteq WordBits(it.word)
  /\ \A w \in 1..NWords : WordBits(w) \subseteq Bit
  /\ AllWords \in Seq(Item) /\ <<>> \in Seq(Item)
  /\ \A pt \in Point : <<pt>> \in Seq(Item)
  /\ UpdateArgs \subseteq Seq(Item)
<1>1. \A it \in Item : it.word \in 1..NWords /\ it.bits \subseteq WordBits(it.word)
  BY GlobalMapConstants DEF Item
<1>2. AllWords \in Seq(Item)
  <2>1. AllWords \in [1..NWords -> Item]
    BY DEF AllWords, Item
  <2> QED BY <2>1, GlobalMapConstants
<1>3. PointArrays \subseteq Seq(Item)
  <2> SUFFICES ASSUME NEW k \in 0..MaxPts PROVE [1..k -> Point] \subseteq Seq(Item)
    BY DEF PointArrays
  <2>1. k \in Nat /\ Point \subseteq Item
    BY GlobalMapConstants DEF Item
  <2> QED BY <2>1
<1>4. \A pt \in Point : <<pt>> \in Seq(Item)
  BY DEF Item
<1> QED BY <1>1, <1>2, <1>3, <1>4 DEF WordBits, UpdateArgs

(***************************************************************************)
(* Every step is one of the mutex, or leaves it alone.                     *)
(***************************************************************************)
LEMMA MutexStep ==
  ASSUME [Next]_vars
  PROVE  [MP!Next]_(MP!vars)
<1> USE DEF MP!Next, MP!vars, mutexVars
<1>1. CASE UNCHANGED vars
  BY <1>1 DEF vars
<1>2. ASSUME NEW p \in Proc, StartLocal(p) \/ \E items \in UpdateArgs : CallUpdate(p, items)
      PROVE  MP!CallLock(p)
  BY <1>2 DEF StartLocal, CallUpdate, Mutex!CallLock, MP!CallLock
<1>3. ASSUME NEW p \in Proc, Enter(p)
      PROVE  MP!Acquire(p) \/ MP!LockFails(p)
  BY <1>3 DEF Enter, Mutex!Acquire, MP!Acquire, Mutex!LockFails, MP!LockFails,
              Mutex!TakeToken, MP!TakeToken
<1>4. ASSUME NEW p \in Proc, Leave(p)
      PROVE  MP!Unlock(p)
  BY <1>4 DEF Leave, Mutex!Unlock, MP!Unlock
<1>5. ASSUME NEW p \in Proc, End(p)
      PROVE  MP!Exit(p)
  BY <1>5 DEF End, Mutex!Exit, MP!Exit
<1>6. ASSUME NEW p \in Proc,
             \/ StartShared(p) \/ Fetch(p) \/ Store(p)
             \/ \E pt \in Point, val \in SetMaps : Set(p, pt, val)
      PROVE  UNCHANGED MP!vars
  BY <1>6 DEF StartShared, Fetch, Store, Set
<1> QED BY <1>1, <1>2, <1>3, <1>4, <1>5, <1>6 DEF Next
-----------------------------------------------------------------------------
(***************************************************************************)
(* Types: what is left to exchange, and the word fetched of the first of   *)
(* it.                                                                     *)
(***************************************************************************)
TodoTyped ==
  \A p \in Proc :
    /\ todo[p] \in Seq(Item)
    /\ reg[p] # <<>> => todo[p] # <<>> /\ reg[p] \in [WordBits(Head(todo[p]).word) -> Val]
    /\ phase[p] = "down" => todo[p] = <<>>
MapsTyped ==
  /\ shared \in Locations
  /\ globmap \in [Bit -> Val]
  /\ privmap \in [Proc -> [Bit -> Val]]
  /\ mapmask \in [Proc -> SUBSET Bit]
  /\ phase \in [Proc -> {"down", "starting", "up"}]
  /\ DOMAIN todo = Proc /\ DOMAIN reg = Proc
  /\ todo = [p \in Proc |-> todo[p]] /\ reg = [p \in Proc |-> reg[p]]
Typed == MapsTyped /\ TodoTyped

LEMMA HeadTodo ==
  ASSUME Typed, NEW p \in Proc, todo[p] # <<>>
  PROVE  /\ Head(todo[p]) \in Item /\ Tail(todo[p]) \in Seq(Item)
         /\ Head(todo[p]).word \in 1..NWords
         /\ Head(todo[p]).bits \subseteq WordBits(Head(todo[p]).word)
         /\ WordBits(Head(todo[p]).word) \subseteq Bit
<1>1. todo[p] \in Seq(Item)
  BY DEF Typed, TodoTyped
<1>2. Head(todo[p]) \in Item /\ Tail(todo[p]) \in Seq(Item)
  BY <1>1, HeadTailProperties
<1> QED BY <1>2, Items

\* What a store writes: the word as it was fetched, with the owned bits of the point.
Merged(p) ==
  LET pt == Head(todo[p]) IN
  [b \in Bit |-> IF WordOf[b] # pt.word THEN globmap[b]
                 ELSE IF b \in pt.bits \cap mapmask[p] THEN privmap[p][b]
                 ELSE reg[p][b]]
LEMMA StoreMerges ==
  ASSUME NEW p \in Proc, Store(p)
  PROVE  /\ globmap' = Merged(p)
         /\ privmap' = [privmap EXCEPT ![p] =
                          [b \in Bit |-> IF b \in Head(todo[p]).bits THEN Merged(p)[b] ELSE @[b]]]
BY DEF Store, Merged

LEMMA MergedTyped ==
  ASSUME Typed, NEW p \in Proc, reg[p] # <<>>
  PROVE  Merged(p) \in [Bit -> Val]
<1>1. todo[p] # <<>> /\ reg[p] \in [WordBits(Head(todo[p]).word) -> Val]
  BY DEF Typed, TodoTyped
<1>2. \A b \in Bit : WordOf[b] = Head(todo[p]).word => reg[p][b] \in Val
  BY <1>1 DEF WordBits
<1>3. \A b \in Bit : globmap[b] \in Val /\ privmap[p][b] \in Val
  BY DEF Typed, MapsTyped
<1> QED BY <1>2, <1>3 DEF Merged

LEMMA TypedInit == Init => Typed
<1> SUFFICES ASSUME Init PROVE Typed
  OBVIOUS
<1>1. <<>> \in Seq(Item)
  BY Items
<1>2. MapsTyped
  BY GlobalMapConstants DEF Init, MapsTyped
<1>3. TodoTyped
  BY <1>1 DEF Init, TodoTyped
<1> QED BY <1>2, <1>3 DEF Typed

LEMMA TypedNext ==
  ASSUME Typed, [Next]_vars
  PROVE  Typed'
<1>0. ASSUME NEW p \in Proc, NEW t \in Seq(Item), todo' = [todo EXCEPT ![p] = t],
             reg[p] = <<>>, UNCHANGED reg,
             \A q \in Proc \ {p} : phase'[q] = phase[q], phase'[p] # "down" \/ t = <<>>
      PROVE  TodoTyped' /\ todo' = [q \in Proc |-> todo'[q]] /\ DOMAIN todo' = Proc
  BY <1>0 DEF Typed, TodoTyped, MapsTyped
<1>1. CASE UNCHANGED vars
  BY <1>1 DEF vars, Typed, MapsTyped, TodoTyped
<1>2. ASSUME NEW p \in Proc, StartLocal(p) PROVE Typed'
  <2>2. AllWords \in Seq(Item)
    BY Items
  <2>3. reg[p] = <<>>
    BY <1>2 DEF StartLocal, Typed, TodoTyped
  <2>4. phase'[p] = "starting" /\ \A q \in Proc \ {p} : phase'[q] = phase[q]
    BY <1>2 DEF StartLocal, Typed, MapsTyped
  <2>5. TodoTyped' /\ todo' = [q \in Proc |-> todo'[q]] /\ DOMAIN todo' = Proc
    BY <1>0, <1>2, <2>2, <2>3, <2>4 DEF StartLocal
  <2>6. mapmask' \in [Proc -> SUBSET Bit]
    BY <1>2, GlobalMapConstants DEF StartLocal, Typed, MapsTyped
  <2> QED BY <1>2, <2>5, <2>6 DEF StartLocal, Typed, MapsTyped
<1>3. ASSUME NEW p \in Proc, StartShared(p) PROVE Typed'
  <2>1. Writable(p) \subseteq Bit
    BY DEF Writable
  <2> QED BY <1>3, <2>1 DEF StartShared, Typed, MapsTyped, TodoTyped
<1>4. ASSUME NEW p \in Proc, NEW pt \in Point, NEW val \in SetMaps, Set(p, pt, val) PROVE Typed'
  <2>1. val \in [Bit -> Val]
    BY GlobalMapConstants
  <2>2. privmap' \in [Proc -> [Bit -> Val]]
    BY <1>4, <2>1 DEF Set, Typed, MapsTyped
  <2>3. reg[p] = <<>> /\ phase[p] # "down"
    BY <1>4 DEF Set, Idle, Typed, TodoTyped
  <2>4. <<pt>> \in Seq(Item)
    BY Items
  <2>5. TodoTyped' /\ todo' = [q \in Proc |-> todo'[q]] /\ DOMAIN todo' = Proc
    <3>1. CASE todo' = todo
      <4>1. UNCHANGED <<todo, reg, phase>>
        BY <1>4, <3>1 DEF Set
      <4> QED BY <4>1 DEF Typed, TodoTyped, MapsTyped
    <3>2. CASE todo' = [todo EXCEPT ![p] = <<pt>>]
      BY <1>0, <1>4, <2>3, <2>4, <3>2 DEF Set
    <3> QED BY <1>4, <3>1, <3>2 DEF Set
  <2> QED BY <1>4, <2>2, <2>5 DEF Set, Typed, MapsTyped
<1>5. ASSUME NEW p \in Proc, NEW items \in UpdateArgs, CallUpdate(p, items) PROVE Typed'
  <2>1. items \in Seq(Item)
    BY Items
  <2>2. reg[p] = <<>> /\ phase[p] # "down"
    BY <1>5 DEF CallUpdate, Idle, Typed, TodoTyped
  <2>3. TodoTyped' /\ todo' = [q \in Proc |-> todo'[q]] /\ DOMAIN todo' = Proc
    BY <1>0, <1>5, <2>1, <2>2 DEF CallUpdate
  <2> QED BY <1>5, <2>3 DEF CallUpdate, Typed, MapsTyped
<1>6. ASSUME NEW p \in Proc, Enter(p) PROVE Typed'
  BY <1>6 DEF Enter, Typed, MapsTyped, TodoTyped
<1>7. ASSUME NEW p \in Proc, Fetch(p) PROVE Typed'
  <2> DEFINE word == [b \in WordBits(Head(todo[p]).word) |-> globmap[b]]
  <2>1. word \in [WordBits(Head(todo[p]).word) -> Val] /\ todo[p] # <<>>
    BY <1>7, HeadTodo DEF Fetch, Typed, MapsTyped
  <2>2. reg' = [reg EXCEPT ![p] = word]
    BY <1>7 DEF Fetch
  <2> HIDE DEF word
  <2>3. TodoTyped'
    BY <1>7, <2>1, <2>2 DEF Fetch, Typed, TodoTyped, MapsTyped
  <2>4. reg' = [q \in Proc |-> reg'[q]] /\ DOMAIN reg' = Proc
    BY <2>2 DEF Typed, MapsTyped
  <2> QED BY <1>7, <2>3, <2>4 DEF Fetch, Typed, MapsTyped
<1>8. ASSUME NEW p \in Proc, Store(p) PROVE Typed'
  <2>1. reg[p] # <<>> /\ todo[p] # <<>>
    BY <1>8 DEF Store
  <2>2. Merged(p) \in [Bit -> Val]
    BY <2>1, MergedTyped
  <2>3. globmap' = Merged(p)
        /\ privmap' = [privmap EXCEPT ![p] =
                          [b \in Bit |-> IF b \in Head(todo[p]).bits THEN Merged(p)[b] ELSE @[b]]]
    BY <1>8, StoreMerges
  <2>4. privmap' \in [Proc -> [Bit -> Val]]
    BY <2>2, <2>3 DEF Typed, MapsTyped
  <2>5. Tail(todo[p]) \in Seq(Item) /\ phase[p] # "down"
    BY <2>1, HeadTodo DEF Typed, TodoTyped
  <2>6. todo' = [todo EXCEPT ![p] = Tail(todo[p])] /\ reg' = [reg EXCEPT ![p] = <<>>]
        /\ UNCHANGED <<shared, mapmask, phase>>
    BY <1>8 DEF Store
  <2>7. TodoTyped'
    BY <2>5, <2>6 DEF Typed, TodoTyped, MapsTyped
  <2>8. /\ reg' = [q \in Proc |-> reg'[q]] /\ todo' = [q \in Proc |-> todo'[q]]
        /\ DOMAIN todo' = Proc /\ DOMAIN reg' = Proc
    BY <2>6 DEF Typed, MapsTyped
  <2> QED BY <2>2, <2>3, <2>4, <2>6, <2>7, <2>8 DEF Typed, MapsTyped
<1>9. ASSUME NEW p \in Proc, Leave(p) PROVE Typed'
  <2>1. Writable(p) \subseteq Bit
    BY DEF Writable
  <2>2. phase' \in [Proc -> {"down", "starting", "up"}] /\ mapmask' \in [Proc -> SUBSET Bit]
    BY <1>9, <2>1 DEF Leave, Typed, MapsTyped
  <2>3. \A q \in Proc : phase'[q] = "down" => phase[q] = "down"
    BY <1>9 DEF Leave, Typed, MapsTyped
  <2>4. TodoTyped'
    BY <1>9, <2>3 DEF Leave, Typed, TodoTyped
  <2> QED BY <1>9, <2>2, <2>4 DEF Leave, Typed, MapsTyped
<1>10. ASSUME NEW p \in Proc, End(p) PROVE Typed'
  <2>1. privmap' \in [Proc -> [Bit -> Val]] /\ mapmask' \in [Proc -> SUBSET Bit]
    BY <1>10 DEF End, Typed, MapsTyped, Val
  <2>2. <<>> \in Seq(Item)
    BY Items
  <2>3. todo' = [todo EXCEPT ![p] = <<>>] /\ reg' = [reg EXCEPT ![p] = <<>>]
        /\ UNCHANGED <<shared, globmap, phase>>
    BY <1>10 DEF End
  <2>4. TodoTyped'
    BY <2>2, <2>3 DEF Typed, TodoTyped, MapsTyped
  <2>5. /\ reg' = [q \in Proc |-> reg'[q]] /\ todo' = [q \in Proc |-> todo'[q]]
        /\ DOMAIN todo' = Proc /\ DOMAIN reg' = Proc
    BY <2>3 DEF Typed, MapsTyped
  <2> QED BY <2>1, <2>3, <2>4, <2>5 DEF Typed, MapsTyped
<1> QED BY <1>1, <1>2, <1>3, <1>4, <1>5, <1>6, <1>7, <1>8, <1>9, <1>10 DEF Next
-----------------------------------------------------------------------------
(***************************************************************************)
(* Where the modules are, when all are local and none was disturbed.       *)
(***************************************************************************)
Clean == HeapMasks = {{}} /\ MaxPts > 0
Quiet == shared = {} /\ MP!Undisturbed

Located ==
  \A p \in Proc \ shared :
    /\ phase[p] = "down" => pc[p] = "out"
    /\ pc[p] = "out" => todo[p] = <<>>
    /\ reg[p] # <<>> => InSection(p)
    /\ phase[p] = "starting" /\ pc[p] # "dead" => pc[p] # "out" /\ mapmask[p] = {}
    /\ phase[p] = "starting" /\ pc[p] = "locking" => todo[p] = AllWords
    /\ phase[p] = "up" /\ pc[p] # "dead" => mapmask[p] = Writable(p)
    /\ phase[p] = "up" /\ pc[p] = "locking" => todo[p] \in UpdateArgs

\* Nobody stores between a fetch and its store.
FetchedFresh ==
  Quiet => \A p \in Proc : reg[p] # <<>> =>
             \A b \in WordBits(Head(todo[p]).word) : reg[p][b] = globmap[b]

IInv == Clean /\ MP!TypeOK /\ MP!Binary /\ Typed /\ Located /\ FetchedFresh

\* The abstract state while the mutex is free, and while p has it.
TodoBits(p) == UNION {todo[p][i].bits : i \in DOMAIN todo[p]}
Free == \A p \in Proc : ~InSection(p)
Holds(p) == \A q \in Proc : InSection(q) <=> q = p

AbsWhenFree ==
  Free => /\ AbsMap = [b \in Bit |-> globmap[b]]
          /\ AbsView = [q \in Proc |-> [b \in Bit |-> IF q \in AbsUp THEN privmap[q][b] ELSE 0]]
          /\ AbsUp = {q \in Proc : pc[q] # "dead" /\ phase[q] = "up"}
AbsWhenHeld ==
  \A p \in Proc : Holds(p) =>
    /\ AbsMap = [b \in Bit |-> IF b \in TodoBits(p) \cap mapmask[p] THEN privmap[p][b]
                                ELSE globmap[b]]
    /\ AbsView = [q \in Proc |-> [b \in Bit |->
                    IF q \notin AbsUp THEN 0
                    ELSE IF q = p /\ b \in TodoBits(p) \ mapmask[p] THEN globmap[b]
                    ELSE privmap[q][b]]]
    /\ AbsUp = {p} \cup {q \in Proc : pc[q] # "dead" /\ phase[q] = "up"}

LEMMA AbsFree == AbsWhenFree
<1> SUFFICES ASSUME Free
             PROVE  /\ AbsMap = [b \in Bit |-> globmap[b]]
                    /\ AbsView = [q \in Proc |-> [b \in Bit |-> IF q \in AbsUp THEN privmap[q][b] ELSE 0]]
                    /\ AbsUp = {q \in Proc : pc[q] # "dead" /\ phase[q] = "up"}
  BY DEF AbsWhenFree
<1>1. \A q \in Proc : Pending(q) = {}
  BY DEF Free, Pending
<1>2. AbsMap = [b \in Bit |-> globmap[b]]
  BY <1>1 DEF AbsMap
<1>3. AbsView = [q \in Proc |-> [b \in Bit |-> IF q \in AbsUp THEN privmap[q][b] ELSE 0]]
  BY <1>1 DEF AbsView
<1>4. AbsUp = {q \in Proc : pc[q] # "dead" /\ phase[q] = "up"}
  BY DEF Free, AbsUp
<1> QED BY <1>2, <1>3, <1>4

LEMMA AbsHeld == AbsWhenHeld
<1> SUFFICES ASSUME NEW p \in Proc, Holds(p)
             PROVE
    /\ AbsMap = [b \in Bit |-> IF b \in TodoBits(p) \cap mapmask[p] THEN privmap[p][b]
                                ELSE globmap[b]]
    /\ AbsView = [q \in Proc |-> [b \in Bit |->
                    IF q \notin AbsUp THEN 0
                    ELSE IF q = p /\ b \in TodoBits(p) \ mapmask[p] THEN globmap[b]
                    ELSE privmap[q][b]]]
    /\ AbsUp = {p} \cup {q \in Proc : pc[q] # "dead" /\ phase[q] = "up"}
  BY DEF AbsWhenHeld
<1>1. Pending(p) = TodoBits(p) /\ \A q \in Proc \ {p} : Pending(q) = {}
  BY DEF Holds, Pending, TodoBits
<1>2. ASSUME NEW b \in Bit
      PROVE  AbsMap[b] = IF b \in TodoBits(p) \cap mapmask[p] THEN privmap[p][b] ELSE globmap[b]
  <2>1. CASE b \in TodoBits(p) \cap mapmask[p]
    <3>1. (CHOOSE q \in Proc : b \in Pending(q) \cap mapmask[q]) = p
      BY <1>1, <2>1
    <3> QED BY <1>1, <2>1, <3>1 DEF AbsMap
  <2>2. CASE b \notin TodoBits(p) \cap mapmask[p]
    <3>1. ~ \E q \in Proc : b \in Pending(q) \cap mapmask[q]
      BY <1>1, <2>2
    <3>2. AbsMap[b] = globmap[b]
      BY <3>1, Zenon DEF AbsMap
    <3> QED BY <2>2, <3>2
  <2> QED BY <2>1, <2>2
<1>3. AbsMap = [b \in Bit |-> IF b \in TodoBits(p) \cap mapmask[p] THEN privmap[p][b]
                              ELSE globmap[b]]
  BY <1>2 DEF AbsMap
<1>4. AbsView = [q \in Proc |-> [b \in Bit |->
                    IF q \notin AbsUp THEN 0
                    ELSE IF q = p /\ b \in TodoBits(p) \ mapmask[p] THEN globmap[b]
                    ELSE privmap[q][b]]]
  BY <1>1 DEF AbsView
<1>5. AbsUp = {p} \cup {q \in Proc : pc[q] # "dead" /\ phase[q] = "up"}
  BY DEF Holds, AbsUp, InSection
<1> QED BY <1>3, <1>4, <1>5

LEMMA AbsNext == AbsWhenFree' /\ AbsWhenHeld'
BY AbsFree, AbsHeld, PTL
-----------------------------------------------------------------------------
(***************************************************************************)
(* The invariant.                                                          *)
(***************************************************************************)
LEMMA QuietBefore ==
  ASSUME IInv, [Next]_vars, Quiet'
  PROVE  /\ Quiet
         /\ \A p \in Proc : pc[p] \in {"out", "locking", "in"} /\ pc'[p] \in {"out", "locking", "in"}
         /\ Free \/ \E p \in Proc : Holds(p)
         /\ Free' \/ \E p \in Proc : Holds(p)'
<1>1. shared' = shared
  BY DEF Next, vars, StartLocal, StartShared, Set, CallUpdate, Enter, Fetch, Store, Leave, End
<1>2. MP!Undisturbed
  BY MutexStep, MP!UndisturbedBackwards, KernelLimits DEF IInv, Quiet
<1>3. MP!TypeOK' /\ MP!Binary'
  <2>1. MP!TypeOK /\ [MP!Next]_(MP!vars) => MP!TypeOK'
    BY MP!TypeNext, KernelLimits
  <2> QED BY <2>1, MutexStep, MP!BinaryInductive, KernelLimits DEF IInv
<1>4. \A p \in Proc : pc[p] \in {"out", "locking", "in"} /\ pc'[p] \in {"out", "locking", "in"}
  BY <1>2, <1>3 DEF IInv, Quiet, MP!TypeOK, MP!Where, MP!Binary, MP!Undisturbed
<1>5. MP!MutualExclusion /\ MP!MutualExclusion'
  BY <1>2, <1>3 DEF IInv, Quiet, MP!Binary
<1>6. Free \/ \E p \in Proc : Holds(p)
  BY <1>5 DEF MP!MutualExclusion, MP!Inside, Free, Holds, InSection
<1>7. Free' \/ \E p \in Proc : Holds(p)'
  BY <1>5 DEF MP!MutualExclusion, MP!Inside, Free, Holds, InSection
<1> QED BY <1>1, <1>2, <1>4, <1>6, <1>7 DEF Quiet

LEMMA LocatedNext ==
  ASSUME IInv, [Next]_vars
  PROVE  Located'
<1> SUFFICES ASSUME Next PROVE Located'
  BY DEF IInv, Located, vars, mutexVars, InSection, Writable
<1>0. pc \in [Proc -> MP!Where] /\ MapsTyped /\ Located
  BY DEF IInv, MP!TypeOK, Typed
<1> USE DEF InSection
<1>1. ASSUME NEW p \in Proc, StartLocal(p) PROVE Located'
  <2>1. mapmask' = [mapmask EXCEPT ![p] = {}]
    BY <1>1 DEF StartLocal, IInv, Clean
  <2> QED BY <1>0, <1>1, <2>1 DEF StartLocal, Mutex!CallLock, Located, MapsTyped, Writable
<1>2. ASSUME NEW p \in Proc, StartShared(p) PROVE Located'
  BY <1>0, <1>2 DEF StartShared, mutexVars, Located, MapsTyped, Writable
<1>3. ASSUME NEW p \in Proc, NEW pt \in Point, NEW val \in SetMaps, Set(p, pt, val) PROVE Located'
  <2>1. \A q \in Proc \ shared : todo'[q] = todo[q]
    BY <1>0, <1>3 DEF Set, MapsTyped
  <2> QED BY <1>0, <1>3, <2>1 DEF Set, mutexVars, Located, Writable
<1>4. ASSUME NEW p \in Proc, NEW items \in UpdateArgs, CallUpdate(p, items) PROVE Located'
  BY <1>0, <1>4 DEF CallUpdate, Idle, Mutex!CallLock, Located, MapsTyped, Writable
<1>5. ASSUME NEW p \in Proc, Enter(p) PROVE Located'
  BY <1>0, <1>5 DEF Enter, Mutex!Acquire, Mutex!TakeToken, Mutex!LockFails, Located, Writable
<1>6. ASSUME NEW p \in Proc, Fetch(p) PROVE Located'
  <2>1. p \notin shared => InSection(p)
    BY <1>6 DEF Fetch, Running
  <2>2. \A q \in Proc \ {p} : reg'[q] = reg[q]
    BY <1>0, <1>6 DEF Fetch, MapsTyped
  <2> QED BY <1>0, <1>6, <2>1, <2>2 DEF Fetch, mutexVars, Located, Writable
<1>7. ASSUME NEW p \in Proc, Store(p) PROVE Located'
  <2>1. p \notin shared => InSection(p)
    BY <1>7 DEF Store, Running
  <2>2. /\ \A q \in Proc \ {p} : reg'[q] = reg[q] /\ todo'[q] = todo[q]
        /\ reg'[p] = <<>> /\ UNCHANGED <<shared, mapmask, phase, pc>>
    BY <1>0, <1>7 DEF Store, MapsTyped, mutexVars
  <2> QED BY <1>0, <2>1, <2>2 DEF Located, Writable
<1>8. ASSUME NEW p \in Proc, Leave(p) PROVE Located'
  <2>1. reg[p] = <<>>
    BY <1>8 DEF Leave, IInv, Typed, TodoTyped
  <2> QED BY <1>0, <1>8, <2>1 DEF Leave, Mutex!Unlock, Located, MapsTyped, Writable
<1>9. ASSUME NEW p \in Proc, End(p) PROVE Located'
  BY <1>0, <1>9 DEF End, Mutex!Exit, Located, MapsTyped, Writable
<1> QED BY <1>1, <1>2, <1>3, <1>4, <1>5, <1>6, <1>7, <1>8, <1>9 DEF Next

LEMMA FetchedFreshNext ==
  ASSUME IInv, [Next]_vars
  PROVE  FetchedFresh'
<1> SUFFICES ASSUME Quiet', NEW p \in Proc, reg'[p] # <<>>,
                    NEW b \in WordBits(Head(todo'[p]).word)
             PROVE  reg'[p][b] = globmap'[b]
  BY DEF FetchedFresh, WordBits
<1>1. Quiet /\ MapsTyped /\ TodoTyped
  BY QuietBefore DEF IInv, Typed
<1>2. CASE reg' = reg /\ globmap' = globmap /\ todo'[p] = todo[p]
  BY <1>1, <1>2 DEF IInv, FetchedFresh
<1>3. ASSUME NEW q \in Proc, Fetch(q) PROVE reg'[p][b] = globmap'[b]
  <2>1. CASE p = q
    BY <1>1, <1>3, <2>1 DEF Fetch, MapsTyped
  <2>2. CASE p # q
    <3>1. reg'[p] = reg[p] /\ UNCHANGED <<globmap, todo>>
      BY <1>1, <1>3, <2>2 DEF Fetch, MapsTyped
    <3> QED BY <1>1, <3>1 DEF IInv, FetchedFresh
  <2> QED BY <2>1, <2>2
<1>4. ASSUME NEW q \in Proc, Store(q) PROVE reg'[p][b] = globmap'[b]
  <2>1. p # q /\ reg[p] # <<>>
    BY <1>1, <1>4 DEF Store, MapsTyped
  <2>2. InSection(p) /\ InSection(q)
    BY <1>1, <1>4, <2>1 DEF IInv, Located, Quiet, Store, Running
  <2>3. FALSE
    BY <1>1, <2>1, <2>2 DEF IInv, Quiet, MP!Binary, MP!MutualExclusion, MP!Inside, InSection
  <2> QED BY <2>3
<1>5. ASSUME NEW q \in Proc, End(q) PROVE FALSE
  <2>1. pc'[q] = "dead"
    BY <1>5 DEF IInv, MP!TypeOK, End, Mutex!Exit
  <2> QED BY <2>1 DEF Quiet, MP!Undisturbed
<1>6. ASSUME NEW q \in Proc, todo' = [todo EXCEPT ![q] = todo'[q]], todo[q] = <<>>,
             UNCHANGED <<globmap, reg>>
      PROVE  reg'[p][b] = globmap'[b]
  <2>1. q # p
    BY <1>1, <1>6 DEF TodoTyped
  <2> QED BY <1>1, <1>2, <1>6, <2>1 DEF MapsTyped
<1>7. ASSUME NEW q \in Proc, StartLocal(q) \/ \E items \in UpdateArgs : CallUpdate(q, items)
      PROVE  reg'[p][b] = globmap'[b]
  <2>1. todo[q] = <<>> /\ UNCHANGED <<globmap, reg>>
    BY <1>1, <1>7 DEF StartLocal, CallUpdate, Idle, TodoTyped
  <2>2. todo' = [todo EXCEPT ![q] = todo'[q]]
    BY <1>1, <1>7 DEF StartLocal, CallUpdate, MapsTyped
  <2> QED BY <1>6, <2>1, <2>2
<1>8. ASSUME NEW q \in Proc,
             \/ StartShared(q) \/ Enter(q) \/ Leave(q)
             \/ \E pt \in Point, val \in SetMaps : Set(q, pt, val)
      PROVE  reg'[p][b] = globmap'[b]
  BY <1>1, <1>2, <1>8 DEF StartShared, Enter, Leave, Set, Quiet
<1>9. CASE UNCHANGED vars
  BY <1>2, <1>9 DEF vars
<1> QED BY <1>3, <1>4, <1>5, <1>7, <1>8, <1>9 DEF Next
-----------------------------------------------------------------------------
(***************************************************************************)
(* The refinement: the step that gets the mutex is the whole update, or    *)
(* the start; every other step changes the views only by plc_set.          *)
(***************************************************************************)
LEMMA SpanOf ==
  ASSUME IInv
  PROVE  /\ \A p \in Proc : todo[p] \in UpdateArgs => TodoBits(p) \in Spans
         /\ \A p \in Proc : todo[p] = AllWords => TodoBits(p) = Bit
         /\ \A pt \in Point : pt.bits \in Spans
<1>1. \A p \in Proc : todo[p] \in UpdateArgs => TodoBits(p) \in Spans
  BY DEF TodoBits, Spans
<1>2. \A p \in Proc : todo[p] = AllWords => TodoBits(p) = Bit
  <2>1. UNION {AllWords[i].bits : i \in DOMAIN AllWords} = UNION {WordBits(w) : w \in 1..NWords}
    BY DEF AllWords
  <2>2. UNION {WordBits(w) : w \in 1..NWords} = Bit
    BY GlobalMapConstants DEF WordBits
  <2> QED BY <2>1, <2>2 DEF TodoBits
<1>3. ASSUME NEW pt \in Point PROVE pt.bits \in Spans
  <2> DEFINE items == [i \in 1..1 |-> pt]
  <2>1. items \in [1..1 -> Point] /\ 1 \in 0..MaxPts
    BY GlobalMapConstants DEF IInv, Clean
  <2>2. items \in UpdateArgs
    BY <2>1 DEF PointArrays, UpdateArgs
  <2>3. UNION {items[i].bits : i \in DOMAIN items} = pt.bits
    OBVIOUS
  <2> HIDE DEF items
  <2> QED BY <2>2, <2>3 DEF Spans
<1> QED BY <1>1, <1>2, <1>3

\* Steps outside the section that change neither maps nor what is held.
LEMMA OutsideKeeps ==
  ASSUME IInv, [Next]_vars, Quiet', UNCHANGED <<globmap, privmap>>,
         \A q \in Proc : InSection(q)' <=> InSection(q),
         \A q \in Proc : InSection(q) => todo'[q] = todo[q] /\ mapmask'[q] = mapmask[q],
         \A q \in Proc : phase'[q] = "up" <=> phase[q] = "up"
  PROVE  UNCHANGED Promise!vars
<1>1. /\ \A q \in Proc : pc[q] # "dead" /\ pc'[q] # "dead"
      /\ Free \/ \E p \in Proc : Holds(p)
  BY QuietBefore
<1>2. CASE Free
  <2>1. Free'
    BY <1>2 DEF Free
  <2>2. AbsUp' = AbsUp
    BY <1>1, <1>2, <2>1, AbsFree, AbsNext DEF AbsWhenFree
  <2>3. AbsMap' = AbsMap
    BY <1>2, <2>1, AbsFree, AbsNext DEF AbsWhenFree
  <2>4. AbsView' = AbsView
    BY <1>2, <2>1, <2>2, AbsFree, AbsNext DEF AbsWhenFree
  <2> QED BY <2>2, <2>3, <2>4 DEF Promise!vars
<1>3. ASSUME NEW p \in Proc, Holds(p) PROVE UNCHANGED Promise!vars
  <2>1. Holds(p)' /\ InSection(p)
    BY <1>3 DEF Holds
  <2>2. TodoBits(p)' = TodoBits(p) /\ mapmask'[p] = mapmask[p]
    BY <2>1 DEF TodoBits
  <2>3. AbsUp' = AbsUp
    BY <1>1 DEF AbsUp
  <2>4. AbsMap' = AbsMap
    BY <1>3, <2>1, <2>2, AbsHeld, AbsNext DEF AbsWhenHeld
  <2>5. AbsView' = AbsView
    BY <1>3, <2>1, <2>2, <2>3, AbsHeld, AbsNext DEF AbsWhenHeld
  <2> QED BY <2>3, <2>4, <2>5 DEF Promise!vars
<1> QED BY <1>1, <1>2, <1>3

\* plc_set: the step of AtomicMap with the bits of the point.
LEMMA SetRefines ==
  ASSUME IInv, Next, Quiet', NEW p \in Proc, NEW pt \in Point, NEW val \in SetMaps,
         Set(p, pt, val)
  PROVE  Promise!Set(p, pt.bits, val)
<1>1. /\ Quiet
      /\ \A q \in Proc : pc[q] # "dead" /\ pc'[q] # "dead"
      /\ Free \/ \E q \in Proc : Holds(q)
  BY QuietBefore
<1>2. /\ phase[p] = "up" /\ ~InSection(p) /\ mapmask[p] = Writable(p)
      /\ UNCHANGED <<globmap, mapmask, phase, pc, todo>>
  BY <1>1 DEF Set, Idle, InSection, IInv, Located, Quiet, mutexVars
<1>3. Promise!Writable(p) = Writable(p)
  BY DEF Promise!Writable, Writable
<1>4. privmap' = [privmap EXCEPT ![p] =
                   [b \in Bit |-> IF b \in pt.bits \cap mapmask[p] THEN val[b] ELSE privmap[p][b]]]
  BY DEF Set
<1>5. privmap \in [Proc -> [Bit -> Val]]
  BY DEF IInv, Typed, MapsTyped
<1>6. p \in AbsUp
  BY <1>1, <1>2 DEF AbsUp
<1>7. AbsUp' = AbsUp
  BY <1>2 DEF AbsUp, InSection
<1>8. CASE Free
  <2>1. Free'
    BY <1>2, <1>8 DEF Free, InSection
  <2>2. AbsMap' = AbsMap
    BY <1>2, <1>8, <2>1, AbsFree, AbsNext DEF AbsWhenFree
  <2>3. AbsView' = [AbsView EXCEPT ![p] =
                [b \in Bit |-> IF b \in pt.bits \cap Promise!Writable(p) THEN val[b] ELSE @[b]]]
    BY <1>2, <1>3, <1>4, <1>5, <1>6, <1>7, <1>8, <2>1, AbsFree, AbsNext DEF AbsWhenFree
  <2> QED BY <1>6, <1>7, <2>2, <2>3 DEF Promise!Set
<1>9. ASSUME NEW q \in Proc, Holds(q) PROVE Promise!Set(p, pt.bits, val)
  <2>1. Holds(q)' /\ q # p
    BY <1>2, <1>9 DEF Holds, InSection
  <2>2. TodoBits(q)' = TodoBits(q) /\ privmap'[q] = privmap[q]
    BY <1>2, <1>4, <1>5, <2>1 DEF TodoBits
  <2>3. AbsMap' = AbsMap
    BY <1>2, <1>9, <2>1, <2>2, AbsHeld, AbsNext DEF AbsWhenHeld
  <2>4. AbsView' = [AbsView EXCEPT ![p] =
                [b \in Bit |-> IF b \in pt.bits \cap Promise!Writable(p) THEN val[b] ELSE @[b]]]
    BY <1>2, <1>3, <1>4, <1>5, <1>6, <1>7, <1>9, <2>1, <2>2, AbsHeld, AbsNext DEF AbsWhenHeld
  <2> QED BY <1>6, <1>7, <2>3, <2>4 DEF Promise!Set
<1> QED BY <1>1, <1>8, <1>9
\* The word is written as the abstract map has it already: a store is a stutter.
LEMMA StoreStutters ==
  ASSUME IInv, Next, Quiet', NEW p \in Proc, Store(p)
  PROVE  UNCHANGED Promise!vars
<1>1. Quiet /\ (Free \/ \E q \in Proc : Holds(q))
  BY QuietBefore
<1>2. InSection(p) /\ reg[p] # <<>> /\ todo[p] # <<>>
  BY <1>1 DEF Store, Running, IInv, Located, Quiet
<1>3. Holds(p)
  BY <1>1, <1>2 DEF Free, Holds
<1>4. UNCHANGED <<pc, mapmask, phase>> /\ todo' = [todo EXCEPT ![p] = Tail(todo[p])]
  BY DEF Store, mutexVars
<1>5. Holds(p)'
  BY <1>3, <1>4 DEF Holds, InSection
<1> DEFINE pt == Head(todo[p])
<1>6. /\ Typed /\ todo[p] \in Seq(Item) /\ privmap \in [Proc -> [Bit -> Val]]
      /\ pt.bits \subseteq WordBits(pt.word) /\ WordBits(pt.word) \subseteq Bit
  BY <1>2, HeadTodo DEF IInv, Typed, TodoTyped, MapsTyped
<1>7. /\ globmap' = Merged(p)
      /\ privmap' = [privmap EXCEPT ![p] =
                       [b \in Bit |-> IF b \in pt.bits THEN Merged(p)[b] ELSE privmap[p][b]]]
  BY StoreMerges
<1>8. \A b \in WordBits(pt.word) : reg[p][b] = globmap[b]
  BY <1>1, <1>2 DEF IInv, FetchedFresh
\* The first of what is left, and the others.
<1>9. TodoBits(p) = pt.bits \cup TodoBits(p)'
  <2>1. /\ todo'[p] = Tail(todo[p]) /\ todo[p][1] = pt
        /\ Len(todo[p]) \in Nat \ {0} /\ DOMAIN todo[p] = 1..Len(todo[p])
        /\ DOMAIN Tail(todo[p]) = 1..Len(todo[p]) - 1
        /\ \A i \in 1..Len(todo[p]) - 1 : Tail(todo[p])[i] = todo[p][i + 1]
    <3>1. todo'[p] = Tail(todo[p])
      BY <1>4, <1>6 DEF Typed, MapsTyped
    <3>2. Len(todo[p]) \in Nat \ {0} /\ DOMAIN todo[p] = 1..Len(todo[p])
      BY <1>2, <1>6, EmptySeq, LenProperties
    <3>3. /\ Tail(todo[p]) \in Seq(Item) /\ Len(Tail(todo[p])) = Len(todo[p]) - 1
          /\ \A i \in 1..Len(Tail(todo[p])) : Tail(todo[p])[i] = todo[p][i + 1]
      BY <1>2, <1>6, HeadTailProperties
    <3>4. DOMAIN Tail(todo[p]) = 1..Len(Tail(todo[p]))
      BY <3>3, LenProperties
    <3>5. todo[p][1] = pt
      BY <1>2, <1>6
    <3> QED BY <3>1, <3>2, <3>3, <3>4, <3>5
  <2> DEFINE s == todo[p]  N == Len(todo[p])
  <2>2. TodoBits(p)' = UNION {s[i + 1].bits : i \in 1..N - 1}
    BY <2>1 DEF TodoBits
  <2>3. TodoBits(p) = UNION {s[i].bits : i \in 1..N}
    BY <2>1 DEF TodoBits
  <2>4. N \in Nat \ {0} /\ s[1] = pt
    BY <2>1
  <2> HIDE DEF s, N, pt
  <2>5. UNION {s[i].bits : i \in 1..N} \subseteq pt.bits \cup UNION {s[i + 1].bits : i \in 1..N - 1}
    <3> SUFFICES ASSUME NEW i \in 1..N, NEW b \in s[i].bits
                 PROVE  b \in pt.bits \/ \E j \in 1..N - 1 : b \in s[j + 1].bits
      OBVIOUS
    <3>1. CASE i = 1
      BY <2>4, <3>1
    <3>2. CASE i # 1
      <4>1. i - 1 \in 1..N - 1 /\ (i - 1) + 1 = i
        BY <2>4, <3>2
      <4> QED BY <4>1
    <3> QED BY <3>1, <3>2
  <2>6. pt.bits \cup UNION {s[i + 1].bits : i \in 1..N - 1} \subseteq UNION {s[i].bits : i \in 1..N}
    <3>1. 1 \in 1..N /\ \A i \in 1..N - 1 : i + 1 \in 1..N
      BY <2>4
    <3> QED BY <2>4, <3>1
  <2> QED BY <2>2, <2>3, <2>5, <2>6
<1>10. AbsUp' = AbsUp
  BY <1>4 DEF AbsUp, InSection
<1>11. \A b \in Bit :
         /\ b \in pt.bits \cap mapmask[p] => Merged(p)[b] = privmap[p][b]
         /\ b \notin pt.bits \cap mapmask[p] => Merged(p)[b] = globmap[b]
  BY <1>6, <1>8 DEF Merged, WordBits
<1>12. ASSUME NEW b \in Bit
       PROVE  /\ privmap'[p][b] = (IF b \in pt.bits THEN Merged(p)[b] ELSE privmap[p][b])
              /\ globmap'[b] = Merged(p)[b]
              /\ b \in TodoBits(p) <=> b \in pt.bits \/ b \in TodoBits(p)'
  BY <1>6, <1>7, <1>9
<1>13. ASSUME NEW b \in Bit
       PROVE  (IF b \in TodoBits(p)' \cap mapmask[p] THEN privmap'[p][b] ELSE globmap'[b])
              = (IF b \in TodoBits(p) \cap mapmask[p] THEN privmap[p][b] ELSE globmap[b])
  BY <1>11, <1>12
<1>14. AbsMap' = AbsMap
  BY <1>3, <1>4, <1>5, <1>13, AbsHeld, AbsNext DEF AbsWhenHeld
<1>15. ASSUME NEW b \in Bit
       PROVE  (IF b \in TodoBits(p)' \ mapmask[p] THEN globmap'[b] ELSE privmap'[p][b])
              = (IF b \in TodoBits(p) \ mapmask[p] THEN globmap[b] ELSE privmap[p][b])
  BY <1>11, <1>12
<1>16. \A q \in Proc \ {p} : privmap'[q] = privmap[q]
  BY <1>6, <1>7
<1>17. AbsView' = AbsView
  <2>1. ASSUME NEW q \in Proc
        PROVE  [b \in Bit |-> IF q \notin AbsUp THEN 0
                              ELSE IF q = p /\ b \in TodoBits(p)' \ mapmask[p] THEN globmap'[b]
                              ELSE privmap'[q][b]]
               = [b \in Bit |-> IF q \notin AbsUp THEN 0
                                ELSE IF q = p /\ b \in TodoBits(p) \ mapmask[p] THEN globmap[b]
                                ELSE privmap[q][b]]
    BY <1>15, <1>16
  <2> QED BY <1>3, <1>4, <1>5, <1>10, <2>1, AbsHeld, AbsNext DEF AbsWhenHeld
<1> QED BY <1>10, <1>14, <1>17 DEF Promise!vars

\* The mutex is released: nothing was left to exchange.
LEMMA LeaveStutters ==
  ASSUME IInv, Next, Quiet', NEW p \in Proc, Leave(p)
  PROVE  UNCHANGED Promise!vars
<1>1. Quiet /\ (Free \/ \E q \in Proc : Holds(q)) /\ pc[p] = "in" /\ todo[p] = <<>>
  BY QuietBefore DEF Leave, Mutex!Unlock
<1>2. Holds(p) /\ TodoBits(p) = {}
  BY <1>1 DEF Free, Holds, InSection, TodoBits
<1>3. pc' = [pc EXCEPT ![p] = "out"] /\ phase' = [phase EXCEPT ![p] = "up"]
      /\ UNCHANGED <<globmap, privmap>>
  BY DEF Leave, Mutex!Unlock
<1>4. pc \in [Proc -> MP!Where] /\ phase \in [Proc -> {"down", "starting", "up"}]
  BY DEF IInv, MP!TypeOK, Typed, MapsTyped
<1>5. Free'
  BY <1>2, <1>3, <1>4 DEF Free, Holds, InSection
<1>6. AbsUp' = AbsUp
  BY <1>1, <1>3, <1>4 DEF AbsUp, InSection
<1>7. AbsMap' = AbsMap
  BY <1>2, <1>3, <1>5, AbsHeld, AbsNext DEF AbsWhenHeld, AbsWhenFree
<1>8. AbsView' = AbsView
  BY <1>2, <1>3, <1>5, <1>6, AbsHeld, AbsNext DEF AbsWhenHeld, AbsWhenFree
<1> QED BY <1>6, <1>7, <1>8 DEF Promise!vars

\* The mutex is taken: the whole update of a module that is up, or a start.
LEMMA EnterRefines ==
  ASSUME IInv, Next, Quiet', NEW p \in Proc, Enter(p)
  PROVE  Promise!Step(p)
<1>1. /\ Quiet
      /\ Free' \/ \E q \in Proc : Holds(q)'
      /\ Free \/ \E q \in Proc : Holds(q)
  BY QuietBefore
<1>2. pc[p] = "locking" /\ pc' = [pc EXCEPT ![p] = "in"]
      /\ UNCHANGED <<globmap, privmap, mapmask, phase, todo>>
  BY QuietBefore DEF Enter, Mutex!Acquire, Mutex!TakeToken, Mutex!LockFails, IInv, MP!TypeOK
<1>3. pc \in [Proc -> MP!Where] /\ phase \in [Proc -> {"down", "starting", "up"}]
      /\ privmap \in [Proc -> [Bit -> Val]]
  BY DEF IInv, MP!TypeOK, Typed, MapsTyped
<1>4. InSection(p)' /\ ~InSection(p) /\ \A q \in Proc \ {p} : InSection(q)' <=> InSection(q)
  BY <1>2, <1>3 DEF InSection
<1>5. Holds(p)' /\ Free
  BY <1>1, <1>4 DEF Free, Holds
<1>6. TodoBits(p)' = TodoBits(p)
  BY <1>2 DEF TodoBits
<1>7. Promise!Writable(p) = Writable(p)
  BY DEF Promise!Writable, Writable
<1>8. p \notin shared
  BY <1>1 DEF Quiet
<1>9. CASE phase[p] = "up"
  <2>1. mapmask[p] = Writable(p) /\ TodoBits(p) \in Spans /\ p \in AbsUp
    BY <1>2, <1>8, <1>9, SpanOf DEF IInv, Located, AbsUp
  <2>2. AbsUp' = AbsUp
    BY <1>2, <1>3, <1>4, <1>9 DEF AbsUp
  <2>3. \A b \in Bit : AbsView[p][b] = privmap[p][b]
    BY <1>5, <2>1, AbsFree DEF AbsWhenFree
  <2>4. AbsMap' = [b \in Bit |-> IF b \in TodoBits(p) \cap Promise!Writable(p) THEN AbsView[p][b]
                                 ELSE AbsMap[b]]
    BY <1>2, <1>5, <1>6, <1>7, <2>1, <2>3, AbsFree, AbsNext DEF AbsWhenFree, AbsWhenHeld
  <2>5. AbsView' = [AbsView EXCEPT ![p] =
                      [b \in Bit |-> IF b \in TodoBits(p) THEN AbsMap'[b] ELSE @[b]]]
    <3>1. ASSUME NEW b \in Bit
          PROVE  (IF b \in TodoBits(p) \ mapmask[p] THEN globmap[b] ELSE privmap[p][b])
                 = (IF b \in TodoBits(p) THEN AbsMap'[b] ELSE AbsView[p][b])
      <4>1. /\ AbsMap'[b] = (IF b \in TodoBits(p) \cap mapmask[p] THEN AbsView[p][b] ELSE AbsMap[b])
            /\ AbsMap[b] = globmap[b] /\ AbsView[p][b] = privmap[p][b]
        BY <1>5, <1>7, <2>1, <2>3, <2>4, AbsFree DEF AbsWhenFree
      <4> QED BY <4>1
    <3>2. AbsView' = [q \in Proc |-> [b \in Bit |->
                        IF q \notin AbsUp THEN 0
                        ELSE IF q = p /\ b \in TodoBits(p) \ mapmask[p] THEN globmap[b]
                        ELSE privmap[q][b]]]
      BY <1>2, <1>5, <1>6, <2>2, AbsNext DEF AbsWhenHeld
    <3>3. AbsView = [q \in Proc |-> [b \in Bit |-> IF q \in AbsUp THEN privmap[q][b] ELSE 0]]
      BY <1>5, AbsFree DEF AbsWhenFree
    <3>4. \A q \in Proc \ {p} : AbsView'[q] = AbsView[q]
      BY <3>2, <3>3
    <3>5. AbsView'[p] = [b \in Bit |-> IF b \in TodoBits(p) THEN AbsMap'[b] ELSE AbsView[p][b]]
      BY <2>1, <3>1, <3>2
    <3>6. AbsView' = [q \in Proc |-> AbsView'[q]] /\ AbsView = [q \in Proc |-> AbsView[q]]
      BY <3>2, <3>3
    <3> QED BY <3>4, <3>5, <3>6
  <2> QED BY <2>1, <2>2, <2>4, <2>5 DEF Promise!Step, Promise!Update
<1>10. CASE phase[p] = "starting"
  <2>1. mapmask[p] = {} /\ TodoBits(p) = Bit /\ p \notin AbsUp
    BY <1>2, <1>4, <1>8, <1>10, SpanOf DEF IInv, Located, AbsUp
  <2>2. AbsUp' = AbsUp \cup {p}
    BY <1>2, <1>3, <1>4, <1>10 DEF AbsUp
  <2>3. AbsMap' = AbsMap
    BY <1>2, <1>5, <1>6, <2>1, AbsFree, AbsNext DEF AbsWhenFree, AbsWhenHeld
  <2>4. AbsView' = [AbsView EXCEPT ![p] = AbsMap]
    <3>1. AbsView' = [q \in Proc |-> [b \in Bit |->
                        IF q \notin AbsUp' THEN 0
                        ELSE IF q = p /\ b \in TodoBits(p) \ mapmask[p] THEN globmap[b]
                        ELSE privmap[q][b]]]
      BY <1>2, <1>5, <1>6, AbsNext DEF AbsWhenHeld
    <3>2. AbsView = [q \in Proc |-> [b \in Bit |-> IF q \in AbsUp THEN privmap[q][b] ELSE 0]]
      BY <1>5, AbsFree DEF AbsWhenFree
    <3>3. \A q \in Proc \ {p} : AbsView'[q] = AbsView[q]
      BY <2>2, <3>1, <3>2
    <3>4. AbsView'[p] = AbsMap
      BY <1>5, <2>1, <2>2, <3>1, AbsFree DEF AbsWhenFree
    <3>5. AbsView' = [q \in Proc |-> AbsView'[q]] /\ AbsView = [q \in Proc |-> AbsView[q]]
      BY <3>1, <3>2
    <3> QED BY <3>3, <3>4, <3>5
  <2> QED BY <2>1, <2>2, <2>3, <2>4 DEF Promise!Step, Promise!Start
<1>11. phase[p] # "down"
  BY <1>2, <1>8 DEF IInv, Located
<1> QED BY <1>3, <1>9, <1>10, <1>11
LEMMA StepRefines ==
  ASSUME IInv, [Next]_vars, Quiet'
  PROVE  Promise!Next \/ UNCHANGED Promise!vars
<1>0. Quiet /\ MapsTyped /\ pc \in [Proc -> MP!Where]
  BY QuietBefore DEF IInv, Typed, MP!TypeOK
<1>1. CASE UNCHANGED vars
  <2>1. UNCHANGED <<globmap, privmap, pc, phase, todo, mapmask>>
    BY <1>1 DEF vars, mutexVars
  <2> QED BY <2>1, OutsideKeeps DEF InSection
<1>2. ASSUME NEW p \in Proc, StartLocal(p) PROVE UNCHANGED Promise!vars
  <2>1. /\ pc[p] = "out" /\ phase[p] = "down"
        /\ pc' = [pc EXCEPT ![p] = "locking"] /\ phase' = [phase EXCEPT ![p] = "starting"]
        /\ \E m : mapmask' = [mapmask EXCEPT ![p] = m]
        /\ todo' = [todo EXCEPT ![p] = AllWords] /\ UNCHANGED <<globmap, privmap>>
    BY <1>2 DEF StartLocal, Mutex!CallLock
  <2>2. \A q \in Proc \ {p} : todo'[q] = todo[q] /\ mapmask'[q] = mapmask[q]
                               /\ phase'[q] = phase[q] /\ pc'[q] = pc[q]
    BY <1>0, <2>1 DEF MapsTyped
  <2>3. pc'[p] = "locking" /\ phase'[p] = "starting"
    BY <1>0, <2>1 DEF MapsTyped
  <2> QED BY <1>0, <2>1, <2>2, <2>3, OutsideKeeps DEF InSection
<1>3. ASSUME NEW p \in Proc, NEW items \in UpdateArgs, CallUpdate(p, items)
      PROVE  UNCHANGED Promise!vars
  <2>1. /\ pc[p] = "out" /\ pc' = [pc EXCEPT ![p] = "locking"]
        /\ todo' = [todo EXCEPT ![p] = items]
        /\ UNCHANGED <<globmap, privmap, mapmask, phase>>
    BY <1>3 DEF CallUpdate, Idle, Mutex!CallLock
  <2>2. \A q \in Proc \ {p} : todo'[q] = todo[q] /\ pc'[q] = pc[q]
    BY <1>0, <2>1 DEF MapsTyped
  <2>3. pc'[p] = "locking"
    BY <1>0, <2>1
  <2> QED BY <1>0, <2>1, <2>2, <2>3, OutsideKeeps DEF InSection
<1>4. ASSUME NEW p \in Proc, Fetch(p) PROVE UNCHANGED Promise!vars
  <2>1. UNCHANGED <<globmap, privmap, pc, phase, todo, mapmask>>
    BY <1>4 DEF Fetch, mutexVars
  <2> QED BY <2>1, OutsideKeeps DEF InSection
<1>5. ASSUME NEW p \in Proc, NEW pt \in Point, NEW val \in SetMaps, Set(p, pt, val), Next
      PROVE  Promise!Next
  <2>1. Promise!Set(p, pt.bits, val)
    BY <1>5, SetRefines
  <2>2. pt.bits \in Spans /\ val \in [Bit -> Promise!Val]
    BY SpanOf, GlobalMapConstants DEF Val, Promise!Val
  <2>3. Promise!Step(p)
    BY <2>1, <2>2 DEF Promise!Step
  <2> QED BY <2>3 DEF Promise!Next
<1>6. ASSUME NEW p \in Proc, Enter(p), Next PROVE Promise!Next
  BY <1>6, EnterRefines DEF Promise!Next
<1>7. ASSUME NEW p \in Proc, Store(p), Next PROVE UNCHANGED Promise!vars
  BY <1>7, StoreStutters
<1>8. ASSUME NEW p \in Proc, Leave(p), Next PROVE UNCHANGED Promise!vars
  BY <1>8, LeaveStutters
<1>9. ASSUME NEW p \in Proc, End(p) PROVE FALSE
  <2>1. pc'[p] = "dead"
    BY <1>0, <1>9 DEF End, Mutex!Exit
  <2> QED BY <2>1 DEF Quiet, MP!Undisturbed
<1>10. ASSUME NEW p \in Proc, StartShared(p) PROVE FALSE
  BY <1>0, <1>10 DEF StartShared, Quiet
<1> QED BY <1>1, <1>2, <1>3, <1>4, <1>5, <1>6, <1>7, <1>8, <1>9, <1>10 DEF Next

LEMMA InvInit == Init /\ Clean => IInv
<1> SUFFICES ASSUME Init, Clean PROVE IInv
  OBVIOUS
<1>1. MP!TypeOK
  BY KernelLimits DEF Init, MP!TypeOK, MP!Where
<1>2. MP!Binary
  BY DEF Init, MP!Binary, MP!Inside, MP!MutualExclusion
<1>3. Located
  BY DEF Init, Located
<1>4. FetchedFresh
  BY DEF Init, FetchedFresh
<1> QED BY <1>1, <1>2, <1>3, <1>4, TypedInit DEF IInv

LEMMA InvNext == IInv /\ [Next]_vars => IInv'
<1> SUFFICES ASSUME IInv, [Next]_vars PROVE IInv'
  OBVIOUS
<1>1. MP!TypeOK /\ [MP!Next]_(MP!vars) => MP!TypeOK'
  BY MP!TypeNext, KernelLimits
<1>2. MP!TypeOK' /\ MP!Binary'
  BY <1>1, MutexStep, MP!BinaryInductive, KernelLimits DEF IInv
<1>3. Typed'
  BY TypedNext DEF IInv
<1>4. Clean'
  BY DEF IInv, Clean
<1> QED BY <1>2, <1>3, <1>4, LocatedNext, FetchedFreshNext DEF IInv

(***************************************************************************)
(* Types of every reachable state, whichever modules are shared and        *)
(* whatever malloc hands out.                                              *)
(***************************************************************************)
THEOREM TypeCorrect == Spec => []TypeOK
<1>1. Init => MP!TypeOK /\ Typed
  BY TypedInit, KernelLimits DEF Init, MP!TypeOK, MP!Where
<1>2. MP!TypeOK /\ Typed /\ [Next]_vars => (MP!TypeOK /\ Typed)'
  <2>1. MP!TypeOK /\ [MP!Next]_(MP!vars) => MP!TypeOK'
    BY MP!TypeNext, KernelLimits
  <2> QED BY <2>1, MutexStep, TypedNext
<1>3. MP!TypeOK /\ Typed => TypeOK
  <2> SUFFICES ASSUME MP!TypeOK, Typed PROVE TypeOK
    OBVIOUS
  <2>1. Mutex!TypeOK
    BY DEF MP!TypeOK, Mutex!TypeOK, MP!Where, Mutex!Where
  <2>2. ASSUME NEW p \in Proc, NEW i \in DOMAIN todo[p]
        PROVE  todo[p][i].word \in 1..NWords /\ todo[p][i].bits \subseteq WordBits(todo[p][i].word)
    <3>1. todo[p][i] \in Item
      BY DEF Typed, TodoTyped
    <3> QED BY <3>1, Items
  <2> QED BY <2>1, <2>2 DEF Typed, MapsTyped, TypeOK
<1> QED BY <1>1, <1>2, <1>3, PTL DEF Spec

(***************************************************************************)
(* plc_update, plc_update_pt and plc_update_pts are atomic: with every     *)
(* module local, until one of them ends or the count of the mutex is spent *)
(* (Mutex!Undisturbed), every step is a step of AtomicMap or changes       *)
(* nothing of it.  malloc is taken to hand out a cleared mask, and         *)
(* plc_update_pts to have been called with one point at least.             *)
(***************************************************************************)
THEOREM UpdatesAreAtomic ==
  Spec /\ HeapMasks = {{}} /\ MaxPts > 0 => AtomicUndisturbed
<1>1. HeapMasks = {{}} /\ MaxPts > 0 <=> Clean
  BY DEF Clean
<1>2. IInv /\ [Next]_vars => [(shared = {} /\ Mutex!Undisturbed') => Promise!Next \/ UNCHANGED Promise!vars]_vars
  <2> SUFFICES ASSUME IInv, [Next]_vars, shared = {}, Mutex!Undisturbed', ~ UNCHANGED vars
               PROVE  Promise!Next \/ UNCHANGED Promise!vars
    OBVIOUS
  <2>1. shared' = shared
    BY DEF Next, vars, StartLocal, StartShared, Set, CallUpdate, Enter, Fetch, Store, Leave, End
  <2>2. MP!Undisturbed'
    BY DEF MP!Undisturbed, Mutex!Undisturbed
  <2> QED BY <2>1, <2>2, StepRefines DEF Quiet
<1> QED BY <1>1, <1>2, InvInit, InvNext, PTL DEF Spec, AtomicUndisturbed
=============================================================================
