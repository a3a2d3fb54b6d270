------------------------------ MODULE GlobalMap -----------------------------
(***************************************************************************)
(* The globalmap of src/lib/gmm (gmm.c, gmm_local.c, gmm_shared.c): a      *)
(* shared array of 32-bit words, of which every local-mode module keeps a  *)
(* private copy (privmap) and a mask of the bits it owns (mapmask).        *)
(* plc_update, plc_update_pt and plc_update_pts take the gmm mutex and     *)
(* rewrite the shared array one whole word at a time, each word fetched,   *)
(* merged and stored.  A shared-mode module has no copy and no mutex: its  *)
(* plc_set fetches, merges and stores the shared word itself.              *)
(*                                                                         *)
(* The mutex is the one of PlcMutex, defects included: every step here     *)
(* that locks, unlocks or dies is a step of that module.  A restarted      *)
(* module is another process with the same Role.                           *)
(***************************************************************************)
EXTENDS Integers, Sequences, FiniteSets

CONSTANTS
  Proc, Role,          \* processes, and [Proc -> module name]
  Locations,           \* the sets of processes that may be configured shared
  Bit,                 \* bits of the globalmap that belong to some point
  NWords, WordOf,      \* number of words, and [Bit -> 1..NWords]
  Owner,               \* [Bit -> module name that owns the bit's point]
  Point,               \* point handles, records [word, bits] with bits of the word
  MaxPts,              \* longest array given to plc_update_pts
  SetMaps,             \* the values plc_set is called with
  InitMaps,            \* the initial values of the points, from the config
  HeapMaps, HeapMasks, \* what malloc may hand out as privmap and as mapmask
  SEMAEM, SEMVMX       \* kernel limits, see PlcMutex

Val == {0, 1}
WordBits(w) == {b \in Bit : WordOf[b] = w}
Name == {Role[p] : p \in Proc}

ASSUME GlobalMapConstants ==
  /\ NWords \in Nat
  /\ WordOf \in [Bit -> 1..NWords]
  /\ Locations \subseteq SUBSET Proc
  /\ \A pt \in Point : pt.word \in 1..NWords /\ pt.bits \subseteq WordBits(pt.word)
  /\ MaxPts \in Nat
  /\ InitMaps \subseteq [Bit -> Val] /\ SetMaps \subseteq [Bit -> Val]
  /\ HeapMaps \subseteq [Bit -> Val] /\ HeapMasks \subseteq SUBSET Bit

ASSUME KernelLimits == SEMAEM \in Nat \ {0} /\ SEMVMX \in Nat \ {0}

VARIABLES
  stage, semval, semadj, pc,  \* the mutex
  shared,      \* the processes that run in shared mode, the others are local
  globmap,     \* [Bit -> Val]: the shared array
  privmap,     \* [Proc -> [Bit -> Val]]: gmm_privmap_
  mapmask,     \* [Proc -> SUBSET Bit]: gmm_mapmask_
  phase,       \* [Proc -> "down", "starting", "up"]: progress of gmm_init
  todo,        \* [Proc -> Seq(Point)]: words or points still to exchange
  reg          \* [Proc -> the fetched word as a function on its bits, or <<>>]

mutexVars == <<stage, semval, semadj, pc>>
vars == <<mutexVars, shared, globmap, privmap, mapmask, phase, todo, reg>>

Mutex == INSTANCE PlcMutex WITH Tryers <- {}

AllWordsAndNext == [w \in 1..NWords + 1 |->      \* mutant: i <= globalmap_len
                      [word |-> w, bits |-> WordBits(w)]]
AllWords == [w \in 1..NWords |-> [word |-> w, bits |-> WordBits(w)]]
Writable(p) == {b \in Bit : Owner[b] = Role[p]}

Init ==
  /\ stage = "ready" /\ semval = 1      \* gmm_setup has created the mutex
  /\ semadj = [p \in Proc |-> 0]
  /\ pc = [p \in Proc |-> "out"]
  /\ shared \in Locations
  /\ globmap \in InitMaps
  /\ privmap \in [Proc -> HeapMaps]
  /\ mapmask = [p \in Proc |-> {}]
  /\ phase = [p \in Proc |-> "down"]
  /\ todo = [p \in Proc |-> <<>>]
  /\ reg = [p \in Proc |-> <<>>]

-----------------------------------------------------------------------------
\* gmm_init_local: privmap and mapmask come from malloc as they are, and
\* plc_update() is called with them before gmm_init_mapmask().
StartLocal(p) ==
  /\ phase[p] = "down" /\ p \notin shared
  /\ phase' = [phase EXCEPT ![p] = "starting"]
  /\ \E m \in HeapMasks : mapmask' = [mapmask EXCEPT ![p] = m]
  /\ todo' = [todo EXCEPT ![p] = AllWords]
  /\ Mutex!CallLock(p)
  /\ UNCHANGED <<shared, globmap, privmap, reg>>

\* gmm_init_shared: only the mask is computed.
StartShared(p) ==
  /\ phase[p] = "down" /\ p \in shared /\ pc[p] = "out"
  /\ phase' = [phase EXCEPT ![p] = "up"]
  /\ mapmask' = [mapmask EXCEPT ![p] = Writable(p)]
  /\ UNCHANGED <<shared, mutexVars, globmap, privmap, todo, reg>>

Idle(p) == phase[p] = "up" /\ pc[p] = "out" /\ todo[p] = <<>>

\* plc_set, plc_seti: the private copy, and only the bits in the mask.
SetAnyBit(p, pt, val) ==                        \* mutant: the mask is ignored
  /\ Idle(p)
  /\ privmap' = [privmap EXCEPT ![p] =
                   [b \in Bit |-> IF b \in pt.bits THEN val[b] ELSE @[b]]]
  /\ todo' = IF p \in shared THEN [todo EXCEPT ![p] = <<pt>>] ELSE todo
  /\ UNCHANGED <<shared, mutexVars, globmap, mapmask, phase, reg>>

\* In shared mode privmap is globmap, so the merge is done by Fetch and Store.
Set(p, pt, val) ==
  /\ Idle(p)
  /\ privmap' = [privmap EXCEPT ![p] =
                   [b \in Bit |-> IF b \in pt.bits \cap mapmask[p] THEN val[b] ELSE @[b]]]
  /\ todo' = IF p \in shared THEN [todo EXCEPT ![p] = <<pt>>] ELSE todo
  /\ UNCHANGED <<shared, mutexVars, globmap, mapmask, phase, reg>>

\* plc_update, plc_update_pt and plc_update_pts; in shared mode they do nothing.
CallUpdate(p, items) ==
  /\ Idle(p) /\ p \notin shared
  /\ todo' = [todo EXCEPT ![p] = items]
  /\ Mutex!CallLock(p)
  /\ UNCHANGED <<shared, globmap, privmap, mapmask, phase, reg>>

Enter(p) ==
  /\ Mutex!Acquire(p) \/ Mutex!LockFails(p)
  /\ UNCHANGED <<shared, globmap, privmap, mapmask, phase, todo, reg>>

InSection(p) == pc[p] \in {"in", "barged"}
Running(p) == InSection(p) \/ (p \in shared /\ pc[p] = "out")

FetchUnlocked(p) ==                             \* mutant: plc_update takes no lock
  /\ pc[p] \in {"locking", "in", "barged"}
  /\ todo[p] # <<>> /\ reg[p] = <<>>
  /\ reg' = [reg EXCEPT ![p] = [b \in WordBits(Head(todo[p]).word) |-> globmap[b]]]
  /\ pc' = [pc EXCEPT ![p] = "in"]
  /\ UNCHANGED <<shared, stage, semval, semadj, globmap, privmap, mapmask, phase, todo>>

Fetch(p) ==
  /\ Running(p)
  /\ todo[p] # <<>> /\ reg[p] = <<>>
  /\ reg' = [reg EXCEPT ![p] = [b \in WordBits(Head(todo[p]).word) |-> globmap[b]]]
  /\ UNCHANGED <<shared, mutexVars, globmap, privmap, mapmask, phase, todo>>

\* One word: the owned bits of the point go out, its other bits come in, and
\* the bits outside the point are written back as they were fetched.
Store(p) ==
  LET pt == Head(todo[p])
      merged == [b \in Bit |-> IF WordOf[b] # pt.word THEN globmap[b]
                               ELSE IF b \in pt.bits \cap mapmask[p] THEN privmap[p][b]
                               ELSE reg[p][b]]
  IN  /\ Running(p)
      /\ todo[p] # <<>> /\ reg[p] # <<>>
      /\ globmap' = merged
      /\ privmap' = [privmap EXCEPT ![p] =
                       [b \in Bit |-> IF b \in pt.bits THEN merged[b] ELSE @[b]]]
      /\ todo' = [todo EXCEPT ![p] = Tail(@)]
      /\ reg' = [reg EXCEPT ![p] = <<>>]
      /\ UNCHANGED <<shared, mutexVars, mapmask, phase>>

\* The mutex is released; after the first update gmm_init_mapmask sets the mask.
Leave(p) ==
  /\ todo[p] = <<>>
  /\ Mutex!Unlock(p)
  /\ phase' = [phase EXCEPT ![p] = "up"]
  /\ mapmask' = [mapmask EXCEPT ![p] = Writable(p)]
  /\ UNCHANGED <<shared, globmap, privmap, todo, reg>>

\* The process ends, its own memory with it: gmm_done, a fatal signal, or
\* exit(1) on a bad handle, in plc_update_pts with the mutex held.
End(p) ==
  /\ phase[p] # "down"
  /\ Mutex!Exit(p)
  /\ privmap' = [privmap EXCEPT ![p] = [b \in Bit |-> 0]]
  /\ mapmask' = [mapmask EXCEPT ![p] = {}]
  /\ todo' = [todo EXCEPT ![p] = <<>>]
  /\ reg' = [reg EXCEPT ![p] = <<>>]
  /\ UNCHANGED <<shared, globmap, phase>>

PointArrays == UNION {[1..n -> Point] : n \in 0..MaxPts}
UpdateArgs == {AllWords} \cup PointArrays

Next ==
  \E p \in Proc :
    \/ StartLocal(p) \/ StartShared(p)
    \/ \E pt \in Point, val \in SetMaps : Set(p, pt, val)
    \/ \E items \in UpdateArgs : CallUpdate(p, items)
    \/ Enter(p) \/ Fetch(p) \/ Store(p) \/ Leave(p) \/ End(p)

Spec == Init /\ [][Next]_vars

-----------------------------------------------------------------------------
TypeOK ==
  /\ Mutex!TypeOK
  /\ shared \in Locations
  /\ globmap \in [Bit -> Val]
  /\ privmap \in [Proc -> [Bit -> Val]]
  /\ mapmask \in [Proc -> SUBSET Bit]
  /\ phase \in [Proc -> {"down", "starting", "up"}]
  /\ \A p \in Proc : \A i \in DOMAIN todo[p] :
       todo[p][i].word \in 1..NWords /\ todo[p][i].bits \subseteq WordBits(todo[p][i].word)

-----------------------------------------------------------------------------
(* The abstract map.  An update takes effect, as a whole, when the process   *)
(* gets the mutex: whatever it still has to exchange is counted as done.     *)

Pending(p) == IF InSection(p) THEN UNION {todo[p][i].bits : i \in DOMAIN todo[p]} ELSE {}
AbsUp == {p \in Proc : pc[p] # "dead" /\ (phase[p] = "up" \/ InSection(p))}
AbsMap == [b \in Bit |->
             IF \E p \in Proc : b \in Pending(p) \cap mapmask[p]
             THEN privmap[CHOOSE p \in Proc : b \in Pending(p) \cap mapmask[p]][b]
             ELSE globmap[b]]
AbsView == [p \in Proc |-> [b \in Bit |->
             IF p \notin AbsUp THEN 0
             ELSE IF b \in Pending(p) \ mapmask[p] THEN globmap[b]
             ELSE privmap[p][b]]]
Spans == {UNION {items[i].bits : i \in DOMAIN items} : items \in UpdateArgs}

Promise == INSTANCE AtomicMap WITH
             map <- AbsMap, view <- AbsView, up <- AbsUp, Span <- Spans

\* What the code delivers: until a process ends or runs out of semaphore
\* adjustment, no module sees or leaves half of an update, writes a bit it does
\* not own, loses a bit it published, or changes the map by starting.  (All
\* modules local, and the first update made with a clean mask.)
AtomicUndisturbed ==
  [][(shared = {} /\ Mutex!Undisturbed') => Promise!Next \/ UNCHANGED Promise!vars]_vars

\* gmm_local.c:153: starting a module must not overwrite its own points.
StartReadsOnly ==
  [][\A p \in Proc : phase[p] = "starting" /\ Store(p) => globmap' = globmap]_vars

\* gmm.html on plc_set, in shared mode: the value set is the point's value, as
\* long as the module does not set it again.
SharedSetSticks ==
  [][\A p \in shared, b \in Bit :
       (Idle(p) /\ b \in Writable(p) /\ globmap[b] # globmap'[b]) => Store(p)]_vars
=============================================================================
