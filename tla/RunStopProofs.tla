---------------------------- MODULE RunStopProofs -----------------------------
(***************************************************************************)
(* Proofs about RunStop, for any number of processes, names, slots, places *)
(* and calls: the type invariant and the bound on the tokens of a place,   *)
(* which need each other; that RUN/STOP places are never shared; that the  *)
(* modes last set are obeyed, and that a call acts on what it names only.  *)
(***************************************************************************)
EXTENDS RunStop, FiniteSetTheorems, WellFoundedInduction, TLAPS

\* A non-empty set of naturals has a least element: what the loops over the
\* places and over the cmm list find is in the set they search.
LEMMA LeastExists ==
  ASSUME NEW S \in SUBSET Nat, S # {}
  PROVE  \E i \in S : \A j \in S : i <= j
<1>1. \E i \in S : \A j \in S : <<j, i>> \notin OpToRel(<, Nat)
  BY NatLessThanWellFounded, WFMin
<1>2. PICK i \in S : \A j \in S : <<j, i>> \notin OpToRel(<, Nat)
  BY <1>1
<1>3. ASSUME NEW j \in S PROVE i <= j
  <2>1. <<j, i>> \in Nat \X Nat
    OBVIOUS
  <2>2. ~(j < i)
    BY <1>2, <2>1 DEF OpToRel
  <2>3. QED
    BY <2>2
<1>4. QED
  BY <1>3

LEMMA FindInType == ASSUME NEW S \in SUBSET Slot PROVE FindIn(S) \in Slot \cup {NoSlot}
<1>1. CASE S = {}
  BY <1>1 DEF FindIn
<1>2. CASE S # {}
  <2>1. S \in SUBSET Nat
    BY ConstantsAssumption
  <2>2. \E i \in S : \A j \in S : i <= j
    BY <1>2, <2>1, LeastExists
  <2>3. FindIn(S) \in S
    BY <1>2, <2>2 DEF FindIn
  <2>4. QED
    BY <2>3
<1>3. QED
  BY <1>1, <1>2

\* cmm_block_find returns a block or none.
LEMMA FindType == \A n : Find(n) \in Slot \cup {NoSlot}
<1>1. ASSUME NEW n PROVE Named(n) \in SUBSET Slot
  BY DEF Named
<1>2. QED
  BY <1>1, FindInType DEF Find

\* plc_synchplace_add finds one of the free places.
LEMMA LeastFree ==
  ASSUME TypeOK, FreePlaces # {}
  PROVE  (CHOOSE i \in FreePlaces : \A j \in FreePlaces : i <= j) \in FreePlaces
<1>1. FreePlaces \in SUBSET Nat
  BY ConstantsAssumption DEF FreePlaces, Place, TypeOK
<1>2. \E i \in FreePlaces : \A j \in FreePlaces : i <= j
  BY <1>1, LeastExists
<1>3. QED
  BY <1>2
-----------------------------------------------------------------------------
(***************************************************************************)
(* Tokens.  Every token of a place, and every process that has found it    *)
(* empty and is about to add one, is paid for by a process that started:   *)
(* the process that finds the place empty brings the number of those about *)
(* to add to no more than the number of processes.                         *)
(***************************************************************************)
Started == {p \in Proc : pc[p] # "off"}
Adding(i) == {p \in Proc : \/ pc[p] = "post" /\ call[p].place = i
                           \/ pc[p] = "activate" /\ mod[p].place = i}
TokensAccounted == \A i \in Place : tokens[i] + Cardinality(Adding(i)) <= Cardinality(Started)
Callers ==
  \A p \in Proc : /\ pc[p] = "look" => call[p].shm \in Slot
                  /\ pc[p] \in {"look", "test", "post", "take"} => call[p].op \in {"run", "stop"}
Typed == TypeOK /\ Callers /\ TokensAccounted

\* The types of the records, and the rest of TypeOK without the bound on the tokens.
Block == [used : BOOLEAN, name : Name \cup {NoName}, pid : Proc \cup {NoPid}, place : Place]
Module == [name : Name \cup {NoName}, shm : Slot \cup {NoSlot}, place : Place]
CallType == [op : {"none", "run", "stop", "shutdown"}, name : Name \cup {PLC, NoName},
             shm : Slot \cup {NoSlot}, place : Place]
Hist == [serial : BOOLEAN, died : BOOLEAN, freed : BOOLEAN]
Modes == [Name \cup {PLC} -> {"none", "run", "stop"}]
Shape ==
  /\ place_count \in PlaceCounts /\ in_use \subseteq Place
  /\ tokens \in [Place -> Nat]
  /\ block \in [Slot -> Block]
  /\ pc \in [Proc -> {"off", "gone"} \cup InInit \cup InDone \cup Up]
  /\ mod \in [Proc -> Module] /\ call \in [Proc -> CallType]
  /\ calls \in 0 .. MaxCalls /\ hist \in Hist /\ last \in Modes

LEMMA SharedIsPlace == ASSUME place_count \in PlaceCounts PROVE Shared \in Place
  BY ConstantsAssumption DEF Place, Shared

LEMMA NoModesType == NoModes \in Modes
  BY DEF NoModes, Modes

\* What Note and NoteMode leave in last.
LEMMA NoteType ==
  ASSUME NEW modes \in Modes, Note(modes)
  PROVE  last' \in Modes
  BY NoModesType DEF Note


\* A write into the block keeps the types of the others: cmm_block_free, and the
\* two fields state_init stores.
LEMMA FreedType == ASSUME block \in [Slot -> Block], NEW s PROVE Freed(s) \in [Slot -> Block]
<1>1. ASSUME NEW t \in Slot PROVE [block[t] EXCEPT !.used = FALSE, !.name = NoName] \in Block
  BY DEF Block
<1>2. QED
  BY <1>1 DEF Freed

LEMMA PidType == ASSUME block \in [Slot -> Block], NEW s, NEW v \in Proc
                 PROVE  [block EXCEPT ![s].pid = v] \in [Slot -> Block]
<1>1. ASSUME NEW t \in Slot PROVE [block[t] EXCEPT !.pid = v] \in Block
  BY DEF Block
<1>2. QED
  BY <1>1

LEMMA PlaceType == ASSUME block \in [Slot -> Block], NEW s, NEW v \in Place
                   PROVE  [block EXCEPT ![s].place = v] \in [Slot -> Block]
<1>1. ASSUME NEW t \in Slot PROVE [block[t] EXCEPT !.place = v] \in Block
  BY DEF Block
<1>2. QED
  BY <1>1

\* Every step keeps the shape of the variables.
LEMMA ShapeStep == ASSUME Typed, [Next]_vars PROVE Shape' /\ Callers'
<1> DEFINE Goal == Shape' /\ Callers'
<1>0. Shared \in Place /\ Shape /\ Callers
  BY SharedIsPlace DEF Typed, TypeOK, Shape, Block, Module, CallType, Hist, Modes
<1> USE ConstantsAssumption, <1>0 DEF Shape, OtherUnchanged
<1>1. ASSUME NEW p \in Proc, NEW n \in Name, Start(p, n) PROVE Goal
  <2>1. pc' \in [Proc -> {"off", "gone"} \cup InInit \cup InDone \cup Up]
    BY <1>1 DEF Start, Go, End, InInit, InDone, InCall, Up
  <2>2. mod' \in [Proc -> Module]
    BY <1>1, FindType DEF Start, End, NoModule, Module
  <2>3. hist' \in Hist
    BY <1>1 DEF Start, Hist
  <2>4. last' \in Modes
    BY <1>1, NoteType DEF Start, Modes
  <2>5. Callers'
    BY <1>1, <2>1 DEF Start, Callers, Return, Go, End, InInit, InDone, InCall, Up, NoCall
  <2>6. QED
    BY <1>1, <2>1, <2>2, <2>3, <2>4, <2>5 DEF Start, Place, Block, Module, CallType
<1>2. ASSUME NEW p \in Proc, \E force_init \in BOOLEAN : Check(p, force_init) PROVE Goal
  <2>1. pc' \in [Proc -> {"off", "gone"} \cup InInit \cup InDone \cup Up]
    BY <1>2 DEF Check, Go, End, InInit, InDone, InCall, Up
  <2>2. mod' \in [Proc -> Module]
    BY <1>2 DEF Check, End, NoModule, Module
  <2>3. Callers'
    BY <1>2, <2>1 DEF Check, Callers, Return, Go, End, InInit, InDone, InCall, Up, NoCall
  <2>4. QED
    BY <1>2, <2>1, <2>2, <2>3 DEF Check, Place, Block, Module, CallType
<1>3. ASSUME NEW p \in Proc, ForceInit(p) PROVE Goal
  <2>1. pc' \in [Proc -> {"off", "gone"} \cup InInit \cup InDone \cup Up]
    BY <1>3 DEF ForceInit, Go, End, InInit, InDone, InCall, Up
  <2>2. mod' \in [Proc -> Module]
    BY <1>3 DEF ForceInit, End, NoModule, Module
  <2>3. block' \in [Slot -> Block]
    BY <1>3, FreedType DEF ForceInit
  <2>4. hist' \in Hist
    BY <1>3 DEF ForceInit, Hist
  <2>5. last' \in Modes
    BY <1>3, NoteType DEF ForceInit, Modes
  <2>6. Callers'
    BY <1>3, <2>1 DEF ForceInit, Callers, Return, Go, End, InInit, InDone, InCall, Up, NoCall
  <2>7. QED
    BY <1>3, <2>1, <2>2, <2>3, <2>4, <2>5, <2>6 DEF ForceInit, Place, Block, Module, CallType
<1>4. ASSUME NEW p \in Proc, Alloc(p) PROVE Goal
  <2>1. pc' \in [Proc -> {"off", "gone"} \cup InInit \cup InDone \cup Up]
    BY <1>4 DEF Alloc, Go, End, InInit, InDone, InCall, Up
  <2>2. mod' \in [Proc -> Module]
    BY <1>4 DEF Alloc, End, NoModule, Module
  <2>3. block' \in [Slot -> Block]
    <3>1. mod[p].name \in Name \cup {NoName}
      BY DEF Module
    <3>2. ASSUME NEW t \in Slot,
                 block' = [block EXCEPT ![t] = [used |-> TRUE, name |-> mod[p].name,
                                                pid |-> NoPid, place |-> Shared]]
          PROVE  block' \in [Slot -> Block]
      BY <3>1, <3>2 DEF Block
    <3>3. QED
      BY <1>4, <3>2 DEF Alloc
  <2>4. Callers'
    BY <1>4, <2>1 DEF Alloc, Callers, Return, Go, End, InInit, InDone, InCall, Up, NoCall
  <2>5. QED
    BY <1>4, <2>1, <2>2, <2>3, <2>4 DEF Alloc, Place, Block, Module, CallType
<1>5. ASSUME NEW p \in Proc, SetPidAddPlace(p) PROVE Goal
  <2>1. pc' \in [Proc -> {"off", "gone"} \cup InInit \cup InDone \cup Up]
    BY <1>5 DEF SetPidAddPlace, Go, End, InInit, InDone, InCall, Up
  <2>2. mod' \in [Proc -> Module]
    <3> DEFINE i == CHOOSE i \in FreePlaces : \A j \in FreePlaces : i <= j
    <3>1. CASE FreePlaces = {}
      BY <1>5, <3>1 DEF SetPidAddPlace
    <3>2. CASE FreePlaces # {}
      <4>1. i \in Place
        BY <3>2, LeastFree DEF Typed, FreePlaces
      <4>2. mod' = [mod EXCEPT ![p].place = i]
        BY <1>5, <3>2 DEF SetPidAddPlace
      <4>3. QED
        BY <4>1, <4>2 DEF Module
    <3>3. QED
      BY <3>1, <3>2
  <2>3. block' \in [Slot -> Block]
    BY <1>5, PidType DEF SetPidAddPlace
  <2>4. in_use' \subseteq Place
    BY <1>5, LeastFree DEF SetPidAddPlace, Typed, FreePlaces
  <2>5. Callers'
    BY <1>5, <2>1 DEF SetPidAddPlace, Callers, Return, Go, End, InInit, InDone, InCall, Up, NoCall
  <2>6. QED
    BY <1>5, <2>1, <2>2, <2>3, <2>4, <2>5 DEF SetPidAddPlace, Place, Block, Module, CallType
<1>6. ASSUME NEW p \in Proc, Undo(p) PROVE Goal
  <2>1. pc' \in [Proc -> {"off", "gone"} \cup InInit \cup InDone \cup Up]
    BY <1>6 DEF Undo, Go, End, InInit, InDone, InCall, Up
  <2>2. mod' \in [Proc -> Module]
    BY <1>6 DEF Undo, End, NoModule, Module
  <2>3. block' \in [Slot -> Block]
    BY <1>6, FreedType DEF Undo
  <2>4. Callers'
    BY <1>6, <2>1 DEF Undo, Callers, Return, Go, End, InInit, InDone, InCall, Up, NoCall
  <2>5. QED
    BY <1>6, <2>1, <2>2, <2>3, <2>4 DEF Undo, Place, Block, Module, CallType
<1>7. ASSUME NEW p \in Proc, Store(p) PROVE Goal
  <2>1. pc' \in [Proc -> {"off", "gone"} \cup InInit \cup InDone \cup Up]
    BY <1>7 DEF Store, Go, End, InInit, InDone, InCall, Up
  <2>2. block' \in [Slot -> Block]
    <3>1. mod[p].place \in Place
      BY DEF Module
    <3>2. QED
      BY <1>7, <3>1, PlaceType DEF Store
  <2>3. Callers'
    BY <1>7, <2>1 DEF Store, Callers, Return, Go, End, InInit, InDone, InCall, Up, NoCall
  <2>4. QED
    BY <1>7, <2>1, <2>2, <2>3 DEF Store, Place, Block, Module, CallType
<1>8. ASSUME NEW p \in Proc, Mode(p) PROVE Goal
  <2>1. pc' \in [Proc -> {"off", "gone"} \cup InInit \cup InDone \cup Up]
    BY <1>8 DEF Mode, Go, End, InInit, InDone, InCall, Up
  <2>2. last' \in Modes
    BY <1>8, NoModesType DEF Mode, ModeAfterInit, Modes
  <2>3. Callers'
    BY <1>8, <2>1 DEF Mode, Callers, Return, Go, End, InInit, InDone, InCall, Up, NoCall
  <2>4. QED
    BY <1>8, <2>1, <2>2, <2>3 DEF Mode, Place, Block, Module, CallType
<1>9. ASSUME NEW p \in Proc, Activate(p) PROVE Goal
  <2>1. pc' \in [Proc -> {"off", "gone"} \cup InInit \cup InDone \cup Up]
    BY <1>9 DEF Activate, Go, End, InInit, InDone, InCall, Up
  <2>2. tokens' \in [Place -> Nat]
    BY <1>9 DEF Activate, Module
  <2>3. last' \in Modes
    BY <1>9, NoModesType DEF Activate, ModeAfterInit, Modes
  <2>4. Callers'
    BY <1>9, <2>1 DEF Activate, Callers, Return, Go, End, InInit, InDone, InCall, Up, NoCall
  <2>5. QED
    BY <1>9, <2>1, <2>2, <2>3, <2>4 DEF Activate, Place, Block, Module, CallType
<1>10. ASSUME NEW p \in Proc, Done(p) PROVE Goal
  <2>1. pc' \in [Proc -> {"off", "gone"} \cup InInit \cup InDone \cup Up]
    BY <1>10 DEF Done, Go, End, InInit, InDone, InCall, Up
  <2>2. hist' \in Hist
    BY <1>10 DEF Done, Hist
  <2>3. last' \in Modes
    BY <1>10, NoteType DEF Done, Modes
  <2>4. Callers'
    BY <1>10, <2>1 DEF Done, Callers, Return, Go, End, InInit, InDone, InCall, Up, NoCall
  <2>5. QED
    BY <1>10, <2>1, <2>2, <2>3, <2>4 DEF Done, Place, Block, Module, CallType
<1>11. ASSUME NEW p \in Proc, DelPlace(p) PROVE Goal
  <2>1. pc' \in [Proc -> {"off", "gone"} \cup InInit \cup InDone \cup Up]
    BY <1>11 DEF DelPlace, Go, End, InInit, InDone, InCall, Up
  <2>2. in_use' \subseteq Place
    BY <1>11 DEF DelPlace
  <2>3. Callers'
    BY <1>11, <2>1 DEF DelPlace, Callers, Return, Go, End, InInit, InDone, InCall, Up, NoCall
  <2>4. QED
    BY <1>11, <2>1, <2>2, <2>3 DEF DelPlace, Place, Block, Module, CallType
<1>12. ASSUME NEW p \in Proc, DelBlock(p) PROVE Goal
  <2>1. pc' \in [Proc -> {"off", "gone"} \cup InInit \cup InDone \cup Up]
    BY <1>12 DEF DelBlock, Go, End, InInit, InDone, InCall, Up
  <2>2. mod' \in [Proc -> Module]
    BY <1>12 DEF DelBlock, End, NoModule, Module
  <2>3. block' \in [Slot -> Block]
    BY <1>12, FreedType DEF DelBlock
  <2>4. Callers'
    BY <1>12, <2>1 DEF DelBlock, Callers, Return, Go, End, InInit, InDone, InCall, Up, NoCall
  <2>5. QED
    BY <1>12, <2>1, <2>2, <2>3, <2>4 DEF DelBlock, Place, Block, Module, CallType
<1>13. ASSUME NEW p \in Proc, Crash(p) PROVE Goal
  <2>1. pc' \in [Proc -> {"off", "gone"} \cup InInit \cup InDone \cup Up]
    BY <1>13 DEF Crash, Go, End, InInit, InDone, InCall, Up
  <2>2. mod' \in [Proc -> Module]
    BY <1>13 DEF Crash, End, NoModule, Module
  <2>3. call' \in [Proc -> CallType]
    BY <1>13 DEF Crash, NoCall, CallType, Return
  <2>4. hist' \in Hist
    BY <1>13 DEF Crash, Hist
  <2>5. last' \in Modes
    BY <1>13, NoteType DEF Crash, Modes
  <2>6. Callers'
    BY <1>13, <2>1 DEF Crash, Callers, Return, Go, End, InInit, InDone, InCall, Up, NoCall
  <2>7. QED
    BY <1>13, <2>1, <2>2, <2>3, <2>4, <2>5, <2>6 DEF Crash, Place, Block, Module, CallType
<1>14. ASSUME NEW p \in Proc, NEW op \in {"run", "stop"}, Call(p, op, PLC) PROVE Goal
  <2>1. pc' \in [Proc -> {"off", "gone"} \cup InInit \cup InDone \cup Up]
    BY <1>14 DEF Call, Go, End, InInit, InDone, InCall, Up
  <2>2. call' \in [Proc -> CallType]
    BY <1>14, FindType DEF Call, NoCall, CallType, Return
  <2>3. calls' \in 0 .. MaxCalls
    BY <1>14 DEF Call
  <2>4. hist' \in Hist
    BY <1>14 DEF Call, Hist
  <2>5. last' \in Modes
    BY <1>14, NoteType DEF Call, Against, Modes
  <2>6. Callers'
    BY <1>14, FindType, <2>1 DEF Call, Callers, Return, Go, End, InInit, InDone, InCall, Up, NoCall
  <2>7. QED
    BY <1>14, <2>1, <2>2, <2>3, <2>4, <2>5, <2>6 DEF Call, Place, Block, Module, CallType
<1>15. ASSUME NEW p \in Proc, NEW op \in {"run", "stop", "shutdown"}, NEW n \in Name, Call(p, op, n) PROVE Goal
  <2>1. pc' \in [Proc -> {"off", "gone"} \cup InInit \cup InDone \cup Up]
    BY <1>15 DEF Call, Go, End, InInit, InDone, InCall, Up
  <2>2. call' \in [Proc -> CallType]
    BY <1>15, FindType DEF Call, NoCall, CallType, Return
  <2>3. calls' \in 0 .. MaxCalls
    BY <1>15 DEF Call
  <2>4. hist' \in Hist
    BY <1>15 DEF Call, Hist
  <2>5. last' \in Modes
    BY <1>15, NoteType DEF Call, Against, Modes
  <2>6. Callers'
    BY <1>15, FindType, <2>1 DEF Call, Callers, Return, Go, End, InInit, InDone, InCall, Up, NoCall
  <2>7. QED
    BY <1>15, <2>1, <2>2, <2>3, <2>4, <2>5, <2>6 DEF Call, Place, Block, Module, CallType
<1>16. ASSUME NEW p \in Proc, Look(p) PROVE Goal
  <2>1. pc' \in [Proc -> {"off", "gone"} \cup InInit \cup InDone \cup Up]
    BY <1>16 DEF Look, Go, End, InInit, InDone, InCall, Up
  <2>2. call' \in [Proc -> CallType]
    <3>1. block[call[p].shm].place \in Place
      BY <1>16 DEF Look, Callers, Block
    <3>2. call' = [call EXCEPT ![p].place = block[call[p].shm].place, ![p].shm = NoSlot]
      BY <1>16 DEF Look
    <3>3. QED
      BY <3>1, <3>2 DEF CallType
  <2>3. Callers'
    BY <1>16, <2>1 DEF Look, Callers, Return, Go, End, InInit, InDone, InCall, Up, NoCall
  <2>4. UNCHANGED <<place_count, in_use, tokens, block, mod, calls, hist, last>>
    BY <1>16 DEF Look
  <2>5. QED
    BY <2>1, <2>2, <2>3, <2>4 DEF Place, Block, Module, CallType
<1>17. ASSUME NEW p \in Proc, Test(p) PROVE Goal
  <2>1. pc' \in [Proc -> {"off", "gone"} \cup InInit \cup InDone \cup Up]
    BY <1>17 DEF Test, Return, Go, End, InInit, InDone, InCall, Up
  <2>2. call' \in [Proc -> CallType]
    BY <1>17 DEF Test, NoCall, CallType, Return
  <2>3. last' \in Modes
    BY <1>17, NoModesType DEF Test, NoteMode, Callers, Modes
  <2>4. Callers'
    BY <1>17, <2>1 DEF Test, Callers, Return, Go, End, InInit, InDone, InCall, Up, NoCall
  <2>5. QED
    BY <1>17, <2>1, <2>2, <2>3, <2>4 DEF Test, Place, Block, Module, CallType
<1>18. ASSUME NEW p \in Proc, Post(p) PROVE Goal
  <2>1. pc' \in [Proc -> {"off", "gone"} \cup InInit \cup InDone \cup Up]
    BY <1>18 DEF Post, Return, Go, End, InInit, InDone, InCall, Up
  <2>2. call' \in [Proc -> CallType]
    BY <1>18 DEF Post, NoCall, CallType, Return
  <2>3. tokens' \in [Place -> Nat]
    BY <1>18 DEF Post, CallType
  <2>4. last' \in Modes
    BY <1>18, NoModesType DEF Post, NoteMode, Callers, Modes
  <2>5. Callers'
    BY <1>18, <2>1 DEF Post, Callers, Return, Go, End, InInit, InDone, InCall, Up, NoCall
  <2>6. QED
    BY <1>18, <2>1, <2>2, <2>3, <2>4, <2>5 DEF Post, Place, Block, Module, CallType
<1>19. ASSUME NEW p \in Proc, Take(p) PROVE Goal
  <2>1. pc' \in [Proc -> {"off", "gone"} \cup InInit \cup InDone \cup Up]
    BY <1>19 DEF Take, Return, Go, End, InInit, InDone, InCall, Up
  <2>2. call' \in [Proc -> CallType]
    BY <1>19 DEF Take, NoCall, CallType, Return
  <2>3. tokens' \in [Place -> Nat]
    BY <1>19 DEF Take
  <2>4. last' \in Modes
    BY <1>19, NoModesType DEF Take, NoteMode, Callers, Modes
  <2>5. Callers'
    BY <1>19, <2>1 DEF Take, Callers, Return, Go, End, InInit, InDone, InCall, Up, NoCall
  <2>6. QED
    BY <1>19, <2>1, <2>2, <2>3, <2>4, <2>5 DEF Take, Place, Block, Module, CallType
<1>20. ASSUME NEW p \in Proc, Kill(p) PROVE Goal
  <2>1. pc' \in [Proc -> {"off", "gone"} \cup InInit \cup InDone \cup Up]
    BY <1>20 DEF Kill, Signalled, Go, End, InInit, InDone, InCall, Up
  <2>2. mod' \in [Proc -> Module]
    BY <1>20 DEF Kill, End, NoModule, Module
  <2>3. call' \in [Proc -> CallType]
    BY <1>20 DEF Kill, NoCall, CallType, Return
  <2>4. hist' \in Hist
    BY <1>20 DEF Kill, Hist
  <2>5. last' \in Modes
    BY <1>20, NoteType DEF Kill, Modes
  <2>6. Callers'
    BY <1>20, <2>1 DEF Kill, Signalled, Callers, Return, Go, End, InInit, InDone, InCall, Up, NoCall
  <2>7. QED
    BY <1>20, <2>1, <2>2, <2>3, <2>4, <2>5, <2>6 DEF Kill, Place, Block, Module, CallType
<1>21. ASSUME NEW p \in Proc, Sweep(p) PROVE Goal
  <2>1. pc' \in [Proc -> {"off", "gone"} \cup InInit \cup InDone \cup Up]
    BY <1>21 DEF Sweep, Return, Go, End, InInit, InDone, InCall, Up
  <2>2. call' \in [Proc -> CallType]
    BY <1>21 DEF Sweep, NoCall, CallType, Return
  <2>3. block' \in [Slot -> Block]
    BY <1>21, FreedType DEF Sweep
  <2>4. hist' \in Hist
    BY <1>21 DEF Sweep, Hist
  <2>5. last' \in Modes
    BY <1>21, NoteType DEF Sweep, Modes
  <2>6. Callers'
    BY <1>21, <2>1 DEF Sweep, Callers, Return, Go, End, InInit, InDone, InCall, Up, NoCall
  <2>7. QED
    BY <1>21, <2>1, <2>2, <2>3, <2>4, <2>5, <2>6 DEF Sweep, Place, Block, Module, CallType
<1>22. CASE UNCHANGED vars
  BY <1>22 DEF vars, Place, Block, Module, CallType, Callers
<1>23. QED
  BY <1>1, <1>2, <1>3, <1>4, <1>5, <1>6, <1>7, <1>8, <1>9, <1>10, <1>11, <1>12, <1>13, <1>14, <1>15, <1>16, <1>17, <1>18, <1>19, <1>20, <1>21, <1>22 DEF Next, Step

LEMMA ProcsFinite ==
  ASSUME NEW S \in SUBSET Proc
  PROVE  IsFiniteSet(S) /\ Cardinality(S) \in Nat /\ Cardinality(S) <= Cardinality(Proc)
  BY ConstantsAssumption, FS_Subset, FS_CardinalityType

\* Fewer tokens and fewer processes about to add one.
LEMMA NoMoreTokens ==
  ASSUME Shape, Shape', TokensAccounted, NEW i \in Place, i \in Place',
         tokens'[i] <= tokens[i], Adding(i)' \subseteq Adding(i), Started \subseteq Started'
  PROVE  tokens'[i] + Cardinality(Adding(i)') <= Cardinality(Started')
<1>1. /\ Cardinality(Adding(i)') <= Cardinality(Adding(i))
      /\ Cardinality(Started) <= Cardinality(Started')
  BY FS_Subset, ProcsFinite DEF Adding, Started
<1>2. /\ Cardinality(Adding(i)') \in Nat /\ Cardinality(Adding(i)) \in Nat
      /\ Cardinality(Started) \in Nat /\ Cardinality(Started') \in Nat
  BY ProcsFinite DEF Adding, Started
<1>3. tokens[i] \in Nat /\ tokens'[i] \in Int
  BY DEF Shape
<1>4. QED
  BY <1>1, <1>2, <1>3 DEF TokensAccounted

\* An empty place, whoever is about to add to it.
LEMMA EmptyPlace ==
  ASSUME NEW i \in Place, tokens'[i] = 0
  PROVE  tokens'[i] + Cardinality(Adding(i)') <= Cardinality(Started')
<1>1. Adding(i)' \subseteq Started'
  BY DEF Adding, Started
<1>2. Cardinality(Adding(i)') <= Cardinality(Started') /\ Cardinality(Adding(i)') \in Nat
  BY <1>1, FS_Subset, ProcsFinite DEF Adding, Started
<1>3. QED
  BY <1>2

\* One of the processes about to add a token does so.
LEMMA OneMoreToken ==
  ASSUME Shape, TokensAccounted, NEW i \in Place, NEW p \in Adding(i),
         tokens'[i] = tokens[i] + 1, Adding(i)' \subseteq Adding(i) \ {p}, Started \subseteq Started'
  PROVE  tokens'[i] + Cardinality(Adding(i)') <= Cardinality(Started')
<1>1. IsFiniteSet(Adding(i)) /\ IsFiniteSet(Started')
  BY ProcsFinite DEF Adding, Started
<1>2. Cardinality(Adding(i) \ {p}) = Cardinality(Adding(i)) - 1 /\ IsFiniteSet(Adding(i) \ {p})
  BY <1>1, FS_RemoveElement
<1>3. /\ Cardinality(Adding(i)') <= Cardinality(Adding(i) \ {p})
      /\ Cardinality(Started) <= Cardinality(Started')
  BY <1>1, <1>2, FS_Subset
<1>4. /\ Cardinality(Adding(i)') \in Nat /\ Cardinality(Adding(i)) \in Nat
      /\ Cardinality(Started) \in Nat /\ Cardinality(Started') \in Nat
  BY ProcsFinite DEF Adding, Started
<1>5. tokens[i] \in Nat
  BY DEF Shape
<1>6. QED
  BY <1>2, <1>3, <1>4, <1>5 DEF TokensAccounted

\* Every step keeps the account of the tokens.
LEMMA TokensStep == ASSUME Typed, [Next]_vars PROVE TokensAccounted'
<1>0. Shape /\ TokensAccounted
  BY ConstantsAssumption DEF Typed, TypeOK, Shape, Block, Module, CallType, Hist, Modes
<1>00. Shape'
  BY ShapeStep
<1> SUFFICES ASSUME NEW i \in Place'
             PROVE  tokens'[i] + Cardinality(Adding(i)') <= Cardinality(Started')
  BY DEF TokensAccounted, Adding, Started
<1> DEFINE Goal == tokens'[i] + Cardinality(Adding(i)') <= Cardinality(Started')
           Fewer == /\ i \in Place /\ tokens'[i] <= tokens[i]
                    /\ Adding(i)' \subseteq Adding(i) /\ Started \subseteq Started'
<1>000. Fewer => Goal
  BY <1>0, <1>00, NoMoreTokens
<1> HIDE DEF Fewer
<1> USE <1>0 DEF Go, End, Return, OtherUnchanged
<1>1. ASSUME NEW p \in Proc, NEW n \in Name, Start(p, n) PROVE Goal
  <2>1. Fewer
    BY <1>1 DEF Start, Fewer, Adding, Started, Place, Shape
  <2>2. QED
    BY <2>1, <1>000
<1>2. ASSUME NEW p \in Proc, \E force_init \in BOOLEAN : Check(p, force_init) PROVE Goal
  <2>1. Fewer
    BY <1>2 DEF Check, Fewer, Adding, Started, Place, Shape
  <2>2. QED
    BY <2>1, <1>000
<1>3. ASSUME NEW p \in Proc, ForceInit(p) PROVE Goal
  <2>1. Fewer
    BY <1>3 DEF ForceInit, Fewer, Adding, Started, Place, Shape
  <2>2. QED
    BY <2>1, <1>000
<1>4. ASSUME NEW p \in Proc, Alloc(p) PROVE Goal
  <2>1. Fewer
    BY <1>4 DEF Alloc, Fewer, Adding, Started, Place, Shape
  <2>2. QED
    BY <2>1, <1>000
<1>5. ASSUME NEW p \in Proc, SetPidAddPlace(p) PROVE Goal
  <2>1. Fewer
    BY <1>5 DEF SetPidAddPlace, Fewer, Adding, Started, Place, Shape
  <2>2. QED
    BY <2>1, <1>000
<1>6. ASSUME NEW p \in Proc, Undo(p) PROVE Goal
  <2>1. Fewer
    BY <1>6 DEF Undo, Fewer, Adding, Started, Place, Shape
  <2>2. QED
    BY <2>1, <1>000
<1>7. ASSUME NEW p \in Proc, Store(p) PROVE Goal
  <2>1. Fewer
    BY <1>7 DEF Store, Fewer, Adding, Started, Place, Shape
  <2>2. QED
    BY <2>1, <1>000
<1>8. ASSUME NEW p \in Proc, Mode(p) PROVE Goal
  <2>1. CASE tokens[mod[p].place] = 0 /\ i = mod[p].place
    <3>1. i \in Place /\ tokens'[i] = 0
      BY <1>8, <2>1 DEF Mode, Place
    <3>2. QED
      BY <3>1, EmptyPlace
  <2>2. CASE tokens[mod[p].place] # 0 \/ i # mod[p].place
    <3>1. Fewer
      BY <1>8, <2>2 DEF Mode, Fewer, Adding, Started, Place, Shape, Module, CallType
    <3>2. QED
      BY <3>1, <1>000
  <2>3. QED
    BY <2>1, <2>2
<1>9. ASSUME NEW p \in Proc, Activate(p) PROVE Goal
  <2>1. CASE i = mod[p].place
    <3>1. i \in Place /\ tokens'[i] = tokens[i] + 1 /\ Started \subseteq Started'
      BY <1>9, <2>1 DEF Activate, Place, Shape, Started
    <3>2. p \in Adding(i) /\ Adding(i)' \subseteq Adding(i) \ {p}
      BY <1>9, <2>1 DEF Activate, Shape, Adding
    <3>3. QED
      BY <3>1, <3>2, OneMoreToken
  <2>2. CASE i # mod[p].place
    <3>1. Fewer
      BY <1>9, <2>2 DEF Activate, Fewer, Adding, Started, Place, Shape
    <3>2. QED
      BY <3>1, <1>000
  <2>3. QED
    BY <2>1, <2>2
<1>10. ASSUME NEW p \in Proc, Done(p) PROVE Goal
  <2>1. Fewer
    BY <1>10 DEF Done, Fewer, Adding, Started, Place, Shape
  <2>2. QED
    BY <2>1, <1>000
<1>11. ASSUME NEW p \in Proc, DelPlace(p) PROVE Goal
  <2>1. Fewer
    BY <1>11 DEF DelPlace, Fewer, Adding, Started, Place, Shape
  <2>2. QED
    BY <2>1, <1>000
<1>12. ASSUME NEW p \in Proc, DelBlock(p) PROVE Goal
  <2>1. Fewer
    BY <1>12 DEF DelBlock, Fewer, Adding, Started, Place, Shape
  <2>2. QED
    BY <2>1, <1>000
<1>13. ASSUME NEW p \in Proc, Crash(p) PROVE Goal
  <2>1. Fewer
    BY <1>13 DEF Crash, Alive, Fewer, Adding, Started, Place, Shape
  <2>2. QED
    BY <2>1, <1>000
<1>14. ASSUME NEW p \in Proc, NEW op \in {"run", "stop"}, Call(p, op, PLC) PROVE Goal
  <2>1. Fewer
    BY <1>14 DEF Call, Fewer, Adding, Started, Place, Shape
  <2>2. QED
    BY <2>1, <1>000
<1>15. ASSUME NEW p \in Proc, NEW op \in {"run", "stop", "shutdown"}, NEW n \in Name, Call(p, op, n) PROVE Goal
  <2>1. Fewer
    BY <1>15 DEF Call, Fewer, Adding, Started, Place, Shape
  <2>2. QED
    BY <2>1, <1>000
<1>16. ASSUME NEW p \in Proc, Look(p) PROVE Goal
  <2>1. Fewer
    BY <1>16 DEF Look, Fewer, Adding, Started, Place, Shape
  <2>2. QED
    BY <2>1, <1>000
<1>17. ASSUME NEW p \in Proc, Test(p) PROVE Goal
  <2>1. CASE tokens[call[p].place] = 0 /\ i = call[p].place
    <3>1. i \in Place /\ tokens'[i] = 0
      BY <1>17, <2>1 DEF Test, Place
    <3>2. QED
      BY <3>1, EmptyPlace
  <2>2. CASE tokens[call[p].place] # 0 \/ i # call[p].place
    <3>1. CASE tokens[call[p].place] > 0
      <4>1. Fewer
        BY <1>17, <3>1 DEF Test, Fewer, Adding, Started, Place, Shape
      <4>2. QED
        BY <4>1, <1>000
    <3>2. CASE ~(tokens[call[p].place] > 0)
      <4>1. tokens[call[p].place] = 0
        BY <3>2 DEF Shape, CallType
      <4>2. Fewer
        BY <1>17, <2>2, <3>2, <4>1 DEF Test, Fewer, Adding, Started, Place, Shape
      <4>3. QED
        BY <4>2, <1>000
    <3>3. QED
      BY <3>1, <3>2
  <2>3. QED
    BY <2>1, <2>2
<1>18. ASSUME NEW p \in Proc, Post(p) PROVE Goal
  <2>1. CASE i = call[p].place
    <3>1. i \in Place /\ tokens'[i] = tokens[i] + 1 /\ Started \subseteq Started'
      BY <1>18, <2>1 DEF Post, Place, Shape, Started
    <3>2. p \in Adding(i) /\ Adding(i)' \subseteq Adding(i) \ {p}
      BY <1>18, <2>1 DEF Post, Shape, Adding
    <3>3. QED
      BY <3>1, <3>2, OneMoreToken
  <2>2. CASE i # call[p].place
    <3>1. Fewer
      BY <1>18, <2>2 DEF Post, Fewer, Adding, Started, Place, Shape
    <3>2. QED
      BY <3>1, <1>000
  <2>3. QED
    BY <2>1, <2>2
<1>19. ASSUME NEW p \in Proc, Take(p) PROVE Goal
  <2>1. CASE tokens[call[p].place] > 0
    <3>0. i \in Place
      BY <1>19 DEF Take, Place
    <3>1. tokens'[i] <= tokens[i]
      BY <3>0, <1>19, <2>1 DEF Take, Shape
    <3>2. Adding(i)' \subseteq Adding(i)
      BY <1>19, <2>1 DEF Take, Adding, Shape
    <3>3. Started \subseteq Started'
      BY <1>19, <2>1 DEF Take, Started, Shape
    <3>4. QED
      BY <3>0, <3>1, <3>2, <3>3, <1>000 DEF Fewer
  <2>2. CASE ~(tokens[call[p].place] > 0)
    <3>0. i \in Place
      BY <1>19 DEF Take, Place
    <3>1. tokens'[i] <= tokens[i]
      BY <3>0, <1>19, <2>2 DEF Take, Shape
    <3>2. Adding(i)' \subseteq Adding(i)
      BY <1>19, <2>2 DEF Take, Adding, Shape
    <3>3. Started \subseteq Started'
      BY <1>19, <2>2 DEF Take, Started, Shape
    <3>4. QED
      BY <3>0, <3>1, <3>2, <3>3, <1>000 DEF Fewer
  <2>3. QED
    BY <2>1, <2>2
<1>20. ASSUME NEW p \in Proc, Kill(p) PROVE Goal
  <2>1. Fewer
    BY <1>20 DEF Kill, Signalled, Alive, Fewer, Adding, Started, Place, Shape
  <2>2. QED
    BY <2>1, <1>000
<1>21. ASSUME NEW p \in Proc, Sweep(p) PROVE Goal
  <2>1. Fewer
    BY <1>21 DEF Sweep, Fewer, Adding, Started, Place, Shape
  <2>2. QED
    BY <2>1, <1>000
<1>22. CASE UNCHANGED vars
  <2>1. Fewer
    BY <1>22 DEF vars, Fewer, Adding, Started, Place, Shape
  <2>2. QED
    BY <2>1, <1>000
<1>23. QED
  BY <1>1, <1>2, <1>3, <1>4, <1>5, <1>6, <1>7, <1>8, <1>9, <1>10, <1>11, <1>12, <1>13, <1>14, <1>15, <1>16, <1>17, <1>18, <1>19, <1>20, <1>21, <1>22 DEF Next, Step

\* Together they are the type invariant: the processes, and so the tokens of a
\* place, are no more than SEMVMX.
LEMMA TypedInductive == Typed /\ [Next]_vars => Typed'
<1> SUFFICES ASSUME Typed, [Next]_vars PROVE Typed'
  OBVIOUS
<1>1. Shape' /\ Callers' /\ TokensAccounted'
  BY ShapeStep, TokensStep
<1>2. tokens' \in [Place' -> 0 .. SEMVMX]
  <2>1. ASSUME NEW i \in Place' PROVE tokens'[i] \in 0 .. SEMVMX
    <3>1. /\ Cardinality(Adding(i)') \in Nat
          /\ Cardinality(Started') \in Nat /\ Cardinality(Started') <= Cardinality(Proc)
      BY ProcsFinite DEF Adding, Started
    <3>2. tokens'[i] + Cardinality(Adding(i)') <= Cardinality(Started') /\ tokens'[i] \in Nat
      BY <1>1 DEF TokensAccounted, Shape
    <3>3. Cardinality(Proc) \in Nat /\ SEMVMX \in Nat /\ Cardinality(Proc) <= SEMVMX
      BY ConstantsAssumption, FS_CardinalityType
    <3>4. QED
      BY <3>1, <3>2, <3>3
  <2>2. QED
    BY <1>1, <2>1 DEF Shape
<1>3. QED
  BY <1>1, <1>2 DEF Typed, TypeOK, Shape, Block, Module, CallType, Hist, Modes

LEMMA TypedInitially == Init => Typed
<1> SUFFICES ASSUME Init PROVE Typed
  OBVIOUS
<1>1. Shared \in Place
  BY SharedIsPlace DEF Init
<1>2. TypeOK
  BY <1>1, ConstantsAssumption DEF Init, TypeOK, NoModule, NoCall, EmptyBlock, NoModes
<1>3. Callers
  BY DEF Init, Callers
<1>4. TokensAccounted
  <2>1. \A i \in Place : Adding(i) = {} /\ tokens[i] = 0
    BY DEF Init, Adding
  <2>2. Cardinality(Started) \in Nat
    BY ProcsFinite DEF Started
  <2>3. QED
    BY <2>1, <2>2, FS_EmptySet DEF TokensAccounted
<1>5. QED
  BY <1>2, <1>3, <1>4 DEF Typed

\* Type correctness of every reachable state of the state library.
THEOREM TypeCorrect == Spec => []TypeOK
<1>1. Typed => TypeOK
  BY DEF Typed
<1>2. QED
  BY <1>1, TypedInitially, TypedInductive, PTL DEF Spec

\* The race in activate_run_mode, between looking for a token and adding one,
\* never fills a place: it holds no more tokens than processes have started.
THEOREM TokensStayBounded == Spec => []TokensBounded
<1>1. Typed => TokensBounded
  <2> SUFFICES ASSUME Typed, NEW i \in Place PROVE tokens[i] <= Cardinality(Started)
    BY DEF TokensBounded, Started
  <2>1. Cardinality(Adding(i)) \in Nat /\ Cardinality(Started) \in Nat
    BY ProcsFinite DEF Adding, Started
  <2>2. tokens[i] \in Int
    BY ConstantsAssumption DEF Typed, TypeOK
  <2>3. QED
    BY <2>1, <2>2 DEF Typed, TokensAccounted
<1>2. QED
  BY <1>1, TypedInitially, TypedInductive, PTL DEF Spec
-----------------------------------------------------------------------------
(***************************************************************************)
(* Places.  A process that is in or past state_init owns its block and,    *)
(* from plc_synchplace_add on, its place, and its block says which place   *)
(* that is: state_done reads the place to give back from the block, so     *)
(* that nobody's place is given back by another.                           *)
(***************************************************************************)
HasBlock(p) == HasPlace(p) \/ pc[p] \in {"pid", "undo", "del_block"}

SharedTaken == Shared \in in_use
PlacesTaken == \A p \in Proc : HasPlace(p) => mod[p].place \in in_use \ {Shared}
PlacesDiffer == \A p, q \in Proc : HasPlace(p) /\ HasPlace(q) /\ p # q => mod[p].place # mod[q].place
BlocksUsed == \A p \in Proc : HasBlock(p) => mod[p].shm \in Slot /\ block[mod[p].shm].used
BlocksDiffer == \A p, q \in Proc : HasBlock(p) /\ HasBlock(q) /\ p # q => mod[p].shm # mod[q].shm
BlockNamesPlace ==
  \A p \in Proc : HasPlace(p) /\ pc[p] # "store" => block[mod[p].shm].place = mod[p].place
Owned == SharedTaken /\ PlacesTaken /\ PlacesDiffer /\ BlocksUsed /\ BlocksDiffer /\ BlockNamesPlace

\* A step that takes or gives back nothing, but for what a process that ends had.
LEMMA OwnedKept ==
  ASSUME Owned, in_use' = in_use, block' = block,
         \A p \in Proc : HasPlace(p)' => HasPlace(p) /\ mod'[p] = mod[p],
         \A p \in Proc : HasBlock(p)' => HasBlock(p) /\ mod'[p] = mod[p],
         \A p \in Proc : HasPlace(p)' /\ pc'[p] # "store" => pc[p] # "store"
  PROVE  Owned'
<1>1. SharedTaken' /\ PlacesTaken' /\ PlacesDiffer'
  BY DEF Owned, SharedTaken, PlacesTaken, PlacesDiffer
<1>2. BlocksUsed' /\ BlocksDiffer' /\ BlockNamesPlace'
  BY DEF Owned, BlocksUsed, BlocksDiffer, BlockNamesPlace
<1>3. QED
  BY <1>1, <1>2 DEF Owned

\* A process that ends frees its block: nobody else's.
LEMMA OwnedGivenBack ==
  ASSUME Owned, in_use' = in_use, NEW p \in Proc, HasBlock(p),
         \A t \in Slot : t # mod[p].shm => block'[t] = block[t],
         \A q \in Proc : HasPlace(q)' => q # p /\ HasPlace(q) /\ mod'[q] = mod[q],
         \A q \in Proc : HasBlock(q)' => q # p /\ HasBlock(q) /\ mod'[q] = mod[q],
         \A q \in Proc : HasPlace(q)' /\ pc'[q] # "store" => pc[q] # "store"
  PROVE  Owned'
<1>1. SharedTaken' /\ PlacesTaken' /\ PlacesDiffer'
  BY DEF Owned, SharedTaken, PlacesTaken, PlacesDiffer
<1>2. BlocksUsed' /\ BlocksDiffer'
  BY DEF Owned, BlocksUsed, BlocksDiffer
<1>3. BlockNamesPlace'
  BY DEF Owned, BlocksUsed, BlocksDiffer, BlockNamesPlace, HasBlock
<1>4. QED
  BY <1>1, <1>2, <1>3 DEF Owned

LEMMA OwnedStep ==
  ASSUME Typed, [Next]_vars, ~hist.freed => Owned, ~hist'.freed
  PROVE  Owned'
<1> DEFINE Kept == /\ ~hist.freed /\ in_use' = in_use /\ block' = block
                   /\ \A q \in Proc : HasPlace(q)' => HasPlace(q) /\ mod'[q] = mod[q]
                   /\ \A q \in Proc : HasBlock(q)' => HasBlock(q) /\ mod'[q] = mod[q]
                   /\ \A q \in Proc : HasPlace(q)' /\ pc'[q] # "store" => pc[q] # "store"
<1>0. Shape
  BY ConstantsAssumption DEF Typed, TypeOK, Shape, Block, Module, CallType, Hist, Modes
<1>00. Kept => Owned'
  BY OwnedKept
<1> HIDE DEF Kept
<1> USE <1>0 DEF Shape, Go, End, Return, OtherUnchanged, InInit, InDone, InCall, Up
<1>1. ASSUME NEW p \in Proc, NEW n \in Name, Start(p, n) PROVE Owned'
  <2>1. Kept
    BY <1>1 DEF Start, Hist, Kept, HasPlace, HasBlock
  <2>2. QED
    BY <2>1, <1>00
<1>2. ASSUME NEW p \in Proc, \E force_init \in BOOLEAN : Check(p, force_init) PROVE Owned'
  <2>1. Kept
    BY <1>2 DEF Check, Kept, HasPlace, HasBlock
  <2>2. QED
    BY <2>1, <1>00
<1>3. ASSUME NEW p \in Proc, Mode(p) PROVE Owned'
  <2>1. Kept
    BY <1>3 DEF Mode, Kept, HasPlace, HasBlock
  <2>2. QED
    BY <2>1, <1>00
<1>4. ASSUME NEW p \in Proc, Activate(p) PROVE Owned'
  <2>1. Kept
    BY <1>4 DEF Activate, Kept, HasPlace, HasBlock
  <2>2. QED
    BY <2>1, <1>00
<1>5. ASSUME NEW p \in Proc, Done(p) PROVE Owned'
  <2>1. Kept
    BY <1>5 DEF Done, Hist, Kept, HasPlace, HasBlock
  <2>2. QED
    BY <2>1, <1>00
<1>6. ASSUME NEW p \in Proc, Crash(p) PROVE Owned'
  <2>1. Kept
    BY <1>6 DEF Crash, Hist, Alive, Kept, HasPlace, HasBlock
  <2>2. QED
    BY <2>1, <1>00
<1>7. ASSUME NEW p \in Proc, NEW op \in {"run", "stop"}, Call(p, op, PLC) PROVE Owned'
  <2>1. Kept
    BY <1>7 DEF Call, Hist, Kept, HasPlace, HasBlock
  <2>2. QED
    BY <2>1, <1>00
<1>8. ASSUME NEW p \in Proc, NEW op \in {"run", "stop", "shutdown"}, NEW n \in Name, Call(p, op, n) PROVE Owned'
  <2>1. Kept
    BY <1>8 DEF Call, Hist, Kept, HasPlace, HasBlock
  <2>2. QED
    BY <2>1, <1>00
<1>9. ASSUME NEW p \in Proc, Look(p) PROVE Owned'
  <2>1. Kept
    BY <1>9 DEF Look, Kept, HasPlace, HasBlock
  <2>2. QED
    BY <2>1, <1>00
<1>10. ASSUME NEW p \in Proc, Test(p) PROVE Owned'
  <2>1. Kept
    BY <1>10 DEF Test, Kept, HasPlace, HasBlock
  <2>2. QED
    BY <2>1, <1>00
<1>11. ASSUME NEW p \in Proc, Post(p) PROVE Owned'
  <2>1. Kept
    BY <1>11 DEF Post, Kept, HasPlace, HasBlock
  <2>2. QED
    BY <2>1, <1>00
<1>12. ASSUME NEW p \in Proc, Take(p) PROVE Owned'
  <2>1. Kept
    BY <1>12 DEF Take, Kept, HasPlace, HasBlock
  <2>2. QED
    BY <2>1, <1>00
<1>13. ASSUME NEW p \in Proc, Kill(p) PROVE Owned'
  <2>1. ~hist.freed /\ in_use' = in_use /\ block' = block
    BY <1>13 DEF Kill, Hist
  <2>2. ASSUME NEW q \in Proc
        PROVE  /\ pc'[q] = pc[q] \/ pc'[q] = "gone" \/ (pc[q] \in Up /\ pc'[q] \in {"del_place", "ready", "sweep"})
               /\ mod'[q] = mod[q] \/ pc'[q] = "gone"
    <3> DEFINE pid == block[call[p].shm].pid
               hit == IF pid = NoPid THEN {r \in Proc : Alive(r)} ELSE {pid} \cap {r \in Proc : Alive(r)}
               back == [pc EXCEPT ![p] = "ready"]
    <3>0. pc[p] = "kill" /\ back[q] = IF q = p THEN "ready" ELSE pc[q]
      BY <1>13 DEF Kill
    <3>1. CASE hit = {}
      BY <1>13, <3>1 DEF Kill
    <3>2. CASE hit # {}
      <4>1. /\ pc'[q] = IF q \in hit THEN Signalled(q, back) ELSE back[q]
            /\ mod'[q] = IF pc'[q] = "gone" THEN NoModule ELSE mod[q]
        BY <1>13, <3>2 DEF Kill
      <4>2. Signalled(q, back) \in {back[q], "gone"} \/ (pc[q] \in Up /\ Signalled(q, back) = "del_place")
        BY DEF Signalled
      <4> HIDE DEF hit, back
      <4>3. QED
        BY <3>0, <4>1, <4>2
    <3>3. QED
      BY <3>1, <3>2
  <2>3. Kept
    BY <2>1, <2>2 DEF Kept, HasPlace, HasBlock
  <2>4. QED
    BY <2>3, <1>00
<1>14. CASE UNCHANGED vars
  <2>1. Kept
    BY <1>14 DEF vars, Kept, HasPlace, HasBlock
  <2>2. QED
    BY <2>1, <1>00
<1>15. ASSUME NEW p \in Proc, ForceInit(p) PROVE Owned'
  BY <1>15 DEF ForceInit, Hist
<1>16. ASSUME NEW p \in Proc, Sweep(p) PROVE Owned'
  BY <1>16 DEF Sweep, Hist
<1>17. ASSUME NEW p \in Proc, Alloc(p) PROVE Owned'
  <2>0. Owned
    BY <1>17 DEF Alloc
  <2>1. CASE \E s \in Slot : ~block[s].used /\ pc' = [pc EXCEPT ![p] = "pid"]
    <3>1. PICK s \in Slot : /\ ~block[s].used
                            /\ block' = [block EXCEPT ![s] = [used |-> TRUE, name |-> mod[p].name,
                                                              pid |-> NoPid, place |-> Shared]]
                            /\ mod' = [mod EXCEPT ![p].shm = s]
                            /\ pc' = [pc EXCEPT ![p] = "pid"]
      BY <1>17, <2>1 DEF Alloc
    <3>2. /\ block'[s].used /\ mod'[p].shm = s /\ in_use' = in_use
          /\ \A t \in Slot : t # s => block'[t] = block[t]
          /\ \A q \in Proc : q # p => mod'[q] = mod[q] /\ pc'[q] = pc[q]
      BY <1>17, <3>1 DEF Alloc, Module
    <3>3. /\ \A q \in Proc : HasPlace(q)' => q # p /\ HasPlace(q)
          /\ \A q \in Proc : HasBlock(q)' => q = p \/ HasBlock(q)
      BY <3>1 DEF HasPlace, HasBlock
    <3>4. SharedTaken' /\ PlacesTaken' /\ PlacesDiffer'
      BY <2>0, <3>2, <3>3 DEF Owned, SharedTaken, PlacesTaken, PlacesDiffer
    <3>5. BlocksUsed' /\ BlocksDiffer'
      BY <2>0, <3>1, <3>2, <3>3 DEF Owned, BlocksUsed, BlocksDiffer
    <3>6. BlockNamesPlace'
      BY <2>0, <3>1, <3>2, <3>3 DEF Owned, BlocksUsed, BlockNamesPlace, HasBlock
    <3>7. QED
      BY <3>4, <3>5, <3>6 DEF Owned
  <2>2. CASE ~\E s \in Slot : ~block[s].used /\ pc' = [pc EXCEPT ![p] = "pid"]
    <3>1. Kept
      BY <1>17, <2>2 DEF Alloc, Kept, HasPlace, HasBlock
    <3>2. QED
      BY <3>1, <1>00
  <2>3. QED
    BY <2>1, <2>2
<1>18. ASSUME NEW p \in Proc, SetPidAddPlace(p) PROVE Owned'
  <2>0. Owned /\ in_use \subseteq Place
    BY <1>18 DEF SetPidAddPlace
  <2>1. \A t \in Slot : block'[t].used = block[t].used /\ block'[t].place = block[t].place
    BY <1>18 DEF SetPidAddPlace, Block
  <2>2. CASE FreePlaces = {}
    <3>1. /\ in_use' = in_use /\ mod' = mod
          /\ \A q \in Proc : HasPlace(q)' => HasPlace(q)
          /\ \A q \in Proc : HasBlock(q)' => HasBlock(q)
          /\ \A q \in Proc : HasPlace(q)' /\ pc'[q] # "store" => pc[q] # "store"
      BY <1>18, <2>2 DEF SetPidAddPlace, HasPlace, HasBlock
    <3>2. SharedTaken' /\ PlacesTaken' /\ PlacesDiffer'
      BY <2>0, <3>1 DEF Owned, SharedTaken, PlacesTaken, PlacesDiffer
    <3>3. BlocksUsed' /\ BlocksDiffer' /\ BlockNamesPlace'
      BY <2>0, <2>1, <3>1 DEF Owned, BlocksUsed, BlocksDiffer, BlockNamesPlace, HasBlock
    <3>4. QED
      BY <3>2, <3>3 DEF Owned
  <2>3. CASE FreePlaces # {}
    <3> DEFINE i == CHOOSE i \in FreePlaces : \A j \in FreePlaces : i <= j
    <3>1. i \in FreePlaces /\ i \notin in_use
      BY <2>3, LeastFree DEF Typed, FreePlaces
    <3>2. in_use' = in_use \cup {i} /\ mod' = [mod EXCEPT ![p].place = i] /\ Go(p, "store")
      BY <1>18, <2>3 DEF SetPidAddPlace
    <3> HIDE DEF i
    <3>3. /\ mod'[p].place = i /\ mod'[p].shm = mod[p].shm
          /\ \A q \in Proc : q # p => mod'[q] = mod[q] /\ pc'[q] = pc[q]
      BY <3>2 DEF Module
    <3>4. /\ pc'[p] = "store" /\ HasBlock(p)
          /\ \A q \in Proc : HasPlace(q)' => q = p \/ HasPlace(q)
          /\ \A q \in Proc : HasBlock(q)' => HasBlock(q)
      BY <1>18, <3>2 DEF SetPidAddPlace, HasPlace, HasBlock
    <3>5. SharedTaken' /\ PlacesTaken' /\ PlacesDiffer'
      BY <2>0, <3>1, <3>2, <3>3, <3>4 DEF Owned, SharedTaken, PlacesTaken, PlacesDiffer
    <3>6. BlocksUsed' /\ BlocksDiffer'
      BY <2>0, <2>1, <3>3, <3>4 DEF Owned, BlocksUsed, BlocksDiffer
    <3>7. BlockNamesPlace'
      BY <2>0, <2>1, <3>3, <3>4 DEF Owned, BlocksUsed, BlockNamesPlace, HasBlock
    <3>8. QED
      BY <3>5, <3>6, <3>7 DEF Owned
  <2>4. QED
    BY <2>2, <2>3
<1>19. ASSUME NEW p \in Proc, Undo(p) PROVE Owned'
  <2>1. Owned /\ in_use' = in_use /\ HasBlock(p)
    BY <1>19 DEF Undo, HasBlock
  <2>2. \A t \in Slot : t # mod[p].shm => block'[t] = block[t]
    BY <1>19 DEF Undo, Freed
  <2>3. \A q \in Proc : HasPlace(q)' => q # p /\ HasPlace(q) /\ mod'[q] = mod[q]
    BY <1>19 DEF Undo, HasPlace
  <2>4. \A q \in Proc : HasBlock(q)' => q # p /\ HasBlock(q) /\ mod'[q] = mod[q]
    BY <1>19 DEF Undo, HasPlace, HasBlock
  <2>5. \A q \in Proc : HasPlace(q)' /\ pc'[q] # "store" => pc[q] # "store"
    BY <1>19 DEF Undo, HasPlace
  <2>6. QED
    BY <2>1, <2>2, <2>3, <2>4, <2>5, OwnedGivenBack
<1>20. ASSUME NEW p \in Proc, Store(p) PROVE Owned'
  <2>0. Owned
    BY <1>20 DEF Store
  <2>1. SharedTaken'
    BY <1>20, <2>0 DEF Store, Owned, SharedTaken
  <2>2. PlacesTaken' /\ PlacesDiffer'
    BY <1>20, <2>0 DEF Store, Owned, PlacesTaken, PlacesDiffer, HasPlace
  <2>3. BlocksUsed'
    BY <1>20, <2>0 DEF Store, Owned, BlocksUsed, HasBlock, HasPlace
  <2>4. BlocksDiffer'
    BY <1>20, <2>0 DEF Store, Owned, BlocksDiffer, BlocksUsed, HasBlock, HasPlace
  <2>5. BlockNamesPlace'
    BY <1>20, <2>0 DEF Store, Owned, BlockNamesPlace, BlocksUsed, BlocksDiffer, HasBlock, HasPlace
  <2>6. QED
    BY <2>1, <2>2, <2>3, <2>4, <2>5 DEF Owned
<1>21. ASSUME NEW p \in Proc, DelPlace(p) PROVE Owned'
  <2>0. Owned
    BY <1>21 DEF DelPlace
  <2>1. SharedTaken'
    BY <1>21, <2>0 DEF DelPlace, Owned, SharedTaken, PlacesTaken, BlockNamesPlace, HasPlace
  <2>2. PlacesTaken' /\ PlacesDiffer'
    BY <1>21, <2>0 DEF DelPlace, Owned, PlacesTaken, PlacesDiffer, HasPlace, BlockNamesPlace
  <2>3. BlocksUsed'
    BY <1>21, <2>0 DEF DelPlace, Owned, BlocksUsed, HasBlock, HasPlace
  <2>4. BlocksDiffer'
    BY <1>21, <2>0 DEF DelPlace, Owned, BlocksDiffer, BlocksUsed, HasBlock, HasPlace
  <2>5. BlockNamesPlace'
    BY <1>21, <2>0 DEF DelPlace, Owned, BlockNamesPlace, BlocksUsed, BlocksDiffer, HasBlock, HasPlace
  <2>6. QED
    BY <2>1, <2>2, <2>3, <2>4, <2>5 DEF Owned
<1>22. ASSUME NEW p \in Proc, DelBlock(p) PROVE Owned'
  <2>1. Owned /\ in_use' = in_use /\ HasBlock(p)
    BY <1>22 DEF DelBlock, HasBlock
  <2>2. \A t \in Slot : t # mod[p].shm => block'[t] = block[t]
    BY <1>22 DEF DelBlock, Freed
  <2>3. \A q \in Proc : HasPlace(q)' => q # p /\ HasPlace(q) /\ mod'[q] = mod[q]
    BY <1>22 DEF DelBlock, HasPlace
  <2>4. \A q \in Proc : HasBlock(q)' => q # p /\ HasBlock(q) /\ mod'[q] = mod[q]
    BY <1>22 DEF DelBlock, HasPlace, HasBlock
  <2>5. \A q \in Proc : HasPlace(q)' /\ pc'[q] # "store" => pc[q] # "store"
    BY <1>22 DEF DelBlock, HasPlace
  <2>6. QED
    BY <2>1, <2>2, <2>3, <2>4, <2>5, OwnedGivenBack
<1>23. QED
  BY <1>1, <1>2, <1>3, <1>4, <1>5, <1>6, <1>7, <1>8, <1>9, <1>10, <1>11, <1>12, <1>13, <1>14, <1>15, <1>16, <1>17, <1>18, <1>19, <1>20, <1>21, <1>22 DEF Next, Step

\* However starts, ends and deaths interleave, no two modules wait on the same
\* RUN/STOP place and none on the MatPLC wide one, until a block is freed under
\* a process.
THEOREM PlacesStayDisjoint == Spec => []PlacesDisjoint
<1> DEFINE OwnedUntilFreed == ~hist.freed => Owned
<1>1. Init => OwnedUntilFreed
  BY DEF Init, Owned, SharedTaken, PlacesTaken, PlacesDiffer, BlocksUsed, BlocksDiffer,
         BlockNamesPlace, HasPlace, HasBlock, Up, InCall
<1>2. Typed /\ OwnedUntilFreed /\ [Next]_vars => OwnedUntilFreed'
  BY OwnedStep
<1>3. OwnedUntilFreed => PlacesDisjoint
  BY DEF PlacesDisjoint, Owned, PlacesTaken, PlacesDiffer
<1>4. QED
  BY <1>1, <1>2, <1>3, TypedInitially, TypedInductive, PTL DEF Spec
-----------------------------------------------------------------------------
(***************************************************************************)
(* Modes.  While the MatPLC is Calm, one process at a time is inside       *)
(* state_init or state_done, and nobody is inside a call meanwhile; each   *)
(* name has one block, that of the process of that name; a call has found  *)
(* the block, and then the place, of the module it names.  So the tokens   *)
(* of a place are the business of the calls of one name.                   *)
(***************************************************************************)
Busy == InInit \cup InDone
Registered(p) == HasBlock(p) \/ pc[p] = "alloc"

OneAtATime ==
  \A p, q \in Proc : pc[p] \in Busy /\ q # p => pc[q] \notin Busy \cup InCall
NamesProper == \A p \in Proc : pc[p] \in Busy \cup Up => mod[p].name \in Name
NamesDiffer ==
  \A p, q \in Proc : Registered(p) /\ Registered(q) /\ p # q => mod[p].name # mod[q].name
BlocksNamed ==
  \A p \in Proc : HasBlock(p) => /\ block[mod[p].shm].name = mod[p].name
                                 /\ pc[p] # "pid" => block[mod[p].shm].pid = p
BlocksOwned == \A s \in Slot : block[s].used => \E p \in Proc : HasBlock(p) /\ mod[p].shm = s
Registry == NamesProper /\ NamesDiffer /\ BlocksNamed /\ BlocksOwned

\* What plc_module_start found is the block of a module that is up.
ChecksLive == \A p \in Proc : pc[p] = "check" => \E q \in Proc : pc[q] \in Up /\ mod[q].shm = mod[p].shm
CallsFound ==
  \A p \in Proc : pc[p] \in {"look", "kill"} =>
    \E q \in Proc : pc[q] \in Up /\ mod[q].name = call[p].name /\ mod[q].shm = call[p].shm

\* The name and the place of the MatPLC, or of a module that is up.
Belong(k, i) == \/ k = PLC /\ i = Shared
                \/ \E q \in Proc : pc[q] \in Up /\ mod[q].name = k /\ mod[q].place = i
CallsPlaced ==
  \A p \in Proc : pc[p] \in {"test", "post", "take"} => Belong(call[p].name, call[p].place)
CallsMean ==
  \A p \in Proc : /\ pc[p] \in {"test", "post"} => call[p].op = "run"
                  /\ pc[p] = "take" => call[p].op = "stop"
Finding == ChecksLive /\ CallsFound /\ CallsPlaced /\ CallsMean

\* The mode last set is that of the tokens, and no call is about to change it.
Calls(k) == {p \in Proc : pc[p] \in InCall /\ call[p].name = k}
ModeOf(k, i) ==
  /\ last[k] = "run" => tokens[i] > 0 /\ \A p \in Calls(k) : call[p].op # "stop"
  /\ last[k] = "stop" => tokens[i] = 0 /\ \A p \in Calls(k) : call[p].op # "run"
ModesKept == \A k \in Name \cup {PLC}, i \in Place : Belong(k, i) => ModeOf(k, i)

Ordered == Owned /\ OneAtATime /\ Registry /\ Finding /\ ModesKept

\* What a step does that leaves the MatPLC Calm.
CalmStep(p) ==
  \/ \E n \in Name : Start(p, n) /\ Quiet(Proc)
  \/ \E force_init \in BOOLEAN : Check(p, force_init)
  \/ Alloc(p) \/ SetPidAddPlace(p) \/ Undo(p)
  \/ Store(p) \/ Mode(p) \/ Activate(p)
  \/ Done(p) /\ Quiet(Proc)
  \/ DelPlace(p) \/ DelBlock(p)
  \/ \E op \in {"run", "stop", "shutdown"}, k \in Name \cup {PLC} :
       Call(p, op, k) /\ Settled(Proc) /\ (k = PLC => op # "shutdown")
  \/ Look(p) \/ Test(p) \/ Post(p) \/ Take(p)
  \/ Kill(p)

\* Calm does not come back, and what would end it did not happen.
LEMMA CalmSteps ==
  ASSUME Typed, NEW p \in Proc, Step(p), Calm'
  PROVE  Calm /\ CalmStep(p)
<1>0. hist \in Hist
  BY DEF Typed, TypeOK, Hist
<1>1. CASE \E n \in Name : Start(p, n)
  BY <1>0, <1>1 DEF Start, Calm, CalmStep, Hist
<1>2. CASE ForceInit(p) \/ Sweep(p)
  BY <1>0, <1>2 DEF ForceInit, Sweep, Calm, Hist
<1>3. CASE Crash(p)
  BY <1>0, <1>3 DEF Crash, Calm, Hist
<1>4. CASE Done(p)
  BY <1>0, <1>4 DEF Done, Calm, CalmStep, Hist
<1>5. ASSUME NEW op, NEW k, Call(p, op, k) PROVE Calm /\ Settled(Proc)
  BY <1>0, <1>5 DEF Call, Calm, Hist
<1>6. CASE \/ \E op \in {"run", "stop"} : Call(p, op, PLC)
           \/ \E op \in {"run", "stop", "shutdown"}, n \in Name : Call(p, op, n)
  BY <1>5, <1>6, ConstantsAssumption DEF CalmStep
<1>7. CASE Kill(p)
  <2>1. Calm' => Calm
    BY <1>0, <1>7 DEF Kill, Calm, Hist
  <2>2. QED
    BY <1>7, <2>1 DEF CalmStep
<1>8. CASE \E force_init \in BOOLEAN : Check(p, force_init)
  BY <1>8 DEF Check, Calm, CalmStep
<1>9. CASE Alloc(p) \/ SetPidAddPlace(p) \/ Undo(p) \/ Store(p) \/ Mode(p) \/ Activate(p)
  BY <1>9 DEF Alloc, SetPidAddPlace, Undo, Store, Mode, Activate, Calm, CalmStep
<1>10. CASE DelPlace(p) \/ DelBlock(p) \/ Look(p) \/ Test(p) \/ Post(p) \/ Take(p)
  BY <1>10 DEF DelPlace, DelBlock, Look, Test, Post, Take, Calm, CalmStep
<1>11. QED
  BY <1>1, <1>2, <1>3, <1>4, <1>6, <1>7, <1>8, <1>9, <1>10 DEF Step

\* plc_module_shutdown of a module that is up: SIGTERM to that module, no other.
LEMMA KillHits ==
  ASSUME Typed, Ordered, NEW p \in Proc, Kill(p), Calm'
  PROVE  /\ Quiet(Proc \ {p})
         /\ UNCHANGED <<in_use, tokens, block>>
         /\ \E q \in Proc :
              /\ pc[q] \in Up /\ mod[q].name = call[p].name
              /\ pc' = [[pc EXCEPT ![p] = "ready"] EXCEPT ![q] = "del_place"]
              /\ \A r \in Proc : pc[r] \in Busy \cup Up => mod'[r] = mod[r]
              /\ call' = [r \in Proc |-> IF r \in {p, q} THEN NoCall ELSE call[r]]
              /\ last' = [k \in DOMAIN last |-> IF k = mod[q].name THEN "none" ELSE last[k]]
<1>1. PICK q \in Proc : pc[q] \in Up /\ mod[q].name = call[p].name /\ mod[q].shm = call[p].shm
  BY DEF Kill, Ordered, Finding, CallsFound
<1>2. block[call[p].shm].pid = q /\ Alive(q) /\ q # NoPid
  BY <1>1, ConstantsAssumption
  DEF Ordered, Registry, BlocksNamed, HasBlock, HasPlace, Alive, Up, InCall
<1> DEFINE hit == IF block[call[p].shm].pid = NoPid THEN {r \in Proc : Alive(r)}
                  ELSE {block[call[p].shm].pid} \cap {r \in Proc : Alive(r)}
           back == [pc EXCEPT ![p] = "ready"]
<1>3. hit = {q}
  BY <1>2
<1>4. /\ pc' = [r \in Proc |-> IF r \in hit THEN Signalled(r, back) ELSE back[r]]
      /\ mod' = [r \in Proc |-> IF pc'[r] = "gone" THEN NoModule ELSE mod[r]]
      /\ call' = [r \in Proc |-> IF r = p \/ r \in hit THEN NoCall ELSE call[r]]
      /\ hist' = [hist EXCEPT !.serial = @ /\ block[call[p].shm].pid # NoPid /\ Quiet(Proc \ {p}),
                              !.died = @ \/ \E r \in hit : pc[r] \notin Up]
      /\ Note([k \in DOMAIN last |-> IF \E r \in hit : mod[r].name = k THEN "none" ELSE last[k]])
      /\ UNCHANGED <<in_use, tokens, block>> /\ pc[p] = "kill"
  BY <1>3 DEF Kill
<1> HIDE DEF hit
<1>5. Quiet(Proc \ {p})
  BY <1>4 DEF Calm, Typed, TypeOK
<1>6. pc \in [Proc -> {"off", "gone"} \cup InInit \cup InDone \cup Up]
  BY DEF Typed, TypeOK
<1>7. pc' = [[pc EXCEPT ![p] = "ready"] EXCEPT ![q] = "del_place"]
  <2>1. Signalled(q, back) = "del_place"
    BY <1>1, <1>2 DEF Signalled
  <2>2. \A r \in Proc : pc'[r] = IF r = q THEN "del_place" ELSE back[r]
    BY <1>3, <1>4, <2>1
  <2>3. pc' = [r \in Proc |-> IF r = q THEN "del_place" ELSE back[r]]
    BY <1>3, <1>4, <2>1
  <2>4. QED
    BY <1>6, <2>3
<1>8. ASSUME NEW r \in Proc, pc[r] \in Busy \cup Up PROVE mod'[r] = mod[r]
  <2>1. pc'[r] # "gone"
    BY <1>6, <1>7, <1>8 DEF Busy, InInit, InDone, Up, InCall
  <2>2. QED
    BY <1>4, <2>1
<1>9. call' = [r \in Proc |-> IF r \in {p, q} THEN NoCall ELSE call[r]]
  BY <1>3, <1>4
<1>10. last' = [k \in DOMAIN last |-> IF k = mod[q].name THEN "none" ELSE last[k]]
  BY <1>3, <1>4 DEF Note
<1>11. QED
  BY <1>1, <1>4, <1>5, <1>7, <1>8, <1>9, <1>10

\* How a step that is not a SIGTERM moves its process, and nobody else.
Moves(p, w) ==
  /\ pc' = [pc EXCEPT ![p] = w]
  /\ \/ Quiet(Proc) /\ pc[p] \in {"off", "ready"} /\ w \in Busy
     \/ pc[p] \in Busy /\ w \in Busy \cup {"ready", "gone"}
     \/ Settled(Proc) /\ pc[p] = "ready" /\ w \in InCall
     \/ pc[p] \in InCall /\ w \in Up

LEMMA MovesOne ==
  ASSUME Typed, NEW p \in Proc, CalmStep(p), ~Kill(p)
  PROVE  \E w : Moves(p, w)
<1>0. pc \in [Proc -> {"off", "gone"} \cup InInit \cup InDone \cup Up]
  BY DEF Typed, TypeOK
<1>1. CASE \E n \in Name : Start(p, n) /\ Quiet(Proc)
  BY <1>1 DEF Start, Go, Moves, Busy, InInit
<1>2. CASE \E force_init \in BOOLEAN : Check(p, force_init)
  BY <1>2 DEF Check, Go, End, Moves, Busy, InInit
<1>3. CASE Alloc(p) \/ SetPidAddPlace(p) \/ Undo(p) \/ Store(p)
  BY <1>3 DEF Alloc, SetPidAddPlace, Undo, Store, Go, End, Moves, Busy, InInit
<1>4. CASE Mode(p) \/ Activate(p)
  BY <1>4 DEF Mode, Activate, Go, Moves, Busy, InInit
<1>5. CASE Done(p) /\ Quiet(Proc)
  BY <1>5 DEF Done, Go, Moves, Busy, InDone
<1>6. CASE DelPlace(p) \/ DelBlock(p)
  BY <1>6 DEF DelPlace, DelBlock, Go, End, Moves, Busy, InDone
<1>7. CASE \E op \in {"run", "stop", "shutdown"}, k \in Name \cup {PLC} : Call(p, op, k) /\ Settled(Proc)
  BY <1>7 DEF Call, Go, Moves, InCall
<1>8. CASE Look(p) \/ Test(p) \/ Post(p)
  BY <1>8 DEF Look, Test, Post, Return, Go, Moves, InCall, Up
<1>9. CASE Take(p)
  <2>1. pc' = [pc EXCEPT ![p] = "take"] \/ pc' = [pc EXCEPT ![p] = "ready"]
    BY <1>0, <1>9 DEF Take, Return, Go
  <2>2. QED
    BY <1>9, <2>1 DEF Take, Moves, InCall, Up
<1>10. QED
  BY <1>1, <1>2, <1>3, <1>4, <1>5, <1>6, <1>7, <1>8, <1>9 DEF CalmStep

\* Starts, ends and calls begin only when that keeps them apart.
LEMMA OneAtATimeStep ==
  ASSUME Typed, Ordered, NEW p \in Proc, CalmStep(p), Calm'
  PROVE  OneAtATime'
<1>0. pc \in [Proc -> {"off", "gone"} \cup InInit \cup InDone \cup Up]
  BY DEF Typed, TypeOK
<1>1. CASE Kill(p)
  <2>1. PICK q \in Proc : pc' = [[pc EXCEPT ![p] = "ready"] EXCEPT ![q] = "del_place"]
    BY <1>1, KillHits
  <2>2. Quiet(Proc \ {p})
    BY <1>1, KillHits
  <2>3. QED
    BY <1>0, <2>1, <2>2 DEF Quiet, OneAtATime, Busy, InInit, InDone, InCall
<1>2. CASE ~Kill(p)
  <2>1. PICK w : Moves(p, w)
    BY <1>2, MovesOne
  <2>2. \A q \in Proc : q # p => pc'[q] = pc[q]
    BY <1>0, <2>1 DEF Moves
  <2>3. pc'[p] = w
    BY <1>0, <2>1 DEF Moves
  <2>4. CASE Quiet(Proc) /\ pc[p] \in {"off", "ready"} /\ w \in Busy
    BY <2>2, <2>3, <2>4 DEF Quiet, OneAtATime, Busy
  <2>5. CASE pc[p] \in Busy
    BY <2>2, <2>3, <2>5 DEF Ordered, OneAtATime
  <2>6. CASE Settled(Proc) /\ pc[p] = "ready" /\ w \in InCall
    BY <2>2, <2>3, <2>6 DEF Settled, OneAtATime, Busy, InInit, InDone, InCall
  <2>7. CASE pc[p] \in InCall /\ w \in Up
    BY <2>2, <2>3, <2>7 DEF Ordered, OneAtATime, Busy, InInit, InDone, InCall, Up
  <2>8. QED
    BY <2>1, <2>4, <2>5, <2>6, <2>7 DEF Moves
<1>3. QED
  BY <1>1, <1>2

\* The variables of a module do not change from the end of state_init to the
\* end of state_done, and its name is that it was started with.
LEMMA ModsKept ==
  ASSUME Typed, Ordered, NEW p \in Proc, CalmStep(p), Calm'
  PROVE  /\ \A q \in Proc : q # p /\ pc[q] \in Busy \cup Up => mod'[q] = mod[q]
         /\ pc[p] \in Up => mod'[p] = mod[p]
         /\ pc[p] # "off" /\ pc'[p] \in Busy \cup Up => mod'[p].name = mod[p].name
<1>0. /\ pc \in [Proc -> {"off", "gone"} \cup InInit \cup InDone \cup Up]
      /\ mod \in [Proc -> Module]
  BY DEF Typed, TypeOK, Module
<1>1. CASE \E n \in Name : Start(p, n) /\ Quiet(Proc)
  BY <1>0, <1>1 DEF Start, Up, InCall
<1>2. CASE \E force_init \in BOOLEAN : Check(p, force_init)
  BY <1>0, <1>2 DEF Check, Go, End, Busy, InInit, InDone, Up, InCall
<1>3. CASE Alloc(p)
  BY <1>0, <1>3 DEF Alloc, Go, End, Busy, InInit, InDone, Up, InCall, Module
<1>4. CASE SetPidAddPlace(p)
  BY <1>0, <1>4 DEF SetPidAddPlace, Go, Up, InCall, Module
<1>5. CASE Undo(p) \/ DelBlock(p)
  BY <1>0, <1>5 DEF Undo, DelBlock, Go, End, Busy, InInit, InDone, Up, InCall
<1>6. CASE Store(p) \/ Mode(p) \/ Activate(p) \/ Done(p) \/ DelPlace(p)
  BY <1>6 DEF Store, Mode, Activate, Done, DelPlace
<1>7. CASE \E op \in {"run", "stop", "shutdown"}, k \in Name \cup {PLC} : Call(p, op, k)
  BY <1>7 DEF Call
<1>8. CASE Look(p) \/ Test(p) \/ Post(p) \/ Take(p)
  BY <1>8 DEF Look, Test, Post, Take
<1>9. CASE Kill(p)
  <2>1. \A r \in Proc : pc[r] \in Busy \cup Up => mod'[r] = mod[r]
    BY <1>9, KillHits
  <2>2. pc[p] = "kill"
    BY <1>9 DEF Kill
  <2>3. QED
    BY <2>1, <2>2 DEF Up, InCall
<1>10. QED
  BY <1>1, <1>2, <1>3, <1>4, <1>5, <1>6, <1>7, <1>8, <1>9 DEF CalmStep

\* Who is inside or past state_init was so before, or is starting; a process
\* that is up was up, or ends its state_init.
LEMMA WhoIsIn ==
  ASSUME Typed, Ordered, NEW p \in Proc, CalmStep(p), Calm'
  PROVE  /\ \A q \in Proc : q # p /\ pc'[q] \in Busy \cup Up => pc[q] \in Busy \cup Up
         /\ \A q \in Proc : q # p /\ pc[q] \in Up /\ pc'[q] \notin Up =>
              pc'[q] = "del_place" /\ Kill(p)
         /\ \A q \in Proc : pc'[q] \in InCall => q = p \/ pc'[q] = pc[q]
         /\ \A q \in Proc : q # p => pc'[q] = pc[q] \/ (pc[q] = "ready" /\ pc'[q] = "del_place" /\ Kill(p))
<1>0. pc \in [Proc -> {"off", "gone"} \cup InInit \cup InDone \cup Up]
  BY DEF Typed, TypeOK
<1>1. CASE Kill(p)
  <2>1. PICK q \in Proc : pc[q] \in Up /\ pc' = [[pc EXCEPT ![p] = "ready"] EXCEPT ![q] = "del_place"]
    BY <1>1, KillHits
  <2>2. Quiet(Proc \ {p}) /\ pc[p] = "kill"
    BY <1>1, KillHits DEF Kill
  <2>3. \A r \in Proc : r # p /\ r = q => pc[r] = "ready" /\ pc'[r] = "del_place"
    BY <1>0, <2>1, <2>2 DEF Quiet, Up
  <2>4. \A r \in Proc : r # p /\ r # q => pc'[r] = pc[r]
    BY <1>0, <2>1
  <2>5. pc'[p] \in {"ready", "del_place"}
    BY <1>0, <2>1
  <2>6. QED
    BY <1>1, <2>3, <2>4, <2>5 DEF Busy, InDone, InCall, Up
<1>2. CASE ~Kill(p)
  <2>1. PICK w : Moves(p, w)
    BY <1>2, MovesOne
  <2>2. \A q \in Proc : q # p => pc'[q] = pc[q]
    BY <1>0, <2>1 DEF Moves
  <2>3. QED
    BY <2>2
<1>3. QED
  BY <1>1, <1>2

LEMMA NamesProperStep ==
  ASSUME Typed, Ordered, NEW p \in Proc, CalmStep(p), Calm'
  PROVE  NamesProper'
<1>0. pc \in [Proc -> {"off", "gone"} \cup InInit \cup InDone \cup Up] /\ mod \in [Proc -> Module]
  BY DEF Typed, TypeOK, Module
<1>1. ASSUME NEW q \in Proc, pc'[q] \in Busy \cup Up, q # p PROVE mod'[q].name \in Name
  BY <1>1, ModsKept, WhoIsIn DEF Ordered, Registry, NamesProper
<1>2. ASSUME pc'[p] \in Busy \cup Up PROVE mod'[p].name \in Name
  <2>1. CASE pc[p] = "off"
    <3>1. PICK n \in Name : Start(p, n)
      BY <2>1
      DEF CalmStep, Check, Alloc, SetPidAddPlace, Undo, Store, Mode, Activate, Done, DelPlace,
          DelBlock, Call, Look, Test, Post, Take, Kill
    <3>2. QED
      BY <1>0, <3>1 DEF Start
  <2>2. CASE pc[p] # "off"
    <3>1. mod'[p].name = mod[p].name
      BY <1>2, <2>2, ModsKept
    <3>2. CASE Kill(p)
      BY <3>1, <3>2 DEF Kill, Ordered, Registry, NamesProper, Up, InCall
    <3>3. CASE ~Kill(p)
      <4>1. pc[p] \in Busy \cup Up
        BY <2>2, <3>3, MovesOne DEF Moves, Up
      <4>2. QED
        BY <3>1, <4>1 DEF Ordered, Registry, NamesProper
    <3>4. QED
      BY <3>2, <3>3
  <2>3. QED
    BY <2>1, <2>2
<1>3. QED
  BY <1>1, <1>2 DEF NamesProper

LEMMA FindInMember == ASSUME NEW S \in SUBSET Slot, S # {} PROVE FindIn(S) \in S
<1>1. S \in SUBSET Nat
  BY ConstantsAssumption
<1>2. \E i \in S : \A j \in S : i <= j
  BY <1>1, LeastExists
<1>3. QED
  BY <1>2 DEF FindIn

\* A block that cmm_block_find finds is that of a process of that name, and
\* there is no such process when it finds none.
LEMMA Found ==
  ASSUME Owned, Registry, NEW n
  PROVE  /\ Find(n) # NoSlot =>
              \E q \in Proc : HasBlock(q) /\ mod[q].shm = Find(n) /\ mod[q].name = n
         /\ Find(n) = NoSlot => \A q \in Proc : HasBlock(q) => mod[q].name # n
<1>1. Named(n) \in SUBSET Slot /\ NoSlot \notin Slot
  BY ConstantsAssumption DEF Named, NoSlot
<1>2. CASE Named(n) = {}
  <2>1. Find(n) = NoSlot
    BY <1>2 DEF Find, FindIn
  <2>2. \A q \in Proc : HasBlock(q) => mod[q].name # n
    BY <1>2 DEF Named, Owned, BlocksUsed, Registry, BlocksNamed
  <2>3. QED
    BY <2>1, <2>2
<1>3. CASE Named(n) # {}
  <2>1. Find(n) \in Named(n)
    BY <1>1, <1>3, FindInMember DEF Find
  <2>2. PICK q \in Proc : HasBlock(q) /\ mod[q].shm = Find(n)
    BY <2>1 DEF Named, Registry, BlocksOwned
  <2>3. mod[q].name = n
    BY <2>1, <2>2 DEF Named, Registry, BlocksNamed
  <2>4. QED
    BY <1>1, <2>1, <2>2, <2>3 DEF Named
<1>4. QED
  BY <1>2, <1>3

\* A process that has a block and is not inside state_init or state_done is up.
LEMMA SettledIsUp ==
  ASSUME NEW q \in Proc, HasBlock(q), pc[q] \notin Busy
  PROVE  pc[q] \in Up
  BY DEF HasBlock, HasPlace, Busy, InInit, InDone

\* A second process of a name that is up does not get past the check.
LEMMA CheckRefuses ==
  ASSUME Typed, Ordered, NEW p \in Proc, NEW force_init, Check(p, force_init)
  PROVE  pc' = [pc EXCEPT ![p] = "gone"] \/ pc' = [pc EXCEPT ![p] = "force"]
<1>1. PICK q \in Proc : pc[q] \in Up /\ mod[q].shm = mod[p].shm
  BY DEF Check, Ordered, Finding, ChecksLive
<1>2. block[mod[q].shm].pid = q
  BY <1>1 DEF Ordered, Registry, BlocksNamed, HasBlock, HasPlace, Up, InCall
<1>3. Alive(q)
  BY <1>1 DEF Alive, Up, InCall
<1>4. Exists(block[mod[p].shm].pid)
  BY <1>1, <1>2, <1>3 DEF Exists
<1>5. QED
  BY <1>4 DEF Check, End, Go

LEMMA NamesDifferStep ==
  ASSUME Typed, Ordered, NEW p \in Proc, CalmStep(p), Calm'
  PROVE  NamesDiffer'
<1>0. pc \in [Proc -> {"off", "gone"} \cup InInit \cup InDone \cup Up] /\ mod \in [Proc -> Module]
  BY DEF Typed, TypeOK, Module
<1>1. CASE \E n \in Name : Start(p, n) /\ Quiet(Proc)
  <2>1. PICK n \in Name : Start(p, n) /\ Quiet(Proc)
    BY <1>1
  <2>2. \A q \in Proc : q # p => (Registered(q)' <=> HasBlock(q)) /\ mod'[q] = mod[q]
    BY <1>0, <2>1 DEF Start, Go, Quiet, Registered, HasBlock, HasPlace, InInit, Up, InCall
  <2>3. Registered(p)' => Find(n) = NoSlot /\ mod'[p].name = n
    BY <1>0, <2>1 DEF Start, Go, Registered, HasBlock, HasPlace, Up, InCall
  <2>4. Registered(p)' => \A q \in Proc : HasBlock(q) => mod[q].name # n
    BY <2>3, Found DEF Ordered
  <2>5. \A q \in Proc : HasBlock(q) => Registered(q)
    BY DEF Registered
  <2>6. QED
    BY <2>2, <2>3, <2>4, <2>5 DEF Ordered, Registry, NamesDiffer
<1>2. CASE ~(\E n \in Name : Start(p, n) /\ Quiet(Proc))
  <2>1. \A q \in Proc : Registered(q)' => Registered(q)
    <3>1. \A q \in Proc : q # p => (Registered(q)' => Registered(q))
      BY WhoIsIn DEF Registered, HasBlock, HasPlace, Up
    <3>2. Registered(p)' => Registered(p)
      <4>1. CASE \E force_init \in BOOLEAN : Check(p, force_init)
        BY <1>0, <4>1, CheckRefuses DEF Registered, HasBlock, HasPlace, Up, InCall
      <4>2. CASE Alloc(p) \/ SetPidAddPlace(p) \/ Undo(p) \/ Store(p) \/ Mode(p) \/ Activate(p)
        BY <4>2 DEF Alloc, SetPidAddPlace, Undo, Store, Mode, Activate, Registered, HasBlock, HasPlace
      <4>3. CASE Done(p) \/ DelPlace(p) \/ DelBlock(p)
        BY <4>3 DEF Done, DelPlace, DelBlock, Registered, HasBlock, HasPlace, Up
      <4>4. CASE \/ \E op \in {"run", "stop", "shutdown"}, k \in Name \cup {PLC} : Call(p, op, k)
                 \/ Look(p) \/ Test(p) \/ Post(p) \/ Take(p) \/ Kill(p)
        BY <4>4 DEF Call, Look, Test, Post, Take, Kill, Registered, HasBlock, HasPlace, Up, InCall
      <4>5. QED
        BY <1>2, <4>1, <4>2, <4>3, <4>4 DEF CalmStep
    <3>3. QED
      BY <3>1, <3>2
  <2>2. \A q \in Proc : Registered(q)' => mod'[q].name = mod[q].name
    <3>1. \A q \in Proc : Registered(q) => pc[q] \in Busy \cup Up
      BY DEF Registered, HasBlock, HasPlace, Busy, InInit, InDone
    <3>2. Registered(p)' => pc'[p] \in Busy \cup Up
      BY DEF Registered, HasBlock, HasPlace, Busy, InInit, InDone
    <3>3. Registered(p) => pc[p] # "off"
      BY DEF Registered, HasBlock, HasPlace, Up, InCall
    <3>4. QED
      BY <2>1, <3>1, <3>2, <3>3, ModsKept
  <2>3. QED
    BY <2>1, <2>2 DEF Ordered, Registry, NamesDiffer
<1>3. QED
  BY <1>1, <1>2

\* Steps that leave the blocks alone leave everybody his block.
LEMMA BlocksStill ==
  ASSUME Typed, Ordered, NEW p \in Proc, CalmStep(p), Calm',
         ~Alloc(p), ~SetPidAddPlace(p), ~Undo(p), ~Store(p), ~DelBlock(p)
  PROVE  /\ block' = block
         /\ \A q \in Proc : /\ HasBlock(q)' <=> HasBlock(q)
                            /\ HasBlock(q) => mod'[q] = mod[q] /\ pc'[q] # "pid" /\ pc[q] # "pid"
                            /\ pc'[q] = "store" => pc[q] = "store"
<1>0. /\ pc \in [Proc -> {"off", "gone"} \cup InInit \cup InDone \cup Up]
      /\ mod \in [Proc -> Module]
  BY DEF Typed, TypeOK, Module
<1>1. CASE \E n \in Name : Start(p, n) /\ Quiet(Proc)
  BY <1>0, <1>1 DEF Start, Go, Quiet, HasBlock, HasPlace, Up, InCall, InInit, InDone
<1>2. CASE \E force_init \in BOOLEAN : Check(p, force_init)
  <2>1. block' = block /\ pc[p] = "check" /\ (\A q \in Proc : q # p => mod'[q] = mod[q])
    BY <1>0, <1>2 DEF Check, End
  <2>2. pc' = [pc EXCEPT ![p] = "gone"] \/ pc' = [pc EXCEPT ![p] = "force"]
    BY <1>2, CheckRefuses
  <2>3. \A q \in Proc : q # p => pc[q] \notin Busy
    BY <2>1 DEF Ordered, OneAtATime, Busy, InInit
  <2>4. QED
    BY <1>0, <2>1, <2>2, <2>3 DEF HasBlock, HasPlace, Up, InCall, Busy, InInit, InDone
<1>3. CASE Mode(p) \/ Activate(p) \/ DelPlace(p)
  <2>1. pc[p] \in Busy \ {"pid"} /\ block' = block /\ mod' = mod
    BY <1>3 DEF Mode, Activate, DelPlace, Busy, InInit, InDone
  <2>2. \A q \in Proc : q # p => pc[q] \notin Busy
    BY <2>1 DEF Ordered, OneAtATime
  <2>3. QED
    BY <1>0, <1>3, <2>1, <2>2
    DEF Mode, Activate, DelPlace, Go, HasBlock, HasPlace, Up, InCall, Busy, InInit, InDone
<1>4. CASE Done(p) /\ Quiet(Proc)
  BY <1>0, <1>4 DEF Done, Go, Quiet, HasBlock, HasPlace, Up, InCall, InInit, InDone
<1>5. CASE \E op \in {"run", "stop", "shutdown"}, k \in Name \cup {PLC} : Call(p, op, k) /\ Settled(Proc)
  BY <1>0, <1>5 DEF Call, Go, Settled, HasBlock, HasPlace, Up, InCall, InInit, InDone
<1>6. CASE Look(p) \/ Test(p) \/ Post(p) \/ Take(p)
  <2>1. pc[p] \in InCall /\ block' = block /\ mod' = mod
    BY <1>6 DEF Look, Test, Post, Take, InCall
  <2>2. \A q \in Proc : pc[q] \notin Busy
    BY <2>1 DEF Ordered, OneAtATime, Busy, InInit, InDone, InCall
  <2>3. \A q \in Proc : q # p => pc'[q] = pc[q]
    BY <1>0, <1>6, <2>1 DEF Look, Test, Post, Take, Go, Return
  <2>4. pc'[p] \in Up
    BY <1>0, <1>6, <2>1 DEF Look, Test, Post, Take, Go, Return, Up, InCall
  <2>5. QED
    BY <2>1, <2>2, <2>3, <2>4 DEF HasBlock, HasPlace, Up, InCall, Busy, InInit, InDone
<1>7. CASE Kill(p)
  <2>1. block' = block /\ (\A r \in Proc : pc[r] \in Busy \cup Up => mod'[r] = mod[r])
    BY <1>7, KillHits
  <2>2. PICK q \in Proc : pc[q] \in Up /\ pc' = [[pc EXCEPT ![p] = "ready"] EXCEPT ![q] = "del_place"]
    BY <1>7, KillHits
  <2>3. pc[p] = "kill" /\ Quiet(Proc \ {p})
    BY <1>7, KillHits DEF Kill
  <2>4. \A r \in Proc : pc[r] \notin Busy
    BY <2>3 DEF Quiet, Busy, InInit, InDone
  <2>5. \A r \in Proc : r # p /\ r # q => pc'[r] = pc[r]
    BY <1>0, <2>2
  <2>6. /\ pc'[p] \in {"ready", "del_place"} /\ pc'[q] \in {"ready", "del_place"}
        /\ pc[p] \in Up /\ pc[q] \in Up
    BY <1>0, <2>2, <2>3 DEF Up, InCall
  <2>7. QED
    BY <2>1, <2>4, <2>5, <2>6 DEF HasBlock, HasPlace, Up, InCall, Busy, InInit, InDone
<1>8. QED
  BY <1>1, <1>2, <1>3, <1>4, <1>5, <1>6, <1>7 DEF CalmStep

LEMMA BlocksStep ==
  ASSUME Typed, Ordered, NEW p \in Proc, CalmStep(p), Calm'
  PROVE  BlocksNamed' /\ BlocksOwned'
<1>0. /\ pc \in [Proc -> {"off", "gone"} \cup InInit \cup InDone \cup Up]
      /\ mod \in [Proc -> Module] /\ block \in [Slot -> Block]
  BY DEF Typed, TypeOK, Module, Block
<1>1. CASE ~Alloc(p) /\ ~SetPidAddPlace(p) /\ ~Undo(p) /\ ~Store(p) /\ ~DelBlock(p)
  BY <1>1, BlocksStill DEF Ordered, Registry, BlocksNamed, BlocksOwned
<1>2. CASE Alloc(p)
  <2>1. \A q \in Proc : q # p => mod'[q] = mod[q] /\ pc'[q] = pc[q]
    BY <1>0, <1>2 DEF Alloc, Go, End
  <2>2. \A q \in Proc : q # p => (HasBlock(q)' <=> HasBlock(q))
    BY <2>1 DEF HasBlock, HasPlace
  <2>3. ~HasBlock(p)
    BY <1>2 DEF Alloc, HasBlock, HasPlace, Up, InCall
  <2>4. CASE block' = block /\ pc' = [pc EXCEPT ![p] = "gone"]
    <3>1. ~HasBlock(p)'
      BY <1>0, <2>4 DEF HasBlock, HasPlace, Up, InCall
    <3>2. QED
      BY <2>1, <2>2, <2>3, <2>4, <3>1 DEF Ordered, Registry, BlocksNamed, BlocksOwned
  <2>5. ASSUME NEW s \in Slot, ~block[s].used,
               block' = [block EXCEPT ![s] = [used |-> TRUE, name |-> mod[p].name,
                                              pid |-> NoPid, place |-> Shared]],
               mod' = [mod EXCEPT ![p].shm = s], pc' = [pc EXCEPT ![p] = "pid"]
        PROVE  BlocksNamed' /\ BlocksOwned'
    <3>1. \A q \in Proc : HasBlock(q) => mod[q].shm # s /\ mod[q].shm \in Slot
      BY <2>5 DEF Ordered, Owned, BlocksUsed
    <3>2. mod'[p].shm = s /\ mod'[p].name = mod[p].name /\ pc'[p] = "pid"
      BY <1>0, <2>5 DEF Module
    <3>3. block'[s].name = mod[p].name /\ \A t \in Slot : t # s => block'[t] = block[t]
      BY <1>0, <2>5
    <3>4. HasBlock(p)'
      BY <3>2 DEF HasBlock
    <3>5. BlocksNamed'
      BY <2>1, <2>2, <3>1, <3>2, <3>3 DEF Ordered, Registry, BlocksNamed
    <3>6. BlocksOwned'
      BY <2>1, <2>2, <2>3, <3>2, <3>3, <3>4 DEF Ordered, Registry, BlocksOwned
    <3>7. QED
      BY <3>5, <3>6
  <2>6. QED
    BY <1>2, <2>4, <2>5 DEF Alloc, Go, End
<1>3. CASE SetPidAddPlace(p) \/ Store(p)
  <2>1. /\ \A q \in Proc : q # p => mod'[q] = mod[q] /\ pc'[q] = pc[q]
        /\ mod'[p].shm = mod[p].shm /\ mod'[p].name = mod[p].name
    BY <1>0, <1>3 DEF SetPidAddPlace, Store, Go, Module
  <2>2. HasBlock(p) /\ HasBlock(p)' /\ pc'[p] # "pid"
    BY <1>0, <1>3 DEF SetPidAddPlace, Store, Go, HasBlock, HasPlace
  <2>3. \A q \in Proc : HasBlock(q)' <=> HasBlock(q)
    BY <2>1, <2>2 DEF HasBlock, HasPlace
  <2>4. mod[p].shm \in Slot /\ \A q \in Proc : HasBlock(q) /\ q # p => mod[q].shm # mod[p].shm
    BY <2>2 DEF Ordered, Owned, BlocksUsed, BlocksDiffer
  <2>5. \A t \in Slot : /\ block'[t].name = block[t].name /\ block'[t].used = block[t].used
                        /\ t # mod[p].shm => block'[t].pid = block[t].pid
    BY <1>0, <1>3 DEF SetPidAddPlace, Store, Block
  <2>6. block'[mod[p].shm].pid = p
    <3>1. CASE SetPidAddPlace(p)
      BY <1>0, <2>4, <3>1 DEF SetPidAddPlace, Block
    <3>2. CASE Store(p)
      BY <1>0, <2>2, <2>4, <3>2 DEF Store, Block, Ordered, Registry, BlocksNamed
    <3>3. QED
      BY <1>3, <3>1, <3>2
  <2>7. BlocksNamed'
    <3>1. ASSUME NEW q \in Proc, HasBlock(q)', q # p
          PROVE  block'[mod'[q].shm].name = mod'[q].name /\ (pc'[q] # "pid" => block'[mod'[q].shm].pid = q)
      BY <2>1, <2>3, <2>4, <2>5, <3>1 DEF Ordered, Registry, BlocksNamed, Owned, BlocksUsed
    <3>2. block'[mod'[p].shm].name = mod'[p].name /\ block'[mod'[p].shm].pid = p
      BY <2>1, <2>2, <2>4, <2>5, <2>6 DEF Ordered, Registry, BlocksNamed
    <3>3. QED
      BY <3>1, <3>2 DEF BlocksNamed
  <2>8. BlocksOwned'
    BY <2>1, <2>3, <2>5 DEF Ordered, Registry, BlocksOwned
  <2>9. QED
    BY <2>7, <2>8
<1>4. CASE Undo(p) \/ DelBlock(p)
  <2>1. /\ pc' = [pc EXCEPT ![p] = "gone"] /\ block' = Freed(mod[p].shm) /\ HasBlock(p)
        /\ \A q \in Proc : q # p => mod'[q] = mod[q]
    BY <1>0, <1>4 DEF Undo, DelBlock, End, Go, HasBlock
  <2>2. ~HasBlock(p)' /\ \A q \in Proc : q # p => (HasBlock(q)' <=> HasBlock(q)) /\ pc'[q] = pc[q]
    BY <1>0, <2>1 DEF HasBlock, HasPlace, Up, InCall
  <2>3. /\ mod[p].shm \in Slot /\ ~block'[mod[p].shm].used
        /\ \A t \in Slot : t # mod[p].shm => block'[t] = block[t]
    BY <1>0, <2>1 DEF Freed, Block, Ordered, Owned, BlocksUsed
  <2>4. \A q \in Proc : HasBlock(q) /\ q # p => mod[q].shm # mod[p].shm /\ mod[q].shm \in Slot
    BY <2>1 DEF Ordered, Owned, BlocksUsed, BlocksDiffer
  <2>5. BlocksNamed'
    BY <2>1, <2>2, <2>3, <2>4 DEF Ordered, Registry, BlocksNamed
  <2>6. BlocksOwned'
    BY <2>1, <2>2, <2>3, <2>4 DEF Ordered, Registry, BlocksOwned
  <2>7. QED
    BY <2>5, <2>6
<1>5. QED
  BY <1>1, <1>2, <1>3, <1>4

\* While somebody else is inside a call, or the process itself is and does not
\* send a signal, or begins one, whoever is up stays up.
LEMMA UpStays ==
  ASSUME Typed, Ordered, NEW p \in Proc, CalmStep(p), Calm',
         \/ \E r \in Proc : r # p /\ pc[r] \in InCall
         \/ pc[p] \in InCall /\ ~Kill(p)
         \/ \E op, k : Call(p, op, k)
  PROVE  \A q \in Proc : pc[q] \in Up => pc'[q] \in Up /\ mod'[q] = mod[q]
<1>1. ~Kill(p)
  <2>1. ASSUME Kill(p), NEW r \in Proc, r # p, pc[r] \in InCall PROVE FALSE
    BY <2>1, KillHits DEF Quiet
  <2>2. ASSUME Kill(p), NEW op, NEW k, Call(p, op, k) PROVE FALSE
    BY <2>2 DEF Kill, Call
  <2>3. QED
    BY <2>1, <2>2
<1>2. ASSUME NEW q \in Proc, pc[q] \in Up, q # p PROVE pc'[q] \in Up /\ mod'[q] = mod[q]
  BY <1>1, <1>2, WhoIsIn, ModsKept
<1>3. ASSUME pc[p] \in Up PROVE pc'[p] \in Up /\ mod'[p] = mod[p]
  <2>1. pc \in [Proc -> {"off", "gone"} \cup InInit \cup InDone \cup Up]
    BY DEF Typed, TypeOK
  <2>2. PICK w : Moves(p, w)
    BY <1>1, MovesOne
  <2>3. ~(Quiet(Proc) /\ pc[p] \in {"off", "ready"} /\ w \in Busy)
    <3>1. CASE (\E r \in Proc : r # p /\ pc[r] \in InCall) \/ pc[p] \in InCall
      BY <3>1 DEF Quiet
    <3>2. CASE \E op, k : Call(p, op, k)
      <4>1. pc'[p] \in InCall
        BY <2>1, <3>2 DEF Call, Go, InCall
      <4>2. pc'[p] = w
        BY <2>1, <2>2 DEF Moves
      <4>3. QED
        BY <4>1, <4>2 DEF Busy, InInit, InDone, InCall
    <3>3. QED
      BY <1>1, <3>1, <3>2
  <2>4. pc'[p] = w /\ w \in Up
    BY <1>3, <2>1, <2>2, <2>3 DEF Moves, Busy, InInit, InDone, InCall, Up
  <2>5. QED
    BY <1>3, <2>4, ModsKept
<1>4. QED
  BY <1>2, <1>3

\* Nobody is up that was not, but the process that ends its state_init.
LEMMA UpBefore ==
  ASSUME Typed, Ordered, NEW p \in Proc, CalmStep(p), Calm',
         NEW q \in Proc, pc'[q] \in Up
  PROVE  \/ pc[q] \in Up /\ mod'[q] = mod[q]
         \/ q = p /\ (Mode(p) \/ Activate(p))
<1>0. pc \in [Proc -> {"off", "gone"} \cup InInit \cup InDone \cup Up]
  BY DEF Typed, TypeOK
<1>1. CASE q # p
  BY <1>1, WhoIsIn, ModsKept DEF Up
<1>2. CASE q = p /\ pc[p] \in Up
  BY <1>2, ModsKept
<1>3. CASE q = p /\ pc[p] \notin Up
  <2>1. ~Kill(p)
    BY <1>3 DEF Kill, Up, InCall
  <2>2. PICK w : Moves(p, w)
    BY <2>1, MovesOne
  <2>3. pc'[p] = w /\ pc[p] \in Busy /\ pc'[p] = "ready"
    BY <1>0, <1>3, <2>2 DEF Moves, Busy, InInit, InDone, InCall, Up
  <2>4. Mode(p) \/ Activate(p)
    BY <1>0, <2>3
    DEF CalmStep, Start, Check, Alloc, SetPidAddPlace, Undo, Store, Done, DelPlace, DelBlock,
        Call, Look, Test, Post, Take, Kill, Go, End, Busy, InInit, InDone
  <2>5. QED
    BY <1>3, <2>4
<1>4. QED
  BY <1>1, <1>2, <1>3

LEMMA ChecksLiveStep ==
  ASSUME Typed, Ordered, NEW p \in Proc, CalmStep(p), Calm'
  PROVE  ChecksLive'
<1>0. /\ pc \in [Proc -> {"off", "gone"} \cup InInit \cup InDone \cup Up]
      /\ mod \in [Proc -> Module]
  BY DEF Typed, TypeOK, Module
<1> SUFFICES ASSUME NEW r \in Proc, pc'[r] = "check"
             PROVE  \E q \in Proc : pc'[q] \in Up /\ mod'[q].shm = mod'[r].shm
  BY DEF ChecksLive
<1>1. CASE \E n \in Name : Start(p, n) /\ Quiet(Proc)
  <2>1. PICK n \in Name : Start(p, n) /\ Quiet(Proc)
    BY <1>1
  <2>2. r = p
    BY <1>0, <2>1 DEF Start, Go, Quiet, InInit
  <2>3. Find(n) # NoSlot /\ mod'[p].shm = Find(n)
    BY <1>0, <2>1, <2>2 DEF Start, Go
  <2>4. PICK q \in Proc : HasBlock(q) /\ mod[q].shm = Find(n)
    BY <2>3, Found DEF Ordered
  <2>5. pc[q] \in Up
    BY <2>1, <2>4, SettledIsUp DEF Quiet, Busy
  <2>6. pc'[q] \in Up /\ mod'[q] = mod[q]
    BY <1>0, <2>1, <2>5 DEF Start, Go, Up, InCall
  <2>7. QED
    BY <2>2, <2>3, <2>4, <2>6
<1>2. CASE ~(\E n \in Name : Start(p, n) /\ Quiet(Proc))
  <2>1. ~Kill(p)
    BY <1>0, KillHits DEF Kill, Quiet, InInit
  <2>2. PICK w : Moves(p, w)
    BY <2>1, MovesOne
  <2>3. pc[p] # "off"
    BY <1>2
    DEF CalmStep, Start, Check, Alloc, SetPidAddPlace, Undo, Store, Mode, Activate, Done, DelPlace,
        DelBlock, Call, Look, Test, Post, Take, Kill
  <2>4. CASE r = p
    <3>1. CASE \/ \E force_init \in BOOLEAN : Check(p, force_init)
               \/ Alloc(p) \/ SetPidAddPlace(p) \/ Undo(p) \/ Store(p) \/ Mode(p) \/ Activate(p)
      BY <1>0, <2>4, <3>1 DEF Check, Alloc, SetPidAddPlace, Undo, Store, Mode, Activate, Go, End
    <3>2. CASE \/ Done(p) \/ DelPlace(p) \/ DelBlock(p)
               \/ \E op, k : Call(p, op, k)
      BY <1>0, <2>4, <3>2 DEF Done, DelPlace, DelBlock, Call, Go, End
    <3>3. CASE Look(p) \/ Test(p) \/ Post(p) \/ Take(p)
      BY <1>0, <2>4, <3>3 DEF Look, Test, Post, Take, Go, Return
    <3>4. QED
      BY <1>2, <2>1, <3>1, <3>2, <3>3 DEF CalmStep
  <2>5. CASE r # p
    <3>1. pc[r] = "check"
      BY <1>0, <2>2, <2>5 DEF Moves
    <3>2. pc[p] \notin Busy \cup InCall
      BY <2>5, <3>1 DEF Ordered, OneAtATime, Busy, InInit
    <3>3. ~Quiet(Proc) /\ ~Settled(Proc)
      BY <3>1 DEF Quiet, Settled, InInit
    <3>4. QED
      BY <2>2, <3>2, <3>3 DEF Moves
  <2>6. QED
    BY <2>4, <2>5
<1>3. QED
  BY <1>1, <1>2

\* A call changes nothing of another process's call.
LEMMA CallsKept ==
  ASSUME Typed, Ordered, NEW p \in Proc, CalmStep(p), Calm',
         NEW r \in Proc, r # p, pc'[r] \in InCall
  PROVE  pc[r] = pc'[r] /\ call'[r] = call[r] /\ ~Kill(p)
<1>0. call \in [Proc -> CallType]
  BY DEF Typed, TypeOK, CallType
<1>1. pc[r] = pc'[r]
  BY WhoIsIn
<1>2. ~Kill(p)
  BY <1>1, KillHits DEF Quiet
<1>3. call'[r] = call[r]
  <2>1. CASE \/ \E n \in Name : Start(p, n)
             \/ \E force_init \in BOOLEAN : Check(p, force_init)
             \/ Alloc(p) \/ SetPidAddPlace(p) \/ Undo(p) \/ Store(p) \/ Mode(p) \/ Activate(p)
    BY <2>1 DEF Start, Check, Alloc, SetPidAddPlace, Undo, Store, Mode, Activate
  <2>2. CASE Done(p) \/ DelPlace(p) \/ DelBlock(p)
    BY <2>2 DEF Done, DelPlace, DelBlock
  <2>3. CASE \E op \in {"run", "stop", "shutdown"}, k \in Name \cup {PLC} : Call(p, op, k)
    BY <1>0, <2>3 DEF Call
  <2>4. CASE Look(p) \/ Test(p) \/ Post(p) \/ Take(p)
    BY <1>0, <2>4 DEF Look, Test, Post, Take, Return
  <2>5. QED
    BY <1>2, <2>1, <2>2, <2>3, <2>4 DEF CalmStep
<1>4. QED
  BY <1>1, <1>2, <1>3

\* What a process that begins or goes on with a call has found.
LEMMA CallsFoundStep ==
  ASSUME Typed, Ordered, NEW p \in Proc, CalmStep(p), Calm'
  PROVE  CallsFound'
<1>0. /\ pc \in [Proc -> {"off", "gone"} \cup InInit \cup InDone \cup Up]
      /\ call \in [Proc -> CallType]
  BY DEF Typed, TypeOK, CallType
<1> SUFFICES ASSUME NEW r \in Proc, pc'[r] \in {"look", "kill"}
             PROVE  \E q \in Proc : /\ pc'[q] \in Up /\ mod'[q].name = call'[r].name
                                    /\ mod'[q].shm = call'[r].shm
  BY DEF CallsFound
<1>1. CASE r # p
  <2>1. pc[r] = pc'[r] /\ call'[r] = call[r]
    BY <1>1, CallsKept DEF InCall
  <2>2. PICK q \in Proc : pc[q] \in Up /\ mod[q].name = call[r].name /\ mod[q].shm = call[r].shm
    BY <2>1 DEF Ordered, Finding, CallsFound
  <2>3. pc'[q] \in Up /\ mod'[q] = mod[q]
    BY <1>1, <2>1, <2>2, UpStays DEF InCall
  <2>4. QED
    BY <2>1, <2>2, <2>3
<1>2. CASE r = p
  <2>1. \E op \in {"run", "stop", "shutdown"}, k \in Name \cup {PLC} : Call(p, op, k) /\ Settled(Proc)
    <3>1. CASE \/ \E n \in Name : Start(p, n)
               \/ \E force_init \in BOOLEAN : Check(p, force_init)
               \/ Alloc(p) \/ SetPidAddPlace(p) \/ Undo(p) \/ Store(p) \/ Mode(p) \/ Activate(p)
      BY <1>0, <1>2, <3>1 DEF Start, Check, Alloc, SetPidAddPlace, Undo, Store, Mode, Activate, Go, End
    <3>2. CASE Done(p) \/ DelPlace(p) \/ DelBlock(p)
      BY <1>0, <1>2, <3>2 DEF Done, DelPlace, DelBlock, Go, End
    <3>3. CASE Look(p) \/ Test(p) \/ Post(p) \/ Take(p)
      BY <1>0, <1>2, <3>3 DEF Look, Test, Post, Take, Go, Return
    <3>4. CASE Kill(p)
      BY <1>0, <1>2, <3>4, KillHits
    <3>5. QED
      BY <3>1, <3>2, <3>3, <3>4 DEF CalmStep
  <2>2. PICK op \in {"run", "stop", "shutdown"}, k \in Name \cup {PLC} : Call(p, op, k) /\ Settled(Proc)
    BY <2>1
  <2>3. k # PLC /\ Find(k) # NoSlot /\ call'[p].name = k /\ call'[p].shm = Find(k)
    BY <1>0, <1>2, <2>2 DEF Call, Go
  <2>4. PICK q \in Proc : HasBlock(q) /\ mod[q].shm = Find(k) /\ mod[q].name = k
    BY <2>3, Found DEF Ordered
  <2>5. pc[q] \in Up
    BY <2>2, <2>4, SettledIsUp DEF Settled, Busy
  <2>6. pc'[q] \in Up /\ mod'[q] = mod[q]
    BY <2>2, <2>5, UpStays
  <2>7. QED
    BY <1>2, <2>3, <2>4, <2>6
<1>3. QED
  BY <1>1, <1>2

LEMMA CallsPlacedStep ==
  ASSUME Typed, Ordered, NEW p \in Proc, CalmStep(p), Calm'
  PROVE  CallsPlaced' /\ CallsMean'
<1>0. /\ pc \in [Proc -> {"off", "gone"} \cup InInit \cup InDone \cup Up]
      /\ call \in [Proc -> CallType]
  BY DEF Typed, TypeOK, CallType
<1> SUFFICES ASSUME NEW r \in Proc, pc'[r] \in {"test", "post", "take"}
             PROVE  /\ Belong(call[r].name, call[r].place)'
                    /\ pc'[r] \in {"test", "post"} => call'[r].op = "run"
                    /\ pc'[r] = "take" => call'[r].op = "stop"
  BY DEF CallsPlaced, CallsMean
<1>1. CASE r # p
  <2>1. pc[r] = pc'[r] /\ call'[r] = call[r]
    BY <1>1, CallsKept DEF InCall
  <2>2. Belong(call[r].name, call[r].place)
    BY <2>1 DEF Ordered, Finding, CallsPlaced
  <2>3. \A q \in Proc : pc[q] \in Up => pc'[q] \in Up /\ mod'[q] = mod[q]
    BY <1>1, <2>1, UpStays DEF InCall
  <2>4. QED
    BY <2>1, <2>2, <2>3 DEF Belong, Ordered, Finding, CallsMean
<1>2. CASE r = p
  <2>1. CASE \/ \E n \in Name : Start(p, n)
             \/ \E force_init \in BOOLEAN : Check(p, force_init)
             \/ Alloc(p) \/ SetPidAddPlace(p) \/ Undo(p) \/ Store(p) \/ Mode(p) \/ Activate(p)
    BY <1>0, <1>2, <2>1 DEF Start, Check, Alloc, SetPidAddPlace, Undo, Store, Mode, Activate, Go, End
  <2>2. CASE Done(p) \/ DelPlace(p) \/ DelBlock(p)
    BY <1>0, <1>2, <2>2 DEF Done, DelPlace, DelBlock, Go, End
  <2>3. CASE Kill(p)
    BY <1>0, <1>2, <2>3, KillHits
  <2>4. ASSUME NEW op \in {"run", "stop", "shutdown"}, NEW k \in Name \cup {PLC}, Call(p, op, k),
               k = PLC => op # "shutdown"
        PROVE  /\ Belong(call[r].name, call[r].place)'
               /\ pc'[r] \in {"test", "post"} => call'[r].op = "run"
               /\ pc'[r] = "take" => call'[r].op = "stop"
    <3>1. CASE k = PLC /\ op \in {"run", "stop"}
      BY <1>0, <1>2, <2>4, <3>1, ConstantsAssumption DEF Call, Go, Belong
    <3>2. CASE k # PLC
      BY <1>0, <1>2, <2>4, <3>2 DEF Call, Go
    <3>3. QED
      BY <2>4, <3>1, <3>2
  <2>5. CASE Look(p)
    <3>1. PICK q \in Proc : pc[q] \in Up /\ mod[q].name = call[p].name /\ mod[q].shm = call[p].shm
      BY <2>5 DEF Look, Ordered, Finding, CallsFound
    <3>2. block[call[p].shm].place = mod[q].place
      BY <3>1 DEF Ordered, Owned, BlockNamesPlace, HasPlace, Up, InCall
    <3>3. call'[p].place = mod[q].place /\ call'[p].name = mod[q].name /\ call'[p].op = call[p].op
      BY <1>0, <2>5, <3>1, <3>2 DEF Look, CallType
    <3>4. pc'[q] \in Up /\ mod'[q] = mod[q]
      BY <2>5, <3>1, UpStays DEF Look, Kill, InCall
    <3>5. call[p].op \in {"run", "stop"} /\ pc'[p] = (IF call[p].op = "run" THEN "test" ELSE "take")
      BY <1>0, <2>5 DEF Look, Go, Typed, Callers
    <3>6. QED
      BY <1>2, <3>3, <3>4, <3>5 DEF Belong
  <2>6. CASE Test(p) \/ Take(p)
    <3>1. call'[p] = call[p] /\ pc'[p] \in {"post", "take"}
         /\ (pc'[p] = "post" => pc[p] = "test") /\ (pc'[p] = "take" => pc[p] = "take")
      BY <1>0, <1>2, <2>6 DEF Test, Take, Go, Return
    <3>2. \A q \in Proc : pc[q] \in Up => pc'[q] \in Up /\ mod'[q] = mod[q]
      BY <3>1, UpStays DEF InCall, Kill
    <3>3. QED
      BY <1>2, <3>1, <3>2 DEF Belong, Ordered, Finding, CallsPlaced, CallsMean
  <2>7. CASE Post(p)
    BY <1>0, <1>2, <2>7 DEF Post, Return, Go
  <2>8. QED
    BY <2>1, <2>2, <2>3, <2>4, <2>5, <2>6, <2>7 DEF CalmStep
<1>3. QED
  BY <1>1, <1>2

\* Two that belong have one name just when they have one place.
LEMMA BelongApart ==
  ASSUME Ordered, NEW k, NEW i, NEW l, NEW j, Belong(k, i), Belong(l, j)
  PROVE  k = l <=> i = j
<1>1. \A q \in Proc : pc[q] \in Up => /\ HasPlace(q) /\ Registered(q)
                                      /\ mod[q].place # Shared /\ mod[q].name # PLC
  BY ConstantsAssumption
  DEF Ordered, Owned, PlacesTaken, Registry, NamesProper, HasPlace, HasBlock, Registered
<1>2. \A q, r \in Proc : pc[q] \in Up /\ pc[r] \in Up /\ q # r =>
        mod[q].place # mod[r].place /\ mod[q].name # mod[r].name
  BY <1>1 DEF Ordered, Owned, PlacesDiffer, Registry, NamesDiffer
<1>3. QED
  BY <1>1, <1>2 DEF Belong

\* A step that does not touch the place of a name, nor adds a call of that name.
LEMMA ModeStays ==
  ASSUME NEW k, NEW i, ModeOf(k, i), tokens'[i] = tokens[i], last'[k] \in {last[k], "none"},
         \A r \in Proc : pc'[r] \in InCall /\ call'[r].name = k =>
           pc[r] \in InCall /\ call[r].name = k /\ call'[r].op = call[r].op
  PROVE  ModeOf(k, i)'
  BY DEF ModeOf, Calls

\* Who belonged before, unless the step ends a state_init.
LEMMA BelongBefore ==
  ASSUME Typed, Ordered, NEW p \in Proc, CalmStep(p), Calm', NEW k, NEW i, Belong(k, i)'
  PROVE  \/ Belong(k, i)
         \/ /\ Mode(p) \/ Activate(p)
            /\ mod[p].name = k /\ mod[p].place = i /\ pc'[p] = "ready"
<1>1. CASE k = PLC /\ i = Shared
  BY <1>1 DEF Belong
<1>2. CASE \E q \in Proc : pc'[q] \in Up /\ mod'[q].name = k /\ mod'[q].place = i
  <2>1. PICK q \in Proc : pc'[q] \in Up /\ mod'[q].name = k /\ mod'[q].place = i
    BY <1>2
  <2>2. CASE pc[q] \in Up /\ mod'[q] = mod[q]
    BY <2>1, <2>2 DEF Belong
  <2>3. CASE q = p /\ (Mode(p) \/ Activate(p))
    <3>1. pc \in [Proc -> {"off", "gone"} \cup InInit \cup InDone \cup Up]
      BY DEF Typed, TypeOK
    <3>2. mod' = mod /\ pc'[p] = "ready"
      BY <2>1, <2>3, <3>1 DEF Mode, Activate, Go, Up, InCall
    <3>3. QED
      BY <2>1, <2>3, <3>2
  <2>4. QED
    BY <2>1, <2>2, <2>3, UpBefore
<1>3. QED
  BY <1>1, <1>2 DEF Belong

\* The end of state_init: the place of the module holds a token, and no call is
\* under way.
LEMMA ModesAfterInit ==
  ASSUME Typed, Ordered, Calm, NEW p \in Proc, CalmStep(p), Calm', Mode(p) \/ Activate(p)
  PROVE  ModesKept'
<1>0. /\ pc \in [Proc -> {"off", "gone"} \cup InInit \cup InDone \cup Up]
      /\ tokens \in [Place -> 0 .. SEMVMX] /\ last \in Modes /\ SEMVMX \in Nat
  BY ConstantsAssumption DEF Typed, TypeOK, Modes
<1>1. /\ pc[p] \in {"mode", "activate"} /\ pc'[p] \in {"ready", "activate"}
      /\ \A q \in Proc : q # p => pc'[q] = pc[q]
      /\ mod' = mod /\ call' = call /\ place_count' = place_count
  BY <1>0 DEF Mode, Activate, Go, OtherUnchanged
<1>2. HasPlace(p) /\ Registered(p) /\ pc[p] \in Busy
  BY <1>1 DEF HasPlace, HasBlock, Registered, Busy, InInit
<1>3. \A r \in Proc : pc'[r] \notin InCall
  BY <1>1, <1>2 DEF Ordered, OneAtATime, InCall
<1>4. /\ mod[p].name \in Name /\ mod[p].place \in Place \ {Shared} /\ mod[p].name # PLC
      /\ \A q \in Proc : pc[q] \in Up => mod[q].place # mod[p].place /\ mod[q].name # mod[p].name
  <2>1. \A q \in Proc : pc[q] \in Up => q # p /\ HasPlace(q) /\ Registered(q)
    BY <1>1 DEF Up, InCall, HasPlace, HasBlock, Registered
  <2>2. in_use \subseteq Place
    BY DEF Typed, TypeOK
  <2>3. QED
    BY <1>2, <2>1, <2>2, ConstantsAssumption
    DEF Ordered, Owned, PlacesTaken, PlacesDiffer, Registry, NamesDiffer, NamesProper
<1>5. /\ \A i \in Place : i # mod[p].place => tokens'[i] = tokens[i]
      /\ \A k \in Name \cup {PLC} : k # mod[p].name => last'[k] = last[k]
      /\ pc'[p] = "ready" => tokens'[mod[p].place] > 0 /\ last'[mod[p].name] = "run"
  <2>1. CASE Mode(p)
    BY <1>0, <1>4, <2>1 DEF Mode, ModeAfterInit, Go, Modes
  <2>2. CASE Activate(p)
    BY <1>0, <1>4, <2>2 DEF Activate, ModeAfterInit, Go, Modes
  <2>3. QED
    BY <2>1, <2>2
<1>6. SUFFICES ASSUME NEW k \in Name \cup {PLC}, NEW i \in Place, Belong(k, i)' PROVE ModeOf(k, i)'
  BY <1>1 DEF ModesKept, Place
<1>7. CASE Belong(k, i)
  <2>1. k # mod[p].name /\ i # mod[p].place
    BY <1>4, <1>7 DEF Belong
  <2>2. ModeOf(k, i)
    BY <1>7 DEF Ordered, ModesKept
  <2>3. QED
    BY <1>3, <1>5, <2>1, <2>2, ModeStays
<1>8. CASE mod[p].name = k /\ mod[p].place = i /\ pc'[p] = "ready"
  <2>1. tokens'[i] > 0 /\ last'[k] = "run"
    BY <1>5, <1>8
  <2>2. QED
    BY <1>3, <2>1 DEF ModeOf, Calls
<1>9. QED
  BY <1>6, <1>7, <1>8, BelongBefore

\* The end of a call, or a token less: the tokens are those of the name of the call.
LEMMA ModesAfterCall ==
  ASSUME Typed, Ordered, Calm, NEW p \in Proc, CalmStep(p), Calm', Test(p) \/ Post(p) \/ Take(p)
  PROVE  ModesKept'
<1>0. /\ pc \in [Proc -> {"off", "gone"} \cup InInit \cup InDone \cup Up]
      /\ tokens \in [Place -> 0 .. SEMVMX] /\ last \in Modes /\ SEMVMX \in Nat
      /\ call \in [Proc -> CallType] /\ place_count' = place_count
  BY ConstantsAssumption DEF Typed, TypeOK, Modes, CallType, Test, Post, Take, OtherUnchanged
<1>n. PICK n, j : n = call[p].name /\ j = call[p].place
  OBVIOUS
<1> USE <1>n
<1>1. /\ pc[p] \in {"test", "post", "take"} /\ j \in Place /\ Belong(n, j)
      /\ pc[p] = "take" => call[p].op = "stop"
      /\ pc[p] # "take" => call[p].op = "run"
  BY <1>0 DEF Test, Post, Take, CallType, Ordered, Finding, CallsPlaced, CallsMean
<1>2. n \in Name \cup {PLC}
  <2>1. \A q \in Proc : pc[q] \in Up => mod[q].name \in Name
    BY DEF Ordered, Registry, NamesProper
  <2>2. QED
    BY <1>1, <2>1 DEF Belong
<1>3. \A r \in Proc : r # p => pc'[r] = pc[r] /\ call'[r] = call[r]
  BY <1>0 DEF Test, Post, Take, Return, Go
<1>4. \/ pc'[p] = "ready" /\ NoteMode(p)
      \/ pc'[p] \in {"post", "take"} /\ call' = call /\ last' = last
  <2>1. CASE Test(p)
    BY <1>0, <2>1 DEF Test, Return, Go
  <2>2. CASE Post(p)
    BY <1>0, <2>2 DEF Post, Return, Go
  <2>3. CASE Take(p)
    BY <1>0, <2>3 DEF Take, Return, Go
  <2>4. QED
    BY <2>1, <2>2, <2>3
<1>5. \A i \in Place : i # j => tokens'[i] = tokens[i]
  BY <1>0, <1>1 DEF Test, Post, Take
<1>6. \A k \in Name \cup {PLC} : k # n => last'[k] = last[k]
  BY <1>0, <1>4 DEF NoteMode, Modes
<1>7. ModeOf(n, j)
  BY <1>1, <1>2 DEF Ordered, ModesKept
<1>8. ModeOf(n, j)'
  <2>1. CASE pc'[p] = "ready" /\ NoteMode(p)
    <3>1. last'[n] = IF Uncontested(p) THEN call[p].op ELSE "none"
      BY <1>0, <1>2, <2>1 DEF NoteMode, Modes
    <3>2. CASE ~Uncontested(p)
      BY <3>1, <3>2 DEF ModeOf
    <3>3. CASE Uncontested(p)
      <4>1. \A r \in Proc : pc'[r] \in InCall /\ call'[r].name = n => call'[r].op \notin Against(call[p].op)
        <5>1. "ready" \notin InCall
          BY DEF InCall
        <5>2. QED
          BY <1>3, <2>1, <3>3, <5>1 DEF Uncontested
      <4>2. CASE pc[p] # "take"
        <5>1. tokens'[j] > 0
          <6>1. Test(p) \/ Post(p)
            BY <4>2 DEF Take
          <6>2. CASE Test(p)
            BY <1>0, <2>1, <6>2 DEF Test, Go
          <6>3. CASE Post(p)
            BY <1>0, <1>1, <6>3 DEF Post
          <6>4. QED
            BY <6>1, <6>2, <6>3
        <5>2. last'[n] = "run" /\ Against(call[p].op) = {"stop"}
          BY <1>1, <3>1, <3>3, <4>2 DEF Against
        <5>3. QED
          BY <4>1, <5>1, <5>2 DEF ModeOf, Calls
      <4>3. CASE pc[p] = "take"
        <5>1. tokens'[j] = 0
          <6>1. Take(p)
            BY <4>3 DEF Test, Post
          <6>2. pc' # pc
            BY <2>1, <4>3
          <6>3. tokens[j] = 0 /\ tokens' = tokens
            BY <1>0, <1>1, <6>1, <6>2 DEF Take
          <6>4. QED
            BY <6>3
        <5>2. last'[n] = "stop" /\ Against(call[p].op) = {"run"}
          BY <1>1, <3>1, <3>3, <4>3 DEF Against
        <5>3. QED
          BY <4>1, <5>1, <5>2 DEF ModeOf, Calls
      <4>4. QED
        BY <4>2, <4>3
    <3>4. QED
      BY <3>2, <3>3
  <2>2. CASE pc'[p] \in {"post", "take"} /\ call' = call /\ last' = last
    <3>1. \A r \in Proc : pc'[r] \in InCall => pc[r] \in InCall
      BY <1>1, <1>3 DEF InCall
    <3>2. CASE tokens'[j] = tokens[j]
      BY <1>7, <2>2, <3>1, <3>2, ModeStays
    <3>3. CASE tokens'[j] # tokens[j]
      <4>1. Take(p) /\ tokens[j] > 0 /\ pc[p] = "take"
        BY <1>0, <1>1, <2>2, <3>3 DEF Test, Post, Take, Return, Go
      <4>2. p \in Calls(n) /\ call[p].op = "stop"
        BY <1>1, <4>1 DEF Calls, InCall
      <4>3. last[n] # "run" /\ last[n] # "stop"
        BY <1>0, <1>1, <1>7, <4>1, <4>2 DEF ModeOf
      <4>4. QED
        BY <2>2, <4>3 DEF ModeOf
    <3>4. QED
      BY <3>2, <3>3
  <2>3. QED
    BY <1>4, <2>1, <2>2
<1>9. SUFFICES ASSUME NEW k \in Name \cup {PLC}, NEW i \in Place, Belong(k, i)' PROVE ModeOf(k, i)'
  BY <1>0 DEF ModesKept, Place
<1>10. Belong(k, i)
  BY <1>1, <1>9, BelongBefore DEF Mode, Activate
<1>11. CASE k = n
  <2>1. i = j
    BY <1>1, <1>10, <1>11, BelongApart
  <2>2. QED
    BY <1>8, <1>11, <2>1 DEF ModeOf, Calls
<1>12. CASE k # n
  <2>1. i # j
    BY <1>1, <1>10, <1>12, BelongApart
  <2>2. ModeOf(k, i)
    BY <1>10 DEF Ordered, ModesKept
  <2>3. call'[p].name = n \/ pc'[p] \notin InCall
    BY <1>4 DEF InCall
  <2>4. QED
    BY <1>3, <1>5, <1>6, <1>12, <2>1, <2>2, <2>3, ModeStays
<1>13. QED
  BY <1>11, <1>12

\* The beginning of a call: a mode it contradicts is forgotten.
LEMMA ModesAfterBegin ==
  ASSUME Typed, Ordered, Calm, NEW p \in Proc, CalmStep(p), Calm',
         NEW op \in {"run", "stop", "shutdown"}, NEW key \in Name \cup {PLC}, Call(p, op, key)
  PROVE  ModesKept'
<1>0. /\ pc \in [Proc -> {"off", "gone"} \cup InInit \cup InDone \cup Up]
      /\ last \in Modes /\ call \in [Proc -> CallType] /\ place_count' = place_count
  BY DEF Typed, TypeOK, Modes, CallType, Call
<1>1. /\ tokens' = tokens
      /\ last' = [last EXCEPT ![key] = IF @ \in Against(op) THEN "none" ELSE @]
      /\ call'[p].op = op /\ call'[p].name = key
  BY <1>0 DEF Call, Note
<1>2. \A r \in Proc : r # p /\ pc'[r] \in InCall => pc[r] \in InCall /\ call'[r] = call[r]
  BY CallsKept
<1> SUFFICES ASSUME NEW k \in Name \cup {PLC}, NEW i \in Place, Belong(k, i)' PROVE ModeOf(k, i)'
  BY <1>0 DEF ModesKept, Place
<1>3. ModeOf(k, i)
  <2>1. ~Mode(p) /\ ~Activate(p)
    BY DEF Mode, Activate, Call
  <2>2. QED
    BY <2>1, BelongBefore DEF Ordered, ModesKept
<1>4. CASE k # key
  <2>1. last'[k] = last[k]
    BY <1>0, <1>1, <1>4 DEF Modes
  <2>2. QED
    BY <1>1, <1>2, <1>3, <1>4, <2>1, ModeStays
<1>5. CASE k = key
  <2>1. last'[k] = IF last[k] \in Against(op) THEN "none" ELSE last[k]
    BY <1>0, <1>1, <1>5 DEF Modes
  <2>2. last'[k] = "run" => last[k] = "run" /\ op # "stop"
    BY <2>1 DEF Against
  <2>3. last'[k] = "stop" => last[k] = "stop" /\ op # "run"
    BY <2>1 DEF Against
  <2>4. \A r \in Proc : pc'[r] \in InCall /\ call'[r].name = k =>
          \/ pc[r] \in InCall /\ call[r].name = k /\ call'[r].op = call[r].op
          \/ call'[r].op = op
    BY <1>1, <1>2
  <2>5. QED
    BY <1>1, <1>3, <2>2, <2>3, <2>4 DEF ModeOf, Calls
<1>6. QED
  BY <1>4, <1>5

\* Every other step leaves the tokens alone, begins no call, and forgets the mode
\* of a module that ends.
LEMMA ModesElsewhere ==
  ASSUME Typed, Ordered, Calm, NEW p \in Proc, CalmStep(p), Calm',
         ~(\E op \in {"run", "stop", "shutdown"}, k \in Name \cup {PLC} : Call(p, op, k)),
         ~Mode(p), ~Activate(p), ~Test(p), ~Post(p), ~Take(p)
  PROVE  ModesKept'
<1>0. /\ pc \in [Proc -> {"off", "gone"} \cup InInit \cup InDone \cup Up]
      /\ last \in Modes /\ call \in [Proc -> CallType]
  BY DEF Typed, TypeOK, Modes, CallType
<1> DEFINE Same == \/ \E n \in Name : Start(p, n)
                   \/ \E force_init \in BOOLEAN : Check(p, force_init)
                   \/ Alloc(p) \/ SetPidAddPlace(p) \/ Undo(p) \/ Store(p) \/ DelPlace(p) \/ DelBlock(p)
<1>1. Same \/ Done(p) \/ Look(p) \/ Kill(p)
  BY DEF CalmStep
<1>2. tokens' = tokens /\ place_count' = place_count
  <2>1. CASE Same
    BY <2>1 DEF Start, Check, Alloc, SetPidAddPlace, Undo, Store, DelPlace, DelBlock, OtherUnchanged
  <2>2. CASE Done(p) \/ Look(p) \/ Kill(p)
    BY <2>2 DEF Done, Look, Kill, OtherUnchanged
  <2>3. QED
    BY <1>1, <2>1, <2>2
<1>3. \A k \in Name \cup {PLC} : last'[k] \in {last[k], "none"}
  <2>1. CASE Same
    BY <2>1 DEF Start, Check, Alloc, SetPidAddPlace, Undo, Store, DelPlace, DelBlock, Note
  <2>2. CASE Done(p)
    BY <1>0, <2>2 DEF Done, Note, Modes
  <2>3. CASE Look(p)
    BY <2>3 DEF Look
  <2>4. CASE Kill(p)
    BY <1>0, <2>4, KillHits DEF Modes
  <2>5. QED
    BY <1>1, <2>1, <2>2, <2>3, <2>4
<1>4. \A r \in Proc : pc'[r] \in InCall =>
        pc[r] \in InCall /\ call'[r].name = call[r].name /\ call'[r].op = call[r].op
  <2>1. \A r \in Proc : r # p /\ pc'[r] \in InCall => pc[r] \in InCall /\ call'[r] = call[r]
    BY CallsKept
  <2>2. CASE Same
    <3>1. pc'[p] \notin InCall
      BY <1>0, <2>2
      DEF Start, Check, Alloc, SetPidAddPlace, Undo, Store, DelPlace, DelBlock, Go, End, InCall
    <3>2. QED
      BY <2>1, <3>1
  <2>3. CASE Done(p)
    <3>1. pc'[p] \notin InCall
      BY <1>0, <2>3 DEF Done, Go, InCall
    <3>2. QED
      BY <2>1, <3>1
  <2>4. CASE Look(p)
    <3>1. pc[p] \in InCall /\ call'[p].name = call[p].name /\ call'[p].op = call[p].op
      BY <1>0, <2>4 DEF Look, InCall, CallType
    <3>2. QED
      BY <2>1, <3>1
  <2>5. CASE Kill(p)
    <3>1. pc'[p] \notin InCall
      BY <1>0, <2>5, KillHits DEF InCall
    <3>2. QED
      BY <2>1, <3>1
  <2>6. QED
    BY <1>1, <2>2, <2>3, <2>4, <2>5
<1> HIDE DEF Same
<1> SUFFICES ASSUME NEW k \in Name \cup {PLC}, NEW i \in Place, Belong(k, i)' PROVE ModeOf(k, i)'
  BY <1>2 DEF ModesKept, Place
<1>5. ModeOf(k, i)
  BY BelongBefore DEF Ordered, ModesKept
<1>6. QED
  BY <1>2, <1>3, <1>4, <1>5, ModeStays

\* A step that leaves the MatPLC Calm leaves it Ordered.
LEMMA OrderedStep ==
  ASSUME Typed, Calm => Ordered, [Next]_vars, Calm'
  PROVE  Ordered'
<1>1. CASE UNCHANGED vars
  <2>1. Ordered
    BY <1>1 DEF vars, Calm
  <2>2. Owned'
    BY <1>1, <2>1
    DEF vars, Ordered, Owned, SharedTaken, PlacesTaken, PlacesDiffer, BlocksUsed, BlocksDiffer,
        BlockNamesPlace, HasPlace, HasBlock
  <2>3. OneAtATime' /\ Registry'
    BY <1>1, <2>1
    DEF vars, Ordered, OneAtATime, Registry, NamesProper, NamesDiffer, BlocksNamed, BlocksOwned,
        Registered, HasPlace, HasBlock
  <2>4. Finding' /\ ModesKept'
    BY <1>1, <2>1
    DEF vars, Ordered, Finding, ChecksLive, CallsFound, CallsPlaced, CallsMean, Belong,
        ModesKept, ModeOf, Calls, Place
  <2>5. QED
    BY <2>2, <2>3, <2>4 DEF Ordered
<1>2. ASSUME NEW p \in Proc, Step(p) PROVE Ordered'
  <2>1. Calm /\ CalmStep(p)
    BY <1>2, CalmSteps
  <2>2. Ordered
    BY <2>1
  <2>3. Owned'
    <3>1. Owned /\ ~hist'.freed
      BY <2>2 DEF Ordered, Calm
    <3>2. QED
      BY <3>1, OwnedStep
  <2>4. OneAtATime'
    BY <2>1, <2>2, OneAtATimeStep
  <2>5. Registry'
    BY <2>1, <2>2, NamesProperStep, NamesDifferStep, BlocksStep DEF Registry
  <2>6. Finding'
    BY <2>1, <2>2, ChecksLiveStep, CallsFoundStep, CallsPlacedStep DEF Finding
  <2>7. ModesKept'
    <3>1. CASE Mode(p) \/ Activate(p)
      BY <2>1, <2>2, <3>1, ModesAfterInit
    <3>2. CASE Test(p) \/ Post(p) \/ Take(p)
      BY <2>1, <2>2, <3>2, ModesAfterCall
    <3>3. CASE \E op \in {"run", "stop", "shutdown"}, k \in Name \cup {PLC} : Call(p, op, k)
      BY <2>1, <2>2, <3>3, ModesAfterBegin
    <3>4. CASE /\ ~(\E op \in {"run", "stop", "shutdown"}, k \in Name \cup {PLC} : Call(p, op, k))
               /\ ~Mode(p) /\ ~Activate(p) /\ ~Test(p) /\ ~Post(p) /\ ~Take(p)
      BY <2>1, <2>2, <3>4, ModesElsewhere
    <3>5. QED
      BY <3>1, <3>2, <3>3, <3>4
  <2>8. QED
    BY <2>3, <2>4, <2>5, <2>6, <2>7 DEF Ordered
<1>3. QED
  BY <1>1, <1>2 DEF Next

LEMMA OrderedInitially == Init => Ordered
<1> SUFFICES ASSUME Init PROVE Ordered
  OBVIOUS
<1>0. \A p \in Proc : pc[p] = "off"
  BY DEF Init
<1>1. Owned
  BY <1>0 DEF Init, Owned, SharedTaken, PlacesTaken, PlacesDiffer, BlocksUsed, BlocksDiffer,
              BlockNamesPlace, HasPlace, HasBlock, Up, InCall
<1>2. OneAtATime /\ Finding
  BY <1>0 DEF OneAtATime, Finding, ChecksLive, CallsFound, CallsPlaced, CallsMean, Busy, InInit, InDone
<1>3. Registry
  BY <1>0 DEF Init, Registry, NamesProper, NamesDiffer, BlocksNamed, BlocksOwned, Registered, HasBlock,
              HasPlace, EmptyBlock, Busy, InInit, InDone, Up, InCall
<1>4. ModesKept
  <2>1. ASSUME NEW k \in Name \cup {PLC}, NEW i \in Place, Belong(k, i) PROVE ModeOf(k, i)
    <3>1. k = PLC /\ i = Shared
      BY <1>0, <2>1 DEF Belong, Up, InCall
    <3>2. last[k] = "stop" /\ tokens[i] = 0
      BY <3>1 DEF Init, NoModes
    <3>3. QED
      BY <1>0, <3>2 DEF ModeOf, Calls, InCall
  <2>2. QED
    BY <2>1 DEF ModesKept
<1>5. QED
  BY <1>1, <1>2, <1>3, <1>4 DEF Ordered

LEMMA OrderedWhileCalm == Spec => [](Typed /\ (Calm => Ordered))
<1>1. Typed /\ (Calm => Ordered) /\ [Next]_vars => (Calm => Ordered)'
  BY OrderedStep
<1>2. QED
  BY <1>1, OrderedInitially, TypedInitially, TypedInductive, PTL DEF Spec

\* A module that was run, in a MatPLC that was run, can begin its scans, and one
\* that was stopped cannot, however the runs and stops of others race.
THEOREM ModesObeyed == Spec => []ModeObeyed
<1>1. Typed /\ (Calm => Ordered) => ModeObeyed
  <2> SUFFICES ASSUME Typed, Calm, Ordered, NEW p \in Proc, pc[p] = "ready"
               PROVE  /\ last[mod[p].name] = "run" /\ last[PLC] = "run" => CanBegin(p)
                      /\ last[mod[p].name] = "stop" \/ last[PLC] = "stop" => ~CanBegin(p)
    BY DEF ModeObeyed
  <2>1. /\ Shared \in Place /\ mod[p].place \in Place /\ mod[p].name \in Name
        /\ Belong(PLC, Shared) /\ Belong(mod[p].name, mod[p].place)
    BY SharedIsPlace DEF Typed, TypeOK, Belong, Up, Ordered, Registry, NamesProper
  <2>2. ModeOf(PLC, Shared) /\ ModeOf(mod[p].name, mod[p].place)
    BY <2>1 DEF Ordered, ModesKept
  <2>3. QED
    BY <2>2 DEF ModeOf, CanBegin
<1>2. QED
  BY <1>1, OrderedWhileCalm, PTL

\* Only a run or stop of a name adds or takes tokens of the place of that name.
LEMMA TokensOfNamed ==
  ASSUME Typed, Ordered, NEW p \in Proc, Step(p), NEW q \in Proc, pc[q] \in Up,
         tokens'[mod[q].place] # tokens[mod[q].place]
  PROVE  pc[p] \in {"post", "take"} /\ call[p].name = mod[q].name
<1>0. /\ tokens \in [Place -> 0 .. SEMVMX] /\ SEMVMX \in Nat
      /\ mod[q].place \in Place
  BY ConstantsAssumption DEF Typed, TypeOK
<1>1. tokens' # tokens
  OBVIOUS
<1>2. Activate(p) \/ Post(p) \/ Take(p)
  <2>1. ~(\E n \in Name : Start(p, n)) /\ ~(\E force_init \in BOOLEAN : Check(p, force_init))
    BY <1>1 DEF Start, Check
  <2>2. ~ForceInit(p) /\ ~Alloc(p) /\ ~SetPidAddPlace(p) /\ ~Undo(p) /\ ~Store(p) /\ ~Mode(p)
    BY <1>1 DEF ForceInit, Alloc, SetPidAddPlace, Undo, Store, Mode
  <2>3. ~Done(p) /\ ~DelPlace(p) /\ ~DelBlock(p) /\ ~Crash(p)
    BY <1>1 DEF Done, DelPlace, DelBlock, Crash
  <2>4. ~Look(p) /\ ~Test(p) /\ ~Kill(p) /\ ~Sweep(p) /\ ~(\E op, k : Call(p, op, k))
    BY <1>1 DEF Look, Test, Kill, Sweep, Call
  <2>5. QED
    BY <2>1, <2>2, <2>3, <2>4 DEF Step
<1>3. ~Activate(p)
  <2>1. SUFFICES ASSUME Activate(p) PROVE mod[p].place = mod[q].place /\ q # p
    BY DEF Ordered, Owned, PlacesDiffer, Activate, HasPlace
  <2>2. QED
    BY <1>0, <2>1 DEF Activate, Up, InCall
<1>4. pc[p] \in {"post", "take"} /\ call[p].place = mod[q].place
  <2>1. CASE Post(p)
    BY <1>0, <2>1 DEF Post
  <2>2. CASE Take(p)
    BY <1>0, <1>1, <2>2 DEF Take
  <2>3. QED
    BY <1>2, <1>3, <2>1, <2>2
<1>5. Belong(call[p].name, call[p].place) /\ Belong(mod[q].name, mod[q].place)
  <2>1. Belong(call[p].name, call[p].place)
    BY <1>4 DEF Ordered, Finding, CallsPlaced
  <2>2. QED
    BY <2>1 DEF Belong
<1>6. QED
  BY <1>4, <1>5, BelongApart

\* And a shutdown of a name ends the module of that name only.
LEMMA EndOfNamed ==
  ASSUME Typed, Ordered, NEW p \in Proc, Step(p), NEW q \in Proc, pc[q] \in Up, pc'[q] = "del_place",
         NEW r \in Proc, pc[r] = "kill", pc'[r] = "ready"
  PROVE  call[r].name = mod[q].name
<1>0. pc \in [Proc -> {"off", "gone"} \cup InInit \cup InDone \cup Up]
  BY DEF Typed, TypeOK
<1>1. pc[r] # pc'[r] /\ pc[q] # pc'[q] /\ q # r
  BY DEF Up, InCall
<1>2. Kill(p)
  <2>1. CASE ~Kill(p)
    <3>1. \A s \in Proc : s # p => pc'[s] = pc[s]
      BY <1>0, <2>1
      DEF Step, Start, Check, ForceInit, Alloc, SetPidAddPlace, Undo, Store, Mode, Activate, Done,
          DelPlace, DelBlock, Crash, Call, Look, Test, Post, Take, Sweep, Go, End, Return
    <3>2. QED
      BY <1>1, <3>1
  <2>2. QED
    BY <2>1
<1> DEFINE pid == block[call[p].shm].pid
           hit == IF pid = NoPid THEN {s \in Proc : Alive(s)} ELSE {pid} \cap {s \in Proc : Alive(s)}
           back == [pc EXCEPT ![p] = "ready"]
<1>3. PICK s \in Proc : pc[s] \in Up /\ mod[s].name = call[p].name /\ mod[s].shm = call[p].shm
  BY <1>2 DEF Kill, Ordered, Finding, CallsFound
<1>4. pid = s /\ Alive(s) /\ s # NoPid
  BY <1>3, ConstantsAssumption
  DEF Ordered, Registry, BlocksNamed, HasBlock, HasPlace, Alive, Up, InCall
<1>5. hit = {s}
  BY <1>4
<1>6. pc' = [t \in Proc |-> IF t \in hit THEN Signalled(t, back) ELSE back[t]]
  BY <1>2, <1>5 DEF Kill
<1> HIDE DEF hit
<1>7. \A t \in Proc : t # s /\ t # p => pc'[t] = pc[t]
  BY <1>0, <1>5, <1>6
<1>8. p # q
  BY <1>1, <1>2, <1>5, <1>6, <1>7
<1>9. QED
  BY <1>1, <1>3, <1>7, <1>8

\* Nobody's RUN/STOP place changes but by a run or stop of that very name, and
\* no module is ended by a plc_module_shutdown of another name.
THEOREM CallsActOnNamed == Spec => ActsOnNamed
<1> DEFINE Named1 == Calm => \A q \in Proc : pc[q] \in Up =>
       /\ tokens'[mod[q].place] # tokens[mod[q].place] =>
            \E p \in Proc : pc[p] \in {"post", "take"} /\ call[p].name = mod[q].name
       /\ \A p \in Proc : pc[p] = "kill" /\ pc'[p] = "ready" /\ pc'[q] = "del_place" =>
            call[p].name = mod[q].name
<1>1. Typed /\ (Calm => Ordered) /\ [Next]_vars => [Named1]_vars
  BY TokensOfNamed, EndOfNamed DEF Next, vars
<1>2. QED
  BY <1>1, OrderedWhileCalm, PTL DEF Spec, ActsOnNamed
=============================================================================
