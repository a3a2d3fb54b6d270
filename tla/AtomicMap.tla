------------------------------ MODULE AtomicMap -----------------------------
(***************************************************************************)
(* What lib/gmm/gmm.h promises to the modules of a MatPLC: one map of      *)
(* bits, of which every module has a private view.  A module changes only  *)
(* the bits its name owns, only in its view; plc_update and its variants   *)
(* exchange view and map, each "atomic with respect to any other task";    *)
(* starting a module reads the map and changes nothing in it.              *)
(***************************************************************************)
EXTENDS Integers

CONSTANTS
  Proc,        \* processes, each running the module named Role[p]
  Bit,         \* bits of the globalmap
  Owner,       \* [Bit -> name of the module that may write it, or of none]
  Role,        \* [Proc -> module name]
  Span         \* the sets of bits one update call can cover

VARIABLES
  map,         \* [Bit -> Val]: the global map
  view,        \* [Proc -> [Bit -> Val]]: the private maps, Blank when not up
  up           \* the processes that have the library initialised

vars == <<map, view, up>>

Val == {0, 1}
Blank == [b \in Bit |-> 0]
Writable(p) == {b \in Bit : Owner[b] = Role[p]}

\* gmm_init: the new module adopts the map, outputs of its own included.
Start(p) ==
  /\ p \notin up
  /\ up' = up \cup {p}
  /\ view' = [view EXCEPT ![p] = map]
  /\ UNCHANGED map

\* plc_set: bits the module does not own keep their value.
Set(p, bits, val) ==
  /\ p \in up
  /\ view' = [view EXCEPT ![p] =
                [b \in Bit |-> IF b \in bits \cap Writable(p) THEN val[b] ELSE @[b]]]
  /\ UNCHANGED <<map, up>>

\* plc_update, plc_update_pt, plc_update_pts: one indivisible exchange.
Update(p, bits) ==
  /\ p \in up
  /\ map' = [b \in Bit |-> IF b \in bits \cap Writable(p) THEN view[p][b] ELSE map[b]]
  /\ view' = [view EXCEPT ![p] = [b \in Bit |-> IF b \in bits THEN map'[b] ELSE @[b]]]
  /\ UNCHANGED up

Stop(p) ==
  /\ p \in up
  /\ up' = up \ {p}
  /\ view' = [view EXCEPT ![p] = Blank]
  /\ UNCHANGED map

Step(p) ==
  \/ Start(p)
  \/ \E bits \in Span, val \in [Bit -> Val] : Set(p, bits, val)
  \/ \E bits \in Span : Update(p, bits)
  \/ Stop(p)

Init ==
  /\ map \in [Bit -> Val]
  /\ view = [p \in Proc |-> Blank]
  /\ up = {}

Next == \E p \in Proc : Step(p)

Spec == Init /\ [][Next]_vars
=============================================================================
