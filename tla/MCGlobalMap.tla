---------------------------- MODULE MCGlobalMap -----------------------------
(***************************************************************************)
(* GlobalMap on two words: module A owns one bit in each, module B one bit *)
(* beside A's in the first.  Points: both bits of word 1, and a1.        *)
(***************************************************************************)
EXTENDS GlobalMap, TLC

CONSTANTS a0, a1, b0, pa, pb

MCBit == {a0, a1, b0}
MCWordOf == (a0 :> 1) @@ (b0 :> 1) @@ (a1 :> 2)
MCOwner == (a0 :> "A") @@ (a1 :> "A") @@ (b0 :> "B")
MCRole == [p \in Proc |-> IF p = pb THEN "B" ELSE "A"]
MCPoint == {[word |-> 1, bits |-> {a0, b0}], [word |-> 2, bits |-> {a1}]}
Zeros == {[b \in MCBit |-> 0]}
Extremes == {[b \in MCBit |-> v] : v \in {0, 1}}
CleanMasks == {{}}
AnyMap == [MCBit -> {0, 1}]
AnyMask == SUBSET MCBit
=============================================================================
