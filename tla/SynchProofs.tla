----------------------------- MODULE SynchProofs -----------------------------
(***************************************************************************)
(* Theorems of SynchPoint and of ScanCycle.                                *)
(*                                                                         *)
(* SynchPoint: the array of a synchpt is compared with heights, the weight *)
(* of every arc of the net; each edit of the array is an edit of a height, *)
(* and semop on an array that shows some heights does what they say.  The  *)
(* loops of the code (semop over the operations, plc_synchpt_new over the  *)
(* places) are recursive functions; a least counterexample stands for the  *)
(* induction over their rounds.                                            *)
(*                                                                         *)
(* ScanCycle: what the loops over the rows of the tables leave in the      *)
(* confmap is proved of every table the parser may hand over, and the      *)
(* tokens of every net it leaves are counted one by one.  At the end the   *)
(* two models meet: what a scan fires in one step, a synchpt does.         *)
(***************************************************************************)
EXTENDS SynchPoint, ScanCycle, FiniteSetTheorems, SequenceTheorems, WellFoundedInduction,
        TLAPS

(***************************************************************************)
(* A recursion over numbers.                                               *)
(***************************************************************************)
\* A set of numbers has a least one.
LEMMA LeastOf ==
  ASSUME NEW S \in SUBSET Nat, S # {}
  PROVE  \E i \in S : \A j \in S : i <= j
<1>1. PICK i \in S : \A j \in S : <<j, i>> \notin OpToRel(<, Nat)
  BY NatLessThanWellFounded, WFMin
<1>2. ASSUME NEW j \in S PROVE i <= j
  <2>1. <<j, i>> \in Nat \X Nat
    OBVIOUS
  <2>2. ~(j < i)
    BY <1>1, <2>1 DEF OpToRel
  <2> QED BY <2>2
<1> QED BY <1>2

\* The states a loop of n rounds goes through, when G is what a round does.
Loop(f, n, S, base, G) ==
  f \in [0..n -> S] /\ f[0] = base /\ \A k \in 1..n : f[k] = G[<<k, f[k - 1]>>]
Rounds(g, n, S, base, G) ==
  g[0] = base /\ \A k \in 1..n : g[k - 1] \in S => g[k] = G[<<k, g[k - 1]>>]

\* Whatever a loop does to its state in each of its rounds, there is a sequence of
\* the states it goes through.
LEMMA LoopRuns ==
  ASSUME NEW S, NEW base \in S, NEW n \in Nat, NEW G \in [(1..n) \X S -> S]
  PROVE  \E f : Loop(f, n, S, base, G)
<1> DEFINE Upto(f, k) == /\ f \in [0..n -> S] /\ f[0] = base
                         /\ \A i \in 1..k : f[i] = G[<<i, f[i - 1]>>]
           Bad == {k \in 0..n : ~ \E f : Upto(f, k)}
<1>1. ASSUME Bad # {} PROVE FALSE
  <2> HIDE DEF Upto
  <2>0. Bad \in SUBSET Nat
    OBVIOUS
  <2> HIDE DEF Bad
  <2>1. PICK k \in Bad : \A i \in Bad : k <= i
    BY <1>1, <2>0, LeastOf
  <2> USE DEF Bad
  <2>2. CASE k = 0
    <3> DEFINE f == [i \in 0..n |-> base]
    <3>1. Upto(f, k)
      BY <2>2 DEF Upto
    <3> HIDE DEF f
    <3> QED BY <2>1, <3>1
  <2>3. CASE k # 0
    <3>1. k \in 1..n /\ k - 1 \in 0..n /\ k - 1 \notin Bad
      BY <2>1, <2>3
    <3>2. PICK f : Upto(f, k - 1)
      BY <3>1
    <3> DEFINE y == G[<<k, f[k - 1]>>]
               g == [f EXCEPT ![k] = y]
    <3>3. f \in [0..n -> S] /\ f[0] = base /\ \A i \in 1..k - 1 : f[i] = G[<<i, f[i - 1]>>]
      BY <3>2 DEF Upto
    <3>4. f[k - 1] \in S
      BY <3>1, <3>3
    <3>5. y \in S
      BY <3>1, <3>4
    <3>6. y = G[<<k, f[k - 1]>>]
      OBVIOUS
    <3> HIDE DEF y
    <3>7. g \in [0..n -> S] /\ g[k] = y /\ \A i \in 0..n : i # k => g[i] = f[i]
      BY <3>1, <3>3, <3>5
    <3> HIDE DEF g
    <3>8. g[0] = base
      BY <3>1, <3>3, <3>7
    <3>9. ASSUME NEW i \in 1..k PROVE g[i] = G[<<i, g[i - 1]>>]
      <4>1. i \in 0..n /\ i - 1 \in 0..n /\ i - 1 # k
        BY <3>1, <3>9
      <4>2. g[i - 1] = f[i - 1]
        BY <3>7, <4>1
      <4>3. CASE i = k
        BY <3>6, <3>7, <4>2, <4>3
      <4>4. CASE i # k
        <5>1. i \in 1..k - 1
          BY <3>1, <3>9, <4>4
        <5> QED BY <3>3, <3>7, <4>1, <4>2, <4>4, <5>1
      <4> QED BY <4>3, <4>4
    <3>10. Upto(g, k)
      BY <3>7, <3>8, <3>9 DEF Upto
    <3> QED BY <2>1, <3>10
  <2> QED BY <2>2, <2>3
<1>2. PICK f : Upto(f, n)
  <2> HIDE DEF Upto
  <2>1. n \notin Bad
    BY <1>1
  <2> QED BY <2>1
<1> QED BY <1>2 DEF Loop

(***************************************************************************)
(* Shorts.                                                                 *)
(***************************************************************************)
LEMMA ShortFits == ASSUME NEW x \in Short PROVE ToShort(x) = x
BY TransitionAssumption DEF Short, ToShort

\* Whatever is stored in sem_op is a short.
LEMMA ShortIsShort == ASSUME NEW x \in Int PROVE ToShort(x) \in Short
BY TransitionAssumption DEF Short, ToShort


(***************************************************************************)
(* The array and the entries found in it.                                  *)
(***************************************************************************)
Sop == [num : Place, op : Short]

\* The least element that SelectInSeq takes is an element.
LEMMA MinOf ==
  ASSUME NEW I \in SUBSET Nat, I # {}
  PROVE  Min(I) \in I
BY LeastOf DEF Min

\* The entry that plc_synchpt_add_arc finds, if there is one, is for the place and
\* in the direction of the weight.
LEMMA ToAdd ==
  ASSUME NEW s \in Seq(Sop), NEW w, NEW p, NEW e, e = EntryToAdd(s, w, p)
  PROVE  \/ e = 0 /\ \A i \in 1..Len(s) : ~(s[i].num = p /\ SameDirection(s[i].op, w))
         \/ e \in 1..Len(s) /\ s[e].num = p /\ SameDirection(s[e].op, w)
<1> DEFINE I == {i \in 1..Len(s) : s[i].num = p /\ SameDirection(s[i].op, w)}
<1>1. e = IF I # {} THEN Min(I) ELSE 0
  BY DEF EntryToAdd, SelectInSeq
<1>2. I \in SUBSET Nat /\ 1..Len(s) \subseteq Nat
  OBVIOUS
<1>3. I # {} => Min(I) \in I
  BY <1>2, MinOf
<1>4. \A i \in I : i \in 1..Len(s) /\ s[i].num = p /\ SameDirection(s[i].op, w)
  OBVIOUS
<1>5. I = {} => \A i \in 1..Len(s) : ~(s[i].num = p /\ SameDirection(s[i].op, w))
  OBVIOUS
<1> HIDE DEF I
<1> QED BY <1>1, <1>3, <1>4, <1>5

\* So is the one that plc_synchpt_del_arc finds, which may also be a null arc.
LEMMA ToDel ==
  ASSUME NEW s \in Seq(Sop), NEW w, NEW p, NEW e, e = EntryToDel(s, w, p), e # 0
  PROVE  e \in 1..Len(s) /\ s[e].num = p /\ (SameDirection(s[e].op, w) \/ (s[e].op = 0 /\ w = 0))
<1> DEFINE I == {i \in 1..Len(s) : /\ s[i].num = p
                                   /\ SameDirection(s[i].op, w) \/ (s[i].op = 0 /\ w = 0)}
<1>1. e = IF I # {} THEN Min(I) ELSE 0
  BY DEF EntryToDel, SelectInSeq
<1>2. I \in SUBSET Nat
  OBVIOUS
<1>3. I # {} => Min(I) \in I
  BY <1>2, MinOf
<1>4. \A i \in I : i \in 1..Len(s) /\ s[i].num = p
                   /\ (SameDirection(s[i].op, w) \/ (s[i].op = 0 /\ w = 0))
  OBVIOUS
<1> HIDE DEF I
<1> QED BY <1>1, <1>3, <1>4

\* What the three edits leave.
IsSet(t, s, e, op) == /\ t \in Seq(Sop) /\ Len(t) = Len(s)
                      /\ t[e].num = s[e].num /\ t[e].op = op
                      /\ \A i \in 1..Len(s) : i # e => t[i] = s[i]
LEMMA SetAt ==
  ASSUME NEW s \in Seq(Sop), NEW e \in 1..Len(s), NEW op \in Short, NEW t, t = SetOp(s, e, op)
  PROVE  IsSet(t, s, e, op)
<1> DEFINE x == [num |-> s[e].num, op |-> op]
<1>1. s[e] \in Sop
  OBVIOUS
<1>2. x \in Sop /\ x.num = s[e].num /\ x.op = op
  BY <1>1 DEF Sop
<1>3. t = [s EXCEPT ![e] = x]
  BY DEF SetOp
<1> HIDE DEF x
<1>4. t \in Seq(Sop) /\ Len(t) = Len(s) /\ \A i \in 1..Len(s) : t[i] = IF i = e THEN x ELSE s[i]
  BY <1>2, <1>3, ExceptSeq
<1> QED BY <1>2, <1>4 DEF IsSet

\* A wait arc moves the entries there were one up.
LEMMA PutFirst ==
  ASSUME NEW s \in Seq(Sop), NEW w \in Short, w < 0, NEW p \in Place, NEW t, t = Insert(s, w, p)
  PROVE  /\ t \in Seq(Sop) /\ Len(t) = Len(s) + 1
         /\ t[1].num = p /\ t[1].op = w
         /\ \A i \in 1..Len(s) : t[i + 1] = s[i]
         /\ \A i \in 1..Len(t) : i # 1 => i - 1 \in 1..Len(s) /\ t[i] = s[i - 1]
<1> DEFINE x == [num |-> p, op |-> w]
<1>1. x \in Sop /\ x.num = p /\ x.op = w
  BY DEF Sop
<1>2. t = <<x>> \o s
  BY DEF Insert
<1> HIDE DEF x
<1>3. /\ t \in Seq(Sop) /\ Len(t) = Len(s) + 1 /\ t[1] = x
      /\ \A i \in 1..Len(s) : t[i + 1] = s[i]
  BY <1>1, <1>2
<1>4. ASSUME NEW i \in 1..Len(t), i # 1 PROVE i - 1 \in 1..Len(s) /\ t[i] = s[i - 1]
  BY <1>3, <1>4
<1> QED BY <1>1, <1>3, <1>4

\* Any other arc leaves them where they are.
LEMMA PutLast ==
  ASSUME NEW s \in Seq(Sop), NEW w \in Short, ~(w < 0), NEW p \in Place, NEW t, t = Insert(s, w, p)
  PROVE  /\ t \in Seq(Sop) /\ Len(t) = Len(s) + 1
         /\ t[Len(s) + 1].num = p /\ t[Len(s) + 1].op = w
         /\ \A i \in 1..Len(s) : t[i] = s[i]
<1> DEFINE x == [num |-> p, op |-> w]
<1>1. x \in Sop /\ x.num = p /\ x.op = w
  BY DEF Sop
<1>2. t = Append(s, x)
  BY DEF Insert
<1> HIDE DEF x
<1> QED BY <1>1, <1>2

\* An entry deleted, those after it move one down.
LEMMA TakeOut ==
  ASSUME NEW s \in Seq(Sop), NEW e \in 1..Len(s), NEW t, t = RemoveAt(s, e)
  PROVE  /\ t \in Seq(Sop) /\ Len(t) = Len(s) - 1
         /\ \A i \in 1..Len(t) : t[i] = IF i < e THEN s[i] ELSE s[i + 1]
<1> DEFINE a == SubSeq(s, 1, e - 1)
           b == SubSeq(s, e + 1, Len(s))
<1>1. a \in Seq(Sop) /\ Len(a) = e - 1 /\ \A i \in 1..e - 1 : a[i] = s[i]
  OBVIOUS
<1>2. b \in Seq(Sop) /\ Len(b) = Len(s) - e /\ \A i \in 1..Len(s) - e : b[i] = s[e + i]
  OBVIOUS
<1>3. t = a \o b
  BY DEF RemoveAt
<1> HIDE DEF a, b
<1>4. t \in Seq(Sop) /\ Len(t) = Len(s) - 1
  <2>1. t \in Seq(Sop) /\ Len(t) = Len(a) + Len(b)
    BY <1>1, <1>2, <1>3, ConcatProperties
  <2>2. Len(s) \in Nat /\ e \in Nat
    OBVIOUS
  <2> QED BY <1>1, <1>2, <2>1, <2>2
<1>5. ASSUME NEW i \in 1..Len(t) PROVE t[i] = IF i < e THEN s[i] ELSE s[i + 1]
  <2>1. CASE i < e
    BY <1>1, <1>2, <1>3, <1>4, <2>1
  <2>2. CASE ~(i < e)
    <3>1. i - (e - 1) \in 1..Len(s) - e /\ e + (i - (e - 1)) = i + 1
      BY <1>4, <2>2
    <3>2. t[i] = b[i - (e - 1)]
      BY <1>1, <1>2, <1>3, <1>4, <2>2
    <3> QED BY <1>2, <2>2, <3>1, <3>2
  <2> QED BY <2>1, <2>2
<1> QED BY <1>4, <1>5

\* An edit adds one entry at most, and what it leaves fits the array's types.
LEMMA AddTyped ==
  ASSUME NEW s \in Seq(Sop), NEW w \in Short, NEW p \in Place
  PROVE  /\ AddArcTo(s, w, p) \in Seq(Sop)
         /\ Len(AddArcTo(s, w, p)) = IF EntryToAdd(s, w, p) = 0 THEN Len(s) + 1 ELSE Len(s)
<1> DEFINE e == EntryToAdd(s, w, p)
<1>1. CASE e = 0
  <2>1. AddArcTo(s, w, p) = Insert(s, w, p)
    BY <1>1 DEF AddArcTo
  <2> HIDE DEF e
  <2>2. Insert(s, w, p) \in Seq(Sop) /\ Len(Insert(s, w, p)) = Len(s) + 1
    <3>1. CASE w < 0
      BY <3>1, PutFirst
    <3>2. CASE ~(w < 0)
      BY <3>2, PutLast
    <3> QED BY <3>1, <3>2
  <2> QED BY <1>1, <2>1, <2>2 DEF e
<1>2. CASE e # 0
  <2>1. AddArcTo(s, w, p) = SetOp(s, e, ToShort(s[e].op + w))
    BY <1>2 DEF AddArcTo
  <2>2. e \in 1..Len(s)
    BY <1>2, ToAdd
  <2> HIDE DEF e
  <2>3. s[e] \in Sop
    BY <2>2
  <2>4. s[e].op + w \in Int
    BY <2>3, TransitionAssumption DEF Sop, Short
  <2>5. ToShort(s[e].op + w) \in Short
    BY <2>4, ShortIsShort
  <2> DEFINE op == ToShort(s[e].op + w)
             t == SetOp(s, e, op)
  <2>6. op \in Short /\ t = SetOp(s, e, op) /\ AddArcTo(s, w, p) = t
    BY <2>1, <2>5
  <2> HIDE DEF op, t
  <2>7. IsSet(t, s, e, op)
    BY <2>2, <2>6, SetAt
  <2> QED BY <1>2, <2>6, <2>7 DEF e, IsSet
<1> QED BY <1>1, <1>2

\* A deletion adds no entry.
LEMMA DelTyped ==
  ASSUME NEW s \in Seq(Sop), NEW w \in Short, NEW p \in Place, EntryToDel(s, w, p) # 0
  PROVE  /\ DelArcFrom(s, w, p) \in Seq(Sop)
         /\ Len(DelArcFrom(s, w, p)) <= Len(s)
<1> DEFINE e == EntryToDel(s, w, p)
           left == ToShort(s[e].op - w)
<1>1. DelArcFrom(s, w, p) = IF left # 0 THEN SetOp(s, e, left) ELSE RemoveAt(s, e)
  BY DEF DelArcFrom
<1>2. e \in 1..Len(s)
  BY ToDel
<1> HIDE DEF e
<1>3. s[e] \in Sop
  BY <1>2
<1>4. s[e].op - w \in Int
  BY <1>3, TransitionAssumption DEF Sop, Short
<1>5. left \in Short
  BY <1>4, ShortIsShort
<1> HIDE DEF left
<1>6. SetOp(s, e, left) \in Seq(Sop) /\ Len(SetOp(s, e, left)) = Len(s)
  <2> DEFINE t == SetOp(s, e, left)
  <2>1. t = SetOp(s, e, left)
    OBVIOUS
  <2> HIDE DEF t
  <2>2. IsSet(t, s, e, left)
    BY <1>2, <1>5, <2>1, SetAt
  <2> QED BY <2>1, <2>2 DEF IsSet
<1>7. RemoveAt(s, e) \in Seq(Sop) /\ Len(RemoveAt(s, e)) = Len(s) - 1
  BY <1>2, TakeOut
<1> QED BY <1>1, <1>2, <1>6, <1>7

(***************************************************************************)
(* The arcs of an array: for a place and a sort of arc (wait, null or      *)
(* signal) its weight, 1 for a null arc, 0 for none.                       *)
(***************************************************************************)
Sorts == {-1, 0, 1}
Sort(op) == IF op < 0 THEN -1 ELSE IF op > 0 THEN 1 ELSE 0
Heights == [Place \X Sorts -> 0..ShortMax]

\* Waits come first, then the null arcs, then the signals.
Layered(s) == \A i, j \in 1..Len(s) : i < j => Sort(s[i].op) <= Sort(s[j].op)
\* No two entries for the arcs of one sort to one place.
Single(s) == \A i, j \in 1..Len(s) :
               s[i].num = s[j].num /\ Sort(s[i].op) = Sort(s[j].op) => i = j
Told(s, H) == \A i \in 1..Len(s) : H[<<s[i].num, Sort(s[i].op)>>] = Size(s[i].op)
Kept(s, H) == \A p \in Place, d \in Sorts :
                H[<<p, d>>] > 0 => \E i \in 1..Len(s) : s[i].num = p /\ Sort(s[i].op) = d
Shows(s, H) == s \in Seq(Sop) /\ Layered(s) /\ Single(s) /\ Told(s, H) /\ Kept(s, H)

\* The sort and the weight of an operation.
LEMMA SortOf ==
  ASSUME NEW op \in Short
  PROVE  /\ Sort(op) \in Sorts /\ Sort(op) \in Int /\ op \in Int
         /\ Sort(op) = -1 <=> op < 0
         /\ Sort(op) = 0 <=> op = 0
         /\ Sort(op) = 1 <=> op > 0
         /\ Size(op) \in Nat /\ Size(op) > 0
         /\ op < 0 => Size(op) = -op
         /\ op > 0 => Size(op) = op
         /\ op = 0 => Size(op) = 1
BY TransitionAssumption DEF Short, Sort, Sorts, Size

\* The fields of an entry.
LEMMA SopOf ==
  ASSUME NEW s \in Seq(Sop), NEW i \in 1..Len(s)
  PROVE  s[i].num \in Place /\ s[i].op \in Short /\ Len(s) \in Nat
<1>1. s[i] \in Sop /\ Len(s) \in Nat
  OBVIOUS
<1> QED BY <1>1 DEF Sop

\* Weights in one direction are arcs of one sort.
LEMMA SameSort ==
  ASSUME NEW a \in Short, NEW b \in Short
  PROVE  SameDirection(a, b) <=> (Sort(a) = Sort(b) /\ Sort(a) # 0)
BY TransitionAssumption DEF Short, Sort, SameDirection

\* A weight added in the same direction, as long as a short holds the sum.
LEMMA MoreOf ==
  ASSUME NEW a \in Short, NEW w \in Short, Sort(a) = Sort(w), Sort(w) # 0,
         Size(a) + Size(w) <= ShortMax
  PROVE  /\ ToShort(a + w) \in Short /\ Sort(ToShort(a + w)) = Sort(w)
         /\ Size(ToShort(a + w)) = Size(a) + Size(w)
<1>1. a + w \in Short /\ Sort(a + w) = Sort(w) /\ Size(a + w) = Size(a) + Size(w)
  BY TransitionAssumption DEF Short, Sort, Size
<1> QED BY <1>1, ShortFits

\* A weight taken off in the same direction, down to nothing.
LEMMA LessOf ==
  ASSUME NEW a \in Short, NEW w \in Short, Sort(a) = Sort(w), Size(w) <= Size(a),
         NEW l, l = ToShort(a - w)
  PROVE  /\ l \in Short
         /\ l # 0 => Sort(l) = Sort(w) /\ Size(l) = Size(a) - Size(w)
         /\ l = 0 => Size(a) = Size(w)
<1>1. /\ a - w \in Short
      /\ a - w # 0 => Sort(a - w) = Sort(w) /\ Size(a - w) = Size(a) - Size(w)
      /\ a - w = 0 => Size(a) = Size(w)
  BY TransitionAssumption DEF Short, Sort, Size
<1>2. l = a - w
  BY <1>1, ShortFits
<1> QED BY <1>1, <1>2

\* An array that shows a net, with an arc added: it shows the net with that arc.
LEMMA AddShows ==
  ASSUME NEW s, NEW H \in Heights, Shows(s, H), NEW w \in Short, NEW p \in Place,
         NEW h, h = H[<<p, Sort(w)>>] + Size(w), h <= ShortMax,
         w = 0 => H[<<p, 0>>] = 0 /\ \A i \in 1..Len(s) : Sort(s[i].op) # 1,
         NEW K, K = [H EXCEPT ![<<p, Sort(w)>>] = h],
         NEW t, t = AddArcTo(s, w, p)
  PROVE  Shows(t, K) /\ K \in Heights
<1> DEFINE d == Sort(w)
           e == EntryToAdd(s, w, p)
<1>0. s \in Seq(Sop) /\ Len(s) \in Nat /\ Layered(s) /\ Single(s) /\ Told(s, H) /\ Kept(s, H)
  BY DEF Shows
<1>1. d \in Sorts /\ (d = 0 <=> w = 0) /\ (w < 0 <=> d = -1) /\ (w > 0 <=> d = 1) /\ d \in Int
      /\ Size(w) \in Nat /\ Size(w) > 0 /\ w \in Int
  BY SortOf
<1>2. <<p, d>> \in Place \X Sorts /\ H[<<p, d>>] \in 0..ShortMax /\ ShortMax \in Nat
  BY <1>1, TransitionAssumption DEF Heights
<1>3. h \in 0..ShortMax
  BY <1>1, <1>2
<1>4. K \in Heights /\ K[<<p, d>>] = h
      /\ \A q \in Place, c \in Sorts : ~(q = p /\ c = d) => K[<<q, c>>] = H[<<q, c>>]
  BY <1>2, <1>3 DEF Heights
<1>5. \A i \in 1..Len(s) : /\ s[i].num \in Place /\ s[i].op \in Short
                           /\ Sort(s[i].op) \in Sorts /\ Sort(s[i].op) \in Int
                           /\ Size(s[i].op) > 0
                           /\ SameDirection(s[i].op, w) <=> (Sort(s[i].op) = d /\ d # 0)
  BY <1>0, SopOf, SortOf, SameSort
<1>6. CASE e # 0
  <2>1. e \in 1..Len(s) /\ s[e].num = p /\ Sort(s[e].op) = d /\ d # 0
    BY <1>0, <1>5, <1>6, ToAdd
  <2> DEFINE op == ToShort(s[e].op + w)
  <2>2. t = SetOp(s, e, op)
    BY <1>6 DEF AddArcTo
  <2> HIDE DEF e
  <2>3. H[<<p, d>>] = Size(s[e].op)
    BY <1>0, <2>1 DEF Told
  <2>4. op \in Short /\ Sort(op) = d /\ Size(op) = h
    BY <1>5, <2>1, <2>3, MoreOf
  <2> HIDE DEF op, d
  <2>5. /\ t \in Seq(Sop) /\ Len(t) = Len(s)
        /\ t[e].num = s[e].num /\ t[e].op = op
        /\ \A i \in 1..Len(s) : i # e => t[i] = s[i]
    <3>1. IsSet(t, s, e, op)
      BY <1>0, <2>1, <2>2, <2>4, SetAt
    <3> QED BY <3>1 DEF IsSet
  <2>6. \A i \in 1..Len(s) : t[i].num = s[i].num /\ Sort(t[i].op) = Sort(s[i].op)
    BY <2>1, <2>4, <2>5
  <2>7. Layered(t) /\ Single(t)
    <3>1. Layered(t)
      BY <1>0, <2>5, <2>6 DEF Layered
    <3>2. Single(t)
      BY <1>0, <2>5, <2>6 DEF Single
    <3> QED BY <3>1, <3>2
  <2>8. Told(t, K)
    <3>1. ASSUME NEW i \in 1..Len(s) PROVE K[<<s[i].num, Sort(s[i].op)>>] = Size(t[i].op)
      <4>1. CASE i = e
        BY <1>4, <2>1, <2>4, <2>5, <4>1
      <4>2. CASE i # e
        <5>1. ~(s[i].num = p /\ Sort(s[i].op) = d)
          BY <1>0, <2>1, <4>2 DEF Single
        <5>2. H[<<s[i].num, Sort(s[i].op)>>] = Size(s[i].op)
          BY <1>0 DEF Told
        <5> QED BY <1>4, <1>5, <2>5, <4>2, <5>1, <5>2
      <4> QED BY <4>1, <4>2
    <3> QED BY <2>5, <2>6, <3>1 DEF Told
  <2>9. Kept(t, K)
    <3>1. ASSUME NEW q \in Place, NEW c \in Sorts, K[<<q, c>>] > 0
          PROVE  \E i \in 1..Len(s) : s[i].num = q /\ Sort(s[i].op) = c
      <4>1. CASE q = p /\ c = d
        BY <2>1, <4>1
      <4>2. CASE ~(q = p /\ c = d)
        <5>1. H[<<q, c>>] > 0
          BY <1>4, <3>1, <4>2
        <5> QED BY <1>0, <5>1 DEF Kept
      <4> QED BY <4>1, <4>2
    <3> QED BY <2>5, <2>6, <3>1 DEF Kept
  <2> QED BY <1>4, <2>5, <2>7, <2>8, <2>9 DEF Shows
<1>7. CASE e = 0
  <2>1. t = Insert(s, w, p)
    BY <1>7 DEF AddArcTo
  <2>2. \A i \in 1..Len(s) : s[i].num = p => Sort(s[i].op) # d
    <3>1. CASE d # 0
      BY <1>0, <1>5, <1>7, <3>1, ToAdd
    <3>2. CASE d = 0
      <4>1. H[<<p, 0>>] = 0
        BY <1>1, <3>2
      <4> HIDE DEF d, e
      <4> QED BY <1>0, <1>5, <3>2, <4>1 DEF Told
    <3> QED BY <3>1, <3>2
  <2> HIDE DEF e
  <2>3. h = Size(w)
    <3>1. ~(H[<<p, d>>] > 0)
      <4> HIDE DEF d
      <4> QED BY <1>0, <1>1, <2>2 DEF Kept
    <3> QED BY <1>1, <1>2, <3>1
  <2> DEFINE From(f) == /\ t \in Seq(Sop) /\ Len(t) = Len(s) + 1
                        /\ f \in [1..Len(s) -> 1..Len(t)]
                        /\ \A i \in 1..Len(s) : t[f[i]] = s[i]
                        /\ \A i, j \in 1..Len(s) : (i < j <=> f[i] < f[j])
             Put(f, x) == /\ x \in 1..Len(t) /\ t[x].num = p /\ t[x].op = w
                          /\ \A i \in 1..Len(t) : i # x => \E j \in 1..Len(s) : i = f[j]
                          /\ \A j \in 1..Len(s) : /\ f[j] < x => Sort(s[j].op) <= d
                                                  /\ x < f[j] => d <= Sort(s[j].op)
                                                  /\ x # f[j]
  <2>4. \E f : \E x : From(f) /\ Put(f, x)
    <3>1. CASE w < 0
      <4> DEFINE f == [i \in 1..Len(s) |-> i + 1]
      <4>1. /\ t \in Seq(Sop) /\ Len(t) = Len(s) + 1
            /\ t[1].num = p /\ t[1].op = w
            /\ \A i \in 1..Len(s) : t[i + 1] = s[i]
            /\ \A i \in 1..Len(t) : i # 1 => i - 1 \in 1..Len(s) /\ t[i] = s[i - 1]
        BY <1>0, <2>1, <3>1, PutFirst
      <4>2. From(f)
        BY <1>0, <4>1
      <4>3. \A i \in 1..Len(t) : i # 1 => \E j \in 1..Len(s) : i = f[j]
        <5> SUFFICES ASSUME NEW i \in 1..Len(t), i # 1 PROVE i - 1 \in 1..Len(s) /\ i = f[i - 1]
          OBVIOUS
        <5> QED BY <1>0, <4>1
      <4>4. \A j \in 1..Len(s) : f[j] = j + 1 /\ d <= Sort(s[j].op)
        <5>1. d = -1
          BY <1>1, <3>1
        <5> HIDE DEF d
        <5> QED BY <1>5, <5>1 DEF Sorts
      <4>5. Put(f, 1)
        <5> HIDE DEF f, d
        <5> QED BY <1>0, <4>1, <4>3, <4>4
      <4> HIDE DEF f, From, Put
      <4> QED BY <4>2, <4>5
    <3>2. CASE ~(w < 0)
      <4> DEFINE f == [i \in 1..Len(s) |-> i]
      <4>1. /\ t \in Seq(Sop) /\ Len(t) = Len(s) + 1
            /\ t[Len(s) + 1].num = p /\ t[Len(s) + 1].op = w
            /\ \A i \in 1..Len(s) : t[i] = s[i]
        BY <1>0, <2>1, <3>2, PutLast
      <4>2. From(f)
        BY <1>0, <4>1
      <4>3. \A i \in 1..Len(t) : i # Len(s) + 1 => \E j \in 1..Len(s) : i = f[j]
        <5> SUFFICES ASSUME NEW i \in 1..Len(t), i # Len(s) + 1 PROVE i \in 1..Len(s) /\ i = f[i]
          OBVIOUS
        <5> QED BY <1>0, <4>1
      <4>4. \A j \in 1..Len(s) : f[j] = j /\ Sort(s[j].op) <= d
        <5>1. d = 1 \/ (d = 0 /\ \A i \in 1..Len(s) : Sort(s[i].op) # 1)
          BY <1>1, <3>2 DEF Sorts
        <5> HIDE DEF d
        <5> QED BY <1>5, <5>1 DEF Sorts
      <4>5. Put(f, Len(s) + 1)
        <5> HIDE DEF f, d
        <5> QED BY <1>0, <4>1, <4>3, <4>4
      <4> HIDE DEF f, From, Put
      <4> QED BY <4>2, <4>5
    <3> QED BY <3>1, <3>2
  <2>5. PICK f, x : From(f) /\ Put(f, x)
    BY <2>4
  <2>6. /\ t \in Seq(Sop) /\ Len(t) = Len(s) + 1
        /\ f \in [1..Len(s) -> 1..Len(t)]
        /\ \A i \in 1..Len(s) : t[f[i]] = s[i]
        /\ \A i, j \in 1..Len(s) : (i < j <=> f[i] < f[j])
    BY <2>5
  <2>7. /\ x \in 1..Len(t) /\ t[x].num = p /\ t[x].op = w /\ Sort(t[x].op) = d
        /\ \A i \in 1..Len(t) : i # x => \E j \in 1..Len(s) : i = f[j]
        /\ \A j \in 1..Len(s) : /\ f[j] < x => Sort(s[j].op) <= d
                                /\ x < f[j] => d <= Sort(s[j].op)
                                /\ x # f[j]
    BY <2>5
  <2> HIDE DEF From, Put, d
  <2>8. Layered(t)
    <3> SUFFICES ASSUME NEW i \in 1..Len(t), NEW j \in 1..Len(t), i < j
                 PROVE  Sort(t[i].op) <= Sort(t[j].op)
      BY DEF Layered
    <3>1. CASE i = x
      <4>1. PICK b \in 1..Len(s) : j = f[b]
        BY <2>7, <3>1
      <4> QED BY <2>6, <2>7, <3>1, <4>1
    <3>2. CASE j = x
      <4>1. PICK b \in 1..Len(s) : i = f[b]
        BY <2>7, <3>2
      <4> QED BY <2>6, <2>7, <3>2, <4>1
    <3>3. CASE i # x /\ j # x
      <4>1. PICK b \in 1..Len(s) : i = f[b]
        BY <2>7, <3>3
      <4>2. PICK c \in 1..Len(s) : j = f[c]
        BY <2>7, <3>3
      <4>3. b < c
        BY <2>6, <4>1, <4>2
      <4> QED BY <1>0, <2>6, <4>1, <4>2, <4>3 DEF Layered
    <3> QED BY <3>1, <3>2, <3>3
  <2>9. Single(t)
    <3> SUFFICES ASSUME NEW i \in 1..Len(t), NEW j \in 1..Len(t),
                        t[i].num = t[j].num, Sort(t[i].op) = Sort(t[j].op)
                 PROVE  i = j
      BY DEF Single
    <3>1. CASE i = x \/ j = x
      <4>1. ASSUME NEW k \in 1..Len(t), k # x PROVE ~(t[k].num = p /\ Sort(t[k].op) = d)
        <5>1. PICK b \in 1..Len(s) : k = f[b]
          BY <2>7, <4>1
        <5> QED BY <2>2, <2>6, <5>1
      <4> QED BY <2>7, <3>1, <4>1
    <3>2. CASE i # x /\ j # x
      <4>1. PICK b \in 1..Len(s) : i = f[b]
        BY <2>7, <3>2
      <4>2. PICK c \in 1..Len(s) : j = f[c]
        BY <2>7, <3>2
      <4>3. b = c
        BY <1>0, <2>6, <4>1, <4>2 DEF Single
      <4> QED BY <4>1, <4>2, <4>3
    <3> QED BY <3>1, <3>2
  <2>10. Told(t, K)
    <3> SUFFICES ASSUME NEW i \in 1..Len(t)
                 PROVE  K[<<t[i].num, Sort(t[i].op)>>] = Size(t[i].op)
      BY DEF Told
    <3>1. CASE i = x
      BY <1>4, <2>3, <2>7, <3>1 DEF d
    <3>2. CASE i # x
      <4>1. PICK b \in 1..Len(s) : i = f[b]
        BY <2>7, <3>2
      <4>2. t[i] = s[b] /\ ~(s[b].num = p /\ Sort(s[b].op) = d)
        BY <2>2, <2>6, <4>1
      <4>3. H[<<s[b].num, Sort(s[b].op)>>] = Size(s[b].op)
        BY <1>0 DEF Told
      <4>4. K[<<s[b].num, Sort(s[b].op)>>] = H[<<s[b].num, Sort(s[b].op)>>]
        BY <1>4, <1>5, <4>2
      <4> QED BY <4>2, <4>3, <4>4
    <3> QED BY <3>1, <3>2
  <2>11. Kept(t, K)
    <3> SUFFICES ASSUME NEW q \in Place, NEW c \in Sorts, K[<<q, c>>] > 0
                 PROVE  \E i \in 1..Len(t) : t[i].num = q /\ Sort(t[i].op) = c
      BY DEF Kept
    <3>1. CASE q = p /\ c = d
      BY <2>7, <3>1
    <3>2. CASE ~(q = p /\ c = d)
      <4>1. H[<<q, c>>] > 0
        BY <1>4, <3>2
      <4>2. PICK b \in 1..Len(s) : s[b].num = q /\ Sort(s[b].op) = c
        BY <1>0, <4>1 DEF Kept
      <4>3. f[b] \in 1..Len(t) /\ t[f[b]] = s[b]
        BY <2>6
      <4> QED BY <4>2, <4>3
    <3> QED BY <3>1, <3>2
  <2> QED BY <1>4, <2>6, <2>8, <2>9, <2>10, <2>11 DEF Shows
<1> QED BY <1>6, <1>7

\* A null arc is new, and comes before there are signals.
NullFits(s, H, w, p) ==
  w = 0 => H[<<p, 0>>] = 0 /\ \A i \in 1..Len(s) : Sort(s[i].op) # 1

\* The same, its hypothesis about null arcs under one name.
LEMMA AddFits ==
  ASSUME NEW s, NEW H \in Heights, Shows(s, H), NEW w \in Short, NEW p \in Place,
         NEW h, h = H[<<p, Sort(w)>>] + Size(w), h <= ShortMax, NullFits(s, H, w, p),
         NEW K, K = [H EXCEPT ![<<p, Sort(w)>>] = h],
         NEW t, t = AddArcTo(s, w, p)
  PROVE  Shows(t, K) /\ K \in Heights
<1>1. w = 0 => H[<<p, 0>>] = 0 /\ \A i \in 1..Len(s) : Sort(s[i].op) # 1
  BY DEF NullFits
<1> QED BY <1>1, AddShows

\* And with an arc deleted.
LEMMA DelShows ==
  ASSUME NEW s, NEW H \in Heights, Shows(s, H), NEW w \in Short, NEW p \in Place,
         EntryToDel(s, w, p) # 0,
         NEW h, h = H[<<p, Sort(w)>>] - Size(w), h >= 0,
         NEW K, K = [H EXCEPT ![<<p, Sort(w)>>] = h],
         NEW t, t = DelArcFrom(s, w, p)
  PROVE  Shows(t, K) /\ K \in Heights
<1> DEFINE d == Sort(w)
           e == EntryToDel(s, w, p)
           left == ToShort(s[e].op - w)
<1>0. s \in Seq(Sop) /\ Len(s) \in Nat /\ Layered(s) /\ Single(s) /\ Told(s, H) /\ Kept(s, H)
  BY DEF Shows
<1>1. d \in Sorts /\ (d = 0 <=> w = 0) /\ d \in Int /\ Size(w) \in Nat /\ Size(w) > 0 /\ w \in Int
  BY SortOf
<1>2. <<p, d>> \in Place \X Sorts /\ H[<<p, d>>] \in 0..ShortMax /\ ShortMax \in Nat
  BY <1>1, TransitionAssumption DEF Heights
<1>3. h \in 0..ShortMax
  BY <1>1, <1>2
<1>4. K \in Heights /\ K[<<p, d>>] = h
      /\ \A q \in Place, c \in Sorts : ~(q = p /\ c = d) => K[<<q, c>>] = H[<<q, c>>]
  BY <1>2, <1>3 DEF Heights
<1>5. \A i \in 1..Len(s) : /\ s[i].num \in Place /\ s[i].op \in Short
                           /\ Sort(s[i].op) \in Sorts /\ Sort(s[i].op) \in Int
                           /\ (Sort(s[i].op) = 0 <=> s[i].op = 0)
                           /\ SameDirection(s[i].op, w) <=> (Sort(s[i].op) = d /\ d # 0)
  BY <1>0, SopOf, SortOf, SameSort
<1>6. e \in 1..Len(s) /\ s[e].num = p /\ Sort(s[e].op) = d
  <2>1. /\ e \in 1..Len(s) /\ s[e].num = p
        /\ SameDirection(s[e].op, w) \/ (s[e].op = 0 /\ w = 0)
    BY <1>0, ToDel
  <2> HIDE DEF e, d
  <2> QED BY <1>1, <1>5, <2>1
<1>7. t = IF left # 0 THEN SetOp(s, e, left) ELSE RemoveAt(s, e)
  BY DEF DelArcFrom
<1> HIDE DEF e
<1>8. H[<<p, d>>] = Size(s[e].op)
  BY <1>0, <1>6 DEF Told
<1>9. /\ left \in Short
      /\ left # 0 => Sort(left) = d /\ Size(left) = h
      /\ left = 0 => h = 0
  <2>1. s[e].op \in Short /\ Sort(s[e].op) = Sort(w) /\ Size(w) <= Size(s[e].op)
    BY <1>1, <1>2, <1>5, <1>6, <1>8
  <2>2. /\ left \in Short
        /\ left # 0 => Sort(left) = Sort(w) /\ Size(left) = Size(s[e].op) - Size(w)
        /\ left = 0 => Size(s[e].op) = Size(w)
    BY <2>1, LessOf
  <2> HIDE DEF left
  <2> QED BY <1>1, <1>2, <1>8, <2>2
<1> HIDE DEF left, d
<1>10. CASE left # 0
  <2>1. t = SetOp(s, e, left)
    BY <1>7, <1>10
  <2>2. /\ t \in Seq(Sop) /\ Len(t) = Len(s)
        /\ t[e].num = s[e].num /\ t[e].op = left
        /\ \A i \in 1..Len(s) : i # e => t[i] = s[i]
    <3>1. s \in Seq(Sop) /\ e \in 1..Len(s) /\ left \in Short
      BY <1>0, <1>6, <1>9
    <3>2. IsSet(t, s, e, left)
      BY <2>1, <3>1, SetAt
    <3> QED BY <3>2 DEF IsSet
  <2>3. \A i \in 1..Len(s) : t[i].num = s[i].num /\ Sort(t[i].op) = Sort(s[i].op)
    BY <1>6, <1>9, <1>10, <2>2
  <2>4. Layered(t)
    BY <1>0, <2>2, <2>3 DEF Layered
  <2>5. Single(t)
    BY <1>0, <2>2, <2>3 DEF Single
  <2>6. Told(t, K)
    <3>1. ASSUME NEW i \in 1..Len(s) PROVE K[<<s[i].num, Sort(s[i].op)>>] = Size(t[i].op)
      <4>1. CASE i = e
        BY <1>4, <1>6, <1>9, <1>10, <2>2, <4>1
      <4>2. CASE i # e
        <5>1. ~(s[i].num = p /\ Sort(s[i].op) = d)
          BY <1>0, <1>6, <4>2 DEF Single
        <5>2. H[<<s[i].num, Sort(s[i].op)>>] = Size(s[i].op)
          BY <1>0 DEF Told
        <5> QED BY <1>4, <1>5, <2>2, <4>2, <5>1, <5>2
      <4> QED BY <4>1, <4>2
    <3> QED BY <2>2, <2>3, <3>1 DEF Told
  <2>7. Kept(t, K)
    <3>1. ASSUME NEW q \in Place, NEW c \in Sorts, K[<<q, c>>] > 0
          PROVE  \E i \in 1..Len(s) : s[i].num = q /\ Sort(s[i].op) = c
      <4>1. CASE q = p /\ c = d
        BY <1>6, <4>1
      <4>2. CASE ~(q = p /\ c = d)
        <5>1. H[<<q, c>>] > 0
          BY <1>4, <3>1, <4>2
        <5> QED BY <1>0, <5>1 DEF Kept
      <4> QED BY <4>1, <4>2
    <3>2. Len(t) = Len(s) /\ \A i \in 1..Len(s) : t[i].num = s[i].num /\ Sort(t[i].op) = Sort(s[i].op)
      BY <2>2, <2>3
    <3> QED BY <3>1, <3>2 DEF Kept
  <2> QED BY <1>4, <2>2, <2>4, <2>5, <2>6, <2>7 DEF Shows
<1>11. CASE left = 0
  <2>1. t = RemoveAt(s, e)
    BY <1>7, <1>11
  <2>2. /\ t \in Seq(Sop) /\ Len(t) = Len(s) - 1
        /\ \A i \in 1..Len(t) : t[i] = IF i < e THEN s[i] ELSE s[i + 1]
    BY <1>0, <1>6, <2>1, TakeOut
  <2> DEFINE g == [i \in 1..Len(t) |-> IF i < e THEN i ELSE i + 1]
  <2>3. /\ g \in [1..Len(t) -> 1..Len(s)]
        /\ \A i \in 1..Len(t) : t[i] = s[g[i]] /\ g[i] # e
        /\ \A i, j \in 1..Len(t) : i < j <=> g[i] < g[j]
    <3>1. e \in Nat /\ Len(t) \in Nat /\ Len(s) = Len(t) + 1
      BY <1>0, <1>6, <2>2
    <3>2. \A i \in 1..Len(t) : g[i] \in 1..Len(s) /\ g[i] # e /\ g[i] = IF i < e THEN i ELSE i + 1
      BY <3>1
    <3>3. g \in [1..Len(t) -> 1..Len(s)]
      BY <3>1
    <3> HIDE DEF g
    <3>4. \A i \in 1..Len(t) : t[i] = s[g[i]]
      BY <2>2, <3>2
    <3>5. \A i, j \in 1..Len(t) : i < j <=> g[i] < g[j]
      BY <3>1, <3>2
    <3> QED BY <3>2, <3>3, <3>4, <3>5
  <2>4. \A k \in 1..Len(s) : k # e => \E i \in 1..Len(t) : k = g[i]
    <3> SUFFICES ASSUME NEW k \in 1..Len(s), k # e PROVE \E i \in 1..Len(t) : k = g[i]
      OBVIOUS
    <3>1. CASE k < e
      <4>1. k \in 1..Len(t) /\ k = g[k]
        BY <1>0, <1>6, <2>2, <3>1
      <4> QED BY <4>1
    <3>2. CASE e < k
      <4>1. k - 1 \in 1..Len(t) /\ k = g[k - 1]
        BY <1>0, <1>6, <2>2, <3>2
      <4> QED BY <4>1
    <3> QED BY <1>6, <3>1, <3>2
  <2> HIDE DEF g
  <2>5. \A i \in 1..Len(t) : ~(s[g[i]].num = p /\ Sort(s[g[i]].op) = d)
    BY <1>0, <1>6, <2>3 DEF Single
  <2>6. Layered(t)
    <3> SUFFICES ASSUME NEW i \in 1..Len(t), NEW j \in 1..Len(t), i < j
                 PROVE  Sort(t[i].op) <= Sort(t[j].op)
      BY DEF Layered
    <3>1. g[i] \in 1..Len(s) /\ g[j] \in 1..Len(s) /\ g[i] < g[j] /\ t[i] = s[g[i]] /\ t[j] = s[g[j]]
      BY <2>3
    <3>2. Sort(s[g[i]].op) <= Sort(s[g[j]].op)
      BY <1>0, <3>1 DEF Layered
    <3> QED BY <3>1, <3>2
  <2>7. Single(t)
    <3> SUFFICES ASSUME NEW i \in 1..Len(t), NEW j \in 1..Len(t),
                        t[i].num = t[j].num, Sort(t[i].op) = Sort(t[j].op)
                 PROVE  i = j
      BY DEF Single
    <3>1. g[i] \in 1..Len(s) /\ g[j] \in 1..Len(s) /\ t[i] = s[g[i]] /\ t[j] = s[g[j]]
          /\ (i < j <=> g[i] < g[j]) /\ (j < i <=> g[j] < g[i])
      BY <2>3
    <3>2. g[i] = g[j]
      BY <1>0, <3>1 DEF Single
    <3> QED BY <3>1, <3>2
  <2>8. Told(t, K)
    <3> SUFFICES ASSUME NEW i \in 1..Len(t)
                 PROVE  K[<<t[i].num, Sort(t[i].op)>>] = Size(t[i].op)
      BY DEF Told
    <3>1. t[i] = s[g[i]] /\ g[i] \in 1..Len(s)
      BY <2>3
    <3>2. H[<<t[i].num, Sort(t[i].op)>>] = Size(t[i].op)
      BY <1>0, <3>1 DEF Told
    <3> QED BY <1>4, <1>5, <2>5, <3>1, <3>2
  <2>9. Kept(t, K)
    <3> SUFFICES ASSUME NEW q \in Place, NEW c \in Sorts, K[<<q, c>>] > 0
                 PROVE  \E i \in 1..Len(t) : t[i].num = q /\ Sort(t[i].op) = c
      BY DEF Kept
    <3>1. ~(q = p /\ c = d)
      BY <1>4, <1>9, <1>11
    <3>2. H[<<q, c>>] > 0
      BY <1>4, <3>1
    <3>3. PICK k \in 1..Len(s) : s[k].num = q /\ Sort(s[k].op) = c
      BY <1>0, <3>2 DEF Kept
    <3>4. PICK i \in 1..Len(t) : k = g[i]
      BY <1>6, <2>4, <3>1, <3>3
    <3> QED BY <2>3, <3>3, <3>4
  <2> QED BY <1>4, <2>2, <2>6, <2>7, <2>8, <2>9 DEF Shows
<1> QED BY <1>10, <1>11

(***************************************************************************)
(* What semop does with the array.                                         *)
(***************************************************************************)
Results == {"ok", "block", "error"}
Markings == [Place -> 0..ShortMax]
Acc == [res : Results, val : Markings]

\* An operation of semop leaves a marking.
LEMMA SemopTyped ==
  ASSUME NEW acc \in Acc, NEW sop \in Sop
  PROVE  SemopStep(acc, sop) \in Acc
<1> DEFINE v == acc.val[sop.num] + sop.op
           put == [acc.val EXCEPT ![sop.num] = v]
<1>1. acc.res \in Results /\ acc.val \in Markings /\ sop.num \in Place /\ sop.op \in Int
  BY TransitionAssumption DEF Acc, Sop, Short
<1>2. v \in Int
  BY <1>1, TransitionAssumption DEF Markings
<1>3. ~(v < 0) /\ ~(v > ShortMax) => put \in Markings
  BY <1>1, <1>2, TransitionAssumption DEF Markings
<1>4. [acc EXCEPT !.res = "block"] \in Acc /\ [acc EXCEPT !.res = "error"] \in Acc
  BY DEF Acc, Results
<1>5. put \in Markings => [res |-> "ok", val |-> put] \in Acc
  BY DEF Acc, Results
<1>6. SemopStep(acc, sop) =
        IF acc.res # "ok" THEN acc
        ELSE IF v < 0 \/ (sop.op = 0 /\ v # 0) THEN [acc EXCEPT !.res = "block"]
        ELSE IF v > ShortMax THEN [acc EXCEPT !.res = "error"]
        ELSE [res |-> "ok", val |-> put]
  BY DEF SemopStep
<1> HIDE DEF v, put
<1> QED BY <1>3, <1>4, <1>5, <1>6

\* The states of a loop are those its rounds say, and no others.
Same(f, g, n) == \A k \in 0..n : g[k] = f[k]
LEMMA LoopIs ==
  ASSUME NEW S, NEW base, NEW n \in Nat, NEW G, NEW f, Loop(f, n, S, base, G),
         NEW g, Rounds(g, n, S, base, G)
  PROVE  Same(f, g, n)
<1> USE DEF Loop, Rounds
<1> DEFINE Bad == {k \in 0..n : g[k] # f[k]}
<1>1. ASSUME Bad # {} PROVE FALSE
  <2>0. Bad \in SUBSET Nat
    OBVIOUS
  <2> HIDE DEF Bad
  <2>1. PICK k \in Bad : \A i \in Bad : k <= i
    BY <1>1, <2>0, LeastOf
  <2> USE DEF Bad
  <2>2. k \in 1..n /\ k - 1 \in 0..n
    BY <2>1
  <2>3. k - 1 \notin Bad
    BY <2>1, <2>2
  <2>4. g[k - 1] = f[k - 1] /\ f[k - 1] \in S
    BY <2>2, <2>3
  <2> QED BY <2>1, <2>2, <2>4
<1> QED BY <1>1 DEF Same

\* The markings that semop goes through, and what plc_synch makes of the last.
LEMMA RunOf ==
  ASSUME NEW s \in Seq(Sop), s # <<>>, NEW m \in Markings
  PROVE  \E r \in [0..Len(s) -> Acc] :
           /\ r[0] = [res |-> "ok", val |-> m]
           /\ \A k \in 1..Len(s) : r[k] = SemopStep(r[k - 1], s[k])
           /\ Synch(s, m) = IF r[Len(s)].res = "ok" THEN r[Len(s)]
                            ELSE [res |-> r[Len(s)].res, val |-> m]
<1> DEFINE n == Len(s)
           base == [res |-> "ok", val |-> m]
           G == [x \in (1..n) \X Acc |-> SemopStep(x[2], s[x[1]])]
           run[k \in 0..Len(s)] ==
             IF k = 0 THEN [res |-> "ok", val |-> m] ELSE SemopStep(run[k - 1], s[k])
<1>0. n \in Nat /\ n > 0 /\ \A k \in 1..n : s[k] \in Sop
  OBVIOUS
<1>1. base \in Acc
  BY DEF Acc, Results
<1>2. Synch(s, m) = IF run[Len(s)].res = "ok" THEN run[Len(s)]
                    ELSE [res |-> run[Len(s)].res, val |-> m]
  BY DEF Synch
<1>3. G \in [(1..n) \X Acc -> Acc]
  <2> SUFFICES ASSUME NEW x \in (1..n) \X Acc PROVE SemopStep(x[2], s[x[1]]) \in Acc
    OBVIOUS
  <2> QED BY <1>0, SemopTyped
<1>4. \A k \in 1..n, a \in Acc : G[<<k, a>>] = SemopStep(a, s[k])
  OBVIOUS
<1> HIDE DEF G, base, n, run
<1>14. PICK f : Loop(f, n, Acc, base, G)
  BY <1>0, <1>1, <1>3, LoopRuns
<1>5. f \in [0..n -> Acc] /\ f[0] = base /\ \A k \in 1..n : f[k] = G[<<k, f[k - 1]>>]
  BY <1>14 DEF Loop
<1>6. \A k \in 1..n : f[k] = SemopStep(f[k - 1], s[k])
  <2> SUFFICES ASSUME NEW k \in 1..n PROVE f[k] = SemopStep(f[k - 1], s[k])
    OBVIOUS
  <2>1. k - 1 \in 0..n
    BY <1>0
  <2>2. f[k - 1] \in Acc
    BY <1>5, <2>1
  <2> QED BY <1>4, <1>5, <2>2
<1>7. f = [k \in 0..n |-> IF k = 0 THEN base ELSE SemopStep(f[k - 1], s[k])]
  <2> DEFINE h == [k \in 0..n |-> IF k = 0 THEN base ELSE SemopStep(f[k - 1], s[k])]
  <2>1. ASSUME NEW k \in 0..n PROVE f[k] = h[k]
    <3>1. k = 0 \/ k \in 1..n
      BY <1>0
    <3> QED BY <1>5, <1>6, <3>1
  <2>2. h = [k \in 0..n |-> h[k]] /\ f = [k \in 0..n |-> f[k]]
    BY <1>5
  <2> HIDE DEF h
  <2>3. f = h
    BY <2>1, <2>2
  <2> QED BY <2>3 DEF h
<1>8. run = [k \in 0..n |-> IF k = 0 THEN base ELSE SemopStep(run[k - 1], s[k])]
  BY <1>7 DEF base, n, run
<1>9. run[0] = base /\ \A k \in 1..n : run[k] = SemopStep(run[k - 1], s[k])
  <2> DEFINE h == [k \in 0..n |-> IF k = 0 THEN base ELSE SemopStep(run[k - 1], s[k])]
  <2>1. h[0] = base /\ \A k \in 1..n : h[k] = SemopStep(run[k - 1], s[k])
    BY <1>0
  <2>2. run = h
    BY <1>8
  <2> HIDE DEF h
  <2>3. h[0] = run[0] /\ \A k \in 1..n : h[k] = run[k]
    BY <2>2
  <2> QED BY <2>1, <2>3
<1>10. Rounds(run, n, Acc, base, G)
  BY <1>4, <1>9 DEF Rounds
<1>11. Same(f, run, n)
  BY <1>0, <1>10, <1>14, LoopIs
<1>12. run[n] = f[n]
  BY <1>0, <1>11 DEF Same
<1>13. Synch(s, m) = IF f[n].res = "ok" THEN f[n] ELSE [res |-> f[n].res, val |-> m]
  BY <1>2, <1>12 DEF n
<1> QED BY <1>5, <1>6, <1>13 DEF n, base

\* A place has no wait arc beside a null arc.
Apart(H) == \A p \in Place : H[<<p, 0>>] > 0 => H[<<p, -1>>] = 0

\* The operation i of the array cannot be done on the marking m, once the waits
\* before it are.
Fails(s, H, m, i) ==
  LET p == s[i].num
      d == Sort(s[i].op)
  IN \/ d = -1 /\ m[p] < H[<<p, -1>>]
     \/ d = 0 /\ m[p] # 0
     \/ d = 1 /\ m[p] - H[<<p, -1>>] + H[<<p, 1>>] > ShortMax

\* What is in a place after the first k operations.
Done(s, k, p, d) == \E i \in 1..k : s[i].num = p /\ Sort(s[i].op) = d
Level(s, H, m, k, p) == m[p] - (IF Done(s, k, p, -1) THEN H[<<p, -1>>] ELSE 0)
                             + (IF Done(s, k, p, 1) THEN H[<<p, 1>>] ELSE 0)

\* What semop has come to: it goes on, it met a wait or a null arc that it cannot
\* do, or only a signal.
Passing(s, H, m, k, acc) ==
  /\ acc.res = "ok" /\ \A i \in 1..k : ~Fails(s, H, m, i)
  /\ \A p \in Place : acc.val[p] = Level(s, H, m, k, p)
Blocked(s, H, m, k, acc) ==
  acc.res = "block" /\ \E i \in 1..k : Fails(s, H, m, i) /\ Sort(s[i].op) # 1
TooMany(s, H, m, k, acc) ==
  /\ acc.res = "error" /\ \E i \in 1..k : Fails(s, H, m, i)
  /\ \A i \in 1..k : Fails(s, H, m, i) => Sort(s[i].op) = 1
Reached(s, H, m, k, acc) ==
  Passing(s, H, m, k, acc) \/ Blocked(s, H, m, k, acc) \/ TooMany(s, H, m, k, acc)

\* The number of the operation and what was done before it.
LEMMA Before ==
  ASSUME NEW s, NEW H \in Heights, Shows(s, H), Apart(H), NEW k \in 1..Len(s), NEW p, p = s[k].num,
         NEW d, d = Sort(s[k].op)
  PROVE  /\ p \in Place /\ d \in Sorts /\ s[k].op \in Int
         /\ ~Done(s, k - 1, p, d)
         /\ d # 1 => ~Done(s, k - 1, p, 1) /\ ~Done(s, k - 1, p, -1)
         /\ d = 1 => (Done(s, k - 1, p, -1) \/ H[<<p, -1>>] = 0)
         /\ d = -1 => s[k].op = -H[<<p, -1>>]
         /\ d = 0 => s[k].op = 0
         /\ d = 1 => s[k].op = H[<<p, 1>>]
<1>0. s \in Seq(Sop) /\ Len(s) \in Nat /\ Layered(s) /\ Single(s) /\ Told(s, H) /\ Kept(s, H)
  BY DEF Shows
<1>1. \A i \in 1..Len(s) : s[i].num \in Place /\ s[i].op \in Short
                           /\ Sort(s[i].op) \in Sorts /\ Sort(s[i].op) \in Int
  BY <1>0, SopOf, SortOf
<1>2. p \in Place /\ d \in Sorts /\ d \in Int /\ s[k].op \in Int
  BY <1>1, SortOf
<1>3. H[<<p, d>>] = Size(s[k].op)
  BY <1>0 DEF Told
<1>4. /\ d = -1 => s[k].op = -H[<<p, -1>>]
      /\ d = 0 => s[k].op = 0 /\ H[<<p, 0>>] > 0
      /\ d = 1 => s[k].op = H[<<p, 1>>]
  <2>1. s[k].op \in Short
    BY <1>1
  <2>2. LET op == s[k].op
        IN  /\ op \in Int /\ Size(op) \in Nat /\ Size(op) > 0
            /\ d = -1 => op < 0 /\ Size(op) = -op
            /\ d = 0 => op = 0
            /\ d = 1 => Size(op) = op
    BY <2>1, SortOf
  <2> QED BY <1>3, <2>2
<1>5. ~Done(s, k - 1, p, d)
  <2> SUFFICES ASSUME NEW i \in 1..k - 1, s[i].num = p, Sort(s[i].op) = d PROVE FALSE
    BY DEF Done
  <2>1. i \in 1..Len(s) /\ i # k
    BY <1>0
  <2> QED BY <1>0, <2>1 DEF Single
<1>6. ASSUME d # 1 PROVE ~Done(s, k - 1, p, 1)
  <2> SUFFICES ASSUME NEW i \in 1..k - 1, s[i].num = p, Sort(s[i].op) = 1 PROVE FALSE
    BY DEF Done
  <2>1. i \in 1..Len(s) /\ i < k
    BY <1>0
  <2>2. 1 <= d
    BY <1>0, <2>1 DEF Layered
  <2> QED BY <1>2, <1>6, <2>2 DEF Sorts
<1>7. ASSUME d = 0 PROVE ~Done(s, k - 1, p, -1)
  <2> SUFFICES ASSUME NEW i \in 1..k - 1, s[i].num = p, Sort(s[i].op) = -1 PROVE FALSE
    BY DEF Done
  <2>1. i \in 1..Len(s)
    BY <1>0
  <2>2. H[<<p, -1>>] = Size(s[i].op) /\ Size(s[i].op) > 0
    <3>1. H[<<s[i].num, Sort(s[i].op)>>] = Size(s[i].op)
      BY <1>0, <2>1 DEF Told
    <3>2. Size(s[i].op) > 0
      BY <1>1, <2>1, SortOf
    <3> QED BY <3>1, <3>2
  <2>3. H[<<p, -1>>] = 0
    BY <1>2, <1>4, <1>7 DEF Apart
  <2> QED BY <2>2, <2>3
<1>8. ASSUME d = 1, H[<<p, -1>>] # 0 PROVE Done(s, k - 1, p, -1)
  <2>1. H[<<p, -1>>] > 0
    <3>1. H[<<p, -1>>] \in 0..ShortMax
      BY <1>2 DEF Heights, Sorts
    <3> QED BY <1>8, <3>1, TransitionAssumption
  <2>2. -1 \in Sorts
    BY DEF Sorts
  <2>3. PICK i \in 1..Len(s) : s[i].num = p /\ Sort(s[i].op) = -1
    BY <1>0, <1>2, <2>1, <2>2 DEF Kept
  <2>4. ~(k < i) /\ k # i
    <3>1. k < i => Sort(s[k].op) <= Sort(s[i].op)
      BY <1>0, <2>3 DEF Layered
    <3>2. Sort(s[k].op) = 1 /\ Sort(s[i].op) = -1
      BY <1>8, <2>3
    <3>3. k # i /\ ~(Sort(s[k].op) <= Sort(s[i].op))
      BY <3>2
    <3> QED BY <3>1, <3>3
  <2>5. i \in 1..k - 1
    BY <1>0, <2>4
  <2> QED BY <2>3, <2>5 DEF Done
<1>9. d # 1 => d = -1 \/ d = 0
  BY <1>2 DEF Sorts
<1>10. d = -1 => ~Done(s, k - 1, p, -1)
  BY <1>5
<1> QED BY <1>2, <1>4, <1>5, <1>6, <1>7, <1>8, <1>9, <1>10

\* The operations done, one more of them.
LEMMA DoneNext ==
  ASSUME NEW s, NEW k \in Nat \ {0}, NEW q, NEW c
  PROVE  Done(s, k, q, c) <=> (Done(s, k - 1, q, c) \/ (s[k].num = q /\ Sort(s[k].op) = c))
<1>1. 1..k = (1..k - 1) \cup {k}
  OBVIOUS
<1> QED BY <1>1 DEF Done

\* One operation of semop.
LEMMA SemopPasses ==
  ASSUME NEW s, NEW H \in Heights, Shows(s, H), Apart(H), NEW m \in Markings,
         NEW k \in 1..Len(s), NEW acc \in Acc, Passing(s, H, m, k - 1, acc),
         NEW new, new = SemopStep(acc, s[k])
  PROVE  /\ ~Fails(s, H, m, k) => new.res = "ok" /\ \A q \in Place : new.val[q] = Level(s, H, m, k, q)
         /\ Fails(s, H, m, k) => new.res = IF Sort(s[k].op) = 1 THEN "error" ELSE "block"
<1> DEFINE p == s[k].num
           d == Sort(s[k].op)
           op == s[k].op
           v == acc.val[p] + op
           W == H[<<p, -1>>]
           U == H[<<p, 1>>]
<1>1. /\ p \in Place /\ d \in Sorts /\ op \in Int
      /\ ~Done(s, k - 1, p, d)
      /\ d # 1 => ~Done(s, k - 1, p, 1) /\ ~Done(s, k - 1, p, -1)
      /\ d = 1 => (Done(s, k - 1, p, -1) \/ W = 0)
      /\ d = -1 => op = -W
      /\ d = 0 => op = 0
      /\ d = 1 => op = U
  BY Before
<1>2. /\ acc.res = "ok" /\ acc.val \in Markings
      /\ \A q \in Place : acc.val[q] = Level(s, H, m, k - 1, q)
  BY DEF Passing, Acc
<1>3. /\ m[p] \in 0..ShortMax /\ acc.val[p] \in 0..ShortMax /\ ShortMax \in Nat
      /\ W \in 0..ShortMax /\ U \in 0..ShortMax
  BY <1>1, <1>2, TransitionAssumption DEF Markings, Heights, Sorts
<1>4. new = IF v < 0 \/ (op = 0 /\ v # 0) THEN [acc EXCEPT !.res = "block"]
            ELSE IF v > ShortMax THEN [acc EXCEPT !.res = "error"]
            ELSE [res |-> "ok", val |-> [acc.val EXCEPT ![p] = v]]
  BY <1>2 DEF SemopStep
<1>5. /\ [acc EXCEPT !.res = "block"].res = "block" /\ [acc EXCEPT !.res = "error"].res = "error"
  BY DEF Acc, Results
<1>6. /\ v < 0 \/ (op = 0 /\ v # 0) => new.res = "block"
      /\ ~(v < 0) /\ ~(op = 0 /\ v # 0) /\ v > ShortMax => new.res = "error"
      /\ ~(v < 0) /\ ~(op = 0 /\ v # 0) /\ ~(v > ShortMax) =>
           new.res = "ok" /\ new.val = [acc.val EXCEPT ![p] = v]
  <2> HIDE DEF v, op, p
  <2> QED BY <1>4, <1>5
<1>7. v = Level(s, H, m, k - 1, p) + op
  BY <1>1, <1>2
<1>8. Fails(s, H, m, k) <=> \/ d = -1 /\ m[p] < W
                            \/ d = 0 /\ m[p] # 0
                            \/ d = 1 /\ m[p] - W + U > ShortMax
  BY DEF Fails
<1>9. \A q \in Place : q # p => Level(s, H, m, k, q) = acc.val[q]
  <2> SUFFICES ASSUME NEW q \in Place, q # p PROVE Level(s, H, m, k, q) = acc.val[q]
    OBVIOUS
  <2>1. Done(s, k, q, -1) <=> Done(s, k - 1, q, -1)
    BY DoneNext
  <2>2. Done(s, k, q, 1) <=> Done(s, k - 1, q, 1)
    BY DoneNext
  <2>3. Level(s, H, m, k, q) = Level(s, H, m, k - 1, q)
    BY <2>1, <2>2 DEF Level
  <2> QED BY <1>2, <2>3
<1>10. /\ Done(s, k, p, -1) <=> (Done(s, k - 1, p, -1) \/ d = -1)
       /\ Done(s, k, p, 1) <=> (Done(s, k - 1, p, 1) \/ d = 1)
  BY DoneNext
<1>11. [acc.val EXCEPT ![p] = v][p] = v /\ \A q \in Place : q # p => [acc.val EXCEPT ![p] = v][q] = acc.val[q]
  <2> HIDE DEF v, p
  <2> QED BY <1>1, <1>2 DEF Markings
<1>12. ASSUME new.val = [acc.val EXCEPT ![p] = v], Level(s, H, m, k, p) = v
       PROVE  \A q \in Place : new.val[q] = Level(s, H, m, k, q)
  <2> HIDE DEF v, p
  <2> QED BY <1>9, <1>11, <1>12
<1> HIDE DEF p, d, op, v
<1>13. CASE d = -1
  <2>1. v = m[p] - W /\ Level(s, H, m, k, p) = m[p] - W
    BY <1>1, <1>3, <1>7, <1>10, <1>13 DEF Level
  <2>2. op = 0 => v = m[p] /\ W = 0
    BY <1>1, <1>3, <1>13, <2>1
  <2>3. CASE m[p] < W
    <3>1. new.res = "block"
      BY <1>3, <1>6, <2>1, <2>3
    <3> QED BY <1>8, <1>13, <2>3, <3>1 DEF d
  <2>4. CASE ~(m[p] < W)
    <3>1. d = Sort(op) /\ op \in Short
      BY SopOf DEF d, op, Shows
    <3>2. op # 0
      BY <1>13, <3>1, SortOf
    <3>3. ~(v < 0) /\ ~(v > ShortMax)
      BY <1>3, <2>1, <2>4
    <3> QED BY <1>6, <1>8, <1>12, <1>13, <2>1, <2>4, <3>2, <3>3
  <2> QED BY <2>3, <2>4
<1>14. CASE d = 0
  <2>1. v = m[p] /\ Level(s, H, m, k, p) = m[p] /\ op = 0
    BY <1>1, <1>3, <1>7, <1>10, <1>14 DEF Level
  <2>2. CASE m[p] # 0
    BY <1>6, <1>8, <1>14, <2>1, <2>2 DEF d
  <2>3. CASE m[p] = 0
    <3>1. ~(v < 0) /\ ~(op = 0 /\ v # 0) /\ ~(v > ShortMax)
      BY <1>3, <2>1, <2>3
    <3> QED BY <1>6, <1>8, <1>12, <1>14, <2>1, <2>3, <3>1
  <2> QED BY <2>2, <2>3
<1>15. CASE d = 1
  <2>1. acc.val[p] = m[p] - W /\ op = U /\ Level(s, H, m, k, p) = m[p] - W + U
    BY <1>1, <1>2, <1>3, <1>10, <1>15 DEF Level
  <2>2. v = m[p] - W + U /\ ~(v < 0)
    BY <1>3, <2>1 DEF v
  <2>3. op # 0
    <3>1. d = Sort(op) /\ op \in Short
      BY SopOf DEF d, op, Shows
    <3> QED BY <1>15, <3>1, SortOf
  <2>4. CASE m[p] - W + U > ShortMax
    BY <1>6, <1>8, <1>15, <2>2, <2>3, <2>4 DEF d
  <2>5. CASE ~(m[p] - W + U > ShortMax)
    BY <1>6, <1>8, <1>12, <1>15, <2>1, <2>2, <2>3, <2>5
  <2> QED BY <2>4, <2>5
<1> QED BY <1>1, <1>13, <1>14, <1>15 DEF Sorts

\* One operation, whatever came before it.
LEMMA SemopReaches ==
  ASSUME NEW s, NEW H \in Heights, Shows(s, H), Apart(H), NEW m \in Markings,
         NEW k \in 1..Len(s), NEW acc \in Acc, Reached(s, H, m, k - 1, acc)
  PROVE  Reached(s, H, m, k, SemopStep(acc, s[k]))
<1> DEFINE new == SemopStep(acc, s[k])
<1>0. 1..k = (1..k - 1) \cup {k} /\ k \in 1..k /\ Len(s) \in Nat
  BY DEF Shows
<1>1. CASE Passing(s, H, m, k - 1, acc)
  <2>1. /\ ~Fails(s, H, m, k) => new.res = "ok" /\ \A q \in Place : new.val[q] = Level(s, H, m, k, q)
        /\ Fails(s, H, m, k) => new.res = IF Sort(s[k].op) = 1 THEN "error" ELSE "block"
    BY <1>1, SemopPasses
  <2> HIDE DEF new
  <2>2. \A i \in 1..k - 1 : ~Fails(s, H, m, i)
    BY <1>1 DEF Passing
  <2>3. CASE ~Fails(s, H, m, k)
    <3>1. Passing(s, H, m, k, new)
      BY <1>0, <2>1, <2>2, <2>3 DEF Passing
    <3> QED BY <3>1 DEF Reached, new
  <2>4. CASE Fails(s, H, m, k) /\ Sort(s[k].op) = 1
    <3>1. TooMany(s, H, m, k, new)
      BY <1>0, <2>1, <2>2, <2>4 DEF TooMany
    <3> QED BY <3>1 DEF Reached, new
  <2>5. CASE Fails(s, H, m, k) /\ Sort(s[k].op) # 1
    <3>1. Blocked(s, H, m, k, new)
      BY <1>0, <2>1, <2>5 DEF Blocked
    <3> QED BY <3>1 DEF Reached, new
  <2> QED BY <2>3, <2>4, <2>5
<1>2. CASE Blocked(s, H, m, k - 1, acc)
  <2>1. new = acc
    BY <1>2 DEF SemopStep, Blocked
  <2> HIDE DEF new
  <2>2. Blocked(s, H, m, k, new)
    BY <1>0, <1>2, <2>1 DEF Blocked
  <2> QED BY <2>2 DEF Reached, new
<1>3. CASE TooMany(s, H, m, k - 1, acc)
  <2>1. new = acc
    BY <1>3 DEF SemopStep, TooMany
  <2> HIDE DEF new
  <2>2. PICK i \in 1..k - 1 : Fails(s, H, m, i) /\ Sort(s[i].op) = 1
    BY <1>3 DEF TooMany
  <2>3. i \in 1..Len(s) /\ i < k
    BY <1>0
  <2>4. 1 <= Sort(s[k].op)
    BY <2>2, <2>3 DEF Shows, Layered
  <2>5. Sort(s[k].op) = 1
    BY <2>4 DEF Sort
  <2>6. TooMany(s, H, m, k, new)
    BY <1>0, <1>3, <2>1, <2>5 DEF TooMany
  <2> QED BY <2>6 DEF Reached, new
<1> QED BY <1>1, <1>2, <1>3 DEF Reached

\* All the operations.
LEMMA AllReached ==
  ASSUME NEW s, NEW H \in Heights, Shows(s, H), Apart(H), NEW m \in Markings,
         NEW r \in [0..Len(s) -> Acc], r[0] = [res |-> "ok", val |-> m],
         \A k \in 1..Len(s) : r[k] = SemopStep(r[k - 1], s[k])
  PROVE  Reached(s, H, m, Len(s), r[Len(s)])
<1> DEFINE Bad == {k \in 0..Len(s) : ~Reached(s, H, m, k, r[k])}
<1>0. Len(s) \in Nat
  BY DEF Shows
<1>1. ASSUME Bad # {} PROVE FALSE
  <2>0. Bad \in SUBSET Nat
    OBVIOUS
  <2> HIDE DEF Bad
  <2>1. PICK k \in Bad : \A i \in Bad : k <= i
    BY <1>1, <2>0, LeastOf
  <2>2. k \in 0..Len(s) /\ ~Reached(s, H, m, k, r[k])
    BY DEF Bad
  <2>3. CASE k = 0
    <3>1. r[0].res = "ok" /\ r[0].val = m
      OBVIOUS
    <3>2. \A p \in Place : m[p] = Level(s, H, m, 0, p)
      <4> SUFFICES ASSUME NEW p \in Place PROVE m[p] = Level(s, H, m, 0, p)
        OBVIOUS
      <4>1. ~Done(s, 0, p, -1) /\ ~Done(s, 0, p, 1)
        BY DEF Done
      <4>2. m[p] \in Int
        BY TransitionAssumption DEF Markings
      <4> QED BY <4>1, <4>2 DEF Level
    <3>3. Passing(s, H, m, 0, r[0])
      BY <3>1, <3>2 DEF Passing
    <3> QED BY <2>2, <2>3, <3>3 DEF Reached
  <2>4. CASE k # 0
    <3>1. k \in 1..Len(s) /\ k - 1 \in 0..Len(s) /\ ~(k <= k - 1)
      BY <1>0, <2>2, <2>4
    <3>2. Reached(s, H, m, k - 1, r[k - 1])
      BY <2>1, <3>1 DEF Bad
    <3>3. r[k - 1] \in Acc
      BY <3>1
    <3>4. Reached(s, H, m, k, SemopStep(r[k - 1], s[k]))
      BY <3>1, <3>2, <3>3, SemopReaches
    <3>5. r[k] = SemopStep(r[k - 1], s[k])
      BY <3>1
    <3> QED BY <2>2, <3>4, <3>5
  <2> QED BY <2>3, <2>4
<1> QED BY <1>0, <1>1

(***************************************************************************)
(* The net of an array that shows it.                                      *)
(***************************************************************************)
Arcs == [wait : [Place -> 0..ShortMax], signal : [Place -> 0..ShortMax],
         null : [Place -> 0..ShortMax]]
Amounts(a) == [x \in Place \X Sorts |-> IF x[2] = -1 THEN a.wait[x[1]]
                                        ELSE IF x[2] = 1 THEN a.signal[x[1]] ELSE a.null[x[1]]]

\* The net as heights, place by place.
LEMMA AmountsOf ==
  ASSUME NEW a \in Arcs
  PROVE  /\ Amounts(a) \in Heights
         /\ \A p \in Place : /\ Amounts(a)[<<p, -1>>] = a.wait[p]
                             /\ Amounts(a)[<<p, 1>>] = a.signal[p]
                             /\ Amounts(a)[<<p, 0>>] = a.null[p]
                             /\ a.wait[p] \in 0..ShortMax /\ a.signal[p] \in 0..ShortMax
                             /\ a.null[p] \in 0..ShortMax
<1>1. /\ a.wait \in [Place -> 0..ShortMax] /\ a.signal \in [Place -> 0..ShortMax]
      /\ a.null \in [Place -> 0..ShortMax]
  BY DEF Arcs
<1>2. ASSUME NEW x \in Place \X Sorts
      PROVE  (IF x[2] = -1 THEN a.wait[x[1]]
              ELSE IF x[2] = 1 THEN a.signal[x[1]] ELSE a.null[x[1]]) \in 0..ShortMax
  BY <1>1
<1>3. Amounts(a) \in Heights
  BY <1>2 DEF Amounts, Heights
<1>4. ASSUME NEW p \in Place
      PROVE  /\ Amounts(a)[<<p, -1>>] = a.wait[p]
             /\ Amounts(a)[<<p, 1>>] = a.signal[p]
             /\ Amounts(a)[<<p, 0>>] = a.null[p]
  BY DEF Amounts, Sorts
<1> QED BY <1>1, <1>3, <1>4

\* At the end of the array every arc has been met.
LEMMA AllDone ==
  ASSUME NEW s, NEW H \in Heights, Shows(s, H), NEW m \in Markings, NEW p \in Place
  PROVE  Level(s, H, m, Len(s), p) = m[p] - H[<<p, -1>>] + H[<<p, 1>>]
<1>1. -1 \in Sorts /\ 1 \in Sorts
  BY DEF Sorts
<1>2. /\ H[<<p, -1>>] \in 0..ShortMax /\ H[<<p, 1>>] \in 0..ShortMax
      /\ m[p] \in 0..ShortMax /\ ShortMax \in Nat
  BY <1>1, TransitionAssumption DEF Heights, Markings
<1>3. ASSUME NEW d \in Sorts, H[<<p, d>>] > 0 PROVE Done(s, Len(s), p, d)
  BY <1>3 DEF Shows, Kept, Done
<1>4. /\ ~Done(s, Len(s), p, -1) => H[<<p, -1>>] = 0
      /\ ~Done(s, Len(s), p, 1) => H[<<p, 1>>] = 0
  BY <1>1, <1>2, <1>3
<1> QED BY <1>2, <1>4 DEF Level

\* The net passes when no operation of a wait or a null arc fails.
LEMMA PassesIf ==
  ASSUME NEW s, NEW m \in Markings, arcs \in Arcs, NEW H, H = Amounts(arcs), Shows(s, H),
         \A i \in 1..Len(s) : Fails(s, H, m, i) => Sort(s[i].op) = 1
  PROVE  NetPasses(m)
<1>1. H \in Heights /\ \A p \in Place : /\ H[<<p, -1>>] = arcs.wait[p]
                                      /\ H[<<p, 0>>] = arcs.null[p]
                                      /\ arcs.wait[p] \in 0..ShortMax
  BY AmountsOf
<1>2. ASSUME NEW p \in Place
      PROVE  m[p] >= arcs.wait[p] /\ (arcs.null[p] > 0 => m[p] = 0)
  <2>0. H[<<p, -1>>] = arcs.wait[p] /\ arcs.wait[p] \in Nat /\ m[p] \in Nat
    <3>1. ShortMax \in Nat
      BY TransitionAssumption
    <3>2. H[<<p, -1>>] = arcs.wait[p]
      BY <1>1
    <3>3. arcs.wait[p] \in 0..ShortMax
      BY <1>1
    <3>4. m[p] \in 0..ShortMax
      BY DEF Markings
    <3> QED BY <3>1, <3>2, <3>3, <3>4
  <2>1. -1 \in Sorts /\ 0 \in Sorts /\ m[p] \in 0..ShortMax /\ ShortMax \in Nat
    BY TransitionAssumption DEF Sorts, Markings
  <2>2. ASSUME arcs.wait[p] > 0 PROVE m[p] >= arcs.wait[p]
    <3>1. PICK i \in 1..Len(s) : s[i].num = p /\ Sort(s[i].op) = -1
      BY <1>1, <2>1, <2>2 DEF Shows, Kept
    <3>2. ~Fails(s, H, m, i)
      BY <3>1
    <3>3. ~(m[p] < H[<<p, -1>>])
      BY <3>1, <3>2 DEF Fails
    <3> QED BY <2>0, <3>3
  <2>3. ASSUME arcs.null[p] > 0 PROVE m[p] = 0
    <3>1. PICK i \in 1..Len(s) : s[i].num = p /\ Sort(s[i].op) = 0
      BY <1>1, <2>1, <2>3 DEF Shows, Kept
    <3>2. ~Fails(s, H, m, i)
      BY <3>1
    <3> QED BY <3>1, <3>2 DEF Fails
  <2>4. arcs.wait[p] = 0 => m[p] >= arcs.wait[p]
    BY <2>0
  <2>5. arcs.wait[p] = 0 \/ arcs.wait[p] > 0
    BY <2>0
  <2> QED BY <2>2, <2>3, <2>4, <2>5
<1> QED BY <1>2 DEF NetPasses

\* semop on an array that shows the net does what the net's transition does.
LEMMA SynchFires ==
  ASSUME NEW s, s # <<>>, NEW m \in Markings, arcs \in Arcs,
         NEW H, H = Amounts(arcs), Shows(s, H), Apart(H)
  PROVE  Synch(s, m) = NetFires(m)
<1>1. H \in Heights /\ \A p \in Place : /\ H[<<p, -1>>] = arcs.wait[p]
                                      /\ H[<<p, 1>>] = arcs.signal[p]
                                      /\ H[<<p, 0>>] = arcs.null[p]
  BY AmountsOf
<1>2. s \in Seq(Sop) /\ Len(s) \in Nat
  BY DEF Shows
<1>3. PICK r \in [0..Len(s) -> Acc] :
           /\ r[0] = [res |-> "ok", val |-> m]
           /\ \A k \in 1..Len(s) : r[k] = SemopStep(r[k - 1], s[k])
           /\ Synch(s, m) = IF r[Len(s)].res = "ok" THEN r[Len(s)]
                            ELSE [res |-> r[Len(s)].res, val |-> m]
  BY <1>2, RunOf
<1> DEFINE a == r[Len(s)]
<1>4. Reached(s, H, m, Len(s), a)
  BY <1>1, <1>3, AllReached
<1>5. a \in Acc /\ Synch(s, m) = IF a.res = "ok" THEN a ELSE [res |-> a.res, val |-> m]
  BY <1>2, <1>3
<1> HIDE DEF a
<1>6. \A p \in Place : Level(s, H, m, Len(s), p) = NetAfter(m)[p]
  <2> SUFFICES ASSUME NEW p \in Place PROVE Level(s, H, m, Len(s), p) = NetAfter(m)[p]
    OBVIOUS
  <2>1. Level(s, H, m, Len(s), p) = m[p] - H[<<p, -1>>] + H[<<p, 1>>]
    BY <1>1, AllDone
  <2> QED BY <1>1, <2>1 DEF NetAfter
<1>7. CASE Passing(s, H, m, Len(s), a)
  <2>1. a.res = "ok" /\ a.val \in Markings /\ \A p \in Place : a.val[p] = NetAfter(m)[p]
    BY <1>5, <1>6, <1>7 DEF Passing, Acc
  <2>2. a.val = NetAfter(m)
    <3>1. a.val = [p \in Place |-> a.val[p]]
      BY <2>1 DEF Markings
    <3>2. NetAfter(m) = [p \in Place |-> NetAfter(m)[p]]
      BY DEF NetAfter
    <3> QED BY <2>1, <3>1, <3>2
  <2>3. a = [res |-> "ok", val |-> NetAfter(m)]
    BY <1>5, <2>1, <2>2 DEF Acc
  <2>4. NetPasses(m)
    BY <1>7, PassesIf DEF Passing
  <2>5. \A p \in Place : ~(NetAfter(m)[p] > ShortMax)
    <3>1. \A p \in Place : a.val[p] \in 0..ShortMax
      BY <2>1 DEF Markings
    <3> QED BY <2>1, <3>1, TransitionAssumption
  <2>6. NetFires(m) = [res |-> "ok", val |-> NetAfter(m)]
    BY <2>4, <2>5 DEF NetFires
  <2> QED BY <1>5, <2>1, <2>3, <2>6
<1>8. CASE Blocked(s, H, m, Len(s), a)
  <2>1. PICK i \in 1..Len(s) : Fails(s, H, m, i) /\ Sort(s[i].op) # 1
    BY <1>8 DEF Blocked
  <2> DEFINE p == s[i].num
  <2>2. p \in Place /\ s[i].op \in Short
    BY <1>2, SopOf
  <2>3. m[p] < arcs.wait[p] \/ (Sort(s[i].op) = 0 /\ m[p] # 0)
    BY <1>1, <2>1, <2>2 DEF Fails
  <2>4. Sort(s[i].op) = 0 => arcs.null[p] > 0
    <3>1. H[<<p, Sort(s[i].op)>>] = Size(s[i].op) /\ Size(s[i].op) > 0
      BY <2>2, SortOf DEF Shows, Told
    <3> QED BY <1>1, <2>2, <3>1
  <2>5. m[p] \in Int /\ arcs.wait[p] \in Int
    <3>1. \A q \in Place : arcs.wait[q] \in 0..ShortMax
      BY AmountsOf
    <3>2. \A q \in Place : m[q] \in 0..ShortMax
      BY DEF Markings
    <3> QED BY <2>2, <3>1, <3>2, TransitionAssumption
  <2>6. ~NetPasses(m)
    <3> HIDE DEF p
    <3> QED BY <2>2, <2>3, <2>4, <2>5 DEF NetPasses
  <2>7. NetFires(m) = [res |-> "block", val |-> m]
    BY <2>6 DEF NetFires
  <2> QED BY <1>5, <1>8, <2>7 DEF Blocked
<1>9. CASE TooMany(s, H, m, Len(s), a)
  <2>1. NetPasses(m)
    BY <1>9, PassesIf DEF TooMany
  <2>2. PICK i \in 1..Len(s) : Fails(s, H, m, i) /\ Sort(s[i].op) = 1
    BY <1>9 DEF TooMany
  <2> DEFINE p == s[i].num
  <2>3. p \in Place
    BY <1>2, SopOf
  <2>4. m[p] - H[<<p, -1>>] + H[<<p, 1>>] > ShortMax
    BY <2>2 DEF Fails
  <2>5. NetAfter(m)[p] > ShortMax
    BY <1>1, <2>3, <2>4 DEF NetAfter
  <2>6. NetFires(m) = [res |-> "error", val |-> m]
    BY <2>1, <2>3, <2>5 DEF NetFires
  <2> QED BY <1>5, <1>9, <2>6 DEF TooMany
<1> QED BY <1>4, <1>7, <1>8, <1>9 DEF Reached

(***************************************************************************)
(* A new synchpt.                                                          *)
(***************************************************************************)
LEMMA AddStoredTyped ==
  ASSUME NEW s \in Seq(Sop), NEW v \in SwValue, NEW w \in Short, NEW p \in Place
  PROVE  /\ AddStored(s, v, w, p) \in Seq(Sop)
         /\ v >= 0 => /\ AddStored(s, v, w, p) = AddArcTo(s, w, p)
                      /\ Len(AddStored(s, v, w, p)) <= Len(s) + 1
         /\ ~(v >= 0) => AddStored(s, v, w, p) = s
<1>1. CASE v >= 0
  <2>1. AddStored(s, v, w, p) = AddArcTo(s, w, p)
    BY <1>1 DEF AddStored
  <2>2. AddArcTo(s, w, p) \in Seq(Sop) /\ Len(AddArcTo(s, w, p)) <= Len(s) + 1
    <3>1. Len(s) \in Nat
      OBVIOUS
    <3> QED BY <3>1, AddTyped
  <2> QED BY <1>1, <2>1, <2>2
<1>2. CASE ~(v >= 0)
  BY <1>2 DEF AddStored
<1> QED BY <1>1, <1>2

\* The arrays that a loop of plc_synchpt_new goes through.
LEMMA AddAllRuns ==
  ASSUME NEW s \in Seq(Sop), NEW v \in [Stored -> SwValue], NEW w \in [Stored -> Short]
  PROVE  \E f \in [0..PlaceCount -> Seq(Sop)] :
           /\ f[0] = s
           /\ \A k \in 1..PlaceCount : f[k] = AddStored(f[k - 1], v[k - 1], w[k - 1], k - 1)
           /\ AddAll(s, v, w) = f[PlaceCount]
<1> DEFINE n == PlaceCount
           S == Seq(Sop)
           G == [x \in (1..n) \X S |-> AddStored(x[2], v[x[1] - 1], w[x[1] - 1], x[1] - 1)]
           added[k \in 0 .. PlaceCount] ==
             IF k = 0 THEN s ELSE AddStored(added[k - 1], v[k - 1], w[k - 1], k - 1)
<1>0. n \in Nat /\ \A k \in 1..n : /\ k - 1 \in Stored /\ k - 1 \in Place
                                   /\ v[k - 1] \in SwValue /\ w[k - 1] \in Short
  BY TransitionAssumption DEF Stored
<1>2. AddAll(s, v, w) = added[PlaceCount]
  BY DEF AddAll
<1>3. G \in [(1..n) \X S -> S]
  <2> SUFFICES ASSUME NEW x \in (1..n) \X S
               PROVE AddStored(x[2], v[x[1] - 1], w[x[1] - 1], x[1] - 1) \in S
    OBVIOUS
  <2>1. x[2] \in Seq(Sop) /\ x[1] \in 1..n
    OBVIOUS
  <2> QED BY <1>0, <2>1, AddStoredTyped
<1>4. \A k \in 1..n, a \in S : G[<<k, a>>] = AddStored(a, v[k - 1], w[k - 1], k - 1)
  OBVIOUS
<1> HIDE DEF G, n, added, S
<1>14. PICK f : Loop(f, n, S, s, G)
  <2>1. s \in S
    BY DEF S
  <2> QED BY <1>0, <1>3, <2>1, LoopRuns
<1>5. f \in [0..n -> S] /\ f[0] = s /\ \A k \in 1..n : f[k] = G[<<k, f[k - 1]>>]
  BY <1>14 DEF Loop
<1>6. \A k \in 1..n : f[k] = AddStored(f[k - 1], v[k - 1], w[k - 1], k - 1)
  <2> SUFFICES ASSUME NEW k \in 1..n
               PROVE f[k] = AddStored(f[k - 1], v[k - 1], w[k - 1], k - 1)
    OBVIOUS
  <2>1. k - 1 \in 0..n
    BY <1>0
  <2>2. f[k - 1] \in S
    BY <1>5, <2>1
  <2> QED BY <1>4, <1>5, <2>2
<1>7. f = [k \in 0..n |-> IF k = 0 THEN s ELSE AddStored(f[k - 1], v[k - 1], w[k - 1], k - 1)]
  <2> DEFINE h == [k \in 0..n |-> IF k = 0 THEN s
                                  ELSE AddStored(f[k - 1], v[k - 1], w[k - 1], k - 1)]
  <2>1. ASSUME NEW k \in 0..n PROVE f[k] = h[k]
    <3>1. k = 0 \/ k \in 1..n
      BY <1>0
    <3> QED BY <1>5, <1>6, <3>1
  <2>2. h = [k \in 0..n |-> h[k]] /\ f = [k \in 0..n |-> f[k]]
    BY <1>5
  <2> HIDE DEF h
  <2>3. f = h
    BY <2>1, <2>2
  <2> QED BY <2>3 DEF h
<1>8. added = [k \in 0..n |-> IF k = 0 THEN s
                             ELSE AddStored(added[k - 1], v[k - 1], w[k - 1], k - 1)]
  BY <1>7 DEF n, added
<1>9. added[0] = s /\ \A k \in 1..n : added[k] = AddStored(added[k - 1], v[k - 1], w[k - 1], k - 1)
  <2> DEFINE h == [k \in 0..n |-> IF k = 0 THEN s
                                  ELSE AddStored(added[k - 1], v[k - 1], w[k - 1], k - 1)]
  <2>1. h[0] = s /\ \A k \in 1..n : h[k] = AddStored(added[k - 1], v[k - 1], w[k - 1], k - 1)
    BY <1>0
  <2>2. added = h
    BY <1>8
  <2> HIDE DEF h
  <2>3. h[0] = added[0] /\ \A k \in 1..n : h[k] = added[k]
    BY <2>2
  <2> QED BY <2>1, <2>3
<1>10. Rounds(added, n, S, s, G)
  BY <1>4, <1>9 DEF Rounds
<1>11. Same(f, added, n)
  BY <1>0, <1>10, <1>14, LoopIs
<1>12. added[n] = f[n]
  BY <1>0, <1>11 DEF Same
<1>13. AddAll(s, v, w) = f[n]
  BY <1>2, <1>12 DEF n
<1> QED BY <1>5, <1>6, <1>13 DEF n, S

NoSignal(H) == \A q \in Place : H[<<q, 1>>] = 0
\* What one arc of the transition does to the array and to the net the array shows.
LEMMA AddStoredShows ==
  ASSUME NEW s, NEW H \in Heights, Shows(s, H), NEW v \in SwValue, v >= 0,
         NEW w \in Short, w = v \/ w = -v, NEW p \in Place, NEW d, d = Sort(w),
         H[<<p, d>>] = 0, v = 0 => NoSignal(H),
         NEW K, K = [H EXCEPT ![<<p, d>>] = Size(w)], NEW t, t = AddStored(s, v, w, p)
  PROVE  Shows(t, K) /\ K \in Heights
<1>1. s \in Seq(Sop) /\ Told(s, H)
  BY DEF Shows
<1>2. t = AddArcTo(s, w, p)
  BY DEF AddStored
<1>3. Size(w) \in Nat /\ Size(w) <= ShortMax
  BY TransitionAssumption DEF SwValue, Size
<1> DEFINE h == H[<<p, Sort(w)>>] + Size(w)
<1>4. h = Size(w) /\ h <= ShortMax
  BY <1>3
<1>5. w = 0 => H[<<p, 0>>] = 0
  BY SortOf
<1>6. ASSUME w = 0, NEW i \in 1..Len(s), Sort(s[i].op) = 1 PROVE FALSE
  <2>1. v = 0
    BY <1>6, TransitionAssumption DEF SwValue
  <2>2. s[i].num \in Place /\ s[i].op \in Short
    BY <1>1, SopOf
  <2>3. Size(s[i].op) > 0
    BY <2>2, SortOf
  <2>4. H[<<s[i].num, 1>>] = Size(s[i].op)
    BY <1>1, <1>6 DEF Told
  <2> QED BY <2>1, <2>2, <2>3, <2>4 DEF NoSignal
<1>7. K = [H EXCEPT ![<<p, Sort(w)>>] = h]
  BY <1>4
<1>8. NullFits(s, H, w, p)
  BY <1>5, <1>6 DEF NullFits
<1>9. h = H[<<p, Sort(w)>>] + Size(w)
  OBVIOUS
<1>10. h <= ShortMax
  BY <1>4
<1> HIDE DEF h
<1> QED BY <1>2, <1>7, <1>8, <1>9, <1>10, AddFits

\* The weights of the arcs to the first k places, over those there were.
Laid(H, v, w, k) ==
  [x \in Place \X Sorts |->
     IF x[1] \in 0..k - 1 /\ v[x[1]] >= 0 /\ Sort(w[x[1]]) = x[2] THEN Size(w[x[1]]) ELSE H[x]]
Below(v, k) == {p \in ArcsOf(v) : p < k}

\* The arcs to the first k places are counted one place at a time.
LEMMA BelowNext ==
  ASSUME NEW v \in [Stored -> SwValue], NEW k \in 1..PlaceCount
  PROVE  /\ Cardinality(Below(v, k - 1)) \in Nat
         /\ v[k - 1] >= 0 => Cardinality(Below(v, k)) = Cardinality(Below(v, k - 1)) + 1
         /\ ~(v[k - 1] >= 0) => Below(v, k) = Below(v, k - 1)
<1>1. k - 1 \in Stored /\ IsFiniteSet(Stored)
  BY TransitionAssumption, FS_Interval DEF Stored
<1>2. \A p \in Stored : p < k <=> (p < k - 1 \/ p = k - 1)
  BY TransitionAssumption DEF Stored
<1>3. ~(k - 1 < k - 1)
  BY TransitionAssumption
<1>4. Below(v, k - 1) \in SUBSET Stored
  BY DEF Below, ArcsOf
<1>5. IsFiniteSet(Below(v, k - 1)) /\ Cardinality(Below(v, k - 1)) \in Nat
  BY <1>1, <1>4, FS_Subset, FS_CardinalityType
<1>6. CASE v[k - 1] >= 0
  <2>1. Below(v, k) = Below(v, k - 1) \cup {k - 1}
    BY <1>1, <1>2, <1>6 DEF Below, ArcsOf
  <2>2. k - 1 \notin Below(v, k - 1)
    BY <1>3 DEF Below
  <2>3. Cardinality(Below(v, k)) = Cardinality(Below(v, k - 1)) + 1
    BY <1>5, <2>1, <2>2, FS_AddElement
  <2> QED BY <1>5, <1>6, <2>3
<1>7. CASE ~(v[k - 1] >= 0)
  <2>1. Below(v, k) = Below(v, k - 1)
    BY <1>1, <1>2, <1>7 DEF Below, ArcsOf
  <2> QED BY <1>5, <1>7, <2>1
<1> QED BY <1>6, <1>7

\* At the end they are those that plc_synchpt_new counts.
LEMMA BelowEnds ==
  ASSUME NEW v \in [Stored -> SwValue]
  PROVE  /\ Cardinality(Below(v, 0)) = 0
         /\ Below(v, PlaceCount) = ArcsOf(v) /\ Cardinality(ArcsOf(v)) \in Nat
<1>1. IsFiniteSet(Stored) /\ \A p \in Stored : p < PlaceCount /\ ~(p < 0)
  BY TransitionAssumption, FS_Interval DEF Stored
<1>2. Below(v, 0) = {} /\ Below(v, PlaceCount) = ArcsOf(v)
  BY <1>1 DEF Below, ArcsOf
<1>3. ArcsOf(v) \in SUBSET Stored
  BY DEF ArcsOf
<1>4. Cardinality(ArcsOf(v)) \in Nat
  BY <1>1, <1>3, FS_Subset, FS_CardinalityType
<1> QED BY <1>2, <1>4, FS_EmptySet

Weights(v, w) == /\ v \in [Stored -> SwValue] /\ w \in [Stored -> Short]
                 /\ \A p \in Stored : w[p] = v[p] \/ w[p] = -v[p]

\* Arcs of a transition have weights that a short holds.
LEMMA LaidTyped ==
  ASSUME NEW H \in Heights, NEW v, NEW w, Weights(v, w), NEW k \in 0..PlaceCount
  PROVE  Laid(H, v, w, k) \in Heights
<1>1. ASSUME NEW p \in 0..k - 1, v[p] >= 0 PROVE Size(w[p]) \in 0..ShortMax
  <2>1. p \in Stored
    BY TransitionAssumption DEF Stored
  <2>2. v[p] \in SwValue /\ (w[p] = v[p] \/ w[p] = -v[p])
    BY <2>1 DEF Weights
  <2> QED BY <1>1, <2>2, TransitionAssumption DEF SwValue, Size
<1>2. ASSUME NEW x \in Place \X Sorts
      PROVE  (IF x[1] \in 0..k - 1 /\ v[x[1]] >= 0 /\ Sort(w[x[1]]) = x[2]
              THEN Size(w[x[1]]) ELSE H[x]) \in 0..ShortMax
  BY <1>1 DEF Heights
<1> QED BY <1>2 DEF Laid, Heights

\* Before the first place nothing is laid.
LEMMA LaidNone ==
  ASSUME NEW H \in Heights, NEW v, NEW w
  PROVE  Laid(H, v, w, 0) = H
<1>1. \A x : x \notin 0..0 - 1
  OBVIOUS
<1>2. Laid(H, v, w, 0) = [x \in Place \X Sorts |-> H[x]]
  BY <1>1 DEF Laid
<1> QED BY <1>2 DEF Heights

\* A place with an arc changes the height of that arc,
LEMMA LaidNext ==
  ASSUME NEW H \in Heights, NEW v, NEW w, Weights(v, w), NEW k \in 1..PlaceCount,
         NEW P, P = Laid(H, v, w, k - 1), NEW N, N = Laid(H, v, w, k),
         NEW d, d = Sort(w[k - 1])
  PROVE  /\ ~(v[k - 1] >= 0) => N = P
         /\ v[k - 1] >= 0 => N = [P EXCEPT ![<<k - 1, d>>] = Size(w[k - 1])]
<1>0. k - 1 \in Place /\ k - 1 \in 0..PlaceCount /\ k \in 0..PlaceCount /\ k - 1 \in Stored
  BY TransitionAssumption DEF Stored
<1>1. \A p : p \in 0..k - 1 <=> (p \in 0..(k - 1) - 1 \/ p = k - 1)
  BY TransitionAssumption
<1>2. P \in Heights /\ N \in Heights
  BY <1>0, LaidTyped
<1>3. d \in Sorts
  BY <1>0, SortOf DEF Weights
<1>4. ASSUME NEW p \in Place, NEW c \in Sorts
      PROVE  /\ ~(p = k - 1 /\ v[p] >= 0 /\ c = d) => N[<<p, c>>] = P[<<p, c>>]
             /\ p = k - 1 /\ v[p] >= 0 /\ c = d => N[<<p, c>>] = Size(w[p])
  <2>1. /\ N[<<p, c>>] = IF p \in 0..k - 1 /\ v[p] >= 0 /\ Sort(w[p]) = c
                         THEN Size(w[p]) ELSE H[<<p, c>>]
        /\ P[<<p, c>>] = IF p \in 0..(k - 1) - 1 /\ v[p] >= 0 /\ Sort(w[p]) = c
                         THEN Size(w[p]) ELSE H[<<p, c>>]
    BY DEF Laid
  <2>2. p = k - 1 => d = Sort(w[p])
    OBVIOUS
  <2>3. p \in 0..k - 1 <=> (p \in 0..(k - 1) - 1 \/ p = k - 1)
    BY <1>1
  <2>4. p = k - 1 => p \notin 0..(k - 1) - 1
    BY TransitionAssumption
  <2>5. CASE p = k - 1
    BY <2>1, <2>2, <2>3, <2>4, <2>5
  <2>6. CASE p # k - 1
    BY <2>1, <2>3, <2>6
  <2> QED BY <2>5, <2>6
<1>5. ASSUME ~(v[k - 1] >= 0) PROVE N = P
  <2>1. \A x \in Place \X Sorts : N[x] = P[x]
    BY <1>4, <1>5
  <2> QED BY <1>2, <2>1 DEF Heights
<1>6. ASSUME v[k - 1] >= 0 PROVE N = [P EXCEPT ![<<k - 1, d>>] = Size(w[k - 1])]
  <2>1. \A x \in Place \X Sorts : N[x] = IF x = <<k - 1, d>> THEN Size(w[k - 1]) ELSE P[x]
    BY <1>4, <1>6
  <2> QED BY <1>2, <2>1 DEF Heights
<1> QED BY <1>5, <1>6

\* and a place without one changes nothing.
LEMMA LaidSame ==
  ASSUME NEW H, NEW v, NEW w, NEW k \in 1..PlaceCount, ~(v[k - 1] >= 0)
  PROVE  Laid(H, v, w, k) = Laid(H, v, w, k - 1)
<1>1. \A p : p \in 0..k - 1 <=> (p \in 0..(k - 1) - 1 \/ p = k - 1)
  BY TransitionAssumption
<1>2. ASSUME NEW x \in Place \X Sorts
      PROVE  (x[1] \in 0..k - 1 /\ v[x[1]] >= 0 /\ Sort(w[x[1]]) = x[2])
             <=> (x[1] \in 0..(k - 1) - 1 /\ v[x[1]] >= 0 /\ Sort(w[x[1]]) = x[2])
  <2>1. CASE x[1] = k - 1
    BY <2>1
  <2>2. CASE x[1] # k - 1
    BY <1>1, <2>2
  <2> QED BY <2>1, <2>2
<1> QED BY <1>2 DEF Laid

\* One loop of plc_synchpt_new.  New says that no arc is laid where there is one, and
\* that null arcs are not laid over signals, nor together with them.
New1(H, v, w) == \A p \in Stored : v[p] >= 0 => H[<<p, Sort(w[p])>>] = 0
NoSignals(H, v, w) == (\E p \in Stored : v[p] = 0) =>
                        /\ \A q \in Place : H[<<q, 1>>] = 0
                        /\ \A p \in Stored : v[p] >= 0 => Sort(w[p]) # 1

\* The loop done, the array shows the net with all its arcs, and has room for them.
LEMMA AddAllShows ==
  ASSUME NEW s, NEW H \in Heights, Shows(s, H), NEW v, NEW w, Weights(v, w),
         New1(H, v, w), NoSignals(H, v, w),
         NEW t, t = AddAll(s, v, w), NEW K, K = Laid(H, v, w, PlaceCount)
  PROVE  Shows(t, K) /\ K \in Heights /\ Len(t) <= Len(s) + Cardinality(ArcsOf(v))
<1> DEFINE n == PlaceCount
           A(k) == Laid(H, v, w, k)
           c(k) == Cardinality(Below(v, k))
<1>0. n \in Nat /\ s \in Seq(Sop) /\ Len(s) \in Nat
  BY TransitionAssumption DEF Shows
<1>1. v \in [Stored -> SwValue] /\ w \in [Stored -> Short]
      /\ \A p \in Stored : w[p] = v[p] \/ w[p] = -v[p]
  BY DEF Weights
<1>2. PICK f \in [0..n -> Seq(Sop)] :
           /\ f[0] = s
           /\ \A k \in 1..n : f[k] = AddStored(f[k - 1], v[k - 1], w[k - 1], k - 1)
           /\ t = f[n]
  BY <1>0, <1>1, AddAllRuns
<1>3. \A k \in 0..n : A(k) \in Heights
  BY LaidTyped
<1>4. A(0) = H /\ c(0) = 0 /\ c(n) = Cardinality(ArcsOf(v)) /\ c(n) \in Nat
  BY <1>1, LaidNone, BelowEnds
<1> DEFINE Good(k) == Shows(f[k], A(k)) /\ Len(f[k]) <= Len(s) + c(k)
<1>5. ASSUME NEW k \in 1..n, Good(k - 1) PROVE Good(k)
  <2> DEFINE p == k - 1
  <2>1. p \in Stored /\ p \in Place /\ k - 1 \in 0..n /\ k \in 0..n
    BY <1>0, TransitionAssumption DEF Stored
  <2>2. f[k - 1] \in Seq(Sop) /\ f[k] = AddStored(f[k - 1], v[k - 1], w[k - 1], k - 1)
    BY <1>2, <2>1
  <2>3. v[k - 1] \in SwValue /\ w[k - 1] \in Short /\ (w[k - 1] = v[k - 1] \/ w[k - 1] = -v[k - 1])
    BY <1>1, <2>1
  <2>4. Len(f[k - 1]) \in Nat /\ c(k - 1) \in Nat
    BY <1>1, <2>2, BelowNext
  <2>5. /\ f[k] \in Seq(Sop)
        /\ v[k - 1] >= 0 => Len(f[k]) <= Len(f[k - 1]) + 1
        /\ ~(v[k - 1] >= 0) => f[k] = f[k - 1]
    BY <2>1, <2>2, <2>3, AddStoredTyped
  <2>6. CASE ~(v[k - 1] >= 0)
    <3>1. A(k) = A(k - 1)
      BY <2>6, LaidSame
    <3>2. c(k) = c(k - 1)
      BY <1>1, <2>6, BelowNext
    <3> QED BY <1>5, <2>5, <2>6, <3>1, <3>2
  <2>7. CASE v[k - 1] >= 0
    <3> DEFINE P == A(k - 1)
               d == Sort(w[k - 1])
    <3>1. A(k) = [P EXCEPT ![<<k - 1, d>>] = Size(w[k - 1])]
      BY <2>7, LaidNext
    <3>2. c(k) = c(k - 1) + 1
      BY <1>1, <2>7, BelowNext
    <3>3. d \in Sorts
      BY <2>3, SortOf
    <3>4. P[<<k - 1, d>>] = 0
      <4>1. P[<<k - 1, d>>] = IF k - 1 \in 0..(k - 1) - 1 /\ v[k - 1] >= 0 /\ Sort(w[k - 1]) = d
                             THEN Size(w[k - 1]) ELSE H[<<k - 1, d>>]
        BY <2>1, <3>3 DEF Laid
      <4>2. k - 1 \notin 0..(k - 1) - 1
        BY <1>0
      <4>3. H[<<k - 1, d>>] = 0
        BY <2>1, <2>7 DEF New1
      <4> QED BY <4>1, <4>2, <4>3
    <3>5. v[k - 1] = 0 => \A q \in Place : P[<<q, 1>>] = 0
      <4> SUFFICES ASSUME v[k - 1] = 0, NEW q \in Place PROVE P[<<q, 1>>] = 0
        OBVIOUS
      <4>1. P[<<q, 1>>] = IF q \in 0..(k - 1) - 1 /\ v[q] >= 0 /\ Sort(w[q]) = 1
                         THEN Size(w[q]) ELSE H[<<q, 1>>]
        <5>1. 1 \in Sorts
          BY DEF Sorts
        <5> QED BY <5>1 DEF Laid
      <4>2. q \in 0..(k - 1) - 1 => q \in Stored
        BY <1>0 DEF Stored
      <4>3. H[<<q, 1>>] = 0 /\ (q \in Stored /\ v[q] >= 0 => Sort(w[q]) # 1)
        BY <2>1 DEF NoSignals
      <4> QED BY <4>1, <4>2, <4>3
    <3>6. P \in Heights /\ Shows(f[k - 1], P)
      BY <1>3, <1>5, <2>1
    <3>9. v[k - 1] = 0 => NoSignal(P)
      BY <3>5 DEF NoSignal
    <3>10. d = Sort(w[k - 1])
      OBVIOUS
    <3> DEFINE Q == A(k)
    <3>11. Q = [P EXCEPT ![<<k - 1, d>>] = Size(w[k - 1])]
      BY <3>1
    <3> HIDE DEF Q, P, A, d
    <3>7. Shows(f[k], A(k))
      <4>1. Shows(f[k], Q)
        BY <2>1, <2>2, <2>3, <2>7, <3>4, <3>6, <3>9, <3>10, <3>11, AddStoredShows
      <4> QED BY <4>1 DEF Q
    <3>8. Len(f[k]) <= Len(s) + c(k)
      <4>1. Len(f[k]) \in Nat
        BY <2>5
      <4> HIDE DEF c
      <4> QED BY <1>0, <1>5, <2>4, <2>5, <2>7, <3>2, <4>1
    <3> QED BY <3>7, <3>8
  <2> QED BY <2>6, <2>7
<1>6. Good(0)
  BY <1>0, <1>2, <1>4
<1> HIDE DEF Good
<1>7. Good(n)
  <2> DEFINE Bad == {k \in 0..n : ~Good(k)}
  <2>1. ASSUME Bad # {} PROVE FALSE
    <3>0. Bad \in SUBSET Nat
      OBVIOUS
    <3> HIDE DEF Bad
    <3>1. PICK k \in Bad : \A i \in Bad : k <= i
      BY <2>1, <3>0, LeastOf
    <3>2. k \in 0..n /\ ~Good(k)
      BY DEF Bad
    <3>3. k # 0
      BY <1>6, <3>2
    <3>4. k \in 1..n /\ k - 1 \in 0..n /\ ~(k <= k - 1)
      BY <1>0, <3>2, <3>3
    <3>5. Good(k - 1)
      BY <3>1, <3>4 DEF Bad
    <3> QED BY <1>5, <3>2, <3>4, <3>5
  <2> QED BY <1>0, <2>1
<1>8. K = A(n) /\ A(n) \in Heights
  BY <1>0, <1>3
<1>9. Shows(f[n], A(n)) /\ Len(f[n]) <= Len(s) + c(n)
  BY <1>7 DEF Good
<1> QED BY <1>2, <1>4, <1>8, <1>9

NetAt(a, v, u, p) == /\ a.wait[p] = IF p \in Stored /\ v[p] > 0 THEN v[p] ELSE 0
                     /\ a.signal[p] = IF p \in Stored /\ u[p] > 0 THEN u[p] ELSE 0
                     /\ a.null[p] = IF p \in Stored /\ v[p] = 0 THEN 1 ELSE 0

\* The array that plc_synchpt_new makes shows the net of the transition.
LEMMA BuildShows ==
  ASSUME NEW t \in Transition, NEW H, H = Amounts(NetOf(t))
  PROVE  /\ NetOf(t) \in Arcs /\ Shows(Build(t), H) /\ Apart(H)
         /\ Len(Build(t)) <= ArcCount(t) /\ ArcCount(t) \in Nat
<1> DEFINE n == PlaceCount
           v == t.wait
           u == t.signal
           w == [p \in Stored |-> -t.wait[p]]
           Zero == [x \in Place \X Sorts |-> 0]
           K == Laid(Zero, v, w, n)
           L == Laid(K, u, u, n)
           s == AddAll(<<>>, v, w)
           a == NetOf(t)
<1>0. /\ ShortMax \in Nat \ {0} /\ n \in Nat /\ Stored = 0..n - 1 /\ Stored \subseteq Place
      /\ SwValue \subseteq Short /\ \A x \in SwValue : x \in Int /\ -x \in Short /\ x <= ShortMax
  BY TransitionAssumption DEF Stored, SwValue, Short
<1>1. v \in [Stored -> SwValue] /\ u \in [Stored -> SwValue \ {0}]
  BY TransitionAssumption
<1>2. Build(t) = AddAll(s, u, u)
  BY DEF Build
<1>3. a \in Arcs /\ \A p \in Place : NetAt(a, v, u, p)
  <2>1. ASSUME NEW p \in Place
        PROVE  /\ (IF p \in Stored /\ v[p] > 0 THEN v[p] ELSE 0) \in 0..ShortMax
               /\ (IF p \in Stored /\ u[p] > 0 THEN u[p] ELSE 0) \in 0..ShortMax
               /\ (IF p \in Stored /\ v[p] = 0 THEN 1 ELSE 0) \in 0..ShortMax
    <3>1. 0 \in 0..ShortMax /\ 1 \in 0..ShortMax
      BY <1>0
    <3>2. p \in Stored => v[p] \in SwValue /\ u[p] \in SwValue
      BY <1>1
    <3> HIDE DEF v, u
    <3>3. /\ p \in Stored /\ v[p] > 0 => v[p] \in 0..ShortMax
          /\ p \in Stored /\ u[p] > 0 => u[p] \in 0..ShortMax
      BY <1>0, <3>2
    <3> QED BY <3>1, <3>3
  <2> HIDE DEF v, u
  <2>2. a = [wait |-> [p \in Place |-> IF p \in Stored /\ v[p] > 0 THEN v[p] ELSE 0],
             signal |-> [p \in Place |-> IF p \in Stored /\ u[p] > 0 THEN u[p] ELSE 0],
             null |-> [p \in Place |-> IF p \in Stored /\ v[p] = 0 THEN 1 ELSE 0]]
    BY DEF NetOf, v, u
  <2> HIDE DEF a
  <2>3. /\ a.wait = [p \in Place |-> IF p \in Stored /\ v[p] > 0 THEN v[p] ELSE 0]
        /\ a.signal = [p \in Place |-> IF p \in Stored /\ u[p] > 0 THEN u[p] ELSE 0]
        /\ a.null = [p \in Place |-> IF p \in Stored /\ v[p] = 0 THEN 1 ELSE 0]
        /\ a = [wait |-> a.wait, signal |-> a.signal, null |-> a.null]
    BY <2>2
  <2>4. a.wait \in [Place -> 0..ShortMax]
    BY <2>1, <2>3
  <2>5. a.signal \in [Place -> 0..ShortMax]
    BY <2>1, <2>3
  <2>6. a.null \in [Place -> 0..ShortMax]
    BY <2>1, <2>3
  <2>7. a \in Arcs
    <3>1. a = [wait |-> a.wait, signal |-> a.signal, null |-> a.null]
      BY <2>3
    <3> QED BY <2>4, <2>5, <2>6, <3>1 DEF Arcs
  <2>8. ASSUME NEW p \in Place PROVE NetAt(a, v, u, p)
    BY <2>3 DEF NetAt
  <2> QED BY <2>7, <2>8
<1>4. w \in [Stored -> Short] /\ \A p \in Stored : w[p] = -v[p]
  BY <1>0, <1>1
<1>5. Weights(v, w) /\ Weights(u, u)
  <2>1. u \in [Stored -> SwValue] /\ u \in [Stored -> Short]
    BY <1>0, <1>1
  <2> HIDE DEF v, u, w
  <2> QED BY <1>1, <1>4, <2>1 DEF Weights
<1>6. Zero \in Heights /\ \A p \in Place, d \in Sorts : Zero[<<p, d>>] = 0
  BY <1>0 DEF Heights
<1>7. Shows(<<>>, Zero)
  <2> HIDE DEF Zero
  <2> QED BY <1>6 DEF Shows, Layered, Single, Told, Kept
<1> HIDE DEF v, u, w, Zero, a
<1>8. \A p \in Stored : v[p] \in Int /\ w[p] \in Short /\ u[p] \in Int /\ u[p] \in Short
                       /\ u[p] # 0 /\ p \in Place
  BY <1>0, <1>1, <1>4
<1>9. New1(Zero, v, w)
  <2>1. \A p \in Stored : Sort(w[p]) \in Sorts
    BY <1>8, SortOf
  <2> QED BY <1>6, <1>8, <2>1 DEF New1
<1>10. \A p \in Stored : v[p] >= 0 => Sort(w[p]) # 1
  <2> SUFFICES ASSUME NEW p \in Stored, v[p] >= 0 PROVE Sort(w[p]) # 1
    OBVIOUS
  <2>1. w[p] = -v[p] /\ v[p] \in Int
    BY <1>4, <1>8
  <2>2. ~(w[p] > 0)
    BY <2>1
  <2> QED BY <1>8, <2>2, SortOf
<1>11. NoSignals(Zero, v, w)
  BY <1>6, <1>10 DEF NoSignals, Sorts
<1>12. Shows(s, K) /\ K \in Heights /\ Len(s) <= Len(<<>>) + Cardinality(ArcsOf(v))
  BY <1>5, <1>6, <1>7, <1>9, <1>11, AddAllShows
<1>13. \A p \in Place, d \in Sorts : K[<<p, d>>] = IF p \in Stored /\ v[p] >= 0 /\ Sort(w[p]) = d
                                                THEN Size(w[p]) ELSE 0
  BY <1>0, <1>6 DEF Laid
<1>14. \A p \in Place, d \in Sorts : L[<<p, d>>] = IF p \in Stored /\ u[p] >= 0 /\ Sort(u[p]) = d
                                                THEN Size(u[p]) ELSE K[<<p, d>>]
  BY <1>0 DEF Laid
<1> HIDE DEF K
<1>15. \A p \in Stored : u[p] >= 0 => Sort(u[p]) = 1 /\ Size(u[p]) = u[p] /\ u[p] > 0
  <2> SUFFICES ASSUME NEW p \in Stored, u[p] >= 0 PROVE Sort(u[p]) = 1 /\ Size(u[p]) = u[p] /\ u[p] > 0
    OBVIOUS
  <2>1. u[p] > 0 /\ u[p] \in Short
    BY <1>8
  <2> QED BY <2>1, SortOf
<1>16. \A p \in Place : K[<<p, 1>>] = 0
  BY <1>10, <1>13 DEF Sorts
<1>17. New1(K, u, u)
  BY <1>8, <1>15, <1>16 DEF New1
<1>18. NoSignals(K, u, u)
  BY <1>8 DEF NoSignals
<1>19. /\ Shows(Build(t), L) /\ L \in Heights
       /\ Len(Build(t)) <= Len(s) + Cardinality(ArcsOf(u))
  <2> DEFINE b == Build(t)
  <2>1. b = AddAll(s, u, u) /\ L = Laid(K, u, u, PlaceCount)
    BY <1>2
  <2> HIDE DEF b, s, L
  <2>2. Shows(b, L) /\ L \in Heights /\ Len(b) <= Len(s) + Cardinality(ArcsOf(u))
    BY <1>5, <1>12, <1>17, <1>18, <2>1, AddAllShows
  <2> QED BY <2>2 DEF b
<1> HIDE DEF s, L
<1>20. ArcCount(t) = Cardinality(ArcsOf(v)) + Cardinality(ArcsOf(u))
       /\ Cardinality(ArcsOf(v)) \in Nat /\ Cardinality(ArcsOf(u)) \in Nat
  <2>1. u \in [Stored -> SwValue]
    BY <1>1
  <2>2. Cardinality(ArcsOf(v)) \in Nat /\ Cardinality(ArcsOf(u)) \in Nat
    BY <1>1, <2>1, BelowEnds
  <2> QED BY <2>2 DEF ArcCount, v, u
<1>21. Len(Build(t)) <= ArcCount(t) /\ ArcCount(t) \in Nat
  <2>1. Len(Build(t)) \in Nat /\ Len(s) \in Nat /\ Len(<<>>) = 0
    BY <1>12, <1>19 DEF Shows
  <2> QED BY <1>12, <1>19, <1>20, <2>1
<1>22. H \in Heights /\ \A p \in Place : /\ H[<<p, -1>>] = a.wait[p]
                                       /\ H[<<p, 1>>] = a.signal[p]
                                       /\ H[<<p, 0>>] = a.null[p]
  BY <1>3, AmountsOf DEF a
<1>23. ASSUME NEW p \in Place
       PROVE  /\ L[<<p, -1>>] = a.wait[p] /\ L[<<p, 1>>] = a.signal[p] /\ L[<<p, 0>>] = a.null[p]
              /\ a.null[p] > 0 => a.wait[p] = 0
  <2>1. -1 \in Sorts /\ 0 \in Sorts /\ 1 \in Sorts
    BY DEF Sorts
  <2>0. /\ a.wait[p] = IF p \in Stored /\ v[p] > 0 THEN v[p] ELSE 0
        /\ a.signal[p] = IF p \in Stored /\ u[p] > 0 THEN u[p] ELSE 0
        /\ a.null[p] = IF p \in Stored /\ v[p] = 0 THEN 1 ELSE 0
    BY <1>3 DEF NetAt
  <2>2. CASE p \notin Stored
    <3>1. K[<<p, -1>>] = 0 /\ K[<<p, 0>>] = 0 /\ K[<<p, 1>>] = 0
      BY <1>13, <2>1, <2>2
    <3>2. L[<<p, -1>>] = 0 /\ L[<<p, 0>>] = 0 /\ L[<<p, 1>>] = 0
      BY <1>14, <2>1, <2>2, <3>1
    <3>3. a.wait[p] = 0 /\ a.signal[p] = 0 /\ a.null[p] = 0
      BY <2>0, <2>2
    <3> QED BY <3>2, <3>3
  <2>3. CASE p \in Stored
    <3>1. w[p] = -v[p] /\ v[p] \in Int /\ w[p] \in Short /\ u[p] \in Int
      BY <1>4, <1>8, <2>3
    <3>2. /\ Sort(w[p]) = -1 <=> w[p] < 0
          /\ Sort(w[p]) = 0 <=> w[p] = 0
          /\ w[p] < 0 => Size(w[p]) = -w[p]
          /\ w[p] = 0 => Size(w[p]) = 1
      BY <3>1, SortOf
    <3>3. K[<<p, -1>>] = IF v[p] > 0 THEN v[p] ELSE 0
      BY <1>13, <2>1, <2>3, <3>1, <3>2
    <3>4. K[<<p, 0>>] = IF v[p] = 0 THEN 1 ELSE 0
      BY <1>13, <2>1, <2>3, <3>1, <3>2
    <3>5. L[<<p, -1>>] = K[<<p, -1>>] /\ L[<<p, 0>>] = K[<<p, 0>>]
      BY <1>14, <1>15, <2>1, <2>3
    <3>6. L[<<p, 1>>] = IF u[p] > 0 THEN u[p] ELSE 0
      BY <1>14, <1>15, <1>16, <2>1, <2>3, <3>1
    <3>7. a.null[p] > 0 => a.wait[p] = 0
      BY <2>0, <3>1
    <3> QED BY <2>0, <2>3, <3>3, <3>4, <3>5, <3>6, <3>7
  <2> QED BY <2>2, <2>3
<1>24. L = H
  <2>1. \A p \in Place, d \in Sorts : L[<<p, d>>] = H[<<p, d>>]
    <3> SUFFICES ASSUME NEW p \in Place, NEW d \in Sorts PROVE L[<<p, d>>] = H[<<p, d>>]
      OBVIOUS
    <3>1. L[<<p, -1>>] = H[<<p, -1>>] /\ L[<<p, 1>>] = H[<<p, 1>>] /\ L[<<p, 0>>] = H[<<p, 0>>]
      BY <1>22, <1>23
    <3>2. d = -1 \/ d = 0 \/ d = 1
      BY DEF Sorts
    <3> QED BY <3>1, <3>2
  <2>2. \A x \in Place \X Sorts : L[x] = H[x]
    BY <2>1
  <2> QED BY <1>19, <1>22, <2>2 DEF Heights
<1>25. Apart(H)
  BY <1>22, <1>23 DEF Apart
<1> QED BY <1>3, <1>19, <1>21, <1>24, <1>25 DEF a

(***************************************************************************)
(* The inductive invariant: the array shows the net as long as the caller  *)
(* has used it as a net, and there is room for what the caller was         *)
(* promised.                                                               *)
(***************************************************************************)
PtTypes == /\ entries \in Seq(Sop) /\ total \in -1..EntriesMax
           /\ spare \in Nat /\ plain \in BOOLEAN /\ arcs \in Arcs
Room == IF Exists THEN Len(entries) + spare <= total ELSE entries = <<>>
NetShown == Exists /\ plain => Shows(entries, Amounts(arcs)) /\ Apart(Amounts(arcs))
PtInv == PtTypes /\ Room /\ NetShown

\* The empty net.
LEMMA NoArcsTyped == NoArcs \in Arcs
BY TransitionAssumption DEF NoArcs, Arcs

\* The net with the weight of one arc changed.
LEMMA Changed ==
  ASSUME arcs \in Arcs, NEW w \in Short, NEW p \in Place, NEW n \in Int,
         NEW h, h = Has(w, p) + n, h \in 0..ShortMax, NEW H, H = Amounts(arcs),
         NEW K, K = Amounts(Change(w, p, n)), NEW d, d = Sort(w)
  PROVE  /\ Change(w, p, n) \in Arcs /\ H \in Heights /\ H[<<p, d>>] = Has(w, p)
         /\ Has(w, p) \in 0..ShortMax
         /\ K = [H EXCEPT ![<<p, d>>] = h]
<1> DEFINE c == Change(w, p, n)
<1>1. /\ arcs.wait \in [Place -> 0..ShortMax] /\ arcs.signal \in [Place -> 0..ShortMax]
      /\ arcs.null \in [Place -> 0..ShortMax]
  BY DEF Arcs
<1>2. /\ H \in Heights
      /\ \A q \in Place : /\ H[<<q, -1>>] = arcs.wait[q] /\ H[<<q, 1>>] = arcs.signal[q]
                          /\ H[<<q, 0>>] = arcs.null[q]
  BY AmountsOf
<1>3. /\ d \in Sorts /\ w \in Int
      /\ d = -1 <=> w < 0
      /\ d = 0 <=> w = 0
      /\ d = 1 <=> w > 0
  BY SortOf
<1>4. /\ w < 0 => Has(w, p) = arcs.wait[p]
      /\ w > 0 => Has(w, p) = arcs.signal[p]
      /\ w = 0 => Has(w, p) = arcs.null[p]
  BY <1>3 DEF Has
<1>5. /\ c.wait = IF w < 0 THEN More(arcs.wait, p, n) ELSE arcs.wait
      /\ c.signal = IF w > 0 THEN More(arcs.signal, p, n) ELSE arcs.signal
      /\ c.null = IF w = 0 THEN More(arcs.null, p, n) ELSE arcs.null
      /\ c = [wait |-> c.wait, signal |-> c.signal, null |-> c.null]
  BY DEF Change
<1>6. ASSUME NEW f \in [Place -> 0..ShortMax], f[p] + n = h
      PROVE  More(f, p, n) \in [Place -> 0..ShortMax] /\ More(f, p, n)[p] = h
             /\ \A q \in Place : q # p => More(f, p, n)[q] = f[q]
  BY <1>6 DEF More
<1> HIDE DEF c
<1>7. /\ c.wait \in [Place -> 0..ShortMax] /\ (w < 0 => c.wait[p] = h)
      /\ \A q \in Place : ~(w < 0 /\ q = p) => c.wait[q] = arcs.wait[q]
  BY <1>1, <1>4, <1>5, <1>6
<1>8. /\ c.signal \in [Place -> 0..ShortMax] /\ (w > 0 => c.signal[p] = h)
      /\ \A q \in Place : ~(w > 0 /\ q = p) => c.signal[q] = arcs.signal[q]
  BY <1>1, <1>4, <1>5, <1>6
<1>9. /\ c.null \in [Place -> 0..ShortMax] /\ (w = 0 => c.null[p] = h)
      /\ \A q \in Place : ~(w = 0 /\ q = p) => c.null[q] = arcs.null[q]
  BY <1>1, <1>4, <1>5, <1>6
<1>10. c \in Arcs
  <2>1. c = [wait |-> c.wait, signal |-> c.signal, null |-> c.null]
    BY <1>5
  <2> QED BY <1>7, <1>8, <1>9, <2>1 DEF Arcs
<1>11. /\ K \in Heights
       /\ \A q \in Place : /\ K[<<q, -1>>] = c.wait[q] /\ K[<<q, 1>>] = c.signal[q]
                           /\ K[<<q, 0>>] = c.null[q]
  BY <1>10, AmountsOf DEF c
<1>12. \A q \in Place, e \in Sorts : K[<<q, e>>] = IF q = p /\ e = d THEN h ELSE H[<<q, e>>]
  <2> SUFFICES ASSUME NEW q \in Place, NEW e \in Sorts
               PROVE  K[<<q, e>>] = IF q = p /\ e = d THEN h ELSE H[<<q, e>>]
    OBVIOUS
  <2>1. CASE e = -1
    BY <1>2, <1>3, <1>7, <1>11, <2>1
  <2>2. CASE e = 0
    BY <1>2, <1>3, <1>9, <1>11, <2>2
  <2>3. CASE e = 1
    BY <1>2, <1>3, <1>8, <1>11, <2>3
  <2> QED BY <2>1, <2>2, <2>3 DEF Sorts
<1>13. K = [H EXCEPT ![<<p, d>>] = h]
  <2>1. \A x \in Place \X Sorts : K[x] = IF x = <<p, d>> THEN h ELSE H[x]
    BY <1>12
  <2> QED BY <1>2, <1>11, <2>1 DEF Heights
<1>14. H[<<p, d>>] = Has(w, p) /\ Has(w, p) \in 0..ShortMax
  <2>1. d = -1 \/ d = 0 \/ d = 1
    BY <1>3 DEF Sorts
  <2> QED BY <1>1, <1>2, <1>3, <1>4, <2>1
<1> QED BY <1>2, <1>10, <1>13, <1>14 DEF c

\* The invariant holds at first.
LEMMA InvInit == ASSUME PtInit PROVE PtInv
BY NoArcsTyped, TransitionAssumption DEF PtInit, PtInv, PtTypes, Room, NetShown, Exists

\* plc_synchpt_new establishes it.
LEMMA InvNew ==
  ASSUME PtInv, NEW t \in Transition, NEW extra \in ExtraArcs, New(t, extra)
  PROVE  PtInv'
<1>1. /\ NetOf(t) \in Arcs /\ Shows(Build(t), Amounts(NetOf(t))) /\ Apart(Amounts(NetOf(t)))
      /\ Len(Build(t)) <= ArcCount(t) /\ ArcCount(t) \in Nat
  BY BuildShows
<1>2. /\ entries' = Build(t) /\ arcs' = NetOf(t) /\ spare' = extra /\ plain' = TRUE
      /\ total' = ArcCount(t) + extra /\ ArcCount(t) + extra <= EntriesMax
  BY DEF New
<1>3. extra \in Nat /\ EntriesMax \in Nat
  BY TransitionAssumption
<1>4. Build(t) \in Seq(Sop) /\ Len(Build(t)) \in Nat
  BY <1>1 DEF Shows
<1>5. PtTypes'
  BY <1>1, <1>2, <1>3, <1>4 DEF PtTypes
<1>6. Room'
  BY <1>1, <1>2, <1>3, <1>4 DEF Room, Exists
<1>7. NetShown'
  BY <1>1, <1>2 DEF NetShown
<1> QED BY <1>5, <1>6, <1>7 DEF PtInv

\* plc_synchpt_free keeps it.
LEMMA InvFree ==
  ASSUME PtInv, Free
  PROVE  PtInv'
BY NoArcsTyped, TransitionAssumption DEF Free, PtInv, PtTypes, Room, NetShown, Exists

\* plc_synchpt_add_arc keeps it, refused or not.
LEMMA InvAddArc ==
  ASSUME PtInv, NEW w \in Weight, NEW p \in Place, AddArc(w, p)
  PROVE  PtInv'
<1>0. /\ entries \in Seq(Sop) /\ total \in -1..EntriesMax /\ spare \in Nat /\ arcs \in Arcs
      /\ Exists /\ plain /\ Len(entries) + spare <= total /\ Len(entries) \in Nat
      /\ Shows(entries, Amounts(arcs)) /\ Apart(Amounts(arcs))
  BY DEF PtInv, PtTypes, Room, NetShown, AddArc
<1>1. w \in Short
  BY TransitionAssumption
<1>2. CASE AddArcFails(entries, w, p, total)
  <2>1. UNCHANGED ptvars
    BY <1>2 DEF AddArc
  <2> QED BY <2>1 DEF ptvars, PtInv, PtTypes, Room, NetShown, Exists
<1>3. CASE ~AddArcFails(entries, w, p, total)
  <2>1. /\ entries' = AddArcTo(entries, w, p) /\ total' = total
        /\ spare' = IF spare > 0 THEN spare - 1 ELSE 0
        /\ plain' = PlainAdd(w, p)
        /\ plain' => arcs' = Change(w, p, Size(w))
        /\ ~plain' => arcs' = NoArcs
    BY <1>3 DEF AddArc
  <2>2. /\ AddArcTo(entries, w, p) \in Seq(Sop)
        /\ Len(AddArcTo(entries, w, p)) = IF EntryToAdd(entries, w, p) = 0
                                          THEN Len(entries) + 1 ELSE Len(entries)
    BY <1>0, <1>1, AddTyped
  <2>3. EntryToAdd(entries, w, p) = 0 => ~(Len(entries) >= total)
    BY <1>3 DEF AddArcFails
  <2>4. spare' \in Nat /\ Len(entries') + spare' <= total'
    <3>1. total \in Int /\ total' = total /\ Len(entries') = Len(AddArcTo(entries, w, p))
      BY <1>0, <2>1, TransitionAssumption
    <3>2. \/ Len(entries') = Len(entries)
          \/ Len(entries') = Len(entries) + 1 /\ ~(Len(entries) >= total)
      BY <2>2, <2>3, <3>1
    <3>3. \/ spare > 0 /\ spare' = spare - 1
          \/ spare = 0 /\ spare' = 0
      BY <1>0, <2>1
    <3> QED BY <1>0, <3>1, <3>2, <3>3
  <2>5. plain' \in BOOLEAN
    BY <2>1 DEF PlainAdd
  <2>6. CASE ~plain'
    BY <1>0, <2>1, <2>2, <2>4, <2>5, <2>6, NoArcsTyped DEF PtInv, PtTypes, Room, NetShown, Exists
  <2>7. CASE plain'
    <3> DEFINE H == Amounts(arcs)
               n == Size(w)
               d == Sort(w)
               h == Has(w, p) + n
               K == Amounts(Change(w, p, n))
    <3>1. w # 0 /\ h <= ShortMax /\ (w < 0 => arcs.null[p] = 0)
      BY <2>1, <2>7 DEF PlainAdd
    <3>2. /\ n \in Nat /\ d \in Sorts
          /\ d = -1 <=> w < 0
          /\ d = 0 <=> w = 0
      BY <1>1, SortOf
    <3>3. /\ \A q \in Place : /\ H[<<q, -1>>] = arcs.wait[q] /\ H[<<q, 1>>] = arcs.signal[q]
                              /\ H[<<q, 0>>] = arcs.null[q]
          /\ H \in Heights
      BY <1>0, AmountsOf
    <3>4. Has(w, p) \in 0..ShortMax
      BY <1>0, AmountsOf DEF Has
    <3>5. h \in 0..ShortMax
      BY <3>1, <3>2, <3>4, TransitionAssumption
    <3>6. /\ h = Has(w, p) + n /\ H = Amounts(arcs) /\ K = Amounts(Change(w, p, n)) /\ d = Sort(w)
          /\ n = Size(w)
      OBVIOUS
    <3> HIDE DEF H, n, d, h, K
    <3>7. n \in Int
      BY <3>2
    <3>8. /\ Change(w, p, n) \in Arcs /\ H[<<p, d>>] = Has(w, p)
          /\ K = [H EXCEPT ![<<p, d>>] = h]
      BY <1>0, <1>1, <3>5, <3>6, <3>7, Changed
    <3>9. NullFits(entries, H, w, p)
      BY <3>1 DEF NullFits
    <3>10. Shows(entries', K)
      <4>1. /\ h = H[<<p, Sort(w)>>] + Size(w) /\ h <= ShortMax
            /\ K = [H EXCEPT ![<<p, Sort(w)>>] = h]
        BY <3>1, <3>6, <3>8
      <4>2. Shows(entries, H)
        BY <1>0, <3>6
      <4> DEFINE t == entries'
      <4>3. t = AddArcTo(entries, w, p)
        BY <2>1
      <4> HIDE DEF t
      <4>4. Shows(t, K)
        BY <1>1, <3>3, <3>9, <4>1, <4>2, <4>3, AddFits
      <4> QED BY <4>4 DEF t
    <3>11. Apart(K)
      <4> SUFFICES ASSUME NEW q \in Place, K[<<q, 0>>] > 0 PROVE K[<<q, -1>>] = 0
        BY DEF Apart
      <4>1. -1 \in Sorts /\ 0 \in Sorts
        BY DEF Sorts
      <4>2. /\ K[<<q, 0>>] = H[<<q, 0>>]
            /\ ~(q = p /\ d = -1) => K[<<q, -1>>] = H[<<q, -1>>]
        BY <3>1, <3>2, <3>3, <3>8, <4>1 DEF Heights
      <4>3. H[<<q, -1>>] = 0
        BY <1>0, <3>6, <4>2 DEF Apart
      <4>4. ASSUME q = p, d = -1 PROVE FALSE
        <5>1. arcs.null[p] = 0 /\ H[<<p, 0>>] = arcs.null[p]
          BY <3>1, <3>2, <3>3, <4>4
        <5>2. K[<<p, 0>>] > 0 /\ K[<<p, 0>>] = H[<<p, 0>>]
          BY <4>2, <4>4
        <5> QED BY <5>1, <5>2
      <4> QED BY <4>2, <4>3, <4>4
    <3>12. arcs' = Change(w, p, n)
      BY <2>1, <2>7, <3>6
    <3>13. K = Amounts(arcs')
      BY <3>6, <3>12
    <3>14. NetShown'
      BY <3>10, <3>11, <3>13 DEF NetShown
    <3>15. PtTypes'
      BY <1>0, <2>1, <2>2, <2>4, <2>5, <3>8, <3>12 DEF PtTypes
    <3>16. Room'
      BY <1>0, <2>1, <2>4 DEF Room, Exists
    <3> QED BY <3>14, <3>15, <3>16 DEF PtInv
  <2> QED BY <2>6, <2>7
<1> QED BY <1>2, <1>3

\* plc_synchpt_del_arc keeps it.
LEMMA InvDelArc ==
  ASSUME PtInv, NEW w \in Weight, NEW p \in Place, DelArc(w, p)
  PROVE  PtInv'
<1>0. /\ entries \in Seq(Sop) /\ total \in -1..EntriesMax /\ spare \in Nat /\ arcs \in Arcs
      /\ Exists /\ plain /\ Len(entries) + spare <= total /\ Len(entries) \in Nat
      /\ Shows(entries, Amounts(arcs)) /\ Apart(Amounts(arcs))
  BY DEF PtInv, PtTypes, Room, NetShown, DelArc
<1>1. w \in Short
  BY TransitionAssumption
<1>2. /\ EntryToDel(entries, w, p) # 0
      /\ entries' = DelArcFrom(entries, w, p) /\ total' = total /\ spare' = spare
      /\ plain' = (Size(w) <= Has(w, p))
      /\ plain' => arcs' = Change(w, p, -Size(w))
      /\ ~plain' => arcs' = NoArcs
  BY DEF DelArc
<1>3. entries' \in Seq(Sop) /\ Len(entries') <= Len(entries) /\ Len(entries') \in Nat
  <2>1. DelArcFrom(entries, w, p) \in Seq(Sop) /\ Len(DelArcFrom(entries, w, p)) <= Len(entries)
    BY <1>0, <1>1, <1>2, DelTyped
  <2> QED BY <1>2, <2>1
<1>4. Room'
  BY <1>0, <1>2, <1>3 DEF Room, Exists
<1>5. plain' \in BOOLEAN
  BY <1>2
<1>6. CASE ~plain'
  BY <1>0, <1>2, <1>3, <1>4, <1>5, <1>6, NoArcsTyped DEF PtInv, PtTypes, NetShown
<1>7. CASE plain'
  <2> DEFINE H == Amounts(arcs)
             n == Size(w)
             m == -n
             d == Sort(w)
             h == Has(w, p) + m
             K == Amounts(Change(w, p, m))
  <2>1. n <= Has(w, p)
    BY <1>2, <1>7
  <2>2. n \in Nat /\ d \in Sorts
    BY <1>1, SortOf
  <2>3. H \in Heights
    BY <1>0, AmountsOf
  <2>4. Has(w, p) \in 0..ShortMax
    BY <1>0, AmountsOf DEF Has
  <2>5. h \in 0..ShortMax /\ h = Has(w, p) - n /\ h >= 0
    BY <2>1, <2>2, <2>4, TransitionAssumption
  <2>6. /\ h = Has(w, p) + m /\ H = Amounts(arcs) /\ K = Amounts(Change(w, p, m)) /\ d = Sort(w)
        /\ n = Size(w) /\ m = -Size(w)
    OBVIOUS
  <2>7. m \in Int
    BY <2>2
  <2> HIDE DEF H, n, d, h, K, m
  <2>8. /\ Change(w, p, m) \in Arcs /\ H[<<p, d>>] = Has(w, p)
        /\ K = [H EXCEPT ![<<p, d>>] = h]
    <3>1. /\ h \in 0..ShortMax /\ h = Has(w, p) + m /\ H = Amounts(arcs)
          /\ K = Amounts(Change(w, p, m)) /\ d = Sort(w)
      BY <2>5, <2>6
    <3>2. arcs \in Arcs
      BY <1>0
    <3> QED BY <1>1, <2>7, <3>1, <3>2, Changed
  <2>9. Shows(entries', K)
    <3>1. /\ h = H[<<p, Sort(w)>>] - Size(w) /\ h >= 0
          /\ K = [H EXCEPT ![<<p, Sort(w)>>] = h]
      BY <2>5, <2>6, <2>8
    <3>2. Shows(entries, H)
      BY <1>0, <2>6
    <3> DEFINE t == entries'
    <3>3. t = DelArcFrom(entries, w, p)
      BY <1>2
    <3> HIDE DEF t
    <3>4. Shows(t, K)
      BY <1>1, <1>2, <2>3, <3>1, <3>2, <3>3, DelShows
    <3> QED BY <3>4 DEF t
  <2>10. Apart(K)
    <3> SUFFICES ASSUME NEW q \in Place, K[<<q, 0>>] > 0 PROVE K[<<q, -1>>] = 0
      BY DEF Apart
    <3>1. -1 \in Sorts /\ 0 \in Sorts
      BY DEF Sorts
    <3>2. ASSUME NEW e \in Sorts
          PROVE  K[<<q, e>>] \in Nat /\ H[<<q, e>>] \in Nat /\ K[<<q, e>>] <= H[<<q, e>>]
      <4>1. H[<<q, e>>] \in 0..ShortMax /\ h <= H[<<p, d>>]
        BY <2>2, <2>3, <2>4, <2>5, <2>8, TransitionAssumption DEF Heights
      <4>2. K[<<q, e>>] = IF q = p /\ e = d THEN h ELSE H[<<q, e>>]
        BY <2>2, <2>3, <2>8 DEF Heights
      <4> QED BY <2>5, <4>1, <4>2, TransitionAssumption
    <3>3. H[<<q, 0>>] > 0
      BY <3>1, <3>2
    <3>4. H[<<q, -1>>] = 0
      BY <1>0, <2>6, <3>3 DEF Apart
    <3> QED BY <3>1, <3>2, <3>4
  <2>11. arcs' = Change(w, p, m)
    BY <1>2, <1>7, <2>6
  <2>12. K = Amounts(arcs')
    BY <2>6, <2>11
  <2>13. NetShown'
    BY <2>9, <2>10, <2>12 DEF NetShown
  <2>14. PtTypes'
    BY <1>0, <1>2, <1>3, <1>5, <2>8, <2>11 DEF PtTypes
  <2> QED BY <1>4, <2>13, <2>14 DEF PtInv
<1> QED BY <1>6, <1>7

\* So it holds in every state.
LEMMA PtInductive == PtSpec => []PtInv
<1>1. PtInit => PtInv
  BY InvInit
<1>2. ASSUME PtInv, [PtNext]_ptvars PROVE PtInv'
  <2>1. ASSUME NEW t \in Transition, NEW extra \in ExtraArcs, New(t, extra) PROVE PtInv'
    BY <1>2, <2>1, InvNew
  <2>2. CASE Free
    BY <1>2, <2>2, InvFree
  <2>3. ASSUME NEW w \in Weight, NEW p \in Place, AddArc(w, p) PROVE PtInv'
    BY <1>2, <2>3, InvAddArc
  <2>4. ASSUME NEW w \in Weight, NEW p \in Place, DelArc(w, p) PROVE PtInv'
    BY <1>2, <2>4, InvDelArc
  <2>5. CASE UNCHANGED ptvars
    BY <1>2, <2>5 DEF ptvars, PtInv, PtTypes, Room, NetShown, Exists
  <2> QED BY <1>2, <2>1, <2>2, <2>3, <2>4, <2>5 DEF PtNext
<1> QED BY <1>1, <1>2, PTL DEF PtSpec

\* The array and its counters keep their types, and as many arcs as the caller of
\* plc_synchpt_new asked for can still be added: plc_synchpt_add_arc never refuses them.
THEOREM ExtraArcsKept == PtSpec => []ExtraArcsHonoured
<1>1. PtInv => ExtraArcsHonoured
  <2> SUFFICES ASSUME PtInv PROVE ExtraArcsHonoured
    OBVIOUS
  <2>1. Sop = [num : Place, op : Short]
    BY DEF Sop
  <2>2. entries \in Seq(Sop) /\ Len(entries) \in Nat
    BY DEF PtInv, PtTypes
  <2>3. Exists => Len(entries) + spare <= total
    BY DEF PtInv, Room
  <2>4. Len(entries) <= (IF Exists THEN total ELSE 0)
    <3>1. spare \in Nat /\ total \in Int
      BY TransitionAssumption DEF PtInv, PtTypes
    <3>2. ~Exists => entries = <<>>
      BY DEF PtInv, Room
    <3> QED BY <2>2, <2>3, <3>1, <3>2
  <2> QED BY <2>1, <2>2, <2>3, <2>4 DEF PtInv, PtTypes, ExtraArcsHonoured, PtTypeOK
<1> QED BY <1>1, PtInductive, PTL

\* plc_synch on the array does to every marking what the transition of the net does.
THEOREM SynchIsTransition == PtSpec => []SynchFiresTransition
<1>1. PtInv => SynchFiresTransition
  <2> SUFFICES ASSUME PtInv, Exists, plain, entries # <<>>, NEW m \in [Place -> 0 .. ShortMax]
               PROVE  Synch(entries, m) = NetFires(m)
    BY DEF SynchFiresTransition
  <2>1. arcs \in Arcs /\ Shows(entries, Amounts(arcs)) /\ Apart(Amounts(arcs)) /\ m \in Markings
    BY DEF PtInv, PtTypes, NetShown, Markings
  <2> QED BY <2>1, SynchFires
<1> QED BY <1>1, PtInductive, PTL

(***************************************************************************)
(* The tables, and what is read from them.                                 *)
(***************************************************************************)
\* A cell of a matrix holds what a loop over the rows leaves in it.
LEMMA CellRuns ==
  ASSUME NEW w \in Seq(-1 .. SemMax)
  PROVE  \E f \in [0..Len(w) -> 0 .. SemMax] :
           /\ f[0] = 0
           /\ \A k \in 1..Len(w) : f[k] = IF w[k] < 0 THEN f[k - 1] ELSE w[k]
           /\ Cell(w) = f[Len(w)]
<1> DEFINE n == Len(w)
           S == 0 .. SemMax
           G == [x \in (1..n) \X S |-> IF w[x[1]] < 0 THEN x[2] ELSE w[x[1]]]
           cell[k \in 0 .. Len(w)] ==
             IF k = 0 THEN 0 ELSE IF w[k] < 0 THEN cell[k - 1] ELSE w[k]
<1>0. n \in Nat /\ SemMax \in Nat /\ \A k \in 1..n : w[k] \in -1 .. SemMax
  BY ScanAssumption
<1>1. 0 \in S /\ \A k \in 1..n : w[k] < 0 \/ w[k] \in S
  BY <1>0
<1>2. Cell(w) = cell[Len(w)]
  BY DEF Cell
<1>3. G \in [(1..n) \X S -> S]
  BY <1>1
<1>4. \A k \in 1..n, a \in S : G[<<k, a>>] = IF w[k] < 0 THEN a ELSE w[k]
  OBVIOUS
<1> HIDE DEF G, S, n, cell
<1>5. PICK f : Loop(f, n, S, 0, G)
  BY <1>0, <1>1, <1>3, LoopRuns
<1>6. f \in [0..n -> S] /\ f[0] = 0
  BY <1>5 DEF Loop
<1>7. \A k \in 1..n : f[k] = IF w[k] < 0 THEN f[k - 1] ELSE w[k]
  <2> SUFFICES ASSUME NEW k \in 1..n PROVE f[k] = IF w[k] < 0 THEN f[k - 1] ELSE w[k]
    OBVIOUS
  <2>1. f[k - 1] \in S
    BY <1>0, <1>6
  <2>2. f[k] = G[<<k, f[k - 1]>>]
    BY <1>5 DEF Loop
  <2> QED BY <1>4, <2>1, <2>2
<1>8. f = [k \in 0..n |-> IF k = 0 THEN 0 ELSE IF w[k] < 0 THEN f[k - 1] ELSE w[k]]
  <2> DEFINE h == [k \in 0..n |-> IF k = 0 THEN 0 ELSE IF w[k] < 0 THEN f[k - 1] ELSE w[k]]
  <2>1. ASSUME NEW k \in 0..n PROVE f[k] = h[k]
    <3>1. k = 0 \/ k \in 1..n
      BY <1>0
    <3> QED BY <1>6, <1>7, <3>1
  <2>2. h = [k \in 0..n |-> h[k]] /\ f = [k \in 0..n |-> f[k]]
    BY <1>6
  <2> HIDE DEF h
  <2>3. f = h
    BY <2>1, <2>2
  <2> QED BY <2>3 DEF h
<1>9. cell = [k \in 0..n |-> IF k = 0 THEN 0 ELSE IF w[k] < 0 THEN cell[k - 1] ELSE w[k]]
  BY <1>8 DEF n, cell
<1>10. cell[0] = 0 /\ \A k \in 1..n : cell[k] = IF w[k] < 0 THEN cell[k - 1] ELSE w[k]
  <2> DEFINE h == [k \in 0..n |-> IF k = 0 THEN 0 ELSE IF w[k] < 0 THEN cell[k - 1] ELSE w[k]]
  <2>1. h[0] = 0 /\ \A k \in 1..n : h[k] = IF w[k] < 0 THEN cell[k - 1] ELSE w[k]
    BY <1>0
  <2>2. cell = h
    BY <1>9
  <2> HIDE DEF h
  <2> QED BY <2>1, <2>2
<1>11. Rounds(cell, n, S, 0, G)
  BY <1>4, <1>10 DEF Rounds
<1>12. Same(f, cell, n)
  BY <1>0, <1>5, <1>11, LoopIs
<1>13. cell[n] = f[n]
  BY <1>0, <1>12 DEF Same
<1> QED BY <1>2, <1>6, <1>7, <1>13 DEF n, S

\* It is 0 if no row sets it, and otherwise as the last of those left it.
LEMMA CellIs ==
  ASSUME NEW w \in Seq(-1 .. SemMax)
  PROVE  /\ Cell(w) \in 0 .. SemMax
         /\ (\A k \in 1..Len(w) : w[k] < 0) => Cell(w) = 0
         /\ \A i \in 1..Len(w) :
              w[i] >= 0 /\ (\A k \in 1..Len(w) : k > i => w[k] < 0) => Cell(w) = w[i]
<1> DEFINE n == Len(w)
<1>0. n \in Nat /\ SemMax \in Nat /\ \A k \in 1..n : w[k] \in -1 .. SemMax
  BY ScanAssumption
<1>1. PICK f \in [0..n -> 0 .. SemMax] :
        /\ f[0] = 0
        /\ \A k \in 1..n : f[k] = IF w[k] < 0 THEN f[k - 1] ELSE w[k]
        /\ Cell(w) = f[n]
  BY CellRuns
<1> HIDE DEF n
<1>2. ASSUME NEW i \in 0..n, \A k \in 1..n : k > i => w[k] < 0
      PROVE  Cell(w) = f[i]
  <2> DEFINE Bad == {k \in i..n : f[k] # f[i]}
  <2>1. ASSUME Bad # {} PROVE FALSE
    <3>1. Bad \in SUBSET Nat
      BY <1>0
    <3> HIDE DEF Bad
    <3>2. PICK k \in Bad : \A j \in Bad : k <= j
      BY <2>1, <3>1, LeastOf
    <3> USE DEF Bad
    <3>3. k \in 1..n /\ k > i /\ k - 1 \in i..n
      BY <1>0, <3>2
    <3>4. k - 1 \notin Bad
      BY <1>0, <3>2, <3>3
    <3>5. f[k] = f[k - 1]
      BY <1>1, <1>2, <3>3
    <3> QED BY <3>2, <3>3, <3>4, <3>5
  <2>2. n \in i..n
    BY <1>0
  <2> QED BY <1>1, <2>1, <2>2
<1>3. Cell(w) \in 0 .. SemMax
  BY <1>0, <1>1
<1>4. (\A k \in 1..n : w[k] < 0) => Cell(w) = 0
  BY <1>0, <1>1, <1>2
<1>5. ASSUME NEW i \in 1..n, w[i] >= 0, \A k \in 1..n : k > i => w[k] < 0
      PROVE  Cell(w) = w[i]
  <2>1. f[i] = w[i]
    BY <1>0, <1>1, <1>5
  <2> QED BY <1>0, <1>2, <1>5, <2>1
<1> QED BY <1>3, <1>4, <1>5 DEF n

\* What the loops over the rows leave in the matrices and the first marking.
Cells(trans, places) == [trans -> [places -> 0 .. SemMax]]
NetShape(n) ==
  /\ n.init \in [DOMAIN n.init -> 0 .. SemMax]
  /\ \E trans : /\ n.in \in Cells(trans, DOMAIN n.init)
                /\ n.out \in Cells(trans, DOMAIN n.init)
                /\ n.null \in Cells(trans, DOMAIN n.init)

\* The sequences of what the rows write.
LEMMA WritesAre ==
  ASSUME NEW n \in Nat, NEW w \in [1..n -> -1 .. SemMax]
  PROVE  w \in Seq(-1 .. SemMax) /\ Len(w) = n
<1>1. w \in Seq(-1 .. SemMax)
  BY SeqDef
<1>2. Len(w) \in Nat /\ DOMAIN w = 1..Len(w)
  BY <1>1, LenProperties
<1>3. 1..Len(w) = 1..n
  BY <1>2
<1>4. Len(w) = n
  BY <1>2, <1>3
<1> QED BY <1>1, <1>4

LEMMA RowsTyped ==
  ASSUME NEW c \in Config
  PROVE  /\ Len(c.synch) \in Nat /\ DOMAIN c.synch = 1 .. Len(c.synch)
         /\ \A i \in 1 .. Len(c.synch) :
              c.synch[i] \in [from : Module, weight : -1 .. SemMax, to : Module]
         /\ Len(c.place) \in Nat /\ DOMAIN c.place = 1 .. Len(c.place)
         /\ \A i \in 1 .. Len(c.place) : c.place[i] \in [name : Name, tokens : 0 .. SemMax]
         /\ Len(c.arc) \in Nat
         /\ \A i \in 1 .. Len(c.arc) :
              c.arc[i] \in [from : Name, weight : -1 .. SemMax, to : Name]
         /\ Len(c.start) \in Nat /\ DOMAIN c.start = 1 .. Len(c.start)
<1>1. c.synch \in Seq([from : Module, weight : -1 .. SemMax, to : Module])
  BY TablesAssumption
<1>2. c.place \in Seq([name : Name, tokens : 0 .. SemMax])
  BY TablesAssumption
<1>3. c.arc \in Seq([from : Name, weight : -1 .. SemMax, to : Name])
  BY TablesAssumption
<1>4. c.start \in Seq(Seq(Module) \ {<<>>})
  BY TablesAssumption
<1> QED BY <1>1, <1>2, <1>3, <1>4, ElementOfSeq, LenProperties

LEMMA EndWeightTyped ==
  ASSUME NEW c \in Config, NEW t, NEW p
  PROVE  EndWeight(c, t, p) \in 0 .. SemMax
<1> DEFINE w == [i \in 1 .. Len(c.synch) |->
                  IF c.synch[i].weight > 0 /\ t = End(c.synch[i].from) /\ p = <<c.synch[i].to>>
                  THEN c.synch[i].weight ELSE -1]
<1>2. Len(c.synch) \in Nat /\ \A i \in 1 .. Len(c.synch) : c.synch[i].weight \in -1 .. SemMax
  BY RowsTyped
<1>3. w \in [1 .. Len(c.synch) -> -1 .. SemMax]
  BY <1>2, ScanAssumption
<1>4. EndWeight(c, t, p) = Cell(w)
  BY DEF EndWeight
<1> HIDE DEF w
<1> QED BY <1>2, <1>3, <1>4, WritesAre, CellIs

LEMMA SimpleShape == ASSUME NEW c \in Config PROVE NetShape(SimpleNet(c))
<1> DEFINE places == { <<m>> : m \in Listed(c) }
           trans == { Beg(m) : m \in Listed(c) } \cup { End(m) : m \in Listed(c) }
           started == { <<Head(c.start[i])>> : i \in DOMAIN c.start }
           in == [t \in trans |-> [p \in places |-> IF t = Beg(p[1]) THEN 1 ELSE 0]]
           out == [t \in trans |-> [p \in places |-> EndWeight(c, t, p)]]
           null == [t \in trans |-> [p \in places |-> 0]]
           init == [p \in places |-> IF p \in started THEN 1 ELSE 0]
<1>1. SimpleNet(c).in = in /\ SimpleNet(c).out = out /\ SimpleNet(c).null = null
      /\ SimpleNet(c).init = init
  BY DEF SimpleNet
<1>2. SemMax \in Nat \ {0}
  BY ScanAssumption
<1> HIDE DEF places, trans, started
<1>3. in \in Cells(trans, places) /\ null \in Cells(trans, places)
  BY <1>2 DEF Cells
<1>4. out \in Cells(trans, places)
  BY EndWeightTyped DEF Cells
<1>5. init \in [places -> 0 .. SemMax] /\ DOMAIN init = places
  BY <1>2
<1> HIDE DEF in, out, null, init
<1> QED BY <1>1, <1>3, <1>4, <1>5 DEF NetShape

LEMMA ComplexShape == ASSUME NEW c \in Config PROVE NetShape(ComplexNet(c))
<1> DEFINE n == Len(c.arc)
           in(t, p) == [i \in 1 .. n |-> InWrite(c, c.arc[i], t, p)]
           out(t, p) == [i \in 1 .. n |-> OutWrite(c, c.arc[i], t, p)]
           null(t, p) == [i \in 1 .. n |-> NullWrite(c, c.arc[i], t, p)]
           ini(p) == [i \in 1 .. Len(c.place) |->
                       IF c.place[i].name = p THEN c.place[i].tokens ELSE -1]
<1>1. /\ n \in Nat /\ \A i \in 1 .. n : c.arc[i].weight \in -1 .. SemMax
      /\ Len(c.place) \in Nat /\ \A i \in 1 .. Len(c.place) : c.place[i].tokens \in 0 .. SemMax
  BY RowsTyped DEF n
<1>2. SemMax \in Nat \ {0}
  BY ScanAssumption
<1> HIDE DEF n
<1>3. ASSUME NEW t, NEW p
      PROVE  Cell(in(t, p)) \in 0 .. SemMax /\ Cell(out(t, p)) \in 0 .. SemMax
             /\ Cell(null(t, p)) \in 0 .. SemMax
  <2>1. in(t, p) \in [1 .. n -> -1 .. SemMax]
    BY <1>1, <1>2 DEF InWrite
  <2>2. out(t, p) \in [1 .. n -> -1 .. SemMax]
    BY <1>1, <1>2 DEF OutWrite
  <2>3. null(t, p) \in [1 .. n -> -1 .. SemMax]
    BY <1>1, <1>2 DEF NullWrite
  <2> HIDE DEF in, out, null
  <2> QED BY <1>1, <2>1, <2>2, <2>3, WritesAre, CellIs
<1>4. ASSUME NEW p PROVE Cell(ini(p)) \in 0 .. SemMax
  <2>1. ini(p) \in [1 .. Len(c.place) -> -1 .. SemMax]
    BY <1>1, <1>2
  <2> HIDE DEF ini
  <2> QED BY <1>1, <2>1, WritesAre, CellIs
<1> DEFINE T == ComplexTrans(c)
           P == ComplexPlaces(c)
<1>5. /\ ComplexNet(c).in = [t \in T |-> [p \in P |-> Cell(in(t, p))]]
      /\ ComplexNet(c).out = [t \in T |-> [p \in P |-> Cell(out(t, p))]]
      /\ ComplexNet(c).null = [t \in T |-> [p \in P |-> Cell(null(t, p))]]
      /\ ComplexNet(c).init = [p \in P |-> Cell(ini(p))]
  BY DEF ComplexNet, InitTokens, n
<1> HIDE DEF T, P, in, out, null, ini
<1>6. ComplexNet(c).in \in Cells(T, P) /\ ComplexNet(c).out \in Cells(T, P)
      /\ ComplexNet(c).null \in Cells(T, P)
  BY <1>3, <1>5 DEF Cells
<1>7. ComplexNet(c).init \in [P -> 0 .. SemMax] /\ DOMAIN ComplexNet(c).init = P
  BY <1>4, <1>5
<1> QED BY <1>6, <1>7 DEF NetShape

\* Whatever the tables say, what plc_setup leaves in the confmap is a net.
LEMMA LoadedTyped == ASSUME NEW c \in Config PROVE NetType(Loaded(c))
<1> DEFINE n == PetriNet(c)
           L == Loaded(c)
<1>1. NetShape(n)
  BY SimpleShape, ComplexShape DEF PetriNet
<1>2. PICK trans : /\ n.in \in Cells(trans, DOMAIN n.init) /\ n.out \in Cells(trans, DOMAIN n.init)
                   /\ n.null \in Cells(trans, DOMAIN n.init)
  BY <1>1 DEF NetShape
<1>3. /\ L.init = n.init
      /\ L.trans = [t \in {NULL} \cup DOMAIN n.in |->
                     [wait |-> [p \in DOMAIN n.init |-> WaitOf(n, t, p)],
                      signal |-> [p \in DOMAIN n.init |-> SignalOf(n, t, p)]]]
  BY DEF Loaded
<1>4. n.init \in [DOMAIN n.init -> 0 .. SemMax] /\ DOMAIN n.in = trans
  BY <1>1, <1>2 DEF NetShape, Cells
<1>5. SemMax \in Nat \ {0}
  BY ScanAssumption
<1> HIDE DEF n, L
<1>6. ASSUME NEW t \in {NULL} \cup trans, NEW p \in DOMAIN n.init
      PROVE  WaitOf(n, t, p) \in -1 .. SemMax /\ SignalOf(n, t, p) \in (-1 .. SemMax) \ {0}
  <2>1. CASE t = NULL
    BY <1>5, <2>1 DEF WaitOf, SignalOf
  <2>2. CASE t # NULL
    <3>1. n.in[t][p] \in 0 .. SemMax /\ n.out[t][p] \in 0 .. SemMax
      BY <1>2, <2>2 DEF Cells
    <3> QED BY <1>5, <2>2, <3>1 DEF WaitOf, SignalOf, Arc
  <2> QED BY <2>1, <2>2
<1>7. \A t \in DOMAIN L.trans :
        L.trans[t] \in [wait : [DOMAIN n.init -> -1 .. SemMax],
                        signal : [DOMAIN n.init -> (-1 .. SemMax) \ {0}]]
  BY <1>3, <1>4, <1>6
<1> QED BY <1>3, <1>4, <1>7 DEF NetType, L

\* The names of the simple tables are names of their own.
LEMMA NamesDiffer ==
  ASSUME NEW m, NEW x
  PROVE  /\ Beg(m) # End(x) /\ Beg(m) # NULL /\ End(m) # NULL
         /\ Beg(m) = Beg(x) => m = x
         /\ End(m) = End(x) => m = x
         /\ <<m>> = <<x>> => m = x
<1>1. Beg(m)[2] = ".beg" /\ End(x)[2] = ".end" /\ ".beg" # ".end"
  BY DEF Beg, End
<1>2. Beg(m)[1] = m /\ Beg(x)[1] = x /\ End(m)[1] = m /\ End(x)[1] = x
  BY DEF Beg, End
<1>3. DOMAIN NULL = 1..1 /\ DOMAIN Beg(m) = 1..2 /\ DOMAIN End(m) = 1..2
  BY DEF NULL, Beg, End
<1>4. 2 \in 1..2 /\ 2 \notin 1..1
  OBVIOUS
<1>5. <<m>>[1] = m /\ <<x>>[1] = x
  OBVIOUS
<1> QED BY <1>1, <1>2, <1>3, <1>4, <1>5

\* If rows join two modules, one of them is the last.
LEMMA LastRowIs ==
  ASSUME config \in Config, NEW a, NEW b
  PROVE  /\ \A i \in DOMAIN config.synch :
              Joins(config.synch[i], a, b) => \E j \in LastRows(a, b) : TRUE
         /\ \A j \in LastRows(a, b) : Grant(a, b) = config.synch[j].weight
<1> DEFINE n == Len(config.synch)
<1>1. n \in Nat /\ DOMAIN config.synch = 1..n
  BY RowsTyped
<1> HIDE DEF n
<1>2. ASSUME NEW i \in 1..n, Joins(config.synch[i], a, b)
      PROVE  \E j \in LastRows(a, b) : TRUE
  <2> DEFINE after == {n - j : j \in {k \in 1..n : Joins(config.synch[k], a, b)}}
  <2>1. after \in SUBSET Nat /\ after # {}
    BY <1>1, <1>2
  <2> HIDE DEF after
  <2>2. PICK d \in after : \A e \in after : d <= e
    BY <2>1, LeastOf
  <2>3. PICK j \in 1..n : d = n - j /\ Joins(config.synch[j], a, b)
    BY <2>2 DEF after
  <2>4. \A k \in 1..n : k > j => ~Joins(config.synch[k], a, b)
    <3> SUFFICES ASSUME NEW k \in 1..n, k > j, Joins(config.synch[k], a, b) PROVE FALSE
      OBVIOUS
    <3>1. n - k \in after
      BY DEF after
    <3> QED BY <1>1, <2>2, <2>3, <3>1
  <2> QED BY <1>1, <2>3, <2>4 DEF LastRows, LastRow
<1>3. ASSUME NEW j \in LastRows(a, b)
      PROVE  Grant(a, b) = config.synch[j].weight
  <2>1. \A k \in LastRows(a, b) : k = j
    BY <1>1, <1>3 DEF LastRows, LastRow
  <2>2. (CHOOSE k \in LastRows(a, b) : TRUE) = j
    BY <1>3, <2>1
  <2> QED BY <1>3, <2>2 DEF Grant
<1> QED BY <1>1, <1>2, <1>3

\* What the end of a module's scan puts into the place of another is what the
\* last row for the two says.
LEMMA EndWeightIs ==
  ASSUME config \in Config, NEW m, NEW b
  PROVE  EndWeight(config, End(m), <<b>>) = Grant(m, b)
<1> DEFINE n == Len(config.synch)
           w == [i \in 1 .. n |->
                  IF config.synch[i].weight > 0 /\ End(m) = End(config.synch[i].from)
                       /\ <<b>> = <<config.synch[i].to>>
                  THEN config.synch[i].weight ELSE -1]
<1>1. /\ n \in Nat /\ DOMAIN config.synch = 1..n
      /\ \A i \in 1..n : config.synch[i].weight \in -1 .. SemMax
  BY RowsTyped
<1>2. EndWeight(config, End(m), <<b>>) = Cell(w)
  BY DEF EndWeight
<1>3. ASSUME NEW i \in 1..n
      PROVE  w[i] = IF Joins(config.synch[i], m, b) THEN config.synch[i].weight ELSE -1
  BY NamesDiffer DEF Joins
<1>4. w \in [1..n -> -1 .. SemMax]
  BY <1>1, ScanAssumption
<1> HIDE DEF w, n
<1>5. w \in Seq(-1 .. SemMax) /\ Len(w) = n
  BY <1>1, <1>4, WritesAre
<1>6. CASE LastRows(m, b) = {}
  <2>1. \A i \in 1..n : ~Joins(config.synch[i], m, b)
    BY <1>1, <1>6, LastRowIs
  <2>2. \A i \in 1..n : w[i] < 0
    BY <1>3, <2>1
  <2> QED BY <1>2, <1>5, <1>6, <2>2, CellIs DEF Grant
<1>7. ASSUME NEW j \in LastRows(m, b) PROVE Cell(w) = Grant(m, b)
  <2>1. /\ j \in 1..n /\ Joins(config.synch[j], m, b)
        /\ \A k \in 1..n : k > j => ~Joins(config.synch[k], m, b)
    BY <1>1 DEF LastRows, LastRow
  <2>2. w[j] = config.synch[j].weight /\ w[j] >= 0
    BY <1>1, <1>3, <2>1 DEF Joins
  <2>3. \A k \in 1..n : k > j => w[k] < 0
    BY <1>1, <1>3, <2>1
  <2>4. Cell(w) = w[j]
    BY <1>1, <1>5, <2>1, <2>2, <2>3, CellIs
  <2> QED BY <2>2, <2>4, LastRowIs
<1> QED BY <1>2, <1>6, <1>7

\* Only modules of the rows have followers.
LEMMA GrantsListed ==
  ASSUME config \in Config, NEW m, NEW b, Grant(m, b) # 0
  PROVE  m \in Listed(config) /\ b \in Listed(config)
<1>1. PICK j \in LastRows(m, b) : TRUE
  BY DEF Grant
<1>2. j \in DOMAIN config.synch /\ Joins(config.synch[j], m, b)
  BY <1>1 DEF LastRows, LastRow
<1> QED BY <1>2 DEF Joins, Listed, GoodRows

LEMMA ListedModules == ASSUME config \in Config PROVE Listed(config) \subseteq Module
BY RowsTyped DEF Listed, GoodRows

\* The rows of a simple table become the arcs they mean.
LEMMA RowsRead ==
  ASSUME config \in Config, net = Loaded(config), Simple, Unnamed
  PROVE  RowsAreArcs
<1> DEFINE n == SimpleNet(config)
           L == Listed(config)
           places == { <<m>> : m \in L }
           trans == { Beg(m) : m \in L } \cup { End(m) : m \in L }
<1>1. PetriNet(config) = n
  BY DEF PetriNet, Simple
<1>2. /\ n.in = [t \in trans |-> [p \in places |-> IF t = Beg(p[1]) THEN 1 ELSE 0]]
      /\ n.out = [t \in trans |-> [p \in places |-> EndWeight(config, t, p)]]
      /\ n.null = [t \in trans |-> [p \in places |-> 0]]
      /\ n.init = [p \in places |->
           IF p \in { <<Head(config.start[i])>> : i \in DOMAIN config.start } THEN 1 ELSE 0]
  BY DEF SimpleNet
<1> HIDE DEF n
<1>3. DOMAIN n.init = places /\ DOMAIN n.in = trans
  BY <1>2
<1>4. /\ net.init = n.init
      /\ net.trans = [t \in {NULL} \cup trans |->
                       [wait |-> [p \in places |-> WaitOf(n, t, p)],
                        signal |-> [p \in places |-> SignalOf(n, t, p)]]]
  BY <1>1, <1>3 DEF Loaded
<1>5. ASSUME NEW m
      PROVE  /\ Beg(m) \in trans <=> m \in L
             /\ End(m) \in trans <=> m \in L
  BY NamesDiffer
<1>6. ASSUME NEW t \in trans, NEW b \in L
      PROVE  /\ WaitOf(n, t, <<b>>) = IF t = Beg(b) THEN 1 ELSE -1
             /\ SignalOf(n, t, <<b>>) = Arc(EndWeight(config, t, <<b>>))
  <2>1. t # NULL
    BY NamesDiffer
  <2>2. <<b>> \in places /\ <<b>>[1] = b
    OBVIOUS
  <2>3. n.in[t][<<b>>] = (IF t = Beg(b) THEN 1 ELSE 0) /\ n.null[t][<<b>>] = 0
        /\ n.out[t][<<b>>] = EndWeight(config, t, <<b>>)
    BY <1>2, <2>2
  <2> QED BY <2>1, <2>3 DEF WaitOf, SignalOf, Arc
<1>7. ASSUME NEW m
      PROVE  /\ ScanBegOf(m) = net.trans[IF m \in L THEN Beg(m) ELSE NULL]
             /\ ScanEndOf(m) = net.trans[IF m \in L THEN End(m) ELSE NULL]
  <2>1. DOMAIN net.trans = {NULL} \cup trans
    BY <1>4
  <2>2. /\ ScanBegOf(m) = net.trans[IF Beg(m) \in DOMAIN net.trans THEN Beg(m) ELSE NULL]
        /\ ScanEndOf(m) = net.trans[IF End(m) \in DOMAIN net.trans THEN End(m) ELSE NULL]
    BY DEF ScanBegOf, ScanEndOf, Chosen, Unnamed
  <2>3. Beg(m) # NULL /\ End(m) # NULL
    BY NamesDiffer
  <2> HIDE DEF trans, L
  <2> QED BY <1>5, <2>1, <2>2, <2>3
<1>8. ASSUME NEW b \in L
      PROVE  \A t \in {NULL} \cup trans :
               /\ net.trans[t].wait[<<b>>] = WaitOf(n, t, <<b>>)
               /\ net.trans[t].signal[<<b>>] = SignalOf(n, t, <<b>>)
  <2>1. <<b>> \in places
    OBVIOUS
  <2> HIDE DEF places, trans, L
  <2> QED BY <1>4, <2>1
<1>9. ASSUME NEW m \in Module, NEW b \in L
      PROVE  /\ ScanBegOf(m).wait[<<b>>] = (IF b = m THEN 1 ELSE -1)
             /\ ScanBegOf(m).signal[<<b>>] = -1
             /\ ScanEndOf(m).wait[<<b>>] = -1
             /\ ScanEndOf(m).signal[<<b>>] = Arc(Grant(m, b))
  <2>1. CASE m \in L
    <3>1. Beg(m) \in trans /\ End(m) \in trans
      BY <1>5, <2>1
    <3>2. EndWeight(config, Beg(m), <<b>>) = 0
      <4> DEFINE w == [i \in 1 .. Len(config.synch) |->
                    IF config.synch[i].weight > 0 /\ Beg(m) = End(config.synch[i].from)
                         /\ <<b>> = <<config.synch[i].to>>
                    THEN config.synch[i].weight ELSE -1]
      <4>1. w = [i \in 1 .. Len(config.synch) |-> -1]
        BY NamesDiffer
      <4>2. EndWeight(config, Beg(m), <<b>>) = Cell(w)
        BY DEF EndWeight
      <4> HIDE DEF w
      <4>3. w \in [1 .. Len(config.synch) -> -1 .. SemMax] /\ Len(config.synch) \in Nat
        BY <4>1, RowsTyped, ScanAssumption
      <4>4. w \in Seq(-1 .. SemMax) /\ Len(w) = Len(config.synch)
        BY <4>3, WritesAre
      <4>5. \A i \in 1..Len(w) : w[i] < 0
        BY <4>1, <4>4
      <4> QED BY <4>2, <4>4, <4>5, CellIs
    <3>3. Beg(m) = Beg(b) <=> m = b
      BY NamesDiffer
    <3>4. End(m) # Beg(b)
      BY NamesDiffer
    <3>5. EndWeight(config, End(m), <<b>>) = Grant(m, b)
      BY EndWeightIs
    <3>6. Arc(0) = -1
      BY DEF Arc
    <3> HIDE DEF trans, L, places
    <3> QED BY <1>6, <1>7, <1>8, <2>1, <3>1, <3>2, <3>3, <3>4, <3>5, <3>6
  <2>2. CASE m \notin L
    <3>1. Grant(m, b) = 0
      BY <2>2, GrantsListed
    <3>2. m # b
      BY <2>2
    <3>3. Arc(0) = -1
      BY DEF Arc
    <3>4. WaitOf(n, NULL, <<b>>) = -1 /\ SignalOf(n, NULL, <<b>>) = -1
      BY DEF WaitOf, SignalOf
    <3> HIDE DEF trans, L, places
    <3> QED BY <1>7, <1>8, <2>2, <3>1, <3>2, <3>3, <3>4
  <2> QED BY <2>1, <2>2
<1>10. ASSUME NEW m \in L
       PROVE  net.init[<<m>>] = (IF Started(m) THEN 1 ELSE 0)
  <2>1. <<m>> \in { <<Head(config.start[i])>> : i \in DOMAIN config.start } <=> Started(m)
    BY NamesDiffer DEF Started
  <2>2. <<m>> \in places
    OBVIOUS
  <2> HIDE DEF places, L
  <2> QED BY <1>2, <1>4, <2>1, <2>2
<1>11. DOMAIN net.init = places
  BY <1>3, <1>4
<1> QED BY <1>9, <1>10, <1>11 DEF RowsAreArcs

(***************************************************************************)
(* Type correctness.                                                       *)
(***************************************************************************)
\* The shape of the net does not change.
Shape == /\ net.ok
         /\ config \in Config
         /\ net = Loaded(config)
         /\ NetType(net)
Typed == TypeOK /\ Shape

\* Firing a transition of the net leaves a marking the semaphores can hold.
LEMMA FireTyped ==
  ASSUME Typed, NEW t \in DOMAIN net.trans, Fire(net.trans[t])
  PROVE  tokens' \in [DOMAIN net.init -> 0 .. SemMax] /\ full' \in BOOLEAN
<1> DEFINE T == net.trans[t]
<1>1. /\ T \in [wait : [DOMAIN net.init -> -1 .. SemMax],
               signal : [DOMAIN net.init -> (-1 .. SemMax) \ {0}]]
      /\ tokens \in [DOMAIN net.init -> 0 .. SemMax] /\ full \in BOOLEAN
  BY DEF Typed, TypeOK, Shape, NetType
<1> HIDE DEF T
<1>2. CASE Overflows(T)
  BY <1>1, <1>2 DEF Fire, T
<1>3. CASE ~Overflows(T)
  <2>1. SemMax \in Nat
    BY ScanAssumption
  <2>2. CanFire(T) /\ tokens' = After(T) /\ full' = full
    BY <1>3 DEF Fire, T
  <2>3. \A p \in DOMAIN net.init : After(T)[p] \in 0 .. SemMax
    BY <1>1, <1>3, <2>1, <2>2 DEF CanFire, Overflows, After, Taken, Given, Places
  <2> QED BY <1>1, <2>2, <2>3 DEF After, Places
<1> QED BY <1>2, <1>3

LEMMA ChosenInNet ==
  ASSUME Shape, NEW m
  PROVE  /\ \E t \in DOMAIN net.trans : ScanBegOf(m) = net.trans[t]
         /\ \E t \in DOMAIN net.trans : ScanEndOf(m) = net.trans[t]
BY DEF Shape, NetType, ScanBegOf, ScanEndOf, Chosen

LEMMA InitTyped == Init => Typed
<1> SUFFICES ASSUME Init PROVE Typed
  OBVIOUS
<1>1. SemMax \in Nat \ {0} /\ DeathsMax \in Nat /\ MatPLC \notin Module
  BY ScanAssumption
<1>2. NetType(net) /\ net.ok /\ config \in Config /\ net = Loaded(config)
  BY LoadedTyped DEF Init
<1>3. tokens \in [DOMAIN net.init -> 0 .. SemMax]
  BY <1>2 DEF Init, NetType
<1>4. owed \in [Module -> 0 .. OwedMax]
  BY <1>1 DEF Init, OwedMax
<1>5. full \in BOOLEAN
  BY DEF Init
<1>6. phase \in [Module -> {"down", "idle", "scan"}] /\ halted \subseteq Module \cup {MatPLC}
  BY DEF Init
<1>7. deaths \in 0 .. DeathsMax
  BY <1>1 DEF Init
<1> QED BY <1>2, <1>3, <1>4, <1>5, <1>6, <1>7 DEF Typed, TypeOK, Shape

LEMMA GrantNat == ASSUME Shape, NEW a, NEW b PROVE Grant(a, b) \in Nat
<1>1. CASE LastRows(a, b) = {}
  BY <1>1 DEF Grant
<1>2. CASE LastRows(a, b) # {}
  <2> DEFINE i == CHOOSE i \in LastRows(a, b) : TRUE
  <2>1. i \in LastRows(a, b)
    BY <1>2
  <2>2. i \in DOMAIN config.synch /\ config.synch[i].weight > 0
    BY <2>1 DEF LastRows, LastRow, Joins
  <2>3. config.synch[i].weight \in Int
    BY <2>2, RowsTyped DEF Shape
  <2> QED BY <1>2, <2>2, <2>3 DEF Grant
<1> QED BY <1>1, <1>2

\* Only the marking, the phase of a module and the history change in a scan.
LEMMA ScanTyped ==
  ASSUME Typed, NEW m \in Module, ScanBeg(m) \/ ScanEnd(m)
  PROVE  Typed'
<1>1. PICK t \in DOMAIN net.trans : Fire(net.trans[t])
  BY ChosenInNet DEF Typed, ScanBeg, ScanEnd
<1>2. net' = net /\ config' = config /\ halted' = halted /\ deaths' = deaths
  BY DEF ScanBeg, ScanEnd
<1>3. tokens' \in [DOMAIN net.init -> 0 .. SemMax] /\ full' \in BOOLEAN
  BY <1>1, FireTyped
<1>4. phase' \in [Module -> {"down", "idle", "scan"}]
  BY DEF Typed, TypeOK, ScanBeg, ScanEnd
<1>5. owed' \in [Module -> 0 .. OwedMax]
  <2>1. owed \in [Module -> 0 .. OwedMax] /\ SemMax \in Nat
    BY ScanAssumption DEF Typed, TypeOK
  <2>2. CASE ScanBeg(m)
    BY <2>1, <2>2 DEF ScanBeg, OwedMax
  <2>3. CASE ScanEnd(m)
    <3>1. \A b \in Module : Grant(m, b) \in Nat
      BY GrantNat DEF Typed
    <3>2. OwedMax \in Nat
      BY <2>1 DEF OwedMax
    <3> QED BY <2>1, <2>3, <3>1, <3>2 DEF ScanEnd, OwedAfter
  <2> QED BY <2>2, <2>3
<1>6. Shape'
  BY <1>2 DEF Typed, Shape, NetType
<1>7. TypeOK'
  BY <1>2, <1>3, <1>4, <1>5 DEF Typed, TypeOK
<1> QED BY <1>6, <1>7 DEF Typed

LEMMA StepTyped == Typed /\ [Next]_vars => Typed'
<1> SUFFICES ASSUME Typed, [Next]_vars PROVE Typed'
  OBVIOUS
<1>1. ASSUME NEW m \in Module, ScanBeg(m) \/ ScanEnd(m) PROVE Typed'
  BY <1>1, ScanTyped
<1>2. ASSUME NEW m \in Module, Start(m) PROVE Typed'
  BY <1>2 DEF Start, Typed, TypeOK, Shape, NetType
<1>3. ASSUME NEW m \in Module, Die(m) PROVE Typed'
  BY <1>3, ScanAssumption DEF Die, Typed, TypeOK, Shape, NetType
<1>4. ASSUME NEW x \in Module \cup {MatPLC}, Stop(x) \/ Run(x) PROVE Typed'
  BY <1>4 DEF Stop, Run, Typed, TypeOK, Shape, NetType
<1>5. CASE UNCHANGED vars
  BY <1>5 DEF vars, Typed, TypeOK, Shape, NetType
<1> QED BY <1>1, <1>2, <1>3, <1>4, <1>5 DEF Next

\* Every reachable state is well typed: no place ever holds more tokens than a
\* semaphore can, whatever the configuration, for any number of modules.
THEOREM TypeCorrect == Spec => []TypeOK
<1>1. Typed => TypeOK
  BY DEF Typed
<1> QED BY <1>1, InitTyped, StepTyped, PTL DEF Spec

\* A configuration names finitely many places.
LEMMA FinitePlaces == ASSUME NEW c \in Config PROVE IsFiniteSet(DOMAIN Loaded(c).init)
<1>1. DOMAIN Loaded(c).init = DOMAIN PetriNet(c).init
  BY DEF Loaded
<1>2. IsFiniteSet(DOMAIN SimpleNet(c).init)
  <2> DEFINE L == Listed(c)
             f == [m \in L |-> <<m>>]
             P == { <<m>> : m \in L }
  <2>1. DOMAIN SimpleNet(c).init = P
    BY DEF SimpleNet
  <2>2. IsFiniteSet(L)
    <3>1. L \subseteq Module
      BY RowsTyped DEF Listed, GoodRows
    <3> HIDE DEF L
    <3> QED BY <3>1, FS_Subset, ScanAssumption
  <2> HIDE DEF L
  <2>3. f \in Surjection(L, P)
    BY DEF Surjection
  <2> HIDE DEF f, P
  <2> QED BY <2>1, <2>2, <2>3, FS_Surjection
<1>3. IsFiniteSet(DOMAIN ComplexNet(c).init)
  <2> DEFINE f == [i \in 1 .. Len(c.place) |-> c.place[i].name]
             I == 1 .. Len(c.place)
             P == ComplexPlaces(c)
  <2>1. DOMAIN ComplexNet(c).init = P
    BY DEF ComplexNet
  <2>2. Len(c.place) \in Nat /\ DOMAIN c.place = I
    BY RowsTyped
  <2>3. IsFiniteSet(I)
    <3>1. 1 \in Int /\ Len(c.place) \in Int
      BY <2>2
    <3> QED BY <3>1, FS_Interval
  <2>4. f \in Surjection(I, P)
    BY <2>2 DEF Surjection, ComplexPlaces
  <2> HIDE DEF f, P, I
  <2> QED BY <2>1, <2>3, <2>4, FS_Surjection
<1> QED BY <1>1, <1>2, <1>3 DEF PetriNet

(***************************************************************************)
(* Counting tokens.                                                        *)
(***************************************************************************)
LEMMA UnitsFinite ==
  ASSUME NEW k, IsFiniteSet(DOMAIN k)
  PROVE  IsFiniteSet(Units(k)) /\ Total(k) \in Nat
<1>1. SemMax \in Nat
  BY ScanAssumption
<1>2. IsFiniteSet(1 .. SemMax)
  BY <1>1, FS_Interval
<1>3. IsFiniteSet((DOMAIN k) \X (1 .. SemMax))
  BY <1>2, FS_Product
<1>4. Units(k) \in SUBSET ((DOMAIN k) \X (1 .. SemMax))
  BY DEF Units
<1>5. IsFiniteSet(Units(k))
  BY <1>3, <1>4, FS_Subset
<1> QED BY <1>5, FS_CardinalityType DEF Total

\* Where there is no arc, nothing counts.
LEMMA TotalArcs ==
  ASSUME NEW P, NEW k \in [P -> -1 .. SemMax]
  PROVE  Total(k) = Total([p \in P |-> IF k[p] > 0 THEN k[p] ELSE 0])
<1> DEFINE g == [p \in P |-> IF k[p] > 0 THEN k[p] ELSE 0]
<1>1. SemMax \in Nat
  BY ScanAssumption
<1>2. \A p \in P, i \in 1 .. SemMax : i <= k[p] <=> i <= g[p]
  BY <1>1
<1>3. DOMAIN g = P /\ DOMAIN k = P
  OBVIOUS
<1> HIDE DEF g
<1>4. Units(k) = Units(g)
  BY <1>2, <1>3 DEF Units
<1> QED BY <1>4 DEF Total, g

\* The tokens of two markings are the tokens of both.
LEMMA TotalSum ==
  ASSUME NEW P, IsFiniteSet(P), NEW f \in [P -> 0 .. SemMax], NEW g \in [P -> 0 .. SemMax],
         NEW h \in [P -> 0 .. SemMax], \A p \in P : f[p] = g[p] + h[p]
  PROVE  Total(f) = Total(g) + Total(h)
<1> DEFINE above == { x \in P \X (1 .. SemMax) : g[x[1]] < x[2] /\ x[2] <= f[x[1]] }
           lift == [x \in Units(h) |-> <<x[1], x[2] + g[x[1]]>>]
<1>0. SemMax \in Nat /\ DOMAIN f = P /\ DOMAIN g = P /\ DOMAIN h = P
  BY ScanAssumption
<1>1. Units(f) = Units(g) \cup above /\ Units(g) \cap above = {}
  BY <1>0 DEF Units
<1>2. ASSUME NEW x \in Units(h)
      PROVE  x \in P \X (1 .. SemMax) /\ x[2] <= h[x[1]] /\ lift[x] \in above
  <2>1. x \in P \X (1 .. SemMax) /\ x[2] <= h[x[1]]
    BY <1>0 DEF Units
  <2>2. x[2] + g[x[1]] \in 1 .. SemMax /\ g[x[1]] < x[2] + g[x[1]]
        /\ x[2] + g[x[1]] <= f[x[1]]
    BY <1>0, <2>1
  <2> QED BY <2>1, <2>2
<1>3. ASSUME NEW x \in Units(h), NEW y \in Units(h), lift[x] = lift[y] PROVE x = y
  <2>1. x \in P \X (1 .. SemMax) /\ y \in P \X (1 .. SemMax)
    BY <1>2
  <2>2. x[1] = y[1] /\ x[2] + g[x[1]] = y[2] + g[y[1]]
    BY <1>3
  <2>3. x[2] \in Int /\ y[2] \in Int
    BY <2>1, <1>0
  <2>4. g[x[1]] \in Int
    BY <2>1, <1>0
  <2>5. x[2] = y[2]
    BY <2>2, <2>3, <2>4
  <2>6. x = <<x[1], x[2]>> /\ y = <<y[1], y[2]>>
    BY <2>1
  <2> QED BY <2>2, <2>5, <2>6
<1>4. ASSUME NEW y \in above PROVE \E x \in Units(h) : lift[x] = y
  <2> DEFINE x == <<y[1], y[2] - g[y[1]]>>
  <2>1. y[1] \in P /\ y[2] \in 1 .. SemMax /\ g[y[1]] < y[2] /\ y[2] <= f[y[1]]
    OBVIOUS
  <2>2. y[2] - g[y[1]] \in 1 .. SemMax /\ y[2] - g[y[1]] <= h[y[1]]
    BY <1>0, <2>1
  <2>3. x \in Units(h)
    BY <1>0, <2>1, <2>2 DEF Units
  <2>4. y = <<y[1], y[2]>> /\ (y[2] - g[y[1]]) + g[y[1]] = y[2]
    BY <1>0, <2>1
  <2> QED BY <2>3, <2>4
<1> HIDE DEF above, lift
<1>5. lift \in [Units(h) -> above]
  BY <1>2 DEF lift
<1>6. lift \in Bijection(Units(h), above)
  BY <1>3, <1>4, <1>5 DEF Bijection, Injection, Surjection, IsInjective
<1>7. IsFiniteSet(Units(g)) /\ IsFiniteSet(Units(h)) /\ Total(g) \in Nat /\ Total(h) \in Nat
  BY <1>0, UnitsFinite
<1>8. ExistsBijection(Units(h), above)
  BY <1>6 DEF ExistsBijection
<1>9. IsFiniteSet(above) /\ Cardinality(above) = Total(h)
  BY <1>7, <1>8, FS_Bijection DEF Total
<1>10. Total(f) = Total(g) + Total(h) - Cardinality({})
  BY <1>1, <1>7, <1>9, FS_Union DEF Total
<1> QED BY <1>7, <1>10, FS_EmptySet

\* Nothing counts only if nothing is there.
LEMMA TotalZero ==
  ASSUME NEW P, IsFiniteSet(P), NEW k \in [P -> -1 .. SemMax]
  PROVE  Total(k) = 0 <=> \A p \in P : k[p] <= 0
<1>1. SemMax \in Nat \ {0} /\ DOMAIN k = P
  BY ScanAssumption
<1>2. IsFiniteSet(Units(k))
  BY <1>1, UnitsFinite
<1>3. Total(k) = 0 <=> Units(k) = {}
  BY <1>2, FS_EmptySet DEF Total
<1>4. ASSUME NEW p \in P, k[p] > 0 PROVE <<p, 1>> \in Units(k)
  BY <1>1, <1>4 DEF Units
<1>5. ASSUME NEW x \in Units(k) PROVE x[1] \in P /\ k[x[1]] > 0
  <2>1. x \in P \X (1 .. SemMax) /\ x[2] <= k[x[1]]
    BY <1>1 DEF Units
  <2>2. x[1] \in P /\ x[2] \in 1 .. SemMax /\ k[x[1]] \in -1 .. SemMax
    BY <2>1
  <2> QED BY <1>1, <2>1, <2>2
<1>6. \A p \in P : ~(k[p] <= 0) <=> k[p] > 0
  BY <1>1
<1>7. Units(k) = {} <=> \A p \in P : ~(k[p] > 0)
  BY <1>4, <1>5
<1> QED BY <1>3, <1>6, <1>7

\* One token in one place counts for one at most.
LEMMA TotalOne ==
  ASSUME NEW P, IsFiniteSet(P), NEW k \in [P -> -1 .. SemMax], \A p \in P : k[p] <= 1,
         \A p, q \in P : k[p] > 0 /\ k[q] > 0 => p = q
  PROVE  Total(k) <= 1 /\ ((\E p \in P : k[p] > 0) => Total(k) = 1)
<1>1. SemMax \in Nat \ {0} /\ DOMAIN k = P
  BY ScanAssumption
<1>2. CASE \A p \in P : k[p] <= 0
  <2>1. Total(k) = 0
    BY <1>2, TotalZero
  <2>2. \A p \in P : ~(k[p] > 0)
    BY <1>1, <1>2
  <2> QED BY <2>1, <2>2
<1>3. CASE ~\A p \in P : k[p] <= 0
  <2>1. PICK q \in P : k[q] > 0
    BY <1>1, <1>3
  <2>2. k[q] = 1
    BY <1>1, <2>1
  <2>3. <<q, 1>> \in Units(k)
    BY <1>1, <2>2 DEF Units
  <2>4. ASSUME NEW x \in Units(k) PROVE x = <<q, 1>>
    <3>1. x \in P \X (1 .. SemMax) /\ x[2] <= k[x[1]]
      BY <1>1 DEF Units
    <3>2. x = <<x[1], x[2]>> /\ x[1] \in P /\ x[2] \in 1 .. SemMax /\ k[x[1]] \in -1 .. SemMax
      BY <3>1
    <3>3. k[x[1]] > 0
      BY <1>1, <3>1, <3>2
    <3>4. x[1] = q
      BY <2>1, <3>2, <3>3
    <3>5. x[2] = 1
      BY <2>2, <3>1, <3>2, <3>4
    <3> QED BY <3>2, <3>4, <3>5
  <2>5. Units(k) = {<<q, 1>>}
    BY <2>3, <2>4
  <2>6. Total(k) = 1
    BY <2>5, FS_Singleton DEF Total
  <2> QED BY <2>6
<1> QED BY <1>2, <1>3

(***************************************************************************)
(* What the modules of a set would hold if they were the ones that scan.   *)
(***************************************************************************)
HeldIn(S) == { x \in Module \X ((DOMAIN net.init) \X (1 .. SemMax)) :
                 x[1] \in S /\ x[2] \in Units(ScanBegOf(x[1]).wait) }
Scanning == { m \in Module : phase[m] = "scan" }
Counted == Typed /\ IsFiniteSet(DOMAIN net.init)

LEMMA HeldFinite ==
  ASSUME Counted, NEW S
  PROVE  IsFiniteSet(HeldIn(S)) /\ Cardinality(HeldIn(S)) \in Nat
<1>1. IsFiniteSet(1 .. SemMax)
  BY ScanAssumption, FS_Interval
<1>2. IsFiniteSet((DOMAIN net.init) \X (1 .. SemMax))
  BY <1>1, FS_Product DEF Counted
<1>3. IsFiniteSet(Module \X ((DOMAIN net.init) \X (1 .. SemMax)))
  BY <1>2, FS_Product, ScanAssumption
<1>4. HeldIn(S) \in SUBSET (Module \X ((DOMAIN net.init) \X (1 .. SemMax)))
  BY DEF HeldIn
<1>5. IsFiniteSet(HeldIn(S))
  BY <1>3, <1>4, FS_Subset
<1> QED BY <1>5, FS_CardinalityType

LEMMA HeldFewer ==
  ASSUME Counted, NEW S, NEW R \in SUBSET S
  PROVE  Cardinality(HeldIn(R)) <= Cardinality(HeldIn(S))
<1>1. HeldIn(R) \in SUBSET HeldIn(S)
  BY DEF HeldIn
<1> QED BY <1>1, HeldFinite, FS_Subset

\* A transition of the net, and its arcs.
LEMMA ArcsTyped ==
  ASSUME Shape, NEW t \in DOMAIN net.trans
  PROVE  net.trans[t] \in [wait : [DOMAIN net.init -> -1 .. SemMax],
                           signal : [DOMAIN net.init -> (-1 .. SemMax) \ {0}]]
BY DEF Shape, NetType

\* One module more holds as much more as it needs.
LEMMA HeldMore ==
  ASSUME Counted, NEW S, NEW m \in Module, m \notin S
  PROVE  Cardinality(HeldIn(S \cup {m})) = Cardinality(HeldIn(S)) + Needs(m)
<1> DEFINE U == Units(ScanBegOf(m).wait)
           mine == {m} \X U
<1>1. PICK t \in DOMAIN net.trans : ScanBegOf(m) = net.trans[t]
  BY ChosenInNet DEF Counted, Typed
<1>2. DOMAIN ScanBegOf(m).wait = DOMAIN net.init
  BY <1>1, ArcsTyped DEF Counted, Typed
<1>3. U \subseteq (DOMAIN net.init) \X (1 .. SemMax)
  BY <1>2 DEF Units
<1>4. IsFiniteSet(U) /\ Cardinality(U) = Needs(m) /\ Needs(m) \in Nat
  BY <1>2, UnitsFinite DEF Needs, Total, Counted
<1>5. HeldIn(S \cup {m}) = HeldIn(S) \cup mine
  <2>1. ASSUME NEW x \in mine PROVE x \in HeldIn(S \cup {m})
    BY <1>3 DEF HeldIn
  <2>2. ASSUME NEW x \in HeldIn(S \cup {m}), x \notin HeldIn(S) PROVE x \in mine
    <3>1. /\ x \in Module \X ((DOMAIN net.init) \X (1 .. SemMax))
          /\ x[1] \in S \cup {m} /\ x[2] \in Units(ScanBegOf(x[1]).wait)
      BY DEF HeldIn
    <3>2. x[1] = m
      BY <2>2, <3>1 DEF HeldIn
    <3>3. x = <<x[1], x[2]>>
      BY <3>1
    <3>4. x[2] \in U
      BY <3>1, <3>2
    <3> HIDE DEF U
    <3> QED BY <3>2, <3>3, <3>4
  <2>3. HeldIn(S) \subseteq HeldIn(S \cup {m})
    BY DEF HeldIn
  <2> HIDE DEF mine
  <2> QED BY <2>1, <2>2, <2>3
<1>6. HeldIn(S) \cap mine = {}
  <2>1. \A x \in mine : x[1] = m
    OBVIOUS
  <2>2. \A x \in HeldIn(S) : x[1] \in S
    BY DEF HeldIn
  <2> HIDE DEF mine
  <2> QED BY <2>1, <2>2
<1> HIDE DEF U
<1>7. IsFiniteSet(mine) /\ Cardinality(mine) = Needs(m)
  <2>1. IsFiniteSet({m}) /\ Cardinality({m}) = 1
    BY FS_Singleton
  <2>2. IsFiniteSet(mine) /\ Cardinality(mine) = 1 * Needs(m)
    BY <1>4, <2>1, FS_Product
  <2> QED BY <1>4, <2>2
<1> HIDE DEF mine
<1>8. IsFiniteSet(HeldIn(S)) /\ Cardinality(HeldIn(S)) \in Nat
  BY HeldFinite
<1>9. Cardinality(HeldIn(S) \cup mine) = Cardinality(HeldIn(S)) + Needs(m) - 0
  BY <1>6, <1>7, <1>8, FS_Union, FS_EmptySet
<1>10. Cardinality(HeldIn(S)) + Needs(m) - 0 = Cardinality(HeldIn(S)) + Needs(m)
  BY <1>4, <1>8
<1> QED BY <1>5, <1>9, <1>10

LEMMA HeldIs ==
  ASSUME Counted PROVE Held = HeldIn(Scanning)
<1>1. DOMAIN tokens = DOMAIN net.init
  BY DEF Counted, Typed, TypeOK
<1> QED BY <1>1 DEF Held, HeldIn, Scanning

\* A transition that fires takes the tokens it waits for and gives those it
\* signals, each counted.
LEMMA FireCounts ==
  ASSUME Counted, NEW t \in DOMAIN net.trans, CanFire(net.trans[t]), ~Overflows(net.trans[t]),
         tokens' = After(net.trans[t])
  PROVE  Total(tokens') + Total(net.trans[t].wait) = Total(tokens) + Total(net.trans[t].signal)
<1> DEFINE T == net.trans[t]
           P == DOMAIN net.init
           taken == [p \in P |-> Taken(T, p)]
           given == [p \in P |-> Given(T, p)]
           rest == [p \in P |-> tokens[p] - Taken(T, p)]
           after == [p \in P |-> After(T)[p]]
<1>1. SemMax \in Nat /\ tokens \in [P -> 0 .. SemMax] /\ IsFiniteSet(P)
  BY ScanAssumption DEF Counted, Typed, TypeOK
<1>2. T.wait \in [P -> -1 .. SemMax] /\ T.signal \in [P -> -1 .. SemMax]
  BY ArcsTyped DEF Counted, Typed
<1>3. CanFire(T) /\ ~Overflows(T) /\ tokens' = After(T)
  OBVIOUS
<1>4. DOMAIN tokens = P
  BY <1>1
<1> HIDE DEF T, P
<1>5. \A p \in P : /\ tokens[p] \in 0 .. SemMax /\ T.wait[p] \in -1 .. SemMax
                   /\ T.signal[p] \in -1 .. SemMax
                   /\ T.wait[p] > 0 => tokens[p] >= T.wait[p]
                   /\ After(T)[p] = tokens[p] - Taken(T, p) + Given(T, p)
                   /\ ~(After(T)[p] > SemMax)
  BY <1>1, <1>2, <1>3, <1>4 DEF CanFire, Overflows, Places, After
<1>6. \A p \in P : /\ Taken(T, p) \in 0 .. SemMax /\ Given(T, p) \in 0 .. SemMax
                   /\ tokens[p] - Taken(T, p) \in 0 .. SemMax
                   /\ After(T)[p] \in 0 .. SemMax
  BY <1>1, <1>5 DEF Taken, Given
<1>7. /\ taken \in [P -> 0 .. SemMax] /\ given \in [P -> 0 .. SemMax]
      /\ rest \in [P -> 0 .. SemMax] /\ after \in [P -> 0 .. SemMax]
  BY <1>6
<1>8. /\ \A p \in P : tokens[p] = rest[p] + taken[p]
      /\ \A p \in P : after[p] = rest[p] + given[p]
  BY <1>5, <1>6
<1>9. Total(taken) = Total(T.wait) /\ Total(given) = Total(T.signal)
  BY <1>2, TotalArcs DEF Taken, Given
<1>10. tokens' = after
  BY <1>3, <1>4 DEF After, Places
<1> HIDE DEF taken, given, rest, after
<1>11. Total(tokens) = Total(rest) + Total(taken)
  BY <1>1, <1>7, <1>8, TotalSum
<1>12. Total(after) = Total(rest) + Total(given)
  BY <1>1, <1>7, <1>8, TotalSum
<1>13. Total(rest) \in Nat /\ Total(taken) \in Nat /\ Total(given) \in Nat
  BY <1>1, <1>7, UnitsFinite
<1>14. Total(tokens') + Total(T.wait) = Total(tokens) + Total(T.signal)
  BY <1>9, <1>10, <1>11, <1>12, <1>13
<1> QED BY <1>14 DEF T

\* The net does not change, so nor does what it does with tokens.
LEMMA NetStays ==
  ASSUME net' = net, config' = config
  PROVE  /\ Conserving' <=> Conserving
         /\ \A m : Needs(m)' = Needs(m)
         /\ \A S : HeldIn(S)' = HeldIn(S)
         /\ Total(net.init)' = Total(net.init)
<1>1. \A m : ScanBegOf(m)' = ScanBegOf(m) /\ ScanEndOf(m)' = ScanEndOf(m)
  BY DEF ScanBegOf, ScanEndOf, Chosen
<1>2. \A m : Needs(m)' = Needs(m)
  BY <1>1 DEF Needs, Total, Units
<1>3. Conserving' <=> Conserving
  BY <1>1, <1>2 DEF Conserving, Total, Units
<1>4. \A S : HeldIn(S)' = HeldIn(S)
  BY <1>1 DEF HeldIn, Units
<1> QED BY <1>2, <1>3, <1>4

LEMMA HeldNext ==
  ASSUME Counted', net' = net, config' = config
  PROVE  Held' = HeldIn(Scanning')
<1>1. DOMAIN tokens' = DOMAIN net'.init
  BY DEF Counted, Typed, TypeOK
<1>2. \A m : ScanBegOf(m)' = ScanBegOf(m)
  BY DEF ScanBegOf, Chosen
<1> QED BY <1>1, <1>2 DEF Held, HeldIn, Scanning, Units

(***************************************************************************)
(* Tokens kept: in the places, or with the modules that scan.              *)
(***************************************************************************)
TokenInv == Counted /\ TokensKept

LEMMA InitCounted == Init => TokenInv
<1> SUFFICES ASSUME Init PROVE TokenInv
  OBVIOUS
<1>1. Counted
  BY InitTyped, FinitePlaces DEF Init, Counted
<1>2. Held = {}
  BY DEF Init, Held
<1>3. Total(tokens) \in Nat /\ tokens = net.init
  BY <1>1, UnitsFinite DEF Init, Counted
<1> QED BY <1>1, <1>2, <1>3, FS_EmptySet DEF TokenInv, TokensKept

\* What the inductive step needs to know of the numbers.
LEMMA CountsNat ==
  ASSUME Counted, NEW m \in Module
  PROVE  /\ Total(tokens) \in Nat /\ Total(net.init) \in Nat /\ Needs(m) \in Nat
         /\ Cardinality(Held) \in Nat
         /\ Total(ScanBegOf(m).signal) \in Nat /\ Total(ScanEndOf(m).wait) \in Nat
         /\ Total(ScanEndOf(m).signal) \in Nat
<1> DEFINE P == DOMAIN net.init
<1>1. DOMAIN tokens = P
  BY DEF Counted, Typed, TypeOK
<1>2. /\ DOMAIN ScanBegOf(m).wait = P /\ DOMAIN ScanBegOf(m).signal = P
      /\ DOMAIN ScanEndOf(m).wait = P /\ DOMAIN ScanEndOf(m).signal = P
  <2>1. PICK b \in DOMAIN net.trans : ScanBegOf(m) = net.trans[b]
    BY ChosenInNet DEF Counted, Typed
  <2>2. PICK e \in DOMAIN net.trans : ScanEndOf(m) = net.trans[e]
    BY ChosenInNet DEF Counted, Typed
  <2>3. \A t \in DOMAIN net.trans : DOMAIN net.trans[t].wait = P /\ DOMAIN net.trans[t].signal = P
    BY ArcsTyped DEF Counted, Typed
  <2> QED BY <2>1, <2>2, <2>3
<1>3. IsFiniteSet(P)
  BY DEF Counted
<1>4. Cardinality(Held) \in Nat
  BY HeldIs, HeldFinite
<1> QED BY <1>1, <1>2, <1>3, <1>4, UnitsFinite DEF Needs

LEMMA StepCounted == Counted /\ [Next]_vars => Counted'
<1> SUFFICES ASSUME Counted, [Next]_vars PROVE Counted'
  OBVIOUS
<1>1. net' = net
  BY DEF Next, Start, ScanBeg, ScanEnd, Die, Stop, Run, vars
<1> QED BY <1>1, StepTyped DEF Counted

\* A scan that begins holds what it took: no place can be full, for it gives nothing.
LEMMA BegKeepsTokens ==
  ASSUME TokenInv, Conserving, NEW m \in Module, ScanBeg(m), Counted'
  PROVE  Total(tokens') + Cardinality(Held') <= Total(net.init)
<1>1. Counted /\ net' = net /\ config' = config /\ phase' = [phase EXCEPT ![m] = "scan"]
      /\ phase[m] = "idle" /\ phase \in [Module -> {"down", "idle", "scan"}]
  BY DEF TokenInv, ScanBeg, Counted, Typed, TypeOK
<1>2. PICK t \in DOMAIN net.trans : ScanBegOf(m) = net.trans[t]
  BY <1>1, ChosenInNet DEF Counted, Typed
<1>3. Fire(net.trans[t])
  BY <1>2 DEF ScanBeg
<1>4. Total(net.trans[t].signal) = 0 /\ Total(net.trans[t].wait) = Needs(m)
  BY <1>2 DEF Conserving, Needs
<1>5. ~Overflows(net.trans[t])
  <2> DEFINE T == net.trans[t]
             P == DOMAIN net.init
  <2>1. /\ tokens \in [P -> 0 .. SemMax] /\ SemMax \in Nat
        /\ T.wait \in [P -> -1 .. SemMax] /\ T.signal \in [P -> -1 .. SemMax]
    BY <1>1, ArcsTyped, ScanAssumption DEF Counted, Typed, TypeOK
  <2>2. \A p \in P : T.signal[p] <= 0
    BY <1>1, <1>4, <2>1, TotalZero DEF Counted
  <2> HIDE DEF T, P
  <2>3. \A p \in P : /\ tokens[p] \in 0 .. SemMax /\ T.wait[p] \in -1 .. SemMax
                     /\ T.signal[p] \in -1 .. SemMax
    BY <2>1
  <2>4. \A p \in P : ~(tokens[p] - Taken(T, p) + Given(T, p) > SemMax)
    BY <2>1, <2>2, <2>3 DEF Taken, Given
  <2>5. ~Overflows(T)
    BY <2>1, <2>4 DEF Overflows, After, Places
  <2> QED BY <2>5 DEF T
<1>6. CanFire(net.trans[t]) /\ tokens' = After(net.trans[t])
  BY <1>3, <1>5 DEF Fire
<1>7. Total(tokens') + Needs(m) = Total(tokens) + 0
  BY <1>1, <1>4, <1>5, <1>6, FireCounts
<1>8. Scanning' = Scanning \cup {m} /\ m \notin Scanning
  BY <1>1 DEF Scanning
<1>9. Cardinality(Held') = Cardinality(Held) + Needs(m)
  <2>1. Held = HeldIn(Scanning)
    BY <1>1, HeldIs
  <2>2. Held' = HeldIn(Scanning \cup {m})
    BY <1>1, <1>8, HeldNext
  <2> QED BY <1>1, <1>8, <2>1, <2>2, HeldMore
<1>10. Total(tokens) + Cardinality(Held) <= Total(net.init)
  BY DEF TokenInv, TokensKept
<1>11. Total(tokens') \in Nat
  BY UnitsFinite DEF Counted, Typed, TypeOK
<1>12. /\ Total(tokens) \in Nat /\ Total(net.init) \in Nat /\ Needs(m) \in Nat
       /\ Cardinality(Held) \in Nat
  BY <1>1, CountsNat
<1> QED BY <1>7, <1>9, <1>10, <1>11, <1>12

\* A scan that ends gives back at most what it held and takes now, or, some place
\* being full, nothing.
LEMMA EndKeepsTokens ==
  ASSUME TokenInv, Conserving, NEW m \in Module, ScanEnd(m), Counted'
  PROVE  Total(tokens') + Cardinality(Held') <= Total(net.init)
<1>1. Counted /\ net' = net /\ config' = config /\ phase' = [phase EXCEPT ![m] = "idle"]
      /\ phase[m] = "scan" /\ phase \in [Module -> {"down", "idle", "scan"}]
  BY DEF TokenInv, ScanEnd, Counted, Typed, TypeOK
<1>2. PICK t \in DOMAIN net.trans : ScanEndOf(m) = net.trans[t]
  BY <1>1, ChosenInNet DEF Counted, Typed
<1>3. Fire(net.trans[t])
  BY <1>2 DEF ScanEnd
<1>4. Total(net.trans[t].signal) <= Needs(m) + Total(net.trans[t].wait)
  BY <1>2 DEF Conserving
<1>5. /\ Total(tokens) \in Nat /\ Total(net.init) \in Nat /\ Needs(m) \in Nat
      /\ Cardinality(Held) \in Nat /\ Total(net.trans[t].wait) \in Nat
      /\ Total(net.trans[t].signal) \in Nat
  BY <1>1, <1>2, CountsNat
<1>6. Total(tokens') \in Nat
  BY UnitsFinite DEF Counted, Typed, TypeOK
<1>7. Total(tokens') <= Total(tokens) + Needs(m)
  <2>1. CASE Overflows(net.trans[t])
    BY <1>3, <1>5, <2>1 DEF Fire
  <2>2. CASE ~Overflows(net.trans[t])
    <3>1. CanFire(net.trans[t]) /\ tokens' = After(net.trans[t])
      BY <1>3, <2>2 DEF Fire
    <3>2. Total(tokens') + Total(net.trans[t].wait) = Total(tokens) + Total(net.trans[t].signal)
      BY <1>1, <2>2, <3>1, FireCounts
    <3> QED BY <1>4, <1>5, <1>6, <3>2
  <2> QED BY <2>1, <2>2
<1>8. Scanning = Scanning' \cup {m} /\ m \notin Scanning'
  BY <1>1 DEF Scanning
<1>9. Cardinality(Held) = Cardinality(Held') + Needs(m)
  <2>1. Held = HeldIn(Scanning)
    BY <1>1, HeldIs
  <2>2. Held' = HeldIn(Scanning')
    BY <1>1, HeldNext
  <2>3. \A S : m \notin S => Cardinality(HeldIn(S \cup {m})) = Cardinality(HeldIn(S)) + Needs(m)
    BY <1>1, HeldMore
  <2> QED BY <1>8, <2>1, <2>2, <2>3
<1>10. Total(tokens) + Cardinality(Held) <= Total(net.init)
  BY DEF TokenInv, TokensKept
<1>11. Cardinality(Held') \in Nat
  <2>1. Held' = HeldIn(Scanning')
    BY <1>1, HeldNext
  <2> QED BY <1>1, <2>1, HeldFinite
<1> QED BY <1>5, <1>6, <1>7, <1>9, <1>10, <1>11

\* A module that dies in its scan takes what it holds with it; nothing else moves.
LEMMA OthersKeepTokens ==
  ASSUME TokenInv, Conserving, Counted', UNCHANGED <<net, config, tokens>>, Scanning' \subseteq Scanning
  PROVE  Total(tokens') + Cardinality(Held') <= Total(net.init)
<1>1. Counted
  BY DEF TokenInv
<1>2. Held = HeldIn(Scanning)
  BY <1>1, HeldIs
<1>3. Held' = HeldIn(Scanning')
  BY HeldNext
<1>4. /\ Cardinality(Held') <= Cardinality(Held)
      /\ Cardinality(Held') \in Nat /\ Cardinality(Held) \in Nat
  BY <1>1, <1>2, <1>3, HeldFewer, HeldFinite
<1>5. Total(tokens) + Cardinality(Held) <= Total(net.init)
  BY DEF TokenInv, TokensKept
<1>6. Total(tokens) \in Nat /\ Total(net.init) \in Nat /\ tokens' = tokens
  BY <1>1, UnitsFinite DEF Counted, Typed, TypeOK
<1> QED BY <1>4, <1>5, <1>6

LEMMA StepTokens == TokenInv /\ [Next]_vars => TokenInv'
<1> SUFFICES ASSUME TokenInv, [Next]_vars PROVE TokenInv'
  OBVIOUS
<1>1. Counted'
  BY StepCounted DEF TokenInv
<1>2. net' = net /\ config' = config
  BY DEF Next, Start, ScanBeg, ScanEnd, Die, Stop, Run, vars
<1>3. SUFFICES ASSUME Conserving PROVE Total(tokens') + Cardinality(Held') <= Total(net.init)
  BY <1>1, <1>2, NetStays DEF TokenInv, TokensKept, Total, Units
<1>4. phase \in [Module -> {"down", "idle", "scan"}]
  BY DEF TokenInv, Counted, Typed, TypeOK
<1>5. ASSUME NEW m \in Module, ScanBeg(m)
      PROVE  Total(tokens') + Cardinality(Held') <= Total(net.init)
  BY <1>1, <1>3, <1>5, BegKeepsTokens
<1>6. ASSUME NEW m \in Module, ScanEnd(m)
      PROVE  Total(tokens') + Cardinality(Held') <= Total(net.init)
  BY <1>1, <1>3, <1>6, EndKeepsTokens
<1>7. ASSUME NEW m \in Module, Start(m) \/ Die(m)
      PROVE  Total(tokens') + Cardinality(Held') <= Total(net.init)
  <2>1. UNCHANGED <<net, config, tokens>> /\ Scanning' \subseteq Scanning
    BY <1>4, <1>7 DEF Start, Die, Scanning
  <2> QED BY <1>1, <1>3, <2>1, OthersKeepTokens
<1>8. ASSUME NEW x \in Module \cup {MatPLC}, Stop(x) \/ Run(x)
      PROVE  Total(tokens') + Cardinality(Held') <= Total(net.init)
  <2>1. UNCHANGED <<net, config, tokens>> /\ Scanning' \subseteq Scanning
    BY <1>8 DEF Stop, Run, Scanning
  <2> QED BY <1>1, <1>3, <2>1, OthersKeepTokens
<1>9. CASE UNCHANGED vars
  <2>1. UNCHANGED <<net, config, tokens>> /\ Scanning' \subseteq Scanning
    BY <1>9 DEF vars, Scanning
  <2> QED BY <1>1, <1>3, <2>1, OthersKeepTokens
<1> QED BY <1>5, <1>6, <1>7, <1>8, <1>9 DEF Next

\* If no scan makes tokens, there are never more of them, in the places and with
\* the scanning modules together, than the first marking had.
THEOREM TokensStay == Spec => []TokensKept
<1>1. TokenInv => TokensKept
  BY DEF TokenInv
<1> QED BY <1>1, InitCounted, StepTokens, PTL DEF Spec

\* Two modules of turns would hold more tokens than there are.
LEMMA TurnsExclude == ASSUME TokenInv, TakeTurns PROVE LockStep
<1> SUFFICES ASSUME NEW m \in config.turns, NEW n \in config.turns,
                    phase[m] = "scan", phase[n] = "scan", m # n
             PROVE  FALSE
  BY DEF LockStep
<1>1. m \in Module /\ n \in Module /\ Counted
  BY TablesAssumption DEF TokenInv, Counted, Typed, Shape
<1>2. Cardinality(HeldIn({})) = 0
  BY FS_EmptySet DEF HeldIn
<1>3. Cardinality(HeldIn({} \cup {m})) = Cardinality(HeldIn({})) + Needs(m)
  BY <1>1, HeldMore
<1>4. Cardinality(HeldIn({m} \cup {n})) = Cardinality(HeldIn({m})) + Needs(n)
  BY <1>1, HeldMore
<1>5. {} \cup {m} = {m}
  OBVIOUS
<1>6. {m} \cup {n} \subseteq Scanning
  BY <1>1 DEF Scanning
<1>7. Cardinality(HeldIn({m} \cup {n})) <= Cardinality(Held)
  BY <1>1, <1>6, HeldIs, HeldFewer
<1>8. /\ Needs(m) + Needs(n) > Total(net.init)
      /\ Total(tokens) + Cardinality(Held) <= Total(net.init)
  BY DEF TakeTurns, TokenInv, TokensKept
<1>9. /\ Needs(m) \in Nat /\ Needs(n) \in Nat /\ Total(tokens) \in Nat
      /\ Total(net.init) \in Nat /\ Cardinality(Held) \in Nat
  BY <1>1, CountsNat
<1>10. Cardinality(HeldIn({m} \cup {n})) = Needs(m) + Needs(n)
  BY <1>2, <1>3, <1>4, <1>5, <1>9
<1> QED BY <1>7, <1>8, <1>9, <1>10

LEMMA TurnsStay == TakeTurns /\ TokenInv /\ [Next]_vars => TakeTurns'
<1> SUFFICES ASSUME TakeTurns, [Next]_vars PROVE TakeTurns'
  OBVIOUS
<1>1. net' = net /\ config' = config
  BY DEF Next, Start, ScanBeg, ScanEnd, Die, Stop, Run, vars
<1> QED BY <1>1, NetStays DEF TakeTurns, Total, Units

\* Modules no two of which can be served at once never scan together: for any
\* number of modules and tokens, whoever is stopped, dies in its scan or is
\* started again.
THEOREM TurnsExcludeEachOther == Spec /\ TakeTurns => []LockStep
<1>1. TokenInv /\ TakeTurns => LockStep
  BY TurnsExclude
<1> QED BY <1>1, InitCounted, StepTokens, TurnsStay, PTL DEF Spec

(***************************************************************************)
(* The tables of the simple configuration, and rings among them.           *)
(***************************************************************************)
LEMMA RingTurns ==
  ASSUME Counted, IsRing
  PROVE  TakeTurns
<1> DEFINE P == DOMAIN net.init
           L == Listed(config)
<1>1. /\ config \in Config /\ IsFiniteSet(P) /\ SemMax \in Nat \ {0} /\ Simple /\ Unnamed
      /\ config.turns \subseteq L
  BY ScanAssumption DEF Counted, Typed, Shape, IsRing
<1>2. RowsAreArcs
  BY RowsRead DEF Counted, Typed, Shape, IsRing
<1>3. P = { <<b>> : b \in L } /\ L \subseteq Module
  BY <1>1, <1>2, ListedModules DEF RowsAreArcs
<1>4. ASSUME NEW m \in Module
      PROVE  /\ ScanBegOf(m).wait \in [P -> -1 .. SemMax]
             /\ ScanBegOf(m).signal \in [P -> -1 .. SemMax]
             /\ ScanEndOf(m).wait \in [P -> -1 .. SemMax]
             /\ ScanEndOf(m).signal \in [P -> -1 .. SemMax]
  <2>1. PICK b \in DOMAIN net.trans : ScanBegOf(m) = net.trans[b]
    BY ChosenInNet DEF Counted, Typed
  <2>2. PICK e \in DOMAIN net.trans : ScanEndOf(m) = net.trans[e]
    BY ChosenInNet DEF Counted, Typed
  <2>3. \A t \in DOMAIN net.trans : net.trans[t].wait \in [P -> -1 .. SemMax]
                                    /\ net.trans[t].signal \in [P -> -1 .. SemMax]
    BY ArcsTyped DEF Counted, Typed
  <2> QED BY <2>1, <2>2, <2>3
<1>5. ASSUME NEW m \in Module, NEW b \in L
      PROVE  /\ ScanBegOf(m).wait[<<b>>] = (IF b = m THEN 1 ELSE -1)
             /\ ScanBegOf(m).signal[<<b>>] = -1
             /\ ScanEndOf(m).wait[<<b>>] = -1
             /\ ScanEndOf(m).signal[<<b>>] = Arc(Grant(m, b))
             /\ Grant(m, b) \in Nat /\ Grant(m, b) <= 1
  BY <1>2, <1>3, GrantNat DEF RowsAreArcs, IsRing, Counted, Typed
<1>6. net.init \in [P -> -1 .. SemMax] /\ \A b \in L : net.init[<<b>>] = IF Started(b) THEN 1 ELSE 0
  <2>1. net.init \in [P -> 0 .. SemMax]
    BY DEF Counted, Typed, Shape, NetType
  <2> QED BY <1>1, <1>2, <2>1 DEF RowsAreArcs
<1>7. \A m \in Module : Needs(m) \in Nat /\ Total(ScanEndOf(m).wait) \in Nat
                        /\ Total(ScanEndOf(m).signal) \in Nat
  BY CountsNat
<1> HIDE DEF P, L
\* One place at least, and one token, for each module of the rows.
<1>8. ASSUME NEW m \in L PROVE Needs(m) = 1
  <2> DEFINE k == ScanBegOf(m).wait
  <2>1. k \in [P -> -1 .. SemMax] /\ m \in Module
    BY <1>3, <1>4
  <2>2. \A b \in L : k[<<b>>] = IF b = m THEN 1 ELSE -1
    BY <1>5, <2>1
  <2> HIDE DEF k
  <2>3. \A p \in P : k[p] <= 1 /\ (k[p] > 0 => p = <<m>>)
    BY <1>3, <2>2
  <2>4. <<m>> \in P /\ k[<<m>>] > 0
    BY <1>3, <2>2
  <2>5. Total(k) <= 1 /\ Total(k) = 1
    BY <1>1, <2>1, <2>3, <2>4, TotalOne
  <2> QED BY <2>5 DEF Needs, k
<1>9. ASSUME NEW m \in Module
      PROVE  Total(ScanBegOf(m).signal) = 0
  <2>1. \A p \in P : ScanBegOf(m).signal[p] <= 0
    <3> SUFFICES ASSUME NEW b \in L PROVE ScanBegOf(m).signal[<<b>>] <= 0
      BY <1>3
    <3>1. ScanBegOf(m).signal[<<b>>] = -1
      BY <1>5
    <3> QED BY <3>1
  <2> QED BY <1>1, <1>4, <2>1, TotalZero
<1>10. ASSUME NEW m \in Module
       PROVE  Total(ScanEndOf(m).signal) <= Needs(m)
  <2> DEFINE k == ScanEndOf(m).signal
  <2>1. k \in [P -> -1 .. SemMax]
    BY <1>4
  <2>2. \A b \in L : k[<<b>>] = Arc(Grant(m, b)) /\ Grant(m, b) \in Nat /\ Grant(m, b) <= 1
    BY <1>5
  <2>3. \A a, b \in L : Grant(m, a) > 0 /\ Grant(m, b) > 0 => a = b
    BY DEF IsRing, L
  <2> HIDE DEF k
  <2>4. \A b \in L : k[<<b>>] <= 1 /\ (k[<<b>>] > 0 => Grant(m, b) > 0)
    <3> SUFFICES ASSUME NEW b \in L PROVE k[<<b>>] <= 1 /\ (k[<<b>>] > 0 => Grant(m, b) > 0)
      OBVIOUS
    <3>1. k[<<b>>] = Arc(Grant(m, b)) /\ Grant(m, b) \in 0 .. 1
      BY <2>2
    <3>2. Grant(m, b) = 1 => Arc(Grant(m, b)) = 1
      BY DEF Arc
    <3>3. Grant(m, b) = 0 => Arc(Grant(m, b)) = -1
      BY DEF Arc
    <3> QED BY <3>1, <3>2, <3>3
  <2>5. CASE m \in L
    <3>1. \A p \in P : k[p] <= 1
      BY <1>3, <2>4
    <3>2. \A p, q \in P : k[p] > 0 /\ k[q] > 0 => p = q
      BY <1>3, <2>3, <2>4
    <3>3. Total(k) <= 1
      BY <1>1, <2>1, <3>1, <3>2, TotalOne
    <3> QED BY <1>8, <2>5, <3>3 DEF k
  <2>6. CASE m \notin L
    <3>1. \A b \in L : Grant(m, b) = 0
      BY <1>1, <2>6, GrantsListed DEF L
    <3>2. \A p \in P : k[p] <= 0
      BY <1>3, <2>2, <3>1 DEF Arc
    <3>3. Total(k) = 0
      BY <1>1, <2>1, <3>2, TotalZero
    <3> QED BY <1>7, <3>3 DEF k
  <2> QED BY <2>5, <2>6
<1>11. Conserving
  <2> SUFFICES ASSUME NEW m \in Module
               PROVE  /\ Total(ScanBegOf(m).signal) = 0
                      /\ Total(ScanEndOf(m).signal) <= Needs(m) + Total(ScanEndOf(m).wait)
    BY DEF Conserving
  <2> QED BY <1>7, <1>9, <1>10
\* One module is started at most.
<1>12. Total(net.init) <= 1
  <2>1. \A a, b \in L : Started(a) /\ Started(b) => a = b
    BY DEF Started, IsRing
  <2>2. \A p \in P : net.init[p] <= 1
    BY <1>3, <1>6
  <2>3. \A p, q \in P : net.init[p] > 0 /\ net.init[q] > 0 => p = q
    BY <1>3, <1>6, <2>1
  <2> QED BY <1>1, <1>6, <2>2, <2>3, TotalOne
<1>13. Total(net.init) \in Nat
  BY <1>1, UnitsFinite DEF P
<1>14. ASSUME NEW m \in config.turns, NEW n \in config.turns
       PROVE  Needs(m) + Needs(n) > Total(net.init)
  <2>1. Needs(m) = 1 /\ Needs(n) = 1
    BY <1>1, <1>8
  <2> QED BY <1>12, <1>13, <2>1
<1> QED BY <1>11, <1>14 DEF TakeTurns

\* Whatever the tables hold, the rows of a simple one become the arcs they mean,
\* and a ring of modules with one start becomes a net in which they take turns.
THEOREM TablesAreRead == Spec => []TablesRead
<1>1. TokenInv => TablesRead
  <2> SUFFICES ASSUME TokenInv PROVE TablesRead
    OBVIOUS
  <2>1. Simple /\ Unnamed => RowsAreArcs
    BY RowsRead DEF TokenInv, Counted, Typed, Shape
  <2>2. IsRing => TakeTurns
    BY RingTurns DEF TokenInv
  <2> QED BY <2>1, <2>2 DEF TablesRead
<1> QED BY <1>1, InitCounted, StepTokens, PTL DEF Spec

\* So the modules of a ring never scan together, however many there are.
THEOREM RingsTakeTurns == Spec /\ IsRing => []LockStep
<1>1. Init /\ IsRing => TakeTurns
  BY InitCounted, RingTurns DEF TokenInv
<1>2. TokenInv /\ TakeTurns => LockStep
  BY TurnsExclude
<1> QED BY <1>1, <1>2, InitCounted, StepTokens, TurnsStay, PTL DEF Spec

(***************************************************************************)
(* Scans owed: the tokens of a place are those the ends of scans granted   *)
(* its module, less those its scans took.                                  *)
(***************************************************************************)
OwedInv == Typed /\ OwedScans

LEMMA InitOwed == Init => OwedInv
<1> SUFFICES ASSUME Init PROVE OwedInv
  OBVIOUS
<1>1. Typed
  BY InitTyped
<1>2. ASSUME Simple, Unnamed, NEW m \in Listed(config) PROVE tokens[<<m>>] = owed[m]
  <2>1. RowsAreArcs /\ m \in Module
    BY <1>1, <1>2, RowsRead, ListedModules DEF Typed, Shape
  <2>2. tokens[<<m>>] = IF Started(m) THEN 1 ELSE 0
    BY <1>2, <2>1 DEF Init, RowsAreArcs
  <2>3. owed[m] = IF Started(m) THEN 1 ELSE 0
    BY <2>1 DEF Init, Started
  <2> QED BY <2>2, <2>3
<1> QED BY <1>1, <1>2 DEF OwedInv, OwedScans

\* A scan that begins takes the one token, and was owed it.
LEMMA BegTakesOwed ==
  ASSUME OwedInv, NEW m \in Module, ScanBeg(m)
  PROVE  OwedScans'
<1> SUFFICES ASSUME Simple, Unnamed, ~full', NEW b \in Listed(config)
             PROVE  tokens'[<<b>>] = owed'[b]
  BY DEF OwedScans, ScanBeg, Simple, Unnamed
<1>0. RowsAreArcs /\ b \in Module
  BY RowsRead, ListedModules DEF OwedInv, Typed, Shape
<1> DEFINE T == ScanBegOf(m)
<1>1. /\ b \in Module /\ <<b>> \in DOMAIN net.init
      /\ T.wait[<<b>>] = IF b = m THEN 1 ELSE -1
      /\ T.signal[<<b>>] = -1
  BY <1>0 DEF RowsAreArcs
<1>2. tokens \in [DOMAIN net.init -> 0 .. SemMax] /\ owed \in [Module -> 0 .. OwedMax]
  BY DEF OwedInv, Typed, TypeOK
<1>3. SemMax \in Nat /\ OwedMax = SemMax + 1
  BY ScanAssumption DEF OwedMax
<1>4. Fire(T) /\ owed' = IF owed[m] > 0 THEN [owed EXCEPT ![m] = @ - 1] ELSE owed
  BY DEF ScanBeg
<1> HIDE DEF T
<1>5. CanFire(T) /\ tokens' = After(T) /\ ~full
  BY <1>4 DEF Fire
<1>6. tokens'[<<b>>] = tokens[<<b>>] - Taken(T, <<b>>) + Given(T, <<b>>)
  BY <1>1, <1>2, <1>5 DEF After, Places
<1>7. tokens[<<b>>] = owed[b]
  BY <1>5 DEF OwedInv, OwedScans
<1>8. CASE b = m
  <2>1. tokens[<<b>>] >= 1
    BY <1>1, <1>2, <1>5, <1>8 DEF CanFire, Places
  <2>2. tokens'[<<b>>] = tokens[<<b>>] - 1
    BY <1>1, <1>2, <1>3, <1>6, <1>8 DEF Taken, Given
  <2> QED BY <1>1, <1>2, <1>3, <1>4, <1>7, <1>8, <2>1, <2>2
<1>9. CASE b # m
  <2>1. tokens'[<<b>>] = tokens[<<b>>]
    BY <1>1, <1>2, <1>3, <1>6, <1>9 DEF Taken, Given
  <2> QED BY <1>1, <1>2, <1>4, <1>7, <1>9, <2>1
<1> QED BY <1>8, <1>9

\* A scan that ends fills the places of all its followers or, one of them
\* being full, none: and then it says so.
LEMMA EndGrantsOwed ==
  ASSUME OwedInv, NEW m \in Module, ScanEnd(m)
  PROVE  OwedScans'
<1> SUFFICES ASSUME Simple, Unnamed, ~full', NEW b \in Listed(config)
             PROVE  tokens'[<<b>>] = owed'[b]
  BY DEF OwedScans, ScanEnd, Simple, Unnamed
<1>0. RowsAreArcs /\ b \in Module
  BY RowsRead, ListedModules DEF OwedInv, Typed, Shape
<1> DEFINE T == ScanEndOf(m)
<1>1. /\ b \in Module /\ <<b>> \in DOMAIN net.init
      /\ T.wait[<<b>>] = -1
      /\ T.signal[<<b>>] = Arc(Grant(m, b))
  BY <1>0 DEF RowsAreArcs
<1>2. tokens \in [DOMAIN net.init -> 0 .. SemMax] /\ owed \in [Module -> 0 .. OwedMax]
  BY DEF OwedInv, Typed, TypeOK
<1>3. SemMax \in Nat /\ OwedMax = SemMax + 1 /\ Grant(m, b) \in Nat
  BY ScanAssumption, GrantNat DEF OwedMax, OwedInv, Typed
<1>4. Fire(T) /\ owed' = OwedAfter(m)
  BY DEF ScanEnd
<1> HIDE DEF T
<1>5. ~Overflows(T) /\ tokens' = After(T) /\ ~full
  BY <1>4 DEF Fire
<1>6. tokens'[<<b>>] = tokens[<<b>>] - Taken(T, <<b>>) + Given(T, <<b>>)
  BY <1>1, <1>2, <1>5 DEF After, Places
<1>7. tokens'[<<b>>] = tokens[<<b>>] + Grant(m, b)
  BY <1>1, <1>2, <1>3, <1>6 DEF Taken, Given, Arc
<1>8. tokens'[<<b>>] <= SemMax
  <2>1. After(T)[<<b>>] \in Int
    BY <1>2, <1>3, <1>1, <1>5, <1>7
  <2> QED BY <1>1, <1>2, <1>3, <1>5, <2>1 DEF Overflows, Places
<1>9. tokens[<<b>>] = owed[b]
  BY <1>5 DEF OwedInv, OwedScans
<1>10. owed'[b] = IF owed[b] + Grant(m, b) > OwedMax THEN OwedMax ELSE owed[b] + Grant(m, b)
  BY <1>1, <1>4 DEF OwedAfter
<1> QED BY <1>1, <1>2, <1>3, <1>7, <1>8, <1>9, <1>10

LEMMA StepOwed == OwedInv /\ [Next]_vars => OwedInv'
<1> SUFFICES ASSUME OwedInv, [Next]_vars PROVE OwedInv'
  OBVIOUS
<1>1. Typed'
  BY StepTyped DEF OwedInv
<1>2. net' = net /\ config' = config
  BY DEF Next, Start, ScanBeg, ScanEnd, Die, Stop, Run, vars
<1>3. ASSUME UNCHANGED <<tokens, full, owed>> PROVE OwedScans'
  BY <1>2, <1>3 DEF OwedInv, OwedScans, Simple, Unnamed
<1>4. ASSUME NEW m \in Module, ScanBeg(m) \/ ScanEnd(m) PROVE OwedScans'
  BY <1>4, BegTakesOwed, EndGrantsOwed
<1>5. ASSUME NEW m \in Module, Start(m) \/ Die(m) PROVE OwedScans'
  BY <1>3, <1>5 DEF Start, Die
<1>6. ASSUME NEW x \in Module \cup {MatPLC}, Stop(x) \/ Run(x) PROVE OwedScans'
  BY <1>3, <1>6 DEF Stop, Run
<1>7. ASSUME UNCHANGED vars PROVE OwedScans'
  BY <1>3, <1>7 DEF vars
<1>8. OwedScans'
  BY <1>4, <1>5, <1>6, <1>7 DEF Next
<1> QED BY <1>1, <1>8 DEF OwedInv

\* As long as no place is full, a module of the simple configuration may begin
\* exactly the scans that the ends of others have granted it, however many
\* modules and rows there are and whoever stops or dies.
THEOREM ScansGranted == Spec => []OwedScans
<1>1. OwedInv => OwedScans
  BY DEF OwedInv
<1> QED BY <1>1, InitOwed, StepOwed, PTL DEF Spec

(***************************************************************************)
(* The two models together: the synchpt a module keeps for a transition of *)
(* the net.  The places of the confmap are the first PlaceCount semaphores *)
(* of the set; the arcs state_init adds to scan_beg, for the RUN places,   *)
(* take and give back the same.                                            *)
(***************************************************************************)
\* The arcs of the synchpt are those of transition t, and such ones beside them.
IsSynchptOf(t, at) ==
  /\ \A p \in Stored : /\ arcs.wait[p] = Taken(net.trans[t], at[p])
                       /\ arcs.signal[p] = Given(net.trans[t], at[p])
                       /\ arcs.null[p] > 0 <=> net.trans[t].wait[at[p]] = 0
  /\ \A p \in Place \ Stored : arcs.wait[p] = arcs.signal[p] /\ arcs.null[p] = 0
Marks(m, at) == \A p \in Stored : m[p] = tokens[at[p]]
Running(m) == \A p \in Place \ Stored : m[p] >= arcs.wait[p]

\* plc_synch on it waits, fails and fires as Fire does, which ScanBeg and ScanEnd
\* are made of, and the RUN places keep what they hold.
FiresLikeSemop(t, at, m) ==
  LET s == Synch(entries, m)
      T == net.trans[t]
  IN /\ s.res = "block" <=> ~(CanFire(T) /\ Running(m))
     /\ s.res = "error" <=> CanFire(T) /\ Running(m) /\ Overflows(T)
     /\ s.res = "ok" => /\ \A p \in Stored : s.val[p] = After(T)[at[p]]
                        /\ \A p \in Place \ Stored : s.val[p] = m[p]
     /\ s.res # "ok" => s.val = m
\* The one step of Fire is what semop does, for every synchpt used as the net has
\* a meaning for, and every marking of the set that holds the tokens.
FireIsSemop ==
  Exists /\ plain /\ entries # <<>> /\ ShortMax = SemMax =>
    \A t \in DOMAIN net.trans, at \in Bijection(Stored, DOMAIN net.init),
       m \in [Place -> 0 .. ShortMax] :
      IsSynchptOf(t, at) /\ Marks(m, at) => FiresLikeSemop(t, at, m)

\* The synchpt plc_synchpt_new makes of a transition in the confmap is one, and so
\* it is once state_init has added the two arcs of a RUN place to it.
LEMMA NewIsSynchpt ==
  ASSUME Typed, UNCHANGED vars, NEW t \in DOMAIN net.trans,
         NEW at \in Bijection(Stored, DOMAIN net.init), NEW u, NEW extra, New(u, extra),
         u = [wait |-> [p \in Stored |-> net.trans[t].wait[at[p]]],
              signal |-> [p \in Stored |-> net.trans[t].signal[at[p]]]]
  PROVE  IsSynchptOf(t, at)'
<1>1. arcs' = NetOf(u) /\ net' = net /\ Stored \subseteq Place
  BY TransitionAssumption DEF New, vars
<1>2. \A p \in Stored : at[p] \in DOMAIN net.init
  BY DEF Bijection, Injection
<1>3. ASSUME NEW p \in Stored
      PROVE  /\ arcs'.wait[p] = Taken(net.trans[t], at[p])
             /\ arcs'.signal[p] = Given(net.trans[t], at[p])
             /\ arcs'.null[p] > 0 <=> net.trans[t].wait[at[p]] = 0
  BY <1>1 DEF NetOf, Taken, Given
<1>4. ASSUME NEW p \in Place \ Stored
      PROVE  arcs'.wait[p] = arcs'.signal[p] /\ arcs'.null[p] = 0
  BY <1>1 DEF NetOf
<1> QED BY <1>1, <1>3, <1>4 DEF IsSynchptOf, Taken, Given

LEMMA RunArcsAdded ==
  ASSUME NEW t, NEW at, IsSynchptOf(t, at), NEW p \in Place \ Stored, arcs \in Arcs,
         NEW a, a = [arcs EXCEPT !.signal = More(arcs.signal, p, 1), !.wait = More(arcs.wait, p, 1)],
         arcs' = a, net' = net
  PROVE  IsSynchptOf(t, at)'
<1>1. /\ arcs.wait \in [Place -> 0 .. ShortMax] /\ arcs.signal \in [Place -> 0 .. ShortMax]
      /\ Stored \subseteq Place
  BY TransitionAssumption DEF Arcs
<1>2. /\ a.wait = More(arcs.wait, p, 1) /\ a.signal = More(arcs.signal, p, 1)
      /\ a.null = arcs.null
  BY DEF Arcs
<1>3. \A q \in Place : /\ a.wait[q] = IF q = p THEN arcs.wait[q] + 1 ELSE arcs.wait[q]
                       /\ a.signal[q] = IF q = p THEN arcs.signal[q] + 1 ELSE arcs.signal[q]
  BY <1>1, <1>2 DEF More
<1> HIDE DEF More
<1>4. \A q \in Stored : q # p
  OBVIOUS
<1> QED BY <1>1, <1>2, <1>3, <1>4 DEF IsSynchptOf, Taken, Given

LEMMA FireAsSynch ==
  ASSUME SynchFiresTransition, arcs \in Arcs, Typed, Exists, plain, entries # <<>>, ShortMax = SemMax,
         NEW t \in DOMAIN net.trans, NEW at \in Bijection(Stored, DOMAIN net.init),
         NEW m \in [Place -> 0 .. ShortMax], IsSynchptOf(t, at), Marks(m, at)
  PROVE  FiresLikeSemop(t, at, m)
<1> DEFINE T == net.trans[t]
           P == DOMAIN net.init
           s == Synch(entries, m)
           out == Place \ Stored
<1>1. s = NetFires(m)
  BY DEF SynchFiresTransition
<1>2. SemMax \in Nat /\ tokens \in [P -> 0 .. SemMax] /\ DOMAIN tokens = P /\ Stored \subseteq Place
  BY ScanAssumption, TransitionAssumption DEF Typed, TypeOK
<1>3. T.wait \in [P -> -1 .. SemMax] /\ T.signal \in [P -> -1 .. SemMax]
  BY ArcsTyped DEF Typed
<1>4. /\ \A p \in Stored : at[p] \in P
      /\ \A q \in P : \E p \in Stored : at[p] = q
  BY DEF Bijection, Injection, Surjection
<1>5. \A p \in Place : /\ m[p] \in 0 .. SemMax /\ arcs.wait[p] \in 0 .. SemMax
                       /\ arcs.signal[p] \in 0 .. SemMax /\ arcs.null[p] \in 0 .. SemMax
  BY DEF Arcs
<1>6. ASSUME NEW p \in Stored
      PROVE  /\ m[p] = tokens[at[p]] /\ at[p] \in P
             /\ arcs.wait[p] = Taken(T, at[p]) /\ arcs.signal[p] = Given(T, at[p])
             /\ arcs.null[p] > 0 <=> T.wait[at[p]] = 0
  BY <1>4 DEF IsSynchptOf, Marks
<1>7. \A p \in out : arcs.wait[p] = arcs.signal[p] /\ arcs.null[p] = 0
  BY DEF IsSynchptOf
<1> HIDE DEF T, P, s
\* A place lets the transition pass alike in both.
<1>8. ASSUME NEW p \in Stored
      PROVE  /\ m[p] >= arcs.wait[p] /\ (arcs.null[p] > 0 => m[p] = 0)
                <=> /\ T.wait[at[p]] > 0 => tokens[at[p]] >= T.wait[at[p]]
                    /\ T.wait[at[p]] = 0 => tokens[at[p]] = 0
             /\ NetAfter(m)[p] = After(T)[at[p]]
  <2> DEFINE w == T.wait[at[p]]
             k == tokens[at[p]]
  <2>1. k \in 0 .. SemMax /\ w \in -1 .. SemMax /\ p \in Place
    BY <1>2, <1>3, <1>6
  <2>2. /\ m[p] = k /\ arcs.wait[p] = IF w > 0 THEN w ELSE 0
        /\ arcs.null[p] > 0 <=> w = 0
    BY <1>6 DEF Taken
  <2> HIDE DEF w, k
  <2>3. m[p] >= arcs.wait[p] <=> (w > 0 => k >= w)
    BY <1>2, <2>1, <2>2
  <2>4. (arcs.null[p] > 0 => m[p] = 0) <=> (w = 0 => k = 0)
    BY <2>2
  <2>5. After(T)[at[p]] = tokens[at[p]] - Taken(T, at[p]) + Given(T, at[p])
    BY <1>2, <1>6 DEF After, Places
  <2>6. NetAfter(m)[p] = m[p] - arcs.wait[p] + arcs.signal[p]
    BY <2>1 DEF NetAfter
  <2>7. NetAfter(m)[p] = After(T)[at[p]]
    BY <1>6, <2>5, <2>6
  <2> QED BY <2>3, <2>4, <2>7 DEF w, k
<1>9. ASSUME NEW p \in out
      PROVE  NetAfter(m)[p] = m[p] /\ m[p] <= ShortMax
  <2>1. NetAfter(m)[p] = m[p] - arcs.wait[p] + arcs.signal[p]
    BY DEF NetAfter
  <2> QED BY <1>2, <1>5, <1>7, <2>1
<1>10. NetPasses(m) <=> CanFire(T) /\ Running(m)
  <2> DEFINE ok(p) == m[p] >= arcs.wait[p] /\ (arcs.null[p] > 0 => m[p] = 0)
             may(q) == /\ T.wait[q] > 0 => tokens[q] >= T.wait[q]
                       /\ T.wait[q] = 0 => tokens[q] = 0
  <2>1. NetPasses(m) <=> \A p \in Place : ok(p)
    BY DEF NetPasses
  <2>2. CanFire(T) <=> \A q \in P : may(q)
    BY <1>2 DEF CanFire, Places
  <2>3. \A p \in Stored : ok(p) <=> may(at[p])
    BY <1>8
  <2>4. \A p \in out : ok(p) <=> m[p] >= arcs.wait[p]
    BY <1>7, <1>5
  <2> HIDE DEF ok, may
  <2>5. CanFire(T) <=> \A p \in Stored : ok(p)
    BY <1>4, <2>2, <2>3
  <2>6. Running(m) <=> \A p \in out : ok(p)
    BY <2>4 DEF Running
  <2> QED BY <1>2, <2>1, <2>5, <2>6
<1>11. (\E p \in Place : NetAfter(m)[p] > ShortMax) <=> Overflows(T)
  <2>1. Overflows(T) <=> \E q \in P : After(T)[q] > SemMax
    BY <1>2 DEF Overflows, Places
  <2>2. \A p \in out : ~(NetAfter(m)[p] > ShortMax)
    BY <1>2, <1>5, <1>9
  <2>3. \A p \in Stored : NetAfter(m)[p] > ShortMax <=> After(T)[at[p]] > SemMax
    BY <1>8
  <2>4. (\E p \in Stored : NetAfter(m)[p] > ShortMax) <=> \E q \in P : After(T)[q] > SemMax
    BY <1>4, <2>3
  <2> QED BY <1>2, <2>1, <2>2, <2>4
<1>12. CASE ~NetPasses(m)
  BY <1>1, <1>10, <1>12 DEF NetFires, FiresLikeSemop, s, T
<1>13. CASE NetPasses(m) /\ Overflows(T)
  BY <1>1, <1>10, <1>11, <1>13 DEF NetFires, FiresLikeSemop, s, T
<1>14. CASE NetPasses(m) /\ ~Overflows(T)
  <2>1. s.res = "ok" /\ s.val = NetAfter(m)
    BY <1>1, <1>11, <1>14 DEF NetFires
  <2> QED BY <1>8, <1>9, <1>10, <1>14, <2>1 DEF FiresLikeSemop, s, T
<1> QED BY <1>12, <1>13, <1>14

\* What ScanCycle takes for one step, the synchpts of SynchPoint do: for every
\* net, synchpt, marking and sequence of edits.
THEOREM ScansUseSynchpts == Spec /\ PtSpec => []FireIsSemop
<1>1. PtInv /\ SynchFiresTransition /\ Typed => FireIsSemop
  BY FireAsSynch DEF FireIsSemop, PtInv, PtTypes
<1> QED BY <1>1, PtInductive, SynchIsTransition, InitTyped, StepTyped, PTL DEF Spec
==============================================================================
