----------------------------- MODULE PeriodProofs -----------------------------
(***************************************************************************)
(* Theorems of Period, for any number of processes, of timer threads and   *)
(* of starts, and any width of the counter.                                *)
(***************************************************************************)
EXTENDS Period, FiniteSetTheorems, TLAPS

(***************************************************************************)
(* Type correctness.  ScanReturns takes one from what ScanReads read, so   *)
(* that what was read must not have been zero.                             *)
(***************************************************************************)
Line == {"off", "init", "hung", "idle", "test", "asleep", "woken", "count"}
ThreadLine == {"none", "lock", "add", "signal", "done"}
Reader == {Main} \cup Thread
Typed ==
  /\ TypeOK
  /\ tmp \in [Proc -> [Reader -> 0 .. MaxTimerSigcount]]
  /\ consumed \in [Proc -> Nat]
  /\ alone \in [Proc -> BOOLEAN]
  /\ \A p \in Proc : pc[p] = "count" => tmp[p][Main] > 0

LEMMA InitTyped == Init => Typed
<1>1. MaxTimerSigcount \in Nat \ {0}
  BY PeriodAssumption
<1> QED BY <1>1 DEF Init, Typed, TypeOK, Reader

\* The fresh memory of a process has the types of its variables.
LEMMA FreshTyped ==
  ASSUME Typed, NEW p \in Proc, NEW l \in Line \ {"count"}, Goto(p, l), Fresh(p),
         block' \in [exists : BOOLEAN, first_scan : BOOLEAN, period : BOOLEAN],
         owner' \in Proc \cup {NoProc}, alone' \in [Proc -> BOOLEAN]
  PROVE  Typed'
<1>1. MaxTimerSigcount \in Nat \ {0}
  BY PeriodAssumption
<1>2. pc' \in [Proc -> Line]
  BY DEF Typed, TypeOK, Goto, Line
<1>3. armed' \in [Proc -> BOOLEAN] /\ holder' \in [Proc -> {Nobody, Main} \cup Thread]
  BY DEF Typed, TypeOK, Fresh
<1>4. sigcount' \in [Proc -> 0 .. MaxTimerSigcount] /\ consumed' \in [Proc -> Nat]
  BY <1>1 DEF Typed, TypeOK, Fresh
<1>5. tpc' \in [Proc -> [Thread -> ThreadLine]]
  BY DEF Typed, TypeOK, Fresh, ThreadLine
<1>6. tmp' \in [Proc -> [Reader -> 0 .. MaxTimerSigcount]]
  <2>1. [x \in Reader |-> 0] \in [Reader -> 0 .. MaxTimerSigcount]
    BY <1>1
  <2>2. tmp' = [tmp EXCEPT ![p] = [x \in Reader |-> 0]]
    BY DEF Fresh, Reader
  <2> QED BY <2>1, <2>2 DEF Typed
<1>7. ASSUME NEW q \in Proc, pc'[q] = "count" PROVE tmp'[q][Main] > 0
  <2>1. q # p /\ pc[q] = "count"
    BY <1>7 DEF Typed, TypeOK, Goto
  <2>2. tmp'[q] = tmp[q]
    BY <2>1 DEF Typed, Fresh
  <2> QED BY <2>1, <2>2 DEF Typed
<1> QED BY <1>2, <1>3, <1>4, <1>5, <1>6, <1>7 DEF Typed, TypeOK, Line, ThreadLine

LEMMA NextTyped == Typed /\ [Next]_vars => Typed'
<1> SUFFICES ASSUME Typed, [Next]_vars PROVE Typed'
  OBVIOUS
<1>0. MaxTimerSigcount \in Nat \ {0} /\ Main = 0 /\ Nobody = -1 /\ Thread \subseteq Nat
  BY PeriodAssumption DEF Main, Nobody, Thread
<1>1. ASSUME NEW p \in Proc, PeriodInit(p) PROVE Typed'
  <2>1. block' \in [exists : BOOLEAN, first_scan : BOOLEAN, period : BOOLEAN]
    BY <1>1 DEF PeriodInit, OpenBlock, Typed, TypeOK
  <2>2. alone' \in [Proc -> BOOLEAN]
    BY <1>1, Zenon DEF PeriodInit, Typed
  <2>3. owner' \in Proc \cup {NoProc} /\ Goto(p, "init") /\ Fresh(p)
    BY <1>1 DEF PeriodInit, Typed, TypeOK
  <2> QED BY <2>1, <2>2, <2>3, FreshTyped DEF Line
<1>2. ASSUME NEW p \in Proc, StateInit(p) PROVE Typed'
  <2>1. CASE /\ owner' = p /\ Goto(p, "idle")
             /\ UNCHANGED <<block, armed, sigcount, holder, tpc, tmp, consumed, rest>>
    BY <2>1 DEF Goto, rest, Typed, TypeOK
  <2>2. CASE UNCHANGED owner /\ Exit(p, "off")
    BY <2>2, FreshTyped DEF Exit, rest, Typed, TypeOK, Line
  <2> QED BY <1>2, <2>1, <2>2 DEF StateInit
<1>3. ASSUME NEW p \in Proc, Done(p) PROVE Typed'
  <2>1. PICK l \in {"off", "hung"} : Exit(p, l)
    BY <1>3 DEF Done
  <2>2. owner' \in Proc \cup {NoProc}
    BY <1>3 DEF Done, Typed, TypeOK
  <2> QED BY <2>1, <2>2, FreshTyped DEF Exit, rest, Typed, TypeOK, Line
<1>4. ASSUME NEW p \in Proc, Kill(p) PROVE Typed'
  BY <1>4, FreshTyped DEF Kill, Exit, rest, Typed, TypeOK, Line
<1>5. ASSUME NEW p \in Proc, FirstScan(p) PROVE Typed'
  BY <1>5 DEF FirstScan, SetPeriod, rest, Typed, TypeOK
<1>6. ASSUME NEW p \in Proc, NEW period \in BOOLEAN, ChangePeriod(p, period) PROVE Typed'
  BY <1>6 DEF ChangePeriod, SetPeriod, rest, Typed, TypeOK
<1>7. ASSUME NEW p \in Proc, ScanLocks(p) \/ ScanSleeps(p) \/ ScanWakes(p) PROVE Typed'
  <2>1. CASE ScanLocks(p)
    BY <1>0, <2>1 DEF ScanLocks, Lock, Unlock, Goto, rest, Typed, TypeOK
  <2>2. CASE ScanSleeps(p)
    BY <1>0, <2>2 DEF ScanSleeps, Lock, Unlock, Goto, rest, Typed, TypeOK
  <2>3. CASE ScanWakes(p)
    BY <1>0, <2>3 DEF ScanWakes, Lock, Unlock, Goto, rest, Typed, TypeOK
  <2> QED BY <1>7, <2>1, <2>2, <2>3
<1>8. ASSUME NEW p \in Proc, ScanReads(p) PROVE Typed'
  BY <1>0, <1>8 DEF ScanReads, Goto, rest, Typed, TypeOK, Reader
<1>9. ASSUME NEW p \in Proc, ScanReturns(p) PROVE Typed'
  <2>1. tmp[p][Main] \in 0 .. MaxTimerSigcount /\ tmp[p][Main] > 0
    BY <1>0, <1>9 DEF ScanReturns, Typed, TypeOK, Reader
  <2>2. tmp[p][Main] - 1 \in 0 .. MaxTimerSigcount
    BY <1>0, <2>1
  <2>3. sigcount' \in [Proc -> 0 .. MaxTimerSigcount]
    BY <1>9, <2>2 DEF ScanReturns, Typed, TypeOK
  <2> QED BY <1>9, <2>3 DEF ScanReturns, Unlock, Goto, rest, Typed, TypeOK
<1>10. ASSUME NEW p \in Proc, NEW t \in Thread, Expire(p, t) PROVE Typed'
  BY <1>10 DEF Expire, ThreadTo, rest, Typed, TypeOK
<1>11. ASSUME NEW p \in Proc, NEW t \in Thread, ThreadLocks(p, t) PROVE Typed'
  <2>1. t # Main
    BY <1>0 DEF Thread, Main
  <2>2. tmp' \in [Proc -> [Reader -> 0 .. MaxTimerSigcount]]
    BY <1>11 DEF ThreadLocks, Typed, TypeOK, Reader
  <2>3. \A q \in Proc : tmp'[q][Main] = tmp[q][Main]
    BY <1>11, <2>1 DEF ThreadLocks, Typed, Reader
  <2>4. \A q \in Proc : pc'[q] = "count" => tmp'[q][Main] > 0
    BY <1>11, <2>3 DEF ThreadLocks, Typed
  <2> QED BY <1>11, <2>2, <2>4 DEF ThreadLocks, ThreadTo, Lock, rest, Typed, TypeOK
<1>12. ASSUME NEW p \in Proc, NEW t \in Thread, ThreadAdds(p, t) PROVE Typed'
  <2>1. tmp[p][t] \in 0 .. MaxTimerSigcount /\ sigcount[p] \in 0 .. MaxTimerSigcount
    BY DEF Typed, TypeOK, Reader
  <2> DEFINE n == IF tmp[p][t] # MaxTimerSigcount THEN tmp[p][t] + 1 ELSE sigcount[p]
  <2>2. n \in 0 .. MaxTimerSigcount
    <3>1. CASE tmp[p][t] = MaxTimerSigcount
      BY <2>1, <3>1
    <3>2. CASE tmp[p][t] # MaxTimerSigcount
      <4>1. tmp[p][t] + 1 \in 0 .. MaxTimerSigcount
        BY <1>0, <2>1, <3>2
      <4> QED BY <3>2, <4>1
    <3> QED BY <3>1, <3>2
  <2>3. sigcount' = [sigcount EXCEPT ![p] = n]
    BY <1>12 DEF ThreadAdds
  <2> HIDE DEF n
  <2>4. sigcount' \in [Proc -> 0 .. MaxTimerSigcount]
    BY <2>2, <2>3 DEF Typed, TypeOK
  <2> QED BY <1>12, <2>4 DEF ThreadAdds, ThreadTo, rest, Typed, TypeOK
<1>13. ASSUME NEW p \in Proc, NEW t \in Thread, ThreadSignals(p, t) PROVE Typed'
  BY <1>13 DEF ThreadSignals, ThreadTo, Unlock, rest, Typed, TypeOK
<1>14. CASE UNCHANGED vars
  BY <1>14 DEF vars, proc, rest, Typed, TypeOK
<1> QED BY <1>1, <1>2, <1>3, <1>4, <1>5, <1>6, <1>7, <1>8, <1>9, <1>10, <1>11, <1>12,
           <1>13, <1>14 DEF Next, ScanStep, ThreadStep

\* The counter of expirations neither wraps around nor falls below zero, for
\* whatever number of threads add to it (period.c:234 and 528).
THEOREM TypeCorrect == Spec => []TypeOK
<1>1. Typed => TypeOK
  BY DEF Typed
<1> QED BY InitTyped, NextTyped, <1>1, PTL DEF Spec

(***************************************************************************)
(* The counter and the mutex.  The bound on the scans is not inductive: it *)
(* needs that whoever has read the counter still has the mutex, so that    *)
(* what was read is still what the counter holds.                          *)
(***************************************************************************)
Counted(p) == {t \in Thread : tpc[p][t] \in {"signal", "done"}}
Guarded(p) ==
  /\ pc[p] \in {"test", "count"} => holder[p] = Main
  /\ \A t \in Thread : tpc[p][t] \in {"add", "signal"} => holder[p] = t
  /\ pc[p] = "count" => tmp[p][Main] = sigcount[p]
  /\ \A t \in Thread : tpc[p][t] = "add" => tmp[p][t] = sigcount[p]
  /\ consumed[p] + sigcount[p] <= Cardinality(Counted(p))
CounterGuarded == \A p \in Proc : Guarded(p)

LEMMA CountedFinite ==
  ASSUME NEW p \in Proc
  PROVE  IsFiniteSet(Counted(p)) /\ Cardinality(Counted(p)) \in Nat
<1>1. IsFiniteSet(Thread)
  BY FS_Interval, PeriodAssumption DEF Thread
<1>2. Counted(p) \subseteq Thread
  BY DEF Counted
<1> QED BY <1>1, <1>2, FS_Subset, FS_CardinalityType

\* The memory of a process that is gone, or starts, has counted nothing.
LEMMA FreshGuarded ==
  ASSUME Typed, NEW p \in Proc, Fresh(p), pc'[p] \in {"off", "init", "hung"}
  PROVE  Guarded(p)'
<1>1. /\ consumed'[p] = 0 /\ sigcount'[p] = 0
      /\ \A t \in Thread : tpc'[p][t] = "none"
  BY DEF Fresh, Typed, TypeOK
<1>2. Counted(p)' = {}
  BY <1>1 DEF Counted
<1>3. Cardinality(Counted(p)') = 0
  BY <1>2, FS_EmptySet
<1>4. Cardinality(Counted(p))' = Cardinality(Counted(p)')
  OBVIOUS
<1> QED BY <1>1, <1>3, <1>4 DEF Guarded

\* A step of one process leaves the counter of the others alone.
LEMMA OthersGuarded ==
  ASSUME NEW q \in Proc, Guarded(q),
         pc'[q] = pc[q], holder'[q] = holder[q], sigcount'[q] = sigcount[q],
         tpc'[q] = tpc[q], tmp'[q] = tmp[q], consumed'[q] = consumed[q]
  PROVE  Guarded(q)'
<1>1. Counted(q)' = Counted(q)
  BY DEF Counted
<1>2. Cardinality(Counted(q))' = Cardinality(Counted(q))
  BY <1>1
<1> QED BY <1>2 DEF Guarded

\* So it is enough to look at the process that took the step.
LEMMA OneGuarded ==
  ASSUME Typed, CounterGuarded, NEW p \in Proc, Guarded(p)',
         \A q \in Proc \ {p} :
           /\ pc'[q] = pc[q] /\ holder'[q] = holder[q] /\ sigcount'[q] = sigcount[q]
           /\ tpc'[q] = tpc[q] /\ tmp'[q] = tmp[q] /\ consumed'[q] = consumed[q]
  PROVE  CounterGuarded'
BY OthersGuarded DEF CounterGuarded

LEMMA InitGuarded == Init => CounterGuarded
<1> SUFFICES ASSUME Init, NEW p \in Proc PROVE Guarded(p)
  BY DEF CounterGuarded
<1>1. Counted(p) = {}
  BY DEF Init, Counted
<1>2. Cardinality(Counted(p)) = 0
  BY <1>1, FS_EmptySet
<1> QED BY <1>2 DEF Init, Guarded

LEMMA NextGuarded == Typed /\ CounterGuarded /\ [Next]_vars => CounterGuarded'
<1> SUFFICES ASSUME Typed, CounterGuarded, [Next]_vars PROVE CounterGuarded'
  OBVIOUS
<1>0. /\ MaxTimerSigcount \in Nat \ {0}
      /\ \A t \in Thread : t # Main /\ t # Nobody /\ t \in Reader
      /\ Main # Nobody /\ Main \in Reader
  BY PeriodAssumption DEF Main, Nobody, Thread, Reader
<1>a. \A p \in Proc : Guarded(p)
  BY DEF CounterGuarded
\* The steps that leave a process with fresh memory.
<1>1. ASSUME NEW p \in Proc, NEW l \in {"off", "init", "hung"}, Goto(p, l), Fresh(p)
      PROVE  CounterGuarded'
  <2>1. pc'[p] = l
    BY <1>1 DEF Goto, Typed, TypeOK
  <2>2. Guarded(p)'
    BY <1>1, <2>1, FreshGuarded
  <2>3. \A q \in Proc \ {p} :
           /\ pc'[q] = pc[q] /\ holder'[q] = holder[q] /\ sigcount'[q] = sigcount[q]
           /\ tpc'[q] = tpc[q] /\ tmp'[q] = tmp[q] /\ consumed'[q] = consumed[q]
    BY <1>1 DEF Goto, Fresh, Typed, TypeOK
  <2> QED BY <2>2, <2>3, OneGuarded
<1>2. ASSUME NEW p \in Proc, PeriodInit(p) PROVE CounterGuarded'
  BY <1>1, <1>2 DEF PeriodInit
<1>3. ASSUME NEW p \in Proc, StateInit(p) PROVE CounterGuarded'
  <2>1. CASE /\ pc[p] = "init" /\ Goto(p, "idle")
             /\ UNCHANGED <<block, armed, sigcount, holder, tpc, tmp, consumed, rest>>
    <3>1. Counted(p)' = Counted(p)
      BY <2>1 DEF Counted
    <3>2. Cardinality(Counted(p))' = Cardinality(Counted(p))
      BY <3>1
    <3>3. Guarded(p)'
      BY <1>a, <2>1, <3>2 DEF Guarded, Goto, Typed, TypeOK
    <3> QED BY <2>1, <3>3, OneGuarded DEF Goto, Typed, TypeOK
  <2>2. CASE Exit(p, "off")
    BY <2>2, <1>1 DEF Exit
  <2> QED BY <1>3, <2>1, <2>2 DEF StateInit
<1>4. ASSUME NEW p \in Proc, Done(p) \/ Kill(p) PROVE CounterGuarded'
  BY <1>1, <1>4 DEF Done, Kill, Exit
<1>5. ASSUME UNCHANGED <<pc, sigcount, holder, tpc, tmp, consumed>> PROVE CounterGuarded'
  BY <1>5, <1>a, OthersGuarded DEF CounterGuarded
<1>6. ASSUME NEW p \in Proc, FirstScan(p) \/ \E period \in BOOLEAN : ChangePeriod(p, period)
      PROVE  CounterGuarded'
  BY <1>5, <1>6 DEF FirstScan, ChangePeriod
\* The steps of the scan: they count no expiration.
<1>7. ASSUME NEW p \in Proc, ScanStep(p) PROVE CounterGuarded'
  <2>1. Counted(p)' = Counted(p)
    BY <1>7 DEF Counted, ScanStep, ScanLocks, ScanSleeps, ScanWakes, ScanReads, ScanReturns
  <2>2. Cardinality(Counted(p))' = Cardinality(Counted(p)) /\ Cardinality(Counted(p)) \in Nat
    BY <2>1, CountedFinite
  <2>3. sigcount[p] \in Nat /\ consumed[p] \in Nat
    BY <1>0 DEF Typed, TypeOK
  <2>4. CASE ScanLocks(p) \/ ScanWakes(p)
    <3>1. /\ holder[p] = Nobody /\ holder'[p] = Main
          /\ pc[p] \in {"idle", "woken"} /\ pc'[p] = "test"
          /\ UNCHANGED <<sigcount, tpc, tmp, consumed>>
      BY <2>4 DEF ScanLocks, ScanWakes, Lock, Goto, Typed, TypeOK
    <3>2. Guarded(p)'
      BY <1>0, <1>a, <2>2, <3>1 DEF Guarded
    <3> QED BY <2>4, <3>2, OneGuarded DEF ScanLocks, ScanWakes, Lock, Goto, Typed, TypeOK
  <2>5. CASE ScanSleeps(p)
    <3>1. /\ holder[p] = Main /\ pc'[p] = "asleep"
          /\ UNCHANGED <<sigcount, tpc, tmp, consumed>>
      BY <1>a, <2>5 DEF Guarded, ScanSleeps, Goto, Typed, TypeOK
    <3>2. Guarded(p)'
      BY <1>0, <1>a, <2>2, <3>1 DEF Guarded
    <3> QED BY <2>5, <3>2, OneGuarded DEF ScanSleeps, Unlock, Goto, Typed, TypeOK
  <2>6. CASE ScanReads(p)
    <3>1. /\ holder[p] = Main /\ pc'[p] = "count" /\ tmp'[p][Main] = sigcount[p]
          /\ UNCHANGED <<sigcount, holder, tpc, consumed>>
      BY <1>0, <1>a, <2>6 DEF Guarded, ScanReads, Goto, Typed, TypeOK
    <3>2. Guarded(p)'
      BY <1>0, <1>a, <2>2, <3>1 DEF Guarded
    <3> QED BY <2>6, <3>2, OneGuarded DEF ScanReads, Goto, Typed, TypeOK
  <2>7. CASE ScanReturns(p)
    <3>1. /\ holder[p] = Main /\ pc'[p] = "idle"
          /\ sigcount'[p] = sigcount[p] - 1 /\ consumed'[p] = consumed[p] + 1
          /\ UNCHANGED <<tpc, tmp>>
      BY <1>a, <2>7 DEF Guarded, ScanReturns, Goto, Typed, TypeOK
    <3>2. consumed'[p] + sigcount'[p] = consumed[p] + sigcount[p]
      BY <2>3, <3>1
    <3>3. Guarded(p)'
      BY <1>0, <1>a, <2>2, <3>1, <3>2 DEF Guarded
    <3> QED BY <2>7, <3>3, OneGuarded DEF ScanReturns, Unlock, Goto, Typed, TypeOK
  <2> QED BY <1>7, <2>4, <2>5, <2>6, <2>7 DEF ScanStep
\* The steps of a timer thread.
<1>8. ASSUME NEW p \in Proc, NEW t \in Thread, Expire(p, t) \/ ThreadStep(p, t)
      PROVE  CounterGuarded'
  <2>0. /\ IsFiniteSet(Counted(p)) /\ Cardinality(Counted(p)) \in Nat
        /\ sigcount[p] \in Nat /\ consumed[p] \in Nat
    BY <1>0, CountedFinite DEF Typed, TypeOK
  <2>1. CASE Expire(p, t)
    <3>1. /\ tpc'[p] = [tpc[p] EXCEPT ![t] = "lock"] /\ tpc[p][t] = "none"
          /\ UNCHANGED <<pc, sigcount, holder, tmp, consumed>>
      BY <2>1 DEF Expire, ThreadTo, Typed, TypeOK
    <3>2. \A s \in Thread : tpc'[p][s] = IF s = t THEN "lock" ELSE tpc[p][s]
      BY <3>1 DEF Typed, TypeOK
    <3>3. Counted(p)' = Counted(p)
      BY <3>1, <3>2 DEF Counted
    <3>4. Cardinality(Counted(p))' = Cardinality(Counted(p))
      BY <3>3
    <3>5. Guarded(p)'
      BY <1>a, <3>1, <3>2, <3>4 DEF Guarded
    <3> QED BY <2>1, <3>5, OneGuarded DEF Expire, ThreadTo, Typed, TypeOK
  <2>2. CASE ThreadLocks(p, t)
    <3>1. /\ tpc[p][t] = "lock" /\ holder[p] = Nobody /\ holder'[p] = t
          /\ tmp'[p][t] = sigcount[p]
          /\ UNCHANGED <<pc, sigcount, consumed>>
      BY <1>0, <2>2 DEF ThreadLocks, Lock, Typed, TypeOK
    <3>2. \A s \in Thread : tpc'[p][s] = IF s = t THEN "add" ELSE tpc[p][s]
      BY <2>2 DEF ThreadLocks, ThreadTo, Typed, TypeOK
    <3>3. Counted(p)' = Counted(p)
      BY <3>1, <3>2 DEF Counted
    <3>4. Cardinality(Counted(p))' = Cardinality(Counted(p))
      BY <3>3
    <3>5. pc[p] \notin {"test", "count"} /\ \A s \in Thread : tpc[p][s] \notin {"add", "signal"}
      BY <1>0, <1>a, <3>1 DEF Guarded
    <3>6. Guarded(p)'
      BY <1>a, <3>1, <3>2, <3>4, <3>5 DEF Guarded
    <3> QED BY <2>2, <3>6, OneGuarded DEF ThreadLocks, Lock, ThreadTo, Typed, TypeOK
  <2>3. CASE ThreadAdds(p, t)
    <3>1. /\ tpc[p][t] = "add" /\ holder[p] = t /\ tmp[p][t] = sigcount[p]
          /\ UNCHANGED <<pc, holder, tmp, consumed>>
      BY <1>a, <2>3 DEF ThreadAdds, Guarded
    <3>2. \A s \in Thread : tpc'[p][s] = IF s = t THEN "signal" ELSE tpc[p][s]
      BY <2>3 DEF ThreadAdds, ThreadTo, Typed, TypeOK
    <3>3. sigcount'[p] \in {sigcount[p], sigcount[p] + 1}
      BY <2>3, <3>1 DEF ThreadAdds, Typed, TypeOK
    <3>4. Counted(p)' = Counted(p) \cup {t} /\ t \notin Counted(p)
      BY <3>1, <3>2 DEF Counted
    <3>5. Cardinality(Counted(p))' = Cardinality(Counted(p)) + 1
      BY <2>0, <3>4, FS_AddElement
    <3>6. consumed'[p] + sigcount'[p] <= Cardinality(Counted(p))'
      BY <1>a, <2>0, <3>1, <3>3, <3>5 DEF Guarded
    <3>7. /\ pc[p] \notin {"test", "count"}
          /\ \A s \in Thread \ {t} : tpc[p][s] \notin {"add", "signal"}
      BY <1>0, <1>a, <3>1 DEF Guarded
    <3>8. Guarded(p)'
      BY <3>1, <3>2, <3>6, <3>7 DEF Guarded
    <3> QED BY <2>3, <3>8, OneGuarded DEF ThreadAdds, ThreadTo, Typed, TypeOK
  <2>4. CASE ThreadSignals(p, t)
    <3>1. /\ tpc[p][t] = "signal" /\ holder[p] = t
          /\ UNCHANGED <<sigcount, tmp, consumed>>
      BY <1>a, <2>4 DEF ThreadSignals, Guarded
    <3>2. \A s \in Thread : tpc'[p][s] = IF s = t THEN "done" ELSE tpc[p][s]
      BY <2>4 DEF ThreadSignals, ThreadTo, Typed, TypeOK
    <3>3. pc'[p] \in {pc[p], "woken"}
      BY <2>4 DEF ThreadSignals, Typed, TypeOK
    <3>4. Counted(p)' = Counted(p)
      BY <3>1, <3>2 DEF Counted
    <3>5. Cardinality(Counted(p))' = Cardinality(Counted(p))
      BY <3>4
    <3>6. /\ pc[p] \notin {"test", "count"}
          /\ \A s \in Thread \ {t} : tpc[p][s] \notin {"add", "signal"}
      BY <1>0, <1>a, <3>1 DEF Guarded
    <3>7. Guarded(p)'
      BY <1>a, <3>1, <3>2, <3>3, <3>5, <3>6 DEF Guarded
    <3> QED BY <2>4, <3>7, OneGuarded DEF ThreadSignals, Unlock, ThreadTo, Typed, TypeOK
  <2> QED BY <1>8, <2>1, <2>2, <2>3, <2>4 DEF ThreadStep
<1>9. CASE UNCHANGED vars
  BY <1>5, <1>9 DEF vars, proc
<1> QED BY <1>2, <1>3, <1>4, <1>6, <1>7, <1>8, <1>9 DEF Next

\* However many threads and processes there are, the scans that were let go
\* and those the counter still promises are no more than the expirations
\* counted: no expiration counts twice (period.c:234 and 528).
THEOREM NoScanWithoutExpiration == Spec => []NoScanTooMany
<1>1. CounterGuarded => NoScanTooMany
  BY DEF CounterGuarded, Guarded, Counted, NoScanTooMany
<1> QED BY InitTyped, NextTyped, InitGuarded, NextGuarded, <1>1, PTL DEF Spec

(***************************************************************************)
(* The timer of a process that runs alone.  That a sleeper has a timer is  *)
(* not inductive: it needs that a process that will not set its timer any  *)
(* more, because first_scan is FALSE, has set it, and that nobody else can *)
(* have cleared first_scan.                                                *)
(***************************************************************************)
Scanning == {"test", "asleep", "woken", "count"}
TimerSet(p) ==
  alone[p] /\ Running(p) =>
    /\ \A q \in Proc \ {p} : ~Running(q)
    /\ pc[p] \in {"init", "idle"} /\ ~block.first_scan /\ block.period => armed[p]
    /\ pc[p] \in Scanning => armed[p]
TimersSet == \A p \in Proc : TimerSet(p)

LEMMA InitTimers == Init => TimersSet
BY DEF Init, TimersSet, TimerSet, Running, Gone

LEMMA NextTimers == Typed /\ TimersSet /\ [Next]_vars => TimersSet'
<1> SUFFICES ASSUME Typed, TimersSet, [Next]_vars, NEW p \in Proc PROVE TimerSet(p)'
  BY DEF TimersSet
<1>0. TimerSet(p)
  BY DEF TimersSet
<1>1. ASSUME NEW r \in Proc, PeriodInit(r) PROVE TimerSet(p)'
  <2>1. CASE r = p
    <3>1. pc'[p] = "init" /\ \A q \in Proc \ {p} : pc'[q] = pc[q]
      BY <1>1, <2>1 DEF PeriodInit, Goto, Typed, TypeOK
    <3>2. block'.first_scan = TRUE
      BY <1>1 DEF PeriodInit, OpenBlock
    <3>3. alone'[p] = ({q \in Proc \ {p} : pc[q] \notin Gone} = {})
      BY <1>1, <2>1, Zenon DEF PeriodInit, Typed
    <3>4. alone'[p] => \A q \in Proc \ {p} : ~Running(q)'
      BY <3>1, <3>3 DEF Running
    <3> QED BY <3>1, <3>2, <3>4 DEF TimerSet, Scanning
  <2>2. CASE r # p
    <3>1. pc'[p] = pc[p]
      BY <1>1, <2>2 DEF PeriodInit, Goto, Typed, TypeOK
    <3>2. alone'[p] = (alone[p] /\ p \notin {q \in Proc \ {r} : pc[q] \notin Gone})
      BY <1>1, <2>2, Zenon DEF PeriodInit, Typed
    <3>3. ~(alone'[p] /\ Running(p)')
      BY <2>2, <3>1, <3>2 DEF Running
    <3> QED BY <3>3 DEF TimerSet
  <2> QED BY <2>1, <2>2
\* The other steps start no process.
<1>2. ASSUME NEW r \in Proc, NEW l \in {"off", "hung"}, Exit(r, l) PROVE TimerSet(p)'
  <2>1. CASE r = p
    BY <1>2, <2>1 DEF Exit, Goto, TimerSet, Running, Gone, Typed, TypeOK
  <2>2. CASE r # p
    BY <1>0, <1>2, <2>2
    DEF Exit, Goto, Fresh, rest, TimerSet, Running, Gone, Typed, TypeOK
  <2> QED BY <2>1, <2>2
<1>3. ASSUME NEW r \in Proc, StateInit(r) PROVE TimerSet(p)'
  <2>1. CASE /\ pc[r] = "init" /\ Goto(r, "idle")
             /\ UNCHANGED <<block, armed, sigcount, holder, tpc, tmp, consumed, rest>>
    BY <1>0, <2>1 DEF Goto, rest, TimerSet, Running, Gone, Scanning, Typed, TypeOK
  <2>2. CASE Exit(r, "off")
    BY <1>2, <2>2
  <2> QED BY <1>3, <2>1, <2>2 DEF StateInit
<1>4. ASSUME NEW r \in Proc, Done(r) \/ Kill(r) PROVE TimerSet(p)'
  BY <1>2, <1>4 DEF Done, Kill
<1>5. ASSUME NEW r \in Proc, FirstScan(r) \/ \E period \in BOOLEAN : ChangePeriod(r, period)
      PROVE  TimerSet(p)'
  <2>1. PICK first, period \in BOOLEAN : SetPeriod(r, first, period)
    BY <1>5 DEF FirstScan, ChangePeriod, Typed, TypeOK
  <2>2. Running(r) /\ pc[r] = "idle" /\ UNCHANGED <<pc, alone>>
    BY <1>5 DEF FirstScan, ChangePeriod, rest, Running, Gone
  <2>3. CASE r = p
    <3>1. block'.period = period /\ armed'[p] = period
      BY <2>1, <2>3 DEF SetPeriod, Typed, TypeOK
    <3> QED BY <1>0, <2>2, <2>3, <3>1 DEF TimerSet, Running, Scanning
  <2>4. CASE r # p
    BY <1>0, <2>2, <2>4 DEF TimerSet, Running
  <2> QED BY <2>3, <2>4
<1>6. ASSUME NEW r \in Proc, ScanStep(r) PROVE TimerSet(p)'
  <2>1. UNCHANGED <<block, armed, alone>>
    BY <1>6
    DEF ScanStep, ScanLocks, ScanSleeps, ScanWakes, ScanReads, ScanReturns, rest
  <2>2. \E l \in Scanning \cup {"idle"} : Goto(r, l) /\ Running(r)
    BY <1>6 DEF ScanStep, ScanLocks, ScanSleeps, ScanWakes, ScanReads, ScanReturns,
                Running, Gone, Scanning
  <2>3. pc[r] \in Scanning \/ (pc[r] = "idle" /\ ~block.first_scan /\ block.period)
    BY <1>6 DEF ScanStep, ScanLocks, ScanSleeps, ScanWakes, ScanReads, ScanReturns, Scanning
  <2> QED BY <1>0, <2>1, <2>2, <2>3
          DEF TimerSet, Running, Gone, Scanning, Goto, Typed, TypeOK
<1>7. ASSUME NEW r \in Proc, NEW t \in Thread, Expire(r, t) \/ ThreadStep(r, t)
      PROVE  TimerSet(p)'
  <2>1. UNCHANGED <<block, armed, alone>>
    BY <1>7 DEF Expire, ThreadStep, ThreadLocks, ThreadAdds, ThreadSignals, rest
  <2>2. UNCHANGED pc \/ (pc[r] = "asleep" /\ Goto(r, "woken"))
    BY <1>7 DEF Expire, ThreadStep, ThreadLocks, ThreadAdds, ThreadSignals, Goto
  <2> QED BY <1>0, <2>1, <2>2 DEF TimerSet, Running, Gone, Scanning, Goto, Typed, TypeOK
<1>8. CASE UNCHANGED vars
  BY <1>0, <1>8 DEF vars, proc, rest, TimerSet, Running
<1> QED BY <1>1, <1>3, <1>4, <1>5, <1>6, <1>7, <1>8 DEF Next

\* A scan that sleeps has a timer that will wake it, unless another process
\* of the name ran beside it: first_scan, which outlives the processes,
\* stands for the timer of the one that runs (period.c:342 and 464).
THEOREM SleepersHaveTimers == Spec => []SleeperHasTimer
<1>1. TimersSet => SleeperHasTimer
  BY DEF TimersSet, TimerSet, SleeperHasTimer, Running, Gone, Scanning
<1> QED BY InitTyped, NextTyped, InitTimers, NextTimers, <1>1, PTL DEF Spec
=============================================================================
