--------------------------- MODULE PlcMutexProofs ---------------------------
(***************************************************************************)
(* Proofs about PlcMutex, for every set of processes and every pair of     *)
(* kernel limits: the type invariant, mutual exclusion until the count is  *)
(* first disturbed, and that a death never leaves the mutex locked.        *)
(***************************************************************************)
EXTENDS PlcMutex, TLAPS

\* Every step of the mutex keeps the types.
LEMMA TypeNext == TypeOK /\ [Next]_vars => TypeOK'
<1> SUFFICES ASSUME TypeOK, [Next]_vars PROVE TypeOK'
  OBVIOUS
<1> USE MutexConstants DEF TypeOK, Where
<1>1. CASE CreateSet
  BY <1>1 DEF CreateSet
<1>2. CASE SignalInitialValue
  BY <1>2 DEF SignalInitialValue
<1>3. CASE Destroy
  BY <1>3 DEF Destroy
<1>4. ASSUME NEW p \in Proc, CallLock(p) PROVE TypeOK'
  BY <1>4 DEF CallLock
<1>5. ASSUME NEW p \in Proc, Acquire(p) PROVE TypeOK'
  BY <1>5 DEF Acquire, TakeToken
<1>6. ASSUME NEW p \in Proc, LockFails(p) PROVE TypeOK'
  BY <1>6 DEF LockFails
<1>7. ASSUME NEW p \in Proc, TryLock(p) PROVE TypeOK'
  BY <1>7 DEF TryLock, TakeToken
<1>8. ASSUME NEW p \in Proc, Unlock(p) PROVE TypeOK'
  BY <1>8 DEF Unlock
<1>9. ASSUME NEW p \in Proc, Exit(p) PROVE TypeOK'
  BY <1>9 DEF Exit
<1>10. CASE UNCHANGED vars
  BY <1>10 DEF vars
<1>11. QED
  BY <1>1, <1>2, <1>3, <1>4, <1>5, <1>6, <1>7, <1>8, <1>9, <1>10 DEF Next

\* Type correctness of every reachable state of the mutex.
THEOREM TypeCorrect == Spec => []TypeOK
<1>1. Init => TypeOK
  BY MutexConstants DEF Init, TypeOK, Where
<1>2. QED
  BY <1>1, TypeNext, PTL DEF Spec

-----------------------------------------------------------------------------
\* While undisturbed the semaphore is a binary one, it is 0 when somebody is
\* inside, and nobody has got inside by a failed lock.
Binary ==
  Undisturbed =>
    /\ stage \in {"absent", "created"} => semval = 0 /\ Inside = {}
    /\ semval \in {0, 1}
    /\ Inside # {} => semval = 0
    /\ \A p \in Proc : pc[p] # "barged"
    /\ MutualExclusion

\* Undisturbed states have undisturbed predecessors: adjustments of the living
\* only grow, the dead stay dead and a removed set stays removed.
LEMMA UndisturbedBackwards ==
  ASSUME TypeOK, [Next]_vars, Undisturbed'
  PROVE  Undisturbed
<1> USE MutexConstants DEF TypeOK, Undisturbed
<1>1. CASE CreateSet
  BY <1>1 DEF CreateSet
<1>2. CASE SignalInitialValue
  BY <1>2 DEF SignalInitialValue
<1>3. CASE Destroy
  BY <1>3 DEF Destroy
<1>4. ASSUME NEW p \in Proc, CallLock(p) PROVE Undisturbed
  BY <1>4 DEF CallLock
<1>5. ASSUME NEW p \in Proc, Acquire(p) PROVE Undisturbed
  BY <1>5 DEF Acquire, TakeToken
<1>6. ASSUME NEW p \in Proc, LockFails(p) PROVE Undisturbed
  BY <1>6 DEF LockFails
<1>7. ASSUME NEW p \in Proc, TryLock(p) PROVE Undisturbed
  BY <1>7 DEF TryLock, TakeToken
<1>8. ASSUME NEW p \in Proc, Unlock(p) PROVE Undisturbed
  BY <1>8 DEF Unlock
<1>9. ASSUME NEW p \in Proc, Exit(p) PROVE Undisturbed
  BY <1>9 DEF Exit
<1>10. CASE UNCHANGED vars
  BY <1>10 DEF vars
<1>11. QED
  BY <1>1, <1>2, <1>3, <1>4, <1>5, <1>6, <1>7, <1>8, <1>9, <1>10 DEF Next

LEMMA BinaryInductive == TypeOK /\ Binary /\ [Next]_vars => Binary'
<1> SUFFICES ASSUME TypeOK, Binary, [Next]_vars, Undisturbed'
             PROVE  /\ stage' \in {"absent", "created"} => semval' = 0 /\ Inside' = {}
                    /\ semval' \in {0, 1}
                    /\ Inside' # {} => semval' = 0
                    /\ \A p \in Proc : pc'[p] # "barged"
                    /\ MutualExclusion'
  BY DEF Binary
<1> DEFINE Goal == /\ stage' \in {"absent", "created"} => semval' = 0 /\ Inside' = {}
                   /\ semval' \in {0, 1}
                   /\ Inside' # {} => semval' = 0
                   /\ \A p \in Proc : pc'[p] # "barged"
                   /\ MutualExclusion'
<1>0. Undisturbed
  BY UndisturbedBackwards
<1> USE <1>0, MutexConstants DEF TypeOK, Binary, Inside, MutualExclusion
<1>1. CASE CreateSet
  BY <1>1 DEF CreateSet
<1>2. CASE SignalInitialValue
  BY <1>2 DEF SignalInitialValue
<1>3. CASE Destroy
  BY <1>3 DEF Destroy, Undisturbed
<1>4. ASSUME NEW p \in Proc, CallLock(p) PROVE Goal
  BY <1>4 DEF CallLock
<1>5. ASSUME NEW p \in Proc, Acquire(p) PROVE Goal
  <2>1. semval = 1 /\ semval' = 0 /\ Inside = {}
    BY <1>5 DEF Acquire, TakeToken
  <2>2. Inside' = {p}
    BY <1>5, <2>1 DEF Acquire, TakeToken
  <2>3. QED
    BY <1>5, <2>1, <2>2 DEF Acquire, TakeToken, Undisturbed
<1>6. ASSUME NEW p \in Proc, LockFails(p) PROVE Goal
  BY <1>6 DEF LockFails, Undisturbed
<1>7. ASSUME NEW p \in Proc, TryLock(p) PROVE Goal
  <2>1. semval = 1 /\ semval' = 0 /\ Inside = {}
    BY <1>7 DEF TryLock, TakeToken
  <2>2. Inside' = {p}
    BY <1>7, <2>1 DEF TryLock, TakeToken
  <2>3. QED
    BY <1>7, <2>1, <2>2 DEF TryLock, TakeToken, Undisturbed
<1>8. ASSUME NEW p \in Proc, Unlock(p) PROVE Goal
  <2>1. Inside = {p} /\ semval = 0
    BY <1>8 DEF Unlock
  <2>2. Inside' = {} /\ semval' = 1
    BY <1>8, <2>1 DEF Unlock, Undisturbed
  <2>3. QED
    BY <1>8, <2>1, <2>2 DEF Unlock, Undisturbed
<1>9. ASSUME NEW p \in Proc, Exit(p) PROVE Goal
  BY <1>9 DEF Exit, Undisturbed
<1>10. CASE UNCHANGED vars
  BY <1>10 DEF vars
<1>11. QED
  BY <1>1, <1>2, <1>3, <1>4, <1>5, <1>6, <1>7, <1>8, <1>9, <1>10 DEF Next

\* Two processes are never both in the section before a process ends, a set is
\* removed or an adjustment reaches the kernel's limit.
THEOREM ExclusionUntilDisturbed == Spec => []ExclusionUndisturbed
<1>1. Init => Binary
  BY DEF Init, Binary, Inside, MutualExclusion
<1>2. Binary => ExclusionUndisturbed
  BY DEF Binary, ExclusionUndisturbed
<1>3. QED
  BY <1>1, <1>2, BinaryInductive, TypeCorrect, PTL DEF Spec

-----------------------------------------------------------------------------
\* Whoever is inside gives back a token on death: after a successful lock for
\* that lock, after a failed one for the SEMAEM locks before it.
Recoverable ==
  /\ stage # "removed" => \A p \in Inside \ Tryers : semadj[p] >= 1
  /\ NeverLostByDeath

LEMMA RecoverableInductive == TypeOK /\ Recoverable /\ [Next]_vars => Recoverable'
<1> SUFFICES ASSUME TypeOK, Recoverable, [Next]_vars
             PROVE  Recoverable'
  OBVIOUS
<1> USE MutexConstants DEF TypeOK, Recoverable, NeverLostByDeath, TryersLive, Inside
<1>1. CASE CreateSet
  BY <1>1 DEF CreateSet
<1>2. CASE SignalInitialValue
  BY <1>2 DEF SignalInitialValue
<1>3. CASE Destroy
  BY <1>3 DEF Destroy
<1>4. ASSUME NEW p \in Proc, CallLock(p) PROVE Recoverable'
  BY <1>4 DEF CallLock
<1>5. ASSUME NEW p \in Proc, Acquire(p) PROVE Recoverable'
  <2>1. p \in Inside'
    BY <1>5 DEF Acquire, TakeToken
  <2>2. QED
    BY <1>5, <2>1 DEF Acquire, TakeToken
<1>6. ASSUME NEW p \in Proc, LockFails(p) PROVE Recoverable'
  <2>1. p \in Inside'
    BY <1>6 DEF LockFails
  <2>2. QED
    BY <1>6, <2>1 DEF LockFails
<1>7. ASSUME NEW p \in Proc, TryLock(p) PROVE Recoverable'
  BY <1>7 DEF TryLock, TakeToken
<1>8. ASSUME NEW p \in Proc, Unlock(p) PROVE Recoverable'
  BY <1>8 DEF Unlock
<1>9. ASSUME NEW p \in Proc, Exit(p) PROVE Recoverable'
  <2>0. CASE p \in Tryers
    BY <1>9, <2>0 DEF Exit
  <2>1. CASE p \in Inside \ Tryers /\ stage = "ready"
    <3>1. semval' >= 1
      BY <1>9, <2>1 DEF Exit
    <3>2. QED
      BY <1>9, <3>1 DEF Exit
  <2>2. CASE p \notin Tryers /\ (p \notin Inside \/ stage # "ready")
    <3>1. Inside \ {p} \subseteq Inside' /\ stage' = stage
      BY <1>9 DEF Exit
    <3>2. stage = "ready" => semval' >= semval \/ semval' >= 1
      BY <1>9 DEF Exit
    <3>3. QED
      BY <1>9, <2>2, <3>1, <3>2 DEF Exit
  <2>3. QED
    BY <2>0, <2>1, <2>2
<1>10. CASE UNCHANGED vars
  BY <1>10 DEF vars
<1>11. QED
  BY <1>1, <1>2, <1>3, <1>4, <1>5, <1>6, <1>7, <1>8, <1>9, <1>10 DEF Next

\* A process that dies holding the lock never leaves it locked: after the death
\* of any process that uses lock only, an empty section has a token.
THEOREM DeathReleases == Spec => []NeverLostByDeath
<1>1. Init => Recoverable
  BY DEF Init, Recoverable, NeverLostByDeath, Inside
<1>3. Recoverable => NeverLostByDeath
  BY DEF Recoverable, NeverLostByDeath
<1>4. QED
  BY <1>1, <1>3, RecoverableInductive, TypeCorrect, PTL DEF Spec
=============================================================================
