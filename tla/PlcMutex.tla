------------------------------ MODULE PlcMutex ------------------------------
(***************************************************************************)
(* The inter-process mutex of src/lib/misc/mutex_util.c, in its Linux      *)
(* build (PLCMUTEX_SYSV): a one-element System V semaphore set.  lock is    *)
(* semop(-1, SEM_UNDO); unlock is semop(+1) without SEM_UNDO; trylock is   *)
(* semop(-1, IPC_NOWAIT) without SEM_UNDO.  The kernel keeps, for every    *)
(* process, the adjustment (semadj) it adds to the semaphore when the      *)
(* process exits.  The gmm, the cmm and the synch library each guard their  *)
(* shared structures with one such mutex, and none of them tests what      *)
(* plcmutex_lock returns: a failed lock enters the critical section.       *)
(***************************************************************************)
EXTENDS Integers, FiniteSets

CONSTANTS
  Proc,      \* the process instances that use the mutex (a restart is a new one)
  Tryers,    \* those that may also call plcmutex_trylock
  SEMAEM,    \* kernel limit of one process's adjustment (32767 on Linux)
  SEMVMX     \* kernel limit of the semaphore's value   (32767 on Linux)

ASSUME MutexConstants ==
  /\ Tryers \subseteq Proc
  /\ SEMAEM \in Nat \ {0}
  /\ SEMVMX \in Nat \ {0}

VARIABLES
  stage,     \* of the semaphore set: "absent", "created" (value 0), "ready", "removed"
  semval,    \* value of the semaphore
  semadj,    \* [Proc -> Nat]: the adjustment applied when the process exits
  pc         \* [Proc -> where the process is with respect to the mutex]

vars == <<stage, semval, semadj, pc>>

\* "in": inside the critical section after a successful lock;
\* "barged": inside it after a lock that returned -1.
Where == {"out", "locking", "in", "barged", "dead"}
Inside == {p \in Proc : pc[p] \in {"in", "barged"}}

Init ==
  /\ stage = "absent"
  /\ semval = 0
  /\ semadj = [p \in Proc |-> 0]
  /\ pc = [p \in Proc |-> "out"]

-----------------------------------------------------------------------------
\* plcmutex_create_: semget makes the set with value 0, a semop of its own
\* makes the mutex available.  The other processes may already open it.
CreateSet ==
  /\ stage = "absent"
  /\ stage' = "created"
  /\ UNCHANGED <<semval, semadj, pc>>

SignalInitialValueTwice ==                      \* mutant: no IPC_EXCL
  /\ stage \in {"created", "ready"}
  /\ stage' = "ready"
  /\ semval' = semval + 1
  /\ UNCHANGED <<semadj, pc>>

SignalInitialValue ==
  /\ stage = "created"
  /\ stage' = "ready"
  /\ semval' = semval + 1
  /\ UNCHANGED <<semadj, pc>>

\* plcmutex_destroy: IPC_RMID, whoever may still hold or await the mutex.
Destroy ==
  /\ stage = "ready"
  /\ stage' = "removed"
  /\ UNCHANGED <<semval, semadj, pc>>

\* plcmutex_lock: the call, then its semop, which waits while the value is 0.
CallLock(p) ==
  /\ pc[p] = "out" /\ stage # "absent"
  /\ pc' = [pc EXCEPT ![p] = "locking"]
  /\ UNCHANGED <<stage, semval, semadj>>

TakeToken(p) ==
  /\ semval > 0
  /\ semval' = semval - 1
  /\ pc' = [pc EXCEPT ![p] = "in"]
  /\ UNCHANGED stage

AcquireUnlimited(p) ==                          \* mutant: no ERANGE
  /\ pc[p] = "locking" /\ stage # "removed" /\ TakeToken(p)
  /\ semadj' = [semadj EXCEPT ![p] = @ + 1]

AcquireNoUndo(p) ==                             \* mutant: sem_flg = 0
  /\ pc[p] = "locking" /\ stage # "removed" /\ TakeToken(p)
  /\ UNCHANGED semadj

Acquire(p) ==
  /\ pc[p] = "locking" /\ stage # "removed" /\ TakeToken(p)
  /\ semadj[p] < SEMAEM
  /\ semadj' = [semadj EXCEPT ![p] = @ + 1]

\* The semop fails: the set is gone (EINVAL, EIDRM), or one more undo would
\* exceed SEMAEM (ERANGE).  lock returns -1 and its callers go on regardless.
LockFails(p) ==
  /\ pc[p] = "locking"
  /\ stage = "removed" \/ (semval > 0 /\ semadj[p] = SEMAEM)
  /\ pc' = [pc EXCEPT ![p] = "barged"]
  /\ UNCHANGED <<stage, semval, semadj>>

\* plcmutex_trylock; a busy mutex (EAGAIN) or a removed one changes nothing.
TryLockAlways(p) ==                             \* mutant: EAGAIN taken for success
  /\ p \in Tryers /\ pc[p] = "out" /\ stage \in {"created", "ready"}
  /\ semval' = IF semval > 0 THEN semval - 1 ELSE semval
  /\ pc' = [pc EXCEPT ![p] = "in"]
  /\ UNCHANGED <<stage, semadj>>

TryLock(p) ==
  /\ p \in Tryers /\ pc[p] = "out" /\ stage \in {"created", "ready"}
  /\ TakeToken(p)
  /\ UNCHANGED semadj

\* plcmutex_unlock: +1, no undo; it fails silently on a removed set (EINVAL)
\* and at SEMVMX (ERANGE).
Unlock(p) ==
  /\ pc[p] \in {"in", "barged"}
  /\ semval' = IF stage # "removed" /\ semval < SEMVMX THEN semval + 1 ELSE semval
  /\ pc' = [pc EXCEPT ![p] = "out"]
  /\ UNCHANGED <<stage, semadj>>

\* The process ends, wherever it is: the kernel adds its adjustment.
Exit(p) ==
  /\ pc[p] # "dead"
  /\ LET adjusted == semval + semadj[p]
     IN  semval' = IF stage = "removed" THEN semval
                   ELSE IF adjusted > SEMVMX THEN SEMVMX ELSE adjusted
  /\ semadj' = [semadj EXCEPT ![p] = 0]
  /\ pc' = [pc EXCEPT ![p] = "dead"]
  /\ UNCHANGED stage

Next ==
  \/ CreateSet \/ SignalInitialValue \/ Destroy
  \/ \E p \in Proc : CallLock(p) \/ Acquire(p) \/ LockFails(p)
                     \/ TryLock(p) \/ Unlock(p) \/ Exit(p)

Spec == Init /\ [][Next]_vars

\* The kernel queues the waiters of a semaphore and serves every one of them,
\* critical sections are short and end, and setup does finish creating the set.
Fairness ==
  /\ WF_vars(SignalInitialValue)
  /\ \A p \in Proc : /\ SF_vars(Acquire(p))
                     /\ SF_vars(LockFails(p))
                     /\ WF_vars(Unlock(p))

FairSpec == Spec /\ Fairness

-----------------------------------------------------------------------------
TypeOK ==
  /\ stage \in {"absent", "created", "ready", "removed"}
  /\ semval \in Nat
  /\ semadj \in [Proc -> 0..SEMAEM]
  /\ pc \in [Proc -> Where]

\* Nothing has yet spoilt the count: the set exists, no process that used it
\* has ended, none has run out of adjustment.
Undisturbed ==
  /\ stage # "removed"
  /\ \A p \in Proc : pc[p] # "dead" /\ semadj[p] < SEMAEM

MutualExclusion == \A p, q \in Inside : p = q

\* What the header promises (mutex_util.h:30), a mutex between processes: while
\* the set exists, two locks that both returned 0 never overlap.  VIOLATED: the
\* unlock does not take back the lock's SEM_UNDO, so a process that ends adds
\* one to the semaphore for every lock it ever made.
PromisedExclusion ==
  stage = "ready" => \A p, q \in Proc : (pc[p] = "in" /\ pc[q] = "in") => p = q

\* What the code delivers: at most one process is in the section guarded by
\* plcmutex_lock / plcmutex_unlock until a process ends or the set is removed.
ExclusionUndisturbed == Undisturbed => MutualExclusion

\* SEM_UNDO's purpose in plcmutex_lock: whoever dies, wherever it dies, the
\* mutex is never left locked with nobody inside.  (trylock has no SEM_UNDO: the
\* death of a process that uses it may well lose the mutex.)
TryersLive == \A p \in Tryers : pc[p] # "dead"

NeverLostByDeath ==
  (TryersLive /\ stage = "ready" /\ Inside = {}) => semval >= 1

\* A process that asked for the lock gets into the section or dies, whoever else
\* dies meanwhile, unless that is a user of trylock.
LockServed ==
  \A p \in Proc : (pc[p] = "locking") ~> (pc[p] # "locking" \/ ~TryersLive)
=============================================================================
