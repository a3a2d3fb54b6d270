-------------------------------- MODULE Period --------------------------------
(***************************************************************************)
(* The scan period (period/period.c, with POSIX timers): the scan of a     *)
(* process sleeps on a condition variable until the timer has expired,     *)
(* and every expiration runs timer_sighandler in a thread of its own.      *)
(* The processes are those started, one after the other or at once, under  *)
(* one module name: they share the block that holds first_scan and the     *)
(* period, and the name itself, which state_init gives to one of them      *)
(* after period_init (plc.c:457 and 464).                                      *)
(***************************************************************************)
EXTENDS Integers, FiniteSets

CONSTANTS Proc,              \* processes started under the name
          MaxTicks,          \* bound: expirations under way or counted at once
          MaxTimerSigcount,  \* the largest _timer_sigcount: 2^32 - 1
          MaxStarts          \* bound: starts of a process
NoProc == "none"
Thread == 1 .. MaxTicks      \* the k-th expiration has a thread
Main == 0
Nobody == -1
ASSUME PeriodAssumption ==
  /\ NoProc \notin Proc
  /\ MaxTicks \in Nat /\ MaxTimerSigcount \in Nat \ {0} /\ MaxStarts \in Nat

VARIABLES block,     \* period_shm_: exists, first_scan, and whether there is a period
          owner,     \* the process that has the name
          pc,        \* where the process stands
          armed,     \* its timer is set to a period
          sigcount,  \* its _timer_sigcount
          holder,    \* of its _mutex: Main, a thread, or Nobody
          tpc,       \* where its timer threads stand
          tmp,       \* _timer_sigcount as last read by the main thread or another
          consumed,  \* history: scans that took an expiration off the counter
          alone,     \* history: no other process ran at any time of its life
          starts     \* bound
rest == <<alone, starts>>
proc == <<pc, armed, sigcount, holder, tpc, tmp, consumed>>
vars == <<block, owner, proc, rest>>

Init ==
  /\ block = [exists |-> FALSE, first_scan |-> FALSE, period |-> FALSE] /\ owner = NoProc
  /\ pc = [p \in Proc |-> "off"] /\ armed = [p \in Proc |-> FALSE]
  /\ sigcount = [p \in Proc |-> 0] /\ holder = [p \in Proc |-> Nobody]
  /\ tpc = [p \in Proc |-> [t \in Thread |-> "none"]]
  /\ tmp = [p \in Proc |-> [x \in {Main} \cup Thread |-> 0]]
  /\ consumed = [p \in Proc |-> 0]
  /\ alone = [p \in Proc |-> TRUE] /\ starts = 0

Goto(p, l) == pc' = [pc EXCEPT ![p] = l]
ThreadTo(p, t, l) == tpc' = [tpc EXCEPT ![p][t] = l]
Lock(p, x) == holder[p] = Nobody /\ holder' = [holder EXCEPT ![p] = x]
Unlock(p) == holder' = [holder EXCEPT ![p] = Nobody]
-----------------------------------------------------------------------------
(***************************************************************************)
(* The life of a process.                                                  *)
(***************************************************************************)
KeepsFlag(period) ==                       \* mutant: a found block is left as it is
  block' = IF block.exists THEN block
           ELSE [exists |-> TRUE, first_scan |-> TRUE, period |-> period]
\* The block of an earlier process is used again, its period too.
OpenBlock(period) ==
  block' = [exists |-> TRUE, first_scan |-> TRUE,
            period |-> IF block.exists THEN block.period ELSE period]
Gone == {"off", "hung"}
\* The memory of a process that is gone, and of one that starts.
Fresh(p) ==
  /\ armed' = [armed EXCEPT ![p] = FALSE] /\ holder' = [holder EXCEPT ![p] = Nobody]
  /\ sigcount' = [sigcount EXCEPT ![p] = 0] /\ consumed' = [consumed EXCEPT ![p] = 0]
  /\ tpc' = [tpc EXCEPT ![p] = [t \in Thread |-> "none"]]
  /\ tmp' = [tmp EXCEPT ![p] = [x \in {Main} \cup Thread |-> 0]]
\* period_init: the timer is made, and not set.
PeriodInit(p) ==
  /\ pc[p] = "off" /\ starts < MaxStarts /\ starts' = starts + 1
  /\ \E period \in BOOLEAN : OpenBlock(period)
  /\ Goto(p, "init") /\ Fresh(p)
  /\ LET others == {r \in Proc \ {p} : pc[r] \notin Gone}
     IN alone' = [r \in Proc |-> IF r = p THEN others = {} ELSE alone[r] /\ r \notin others]
  /\ UNCHANGED owner

Exit(p, l) == Goto(p, l) /\ Fresh(p) /\ UNCHANGED <<block, rest>>
NameTaken(p) == \E r \in Proc \ {p} : owner = r /\ pc[r] \notin Gone
\* state_init: the name is free, or its owner is gone, or --PLCforce-init takes
\* it; otherwise plc_init gives up, and plc_done undoes period_init.
StateInit(p) ==
  /\ pc[p] = "init"
  /\ \/ /\ owner' = p /\ Goto(p, "idle")
        /\ UNCHANGED <<block, armed, sigcount, holder, tpc, tmp, consumed, rest>>
     \/ /\ NameTaken(p)
        /\ UNCHANGED owner /\ Exit(p, "off")

\* plc_done, called by the module or by the handler of SIGTERM, which finds
\* the scan anywhere.  To destroy a condition variable somebody waits on is
\* undefined: it is destroyed, or (as glibc does it) waits for him to leave,
\* who is the interrupted scan itself.
Up(p) == pc[p] \notin {"off", "init", "hung"}
Done(p) ==
  /\ Up(p)
  /\ owner' = IF owner = p THEN NoProc ELSE owner
  /\ \/ Exit(p, "off")
     \/ pc[p] = "asleep" /\ Exit(p, "hung")
\* A kill: the name is left to the next state_init.
Kill(p) == pc[p] # "off" /\ Exit(p, "off") /\ UNCHANGED owner
-----------------------------------------------------------------------------
(***************************************************************************)
(* period_scan_beg                                                         *)
(***************************************************************************)
\* plc_period_set: by the first scan, or by the module.
SetPeriod(p, first, period) ==
  /\ block' = [block EXCEPT !.first_scan = first, !.period = period]
  /\ armed' = [armed EXCEPT ![p] = period]
FirstScan(p) ==
  /\ pc[p] = "idle" /\ block.first_scan
  /\ SetPeriod(p, FALSE, block.period)
  /\ UNCHANGED <<owner, pc, sigcount, holder, tpc, tmp, consumed, rest>>
ChangePeriod(p, period) ==
  /\ pc[p] = "idle"
  /\ SetPeriod(p, block.first_scan, period)
  /\ UNCHANGED <<owner, pc, sigcount, holder, tpc, tmp, consumed, rest>>

\* A scan without a period returns at once, and changes nothing.
ScanLocks(p) ==
  /\ pc[p] = "idle" /\ ~block.first_scan /\ block.period
  /\ Lock(p, Main) /\ Goto(p, "test")
  /\ UNCHANGED <<block, owner, armed, sigcount, tpc, tmp, consumed, rest>>
\* pthread_cond_wait gives the mutex up and sleeps in one step, and has the
\* mutex again when it returns.
ScanSleeps(p) ==
  /\ pc[p] = "test" /\ sigcount[p] = 0
  /\ Unlock(p) /\ Goto(p, "asleep")
  /\ UNCHANGED <<block, owner, armed, sigcount, tpc, tmp, consumed, rest>>
ScanWakes(p) ==
  /\ pc[p] = "woken"
  /\ Lock(p, Main) /\ Goto(p, "test")
  /\ UNCHANGED <<block, owner, armed, sigcount, tpc, tmp, consumed, rest>>
ScanReads(p) ==
  /\ pc[p] = "test" /\ sigcount[p] > 0
  /\ tmp' = [tmp EXCEPT ![p][Main] = sigcount[p]] /\ Goto(p, "count")
  /\ UNCHANGED <<block, owner, armed, sigcount, holder, tpc, consumed, rest>>
ScanReturns(p) ==
  /\ pc[p] = "count"
  /\ sigcount' = [sigcount EXCEPT ![p] = tmp[p][Main] - 1]
  /\ consumed' = [consumed EXCEPT ![p] = @ + 1]
  /\ Unlock(p) /\ Goto(p, "idle")
  /\ UNCHANGED <<block, owner, armed, tpc, tmp, rest>>
-----------------------------------------------------------------------------
(***************************************************************************)
(* timer_sighandler, in the thread of one expiration                       *)
(***************************************************************************)
Running(p) == pc[p] \notin Gone
Expire(p, t) ==
  /\ Running(p) /\ armed[p] /\ tpc[p][t] = "none"
  /\ \A s \in Thread : s < t => tpc[p][s] # "none"
  /\ Cardinality({x \in Proc \X Thread : tpc[x[1]][x[2]] # "none"}) < MaxTicks
  /\ ThreadTo(p, t, "lock")
  /\ UNCHANGED <<block, owner, pc, armed, sigcount, holder, tmp, consumed, rest>>
NoThreadLock(p, t) ==                      \* mutant: the handler does not lock
  /\ Running(p) /\ tpc[p][t] = "lock"
  /\ tmp' = [tmp EXCEPT ![p][t] = sigcount[p]]
  /\ ThreadTo(p, t, "add")
  /\ UNCHANGED <<block, owner, pc, armed, sigcount, holder, consumed, rest>>
ThreadLocks(p, t) ==
  /\ Running(p) /\ tpc[p][t] = "lock"
  /\ Lock(p, t)
  /\ tmp' = [tmp EXCEPT ![p][t] = sigcount[p]]
  /\ ThreadTo(p, t, "add")
  /\ UNCHANGED <<block, owner, pc, armed, sigcount, consumed, rest>>
AddsAlways(p, t) ==                        \* mutant: the counter is not kept from wrapping
  /\ Running(p) /\ tpc[p][t] = "add"
  /\ sigcount' = [sigcount EXCEPT ![p] = tmp[p][t] + 1]
  /\ ThreadTo(p, t, "signal")
  /\ UNCHANGED <<block, owner, pc, armed, holder, tmp, consumed, rest>>
ThreadAdds(p, t) ==
  /\ Running(p) /\ tpc[p][t] = "add"
  /\ sigcount' = [sigcount EXCEPT ![p] =
                    IF tmp[p][t] # MaxTimerSigcount THEN tmp[p][t] + 1 ELSE @]
  /\ ThreadTo(p, t, "signal")
  /\ UNCHANGED <<block, owner, pc, armed, holder, tmp, consumed, rest>>
SignalsLate(p, t) ==                       \* mutant: a signal only for the first of several
  /\ Running(p) /\ tpc[p][t] = "signal"
  /\ pc' = IF pc[p] = "asleep" /\ sigcount[p] > 1 THEN [pc EXCEPT ![p] = "woken"] ELSE pc
  /\ Unlock(p) /\ ThreadTo(p, t, "done")
  /\ UNCHANGED <<block, owner, armed, sigcount, tmp, consumed, rest>>
\* A signal nobody waits for is lost.
ThreadSignals(p, t) ==
  /\ Running(p) /\ tpc[p][t] = "signal"
  /\ pc' = IF pc[p] = "asleep" THEN [pc EXCEPT ![p] = "woken"] ELSE pc
  /\ Unlock(p) /\ ThreadTo(p, t, "done")
  /\ UNCHANGED <<block, owner, armed, sigcount, tmp, consumed, rest>>

ScanStep(p) == ScanLocks(p) \/ ScanSleeps(p) \/ ScanWakes(p) \/ ScanReads(p) \/ ScanReturns(p)
ThreadStep(p, t) == ThreadLocks(p, t) \/ ThreadAdds(p, t) \/ ThreadSignals(p, t)
Next ==
  \E p \in Proc :
    \/ PeriodInit(p) \/ StateInit(p) \/ Done(p) \/ Kill(p)
    \/ FirstScan(p) \/ ScanStep(p)
    \/ \E period \in BOOLEAN : ChangePeriod(p, period)
    \/ \E t \in Thread : Expire(p, t) \/ ThreadStep(p, t)
\* The threads of a process run, and so does a scan that is not asleep.
Fairness == \A p \in Proc : /\ WF_vars(ScanSleeps(p) \/ ScanReads(p) \/ ScanReturns(p))
                            /\ SF_vars(ScanWakes(p))
                            /\ \A t \in Thread : WF_vars(ThreadAdds(p, t) \/ ThreadSignals(p, t))
Spec == Init /\ [][Next]_vars /\ Fairness
-----------------------------------------------------------------------------
\* Types of the state.
TypeOK ==
  /\ block \in [exists : BOOLEAN, first_scan : BOOLEAN, period : BOOLEAN]
  /\ owner \in Proc \cup {NoProc}
  /\ pc \in [Proc -> {"off", "init", "hung", "idle", "test", "asleep", "woken", "count"}]
  /\ armed \in [Proc -> BOOLEAN] /\ sigcount \in [Proc -> 0 .. MaxTimerSigcount]
  /\ holder \in [Proc -> {Nobody, Main} \cup Thread]
  /\ tpc \in [Proc -> [Thread -> {"none", "lock", "add", "signal", "done"}]]

\* No scan goes on that no expiration stands for: the scans taken off the
\* counter and the ones still in it are no more than the expirations counted,
\* whatever the timer's threads and the scan do at once (period.c:234 and 528).
NoScanTooMany ==
  \A p \in Proc : Running(p) =>
    consumed[p] + sigcount[p]
      <= Cardinality({t \in Thread : tpc[p][t] \in {"signal", "done"}})

\* A scan that sleeps has a timer that will wake it, as long as no other
\* process of the name ran beside it: first_scan stands for the timer of the
\* process that scans, although the block outlives the processes (period.c:342 and 464).
SleeperHasTimer == \A p \in Proc : pc[p] = "asleep" /\ alone[p] => armed[p]

\* No wake-up is lost: a scan that sleeps although expirations are counted
\* goes on, unless its process ends (period.c:234-237 and 520).
SleeperWakes ==
  \A p \in Proc : (pc[p] = "asleep" /\ sigcount[p] > 0) ~> pc[p] # "asleep"
=============================================================================
