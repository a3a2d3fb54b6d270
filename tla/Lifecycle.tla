------------------------------- MODULE Lifecycle -------------------------------
(***************************************************************************)
(* The life of a PLC: plc_setup makes the shared resources one by one and  *)
(* undoes them when a step fails, plc_shutdown attaches to what there is,  *)
(* tells the modules to end and removes the resources under them, and      *)
(* modules attach with plc_init and leave in their handler of SIGTERM.     *)
(* Every setup makes a segment of its own; the segment with the key is the *)
(* one others find, but a process keeps the one it attached to.            *)
(***************************************************************************)
EXTENDS Naturals, Sequences, FiniteSets

CONSTANTS Setup, Shutdown,   \* runs of the two commands, never two at a time
          Module,            \* module names
          MaxStarts,         \* bound: starts of a module
          MaxDeaths          \* bound: commands that are killed
NoPlc == "none"
ASSUME LifecycleAssumption ==
  /\ Setup \cap Shutdown = {} /\ Module \cap Shutdown = {} /\ NoPlc \notin Setup
  /\ MaxStarts \in Nat /\ MaxDeaths \in Nat
Command == Setup \cup Shutdown

\* What plc_setup makes, in its order: objects of the system and entries of the segment.
Obj == {"seg", "cmmMutex", "map", "mapMutex", "netMutex", "net"}
Order == <<"seg", "cmmMutex", "magic", "gmm", "map", "mapMutex", "mapKey",
           "synch", "netMutex", "net", "netKey", "state", "place", "launch">>
Item == {Order[i] : i \in 1 .. Len(Order)} \ {"launch"}

VARIABLES made,     \* of the PLC of a setup: the items that exist
          cmd,      \* where a command stands
          next,     \* index in Order of what a setup makes next
          todo,     \* what a command still has to undo
          att,      \* the PLC a shutdown or a module is attached to
          ok,       \* a shutdown met no error
          pc,       \* where a module stands
          reg,      \* of the segment of a setup: the modules that have a state block
          sig,      \* modules with a SIGTERM not yet handled
          torn,     \* history: PLCs something was removed of
          told,     \* history: running modules plc_stop_modules signalled
          starts    \* bound
command == <<made, cmd, next, todo, ok, torn>>
vars == <<command, att, pc, reg, sig, told, starts>>

Init ==
  /\ made = [s \in Setup |-> {}] /\ cmd = [p \in Command |-> "idle"]
  /\ next = [s \in Setup |-> 1] /\ todo = [p \in Command |-> <<>>]
  /\ att = [x \in Shutdown \cup Module |-> NoPlc] /\ ok = [p \in Shutdown |-> TRUE]
  /\ pc = [m \in Module |-> "off"] /\ reg = [s \in Setup |-> {}]
  /\ sig = {} /\ torn = {} /\ told = {} /\ starts = 0

Busy == \E p \in Command : cmd[p] \in {"making", "undoing"}
Owner == {s \in Setup : "seg" \in made[s]}       \* at most one: the key is exclusive
PlcOf(p) == IF p \in Setup THEN p ELSE att[p]
\* The mutex of the cmm: its lock fails, and the caller goes on, once it is removed.
Locked(s) == \E m \in Module : att[m] = s /\ pc[m] \in {"locked", "caught"}
LockTriesAgain(s) == "cmmMutex" \in made[s] /\ ~Locked(s)    \* mutant: on every error
CanLock(s) == "cmmMutex" \in made[s] => ~Locked(s)
-----------------------------------------------------------------------------
(***************************************************************************)
(* plc_setup.                                                              *)
(***************************************************************************)
BeginSetup(s) ==
  /\ cmd[s] = "idle" /\ ~Busy
  /\ cmd' = [cmd EXCEPT ![s] = "making"]
  /\ UNCHANGED <<made, next, todo, ok, torn, att, pc, reg, sig, told, starts>>

Search(i) == i \in {"gmm", "synch", "state"}     \* cmm_block_alloc, cmm_block_free

ReusesKey(i) == TRUE                    \* mutant: created without IPC_EXCL
CanCreate(i) == i = "seg" => Owner = {}
Make(s) ==
  LET i == Order[next[s]] IN
  /\ cmd[s] = "making" /\ i # "launch"
  /\ CanCreate(i)
  /\ Search(i) => CanLock(s)
  /\ made' = [made EXCEPT ![s] = @ \cup {i}] /\ next' = [next EXCEPT ![s] = @ + 1]
  /\ UNCHANGED <<cmd, todo, ok, torn, att, pc, reg, sig, told, starts>>

\* The modules plc_setup forks start with ModuleStarts, then it runs the PLC and leaves.
LaunchModules(s) ==
  /\ cmd[s] = "making" /\ Order[next[s]] = "launch"
  /\ cmd' = [cmd EXCEPT ![s] = "up"] /\ next' = [next EXCEPT ![s] = 1]
  /\ UNCHANGED <<made, todo, ok, torn, att, pc, reg, sig, told, starts>>

\* The labels of plc_setup and of the *_setup functions: what each failure undoes.
CmmShutdown == <<"cmmMutex", "seg">>
GmmShutdown == <<"map", "mapMutex", "gmm">>
SynchShutdown == <<"net", "netMutex", "synch">>
StateShutdown == <<"place", "state">>
UndoGmm == GmmShutdown \o CmmShutdown
UndoSynch == SynchShutdown \o UndoGmm
ExitTooLow(i) ==                           \* mutant: the labels are off by one
  IF i = "gmm" THEN <<>> ELSE IF i = "synch" THEN CmmShutdown ELSE UndoGmm
ErrorExit(i) ==
  CASE i = "seg"           -> <<>>
    [] i = "cmmMutex"      -> <<"seg">>
    [] i \in {"magic", "gmm"} -> CmmShutdown
    [] i = "map"           -> <<"gmm">> \o CmmShutdown
    [] i = "mapMutex"      -> <<"map", "gmm">> \o CmmShutdown
    [] i = "mapKey"        -> <<"mapMutex", "map", "gmm">> \o CmmShutdown
    [] i = "synch"         -> UndoGmm
    [] i = "netMutex"      -> <<"synch">> \o UndoGmm
    [] i = "net"           -> <<"netMutex", "synch">> \o UndoGmm
    [] i = "netKey"        -> UndoSynch
    [] i = "state"         -> UndoSynch
    [] i = "place"         -> <<"state">> \o UndoSynch
    [] OTHER               -> <<"stop">> \o StateShutdown \o UndoSynch

\* After magic, mapKey and netKey are written the init or the loading that follows may fail.
MakeFails(s) ==
  LET i == Order[next[s]] IN
  /\ cmd[s] = "making"
  /\ Search(i) => CanLock(s)
  /\ made' = [made EXCEPT ![s] = IF i \in {"magic", "mapKey", "netKey"} THEN @ \cup {i} ELSE @]
  /\ cmd' = [cmd EXCEPT ![s] = "undoing"] /\ todo' = [todo EXCEPT ![s] = ErrorExit(i)]
  /\ next' = [next EXCEPT ![s] = 1]
  /\ UNCHANGED <<ok, torn, att, pc, reg, sig, told, starts>>
-----------------------------------------------------------------------------
(***************************************************************************)
(* plc_shutdown.                                                           *)
(***************************************************************************)
CmmReady(s) == {"cmmMutex", "magic"} \subseteq made[s]
GmmReady(s) == {"gmm", "mapMutex", "mapKey", "map"} \subseteq made[s]
SynchReady(s) == {"synch", "netKey", "net", "netMutex"} \subseteq made[s]
StateReady(s) == "state" \in made[s]

\* plc_init_try stops at the first failure; the cmm it attached to is kept for what follows.
\* It is one step: only the registration of the process needs more than to look.
ShutdownSkipsMutex == <<"stop">> \o StateShutdown \o <<"net", "synch">> \o UndoGmm  \* mutant
ShutdownList == <<"stop">> \o StateShutdown \o UndoSynch
BeginShutdown(q) ==
  /\ cmd[q] = "idle" /\ ~Busy
  /\ cmd' = [cmd EXCEPT ![q] = "undoing"] /\ todo' = [todo EXCEPT ![q] = ShutdownList]
  /\ \/ \E s \in Owner :
          /\ CmmReady(s) /\ CanLock(s)
          /\ att' = [att EXCEPT ![q] = s]
          /\ \E init \in BOOLEAN :         \* TRUE: it has a state block, as a module has
               /\ init => GmmReady(s) /\ SynchReady(s) /\ StateReady(s)
               /\ ok' = [ok EXCEPT ![q] = init]
     \/ /\ ~\E s \in Owner : CmmReady(s)
        /\ ok' = [ok EXCEPT ![q] = FALSE] /\ UNCHANGED att
  /\ UNCHANGED <<made, next, torn, pc, reg, sig, told, starts>>

\* What a shutdown must find in the segment to remove an item, or to pass over it in peace.
Needs(i) ==
  CASE i = "map"      -> {"gmm", "mapKey"}
    [] i = "mapMutex" -> {"gmm"}
    [] i = "net"      -> {"synch", "netKey"}
    [] i = "netMutex" -> {"synch"}
    [] OTHER          -> {}
Reaches(p, i) ==
  LET s == PlcOf(p) IN
  s # NoPlc /\ i \in made[s] /\ (p \in Shutdown => Needs(i) \subseteq made[s])
InPeace(p, i) ==
  \/ Reaches(p, i)
  \/ PlcOf(p) # NoPlc /\ i = "place" /\ "state" \in made[PlcOf(p)]
  \/ PlcOf(p) # NoPlc /\ i \in {"map", "mapMutex", "gmm"} /\ "gmm" \notin made[PlcOf(p)]

\* The searches and the releases of blocks lock the cmm, the other removals do not.
NeedsLock(p, i) == Search(i) \/ (p \in Shutdown /\ i \in {"place", "net", "map"})

TriesAgain(p) ==                           \* mutant: a removal that failed is tried again
  todo' = [todo EXCEPT ![p] = IF InPeace(p, Head(@)) THEN Tail(@) ELSE @]
GoesOn(p) == todo' = [todo EXCEPT ![p] = Tail(@)]
Undo(p) ==
  LET i == Head(todo[p])  s == PlcOf(p) IN
  /\ cmd[p] = "undoing" /\ todo[p] # <<>> /\ i # "stop"
  /\ (s # NoPlc /\ NeedsLock(p, i)) => CanLock(s)
  /\ GoesOn(p)
  /\ made' = [x \in Setup |-> IF x = s /\ Reaches(p, i) THEN made[x] \ {i} ELSE made[x]]
  /\ torn' = IF Reaches(p, i) THEN torn \cup {s} ELSE torn
  /\ ok' = [q \in Shutdown |-> IF q = p THEN ok[q] /\ InPeace(p, i) ELSE ok[q]]
  /\ UNCHANGED <<cmd, next, att, pc, reg, sig, told, starts>>

Alive(s) == {m \in reg[s] : pc[m] # "off" /\ att[m] = s}

\* plc_stop_modules: SIGTERM to whoever has a state block; the block of a dead one is freed.
StopModules(p) ==
  LET s == PlcOf(p)  alive == IF s = NoPlc THEN {} ELSE Alive(s) IN
  /\ cmd[p] = "undoing" /\ todo[p] # <<>> /\ Head(todo[p]) = "stop"
  /\ s # NoPlc => CanLock(s)
  /\ todo' = [todo EXCEPT ![p] = Tail(@)]
  /\ sig' = sig \cup alive /\ told' = told \cup alive
  /\ reg' = [x \in Setup |-> IF x = s THEN alive ELSE reg[x]]
  /\ ok' = [q \in Shutdown |-> IF q = p THEN ok[q] /\ s # NoPlc /\ reg[s] = alive ELSE ok[q]]
  /\ UNCHANGED <<made, cmd, next, torn, att, pc, starts>>

CommandEnds(p) ==
  /\ cmd[p] = "undoing" /\ todo[p] = <<>>
  /\ cmd' = [cmd EXCEPT ![p] = IF p \in Setup THEN "failed" ELSE "ended"]
  /\ UNCHANGED <<made, next, todo, ok, torn, att, pc, reg, sig, told, starts>>

CommandDies(p) ==
  /\ cmd[p] \in {"making", "undoing"} /\ Cardinality({q \in Command : cmd[q] = "died"}) < MaxDeaths
  /\ cmd' = [cmd EXCEPT ![p] = "died"] /\ todo' = [todo EXCEPT ![p] = <<>>]
  /\ next' = [x \in Setup |-> IF x = p THEN 1 ELSE next[x]]
  /\ UNCHANGED <<made, ok, torn, att, pc, reg, sig, told, starts>>
-----------------------------------------------------------------------------
(***************************************************************************)
(* The modules: plc_init, the locks of the cmm, the handler of SIGTERM.    *)
(***************************************************************************)
Goto(m, l) == pc' = [pc EXCEPT ![m] = l]
Initialising == {"cmm", "gmm", "synch", "state", "handler"}

ModuleStarts(m) ==
  /\ pc[m] = "off" /\ starts < MaxStarts /\ Goto(m, "cmm") /\ starts' = starts + 1
  /\ UNCHANGED <<command, att, reg, sig, told>>

InitCmm(m) ==
  /\ pc[m] = "cmm" /\ Goto(m, "gmm")
  /\ \E s \in Owner : CmmReady(s) /\ att' = [att EXCEPT ![m] = s]
  /\ UNCHANGED <<command, reg, sig, told, starts>>

InitGmm(m) ==
  /\ pc[m] = "gmm" /\ CanLock(att[m]) /\ GmmReady(att[m]) /\ Goto(m, "synch")
  /\ UNCHANGED <<command, att, reg, sig, told, starts>>

InitSynch(m) ==
  /\ pc[m] = "synch" /\ CanLock(att[m]) /\ SynchReady(att[m]) /\ Goto(m, "state")
  /\ UNCHANGED <<command, att, reg, sig, told, starts>>

\* From here plc_module_shutdown_all finds the module.
StateUnasked(s) == TRUE           \* mutant: state_init does not look for the shared block
StateFound(s) == StateReady(s)
InitState(m) ==
  /\ pc[m] = "state" /\ CanLock(att[m]) /\ StateFound(att[m]) /\ Goto(m, "handler")
  /\ reg' = [reg EXCEPT ![att[m]] = @ \cup {m}]
  /\ UNCHANGED <<command, att, sig, told, starts>>

InitHandler(m) ==
  /\ pc[m] = "handler" /\ Goto(m, "up")
  /\ UNCHANGED <<command, att, reg, sig, told, starts>>

Gone(m) ==
  /\ Goto(m, "off") /\ att' = [att EXCEPT ![m] = NoPlc]
  /\ sig' = sig \ {m} /\ told' = told \ {m}

\* plc_done after a failure finds no state library to close.
InitFails(m) ==
  /\ pc[m] \in Initialising \ {"handler"} /\ Gone(m)
  /\ UNCHANGED <<command, reg, starts>>

\* plc_pt_by_name and the others after plc_init: once the mutex is gone they do not lock.
LocksCmm(m) ==
  /\ pc[m] = "up" /\ "cmmMutex" \in made[att[m]] /\ CanLock(att[m]) /\ Goto(m, "locked")
  /\ UNCHANGED <<command, att, reg, sig, told, starts>>

UnlocksCmm(m) ==
  /\ pc[m] = "locked" /\ Goto(m, "up")
  /\ UNCHANGED <<command, att, reg, sig, told, starts>>

\* Before the handler is there SIGTERM ends the process and leaves its state block.
TermKills(m) ==
  /\ m \in sig /\ pc[m] \in Initialising /\ Gone(m)
  /\ UNCHANGED <<command, reg, starts>>

TermInterrupts(m) ==
  /\ m \in sig /\ sig' = sig \ {m}
  /\ \/ pc[m] = "up" /\ Goto(m, "term")
     \/ pc[m] = "locked" /\ Goto(m, "caught")
  /\ UNCHANGED <<command, att, reg, told, starts>>

\* plc_done: state_done frees the block, which locks the cmm, then the signal is raised.
HandlerEnds(m) ==
  /\ pc[m] \in {"term", "caught"} /\ CanLock(att[m]) /\ Gone(m)
  /\ reg' = [reg EXCEPT ![att[m]] = @ \ {m}]
  /\ UNCHANGED <<command, starts>>

SomeoneTerms(m) ==
  /\ pc[m] # "off" /\ m \notin sig /\ sig' = sig \cup {m}
  /\ UNCHANGED <<command, att, pc, reg, told, starts>>

ModuleDies(m) ==
  /\ pc[m] # "off" /\ Gone(m)
  /\ UNCHANGED <<command, reg, starts>>
-----------------------------------------------------------------------------
CommandStep(p) ==
  \/ p \in Setup /\ (Make(p) \/ LaunchModules(p) \/ MakeFails(p))
  \/ Undo(p) \/ StopModules(p) \/ CommandEnds(p)
ModuleStep(m) ==
  \/ InitCmm(m) \/ InitGmm(m) \/ InitSynch(m) \/ InitState(m) \/ InitHandler(m)
  \/ InitFails(m) \/ UnlocksCmm(m) \/ TermKills(m) \/ TermInterrupts(m) \/ HandlerEnds(m)
Next ==
  \/ \E s \in Setup : BeginSetup(s)
  \/ \E q \in Shutdown : BeginShutdown(q)
  \/ \E p \in Command : CommandStep(p) \/ CommandDies(p)
  \/ \E m \in Module : \/ ModuleStarts(m) \/ LocksCmm(m) \/ SomeoneTerms(m) \/ ModuleDies(m)
                       \/ ModuleStep(m)

\* A process runs until its system call blocks, and semop serves those who wait for a
\* semaphore in turn; nobody must start, lock, kill or die.
Fairness ==
  /\ \A p \in Command : SF_vars(CommandStep(p))
  /\ \A m \in Module : /\ WF_vars(ModuleStep(m)) /\ SF_vars(HandlerEnds(m))
                       /\ WF_vars(TermKills(m) \/ TermInterrupts(m))
Spec == Init /\ [][Next]_vars /\ Fairness
-----------------------------------------------------------------------------
\* The variables have their types; one PLC at most has the key.
TypeOK ==
  /\ made \in [Setup -> SUBSET Item]
  /\ cmd \in [Command -> {"idle", "making", "undoing", "up", "failed", "ended", "died"}]
  /\ next \in [Setup -> 1 .. Len(Order)] /\ \A p \in Command : Len(todo[p]) <= Len(ShutdownList)
  /\ att \in [Shutdown \cup Module -> Setup \cup {NoPlc}]
  /\ ok \in [Shutdown -> BOOLEAN] /\ reg \in [Setup -> SUBSET Module]
  /\ pc \in [Module -> Initialising \cup {"off", "up", "locked", "term", "caught"}]
  /\ \A m \in Module : pc[m] \notin {"off", "cmm"} => att[m] # NoPlc
  /\ sig \subseteq Module /\ told \subseteq Module /\ torn \subseteq Setup
  /\ \A s, t \in Owner : s = t

\* "either setup all the memory areas and semaphores correctly or not do anything at
\* all": after a plc_setup that failed, at whatever step, no object of it is left.
AllOrNothing == \A s \in Setup : cmd[s] = "failed" => made[s] \cap Obj = {}

\* A plc_shutdown that reports success has removed every object of its PLC, also when
\* the setup died half way or modules did.
HonestShutdown ==
  \A q \in Shutdown : cmd[q] = "ended" /\ ok[q] => made[att[q]] \cap Obj = {}

\* A module plc_init accepted has every object of its PLC until a removal has begun.
WholeForModules ==
  \A m \in Module : pc[m] \in {"up", "locked"} /\ att[m] \notin torn
                      => Obj \cup {"state"} \subseteq made[att[m]]

Caught == \E m \in Module : pc[m] = "caught"

\* Setup and shutdown come to an end, and the modules a shutdown signalled leave even
\* with the PLC removed under them, unless one is caught holding the lock of the cmm.
CommandsEnd == Busy ~> ~Busy \/ Caught
ToldModulesGo == \A m \in Module : m \in told ~> m \notin told \/ Caught

\* plc.c:471: "setup the TERM signal interrupt handler so we cleanup correctly when
\* asked to shutdown": a module the shutdown signalled cleans up and leaves.
HandlerCleansUp == \A m \in Module : m \in told ~> m \notin told

\* plc.c:512: plc_shutdown is "to shutdown a partially setup" PLC: when it has ended
\* the key is free, so that the PLC can be set up again.
ShutdownFreesKey == [][\A q \in Shutdown : cmd[q] # "ended" /\ cmd'[q] = "ended" => Owner' = {}]_vars
=============================================================================
