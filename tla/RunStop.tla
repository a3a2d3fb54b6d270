------------------------------ MODULE RunStop -------------------------------
(***************************************************************************)
(* The state library, src/lib/state/state.c: how a process becomes a       *)
(* module of the PLC and stops being one, the RUN/STOP place that lets it  *)
(* begin a scan, and the calls by which initialised processes run, stop    *)
(* and shut down one another by name.                                      *)
(*                                                                         *)
(* Each action is what one cmm call, place call, semop or kill does: they  *)
(* are atomic, and anything may happen between two of them.                *)
(***************************************************************************)
EXTENDS Integers, FiniteSets

CONSTANTS Proc,         \* processes; each lives once, and pids are not reused
          Name,         \* module names
          Slot,         \* room for state blocks in the cmm, in the order of its list
          PlaceCounts,  \* how many places the PLC may have been set up with
          SEMVMX,       \* most tokens of a place
          MaxCalls,     \* bound on the calls of a run
          MaxDisturbed  \* and on when to call in a run that is no longer Calm

PLC == "PLC"            \* the MatPLC wide run/stop mode
Shared == 0             \* its place, first of the free ones (state_setup)
NoSlot == 0
NoPid == "none"         \* 0: what the memset of a new block leaves as the pid
NoName == "no name"

ASSUME ConstantsAssumption ==
  /\ Slot \subseteq Nat \ {0}
  /\ PlaceCounts \subseteq Nat \ {0}
  /\ NoPid \notin Proc /\ PLC \notin Name /\ NoName \notin Name
  /\ IsFiniteSet(Proc) /\ SEMVMX \in Nat /\ SEMVMX >= Cardinality(Proc)
  /\ MaxCalls \in Nat /\ MaxDisturbed \in Nat

VARIABLES place_count,  \* synch_shm_->place_count
          in_use,       \* places_in_use(synch_shm_): the places that are taken
          tokens,       \* semaphore of each place
          block,        \* memory of the state blocks; the used ones are in the cmm list
          pc, mod,      \* each process: where it is, and its own static variables
          call,         \* the call it is in: its argument and local variables
          calls,        \* calls made so far
          hist,         \* history: what happened that a property must know of
          last          \* history: the mode last set without a contradicting call
vars == <<place_count, in_use, tokens, block, pc, mod, call, calls, hist, last>>

Place == 0 .. place_count - 1

InInit == {"check", "force", "alloc", "pid", "store", "mode", "activate", "undo"}
InDone == {"del_place", "del_block"}
InCall == {"look", "test", "post", "take", "kill", "sweep"}
Up == {"ready"} \cup InCall     \* state_fully_initialized

Alive(p) == pc[p] \notin {"off", "gone"}
HasPlace(p) == pc[p] \in {"store", "mode", "activate", "del_place"} \cup Up
Live(n) == {p \in Proc : pc[p] \in Up /\ mod[p].name = n}

NoModule == [name |-> NoName, shm |-> NoSlot, place |-> Shared]
NoCall == [op |-> "none", name |-> NoName, shm |-> NoSlot, place |-> Shared]
EmptyBlock == [used |-> FALSE, name |-> NoName, pid |-> NoPid, place |-> Shared]
NoModes == [k \in Name \cup {PLC} |-> "none"]

Init ==
  /\ place_count \in PlaceCounts
  /\ in_use = {Shared}
  /\ tokens = [i \in Place |-> 0]
  /\ block = [s \in Slot |-> EmptyBlock]
  /\ pc = [p \in Proc |-> "off"]
  /\ mod = [p \in Proc |-> NoModule]
  /\ call = [p \in Proc |-> NoCall]
  /\ calls = 0
  /\ hist = [serial |-> TRUE, died |-> FALSE, freed |-> FALSE]
  /\ last = [NoModes EXCEPT ![PLC] = "stop"]

AnyBlock(n) == {s \in Slot : block[s].used}          \* mutant: the name is not compared
\* cmm_block_find: the first block of that name, or none.
Named(n) == {s \in Slot : block[s].used /\ block[s].name = n}
FindIn(S) == IF S = {} THEN NoSlot ELSE CHOOSE s \in S : \A t \in S : s <= t
Find(n) == FindIn(Named(n))

\* cmm_block_free: the header becomes that of a free block, the bytes stay.
Freed(s) == [block EXCEPT ![s].used = FALSE, ![s].name = NoName]

\* Nobody died, no block was freed under a process, and no process came or
\* went while another did or while a call was under way.
Calm == hist.serial /\ ~hist.died /\ ~hist.freed
Note(modes) == last' = IF Calm' THEN modes ELSE NoModes

\* No process is inside state_init or state_done, or (Quiet) inside a call.
Settled(S) == \A q \in S : pc[q] \notin InInit \cup InDone
Quiet(S) == \A q \in S : pc[q] \notin InInit \cup InDone \cup InCall

Go(p, where) == pc' = [pc EXCEPT ![p] = where]
End(p) == Go(p, "gone") /\ mod' = [mod EXCEPT ![p] = NoModule]
OtherUnchanged == UNCHANGED <<place_count, calls>>
-----------------------------------------------------------------------------
(***************************************************************************)
(* state_init                                                              *)
(***************************************************************************)
Start(p, n) ==
  /\ pc[p] = "off"
  /\ mod' = [mod EXCEPT ![p] = [name |-> n, shm |-> Find(n), place |-> Shared]]
  /\ Go(p, IF Find(n) = NoSlot THEN "alloc" ELSE "check")
  /\ hist' = [hist EXCEPT !.serial = @ /\ Quiet(Proc)]
  /\ Note(last)
  /\ UNCHANGED <<in_use, tokens, block, call>> /\ OtherUnchanged

\* kill(pid, 0) on the pid in the block; 0 is the process group, which exists.
Exists(pid) == pid = NoPid \/ Alive(pid)
Check(p, force_init) ==
  /\ pc[p] = "check"
  /\ IF Exists(block[mod[p].shm].pid) /\ ~force_init THEN End(p)
     ELSE /\ Go(p, IF Exists(block[mod[p].shm].pid) THEN "force" ELSE "alloc")
          /\ UNCHANGED mod
  /\ UNCHANGED <<in_use, tokens, block, call, hist, last>> /\ OtherUnchanged

ForceInit(p) ==
  /\ pc[p] = "force"
  /\ block' = Freed(mod[p].shm)
  /\ IF block[mod[p].shm].used THEN Go(p, "alloc") /\ UNCHANGED mod ELSE End(p)
  /\ hist' = [hist EXCEPT !.freed = TRUE]
  /\ Note(last)
  /\ UNCHANGED <<in_use, tokens, call>> /\ OtherUnchanged

Alloc(p) ==
  /\ pc[p] = "alloc"
  /\ \/ \E s \in Slot : /\ ~block[s].used
                        /\ block' = [block EXCEPT ![s] = [used |-> TRUE, name |-> mod[p].name,
                                                          pid |-> NoPid, place |-> Shared]]
                        /\ mod' = [mod EXCEPT ![p].shm = s]
                        /\ Go(p, "pid")
     \/ /\ \A s \in Slot : block[s].used
        /\ End(p) /\ UNCHANGED block
  /\ UNCHANGED <<in_use, tokens, call, hist, last>> /\ OtherUnchanged

\* plc_synchplace_add: the first place not in use.  The pid is stored before it;
\* nothing the two touch is read together elsewhere.
AnyPlace == Place \ {Shared}                        \* mutant: places_in_use is not looked at
FreePlaces == Place \ in_use
SetPidAddPlace(p) ==
  /\ pc[p] = "pid"
  /\ block' = [block EXCEPT ![mod[p].shm].pid = p]
  /\ IF FreePlaces = {}
     THEN Go(p, "undo") /\ UNCHANGED <<in_use, mod>>
     ELSE LET i == CHOOSE i \in FreePlaces : \A j \in FreePlaces : i <= j
          IN /\ in_use' = in_use \cup {i}
             /\ mod' = [mod EXCEPT ![p].place = i]
             /\ Go(p, "store")
  /\ UNCHANGED <<tokens, call, hist, last>> /\ OtherUnchanged

\* error_exit_1
Undo(p) ==
  /\ pc[p] = "undo"
  /\ block' = Freed(mod[p].shm)
  /\ End(p)
  /\ UNCHANGED <<in_use, tokens, call, hist, last>> /\ OtherUnchanged

\* The place into the block and, with the shared one, into the scan_beg synchpt.
Store(p) ==
  /\ pc[p] = "store"
  /\ block' = [block EXCEPT ![mod[p].shm].place = mod[p].place]
  /\ Go(p, "mode")
  /\ UNCHANGED <<in_use, tokens, mod, call, hist, last>> /\ OtherUnchanged

\* activate_run_mode(place): get_runstop_mode, then a token if there is none.
ModeAfterInit(p) == last' = IF Calm THEN [last EXCEPT ![mod[p].name] = "run"] ELSE NoModes
Mode(p) ==
  /\ pc[p] = "mode"
  /\ Go(p, IF tokens[mod[p].place] > 0 THEN "ready" ELSE "activate")
  /\ IF tokens[mod[p].place] > 0 THEN ModeAfterInit(p) ELSE UNCHANGED last
  /\ UNCHANGED <<in_use, tokens, block, mod, call, hist>> /\ OtherUnchanged

Activate(p) ==
  /\ pc[p] = "activate"
  /\ tokens' = [tokens EXCEPT ![mod[p].place] = @ + 1]
  /\ Go(p, "ready") /\ ModeAfterInit(p)
  /\ UNCHANGED <<in_use, block, mod, call, hist>> /\ OtherUnchanged
-----------------------------------------------------------------------------
(***************************************************************************)
(* Scans.  The scan_beg synchpt takes a token from the module's place and  *)
(* from the shared one and gives both back in the same semop, so that a    *)
(* scan leaves no trace in the state; it waits unless it CanBegin.         *)
(***************************************************************************)
CanBegin(p) == pc[p] = "ready" /\ tokens[mod[p].place] > 0 /\ tokens[Shared] > 0
-----------------------------------------------------------------------------
(***************************************************************************)
(* state_done, from plc_done: by the module itself or on SIGTERM.          *)
(***************************************************************************)
Done(p) ==
  /\ pc[p] = "ready"
  /\ Go(p, "del_place")
  /\ hist' = [hist EXCEPT !.serial = @ /\ Quiet(Proc)]
  /\ Note([last EXCEPT ![mod[p].name] = "none"])
  /\ UNCHANGED <<in_use, tokens, block, mod, call>> /\ OtherUnchanged

\* plc_synchplace_del of the place in the block; its tokens stay.
DelPlace(p) ==
  /\ pc[p] = "del_place"
  /\ in_use' = in_use \ {block[mod[p].shm].place}
  /\ Go(p, "del_block")
  /\ UNCHANGED <<tokens, block, mod, call, hist, last>> /\ OtherUnchanged

DelBlock(p) ==
  /\ pc[p] = "del_block"
  /\ block' = Freed(mod[p].shm)
  /\ End(p)
  /\ UNCHANGED <<in_use, tokens, call, hist, last>> /\ OtherUnchanged

\* A process dies where it stands and cleans nothing up (bound: one does).
Crash(p) ==
  /\ Alive(p) /\ ~hist.died
  /\ End(p) /\ call' = [call EXCEPT ![p] = NoCall]
  /\ hist' = [hist EXCEPT !.died = TRUE]
  /\ Note(last)
  /\ UNCHANGED <<in_use, tokens, block>> /\ OtherUnchanged
-----------------------------------------------------------------------------
(***************************************************************************)
(* plc_module_run, plc_module_stop, plc_module_shutdown, plc_run, plc_stop *)
(***************************************************************************)
Against(op) == IF op = "run" THEN {"stop"} ELSE IF op = "stop" THEN {"run"} ELSE {}

\* The call finds the block; a run or a stop contradicts what was set before.
Call(p, op, key) ==
  /\ pc[p] = "ready"
  /\ calls < MaxCalls /\ (Calm \/ calls < MaxDisturbed)
  /\ calls' = calls + 1
  /\ \/ /\ key = PLC
        /\ call' = [call EXCEPT ![p] = [op |-> op, name |-> PLC, shm |-> NoSlot, place |-> Shared]]
        /\ Go(p, IF op = "run" THEN "test" ELSE "take")
     \/ /\ key # PLC /\ Find(key) # NoSlot
        /\ call' = [call EXCEPT ![p] = [op |-> op, name |-> key, shm |-> Find(key), place |-> Shared]]
        /\ Go(p, IF op = "shutdown" THEN "kill" ELSE "look")
  /\ hist' = [hist EXCEPT !.serial = @ /\ Settled(Proc)]
  /\ Note([last EXCEPT ![key] = IF @ \in Against(op) THEN "none" ELSE @])
  /\ UNCHANGED <<place_count, in_use, tokens, block, mod>>

\* The argument of activate_..._mode(module_state->run_stop_place).
Look(p) ==
  /\ pc[p] = "look"
  /\ call' = [call EXCEPT ![p].place = block[call[p].shm].place, ![p].shm = NoSlot]
  /\ Go(p, IF call[p].op = "run" THEN "test" ELSE "take")
  /\ UNCHANGED <<in_use, tokens, block, mod, hist, last>> /\ OtherUnchanged

\* The mode is set, unless a contradicting call is under way.
Return(p) ==
  /\ Go(p, "ready")
  /\ call' = [call EXCEPT ![p] = NoCall]
Uncontested(p) == \A q \in Proc : /\ q # p /\ pc[q] \in InCall /\ call[q].name = call[p].name
                                  => call[q].op \notin Against(call[p].op)
NoteMode(p) ==
  last' = IF ~Calm THEN NoModes
          ELSE [last EXCEPT ![call[p].name] = IF Uncontested(p) THEN call[p].op ELSE "none"]

TestNot(p) ==                                    \* mutant: a token every time
  /\ pc[p] = "test"
  /\ Go(p, "post")
  /\ UNCHANGED <<in_use, tokens, block, mod, call, hist, last>> /\ OtherUnchanged

\* activate_run_mode: get_runstop_mode, and later a token.
Test(p) ==
  /\ pc[p] = "test"
  /\ IF tokens[call[p].place] > 0 THEN Return(p) /\ NoteMode(p)
     ELSE Go(p, "post") /\ UNCHANGED <<call, last>>
  /\ UNCHANGED <<in_use, tokens, block, mod, hist>> /\ OtherUnchanged

Post(p) ==
  /\ pc[p] = "post"
  /\ tokens' = [tokens EXCEPT ![call[p].place] = @ + 1]
  /\ Return(p) /\ NoteMode(p)
  /\ UNCHANGED <<in_use, block, mod, hist>> /\ OtherUnchanged

\* activate_stop_mode: one token at a time until there is none.
TakeOnce(p) ==                                   \* mutant: no loop
  /\ pc[p] = "take"
  /\ tokens' = [tokens EXCEPT ![call[p].place] = IF @ > 0 THEN @ - 1 ELSE @]
  /\ Return(p) /\ NoteMode(p)
  /\ UNCHANGED <<in_use, block, mod, hist>> /\ OtherUnchanged
Take(p) ==
  /\ pc[p] = "take"
  /\ IF tokens[call[p].place] > 0
     THEN /\ tokens' = [tokens EXCEPT ![call[p].place] = @ - 1]
          /\ UNCHANGED <<pc, call, last>>
     ELSE Return(p) /\ NoteMode(p) /\ UNCHANGED tokens
  /\ UNCHANGED <<in_use, block, mod, hist>> /\ OtherUnchanged

(***************************************************************************)
(* SIGTERM.  The handler that calls plc_done is there from the end of      *)
(* plc_init to the start of plc_done; before and after it a SIGTERM kills. *)
(***************************************************************************)
Signalled(q, where) ==
  IF ~Alive(q) THEN where[q] ELSE IF pc[q] \in Up THEN "del_place" ELSE "gone"
Kill(p) ==
  LET pid == block[call[p].shm].pid
      hit == IF pid = NoPid THEN {q \in Proc : Alive(q)} ELSE {pid} \cap {q \in Proc : Alive(q)}
      back == [pc EXCEPT ![p] = "ready"]
  IN /\ pc[p] = "kill"
     /\ IF hit = {}
        THEN Go(p, "sweep") /\ UNCHANGED <<mod, call, hist, last>>
        ELSE /\ pc' = [q \in Proc |-> IF q \in hit THEN Signalled(q, back) ELSE back[q]]
             /\ mod' = [q \in Proc |-> IF pc'[q] = "gone" THEN NoModule ELSE mod[q]]
             /\ call' = [q \in Proc |-> IF q = p \/ q \in hit THEN NoCall ELSE call[q]]
             /\ hist' = [hist EXCEPT !.serial = @ /\ pid # NoPid /\ Quiet(Proc \ {p}),
                                     !.died = @ \/ \E q \in hit : pc[q] \notin Up]
             /\ Note([k \in DOMAIN last |->
                           IF \E q \in hit : mod[q].name = k THEN "none" ELSE last[k]])
     /\ UNCHANGED <<in_use, tokens, block>> /\ OtherUnchanged

\* ESRCH: the block of a process that is no more.
Sweep(p) ==
  /\ pc[p] = "sweep"
  /\ block' = Freed(call[p].shm)
  /\ Return(p)
  /\ hist' = [hist EXCEPT !.freed = TRUE]
  /\ Note(last)
  /\ UNCHANGED <<in_use, tokens, mod>> /\ OtherUnchanged

Step(p) ==
  \/ \E n \in Name : Start(p, n)
  \/ \E force_init \in BOOLEAN : Check(p, force_init)
  \/ ForceInit(p) \/ Alloc(p) \/ SetPidAddPlace(p) \/ Undo(p)
  \/ Store(p) \/ Mode(p) \/ Activate(p)
  \/ Done(p) \/ DelPlace(p) \/ DelBlock(p) \/ Crash(p)
  \/ \E op \in {"run", "stop"} : Call(p, op, PLC)
  \/ \E op \in {"run", "stop", "shutdown"}, n \in Name : Call(p, op, n)
  \/ Look(p) \/ Test(p) \/ Post(p) \/ Take(p) \/ Kill(p) \/ Sweep(p)
Next == \E p \in Proc : Step(p)
Spec == Init /\ [][Next]_vars
-----------------------------------------------------------------------------
\* The variables hold what the C variables they stand for can hold.
TypeOK ==
  /\ place_count \in PlaceCounts
  /\ in_use \subseteq Place
  /\ tokens \in [Place -> 0 .. SEMVMX]
  /\ block \in [Slot -> [used : BOOLEAN, name : Name \cup {NoName},
                         pid : Proc \cup {NoPid}, place : Place]]
  /\ pc \in [Proc -> {"off", "gone"} \cup InInit \cup InDone \cup Up]
  /\ mod \in [Proc -> [name : Name \cup {NoName}, shm : Slot \cup {NoSlot}, place : Place]]
  /\ call \in [Proc -> [op : {"none", "run", "stop", "shutdown"}, name : Name \cup {PLC, NoName},
                        shm : Slot \cup {NoSlot}, place : Place]]
  /\ calls \in 0 .. MaxCalls
  /\ hist \in [serial : BOOLEAN, died : BOOLEAN, freed : BOOLEAN]
  /\ last \in [Name \cup {PLC} -> {"none", "run", "stop"}]

\* No two processes ever wait on the same RUN/STOP place, and none on the
\* MatPLC wide one, however their starts, ends and deaths interleave; as long
\* as no block was freed under a process (force_init, or the cleanup in
\* plc_module_shutdown).
PlacesDisjoint ==
  ~hist.freed =>
    \A p \in Proc : HasPlace(p) =>
      /\ mod[p].place \in in_use \ {Shared}
      /\ \A q \in Proc : HasPlace(q) /\ q # p => mod[q].place # mod[p].place

\* activate_run_mode checks and only then adds a token, and the race "doesn't
\* matter": a place never holds more tokens than there have been processes, so
\* the semop cannot fail for want of room, whatever else happens.
TokensBounded == \A i \in Place : tokens[i] <= Cardinality({p \in Proc : pc[p] # "off"})

\* A module that was run (or has just started), in a MatPLC that was run, and
\* that no stop was called on since, can begin its scans; one that was stopped,
\* or whose MatPLC was, and that no run was called on since, cannot; however
\* the runs and stops of several processes race with each other.
ModeObeyed ==
  Calm => \A p \in Proc : pc[p] = "ready" =>
            /\ last[mod[p].name] = "run" /\ last[PLC] = "run" => CanBegin(p)
            /\ last[mod[p].name] = "stop" \/ last[PLC] = "stop" => ~CanBegin(p)

\* Nobody's RUN/STOP place changes but by a run or stop of that very name, and
\* no module is ended by a plc_module_shutdown of another name.
ActsOnNamed ==
  [][Calm => \A q \in Proc : pc[q] \in Up =>
       /\ tokens'[mod[q].place] # tokens[mod[q].place] =>
            \E p \in Proc : pc[p] \in {"post", "take"} /\ call[p].name = mod[q].name
       /\ \A p \in Proc : pc[p] = "kill" /\ pc'[p] = "ready" /\ pc'[q] = "del_place" =>
            call[p].name = mod[q].name]_vars

\* There is one block for each name ("we don't want multiple state cmm_blocks
\* under the same name"), unless two starts or ends of modules overlapped.
OneBlockPerName ==
  hist.serial => \A s, t \in Slot : /\ block[s].used /\ block[t].used
                                    /\ block[s].name = block[t].name => s = t
=============================================================================
