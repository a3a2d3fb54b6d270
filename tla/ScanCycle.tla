----------------------------- MODULE ScanCycle -----------------------------
(***************************************************************************)
(* The global scan cycle: how src/lib/synch/synch_setup.c turns the synch  *)
(* tables of the configuration into a Petri net, and what the modules then *)
(* do with it in plc_scan_beg and plc_scan_end, while some of them are     *)
(* stopped, die and are started again.  That a synchpt does what its       *)
(* transition does is SynchPoint's matter, the RUN/STOP places are         *)
(* RunStop's; here they are one set of what is halted.                     *)
(***************************************************************************)
EXTENDS Integers, SequencesExt

CONSTANTS Module,    \* names of modules
          Name,      \* names of places and transitions in the complex tables
          MatPLC,    \* stands for all of them in the set of the halted
          Config,    \* the configurations matplc.conf may hold
          SemMax,    \* PLCSYNCHSEMVMX, most tokens in a place
          DeathsMax  \* bound: how many modules may die

ASSUME ScanAssumption ==
  MatPLC \notin Module /\ SemMax \in Nat \ {0} /\ DeathsMax \in Nat /\ IsFiniteSet(Module)

(***************************************************************************)
(* A configuration: the rows of its tables.  The parser takes arrows with  *)
(* weights up to SYNCH_ARCS_MAX_WEIGHT and tokens up to                    *)
(* SYNCH_PLACES_MAX_TOKEN, which are SemMax; an arrow it refuses has       *)
(* weight -1.  A row of synch_start lists modules; beg and end are the     *)
(* scan_beg and scan_end of the modules that set them.  A name is a tuple, *)
(* the name of a module with a suffix if it has one.                       *)
(* turns, of no table, are the modules it is to run one after the other.   *)
(***************************************************************************)
ASSUME TablesAssumption ==
  \A c \in Config :
    /\ c.synch \in Seq([from : Module, weight : -1 .. SemMax, to : Module])
    /\ c.start \in Seq(Seq(Module) \ {<<>>})
    /\ c.place \in Seq([name : Name, tokens : 0 .. SemMax])
    /\ c.transition \in Seq(Name)
    /\ c.arc \in Seq([from : Name, weight : -1 .. SemMax, to : Name])
    /\ c.turns \subseteq Module

VARIABLES config,   \* the configuration plc_setup read
          net,      \* the transitions in the confmap, and the first marking
          tokens,   \* the semaphores of the places
          phase,    \* of each module
          halted,   \* modules in STOP mode, and MatPLC
          deaths,   \* how many modules died
          full,     \* history: a transition found a place full
          owed      \* history: scans each module has been granted, see Grant
vars == <<config, net, tokens, phase, halted, deaths, full, owed>>
-----------------------------------------------------------------------------
(***************************************************************************)
(* matrix_new and matrix_set: a cell is 0 until a row of the table sets    *)
(* it, and each row that does overwrites it.  A row that does not set the  *)
(* cell has -1 among the writes.                                           *)
(***************************************************************************)
\* mutant: the weights of two rows for the same pair add up
CellAddsUp(writes) ==
  LET cell[k \in 0 .. Len(writes)] ==
        IF k = 0 THEN 0
        ELSE IF writes[k] < 0 THEN cell[k - 1] ELSE cell[k - 1] + writes[k]
  IN cell[Len(writes)]
Cell(writes) ==
  LET cell[k \in 0 .. Len(writes)] ==
        IF k = 0 THEN 0
        ELSE IF writes[k] < 0 THEN cell[k - 1] ELSE writes[k]
  IN cell[Len(writes)]

(***************************************************************************)
(* synch_get_simple_synch: a place for each module, which its .beg         *)
(* transition takes one token from and which the .end transitions of the   *)
(* modules it follows put tokens in.                                       *)
(***************************************************************************)
GoodRows(c) == { c.synch[i] : i \in { j \in DOMAIN c.synch : c.synch[j].weight > 0 } }
Listed(c) == { r.from : r \in GoodRows(c) } \cup { r.to : r \in GoodRows(c) }
Beg(m) == <<m, ".beg">>
End(m) == <<m, ".end">>

\* mutant: a row gives its tokens to the module it comes from
EndWeightBackwards(c, t, p) ==
  Cell([i \in 1 .. Len(c.synch) |->
         IF c.synch[i].weight > 0 /\ t = End(c.synch[i].to) /\ p = <<c.synch[i].from>>
         THEN c.synch[i].weight ELSE -1])
EndWeight(c, t, p) ==
  Cell([i \in 1 .. Len(c.synch) |->
         IF c.synch[i].weight > 0 /\ t = End(c.synch[i].from) /\ p = <<c.synch[i].to>>
         THEN c.synch[i].weight ELSE -1])

SimpleNet(c) ==
  LET places == { <<m>> : m \in Listed(c) }
      trans == { Beg(m) : m \in Listed(c) } \cup { End(m) : m \in Listed(c) }
      started == { <<Head(c.start[i])>> : i \in DOMAIN c.start }   \* column 0 only
  IN [ok |-> started \subseteq places,
      in |-> [t \in trans |-> [p \in places |-> IF t = Beg(p[1]) THEN 1 ELSE 0]],
      out |-> [t \in trans |-> [p \in places |-> EndWeight(c, t, p)]],
      null |-> [t \in trans |-> [p \in places |-> 0]],
      init |-> [p \in places |-> IF p \in started THEN 1 ELSE 0]]

(***************************************************************************)
(* synch_get_places, _transitions and _arcs: an arc joins a place and a    *)
(* transition, and only from a place may its weight be 0.                  *)
(* Arcs that do not are skipped.                                           *)
(***************************************************************************)
ComplexPlaces(c) == { c.place[i].name : i \in DOMAIN c.place }
ComplexTrans(c) == IF ComplexPlaces(c) = {} THEN {} ELSE ToSet(c.transition)
Only(n, these, those) == n \in these /\ n \notin those
In(c, r) == /\ Only(r.from, ComplexPlaces(c), ComplexTrans(c))
            /\ Only(r.to, ComplexTrans(c), ComplexPlaces(c))
Out(c, r) == /\ Only(r.from, ComplexTrans(c), ComplexPlaces(c))
             /\ Only(r.to, ComplexPlaces(c), ComplexTrans(c))

InWrite(c, r, t, p) == IF In(c, r) /\ r.weight > 0 /\ r.from = p /\ r.to = t THEN r.weight ELSE -1
OutWrite(c, r, t, p) == IF Out(c, r) /\ r.weight > 0 /\ r.from = t /\ r.to = p THEN r.weight ELSE -1
NullWrite(c, r, t, p) == IF In(c, r) /\ r.weight = 0 /\ r.from = p /\ r.to = t THEN 1 ELSE -1

\* synch_get_init_tokens
InitTokens(c, p) ==
  Cell([i \in 1 .. Len(c.place) |-> IF c.place[i].name = p THEN c.place[i].tokens ELSE -1])

ComplexNet(c) ==
  LET Matrix(W(_, _, _)) ==
        [t \in ComplexTrans(c) |-> [p \in ComplexPlaces(c) |->
          Cell([i \in 1 .. Len(c.arc) |-> W(c.arc[i], t, p)])]]
  IN [ok |-> TRUE,
      in |-> Matrix(LAMBDA r, t, p : InWrite(c, r, t, p)),
      out |-> Matrix(LAMBDA r, t, p : OutWrite(c, r, t, p)),
      null |-> Matrix(LAMBDA r, t, p : NullWrite(c, r, t, p)),
      init |-> [p \in ComplexPlaces(c) |-> InitTokens(c, p)]]

\* petri_net_t_load_from_config: the simple tables, or else the complex ones
PetriNet(c) ==
  LET simple == SimpleNet(c)
  IN IF ~simple.ok \/ Listed(c) # {} THEN simple ELSE ComplexNet(c)

\* synch_load_confmap: -1 where there is no arc, 0 for a null arc, and no null
\* arc beside another one; the null transition has no arcs at all.
NULL == <<"NULL">>
Arc(w) == IF w > 0 THEN w ELSE -1
WaitOf(n, t, p) == IF t = NULL THEN -1 ELSE IF n.null[t][p] > 0 THEN 0 ELSE Arc(n.in[t][p])
SignalOf(n, t, p) == IF t = NULL THEN -1 ELSE Arc(n.out[t][p])
Loaded(c) ==
  LET n == PetriNet(c)
      Clash == \E t \in DOMAIN n.null : \E p \in DOMAIN n.init : n.null[t][p] > 0 /\ n.in[t][p] > 0
  IN [ok |-> n.ok /\ ~Clash,
      init |-> n.init,
      trans |-> [t \in {NULL} \cup DOMAIN n.in |->
                  [wait |-> [p \in DOMAIN n.init |-> WaitOf(n, t, p)],
                   signal |-> [p \in DOMAIN n.init |-> SignalOf(n, t, p)]]]]

\* What it leaves in the confmap: a first marking a semaphore can hold, and for
\* each transition -1 or a weight per place.
NetType(n) ==
  /\ n.init \in [DOMAIN n.init -> 0 .. SemMax]
  /\ NULL \in DOMAIN n.trans
  /\ \A t \in DOMAIN n.trans :
       n.trans[t] \in [wait : [DOMAIN n.init -> -1 .. SemMax],
                       signal : [DOMAIN n.init -> (-1 .. SemMax) \ {0}]]

\* synch_parse_conf: the transition the module's section names, by default the
\* one named after the module, or else the null transition
Chosen(names, m, default) ==
  LET t == IF m \in DOMAIN names THEN names[m] ELSE default
  IN net.trans[IF t \in DOMAIN net.trans THEN t ELSE NULL]
ScanBegOf(m) == Chosen(config.beg, m, Beg(m))
\* mutant: no default named after the module
ScanEndOfSection(m) == Chosen(config.end, m, NULL)
ScanEndOf(m) == Chosen(config.end, m, End(m))
-----------------------------------------------------------------------------
(***************************************************************************)
(* Firing a transition with semop: all of it or nothing.  It waits for     *)
(* what it takes and for what is to be empty; a place that would overflow  *)
(* is an error, and the module goes on as if it had fired.                 *)
(***************************************************************************)
Places == DOMAIN tokens
CanFire(t) == \A p \in Places : /\ t.wait[p] > 0 => tokens[p] >= t.wait[p]
                                /\ t.wait[p] = 0 => tokens[p] = 0
TakenNever(t, p) == 0             \* mutant: the tokens waited for stay
Taken(t, p) == IF t.wait[p] > 0 THEN t.wait[p] ELSE 0
Given(t, p) == IF t.signal[p] > 0 THEN t.signal[p] ELSE 0
After(t) == [p \in Places |-> tokens[p] - Taken(t, p) + Given(t, p)]
OverflowsNever(t) == FALSE        \* mutant: no limit
Overflows(t) == \E p \in Places : After(t)[p] > SemMax

Fire(t) == /\ CanFire(t)
           /\ IF Overflows(t) THEN full' = TRUE /\ UNCHANGED tokens
                              ELSE tokens' = After(t) /\ UNCHANGED full

(***************************************************************************)
(* What the documentation promises: "Whenever module_1 finishes executing  *)
(* it's scan, then module_2 will start executing a new scan", or as many   *)
(* as the arrow says.  OwedMax bounds the count.                           *)
(***************************************************************************)
OwedMax == SemMax + 1
Simple == Listed(config) # {}
Joins(r, a, b) == r.from = a /\ r.to = b /\ r.weight > 0
LastRow(i, a, b) == /\ Joins(config.synch[i], a, b)
                    /\ \A j \in DOMAIN config.synch : j > i => ~Joins(config.synch[j], a, b)
LastRows(a, b) == { i \in DOMAIN config.synch : LastRow(i, a, b) }      \* one at most
Grant(a, b) == IF LastRows(a, b) = {} THEN 0
               ELSE config.synch[CHOOSE i \in LastRows(a, b) : TRUE].weight
OwedAfter(m) == [b \in Module |-> LET k == owed[b] + Grant(m, b)
                                  IN IF k > OwedMax THEN OwedMax ELSE k]
-----------------------------------------------------------------------------
Init ==
  /\ config \in Config
  /\ net = Loaded(config)
  /\ net.ok                                   \* or plc_setup fails
  /\ tokens = net.init
  /\ phase = [m \in Module |-> "down"]
  /\ halted = {MatPLC}                        \* until plc_setup calls plc_run
  /\ deaths = 0 /\ full = FALSE
  /\ owed = [m \in Module |-> IF \E i \in DOMAIN config.start : m = Head(config.start[i])
                                THEN 1 ELSE 0]

\* plc_init; state_init puts the module in RUN mode
Start(m) ==
  /\ phase[m] = "down"
  /\ phase' = [phase EXCEPT ![m] = "idle"]
  /\ halted' = halted \ {m}
  /\ UNCHANGED <<config, net, tokens, deaths, full, owed>>

\* plc_scan_beg: together with the RUN places of the module and of the MatPLC
ScanBeg(m) ==
  /\ phase[m] = "idle" /\ halted \cap {m, MatPLC} = {}
  /\ Fire(ScanBegOf(m))
  /\ phase' = [phase EXCEPT ![m] = "scan"]
  /\ owed' = IF owed[m] > 0 THEN [owed EXCEPT ![m] = @ - 1] ELSE owed
  /\ UNCHANGED <<config, net, halted, deaths>>

ScanEnd(m) ==
  /\ phase[m] = "scan"
  /\ Fire(ScanEndOf(m))
  /\ phase' = [phase EXCEPT ![m] = "idle"]
  /\ owed' = OwedAfter(m)
  /\ UNCHANGED <<config, net, halted, deaths>>

\* The module ends or is killed, wherever it is; no token comes back.
Die(m) ==
  /\ phase[m] # "down" /\ deaths < DeathsMax
  /\ phase' = [phase EXCEPT ![m] = "down"]
  /\ deaths' = deaths + 1
  /\ UNCHANGED <<config, net, tokens, halted, full, owed>>

\* plc_module_stop, plc_stop, plc_module_run and plc_run
Listens(x) == x # MatPLC => phase[x] # "down"
Stop(x) == /\ Listens(x) /\ halted' = halted \cup {x}
           /\ UNCHANGED <<config, net, tokens, phase, deaths, full, owed>>
Run(x) == /\ Listens(x) /\ halted' = halted \ {x}
          /\ UNCHANGED <<config, net, tokens, phase, deaths, full, owed>>

Next == \/ \E m \in Module : Start(m) \/ ScanBeg(m) \/ ScanEnd(m) \/ Die(m)
        \/ \E x \in Module \cup {MatPLC} : Stop(x) \/ Run(x)

(***************************************************************************)
(* A scan ends, and a module that may go on is woken: the kernel completes *)
(* a waiting semop as soon as it can.  Nobody has to start, stop or die.   *)
(***************************************************************************)
Fairness == \A m \in Module : WF_vars(ScanBeg(m)) /\ WF_vars(ScanEnd(m))
Spec == Init /\ [][Next]_vars /\ Fairness
-----------------------------------------------------------------------------
TypeOK ==
  /\ tokens \in [DOMAIN net.init -> 0 .. SemMax]
  /\ phase \in [Module -> {"down", "idle", "scan"}]
  /\ halted \subseteq Module \cup {MatPLC}
  /\ deaths \in 0 .. DeathsMax /\ full \in BOOLEAN
  /\ owed \in [Module -> 0 .. OwedMax]

\* The modules the configuration runs one after the other never scan together
\* (a shared-mode module relies on it), whatever is stopped, dies or is started
\* again in between.
LockStep == \A m, n \in config.turns : phase[m] = "scan" /\ phase[n] = "scan" => m = n

(***************************************************************************)
(* Tokens, counted one by one: those of a marking, or of the arcs of a     *)
(* transition, where -1 counts for nothing.                                *)
(***************************************************************************)
Units(k) == { x \in (DOMAIN k) \X (1 .. SemMax) : x[2] <= k[x[1]] }
Total(k) == Cardinality(Units(k))
Needs(m) == Total(ScanBegOf(m).wait)
Held == { x \in Module \X ((DOMAIN tokens) \X (1 .. SemMax)) :
            phase[x[1]] = "scan" /\ x[2] \in Units(ScanBegOf(x[1]).wait) }

\* No scan makes tokens: its beginning gives none, and its end at most what the
\* beginning and the end took.
Conserving ==
  \A m \in Module : /\ Total(ScanBegOf(m).signal) = 0
                    /\ Total(ScanEndOf(m).signal) <= Needs(m) + Total(ScanEndOf(m).wait)

\* Then the tokens in the places and those the scanning modules took are never
\* more than there were at first: whatever is stopped, dies in its scan, is
\* started again or finds a place full.
TokensKept == Conserving => Total(tokens) + Cardinality(Held) <= Total(net.init)

\* Modules run one after the other if no two of them can be served at once.
TakeTurns ==
  /\ Conserving
  /\ \A m, n \in config.turns : m # n => Needs(m) + Needs(n) > Total(net.init)

\* What the tables of the simple configuration mean, if no section names
\* another transition: a module waits for one token of its own place, and its
\* end puts into a place what the last row for the two says.
Unnamed == DOMAIN config.beg = {} /\ DOMAIN config.end = {}
Started(m) == \E i \in DOMAIN config.start : m = Head(config.start[i])
RowsAreArcs ==
  /\ DOMAIN net.init = { <<m>> : m \in Listed(config) }
  /\ \A m \in Module : \A b \in Listed(config) :
       /\ ScanBegOf(m).wait[<<b>>] = (IF b = m THEN 1 ELSE -1)
       /\ ScanBegOf(m).signal[<<b>>] = -1
       /\ ScanEndOf(m).wait[<<b>>] = -1
       /\ ScanEndOf(m).signal[<<b>>] = Arc(Grant(m, b))
  /\ \A m \in Listed(config) : net.init[<<m>>] = (IF Started(m) THEN 1 ELSE 0)

\* A ring: each module has one follower at most, with one scan, and one module
\* is started.
IsRing ==
  /\ Simple /\ Unnamed /\ config.turns \subseteq Listed(config)
  /\ \A m \in Module, a, b \in Listed(config) :
       /\ Grant(m, a) <= 1
       /\ Grant(m, a) > 0 /\ Grant(m, b) > 0 => a = b
  /\ \A i, j \in DOMAIN config.start : Head(config.start[i]) = Head(config.start[j])

\* The tables are read as they are meant: rows become arcs, and rings turns.
TablesRead == /\ Simple /\ Unnamed => RowsAreArcs
              /\ IsRing => TakeTurns

\* Until a place is full, a place of the simple configuration holds as many
\* tokens as the tables grant its module scans: no end of a scan is lost, and
\* none counts twice.
OwedScans == Simple /\ Unnamed /\ ~full => \A m \in Listed(config) : tokens[<<m>>] = owed[m]

\* A module that is owed a scan may begin it.  Fails: the end of a scan that
\* finds the place of one follower full gives nothing to the others either, not
\* even to the module itself.
OwedMayStart == Simple => \A m \in Listed(config) : owed[m] > 0 => tokens[<<m>>] > 0

\* Modules that run in turns go on doing so as long as none of them dies and
\* all are left running.
Undisturbed == \A m \in config.turns : phase[m] # "down" /\ halted \cap {m, MatPLC} = {}
TurnsGoOn ==
  [](deaths = 0) /\ <>[]Undisturbed =>
     \A m \in Module : m \in config.turns => []<>(phase[m] = "scan")
=============================================================================
