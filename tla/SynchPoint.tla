----------------------------- MODULE SynchPoint -----------------------------
(***************************************************************************)
(* The synchpts of src/lib/synch/synch.c: the array of semaphore           *)
(* operations a module keeps for one transition of the Petri net, how      *)
(* plc_synchpt_new, plc_synchpt_add_arc and plc_synchpt_del_arc edit it,   *)
(* and what plc_synch then does with it.  A synchpt is private to its      *)
(* module, so one is enough.                                               *)
(***************************************************************************)
EXTENDS Integers, SequencesExt

CONSTANTS Place,        \* the semaphores of the set
          PlaceCount,   \* place_count, how many of them are places of the configuration
          Transition,   \* what the configuration may have stored in the cmm
          ExtraArcs,    \* extra_arcs a caller may ask for
          Weight,       \* weights a caller may add or delete
          ShortMax,     \* largest short: also SEMVMX, most tokens in a place
          EntriesMax    \* u16_MAX, most entries of a synchpt

Short == -ShortMax - 1 .. ShortMax

\* A transition without an arc to or from a place stores -1; a null arc is a
\* wait value of 0, and synch_config_put_transition stores no other arc from
\* that place, and never a signal value of 0.
SwValue == -1 .. ShortMax
Stored == 0 .. PlaceCount - 1      \* the others are those of plc_synchplace_add
ASSUME TransitionAssumption ==
  /\ ShortMax \in Nat \ {0} /\ EntriesMax \in Nat /\ ExtraArcs \subseteq Nat
  /\ Weight \subseteq Short
  /\ PlaceCount \in Nat /\ Stored \subseteq Place
  /\ Transition \subseteq [wait : [Stored -> SwValue], signal : [Stored -> SwValue \ {0}]]

VARIABLES entries,      \* sem_parm[0 .. used_entries-1]
          total,        \* total_entries; -1 while there is no synchpt
          arcs,         \* history: the arcs asked for and not deleted
          spare,        \* history: adds the caller was promised and has not used
          plain         \* history: only uses the net has a meaning for
ptvars == <<entries, total, arcs, spare, plain>>

Exists == total >= 0
NoArcs == [wait |-> [p \in Place |-> 0], signal |-> [p \in Place |-> 0],
           null |-> [p \in Place |-> 0]]
PtInit == entries = <<>> /\ total = -1 /\ arcs = NoArcs /\ spare = 0 /\ plain = TRUE

(***************************************************************************)
(* semop, all or nothing: the operations one after the other, and none of  *)
(* them if one would block or leave the range of a semaphore.  A call with *)
(* no operation at all is an error.                                        *)
(***************************************************************************)
SemopStep(acc, sop) ==
  LET v == acc.val[sop.num] + sop.op
  IN IF acc.res # "ok" THEN acc
     ELSE IF v < 0 \/ (sop.op = 0 /\ v # 0) THEN [acc EXCEPT !.res = "block"]
     ELSE IF v > ShortMax THEN [acc EXCEPT !.res = "error"]
     ELSE [res |-> "ok", val |-> [acc.val EXCEPT ![sop.num] = v]]

\* plcsynchsem_synch: "block" is a wait, or -1 for a nonblocking synchpt.
Synch(sops, val) ==
  LET run[k \in 0 .. Len(sops)] ==
        IF k = 0 THEN [res |-> "ok", val |-> val] ELSE SemopStep(run[k - 1], sops[k])
      end == run[Len(sops)]
  IN IF sops = <<>> THEN [res |-> "error", val |-> val]
     ELSE IF end.res = "ok" THEN end
     ELSE [res |-> end.res, val |-> val]

(***************************************************************************)
(* Editing the array.                                                      *)
(***************************************************************************)
\* sem_op is a short
ToShort(x) == ((x + ShortMax + 1) % (2 * ShortMax + 2)) - (ShortMax + 1)

SameDirection(a, b) == (a < 0 /\ b < 0) \/ (a > 0 /\ b > 0)

\* the first entry for the place in the direction of the weight, or 0
EntryToAdd(s, w, p) == SelectInSeq(s, LAMBDA e : e.num = p /\ SameDirection(e.op, w))
EntryToDel(s, w, p) ==
  SelectInSeq(s, LAMBDA e : e.num = p /\ (SameDirection(e.op, w) \/ (e.op = 0 /\ w = 0)))

\* mutant: every arc to the end
InsertAtEnd(s, w, p) == Append(s, [num |-> p, op |-> w])
\* the wait arcs go to the front, null arcs and signal arcs to the end
Insert(s, w, p) ==
  IF w < 0 THEN <<[num |-> p, op |-> w]>> \o s ELSE Append(s, [num |-> p, op |-> w])

SetOp(s, e, op) == [s EXCEPT ![e] = [num |-> s[e].num, op |-> op]]
AddArcTo(s, w, p) ==
  LET e == EntryToAdd(s, w, p)
  IN IF e # 0 THEN SetOp(s, e, ToShort(s[e].op + w)) ELSE Insert(s, w, p)

\* mutant: one entry too many
AddArcFailsLate(s, w, p, n) == EntryToAdd(s, w, p) = 0 /\ Len(s) > n
\* -1, and nothing done, when a new entry is needed and none is free
AddArcFails(s, w, p, n) == EntryToAdd(s, w, p) = 0 /\ Len(s) >= n

DelArcFrom(s, w, p) ==
  LET e == EntryToDel(s, w, p)
      left == ToShort(s[e].op - w)
  IN IF left # 0 THEN SetOp(s, e, left) ELSE RemoveAt(s, e)

(***************************************************************************)
(* plc_synchpt_new: room for the arcs of the transition and for the extra  *)
(* ones, then the waits and after them the signals, place by place.        *)
(***************************************************************************)
\* mutant: null arcs are not counted
PositiveArcs(values) == { p \in Stored : values[p] > 0 }
ArcsOf(values) == { p \in Stored : values[p] >= 0 }
ArcCount(t) == Cardinality(ArcsOf(t.wait)) + Cardinality(ArcsOf(t.signal))

AddStored(s, value, w, p) == IF value >= 0 THEN AddArcTo(s, w, p) ELSE s
AddAll(s, values, weights) ==
  LET added[k \in 0 .. PlaceCount] ==
        IF k = 0 THEN s
        ELSE AddStored(added[k - 1], values[k - 1], weights[k - 1], k - 1)
  IN added[PlaceCount]
Build(t) ==
  AddAll(AddAll(<<>>, t.wait, [p \in Stored |-> -t.wait[p]]), t.signal, t.signal)

NetOf(t) ==
  [wait |-> [p \in Place |-> IF p \in Stored /\ t.wait[p] > 0 THEN t.wait[p] ELSE 0],
   signal |-> [p \in Place |-> IF p \in Stored /\ t.signal[p] > 0 THEN t.signal[p] ELSE 0],
   null |-> [p \in Place |-> IF p \in Stored /\ t.wait[p] = 0 THEN 1 ELSE 0]]

New(t, extra) ==
  /\ ~Exists
  /\ ArcCount(t) + extra <= EntriesMax
  /\ total' = ArcCount(t) + extra
  /\ entries' = Build(t)
  /\ arcs' = NetOf(t) /\ spare' = extra /\ plain' = TRUE

\* plc_synchpt_free
Free ==
  /\ Exists
  /\ entries' = <<>> /\ total' = -1 /\ arcs' = NoArcs /\ spare' = 0 /\ plain' = TRUE

\* The weight the net has in the direction of w, and the net with n more of it.
Has(w, p) == IF w < 0 THEN arcs.wait[p] ELSE IF w > 0 THEN arcs.signal[p] ELSE arcs.null[p]
More(values, p, n) == [values EXCEPT ![p] = @ + n]
Change(w, p, n) == [wait |-> IF w < 0 THEN More(arcs.wait, p, n) ELSE arcs.wait,
                    signal |-> IF w > 0 THEN More(arcs.signal, p, n) ELSE arcs.signal,
                    null |-> IF w = 0 THEN More(arcs.null, p, n) ELSE arcs.null]
Size(w) == IF w < 0 THEN -w ELSE IF w > 0 THEN w ELSE 1

\* The uses the net gives a meaning: no null arc by hand (it would come after
\* signals already there), no wait arc beside a null arc (the configuration
\* refuses that), no weight beyond a short.
PlainAdd(w, p) == /\ w # 0 /\ Has(w, p) + Size(w) <= ShortMax
                  /\ w < 0 => arcs.null[p] = 0

\* A synchpt put to another use is not followed any further.
AddArc(w, p) ==
  /\ Exists /\ plain
  /\ IF AddArcFails(entries, w, p, total)
     THEN UNCHANGED ptvars
     ELSE /\ entries' = AddArcTo(entries, w, p)
          /\ plain' = PlainAdd(w, p)
          /\ arcs' = IF plain' THEN Change(w, p, Size(w)) ELSE NoArcs
          /\ spare' = IF spare > 0 THEN spare - 1 ELSE 0
          /\ UNCHANGED total

\* Deleting more than there is turns a wait into a signal.
DelArc(w, p) ==
  /\ Exists /\ plain
  /\ EntryToDel(entries, w, p) # 0
  /\ entries' = DelArcFrom(entries, w, p)
  /\ plain' = (Size(w) <= Has(w, p))
  /\ arcs' = IF plain' THEN Change(w, p, -Size(w)) ELSE NoArcs
  /\ UNCHANGED <<total, spare>>

PtNext ==
  \/ \E t \in Transition, extra \in ExtraArcs : New(t, extra)
  \/ Free
  \/ \E w \in Weight, p \in Place : AddArc(w, p) \/ DelArc(w, p)
PtSpec == PtInit /\ [][PtNext]_ptvars

(***************************************************************************)
(* What a transition of a Petri net does: it takes all it waits for and    *)
(* only then adds what it signals, for every marking of the places.        *)
(***************************************************************************)
NetPasses(m) == \A p \in Place : /\ m[p] >= arcs.wait[p]
                                 /\ arcs.null[p] > 0 => m[p] = 0
NetAfter(m) == [p \in Place |-> m[p] - arcs.wait[p] + arcs.signal[p]]
NetFires(m) ==
  IF ~NetPasses(m) THEN [res |-> "block", val |-> m]
  ELSE IF \E p \in Place : NetAfter(m)[p] > ShortMax THEN [res |-> "error", val |-> m]
  ELSE [res |-> "ok", val |-> NetAfter(m)]

\* The state of the synchpt: every entry names a place and holds a short, and
\* there are never more entries than memory was allocated for.
PtTypeOK ==
  /\ entries \in Seq([num : Place, op : Short])
  /\ total \in -1 .. EntriesMax
  /\ Len(entries) <= (IF Exists THEN total ELSE 0)
  /\ spare \in Nat /\ plain \in BOOLEAN

\* Whatever was added and deleted, in whatever order, synching on the array
\* does to every marking what the net's transition does: it blocks, fails and
\* fires alike ("the petri net requires that we first wait and only then do
\* we signal").  For the uses of PlainAdd, and deletions of what is there.
SynchFiresTransition ==
  Exists /\ plain /\ entries # <<>> =>
    \A m \in [Place -> 0 .. ShortMax] : Synch(entries, m) = NetFires(m)

\* As many arcs as the caller of plc_synchpt_new asked for with extra_arcs can
\* still be added, whatever the configuration put in the transition: the adds
\* that state_init does to the scan_beg synchpt are never refused, and no
\* sequence of adds and deletes leaves the array or a short.
ExtraArcsHonoured == PtTypeOK /\ (Exists => Len(entries) + spare <= total)
=============================================================================
