---------------------------- MODULE ConfmapProofs ----------------------------
(***************************************************************************)
(* Theorems of the configuration memory: of its setup and removal with all *)
(* that hangs on it (Lifecycle), for any number of runs of the two         *)
(* commands, of modules, of starts and of deaths; and of its blocks (Cmm), *)
(* for every size of the segment and of the requests.                      *)
(***************************************************************************)
EXTENDS Lifecycle, Cmm, SequenceTheorems, WellFoundedInduction, TLAPS

(***************************************************************************)
(* Lifecycle: the setup, the shutdown and the modules.                     *)
(***************************************************************************)
PcType == Initialising \cup {"off", "up", "locked", "term", "caught"}
CmdType == {"idle", "making", "undoing", "up", "failed", "ended", "died"}
Lists == Item \cup {"stop"}
Typed ==
  /\ made \in [Setup -> SUBSET Item] /\ cmd \in [Command -> CmdType]
  /\ next \in [Setup -> 1 .. 14]
  /\ todo \in [Command -> Seq(Lists)] /\ \A p \in Command : Len(todo[p]) <= 11
  /\ att \in [Shutdown \cup Module -> Setup \cup {NoPlc}]
  /\ ok \in [Shutdown -> BOOLEAN] /\ reg \in [Setup -> SUBSET Module]
  /\ pc \in [Module -> PcType] /\ sig \subseteq Module /\ told \subseteq Module
  /\ torn \subseteq Setup
  /\ \A m \in Module : pc[m] \notin {"off", "cmm"} => att[m] # NoPlc
OneKey == \A s, t \in Owner : s = t

LEMMA Orders ==
  /\ Len(Order) = 14 /\ Order[14] = "launch"
  /\ Item = {"seg", "cmmMutex", "magic", "gmm", "map", "mapMutex", "mapKey",
             "synch", "netMutex", "net", "netKey", "state", "place"}
  /\ \A k \in 1 .. 14 : Order[k] \in Item \cup {"launch"}
<1>1. Len(Order) = 14 /\ Order[14] = "launch"
  BY DEF Order
<1>2. /\ Order[1] = "seg" /\ Order[2] = "cmmMutex" /\ Order[3] = "magic" /\ Order[4] = "gmm"
      /\ Order[5] = "map" /\ Order[6] = "mapMutex" /\ Order[7] = "mapKey"
      /\ Order[8] = "synch" /\ Order[9] = "netMutex" /\ Order[10] = "net"
      /\ Order[11] = "netKey" /\ Order[12] = "state" /\ Order[13] = "place"
  BY DEF Order
<1> DEFINE R == {"seg", "cmmMutex", "magic", "gmm", "map", "mapMutex", "mapKey",
             "synch", "netMutex", "net", "netKey", "state", "place"}
<1>3. \A k \in 1 .. 14 : k = 1 \/ k = 2 \/ k = 3 \/ k = 4 \/ k = 5 \/ k = 6 \/ k = 7 \/ k = 8
                        \/ k = 9 \/ k = 10 \/ k = 11 \/ k = 12 \/ k = 13 \/ k = 14
  OBVIOUS
<1>4. \A k \in 1 .. 14 : Order[k] \in R \cup {"launch"}
  BY <1>1, <1>2, <1>3
<1>5. {Order[k] : k \in 1 .. 14} \ {"launch"} = R
  BY <1>1, <1>2, <1>4
<1> QED BY <1>1, <1>4, <1>5 DEF Item

\* The lists of what to undo.
Entries(t) == {t[j] : j \in 1 .. Len(t)}
LEMMA Joined ==
  ASSUME NEW a \in Seq(Lists), NEW b \in Seq(Lists)
  PROVE  /\ a \o b \in Seq(Lists) /\ Len(a \o b) = Len(a) + Len(b)
         /\ Entries(a \o b) = Entries(a) \cup Entries(b)
<1>1. /\ a \o b \in Seq(Lists) /\ Len(a \o b) = Len(a) + Len(b)
      /\ \A i \in 1 .. Len(a) + Len(b) : (a \o b)[i] = IF i <= Len(a) THEN a[i] ELSE b[i - Len(a)]
  BY ConcatProperties
<1>2. Len(a) \in Nat /\ Len(b) \in Nat
  OBVIOUS
<1>3. \A j \in 1 .. Len(b) : (a \o b)[j + Len(a)] = b[j] /\ j + Len(a) \in 1 .. Len(a) + Len(b)
  BY <1>1, <1>2
<1>4. \A i \in 1 .. Len(a) + Len(b) : i <= Len(a) \/ i - Len(a) \in 1 .. Len(b)
  BY <1>2
<1>5. \A i \in 1 .. Len(a) : (a \o b)[i] = a[i] /\ i \in 1 .. Len(a) + Len(b)
  BY <1>1, <1>2
<1> QED BY <1>1, <1>2, <1>3, <1>4, <1>5 DEF Entries

LEMMA ShutdownLists ==
  /\ CmmShutdown \in Seq(Lists) /\ Len(CmmShutdown) = 2 /\ Entries(CmmShutdown) = {"cmmMutex", "seg"}
  /\ GmmShutdown \in Seq(Lists) /\ Len(GmmShutdown) = 3
  /\ Entries(GmmShutdown) = {"map", "mapMutex", "gmm"}
  /\ SynchShutdown \in Seq(Lists) /\ Len(SynchShutdown) = 3
  /\ Entries(SynchShutdown) = {"net", "netMutex", "synch"}
  /\ StateShutdown \in Seq(Lists) /\ Len(StateShutdown) = 2
  /\ Entries(StateShutdown) = {"place", "state"}
BY Orders DEF Lists, CmmShutdown, GmmShutdown, SynchShutdown, StateShutdown, Entries

LEMMA Undoings ==
  /\ UndoGmm \in Seq(Lists) /\ Len(UndoGmm) = 5
  /\ Entries(UndoGmm) = {"map", "mapMutex", "gmm", "cmmMutex", "seg"}
  /\ UndoSynch \in Seq(Lists) /\ Len(UndoSynch) = 8
  /\ Entries(UndoSynch) = {"net", "netMutex", "synch", "map", "mapMutex", "gmm", "cmmMutex", "seg"}
<1>1. /\ UndoGmm \in Seq(Lists) /\ Len(UndoGmm) = Len(GmmShutdown) + Len(CmmShutdown)
      /\ Entries(UndoGmm) = Entries(GmmShutdown) \cup Entries(CmmShutdown)
  BY ShutdownLists, Joined, Zenon DEF UndoGmm
<1>2. /\ UndoSynch \in Seq(Lists) /\ Len(UndoSynch) = Len(SynchShutdown) + Len(UndoGmm)
      /\ Entries(UndoSynch) = Entries(SynchShutdown) \cup Entries(UndoGmm)
  BY <1>1, ShutdownLists, Joined, Zenon DEF UndoSynch
<1> HIDE DEF UndoGmm
<1> QED BY <1>1, <1>2, ShutdownLists
LEMMA Small ==
  /\ <<>> \in Seq(Lists) /\ Len(<<>>) = 0 /\ Entries(<<>>) = {}
  /\ \A i \in Lists : <<i>> \in Seq(Lists) /\ Len(<<i>>) = 1 /\ Entries(<<i>>) = {i}
  /\ \A i, j \in Lists : <<i, j>> \in Seq(Lists) /\ Len(<<i, j>>) = 2 /\ Entries(<<i, j>>) = {i, j}
  /\ \A i, j, k \in Lists : /\ <<i, j, k>> \in Seq(Lists) /\ Len(<<i, j, k>>) = 3
                            /\ Entries(<<i, j, k>>) = {i, j, k}
BY DEF Entries

\* What a failed step undoes: every object made before it.
Undoable(t, made_) == t \in Seq(Lists) /\ Len(t) <= 11 /\ made_ \subseteq Entries(t)
LEMMA Prefixed ==
  ASSUME NEW a \in Seq(Lists), NEW b \in Seq(Lists), NEW X, NEW Y, NEW t, t = a \o b,
         Len(a) + Len(b) <= 11, X \subseteq Entries(b), Y \subseteq X \cup Entries(a)
  PROVE  Undoable(t, Y)
BY Joined DEF Undoable

LEMMA Joint ==
  ASSUME NEW a \in Seq(Lists), NEW b \in Seq(Lists), NEW t, t = a \o b
  PROVE  t \in Seq(Lists) /\ Len(t) = Len(a) + Len(b) /\ Entries(t) = Entries(a) \cup Entries(b)
BY Joined, Zenon

LEMMA Whole ==
  ASSUME NEW b \in Seq(Lists), NEW Y, NEW t, t = b, Len(b) <= 11, Y \subseteq Entries(b)
  PROVE  Undoable(t, Y)
BY DEF Undoable

LEMMA Exits ==
  /\ Undoable(ErrorExit("seg"), {})
  /\ Undoable(ErrorExit("cmmMutex"), {"seg"})
  /\ \A i \in {"magic", "gmm", "map"} : Undoable(ErrorExit(i), {"seg", "cmmMutex"})
  /\ Undoable(ErrorExit("mapMutex"), {"seg", "cmmMutex", "map"})
  /\ \A i \in {"mapKey", "synch", "netMutex"} :
       Undoable(ErrorExit(i), {"seg", "cmmMutex", "map", "mapMutex"})
  /\ Undoable(ErrorExit("net"), {"seg", "cmmMutex", "map", "mapMutex", "netMutex"})
  /\ \A i \in {"netKey", "state", "place", "launch"} : Undoable(ErrorExit(i), Obj)
<1>0. {"seg", "gmm", "map", "mapMutex", "synch", "netMutex", "state", "stop"} \subseteq Lists
  BY Orders DEF Lists
<1>1. ErrorExit("magic") = CmmShutdown /\ ErrorExit("gmm") = CmmShutdown
  BY DEF ErrorExit
<1>2. /\ ErrorExit("seg") = <<>>
      /\ ErrorExit("cmmMutex") = <<"seg">>
      /\ ErrorExit("map") = <<"gmm">> \o CmmShutdown
      /\ ErrorExit("mapMutex") = <<"map", "gmm">> \o CmmShutdown
      /\ ErrorExit("mapKey") = <<"mapMutex", "map", "gmm">> \o CmmShutdown
  BY DEF ErrorExit
<1>3. /\ ErrorExit("synch") = UndoGmm
      /\ ErrorExit("netMutex") = <<"synch">> \o UndoGmm
      /\ ErrorExit("net") = <<"netMutex", "synch">> \o UndoGmm
      /\ ErrorExit("netKey") = UndoSynch
      /\ ErrorExit("state") = UndoSynch
      /\ ErrorExit("place") = <<"state">> \o UndoSynch
      /\ ErrorExit("launch") = (<<"stop">> \o StateShutdown) \o UndoSynch
  BY DEF ErrorExit
<1>4. /\ CmmShutdown \in Seq(Lists) /\ UndoGmm \in Seq(Lists) /\ UndoSynch \in Seq(Lists)
      /\ {"seg", "cmmMutex"} \subseteq Entries(CmmShutdown) /\ Len(CmmShutdown) <= 11
      /\ {"seg", "cmmMutex", "map", "mapMutex"} \subseteq Entries(UndoGmm) /\ Len(UndoGmm) <= 11
      /\ Obj \subseteq Entries(UndoSynch) /\ Len(UndoSynch) <= 11
  <2> HIDE DEF CmmShutdown, UndoGmm, UndoSynch
  <2> QED BY ShutdownLists, Undoings DEF Obj
<1>5. Undoable(ErrorExit("seg"), {})
  <2>1. <<>> \in Seq(Lists) /\ Len(<<>>) <= 11
    BY Small
  <2> QED BY <1>2, <2>1 DEF Undoable
<1>6. Undoable(ErrorExit("cmmMutex"), {"seg"})
  <2>1. <<"seg">> \in Seq(Lists) /\ Len(<<"seg">>) <= 11 /\ {"seg"} \subseteq Entries(<<"seg">>)
    BY <1>0, Small
  <2> QED BY <1>2, <2>1, Whole, Zenon
<1>7. \A i \in {"magic", "gmm"} : Undoable(ErrorExit(i), {"seg", "cmmMutex"})
  <2>1. Undoable(ErrorExit("magic"), {"seg", "cmmMutex"}) /\ Undoable(ErrorExit("gmm"), {"seg", "cmmMutex"})
    BY <1>1, <1>4, Whole, Zenon
  <2> QED BY <2>1
<1>8. Undoable(ErrorExit("map"), {"seg", "cmmMutex"})
  <2>1. <<"gmm">> \in Seq(Lists) /\ Len(<<"gmm">>) + Len(CmmShutdown) <= 11
    BY <1>0, Small, ShutdownLists
  <2> DEFINE t == ErrorExit("map")
  <2>3. /\ t \in Seq(Lists) /\ Len(t) = Len(<<"gmm">>) + Len(CmmShutdown)
        /\ Entries(t) = Entries(<<"gmm">>) \cup Entries(CmmShutdown)
    BY <1>2, <1>4, <2>1, Joint, Zenon
  <2> HIDE DEF t, CmmShutdown
  <2>4. Undoable(t, {"seg", "cmmMutex"})
    BY <1>4, <2>1, <2>3 DEF Undoable
  <2> QED BY <2>4 DEF t
<1>9. Undoable(ErrorExit("mapMutex"), {"seg", "cmmMutex", "map"})
  <2>1. /\ <<"map", "gmm">> \in Seq(Lists) /\ Len(<<"map", "gmm">>) + Len(CmmShutdown) <= 11
        /\ Entries(<<"map", "gmm">>) = {"map", "gmm"}
    BY <1>0, Small, ShutdownLists
  <2> DEFINE t == ErrorExit("mapMutex")
  <2>3. /\ t \in Seq(Lists) /\ Len(t) = Len(<<"map", "gmm">>) + Len(CmmShutdown)
        /\ Entries(t) = Entries(<<"map", "gmm">>) \cup Entries(CmmShutdown)
    BY <1>2, <1>4, <2>1, Joint, Zenon
  <2> HIDE DEF t, CmmShutdown
  <2>4. Undoable(t, {"seg", "cmmMutex", "map"})
    BY <1>4, <2>1, <2>3 DEF Undoable
  <2> QED BY <2>4 DEF t
<1>10. Undoable(ErrorExit("mapKey"), {"seg", "cmmMutex", "map", "mapMutex"})
  <2>1. /\ <<"mapMutex", "map", "gmm">> \in Seq(Lists)
        /\ Len(<<"mapMutex", "map", "gmm">>) + Len(CmmShutdown) <= 11
        /\ Entries(<<"mapMutex", "map", "gmm">>) = {"mapMutex", "map", "gmm"}
    BY <1>0, Small, ShutdownLists
  <2> DEFINE t == ErrorExit("mapKey")
  <2>3. /\ t \in Seq(Lists) /\ Len(t) = Len(<<"mapMutex", "map", "gmm">>) + Len(CmmShutdown)
        /\ Entries(t) = Entries(<<"mapMutex", "map", "gmm">>) \cup Entries(CmmShutdown)
    BY <1>2, <1>4, <2>1, Joint, Zenon
  <2> HIDE DEF t, CmmShutdown
  <2>4. Undoable(t, {"seg", "cmmMutex", "map", "mapMutex"})
    BY <1>4, <2>1, <2>3 DEF Undoable
  <2> QED BY <2>4 DEF t
<1>11. Undoable(ErrorExit("synch"), {"seg", "cmmMutex", "map", "mapMutex"})
  BY <1>3, <1>4, Whole, Zenon
<1>12. Undoable(ErrorExit("netMutex"), {"seg", "cmmMutex", "map", "mapMutex"})
  <2>1. <<"synch">> \in Seq(Lists) /\ Len(<<"synch">>) + Len(UndoGmm) <= 11
    <3> HIDE DEF UndoGmm
    <3> QED BY <1>0, Small, Undoings
  <2>0. ErrorExit("netMutex") = <<"synch">> \o UndoGmm
    BY <1>3
  <2>2. UndoGmm \in Seq(Lists)
    BY <1>4
  <2> DEFINE t == ErrorExit("netMutex")
  <2>3. /\ t \in Seq(Lists) /\ Len(t) = Len(<<"synch">>) + Len(UndoGmm)
        /\ Entries(t) = Entries(<<"synch">>) \cup Entries(UndoGmm)
    BY <2>0, <2>1, <2>2, Joint, Zenon
  <2> HIDE DEF t, UndoGmm
  <2>4. Undoable(t, {"seg", "cmmMutex", "map", "mapMutex"})
    BY <1>4, <2>1, <2>3 DEF Undoable
  <2> QED BY <2>4 DEF t
<1>13. Undoable(ErrorExit("net"), {"seg", "cmmMutex", "map", "mapMutex", "netMutex"})
  <2>1. /\ <<"netMutex", "synch">> \in Seq(Lists) /\ Len(<<"netMutex", "synch">>) + Len(UndoGmm) <= 11
        /\ Entries(<<"netMutex", "synch">>) = {"netMutex", "synch"}
    <3> HIDE DEF UndoGmm
    <3> QED BY <1>0, Small, Undoings
  <2>0. ErrorExit("net") = <<"netMutex", "synch">> \o UndoGmm
    BY <1>3
  <2>2. UndoGmm \in Seq(Lists)
    BY <1>4
  <2> DEFINE t == ErrorExit("net")
  <2>3. /\ t \in Seq(Lists) /\ Len(t) = Len(<<"netMutex", "synch">>) + Len(UndoGmm)
        /\ Entries(t) = Entries(<<"netMutex", "synch">>) \cup Entries(UndoGmm)
    BY <2>0, <2>1, <2>2, Joint, Zenon
  <2> HIDE DEF t, UndoGmm
  <2>4. Undoable(t, {"seg", "cmmMutex", "map", "mapMutex", "netMutex"})
    BY <1>4, <2>1, <2>3 DEF Undoable
  <2> QED BY <2>4 DEF t
<1>14. Undoable(ErrorExit("netKey"), Obj) /\ Undoable(ErrorExit("state"), Obj)
  BY <1>3, <1>4, Whole, Zenon
<1>15. Undoable(ErrorExit("place"), Obj)
  <2>1. <<"state">> \in Seq(Lists) /\ Len(<<"state">>) + Len(UndoSynch) <= 11
    <3> HIDE DEF UndoSynch
    <3> QED BY <1>0, Small, Undoings
  <2> QED BY <1>3, <1>4, <2>1, Prefixed, Zenon
<1>16. Undoable(ErrorExit("launch"), Obj)
  <2>1. <<"stop">> \in Seq(Lists) /\ Len(<<"stop">>) = 1
    BY <1>0, Small
  <2>2. Len(<<"stop">> \o StateShutdown) = Len(<<"stop">>) + Len(StateShutdown)
        /\ <<"stop">> \o StateShutdown \in Seq(Lists)
    BY <2>1, ShutdownLists, Joined, Zenon
  <2> DEFINE a == <<"stop">> \o StateShutdown
  <2>3. a \in Seq(Lists) /\ Len(a) + Len(UndoSynch) <= 11 /\ ErrorExit("launch") = a \o UndoSynch
    <3>1. Len(a) = 3
      BY <2>1, <2>2, ShutdownLists
    <3>2. ErrorExit("launch") = a \o UndoSynch
      BY <1>3
    <3> HIDE DEF a
    <3>3. Len(a) + Len(UndoSynch) <= 11
      BY <3>1, Undoings
    <3> QED BY <2>2, <3>2, <3>3 DEF a
  <2> HIDE DEF a
  <2> QED BY <1>4, <2>3, Prefixed, Zenon
<1>17. \A i \in {"magic", "gmm", "map"} : Undoable(ErrorExit(i), {"seg", "cmmMutex"})
  BY <1>7, <1>8
<1>18. \A i \in {"mapKey", "synch", "netMutex"} :
         Undoable(ErrorExit(i), {"seg", "cmmMutex", "map", "mapMutex"})
  BY <1>10, <1>11, <1>12
<1>19. \A i \in {"netKey", "state", "place", "launch"} : Undoable(ErrorExit(i), Obj)
  BY <1>14, <1>15, <1>16
<1> QED BY <1>5, <1>6, <1>9, <1>13, <1>17, <1>18, <1>19

\* What a setup has made by its step k is undone when the step fails.
LEMMA ExitUndoes ==
  ASSUME NEW k \in 1 .. 14
  PROVE  Undoable(ErrorExit(Order[k]), {Order[j] : j \in 1 .. k - 1} \cap Obj)
<1>1. /\ Order[1] = "seg" /\ Order[2] = "cmmMutex" /\ Order[3] = "magic" /\ Order[4] = "gmm"
      /\ Order[5] = "map" /\ Order[6] = "mapMutex" /\ Order[7] = "mapKey"
      /\ Order[8] = "synch" /\ Order[9] = "netMutex" /\ Order[10] = "net"
      /\ Order[11] = "netKey" /\ Order[12] = "state" /\ Order[13] = "place" /\ Order[14] = "launch"
  BY DEF Order
<1>2. ASSUME NEW X, NEW Y, NEW t, Undoable(t, X), Y \subseteq X PROVE Undoable(t, Y)
  BY <1>2 DEF Undoable
<1> DEFINE Made(i) == {Order[j] : j \in 1 .. i - 1} \cap Obj
<1>3. Made(k) \subseteq Obj
  OBVIOUS
<1>4. CASE k \in 11 .. 14
  BY <1>1, <1>2, <1>3, <1>4, Exits
<1>5. CASE k = 1
  BY <1>1, <1>2, <1>5, Exits
<1>6. CASE k = 2
  BY <1>1, <1>2, <1>6, Exits
<1>7. CASE k \in {3, 4, 5}
  BY <1>1, <1>2, <1>7, Exits DEF Obj
<1>8. CASE k = 6
  BY <1>1, <1>2, <1>8, Exits DEF Obj
<1>9. CASE k \in {7, 8, 9}
  BY <1>1, <1>2, <1>9, Exits DEF Obj
<1>10. CASE k = 10
  BY <1>1, <1>2, <1>10, Exits DEF Obj
<1> QED BY <1>4, <1>5, <1>6, <1>7, <1>8, <1>9, <1>10

LEMMA ShutdownTyped ==
  /\ ShutdownList \in Seq(Lists) /\ Len(ShutdownList) = 11
  /\ Entries(ShutdownList) = {"stop", "place", "state", "net", "netMutex", "synch", "map", "mapMutex",
                              "gmm", "cmmMutex", "seg"}
<1>1. "stop" \in Lists
  BY DEF Lists
<1>2. <<"stop">> \in Seq(Lists) /\ Len(<<"stop">>) = 1 /\ Entries(<<"stop">>) = {"stop"}
  BY <1>1, Small
<1> DEFINE a == <<"stop">> \o StateShutdown
<1>3. /\ a \in Seq(Lists) /\ Len(a) = Len(<<"stop">>) + Len(StateShutdown)
      /\ Entries(a) = Entries(<<"stop">>) \cup Entries(StateShutdown)
  BY <1>2, ShutdownLists, Joined, Zenon
<1>4. /\ ShutdownList \in Seq(Lists) /\ Len(ShutdownList) = Len(a) + Len(UndoSynch)
      /\ Entries(ShutdownList) = Entries(a) \cup Entries(UndoSynch)
  BY <1>3, Undoings, Joined, Zenon DEF ShutdownList
<1> HIDE DEF a
<1>5. Len(ShutdownList) = 11
  BY <1>2, <1>3, <1>4, Undoings, ShutdownLists
<1>6. Entries(ShutdownList) = {"stop", "place", "state", "net", "netMutex", "synch", "map", "mapMutex",
                              "gmm", "cmmMutex", "seg"}
  BY <1>2, <1>3, <1>4, Undoings, ShutdownLists
<1> QED BY <1>4, <1>5, <1>6

LEMMA Tails ==
  ASSUME NEW t \in Seq(Lists), t # <<>>
  PROVE  /\ Tail(t) \in Seq(Lists) /\ Len(Tail(t)) = Len(t) - 1 /\ Head(t) \in Lists
         /\ Entries(t) = {Head(t)} \cup Entries(Tail(t))
         /\ \A j \in 1 .. Len(Tail(t)) : Tail(t)[j] = t[j + 1]
<1>1. /\ Tail(t) \in Seq(Lists) /\ Len(Tail(t)) = Len(t) - 1 /\ Head(t) = t[1] /\ Len(t) \in Nat
      /\ Len(t) > 0 /\ \A j \in 1 .. Len(Tail(t)) : Tail(t)[j] = t[j + 1]
  BY HeadTailProperties, EmptySeq
<1>2. t[1] \in Lists
  BY <1>1
<1>3. \A j \in 1 .. Len(t) : j = 1 \/ (j - 1 \in 1 .. Len(Tail(t)) /\ t[j] = Tail(t)[j - 1])
  BY <1>1
<1>4. \A j \in 1 .. Len(Tail(t)) : j + 1 \in 1 .. Len(t)
  BY <1>1
<1>5. 1 \in 1 .. Len(t)
  BY <1>1
<1>6. Entries(t) \subseteq {Head(t)} \cup Entries(Tail(t))
  BY <1>1, <1>3 DEF Entries
<1>7. Entries(Tail(t)) \subseteq Entries(t) /\ Head(t) \in Entries(t)
  BY <1>1, <1>4, <1>5 DEF Entries
<1>8. Entries(t) = {Head(t)} \cup Entries(Tail(t))
  BY <1>6, <1>7
<1>9. Head(t) \in Lists
  BY <1>1, <1>2
<1> QED BY <1>1, <1>8, <1>9
-----------------------------------------------------------------------------
\* The steps, sorted by who takes them.
MakingStep(s) == BeginSetup(s) \/ Make(s) \/ LaunchModules(s) \/ MakeFails(s)
UndoingStep(p) == Undo(p) \/ StopModules(p) \/ CommandEnds(p) \/ CommandDies(p)
OwnStep(m) ==
  \/ ModuleStarts(m) \/ InitCmm(m) \/ InitGmm(m) \/ InitSynch(m) \/ InitState(m)
  \/ InitHandler(m) \/ InitFails(m) \/ LocksCmm(m) \/ UnlocksCmm(m) \/ TermKills(m)
  \/ TermInterrupts(m) \/ HandlerEnds(m) \/ SomeoneTerms(m) \/ ModuleDies(m)

LEMMA Steps ==
  ASSUME [Next]_vars
  PROVE  \/ UNCHANGED vars
         \/ \E s \in Setup : MakingStep(s)
         \/ \E q \in Shutdown : BeginShutdown(q)
         \/ \E p \in Command : UndoingStep(p)
         \/ \E m \in Module : OwnStep(m)
BY DEF Next, CommandStep, ModuleStep, MakingStep, UndoingStep, OwnStep

\* A module changes nothing of the commands, nor what a shutdown is attached to.
LEMMA OwnFrame ==
  ASSUME LifecycleAssumption, Typed, NEW m \in Module, OwnStep(m)
  PROVE  /\ UNCHANGED <<made, cmd, next, todo, ok, torn>>
         /\ \A q \in Shutdown : att'[q] = att[q]
<1>1. UNCHANGED command
  BY DEF OwnStep, ModuleStarts, InitCmm, InitGmm, InitSynch, InitState, InitHandler, InitFails,
         LocksCmm, UnlocksCmm, TermKills, TermInterrupts, HandlerEnds, SomeoneTerms, ModuleDies
<1>2. att' = att \/ att' = [att EXCEPT ![m] = NoPlc] \/ \E s \in Owner : att' = [att EXCEPT ![m] = s]
  BY DEF OwnStep, ModuleStarts, InitCmm, InitGmm, InitSynch, InitState, InitHandler, InitFails,
         LocksCmm, UnlocksCmm, TermKills, TermInterrupts, HandlerEnds, SomeoneTerms, ModuleDies,
         Gone
<1> QED BY <1>1, <1>2 DEF command, Typed, LifecycleAssumption

\* The parts of a setup that concern the commands only.
TypedCommand ==
  /\ made \in [Setup -> SUBSET Item] /\ cmd \in [Command -> CmdType]
  /\ next \in [Setup -> 1 .. 14]
  /\ todo \in [Command -> Seq(Lists)] /\ \A p \in Command : Len(todo[p]) <= 11
  /\ torn \subseteq Setup
TypedModule ==
  /\ att \in [Shutdown \cup Module -> Setup \cup {NoPlc}] /\ reg \in [Setup -> SUBSET Module]
  /\ pc \in [Module -> PcType] /\ sig \subseteq Module /\ told \subseteq Module
  /\ \A m \in Module : pc[m] \notin {"off", "cmm"} => att[m] # NoPlc
TypedOk == ok \in [Shutdown -> BOOLEAN]

LEMMA TypedParts == Typed <=> TypedCommand /\ TypedModule /\ TypedOk
BY DEF Typed, TypedCommand, TypedModule, TypedOk
LEMMA TypedPartsNext == TypedCommand' /\ TypedModule' /\ TypedOk' => Typed'
BY TypedParts, PTL

LEMMA Making ==
  ASSUME LifecycleAssumption, Typed, NEW s \in Setup, MakingStep(s)
  PROVE  TypedCommand'
<1> USE DEF TypedCommand
<1>0. s \in Command /\ TypedCommand
  BY TypedParts DEF Command
<1>1. CASE BeginSetup(s)
  BY <1>0, <1>1 DEF BeginSetup, CmdType
<1>2. CASE Make(s)
  <2>1. next[s] \in 1 .. 14 /\ Order[next[s]] # "launch"
    BY <1>0, <1>2 DEF Make
  <2>2. Order[next[s]] \in Item /\ next[s] + 1 \in 1 .. 14
    BY <2>1, Orders
  <2> QED BY <1>0, <1>2, <2>2 DEF Make
<1>3. CASE LaunchModules(s)
  BY <1>0, <1>3 DEF LaunchModules, CmdType
<1>4. CASE MakeFails(s)
  <2> DEFINE t == ErrorExit(Order[next[s]])
  <2>1. t \in Seq(Lists) /\ Len(t) <= 11
    BY <1>0, ExitUndoes DEF Undoable
  <2>2. {"magic", "mapKey", "netKey"} \subseteq Item
    BY Orders
  <2>3. todo' = [todo EXCEPT ![s] = t] /\ cmd' = [cmd EXCEPT ![s] = "undoing"]
    BY <1>4 DEF MakeFails
  <2>4. made' \in [Setup -> SUBSET Item] /\ next' \in [Setup -> 1 .. 14] /\ torn' = torn
    BY <1>0, <1>4, <2>2 DEF MakeFails
  <2> HIDE DEF t
  <2> QED BY <1>0, <2>1, <2>3, <2>4 DEF CmdType
<1> QED BY <1>1, <1>2, <1>3, <1>4 DEF MakingStep

LEMMA Undoing ==
  ASSUME LifecycleAssumption, Typed, NEW p \in Command, UndoingStep(p)
  PROVE  TypedCommand'
<1> USE DEF TypedCommand
<1>0. TypedCommand
  BY TypedParts
<1>1. ASSUME todo[p] # <<>> PROVE Tail(todo[p]) \in Seq(Lists) /\ Len(Tail(todo[p])) <= 11
  <2>1. todo[p] \in Seq(Lists) /\ Len(todo[p]) <= 11 /\ Len(todo[p]) \in Nat
    BY <1>0
  <2> QED BY <1>1, <2>1, Tails
<1>2. CASE Undo(p)
  <2>1. todo' = [todo EXCEPT ![p] = Tail(todo[p])] /\ cmd' = cmd /\ next' = next
    BY <1>2 DEF Undo, GoesOn
  <2>2. made' \in [Setup -> SUBSET Item]
    BY <1>0, <1>2 DEF Undo
  <2>3. torn' \subseteq Setup
    <3>1. CASE Reaches(p, Head(todo[p]))
      <4>1. PlcOf(p) \in Setup
        BY <1>0, <3>1, TypedParts DEF Reaches, PlcOf, TypedModule, Command
      <4> QED BY <1>0, <1>2, <3>1, <4>1 DEF Undo
    <3>2. CASE ~Reaches(p, Head(todo[p]))
      BY <1>0, <1>2, <3>2 DEF Undo
    <3> QED BY <3>1, <3>2
  <2>4. todo[p] # <<>>
    BY <1>2 DEF Undo
  <2> QED BY <1>0, <1>1, <2>1, <2>2, <2>3, <2>4
<1>3. CASE StopModules(p)
  <2>1. todo' = [todo EXCEPT ![p] = Tail(todo[p])] /\ UNCHANGED <<cmd, next, made, torn>> /\ todo[p] # <<>>
    BY <1>3 DEF StopModules
  <2> QED BY <1>0, <1>1, <2>1
<1>4. CASE CommandEnds(p)
  <2>1. /\ \/ cmd' = [cmd EXCEPT ![p] = "failed"] \/ cmd' = [cmd EXCEPT ![p] = "ended"]
        /\ UNCHANGED <<todo, next, made, torn>>
    BY <1>4 DEF CommandEnds
  <2> QED BY <1>0, <2>1 DEF CmdType
<1>5. CASE CommandDies(p)
  <2>1. todo' \in [Command -> Seq(Lists)] /\ \A x \in Command : Len(todo'[x]) <= 11
    BY <1>0, <1>5, Small DEF CommandDies
  <2> QED BY <1>0, <1>5, <2>1 DEF CommandDies, CmdType
<1> QED BY <1>2, <1>3, <1>4, <1>5 DEF UndoingStep

LEMMA ModuleTypes ==
  ASSUME LifecycleAssumption, Typed, [Next]_vars
  PROVE  TypedModule'
<1> USE DEF TypedModule
<1>0. TypedModule
  BY TypedParts
<1>1. CASE UNCHANGED vars
  BY <1>0, <1>1 DEF vars
<1>2. ASSUME NEW s \in Setup, MakingStep(s) PROVE TypedModule'
  <2>1. UNCHANGED <<att, reg, pc, sig, told>>
    BY <1>2 DEF MakingStep, BeginSetup, Make, LaunchModules, MakeFails
  <2> QED BY <1>0, <2>1
<1>3. ASSUME NEW q \in Shutdown, BeginShutdown(q) PROVE TypedModule'
  <2>1. UNCHANGED <<reg, pc, sig, told>> /\ (att' = att \/ \E s \in Setup : att' = [att EXCEPT ![q] = s])
    BY <1>3 DEF BeginShutdown, Owner
  <2> QED BY <1>0, <2>1 DEF LifecycleAssumption
<1>4. ASSUME NEW p \in Command, UndoingStep(p) PROVE TypedModule'
  <2>1. CASE StopModules(p)
    <3>1. UNCHANGED <<att, pc>>
      BY <2>1 DEF StopModules
    <3> DEFINE alive == IF PlcOf(p) = NoPlc THEN {} ELSE Alive(PlcOf(p))
    <3>2. PlcOf(p) \in Setup \cup {NoPlc}
      BY <1>0 DEF PlcOf, Command
    <3>3. alive \subseteq Module
      BY <1>0, <3>2 DEF Alive
    <3>4. sig' = sig \cup alive /\ told' = told \cup alive
      BY <2>1 DEF StopModules
    <3>5. reg' = [x \in Setup |-> IF x = PlcOf(p) THEN alive ELSE reg[x]]
      BY <2>1 DEF StopModules
    <3> HIDE DEF alive
    <3> QED BY <1>0, <3>1, <3>3, <3>4, <3>5
  <2>2. CASE ~StopModules(p)
    <3>1. UNCHANGED <<att, reg, pc, sig, told>>
      BY <1>4, <2>2 DEF UndoingStep, Undo, CommandEnds, CommandDies
    <3> QED BY <1>0, <3>1
  <2> QED BY <2>1, <2>2
<1>5. ASSUME NEW m \in Module, OwnStep(m) PROVE TypedModule'
  <2> USE DEF PcType, Initialising
  <2>1. CASE \/ InitGmm(m) \/ InitSynch(m) \/ InitHandler(m) \/ LocksCmm(m) \/ UnlocksCmm(m)
    <3>1. UNCHANGED <<att, reg, sig, told>> /\ pc[m] \notin {"off", "cmm"}
      BY <2>1 DEF InitGmm, InitSynch, InitHandler, LocksCmm, UnlocksCmm
    <3>2. \E l \in PcType : pc' = [pc EXCEPT ![m] = l]
      BY <2>1 DEF InitGmm, InitSynch, InitHandler, LocksCmm, UnlocksCmm, Goto
    <3> QED BY <1>0, <3>1, <3>2
  <2>8. CASE ModuleStarts(m)
    BY <1>0, <2>8 DEF ModuleStarts, Goto
  <2>2. CASE InitCmm(m)
    BY <1>0, <2>2 DEF InitCmm, Goto, Owner, LifecycleAssumption
  <2>3. CASE InitState(m)
    BY <1>0, <2>3 DEF InitState, Goto
  <2>4. CASE InitFails(m) \/ TermKills(m) \/ ModuleDies(m)
    BY <1>0, <2>4 DEF InitFails, TermKills, ModuleDies, Gone, Goto
  <2>5. CASE HandlerEnds(m)
    BY <1>0, <2>5 DEF HandlerEnds, Gone, Goto
  <2>6. CASE TermInterrupts(m)
    BY <1>0, <2>6 DEF TermInterrupts, Goto
  <2>7. CASE SomeoneTerms(m)
    BY <1>0, <2>7 DEF SomeoneTerms
  <2> QED BY <1>5, <2>1, <2>2, <2>3, <2>4, <2>5, <2>6, <2>7, <2>8 DEF OwnStep
<1> QED BY <1>1, <1>2, <1>3, <1>4, <1>5, Steps

LEMMA OkTypes ==
  ASSUME LifecycleAssumption, Typed, [Next]_vars
  PROVE  TypedOk'
<1> USE DEF TypedOk
<1>0. TypedOk
  BY TypedParts
<1>1. CASE ok' = ok
  BY <1>0, <1>1
<1>2. ASSUME NEW q \in Shutdown, BeginShutdown(q) PROVE TypedOk'
  <2>1. \E b \in BOOLEAN : ok' = [ok EXCEPT ![q] = b]
    BY <1>2 DEF BeginShutdown
  <2> QED BY <1>0, <2>1
<1>3. ASSUME NEW p \in Command, UndoingStep(p) PROVE TypedOk'
  <2>1. CASE Undo(p)
    <3>1. ok' = [q \in Shutdown |-> IF q = p THEN ok[q] /\ InPeace(p, Head(todo[p])) ELSE ok[q]]
      BY <2>1 DEF Undo
    <3> QED BY <1>0, <3>1, Zenon
  <2>2. CASE StopModules(p)
    <3> DEFINE s == PlcOf(p)
               alive == IF s = NoPlc THEN {} ELSE Alive(s)
    <3>1. ok' = [q \in Shutdown |-> IF q = p THEN ok[q] /\ s # NoPlc /\ reg[s] = alive ELSE ok[q]]
      BY <2>2 DEF StopModules
    <3> HIDE DEF s, alive
    <3> QED BY <1>0, <3>1, Zenon
  <2>3. CASE CommandEnds(p) \/ CommandDies(p)
    BY <1>0, <2>3 DEF CommandEnds, CommandDies
  <2> QED BY <1>3, <2>1, <2>2, <2>3 DEF UndoingStep
<1>4. ASSUME NEW s \in Setup, MakingStep(s) PROVE ok' = ok
  BY <1>4 DEF MakingStep, BeginSetup, Make, LaunchModules, MakeFails
<1>5. ASSUME NEW m \in Module, OwnStep(m) PROVE ok' = ok
  BY <1>5, OwnFrame
<1>6. UNCHANGED vars => ok' = ok
  BY DEF vars, command
<1> QED BY <1>1, <1>2, <1>3, <1>4, <1>5, <1>6, Steps

LEMMA TypedNext ==
  ASSUME LifecycleAssumption, Typed, [Next]_vars
  PROVE  Typed'
<1>2. ASSUME NEW q \in Shutdown, BeginShutdown(q) PROVE TypedCommand'
  <2>1. /\ cmd' = [cmd EXCEPT ![q] = "undoing"] /\ todo' = [todo EXCEPT ![q] = ShutdownList]
        /\ UNCHANGED <<made, next, torn>> /\ q \in Command
    BY <1>2 DEF BeginShutdown, Command
  <2>2. TypedCommand
    BY TypedParts
  <2>3. ShutdownList \in Seq(Lists) /\ Len(ShutdownList) <= 11
    BY ShutdownTyped
  <2> DEFINE t == ShutdownList
  <2>4. t \in Seq(Lists) /\ Len(t) <= 11 /\ todo' = [todo EXCEPT ![q] = t]
    BY <2>1, <2>3
  <2> HIDE DEF t
  <2>5. todo' \in [Command -> Seq(Lists)] /\ \A p \in Command : Len(todo'[p]) <= 11
    BY <2>2, <2>4 DEF TypedCommand
  <2> QED BY <2>1, <2>2, <2>5 DEF TypedCommand, CmdType
<1>3. TypedCommand'
  <2>1. CASE UNCHANGED vars
    BY <2>1, TypedParts DEF vars, command, TypedCommand
  <2>2. ASSUME NEW m \in Module, OwnStep(m) PROVE TypedCommand'
    BY <2>2, OwnFrame, TypedParts DEF TypedCommand
  <2> QED BY <1>2, <2>1, <2>2, Making, Undoing, Steps
<1> QED BY <1>3, ModuleTypes, OkTypes, TypedPartsNext

\* The key belongs to one segment at most: shmget with IPC_EXCL.
LEMMA OneKeyNext ==
  ASSUME LifecycleAssumption, Typed, OneKey, [Next]_vars
  PROVE  OneKey'
<1> USE DEF Owner
<1>1. CASE Owner' \subseteq Owner
  BY <1>1 DEF OneKey
<1>2. ASSUME NEW s \in Setup, Make(s) PROVE OneKey'
  <2>1. made' = [made EXCEPT ![s] = @ \cup {Order[next[s]]}] /\ CanCreate(Order[next[s]])
    BY <1>2 DEF Make
  <2>2. CASE Order[next[s]] = "seg"
    BY <2>1, <2>2 DEF CanCreate, OneKey, Typed
  <2>3. CASE Order[next[s]] # "seg"
    BY <1>1, <2>1, <2>3 DEF Typed
  <2> QED BY <2>2, <2>3
<1>3. ASSUME NEW s \in Setup, MakeFails(s) PROVE OneKey'
  BY <1>1, <1>3 DEF MakeFails, Typed
<1>4. ASSUME NEW p \in Command, Undo(p) PROVE OneKey'
  BY <1>1, <1>4 DEF Undo, Typed
<1>5. CASE made' = made
  BY <1>1, <1>5
<1>6. ASSUME NEW s \in Setup, MakingStep(s) PROVE OneKey'
  BY <1>2, <1>3, <1>5, <1>6 DEF MakingStep, BeginSetup, LaunchModules
<1>7. ASSUME NEW p \in Command, UndoingStep(p) PROVE OneKey'
  BY <1>4, <1>5, <1>7 DEF UndoingStep, StopModules, CommandEnds, CommandDies
<1>8. ASSUME NEW q \in Shutdown, BeginShutdown(q) PROVE OneKey'
  BY <1>5, <1>8 DEF BeginShutdown
<1>9. ASSUME NEW m \in Module, OwnStep(m) PROVE OneKey'
  BY <1>5, <1>9, OwnFrame
<1>10. CASE UNCHANGED vars
  BY <1>5, <1>10 DEF vars, command
<1> QED BY <1>6, <1>7, <1>8, <1>9, <1>10, Steps

LEMMA TypedInit == ASSUME LifecycleAssumption, Init PROVE Typed /\ OneKey
<1>1. <<>> \in Seq(Lists) /\ Len(<<>>) = 0
  BY Small
<1>2. OneKey
  BY DEF Init, OneKey, Owner
<1>3. Typed
  BY <1>1 DEF Init, Typed, CmdType, PcType
<1> QED BY <1>2, <1>3

LEMMA TypedIsTypeOK == ASSUME Typed, OneKey PROVE TypeOK
<1>1. Len(Order) = 14 /\ Len(ShutdownList) = 11
  BY Orders, ShutdownTyped
<1> QED BY <1>1 DEF Typed, OneKey, TypeOK, CmdType, PcType

\* The variables have their types, and the key one owner, in every state.
THEOREM TypeCorrect == Spec => []TypeOK
<1>1. Init => Typed /\ OneKey
  BY TypedInit, LifecycleAssumption
<1>2. Typed /\ OneKey /\ [Next]_vars => Typed' /\ OneKey'
  BY TypedNext, OneKeyNext, LifecycleAssumption
<1>3. Typed /\ OneKey => TypeOK
  BY TypedIsTypeOK
<1> QED BY <1>1, <1>2, <1>3, PTL DEF Spec
-----------------------------------------------------------------------------
(***************************************************************************)
(* A setup that failed leaves nothing: while it goes forward it made at    *)
(* most the steps it passed, while it undoes it still lists what is left.  *)
(***************************************************************************)
Recorded(s) ==
  /\ cmd[s] = "idle" => made[s] = {} /\ next[s] = 1
  /\ cmd[s] = "making" => made[s] \cap Obj \subseteq {Order[j] : j \in 1 .. next[s] - 1} \cap Obj
  /\ cmd[s] = "undoing" => made[s] \cap Obj \subseteq Entries(todo[s])
  /\ cmd[s] = "failed" => made[s] \cap Obj = {}
AllRecorded == \A s \in Setup : Recorded(s)

LEMMA MakingRecords ==
  ASSUME LifecycleAssumption, Typed, NEW s \in Setup, Recorded(s), MakingStep(s)
  PROVE  Recorded(s)'
<1>0. s \in Command /\ next[s] \in 1 .. 14
  BY DEF Command, Typed
<1>1. CASE BeginSetup(s)
  <2>1. cmd'[s] = "making" /\ made'[s] = {}
    BY <1>0, <1>1 DEF BeginSetup, Recorded, Typed
  <2> QED BY <2>1 DEF Recorded
<1>2. CASE Make(s)
  <2> DEFINE i == next[s]
  <2>1. /\ cmd[s] = "making" /\ cmd'[s] = "making" /\ next'[s] = i + 1
        /\ made'[s] = made[s] \cup {Order[i]}
    BY <1>0, <1>2 DEF Make, Typed
  <2>2. made[s] \cap Obj \subseteq {Order[j] : j \in 1 .. i - 1}
    BY <2>1 DEF Recorded
  <2>3. i \in 1 .. i /\ 1 .. i - 1 \subseteq 1 .. i /\ (i + 1) - 1 = i
    BY <1>0
  <2> HIDE DEF i
  <2>4. made'[s] \cap Obj \subseteq {Order[j] : j \in 1 .. i}
    BY <2>1, <2>2, <2>3
  <2> QED BY <2>1, <2>3, <2>4 DEF Recorded
<1>3. CASE LaunchModules(s)
  BY <1>0, <1>3 DEF LaunchModules, Recorded, Typed
<1>4. CASE MakeFails(s)
  <2> DEFINE t == ErrorExit(Order[next[s]])
             M == {Order[j] : j \in 1 .. next[s] - 1} \cap Obj
  <2>1. M \subseteq Entries(t)
    BY <1>0, ExitUndoes DEF Undoable
  <2>2. cmd[s] = "making" /\ cmd' = [cmd EXCEPT ![s] = "undoing"] /\ todo' = [todo EXCEPT ![s] = t]
    BY <1>4 DEF MakeFails
  <2>3. made'[s] \subseteq made[s] \cup {"magic", "mapKey", "netKey"}
    BY <1>4 DEF MakeFails, Typed
  <2>4. made'[s] \cap Obj \subseteq M
    BY <2>2, <2>3 DEF Recorded, Obj
  <2> HIDE DEF t, M
  <2>5. cmd'[s] = "undoing" /\ todo'[s] = t
    BY <1>0, <2>2 DEF Typed
  <2> QED BY <2>1, <2>4, <2>5 DEF Recorded
<1> QED BY <1>1, <1>2, <1>3, <1>4 DEF MakingStep

LEMMA UndoingRecords ==
  ASSUME LifecycleAssumption, Typed, NEW s \in Setup, Recorded(s), UndoingStep(s)
  PROVE  Recorded(s)'
<1>0. s \in Command /\ todo[s] \in Seq(Lists) /\ s # NoPlc
  BY DEF Command, Typed, LifecycleAssumption
<1>1. CASE Undo(s)
  <2>1. /\ cmd[s] = "undoing" /\ cmd'[s] = "undoing" /\ todo[s] # <<>>
        /\ todo'[s] = Tail(todo[s])
    BY <1>0, <1>1 DEF Undo, GoesOn, Typed
  <2>2. made'[s] \subseteq made[s] \ {Head(todo[s])}
    BY <1>0, <1>1 DEF Undo, Reaches, PlcOf, LifecycleAssumption
  <2>3. Entries(todo[s]) = {Head(todo[s])} \cup Entries(Tail(todo[s]))
    BY <1>0, <2>1, Tails
  <2> QED BY <2>1, <2>2, <2>3 DEF Recorded
<1>2. CASE StopModules(s)
  <2>1. /\ cmd[s] = "undoing" /\ cmd'[s] = "undoing" /\ todo[s] # <<>> /\ made'[s] = made[s]
        /\ todo'[s] = Tail(todo[s]) /\ Head(todo[s]) = "stop"
    BY <1>0, <1>2 DEF StopModules, Typed
  <2>2. Entries(todo[s]) = {Head(todo[s])} \cup Entries(Tail(todo[s]))
    BY <1>0, <2>1, Tails
  <2> QED BY <2>1, <2>2 DEF Recorded, Obj
<1>3. CASE CommandEnds(s)
  <2>1. cmd[s] = "undoing" /\ cmd'[s] = "failed" /\ made'[s] = made[s] /\ todo[s] = <<>>
    BY <1>0, <1>3 DEF CommandEnds, Typed
  <2> QED BY <2>1, Small DEF Recorded
<1>4. CASE CommandDies(s)
  <2>1. cmd'[s] = "died"
    BY <1>0, <1>4 DEF CommandDies, Typed
  <2> QED BY <2>1 DEF Recorded
<1> QED BY <1>1, <1>2, <1>3, <1>4 DEF UndoingStep

LEMMA RecordedNext ==
  ASSUME LifecycleAssumption, Typed, AllRecorded, [Next]_vars
  PROVE  AllRecorded'
<1> SUFFICES ASSUME NEW s \in Setup PROVE Recorded(s)'
  BY DEF AllRecorded
<1>0. Recorded(s) /\ s \in Command
  BY DEF AllRecorded, Command
<1>1. ASSUME made'[s] \subseteq made[s], cmd'[s] = cmd[s], next'[s] = next[s], todo'[s] = todo[s]
      PROVE  Recorded(s)'
  BY <1>0, <1>1 DEF Recorded
<1>2. ASSUME NEW x \in Setup, MakingStep(x) PROVE Recorded(s)'
  <2>1. CASE x = s
    BY <1>0, <1>2, <2>1, MakingRecords
  <2>2. CASE x # s
    <3>1. CASE MakeFails(x)
      <4> DEFINE t == ErrorExit(Order[next[x]])
      <4>1. todo' = [todo EXCEPT ![x] = t]
        BY <3>1 DEF MakeFails
      <4>2. made'[s] \subseteq made[s] /\ cmd'[s] = cmd[s] /\ next'[s] = next[s]
        BY <1>0, <2>2, <3>1 DEF MakeFails, Typed
      <4> HIDE DEF t
      <4>3. todo'[s] = todo[s]
        BY <1>0, <2>2, <4>1 DEF Typed
      <4> QED BY <1>1, <4>2, <4>3
    <3>2. CASE BeginSetup(x) \/ Make(x) \/ LaunchModules(x)
      BY <1>0, <1>1, <2>2, <3>2 DEF BeginSetup, Make, LaunchModules, Typed
    <3> QED BY <1>2, <3>1, <3>2 DEF MakingStep
  <2> QED BY <2>1, <2>2
<1>3. ASSUME NEW p \in Command, UndoingStep(p) PROVE Recorded(s)'
  <2>1. CASE p = s
    BY <1>0, <1>3, <2>1, UndoingRecords
  <2>2. CASE p # s
    <3>1. made'[s] \subseteq made[s]
      BY <1>3 DEF UndoingStep, Undo, StopModules, CommandEnds, CommandDies
    <3>2. cmd'[s] = cmd[s] /\ next'[s] = next[s]
      BY <1>0, <1>3, <2>2 DEF UndoingStep, Undo, StopModules, CommandEnds, CommandDies, Typed
    <3>3. todo'[s] = todo[s]
      BY <1>0, <1>3, <2>2 DEF UndoingStep, Undo, GoesOn, StopModules, CommandEnds, CommandDies, Typed
    <3> QED BY <1>1, <3>1, <3>2, <3>3
  <2> QED BY <2>1, <2>2
<1>4. ASSUME NEW q \in Shutdown, BeginShutdown(q) PROVE Recorded(s)'
  <2>1. q # s
    BY DEF LifecycleAssumption
  <2> DEFINE t == ShutdownList
  <2>2. todo' = [todo EXCEPT ![q] = t] /\ cmd' = [cmd EXCEPT ![q] = "undoing"] /\ UNCHANGED <<made, next>>
    BY <1>4 DEF BeginShutdown
  <2> HIDE DEF t
  <2> QED BY <1>0, <1>1, <2>1, <2>2 DEF Typed
<1>5. ASSUME NEW m \in Module, OwnStep(m) PROVE Recorded(s)'
  BY <1>1, <1>5, OwnFrame
<1>6. CASE UNCHANGED vars
  BY <1>1, <1>6 DEF vars, command
<1> QED BY <1>2, <1>3, <1>4, <1>5, <1>6, Steps

\* A plc_setup that failed, at whatever step, has undone every object it made.
THEOREM EverythingOrNothing == Spec => []AllOrNothing
<1>1. Init => Typed /\ OneKey /\ AllRecorded
  BY TypedInit, LifecycleAssumption DEF Init, AllRecorded, Recorded, Command
<1>2. Typed /\ AllRecorded /\ [Next]_vars => Typed' /\ AllRecorded'
  BY TypedNext, RecordedNext, LifecycleAssumption
<1>3. AllRecorded => AllOrNothing
  BY DEF AllRecorded, Recorded, AllOrNothing
<1> QED BY <1>1, <1>2, <1>3, PTL DEF Spec
-----------------------------------------------------------------------------
(***************************************************************************)
(* A module passed each library only when its objects were there, and only *)
(* a removal, which marks the PLC as torn, takes one away.                 *)
(***************************************************************************)
Passed(m) ==
  att[m] \in Setup \ torn =>
    /\ pc[m] \notin {"off", "cmm"} => "seg" \in made[att[m]] /\ CmmReady(att[m])
    /\ pc[m] \notin {"off", "cmm", "gmm"} => GmmReady(att[m])
    /\ pc[m] \notin {"off", "cmm", "gmm", "synch"} => SynchReady(att[m])
    /\ pc[m] \notin {"off", "cmm", "gmm", "synch", "state"} => StateReady(att[m])
AllPassed == \A m \in Module : Passed(m)

\* Nothing is taken from a PLC that is not torn by the step.
LEMMA NotTorn ==
  ASSUME LifecycleAssumption, Typed, [Next]_vars
  PROVE  torn \subseteq torn' /\ \A s \in Setup \ torn' : made[s] \subseteq made'[s]
<1>1. ASSUME NEW x \in Setup, MakingStep(x)
      PROVE  torn' = torn /\ \A s \in Setup : made[s] \subseteq made'[s]
  <2>1. torn' = torn
    BY <1>1 DEF MakingStep, BeginSetup, Make, LaunchModules, MakeFails
  <2>2. made' = made \/ \E I \in SUBSET Item : made' = [made EXCEPT ![x] = made[x] \cup I]
    <3>1. CASE MakeFails(x)
      <4> DEFINE i == Order[next[x]]
      <4>1. made' = [made EXCEPT ![x] = IF i \in {"magic", "mapKey", "netKey"} THEN made[x] \cup {i} ELSE made[x]]
        BY <3>1 DEF MakeFails
      <4> HIDE DEF i
      <4>2. made[x] = made[x] \cup {} /\ {"magic", "mapKey", "netKey"} \subseteq Item
        BY Orders
      <4> QED BY <4>1, <4>2
    <3>2. CASE Make(x)
      <4>1. next[x] \in 1 .. 14 /\ Order[next[x]] # "launch"
        BY <3>2 DEF Make, Typed
      <4>2. {Order[next[x]]} \in SUBSET Item
        BY <4>1, Orders
      <4>3. made' = [made EXCEPT ![x] = made[x] \cup {Order[next[x]]}]
        BY <3>2 DEF Make
      <4> QED BY <4>2, <4>3
    <3>3. CASE BeginSetup(x) \/ LaunchModules(x)
      BY <3>3 DEF BeginSetup, LaunchModules
    <3> QED BY <1>1, <3>1, <3>2, <3>3 DEF MakingStep
  <2> QED BY <2>1, <2>2 DEF Typed
<1>2. ASSUME NEW p \in Command, UndoingStep(p)
      PROVE  torn \subseteq torn' /\ \A s \in Setup \ torn' : made[s] \subseteq made'[s]
  <2>1. CASE Undo(p)
    <3>1. /\ made' = [x \in Setup |-> IF x = PlcOf(p) /\ Reaches(p, Head(todo[p]))
                                       THEN made[x] \ {Head(todo[p])} ELSE made[x]]
          /\ torn' = IF Reaches(p, Head(todo[p])) THEN torn \cup {PlcOf(p)} ELSE torn
      BY <2>1 DEF Undo
    <3> QED BY <3>1
  <2>2. CASE ~Undo(p)
    BY <1>2, <2>2 DEF UndoingStep, StopModules, CommandEnds, CommandDies
  <2> QED BY <2>1, <2>2
<1>3. ASSUME NEW q \in Shutdown, BeginShutdown(q) PROVE UNCHANGED <<made, torn>>
  BY <1>3 DEF BeginShutdown
<1>4. ASSUME NEW m \in Module, OwnStep(m) PROVE UNCHANGED <<made, torn>>
  BY <1>4, OwnFrame
<1>5. UNCHANGED vars => UNCHANGED <<made, torn>>
  BY DEF vars, command
<1> QED BY <1>1, <1>2, <1>3, <1>4, <1>5, Steps

\* What the steps of the others leave alone of a module.
LEMMA OthersLeave ==
  ASSUME LifecycleAssumption, Typed, NEW m \in Module, [Next]_vars, ~OwnStep(m)
  PROVE  pc'[m] = pc[m] /\ att'[m] = att[m]
<1>1. ASSUME NEW x \in Setup, MakingStep(x) PROVE UNCHANGED <<pc, att>>
  BY <1>1 DEF MakingStep, BeginSetup, Make, LaunchModules, MakeFails
<1>2. ASSUME NEW p \in Command, UndoingStep(p) PROVE UNCHANGED <<pc, att>>
  BY <1>2 DEF UndoingStep, Undo, StopModules, CommandEnds, CommandDies
<1>3. ASSUME NEW q \in Shutdown, BeginShutdown(q) PROVE pc' = pc /\ att'[m] = att[m]
  BY <1>3 DEF BeginShutdown, Typed, LifecycleAssumption
<1>4. ASSUME NEW n \in Module, OwnStep(n), n # m PROVE pc'[m] = pc[m] /\ att'[m] = att[m]
  BY <1>4 DEF OwnStep, ModuleStarts, InitCmm, InitGmm, InitSynch, InitState, InitHandler, InitFails,
     LocksCmm, UnlocksCmm, TermKills, TermInterrupts, HandlerEnds, SomeoneTerms, ModuleDies,
     Gone, Goto, Typed
<1>5. UNCHANGED vars => UNCHANGED <<pc, att>>
  BY DEF vars
<1> QED BY <1>1, <1>2, <1>3, <1>4, <1>5, Steps

LEMMA OwnPasses ==
  ASSUME LifecycleAssumption, Typed, NEW m \in Module, Passed(m), OwnStep(m)
  PROVE  Passed(m)'
<1>0. UNCHANGED <<made, torn>>
  BY OwnFrame
<1> DEFINE s == att[m]
<1> USE DEF CmmReady, GmmReady, SynchReady, StateReady
<1>1. CASE InitCmm(m)
  BY <1>0, <1>1 DEF InitCmm, Goto, Owner, Passed, Typed
<1>2. CASE InitGmm(m)
  BY <1>0, <1>2 DEF InitGmm, Goto, Passed, Typed
<1>3. CASE InitSynch(m)
  BY <1>0, <1>3 DEF InitSynch, Goto, Passed, Typed
<1>4. CASE InitState(m)
  BY <1>0, <1>4 DEF InitState, StateFound, Goto, Passed, Typed
<1>5. CASE InitHandler(m) \/ LocksCmm(m) \/ UnlocksCmm(m) \/ TermInterrupts(m)
  <2>1. /\ att' = att /\ pc[m] \in {"handler", "up", "locked"}
        /\ \E l \in PcType : pc' = [pc EXCEPT ![m] = l]
    BY <1>5 DEF InitHandler, LocksCmm, UnlocksCmm, TermInterrupts, Goto, PcType
  <2> QED BY <1>0, <2>1 DEF Passed, Typed
<1>6. CASE ModuleStarts(m)
  BY <1>0, <1>6 DEF ModuleStarts, Goto, Passed, Typed
<1>7. CASE InitFails(m) \/ TermKills(m) \/ HandlerEnds(m) \/ ModuleDies(m)
  <2>1. pc'[m] = "off"
    BY <1>7 DEF InitFails, TermKills, HandlerEnds, ModuleDies, Gone, Goto, Typed
  <2> QED BY <2>1 DEF Passed
<1>8. CASE SomeoneTerms(m)
  BY <1>0, <1>8 DEF SomeoneTerms, Passed
<1> QED BY <1>1, <1>2, <1>3, <1>4, <1>5, <1>6, <1>7, <1>8 DEF OwnStep

LEMMA PassedNext ==
  ASSUME LifecycleAssumption, Typed, AllPassed, [Next]_vars
  PROVE  AllPassed'
<1> SUFFICES ASSUME NEW m \in Module PROVE Passed(m)'
  BY DEF AllPassed
<1>1. Passed(m)
  BY DEF AllPassed
<1>2. CASE OwnStep(m)
  BY <1>1, <1>2, OwnPasses
<1>3. CASE ~OwnStep(m)
  BY <1>1, <1>3, OthersLeave, NotTorn DEF Passed, CmmReady, GmmReady, SynchReady, StateReady
<1> QED BY <1>2, <1>3

\* A module plc_init accepted has every object of its PLC until a removal has begun.
THEOREM AttachedToAWhole == Spec => []WholeForModules
<1>1. Init => Typed /\ OneKey /\ AllPassed
  BY TypedInit, LifecycleAssumption DEF Init, AllPassed, Passed
<1>2. Typed /\ AllPassed /\ [Next]_vars => Typed' /\ AllPassed'
  BY TypedNext, PassedNext, LifecycleAssumption
<1>3. Typed /\ AllPassed => WholeForModules
  <2> SUFFICES ASSUME Typed, AllPassed, NEW m \in Module, pc[m] \in {"up", "locked"}, att[m] \notin torn
               PROVE  Obj \cup {"state"} \subseteq made[att[m]]
    BY DEF WholeForModules
  <2>1. att[m] \in Setup \ torn /\ Passed(m)
    BY DEF Typed, AllPassed
  <2> QED BY <2>1 DEF Passed, CmmReady, GmmReady, SynchReady, StateReady, Obj
<1> QED BY <1>1, <1>2, <1>3, PTL DEF Spec
-----------------------------------------------------------------------------
(***************************************************************************)
(* A shutdown that met no error still lists what is left of its PLC. It    *)
(* takes the objects of the map before the block that tells it of them,    *)
(* and no other command is at work on that PLC, then or later.             *)
(***************************************************************************)
BusyAt(p) == cmd[p] \in {"making", "undoing"}
OneBusy == \A p, q \in Command : BusyAt(p) /\ BusyAt(q) => p = q
MapFirst(t) ==
  \A i, j \in 1 .. Len(t) : t[i] = "gmm" /\ t[j] \in {"map", "mapMutex"} => j < i
Listed(q) ==
  /\ made[att[q]] \cap Obj \subseteq Entries(todo[q]) /\ MapFirst(todo[q])
  /\ Entries(todo[q]) \cap {"map", "mapMutex"} # {} => "gmm" \in made[att[q]]
Honest(q) ==
  /\ att[q] # NoPlc => cmd[att[q]] \notin {"idle", "making"}
  /\ cmd[q] \in {"undoing", "ended"} /\ ok[q] => att[q] \in Setup
  /\ cmd[q] = "undoing" /\ ok[q] => Listed(q)
  /\ cmd[q] = "ended" /\ ok[q] => made[att[q]] \cap Obj = {}
AllHonest == \A q \in Shutdown : Honest(q)

LEMMA Firsts ==
  ASSUME NEW a \in Seq(Lists), NEW b \in Seq(Lists), MapFirst(a), MapFirst(b),
         "gmm" \notin Entries(a) \/ Entries(b) \cap {"map", "mapMutex"} = {}
  PROVE  MapFirst(a \o b)
<1>1. /\ a \o b \in Seq(Lists) /\ Len(a \o b) = Len(a) + Len(b)
      /\ \A i \in 1 .. Len(a) + Len(b) : (a \o b)[i] = IF i <= Len(a) THEN a[i] ELSE b[i - Len(a)]
  BY ConcatProperties
<1>2. Len(a) \in Nat /\ Len(b) \in Nat
  OBVIOUS
<1> DEFINE t == a \o b
<1>3. SUFFICES ASSUME NEW i \in 1 .. Len(t), NEW j \in 1 .. Len(t), t[i] = "gmm",
                      t[j] \in {"map", "mapMutex"}
               PROVE  j < i
  BY DEF MapFirst
<1> HIDE DEF t
<1>4. CASE i <= Len(a) /\ j <= Len(a)
  <2>1. a[i] = "gmm" /\ a[j] \in {"map", "mapMutex"} /\ i \in 1 .. Len(a) /\ j \in 1 .. Len(a)
    BY <1>1, <1>2, <1>3, <1>4 DEF t
  <2> QED BY <2>1 DEF MapFirst
<1>5. CASE i > Len(a) /\ j > Len(a)
  <2>1. /\ b[i - Len(a)] = "gmm" /\ b[j - Len(a)] \in {"map", "mapMutex"}
        /\ i - Len(a) \in 1 .. Len(b) /\ j - Len(a) \in 1 .. Len(b)
    BY <1>1, <1>2, <1>3, <1>5 DEF t
  <2>2. j - Len(a) < i - Len(a)
    BY <2>1 DEF MapFirst
  <2> QED BY <1>2, <2>2
<1>6. CASE i > Len(a) /\ j <= Len(a)
  BY <1>2, <1>6
<1>7. CASE i <= Len(a) /\ j > Len(a)
  <2>1. /\ a[i] = "gmm" /\ b[j - Len(a)] \in {"map", "mapMutex"}
        /\ i \in 1 .. Len(a) /\ j - Len(a) \in 1 .. Len(b)
    BY <1>1, <1>2, <1>3, <1>7 DEF t
  <2> QED BY <2>1 DEF Entries
<1> QED BY <1>2, <1>4, <1>5, <1>6, <1>7

LEMMA ShutdownOrdered == MapFirst(ShutdownList)
<1>1. MapFirst(CmmShutdown)
  BY DEF MapFirst, CmmShutdown
<1>2. MapFirst(GmmShutdown)
  BY DEF MapFirst, GmmShutdown
<1>3. MapFirst(SynchShutdown)
  BY DEF MapFirst, SynchShutdown
<1>4. MapFirst(StateShutdown)
  BY DEF MapFirst, StateShutdown
<1>5. MapFirst(<<"stop">>)
  BY DEF MapFirst
<1>6. <<"stop">> \in Seq(Lists) /\ Entries(<<"stop">>) = {"stop"}
  BY Small DEF Lists
<1>7. MapFirst(UndoGmm)
  <2>1. Entries(CmmShutdown) \cap {"map", "mapMutex"} = {}
    BY ShutdownLists
  <2> QED BY <1>1, <1>2, <2>1, ShutdownLists, Firsts, Zenon DEF UndoGmm
<1>8. MapFirst(UndoSynch)
  <2>1. "gmm" \notin Entries(SynchShutdown)
    BY ShutdownLists
  <2> QED BY <1>3, <1>7, <2>1, ShutdownLists, Undoings, Firsts, Zenon DEF UndoSynch
<1> DEFINE a == <<"stop">> \o StateShutdown
<1>9. MapFirst(a)
  <2>1. "gmm" \notin Entries(<<"stop">>)
    BY <1>6
  <2> QED BY <1>4, <1>5, <1>6, <2>1, ShutdownLists, Firsts, Zenon
<1>10. a \in Seq(Lists) /\ "gmm" \notin Entries(a)
  <2>1. a \in Seq(Lists) /\ Entries(a) = Entries(<<"stop">>) \cup Entries(StateShutdown)
    BY <1>6, ShutdownLists, Joined, Zenon
  <2> HIDE DEF a
  <2> QED BY <1>6, <2>1, ShutdownLists
<1>11. ShutdownList = a \o UndoSynch
  BY DEF ShutdownList
<1> HIDE DEF a
<1> QED BY <1>8, <1>9, <1>10, <1>11, Undoings, Firsts, Zenon

\* A step makes a command busy only when none was.
LEMMA BusyNext ==
  ASSUME LifecycleAssumption, Typed, OneBusy, [Next]_vars
  PROVE  OneBusy'
<1>1. CASE \A p \in Command : BusyAt(p)' => BusyAt(p)
  BY <1>1 DEF OneBusy
<1>2. ASSUME NEW x \in Command, ~Busy, cmd' = [cmd EXCEPT ![x] = "making"] \/ cmd' = [cmd EXCEPT ![x] = "undoing"]
      PROVE  OneBusy'
  BY <1>2 DEF OneBusy, BusyAt, Busy, Typed
<1>3. ASSUME NEW x \in Setup, MakingStep(x) PROVE OneBusy'
  <2>0. x \in Command
    BY DEF Command
  <2>1. CASE BeginSetup(x)
    BY <1>2, <2>0, <2>1 DEF BeginSetup
  <2>2. CASE Make(x)
    BY <1>1, <2>2 DEF Make, BusyAt
  <2>3. CASE LaunchModules(x)
    BY <1>1, <2>3 DEF LaunchModules, BusyAt, Typed
  <2>4. CASE MakeFails(x)
    BY <1>1, <2>4 DEF MakeFails, BusyAt, Typed
  <2> QED BY <1>3, <2>1, <2>2, <2>3, <2>4 DEF MakingStep
<1>4. ASSUME NEW q \in Shutdown, BeginShutdown(q) PROVE OneBusy'
  BY <1>2, <1>4 DEF BeginShutdown, Command
<1>5. ASSUME NEW p \in Command, UndoingStep(p) PROVE OneBusy'
  BY <1>1, <1>5 DEF UndoingStep, Undo, StopModules, CommandEnds, CommandDies, BusyAt, Typed
<1>6. ASSUME NEW m \in Module, OwnStep(m) PROVE OneBusy'
  BY <1>1, <1>6, OwnFrame DEF BusyAt
<1>7. CASE UNCHANGED vars
  BY <1>1, <1>7 DEF vars, command, BusyAt
<1> QED BY <1>3, <1>4, <1>5, <1>6, <1>7, Steps

\* The steps of the shutdown itself.
LEMMA ShutdownBegins ==
  ASSUME LifecycleAssumption, Typed, AllRecorded, NEW q \in Shutdown, Honest(q), BeginShutdown(q)
  PROVE  Honest(q)'
<1>0. q \in Command /\ ~Busy /\ q \notin Setup
  BY DEF BeginShutdown, Command, LifecycleAssumption
<1> DEFINE t == ShutdownList
<1>1. /\ cmd' = [cmd EXCEPT ![q] = "undoing"] /\ todo' = [todo EXCEPT ![q] = t]
      /\ made' = made
  BY DEF BeginShutdown
<1>2. Obj \subseteq Entries(t) /\ MapFirst(t)
  BY ShutdownTyped, ShutdownOrdered DEF Obj
<1>7. ShutdownList = t
  OBVIOUS
<1> HIDE DEF t
<1>3. cmd'[q] = "undoing" /\ todo'[q] = t
  BY <1>0, <1>1 DEF Typed
<1>4. CASE att' = att /\ ok' = [ok EXCEPT ![q] = FALSE]
  <2>1. att[q] # NoPlc => att[q] \in Setup
    BY DEF Typed
  <2>2. ~ok'[q]
    BY <1>4 DEF Typed
  <2> QED BY <1>0, <1>1, <1>3, <1>4, <2>1, <2>2 DEF Honest
<1>5. ASSUME NEW s \in Owner, att' = [att EXCEPT ![q] = s], NEW b \in BOOLEAN,
             (b => GmmReady(s)), ok' = [ok EXCEPT ![q] = b]
      PROVE  Honest(q)'
  <2>1. att'[q] = s /\ s \in Setup /\ s \in Command
    BY <1>5 DEF Typed, Owner, Command
  <2>2. ok'[q] = b
    BY <1>5 DEF Typed
  <2>3. cmd'[s] = cmd[s] /\ cmd[s] # "making"
    BY <1>0, <1>1, <2>1 DEF Busy, Typed
  <2>4. cmd[s] # "idle"
    BY <1>5, <2>1 DEF AllRecorded, Recorded, Owner
  <2>5. b => "gmm" \in made[s]
    BY <1>5 DEF GmmReady
  <2>6. ok'[q] => Listed(q)'
    BY <1>1, <1>2, <1>3, <2>1, <2>2, <2>5 DEF Listed
  <2> QED BY <1>3, <2>1, <2>3, <2>4, <2>6 DEF Honest
<1>6. \/ att' = att /\ ok' = [ok EXCEPT ![q] = FALSE]
      \/ \E s \in Owner : /\ att' = [att EXCEPT ![q] = s]
                          /\ \E b \in BOOLEAN : (b => GmmReady(s)) /\ ok' = [ok EXCEPT ![q] = b]
  BY DEF BeginShutdown
<1> QED BY <1>4, <1>5, <1>6

LEMMA ShutdownUndoes ==
  ASSUME LifecycleAssumption, Typed, NEW q \in Shutdown, Honest(q), UndoingStep(q)
  PROVE  Honest(q)'
<1>0. q \in Command /\ q \notin Setup /\ todo[q] \in Seq(Lists) /\ PlcOf(q) = att[q]
  BY DEF Command, LifecycleAssumption, Typed, PlcOf
<1>a. att' = att /\ \A s \in Setup : cmd'[s] = cmd[s]
  <2>1. cmd' = cmd \/ \E c \in CmdType : cmd' = [cmd EXCEPT ![q] = c]
    BY <1>0 DEF UndoingStep, Undo, StopModules, CommandEnds, CommandDies, CmdType
  <2>2. att' = att
    BY DEF UndoingStep, Undo, StopModules, CommandEnds, CommandDies
  <2> QED BY <1>0, <2>1, <2>2 DEF Typed, Command
<1>b. att'[q] # NoPlc => cmd'[att'[q]] \notin {"idle", "making"}
  BY <1>a DEF Honest, Typed
<1>t. ASSUME todo[q] # <<>>
      PROVE  /\ Entries(todo[q]) = {Head(todo[q])} \cup Entries(Tail(todo[q]))
             /\ MapFirst(todo[q]) => MapFirst(Tail(todo[q]))
             /\ MapFirst(todo[q]) /\ Head(todo[q]) = "gmm"
                  => Entries(Tail(todo[q])) \cap {"map", "mapMutex"} = {}
  <2> DEFINE t == todo[q]  u == Tail(t)
  <2>1. /\ Entries(t) = {Head(t)} \cup Entries(u) /\ \A j \in 1 .. Len(u) : u[j] = t[j + 1]
        /\ Len(u) = Len(t) - 1 /\ Len(t) \in Nat /\ Head(t) = t[1]
    BY <1>0, <1>t, Tails
  <2> HIDE DEF t, u
  <2>2. \A j \in 1 .. Len(u) : j + 1 \in 1 .. Len(t)
    BY <2>1
  <2>3. MapFirst(t) => MapFirst(u)
    <3> SUFFICES ASSUME MapFirst(t), NEW i \in 1 .. Len(u), NEW j \in 1 .. Len(u), u[i] = "gmm",
                        u[j] \in {"map", "mapMutex"}
                 PROVE  j < i
      BY DEF MapFirst
    <3>1. j + 1 < i + 1
      BY <2>1, <2>2 DEF MapFirst
    <3> QED BY <3>1
  <2>4. MapFirst(t) /\ Head(t) = "gmm" => Entries(u) \cap {"map", "mapMutex"} = {}
    <3> SUFFICES ASSUME MapFirst(t), Head(t) = "gmm", NEW j \in 1 .. Len(u), u[j] \in {"map", "mapMutex"}
                 PROVE  FALSE
      BY DEF Entries
    <3>1. 1 \in 1 .. Len(t)
      BY <2>2, <2>1
    <3>2. j + 1 < 1
      BY <2>1, <2>2, <3>1 DEF MapFirst
    <3> QED BY <3>2
  <2> QED BY <2>1, <2>3, <2>4 DEF t, u
<1>1. CASE Undo(q)
  <2> DEFINE i == Head(todo[q])  s == att[q]
  <2>1. /\ cmd[q] = "undoing" /\ cmd'[q] = "undoing" /\ todo[q] # <<>> /\ todo'[q] = Tail(todo[q])
    BY <1>0, <1>1 DEF Undo, GoesOn, Typed
  <2>2. ok'[q] <=> ok[q] /\ InPeace(q, i)
    <3>1. ok' = [x \in Shutdown |-> IF x = q THEN ok[x] /\ InPeace(q, i) ELSE ok[x]]
      BY <1>1 DEF Undo
    <3> HIDE DEF i
    <3>2. ok'[q] = (ok[q] /\ InPeace(q, i))
      BY <3>1, Zenon
    <3> QED BY <3>2
  <2>3. \A x \in Setup : made'[x] = IF x = s /\ Reaches(q, i) THEN made[x] \ {i} ELSE made[x]
    BY <1>0, <1>1 DEF Undo
  <2>4. ASSUME ok'[q] PROVE att'[q] \in Setup /\ Listed(q)'
    <3>1. s \in Setup /\ Listed(q) /\ InPeace(q, i)
      BY <2>1, <2>2, <2>4 DEF Honest
    <3>2. /\ Entries(todo[q]) = {i} \cup Entries(todo'[q])
          /\ MapFirst(todo'[q])
          /\ i = "gmm" => Entries(todo'[q]) \cap {"map", "mapMutex"} = {}
      BY <1>t, <2>1, <3>1 DEF Listed
    <3>3. Reaches(q, i) \/ i \notin Obj \/ (i \in {"map", "mapMutex"} /\ "gmm" \notin made[s])
      BY <1>0, <3>1 DEF InPeace, Obj
    <3>4. Reaches(q, i) \/ i \notin Obj
      BY <3>1, <3>2, <3>3 DEF Listed
    <3>5. made'[s] = IF Reaches(q, i) THEN made[s] \ {i} ELSE made[s]
      BY <2>3, <3>1
    <3> HIDE DEF i, s
    <3>6. made'[s] \cap Obj \subseteq Entries(todo'[q])
      BY <3>1, <3>2, <3>4, <3>5 DEF Listed, s
    <3>7. Entries(todo'[q]) \cap {"map", "mapMutex"} # {} => "gmm" \in made'[s]
      BY <3>1, <3>2, <3>5 DEF Listed, s
    <3> QED BY <1>a, <3>1, <3>2, <3>6, <3>7 DEF Listed, s
  <2> QED BY <1>b, <2>1, <2>4 DEF Honest
<1>2. CASE StopModules(q)
  <2>1. /\ cmd[q] = "undoing" /\ cmd'[q] = "undoing" /\ todo[q] # <<>> /\ todo'[q] = Tail(todo[q])
        /\ made' = made /\ Head(todo[q]) = "stop"
    BY <1>0, <1>2 DEF StopModules, Typed
  <2>2. ok'[q] => ok[q]
    <3> DEFINE s == PlcOf(q)
               alive == IF s = NoPlc THEN {} ELSE Alive(s)
    <3>1. ok' = [x \in Shutdown |-> IF x = q THEN ok[x] /\ s # NoPlc /\ reg[s] = alive ELSE ok[x]]
      BY <1>2 DEF StopModules
    <3> HIDE DEF s, alive
    <3>2. ok'[q] = (ok[q] /\ s # NoPlc /\ reg[s] = alive)
      BY <3>1, Zenon
    <3> QED BY <3>2
  <2>3. ASSUME ok'[q] PROVE att'[q] \in Setup /\ Listed(q)'
    <3>1. att[q] \in Setup /\ Listed(q)
      BY <2>1, <2>2, <2>3 DEF Honest
    <3>2. Entries(todo[q]) = {"stop"} \cup Entries(todo'[q]) /\ MapFirst(todo'[q])
      BY <1>t, <2>1, <3>1 DEF Listed
    <3> QED BY <1>a, <2>1, <3>1, <3>2 DEF Listed, Obj
  <2> QED BY <1>b, <2>1, <2>3 DEF Honest
<1>3. CASE CommandEnds(q)
  <2>1. /\ cmd[q] = "undoing" /\ cmd'[q] = "ended" /\ todo[q] = <<>> /\ UNCHANGED <<made, ok>>
    BY <1>0, <1>3 DEF CommandEnds, Typed
  <2> QED BY <1>a, <1>b, <2>1, Small DEF Honest, Listed
<1>4. CASE CommandDies(q)
  <2>1. cmd'[q] = "died"
    BY <1>0, <1>4 DEF CommandDies, Typed
  <2> QED BY <1>b, <2>1 DEF Honest
<1> QED BY <1>1, <1>2, <1>3, <1>4 DEF UndoingStep

\* The steps of the others do not touch the PLC a shutdown is at, or only take from it.
LEMMA HonestNext ==
  ASSUME LifecycleAssumption, Typed, AllRecorded, OneBusy, AllHonest, [Next]_vars
  PROVE  AllHonest'
<1> SUFFICES ASSUME NEW q \in Shutdown PROVE Honest(q)'
  BY DEF AllHonest
<1>0. Honest(q) /\ q \in Command /\ q \notin Setup /\ att[q] \in Setup \cup {NoPlc}
  BY DEF AllHonest, Command, LifecycleAssumption, Typed
<1>1. ASSUME att'[q] = att[q], cmd'[q] = cmd[q], ok'[q] = ok[q], todo'[q] = todo[q],
             att[q] \in Setup => made'[att[q]] = made[att[q]] /\ cmd'[att[q]] = cmd[att[q]]
      PROVE  Honest(q)'
  BY <1>0, <1>1 DEF Honest, Listed
<1>2. ASSUME NEW x \in Setup, MakingStep(x) PROVE Honest(q)'
  <2>1. x # att[q] /\ x # q
    BY <1>0, <1>2 DEF MakingStep, BeginSetup, Make, LaunchModules, MakeFails, Honest,
                      LifecycleAssumption
  <2>2. att' = att /\ ok' = ok
    BY <1>2 DEF MakingStep, BeginSetup, Make, LaunchModules, MakeFails
  <2>3. todo'[q] = todo[q]
    <3>1. CASE MakeFails(x)
      <4> DEFINE t == ErrorExit(Order[next[x]])
      <4>1. todo' = [todo EXCEPT ![x] = t]
        BY <3>1 DEF MakeFails
      <4> HIDE DEF t
      <4> QED BY <1>0, <2>1, <4>1 DEF Typed
    <3> QED BY <1>2, <3>1 DEF MakingStep, BeginSetup, Make, LaunchModules
  <2>4. \A p \in Command : p # x => cmd'[p] = cmd[p]
    BY <1>2 DEF MakingStep, BeginSetup, Make, LaunchModules, MakeFails, Typed
  <2>5. \A p \in Setup : p # x => made'[p] = made[p]
    BY <1>2 DEF MakingStep, BeginSetup, Make, LaunchModules, MakeFails, Typed
  <2> QED BY <1>0, <1>1, <2>1, <2>2, <2>3, <2>4, <2>5 DEF Command
<1>3. ASSUME NEW x \in Shutdown, BeginShutdown(x) PROVE Honest(q)'
  <2>1. CASE x = q
    BY <1>0, <1>3, <2>1, ShutdownBegins
  <2>2. CASE x # q
    <3>1. made' = made /\ cmd' = [cmd EXCEPT ![x] = "undoing"]
      BY <1>3 DEF BeginShutdown
    <3>2. att'[q] = att[q] /\ ok'[q] = ok[q]
      BY <1>3, <2>2 DEF BeginShutdown, Typed
    <3> DEFINE t == ShutdownList
    <3>3. todo' = [todo EXCEPT ![x] = t]
      BY <1>3 DEF BeginShutdown
    <3> HIDE DEF t
    <3>4. todo'[q] = todo[q] /\ cmd'[q] = cmd[q] /\ \A s \in Setup : cmd'[s] = cmd[s]
      BY <1>0, <2>2, <3>1, <3>3 DEF Typed, Command, LifecycleAssumption
    <3> QED BY <1>1, <3>1, <3>2, <3>4
  <2> QED BY <2>1, <2>2
<1>4. ASSUME NEW p \in Command, UndoingStep(p) PROVE Honest(q)'
  <2>1. CASE p = q
    BY <1>0, <1>4, <2>1, ShutdownUndoes
  <2>2. CASE p # q
    <3>1. BusyAt(p)
      BY <1>4 DEF UndoingStep, Undo, StopModules, CommandEnds, CommandDies, BusyAt
    <3>2. cmd[q] # "undoing"
      BY <1>0, <2>2, <3>1 DEF OneBusy, BusyAt
    <3>3. att' = att /\ \A s \in Setup : made'[s] \subseteq made[s]
      BY <1>4 DEF UndoingStep, Undo, StopModules, CommandEnds, CommandDies
    <3>4. cmd'[q] = cmd[q]
      BY <1>0, <1>4, <2>2 DEF UndoingStep, Undo, StopModules, CommandEnds, CommandDies, Typed
    <3>5. \A s \in Setup : cmd[s] \notin {"idle", "making"} => cmd'[s] \notin {"idle", "making"}
      BY <1>4 DEF UndoingStep, Undo, StopModules, CommandEnds, CommandDies, Typed, Command
    <3>6. ok'[q] = ok[q]
      <4>1. CASE Undo(p)
        <5>1. ok' = [x \in Shutdown |-> IF x = p THEN ok[x] /\ InPeace(p, Head(todo[p])) ELSE ok[x]]
          BY <4>1 DEF Undo
        <5> QED BY <2>2, <5>1
      <4>2. CASE StopModules(p)
        <5> DEFINE s == PlcOf(p)
                   alive == IF s = NoPlc THEN {} ELSE Alive(s)
        <5>1. ok' = [x \in Shutdown |-> IF x = p THEN ok[x] /\ s # NoPlc /\ reg[s] = alive ELSE ok[x]]
          BY <4>2 DEF StopModules
        <5> HIDE DEF s, alive
        <5> QED BY <2>2, <5>1
      <4> QED BY <1>4, <4>1, <4>2 DEF UndoingStep, CommandEnds, CommandDies
    <3> QED BY <1>0, <3>2, <3>3, <3>4, <3>5, <3>6 DEF Honest
  <2> QED BY <2>1, <2>2
<1>5. ASSUME NEW m \in Module, OwnStep(m) PROVE Honest(q)'
  BY <1>1, <1>5, OwnFrame
<1>6. CASE UNCHANGED vars
  BY <1>1, <1>6 DEF vars, command
<1> QED BY <1>2, <1>3, <1>4, <1>5, <1>6, Steps

\* A plc_shutdown that reports success has left no object of the PLC it was attached to.
THEOREM ReportIsTrue == Spec => []HonestShutdown
<1>1. Init => Typed /\ OneKey /\ AllRecorded /\ OneBusy /\ AllHonest
  <2> SUFFICES ASSUME Init PROVE Typed /\ OneKey /\ AllRecorded /\ OneBusy /\ AllHonest
    OBVIOUS
  <2>1. Typed /\ OneKey
    BY TypedInit, LifecycleAssumption
  <2>2. AllRecorded /\ OneBusy
    BY DEF Init, AllRecorded, Recorded, OneBusy, BusyAt, Command
  <2>3. AllHonest
    BY DEF Init, AllHonest, Honest, Command
  <2> QED BY <2>1, <2>2, <2>3
<1>2. Typed /\ AllRecorded /\ OneBusy /\ AllHonest /\ [Next]_vars
        => Typed' /\ AllRecorded' /\ OneBusy' /\ AllHonest'
  BY TypedNext, RecordedNext, BusyNext, HonestNext, LifecycleAssumption
<1>3. AllHonest => HonestShutdown
  BY DEF AllHonest, Honest, HonestShutdown
<1> QED BY <1>1, <1>2, <1>3, PTL DEF Spec

(***************************************************************************)
(* Cmm: the list of the blocks.                                            *)
(***************************************************************************)
\* A set of numbers has a least one.
LEMMA LeastOf ==
  ASSUME NEW S \in SUBSET Nat, S # {}
  PROVE  \E i \in S : \A j \in S : i <= j
<1>1. PICK i \in S : \A j \in S : <<j, i>> \notin OpToRel(<, Nat)
  BY NatLessThanWellFounded, WFMin
<1>2. ASSUME NEW j \in S PROVE i <= j
  <2>1. <<j, i>> \in Nat \X Nat
    OBVIOUS
  <2>2. ~(j < i)
    BY <1>1, <2>1 DEF OpToRel
  <2> QED BY <2>2
<1> QED BY <1>2

\* Links only lead forward and prevs only back, in every cell of the segment,
\* the stale headers and the users' bytes included.
CellType == [type : {"free", "used", "zero"}, next : 0..confmap_size,
             prev : 0..confmap_size, size : 0..confmap_size]
Forward(m) == \A c \in 1..confmap_size : /\ m[c].next = 0 \/ m[c].next > c
                                         /\ m[c].prev < c
Memory(m) == /\ confmap_size \in Nat /\ confmap_size > HEADER
             /\ m \in [1..confmap_size -> CellType]
             /\ Forward(m)

LEMMA CellOf ==
  ASSUME NEW m, Memory(m), NEW c \in 1..confmap_size
  PROVE  /\ m[c].type \in {"free", "used", "zero"}
         /\ m[c].next \in 0..confmap_size /\ (m[c].next = 0 \/ m[c].next > c)
         /\ m[c].prev \in 0..confmap_size /\ m[c].prev < c
         /\ m[c].size \in 0..confmap_size
         /\ m[c] \in CellType
<1>1. m[c] \in CellType
  BY DEF Memory
<1>2. /\ m[c].next = 0 \/ m[c].next > c
      /\ m[c].prev < c
  BY DEF Memory, Forward
<1> QED BY <1>1, <1>2 DEF CellType

\* The loop over the list ends, from wherever it starts.
LEMMA ListDefined ==
  ASSUME NEW m, Memory(m)
  PROVE  \E f : f = [b \in 0..confmap_size |-> IF b = 0 THEN <<>> ELSE <<b>> \o f[m[b].next]]
<1> DEFINE N == confmap_size
           Def(f, k) == /\ f \in [0..N -> Seq(Nat)]
                        /\ f[0] = <<>>
                        /\ \A b \in k..N : b # 0 => f[b] = <<b>> \o f[m[b].next]
           Bad == {j \in 0..N : ~ \E f : Def(f, N + 1 - j)}
<1>0. N \in Nat
  BY DEF Memory
<1>1. ASSUME Bad # {} PROVE FALSE
  <2>0. Bad \in SUBSET Nat
    BY <1>0
  <2> HIDE DEF Bad
  <2>1. PICK j \in Bad : \A i \in Bad : j <= i
    BY <1>1, <2>0, LeastOf
  <2> USE DEF Bad
  <2> HIDE DEF Def
  <2>2. CASE j = 0
    <3> DEFINE f == [b \in 0..N |-> <<>>]
    <3>1. Def(f, N + 1 - j)
      BY <1>0, <2>2 DEF Def
    <3> HIDE DEF f, Def
    <3> QED BY <2>1, <3>1
  <2>3. CASE j # 0
    <3>1. j - 1 \in 0..N /\ j - 1 \notin Bad /\ N + 1 - (j - 1) = N + 2 - j
      BY <1>0, <2>1, <2>3
    <3>2. PICK f : Def(f, N + 2 - j)
      BY <3>1
    <3> DEFINE k == N + 1 - j
               g == [f EXCEPT ![k] = <<k>> \o f[m[k].next]]
    <3>3. k \in 1..N /\ k + 1 = N + 2 - j
      BY <1>0, <2>1, <2>3
    <3>8. /\ f \in [0..N -> Seq(Nat)] /\ f[0] = <<>>
          /\ \A b \in k + 1..N : b # 0 => f[b] = <<b>> \o f[m[b].next]
      BY <3>2, <3>3 DEF Def
    <3> HIDE DEF k
    <3>9. m[k].next \in 0..N
      BY <3>3, CellOf
    <3>4. g \in [0..N -> Seq(Nat)] /\ g[0] = <<>> /\ \A b \in 0..N : b # k => g[b] = f[b]
      BY <1>0, <3>8, <3>3, <3>9
    <3>5. g[k] = <<k>> \o f[m[k].next]
      BY <1>0, <3>8, <3>3
    <3> HIDE DEF g
    <3>6. ASSUME NEW b \in k..N, b # 0 PROVE g[b] = <<b>> \o g[m[b].next]
      <4>1. b \in 1..N
        BY <1>0, <3>3, <3>6
      <4>2. m[b].next \in 0..N /\ (m[b].next = 0 \/ m[b].next > b)
        BY <4>1, CellOf
      <4>3. g[m[b].next] = f[m[b].next]
        BY <1>0, <3>3, <3>4, <4>1, <4>2
      <4>4. CASE b = k
        BY <3>5, <4>3, <4>4
      <4>5. CASE b # k
        <5>1. b \in k + 1..N /\ b \in 0..N
          BY <1>0, <3>3, <4>1, <4>5
        <5>2. g[b] = f[b] /\ f[b] = <<b>> \o f[m[b].next]
          BY <3>4, <3>6, <3>8, <4>5, <5>1
        <5> QED BY <4>3, <5>2
      <4> QED BY <4>4, <4>5
    <3>7. Def(g, k)
      BY <3>4, <3>6 DEF Def
    <3> QED BY <2>1, <3>7 DEF k
  <2> QED BY <2>2, <2>3
<1>2. N \in 0..N /\ N + 1 - N = 1
  BY <1>0
<1>3. PICK f : Def(f, 1)
  <2> HIDE DEF Def
  <2>1. N \notin Bad
    BY <1>1
  <2>2. \E f : Def(f, N + 1 - N)
    BY <1>2, <2>1
  <2> QED BY <1>2, <2>2
<1>4. f = [b \in 0..N |-> IF b = 0 THEN <<>> ELSE <<b>> \o f[m[b].next]]
  <2> DEFINE h == [b \in 0..N |-> IF b = 0 THEN <<>> ELSE <<b>> \o f[m[b].next]]
  <2>1. ASSUME NEW b \in 0..N PROVE f[b] = h[b]
    <3>1. b = 0 \/ b \in 1..N
      BY <1>0
    <3> QED BY <1>3, <3>1
  <2>2. f \in [0..N -> Seq(Nat)] /\ h = [b \in 0..N |-> h[b]]
    BY <1>3
  <2> HIDE DEF h
  <2>3. f = h
    BY <2>1, <2>2
  <2> QED BY <2>3 DEF h
<1> QED BY <1>4

\* The list the loop sees from block b on.
Chain(m, s, b) ==
  /\ s \in Seq(1..confmap_size) /\ Len(s) >= 1 /\ s[1] = b
  /\ \A i \in 1..Len(s) - 1 : s[i + 1] = m[s[i]].next /\ m[s[i]].next # 0
  /\ m[s[Len(s)]].next = 0

LEMMA BlocksChain ==
  ASSUME NEW m, Memory(m)
  PROVE  Chain(m, BlocksFrom(m), First)
<1> DEFINE N == confmap_size
           from[b \in 0..confmap_size] == IF b = 0 THEN <<>> ELSE <<b>> \o from[m[b].next]
<1>0. N \in Nat /\ N > 1
  BY DEF Memory, HEADER
<1>1. from = [b \in 0..N |-> IF b = 0 THEN <<>> ELSE <<b>> \o from[m[b].next]]
  BY ListDefined
<1>2. BlocksFrom(m) = from[First]
  BY DEF BlocksFrom
<1> HIDE DEF from
<1> DEFINE Bad == {j \in 0..N - 1 : ~Chain(m, from[N - j], N - j)}
<1>3. ASSUME Bad # {} PROVE FALSE
  <2>0. Bad \in SUBSET Nat
    BY <1>0
  <2> HIDE DEF Bad
  <2>1. PICK j \in Bad : \A i \in Bad : j <= i
    BY <1>3, <2>0, LeastOf
  <2> USE DEF Bad
  <2> DEFINE b == N - j
             nx == m[b].next
  <2>2. b \in 1..N /\ j \in 0..N - 1
    BY <1>0, <2>1
  <2>3. nx \in 0..N /\ (nx = 0 \/ nx > b)
    BY <2>2, CellOf
  <2>4. from[b] = <<b>> \o from[nx]
    <3> DEFINE h == [a \in 0..N |-> IF a = 0 THEN <<>> ELSE <<a>> \o from[m[a].next]]
    <3>1. \A a \in 1..N : h[a] = <<a>> \o from[m[a].next]
      BY <1>0
    <3>2. from = h
      BY <1>1
    <3> HIDE DEF h
    <3>3. \A a \in 1..N : from[a] = <<a>> \o from[m[a].next]
      BY <3>1, <3>2
    <3> QED BY <2>2, <3>3
  <2>5. ~Chain(m, from[b], b)
    BY <2>1
  <2>6. CASE nx = 0
    <3>1. from[nx] = <<>>
      BY <1>0, <1>1, <2>6
    <3>2. from[b] = <<b>>
      BY <2>2, <2>4, <3>1
    <3> HIDE DEF b
    <3> QED BY <2>2, <2>5, <2>6, <3>2 DEF Chain
  <2>7. CASE nx # 0
    <3>1. N - nx \in 0..N - 1 /\ N - nx < j /\ N - (N - nx) = nx
      BY <1>0, <2>2, <2>3, <2>7
    <3>2. Chain(m, from[nx], nx)
      BY <1>0, <2>1, <2>2, <3>1
    <3> DEFINE T == from[nx]
    <3>3. /\ T \in Seq(1..N) /\ Len(T) >= 1 /\ T[1] = nx
          /\ \A i \in 1..Len(T) - 1 : T[i + 1] = m[T[i]].next /\ m[T[i]].next # 0
          /\ m[T[Len(T)]].next = 0
      BY <3>2 DEF Chain
    <3> HIDE DEF T
    <3> DEFINE S == <<b>> \o T
    <3>4. /\ S \in Seq(1..N) /\ Len(S) = Len(T) + 1 /\ S[1] = b
          /\ \A i \in 1..Len(T) : S[i + 1] = T[i]
      BY <1>0, <2>2, <3>3
    <3> HIDE DEF S, b
    <3>5. ASSUME NEW i \in 1..Len(S) - 1 PROVE S[i + 1] = m[S[i]].next /\ m[S[i]].next # 0
      <4>1. CASE i = 1
        BY <2>7, <3>3, <3>4, <4>1
      <4>2. CASE i # 1
        <5>1. i - 1 \in 1..Len(T) - 1 /\ (i - 1) + 1 = i /\ Len(T) \in Nat
          BY <3>3, <3>4, <4>2
        <5>2. S[i] = T[i - 1] /\ S[i + 1] = T[i]
          BY <3>4, <5>1
        <5> QED BY <3>3, <5>1, <5>2
      <4> QED BY <4>1, <4>2
    <3>6. S[Len(S)] = T[Len(T)]
      BY <3>3, <3>4
    <3>7. Chain(m, S, b)
      BY <3>3, <3>4, <3>5, <3>6 DEF Chain
    <3> QED BY <2>4, <2>5, <3>7 DEF S, T
  <2> QED BY <2>6, <2>7
<1>4. N - 1 \in 0..N - 1 /\ N - (N - 1) = 1
  BY <1>0
<1>5. Chain(m, from[1], 1)
  BY <1>3, <1>4
<1> QED BY <1>2, <1>5 DEF First

\* The blocks of a list as a set: what the first block leads to.
Nodes(m) == {BlocksFrom(m)[i] : i \in DOMAIN BlocksFrom(m)}
IsList(m, L) ==
  /\ L \subseteq 1..confmap_size /\ First \in L
  /\ \A b \in L : m[b].next # 0 => m[b].next \in L
  /\ \A b \in L : b # First => \E a \in L : m[a].next = b

LEMMA NodesAreList ==
  ASSUME NEW m, Memory(m)
  PROVE  IsList(m, Nodes(m))
<1> DEFINE S == BlocksFrom(m)
<1>1. /\ S \in Seq(1..confmap_size) /\ Len(S) >= 1 /\ S[1] = First
      /\ \A i \in 1..Len(S) - 1 : S[i + 1] = m[S[i]].next /\ m[S[i]].next # 0
      /\ m[S[Len(S)]].next = 0
  BY BlocksChain DEF Chain
<1>2. Nodes(m) = {S[i] : i \in 1..Len(S)}
  BY <1>1 DEF Nodes
<1> HIDE DEF S
<1>3. Nodes(m) \subseteq 1..confmap_size /\ First \in Nodes(m)
  <2>1. \A i \in 1..Len(S) : S[i] \in 1..confmap_size
    <3>1. S \in Seq(1..confmap_size)
      BY <1>1
    <3> QED BY <3>1, ElementOfSeq
  <2>2. 1 \in 1..Len(S)
    BY <1>1
  <2> QED BY <1>1, <1>2, <2>1, <2>2
<1>4. ASSUME NEW b \in Nodes(m), m[b].next # 0 PROVE m[b].next \in Nodes(m)
  <2>1. PICK i \in 1..Len(S) : b = S[i]
    BY <1>2
  <2>2. i \in 1..Len(S) - 1 /\ i + 1 \in 1..Len(S)
    BY <1>1, <1>4, <2>1
  <2> QED BY <1>1, <1>2, <2>1, <2>2
<1>5. ASSUME NEW b \in Nodes(m), b # First PROVE \E a \in Nodes(m) : m[a].next = b
  <2>1. PICK i \in 1..Len(S) : b = S[i]
    BY <1>2
  <2>2. i - 1 \in 1..Len(S) - 1 /\ i - 1 \in 1..Len(S) /\ (i - 1) + 1 = i
    BY <1>1, <1>5, <2>1
  <2>3. S[i - 1] \in Nodes(m) /\ m[S[i - 1]].next = b
    BY <1>1, <1>2, <2>1, <2>2
  <2> QED BY <2>3
<1> QED BY <1>3, <1>4, <1>5 DEF IsList

\* Nothing else is closed under the links, so that a set closed under the links
\* of a memory has all its blocks.
LEMMA ListWithin ==
  ASSUME NEW m, Memory(m), NEW L, IsList(m, L),
         NEW K, First \in K, \A b \in K : m[b].next # 0 => m[b].next \in K
  PROVE  L \subseteq K
<1> DEFINE D == L \ K
<1>1. D \in SUBSET Nat /\ L \subseteq 1..confmap_size
  BY DEF IsList, Memory
<1>2. SUFFICES ASSUME D # {} PROVE FALSE
  OBVIOUS
<1> HIDE DEF D
<1>3. PICK b \in D : \A c \in D : b <= c
  BY <1>1, <1>2, LeastOf
<1> USE DEF D
<1>4. PICK a \in L : m[a].next = b
  BY <1>3 DEF IsList
<1>5. a < b /\ b # 0 /\ a \in 1..confmap_size
  BY <1>1, <1>3, <1>4, CellOf DEF Memory
<1>6. a \in K
  BY <1>3, <1>4, <1>5 DEF IsList, Memory
<1> QED BY <1>3, <1>4, <1>5, <1>6

LEMMA ListUnique ==
  ASSUME NEW m, Memory(m), NEW L, IsList(m, L)
  PROVE  Nodes(m) = L
<1>1. IsList(m, Nodes(m))
  BY NodesAreList
<1>2. L \subseteq Nodes(m)
  <2> HIDE DEF Nodes
  <2>1. First \in Nodes(m) /\ \A b \in Nodes(m) : m[b].next # 0 => m[b].next \in Nodes(m)
    BY <1>1 DEF IsList
  <2> QED BY <2>1, ListWithin
<1>3. Nodes(m) \subseteq L
  <2>1. First \in L /\ \A b \in L : m[b].next # 0 => m[b].next \in L
    BY DEF IsList
  <2> QED BY <1>1, <2>1, ListWithin
<1> QED BY <1>2, <1>3

\* The block that follows b is the next one of the segment.
LEMMA NextIsNearest ==
  ASSUME NEW m, Memory(m), NEW L, IsList(m, L), NEW b \in L, NEW c \in L, b < c
  PROVE  m[b].next # 0 /\ m[b].next <= c
<1> DEFINE Skips(x, y) == x < y /\ ~(m[x].next # 0 /\ m[x].next <= y)
           D == {y \in L : \E x \in L : Skips(x, y)}
<1>1. L \subseteq 1..confmap_size /\ confmap_size \in Nat
  BY DEF IsList, Memory
<1>2. SUFFICES ASSUME D # {} PROVE FALSE
  OBVIOUS
<1>3. D \in SUBSET Nat
  <2>1. D \subseteq L
    OBVIOUS
  <2> HIDE DEF D
  <2> QED BY <1>1, <2>1
<1> HIDE DEF D
<1>4. PICK y \in D : \A z \in D : y <= z
  BY <1>2, <1>3, LeastOf
<1> USE DEF D
<1>5. PICK x \in L : Skips(x, y)
  BY <1>4
<1>6. y \in L /\ x < y /\ y # First /\ x \in 1..confmap_size /\ y \in 1..confmap_size
  <2>1. y \in L /\ x < y
    BY <1>4, <1>5
  <2> HIDE DEF D
  <2>2. x \in 1..confmap_size /\ y \in 1..confmap_size
    BY <1>1, <2>1
  <2> QED BY <1>1, <2>1, <2>2 DEF First
<1>7. PICK a \in L : m[a].next = y
  BY <1>6 DEF IsList
<1>8. a < y /\ a \in 1..confmap_size
  BY <1>1, <1>6, <1>7, CellOf
<1>9. m[x].next \in 0..confmap_size
  BY <1>6, CellOf
<1>10. CASE a = x
  BY <1>5, <1>6, <1>7, <1>10
<1>11. CASE x < a
  <2>1. a \notin D
    <3> HIDE DEF D
    <3> QED BY <1>1, <1>4, <1>6, <1>8
  <2>2. m[x].next # 0 /\ m[x].next <= a
    BY <1>6, <1>11, <2>1
  <2> QED BY <1>1, <1>5, <1>6, <1>8, <1>9, <2>2
<1>12. CASE a < x
  <2>1. x \notin D
    <3> HIDE DEF D
    <3> QED BY <1>1, <1>4, <1>6, <1>12
  <2>2. m[a].next # 0 /\ m[a].next <= x
    BY <1>6, <1>12, <2>1
  <2> QED BY <1>6, <1>7, <2>2
<1> QED BY <1>6, <1>8, <1>10, <1>11, <1>12

(***************************************************************************)
(* The three changes of the list: none, a block more, and one less.        *)
(***************************************************************************)
LEMMA LinksKept ==
  ASSUME NEW m, NEW L, IsList(m, L), NEW k, \A b \in L : k[b].next = m[b].next
  PROVE  IsList(k, L)
BY DEF IsList

LEMMA ListInsert ==
  ASSUME NEW m, NEW L, IsList(m, L), NEW b \in L, NEW rest \in 1..confmap_size, rest \notin L,
         NEW k, k[b].next = rest, k[rest].next = m[b].next,
         \A c \in L \ {b} : k[c].next = m[c].next
  PROVE  IsList(k, L \cup {rest})
<1>1. ASSUME NEW c \in L \cup {rest}, k[c].next # 0 PROVE k[c].next \in L \cup {rest}
  BY <1>1 DEF IsList
<1>2. ASSUME NEW c \in L \cup {rest}, c # First PROVE \E a \in L \cup {rest} : k[a].next = c
  <2>1. CASE c = rest
    BY <2>1
  <2>2. CASE c # rest
    <3>1. PICK a \in L : m[a].next = c
      BY <1>2, <2>2 DEF IsList
    <3> QED BY <3>1
  <2> QED BY <2>1, <2>2
<1> QED BY <1>1, <1>2 DEF IsList

LEMMA ListRemove ==
  ASSUME NEW m, Memory(m), NEW L, IsList(m, L), NEW b \in L, m[b].next # 0,
         NEW k, k[b].next = m[m[b].next].next,
         \A c \in L \ {b, m[b].next} : k[c].next = m[c].next
  PROVE  IsList(k, L \ {m[b].next})
<1> DEFINE gone == m[b].next
<1>0. L \subseteq 1..confmap_size /\ confmap_size \in Nat
  BY DEF IsList, Memory
<1>1. gone \in L /\ gone > b /\ gone # 0 /\ gone \in 1..confmap_size /\ b \in 1..confmap_size
  BY <1>0, CellOf DEF IsList
<1>2. gone # First
  BY <1>0, <1>1 DEF First
<1>3. ASSUME NEW c \in L, c # b PROVE m[c].next # gone
  <2>1. CASE c < b
    <3>1. m[c].next <= b
      BY <2>1, NextIsNearest
    <3> HIDE DEF gone
    <3> QED BY <1>0, <1>1, <3>1
  <2>2. CASE b < c
    <3>1. m[b].next <= c
      BY <2>2, NextIsNearest
    <3>2. c \in 1..confmap_size /\ (m[c].next = 0 \/ m[c].next > c)
      BY <1>0, CellOf
    <3>3. gone <= c
      BY <3>1
    <3> HIDE DEF gone
    <3> QED BY <1>0, <1>1, <3>2, <3>3
  <2> QED BY <1>0, <1>3, <2>1, <2>2
<1>4. m[gone].next = 0 \/ (m[gone].next \in L /\ m[gone].next # gone)
  <2> HIDE DEF gone
  <2>1. m[gone].next = 0 \/ m[gone].next > gone
    BY <1>1, CellOf
  <2> QED BY <1>0, <1>1, <2>1 DEF IsList
<1> HIDE DEF gone
<1>5. k[b].next = m[gone].next /\ \A c \in L \ {b, gone} : k[c].next = m[c].next
  BY DEF gone
<1>6. ASSUME NEW c \in L \ {gone}, k[c].next # 0 PROVE k[c].next \in L \ {gone}
  BY <1>3, <1>4, <1>5, <1>6 DEF IsList
<1>7. ASSUME NEW c \in L \ {gone}, c # First PROVE \E a \in L \ {gone} : k[a].next = c
  <2>1. PICK a \in L : m[a].next = c
    BY <1>7 DEF IsList
  <2>2. CASE a = gone
    <3>1. b \in L \ {gone} /\ k[b].next = c
      BY <1>0, <1>1, <1>5, <2>1, <2>2
    <3> QED BY <3>1
  <2>3. CASE a # gone
    <3>1. a # b
      BY <1>7, <2>1 DEF gone
    <3> QED BY <1>5, <2>1, <2>3, <3>1
  <2> QED BY <2>2, <2>3
<1>8. IsList(k, L \ {gone})
  BY <1>2, <1>6, <1>7 DEF IsList
<1> QED BY <1>8 DEF gone

(***************************************************************************)
(* A memory is fine when its blocks do not overlap, each block handed out  *)
(* is one of them, and the bytes are what the users wrote.                 *)
(***************************************************************************)
NoOverlap(m, L) ==
  \A b \in L : IF m[b].next = 0 THEN b + m[b].size <= confmap_size
                                ELSE b + HEADER + m[b].size <= m[b].next
Owns(m, L, lv) ==
  \A r \in lv : /\ r.n \in Nat \ {0}
                /\ \A q \in lv : q.addr = r.addr => q = r
                /\ r.addr \in L /\ m[r.addr].type = "used" /\ m[r.addr].size >= r.n
Intact(m, lv) ==
  \A r \in lv : r.val # "dirty" => \A c \in Cells(r.addr, r.n) : m[c] = Datum(r.val)
Fine(m, L, lv) == /\ Memory(m) /\ IsList(m, L) /\ NoOverlap(m, L)
                  /\ Owns(m, L, lv) /\ Intact(m, lv)
Body(m, b) == b .. b + HEADER + m[b].size - 1

\* Each block ends where the next one begins, the last one with the segment.
Tiles(m, L) ==
  \A b \in L : IF m[b].next = 0 THEN b + m[b].size = confmap_size
                                ELSE b + HEADER + m[b].size = m[b].next
KeepsTiles(m, L, k, K) == Tiles(m, L) => Tiles(k, K)
SamePrevs(m, k, K) == \A c \in K : k[c].prev = m[c].prev

LEMMA BlocksApart ==
  ASSUME NEW m, Memory(m), NEW L, IsList(m, L), NoOverlap(m, L), NEW b \in L, NEW c \in L, b < c
  PROVE  b + HEADER + m[b].size <= c
<1>1. m[b].next # 0 /\ m[b].next <= c
  BY NextIsNearest
<1>2. b \in 1..confmap_size /\ c \in 1..confmap_size /\ confmap_size \in Nat
  BY DEF IsList, Memory
<1>3. m[b].size \in 0..confmap_size /\ m[b].next \in 0..confmap_size
  BY <1>2, CellOf
<1>4. b + HEADER + m[b].size <= m[b].next
  BY <1>1 DEF NoOverlap
<1> QED BY <1>1, <1>2, <1>3, <1>4 DEF HEADER

LEMMA BodiesApart ==
  ASSUME NEW m, Memory(m), NEW L, IsList(m, L), NoOverlap(m, L), NEW b \in L, NEW c \in L, b # c
  PROVE  Body(m, b) \cap Body(m, c) = {}
<1>1. b \in 1..confmap_size /\ c \in 1..confmap_size /\ confmap_size \in Nat
  BY DEF IsList, Memory
<1>2. m[b].size \in 0..confmap_size /\ m[c].size \in 0..confmap_size
  BY <1>1, CellOf
<1>3. CASE b < c
  BY <1>1, <1>2, <1>3, BlocksApart DEF Body, HEADER
<1>4. CASE c < b
  BY <1>1, <1>2, <1>4, BlocksApart DEF Body, HEADER
<1> QED BY <1>1, <1>3, <1>4

\* Every block is inside the segment.
LEMMA BodyInside ==
  ASSUME NEW m, Memory(m), NEW L, IsList(m, L), NoOverlap(m, L), NEW b \in L
  PROVE  Body(m, b) \subseteq 1..confmap_size
<1>1. b \in 1..confmap_size /\ confmap_size \in Nat
  BY DEF IsList, Memory
<1>2. m[b].size \in 0..confmap_size /\ m[b].next \in 0..confmap_size
  BY <1>1, CellOf
<1>3. b + m[b].size <= confmap_size
  BY <1>1, <1>2 DEF NoOverlap, HEADER
<1> QED BY <1>1, <1>2, <1>3 DEF Body, HEADER

\* A user's bytes are inside its block, none of them is a header of the list.
LEMMA BytesInside ==
  ASSUME NEW m, NEW L, NEW lv, Fine(m, L, lv), NEW r \in lv
  PROVE  /\ r.addr \in 1..confmap_size /\ r.n \in Nat \ {0}
         /\ Cells(r.addr, r.n) \subseteq Body(m, r.addr)
         /\ r.addr \notin Cells(r.addr, r.n) /\ r.addr \in Body(m, r.addr)
         /\ \A b \in L : b \notin Cells(r.addr, r.n)
<1>1. /\ r.addr \in L /\ r.addr \in 1..confmap_size /\ confmap_size \in Nat
      /\ r.n \in Nat \ {0} /\ m[r.addr].size >= r.n
  BY DEF Fine, Owns, IsList, Memory
<1>2. m[r.addr].size \in 0..confmap_size
  BY <1>1, CellOf DEF Fine
<1>3. /\ Cells(r.addr, r.n) \subseteq Body(m, r.addr)
      /\ r.addr \notin Cells(r.addr, r.n) /\ r.addr \in Body(m, r.addr)
  BY <1>1, <1>2 DEF Cells, Body, HEADER
<1>4. ASSUME NEW b \in L, b \in Cells(r.addr, r.n) PROVE FALSE
  <2>1. b # r.addr
    BY <1>3, <1>4
  <2>2. Body(m, b) \cap Body(m, r.addr) = {}
    BY <1>1, <2>1, BodiesApart DEF Fine
  <2>3. b \in Body(m, b)
    <3>1. b \in 1..confmap_size /\ m[b].size \in 0..confmap_size
      BY CellOf DEF Fine, IsList
    <3> QED BY <1>1, <3>1 DEF Body, HEADER
  <2> QED BY <1>3, <1>4, <2>2, <2>3
<1> QED BY <1>1, <1>3, <1>4

\* What an operation writes into the body of a block nobody has does not touch
\* the blocks that somebody has.
LEMMA OthersUntouched ==
  ASSUME NEW m, NEW L, NEW lv, Fine(m, L, lv), NEW b \in L, NEW r \in lv, r.addr # b
  PROVE  r.addr \notin Body(m, b) /\ Cells(r.addr, r.n) \cap Body(m, b) = {}
<1>1. r.addr \in L
  BY DEF Fine, Owns
<1>2. Body(m, b) \cap Body(m, r.addr) = {}
  BY <1>1, BodiesApart DEF Fine
<1> QED BY <1>2, BytesInside

LEMMA FineKept ==
  ASSUME NEW m, NEW L, NEW lv, Fine(m, L, lv),
         NEW k, Memory(k), NEW K, IsList(k, K), NoOverlap(k, K), NEW lw \in SUBSET lv,
         \A r \in lw : /\ r.addr \in K
                       /\ k[r.addr].type = m[r.addr].type /\ k[r.addr].size = m[r.addr].size
                       /\ \A c \in Cells(r.addr, r.n) : k[c] = m[c]
  PROVE  Fine(k, K, lw)
<1>1. Owns(k, K, lw)
  BY DEF Fine, Owns
<1>2. Intact(k, lw)
  BY DEF Fine, Intact
<1> QED BY <1>1, <1>2 DEF Fine

\* The same for writes into a set of cells W that no block somebody has meets.
SameBut(m, k, W) == \A c \in 1..confmap_size \ W : k[c] = m[c]
Missed(lv, K, W) ==
  \A r \in lv : r.addr \in K /\ r.addr \notin W /\ Cells(r.addr, r.n) \cap W = {}

LEMMA FineBut ==
  ASSUME NEW m, NEW L, NEW lv, Fine(m, L, lv),
         NEW k, Memory(k), NEW K, IsList(k, K), NoOverlap(k, K), NEW lw, lw \subseteq lv,
         NEW W, SameBut(m, k, W), Missed(lw, K, W)
  PROVE  Fine(k, K, lw)
<1>1. ASSUME NEW r \in lw
      PROVE  /\ r.addr \in K
             /\ k[r.addr].type = m[r.addr].type /\ k[r.addr].size = m[r.addr].size
             /\ \A c \in Cells(r.addr, r.n) : k[c] = m[c]
  <2>1. r.addr \in L /\ r.addr \in 1..confmap_size
    BY DEF Fine, Owns, IsList
  <2>2. Body(m, r.addr) \subseteq 1..confmap_size
    BY <2>1, BodyInside DEF Fine
  <2>3. Cells(r.addr, r.n) \subseteq 1..confmap_size
    BY <2>2, BytesInside
  <2> QED BY <2>1, <2>3 DEF SameBut, Missed
<1> QED BY <1>1, FineKept

\* A cell that is no header of the list and no user's byte may hold anything.
LEMMA StaleChanged ==
  ASSUME NEW m, NEW L, NEW lv, Fine(m, L, lv), NEW k, Memory(k), NEW p, p \notin L,
         \A r \in lv : p \notin Cells(r.addr, r.n),
         \A c \in 1..confmap_size \ {p} : k[c] = m[c]
  PROVE  Fine(k, L, lv)
<1>1. L \subseteq 1..confmap_size /\ \A b \in L : k[b] = m[b]
  BY DEF Fine, IsList
<1>2. IsList(k, L)
  BY <1>1, LinksKept DEF Fine
<1>3. NoOverlap(k, L)
  BY <1>1 DEF Fine, NoOverlap
<1>4. ASSUME NEW r \in lv
      PROVE  /\ r.addr \in L
             /\ k[r.addr].type = m[r.addr].type /\ k[r.addr].size = m[r.addr].size
             /\ \A c \in Cells(r.addr, r.n) : k[c] = m[c]
  <2>1. r.addr \in L
    BY DEF Fine, Owns
  <2>2. Cells(r.addr, r.n) \subseteq 1..confmap_size
    BY <2>1, BytesInside, BodyInside DEF Fine
  <2> QED BY <1>1, <2>1, <2>2
<1> QED BY <1>2, <1>3, <1>4, FineKept

(***************************************************************************)
(* What the operations do to the cells and to the list.                    *)
(***************************************************************************)
LEMMA MemoryKept ==
  ASSUME NEW m, Memory(m), NEW k \in [1..confmap_size -> CellType],
         \A c \in 1..confmap_size :
            \/ k[c].next = m[c].next /\ k[c].prev = m[c].prev
            \/ (k[c].next = 0 \/ k[c].next > c) /\ k[c].prev < c
  PROVE  Memory(k)
BY DEF Memory, Forward

LEMMA DatumCell ==
  ASSUME confmap_size \in Nat, NEW v \in {"free", "used", "zero"}
  PROVE  Datum(v) \in CellType /\ Datum(v).next = 0 /\ Datum(v).prev = 0 /\ Datum(v).size = 0
BY DEF Datum, Cell, CellType

LEMMA CellChanged ==
  ASSUME NEW t, NEW x, NEW p, NEW s, NEW y
  PROVE  /\ [Cell(t, x, p, s) EXCEPT !.size = y] = Cell(t, x, p, y)
         /\ [Cell(t, x, p, s) EXCEPT !.next = y] = Cell(t, y, p, s)
         /\ [Cell(t, x, p, s) EXCEPT !.type = y] = Cell(y, x, p, s)
<1>1. [Cell(t, x, p, s) EXCEPT !.size = y] = Cell(t, x, p, y)
  BY DEF Cell
<1>2. [Cell(t, x, p, s) EXCEPT !.next = y] = Cell(t, y, p, s)
  BY DEF Cell
<1>3. [Cell(t, x, p, s) EXCEPT !.type = y] = Cell(y, x, p, s)
  BY DEF Cell
<1> QED BY <1>1, <1>2, <1>3

LEMMA CellFields ==
  ASSUME NEW c \in CellType
  PROVE  c = Cell(c.type, c.next, c.prev, c.size)
BY DEF Cell, CellType

LEMMA SplitCells ==
  ASSUME NEW m, Memory(m), NEW L, IsList(m, L), NoOverlap(m, L), NEW b \in L,
         NEW n \in Nat \ {0}, m[b].size > n + HEADER
  PROVE  LET rest == b + HEADER + n
             k == Split(m, b, n)
         IN  /\ rest \in Body(m, b) /\ rest \in 1..confmap_size /\ b < rest
             /\ m[b].next = 0 \/ rest < m[b].next
             /\ k \in [1..confmap_size -> CellType]
             /\ k[rest] = Cell("free", m[b].next, b, m[b].size - n - HEADER)
             /\ k[b] = Cell(m[b].type, rest, m[b].prev, n)
             /\ \A c \in 1..confmap_size \ {b, rest} : k[c] = m[c]
<1> DEFINE rest == b + HEADER + n
           k == Split(m, b, n)
<1>1. b \in 1..confmap_size /\ confmap_size \in Nat
  BY DEF IsList, Memory
<1>2. /\ m[b].size \in 0..confmap_size /\ m[b].next \in 0..confmap_size
      /\ m[b].prev \in 0..confmap_size /\ m[b].type \in {"free", "used", "zero"}
  BY <1>1, CellOf
<1>3. b + m[b].size <= confmap_size
  BY <1>1, <1>2 DEF NoOverlap, HEADER
<1>4. rest \in Body(m, b) /\ rest \in 1..confmap_size /\ b < rest
  BY <1>1, <1>2, <1>3 DEF Body, HEADER
<1>5. m[b].next = 0 \/ rest < m[b].next
  BY <1>1, <1>2 DEF NoOverlap, HEADER
<1>6. Cell("free", m[b].next, b, m[b].size - n - HEADER) \in CellType
  BY <1>1, <1>2 DEF Cell, CellType, HEADER
<1>7. Cell(m[b].type, rest, m[b].prev, n) \in CellType
  BY <1>1, <1>2, <1>3, <1>4 DEF Cell, CellType, HEADER
<1>8. m \in [1..confmap_size -> CellType] /\ m[b] \in CellType
  BY <1>1 DEF Memory
<1> HIDE DEF rest
<1>9. k = [[[m EXCEPT ![rest] = Cell("free", m[b].next, b, m[b].size - n - HEADER)]
              EXCEPT ![b] = [@ EXCEPT !.size = n]]
              EXCEPT ![b] = [@ EXCEPT !.next = rest]]
  BY <1>1, <1>4, <1>8 DEF Split, rest
<1>10. m[b] = Cell(m[b].type, m[b].next, m[b].prev, m[b].size)
  BY <1>8, CellFields
<1>11. /\ k[rest] = Cell("free", m[b].next, b, m[b].size - n - HEADER)
       /\ k[b] = Cell(m[b].type, rest, m[b].prev, n)
       /\ \A c \in 1..confmap_size \ {b, rest} : k[c] = m[c]
       /\ DOMAIN k = 1..confmap_size
  <2> DEFINE u == Cell("free", m[b].next, b, m[b].size - n - HEADER)
             m1 == [m EXCEPT ![rest] = u]
             m2 == [m1 EXCEPT ![b] = [@ EXCEPT !.size = n]]
  <2> HIDE DEF u
  <2>0. b # rest
    BY <1>1, <1>4
  <2>1. m1[b] = m[b] /\ m1[rest] = u /\ DOMAIN m1 = 1..confmap_size
        /\ \A c \in 1..confmap_size \ {b, rest} : m1[c] = m[c]
    BY <1>1, <1>4, <1>8, <2>0
  <2> HIDE DEF m1
  <2>2. [m1[b] EXCEPT !.size = n] = Cell(m[b].type, m[b].next, m[b].prev, n)
    BY <1>10, <2>1, CellChanged
  <2>3. m2[b] = Cell(m[b].type, m[b].next, m[b].prev, n) /\ m2[rest] = u
        /\ DOMAIN m2 = 1..confmap_size
        /\ \A c \in 1..confmap_size \ {b, rest} : m2[c] = m[c]
    BY <1>1, <1>4, <2>0, <2>1, <2>2
  <2>4. k = [m2 EXCEPT ![b] = [@ EXCEPT !.next = rest]]
    BY <1>9 DEF m1, u
  <2> HIDE DEF m2, k
  <2>5. [m2[b] EXCEPT !.next = rest] = Cell(m[b].type, rest, m[b].prev, n)
    <3>1. [Cell(m[b].type, m[b].next, m[b].prev, n) EXCEPT !.next = rest]
            = Cell(m[b].type, rest, m[b].prev, n)
      BY DEF Cell
    <3> QED BY <2>3, <3>1
  <2>6. /\ k[rest] = u /\ k[b] = Cell(m[b].type, rest, m[b].prev, n)
        /\ \A c \in 1..confmap_size \ {b, rest} : k[c] = m[c]
        /\ DOMAIN k = 1..confmap_size
    BY <1>1, <1>4, <2>0, <2>3, <2>4, <2>5
  <2> QED BY <2>6 DEF u
<1>12. k \in [1..confmap_size -> CellType]
  <2>1. \A c \in 1..confmap_size : k[c] \in CellType
    BY <1>6, <1>7, <1>8, <1>11
  <2>2. k = [c \in 1..confmap_size |-> k[c]]
    BY <1>8, <1>9
  <2> HIDE DEF k
  <2> QED BY <2>1, <2>2
<1> QED BY <1>4, <1>5, <1>11, <1>12 DEF rest

\* A header inside the body of a block is no block of the list.
LEMMA InnerNotListed ==
  ASSUME NEW m, Memory(m), NEW L, IsList(m, L), NoOverlap(m, L), NEW b \in L,
         NEW c \in Body(m, b), c # b
  PROVE  c \notin L
<1> SUFFICES ASSUME c \in L PROVE FALSE
  OBVIOUS
<1>1. Body(m, b) \cap Body(m, c) = {}
  BY BodiesApart
<1>2. c \in 1..confmap_size /\ m[c].size \in 0..confmap_size /\ confmap_size \in Nat
  BY CellOf DEF IsList, Memory
<1>3. c \in Body(m, c)
  BY <1>2 DEF Body, HEADER
<1> QED BY <1>1, <1>3

LEMMA SplitList ==
  ASSUME NEW m, Memory(m), NEW L, IsList(m, L), NoOverlap(m, L), NEW b \in L,
         NEW n \in Nat \ {0}, m[b].size > n + HEADER
  PROVE  LET rest == b + HEADER + n
             k == Split(m, b, n)
         IN  /\ rest \notin L
             /\ Memory(k) /\ IsList(k, L \cup {rest}) /\ NoOverlap(k, L \cup {rest})
<1> DEFINE rest == b + HEADER + n
           k == Split(m, b, n)
<1>1. /\ rest \in Body(m, b) /\ rest \in 1..confmap_size /\ b < rest
      /\ m[b].next = 0 \/ rest < m[b].next
      /\ k \in [1..confmap_size -> CellType]
      /\ k[rest] = Cell("free", m[b].next, b, m[b].size - n - HEADER)
      /\ k[b] = Cell(m[b].type, rest, m[b].prev, n)
      /\ \A c \in 1..confmap_size \ {b, rest} : k[c] = m[c]
  BY SplitCells
<1>2. b \in 1..confmap_size /\ confmap_size \in Nat /\ L \subseteq 1..confmap_size
  BY DEF IsList, Memory
<1>3. m[b].size \in 0..confmap_size /\ m[b].next \in 0..confmap_size
  BY <1>2, CellOf
<1> HIDE DEF k
<1>4. rest \notin L
  BY <1>1, <1>2, InnerNotListed
<1>5. k[rest].next = m[b].next /\ k[rest].prev = b /\ k[rest].size = m[b].size - n - HEADER
  BY <1>1 DEF Cell
<1>6. k[b].next = rest /\ k[b].prev = m[b].prev /\ k[b].size = n
  BY <1>1 DEF Cell
<1>7. Memory(k)
  <2>1. \A c \in 1..confmap_size :
            \/ k[c].next = m[c].next /\ k[c].prev = m[c].prev
            \/ (k[c].next = 0 \/ k[c].next > c) /\ k[c].prev < c
    <3> SUFFICES ASSUME NEW c \in 1..confmap_size
                 PROVE  \/ k[c].next = m[c].next /\ k[c].prev = m[c].prev
                        \/ (k[c].next = 0 \/ k[c].next > c) /\ k[c].prev < c
      OBVIOUS
    <3> HIDE DEF rest
    <3>1. CASE c = rest
      BY <1>1, <1>5, <3>1
    <3>2. CASE c = b
      BY <1>1, <1>2, <1>6, <3>2, CellOf
    <3>3. CASE c \notin {b, rest}
      BY <1>1, <3>3
    <3> QED BY <3>1, <3>2, <3>3
  <2> QED BY <1>1, <2>1, MemoryKept
<1>8. IsList(k, L \cup {rest})
  <2> HIDE DEF rest
  <2>1. \A c \in L \ {b} : k[c].next = m[c].next
    BY <1>1, <1>2, <1>4
  <2>2. rest \in 1..confmap_size /\ k[b].next = rest /\ k[rest].next = m[b].next
    BY <1>1, <1>5, <1>6
  <2> QED BY <1>4, <2>1, <2>2, ListInsert
<1>9. NoOverlap(k, L \cup {rest})
  <2> SUFFICES ASSUME NEW c \in L \cup {rest}
               PROVE  IF k[c].next = 0 THEN c + k[c].size <= confmap_size
                                       ELSE c + HEADER + k[c].size <= k[c].next
    BY DEF NoOverlap
  <2>1. CASE c = rest
    <3>1. rest + HEADER + k[rest].size = b + HEADER + m[b].size
      BY <1>2, <1>3, <1>5 DEF HEADER
    <3>2. rest + k[rest].size = b + m[b].size
      BY <1>2, <1>3, <1>5 DEF HEADER
    <3> HIDE DEF rest
    <3> QED BY <1>5, <2>1, <3>1, <3>2 DEF NoOverlap
  <2>2. CASE c = b
    BY <1>1, <1>2, <1>6, <2>2 DEF HEADER
  <2>3. CASE c \in L \ {b, rest}
    BY <1>1, <1>2, <2>3 DEF NoOverlap
  <2> QED BY <2>1, <2>2, <2>3
<1> QED BY <1>4, <1>7, <1>8, <1>9 DEF k

\* A block whose rest is not linked yet has only become smaller.
Unlinked(m, b, n) == [Split(m, b, n) EXCEPT ![b].next = m[b].next]

LEMMA SplitUnlinked ==
  ASSUME NEW m, Memory(m), NEW L, IsList(m, L), NoOverlap(m, L), NEW b \in L,
         NEW n \in Nat \ {0}, m[b].size > n + HEADER
  PROVE  LET k == Unlinked(m, b, n)
         IN  /\ Memory(k) /\ IsList(k, L) /\ NoOverlap(k, L)
             /\ \A c \in 1..confmap_size \ {b, b + HEADER + n} : k[c] = m[c]
             /\ k[b] = Cell(m[b].type, m[b].next, m[b].prev, n)
<1> DEFINE rest == b + HEADER + n
           s == Split(m, b, n)
           k == Unlinked(m, b, n)
<1>1. /\ rest \in Body(m, b) /\ rest \in 1..confmap_size /\ b < rest
      /\ m[b].next = 0 \/ rest < m[b].next
      /\ s \in [1..confmap_size -> CellType]
      /\ s[rest] = Cell("free", m[b].next, b, m[b].size - n - HEADER)
      /\ s[b] = Cell(m[b].type, rest, m[b].prev, n)
      /\ \A c \in 1..confmap_size \ {b, rest} : s[c] = m[c]
  BY SplitCells
<1>2. b \in 1..confmap_size /\ confmap_size \in Nat /\ L \subseteq 1..confmap_size
  BY DEF IsList, Memory
<1>3. m[b].size \in 0..confmap_size /\ m[b].next \in 0..confmap_size
  BY <1>2, CellOf
<1>4. k = [s EXCEPT ![b].next = m[b].next]
  BY DEF Unlinked
<1> HIDE DEF s, k
<1>5. [s[b] EXCEPT !.next = m[b].next] = Cell(m[b].type, m[b].next, m[b].prev, n)
  BY <1>1 DEF Cell
<1>6. /\ k[b] = Cell(m[b].type, m[b].next, m[b].prev, n)
      /\ k[rest] = Cell("free", m[b].next, b, m[b].size - n - HEADER)
      /\ \A c \in 1..confmap_size \ {b, rest} : k[c] = m[c]
  BY <1>1, <1>2, <1>4, <1>5
<1>7. Cell(m[b].type, m[b].next, m[b].prev, n) \in CellType
  <2>1. n \in 0..confmap_size
    BY <1>2, <1>3 DEF HEADER
  <2> QED BY <1>2, <2>1, CellOf DEF Cell, CellType
<1>8. k \in [1..confmap_size -> CellType]
  <2>1. k = [s EXCEPT ![b] = [s[b] EXCEPT !.next = m[b].next]]
    BY <1>4
  <2>2. k = [s EXCEPT ![b] = Cell(m[b].type, m[b].next, m[b].prev, n)]
    BY <1>5, <2>1
  <2> QED BY <1>1, <1>7, <2>2
<1>9. rest \notin L
  BY <1>1, <1>2, InnerNotListed
<1>10. k[b].type = m[b].type /\ k[b].next = m[b].next /\ k[b].prev = m[b].prev /\ k[b].size = n
  BY <1>6 DEF Cell
<1>11. k[rest].next = m[b].next /\ k[rest].prev = b
  BY <1>6 DEF Cell
<1> HIDE DEF rest
<1>12. Memory(k)
  <2>1. \A c \in 1..confmap_size :
            \/ k[c].next = m[c].next /\ k[c].prev = m[c].prev
            \/ (k[c].next = 0 \/ k[c].next > c) /\ k[c].prev < c
    BY <1>1, <1>6, <1>10, <1>11
  <2> QED BY <1>8, <2>1, MemoryKept
<1>13. IsList(k, L)
  <2>1. \A c \in L : k[c].next = m[c].next
    BY <1>2, <1>6, <1>9, <1>10
  <2> QED BY <2>1 DEF IsList
<1>14. NoOverlap(k, L)
  BY <1>2, <1>3, <1>6, <1>9, <1>10 DEF NoOverlap, HEADER
<1> QED BY <1>6, <1>12, <1>13, <1>14 DEF rest, k

\* A block takes over the next one: with its link alone, or with its size too.
LEMMA JoinList ==
  ASSUME NEW m, Memory(m), NEW L, IsList(m, L), NoOverlap(m, L), NEW b \in L,
         NEW g, g = m[b].next, g # 0,
         NEW size \in {m[b].size, m[b].size + m[g].size + HEADER},
         NEW k, k = [m EXCEPT ![b] = Cell(m[b].type, m[g].next, m[b].prev, size)]
  PROVE  /\ g \in L /\ b < g /\ size <= confmap_size
         /\ Memory(k) /\ IsList(k, L \ {g}) /\ NoOverlap(k, L \ {g})
<1>1. b \in 1..confmap_size /\ confmap_size \in Nat /\ L \subseteq 1..confmap_size
      /\ m \in [1..confmap_size -> CellType]
  BY DEF IsList, Memory
<1>2. m[b].size \in 0..confmap_size /\ g \in 0..confmap_size /\ g > b
      /\ m[b].type \in {"free", "used", "zero"} /\ m[b].prev \in 0..confmap_size /\ m[b].prev < b
  BY <1>1, CellOf
<1>3. g \in L
  BY DEF IsList
<1>4. m[g].size \in 0..confmap_size /\ m[g].next \in 0..confmap_size
      /\ (m[g].next = 0 \/ m[g].next > g)
  BY <1>1, <1>3, CellOf
<1>5. b + HEADER + m[b].size <= g
  BY <1>1, <1>2 DEF NoOverlap
<1>6. IF m[g].next = 0 THEN g + m[g].size <= confmap_size
                       ELSE g + HEADER + m[g].size <= m[g].next
  BY <1>3 DEF NoOverlap
<1>7. size \in {m[b].size, m[b].size + m[g].size + HEADER}
  OBVIOUS
<1>8. /\ size \in 0..confmap_size
      /\ IF m[g].next = 0 THEN b + size <= confmap_size ELSE b + HEADER + size <= m[g].next
  <2>1. CASE size = m[b].size
    BY <1>1, <1>2, <1>3, <1>4, <1>5, <1>6, <2>1 DEF HEADER
  <2>2. CASE size = m[b].size + m[g].size + HEADER
    <3>1. size \in Nat /\ b + size <= g + m[g].size
      BY <1>1, <1>2, <1>4, <1>5, <2>2 DEF HEADER
    <3>2. b \in Nat /\ b >= 1 /\ g \in Nat /\ m[g].size \in Nat /\ m[g].next \in Nat
          /\ m[g].next <= confmap_size
      BY <1>1, <1>2, <1>4
    <3>3. CASE m[g].next = 0
      BY <1>1, <1>6, <3>1, <3>2, <3>3
    <3>4. CASE m[g].next # 0
      BY <1>1, <1>6, <3>1, <3>2, <3>4 DEF HEADER
    <3> QED BY <3>3, <3>4
  <2> QED BY <1>7, <2>1, <2>2
<1>9. Cell(m[b].type, m[g].next, m[b].prev, size) \in CellType
  BY <1>2, <1>4, <1>8 DEF Cell, CellType
<1>10. k = [m EXCEPT ![b] = Cell(m[b].type, m[g].next, m[b].prev, size)]
  OBVIOUS
<1>11. /\ k \in [1..confmap_size -> CellType]
       /\ k[b] = Cell(m[b].type, m[g].next, m[b].prev, size)
       /\ \A c \in 1..confmap_size \ {b} : k[c] = m[c]
  BY <1>1, <1>9, <1>10
<1>12. k[b].next = m[g].next /\ k[b].prev = m[b].prev /\ k[b].size = size
  BY <1>11 DEF Cell
<1>13. Memory(k)
  <2>1. \A c \in 1..confmap_size :
            \/ k[c].next = m[c].next /\ k[c].prev = m[c].prev
            \/ (k[c].next = 0 \/ k[c].next > c) /\ k[c].prev < c
    BY <1>1, <1>2, <1>4, <1>11, <1>12
  <2> QED BY <1>11, <2>1, MemoryKept
<1>14. IsList(k, L \ {g})
  <2>1. \A c \in L \ {b, g} : k[c].next = m[c].next
    BY <1>1, <1>11
  <2> QED BY <1>12, <2>1, ListRemove
<1>15. NoOverlap(k, L \ {g})
  <2> SUFFICES ASSUME NEW c \in L \ {g}
               PROVE  IF k[c].next = 0 THEN c + k[c].size <= confmap_size
                                       ELSE c + HEADER + k[c].size <= k[c].next
    BY DEF NoOverlap
  <2>1. CASE c = b
    BY <1>8, <1>12, <2>1
  <2>2. CASE c # b
    <3>1. k[c] = m[c]
      BY <1>1, <1>11, <2>2
    <3> QED BY <3>1 DEF NoOverlap
  <2> QED BY <2>1, <2>2
<1> QED BY <1>1, <1>2, <1>3, <1>8, <1>13, <1>14, <1>15

\* A type changes.
SetType(m, b, v) == [m EXCEPT ![b].type = v]

LEMMA TypeChanged ==
  ASSUME NEW m, Memory(m), NEW L, IsList(m, L), NoOverlap(m, L), NEW b \in 1..confmap_size,
         NEW v \in {"free", "used"}
  PROVE  LET k == SetType(m, b, v)
         IN  /\ Memory(k) /\ IsList(k, L) /\ NoOverlap(k, L)
             /\ k[b] = Cell(v, m[b].next, m[b].prev, m[b].size)
             /\ \A c \in 1..confmap_size \ {b} : k[c] = m[c]
<1> DEFINE k == SetType(m, b, v)
<1>1. m \in [1..confmap_size -> CellType] /\ m[b] \in CellType /\ L \subseteq 1..confmap_size
  BY DEF Memory, IsList
<1>2. [m[b] EXCEPT !.type = v] = Cell(v, m[b].next, m[b].prev, m[b].size)
  <2>1. m[b] = Cell(m[b].type, m[b].next, m[b].prev, m[b].size)
    BY <1>1, CellFields
  <2>2. [Cell(m[b].type, m[b].next, m[b].prev, m[b].size) EXCEPT !.type = v]
          = Cell(v, m[b].next, m[b].prev, m[b].size)
    BY DEF Cell
  <2> QED BY <2>1, <2>2
<1>3. k = [m EXCEPT ![b] = Cell(v, m[b].next, m[b].prev, m[b].size)]
  BY <1>2 DEF SetType
<1> HIDE DEF k
<1>4. Cell(v, m[b].next, m[b].prev, m[b].size) \in CellType
  BY CellOf DEF Cell, CellType
<1>5. /\ k \in [1..confmap_size -> CellType]
      /\ k[b] = Cell(v, m[b].next, m[b].prev, m[b].size)
      /\ \A c \in 1..confmap_size \ {b} : k[c] = m[c]
  BY <1>1, <1>3, <1>4
<1>6. k[b].next = m[b].next /\ k[b].prev = m[b].prev /\ k[b].size = m[b].size
  BY <1>5 DEF Cell
<1>7. \A c \in 1..confmap_size : /\ k[c].next = m[c].next /\ k[c].prev = m[c].prev
                                 /\ k[c].size = m[c].size
  BY <1>5, <1>6
<1>8. Memory(k)
  BY <1>5, <1>7, MemoryKept
<1>9. IsList(k, L)
  BY <1>1, <1>7 DEF IsList
<1>10. NoOverlap(k, L)
  BY <1>1, <1>7 DEF NoOverlap
<1> QED BY <1>5, <1>8, <1>9, <1>10 DEF k

(***************************************************************************)
(* A memory is sound when its blocks do not overlap: this survives even a  *)
(* merge through a stale prev, which may lose blocks but makes none.       *)
(***************************************************************************)
Sound(m) == Memory(m) /\ NoOverlap(m, Nodes(m))

LEMMA SoundBy ==
  ASSUME NEW k, Memory(k), NEW K, First \in K, \A b \in K : k[b].next # 0 => k[b].next \in K,
         NoOverlap(k, K)
  PROVE  Sound(k) /\ Nodes(k) \subseteq K
<1>1. IsList(k, Nodes(k))
  BY NodesAreList
<1>2. Nodes(k) \subseteq K
  BY <1>1, ListWithin
<1>3. NoOverlap(k, Nodes(k))
  <2> HIDE DEF Nodes
  <2> QED BY <1>2 DEF NoOverlap
<1> QED BY <1>2, <1>3 DEF Sound

LEMMA SoundOfList ==
  ASSUME NEW k, Memory(k), NEW K, IsList(k, K), NoOverlap(k, K)
  PROVE  Sound(k)
<1>1. First \in K /\ \A b \in K : k[b].next # 0 => k[b].next \in K
  BY DEF IsList
<1> QED BY <1>1, SoundBy

\* The cell that Link and Merge leave at the surviving block.
JoinedCell(m, b, g, size) == Cell(m[b].type, m[g].next, m[b].prev, size)
JoinedAs(m, k, b, g, size) == k = [m EXCEPT ![b] = JoinedCell(m, b, g, size)]
JoinedSome(m, k, b, g) == \E size : JoinedAs(m, k, b, g, size)

LEMMA LinkCell ==
  ASSUME NEW m, Memory(m), NEW b \in 1..confmap_size, NEW g \in 1..confmap_size
  PROVE  Link(m, b, g) = [m EXCEPT ![b] = JoinedCell(m, b, g, m[b].size)]
<1>1. m[b] = Cell(m[b].type, m[b].next, m[b].prev, m[b].size)
  BY CellOf, CellFields
<1>2. [Cell(m[b].type, m[b].next, m[b].prev, m[b].size) EXCEPT !.next = m[g].next]
        = Cell(m[b].type, m[g].next, m[b].prev, m[b].size)
  BY DEF Cell
<1>3. [m[b] EXCEPT !.next = m[g].next] = JoinedCell(m, b, g, m[b].size)
  BY <1>1, <1>2 DEF JoinedCell
<1> QED BY <1>3 DEF Link

LEMMA MergeCell ==
  ASSUME NEW m, Memory(m), NEW b \in 1..confmap_size, NEW g \in 1..confmap_size
  PROVE  Merge(m, b, g)
           = [m EXCEPT ![b] = JoinedCell(m, b, g, Capped(m[b].size + m[g].size + HEADER))]
<1> DEFINE s == Capped(m[b].size + m[g].size + HEADER)
           k == Link(m, b, g)
           c == JoinedCell(m, b, g, m[b].size)
<1>1. DOMAIN m = 1..confmap_size
  BY DEF Memory
<1>2. k = [m EXCEPT ![b] = c]
  BY LinkCell
<1>3. k[b] = c /\ c.size = m[b].size
  BY <1>1, <1>2 DEF JoinedCell, Cell
<1>4. Merge(m, b, g) = [k EXCEPT ![b] = [k[b] EXCEPT !.size = s]]
  BY <1>3 DEF Merge
<1>5. [c EXCEPT !.size = s] = JoinedCell(m, b, g, s)
  <2> HIDE DEF s
  <2> QED BY DEF JoinedCell, Cell
<1>6. Merge(m, b, g) = [k EXCEPT ![b] = JoinedCell(m, b, g, s)]
  BY <1>3, <1>4, <1>5
<1> HIDE DEF s, c, k
<1>7. [k EXCEPT ![b] = JoinedCell(m, b, g, s)] = [m EXCEPT ![b] = JoinedCell(m, b, g, s)]
  <2> DEFINE d == JoinedCell(m, b, g, s)
  <2> HIDE DEF d
  <2>1. [k EXCEPT ![b] = d] = [m EXCEPT ![b] = d]
    BY <1>1, <1>2
  <2> QED BY <2>1 DEF d
<1> QED BY <1>6, <1>7 DEF s

LEMMA JoinedBy ==
  ASSUME NEW m, Memory(m), NEW b \in 1..confmap_size, NEW g \in 1..confmap_size,
         NEW k \in {Link(m, b, g), Merge(m, b, g)}
  PROVE  JoinedSome(m, k, b, g)
<1>1. Link(m, b, g) = [m EXCEPT ![b] = JoinedCell(m, b, g, m[b].size)]
  BY LinkCell
<1>2. Merge(m, b, g)
        = [m EXCEPT ![b] = JoinedCell(m, b, g, Capped(m[b].size + m[g].size + HEADER))]
  BY MergeCell
<1> QED BY <1>1, <1>2 DEF JoinedSome, JoinedAs

LEMMA JoinedPrevs ==
  ASSUME NEW m, Memory(m), NEW b \in 1..confmap_size, NEW g, NEW k, JoinedSome(m, k, b, g)
  PROVE  /\ \A c \in 1..confmap_size \ {b} : k[c] = m[c]
         /\ SamePrevs(m, k, 1..confmap_size)
<1>1. PICK s : k = [m EXCEPT ![b] = JoinedCell(m, b, g, s)]
  BY DEF JoinedSome, JoinedAs
<1>2. k[b] = JoinedCell(m, b, g, s) /\ \A c \in 1..confmap_size \ {b} : k[c] = m[c]
  BY <1>1 DEF Memory
<1>3. k[b].prev = m[b].prev
  BY <1>2 DEF JoinedCell, Cell
<1> QED BY <1>2, <1>3 DEF SamePrevs

LEMMA CappedSize ==
  ASSUME confmap_size \in Nat, NEW s \in Nat
  PROVE  Capped(s) \in 0..confmap_size /\ Capped(s) <= s /\ (s <= confmap_size => Capped(s) = s)
BY DEF Capped

\* Joining a block to the header its prev names, whatever is there.
LEMMA PrevSound ==
  ASSUME NEW m, Sound(m), NEW b \in Nodes(m), m[b].prev # 0,
         NEW size \in {m[m[b].prev].size, Capped(m[m[b].prev].size + m[b].size + HEADER)},
         NEW k, k = [m EXCEPT ![m[b].prev] = JoinedCell(m, m[b].prev, b, size)]
  PROVE  Sound(k)
<1> DEFINE L == Nodes(m)
           p == m[b].prev
<1>0. Memory(m) /\ NoOverlap(m, L) /\ IsList(m, L)
  BY NodesAreList DEF Sound
<1> HIDE DEF L
<1>1. b \in L /\ b \in 1..confmap_size /\ L \subseteq 1..confmap_size /\ confmap_size \in Nat
      /\ m \in [1..confmap_size -> CellType]
  BY <1>0 DEF IsList, Memory, L
<1>2. p \in 1..confmap_size /\ p < b
  BY <1>0, <1>1, CellOf
<1> HIDE DEF p
<1>3. /\ m[p].size \in 0..confmap_size /\ m[b].size \in 0..confmap_size
      /\ m[p].prev \in 0..confmap_size /\ m[p].prev < p /\ m[p].type \in {"free", "used", "zero"}
      /\ m[b].next \in 0..confmap_size /\ (m[b].next = 0 \/ m[b].next > b)
  BY <1>0, <1>1, <1>2, CellOf
<1>4. size \in 0..confmap_size /\ size <= m[p].size + m[b].size + HEADER
  <2>1. m[p].size + m[b].size + HEADER \in Nat
    BY <1>3 DEF HEADER
  <2>2. Capped(m[p].size + m[b].size + HEADER) \in 0..confmap_size
        /\ Capped(m[p].size + m[b].size + HEADER) <= m[p].size + m[b].size + HEADER
    BY <1>1, <2>1, CappedSize
  <2>3. size = m[p].size \/ size = Capped(m[p].size + m[b].size + HEADER)
    BY DEF p
  <2> QED BY <1>3, <2>2, <2>3 DEF HEADER
<1>5. k = [m EXCEPT ![p] = JoinedCell(m, p, b, size)]
  BY DEF p
<1>6. JoinedCell(m, p, b, size) \in CellType
  BY <1>3, <1>4 DEF JoinedCell, Cell, CellType
<1>7. /\ k \in [1..confmap_size -> CellType] /\ k[p] = JoinedCell(m, p, b, size)
      /\ \A c \in 1..confmap_size \ {p} : k[c] = m[c]
  BY <1>1, <1>2, <1>5, <1>6
<1>8. k[p].next = m[b].next /\ k[p].prev = m[p].prev /\ k[p].size = size
  BY <1>7 DEF JoinedCell, Cell
<1>9. Memory(k)
  <2>1. \A c \in 1..confmap_size :
            \/ k[c].next = m[c].next /\ k[c].prev = m[c].prev
            \/ (k[c].next = 0 \/ k[c].next > c) /\ k[c].prev < c
    BY <1>1, <1>2, <1>3, <1>7, <1>8
  <2> QED BY <1>0, <1>7, <2>1, MemoryKept
<1>10. \A c \in L : k[c].next # 0 => k[c].next \in L
  BY <1>0, <1>1, <1>7, <1>8 DEF IsList
<1>11. NoOverlap(k, L)
  <2> SUFFICES ASSUME NEW c \in L
               PROVE  IF k[c].next = 0 THEN c + k[c].size <= confmap_size
                                       ELSE c + HEADER + k[c].size <= k[c].next
    BY DEF NoOverlap
  <2>1. CASE c = p
    <3>1. p + HEADER + m[p].size <= b
      BY <1>0, <1>1, <1>2, <2>1, BlocksApart
    <3>2. p + size <= b + m[b].size
      BY <1>1, <1>2, <1>3, <1>4, <3>1 DEF HEADER
    <3>3. IF m[b].next = 0 THEN b + m[b].size <= confmap_size
                           ELSE b + HEADER + m[b].size <= m[b].next
      BY <1>0, <1>1 DEF NoOverlap
    <3>4. IF m[b].next = 0 THEN p + size <= confmap_size ELSE p + HEADER + size <= m[b].next
      BY <1>1, <1>2, <1>3, <1>4, <3>2, <3>3 DEF HEADER
    <3> QED BY <1>8, <2>1, <3>4
  <2>2. CASE c # p
    <3>1. k[c] = m[c]
      BY <1>1, <1>7, <2>2
    <3> QED BY <1>0, <3>1 DEF NoOverlap
  <2> QED BY <2>1, <2>2
<1> QED BY <1>0, <1>9, <1>10, <1>11, SoundBy DEF IsList

\* Bytes written over headers can only cut the list.
LEMMA BytesSound ==
  ASSUME NEW m, Sound(m), NEW C, NEW v \in {"free", "used", "zero"},
         NEW k, k = [c \in 1..confmap_size |-> IF c \in C THEN Datum(v) ELSE m[c]]
  PROVE  Sound(k)
<1> DEFINE L == Nodes(m)
<1>0. Memory(m) /\ NoOverlap(m, L) /\ IsList(m, L)
  BY NodesAreList DEF Sound
<1> HIDE DEF L
<1>1. L \subseteq 1..confmap_size /\ confmap_size \in Nat /\ m \in [1..confmap_size -> CellType]
  BY <1>0 DEF IsList, Memory
<1>2. Datum(v) \in CellType /\ Datum(v).next = 0 /\ Datum(v).prev = 0 /\ Datum(v).size = 0
  BY <1>1, DatumCell
<1>3. k \in [1..confmap_size -> CellType]
      /\ \A c \in 1..confmap_size : k[c] = Datum(v) \/ k[c] = m[c]
  BY <1>1, <1>2
<1>4. Memory(k)
  <2>1. \A c \in 1..confmap_size :
            \/ k[c].next = m[c].next /\ k[c].prev = m[c].prev
            \/ (k[c].next = 0 \/ k[c].next > c) /\ k[c].prev < c
    <3> HIDE DEF Datum
    <3> QED BY <1>2, <1>3
  <2> QED BY <1>0, <1>3, <2>1, MemoryKept
<1>5. \A c \in L : k[c].next # 0 => k[c].next \in L
  BY <1>0, <1>1, <1>2, <1>3 DEF IsList
<1>6. NoOverlap(k, L)
  BY <1>0, <1>1, <1>2, <1>3 DEF NoOverlap
<1> QED BY <1>0, <1>4, <1>5, <1>6, SoundBy DEF IsList

(***************************************************************************)
(* Type correctness, and the list stays in the segment whatever happens.   *)
(***************************************************************************)
Params == confmap_size \in Nat /\ confmap_size > HEADER /\ reqs \subseteq Nat \ {0}
          /\ Words \subseteq {"free", "used"}
CmmTyped == CmmTypeOK /\ Sound(mem) /\ Params

\* What a request finds.
LEMMA BestFitOf ==
  ASSUME Memory(mem), NEW n \in reqs, Fits(n) # {}
  PROVE  /\ BestFit(n) \in Nodes(mem)
         /\ mem[BestFit(n)].type = "free" /\ mem[BestFit(n)].size >= n
<1> DEFINE S == Blocks
           F == {i \in Fits(n) : \A j \in Fits(n) : mem[Blocks[i]].size <= mem[Blocks[j]].size}
<1>1. Blocks = BlocksFrom(mem)
  BY DEF Blocks
<1>2. S \in Seq(1..confmap_size) /\ DOMAIN S = 1..Len(S) /\ Len(S) \in Nat
  BY <1>1, BlocksChain DEF Chain
<1>3. \A i \in DOMAIN S : mem[S[i]].size \in Nat
  <2>1. \A i \in 1..Len(S) : S[i] \in 1..confmap_size
    BY <1>2, ElementOfSeq
  <2> QED BY <1>2, <2>1, CellOf
<1>4. Fits(n) \subseteq DOMAIN S
  BY DEF Fits
<1>5. F # {}
  <2> DEFINE sizes == {mem[S[i]].size : i \in Fits(n)}
  <2>1. sizes \in SUBSET Nat /\ sizes # {}
    BY <1>3, <1>4
  <2>2. PICK s \in sizes : \A t \in sizes : s <= t
    BY <2>1, LeastOf
  <2>3. PICK i \in Fits(n) : mem[S[i]].size = s
    BY <2>2
  <2>4. i \in F
    BY <2>2, <2>3
  <2> QED BY <2>4
<1>6. F \in SUBSET Nat
  BY <1>2, <1>4
<1>7. Min(F) \in F
  <2> HIDE DEF F
  <2>1. \E i \in F : \A j \in F : i <= j
    BY <1>5, <1>6, LeastOf
  <2> QED BY <2>1 DEF Min
<1>8. BestFit(n) = S[Min(F)] /\ Min(F) \in Fits(n)
  BY <1>7 DEF BestFit
<1> HIDE DEF F
<1>9. /\ Min(F) \in DOMAIN S /\ mem[S[Min(F)]].type = "free" /\ mem[S[Min(F)]].size >= n
  BY <1>8 DEF Fits
<1> QED BY <1>1, <1>8, <1>9 DEF Nodes

LEMMA CmmInitTyped == CmmInit => CmmTyped
<1> SUFFICES ASSUME CmmInit PROVE CmmTyped
  OBVIOUS
<1> DEFINE N == confmap_size
<1>1. Params
  BY CmmConstants DEF CmmInit, Params
<1>2. /\ Cell("free", 0, 0, N - HEADER) \in CellType
      /\ Datum("zero") \in CellType /\ Datum("zero").next = 0 /\ Datum("zero").prev = 0
      /\ Cell("free", 0, 0, N - HEADER).next = 0 /\ Cell("free", 0, 0, N - HEADER).prev = 0
      /\ Cell("free", 0, 0, N - HEADER).size = N - HEADER
  BY <1>1 DEF Params, Cell, CellType, Datum, HEADER
<1>3. /\ mem \in [1..N -> CellType] /\ mem[First] = Cell("free", 0, 0, N - HEADER)
      /\ \A c \in 1..N : mem[c].next = 0 /\ mem[c].prev = 0
  <2> HIDE DEF Cell, Datum
  <2>1. First \in 1..N
    BY <1>1 DEF Params, First, HEADER
  <2> QED BY <1>2, <2>1 DEF CmmInit
<1>4. Memory(mem)
  BY <1>1, <1>3 DEF Memory, Forward, Params
<1>5. IsList(mem, {First}) /\ NoOverlap(mem, {First})
  BY <1>1, <1>2, <1>3 DEF IsList, NoOverlap, Params, First, HEADER
<1>6. Sound(mem)
  BY <1>4, <1>5, SoundOfList
<1>7. CmmTypeOK
  <2>0. last_block = First /\ died = FALSE /\ live = {}
    BY DEF CmmInit
  <2>1. last_block \in 1..N
    BY <1>1, <2>0 DEF Params, First, HEADER
  <2>3. died \in BOOLEAN
    BY <2>0
  <2>2. mem \in [1..N -> CellType]
    BY <1>3
  <2> QED BY <2>0, <2>1, <2>2, <2>3 DEF CmmTypeOK, CellType
<1> QED BY <1>1, <1>6, <1>7 DEF CmmTyped

\* A block that a process may free or take, and what it then leaves.
LEMMA NodeCell ==
  ASSUME Sound(mem), NEW b \in Nodes(mem)
  PROVE  b \in 1..confmap_size
BY NodesAreList DEF IsList, Sound

LEMMA ListHolds ==
  ASSUME NEW b, InList(b)
  PROVE  b \in Nodes(mem)
BY DEF InList, Nodes, Blocks

LEMMA SplitSound ==
  ASSUME NEW m, Sound(m), NEW b \in Nodes(m), NEW n \in Nat \ {0}, m[b].size > n + HEADER
  PROVE  /\ Sound(Split(m, b, n))
         /\ Sound(Unlinked(m, b, n))
         /\ b + HEADER + n \in 1..confmap_size
<1>1. Memory(m) /\ IsList(m, Nodes(m)) /\ NoOverlap(m, Nodes(m))
  BY NodesAreList DEF Sound
<1>2. Sound(Split(m, b, n))
  <2> DEFINE K == Nodes(m) \cup {b + HEADER + n}
             k == Split(m, b, n)
  <2>1. Memory(k) /\ IsList(k, K) /\ NoOverlap(k, K)
    BY <1>1, SplitList
  <2> HIDE DEF k, K
  <2>2. Sound(k)
    BY <2>1, SoundOfList
  <2> QED BY <2>2 DEF k
<1>3. Sound(Unlinked(m, b, n))
  <2> DEFINE k == Unlinked(m, b, n)
  <2>1. Memory(k) /\ IsList(k, Nodes(m)) /\ NoOverlap(k, Nodes(m))
    BY <1>1, SplitUnlinked
  <2> HIDE DEF k
  <2>2. Sound(k)
    BY <2>1, SoundOfList
  <2> QED BY <2>2 DEF k
<1>4. b + HEADER + n \in 1..confmap_size
  BY <1>1, SplitCells
<1> QED BY <1>2, <1>3, <1>4

LEMMA TypeSound ==
  ASSUME NEW m, Sound(m), NEW b \in 1..confmap_size, NEW v \in {"free", "used"}
  PROVE  Sound(SetType(m, b, v))
<1> DEFINE k == SetType(m, b, v)
<1>1. Memory(k) /\ IsList(k, Nodes(m)) /\ NoOverlap(k, Nodes(m))
  BY NodesAreList, TypeChanged DEF Sound
<1> HIDE DEF k
<1>2. Sound(k)
  BY <1>1, SoundOfList
<1> QED BY <1>2 DEF k

LEMMA NextJoined ==
  ASSUME NEW m, Memory(m), NEW L, IsList(m, L), NoOverlap(m, L),
         NEW b \in L, NEW g, g = m[b].next, g # 0
  PROVE  /\ g \in L /\ b < g /\ m[b].size + m[g].size + HEADER <= confmap_size
         /\ JoinedAs(m, Merge(m, b, g), b, g, m[b].size + m[g].size + HEADER)
         /\ Memory(Link(m, b, g)) /\ Memory(Merge(m, b, g))
         /\ IsList(Link(m, b, g), L \ {g}) /\ IsList(Merge(m, b, g), L \ {g})
         /\ NoOverlap(Link(m, b, g), L \ {g}) /\ NoOverlap(Merge(m, b, g), L \ {g})
<1> DEFINE s == m[b].size + m[g].size + HEADER
<1>1. b \in 1..confmap_size /\ g \in L /\ g \in 1..confmap_size /\ confmap_size \in Nat
  BY DEF IsList, Memory
<1>2. m[b].size \in Nat /\ m[g].size \in Nat /\ s \in Nat
  BY <1>1, CellOf DEF HEADER
<1>3. b < g /\ s <= confmap_size
  <2>1. \E k : k = [m EXCEPT ![b] = Cell(m[b].type, m[g].next, m[b].prev, s)]
    OBVIOUS
  <2> QED BY <2>1, JoinList
<1>4. Link(m, b, g) = [m EXCEPT ![b] = JoinedCell(m, b, g, m[b].size)]
  BY <1>1, LinkCell
<1>5. Merge(m, b, g) = [m EXCEPT ![b] = JoinedCell(m, b, g, s)]
  <2>1. Capped(s) = s
    BY <1>1, <1>2, <1>3, CappedSize
  <2> QED BY <1>1, <2>1, MergeCell
<1>6. ASSUME NEW z \in {m[b].size, s}, NEW k, k = [m EXCEPT ![b] = JoinedCell(m, b, g, z)]
      PROVE  Memory(k) /\ IsList(k, L \ {g}) /\ NoOverlap(k, L \ {g})
  <2>1. k = [m EXCEPT ![b] = Cell(m[b].type, m[g].next, m[b].prev, z)]
    BY <1>6 DEF JoinedCell
  <2>2. z \in {m[b].size, m[b].size + m[g].size + HEADER}
    OBVIOUS
  <2> QED BY <2>1, <2>2, JoinList
<1>7. JoinedAs(m, Merge(m, b, g), b, g, s)
  BY <1>5 DEF JoinedAs
<1> QED BY <1>1, <1>3, <1>4, <1>5, <1>6, <1>7

LEMMA JoinedSize ==
  ASSUME NEW b \in Nat, NEW x \in Nat, NEW y \in Nat, NEW g \in Nat, b + HEADER + x = g
  PROVE  x + y + HEADER \in Nat /\ b + (x + y + HEADER) = g + y
BY DEF HEADER

LEMMA MergeTiles ==
  ASSUME NEW m, Memory(m), NEW L, IsList(m, L), NoOverlap(m, L), Tiles(m, L),
         NEW b \in L, NEW g, g = m[b].next, g # 0
  PROVE  Tiles(Merge(m, b, g), L \ {g})
<1> DEFINE s == m[b].size + m[g].size + HEADER
           k == Merge(m, b, g)
<1>1. b \in 1..confmap_size /\ confmap_size \in Nat /\ L \subseteq 1..confmap_size
      /\ m \in [1..confmap_size -> CellType]
  BY DEF IsList, Memory
<1>2. g \in L /\ b < g /\ JoinedAs(m, k, b, g, s)
  BY NextJoined
<1>3. m[b].size \in Nat /\ m[g].size \in Nat /\ m[g].next \in Nat /\ g \in Nat
  BY <1>1, <1>2, CellOf
<1>4. /\ b + HEADER + m[b].size = g
      /\ IF m[g].next = 0 THEN g + m[g].size = confmap_size
                          ELSE g + HEADER + m[g].size = m[g].next
  BY <1>2 DEF Tiles
<1>5. IF m[g].next = 0 THEN b + s = confmap_size ELSE b + HEADER + s = m[g].next
  <2>1. s \in Nat /\ b + s = g + m[g].size /\ b \in Nat
    <3>1. b \in Nat /\ m[b].size \in Nat /\ m[g].size \in Nat /\ g \in Nat
      BY <1>1, <1>3
    <3> QED BY <1>4, <3>1, JoinedSize
  <2> HIDE DEF s
  <2>2. CASE m[g].next = 0
    BY <1>4, <2>1, <2>2
  <2>3. CASE m[g].next # 0
    BY <1>3, <1>4, <2>1, <2>3 DEF HEADER
  <2> QED BY <2>2, <2>3
<1> HIDE DEF s, k
<1>6. k[b] = JoinedCell(m, b, g, s) /\ \A c \in 1..confmap_size \ {b} : k[c] = m[c]
  BY <1>1, <1>2 DEF JoinedAs
<1>7. k[b].next = m[g].next /\ k[b].size = s
  BY <1>6 DEF JoinedCell, Cell
<1>8. ASSUME NEW c \in L \ {g}
      PROVE  IF k[c].next = 0 THEN c + k[c].size = confmap_size
                              ELSE c + HEADER + k[c].size = k[c].next
  <2>1. CASE c = b
    BY <1>5, <1>7, <2>1
  <2>2. CASE c # b
    <3>1. k[c] = m[c]
      BY <1>1, <1>6, <2>2
    <3> QED BY <3>1 DEF Tiles
  <2> QED BY <2>1, <2>2
<1>9. Tiles(k, L \ {g})
  BY <1>8 DEF Tiles
<1> QED BY <1>9 DEF k

LEMMA NextSound ==
  ASSUME NEW m, Sound(m), NEW b \in Nodes(m), m[b].next # 0
  PROVE  /\ Sound(Link(m, b, m[b].next)) /\ Sound(Merge(m, b, m[b].next))
         /\ b \in Nodes(Merge(m, b, m[b].next))
<1> DEFINE g == m[b].next
           L == Nodes(m)
           k == Link(m, b, g)
           j == Merge(m, b, g)
<1>1. Memory(m) /\ IsList(m, L) /\ NoOverlap(m, L)
  BY NodesAreList DEF Sound
<1>2. /\ Memory(k) /\ IsList(k, L \ {g}) /\ NoOverlap(k, L \ {g})
      /\ Memory(j) /\ IsList(j, L \ {g}) /\ NoOverlap(j, L \ {g}) /\ b < g
  BY <1>1, NextJoined
<1> HIDE DEF L
<1>3. b \in L \ {g}
  <2>1. b \in L /\ b \in 1..confmap_size /\ confmap_size \in Nat
    BY <1>1 DEF L, IsList, Memory
  <2> QED BY <1>2, <2>1
<1> HIDE DEF k, j
<1>4. Nodes(j) = L \ {g}
  BY <1>2, ListUnique
<1>5. Sound(k) /\ Sound(j)
  BY <1>2, SoundOfList
<1> QED BY <1>3, <1>4, <1>5 DEF k, j

LEMMA PrevMerged ==
  ASSUME NEW m, Sound(m), NEW b \in Nodes(m), m[b].prev # 0
  PROVE  Sound(Link(m, m[b].prev, b)) /\ Sound(Merge(m, m[b].prev, b))
<1> DEFINE p == m[b].prev
           s == Capped(m[p].size + m[b].size + HEADER)
<1>1. Memory(m) /\ b \in 1..confmap_size /\ p \in 1..confmap_size
  BY NodesAreList, CellOf DEF Sound, IsList
<1>2. Link(m, p, b) = [m EXCEPT ![p] = JoinedCell(m, p, b, m[p].size)]
  BY <1>1, LinkCell
<1>3. Merge(m, p, b) = [m EXCEPT ![p] = JoinedCell(m, p, b, s)]
  BY <1>1, MergeCell
<1>4. Sound(Link(m, p, b))
  BY <1>2, PrevSound
<1>5. Sound(Merge(m, p, b))
  BY <1>3, PrevSound
<1> QED BY <1>4, <1>5

\* Whatever a free leaves, whole or cut short by a death.
LEMMA FreeSound ==
  ASSUME Sound(mem), NEW b \in Nodes(mem),
         \/ mem' = MergePrev(MergeNext(SetType(mem, b, "free"), b), b)
         \/ LET marked == SetType(mem, b, "free")
                joined == MergeNext(marked, b)
            IN  \/ mem' = marked
                \/ CanMerge(marked, b, marked[b].next) /\ mem' = Link(marked, b, marked[b].next)
                \/ mem' = joined
                \/ CanMerge(joined, joined[b].prev, b) /\ mem' = Link(joined, joined[b].prev, b)
  PROVE  Sound(mem')
<1> DEFINE marked == SetType(mem, b, "free")
           joined == MergeNext(marked, b)
<1>1. b \in 1..confmap_size /\ Memory(mem)
  BY NodeCell DEF Sound
<1>2. Memory(marked) /\ IsList(marked, Nodes(mem)) /\ NoOverlap(marked, Nodes(mem))
  BY <1>1, NodesAreList, TypeChanged DEF Sound
<1>3. Sound(marked) /\ b \in Nodes(marked)
  BY <1>2, SoundOfList, ListUnique
<1> HIDE DEF marked
<1>4. CanMerge(marked, b, marked[b].next) =>
         /\ Sound(Link(marked, b, marked[b].next)) /\ Sound(Merge(marked, b, marked[b].next))
         /\ b \in Nodes(Merge(marked, b, marked[b].next))
  BY <1>3, NextSound DEF CanMerge
<1>5. Sound(joined) /\ b \in Nodes(joined)
  BY <1>3, <1>4 DEF MergeNext
<1> HIDE DEF joined
<1>6. CanMerge(joined, joined[b].prev, b) =>
         Sound(Link(joined, joined[b].prev, b)) /\ Sound(Merge(joined, joined[b].prev, b))
  BY <1>5, PrevMerged DEF CanMerge
<1>7. Sound(MergePrev(joined, b))
  BY <1>5, <1>6 DEF MergePrev
<1> QED BY <1>3, <1>4, <1>5, <1>6, <1>7 DEF marked, joined

LEMMA SoundCarried ==
  ASSUME confmap_size' = confmap_size, Sound(mem')
  PROVE  Sound(mem)'
BY DEF Sound, Memory, CellType, Forward, NoOverlap, Nodes, BlocksFrom

LEMMA SizesKept ==
  ASSUME [CmmNext]_cmmvars
  PROVE  confmap_size' = confmap_size /\ reqs' = reqs
BY DEF CmmNext, Alloc, AllocDies, Clear, Write, Free, FreeDies, cmmvars

LEMMA CmmNextTyped == CmmTyped /\ [CmmNext]_cmmvars => CmmTyped'
<1> SUFFICES ASSUME CmmTyped, [CmmNext]_cmmvars PROVE CmmTyped'
  OBVIOUS
<1>0. /\ Params /\ Sound(mem) /\ CmmTypeOK
      /\ confmap_size \in Nat /\ reqs \subseteq Nat \ {0}
  BY DEF CmmTyped, Params
<1>1. confmap_size' = confmap_size /\ reqs' = reqs
  BY SizesKept
<1>2. Params'
  BY <1>0, <1>1 DEF Params
<1>3. ASSUME Sound(mem'), last_block' \in 1..confmap_size, died' \in BOOLEAN,
             live' \subseteq [addr : 1..confmap_size, n : reqs, val : {"dirty", "zero"} \cup Words]
      PROVE  CmmTyped'
  <2>1. Sound(mem)'
    BY <1>1, <1>3, SoundCarried
  <2>2. mem' \in [1..confmap_size -> CellType]
    BY <1>3 DEF Sound, Memory
  <2>3. CmmTypeOK'
    BY <1>1, <1>3, <2>2 DEF CmmTypeOK, CellType
  <2> QED BY <1>2, <2>1, <2>3 DEF CmmTyped
<1>4. last_block \in 1..confmap_size /\ died \in BOOLEAN
      /\ live \subseteq [addr : 1..confmap_size, n : reqs, val : {"dirty", "zero"} \cup Words]
  BY <1>0 DEF CmmTypeOK
<1>5. ASSUME NEW n \in reqs, Fits(n) # {}
      PROVE  LET b == BestFit(n)
             IN /\ b \in Nodes(mem) /\ b \in 1..confmap_size /\ n \in Nat \ {0}
                /\ Splits(b, n) => /\ Sound(Split(mem, b, n))
                                   /\ Sound(Unlinked(mem, b, n))
                                   /\ b + HEADER + n \in 1..confmap_size
                                   /\ Sound(SetType(Split(mem, b, n), b, "used"))
                /\ Sound(SetType(mem, b, "used"))
                /\ Relast(b, n) \in 1..confmap_size
  <2> DEFINE b == BestFit(n)
  <2>1. b \in Nodes(mem) /\ n \in Nat \ {0}
    BY <1>0, <1>5, BestFitOf DEF Sound
  <2>2. b \in 1..confmap_size
    BY <1>0, <2>1, NodeCell
  <2> HIDE DEF b
  <2>3. ASSUME Splits(b, n)
        PROVE  /\ Sound(Split(mem, b, n))
               /\ Sound(Unlinked(mem, b, n))
               /\ b + HEADER + n \in 1..confmap_size
    BY <1>0, <2>1, <2>3, SplitSound DEF Splits
  <2>4. ASSUME Splits(b, n) PROVE Sound(SetType(Split(mem, b, n), b, "used"))
    <3> DEFINE k == Split(mem, b, n)
    <3>1. Sound(k)
      BY <2>3, <2>4
    <3> HIDE DEF k
    <3>2. Sound(SetType(k, b, "used"))
      BY <2>2, <3>1, TypeSound
    <3> QED BY <3>2 DEF k
  <2>5. Sound(SetType(mem, b, "used"))
    BY <1>0, <2>2, TypeSound
  <2>6. Relast(b, n) \in 1..confmap_size
    BY <1>4, <2>3 DEF Relast
  <2> QED BY <2>1, <2>2, <2>3, <2>4, <2>5, <2>6 DEF b
<1>6. ASSUME NEW n \in reqs, Alloc(n) PROVE CmmTyped'
  <2> DEFINE b == BestFit(n)
  <2>1. Fits(n) # {} /\ died' = died
        /\ mem' = SetType(IF Splits(b, n) THEN Split(mem, b, n) ELSE mem, b, "used")
        /\ live' = live \cup {[addr |-> b, n |-> n, val |-> "dirty"]}
        /\ last_block' = Relast(b, n)
    BY <1>6 DEF Alloc, SetType
  <2>2. /\ Splits(b, n) => Sound(SetType(Split(mem, b, n), b, "used"))
        /\ Sound(SetType(mem, b, "used"))
        /\ Relast(b, n) \in 1..confmap_size /\ b \in 1..confmap_size
    BY <1>5, <2>1
  <2> HIDE DEF b
  <2>3. Sound(mem')
    <3>1. CASE Splits(b, n)
      BY <2>1, <2>2, <3>1
    <3>2. CASE ~Splits(b, n)
      BY <2>1, <2>2, <3>2
    <3> QED BY <3>1, <3>2
  <2>4. live' \subseteq [addr : 1..confmap_size, n : reqs, val : {"dirty", "zero"} \cup Words]
    BY <1>4, <2>1, <2>2
  <2> QED BY <1>3, <1>4, <2>1, <2>2, <2>3, <2>4
<1>7. ASSUME NEW n \in reqs, AllocDies(n) PROVE CmmTyped'
  <2> DEFINE b == BestFit(n)
             k == Split(mem, b, n)
  <2>1. /\ Fits(n) # {} /\ died' = TRUE /\ live' = live /\ Splits(b, n)
        /\ \/ mem' = Unlinked(mem, b, n) /\ last_block' = last_block
           \/ mem' = k /\ last_block' \in {last_block, Relast(b, n)}
    BY <1>7 DEF AllocDies, Unlinked
  <2>2. /\ Sound(k) /\ Sound(Unlinked(mem, b, n))
        /\ Relast(b, n) \in 1..confmap_size
    BY <1>5, <2>1
  <2> HIDE DEF b, k
  <2>3. Sound(mem')
    BY <2>1, <2>2
  <2>4. last_block' \in 1..confmap_size /\ died' \in BOOLEAN
    BY <1>4, <2>1, <2>2
  <2> QED BY <1>3, <1>4, <2>1, <2>3, <2>4
<1>8. ASSUME NEW r \in live, NEW v \in {"zero"} \cup Words,
             mem' = [c \in 1..confmap_size |->
                       IF c \in Cells(r.addr, r.n) THEN Datum(v) ELSE mem[c]],
             live' = (live \ {r}) \cup {[r EXCEPT !.val = v]},
             UNCHANGED <<last_block, died>>
      PROVE  CmmTyped'
  <2>1. Sound(mem')
    <3>1. v \in {"free", "used", "zero"}
      BY <1>0 DEF Params
    <3> QED BY <1>0, <1>8, <3>1, BytesSound
  <2>2. [r EXCEPT !.val = v]
          \in [addr : 1..confmap_size, n : reqs, val : {"dirty", "zero"} \cup Words]
    BY <1>4
  <2>3. live' \subseteq [addr : 1..confmap_size, n : reqs, val : {"dirty", "zero"} \cup Words]
    BY <1>4, <1>8, <2>2
  <2> QED BY <1>3, <1>4, <1>8, <2>1, <2>3
<1>9. ASSUME NEW r \in live, Clear(r) \/ \E v \in Words : Write(r, v) PROVE CmmTyped'
  BY <1>8, <1>9 DEF Clear, Write
<1>10. ASSUME NEW r \in live, Free(r) \/ FreeDies(r) PROVE CmmTyped'
  <2>1. r.addr \in Nodes(mem)
    BY <1>10, ListHolds DEF Free, FreeDies
  <2>2. Sound(mem')
    BY <1>0, <1>10, <2>1, FreeSound DEF Free, FreeDies, SetType
  <2>3. live' \subseteq live /\ last_block' = last_block /\ died' \in {died, TRUE}
    BY <1>10 DEF Free, FreeDies
  <2> QED BY <1>3, <1>4, <2>2, <2>3
<1>11. CASE UNCHANGED cmmvars
  <2>1. Sound(mem')
    BY <1>0, <1>11 DEF cmmvars
  <2> QED BY <1>3, <1>4, <1>11, <2>1 DEF cmmvars
<1> QED BY <1>6, <1>7, <1>9, <1>10, <1>11 DEF CmmNext

\* Every reachable state of the configuration memory is well typed, whatever
\* sizes are asked for, also after deaths and after merges through a stale prev.
THEOREM CmmTypeCorrect == CmmSpec => []CmmTypeOK
<1>1. CmmTyped => CmmTypeOK
  BY DEF CmmTyped
<1> QED BY <1>1, CmmInitTyped, CmmNextTyped, PTL DEF CmmSpec

\* The list never leads out of the segment and never runs in a circle: no state
\* stops for the guard InSegment of the next-state relation.
THEOREM ListInSegment == CmmSpec => []InSegment
<1>1. CmmTyped => InSegment
  <2> SUFFICES ASSUME CmmTyped, NEW i \in DOMAIN Blocks
               PROVE  Blocks[i] + mem[Blocks[i]].size <= confmap_size
    BY DEF InSegment
  <2>1. Sound(mem)
    BY DEF CmmTyped
  <2> DEFINE b == Blocks[i]
             L == Nodes(mem)
  <2>2. b \in L
    BY DEF Nodes, Blocks
  <2>3. Memory(mem) /\ IsList(mem, L) /\ NoOverlap(mem, L)
    BY <2>1, NodesAreList DEF Sound
  <2> HIDE DEF b, L
  <2>4. b \in 1..confmap_size /\ confmap_size \in Nat
    BY <2>2, <2>3 DEF IsList, Memory
  <2>5. mem[b].size \in 0..confmap_size /\ mem[b].next \in 0..confmap_size
    BY <2>3, <2>4, CellOf
  <2>6. b + mem[b].size <= confmap_size
    BY <2>2, <2>3, <2>4, <2>5 DEF NoOverlap, HEADER
  <2> QED BY <2>6 DEF b
<1> QED BY <1>1, CmmInitTyped, CmmNextTyped, PTL DEF CmmSpec

(***************************************************************************)
(* Fine memories stay fine.  First the safety of the module as one.        *)
(***************************************************************************)
LEMMA SafeIsFine ==
  ASSUME CmmTyped, Safe
  PROVE  Fine(mem, Nodes(mem), live)
<1>1. Memory(mem) /\ NoOverlap(mem, Nodes(mem)) /\ IsList(mem, Nodes(mem))
  BY NodesAreList DEF CmmTyped, Sound
<1>2. Owns(mem, Nodes(mem), live)
  <2>1. \A r \in live : r.n \in Nat \ {0}
    BY DEF CmmTyped, CmmTypeOK, Params
  <2>2. \A r \in live : /\ \A q \in live : q.addr = r.addr => q = r
                        /\ r.addr \in Nodes(mem) /\ mem[r.addr].type = "used"
                        /\ mem[r.addr].size >= r.n
    BY ListHolds DEF Safe, LiveDisjoint
  <2> HIDE DEF Nodes
  <2> QED BY <2>1, <2>2 DEF Owns
<1>3. Intact(mem, live)
  BY DEF Safe, DataIntact, Intact
<1> QED BY <1>1, <1>2, <1>3 DEF Fine

LEMMA FineIsSafe ==
  ASSUME NEW L, Fine(mem, L, live)
  PROVE  Safe
<1> DEFINE S == Blocks
<1>1. Memory(mem) /\ IsList(mem, L) /\ NoOverlap(mem, L)
      /\ Owns(mem, L, live) /\ Intact(mem, live)
  BY DEF Fine
<1>2. L = {S[i] : i \in DOMAIN S}
  BY <1>1, ListUnique DEF Nodes, Blocks
<1>3. DataIntact
  BY <1>1 DEF DataIntact, Intact
<1>4. LiveDisjoint
  <2> SUFFICES ASSUME NEW r \in live
               PROVE  /\ \A q \in live : q.addr = r.addr => q = r
                      /\ \E i \in DOMAIN S : S[i] = r.addr
                      /\ mem[r.addr].type = "used" /\ mem[r.addr].size >= r.n
                      /\ \A i \in DOMAIN S : S[i] # r.addr =>
                           Body(mem, S[i]) \cap Body(mem, r.addr) = {}
    BY DEF LiveDisjoint, InList, Extent, Body
  <2> HIDE DEF S
  <2>1. /\ \A q \in live : q.addr = r.addr => q = r
        /\ r.addr \in L /\ mem[r.addr].type = "used" /\ mem[r.addr].size >= r.n
    BY <1>1 DEF Owns
  <2>2. \A i \in DOMAIN S : S[i] # r.addr => Body(mem, S[i]) \cap Body(mem, r.addr) = {}
    BY <1>1, <1>2, <2>1, BodiesApart
  <2> QED BY <1>2, <2>1, <2>2
<1> QED BY <1>3, <1>4 DEF Safe

LEMMA FineCarried ==
  ASSUME confmap_size' = confmap_size, NEW L, Fine(mem', L, live')
  PROVE  Fine(mem, L, live)'
BY DEF Fine, Memory, CellType, Forward, IsList, NoOverlap, Owns, Intact

\* A free block is handed out.
LEMMA TakeFine ==
  ASSUME NEW m, NEW L, NEW lv, Fine(m, L, lv), NEW b \in L, m[b].type = "free",
         NEW n \in Nat \ {0}, m[b].size >= n
  PROVE  Fine(SetType(m, b, "used"), L, lv \cup {[addr |-> b, n |-> n, val |-> "dirty"]})
<1> DEFINE q == [addr |-> b, n |-> n, val |-> "dirty"]
           k == SetType(m, b, "used")
<1>1. Memory(m) /\ IsList(m, L) /\ NoOverlap(m, L) /\ b \in 1..confmap_size
  BY DEF Fine, IsList
<1>2. /\ Memory(k) /\ IsList(k, L) /\ NoOverlap(k, L)
      /\ k[b] = Cell("used", m[b].next, m[b].prev, m[b].size)
      /\ \A c \in 1..confmap_size \ {b} : k[c] = m[c]
  BY <1>1, TypeChanged
<1> HIDE DEF k
<1>3. \A r \in lv : r.addr # b /\ r.addr \in L
  BY DEF Fine, Owns
<1>4. \A r \in lv : b \notin Cells(r.addr, r.n)
  BY BytesInside
<1>5. Fine(k, L, lv)
  <2>1. Missed(lv, L, {b}) /\ SameBut(m, k, {b})
    BY <1>2, <1>3, <1>4 DEF Missed, SameBut
  <2> QED BY <1>2, <2>1, FineBut
<1>6. Owns(k, L, lv \cup {q})
  <2>1. k[b].type = "used" /\ k[b].size = m[b].size
    BY <1>2 DEF Cell
  <2>2. q.addr = b /\ q.n = n
    OBVIOUS
  <2>3. \A r \in lv : /\ r.n \in Nat \ {0}
                      /\ \A p \in lv : p.addr = r.addr => p = r
                      /\ r.addr \in L /\ k[r.addr].type = "used" /\ k[r.addr].size >= r.n
    BY <1>5 DEF Fine, Owns
  <2> HIDE DEF q
  <2> QED BY <1>3, <2>1, <2>2, <2>3 DEF Owns
<1>7. Intact(k, lv \cup {q})
  <2>1. q.val = "dirty"
    OBVIOUS
  <2> HIDE DEF q
  <2> QED BY <1>5, <2>1 DEF Fine, Intact
<1> QED BY <1>5, <1>6, <1>7 DEF Fine, k

\* A free block is split, or has only lost its rest.
LEMMA SplitFine ==
  ASSUME NEW m, NEW L, NEW lv, Fine(m, L, lv), NEW b \in L, m[b].type = "free",
         NEW n \in Nat \ {0}, m[b].size > n + HEADER
  PROVE  /\ Fine(Split(m, b, n), L \cup {b + HEADER + n}, lv)
         /\ Fine(Unlinked(m, b, n), L, lv)
         /\ Split(m, b, n)[b].type = "free" /\ Split(m, b, n)[b].size = n
<1> DEFINE rest == b + HEADER + n
           k == Split(m, b, n)
           j == Unlinked(m, b, n)
<1>1. Memory(m) /\ IsList(m, L) /\ NoOverlap(m, L) /\ b \in 1..confmap_size
  BY DEF Fine, IsList
<1>2. /\ rest \in Body(m, b) /\ b < rest
      /\ k[b] = Cell(m[b].type, rest, m[b].prev, n)
      /\ \A c \in 1..confmap_size \ {b, rest} : k[c] = m[c]
  BY <1>1, SplitCells
<1>3. Memory(k) /\ IsList(k, L \cup {rest}) /\ NoOverlap(k, L \cup {rest})
  BY <1>1, SplitList
<1>4. /\ Memory(j) /\ IsList(j, L) /\ NoOverlap(j, L)
      /\ \A c \in 1..confmap_size \ {b, rest} : j[c] = m[c]
  BY <1>1, SplitUnlinked
<1>5. b \in Body(m, b)
  <2>1. m[b].size \in 0..confmap_size
    BY <1>1, CellOf
  <2> QED BY <1>1, <2>1 DEF Body, HEADER
<1> HIDE DEF k, j, rest
<1>6. \A r \in lv : /\ r.addr \in L /\ r.addr \notin {b, rest}
                    /\ Cells(r.addr, r.n) \cap {b, rest} = {}
  <2> SUFFICES ASSUME NEW r \in lv
               PROVE  /\ r.addr \in L /\ r.addr \notin {b, rest}
                      /\ Cells(r.addr, r.n) \cap {b, rest} = {}
    OBVIOUS
  <2>1. r.addr \in L /\ r.addr # b
    BY DEF Fine, Owns
  <2>2. r.addr \notin Body(m, b) /\ Cells(r.addr, r.n) \cap Body(m, b) = {}
    BY <2>1, OthersUntouched
  <2> QED BY <1>2, <1>5, <2>1, <2>2
<1>7. Fine(k, L \cup {rest}, lv)
  <2>1. Missed(lv, L \cup {rest}, {b, rest}) /\ SameBut(m, k, {b, rest})
    BY <1>2, <1>6 DEF Missed, SameBut
  <2> QED BY <1>3, <2>1, FineBut
<1>8. Fine(j, L, lv)
  <2>1. Missed(lv, L, {b, rest}) /\ SameBut(m, j, {b, rest})
    BY <1>4, <1>6 DEF Missed, SameBut
  <2> QED BY <1>4, <2>1, FineBut
<1>9. k[b].type = "free" /\ k[b].size = n
  BY <1>2 DEF Cell
<1> QED BY <1>7, <1>8, <1>9 DEF k, j, rest

\* A user's block is freed.
LEMMA MarkFine ==
  ASSUME NEW m, NEW L, NEW lv, Fine(m, L, lv), NEW r \in lv
  PROVE  LET k == SetType(m, r.addr, "free")
         IN  /\ Fine(k, L, lv \ {r}) /\ r.addr \in L
             /\ k[r.addr] = Cell("free", m[r.addr].next, m[r.addr].prev, m[r.addr].size)
             /\ \A c \in 1..confmap_size \ {r.addr} : k[c] = m[c]
<1> DEFINE b == r.addr
           k == SetType(m, r.addr, "free")
<1>1. Memory(m) /\ IsList(m, L) /\ NoOverlap(m, L) /\ b \in L /\ b \in 1..confmap_size
  BY DEF Fine, Owns, IsList
<1>2. /\ Memory(k) /\ IsList(k, L) /\ NoOverlap(k, L)
      /\ k[b] = Cell("free", m[b].next, m[b].prev, m[b].size)
      /\ \A c \in 1..confmap_size \ {b} : k[c] = m[c]
  BY <1>1, TypeChanged
<1> HIDE DEF k
<1>3. \A q \in lv \ {r} : q.addr # b /\ q.addr \in L
  BY DEF Fine, Owns
<1>4. \A q \in lv : b \notin Cells(q.addr, q.n)
  BY <1>1, BytesInside
<1> HIDE DEF b
<1>5. Fine(k, L, lv \ {r})
  <2>1. Missed(lv \ {r}, L, {b}) /\ SameBut(m, k, {b})
    BY <1>2, <1>3, <1>4 DEF Missed, SameBut
  <2> QED BY <1>2, <2>1, FineBut
<1> QED BY <1>1, <1>2, <1>5 DEF b, k

\* What an operation that gives no block away leaves of a fine memory; whole says
\* that it has run to its end.
Leaves(m, L, lv, k, K, whole) ==
  /\ K \in SUBSET L /\ Fine(k, K, lv) /\ SamePrevs(m, k, 1..confmap_size)
  /\ whole => KeepsTiles(m, L, k, K)

\* Two free blocks become one, or the list skips the second.
LEMMA NextFine ==
  ASSUME NEW m, NEW L, NEW lv, Fine(m, L, lv), NEW b \in L, NEW g, g = m[b].next,
         CanMerge(m, b, g), NEW k \in {Link(m, b, g), Merge(m, b, g)}
  PROVE  /\ Leaves(m, L, lv, k, L \ {g}, k = Merge(m, b, g))
         /\ g \in L /\ b < g /\ b \in 1..confmap_size
         /\ \A c \in 1..confmap_size \ {b} : k[c] = m[c]
<1>1. Memory(m) /\ IsList(m, L) /\ NoOverlap(m, L) /\ b \in 1..confmap_size
      /\ m \in [1..confmap_size -> CellType]
  BY DEF Fine, IsList, Memory
<1>2. g # 0 /\ m[b].type = "free" /\ m[g].type = "free"
  BY DEF CanMerge
<1>3. /\ g \in L /\ b < g
      /\ Memory(Link(m, b, g)) /\ Memory(Merge(m, b, g))
      /\ IsList(Link(m, b, g), L \ {g}) /\ IsList(Merge(m, b, g), L \ {g})
      /\ NoOverlap(Link(m, b, g), L \ {g}) /\ NoOverlap(Merge(m, b, g), L \ {g})
  BY <1>1, <1>2, NextJoined
<1>4. Memory(k) /\ IsList(k, L \ {g}) /\ NoOverlap(k, L \ {g})
  BY <1>3
<1>5. g \in 1..confmap_size
  BY <1>1, <1>3 DEF IsList
<1>6. JoinedSome(m, k, b, g)
  BY <1>1, <1>5, JoinedBy
<1>7. /\ \A c \in 1..confmap_size \ {b} : k[c] = m[c]
      /\ SamePrevs(m, k, 1..confmap_size)
  BY <1>1, <1>6, JoinedPrevs
<1>8. Missed(lv, L \ {g}, {b})
  <2>1. \A r \in lv : r.addr \in L /\ m[r.addr].type = "used"
    BY DEF Fine, Owns
  <2>2. \A r \in lv : b \notin Cells(r.addr, r.n)
    BY BytesInside
  <2> QED BY <1>2, <2>1, <2>2 DEF Missed
<1>9. Fine(k, L \ {g}, lv)
  <2>1. SameBut(m, k, {b})
    BY <1>7 DEF SameBut
  <2> QED BY <1>4, <1>8, <2>1, FineBut
<1>10. k = Merge(m, b, g) => KeepsTiles(m, L, k, L \ {g})
  <2> SUFFICES ASSUME Tiles(m, L) PROVE Tiles(Merge(m, b, g), L \ {g})
    BY DEF KeepsTiles
  <2> QED BY <1>1, <1>2, MergeTiles
<1>11. Leaves(m, L, lv, k, L \ {g}, k = Merge(m, b, g))
  BY <1>7, <1>9, <1>10 DEF Leaves
<1> QED BY <1>1, <1>3, <1>7, <1>11

\* One more block is somebody's.
LEMMA FineWith ==
  ASSUME NEW m, NEW L, NEW lv, Fine(m, L, lv),
         NEW q, q.n \in Nat \ {0}, q.addr \in L, m[q.addr].type = "used", m[q.addr].size >= q.n,
         \A r \in lv : r.addr # q.addr,
         q.val # "dirty" => \A c \in Cells(q.addr, q.n) : m[c] = Datum(q.val)
  PROVE  Fine(m, L, lv \cup {q})
<1>1. Owns(m, L, lv \cup {q})
  BY DEF Fine, Owns
<1>2. Intact(m, lv \cup {q})
  BY DEF Fine, Intact
<1> QED BY <1>1, <1>2 DEF Fine

\* A user, or the memset of a new block, writes the bytes of a block.
Stored(m, C, v) == [c \in 1..confmap_size |-> IF c \in C THEN Datum(v) ELSE m[c]]

LEMMA StoreFine ==
  ASSUME NEW m, NEW L, NEW lv, Fine(m, L, lv), NEW r \in lv,
         NEW v \in {"free", "used", "zero"},
         NEW q, q.addr = r.addr, q.n = r.n, q.val = v
  PROVE  Fine(Stored(m, Cells(r.addr, r.n), v), L, (lv \ {r}) \cup {q})
<1> DEFINE C == Cells(r.addr, r.n)
           k == Stored(m, C, v)
<1>1. /\ Memory(m) /\ IsList(m, L) /\ NoOverlap(m, L) /\ L \subseteq 1..confmap_size
      /\ confmap_size \in Nat /\ m \in [1..confmap_size -> CellType]
  BY DEF Fine, IsList, Memory
<1>2. Datum(v) \in CellType /\ Datum(v).next = 0 /\ Datum(v).prev = 0 /\ Datum(v).size = 0
  BY <1>1, DatumCell
<1>3. r.addr \in L /\ r.addr \in 1..confmap_size
  BY <1>1 DEF Fine, Owns
<1>4. C \subseteq 1..confmap_size /\ C \subseteq Body(m, r.addr) /\ \A b \in L : b \notin C
  BY <1>1, <1>3, BytesInside, BodyInside
<1> HIDE DEF C
<1>5. /\ k \in [1..confmap_size -> CellType]
      /\ \A c \in C : k[c] = Datum(v)
      /\ \A c \in 1..confmap_size \ C : k[c] = m[c]
  BY <1>1, <1>2, <1>4 DEF Stored
<1> HIDE DEF k
<1>6. Memory(k)
  <2>1. \A c \in 1..confmap_size :
            \/ k[c].next = m[c].next /\ k[c].prev = m[c].prev
            \/ (k[c].next = 0 \/ k[c].next > c) /\ k[c].prev < c
    <3> HIDE DEF Datum
    <3> QED BY <1>2, <1>5
  <2> QED BY <1>1, <1>5, <2>1, MemoryKept
<1>7. \A b \in L : k[b] = m[b]
  BY <1>1, <1>4, <1>5
<1>8. IsList(k, L) /\ NoOverlap(k, L)
  BY <1>1, <1>7 DEF IsList, NoOverlap
<1>9. \A p \in lv \ {r} : p.addr \in L /\ p.addr # r.addr
  BY DEF Fine, Owns
<1>10. \A p \in lv \ {r} : p.addr \notin C /\ Cells(p.addr, p.n) \cap C = {}
  <2> SUFFICES ASSUME NEW p \in lv \ {r}
               PROVE  p.addr \notin C /\ Cells(p.addr, p.n) \cap C = {}
    OBVIOUS
  <2>1. p.addr \notin Body(m, r.addr) /\ Cells(p.addr, p.n) \cap Body(m, r.addr) = {}
    BY <1>3, <1>9, OthersUntouched
  <2> QED BY <1>4, <2>1
<1>11. Fine(k, L, lv \ {r})
  <2>1. Missed(lv \ {r}, L, C) /\ SameBut(m, k, C)
    BY <1>5, <1>9, <1>10 DEF Missed, SameBut
  <2> QED BY <1>1, <1>6, <1>8, <2>1, FineBut
<1>12. /\ q.n \in Nat \ {0} /\ q.addr \in L
       /\ k[q.addr].type = "used" /\ k[q.addr].size >= q.n
  BY <1>3, <1>7 DEF Fine, Owns
<1>13. \A c \in Cells(q.addr, q.n) : k[c] = Datum(q.val)
  BY <1>5 DEF C
<1>14. Fine(k, L, (lv \ {r}) \cup {q})
  BY <1>9, <1>11, <1>12, <1>13, FineWith
<1> QED BY <1>14 DEF k, C

\* The prev of a block is right for a free when it names nothing, the block
\* before it, or a cell that is neither a header of the list nor somebody's byte.
PrevRight(m, L, lv, b) ==
  LET p == m[b].prev
  IN  \/ p = 0
      \/ p \in L /\ m[p].next = b
      \/ p \notin L /\ \A r \in lv : p \notin Cells(r.addr, r.n)

LEMMA PrevFine ==
  ASSUME NEW m, NEW L, NEW lv, Fine(m, L, lv), NEW b \in L, PrevRight(m, L, lv, b),
         NEW p, p = m[b].prev, CanMerge(m, p, b), NEW k \in {Link(m, p, b), Merge(m, p, b)}
  PROVE  \E K : Leaves(m, L, lv, k, K, k = Merge(m, p, b))
<1>1. CASE p \in L /\ m[p].next = b
  <2>1. Leaves(m, L, lv, k, L \ {b}, k = Merge(m, p, b))
    BY <1>1, NextFine
  <2> QED BY <2>1
<1>2. CASE p \notin L /\ \A r \in lv : p \notin Cells(r.addr, r.n)
  <2>1. Memory(m) /\ IsList(m, L) /\ NoOverlap(m, L) /\ b \in 1..confmap_size /\ p # 0
        /\ m \in [1..confmap_size -> CellType]
    BY DEF Fine, IsList, CanMerge, Memory
  <2>2. p \in 1..confmap_size
    <3>1. m[b].prev \in 0..confmap_size /\ confmap_size \in Nat
      BY <2>1, CellOf DEF Memory
    <3> QED BY <2>1, <3>1
  <2>3. Sound(m) /\ b \in Nodes(m)
    BY <2>1, SoundOfList, ListUnique
  <2>4. Memory(k)
    <3>1. Sound(Link(m, p, b)) /\ Sound(Merge(m, p, b))
      BY <2>1, <2>3, PrevMerged
    <3> QED BY <3>1 DEF Sound
  <2>5. JoinedSome(m, k, p, b)
    BY <2>1, <2>2, JoinedBy
  <2>6. /\ \A c \in 1..confmap_size \ {p} : k[c] = m[c]
        /\ SamePrevs(m, k, 1..confmap_size)
    <3>1. Memory(m)
      BY <2>1
    <3> QED BY <2>2, <2>5, <3>1, JoinedPrevs
  <2>7. Fine(k, L, lv)
    BY <1>2, <2>4, <2>6, StaleChanged
  <2>8. KeepsTiles(m, L, k, L)
    <3>1. \A c \in L : k[c] = m[c]
      BY <1>2, <2>1, <2>6 DEF IsList
    <3> QED BY <3>1 DEF Tiles, KeepsTiles
  <2>9. L \in SUBSET L
    OBVIOUS
  <2>10. Leaves(m, L, lv, k, L, k = Merge(m, p, b))
    BY <2>6, <2>7, <2>8, <2>9 DEF Leaves
  <2> QED BY <2>10
<1>3. p # 0
  BY DEF CanMerge
<1> QED BY <1>1, <1>2, <1>3 DEF PrevRight

\* PrevRight looks at the links of the block and of the cell its prev names.
LEMMA PrevRightKept ==
  ASSUME NEW m, Memory(m), NEW L, NEW lv, NEW b \in 1..confmap_size, PrevRight(m, L, lv, b),
         NEW k, k[b].prev = m[b].prev, NEW g, b < g, g \in Nat,
         \A c \in 1..confmap_size \ {b} : k[c].next = m[c].next
  PROVE  PrevRight(k, L, lv, b) /\ PrevRight(k, L \ {g}, lv, b)
<1> DEFINE p == m[b].prev
<1>1. p \in 0..confmap_size /\ p < b /\ confmap_size \in Nat
  BY CellOf DEF Memory
<1>2. k[b].prev = p
  OBVIOUS
<1>3. \/ p = 0
      \/ p \in L /\ m[p].next = b
      \/ p \notin L /\ \A r \in lv : p \notin Cells(r.addr, r.n)
  BY DEF PrevRight
<1> HIDE DEF p
<1>4. p # 0 => k[p].next = m[p].next
  BY <1>1
<1>5. p # g
  BY <1>1
<1> QED BY <1>2, <1>3, <1>4, <1>5 DEF PrevRight

\* A free, whole or cut short by a death, of a block whose prev is right.
FreeLeaves(m, b) ==
  LET marked == SetType(m, b, "free")
      joined == MergeNext(marked, b)
      g == marked[b].next
      p == joined[b].prev
  IN  {marked, joined, MergePrev(joined, b)}
        \cup (IF CanMerge(marked, b, g) THEN {Link(marked, b, g)} ELSE {})
        \cup (IF CanMerge(joined, p, b) THEN {Link(joined, p, b)} ELSE {})

Freed(m, b) == MergePrev(MergeNext(SetType(m, b, "free"), b), b)

LEMMA FreeFine ==
  ASSUME NEW m, NEW L, NEW lv, Fine(m, L, lv), NEW r \in lv,
         PrevRight(m, L, lv \ {r}, r.addr), NEW k \in FreeLeaves(m, r.addr)
  PROVE  \E K : Leaves(m, L, lv \ {r}, k, K, k = Freed(m, r.addr))
<1> DEFINE b == r.addr
           lw == lv \ {r}
           marked == SetType(m, b, "free")
           joined == MergeNext(marked, b)
           freed == Freed(m, b)
<1>1. /\ Fine(marked, L, lw) /\ b \in L
      /\ marked[b] = Cell("free", m[b].next, m[b].prev, m[b].size)
      /\ \A c \in 1..confmap_size \ {b} : marked[c] = m[c]
  BY MarkFine
<1>2. Memory(m) /\ confmap_size \in Nat /\ PrevRight(m, L, lw, b)
  BY DEF Fine, Memory
<1>3. k \in FreeLeaves(m, b) /\ freed = MergePrev(joined, b)
  BY DEF Freed
<1> HIDE DEF marked, lw, b, freed
<1>4. b \in 1..confmap_size /\ L \subseteq 1..confmap_size
  BY <1>1 DEF Fine, IsList
<1>5. marked[b].prev = m[b].prev /\ marked[b].next = m[b].next /\ marked[b].size = m[b].size
  BY <1>1 DEF Cell
<1>6. PrevRight(marked, L, lw, b)
  <2>1. b < b + 1 /\ b + 1 \in Nat
    BY <1>4
  <2>2. \A c \in 1..confmap_size \ {b} : marked[c].next = m[c].next
    BY <1>1
  <2> QED BY <1>2, <1>4, <1>5, <2>1, <2>2, PrevRightKept
<1>7. SamePrevs(m, marked, 1..confmap_size) /\ KeepsTiles(m, L, marked, L)
  <2>1. \A c \in 1..confmap_size : /\ marked[c].prev = m[c].prev /\ marked[c].next = m[c].next
                                   /\ marked[c].size = m[c].size
    BY <1>1, <1>5
  <2> QED BY <1>4, <2>1 DEF SamePrevs, Tiles, KeepsTiles
<1> DEFINE g == marked[b].next
<1>8. Leaves(m, L, lw, marked, L, TRUE)
  BY <1>1, <1>7 DEF Leaves
<1>9. ASSUME CanMerge(marked, b, g), NEW j \in {Link(marked, b, g), Merge(marked, b, g)}
      PROVE  /\ Leaves(m, L, lw, j, L \ {g}, j = Merge(marked, b, g))
             /\ b \in L \ {g} /\ PrevRight(j, L \ {g}, lw, b)
  <2> HIDE DEF g
  <2>0. g = marked[b].next
    BY DEF g
  <2>1. /\ Leaves(marked, L, lw, j, L \ {g}, j = Merge(marked, b, g)) /\ g \in L /\ b < g
        /\ \A c \in 1..confmap_size \ {b} : j[c] = marked[c]
    BY <1>1, <1>9, <2>0, NextFine
  <2>2. g \in Nat /\ Memory(marked)
    BY <1>1, <1>2, <2>1 DEF Fine, IsList, Memory
  <2>3. j[b].prev = marked[b].prev /\ SamePrevs(m, j, 1..confmap_size)
    BY <1>4, <1>7, <2>1 DEF SamePrevs, Leaves
  <2>4. \A c \in 1..confmap_size \ {b} : j[c].next = marked[c].next
    BY <2>1
  <2>5. PrevRight(j, L \ {g}, lw, b)
    BY <1>4, <1>6, <2>1, <2>2, <2>3, <2>4, PrevRightKept
  <2>6. b \in L \ {g}
    BY <1>1, <1>4, <2>1, <2>2
  <2>7. j = Merge(marked, b, g) => KeepsTiles(m, L, j, L \ {g})
    BY <1>7, <2>1 DEF KeepsTiles, Leaves
  <2>8. Leaves(m, L, lw, j, L \ {g}, j = Merge(marked, b, g))
    BY <2>1, <2>3, <2>7 DEF Leaves
  <2> QED BY <2>5, <2>6, <2>8
<1>10. \E K : Leaves(m, L, lw, joined, K, TRUE) /\ b \in K /\ PrevRight(joined, K, lw, b)
  <2>1. CASE CanMerge(marked, b, g)
    <3>1. joined = Merge(marked, b, g)
      BY <2>1 DEF MergeNext
    <3> HIDE DEF joined, g
    <3> QED BY <1>9, <2>1, <3>1
  <2>2. CASE ~CanMerge(marked, b, g)
    <3>1. joined = marked
      BY <2>2 DEF MergeNext
    <3> HIDE DEF joined, g
    <3> QED BY <1>1, <1>6, <1>8, <3>1
  <2> QED BY <2>1, <2>2
<1> DEFINE p == joined[b].prev
<1>11. \/ k = marked \/ k = joined \/ k = freed
       \/ CanMerge(marked, b, g) /\ k = Link(marked, b, g)
       \/ CanMerge(joined, p, b) /\ k = Link(joined, p, b)
  BY <1>3 DEF FreeLeaves, marked
<1>12. \/ freed = joined /\ ~CanMerge(joined, p, b)
       \/ freed = Merge(joined, p, b) /\ CanMerge(joined, p, b)
  BY <1>3 DEF MergePrev
<1> HIDE DEF joined
<1>13. ASSUME CanMerge(joined, p, b), NEW j \in {Link(joined, p, b), Merge(joined, p, b)}
       PROVE  \E K : Leaves(m, L, lw, j, K, j = Merge(joined, p, b))
  <2> HIDE DEF p
  <2>1. p = joined[b].prev
    BY DEF p
  <2>2. PICK K : Leaves(m, L, lw, joined, K, TRUE) /\ b \in K /\ PrevRight(joined, K, lw, b)
    BY <1>10
  <2>3. Fine(joined, K, lw)
    BY <2>2 DEF Leaves
  <2>4. PICK J : Leaves(joined, K, lw, j, J, j = Merge(joined, p, b))
    BY <1>13, <2>1, <2>2, <2>3, PrevFine
  <2>5. SamePrevs(m, j, 1..confmap_size)
    BY <2>2, <2>4 DEF SamePrevs, Leaves
  <2>6. Leaves(m, L, lw, j, J, j = Merge(joined, p, b))
    BY <2>2, <2>4, <2>5 DEF KeepsTiles, Leaves
  <2> QED BY <2>6
<1> HIDE DEF g, p
<1>14. \E K : Leaves(m, L, lw, freed, K, TRUE)
  <2>1. CASE freed = joined
    BY <1>10, <2>1
  <2>2. CASE CanMerge(joined, p, b) /\ freed = Merge(joined, p, b)
    BY <1>13, <2>2
  <2> QED BY <1>12, <2>1, <2>2
<1>15. \E K : Leaves(m, L, lw, k, K, k = freed)
  <2>0. ASSUME NEW K, NEW whole, Leaves(m, L, lw, k, K, whole), whole \/ k # freed
        PROVE  \E J : Leaves(m, L, lw, k, J, k = freed)
    BY <2>0 DEF Leaves
  <2>1. CASE k = marked
    BY <1>8, <2>0, <2>1
  <2>2. CASE k = joined
    BY <1>10, <2>0, <2>2
  <2>3. CASE k = freed
    BY <1>14, <2>0, <2>3
  <2>4. CASE CanMerge(marked, b, g) /\ k = Link(marked, b, g) /\ k # freed
    BY <1>9, <2>0, <2>4
  <2>5. CASE CanMerge(joined, p, b) /\ k = Link(joined, p, b) /\ k # freed
    BY <1>13, <2>0, <2>5
  <2> QED BY <1>11, <2>1, <2>2, <2>3, <2>4, <2>5
<1> QED BY <1>15 DEF lw, b, freed

(***************************************************************************)
(* Requests of one size w: the blocks lie on a grid, and the prev of each  *)
(* names the grid point before it.                                         *)
(***************************************************************************)
Pitch(w) == HEADER + w
Grid(w) == {1 + k * Pitch(w) : k \in Nat}

LEMMA GridNext ==
  ASSUME NEW w \in Nat \ {0}, NEW b \in Grid(w)
  PROVE  b + Pitch(w) \in Grid(w) /\ b \in Nat /\ b >= 1 /\ Pitch(w) \in Nat
<1>1. PICK k \in Nat : b = 1 + k * Pitch(w)
  BY DEF Grid
<1>2. Pitch(w) \in Nat
  BY DEF Pitch, HEADER
<1> DEFINE P == Pitch(w)
<1> HIDE DEF P
<1>3. k + 1 \in Nat /\ P \in Nat /\ b = 1 + k * P
  BY <1>1, <1>2 DEF P
<1>4. b + P = 1 + (k + 1) * P /\ k * P \in Nat
  BY <1>3
<1>5. b + P \in Grid(w)
  BY <1>3, <1>4 DEF Grid, P
<1> QED BY <1>2, <1>3, <1>4, <1>5 DEF P

LEMMA GridPrev ==
  ASSUME NEW w \in Nat \ {0}, NEW b \in Grid(w), b # First
  PROVE  b - Pitch(w) \in Grid(w)
<1>1. PICK k \in Nat : b = 1 + k * Pitch(w)
  BY DEF Grid
<1>2. Pitch(w) \in Nat
  BY DEF Pitch, HEADER
<1> DEFINE P == Pitch(w)
<1> HIDE DEF P
<1>3. P \in Nat /\ b = 1 + k * P
  BY <1>1, <1>2 DEF P
<1>4. k # 0
  BY <1>3 DEF First
<1>5. k - 1 \in Nat /\ b - P = 1 + (k - 1) * P
  BY <1>3, <1>4
<1> QED BY <1>5 DEF Grid, P

LEMMA GridApart ==
  ASSUME NEW w \in Nat \ {0}, NEW b \in Grid(w), NEW c \in Grid(w), b < c
  PROVE  b + Pitch(w) <= c
<1>1. PICK k \in Nat : b = 1 + k * Pitch(w)
  BY DEF Grid
<1>2. PICK j \in Nat : c = 1 + j * Pitch(w)
  BY DEF Grid
<1>3. Pitch(w) \in Nat
  BY DEF Pitch, HEADER
<1> DEFINE P == Pitch(w)
<1> HIDE DEF P
<1>4. P \in Nat /\ b = 1 + k * P /\ c = 1 + j * P
  BY <1>1, <1>2, <1>3 DEF P
<1>5. CASE j <= k
  <2>1. k - j \in Nat
    BY <1>5
  <2>2. (k - j) * P \in Nat
    BY <1>4, <2>1
  <2>3. b = c + (k - j) * P
    BY <1>4, <2>1
  <2> QED BY <1>4, <2>2, <2>3
<1>6. CASE j > k
  <2>1. j - k - 1 \in Nat
    BY <1>6
  <2>2. (j - k - 1) * P \in Nat
    BY <1>4, <2>1
  <2>3. c = b + P + (j - k - 1) * P
    BY <1>4, <2>1
  <2>4. b \in Nat /\ c \in Nat
    BY GridNext
  <2> QED BY <1>4, <2>2, <2>3, <2>4 DEF P
<1> QED BY <1>5, <1>6

OnGrid(m, L, w) == \A b \in L : b \in Grid(w) /\ (b = First \/ m[b].prev = b - Pitch(w))

\* On the grid every prev is right: a grid point that is no header of the list is
\* nobody's byte.
LEMMA GridIsRight ==
  ASSUME NEW m, NEW L, NEW lv, Fine(m, L, lv), NEW w \in Nat \ {0}, OnGrid(m, L, w),
         \A r \in lv : r.n = w, NEW b \in L, NEW lw \in SUBSET lv
  PROVE  PrevRight(m, L, lw, b)
<1>1. Memory(m) /\ IsList(m, L) /\ b \in 1..confmap_size /\ confmap_size \in Nat
      /\ L \subseteq 1..confmap_size
  BY DEF Fine, IsList, Memory
<1>2. CASE b = First
  <2>1. m[b].prev \in 0..confmap_size /\ m[b].prev < b
    BY <1>1, CellOf
  <2>2. m[b].prev = 0
    BY <1>1, <1>2, <2>1 DEF First
  <2> QED BY <2>2 DEF PrevRight
<1>3. CASE b # First
  <2> DEFINE p == m[b].prev
  <2>1. p = b - Pitch(w) /\ b \in Grid(w)
    BY <1>3 DEF OnGrid
  <2> HIDE DEF p
  <2>2. p \in Grid(w) /\ p \in Nat /\ p >= 1 /\ Pitch(w) \in Nat /\ Pitch(w) > 0
    <3>1. p \in Grid(w)
      BY <1>3, <2>1, GridPrev
    <3>2. Pitch(w) > 0
      BY DEF Pitch, HEADER
    <3> QED BY <3>1, <3>2, GridNext
  <2>3. p < b
    BY <1>1, <2>1, <2>2
  <2>4. CASE p \in L
    <3>1. m[p].next # 0 /\ m[p].next <= b /\ m[p].next \in L
      BY <1>1, <2>3, <2>4, NextIsNearest DEF IsList
    <3>2. m[p].next > p /\ m[p].next \in Nat
      <4>1. p \in 1..confmap_size
        BY <1>1, <2>4
      <4>2. m[p].next \in 0..confmap_size /\ (m[p].next = 0 \/ m[p].next > p)
        BY <1>1, <4>1, CellOf
      <4> QED BY <1>1, <3>1, <4>2
    <3>3. p + Pitch(w) <= m[p].next
      BY <2>2, <3>1, <3>2, GridApart DEF OnGrid
    <3>4. m[p].next = b
      BY <1>1, <2>1, <2>2, <3>1, <3>2, <3>3
    <3> QED BY <2>4, <3>4 DEF PrevRight, p
  <2>5. CASE p \notin L
    <3>1. ASSUME NEW r \in lw, p \in Cells(r.addr, r.n) PROVE FALSE
      <4>1. r.addr \in L /\ r.n = w
        BY DEF Fine, Owns
      <4>2. r.addr \in Grid(w) /\ r.addr \in Nat
        BY <4>1, GridNext DEF OnGrid
      <4>3. r.addr < p /\ p < r.addr + Pitch(w)
        BY <2>2, <3>1, <4>1, <4>2 DEF Cells, Pitch, HEADER
      <4>4. r.addr + Pitch(w) <= p
        BY <2>2, <4>2, <4>3, GridApart
      <4> QED BY <2>2, <4>2, <4>3, <4>4
    <3> QED BY <2>5, <3>1 DEF PrevRight, p
  <2> QED BY <2>4, <2>5
<1> QED BY <1>2, <1>3

LEMMA GridKept ==
  ASSUME NEW m, NEW L, NEW w, OnGrid(m, L, w), NEW k, NEW K \in SUBSET L, SamePrevs(m, k, K)
  PROVE  OnGrid(k, K, w)
BY DEF OnGrid, SamePrevs

\* The operations keep the blocks on the grid, and until somebody dies they keep
\* the list covering all memory.
LEMMA SplitGrid ==
  ASSUME NEW m, NEW L, NEW lv, Fine(m, L, lv), NEW w \in Nat \ {0}, OnGrid(m, L, w),
         NEW b \in L, m[b].size > w + HEADER
  PROVE  LET K == L \cup {b + HEADER + w}
             k == Split(m, b, w)
         IN  OnGrid(k, K, w) /\ OnGrid(Unlinked(m, b, w), L, w)
<1> DEFINE rest == b + HEADER + w
           k == Split(m, b, w)
           j == Unlinked(m, b, w)
<1>1. Memory(m) /\ IsList(m, L) /\ NoOverlap(m, L) /\ b \in 1..confmap_size
      /\ L \subseteq 1..confmap_size
  BY DEF Fine, IsList
<1>2. /\ rest \in 1..confmap_size /\ b < rest
      /\ k[rest] = Cell("free", m[b].next, b, m[b].size - w - HEADER)
      /\ k[b] = Cell(m[b].type, rest, m[b].prev, w)
      /\ \A c \in 1..confmap_size \ {b, rest} : k[c] = m[c]
  BY <1>1, SplitCells
<1>3. rest \notin L
  BY <1>1, SplitList
<1>4. /\ j[b] = Cell(m[b].type, m[b].next, m[b].prev, w)
      /\ \A c \in 1..confmap_size \ {b, rest} : j[c] = m[c]
  BY <1>1, SplitUnlinked
<1> HIDE DEF k, j
<1>5. SamePrevs(m, j, L) /\ SamePrevs(m, k, L)
  <2>1. j[b].prev = m[b].prev /\ k[b].prev = m[b].prev
    BY <1>2, <1>4 DEF Cell
  <2> QED BY <1>1, <1>2, <1>3, <1>4, <2>1 DEF SamePrevs
<1>6. OnGrid(j, L, w) /\ OnGrid(k, L, w)
  BY <1>5, GridKept
<1>7. OnGrid(k, L \cup {rest}, w)
  <2>1. b \in Grid(w) /\ rest = b + Pitch(w)
    BY <1>1 DEF OnGrid, Pitch, HEADER
  <2>2. rest \in Grid(w)
    BY <2>1, GridNext
  <2>3. k[rest].prev = rest - Pitch(w)
    <3>1. k[rest].prev = b /\ b \in Nat /\ Pitch(w) \in Nat
      BY <1>1, <1>2 DEF Cell, Pitch, HEADER
    <3> QED BY <2>1, <3>1
  <2> HIDE DEF rest
  <2> QED BY <1>6, <2>2, <2>3 DEF OnGrid
<1> QED BY <1>6, <1>7 DEF k, j

LEMMA SplitTiles ==
  ASSUME NEW m, NEW L, NEW lv, Fine(m, L, lv), NEW n \in Nat \ {0},
         NEW b \in L, m[b].size > n + HEADER
  PROVE  KeepsTiles(m, L, Split(m, b, n), L \cup {b + HEADER + n})
<1> DEFINE rest == b + HEADER + n
           k == Split(m, b, n)
<1>1. Memory(m) /\ IsList(m, L) /\ NoOverlap(m, L) /\ b \in 1..confmap_size
      /\ L \subseteq 1..confmap_size
  BY DEF Fine, IsList
<1>2. /\ rest \in 1..confmap_size /\ b < rest
      /\ k[rest] = Cell("free", m[b].next, b, m[b].size - n - HEADER)
      /\ k[b] = Cell(m[b].type, rest, m[b].prev, n)
      /\ \A c \in 1..confmap_size \ {b, rest} : k[c] = m[c]
  BY <1>1, SplitCells
<1> HIDE DEF k
<1>3. ASSUME Tiles(m, L) PROVE Tiles(k, L \cup {rest})
  <2>1. /\ k[rest].next = m[b].next /\ k[rest].size = m[b].size - n - HEADER
        /\ k[b].next = rest /\ k[b].size = n
    BY <1>2 DEF Cell
  <2>2. m[b].size \in Nat /\ m[b].next \in Nat /\ confmap_size \in Nat /\ b \in Nat
    BY <1>1, CellOf DEF Memory
  <2>3. IF m[b].next = 0 THEN b + m[b].size = confmap_size
                         ELSE b + HEADER + m[b].size = m[b].next
    BY <1>3 DEF Tiles
  <2> SUFFICES ASSUME NEW c \in L \cup {rest}
               PROVE  IF k[c].next = 0 THEN c + k[c].size = confmap_size
                                       ELSE c + HEADER + k[c].size = k[c].next
    BY DEF Tiles
  <2>4. CASE c = rest
    <3>1. rest + k[rest].size = b + m[b].size
      BY <2>1, <2>2 DEF HEADER
    <3>2. rest + HEADER + k[rest].size = b + HEADER + m[b].size
      BY <2>1, <2>2 DEF HEADER
    <3> HIDE DEF rest
    <3> QED BY <2>1, <2>3, <2>4, <3>1, <3>2
  <2>5. CASE c = b
    <3>1. b + HEADER + k[b].size = rest /\ k[b].next = rest /\ rest # 0
      BY <1>2, <2>1, <2>2
    <3> HIDE DEF rest
    <3> QED BY <2>5, <3>1
  <2>6. CASE c \notin {b, rest}
    <3>1. k[c] = m[c] /\ c \in L
      BY <1>1, <1>2, <2>6
    <3> QED BY <1>3, <3>1 DEF Tiles
  <2> QED BY <2>4, <2>5, <2>6
<1> QED BY <1>3 DEF k, KeepsTiles

LEMMA TypeKept ==
  ASSUME NEW m, NEW L, NEW lv, Fine(m, L, lv), NEW b \in L,
         NEW c \in L, NEW k, k = SetType(m, b, "used")
  PROVE  k[c].next = m[c].next /\ k[c].prev = m[c].prev /\ k[c].size = m[c].size
<1>1. Memory(m) /\ IsList(m, L) /\ NoOverlap(m, L) /\ b \in 1..confmap_size
      /\ L \subseteq 1..confmap_size
  BY DEF Fine, IsList
<1>2. /\ k[b] = Cell("used", m[b].next, m[b].prev, m[b].size)
      /\ \A d \in 1..confmap_size \ {b} : k[d] = m[d]
  BY <1>1, TypeChanged
<1>3. k[b].next = m[b].next /\ k[b].prev = m[b].prev /\ k[b].size = m[b].size
  BY <1>2 DEF Cell
<1> QED BY <1>1, <1>2, <1>3

LEMMA TypeGrid ==
  ASSUME NEW m, NEW L, NEW lv, Fine(m, L, lv), NEW b \in L, NEW w, OnGrid(m, L, w)
  PROVE  OnGrid(SetType(m, b, "used"), L, w)
BY TypeKept DEF OnGrid

LEMMA TypeTiles ==
  ASSUME NEW m, NEW L, NEW lv, Fine(m, L, lv), NEW b \in L
  PROVE  KeepsTiles(m, L, SetType(m, b, "used"), L)
BY TypeKept DEF KeepsTiles, Tiles

(***************************************************************************)
(* One step from a fine memory in which no free would follow a wrong prev. *)
(***************************************************************************)
AllPrevsRight(m, L, lv) == \A r \in lv : PrevRight(m, L, lv \ {r}, r.addr)
StepLeaves(L, K) ==
  /\ Fine(mem', K, live')
  /\ \A w : reqs = {w} /\ OnGrid(mem, L, w) => OnGrid(mem', K, w)
  /\ ~died' => KeepsTiles(mem, L, mem', K)

LEMMA AllocLeaves ==
  ASSUME CmmTyped, NEW n \in reqs, Alloc(n) \/ AllocDies(n)
  PROVE  \E b \in Nodes(mem) :
            /\ n \in Nat \ {0} /\ mem[b].type = "free" /\ mem[b].size >= n
            /\ \/ /\ Alloc(n) /\ ~Splits(b, n) /\ mem' = SetType(mem, b, "used")
               \/ /\ Alloc(n) /\ Splits(b, n) /\ mem' = SetType(Split(mem, b, n), b, "used")
               \/ /\ AllocDies(n) /\ Splits(b, n) /\ mem' \in {Split(mem, b, n), Unlinked(mem, b, n)}
            /\ Alloc(n) => /\ live' = live \cup {[addr |-> b, n |-> n, val |-> "dirty"]}
                           /\ died' = died
<1> DEFINE b == BestFit(n)
<1>1. Memory(mem) /\ Fits(n) # {} /\ n \in Nat \ {0}
  BY DEF CmmTyped, Sound, Alloc, AllocDies, Params
<1>2. b \in Nodes(mem) /\ mem[b].type = "free" /\ mem[b].size >= n
  BY <1>1, BestFitOf
<1>3. Alloc(n) =>
        /\ mem' = SetType(IF Splits(b, n) THEN Split(mem, b, n) ELSE mem, b, "used")
        /\ live' = live \cup {[addr |-> b, n |-> n, val |-> "dirty"]} /\ died' = died
  BY DEF Alloc, SetType
<1>4. AllocDies(n) => Splits(b, n) /\ mem' \in {Split(mem, b, n), Unlinked(mem, b, n)}
  BY DEF AllocDies, Unlinked
<1> HIDE DEF b
<1> QED BY <1>1, <1>2, <1>3, <1>4

LEMMA AllocFine ==
  ASSUME CmmTyped, NEW L, L = Nodes(mem), Fine(mem, L, live),
         NEW n \in reqs, Alloc(n) \/ AllocDies(n)
  PROVE  \E K : StepLeaves(L, K)
<1>1. PICK b \in L :
            /\ n \in Nat \ {0} /\ mem[b].type = "free" /\ mem[b].size >= n
            /\ \/ /\ Alloc(n) /\ ~Splits(b, n) /\ mem' = SetType(mem, b, "used")
               \/ /\ Alloc(n) /\ Splits(b, n) /\ mem' = SetType(Split(mem, b, n), b, "used")
               \/ /\ AllocDies(n) /\ Splits(b, n) /\ mem' \in {Split(mem, b, n), Unlinked(mem, b, n)}
            /\ Alloc(n) => /\ live' = live \cup {[addr |-> b, n |-> n, val |-> "dirty"]}
                           /\ died' = died
  BY AllocLeaves
<1> DEFINE m == Split(mem, b, n)
           K == L \cup {b + HEADER + n}
           lv == live \cup {[addr |-> b, n |-> n, val |-> "dirty"]}
<1>2. CASE Alloc(n) /\ mem' = SetType(mem, b, "used")
  <2>1. Fine(SetType(mem, b, "used"), L, lv)
    BY <1>1, TakeFine
  <2>2. \A w : OnGrid(mem, L, w) => OnGrid(SetType(mem, b, "used"), L, w)
    BY TypeGrid
  <2>3. KeepsTiles(mem, L, SetType(mem, b, "used"), L)
    BY <1>1, TypeTiles
  <2> HIDE DEF lv
  <2>4. live' = lv
    BY <1>1, <1>2 DEF lv
  <2>5. StepLeaves(L, L)
    BY <1>2, <2>1, <2>2, <2>3, <2>4 DEF StepLeaves
  <2> QED BY <2>5
<1>3. ASSUME Splits(b, n)
      PROVE  /\ Fine(m, K, live) /\ Fine(Unlinked(mem, b, n), L, live)
             /\ m[b].type = "free" /\ m[b].size = n
  BY <1>1, <1>3, SplitFine DEF Splits
<1>4. b \in K
  OBVIOUS
<1>5. ASSUME Splits(b, n)
      PROVE  /\ \A w : reqs = {w} /\ OnGrid(mem, L, w) =>
                         OnGrid(m, K, w) /\ OnGrid(Unlinked(mem, b, n), L, w)
             /\ KeepsTiles(mem, L, m, K)
  <2>1. mem[b].size > n + HEADER
    BY <1>5 DEF Splits
  <2>2. ASSUME OnGrid(mem, L, n)
        PROVE  OnGrid(m, K, n) /\ OnGrid(Unlinked(mem, b, n), L, n)
    BY <1>1, <2>1, <2>2, SplitGrid
  <2>3. KeepsTiles(mem, L, m, K)
    BY <1>1, <2>1, SplitTiles
  <2> QED BY <2>2, <2>3
<1> HIDE DEF m, K
<1>6. CASE Alloc(n) /\ Splits(b, n) /\ mem' = SetType(m, b, "used")
  <2> DEFINE k == SetType(m, b, "used")
  <2>1. Fine(k, K, lv)
    BY <1>1, <1>3, <1>4, <1>6, TakeFine
  <2>2. Fine(m, K, live)
    BY <1>3, <1>6
  <2>3. \A w : OnGrid(m, K, w) => OnGrid(k, K, w)
    BY <1>4, <2>2, TypeGrid
  <2>4. KeepsTiles(m, K, k, K)
    BY <1>4, <2>2, TypeTiles
  <2> HIDE DEF k, lv
  <2>5. live' = lv /\ mem' = k
    BY <1>1, <1>6 DEF lv, k
  <2>6. StepLeaves(L, K)
    BY <1>5, <1>6, <2>1, <2>3, <2>4, <2>5 DEF StepLeaves, KeepsTiles
  <2> QED BY <2>6
<1>7. CASE AllocDies(n) /\ Splits(b, n) /\ mem' \in {m, Unlinked(mem, b, n)}
  <2>1. live' = live /\ died' = TRUE
    BY <1>7 DEF AllocDies
  <2>2. CASE mem' = m
    <3>1. StepLeaves(L, K)
      BY <1>3, <1>5, <1>7, <2>1, <2>2 DEF StepLeaves
    <3> QED BY <3>1
  <2>3. CASE mem' = Unlinked(mem, b, n)
    <3>1. StepLeaves(L, L)
      BY <1>3, <1>5, <1>7, <2>1, <2>3 DEF StepLeaves
    <3> QED BY <3>1
  <2> QED BY <1>7, <2>2, <2>3
<1> QED BY <1>1, <1>2, <1>6, <1>7 DEF m

LEMMA WriteFine ==
  ASSUME CmmTyped, NEW L, Fine(mem, L, live),
         NEW r \in live, Clear(r) \/ \E v \in Words : Write(r, v)
  PROVE  StepLeaves(L, L)
<1>1. ASSUME NEW v \in {"zero"} \cup Words,
             mem' = [c \in 1..confmap_size |->
                       IF c \in Cells(r.addr, r.n) THEN Datum(v) ELSE mem[c]],
             live' = (live \ {r}) \cup {[r EXCEPT !.val = v]}
      PROVE  StepLeaves(L, L)
  <2> DEFINE q == [r EXCEPT !.val = v]
  <2>1. q.addr = r.addr /\ q.n = r.n /\ q.val = v
    BY DEF CmmTyped, CmmTypeOK
  <2>2. v \in {"free", "used", "zero"}
    BY DEF CmmTyped, Params
  <2>3. live' = (live \ {r}) \cup {q}
    BY <1>1
  <2> HIDE DEF q
  <2>4. Fine(Stored(mem, Cells(r.addr, r.n), v), L, (live \ {r}) \cup {q})
    BY <2>1, <2>2, StoreFine
  <2>5. mem' = Stored(mem, Cells(r.addr, r.n), v)
    BY <1>1 DEF Stored
  <2>6. \A c \in L : c \in 1..confmap_size /\ c \notin Cells(r.addr, r.n)
    BY BytesInside DEF Fine, IsList
  <2>7. \A c \in L : mem'[c] = mem[c]
    BY <1>1, <2>6
  <2>8. /\ \A w : OnGrid(mem, L, w) => OnGrid(mem', L, w)
        /\ KeepsTiles(mem, L, mem', L)
    BY <2>7 DEF OnGrid, KeepsTiles, Tiles
  <2> QED BY <2>3, <2>4, <2>5, <2>8 DEF StepLeaves
<1> QED BY <1>1 DEF Clear, Write

LEMMA FreeLeft ==
  ASSUME NEW r \in live, Free(r) \/ FreeDies(r)
  PROVE  /\ mem' \in FreeLeaves(mem, r.addr) /\ live' = live \ {r} /\ r.addr \in Nodes(mem)
         /\ ~died' => mem' = Freed(mem, r.addr)
<1> DEFINE b == r.addr
           marked == SetType(mem, b, "free")
           joined == MergeNext(marked, b)
           g == marked[b].next
           p == joined[b].prev
<1>1. \/ mem' = marked \/ mem' = joined \/ mem' = MergePrev(joined, b)
      \/ CanMerge(marked, b, g) /\ mem' = Link(marked, b, g)
      \/ CanMerge(joined, p, b) /\ mem' = Link(joined, p, b)
  BY DEF Free, FreeDies, SetType
<1>2. mem' \in FreeLeaves(mem, b)
  BY <1>1 DEF FreeLeaves
<1>3. ~died' => mem' = Freed(mem, b)
  BY DEF Free, FreeDies, Freed, SetType
<1> QED BY <1>2, <1>3, ListHolds DEF Free, FreeDies

LEMMA FineStep ==
  ASSUME CmmTyped, NEW L, L = Nodes(mem), Fine(mem, L, live), AllPrevsRight(mem, L, live), CmmNext
  PROVE  \E K : StepLeaves(L, K)
<1>1. ASSUME NEW n \in reqs, Alloc(n) \/ AllocDies(n) PROVE \E K : StepLeaves(L, K)
  BY <1>1, AllocFine
<1>2. ASSUME NEW r \in live, Clear(r) \/ \E v \in Words : Write(r, v)
      PROVE  \E K : StepLeaves(L, K)
  BY <1>2, WriteFine
<1>3. ASSUME NEW r \in live, Free(r) \/ FreeDies(r) PROVE \E K : StepLeaves(L, K)
  <2>1. /\ mem' \in FreeLeaves(mem, r.addr) /\ live' = live \ {r}
        /\ ~died' => mem' = Freed(mem, r.addr)
    BY <1>3, FreeLeft
  <2>2. PrevRight(mem, L, live \ {r}, r.addr)
    BY DEF AllPrevsRight
  <2>3. PICK K : Leaves(mem, L, live \ {r}, mem', K, mem' = Freed(mem, r.addr))
    BY <2>1, <2>2, FreeFine
  <2>4. /\ K \in SUBSET L /\ Fine(mem', K, live \ {r}) /\ SamePrevs(mem, mem', 1..confmap_size)
        /\ mem' = Freed(mem, r.addr) => KeepsTiles(mem, L, mem', K)
    BY <2>3 DEF Leaves
  <2>5. SamePrevs(mem, mem', K)
    BY <2>4 DEF SamePrevs, Fine, IsList
  <2>6. \A w : OnGrid(mem, L, w) => OnGrid(mem', K, w)
    BY <2>4, <2>5, GridKept
  <2>7. StepLeaves(L, K)
    BY <2>1, <2>4, <2>6 DEF StepLeaves
  <2> QED BY <2>7
<1> QED BY <1>1, <1>2, <1>3 DEF CmmNext

\* Right prevs all along the list are right prevs for every free.
LEMMA ExactIsRight ==
  ASSUME CmmTyped, PrevExact, NEW b \in Nodes(mem), NEW lv
  PROVE  PrevRight(mem, Nodes(mem), lv, b)
<1> DEFINE S == Blocks
           L == Nodes(mem)
<1>1. /\ S \in Seq(1..confmap_size) /\ Len(S) >= 1 /\ S[1] = First
      /\ \A i \in 1..Len(S) - 1 : S[i + 1] = mem[S[i]].next
  BY BlocksChain DEF CmmTyped, Sound, Blocks, Chain
<1>2. L = {S[i] : i \in 1..Len(S)}
  BY <1>1 DEF Nodes, Blocks
<1>3. \A i \in 2..Len(S) : mem[S[i]].prev = S[i - 1]
  BY DEF PrevExact
<1> HIDE DEF S, L
<1>4. PICK i \in 1..Len(S) : b = S[i]
  BY <1>2 DEF L
<1>5. CASE i = 1
  <2>1. b = First /\ b \in 1..confmap_size /\ confmap_size \in Nat
    BY <1>1, <1>4, <1>5, NodeCell DEF CmmTyped, Sound, Memory
  <2>2. mem[b].prev \in 0..confmap_size /\ mem[b].prev < b
    BY <2>1, CellOf DEF CmmTyped, Sound
  <2>3. mem[b].prev = 0
    BY <2>1, <2>2 DEF First
  <2> QED BY <2>3 DEF PrevRight
<1>6. CASE i # 1
  <2>1. i \in 2..Len(S) /\ i - 1 \in 1..Len(S) - 1 /\ i - 1 \in 1..Len(S) /\ (i - 1) + 1 = i
    BY <1>1, <1>4, <1>6
  <2>2. mem[b].prev = S[i - 1] /\ mem[S[i - 1]].next = b /\ S[i - 1] \in L
    BY <1>1, <1>2, <1>3, <1>4, <2>1
  <2> QED BY <2>2 DEF PrevRight, L
<1> QED BY <1>5, <1>6

\* Whatever sizes are asked for: from a list whose prev links are right no single
\* operation, and no death in the middle of one, takes a block that is in use out
\* of the list, gives its bytes to anybody else, or writes over them.
THEOREM ExactIsSafe == CmmSpec => SafeFromExact
<1> DEFINE SomeFine == \E L : Fine(mem, L, live)
<1>1. ASSUME CmmTyped, CmmNext, PrevExact, Safe PROVE SomeFine'
  <2> DEFINE L == Nodes(mem)
  <2>1. Fine(mem, L, live)
    BY <1>1, SafeIsFine
  <2>2. AllPrevsRight(mem, L, live)
    <3>1. \A r \in live : r.addr \in L
      BY <1>1, ListHolds DEF Safe, LiveDisjoint
    <3> QED BY <1>1, <3>1, ExactIsRight DEF AllPrevsRight
  <2>3. PICK K : Fine(mem', K, live')
    BY <1>1, <2>1, <2>2, FineStep DEF StepLeaves
  <2>4. confmap_size' = confmap_size
    BY <1>1, SizesKept
  <2>5. Fine(mem, K, live)'
    BY <2>3, <2>4, FineCarried
  <2> QED BY <2>5
<1>2. SomeFine => Safe
  BY FineIsSafe
<1> HIDE DEF SomeFine
<1>3. CmmTyped /\ [CmmNext]_cmmvars => [(PrevExact /\ Safe) => SomeFine']_cmmvars
  BY <1>1
<1> QED BY <1>2, <1>3, CmmInitTyped, CmmNextTyped, PTL DEF CmmSpec, SafeFromExact

(***************************************************************************)
(* Requests of one size.                                                   *)
(***************************************************************************)
UniformHolds(m, L, lv, w, d) ==
  Fine(m, L, lv) /\ OnGrid(m, L, w) /\ (~d => Tiles(m, L))
UniformInv == \A w : reqs = {w} => \E L : UniformHolds(mem, L, live, w, died)

LEMMA UniformCarried ==
  ASSUME confmap_size' = confmap_size,
         NEW L, NEW w, UniformHolds(mem', L, live', w, died')
  PROVE  UniformHolds(mem, L, live, w, died)'
<1>1. Fine(mem, L, live)'
  BY FineCarried DEF UniformHolds
<1>2. OnGrid(mem, L, w)' /\ (~died' => Tiles(mem, L)')
  BY DEF UniformHolds, OnGrid, Tiles
<1> QED BY <1>1, <1>2 DEF UniformHolds

LEMMA UniformInit == CmmInit => UniformInv
<1> SUFFICES ASSUME CmmInit, NEW w, reqs = {w}
             PROVE  UniformHolds(mem, {First}, live, w, died)
  BY DEF UniformInv
<1>1. Memory(mem) /\ confmap_size \in Nat /\ confmap_size > HEADER
  BY CmmInitTyped DEF CmmTyped, Sound, Params
<1>2. mem[First] = Cell("free", 0, 0, confmap_size - HEADER) /\ First \in 1..confmap_size
  <2>1. First \in 1..confmap_size
    BY <1>1 DEF First, HEADER
  <2> QED BY <2>1 DEF CmmInit
<1>3. mem[First].next = 0 /\ mem[First].size = confmap_size - HEADER
  BY <1>2 DEF Cell
<1>4. IsList(mem, {First}) /\ NoOverlap(mem, {First}) /\ Tiles(mem, {First})
  BY <1>1, <1>2, <1>3 DEF IsList, NoOverlap, Tiles, First, HEADER
<1>5. Owns(mem, {First}, live) /\ Intact(mem, live)
  BY DEF CmmInit, Owns, Intact
<1>6. First \in Grid(w)
  <2>1. w \in Nat
    BY CmmInitTyped DEF CmmTyped, Params
  <2>2. 1 = 1 + 0 * Pitch(w)
    BY <2>1 DEF Pitch, HEADER
  <2> QED BY <2>2 DEF Grid, First
<1> QED BY <1>1, <1>4, <1>5, <1>6 DEF UniformHolds, Fine, OnGrid

LEMMA UniformNext == CmmTyped /\ UniformInv /\ [CmmNext]_cmmvars => UniformInv'
<1> SUFFICES ASSUME CmmTyped, UniformInv, [CmmNext]_cmmvars, NEW w, reqs' = {w}
             PROVE  \E K : UniformHolds(mem, K, live, w, died)'
  BY DEF UniformInv
<1>1. confmap_size' = confmap_size /\ reqs' = reqs
  BY SizesKept
<1>2. PICK L : UniformHolds(mem, L, live, w, died)
  BY <1>1 DEF UniformInv
<1>3. Fine(mem, L, live) /\ OnGrid(mem, L, w) /\ (~died => Tiles(mem, L))
  BY <1>2 DEF UniformHolds
<1>4. CASE CmmNext
  <2>1. L = Nodes(mem)
    BY <1>3, ListUnique DEF Fine
  <2>2. w \in Nat \ {0} /\ \A r \in live : r.n = w
    BY <1>1 DEF CmmTyped, Params, CmmTypeOK
  <2>3. AllPrevsRight(mem, L, live)
    <3>1. ASSUME NEW r \in live PROVE PrevRight(mem, L, live \ {r}, r.addr)
      <4>1. r.addr \in L /\ live \ {r} \in SUBSET live
        BY <1>3 DEF Fine, Owns
      <4> QED BY <1>3, <2>2, <4>1, GridIsRight
    <3> QED BY <3>1 DEF AllPrevsRight
  <2>4. PICK K : StepLeaves(L, K)
    BY <1>3, <1>4, <2>1, <2>3, FineStep
  <2>5. ~died' => ~died
    BY <1>4 DEF CmmNext, Alloc, AllocDies, Clear, Write, Free, FreeDies
  <2>6. UniformHolds(mem', K, live', w, died')
    BY <1>1, <1>3, <2>4, <2>5 DEF StepLeaves, UniformHolds, KeepsTiles
  <2> QED BY <1>1, <2>6, UniformCarried
<1>5. CASE UNCHANGED cmmvars
  <2>1. UniformHolds(mem', L, live', w, died')
    BY <1>2, <1>5 DEF cmmvars
  <2> QED BY <1>1, <2>1, UniformCarried
<1> QED BY <1>4, <1>5

LEMMA TilesIsTiled ==
  ASSUME Memory(mem), NEW L, IsList(mem, L), Tiles(mem, L)
  PROVE  Tiled
<1> DEFINE S == Blocks
<1>1. /\ S \in Seq(1..confmap_size) /\ Len(S) >= 1
      /\ \A i \in 1..Len(S) - 1 : S[i + 1] = mem[S[i]].next /\ mem[S[i]].next # 0
      /\ mem[S[Len(S)]].next = 0
  BY BlocksChain DEF Blocks, Chain
<1>2. \A i \in 1..Len(S) : S[i] \in L
  BY <1>1, ListUnique DEF Nodes, Blocks
<1>3. \A i \in 1..Len(S) - 1 : S[i + 1] = S[i] + HEADER + mem[S[i]].size
  <2> HIDE DEF S
  <2>1. \A i \in 1..Len(S) - 1 : i \in 1..Len(S)
    BY <1>1
  <2> QED BY <1>1, <1>2, <2>1 DEF Tiles
<1>4. S[Len(S)] + HEADER + mem[S[Len(S)]].size - 1 = confmap_size
  <2> HIDE DEF S
  <2> DEFINE b == S[Len(S)]
  <2>1. b \in L /\ b \in 1..confmap_size /\ confmap_size \in Nat
    BY <1>1, <1>2 DEF IsList, Memory
  <2>2. mem[b].next = 0
    BY <1>1
  <2> HIDE DEF b
  <2>3. mem[b].size \in 0..confmap_size
    BY <2>1, CellOf
  <2>4. b + mem[b].size = confmap_size
    BY <2>1, <2>2 DEF Tiles
  <2> QED BY <2>1, <2>3, <2>4 DEF b, HEADER
<1> QED BY <1>3, <1>4 DEF Tiled

\* When all requests have one size, whatever that size and the segment's: no
\* sequence of operations, and no death inside one, harms a block in use, also
\* through the stale prev links that a free follows; and until somebody dies the
\* list keeps covering all memory.
THEOREM UniformIsSafe == CmmSpec => []UniformSafe
<1>1. UniformInv => UniformSafe
  <2> SUFFICES ASSUME UniformInv, NEW w, reqs = {w}
               PROVE  Safe /\ (~died => Tiled)
    BY DEF UniformSafe, Uniform
  <2>1. PICK L : UniformHolds(mem, L, live, w, died)
    BY DEF UniformInv
  <2>2. Fine(mem, L, live) /\ (~died => Tiles(mem, L))
    BY <2>1 DEF UniformHolds
  <2>3. Safe
    BY <2>2, FineIsSafe
  <2>4. ~died => Tiled
    BY <2>2, TilesIsTiled DEF Fine
  <2> QED BY <2>3, <2>4
<1> QED BY <1>1, CmmInitTyped, CmmNextTyped, UniformInit, UniformNext, PTL DEF CmmSpec
=============================================================================
