---------------------------- MODULE IsolateProofs ----------------------------
(***************************************************************************)
(* Theorems of Isolate, for any number of batches and requests.  None of   *)
(* the three properties is inductive.  That the replies of a call are its  *)
(* own needs a count of the packets under way at every place of the        *)
(* module; the count needs to know which ends of the socket are open when; *)
(* and that success is true needs that every reply that says so, wherever  *)
(* it is, stands for something that was done.                              *)
(***************************************************************************)
EXTENDS Isolate, TLAPS

(***************************************************************************)
(* How many packets may be under way, the one the proxy works on included, *)
(* at every place of the module.  The version the two agree on comes on    *)
(* top, until the proxy has read it.                                       *)
(***************************************************************************)
Pending == Len(toProxy) + Len(toModule) + (IF ppc \in {"work", "reply"} THEN 1 ELSE 0)
Limit(m) == IF m \in {"off", "conf", "map", "init", "mask", "up", "batch"} THEN 0
            ELSE IF m \in {"accept", "initWait", "updateWait", "closing", "close"} THEN 1 ELSE 2
PacketsCounted ==
  /\ Pending <= Limit(mpc) + (IF ppc = "negotiate" /\ mpc \in {"conf", "map", "init", "initWait"}
                              THEN 1 ELSE 0)
  /\ mpc = "accept" => toProxy = <<>>
  /\ mpc \in {"conf", "map", "init"} => toModule = <<>>
  /\ ppc = "negotiate" /\ mpc # "accept" => toModule = <<>>

\* Which places of the two processes, and of the ends of the socket, go together.
PlacesAgree ==
  /\ ppc = "none" <=> mpc = "off"
  /\ ppc \in {"none", "connect"} => msock = "closed" /\ psock = "closed" /\ toProxy = <<>>
  /\ ppc = "connect" => mpc \in {"accept", "killed"}
  /\ ppc = "negotiate" => mpc \in {"accept", "conf", "map", "init", "initWait", "failed", "killed"}
  /\ mpc = "accept" => ppc \in {"connect", "negotiate", "gone"}
  /\ ppc = "gone" => toProxy = <<>>
  /\ msock = "open" => ppc \in {"negotiate", "serve", "work", "reply"}
  /\ psock = "open" => msock = "open"
  /\ msock = "closed" => toModule = <<>>
  /\ msock \in {"eof", "reset", "dead"} => ppc = "gone"

\* The ids given out so far.
IdsCounted ==
  /\ mpc \in {"off", "accept", "conf", "map", "init"} => next_request_id = 0
  /\ mpc \in {"initWait", "mask", "up", "closing", "failed"} => next_request_id <= MaxRequests + 1
  /\ mpc \in {"batch", "updateWait"} => next_request_id + left <= MaxRequests

\* A reply that says success stands for something the proxy did.
Truthful(packet) == packet.type # "ver" /\ packet.result = 0 => packet.id \in done
RepliesTrue ==
  /\ \A i \in 1 .. Len(toModule) : Truthful(toModule[i])
  /\ ppc = "reply" => Truthful(serving)

\* What a call that has not failed yet knows.
CallSoFar ==
  ~failed => /\ mpc \in {"batch", "close", "closed"} => first .. next_request_id - 1 \subseteq done
             /\ mpc \in {"updateWait", "doneWait"} => first .. next_request_id - 2 \subseteq done

IInv == TypeOK /\ PacketsCounted /\ PlacesAgree /\ IdsCounted /\ RepliesTrue /\ CallSoFar

\* TypeOK in parts.
LinesTyped == /\ mpc \in MStates /\ ppc \in PStates
              /\ {msock, psock} \subseteq {"closed", "open", "eof", "reset", "dead"}
PacketsTyped == /\ toProxy \in Seq(Packets) /\ toModule \in Seq(Packets)
                /\ serving \in Packets /\ done \subseteq Ids
NumbersTyped == /\ next_request_id \in 0 .. MaxRequests + 2 /\ first \in 0 .. MaxRequests + 1
                /\ left \in 0 .. MaxBatches
FlagsTyped == {failed, privmap} \subseteq BOOLEAN

\* A process that dies or gives up closes its end, and nobody opens one twice.
LEMMA NextPlacesAgree == IInv /\ [Next]_vars => PlacesAgree'
<1> SUFFICES ASSUME IInv, [Next]_vars PROVE PlacesAgree'
  OBVIOUS
<1> USE IsolateAssumption DEF IInv, chan, module, proxy
<1>1. CASE LaunchProxy \/ Accept \/ AttachConf \/ CreatePrivmap \/ InitEnds \/ InitError
  BY <1>1
  DEF LaunchProxy, Accept, AttachConf, CreatePrivmap, InitEnds, InitError, PlacesAgree,
      PacketsCounted, Pending, Limit, TypeOK, MStates, PStates
<1>2. CASE Update \/ UpdateEnds \/ BeginDone
  BY <1>2
  DEF Update, UpdateEnds, BeginDone, PlacesAgree, PacketsCounted, Pending, Limit,
      TypeOK, MStates, PStates
<1>3. CASE SendInit \/ SendBatch \/ SendDone
  BY <1>3
  DEF SendInit, SendBatch, SendDone, Request, ModuleWrites, ModuleCloses, AfterClose,
      Packet, Unsent, PlacesAgree, PacketsCounted, Pending, Limit, TypeOK, MStates,
      PStates
<1>4. CASE RecvInit \/ RecvBatch \/ RecvDone
  BY <1>4
  DEF RecvInit, RecvBatch, RecvDone, Receives, ReadsPacket, ReadFails, Succeeded,
      Answers, PlacesAgree, PacketsCounted, Pending, Limit, TypeOK, MStates, PStates
<1>5. CASE CloseGmm \/ FailedExits \/ ModuleKilled
  BY <1>5
  DEF CloseGmm, FailedExits, ModuleKilled, ModuleCloses, AfterClose, PlacesAgree,
      PacketsCounted, Pending, Limit, TypeOK, MStates, PStates
<1>6. CASE ProxyNegotiated \/ ProxyReceives \/ ProxyReceiveFails
  BY <1>6
  DEF ProxyNegotiated, ProxyReceives, ProxyReceiveFails, PlacesAgree, PacketsCounted,
      Pending, Limit, TypeOK, MStates, PStates
<1>7. CASE ProxyWorks \/ ProxyReplies
  BY <1>7
  DEF ProxyWorks, ProxyReplies, ProxyCloses, AfterClose, Exits, PlacesAgree,
      PacketsCounted, Pending, Limit, TypeOK, MStates, PStates
<1>8. CASE ProxyConnects \/ ProxyConnectFails \/ ProxyGivesUp \/ ProxyKilled
  BY <1>8
  DEF ProxyConnects, ProxyConnectFails, ProxyGivesUp, ProxyKilled, Version, Packet,
      ProxyCloses, AfterClose, PlacesAgree, PacketsCounted, Pending, Limit, TypeOK,
      MStates, PStates
<1>9. CASE UNCHANGED vars
  BY <1>9 DEF vars, PlacesAgree, PacketsCounted, Pending, Limit, TypeOK, MStates, PStates
<1> QED BY <1>1, <1>2, <1>3, <1>4, <1>5, <1>6, <1>7, <1>8, <1>9
       DEF Next, ModuleStep, ProxyStep

\* A request is sent only where there is room for one more packet.
LEMMA NextPacketsCounted == IInv /\ [Next]_vars => PacketsCounted'
<1> SUFFICES ASSUME IInv, [Next]_vars PROVE PacketsCounted'
  OBVIOUS
<1> USE IsolateAssumption DEF IInv, chan, module, proxy
<1>1. CASE LaunchProxy \/ Accept \/ AttachConf \/ CreatePrivmap \/ InitEnds \/ InitError
  <2>1. CASE LaunchProxy
    BY <2>1
    DEF LaunchProxy, PacketsCounted, PlacesAgree, Pending, Limit, TypeOK, MStates,
        PStates
  <2>2. CASE Accept
    BY <2>2
    DEF Accept, PacketsCounted, PlacesAgree, Pending, Limit, TypeOK, MStates,
        PStates
  <2>3. CASE AttachConf
    BY <2>3
    DEF AttachConf, PacketsCounted, PlacesAgree, Pending, Limit, TypeOK, MStates,
        PStates
  <2>4. CASE CreatePrivmap
    BY <2>4
    DEF CreatePrivmap, PacketsCounted, PlacesAgree, Pending, Limit, TypeOK, MStates,
        PStates
  <2>5. CASE InitEnds
    BY <2>5
    DEF InitEnds, PacketsCounted, PlacesAgree, Pending, Limit, TypeOK, MStates,
        PStates
  <2>6. CASE InitError
    BY <2>6
    DEF InitError, PacketsCounted, PlacesAgree, Pending, Limit, TypeOK, MStates,
        PStates
  <2> QED BY <1>1, <2>1, <2>2, <2>3, <2>4, <2>5, <2>6
<1>2. CASE Update \/ UpdateEnds \/ BeginDone
  <2>1. CASE Update
    BY <2>1
    DEF Update, PacketsCounted, PlacesAgree, Pending, Limit, TypeOK, MStates,
        PStates
  <2>2. CASE UpdateEnds
    BY <2>2
    DEF UpdateEnds, PacketsCounted, PlacesAgree, Pending, Limit, TypeOK, MStates,
        PStates
  <2>3. CASE BeginDone
    BY <2>3
    DEF BeginDone, PacketsCounted, PlacesAgree, Pending, Limit, TypeOK, MStates,
        PStates
  <2> QED BY <1>2, <2>1, <2>2, <2>3
<1>3. CASE SendInit \/ SendBatch \/ SendDone
  <2>1. CASE SendInit
    BY <2>1
    DEF SendInit, Request, ModuleWrites, ModuleCloses, AfterClose, Packet, Unsent,
        PacketsCounted, PlacesAgree, Pending, Limit, TypeOK, MStates, PStates
  <2>2. CASE SendBatch
    BY <2>2
    DEF SendBatch, Request, ModuleWrites, ModuleCloses, AfterClose, Packet, Unsent,
        PacketsCounted, PlacesAgree, Pending, Limit, TypeOK, MStates, PStates
  <2>3. CASE SendDone
    BY <2>3
    DEF SendDone, Request, ModuleWrites, ModuleCloses, AfterClose, Packet, Unsent,
        PacketsCounted, PlacesAgree, Pending, Limit, TypeOK, MStates, PStates
  <2> QED BY <1>3, <2>1, <2>2, <2>3
<1>4. CASE RecvInit \/ RecvBatch \/ RecvDone
  <2>1. CASE RecvInit
    BY <2>1
    DEF RecvInit, Receives, ReadsPacket, ReadFails, Succeeded, Answers,
        PacketsCounted, PlacesAgree, Pending, Limit, TypeOK, MStates, PStates
  <2>2. CASE RecvBatch
    BY <2>2
    DEF RecvBatch, Receives, ReadsPacket, ReadFails, Succeeded, Answers,
        PacketsCounted, PlacesAgree, Pending, Limit, TypeOK, MStates, PStates
  <2>3. CASE RecvDone
    BY <2>3
    DEF RecvDone, Receives, ReadsPacket, ReadFails, Succeeded, Answers,
        PacketsCounted, PlacesAgree, Pending, Limit, TypeOK, MStates, PStates
  <2> QED BY <1>4, <2>1, <2>2, <2>3
<1>5. CASE CloseGmm \/ FailedExits \/ ModuleKilled
  <2>1. CASE CloseGmm
    BY <2>1
    DEF CloseGmm, ModuleCloses, AfterClose, PacketsCounted, PlacesAgree, Pending,
        Limit, TypeOK, MStates, PStates
  <2>2. CASE FailedExits
    BY <2>2
    DEF FailedExits, ModuleCloses, AfterClose, PacketsCounted, PlacesAgree, Pending,
        Limit, TypeOK, MStates, PStates
  <2>3. CASE ModuleKilled
    BY <2>3
    DEF ModuleKilled, ModuleCloses, AfterClose, PacketsCounted, PlacesAgree,
        Pending, Limit, TypeOK, MStates, PStates
  <2> QED BY <1>5, <2>1, <2>2, <2>3
<1>6. CASE ProxyNegotiated \/ ProxyReceives \/ ProxyReceiveFails
  <2>1. CASE ProxyNegotiated
    BY <2>1
    DEF ProxyNegotiated, PacketsCounted, PlacesAgree, Pending, Limit, TypeOK,
        MStates, PStates
  <2>2. CASE ProxyReceives
    BY <2>2
    DEF ProxyReceives, PacketsCounted, PlacesAgree, Pending, Limit, TypeOK, MStates,
        PStates
  <2>3. CASE ProxyReceiveFails
    BY <2>3
    DEF ProxyReceiveFails, PacketsCounted, PlacesAgree, Pending, Limit, TypeOK,
        MStates, PStates
  <2> QED BY <1>6, <2>1, <2>2, <2>3
<1>7. CASE ProxyWorks
  BY <1>7
  DEF ProxyWorks, PacketsCounted, PlacesAgree, Pending, Limit, TypeOK, MStates, PStates
<1>8. CASE ProxyReplies
  BY <1>8
  DEF ProxyReplies, ProxyCloses, AfterClose, Exits, PacketsCounted, PlacesAgree,
      Pending, Limit, TypeOK, MStates, PStates
<1>9. CASE ProxyConnects
  BY <1>9
  DEF ProxyConnects, Version, Packet, PacketsCounted, PlacesAgree, Pending, Limit,
      TypeOK, MStates, PStates
<1>10. CASE ProxyConnectFails
  BY <1>10
  DEF ProxyConnectFails, PacketsCounted, PlacesAgree, Pending, Limit, TypeOK, MStates,
      PStates
<1>11. CASE ProxyGivesUp
  BY <1>11
  DEF ProxyGivesUp, ProxyCloses, AfterClose, PacketsCounted, PlacesAgree, Pending,
      Limit, TypeOK, MStates, PStates
<1>12. CASE ProxyKilled
  BY <1>12
  DEF ProxyKilled, ProxyCloses, AfterClose, PacketsCounted, PlacesAgree, Pending, Limit,
      TypeOK, MStates, PStates
<1>13. CASE UNCHANGED vars
  BY <1>13 DEF vars, PacketsCounted, PlacesAgree, Pending, Limit, TypeOK, MStates, PStates
<1> QED BY <1>1, <1>2, <1>3, <1>4, <1>5, <1>6, <1>7, <1>8, <1>9, <1>10, <1>11, <1>12,
          <1>13
       DEF Next, ModuleStep, ProxyStep

\* An update asks for as many ids as it may need before it starts.
LEMMA NextIdsCounted == IInv /\ [Next]_vars => IdsCounted'
<1> SUFFICES ASSUME IInv, [Next]_vars PROVE IdsCounted'
  OBVIOUS
<1> USE IsolateAssumption DEF IInv, chan, module, proxy
<1>1. CASE LaunchProxy \/ Accept \/ AttachConf \/ CreatePrivmap \/ InitEnds \/ InitError
  <2>1. CASE LaunchProxy
    BY <2>1
    DEF LaunchProxy, IdsCounted, TypeOK
  <2>2. CASE Accept
    BY <2>2
    DEF Accept, IdsCounted, TypeOK
  <2>3. CASE AttachConf
    BY <2>3
    DEF AttachConf, IdsCounted, TypeOK
  <2>4. CASE CreatePrivmap
    BY <2>4
    DEF CreatePrivmap, IdsCounted, TypeOK
  <2>5. CASE InitEnds
    BY <2>5
    DEF InitEnds, IdsCounted, TypeOK
  <2>6. CASE InitError
    BY <2>6
    DEF InitError, IdsCounted, TypeOK
  <2> QED BY <1>1, <2>1, <2>2, <2>3, <2>4, <2>5, <2>6
<1>2. CASE Update \/ UpdateEnds \/ BeginDone
  BY <1>2
  DEF Update, UpdateEnds, BeginDone, IdsCounted, TypeOK
<1>3. CASE SendInit \/ SendBatch \/ SendDone
  <2>1. CASE SendInit
    BY <2>1
    DEF SendInit, Request, ModuleWrites, ModuleCloses, AfterClose, Packet, Unsent,
        IdsCounted, TypeOK
  <2>2. CASE SendBatch
    BY <2>2
    DEF SendBatch, Request, ModuleWrites, ModuleCloses, AfterClose, Packet, Unsent,
        IdsCounted, TypeOK
  <2>3. CASE SendDone
    BY <2>3
    DEF SendDone, Request, ModuleWrites, ModuleCloses, AfterClose, Packet, Unsent,
        IdsCounted, TypeOK
  <2> QED BY <1>3, <2>1, <2>2, <2>3
<1>4. CASE RecvInit \/ RecvBatch \/ RecvDone
  <2>1. CASE RecvInit
    BY <2>1
    DEF RecvInit, Receives, ReadsPacket, ReadFails, Succeeded, Answers, IdsCounted,
        TypeOK
  <2>2. CASE RecvBatch
    BY <2>2
    DEF RecvBatch, Receives, ReadsPacket, ReadFails, Succeeded, Answers, IdsCounted,
        TypeOK
  <2>3. CASE RecvDone
    BY <2>3
    DEF RecvDone, Receives, ReadsPacket, ReadFails, Succeeded, Answers, IdsCounted,
        TypeOK
  <2> QED BY <1>4, <2>1, <2>2, <2>3
<1>5. CASE CloseGmm \/ FailedExits \/ ModuleKilled
  <2>1. CASE CloseGmm
    BY <2>1
    DEF CloseGmm, ModuleCloses, AfterClose, IdsCounted, TypeOK
  <2>2. CASE FailedExits
    BY <2>2
    DEF FailedExits, ModuleCloses, AfterClose, IdsCounted, TypeOK
  <2>3. CASE ModuleKilled
    BY <2>3
    DEF ModuleKilled, ModuleCloses, AfterClose, IdsCounted, TypeOK
  <2> QED BY <1>5, <2>1, <2>2, <2>3
<1>6. CASE ProxyNegotiated \/ ProxyReceives \/ ProxyReceiveFails
  <2>1. CASE ProxyNegotiated
    BY <2>1
    DEF ProxyNegotiated, IdsCounted, TypeOK
  <2>2. CASE ProxyReceives
    BY <2>2
    DEF ProxyReceives, IdsCounted, TypeOK
  <2>3. CASE ProxyReceiveFails
    BY <2>3
    DEF ProxyReceiveFails, IdsCounted, TypeOK
  <2> QED BY <1>6, <2>1, <2>2, <2>3
<1>7. CASE ProxyWorks \/ ProxyReplies
  <2>1. CASE ProxyWorks
    BY <2>1
    DEF ProxyWorks, ProxyCloses, AfterClose, Exits, IdsCounted, TypeOK
  <2>2. CASE ProxyReplies
    BY <2>2
    DEF ProxyReplies, ProxyCloses, AfterClose, Exits, IdsCounted, TypeOK
  <2> QED BY <1>7, <2>1, <2>2
<1>8. CASE ProxyConnects \/ ProxyConnectFails \/ ProxyGivesUp \/ ProxyKilled
  <2>1. CASE ProxyConnects
    BY <2>1
    DEF ProxyConnects, Version, Packet, ProxyCloses, AfterClose, IdsCounted, TypeOK
  <2>2. CASE ProxyConnectFails
    BY <2>2
    DEF ProxyConnectFails, Version, Packet, ProxyCloses, AfterClose, IdsCounted,
        TypeOK
  <2>3. CASE ProxyGivesUp
    BY <2>3
    DEF ProxyGivesUp, Version, Packet, ProxyCloses, AfterClose, IdsCounted, TypeOK
  <2>4. CASE ProxyKilled
    BY <2>4
    DEF ProxyKilled, Version, Packet, ProxyCloses, AfterClose, IdsCounted, TypeOK
  <2> QED BY <1>8, <2>1, <2>2, <2>3, <2>4
<1>9. CASE UNCHANGED vars
  BY <1>9 DEF vars, IdsCounted, TypeOK
<1> QED BY <1>1, <1>2, <1>3, <1>4, <1>5, <1>6, <1>7, <1>8, <1>9
       DEF Next, ModuleStep, ProxyStep

\* The proxy puts an id to those done before it replies, and takes none back.
LEMMA NextRepliesTrue == IInv /\ [Next]_vars => RepliesTrue'
<1> SUFFICES ASSUME IInv, [Next]_vars PROVE RepliesTrue'
  OBVIOUS
<1> USE IsolateAssumption DEF IInv, chan, module, proxy
<1>1. CASE LaunchProxy \/ Accept \/ AttachConf \/ CreatePrivmap \/ InitEnds \/ InitError
  <2>1. CASE LaunchProxy
    BY <2>1
    DEF LaunchProxy, RepliesTrue, Truthful, TypeOK, PlacesAgree
  <2>2. CASE Accept
    BY <2>2
    DEF Accept, RepliesTrue, Truthful, TypeOK, PlacesAgree
  <2>3. CASE AttachConf
    BY <2>3
    DEF AttachConf, RepliesTrue, Truthful, TypeOK, PlacesAgree
  <2>4. CASE CreatePrivmap
    BY <2>4
    DEF CreatePrivmap, RepliesTrue, Truthful, TypeOK, PlacesAgree
  <2>5. CASE InitEnds
    BY <2>5
    DEF InitEnds, RepliesTrue, Truthful, TypeOK, PlacesAgree
  <2>6. CASE InitError
    BY <2>6
    DEF InitError, RepliesTrue, Truthful, TypeOK, PlacesAgree
  <2> QED BY <1>1, <2>1, <2>2, <2>3, <2>4, <2>5, <2>6
<1>2. CASE Update \/ UpdateEnds \/ BeginDone
  <2>1. CASE Update
    BY <2>1
    DEF Update, RepliesTrue, Truthful, TypeOK, PlacesAgree
  <2>2. CASE UpdateEnds
    BY <2>2
    DEF UpdateEnds, RepliesTrue, Truthful, TypeOK, PlacesAgree
  <2>3. CASE BeginDone
    BY <2>3
    DEF BeginDone, RepliesTrue, Truthful, TypeOK, PlacesAgree
  <2> QED BY <1>2, <2>1, <2>2, <2>3
<1>3. CASE SendInit \/ SendBatch \/ SendDone
  <2>1. CASE SendInit
    BY <2>1
    DEF SendInit, Request, ModuleWrites, ModuleCloses, AfterClose, Packet, Unsent,
        RepliesTrue, Truthful, TypeOK, PlacesAgree
  <2>2. CASE SendBatch
    BY <2>2
    DEF SendBatch, Request, ModuleWrites, ModuleCloses, AfterClose, Packet, Unsent,
        RepliesTrue, Truthful, TypeOK, PlacesAgree
  <2>3. CASE SendDone
    BY <2>3
    DEF SendDone, Request, ModuleWrites, ModuleCloses, AfterClose, Packet, Unsent,
        RepliesTrue, Truthful, TypeOK, PlacesAgree
  <2> QED BY <1>3, <2>1, <2>2, <2>3
<1>4. CASE RecvInit \/ RecvBatch \/ RecvDone
  <2>1. CASE RecvInit
    BY <2>1
    DEF RecvInit, Receives, ReadsPacket, ReadFails, Succeeded, Answers, RepliesTrue,
        Truthful, TypeOK, PlacesAgree
  <2>2. CASE RecvBatch
    BY <2>2
    DEF RecvBatch, Receives, ReadsPacket, ReadFails, Succeeded, Answers,
        RepliesTrue, Truthful, TypeOK, PlacesAgree
  <2>3. CASE RecvDone
    BY <2>3
    DEF RecvDone, Receives, ReadsPacket, ReadFails, Succeeded, Answers, RepliesTrue,
        Truthful, TypeOK, PlacesAgree
  <2> QED BY <1>4, <2>1, <2>2, <2>3
<1>5. CASE CloseGmm \/ FailedExits \/ ModuleKilled
  <2>1. CASE CloseGmm
    BY <2>1
    DEF CloseGmm, ModuleCloses, AfterClose, RepliesTrue, Truthful, TypeOK,
        PlacesAgree
  <2>2. CASE FailedExits
    BY <2>2
    DEF FailedExits, ModuleCloses, AfterClose, RepliesTrue, Truthful, TypeOK,
        PlacesAgree
  <2>3. CASE ModuleKilled
    BY <2>3
    DEF ModuleKilled, ModuleCloses, AfterClose, RepliesTrue, Truthful, TypeOK,
        PlacesAgree
  <2> QED BY <1>5, <2>1, <2>2, <2>3
<1>6. CASE ProxyNegotiated \/ ProxyReceives \/ ProxyReceiveFails
  <2>1. CASE ProxyNegotiated
    BY <2>1
    DEF ProxyNegotiated, RepliesTrue, Truthful, TypeOK, PlacesAgree
  <2>2. CASE ProxyReceives
    BY <2>2
    DEF ProxyReceives, RepliesTrue, Truthful, TypeOK, PlacesAgree
  <2>3. CASE ProxyReceiveFails
    BY <2>3
    DEF ProxyReceiveFails, RepliesTrue, Truthful, TypeOK, PlacesAgree
  <2> QED BY <1>6, <2>1, <2>2, <2>3
<1>7. CASE ProxyWorks
  BY <1>7
  DEF ProxyWorks, RepliesTrue, Truthful, TypeOK, PlacesAgree
<1>8. CASE ProxyReplies
  BY <1>8
  DEF ProxyReplies, ProxyCloses, AfterClose, Exits, RepliesTrue, Truthful, TypeOK,
      PlacesAgree
<1>9. CASE ProxyConnects \/ ProxyConnectFails \/ ProxyGivesUp \/ ProxyKilled
  <2>1. CASE ProxyConnects
    BY <2>1
    DEF ProxyConnects, Version, Packet, ProxyCloses, AfterClose, RepliesTrue,
        Truthful, TypeOK, PlacesAgree
  <2>2. CASE ProxyConnectFails
    BY <2>2
    DEF ProxyConnectFails, Version, Packet, ProxyCloses, AfterClose, RepliesTrue,
        Truthful, TypeOK, PlacesAgree
  <2>3. CASE ProxyGivesUp
    BY <2>3
    DEF ProxyGivesUp, Version, Packet, ProxyCloses, AfterClose, RepliesTrue,
        Truthful, TypeOK, PlacesAgree
  <2>4. CASE ProxyKilled
    BY <2>4
    DEF ProxyKilled, Version, Packet, ProxyCloses, AfterClose, RepliesTrue,
        Truthful, TypeOK, PlacesAgree
  <2> QED BY <1>9, <2>1, <2>2, <2>3, <2>4
<1>10. CASE UNCHANGED vars
  BY <1>10 DEF vars, RepliesTrue, Truthful, TypeOK, PlacesAgree
<1> QED BY <1>1, <1>2, <1>3, <1>4, <1>5, <1>6, <1>7, <1>8, <1>9, <1>10
       DEF Next, ModuleStep, ProxyStep

\* A batch that is passed over, or whose reply is not the one awaited, fails the call.
LEMMA NextCallSoFar == IInv /\ [Next]_vars => CallSoFar'
<1> SUFFICES ASSUME IInv, [Next]_vars PROVE CallSoFar'
  OBVIOUS
<1> USE IsolateAssumption DEF IInv, chan, module, proxy
<1>1. CASE LaunchProxy \/ Accept \/ AttachConf \/ CreatePrivmap \/ InitEnds \/ InitError
  BY <1>1
  DEF LaunchProxy, Accept, AttachConf, CreatePrivmap, InitEnds, InitError, CallSoFar,
      TypeOK
<1>2. CASE Update \/ UpdateEnds \/ BeginDone
  BY <1>2
  DEF Update, UpdateEnds, BeginDone, CallSoFar, TypeOK
<1>3. CASE SendInit
  BY <1>3
  DEF SendInit, Request, ModuleWrites, ModuleCloses, AfterClose, Packet, CallSoFar,
      TypeOK
<1>4. CASE SendBatch
  <2>1. CASE failed'
    BY <2>1 DEF CallSoFar
  <2>2. CASE ~failed'
    <3>1. /\ mpc' = "updateWait" \/ mpc' = "killed"
          /\ first' = first
          /\ next_request_id' = next_request_id + 1 /\ done' = done
          /\ first .. next_request_id - 1 \subseteq done
      BY <1>4, <2>2 DEF SendBatch, Request, ModuleWrites, Unsent, CallSoFar
    <3>2. next_request_id' - 2 = next_request_id - 1
      BY <3>1 DEF TypeOK
    <3> QED BY <3>1, <3>2 DEF CallSoFar
  <2> QED BY <2>1, <2>2
<1>5. CASE SendDone
  BY <1>5
  DEF SendDone, Request, ModuleWrites, ModuleCloses, AfterClose, Packet, Unsent,
      CallSoFar, TypeOK
<1>6. CASE RecvInit
  BY <1>6
  DEF RecvInit, Receives, ReadsPacket, ReadFails, Succeeded, Answers, CallSoFar, TypeOK
<1>7. CASE RecvBatch
  <2>1. CASE failed'
    BY <2>1 DEF CallSoFar
  <2>2. CASE ~failed'
    <3>1. /\ Succeeded("update") /\ ~failed
          /\ mpc' = "batch" /\ UNCHANGED <<first, next_request_id, done>>
      BY <1>7, <2>2 DEF RecvBatch, TypeOK
    <3>2. Head(toModule) = toModule[1] /\ 1 \in 1 .. Len(toModule)
      BY <3>1 DEF Succeeded, TypeOK
    <3>3. next_request_id - 1 \in done
      BY <3>1, <3>2 DEF Succeeded, Answers, RepliesTrue, Truthful
    <3>4. first .. next_request_id - 2 \subseteq done
      BY <1>7, <3>1 DEF RecvBatch, CallSoFar
    <3>5. first .. next_request_id - 1 \subseteq done
      BY <3>3, <3>4 DEF TypeOK
    <3> QED BY <3>1, <3>5 DEF CallSoFar
  <2> QED BY <2>1, <2>2
<1>8. CASE RecvDone
  <2>1. CASE failed'
    BY <2>1 DEF CallSoFar
  <2>2. CASE ~failed'
    <3>1. /\ Succeeded("done") /\ ~failed
          /\ mpc' = "close" /\ UNCHANGED <<first, next_request_id, done>>
      BY <1>8, <2>2 DEF RecvDone, TypeOK
    <3>2. Head(toModule) = toModule[1] /\ 1 \in 1 .. Len(toModule)
      BY <3>1 DEF Succeeded, TypeOK
    <3>3. next_request_id - 1 \in done
      BY <3>1, <3>2 DEF Succeeded, Answers, RepliesTrue, Truthful
    <3>4. first .. next_request_id - 2 \subseteq done
      BY <1>8, <3>1 DEF RecvDone, CallSoFar
    <3>5. first .. next_request_id - 1 \subseteq done
      BY <3>3, <3>4 DEF TypeOK
    <3> QED BY <3>1, <3>5 DEF CallSoFar
  <2> QED BY <2>1, <2>2
<1>9. CASE CloseGmm \/ FailedExits \/ ModuleKilled
  BY <1>9
  DEF CloseGmm, FailedExits, ModuleKilled, ModuleCloses, AfterClose, CallSoFar, TypeOK
<1>10. CASE ProxyNegotiated \/ ProxyReceives \/ ProxyReceiveFails
  BY <1>10
  DEF ProxyNegotiated, ProxyReceives, ProxyReceiveFails, CallSoFar, TypeOK
<1>11. CASE ProxyWorks \/ ProxyReplies
  BY <1>11
  DEF ProxyWorks, ProxyReplies, ProxyCloses, AfterClose, Exits, CallSoFar, TypeOK
<1>12. CASE ProxyConnects \/ ProxyConnectFails \/ ProxyGivesUp \/ ProxyKilled
  BY <1>12
  DEF ProxyConnects, ProxyConnectFails, ProxyGivesUp, ProxyKilled, Version, Packet,
      ProxyCloses, AfterClose, CallSoFar, TypeOK
<1>13. CASE UNCHANGED vars
  BY <1>13 DEF vars, CallSoFar, TypeOK
<1> QED BY <1>1, <1>2, <1>3, <1>4, <1>5, <1>6, <1>7, <1>8, <1>9, <1>10, <1>11, <1>12,
          <1>13
       DEF Next, ModuleStep, ProxyStep

\* The places of the two processes, and the ends of the socket.
LEMMA NextLinesTyped == IInv /\ [Next]_vars => LinesTyped'
<1> SUFFICES ASSUME IInv, [Next]_vars PROVE LinesTyped'
  OBVIOUS
<1> USE IsolateAssumption DEF IInv, chan, module, proxy
<1>1. CASE LaunchProxy \/ Accept \/ AttachConf \/ CreatePrivmap \/ InitEnds \/ InitError
  BY <1>1
  DEF LaunchProxy, Accept, AttachConf, CreatePrivmap, InitEnds, InitError, LinesTyped,
      TypeOK, MStates, PStates
<1>2. CASE Update \/ UpdateEnds \/ BeginDone
  BY <1>2
  DEF Update, UpdateEnds, BeginDone, LinesTyped, TypeOK, MStates, PStates
<1>3. CASE SendInit \/ SendBatch \/ SendDone
  BY <1>3
  DEF SendInit, SendBatch, SendDone, Request, ModuleWrites, ModuleCloses, AfterClose,
      Packet, Unsent, LinesTyped, TypeOK, MStates, PStates
<1>4. CASE RecvInit \/ RecvBatch \/ RecvDone
  BY <1>4
  DEF RecvInit, RecvBatch, RecvDone, Receives, ReadsPacket, ReadFails, Succeeded,
      Answers, LinesTyped, TypeOK, MStates, PStates
<1>5. CASE CloseGmm \/ FailedExits \/ ModuleKilled
  BY <1>5
  DEF CloseGmm, FailedExits, ModuleKilled, ModuleCloses, AfterClose, LinesTyped, TypeOK,
      MStates, PStates
<1>6. CASE ProxyNegotiated \/ ProxyReceives \/ ProxyReceiveFails
  BY <1>6
  DEF ProxyNegotiated, ProxyReceives, ProxyReceiveFails, LinesTyped, TypeOK, MStates,
      PStates
<1>7. CASE ProxyWorks \/ ProxyReplies
  BY <1>7
  DEF ProxyWorks, ProxyReplies, ProxyCloses, AfterClose, Exits, LinesTyped, TypeOK,
      MStates, PStates
<1>8. CASE ProxyConnects \/ ProxyConnectFails \/ ProxyGivesUp \/ ProxyKilled
  BY <1>8
  DEF ProxyConnects, ProxyConnectFails, ProxyGivesUp, ProxyKilled, Version, Packet,
      ProxyCloses, AfterClose, LinesTyped, TypeOK, MStates, PStates
<1>9. CASE UNCHANGED vars
  BY <1>9 DEF vars, LinesTyped, TypeOK, MStates, PStates
<1> QED BY <1>1, <1>2, <1>3, <1>4, <1>5, <1>6, <1>7, <1>8, <1>9
       DEF Next, ModuleStep, ProxyStep

\* What is in a queue stays a packet.
LEMMA QueueSteps ==
  ASSUME NEW q \in Seq(Packets), NEW x \in Packets
  PROVE  /\ <<>> \in Seq(Packets) /\ Append(q, x) \in Seq(Packets)
         /\ q # <<>> => Tail(q) \in Seq(Packets) /\ Head(q) \in Packets
OBVIOUS

LEMMA VersionTyped == Version \in Packets
BY IsolateAssumption DEF Version, Packet, Packets, Ids

LEMMA NextPacketsTyped == IInv /\ [Next]_vars => PacketsTyped'
<1> SUFFICES ASSUME IInv, [Next]_vars PROVE PacketsTyped'
  OBVIOUS
<1> USE DEF chan, module, proxy
<1>0. /\ toProxy \in Seq(Packets) /\ toModule \in Seq(Packets) /\ <<>> \in Seq(Packets)
      /\ serving \in Packets /\ done \subseteq Ids
  BY VersionTyped, QueueSteps DEF IInv, TypeOK
<1>1. CASE LaunchProxy \/ AttachConf \/ CreatePrivmap \/ InitEnds \/ InitError
  BY <1>0, <1>1 DEF LaunchProxy, AttachConf, CreatePrivmap, InitEnds, InitError, PacketsTyped
<1>2. CASE Accept
  BY <1>0, <1>2, QueueSteps DEF Accept, PacketsTyped
<1>3. CASE Update \/ UpdateEnds \/ BeginDone
  BY <1>0, <1>3 DEF Update, UpdateEnds, BeginDone, PacketsTyped
\* A request is a packet: its id is one of those counted.
<1>4. ASSUME NEW type \in {"init", "update", "done"}, NEW sent, NEW lost,
             Request(type, sent, lost), next_request_id <= MaxRequests + 1,
             UNCHANGED proxy
      PROVE  PacketsTyped'
  <2>1. next_request_id \in Ids
    BY <1>4, IsolateAssumption DEF IInv, TypeOK, Ids
  <2>2. Packet(type, next_request_id, 0) \in Packets
    BY <1>4, <2>1 DEF Packet, Packets
  <2>3. Append(toProxy, Packet(type, next_request_id, 0)) \in Seq(Packets)
    BY <1>0, <2>2, QueueSteps
  <2>4. /\ toProxy' \in {toProxy, Append(toProxy, Packet(type, next_request_id, 0))}
        /\ toModule' \in {toModule, <<>>}
    BY <1>4 DEF Request, ModuleWrites, ModuleCloses
  <2> QED BY <1>0, <1>4, <2>3, <2>4 DEF PacketsTyped
<1>5. CASE SendInit \/ SendBatch \/ SendDone
  <2>1. next_request_id <= MaxRequests + 1
    BY <1>5, IsolateAssumption DEF SendInit, SendBatch, SendDone, IInv, IdsCounted, TypeOK
  <2> QED BY <1>4, <1>5, <2>1 DEF SendInit, SendBatch, SendDone
<1>6. CASE RecvInit \/ RecvBatch \/ RecvDone
  <2>1. UNCHANGED <<toProxy, proxy>> /\ (Receives \/ UNCHANGED chan)
    BY <1>6 DEF RecvInit, RecvBatch, RecvDone, Receives, ReadsPacket, ReadFails
  <2> QED BY <1>0, <2>1, QueueSteps DEF Receives, ReadsPacket, ReadFails, PacketsTyped
<1>7. CASE CloseGmm \/ FailedExits \/ ModuleKilled
  BY <1>0, <1>7 DEF CloseGmm, FailedExits, ModuleKilled, ModuleCloses, PacketsTyped
<1>8. CASE ProxyConnects
  BY <1>0, <1>8, VersionTyped DEF ProxyConnects, PacketsTyped
<1>9. CASE ProxyNegotiated \/ ProxyReceives \/ ProxyReceiveFails
  BY <1>0, <1>9, QueueSteps
  DEF ProxyNegotiated, ProxyReceives, ProxyReceiveFails, PacketsTyped
<1>10. CASE ProxyWorks
  <2>1. \A r \in {0, 1} : [serving EXCEPT !.result = r] \in Packets
    BY <1>0 DEF Packets
  <2>2. serving.id \in Ids
    BY <1>0 DEF Packets
  <2> QED BY <1>0, <1>10, <2>1, <2>2 DEF ProxyWorks, PacketsTyped
<1>11. CASE ProxyReplies
  <2>1. Append(toModule, serving) \in Seq(Packets)
    BY <1>0, QueueSteps
  <2>2. /\ toModule' \in {toModule, Append(toModule, serving)}
        /\ toProxy' \in {toProxy, <<>>} /\ UNCHANGED <<serving, done>>
    BY <1>11 DEF ProxyReplies, ProxyCloses
  <2> QED BY <1>0, <2>1, <2>2 DEF PacketsTyped
<1>12. CASE ProxyConnectFails \/ ProxyGivesUp \/ ProxyKilled
  BY <1>0, <1>12 DEF ProxyConnectFails, ProxyGivesUp, ProxyKilled, ProxyCloses, PacketsTyped
<1>13. CASE UNCHANGED vars
  BY <1>0, <1>13 DEF vars, PacketsTyped
<1> QED BY <1>1, <1>2, <1>3, <1>5, <1>6, <1>7, <1>8, <1>9, <1>10, <1>11, <1>12, <1>13
        DEF Next, ModuleStep, ProxyStep

\* The ids and the batches.
LEMMA NextNumbersTyped == IInv /\ [Next]_vars => NumbersTyped'
<1> SUFFICES ASSUME IInv, [Next]_vars PROVE NumbersTyped'
  OBVIOUS
<1> USE IsolateAssumption DEF IInv, chan, module, proxy
<1>1. CASE LaunchProxy \/ Accept \/ AttachConf \/ CreatePrivmap \/ InitEnds \/ InitError
  BY <1>1
  DEF LaunchProxy, Accept, AttachConf, CreatePrivmap, InitEnds, InitError, NumbersTyped,
      TypeOK, IdsCounted
<1>2. CASE Update \/ UpdateEnds \/ BeginDone
  BY <1>2
  DEF Update, UpdateEnds, BeginDone, NumbersTyped, TypeOK, IdsCounted
<1>3. CASE SendInit
  BY <1>3
  DEF SendInit, Request, ModuleWrites, ModuleCloses, AfterClose, Packet, NumbersTyped,
      TypeOK, IdsCounted
<1>4. CASE SendBatch
  BY <1>4
  DEF SendBatch, Request, ModuleWrites, ModuleCloses, AfterClose, Packet, Unsent,
      NumbersTyped, TypeOK, IdsCounted
<1>5. CASE SendDone
  BY <1>5
  DEF SendDone, Request, ModuleWrites, ModuleCloses, AfterClose, Packet, Unsent,
      NumbersTyped, TypeOK, IdsCounted
<1>6. CASE RecvInit \/ RecvBatch \/ RecvDone
  BY <1>6
  DEF RecvInit, RecvBatch, RecvDone, Receives, ReadsPacket, ReadFails, Succeeded,
      Answers, NumbersTyped, TypeOK, IdsCounted
<1>7. CASE CloseGmm \/ FailedExits \/ ModuleKilled
  BY <1>7
  DEF CloseGmm, FailedExits, ModuleKilled, ModuleCloses, AfterClose, NumbersTyped,
      TypeOK, IdsCounted
<1>8. CASE ProxyNegotiated \/ ProxyReceives \/ ProxyReceiveFails
  BY <1>8
  DEF ProxyNegotiated, ProxyReceives, ProxyReceiveFails, NumbersTyped, TypeOK,
      IdsCounted
<1>9. CASE ProxyWorks \/ ProxyReplies
  BY <1>9
  DEF ProxyWorks, ProxyReplies, ProxyCloses, AfterClose, Exits, NumbersTyped, TypeOK,
      IdsCounted
<1>10. CASE ProxyConnects \/ ProxyConnectFails \/ ProxyGivesUp \/ ProxyKilled
  BY <1>10
  DEF ProxyConnects, ProxyConnectFails, ProxyGivesUp, ProxyKilled, Version, Packet,
      ProxyCloses, AfterClose, NumbersTyped, TypeOK, IdsCounted
<1>11. CASE UNCHANGED vars
  BY <1>11 DEF vars, NumbersTyped, TypeOK, IdsCounted
<1> QED BY <1>1, <1>2, <1>3, <1>4, <1>5, <1>6, <1>7, <1>8, <1>9, <1>10, <1>11
       DEF Next, ModuleStep, ProxyStep

\* The result and the shared memory.
LEMMA NextFlagsTyped == IInv /\ [Next]_vars => FlagsTyped'
<1> SUFFICES ASSUME IInv, [Next]_vars PROVE FlagsTyped'
  OBVIOUS
<1> USE IsolateAssumption DEF IInv, chan, module, proxy
<1>1. CASE LaunchProxy \/ Accept \/ AttachConf \/ CreatePrivmap \/ InitEnds \/ InitError
  BY <1>1
  DEF LaunchProxy, Accept, AttachConf, CreatePrivmap, InitEnds, InitError, FlagsTyped,
      TypeOK
<1>2. CASE Update \/ UpdateEnds \/ BeginDone
  BY <1>2
  DEF Update, UpdateEnds, BeginDone, FlagsTyped, TypeOK
<1>3. CASE SendInit
  BY <1>3
  DEF SendInit, Request, ModuleWrites, ModuleCloses, AfterClose, Packet, FlagsTyped,
      TypeOK
<1>4. CASE SendBatch
  BY <1>4
  DEF SendBatch, Request, ModuleWrites, ModuleCloses, AfterClose, Packet, Unsent,
      FlagsTyped, TypeOK
<1>5. CASE SendDone
  BY <1>5
  DEF SendDone, Request, ModuleWrites, ModuleCloses, AfterClose, Packet, Unsent,
      FlagsTyped, TypeOK
<1>6. CASE RecvInit
  BY <1>6
  DEF RecvInit, Receives, ReadsPacket, ReadFails, Succeeded, Answers, FlagsTyped, TypeOK
<1>7. CASE RecvBatch
  BY <1>7
  DEF RecvBatch, Receives, ReadsPacket, ReadFails, Succeeded, Answers, FlagsTyped,
      TypeOK
<1>8. CASE RecvDone
  BY <1>8
  DEF RecvDone, Receives, ReadsPacket, ReadFails, Succeeded, Answers, FlagsTyped, TypeOK
<1>9. CASE CloseGmm \/ FailedExits \/ ModuleKilled
  BY <1>9
  DEF CloseGmm, FailedExits, ModuleKilled, ModuleCloses, AfterClose, FlagsTyped, TypeOK
<1>10. CASE ProxyNegotiated \/ ProxyReceives \/ ProxyReceiveFails
  BY <1>10
  DEF ProxyNegotiated, ProxyReceives, ProxyReceiveFails, FlagsTyped, TypeOK
<1>11. CASE ProxyWorks \/ ProxyReplies
  BY <1>11
  DEF ProxyWorks, ProxyReplies, ProxyCloses, AfterClose, Exits, FlagsTyped, TypeOK
<1>12. CASE ProxyConnects \/ ProxyConnectFails \/ ProxyGivesUp \/ ProxyKilled
  BY <1>12
  DEF ProxyConnects, ProxyConnectFails, ProxyGivesUp, ProxyKilled, Version, Packet,
      ProxyCloses, AfterClose, FlagsTyped, TypeOK
<1>13. CASE UNCHANGED vars
  BY <1>13 DEF vars, FlagsTyped, TypeOK
<1> QED BY <1>1, <1>2, <1>3, <1>4, <1>5, <1>6, <1>7, <1>8, <1>9, <1>10, <1>11, <1>12,
          <1>13
       DEF Next, ModuleStep, ProxyStep

LEMMA InitIInv == Init => IInv
<1> SUFFICES ASSUME Init PROVE IInv
  OBVIOUS
<1> USE IsolateAssumption
<1>1. TypeOK
  <2>1. <<>> \in Seq(Packets) /\ Len(<<>>) = 0
    OBVIOUS
  <2>2. mpc \in MStates /\ ppc \in PStates
    BY DEF Init, MStates, PStates
  <2>3. serving \in Packets /\ {failed, privmap} \subseteq BOOLEAN
    BY VersionTyped DEF Init
  <2>4. next_request_id \in 0 .. MaxRequests + 2 /\ first \in 0 .. MaxRequests + 1
        /\ left \in 0 .. MaxBatches
    BY DEF Init
  <2> QED BY <2>1, <2>2, <2>3, <2>4 DEF Init, TypeOK
<1>2. PacketsCounted /\ PlacesAgree
  BY DEF Init, PacketsCounted, PlacesAgree, Pending, Limit
<1>3. IdsCounted /\ RepliesTrue /\ CallSoFar
  BY DEF Init, IdsCounted, RepliesTrue, CallSoFar
<1> QED BY <1>1, <1>2, <1>3 DEF IInv

LEMMA NextIInv == IInv /\ [Next]_vars => IInv'
<1> SUFFICES ASSUME IInv, [Next]_vars PROVE IInv'
  OBVIOUS
<1>1. PlacesAgree' /\ PacketsCounted' /\ IdsCounted' /\ RepliesTrue' /\ CallSoFar'
  BY NextPlacesAgree, NextPacketsCounted, NextIdsCounted, NextRepliesTrue, NextCallSoFar
<1>2. LinesTyped' /\ PacketsTyped' /\ NumbersTyped' /\ FlagsTyped'
  BY NextLinesTyped, NextPacketsTyped, NextNumbersTyped, NextFlagsTyped
<1>3. Len(toProxy') <= 2 /\ Len(toModule') <= 2
  <2>1. Len(toProxy') \in Nat /\ Len(toModule') \in Nat
    BY <1>2 DEF PacketsTyped
  <2> QED BY <1>1, <2>1 DEF PacketsCounted, PlacesAgree, Pending, Limit
<1> QED BY <1>1, <1>2, <1>3
        DEF IInv, TypeOK, LinesTyped, PacketsTyped, NumbersTyped, FlagsTyped

LEMMA Invariant == Spec => []IInv
BY InitIInv, NextIInv, PTL DEF Spec

\* Whatever the number of batches and requests, never are more packets under
\* way than the request of an interrupted call and the done request behind
\* it, and no request id is given twice (gmm_isolate.c:267, protocol.c).
THEOREM TypeCorrect == Spec => []TypeOK
<1>1. IInv => TypeOK
  BY DEF IInv
<1> QED BY Invariant, <1>1, PTL

\* A call returns success only when the proxy carried out every request of
\* it, whatever was lost, interrupted or killed before (gmm_isolate.c:123, 324).
THEOREM SuccessStaysTrue == Spec => []SuccessIsTrue
<1>1. IInv => SuccessIsTrue
  BY DEF IInv, CallSoFar, SuccessIsTrue
<1> QED BY Invariant, <1>1, PTL

\* Between two calls nothing is under way, also after batches that failed: no
\* reply can be left over for a later call (gmm_isolate.c:110).
THEOREM CallsStayInStep == Spec => []InStep
<1>1. IInv => InStep
  <2> SUFFICES ASSUME IInv, mpc = "up"
               PROVE  toModule = <<>> /\ toProxy = <<>> /\ ppc \notin {"work", "reply"}
    BY DEF InStep
  <2>1. Len(toProxy) \in Nat /\ Len(toModule) \in Nat
    BY DEF IInv, TypeOK
  <2>2. Pending <= 0
    BY DEF IInv, PacketsCounted, Limit
  <2>3. Len(toProxy) = 0 /\ Len(toModule) = 0 /\ ppc \notin {"work", "reply"}
    BY <2>1, <2>2 DEF Pending
  <2> QED BY <2>3 DEF IInv, TypeOK
<1> QED BY Invariant, <1>1, PTL
=============================================================================
