-------------------------------- MODULE Isolate --------------------------------
(***************************************************************************)
(* The isolate mode of the globalmap (gmm/gmm_isolate.c): the module forks *)
(* a proxy (plcproxy.c) that is a local module of its own, and every call  *)
(* is a request to it and a reply over a TCP socket (protocol.c).  A       *)
(* packet is read and written whole.  An end of the socket is open; at eof *)
(* when the peer has closed the other: a read returns no bytes, and a      *)
(* write is accepted but answered by a reset; reset when that, or data     *)
(* left unread at the close, made an error of it, which is reported once;  *)
(* and dead after that: a read returns no bytes, a write raises SIGPIPE.   *)
(***************************************************************************)
EXTENDS Naturals, Sequences

CONSTANTS MaxBatches,   \* bound: batches of points in one call
          MaxRequests   \* bound: request ids given to updates
ASSUME IsolateAssumption == MaxBatches \in Nat \ {0} /\ MaxRequests \in Nat

VARIABLES mpc, ppc,          \* where the module and the proxy stand
          toProxy, toModule, \* packets under way
          msock, psock,      \* the ends of the socket
          next_request_id,   \* of the module
          first,             \* the first request id of the call
          left,              \* batches still to be sent
          failed,            \* the result of the call is -1
          serving,           \* the request the proxy works on
          privmap,           \* the shared memory of the private map exists
          done               \* history: ids the proxy carried out
chan == <<toProxy, toModule, msock, psock>>
module == <<mpc, next_request_id, first, left, failed, privmap>>
proxy == <<ppc, serving, done>>
vars == <<chan, module, proxy>>

Packet(type, id, result) == [type |-> type, id |-> id, result |-> result]
Version == Packet("ver", 0, 0)

Init ==
  /\ mpc = "off" /\ ppc = "none" /\ toProxy = <<>> /\ toModule = <<>>
  /\ msock = "closed" /\ psock = "closed" /\ next_request_id = 0 /\ first = 0
  /\ left = 0 /\ failed = FALSE /\ serving = Version /\ privmap = FALSE /\ done = {}

\* What the peer of a closed socket is left with; what was sent before stays readable.
AfterClose(peer, unread) ==
  IF peer \notin {"open", "eof"} THEN peer ELSE IF unread # <<>> THEN "reset" ELSE "eof"
ModuleCloses ==
  /\ msock' = "closed" /\ toModule' = <<>> /\ psock' = AfterClose(psock, toModule)
  /\ UNCHANGED toProxy
ProxyCloses ==
  /\ psock' = "closed" /\ toProxy' = <<>> /\ msock' = AfterClose(msock, toProxy)
  /\ UNCHANGED toModule
-----------------------------------------------------------------------------
(***************************************************************************)
(* The module's end of the protocol.                                       *)
(***************************************************************************)
\* A write succeeds, fails, or raises SIGPIPE, which ends the module.
ModuleWrites(packet, sent, lost) ==
  \/ /\ msock = "open" /\ mpc' = sent /\ toProxy' = Append(toProxy, packet)
     /\ UNCHANGED <<toModule, msock, psock>>
  \/ msock = "eof" /\ mpc' = sent /\ msock' = "reset" /\ UNCHANGED <<toProxy, toModule, psock>>
  \/ msock = "reset" /\ mpc' = lost /\ msock' = "dead" /\ UNCHANGED <<toProxy, toModule, psock>>
  \/ msock \in {"reset", "dead"} /\ mpc' = "killed" /\ ModuleCloses
Request(type, sent, lost) ==
  /\ ModuleWrites(Packet(type, next_request_id, 0), sent, lost)
  /\ next_request_id' = next_request_id + 1
Unsent == msock \in {"reset", "dead"}

\* A read brings a packet, or the error of the socket.  At the end of the stream it brings
\* no bytes and is tried again, for ever: no step.
ReadsPacket ==
  toModule # <<>> /\ toModule' = Tail(toModule) /\ UNCHANGED <<toProxy, msock, psock>>
Interrupted == UNCHANGED chan                 \* mutant: EINTR is an error too
ReadFails ==
  toModule = <<>> /\ msock = "reset" /\ msock' = "dead" /\ UNCHANGED <<toProxy, toModule, psock>>
Receives == ReadsPacket \/ ReadFails
\* check_rep_packet, for the id that was given out last.
AnyReply(packet, type) == TRUE                \* mutant: whatever comes is the reply
Answers(packet, type) == packet.type = type /\ packet.id = next_request_id - 1
Succeeded(type) == toModule # <<>> /\ Answers(Head(toModule), type) /\ Head(toModule).result = 0
-----------------------------------------------------------------------------
(***************************************************************************)
(* The module: plc_init.                                                   *)
(***************************************************************************)
LaunchProxy ==
  /\ mpc = "off" /\ mpc' = "accept" /\ ppc' = "connect"
  /\ UNCHANGED <<chan, next_request_id, first, left, failed, privmap, serving, done>>

\* accept, and the answer to the proxy's request for a protocol version.
Accept ==
  /\ mpc = "accept" /\ toModule # <<>> /\ mpc' = "conf" /\ toModule' = Tail(toModule)
  /\ \/ msock = "open" /\ toProxy' = Append(toProxy, Head(toModule)) /\ UNCHANGED msock
     \/ msock # "open" /\ msock' = "reset" /\ UNCHANGED toProxy
  /\ UNCHANGED <<psock, next_request_id, first, left, failed, privmap, proxy>>

AttachConf ==
  /\ mpc = "conf" /\ mpc' = "map"
  /\ UNCHANGED <<chan, next_request_id, first, left, failed, privmap, proxy>>

CreatePrivmap ==
  /\ mpc = "map" /\ privmap' = TRUE /\ mpc' = "init"
  /\ UNCHANGED <<chan, next_request_id, first, left, failed, proxy>>

\* gmm_init_error calls gmm_done, which does nothing for a gmm not fully initialised.
InitError ==
  /\ mpc \in {"conf", "map", "mask"} /\ mpc' = "failed"
  /\ UNCHANGED <<chan, next_request_id, first, left, failed, privmap, proxy>>

SendInit ==
  /\ mpc = "init" /\ Request("init", "initWait", "failed")
  /\ UNCHANGED <<first, left, failed, privmap, proxy>>
RecvInit ==
  /\ mpc = "initWait" /\ Receives
  /\ mpc' = IF Succeeded("init") THEN "mask" ELSE "failed"
  /\ UNCHANGED <<next_request_id, first, left, failed, privmap, proxy>>

\* gmm_init_mapmask and the rest of plc_init: when that fails, plc_done closes the gmm.
InitEnds ==
  /\ mpc = "mask" /\ mpc' \in {"up", "closing"}
  /\ UNCHANGED <<chan, next_request_id, first, left, failed, privmap, proxy>>
-----------------------------------------------------------------------------
(***************************************************************************)
(* The module: updates, and its end.                                       *)
(***************************************************************************)
\* plc_update and plc_update_pt are one request, plc_update_pts is one for every batch.
Update ==
  /\ mpc = "up" /\ next_request_id + MaxBatches <= MaxRequests /\ mpc' = "batch"
  /\ left' \in 1 .. MaxBatches /\ failed' = FALSE /\ first' = next_request_id
  /\ UNCHANGED <<chan, next_request_id, privmap, proxy>>

\* A batch that fails is passed over.
SendBatch ==
  /\ mpc = "batch" /\ left > 0 /\ left' = left - 1 /\ Request("update", "updateWait", "batch")
  /\ failed' = (failed \/ Unsent)
  /\ UNCHANGED <<first, privmap, proxy>>
RecvBatch ==
  /\ mpc = "updateWait" /\ Receives /\ mpc' = "batch"
  /\ failed' = (failed \/ ~Succeeded("update"))
  /\ UNCHANGED <<next_request_id, first, left, privmap, proxy>>
UpdateEnds ==
  /\ mpc = "batch" /\ left = 0 /\ mpc' = "up"
  /\ UNCHANGED <<chan, next_request_id, first, left, failed, privmap, proxy>>

\* plc_done, between two calls or in the handler of SIGTERM in the middle of one.
BeginDone ==
  /\ mpc \in {"up", "batch", "updateWait"} /\ mpc' = "closing"
  /\ UNCHANGED <<chan, next_request_id, first, left, failed, privmap, proxy>>
SendDone ==
  /\ mpc = "closing" /\ Request("done", "doneWait", "doneWait")
  /\ failed' = Unsent /\ first' = next_request_id
  /\ UNCHANGED <<left, privmap, proxy>>
RecvDone ==
  /\ mpc = "doneWait" /\ Receives /\ mpc' = "close" /\ failed' = (failed \/ ~Succeeded("done"))
  /\ UNCHANGED <<next_request_id, first, left, privmap, proxy>>
CloseGmm ==
  /\ mpc = "close" /\ mpc' = "closed" /\ ModuleCloses /\ privmap' = FALSE
  /\ UNCHANGED <<next_request_id, first, left, failed, proxy>>

\* A module whose plc_init failed leaves, and any module can be killed; SIGTERM during
\* plc_done is such an end, the nested gmm_done finds nothing to do.
FailedExits == mpc = "failed" /\ msock # "closed" /\ ModuleCloses /\ UNCHANGED <<module, proxy>>
ModuleKilled ==
  /\ mpc \notin {"off", "closed", "failed", "killed"} /\ mpc' = "killed" /\ ModuleCloses
  /\ UNCHANGED <<next_request_id, first, left, failed, privmap, proxy>>
-----------------------------------------------------------------------------
(***************************************************************************)
(* The proxy.                                                              *)
(***************************************************************************)
ProxyConnects ==
  /\ ppc = "connect" /\ mpc = "accept" /\ ppc' = "negotiate"
  /\ psock' = "open" /\ msock' = "open" /\ toModule' = <<Version>>
  /\ UNCHANGED <<toProxy, module, serving, done>>
\* The parent waits in accept all the same.
ProxyConnectFails ==
  /\ ppc = "connect" /\ ppc' = "gone" /\ UNCHANGED <<chan, module, serving, done>>

\* The version came; plc_done undoes what the parent had set up before the fork.
ProxyNegotiated ==
  /\ ppc = "negotiate" /\ toProxy # <<>> /\ toProxy' = Tail(toProxy) /\ ppc' = "serve"
  /\ UNCHANGED <<toModule, msock, psock, module, serving, done>>
ProxyGivesUp ==
  /\ ppc = "negotiate" /\ toProxy = <<>> /\ psock = "reset" /\ ppc' = "gone" /\ ProxyCloses
  /\ UNCHANGED <<module, serving, done>>

ProxyReceives ==
  /\ ppc = "serve" /\ toProxy # <<>> /\ toProxy' = Tail(toProxy)
  /\ serving' = Head(toProxy) /\ ppc' = "work"
  /\ UNCHANGED <<toModule, msock, psock, module, done>>
\* The error of the socket: handle_requests goes on.
ProxyReceiveFails ==
  /\ ppc = "serve" /\ toProxy = <<>> /\ psock = "reset" /\ psock' = "dead"
  /\ UNCHANGED <<toProxy, toModule, msock, module, proxy>>

\* plc_init, plc_update..., or plc_done of the local module the proxy is.
ProxyWorks ==
  /\ ppc = "work" /\ ppc' = "reply"
  /\ \E r \in {0, 1} :
       /\ serving' = [serving EXCEPT !.result = r]
       /\ done' = IF r = 0 THEN done \cup {serving.id} ELSE done
  /\ UNCHANGED <<chan, module>>

Stays == FALSE                                \* mutant: handle_done returns as the others do
Exits == serving.type = "done"
\* handle_done exits once its reply is sent; everything else goes on.
ProxyReplies ==
  /\ ppc = "reply"
  /\ \/ /\ psock \in {"open", "eof"} /\ Exits /\ ppc' = "gone"
        /\ psock' = "closed" /\ toProxy' = <<>>
        /\ toModule' = IF psock = "open" THEN Append(toModule, serving) ELSE toModule
        /\ msock' = AfterClose(msock, toProxy)
     \/ /\ psock = "open" /\ ~Exits /\ ppc' = "serve"
        /\ toModule' = Append(toModule, serving) /\ UNCHANGED <<toProxy, msock, psock>>
     \/ /\ psock = "eof" /\ ~Exits /\ ppc' = "serve" /\ psock' = "reset"
        /\ UNCHANGED <<toProxy, toModule, msock>>
     \/ /\ psock = "reset" /\ ppc' = "serve" /\ psock' = "dead"
        /\ UNCHANGED <<toProxy, toModule, msock>>
     \/ psock \in {"reset", "dead"} /\ ppc' = "gone" /\ ProxyCloses
  /\ UNCHANGED <<module, serving, done>>

ProxyKilled ==
  /\ ppc \notin {"none", "gone"} /\ ppc' = "gone" /\ ProxyCloses
  /\ UNCHANGED <<module, serving, done>>
-----------------------------------------------------------------------------
ModuleStep ==
  \/ Accept \/ AttachConf \/ CreatePrivmap \/ SendInit \/ RecvInit \/ InitEnds
  \/ SendBatch \/ RecvBatch \/ UpdateEnds \/ SendDone \/ RecvDone \/ CloseGmm
ProxyStep ==
  \/ ProxyConnects \/ ProxyNegotiated \/ ProxyGivesUp \/ ProxyReceives
  \/ ProxyReceiveFails \/ ProxyWorks \/ ProxyReplies
Next ==
  \/ ModuleStep \/ ProxyStep \/ LaunchProxy \/ InitError \/ Update \/ BeginDone
  \/ FailedExits \/ ModuleKilled \/ ProxyConnectFails \/ ProxyKilled

\* Two processes that are scheduled; what the caller or a signal does has no fairness.
Spec == Init /\ [][Next]_vars /\ WF_vars(ModuleStep) /\ WF_vars(ProxyStep)
-----------------------------------------------------------------------------
(***************************************************************************)
(* Properties.                                                             *)
(***************************************************************************)
MStates == {"off", "accept", "conf", "map", "init", "initWait", "mask", "up", "batch",
            "updateWait", "closing", "doneWait", "close", "closed", "failed", "killed"}
PStates == {"none", "connect", "negotiate", "serve", "work", "reply", "gone"}
Ids == 0 .. MaxRequests + 1
Packets == [type : {"ver", "init", "update", "done"}, id : Ids, result : {0, 1}]

\* The variables have their types; never are two packets under way in one direction but
\* for the done request of an interrupted call, which follows the request of that call.
TypeOK ==
  /\ mpc \in MStates /\ ppc \in PStates
  /\ toProxy \in Seq(Packets) /\ Len(toProxy) <= 2
  /\ toModule \in Seq(Packets) /\ Len(toModule) <= 2
  /\ {msock, psock} \subseteq {"closed", "open", "eof", "reset", "dead"}
  /\ next_request_id \in 0 .. MaxRequests + 2 /\ first \in 0 .. MaxRequests + 1
  /\ left \in 0 .. MaxBatches /\ {failed, privmap} \subseteq BOOLEAN
  /\ serving \in Packets /\ done \subseteq Ids

\* When plc_update_pts or plc_done returns 0 (gmm_isolate.c:123, 324), the proxy carried out
\* every request of the call: a reply to an earlier request, which a call that SIGTERM
\* interrupted leaves behind, is never taken for one of this call.
SuccessIsTrue ==
  ~failed /\ (mpc \in {"close", "closed"} \/ (mpc = "batch" /\ next_request_id > first))
    => first .. next_request_id - 1 \subseteq done

\* Between two calls nothing is under way and the proxy is idle, also after batches that
\* failed: the replies of the next call are its own.
InStep ==
  mpc = "up" => toModule = <<>> /\ toProxy = <<>> /\ ppc \notin {"work", "reply"}

\* A call that waits for the proxy (protocol.c:250-257) comes to an end while the proxy
\* lives: when it died the module may read the end of the stream for ever.  And no proxy
\* outlives the plc_done of its module, in whatever call SIGTERM found it.
Waits == mpc \in {"initWait", "updateWait", "doneWait"}
NobodyWaitsForEver ==
  /\ Waits ~> ~Waits \/ ppc = "gone"
  /\ mpc = "closed" ~> ppc = "gone"

\* gmm_isolate.c:139: "This function must be 'atomic', i.e. it should either setup all the
\* memory areas and semaphores correctly or not do anything at all."
InitAtomic == mpc = "failed" => ~privmap
=============================================================================
