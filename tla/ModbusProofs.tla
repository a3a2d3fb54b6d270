----------------------------- MODULE ModbusProofs -----------------------------
(***************************************************************************)
(* Theorems of ModbusMaster and ModbusSlave together, for any numbers of   *)
(* connections, nodes, retries, operations and transaction ids.            *)
(***************************************************************************)
EXTENDS ModbusSlave, FiniteSetTheorems, FunctionTheorems, SequenceTheorems, WellFoundedInduction, TLAPS

(***************************************************************************)
(* Types.                                                                  *)
(***************************************************************************)
Asked == [fn : Fn, unit : Unit, addr : Addr]
Queries == [fn : Fn, unit : Unit, addr : Addr \cup {0}, id : Int, n : Ops \cup {0}]
Frames == [kind : {"answer", "exception", "echo"}, fn : Fn, unit : Unit,
           addr : Addr \cup {NoConn}, id : Int, n : Ops \cup {0}]
Far == {"none", "backlog", "open", "closed"}
Links == [up : Seq(Queries), down : Seq(Frames), open : BOOLEAN, far : Far]
Nodes == [kind : {"free", "listen", "slave"}, conn : Conn \cup {NoConn}]

MasterTyped ==
  /\ medium \in {"bus", "echo", "tcp"} /\ phase \in {"idle", "send", "read"}
  /\ n \in Ops \cup {0} /\ tries \in 0 .. Retries + 1 /\ next_id \in 0 .. TxIds - 1
  /\ conn \in Conn \cup {NoConn} /\ first \in BOOLEAN
  /\ phase # "idle" => n \in Ops /\ op \in Asked
LinksTyped == link \in [Conn -> Links]
SlaveTyped == node \in [Node -> Nodes] /\ nd \in Node \cup {NoNode}

(***************************************************************************)
(* The connection of the master carries one query at a time, or the answer *)
(* to it: before the next query the answer was read, or the connection was *)
(* closed.                                                                 *)
(***************************************************************************)
Own(s) == s = <<>> \/ (Len(s) = 1 /\ s[1].n = n /\ s[1].unit = op.unit)
OneUnderWay ==
  /\ phase = "read" /\ ~Serial => conn # NoConn
  /\ Serial => conn = NoConn
  /\ conn # NoConn => /\ link[conn].far # "none"
                      /\ Own(link[conn].up) /\ Own(link[conn].down)
                      /\ link[conn].up = <<>> \/ link[conn].down = <<>>
                      /\ phase # "read" => link[conn].up = <<>> /\ link[conn].down = <<>>
  /\ \A c \in Conn : link[c].far = "none" =>
       ~link[c].open /\ link[c].up = <<>> /\ link[c].down = <<>>

(***************************************************************************)
(* The table of nodes: a node with a connection is a slave's and the only  *)
(* one that has it, and every connection the slave holds has a node.  What *)
(* the loop reads next is never the node that listens.                     *)
(***************************************************************************)
FreeNodes == {i \in Node : node[i].kind = "free"}
TableSound ==
  /\ \A i \in Node : node[i].conn # NoConn =>
       node[i].kind = "slave" /\ link[node[i].conn].far = "open"
  /\ \A i, j \in Node : node[i].conn = node[j].conn /\ node[i].conn # NoConn => i = j
  /\ \A c \in Conn : link[c].far = "open" => \E i \in Node : node[i].conn = c
  /\ free_node_count = Cardinality(FreeNodes)
  /\ nd # NoNode => node[nd].kind = "slave"

Typed == MasterTyped /\ LinksTyped /\ SlaveTyped
IInv == Typed /\ OneUnderWay /\ TableSound

(***************************************************************************)
(* The lowest of a set of numbers is one of them.                          *)
(***************************************************************************)
LEMMA LeastIn ==
  ASSUME NEW X \in SUBSET Nat, X # {}
  PROVE  Least(X) \in X
<1>1. PICK x \in X : \A y \in X : ~ (<<y, x>> \in OpToRel(<, Nat))
  BY WFMin, NatLessThanWellFounded
<1>2. ASSUME NEW y \in X PROVE x <= y
  <2>1. x \in Nat /\ y \in Nat
    OBVIOUS
  <2>2. <<y, x>> \in Nat \X Nat /\ ~ (<<y, x>> \in OpToRel(<, Nat))
    BY <1>1
  <2>3. ~(y < x)
    BY <2>2, Zenon DEF OpToRel
  <2> QED BY <2>1, <2>3
<1> QED BY <1>2 DEF Least

LEMMA Numbers == Conn \subseteq Nat /\ NoConn \notin Conn /\ Node \subseteq Nat /\ NoNode \notin Node
BY ModbusAssumption, SlaveAssumption DEF Conn, NoConn, Node, NoNode

(***************************************************************************)
(* What a step does to the connections: it leaves them alone, or changes   *)
(* one of them.                                                            *)
(***************************************************************************)
Changed(c, up, down, far) ==
  /\ link' \in [Conn -> Links]
  /\ \A d \in Conn \ {c} : link'[d] = link[d]
  /\ link'[c].up = up /\ link'[c].down = down /\ link'[c].far = far

LEMMA LinkChanged ==
  ASSUME LinksTyped, NEW c \in Conn, NEW l \in Links, link' = [link EXCEPT ![c] = l]
  PROVE  Changed(c, l.up, l.down, l.far)
<1>1. link'[c] = l /\ \A d \in Conn \ {c} : link'[d] = link[d]
  BY DEF LinksTyped
<1>2. link' \in [Conn -> Links]
  BY DEF LinksTyped
<1> QED BY <1>1, <1>2 DEF Changed

\* The fields of a connection one of whose ends did something.
LEMMA LinkFields ==
  ASSUME NEW l \in Links
  PROVE  /\ l.up \in Seq(Queries) /\ l.down \in Seq(Frames) /\ l.far \in Far
         /\ LET m == [l EXCEPT !.open = FALSE]
            IN m \in Links /\ m.up = l.up /\ m.down = l.down /\ m.far = l.far
         /\ LET m == [l EXCEPT !.up = <<>>, !.far = "closed"]
            IN m \in Links /\ m.up = <<>> /\ m.down = l.down /\ m.far = "closed"
         /\ \A f \in Far :
              LET m == [l EXCEPT !.far = f]
              IN m \in Links /\ m.up = l.up /\ m.down = l.down /\ m.far = f
         /\ \A x \in Seq(Frames) :
              LET m == [l EXCEPT !.down = x]
              IN m \in Links /\ m.up = l.up /\ m.down = x /\ m.far = l.far
         /\ \A x \in Seq(Queries) :
              LET m == [l EXCEPT !.up = x]
              IN m \in Links /\ m.up = x /\ m.down = l.down /\ m.far = l.far
         /\ \A x \in Seq(Queries), y \in Seq(Frames) :
              LET m == [l EXCEPT !.up = x, !.down = y]
              IN m \in Links /\ m.up = x /\ m.down = y /\ m.far = l.far
<1>1. "closed" \in Far /\ <<>> \in Seq(Queries)
  BY DEF Far
<1> QED BY <1>1 DEF Links

LEMMA Requested ==
  ASSUME NEW l \in Links
  PROVE  LET m == [l EXCEPT !.open = TRUE, !.far = "backlog"]
         IN m \in Links /\ m.up = l.up /\ m.down = l.down /\ m.far = "backlog"
BY DEF Links, Far

\* Closing an end changes nothing that the other can see of the queues.
LEMMA EndCloses ==
  ASSUME LinksTyped, NEW c \in Conn, link' = [link EXCEPT ![c].open = FALSE]
  PROVE  Changed(c, link[c].up, link[c].down, link[c].far)
<1> DEFINE l == [link[c] EXCEPT !.open = FALSE]
<1>1. link' = [link EXCEPT ![c] = l]
  OBVIOUS
<1>2. l \in Links /\ l.up = link[c].up /\ l.down = link[c].down /\ l.far = link[c].far
  BY LinkFields DEF LinksTyped
<1> HIDE DEF l
<1>3. Changed(c, l.up, l.down, l.far)
  BY <1>1, <1>2, LinkChanged
<1> QED BY <1>2, <1>3

LEMMA SlaveShuts ==
  ASSUME LinksTyped, NEW c \in Conn, link' = Shut(c)
  PROVE  Changed(c, <<>>, link[c].down, "closed")
<1> DEFINE l == [link[c] EXCEPT !.up = <<>>, !.far = "closed"]
<1>1. link' = [link EXCEPT ![c] = l]
  BY DEF Shut
<1>2. l \in Links /\ l.up = <<>> /\ l.down = link[c].down /\ l.far = "closed"
  BY LinkFields DEF LinksTyped
<1> HIDE DEF l
<1>3. Changed(c, l.up, l.down, l.far)
  BY <1>1, <1>2, LinkChanged
<1> QED BY <1>2, <1>3

\* What is sent and answered are queries and frames.
LEMMA QueryTyped ==
  ASSUME MasterTyped, phase = "send"
  PROVE  Query(next_id) \in Queries /\ Query(next_id).n = n /\ Query(next_id).unit = op.unit
BY ModbusAssumption DEF MasterTyped, Asked, Query, Queries

LEMMA ReplyTyped ==
  ASSUME NEW q \in Queries, NEW kind \in {"answer", "exception"}
  PROVE  Reply(q, kind) \in Frames /\ Reply(q, kind).n = q.n /\ Reply(q, kind).unit = q.unit
BY DEF Reply, Queries, Frames, NoConn

LEMMA QueueSteps ==
  ASSUME NEW S, NEW q \in Seq(S)
  PROVE  /\ <<>> \in Seq(S)
         /\ \A x \in S : Append(q, x) \in Seq(S)
         /\ q # <<>> => Tail(q) \in Seq(S) /\ Head(q) \in S /\ Head(q) = q[1]
OBVIOUS

LEMMA Single ==
  ASSUME NEW S, NEW s \in Seq(S), Len(s) = 1
  PROVE  Tail(s) = <<>> /\ Head(s) = s[1]
<1>1. s # <<>> /\ Head(s) = s[1]
  OBVIOUS
<1>2. Tail(s) \in Seq(S) /\ Len(Tail(s)) = 0
  BY <1>1, HeadTailProperties
<1> QED BY <1>1, <1>2, EmptySeq

\* modbus_write of the master: over its connection, or over a new one.
LEMMA TcpWriteLink ==
  ASSUME Typed, TcpWrite
  PROVE  \E c \in Conn :
           /\ IF conn # NoConn THEN c = conn ELSE link[c].far = "none"
           /\ conn' = c
           /\ Changed(c, IF link[c].far = "closed" THEN link[c].up
                         ELSE Append(link[c].up, Query(next_id)),
                      link[c].down, IF conn = NoConn THEN "backlog" ELSE link[c].far)
<1>1. PICK c \in Conn :
        /\ IF conn # NoConn THEN c = conn ELSE c \in Fresh /\ \A d \in Fresh : c <= d
        /\ conn' = c
        /\ link' = [link EXCEPT ![c] =
                     [up |-> IF @.far = "closed" THEN @.up ELSE Append(@.up, Query(next_id)),
                      down |-> @.down, open |-> TRUE,
                      far |-> IF conn = NoConn THEN "backlog" ELSE @.far]]
  BY DEF TcpWrite
<1> DEFINE up == IF link[c].far = "closed" THEN link[c].up
                 ELSE Append(link[c].up, Query(next_id))
           far == IF conn = NoConn THEN "backlog" ELSE link[c].far
           l == [up |-> up, down |-> link[c].down, open |-> TRUE, far |-> far]
<1>2. Query(next_id) \in Queries
  BY QueryTyped DEF TcpWrite, Typed
<1>3. link[c] \in Links
  BY DEF Typed, LinksTyped
<1>4. up \in Seq(Queries) /\ link[c].down \in Seq(Frames) /\ far \in Far
  BY <1>2, <1>3, LinkFields, QueueSteps DEF Far
<1>5. link' = [link EXCEPT ![c] = l]
  BY <1>1
<1> HIDE DEF up, far
<1>6. l \in Links /\ l.up = up /\ l.down = link[c].down /\ l.far = far
  BY <1>4 DEF Links
<1> HIDE DEF l
<1>7. Changed(c, l.up, l.down, l.far)
  BY <1>5, <1>6, LinkChanged DEF Typed
<1>8. Changed(c, up, link[c].down, far)
  BY <1>6, <1>7
<1> QED BY <1>1, <1>8 DEF up, far, Fresh

\* modbus_read of the master takes the oldest frame.
LEMMA TcpReadLink ==
  ASSUME Typed, OneUnderWay, TcpRead
  PROVE  conn \in Conn /\ Changed(conn, link[conn].up, Tail(link[conn].down), link[conn].far)
<1>1. conn \in Conn
  BY DEF TcpRead, OneUnderWay, Typed, MasterTyped
<1>2. link[conn] \in Links /\ link[conn].down # <<>>
  BY <1>1 DEF Typed, LinksTyped, TcpRead
<1>3. Tail(link[conn].down) \in Seq(Frames)
  BY <1>2, LinkFields, QueueSteps
<1> DEFINE l == [link[conn] EXCEPT !.down = Tail(link[conn].down)]
<1>4. link' = [link EXCEPT ![conn] = l]
  BY DEF TcpRead
<1>5. /\ l \in Links /\ l.up = link[conn].up /\ l.down = Tail(link[conn].down)
      /\ l.far = link[conn].far
  BY <1>2, <1>3, LinkFields
<1> HIDE DEF l
<1>6. Changed(conn, l.up, l.down, l.far)
  BY <1>1, <1>4, <1>5, LinkChanged DEF Typed
<1> QED BY <1>1, <1>5, <1>6

\* What Silence, WriteFails and TcpFails do: they close the end of the master.
LEMMA MasterCloses ==
  ASSUME Typed, OneUnderWay, Silence \/ WriteFails \/ TcpFails
  PROVE  \/ link' = link
         \/ conn \in Conn /\ Changed(conn, link[conn].up, link[conn].down, link[conn].far)
<1>1. CASE WriteFails /\ conn = NoConn
  BY <1>1 DEF WriteFails
<1>2. CASE Silence \/ (WriteFails /\ conn # NoConn) \/ TcpFails
  <2>1. conn \in Conn
    BY <1>2 DEF Silence, TcpFails, OneUnderWay, Typed, MasterTyped
  <2>2. link' = [link EXCEPT ![conn].open = FALSE]
    BY <1>2 DEF Silence, WriteFails, TcpFails
  <2> QED BY <2>1, <2>2, EndCloses DEF Typed
<1> QED BY <1>1, <1>2

\* The oldest query of a connection leaves it, and its answer may go back.
LEMMA Answered ==
  ASSUME LinksTyped, NEW c \in Conn, NEW x \in Frames, link[c].up # <<>>,
         link' = [link EXCEPT ![c].up = Tail(@),
                              ![c].down = IF c = conn THEN Append(@, x) ELSE @]
  PROVE  \E down \in Seq(Frames) :
           /\ Changed(c, Tail(link[c].up), down, link[c].far)
           /\ down = IF c = conn THEN Append(link[c].down, x) ELSE link[c].down
<1> DEFINE down == IF c = conn THEN Append(link[c].down, x) ELSE link[c].down
<1>1. link[c] \in Links /\ link[c].up \in Seq(Queries) /\ link[c].down \in Seq(Frames)
  BY DEF LinksTyped, Links
<1>2. Tail(link[c].up) \in Seq(Queries) /\ down \in Seq(Frames)
  BY <1>1, QueueSteps
<1>3. /\ link'[c].up = Tail(link[c].up) /\ link'[c].down = down
      /\ link'[c].far = link[c].far
  BY <1>1 DEF LinksTyped, Links
<1>4. link'[c] \in Links
  BY <1>1, <1>2 DEF LinksTyped, Links
<1>5. \A d \in Conn \ {c} : link'[d] = link[d]
  BY DEF LinksTyped
<1>6. link' \in [Conn -> Links]
  BY <1>4 DEF LinksTyped
<1> QED BY <1>2, <1>3, <1>5, <1>6 DEF Changed

\* The slave answers the oldest query of a connection, or finds it reset.
LEMMA ServeLink ==
  ASSUME Typed, TableSound, Serve
  PROVE  \E i \in Node :
           LET c == node[i].conn IN
           /\ c \in Conn /\ nd' = i /\ link[c].up # <<>> /\ Head(link[c].up) \in Queries
           /\ \/ /\ UNCHANGED node
                 /\ \E down \in Seq(Frames) :
                      /\ Changed(c, Tail(link[c].up), down, link[c].far)
                      /\ IF c = conn
                         THEN \E kind \in {"answer", "exception"} :
                                down = Append(link[c].down, Reply(Head(link[c].up), kind))
                         ELSE down = link[c].down
              \/ /\ Changed(c, <<>>, link[c].down, "closed")
                 /\ node' = [node EXCEPT ![i].conn = NoConn]
<1>1. PICK i \in Node :
        /\ Readable(i) /\ link[node[i].conn].up # <<>> /\ nd' = i
        /\ \/ /\ UNCHANGED node
              /\ \E kind \in {"answer", "exception"} :
                   link' = [link EXCEPT ![node[i].conn].up = Tail(@),
                     ![node[i].conn].down =
                        IF node[i].conn = conn
                        THEN Append(@, Reply(Head(link[node[i].conn].up), kind)) ELSE @]
           \/ link' = Shut(node[i].conn) /\ node' = [node EXCEPT ![i].conn = NoConn]
  BY DEF Serve
<1> DEFINE c == node[i].conn
           q == Head(link[c].up)
<1>2. c \in Conn
  BY <1>1 DEF Readable, Typed, SlaveTyped, Nodes
<1>3. link[c] \in Links
  BY <1>2 DEF Typed, LinksTyped
<1>4. q \in Queries /\ Tail(link[c].up) \in Seq(Queries) /\ link[c].down \in Seq(Frames)
  BY <1>1, <1>3, LinkFields, QueueSteps
<1>5. CASE link' = Shut(c) /\ node' = [node EXCEPT ![i].conn = NoConn]
  BY <1>1, <1>2, <1>4, <1>5, SlaveShuts DEF Typed
<1>6. ASSUME NEW kind \in {"answer", "exception"}, UNCHANGED node,
             link' = [link EXCEPT ![c].up = Tail(@),
                       ![c].down = IF c = conn THEN Append(@, Reply(q, kind)) ELSE @]
      PROVE  \E down \in Seq(Frames) :
               /\ Changed(c, Tail(link[c].up), down, link[c].far)
               /\ IF c = conn THEN down = Append(link[c].down, Reply(q, kind))
                  ELSE down = link[c].down
  <2>1. Reply(q, kind) \in Frames
    BY <1>4, ReplyTyped
  <2>2. LinksTyped /\ link[c].up # <<>>
    BY <1>1 DEF Typed
  <2> HIDE DEF c, q
  <2>3. \E down \in Seq(Frames) :
          /\ Changed(c, Tail(link[c].up), down, link[c].far)
          /\ down = IF c = conn THEN Append(link[c].down, Reply(q, kind)) ELSE link[c].down
    BY <1>2, <1>6, <2>1, <2>2, Answered
  <2> QED BY <2>3
<1>7. CASE UNCHANGED node /\ \E kind \in {"answer", "exception"} :
             link' = [link EXCEPT ![c].up = Tail(@),
                       ![c].down = IF c = conn THEN Append(@, Reply(q, kind)) ELSE @]
  BY <1>1, <1>2, <1>4, <1>6, <1>7
<1> QED BY <1>1, <1>5, <1>7

\* A node is read next only when it is ready; one that listens is never read twice.
LEMMA ReadyNode ==
  ASSUME Typed, TableSound, NEW i \in Node, Selected(i), node[i].kind = "listen"
  PROVE  i \in Ready /\ Backlog # {} /\ free_node_count > 0
<1>1. nd = NoNode
  BY DEF Selected, TableSound
<1>2. Ready \subseteq Nat /\ Ready # {} /\ i = Least(Ready)
  BY <1>1, Numbers DEF Selected, Ready
<1>3. i \in Ready
  BY <1>2, LeastIn
<1> QED BY <1>3 DEF Ready

LEMMA OldestRequest ==
  ASSUME Backlog # {}
  PROVE  Least(Backlog) \in Conn /\ link[Least(Backlog)].far = "backlog"
<1>1. Backlog \subseteq Nat
  BY Numbers DEF Backlog
<1>2. Least(Backlog) \in Backlog
  BY <1>1, LeastIn
<1> QED BY <1>2 DEF Backlog

\* A connection is accepted: the oldest request gets a free node.
LEMMA AcceptLink ==
  ASSUME Typed, TableSound, AcceptConnection
  PROVE  \E c \in Conn, f \in FreeNodes :
           /\ link[c].far = "backlog" /\ Changed(c, link[c].up, link[c].down, "open")
           /\ node' = [node EXCEPT ![f] = [kind |-> "slave", conn |-> c]]
<1>1. PICK i \in Node : Selected(i) /\ node[i].kind = "listen"
  BY DEF AcceptConnection
<1> DEFINE c == Least(Backlog)
           f == Least(FreeNodes)
           l == [link[c] EXCEPT !.far = "open"]
<1>2. c \in Conn /\ link[c].far = "backlog"
  BY <1>1, ReadyNode, OldestRequest
<1>3. FreeNodes \subseteq Nat
  BY Numbers DEF FreeNodes
<1>4. FreeNodes # {}
  <2>1. free_node_count > 0 /\ free_node_count = Cardinality(FreeNodes)
    BY <1>1, ReadyNode DEF TableSound
  <2> QED BY <2>1, FS_EmptySet
<1>5. f \in FreeNodes
  BY <1>3, <1>4, LeastIn
<1>6. link' = [link EXCEPT ![c] = l] /\ node' = [node EXCEPT ![f] = [kind |-> "slave", conn |-> c]]
  BY DEF AcceptConnection, FreeNodes
<1> HIDE DEF c, f
<1>7. l \in Links /\ l.up = link[c].up /\ l.down = link[c].down /\ l.far = "open"
  <2>1. link[c] \in Links
    BY <1>2 DEF Typed, LinksTyped
  <2>2. "open" \in Far
    BY DEF Far
  <2> QED BY <2>1, <2>2, LinkFields
<1> HIDE DEF l
<1>8. Changed(c, l.up, l.down, l.far)
  BY <1>2, <1>6, <1>7, LinkChanged DEF Typed
<1>9. Changed(c, link[c].up, link[c].down, "open")
  BY <1>7, <1>8
<1> QED BY <1>2, <1>5, <1>6, <1>9

\* The slave closes the socket of a request, or of a node that it frees.
LEMMA ShutLink ==
  ASSUME Typed, TableSound, AcceptFails \/ Refuse \/ EndOfStream
  PROVE  \E c \in Conn :
           /\ Changed(c, <<>>, link[c].down, "closed")
           /\ \/ link[c].far = "backlog" /\ UNCHANGED slave
              \/ \E i \in Node : node[i].conn = c /\ NodeFreed(i) /\ nd' = NoNode
<1>1. CASE AcceptFails
  <2>1. PICK i \in Node : Selected(i) /\ node[i].kind = "listen"
    BY <1>1 DEF AcceptFails
  <2> DEFINE c == Least(Backlog)
  <2>2. c \in Conn /\ link[c].far = "backlog"
    BY <2>1, ReadyNode, OldestRequest
  <2>3. link' = Shut(c) /\ UNCHANGED slave
    BY <1>1 DEF AcceptFails
  <2> HIDE DEF c
  <2> QED BY <2>2, <2>3, SlaveShuts DEF Typed
<1>2. CASE Refuse \/ EndOfStream
  <2>1. PICK i \in Node : Readable(i) /\ CloseNode(i) /\ nd' = NoNode
    BY <1>2 DEF Refuse, EndOfStream
  <2> DEFINE c == node[i].conn
  <2>2. c \in Conn
    BY <2>1 DEF Readable, Typed, SlaveTyped, Nodes
  <2>3. link' = Shut(c) /\ NodeFreed(i)
    BY <2>1 DEF CloseNode
  <2>4. Changed(c, <<>>, link[c].down, "closed")
    BY <2>2, <2>3, SlaveShuts DEF Typed
  <2> QED BY <2>1, <2>2, <2>3, <2>4
<1> QED BY <1>1, <1>2

\* The other masters change nothing on the connection of ours, and open no node.
LEMMA PeerLink ==
  ASSUME Typed, OneUnderWay, PeerStep
  PROVE  \E c \in Conn :
           \E up \in Seq(Queries), far \in Far \ {"none"} :
              /\ c # conn /\ Changed(c, up, link[c].down, far)
              /\ far = link[c].far \/ (far = "backlog" /\ link[c].far = "none")
<1>1. CASE PeerConnect
  <2> DEFINE c == Least(Fresh)
             l == [NoLink EXCEPT !.open = TRUE, !.far = "backlog"]
  <2>1. c \in Conn /\ link[c].far = "none"
    BY <1>1, Numbers, LeastIn DEF PeerConnect, Fresh
  <2>2. c # conn /\ link[c].up = <<>> /\ link[c].down = <<>>
    BY <2>1, Numbers DEF OneUnderWay
  <2>3. link' = [link EXCEPT ![c] = l]
    BY <1>1 DEF PeerConnect
  <2> HIDE DEF c
  <2>4. l \in Links /\ l.up = <<>> /\ l.down = <<>> /\ l.far = "backlog"
    <3>1. <<>> \in Seq(Queries) /\ <<>> \in Seq(Frames) /\ "backlog" \in Far
      BY DEF Far
    <3>2. NoLink \in Links /\ NoLink.up = <<>> /\ NoLink.down = <<>>
      BY <3>1 DEF NoLink, Links, Far
    <3> QED BY <3>1, <3>2, Requested
  <2> HIDE DEF l
  <2>5. Changed(c, l.up, l.down, l.far)
    BY <2>1, <2>3, <2>4, LinkChanged DEF Typed
  <2>6. Changed(c, <<>>, link[c].down, "backlog") /\ <<>> \in Seq(Queries)
    BY <2>2, <2>4, <2>5
  <2> QED BY <2>1, <2>2, <2>6 DEF Far
<1>2. ASSUME NEW c \in Conn, NEW u \in Unit, PeerAsks(c, u)
      PROVE  \E up \in Seq(Queries) : /\ c # conn /\ link[c].open
                                      /\ Changed(c, up, link[c].down, link[c].far)
  <2> DEFINE q == [fn |-> "read", unit |-> u, addr |-> 0, id |-> 0, n |-> 0]
             l == [link[c] EXCEPT !.up = <<q>>]
  <2>1. link' = [link EXCEPT ![c] = l] /\ c # conn /\ link[c].open
    BY <1>2 DEF PeerAsks, Foreign
  <2>2. q \in Queries
    BY DEF Queries, Fn
  <2>3. <<q>> \in Seq(Queries)
    BY <2>2
  <2> HIDE DEF q
  <2>4. l \in Links /\ l.up = <<q>> /\ l.down = link[c].down /\ l.far = link[c].far
    BY <2>3, LinkFields DEF Typed, LinksTyped
  <2> HIDE DEF l
  <2>5. Changed(c, l.up, l.down, l.far)
    BY <2>1, <2>4, LinkChanged DEF Typed
  <2> QED BY <2>1, <2>3, <2>4, <2>5
<1>3. ASSUME NEW c \in Conn, PeerCloses(c)
      PROVE  /\ c # conn /\ link[c].open
             /\ Changed(c, link[c].up, link[c].down, link[c].far)
  BY <1>3, EndCloses DEF PeerCloses, Foreign, Typed
<1>4. \A c \in Conn : link[c].open => link[c].far \in Far \ {"none"}
  BY DEF OneUnderWay, Typed, LinksTyped, Links
<1>5. \A c \in Conn : link[c].up \in Seq(Queries)
  BY DEF Typed, LinksTyped, Links
<1> QED BY <1>1, <1>2, <1>3, <1>4, <1>5 DEF PeerStep
-----------------------------------------------------------------------------
(***************************************************************************)
(* The types, step by step.                                                *)
(***************************************************************************)
\* How the reading of a frame ends: another try, an error, or the answer.
LEMMA Judged ==
  ASSUME NEW f, Judge(f)
  PROVE  Again("INVALID_FRAME") \/ \E code : Finish(code, f)
BY DEF Judge

LEMMA Ended ==
  ASSUME MasterTyped, phase # "idle", NEW code, NEW f, Again(code) \/ Finish(code, f)
  PROVE  /\ phase' \in {"idle", "send"} /\ tries' \in 0 .. Retries + 1
         /\ UNCHANGED <<n, op>>
BY ModbusAssumption DEF MasterTyped, Again, Finish

LEMMA MasterTypedNext ==
  ASSUME Typed, [Next]_vars
  PROVE  MasterTyped'
<1> SUFFICES ASSUME Next PROVE MasterTyped'
  BY DEF vars, master, Typed, MasterTyped
<1> USE ModbusAssumption
<1>1. CASE SlaveStep \/ PeerStep
  <2>1. UNCHANGED <<medium, master>>
    BY <1>1 DEF SlaveStep, PeerStep, AcceptConnection, AcceptFails, Serve, Refuse, EndOfStream,
                ReadFails, PeerConnect, PeerAsks, PeerCloses, OnlyTcp
  <2> QED BY <2>1 DEF master, Typed, MasterTyped
<1>2. ASSUME NEW fn \in Fn, NEW u \in Unit, NEW a \in Addr, Begin(fn, u, a)
      PROVE  MasterTyped'
  BY <1>2 DEF Begin, Typed, MasterTyped, Asked
<1>3. CASE Silence
  BY <1>3 DEF Silence, Typed, MasterTyped
<1>4. CASE SerialWrite
  BY <1>4 DEF SerialWrite, NextId, Typed, MasterTyped
<1>5. CASE TcpWrite
  BY <1>5 DEF TcpWrite, NextId, Typed, MasterTyped
<1>6. CASE WriteFails
  <2>1. /\ phase' \in {"idle", "send"} /\ tries' \in 0 .. Retries + 1
        /\ UNCHANGED <<n, op>>
    BY <1>6, Ended DEF WriteFails, Typed
  <2> QED BY <1>6, <2>1 DEF WriteFails, NextId, Typed, MasterTyped
<1>7. CASE Skip \/ (\E u \in Unit : Device(u))
  BY <1>7 DEF Skip, Device, master, Typed, MasterTyped
<1>8. CASE SerialRead \/ TcpRead
  <2>1. /\ phase' \in {"idle", "send"} /\ tries' \in 0 .. Retries + 1
        /\ UNCHANGED <<n, op>>
    BY <1>8, Judged, Ended DEF SerialRead, TcpRead, Typed
  <2> QED BY <1>8, <2>1 DEF SerialRead, TcpRead, Typed, MasterTyped
<1>9. CASE SerialTimeout \/ TcpFails
  <2>1. /\ phase' \in {"idle", "send"} /\ tries' \in 0 .. Retries + 1
        /\ UNCHANGED <<n, op>>
    BY <1>9, Ended DEF SerialTimeout, TcpFails, Typed
  <2> QED BY <1>9, <2>1 DEF SerialTimeout, TcpFails, Typed, MasterTyped
<1> QED BY <1>1, <1>2, <1>3, <1>4, <1>5, <1>6, <1>7, <1>8, <1>9
        DEF Next, MasterOrDevice, MasterNext, MasterStep

\* The steps of the master that leave its connections alone.
LEMMA LinkKept ==
  ASSUME \/ \E fn \in Fn, u \in Unit, a \in Addr : Begin(fn, u, a)
         \/ SerialWrite \/ Skip \/ SerialRead \/ SerialTimeout \/ ReadFails
         \/ \E u \in Unit : Device(u)
  PROVE  UNCHANGED link
BY DEF Begin, SerialWrite, Skip, SerialRead, SerialTimeout, ReadFails, Device, wire

LEMMA LinksTypedNext ==
  ASSUME Typed, OneUnderWay, TableSound, [Next]_vars
  PROVE  LinksTyped'
<1>1. CASE UNCHANGED link
  BY <1>1 DEF Typed, LinksTyped
<1>2. ASSUME NEW c \in Conn, NEW up, NEW down, NEW far, Changed(c, up, down, far)
      PROVE  LinksTyped'
  BY <1>2 DEF Changed, LinksTyped
<1>3. CASE TcpWrite
  BY <1>2, <1>3, TcpWriteLink
<1>4. CASE TcpRead
  BY <1>2, <1>4, TcpReadLink
<1>5. CASE Silence \/ WriteFails \/ TcpFails
  BY <1>1, <1>2, <1>5, MasterCloses
<1>6. CASE Serve
  BY <1>2, <1>6, ServeLink
<1>7. CASE AcceptConnection
  BY <1>2, <1>7, AcceptLink
<1>8. CASE AcceptFails \/ Refuse \/ EndOfStream
  BY <1>2, <1>8, ShutLink
<1>9. CASE PeerStep
  BY <1>2, <1>9, PeerLink
<1> QED BY <1>1, <1>3, <1>4, <1>5, <1>6, <1>7, <1>8, <1>9, LinkKept
        DEF Next, MasterOrDevice, MasterNext, MasterStep, SlaveStep, vars, wire

LEMMA SlaveTypedNext ==
  ASSUME Typed, OneUnderWay, TableSound, [Next]_vars
  PROVE  SlaveTyped'
<1>1. CASE UNCHANGED slave
  BY <1>1 DEF slave, Typed, SlaveTyped
<1>2. CASE AcceptConnection
  <2>1. PICK c \in Conn, f \in FreeNodes : node' = [node EXCEPT ![f] = [kind |-> "slave", conn |-> c]]
    BY <1>2, AcceptLink
  <2>2. [kind |-> "slave", conn |-> c] \in Nodes
    BY DEF Nodes
  <2> QED BY <1>2, <2>1, <2>2 DEF AcceptConnection, FreeNodes, Typed, SlaveTyped
<1>3. CASE Refuse \/ EndOfStream
  <2>1. PICK i \in Node : NodeFreed(i) /\ nd' = NoNode
    BY <1>3 DEF Refuse, EndOfStream, CloseNode
  <2>2. FreeNode \in Nodes
    BY DEF FreeNode, Nodes
  <2> QED BY <2>1, <2>2 DEF NodeFreed, Typed, SlaveTyped
<1>4. CASE Serve
  <2>1. PICK i \in Node : nd' = i /\ (UNCHANGED node \/ node' = [node EXCEPT ![i].conn = NoConn])
    BY <1>4, ServeLink
  <2>2. [node[i] EXCEPT !.conn = NoConn] \in Nodes
    BY DEF Typed, SlaveTyped, Nodes
  <2> QED BY <2>1, <2>2 DEF Typed, SlaveTyped
<1>5. CASE ReadFails
  BY <1>5 DEF ReadFails, Typed, SlaveTyped
<1>6. CASE AcceptFails \/ PeerStep
  BY <1>1, <1>6 DEF AcceptFails, PeerStep, PeerConnect, PeerAsks, PeerCloses
<1> QED BY <1>1, <1>2, <1>3, <1>4, <1>5, <1>6 DEF Next, MasterOrDevice, SlaveStep, vars
-----------------------------------------------------------------------------
(***************************************************************************)
(* One query under way.                                                    *)
(***************************************************************************)
\* What a step of the slave or of another master may do on our connection.
Allowed(up, down) ==
  /\ Own(up) /\ Own(down)
  /\ up = <<>> \/ down = <<>>
  /\ phase # "read" => up = <<>> /\ down = <<>>

LEMMA UnderWayKept ==
  ASSUME Typed, OneUnderWay, UNCHANGED <<medium, master>>,
         NEW c \in Conn, NEW up, NEW down, NEW far, Changed(c, up, down, far),
         far # "none", c = conn => Allowed(up, down)
  PROVE  OneUnderWay'
<1>1. \A d \in Conn \ {c} : link'[d] = link[d]
  BY DEF Changed
<1>2. link'[c].up = up /\ link'[c].down = down /\ link'[c].far = far
  BY DEF Changed
<1>3. conn' = conn /\ n' = n /\ op' = op /\ phase' = phase /\ Serial' = Serial
  BY DEF master, Serial
<1>4. conn \in Conn \cup {NoConn}
  BY DEF Typed, MasterTyped
<1>5. CASE c = conn
  <2>1. Allowed(link'[c].up, link'[c].down)
    BY <1>2, <1>5
  <2>2. Own(link[conn].up)' /\ Own(link[conn].down)'
    <3>1. Own(link'[c].up) /\ Own(link'[c].down)
      BY <2>1 DEF Allowed
    <3>2. Own(link[c].up)' /\ Own(link[c].down)'
      BY <1>3, <3>1 DEF Own
    <3>3. c = conn'
      BY <1>3, <1>5
    <3> HIDE <1>5
    <3> QED BY <3>2, <3>3
  <2>3. /\ link'[conn].up = <<>> \/ link'[conn].down = <<>>
        /\ phase # "read" => link'[conn].up = <<>> /\ link'[conn].down = <<>>
        /\ link'[conn].far # "none"
    BY <1>2, <1>5, <2>1 DEF Allowed
  <2>4. \A d \in Conn : link'[d].far = "none" =>
          ~link'[d].open /\ link'[d].up = <<>> /\ link'[d].down = <<>>
    BY <1>1, <1>2 DEF OneUnderWay
  <2>5. /\ phase = "read" /\ ~Serial => conn # NoConn
        /\ Serial => conn = NoConn
    BY DEF OneUnderWay
  <2> QED BY <1>3, <2>2, <2>3, <2>4, <2>5 DEF OneUnderWay
<1>6. CASE c # conn
  BY <1>1, <1>2, <1>3, <1>4, <1>6 DEF OneUnderWay, Own
<1> QED BY <1>5, <1>6

LEMMA SlaveKeepsMaster ==
  ASSUME SlaveStep \/ PeerStep
  PROVE  UNCHANGED <<medium, master>>
BY DEF SlaveStep, PeerStep, AcceptConnection, AcceptFails, Serve, Refuse, EndOfStream,
       ReadFails, PeerConnect, PeerAsks, PeerCloses, OnlyTcp

LEMMA UnderWaySlave ==
  ASSUME Typed, OneUnderWay, TableSound, SlaveStep \/ PeerStep
  PROVE  OneUnderWay'
<1>0. UNCHANGED <<medium, master>>
  BY SlaveKeepsMaster
<1>1. CASE AcceptConnection
  <2>1. PICK c \in Conn : Changed(c, link[c].up, link[c].down, "open")
    BY <1>1, AcceptLink
  <2>2. c = conn => Allowed(link[c].up, link[c].down)
    BY Numbers DEF OneUnderWay, Allowed
  <2> QED BY <1>0, <2>1, <2>2, UnderWayKept
<1>2. CASE AcceptFails \/ Refuse \/ EndOfStream
  <2>1. PICK c \in Conn : Changed(c, <<>>, link[c].down, "closed")
    BY <1>2, ShutLink
  <2>2. c = conn => Allowed(<<>>, link[c].down)
    BY Numbers DEF OneUnderWay, Allowed, Own
  <2> QED BY <1>0, <2>1, <2>2, UnderWayKept
<1>3. CASE Serve
  <2>1. PICK i \in Node :
          /\ node[i].conn \in Conn /\ link[node[i].conn].up # <<>>
          /\ Head(link[node[i].conn].up) \in Queries
          /\ \/ \E down \in Seq(Frames) :
                  /\ Changed(node[i].conn, Tail(link[node[i].conn].up), down, link[node[i].conn].far)
                  /\ IF node[i].conn = conn
                     THEN \E kind \in {"answer", "exception"} :
                            down = Append(link[conn].down, Reply(Head(link[conn].up), kind))
                     ELSE down = link[node[i].conn].down
             \/ Changed(node[i].conn, <<>>, link[node[i].conn].down, "closed")
    BY <1>3, ServeLink
  <2> DEFINE c == node[i].conn
  <2>2. CASE Changed(c, <<>>, link[c].down, "closed")
    <3>1. c = conn => Allowed(<<>>, link[c].down)
      BY <2>1, Numbers DEF OneUnderWay, Allowed, Own
    <3> QED BY <1>0, <2>1, <2>2, <3>1, UnderWayKept
  <2>3. ASSUME NEW down \in Seq(Frames), Changed(c, Tail(link[c].up), down, link[c].far),
               IF c = conn THEN \E kind \in {"answer", "exception"} :
                                  down = Append(link[conn].down, Reply(Head(link[conn].up), kind))
               ELSE down = link[c].down
        PROVE  OneUnderWay'
    <3>1. link[c].far # "none"
      BY <2>1 DEF OneUnderWay
    <3>2. ASSUME c = conn PROVE Allowed(Tail(link[c].up), down)
      <4>1. PICK kind \in {"answer", "exception"} :
              down = Append(link[conn].down, Reply(Head(link[conn].up), kind))
        BY <2>3, <3>2
      <4>2. /\ Len(link[c].up) = 1 /\ link[c].up[1].n = n /\ link[c].up[1].unit = op.unit
            /\ link[c].down = <<>> /\ phase = "read"
        BY <2>1, <3>2, Numbers DEF OneUnderWay, Own
      <4>3. link[c].up \in Seq(Queries)
        BY <2>1 DEF Typed, LinksTyped, Links
      <4>4. Tail(link[c].up) = <<>> /\ Head(link[c].up) = link[c].up[1]
        BY <4>2, <4>3, Single
      <4>5. /\ Reply(Head(link[c].up), kind).n = n
            /\ Reply(Head(link[c].up), kind).unit = op.unit
        BY <2>1, <4>2, <4>4, ReplyTyped
      <4>6. Len(down) = 1 /\ down[1] = Reply(Head(link[c].up), kind)
        BY <3>2, <4>1, <4>2
      <4> QED BY <4>2, <4>4, <4>5, <4>6 DEF Allowed, Own
    <3> QED BY <1>0, <2>1, <2>3, <3>1, <3>2, UnderWayKept
  <2> QED BY <2>1, <2>2, <2>3
<1>4. CASE PeerStep
  <2>1. PICK c \in Conn :
           \E up \in Seq(Queries), far \in Far \ {"none"} :
              c # conn /\ Changed(c, up, link[c].down, far)
    BY <1>4, PeerLink
  <2> QED BY <1>0, <2>1, UnderWayKept
<1>5. CASE ReadFails
  BY <1>0, <1>5, LinkKept DEF OneUnderWay, Own, Serial, master
<1> QED BY <1>1, <1>2, <1>3, <1>4, <1>5 DEF SlaveStep

LEMMA UnderWayMaster ==
  ASSUME Typed, OneUnderWay, TableSound, MasterNext
  PROVE  OneUnderWay'
<1>0. Serial' = Serial /\ conn \in Conn \cup {NoConn}
  BY DEF MasterNext, MasterStep, Begin, Silence, SerialWrite, TcpWrite, WriteFails, Skip,
         SerialRead, TcpRead, SerialTimeout, TcpFails, Device, Serial, Typed, MasterTyped
<1>1. ASSUME NEW fn \in Fn, NEW u \in Unit, NEW a \in Addr, Begin(fn, u, a)
      PROVE  OneUnderWay'
  BY <1>0, <1>1 DEF Begin, OneUnderWay, Own, wire
<1>2. CASE Silence \/ WriteFails \/ TcpFails
  <2>1. conn' = NoConn /\ phase' # "read"
    <3>1. CASE Silence
      BY <1>2, <3>1 DEF Silence
    <3>2. CASE WriteFails \/ TcpFails
      <4>1. phase' \in {"idle", "send"}
        BY <3>2, Ended DEF WriteFails, TcpFails, Typed
      <4> QED BY <3>2, <4>1 DEF WriteFails, TcpFails
    <3> QED BY <1>2, <3>1, <3>2
  <2>2. CASE link' = link
    BY <1>0, <2>1, <2>2 DEF OneUnderWay
  <2>3. CASE conn \in Conn /\ Changed(conn, link[conn].up, link[conn].down, link[conn].far)
    <3>1. \A d \in Conn \ {conn} : link'[d] = link[d]
      BY <2>3 DEF Changed
    <3>2. link'[conn].far # "none"
      BY <2>3, Numbers DEF Changed, OneUnderWay
    <3> QED BY <1>0, <2>1, <2>3, <3>1, <3>2 DEF OneUnderWay
  <2> QED BY <1>2, <2>2, <2>3, MasterCloses
<1>3. CASE SerialWrite \/ Skip \/ SerialRead \/ SerialTimeout \/ (\E u \in Unit : Device(u))
  <2>1. Serial /\ UNCHANGED <<conn, link>>
    BY <1>3, LinkKept DEF SerialWrite, Skip, SerialRead, SerialTimeout, Device, master
  <2> QED BY <1>0, <2>1 DEF OneUnderWay
<1>4. CASE TcpWrite
  <2>1. PICK c \in Conn :
           /\ IF conn # NoConn THEN c = conn ELSE link[c].far = "none"
           /\ conn' = c
           /\ Changed(c, IF link[c].far = "closed" THEN link[c].up
                         ELSE Append(link[c].up, Query(next_id)),
                      link[c].down, IF conn = NoConn THEN "backlog" ELSE link[c].far)
    BY <1>4, TcpWriteLink
  <2>2. UNCHANGED <<n, op>> /\ phase' = "read" /\ phase = "send" /\ ~Serial
    BY <1>4 DEF TcpWrite
  <2>3. link[c].up = <<>> /\ link[c].down = <<>>
    BY <2>1, <2>2 DEF OneUnderWay
  <2>4. link'[c].up \in {<<>>, <<Query(next_id)>>} /\ link'[c].down = <<>>
    BY <2>1, <2>3 DEF Changed
  <2>5. link'[c].far # "none"
    <3>1. CASE conn = NoConn
      BY <2>1, <3>1 DEF Changed
    <3>2. CASE conn # NoConn
      BY <2>1, <3>2 DEF Changed, OneUnderWay
    <3> QED BY <3>1, <3>2
  <2>6. Query(next_id).n = n /\ Query(next_id).unit = op.unit
    BY <2>2, QueryTyped DEF Typed
  <2>7. Own(link[c].up)'
    <3>1. CASE link'[c].up = <<>>
      BY <3>1 DEF Own
    <3>2. CASE link'[c].up = <<Query(next_id)>>
      <4>1. Len(link'[c].up) = 1 /\ link'[c].up[1] = Query(next_id)
        BY <3>2
      <4> QED BY <2>2, <2>6, <4>1 DEF Own
    <3> QED BY <2>4, <3>1, <3>2
  <2>8. \A d \in Conn \ {c} : link'[d] = link[d]
    BY <2>1 DEF Changed
  <2>9. c # NoConn
    BY Numbers
  <2>10. Own(link[c].down)'
    BY <2>4 DEF Own
  <2>11. \A d \in Conn : link'[d].far = "none" =>
           ~link'[d].open /\ link'[d].up = <<>> /\ link'[d].down = <<>>
    BY <2>5, <2>8 DEF OneUnderWay
  <2> QED BY <1>0, <2>1, <2>2, <2>4, <2>5, <2>7, <2>9, <2>10, <2>11 DEF OneUnderWay
<1>5. CASE TcpRead
  <2>1. /\ conn \in Conn
        /\ Changed(conn, link[conn].up, Tail(link[conn].down), link[conn].far)
    BY <1>5, TcpReadLink
  <2>2. conn' = conn /\ link[conn].down # <<>> /\ phase = "read" /\ ~Serial
    BY <1>5 DEF TcpRead
  <2>3. phase' \in {"idle", "send"} /\ UNCHANGED <<n, op>>
    BY <1>5, Judged, Ended DEF TcpRead, Typed
  <2>4. link[conn].up = <<>> /\ Len(link[conn].down) = 1 /\ link[conn].far # "none"
    BY <2>1, <2>2, Numbers DEF OneUnderWay, Own
  <2>5. link[conn].down \in Seq(Frames)
    BY <2>1 DEF Typed, LinksTyped, Links
  <2>6. Tail(link[conn].down) = <<>>
    BY <2>4, <2>5, Single
  <2>7. link'[conn].up = <<>> /\ link'[conn].down = <<>> /\ link'[conn].far # "none"
    BY <2>1, <2>4, <2>6 DEF Changed
  <2>8. \A d \in Conn \ {conn} : link'[d] = link[d]
    BY <2>1 DEF Changed
  <2> QED BY <1>0, <2>1, <2>2, <2>3, <2>7, <2>8 DEF OneUnderWay, Own
<1> QED BY <1>1, <1>2, <1>3, <1>4, <1>5 DEF MasterNext, MasterStep
-----------------------------------------------------------------------------
(***************************************************************************)
(* The table of nodes.                                                     *)
(***************************************************************************)
LEMMA FreeFinite == IsFiniteSet(FreeNodes) /\ Cardinality(FreeNodes) \in Nat
<1>1. IsFiniteSet(Node)
  BY SlaveAssumption, FS_Interval DEF Node
<1>2. IsFiniteSet(FreeNodes)
  BY <1>1, FS_Subset DEF FreeNodes
<1> QED BY <1>2, FS_CardinalityType

\* Steps that leave the slave alone and neither open nor close a connection of its.
LEMMA TableKept ==
  ASSUME Typed, TableSound, UNCHANGED node, free_node_count' = free_node_count,
         nd' \in {nd, NoNode} \/ (nd' \in Node /\ node[nd'].kind = "slave"),
         \A c \in Conn : (link'[c].far = "open") <=> (link[c].far = "open")
  PROVE  TableSound'
<1>1. \A i \in Node : node[i].conn \in Conn \cup {NoConn}
  BY DEF Typed, SlaveTyped, Nodes
<1>2. \A i \in Node : node'[i].conn # NoConn =>
        node'[i].kind = "slave" /\ link'[node'[i].conn].far = "open"
  BY <1>1 DEF TableSound
<1>3. \A c \in Conn : link'[c].far = "open" => \E i \in Node : node'[i].conn = c
  BY DEF TableSound
<1>4. free_node_count' = Cardinality(FreeNodes)'
  BY DEF TableSound, FreeNodes
<1>5. nd' # NoNode => node'[nd'].kind = "slave"
  BY DEF TableSound
<1>6. \A i, j \in Node : node'[i].conn = node'[j].conn /\ node'[i].conn # NoConn => i = j
  BY DEF TableSound
<1> QED BY <1>2, <1>3, <1>4, <1>5, <1>6 DEF TableSound

LEMMA TableMaster ==
  ASSUME Typed, OneUnderWay, TableSound, MasterOrDevice
  PROVE  TableSound'
<1>1. UNCHANGED <<node, free_node_count, nd>>
  BY DEF MasterOrDevice, slave
<1>2. ASSUME NEW c \in Conn, NEW up, NEW down, NEW far, Changed(c, up, down, far),
             (far = "open") <=> (link[c].far = "open")
      PROVE  TableSound'
  BY <1>1, <1>2, TableKept DEF Changed
<1>3. CASE UNCHANGED link
  BY <1>1, <1>3, TableKept
<1>4. CASE TcpWrite
  <2>1. PICK c \in Conn : \E up, far :
          /\ Changed(c, up, link[c].down, far)
          /\ far = link[c].far \/ (far = "backlog" /\ link[c].far = "none")
    BY <1>4, TcpWriteLink
  <2>2. PICK up, far :
          /\ Changed(c, up, link[c].down, far)
          /\ far = link[c].far \/ (far = "backlog" /\ link[c].far = "none")
    BY <2>1
  <2> QED BY <1>2, <2>2
<1>5. CASE TcpRead
  BY <1>2, <1>5, TcpReadLink
<1>6. CASE Silence \/ WriteFails \/ TcpFails
  BY <1>2, <1>3, <1>6, MasterCloses
<1> QED BY <1>3, <1>4, <1>5, <1>6, LinkKept DEF MasterOrDevice, MasterNext, MasterStep

LEMMA TablePeer ==
  ASSUME Typed, OneUnderWay, TableSound, PeerStep
  PROVE  TableSound'
<1>1. PICK c \in Conn :
        \E up \in Seq(Queries), far \in Far \ {"none"} :
           /\ c # conn /\ Changed(c, up, link[c].down, far)
           /\ far = link[c].far \/ (far = "backlog" /\ link[c].far = "none")
  BY PeerLink
<1>2. \A d \in Conn : (link'[d].far = "open") <=> (link[d].far = "open")
  BY <1>1 DEF Changed
<1>3. UNCHANGED <<node, free_node_count, nd>>
  BY DEF PeerStep, PeerConnect, PeerAsks, PeerCloses, slave
<1> QED BY <1>2, <1>3, TableKept

LEMMA TableAccept ==
  ASSUME Typed, TableSound, AcceptConnection
  PROVE  TableSound'
<1>1. PICK c \in Conn, f \in FreeNodes :
        /\ link[c].far = "backlog" /\ Changed(c, link[c].up, link[c].down, "open")
        /\ node' = [node EXCEPT ![f] = [kind |-> "slave", conn |-> c]]
  BY AcceptLink
<1>2. f \in Node /\ node[f].kind = "free"
  BY DEF FreeNodes
<1>3. node'[f] = [kind |-> "slave", conn |-> c] /\ \A j \in Node \ {f} : node'[j] = node[j]
  BY <1>1, <1>2 DEF Typed, SlaveTyped
<1>4. \A i \in Node : node[i].conn \in Conn \cup {NoConn}
  BY DEF Typed, SlaveTyped, Nodes
<1>5. link'[c].far = "open" /\ \A d \in Conn \ {c} : link'[d] = link[d]
  BY <1>1 DEF Changed
<1>6. \A i \in Node : node[i].conn # c
  BY <1>1, Numbers DEF TableSound
<1>7. node[f].conn = NoConn
  BY <1>2 DEF TableSound
<1>8. FreeNodes' = FreeNodes \ {f}
  BY <1>3 DEF FreeNodes
<1>9. free_node_count' = Cardinality(FreeNodes)'
  BY <1>8, FreeFinite, FS_RemoveElement DEF TableSound, AcceptConnection
<1>10. nd' # NoNode => node'[nd'].kind = "slave"
  BY <1>2, <1>3 DEF TableSound, AcceptConnection, Typed, SlaveTyped
<1>11. \A i \in Node : node'[i].conn # NoConn =>
         node'[i].kind = "slave" /\ link'[node'[i].conn].far = "open"
  BY <1>3, <1>4, <1>5, <1>6 DEF TableSound
<1>12. \A i, j \in Node : node'[i].conn = node'[j].conn /\ node'[i].conn # NoConn => i = j
  BY <1>3, <1>6 DEF TableSound
<1>13. \A d \in Conn : link'[d].far = "open" => \E i \in Node : node'[i].conn = d
  BY <1>2, <1>3, <1>5, <1>7, Numbers DEF TableSound
<1> QED BY <1>9, <1>10, <1>11, <1>12, <1>13 DEF TableSound

LEMMA TableShut ==
  ASSUME Typed, TableSound, AcceptFails \/ Refuse \/ EndOfStream
  PROVE  TableSound'
<1>1. PICK c \in Conn :
        /\ Changed(c, <<>>, link[c].down, "closed")
        /\ \/ link[c].far = "backlog" /\ UNCHANGED slave
           \/ \E i \in Node : node[i].conn = c /\ NodeFreed(i) /\ nd' = NoNode
  BY ShutLink
<1>2. link'[c].far = "closed" /\ \A d \in Conn \ {c} : link'[d] = link[d]
  BY <1>1 DEF Changed
<1>3. CASE link[c].far = "backlog" /\ UNCHANGED slave
  BY <1>2, <1>3, TableKept DEF slave
<1>4. ASSUME NEW i \in Node, node[i].conn = c, NodeFreed(i), nd' = NoNode
      PROVE  TableSound'
  <2>1. /\ node'[i] = FreeNode /\ \A j \in Node \ {i} : node'[j] = node[j]
        /\ free_node_count' = free_node_count + 1
    BY <1>4 DEF NodeFreed, Typed, SlaveTyped
  <2>2. node[i].kind = "slave" /\ \A j \in Node \ {i} : node[j].conn # c
    BY <1>4, Numbers DEF TableSound
  <2>3. FreeNodes' = FreeNodes \cup {i} /\ i \notin FreeNodes
    BY <2>1, <2>2 DEF FreeNodes, FreeNode
  <2>4. free_node_count' = Cardinality(FreeNodes)'
    BY <2>1, <2>3, FreeFinite, FS_AddElement DEF TableSound
  <2>5. \A j \in Node : node'[j].conn # NoConn =>
          node'[j].kind = "slave" /\ link'[node'[j].conn].far = "open"
    <3> SUFFICES ASSUME NEW j \in Node, node'[j].conn # NoConn
                 PROVE  node'[j].kind = "slave" /\ link'[node'[j].conn].far = "open"
      OBVIOUS
    <3>1. j # i
      BY <2>1 DEF FreeNode
    <3>2. node'[j] = node[j] /\ node[j].conn \in Conn \ {c}
      BY <2>1, <2>2, <3>1 DEF Typed, SlaveTyped, Nodes
    <3> QED BY <1>2, <3>2 DEF TableSound
  <2>6. \A j, k \in Node : node'[j].conn = node'[k].conn /\ node'[j].conn # NoConn => j = k
    BY <2>1 DEF TableSound, FreeNode
  <2>7. \A d \in Conn : link'[d].far = "open" => \E j \in Node : node'[j].conn = d
    BY <1>2, <1>4, <2>1 DEF TableSound
  <2> QED BY <1>4, <2>4, <2>5, <2>6, <2>7 DEF TableSound
<1> QED BY <1>1, <1>3, <1>4

LEMMA TableServe ==
  ASSUME Typed, TableSound, Serve
  PROVE  TableSound'
<1>1. PICK i \in Node :
        /\ node[i].conn \in Conn /\ nd' = i
        /\ \/ /\ UNCHANGED node
              /\ \E up, down : Changed(node[i].conn, up, down, link[node[i].conn].far)
           \/ /\ \E up, down : Changed(node[i].conn, up, down, "closed")
              /\ node' = [node EXCEPT ![i].conn = NoConn]
  BY ServeLink
<1>2. free_node_count' = free_node_count
  BY DEF Serve
<1>3. node[i].kind = "slave" /\ \A j \in Node \ {i} : node[j].conn # node[i].conn
  BY <1>1, Numbers DEF TableSound
<1>4. CASE UNCHANGED node /\ \E up, down : Changed(node[i].conn, up, down, link[node[i].conn].far)
  BY <1>1, <1>2, <1>3, <1>4, TableKept DEF Changed
<1>5. CASE /\ \E up, down : Changed(node[i].conn, up, down, "closed")
           /\ node' = [node EXCEPT ![i].conn = NoConn]
  <2>1. /\ node'[i].kind = "slave" /\ node'[i].conn = NoConn
        /\ \A j \in Node \ {i} : node'[j] = node[j]
    BY <1>3, <1>5 DEF Typed, SlaveTyped, Nodes
  <2>2. /\ link'[node[i].conn].far = "closed"
        /\ \A d \in Conn \ {node[i].conn} : link'[d] = link[d]
    BY <1>5 DEF Changed
  <2>3. FreeNodes' = FreeNodes
    BY <1>3, <2>1 DEF FreeNodes
  <2>4. \A j \in Node : node'[j].conn # NoConn =>
          node'[j].kind = "slave" /\ link'[node'[j].conn].far = "open"
    <3> SUFFICES ASSUME NEW j \in Node, node'[j].conn # NoConn
                 PROVE  node'[j].kind = "slave" /\ link'[node'[j].conn].far = "open"
      OBVIOUS
    <3>1. j # i
      BY <2>1
    <3>2. node'[j] = node[j] /\ node[j].conn \in Conn \ {node[i].conn}
      BY <1>3, <2>1, <3>1 DEF Typed, SlaveTyped, Nodes
    <3> QED BY <2>2, <3>2 DEF TableSound
  <2>5. \A j, k \in Node : node'[j].conn = node'[k].conn /\ node'[j].conn # NoConn => j = k
    BY <2>1 DEF TableSound
  <2>6. \A d \in Conn : link'[d].far = "open" => \E j \in Node : node'[j].conn = d
    BY <2>1, <2>2 DEF TableSound
  <2> QED BY <1>1, <1>2, <2>1, <2>3, <2>4, <2>5, <2>6 DEF TableSound
<1> QED BY <1>1, <1>4, <1>5

LEMMA TableNext ==
  ASSUME IInv, [Next]_vars
  PROVE  TableSound'
<1>1. CASE MasterOrDevice
  BY <1>1, TableMaster DEF IInv
<1>2. CASE PeerStep
  BY <1>2, TablePeer DEF IInv
<1>3. CASE AcceptConnection
  BY <1>3, TableAccept DEF IInv
<1>4. CASE AcceptFails \/ Refuse \/ EndOfStream
  BY <1>4, TableShut DEF IInv
<1>5. CASE Serve
  BY <1>5, TableServe DEF IInv
<1>6. CASE ReadFails
  BY <1>6, TableKept DEF IInv, ReadFails
<1>7. CASE UNCHANGED vars
  BY <1>7, TableKept DEF IInv, vars, wire, slave
<1> QED BY <1>1, <1>2, <1>3, <1>4, <1>5, <1>6, <1>7 DEF Next, SlaveStep
-----------------------------------------------------------------------------
(***************************************************************************)
(* The invariant.                                                          *)
(***************************************************************************)
LEMMA Initially ==
  ASSUME Init
  PROVE  IInv /\ AnswersItsQuery
<1>1. MasterTyped
  <2>1. medium \in {"bus", "echo", "tcp"} /\ first \in BOOLEAN /\ phase = "idle"
    BY DEF Init, MasterInit
  <2>2. n = 0 /\ tries = 0 /\ next_id = 0 /\ conn = NoConn
    BY DEF Init, MasterInit
  <2> QED BY <2>1, <2>2, ModbusAssumption DEF MasterTyped
<1>2. LinksTyped
  <2>1. <<>> \in Seq(Queries) /\ <<>> \in Seq(Frames)
    OBVIOUS
  <2>2. NoLink \in Links
    BY <2>1 DEF NoLink, Links, Far
  <2> QED BY <2>2 DEF Init, MasterInit, LinksTyped
<1>3. SlaveTyped
  BY DEF Init, SlaveInit, SlaveTyped, Nodes, FreeNode
<1>4. OneUnderWay
  BY DEF Init, MasterInit, OneUnderWay, NoLink
<1>5. TableSound
  <2>1. \A i \in Node : node[i].conn = NoConn
    BY DEF Init, SlaveInit, FreeNode
  <2>2. \A c \in Conn : link[c].far = "none"
    BY DEF Init, MasterInit, NoLink
  <2>3. FreeNodes = 1 .. NodeCount - 1
    BY SlaveAssumption DEF Init, SlaveInit, FreeNodes, FreeNode, Node
  <2>4. Cardinality(FreeNodes) = NodeCount - 1
    BY <2>3, SlaveAssumption, FS_Interval
  <2> QED BY <2>1, <2>2, <2>4 DEF TableSound, Init, SlaveInit
<1>6. AnswersItsQuery
  BY DEF Init, MasterInit, NoResult, AnswersItsQuery
<1> QED BY <1>1, <1>2, <1>3, <1>4, <1>5, <1>6 DEF IInv, Typed

LEMMA Invariant ==
  ASSUME IInv, [Next]_vars
  PROVE  IInv'
<1>1. Typed'
  BY MasterTypedNext, LinksTypedNext, SlaveTypedNext DEF IInv, Typed
<1>2. OneUnderWay'
  <2>1. CASE UNCHANGED vars
    BY <2>1 DEF IInv, OneUnderWay, Own, Serial, vars, master, wire
  <2>2. CASE Next
    BY <2>2, UnderWayMaster, UnderWaySlave DEF IInv, Next, MasterOrDevice
  <2> QED BY <2>1, <2>2
<1> QED BY <1>1, <1>2, TableNext DEF IInv

\* Only a frame that was accepted makes an operation succeed.
LEMMA AnswersNext ==
  ASSUME IInv, AnswersItsQuery, [Next]_vars
  PROVE  AnswersItsQuery'
<1>0. ASSUME UNCHANGED <<medium, n, op>>, result' = result \/ result'.code # "OK"
      PROVE  AnswersItsQuery'
  BY <1>0 DEF AnswersItsQuery, Serial
<1>1. CASE UNCHANGED vars
  BY <1>0, <1>1 DEF vars, master
<1>2. CASE SlaveStep \/ PeerStep
  BY <1>0, <1>2, SlaveKeepsMaster DEF master
<1>3. ASSUME NEW fn \in Fn, NEW u \in Unit, NEW a \in Addr, Begin(fn, u, a)
      PROVE  AnswersItsQuery'
  BY <1>3 DEF Begin, NoResult, AnswersItsQuery
<1>4. CASE Silence \/ SerialWrite \/ TcpWrite \/ Skip \/ (\E u \in Unit : Device(u))
  BY <1>0, <1>4 DEF Silence, SerialWrite, TcpWrite, Skip, Device, master
<1>5. CASE WriteFails \/ TcpFails \/ SerialTimeout
  BY <1>0, <1>5 DEF WriteFails, TcpFails, SerialTimeout, Again, Finish
<1>6. ASSUME NEW f, Judge(f), UNCHANGED medium,
             ~Serial => f.n = n, medium # "bus" => f.unit = op.unit
      PROVE  AnswersItsQuery'
  <2>1. CASE Again("INVALID_FRAME")
    BY <1>0, <1>6, <2>1 DEF Again, Finish
  <2>2. ASSUME NEW code, Finish(code, f)
        PROVE  AnswersItsQuery'
    BY <1>6, <2>2 DEF Finish, AnswersItsQuery, Serial
  <2> QED BY <1>6, <2>1, <2>2, Judged
<1>7. CASE SerialRead
  BY <1>6, <1>7 DEF SerialRead, Accept, Serial
<1>8. CASE TcpRead
  <2>1. conn \in Conn /\ link[conn].down # <<>> /\ ~Serial /\ conn # NoConn
    BY <1>8, TcpReadLink, Numbers DEF IInv, TcpRead
  <2>2. link[conn].down \in Seq(Frames) /\ Own(link[conn].down)
    BY <2>1 DEF IInv, Typed, LinksTyped, Links, OneUnderWay
  <2>3. Head(link[conn].down) = link[conn].down[1]
    BY <2>1, <2>2, QueueSteps
  <2>4. Head(link[conn].down).n = n /\ Head(link[conn].down).unit = op.unit
    BY <2>1, <2>2, <2>3 DEF Own
  <2>5. Judge(Head(link[conn].down)) /\ UNCHANGED medium
    BY <1>8 DEF TcpRead
  <2> QED BY <1>6, <2>4, <2>5
<1> QED BY <1>1, <1>2, <1>3, <1>4, <1>5, <1>7, <1>8
        DEF Next, MasterOrDevice, MasterNext, MasterStep

LEMMA SpecInv == Spec => [](IInv /\ AnswersItsQuery)
<1>1. Init => IInv /\ AnswersItsQuery
  BY Initially
<1>2. IInv /\ AnswersItsQuery /\ [Next]_vars => (IInv /\ AnswersItsQuery)'
  BY Invariant, AnswersNext
<1> QED BY <1>1, <1>2, PTL DEF Spec

(***************************************************************************)
(* The types of the state, for every number of connections and nodes.      *)
(***************************************************************************)
THEOREM TypeCorrect == Spec => []TypeOK
<1>1. ASSUME IInv PROVE TypeOK
  <2>1. /\ \A c \in Conn : link[c].far \in Far
        /\ \A i \in Node : node[i] \in Nodes
    BY <1>1 DEF IInv, Typed, LinksTyped, SlaveTyped, Links
  <2>2. free_node_count \in 0 .. NodeCount
    <3>1. IsFiniteSet(Node) /\ Cardinality(Node) = NodeCount
      BY SlaveAssumption, FS_Interval DEF Node
    <3>2. FreeNodes \subseteq Node
      BY DEF FreeNodes
    <3>3. Cardinality(FreeNodes) <= NodeCount /\ Cardinality(FreeNodes) \in Nat
      BY <3>1, <3>2, FS_Subset, FreeFinite
    <3> QED BY <1>1, <3>3, SlaveAssumption DEF IInv, TableSound
  <2>3. MasterTyped /\ SlaveTyped
    BY <1>1 DEF IInv, Typed
  <2> QED BY <2>1, <2>2, <2>3 DEF TypeOK, MasterTyped, SlaveTyped, Far, Nodes
<1> QED BY <1>1, SpecInv, PTL

(***************************************************************************)
(* An operation over TCP that succeeds returned the answer to its own      *)
(* query, however often the transaction ids repeat.                        *)
(***************************************************************************)
THEOREM ResultIsItsAnswer == Spec => []AnswersItsQuery
BY SpecInv, PTL

(***************************************************************************)
(* No connection and no node of the slave is lost or shared, whatever the  *)
(* masters do and whichever steps of its loop fail.                        *)
(***************************************************************************)
THEOREM NodesHeld == Spec => []NodesAccounted
<1>1. ASSUME IInv PROVE NodesAccounted
  <2>1. ASSUME NEW c \in Conn
        PROVE  Cardinality({i \in Node : node[i].conn = c})
               = (IF link[c].far = "open" THEN 1 ELSE 0)
    <3> DEFINE H == {i \in Node : node[i].conn = c}
    <3>0. c # NoConn
      BY Numbers
    <3>1. CASE link[c].far = "open"
      <4>1. PICK i \in Node : node[i].conn = c
        BY <1>1, <3>1 DEF IInv, TableSound
      <4>3. \A j \in Node : node[j].conn = c => j = i
        BY <1>1, <3>0, <4>1 DEF IInv, TableSound
      <4>2. H = {i}
        BY <4>1, <4>3
      <4> QED BY <3>1, <4>2, FS_Singleton
    <3>2. CASE link[c].far # "open"
      <4>1. \A i \in Node : node[i].conn # NoConn => link[node[i].conn].far = "open"
        BY <1>1 DEF IInv, TableSound
      <4>2. H = {}
        BY <3>0, <3>2, <4>1
      <4> QED BY <3>2, <4>2, FS_EmptySet
    <3> QED BY <3>1, <3>2
  <2>2. \A i \in Node : node[i].kind # "slave" => node[i].conn = NoConn
    BY <1>1 DEF IInv, TableSound
  <2> QED BY <1>1, <2>1, <2>2 DEF NodesAccounted, IInv, TableSound, FreeNodes
<1> QED BY <1>1, SpecInv, PTL
-----------------------------------------------------------------------------
(***************************************************************************)
(* Queries.  Every query that a slave may still carry out is one of the    *)
(* tries of its operation: those it carried out, those that wait for it on *)
(* the line or on a connection, open or closed, and those that are left to *)
(* the master never exceed the tries an operation begins with.             *)
(***************************************************************************)
Waiting(D, f, k) == {z \in D \X (Nat \ {0}) : z[2] <= Len(f[z[1]]) /\ f[z[1]][z[2]].n = k}
OnLine(k) == Waiting(Unit, at, k)
Ups == [c \in Conn |-> link[c].up]
OnLinks(k) == Waiting(Conn, Ups, k)
Left == IF phase = "send" THEN tries ELSE IF phase = "read" THEN tries - 1 ELSE 0
Owed(k) == IF k > n THEN Retries + 1 ELSE IF k = n THEN Left ELSE 0
Within(k) ==
  /\ IsFiniteSet(OnLine(k)) /\ IsFiniteSet(OnLinks(k))
  /\ executed[k] + Cardinality(OnLine(k)) + Cardinality(OnLinks(k)) + Owed(k) <= Retries + 1
Budget ==
  /\ executed \in [Ops -> Nat] /\ at \in [Unit -> Seq(Queries)]
  /\ phase # "idle" => tries > 0
  /\ \A k \in Ops : Within(k)

\* A query joins one of the queues.
Adds(D, f, g, q) ==
  /\ f \in [D -> Seq(Queries)] /\ g \in [D -> Seq(Queries)] /\ q \in Queries
  /\ \E x \in D : g[x] = Append(f[x], q) /\ \A y \in D \ {x} : g[y] = f[y]

LEMMA QueueAdds ==
  ASSUME NEW D, NEW f, NEW g, NEW q, Adds(D, f, g, q), NEW k, IsFiniteSet(Waiting(D, f, k))
  PROVE  /\ IsFiniteSet(Waiting(D, g, k))
         /\ Cardinality(Waiting(D, g, k)) \in Nat
         /\ Cardinality(Waiting(D, g, k)) <= Cardinality(Waiting(D, f, k)) + (IF q.n = k THEN 1 ELSE 0)
<1>0. f \in [D -> Seq(Queries)] /\ g \in [D -> Seq(Queries)] /\ q \in Queries
  BY DEF Adds
<1>x. PICK x \in D : g[x] = Append(f[x], q) /\ \A y \in D \ {x} : g[y] = f[y]
  BY DEF Adds
<1> USE <1>0, <1>x
<1> DEFINE F == Waiting(D, f, k)
           G == Waiting(D, g, k)
           new == <<x, Len(f[x]) + 1>>
<1>1. /\ Len(f[x]) \in Nat /\ Len(g[x]) = Len(f[x]) + 1 /\ g[x][Len(f[x]) + 1] = q
      /\ \A j \in 1 .. Len(f[x]) : g[x][j] = f[x][j]
  BY AppendProperties, LenProperties
<1>2. ASSUME NEW z \in G, z # new PROVE z \in F
  <2>1. z \in D \X (Nat \ {0}) /\ z[2] <= Len(g[z[1]]) /\ g[z[1]][z[2]].n = k
    BY DEF Waiting
  <2>2. PICK y \in D, j \in Nat \ {0} : z = <<y, j>>
    BY <2>1
  <2>3. CASE y # x
    BY <2>1, <2>2, <2>3 DEF Waiting
  <2>4. CASE y = x
    <3>1. j # Len(f[x]) + 1
      BY <1>2, <2>2, <2>4
    <3>2. j \in 1 .. Len(f[x])
      BY <1>1, <2>1, <2>2, <2>4, <3>1
    <3>3. g[x][j].n = k /\ g[x][j] = f[x][j]
      BY <1>1, <2>1, <2>2, <2>4, <3>2
    <3>4. j <= Len(f[x]) /\ f[x][j].n = k
      BY <1>1, <3>2, <3>3
    <3>5. <<x, j>> \in D \X (Nat \ {0})
      OBVIOUS
    <3>6. QED
      BY <2>2, <2>4, <3>4, <3>5 DEF Waiting
  <2>5. QED
    BY <2>3, <2>4
<1>3. q.n # k => new \notin G
  BY <1>1 DEF Waiting
<1>4. Cardinality(F) \in Nat
  BY FS_CardinalityType
<1> HIDE DEF F, G, new
<1>5. CASE q.n = k
  <2>1. G \in SUBSET (F \cup {new})
    BY <1>2
  <2>2. IsFiniteSet(F \cup {new}) /\ Cardinality(F \cup {new}) <= Cardinality(F) + 1
    <3>1. IsFiniteSet(F)
      BY DEF F
    <3>2. /\ IsFiniteSet(F \cup {new})
          /\ Cardinality(F \cup {new}) = IF new \in F THEN Cardinality(F) ELSE Cardinality(F) + 1
      BY <3>1, FS_AddElement, Zenon
    <3>3. QED
      BY <1>4, <3>2
  <2>3. IsFiniteSet(G) /\ Cardinality(G) <= Cardinality(F \cup {new}) /\ Cardinality(G) \in Nat
    BY <2>1, <2>2, FS_Subset, FS_CardinalityType
  <2>4. Cardinality(F \cup {new}) \in Nat
    BY <2>2, FS_CardinalityType
  <2>5. QED
    BY <1>4, <1>5, <2>2, <2>3, <2>4 DEF F, G
<1>6. CASE q.n # k
  <2>1. G \in SUBSET F
    BY <1>2, <1>3, <1>6
  <2>2. IsFiniteSet(G) /\ Cardinality(G) <= Cardinality(F) /\ Cardinality(G) \in Nat
    BY <2>1, FS_Subset, FS_CardinalityType DEF F
  <2>3. QED
    BY <1>4, <1>6, <2>2 DEF F, G
<1>7. QED
  BY <1>5, <1>6

\* The oldest query of a queue leaves it: alone, or with the rest of the queue.
Loses(D, f, g, q) ==
  /\ f \in [D -> Seq(Queries)] /\ g \in [D -> Seq(Queries)]
  /\ \E x \in D : /\ f[x] # <<>> /\ q = Head(f[x]) /\ (g[x] = Tail(f[x]) \/ g[x] = <<>>)
                  /\ \A y \in D \ {x} : g[y] = f[y]

LEMMA QueueLoses ==
  ASSUME NEW D, NEW f, NEW g, NEW q, Loses(D, f, g, q), NEW k, IsFiniteSet(Waiting(D, f, k))
  PROVE  /\ IsFiniteSet(Waiting(D, g, k))
         /\ Cardinality(Waiting(D, g, k)) \in Nat
         /\ Cardinality(Waiting(D, g, k)) + (IF q.n = k THEN 1 ELSE 0) <= Cardinality(Waiting(D, f, k))
<1>0. f \in [D -> Seq(Queries)] /\ g \in [D -> Seq(Queries)]
  BY DEF Loses
<1>x. PICK x \in D : /\ f[x] # <<>> /\ q = Head(f[x]) /\ (g[x] = Tail(f[x]) \/ g[x] = <<>>)
                     /\ \A y \in D \ {x} : g[y] = f[y]
  BY DEF Loses
<1> USE <1>0, <1>x
<1> DEFINE F == Waiting(D, f, k)
           G == Waiting(D, g, k)
           old == <<x, 1>>
           shift == [z \in G |-> IF z[1] = x THEN <<x, z[2] + 1>> ELSE z]
<1>1. /\ Len(f[x]) \in Nat \ {0} /\ Head(f[x]) = f[x][1]
      /\ g[x] # <<>> => /\ Len(g[x]) = Len(f[x]) - 1
                        /\ \A j \in 1 .. Len(g[x]) : g[x][j] = f[x][j + 1]
  <2>1. f[x] \in Seq(Queries)
    OBVIOUS
  <2>2. Len(f[x]) \in Nat \ {0} /\ Head(f[x]) = f[x][1]
    BY <2>1, EmptySeq, QueueSteps
  <2>3. /\ Len(Tail(f[x])) = Len(f[x]) - 1
        /\ \A j \in 1 .. Len(Tail(f[x])) : Tail(f[x])[j] = f[x][j + 1]
    BY <2>1, HeadTailProperties
  <2>4. QED
    BY <2>2, <2>3
<1>2. ASSUME NEW z \in G PROVE shift[z] \in F \ {old}
  <2>1. PICK y \in D, j \in Nat \ {0} : z = <<y, j>> /\ j <= Len(g[y]) /\ g[y][j].n = k
    BY DEF Waiting
  <2>2. CASE y # x
    BY <2>1, <2>2 DEF Waiting
  <2>3. CASE y = x
    <3>1. g[x] # <<>>
      BY <2>1, <2>3
    <3>2. j \in 1 .. Len(g[x]) /\ j + 1 <= Len(f[x]) /\ f[x][j + 1].n = k /\ j + 1 # 1
      BY <1>1, <2>1, <2>3, <3>1
    <3>3. shift[z] = <<x, j + 1>>
      BY <2>1, <2>3
    <3>4. <<x, j + 1>> \in F
      BY <3>2 DEF Waiting
    <3>5. <<x, j + 1>> # old
      BY <3>2
    <3> HIDE DEF F, old, shift
    <3>6. QED
      BY <3>3, <3>4, <3>5
  <2>4. QED
    BY <2>2, <2>3
<1>3. ASSUME NEW z \in G, NEW w \in G, shift[z] = shift[w] PROVE z = w
  <2>1. PICK y \in D, j \in Nat : z = <<y, j>>
    BY DEF Waiting
  <2>2. PICK v \in D, i \in Nat : w = <<v, i>>
    BY DEF Waiting
  <2>3. /\ shift[z] = IF y = x THEN <<x, j + 1>> ELSE <<y, j>>
        /\ shift[w] = IF v = x THEN <<x, i + 1>> ELSE <<v, i>>
    BY <2>1, <2>2
  <2>4. QED
    BY <1>3, <2>1, <2>2, <2>3
<1>4. shift \in Injection(G, F \ {old})
  <2>1. shift \in [G -> F \ {old}]
    BY <1>2
  <2>2. \A z, w \in G : shift[z] = shift[w] => z = w
    BY <1>3
  <2>3. QED
    BY <2>1, <2>2, Fun_IsInj
<1>5. q.n = k => old \in F
  BY <1>1 DEF Waiting
<1> HIDE DEF F, G, shift, old
<1>6. /\ IsFiniteSet(F \ {old})
      /\ Cardinality(F \ {old}) = IF old \in F THEN Cardinality(F) - 1 ELSE Cardinality(F)
  BY FS_RemoveElement DEF F
<1>7. IsFiniteSet(G) /\ Cardinality(G) <= Cardinality(F \ {old})
  BY <1>4, <1>6, FS_Injection
<1>8. Cardinality(G) \in Nat /\ Cardinality(F) \in Nat /\ Cardinality(F \ {old}) \in Nat
  BY <1>6, <1>7, FS_CardinalityType DEF F
<1>9. QED
  BY <1>5, <1>6, <1>7, <1>8 DEF F, G

\* Queues are emptied, or left alone.
LEMMA QueuesDrop ==
  ASSUME NEW D, NEW f \in [D -> Seq(Queries)], NEW g \in [D -> Seq(Queries)],
         \A y \in D : g[y] = f[y] \/ g[y] = <<>>, NEW k, IsFiniteSet(Waiting(D, f, k))
  PROVE  /\ IsFiniteSet(Waiting(D, g, k))
         /\ Cardinality(Waiting(D, g, k)) \in Nat
         /\ Cardinality(Waiting(D, g, k)) <= Cardinality(Waiting(D, f, k))
<1>1. ASSUME NEW z \in Waiting(D, g, k) PROVE z \in Waiting(D, f, k)
  <2>1. PICK y \in D, j \in Nat \ {0} : z = <<y, j>> /\ j <= Len(g[y]) /\ g[y][j].n = k
    BY DEF Waiting
  <2>2. g[y] = f[y]
    BY <2>1
  <2>3. QED
    BY <2>1, <2>2 DEF Waiting
<1>2. Waiting(D, g, k) \in SUBSET Waiting(D, f, k)
  BY <1>1
<1>3. QED
  BY <1>2, FS_Subset, FS_CardinalityType

\* What the master may still send: one try less for every query it writes.
LEMMA OwedNext ==
  ASSUME Typed, phase # "idle" => tries > 0
  PROVE  /\ (\E fn \in Fn, u \in Unit, a \in Addr : Begin(fn, u, a)) =>
              tries' > 0 /\ \A k \in Ops : Owed(k)' = Owed(k)
         /\ SerialWrite \/ TcpWrite =>
              tries' > 0 /\ \A k \in Ops : Owed(k)' = IF k = n THEN Owed(k) - 1 ELSE Owed(k)
         /\ WriteFails \/ SerialRead \/ TcpRead \/ SerialTimeout \/ TcpFails =>
              (phase' # "idle" => tries' > 0) /\ \A k \in Ops : Owed(k)' <= Owed(k)
<1> USE ModbusAssumption
<1>0. n \in Ops \cup {0} /\ tries \in 0 .. Retries + 1 /\ Ops \subseteq Nat
  BY DEF Typed, MasterTyped, Ops
<1>1. ASSUME NEW fn \in Fn, NEW u \in Unit, NEW a \in Addr, Begin(fn, u, a)
      PROVE  tries' > 0 /\ \A k \in Ops : Owed(k)' = Owed(k)
  BY <1>0, <1>1 DEF Begin, Owed, Left
<1>2. ASSUME SerialWrite \/ TcpWrite
      PROVE  tries' > 0 /\ \A k \in Ops : Owed(k)' = IF k = n THEN Owed(k) - 1 ELSE Owed(k)
  <2>1. phase = "send" /\ phase' = "read" /\ n' = n /\ tries' = tries
    BY <1>2 DEF SerialWrite, TcpWrite
  <2>2. QED
    BY <1>0, <2>1 DEF Owed, Left
<1>3. ASSUME WriteFails \/ SerialRead \/ TcpRead \/ SerialTimeout \/ TcpFails
      PROVE  (phase' # "idle" => tries' > 0) /\ \A k \in Ops : Owed(k)' <= Owed(k)
  <2>1. phase \in {"send", "read"}
    BY <1>3 DEF WriteFails, SerialRead, TcpRead, SerialTimeout, TcpFails
  <2>2. \E code : Again(code) \/ \E f : Finish(code, f)
    BY <1>3, Judged DEF WriteFails, SerialRead, TcpRead, SerialTimeout, TcpFails
  <2>3. \/ tries > 1 /\ tries' = tries - 1 /\ phase' = "send" /\ n' = n
        \/ tries' = 0 /\ phase' = "idle" /\ n' = n
    BY <2>2 DEF Again, Finish
  <2>4. QED
    BY <1>0, <2>1, <2>3 DEF Owed, Left
<1>4. QED
  BY <1>1, <1>2, <1>3

\* A step of the budget: what is executed, waits and is left, in all, does not grow.
LEMMA BudgetKept ==
  ASSUME Budget, executed' = executed, at' = at, phase' # "idle" => tries' > 0,
         \A c \in Conn : link'[c].up = link[c].up,
         \A k \in Ops : Owed(k)' <= Owed(k) /\ Owed(k) \in Int /\ Owed(k)' \in Int
  PROVE  Budget'
<1>1. Ups' = Ups
  BY DEF Ups
<1>2. \A k \in Ops : OnLine(k)' = OnLine(k) /\ OnLinks(k)' = OnLinks(k)
  BY <1>1 DEF OnLine, OnLinks
<1>3. ASSUME NEW k \in Ops PROVE Within(k)'
  <2>1. /\ IsFiniteSet(OnLine(k)) /\ IsFiniteSet(OnLinks(k))
        /\ Cardinality(OnLine(k)) \in Nat /\ Cardinality(OnLinks(k)) \in Nat /\ executed[k] \in Nat
    BY FS_CardinalityType DEF Budget, Within
  <2>2. executed[k] + Cardinality(OnLine(k)) + Cardinality(OnLinks(k)) + Owed(k) <= Retries + 1
    BY DEF Budget, Within
  <2>3. QED
    BY <1>2, <2>1, <2>2, ModbusAssumption DEF Within
<1>4. QED
  BY <1>3 DEF Budget

LEMMA OwedInt ==
  ASSUME MasterTyped
  PROVE  \A k \in Ops : Owed(k) \in Int
  BY ModbusAssumption DEF MasterTyped, Owed, Left, Ops

LEMMA OwedIntNext ==
  ASSUME MasterTyped'
  PROVE  \A k \in Ops : Owed(k)' \in Int
  BY ModbusAssumption DEF MasterTyped, Owed, Left, Ops

\* The queues of the connections before and after a step, and what waits in them.
LEMMA UpsTyped ==
  ASSUME LinksTyped, LinksTyped'
  PROVE  /\ Ups \in [Conn -> Seq(Queries)] /\ \A c \in Conn : Ups[c] = link[c].up
         /\ Ups' \in [Conn -> Seq(Queries)] /\ \A c \in Conn : Ups'[c] = link'[c].up
  BY DEF LinksTyped, Links, Ups

LEMMA LineNext ==
  \A k : OnLine(k)' = Waiting(Unit, at', k) /\ OnLinks(k)' = Waiting(Conn, Ups', k)
  BY DEF OnLine, OnLinks, Waiting

\* A step that touches neither the line nor the master, and adds no query of ours.
LEMMA BudgetLinks ==
  ASSUME IInv, Budget, IInv', UNCHANGED <<master, at>>, executed' \in [Ops -> Nat],
         \A k \in Ops : IsFiniteSet(OnLinks(k)) =>
            /\ IsFiniteSet(OnLinks(k)')
            /\ executed'[k] + Cardinality(OnLinks(k)') <= executed[k] + Cardinality(OnLinks(k))
  PROVE  Budget'
<1>1. /\ \A k \in Ops : Owed(k)' = Owed(k) /\ Owed(k) \in Int
      /\ phase' # "idle" => tries' > 0
  BY OwedInt DEF IInv, Typed, Budget, Owed, Left, master
<1>2. ASSUME NEW k \in Ops PROVE Within(k)'
  <2>1. /\ IsFiniteSet(OnLine(k)) /\ IsFiniteSet(OnLinks(k))
        /\ executed[k] + Cardinality(OnLine(k)) + Cardinality(OnLinks(k)) + Owed(k) <= Retries + 1
    BY DEF Budget, Within
  <2>2. /\ IsFiniteSet(OnLinks(k)') /\ OnLine(k)' = OnLine(k)
        /\ executed'[k] + Cardinality(OnLinks(k)') <= executed[k] + Cardinality(OnLinks(k))
    BY <2>1 DEF OnLine
  <2>3. /\ Cardinality(OnLine(k)) \in Nat /\ Cardinality(OnLinks(k)) \in Nat
        /\ Cardinality(OnLinks(k)') \in Nat /\ executed[k] \in Nat /\ executed'[k] \in Nat
    BY <2>1, <2>2, FS_CardinalityType DEF Budget
  <2>4. QED
    BY <1>1, <2>1, <2>2, <2>3, ModbusAssumption DEF Within
<1>3. at' \in [Unit -> Seq(Queries)]
  BY DEF Budget
<1>4. QED
  BY <1>1, <1>2, <1>3 DEF Budget

\* The master writes: the query it may wait for is the try it has no more.
LEMMA BudgetWrite ==
  ASSUME IInv, Budget, IInv', SerialWrite \/ TcpWrite
  PROVE  Budget'
<1>0. /\ Query(next_id) \in Queries /\ Query(next_id).n = n /\ executed' = executed
      /\ tries' > 0 /\ \A k \in Ops : Owed(k)' = IF k = n THEN Owed(k) - 1 ELSE Owed(k)
  BY QueryTyped, OwedNext DEF IInv, Typed, Budget, SerialWrite, TcpWrite
<1> DEFINE q == Query(next_id)
           Extra(k) == IF q.n = k THEN 1 ELSE 0
<1>1. CASE SerialWrite
  <2>1. /\ op.unit \in Unit /\ UNCHANGED link
        /\ at' = at \/ at' = [at EXCEPT ![op.unit] = Append(@, q)]
    BY <1>1 DEF SerialWrite, IInv, Typed, MasterTyped, Asked
  <2>2. at' \in [Unit -> Seq(Queries)]
    <3>1. at \in [Unit -> Seq(Queries)]
      BY DEF Budget
    <3>2. Append(at[op.unit], q) \in Seq(Queries)
      BY <1>0, <2>1, <3>1, AppendProperties
    <3> HIDE DEF q
    <3>3. QED
      BY <2>1, <3>1, <3>2
  <2>3. ASSUME NEW k \in Ops
        PROVE  /\ IsFiniteSet(OnLine(k)') /\ Cardinality(OnLine(k)') \in Nat
               /\ Cardinality(OnLine(k)') <= Cardinality(OnLine(k)) + Extra(k)
    <3>1. IsFiniteSet(OnLine(k)) /\ Cardinality(OnLine(k)) \in Nat
      BY FS_CardinalityType DEF Budget, Within
    <3>2. CASE at' = at
      BY <3>1, <3>2 DEF OnLine
    <3>3. CASE at' = [at EXCEPT ![op.unit] = Append(@, q)]
      <4>1. at \in [Unit -> Seq(Queries)]
        BY DEF Budget
      <4>2. at'[op.unit] = Append(at[op.unit], q) /\ \A y \in Unit \ {op.unit} : at'[y] = at[y]
        BY <2>1, <3>3, <4>1
      <4>3. Adds(Unit, at, at', q) /\ IsFiniteSet(Waiting(Unit, at, k))
        BY <1>0, <2>1, <2>2, <3>1, <4>1, <4>2 DEF OnLine, Adds
      <4> HIDE DEF q
      <4>4. /\ IsFiniteSet(Waiting(Unit, at', k)) /\ Cardinality(Waiting(Unit, at', k)) \in Nat
            /\ Cardinality(Waiting(Unit, at', k)) <= Cardinality(Waiting(Unit, at, k)) + Extra(k)
        BY <4>3, QueueAdds
      <4>5. QED
        <5>1. OnLine(k) = Waiting(Unit, at, k)
          BY DEF OnLine
        <5>2. QED
          BY <4>4, <5>1, LineNext
    <3>4. QED
      BY <2>1, <3>2, <3>3
  <2>4. ASSUME NEW k \in Ops PROVE Within(k)'
    <3>1. /\ IsFiniteSet(OnLinks(k)) /\ IsFiniteSet(OnLine(k)) /\ executed[k] \in Nat
          /\ executed[k] + Cardinality(OnLine(k)) + Cardinality(OnLinks(k)) + Owed(k) <= Retries + 1
      BY DEF Budget, Within
    <3>2. OnLinks(k)' = OnLinks(k) /\ Cardinality(OnLinks(k)) \in Nat /\ Cardinality(OnLine(k)) \in Nat
      BY <2>1, <3>1, FS_CardinalityType DEF OnLinks, Ups
    <3>3. Owed(k) \in Int
      BY OwedInt DEF IInv, Typed
    <3>4. Owed(k)' + Extra(k) = Owed(k)
      BY <1>0, <3>3
    <3>5. /\ IsFiniteSet(OnLine(k)') /\ Cardinality(OnLine(k)') \in Nat /\ Extra(k) \in {0, 1}
          /\ Cardinality(OnLine(k)') <= Cardinality(OnLine(k)) + Extra(k) /\ Owed(k)' \in Int
      BY <1>0, <2>3, <3>3
    <3> HIDE DEF Extra
    <3>6. executed'[k] + Cardinality(OnLine(k)') + Cardinality(OnLinks(k)') + Owed(k)' <= Retries + 1
      BY <1>0, <3>1, <3>2, <3>3, <3>4, <3>5, ModbusAssumption
    <3>7. QED
      BY <3>1, <3>2, <3>5, <3>6 DEF Within
  <2>5. QED
    BY <1>0, <2>2, <2>4 DEF Budget
<1>2. CASE TcpWrite
  <2>1. PICK c \in Conn : \E far :
          Changed(c, IF link[c].far = "closed" THEN link[c].up ELSE Append(link[c].up, q),
                  link[c].down, far)
    BY <1>2, TcpWriteLink DEF IInv, Typed
  <2>2. at' = at
    BY <1>2 DEF TcpWrite
  <2>3. /\ Ups \in [Conn -> Seq(Queries)] /\ Ups' \in [Conn -> Seq(Queries)]
        /\ \A d \in Conn : Ups[d] = link[d].up /\ Ups'[d] = link'[d].up
    BY UpsTyped DEF IInv, Typed
  <2> HIDE DEF q
  <2>9. /\ \A d \in Conn \ {c} : link'[d] = link[d]
        /\ link'[c].up = link[c].up \/ link'[c].up = Append(link[c].up, q)
    BY <2>1, Zenon DEF Changed
  <2>4. \A d \in Conn \ {c} : Ups'[d] = Ups[d]
    BY <2>3, <2>9
  <2>5. Ups'[c] = Ups[c] \/ Ups'[c] = Append(Ups[c], q)
    BY <2>3, <2>9
  <2>6. ASSUME NEW k \in Ops
        PROVE  /\ IsFiniteSet(OnLinks(k)') /\ Cardinality(OnLinks(k)') \in Nat
               /\ Cardinality(OnLinks(k)') <= Cardinality(OnLinks(k)) + Extra(k)
    <3>1. IsFiniteSet(OnLinks(k)) /\ Cardinality(OnLinks(k)) \in Nat
      BY FS_CardinalityType DEF Budget, Within
    <3>2. CASE Ups'[c] = Ups[c]
      <4>1. Ups' = Ups
        BY <2>3, <2>4, <3>2
      <4>2. QED
        BY <3>1, <4>1 DEF OnLinks
    <3>3. CASE Ups'[c] = Append(Ups[c], q)
      <4>1. Adds(Conn, Ups, Ups', q) /\ IsFiniteSet(Waiting(Conn, Ups, k))
        <5>1. q \in Queries
          BY <1>0 DEF q
        <5>2. QED
          BY <2>3, <2>4, <3>1, <3>3, <5>1 DEF OnLinks, Adds
      <4>2. /\ IsFiniteSet(Waiting(Conn, Ups', k)) /\ Cardinality(Waiting(Conn, Ups', k)) \in Nat
            /\ Cardinality(Waiting(Conn, Ups', k)) <= Cardinality(Waiting(Conn, Ups, k)) + Extra(k)
        BY <4>1, QueueAdds
      <4>3. QED
        <5>1. OnLinks(k) = Waiting(Conn, Ups, k)
          BY DEF OnLinks
        <5>2. QED
          BY <4>2, <5>1, LineNext
    <3>4. QED
      BY <2>5, <3>2, <3>3
  <2>7. ASSUME NEW k \in Ops PROVE Within(k)'
    <3>1. /\ IsFiniteSet(OnLinks(k)) /\ IsFiniteSet(OnLine(k)) /\ executed[k] \in Nat
          /\ executed[k] + Cardinality(OnLine(k)) + Cardinality(OnLinks(k)) + Owed(k) <= Retries + 1
      BY DEF Budget, Within
    <3>2. OnLine(k)' = OnLine(k) /\ Cardinality(OnLinks(k)) \in Nat /\ Cardinality(OnLine(k)) \in Nat
      BY <2>2, <3>1, FS_CardinalityType DEF OnLine
    <3>3. Owed(k) \in Int
      BY OwedInt DEF IInv, Typed
    <3>4. Owed(k)' + Extra(k) = Owed(k)
      BY <1>0, <3>3 DEF q
    <3>5. /\ IsFiniteSet(OnLinks(k)') /\ Cardinality(OnLinks(k)') \in Nat /\ Extra(k) \in {0, 1}
          /\ Cardinality(OnLinks(k)') <= Cardinality(OnLinks(k)) + Extra(k) /\ Owed(k)' \in Int
      BY <1>0, <2>6, <3>3 DEF q
    <3> HIDE DEF Extra
    <3>6. executed'[k] + Cardinality(OnLine(k)') + Cardinality(OnLinks(k)') + Owed(k)' <= Retries + 1
      BY <1>0, <3>1, <3>2, <3>3, <3>4, <3>5, ModbusAssumption
    <3>7. QED
      BY <3>1, <3>2, <3>5, <3>6 DEF Within
  <2>8. QED
    BY <1>0, <2>2, <2>7 DEF Budget
<1>3. QED
  BY <1>1, <1>2

\* A serial device carries out its oldest query.
LEMMA BudgetDevice ==
  ASSUME IInv, Budget, NEW u \in Unit, Device(u)
  PROVE  Budget'
<1> DEFINE q == Head(at[u])
<1>1. /\ at \in [Unit -> Seq(Queries)] /\ executed \in [Ops -> Nat] /\ at[u] # <<>>
      /\ at' = [at EXCEPT ![u] = Tail(@)] /\ UNCHANGED <<medium, master, link>>
      /\ executed' = [executed EXCEPT ![q.n] = @ + 1]
  BY DEF Budget, Device
<1>2. Tail(at[u]) \in Seq(Queries)
  BY <1>1, QueueSteps
<1>3. at' \in [Unit -> Seq(Queries)] /\ at'[u] = Tail(at[u]) /\ \A y \in Unit \ {u} : at'[y] = at[y]
  BY <1>1, <1>2
<1>4. Loses(Unit, at, at', q)
  BY <1>1, <1>3 DEF Loses
<1> HIDE DEF q
<1>5. /\ executed' \in [Ops -> Nat]
      /\ \A k \in Ops : executed'[k] = executed[k] + (IF q.n = k THEN 1 ELSE 0)
  <2>1. executed \in [Ops -> Nat] /\ executed' = [executed EXCEPT ![q.n] = @ + 1]
    BY <1>1
  <2>2. CASE q.n \in Ops
    BY <2>1, <2>2
  <2>3. CASE q.n \notin Ops
    <3>1. \A k \in Ops : executed'[k] = executed[k]
      BY <2>1, <2>3
    <3>2. executed' = executed
      BY <2>1, <3>1
    <3>3. \A k \in Ops : executed[k] \in Nat /\ (IF q.n = k THEN 1 ELSE 0) = 0
      BY <2>1, <2>3
    <3>4. \A k \in Ops : executed'[k] = executed[k] + (IF q.n = k THEN 1 ELSE 0)
      BY <3>1, <3>3
    <3>5. QED
      BY <2>1, <3>2, <3>4
  <2>4. QED
    BY <2>2, <2>3
<1>6. /\ \A k \in Ops : Owed(k)' = Owed(k) /\ Owed(k) \in Int
      /\ phase' # "idle" => tries' > 0
  BY <1>1, OwedInt DEF IInv, Typed, Budget, Owed, Left, master
<1>7. ASSUME NEW k \in Ops PROVE Within(k)'
  <2>1. /\ IsFiniteSet(OnLinks(k)) /\ IsFiniteSet(OnLine(k)) /\ executed[k] \in Nat
        /\ executed[k] + Cardinality(OnLine(k)) + Cardinality(OnLinks(k)) + Owed(k) <= Retries + 1
    BY DEF Budget, Within
  <2>2. OnLinks(k)' = OnLinks(k) /\ Cardinality(OnLinks(k)) \in Nat /\ Cardinality(OnLine(k)) \in Nat
    BY <1>1, <2>1, FS_CardinalityType DEF OnLinks, Ups
  <2>3. /\ IsFiniteSet(Waiting(Unit, at', k)) /\ Cardinality(Waiting(Unit, at', k)) \in Nat
        /\ Cardinality(Waiting(Unit, at', k)) + (IF q.n = k THEN 1 ELSE 0) <= Cardinality(Waiting(Unit, at, k))
    BY <1>4, <2>1, QueueLoses DEF OnLine
  <2>4. OnLine(k) = Waiting(Unit, at, k) /\ OnLine(k)' = Waiting(Unit, at', k)
    BY LineNext DEF OnLine
  <2>5. executed'[k] + Cardinality(OnLine(k)') + Cardinality(OnLinks(k)') + Owed(k)' <= Retries + 1
    BY <1>5, <1>6, <2>1, <2>2, <2>3, <2>4, ModbusAssumption
  <2>6. QED
    BY <2>1, <2>2, <2>3, <2>4, <2>5 DEF Within
<1>8. QED
  BY <1>3, <1>5, <1>6, <1>7 DEF Budget

\* The slave carries out the oldest query of a connection.
LEMMA BudgetServe ==
  ASSUME IInv, Budget, IInv', Serve
  PROVE  Budget'
<1>0. PICK c, q : c = node[nd'].conn /\ q = Head(link[c].up)
  OBVIOUS
<1>1. /\ c \in Conn /\ link[c].up # <<>>
      /\ link'[c].up = Tail(link[c].up) \/ link'[c].up = <<>>
      /\ \A d \in Conn \ {c} : link'[d] = link[d]
  BY <1>0, ServeLink DEF IInv, Typed, Changed
<1>2. /\ executed' = IF q.n \in Ops THEN [executed EXCEPT ![q.n] = @ + 1] ELSE executed
      /\ UNCHANGED <<master, at>>
  BY <1>0 DEF Serve, OnlyTcp
<1>3. /\ Ups \in [Conn -> Seq(Queries)] /\ Ups' \in [Conn -> Seq(Queries)]
      /\ \A d \in Conn : Ups[d] = link[d].up /\ Ups'[d] = link'[d].up
  BY UpsTyped DEF IInv, Typed
<1>4. Loses(Conn, Ups, Ups', q)
  <2>1. /\ Ups[c] # <<>> /\ q = Head(Ups[c]) /\ (Ups'[c] = Tail(Ups[c]) \/ Ups'[c] = <<>>)
        /\ \A d \in Conn \ {c} : Ups'[d] = Ups[d]
    BY <1>0, <1>1, <1>3
  <2>2. QED
    BY <1>1, <1>3, <2>1 DEF Loses
<1>5. /\ executed' \in [Ops -> Nat] /\ executed \in [Ops -> Nat]
      /\ \A k \in Ops : executed'[k] = executed[k] + (IF q.n = k THEN 1 ELSE 0)
  <2>1. executed \in [Ops -> Nat]
    BY DEF Budget
  <2>2. CASE q.n \in Ops
    BY <1>2, <2>1, <2>2
  <2>3. CASE q.n \notin Ops
    BY <1>2, <2>1, <2>3
  <2>4. QED
    BY <2>2, <2>3
<1>6. ASSUME NEW k \in Ops, IsFiniteSet(OnLinks(k))
      PROVE  /\ IsFiniteSet(OnLinks(k)')
             /\ executed'[k] + Cardinality(OnLinks(k)') <= executed[k] + Cardinality(OnLinks(k))
  <2>1. /\ IsFiniteSet(Waiting(Conn, Ups', k)) /\ Cardinality(Waiting(Conn, Ups', k)) \in Nat
        /\ Cardinality(Waiting(Conn, Ups', k)) + (IF q.n = k THEN 1 ELSE 0) <= Cardinality(Waiting(Conn, Ups, k))
    BY <1>4, <1>6, QueueLoses DEF OnLinks
  <2>2. OnLinks(k) = Waiting(Conn, Ups, k) /\ OnLinks(k)' = Waiting(Conn, Ups', k)
    BY LineNext DEF OnLinks
  <2>3. Cardinality(OnLinks(k)) \in Nat /\ executed[k] \in Nat
    BY <1>5, <1>6, FS_CardinalityType
  <2>4. QED
    BY <1>5, <2>1, <2>2, <2>3
<1>7. QED
  BY <1>2, <1>5, <1>6, BudgetLinks

\* The other steps of the slave and of the other masters add no query of ours.
LEMMA BudgetSlave ==
  ASSUME IInv, Budget, IInv', SlaveStep \/ PeerStep, ~Serve
  PROVE  Budget'
<1>1. UNCHANGED <<master, at, executed>>
  BY DEF SlaveStep, PeerStep, AcceptConnection, AcceptFails, Refuse, EndOfStream,
         ReadFails, PeerConnect, PeerAsks, PeerCloses, OnlyTcp
<1>2. /\ Ups \in [Conn -> Seq(Queries)] /\ Ups' \in [Conn -> Seq(Queries)]
      /\ \A d \in Conn : Ups[d] = link[d].up /\ Ups'[d] = link'[d].up
  BY UpsTyped DEF IInv, Typed
<1>3. executed \in [Ops -> Nat] /\ executed' \in [Ops -> Nat]
  BY <1>1 DEF Budget
<1>4. CASE \A d \in Conn : Ups'[d] = Ups[d] \/ Ups'[d] = <<>>
  <2>1. ASSUME NEW k \in Ops, IsFiniteSet(OnLinks(k))
        PROVE  /\ IsFiniteSet(OnLinks(k)') /\ Cardinality(OnLinks(k)') \in Nat
               /\ Cardinality(OnLinks(k)') <= Cardinality(OnLinks(k))
    <3>1. OnLinks(k) = Waiting(Conn, Ups, k) /\ OnLinks(k)' = Waiting(Conn, Ups', k)
      BY LineNext DEF OnLinks
    <3>2. QED
      BY <1>2, <1>4, <2>1, <3>1, QueuesDrop
  <2>2. \A k \in Ops : IsFiniteSet(OnLinks(k)) => Cardinality(OnLinks(k)) \in Nat
    BY FS_CardinalityType
  <2>3. \A k \in Ops : executed'[k] = executed[k] /\ executed[k] \in Nat
    BY <1>1, <1>3
  <2>4. QED
    BY <1>1, <1>3, <2>1, <2>2, <2>3, BudgetLinks
<1>5. CASE \E c \in Conn, q \in Queries : /\ q.n = 0 /\ Ups[c] = <<>> /\ Ups'[c] = <<q>>
                                          /\ \A d \in Conn \ {c} : Ups'[d] = Ups[d]
  <2>1. PICK q \in Queries : q.n = 0 /\ Adds(Conn, Ups, Ups', q)
    <3>1. \A q : Append(<<>>, q) = <<q>>
      OBVIOUS
    <3>2. QED
      BY <1>2, <1>5, <3>1 DEF Adds
  <2>2. ASSUME NEW k \in Ops, IsFiniteSet(OnLinks(k))
        PROVE  /\ IsFiniteSet(OnLinks(k)') /\ Cardinality(OnLinks(k)') \in Nat
               /\ Cardinality(OnLinks(k)') <= Cardinality(OnLinks(k))
    <3>1. OnLinks(k) = Waiting(Conn, Ups, k) /\ OnLinks(k)' = Waiting(Conn, Ups', k)
      BY LineNext DEF OnLinks
    <3>2. /\ IsFiniteSet(Waiting(Conn, Ups', k)) /\ Cardinality(Waiting(Conn, Ups', k)) \in Nat
          /\ Cardinality(Waiting(Conn, Ups', k)) <= Cardinality(Waiting(Conn, Ups, k)) + (IF q.n = k THEN 1 ELSE 0)
      BY <2>1, <2>2, <3>1, QueueAdds
    <3>3. q.n # k /\ Cardinality(OnLinks(k)) \in Nat
      BY <2>1, <2>2, FS_CardinalityType DEF Ops
    <3>4. QED
      BY <3>1, <3>2, <3>3
  <2>3. \A k \in Ops : IsFiniteSet(OnLinks(k)) => Cardinality(OnLinks(k)) \in Nat
    BY FS_CardinalityType
  <2>4. \A k \in Ops : executed'[k] = executed[k] /\ executed[k] \in Nat
    BY <1>1, <1>3
  <2>5. QED
    BY <1>1, <1>3, <2>2, <2>3, <2>4, BudgetLinks
<1>6. CASE AcceptConnection
  BY <1>2, <1>4, <1>6, AcceptLink DEF IInv, Changed
<1>7. CASE AcceptFails \/ Refuse \/ EndOfStream
  BY <1>2, <1>4, <1>7, ShutLink DEF IInv, Changed
<1>8. CASE ReadFails
  BY <1>2, <1>4, <1>8 DEF ReadFails
<1>9. CASE PeerConnect
  <2> DEFINE c == Least(Fresh)
  <2>1. link' = [link EXCEPT ![c] = [NoLink EXCEPT !.open = TRUE, !.far = "backlog"]]
    BY <1>9 DEF PeerConnect
  <2>2. \A d \in Conn : link'[d] = link[d] \/ link'[d].up = <<>>
    BY <2>1 DEF IInv, Typed, LinksTyped, NoLink
  <2>3. QED
    BY <1>2, <1>4, <2>2
<1>10. ASSUME NEW c \in Conn, NEW u \in Unit, PeerAsks(c, u) PROVE Budget'
  <2> DEFINE q == [fn |-> "read", unit |-> u, addr |-> 0, id |-> 0, n |-> 0]
  <2>1. q \in Queries /\ q.n = 0
    BY DEF Queries, Fn
  <2>2. /\ link[c].up = <<>> /\ link'[c].up = <<q>>
        /\ \A d \in Conn \ {c} : link'[d] = link[d]
    BY <1>10 DEF PeerAsks, IInv, Typed, LinksTyped, Links
  <2> HIDE DEF q
  <2>3. QED
    <3>1. /\ Ups[c] = <<>> /\ Ups'[c] = <<q>>
          /\ \A d \in Conn \ {c} : Ups'[d] = Ups[d]
      BY <1>2, <2>2
    <3>2. QED
      BY <1>5, <2>1, <3>1
<1>11. ASSUME NEW c \in Conn, PeerCloses(c) PROVE Budget'
  <2>1. \A d \in Conn : link'[d].up = link[d].up
    BY <1>11, EndCloses DEF PeerCloses, IInv, Typed, Changed
  <2>2. QED
    BY <1>2, <1>4, <2>1
<1>12. QED
  BY <1>6, <1>7, <1>8, <1>9, <1>10, <1>11 DEF SlaveStep, PeerStep

LEMMA BudgetNext ==
  ASSUME IInv, Budget, IInv', [Next]_vars
  PROVE  Budget'
<1>0. \A k \in Ops : Owed(k) \in Int /\ Owed(k)' \in Int
  BY OwedInt, OwedIntNext DEF IInv, Typed
<1>1. CASE UNCHANGED vars \/ Silence \/ Skip
  <2>1. \A c \in Conn : link'[c].up = link[c].up
    <3>1. CASE UNCHANGED vars \/ Skip
      BY <3>1 DEF vars, wire, Skip
    <3>2. CASE Silence
      BY <3>2, MasterCloses DEF IInv, Changed
    <3>3. QED
      BY <1>1, <3>1, <3>2
  <2>2. /\ executed' = executed /\ at' = at
        /\ UNCHANGED <<phase, tries, n>>
    BY <1>1 DEF vars, wire, master, Silence, Skip
  <2>3. \A k \in Ops : Owed(k)' = Owed(k)
    BY <2>2 DEF Owed, Left
  <2>4. QED
    BY <1>0, <2>1, <2>2, <2>3, BudgetKept DEF Budget
<1>2. ASSUME NEW fn \in Fn, NEW u \in Unit, NEW a \in Addr, Begin(fn, u, a) PROVE Budget'
  <2>1. executed' = executed /\ at' = at /\ \A c \in Conn : link'[c].up = link[c].up
    BY <1>2 DEF Begin, wire
  <2>2. tries' > 0 /\ \A k \in Ops : Owed(k)' = Owed(k)
    BY <1>2, OwedNext DEF IInv, Budget
  <2>3. QED
    BY <1>0, <2>1, <2>2, BudgetKept
<1>3. CASE SerialWrite \/ TcpWrite
  BY <1>3, BudgetWrite
<1>4. CASE WriteFails \/ SerialRead \/ TcpRead \/ SerialTimeout \/ TcpFails
  <2>1. executed' = executed /\ at' = at
    BY <1>4 DEF WriteFails, SerialRead, TcpRead, SerialTimeout, TcpFails, wire
  <2>2. \A c \in Conn : link'[c].up = link[c].up
    <3>1. CASE WriteFails \/ TcpFails
      BY <3>1, MasterCloses DEF IInv, Changed
    <3>2. CASE TcpRead
      BY <3>2, TcpReadLink DEF IInv, Changed
    <3>3. CASE SerialRead \/ SerialTimeout
      BY <3>3 DEF SerialRead, SerialTimeout, wire
    <3>4. QED
      BY <1>4, <3>1, <3>2, <3>3
  <2>3. (phase' # "idle" => tries' > 0) /\ \A k \in Ops : Owed(k)' <= Owed(k)
    BY <1>4, OwedNext DEF IInv, Budget
  <2>4. QED
    BY <1>0, <2>1, <2>2, <2>3, BudgetKept
<1>5. CASE \E u \in Unit : Device(u)
  BY <1>5, BudgetDevice
<1>6. CASE SlaveStep \/ PeerStep
  BY <1>6, BudgetServe, BudgetSlave
<1>7. QED
  BY <1>1, <1>2, <1>3, <1>4, <1>5, <1>6 DEF Next, MasterOrDevice, MasterNext, MasterStep

LEMMA BudgetInitially == Init => Budget
<1> SUFFICES ASSUME Init PROVE Budget
  OBVIOUS
<1>1. /\ executed = [k \in Ops |-> 0] /\ at = [u \in Unit |-> <<>>] /\ phase = "idle" /\ n = 0
      /\ link = [c \in Conn |-> NoLink]
  BY DEF Init, MasterInit
<1>2. executed \in [Ops -> Nat] /\ at \in [Unit -> Seq(Queries)]
  BY <1>1
<1>3. ASSUME NEW k \in Ops PROVE Within(k)
  <2>1. OnLine(k) = {}
    BY <1>1 DEF OnLine, Waiting
  <2>2. OnLinks(k) = {}
    BY <1>1 DEF OnLinks, Waiting, Ups, NoLink
  <2>3. Owed(k) = Retries + 1 /\ executed[k] = 0
    BY <1>1 DEF Owed, Ops
  <2>4. QED
    BY <2>1, <2>2, <2>3, FS_EmptySet, ModbusAssumption DEF Within
<1>4. QED
  BY <1>1, <1>2, <1>3 DEF Budget

(***************************************************************************)
(* No operation is carried out more often than the tries allow, over every *)
(* layer: send_retries bounds what the slaves do, however late, lost or    *)
(* twice asked for, the answers are.                                       *)
(***************************************************************************)
THEOREM RetriesBound == Spec => []RetryBound
<1>1. IInv /\ Budget => RetryBound
  <2>1. ASSUME IInv, Budget, NEW k \in Ops PROVE executed[k] <= Retries + 1
    <3>1. /\ executed[k] + Cardinality(OnLine(k)) + Cardinality(OnLinks(k)) + Owed(k) <= Retries + 1
          /\ Cardinality(OnLine(k)) \in Nat /\ Cardinality(OnLinks(k)) \in Nat /\ executed[k] \in Nat
      BY <2>1, FS_CardinalityType DEF Budget, Within
    <3>2. Owed(k) \in Nat
      BY <2>1, ModbusAssumption DEF IInv, Typed, MasterTyped, Budget, Owed, Left, Ops
    <3>3. QED
      BY <3>1, <3>2, ModbusAssumption
  <2>2. QED
    BY <2>1 DEF RetryBound
<1>2. IInv /\ Budget /\ [Next]_vars /\ IInv' => Budget'
  BY BudgetNext
<1>3. QED
  BY <1>1, <1>2, BudgetInitially, SpecInv, PTL DEF Spec
=============================================================================
