------------------------------ MODULE ModbusSlave ------------------------------
(***************************************************************************)
(* The Modbus TCP slave: modbus_slave_loop of modbus_s.c over the table of *)
(* nodes of mb_tcp.c, which accepts the connections of the master of       *)
(* ModbusMaster and of other masters (external), and serves one query at a *)
(* time.  A node is free, listens, or holds a connection.                  *)
(***************************************************************************)
EXTENDS ModbusMaster, FiniteSets

CONSTANTS NodeCount,    \* node_count: one to listen, the others for connections
          SlaveUnits    \* the slave addresses of nw_array_
Node == 0 .. NodeCount - 1
ASSUME SlaveAssumption == NodeCount \in Nat \ {0} /\ SlaveUnits \subseteq Unit

VARIABLES node,             \* the node table: what a node is for, and its fd
          free_node_count,  \* as counted; not derived from the table
          nd                \* of modbus_slave_loop: the node it reads, or NoNode
slave == <<node, free_node_count, nd>>
vars == <<medium, master, wire, executed, slave>>

NoNode == -1
FreeNode == [kind |-> "free", conn |-> NoConn]
SlaveInit ==        \* mb_slave_init, then modbus_tcp_listen of one network
  /\ node = [i \in Node |-> IF i = 0 THEN [kind |-> "listen", conn |-> NoConn] ELSE FreeNode]
  /\ free_node_count = NodeCount - 1 /\ nd = NoNode

\* The lowest or the oldest of a set of numbers.
Least(S) == CHOOSE x \in S : \A y \in S : x <= y
Backlog == {c \in Conn : link[c].far = "backlog"}
\* select finds the node readable: a frame, or the end of the stream.
Readable(i) == node[i].conn # NoConn
               /\ (link[node[i].conn].up # <<>> \/ ~link[node[i].conn].open)
\* modbus_tcp_read with nd < 0: the nodes it may take, the lowest first; it
\* listens only while there is a free node.
Ready == {i \in Node : \/ node[i].kind = "listen" /\ Backlog # {} /\ free_node_count > 0
                       \/ node[i].kind = "slave" /\ Readable(i)}
Selected(i) == IF nd = NoNode THEN Ready # {} /\ i = Least(Ready) ELSE i = nd

Shut(c) == [link EXCEPT ![c].up = <<>>, ![c].far = "closed"]
FreedUncounted(i) ==               \* mutant: the node is freed and not counted
  /\ node' = [node EXCEPT ![i] = FreeNode]
  /\ UNCHANGED free_node_count
NodeFreed(i) == /\ node' = [node EXCEPT ![i] = FreeNode]
                /\ free_node_count' = free_node_count + 1
OnlyFreed(i) == NodeFreed(i) /\ UNCHANGED link   \* mutant: the socket is not closed
\* close_connection and nd_table_close_node; modbus_tcp_close.
CloseNode(i) == NodeFreed(i) /\ link' = Shut(node[i].conn)
-----------------------------------------------------------------------------
OnlyTcp == ~Serial /\ UNCHANGED <<medium, master, at, rx>>
\* accept_connection: a free node is taken for the oldest request.
AcceptConnection ==
  \E i \in Node :
    /\ Selected(i) /\ node[i].kind = "listen"
    /\ LET f == Least({j \in Node : node[j].kind = "free"})
       IN node' = [node EXCEPT ![f] = [kind |-> "slave", conn |-> Least(Backlog)]]
    /\ link' = [link EXCEPT ![Least(Backlog)].far = "open"]
    /\ free_node_count' = free_node_count - 1
    /\ UNCHANGED <<nd, executed>> /\ OnlyTcp
\* accept or the configuration of the socket fails: the node is given back.
AcceptFails ==
  \E i \in Node :
    /\ Selected(i) /\ node[i].kind = "listen"
    /\ link' = Shut(Least(Backlog))
    /\ UNCHANGED <<slave, executed>> /\ OnlyTcp

\* A whole query is read and answered on the node it came from, which stays
\* the one that is read.  Only registers are served: our master writes with
\* other functions, and gets an exception.
Serve ==
  \E i \in Node :
    /\ Selected(i) /\ Readable(i) /\ link[node[i].conn].up # <<>>
    /\ LET c == node[i].conn
           q == Head(link[c].up)
           Answered(kind) ==
              [link EXCEPT ![c].up = Tail(@),
                           ![c].down = IF c = conn THEN Append(@, Reply(q, kind)) ELSE @]
       IN /\ q.unit \in SlaveUnits
          /\ executed' = IF q.n \in Ops THEN [executed EXCEPT ![q.n] = @ + 1] ELSE executed
          /\ \/ /\ link' \in {Answered(k) : k \in IF q.fn = "read" THEN {"answer", "exception"}
                                                                  ELSE {"exception"}}
                /\ UNCHANGED node
             \/ \* sendmsg finds the connection reset: it is closed, the node is kept
                /\ ~link[c].open
                /\ link' = Shut(c)
                /\ node' = [node EXCEPT ![i].conn = NoConn]
    /\ nd' = i /\ UNCHANGED free_node_count /\ OnlyTcp
\* A query for another slave address ends the connection it came over.
Refuse ==
  \E i \in Node :
    /\ Selected(i) /\ Readable(i) /\ link[node[i].conn].up # <<>>
    /\ Head(link[node[i].conn].up).unit \notin SlaveUnits
    /\ CloseNode(i) /\ nd' = NoNode
    /\ UNCHANGED executed /\ OnlyTcp
\* The end of the stream: the connection is closed and its node freed.
EndOfStream ==
  \E i \in Node :
    /\ Selected(i) /\ Readable(i) /\ link[node[i].conn].up = <<>>
    /\ CloseNode(i) /\ nd' = NoNode
    /\ UNCHANGED executed /\ OnlyTcp
\* The node that was read has no connection: modbus_tcp_read fails at once.
ReadFails ==
  /\ nd # NoNode /\ node[nd].conn = NoConn
  /\ nd' = NoNode
  /\ UNCHANGED <<node, free_node_count, link, executed>> /\ OnlyTcp
-----------------------------------------------------------------------------
(***************************************************************************)
(* The other masters: they connect, ask, and go.  What they receive is not *)
(* kept, and they have one query under way on a connection.                *)
(***************************************************************************)
Foreign == {c \in Conn : link[c].open /\ c # conn}
PeerConnect ==
  /\ Fresh # {}
  /\ link' = [link EXCEPT ![Least(Fresh)] = [NoLink EXCEPT !.open = TRUE, !.far = "backlog"]]
  /\ UNCHANGED <<slave, executed>> /\ OnlyTcp
PeerAsks(c, u) ==
  /\ c \in Foreign /\ link[c].up = <<>> /\ link[c].far # "closed"
  /\ link' = [link EXCEPT ![c].up = <<[fn |-> "read", unit |-> u, addr |-> 0, id |-> 0, n |-> 0]>>]
  /\ UNCHANGED <<slave, executed>> /\ OnlyTcp
PeerCloses(c) ==
  /\ c \in Foreign
  /\ link' = [link EXCEPT ![c].open = FALSE]
  /\ UNCHANGED <<slave, executed>> /\ OnlyTcp

SlaveStep == AcceptConnection \/ AcceptFails \/ Serve \/ Refuse \/ EndOfStream \/ ReadFails
PeerStep == \/ PeerConnect
            \/ \E c \in Conn, u \in Unit : PeerAsks(c, u)
            \/ \E c \in Conn : PeerCloses(c)
Init == MasterInit /\ SlaveInit
MasterOrDevice == MasterNext /\ UNCHANGED slave
Next == MasterOrDevice \/ SlaveStep \/ PeerStep
\* The module of the master runs; modbus_read has a timeout.
Spec == Init /\ [][Next]_vars /\ WF_vars(MasterStep /\ UNCHANGED slave)
-----------------------------------------------------------------------------
\* Types of the state.
TypeOK ==
  /\ medium \in {"bus", "echo", "tcp"} /\ phase \in {"idle", "send", "read"}
  /\ n \in Ops \cup {0} /\ tries \in 0 .. Retries + 1 /\ next_id \in 0 .. TxIds - 1
  /\ conn \in Conn \cup {NoConn} /\ first \in BOOLEAN
  /\ \A c \in Conn : link[c].far \in {"none", "backlog", "open", "closed"}
  /\ \A i \in Node : node[i].kind \in {"free", "listen", "slave"}
                     /\ node[i].conn \in Conn \cup {NoConn}
  /\ free_node_count \in 0 .. NodeCount /\ nd \in Node \cup {NoNode}

\* What an operation over TCP returns is the answer to its own query, not a late one to
\* an earlier query, although the ids of the queries wrap around: the connection a reply
\* may still come over is closed (mb_tcp.c:1028).  And where the code tells the slaves
\* apart, by the echo of the query or by the connection, it is from the slave asked.
AnswersItsQuery ==
  result.code = "OK" => /\ ~Serial => result.n = n
                        /\ medium # "bus" => result.unit = op.unit

\* An operation is carried out at most once for every query it may send,
\* over every layer: send_retries bounds what the slaves do (mb_master.c:208).
RetryBound == \A k \in Ops : executed[k] <= Retries + 1

\* The slave holds every connection it accepted and has not closed by exactly one node,
\* no other node holds one, and the counter that decides whether it still listens counts
\* the free nodes (mb_tcp.c:232, 259 and accept_connection).
NodesAccounted ==
  /\ \A c \in Conn : Cardinality({i \in Node : node[i].conn = c})
                     = (IF link[c].far = "open" THEN 1 ELSE 0)
  /\ \A i \in Node : node[i].kind # "slave" => node[i].conn = NoConn
  /\ free_node_count = Cardinality({i \in Node : node[i].kind = "free"})

\* An operation ends, whatever the devices, the slave and the line do: every
\* wait has a timeout and the retries are counted (mb_transaction).
OperationEnds == phase # "idle" ~> phase = "idle"
=============================================================================
