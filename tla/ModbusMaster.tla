----------------------------- MODULE ModbusMaster -----------------------------
(***************************************************************************)
(* The Modbus master: the transactions of protocol/mb_master.c over the    *)
(* three layers below it, frame by frame.  Medium "bus" is a serial line   *)
(* (mb_rtu.c and mb_ascii.c, which differ only below the frame), "echo"    *)
(* one that also hears what it sends, and "tcp" is mb_tcp.c.  The devices  *)
(* of a serial line are external: they answer, late or never.  What is at  *)
(* the far end of a TCP connection is ModbusSlave.                         *)
(***************************************************************************)
EXTENDS Integers, Sequences

CONSTANTS Unit,       \* slave addresses
          Addr,       \* addresses of registers
          Retries,    \* send_retries of the network
          TxIds,      \* transaction ids before next_id wraps: 2^16
          MaxConn,    \* bound: TCP connections that are made
          MaxOps      \* bound: operations asked of the master

NoConn == 0
Conn == 1 .. MaxConn
Ops == 1 .. MaxOps
Fn == {"read", "write"}
ASSUME ModbusAssumption ==
  /\ MaxConn \in Nat /\ MaxOps \in Nat
  /\ Retries \in Nat /\ TxIds \in Nat \ {0}

VARIABLES medium,     \* the layer 1 library the master is compiled with
          phase,      \* "idle", "send" or "read": where mb_transaction stands
          n, op,      \* number of the operation, and what it asks
          tries,      \* send_retries, counting down
          next_id,    \* of next_transaction_id
          result,     \* what the last operation returned
          conn,       \* node[nd].fd: the connection of the master, or none
          link,       \* the TCP connections: both queues, both ends
          at,         \* queries each serial device has received and not answered
          rx,         \* frames arrived on the serial line and not yet read
          first,      \* read: no frame was read since the query was sent (iter = 0)
          executed    \* history: how often a slave carried out operation k
master == <<phase, n, op, tries, next_id, result, conn, first>>
wire == <<link, at, rx>>

NoOp == [fn |-> "none", unit |-> NoConn, addr |-> NoConn]
NoLink == [up |-> <<>>, down |-> <<>>, open |-> FALSE, far |-> "none"]
NoResult == [code |-> "none", n |-> 0, unit |-> NoConn]

MasterInit ==
  /\ medium \in {"bus", "echo", "tcp"}
  /\ phase = "idle" /\ n = 0 /\ op = NoOp /\ tries = 0 /\ next_id = 0
  /\ result = NoResult /\ conn = NoConn /\ first = FALSE
  /\ link = [c \in Conn |-> NoLink]
  /\ at = [u \in Unit |-> <<>>] /\ rx = <<>>
  /\ executed = [k \in Ops |-> 0]

Serial == medium # "tcp"

\* The id sent with the current query: next_id was stepped when it was taken.
TxId == (next_id + TxIds - 1) % TxIds
Query(id) == [fn |-> op.fn, unit |-> op.unit, addr |-> op.addr, id |-> id, n |-> n]
\* What a slave answers; the reply to a read does not say what was read.
Reply(q, kind) == [kind |-> kind, fn |-> q.fn, unit |-> q.unit,
                   addr |-> IF q.fn = "read" THEN NoConn ELSE q.addr, id |-> q.id, n |-> q.n]
Echo(q) == [kind |-> "echo", fn |-> q.fn, unit |-> q.unit, addr |-> q.addr, id |-> q.id, n |-> q.n]
-----------------------------------------------------------------------------
\* The operation ends with this code; f is the frame it is based on.
Finish(code, f) ==
  /\ phase' = "idle" /\ tries' = 0
  /\ result' = [code |-> code, n |-> f.n, unit |-> f.unit]
  /\ UNCHANGED <<n, op>>
NoFrame == [n |-> 0, unit |-> NoConn]

AgainForever(error) ==                     \* mutant: the tries are not counted
  /\ phase' = "send" /\ UNCHANGED <<n, op, tries, result>>
\* error = ...; continue: the next try, or the end of them.
Again(error) ==
  IF tries > 1 THEN /\ tries' = tries - 1 /\ phase' = "send"
                    /\ UNCHANGED <<n, op, result>>
               ELSE Finish(error, NoFrame)

\* io_hw_read or io_hw_write of one point.
Begin(fn, u, a) ==
  /\ phase = "idle" /\ n + 1 \in Ops
  /\ n' = n + 1 /\ op' = [fn |-> fn, unit |-> u, addr |-> a]
  /\ tries' = Retries + 1 /\ phase' = "send"
  /\ result' = NoResult
  /\ UNCHANGED <<medium, next_id, conn, first, wire, executed>>

\* io_hw_write_end: the TCP connections are closed until they are needed again.
Silence ==
  /\ phase = "idle" /\ ~Serial /\ conn # NoConn
  /\ link' = [link EXCEPT ![conn].open = FALSE]
  /\ conn' = NoConn
  /\ UNCHANGED <<medium, phase, n, op, tries, next_id, result, first, at, rx, executed>>

IdGrows == next_id' = next_id + 1          \* mutant: the id does not wrap
NextId == next_id' = (next_id + 1) % TxIds
-----------------------------------------------------------------------------
(***************************************************************************)
(* modbus_write                                                            *)
(***************************************************************************)
\* The line is silent, what was received is thrown away, the query goes out:
\* a device hears it, or it is lost.
SerialWrite ==
  LET q == Query(next_id) IN
  /\ phase = "send" /\ Serial
  /\ rx' = IF medium = "echo" THEN <<Echo(q)>> ELSE <<>>
  /\ at' \in {at, [at EXCEPT ![op.unit] = Append(@, q)]}
  /\ NextId /\ phase' = "read" /\ first' = TRUE
  /\ UNCHANGED <<medium, n, op, tries, result, conn, link, executed>>

Fresh == {c \in Conn : link[c].far = "none"}
\* open_connection if there is none, then sendmsg.  What is sent to an end
\* that is closed already is lost.
TcpWrite ==
  /\ phase = "send" /\ ~Serial
  /\ \E c \in Conn :
       /\ IF conn # NoConn THEN c = conn ELSE c \in Fresh /\ \A d \in Fresh : c <= d
       /\ conn' = c
       /\ link' = [link EXCEPT ![c] =
                     [up |-> IF @.far = "closed" THEN @.up ELSE Append(@.up, Query(next_id)),
                      down |-> @.down, open |-> TRUE,
                      far |-> IF conn = NoConn THEN "backlog" ELSE @.far]]
  /\ NextId /\ phase' = "read"
  /\ UNCHANGED <<medium, n, op, tries, result, first, at, rx, executed>>

\* The port fails, or the connection cannot be made or is found broken; on
\* the line the frames of earlier replies are gone all the same.
WriteFails ==
  /\ phase = "send"
  /\ Again("PORT_FAILURE") /\ NextId
  /\ rx' = <<>>
  /\ conn' = NoConn
  /\ link' = IF conn = NoConn THEN link ELSE [link EXCEPT ![conn].open = FALSE]
  /\ UNCHANGED <<medium, first, at, executed>>
-----------------------------------------------------------------------------
(***************************************************************************)
(* modbus_read                                                             *)
(***************************************************************************)
AnySlave(f) ==                             \* mutant: only the echo is left out
  medium = "bus" \/ ~(first /\ f.kind = "echo" /\ f.n = n)
\* The loop of modbus_rtu_read and modbus_ascii_read: which frames it returns.
Accept(f) ==
  \/ medium = "bus"
  \/ /\ ~(first /\ f.kind = "echo" /\ f.n = n)
     /\ f.unit = op.unit
Skip ==
  /\ phase = "read" /\ Serial /\ rx # <<>> /\ ~Accept(Head(rx))
  /\ rx' = Tail(rx) /\ first' = FALSE
  /\ UNCHANGED <<medium, phase, n, op, tries, next_id, result, conn, link, at, executed>>

\* The rest of mb_transaction, and the checks of its callers.
Judge(f) ==
  CASE f.id # TxId /\ ~Serial -> Again("INVALID_FRAME")
    [] ~(f.id # TxId /\ ~Serial) /\ f.fn # op.fn -> Again("INVALID_FRAME")
    [] ~(f.id # TxId /\ ~Serial) /\ f.fn = op.fn ->
         IF f.kind = "exception" THEN Finish("MODBUS_ERROR", f)
         ELSE IF f.kind = "echo" \/ (f.fn = "write" /\ f.addr # op.addr)
              THEN Finish("INVALID_FRAME", f)
              ELSE Finish("OK", f)
SerialRead ==
  /\ phase = "read" /\ Serial /\ rx # <<>> /\ Accept(Head(rx))
  /\ rx' = Tail(rx) /\ first' = FALSE
  /\ Judge(Head(rx))
  /\ UNCHANGED <<medium, next_id, conn, link, at, executed>>
TcpRead ==
  /\ phase = "read" /\ ~Serial /\ link[conn].down # <<>>
  /\ link' = [link EXCEPT ![conn].down = Tail(@)]
  /\ Judge(Head(link[conn].down))
  /\ UNCHANGED <<medium, next_id, conn, first, at, rx, executed>>

TimeoutWaits ==                            \* mutant: the wait starts again
  /\ phase = "read" /\ Serial /\ rx = <<>>
  /\ UNCHANGED <<medium, master, wire, executed>>
\* On the line a timeout ends the operation.
SerialTimeout ==
  /\ phase = "read" /\ Serial /\ rx = <<>>
  /\ Finish("TIMEOUT", NoFrame)
  /\ UNCHANGED <<medium, next_id, conn, first, wire, executed>>
TcpKeeps ==                                \* mutant: the connection is left open
  /\ phase = "read" /\ ~Serial
  /\ Again("PORT_FAILURE")
  /\ UNCHANGED <<medium, next_id, conn, first, wire, executed>>
\* A timeout, the end of the stream or an error: the connection is closed, and
\* the look at the closed connection is what modbus_tcp_read returns: an error.
TcpFails ==
  /\ phase = "read" /\ ~Serial
  /\ link' = [link EXCEPT ![conn].open = FALSE]
  /\ conn' = NoConn
  /\ Again("PORT_FAILURE")
  /\ UNCHANGED <<medium, next_id, first, at, rx, executed>>
-----------------------------------------------------------------------------
\* A serial device carries out the oldest query it has; the answer may be lost.
Device(u) ==
  /\ Serial /\ at[u] # <<>>
  /\ at' = [at EXCEPT ![u] = Tail(@)]
  /\ executed' = [executed EXCEPT ![Head(at[u]).n] = @ + 1]
  /\ rx' \in {rx} \cup {Append(rx, Reply(Head(at[u]), k)) : k \in {"answer", "exception"}}
  /\ UNCHANGED <<medium, master, link>>

MasterStep ==
  \/ SerialWrite \/ TcpWrite \/ WriteFails
  \/ Skip \/ SerialRead \/ TcpRead \/ SerialTimeout \/ TcpFails
MasterNext ==
  \/ \E fn \in Fn, u \in Unit, a \in Addr : Begin(fn, u, a)
  \/ Silence \/ MasterStep
  \/ \E u \in Unit : Device(u)
=============================================================================
