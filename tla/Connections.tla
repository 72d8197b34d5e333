----------------------------- MODULE Connections -----------------------------
(***************************************************************************)
(* How requests and responses travel between a server, which spawns a      *)
(* handler for every connection (spawn_connection_handler in               *)
(* src/storage/storage_node.rs), and a client of it: a TcpClient           *)
(* (src/client/tcp_client.rs) that threads share, or a TcpPeerClient       *)
(* (src/client/peer_client.rs) that the tasks of another node share.       *)
(*                                                                         *)
(* Nothing on the wire says which request a response answers: a caller     *)
(* takes the next response on its connection for its own. Connections      *)
(* break, writes fail after a part of the frame is sent, and a thread      *)
(* stops waiting after its timeout while the server still works.           *)
(*                                                                         *)
(* A connection is one of 1..MaxConns, used in the order in which they are *)
(* opened. A frame is the call that sent it and whether all of it was      *)
(* sent; a response is the call whose request it answers.                  *)
(***************************************************************************)
EXTENDS Naturals, Sequences, FiniteSets

CONSTANTS
    Callers,    \* the threads or tasks that share the client
    NoCaller,
    NoAnswer,
    POOL_SIZE,
    MaxCalls,   \* bound on the calls of a caller
    MaxConns,   \* bound on the connections ever opened
    MaxBreaks   \* bound on the connections that break

ASSUME ConnectionsAssumption ==
    /\ NoCaller \notin Callers
    /\ NoAnswer \notin Callers \X (1..MaxCalls)
    /\ POOL_SIZE \in Nat
    /\ MaxCalls \in Nat
    /\ MaxConns \in Nat
    /\ MaxBreaks \in Nat

Calls == Callers \X (1..MaxCalls)

Conns == 1..MaxConns

NoConn == 0

VARIABLES
    client,     \* "TcpClient" or "TcpPeerClient"
    pc,         \* where a caller is in its call, "idle" between calls
    number,     \* how many calls a caller has made
    conn,       \* the connection a caller uses, NoConn when it has none
    mutex,      \* the caller that holds TcpClient::connection
    stored,     \* the connection in TcpClient::connection
    pool,       \* TcpPeerClient::pool
    opened,     \* how many connections have been opened
    link,       \* "unused", "open", "closed" by the client, or "broken"
    timed,      \* whether reads from the connection time out
    out,        \* the frames on their way to the server
    back,       \* the responses on their way to the client
    handler,    \* of each connection: what it does, and for which call
    executions, \* how often the server executed the request of a call
    answer,     \* the response that a call returned
    breaks

client_vars == <<client, pc, number, conn, mutex, stored, pool, opened, timed, answer>>

server_vars == <<handler, executions>>

vars == <<client_vars, server_vars, link, out, back, breaks>>

IsTcpClient == client = "TcpClient"

Current(p) == <<p, number[p]>>

Frame(call, whole) == [call |-> call, whole |-> whole]

Waiting == [stage |-> "reading"]

Ended == [stage |-> "ended"]

Working(stage, call) == [stage |-> stage, call |-> call]

------------------------------------------------------------------------------
Init ==
    /\ client \in {"TcpClient", "TcpPeerClient"}
    /\ pc = [p \in Callers |-> "idle"]
    /\ number = [p \in Callers |-> 0]
    /\ conn = [p \in Callers |-> NoConn]
    /\ mutex = NoCaller
    /\ stored = NoConn
    /\ pool = {}
    /\ opened = 0
    /\ link = [c \in Conns |-> "unused"]
    /\ timed = [c \in Conns |-> FALSE]
    /\ out = [c \in Conns |-> <<>>]
    /\ back = [c \in Conns |-> <<>>]
    /\ handler = [c \in Conns |-> Ended]
    /\ executions = [call \in Calls |-> 0]
    /\ answer = [call \in Calls |-> NoAnswer]
    /\ breaks = 0

\* A thread waits for the mutex first, a task connects at once.
Invoke(p) ==
    /\ pc[p] = "idle"
    /\ number[p] < MaxCalls
    /\ number' = [number EXCEPT ![p] = @ + 1]
    /\ pc' = [pc EXCEPT ![p] = IF IsTcpClient THEN "lock" ELSE "connect"]
    /\ UNCHANGED <<client, conn, mutex, stored, pool, opened, link, timed, out, back, server_vars,
                   answer, breaks>>

\* The lock of send_and_receive, held until it returns. It takes the stored
\* connection out, so that an error on the way leaves none behind.
Acquire(t) ==
    /\ pc[t] = "lock"
    /\ mutex = NoCaller
    /\ mutex' = t
    /\ stored' = NoConn
    /\ conn' = [conn EXCEPT ![t] = stored]
    /\ pc' = [pc EXCEPT ![t] = IF stored = NoConn THEN "connect" ELSE "write"]
    /\ UNCHANGED <<client, number, pool, opened, link, timed, out, back, server_vars, answer, breaks>>

\* TcpPeerClient::connect with a connection in the pool
TakeFromPool(p) ==
    /\ pc[p] = "connect"
    /\ \E c \in pool :
        /\ pool' = pool \ {c}
        /\ conn' = [conn EXCEPT ![p] = c]
    /\ pc' = [pc EXCEPT ![p] = "write"]
    /\ UNCHANGED <<client, number, mutex, stored, opened, link, timed, out, back, server_vars, answer,
                   breaks>>

\* The client drops a stream.
Dropped(c) == IF c # NoConn /\ link[c] = "open" THEN [link EXCEPT ![c] = "closed"] ELSE link

\* A bug to compare with: the second connection gets no timeouts.
OpenFirstTimed(p, next) ==
    /\ opened < MaxConns
    /\ opened' = opened + 1
    /\ conn' = [conn EXCEPT ![p] = opened + 1]
    /\ link' = [Dropped(conn[p]) EXCEPT ![opened + 1] = "open"]
    /\ timed' = [timed EXCEPT ![opened + 1] = IsTcpClient /\ pc[p] = "connect"]
    /\ handler' = [handler EXCEPT ![opened + 1] = Waiting]
    /\ pc' = [pc EXCEPT ![p] = next]
    /\ UNCHANGED <<client, number, mutex, stored, pool, out, back, executions, answer, breaks>>

\* A new connection, for which the server spawns a handler, in the place of
\* the one the caller has. TcpClient sets timeouts, TcpPeerClient does not.
Open(p, next) ==
    /\ opened < MaxConns
    /\ opened' = opened + 1
    /\ conn' = [conn EXCEPT ![p] = opened + 1]
    /\ link' = [Dropped(conn[p]) EXCEPT ![opened + 1] = "open"]
    /\ timed' = [timed EXCEPT ![opened + 1] = IsTcpClient]
    /\ handler' = [handler EXCEPT ![opened + 1] = Waiting]
    /\ pc' = [pc EXCEPT ![p] = next]
    /\ UNCHANGED <<client, number, mutex, stored, pool, out, back, executions, answer, breaks>>

Connect(p) ==
    /\ pc[p] = "connect"
    /\ pool = {}
    /\ Open(p, "write")

\* "Retry once", after a write that failed
Reconnect(t) ==
    /\ pc[t] = "reconnect"
    /\ Open(t, "rewrite")

\* Returning drops what the caller holds.
Release(p) ==
    /\ pc' = [pc EXCEPT ![p] = "idle"]
    /\ conn' = [conn EXCEPT ![p] = NoConn]
    /\ mutex' = IF mutex = p THEN NoCaller ELSE mutex
    /\ UNCHANGED <<client, number, opened, timed, breaks>>

\* A bug to compare with: the connection is stored back after an error, too.
FailKeepsConnection(p) ==
    /\ Release(p)
    /\ IF IsTcpClient
       THEN stored' = conn[p] /\ UNCHANGED pool
       ELSE pool' = pool \cup ({conn[p]} \ {NoConn}) /\ UNCHANGED stored
    /\ UNCHANGED <<link, answer>>

\* The "?" of an io::Error: the stream goes out of scope, and is not reused.
Fail(p) ==
    /\ Release(p)
    /\ link' = Dropped(conn[p])
    /\ UNCHANGED <<stored, pool, answer>>

ConnectFails(p) ==
    /\ pc[p] \in {"connect", "reconnect"}
    /\ pc[p] = "connect" => pool = {}
    /\ Fail(p)
    /\ UNCHANGED <<out, back, server_vars>>

\* write_all succeeds when the kernel has taken all bytes. On a connection
\* that has broken unnoticed they are lost.
Write(p) ==
    /\ pc[p] \in {"write", "rewrite"}
    /\ out' = IF link[conn[p]] = "open"
              THEN [out EXCEPT ![conn[p]] = Append(@, Frame(Current(p), TRUE))]
              ELSE out
    /\ pc' = [pc EXCEPT ![p] = "read"]
    /\ UNCHANGED <<client, number, conn, mutex, stored, pool, opened, link, timed, back, server_vars,
                   answer, breaks>>

\* write_all fails when the connection has broken or times out. The kernel
\* has taken a part of the frame at most.
PartlyWritten(p) ==
    out' \in {out} \cup (IF link[conn[p]] = "open"
                         THEN {[out EXCEPT ![conn[p]] = Append(@, Frame(Current(p), FALSE))]}
                         ELSE {})

WriteFails(p) ==
    /\ pc[p] \in {"write", "rewrite"}
    /\ PartlyWritten(p)
    /\ IF IsTcpClient /\ pc[p] = "write"
       THEN /\ pc' = [pc EXCEPT ![p] = "reconnect"]
            /\ UNCHANGED <<client, number, conn, mutex, stored, pool, opened, link, timed, answer, breaks>>
       ELSE Fail(p)
    /\ UNCHANGED <<back, server_vars>>

\* A bug to compare with: "<=" for "<" in return_connection.
ReadResponseOverfills(p) ==
    /\ pc[p] = "read"
    /\ back[conn[p]] # <<>>
    /\ answer' = [answer EXCEPT ![Current(p)] = Head(back[conn[p]])]
    /\ back' = [back EXCEPT ![conn[p]] = Tail(@)]
    /\ Release(p)
    /\ IF IsTcpClient
       THEN stored' = conn[p] /\ UNCHANGED <<pool, link>>
       ELSE /\ UNCHANGED stored
            /\ IF Cardinality(pool) <= POOL_SIZE
               THEN pool' = pool \cup {conn[p]} /\ UNCHANGED link
               ELSE link' = Dropped(conn[p]) /\ UNCHANGED pool
    /\ UNCHANGED <<out, server_vars>>

\* "If the connection is still working, store it back"; return_connection
\* drops it when the pool is full.
ReadResponse(p) ==
    /\ pc[p] = "read"
    /\ back[conn[p]] # <<>>
    /\ answer' = [answer EXCEPT ![Current(p)] = Head(back[conn[p]])]
    /\ back' = [back EXCEPT ![conn[p]] = Tail(@)]
    /\ Release(p)
    /\ IF IsTcpClient
       THEN stored' = conn[p] /\ UNCHANGED <<pool, link>>
       ELSE /\ UNCHANGED stored
            /\ IF Cardinality(pool) < POOL_SIZE
               THEN pool' = pool \cup {conn[p]} /\ UNCHANGED link
               ELSE link' = Dropped(conn[p]) /\ UNCHANGED pool
    /\ UNCHANGED <<out, server_vars>>

NoResponse(p) ==
    /\ pc[p] = "read"
    /\ back[conn[p]] = <<>>
    /\ link[conn[p]] = "broken" \/ timed[conn[p]]

\* A bug to compare with: a request without a response is sent again.
ReadFailsRetries(p) ==
    /\ NoResponse(p)
    /\ IF IsTcpClient
       THEN /\ pc' = [pc EXCEPT ![p] = "reconnect"]
            /\ UNCHANGED <<client, number, conn, mutex, stored, pool, opened, link, timed, answer, breaks>>
       ELSE Fail(p)
    /\ UNCHANGED <<out, back, server_vars>>

\* read_exact fails: the connection broke, or the timeout passed.
ReadFails(p) ==
    /\ NoResponse(p)
    /\ Fail(p)
    /\ UNCHANGED <<out, back, server_vars>>

------------------------------------------------------------------------------
\* reader.next() of the handler returns a whole frame.
Receive(c) ==
    /\ handler[c].stage = "reading"
    /\ out[c] # <<>>
    /\ Head(out[c]).whole
    /\ handler' = [handler EXCEPT ![c] = Working("running", Head(out[c]).call)]
    /\ out' = [out EXCEPT ![c] = Tail(@)]
    /\ UNCHANGED <<client_vars, executions, link, back, breaks>>

\* reader.next() returns None, or an error for a frame that ends early.
HangUp(c) ==
    /\ handler[c].stage = "reading"
    /\ link[c] # "open"
    /\ out[c] # <<>> => ~Head(out[c]).whole
    /\ handler' = [handler EXCEPT ![c] = Ended]
    /\ UNCHANGED <<client_vars, executions, link, out, back, breaks>>

\* request_router, whether or not anyone still waits for the response
Execute(c) ==
    /\ handler[c].stage = "running"
    /\ executions' = [executions EXCEPT ![handler[c].call] = @ + 1]
    /\ handler' = [handler EXCEPT ![c] = Working("replying", handler[c].call)]
    /\ UNCHANGED <<client_vars, link, out, back, breaks>>

\* write_all of the response; the handler returns when that fails.
Reply(c) ==
    /\ handler[c].stage = "replying"
    /\ IF link[c] = "open"
       THEN /\ back' = [back EXCEPT ![c] = Append(@, handler[c].call)]
            /\ handler' = [handler EXCEPT ![c] = Waiting]
       ELSE /\ handler' = [handler EXCEPT ![c] = Ended]
            /\ UNCHANGED back
    /\ UNCHANGED <<client_vars, executions, link, out, breaks>>

\* The connection breaks, and what is on its way is lost: the network fails,
\* the server stops, or the handler panics.
Break(c) ==
    /\ breaks < MaxBreaks
    /\ link[c] = "open"
    /\ breaks' = breaks + 1
    /\ link' = [link EXCEPT ![c] = "broken"]
    /\ out' = [out EXCEPT ![c] = <<>>]
    /\ back' = [back EXCEPT ![c] = <<>>]
    /\ UNCHANGED <<client_vars, server_vars>>

Done ==
    /\ \A p \in Callers : pc[p] = "idle" /\ number[p] = MaxCalls
    /\ UNCHANGED vars

CallerStep(p) ==
    \/ Acquire(p)
    \/ TakeFromPool(p)
    \/ Connect(p)
    \/ Reconnect(p)
    \/ ConnectFails(p)
    \/ Write(p)
    \/ WriteFails(p)
    \/ ReadResponse(p)
    \/ ReadFails(p)

ServerStep(c) == Receive(c) \/ HangUp(c) \/ Execute(c) \/ Reply(c)

Next ==
    \/ \E p \in Callers : Invoke(p) \/ CallerStep(p)
    \/ \E c \in Conns : ServerStep(c) \/ Break(c)
    \/ Done

Spec == Init /\ [][Next]_vars

\* A thread that can go on does: its system calls return, at the latest when
\* their timeout has passed. Nothing is assumed of the server.
FairSpec == Spec /\ \A p \in Callers : WF_vars(IsTcpClient /\ CallerStep(p))

------------------------------------------------------------------------------
Types ==
    /\ client \in {"TcpClient", "TcpPeerClient"}
    /\ pc \in [Callers -> {"idle", "lock", "connect", "write", "reconnect", "rewrite", "read"}]
    /\ number \in [Callers -> 0..MaxCalls]
    /\ conn \in [Callers -> Conns \cup {NoConn}]
    /\ mutex \in Callers \cup {NoCaller}
    /\ stored \in Conns \cup {NoConn}
    /\ pool \subseteq Conns
    /\ opened \in 0..MaxConns
    /\ link \in [Conns -> {"unused", "open", "closed", "broken"}]
    /\ timed \in [Conns -> BOOLEAN]
    /\ out \in [Conns -> Seq([call : Calls, whole : BOOLEAN])]
    /\ back \in [Conns -> Seq(Calls)]
    /\ handler \in [Conns -> {Waiting, Ended}
                             \cup [stage : {"running", "replying"}, call : Calls]]
    /\ executions \in [Calls -> Nat]
    /\ answer \in [Calls -> Calls \cup {NoAnswer}]
    /\ breaks \in 0..MaxBreaks

\* The state has its types, and the pool never holds more than POOL_SIZE
\* connections.
TypeOK == Types /\ Cardinality(pool) <= POOL_SIZE

\* The stages of Rpc: a call that has returned without a response has failed.
Stage == [call \in Calls |->
    LET p == call[1]
    IN  CASE call[2] > number[p] -> "new"
          [] call[2] = number[p] /\ pc[p] # "idle" -> "pending"
          [] OTHER -> IF answer[call] = NoAnswer THEN "failed" ELSE "answered"]

Abstract == INSTANCE Rpc WITH stage <- Stage

\* Whatever breaks or times out, and however threads and tasks take turns,
\* the server executes a request at most once and a call that returns a
\* response returns the one to its own request: send_and_receive, with its
\* one retry, and the pool of TcpPeerClient implement Rpc.
ImplementsRpc == Abstract!Spec

\* A connection that waits for its next user, in TcpClient::connection or in
\* the pool, has nothing on its way in either direction and an idle handler,
\* and nobody uses it: a late response of one call never waits there for
\* another call.
IdleConnectionsAreQuiet ==
    \A c \in pool \cup ({stored} \ {NoConn}) :
        /\ out[c] = <<>> /\ back[c] = <<>>
        /\ handler[c] \in {Waiting, Ended}
        /\ \A p \in Callers : conn[p] # c

\* Every call of a TcpClient returns, though the server may never answer and
\* others wait for the same mutex: no read goes without a timeout, and no
\* path out of send_and_receive keeps the mutex.
ThreadsReturn == \A p \in Callers : IsTcpClient /\ pc[p] # "idle" ~> pc[p] = "idle"
==============================================================================
