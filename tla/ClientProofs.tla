----------------------------- MODULE ClientProofs -----------------------------
(***************************************************************************)
(* Proofs about how a request gets from one node to another (src/client).  *)
(*                                                                         *)
(* Connections: for any number of callers, calls, connections and breaks,  *)
(* and any size of the pool, the server executes a request at most once,   *)
(* and a call returns the response to its own request or an error.         *)
(*                                                                         *)
(* Placement: for every cluster, every number of replicas that divides its *)
(* size, and every request, the request is sent to a node that has the     *)
(* group.                                                                  *)
(***************************************************************************)
EXTENDS Connections, Placement, TLAPS, FiniteSetTheorems

FrameRecords == [call : Calls, whole : BOOLEAN]

Resting(c) == handler[c].stage \in {"reading", "ended"}

Quiet(c) == out[c] = <<>> /\ back[c] = <<>> /\ Resting(c)

\* The request of call k is at connection c and will be executed.
Unexecuted(c, k) ==
    \/ out[c] = <<Frame(k, TRUE)>>
    \/ handler[c].stage = "running" /\ handler[c].call = k

\* The response to call k is at connection c.
Executed(c, k) ==
    \/ handler[c].stage = "replying" /\ handler[c].call = k
    \/ back[c] = <<k>>

\* The request of call k was written, to the last byte.
Sent(k) ==
    /\ k[2] <= number[k[1]]
    /\ k[2] = number[k[1]] => pc[k[1]] \in {"idle", "read"}

\* Nobody shares a connection, and nobody uses one that waits for its next user.
Ownership ==
    /\ \A p \in Callers : conn[p] # NoConn <=> pc[p] \in {"write", "reconnect", "rewrite", "read"}
    /\ \A p, q \in Callers : conn[p] # NoConn /\ conn[p] = conn[q] => p = q
    /\ \A p \in Callers : conn[p] # NoConn => conn[p] \notin pool /\ conn[p] # stored
    /\ \A p \in Callers : conn[p] <= opened
    /\ stored <= opened
    /\ \A c \in pool : c <= opened
    /\ IsTcpClient => pool = {}
    /\ ~IsTcpClient => stored = NoConn

\* A connection carries one request or response at a time, and that is the
\* reader's; there is none when a caller begins to write.
Contents ==
    /\ \A c \in Conns : c > opened => Quiet(c)
    /\ \A c \in Conns : out[c] = <<>> \/ \E k \in Calls, w \in BOOLEAN : out[c] = <<Frame(k, w)>>
    /\ \A c \in Conns : back[c] = <<>> \/ \E k \in Calls : back[c] = <<k>>
    /\ \A c \in Conns : back[c] # <<>> => out[c] = <<>> /\ Resting(c)
    /\ \A c \in Conns : ~Resting(c) => out[c] = <<>>
    /\ \A c \in pool : Quiet(c)
    /\ stored # NoConn => Quiet(stored)
    /\ \A p \in Callers : pc[p] \in {"write", "rewrite"} => Quiet(conn[p])
    /\ \A p \in Callers, k \in Calls :
        pc[p] = "read" /\ (Unexecuted(conn[p], k) \/ Executed(conn[p], k)) => k = Current(p)

\* A request is executed at most once, for it is at one place at most before.
AtMostOnce ==
    /\ \A k \in Calls : executions[k] \in {0, 1}
    /\ \A k \in Calls : executions[k] = 1 => Sent(k)
    /\ \A c \in Conns, k \in Calls : Unexecuted(c, k) => executions[k] = 0 /\ Sent(k)
    /\ \A c, d \in Conns, k \in Calls : Unexecuted(c, k) /\ Unexecuted(d, k) => c = d
    /\ \A c \in Conns, k \in Calls : Executed(c, k) => executions[k] = 1

\* Only calls that have returned have answers.
Answers ==
    \A k \in Calls : answer[k] # NoAnswer =>
        k[2] < number[k[1]] \/ (k[2] = number[k[1]] /\ pc[k[1]] = "idle")

\* The inductive invariant
ConnInv == Types /\ Ownership /\ Contents /\ AtMostOnce /\ Answers

------------------------------------------------------------------------------
\* What the sequences of at most one element do.
LEMMA Singletons ==
    ASSUME NEW S, NEW x \in S, NEW y \in S
    PROVE  /\ Append(<<>>, x) = <<x>>
           /\ <<x>> # <<>>
           /\ Head(<<x>>) = x
           /\ Tail(<<x>>) = <<>>
           /\ <<x>> = <<y>> => x = y
    OBVIOUS

\* What the operators on sequences return.
LEMMA SequenceTypes ==
    ASSUME NEW S, NEW q \in Seq(S), NEW x \in S
    PROVE  /\ <<>> \in Seq(S)
           /\ Append(q, x) \in Seq(S)
           /\ q # <<>> => Head(q) \in S /\ Tail(q) \in Seq(S)
    OBVIOUS

\* Frames are told apart by their parts.
LEMMA Frames ==
    ASSUME NEW k \in Calls, NEW w \in BOOLEAN
    PROVE  /\ Frame(k, w) \in FrameRecords
           /\ Frame(k, w).call = k
           /\ Frame(k, w).whole = w
    BY Zenon DEF Frame, FrameRecords

\* The call that a caller is in is one of the calls.
LEMMA CurrentIsCall ==
    ASSUME Types, NEW p \in Callers, number[p] # 0
    PROVE  Current(p) \in Calls
    BY ConnectionsAssumption DEF Types, Current, Calls

------------------------------------------------------------------------------
\* Types is inductive, given that a caller has made a call it is in.
Begun == \A p \in Callers : pc[p] # "idle" => number[p] # 0

\* The invariant holds before anybody has called.
LEMMA InitInv == Init => ConnInv /\ Begun
<1> SUFFICES ASSUME Init PROVE ConnInv /\ Begun
    BY Zenon
<1>1. Types
    BY ConnectionsAssumption DEF Init, Types, Conns, NoConn
<1>2. Ownership
    BY ConnectionsAssumption DEF Init, Ownership, Conns, NoConn
<1>3. /\ \A c \in Conns : Quiet(c)
      /\ \A c \in Conns, k \in Calls : ~Unexecuted(c, k) /\ ~Executed(c, k)
    BY Singletons, Frames, Zenon DEF Init, Quiet, Resting, Ended, Unexecuted, Executed
<1>4. Contents
    BY <1>3, Zenon DEF Init, Contents, Quiet
<1>5. AtMostOnce /\ Answers /\ Begun
    BY <1>3 DEF Init, AtMostOnce, Answers, Begun
<1> QED
    BY <1>1, <1>2, <1>4, <1>5, Zenon DEF ConnInv

\* Every step of a caller, of the server and of the network keeps the types.
LEMMA TypesHold ==
    ASSUME Types, Begun, Ownership, [Next]_vars
    PROVE  Types' /\ Begun'
<1> USE DEF Conns, NoConn
<1>a. MaxCalls \in Nat /\ MaxConns \in Nat /\ MaxBreaks \in Nat
    BY ConnectionsAssumption, Zenon
<1>b. number \in [Callers -> 0..MaxCalls] /\ breaks \in 0..MaxBreaks /\ opened \in 0..MaxConns
    BY Zenon DEF Types
<1>c. conn \in [Callers -> Conns \cup {NoConn}] /\ pool \subseteq Conns
    BY Zenon DEF Types
<1>d. out \in [Conns -> Seq(FrameRecords)] /\ back \in [Conns -> Seq(Calls)]
    BY Zenon DEF Types, FrameRecords
<1>e. handler \in [Conns -> {Waiting, Ended}
                            \cup [stage : {"running", "replying"}, call : Calls]]
    BY Zenon DEF Types
<1>1. ASSUME NEW p \in Callers, Invoke(p) PROVE Types' /\ Begun'
    <2>1. number[p] + 1 \in 0..MaxCalls
        BY <1>1, <1>a, <1>b DEF Invoke
    <2>2. number' \in [Callers -> 0..MaxCalls] /\ number'[p] # 0
        BY <1>1, <2>1 DEF Types, Invoke
    <2>3. pc' \in [Callers -> {"idle", "lock", "connect", "write", "reconnect", "rewrite", "read"}]
        BY <1>1, Zenon DEF Types, Invoke
    <2>4. Begun'
        BY <1>1, <2>2, Zenon DEF Types, Begun, Invoke
    <2> QED
        BY <1>1, <2>2, <2>3, <2>4, Zenon DEF Types, Invoke, server_vars
<1>2. ASSUME NEW p \in Callers, Acquire(p) PROVE Types' /\ Begun'
    BY <1>2, Zenon DEF Types, Begun, Acquire, server_vars
<1>3. ASSUME NEW p \in Callers, TakeFromPool(p) PROVE Types' /\ Begun'
    BY <1>3, Zenon DEF Types, Begun, TakeFromPool, server_vars
<1>4. ASSUME NEW p \in Callers, Connect(p) \/ Reconnect(p) PROVE Types' /\ Begun'
    <2>1. PICK next \in {"write", "rewrite"} : pc[p] # "idle" /\ Open(p, next)
        BY <1>4, Zenon DEF Connect, Reconnect
    <2>2. opened + 1 \in Conns /\ opened' \in 0..MaxConns
        BY <1>a, <1>b, <2>1 DEF Open
    <2>3. link' \in [Conns -> {"unused", "open", "closed", "broken"}]
        BY <2>1, <2>2, Zenon DEF Types, Open, Dropped
    <2>4. timed' \in [Conns -> BOOLEAN]
        BY <2>1, <2>2, Zenon DEF Types, Open, IsTcpClient
    <2>5. conn' \in [Callers -> Conns \cup {NoConn}]
        BY <2>1, <2>2, Zenon DEF Types, Open
    <2>6. handler' \in [Conns -> {Waiting, Ended}
                                 \cup [stage : {"running", "replying"}, call : Calls]]
        BY <2>1, <2>2, Zenon DEF Types, Open
    <2>7. Begun'
        BY <2>1, Zenon DEF Types, Begun, Open
    <2> QED
        BY <2>1, <2>2, <2>3, <2>4, <2>5, <2>6, <2>7, Zenon DEF Types, Open
<1>5. ASSUME NEW p \in Callers, ConnectFails(p) \/ ReadFails(p) PROVE Types' /\ Begun'
    <2>1. Fail(p) /\ UNCHANGED <<out, back, server_vars>>
        BY <1>5, Zenon DEF ConnectFails, ReadFails
    <2>2. link' \in [Conns -> {"unused", "open", "closed", "broken"}]
        BY <2>1, Zenon DEF Types, Fail, Dropped
    <2>3. mutex' \in Callers \cup {NoCaller}
        BY <2>1, Zenon DEF Types, Fail, Release
    <2>4. Begun'
        BY <2>1, Zenon DEF Types, Begun, Fail, Release
    <2> QED
        BY <2>1, <2>2, <2>3, <2>4, Zenon DEF Types, Fail, Release, server_vars
<1>6. ASSUME NEW p \in Callers, Write(p) PROVE Types' /\ Begun'
    <2>1. Frame(Current(p), TRUE) \in FrameRecords
        BY <1>6, CurrentIsCall, Frames, Zenon DEF Begun, Write
    <2>2. conn[p] \in Conns
        BY <1>6, Zenon DEF Types, Ownership, Write
    <2>3. Append(out[conn[p]], Frame(Current(p), TRUE)) \in Seq(FrameRecords)
        BY <1>d, <2>1, <2>2, SequenceTypes, Zenon
    <2>4. out' \in [Conns -> Seq(FrameRecords)]
        BY <1>6, <1>d, <2>2, <2>3, Zenon DEF Write
    <2> QED
        BY <1>6, <2>4, Zenon DEF Types, Begun, Write, server_vars, FrameRecords
<1>7. ASSUME NEW p \in Callers, WriteFails(p) PROVE Types' /\ Begun'
    <2>1. Frame(Current(p), FALSE) \in FrameRecords
        BY <1>7, CurrentIsCall, Frames, Zenon DEF Begun, WriteFails
    <2>2. conn[p] \in Conns
        BY <1>7, Zenon DEF Types, Ownership, WriteFails
    <2>3. Append(out[conn[p]], Frame(Current(p), FALSE)) \in Seq(FrameRecords)
        BY <1>d, <2>1, <2>2, SequenceTypes, Zenon
    <2>4. out' \in [Conns -> Seq(FrameRecords)]
        BY <1>7, <1>d, <2>2, <2>3, Zenon DEF WriteFails, PartlyWritten
    <2>5. Dropped(conn[p]) \in [Conns -> {"unused", "open", "closed", "broken"}]
        BY <2>2, Zenon DEF Types, Dropped
    <2>6. link' \in [Conns -> {"unused", "open", "closed", "broken"}]
        BY <1>7, <2>5, Zenon DEF Types, WriteFails, Fail
    <2> QED
        BY <1>7, <2>4, <2>6, Zenon
        DEF Types, Begun, WriteFails, server_vars, Fail, Release, FrameRecords
<1>8. ASSUME NEW p \in Callers, ReadResponse(p) PROVE Types' /\ Begun'
    <2>1. conn[p] \in Conns
        BY <1>8, Zenon DEF Types, Ownership, ReadResponse
    <2>2. Head(back[conn[p]]) \in Calls /\ Tail(back[conn[p]]) \in Seq(Calls)
        BY <1>8, <2>1 DEF Types, ReadResponse
    <2>3. answer' \in [Calls -> Calls \cup {NoAnswer}] /\ back' \in [Conns -> Seq(Calls)]
        BY <1>8, <2>1, <2>2, Zenon DEF Types, ReadResponse
    <2>4. stored' \in Conns \cup {NoConn} /\ pool' \subseteq Conns
        BY <1>8, <1>c, <2>1, Zenon DEF Types, ReadResponse
    <2> QED
        BY <1>8, <2>3, <2>4, Zenon DEF Types, Begun, ReadResponse, Release, Dropped, server_vars
<1>9. ASSUME NEW c \in Conns, Receive(c) PROVE Types' /\ Begun'
    <2>1. /\ Head(out[c]).call \in Calls
          /\ Tail(out[c]) \in Seq(FrameRecords)
        <3>1. out[c] \in Seq(FrameRecords) /\ out[c] # <<>>
            BY <1>9, <1>d, Zenon DEF Receive
        <3>2. Head(out[c]) \in FrameRecords /\ Tail(out[c]) \in Seq(FrameRecords)
            BY <3>1
        <3> QED
            BY <3>2, Zenon DEF FrameRecords
    <2>2. out' \in [Conns -> Seq(FrameRecords)]
        BY <1>9, <1>d, <2>1, Zenon DEF Receive
    <2>3. handler' \in [Conns -> {Waiting, Ended}
                                 \cup [stage : {"running", "replying"}, call : Calls]]
        BY <1>9, <2>1, Zenon DEF Types, Receive, Working
    <2> QED
        BY <1>9, <2>2, <2>3, Zenon DEF Types, Begun, Receive, client_vars, FrameRecords
<1>10. ASSUME NEW c \in Conns, HangUp(c) PROVE Types' /\ Begun'
    BY <1>10, Zenon DEF Types, Begun, HangUp, client_vars
<1>11. ASSUME NEW c \in Conns, Execute(c) PROVE Types' /\ Begun'
    <2>1. handler[c].call \in Calls
        BY <1>11, <1>e DEF Execute, Waiting, Ended
    <2>2. handler' \in [Conns -> {Waiting, Ended}
                                 \cup [stage : {"running", "replying"}, call : Calls]]
        BY <1>11, <2>1, Zenon DEF Types, Execute, Working
    <2>3. executions' \in [Calls -> Nat]
        BY <1>11, <2>1 DEF Types, Execute
    <2> QED
        BY <1>11, <2>2, <2>3, Zenon DEF Types, Begun, Execute, client_vars
<1>12. ASSUME NEW c \in Conns, Reply(c) PROVE Types' /\ Begun'
    <2>1. handler[c].call \in Calls
        BY <1>12, <1>e DEF Reply, Waiting, Ended
    <2>2. back' \in [Conns -> Seq(Calls)]
        <3>1. Append(back[c], handler[c].call) \in Seq(Calls)
            BY <1>d, <2>1, SequenceTypes, Zenon
        <3> QED
            BY <1>12, <1>d, <3>1, Zenon DEF Reply
    <2> QED
        BY <1>12, <2>2, Zenon DEF Types, Begun, Reply, client_vars
<1>13. ASSUME NEW c \in Conns, Break(c) PROVE Types' /\ Begun'
    <2>1. breaks' \in 0..MaxBreaks
        BY <1>13, <1>a, <1>b DEF Break
    <2>2. out' \in [Conns -> Seq(FrameRecords)] /\ back' \in [Conns -> Seq(Calls)]
        <3>1. <<>> \in Seq(FrameRecords) /\ <<>> \in Seq(Calls)
            OBVIOUS
        <3> QED
            BY <1>13, <1>d, <3>1, Zenon DEF Break
    <2> QED
        BY <1>13, <2>1, <2>2, Zenon DEF Types, Begun, Break, client_vars, server_vars, FrameRecords
<1>14. CASE Done \/ UNCHANGED vars
    BY <1>14, Zenon DEF Types, Begun, Done, vars, client_vars, server_vars
<1> QED
    BY <1>1, <1>2, <1>3, <1>4, <1>5, <1>6, <1>7, <1>8, <1>9, <1>10, <1>11, <1>12, <1>13, <1>14, Zenon
    DEF Next, CallerStep, ServerStep

------------------------------------------------------------------------------
\* The connections a caller or the client has were opened, a new one was not.
LEMMA OwnershipHolds ==
    ASSUME Types, Ownership, [Next]_vars
    PROVE  Ownership'
<1> USE DEF NoConn
<1>a. /\ pc \in [Callers -> {"idle", "lock", "connect", "write", "reconnect", "rewrite", "read"}]
      /\ conn \in [Callers -> Nat]
      /\ opened \in Nat
      /\ stored \in Nat
      /\ pool \subseteq Nat
    BY ConnectionsAssumption DEF Types, Conns
<1>b. \A c \in pool : c # NoConn
    BY DEF Types, Conns
<1>c. ASSUME NEW p \in Callers, Release(p), UNCHANGED <<stored, pool>>
      PROVE  Ownership'
    <2>1. pc' = [pc EXCEPT ![p] = "idle"] /\ conn' = [conn EXCEPT ![p] = NoConn]
        BY <1>c, Zenon DEF Release
    <2>2. UNCHANGED <<client, opened, stored, pool>>
        BY <1>c, Zenon DEF Release
    <2> QED
        BY <2>1, <2>2, <1>a DEF Ownership, IsTcpClient
<1>1. ASSUME NEW p \in Callers, Invoke(p) PROVE Ownership'
    BY <1>1, <1>a, Zenon DEF Ownership, Invoke, IsTcpClient
<1>2. ASSUME NEW p \in Callers, Acquire(p) PROVE Ownership'
    BY <1>2, <1>a, Zenon DEF Ownership, Acquire, IsTcpClient
<1>3. ASSUME NEW p \in Callers, TakeFromPool(p) PROVE Ownership'
    <2>1. PICK c \in pool : pool' = pool \ {c} /\ conn' = [conn EXCEPT ![p] = c]
        BY <1>3, Zenon DEF TakeFromPool
    <2>2. pc' = [pc EXCEPT ![p] = "write"] /\ UNCHANGED <<client, stored, opened>>
        BY <1>3, Zenon DEF TakeFromPool
    <2>3. c # NoConn /\ c <= opened /\ stored = NoConn
        BY <2>1, <1>b, Zenon DEF Ownership
    <2> QED
        BY <2>1, <2>2, <2>3, <1>a, Zenon DEF Ownership, IsTcpClient
<1>4. ASSUME NEW p \in Callers, Connect(p) \/ Reconnect(p) PROVE Ownership'
    <2>1. PICK next \in {"write", "rewrite"} : Open(p, next)
        BY <1>4, Zenon DEF Connect, Reconnect
    <2> QED
        BY <2>1, <1>a DEF Ownership, Open, IsTcpClient
<1>5. ASSUME NEW p \in Callers, ConnectFails(p) \/ ReadFails(p) PROVE Ownership'
    <2>1. Release(p) /\ UNCHANGED <<stored, pool>>
        BY <1>5, Zenon DEF ConnectFails, ReadFails, Fail
    <2> QED
        BY <2>1, <1>c, Zenon
<1>6. ASSUME NEW p \in Callers, Write(p) PROVE Ownership'
    BY <1>6, <1>a, Zenon DEF Ownership, Write, IsTcpClient
<1>7. ASSUME NEW p \in Callers, WriteFails(p) PROVE Ownership'
    <2>1. CASE Fail(p)
        BY <2>1, <1>c, Zenon DEF Fail
    <2>2. CASE /\ pc[p] = "write" /\ pc' = [pc EXCEPT ![p] = "reconnect"]
               /\ UNCHANGED <<client, conn, stored, pool, opened>>
        BY <2>2, <1>a, Zenon DEF Ownership, IsTcpClient
    <2> QED
        BY <1>7, <2>1, <2>2, Zenon DEF WriteFails
<1>8. ASSUME NEW p \in Callers, ReadResponse(p) PROVE Ownership'
    <2>1. pc' = [pc EXCEPT ![p] = "idle"] /\ conn' = [conn EXCEPT ![p] = NoConn]
        BY <1>8, Zenon DEF ReadResponse, Release
    <2>2. UNCHANGED <<client, opened>>
        BY <1>8, Zenon DEF ReadResponse, Release
    <2>3. conn[p] # NoConn /\ conn[p] <= opened
        BY <1>8, Zenon DEF Ownership, ReadResponse
    <2>4. CASE UNCHANGED <<stored, pool>>
        BY <1>8, <2>4, <1>c, Zenon DEF ReadResponse
    <2>5. CASE IsTcpClient /\ stored' = conn[p] /\ UNCHANGED pool
        BY <2>1, <2>2, <2>3, <2>5, <1>a DEF Ownership, IsTcpClient
    <2>6. CASE ~IsTcpClient /\ pool' = pool \cup {conn[p]} /\ UNCHANGED stored
        BY <2>1, <2>2, <2>3, <2>6, <1>a, Zenon DEF Ownership, IsTcpClient
    <2> QED
        BY <1>8, <2>4, <2>5, <2>6, Zenon DEF ReadResponse
<1>9. ASSUME NEW c \in Conns, ServerStep(c) \/ Break(c) PROVE Ownership'
    <2>1. UNCHANGED client_vars
        BY <1>9, Zenon DEF ServerStep, Receive, HangUp, Execute, Reply, Break
    <2> QED
        BY <2>1, Zenon DEF Ownership, client_vars, IsTcpClient
<1>10. CASE Done \/ UNCHANGED vars
    BY <1>10, Zenon DEF Ownership, Done, vars, client_vars, IsTcpClient
<1> QED
    BY <1>1, <1>2, <1>3, <1>4, <1>5, <1>6, <1>7, <1>8, <1>9, <1>10, Zenon DEF Next, CallerStep

------------------------------------------------------------------------------
\* What was written stays written, for every step of every caller.
LEMMA SentStays ==
    ASSUME Types, [Next]_vars, NEW k \in Calls, Sent(k)
    PROVE  Sent(k)'
<1> DEFINE q == k[1]
<1>a. q \in Callers /\ k[2] \in Nat /\ number[q] \in Nat
    BY DEF Calls, Types
<1>b. /\ pc \in [Callers -> {"idle", "lock", "connect", "write", "reconnect", "rewrite", "read"}]
      /\ number \in [Callers -> Nat]
    BY DEF Types
<1>c. ASSUME UNCHANGED number, pc'[q] = pc[q] \/ pc'[q] \in {"idle", "read"}
      PROVE  Sent(k)'
    BY <1>a, <1>c, Zenon DEF Sent
<1>1. ASSUME NEW p \in Callers, Invoke(p) PROVE Sent(k)'
    <2>1. CASE p = q
        <3>1. number'[q] = number[q] + 1
            BY <1>1, <1>b, <2>1, Zenon DEF Invoke
        <3> QED
            BY <1>a, <3>1 DEF Sent
    <2>2. CASE p # q
        <3>1. number'[q] = number[q] /\ pc'[q] = pc[q]
            BY <1>1, <1>b, <2>2 DEF Invoke
        <3> QED
            BY <3>1, Zenon DEF Sent
    <2> QED
        BY <2>1, <2>2, Zenon
<1>2. ASSUME NEW p \in Callers, CallerStep(p) PROVE Sent(k)'
    <2>1. UNCHANGED number
        BY <1>2, Zenon
        DEF CallerStep, Acquire, TakeFromPool, Connect, Reconnect, Open, ConnectFails, Write,
            WriteFails, ReadResponse, ReadFails, Fail, Release
    <2>2. p # q => pc'[q] = pc[q]
        BY <1>2, <1>a, <1>b, Zenon
        DEF CallerStep, Acquire, TakeFromPool, Connect, Reconnect, Open, ConnectFails, Write,
            WriteFails, ReadResponse, ReadFails, Fail, Release
    <2>3. CASE p = q /\ pc[p] \in {"idle", "read"}
        <3>1. pc'[p] = "idle"
            BY <1>2, <1>b, <2>3, Zenon
            DEF CallerStep, Acquire, TakeFromPool, Connect, Reconnect, ConnectFails, Write,
                WriteFails, ReadResponse, ReadFails, Fail, Release
        <3> QED
            BY <1>c, <2>1, <2>3, <3>1, Zenon
    <2>4. CASE p = q /\ pc[p] \notin {"idle", "read"}
        BY <1>a, <2>1, <2>4, Zenon DEF Sent
    <2> QED
        BY <1>c, <2>1, <2>2, <2>3, <2>4, Zenon
<1>3. ASSUME NEW c \in Conns, ServerStep(c) \/ Break(c) PROVE Sent(k)'
    <2>1. UNCHANGED <<pc, number>>
        BY <1>3, Zenon DEF ServerStep, Receive, HangUp, Execute, Reply, Break, client_vars
    <2> QED
        BY <1>c, <2>1, Zenon
<1>4. CASE Done \/ UNCHANGED vars
    BY <1>c, <1>4, Zenon DEF Done, vars, client_vars
<1> QED
    BY <1>1, <1>2, <1>3, <1>4, Zenon DEF Next

\* The answers of calls that have returned stay, and only a call that returns
\* gets one.
LEMMA AnswersHold ==
    ASSUME Types, Begun, Answers, [Next]_vars
    PROVE  Answers'
<1> SUFFICES ASSUME NEW k \in Calls, answer'[k] # NoAnswer
             PROVE  \/ k[2] < number'[k[1]]
                    \/ k[2] = number'[k[1]] /\ pc'[k[1]] = "idle"
    BY Zenon DEF Answers
<1> DEFINE q == k[1]
<1>a. q \in Callers /\ k[2] \in Nat /\ number[q] \in Nat
    BY DEF Calls, Types
<1>b. /\ pc \in [Callers -> {"idle", "lock", "connect", "write", "reconnect", "rewrite", "read"}]
      /\ number \in [Callers -> Nat]
      /\ answer \in [Calls -> Calls \cup {NoAnswer}]
    BY DEF Types
<1>1. ASSUME NEW p \in Callers, Invoke(p)
      PROVE  k[2] < number'[q] \/ (k[2] = number'[q] /\ pc'[q] = "idle")
    <2>1. k[2] < number[q] \/ (k[2] = number[q] /\ pc[q] = "idle")
        BY <1>1, Zenon DEF Answers, Invoke
    <2>2. CASE p = q
        <3>1. number'[q] = number[q] + 1
            BY <1>1, <1>b, <2>2, Zenon DEF Invoke
        <3> QED
            BY <1>a, <2>1, <3>1
    <2>3. CASE p # q
        <3>1. number'[q] = number[q] /\ pc'[q] = pc[q]
            BY <1>1, <1>b, <2>3 DEF Invoke
        <3> QED
            BY <2>1, <3>1, Zenon
    <2> QED
        BY <2>2, <2>3, Zenon
<1>2. ASSUME NEW p \in Callers, CallerStep(p)
      PROVE  k[2] < number'[q] \/ (k[2] = number'[q] /\ pc'[q] = "idle")
    <2>1. UNCHANGED number
        BY <1>2, Zenon
        DEF CallerStep, Acquire, TakeFromPool, Connect, Reconnect, Open, ConnectFails, Write,
            WriteFails, ReadResponse, ReadFails, Fail, Release
    <2>2. pc[q] = "idle" => pc'[q] = "idle"
        BY <1>2, <1>a, <1>b, Zenon
        DEF CallerStep, Acquire, TakeFromPool, Connect, Reconnect, Open, ConnectFails, Write,
            WriteFails, ReadResponse, ReadFails, NoResponse, Fail, Release
    <2>3. CASE answer[k] # NoAnswer
        BY <2>1, <2>2, <2>3, Zenon DEF Answers
    <2>4. CASE answer[k] = NoAnswer
        <3>1. ReadResponse(p) /\ k = Current(p)
            BY <1>2, <1>b, <2>4, Zenon
            DEF CallerStep, Acquire, TakeFromPool, Connect, Reconnect, Open, ConnectFails, Write,
                WriteFails, ReadResponse, ReadFails, Fail, Release
        <3>2. q = p /\ k[2] = number[p]
            BY <3>1, Zenon DEF Current
        <3>3. pc'[p] = "idle"
            BY <1>b, <3>1, Zenon DEF ReadResponse, Release
        <3> QED
            BY <2>1, <3>2, <3>3, Zenon
    <2> QED
        BY <2>3, <2>4, Zenon
<1>3. ASSUME NEW c \in Conns, ServerStep(c) \/ Break(c)
      PROVE  k[2] < number'[q] \/ (k[2] = number'[q] /\ pc'[q] = "idle")
    <2>1. UNCHANGED <<pc, number, answer>>
        BY <1>3, Zenon DEF ServerStep, Receive, HangUp, Execute, Reply, Break, client_vars
    <2> QED
        BY <2>1, Zenon DEF Answers
<1>4. CASE Done \/ UNCHANGED vars
    BY <1>4, Zenon DEF Answers, Done, vars, client_vars
<1> QED
    BY <1>1, <1>2, <1>3, <1>4, Zenon DEF Next

------------------------------------------------------------------------------
(***************************************************************************)
(* The traffic on a connection, step by step.                              *)
(***************************************************************************)
\* The parts of Contents that are about single connections.
OneAtATime(c) ==
    /\ out[c] = <<>> \/ \E k \in Calls, w \in BOOLEAN : out[c] = <<Frame(k, w)>>
    /\ back[c] = <<>> \/ \E k \in Calls : back[c] = <<k>>
    /\ back[c] # <<>> => out[c] = <<>> /\ Resting(c)
    /\ ~Resting(c) => out[c] = <<>>

\* No request or response appears at the connection.
NothingNew(c) ==
    /\ OneAtATime(c)'
    /\ \A k \in Calls : Unexecuted(c, k)' => Unexecuted(c, k)
    /\ \A k \in Calls : Executed(c, k)' => Executed(c, k)

\* A connection whose frames and handler stay as they are keeps its traffic.
LEMMA TrafficStays ==
    ASSUME NEW c \in Conns, out'[c] = out[c], back'[c] = back[c], handler'[c] = handler[c]
    PROVE  /\ Quiet(c)' <=> Quiet(c)
           /\ OneAtATime(c)' <=> OneAtATime(c)
           /\ \A k \in Calls : Unexecuted(c, k)' <=> Unexecuted(c, k)
           /\ \A k \in Calls : Executed(c, k)' <=> Executed(c, k)
<1>1. Resting(c)' <=> Resting(c)
    BY Zenon DEF Resting
<1> QED
    BY <1>1, Zenon DEF Quiet, OneAtATime, Unexecuted, Executed

\* So does one whose handler begins to read, or ends.
LEMMA RestingStays ==
    ASSUME NEW c \in Conns, out'[c] = out[c], back'[c] = back[c],
           Resting(c), handler'[c] \in {Waiting, Ended}
    PROVE  /\ Quiet(c)' <=> Quiet(c)
           /\ OneAtATime(c)' <=> OneAtATime(c)
           /\ \A k \in Calls : Unexecuted(c, k)' <=> Unexecuted(c, k)
           /\ \A k \in Calls : Executed(c, k)' <=> Executed(c, k)
<1>1. Resting(c)'
    BY DEF Resting, Waiting, Ended
<1>2. /\ handler[c].stage \notin {"running", "replying"}
      /\ handler'[c].stage \notin {"running", "replying"}
    BY DEF Resting, Waiting, Ended
<1> QED
    BY <1>1, <1>2, Zenon DEF Quiet, OneAtATime, Unexecuted, Executed

\* A quiet connection has no traffic.
LEMMA QuietHasNone ==
    ASSUME NEW c \in Conns, Quiet(c), NEW k \in Calls
    PROVE  ~Unexecuted(c, k) /\ ~Executed(c, k) /\ OneAtATime(c)
<1>1. handler[c].stage \notin {"running", "replying"} /\ out[c] = <<>> /\ back[c] = <<>>
    BY Zenon DEF Quiet, Resting
<1> QED
    BY <1>1 DEF Unexecuted, Executed, OneAtATime, Quiet

\* Write puts one request on a quiet connection, or loses it.
LEMMA WriteTraffic ==
    ASSUME Types, Begun, Ownership, Contents, NEW p \in Callers, Write(p)
    PROVE  /\ conn[p] \in Conns
           /\ Current(p) \in Calls
           /\ \A c \in Conns \ {conn[p]} : Quiet(c)' <=> Quiet(c)
           /\ \A c \in Conns : OneAtATime(c) => OneAtATime(c)'
           /\ \A c \in Conns, k \in Calls : Executed(c, k)' <=> Executed(c, k)
           /\ \A c \in Conns, k \in Calls :
                Unexecuted(c, k)' => Unexecuted(c, k) \/ (c = conn[p] /\ k = Current(p))
<1>1. PICK e \in Conns : e = conn[p]
    BY Zenon DEF Write, Ownership, Types
<1>2. PICK call \in Calls : call = Current(p)
    BY CurrentIsCall, Zenon DEF Write, Begun
<1>3. Quiet(e) /\ UNCHANGED <<back, handler>>
    BY <1>1, Zenon DEF Write, Contents, server_vars
<1>4. out \in [Conns -> Seq(FrameRecords)]
    BY Zenon DEF Types, FrameRecords
<1>5. Frame(call, TRUE) \in FrameRecords
    BY <1>2, Frames, Zenon
<1>6. CASE out' = out
    BY <1>1, <1>2, <1>3, <1>6, TrafficStays, Zenon
<1>7. CASE out' = [out EXCEPT ![e] = Append(@, Frame(call, TRUE))]
    <2>1. out'[e] = <<Frame(call, TRUE)>>
        BY <1>1, <1>3, <1>4, <1>5, <1>7, Singletons, Zenon DEF Quiet
    <2>2. \A c \in Conns \ {e} : out'[c] = out[c]
        BY <1>1, <1>4, <1>7, Zenon
    <2>3. OneAtATime(e)'
        BY <1>2, <1>3, <2>1, Zenon DEF OneAtATime, Quiet, Resting
    <2>4. \A k \in Calls : Unexecuted(e, k)' => k = call
        <3> SUFFICES ASSUME NEW k \in Calls, Unexecuted(e, k)' PROVE k = call
            BY Zenon
        <3>1. <<Frame(call, TRUE)>> = <<Frame(k, TRUE)>>
            BY <1>3, <2>1, Zenon DEF Unexecuted, Quiet, Resting
        <3>2. Frame(call, TRUE) = Frame(k, TRUE)
            BY <3>1, Zenon
        <3> QED
            BY <1>2, <3>2, Frames, ZenonT(30)
    <2>5. \A k \in Calls : Executed(e, k)' <=> Executed(e, k)
        BY <1>3, Zenon DEF Executed
    <2>6. \A c \in Conns \ {e} :
            /\ Quiet(c)' <=> Quiet(c)
            /\ OneAtATime(c)' <=> OneAtATime(c)
            /\ \A k \in Calls : Unexecuted(c, k)' <=> Unexecuted(c, k)
            /\ \A k \in Calls : Executed(c, k)' <=> Executed(c, k)
        BY <1>3, <2>2, TrafficStays, Zenon
    <2> QED
        BY <1>1, <1>2, <2>3, <2>4, <2>5, <2>6, Zenon
<1> QED
    BY <1>1, <1>2, <1>6, <1>7, Zenon DEF Write

\* A write that fails leaves nothing on the connection that will be executed.
LEMMA WriteFailsTraffic ==
    ASSUME Types, Begun, Ownership, Contents, NEW p \in Callers, WriteFails(p)
    PROVE  /\ conn[p] \in Conns
           /\ \A c \in Conns : NothingNew(c)
           /\ \A c \in Conns \ {conn[p]} : Quiet(c) => Quiet(c)'
<1>1. PICK e \in Conns : e = conn[p]
    BY Zenon DEF WriteFails, Ownership, Types
<1>2. PICK call \in Calls : call = Current(p)
    BY CurrentIsCall, Zenon DEF WriteFails, Begun
<1>3. Quiet(e) /\ UNCHANGED <<back, handler>>
    BY <1>1, Zenon DEF WriteFails, Contents, server_vars
<1>4. out \in [Conns -> Seq(FrameRecords)]
    BY Zenon DEF Types, FrameRecords
<1>5. Frame(call, FALSE) \in FrameRecords
    BY <1>2, Frames, Zenon
<1>6. \A c \in Conns : OneAtATime(c)
    BY Zenon DEF Contents, OneAtATime
<1>7. CASE out' = out
    BY <1>1, <1>3, <1>6, <1>7, TrafficStays, Zenon DEF NothingNew
<1>8. CASE out' = [out EXCEPT ![e] = Append(@, Frame(call, FALSE))]
    <2>1. out'[e] = <<Frame(call, FALSE)>>
        BY <1>3, <1>4, <1>5, <1>8, Singletons, Zenon DEF Quiet
    <2>2. \A c \in Conns \ {e} : out'[c] = out[c]
        BY <1>4, <1>8, Zenon
    <2>3. OneAtATime(e)'
        BY <1>2, <1>3, <2>1, Zenon DEF OneAtATime, Quiet, Resting
    <2>4. \A k \in Calls : ~Unexecuted(e, k)'
        <3> SUFFICES ASSUME NEW k \in Calls, Unexecuted(e, k)' PROVE FALSE
            BY Zenon
        <3>1. <<Frame(call, FALSE)>> = <<Frame(k, TRUE)>>
            BY <1>3, <2>1, Zenon DEF Unexecuted, Quiet, Resting
        <3>2. Frame(call, FALSE) = Frame(k, TRUE)
            BY <3>1, Zenon
        <3> QED
            BY <1>2, <3>2, Frames, Zenon
    <2>5. \A k \in Calls : Executed(e, k)' <=> Executed(e, k)
        BY <1>3 DEF Executed
    <2>6. NothingNew(e)
        BY <2>3, <2>4, <2>5, Zenon DEF NothingNew
    <2>7. \A c \in Conns \ {e} : NothingNew(c) /\ (Quiet(c) => Quiet(c)')
        BY <1>3, <1>6, <2>2, TrafficStays, Zenon DEF NothingNew
    <2> QED
        BY <1>1, <2>6, <2>7, Zenon
<1> QED
    BY <1>1, <1>2, <1>7, <1>8, Zenon DEF WriteFails, PartlyWritten

\* The reader takes the response off its connection, which is quiet then.
LEMMA ReadResponseTraffic ==
    ASSUME Types, Ownership, Contents, AtMostOnce, NEW p \in Callers, ReadResponse(p)
    PROVE  /\ conn[p] \in Conns
           /\ \A c \in Conns : NothingNew(c) /\ (Quiet(c) => Quiet(c)')
           /\ \A c \in Conns : c = conn[p] => Quiet(c)'
           /\ Head(back[conn[p]]) = Current(p)
           /\ Current(p) \in Calls
           /\ executions[Current(p)] = 1
<1>1. PICK e \in Conns : e = conn[p]
    BY Zenon DEF ReadResponse, Ownership, Types
<1>2. UNCHANGED <<out, handler>>
    BY Zenon DEF ReadResponse, server_vars
<1>3. back \in [Conns -> Seq(Calls)]
    BY Zenon DEF Types
<1>4. PICK call \in Calls : back[e] = <<call>>
    BY <1>1, Zenon DEF ReadResponse, Contents
<1>5. out[e] = <<>> /\ Resting(e)
    <2>1. back[e] # <<>>
        BY <1>4, Singletons, Zenon
    <2> QED
        BY <2>1, Zenon DEF Contents
<1>6. back'[e] = <<>>
    <2>1. back' = [back EXCEPT ![e] = Tail(back[e])]
        BY <1>1, Zenon DEF ReadResponse
    <2>2. Tail(back[e]) = <<>>
        BY <1>4
    <2> QED
        BY <1>3, <2>1, <2>2, Zenon
<1>7. Quiet(e)'
    BY <1>2, <1>5, <1>6, Zenon DEF Quiet, Resting
<1>8. \A c \in Conns : OneAtATime(c)
    BY Zenon DEF Contents, OneAtATime
<1>9. NothingNew(e)
    <2>1. /\ handler'[e].stage \notin {"running", "replying"}
          /\ out'[e] = <<>> /\ back'[e] = <<>>
        BY <1>7, Zenon DEF Quiet, Resting
    <2>2. \A k \in Calls : ~Unexecuted(e, k)' /\ ~Executed(e, k)'
        BY <2>1 DEF Unexecuted, Executed
    <2>3. OneAtATime(e)'
        BY <1>7, Zenon DEF OneAtATime, Quiet
    <2> QED
        BY <2>2, <2>3, Zenon DEF NothingNew
<1>10. \A c \in Conns \ {e} : back'[c] = back[c]
    BY <1>1, <1>3, Zenon DEF ReadResponse
<1>11. \A c \in Conns \ {e} : NothingNew(c) /\ (Quiet(c) => Quiet(c)')
    BY <1>2, <1>8, <1>10, TrafficStays, Zenon DEF NothingNew
<1>12. Executed(e, call)
    BY <1>4, Zenon DEF Executed
<1>13. call = Current(p) /\ executions[call] = 1
    BY <1>1, <1>12, Zenon DEF ReadResponse, Contents, AtMostOnce
<1> QED
    BY <1>1, <1>4, <1>7, <1>9, <1>11, <1>13

\* The handler takes a request off its connection.
LEMMA ReceiveTraffic ==
    ASSUME Types, Contents, NEW e \in Conns, Receive(e)
    PROVE  \A c \in Conns : NothingNew(c) /\ (Quiet(c) => Quiet(c)')
<1>1. UNCHANGED back /\ Resting(e)
    BY Zenon DEF Receive, Resting
<1>2. PICK call \in Calls, w \in BOOLEAN : out[e] = <<Frame(call, w)>>
    BY Zenon DEF Receive, Contents
<1>3. Head(out[e]) = Frame(call, w) /\ Tail(out[e]) = <<>>
    BY <1>2
<1>4. w = TRUE
    BY <1>3, Frames DEF Receive
<1>5. /\ out \in [Conns -> Seq(FrameRecords)]
      /\ handler \in [Conns -> {Waiting, Ended}
                                \cup [stage : {"running", "replying"}, call : Calls]]
    BY Zenon DEF Types, FrameRecords
<1>6. out'[e] = <<>> /\ handler'[e] = Working("running", call)
    BY <1>3, <1>5, Frames DEF Receive
<1>7. handler'[e].stage = "running" /\ handler'[e].call = call
    BY <1>6 DEF Working
<1>8. back[e] = <<>>
    <2>1. out[e] # <<>>
        BY <1>2, Singletons
    <2> QED
        BY <2>1, Zenon DEF Contents
<1>9. OneAtATime(e)'
    BY <1>1, <1>6, <1>8, Zenon DEF OneAtATime
<1>10. Unexecuted(e, call)
    BY <1>2, <1>4, Zenon DEF Unexecuted
<1>11. \A k \in Calls : Unexecuted(e, k)' => k = call
    BY <1>6, <1>7 DEF Unexecuted
<1>12. \A k \in Calls : ~Executed(e, k)'
    BY <1>1, <1>7, <1>8 DEF Executed
<1>13. NothingNew(e) /\ ~Quiet(e)
    BY <1>2, <1>9, <1>10, <1>11, <1>12 DEF NothingNew, Quiet
<1>14. \A c \in Conns \ {e} : out'[c] = out[c] /\ handler'[c] = handler[c]
    BY <1>5, Zenon DEF Receive
<1>15. \A c \in Conns : OneAtATime(c)
    BY Zenon DEF Contents, OneAtATime
<1> QED
    BY <1>1, <1>13, <1>14, <1>15, TrafficStays, Zenon DEF NothingNew

\* The response takes the place of the request.
LEMMA ExecuteTraffic ==
    ASSUME Types, Contents, NEW e \in Conns, Execute(e)
    PROVE  /\ handler[e].call \in Calls
           /\ Unexecuted(e, handler[e].call)
           /\ \A c \in Conns : OneAtATime(c)' /\ (Quiet(c) => Quiet(c)')
           /\ \A k \in Calls : ~Unexecuted(e, k)'
           /\ \A k \in Calls : Executed(e, k)' => k = handler[e].call
           /\ \A c \in Conns \ {e} : NothingNew(c)
<1>1. handler \in [Conns -> {Waiting, Ended}
                            \cup [stage : {"running", "replying"}, call : Calls]]
    BY Zenon DEF Types
<1>2. PICK call \in Calls : handler[e].call = call
    BY <1>1 DEF Execute, Waiting, Ended
<1>3. Unexecuted(e, call)
    BY <1>2, Zenon DEF Execute, Unexecuted
<1>4. UNCHANGED <<out, back>> /\ ~Resting(e)
    BY Zenon DEF Execute, Resting
<1>5. handler'[e].stage = "replying" /\ handler'[e].call = call
    BY <1>1, <1>2, Zenon DEF Execute, Working
<1>6. out'[e] = <<>> /\ back'[e] = <<>>
    BY <1>4, Zenon DEF Contents
<1>7. OneAtATime(e)' /\ ~Quiet(e)
    BY <1>4, <1>6, Zenon DEF OneAtATime, Quiet
<1>8. \A k \in Calls : ~Unexecuted(e, k)'
    BY <1>5, <1>6 DEF Unexecuted
<1>9. \A k \in Calls : Executed(e, k)' => k = call
    BY <1>5, <1>6 DEF Executed
<1>10. \A c \in Conns \ {e} : handler'[c] = handler[c]
    BY <1>1, Zenon DEF Execute
<1>11. \A c \in Conns : OneAtATime(c)
    BY Zenon DEF Contents, OneAtATime
<1>12. \A c \in Conns \ {e} : NothingNew(c) /\ OneAtATime(c)' /\ (Quiet(c) => Quiet(c)')
    BY <1>4, <1>10, <1>11, TrafficStays, Zenon DEF NothingNew
<1> QED
    BY <1>2, <1>3, <1>7, <1>8, <1>9, <1>12, Zenon

\* The response leaves the handler for the connection, or is dropped.
LEMMA ReplyTraffic ==
    ASSUME Types, Contents, NEW e \in Conns, Reply(e)
    PROVE  \A c \in Conns : NothingNew(c) /\ (Quiet(c) => Quiet(c)')
<1>1. /\ handler \in [Conns -> {Waiting, Ended}
                               \cup [stage : {"running", "replying"}, call : Calls]]
      /\ back \in [Conns -> Seq(Calls)]
    BY Zenon DEF Types
<1>2. PICK call \in Calls : handler[e].call = call
    BY <1>1 DEF Reply, Waiting, Ended
<1>3. Executed(e, call)
    BY <1>2, Zenon DEF Reply, Executed
<1>4. UNCHANGED out /\ ~Resting(e)
    BY Zenon DEF Reply, Resting
<1>5. out[e] = <<>> /\ back[e] = <<>>
    BY <1>4, Zenon DEF Contents
<1>6. back'[e] = <<>> \/ back'[e] = <<call>>
    BY <1>1, <1>2, <1>5, Singletons DEF Reply
<1>7. handler'[e].stage \in {"reading", "ended"}
    BY <1>1 DEF Reply, Waiting, Ended
<1>8. OneAtATime(e)'
    BY <1>4, <1>5, <1>6, <1>7, Zenon DEF OneAtATime, Resting
<1>9. \A k \in Calls : ~Unexecuted(e, k)'
    BY <1>4, <1>5, <1>7 DEF Unexecuted
<1>10. \A k \in Calls : Executed(e, k)' => k = call
    BY <1>6, <1>7, Singletons, Zenon DEF Executed
<1>11. NothingNew(e) /\ ~Quiet(e)
    BY <1>3, <1>4, <1>8, <1>9, <1>10, Zenon DEF NothingNew, Quiet
<1>12. \A c \in Conns \ {e} : handler'[c] = handler[c] /\ back'[c] = back[c]
    BY <1>1, Zenon DEF Reply
<1>13. \A c \in Conns : OneAtATime(c)
    BY DEF Contents, OneAtATime
<1> QED
    BY <1>4, <1>11, <1>12, <1>13, TrafficStays, Zenon DEF NothingNew

\* What is on its way is lost.
LEMMA BreakTraffic ==
    ASSUME Types, Contents, NEW e \in Conns, Break(e)
    PROVE  \A c \in Conns : NothingNew(c) /\ (Quiet(c) => Quiet(c)')
<1>1. out \in [Conns -> Seq(FrameRecords)] /\ back \in [Conns -> Seq(Calls)]
    BY Zenon DEF Types, FrameRecords
<1>2. out'[e] = <<>> /\ back'[e] = <<>> /\ UNCHANGED handler
    BY <1>1, Zenon DEF Break, server_vars
<1>3. OneAtATime(e)'
    BY <1>2, Zenon DEF OneAtATime
<1>4. \A k \in Calls : Unexecuted(e, k)' => Unexecuted(e, k)
    <2> SUFFICES ASSUME NEW k \in Calls, Unexecuted(e, k)' PROVE Unexecuted(e, k)
        BY Zenon
    <2>1. out'[e] # <<Frame(k, TRUE)>>
        BY <1>2
    <2> QED
        BY <1>2, <2>1, Zenon DEF Unexecuted
<1>5. \A k \in Calls : Executed(e, k)' => Executed(e, k)
    BY <1>2 DEF Executed
<1>6. Quiet(e) => Quiet(e)'
    BY <1>2, Zenon DEF Quiet, Resting
<1>7. \A c \in Conns \ {e} : out'[c] = out[c] /\ back'[c] = back[c]
    BY <1>1, Zenon DEF Break
<1>8. \A c \in Conns : OneAtATime(c)
    BY Zenon DEF Contents, OneAtATime
<1> QED
    BY <1>2, <1>3, <1>4, <1>5, <1>6, <1>7, <1>8, TrafficStays, Zenon DEF NothingNew

\* A handler that hangs up ends without executing what it did not read.
LEMMA HangUpTraffic ==
    ASSUME Types, Contents, NEW e \in Conns, HangUp(e)
    PROVE  \A c \in Conns : NothingNew(c) /\ (Quiet(c) => Quiet(c)')
<1>1. handler \in [Conns -> {Waiting, Ended}
                            \cup [stage : {"running", "replying"}, call : Calls]]
    BY DEF Types
<1>2. UNCHANGED <<out, back>> /\ Resting(e) /\ handler'[e] \in {Waiting, Ended}
    BY <1>1, Zenon DEF HangUp, Resting
<1>3. \A c \in Conns \ {e} : handler'[c] = handler[c]
    BY <1>1, Zenon DEF HangUp
<1>4. \A c \in Conns : OneAtATime(c)
    BY DEF Contents, OneAtATime
<1> QED
    BY <1>2, <1>3, <1>4, TrafficStays, RestingStays, Zenon DEF NothingNew

\* A new connection is quiet.
LEMMA OpenTraffic ==
    ASSUME Types, Contents, NEW p \in Callers, NEW next, Open(p, next)
    PROVE  /\ opened + 1 \in Conns
           /\ \A c \in Conns : NothingNew(c) /\ (Quiet(c) => Quiet(c)')
           /\ \A c \in Conns : c = opened + 1 => Quiet(c)'
<1>1. handler \in [Conns -> {Waiting, Ended}
                            \cup [stage : {"running", "replying"}, call : Calls]]
    BY Zenon DEF Types
<1>2. PICK e \in Conns : e = opened + 1 /\ e > opened
    BY ConnectionsAssumption DEF Types, Conns, Open
<1>3. Quiet(e)
    BY <1>2, Zenon DEF Contents
<1>4. UNCHANGED <<out, back>> /\ Resting(e) /\ handler'[e] \in {Waiting, Ended}
    BY <1>1, <1>2, <1>3, Zenon DEF Open, Quiet
<1>5. \A c \in Conns \ {e} : handler'[c] = handler[c]
    BY <1>1, <1>2, Zenon DEF Open
<1>6. \A c \in Conns : OneAtATime(c)
    BY Zenon DEF Contents, OneAtATime
<1>7. NothingNew(e) /\ (Quiet(e) <=> Quiet(e)')
    BY <1>4, <1>6, RestingStays, Zenon DEF NothingNew
<1>8. \A c \in Conns \ {e} : NothingNew(c) /\ (Quiet(c) => Quiet(c)')
    BY <1>4, <1>5, <1>6, TrafficStays, Zenon DEF NothingNew
<1> QED
    BY <1>2, <1>3, <1>7, <1>8, Zenon

\* The other steps of callers leave the traffic alone.
LEMMA OtherTraffic ==
    ASSUME Contents, UNCHANGED <<out, back, handler>>
    PROVE  \A c \in Conns : NothingNew(c) /\ (Quiet(c) => Quiet(c)')
<1>1. \A c \in Conns : OneAtATime(c)
    BY Zenon DEF Contents, OneAtATime
<1> QED
    BY <1>1, TrafficStays, Zenon DEF NothingNew

------------------------------------------------------------------------------
\* No step executes a request again: a request that failed to be written is
\* written once more only when it is nowhere on its way.
LEMMA AtMostOnceHolds ==
    ASSUME Types, Begun, Ownership, Contents, AtMostOnce, [Next]_vars
    PROVE  AtMostOnce'
<1>a. \A k \in Calls : Sent(k) => Sent(k)'
    BY SentStays, Zenon
<1>b. ASSUME UNCHANGED executions, \A c \in Conns : NothingNew(c) PROVE AtMostOnce'
    BY <1>a, <1>b, Zenon DEF AtMostOnce, NothingNew
<1>1. ASSUME NEW p \in Callers, Invoke(p) \/ Acquire(p) \/ TakeFromPool(p) PROVE AtMostOnce'
    <2>1. UNCHANGED <<out, back, handler, executions>>
        BY <1>1, Zenon DEF Invoke, Acquire, TakeFromPool, server_vars
    <2> QED
        BY <1>b, <2>1, OtherTraffic, Zenon
<1>2. ASSUME NEW p \in Callers, Connect(p) \/ Reconnect(p) PROVE AtMostOnce'
    <2>1. \E next : Open(p, next)
        BY <1>2, Zenon DEF Connect, Reconnect
    <2>2. UNCHANGED executions
        BY <2>1, Zenon DEF Open
    <2> QED
        BY <1>b, <2>1, <2>2, OpenTraffic, Zenon
<1>3. ASSUME NEW p \in Callers, ConnectFails(p) \/ ReadFails(p) PROVE AtMostOnce'
    <2>1. UNCHANGED <<out, back, handler, executions>>
        BY <1>3, Zenon DEF ConnectFails, ReadFails, server_vars
    <2> QED
        BY <1>b, <2>1, OtherTraffic
<1>4. ASSUME NEW p \in Callers, Write(p) PROVE AtMostOnce'
    <2>1. UNCHANGED executions
        BY <1>4, Zenon DEF Write, server_vars
    <2>2. PICK call \in Calls, e \in Conns : call = Current(p) /\ e = conn[p]
        BY <1>4, WriteTraffic, Zenon
    <2>3. \A c \in Conns, k \in Calls :
            /\ Executed(c, k)' <=> Executed(c, k)
            /\ Unexecuted(c, k)' => Unexecuted(c, k) \/ (c = e /\ k = call)
        BY <1>4, <2>2, WriteTraffic, Zenon
    <2>4. ~Sent(call)
        BY <1>4, <2>2, Zenon DEF Write, Sent, Current
    <2>5. executions[call] = 0 /\ \A c \in Conns : ~Unexecuted(c, call)
        BY <2>4, Zenon DEF AtMostOnce
    <2>6. Sent(call)'
        <3>1. pc'[p] = "read" /\ number' = number
            BY <1>4, Zenon DEF Types, Write
        <3> QED
            BY <1>4, <2>2, <3>1 DEF Types, Sent, Current
    <2> QED
        BY <1>a, <2>1, <2>3, <2>5, <2>6, Zenon DEF AtMostOnce
<1>5. ASSUME NEW p \in Callers, WriteFails(p) PROVE AtMostOnce'
    BY <1>b, <1>5, WriteFailsTraffic, Zenon DEF WriteFails, server_vars
<1>6. ASSUME NEW p \in Callers, ReadResponse(p) PROVE AtMostOnce'
    BY <1>b, <1>6, ReadResponseTraffic, Zenon DEF ReadResponse, server_vars
<1>7. ASSUME NEW e \in Conns, Receive(e) PROVE AtMostOnce'
    BY <1>b, <1>7, ReceiveTraffic, Zenon DEF Receive
<1>8. ASSUME NEW e \in Conns, HangUp(e) PROVE AtMostOnce'
    BY <1>b, <1>8, HangUpTraffic, Zenon DEF HangUp
<1>9. ASSUME NEW e \in Conns, Execute(e) PROVE AtMostOnce'
    <2>1. PICK call \in Calls : call = handler[e].call
        BY <1>9, ExecuteTraffic, Zenon
    <2>2. Unexecuted(e, call)
        BY <1>9, <2>1, ExecuteTraffic, Zenon
    <2>3. executions[call] = 0 /\ Sent(call)
        BY <2>2, Zenon DEF AtMostOnce
    <2>4. /\ executions'[call] = 1
          /\ \A k \in Calls \ {call} : executions'[k] = executions[k]
        BY <1>9, <2>1, <2>3 DEF Types, Execute
    <2>5. \A c \in Conns : ~Unexecuted(c, call)'
        BY <1>9, <2>2, ExecuteTraffic, Zenon DEF AtMostOnce, NothingNew
    <2>6. \A c \in Conns, k \in Calls \ {call} :
            /\ Unexecuted(c, k)' => Unexecuted(c, k)
            /\ Executed(c, k)' => Executed(c, k)
        BY <1>9, <2>1, ExecuteTraffic, Zenon DEF NothingNew
    <2> QED
        <3>1. \A k \in Calls : executions'[k] \in {0, 1} /\ (executions'[k] = 1 => Sent(k)')
            <4> TAKE k \in Calls
            <4>1. executions[k] \in {0, 1} /\ (executions[k] = 1 => Sent(k))
                BY Zenon DEF AtMostOnce
            <4> QED
                BY <1>a, <2>3, <2>4, <4>1, Zenon
        <3>2. \A c \in Conns, k \in Calls : Unexecuted(c, k)' => executions'[k] = 0 /\ Sent(k)'
            <4>1. \A c \in Conns, k \in Calls : Unexecuted(c, k) => executions[k] = 0 /\ Sent(k)
                BY Zenon DEF AtMostOnce
            <4> QED
                BY <1>a, <2>4, <2>5, <2>6, <4>1, Zenon
        <3>3. \A c, d \in Conns, k \in Calls : Unexecuted(c, k)' /\ Unexecuted(d, k)' => c = d
            BY <2>5, <2>6, Zenon DEF AtMostOnce
        <3>4. \A c \in Conns, k \in Calls : Executed(c, k)' => executions'[k] = 1
            BY <2>4, <2>6, Zenon DEF AtMostOnce
        <3> QED
            BY <3>1, <3>2, <3>3, <3>4, Zenon DEF AtMostOnce
<1>10. ASSUME NEW e \in Conns, Reply(e) PROVE AtMostOnce'
    BY <1>b, <1>10, ReplyTraffic, Zenon DEF Reply
<1>11. ASSUME NEW e \in Conns, Break(e) PROVE AtMostOnce'
    BY <1>b, <1>11, BreakTraffic, Zenon DEF Break, server_vars
<1>12. CASE Done \/ UNCHANGED vars
    <2>1. UNCHANGED <<out, back, handler, executions>>
        BY <1>12, Zenon DEF Done, vars, server_vars
    <2> QED
        BY <1>b, <2>1, OtherTraffic, Zenon
<1> QED
    BY <1>1, <1>2, <1>3, <1>4, <1>5, <1>6, <1>7, <1>8, <1>9, <1>10, <1>11, <1>12, Zenon
    DEF Next, CallerStep, ServerStep

\* No step puts a second request or response on a connection, and only quiet
\* connections are stored, pooled or written to.
LEMMA ContentsHold ==
    ASSUME Types, Begun, Ownership, Contents, AtMostOnce, [Next]_vars
    PROVE  Contents'
<1>a. /\ pc \in [Callers -> {"idle", "lock", "connect", "write", "reconnect", "rewrite", "read"}]
      /\ conn \in [Callers -> Conns \cup {NoConn}]
      /\ stored \in Conns \cup {NoConn}
      /\ pool \subseteq Conns
      /\ opened \in Nat
      /\ Conns \subseteq Nat
      /\ NoConn \notin Conns
    BY ConnectionsAssumption DEF Types, Conns, NoConn
<1>o. opened \in Nat
    BY <1>a, Zenon
<1>b. /\ \A c \in Conns : c > opened => Quiet(c)
      /\ \A c \in pool : Quiet(c)
      /\ stored # NoConn => Quiet(stored)
      /\ \A p \in Callers : pc[p] \in {"write", "rewrite"} => Quiet(conn[p])
      /\ \A p \in Callers, k \in Calls :
            pc[p] = "read" /\ (Unexecuted(conn[p], k) \/ Executed(conn[p], k)) => k = Current(p)
    BY Zenon DEF Contents
<1>c. ASSUME \A c \in Conns : OneAtATime(c)',
             \A c \in Conns : c > opened' => Quiet(c)',
             \A c \in Conns : c \in pool' \/ c = stored' => Quiet(c)',
             \A p \in Callers, c \in Conns :
                pc'[p] \in {"write", "rewrite"} /\ c = conn'[p] => Quiet(c)',
             \A p \in Callers, c \in Conns, k \in Calls :
                pc'[p] = "read" /\ c = conn'[p] /\ (Unexecuted(c, k)' \/ Executed(c, k)')
                    => k = Current(p)'
      PROVE  Contents'
    <2>1. Types' /\ Ownership'
        BY TypesHold, OwnershipHolds, Zenon
    <2>2. /\ stored' \in Conns \cup {NoConn}
          /\ pool' \subseteq Conns
          /\ \A p \in Callers : conn'[p] \in Conns \cup {NoConn}
          /\ \A p \in Callers : pc'[p] \in {"write", "rewrite", "read"} => conn'[p] # NoConn
        BY <2>1, Zenon DEF Types, Ownership
    <2> QED
        BY <1>c, <2>2, Zenon DEF Contents, OneAtATime
<1>d. ASSUME \A c \in Conns : NothingNew(c) /\ (Quiet(c) => Quiet(c)'),
             opened' \in Nat, opened' >= opened,
             \A c \in Conns : c \in pool' \/ c = stored' => Quiet(c)',
             \A p \in Callers, c \in Conns :
                pc'[p] \in {"write", "rewrite"} /\ c = conn'[p] => Quiet(c)',
             \A p \in Callers : pc'[p] = "read" =>
                pc[p] = "read" /\ conn'[p] = conn[p] /\ number'[p] = number[p]
      PROVE  Contents'
    <2>1. \A c \in Conns : OneAtATime(c)'
        BY <1>d, Zenon DEF NothingNew
    <2>2. \A c \in Conns : c > opened' => Quiet(c)'
        <3> SUFFICES ASSUME NEW c \in Conns, c > opened' PROVE Quiet(c)'
            BY Zenon
        <3>1. c \in Nat
            BY <1>a, Zenon
        <3>2. c > opened
            BY <1>d, <1>o, <3>1
        <3> QED
            BY <1>b, <1>d, <3>2, Zenon
    <2>3. \A p \in Callers, c \in Conns, k \in Calls :
            pc'[p] = "read" /\ c = conn'[p] /\ (Unexecuted(c, k)' \/ Executed(c, k)')
                => k = Current(p)'
        BY <1>b, <1>d, ZenonT(30) DEF NothingNew, Current
    <2> QED
        BY <1>c, <1>d, <2>1, <2>2, <2>3, Zenon
<1>1. ASSUME NEW p \in Callers, Invoke(p) PROVE Contents'
    <2>1. /\ pc' = [pc EXCEPT ![p] = IF IsTcpClient THEN "lock" ELSE "connect"]
          /\ \A q \in Callers \ {p} : number'[q] = number[q]
          /\ UNCHANGED <<conn, stored, pool, opened, out, back, handler>>
        BY <1>1, Zenon DEF Types, Invoke, server_vars
    <2>2. \A c \in Conns : NothingNew(c) /\ (Quiet(c) => Quiet(c)')
        BY <2>1, OtherTraffic, Zenon
    <2>3. \A c \in Conns : c \in pool' \/ c = stored' => Quiet(c)'
        BY <1>a, <1>b, <2>1, <2>2, Zenon
    <2>4. \A q \in Callers, c \in Conns :
            pc'[q] \in {"write", "rewrite"} /\ c = conn'[q] => Quiet(c)'
        BY <1>a, <1>b, <2>1, <2>2, Zenon
    <2>5. \A q \in Callers : pc'[q] = "read" =>
            pc[q] = "read" /\ conn'[q] = conn[q] /\ number'[q] = number[q]
        BY <1>a, <2>1, Zenon
    <2>6. opened' \in Nat /\ opened' >= opened
        <3>1. opened' = opened
            BY <2>1, Zenon
        <3> QED
            BY <1>o, <3>1
    <2> QED
        BY <1>d, <2>1, <2>2, <2>3, <2>4, <2>5, <2>6, Zenon
<1>2. ASSUME NEW p \in Callers, Acquire(p) PROVE Contents'
    <2>1. /\ pc' = [pc EXCEPT ![p] = IF stored = NoConn THEN "connect" ELSE "write"]
          /\ conn' = [conn EXCEPT ![p] = stored]
          /\ stored' = NoConn
          /\ UNCHANGED <<number, pool, opened, out, back, handler>>
        BY <1>2, Zenon DEF Acquire, server_vars
    <2>2. \A c \in Conns : NothingNew(c) /\ (Quiet(c) => Quiet(c)')
        BY <2>1, OtherTraffic, Zenon
    <2>3. \A c \in Conns : c \in pool' \/ c = stored' => Quiet(c)'
        BY <1>a, <1>b, <2>1, <2>2, Zenon
    <2>4. \A q \in Callers, c \in Conns :
            pc'[q] \in {"write", "rewrite"} /\ c = conn'[q] => Quiet(c)'
        BY <1>a, <1>b, <2>1, <2>2, Zenon
    <2>5. \A q \in Callers : pc'[q] = "read" =>
            pc[q] = "read" /\ conn'[q] = conn[q] /\ number'[q] = number[q]
        BY <1>a, <2>1, Zenon
    <2>6. opened' \in Nat /\ opened' >= opened
        BY <1>o, <2>1
    <2> QED
        BY <1>d, <2>1, <2>2, <2>3, <2>4, <2>5, <2>6, Zenon
<1>3. ASSUME NEW p \in Callers, TakeFromPool(p) PROVE Contents'
    <2>1. PICK e \in pool : pool' = pool \ {e} /\ conn' = [conn EXCEPT ![p] = e]
        BY <1>3, Zenon DEF TakeFromPool
    <2>2. /\ pc' = [pc EXCEPT ![p] = "write"]
          /\ UNCHANGED <<number, stored, opened, out, back, handler>>
        BY <1>3, Zenon DEF TakeFromPool, server_vars
    <2>3. \A c \in Conns : NothingNew(c) /\ (Quiet(c) => Quiet(c)')
        BY <2>2, OtherTraffic, Zenon
    <2>4. \A c \in Conns : c \in pool' \/ c = stored' => Quiet(c)'
        BY <1>a, <1>b, <2>1, <2>2, <2>3, Zenon
    <2>5. \A q \in Callers, c \in Conns :
            pc'[q] \in {"write", "rewrite"} /\ c = conn'[q] => Quiet(c)'
        BY <1>a, <1>b, <2>1, <2>2, <2>3, Zenon
    <2>6. \A q \in Callers : pc'[q] = "read" =>
            pc[q] = "read" /\ conn'[q] = conn[q] /\ number'[q] = number[q]
        BY <1>a, <2>1, <2>2, Zenon
    <2>7. opened' \in Nat /\ opened' >= opened
        BY <1>o, <2>2
    <2> QED
        BY <1>d, <2>1, <2>2, <2>3, <2>4, <2>5, <2>6, <2>7, Zenon
<1>4. ASSUME NEW p \in Callers, Connect(p) \/ Reconnect(p) PROVE Contents'
    <2>1. PICK next \in {"write", "rewrite"} : Open(p, next)
        BY <1>4, Zenon DEF Connect, Reconnect
    <2>2. /\ pc' = [pc EXCEPT ![p] = next]
          /\ conn' = [conn EXCEPT ![p] = opened + 1]
          /\ opened' = opened + 1
          /\ UNCHANGED <<number, stored, pool>>
        BY <2>1, Zenon DEF Open
    <2>3. /\ \A c \in Conns : NothingNew(c) /\ (Quiet(c) => Quiet(c)')
          /\ \A c \in Conns : c = opened + 1 => Quiet(c)'
        BY <2>1, OpenTraffic, Zenon
    <2>4. \A c \in Conns : c \in pool' \/ c = stored' => Quiet(c)'
        BY <1>a, <1>b, <2>2, <2>3, Zenon
    <2>5. \A q \in Callers, c \in Conns :
            pc'[q] \in {"write", "rewrite"} /\ c = conn'[q] => Quiet(c)'
        BY <1>a, <1>b, <2>2, <2>3, Zenon
    <2>6. \A q \in Callers : pc'[q] = "read" =>
            pc[q] = "read" /\ conn'[q] = conn[q] /\ number'[q] = number[q]
        BY <1>a, <2>2, Zenon
    <2>7. opened' \in Nat /\ opened' >= opened
        BY <1>o, <2>2
    <2> QED
        BY <1>d, <2>2, <2>3, <2>4, <2>5, <2>6, <2>7, Zenon
<1>5. ASSUME NEW p \in Callers, ConnectFails(p) \/ ReadFails(p) PROVE Contents'
    <2>1. /\ pc' = [pc EXCEPT ![p] = "idle"]
          /\ conn' = [conn EXCEPT ![p] = NoConn]
          /\ UNCHANGED <<number, stored, pool, opened, out, back, handler>>
        BY <1>5, Zenon DEF ConnectFails, ReadFails, Fail, Release, server_vars
    <2>2. \A c \in Conns : NothingNew(c) /\ (Quiet(c) => Quiet(c)')
        BY <2>1, OtherTraffic, Zenon
    <2>3. \A c \in Conns : c \in pool' \/ c = stored' => Quiet(c)'
        BY <1>a, <1>b, <2>1, <2>2, Zenon
    <2>4. \A q \in Callers, c \in Conns :
            pc'[q] \in {"write", "rewrite"} /\ c = conn'[q] => Quiet(c)'
        BY <1>a, <1>b, <2>1, <2>2, Zenon
    <2>5. \A q \in Callers : pc'[q] = "read" =>
            pc[q] = "read" /\ conn'[q] = conn[q] /\ number'[q] = number[q]
        BY <1>a, <2>1, Zenon
    <2>6. opened' \in Nat /\ opened' >= opened
        BY <1>o, <2>1
    <2> QED
        BY <1>d, <2>1, <2>2, <2>3, <2>4, <2>5, <2>6, Zenon
<1>6. ASSUME NEW p \in Callers, Write(p) PROVE Contents'
    <2>1. /\ pc' = [pc EXCEPT ![p] = "read"]
          /\ UNCHANGED <<number, conn, stored, pool, opened>>
        BY <1>6, Zenon DEF Write
    <2>2. PICK e \in Conns : e = conn[p]
        BY <1>6, WriteTraffic, Zenon
    <2>3. /\ \A c \in Conns : OneAtATime(c)'
          /\ \A c \in Conns \ {e} : Quiet(c) => Quiet(c)'
        BY <1>6, <2>2, WriteTraffic, Zenon DEF Contents, OneAtATime
    <2>4. e <= opened /\ e \notin pool /\ e # stored
        BY <1>a, <2>2, Zenon DEF Ownership
    <2>5. \A q \in Callers \ {p} : conn[q] # e
        BY <1>a, <2>2, Zenon DEF Ownership
    <2>6. Quiet(e)
        BY <1>6, <1>b, <2>2, Zenon DEF Write
    <2>7. \A k \in Calls : Unexecuted(e, k)' \/ Executed(e, k)' => k = Current(p)
        BY <1>6, <2>2, <2>6, WriteTraffic, QuietHasNone, Zenon
    <2>8. \A c \in Conns \ {e}, k \in Calls :
            /\ Unexecuted(c, k)' => Unexecuted(c, k)
            /\ Executed(c, k)' => Executed(c, k)
        BY <1>6, <2>2, WriteTraffic, Zenon
    <2>9. \A c \in Conns : c > opened' => Quiet(c)'
        BY <1>a, <1>b, <2>1, <2>3, <2>4
    <2>10. \A c \in Conns : c \in pool' \/ c = stored' => Quiet(c)'
        BY <1>a, <1>b, <2>1, <2>3, <2>4, Zenon
    <2>11. \A q \in Callers, c \in Conns :
            pc'[q] \in {"write", "rewrite"} /\ c = conn'[q] => Quiet(c)'
        BY <1>a, <1>b, <2>1, <2>3, <2>5, Zenon
    <2>12. ASSUME NEW q \in Callers, NEW c \in Conns, NEW k \in Calls,
                  pc'[q] = "read", c = conn'[q], Unexecuted(c, k)' \/ Executed(c, k)'
           PROVE  k = Current(q)'
        <3>1. CASE q = p
            BY <2>1, <2>2, <2>7, <2>12, <3>1, Zenon DEF Current
        <3>2. CASE q # p
            <4>1. c # e /\ pc[q] = "read" /\ c = conn[q]
                BY <1>a, <2>1, <2>5, <2>12, <3>2, Zenon
            <4> QED
                BY <1>b, <2>1, <2>8, <2>12, <4>1, Zenon DEF Current
        <3> QED
            BY <3>1, <3>2, Zenon
    <2> QED
        BY <1>c, <2>3, <2>9, <2>10, <2>11, <2>12, Zenon
<1>7. ASSUME NEW p \in Callers, WriteFails(p) PROVE Contents'
    <2>1. /\ pc' = [pc EXCEPT ![p] = "idle"] \/ pc' = [pc EXCEPT ![p] = "reconnect"]
          /\ \A q \in Callers \ {p} : conn'[q] = conn[q]
          /\ UNCHANGED <<number, stored, pool, opened>>
        BY <1>7, <1>a, Zenon DEF WriteFails, Fail, Release
    <2>2. PICK e \in Conns : e = conn[p]
        BY <1>7, WriteFailsTraffic, Zenon
    <2>3. /\ \A c \in Conns : NothingNew(c)
          /\ \A c \in Conns \ {e} : Quiet(c) => Quiet(c)'
        BY <1>7, <2>2, WriteFailsTraffic, Zenon
    <2>4. e <= opened /\ e \notin pool /\ e # stored
        BY <1>a, <2>2 DEF Ownership
    <2>5. \A q \in Callers \ {p} : conn[q] # e
        BY <1>a, <2>2 DEF Ownership
    <2>6. \A c \in Conns : c > opened' => Quiet(c)'
        BY <1>a, <1>b, <2>1, <2>3, <2>4
    <2>7. \A c \in Conns : c \in pool' \/ c = stored' => Quiet(c)'
        BY <1>a, <1>b, <2>1, <2>3, <2>4, Zenon
    <2>8. \A q \in Callers, c \in Conns :
            pc'[q] \in {"write", "rewrite"} /\ c = conn'[q] => Quiet(c)'
        BY <1>a, <1>b, <2>1, <2>3, <2>5, Zenon
    <2>9. \A q \in Callers : pc'[q] = "read" =>
            pc[q] = "read" /\ conn'[q] = conn[q] /\ number'[q] = number[q]
        BY <1>a, <2>1, Zenon
    <2>10. \A q \in Callers, c \in Conns, k \in Calls :
            pc'[q] = "read" /\ c = conn'[q] /\ (Unexecuted(c, k)' \/ Executed(c, k)')
                => k = Current(q)'
        BY <1>b, <2>3, <2>9, Zenon DEF NothingNew, Current
    <2> QED
        BY <1>c, <2>3, <2>6, <2>7, <2>8, <2>10, Zenon DEF NothingNew
<1>8. ASSUME NEW p \in Callers, ReadResponse(p) PROVE Contents'
    <2>1. /\ pc' = [pc EXCEPT ![p] = "idle"]
          /\ conn' = [conn EXCEPT ![p] = NoConn]
          /\ UNCHANGED <<number, opened>>
        BY <1>8, Zenon DEF ReadResponse, Release
    <2>2. stored' \in {stored, conn[p]} /\ pool' \subseteq pool \cup {conn[p]}
        BY <1>8, Zenon DEF ReadResponse
    <2>3. /\ \A c \in Conns : NothingNew(c) /\ (Quiet(c) => Quiet(c)')
          /\ \A c \in Conns : c = conn[p] => Quiet(c)'
        BY <1>8, ReadResponseTraffic, Zenon
    <2>4. \A c \in Conns : c \in pool' \/ c = stored' => Quiet(c)'
        BY <1>a, <1>b, <2>1, <2>2, <2>3, Zenon
    <2>5. \A q \in Callers, c \in Conns :
            pc'[q] \in {"write", "rewrite"} /\ c = conn'[q] => Quiet(c)'
        BY <1>a, <1>b, <2>1, <2>2, <2>3, Zenon
    <2>6. \A q \in Callers : pc'[q] = "read" =>
            pc[q] = "read" /\ conn'[q] = conn[q] /\ number'[q] = number[q]
        BY <1>a, <2>1, <2>2, Zenon
    <2>7. opened' \in Nat /\ opened' >= opened
        BY <1>o, <2>1
    <2> QED
        BY <1>d, <2>1, <2>2, <2>3, <2>4, <2>5, <2>6, <2>7, Zenon
<1>9. ASSUME NEW e \in Conns, Receive(e) \/ HangUp(e) \/ Reply(e) \/ Break(e) PROVE Contents'
    <2>1. UNCHANGED <<pc, number, conn, stored, pool, opened>>
        BY <1>9, Zenon DEF Receive, HangUp, Reply, Break, client_vars
    <2>2. \A c \in Conns : NothingNew(c) /\ (Quiet(c) => Quiet(c)')
        BY <1>9, ReceiveTraffic, HangUpTraffic, ReplyTraffic, BreakTraffic, Zenon
    <2>3. \A c \in Conns : c \in pool' \/ c = stored' => Quiet(c)'
        BY <1>a, <1>b, <2>1, <2>2, Zenon
    <2>4. \A q \in Callers, c \in Conns :
            pc'[q] \in {"write", "rewrite"} /\ c = conn'[q] => Quiet(c)'
        BY <1>a, <1>b, <2>1, <2>2, Zenon
    <2>5. \A q \in Callers : pc'[q] = "read" =>
            pc[q] = "read" /\ conn'[q] = conn[q] /\ number'[q] = number[q]
        BY <1>a, <2>1, Zenon
    <2>6. opened' \in Nat /\ opened' >= opened
        BY <1>o, <2>1
    <2> QED
        BY <1>d, <2>1, <2>2, <2>3, <2>4, <2>5, <2>6, Zenon
<1>10. ASSUME NEW e \in Conns, Execute(e) PROVE Contents'
    <2>1. UNCHANGED <<pc, number, conn, stored, pool, opened>>
        BY <1>10, Zenon DEF Execute, client_vars
    <2>2. PICK call \in Calls : call = handler[e].call
        BY <1>10, ExecuteTraffic
    <2>3. \A c \in Conns : OneAtATime(c)' /\ (Quiet(c) => Quiet(c)')
        BY <1>10, ExecuteTraffic, Zenon
    <2>4. \A c \in Conns, k \in Calls : Unexecuted(c, k)' \/ Executed(c, k)'
            => Unexecuted(c, k) \/ Executed(c, k)
        BY <1>10, <2>2, ExecuteTraffic, Zenon DEF NothingNew
    <2>5. \A q \in Callers, c \in Conns, k \in Calls :
            pc'[q] = "read" /\ c = conn'[q] /\ (Unexecuted(c, k)' \/ Executed(c, k)')
                => k = Current(q)'
        BY <1>b, <2>1, <2>4, Zenon DEF Current
    <2> QED
        BY <1>a, <1>b, <1>c, <2>1, <2>3, <2>5, Zenon
<1>11. CASE Done \/ UNCHANGED vars
    <2>1. UNCHANGED <<pc, number, conn, stored, pool, opened, out, back, handler>>
        BY <1>11, Zenon DEF Done, vars, client_vars, server_vars
    <2>2. \A c \in Conns : NothingNew(c) /\ (Quiet(c) => Quiet(c)')
        BY <2>1, OtherTraffic, Zenon
    <2>3. \A c \in Conns : c \in pool' \/ c = stored' => Quiet(c)'
        BY <1>a, <1>b, <2>1, <2>2, Zenon
    <2>4. \A q \in Callers, c \in Conns :
            pc'[q] \in {"write", "rewrite"} /\ c = conn'[q] => Quiet(c)'
        BY <1>a, <1>b, <2>1, <2>2, Zenon
    <2>5. \A q \in Callers : pc'[q] = "read" =>
            pc[q] = "read" /\ conn'[q] = conn[q] /\ number'[q] = number[q]
        BY <1>a, <2>1, Zenon
    <2>6. opened' \in Nat /\ opened' >= opened
        BY <1>o, <2>1
    <2> QED
        BY <1>d, <2>1, <2>2, <2>3, <2>4, <2>5, <2>6, Zenon
<1> QED
    BY <1>1, <1>2, <1>3, <1>4, <1>5, <1>6, <1>7, <1>8, <1>9, <1>10, <1>11, Zenon
    DEF Next, CallerStep, ServerStep

------------------------------------------------------------------------------
\* ConnInv, with Begun, is an invariant of the connections.
THEOREM ConnInvHolds == Spec => [](ConnInv /\ Begun)
<1>1. ConnInv /\ Begun /\ [Next]_vars => (ConnInv /\ Begun)'
    BY TypesHold, OwnershipHolds, ContentsHold, AtMostOnceHolds, AnswersHold, Zenon DEF ConnInv
<1> QED
    BY <1>1, InitInv, PTL DEF Spec

\* For any number of callers and connections, whatever breaks and whenever:
\* a connection that the client has put aside for its next call carries
\* nothing, and nobody uses it.
THEOREM IdleAreQuiet == Spec => []IdleConnectionsAreQuiet
<1>1. ConnInv => IdleConnectionsAreQuiet
    <2> SUFFICES ASSUME ConnInv, NEW c \in pool \cup ({stored} \ {NoConn})
                 PROVE  /\ out[c] = <<>> /\ back[c] = <<>>
                        /\ handler[c] \in {Waiting, Ended}
                        /\ \A p \in Callers : conn[p] # c
        BY Zenon DEF IdleConnectionsAreQuiet
    <2>1. Quiet(c)
        BY Zenon DEF ConnInv, Contents
    <2>2. c \in Conns /\ c # NoConn
        BY DEF ConnInv, Types, Conns, NoConn
    <2>3. handler[c] \in {Waiting, Ended}
        BY <2>1, <2>2, Zenon DEF ConnInv, Types, Quiet, Resting
    <2>4. \A p \in Callers : conn[p] # c
        BY <2>2, Zenon DEF ConnInv, Ownership
    <2> QED
        BY <2>1, <2>3, <2>4, Zenon DEF Quiet
<1> QED
    BY <1>1, ConnInvHolds, PTL

------------------------------------------------------------------------------
(***************************************************************************)
(* The refinement: every step is a step of Rpc, or leaves its variables    *)
(* alone.                                                                  *)
(***************************************************************************)
\* The stage of a call, by cases.
StageOf(k) ==
    CASE k[2] > number[k[1]] -> "new"
      [] k[2] = number[k[1]] /\ pc[k[1]] # "idle" -> "pending"
      [] OTHER -> IF answer[k] = NoAnswer THEN "failed" ELSE "answered"

\* The refinement mapping, call by call
LEMMA StageIs ==
    /\ Stage = [k \in Calls |-> StageOf(k)]
    /\ Stage' = [k \in Calls |-> StageOf(k)']
    BY Zenon DEF Stage, StageOf

\* A call that is not the current one of p keeps its stage when only p moves.
LEMMA StageKept ==
    ASSUME Types, NEW p \in Callers, NEW k \in Calls, k # Current(p),
           UNCHANGED number, \A q \in Callers \ {p} : pc'[q] = pc[q], answer'[k] = answer[k]
    PROVE  StageOf(k)' = StageOf(k)
<1>1. k[1] \in Callers /\ k = <<k[1], k[2]>>
    BY DEF Calls
<1>2. CASE k[1] # p
    BY <1>1, <1>2, Zenon DEF StageOf
<1>3. CASE k[1] = p
    <2>1. k[2] # number[p]
        BY <1>1, <1>3, Zenon DEF Current
    <2> QED
        BY <1>3, <2>1, Zenon DEF StageOf
<1> QED
    BY <1>2, <1>3, Zenon

\* The initial states of Connections are initial states of Rpc.
LEMMA InitImplements == Init => Abstract!Init
<1> SUFFICES ASSUME Init PROVE Abstract!Init
    BY Zenon
<1>1. \A k \in Calls : StageOf(k) = "new"
    BY ConnectionsAssumption DEF Init, StageOf, Calls
<1>2. Stage = [k \in Calls |-> "new"]
    BY <1>1, StageIs, Zenon
<1> QED
    BY <1>2, Zenon DEF Init, Abstract!Init

\* Invoke of Connections is Invoke of Rpc, for the call that begins.
LEMMA InvokeImplements ==
    ASSUME Types, Answers, NEW p \in Callers, Invoke(p)
    PROVE  \E call \in Calls : Abstract!Invoke(call)
<1>1. /\ number \in [Callers -> 0..MaxCalls] /\ MaxCalls \in Nat
      /\ pc \in [Callers -> {"idle", "lock", "connect", "write", "reconnect", "rewrite", "read"}]
    BY ConnectionsAssumption, Zenon DEF Types
<1>2. PICK call \in Calls : call = <<p, number[p] + 1>>
    <2>1. number[p] + 1 \in 1..MaxCalls
        BY <1>1 DEF Invoke
    <2> QED
        BY <2>1, Zenon DEF Calls
<1>3. StageOf(call) = "new"
    BY <1>1, <1>2 DEF StageOf
<1>4. /\ number'[p] = number[p] + 1 /\ pc'[p] # "idle" /\ pc[p] = "idle"
      /\ \A q \in Callers \ {p} : number'[q] = number[q] /\ pc'[q] = pc[q]
      /\ UNCHANGED <<answer, executions>>
    BY <1>1, Zenon DEF Invoke, server_vars
<1>5. StageOf(call)' = "pending"
    BY <1>1, <1>2, <1>4 DEF StageOf
<1>6. ASSUME NEW k \in Calls, k # call PROVE StageOf(k)' = StageOf(k)
    <2>1. k[1] \in Callers /\ k[2] \in Nat /\ k = <<k[1], k[2]>>
        BY DEF Calls
    <2>2. CASE k[1] # p
        BY <1>4, <2>1, <2>2, Zenon DEF StageOf
    <2>3. CASE k[1] = p
        <3>1. k[2] # number[p] + 1
            BY <1>2, <1>6, <2>1, <2>3, Zenon
        <3>2. k[2] > number'[p] <=> k[2] > number[p]
            BY <1>1, <1>4, <2>1, <3>1
        <3>3. k[2] # number'[p]
            BY <1>4, <3>1, Zenon
        <3> QED
            BY <1>4, <2>3, <3>2, <3>3, Zenon DEF StageOf
    <2> QED
        BY <2>2, <2>3, Zenon
<1>7. Stage[call] = "new" /\ Stage' = [Stage EXCEPT ![call] = "pending"]
    BY <1>2, <1>3, <1>5, <1>6, StageIs, Zenon
<1> QED
    BY <1>4, <1>7, Zenon DEF Abstract!Invoke

\* The steps of a call that do not return are no steps of Rpc.
LEMMA PendingImplements ==
    ASSUME Types, NEW p \in Callers, pc[p] # "idle", pc'[p] # "idle",
           \A q \in Callers \ {p} : pc'[q] = pc[q], UNCHANGED <<number, answer, executions>>
    PROVE  UNCHANGED <<Stage, executions, answer>>
<1>1. ASSUME NEW k \in Calls PROVE StageOf(k)' = StageOf(k)
    <2>1. k[1] \in Callers
        BY Zenon DEF Calls
    <2> QED
        BY <2>1, Zenon DEF StageOf
<1> QED
    BY <1>1, StageIs, Zenon

\* A call that returns an io::Error fails in Rpc.
LEMMA FailImplements ==
    ASSUME Types, Begun, Answers, NEW p \in Callers, pc[p] # "idle", Fail(p), UNCHANGED executions
    PROVE  \E call \in Calls : Abstract!Fail(call)
<1>1. PICK call \in Calls : call = Current(p)
    BY CurrentIsCall, Zenon DEF Begun
<1>2. /\ pc'[p] = "idle" /\ \A q \in Callers \ {p} : pc'[q] = pc[q]
      /\ UNCHANGED <<number, answer>>
    BY Zenon DEF Types, Fail, Release
<1>3. number[p] \in Nat /\ call[1] = p /\ call[2] = number[p]
    BY <1>1 DEF Types, Current
<1>4. answer[call] = NoAnswer
    <2>1. ~(call[2] < number[call[1]])
        BY <1>3
    <2> QED
        BY <1>3, <2>1, Zenon DEF Answers
<1>5. StageOf(call) = "pending" /\ StageOf(call)' = "failed"
    BY <1>2, <1>3, <1>4 DEF StageOf
<1>6. \A k \in Calls \ {call} : StageOf(k)' = StageOf(k)
    BY <1>1, <1>2, StageKept, Zenon
<1>7. Stage[call] = "pending" /\ Stage' = [Stage EXCEPT ![call] = "failed"]
    BY <1>5, <1>6, StageIs, Zenon
<1> QED
    BY <1>2, <1>7, Zenon DEF Abstract!Fail

\* A call that reads a response is answered in Rpc, with its own answer.
LEMMA ReadResponseImplements ==
    ASSUME ConnInv, Begun, NEW p \in Callers, ReadResponse(p)
    PROVE  \E call \in Calls : Abstract!Answer(call)
<1> USE DEF ConnInv
<1>1. PICK call \in Calls : call = Current(p) /\ executions[call] = 1 /\ Head(back[conn[p]]) = call
    BY ReadResponseTraffic, Zenon
<1>2. /\ pc[p] # "idle" /\ pc'[p] = "idle" /\ \A q \in Callers \ {p} : pc'[q] = pc[q]
      /\ answer' = [answer EXCEPT ![call] = call]
      /\ UNCHANGED <<number, executions>>
    BY <1>1, Zenon DEF Types, ReadResponse, Release, server_vars
<1>3. number[p] \in Nat /\ call[1] = p /\ call[2] = number[p]
    BY <1>1 DEF Types, Current
<1>4. answer'[call] = call /\ call # NoAnswer
    BY <1>2, ConnectionsAssumption, Zenon DEF Types, Calls
<1>5. StageOf(call) = "pending" /\ StageOf(call)' = "answered"
    BY <1>2, <1>3, <1>4 DEF StageOf
<1>6. \A k \in Calls \ {call} : answer'[k] = answer[k]
    BY <1>2, Zenon DEF Types
<1>7. \A k \in Calls \ {call} : StageOf(k)' = StageOf(k)
    BY <1>1, <1>2, <1>6, StageKept, Zenon
<1>8. Stage[call] = "pending" /\ Stage' = [Stage EXCEPT ![call] = "answered"]
    BY <1>5, <1>7, StageIs, Zenon
<1> QED
    BY <1>1, <1>2, <1>8, Zenon DEF Abstract!Answer

\* What the server executes is a request that it has not executed before.
LEMMA ExecuteImplements ==
    ASSUME ConnInv, NEW e \in Conns, Execute(e)
    PROVE  \E call \in Calls : Abstract!Execute(call)
<1> USE DEF ConnInv
<1>1. PICK call \in Calls : call = handler[e].call /\ Unexecuted(e, call)
    BY ExecuteTraffic, Zenon
<1>2. executions[call] = 0 /\ Sent(call)
    BY <1>1, Zenon DEF AtMostOnce
<1>3. executions' = [executions EXCEPT ![call] = 1] /\ UNCHANGED <<pc, number, answer>>
    <2>1. executions' = [executions EXCEPT ![call] = executions[call] + 1]
        BY <1>1, Zenon DEF Execute
    <2>2. UNCHANGED <<pc, number, answer>>
        BY Zenon DEF Execute, client_vars
    <2> QED
        BY <1>2, <2>1, <2>2
<1>4. Stage' = Stage
    BY <1>3 DEF Stage
<1>5. call[1] \in Callers /\ call[2] \in Nat /\ number[call[1]] \in Nat
    <2>1. number \in [Callers -> 0..MaxCalls]
        BY Zenon DEF Types
    <2>2. call[1] \in Callers /\ call[2] \in Nat
        BY DEF Calls
    <2> QED
        BY <2>1, <2>2
<1>6. ~(call[2] > number[call[1]])
    <2>1. call[2] <= number[call[1]]
        BY <1>2, Zenon DEF Sent
    <2> QED
        BY <1>5, <2>1
<1>7. StageOf(call) # "new"
    BY <1>6, Zenon DEF StageOf
<1> QED
    BY <1>2, <1>3, <1>4, <1>7, StageIs, Zenon DEF Abstract!Execute

\* For any number of callers, calls, connections and breaks and any size of
\* the pool, TcpClient and TcpPeerClient implement Rpc: no request is executed
\* twice, though TcpClient sends one again after a failed write, and no call
\* returns the response to another one.
THEOREM Implements == Spec => ImplementsRpc
<1>1. ConnInv /\ Begun /\ [Next]_vars => [Abstract!Next]_(Abstract!vars)
    <2> SUFFICES ASSUME ConnInv, Begun, [Next]_vars
                 PROVE  \/ Abstract!Next
                        \/ UNCHANGED <<Stage, executions, answer>>
        BY Zenon DEF Abstract!vars
    <2> USE DEF ConnInv
    <2>a. pc \in [Callers -> {"idle", "lock", "connect", "write", "reconnect", "rewrite", "read"}]
        BY Zenon DEF Types
    <2>1. ASSUME NEW p \in Callers, Invoke(p) PROVE Abstract!Next
        BY <2>1, InvokeImplements, Zenon DEF Abstract!Next
    <2>2. ASSUME NEW p \in Callers,
                 Acquire(p) \/ TakeFromPool(p) \/ Connect(p) \/ Reconnect(p) \/ Write(p)
          PROVE  UNCHANGED <<Stage, executions, answer>>
        <3>1. /\ pc[p] # "idle" /\ pc'[p] # "idle" /\ \A q \in Callers \ {p} : pc'[q] = pc[q]
              /\ UNCHANGED <<number, answer, executions>>
            BY <2>2, <2>a, Zenon
            DEF Acquire, TakeFromPool, Connect, Reconnect, Open, Write, server_vars
        <3> QED
            BY <3>1, PendingImplements, Zenon
    <2>3. ASSUME NEW p \in Callers, ConnectFails(p) \/ ReadFails(p) PROVE Abstract!Next
        <3>1. pc[p] # "idle" /\ Fail(p) /\ UNCHANGED executions
            BY <2>3, Zenon DEF ConnectFails, ReadFails, NoResponse, server_vars
        <3> QED
            BY <3>1, FailImplements, Zenon DEF Abstract!Next
    <2>4. ASSUME NEW p \in Callers, WriteFails(p)
          PROVE  Abstract!Next \/ UNCHANGED <<Stage, executions, answer>>
        <3>1. pc[p] # "idle" /\ UNCHANGED executions
            BY <2>4, Zenon DEF WriteFails, server_vars
        <3>2. CASE Fail(p)
            BY <3>1, <3>2, FailImplements, Zenon DEF Abstract!Next
        <3>3. CASE pc' = [pc EXCEPT ![p] = "reconnect"] /\ UNCHANGED <<number, answer>>
            BY <2>a, <3>1, <3>3, PendingImplements, Zenon
        <3> QED
            BY <2>4, <3>2, <3>3, Zenon DEF WriteFails
    <2>5. ASSUME NEW p \in Callers, ReadResponse(p) PROVE Abstract!Next
        BY <2>5, ReadResponseImplements, Zenon DEF Abstract!Next
    <2>6. ASSUME NEW e \in Conns, Execute(e) PROVE Abstract!Next
        BY <2>6, ExecuteImplements, Zenon DEF Abstract!Next
    <2>7. ASSUME NEW e \in Conns, Receive(e) \/ HangUp(e) \/ Reply(e) \/ Break(e)
          PROVE  UNCHANGED <<Stage, executions, answer>>
        <3>1. UNCHANGED <<pc, number, answer, executions>>
            BY <2>7, Zenon DEF Receive, HangUp, Reply, Break, client_vars, server_vars
        <3> QED
            BY <3>1 DEF Stage
    <2>8. CASE Done \/ UNCHANGED vars
        <3>1. UNCHANGED <<pc, number, answer, executions>>
            BY <2>8, Zenon DEF Done, vars, client_vars, server_vars
        <3> QED
            BY <3>1 DEF Stage
    <2> QED
        BY <2>1, <2>2, <2>3, <2>4, <2>5, <2>6, <2>7, <2>8, Zenon DEF Next, CallerStep, ServerStep
<1> QED
    BY <1>1, InitImplements, ConnInvHolds, PTL DEF Spec, ImplementsRpc, Abstract!Spec

------------------------------------------------------------------------------
\* return_connection keeps the pool within POOL_SIZE, whoever puts connections
\* back at the same time.
THEOREM TypeCorrect == Spec => []TypeOK
<1> DEFINE Bounded == IsFiniteSet(pool) /\ Cardinality(pool) <= POOL_SIZE
<1>1. Init => Bounded
    BY FS_EmptySet, ConnectionsAssumption DEF Init
<1>2. Bounded /\ [Next]_vars => Bounded'
    <2> SUFFICES ASSUME Bounded, [Next]_vars PROVE Bounded'
        BY Zenon
    <2>1. Cardinality(pool) \in Nat /\ POOL_SIZE \in Nat
        BY FS_CardinalityType, ConnectionsAssumption, Zenon
    <2>2. CASE UNCHANGED pool
        BY <2>2, Zenon
    <2>3. ASSUME NEW p \in Callers, TakeFromPool(p) PROVE Bounded'
        <3>1. PICK c \in pool : pool' = pool \ {c}
            BY <2>3, Zenon DEF TakeFromPool
        <3>2. IsFiniteSet(pool \ {c}) /\ Cardinality(pool \ {c}) = Cardinality(pool) - 1
            BY FS_RemoveElement, Zenon
        <3>3. Cardinality(pool \ {c}) <= POOL_SIZE
            BY <2>1, <3>2
        <3> QED
            BY <3>1, <3>2, <3>3, Zenon
    <2>4. ASSUME NEW p \in Callers, ReadResponse(p) PROVE Bounded'
        <3>1. CASE Cardinality(pool) < POOL_SIZE /\ pool' = pool \cup {conn[p]}
            <4>1. /\ IsFiniteSet(pool \cup {conn[p]})
                  /\ \/ Cardinality(pool \cup {conn[p]}) = Cardinality(pool)
                     \/ Cardinality(pool \cup {conn[p]}) = Cardinality(pool) + 1
                BY FS_AddElement, Zenon
            <4>2. Cardinality(pool \cup {conn[p]}) <= POOL_SIZE
                BY <2>1, <3>1, <4>1
            <4> QED
                BY <3>1, <4>1, <4>2, Zenon
        <3> QED
            BY <2>2, <2>4, <3>1, Zenon DEF ReadResponse
    <2>5. ASSUME NEW p \in Callers, CallerStep(p) PROVE Bounded'
        <3>1. TakeFromPool(p) \/ ReadResponse(p) \/ UNCHANGED pool
            BY <2>5, Zenon DEF CallerStep, Acquire, Connect, Reconnect, Open, ConnectFails, Write,
                        WriteFails, ReadFails, Fail
        <3> QED
            BY <2>2, <2>3, <2>4, <3>1, Zenon
    <2>6. ASSUME NEW p \in Callers, Invoke(p) PROVE Bounded'
        BY <2>2, <2>6, Zenon DEF Invoke
    <2>7. ASSUME NEW c \in Conns, ServerStep(c) \/ Break(c) PROVE Bounded'
        <3>1. UNCHANGED pool
            BY <2>7, Zenon DEF ServerStep, Receive, HangUp, Execute, Reply, Break, client_vars
        <3> QED
            BY <2>2, <3>1, Zenon
    <2>8. CASE Done \/ UNCHANGED vars
        BY <2>2, <2>8, Zenon DEF Done, vars, client_vars
    <2> QED
        BY <2>5, <2>6, <2>7, <2>8, Zenon DEF Next
<1>3. ConnInv /\ Bounded => TypeOK
    BY Zenon DEF ConnInv, TypeOK
<1> QED
    BY <1>1, <1>2, <1>3, ConnInvHolds, PTL DEF Spec

------------------------------------------------------------------------------
(***************************************************************************)
(* Where a request goes                                                    *)
(***************************************************************************)
\* The placement as somebody sees it who knows the whole cluster.
Size == Cardinality(cluster)

Rank(n) == Cardinality({id \in cluster : id < n})

Has(n, g) == Rank(n) \div replicas = g % (Size \div replicas)

\* A cluster that can be cut into blocks of as many nodes as a group has
\* replicas, the assertion of node_contains_raft_group, and in which every node
\* was given all the others.
Cluster ==
    /\ cluster \in SUBSET NodeIds
    /\ cluster # {}
    /\ replicas \in 1..Size
    /\ Size % replicas = 0
    /\ \A n \in cluster : peers[n] = cluster \ {n}

\* A cluster has finitely many nodes and at least one.
LEMMA ClusterSize ==
    ASSUME cluster \in SUBSET NodeIds, cluster # {}
    PROVE  IsFiniteSet(cluster) /\ Size \in Nat \ {0}
<1>1. IsFiniteSet(NodeIds)
    BY PlacementAssumption
<1>2. IsFiniteSet(cluster)
    BY <1>1, FS_Subset, Zenon
<1>3. Size \in Nat /\ Size # 0
    BY <1>2, FS_CardinalityType, FS_EmptySet, Zenon DEF Size
<1> QED
    BY <1>2, <1>3, Zenon

\* The ranks number the nodes from 0, each with a number of its own, and leave
\* none out.
LEMMA IndexIsRank ==
    ASSUME cluster \in SUBSET NodeIds, cluster # {}
    PROVE  [n \in cluster |-> Rank(n)] \in Bijection(cluster, 0..(Size - 1))
<1> DEFINE Index == [n \in cluster |-> Rank(n)]
           Below(n) == {other \in cluster : other < n}
<1>1. IsFiniteSet(cluster) /\ Size \in Nat \ {0} /\ cluster \subseteq Nat
    BY ClusterSize, PlacementAssumption
<1>2. ASSUME NEW n \in cluster
      PROVE  IsFiniteSet(Below(n)) /\ Rank(n) \in 0..(Size - 1)
    <2>1. Below(n) \in SUBSET cluster /\ n \notin Below(n)
        BY <1>1
    <2>2. /\ IsFiniteSet(Below(n))
          /\ Cardinality(Below(n)) <= Cardinality(cluster)
          /\ Cardinality(cluster) # Cardinality(Below(n))
        BY <1>1, <2>1, FS_Subset, Zenon
    <2>3. Cardinality(Below(n)) \in Nat
        BY <2>2, FS_CardinalityType, Zenon
    <2>4. Rank(n) = Cardinality(Below(n))
        BY Zenon DEF Rank
    <2> HIDE DEF Below
    <2> QED
        BY <1>1, <2>2, <2>3, <2>4 DEF Size
<1>3. ASSUME NEW m \in cluster, NEW n \in cluster, m < n
      PROVE  Rank(m) # Rank(n)
    <2>1. m \in Nat /\ n \in Nat /\ \A other \in cluster : other \in Nat
        BY <1>1, Zenon
    <2>2. m \in Below(n) /\ m \notin Below(m)
        BY <1>3, <2>1
    <2>3. \A other \in cluster : other < m => other < n
        BY <1>3, <2>1
    <2>4. Below(m) \in SUBSET Below(n)
        BY <2>3, Zenon
    <2>5. Cardinality(Below(n)) # Cardinality(Below(m))
        BY <1>2, <2>2, <2>4, FS_Subset, Zenon
    <2> QED
        BY <2>5, Zenon DEF Rank
<1>4. Index \in Injection(cluster, 0..(Size - 1))
    <2>1. Index \in [cluster -> 0..(Size - 1)]
        BY <1>2, Zenon
    <2>2. ASSUME NEW m \in cluster, NEW n \in cluster, Index[m] = Index[n]
          PROVE  m = n
        <3>1. m < n \/ n < m \/ m = n
            BY <1>1
        <3> QED
            BY <1>3, <2>2, <3>1, Zenon
    <2> QED
        BY <2>1, <2>2, Zenon DEF Injection, IsInjective
<1>5. IsFiniteSet(0..(Size - 1)) /\ Cardinality(0..(Size - 1)) = Size
    BY <1>1, FS_Interval
<1>6. Index \in Surjection(cluster, 0..(Size - 1))
    <2> HIDE DEF Index
    <2> QED
        BY <1>4, <1>5, FS_Injection, Zenon DEF Size
<1> QED
    BY <1>4, <1>6 DEF Bijection

------------------------------------------------------------------------------
\* The node indices that node_contains_raft_group puts into one block.
LEMMA BlockOfIndices ==
    ASSUME NEW i \in Nat, NEW size \in Nat \ {0}, NEW b \in Nat
    PROVE  i \div size = b <=> i \in (b * size)..(b * size + size - 1)
<1>1. /\ i \div size \in Nat
      /\ (i \div size) * size <= i
      /\ i < (i \div size) * size + size
    OBVIOUS
<1> QED
    BY <1>1

\* Every block that a group can be dealt out to is within the cluster.
LEMMA BlockIsInCluster ==
    ASSUME Cluster, NEW g \in Nat
    PROVE  LET b == g % (Size \div replicas)
           IN  /\ Size \div replicas \in Nat \ {0}
               /\ b \in Nat
               /\ b * replicas \in Nat
               /\ b * replicas + replicas <= Size
<1> DEFINE N == Size
           r == replicas
           blocks == N \div r
           b == g % blocks
<1>1. N \in Nat \ {0} /\ r \in Nat \ {0} /\ r <= N
    BY ClusterSize DEF Cluster
<1> HIDE DEF N, r
<1>2. blocks \in Nat /\ blocks * r <= N /\ N < blocks * r + r
    BY <1>1
<1>3. blocks # 0
    BY <1>1, <1>2
<1> HIDE DEF blocks
<1>4. b \in Nat /\ b < blocks
    BY <1>2, <1>3
<1> HIDE DEF b
<1>5. b * r \in Nat
    BY <1>1, <1>4
<1>6. (b + 1) * r <= blocks * r
    BY <1>1, <1>2, <1>4
<1>7. (b + 1) * r = b * r + r
    BY <1>1, <1>4
<1> QED
    BY <1>1, <1>2, <1>3, <1>4, <1>5, <1>6, <1>7 DEF N, r, blocks, b

\* Every group has as many members as it has replicas: the indices of its
\* members are one block.
LEMMA GroupHasReplicas ==
    ASSUME Cluster, NEW g \in Nat
    PROVE  LET members == {n \in cluster : Has(n, g)}
           IN  IsFiniteSet(members) /\ Cardinality(members) = replicas
<1> DEFINE b == g % (Size \div replicas)
           Block == (b * replicas)..(b * replicas + replicas - 1)
           members == {n \in cluster : Has(n, g)}
           Index == [n \in cluster |-> Rank(n)]
           Inside == [n \in members |-> Rank(n)]
<1>1. IsFiniteSet(cluster) /\ Size \in Nat \ {0} /\ replicas \in Nat \ {0}
    BY ClusterSize DEF Cluster
<1>2. b \in Nat /\ b * replicas \in Nat /\ b * replicas + replicas <= Size
    BY BlockIsInCluster, Zenon
<1>3. Index \in Bijection(cluster, 0..(Size - 1))
    BY IndexIsRank, Zenon DEF Cluster
<1>4. /\ \A n \in cluster : Rank(n) \in 0..(Size - 1)
      /\ \A m, n \in cluster : Rank(m) = Rank(n) => m = n
      /\ \A i \in 0..(Size - 1) : \E n \in cluster : Rank(n) = i
    BY <1>3, Zenon DEF Bijection, Injection, Surjection, IsInjective
<1>5. \A n \in cluster : n \in members <=> Rank(n) \in Block
    <2> TAKE n \in cluster
    <2>1. Rank(n) \in Nat
        BY <1>1, <1>4
    <2>2. Rank(n) \div replicas = b <=> Rank(n) \in Block
        BY <1>1, <1>2, <2>1, BlockOfIndices, Zenon
    <2> QED
        BY <2>2, Zenon DEF Has
<1>6. Block \subseteq 0..(Size - 1)
    BY <1>1, <1>2
<1>7. Cardinality(Block) = replicas
    <2>1. /\ b * replicas \in Int
          /\ b * replicas + replicas - 1 \in Int
          /\ ~(b * replicas > b * replicas + replicas - 1)
          /\ (b * replicas + replicas - 1) - b * replicas + 1 = replicas
        BY <1>1, <1>2
    <2> QED
        BY <2>1, FS_Interval, Zenon
<1> HIDE DEF b, Block
<1>8. Inside \in Bijection(members, Block)
    <2>1. Inside \in [members -> Block]
        BY <1>5, Zenon
    <2>2. IsInjective(Inside)
        BY <1>4, Zenon DEF IsInjective
    <2>3. \A i \in Block : \E n \in members : Inside[n] = i
        BY <1>4, <1>5, <1>6, Zenon
    <2> QED
        BY <2>1, <2>2, <2>3, Zenon DEF Bijection, Injection, Surjection
<1>9. IsFiniteSet(members)
    BY <1>1, FS_Subset, Zenon
<1>10. Cardinality(Block) = Cardinality(members)
    <2> HIDE DEF members, Inside
    <2>1. ExistsBijection(members, Block)
        BY <1>8, Zenon DEF ExistsBijection
    <2> QED
        BY <1>9, <2>1, FS_Bijection, Zenon
<1> QED
    BY <1>7, <1>9, <1>10, Zenon

\* Every node comes to the placement of somebody who knows the whole cluster.
LEMMA EveryViewIsTheSame ==
    ASSUME Cluster, NEW n \in cluster
    PROVE  /\ TotalNodes(n) = Size
           /\ Rgroups(n) = 0..(Size - 1)
           /\ \A m : NodeIndex(n, m) = Rank(m)
           /\ \A m, g : NodeContainsRaftGroup(n, m, g) <=> Has(m, g)
           /\ LocalGroups(n) = {g \in 0..(Size - 1) : Has(n, g)}
<1>1. peers[n] = cluster \ {n} /\ {n} \cup peers[n] = cluster
    BY Zenon DEF Cluster
<1>2. TotalNodes(n) = Size
    <2>1. IsFiniteSet(cluster) /\ Size \in Nat \ {0}
        BY ClusterSize, Zenon DEF Cluster
    <2>2. Cardinality(cluster \ {n}) = Size - 1
        BY <2>1, FS_RemoveElement, Zenon DEF Size
    <2> QED
        BY <1>1, <2>1, <2>2 DEF TotalNodes
<1>3. Rgroups(n) = 0..(Size - 1)
    BY <1>2, Zenon DEF Rgroups
<1>4. \A m : NodeIndex(n, m) = Rank(m)
    BY <1>1, Zenon DEF NodeIndex, Rank
<1>5. \A m, g : NodeContainsRaftGroup(n, m, g) <=> Has(m, g)
    BY <1>2, <1>4, Zenon DEF NodeContainsRaftGroup, Has
<1> QED
    BY <1>2, <1>3, <1>4, <1>5, Zenon DEF LocalGroups

\* In every cluster the nodes are numbered without gaps, the members of a group
\* agree on who they are, and every node finds an address for every group.
LEMMA ClusterAgrees == ASSUME Cluster PROVE MembersAgree
<1>1. Size \in Nat \ {0} /\ replicas \in Nat \ {0}
    BY ClusterSize DEF Cluster
<1>2. ASSUME NEW n \in cluster
      PROVE  {NodeIndex(n, m) : m \in cluster} = 0..(Size - 1)
    <2>1. \A m : NodeIndex(n, m) = Rank(m)
        BY EveryViewIsTheSame, Zenon
    <2>2. [m \in cluster |-> Rank(m)] \in Bijection(cluster, 0..(Size - 1))
        BY IndexIsRank, Zenon DEF Cluster
    <2>3. /\ \A m \in cluster : Rank(m) \in 0..(Size - 1)
          /\ \A i \in 0..(Size - 1) : \E m \in cluster : Rank(m) = i
        BY <2>2, Zenon DEF Bijection, Injection, Surjection
    <2> QED
        BY <2>1, <2>3, Zenon
<1>3. ASSUME NEW g \in 0..(Size - 1)
      PROVE  LET members == {n \in cluster : g \in LocalGroups(n)}
             IN  /\ Cardinality(members) = replicas
                 /\ \A n \in members : MembersSeenBy(n, g) = members
                 /\ \A n \in cluster : Addresses(n, g) # {} /\ Addresses(n, g) \subseteq members
    <2> DEFINE members == {n \in cluster : g \in LocalGroups(n)}
    <2>1. g \in Nat
        BY <1>1
    <2>2. members = {n \in cluster : Has(n, g)}
        BY EveryViewIsTheSame, Zenon
    <2>3. IsFiniteSet(members) /\ Cardinality(members) = replicas
        BY <2>1, <2>2, GroupHasReplicas, Zenon
    <2>4. members # {}
        BY <1>1, <2>3, FS_EmptySet, Zenon
    <2> HIDE DEF members
    <2>5. \A n \in cluster : peers[n] = cluster \ {n}
        BY Zenon DEF Cluster
    <2>6. \A n \in members : MembersSeenBy(n, g) = members
        BY <2>2, <2>5, EveryViewIsTheSame, Zenon DEF MembersSeenBy
    <2>7. \A n \in cluster : Addresses(n, g) # {} /\ Addresses(n, g) \subseteq members
        <3> TAKE n \in cluster
        <3>1. \A m : NodeContainsRaftGroup(n, m, g) <=> Has(m, g)
            BY EveryViewIsTheSame, Zenon
        <3>2. n \in members <=> Has(n, g)
            BY <2>2, Zenon
        <3>3. CASE n \in members
            BY <3>1, <3>2, <3>3, Zenon DEF Addresses
        <3>4. CASE n \notin members
            <4>1. Addresses(n, g) = {m \in cluster \ {n} : Has(m, g)}
                BY <2>5, <3>1, <3>2, <3>4, Zenon DEF Addresses
            <4>2. Addresses(n, g) = members
                BY <2>2, <3>4, <4>1, Zenon
            <4> QED
                BY <2>4, <4>2, Zenon
        <3> QED
            BY <3>3, <3>4, Zenon
    <2> QED
        BY <2>3, <2>6, <2>7, Zenon DEF members
<1> QED
    BY <1>2, <1>3, Zenon DEF MembersAgree, Size

------------------------------------------------------------------------------
\* What is true of the request on its way: a request for a group is of a
\* group that exists, nothing is forwarded before it leaves its coordinator,
\* and what was forwarded is at a node that has the group.
PlacementInv ==
    /\ Cluster
    /\ at \in cluster
    /\ request.kind \in {"inode", "group"}
    /\ request.number \in Nat
    /\ request.kind = "group" => request.number \in 0..(Size - 1)
    /\ hops \in 0..1
    /\ stage \in {"coordinator", "arrived", "handled"}
    /\ stage = "coordinator" => hops = 0
    /\ stage = "arrived" /\ (hops = 1 \/ request.kind = "group") => CanHandleLocally(at, request)

\* The group that a request is about is one of the cluster, and the same
\* whichever node works it out.
LEMMA GroupExists ==
    ASSUME PlacementInv, NEW n \in cluster
    PROVE  /\ GroupOfRequest(n, request) \in 0..(Size - 1)
           /\ \A m \in cluster : GroupOfRequest(m, request) = GroupOfRequest(n, request)
<1>1. Cluster /\ Size \in Nat \ {0}
    BY ClusterSize, Zenon DEF PlacementInv, Cluster
<1>2. \A m \in cluster : GroupOfInode(m, request.number) = request.number % Size
    BY <1>1, EveryViewIsTheSame, Zenon DEF GroupOfInode
<1>3. request.number % Size \in 0..(Size - 1)
    BY <1>1 DEF PlacementInv
<1> QED
    BY <1>2, <1>3, Zenon DEF PlacementInv, GroupOfRequest

\* Where a request can be handled, the lookup of its group succeeds.
LEMMA LocalMeansHere ==
    ASSUME PlacementInv, NEW n \in cluster
    PROVE  CanHandleLocally(n, request) <=> GroupOfRequest(n, request) \in LocalGroups(n)
<1>1. Cluster
    BY Zenon DEF PlacementInv
<1> QED
    BY <1>1, GroupExists, EveryViewIsTheSame, Zenon DEF CanHandleLocally, GroupOfRequest

\* The addresses of RemoteRaftGroups for the group of a request are nodes of
\* the cluster that can handle it.
LEMMA AddressesHandle ==
    ASSUME PlacementInv, NEW n \in cluster, NEW m \in Addresses(n, GroupOfRequest(n, request))
    PROVE  m \in cluster /\ CanHandleLocally(m, request)
<1>1. Cluster
    BY Zenon DEF PlacementInv
<1>2. m \in cluster /\ NodeContainsRaftGroup(n, m, GroupOfRequest(n, request))
    BY <1>1, Zenon DEF Addresses, Cluster
<1>3. Has(m, GroupOfRequest(m, request)) /\ GroupOfRequest(m, request) \in 0..(Size - 1)
    BY <1>1, <1>2, GroupExists, EveryViewIsTheSame, Zenon
<1>4. GroupOfRequest(m, request) \in LocalGroups(m)
    BY <1>1, <1>2, <1>3, EveryViewIsTheSame, Zenon
<1> QED
    BY <1>2, <1>4, LocalMeansHere, Zenon

\* The operators about the cluster do not depend on where the request is.
LEMMA SameCluster ==
    ASSUME UNCHANGED <<peers, replicas, request>>
    PROVE  /\ cluster' = cluster
           /\ Cluster' = Cluster
           /\ Size' = Size
           /\ \A n : CanHandleLocally(n, request)' = CanHandleLocally(n, request)
<1>1. cluster' = cluster
    BY Zenon DEF cluster
<1>2. Size' = Size
    BY <1>1, Zenon DEF Size
<1>3. Cluster' = Cluster
    BY <1>1, <1>2, Zenon DEF Cluster
<1>4. \A n : TotalNodes(n)' = TotalNodes(n)
    BY Zenon DEF TotalNodes
<1>5. /\ \A n, m : NodeIndex(n, m)' = NodeIndex(n, m)
      /\ \A n : Rgroups(n)' = Rgroups(n)
    BY <1>4, Zenon DEF NodeIndex, Rgroups
<1>6. /\ \A n, m, g : NodeContainsRaftGroup(n, m, g)' = NodeContainsRaftGroup(n, m, g)
      /\ \A n, i : GroupOfInode(n, i)' = GroupOfInode(n, i)
    BY <1>4, <1>5, Zenon DEF NodeContainsRaftGroup, GroupOfInode
<1>7. \A n : LocalGroups(n)' = LocalGroups(n)
    BY <1>5, <1>6, Zenon DEF LocalGroups
<1>8. \A n : CanHandleLocally(n, request)' = CanHandleLocally(n, request)
    BY <1>6, <1>7, Zenon DEF CanHandleLocally
<1> QED
    BY <1>1, <1>2, <1>3, <1>8, Zenon

\* The requests that RequestInit allows are in order.
LEMMA PlacementInit == RequestInit => PlacementInv
<1> SUFFICES ASSUME RequestInit PROVE PlacementInv
    OBVIOUS
<1>1. Cluster /\ at \in cluster /\ hops = 0
    <2>1. PICK nodes \in (SUBSET NodeIds) \ {{}} : peers = [n \in nodes |-> nodes \ {n}]
        BY Zenon DEF RequestInit
    <2>2. cluster = nodes
        BY <2>1, Zenon DEF cluster
    <2>3. /\ cluster \in SUBSET NodeIds
          /\ cluster # {}
          /\ \A n \in cluster : peers[n] = cluster \ {n}
        <3>1. nodes \in SUBSET NodeIds /\ nodes # {}
            BY <2>1
        <3>2. \A n \in nodes : peers[n] = nodes \ {n}
            BY <2>1
        <3> QED
            BY <2>2, <3>1, <3>2, Zenon
    <2>4. IsFiniteSet(cluster) /\ Size \in Nat \ {0}
        BY <2>3, ClusterSize, Zenon
    <2>5. ASSUME NEW n \in cluster PROVE TotalNodes(n) = Size
        <3>1. Cardinality(cluster \ {n}) = Size - 1
            BY <2>4, FS_RemoveElement, Zenon DEF Size
        <3>2. TotalNodes(n) = Cardinality(cluster \ {n}) + 1
            BY <2>3, Zenon DEF TotalNodes
        <3> QED
            BY <2>4, <3>1, <3>2
    <2>6. Size % replicas = 0 /\ replicas \in 1..Size
        BY <2>5, Zenon DEF RequestInit, Size
    <2> QED
        BY <2>3, <2>6, Zenon DEF RequestInit, Cluster
<1>2. Size \in Nat \ {0} /\ Rgroups(at) = 0..(Size - 1)
    BY <1>1, ClusterSize, EveryViewIsTheSame, Zenon DEF Cluster
<1>3. CASE request \in [kind : {"inode"}, number : 1..MaxInode] /\ stage \in {"arrived", "coordinator"}
    <2>1. request.kind = "inode" /\ request.number \in Nat
        BY <1>3, PlacementAssumption
    <2> QED
        BY <1>1, <1>3, <2>1 DEF PlacementInv
<1>4. CASE request \in [kind : {"group"}, number : Rgroups(at)] /\ stage = "coordinator"
    <2>1. request.kind = "group" /\ request.number \in 0..(Size - 1)
        BY <1>2, <1>4, Zenon
    <2>2. request.number \in Nat
        BY <1>2, <2>1
    <2> QED
        BY <1>1, <1>4, <2>1, <2>2 DEF PlacementInv
<1> QED
    BY <1>3, <1>4, Zenon DEF RequestInit

\* Every step of a request keeps it in order.
LEMMA PlacementStep == PlacementInv /\ [RequestNext]_request_vars => PlacementInv'
<1> SUFFICES ASSUME PlacementInv, [RequestNext]_request_vars PROVE PlacementInv'
    BY Zenon
<1>1. /\ Cluster
      /\ at \in cluster
      /\ hops \in 0..1
      /\ stage = "coordinator" => hops = 0
      /\ stage = "arrived" /\ (hops = 1 \/ request.kind = "group") => CanHandleLocally(at, request)
    BY Zenon DEF PlacementInv
<1>2. UNCHANGED <<peers, replicas, request>>
    BY Zenon DEF RequestNext, Forward, HandleHere, ProposeLocally, ProposeRemotely, RequestDone, Handle, SendTo, request_vars
<1>3. ASSUME NEW n \in Addresses(at, GroupOfRequest(at, request)), SendTo(n), hops = 0
      PROVE  PlacementInv'
    <2>1. n \in cluster /\ CanHandleLocally(n, request)
        BY <1>1, AddressesHandle, Zenon
    <2>2. at' = n /\ hops' = 1 /\ stage' = "arrived"
        BY <1>3 DEF SendTo
    <2>3. CanHandleLocally(at, request)'
        BY <1>2, <2>1, <2>2, SameCluster, Zenon
    <2> QED
        BY <1>2, <2>1, <2>2, <2>3, SameCluster DEF PlacementInv
<1>4. ASSUME Handle, CanHandleLocally(at, request) PROVE PlacementInv'
    <2>1. stage' = "handled" /\ UNCHANGED <<at, hops>>
        BY <1>1, <1>4, LocalMeansHere, Zenon DEF Handle
    <2> QED
        BY <1>2, <2>1, SameCluster, Zenon DEF PlacementInv
<1>5. CASE Forward
    <2>1. hops = 0 /\ request.kind # "group"
        BY <1>1, <1>5 DEF Forward
    <2>2. PICK n \in Addresses(at, GroupOfRequest(at, request)) : SendTo(n)
        BY <1>5, <2>1, Zenon DEF Forward
    <2> QED
        BY <1>3, <2>1, <2>2, Zenon
<1>6. CASE ProposeRemotely
    <2>1. PICK n \in Addresses(at, GroupOfRequest(at, request)) : SendTo(n)
        BY <1>6, Zenon DEF ProposeRemotely
    <2>2. hops = 0
        BY <1>1, <1>6, Zenon DEF ProposeRemotely
    <2> QED
        BY <1>3, <2>1, <2>2, Zenon
<1>7. CASE HandleHere \/ ProposeLocally
    BY <1>4, <1>7, Zenon DEF HandleHere, ProposeLocally
<1>8. CASE RequestDone \/ UNCHANGED request_vars
    <2>1. UNCHANGED <<at, hops, stage>>
        BY <1>8, Zenon DEF RequestDone, request_vars
    <2>2. CanHandleLocally(at, request)' = CanHandleLocally(at, request)
        BY <1>2, <2>1, SameCluster, Zenon
    <2> QED
        BY <1>2, <2>1, <2>2, SameCluster, Zenon DEF PlacementInv
<1> QED
    BY <1>5, <1>6, <1>7, <1>8, Zenon DEF RequestNext

\* The invariant that the two theorems below rest on.
THEOREM PlacementInvHolds == RequestSpec => []PlacementInv
    BY PlacementInit, PlacementStep, PTL DEF RequestSpec

\* Whatever the cluster and whichever node a client or a coordinator starts
\* at, a request is forwarded at most once, and none of the lookups of
\* LocalRaftGroupManager and RemoteRaftGroups panics.
THEOREM RequestsArrive == RequestSpec => []OneHopIsEnough
<1>1. PlacementInv => OneHopIsEnough
    BY DEF PlacementInv, OneHopIsEnough
<1> QED
    BY <1>1, PlacementInvHolds, PTL

\* Every node numbers the cluster from 0 without a gap; every group has exactly
\* as many members as replicas_per_raft_group says; its members, each of which
\* computes node_contains_raft_group from its own list of peers, agree on who
\* they are; and every node knows an address for every group.
THEOREM GroupsAreWellFormed == RequestSpec => []MembersAgree
<1>1. PlacementInv => MembersAgree
    BY ClusterAgrees, Zenon DEF PlacementInv
<1> QED
    BY <1>1, PlacementInvHolds, PTL
==============================================================================
