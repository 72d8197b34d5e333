--------------------------- MODULE LockTableProofs ---------------------------
(***************************************************************************)
(* Facts about the operators of LockTable that the proofs of the modules   *)
(* with a lock table rest on.                                              *)
(***************************************************************************)
EXTENDS LockTable, TLAPS, WellFoundedInduction

\* Every set of numbers that is not empty has a least element.
LEMMA LeastElement ==
    ASSUME NEW S \in SUBSET Nat, S # {}
    PROVE  \E k \in S : \A l \in S : k <= l
<1>1. \E x \in S : \A y \in S : ~(<<y, x>> \in OpToRel(<, Nat))
    BY WFMin, NatLessThanWellFounded
<1>2. PICK x \in S : \A y \in S : ~(<<y, x>> \in OpToRel(<, Nat))
    BY <1>1
<1>3. \A y \in S : x <= y
    <2> SUFFICES ASSUME NEW y \in S PROVE x <= y
        OBVIOUS
    <2>1. ~(<<y, x>> \in OpToRel(<, Nat))
        BY <1>2
    <2>2. x \in Nat /\ y \in Nat
        OBVIOUS
    <2>3. ~(y < x)
        BY <2>1, <2>2, Zenon DEF OpToRel
    <2> QED
        BY <2>2, <2>3
<1> QED
    BY <1>3

\* The scan of unlock finds the first Lock request of a queue that has one.
LEMMA FirstLockWaiter ==
    ASSUME NEW queue, LockWaiters(queue) # {}
    PROVE  /\ RequestsToProcess(queue) \in LockWaiters(queue)
           /\ \A l \in LockWaiters(queue) : RequestsToProcess(queue) <= l
<1>1. LockWaiters(queue) \in SUBSET Nat
    BY DEF LockWaiters
<1>2. \E k \in LockWaiters(queue) : \A l \in LockWaiters(queue) : k <= l
    BY <1>1, LeastElement
<1> QED
    BY <1>2 DEF RequestsToProcess

\* A queue without its first requests
LEMMA RestOfQueue ==
    ASSUME NEW S, NEW s \in Seq(S), NEW j \in 0..Len(s)
    PROVE  /\ SubSeq(s, j + 1, Len(s)) \in Seq(S)
           /\ Len(SubSeq(s, j + 1, Len(s))) = Len(s) - j
           /\ \A k \in 1..(Len(s) - j) :
                k + j \in 1..Len(s) /\ SubSeq(s, j + 1, Len(s))[k] = s[k + j]
    OBVIOUS

------------------------------------------------------------------------------
\* What an Unlock sets free are requests of the queue and no Lock among them;
\* the lock goes to a Lock request of the queue.
LEMMA QueueServed ==
    ASSUME NEW Requests, NEW queue \in Seq(Waitable(Requests))
    PROVE  /\ SetFree(queue) \in Seq({r \in Waitable(Requests) : r.type # "Lock"})
           /\ NextLocker(queue) \in SUBSET {r \in Waitable(Requests) : r.type = "Lock"}
           /\ SubSeq(queue, RequestsToProcess(queue) + 1, Len(queue)) \in Seq(Waitable(Requests))
<1> DEFINE W == Waitable(Requests)
           Others == {r \in W : r.type # "Lock"}
<1>0. queue \in Seq(W) /\ Len(queue) \in Nat /\ \A k \in 1..Len(queue) : queue[k] \in W
    OBVIOUS
<1>1. CASE LockWaiters(queue) = {}
    <2>1. \A k \in 1..Len(queue) : queue[k] \in Others
        BY <1>0, <1>1 DEF LockWaiters
    <2>2. queue \in Seq(Others)
        <3>1. queue = [k \in 1..Len(queue) |-> queue[k]]
            BY <1>0
        <3> QED
            BY <3>1, <2>1, <1>0
    <2>3. RequestsToProcess(queue) = Len(queue)
        BY <1>1 DEF RequestsToProcess
    <2>4. SubSeq(queue, Len(queue) + 1, Len(queue)) \in Seq(W)
        BY <1>0
    <2> QED
        BY <1>1, <2>2, <2>3, <2>4 DEF SetFree, NextLocker
<1>2. CASE LockWaiters(queue) # {}
    <2> DEFINE first == RequestsToProcess(queue)
    <2>1. first \in LockWaiters(queue) /\ \A l \in LockWaiters(queue) : first <= l
        BY <1>2, FirstLockWaiter
    <2>2. first \in 1..Len(queue) /\ queue[first].type = "Lock"
        BY <2>1 DEF LockWaiters
    <2> HIDE DEF first
    <2>3. \A k \in 1..(first - 1) : queue[k] \in Others
        BY <1>0, <2>1, <2>2 DEF LockWaiters
    <2>4. SubSeq(queue, 1, first - 1) \in Seq(Others)
        <3>1. SubSeq(queue, 1, first - 1) = [k \in 1..(first - 1) |-> queue[k]]
            BY <1>0, <2>2
        <3>2. first - 1 \in Nat
            BY <2>2, <1>0
        <3> QED
            BY <3>1, <3>2, <2>3
    <2>5. SubSeq(queue, first + 1, Len(queue)) \in Seq(W)
        BY <1>0, <2>2
    <2>6. queue[first] \in W
        BY <1>0, <2>2
    <2> QED
        BY <1>2, <2>2, <2>4, <2>5, <2>6 DEF SetFree, NextLocker, first
<1> QED
    BY <1>1, <1>2

\* Whatever command goes through the table, the table keeps its type; what is
\* committed is no Lock and no Unlock, and what gets a lock is a Lock request.
LEMMA TableServed ==
    ASSUME NEW Requests, NEW lt \in Tables(Requests), NEW req \in Requests,
           req.inode \in Inodes
    PROVE  /\ TableAfter(lt, req) \in Tables(Requests)
           /\ ToProcess(lt, req) \in Seq({r \in Waitable(Requests) : r.type # "Lock"})
           /\ GrantedTo(lt, req) \in SUBSET {r \in Waitable(Requests) : r.type = "Lock"}
<1> DEFINE W == Waitable(Requests)
           queue == lt.pending[req.inode]
<1>1. /\ queue \in Seq(W)
      /\ lt.lock_ids \in [Inodes -> Nat \cup {NoLockId}]
      /\ lt.pending \in [Inodes -> Seq(W)]
      /\ lt.next_id \in Nat
    BY DEF Tables
<1>2. IsLocked(lt, req) => req \in W
    BY DEF IsLocked, AccessType, Waitable
<1>3. IsLocked(lt, req) => WaitForLock(lt, req) \in Tables(Requests)
    <2> SUFFICES ASSUME req \in W PROVE WaitForLock(lt, req) \in Tables(Requests)
        BY <1>2
    <2>1. Append(queue, req) \in Seq(W)
        BY <1>1
    <2> QED
        BY <1>1, <2>1, Zenon DEF WaitForLock, Tables
<1>4. Lock(lt, req.inode) \in Tables(Requests)
    <2>1. [lt.lock_ids EXCEPT ![req.inode] = lt.next_id] \in [Inodes -> Nat \cup {NoLockId}]
        BY <1>1
    <2>2. lt.next_id + 1 \in Nat
        BY <1>1
    <2> QED
        BY <1>1, <2>1, <2>2, Zenon DEF Lock, Tables
<1>5. Unlock(lt, req.inode) \in Tables(Requests)
    <2>1. SubSeq(queue, RequestsToProcess(queue) + 1, Len(queue)) \in Seq(W)
        BY <1>1, QueueServed, Zenon
    <2> QED
        BY <1>1, <2>1 DEF Unlock, Tables
<1>6. TableAfter(lt, req) \in Tables(Requests)
    BY <1>3, <1>4, <1>5 DEF TableAfter
<1>7. ToProcess(lt, req) \in Seq({r \in W : r.type # "Lock"})
    <2>1. SetFree(queue) \in Seq({r \in W : r.type # "Lock"})
        BY <1>1, QueueServed
    <2>2. req.type \notin {"Lock", "Unlock"} => req \in {r \in W : r.type # "Lock"}
        BY DEF Waitable
    <2>3. <<>> \in Seq({r \in W : r.type # "Lock"})
        OBVIOUS
    <2>4. req.type \notin {"Lock", "Unlock"} => <<req>> \in Seq({r \in W : r.type # "Lock"})
        BY <2>2
    <2> HIDE DEF W
    <2> QED
        BY <2>1, <2>3, <2>4, Zenon DEF ToProcess
<1>8. GrantedTo(lt, req) \in SUBSET {r \in W : r.type = "Lock"}
    <2>1. NextLocker(queue) \in SUBSET {r \in W : r.type = "Lock"}
        BY <1>1, QueueServed, Zenon
    <2>2. req.type = "Lock" => req \in W
        BY DEF Waitable
    <2> QED
        BY <2>1, <2>2 DEF GrantedTo
<1> QED
    BY <1>6, <1>7, <1>8

\* Where requests go: the command joins the queue of its inode, or is committed
\* at once, or the first requests of the queue are committed in their order and
\* leave it, with at most the Lock request behind them.
Moves(lt, req, out, next) ==
    LET queue == lt.pending[req.inode]
    IN  \/ out = <<>> /\ next = [lt.pending EXCEPT ![req.inode] = Append(queue, req)]
        \/ out = <<>> /\ next = lt.pending
        \/ out = <<req>> /\ next = lt.pending
        \/ \E d \in 0..Len(queue) : \E f \in 0..d :
              /\ out = SubSeq(queue, 1, f)
              /\ next = [lt.pending EXCEPT ![req.inode] = SubSeq(queue, d + 1, Len(queue))]

\* A command moves requests through the lock table in one of these ways.
LEMMA TableMoves ==
    ASSUME NEW Requests, NEW lt \in Tables(Requests), NEW req \in Requests,
           req.inode \in Inodes
    PROVE  Moves(lt, req, ToProcess(lt, req), TableAfter(lt, req).pending)
<1> DEFINE queue == lt.pending[req.inode]
           out   == ToProcess(lt, req)
           next  == TableAfter(lt, req).pending
<1>1. CASE IsLocked(lt, req)
    <2>0. TableAfter(lt, req) = WaitForLock(lt, req)
        BY <1>1, Zenon DEF TableAfter
    <2>1. out = <<>>
        <3>1. req.type # "Unlock"
            BY <1>1 DEF IsLocked, AccessType
        <3> QED
            BY <1>1, <3>1 DEF ToProcess
    <2>2. WaitForLock(lt, req).pending = [lt.pending EXCEPT ![req.inode] = Append(queue, req)]
        BY DEF WaitForLock, Tables
    <2> QED
        BY <2>0, <2>1, <2>2 DEF Moves
<1>2. CASE ~IsLocked(lt, req) /\ req.type = "Lock"
    <2>1. TableAfter(lt, req) = Lock(lt, req.inode) /\ out = <<>>
        BY <1>2 DEF TableAfter, ToProcess
    <2>2. Lock(lt, req.inode).pending = lt.pending
        BY DEF Lock, Tables
    <2> QED
        BY <2>1, <2>2 DEF Moves
<1>3. CASE ~IsLocked(lt, req) /\ req.type = "Unlock"
    <2>1. TableAfter(lt, req) = Unlock(lt, req.inode) /\ out = SetFree(queue)
        BY <1>3 DEF TableAfter, ToProcess
    <2>2. Unlock(lt, req.inode).pending =
            [lt.pending EXCEPT ![req.inode] = SubSeq(queue, RequestsToProcess(queue) + 1, Len(queue))]
        BY DEF Unlock
    <2>3. queue \in Seq(Waitable(Requests)) /\ Len(queue) \in Nat
        BY DEF Tables
    <2> HIDE DEF queue
    <2>4. \E d \in 0..Len(queue) : \E f \in 0..d :
            d = RequestsToProcess(queue) /\ SetFree(queue) = SubSeq(queue, 1, f)
        <3>1. CASE LockWaiters(queue) = {}
            <4>1. RequestsToProcess(queue) = Len(queue) /\ SetFree(queue) = queue
                BY <3>1 DEF RequestsToProcess, SetFree
            <4>2. queue = SubSeq(queue, 1, Len(queue))
                BY <2>3
            <4> QED
                BY <2>3, <4>1, <4>2
        <3>2. CASE LockWaiters(queue) # {}
            <4>1. RequestsToProcess(queue) \in 1..Len(queue)
                BY <3>2, FirstLockWaiter DEF LockWaiters
            <4>2. SetFree(queue) = SubSeq(queue, 1, RequestsToProcess(queue) - 1)
                BY <3>2, Zenon DEF SetFree
            <4> QED
                BY <2>3, <4>1, <4>2
        <3> QED
            BY <3>1, <3>2
    <2> QED
        BY <2>1, <2>2, <2>4, Zenon DEF queue, Moves
<1>4. CASE ~IsLocked(lt, req) /\ req.type \notin {"Lock", "Unlock"}
    BY <1>4 DEF TableAfter, ToProcess, Moves
<1> QED
    BY <1>1, <1>2, <1>3, <1>4
==============================================================================
