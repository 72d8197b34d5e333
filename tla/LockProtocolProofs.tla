------------------------- MODULE LockProtocolProofs --------------------------
(***************************************************************************)
(* Proofs about the lock table and the clients that use it, for any set of *)
(* inodes and clients and any bound on the number of locks.                *)
(***************************************************************************)
EXTENDS LockProtocol, LockTableProofs

------------------------------------------------------------------------------
\* What every request that waits looks like: it waits for the inode it is
\* queued at, it names no lock, and its client has no lock on that inode.
QueuesWellFormed ==
    \A i \in Inodes : \A k \in 1..Len(lt.pending[i]) :
        /\ lt.pending[i][k].inode = i
        /\ lt.pending[i][k].lock_id = NoLockId
        /\ lt.pending[i][k].type # "Unlock"
        /\ lt.pending[i][k].from \in waiting
        /\ ~Holds(lt.pending[i][k].from, i)

\* The two halves of WaitersAreQueuedOnce.
NobodyQueuedTwice ==
    \A i, j \in Inodes : \A k \in 1..Len(lt.pending[i]), l \in 1..Len(lt.pending[j]) :
        lt.pending[i][k].from = lt.pending[j][l].from => i = j /\ k = l

NobodyDropped ==
    \A c \in waiting : \E i \in Inodes : \E k \in 1..Len(lt.pending[i]) :
        lt.pending[i][k].from = c

\* A lock of the table belongs to a client.
LockedIsHeld ==
    \A i \in Inodes : lt.lock_ids[i] # NoLockId => \E c \in Clients : Holds(c, i)

WaitersFindLock ==
    \A i \in Inodes : lt.pending[i] # <<>> => lt.lock_ids[i] # NoLockId

LockInv ==
    /\ TypeOK
    /\ MutualExclusion
    /\ LockIdsStayCurrent
    /\ LockedIsHeld
    /\ WaitersFindLock
    /\ QueuesWellFormed
    /\ NobodyQueuedTwice
    /\ NobodyDropped
    /\ IsolatedUnderLock

LockTables == [lock_ids : [Inodes -> Nat \cup {NoLockId}],
               pending  : [Inodes -> Seq(Requests)],
               next_id  : Nat]

------------------------------------------------------------------------------
(***************************************************************************)
(* What Apply does to each variable, one lemma for each way through        *)
(* _process_lock_table.                                                    *)
(***************************************************************************)

\* A request that finds the inode locked is appended to the queue.
LEMMA ApplyQueued ==
    ASSUME TypeOK, NEW req \in Requests, req.type # "Unlock",
           IsLocked(lt, req), Apply(req)
    PROVE  /\ lt' = WaitForLock(lt, req)
           /\ waiting' = waiting \cup {req.from}
           /\ held' = held
           /\ view' = view
<1>1. ToProcess(lt, req) = <<>>
    BY Zenon DEF ToProcess
<1>2. GrantedTo(lt, req) = {}
    BY Zenon DEF GrantedTo
<1>3. lt' = WaitForLock(lt, req)
    BY Zenon DEF Apply, TableAfter
<1>4. waiting' = waiting \cup {req.from}
    BY Zenon DEF Apply
<1>5. held' = [c \in Clients |-> [held[c] EXCEPT ![req.inode] = @]]
    BY <1>2, Zenon DEF Apply, Froms
<1>6. view' = [c \in Clients |-> [view[c] EXCEPT ![req.inode] = @]]
    BY <1>1, <1>2 DEF Apply, Froms
<1> QED
    BY <1>3, <1>4, <1>5, <1>6, Zenon DEF TypeOK

\* A Lock request for an inode without a lock gets the next id.
LEMMA ApplyGranted ==
    ASSUME TypeOK, NEW req \in Requests, req.type = "Lock", req.lock_id = NoLockId,
           lt.lock_ids[req.inode] = NoLockId, Apply(req)
    PROVE  /\ lt' = Lock(lt, req.inode)
           /\ waiting' = waiting \ {req.from}
           /\ held' = [held EXCEPT ![req.from] = [@ EXCEPT ![req.inode] = lt.next_id]]
           /\ view' = [view EXCEPT ![req.from] = [@ EXCEPT ![req.inode] = "unread"]]
<1>1. ~IsLocked(lt, req)
    BY Zenon DEF IsLocked
<1>2. ToProcess(lt, req) = <<>>
    BY <1>1, Zenon DEF ToProcess
<1>3. Froms(GrantedTo(lt, req)) = {req.from}
    BY <1>1, Zenon DEF GrantedTo, Froms
<1>4. lt' = Lock(lt, req.inode)
    BY <1>1, Zenon DEF Apply, TableAfter
<1>5. waiting' = waiting \ {req.from}
    BY <1>1, <1>2, <1>3 DEF Apply
<1>6. held' = [c \in Clients |-> [held[c] EXCEPT
                  ![req.inode] = IF c = req.from THEN lt.next_id ELSE @]]
    BY <1>3, Zenon DEF Apply
<1>7. view' = [c \in Clients |-> [view[c] EXCEPT
                  ![req.inode] = IF c = req.from THEN "unread" ELSE @]]
    BY <1>2, <1>3 DEF Apply
<1>8. req.from \in Clients /\ req.inode \in Inodes
    BY Zenon DEF Requests
<1> QED
    BY <1>4, <1>5, <1>6, <1>7, <1>8, Zenon DEF TypeOK

\* A write that need not wait is committed, and nothing else changes.
LEMMA ApplyCommitted ==
    ASSUME TypeOK, NEW req \in Requests, req.type \notin {"Lock", "Unlock"},
           ~IsLocked(lt, req), Apply(req)
    PROVE  /\ lt' = lt
           /\ waiting' = waiting \ {req.from}
           /\ held' = held
           /\ view' = [c \in Clients |-> [view[c] EXCEPT
                          ![req.inode] = IF @ = "current" /\ c # req.from
                                         THEN "outdated" ELSE @]]
<1>1. ToProcess(lt, req) = <<req>>
    BY Zenon DEF ToProcess
<1>2. GrantedTo(lt, req) = {}
    BY Zenon DEF GrantedTo
<1>3. lt' = lt
    BY Zenon DEF Apply, TableAfter
<1>4. waiting' = waiting \ {req.from}
    BY <1>1, <1>2 DEF Apply, Froms
<1>5. held' = [c \in Clients |-> [held[c] EXCEPT ![req.inode] = @]]
    BY <1>2, Zenon DEF Apply, Froms
<1>6. view' = [c \in Clients |-> [view[c] EXCEPT
                  ![req.inode] = IF @ = "current" /\ c # req.from
                                 THEN "outdated" ELSE @]]
    BY <1>1, <1>2 DEF Apply, Froms
<1> QED
    BY <1>3, <1>4, <1>5, <1>6, Zenon DEF TypeOK

\* An Unlock of an inode for which no Lock request waits: the queue is
\* committed and the inode is free.
LEMMA ApplyUnlockFree ==
    ASSUME TypeOK, NEW req \in Requests, req.type = "Unlock",
           LockWaiters(lt.pending[req.inode]) = {}, Apply(req)
    PROVE  LET queue == lt.pending[req.inode]
           IN  /\ lt' = [lock_ids |-> [lt.lock_ids EXCEPT ![req.inode] = NoLockId],
                         pending  |-> [lt.pending EXCEPT ![req.inode] = <<>>],
                         next_id  |-> lt.next_id]
               /\ waiting' = waiting \ {queue[k].from : k \in 1..Len(queue)}
               /\ held' = [held EXCEPT ![req.from] = [@ EXCEPT ![req.inode] = NoLockId]]
               /\ \A c \in Clients, i \in Inodes : i # req.inode => view'[c][i] = view[c][i]
               /\ view' \in [Clients -> [Inodes -> Views]]
<1> DEFINE queue == lt.pending[req.inode]
<1>0. /\ req.from \in Clients /\ req.inode \in Inodes
      /\ queue \in Seq(Requests)
    BY Zenon DEF Requests, TypeOK
<1>1. ~IsLocked(lt, req)
    BY Zenon DEF IsLocked, AccessType
<1>2. ToProcess(lt, req) = queue
    BY <1>1, Zenon DEF ToProcess, SetFree
<1>3. Froms(GrantedTo(lt, req)) = {}
    BY Zenon DEF GrantedTo, NextLocker, Froms
<1>4. SubSeq(queue, Len(queue) + 1, Len(queue)) = <<>>
    BY <1>0
<1>5. lt' = Unlock(lt, req.inode)
    BY <1>1, Zenon DEF Apply, TableAfter
<1>6. lt' = [lock_ids |-> [lt.lock_ids EXCEPT ![req.inode] = NoLockId],
             pending  |-> [lt.pending EXCEPT ![req.inode] = <<>>],
             next_id  |-> lt.next_id]
    <2>1. RequestsToProcess(queue) = Len(queue)
        BY Zenon DEF RequestsToProcess
    <2> QED
        BY <1>4, <1>5, <2>1, Zenon DEF Unlock
<1>7. waiting' = waiting \ {queue[k].from : k \in 1..Len(queue)}
    BY <1>1, <1>2, <1>3, Zenon DEF Apply
<1>8. held' = [c \in Clients |-> [held[c] EXCEPT
                  ![req.inode] = IF c = req.from THEN NoLockId ELSE @]]
    BY <1>3, Zenon DEF Apply
<1>9. held' = [held EXCEPT ![req.from] = [@ EXCEPT ![req.inode] = NoLockId]]
    BY <1>0, <1>8, Zenon DEF TypeOK
<1>10. view' = [c \in Clients |-> [view[c] EXCEPT
                  ![req.inode] =
                     IF c = req.from THEN "unread"
                     ELSE IF @ = "current" /\ \E k \in 1..Len(queue) : queue[k].from # c
                     THEN "outdated" ELSE @]]
    BY <1>2, <1>3, Zenon DEF Apply
<1>11. /\ \A c \in Clients, i \in Inodes : i # req.inode => view'[c][i] = view[c][i]
       /\ view' \in [Clients -> [Inodes -> Views]]
    BY <1>0, <1>10 DEF TypeOK, Views
<1> HIDE DEF queue
<1> QED
    BY <1>6, <1>7, <1>9, <1>11, Zenon DEF queue

\* An Unlock of an inode for which a Lock request waits: what waits before
\* that request is committed and its client gets the next id.
LEMMA ApplyUnlockGrant ==
    ASSUME TypeOK, NEW req \in Requests, req.type = "Unlock",
           LockWaiters(lt.pending[req.inode]) # {}, Apply(req)
    PROVE  LET queue == lt.pending[req.inode]
               first == RequestsToProcess(queue)
               heir  == queue[first].from
           IN  /\ lt' = [lock_ids |-> [lt.lock_ids EXCEPT ![req.inode] = lt.next_id],
                         pending  |-> [lt.pending EXCEPT ![req.inode] =
                                         SubSeq(queue, first + 1, Len(queue))],
                         next_id  |-> lt.next_id + 1]
               /\ waiting' = waiting \ {queue[k].from : k \in 1..first}
               /\ held' = [c \in Clients |-> [held[c] EXCEPT
                              ![req.inode] = IF c = heir THEN lt.next_id
                                             ELSE IF c = req.from THEN NoLockId ELSE @]]
               /\ \A c \in Clients, i \in Inodes : i # req.inode => view'[c][i] = view[c][i]
               /\ view'[heir][req.inode] = "unread"
               /\ view' \in [Clients -> [Inodes -> Views]]
<1> DEFINE queue == lt.pending[req.inode]
           first == RequestsToProcess(queue)
           heir  == queue[first].from
           out   == SubSeq(queue, 1, first - 1)
<1>0. /\ req.from \in Clients /\ req.inode \in Inodes
      /\ queue \in Seq(Requests)
    BY Zenon DEF Requests, TypeOK
<1>1. first \in 1..Len(queue) /\ Len(queue) \in Nat
    BY <1>0, FirstLockWaiter DEF LockWaiters
<1>2. heir \in Clients
    <2> HIDE DEF queue, first
    <2>1. queue[first] \in Requests
        BY <1>0, <1>1
    <2> QED
        BY <2>1, Zenon DEF Requests
<1>3. ~IsLocked(lt, req)
    BY Zenon DEF IsLocked, AccessType
<1>4. ToProcess(lt, req) = out
    BY <1>3, Zenon DEF ToProcess, SetFree
<1>5. Froms(GrantedTo(lt, req)) = {heir}
    BY <1>3, Zenon DEF GrantedTo, NextLocker, Froms
<1>6. Len(out) = first - 1 /\ \A k \in 1..(first - 1) : out[k] = queue[k]
    BY <1>0, <1>1
<1>7. lt' = Unlock(lt, req.inode)
    BY <1>3, Zenon DEF Apply, TableAfter
<1>8. lt' = [lock_ids |-> [lt.lock_ids EXCEPT ![req.inode] = lt.next_id],
             pending  |-> [lt.pending EXCEPT ![req.inode] =
                             SubSeq(queue, first + 1, Len(queue))],
             next_id  |-> lt.next_id + 1]
    BY <1>7, Zenon DEF Unlock
<1> HIDE DEF queue, first, heir, out
<1>9. {heir} \cup {out[k].from : k \in 1..Len(out)} = {queue[k].from : k \in 1..first}
    BY <1>1, <1>6 DEF heir
<1>10. waiting' = waiting \ {queue[k].from : k \in 1..first}
    BY <1>3, <1>4, <1>5, <1>9, Zenon DEF Apply
<1>11. held' = [c \in Clients |-> [held[c] EXCEPT
                   ![req.inode] = IF c = heir THEN lt.next_id
                                  ELSE IF c = req.from THEN NoLockId ELSE @]]
    BY <1>5, Zenon DEF Apply
<1>12. view' = [c \in Clients |-> [view[c] EXCEPT
                  ![req.inode] =
                     IF c = heir \/ c = req.from THEN "unread"
                     ELSE IF @ = "current" /\ \E k \in 1..Len(out) : out[k].from # c
                     THEN "outdated" ELSE @]]
    BY <1>4, <1>5, Zenon DEF Apply
<1>13. /\ \A c \in Clients, i \in Inodes : i # req.inode => view'[c][i] = view[c][i]
       /\ view'[heir][req.inode] = "unread"
       /\ view' \in [Clients -> [Inodes -> Views]]
    BY <1>0, <1>2, <1>12, Zenon DEF TypeOK, Views
<1> QED
    BY <1>8, <1>10, <1>11, <1>13, Zenon DEF queue, first, heir

------------------------------------------------------------------------------
(***************************************************************************)
(* LockInv is inductive: one lemma for each way through the table.         *)
(***************************************************************************)
LEMMA InitLockInv == Init => LockInv
<1> SUFFICES ASSUME Init PROVE LockInv
    BY Zenon
<1>1. TypeOK
    BY DEF Init, TypeOK, EmptyLockTable, Views
<1>2. \A i \in Inodes : lt.pending[i] = <<>> /\ lt.lock_ids[i] = NoLockId
    BY Zenon DEF Init, EmptyLockTable
<1>3. \A c \in Clients, i \in Inodes : ~Holds(c, i)
    BY Zenon DEF Init, Holds
<1>4. \A i \in Inodes : \A k \in 1..Len(lt.pending[i]) : FALSE
    BY <1>2
<1>5. QueuesWellFormed /\ NobodyQueuedTwice
    BY <1>4, Zenon DEF QueuesWellFormed, NobodyQueuedTwice
<1>6. NobodyDropped
    BY Zenon DEF NobodyDropped, Init
<1> QED
    BY <1>1, <1>2, <1>3, <1>5, <1>6, Zenon
    DEF LockInv, MutualExclusion, LockIdsStayCurrent, LockedIsHeld,
        WaitersFindLock, IsolatedUnderLock

\* A request that has to wait.
LEMMA QueuedStep ==
    ASSUME LockInv, NEW req \in Requests, req.from \notin waiting,
           req.type # "Unlock", req.lock_id = NoLockId,
           ~Holds(req.from, req.inode), IsLocked(lt, req), Apply(req)
    PROVE  LockInv'
<1> DEFINE i == req.inode
           c == req.from
<1>1. TypeOK
    BY Zenon DEF LockInv
<1>2. /\ lt' = WaitForLock(lt, req)
      /\ waiting' = waiting \cup {c}
      /\ held' = held
      /\ view' = view
    BY <1>1, ApplyQueued, Zenon
<1> DEFINE P == lt.pending
           Q == lt'.pending
<1>3. /\ lt'.lock_ids = lt.lock_ids
      /\ lt'.next_id = lt.next_id
      /\ Q = [P EXCEPT ![i] = Append(P[i], req)]
      /\ lt' = [lock_ids |-> lt.lock_ids, pending |-> Q, next_id |-> lt.next_id]
    BY <1>1, <1>2, Zenon DEF TypeOK, WaitForLock
<1>4. /\ i \in Inodes /\ c \in Clients
      /\ lt.lock_ids[i] # NoLockId
      /\ P \in [Inodes -> Seq(Requests)]
    BY <1>1, Zenon DEF TypeOK, Requests, IsLocked
<1> HIDE DEF P, Q
<1>5. /\ Len(Q[i]) = Len(P[i]) + 1
      /\ Q[i][Len(P[i]) + 1] = req
      /\ \A k \in 1..Len(P[i]) : Q[i][k] = P[i][k]
      /\ Len(P[i]) \in Nat
      /\ Q \in [Inodes -> Seq(Requests)]
    BY <1>3, <1>4
<1>6. TypeOK'
    BY <1>1, <1>2, <1>3, <1>4, <1>5 DEF TypeOK
<1>7. \A j \in Inodes : j # i => Q[j] = P[j]
    BY <1>3, <1>4, Zenon
<1>8. \A d \in Clients, j \in Inodes : Holds(d, j)' <=> Holds(d, j)
    BY <1>2, Zenon DEF Holds
<1>9. MutualExclusion' /\ LockIdsStayCurrent' /\ LockedIsHeld' /\ IsolatedUnderLock'
    BY <1>2, <1>3, <1>8, Zenon
    DEF LockInv, MutualExclusion, LockIdsStayCurrent, LockedIsHeld, IsolatedUnderLock
<1>10. WaitersFindLock'
    BY <1>3, <1>4, <1>7, Zenon DEF LockInv, WaitersFindLock, P, Q
<1>11. \A j \in Inodes : \A k \in 1..Len(P[j]) :
             /\ P[j][k].inode = j
             /\ P[j][k].lock_id = NoLockId
             /\ P[j][k].type # "Unlock"
             /\ P[j][k].from \in waiting
             /\ held[P[j][k].from][j] = NoLockId
    BY DEF LockInv, QueuesWellFormed, P, Holds
<1>12. \A j, m \in Inodes : \A k \in 1..Len(P[j]), l \in 1..Len(P[m]) :
             P[j][k].from = P[m][l].from => j = m /\ k = l
    BY Zenon DEF LockInv, NobodyQueuedTwice, P
<1>13. \A d \in waiting : \E j \in Inodes : \E k \in 1..Len(P[j]) : P[j][k].from = d
    BY Zenon DEF LockInv, NobodyDropped, P
<1>14. \A j \in Inodes : \A k \in 1..Len(Q[j]) :
          \/ j = i /\ k = Len(P[i]) + 1 /\ Q[j][k] = req
          \/ k \in 1..Len(P[j]) /\ Q[j][k] = P[j][k]
    <2>1. \A k \in 1..Len(Q[i]) : k = Len(P[i]) + 1 \/ k \in 1..Len(P[i])
        BY <1>5
    <2> QED
        BY <1>5, <1>7, <2>1, Zenon
<1>15. QueuesWellFormed'
    <2> SUFFICES ASSUME NEW j \in Inodes, NEW k \in 1..Len(Q[j])
                 PROVE  /\ Q[j][k].inode = j
                        /\ Q[j][k].lock_id = NoLockId
                        /\ Q[j][k].type # "Unlock"
                        /\ Q[j][k].from \in waiting'
                        /\ held'[Q[j][k].from][j] = NoLockId
        BY Zenon DEF QueuesWellFormed, Q, Holds
    <2>1. CASE j = i /\ Q[j][k] = req
        BY <1>2, <1>4, <2>1, Zenon DEF Holds
    <2>2. CASE k \in 1..Len(P[j]) /\ Q[j][k] = P[j][k]
        BY <1>2, <1>11, <2>2
    <2> QED
        BY <1>14, <2>1, <2>2, Zenon
<1>16. NobodyQueuedTwice'
    <2> SUFFICES ASSUME NEW j \in Inodes, NEW k \in 1..Len(Q[j]),
                        NEW m \in Inodes, NEW l \in 1..Len(Q[m]),
                        Q[j][k].from = Q[m][l].from
                 PROVE  j = m /\ k = l
        BY Zenon DEF NobodyQueuedTwice, Q
    <2>1. \/ j = i /\ k = Len(P[i]) + 1 /\ Q[j][k].from = c
          \/ k \in 1..Len(P[j]) /\ Q[j][k].from = P[j][k].from /\ P[j][k].from # c
        BY <1>11, <1>14
    <2>2. \/ m = i /\ l = Len(P[i]) + 1 /\ Q[m][l].from = c
          \/ l \in 1..Len(P[m]) /\ Q[m][l].from = P[m][l].from /\ P[m][l].from # c
        BY <1>11, <1>14
    <2> QED
        BY <1>12, <2>1, <2>2
<1>17. NobodyDropped'
    <2> SUFFICES ASSUME NEW d \in waiting'
                 PROVE  \E j \in Inodes : \E k \in 1..Len(Q[j]) : Q[j][k].from = d
        BY Zenon DEF NobodyDropped, Q
    <2>1. CASE d = c
        <3>1. Len(P[i]) + 1 \in 1..Len(Q[i]) /\ Q[i][Len(P[i]) + 1].from = d
            BY <1>5, <2>1
        <3> QED
            BY <1>4, <3>1, Zenon
    <2>2. CASE d # c
        <3>1. PICK j \in Inodes : \E k \in 1..Len(P[j]) : P[j][k].from = d
            BY <1>2, <1>13, <2>2, Zenon
        <3>2. PICK k \in 1..Len(P[j]) : P[j][k].from = d
            BY <3>1, Zenon
        <3>3. k \in 1..Len(Q[j]) /\ Q[j][k] = P[j][k]
            BY <1>5, <1>7
        <3> QED
            BY <3>2, <3>3, Zenon
    <2> QED
        BY <2>1, <2>2, Zenon
<1> QED
    BY <1>6, <1>9, <1>10, <1>15, <1>16, <1>17, Zenon DEF LockInv

\* A Lock request that is granted at once.
LEMMA GrantedStep ==
    ASSUME LockInv, NEW req \in Requests, req.from \notin waiting,
           req.type = "Lock", req.lock_id = NoLockId,
           lt.lock_ids[req.inode] = NoLockId, Apply(req)
    PROVE  LockInv'
<1> DEFINE i == req.inode
           c == req.from
<1>1. TypeOK /\ i \in Inodes /\ c \in Clients
    BY Zenon DEF LockInv, Requests
<1>2. /\ lt' = Lock(lt, i)
      /\ waiting' = waiting
      /\ held' = [held EXCEPT ![c] = [held[c] EXCEPT ![i] = lt.next_id]]
      /\ view' = [view EXCEPT ![c] = [view[c] EXCEPT ![i] = "unread"]]
    <2>1. waiting' = waiting \ {c}
        BY <1>1, ApplyGranted, Zenon
    <2>2. lt' = Lock(lt, i)
        BY <1>1, ApplyGranted, Zenon
    <2>3. /\ held' = [held EXCEPT ![c] = [held[c] EXCEPT ![i] = lt.next_id]]
          /\ view' = [view EXCEPT ![c] = [view[c] EXCEPT ![i] = "unread"]]
        BY <1>1, ApplyGranted, Zenon
    <2> QED
        BY <2>1, <2>2, <2>3, Zenon
<1>3. /\ lt'.lock_ids = [lt.lock_ids EXCEPT ![i] = lt.next_id]
      /\ lt'.pending = lt.pending
      /\ lt' = [lock_ids |-> [lt.lock_ids EXCEPT ![i] = lt.next_id],
                pending  |-> lt.pending,
                next_id  |-> lt.next_id + 1]
    BY <1>1, <1>2, Zenon DEF Lock, TypeOK
<1>4. lt.next_id \in Nat /\ lt.next_id # NoLockId
    BY <1>1, LockTableAssumption, Zenon DEF TypeOK
<1>5. TypeOK'
    BY <1>1, <1>2, <1>3, <1>4 DEF TypeOK, Views
<1>6. \A d \in Clients : held[d][i] = NoLockId
    BY <1>1, Zenon DEF LockInv, LockIdsStayCurrent, Holds
<1>7. \A d \in Clients, j \in Inodes :
          held'[d][j] = IF d = c /\ j = i THEN lt.next_id ELSE held[d][j]
    BY <1>1, <1>2, Zenon DEF TypeOK
<1>8. \A j \in Inodes : lt'.lock_ids[j] = IF j = i THEN lt.next_id ELSE lt.lock_ids[j]
    BY <1>1, <1>3, Zenon DEF TypeOK
<1>9. MutualExclusion'
    BY <1>6, <1>7 DEF LockInv, MutualExclusion, Holds
<1>10. LockIdsStayCurrent'
    BY <1>6, <1>7, <1>8 DEF LockInv, LockIdsStayCurrent, Holds
<1>11. LockedIsHeld'
    <2> SUFFICES ASSUME NEW j \in Inodes, lt'.lock_ids[j] # NoLockId
                 PROVE  \E d \in Clients : held'[d][j] # NoLockId
        BY Zenon DEF LockedIsHeld, Holds
    <2>1. CASE j = i
        BY <1>1, <1>4, <1>7, <2>1, Zenon
    <2>2. CASE j # i
        BY <1>7, <1>8, <2>2 DEF LockInv, LockedIsHeld, Holds
    <2> QED
        BY <2>1, <2>2, Zenon
<1>12. WaitersFindLock'
    BY <1>3, <1>4, <1>8 DEF LockInv, WaitersFindLock
<1>13. QueuesWellFormed'
    <2>1. \A j \in Inodes : \A k \in 1..Len(lt.pending[j]) :
              lt.pending[j][k].from \in Clients /\ lt.pending[j][k].from # c
        BY <1>1 DEF LockInv, QueuesWellFormed, TypeOK
    <2> QED
        BY <1>2, <1>3, <1>7, <2>1 DEF LockInv, QueuesWellFormed, Holds
<1>14. NobodyQueuedTwice' /\ NobodyDropped'
    BY <1>2, <1>3 DEF LockInv, NobodyQueuedTwice, NobodyDropped
<1>15. IsolatedUnderLock'
    <2>1. \A d \in Clients, j \in Inodes :
              view'[d][j] = IF d = c /\ j = i THEN "unread" ELSE view[d][j]
        BY <1>1, <1>2, Zenon DEF TypeOK
    <2> QED
        BY <1>7, <2>1 DEF LockInv, IsolatedUnderLock, Holds
<1> QED
    BY <1>5, <1>9, <1>10, <1>11, <1>12, <1>13, <1>14, <1>15, Zenon DEF LockInv

\* A write that is committed at once: the inode has no lock, or the writer
\* has it.
LEMMA CommittedStep ==
    ASSUME LockInv, NEW req \in Requests, req.from \notin waiting,
           req.type \notin {"Lock", "Unlock"}, ~IsLocked(lt, req),
           lt.lock_ids[req.inode] = NoLockId \/ Holds(req.from, req.inode), Apply(req)
    PROVE  LockInv'
<1> DEFINE i == req.inode
           c == req.from
<1>1. TypeOK /\ i \in Inodes /\ c \in Clients
    BY Zenon DEF LockInv, Requests
<1>2. /\ lt' = lt
      /\ waiting' = waiting
      /\ held' = held
      /\ view' = [d \in Clients |-> [view[d] EXCEPT
                     ![i] = IF @ = "current" /\ d # c THEN "outdated" ELSE @]]
    <2>1. /\ lt' = lt
          /\ waiting' = waiting \ {c}
          /\ held' = held
        BY <1>1, ApplyCommitted, Zenon
    <2>2. view' = [d \in Clients |-> [view[d] EXCEPT
                     ![i] = IF @ = "current" /\ d # c THEN "outdated" ELSE @]]
        BY <1>1, ApplyCommitted, Zenon
    <2> QED
        BY <2>1, <2>2, Zenon
<1>3. TypeOK'
    BY <1>1, <1>2, Zenon DEF TypeOK, Views
<1>4. \A d \in Clients : Holds(d, i) => d = c
    BY <1>1, Zenon DEF LockInv, LockIdsStayCurrent, MutualExclusion, Holds
<1>5. \A d \in Clients, j \in Inodes : Holds(d, j) => view'[d][j] = view[d][j]
    BY <1>1, <1>2, <1>4 DEF TypeOK
<1>6. IsolatedUnderLock'
    BY <1>2, <1>5 DEF LockInv, IsolatedUnderLock, Holds
<1>7. LockIdsStayCurrent' /\ LockedIsHeld' /\ WaitersFindLock'
    <2>1. LockIdsStayCurrent /\ LockedIsHeld /\ WaitersFindLock
        BY Zenon DEF LockInv
    <2> QED
        BY <1>2, <2>1, Zenon DEF LockIdsStayCurrent, LockedIsHeld, WaitersFindLock, Holds
<1>8. QueuesWellFormed' /\ NobodyQueuedTwice' /\ NobodyDropped'
    <2>1. QueuesWellFormed /\ NobodyQueuedTwice /\ NobodyDropped
        BY Zenon DEF LockInv
    <2>2. QueuesWellFormed'
        BY <1>2, <2>1 DEF QueuesWellFormed, Holds
    <2>3. NobodyQueuedTwice'
        BY <1>2, <2>1 DEF NobodyQueuedTwice
    <2>4. NobodyDropped'
        BY <1>2, <2>1, Zenon DEF NobodyDropped
    <2> QED
        BY <2>2, <2>3, <2>4, Zenon
<1>9. MutualExclusion'
    BY <1>2, Zenon DEF LockInv, MutualExclusion, Holds
<1> QED
    BY <1>3, <1>6, <1>7, <1>8, <1>9, Zenon DEF LockInv

\* An Unlock that leaves the inode without a lock.
LEMMA UnlockFreeStep ==
    ASSUME LockInv, NEW req \in Requests, req.from \notin waiting, req.type = "Unlock",
           Holds(req.from, req.inode), LockWaiters(lt.pending[req.inode]) = {}, Apply(req)
    PROVE  LockInv'
<1> DEFINE i == req.inode
           c == req.from
           P == lt.pending
           Q == lt'.pending
<1>1. TypeOK /\ i \in Inodes /\ c \in Clients
    BY Zenon DEF LockInv, Requests
<1>2. lt' = [lock_ids |-> [lt.lock_ids EXCEPT ![i] = NoLockId],
             pending  |-> [P EXCEPT ![i] = <<>>],
             next_id  |-> lt.next_id]
    BY <1>1, ApplyUnlockFree, Zenon
<1>3. waiting' = waiting \ {P[i][k].from : k \in 1..Len(P[i])}
    BY <1>1, ApplyUnlockFree, Zenon
<1>4. held' = [held EXCEPT ![c] = [held[c] EXCEPT ![i] = NoLockId]]
    BY <1>1, ApplyUnlockFree, Zenon
<1>5. /\ \A d \in Clients, j \in Inodes : j # i => view'[d][j] = view[d][j]
      /\ view' \in [Clients -> [Inodes -> Views]]
    BY <1>1, ApplyUnlockFree, Zenon
<1>6. P \in [Inodes -> Seq(Requests)]
    BY <1>1, Zenon DEF TypeOK
<1>7. Q = [P EXCEPT ![i] = <<>>] /\ lt'.lock_ids = [lt.lock_ids EXCEPT ![i] = NoLockId]
    BY <1>2, Zenon
<1> HIDE DEF P, Q
<1>8. Q \in [Inodes -> Seq(Requests)]
    BY <1>1, <1>6, <1>7
<1>9. TypeOK'
    BY <1>1, <1>2, <1>3, <1>4, <1>5, <1>7, <1>8, Zenon DEF TypeOK
<1>10. \A j \in Inodes : lt'.lock_ids[j] = IF j = i THEN NoLockId ELSE lt.lock_ids[j]
    BY <1>1, <1>7, Zenon DEF TypeOK
<1>11. \A d \in Clients, j \in Inodes :
          held'[d][j] = IF d = c /\ j = i THEN NoLockId ELSE held[d][j]
    BY <1>1, <1>4, Zenon DEF TypeOK
<1>12. \A d \in Clients : held'[d][i] = NoLockId
    BY <1>1, <1>11 DEF LockInv, MutualExclusion, Holds
<1>13. \A j \in Inodes : /\ j = i => Q[j] = <<>>
                         /\ j # i => Q[j] = P[j]
    BY <1>1, <1>6, <1>7, Zenon
<1>14. MutualExclusion' /\ LockIdsStayCurrent'
    BY <1>10, <1>11, <1>12 DEF LockInv, MutualExclusion, LockIdsStayCurrent, Holds
<1>15. LockedIsHeld'
    BY <1>10, <1>11 DEF LockInv, LockedIsHeld, Holds
<1>16. WaitersFindLock'
    BY <1>10, <1>13, Zenon DEF LockInv, WaitersFindLock, P, Q
<1>17. IsolatedUnderLock'
    BY <1>5, <1>11, <1>12 DEF LockInv, IsolatedUnderLock, Holds
<1>18. \A j, m \in Inodes : \A k \in 1..Len(P[j]), l \in 1..Len(P[m]) :
             P[j][k].from = P[m][l].from => j = m /\ k = l
    BY Zenon DEF LockInv, NobodyQueuedTwice, P
<1>19. \A j \in Inodes : \A k \in 1..Len(Q[j]) : j # i /\ Q[j] = P[j]
    BY <1>13
<1>20. QueuesWellFormed'
    <2> SUFFICES ASSUME NEW j \in Inodes, NEW k \in 1..Len(Q[j])
                 PROVE  /\ Q[j][k].inode = j
                        /\ Q[j][k].lock_id = NoLockId
                        /\ Q[j][k].type # "Unlock"
                        /\ Q[j][k].from \in waiting'
                        /\ held'[Q[j][k].from][j] = NoLockId
        BY DEF QueuesWellFormed, Q, Holds
    <2>1. j # i /\ k \in 1..Len(P[j]) /\ Q[j][k] = P[j][k]
        BY <1>19, Zenon
    <2>2. /\ P[j][k].inode = j
          /\ P[j][k].lock_id = NoLockId
          /\ P[j][k].type # "Unlock"
          /\ P[j][k].from \in waiting
          /\ held[P[j][k].from][j] = NoLockId
        BY <2>1, Zenon DEF LockInv, QueuesWellFormed, P, Holds
    <2>3. P[j][k].from \notin {P[i][l].from : l \in 1..Len(P[i])}
        BY <1>1, <1>18, <2>1, Zenon
    <2>4. P[j][k].from \in Clients
        BY <1>1, <2>2, Zenon DEF TypeOK
    <2>5. P[j][k].from \in waiting'
        BY <1>3, <2>2, <2>3, Zenon
    <2>6. held'[P[j][k].from][j] = NoLockId
        BY <1>11, <2>1, <2>2, <2>4, Zenon
    <2> QED
        BY <2>1, <2>2, <2>5, <2>6, Zenon
<1>21. NobodyQueuedTwice'
    BY <1>18, <1>19 DEF NobodyQueuedTwice, Q
<1>22. NobodyDropped'
    <2> SUFFICES ASSUME NEW d \in waiting'
                 PROVE  \E j \in Inodes : \E k \in 1..Len(Q[j]) : Q[j][k].from = d
        BY Zenon DEF NobodyDropped, Q
    <2>1. PICK j \in Inodes : \E k \in 1..Len(P[j]) : P[j][k].from = d
        BY <1>3, Zenon DEF LockInv, NobodyDropped, P
    <2>2. j # i
        BY <1>3, <2>1, Zenon
    <2>3. Q[j] = P[j]
        BY <1>13, <2>2, Zenon
    <2> QED
        BY <2>1, <2>3, Zenon
<1> QED
    BY <1>9, <1>14, <1>15, <1>16, <1>17, <1>20, <1>21, <1>22, Zenon DEF LockInv

\* An Unlock that hands the lock to the first Lock request that waits.
LEMMA UnlockGrantStep ==
    ASSUME LockInv, NEW req \in Requests, req.from \notin waiting, req.type = "Unlock",
           Holds(req.from, req.inode), LockWaiters(lt.pending[req.inode]) # {}, Apply(req)
    PROVE  LockInv'
<1> DEFINE i == req.inode
           c == req.from
           P == lt.pending
           Q == lt'.pending
           n == RequestsToProcess(P[i])
           h == P[i][n].from
<1>1. TypeOK /\ i \in Inodes /\ c \in Clients
    BY Zenon DEF LockInv, Requests
<1>2. lt' = [lock_ids |-> [lt.lock_ids EXCEPT ![i] = lt.next_id],
             pending  |-> [P EXCEPT ![i] = SubSeq(P[i], n + 1, Len(P[i]))],
             next_id  |-> lt.next_id + 1]
    BY <1>1, ApplyUnlockGrant, Zenon
<1>3. waiting' = waiting \ {P[i][k].from : k \in 1..n}
    BY <1>1, ApplyUnlockGrant, Zenon
<1>4. held' = [d \in Clients |-> [held[d] EXCEPT
                  ![i] = IF d = h THEN lt.next_id ELSE IF d = c THEN NoLockId ELSE @]]
    BY <1>1, ApplyUnlockGrant, Zenon
<1>5. /\ \A d \in Clients, j \in Inodes : j # i => view'[d][j] = view[d][j]
      /\ view'[h][i] = "unread"
      /\ view' \in [Clients -> [Inodes -> Views]]
    BY <1>1, ApplyUnlockGrant, Zenon
<1>6. P \in [Inodes -> Seq(Requests)] /\ lt.next_id \in Nat /\ lt.next_id # NoLockId
    BY <1>1, LockTableAssumption, Zenon DEF TypeOK
<1>7. n \in 1..Len(P[i]) /\ Len(P[i]) \in Nat
    BY <1>1, <1>6, FirstLockWaiter DEF LockWaiters
<1>8. /\ Q = [P EXCEPT ![i] = SubSeq(P[i], n + 1, Len(P[i]))]
      /\ lt'.lock_ids = [lt.lock_ids EXCEPT ![i] = lt.next_id]
    BY <1>2, Zenon
<1>9. \A j \in Inodes : \A k \in 1..Len(P[j]) :
          /\ P[j][k].inode = j
          /\ P[j][k].lock_id = NoLockId
          /\ P[j][k].type # "Unlock"
          /\ P[j][k].from \in waiting
          /\ held[P[j][k].from][j] = NoLockId
    BY DEF LockInv, QueuesWellFormed, Holds
<1>10. \A j, m \in Inodes : \A k \in 1..Len(P[j]), l \in 1..Len(P[m]) :
             P[j][k].from = P[m][l].from => j = m /\ k = l
    BY Zenon DEF LockInv, NobodyQueuedTwice
<1> HIDE DEF P, Q, n, h
<1>11. h \in waiting /\ h \in Clients /\ h # c
    BY <1>1, <1>7, <1>9 DEF h, TypeOK
<1>12. /\ Q[i] = SubSeq(P[i], n + 1, Len(P[i]))
       /\ \A j \in Inodes : j # i => Q[j] = P[j]
    BY <1>1, <1>6, <1>8, Zenon
<1>13. /\ Q[i] \in Seq(Requests)
       /\ Len(Q[i]) = Len(P[i]) - n
       /\ \A k \in 1..(Len(P[i]) - n) : Q[i][k] = P[i][k + n]
    <2>1. P[i] \in Seq(Requests)
        BY <1>1, <1>6, Zenon
    <2>2. n \in 0..Len(P[i])
        BY <1>7
    <2>3. LET rest == SubSeq(P[i], n + 1, Len(P[i]))
          IN  /\ rest \in Seq(Requests) /\ Len(rest) = Len(P[i]) - n
              /\ \A k \in 1..(Len(P[i]) - n) : rest[k] = P[i][k + n]
        BY <2>1, <2>2, RestOfQueue, Zenon
    <2> QED
        BY <1>12, <2>3, Zenon
<1>14. Q \in [Inodes -> Seq(Requests)]
    BY <1>1, <1>6, <1>8, <1>12, <1>13, Zenon
<1>15. \A d \in Clients, j \in Inodes :
          held'[d][j] = IF j # i THEN held[d][j]
                        ELSE IF d = h THEN lt.next_id
                        ELSE IF d = c THEN NoLockId ELSE held[d][i]
    BY <1>1, <1>4, Zenon DEF TypeOK
<1>16. held' \in [Clients -> [Inodes -> Nat \cup {NoLockId}]]
    BY <1>1, <1>4, <1>6 DEF TypeOK
<1>17. TypeOK'
    BY <1>1, <1>2, <1>3, <1>5, <1>6, <1>8, <1>14, <1>16 DEF TypeOK
<1>18. \A j \in Inodes : lt'.lock_ids[j] = IF j = i THEN lt.next_id ELSE lt.lock_ids[j]
    BY <1>1, <1>8, Zenon DEF TypeOK
<1>19. \A d \in Clients : held'[d][i] # NoLockId => d = h
    BY <1>1, <1>15 DEF LockInv, MutualExclusion, Holds
<1>20. MutualExclusion' /\ LockIdsStayCurrent'
    BY <1>1, <1>11, <1>15, <1>18, <1>19
    DEF LockInv, MutualExclusion, LockIdsStayCurrent, Holds
<1>21. LockedIsHeld'
    <2> SUFFICES ASSUME NEW j \in Inodes, lt'.lock_ids[j] # NoLockId
                 PROVE  \E d \in Clients : held'[d][j] # NoLockId
        BY Zenon DEF LockedIsHeld, Holds
    <2>1. CASE j = i
        BY <1>6, <1>11, <1>15, <2>1, Zenon
    <2>2. CASE j # i
        BY <1>15, <1>18, <2>2 DEF LockInv, LockedIsHeld, Holds
    <2> QED
        BY <2>1, <2>2, Zenon
<1>22. WaitersFindLock'
    BY <1>6, <1>12, <1>18, Zenon DEF LockInv, WaitersFindLock, P, Q
<1>23. IsolatedUnderLock'
    BY <1>5, <1>15, <1>19 DEF LockInv, IsolatedUnderLock, Holds
\* Where a request that still waits was before: at position o(j, k) of P[j].
<1> DEFINE o(j, k) == IF j = i THEN k + n ELSE k
<1>24. \A j \in Inodes : \A k \in 1..Len(Q[j]) :
          /\ o(j, k) \in 1..Len(P[j])
          /\ Q[j][k] = P[j][o(j, k)]
          /\ j = i => o(j, k) > n
    <2> SUFFICES ASSUME NEW j \in Inodes, NEW k \in 1..Len(Q[j])
                 PROVE  /\ o(j, k) \in 1..Len(P[j])
                        /\ Q[j][k] = P[j][o(j, k)]
                        /\ j = i => o(j, k) > n
        BY Zenon
    <2>1. CASE j = i
        BY <1>7, <1>13, <2>1
    <2>2. CASE j # i
        BY <1>12, <2>2, Zenon
    <2> QED
        BY <2>1, <2>2, Zenon
<1>25. \A j \in Inodes : \A k \in 1..Len(Q[j]) :
          P[j][o(j, k)].from \notin {P[i][l].from : l \in 1..n}
    <2> SUFFICES ASSUME NEW j \in Inodes, NEW k \in 1..Len(Q[j]), NEW l \in 1..n,
                        P[j][o(j, k)].from = P[i][l].from
                 PROVE  FALSE
        BY Zenon
    <2>1. l \in 1..Len(P[i])
        BY <1>7
    <2>2. j = i /\ o(j, k) = l
        BY <1>1, <1>10, <1>24, <2>1
    <2> QED
        BY <1>7, <1>24, <2>2
<1>26. QueuesWellFormed'
    <2> SUFFICES ASSUME NEW j \in Inodes, NEW k \in 1..Len(Q[j])
                 PROVE  /\ Q[j][k].inode = j
                        /\ Q[j][k].lock_id = NoLockId
                        /\ Q[j][k].type # "Unlock"
                        /\ Q[j][k].from \in waiting'
                        /\ held'[Q[j][k].from][j] = NoLockId
        BY DEF QueuesWellFormed, Q, Holds
    <2> DEFINE m == o(j, k)
    <2>1. m \in 1..Len(P[j]) /\ Q[j][k] = P[j][m]
        BY <1>24, Zenon
    <2>2. P[j][m].from \notin {P[i][l].from : l \in 1..n}
        BY <1>25, Zenon
    <2> HIDE DEF m
    <2>3. /\ P[j][m].inode = j
          /\ P[j][m].lock_id = NoLockId
          /\ P[j][m].type # "Unlock"
          /\ P[j][m].from \in waiting
          /\ held[P[j][m].from][j] = NoLockId
        BY <1>9, <2>1, Zenon
    <2>4. P[j][m].from \in Clients /\ P[j][m].from # h
        <3>1. waiting \subseteq Clients
            BY <1>1, Zenon DEF TypeOK
        <3>2. n \in 1..n
            BY <1>7
        <3> QED
            BY <2>2, <2>3, <3>1, <3>2, Zenon DEF h
    <2>5. P[j][m].from \in waiting'
        BY <1>3, <2>2, <2>3, Zenon
    <2>6. held'[P[j][m].from][j] = NoLockId
        BY <1>15, <2>3, <2>4
    <2> QED
        BY <2>1, <2>3, <2>5, <2>6, Zenon
<1>27. NobodyQueuedTwice'
    <2> SUFFICES ASSUME NEW j \in Inodes, NEW k \in 1..Len(Q[j]),
                        NEW m \in Inodes, NEW l \in 1..Len(Q[m]),
                        Q[j][k].from = Q[m][l].from
                 PROVE  j = m /\ k = l
        BY Zenon DEF NobodyQueuedTwice, Q
    <2> DEFINE ok == o(j, k)
               ol == o(m, l)
    <2>0. /\ ok \in 1..Len(P[j]) /\ ol \in 1..Len(P[m])
          /\ P[j][ok].from = P[m][ol].from
        BY <1>24, Zenon
    <2>1. j = m /\ ok = ol
        <3> HIDE DEF ok, ol
        <3> QED
            BY <1>10, <2>0
    <2> QED
        BY <1>7, <2>1
<1>28. NobodyDropped'
    <2> SUFFICES ASSUME NEW d \in waiting'
                 PROVE  \E j \in Inodes : \E k \in 1..Len(Q[j]) : Q[j][k].from = d
        BY Zenon DEF NobodyDropped, Q
    <2>1. PICK j \in Inodes : \E k \in 1..Len(P[j]) : P[j][k].from = d
        BY <1>3, Zenon DEF LockInv, NobodyDropped, P
    <2>2. PICK k \in 1..Len(P[j]) : P[j][k].from = d
        BY <2>1, Zenon
    <2>3. CASE j = i
        <3>1. k - n \in 1..Len(Q[i]) /\ Q[i][k - n] = P[i][k]
            BY <1>3, <1>7, <1>13, <2>2, <2>3
        <3> QED
            BY <1>1, <2>2, <2>3, <3>1, Zenon
    <2>4. CASE j # i
        <3>1. Q[j] = P[j]
            BY <1>12, <2>4, Zenon
        <3> QED
            BY <2>1, <3>1, Zenon
    <2> QED
        BY <2>3, <2>4, Zenon
<1> QED
    BY <1>17, <1>20, <1>21, <1>22, <1>23, <1>26, <1>27, <1>28, Zenon DEF LockInv

------------------------------------------------------------------------------
(***************************************************************************)
(* The actions, each by the cases of the table it can meet.                *)
(***************************************************************************)
LEMMA StepLockInv == LockInv /\ [Next]_vars => LockInv'
<1> SUFFICES ASSUME LockInv, [Next]_vars PROVE LockInv'
    BY Zenon
<1>1. TypeOK
    BY Zenon DEF LockInv
<1>2. ASSUME NEW c \in Clients, NEW i \in Inodes, LockInode(c, i) PROVE LockInv'
    <2> DEFINE req == Request("Lock", c, i, NoLockId)
    <2>1. /\ req \in Requests /\ req.from = c /\ req.inode = i
          /\ req.type = "Lock" /\ req.lock_id = NoLockId
        BY Zenon DEF Request, Requests
    <2>2. c \notin waiting /\ ~Holds(c, i) /\ Apply(req)
        BY <1>2, Zenon DEF LockInode
    <2> HIDE DEF req
    <2>3. CASE IsLocked(lt, req)
        BY <2>1, <2>2, <2>3, QueuedStep, Zenon
    <2>4. CASE ~IsLocked(lt, req)
        <3>1. lt.lock_ids[req.inode] = NoLockId
            BY <2>1, <2>4, LockTableAssumption, Zenon DEF IsLocked, AccessType
        <3> QED
            BY <2>1, <2>2, <3>1, GrantedStep, Zenon
    <2> QED
        BY <2>3, <2>4, Zenon
<1>3. ASSUME NEW c \in Clients, NEW i \in Inodes, ReadLocked(c, i) PROVE LockInv'
    <2>1. /\ lt' = lt /\ waiting' = waiting /\ held' = held
          /\ view' = [view EXCEPT ![c] = [view[c] EXCEPT ![i] = "current"]]
        BY <1>3, Zenon DEF ReadLocked
    <2>2. TypeOK'
        BY <1>1, <2>1, Zenon DEF TypeOK, Views
    <2>3. \A d \in Clients, j \in Inodes : view'[d][j] \in {view[d][j], "current"}
        BY <1>1, <2>1, Zenon DEF TypeOK
    <2>4. IsolatedUnderLock'
        BY <2>1, <2>3, ZenonT(30) DEF LockInv, IsolatedUnderLock, Holds
    <2>5. MutualExclusion' /\ LockIdsStayCurrent'
        BY <2>1, Zenon DEF LockInv, MutualExclusion, LockIdsStayCurrent, Holds
    <2>6. LockedIsHeld' /\ WaitersFindLock'
        BY <2>1, Zenon DEF LockInv, LockedIsHeld, WaitersFindLock, Holds
    <2>7. QueuesWellFormed' /\ NobodyQueuedTwice' /\ NobodyDropped'
        BY <2>1 DEF LockInv, QueuesWellFormed, NobodyQueuedTwice, NobodyDropped, Holds
    <2> QED
        BY <2>2, <2>4, <2>5, <2>6, <2>7, Zenon DEF LockInv
<1>4. ASSUME NEW c \in Clients, NEW i \in Inodes, WriteLocked(c, i) PROVE LockInv'
    <2> DEFINE req == Request("CreateLink", c, i, held[c][i])
    <2>1. /\ req \in Requests /\ req.from = c /\ req.inode = i
          /\ req.type = "CreateLink" /\ req.lock_id = held[c][i]
        BY <1>1 DEF Request, Requests, TypeOK
    <2>2. c \notin waiting /\ Holds(c, i) /\ Apply(req)
        BY <1>4, Zenon DEF WriteLocked
    <2> HIDE DEF req
    <2>3. ~IsLocked(lt, req)
        BY <2>1, <2>2, Zenon DEF IsLocked, Holds
    <2> QED
        BY <2>1, <2>2, <2>3, CommittedStep, Zenon
<1>5. ASSUME NEW c \in Clients, NEW i \in Inodes, WritePlain(c, i) PROVE LockInv'
    <2> DEFINE req == Request("Write", c, i, NoLockId)
    <2>1. /\ req \in Requests /\ req.from = c /\ req.inode = i
          /\ req.type = "Write" /\ req.lock_id = NoLockId
        BY Zenon DEF Request, Requests
    <2>2. c \notin waiting /\ ~Holds(c, i) /\ Apply(req)
        BY <1>5, Zenon DEF WritePlain
    <2> HIDE DEF req
    <2>3. CASE IsLocked(lt, req)
        BY <2>1, <2>2, <2>3, QueuedStep, Zenon
    <2>4. CASE ~IsLocked(lt, req)
        <3>1. lt.lock_ids[req.inode] = NoLockId
            BY <2>1, <2>4, LockTableAssumption, Zenon DEF IsLocked, AccessType
        <3> QED
            BY <2>1, <2>2, <2>4, <3>1, CommittedStep, Zenon
    <2> QED
        BY <2>3, <2>4
<1>6. ASSUME NEW c \in Clients, NEW i \in Inodes, UnlockInode(c, i) PROVE LockInv'
    <2> DEFINE req == Request("Unlock", c, i, held[c][i])
    <2>1. /\ req \in Requests /\ req.from = c /\ req.inode = i
          /\ req.type = "Unlock" /\ req.lock_id = held[c][i]
        BY <1>1 DEF Request, Requests, TypeOK
    <2>2. c \notin waiting /\ Holds(c, i) /\ Apply(req)
        BY <1>6, Zenon DEF UnlockInode
    <2> HIDE DEF req
    <2>3. CASE LockWaiters(lt.pending[req.inode]) = {}
        BY <2>1, <2>2, <2>3, UnlockFreeStep, Zenon
    <2>4. CASE LockWaiters(lt.pending[req.inode]) # {}
        BY <2>1, <2>2, <2>4, UnlockGrantStep, Zenon
    <2> QED
        BY <2>3, <2>4, Zenon
<1>7. CASE UNCHANGED vars
    <2>1. lt' = lt /\ waiting' = waiting /\ held' = held /\ view' = view
        BY <1>7, Zenon DEF vars
    <2>2. TypeOK' /\ IsolatedUnderLock'
        BY <1>1, <2>1, Zenon DEF LockInv, TypeOK, IsolatedUnderLock, Holds
    <2>3. MutualExclusion' /\ LockIdsStayCurrent'
        BY <2>1, Zenon DEF LockInv, MutualExclusion, LockIdsStayCurrent, Holds
    <2>4. LockedIsHeld' /\ WaitersFindLock'
        BY <2>1, Zenon DEF LockInv, LockedIsHeld, WaitersFindLock, Holds
    <2>5. QueuesWellFormed' /\ NobodyQueuedTwice' /\ NobodyDropped'
        BY <2>1 DEF LockInv, QueuesWellFormed, NobodyQueuedTwice, NobodyDropped, Holds
    <2> QED
        BY <2>2, <2>3, <2>4, <2>5, Zenon DEF LockInv
<1> QED
    BY <1>2, <1>3, <1>4, <1>5, <1>6, <1>7, Zenon DEF Next

------------------------------------------------------------------------------
(***************************************************************************)
(* The results.                                                            *)
(***************************************************************************)
LEMMA SpecLockInv == Spec => []LockInv
BY InitLockInv, StepLockInv, PTL DEF Spec

\* The lock table and the clients keep their types: unlock and wait_for_lock
\* only ever store requests of clients and ids that were given out.
THEOREM TypesAreKept == Spec => []TypeOK
<1>1. LockInv => TypeOK
    BY Zenon DEF LockInv
<1> QED
    BY <1>1, SpecLockInv, PTL

\* No two clients hold the lock of the same inode, for any number of clients
\* and inodes: LockTable::lock and LockTable::unlock exclude each other.
THEOREM LockExcludes == Spec => []MutualExclusion
<1>1. LockInv => MutualExclusion
    BY Zenon DEF LockInv
<1> QED
    BY <1>1, SpecLockInv, PTL

\* The assertions of is_locked and unlock on the id of the lock never fail
\* for a client that keeps to the protocol.
THEOREM LockIdAssertionsHold == Spec => []LockIdsStayCurrent
<1>1. LockInv => LockIdsStayCurrent
    BY Zenon DEF LockInv
<1> QED
    BY <1>1, SpecLockInv, PTL

\* unlock leaves no request behind at an inode that nobody holds.
THEOREM NothingLeftBehind == Spec => []NoOrphanedWaiters
<1>1. LockInv => NoOrphanedWaiters
    <2> SUFFICES ASSUME LockedIsHeld, WaitersFindLock PROVE NoOrphanedWaiters
        BY Zenon DEF LockInv
    <2> QED
        BY Zenon DEF LockedIsHeld, WaitersFindLock, NoOrphanedWaiters
<1> QED
    BY <1>1, SpecLockInv, PTL

\* A waiting client has its request in exactly one queue, once; a client that
\* does not wait has none: drain(..requests_to_process) loses and repeats
\* nothing.
THEOREM QueuesAreExact == Spec => []WaitersAreQueuedOnce
<1>1. LockInv => WaitersAreQueuedOnce
    <2> SUFFICES ASSUME LockInv, NEW c \in Clients
                 PROVE  LET places == {p \in UNION {{<<i, k>> : k \in 1..Len(lt.pending[i])} : i \in Inodes} :
                                          lt.pending[p[1]][p[2]].from = c}
                        IN  IF c \in waiting
                            THEN \E p \in places : places = {p}
                            ELSE places = {}
        BY Zenon DEF WaitersAreQueuedOnce
    <2> DEFINE all    == UNION {{<<i, k>> : k \in 1..Len(lt.pending[i])} : i \in Inodes}
               places == {p \in all : lt.pending[p[1]][p[2]].from = c}
    <2>1. \A p \in all : \E i \in Inodes : \E k \in 1..Len(lt.pending[i]) : p = <<i, k>>
        BY Zenon
    <2>2. \A i \in Inodes : \A k \in 1..Len(lt.pending[i]) : <<i, k>> \in all
        OBVIOUS
    <2> HIDE DEF all
    <2>3. \A p \in places : \E i \in Inodes : \E k \in 1..Len(lt.pending[i]) :
              p = <<i, k>> /\ lt.pending[i][k].from = c
        BY <2>1
    <2>4. \A i \in Inodes : \A k \in 1..Len(lt.pending[i]) :
              lt.pending[i][k].from = c => <<i, k>> \in places
        BY <2>2, Zenon
    <2> HIDE DEF places
    <2>5. CASE c \in waiting
        <3>1. PICK i \in Inodes : \E k \in 1..Len(lt.pending[i]) : lt.pending[i][k].from = c
            BY <2>5, Zenon DEF LockInv, NobodyDropped
        <3>2. PICK k \in 1..Len(lt.pending[i]) : lt.pending[i][k].from = c
            BY <3>1, Zenon
        <3>3. <<i, k>> \in places
            BY <2>4, <3>2, Zenon
        <3>4. ASSUME NEW p \in places PROVE p = <<i, k>>
            <4>1. PICK j \in Inodes : \E l \in 1..Len(lt.pending[j]) :
                      p = <<j, l>> /\ lt.pending[j][l].from = c
                BY <2>3, Zenon
            <4>2. PICK l \in 1..Len(lt.pending[j]) :
                      p = <<j, l>> /\ lt.pending[j][l].from = c
                BY <4>1, Zenon
            <4>3. i = j /\ k = l
                BY <3>2, <4>2 DEF LockInv, NobodyQueuedTwice
            <4> QED
                BY <4>2, <4>3, Zenon
        <3>5. places = {<<i, k>>}
            BY <3>3, <3>4, Zenon
        <3> QED
            BY <2>5, <3>3, <3>5, Zenon DEF places, all
    <2>6. CASE c \notin waiting
        <3>1. places = {}
            BY <2>3, <2>6, Zenon DEF LockInv, QueuesWellFormed
        <3> QED
            BY <2>6, <3>1, Zenon DEF places, all
    <2> QED
        BY <2>5, <2>6, Zenon
<1> QED
    BY <1>1, SpecLockInv, PTL

\* Nobody else's write is committed between a read under a lock and the
\* release of that lock.
THEOREM LockIsolates == Spec => []IsolatedUnderLock
<1>1. LockInv => IsolatedUnderLock
    BY Zenon DEF LockInv
<1> QED
    BY <1>1, SpecLockInv, PTL
==============================================================================
