------------------------------ MODULE LockTable ------------------------------
(***************************************************************************)
(* The lock table of one replication group (src/storage/lock_table.rs) and *)
(* the way a decided command goes through it                               *)
(* (ConsensusNode::_process_lock_table in src/storage/raft_node.rs).       *)
(*                                                                         *)
(* A lock table is a record                                                *)
(*   lock_ids : for each inode the id of the lock held on it, or NoLockId  *)
(*   pending  : for each inode the requests that wait for it, in order     *)
(*   next_id  : the id of the next lock                                    *)
(* The two hash maps of the code are total functions here: an inode that   *)
(* has no entry is mapped to NoLockId, or to the empty sequence.           *)
(*                                                                         *)
(* A request is a record with at least the fields type, inode and lock_id, *)
(* where inode may be NoInode and lock_id may be NoLockId (the None of the *)
(* code's RequestMetaInfo). The operators are functions from a table to a  *)
(* table, so every module that contains a lock table uses the same text.   *)
(***************************************************************************)
EXTENDS Naturals, Sequences

CONSTANTS
    Inodes,     \* the inodes that this group stores
    NoInode,    \* meta_info().inode is None
    NoLockId    \* meta_info().lock_id is None; the inode has no lock

ASSUME LockTableAssumption ==
    /\ NoInode \notin Inodes
    /\ NoLockId \notin Nat

EmptyLockTable ==
    [lock_ids |-> [i \in Inodes |-> NoLockId],
     pending  |-> [i \in Inodes |-> <<>>],
     next_id  |-> 0]

\* Requests that can wait: they are not an Unlock.
Waitable(Requests) == {r \in Requests : r.type # "Unlock"}

\* The lock tables for these requests
Tables(Requests) ==
    [lock_ids : [Inodes -> Nat \cup {NoLockId}],
     pending  : [Inodes -> Seq(Waitable(Requests))],
     next_id  : Nat]

\* Request::meta_info().access_type of the requests that go through the log.
AccessType(type) ==
    CASE type = "Lock"                  -> "LockMetadata"
      [] type \in {"Unlock", "Fsync"}   -> "NoAccess"
      [] type \in {"Write", "Truncate"} -> "WriteDataAndMetadata"
      [] OTHER                          -> "WriteMetadata"

\* The assertion of is_locked: a request that names a lock id names the lock
\* that is held. A replica that applies a request for which this is false
\* panics.
LockIdIsCurrent(lt, req) ==
    (req.inode # NoInode /\ req.lock_id # NoLockId)
        => lt.lock_ids[req.inode] = req.lock_id

\* A bug to compare with: Lock requests do not wait.
IsLockedWritesOnly(lt, req) ==
    /\ req.inode # NoInode
    /\ req.lock_id = NoLockId
    /\ lt.lock_ids[req.inode] # NoLockId
    /\ AccessType(req.type) \in {"WriteMetadata", "WriteDataAndMetadata"}

\* A bug to compare with: only metadata writes and Lock requests wait.
IsLockedMetadataOnly(lt, req) ==
    /\ req.inode # NoInode
    /\ req.lock_id = NoLockId
    /\ lt.lock_ids[req.inode] # NoLockId
    /\ AccessType(req.type) \in {"WriteMetadata", "LockMetadata"}

\* A bug to compare with: only Lock requests wait.
IsLockedLocksOnly(lt, req) ==
    /\ req.inode # NoInode
    /\ req.lock_id = NoLockId
    /\ lt.lock_ids[req.inode] # NoLockId
    /\ AccessType(req.type) = "LockMetadata"

\* LockTable::is_locked. Requests without an inode, and requests that name
\* the lock they hold, never wait.
IsLocked(lt, req) ==
    /\ req.inode # NoInode
    /\ req.lock_id = NoLockId
    /\ lt.lock_ids[req.inode] # NoLockId
    /\ AccessType(req.type) # "NoAccess"

\* LockTable::wait_for_lock
WaitForLock(lt, req) ==
    [lt EXCEPT !.pending = [@ EXCEPT ![req.inode] = Append(lt.pending[req.inode], req)]]

\* A bug to compare with: the counter runs the wrong way.
LockCountsDown(lt, inode) ==
    [lt EXCEPT !.lock_ids = [@ EXCEPT ![inode] = lt.next_id],
               !.next_id = lt.next_id - 1]

\* LockTable::lock
Lock(lt, inode) ==
    [lt EXCEPT !.lock_ids = [@ EXCEPT ![inode] = lt.next_id],
               !.next_id = lt.next_id + 1]

\* The positions of the Lock requests among the requests that wait.
LockWaiters(queue) == {k \in 1..Len(queue) : queue[k].type = "Lock"}

\* requests_to_process of LockTable::unlock: up to and including the first
\* Lock request, or everything when there is none.
RequestsToProcess(queue) ==
    IF LockWaiters(queue) = {}
    THEN Len(queue)
    ELSE CHOOSE k \in LockWaiters(queue) : \A l \in LockWaiters(queue) : k <= l

\* A bug to compare with: the scan stops at the first Lock request but the
\* lock is not taken for it.
UnlockWithoutGrant(lt, inode) ==
    [lt EXCEPT
        !.lock_ids = [@ EXCEPT ![inode] = NoLockId],
        !.pending  = [@ EXCEPT ![inode] = SubSeq(@, RequestsToProcess(@) + 1, Len(@))]]

\* A bug to compare with: drain(..) instead of drain(..requests_to_process),
\* so what waits behind the Lock request is lost.
UnlockDropsTail(lt, inode) ==
    LET granted == LockWaiters(lt.pending[inode]) # {}
    IN  [lock_ids |-> [lt.lock_ids EXCEPT
                         ![inode] = IF granted THEN lt.next_id ELSE NoLockId],
         pending  |-> [lt.pending EXCEPT ![inode] = <<>>],
         next_id  |-> IF granted THEN lt.next_id + 1 ELSE lt.next_id]

\* The table after LockTable::unlock: the first Lock request that waits, if
\* any, has the lock, and the requests up to it have left the queue.
Unlock(lt, inode) ==
    LET queue   == lt.pending[inode]
        granted == LockWaiters(queue) # {}
    IN  [lock_ids |-> [lt.lock_ids EXCEPT
                         ![inode] = IF granted THEN lt.next_id ELSE NoLockId],
         pending  |-> [lt.pending EXCEPT
                         ![inode] = SubSeq(queue, RequestsToProcess(queue) + 1, Len(queue))],
         next_id  |-> IF granted THEN lt.next_id + 1 ELSE lt.next_id]

------------------------------------------------------------------------------
(***************************************************************************)
(* _process_lock_table, in three parts: the table after a decided command  *)
(* has gone through it, the requests that get the lock lt.next_id (none or *)
(* one), and the requests to commit, in order.                             *)
(***************************************************************************)
TableAfter(lt, req) ==
    CASE IsLocked(lt, req)                           -> WaitForLock(lt, req)
      [] ~IsLocked(lt, req) /\ req.type = "Lock"     -> Lock(lt, req.inode)
      [] ~IsLocked(lt, req) /\ req.type = "Unlock"   -> Unlock(lt, req.inode)
      [] OTHER                                       -> lt

\* The Lock request that Unlock hands the lock to.
NextLocker(queue) ==
    IF LockWaiters(queue) = {} THEN {} ELSE {queue[RequestsToProcess(queue)]}

GrantedTo(lt, req) ==
    CASE req.type = "Lock" /\ ~IsLocked(lt, req) -> {req}
      [] req.type = "Unlock"                     -> NextLocker(lt.pending[req.inode])
      [] OTHER                                   -> {}

\* A bug to compare with: the Lock request that got the lock is not popped.
SetFreeWithLock(queue) == SubSeq(queue, 1, RequestsToProcess(queue))

\* What an Unlock sets free, without the Lock request that got the lock
\* (requests.pop() in the code).
SetFree(queue) ==
    IF LockWaiters(queue) = {}
    THEN queue
    ELSE SubSeq(queue, 1, RequestsToProcess(queue) - 1)

\* A bug to compare with: a request that waits is committed all the same.
ToProcessTwice(lt, req) ==
    CASE req.type = "Lock"   -> <<>>
      [] req.type = "Unlock" -> SetFree(lt.pending[req.inode])
      [] OTHER               -> <<req>>

ToProcess(lt, req) ==
    CASE IsLocked(lt, req) \/ req.type = "Lock" -> <<>>
      [] req.type = "Unlock"                    -> SetFree(lt.pending[req.inode])
      [] OTHER                                  -> <<req>>
==============================================================================
