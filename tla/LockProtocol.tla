---------------------------- MODULE LockProtocol -----------------------------
(***************************************************************************)
(* The lock table of one group with the transactions that use it. A client *)
(* is one transaction of a coordinator, or one plain request: it has one   *)
(* request outstanding at a time, because the coordinator awaits every     *)
(* response (src/storage/message_handlers/transaction_coordinator.rs).     *)
(*                                                                         *)
(* The commands of a group are decided in one order and every replica      *)
(* applies them in that order (module ConsensusNode), so the table is a    *)
(* single copy here, and submitting a request and applying it is one step: *)
(* a request that is still on its way changes nothing.                     *)
(***************************************************************************)
EXTENDS LockTable

CONSTANTS
    Clients,        \* transactions and plain requests
    MaxLockId,      \* bound: locks granted in a behaviour
    Stopping        \* the clients that may stop, or lose an Unlock, with locks held

ASSUME ClientAssumption ==
    /\ MaxLockId \in Nat
    /\ Stopping \subseteq Clients

VARIABLES
    lt,         \* the lock table
    waiting,    \* the clients whose request waits in the table
    held,       \* held[c][i]: the lock id that c was given for i, or NoLockId
    view        \* view[c][i]: whether c has read i under its lock, and whether
                \* another client's write has been committed on i since

vars == <<lt, waiting, held, view>>

Views == {"unread", "current", "outdated"}

Request(type, c, i, id) == [type |-> type, inode |-> i, lock_id |-> id, from |-> c]

Requests == [type : {"Lock", "Unlock", "Write", "CreateLink"},
             inode : Inodes, lock_id : Nat \cup {NoLockId}, from : Clients]

Init ==
    /\ lt = EmptyLockTable
    /\ waiting = {}
    /\ held = [c \in Clients |-> [i \in Inodes |-> NoLockId]]
    /\ view = [c \in Clients |-> [i \in Inodes |-> "unread"]]

------------------------------------------------------------------------------
Holds(c, i) == held[c][i] # NoLockId

Froms(requests) == {r.from : r \in requests}

\* apply_delivery: the request goes through the lock table, what comes out is
\* committed in order, and whoever was answered stops waiting.
Apply(req) ==
    LET out     == ToProcess(lt, req)
        granted == Froms(GrantedTo(lt, req))
        done    == granted \cup {out[k].from : k \in 1..Len(out)}
    IN  /\ lt' = TableAfter(lt, req)
        /\ waiting' = IF IsLocked(lt, req) THEN waiting \cup {req.from}
                                           ELSE waiting \ done
        /\ held' = [c \in Clients |-> [held[c] EXCEPT
                       ![req.inode] =
                            IF c \in granted                       THEN lt.next_id
                            ELSE IF req.type = "Unlock" /\ c = req.from THEN NoLockId
                            ELSE @]]
        /\ view' = [c \in Clients |-> [view[c] EXCEPT
                       ![req.inode] =
                            IF c \in granted \/ (req.type = "Unlock" /\ c = req.from)
                            THEN "unread"
                            ELSE IF @ = "current" /\ \E k \in 1..Len(out) : out[k].from # c
                            THEN "outdated"
                            ELSE @]]

\* lock_inode, in any order of inodes. A transaction does not lock an inode that
\* it has locked: the directories of a rename, the inode and the one of the new
\* name are different (KernelAllows in TransactionSteps).
LockInode(c, i) ==
    /\ c \notin waiting
    /\ ~Holds(c, i)
    /\ lt.next_id + Len(lt.pending[i]) < MaxLockId
    /\ Apply(Request("Lock", c, i, NoLockId))

\* getattrs of an inode under its lock: the coordinator remembers what it read
\* and acts on it in a later request.
ReadLocked(c, i) ==
    /\ c \notin waiting
    /\ Holds(c, i)
    /\ view' = [view EXCEPT ![c] = [@ EXCEPT ![i] = "current"]]
    /\ UNCHANGED <<lt, waiting, held>>

\* A request with lock_id Some(id): ReplaceLink, CreateLink, RemoveLink,
\* DecrementInode, UpdateParent or UpdateMetadataChangedTime of a rename.
WriteLocked(c, i) ==
    /\ c \notin waiting
    /\ Holds(c, i)
    /\ Apply(Request("CreateLink", c, i, held[c][i]))

\* A request with lock_id None, a Write of file data for one.
WritePlain(c, i) ==
    /\ c \notin waiting
    /\ ~Holds(c, i)
    /\ Apply(Request("Write", c, i, NoLockId))

\* unlock_inode
UnlockInode(c, i) ==
    /\ c \notin waiting
    /\ Holds(c, i)
    /\ Apply(Request("Unlock", c, i, held[c][i]))

Next ==
    \E c \in Clients, i \in Inodes :
        \/ LockInode(c, i)
        \/ ReadLocked(c, i)
        \/ WriteLocked(c, i)
        \/ WritePlain(c, i)
        \/ UnlockInode(c, i)

Spec == Init /\ [][Next]_vars

\* A transaction that is not Stopping goes on to release the locks it holds, when
\* its own requests are answered. It makes finitely many of them; MaxLockId is
\* what bounds them here.
Fairness == \A c \in Clients \ Stopping, i \in Inodes : WF_vars(UnlockInode(c, i))

FairSpec == Spec /\ Fairness

------------------------------------------------------------------------------
TypeOK ==
    /\ lt \in [lock_ids : [Inodes -> Nat \cup {NoLockId}],
               pending  : [Inodes -> Seq(Requests)],
               next_id  : Nat]
    /\ waiting \subseteq Clients
    /\ held \in [Clients -> [Inodes -> Nat \cup {NoLockId}]]
    /\ view \in [Clients -> [Inodes -> Views]]

\* Two transactions never both believe that they hold the lock of an inode,
\* however grants, queued Lock requests and unlocks interleave.
MutualExclusion ==
    \A c, d \in Clients, i \in Inodes : Holds(c, i) /\ Holds(d, i) => c = d

\* The id that a transaction was given stays the id of the table until the
\* transaction gives it back, so the assertions of is_locked ("panics if the
\* lock is held, held_lock is present, and they don't match") and of unlock
\* cannot fail.
LockIdsStayCurrent ==
    \A c \in Clients, i \in Inodes : Holds(c, i) => lt.lock_ids[i] = held[c][i]

\* Requests wait only for an inode that somebody holds. A request left behind
\* at an unlocked inode would wait for ever, since only unlock looks at the
\* queue.
NoOrphanedWaiters ==
    \A i \in Inodes :
        lt.pending[i] # <<>> =>
            /\ lt.lock_ids[i] # NoLockId
            /\ \E c \in Clients : Holds(c, i)

\* A client that waits has its request in exactly one queue, once: unlock
\* neither drops nor keeps a request that it handed on.
WaitersAreQueuedOnce ==
    \A c \in Clients :
        LET places == {p \in UNION {{<<i, k>> : k \in 1..Len(lt.pending[i])} : i \in Inodes} :
                          lt.pending[p[1]][p[2]].from = c}
        IN  IF c \in waiting
            THEN \E p \in places : places = {p}
            ELSE places = {}

\* What a transaction read under a lock is still true, but for its own
\* writes, for as long as it holds the lock: a queued or a concurrent write of
\* another client never lands between the read and the locked write that
\* depends on it.
IsolatedUnderLock ==
    \A c \in Clients, i \in Inodes :
        Holds(c, i) => view[c][i] # "outdated"

\* The request of c waits for an inode that d has locked.
WaitsFor(c, d) ==
    \E i \in Inodes : Holds(d, i) /\ \E k \in 1..Len(lt.pending[i]) : lt.pending[i][k].from = c

\* Each of these clients waits for another of them, or for one that may have
\* stopped.
Deadlocked(clients) ==
    \A c \in clients : \E d \in clients \cup Stopping : WaitsFor(c, d)

\* A request that waits is answered, whatever the order in which clients lock,
\* unless its client waits in a circle (the TODO of
\* rename_transaction_lock_context) or, through others, for one that stopped.
\* The table itself forgets nobody and starves nobody.
WaitersAreServed ==
    \A c \in Clients :
        \/ []<>(c \notin waiting)
        \/ <>[](\E clients \in SUBSET Clients : c \in clients /\ Deadlocked(clients))
==============================================================================
