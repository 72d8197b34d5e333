------------------------ MODULE TransactionsInvariant ------------------------
(***************************************************************************)
(* The inductive invariant of Transactions, and the moves of a transaction *)
(* that keep it. TransactionRequestsProofs shows that they do, and         *)
(* TransactionStepsProofs that every step of a transaction is such a move. *)
(***************************************************************************)
EXTENDS TransactionRequests

Ids == Nat \cup {NoLockId}

\* The requests to an inode, which go through the lock table.
Requests ==
    {r \in [type : {"Lock", "Unlock", "HardlinkIncrement", "HardlinkRollback",
                    "UpdateMetadataChangedTime"},
            from : Procs, inode : Inodes, lock_id : Ids, group : Groups]
        \cup [type : {"CreateLink", "ReplaceLink"}, from : Procs, inode : Inodes, lock_id : Ids,
              group : Groups, name : Names, link : Inodes, link_uid : Nat, uid : Nat]
        \cup [type : {"RemoveLink"}, from : Procs, inode : Inodes, lock_id : Ids,
              group : Groups, name : Names, link : Inodes \cup {NoInode}, link_uid : Nat, uid : Nat]
        \cup [type : {"DecrementInode"}, from : Procs, inode : Inodes, lock_id : Ids,
              group : Groups, count : Nat]
        \cup [type : {"UpdateParent"}, from : Procs, inode : Inodes, lock_id : Ids,
              group : Groups, link : Inodes] :
     r.group = GroupOf(r.inode)}

\* The requests for a new inode.
Creations ==
    [type : {"CreateInode"}, from : Procs, inode : {NoInode}, lock_id : {NoLockId},
     group : Groups, parent : Inodes, kind : Kinds, uid : Nat, mode : Modes]

Statuses ==
    {"Ok", "Waiting", "Uncategorized", "InodeDoesNotExist", "DoesNotExist", "AlreadyExists",
     "AccessDenied", "NotEmpty"} \cup Panics

Responses == [status : Statuses, id : Nat \cup {NoInode}, complete : BOOLEAN]

------------------------------------------------------------------------------
(***************************************************************************)
(* The inductive invariant. It says of each transaction what its pc        *)
(* promises, of the locks who owns them and who waits for them, and of a   *)
(* rename what its locks protect.                                          *)
(***************************************************************************)
\* Where a transaction waits for the reply to a Lock request
AskPcs == {"parent_locked", "new_parent_locked", "inode_locked", "dest_locked", "locked"}

RenamePcs == (AskPcs \ {"locked"})
                \cup {"linked", "replaced", "dest_decremented", "old_removed", "reparented",
                      "touched", "unlocking"}

Pcs == RenamePcs \cup {"idle", "begin", "inode_created", "link_created", "incremented", "tried",
                       "look", "locked", "removed", "failed", "gone", "counted", "last", "done"}

Transaction ==
    [op : Operations \cup {[type |-> "none"]}, pc : Pcs,
     inode : Inodes \cup {NoInode}, dest : Inodes \cup {NoInode},
     attrs : Attributes \cup {NoAttrs}, dest_attrs : Attributes \cup {NoAttrs},
     locks : SUBSET (Inodes \X Nat), result : Statuses, crashed : BOOLEAN]

\* The inode whose lock it asks for
Asked(t) ==
    CASE t.pc = "parent_locked"     -> t.op.parent
      [] t.pc = "new_parent_locked" -> t.op.new_parent
      [] t.pc = "dest_locked"       -> t.dest
      [] OTHER                      -> t.inode

\* What each pc promises of the transaction itself.
Shape(t) ==
    /\ t.pc # "idle" => t.op \in Operations
    /\ t.pc = "idle" => t.locks = {} /\ t.inode = NoInode /\ t.op.type = "none"
    /\ t.pc \in RenamePcs => t.op.type = "rename"
    /\ t.op.type = "rename" => t.pc \in RenamePcs \cup {"begin", "done"}
    /\ t.op.type = "rename" => <<t.op.parent, t.op.name>> # <<t.op.new_parent, t.op.new_name>>
    /\ t.pc \in {"link_created", "incremented", "look", "locked", "removed", "gone", "counted"}
            => t.inode \in Inodes
    /\ t.pc = "dest_locked" => t.dest \in Inodes
    /\ t.pc = "inode_locked" => t.inode \in Inodes

\* What each pc promises of the reply.
Answered(t, a) ==
    /\ a.status = "Ok" /\ t.pc \in {"inode_created", "tried", "removed"} => a.id \in Inodes
    /\ a.status = "Ok" /\ t.pc \in AskPcs => a.id \in Nat
    /\ t.pc = "idle" => a # Waiting

Types ==
    /\ Consistent(fs)
    /\ lock_table \in [Groups -> Tables(Requests)]
    /\ tx \in [Procs -> Transaction]
    /\ reply \in [Procs -> Responses]
    /\ \A p \in Procs : Shape(tx[p]) /\ Answered(tx[p], reply[p])

\* The locks of a transaction, with the one that its reply grants
OwnOf(t, a) ==
    t.locks \cup (IF t.pc \in AskPcs /\ a.status = "Ok" THEN {<<Asked(t), a.id>>} ELSE {})

\* What LockTableProofs shows of the lock table, and the moves rest on: the scan
\* of a queue finds the first Lock request, and a table stays a table.
LockTableFacts ==
    /\ \A S \in SUBSET Nat : S # {} => \E k \in S : \A l \in S : k <= l
    /\ \A queue : LockWaiters(queue) # {} =>
            /\ RequestsToProcess(queue) \in LockWaiters(queue)
            /\ \A l \in LockWaiters(queue) : RequestsToProcess(queue) <= l
    /\ \A lt \in Tables(Requests), req \in Requests :
            req.inode \in Inodes => TableAfter(lt, req) \in Tables(Requests)

LockIdOf(i) == lock_table[GroupOf(i)].lock_ids[i]

Queue(i) == lock_table[GroupOf(i)].pending[i]

\* A request that waits: its transaction waits for its reply.
Queued(i, r, t, a) ==
    /\ r.inode = i
    /\ r.lock_id = NoLockId
    /\ r.type \notin {"Unlock", "ReplaceLink", "UpdateParent"}
    /\ a = Waiting
    /\ t.pc \in AskPcs <=> r.type = "Lock"
    /\ r.type = "Lock" => Asked(t) = i
    /\ t.op.type = "rename" => r.type = "Lock"
    /\ t.pc \in {"tried", "removed"} => r.type = "RemoveLink"
    /\ t.pc \notin {"idle", "inode_created"}

\* The locks that transactions own are held, by one transaction each, and
\* nobody gets a lock that it owns already.
Owners ==
    /\ \A p \in Procs : \A l \in OwnOf(tx[p], reply[p]) : LockIdOf(l[1]) = l[2]
    /\ \A p, q \in Procs : p # q => OwnOf(tx[p], reply[p]) \cap OwnOf(tx[q], reply[q]) = {}
    /\ \A p \in Procs : tx[p].pc \in AskPcs /\ reply[p].status = "Ok"
                            => \A l \in tx[p].locks : l[1] # Asked(tx[p])

\* A transaction waits in one place.
Waiters ==
    /\ \A i \in Inodes : \A k \in 1..Len(Queue(i)) :
            LET r == Queue(i)[k] IN Queued(i, r, tx[r.from], reply[r.from])
    /\ \A i, j \in Inodes : \A k \in 1..Len(Queue(i)), l \in 1..Len(Queue(j)) :
            Queue(i)[k].from = Queue(j)[l].from => i = j /\ k = l

Has(t, i) == \E l \in t.locks : l[1] = i

OldName(t, s) == s.entries[<<t.op.parent, t.op.name>>]

NewName(t, s) == s.entries[<<t.op.new_parent, t.op.new_name>>]

\* The attributes that a rename has seen are those of the inode.
Seen(t, s) == Exists(s, t.inode) /\ t.attrs = s.attrs[t.inode]

\* What a rename knows of its names at each of its pcs.
Renaming(t, a, s) ==
    /\ t.pc \in {"begin", "parent_locked", "done"} => t.locks = {}
    /\ t.pc \in {"begin", "parent_locked", "new_parent_locked"} => t.inode = NoInode
    /\ t.pc \in RenamePcs \ {"parent_locked", "unlocking"} => Has(t, t.op.parent)
    /\ t.pc \in RenamePcs \ {"parent_locked", "new_parent_locked", "unlocking"}
            => Has(t, t.op.new_parent) /\ t.inode \in Inodes
    /\ t.pc \in RenamePcs \ {"parent_locked", "new_parent_locked", "inode_locked", "unlocking"}
            => Has(t, t.inode)
    /\ t.pc \in {"inode_locked", "dest_locked", "linked", "replaced", "dest_decremented"}
            => OldName(t, s) = t.inode
    /\ t.pc \in {"dest_decremented", "old_removed", "reparented", "touched"}
            => NewName(t, s) = t.inode
    /\ t.pc \in {"linked", "replaced"} /\ a.status = "Ok" => NewName(t, s) = t.inode
    /\ t.pc = "old_removed" /\ a.status = "Ok" => OldName(t, s) = NoInode
    /\ t.pc \in {"reparented", "touched"} => OldName(t, s) = NoInode
    /\ t.pc = "dest_locked" => NewName(t, s) = t.dest
    /\ t.pc = "replaced" => /\ t.dest \in Inodes \ {t.inode} /\ Has(t, t.dest)
                            /\ a.status = "Ok" => a.id = t.dest
    /\ t.pc \in {"linked", "replaced", "dest_decremented", "old_removed"} => Seen(t, s)
    /\ t.pc = "unlocking" /\ Has(t, t.op.parent) /\ Has(t, t.op.new_parent) /\ Has(t, t.inode)
            => /\ t.inode \in {OldName(t, s), NewName(t, s)}
               /\ t.result = "Ok" => NewName(t, s) = t.inode /\ OldName(t, s) = NoInode

Renames == \A p \in Procs : tx[p].op.type = "rename" => Renaming(tx[p], reply[p], fs)

\* The panics that the locks of a rename prevent
Guarded == {"StaleLockId", "RenameOldInode", "NothingToReplace", "ParentOfNoDirectory"}

Unpanicked ==
    /\ panics \cap Guarded = {}
    /\ \A p \in Procs : reply[p].status \notin Guarded

TxInv == Types /\ Owners /\ Waiters /\ Renames /\ Unpanicked

------------------------------------------------------------------------------
(***************************************************************************)
(* What a request does to the metadata                                     *)
(***************************************************************************)
\* Nothing but inode i is different: the other directories have their entries,
\* and the other inodes that existed their attributes.
OnlyChanged(i, s, t) ==
    /\ \A d \in Inodes, n \in Names : d # i => t.entries[<<d, n>>] = s.entries[<<d, n>>]
    /\ \A j \in Inodes : j # i /\ Exists(s, j) => t.attrs[j] = s.attrs[j]

\* The entries are those of s but for one.
OtherEntry(s, t, d, n, i) ==
    \A e \in Inodes, m \in Names :
        t.entries[<<e, m>>] = IF e = d /\ m = n THEN i ELSE s.entries[<<e, m>>]

\* A request that is committed with the result c. What it says of the inode or
\* the entry that the request is about, a rename relies on.
Effect(s, r, c) ==
    /\ OnlyChanged(r.inode, s, c.fs)
    /\ c.reply.status # "Ok" => c.fs = s
    /\ r.type \in {"CreateLink", "ReplaceLink", "RemoveLink"} => c.fs.attrs = s.attrs
    /\ r.type \in {"CreateLink", "ReplaceLink"} /\ c.reply.status = "Ok"
            => OtherEntry(s, c.fs, r.inode, r.name, r.link)
    /\ r.type = "ReplaceLink" =>
            /\ c.reply.status = "Ok" => c.reply.id = s.entries[<<r.inode, r.name>>]
            /\ s.entries[<<r.inode, r.name>>] # NoInode => c.reply.status \notin Guarded
    /\ r.type = "RemoveLink" /\ c.reply.status = "Ok" /\ r.link = s.entries[<<r.inode, r.name>>]
            => OtherEntry(s, c.fs, r.inode, r.name, NoInode)
    /\ r.type \in {"DecrementInode", "UpdateParent", "UpdateMetadataChangedTime"}
            => c.fs.entries = s.entries
    /\ r.type = "UpdateParent" /\ Exists(s, r.inode) /\ s.attrs[r.inode].kind = "Directory"
            => c.reply.status \notin Guarded

\* A directory and an inode are as they were.
Kept(i) ==
    /\ \A n \in Names : fs'.entries[<<i, n>>] = fs.entries[<<i, n>>]
    /\ Exists(fs, i) => fs'.attrs[i] = fs.attrs[i]

\* What a request does to the metadata, and what its transaction hears of it
Outcome(p, req, next) ==
    /\ req.type = "Lock" => fs' = fs
    /\ req.type = "Unlock" => \A l \in next.locks : Kept(l[1])
    /\ req.type \notin {"Lock", "Unlock"} =>
        \/ fs' = fs /\ reply'[p].status \notin {"Ok"} \cup Guarded
        \/ /\ fs' = CommitWrite(fs, req).fs /\ reply'[p] = CommitWrite(fs, req).reply
           /\ Effect(fs, req, CommitWrite(fs, req))

------------------------------------------------------------------------------
(***************************************************************************)
(* The moves of a transaction                                              *)
(***************************************************************************)
\* A request that suits the transaction that sends it, and what it waits for
\* then: it names only locks that it owns, and it keeps no others.
Proper(p, req, next) ==
    /\ req \in Requests /\ req.from = p
    /\ next \in Transaction /\ Shape(next)
    /\ req.type = "Lock" => req.lock_id = NoLockId /\ Asked(next) = req.inode
    /\ next.pc \in AskPcs <=> req.type = "Lock"
    /\ next.pc \in {"tried", "removed"} => req.type = "RemoveLink"
    /\ next.pc \notin {"idle", "inode_created"}
    /\ req.lock_id # NoLockId => <<req.inode, req.lock_id>> \in OwnOf(tx[p], reply[p])
    /\ req.type = "Unlock" => req.lock_id # NoLockId /\ <<req.inode, req.lock_id>> \notin next.locks
    /\ next.locks \subseteq OwnOf(tx[p], reply[p])
    /\ next.op.type = "rename" => req.type = "Lock" \/ req.lock_id # NoLockId
    /\ req.type \in {"ReplaceLink", "UpdateParent"} => req.lock_id # NoLockId

\* A request, when what its transaction knows afterwards follows from the outcome
SendMove(p, req, next) ==
    /\ reply[p] # Waiting
    /\ Proper(p, req, next)
    /\ Send(p, req, next)
    /\ next.op.type = "rename" /\ Outcome(p, req, next) => Renaming(next, reply'[p], fs')
    /\ req.type \in {"ReplaceLink", "UpdateParent"} /\ Effect(fs, req, CommitWrite(fs, req))
            => CommitWrite(fs, req).reply.status \notin Guarded

\* The request for a new inode
CreateMove(p, req, next) ==
    /\ reply[p] # Waiting
    /\ req \in Creations /\ req.from = p /\ fs.next_inode[req.group] \in Inodes
    /\ next \in Transaction /\ Shape(next) /\ next.pc = "inode_created"
    /\ next.locks \subseteq OwnOf(tx[p], reply[p])
    /\ next.op.type # "rename"
    /\ Send(p, req, next)

\* A step of the transaction alone, which keeps to the locks that it owns
LocalMove(p, next) ==
    /\ reply[p] # Waiting
    /\ next \in Transaction /\ Shape(next)
    /\ next.pc \notin AskPcs \cup {"tried", "removed", "inode_created", "idle"}
    /\ next.locks \subseteq OwnOf(tx[p], reply[p])
    /\ next.op.type = "rename" => Renaming(next, reply[p], fs)
    /\ Local(p, next)

\* The reply to a request or a read that got lost
Failure == Reply("Uncategorized", NoInode, FALSE)

\* A read that fails, after which the transaction keeps to the locks that it owns
FailMove(p, read, next) ==
    /\ reply[p] # Waiting
    /\ next \in Transaction /\ Shape(next)
    /\ next.locks \subseteq OwnOf(tx[p], reply[p])
    /\ next.op.type = "rename" => Renaming(next, Failure, fs)
    /\ LoseRead(p, read, next)

\* An assertion that fails, but none that the locks guard
PanicMove(p, assertion) == assertion \notin Guarded /\ Panic(p, assertion)

Move(p) ==
    \/ \E req, next : SendMove(p, req, next) \/ CreateMove(p, req, next)
    \/ \E next : LocalMove(p, next)
    \/ \E read, next : FailMove(p, read, next)
    \/ \E assertion : PanicMove(p, assertion)
    \/ Stop(p)
==============================================================================
