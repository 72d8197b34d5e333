-------------------------- MODULE TransactionRequests --------------------------
(***************************************************************************)
(* What the transactions of the coordinator                                *)
(* (src/storage/message_handlers/transaction_coordinator.rs) act on: the   *)
(* metadata and the lock tables of the groups, the state of each           *)
(* transaction, and the ways in which a transaction gets on: it proposes a *)
(* request, loses it, takes a step alone, panics or stops.                 *)
(*                                                                         *)
(* A request is decided and applied in the step that proposes it, by the   *)
(* lock table of its group and then by CommitWrite; ConsensusNode models   *)
(* how a group does that. A request that finds the inode locked waits in   *)
(* the lock table and is answered by the Unlock that sets it free.         *)
(***************************************************************************)
EXTENDS LockTable, FiniteSets

CONSTANTS
    Names, NumGroups, NoAttrs,      \* of MetadataStorage
    Procs,          \* transactions, one operation each
    Workloads       \* records of a file system to start from, operations to run on it,
                    \* and the number of faults: of crashes, and of requests and reads
                    \* that get lost

INSTANCE MetadataStorage

Operations ==
    [type : {"create"}, parent : Inodes, name : Names, kind : Kinds, uid : Nat, mode : Modes]
        \cup [type : {"hardlink"}, inode : Inodes, parent : Inodes, name : Names, uid : Nat]
        \cup [type : {"unlink", "rmdir"}, parent : Inodes, name : Names, uid : Nat]
        \cup [type : {"rename"}, parent : Inodes, name : Names, new_parent : Inodes,
              new_name : Names, uid : Nat]

\* A file system to start from: the counter of a group yields inodes of that
\* group that are not used yet, and the directories have a row in PARENTS_TABLE.
Consistent(s) ==
    /\ s \in FileSystems
    /\ \A g \in Groups : GroupOf(s.next_inode[g]) = g
    /\ \A i \in Inodes : Exists(s, i) => i < s.next_inode[GroupOf(i)]
    /\ \A i \in Inodes : Exists(s, i) /\ s.attrs[i].kind = "Directory" <=> s.parents[i] # NoInode

ASSUME TransactionsAssumption ==
    /\ Inodes \subseteq Nat \ {0}
    /\ NumGroups \in Nat \ {0}
    /\ NoAttrs \notin Attributes
    /\ \A w \in Workloads : Consistent(w.fs) /\ w.ops \subseteq Operations /\ w.faults \in Nat

VARIABLES
    workload,       \* the one that this behaviour is about
    fs,             \* the metadata of all groups
    lock_table,     \* of each group
    tx,             \* the local state of each transaction
    reply,          \* the last reply of each transaction, or Waiting
    panics,         \* the assertions that failed; nothing is modelled after one
    lost            \* the requests and reads that got lost, as <<transaction, type>>

vars == <<workload, fs, lock_table, tx, reply, panics, lost>>

Waiting == Reply("Waiting", NoInode, FALSE)

Idle == Reply("Ok", NoInode, TRUE)

\* inode and dest are the inodes the transaction found, attrs and dest_attrs
\* what getattrs said of them, locks the lock_guard of rename and lock_id of
\* the others as a set of <<inode, lock id>>.
NoTransaction ==
    [op |-> [type |-> "none"], pc |-> "idle", inode |-> NoInode, dest |-> NoInode,
     attrs |-> NoAttrs, dest_attrs |-> NoAttrs, locks |-> {}, result |-> "Ok", crashed |-> FALSE]

------------------------------------------------------------------------------
(***************************************************************************)
(* Proposing a request                                                     *)
(***************************************************************************)
Commit(acc, req) ==
    LET result == CommitWrite(acc.fs, req)
    IN  [fs |-> result.fs, reply |-> [acc.reply EXCEPT ![req.from] = result.reply]]

\* The requests, one after the other.
CommitAll(start, requests) ==
    LET after[k \in 0..Len(requests)] ==
            IF k = 0 THEN start ELSE Commit(after[k - 1], requests[k])
    IN  after[Len(requests)]

\* propose: the request goes through the lock table of its group, and what the
\* table lets through is committed and answered.
Propose(p, req) ==
    LET lt      == lock_table[req.group]
        start   == [fs |-> fs, reply |-> [reply EXCEPT ![p] = IF req.type = "Unlock"
                                                              THEN Idle ELSE Waiting]]
        done    == CommitAll(start, ToProcess(lt, req))
        granted == {r.from : r \in GrantedTo(lt, req)}
    IN  /\ lock_table' = [lock_table EXCEPT ![req.group] = TableAfter(lt, req)]
        /\ fs' = done.fs
        /\ reply' = [q \in Procs |-> IF q \in granted THEN Reply("Ok", lt.next_id, TRUE)
                                     ELSE done.reply[q]]
        /\ panics' = panics
                        \cup {s \in Panics : \E q \in Procs : reply'[q].status = s}
                        \cup (IF LockIdIsCurrent(lt, req) THEN {} ELSE {"StaleLockId"})

Faults == Cardinality(lost) + Cardinality({p \in Procs : tx[p].crashed})

\* The request does not get to its group, and the coordinator is told so: the
\* connection broke before the request was sent, or the group has no leader.
Lose(p, req) ==
    /\ Faults < workload.faults
    /\ lost' = lost \cup {<<p, req.type>>}
    /\ reply' = [reply EXCEPT ![p] = Reply("Uncategorized", NoInode, FALSE)]
    /\ UNCHANGED <<fs, lock_table, panics>>

Send(p, req, next) ==
    /\ tx' = [tx EXCEPT ![p] = next]
    /\ \/ Propose(p, req) /\ UNCHANGED lost
       \/ Lose(p, req)
    /\ UNCHANGED workload

\* A lookup or a getattrs fails in the same way: nothing is read, and the
\* transaction goes on with the error to next.
LoseRead(p, read, next) ==
    /\ tx' = [tx EXCEPT ![p] = next]
    /\ Lose(p, [type |-> read])
    /\ UNCHANGED workload

Local(p, next) ==
    tx' = [tx EXCEPT ![p] = next] /\ UNCHANGED <<workload, fs, lock_table, reply, panics, lost>>

Finish(p, status) == Local(p, [tx[p] EXCEPT !.pc = "done", !.result = status])

Panic(p, assertion) ==
    /\ panics' = panics \cup {assertion}
    /\ UNCHANGED <<workload, fs, lock_table, tx, reply, lost>>

\* The coordinator stops. Its locks and its requests that wait stay in the
\* lock tables, for nothing of a transaction is persisted.
Stop(p) == Local(p, [tx[p] EXCEPT !.crashed = TRUE])

\* The fields every request has.
Request(type, p, inode, lock_id) ==
    [type |-> type, from |-> p, inode |-> inode, lock_id |-> lock_id, group |-> GroupOf(inode)]

CreateInodeRequest(p, g) ==
    [type |-> "CreateInode", from |-> p, inode |-> NoInode, lock_id |-> NoLockId, group |-> g,
     parent |-> tx[p].op.parent, kind |-> tx[p].op.kind, uid |-> tx[p].op.uid,
     mode |-> tx[p].op.mode]

\* CreateLink, ReplaceLink and RemoveLink, which all go to the directory's group.
LinkRequest(type, p, dir, name, lock_id, link, link_uid) ==
    [type |-> type, from |-> p, inode |-> dir, lock_id |-> lock_id, group |-> GroupOf(dir),
     name |-> name, link |-> link, link_uid |-> link_uid, uid |-> tx[p].op.uid]

DecrementRequest(p, inode, count, lock_id) ==
    [type |-> "DecrementInode", from |-> p, inode |-> inode, lock_id |-> lock_id,
     group |-> GroupOf(inode), count |-> count]

ParentRequest(p, inode, lock_id, parent) ==
    [type |-> "UpdateParent", from |-> p, inode |-> inode, lock_id |-> lock_id,
     group |-> GroupOf(inode), link |-> parent]

\* A transaction that runs, has its reply, and is at this point of this operation.
At(p, types, pc) ==
    /\ tx[p].op.type \in types
    /\ tx[p].pc = pc
    /\ ~tx[p].crashed
    /\ reply[p] # Waiting
    /\ panics = {}

Succeeds(p) == reply[p].status = "Ok"

\* The transaction ends when its reply is an error.
FinishIfError(p, types, pc) == At(p, types, pc) /\ ~Succeeds(p) /\ Finish(p, reply[p].status)
==============================================================================
