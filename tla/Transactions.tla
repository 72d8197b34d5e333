----------------------------- MODULE Transactions -----------------------------
(***************************************************************************)
(* The transaction coordinator                                             *)
(* (src/storage/message_handlers/transaction_coordinator.rs): create and   *)
(* mkdir, hardlink, unlink, rmdir and rename, run by many coordinators at  *)
(* once, and what is to hold of the file system, the locks and the         *)
(* assertions in the code.                                                 *)
(***************************************************************************)
EXTENDS TransactionSteps

Init ==
    /\ workload \in Workloads
    /\ fs = workload.fs
    /\ lock_table = [g \in Groups |-> EmptyLockTable]
    /\ tx = [p \in Procs |-> NoTransaction]
    /\ reply = [p \in Procs |-> Idle]
    /\ panics = {}
    /\ lost = {}

Next == \E p \in Procs : Start(p) \/ Step(p) \/ Crash(p)

Spec == Init /\ [][Next]_vars

------------------------------------------------------------------------------
(***************************************************************************)
(* Properties                                                              *)
(***************************************************************************)
\* The directory entries that link to the inode.
LinksTo(i) == {e \in DOMAIN fs.entries : fs.entries[e] = i}

\* The renames of the inode that have made its new link and not yet removed
\* the old one.
HalfRenamed(i) ==
    {p \in Procs : /\ tx[p].op.type = "rename"
                   /\ tx[p].inode = i
                   /\ tx[p].locks # {}
                   /\ fs.entries[<<tx[p].op.parent, tx[p].op.name>>] = i
                   /\ fs.entries[<<tx[p].op.new_parent, tx[p].op.new_name>>] = i}

\* The entries that the inode accounts for: its link count, of which a
\* directory's "." takes one.
Accounted(i) ==
    CASE ~Exists(fs, i)          -> 0
      [] IsKind(i, "File")       -> fs.attrs[i].hardlinks
      [] IsKind(i, "Directory")  -> fs.attrs[i].hardlinks - 1

Lost(types) == \E l \in lost : l[2] \in types

\* The inodes that keep both names, because a rename lost the request to
\* remove the old one: it returns the error and leaves the new name.
Torn == {tx[p].inode : p \in {q \in Procs : tx[q].op.type = "rename" /\ <<q, "RemoveLink">> \in lost}}

\* The tables have their types, the counter of a group yields inodes of that
\* group, and PARENTS_TABLE has a row for the directories and nothing else.
TypeOK ==
    /\ fs \in FileSystems
    /\ \A g \in Groups : GroupOf(fs.next_inode[g]) = g
    /\ \A i \in Inodes : IsKind(i, "Directory") <=> fs.parents[i] # NoInode

\* No inode has more links than it accounts for, whatever runs, whoever
\* crashes and whichever request gets lost: the count goes up before a link is
\* made and down after it is removed. So no entry ever names an inode that is
\* gone. A rename that could not remove the old name is the exception.
LinksAreCounted ==
    \A i \in Inodes \ Torn :
        Cardinality(LinksTo(i)) - Cardinality(HalfRenamed(i)) <= Accounted(i)

\* When no transaction is under way the counts are exact, a directory has one
\* link and its ".." is the directory that link is in, and no lock is held
\* and nobody waits for one. That holds also when a request or a read got lost,
\* for the error paths undo what was done; but not when it was the one that
\* undoes or completes, where the code says that the inode leaks, or an Unlock.
\* The getattrs with which rmdir counts the links, "just for debuggability", is
\* such a one: when it fails, rmdir returns before it gives up the inode.
ConsistentAtRest ==
    (\A p \in Procs : Finished(p)) /\ ~Lost({"Unlock"}) =>
        /\ ~Lost({"DecrementInode", "HardlinkRollback", "UpdateParent", "CountLinks"}) =>
            \A i \in Inodes \ ({ROOT_INODE} \cup Torn) :
                /\ Cardinality(LinksTo(i)) = Accounted(i)
                /\ IsKind(i, "Directory") =>
                        /\ fs.attrs[i].hardlinks = 2
                        /\ \A e \in LinksTo(i) : fs.parents[i] = e[1]
        /\ \A g \in Groups, i \in Inodes :
            /\ lock_table[g].lock_ids[i] = NoLockId
            /\ lock_table[g].pending[i] = <<>>

\* No assertion of the coordinator or of the storage fails, and no link count
\* overflows.
NoPanics == panics = {}

\* From the moment a rename has locked the inode, and while it holds its
\* locks, the inode has the old name or the new one; a rename that succeeded
\* has taken the old name away.
RenameKeepsFile ==
    \A p \in Procs :
        LET op  == tx[p].op
            old == fs.entries[<<op.parent, op.name>>]
            new == fs.entries[<<op.new_parent, op.new_name>>]
        IN  /\ op.type = "rename"
            /\ \E lock \in tx[p].locks : lock[1] = op.parent
            /\ \E lock \in tx[p].locks : lock[1] = op.new_parent
            /\ \E lock \in tx[p].locks : lock[1] = tx[p].inode
            => /\ tx[p].inode \in {old, new}
               /\ tx[p].pc = "unlocking" /\ tx[p].result = "Ok"
                    => new = tx[p].inode /\ old = NoInode

\* What decrement_inode_link_count asserts: a directory that is deleted has
\* no entries.
DeletedDirectoriesAreEmpty == "DeletedNonEmptyDirectory" \notin panics

\* What rmdir_transaction asserts: what it removed is a directory with two
\* links.
RmdirRemovesDirectories == "RmdirLinkCount" \notin panics

\* While transactions are under way, no coordinator has crashed and no Unlock
\* got lost, one of them has its reply: create, hardlink, unlink and rmdir
\* never wait for each other in a circle, and no error path forgets an Unlock.
\* Renames can wait for each other, as their comment on locks says.
SomeoneCanRun ==
    \/ \A p \in Procs : Finished(p)
    \/ \E op \in workload.ops : op.type = "rename"
    \/ \E p \in Procs : tx[p].crashed \/ (~Finished(p) /\ reply[p] # Waiting)
    \/ Lost({"Unlock"})
==============================================================================
