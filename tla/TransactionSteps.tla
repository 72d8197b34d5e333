--------------------------- MODULE TransactionSteps ---------------------------
(***************************************************************************)
(* The steps of create and mkdir, hardlink, unlink, rmdir and rename       *)
(* (src/storage/message_handlers/transaction_coordinator.rs), each a       *)
(* sequence of requests to the groups of the inodes involved.              *)
(*                                                                         *)
(* A transaction is a process. Its pc names the reply it waits for, and    *)
(* each action takes that reply and runs to the next request. A read is    *)
(* what the storage holds at the step that takes its result (read barriers *)
(* make reads fresh, see ConsensusNode!BarrierIsFresh); a read that the    *)
(* transaction makes under its own lock shares a step with the request     *)
(* after it, for no one else can change what it reads. A read that fails   *)
(* is a step of its own.                                                   *)
(***************************************************************************)
EXTENDS TransactionRequests

------------------------------------------------------------------------------
(***************************************************************************)
(* The operations that reach the coordinator. The kernel of the client has *)
(* looked the names up and refuses operations that make no sense, but what *)
(* it saw may have changed when the transaction runs.                      *)
(***************************************************************************)
IsKind(inode, kind) == inode # NoInode /\ Exists(fs, inode) /\ fs.attrs[inode].kind = kind

KernelAllows(op) ==
    LET old == fs.entries[<<op.parent, op.name>>]
        new == fs.entries[<<op.new_parent, op.new_name>>]
    IN  /\ IsKind(op.parent, "Directory")
        /\ op.type = "create"   => old = NoInode
        /\ op.type = "hardlink" => old = NoInode /\ IsKind(op.inode, "File")
        /\ op.type = "unlink"   => IsKind(old, "File")
        /\ op.type = "rmdir"    => IsKind(old, "Directory")
        /\ op.type = "rename"   =>
                /\ old # NoInode
                /\ old # new
                /\ IsKind(op.new_parent, "Directory")
                /\ new # NoInode => IsKind(new, fs.attrs[old].kind)

Start(p) ==
    /\ tx[p].pc = "idle"
    /\ panics = {}
    /\ \E op \in workload.ops :
        /\ KernelAllows(op)
        /\ Local(p, [tx[p] EXCEPT !.op = op, !.pc = "begin"])

------------------------------------------------------------------------------
(***************************************************************************)
(* create_transaction: the inode in any group, then the link to it; when   *)
(* the link cannot be made the inode is given up again.                    *)
(***************************************************************************)
CreateBegins(p) ==
    /\ At(p, {"create"}, "begin")
    /\ \E g \in Groups :
        /\ fs.next_inode[g] \in Inodes
        /\ Send(p, CreateInodeRequest(p, g), [tx[p] EXCEPT !.pc = "inode_created"])

CreateLinks(p) ==
    \/ FinishIfError(p, {"create"}, "inode_created")
    \/ /\ At(p, {"create"}, "inode_created")
       /\ Succeeds(p)
       /\ Send(p, LinkRequest("CreateLink", p, tx[p].op.parent, tx[p].op.name, NoLockId,
                              reply[p].id, 0),
               [tx[p] EXCEPT !.pc = "link_created", !.inode = reply[p].id])

\* A bug to compare with: the inode is not given up.
CreateEndsWithoutRollback(p) ==
    /\ At(p, {"create"}, "link_created")
    /\ Finish(p, reply[p].status)

CreateEnds(p) ==
    /\ At(p, {"create"}, "link_created")
    /\ IF Succeeds(p)
       THEN Finish(p, "Ok")
       ELSE Send(p, DecrementRequest(p, tx[p].inode,
                                     IF tx[p].op.kind = "Directory" THEN 2 ELSE 1, NoLockId),
                 [tx[p] EXCEPT !.pc = "last", !.result = reply[p].status])

(***************************************************************************)
(* hardlink_transaction: the count first, so that the inode cannot go away *)
(* before the link is there.                                               *)
(***************************************************************************)
HardlinkBegins(p) ==
    /\ At(p, {"hardlink"}, "begin")
    /\ Send(p, Request("HardlinkIncrement", p, tx[p].op.inode, NoLockId),
            [tx[p] EXCEPT !.pc = "incremented", !.inode = tx[p].op.inode])

HardlinkLinks(p) ==
    \/ FinishIfError(p, {"hardlink"}, "incremented")
    \/ /\ At(p, {"hardlink"}, "incremented")
       /\ Succeeds(p)
       /\ Send(p, LinkRequest("CreateLink", p, tx[p].op.parent, tx[p].op.name, NoLockId,
                              tx[p].inode, 0),
               [tx[p] EXCEPT !.pc = "link_created"])

HardlinkEnds(p) ==
    /\ At(p, {"hardlink"}, "link_created")
    /\ IF Succeeds(p)
       THEN Finish(p, "Ok")
       ELSE Send(p, Request("HardlinkRollback", p, tx[p].inode, NoLockId),
                 [tx[p] EXCEPT !.pc = "last", !.result = reply[p].status])

------------------------------------------------------------------------------
(***************************************************************************)
(* unlink_transaction and rmdir_transaction. Both end in the same loop:    *)
(* lock the inode, look at its attributes, remove the link, unlock; again  *)
(* while RemoveLink says that the link is to another inode by now.         *)
(***************************************************************************)
UnlinkBegins(p) ==
    /\ At(p, {"unlink"}, "begin")
    /\ Send(p, LinkRequest("RemoveLink", p, tx[p].op.parent, tx[p].op.name, NoLockId, NoInode, 0),
            [tx[p] EXCEPT !.pc = "tried"])

\* RemoveLink did it, or a sticky directory wants the inode's owner first.
UnlinkTried(p) ==
    \/ FinishIfError(p, {"unlink"}, "tried")
    \/ /\ At(p, {"unlink"}, "tried")
       /\ Succeeds(p)
       /\ IF reply[p].complete
          THEN Send(p, DecrementRequest(p, reply[p].id, 1, NoLockId),
                    [tx[p] EXCEPT !.pc = "last", !.inode = reply[p].id])
          ELSE Send(p, Request("Lock", p, reply[p].id, NoLockId),
                    [tx[p] EXCEPT !.pc = "locked", !.inode = reply[p].id])

\* lookup, which is not under a lock
RmdirBegins(p) ==
    LET inode == fs.entries[<<tx[p].op.parent, tx[p].op.name>>]
    IN  /\ At(p, {"rmdir"}, "begin")
        /\ CASE ~Exists(fs, tx[p].op.parent) -> Finish(p, "InodeDoesNotExist")
             [] Exists(fs, tx[p].op.parent) /\ inode = NoInode -> Finish(p, "DoesNotExist")
             [] OTHER -> Local(p, [tx[p] EXCEPT !.pc = "look", !.inode = inode])

\* The transaction returns the error of a Lock or of an Unlock, and goes no
\* further.
GiveUp(p) == \E pc \in {"look", "locked", "failed", "gone"} : FinishIfError(p, {"unlink", "rmdir"}, pc)

LockTarget(p) ==
    /\ At(p, {"unlink", "rmdir"}, "look")
    /\ Succeeds(p)
    /\ Send(p, Request("Lock", p, tx[p].inode, NoLockId), [tx[p] EXCEPT !.pc = "locked"])

UnlockTarget(p, lock, next) ==
    Send(p, Request("Unlock", p, lock[1], lock[2]), [next EXCEPT !.locks = {}])

\* A bug to compare with: rmdir does not look whether the directory is empty.
RemoveTargetUnseen(p) ==
    LET inode == tx[p].inode
        lock  == <<inode, reply[p].id>>
    IN  /\ At(p, {"unlink", "rmdir"}, "locked")
        /\ Succeeds(p)
        /\ IF ~Exists(fs, inode)
           THEN UnlockTarget(p, lock, [tx[p] EXCEPT !.pc = "failed",
                                                    !.result = "InodeDoesNotExist"])
           ELSE Send(p, LinkRequest("RemoveLink", p, tx[p].op.parent, tx[p].op.name, NoLockId,
                                    inode, fs.attrs[inode].uid),
                     [tx[p] EXCEPT !.pc = "removed", !.locks = {lock}])

\* getattrs of the locked inode, then RemoveLink
RemoveTarget(p) ==
    LET inode == tx[p].inode
        lock  == <<inode, reply[p].id>>
    IN  /\ At(p, {"unlink", "rmdir"}, "locked")
        /\ Succeeds(p)
        /\ CASE ~Exists(fs, inode) ->
                    UnlockTarget(p, lock, [tx[p] EXCEPT !.pc = "failed",
                                                        !.result = "InodeDoesNotExist"])
             [] /\ Exists(fs, inode)
                /\ tx[p].op.type = "rmdir"
                /\ DirectoryEntries(fs, inode) > 0 ->
                    UnlockTarget(p, lock, [tx[p] EXCEPT !.pc = "failed", !.result = "NotEmpty"])
             [] OTHER ->
                    Send(p, LinkRequest("RemoveLink", p, tx[p].op.parent, tx[p].op.name,
                                        NoLockId, inode, fs.attrs[inode].uid),
                         [tx[p] EXCEPT !.pc = "removed", !.locks = {lock}])

TargetRemoved(p) ==
    LET next == CASE ~Succeeds(p) -> [tx[p] EXCEPT !.pc = "failed", !.result = reply[p].status]
                  [] Succeeds(p) /\ ~reply[p].complete ->
                        [tx[p] EXCEPT !.pc = "look", !.inode = reply[p].id]
                  [] OTHER -> [tx[p] EXCEPT !.pc = "gone", !.inode = reply[p].id]
    IN  /\ At(p, {"unlink", "rmdir"}, "removed")
        /\ \E lock \in tx[p].locks : UnlockTarget(p, lock, next)

RemovalFailed(p) == At(p, {"unlink", "rmdir"}, "failed") /\ Succeeds(p) /\ Finish(p, tx[p].result)

UnlinkDecrements(p) ==
    /\ At(p, {"unlink"}, "gone")
    /\ Succeeds(p)
    /\ Send(p, DecrementRequest(p, tx[p].inode, 1, NoLockId), [tx[p] EXCEPT !.pc = "last"])

\* The inode is not locked any more when its links are counted and given up.
RmdirCounts(p) ==
    /\ At(p, {"rmdir"}, "gone")
    /\ Succeeds(p)
    /\ CASE ~Exists(fs, tx[p].inode) -> Finish(p, "InodeDoesNotExist")
         [] Exists(fs, tx[p].inode) /\ fs.attrs[tx[p].inode].hardlinks # 2 ->
                Panic(p, "RmdirLinkCount")
         [] OTHER -> Local(p, [tx[p] EXCEPT !.pc = "counted"])

RmdirDecrements(p) ==
    /\ At(p, {"rmdir"}, "counted")
    /\ Send(p, DecrementRequest(p, tx[p].inode, 2, NoLockId), [tx[p] EXCEPT !.pc = "last"])

\* The reply to the last request of create, hardlink, unlink and rmdir.
LastReply(p) ==
    /\ At(p, {"create", "hardlink", "unlink", "rmdir"}, "last")
    /\ Finish(p, IF Succeeds(p) THEN tx[p].result ELSE reply[p].status)

------------------------------------------------------------------------------
(***************************************************************************)
(* rename_transaction. It locks both directories, the inode and the inode  *)
(* that the new name has, in this order, and unlocks them in the order of  *)
(* a hash set whatever happens in between.                                 *)
(***************************************************************************)
RenameBegins(p) ==
    /\ At(p, {"rename"}, "begin")
    /\ Send(p, Request("Lock", p, tx[p].op.parent, NoLockId),
            [tx[p] EXCEPT !.pc = "parent_locked"])

\* The locks with the one that the reply grants.
Holding(p, inode) == tx[p].locks \cup {<<inode, reply[p].id>>}

\* The id of the lock that the transaction has on the inode.
LockId(held, inode) == (CHOOSE lock \in held : lock[1] = inode)[2]

\* The result is known; the unlock loop begins, or goes on.
Release(p, held, status) ==
    \/ held = {} /\ Finish(p, status)
    \/ \E lock \in held :
        Send(p, Request("Unlock", p, lock[1], lock[2]),
             [tx[p] EXCEPT !.pc = "unlocking", !.result = status, !.locks = held \ {lock}])

\* An error ends the transaction but for the locks that it has.
ReleaseIfError(p) ==
    \E pc \in {"parent_locked", "new_parent_locked", "inode_locked", "dest_locked", "replaced",
               "linked", "old_removed", "reparented"} :
        At(p, {"rename"}, pc) /\ ~Succeeds(p) /\ Release(p, tx[p].locks, reply[p].status)

\* The error of lookup(dir, name), "Ok" when it finds an inode.
LookupStatus(dir, name) ==
    CASE ~Exists(fs, dir)                                      -> "InodeDoesNotExist"
      [] Exists(fs, dir) /\ fs.entries[<<dir, name>>] = NoInode    -> "DoesNotExist"
      [] OTHER                                                 -> "Ok"

\* lookup(parent, name), then the lock on what it finds
LockSource(p, held) ==
    LET op == tx[p].op
        inode == fs.entries[<<op.parent, op.name>>]
    IN  IF LookupStatus(op.parent, op.name) # "Ok"
        THEN Release(p, held, LookupStatus(op.parent, op.name))
        ELSE Send(p, Request("Lock", p, inode, NoLockId),
                  [tx[p] EXCEPT !.pc = "inode_locked", !.locks = held, !.inode = inode])

ParentLocked(p) ==
    LET op == tx[p].op
        held == Holding(p, op.parent)
    IN  /\ At(p, {"rename"}, "parent_locked")
        /\ Succeeds(p)
        /\ IF op.parent # op.new_parent
           THEN Send(p, Request("Lock", p, op.new_parent, NoLockId),
                     [tx[p] EXCEPT !.pc = "new_parent_locked", !.locks = held])
           ELSE LockSource(p, held)

NewParentLocked(p) ==
    /\ At(p, {"rename"}, "new_parent_locked")
    /\ Succeeds(p)
    /\ LockSource(p, Holding(p, tx[p].op.new_parent))

\* Sticky: only the owner of the directory or of the entry may take the entry out.
StickyAllows(dir, attrs, uid) == dir.sticky => uid \in {0, dir.uid, attrs.uid}

\* rename_check_access
RenameCheckAccess(op, dir, new_dir, attrs, dest_attrs, dest_entries) ==
    IF \/ ~CheckAccess(dir, op.uid)
       \/ ~StickyAllows(dir, attrs, op.uid)
       \/ ~CheckAccess(new_dir, op.uid)
       \/ dest_attrs # NoAttrs /\ ~StickyAllows(new_dir, dest_attrs, op.uid)
    THEN "AccessDenied"
    ELSE IF dest_entries > 0
    THEN "NotEmpty"
    ELSE IF attrs.kind = "Directory" /\ op.parent # op.new_parent /\ ~CheckAccess(attrs, op.uid)
    THEN "AccessDenied"
    ELSE "Ok"

\* getattrs of everything, the checks, then the link under the new name
LinkNewName(p, held, dest) ==
    LET op    == tx[p].op
        inode == tx[p].inode
        used  == {op.parent, op.new_parent, inode} \cup ({dest} \ {NoInode})
        attrs == fs.attrs[inode]
        dest_attrs == IF dest = NoInode THEN NoAttrs ELSE fs.attrs[dest]
        access == RenameCheckAccess(op, fs.attrs[op.parent], fs.attrs[op.new_parent],
                                    attrs, dest_attrs,
                                    IF dest = NoInode THEN 0 ELSE DirectoryEntries(fs, dest))
        next  == [tx[p] EXCEPT !.locks = held, !.dest = dest, !.attrs = attrs,
                               !.dest_attrs = dest_attrs]
        link(type) == LinkRequest(type, p, op.new_parent, op.new_name,
                                  LockId(held, op.new_parent), inode, 0)
    IN  CASE \E i \in used : ~Exists(fs, i) -> Release(p, held, "InodeDoesNotExist")
          [] (\A i \in used : Exists(fs, i)) /\ access # "Ok" -> Release(p, held, access)
          [] (\A i \in used : Exists(fs, i)) /\ access = "Ok" ->
                IF dest = NoInode
                THEN Send(p, link("CreateLink"), [next EXCEPT !.pc = "linked"])
                ELSE Send(p, link("ReplaceLink"), [next EXCEPT !.pc = "replaced"])

\* lookup(new_parent, new_name), then the lock on what it finds
InodeLocked(p) ==
    LET op   == tx[p].op
        held == Holding(p, tx[p].inode)
        dest == fs.entries[<<op.new_parent, op.new_name>>]
    IN  /\ At(p, {"rename"}, "inode_locked")
        /\ Succeeds(p)
        /\ CASE LookupStatus(op.new_parent, op.new_name) = "InodeDoesNotExist" ->
                    Release(p, held, "InodeDoesNotExist")
             [] LookupStatus(op.new_parent, op.new_name) = "DoesNotExist" ->
                    LinkNewName(p, held, NoInode)
             [] OTHER ->
                    Send(p, Request("Lock", p, dest, NoLockId),
                         [tx[p] EXCEPT !.pc = "dest_locked", !.locks = held, !.dest = dest])

DestLocked(p) ==
    /\ At(p, {"rename"}, "dest_locked")
    /\ Succeeds(p)
    /\ LinkNewName(p, Holding(p, tx[p].dest), tx[p].dest)

\* The inode that had the new name loses this link, under its lock.
Replaced(p) ==
    LET directory == tx[p].dest_attrs.kind = "Directory"
    IN  /\ At(p, {"rename"}, "replaced")
        /\ Succeeds(p)
        /\ IF reply[p].id # tx[p].dest
           THEN Panic(p, "RenameOldInode")
           ELSE IF directory /\ tx[p].dest_attrs.hardlinks # 2
           THEN Panic(p, "RenameLinkCount")
           ELSE Send(p, DecrementRequest(p, tx[p].dest, IF directory THEN 2 ELSE 1,
                                         LockId(tx[p].locks, tx[p].dest)),
                     [tx[p] EXCEPT !.pc = "dest_decremented"])

RemoveOldName(p) ==
    Send(p, LinkRequest("RemoveLink", p, tx[p].op.parent, tx[p].op.name,
                        LockId(tx[p].locks, tx[p].op.parent), tx[p].inode, tx[p].attrs.uid),
         [tx[p] EXCEPT !.pc = "old_removed"])

\* A request that got lost ends the coordinator's task here ("Leaked inode"),
\* and so does an Unlock that got lost. That is no panic of a server.
DestDecremented(p) ==
    /\ At(p, {"rename"}, "dest_decremented")
    /\ CASE Succeeds(p)                         -> RemoveOldName(p)
         [] reply[p].status = "Uncategorized"   -> Stop(p)
         [] OTHER                               -> Panic(p, "LeakedInode")

Linked(p) == At(p, {"rename"}, "linked") /\ Succeeds(p) /\ RemoveOldName(p)

Touch(p) ==
    Send(p, Request("UpdateMetadataChangedTime", p, tx[p].inode,
                    LockId(tx[p].locks, tx[p].inode)),
         [tx[p] EXCEPT !.pc = "touched"])

\* The reply's inode and complete flag are not looked at.
OldRemoved(p) ==
    /\ At(p, {"rename"}, "old_removed")
    /\ Succeeds(p)
    /\ IF tx[p].attrs.kind = "Directory"
       THEN Send(p, ParentRequest(p, tx[p].inode, LockId(tx[p].locks, tx[p].inode),
                                  tx[p].op.new_parent),
                 [tx[p] EXCEPT !.pc = "reparented"])
       ELSE Touch(p)

Reparented(p) == At(p, {"rename"}, "reparented") /\ Succeeds(p) /\ Touch(p)

Touched(p) == At(p, {"rename"}, "touched") /\ Release(p, tx[p].locks, reply[p].status)

Unlocking(p) ==
    /\ At(p, {"rename"}, "unlocking")
    /\ IF Succeeds(p) THEN Release(p, tx[p].locks, tx[p].result) ELSE Stop(p)

------------------------------------------------------------------------------
\* A bug to compare with: an error of getattrs returns without unlocking.
ReadOfTargetFailsKeepsLock(p) ==
    /\ At(p, {"unlink", "rmdir"}, "locked")
    /\ Succeeds(p)
    /\ LoseRead(p, "GetAttr", [tx[p] EXCEPT !.pc = "failed"])

\* getattrs fails under the lock, which is given back as after a RemoveLink that
\* failed.
ReadOfTargetFails(p) ==
    /\ At(p, {"unlink", "rmdir"}, "locked")
    /\ Succeeds(p)
    /\ LoseRead(p, "GetAttr", [tx[p] EXCEPT !.pc = "removed",
                                            !.locks = {<<tx[p].inode, reply[p].id>>}])

\* rmdir ends when its lookup fails, and also when the getattrs fails with which
\* it counts the links of what it has unlinked.
ReadOfRmdirFails(p) ==
    /\ Succeeds(p)
    /\ \/ At(p, {"rmdir"}, "begin") /\ LoseRead(p, "Lookup", [tx[p] EXCEPT !.pc = "failed"])
       \/ At(p, {"rmdir"}, "gone") /\ LoseRead(p, "CountLinks", [tx[p] EXCEPT !.pc = "failed"])

\* A lookup or a getattrs of rename fails: it keeps the lock that it just got,
\* for ReleaseIfError. Without a second directory to lock, the lookup follows
\* the lock of the first.
ReadOfRenameFails(p) ==
    LET fails(pc, inode) == LoseRead(p, "Lookup", [tx[p] EXCEPT !.pc = pc,
                                                                !.locks = Holding(p, inode)])
    IN  /\ Succeeds(p)
        /\ \/ /\ At(p, {"rename"}, "parent_locked")
              /\ tx[p].op.parent = tx[p].op.new_parent
              /\ fails("new_parent_locked", tx[p].op.parent)
           \/ At(p, {"rename"}, "new_parent_locked") /\ fails("new_parent_locked", tx[p].op.new_parent)
           \/ At(p, {"rename"}, "inode_locked") /\ fails("inode_locked", tx[p].inode)
           \/ At(p, {"rename"}, "dest_locked") /\ fails("dest_locked", tx[p].dest)

------------------------------------------------------------------------------
\* The machine of the coordinator stops.
Crash(p) ==
    /\ tx[p].pc \notin {"idle", "done"}
    /\ ~tx[p].crashed
    /\ panics = {}
    /\ Faults < workload.faults
    /\ Stop(p)

Finished(p) == tx[p].pc \in {"idle", "done"}

Step(p) ==
    \/ CreateBegins(p) \/ CreateLinks(p) \/ CreateEnds(p)
    \/ HardlinkBegins(p) \/ HardlinkLinks(p) \/ HardlinkEnds(p)
    \/ UnlinkBegins(p) \/ UnlinkTried(p) \/ UnlinkDecrements(p)
    \/ RmdirBegins(p) \/ RmdirCounts(p) \/ RmdirDecrements(p)
    \/ LockTarget(p) \/ RemoveTarget(p) \/ TargetRemoved(p) \/ RemovalFailed(p)
    \/ GiveUp(p) \/ LastReply(p) \/ ReleaseIfError(p)
    \/ RenameBegins(p) \/ ParentLocked(p) \/ NewParentLocked(p) \/ InodeLocked(p)
    \/ DestLocked(p) \/ Replaced(p) \/ DestDecremented(p) \/ Linked(p) \/ OldRemoved(p)
    \/ Reparented(p) \/ Touched(p) \/ Unlocking(p)
    \/ ReadOfTargetFails(p) \/ ReadOfRmdirFails(p) \/ ReadOfRenameFails(p)
==============================================================================
