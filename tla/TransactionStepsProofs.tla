------------------------ MODULE TransactionStepsProofs ------------------------
(***************************************************************************)
(* Every step of a transaction is one of the moves that keep the           *)
(* invariant: the state that it goes on to fits the request that it makes  *)
(* (TransactionsInvariant).                                                *)
(***************************************************************************)
EXTENDS TransactionSteps, TransactionsInvariant, TLAPS

------------------------------------------------------------------------------
(***************************************************************************)
(* The state of a transaction, and the moves                               *)
(***************************************************************************)
\* Every inode has a group.
LEMMA GroupOfInode ==
    ASSUME NEW i \in Nat
    PROVE  GroupOf(i) \in Groups
    BY TransactionsAssumption DEF GroupOf, Groups

\* The fields of a transaction
LEMMA FieldsOfTransaction ==
    ASSUME NEW t \in Transaction
    PROVE  /\ t.op \in Operations \cup {[type |-> "none"]} /\ t.pc \in Pcs
           /\ t.inode \in Inodes \cup {NoInode} /\ t.dest \in Inodes \cup {NoInode}
           /\ t.attrs \in Attributes \cup {NoAttrs} /\ t.dest_attrs \in Attributes \cup {NoAttrs}
           /\ t.locks \in SUBSET (Inodes \X Nat) /\ t.result \in Statuses /\ t.crashed \in BOOLEAN
    BY DEF Transaction

\* The fields of an operation
LEMMA FieldsOfOperation ==
    ASSUME NEW op \in Operations
    PROVE  /\ op.type \in {"create", "hardlink", "unlink", "rmdir", "rename"}
           /\ op.parent \in Inodes /\ op.name \in Names /\ op.uid \in Nat
           /\ op.type = "create" => op.kind \in Kinds /\ op.mode \in Modes
           /\ op.type = "hardlink" => op.inode \in Inodes
           /\ op.type = "rename" => op.new_parent \in Inodes /\ op.new_name \in Names
    BY Zenon DEF Operations

\* A transaction that asks for a lock asks for the lock on an inode.
LEMMA AskedInode ==
    ASSUME NEW t \in Transaction, Shape(t), t.pc \in AskPcs
    PROVE  Asked(t) \in Inodes
<1>1. t.op \in Operations /\ (t.pc # "locked" => t.op.type = "rename")
    BY DEF Shape, AskPcs, RenamePcs
<1>2. t.op.parent \in Inodes /\ (t.pc # "locked" => t.op.new_parent \in Inodes)
    BY <1>1, FieldsOfOperation
<1> QED
    BY <1>2 DEF Asked, Shape, AskPcs

\* What a transaction owns are locks on inodes.
LEMMA OwnedLocks ==
    ASSUME Types, NEW p \in Procs
    PROVE  OwnOf(tx[p], reply[p]) \subseteq Inodes \X Nat
<1>1. tx[p] \in Transaction /\ Shape(tx[p]) /\ Answered(tx[p], reply[p])
    BY DEF Types
<1>2. tx[p].pc \in AskPcs /\ reply[p].status = "Ok"
        => Asked(tx[p]) \in Inodes /\ reply[p].id \in Nat
    BY <1>1, AskedInode DEF Answered
<1>3. tx[p].locks \subseteq Inodes \X Nat
    BY <1>1, FieldsOfTransaction
<1> QED
    BY <1>2, <1>3 DEF OwnOf

\* A request of a transaction is a move when what the transaction knows
\* afterwards follows from the outcome.
LEMMA SendMoves ==
    ASSUME NEW p, NEW req, NEW next, reply[p] # Waiting,
           Proper(p, req, next), Send(p, req, next),
           next.op.type = "rename" /\ Outcome(p, req, next) => Renaming(next, reply'[p], fs'),
           req.type \in {"ReplaceLink", "UpdateParent"} /\ Effect(fs, req, CommitWrite(fs, req))
                => CommitWrite(fs, req).reply.status \notin Guarded
    PROVE  Move(p)
<1>1. SendMove(p, req, next)
    BY DEF SendMove
<1> QED
    BY <1>1 DEF Move

\* A step of the transaction alone is one that keeps to the locks it owns.
LEMMA LocalMoves ==
    ASSUME NEW p, NEW next \in Transaction, reply[p] # Waiting,
           Shape(next), next.pc \notin AskPcs \cup {"tried", "removed", "inode_created", "idle"},
           next.locks \subseteq OwnOf(tx[p], reply[p]), Local(p, next),
           next.op.type = "rename" => Renaming(next, reply[p], fs)
    PROVE  Move(p)
<1>1. LocalMove(p, next)
    BY DEF LocalMove
<1> QED
    BY <1>1 DEF Move

\* So is a read that fails.
LEMMA FailMoves ==
    ASSUME NEW p, NEW read, NEW next \in Transaction, reply[p] # Waiting,
           Shape(next), next.locks \subseteq OwnOf(tx[p], reply[p]), LoseRead(p, read, next),
           next.op.type = "rename" => Renaming(next, Failure, fs)
    PROVE  Move(p)
<1>1. FailMove(p, read, next)
    BY DEF FailMove
<1> QED
    BY <1>1 DEF Move

\* So is an assertion that the locks do not guard.
LEMMA PanicMoves ==
    ASSUME NEW p, NEW assertion, assertion \notin Guarded, Panic(p, assertion)
    PROVE  Move(p)
<1>1. PanicMove(p, assertion)
    BY DEF PanicMove
<1> QED
    BY <1>1 DEF Move

------------------------------------------------------------------------------
(***************************************************************************)
(* The requests that the transactions send                                 *)
(***************************************************************************)
\* The lock ids that a request can name
LEMMA SomeIds ==
    NoLockId \in Ids /\ Nat \subseteq Ids
    BY Zenon DEF Ids

\* Lock, Unlock and the requests that name nothing but an inode
LEMMA RequestIs ==
    ASSUME NEW p \in Procs, NEW inode \in Inodes, NEW lock_id \in Ids,
           NEW type \in {"Lock", "Unlock", "HardlinkIncrement", "HardlinkRollback",
                         "UpdateMetadataChangedTime"}
    PROVE  Request(type, p, inode, lock_id) \in Requests
<1>1. GroupOf(inode) \in Groups
    BY GroupOfInode, TransactionsAssumption, Zenon
<1> QED
    BY <1>1 DEF Request, Requests

\* The requests about a link
LEMMA LinkRequestIs ==
    ASSUME NEW p \in Procs, NEW dir \in Inodes, NEW name \in Names, NEW lock_id \in Ids,
           NEW link \in Inodes, NEW link_uid \in Nat, tx[p].op \in Operations,
           NEW type \in {"CreateLink", "ReplaceLink"}
    PROVE  LinkRequest(type, p, dir, name, lock_id, link, link_uid) \in Requests
<1>1. GroupOf(dir) \in Groups
    BY GroupOfInode, TransactionsAssumption
<1>2. tx[p].op.uid \in Nat
    BY FieldsOfOperation, Zenon
<1> QED
    BY <1>1, <1>2 DEF LinkRequest, Requests

\* The request of remove_link is a request.
LEMMA RemoveRequestIs ==
    ASSUME NEW p \in Procs, NEW dir \in Inodes, NEW name \in Names, NEW lock_id \in Ids,
           NEW link, link \in Inodes \/ link = NoInode, NEW link_uid \in Nat, tx[p].op \in Operations
    PROVE  LinkRequest("RemoveLink", p, dir, name, lock_id, link, link_uid) \in Requests
<1>1. GroupOf(dir) \in Groups
    BY GroupOfInode, TransactionsAssumption, Zenon
<1>2. tx[p].op.uid \in Nat
    BY FieldsOfOperation
<1> QED
    BY <1>1, <1>2 DEF LinkRequest, Requests

\* The request of decrement_inode_link_count is a request.
LEMMA DecrementRequestIs ==
    ASSUME NEW p \in Procs, NEW inode \in Inodes, NEW lock_id \in Ids, NEW count \in Nat
    PROVE  DecrementRequest(p, inode, count, lock_id) \in Requests
<1>1. GroupOf(inode) \in Groups
    BY GroupOfInode, TransactionsAssumption, Zenon
<1> QED
    BY <1>1, Zenon DEF DecrementRequest, Requests

\* The request of update_parent is a request.
LEMMA ParentRequestIs ==
    ASSUME NEW p \in Procs, NEW inode \in Inodes, NEW lock_id \in Ids, NEW parent \in Inodes
    PROVE  ParentRequest(p, inode, lock_id, parent) \in Requests
<1>1. GroupOf(inode) \in Groups
    BY GroupOfInode, TransactionsAssumption, Zenon
<1> QED
    BY <1>1 DEF ParentRequest, Requests

\* The request of create_inode fits the metadata storage.
LEMMA CreateInodeRequestIs ==
    ASSUME NEW p \in Procs, NEW g \in Groups, tx[p].op \in Operations, tx[p].op.type = "create"
    PROVE  CreateInodeRequest(p, g) \in Creations
<1>1. /\ tx[p].op.parent \in Inodes /\ tx[p].op.uid \in Nat
      /\ tx[p].op.kind \in Kinds /\ tx[p].op.mode \in Modes
    BY FieldsOfOperation, Zenon
<1> QED
    BY <1>1, Zenon DEF CreateInodeRequest, Creations

------------------------------------------------------------------------------
(***************************************************************************)
(* create, hardlink, unlink and rmdir                                      *)
(***************************************************************************)
\* A transaction that is under way and has its reply
LEMMA AtIs ==
    ASSUME TxInv, NEW p \in Procs, NEW types, NEW pc, pc # "idle", At(p, types, pc)
    PROVE  /\ tx[p] \in Transaction /\ Shape(tx[p]) /\ tx[p].pc = pc
           /\ tx[p].op \in Operations /\ tx[p].op.type \in types
           /\ reply[p] \in Responses /\ reply[p] # Waiting /\ Answered(tx[p], reply[p])
           /\ tx[p].locks \subseteq OwnOf(tx[p], reply[p])
<1>1. tx[p] \in Transaction /\ Shape(tx[p]) /\ reply[p] \in Responses /\ Answered(tx[p], reply[p])
    BY DEF TxInv, Types
<1>2. tx[p].pc = pc /\ tx[p].op.type \in types /\ reply[p] # Waiting
    BY Zenon DEF At
<1> QED
    BY <1>1, <1>2 DEF Shape, OwnOf

\* A transaction returns; a rename has unlocked everything by then.
LEMMA FinishMoves ==
    ASSUME TxInv, NEW p \in Procs, reply[p] # Waiting, tx[p].pc # "idle",
           NEW status \in Statuses, Finish(p, status), tx[p].op.type = "rename" => tx[p].locks = {}
    PROVE  Move(p)
<1> DEFINE next == [tx[p] EXCEPT !.pc = "done", !.result = status]
<1>1. tx[p] \in Transaction /\ Shape(tx[p])
    BY DEF TxInv, Types
<1>2. /\ next \in Transaction /\ next.pc = "done"
      /\ next.op = tx[p].op /\ next.locks = tx[p].locks
    <2>1. "done" \in Pcs
        BY DEF Pcs
    <2> QED
        BY <1>1, <2>1, Zenon DEF Transaction
<1>3. Local(p, next)
    BY DEF Finish
<1> HIDE DEF next
<1>4. Shape(next)
    BY <1>1, <1>2, Zenon DEF Shape, RenamePcs, AskPcs
<1>5. next.op.type = "rename" => Renaming(next, reply[p], fs)
    BY <1>2, Zenon DEF Renaming, RenamePcs, AskPcs
<1>6. next.locks \subseteq OwnOf(tx[p], reply[p])
    BY <1>2 DEF OwnOf
<1>7. next.pc \notin AskPcs \cup {"tried", "removed", "inode_created"}
    BY <1>2 DEF AskPcs
<1> QED
    BY <1>2, <1>3, <1>4, <1>5, <1>6, <1>7, LocalMoves, Zenon

\* A reply that is an error ends the transaction.
LEMMA FinishIfErrorMoves ==
    ASSUME TxInv, NEW p \in Procs, NEW types, "rename" \notin types, NEW pc, pc # "idle",
           FinishIfError(p, types, pc)
    PROVE  Move(p)
<1>1. At(p, types, pc) /\ Finish(p, reply[p].status)
    BY Zenon DEF FinishIfError
<1>2. /\ reply[p] # Waiting /\ tx[p].pc # "idle" /\ tx[p].op.type # "rename"
      /\ reply[p] \in Responses
    BY <1>1, AtIs, Zenon
<1>3. reply[p].status \in Statuses
    BY <1>2, Zenon DEF Responses
<1> QED
    BY <1>1, <1>2, <1>3, FinishMoves, Zenon

\* The pcs of create, hardlink, unlink and rmdir
PlainPcs == Pcs \ (RenamePcs \cup {"idle"})

\* A request that names no lock, of a transaction that is no rename
LEMMA PlainMoves ==
    ASSUME TxInv, NEW p \in Procs, NEW req \in Requests, NEW next \in Transaction, reply[p] # Waiting,
           req.from = p, req.lock_id = NoLockId,
           req.type \notin {"Unlock", "ReplaceLink", "UpdateParent"},
           next.op \in Operations, next.op.type # "rename",
           next.pc \in PlainPcs \ {"inode_created"},
           next.pc \in {"link_created", "incremented", "look", "locked", "removed", "gone", "counted"}
                => next.inode \in Inodes,
           next.pc = "locked" <=> req.type = "Lock", req.type = "Lock" => req.inode = next.inode,
           next.pc \in {"tried", "removed"} => req.type = "RemoveLink",
           next.locks \subseteq OwnOf(tx[p], reply[p]), Send(p, req, next)
    PROVE  Move(p)
<1>1. Shape(next)
    BY Zenon DEF Shape, PlainPcs, RenamePcs, AskPcs
<1>2. (next.pc \in AskPcs <=> next.pc = "locked") /\ next.pc # "idle"
    BY DEF PlainPcs, RenamePcs, AskPcs
<1>3. next.pc = "locked" => Asked(next) = next.inode
    BY Zenon DEF Asked
<1>4. Proper(p, req, next)
    BY <1>1, <1>2, <1>3, Zenon DEF Proper
<1> QED
    BY <1>4, SendMoves, Zenon

\* The pcs of the transactions other than rename
LEMMA PlainPcsAre ==
    /\ PlainPcs = {"begin", "inode_created", "link_created", "incremented", "tried", "look",
                   "locked", "removed", "failed", "gone", "counted", "last", "done"}
    /\ PlainPcs \subseteq Pcs
    BY DEF PlainPcs, Pcs, RenamePcs, AskPcs

\* create_transaction
LEMMA CreateBeginsMoves ==
    ASSUME TxInv, NEW p \in Procs, CreateBegins(p)
    PROVE  Move(p)
<1> DEFINE next == [tx[p] EXCEPT !.pc = "inode_created"]
<1>1. /\ At(p, {"create"}, "begin")
      /\ \E g \in Groups : fs.next_inode[g] \in Inodes /\ Send(p, CreateInodeRequest(p, g), next)
    BY DEF CreateBegins
<1>2. PICK g \in Groups : fs.next_inode[g] \in Inodes /\ Send(p, CreateInodeRequest(p, g), next)
    BY <1>1, Zenon
<1>3. /\ tx[p] \in Transaction /\ Shape(tx[p]) /\ tx[p].op \in Operations /\ tx[p].op.type = "create"
      /\ reply[p] # Waiting /\ tx[p].locks \subseteq OwnOf(tx[p], reply[p])
    BY <1>1, AtIs
<1>4. next \in Transaction /\ next.pc = "inode_created" /\ next.op = tx[p].op /\ next.locks = tx[p].locks
    BY <1>3, PlainPcsAre, Zenon DEF Transaction
<1> HIDE DEF next
<1>5. Shape(next)
    BY <1>3, <1>4 DEF Shape, RenamePcs, AskPcs
<1>6. /\ CreateInodeRequest(p, g) \in Creations /\ CreateInodeRequest(p, g).from = p
      /\ CreateInodeRequest(p, g).group = g
    <2>1. CreateInodeRequest(p, g) \in Creations
        BY <1>3, CreateInodeRequestIs, Zenon
    <2> QED
        BY <2>1, Zenon DEF CreateInodeRequest
<1> QED
    BY <1>2, <1>3, <1>4, <1>5, <1>6 DEF CreateMove, Move

\* create_transaction: create_inode has answered.
LEMMA CreateLinksMoves ==
    ASSUME TxInv, NEW p \in Procs, CreateLinks(p)
    PROVE  Move(p)
<1> DEFINE next == [tx[p] EXCEPT !.pc = "link_created", !.inode = reply[p].id]
           req == LinkRequest("CreateLink", p, tx[p].op.parent, tx[p].op.name, NoLockId,
                              reply[p].id, 0)
<1>1. CASE FinishIfError(p, {"create"}, "inode_created")
    BY <1>1, FinishIfErrorMoves, Zenon
<1>2. CASE At(p, {"create"}, "inode_created") /\ Succeeds(p) /\ Send(p, req, next)
    <2>1. /\ tx[p] \in Transaction /\ tx[p].op \in Operations /\ tx[p].op.type = "create"
          /\ reply[p] # Waiting /\ tx[p].locks \subseteq OwnOf(tx[p], reply[p])
          /\ Answered(tx[p], reply[p]) /\ tx[p].pc = "inode_created"
        BY <1>2, AtIs
    <2>2. reply[p].id \in Inodes
        BY <1>2, <2>1 DEF Answered, Succeeds
    <2>3. /\ next \in Transaction /\ next.pc = "link_created" /\ next.op = tx[p].op
          /\ next.inode = reply[p].id /\ next.locks = tx[p].locks
        BY <2>1, <2>2, PlainPcsAre, Zenon DEF Transaction
    <2>4. req \in Requests /\ req.type = "CreateLink" /\ req.from = p /\ req.lock_id = NoLockId
        <3>1. tx[p].op.parent \in Inodes /\ tx[p].op.name \in Names
            BY <2>1, FieldsOfOperation
        <3>2. req \in Requests
            BY <2>1, <2>2, <3>1, SomeIds, LinkRequestIs, Zenon
        <3> QED
            BY <3>2, Zenon DEF LinkRequest
    <2> HIDE DEF next, req
    <2> QED
        BY <1>2, <2>1, <2>2, <2>3, <2>4, PlainPcsAre, PlainMoves, Zenon
<1> QED
    BY <1>1, <1>2 DEF CreateLinks

\* create_transaction: create_link has answered, and an error takes the inode
\* back.
LEMMA CreateEndsMoves ==
    ASSUME TxInv, NEW p \in Procs, CreateEnds(p)
    PROVE  Move(p)
<1> DEFINE next == [tx[p] EXCEPT !.pc = "last", !.result = reply[p].status]
           count == IF tx[p].op.kind = "Directory" THEN 2 ELSE 1
           req == DecrementRequest(p, tx[p].inode, count, NoLockId)
<1>1. At(p, {"create"}, "link_created")
    BY Zenon DEF CreateEnds
<1>2. /\ tx[p] \in Transaction /\ tx[p].op \in Operations /\ tx[p].op.type = "create"
      /\ reply[p] # Waiting /\ tx[p].locks \subseteq OwnOf(tx[p], reply[p])
      /\ Shape(tx[p]) /\ tx[p].pc = "link_created" /\ reply[p] \in Responses
    BY <1>1, AtIs
<1>3. CASE Finish(p, "Ok")
    <2>1. "Ok" \in Statuses
        BY Zenon DEF Statuses
    <2> QED
        BY <1>2, <1>3, <2>1, FinishMoves
<1>4. CASE Send(p, req, next)
    <2>1. tx[p].inode \in Inodes /\ reply[p].status \in Statuses /\ count \in Nat
        BY <1>2 DEF Shape, Responses
    <2>2. /\ next \in Transaction /\ next.pc = "last" /\ next.op = tx[p].op
          /\ next.locks = tx[p].locks
        BY <1>2, <2>1, PlainPcsAre, Zenon DEF Transaction
    <2> HIDE DEF count
    <2>3. req \in Requests /\ req.type = "DecrementInode" /\ req.from = p /\ req.lock_id = NoLockId
        <3>1. req \in Requests
            BY <2>1, SomeIds, DecrementRequestIs, Zenon
        <3> QED
            BY <3>1, Zenon DEF DecrementRequest
    <2> HIDE DEF next, req
    <2> QED
        BY <1>2, <1>4, <2>2, <2>3, PlainPcsAre, PlainMoves, Zenon
<1> QED
    BY <1>3, <1>4 DEF CreateEnds

\* hardlink_transaction
LEMMA HardlinkBeginsMoves ==
    ASSUME TxInv, NEW p \in Procs, HardlinkBegins(p)
    PROVE  Move(p)
<1> DEFINE next == [tx[p] EXCEPT !.pc = "incremented", !.inode = tx[p].op.inode]
           req == Request("HardlinkIncrement", p, tx[p].op.inode, NoLockId)
<1>1. At(p, {"hardlink"}, "begin") /\ Send(p, req, next)
    BY DEF HardlinkBegins
<1>2. /\ tx[p] \in Transaction /\ tx[p].op \in Operations /\ tx[p].op.type = "hardlink"
      /\ reply[p] # Waiting /\ tx[p].locks \subseteq OwnOf(tx[p], reply[p])
    BY <1>1, AtIs
<1>3. tx[p].op.inode \in Inodes
    BY <1>2, FieldsOfOperation, Zenon
<1>4. /\ next \in Transaction /\ next.pc = "incremented" /\ next.op = tx[p].op
      /\ next.inode = tx[p].op.inode /\ next.locks = tx[p].locks
    BY <1>2, <1>3, PlainPcsAre, Zenon DEF Transaction
<1>5. req \in Requests /\ req.type = "HardlinkIncrement" /\ req.from = p /\ req.lock_id = NoLockId
    <2>1. req \in Requests
        BY <1>3, SomeIds, RequestIs, Zenon
    <2> QED
        BY <2>1, Zenon DEF Request
<1> HIDE DEF next, req
<1> QED
    BY <1>1, <1>2, <1>3, <1>4, <1>5, PlainPcsAre, PlainMoves, Zenon

\* hardlink_transaction: the link count is up.
LEMMA HardlinkLinksMoves ==
    ASSUME TxInv, NEW p \in Procs, HardlinkLinks(p)
    PROVE  Move(p)
<1> DEFINE next == [tx[p] EXCEPT !.pc = "link_created"]
           req == LinkRequest("CreateLink", p, tx[p].op.parent, tx[p].op.name, NoLockId,
                              tx[p].inode, 0)
<1>1. CASE FinishIfError(p, {"hardlink"}, "incremented")
    BY <1>1, FinishIfErrorMoves, Zenon
<1>2. CASE At(p, {"hardlink"}, "incremented") /\ Succeeds(p) /\ Send(p, req, next)
    <2>1. /\ tx[p] \in Transaction /\ tx[p].op \in Operations /\ tx[p].op.type = "hardlink"
          /\ reply[p] # Waiting /\ tx[p].locks \subseteq OwnOf(tx[p], reply[p])
          /\ Shape(tx[p]) /\ tx[p].pc = "incremented"
        BY <1>2, AtIs
    <2>2. tx[p].inode \in Inodes
        BY <2>1, Zenon DEF Shape
    <2>3. /\ next \in Transaction /\ next.pc = "link_created" /\ next.op = tx[p].op
          /\ next.inode = tx[p].inode /\ next.locks = tx[p].locks
        BY <2>1, <2>2, PlainPcsAre DEF Transaction
    <2>4. req \in Requests /\ req.type = "CreateLink" /\ req.from = p /\ req.lock_id = NoLockId
        <3>1. tx[p].op.parent \in Inodes /\ tx[p].op.name \in Names
            BY <2>1, FieldsOfOperation
        <3>2. req \in Requests
            BY <2>1, <2>2, <3>1, SomeIds, LinkRequestIs, Zenon
        <3> QED
            BY <3>2, Zenon DEF LinkRequest
    <2> HIDE DEF next, req
    <2> QED
        BY <1>2, <2>1, <2>2, <2>3, <2>4, PlainPcsAre, PlainMoves, Zenon
<1> QED
    BY <1>1, <1>2 DEF HardlinkLinks

\* hardlink_transaction: create_link has answered, and an error takes the
\* count back.
LEMMA HardlinkEndsMoves ==
    ASSUME TxInv, NEW p \in Procs, HardlinkEnds(p)
    PROVE  Move(p)
<1> DEFINE next == [tx[p] EXCEPT !.pc = "last", !.result = reply[p].status]
           req == Request("HardlinkRollback", p, tx[p].inode, NoLockId)
<1>1. At(p, {"hardlink"}, "link_created")
    BY Zenon DEF HardlinkEnds
<1>2. /\ tx[p] \in Transaction /\ tx[p].op \in Operations /\ tx[p].op.type = "hardlink"
      /\ reply[p] # Waiting /\ tx[p].locks \subseteq OwnOf(tx[p], reply[p])
      /\ Shape(tx[p]) /\ tx[p].pc = "link_created" /\ reply[p] \in Responses
    BY <1>1, AtIs
<1>3. CASE Finish(p, "Ok")
    <2>1. "Ok" \in Statuses
        BY DEF Statuses
    <2> QED
        BY <1>2, <1>3, <2>1, FinishMoves, Zenon
<1>4. CASE Send(p, req, next)
    <2>1. tx[p].inode \in Inodes /\ reply[p].status \in Statuses
        BY <1>2 DEF Shape, Responses
    <2>2. /\ next \in Transaction /\ next.pc = "last" /\ next.op = tx[p].op
          /\ next.locks = tx[p].locks
        BY <1>2, <2>1, PlainPcsAre, Zenon DEF Transaction
    <2>3. req \in Requests /\ req.type = "HardlinkRollback" /\ req.from = p /\ req.lock_id = NoLockId
        <3>1. req \in Requests
            BY <2>1, SomeIds, RequestIs, Zenon
        <3> QED
            BY <3>1, Zenon DEF Request
    <2> HIDE DEF next, req
    <2> QED
        BY <1>2, <1>4, <2>2, <2>3, PlainPcsAre, PlainMoves, Zenon
<1> QED
    BY <1>3, <1>4 DEF HardlinkEnds

\* unlink_transaction
LEMMA UnlinkBeginsMoves ==
    ASSUME TxInv, NEW p \in Procs, UnlinkBegins(p)
    PROVE  Move(p)
<1> DEFINE next == [tx[p] EXCEPT !.pc = "tried"]
           req == LinkRequest("RemoveLink", p, tx[p].op.parent, tx[p].op.name, NoLockId, NoInode, 0)
<1>1. At(p, {"unlink"}, "begin") /\ Send(p, req, next)
    BY Zenon DEF UnlinkBegins
<1>2. /\ tx[p] \in Transaction /\ tx[p].op \in Operations /\ tx[p].op.type = "unlink"
      /\ reply[p] # Waiting /\ tx[p].locks \subseteq OwnOf(tx[p], reply[p])
    BY <1>1, AtIs
<1>3. next \in Transaction /\ next.pc = "tried" /\ next.op = tx[p].op /\ next.locks = tx[p].locks
    BY <1>2, PlainPcsAre DEF Transaction
<1>4. req \in Requests /\ req.type = "RemoveLink" /\ req.from = p /\ req.lock_id = NoLockId
    <2>1. tx[p].op.parent \in Inodes /\ tx[p].op.name \in Names
        BY <1>2, FieldsOfOperation, Zenon
    <2>2. NoLockId \in Ids /\ tx[p].op \in Operations
        BY <1>2, SomeIds, Zenon
    <2>3. req \in Requests
        BY <2>1, <2>2, RemoveRequestIs, Zenon
    <2> QED
        BY <2>3, Zenon DEF LinkRequest
<1> HIDE DEF next, req
<1> QED
    BY <1>1, <1>2, <1>3, <1>4, PlainPcsAre, PlainMoves, Zenon

\* unlink_transaction: the answer to remove_link without a lock
LEMMA UnlinkTriedMoves ==
    ASSUME TxInv, NEW p \in Procs, UnlinkTried(p)
    PROVE  Move(p)
<1> DEFINE id == reply[p].id
           last == [tx[p] EXCEPT !.pc = "last", !.inode = id]
           locked == [tx[p] EXCEPT !.pc = "locked", !.inode = id]
           decrement == DecrementRequest(p, id, 1, NoLockId)
           lock == Request("Lock", p, id, NoLockId)
<1>1. CASE FinishIfError(p, {"unlink"}, "tried")
    BY <1>1, FinishIfErrorMoves
<1>2. CASE /\ At(p, {"unlink"}, "tried") /\ Succeeds(p)
           /\ Send(p, decrement, last) \/ Send(p, lock, locked)
    <2>1. /\ tx[p] \in Transaction /\ tx[p].op \in Operations /\ tx[p].op.type = "unlink"
          /\ reply[p] # Waiting /\ tx[p].locks \subseteq OwnOf(tx[p], reply[p])
          /\ Answered(tx[p], reply[p]) /\ tx[p].pc = "tried"
        BY <1>2, AtIs
    <2>2. id \in Inodes
        BY <1>2, <2>1, Zenon DEF Answered, Succeeds
    <2>3. CASE Send(p, decrement, last)
        <3>1. last \in Transaction /\ last.pc = "last" /\ last.op = tx[p].op /\ last.locks = tx[p].locks
            BY <2>1, <2>2, PlainPcsAre, Zenon DEF Transaction
        <3>2. /\ decrement \in Requests /\ decrement.type = "DecrementInode"
              /\ decrement.from = p /\ decrement.lock_id = NoLockId
            <4>1. decrement \in Requests
                BY <2>2, SomeIds, DecrementRequestIs, Zenon
            <4> QED
                BY <4>1, Zenon DEF DecrementRequest
        <3> HIDE DEF last, decrement
        <3> QED
            BY <2>1, <2>3, <3>1, <3>2, PlainPcsAre, PlainMoves
    <2>4. CASE Send(p, lock, locked)
        <3>1. /\ locked \in Transaction /\ locked.pc = "locked" /\ locked.op = tx[p].op
              /\ locked.inode = id /\ locked.locks = tx[p].locks
            BY <2>1, <2>2, PlainPcsAre, Zenon DEF Transaction
        <3>2. /\ lock \in Requests /\ lock.type = "Lock" /\ lock.from = p /\ lock.inode = id
              /\ lock.lock_id = NoLockId
            <4>1. lock \in Requests
                BY <2>2, SomeIds, RequestIs, Zenon
            <4> QED
                BY <4>1, Zenon DEF Request
        <3> HIDE DEF locked, lock
        <3> QED
            BY <2>1, <2>2, <2>4, <3>1, <3>2, PlainPcsAre, PlainMoves
    <2> QED
        BY <1>2, <2>3, <2>4, Zenon
<1> QED
    BY <1>1, <1>2 DEF UnlinkTried

\* unlink_transaction: the link is gone and its inode loses a link.
LEMMA UnlinkDecrementsMoves ==
    ASSUME TxInv, NEW p \in Procs, UnlinkDecrements(p)
    PROVE  Move(p)
<1> DEFINE next == [tx[p] EXCEPT !.pc = "last"]
           req == DecrementRequest(p, tx[p].inode, 1, NoLockId)
<1>1. At(p, {"unlink"}, "gone") /\ Send(p, req, next)
    BY Zenon DEF UnlinkDecrements
<1>2. /\ tx[p] \in Transaction /\ tx[p].op \in Operations /\ tx[p].op.type = "unlink"
      /\ reply[p] # Waiting /\ tx[p].locks \subseteq OwnOf(tx[p], reply[p])
      /\ Shape(tx[p]) /\ tx[p].pc = "gone"
    BY <1>1, AtIs
<1>3. next \in Transaction /\ next.pc = "last" /\ next.op = tx[p].op /\ next.locks = tx[p].locks
    BY <1>2, PlainPcsAre DEF Transaction
<1>4. req \in Requests /\ req.type = "DecrementInode" /\ req.from = p /\ req.lock_id = NoLockId
    <2>1. tx[p].inode \in Inodes
        BY <1>2 DEF Shape
    <2>2. req \in Requests
        BY <2>1, SomeIds, DecrementRequestIs, Zenon
    <2> QED
        BY <2>2, Zenon DEF DecrementRequest
<1> HIDE DEF next, req
<1> QED
    BY <1>1, <1>2, <1>3, <1>4, PlainPcsAre, PlainMoves

\* A step of create, hardlink, unlink or rmdir alone
LEMMA PlainLocalMoves ==
    ASSUME TxInv, NEW p \in Procs, NEW next \in Transaction, reply[p] # Waiting,
           next.op \in Operations, next.op.type # "rename",
           next.pc \in PlainPcs \ {"locked", "tried", "removed", "inode_created"},
           next.inode \in Inodes, next.locks \subseteq OwnOf(tx[p], reply[p]), Local(p, next)
    PROVE  Move(p)
<1>1. Shape(next)
    BY DEF Shape, PlainPcs, RenamePcs, AskPcs
<1>2. next.pc \notin AskPcs \cup {"tried", "removed", "inode_created", "idle"}
    BY Zenon DEF PlainPcs, RenamePcs, AskPcs
<1> QED
    BY <1>1, <1>2, LocalMoves

\* rmdir_transaction
LEMMA RmdirBeginsMoves ==
    ASSUME TxInv, NEW p \in Procs, RmdirBegins(p)
    PROVE  Move(p)
<1> DEFINE inode == fs.entries[<<tx[p].op.parent, tx[p].op.name>>]
           next == [tx[p] EXCEPT !.pc = "look", !.inode = inode]
<1>1. At(p, {"rmdir"}, "begin")
    BY Zenon DEF RmdirBegins
<1>2. /\ tx[p] \in Transaction /\ tx[p].op \in Operations /\ tx[p].op.type = "rmdir"
      /\ reply[p] # Waiting /\ tx[p].locks \subseteq OwnOf(tx[p], reply[p]) /\ tx[p].pc = "begin"
    BY <1>1, AtIs
<1>3. CASE Finish(p, "InodeDoesNotExist") \/ Finish(p, "DoesNotExist")
    <2>1. "InodeDoesNotExist" \in Statuses /\ "DoesNotExist" \in Statuses
        BY Zenon DEF Statuses
    <2> QED
        BY <1>2, <1>3, <2>1, FinishMoves
<1>4. CASE inode # NoInode /\ Local(p, next)
    <2>1. inode \in Inodes
        <3>1. tx[p].op.parent \in Inodes /\ tx[p].op.name \in Names
            BY <1>2, FieldsOfOperation
        <3>2. fs.entries \in [Inodes \X Names -> Inodes \cup {NoInode}]
            BY DEF TxInv, Types, Consistent, FileSystems
        <3> QED
            BY <1>4, <3>1, <3>2, Zenon
    <2> HIDE DEF inode
    <2>2. /\ next \in Transaction /\ next.pc = "look" /\ next.op = tx[p].op
          /\ next.inode = inode /\ next.locks = tx[p].locks
        BY <1>2, <2>1, PlainPcsAre, Zenon DEF Transaction
    <2> HIDE DEF next
    <2> QED
        BY <1>2, <1>4, <2>1, <2>2, PlainPcsAre, PlainLocalMoves, Zenon
<1>5. \/ Finish(p, "InodeDoesNotExist") \/ Finish(p, "DoesNotExist")
      \/ inode # NoInode /\ Local(p, next)
    BY DEF RmdirBegins
<1> QED
    BY <1>3, <1>4, <1>5, Zenon

\* rmdir_transaction: the entries of the directory are counted.
LEMMA RmdirCountsMoves ==
    ASSUME TxInv, NEW p \in Procs, RmdirCounts(p)
    PROVE  Move(p)
<1> DEFINE next == [tx[p] EXCEPT !.pc = "counted"]
<1>1. At(p, {"rmdir"}, "gone")
    BY Zenon DEF RmdirCounts
<1>2. /\ tx[p] \in Transaction /\ tx[p].op \in Operations /\ tx[p].op.type = "rmdir"
      /\ reply[p] # Waiting /\ tx[p].locks \subseteq OwnOf(tx[p], reply[p]) /\ tx[p].pc = "gone"
      /\ Shape(tx[p])
    BY <1>1, AtIs
<1>3. CASE Finish(p, "InodeDoesNotExist")
    <2>1. "InodeDoesNotExist" \in Statuses
        BY DEF Statuses
    <2> QED
        BY <1>2, <1>3, <2>1, FinishMoves, Zenon
<1>4. CASE Panic(p, "RmdirLinkCount")
    <2>1. "RmdirLinkCount" \notin Guarded
        BY Zenon DEF Guarded
    <2> QED
        BY <1>4, <2>1, PanicMoves, Zenon
<1>5. CASE Local(p, next)
    <2>1. tx[p].inode \in Inodes
        BY <1>2, Zenon DEF Shape
    <2>2. /\ next \in Transaction /\ next.pc = "counted" /\ next.op = tx[p].op
          /\ next.inode = tx[p].inode /\ next.locks = tx[p].locks
        BY <1>2, PlainPcsAre DEF Transaction
    <2> HIDE DEF next
    <2> QED
        BY <1>2, <1>5, <2>1, <2>2, PlainPcsAre, PlainLocalMoves, Zenon
<1>6. Finish(p, "InodeDoesNotExist") \/ Panic(p, "RmdirLinkCount") \/ Local(p, next)
    BY Zenon DEF RmdirCounts
<1> QED
    BY <1>3, <1>4, <1>5, <1>6

\* rmdir_transaction: the link is gone and the directory loses both links.
LEMMA RmdirDecrementsMoves ==
    ASSUME TxInv, NEW p \in Procs, RmdirDecrements(p)
    PROVE  Move(p)
<1> DEFINE next == [tx[p] EXCEPT !.pc = "last"]
           req == DecrementRequest(p, tx[p].inode, 2, NoLockId)
<1>1. At(p, {"rmdir"}, "counted") /\ Send(p, req, next)
    BY DEF RmdirDecrements
<1>2. /\ tx[p] \in Transaction /\ tx[p].op \in Operations /\ tx[p].op.type = "rmdir"
      /\ reply[p] # Waiting /\ tx[p].locks \subseteq OwnOf(tx[p], reply[p])
      /\ Shape(tx[p]) /\ tx[p].pc = "counted"
    BY <1>1, AtIs
<1>3. next \in Transaction /\ next.pc = "last" /\ next.op = tx[p].op /\ next.locks = tx[p].locks
    BY <1>2, PlainPcsAre DEF Transaction
<1>4. req \in Requests /\ req.type = "DecrementInode" /\ req.from = p /\ req.lock_id = NoLockId
    <2>1. tx[p].inode \in Inodes
        BY <1>2 DEF Shape
    <2>2. req \in Requests
        BY <2>1, SomeIds, DecrementRequestIs, Zenon
    <2> QED
        BY <2>2, Zenon DEF DecrementRequest
<1> HIDE DEF next, req
<1> QED
    BY <1>1, <1>2, <1>3, <1>4, PlainPcsAre, PlainMoves

\* The loop of unlink_transaction and rmdir_transaction
LEMMA GiveUpMoves ==
    ASSUME TxInv, NEW p \in Procs, GiveUp(p)
    PROVE  Move(p)
<1>1. PICK pc \in {"look", "locked", "failed", "gone"} : FinishIfError(p, {"unlink", "rmdir"}, pc)
    BY DEF GiveUp
<1> QED
    BY <1>1, FinishIfErrorMoves, Zenon

\* unlink and rmdir ask for the lock of the inode that they have looked up.
LEMMA LockTargetMoves ==
    ASSUME TxInv, NEW p \in Procs, LockTarget(p)
    PROVE  Move(p)
<1> DEFINE next == [tx[p] EXCEPT !.pc = "locked"]
           req == Request("Lock", p, tx[p].inode, NoLockId)
<1>1. At(p, {"unlink", "rmdir"}, "look") /\ Send(p, req, next)
    BY Zenon DEF LockTarget
<1>2. /\ tx[p] \in Transaction /\ tx[p].op \in Operations /\ tx[p].op.type \in {"unlink", "rmdir"}
      /\ reply[p] # Waiting /\ tx[p].locks \subseteq OwnOf(tx[p], reply[p])
      /\ Shape(tx[p]) /\ tx[p].pc = "look"
    BY <1>1, AtIs, Zenon
<1>3. tx[p].inode \in Inodes
    BY <1>2, Zenon DEF Shape
<1>4. /\ next \in Transaction /\ next.pc = "locked" /\ next.op = tx[p].op
      /\ next.inode = tx[p].inode /\ next.locks = tx[p].locks
    BY <1>2, PlainPcsAre DEF Transaction
<1>5. /\ req \in Requests /\ req.type = "Lock" /\ req.from = p /\ req.inode = tx[p].inode
      /\ req.lock_id = NoLockId
    <2>1. req \in Requests
        BY <1>3, SomeIds, RequestIs, Zenon
    <2> QED
        BY <2>1, Zenon DEF Request
<1> HIDE DEF next, req
<1> QED
    BY <1>1, <1>2, <1>3, <1>4, <1>5, PlainPcsAre, PlainMoves

\* unlink and rmdir give the lock of the target back.
LEMMA UnlockTargetMoves ==
    ASSUME TxInv, NEW p \in Procs, reply[p] # Waiting, NEW lock \in OwnOf(tx[p], reply[p]),
           NEW t \in Transaction, t.op \in Operations, t.op.type # "rename",
           t.pc \in {"failed", "look", "gone"}, t.inode \in Inodes, UnlockTarget(p, lock, t)
    PROVE  Move(p)
<1> DEFINE next == [t EXCEPT !.locks = {}]
           req == Request("Unlock", p, lock[1], lock[2])
<1>1. Send(p, req, next)
    BY Zenon DEF UnlockTarget
<1>2. lock[1] \in Inodes /\ lock[2] \in Nat /\ lock = <<lock[1], lock[2]>>
    BY OwnedLocks DEF TxInv
<1>3. lock[2] \in Ids /\ lock[2] # NoLockId
    BY <1>2, SomeIds, LockTableAssumption
<1>4. /\ next \in Transaction /\ next.pc = t.pc /\ next.op = t.op
      /\ next.inode = t.inode /\ next.locks = {}
    BY DEF Transaction
<1>5. /\ req \in Requests /\ req.type = "Unlock" /\ req.from = p /\ req.inode = lock[1]
      /\ req.lock_id = lock[2]
    <2>1. req \in Requests
        BY <1>2, <1>3, RequestIs, Zenon
    <2> QED
        BY <2>1, Zenon DEF Request
<1> HIDE DEF next, req
<1>6. Shape(next)
    BY <1>4 DEF Shape, RenamePcs, AskPcs
<1>7. next.pc \notin AskPcs \cup {"tried", "removed", "inode_created"}
    BY <1>4, Zenon DEF AskPcs
<1>8. Proper(p, req, next)
    BY <1>2, <1>3, <1>4, <1>5, <1>6, <1>7 DEF Proper
<1> QED
    BY <1>1, <1>4, <1>5, <1>8, SendMoves, Zenon

\* unlink and rmdir remove the link under the lock of its inode.
LEMMA RemoveTargetMoves ==
    ASSUME TxInv, NEW p \in Procs, RemoveTarget(p)
    PROVE  Move(p)
<1> DEFINE inode == tx[p].inode
           lock == <<inode, reply[p].id>>
           failed(status) == [tx[p] EXCEPT !.pc = "failed", !.result = status]
           next == [tx[p] EXCEPT !.pc = "removed", !.locks = {lock}]
           req == LinkRequest("RemoveLink", p, tx[p].op.parent, tx[p].op.name, NoLockId, inode,
                              fs.attrs[inode].uid)
<1>1. At(p, {"unlink", "rmdir"}, "locked") /\ Succeeds(p)
    BY Zenon DEF RemoveTarget
<1>2. /\ tx[p] \in Transaction /\ tx[p].op \in Operations /\ tx[p].op.type \in {"unlink", "rmdir"}
      /\ reply[p] # Waiting /\ Shape(tx[p]) /\ tx[p].pc = "locked" /\ Answered(tx[p], reply[p])
    BY <1>1, AtIs, Zenon
<1>3. inode \in Inodes /\ reply[p].id \in Nat
    BY <1>1, <1>2, Zenon DEF Shape, Answered, AskPcs, Succeeds
<1>4. lock \in OwnOf(tx[p], reply[p])
    BY <1>1, <1>2, Zenon DEF OwnOf, AskPcs, Asked, Succeeds
<1>5. ASSUME NEW status \in Statuses, UnlockTarget(p, lock, failed(status))
      PROVE  Move(p)
    <2>1. /\ failed(status) \in Transaction /\ failed(status).pc = "failed"
          /\ failed(status).op = tx[p].op /\ failed(status).inode = inode
        BY <1>2, PlainPcsAre, Zenon DEF Transaction
    <2> HIDE DEF lock, failed
    <2> QED
        BY <1>2, <1>3, <1>4, <1>5, <2>1, UnlockTargetMoves
<1>6. CASE Exists(fs, inode) /\ Send(p, req, next)
    <2>1. /\ next \in Transaction /\ next.pc = "removed" /\ next.op = tx[p].op
          /\ next.inode = inode /\ next.locks = {lock}
        <3>1. lock \in Inodes \X Nat
            BY <1>3
        <3> HIDE DEF lock
        <3>2. {lock} \in SUBSET (Inodes \X Nat)
            BY <3>1, Zenon
        <3> QED
            BY <1>2, <3>2, PlainPcsAre, Zenon DEF Transaction
    <2>2. tx[p].op.parent \in Inodes /\ tx[p].op.name \in Names /\ fs.attrs[inode].uid \in Nat
        <3>1. fs.attrs[inode] \in Attributes
            BY <1>3, <1>6 DEF TxInv, Types, Consistent, FileSystems, Exists
        <3> QED
            BY <1>2, <3>1, FieldsOfOperation, Zenon DEF Attributes
    <2>3. req \in Requests
        BY <1>2, <1>3, <2>2, SomeIds, RemoveRequestIs, Zenon
    <2>4. req.type = "RemoveLink" /\ req.from = p /\ req.lock_id = NoLockId
        BY DEF LinkRequest
    <2> HIDE DEF lock, next, req
    <2> QED
        BY <1>2, <1>3, <1>4, <1>6, <2>1, <2>3, <2>4, PlainPcsAre, PlainMoves, Zenon
<1>7. "InodeDoesNotExist" \in Statuses /\ "NotEmpty" \in Statuses
    BY Zenon DEF Statuses
<1>8. \/ UnlockTarget(p, lock, failed("InodeDoesNotExist"))
      \/ UnlockTarget(p, lock, failed("NotEmpty"))
      \/ Exists(fs, inode) /\ Send(p, req, next)
    BY DEF RemoveTarget
<1> QED
    BY <1>5, <1>6, <1>7, <1>8, Zenon

\* unlink and rmdir: the answer to remove_link under the lock
LEMMA TargetRemovedMoves ==
    ASSUME TxInv, NEW p \in Procs, TargetRemoved(p)
    PROVE  Move(p)
<1> DEFINE failed == [tx[p] EXCEPT !.pc = "failed", !.result = reply[p].status]
           look == [tx[p] EXCEPT !.pc = "look", !.inode = reply[p].id]
           gone == [tx[p] EXCEPT !.pc = "gone", !.inode = reply[p].id]
<1>1. At(p, {"unlink", "rmdir"}, "removed")
    BY Zenon DEF TargetRemoved
<1>2. /\ tx[p] \in Transaction /\ tx[p].op \in Operations /\ tx[p].op.type \in {"unlink", "rmdir"}
      /\ reply[p] # Waiting /\ Shape(tx[p]) /\ tx[p].pc = "removed" /\ Answered(tx[p], reply[p])
      /\ reply[p] \in Responses /\ tx[p].locks \subseteq OwnOf(tx[p], reply[p])
    BY <1>1, AtIs, Zenon
<1>3. /\ tx[p].inode \in Inodes /\ reply[p].status \in Statuses
      /\ Succeeds(p) => reply[p].id \in Inodes
    BY <1>2 DEF Shape, Answered, Responses, Succeeds
<1>4. PICK lock \in tx[p].locks : \/ UnlockTarget(p, lock, failed)
                                  \/ Succeeds(p) /\ UnlockTarget(p, lock, look)
                                  \/ Succeeds(p) /\ UnlockTarget(p, lock, gone)
    BY Zenon DEF TargetRemoved
<1>5. CASE UnlockTarget(p, lock, failed)
    <2>1. failed \in Transaction /\ failed.pc = "failed" /\ failed.op = tx[p].op /\ failed.inode = tx[p].inode
        BY <1>2, <1>3, PlainPcsAre, Zenon DEF Transaction
    <2> HIDE DEF failed
    <2> QED
        BY <1>2, <1>3, <1>5, <2>1, UnlockTargetMoves
<1>6. CASE Succeeds(p) /\ UnlockTarget(p, lock, look)
    <2>1. look \in Transaction /\ look.pc = "look" /\ look.op = tx[p].op /\ look.inode = reply[p].id
        BY <1>2, <1>3, <1>6, PlainPcsAre, Zenon DEF Transaction
    <2> HIDE DEF look
    <2> QED
        BY <1>2, <1>3, <1>6, <2>1, UnlockTargetMoves
<1>7. CASE Succeeds(p) /\ UnlockTarget(p, lock, gone)
    <2>1. gone \in Transaction /\ gone.pc = "gone" /\ gone.op = tx[p].op /\ gone.inode = reply[p].id
        BY <1>2, <1>3, <1>7, PlainPcsAre, Zenon DEF Transaction
    <2> HIDE DEF gone
    <2> QED
        BY <1>2, <1>3, <1>7, <2>1, UnlockTargetMoves
<1> QED
    BY <1>4, <1>5, <1>6, <1>7

\* unlink and rmdir: the lock is back after a removal that failed.
LEMMA RemovalFailedMoves ==
    ASSUME TxInv, NEW p \in Procs, RemovalFailed(p)
    PROVE  Move(p)
<1>1. At(p, {"unlink", "rmdir"}, "failed") /\ Finish(p, tx[p].result)
    BY Zenon DEF RemovalFailed
<1>2. /\ tx[p] \in Transaction /\ tx[p].op.type \in {"unlink", "rmdir"} /\ reply[p] # Waiting
      /\ tx[p].pc # "idle"
    BY <1>1, AtIs
<1>3. tx[p].result \in Statuses
    BY <1>2, FieldsOfTransaction
<1> QED
    BY <1>1, <1>2, <1>3, FinishMoves, Zenon

\* The last reply of create, hardlink, unlink and rmdir
LEMMA LastReplyMoves ==
    ASSUME TxInv, NEW p \in Procs, LastReply(p)
    PROVE  Move(p)
<1> DEFINE status == IF Succeeds(p) THEN tx[p].result ELSE reply[p].status
<1>1. At(p, {"create", "hardlink", "unlink", "rmdir"}, "last") /\ Finish(p, status)
    BY Zenon DEF LastReply
<1>2. /\ tx[p] \in Transaction /\ tx[p].op.type \in {"create", "hardlink", "unlink", "rmdir"}
      /\ reply[p] # Waiting /\ tx[p].pc # "idle" /\ reply[p] \in Responses
    BY <1>1, AtIs
<1>3. status \in Statuses
    BY <1>2, FieldsOfTransaction, Zenon DEF Responses
<1> HIDE DEF status
<1> QED
    BY <1>1, <1>2, <1>3, FinishMoves

\* A transaction starts with an operation that the kernel allows.
LEMMA StartMoves ==
    ASSUME TxInv, NEW p \in Procs, workload \in Workloads, Start(p)
    PROVE  Move(p)
<1>1. PICK op \in workload.ops : KernelAllows(op) /\ Local(p, [tx[p] EXCEPT !.op = op, !.pc = "begin"])
    BY Zenon DEF Start
<1> DEFINE next == [tx[p] EXCEPT !.op = op, !.pc = "begin"]
<1>2. tx[p] \in Transaction /\ Shape(tx[p]) /\ tx[p].pc = "idle" /\ reply[p] # Waiting
    BY DEF TxInv, Types, Start, Answered
<1>3. op \in Operations
    BY <1>1, TransactionsAssumption
<1>4. /\ next \in Transaction /\ next.op = op /\ next.pc = "begin" /\ next.inode = tx[p].inode
      /\ next.locks = tx[p].locks
    BY <1>2, <1>3, PlainPcsAre, Zenon DEF Transaction
<1>5. Local(p, next)
    BY <1>1
<1> HIDE DEF next
<1>6. tx[p].locks = {} /\ tx[p].inode = NoInode
    BY <1>2, Zenon DEF Shape
<1>7. op.type = "rename" => <<op.parent, op.name>> # <<op.new_parent, op.new_name>>
    BY <1>1, Zenon DEF KernelAllows
<1>8. Shape(next)
    BY <1>3, <1>4, <1>7 DEF Shape, RenamePcs, AskPcs
<1>9. Renaming(next, reply[p], fs)
    BY <1>4, <1>6 DEF Renaming, RenamePcs, AskPcs
<1>10. next.pc \notin AskPcs \cup {"tried", "removed", "inode_created", "idle"}
    BY <1>4, Zenon DEF AskPcs
<1> QED
    BY <1>2, <1>4, <1>5, <1>6, <1>8, <1>9, <1>10, LocalMoves

------------------------------------------------------------------------------
(***************************************************************************)
(* rename                                                                  *)
(***************************************************************************)
\* The inodes of a set of locks
Covers(held, i) == \E l \in held : l[1] = i

\* The lock that a rename has on an inode
LEMMA LockIdIs ==
    ASSUME NEW held \in SUBSET (Inodes \X Nat), NEW i, Covers(held, i)
    PROVE  <<i, LockId(held, i)>> \in held /\ LockId(held, i) \in Nat
<1> DEFINE lock == CHOOSE l \in held : l[1] = i
<1>1. lock \in held /\ lock[1] = i
    BY DEF Covers
<1>2. LockId(held, i) = lock[2]
    BY DEF LockId
<1> HIDE DEF lock
<1>3. lock = <<lock[1], lock[2]>> /\ lock[2] \in Nat
    BY <1>1
<1> QED
    BY <1>1, <1>2, <1>3

\* A rename that is under way and has its reply
LEMMA RenameIs ==
    ASSUME TxInv, NEW p \in Procs, NEW pc \in RenamePcs \cup {"begin"}, At(p, {"rename"}, pc)
    PROVE  /\ tx[p] \in Transaction /\ Shape(tx[p]) /\ tx[p].pc = pc
           /\ tx[p].op \in Operations /\ tx[p].op.type = "rename"
           /\ tx[p].op.parent \in Inodes /\ tx[p].op.name \in Names
           /\ tx[p].op.new_parent \in Inodes /\ tx[p].op.new_name \in Names
           /\ reply[p] \in Responses /\ reply[p] # Waiting /\ Answered(tx[p], reply[p])
           /\ Renaming(tx[p], reply[p], fs)
           /\ tx[p].locks \in SUBSET (Inodes \X Nat)
           /\ tx[p].locks \subseteq OwnOf(tx[p], reply[p])
           /\ OwnOf(tx[p], reply[p]) \in SUBSET (Inodes \X Nat)
<1>1. pc # "idle"
    BY Zenon DEF RenamePcs, AskPcs
<1>2. /\ tx[p] \in Transaction /\ Shape(tx[p]) /\ tx[p].pc = pc
      /\ tx[p].op \in Operations /\ tx[p].op.type = "rename"
      /\ reply[p] \in Responses /\ reply[p] # Waiting /\ Answered(tx[p], reply[p])
      /\ tx[p].locks \subseteq OwnOf(tx[p], reply[p])
    BY <1>1, AtIs
<1>3. Renaming(tx[p], reply[p], fs)
    BY <1>2, Zenon DEF TxInv, Renames
<1>4. OwnOf(tx[p], reply[p]) \in SUBSET (Inodes \X Nat)
    BY OwnedLocks, Zenon DEF TxInv
<1> QED
    BY <1>2, <1>3, <1>4, FieldsOfOperation, FieldsOfTransaction

\* What a reply to a Lock request adds to the locks
LEMMA HoldingIs ==
    ASSUME TxInv, NEW p \in Procs, NEW pc \in AskPcs \ {"locked"}, At(p, {"rename"}, pc), Succeeds(p),
           NEW i, i = Asked(tx[p])
    PROVE  /\ Holding(p, i) = OwnOf(tx[p], reply[p])
           /\ Covers(Holding(p, i), i)
           /\ \A j : Has(tx[p], j) => Covers(Holding(p, i), j)
           /\ \A j : Has(tx[p], j) => j # i
<1>1. tx[p].pc = pc /\ reply[p].status = "Ok"
    BY DEF At, Succeeds
<1>2. Holding(p, i) = OwnOf(tx[p], reply[p])
    BY <1>1, Zenon DEF Holding, OwnOf
<1>3. Covers(Holding(p, i), i)
    <2>1. <<i, reply[p].id>> \in Holding(p, i) /\ <<i, reply[p].id>>[1] = i
        BY DEF Holding
    <2> QED
        BY <2>1 DEF Covers
<1>4. \A j : Has(tx[p], j) => Covers(Holding(p, i), j)
    BY DEF Has, Covers, Holding
<1>5. \A j : Has(tx[p], j) => j # i
    BY <1>1 DEF Has, TxInv, Owners
<1> QED
    BY <1>2, <1>3, <1>4, <1>5, Zenon

\* The unlock loop: an inode that the rename has locked, with both of its
\* directories, keeps one of its names.
LEMMA ReleaseMoves ==
    ASSUME TxInv, NEW p \in Procs, NEW pc \in RenamePcs, At(p, {"rename"}, pc),
           NEW held, held \subseteq OwnOf(tx[p], reply[p]), held = {} => tx[p].locks = {},
           NEW status \in Statuses, Release(p, held, status),
           /\ Covers(held, tx[p].op.parent) /\ Covers(held, tx[p].op.new_parent)
           /\ Covers(held, tx[p].inode)
           => /\ tx[p].inode \in {OldName(tx[p], fs), NewName(tx[p], fs)}
              /\ status = "Ok" => NewName(tx[p], fs) = tx[p].inode /\ OldName(tx[p], fs) = NoInode
    PROVE  Move(p)
<1>1. /\ tx[p] \in Transaction /\ Shape(tx[p]) /\ tx[p].pc = pc
      /\ tx[p].op \in Operations /\ tx[p].op.type = "rename" /\ reply[p] # Waiting
      /\ tx[p].op.name \in Names /\ tx[p].op.new_name \in Names
      /\ OwnOf(tx[p], reply[p]) \in SUBSET (Inodes \X Nat)
    BY RenameIs, Zenon
<1>2. CASE held = {} /\ Finish(p, status)
    <2>1. tx[p].pc # "idle"
        BY <1>1 DEF RenamePcs, AskPcs
    <2> QED
        BY <1>1, <1>2, <2>1, FinishMoves
<1>3. ASSUME NEW lock \in held,
             Send(p, Request("Unlock", p, lock[1], lock[2]),
                  [tx[p] EXCEPT !.pc = "unlocking", !.result = status, !.locks = held \ {lock}])
      PROVE  Move(p)
    <2> DEFINE next == [tx[p] EXCEPT !.pc = "unlocking", !.result = status, !.locks = held \ {lock}]
               req == Request("Unlock", p, lock[1], lock[2])
    <2>1. lock[1] \in Inodes /\ lock[2] \in Nat /\ lock = <<lock[1], lock[2]>>
        BY <1>1
    <2>2. lock[2] \in Ids /\ lock[2] # NoLockId
        BY <2>1, SomeIds, LockTableAssumption
    <2>3. /\ next \in Transaction /\ next.pc = "unlocking" /\ next.op = tx[p].op
          /\ next.inode = tx[p].inode /\ next.locks = held \ {lock} /\ next.result = status
        <3>1. "unlocking" \in Pcs /\ held \ {lock} \in SUBSET (Inodes \X Nat)
            BY <1>1 DEF Pcs, RenamePcs
        <3> QED
            BY <1>1, <3>1, Zenon DEF Transaction
    <2>4. /\ req \in Requests /\ req.type = "Unlock" /\ req.from = p /\ req.inode = lock[1]
          /\ req.lock_id = lock[2]
        <3>1. req \in Requests
            BY <2>1, <2>2, RequestIs, Zenon
        <3> QED
            BY <3>1, Zenon DEF Request
    <2>5. Send(p, req, next)
        BY <1>3, Zenon
    <2> HIDE DEF next, req
    <2>6. Shape(next)
        BY <1>1, <2>3 DEF Shape, RenamePcs, AskPcs
    <2>7. next.pc \notin AskPcs \cup {"tried", "removed", "inode_created", "idle"}
        BY <2>3, Zenon DEF AskPcs
    <2>8. Proper(p, req, next)
        <3>1. <<lock[1], lock[2]>> \notin next.locks /\ next.locks \subseteq OwnOf(tx[p], reply[p])
            BY <2>1, <2>3, Zenon
        <3>2. <<lock[1], lock[2]>> \in OwnOf(tx[p], reply[p])
            BY <2>1
        <3> QED
            BY <2>2, <2>3, <2>4, <2>6, <2>7, <3>1, <3>2, Zenon DEF Proper
    <2>9. ASSUME Outcome(p, req, next)
          PROVE  Renaming(next, reply'[p], fs')
        <3>1. \A i : Has(next, i) => Covers(held, i) /\ Kept(i)
            BY <2>3, <2>4, <2>9, Zenon DEF Outcome, Has, Covers
        <3>2. Has(next, tx[p].op.parent) => OldName(next, fs') = OldName(tx[p], fs)
            <4>1. tx[p].op.name \in Names
                BY <1>1, Zenon
            <4>2. Has(next, tx[p].op.parent) =>
                    fs'.entries[<<tx[p].op.parent, tx[p].op.name>>]
                        = fs.entries[<<tx[p].op.parent, tx[p].op.name>>]
                BY <3>1, <4>1, Zenon DEF Kept
            <4> QED
                BY <2>3, <4>2, Zenon DEF OldName
        <3>3. Has(next, tx[p].op.new_parent) => NewName(next, fs') = NewName(tx[p], fs)
            <4>1. tx[p].op.new_name \in Names
                BY <1>1, Zenon
            <4>2. Has(next, tx[p].op.new_parent) =>
                    fs'.entries[<<tx[p].op.new_parent, tx[p].op.new_name>>]
                        = fs.entries[<<tx[p].op.new_parent, tx[p].op.new_name>>]
                BY <3>1, <4>1, Zenon DEF Kept
            <4> QED
                BY <2>3, <4>2, Zenon DEF NewName
        <3>4. /\ Has(next, next.op.parent) /\ Has(next, next.op.new_parent) /\ Has(next, next.inode)
              => /\ next.inode \in {OldName(next, fs'), NewName(next, fs')}
                 /\ next.result = "Ok" => NewName(next, fs') = next.inode /\ OldName(next, fs') = NoInode
            BY <2>3, <3>1, <3>2, <3>3
        <3> QED
            BY <2>3, <3>4, Zenon DEF Renaming, RenamePcs, AskPcs
    <2> QED
        BY <1>1, <2>4, <2>5, <2>8, <2>9, SendMoves, Zenon
<1> QED
    BY <1>2, <1>3, Zenon DEF Release

\* A rename asks for a lock.
LEMMA AskMoves ==
    ASSUME TxInv, NEW p \in Procs, NEW pc \in RenamePcs \cup {"begin"}, At(p, {"rename"}, pc),
           NEW next \in Transaction, next.op = tx[p].op, next.pc \in AskPcs \ {"locked"},
           next.locks \subseteq OwnOf(tx[p], reply[p]), NEW i \in Inodes, i = Asked(next),
           \A a : Renaming(next, a, fs), Send(p, Request("Lock", p, i, NoLockId), next)
    PROVE  Move(p)
<1> DEFINE req == Request("Lock", p, i, NoLockId)
<1>1. Shape(tx[p]) /\ tx[p].op \in Operations /\ tx[p].op.type = "rename" /\ reply[p] # Waiting
    BY RenameIs
<1>2. /\ req \in Requests /\ req.type = "Lock" /\ req.from = p /\ req.inode = i
      /\ req.lock_id = NoLockId
    <2>1. req \in Requests
        BY SomeIds, RequestIs, Zenon
    <2> QED
        BY <2>1, Zenon DEF Request
<1>3. Send(p, req, next)
    BY Zenon
<1> HIDE DEF req
<1>4. Shape(next)
    BY <1>1 DEF Shape, RenamePcs, AskPcs, Asked
<1>5. Proper(p, req, next)
    BY <1>2, <1>4, Zenon DEF Proper, AskPcs
<1>6. Outcome(p, req, next) => fs' = fs
    BY <1>2, Zenon DEF Outcome
<1> QED
    BY <1>1, <1>2, <1>3, <1>5, <1>6, SendMoves, ZenonT(30)

\* rename_transaction asks for the lock of the old directory.
LEMMA RenameBeginsMoves ==
    ASSUME TxInv, NEW p \in Procs, RenameBegins(p)
    PROVE  Move(p)
<1> DEFINE next == [tx[p] EXCEPT !.pc = "parent_locked"]
<1>1. At(p, {"rename"}, "begin") /\ Send(p, Request("Lock", p, tx[p].op.parent, NoLockId), next)
    BY DEF RenameBegins
<1>2. /\ tx[p] \in Transaction /\ tx[p].pc = "begin" /\ tx[p].op.parent \in Inodes
      /\ Renaming(tx[p], reply[p], fs) /\ tx[p].op.type = "rename"
    BY <1>1, RenameIs, Zenon
<1>3. tx[p].locks = {} /\ tx[p].inode = NoInode
    BY <1>2 DEF Renaming
<1>4. /\ next \in Transaction /\ next.pc = "parent_locked" /\ next.op = tx[p].op
      /\ next.inode = NoInode /\ next.locks = {}
    <2>1. "parent_locked" \in Pcs
        BY DEF Pcs, RenamePcs, AskPcs
    <2> QED
        BY <1>2, <1>3, <2>1 DEF Transaction
<1> HIDE DEF next
<1>5. Asked(next) = tx[p].op.parent /\ next.pc \in AskPcs \ {"locked"}
    BY <1>4 DEF Asked, AskPcs
<1>6. \A a : Renaming(next, a, fs)
    BY <1>4, Zenon DEF Renaming, RenamePcs, AskPcs
<1>7. "begin" \in RenamePcs \cup {"begin"} /\ next.locks \subseteq OwnOf(tx[p], reply[p])
    BY <1>4
<1> QED
    BY <1>1, <1>2, <1>4, <1>5, <1>6, <1>7, AskMoves

\* lookup finds an inode or says why it does not.
LEMMA LookupStatusIs ==
    ASSUME Types, NEW dir \in Inodes, NEW name \in Names
    PROVE  /\ LookupStatus(dir, name) \in Statuses
           /\ LookupStatus(dir, name) \in {"Ok", "DoesNotExist", "InodeDoesNotExist"}
           /\ LookupStatus(dir, name) = "Ok" => fs.entries[<<dir, name>>] \in Inodes
           /\ LookupStatus(dir, name) = "DoesNotExist" => fs.entries[<<dir, name>>] = NoInode
<1>1. fs.entries[<<dir, name>>] \in Inodes \cup {NoInode}
    BY DEF Types, Consistent, FileSystems
<1>2. "Ok" \in Statuses /\ "DoesNotExist" \in Statuses /\ "InodeDoesNotExist" \in Statuses
    BY Zenon DEF Statuses
<1> QED
    BY <1>1, <1>2 DEF LookupStatus

\* The rename has both directories, looks the old name up and asks for the
\* lock on the inode.
LEMMA LockSourceMoves ==
    ASSUME TxInv, NEW p \in Procs, NEW pc \in {"parent_locked", "new_parent_locked"},
           At(p, {"rename"}, pc), NEW held, held = OwnOf(tx[p], reply[p]),
           Covers(held, tx[p].op.parent), Covers(held, tx[p].op.new_parent), LockSource(p, held)
    PROVE  Move(p)
<1> DEFINE op == tx[p].op
           inode == fs.entries[<<op.parent, op.name>>]
           status == LookupStatus(op.parent, op.name)
           next == [tx[p] EXCEPT !.pc = "inode_locked", !.locks = held, !.inode = inode]
<1>1. pc \in RenamePcs
    BY DEF RenamePcs, AskPcs
<1>2. /\ tx[p] \in Transaction /\ tx[p].pc = pc /\ op.parent \in Inodes /\ op.name \in Names
      /\ Renaming(tx[p], reply[p], fs) /\ held \in SUBSET (Inodes \X Nat)
    BY <1>1, RenameIs, Zenon
<1>3. status \in Statuses /\ (status = "Ok" => inode \in Inodes)
    BY <1>2, LookupStatusIs DEF TxInv
<1>4. CASE status # "Ok" /\ Release(p, held, status)
    <2>1. held # {} /\ ~Covers(held, tx[p].inode)
        BY <1>2, LockTableAssumption, Zenon DEF Covers, Renaming
    <2> HIDE DEF status
    <2> QED
        BY <1>1, <1>3, <1>4, <2>1, ReleaseMoves, Zenon
<1>5. CASE status = "Ok" /\ Send(p, Request("Lock", p, inode, NoLockId), next)
    <2>1. inode \in Inodes
        BY <1>3, <1>5
    <2> HIDE DEF inode
    <2>2. /\ next \in Transaction /\ next.pc = "inode_locked" /\ next.op = tx[p].op
          /\ next.inode = inode /\ next.locks = held
        <3>1. "inode_locked" \in Pcs
            BY DEF Pcs, RenamePcs, AskPcs
        <3> QED
            BY <1>2, <2>1, <3>1, Zenon DEF Transaction
    <2>3. OldName(next, fs) = inode
        BY <2>2 DEF OldName, inode
    <2> HIDE DEF next
    <2>4. Asked(next) = inode /\ next.pc \in AskPcs \ {"locked"}
        BY <2>2, Zenon DEF Asked, AskPcs
    <2>5. Has(next, op.parent) /\ Has(next, op.new_parent)
        BY <2>2 DEF Has, Covers
    <2>6. \A a : Renaming(next, a, fs)
        BY <2>1, <2>2, <2>3, <2>5, Zenon DEF Renaming, RenamePcs, AskPcs
    <2> QED
        BY <1>1, <1>5, <2>1, <2>2, <2>4, <2>6, AskMoves, Zenon
<1> QED
    BY <1>4, <1>5, Zenon DEF LockSource

\* rename_transaction: the old directory is locked, the new one is next unless
\* it is the same.
LEMMA ParentLockedMoves ==
    ASSUME TxInv, NEW p \in Procs, ParentLocked(p)
    PROVE  Move(p)
<1> DEFINE op == tx[p].op
           held == Holding(p, op.parent)
           next == [tx[p] EXCEPT !.pc = "new_parent_locked", !.locks = held]
<1>1. /\ At(p, {"rename"}, "parent_locked") /\ Succeeds(p)
      /\ \/ op.parent # op.new_parent /\ Send(p, Request("Lock", p, op.new_parent, NoLockId), next)
         \/ op.parent = op.new_parent /\ LockSource(p, held)
    BY DEF ParentLocked
<1>2. "parent_locked" \in RenamePcs /\ "parent_locked" \in AskPcs \ {"locked"}
    BY Zenon DEF RenamePcs, AskPcs
<1>3. /\ tx[p] \in Transaction /\ tx[p].pc = "parent_locked" /\ op.new_parent \in Inodes
      /\ Renaming(tx[p], reply[p], fs) /\ OwnOf(tx[p], reply[p]) \in SUBSET (Inodes \X Nat)
    BY <1>1, <1>2, RenameIs
<1>4. Asked(tx[p]) = op.parent
    BY <1>3, Zenon DEF Asked
<1>5. held = OwnOf(tx[p], reply[p]) /\ Covers(held, op.parent)
    BY <1>1, <1>2, <1>4, HoldingIs, Zenon
<1> HIDE DEF held
<1>6. CASE op.parent = op.new_parent /\ LockSource(p, held)
    BY <1>1, <1>5, <1>6, LockSourceMoves, Zenon
<1>7. CASE Send(p, Request("Lock", p, op.new_parent, NoLockId), next)
    <2>1. tx[p].inode = NoInode
        BY <1>3 DEF Renaming
    <2>2. /\ next \in Transaction /\ next.pc = "new_parent_locked" /\ next.op = tx[p].op
          /\ next.inode = NoInode /\ next.locks = held
        <3>1. "new_parent_locked" \in Pcs
            BY DEF Pcs, RenamePcs, AskPcs
        <3> QED
            BY <1>3, <1>5, <2>1, <3>1, Zenon DEF Transaction
    <2> HIDE DEF next
    <2>3. Asked(next) = op.new_parent /\ next.pc \in AskPcs \ {"locked"}
        BY <2>2 DEF Asked, AskPcs
    <2>4. Has(next, op.parent)
        BY <1>5, <2>2 DEF Has, Covers
    <2>5. \A a : Renaming(next, a, fs)
        BY <2>2, <2>4, Zenon DEF Renaming, RenamePcs, AskPcs
    <2> QED
        BY <1>1, <1>2, <1>3, <1>5, <1>7, <2>2, <2>3, <2>5, AskMoves, ZenonT(30)
<1> QED
    BY <1>1, <1>6, <1>7, Zenon

\* rename_transaction: both directories are locked, the inode is next.
LEMMA NewParentLockedMoves ==
    ASSUME TxInv, NEW p \in Procs, NewParentLocked(p)
    PROVE  Move(p)
<1> DEFINE held == Holding(p, tx[p].op.new_parent)
<1>1. At(p, {"rename"}, "new_parent_locked") /\ Succeeds(p) /\ LockSource(p, held)
    BY DEF NewParentLocked
<1>2. "new_parent_locked" \in RenamePcs /\ "new_parent_locked" \in AskPcs \ {"locked"}
    BY Zenon DEF RenamePcs, AskPcs
<1>3. tx[p].pc = "new_parent_locked" /\ Renaming(tx[p], reply[p], fs)
    BY <1>1, <1>2, RenameIs
<1>4. Asked(tx[p]) = tx[p].op.new_parent /\ Has(tx[p], tx[p].op.parent)
    BY <1>2, <1>3, Zenon DEF Asked, Renaming
<1>5. /\ held = OwnOf(tx[p], reply[p]) /\ Covers(held, tx[p].op.parent)
      /\ Covers(held, tx[p].op.new_parent)
    BY <1>1, <1>2, <1>4, HoldingIs
<1> HIDE DEF held
<1> QED
    BY <1>1, <1>5, LockSourceMoves, Zenon

\* A request of a rename under one of its locks
LEMMA LockedMoves ==
    ASSUME TxInv, NEW p \in Procs, NEW pc \in RenamePcs, At(p, {"rename"}, pc),
           NEW next \in Transaction, next.op = tx[p].op,
           next.pc \in {"linked", "replaced", "dest_decremented", "old_removed", "reparented", "touched"},
           next.locks \subseteq OwnOf(tx[p], reply[p]),
           NEW req \in Requests, req.from = p, req.type \notin {"Lock", "Unlock"},
           NEW held, held \subseteq OwnOf(tx[p], reply[p]), Covers(held, req.inode),
           req.lock_id = LockId(held, req.inode),
           Outcome(p, req, next) => Renaming(next, reply'[p], fs'),
           req.type \in {"ReplaceLink", "UpdateParent"} /\ Effect(fs, req, CommitWrite(fs, req))
                => CommitWrite(fs, req).reply.status \notin Guarded,
           Send(p, req, next)
    PROVE  Move(p)
<1>1. /\ Shape(tx[p]) /\ tx[p].op \in Operations /\ tx[p].op.type = "rename" /\ reply[p] # Waiting
      /\ OwnOf(tx[p], reply[p]) \in SUBSET (Inodes \X Nat)
    BY RenameIs, Zenon
<1>2. Shape(next)
    BY <1>1, Zenon DEF Shape, RenamePcs, AskPcs
<1>3. <<req.inode, req.lock_id>> \in OwnOf(tx[p], reply[p]) /\ req.lock_id # NoLockId
    <2>1. held \in SUBSET (Inodes \X Nat)
        BY <1>1, Zenon
    <2>2. <<req.inode, req.lock_id>> \in held /\ req.lock_id \in Nat
        BY <2>1, LockIdIs
    <2> QED
        BY <2>2, LockTableAssumption, Zenon
<1>4. Proper(p, req, next)
    BY <1>2, <1>3, Zenon DEF Proper, AskPcs
<1> QED
    BY <1>1, <1>4, SendMoves, Zenon

\* The names of a rename after its new name, or its old one, has changed
LEMMA NamesAfter ==
    ASSUME NEW t, t.op.parent \in Inodes, t.op.name \in Names,
           t.op.new_parent \in Inodes, t.op.new_name \in Names,
           <<t.op.parent, t.op.name>> # <<t.op.new_parent, t.op.new_name>>, NEW s, NEW i
    PROVE  /\ OtherEntry(fs, s, t.op.new_parent, t.op.new_name, i)
                => OldName(t, s) = OldName(t, fs) /\ NewName(t, s) = i
           /\ OtherEntry(fs, s, t.op.parent, t.op.name, i)
                => NewName(t, s) = NewName(t, fs) /\ OldName(t, s) = i
<1>1. ASSUME OtherEntry(fs, s, t.op.new_parent, t.op.new_name, i)
      PROVE  OldName(t, s) = OldName(t, fs) /\ NewName(t, s) = i
    BY <1>1 DEF OtherEntry, OldName, NewName
<1>2. ASSUME OtherEntry(fs, s, t.op.parent, t.op.name, i)
      PROVE  NewName(t, s) = NewName(t, fs) /\ OldName(t, s) = i
    BY <1>2 DEF OtherEntry, OldName, NewName
<1> QED
    BY <1>1, <1>2, Zenon

\* CreateLink or ReplaceLink under the new name, with everything locked
LEMMA NewNameLinked ==
    ASSUME NEW p \in Procs, NEW req \in Requests, NEW t \in Transaction,
           t.op.parent \in Inodes, t.op.name \in Names,
           t.op.new_parent \in Inodes, t.op.new_name \in Names,
           <<t.op.parent, t.op.name>> # <<t.op.new_parent, t.op.new_name>>,
           req.type \in {"CreateLink", "ReplaceLink"}, req.inode = t.op.new_parent,
           req.name = t.op.new_name, req.link = t.inode,
           OldName(t, fs) = t.inode, Seen(t, fs), Outcome(p, req, t)
    PROVE  /\ OldName(t, fs') = t.inode /\ Seen(t, fs')
           /\ reply'[p].status = "Ok" => NewName(t, fs') = t.inode
           /\ reply'[p].status = "Ok" /\ req.type = "ReplaceLink" => reply'[p].id = NewName(t, fs)
<1> DEFINE c == CommitWrite(fs, req)
<1>1. \/ fs' = fs /\ reply'[p].status # "Ok"
      \/ fs' = c.fs /\ reply'[p] = c.reply /\ Effect(fs, req, c)
    BY Zenon DEF Outcome
<1> HIDE DEF c
<1>2. CASE fs' = fs /\ reply'[p].status # "Ok"
    BY <1>2, Zenon
<1>3. CASE fs' = c.fs /\ reply'[p] = c.reply /\ Effect(fs, req, c)
    <2>1. /\ c.fs.attrs = fs.attrs
          /\ c.reply.status # "Ok" => c.fs = fs
          /\ c.reply.status = "Ok" => OtherEntry(fs, c.fs, req.inode, req.name, req.link)
          /\ c.reply.status = "Ok" /\ req.type = "ReplaceLink" => c.reply.id = NewName(t, fs)
        BY <1>3, Zenon DEF Effect, NewName
    <2>2. Seen(t, fs')
        BY <1>3, <2>1, Zenon DEF Seen, Exists
    <2>3. CASE c.reply.status # "Ok"
        BY <1>3, <2>1, <2>3
    <2>4. CASE c.reply.status = "Ok"
        <3>1. OtherEntry(fs, fs', t.op.new_parent, t.op.new_name, t.inode)
            BY <1>3, <2>1, <2>4, Zenon
        <3>2. OldName(t, fs') = OldName(t, fs) /\ NewName(t, fs') = t.inode
            BY <3>1, NamesAfter
        <3> QED
            BY <1>3, <2>1, <2>2, <3>2, Zenon
    <2> QED
        BY <2>3, <2>4
<1> QED
    BY <1>1, <1>2, <1>3, Zenon

\* The errors of rename_check_access
LEMMA RenameCheckAccessIs ==
    ASSUME NEW op, NEW dir, NEW new_dir, NEW attrs, NEW dest_attrs, NEW entries
    PROVE  RenameCheckAccess(op, dir, new_dir, attrs, dest_attrs, entries) \in Statuses
<1>1. "Ok" \in Statuses /\ "AccessDenied" \in Statuses /\ "NotEmpty" \in Statuses
    BY Zenon DEF Statuses
<1> QED
    BY <1>1 DEF RenameCheckAccess

\* The checks, and the link under the new name. The inode that has that name is
\* another one, which is locked too.
LEMMA LinkNewNameMoves ==
    ASSUME TxInv, NEW p \in Procs, NEW pc \in {"inode_locked", "dest_locked"},
           At(p, {"rename"}, pc), NEW held, held = OwnOf(tx[p], reply[p]),
           Covers(held, tx[p].op.parent), Covers(held, tx[p].op.new_parent),
           Covers(held, tx[p].inode), NEW dest,
           \/ dest = NoInode
           \/ /\ dest \in Inodes /\ dest # tx[p].inode /\ Covers(held, dest)
              /\ NewName(tx[p], fs) = dest,
           LinkNewName(p, held, dest)
    PROVE  Move(p)
<1> DEFINE op == tx[p].op
           inode == tx[p].inode
           attrs == fs.attrs[inode]
           dest_attrs == IF dest = NoInode THEN NoAttrs ELSE fs.attrs[dest]
           entries == IF dest = NoInode THEN 0 ELSE DirectoryEntries(fs, dest)
           access == RenameCheckAccess(op, fs.attrs[op.parent], fs.attrs[op.new_parent],
                                       attrs, dest_attrs, entries)
           seen == [tx[p] EXCEPT !.locks = held, !.dest = dest, !.attrs = attrs,
                                 !.dest_attrs = dest_attrs]
           req(type) == LinkRequest(type, p, op.new_parent, op.new_name,
                                    LockId(held, op.new_parent), inode, 0)
           next(x) == [seen EXCEPT !.pc = x]
<1>1. pc \in RenamePcs
    BY DEF RenamePcs, AskPcs
<1>2. /\ tx[p] \in Transaction /\ tx[p].pc = pc /\ op \in Operations
      /\ op.parent \in Inodes /\ op.name \in Names /\ op.new_parent \in Inodes /\ op.new_name \in Names
      /\ Renaming(tx[p], reply[p], fs) /\ held \in SUBSET (Inodes \X Nat)
      /\ Shape(tx[p]) /\ op.type = "rename"
    BY <1>1, RenameIs, Zenon
<1>3. /\ inode \in Inodes /\ OldName(tx[p], fs) = inode
      /\ <<op.parent, op.name>> # <<op.new_parent, op.new_name>>
    BY <1>2, Zenon DEF Renaming, RenamePcs, AskPcs, Shape
<1>4. ASSUME NEW status \in Statuses, status # "Ok", Release(p, held, status)
      PROVE  Move(p)
    <2>1. held # {}
        BY DEF Covers
    <2> QED
        BY <1>1, <1>3, <1>4, <2>1, ReleaseMoves, Zenon
<1>5. ASSUME Exists(fs, inode), dest # NoInode => Exists(fs, dest),
             NEW type \in {"CreateLink", "ReplaceLink"}, NEW x \in {"linked", "replaced"},
             type = "CreateLink" => x = "linked",
             type = "ReplaceLink" => x = "replaced" /\ dest # NoInode, Send(p, req(type), next(x))
      PROVE  Move(p)
    <2>1. attrs \in Attributes /\ dest_attrs \in Attributes \cup {NoAttrs} /\ dest \in Inodes \cup {NoInode}
        BY <1>3, <1>5 DEF TxInv, Types, Consistent, FileSystems, Exists
    <2> HIDE DEF dest_attrs
    <2>2. /\ next(x) \in Transaction /\ next(x).pc = x /\ next(x).op = op /\ next(x).inode = inode
          /\ next(x).locks = held /\ next(x).dest = dest /\ next(x).attrs = attrs
        <3>1. x \in Pcs
            BY Zenon DEF Pcs, RenamePcs
        <3> QED
            BY <1>2, <2>1, <3>1, Zenon DEF Transaction
    <2>3. LockId(held, op.new_parent) \in Ids
        BY <1>2, LockIdIs, SomeIds, Zenon
    <2>4. req(type) \in Requests /\ req(type).type = type /\ req(type).from = p
        <3>1. req(type) \in Requests
            BY <1>2, <1>3, <2>3, LinkRequestIs, Zenon
        <3> QED
            BY <3>1, Zenon DEF LinkRequest
    <2>5. /\ req(type).inode = op.new_parent /\ req(type).name = op.new_name /\ req(type).link = inode
          /\ req(type).lock_id = LockId(held, op.new_parent)
        BY Zenon DEF LinkRequest
    <2>6. Send(p, req(type), next(x))
        BY <1>5
    <2> HIDE DEF next, req
    <2>7. /\ OldName(next(x), fs) = inode /\ NewName(next(x), fs) = NewName(tx[p], fs)
          /\ Seen(next(x), fs)
        BY <1>3, <1>5, <2>2, Zenon DEF OldName, NewName, Seen
    <2>8. type = "ReplaceLink" => dest \in Inodes /\ dest # inode /\ Covers(held, dest)
                                    /\ NewName(tx[p], fs) = dest
        BY <1>5
    <2>9. ASSUME Outcome(p, req(type), next(x))
          PROVE  Renaming(next(x), reply'[p], fs')
        <3>1. /\ OldName(next(x), fs') = inode /\ Seen(next(x), fs')
              /\ reply'[p].status = "Ok" => NewName(next(x), fs') = inode
              /\ reply'[p].status = "Ok" /\ type = "ReplaceLink" => reply'[p].id = NewName(tx[p], fs)
            <4>1. /\ next(x).op.parent \in Inodes /\ next(x).op.name \in Names
                  /\ next(x).op.new_parent \in Inodes /\ next(x).op.new_name \in Names
                  /\ <<next(x).op.parent, next(x).op.name>> # <<next(x).op.new_parent, next(x).op.new_name>>
                BY <1>2, <1>3, <2>2, Zenon
            <4>2. /\ req(type).type \in {"CreateLink", "ReplaceLink"}
                  /\ req(type).inode = next(x).op.new_parent /\ req(type).name = next(x).op.new_name
                  /\ req(type).link = next(x).inode
                BY <2>2, <2>4, <2>5, Zenon
            <4>3. OldName(next(x), fs) = next(x).inode
                BY <2>2, <2>7, Zenon
            <4>4. /\ OldName(next(x), fs') = next(x).inode /\ Seen(next(x), fs')
                  /\ reply'[p].status = "Ok" => NewName(next(x), fs') = next(x).inode
                  /\ reply'[p].status = "Ok" /\ req(type).type = "ReplaceLink"
                        => reply'[p].id = NewName(next(x), fs)
                BY <2>2, <2>4, <2>7, <2>9, <4>1, <4>2, <4>3, NewNameLinked, Zenon
            <4> QED
                BY <2>2, <2>4, <2>7, <4>4, Zenon
        <3>2. Has(next(x), op.parent) /\ Has(next(x), op.new_parent) /\ Has(next(x), inode)
            BY <2>2, Zenon DEF Has, Covers
        <3>3. x = "replaced" => /\ dest \in Inodes /\ dest # inode /\ Has(next(x), dest)
                                /\ reply'[p].status = "Ok" => reply'[p].id = dest
            BY <1>5, <2>2, <2>8, <3>1, Zenon DEF Has, Covers
        <3> QED
            BY <1>3, <2>2, <3>1, <3>2, <3>3, Zenon DEF Renaming, RenamePcs, AskPcs
    <2>10. type = "ReplaceLink" /\ Effect(fs, req(type), CommitWrite(fs, req(type)))
                => CommitWrite(fs, req(type)).reply.status \notin Guarded
        <3>1. type = "ReplaceLink" => fs.entries[<<req(type).inode, req(type).name>>] # NoInode
            BY <2>5, <2>8, LockTableAssumption DEF NewName
        <3> QED
            BY <2>4, <3>1, ZenonT(30) DEF Effect
    <2> QED
        BY <1>1, <1>5, <2>2, <2>4, <2>5, <2>6, <2>9, <2>10, LockedMoves, Zenon
<1>6. access \in Statuses /\ "InodeDoesNotExist" \in Statuses
    BY RenameCheckAccessIs, Zenon DEF Statuses
<1>7. \/ Release(p, held, "InodeDoesNotExist")
      \/ access # "Ok" /\ Release(p, held, access)
      \/ /\ Exists(fs, inode) /\ (dest # NoInode => Exists(fs, dest))
         /\ dest = NoInode /\ Send(p, req("CreateLink"), next("linked"))
      \/ /\ Exists(fs, inode) /\ (dest # NoInode => Exists(fs, dest))
         /\ dest # NoInode /\ Send(p, req("ReplaceLink"), next("replaced"))
    BY Zenon DEF LinkNewName
<1> HIDE DEF access, next, req
<1> QED
    BY <1>4, <1>5, <1>6, <1>7

\* rename_transaction: the inode is locked, and what has the new name is next.
LEMMA InodeLockedMoves ==
    ASSUME TxInv, NEW p \in Procs, InodeLocked(p)
    PROVE  Move(p)
<1> DEFINE op == tx[p].op
           held == Holding(p, tx[p].inode)
           dest == fs.entries[<<op.new_parent, op.new_name>>]
           status == LookupStatus(op.new_parent, op.new_name)
           next == [tx[p] EXCEPT !.pc = "dest_locked", !.locks = held, !.dest = dest]
<1>1. At(p, {"rename"}, "inode_locked") /\ Succeeds(p)
    BY DEF InodeLocked
<1>2. "inode_locked" \in RenamePcs /\ "inode_locked" \in AskPcs \ {"locked"}
    BY Zenon DEF RenamePcs, AskPcs
<1>3. /\ tx[p] \in Transaction /\ tx[p].pc = "inode_locked"
      /\ op.new_parent \in Inodes /\ op.new_name \in Names
      /\ Renaming(tx[p], reply[p], fs) /\ OwnOf(tx[p], reply[p]) \in SUBSET (Inodes \X Nat)
    BY <1>1, <1>2, RenameIs
<1>4. /\ Has(tx[p], op.parent) /\ Has(tx[p], op.new_parent) /\ tx[p].inode \in Inodes
      /\ OldName(tx[p], fs) = tx[p].inode
    BY <1>2, <1>3, Zenon DEF Renaming
<1>5. /\ held = OwnOf(tx[p], reply[p]) /\ Covers(held, tx[p].inode)
      /\ Covers(held, op.parent) /\ Covers(held, op.new_parent)
    <2>1. Asked(tx[p]) = tx[p].inode
        BY <1>3, Zenon DEF Asked
    <2> QED
        BY <1>1, <1>2, <1>4, <2>1, HoldingIs, Zenon
<1>6. /\ status \in {"Ok", "DoesNotExist", "InodeDoesNotExist"}
      /\ status = "Ok" => dest \in Inodes
    BY <1>3, LookupStatusIs DEF TxInv
<1>7. \/ Release(p, held, "InodeDoesNotExist")
      \/ LinkNewName(p, held, NoInode)
      \/ status = "Ok" /\ Send(p, Request("Lock", p, dest, NoLockId), next)
    BY <1>1, <1>6 DEF InodeLocked
<1> HIDE DEF held, status
<1>8. CASE Release(p, held, "InodeDoesNotExist")
    <2>1. held # {} /\ "InodeDoesNotExist" \in Statuses
        BY <1>5, Zenon DEF Covers, Statuses
    <2> QED
        BY <1>1, <1>2, <1>4, <1>5, <1>8, <2>1, ReleaseMoves, Zenon
<1>9. CASE LinkNewName(p, held, NoInode)
    BY <1>1, <1>5, <1>9, LinkNewNameMoves
<1>10. CASE status = "Ok" /\ Send(p, Request("Lock", p, dest, NoLockId), next)
    <2>1. dest \in Inodes
        BY <1>6, <1>10
    <2> HIDE DEF dest
    <2>2. /\ next \in Transaction /\ next.pc = "dest_locked" /\ next.op = op
          /\ next.inode = tx[p].inode /\ next.dest = dest /\ next.locks = held
        <3>1. "dest_locked" \in Pcs
            BY DEF Pcs, RenamePcs, AskPcs
        <3> QED
            BY <1>3, <1>5, <2>1, <3>1, Zenon DEF Transaction
    <2>3. OldName(next, fs) = tx[p].inode /\ NewName(next, fs) = dest
        BY <1>4, <2>2 DEF OldName, NewName, dest
    <2> HIDE DEF next
    <2>4. Asked(next) = dest /\ next.pc \in AskPcs \ {"locked"}
        BY <2>2, Zenon DEF Asked, AskPcs
    <2>5. Has(next, op.parent) /\ Has(next, op.new_parent) /\ Has(next, tx[p].inode)
        BY <1>5, <2>2, Zenon DEF Has, Covers
    <2>6. \A a : Renaming(next, a, fs)
        BY <1>4, <2>1, <2>2, <2>3, <2>5 DEF Renaming, RenamePcs, AskPcs
    <2> QED
        BY <1>1, <1>2, <1>5, <1>10, <2>1, <2>2, <2>4, <2>6, AskMoves, Zenon
<1> QED
    BY <1>7, <1>8, <1>9, <1>10, Zenon

\* rename_transaction: everything is locked, and the new name is linked.
LEMMA DestLockedMoves ==
    ASSUME TxInv, NEW p \in Procs, DestLocked(p)
    PROVE  Move(p)
<1> DEFINE held == Holding(p, tx[p].dest)
<1>1. At(p, {"rename"}, "dest_locked") /\ Succeeds(p) /\ LinkNewName(p, held, tx[p].dest)
    BY DEF DestLocked
<1>2. "dest_locked" \in RenamePcs /\ "dest_locked" \in AskPcs \ {"locked"}
    BY DEF RenamePcs, AskPcs
<1>3. tx[p].pc = "dest_locked" /\ Renaming(tx[p], reply[p], fs) /\ Shape(tx[p])
    BY <1>1, <1>2, RenameIs, Zenon
<1>4. /\ Has(tx[p], tx[p].op.parent) /\ Has(tx[p], tx[p].op.new_parent) /\ Has(tx[p], tx[p].inode)
      /\ NewName(tx[p], fs) = tx[p].dest /\ tx[p].dest \in Inodes /\ Asked(tx[p]) = tx[p].dest
    BY <1>2, <1>3 DEF Renaming, Shape, Asked
<1>5. /\ held = OwnOf(tx[p], reply[p]) /\ Covers(held, tx[p].dest)
      /\ Covers(held, tx[p].op.parent) /\ Covers(held, tx[p].op.new_parent)
      /\ Covers(held, tx[p].inode) /\ tx[p].inode # tx[p].dest
    BY <1>1, <1>2, <1>4, HoldingIs, Zenon
<1> HIDE DEF held
<1> QED
    BY <1>1, <1>4, <1>5, LinkNewNameMoves, Zenon

\* The inode that had the new name loses a link. It is the one that the rename
\* has locked, so the assertion about it holds.
LEMMA ReplacedMoves ==
    ASSUME TxInv, NEW p \in Procs, Replaced(p)
    PROVE  Move(p)
<1> DEFINE t == tx[p]
           count == IF t.dest_attrs.kind = "Directory" THEN 2 ELSE 1
           req == DecrementRequest(p, t.dest, count, LockId(t.locks, t.dest))
           next == [t EXCEPT !.pc = "dest_decremented"]
<1>1. At(p, {"rename"}, "replaced") /\ Succeeds(p)
    BY DEF Replaced
<1>2. "replaced" \in RenamePcs
    BY Zenon DEF RenamePcs
<1>3. /\ t \in Transaction /\ t.pc = "replaced" /\ Renaming(t, reply[p], fs)
      /\ t.locks \in SUBSET (Inodes \X Nat) /\ t.locks \subseteq OwnOf(t, reply[p])
    BY <1>1, <1>2, RenameIs
<1>4. /\ Has(t, t.op.parent) /\ Has(t, t.op.new_parent) /\ Has(t, t.inode) /\ Has(t, t.dest)
      /\ t.inode \in Inodes /\ t.dest \in Inodes /\ t.dest # t.inode
      /\ OldName(t, fs) = t.inode /\ Seen(t, fs)
    BY <1>3, Zenon DEF Renaming, RenamePcs, AskPcs
<1>5. reply[p].id = t.dest /\ NewName(t, fs) = t.inode
    BY <1>1, <1>3, Zenon DEF Renaming, Succeeds
<1>6. CASE Panic(p, "RenameLinkCount")
    <2>1. "RenameLinkCount" \notin Guarded
        BY DEF Guarded
    <2> QED
        BY <1>6, <2>1, PanicMoves
<1>7. CASE Send(p, req, next)
    <2>1. /\ next \in Transaction /\ next.pc = "dest_decremented" /\ next.op = t.op
          /\ next.inode = t.inode /\ next.locks = t.locks /\ next.attrs = t.attrs
        <3>1. "dest_decremented" \in Pcs
            BY DEF Pcs, RenamePcs
        <3> QED
            BY <1>3, <3>1 DEF Transaction
    <2>2. Covers(t.locks, t.dest) /\ LockId(t.locks, t.dest) \in Ids /\ count \in Nat
        <3>1. Covers(t.locks, t.dest)
            BY <1>4 DEF Has, Covers
        <3> QED
            BY <1>3, <3>1, LockIdIs, SomeIds, Zenon
    <2> HIDE DEF count
    <2>3. /\ req \in Requests /\ req.type = "DecrementInode" /\ req.from = p /\ req.inode = t.dest
          /\ req.lock_id = LockId(t.locks, t.dest)
        <3>1. req \in Requests
            BY <1>4, <2>2, DecrementRequestIs, Zenon
        <3> QED
            BY <3>1, Zenon DEF DecrementRequest
    <2> HIDE DEF next, req
    <2>4. ASSUME Outcome(p, req, next)
          PROVE  Renaming(next, reply'[p], fs')
        <3> DEFINE c == CommitWrite(fs, req)
        <3>1. fs' = fs \/ (fs' = c.fs /\ Effect(fs, req, c))
            BY <2>3, <2>4, Zenon DEF Outcome
        <3> HIDE DEF c
        <3>2. fs'.entries = fs.entries
            BY <2>3, <3>1 DEF Effect
        <3>3. Exists(fs', t.inode) /\ fs'.attrs[t.inode] = fs.attrs[t.inode]
            BY <1>4, <2>3, <3>1, Zenon DEF Effect, OnlyChanged, Seen, Exists
        <3>4. Seen(next, fs') /\ OldName(next, fs') = t.inode /\ NewName(next, fs') = t.inode
            BY <1>4, <1>5, <2>1, <3>2, <3>3, Zenon DEF Seen, OldName, NewName
        <3>5. Has(next, t.op.parent) /\ Has(next, t.op.new_parent) /\ Has(next, t.inode)
            BY <1>4, <2>1, Zenon DEF Has
        <3> QED
            BY <1>4, <2>1, <3>4, <3>5, Zenon DEF Renaming, RenamePcs, AskPcs
    <2> QED
        BY <1>1, <1>2, <1>3, <1>7, <2>1, <2>2, <2>3, <2>4, LockedMoves, Zenon
<1>8. Panic(p, "RenameLinkCount") \/ Send(p, req, next)
    BY <1>5 DEF Replaced
<1> QED
    BY <1>6, <1>7, <1>8

\* The old name is removed when the new one is there, and it still names the
\* inode then.
LEMMA RemoveOldNameMoves ==
    ASSUME TxInv, NEW p \in Procs, NEW pc \in {"linked", "dest_decremented"}, At(p, {"rename"}, pc),
           Succeeds(p), RemoveOldName(p)
    PROVE  Move(p)
<1> DEFINE t == tx[p]
           req == LinkRequest("RemoveLink", p, t.op.parent, t.op.name,
                              LockId(t.locks, t.op.parent), t.inode, t.attrs.uid)
           next == [t EXCEPT !.pc = "old_removed"]
<1>1. pc \in RenamePcs
    BY DEF RenamePcs
<1>2. /\ t \in Transaction /\ t.pc = pc /\ Renaming(t, reply[p], fs) /\ t.op \in Operations
      /\ t.locks \in SUBSET (Inodes \X Nat) /\ t.locks \subseteq OwnOf(t, reply[p])
      /\ t.op.parent \in Inodes /\ t.op.name \in Names
      /\ t.op.new_parent \in Inodes /\ t.op.new_name \in Names
      /\ Shape(t) /\ t.op.type = "rename"
    BY <1>1, RenameIs, Zenon
<1>3. /\ Has(t, t.op.parent) /\ Has(t, t.op.new_parent) /\ Has(t, t.inode)
      /\ t.inode \in Inodes /\ OldName(t, fs) = t.inode /\ Seen(t, fs)
    BY <1>1, <1>2, Zenon DEF Renaming, RenamePcs, AskPcs
<1>4. /\ NewName(t, fs) = t.inode
      /\ <<t.op.parent, t.op.name>> # <<t.op.new_parent, t.op.new_name>>
    BY <1>2, Zenon DEF Renaming, Succeeds, Shape
<1>5. t.attrs.uid \in Nat
    <2>1. fs.attrs[t.inode] \in Attributes
        BY <1>3, Zenon DEF Seen, Exists, TxInv, Types, Consistent, FileSystems
    <2> QED
        BY <1>3, <2>1, Zenon DEF Seen, Attributes
<1>6. /\ next \in Transaction /\ next.pc = "old_removed" /\ next.op = t.op
      /\ next.inode = t.inode /\ next.locks = t.locks /\ next.attrs = t.attrs
    <2>1. "old_removed" \in Pcs
        BY DEF Pcs, RenamePcs
    <2> QED
        BY <1>2, <2>1 DEF Transaction
<1>7. Covers(t.locks, t.op.parent) /\ LockId(t.locks, t.op.parent) \in Ids
    <2>1. Covers(t.locks, t.op.parent)
        BY <1>3 DEF Has, Covers
    <2> QED
        BY <1>2, <2>1, LockIdIs, SomeIds, Zenon
<1>8. req \in Requests
    BY <1>2, <1>3, <1>5, <1>7, RemoveRequestIs, Zenon
<1>9. /\ req.type = "RemoveLink" /\ req.from = p /\ req.inode = t.op.parent
      /\ req.name = t.op.name /\ req.link = t.inode
      /\ req.lock_id = LockId(t.locks, t.op.parent)
    BY DEF LinkRequest
<1>10. Send(p, req, next)
    BY DEF RemoveOldName
<1> HIDE DEF next, req
<1>11. ASSUME Outcome(p, req, next)
       PROVE  Renaming(next, reply'[p], fs')
    <2> DEFINE c == CommitWrite(fs, req)
    <2>1. \/ fs' = fs /\ reply'[p].status # "Ok"
          \/ fs' = c.fs /\ reply'[p] = c.reply /\ Effect(fs, req, c)
        BY <1>9, <1>11 DEF Outcome
    <2> HIDE DEF c
    <2>2. Effect(fs, req, c) =>
            /\ c.fs.attrs = fs.attrs
            /\ c.reply.status # "Ok" => c.fs = fs
            /\ c.reply.status = "Ok" => OtherEntry(fs, c.fs, t.op.parent, t.op.name, NoInode)
        BY <1>3, <1>9, Zenon DEF Effect, OldName
    <2>3. OtherEntry(fs, c.fs, t.op.parent, t.op.name, NoInode)
            => NewName(t, c.fs) = NewName(t, fs) /\ OldName(t, c.fs) = NoInode
        BY <1>2, <1>4, NamesAfter, Zenon
    <2>4. /\ NewName(t, fs') = t.inode
          /\ reply'[p].status = "Ok" => OldName(t, fs') = NoInode
        BY <1>4, <2>1, <2>2, <2>3, Zenon
    <2>5. Seen(next, fs')
        BY <1>3, <1>6, <2>1, <2>2, Zenon DEF Seen, Exists
    <2>6. Has(next, t.op.parent) /\ Has(next, t.op.new_parent) /\ Has(next, t.inode)
        BY <1>3, <1>6, Zenon DEF Has
    <2>7. OldName(next, fs') = OldName(t, fs') /\ NewName(next, fs') = NewName(t, fs')
        BY <1>6, Zenon DEF OldName, NewName
    <2> QED
        BY <1>3, <1>6, <2>4, <2>5, <2>6, <2>7, ZenonT(30) DEF Renaming, RenamePcs, AskPcs
<1> QED
    BY <1>1, <1>2, <1>6, <1>7, <1>8, <1>9, <1>10, <1>11, LockedMoves, Zenon

\* rename_transaction: the inode that had the new name has lost its link.
LEMMA DestDecrementedMoves ==
    ASSUME TxInv, NEW p \in Procs, DestDecremented(p)
    PROVE  Move(p)
<1>1. /\ At(p, {"rename"}, "dest_decremented")
      /\ \/ Succeeds(p) /\ RemoveOldName(p)
         \/ Stop(p)
         \/ Panic(p, "LeakedInode")
    BY DEF DestDecremented
<1>2. "LeakedInode" \notin Guarded
    BY DEF Guarded
<1> QED
    BY <1>1, <1>2, RemoveOldNameMoves, PanicMoves DEF Move

\* rename_transaction: the new name is linked.
LEMMA LinkedMoves ==
    ASSUME TxInv, NEW p \in Procs, Linked(p)
    PROVE  Move(p)
    BY RemoveOldNameMoves DEF Linked

\* A rename that has made the new name and removed the old one
LEMMA RenamedIs ==
    ASSUME TxInv, NEW p \in Procs, NEW pc \in {"old_removed", "reparented", "touched"},
           At(p, {"rename"}, pc), pc = "old_removed" => Succeeds(p)
    PROVE  LET t == tx[p]
           IN  /\ pc \in RenamePcs
               /\ t \in Transaction /\ t.pc = pc /\ t.op.new_parent \in Inodes
               /\ t.locks \in SUBSET (Inodes \X Nat) /\ t.locks \subseteq OwnOf(t, reply[p])
               /\ Has(t, t.op.parent) /\ Has(t, t.op.new_parent) /\ Has(t, t.inode)
               /\ t.inode \in Inodes
               /\ Covers(t.locks, t.inode) /\ LockId(t.locks, t.inode) \in Ids
               /\ NewName(t, fs) = t.inode /\ OldName(t, fs) = NoInode
               /\ pc = "old_removed" => Seen(t, fs)
<1> DEFINE t == tx[p]
<1>1. pc \in RenamePcs
    BY Zenon DEF RenamePcs
<1>2. /\ t \in Transaction /\ t.pc = pc /\ Renaming(t, reply[p], fs)
      /\ t.locks \in SUBSET (Inodes \X Nat) /\ t.locks \subseteq OwnOf(t, reply[p])
      /\ t.op.new_parent \in Inodes
    BY <1>1, RenameIs
<1>3. /\ Has(t, t.op.parent) /\ Has(t, t.op.new_parent) /\ Has(t, t.inode)
      /\ t.inode \in Inodes /\ NewName(t, fs) = t.inode
    BY <1>1, <1>2, Zenon DEF Renaming, RenamePcs, AskPcs
<1>4. OldName(t, fs) = NoInode /\ (pc = "old_removed" => Seen(t, fs))
    BY <1>2, Zenon DEF Renaming, Succeeds
<1>5. Covers(t.locks, t.inode)
    BY <1>3 DEF Has, Covers
<1>6. LockId(t.locks, t.inode) \in Ids
    BY <1>2, <1>5, LockIdIs, SomeIds, Zenon
<1> QED
    BY <1>1, <1>2, <1>3, <1>4, <1>5, <1>6, Zenon

\* The names stay when the entries do.
LEMMA RenamedStays ==
    ASSUME NEW t, NEW next, next.op = t.op, next.inode = t.inode, next.locks = t.locks,
           next.pc \in {"reparented", "touched"}, t.inode \in Inodes,
           Has(t, t.op.parent), Has(t, t.op.new_parent), Has(t, t.inode),
           NewName(t, fs) = t.inode, OldName(t, fs) = NoInode, fs'.entries = fs.entries, NEW a
    PROVE  Renaming(next, a, fs')
<1>1. NewName(next, fs') = t.inode /\ OldName(next, fs') = NoInode
    BY Zenon DEF NewName, OldName
<1>2. Has(next, t.op.parent) /\ Has(next, t.op.new_parent) /\ Has(next, t.inode)
    BY DEF Has
<1> QED
    BY <1>1, <1>2, Zenon DEF Renaming, RenamePcs, AskPcs

\* rename_transaction touches the inode that has moved.
LEMMA TouchMoves ==
    ASSUME TxInv, NEW p \in Procs, NEW pc \in {"old_removed", "reparented"},
           At(p, {"rename"}, pc), Succeeds(p), Touch(p)
    PROVE  Move(p)
<1> DEFINE t == tx[p]
           req == Request("UpdateMetadataChangedTime", p, t.inode, LockId(t.locks, t.inode))
           next == [t EXCEPT !.pc = "touched"]
<1>1. /\ pc \in RenamePcs
      /\ t \in Transaction /\ t.locks \subseteq OwnOf(t, reply[p])
      /\ Has(t, t.op.parent) /\ Has(t, t.op.new_parent) /\ Has(t, t.inode)
      /\ t.inode \in Inodes
      /\ Covers(t.locks, t.inode) /\ LockId(t.locks, t.inode) \in Ids
      /\ NewName(t, fs) = t.inode /\ OldName(t, fs) = NoInode
    BY RenamedIs, Zenon
<1>2. /\ next \in Transaction /\ next.pc = "touched" /\ next.op = t.op
      /\ next.inode = t.inode /\ next.locks = t.locks
    <2>1. "touched" \in Pcs
        BY DEF Pcs, RenamePcs
    <2> QED
        BY <1>1, <2>1 DEF Transaction
<1>3. /\ req \in Requests /\ req.type = "UpdateMetadataChangedTime" /\ req.from = p
      /\ req.inode = t.inode /\ req.lock_id = LockId(t.locks, t.inode)
    <2>1. req \in Requests
        BY <1>1, RequestIs, Zenon
    <2> QED
        BY <2>1, Zenon DEF Request
<1>4. Send(p, req, next)
    BY DEF Touch
<1> HIDE DEF next, req
<1>5. ASSUME Outcome(p, req, next)
      PROVE  Renaming(next, reply'[p], fs')
    <2>1. fs'.entries = fs.entries
        BY <1>3, <1>5, Zenon DEF Outcome, Effect
    <2> QED
        BY <1>1, <1>2, <2>1, RenamedStays, Zenon
<1> QED
    BY <1>1, <1>2, <1>3, <1>4, <1>5, LockedMoves, Zenon

\* A directory that was renamed gets its new "..". It is a directory: what the
\* rename saw of it before holds under its lock.
LEMMA OldRemovedMoves ==
    ASSUME TxInv, NEW p \in Procs, OldRemoved(p)
    PROVE  Move(p)
<1> DEFINE t == tx[p]
           req == ParentRequest(p, t.inode, LockId(t.locks, t.inode), t.op.new_parent)
           next == [t EXCEPT !.pc = "reparented"]
<1>1. /\ At(p, {"rename"}, "old_removed") /\ Succeeds(p)
      /\ \/ t.attrs.kind = "Directory" /\ Send(p, req, next)
         \/ Touch(p)
    BY Zenon DEF OldRemoved
<1>2. /\ "old_removed" \in RenamePcs
      /\ t \in Transaction /\ t.locks \subseteq OwnOf(t, reply[p]) /\ t.op.new_parent \in Inodes
      /\ Has(t, t.op.parent) /\ Has(t, t.op.new_parent) /\ Has(t, t.inode)
      /\ t.inode \in Inodes
      /\ Covers(t.locks, t.inode) /\ LockId(t.locks, t.inode) \in Ids
      /\ NewName(t, fs) = t.inode /\ OldName(t, fs) = NoInode /\ Seen(t, fs)
    BY <1>1, RenamedIs
<1>3. CASE Touch(p)
    BY <1>1, <1>3, TouchMoves
<1>4. CASE t.attrs.kind = "Directory" /\ Send(p, req, next)
    <2>1. /\ next \in Transaction /\ next.pc = "reparented" /\ next.op = t.op
          /\ next.inode = t.inode /\ next.locks = t.locks
        <3>1. "reparented" \in Pcs
            BY DEF Pcs, RenamePcs
        <3> QED
            BY <1>2, <3>1 DEF Transaction
    <2>2. /\ req \in Requests /\ req.type = "UpdateParent" /\ req.from = p
          /\ req.inode = t.inode /\ req.lock_id = LockId(t.locks, t.inode)
        <3>1. req \in Requests
            BY <1>2, ParentRequestIs, Zenon
        <3> QED
            BY <3>1, Zenon DEF ParentRequest
    <2> HIDE DEF next, req
    <2>3. Effect(fs, req, CommitWrite(fs, req)) =>
            /\ CommitWrite(fs, req).fs.entries = fs.entries
            /\ CommitWrite(fs, req).reply.status \notin Guarded
        <3>1. Exists(fs, req.inode) /\ fs.attrs[req.inode].kind = "Directory"
            BY <1>2, <1>4, <2>2, Zenon DEF Seen
        <3> QED
            BY <2>2, <3>1, Zenon DEF Effect
    <2>4. ASSUME Outcome(p, req, next)
          PROVE  Renaming(next, reply'[p], fs')
        <3>1. fs'.entries = fs.entries
            BY <2>2, <2>3, <2>4, Zenon DEF Outcome
        <3> QED
            BY <1>2, <2>1, <3>1, RenamedStays, Zenon
    <2> QED
        BY <1>1, <1>2, <1>4, <2>1, <2>2, <2>3, <2>4, LockedMoves, Zenon
<1> QED
    BY <1>1, <1>3, <1>4

\* rename_transaction: the directory that has moved has its new parent.
LEMMA ReparentedMoves ==
    ASSUME TxInv, NEW p \in Procs, Reparented(p)
    PROVE  Move(p)
    BY TouchMoves, Zenon DEF Reparented

\* rename_transaction: the inode is touched, and the locks are given back.
LEMMA TouchedMoves ==
    ASSUME TxInv, NEW p \in Procs, Touched(p)
    PROVE  Move(p)
<1> DEFINE t == tx[p]
<1>1. At(p, {"rename"}, "touched") /\ Release(p, t.locks, reply[p].status)
    BY DEF Touched
<1>2. /\ "touched" \in RenamePcs /\ t.locks \subseteq OwnOf(t, reply[p])
      /\ NewName(t, fs) = t.inode /\ OldName(t, fs) = NoInode
    BY <1>1, RenamedIs, Zenon
<1>3. reply[p].status \in Statuses
    BY DEF TxInv, Types, Responses
<1> QED
    BY <1>1, <1>2, <1>3, ReleaseMoves, Zenon

\* rename_transaction gives its locks back one after the other.
LEMMA UnlockingMoves ==
    ASSUME TxInv, NEW p \in Procs, Unlocking(p)
    PROVE  Move(p)
<1> DEFINE t == tx[p]
<1>1. At(p, {"rename"}, "unlocking") /\ (Release(p, t.locks, t.result) \/ Stop(p))
    BY DEF Unlocking
<1>2. CASE Stop(p)
    BY <1>2 DEF Move
<1>3. CASE Release(p, t.locks, t.result)
    <2>1. "unlocking" \in RenamePcs
        BY DEF RenamePcs
    <2>2. t \in Transaction /\ t.pc = "unlocking" /\ Renaming(t, reply[p], fs)
            /\ t.locks \subseteq OwnOf(t, reply[p])
        BY <1>1, <2>1, RenameIs, Zenon
    <2>3. t.result \in Statuses
        BY <2>2, FieldsOfTransaction
    <2>4. /\ Covers(t.locks, t.op.parent) /\ Covers(t.locks, t.op.new_parent)
          /\ Covers(t.locks, t.inode)
          => /\ t.inode \in {OldName(t, fs), NewName(t, fs)}
             /\ t.result = "Ok" => NewName(t, fs) = t.inode /\ OldName(t, fs) = NoInode
        BY <2>2, Zenon DEF Renaming, Has, Covers
    <2> QED
        BY <1>1, <1>3, <2>1, <2>2, <2>3, <2>4, ReleaseMoves, Zenon
<1> QED
    BY <1>1, <1>2, <1>3

\* An error of a request: the unlock loop begins, and the inode has the old
\* name still or the new one already.
LEMMA ReleaseIfErrorMoves ==
    ASSUME TxInv, NEW p \in Procs, ReleaseIfError(p)
    PROVE  Move(p)
<1> DEFINE t == tx[p]
<1>1. PICK pc \in {"parent_locked", "new_parent_locked", "inode_locked", "dest_locked", "replaced",
                   "linked", "old_removed", "reparented"} :
        At(p, {"rename"}, pc) /\ ~Succeeds(p) /\ Release(p, t.locks, reply[p].status)
    BY DEF ReleaseIfError
<1>2. pc \in RenamePcs
    BY DEF RenamePcs, AskPcs
<1>3. /\ t.pc = pc /\ Renaming(t, reply[p], fs) /\ t.locks \in SUBSET (Inodes \X Nat)
      /\ t.locks \subseteq OwnOf(t, reply[p]) /\ reply[p] \in Responses
    BY <1>1, <1>2, RenameIs, Zenon
<1>4. reply[p].status \in Statuses /\ reply[p].status # "Ok"
    BY <1>1, <1>3 DEF Responses, Succeeds
<1>5. ~Covers(t.locks, NoInode)
    BY <1>3, LockTableAssumption DEF Covers
<1>6. Covers(t.locks, t.inode) => t.inode \in {OldName(t, fs), NewName(t, fs)}
    BY <1>3, <1>5, Zenon DEF Renaming
<1> QED
    BY <1>1, <1>2, <1>3, <1>4, <1>6, ReleaseMoves, Zenon

------------------------------------------------------------------------------
(***************************************************************************)
(* Reads that fail                                                         *)
(***************************************************************************)
\* The getattrs of unlink and rmdir under the lock
LEMMA ReadOfTargetFailsMoves ==
    ASSUME TxInv, NEW p \in Procs, ReadOfTargetFails(p)
    PROVE  Move(p)
<1> DEFINE lock == <<tx[p].inode, reply[p].id>>
           next == [tx[p] EXCEPT !.pc = "removed", !.locks = {lock}]
<1>1. At(p, {"unlink", "rmdir"}, "locked") /\ Succeeds(p) /\ LoseRead(p, "GetAttr", next)
    BY Zenon DEF ReadOfTargetFails
<1>2. /\ tx[p] \in Transaction /\ Shape(tx[p]) /\ tx[p].pc = "locked" /\ reply[p] # Waiting
      /\ tx[p].op \in Operations /\ tx[p].op.type \in {"unlink", "rmdir"}
      /\ Answered(tx[p], reply[p])
    BY <1>1, AtIs
<1>3. tx[p].inode \in Inodes /\ reply[p].id \in Nat /\ lock \in OwnOf(tx[p], reply[p])
    <2>1. reply[p].status = "Ok"
        BY <1>1, Zenon DEF Succeeds
    <2>2. Asked(tx[p]) = tx[p].inode /\ "locked" \in AskPcs
        BY <1>2 DEF Asked, AskPcs
    <2> QED
        BY <1>2, <2>1, <2>2, Zenon DEF Shape, Answered, OwnOf
<1>4. {lock} \in SUBSET (Inodes \X Nat)
    BY <1>3
<1> HIDE DEF lock
<1>5. /\ next \in Transaction /\ next.pc = "removed" /\ next.op = tx[p].op
      /\ next.inode = tx[p].inode /\ next.locks = {lock}
    BY <1>2, <1>4, PlainPcsAre, Zenon DEF Transaction
<1> HIDE DEF next
<1>6. Shape(next)
    BY <1>2, <1>3, <1>5 DEF Shape, RenamePcs, AskPcs
<1>7. next.op.type # "rename"
    BY <1>2, <1>5, Zenon
<1>8. next.locks \subseteq OwnOf(tx[p], reply[p])
    BY <1>3, <1>5, Zenon
<1> QED
    BY <1>1, <1>2, <1>5, <1>6, <1>7, <1>8, FailMoves, Zenon

\* The first and the last read of rmdir
LEMMA ReadOfRmdirFailsMoves ==
    ASSUME TxInv, NEW p \in Procs, ReadOfRmdirFails(p)
    PROVE  Move(p)
<1> DEFINE next == [tx[p] EXCEPT !.pc = "failed"]
<1>1. PICK pc \in {"begin", "gone"}, read \in {"Lookup", "CountLinks"} :
        At(p, {"rmdir"}, pc) /\ LoseRead(p, read, next)
    BY Zenon DEF ReadOfRmdirFails
<1>2. /\ tx[p] \in Transaction /\ reply[p] # Waiting
      /\ tx[p].op \in Operations /\ tx[p].op.type = "rmdir"
      /\ tx[p].locks \subseteq OwnOf(tx[p], reply[p])
    BY <1>1, AtIs
<1>3. /\ next \in Transaction /\ next.pc = "failed" /\ next.op = tx[p].op
      /\ next.locks = tx[p].locks
    BY <1>2, PlainPcsAre, Zenon DEF Transaction
<1> HIDE DEF next
<1>4. Shape(next)
    BY <1>2, <1>3 DEF Shape, RenamePcs, AskPcs
<1>5. next.op.type # "rename" /\ next.locks \subseteq OwnOf(tx[p], reply[p])
    BY <1>2, <1>3, Zenon
<1> QED
    BY <1>1, <1>2, <1>3, <1>4, <1>5, FailMoves, Zenon

\* A read of rename: it keeps the locks that it has and what it knows of the
\* names.
LEMMA RenameKeepsLocks ==
    ASSUME TxInv, NEW p \in Procs, NEW pc \in AskPcs \ {"locked"}, At(p, {"rename"}, pc), Succeeds(p),
           NEW i, i = Asked(tx[p]), NEW then \in {"new_parent_locked", "inode_locked", "dest_locked"},
           \/ pc = then
           \/ pc = "parent_locked" /\ then = "new_parent_locked" /\ tx[p].op.parent = tx[p].op.new_parent,
           LoseRead(p, "Lookup", [tx[p] EXCEPT !.pc = then, !.locks = Holding(p, i)])
    PROVE  Move(p)
<1> DEFINE t == tx[p]
           next == [t EXCEPT !.pc = then, !.locks = Holding(p, i)]
<1>1. pc \in RenamePcs
    BY Zenon DEF RenamePcs
<1>2. /\ t \in Transaction /\ Shape(t) /\ t.pc = pc /\ t.op \in Operations /\ t.op.type = "rename"
      /\ reply[p] # Waiting /\ Renaming(t, reply[p], fs)
      /\ OwnOf(t, reply[p]) \in SUBSET (Inodes \X Nat)
    BY <1>1, RenameIs, Zenon
<1>3. /\ Holding(p, i) = OwnOf(t, reply[p])
      /\ Covers(Holding(p, i), i)
      /\ \A j : Has(t, j) => Covers(Holding(p, i), j)
    BY HoldingIs, Zenon
<1>4. then \in Pcs
    BY DEF Pcs, RenamePcs, AskPcs
<1>5. /\ next \in Transaction /\ next.pc = then /\ next.op = t.op /\ next.inode = t.inode
      /\ next.dest = t.dest /\ next.locks = Holding(p, i)
    BY <1>2, <1>3, <1>4, Zenon DEF Transaction
<1>6. LoseRead(p, "Lookup", next)
    BY Zenon
<1> HIDE DEF next
<1>7. \A j : (Has(t, j) \/ j = i) => Has(next, j)
    BY <1>3, <1>5, Zenon DEF Has, Covers
<1>8. Shape(next)
    BY <1>2, <1>5 DEF Shape, RenamePcs, AskPcs
<1>9. /\ OldName(next, fs) = OldName(t, fs) /\ NewName(next, fs) = NewName(t, fs)
      /\ Failure.status # "Ok"
    BY <1>5 DEF OldName, NewName, Failure, Reply
<1>10. Renaming(next, Failure, fs)
    <2>1. CASE then = "new_parent_locked"
        <3>1. t.inode = NoInode
            BY <1>2, <2>1, Zenon DEF Renaming
        <3>2. Has(next, t.op.parent)
            <4>1. CASE pc = "parent_locked"
                BY <1>2, <1>7, <4>1, Zenon DEF Asked
            <4>2. CASE pc = "new_parent_locked"
                BY <1>2, <1>7, <4>2 DEF Renaming, RenamePcs, AskPcs
            <4> QED
                BY <2>1, <4>1, <4>2, Zenon
        <3> QED
            BY <1>5, <2>1, <3>1, <3>2 DEF Renaming, RenamePcs, AskPcs
    <2>2. CASE then = "inode_locked"
        <3>1. /\ Has(t, t.op.parent) /\ Has(t, t.op.new_parent) /\ t.inode \in Inodes
              /\ OldName(t, fs) = t.inode
            BY <1>2, <2>2 DEF Renaming, RenamePcs, AskPcs
        <3>2. Has(next, t.op.parent) /\ Has(next, t.op.new_parent)
            BY <1>7, <3>1, Zenon
        <3> QED
            BY <1>5, <1>9, <2>2, <3>1, <3>2 DEF Renaming, RenamePcs, AskPcs
    <2>3. CASE then = "dest_locked"
        <3>1. /\ Has(t, t.op.parent) /\ Has(t, t.op.new_parent) /\ Has(t, t.inode) /\ t.inode \in Inodes
              /\ OldName(t, fs) = t.inode /\ NewName(t, fs) = t.dest
            BY <1>2, <2>3 DEF Renaming, RenamePcs, AskPcs
        <3>2. Has(next, t.op.parent) /\ Has(next, t.op.new_parent) /\ Has(next, t.inode)
            BY <1>7, <3>1, Zenon
        <3> QED
            BY <1>5, <1>9, <2>3, <3>1, <3>2 DEF Renaming, RenamePcs, AskPcs
    <2> QED
        BY <2>1, <2>2, <2>3, Zenon
<1>11. next.locks \subseteq OwnOf(t, reply[p])
    BY <1>3, <1>5, Zenon
<1> QED
    BY <1>2, <1>5, <1>6, <1>8, <1>10, <1>11, FailMoves, Zenon

\* The reads of rename fail wherever it makes one.
LEMMA ReadOfRenameFailsMoves ==
    ASSUME TxInv, NEW p \in Procs, ReadOfRenameFails(p)
    PROVE  Move(p)
<1> DEFINE t == tx[p]
           Fails(pc, i) == LoseRead(p, "Lookup", [t EXCEPT !.pc = pc, !.locks = Holding(p, i)])
<1>1. Succeeds(p)
    BY Zenon DEF ReadOfRenameFails
<1>2. /\ {"parent_locked", "new_parent_locked", "inode_locked", "dest_locked"} \subseteq AskPcs \ {"locked"}
      /\ \A pc : At(p, {"rename"}, pc) => t.pc = pc
    BY DEF AskPcs, At
<1>3. CASE /\ At(p, {"rename"}, "parent_locked") /\ t.op.parent = t.op.new_parent
           /\ Fails("new_parent_locked", t.op.parent)
    <2>1. t.op.parent = Asked(t)
        BY <1>2, <1>3 DEF Asked
    <2> QED
        BY <1>1, <1>2, <1>3, <2>1, RenameKeepsLocks, Zenon
<1>4. CASE At(p, {"rename"}, "new_parent_locked") /\ Fails("new_parent_locked", t.op.new_parent)
    <2>1. t.op.new_parent = Asked(t)
        BY <1>2, <1>4 DEF Asked
    <2> QED
        BY <1>1, <1>2, <1>4, <2>1, RenameKeepsLocks, Zenon
<1>5. CASE At(p, {"rename"}, "inode_locked") /\ Fails("inode_locked", t.inode)
    <2>1. t.inode = Asked(t)
        BY <1>2, <1>5 DEF Asked
    <2> QED
        BY <1>1, <1>2, <1>5, <2>1, RenameKeepsLocks, Zenon
<1>6. CASE At(p, {"rename"}, "dest_locked") /\ Fails("dest_locked", t.dest)
    <2>1. t.dest = Asked(t)
        BY <1>2, <1>6 DEF Asked
    <2> QED
        BY <1>1, <1>2, <1>6, <2>1, RenameKeepsLocks, Zenon
<1> QED
    BY <1>3, <1>4, <1>5, <1>6, Zenon DEF ReadOfRenameFails

------------------------------------------------------------------------------
(***************************************************************************)
(* All steps                                                               *)
(***************************************************************************)
\* Every step of Transactions is a move of a transaction.
LEMMA StepMoves ==
    ASSUME TxInv, workload \in Workloads, NEW p \in Procs, Start(p) \/ Step(p) \/ Crash(p)
    PROVE  Move(p)
<1>1. CASE Start(p)
    BY <1>1, StartMoves, Zenon
<1>2. CASE Crash(p)
    BY <1>2, Zenon DEF Crash, Move
<1>3. CASE Step(p)
    <2>1. CASE \/ CreateBegins(p) \/ CreateLinks(p) \/ CreateEnds(p)
               \/ HardlinkBegins(p) \/ HardlinkLinks(p) \/ HardlinkEnds(p)
        BY <2>1, CreateBeginsMoves, CreateLinksMoves, CreateEndsMoves, HardlinkBeginsMoves,
           HardlinkLinksMoves, HardlinkEndsMoves, Zenon
    <2>2. CASE \/ UnlinkBegins(p) \/ UnlinkTried(p) \/ UnlinkDecrements(p)
               \/ RmdirBegins(p) \/ RmdirCounts(p) \/ RmdirDecrements(p)
        BY <2>2, UnlinkBeginsMoves, UnlinkTriedMoves, UnlinkDecrementsMoves, RmdirBeginsMoves,
           RmdirCountsMoves, RmdirDecrementsMoves, Zenon
    <2>3. CASE \/ LockTarget(p) \/ RemoveTarget(p) \/ TargetRemoved(p) \/ RemovalFailed(p)
               \/ GiveUp(p) \/ LastReply(p) \/ ReleaseIfError(p)
        BY <2>3, LockTargetMoves, RemoveTargetMoves, TargetRemovedMoves, RemovalFailedMoves, GiveUpMoves,
           LastReplyMoves, ReleaseIfErrorMoves, Zenon
    <2>4. CASE \/ RenameBegins(p) \/ ParentLocked(p) \/ NewParentLocked(p) \/ InodeLocked(p)
               \/ DestLocked(p) \/ Replaced(p) \/ DestDecremented(p)
        BY <2>4, RenameBeginsMoves, ParentLockedMoves, NewParentLockedMoves, InodeLockedMoves,
           DestLockedMoves, ReplacedMoves, DestDecrementedMoves, Zenon
    <2>5. CASE \/ Linked(p) \/ OldRemoved(p) \/ Reparented(p) \/ Touched(p) \/ Unlocking(p)
        BY <2>5, LinkedMoves, OldRemovedMoves, ReparentedMoves, TouchedMoves, UnlockingMoves, Zenon
    <2>6. CASE ReadOfTargetFails(p) \/ ReadOfRmdirFails(p) \/ ReadOfRenameFails(p)
        BY <2>6, ReadOfTargetFailsMoves, ReadOfRmdirFailsMoves, ReadOfRenameFailsMoves, Zenon
    <2> QED
        BY <1>3, <2>1, <2>2, <2>3, <2>4, <2>5, <2>6, Zenon DEF Step
<1> QED
    BY <1>1, <1>2, <1>3, Zenon

==============================================================================
