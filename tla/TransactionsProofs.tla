-------------------------- MODULE TransactionsProofs ---------------------------
(***************************************************************************)
(* What the transactions of transaction_coordinator.rs always keep: every  *)
(* step of a transaction is one of its moves (TransactionStepsProofs) and  *)
(* every move keeps the invariant (TransactionRequestsProofs).             *)
(***************************************************************************)
EXTENDS Transactions, LockTableProofs, TransactionStepsProofs, TransactionRequestsProofs

\* The lock table of lock_table.rs is as the moves of the transactions need it.
LEMMA LockTableServes == LockTableFacts
<1>1. \A S \in SUBSET Nat : S # {} => \E k \in S : \A l \in S : k <= l
    BY LeastElement, Zenon
<1>2. ASSUME NEW queue, LockWaiters(queue) # {}
      PROVE  /\ RequestsToProcess(queue) \in LockWaiters(queue)
             /\ \A l \in LockWaiters(queue) : RequestsToProcess(queue) <= l
    BY <1>2, FirstLockWaiter, Zenon
<1>3. ASSUME NEW lt \in Tables(Requests), NEW req \in Requests, req.inode \in Inodes
      PROVE  TableAfter(lt, req) \in Tables(Requests)
    BY <1>3, TableServed, ZenonT(30)
<1> QED
    BY <1>1, <1>2, <1>3, Zenon DEF LockTableFacts

\* At the start no transaction is under way, nothing is locked and nobody waits.
LEMMA InitInv ==
    Init => TxInv
<1> SUFFICES ASSUME Init PROVE TxInv
    BY Zenon
<1>1. \A p \in Procs : tx[p] = NoTransaction /\ reply[p] = Idle
    BY Zenon DEF Init
<1>2. /\ NoTransaction \in Transaction /\ NoTransaction.pc = "idle" /\ NoTransaction.locks = {}
      /\ NoTransaction.inode = NoInode /\ NoTransaction.op.type = "none"
    <2>1. "idle" \in Pcs /\ "Ok" \in Statuses
        BY Zenon DEF Pcs, Statuses
    <2> QED
        BY <2>1, Zenon DEF NoTransaction, Transaction
<1>3. Idle \in Responses /\ Idle.status = "Ok"
    BY SomeReplies, Zenon
<1>4. Shape(NoTransaction) /\ Answered(NoTransaction, Idle) /\ OwnOf(NoTransaction, Idle) = {}
    BY <1>2, <1>3, SomeReplies, Zenon DEF Shape, Answered, OwnOf, RenamePcs, AskPcs
<1>5. Consistent(fs)
    BY TransactionsAssumption, Zenon DEF Init
<1>6. /\ lock_table \in [Groups -> Tables(Requests)]
      /\ \A g \in Groups, i \in Inodes : lock_table[g].pending[i] = <<>>
    <2>1. /\ EmptyLockTable \in Tables(Requests)
          /\ \A i \in Inodes : EmptyLockTable.pending[i] = <<>>
        BY DEF EmptyLockTable, Tables
    <2> QED
        BY <2>1, Zenon DEF Init
<1>7. Types
    <2>1. tx \in [Procs -> Transaction] /\ reply \in [Procs -> Responses]
        BY <1>2, <1>3, Zenon DEF Init
    <2> QED
        BY <1>1, <1>4, <1>5, <1>6, <2>1, Zenon DEF Types
<1>8. Owners
    <2>1. \A p \in Procs : OwnOf(tx[p], reply[p]) = {} /\ tx[p].pc \notin AskPcs
        BY <1>1, <1>2, <1>4, ZenonT(30) DEF AskPcs
    <2> QED
        BY <2>1, Zenon DEF Owners
<1>9. Waiters
    <2>1. \A i \in Inodes : GroupOf(i) \in Groups
        BY GroupOfIs, TransactionsAssumption, Zenon
    <2>2. \A i \in Inodes : Queue(i) = <<>>
        BY <1>6, <2>1, Zenon DEF Queue
    <2>3. \A k \in 1..Len(<<>>) : FALSE
        OBVIOUS
    <2>4. \A i \in Inodes : \A k \in 1..Len(Queue(i)) : FALSE
        BY <2>2, <2>3, Zenon
    <2> QED
        BY <2>4, Zenon DEF Waiters
<1>10. Renames
    BY <1>1, <1>2, Zenon DEF Renames
<1>11. Unpanicked
    BY <1>1, <1>3, Zenon DEF Init, Unpanicked, Guarded
<1> QED
    BY <1>7, <1>8, <1>9, <1>10, <1>11, Zenon DEF TxInv

\* Every step of a transaction keeps the invariant, and none changes which
\* behaviour is under way.
LEMMA NextInv ==
    ASSUME TxInv, workload \in Workloads, [Next]_vars
    PROVE  TxInv' /\ (workload \in Workloads)'
<1>1. CASE UNCHANGED vars
    <2>1. /\ fs' = fs /\ lock_table' = lock_table /\ tx' = tx /\ reply' = reply /\ panics' = panics
          /\ workload' = workload
        BY <1>1, Zenon DEF vars
    <2>2. Types' /\ Renames' /\ Unpanicked'
        BY <2>1, Zenon DEF TxInv, Types, Renames, Unpanicked
    <2>3. Owners'
        BY <2>1, Zenon DEF TxInv, Owners, LockIdOf
    <2>4. \A i : Queue(i)' = Queue(i)
        BY <2>1, Zenon DEF Queue
    <2>5. Waiters'
        BY <2>1, <2>4, ZenonT(30) DEF TxInv, Waiters
    <2> QED
        BY <2>1, <2>2, <2>3, <2>5, Zenon DEF TxInv
<1>2. ASSUME NEW p \in Procs, Start(p) \/ Step(p) \/ Crash(p)
      PROVE  TxInv' /\ (workload \in Workloads)'
    <2>1. Move(p)
        BY <1>2, StepMoves, Zenon
    <2> QED
        BY <2>1, LockTableServes, MovesKeepInv, Zenon
<1> QED
    BY <1>1, <1>2, Zenon DEF Next

\* The invariant holds in every behaviour of the transactions of
\* transaction_coordinator.rs.
THEOREM TransactionsKeepInvariant == Spec => []TxInv
<1> DEFINE Inv == TxInv /\ workload \in Workloads
<1>1. Init => Inv
    BY InitInv, Zenon DEF Init
<1>2. Inv /\ [Next]_vars => Inv'
    BY NextInv, Zenon
<1> QED
    BY <1>1, <1>2, PTL DEF Spec

\* The metadata stays well-formed: inodes are numbered by the group that
\* makes them and the directories are the inodes that have a parent
\* (create_inode, update_parent and decrement_inode_link_count).
THEOREM TransactionsTypes == Spec => []TypeOK
<1>1. TxInv => TypeOK
    <2> SUFFICES ASSUME TxInv PROVE TypeOK
        BY Zenon
    <2>1. /\ fs \in FileSystems
          /\ \A g \in Groups : GroupOf(fs.next_inode[g]) = g
        BY Zenon DEF TxInv, Types, Consistent
    <2>2. ASSUME NEW i \in Inodes
          PROVE  IsKind(i, "Directory") <=> fs.parents[i] # NoInode
        <3>1. (Exists(fs, i) /\ fs.attrs[i].kind = "Directory") <=> fs.parents[i] # NoInode
            BY Zenon DEF TxInv, Types, Consistent
        <3>2. i # NoInode
            BY LockTableAssumption, Zenon
        <3> QED
            BY <3>1, <3>2, Zenon DEF IsKind
    <2> QED
        BY <2>1, <2>2, Zenon DEF TypeOK
<1> QED
    BY <1>1, TransactionsKeepInvariant, PTL

\* A rename that has locked both directories and the inode never loses it: the
\* inode has its old or its new name, and a rename that succeeds has moved it
\* (rename_transaction).
THEOREM RenamesKeepFiles == Spec => []RenameKeepsFile
<1>1. TxInv => RenameKeepsFile
    <2> SUFFICES ASSUME TxInv, NEW p \in Procs, tx[p].op.type = "rename",
                        Has(tx[p], tx[p].op.parent), Has(tx[p], tx[p].op.new_parent),
                        Has(tx[p], tx[p].inode)
                 PROVE  /\ tx[p].inode \in {OldName(tx[p], fs), NewName(tx[p], fs)}
                        /\ tx[p].pc = "unlocking" /\ tx[p].result = "Ok"
                             => NewName(tx[p], fs) = tx[p].inode /\ OldName(tx[p], fs) = NoInode
        BY Zenon DEF RenameKeepsFile, Has, OldName, NewName
    <2>1. tx[p] \in Transaction /\ Shape(tx[p]) /\ Renaming(tx[p], reply[p], fs)
        BY ZenonT(30) DEF TxInv, Types, Renames
    <2> DEFINE t == tx[p]
    <2>2. t.locks \in SUBSET (Inodes \X Nat)
        BY <2>1, Zenon DEF Transaction
    <2>3. t.locks # {} /\ t.inode # NoInode
        BY <2>2, LockTableAssumption, Zenon DEF Has
    <2>4. t.pc \in RenamePcs \cup {"begin", "done"}
        BY <2>1, Zenon DEF Shape
    <2>5. t.pc \in RenamePcs \ {"parent_locked", "new_parent_locked"}
        BY <2>1, <2>3, <2>4, Zenon DEF Renaming
    <2> QED
        BY <2>1, <2>5, Zenon DEF Renaming, RenamePcs, AskPcs
<1> QED
    BY <1>1, TransactionsKeepInvariant, PTL

\* No two transactions hold the lock of one inode, and what a transaction holds
\* is what the group of the inode has granted.
LocksExclude ==
    /\ \A p \in Procs : \A l \in tx[p].locks : LockIdOf(l[1]) = l[2]
    /\ \A p, q \in Procs : \A l \in tx[p].locks, m \in tx[q].locks : l[1] = m[1] => p = q

\* The inode locks of rename, unlink and rmdir exclude each other although the
\* groups that keep them know nothing of one another.
THEOREM TransactionLocksExclude == Spec => []LocksExclude
<1>1. TxInv => LocksExclude
    <2> SUFFICES ASSUME TxInv PROVE LocksExclude
        OBVIOUS
    <2>1. \A p \in Procs : tx[p].locks \in SUBSET (Inodes \X Nat)
        BY Zenon DEF TxInv, Types, Transaction
    <2>2. \A p \in Procs : tx[p].locks \subseteq OwnOf(tx[p], reply[p])
        BY Zenon DEF OwnOf
    <2>3. \A p \in Procs : \A l \in tx[p].locks : LockIdOf(l[1]) = l[2]
        BY <2>2, Zenon DEF TxInv, Owners
    <2>4. ASSUME NEW p \in Procs, NEW q \in Procs, NEW l \in tx[p].locks, NEW m \in tx[q].locks,
                 l[1] = m[1], p # q
          PROVE  FALSE
        <3>1. l[2] = m[2]
            <4>1. LockIdOf(l[1]) = l[2] /\ LockIdOf(m[1]) = m[2]
                BY <2>3, Zenon
            <4> QED
                BY <2>4, <4>1, Zenon
        <3>2. l = m
            <4>1. l \in Inodes \X Nat /\ m \in Inodes \X Nat
                BY <2>1, Zenon
            <4>2. l = <<l[1], l[2]>> /\ m = <<m[1], m[2]>>
                BY <4>1, PairIs, Zenon
            <4> QED
                BY <2>4, <3>1, <4>2, Zenon
        <3> QED
            BY <2>2, <2>4, <3>2, Zenon DEF TxInv, Owners
    <2> QED
        BY <2>3, <2>4, Zenon DEF LocksExclude
<1> QED
    BY <1>1, TransactionsKeepInvariant, PTL

\* The assertions and unwraps that rely on a lock: the lock id of a request is
\* the one of the table (lock_table.rs), what replace_link returns and
\* remove_link removes is what the rename looked up, and only directories are
\* given a parent.
GuardedHolds == panics \cap Guarded = {}

\* Whatever runs, whoever crashes and whichever request gets lost, none of the
\* assertions that a lock guards ever fails.
THEOREM LocksGuardAssertions == Spec => []GuardedHolds
<1>1. TxInv => GuardedHolds
    BY Zenon DEF TxInv, Unpanicked, GuardedHolds
<1> QED
    BY <1>1, TransactionsKeepInvariant, PTL
==============================================================================
