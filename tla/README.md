# FleetFS in TLA+

Specifications of FleetFS, their model-checking configurations, and proofs.
Paths below are relative to the repository; `src/storage/...` is Rust source.

## 1. The system

FleetFS is a distributed file system. Storage nodes form *groups* (rgroups);
every inode belongs to the group `inode % number of groups`; the members of a
group replicate its metadata through the consensus library raxos and stripe
the contents of its files over each other.

| part | source | module | state of the model |
|---|---|---|---|
| inode locks of a group and the requests that wait for them | `storage/lock_table.rs` | `LockTable`, `LockProtocol`, `LockTableProofs`, `LockProtocolProofs` | modelled, proved |
| member of a group: submit, apply, answer, read barrier, sync | `storage/raft_node.rs` | `ConsensusNode`, `ConsensusNodeProofs`, `ConsensusNodeWrites` | partly; safety proved |
| transactions over several groups | `storage/message_handlers/transaction_coordinator.rs` | `TransactionRequests`, `TransactionSteps`, `Transactions`, `TransactionsInvariant`, `TransactionRequestsProofs`, `TransactionStepsProofs`, `TransactionsProofs` | all operations; responses are not lost; locks and renames proved |
| metadata tables | `storage/local/metadata_storage.rs`, `write_handler.rs` | `MetadataStorage`, `Attributes` | all but times and durability |
| striped contents | `storage/local/data_storage.rs`, `file_storage.rs` | `DataStorage`, `FileReplicas` | all but fsync |
| fsck | `storage/message_handlers/fsck_handler.rs` | `FileReplicas` | modelled |
| connections | `client/tcp_client.rs`, `client/peer_client.rs`, `storage/storage_node.rs` | `Connections`, `Rpc`, `ClientProofs` | modelled, proved |
| FUSE adapter and its client | `fuse_adapter.rs`, `client/node_client.rs` | `FuseClient` | handles, checks, handlers of several steps |
| placement and forwarding | `base/utils.rs`, `base/local_context.rs`, `storage/raft_group_manager.rs`, `client/cluster_client.rs` | `Placement`, `ClientProofs` | modelled, proved |
| request router | `storage/message_handlers/router.rs` | spread over `Placement`, `ConsensusNode`, `TransactionSteps`, `FileReplicas`, `FuseClient` | partly |
| message encoding, command line | `base/message_types.rs`, `main.rs` | | not modelled (`meta_info` is) |

How they interact: the kernel calls the FUSE adapter, which makes one or more
requests through its client (`FuseClient`). A request travels over a connection
(`Connections`, which implements `Rpc`) to a node, which handles or forwards it
(`Placement`). What changes metadata of one group is decided by the group
(`ConsensusNode`) and goes through its lock table (`LockTable`); what concerns
several groups is a transaction (`Transactions`), whose requests do the same.
Contents are read from all members of a group (`FileReplicas`).

What runs concurrently: a node has one task per connection, on one worker
thread, and the periodic tick on the main thread. A request of a client is
handled by the node it arrives at or forwarded once. A transaction is a task
that awaits one request after the other, so transactions interleave at every
`await`, also when they run on one node. Applying a decided slot is not
interleaved with another slot of the same group, but a client can be answered
in the middle of it.

## 2. The modules

**LockTable** has the operators `IsLocked`, `WaitForLock`, `Lock` and `Unlock`,
and the way a command goes through them (`TableAfter`, `GrantedTo`,
`ToProcess`, from `_process_lock_table`). They map tables to tables; the three
modules that contain a lock table use the same text.

**LockProtocol** puts one lock table together with its clients. A client locks
an inode, reads under the lock, writes with its lock id, writes without one,
and unlocks. `held` is what a client believes; `view` records whether what it
read under a lock is still true. Clients lock in any order, and a client in
`Stopping` may stop with its locks held. Submitting and applying is one step, since
all replicas apply the same commands in the same order (`ConsensusNode`).

**ConsensusNode** has the members of a group. raxos is external and modelled by
what `raft_node.rs` relies on: a submitted command is decided once, in one
slot, and slots are delivered in order to every member. Applying a slot is one
step per command and one for its end, because `get_latest_local_commit` takes
no lock and clients are answered before `applied_index` is stored.

**MetadataStorage** has the tables and one operator per operation of a
transaction; an operation returns a reply and the new tables. Where the code
panics, the reply says so.

**Transactions** composes `MetadataStorage` and the lock tables of all groups
with many coordinators. A transaction's `pc` names the reply it waits for; an
action takes that reply and runs to the next request. Reads under the
transaction's own lock share a step with the next request. The kernel of the
client (`KernelAllows`, external) refuses operations that make no sense when
they start; what it saw may have changed later. `Crash` stops a coordinator
for good, with its locks left in the tables. The specification is in three
modules: `TransactionRequests` has the state and what a request does to it,
`TransactionSteps` the actions of the five operations, `Transactions` the
specification and its properties.

Each request and each read may also get lost on its way to the group (`Lose`,
`LoseRead`): it is not executed, the coordinator gets `ErrorCode::Uncategorized`
at that point and takes the error path of the code. Where a read shares a step
with the next request, its failure is a step of its own (`ReadOfTargetFails`,
`ReadOfRmdirFails`, `ReadOfRenameFails`).

**DataStorage** keeps the local file of each replica beside the contents that
the file should have. All replicas commit in one step there.

**FileReplicas** uses the striping of `DataStorage` on replicas that apply the
decided commands at their own pace, the metadata of a command before its data.
One observer reads the file (barrier, local blocks, `ReadRaw` at each peer,
join) or runs fsck (barrier, checksum, barrier and checksum of each peer). The
slot that a reader then requires of its peers is one that its home replica had
applied at some point since the read began, not always its latest. A
replica may lose its data file, as `test.sh` does on purpose. An error of a
peer fails an `unwrap` of the peer client; the read or fsck then ends as
"panicked".

**Attributes** has the operations on the attributes of a file as operators,
with `check_access` and the rules for extended attributes, and beside them the
rules of POSIX written without bits (`Permits`), for comparison.

**FuseClient** has several mounts. A handler of the adapter is a sequence of
steps: requests to the servers and checks of its own. An action takes one step;
an error ends the handler. Requests may fail as `Rpc` allows: not executed, or
executed later, while the client has returned `EIO`. Servers are atomic here
(`Transactions` is about that).

**Rpc** is the abstract specification of a connection: a request is executed at
most once, also after its call has failed, and a call returns the response to
its own request or an error. **Connections** is the detailed one. Its clients
are either a `TcpClient` (a mutex, one stored connection, timeouts, a second
attempt when the write fails) or a `TcpPeerClient` (a pool, no timeouts); the
server has a handler for each connection. Nothing on the wire says which
request a response answers. `Stage` is the refinement mapping, and
`ImplementsRpc` says that `Connections` implements `Rpc`.

**Placement** follows one request through a cluster in which every node
computes the placement for itself, from its own id and its own list of peers
(`peers`, which does not contain the node itself).

Operators whose comment says *a bug to compare with* are wrong versions of the
operator that follows them. No specification uses them; each shows that some
property notices that mistake.

## 3. What is checked

| run | config | bounds | shows |
|---|---|---|---|
| `lock_protocol` | `LockProtocol.cfg` | 3 clients of which 1 may stop, 2 inodes, 4 locks | mutual exclusion, valid lock ids, exact queues, isolation under a lock; only circles and stopped clients keep a waiter waiting |
| `group_writes` | `MCGroupWrites.cfg` | 2 members, 2 writers, 2 lockers, batches of 2 | replicas agree, lock ids are valid on every replica, writes are linearizable |
| `group_reads` | `MCGroupReads.cfg` | 3 members, 1 writer, 2 readers, batches of 2 | barrier reads and raw reads at a peer are fresh, sync requests are served, every write, barrier and sync is answered |
| `group_answers` | `MCGroupAnswers.cfg` | 2 members, 1 writer, 2 lockers, batches of 2 | a write behind a lock and a lock behind a lock are answered |
| `transactions` | `MCTransactions.cfg` | 3 transactions, 1 crash, lost request or failed read, 2 groups, 2 names, 4 workloads | link counts, tables and locks consistent at rest, no failed assertion, rename never loses the file, only renames wait for each other |
| `data_striping` | `DataStorage.cfg` | blocks of 2, files up to 8 bytes, 1 to 3 replicas | reads return what was written |
| `placement` | `Placement.cfg` | clusters out of 6 node ids, 12 inodes | nodes number each other alike, members agree, one hop is enough |
| `striped_reads` | `MCFileReplicas.cfg` | 2 replicas, blocks of 2, files up to 5 bytes, 2 commands, 2 lost data files | reads beside writes are regular, fsck finds lost data and no other |
| `client_calls` | `MCFuseClient.cfg` | 2 mounts, 4 users, 3 kernel requests out of 47, 1 failed request | handles are distinct and keep their rights, changes are by right, listings are complete |
| `connections` | `Connections.cfg` | 2 callers with 2 calls each, 3 connections, pool of 1, 1 break | `Connections` implements `Rpc`, idle connections are quiet, threads return |
| `rmdir_create` | `MCRmdirCreate.cfg` | 2 transactions | **violated**, see section 5 |
| `rmdir_reuse` | `MCRmdirReuse.cfg` | 3 transactions | **violated**, see section 5 |

Why the bounds are enough to be interesting. With three clients on an inode,
one holds the lock, one waits for it and one has a plain write queued before or
after that Lock, which are the cases `unlock` tells apart. Two commands in a
slot are needed for an answer in the middle of a slot, two readers at one peer
for a queue of sync requests. Three transactions let one change what a second
has read while a third holds a lock. With blocks of two bytes and three
replicas, eight bytes are more than a whole stripe, so there are partial first
and last blocks, holes, and ranks before, at and after an index. Two replicas
and two commands let a replica be ahead of the reader and behind it; sizes 1
and 4 make blocks that are short, whole and missing. Three kernel requests are
an open, a change by somebody else and a use of the handle. Three connections
are one that breaks, the one of the second attempt and the one of the other
caller; a pool of one overflows with two callers.

The workloads of `MCTransactions` start from file systems that are built with
the operations of `MetadataStorage`. Processes are interchangeable there
(symmetry), and so are mounts in `MCFuseClient`; no run with a liveness
property uses symmetry. `transactions`, `client_calls` and `striped_reads` do
not check for deadlock, because they end when their requests are used up.

`TypeOK` also says things that take more than one step to break: that a
group's inode counter stays in the group, and that exactly the directories have
a parent.

### Fairness

`LockProtocol!FairSpec`: a client that holds a lock goes on to unlock it once
its own requests are answered, unless it is one that may stop in the middle
(`Stopping`). Nothing is assumed about the order in which clients lock, as
`rename_transaction_lock_context` sorts nothing. `WaitersAreServed` therefore says
that a waiter is served, or that it waits, directly or through others, for a
client that stopped or for itself.

`ConsensusNode!FairSpec`: raxos decides what was proposed (a quorum is alive),
every member goes on applying (driven by messages and by the tick every
100 ms), and tasks run when they can; a locker is a task too, and goes on from
the grant of its lock to the Unlock. Nobody has to begin anything.

`Connections!FairSpec`: a thread that can take a step of its call takes it. Its
system calls return, at the latest when their timeout of 10 s has passed, and
the mutex is released by whoever holds it. That is assumed of `TcpClient` only,
and nothing of the server or the network: `ThreadsReturn` holds although the
server may never answer. `TcpPeerClient` sets no timeouts, and its calls may
wait for ever.

`Transactions` has no fairness. `SomeoneCanRun` is the safety side of progress:
while no coordinator has crashed, no Unlock got lost and no rename is involved,
some unfinished transaction has its reply.

### Faults

| fault | where | what the code does |
|---|---|---|
| connection breaks, with what is on its way | `Connections!Break` | the caller gets an error; the connection is not used again |
| write fails with a part of the frame sent | `Connections!WriteFails` | `TcpClient` tries once more on a new connection |
| no response in time | `Connections!ReadFails` | error; the request may still be executed |
| call fails, request executed never or later | `FuseClient!LoseRequest`, `LoseResponse`, `ServeLate` | the handler returns `EIO` |
| request of a transaction lost | `Transactions!Lose` | rollback, release of locks, or a leak (section 5) |
| lookup or getattrs of a transaction fails | `Transactions!LoseRead` | release of locks; a leak in the last getattrs of rmdir |
| coordinator stops | `Transactions!Crash` | nothing: locks and half-made links stay |
| data file lost | `FileReplicas!Lose` | fsck reports it |
| replicas lag | `ConsensusNode`, `FileReplicas` | barriers and sync |

## 4. What is proved

### The lock table

`LockProtocolProofs` proves six invariants of `LockProtocol` for any set of
inodes (numbers) and clients, any bound on locks, and any clients that stop: `TypeOK`,
`MutualExclusion`, `LockIdsStayCurrent`, `NoOrphanedWaiters`,
`WaitersAreQueuedOnce`, `IsolatedUnderLock`. Assumptions: `NoInode` is no
inode, `NoLockId` is no number (`LockTableAssumption`), and `ClientAssumption`.

None of them is inductive alone. `MutualExclusion` needs to know that an inode
which is locked in the table has a holder, and one that is not has none; a
grant out of the queue needs to know that the client it goes to waits, is in
no other queue and has no lock on that inode. The inductive invariant `LockInv`
adds

- `LockedIsHeld`: a locked inode has a client that holds it;
- `WaitersFindLock`: only locked inodes have a queue;
- `QueuesWellFormed`: a queued request is for that inode, names no lock, and
  its client waits and has no lock on the inode;
- `NobodyQueuedTwice` and `NobodyDropped`: the two halves of
  `WaitersAreQueuedOnce`.

A step is one of five cases, each with a lemma on what `Apply` does
(`ApplyQueued`, `ApplyGranted`, `ApplyCommitted`, `ApplyUnlockFree`,
`ApplyUnlockGrant`) and one on why `LockInv` survives it (`QueuedStep` and so
on). The scan of `unlock` for the first Lock request rests on `LeastElement`.

`LockTableProofs` has the facts about the operators of `LockTable` alone. Its
lemma `TableMoves` says that a command moves requests through the table in one
of four ways: it joins a queue; it is a Lock that is granted, or an Unlock of
nothing, and moves none; it goes through; or it takes a part off the head of a
queue, which is committed but for the Lock at its end. The proofs about groups
rest on it.

### The group

`ConsensusNodeProofs` and `ConsensusNodeWrites` prove all safety properties of
`ConsensusNode` but one, for any set of members and clients, any inodes and any
size of batches: `TypeOK`, `ReplicasAgree`, `BarrierIsFresh`, `PeerReadIsFresh`,
`SyncQueueDrains` and `WritesLinearize`. Assumptions (`GroupAssumption`): every
client has its node, inode and peer, and slots do not start at 0.

What a member has is a function of how much of the log it has applied, but the
state of a model has no place for what a member had earlier. The invariants
therefore say that there *is* a history: `History(H, S, P)` says that `H[s][p]`
is the lock table and the commits after `s` slots and `p` commands, that each
entry follows from the one before by the next command of the log, that `(S, P)`
is the last point any member has reached, and that every member is at its
entry. `HistoryStep` shows that each step keeps `H` or adds one entry
(`Continues`). `ReplicasAgree` follows at once. The inductive invariant
`GroupInv` adds

- `Waits`: `applied_index` matches the finished slots, nobody requires a slot
  that is not decided, `sync_requests` has distinct readers who wait there, and
  it is empty at a member that has applied the whole log: a request that is
  behind another one in the queue is for a decided slot too, so the last slot
  resolves them all. This gives `SyncQueueDrains`;
- `LastIsFresh`: what has been acknowledged is in the last entry;
- `ClientsAreServed`: `MustSee(c, s)` names the members that owe client `c` the
  writes from before it submitted (those that come to the slot of its command,
  its node after the barrier, the peer that has synced), and every entry from
  slot `s` on has these writes. The argument is that of the comment on
  `read_barrier`: a write that is acknowledged is in the last entry, and what is
  submitted later is decided in a slot after that one, because a slot that was
  decided earlier cannot contain it. An `applied_index` that was loaded in the
  middle of a slot is one less than the slot of the barrier; it is enough,
  because what must be seen is in the entry at the beginning of that slot.

For `WritesLinearize`, `WritesInv` adds that a write is decided once
(`DecidedOnce`), that every entry has each write once, committed or waiting for
one inode, and the commits in an order that respects real time
(`LinearHistory`), and that whoever has its answer is committed at its node
(`AcksAreCommitted`). A write that waits was decided before, so it may be
committed late, behind writes that were submitted after it; `AfterIsLinear`
shows that what it must follow is there all the same. `MovesOnce` turns
`TableMoves` into the fact that a write is never in two places.

`ConsensusNodeProofs` has what each action does, the types, the history and
`GroupInv`; `ConsensusNodeWrites` builds on it.

### The transactions

`TransactionsProofs` proves, for any number of transactions and groups, any
file systems to start from, any operations and any number of crashes, lost
requests and failed reads,

- `TransactionsTypes`: `TypeOK`, with the numbering of inodes by group and the
  match of directories and parents;
- `TransactionLocksExclude`: the lock of an inode has one owner, and its id is
  the one that the group has;
- `RenamesKeepFiles`: `RenameKeepsFile`, a rename never loses its file;
- `LocksGuardAssertions`: of the ways to panic, the four that a lock guards
  (a lock id that is stale, a link to replace that is gone, an old name that
  leads elsewhere, a parent for what is no directory) never happen.

Assumptions (`TransactionsAssumption`): inodes are numbers from 1, there is a
group, and the file systems to start from are `Consistent`: well-typed, with
counters that are in their group and above its inodes, and parents for
directories only.

`RenameKeepsFile` relates what a coordinator remembers over up to ten requests
to tables that everybody changes. It rests on locks, and those on who waits
where. The inductive invariant `TxInv` has

- `Types`: beside the types, what the `pc` of a transaction promises of its
  fields (`Shape`) and of the reply that it will find (`Answered`);
- `Owners`: the locks of a transaction, with the one that an unread reply grants
  (`OwnOf`), are in the tables with their ids; two transactions share none;
- `Waiters`: a queued request belongs to a transaction that waits for just this
  reply, has no lock id, and is queued once;
- `Renames`: for each `pc` of a rename, which locks it has and what it knows of
  its names: that the old name still leads to the inode, that the new one does,
  that the attributes it looked at are still those of the inode. Each is about
  an inode or a directory that it has locked;
- `Unpanicked`: none of the four panics above.

The proof is cut where the coordinator meets the groups. `Move` says what a
transaction may do in one step: send a request that suits it (`Proper`: it names
only locks that it owns and keeps no others, and what it knows afterwards
follows from the `Outcome` of the request), ask for a new inode, take a step
alone, lose a request or a read (`FailMove`) and go on knowing no more than
before, fail an assertion that no lock guards, or stop.
`TransactionsInvariant` has `TxInv` and the moves, and then

- `TransactionRequestsProofs` shows that every move keeps `TxInv`
  (`MovesKeepInv`), without looking at the actions. A request does one of four
  things to the table of its group (`ProposeIs`: it waits, is a Lock that is
  granted, is committed, or is an Unlock that sets a part of a queue free), and
  `SendWaits`, `SendGrants`, `SendCommits` and `SendUnlocks` say what each leaves
  of the invariant. The point is `Frame`: entries and attributes of an inode that
  another transaction has locked do not change, because a request that is
  committed either names the current lock id, and is then from the owner, or is
  for an inode that is free (`Kept`);
- `TransactionStepsProofs` shows that every action is a move (`StepMoves`),
  without looking at the lock tables. It has a lemma for each action
  (`LockSourceMoves`, `LinkNewNameMoves` and so on), which says that the state
  that the transaction goes on to fits the request that it makes;
- `TransactionsProofs` puts the two together. What `TransactionRequestsProofs`
  needs of the lock table (`LockTableFacts`: there is a first Lock in a queue
  that has one, and an access leaves a well-formed table) is a hypothesis of its
  lemmas; `LockTableServes` proves it here from `LockTableProofs`.

### The placement

`ClientProofs` proves `OneHopIsEnough` and `MembersAgree` of
`Placement` for any cluster of fewer than 65536 nodes (`PlacementAssumption`;
group ids are `u16`) whose size is a multiple of the number of replicas. The
groups of a node are those of a block of indices (`BlockOfIndices`); a node's
index is its rank among the sorted ids (`IndexIsRank`), whoever counts, since a
node that adds itself to its peers has the whole cluster (`EveryViewIsTheSame`);
so all nodes compute the same blocks (`ClusterAgrees`), and a block has as many nodes as there are
replicas (`GroupHasReplicas`). The inductive invariant `PlacementInv` says that
a request which was forwarded, or which names its group, is where it can be
handled; without it a second hop could not be excluded.

### The connections

`ClientProofs` proves of `Connections`, for any callers, any number of calls, connections
and breaks and any size of the pool (`ConnectionsAssumption`: these are
numbers, and the two "none" values are none of the others),

- `IdleAreQuiet`: `IdleConnectionsAreQuiet` is an invariant;
- `Implements`: `Spec => ImplementsRpc`, that is `Connections` implements `Rpc`;
- `TypeCorrect`: `TypeOK`, with the bound of the pool.

That a call gets its own response is not inductive: it depends on what can be
on the connection that a caller takes over. The inductive invariant `ConnInv`
has, beside the types,

- `Ownership`: a connection has one user at most, and none while it is stored
  or pooled;
- `Contents`: a connection carries at most one request or response; it carries
  nothing while it is stored or pooled or when a caller begins to write; and
  what it carries while a caller reads belongs to the call of that caller;
- `AtMostOnce`: a request that waits to be executed was not executed before, is
  at one connection only, and was written to the last byte, so its caller does
  not write again. This is why the second attempt of `TcpClient` is safe: it
  follows only a write that failed, and the server drops a frame that ends
  early;
- `Answers`: only calls that have returned have an answer.

For each action a lemma says what it does to the traffic on the connections
(`WriteTraffic`, `ReceiveTraffic` and so on), and `OwnershipHolds`,
`ContentsHold`, `AtMostOnceHolds` and `AnswersHold` use them. For the
refinement, `InvokeImplements`, `ExecuteImplements`, `ReadResponseImplements`
and `FailImplements` map four kinds of steps to the four actions of `Rpc`, and
all others leave its state alone (`PendingImplements`).

### Only model-checked

- All liveness (`WaitersAreServed`, `EveryClientIsAnswered`, `ThreadsReturn`):
  the prover handles neither fairness nor ENABLED.
- `LockIdsMatchEverywhere` of `ConsensusNode`. For a single table the same is
  proved (`LockIdsStayCurrent`).
- `LinksAreCounted`, `ConsistentAtRest`, `NoPanics` and `SomeoneCanRun` of
  `Transactions`. They compare the number of names of an inode with its count,
  say which assertions hold without a lock, and who waits for whom, for the
  workloads of the run. `NoPanics` is not true of every workload (section 5);
  what `LocksGuardAssertions` states is the part of it that is.
- `DataStorage`, whose `Join` is recursive, and with it `FileReplicas`.
- `Attributes` and `FuseClient`, which work on bits.

## 5. Where code and assertions disagree

**rmdir and create** (`rmdir_create`). `rmdir_transaction` checks that the
directory is empty and removes its link under the directory's lock, then
unlocks it, and only then deletes the inode. A create that is already under
way can link a file into the directory after the unlock;
`decrement_inode_link_count` then fails its assertion "Deleted a non-empty
directory inode", on every replica.

**rmdir and a reused name** (`rmdir_reuse`). The retry loop of
`rmdir_transaction` continues with whatever inode the name leads to, of any
kind. If a file has got the name meanwhile, its link is removed and
`assert_eq!(hardlinks, 2)` fails.

Known and stated by the code itself: renames that lock directories in opposite
order deadlock; `SomeoneCanRun` excepts workloads with renames. A read beside a
command that changes the size may combine replicas of different sizes; a TODO in
`read_raw` suspects as much, and `ReadsAreRegular` is about the other reads. After
a crash nothing releases the locks of the coordinator, and an Unlock that gets
lost leaves the inode locked; `ConsistentAtRest` is about behaviours in which every
transaction ended. When DecrementInode or a rollback gets lost the inode leaks
(as its comments say, or it panics with "Leaked inode"), and a rename that could not
remove the old name leaves both (`Torn`). rmdir reads the link count "just for
debuggability" after it has removed the link; when that read fails, it returns
without giving up the inode, which leaks too, though no comment says so. The
properties name these exceptions.
A file that is created or deleted while fsck runs may be reported as Corrupted,
and a peer that finds data missing makes fsck panic instead of reporting it.

## 6. Abstractions and assumptions

- Slots are numbered from 1 (`FirstSlot`). The code's `applied_index` of 0
  means that nothing was applied. raxos is external, so that its first slot is
  not 0 is an assumption (`GroupAssumption`), and a needed one: with slots from
  0 and the assumption dropped, TLC refutes `PeerReadIsFresh` on the instance of
  `group_reads`, while `BarrierIsFresh` and `SyncQueueDrains` still hold.
- In `Transactions`, of a file's mode only "others may write" and the sticky bit
  are kept; owners may write what is theirs and everybody may search every
  directory. `Attributes` has the mode bits, groups of users and extended
  attributes; of a time it keeps whether it is the old one, the clock's or a
  given one.
- A link count below zero is counted as a panic (`LinkCountOverflow`).
- The tables of all groups are one record; every operation touches one group.
- `FileReplicas` has one file and one observer; observers do not change
  anything, so several do not disturb each other. Every byte ever written is
  another number, so that a stale or misplaced byte shows.
- In `FuseClient` all files are in the root directory, which everybody may use,
  and the kernel makes no checks for the client.
- A call in `Connections` is encoded and decoded without errors.
- Members of a group do not fail in `ConsensusNode`; they may lag arbitrarily.

## 7. Not modelled

- Restarts of nodes: the counter of inodes, the durability of redb commits and
  fsync matter only then, and a node starts its raxos replica without stored
  state.
- Transactions whose request is executed and whose response is lost. What
  follows can be read off the code: create and hardlink roll back a link that
  was made. Nothing in the repository says what should hold then.
- raxos itself, a submit that it rejects, and its messages.
- mkdir, rmdir, statfs and fsync of the FUSE adapter, which pass one request on,
  calls it refuses with ENOSYS, and calls on the root directory other than
  listing it.
- The encoding of messages (generated by a macro), readiness and information
  requests, binding of sockets, the command line.
