---------------------------- MODULE ConsensusNode ----------------------------
(***************************************************************************)
(* The members of one replication group (ConsensusNode in                  *)
(* src/storage/raft_node.rs): commands are proposed at any member, decided *)
(* in slots by raxos, and applied by every member to its lock table and to *)
(* its file storage; reads go through a barrier and, for the part of a     *)
(* file that a peer stores, through sync at that peer                      *)
(* (Read and ReadRaw in src/storage/message_handlers/router.rs).           *)
(*                                                                         *)
(* raxos is a library and is modelled by what raft_node.rs relies on: a    *)
(* submitted command is decided once, in one slot, after it was submitted; *)
(* slots are delivered to every member in order; a slot has at least one   *)
(* command.                                                                *)
(*                                                                         *)
(* A member applies a slot while it holds the lock of its replica, so      *)
(* submit and sync wait for the slot to end. get_latest_local_commit takes *)
(* no lock, and a client is answered in the middle of a slot, before       *)
(* applied_index is stored: applying is therefore one step per command and *)
(* one for the end of the slot, and another thread can run in between.     *)
(***************************************************************************)
EXTENDS LockTable, Functions

CONSTANTS
    Nodes,          \* the members of the group
    Writers,        \* clients that write once
    Lockers,        \* clients that lock and unlock once
    Readers,        \* clients that read once, at their node and at a peer
    Home,           \* the node at which a client proposes
    Peer,           \* the node that a reader asks for raw data
    Target,         \* the inode that a client is about
    FirstSlot,      \* the number of the first slot that raxos delivers
    MaxBatch        \* bound: commands in one slot

Clients == Writers \cup Lockers \cup Readers

ASSUME GroupAssumption ==
    /\ Writers \cap Lockers = {} /\ Writers \cap Readers = {} /\ Lockers \cap Readers = {}
    /\ Home \in [Clients -> Nodes]
    /\ Peer \in [Readers -> Nodes]
    /\ Target \in [Clients -> Inodes]
    \* AtomicU64::new(0) stands for "nothing applied", so 0 is not a slot.
    /\ FirstSlot \in Nat \ {0}
    /\ MaxBatch \in Nat \ {0}

VARIABLES
    proposed,       \* commands submitted to raxos and not decided yet
    log,            \* the decided slots, each a sequence of commands
    slot,           \* slot[n]: how many slots n has finished
    pos,            \* pos[n]: how many commands of the next slot n has applied
    applied_index,  \* applied_index[n]: the counter that readers load
    lock_table,     \* lock_table[n]
    file_storage,   \* file_storage[n]: the writers whose write n committed
    responses,      \* responses[n]: the clients that n has a sender for
    sync_requests,  \* sync_requests[n]: <<index, reader>> that wait at n
    state,          \* state[c]: how far a client is
    lock_id,        \* lock_id[c]: the id in the Lock response of a locker
    required,       \* required[r]: required_commit of a reader's ReadRaw
    before          \* history: the writers that were acknowledged when the
                    \* client submitted its request

raxosVars == <<proposed, log>>
memberVars == <<slot, pos, applied_index, lock_table, file_storage, responses, sync_requests>>
clientVars == <<state, lock_id, required, before>>
vars == <<raxosVars, memberVars, clientVars>>

Command(type, c, id) == [type |-> type, inode |-> Target[c], lock_id |-> id, from |-> c]

Commands == [type : {"Barrier", "Write", "Lock", "Unlock"}, inode : Inodes,
             lock_id : Nat \cup {NoLockId}, from : Clients]

Init ==
    /\ proposed = {}
    /\ log = <<>>
    /\ slot = [n \in Nodes |-> 0]
    /\ pos = [n \in Nodes |-> 0]
    /\ applied_index = [n \in Nodes |-> 0]
    /\ lock_table = [n \in Nodes |-> EmptyLockTable]
    /\ file_storage = [n \in Nodes |-> <<>>]
    /\ responses = [n \in Nodes |-> {}]
    /\ sync_requests = [n \in Nodes |-> <<>>]
    /\ state = [c \in Clients |-> "idle"]
    /\ lock_id = [c \in Lockers |-> NoLockId]
    /\ required = [r \in Readers |-> 0]
    /\ before = [c \in Clients |-> {}]

------------------------------------------------------------------------------
\* The replica lock of n is held by apply_delivery.
Applying(n) == pos[n] > 0

Acknowledged == {w \in Writers : state[w] = "done"}

\* A bug to compare with: the sender is not kept.
ProposeRawForgets(c, command) ==
    /\ ~Applying(Home[c])
    /\ proposed' = proposed \cup {command}
    /\ responses' = responses

\* propose_raw: submit and the insertion into pending_responses happen under
\* the replica lock, before any action of the replica is carried out.
ProposeRaw(c, command) ==
    /\ ~Applying(Home[c])
    /\ proposed' = proposed \cup {command}
    /\ responses' = [responses EXCEPT ![Home[c]] = @ \cup {c}]

Submit(c) ==
    /\ state[c] = "idle"
    /\ ProposeRaw(c, Command(CASE c \in Writers -> "Write"
                               [] c \in Lockers -> "Lock"
                               [] c \in Readers -> "Barrier", c, NoLockId))
    /\ state' = [state EXCEPT ![c] = "waiting"]
    /\ before' = [before EXCEPT ![c] = Acknowledged]
    /\ UNCHANGED <<log, slot, pos, applied_index, lock_table, file_storage,
                   sync_requests, lock_id, required>>

SubmitUnlock(c) ==
    /\ state[c] = "locked"
    /\ ProposeRaw(c, Command("Unlock", c, lock_id[c]))
    /\ state' = [state EXCEPT ![c] = "unlocking"]
    /\ UNCHANGED <<log, slot, pos, applied_index, lock_table, file_storage,
                   sync_requests, lock_id, required, before>>

\* raxos decides the next slot: a batch of commands in some order.
Decide ==
    \E size \in 1..MaxBatch : \E batch \in Injection(1..size, proposed) :
        /\ log' = Append(log, batch)
        /\ proposed' = proposed \ Range(batch)
        /\ UNCHANGED <<memberVars, clientVars>>

------------------------------------------------------------------------------
NextCommand(n) == log[slot[n] + 1][pos[n] + 1]

\* What a client does with its answer.
Answered(c) ==
    CASE state[c] = "waiting" /\ c \in Lockers -> "locked"
      [] state[c] = "waiting" /\ c \in Readers -> "fresh"
      [] OTHER                                 -> "done"

\* A bug to compare with: commit_write only where a client waits.
CommittedForClients(n, requests) ==
    LET mine == SelectSeq(requests, LAMBDA r : r.from \in responses[n])
    IN  file_storage[n] \o [k \in DOMAIN mine |-> mine[k].from]

\* commit_write of every request that the lock table lets through, with or
\* without a sender to answer.
Committed(n, requests) ==
    file_storage[n] \o [k \in DOMAIN requests |-> requests[k].from]

\* A bug to compare with: a client takes the answer of any member.
RepliesFromAnyone(n, clients) == clients

\* A client is answered by the member that has its sender.
Replies(n, clients) == clients \cap responses[n]

\* One command of apply_delivery at n. An empty command is a barrier.
ApplyCommand(n) ==
    /\ slot[n] < Len(log)
    /\ pos[n] < Len(log[slot[n] + 1])
    /\ LET command == NextCommand(n)
           barrier == command.type = "Barrier"
           out     == IF barrier THEN <<>> ELSE ToProcess(lock_table[n], command)
           granted == IF barrier THEN {} ELSE {r.from : r \in GrantedTo(lock_table[n], command)}
           through == IF command.type \in {"Barrier", "Unlock"} THEN {command.from} ELSE {}
           replies == Replies(n, granted \cup through \cup {out[k].from : k \in DOMAIN out})
       IN  /\ lock_table' = [lock_table EXCEPT
                                ![n] = IF barrier THEN @ ELSE TableAfter(@, command)]
           /\ file_storage' = [file_storage EXCEPT ![n] = Committed(n, out)]
           /\ responses' = [responses EXCEPT ![n] = @ \ replies]
           /\ state' = [c \in Clients |-> IF c \in replies THEN Answered(c) ELSE state[c]]
           /\ lock_id' = [c \in Lockers |->
                              IF c \in granted \cap replies THEN lock_table[n].next_id
                              ELSE lock_id[c]]
    /\ pos' = [pos EXCEPT ![n] = @ + 1]
    /\ UNCHANGED <<proposed, log, slot, applied_index, sync_requests, required, before>>

\* A bug to compare with: "if" for "while".
ResolvesOne(queue, s, j) ==
    j = IF queue # <<>> /\ queue[1][1] <= s THEN 1 ELSE 0

\* The end of slot s resolves the first j sync requests: from the head of the
\* queue, up to the first one that needs a later slot.
Resolves(queue, s, j) ==
    /\ \A k \in 1..j : queue[k][1] <= s
    /\ j < Len(queue) => ~(queue[j + 1][1] <= s)

\* The end of apply_delivery: applied_index.store, then the sync requests.
FinishSlot(n) ==
    /\ slot[n] < Len(log)
    /\ pos[n] = Len(log[slot[n] + 1])
    /\ applied_index' = [applied_index EXCEPT ![n] = slot[n] + FirstSlot]
    /\ \E j \in 0..Len(sync_requests[n]) :
        /\ Resolves(sync_requests[n], slot[n] + FirstSlot, j)
        /\ sync_requests' = [sync_requests EXCEPT ![n] = SubSeq(@, j + 1, Len(@))]
        /\ state' = [c \in Clients |->
              IF \E k \in 1..j : sync_requests[n][k][2] = c THEN "synced" ELSE state[c]]
    /\ slot' = [slot EXCEPT ![n] = @ + 1]
    /\ pos' = [pos EXCEPT ![n] = 0]
    /\ UNCHANGED <<proposed, log, lock_table, file_storage, responses, lock_id, required, before>>

------------------------------------------------------------------------------
\* Request::Read after its barrier: get_latest_local_commit.
LatestLocalCommit(r) ==
    /\ state[r] = "fresh"
    /\ required' = [required EXCEPT ![r] = applied_index[Home[r]]]
    /\ state' = [state EXCEPT ![r] = "asking"]
    /\ UNCHANGED <<raxosVars, memberVars, lock_id, before>>

\* A bug to compare with: off by one.
HasAlmostApplied(n, index) == applied_index[n] + 1 >= index

\* The test of sync.
HasApplied(n, index) == applied_index[n] >= index

\* Request::ReadRaw at the peer: sync.
Sync(r) ==
    /\ state[r] = "asking"
    /\ ~Applying(Peer[r])
    /\ IF HasApplied(Peer[r], required[r])
       THEN /\ state' = [state EXCEPT ![r] = "synced"]
            /\ UNCHANGED sync_requests
       ELSE /\ state' = [state EXCEPT ![r] = "syncing"]
            /\ sync_requests' = [sync_requests EXCEPT ![Peer[r]] = Append(@, <<required[r], r>>)]
    /\ UNCHANGED <<raxosVars, slot, pos, applied_index, lock_table, file_storage, responses,
                   lock_id, required, before>>

Next ==
    \/ \E c \in Clients : Submit(c)
    \/ \E c \in Lockers : SubmitUnlock(c)
    \/ Decide
    \/ \E n \in Nodes : ApplyCommand(n) \/ FinishSlot(n)
    \/ \E r \in Readers : LatestLocalCommit(r) \/ Sync(r)

Spec == Init /\ [][Next]_vars

\* A group with a live quorum decides what is proposed, every member keeps
\* applying what is decided (background_tick and incoming messages drive it),
\* and the tasks of clients run when they can.
Fairness ==
    /\ WF_vars(Decide)
    /\ \A n \in Nodes : WF_vars(ApplyCommand(n) \/ FinishSlot(n))
    /\ \A c \in Lockers : WF_vars(SubmitUnlock(c))
    /\ \A r \in Readers : WF_vars(LatestLocalCommit(r) \/ Sync(r))

FairSpec == Spec /\ Fairness

------------------------------------------------------------------------------
States == {"idle", "waiting", "locked", "unlocking", "fresh", "asking", "syncing", "synced", "done"}

TypeOK ==
    /\ proposed \subseteq Commands
    /\ log \in Seq(Seq(Commands))
    /\ slot \in [Nodes -> 0..Len(log)]
    /\ \A n \in Nodes : pos[n] \in (IF slot[n] < Len(log) THEN 0..Len(log[slot[n] + 1]) ELSE {0})
    /\ applied_index \in [Nodes -> Nat]
    /\ lock_table \in [Nodes -> [lock_ids : [Inodes -> Nat \cup {NoLockId}],
                                 pending  : [Inodes -> Seq(Commands)],
                                 next_id  : Nat]]
    /\ file_storage \in [Nodes -> Seq(Writers)]
    /\ responses \in [Nodes -> SUBSET Clients]
    /\ sync_requests \in [Nodes -> Seq(Nat \X Readers)]
    /\ state \in [Clients -> States]
    /\ lock_id \in [Lockers -> Nat \cup {NoLockId}]
    /\ required \in [Readers -> Nat]
    /\ before \in [Clients -> SUBSET Writers]

\* Members that have applied the same part of the log have the same lock table
\* and the same file storage, although only one of them answers each client.
ReplicasAgree ==
    \A n, m \in Nodes :
        slot[n] = slot[m] /\ pos[n] = pos[m] =>
            /\ lock_table[n] = lock_table[m]
            /\ file_storage[n] = file_storage[m]

\* The lock id that a client got from its own node is the one that every other
\* member has in its table when the Unlock reaches it, however far behind that
\* member is: the assertion of is_locked fails nowhere.
LockIdsMatchEverywhere ==
    \A n \in Nodes :
        slot[n] < Len(log) /\ pos[n] < Len(log[slot[n] + 1]) /\ NextCommand(n).type # "Barrier"
            => LockIdIsCurrent(lock_table[n], NextCommand(n))

\* The comment of read_barrier: once the barrier has resolved, every write
\* acknowledged anywhere before the barrier was submitted is applied locally.
BarrierIsFresh ==
    \A r \in Readers :
        state[r] \in {"fresh", "asking", "syncing", "synced"} =>
            before[r] \subseteq Range(file_storage[Home[r]])

\* The same holds for the raw data of the peer once sync(required_commit) has
\* returned, although required_commit may have been loaded in the middle of a
\* slot, before that slot's number was stored.
PeerReadIsFresh ==
    \A r \in Readers :
        state[r] = "synced" => before[r] \subseteq Range(file_storage[Peer[r]])

\* Every member commits each write at most once, in an order that respects
\* real time (a write acknowledged before another was submitted comes first),
\* and no write is acknowledged before it is committed, also when it had to
\* wait in the lock table.
WritesLinearize ==
    /\ \A n \in Nodes : \A k \in DOMAIN file_storage[n] :
          LET earlier == {file_storage[n][l] : l \in 1..(k - 1)}
          IN  /\ file_storage[n][k] \notin earlier
              /\ before[file_storage[n][k]] \subseteq earlier
    /\ \A w \in Acknowledged : w \in Range(file_storage[Home[w]])

\* sync_requests is served from its head only; still nobody is left in it
\* once the member has caught up with the log.
SyncQueueDrains ==
    \A n \in Nodes : slot[n] = Len(log) => sync_requests[n] = <<>>

\* Every proposal is answered and every sync returns: a Write behind a lock,
\* a Lock behind another lock, a barrier, and a ReadRaw at a member that is
\* behind. That a holder goes on to its Unlock is a part of Fairness; that the
\* Unlock sets the whole queue up to the next Lock free is not.
EveryClientIsAnswered ==
    \A c \in Clients :
        state[c] \in {"waiting", "unlocking", "syncing"} ~>
            state[c] \notin {"waiting", "unlocking", "syncing"}
==============================================================================
