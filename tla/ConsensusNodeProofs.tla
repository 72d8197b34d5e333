------------------------- MODULE ConsensusNodeProofs -------------------------
(***************************************************************************)
(* Proofs about ConsensusNode, for any number of members and clients, any  *)
(* placement of the clients and any sizes of the slots: members that have  *)
(* applied as much agree, a read after its barrier sees every write that   *)
(* was acknowledged before, at its node and at its peer, and nobody is     *)
(* left in the sync queue of a member that has caught up.                  *)
(*                                                                         *)
(* First come the parts of the actions, their types, and the history of a  *)
(* group, which every step follows or continues.                           *)
(***************************************************************************)
EXTENDS ConsensusNode, LockTableProofs

\* The commands that clients submit.
Submitted ==
    {c \in Commands :
        /\ c.type = "Barrier" => c.from \in Readers
        /\ c.type = "Write" => c.from \in Writers
        /\ c.type \in {"Lock", "Unlock"} => c.from \in Lockers}

\* The commands that go through the lock table.
Requests == {c \in Submitted : c.type # "Barrier"}

\* There is a point in the log after s slots and p more commands.
InLog(s, p) ==
    \/ s < Len(log) /\ p <= Len(log[s + 1])
    \/ s = Len(log) /\ p = 0

Types ==
    /\ proposed \subseteq Submitted
    /\ log \in Seq(Seq(Submitted))
    /\ slot \in [Nodes -> Nat]
    /\ pos \in [Nodes -> Nat]
    /\ \A n \in Nodes : InLog(slot[n], pos[n])
    /\ applied_index \in [Nodes -> Nat]
    /\ lock_table \in [Nodes -> Tables(Requests)]
    /\ file_storage \in [Nodes -> Seq(Writers)]
    /\ responses \in [Nodes -> SUBSET Clients]
    /\ sync_requests \in [Nodes -> Seq(Nat \X Readers)]
    /\ state \in [Clients -> States]
    /\ lock_id \in [Lockers -> Nat \cup {NoLockId}]
    /\ required \in [Readers -> Nat]
    /\ before \in [Clients -> SUBSET Writers]

------------------------------------------------------------------------------
(***************************************************************************)
(* The parts of ApplyCommand(n).                                           *)
(***************************************************************************)
IsBarrier(n) == NextCommand(n).type = "Barrier"

Out(n) == IF IsBarrier(n) THEN <<>> ELSE ToProcess(lock_table[n], NextCommand(n))

Granted(n) ==
    IF IsBarrier(n) THEN {} ELSE {r.from : r \in GrantedTo(lock_table[n], NextCommand(n))}

Through(n) ==
    IF NextCommand(n).type \in {"Barrier", "Unlock"} THEN {NextCommand(n).from} ELSE {}

ReplyTo(n) == Replies(n, Granted(n) \cup Through(n) \cup {Out(n)[k].from : k \in DOMAIN Out(n)})

TableNext(n) ==
    IF IsBarrier(n) THEN lock_table[n] ELSE TableAfter(lock_table[n], NextCommand(n))

\* What ApplyCommand does, in these parts.
LEMMA ApplyCommandIs ==
    ASSUME NEW n \in Nodes, ApplyCommand(n), lock_table \in [Nodes -> Tables(Requests)]
    PROVE  /\ slot[n] < Len(log)
           /\ pos[n] < Len(log[slot[n] + 1])
           /\ lock_table' = [lock_table EXCEPT ![n] = TableNext(n)]
           /\ file_storage' = [file_storage EXCEPT ![n] = Committed(n, Out(n))]
           /\ responses' = [responses EXCEPT ![n] = responses[n] \ ReplyTo(n)]
           /\ state' = [c \in Clients |-> IF c \in ReplyTo(n) THEN Answered(c) ELSE state[c]]
           /\ lock_id' = [c \in Lockers |->
                              IF c \in Granted(n) \cap ReplyTo(n) THEN lock_table[n].next_id
                              ELSE lock_id[c]]
           /\ pos' = [pos EXCEPT ![n] = pos[n] + 1]
           /\ UNCHANGED <<proposed, log, slot, applied_index, sync_requests, required, before>>
    BY Zenon DEF ApplyCommand, TableNext, Out, Granted, Through, ReplyTo, IsBarrier

\* A command in the log is a submitted one.
LEMMA NextCommandIs ==
    ASSUME Types, NEW n \in Nodes, slot[n] < Len(log), pos[n] < Len(log[slot[n] + 1])
    PROVE  /\ slot[n] \in Nat /\ pos[n] \in Nat
           /\ slot[n] + 1 \in 1..Len(log)
           /\ log[slot[n] + 1] \in Seq(Submitted)
           /\ pos[n] + 1 \in 1..Len(log[slot[n] + 1])
           /\ NextCommand(n) \in Submitted
<1>1. slot[n] \in Nat /\ pos[n] \in Nat /\ log \in Seq(Seq(Submitted))
    BY Zenon DEF Types
<1>2. slot[n] + 1 \in 1..Len(log)
    BY <1>1
<1>3. log[slot[n] + 1] \in Seq(Submitted)
    BY <1>1, <1>2
<1>4. pos[n] + 1 \in 1..Len(log[slot[n] + 1])
    BY <1>1, <1>3
<1> QED
    BY <1>1, <1>2, <1>3, <1>4, SMTT(20) DEF NextCommand

\* Locks are granted to lockers, and what is committed are writes of writers.
LEMMA PartsOfApply ==
    ASSUME Types, NEW n \in Nodes, NextCommand(n) \in Submitted
    PROVE  /\ TableNext(n) \in Tables(Requests)
           /\ Out(n) \in Seq({c \in Requests : c.type = "Write" /\ c.from \in Writers})
           /\ Granted(n) \subseteq Lockers
<1>1. lock_table[n] \in Tables(Requests)
    BY Zenon DEF Types
<1>2. CASE IsBarrier(n)
    BY <1>1, <1>2 DEF TableNext, Out, Granted
<1>3. CASE ~IsBarrier(n)
    <2>1. NextCommand(n) \in Requests /\ NextCommand(n).inode \in Inodes
        BY <1>3, Zenon DEF IsBarrier, Requests, Submitted, Commands
    <2>2. /\ TableAfter(lock_table[n], NextCommand(n)) \in Tables(Requests)
          /\ ToProcess(lock_table[n], NextCommand(n))
                \in Seq({r \in Waitable(Requests) : r.type # "Lock"})
          /\ GrantedTo(lock_table[n], NextCommand(n))
                \in SUBSET {r \in Waitable(Requests) : r.type = "Lock"}
        BY <1>1, <2>1, TableServed, Zenon
    <2>3. {r \in Waitable(Requests) : r.type # "Lock"}
            \subseteq {c \in Requests : c.type = "Write" /\ c.from \in Writers}
        BY Zenon DEF Waitable, Requests, Submitted, Commands
    <2>4. \A r \in Waitable(Requests) : r.type = "Lock" => r.from \in Lockers
        BY Zenon DEF Waitable, Requests, Submitted
    <2>5. Out(n) = ToProcess(lock_table[n], NextCommand(n))
        BY <1>3, Zenon DEF Out
    <2>6. Out(n) \in Seq({c \in Requests : c.type = "Write" /\ c.from \in Writers})
        BY <2>2, <2>3, <2>5
    <2>7. Granted(n) \subseteq Lockers
        BY <1>3, <2>2, <2>4, Zenon DEF Granted
    <2> QED
        BY <1>3, <2>2, <2>6, <2>7, Zenon DEF TableNext
<1> QED
    BY <1>2, <1>3, Zenon

\* commit_write appends writers to what a member has committed, and loses none.
LEMMA CommittedGrows ==
    ASSUME Types, NEW n \in Nodes,
           NEW out \in Seq({c \in Requests : c.type = "Write" /\ c.from \in Writers})
    PROVE  /\ Committed(n, out) \in Seq(Writers)
           /\ Range(file_storage[n]) \subseteq Range(Committed(n, out))
           /\ \A k \in DOMAIN out : out[k].from \in Range(Committed(n, out))
<1> DEFINE old == file_storage[n]
           new == [k \in DOMAIN out |-> out[k].from]
<1>1. old \in Seq(Writers)
    BY Zenon DEF Types
<1>2. DOMAIN out = 1..Len(out) /\ Len(out) \in Nat
    OBVIOUS
<1>3. new \in Seq(Writers) /\ Len(new) = Len(out) /\ \A k \in DOMAIN out : new[k] = out[k].from
    BY <1>2
<1> HIDE DEF old, new
<1>4. /\ old \o new \in Seq(Writers)
      /\ DOMAIN (old \o new) = 1..(Len(old) + Len(new))
      /\ \A k \in 1..Len(old) : (old \o new)[k] = old[k]
      /\ \A k \in 1..Len(new) : (old \o new)[Len(old) + k] = new[k]
    <2>1. Len(old) \in Nat /\ Len(new) \in Nat
        BY <1>1, <1>3
    <2>2. /\ old \o new \in Seq(Writers)
          /\ Len(old \o new) = Len(old) + Len(new)
          /\ \A k \in 1..(Len(old) + Len(new)) :
                (old \o new)[k] = IF k <= Len(old) THEN old[k] ELSE new[k - Len(old)]
        BY <1>1, <1>3
    <2>3. \A k \in 1..Len(old) : k \in 1..(Len(old) + Len(new)) /\ k <= Len(old)
        BY <2>1
    <2>4. \A k \in 1..Len(new) : /\ Len(old) + k \in 1..(Len(old) + Len(new))
                                 /\ ~(Len(old) + k <= Len(old))
                                 /\ (Len(old) + k) - Len(old) = k
        BY <2>1
    <2>5. DOMAIN (old \o new) = 1..(Len(old) + Len(new))
        BY <2>2
    <2> QED
        BY <2>2, <2>3, <2>4, <2>5, Zenon
<1>5. Range(old) \subseteq Range(old \o new)
    <2> SUFFICES ASSUME NEW k \in DOMAIN old PROVE \E l \in DOMAIN (old \o new) : (old \o new)[l] = old[k]
        BY Zenon DEF Range
    <2>1. k \in 1..Len(old) /\ k \in 1..(Len(old) + Len(new))
        BY <1>1, <1>3
    <2> QED
        BY <1>4, <2>1, Zenon
<1>6. \A k \in DOMAIN out : out[k].from \in Range(old \o new)
    <2> TAKE k \in DOMAIN out
    <2>1. Len(old) + k \in 1..(Len(old) + Len(new)) /\ k \in 1..Len(new)
        BY <1>1, <1>2, <1>3
    <2>2. (old \o new)[Len(old) + k] = out[k].from
        BY <1>3, <1>4, <2>1, Zenon
    <2> QED
        BY <1>4, <2>1, <2>2, Zenon DEF Range
<1> QED
    BY <1>4, <1>5, <1>6, Zenon DEF Committed, old, new

\* A command that a client submits is a submitted one.
LEMMA CommandIs ==
    ASSUME NEW c \in Clients, NEW type \in {"Barrier", "Write", "Lock", "Unlock"},
           NEW id \in Nat \cup {NoLockId},
           type = "Barrier" => c \in Readers,
           type = "Write" => c \in Writers,
           type \in {"Lock", "Unlock"} => c \in Lockers
    PROVE  /\ Command(type, c, id) \in Submitted
           /\ Command(type, c, id).type = type
           /\ Command(type, c, id).from = c
<1>1. Target[c] \in Inodes
    BY GroupAssumption, Zenon
<1> QED
    BY <1>1, Zenon DEF Command, Submitted, Commands

\* Deciding a slot leaves the earlier ones as they are.
LEMMA DecideIs ==
    ASSUME Types, Decide
    PROVE  \E batch \in Seq(Submitted) :
             /\ log' = Append(log, batch)
             /\ log' \in Seq(Seq(Submitted))
             /\ Len(log') = Len(log) + 1
             /\ \A s \in 1..Len(log) : log'[s] = log[s]
             /\ log'[Len(log) + 1] = batch
             /\ \A k \in 1..Len(batch) : batch[k] \in proposed
             /\ proposed' \subseteq proposed
             /\ UNCHANGED <<memberVars, clientVars>>
<1>0. PICK size \in 1..MaxBatch :
        \E batch \in Injection(1..size, proposed) :
            /\ log' = Append(log, batch)
            /\ proposed' = proposed \ Range(batch)
            /\ UNCHANGED <<memberVars, clientVars>>
    BY Zenon DEF Decide
<1>1. PICK batch \in Injection(1..size, proposed) :
        /\ log' = Append(log, batch)
        /\ proposed' = proposed \ Range(batch)
        /\ UNCHANGED <<memberVars, clientVars>>
    BY <1>0, Zenon
<1>2. batch \in [1..size -> proposed] /\ proposed \subseteq Submitted /\ size \in Nat
    BY GroupAssumption DEF Injection, Types
<1>3. batch \in Seq(Submitted) /\ Len(batch) = size /\ \A k \in 1..Len(batch) : batch[k] \in proposed
    BY <1>2
<1>4. log \in Seq(Seq(Submitted))
    BY Zenon DEF Types
<1>5. /\ Append(log, batch) \in Seq(Seq(Submitted))
      /\ Len(Append(log, batch)) = Len(log) + 1
      /\ \A s \in 1..Len(log) : Append(log, batch)[s] = log[s]
      /\ Append(log, batch)[Len(log) + 1] = batch
    BY <1>3, <1>4
<1> QED
    BY <1>1, <1>3, <1>5, Zenon

\* The end of a slot that resolves the first j sync requests.
Finish(n, j) ==
    /\ slot[n] < Len(log)
    /\ pos[n] = Len(log[slot[n] + 1])
    /\ applied_index' = [applied_index EXCEPT ![n] = slot[n] + FirstSlot]
    /\ \A k \in 1..j : sync_requests[n][k][1] <= slot[n] + FirstSlot
    /\ j < Len(sync_requests[n]) => ~(sync_requests[n][j + 1][1] <= slot[n] + FirstSlot)
    /\ sync_requests' = [sync_requests EXCEPT
                            ![n] = SubSeq(sync_requests[n], j + 1, Len(sync_requests[n]))]
    /\ state' = [c \in Clients |->
                   IF \E k \in 1..j : sync_requests[n][k][2] = c THEN "synced" ELSE state[c]]
    /\ slot' = [slot EXCEPT ![n] = slot[n] + 1]
    /\ pos' = [pos EXCEPT ![n] = 0]
    /\ UNCHANGED <<proposed, log, lock_table, file_storage, responses, lock_id, required, before>>

\* The end of a slot resolves some number of sync requests at the head of the
\* queue.
LEMMA FinishSlotIs ==
    ASSUME NEW n \in Nodes, FinishSlot(n)
    PROVE  \E j \in 0..Len(sync_requests[n]) : Finish(n, j)
    BY Zenon DEF FinishSlot, Finish, Resolves

\* A batch of the log has a length.
LEMMA BatchLength ==
    ASSUME NEW S, NEW s \in Seq(Seq(S)), NEW k \in 1..Len(s)
    PROVE  Len(s[k]) \in Nat /\ 0 <= Len(s[k])
    OBVIOUS

\* Every member is at a point of the log, and the log only grows.
LEMMA TypesHold == Types /\ [Next]_vars => Types'
<1> SUFFICES ASSUME Types, [Next]_vars PROVE Types'
    BY Zenon
<1>a. /\ proposed \subseteq Submitted
      /\ log \in Seq(Seq(Submitted))
      /\ slot \in [Nodes -> Nat]
      /\ pos \in [Nodes -> Nat]
      /\ applied_index \in [Nodes -> Nat]
      /\ responses \in [Nodes -> SUBSET Clients]
      /\ sync_requests \in [Nodes -> Seq(Nat \X Readers)]
      /\ state \in [Clients -> States]
      /\ lock_id \in [Lockers -> Nat \cup {NoLockId}]
      /\ required \in [Readers -> Nat]
      /\ before \in [Clients -> SUBSET Writers]
    BY Zenon DEF Types
<1>b. Home \in [Clients -> Nodes] /\ Peer \in [Readers -> Nodes] /\ FirstSlot \in Nat
    BY GroupAssumption, Zenon
<1>c. Readers \subseteq Clients /\ Writers \subseteq Clients /\ Lockers \subseteq Clients
    BY Zenon DEF Clients
<1>1. ASSUME NEW c \in Clients, Submit(c) PROVE Types'
    <2>1. PICK type \in {"Write", "Lock", "Barrier"} :
            /\ ProposeRaw(c, Command(type, c, NoLockId))
            /\ type = "Barrier" => c \in Readers
            /\ type = "Write" => c \in Writers
            /\ type = "Lock" => c \in Lockers
        BY <1>1, GroupAssumption, Zenon DEF Submit, Clients
    <2>2. Command(type, c, NoLockId) \in Submitted
        BY <2>1, CommandIs, Zenon
    <2>3. proposed' \subseteq Submitted /\ responses' \in [Nodes -> SUBSET Clients]
        BY <1>a, <1>b, <2>1, <2>2, Zenon DEF ProposeRaw
    <2>4. state' \in [Clients -> States] /\ before' \in [Clients -> SUBSET Writers]
        BY <1>1, <1>a, Zenon DEF Submit, Acknowledged, States
    <2> QED
        BY <1>1, <2>3, <2>4, Zenon DEF Types, Submit, InLog
<1>2. ASSUME NEW c \in Lockers, SubmitUnlock(c) PROVE Types'
    <2>1. Command("Unlock", c, lock_id[c]) \in Submitted
        BY <1>a, <1>c, CommandIs, ZenonT(30)
    <2>2. proposed' \subseteq Submitted /\ responses' \in [Nodes -> SUBSET Clients]
        BY <1>2, <1>a, <1>b, <1>c, <2>1, Zenon DEF ProposeRaw, SubmitUnlock
    <2>3. state' \in [Clients -> States]
        BY <1>2, <1>a, <1>c, Zenon DEF SubmitUnlock, States
    <2> QED
        BY <1>2, <2>2, <2>3, Zenon DEF Types, SubmitUnlock, InLog
<1>3. CASE Decide
    <2>1. /\ log' \in Seq(Seq(Submitted))
          /\ Len(log') = Len(log) + 1
          /\ \A s \in 1..Len(log) : log'[s] = log[s]
          /\ log'[Len(log) + 1] \in Seq(Submitted)
          /\ proposed' \subseteq proposed
          /\ UNCHANGED <<memberVars, clientVars>>
        BY <1>3, DecideIs, Zenon
    <2>2. \A n \in Nodes : InLog(slot[n], pos[n])'
        <3> TAKE n \in Nodes
        <3>1. slot' = slot /\ pos' = pos /\ slot[n] \in Nat /\ Len(log) \in Nat
            BY <1>a, <2>1 DEF memberVars
        <3>2. CASE slot[n] < Len(log) /\ pos[n] <= Len(log[slot[n] + 1])
            <4>1. slot[n] + 1 \in 1..Len(log) /\ slot[n] < Len(log) + 1
                BY <3>1, <3>2
            <4> QED
                BY <2>1, <3>1, <3>2, <4>1, Zenon DEF InLog
        <3>3. CASE slot[n] = Len(log) /\ pos[n] = 0
            <4>1. slot[n] < Len(log) + 1 /\ 0 <= Len(log'[Len(log) + 1])
                BY <2>1, <3>1, <3>3
            <4> QED
                BY <2>1, <3>1, <3>3, <4>1, Zenon DEF InLog
        <3> QED
            BY <3>2, <3>3, Zenon DEF Types, InLog
    <2> QED
        BY <1>a, <2>1, <2>2, Zenon DEF Types, memberVars, clientVars
<1>4. ASSUME NEW n \in Nodes, ApplyCommand(n) PROVE Types'
    <2>1. /\ slot[n] < Len(log)
          /\ pos[n] < Len(log[slot[n] + 1])
          /\ lock_table' = [lock_table EXCEPT ![n] = TableNext(n)]
          /\ file_storage' = [file_storage EXCEPT ![n] = Committed(n, Out(n))]
          /\ responses' = [responses EXCEPT ![n] = responses[n] \ ReplyTo(n)]
          /\ state' = [c \in Clients |-> IF c \in ReplyTo(n) THEN Answered(c) ELSE state[c]]
          /\ lock_id' = [c \in Lockers |->
                              IF c \in Granted(n) \cap ReplyTo(n) THEN lock_table[n].next_id
                              ELSE lock_id[c]]
          /\ pos' = [pos EXCEPT ![n] = pos[n] + 1]
          /\ UNCHANGED <<proposed, log, slot, applied_index, sync_requests, required, before>>
        BY <1>4, ApplyCommandIs, Zenon DEF Types
    <2>2. /\ log[slot[n] + 1] \in Seq(Submitted)
          /\ NextCommand(n) \in Submitted
          /\ pos[n] \in Nat
        BY <2>1, NextCommandIs, Zenon
    <2>3. lock_table' \in [Nodes -> Tables(Requests)] /\ file_storage' \in [Nodes -> Seq(Writers)]
        BY <2>1, <2>2, PartsOfApply, CommittedGrows, Zenon DEF Types
    <2>4. responses' \in [Nodes -> SUBSET Clients]
        BY <1>a, <2>1, SMTT(20)
    <2>5. state' \in [Clients -> States]
        BY <1>a, <2>1, Zenon DEF Answered, States
    <2>6. lock_id' \in [Lockers -> Nat \cup {NoLockId}]
        <3>1. lock_table[n].next_id \in Nat
            BY Zenon DEF Types, Tables
        <3> QED
            BY <1>a, <2>1, <3>1, Zenon
    <2>7. pos' \in [Nodes -> Nat]
        BY <1>a, <2>1
    <2>8. \A m \in Nodes : InLog(slot[m], pos[m])'
        <3> TAKE m \in Nodes
        <3>1. CASE m = n
            <4>1. pos'[m] = pos[n] + 1 /\ pos[n] + 1 <= Len(log[slot[n] + 1])
                BY <1>a, <2>1, <2>2, <3>1
            <4> QED
                BY <2>1, <3>1, <4>1, Zenon DEF InLog
        <3>2. CASE m # n
            <4>1. pos'[m] = pos[m]
                BY <1>a, <2>1, <3>2, Zenon
            <4> QED
                BY <2>1, <4>1, Zenon DEF Types, InLog
        <3> QED
            BY <3>1, <3>2, Zenon
    <2> QED
        BY <1>a, <2>1, <2>3, <2>4, <2>5, <2>6, <2>7, <2>8, Zenon DEF Types
<1>5. ASSUME NEW n \in Nodes, FinishSlot(n) PROVE Types'
    <2> DEFINE queue == sync_requests[n]
    <2>0. PICK j \in 0..Len(queue) : Finish(n, j)
        BY <1>5, FinishSlotIs, Zenon
    <2>1. /\ slot[n] < Len(log)
          /\ applied_index' = [applied_index EXCEPT ![n] = slot[n] + FirstSlot]
          /\ sync_requests' = [sync_requests EXCEPT ![n] = SubSeq(queue, j + 1, Len(queue))]
          /\ state' = [c \in Clients |->
                 IF \E k \in 1..j : queue[k][2] = c THEN "synced" ELSE state[c]]
          /\ slot' = [slot EXCEPT ![n] = slot[n] + 1]
          /\ pos' = [pos EXCEPT ![n] = 0]
          /\ UNCHANGED <<proposed, log, lock_table, file_storage, responses, lock_id, required, before>>
        BY <2>0, Zenon DEF Finish
    <2>2. slot[n] \in Nat /\ Len(log) \in Nat /\ queue \in Seq(Nat \X Readers)
        BY <1>a, <1>b
    <2>4. SubSeq(queue, j + 1, Len(queue)) \in Seq(Nat \X Readers)
        BY <2>2
    <2>5. sync_requests' \in [Nodes -> Seq(Nat \X Readers)]
        BY <1>a, <2>1, <2>4, Zenon
    <2>6. slot' \in [Nodes -> Nat] /\ pos' \in [Nodes -> Nat] /\ applied_index' \in [Nodes -> Nat]
        <3>1. slot[n] + 1 \in Nat /\ slot[n] + FirstSlot \in Nat /\ 0 \in Nat
            BY <1>b, <2>2
        <3> QED
            BY <1>a, <2>1, <3>1, Zenon
    <2>7. state' \in [Clients -> States]
        BY <1>a, <2>1, Zenon DEF States
    <2>8. \A m \in Nodes : InLog(slot[m], pos[m])'
        <3> TAKE m \in Nodes
        <3>1. CASE m = n
            <4>1. slot'[m] = slot[n] + 1 /\ pos'[m] = 0
                BY <1>a, <2>1, <3>1, Zenon
            <4>2. CASE slot[n] + 1 = Len(log)
                BY <2>1, <4>1, <4>2, Zenon DEF InLog
            <4>3. CASE slot[n] + 1 < Len(log)
                <5>1. (slot[n] + 1) + 1 \in 1..Len(log)
                    BY <2>2, <4>3
                <5>2. 0 <= Len(log[(slot[n] + 1) + 1])
                    BY <1>a, <5>1, BatchLength, Zenon
                <5> QED
                    BY <2>1, <4>1, <4>3, <5>2, Zenon DEF InLog
            <4> QED
                BY <2>1, <2>2, <4>2, <4>3
        <3>2. CASE m # n
            <4>1. slot'[m] = slot[m] /\ pos'[m] = pos[m]
                BY <1>a, <2>1, <3>2, Zenon
            <4> QED
                BY <2>1, <4>1, Zenon DEF Types, InLog
        <3> QED
            BY <3>1, <3>2, Zenon
    <2> QED
        BY <1>a, <2>1, <2>5, <2>6, <2>7, <2>8, Zenon DEF Types
<1>6. ASSUME NEW r \in Readers, LatestLocalCommit(r) PROVE Types'
    <2>1. required' \in [Readers -> Nat] /\ state' \in [Clients -> States]
        BY <1>6, <1>a, <1>b, <1>c, Zenon DEF LatestLocalCommit, States
    <2> QED
        BY <1>6, <2>1, Zenon DEF Types, LatestLocalCommit, raxosVars, memberVars, InLog
<1>7. ASSUME NEW r \in Readers, Sync(r) PROVE Types'
    <2>1. state' \in [Clients -> States]
        BY <1>7, <1>a, <1>c, ZenonT(30) DEF Sync, States
    <2>2. sync_requests' \in [Nodes -> Seq(Nat \X Readers)]
        <3>1. Append(sync_requests[Peer[r]], <<required[r], r>>) \in Seq(Nat \X Readers)
            BY <1>a, <1>b
        <3> QED
            BY <1>7, <1>a, <3>1, Zenon DEF Sync
    <2> QED
        BY <1>7, <2>1, <2>2, Zenon DEF Types, Sync, raxosVars, InLog
<1>8. CASE UNCHANGED vars
    BY <1>8, Zenon DEF Types, InLog, vars, raxosVars, memberVars, clientVars
<1> QED
    BY <1>1, <1>2, <1>3, <1>4, <1>5, <1>6, <1>7, <1>8, Zenon DEF Next

------------------------------------------------------------------------------
(***************************************************************************)
(* The history of a group: what a member has at each point of the log that *)
(* some member has reached. H[s][p] is the state after s slots and p more  *)
(* commands, and <<S, P>> is the last point that was reached. The state of *)
(* a member that is behind is in the history, and its next command takes   *)
(* it to the next entry.                                                   *)
(***************************************************************************)
Snapshots == [table : Tables(Requests), files : Seq(Writers)]

Histories == [Nat -> [Nat -> Snapshots]]

Snapshot(n) == [table |-> lock_table[n], files |-> file_storage[n]]

\* The state after one more command.
After(x, command) ==
    LET barrier == command.type = "Barrier"
        out     == IF barrier THEN <<>> ELSE ToProcess(x.table, command)
    IN  [table |-> IF barrier THEN x.table ELSE TableAfter(x.table, command),
         files |-> x.files \o [k \in DOMAIN out |-> out[k].from]]

\* The point after s slots and p commands was reached.
Known(S, P, s, p) ==
    \/ s < S /\ p <= Len(log[s + 1])
    \/ s = S /\ p <= P

History(H, S, P) ==
    /\ InLog(S, P)
    /\ \A n \in Nodes : Known(S, P, slot[n], pos[n]) /\ H[slot[n]][pos[n]] = Snapshot(n)
    /\ \A s, p \in Nat : Known(S, P, s, p + 1) => H[s][p + 1] = After(H[s][p], log[s + 1][p + 1])
    /\ \A s \in Nat : s < S => H[s + 1][0] = H[s][Len(log[s + 1])]
    /\ \A s, p \in Nat : Known(S, P, s, p) => Range(H[s][p].files) \subseteq Range(H[S][P].files)

\* A step keeps the history and may add one entry, in which nothing is lost.
Continues(H, S, P, H2, S2, P2) ==
    /\ \A s, p \in Nat : Known(S2, P2, s, p)' =>
          \/ Known(S, P, s, p) /\ H2[s][p] = H[s][p]
          \/ ~Known(S, P, s, p) /\ s = S2 /\ p = P2
    /\ Range(H[S][P].files) \subseteq Range(H2[S2][P2].files)

\* A command takes a member from one entry to the next.
LEMMA ApplyIsAfter ==
    ASSUME Types, NEW n \in Nodes, ApplyCommand(n)
    PROVE  /\ Snapshot(n)' = After(Snapshot(n), NextCommand(n))
           /\ Snapshot(n)' \in Snapshots
           /\ Range(Snapshot(n).files) \subseteq Range(Snapshot(n)'.files)
           /\ \A m \in Nodes \ {n} : Snapshot(m)' = Snapshot(m)
<1>1. /\ slot[n] < Len(log)
      /\ pos[n] < Len(log[slot[n] + 1])
      /\ lock_table' = [lock_table EXCEPT ![n] = TableNext(n)]
      /\ file_storage' = [file_storage EXCEPT ![n] = Committed(n, Out(n))]
    BY ApplyCommandIs, Zenon DEF Types
<1>2. NextCommand(n) \in Submitted
    BY <1>1, NextCommandIs, Zenon
<1>3. /\ TableNext(n) \in Tables(Requests)
      /\ Committed(n, Out(n)) \in Seq(Writers)
      /\ Range(file_storage[n]) \subseteq Range(Committed(n, Out(n)))
    BY <1>2, PartsOfApply, CommittedGrows, Zenon
<1>4. Snapshot(n)' = [table |-> TableNext(n), files |-> Committed(n, Out(n))]
    BY <1>1, Zenon DEF Snapshot, Types
<1>5. After(Snapshot(n), NextCommand(n)) = [table |-> TableNext(n), files |-> Committed(n, Out(n))]
    <2>1. Snapshot(n).table = lock_table[n] /\ Snapshot(n).files = file_storage[n]
        BY Zenon DEF Snapshot
    <2> QED
        BY <2>1, Zenon DEF After, TableNext, Committed, Out, IsBarrier
<1>6. \A m \in Nodes \ {n} : Snapshot(m)' = Snapshot(m)
    BY <1>1, Zenon DEF Snapshot, Types
<1> QED
    BY <1>3, <1>4, <1>5, <1>6, Zenon DEF Snapshot, Snapshots

\* A member that applies a command moves along the history, or adds to it.
LEMMA HistoryApply ==
    ASSUME Types, NEW H \in Histories, NEW S \in Nat, NEW P \in Nat, History(H, S, P),
           NEW n \in Nodes, ApplyCommand(n)
    PROVE  \E H2 \in Histories, S2 \in Nat, P2 \in Nat :
             History(H2, S2, P2)' /\ Continues(H, S, P, H2, S2, P2)
<1>0. PICK s, p, new : s = slot[n] /\ p = pos[n] /\ new = Snapshot(n)'
    BY Zenon
<1>1. /\ log' = log /\ slot' = slot
      /\ s < Len(log) /\ p < Len(log[s + 1])
      /\ pos'[n] = p + 1
      /\ \A m \in Nodes \ {n} : pos'[m] = pos[m]
    BY <1>0, ApplyCommandIs, SMTT(20) DEF Types
<1>2. s \in Nat /\ p \in Nat /\ Len(log[s + 1]) \in Nat /\ NextCommand(n) = log[s + 1][p + 1]
    BY <1>0, <1>1, NextCommandIs DEF NextCommand
<1>3. /\ new = After(Snapshot(n), NextCommand(n))
      /\ new \in Snapshots
      /\ Range(Snapshot(n).files) \subseteq Range(new.files)
      /\ \A m \in Nodes \ {n} : Snapshot(m)' = Snapshot(m)
    BY <1>0, ApplyIsAfter, Zenon
<1>4. \A m \in Nodes : Known(S, P, slot[m], pos[m]) /\ H[slot[m]][pos[m]] = Snapshot(m)
    BY Zenon DEF History
<1>a. InLog(S, P)
    BY Zenon DEF History
<1>b. \A i, j \in Nat : Known(S, P, i, j + 1) => H[i][j + 1] = After(H[i][j], log[i + 1][j + 1])
    BY Zenon DEF History
<1>c. \A i \in Nat : i < S => H[i + 1][0] = H[i][Len(log[i + 1])]
    BY Zenon DEF History
<1>d. \A i, j \in Nat : Known(S, P, i, j) => Range(H[i][j].files) \subseteq Range(H[S][P].files)
    BY Zenon DEF History
<1>e. H[s][p] = Snapshot(n) /\ Known(S, P, s, p)
    BY <1>0, <1>4, Zenon
<1>5. \A m \in Nodes : slot[m] \in Nat /\ pos[m] \in Nat
    BY Zenon DEF Types
<1>6. CASE Known(S, P, s, p + 1)
    <2>1. H[s][p + 1] = new
        BY <1>2, <1>3, <1>6, <1>b, <1>e
    <2>2. \A m \in Nodes : (Known(S, P, slot[m], pos[m]) /\ H[slot[m]][pos[m]] = Snapshot(m))'
        <3> TAKE m \in Nodes
        <3>1. CASE m = n
            BY <1>0, <1>1, <1>6, <2>1, <3>1, Zenon DEF Known
        <3>2. CASE m # n
            BY <1>1, <1>3, <1>4, <3>2, Zenon DEF Known
        <3> QED
            BY <3>1, <3>2, Zenon
    <2>3. \A i, j : Known(S, P, i, j)' <=> Known(S, P, i, j)
        BY <1>1, Zenon DEF Known
    <2>4. InLog(S, P)'
        BY <1>1, <1>a, SMTT(20) DEF InLog
    <2>5. History(H, S, P)'
        BY <1>1, <1>b, <1>c, <1>d, <2>2, <2>3, <2>4, Zenon DEF History
    <2>6. Continues(H, S, P, H, S, P)
        BY <2>3, Zenon DEF Continues
    <2> QED
        BY <2>5, <2>6, Zenon
<1>7. CASE ~Known(S, P, s, p + 1)
    <2>1. s = S /\ p = P
        BY <1>1, <1>2, <1>7, <1>e DEF Known
    <2>0. PICK H2 : H2 = [i \in Nat |-> [j \in Nat |-> IF i = S /\ j = P + 1 THEN new ELSE H[i][j]]]
        BY Zenon
    <2>2. H2 \in Histories /\ P + 1 \in Nat
        BY <1>3, <2>0 DEF Histories
    <2>3. /\ H2[S][P + 1] = new
          /\ \A i, j \in Nat : Known(S, P, i, j) => H2[i][j] = H[i][j]
        BY <2>0 DEF Known
    <2>4. \A i \in Nat : i # S => \A j \in Nat : H2[i][j] = H[i][j]
        BY <2>0, Zenon
    <2>5. \A i \in Nat : H2[i][0] = H[i][0]
        BY <2>0
    <2>6. \A i, j \in Nat : Known(S, P + 1, i, j) <=> Known(S, P, i, j) \/ (i = S /\ j = P + 1)
        BY DEF Known
    <2>7. \A i, j : Known(S, P + 1, i, j)' <=> Known(S, P + 1, i, j)
        BY <1>1, Zenon DEF Known
    <2>8. InLog(S, P + 1)'
        BY <1>1, <1>2, <2>1 DEF InLog
    <2>9. \A m \in Nodes :
             (Known(S, P + 1, slot[m], pos[m]) /\ H2[slot[m]][pos[m]] = Snapshot(m))'
        <3> TAKE m \in Nodes
        <3>1. CASE m = n
            <4>1. slot'[m] = S /\ pos'[m] = P + 1
                BY <1>0, <1>1, <2>1, <3>1, Zenon
            <4>2. Known(S, P + 1, S, P + 1)'
                BY <2>6, <2>7
            <4> QED
                BY <1>0, <2>3, <3>1, <4>1, <4>2, Zenon
        <3>2. CASE m # n
            <4>1. slot'[m] = slot[m] /\ pos'[m] = pos[m] /\ Snapshot(m)' = Snapshot(m)
                BY <1>1, <1>3, <3>2, Zenon
            <4>2. Known(S, P + 1, slot[m], pos[m])' /\ H2[slot[m]][pos[m]] = Snapshot(m)
                <5>1. slot[m] \in Nat /\ pos[m] \in Nat /\ Known(S, P, slot[m], pos[m])
                    BY <1>4, <1>5, Zenon
                <5>2. Known(S, P + 1, slot[m], pos[m])'
                    BY <2>6, <2>7, <4>1, <5>1, Zenon
                <5>3. H2[slot[m]][pos[m]] = H[slot[m]][pos[m]]
                    BY <2>3, <5>1, Zenon
                <5> QED
                    BY <1>4, <4>1, <5>2, <5>3, Zenon
            <4> QED
                BY <4>1, <4>2, Zenon
        <3> QED
            BY <3>1, <3>2, Zenon
    <2>10. \A i, j \in Nat : Known(S, P + 1, i, j + 1)
                => H2[i][j + 1] = After(H2[i][j], log[i + 1][j + 1])
        <3> SUFFICES ASSUME NEW i \in Nat, NEW j \in Nat, Known(S, P + 1, i, j + 1)
                     PROVE  H2[i][j + 1] = After(H2[i][j], log[i + 1][j + 1])
            BY Zenon
        <3>1. CASE i = S /\ j = P
            <4>1. H2[S][P] = Snapshot(n)
                BY <1>e, <2>1, <2>3, SMTT(20)
            <4> QED
                BY <1>2, <1>3, <2>1, <2>3, <3>1, <4>1, Zenon
        <3>2. CASE ~(i = S /\ j = P)
            <4>1. Known(S, P, i, j + 1)
                BY <2>6, <3>2
            <4>2. Known(S, P, i, j)
                <5>1. CASE i < S
                    <6>1. j + 1 <= Len(log[i + 1]) /\ i + 1 \in 1..Len(log)
                        BY <1>2, <1>1, <2>1, <4>1, <5>1 DEF Known, Types
                    <6>2. Len(log[i + 1]) \in Nat
                        BY <6>1 DEF Types
                    <6> QED
                        BY <5>1, <6>1, <6>2 DEF Known
                <5>2. CASE ~(i < S)
                    BY <4>1, <5>2 DEF Known
                <5> QED
                    BY <5>1, <5>2, Zenon
            <4> QED
                BY <1>b, <2>3, <4>1, <4>2
        <3> QED
            BY <3>1, <3>2, Zenon
    <2>11. \A i \in Nat : i < S => H2[i + 1][0] = H2[i][Len(log[i + 1])]
        <3> SUFFICES ASSUME NEW i \in Nat, i < S PROVE H2[i + 1][0] = H2[i][Len(log[i + 1])]
            BY Zenon
        <3>1. i + 1 \in 1..Len(log) /\ i # S
            BY <1>1, <2>1, SMTT(30) DEF Types
        <3>2. Len(log[i + 1]) \in Nat
            BY <3>1, BatchLength, Zenon DEF Types
        <3>3. H[i + 1][0] = H[i][Len(log[i + 1])] /\ i + 1 \in Nat
            BY <1>c
        <3>4. H2[i][Len(log[i + 1])] = H[i][Len(log[i + 1])]
            BY <2>4, <3>1, <3>2, Zenon
        <3>5. H2[i + 1][0] = H[i + 1][0]
            BY <2>5, <3>3, Zenon
        <3> QED
            BY <3>3, <3>4, <3>5, Zenon
    <2>12. Range(H[S][P].files) \subseteq Range(H2[S][P + 1].files)
        BY <1>3, <1>e, <2>1, <2>3, Zenon
    <2>13. \A i, j \in Nat : Known(S, P + 1, i, j)
                => Range(H2[i][j].files) \subseteq Range(H2[S][P + 1].files)
        BY <1>d, <2>3, <2>6, <2>12
    <2>14. History(H2, S, P + 1)'
        BY <1>1, <2>7, <2>8, <2>9, <2>10, <2>11, <2>13, Zenon DEF History
    <2>15. Continues(H, S, P, H2, S, P + 1)
        BY <1>7, <2>1, <2>3, <2>6, <2>7, <2>12, Zenon DEF Continues
    <2> QED
        BY <2>2, <2>14, <2>15, Zenon
<1> QED
    BY <1>6, <1>7, Zenon

\* A member that ends a slot moves along the history, or begins its next slot.
LEMMA HistoryFinish ==
    ASSUME Types, NEW H \in Histories, NEW S \in Nat, NEW P \in Nat, History(H, S, P),
           NEW n \in Nodes, FinishSlot(n)
    PROVE  \E H2 \in Histories, S2 \in Nat, P2 \in Nat :
             History(H2, S2, P2)' /\ Continues(H, S, P, H2, S2, P2)
<1>0. PICK s, p : s = slot[n] /\ p = pos[n]
    BY Zenon
<1>1. /\ log' = log
      /\ s < Len(log) /\ p = Len(log[s + 1])
      /\ slot' = [slot EXCEPT ![n] = s + 1]
      /\ pos' = [pos EXCEPT ![n] = 0]
      /\ lock_table' = lock_table /\ file_storage' = file_storage
    BY <1>0, Zenon DEF FinishSlot
<1>2. /\ log \in Seq(Seq(Submitted)) /\ Len(log) \in Nat
      /\ slot \in [Nodes -> Nat] /\ pos \in [Nodes -> Nat]
      /\ s \in Nat /\ p \in Nat
    BY <1>0 DEF Types
<1>3. /\ slot'[n] = s + 1 /\ pos'[n] = 0
      /\ \A m \in Nodes \ {n} : slot'[m] = slot[m] /\ pos'[m] = pos[m]
      /\ \A m \in Nodes : Snapshot(m)' = Snapshot(m)
    BY <1>1, <1>2, Zenon DEF Snapshot
<1>4. \A m \in Nodes : Known(S, P, slot[m], pos[m]) /\ H[slot[m]][pos[m]] = Snapshot(m)
    BY DEF History
<1>a. InLog(S, P)
    BY DEF History
<1>b. \A i, j \in Nat : Known(S, P, i, j + 1) => H[i][j + 1] = After(H[i][j], log[i + 1][j + 1])
    BY DEF History
<1>c. \A i \in Nat : i < S => H[i + 1][0] = H[i][Len(log[i + 1])]
    BY DEF History
<1>d. \A i, j \in Nat : Known(S, P, i, j) => Range(H[i][j].files) \subseteq Range(H[S][P].files)
    BY DEF History
<1>e. H[s][p] = Snapshot(n) /\ Known(S, P, s, p)
    BY <1>0, <1>4, Zenon
<1>f. \A i \in Nat : i < Len(log) => Len(log[i + 1]) \in Nat
    BY <1>2
<1>5. CASE s < S
    <2>1. Known(S, P, s + 1, 0)
        <3>1. CASE s + 1 = S
            BY <3>1 DEF Known
        <3>2. CASE s + 1 < S
            <4>1. s + 1 < Len(log)
                BY <1>2, <1>a, <3>2 DEF InLog
            <4>2. Len(log[(s + 1) + 1]) \in Nat
                BY <1>2, <1>f, <4>1
            <4> QED
                BY <3>2, <4>2 DEF Known
        <3> QED
            BY <1>2, <1>5, <3>1, <3>2
    <2>2. H[s + 1][0] = Snapshot(n)
        BY <1>1, <1>2, <1>5, <1>c, <1>e, Zenon
    <2>3. \A i, j : Known(S, P, i, j)' <=> Known(S, P, i, j)
        BY <1>1, Zenon DEF Known
    <2>4. \A m \in Nodes : (Known(S, P, slot[m], pos[m]) /\ H[slot[m]][pos[m]] = Snapshot(m))'
        <3> TAKE m \in Nodes
        <3>1. CASE m = n
            <4>1. Known(S, P, s + 1, 0)'
                BY <2>1, <2>3, Zenon
            <4> QED
                BY <1>3, <2>2, <3>1, <4>1, Zenon
        <3>2. CASE m # n
            <4>1. Known(S, P, slot[m], pos[m])'
                BY <1>1, <1>3, <1>4, <3>2, Zenon DEF Known
            <4> QED
                BY <1>3, <1>4, <3>2, <4>1, Zenon
        <3> QED
            BY <3>1, <3>2
    <2>5. InLog(S, P)'
        BY <1>1, <1>a, Zenon DEF InLog
    <2>6. History(H, S, P)'
        BY <1>1, <1>b, <1>c, <1>d, <2>3, <2>4, <2>5, Zenon DEF History
    <2>7. Continues(H, S, P, H, S, P)
        BY <2>3 DEF Continues
    <2> QED
        BY <2>6, <2>7
<1>6. CASE ~(s < S)
    <2>1. s = S /\ p = P /\ P = Len(log[S + 1]) /\ S < Len(log)
        <3>1. s = S /\ p <= P /\ S < Len(log)
            BY <1>1, <1>6, <1>e, Zenon DEF Known
        <3>2. P <= Len(log[S + 1])
            BY <1>2, <1>a, <3>1 DEF InLog
        <3> QED
            BY <1>1, <1>2, <3>1, <3>2
    <2>0. PICK H2 : H2 = [i \in Nat |-> [j \in Nat |->
                             IF i = S + 1 /\ j = 0 THEN H[S][P] ELSE H[i][j]]]
        BY Zenon
    <2>2. H2 \in Histories /\ S + 1 \in Nat
        BY <2>0 DEF Histories
    <2>3. /\ H2[S + 1][0] = H[S][P]
          /\ \A i, j \in Nat : Known(S, P, i, j) => H2[i][j] = H[i][j]
        BY <2>0 DEF Known
    <2>6. \A i, j \in Nat : Known(S + 1, 0, i, j) <=> Known(S, P, i, j) \/ (i = S + 1 /\ j = 0)
        BY <2>1 DEF Known
    <2>7. \A i, j : Known(S + 1, 0, i, j)' <=> Known(S + 1, 0, i, j)
        BY <1>1, Zenon DEF Known
    <2>8. InLog(S + 1, 0)'
        <3>1. CASE S + 1 = Len(log)
            BY <1>1, <3>1, Zenon DEF InLog
        <3>2. CASE S + 1 < Len(log)
            <4>1. Len(log[(S + 1) + 1]) \in Nat
                BY <1>f, <2>2, <3>2, Zenon
            <4> QED
                BY <1>1, <3>2, <4>1 DEF InLog
        <3> QED
            BY <1>2, <2>1, <3>1, <3>2
    <2>9. \A m \in Nodes :
             (Known(S + 1, 0, slot[m], pos[m]) /\ H2[slot[m]][pos[m]] = Snapshot(m))'
        <3> TAKE m \in Nodes
        <3>1. CASE m = n
            <4>1. slot'[m] = S + 1 /\ pos'[m] = 0
                BY <1>3, <2>1, <3>1, Zenon
            <4>2. Known(S + 1, 0, S + 1, 0)'
                BY <2>2, <2>6, <2>7, Zenon
            <4>3. H2[S + 1][0] = Snapshot(m)'
                BY <1>3, <1>e, <2>1, <2>3, <3>1, Zenon
            <4> QED
                BY <4>1, <4>2, <4>3, Zenon
        <3>2. CASE m # n
            <4>1. slot'[m] = slot[m] /\ pos'[m] = pos[m] /\ Snapshot(m)' = Snapshot(m)
                BY <1>3, <3>2, Zenon
            <4>2. slot[m] \in Nat /\ pos[m] \in Nat /\ Known(S, P, slot[m], pos[m])
                BY <1>2, <1>4, Zenon
            <4>3. Known(S + 1, 0, slot[m], pos[m])'
                BY <2>6, <2>7, <4>1, <4>2, Zenon
            <4>4. H2[slot[m]][pos[m]] = Snapshot(m)
                BY <1>4, <2>3, <4>2, Zenon
            <4> QED
                BY <4>1, <4>3, <4>4, Zenon
        <3> QED
            BY <3>1, <3>2, Zenon
    <2>10. \A i, j \in Nat : Known(S + 1, 0, i, j + 1)
                => H2[i][j + 1] = After(H2[i][j], log[i + 1][j + 1])
        <3> SUFFICES ASSUME NEW i \in Nat, NEW j \in Nat, Known(S + 1, 0, i, j + 1)
                     PROVE  H2[i][j + 1] = After(H2[i][j], log[i + 1][j + 1])
            BY Zenon
        <3>1. Known(S, P, i, j + 1)
            BY <2>6
        <3>2. i < Len(log) /\ j + 1 <= Len(log[i + 1])
            BY <1>2, <2>1, <3>1 DEF Known
        <3>3. Len(log[i + 1]) \in Nat
            BY <1>f, <3>2, Zenon
        <3>4. Known(S, P, i, j)
            BY <2>1, <3>1, <3>2, <3>3 DEF Known
        <3> QED
            BY <1>b, <2>3, <3>1, <3>4
    <2>11. \A i \in Nat : i < S + 1 => H2[i + 1][0] = H2[i][Len(log[i + 1])]
        <3> SUFFICES ASSUME NEW i \in Nat, i < S + 1 PROVE H2[i + 1][0] = H2[i][Len(log[i + 1])]
            BY Zenon
        <3>1. i < Len(log) /\ i + 1 \in Nat
            BY <1>2, <2>1
        <3>2. Len(log[i + 1]) \in Nat
            BY <1>f, <3>1, Zenon
        <3>3. H2[i][Len(log[i + 1])] = H[i][Len(log[i + 1])]
            BY <2>0, <3>2
        <3>4. CASE i = S
            BY <2>1, <2>3, <3>3, <3>4, Zenon
        <3>5. CASE i < S
            <4>1. H2[i + 1][0] = H[i + 1][0]
                BY <2>0, <3>1, <3>5
            <4> QED
                BY <1>c, <3>3, <3>5, <4>1, Zenon
        <3> QED
            BY <3>4, <3>5
    <2>12. Range(H[S][P].files) \subseteq Range(H2[S + 1][0].files)
        BY <2>3, Zenon
    <2>13. \A i, j \in Nat : Known(S + 1, 0, i, j)
                => Range(H2[i][j].files) \subseteq Range(H2[S + 1][0].files)
        BY <1>d, <2>3, <2>6
    <2>14. History(H2, S + 1, 0)'
        BY <1>1, <2>7, <2>8, <2>9, <2>10, <2>11, <2>13, Zenon DEF History
    <2>15. Continues(H, S, P, H2, S + 1, 0)
        <3>1. ~Known(S, P, S + 1, 0)
            BY DEF Known
        <3> QED
            BY <2>3, <2>6, <2>7, <2>12, <3>1, Zenon DEF Continues
    <2> QED
        BY <2>2, <2>14, <2>15, Zenon
<1> QED
    BY <1>5, <1>6, Zenon

\* The step does not move a member, and leaves the decided slots as they are.
MembersRest ==
    /\ UNCHANGED <<slot, pos, lock_table, file_storage>>
    /\ Len(log) <= Len(log')
    /\ \A s \in 1..Len(log) : log'[s] = log[s]
    /\ log' \in Seq(Seq(Submitted))

\* When no member moves, the history stays as it is.
LEMMA HistoryRests ==
    ASSUME Types, NEW H \in Histories, NEW S \in Nat, NEW P \in Nat, History(H, S, P),
           MembersRest
    PROVE  /\ History(H, S, P)' /\ Continues(H, S, P, H, S, P)
           /\ \A s, p \in Nat : Known(S, P, s, p)' <=> Known(S, P, s, p)
<1>1. /\ slot' = slot /\ pos' = pos /\ Len(log) <= Len(log')
      /\ \A s \in 1..Len(log) : log'[s] = log[s]
      /\ \A m \in Nodes : Snapshot(m)' = Snapshot(m)
      /\ log' \in Seq(Seq(Submitted))
    BY SMTT(20) DEF MembersRest, Snapshot
<1>2. log \in Seq(Seq(Submitted)) /\ Len(log) \in Nat /\ Len(log') \in Nat
    BY <1>1 DEF Types
<1>3. \A m \in Nodes : slot[m] \in Nat /\ pos[m] \in Nat
    BY Zenon DEF Types
<1>4. \A m \in Nodes : Known(S, P, slot[m], pos[m]) /\ H[slot[m]][pos[m]] = Snapshot(m)
    BY SMTT(20) DEF History
<1>a. InLog(S, P)
    BY Zenon DEF History
<1>b. \A i, j \in Nat : Known(S, P, i, j + 1) => H[i][j + 1] = After(H[i][j], log[i + 1][j + 1])
    BY Zenon DEF History
<1>c. \A i \in Nat : i < S => H[i + 1][0] = H[i][Len(log[i + 1])]
    BY SMTT(20) DEF History
<1>d. \A i, j \in Nat : Known(S, P, i, j) => Range(H[i][j].files) \subseteq Range(H[S][P].files)
    BY Zenon DEF History
<1>e. S <= Len(log)
    BY <1>2, <1>a DEF InLog
<1>5. \A i \in Nat : i < Len(log) => log'[i + 1] = log[i + 1]
    BY <1>1, <1>2
<1>6. \A i \in Nat : i < S => i < Len(log)
    BY <1>2, <1>e
<1>7. \A i, j \in Nat : Known(S, P, i, j)' <=> Known(S, P, i, j)
    BY <1>5, <1>6, Zenon DEF Known
<1>8. InLog(S, P)'
    <2>1. CASE S < Len(log)
        BY <1>1, <1>2, <1>5, <1>a, <2>1 DEF InLog
    <2>2. CASE S = Len(log) /\ S < Len(log')
        <3>1. P = 0 /\ S + 1 \in 1..Len(log')
            BY <1>2, <1>a, <2>2 DEF InLog
        <3>2. Len(log'[S + 1]) \in Nat
            BY <1>1, <3>1
        <3> QED
            BY <2>2, <3>1, <3>2 DEF InLog
    <2>3. CASE S = Len(log) /\ S = Len(log')
        BY <1>2, <1>a, <2>3 DEF InLog
    <2> QED
        BY <1>1, <1>2, <1>e, <2>1, <2>2, <2>3
<1>9. \A m \in Nodes : (Known(S, P, slot[m], pos[m]) /\ H[slot[m]][pos[m]] = Snapshot(m))'
    <2> TAKE m \in Nodes
    <2>1. Known(S, P, slot[m], pos[m])'
        BY <1>1, <1>3, <1>4, <1>7, Zenon
    <2> QED
        BY <1>1, <1>4, <2>1, Zenon
<1>10. \A i, j \in Nat : Known(S, P, i, j + 1)
            => H[i][j + 1] = After(H[i][j], log'[i + 1][j + 1])
    <2> SUFFICES ASSUME NEW i \in Nat, NEW j \in Nat, Known(S, P, i, j + 1)
                 PROVE  H[i][j + 1] = After(H[i][j], log'[i + 1][j + 1])
        BY Zenon
    <2>1. i < Len(log)
        <3>1. CASE i < S
            BY <1>6, <3>1, Zenon
        <3>2. CASE i = S /\ j + 1 <= P
            BY <1>2, <1>a, <3>2 DEF InLog
        <3> QED
            BY <3>1, <3>2, Zenon DEF Known
    <2> QED
        BY <1>5, <1>b, <2>1, Zenon
<1>11. \A i \in Nat : i < S => H[i + 1][0] = H[i][Len(log'[i + 1])]
    BY <1>5, <1>6, <1>c, Zenon
<1>12. \A i, j \in Nat : j + 1 \in Nat
    OBVIOUS
<1>13. \A i, j \in Nat : Known(S, P, i, j + 1)'
            => H[i][j + 1] = After(H[i][j], log'[i + 1][j + 1])
    BY <1>7, <1>10, <1>12, Zenon
<1>14. \A i, j \in Nat : Known(S, P, i, j)' => Range(H[i][j].files) \subseteq Range(H[S][P].files)
    BY <1>7, <1>d, Zenon
<1>15. History(H, S, P)'
    BY <1>8, <1>9, <1>11, <1>13, <1>14, Zenon DEF History
<1>16. Continues(H, S, P, H, S, P)
    BY <1>7, Zenon DEF Continues
<1> QED
    BY <1>7, <1>15, <1>16, Zenon

\* Deciding a slot, and the steps of clients, move no member.
LEMMA OthersRest ==
    ASSUME Types,
           \/ \E c \in Clients : Submit(c)
           \/ \E c \in Lockers : SubmitUnlock(c)
           \/ Decide
           \/ \E r \in Readers : LatestLocalCommit(r) \/ Sync(r)
           \/ UNCHANGED vars
    PROVE  MembersRest
<1>0. log \in Seq(Seq(Submitted)) /\ Len(log) \in Nat
    BY DEF Types
<1>1. CASE UNCHANGED <<slot, pos, lock_table, file_storage, log>>
    BY <1>0, <1>1 DEF MembersRest
<1>2. CASE Decide
    <2>1. /\ log' \in Seq(Seq(Submitted))
          /\ Len(log') = Len(log) + 1
          /\ \A s \in 1..Len(log) : log'[s] = log[s]
          /\ UNCHANGED <<memberVars, clientVars>>
        BY <1>2, DecideIs, Zenon
    <2>2. Len(log) <= Len(log')
        BY <1>0, <2>1
    <2> QED
        BY <2>1, <2>2, Zenon DEF MembersRest, memberVars
<1>3. CASE \E c \in Clients : Submit(c)
    BY <1>1, <1>3, Zenon DEF Submit
<1>4. CASE \E c \in Lockers : SubmitUnlock(c)
    BY <1>1, <1>4, Zenon DEF SubmitUnlock
<1>5. CASE \E r \in Readers : LatestLocalCommit(r) \/ Sync(r)
    BY <1>1, <1>5, Zenon DEF LatestLocalCommit, Sync, raxosVars, memberVars
<1>6. CASE UNCHANGED vars
    BY <1>1, <1>6, Zenon DEF vars, raxosVars, memberVars
<1> QED
    BY <1>2, <1>3, <1>4, <1>5, <1>6, Zenon

------------------------------------------------------------------------------
(***************************************************************************)
(* What holds at every point of the history                                *)
(***************************************************************************)
\* The value of applied_index at a member that has finished s slots.
AppliedOf(s) == IF s = 0 THEN 0 ELSE (s - 1) + FirstSlot

\* The counter that readers load is the number of finished slots.
CountersMatch == \A n \in Nodes : applied_index[n] = AppliedOf(slot[n])

\* Who has submitted a command is not idle any more.
SubmittersWait ==
    /\ \A c \in proposed : state[c.from] # "idle"
    /\ \A s \in 1..Len(log) : \A k \in 1..Len(log[s]) : state[log[s][k].from] # "idle"

\* The sender of a reader is at its node, and the reader waits.
SendersWait ==
    \A n \in Nodes : \A r \in responses[n] \cap Readers : state[r] = "waiting" /\ Home[r] = n

\* No reader requires a slot that is not decided.
RequiredIsDecided == \A r \in Readers : required[r] <= AppliedOf(Len(log))

\* The sync requests of a member are those of distinct readers that wait there.
QueueIsSound ==
    /\ \A n \in Nodes : \A k \in 1..Len(sync_requests[n]) :
          LET r == sync_requests[n][k][2]
          IN  sync_requests[n][k][1] = required[r] /\ state[r] = "syncing" /\ Peer[r] = n
    /\ \A n \in Nodes : \A k, l \in 1..Len(sync_requests[n]) :
          sync_requests[n][k][2] = sync_requests[n][l][2] => k = l

\* Who waits for what, and where.
Waits ==
    /\ CountersMatch
    /\ SubmittersWait
    /\ SendersWait
    /\ RequiredIsDecided
    /\ QueueIsSound
    /\ SyncQueueDrains

------------------------------------------------------------------------------
(***************************************************************************)
(* Who waits for what.                                                     *)
(***************************************************************************)
\* A later slot has a larger number.
LEMMA AppliedGrows ==
    ASSUME NEW s \in Nat, NEW t \in Nat
    PROVE  /\ AppliedOf(s) \in Nat
           /\ AppliedOf(s + 1) = s + FirstSlot
           /\ s <= t <=> AppliedOf(s) <= AppliedOf(t)
<1>1. FirstSlot \in Nat /\ FirstSlot > 0
    BY GroupAssumption
<1> QED
    BY <1>1 DEF AppliedOf

\* A reader is answered by its own barrier, and a writer by the command that
\* commits its write.
LEMMA RepliesAre ==
    ASSUME Types, NEW n \in Nodes, ApplyCommand(n)
    PROVE  /\ ReplyTo(n) \subseteq responses[n]
           /\ \A r \in ReplyTo(n) \cap Readers : IsBarrier(n) /\ NextCommand(n).from = r
           /\ \A w \in ReplyTo(n) \cap Writers : w \in Range(Committed(n, Out(n)))
<1>1. NextCommand(n) \in Submitted
    BY ApplyCommandIs, NextCommandIs, Zenon DEF Types
<1>2. /\ Out(n) \in Seq({c \in Requests : c.type = "Write" /\ c.from \in Writers})
      /\ Granted(n) \subseteq Lockers
    BY <1>1, PartsOfApply, Zenon
<1>3. \A k \in DOMAIN Out(n) : Out(n)[k].from \in Writers
    BY <1>2
<1>4. \A k \in DOMAIN Out(n) : Out(n)[k].from \in Range(Committed(n, Out(n)))
    BY <1>2, CommittedGrows, Zenon
<1>5. \A x \in Through(n) : /\ x = NextCommand(n).from
                            /\ \/ IsBarrier(n) /\ x \in Readers
                               \/ x \in Lockers
    BY <1>1, Zenon DEF Through, IsBarrier, Submitted
<1>6. /\ Writers \cap Lockers = {} /\ Writers \cap Readers = {} /\ Lockers \cap Readers = {}
    BY GroupAssumption, Zenon
<1>7. \A x \in ReplyTo(n) : /\ x \in responses[n]
                            /\ \/ x \in Granted(n)
                               \/ x \in Through(n)
                               \/ \E k \in DOMAIN Out(n) : x = Out(n)[k].from
    BY Zenon DEF ReplyTo, Replies
<1>8. ASSUME NEW r \in ReplyTo(n), r \in Readers PROVE IsBarrier(n) /\ NextCommand(n).from = r
    <2>1. r \notin Lockers /\ r \notin Writers
        BY <1>6, <1>8, Zenon
    <2>2. r \in Through(n)
        BY <1>2, <1>3, <1>7, <2>1, Zenon
    <2> QED
        BY <1>5, <2>1, <2>2, Zenon
<1>9. ASSUME NEW w \in ReplyTo(n), w \in Writers PROVE w \in Range(Committed(n, Out(n)))
    <2>1. w \notin Lockers /\ w \notin Readers
        BY <1>6, <1>9, Zenon
    <2>2. PICK k \in DOMAIN Out(n) : w = Out(n)[k].from
        BY <1>2, <1>5, <1>7, <2>1, Zenon
    <2> QED
        BY <1>4, <2>2, Zenon
<1> QED
    BY <1>7, <1>8, <1>9, Zenon

\* Nobody becomes idle again.
LEMMA NobodyIdles ==
    ASSUME Types, [Next]_vars, NEW c \in Clients, state[c] # "idle"
    PROVE  state'[c] # "idle"
<1>0. state \in [Clients -> States] /\ Readers \subseteq Clients /\ Lockers \subseteq Clients
    BY Zenon DEF Types, Clients
<1>1. ASSUME NEW d \in Clients, Submit(d) PROVE state'[c] # "idle"
    BY <1>0, <1>1, Zenon DEF Submit
<1>2. ASSUME NEW d \in Lockers, SubmitUnlock(d) PROVE state'[c] # "idle"
    BY <1>0, <1>2, Zenon DEF SubmitUnlock
<1>3. CASE Decide
    BY <1>3, DecideIs, Zenon DEF clientVars
<1>4. ASSUME NEW n \in Nodes, ApplyCommand(n) PROVE state'[c] # "idle"
    <2>1. state' = [d \in Clients |-> IF d \in ReplyTo(n) THEN Answered(d) ELSE state[d]]
        BY <1>4, ApplyCommandIs, Zenon DEF Types
    <2>2. Answered(c) # "idle"
        BY Zenon DEF Answered
    <2> QED
        BY <2>1, <2>2, Zenon
<1>5. ASSUME NEW n \in Nodes, FinishSlot(n) PROVE state'[c] # "idle"
    <2>1. PICK j \in 0..Len(sync_requests[n]) : Finish(n, j)
        BY <1>5, FinishSlotIs, Zenon
    <2> QED
        BY <2>1, Zenon DEF Finish
<1>6. ASSUME NEW r \in Readers, LatestLocalCommit(r) \/ Sync(r) PROVE state'[c] # "idle"
    BY <1>0, <1>6, Zenon DEF LatestLocalCommit, Sync
<1>7. CASE UNCHANGED vars
    BY <1>7, Zenon DEF vars, clientVars
<1> QED
    BY <1>1, <1>2, <1>3, <1>4, <1>5, <1>6, <1>7, Zenon DEF Next

\* A command is decided after its client has submitted it.
LEMMA SubmittersHold ==
    ASSUME Types, [Next]_vars, SubmittersWait
    PROVE  SubmittersWait'
<1>0. /\ \A c \in Submitted : c.from \in Clients
      /\ proposed \subseteq Submitted
      /\ log \in Seq(Seq(Submitted))
      /\ Readers \subseteq Clients /\ Lockers \subseteq Clients
      /\ state \in [Clients -> States]
    BY Zenon DEF Types, Submitted, Commands, Clients
<1>1. \A c \in proposed : state'[c.from] # "idle"
    BY <1>0, NobodyIdles, Zenon DEF SubmittersWait
<1>2. \A s \in 1..Len(log) : \A k \in 1..Len(log[s]) : state'[log[s][k].from] # "idle"
    <2> SUFFICES ASSUME NEW s \in 1..Len(log), NEW k \in 1..Len(log[s])
                 PROVE  state'[log[s][k].from] # "idle"
        BY Zenon
    <2>1. log[s][k] \in Submitted
        BY <1>0
    <2> QED
        BY <1>0, <2>1, NobodyIdles, Zenon DEF SubmittersWait
<1>3. CASE UNCHANGED <<proposed, log>>
    BY <1>1, <1>2, <1>3, Zenon DEF SubmittersWait
<1>4. ASSUME NEW c \in Clients, NEW command, proposed' = proposed \cup {command},
             command.from = c, state'[c] # "idle", log' = log
      PROVE  SubmittersWait'
    BY <1>1, <1>2, <1>4, Zenon DEF SubmittersWait
<1>5. ASSUME NEW c \in Clients, Submit(c) PROVE SubmittersWait'
    <2>0. PICK type : ProposeRaw(c, Command(type, c, NoLockId))
        BY <1>5, Zenon DEF Submit
    <2>1. PICK command : proposed' = proposed \cup {command} /\ command.from = c
        <3>1. Command(type, c, NoLockId).from = c
            BY Zenon DEF Command
        <3> QED
            BY <2>0, <3>1, Zenon DEF ProposeRaw
    <2>2. state'[c] # "idle" /\ log' = log
        BY <1>0, <1>5, Zenon DEF Submit
    <2> QED
        BY <1>4, <2>1, <2>2, Zenon
<1>6. ASSUME NEW c \in Lockers, SubmitUnlock(c) PROVE SubmittersWait'
    <2>1. PICK command : proposed' = proposed \cup {command} /\ command.from = c
        <3>1. Command("Unlock", c, lock_id[c]).from = c
            BY Zenon DEF Command
        <3> QED
            BY <1>6, <3>1, Zenon DEF SubmitUnlock, ProposeRaw
    <2>2. state'[c] # "idle" /\ log' = log /\ c \in Clients
        BY <1>0, <1>6, Zenon DEF SubmitUnlock
    <2> QED
        BY <1>4, <2>1, <2>2, Zenon
<1>7. CASE Decide
    <2>1. PICK batch \in Seq(Submitted) :
             /\ Len(log') = Len(log) + 1
             /\ \A s \in 1..Len(log) : log'[s] = log[s]
             /\ log'[Len(log) + 1] = batch
             /\ \A k \in 1..Len(batch) : batch[k] \in proposed
             /\ proposed' \subseteq proposed
        BY <1>7, DecideIs, Zenon
    <2>2. \A s \in 1..Len(log') : s \in 1..Len(log) \/ s = Len(log) + 1
        BY <1>0, <2>1
    <2>3. \A s \in 1..Len(log') : \A k \in 1..Len(log'[s]) : state'[log'[s][k].from] # "idle"
        BY <1>1, <1>2, <2>1, <2>2, Zenon
    <2> QED
        BY <1>1, <2>1, <2>3, Zenon DEF SubmittersWait
<1>8. CASE \E n \in Nodes : ApplyCommand(n) \/ FinishSlot(n)
    BY <1>3, <1>8, Zenon DEF ApplyCommand, FinishSlot
<1>9. CASE \E r \in Readers : LatestLocalCommit(r) \/ Sync(r)
    BY <1>3, <1>9, Zenon DEF LatestLocalCommit, Sync, raxosVars
<1>10. CASE UNCHANGED vars
    BY <1>3, <1>10, Zenon DEF vars, raxosVars
<1> QED
    BY <1>5, <1>6, <1>7, <1>8, <1>9, <1>10, Zenon DEF Next

\* The rest of Waits when a step moves no member and no sync request, and
\* every reader that changes was and is in another state than these two.
LEMMA QueuesRest ==
    ASSUME Types, Waits, Types', SubmittersWait',
           UNCHANGED <<slot, applied_index, sync_requests, log>>,
           \A r \in Readers : required'[r] <= AppliedOf(Len(log)),
           \A r \in Readers : state[r] = "syncing" => state'[r] = "syncing" /\ required'[r] = required[r],
           SendersWait'
    PROVE  Waits'
<1>1. CountersMatch' /\ RequiredIsDecided' /\ SyncQueueDrains'
    BY Zenon DEF Waits, CountersMatch, RequiredIsDecided, SyncQueueDrains, AppliedOf
<1>2. \A n \in Nodes : \A k \in 1..Len(sync_requests[n]) : sync_requests[n][k][2] \in Readers
    BY SMTT(20) DEF Types
<1>3. QueueIsSound'
    BY <1>2 DEF Waits, QueueIsSound
<1> QED
    BY <1>1, <1>3, Zenon DEF Waits

\* Two places that move by as much
LEMMA SameShift ==
    ASSUME NEW n \in Nat, NEW j \in 0..n, NEW k \in 1..(n - j), NEW l \in 1..(n - j), k + j = l + j
    PROVE  k = l
    OBVIOUS

\* Only readers wait in sync_requests.
LEMMA WaiterIs ==
    ASSUME NEW s \in Seq(Nat \X Readers), NEW k \in 1..Len(s)
    PROVE  s[k][2] \in Readers
    OBVIOUS

\* The counter of one member goes up by one.
LEMMA OneCounts ==
    ASSUME NEW f \in [Nodes -> Nat], NEW n \in Nodes, NEW m \in Nodes
    PROVE  /\ f[m] \in Nat /\ [f EXCEPT ![n] = f[n] + 1][m] \in Nat
           /\ f[m] <= [f EXCEPT ![n] = f[n] + 1][m]
           /\ f[n] \in Nat /\ f[n] + 1 \in Nat /\ [f EXCEPT ![n] = f[n] + 1][n] = f[n] + 1
    OBVIOUS

\* The end of a slot takes the sync requests that it resolves out of the queue,
\* all of them at the last slot, and no other reader is affected.
LEMMA WaitsFinish ==
    ASSUME Types, Waits, Types', SubmittersWait', NEW n \in Nodes, FinishSlot(n)
    PROVE  Waits'
<1> DEFINE queue == sync_requests[n]
<1>0. PICK j \in 0..Len(queue) : Finish(n, j)
    BY FinishSlotIs, Zenon
<1>1. /\ slot[n] < Len(log)
      /\ applied_index' = [applied_index EXCEPT ![n] = slot[n] + FirstSlot]
      /\ j < Len(queue) => ~(queue[j + 1][1] <= slot[n] + FirstSlot)
      /\ sync_requests' = [sync_requests EXCEPT ![n] = SubSeq(queue, j + 1, Len(queue))]
      /\ state' = [c \in Clients |->
             IF \E k \in 1..j : queue[k][2] = c THEN "synced" ELSE state[c]]
      /\ slot' = [slot EXCEPT ![n] = slot[n] + 1]
      /\ UNCHANGED <<log, responses, required>>
    BY <1>0, Zenon DEF Finish
<1>2. /\ slot \in [Nodes -> Nat] /\ applied_index \in [Nodes -> Nat]
      /\ Len(log) \in Nat
      /\ sync_requests \in [Nodes -> Seq(Nat \X Readers)]
      /\ queue \in Seq(Nat \X Readers)
      /\ FirstSlot \in Nat /\ required \in [Readers -> Nat]
    <2>1. /\ slot \in [Nodes -> Nat] /\ applied_index \in [Nodes -> Nat]
          /\ log \in Seq(Seq(Submitted))
          /\ sync_requests \in [Nodes -> Seq(Nat \X Readers)]
          /\ required \in [Readers -> Nat]
        BY Zenon DEF Types
    <2> QED
        BY <2>1, GroupAssumption
<1> HIDE DEF queue
<1>3. /\ sync_requests'[n] = SubSeq(queue, j + 1, Len(queue))
      /\ \A m \in Nodes \ {n} : sync_requests'[m] = sync_requests[m]
      /\ slot'[n] = slot[n] + 1 /\ applied_index'[n] = slot[n] + FirstSlot
      /\ \A m \in Nodes \ {n} : slot'[m] = slot[m] /\ applied_index'[m] = applied_index[m]
    BY <1>1, <1>2, Zenon
<1>4. /\ Len(SubSeq(queue, j + 1, Len(queue))) = Len(queue) - j
      /\ \A k \in 1..(Len(queue) - j) :
            k + j \in 1..Len(queue) /\ SubSeq(queue, j + 1, Len(queue))[k] = queue[k + j]
    BY <1>2, RestOfQueue, Zenon
<1>5. \A k \in 1..Len(queue) : /\ queue[k][2] \in Readers
                               /\ queue[k][1] = required[queue[k][2]]
                               /\ state[queue[k][2]] = "syncing"
                               /\ Peer[queue[k][2]] = n
    <2>1. \A k \in 1..Len(queue) : queue[k][2] \in Readers
        BY <1>2, WaiterIs, Zenon
    <2>2. QueueIsSound
        BY Zenon DEF Waits
    <2> QED
        BY <2>1, <2>2, ZenonT(30) DEF QueueIsSound, queue
<1>6. \A k, l \in 1..Len(queue) : queue[k][2] = queue[l][2] => k = l
    BY Zenon DEF Waits, QueueIsSound, queue
<1>7. \A k \in 1..j : k \in 1..Len(queue)
    BY <1>2
<1>8. Readers \subseteq Clients
    BY Zenon DEF Clients
<1>a. CountersMatch'
    <2> SUFFICES ASSUME NEW m \in Nodes PROVE applied_index'[m] = AppliedOf(slot'[m])
        BY Zenon DEF CountersMatch, AppliedOf
    <2>1. CASE m = n
        BY <1>2, <1>3, <2>1, AppliedGrows, Zenon
    <2>2. CASE m # n
        BY <1>3, <2>2, Zenon DEF Waits, CountersMatch
    <2> QED
        BY <2>1, <2>2, Zenon
<1>b. RequiredIsDecided'
    BY <1>1, Zenon DEF Waits, RequiredIsDecided, AppliedOf
<1>c. SendersWait'
    <2> SUFFICES ASSUME NEW m \in Nodes, NEW r \in responses[m] \cap Readers
                 PROVE  state'[r] = "waiting" /\ Home[r] = m
        <3>1. responses' = responses
            BY <1>1, Zenon
        <3> QED
            BY <3>1, Zenon DEF SendersWait
    <2>1. state[r] = "waiting" /\ Home[r] = m
        BY Zenon DEF Waits, SendersWait
    <2>2. ~\E k \in 1..j : queue[k][2] = r
        BY <1>5, <1>7, <2>1, Zenon
    <2> QED
        BY <1>1, <1>8, <2>1, <2>2, Zenon
<1>d. QueueIsSound'
    <2>1. ASSUME NEW m \in Nodes, NEW k \in 1..Len(sync_requests'[m])
          PROVE  LET r == sync_requests'[m][k][2]
                 IN  sync_requests'[m][k][1] = required'[r] /\ state'[r] = "syncing" /\ Peer[r] = m
        <3>1. CASE m = n
            <4>1. k \in 1..(Len(queue) - j) /\ sync_requests'[m][k] = queue[k + j]
                BY <1>3, <1>4, <2>1, <3>1, Zenon
            <4>2. k + j \in 1..Len(queue)
                BY <1>4, <4>1, Zenon
            <4>3. \A i \in 1..j : i # k + j
                BY <1>2, <4>1
            <4>4. ~\E i \in 1..j : queue[i][2] = queue[k + j][2]
                BY <1>6, <1>7, <4>2, <4>3, Zenon
            <4> QED
                BY <1>1, <1>5, <1>8, <3>1, <4>1, <4>2, <4>4, Zenon
        <3>2. CASE m # n
            <4>1. sync_requests'[m] = sync_requests[m] /\ k \in 1..Len(sync_requests[m])
                BY <1>3, <2>1, <3>2, Zenon
            <4>2. PICK r : r = sync_requests[m][k][2]
                BY Zenon
            <4>3. r \in Readers /\ sync_requests[m][k][1] = required[r] /\ state[r] = "syncing" /\ Peer[r] = m
                <5>1. r \in Readers
                    <6>1. sync_requests[m] \in Seq(Nat \X Readers)
                        BY <1>2, Zenon
                    <6> QED
                        BY <4>1, <4>2, <6>1, WaiterIs, Zenon
                <5>2. QueueIsSound
                    BY Zenon DEF Waits
                <5> QED
                    BY <4>1, <4>2, <5>1, <5>2, ZenonT(30) DEF QueueIsSound
            <4>4. ~\E i \in 1..j : queue[i][2] = r
                BY <1>5, <1>7, <3>2, <4>3, Zenon
            <4>5. state'[r] = "syncing"
                BY <1>1, <1>8, <4>3, <4>4, Zenon
            <4> QED
                BY <1>1, <4>1, <4>2, <4>3, <4>5, Zenon
        <3> QED
            BY <3>1, <3>2, Zenon
    <2>2. ASSUME NEW m \in Nodes, NEW k \in 1..Len(sync_requests'[m]), NEW l \in 1..Len(sync_requests'[m]),
                 sync_requests'[m][k][2] = sync_requests'[m][l][2]
          PROVE  k = l
        <3>1. CASE m = n
            <4>1. /\ k \in 1..(Len(queue) - j) /\ sync_requests'[m][k] = queue[k + j]
                  /\ l \in 1..(Len(queue) - j) /\ sync_requests'[m][l] = queue[l + j]
                BY <1>3, <1>4, <2>2, <3>1, Zenon
            <4>2. k + j = l + j
                BY <1>4, <1>6, <2>2, <4>1, Zenon
            <4> QED
                <5>1. Len(queue) \in Nat
                    BY <1>2
                <5> QED
                    BY <4>1, <4>2, <5>1, SameShift, Zenon
        <3>2. CASE m # n
            <4>1. sync_requests'[m] = sync_requests[m]
                BY <1>3, <3>2, Zenon
            <4>2. /\ k \in 1..Len(sync_requests[m]) /\ l \in 1..Len(sync_requests[m])
                  /\ sync_requests[m][k][2] = sync_requests[m][l][2]
                BY <2>2, <4>1, Zenon
            <4> QED
                BY <4>2, Zenon DEF Waits, QueueIsSound
        <3> QED
            BY <3>1, <3>2, Zenon
    <2> QED
        BY <2>1, <2>2, Zenon DEF QueueIsSound
<1>e. SyncQueueDrains'
    <2> SUFFICES ASSUME NEW m \in Nodes, slot'[m] = Len(log) PROVE sync_requests'[m] = <<>>
        BY <1>1, Zenon DEF SyncQueueDrains
    <2>1. CASE m = n
        <3>1. AppliedOf(Len(log)) = slot[n] + FirstSlot
            BY <1>2, <1>3, <2>1, AppliedGrows, Zenon
        <3>2. \A k \in 1..Len(queue) : queue[k][1] <= slot[n] + FirstSlot
            BY <1>5, <3>1, Zenon DEF Waits, RequiredIsDecided
        <3>3. j = Len(queue)
            <4>1. CASE j < Len(queue)
                <5>1. j + 1 \in 1..Len(queue)
                    BY <1>2, <4>1
                <5> QED
                    BY <1>1, <3>2, <4>1, <5>1, Zenon
            <4> QED
                BY <1>2, <4>1
        <3>4. Len(sync_requests'[n]) = 0 /\ sync_requests'[n] \in Seq(Nat \X Readers)
            BY <1>2, <1>3, <1>4, <3>3
        <3> QED
            BY <2>1, <3>4
    <2>2. CASE m # n
        BY <1>3, <2>2, Zenon DEF Waits, SyncQueueDrains
    <2> QED
        BY <2>1, <2>2, Zenon
<1> QED
    BY <1>a, <1>b, <1>c, <1>d, <1>e, Zenon DEF Waits

\* A sync request joins the queue only when the member is behind.
LEMMA WaitsSync ==
    ASSUME Types, Waits, Types', SubmittersWait', NEW r \in Readers, Sync(r)
    PROVE  Waits'
<1>1. /\ state[r] = "asking"
      /\ UNCHANGED <<log, slot, applied_index, responses, required>>
      /\ r \in Clients
    BY Zenon DEF Sync, raxosVars, Clients
<1>2. /\ state \in [Clients -> States]
      /\ sync_requests \in [Nodes -> Seq(Nat \X Readers)]
      /\ slot \in [Nodes -> Nat] /\ log \in Seq(Seq(Submitted))
      /\ required \in [Readers -> Nat]
      /\ Peer \in [Readers -> Nodes]
      /\ Readers \subseteq Clients
    BY GroupAssumption, Zenon DEF Types, Clients
<1>3. \A m \in Nodes : \A q \in responses[m] \cap Readers : q # r
    BY <1>1, Zenon DEF Waits, SendersWait
<1>4. PICK x \in {"synced", "syncing"} : state' = [state EXCEPT ![r] = x]
    BY Zenon DEF Sync
<1>5. \A q \in Readers \ {r} : state'[q] = state[q]
    BY <1>2, <1>4, Zenon
<1>6. SendersWait'
    BY <1>1, <1>3, <1>5, Zenon DEF Waits, SendersWait
<1>7. \A q \in Readers : state[q] = "syncing" => state'[q] = "syncing" /\ required'[q] = required[q]
    BY <1>1, <1>5, Zenon
<1>8. CASE UNCHANGED sync_requests
    <2>1. \A q \in Readers : required'[q] <= AppliedOf(Len(log))
        BY <1>1, Zenon DEF Waits, RequiredIsDecided
    <2> QED
        BY <1>1, <1>6, <1>7, <1>8, <2>1, QueuesRest, Zenon
<1>9. CASE ~UNCHANGED sync_requests
    <2> DEFINE p == Peer[r]
               queue == sync_requests[p]
    <2>1. /\ ~HasApplied(p, required[r])
          /\ state' = [state EXCEPT ![r] = "syncing"]
          /\ sync_requests' = [sync_requests EXCEPT ![p] = Append(queue, <<required[r], r>>)]
        BY <1>9, Zenon DEF Sync
    <2>2. p \in Nodes /\ queue \in Seq(Nat \X Readers) /\ Len(queue) \in Nat
        BY <1>2
    <2>3. \A m \in Nodes : \A k \in 1..Len(sync_requests[m]) :
            /\ sync_requests[m][k][2] \in Readers
            /\ state[sync_requests[m][k][2]] = "syncing"
        BY <1>2 DEF Waits, QueueIsSound
    <2>4. \A m \in Nodes : \A k \in 1..Len(sync_requests[m]) : sync_requests[m][k][2] # r
        BY <1>1, <2>3, Zenon
    <2>5. CountersMatch' /\ RequiredIsDecided'
        BY <1>1, Zenon DEF Waits, CountersMatch, RequiredIsDecided, AppliedOf
    <2>6. slot[p] # Len(log)
        <3>1. required[r] <= AppliedOf(Len(log)) /\ applied_index[p] = AppliedOf(slot[p])
            BY <2>2, Zenon DEF Waits, RequiredIsDecided, CountersMatch
        <3>2. AppliedOf(Len(log)) \in Nat /\ required[r] \in Nat
            BY <1>2, AppliedGrows
        <3> QED
            BY <2>1, <3>1, <3>2, SMTT(20) DEF HasApplied
    <2> HIDE DEF p, queue
    <2>7. /\ \A m \in Nodes \ {p} : sync_requests'[m] = sync_requests[m]
          /\ sync_requests'[p] = Append(queue, <<required[r], r>>)
        BY <1>2, <2>1, <2>2, Zenon
    <2>8. /\ Len(sync_requests'[p]) = Len(queue) + 1
          /\ \A k \in 1..Len(queue) : sync_requests'[p][k] = queue[k]
          /\ sync_requests'[p][Len(queue) + 1] = <<required[r], r>>
        BY <2>2, <2>7
    <2>9. \A k \in 1..Len(sync_requests'[p]) : k \in 1..Len(queue) \/ k = Len(queue) + 1
        BY <2>2, <2>8
    <2>10. SyncQueueDrains'
        BY <1>1, <2>6, <2>7, Zenon DEF Waits, SyncQueueDrains
    <2>11. ASSUME NEW m \in Nodes, NEW k \in 1..Len(sync_requests'[m])
           PROVE  LET q == sync_requests'[m][k][2]
                  IN  sync_requests'[m][k][1] = required'[q] /\ state'[q] = "syncing" /\ Peer[q] = m
        <3>1. CASE m = p /\ k = Len(queue) + 1
            <4>1. sync_requests'[m][k][1] = required[r] /\ sync_requests'[m][k][2] = r
                BY <2>8, <3>1
            <4>2. state'[r] = "syncing" /\ Peer[r] = m
                BY <1>1, <1>2, <2>1, <3>1, Zenon DEF p
            <4> QED
                BY <1>1, <4>1, <4>2, Zenon
        <3>2. CASE ~(m = p /\ k = Len(queue) + 1)
            <4>1. k \in 1..Len(sync_requests[m]) /\ sync_requests'[m][k] = sync_requests[m][k]
                BY <2>7, <2>8, <2>9, <2>11, <3>2, Zenon DEF queue
            <4>2. PICK q : q = sync_requests[m][k][2]
                BY Zenon
            <4>3. q \in Readers
                BY <2>3, <4>1, <4>2, Zenon
            <4>4. sync_requests[m][k][1] = required[q] /\ state[q] = "syncing" /\ Peer[q] = m
                <5>1. QueueIsSound
                    BY Zenon DEF Waits
                <5> QED
                    BY <4>1, <4>2, <5>1, ZenonT(30) DEF QueueIsSound
            <4> QED
                BY <1>7, <4>1, <4>2, <4>3, <4>4, Zenon
        <3> QED
            BY <3>1, <3>2, Zenon
    <2>12. ASSUME NEW m \in Nodes,
                  NEW k \in 1..Len(sync_requests'[m]), NEW l \in 1..Len(sync_requests'[m]),
                  sync_requests'[m][k][2] = sync_requests'[m][l][2]
           PROVE  k = l
        <3>1. CASE m # p
            BY <2>7, <2>12, <3>1 DEF Waits, QueueIsSound
        <3>2. CASE m = p
            <4>1. \A i \in 1..Len(queue) : sync_requests'[p][i][2] # r
                BY <2>2, <2>4, <2>8, Zenon DEF queue
            <4>2. sync_requests'[p][Len(queue) + 1][2] = r
                BY <2>8
            <4>3. CASE k \in 1..Len(queue) /\ l \in 1..Len(queue)
                <5>1. queue[k][2] = queue[l][2]
                    BY <2>8, <2>12, <3>2, <4>3, Zenon
                <5>2. \A i, j \in 1..Len(queue) : queue[i][2] = queue[j][2] => i = j
                    BY <2>2, Zenon DEF Waits, QueueIsSound, queue
                <5> QED
                    BY <4>3, <5>1, <5>2, Zenon
            <4> QED
                BY <2>9, <2>12, <3>2, <4>1, <4>2, <4>3, Zenon
        <3> QED
            BY <3>1, <3>2, Zenon
    <2>13. QueueIsSound'
        BY <2>11, <2>12, Zenon DEF QueueIsSound
    <2> QED
        BY <1>6, <2>5, <2>10, <2>13, Zenon DEF Waits
<1> QED
    BY <1>8, <1>9, Zenon

\* Who waits for what is kept by every step.
LEMMA WaitsHold ==
    ASSUME Types, Waits, [Next]_vars
    PROVE  Waits'
<1>0. Types' /\ SubmittersWait'
    BY TypesHold, SubmittersHold, Zenon DEF Waits
<1>a. /\ state \in [Clients -> States]
      /\ responses \in [Nodes -> SUBSET Clients]
      /\ required \in [Readers -> Nat]
      /\ slot \in [Nodes -> Nat]
      /\ log \in Seq(Seq(Submitted)) /\ Len(log) \in Nat
    BY DEF Types
<1>b. Readers \subseteq Clients /\ Lockers \subseteq Clients
    BY Zenon DEF Clients
<1>c. Home \in [Clients -> Nodes] /\ Lockers \cap Readers = {}
    BY GroupAssumption, Zenon
<1>d. \A r \in Readers : required[r] <= AppliedOf(Len(log))
    BY Zenon DEF Waits, RequiredIsDecided
<1>e. \A n \in Nodes : \A r \in responses[n] \cap Readers : state[r] = "waiting" /\ Home[r] = n
    BY Zenon DEF Waits, SendersWait
<1>1. ASSUME NEW c \in Clients, Submit(c) PROVE Waits'
    <2>1. /\ state[c] = "idle"
          /\ responses' = [responses EXCEPT ![Home[c]] = responses[Home[c]] \cup {c}]
          /\ state' = [state EXCEPT ![c] = "waiting"]
          /\ UNCHANGED <<log, slot, applied_index, sync_requests, required>>
        BY <1>1, Zenon DEF Submit, ProposeRaw
    <2>2. SendersWait'
        <3> SUFFICES ASSUME NEW n \in Nodes, NEW r \in responses'[n] \cap Readers
                     PROVE  state'[r] = "waiting" /\ Home[r] = n
            BY Zenon DEF SendersWait
        <3>1. CASE r \in responses[n]
            BY <1>a, <1>b, <1>e, <2>1, <3>1, Zenon
        <3>2. CASE r \notin responses[n]
            BY <1>a, <1>b, <1>c, <2>1, <3>2, Zenon
        <3> QED
            BY <3>1, <3>2, Zenon
    <2>3. \A r \in Readers : state[r] = "syncing" => state'[r] = "syncing" /\ required'[r] = required[r]
        BY <1>a, <1>b, <2>1, Zenon
    <2>4. \A r \in Readers : required'[r] <= AppliedOf(Len(log))
        BY <1>d, <2>1, Zenon
    <2> QED
        BY <1>0, <2>1, <2>2, <2>3, <2>4, QueuesRest, Zenon
<1>2. ASSUME NEW c \in Lockers, SubmitUnlock(c) PROVE Waits'
    <2>1. /\ responses' = [responses EXCEPT ![Home[c]] = responses[Home[c]] \cup {c}]
          /\ state' = [state EXCEPT ![c] = "unlocking"]
          /\ UNCHANGED <<log, slot, applied_index, sync_requests, required>>
        BY <1>2, Zenon DEF SubmitUnlock, ProposeRaw
    <2>2. \A r \in Readers : r # c /\ state'[r] = state[r]
        BY <1>a, <1>b, <1>c, <2>1, Zenon
    <2>3. \A n \in Nodes : responses'[n] \cap Readers = responses[n] \cap Readers
        BY <1>a, <2>1, <2>2, Zenon
    <2>4. SendersWait'
        BY <1>e, <2>2, <2>3, Zenon DEF SendersWait
    <2>5. \A r \in Readers : required'[r] <= AppliedOf(Len(log)) /\ required'[r] = required[r]
        BY <1>d, <2>1, Zenon
    <2> QED
        BY <1>0, <2>1, <2>2, <2>4, <2>5, QueuesRest, SMTT(20)
<1>3. CASE Decide
    <2>1. /\ Len(log') = Len(log) + 1
          /\ slot' = slot /\ applied_index' = applied_index /\ responses' = responses
          /\ sync_requests' = sync_requests /\ state' = state /\ required' = required
        BY <1>3, DecideIs, Zenon DEF memberVars, clientVars
    <2>2. CountersMatch' /\ SendersWait' /\ QueueIsSound'
        BY <2>1 DEF Waits, CountersMatch, SendersWait, QueueIsSound, AppliedOf
    <2>3. AppliedOf(Len(log)) <= AppliedOf(Len(log) + 1)
        <3>1. Len(log) + 1 \in Nat /\ Len(log) <= Len(log) + 1
            BY <1>a
        <3> QED
            BY <1>a, <3>1, AppliedGrows, Zenon
    <2>4. RequiredIsDecided'
        <3>1. AppliedOf(Len(log)) \in Nat /\ AppliedOf(Len(log) + 1) \in Nat
            BY <1>a, AppliedGrows
        <3>2. \A r \in Readers : required[r] <= AppliedOf(Len(log) + 1)
            BY <1>a, <1>d, <2>3, <3>1
        <3> QED
            BY <2>1, <3>2, Zenon DEF RequiredIsDecided, AppliedOf
    <2>5. SyncQueueDrains'
        <3>1. \A n \in Nodes : slot[n] <= Len(log)
            BY <1>a DEF Types, InLog
        <3>2. \A n \in Nodes : slot[n] # Len(log) + 1
            BY <1>a, <3>1, SMTT(20)
        <3> QED
            BY <2>1, <3>2, Zenon DEF SyncQueueDrains
    <2> QED
        BY <1>0, <2>2, <2>4, <2>5, Zenon DEF Waits
<1>4. ASSUME NEW n \in Nodes, ApplyCommand(n) PROVE Waits'
    <2>1. /\ responses' = [responses EXCEPT ![n] = responses[n] \ ReplyTo(n)]
          /\ state' = [c \in Clients |-> IF c \in ReplyTo(n) THEN Answered(c) ELSE state[c]]
          /\ UNCHANGED <<log, slot, applied_index, sync_requests, required>>
        BY <1>4, ApplyCommandIs, Zenon DEF Types
    <2>2. ReplyTo(n) \subseteq responses[n]
        BY <1>4, RepliesAre, Zenon
    <2>3. \A r \in Readers : r \in ReplyTo(n) => state[r] = "waiting" /\ Home[r] = n
        BY <1>e, <2>2, Zenon
    <2>4. \A r \in Readers : r \notin ReplyTo(n) => state'[r] = state[r]
        BY <1>b, <2>1, Zenon
    <2>5. SendersWait'
        <3> SUFFICES ASSUME NEW m \in Nodes, NEW r \in responses'[m] \cap Readers
                     PROVE  state'[r] = "waiting" /\ Home[r] = m
            BY Zenon DEF SendersWait
        <3>1. r \in responses[m] /\ (m = n => r \notin ReplyTo(n))
            BY <1>a, <2>1, Zenon
        <3>2. r \notin ReplyTo(n)
            BY <1>e, <2>3, <3>1, Zenon
        <3> QED
            BY <1>e, <2>4, <3>1, <3>2, Zenon
    <2>6. \A r \in Readers : state[r] = "syncing" => state'[r] = "syncing" /\ required'[r] = required[r]
        BY <2>1, <2>3, <2>4, Zenon
    <2>7. \A r \in Readers : required'[r] <= AppliedOf(Len(log))
        BY <1>d, <2>1, Zenon
    <2> QED
        BY <1>0, <2>1, <2>5, <2>6, <2>7, QueuesRest, Zenon
<1>5. ASSUME NEW n \in Nodes, FinishSlot(n) PROVE Waits'
    BY <1>0, <1>5, WaitsFinish, Zenon
<1>6. ASSUME NEW r \in Readers, LatestLocalCommit(r) PROVE Waits'
    <2>1. /\ state[r] = "fresh"
          /\ required' = [required EXCEPT ![r] = applied_index[Home[r]]]
          /\ state' = [state EXCEPT ![r] = "asking"]
          /\ UNCHANGED <<log, slot, applied_index, responses, sync_requests>>
        BY <1>6, Zenon DEF LatestLocalCommit, raxosVars, memberVars
    <2>2. \A q \in Readers \ {r} : state'[q] = state[q] /\ required'[q] = required[q]
        BY <1>a, <1>b, <2>1, Zenon
    <2>3. SendersWait'
        BY <1>e, <2>1, <2>2 DEF SendersWait
    <2>4. applied_index[Home[r]] <= AppliedOf(Len(log))
        <3>1. Home[r] \in Nodes /\ slot[Home[r]] \in Nat
            BY <1>a, <1>b, <1>c, Zenon
        <3>2. slot[Home[r]] <= Len(log)
            BY <1>a, <3>1 DEF Types, InLog
        <3>3. applied_index[Home[r]] = AppliedOf(slot[Home[r]])
            BY <3>1, Zenon DEF Waits, CountersMatch
        <3> QED
            BY <1>a, <3>1, <3>2, <3>3, AppliedGrows, Zenon
    <2>5. \A q \in Readers : required'[q] <= AppliedOf(Len(log))
        BY <1>a, <1>d, <2>1, <2>2, <2>4, Zenon
    <2>6. \A q \in Readers : state[q] = "syncing" => state'[q] = "syncing" /\ required'[q] = required[q]
        BY <2>1, <2>2, Zenon
    <2> QED
        BY <1>0, <2>1, <2>3, <2>5, <2>6, QueuesRest, Zenon
<1>7. ASSUME NEW r \in Readers, Sync(r) PROVE Waits'
    BY <1>0, <1>7, WaitsSync
<1>8. CASE UNCHANGED vars
    <2>1. UNCHANGED <<log, slot, applied_index, responses, sync_requests, state, required>>
        BY <1>8, Zenon DEF vars, raxosVars, memberVars, clientVars
    <2>2. SendersWait'
        BY <1>e, <2>1, Zenon DEF SendersWait
    <2> QED
        BY <1>0, <1>d, <2>1, <2>2, QueuesRest, Zenon
<1> QED
    BY <1>1, <1>2, <1>3, <1>4, <1>5, <1>6, <1>7, <1>8, Zenon DEF Next

------------------------------------------------------------------------------
(***************************************************************************)
(* Freshness. The writes acknowledged before a client submitted are in the *)
(* history from slot s on.                                                 *)
(***************************************************************************)
Fresh(H, S, P, c, s) ==
    \A i, j \in Nat : Known(S, P, i, j) /\ s <= i => before[c] \subseteq Range(H[i][j].files)

\* What has been acknowledged is in the last entry of the history, and so is
\* what was acknowledged before a client submitted.
LastIsFresh(H, S, P) ==
    /\ Acknowledged \subseteq Range(H[S][P].files)
    /\ \A c \in Clients : before[c] \subseteq Range(H[S][P].files)

\* What c submitted first is in the log, in slot s or before.
Decided(c, s) ==
    \E i \in 0..s : i < Len(log) /\ \E k \in 1..Len(log[i + 1]) :
        log[i + 1][k].type # "Unlock" /\ log[i + 1][k].from = c

\* After s slots a member must have what was acknowledged before c submitted:
\* a member that comes to the slot of the command of c, the node of a reader
\* that has passed its barrier, a member that has applied what a reader
\* requires, and the peer of a reader that has synced.
MustSee(c, s) ==
    \/ Decided(c, s)
    \/ /\ c \in Readers
       /\ \/ state[c] \in {"fresh", "asking", "syncing", "synced"} /\ slot[Home[c]] <= s
          \/ state[c] \in {"asking", "syncing"} /\ required[c] <= AppliedOf(s)
          \/ state[c] = "synced" /\ slot[Peer[c]] <= s

ClientsAreServed(H, S, P) ==
    \A c \in Clients, s \in Nat : MustSee(c, s) => Fresh(H, S, P, c, s)

\* An entry that is added to the history has everything that the last one had.
LEMMA FreshContinues ==
    ASSUME NEW H, NEW S \in Nat, NEW P \in Nat, NEW H2, NEW S2 \in Nat, NEW P2 \in Nat,
           Continues(H, S, P, H2, S2, P2),
           NEW c, before'[c] = before[c], before[c] \subseteq Range(H[S][P].files)
    PROVE  /\ before'[c] \subseteq Range(H2[S2][P2].files)
           /\ \A s : Fresh(H, S, P, c, s) => Fresh(H2, S2, P2, c, s)'
<1>1. before[c] \subseteq Range(H2[S2][P2].files)
    BY Zenon DEF Continues
<1>2. \A i, j \in Nat : Known(S2, P2, i, j)' =>
            \/ Known(S, P, i, j) /\ H2[i][j] = H[i][j]
            \/ i = S2 /\ j = P2
    BY Zenon DEF Continues
<1>3. ASSUME NEW s, Fresh(H, S, P, c, s), NEW i \in Nat, NEW j \in Nat,
             Known(S2, P2, i, j)', s <= i
      PROVE  before'[c] \subseteq Range(H2[i][j].files)
    <2>1. CASE i = S2 /\ j = P2
        BY <1>1, <2>1, Zenon
    <2>2. CASE Known(S, P, i, j) /\ H2[i][j] = H[i][j]
        BY <1>3, <2>2, Zenon DEF Fresh
    <2> QED
        BY <1>2, <1>3, <2>1, <2>2, Zenon
<1>4. ASSUME NEW s, Fresh(H, S, P, c, s) PROVE Fresh(H2, S2, P2, c, s)'
    BY <1>3, <1>4, Zenon DEF Fresh
<1> QED
    BY <1>1, <1>4, Zenon

\* A write is acknowledged by a member that has committed it, which is at a
\* point of the history.
LEMMA LastStaysFresh ==
    ASSUME Types, [Next]_vars, NEW H, NEW S \in Nat, NEW P \in Nat,
           LastIsFresh(H, S, P), NEW H2, NEW S2 \in Nat, NEW P2 \in Nat,
           History(H2, S2, P2)', Continues(H, S, P, H2, S2, P2)
    PROVE  LastIsFresh(H2, S2, P2)'
<1>0. /\ Range(H[S][P].files) \subseteq Range(H2[S2][P2].files)
      /\ state \in [Clients -> States] /\ before \in [Clients -> SUBSET Writers]
      /\ Writers \subseteq Clients /\ Readers \subseteq Clients /\ Lockers \subseteq Clients
      /\ Writers \cap Lockers = {} /\ Writers \cap Readers = {}
    BY GroupAssumption, Zenon DEF Continues, Types, Clients
<1>1. /\ Acknowledged \subseteq Range(H2[S2][P2].files)
      /\ \A c \in Clients : before[c] \subseteq Range(H2[S2][P2].files)
    BY <1>0, ZenonT(30) DEF LastIsFresh
<1>2. \A c \in Clients : before'[c] \subseteq Range(H2[S2][P2].files)
    <2>1. CASE UNCHANGED before
        BY <1>1, <2>1, Zenon
    <2>2. ASSUME NEW d \in Clients, Submit(d)
          PROVE  \A c \in Clients : before'[c] \subseteq Range(H2[S2][P2].files)
        BY <1>0, <1>1, <2>2, Zenon DEF Submit
    <2>3. CASE Decide
        BY <2>1, <2>3, DecideIs, Zenon DEF clientVars
    <2>4. CASE \/ \E c \in Lockers : SubmitUnlock(c)
               \/ \E n \in Nodes : ApplyCommand(n) \/ FinishSlot(n)
               \/ \E r \in Readers : LatestLocalCommit(r) \/ Sync(r)
        BY <2>1, <2>4, Zenon DEF SubmitUnlock, ApplyCommand, FinishSlot, LatestLocalCommit, Sync
    <2>5. CASE UNCHANGED vars
        BY <2>1, <2>5, SMTT(20) DEF vars, clientVars
    <2> QED
        BY <2>2, <2>3, <2>4, <2>5, Zenon DEF Next
<1>3. Acknowledged' \subseteq Range(H2[S2][P2].files)
    <2>1. CASE \A w \in Writers : state'[w] = "done" => state[w] = "done"
        BY <1>1, <2>1, Zenon DEF Acknowledged
    <2>2. CASE \E c \in Clients : Submit(c)
        BY <1>0, <2>1, <2>2, SMTT(20) DEF Submit
    <2>3. CASE \E c \in Lockers : SubmitUnlock(c)
        BY <1>0, <2>1, <2>3, ZenonT(30) DEF SubmitUnlock
    <2>4. CASE Decide
        BY <2>1, <2>4, DecideIs, Zenon DEF clientVars
    <2>5. ASSUME NEW n \in Nodes, ApplyCommand(n) PROVE Acknowledged' \subseteq Range(H2[S2][P2].files)
        <3>1. /\ file_storage' = [file_storage EXCEPT ![n] = Committed(n, Out(n))]
              /\ state' = [c \in Clients |-> IF c \in ReplyTo(n) THEN Answered(c) ELSE state[c]]
              /\ \A w \in ReplyTo(n) \cap Writers : w \in Range(Committed(n, Out(n)))
            BY <2>5, ApplyCommandIs, RepliesAre, Zenon DEF Types
        <3>2. Snapshot(n)'.files = Committed(n, Out(n))
            BY <3>1, Zenon DEF Snapshot, Types
        <3>3. Range(Snapshot(n)'.files) \subseteq Range(H2[S2][P2].files)
            <4>1. slot'[n] \in Nat /\ pos'[n] \in Nat
                BY TypesHold, Zenon DEF Types
            <4>2. Known(S2, P2, slot[n], pos[n])' /\ H2[slot'[n]][pos'[n]] = Snapshot(n)'
                BY Zenon DEF History
            <4>3. \A i, j \in Nat : Known(S2, P2, i, j)' =>
                        Range(H2[i][j].files) \subseteq Range(H2[S2][P2].files)
                BY SMTT(20) DEF History
            <4> QED
                BY <4>1, <4>2, <4>3, Zenon
        <3>4. ASSUME NEW w \in Writers, state'[w] = "done" PROVE w \in Range(H2[S2][P2].files)
            <4>1. CASE w \in ReplyTo(n)
                BY <3>1, <3>2, <3>3, <4>1, SMTT(20)
            <4>2. CASE w \notin ReplyTo(n)
                BY <1>0, <1>1, <3>1, <3>4, <4>2, ZenonT(30) DEF Acknowledged
            <4> QED
                BY <4>1, <4>2, Zenon
        <3> QED
            BY <3>4, Zenon DEF Acknowledged
    <2>6. ASSUME NEW n \in Nodes, FinishSlot(n) PROVE Acknowledged' \subseteq Range(H2[S2][P2].files)
        <3>1. PICK j \in 0..Len(sync_requests[n]) : Finish(n, j)
            BY <2>6, FinishSlotIs, Zenon
        <3> QED
            BY <1>0, <2>1, <3>1, Zenon DEF Finish
    <2>7. CASE \E r \in Readers : LatestLocalCommit(r) \/ Sync(r)
        BY <1>0, <2>1, <2>7, Zenon DEF LatestLocalCommit, Sync
    <2>8. CASE UNCHANGED vars
        BY <2>1, <2>8, SMTT(20) DEF vars, clientVars
    <2> QED
        BY <2>2, <2>3, <2>4, <2>5, <2>6, <2>7, <2>8, Zenon DEF Next
<1> QED
    BY <1>2, <1>3, Zenon DEF LastIsFresh

\* What a client has to see is fixed when it submits.
LEMMA BeforeStays ==
    ASSUME Types, [Next]_vars, NEW c \in Clients, state[c] # "idle"
    PROVE  before'[c] = before[c]
<1>0. before \in [Clients -> SUBSET Writers]
    BY Zenon DEF Types
<1>1. CASE UNCHANGED before
    BY <1>1, Zenon
<1>2. ASSUME NEW d \in Clients, Submit(d) PROVE before'[c] = before[c]
    BY <1>0, <1>2, Zenon DEF Submit
<1>3. CASE Decide
    BY <1>1, <1>3, DecideIs, Zenon DEF clientVars
<1>4. CASE \/ \E d \in Lockers : SubmitUnlock(d)
           \/ \E n \in Nodes : ApplyCommand(n) \/ FinishSlot(n)
           \/ \E r \in Readers : LatestLocalCommit(r) \/ Sync(r)
    BY <1>1, <1>4, Zenon DEF SubmitUnlock, ApplyCommand, FinishSlot, LatestLocalCommit, Sync
<1>5. CASE UNCHANGED vars
    BY <1>1, <1>5, Zenon DEF vars, clientVars
<1> QED
    BY <1>2, <1>3, <1>4, <1>5, Zenon DEF Next

\* Whoever must have the writes has submitted.
LEMMA MustSeeIsSubmitted ==
    ASSUME Types, Waits, NEW c \in Clients, NEW s \in Nat, MustSee(c, s)
    PROVE  state[c] # "idle"
<1>1. CASE Decided(c, s)
    <2>1. PICK i \in 0..s : i < Len(log) /\ \E k \in 1..Len(log[i + 1]) : log[i + 1][k].from = c
        BY <1>1, SMTT(20) DEF Decided
    <2>2. i + 1 \in 1..Len(log)
        BY <2>1, SMTT(30) DEF Types
    <2> QED
        BY <2>1, <2>2, Zenon DEF Waits, SubmittersWait
<1>2. CASE ~Decided(c, s)
    BY <1>2, Zenon DEF MustSee
<1> QED
    BY <1>1, <1>2, Zenon

\* A step asks for nothing new, except at the end of the log.
NothingNew(c, s) == state[c] # "idle" /\ (MustSee(c, s) \/ Len(log) <= s)

\* When the step decides nothing, the decided commands are the same.
LEMMA DecidedStays ==
    ASSUME log' = log, NEW c, NEW s
    PROVE  Decided(c, s)' <=> Decided(c, s)
BY Zenon DEF Decided

\* The steps of clients.
LEMMA MustSeeClients ==
    ASSUME Types, Waits, NEW c \in Clients, NEW s \in Nat, MustSee(c, s)',
           \/ \E d \in Clients : Submit(d)
           \/ \E d \in Lockers : SubmitUnlock(d)
           \/ \E r \in Readers : LatestLocalCommit(r) \/ Sync(r)
    PROVE  NothingNew(c, s)
<1>0. /\ state \in [Clients -> States] /\ required \in [Readers -> Nat]
      /\ slot \in [Nodes -> Nat] /\ applied_index \in [Nodes -> Nat]
      /\ Readers \subseteq Clients /\ Lockers \subseteq Clients /\ Lockers \cap Readers = {}
      /\ Home \in [Clients -> Nodes] /\ Peer \in [Readers -> Nodes]
    BY GroupAssumption, Zenon DEF Types, Clients
<1>1. ASSUME MustSee(c, s) PROVE NothingNew(c, s)
    BY <1>1, MustSeeIsSubmitted, Zenon DEF NothingNew
<1>2. SUFFICES ASSUME ~Decided(c, s) PROVE MustSee(c, s)
    BY <1>1, Zenon DEF MustSee
<1>3. log' = log /\ slot' = slot
    BY Zenon DEF Submit, SubmitUnlock, LatestLocalCommit, Sync, raxosVars, memberVars
<1>4. /\ c \in Readers
      /\ \/ state'[c] \in {"fresh", "asking", "syncing", "synced"} /\ slot[Home[c]] <= s
         \/ state'[c] \in {"asking", "syncing"} /\ required'[c] <= AppliedOf(s)
         \/ state'[c] = "synced" /\ slot[Peer[c]] <= s
    BY <1>2, <1>3, DecidedStays, Zenon DEF MustSee, AppliedOf
<1>5. CASE state'[c] = state[c] /\ required'[c] = required[c]
    BY <1>4, <1>5, Zenon DEF MustSee
<1>6. ASSUME NEW d \in Clients, Submit(d) PROVE MustSee(c, s)
    <2>1. state' = [state EXCEPT ![d] = "waiting"] /\ required' = required
        BY <1>6, Zenon DEF Submit
    <2>2. d # c
        BY <1>0, <1>4, <2>1, Zenon
    <2> QED
        BY <1>0, <1>5, <2>1, <2>2, Zenon
<1>7. ASSUME NEW d \in Lockers, SubmitUnlock(d) PROVE MustSee(c, s)
    <2>1. state' = [state EXCEPT ![d] = "unlocking"] /\ required' = required
        BY <1>7, SMTT(20) DEF SubmitUnlock
    <2>2. d # c
        BY <1>0, <1>4, Zenon
    <2> QED
        BY <1>0, <1>5, <2>1, <2>2, Zenon
<1>8. ASSUME NEW r \in Readers, LatestLocalCommit(r) PROVE MustSee(c, s)
    <2>1. /\ state[r] = "fresh"
          /\ state' = [state EXCEPT ![r] = "asking"]
          /\ required' = [required EXCEPT ![r] = applied_index[Home[r]]]
        BY <1>8, Zenon DEF LatestLocalCommit
    <2>2. CASE c # r
        BY <1>0, <1>4, <1>5, <2>1, <2>2, SMTT(20)
    <2>3. CASE c = r
        <3>1. state'[c] = "asking" /\ required'[c] = AppliedOf(slot[Home[c]])
            BY <1>0, <2>1, <2>3, Zenon DEF Waits, CountersMatch
        <3>2. slot[Home[c]] \in Nat
            BY <1>0, Zenon
        <3>3. slot[Home[c]] <= s
            BY <1>4, <3>1, <3>2, AppliedGrows
        <3> QED
            BY <1>4, <2>1, <2>3, <3>3, Zenon DEF MustSee
    <2> QED
        BY <2>2, <2>3, Zenon
<1>9. ASSUME NEW r \in Readers, Sync(r) PROVE MustSee(c, s)
    <2>1. /\ state[r] = "asking" /\ required' = required
          /\ \/ HasApplied(Peer[r], required[r]) /\ state' = [state EXCEPT ![r] = "synced"]
             \/ state' = [state EXCEPT ![r] = "syncing"]
        BY <1>9, Zenon DEF Sync
    <2>2. CASE c # r
        BY <1>0, <1>4, <1>5, <2>1, <2>2, SMTT(20)
    <2>3. CASE c = r /\ state'[c] # "synced"
        BY <1>4, <2>1, <2>3, SMTT(20) DEF MustSee
    <2>4. CASE c = r /\ state'[c] = "synced" /\ slot[Home[c]] <= s
        BY <1>4, <2>1, <2>4, SMTT(20) DEF MustSee
    <2>5. CASE c = r /\ state'[c] = "synced" /\ slot[Peer[c]] <= s
        <3>1. HasApplied(Peer[c], required[c])
            BY <1>0, <2>1, <2>5, SMTT(20)
        <3>2. Peer[c] \in Nodes /\ slot[Peer[c]] \in Nat /\ required[c] \in Nat
            BY <1>0, <1>4, Zenon
        <3>3. required[c] <= AppliedOf(slot[Peer[c]])
            BY <3>1, <3>2, Zenon DEF HasApplied, Waits, CountersMatch
        <3>4. /\ AppliedOf(slot[Peer[c]]) <= AppliedOf(s)
              /\ AppliedOf(slot[Peer[c]]) \in Nat /\ AppliedOf(s) \in Nat
            BY <2>5, <3>2, AppliedGrows, SMTT(20)
        <3>5. required[c] <= AppliedOf(s)
            BY <3>2, <3>3, <3>4
        <3> QED
            BY <1>4, <2>1, <2>5, <3>5, Zenon DEF MustSee
    <2> QED
        BY <1>4, <2>2, <2>3, <2>4, <2>5, Zenon
<1> QED
    BY <1>6, <1>7, <1>8, <1>9, Zenon

\* A member that answers a reader is in the slot of its barrier.
LEMMA MustSeeApply ==
    ASSUME Types, Waits, NEW c \in Clients, NEW s \in Nat, MustSee(c, s)',
           NEW n \in Nodes, ApplyCommand(n)
    PROVE  NothingNew(c, s)
<1>1. ASSUME MustSee(c, s) PROVE NothingNew(c, s)
    BY <1>1, MustSeeIsSubmitted, Zenon DEF NothingNew
<1>2. SUFFICES ASSUME ~Decided(c, s) PROVE MustSee(c, s)
    BY <1>1, Zenon DEF MustSee
<1>3. /\ slot[n] < Len(log)
      /\ pos[n] < Len(log[slot[n] + 1])
      /\ state' = [d \in Clients |-> IF d \in ReplyTo(n) THEN Answered(d) ELSE state[d]]
      /\ log' = log /\ slot' = slot /\ required' = required
    BY ApplyCommandIs, Zenon DEF Types
<1>4. /\ c \in Readers
      /\ \/ state'[c] \in {"fresh", "asking", "syncing", "synced"} /\ slot[Home[c]] <= s
         \/ state'[c] \in {"asking", "syncing"} /\ required[c] <= AppliedOf(s)
         \/ state'[c] = "synced" /\ slot[Peer[c]] <= s
    BY <1>2, <1>3, DecidedStays, Zenon DEF MustSee, AppliedOf
<1>5. CASE c \notin ReplyTo(n)
    <2>1. state'[c] = state[c]
        BY <1>3, <1>5, Zenon
    <2> QED
        BY <1>4, <2>1, SMTT(20) DEF MustSee
<1>6. CASE c \in ReplyTo(n)
    <2>1. c \in responses[n] /\ IsBarrier(n) /\ NextCommand(n).from = c
        BY <1>4, <1>6, RepliesAre, Zenon
    <2>2. state[c] = "waiting" /\ Home[c] = n
        BY <1>4, <2>1, Zenon DEF Waits, SendersWait
    <2>3. state'[c] = "fresh"
        <3>1. c \notin Lockers
            BY <1>4, GroupAssumption, Zenon
        <3> QED
            BY <1>3, <1>4, <1>6, <2>2, <3>1, Zenon DEF Answered
    <2>4. slot[n] <= s
        BY <1>4, <2>2, <2>3, SMTT(20)
    <2>5. /\ slot[n] \in 0..s
          /\ pos[n] + 1 \in 1..Len(log[slot[n] + 1])
          /\ log[slot[n] + 1][pos[n] + 1].type = "Barrier"
          /\ log[slot[n] + 1][pos[n] + 1].from = c
        BY <1>3, <2>1, <2>4, NextCommandIs, SMTT(20) DEF IsBarrier, NextCommand
    <2>6. Decided(c, s)
        BY <1>3, <2>5, Zenon DEF Decided
    <2> QED
        BY <1>2, <2>6, SMTT(20)
<1> QED
    BY <1>5, <1>6, Zenon

\* A member that resolves a sync request has applied what it requires.
LEMMA MustSeeFinish ==
    ASSUME Types, Waits, NEW c \in Clients, NEW s \in Nat, MustSee(c, s)',
           NEW n \in Nodes, FinishSlot(n)
    PROVE  NothingNew(c, s)
<1> DEFINE queue == sync_requests[n]
<1>0. PICK j \in 0..Len(queue) : Finish(n, j)
    BY FinishSlotIs, Zenon
<1>1. ASSUME MustSee(c, s) PROVE NothingNew(c, s)
    BY <1>1, MustSeeIsSubmitted, SMTT(20) DEF NothingNew
<1>2. SUFFICES ASSUME ~Decided(c, s) PROVE MustSee(c, s)
    BY <1>1, Zenon DEF MustSee
<1>3. /\ \A k \in 1..j : queue[k][1] <= slot[n] + FirstSlot
      /\ state' = [d \in Clients |->
             IF \E k \in 1..j : queue[k][2] = d THEN "synced" ELSE state[d]]
      /\ slot' = [slot EXCEPT ![n] = slot[n] + 1]
      /\ log' = log /\ required' = required
    BY <1>0, ZenonT(30) DEF Finish
<1>4. /\ c \in Readers
      /\ \/ state'[c] \in {"fresh", "asking", "syncing", "synced"} /\ slot'[Home[c]] <= s
         \/ state'[c] \in {"asking", "syncing"} /\ required[c] <= AppliedOf(s)
         \/ state'[c] = "synced" /\ slot'[Peer[c]] <= s
    BY <1>2, <1>3, DecidedStays, Zenon DEF MustSee, AppliedOf
<1>5. /\ slot \in [Nodes -> Nat] /\ required \in [Readers -> Nat]
      /\ queue \in Seq(Nat \X Readers)
    BY Zenon DEF Types
<1>6. /\ Home[c] \in Nodes /\ Peer[c] \in Nodes
    BY <1>4, GroupAssumption, Zenon
<1>7. slot[Home[c]] <= slot'[Home[c]] /\ slot[Peer[c]] <= slot'[Peer[c]]
    BY <1>3, <1>5, <1>6, OneCounts, ZenonT(30)
<1>8. /\ slot'[Home[c]] <= s => slot[Home[c]] <= s
      /\ slot'[Peer[c]] <= s => slot[Peer[c]] <= s
    <2>1. /\ slot[Home[c]] \in Nat /\ slot'[Home[c]] \in Nat
          /\ slot[Peer[c]] \in Nat /\ slot'[Peer[c]] \in Nat
        BY <1>3, <1>5, <1>6, OneCounts, Zenon
    <2> QED
        BY <1>7, <2>1
<1> HIDE DEF queue
<1>9. CASE ~\E k \in 1..j : queue[k][2] = c
    <2>1. state'[c] = state[c]
        BY <1>3, <1>9, Zenon
    <2> QED
        <3>1. CASE slot'[Home[c]] <= s /\ state'[c] \in {"fresh", "asking", "syncing", "synced"}
            BY <1>4, <1>8, <2>1, <3>1, Zenon DEF MustSee
        <3>2. CASE state'[c] \in {"asking", "syncing"} /\ required[c] <= AppliedOf(s)
            BY <1>4, <2>1, <3>2, Zenon DEF MustSee
        <3>3. CASE state'[c] = "synced" /\ slot'[Peer[c]] <= s
            BY <1>4, <1>8, <2>1, <3>3, Zenon DEF MustSee
        <3> QED
            BY <1>4, <3>1, <3>2, <3>3, Zenon
<1>10. ASSUME NEW k \in 1..j, queue[k][2] = c PROVE MustSee(c, s)
    <2>1. k \in 1..Len(queue)
        BY <1>5
    <2>2. queue[k][1] = required[c] /\ state[c] = "syncing" /\ Peer[c] = n
        <3>1. QueueIsSound
            BY Zenon DEF Waits
        <3> QED
            BY <1>10, <2>1, <3>1, ZenonT(30) DEF QueueIsSound, queue
    <2>3. CASE slot'[Home[c]] <= s
        BY <1>4, <1>8, <2>2, <2>3, ZenonT(30) DEF MustSee
    <2>4. CASE slot'[Peer[c]] <= s
        <3>1. slot[n] + 1 <= s /\ slot[n] + 1 \in Nat /\ slot[n] \in Nat
            BY <1>3, <1>5, <2>2, <2>4, OneCounts, Zenon
        <3>2. required[c] <= AppliedOf(slot[n] + 1)
            <4>1. AppliedOf(slot[n] + 1) = slot[n] + FirstSlot
                BY <3>1, AppliedGrows, Zenon
            <4> QED
                BY <1>3, <1>10, <2>2, <4>1, Zenon
        <3>3. /\ AppliedOf(slot[n] + 1) <= AppliedOf(s)
              /\ AppliedOf(slot[n] + 1) \in Nat /\ AppliedOf(s) \in Nat
            BY <3>1, AppliedGrows, Zenon
        <3>4. required[c] <= AppliedOf(s)
            BY <1>4, <1>5, <3>2, <3>3
        <3> QED
            BY <1>4, <2>2, <3>4, ZenonT(30) DEF MustSee
    <2>5. state'[c] = "synced"
        BY <1>3, <1>10, Zenon
    <2> QED
        BY <1>4, <2>3, <2>4, <2>5, Zenon
<1> QED
    BY <1>9, <1>10, Zenon

\* A slot is decided at the end of the log.
LEMMA MustSeeDecide ==
    ASSUME Types, Waits, NEW c \in Clients, NEW s \in Nat, MustSee(c, s)', Decide
    PROVE  NothingNew(c, s)
<1>1. PICK batch \in Seq(Submitted) :
        /\ Len(log') = Len(log) + 1
        /\ \A i \in 1..Len(log) : log'[i] = log[i]
        /\ log'[Len(log) + 1] = batch
        /\ \A k \in 1..Len(batch) : batch[k] \in proposed
        /\ UNCHANGED <<memberVars, clientVars>>
    BY DecideIs, SMTT(20)
<1>2. state' = state /\ slot' = slot /\ required' = required /\ Len(log) \in Nat
    <2>1. state' = state /\ slot' = slot /\ required' = required
        BY <1>1, Zenon DEF memberVars, clientVars
    <2>2. log \in Seq(Seq(Submitted))
        BY Zenon DEF Types
    <2> QED
        BY <2>1, <2>2
<1>3. ASSUME MustSee(c, s) PROVE NothingNew(c, s)
    BY <1>3, MustSeeIsSubmitted, Zenon DEF NothingNew
<1>4. CASE Decided(c, s)'
    <2>1. PICK i \in 0..s : i < Len(log') /\ \E k \in 1..Len(log'[i + 1]) :
                log'[i + 1][k].type # "Unlock" /\ log'[i + 1][k].from = c
        BY <1>4, SMTT(20) DEF Decided
    <2>2. CASE i < Len(log)
        <3>1. log'[i + 1] = log[i + 1]
            BY <1>1, <1>2, <2>2
        <3> QED
            BY <1>3, <2>1, <2>2, <3>1, Zenon DEF Decided, MustSee
    <2>3. CASE i = Len(log)
        <3>1. PICK k \in 1..Len(batch) : batch[k].from = c
            BY <1>1, <2>1, <2>3, Zenon
        <3>2. state[c] # "idle"
            BY <1>1, <3>1, Zenon DEF Waits, SubmittersWait
        <3> QED
            BY <2>3, <3>2 DEF NothingNew
    <2> QED
        BY <1>1, <1>2, <2>1, <2>2, <2>3
<1>5. CASE ~Decided(c, s)'
    <2>1. MustSee(c, s)
        BY <1>2, <1>5, Zenon DEF MustSee, AppliedOf
    <2> QED
        BY <1>3, <2>1, Zenon
<1> QED
    BY <1>4, <1>5, Zenon

\* Whatever a step asks for is in the history after the step.
LEMMA ClientsStayServed ==
    ASSUME Types, Waits, [Next]_vars, NEW H, NEW S \in Nat, NEW P \in Nat,
           History(H, S, P), LastIsFresh(H, S, P), ClientsAreServed(H, S, P),
           NEW H2, NEW S2 \in Nat, NEW P2 \in Nat, Continues(H, S, P, H2, S2, P2)
    PROVE  ClientsAreServed(H2, S2, P2)'
<1>1. ASSUME NEW c \in Clients, NEW s \in Nat, MustSee(c, s)'
      PROVE  NothingNew(c, s)
    <2>1. CASE UNCHANGED vars
        <3>1. UNCHANGED <<log, slot, state, required>>
            BY <2>1, ZenonT(30) DEF vars, raxosVars, memberVars, clientVars
        <3>2. MustSee(c, s)
            BY <1>1, <3>1, DecidedStays, Zenon DEF MustSee, AppliedOf
        <3> QED
            BY <3>2, MustSeeIsSubmitted, Zenon DEF NothingNew
    <2>2. CASE Decide
        BY <1>1, <2>2, MustSeeDecide, Zenon
    <2>3. CASE \E n \in Nodes : ApplyCommand(n) \/ FinishSlot(n)
        BY <1>1, <2>3, MustSeeApply, MustSeeFinish, Zenon
    <2>4. CASE \/ \E d \in Clients : Submit(d)
               \/ \E d \in Lockers : SubmitUnlock(d)
               \/ \E r \in Readers : LatestLocalCommit(r) \/ Sync(r)
        BY <1>1, <2>4, MustSeeClients, Zenon
    <2> QED
        BY <2>1, <2>2, <2>3, <2>4, Zenon DEF Next
<1>2. ASSUME NEW c \in Clients, NEW s \in Nat, Len(log) <= s
      PROVE  Fresh(H, S, P, c, s)
    <2> SUFFICES ASSUME NEW i \in Nat, NEW j \in Nat, Known(S, P, i, j), s <= i
                 PROVE  before[c] \subseteq Range(H[i][j].files)
        BY SMTT(20) DEF Fresh
    <2>1. Len(log) \in Nat /\ InLog(S, P)
        <3>1. log \in Seq(Seq(Submitted))
            BY Zenon DEF Types
        <3>2. InLog(S, P)
            BY Zenon DEF History
        <3> QED
            BY <3>1, <3>2
    <2>2. i = S /\ j = P
        BY <1>2, <2>1 DEF Known, InLog
    <2> QED
        BY <2>2, Zenon DEF LastIsFresh
<1>3. ASSUME NEW c \in Clients, NEW s \in Nat, MustSee(c, s)'
      PROVE  Fresh(H2, S2, P2, c, s)'
    <2>1. state[c] # "idle" /\ (MustSee(c, s) \/ Len(log) <= s)
        BY <1>1, <1>3, Zenon DEF NothingNew
    <2>2. Fresh(H, S, P, c, s)
        BY <1>2, <2>1, Zenon DEF ClientsAreServed
    <2>3. before'[c] = before[c] /\ before[c] \subseteq Range(H[S][P].files)
        BY <2>1, BeforeStays, Zenon DEF LastIsFresh
    <2> QED
        BY <2>2, <2>3, FreshContinues, Zenon
<1> QED
    BY <1>3, Zenon DEF ClientsAreServed

------------------------------------------------------------------------------
(***************************************************************************)
(* The inductive invariant and the theorems.                               *)
(***************************************************************************)
HistoryInv(H, S, P) ==
    History(H, S, P) /\ LastIsFresh(H, S, P) /\ ClientsAreServed(H, S, P)

GroupInv ==
    /\ Types
    /\ Waits
    /\ \E H \in Histories, S \in Nat, P \in Nat : HistoryInv(H, S, P)

\* What every member starts with.
EmptySnapshot == [table |-> EmptyLockTable, files |-> <<>>]

EmptyHistory == [s \in Nat |-> [p \in Nat |-> EmptySnapshot]]

\* The history of a new group has one entry, the empty state.
LEMMA HistoryInit ==
    ASSUME Init
    PROVE  EmptyHistory \in Histories /\ HistoryInv(EmptyHistory, 0, 0)
<1>1. EmptySnapshot \in Snapshots
    BY DEF EmptySnapshot, Snapshots, EmptyLockTable, Tables
<1>2. PICK H : H = EmptyHistory
    BY Zenon
<1>3. H \in Histories /\ H[0][0] = EmptySnapshot
    BY <1>1, <1>2, Zenon DEF Histories, EmptyHistory
<1>4. \A i, j \in Nat : Known(0, 0, i, j) <=> i = 0 /\ j = 0
    BY DEF Known
<1>5. History(H, 0, 0)
    <2>1. InLog(0, 0)
        BY SMTT(20) DEF Init, InLog
    <2>2. \A n \in Nodes : Known(0, 0, slot[n], pos[n]) /\ H[slot[n]][pos[n]] = Snapshot(n)
        BY <1>3, <1>4, Zenon DEF Init, Snapshot, EmptySnapshot
    <2>3. \A i, j \in Nat : ~Known(0, 0, i, j + 1)
        BY DEF Known
    <2> QED
        BY <1>4, <2>1, <2>2, <2>3 DEF History
<1>6. LastIsFresh(H, 0, 0) /\ ClientsAreServed(H, 0, 0)
    <2>1. Writers \subseteq Clients
        BY Zenon DEF Clients
    <2>2. Acknowledged = {} /\ \A c \in Clients : before[c] = {}
        BY <2>1, Zenon DEF Init, Acknowledged
    <2> QED
        BY <2>2, Zenon DEF LastIsFresh, ClientsAreServed, Fresh
<1> QED
    BY <1>2, <1>3, <1>5, <1>6, SMTT(20) DEF HistoryInv

\* GroupInv holds in a new group.
LEMMA GroupInit == Init => GroupInv
<1> SUFFICES ASSUME Init PROVE GroupInv
    BY Zenon
<1>1. EmptyLockTable \in Tables(Requests)
    BY DEF EmptyLockTable, Tables
<1>2. Types
    BY <1>1, GroupAssumption DEF Init, Types, InLog, States
<1>3. Waits
    BY DEF Init, Waits, CountersMatch, SubmittersWait, SendersWait, RequiredIsDecided, QueueIsSound,
        SyncQueueDrains, AppliedOf
<1> QED
    BY <1>2, <1>3, HistoryInit, Zenon DEF GroupInv

\* A step follows the history or continues it.
LEMMA HistoryStep ==
    ASSUME Types, Waits, [Next]_vars, NEW H \in Histories, NEW S \in Nat, NEW P \in Nat,
           HistoryInv(H, S, P)
    PROVE  \E H2 \in Histories, S2 \in Nat, P2 \in Nat :
             HistoryInv(H2, S2, P2)' /\ Continues(H, S, P, H2, S2, P2)
<1>2. History(H, S, P) /\ LastIsFresh(H, S, P) /\ ClientsAreServed(H, S, P)
    BY Zenon DEF HistoryInv
<1>3. \E H2 \in Histories, S2 \in Nat, P2 \in Nat :
        History(H2, S2, P2)' /\ Continues(H, S, P, H2, S2, P2)
    <2>1. CASE \E n \in Nodes : ApplyCommand(n)
        BY <1>2, <2>1, HistoryApply, Zenon
    <2>2. CASE \E n \in Nodes : FinishSlot(n)
        BY <1>2, <2>2, HistoryFinish, Zenon
    <2>3. CASE MembersRest
        BY <1>2, <2>3, HistoryRests, Zenon
    <2>4. CASE \/ \E c \in Clients : Submit(c)
               \/ \E c \in Lockers : SubmitUnlock(c)
               \/ Decide
               \/ \E r \in Readers : LatestLocalCommit(r) \/ Sync(r)
               \/ UNCHANGED vars
        BY <2>3, <2>4, OthersRest, Zenon
    <2> QED
        BY <2>1, <2>2, <2>4, Zenon DEF Next
<1>4. PICK H2 \in Histories, S2 \in Nat, P2 \in Nat :
        History(H2, S2, P2)' /\ Continues(H, S, P, H2, S2, P2)
    BY <1>3, Zenon
<1>5. LastIsFresh(H2, S2, P2)' /\ ClientsAreServed(H2, S2, P2)'
    BY <1>2, <1>4, LastStaysFresh, ClientsStayServed, Zenon
<1>6. HistoryInv(H2, S2, P2)'
    BY <1>4, <1>5, Zenon DEF HistoryInv
<1> QED
    BY <1>4, <1>6, Zenon

\* GroupInv is inductive.
LEMMA GroupStep == GroupInv /\ [Next]_vars => GroupInv'
<1> SUFFICES ASSUME GroupInv, [Next]_vars PROVE GroupInv'
    OBVIOUS
<1>0. Types /\ Waits /\ Types' /\ Waits'
    BY TypesHold, WaitsHold, Zenon DEF GroupInv
<1>1. PICK H \in Histories, S \in Nat, P \in Nat : HistoryInv(H, S, P)
    BY Zenon DEF GroupInv
<1>2. \E H2 \in Histories, S2 \in Nat, P2 \in Nat : HistoryInv(H2, S2, P2)'
    BY <1>0, <1>1, HistoryStep, Zenon
<1> QED
    BY <1>0, <1>2, Zenon DEF GroupInv

\* Every behaviour of the group satisfies GroupInv: at any time there is a
\* history in which every member, however far behind, has its place.
THEOREM GroupInvHolds == Spec => []GroupInv
<1>1. Init => GroupInv
    BY GroupInit, Zenon
<1>2. GroupInv /\ [Next]_vars => GroupInv'
    BY GroupStep, Zenon
<1> QED
    BY <1>1, <1>2, PTL DEF Spec

\* Sequences over a larger set
LEMMA SeqGrows ==
    ASSUME NEW S, NEW T, S \subseteq T
    PROVE  Seq(S) \subseteq Seq(T)
    OBVIOUS

\* A member is at a point of the log, and its lock table, its storage and the
\* requests that wait there are well-formed (apply_delivery, LockTable).
THEOREM AlwaysTypeOK == Spec => []TypeOK
<1>1. GroupInv => TypeOK
    <2> SUFFICES ASSUME GroupInv PROVE TypeOK
        BY Zenon
    <2>1. Types
        BY Zenon DEF GroupInv
    <2>2. Submitted \subseteq Commands /\ Waitable(Requests) \subseteq Commands
        BY Zenon DEF Submitted, Requests, Waitable
    <2>3. proposed \subseteq Commands /\ log \in Seq(Seq(Commands))
        <3>1. proposed \subseteq Commands
            BY <2>1, <2>2, Zenon DEF Types
        <3>2. Seq(Seq(Submitted)) \subseteq Seq(Seq(Commands))
            <4>1. Seq(Submitted) \subseteq Seq(Commands)
                BY <2>2, SeqGrows, Zenon
            <4> QED
                BY <4>1, SeqGrows, Zenon
        <3> QED
            BY <2>1, <3>1, <3>2, Zenon DEF Types
    <2>4. ASSUME NEW n \in Nodes
          PROVE  /\ slot[n] \in 0..Len(log)
                 /\ pos[n] \in (IF slot[n] < Len(log) THEN 0..Len(log[slot[n] + 1]) ELSE {0})
        <3>1. slot[n] \in Nat /\ pos[n] \in Nat /\ InLog(slot[n], pos[n]) /\ Len(log) \in Nat
            BY <2>1, <2>3 DEF Types
        <3>2. slot[n] < Len(log) => Len(log[slot[n] + 1]) \in Nat
            <4>1. slot[n] < Len(log) => slot[n] + 1 \in 1..Len(log)
                BY <3>1
            <4>2. \A s \in 1..Len(log) : log[s] \in Seq(Commands)
                BY <2>3
            <4> QED
                BY <4>1, <4>2
        <3> QED
            BY <3>1, <3>2 DEF InLog
    <2>5. slot \in [Nodes -> 0..Len(log)]
        BY <2>1, <2>4, Zenon DEF Types
    <2>6. Tables(Requests) \subseteq [lock_ids : [Inodes -> Nat \cup {NoLockId}],
                                     pending  : [Inodes -> Seq(Commands)],
                                     next_id  : Nat]
        <3>1. Seq(Waitable(Requests)) \subseteq Seq(Commands)
            BY <2>2, SeqGrows, Zenon
        <3> QED
            BY <3>1, Zenon DEF Tables
    <2> QED
        BY <2>1, <2>3, <2>4, <2>5, <2>6, Zenon DEF Types, TypeOK
<1> QED
    BY <1>1, GroupInvHolds, PTL

\* Members that have applied the same part of the log have the same lock table
\* and the same file storage (apply_delivery), in groups of every size.
THEOREM AlwaysReplicasAgree == Spec => []ReplicasAgree
<1>1. GroupInv => ReplicasAgree
    <2> SUFFICES ASSUME GroupInv, NEW n \in Nodes, NEW m \in Nodes,
                        slot[n] = slot[m], pos[n] = pos[m]
                 PROVE  lock_table[n] = lock_table[m] /\ file_storage[n] = file_storage[m]
        BY Zenon DEF ReplicasAgree
    <2>1. PICK H \in Histories, S \in Nat, P \in Nat : HistoryInv(H, S, P)
        BY Zenon DEF GroupInv
    <2>2. H[slot[n]][pos[n]] = Snapshot(n) /\ H[slot[m]][pos[m]] = Snapshot(m)
        BY <2>1, Zenon DEF HistoryInv, History
    <2>3. Snapshot(n) = Snapshot(m)
        BY <2>2, Zenon
    <2> QED
        BY <2>3, Zenon DEF Snapshot
<1> QED
    BY <1>1, GroupInvHolds, PTL

\* What a member has committed contains what the client must see there.
LEMMA ServedAt ==
    ASSUME GroupInv, NEW c \in Clients, NEW n \in Nodes, MustSee(c, slot[n])
    PROVE  before[c] \subseteq Range(file_storage[n])
<1>1. PICK H \in Histories, S \in Nat, P \in Nat : HistoryInv(H, S, P)
    BY Zenon DEF GroupInv
<1>2. slot[n] \in Nat /\ pos[n] \in Nat
    BY Zenon DEF GroupInv, Types
<1>3. Known(S, P, slot[n], pos[n]) /\ H[slot[n]][pos[n]] = Snapshot(n)
    BY <1>1, Zenon DEF HistoryInv, History
<1>4. Fresh(H, S, P, c, slot[n])
    BY <1>1, <1>2, Zenon DEF HistoryInv, ClientsAreServed
<1>5. before[c] \subseteq Range(Snapshot(n).files)
    BY <1>2, <1>3, <1>4 DEF Fresh
<1> QED
    BY <1>5, Zenon DEF Snapshot

\* Once read_barrier has returned, every write acknowledged anywhere before the
\* barrier was submitted is applied at the reader's node.
THEOREM AlwaysBarrierIsFresh == Spec => []BarrierIsFresh
<1>1. GroupInv => BarrierIsFresh
    <2> SUFFICES ASSUME GroupInv, NEW r \in Readers,
                        state[r] \in {"fresh", "asking", "syncing", "synced"}
                 PROVE  before[r] \subseteq Range(file_storage[Home[r]])
        BY Zenon DEF BarrierIsFresh
    <2>1. r \in Clients /\ Home[r] \in Nodes
        BY GroupAssumption, Zenon DEF Clients
    <2>2. slot[Home[r]] \in Nat
        BY <2>1, Zenon DEF GroupInv, Types
    <2>3. MustSee(r, slot[Home[r]])
        BY <2>2 DEF MustSee
    <2> QED
        BY <2>1, <2>3, ServedAt, Zenon
<1> QED
    BY <1>1, GroupInvHolds, PTL

\* Once sync(required_commit) has returned at the peer, the same writes are
\* applied there, although required_commit may have been loaded in the middle
\* of a slot.
THEOREM AlwaysPeerReadIsFresh == Spec => []PeerReadIsFresh
<1>1. GroupInv => PeerReadIsFresh
    <2> SUFFICES ASSUME GroupInv, NEW r \in Readers, state[r] = "synced"
                 PROVE  before[r] \subseteq Range(file_storage[Peer[r]])
        BY Zenon DEF PeerReadIsFresh
    <2>1. r \in Clients /\ Peer[r] \in Nodes
        BY GroupAssumption, Zenon DEF Clients
    <2>2. slot[Peer[r]] \in Nat
        BY <2>1, Zenon DEF GroupInv, Types
    <2>3. MustSee(r, slot[Peer[r]])
        BY <2>2 DEF MustSee
    <2> QED
        BY <2>1, <2>3, ServedAt, Zenon
<1> QED
    BY <1>1, GroupInvHolds, PTL

\* No reader is left in the sync queue of a member that has applied the whole
\* log, although apply_delivery serves the queue from its head only.
THEOREM AlwaysSyncQueueDrains == Spec => []SyncQueueDrains
<1>1. GroupInv => SyncQueueDrains
    BY Zenon DEF GroupInv, Waits
<1> QED
    BY <1>1, GroupInvHolds, PTL
==============================================================================
