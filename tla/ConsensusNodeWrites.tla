------------------------- MODULE ConsensusNodeWrites -------------------------
(***************************************************************************)
(* A proof that the writes of a group linearize, for any number of members *)
(* and clients: every member commits each write at most once, in an order  *)
(* that respects real time, and no write is acknowledged before it is      *)
(* committed.                                                              *)
(***************************************************************************)
EXTENDS ConsensusNodeProofs

Writes == {c \in Requests : c.type = "Write" /\ c.from \in Writers}

\* The write of w waits for inode i, at place k.
Holds(lt, i, k, w) ==
    /\ k \in 1..Len(lt.pending[i])
    /\ lt.pending[i][k].type = "Write"
    /\ lt.pending[i][k].from = w

\* The writers whose write waits in the lock table.
Waiting(lt) == {w \in Writers : \E i \in Inodes, k \in Nat : Holds(lt, i, k, w)}

WaitsOnce(lt) ==
    \A i, j \in Inodes, k, l \in Nat, w \in Writers :
        Holds(lt, i, k, w) /\ Holds(lt, j, l, w) => i = j /\ k = l

\* The writer of this request, if it is a write.
WriterOf(req) == IF req.type = "Write" THEN {req.from} ELSE {}

------------------------------------------------------------------------------
\* A write that goes through the lock table is committed or waits, not both,
\* and no other write appears (_process_lock_table).
LEMMA MovesOnce ==
    ASSUME NEW lt \in Tables(Requests), NEW req \in Requests,
           WaitsOnce(lt), WriterOf(req) \cap Waiting(lt) = {},
           NEW lt2 \in Tables(Requests), lt2 = TableAfter(lt, req),
           NEW out \in Seq(Writes), out = ToProcess(lt, req)
    PROVE  /\ WaitsOnce(lt2)
           /\ \A k, l \in 1..Len(out) : out[k].from = out[l].from => k = l
           /\ \A k \in 1..Len(out) : out[k].from \in Waiting(lt) \cup WriterOf(req)
           /\ Waiting(lt2) \subseteq Waiting(lt) \cup WriterOf(req)
           /\ \A k \in 1..Len(out) : out[k].from \notin Waiting(lt2)
<1>0. PICK i0, queue : i0 = req.inode /\ queue = lt.pending[req.inode]
    BY Zenon
<1>1. /\ i0 \in Inodes /\ queue \in Seq(Waitable(Requests)) /\ Len(queue) \in Nat
      /\ lt.pending \in [Inodes -> Seq(Waitable(Requests))]
      /\ req.type = "Write" => req.from \in Writers
    <2>1. req.inode \in Inodes /\ (req.type = "Write" => req.from \in Writers)
        BY Zenon DEF Requests, Submitted, Commands
    <2>2. lt.pending \in [Inodes -> Seq(Waitable(Requests))]
        BY Zenon DEF Tables
    <2>3. lt.pending[req.inode] \in Seq(Waitable(Requests))
        BY <2>1, <2>2, Zenon
    <2> QED
        BY <1>0, <2>1, <2>2, <2>3
<1>2. /\ Len(out) \in Nat
      /\ \A k \in 1..Len(out) : out[k].type = "Write" /\ out[k].from \in Writers
    BY DEF Writes
<1>3. CASE lt2.pending = lt.pending /\ out = <<>>
    BY <1>3 DEF WaitsOnce, Waiting, Holds
<1>4. CASE lt2.pending = lt.pending /\ out = <<req>>
    <2>1. WaitsOnce(lt2) /\ Waiting(lt2) = Waiting(lt)
        BY <1>4 DEF WaitsOnce, Waiting, Holds
    <2>2. Len(out) = 1 /\ out[1] = req
        BY <1>4
    <2>3. WriterOf(req) = {req.from}
        BY <1>2, <2>2 DEF WriterOf
    <2> QED
        BY <2>1, <2>2, <2>3
<1>5. CASE out = <<>> /\ lt2.pending = [lt.pending EXCEPT ![i0] = Append(queue, req)]
    <2>1. ASSUME NEW i \in Inodes, NEW k \in Nat, NEW w \in Writers, Holds(lt2, i, k, w)
          PROVE  Holds(lt, i, k, w) \/ (i = i0 /\ k = Len(queue) + 1 /\ w \in WriterOf(req))
        <3>1. CASE i # i0
            BY <1>1, <1>5, <2>1, <3>1, Zenon DEF Holds
        <3>2. CASE i = i0
            <4>1. lt2.pending[i] = Append(queue, req)
                BY <1>1, <1>5, <3>2, Zenon
            <4>2. CASE k = Len(queue) + 1
                BY <1>1, <2>1, <3>2, <4>1, <4>2, SMTT(20) DEF Holds, WriterOf
            <4>3. CASE k # Len(queue) + 1
                <5>1. k \in 1..Len(queue) /\ Append(queue, req)[k] = queue[k]
                    BY <1>1, <2>1, <4>1, <4>3 DEF Holds
                <5> QED
                    BY <1>0, <2>1, <3>2, <4>1, <5>1, Zenon DEF Holds
            <4> QED
                BY <4>2, <4>3, Zenon
        <3> QED
            BY <3>1, <3>2, Zenon
    <2>2. \A i \in Inodes, k \in Nat, w \in Writers : Holds(lt, i, k, w) => w \notin WriterOf(req)
        BY Zenon DEF Waiting
    <2>3. WaitsOnce(lt2)
        BY <2>1, <2>2 DEF WaitsOnce
    <2>4. Waiting(lt2) \subseteq Waiting(lt) \cup WriterOf(req)
        BY <2>1, Zenon DEF Waiting
    <2> QED
        BY <1>5, <2>3, <2>4
<1>6. ASSUME NEW d \in 0..Len(queue), NEW f \in 0..d, out = SubSeq(queue, 1, f),
             lt2.pending = [lt.pending EXCEPT ![i0] = SubSeq(queue, d + 1, Len(queue))]
      PROVE  /\ WaitsOnce(lt2)
             /\ \A k, l \in 1..Len(out) : out[k].from = out[l].from => k = l
             /\ \A k \in 1..Len(out) : out[k].from \in Waiting(lt)
             /\ Waiting(lt2) \subseteq Waiting(lt)
             /\ \A k \in 1..Len(out) : out[k].from \notin Waiting(lt2)
    <2>1. \A k \in 1..Len(out) : k \in 1..Len(queue) /\ out[k] = queue[k] /\ k <= d /\ k \in Nat
        BY <1>1, <1>6
    <2>2. \A k \in 1..Len(out) : Holds(lt, i0, k, out[k].from)
        BY <1>0, <1>2, <2>1, Zenon DEF Holds
    <2>3. ASSUME NEW i \in Inodes, NEW k \in Nat, NEW w \in Writers, Holds(lt2, i, k, w)
          PROVE  IF i = i0 THEN k > 0 /\ Holds(lt, i0, k + d, w) ELSE Holds(lt, i, k, w)
        <3>1. CASE i # i0
            BY <1>1, <1>6, <2>3, <3>1, Zenon DEF Holds
        <3>2. CASE i = i0
            <4>1. lt2.pending[i] = SubSeq(queue, d + 1, Len(queue))
                BY <1>1, <1>6, <3>2, Zenon
            <4>2. k \in 1..Len(SubSeq(queue, d + 1, Len(queue)))
                BY <2>3, <4>1, Zenon DEF Holds
            <4>3. k + d \in 1..Len(queue) /\ SubSeq(queue, d + 1, Len(queue))[k] = queue[k + d] /\ k > 0
                BY <1>1, <4>2
            <4> QED
                BY <1>0, <2>3, <3>2, <4>1, <4>3, Zenon DEF Holds
        <3> QED
            BY <3>1, <3>2, Zenon
    <2>4. d \in Nat /\ \A k \in Nat : k + d \in Nat
        BY <1>1
    <2>5. WaitsOnce(lt2)
        <3> SUFFICES ASSUME NEW i \in Inodes, NEW j \in Inodes, NEW k \in Nat, NEW l \in Nat,
                            NEW w \in Writers, Holds(lt2, i, k, w), Holds(lt2, j, l, w)
                     PROVE  i = j /\ k = l
            BY Zenon DEF WaitsOnce
        <3>1. PICK m \in Nat : Holds(lt, i, m, w) /\ m = IF i = i0 THEN k + d ELSE k
            BY <2>3, <2>4, Zenon
        <3>2. PICK n \in Nat : Holds(lt, j, n, w) /\ n = IF j = i0 THEN l + d ELSE l
            BY <2>3, <2>4, Zenon
        <3>3. i = j /\ m = n
            BY <3>1, <3>2, Zenon DEF WaitsOnce
        <3> QED
            BY <2>4, <3>1, <3>2, <3>3
    <2>6. Waiting(lt2) \subseteq Waiting(lt)
        <3> SUFFICES ASSUME NEW w \in Writers, NEW i \in Inodes, NEW k \in Nat, Holds(lt2, i, k, w)
                     PROVE  \E j \in Inodes, l \in Nat : Holds(lt, j, l, w)
            BY Zenon DEF Waiting
        <3> QED
            BY <2>3, <2>4, Zenon
    <2>7. \A k \in 1..Len(out) : out[k].from \in Waiting(lt)
        BY <1>1, <1>2, <2>1, <2>2, Zenon DEF Waiting
    <2>8. \A k, l \in 1..Len(out) : out[k].from = out[l].from => k = l
        BY <1>1, <1>2, <2>1, <2>2 DEF WaitsOnce
    <2>9. ASSUME NEW k \in 1..Len(out), out[k].from \in Waiting(lt2) PROVE FALSE
        <3>1. PICK i \in Inodes, l \in Nat : Holds(lt2, i, l, out[k].from)
            BY <2>9, Zenon DEF Waiting
        <3>2. out[k].from \in Writers /\ k \in Nat /\ k <= d /\ Holds(lt, i0, k, out[k].from)
            BY <1>2, <2>1, <2>2, Zenon
        <3>3. CASE i = i0
            <4>1. l > 0 /\ Holds(lt, i0, l + d, out[k].from) /\ l + d \in Nat
                BY <2>3, <2>4, <3>1, <3>2, <3>3, Zenon
            <4>2. k = l + d
                BY <1>1, <3>2, <4>1, Zenon DEF WaitsOnce
            <4> QED
                BY <2>4, <3>2, <4>1, <4>2
        <3>4. CASE i # i0
            <4>1. Holds(lt, i, l, out[k].from)
                BY <2>3, <3>1, <3>2, <3>4, Zenon
            <4> QED
                BY <1>1, <3>2, <3>4, <4>1 DEF WaitsOnce
        <3> QED
            BY <3>3, <3>4, Zenon
    <2> QED
        BY <2>5, <2>6, <2>7, <2>8, <2>9, Zenon
<1>7. \/ lt2.pending = lt.pending /\ out = <<>>
      \/ lt2.pending = lt.pending /\ out = <<req>>
      \/ out = <<>> /\ lt2.pending = [lt.pending EXCEPT ![i0] = Append(queue, req)]
      \/ \E d \in 0..Len(queue) : \E f \in 0..d :
            /\ out = SubSeq(queue, 1, f)
            /\ lt2.pending = [lt.pending EXCEPT ![i0] = SubSeq(queue, d + 1, Len(queue))]
    <2>1. req.inode \in Inodes
        BY <1>0, <1>1, Zenon
    <2> QED
        <3>1. Moves(lt, req, out, lt2.pending)
            BY <2>1, TableMoves, Zenon
        <3> QED
            BY <1>0, <3>1, Zenon DEF Moves
<1> QED
    BY <1>3, <1>4, <1>5, <1>6, <1>7, Zenon

------------------------------------------------------------------------------
\* No writer twice in this sequence.
OnceIn(files) == \A k, l \in 1..Len(files) : files[k] = files[l] => k = l

\* What must come before a writer does.
InOrder(files, B) == \A k \in 1..Len(files) : B[files[k]] \subseteq {files[l] : l \in 1..(k - 1)}

\* The elements of a sequence.
LEMMA RangeOfSeq ==
    ASSUME NEW T, NEW s \in Seq(T)
    PROVE  Range(s) = {s[k] : k \in 1..Len(s)}
<1>1. DOMAIN s = 1..Len(s)
    OBVIOUS
<1> QED
    BY <1>1, Zenon DEF Range

\* New writers that need only what is there already keep the order.
LEMMA ConcatInOrder ==
    ASSUME NEW old \in Seq(Writers), NEW new \in Seq(Writers), NEW B,
           OnceIn(old), OnceIn(new), Range(old) \cap Range(new) = {},
           InOrder(old, B), \A k \in 1..Len(new) : B[new[k]] \subseteq Range(old)
    PROVE  /\ OnceIn(old \o new)
           /\ InOrder(old \o new, B)
           /\ Range(old \o new) = Range(old) \cup Range(new)
<1>0. PICK m, all : m = Len(old) /\ all = old \o new
    BY Zenon
<1>1. /\ m \in Nat /\ Len(new) \in Nat
      /\ all \in Seq(Writers) /\ Len(all) = m + Len(new)
      /\ \A k \in 1..(m + Len(new)) : all[k] = IF k <= m THEN old[k] ELSE new[k - m]
    BY <1>0
<1>2. \A k \in 1..m : all[k] = old[k] /\ k \in 1..Len(all)
    BY <1>1
<1>3. \A k \in 1..Len(new) : k + m \in 1..Len(all) /\ all[k + m] = new[k]
    BY <1>1
<1>4. \A k \in 1..Len(all) : k \in 1..m \/ (k > m /\ k - m \in 1..Len(new) /\ k = (k - m) + m)
    BY <1>1
<1>5. /\ Range(old) = {old[k] : k \in 1..m}
      /\ Range(new) = {new[k] : k \in 1..Len(new)}
      /\ Range(all) = {all[k] : k \in 1..Len(all)}
    <2>1. Range(old) = {old[k] : k \in 1..Len(old)}
        BY RangeOfSeq, Zenon
    <2>2. Range(new) = {new[k] : k \in 1..Len(new)}
        BY RangeOfSeq, Zenon
    <2>3. Range(all) = {all[k] : k \in 1..Len(all)}
        BY <1>1, RangeOfSeq, Zenon
    <2> QED
        BY <1>0, <2>1, <2>2, <2>3, Zenon
<1>6. Range(all) = Range(old) \cup Range(new)
    <2>1. Range(all) \subseteq Range(old) \cup Range(new)
        <3> SUFFICES ASSUME NEW k \in 1..Len(all) PROVE all[k] \in Range(old) \cup Range(new)
            BY <1>5, Zenon
        <3>1. CASE k \in 1..m
            BY <1>2, <1>5, <3>1, Zenon
        <3>2. CASE k - m \in 1..Len(new) /\ k = (k - m) + m
            <4>1. all[k] = new[k - m]
                BY <1>3, <3>2, Zenon
            <4> QED
                BY <1>5, <3>2, <4>1, Zenon
        <3> QED
            BY <1>4, <3>1, <3>2, Zenon
    <2>2. Range(old) \subseteq Range(all)
        BY <1>2, <1>5, Zenon
    <2>3. Range(new) \subseteq Range(all)
        BY <1>3, <1>5, Zenon
    <2> QED
        BY <2>1, <2>2, <2>3, Zenon
<1>7. OnceIn(all)
    <2> SUFFICES ASSUME NEW k \in 1..Len(all), NEW l \in 1..Len(all), all[k] = all[l] PROVE k = l
        BY Zenon DEF OnceIn
    <2>1. CASE k \in 1..m /\ l \in 1..m
        BY <1>0, <1>2, <2>1, Zenon DEF OnceIn
    <2>2. CASE k - m \in 1..Len(new) /\ l - m \in 1..Len(new) /\ k = (k - m) + m /\ l = (l - m) + m
        <3>1. new[k - m] = new[l - m]
            BY <1>3, <2>2, Zenon
        <3>2. k - m = l - m
            BY <2>2, <3>1, Zenon DEF OnceIn
        <3> QED
            BY <2>2, <3>2, Zenon
    <2>3. ASSUME NEW i \in 1..m, NEW j \in 1..Len(new), all[i] = all[j + m] PROVE FALSE
        <3>1. old[i] = new[j]
            BY <1>2, <1>3, <2>3, Zenon
        <3> QED
            BY <1>5, <3>1, Zenon
    <2> QED
        BY <1>4, <2>1, <2>2, <2>3, Zenon
<1>8. InOrder(all, B)
    <2> SUFFICES ASSUME NEW k \in 1..Len(all) PROVE B[all[k]] \subseteq {all[l] : l \in 1..(k - 1)}
        BY Zenon DEF InOrder
    <2>1. CASE k \in 1..m
        <3>1. B[old[k]] \subseteq {old[l] : l \in 1..(k - 1)}
            BY <1>0, <2>1, Zenon DEF InOrder
        <3>2. \A l \in 1..(k - 1) : l \in 1..m
            BY <1>1, <2>1
        <3> QED
            BY <1>2, <2>1, <3>1, <3>2
    <2>2. CASE k > m /\ k - m \in 1..Len(new) /\ k = (k - m) + m
        <3>1. B[all[k]] \subseteq Range(old)
            BY <1>3, <2>2, Zenon
        <3>2. \A l \in 1..m : l \in 1..(k - 1)
            BY <1>1, <2>2
        <3>3. Range(old) \subseteq {all[l] : l \in 1..(k - 1)}
            BY <1>2, <1>5, <3>2, Zenon
        <3> QED
            BY <3>1, <3>3, Zenon
    <2> QED
        BY <1>4, <2>1, <2>2, Zenon
<1> QED
    BY <1>0, <1>6, <1>7, <1>8, Zenon

\* A member has each write once, committed or waiting, and the committed ones
\* in order.
Linear(x, B) ==
    /\ OnceIn(x.files)
    /\ InOrder(x.files, B)
    /\ WaitsOnce(x.table)
    /\ Range(x.files) \cap Waiting(x.table) = {}

\* The writers whose write a member has.
Has(x) == Range(x.files) \cup Waiting(x.table)

\* One more command keeps it so, when a member does not have the write yet and
\* has what comes before the writes that it commits.
LEMMA AfterIsLinear ==
    ASSUME NEW x \in Snapshots, NEW command \in Submitted, NEW B, Linear(x, B),
           WriterOf(command) \cap Has(x) = {},
           \A w \in Waiting(x.table) \cup WriterOf(command) : B[w] \subseteq Range(x.files)
    PROVE  /\ Linear(After(x, command), B)
           /\ Has(After(x, command)) \subseteq Has(x) \cup WriterOf(command)
<1>0. PICK lt, files : lt = x.table /\ files = x.files
    BY Zenon
<1>1. lt \in Tables(Requests) /\ files \in Seq(Writers)
    BY <1>0, Zenon DEF Snapshots
<1>2. /\ OnceIn(files) /\ InOrder(files, B) /\ WaitsOnce(lt) /\ Range(files) \cap Waiting(lt) = {}
      /\ WriterOf(command) \cap Waiting(lt) = {} /\ WriterOf(command) \cap Range(files) = {}
    BY <1>0, Zenon DEF Linear, Has
<1>3. ASSUME NEW out \in Seq(Writes), NEW lt2,
             After(x, command) = [table |-> lt2, files |-> files \o [k \in DOMAIN out |-> out[k].from]],
             WaitsOnce(lt2),
             \A k, l \in 1..Len(out) : out[k].from = out[l].from => k = l,
             \A k \in 1..Len(out) : out[k].from \in Waiting(lt) \cup WriterOf(command),
             Waiting(lt2) \subseteq Waiting(lt) \cup WriterOf(command),
             \A k \in 1..Len(out) : out[k].from \notin Waiting(lt2)
      PROVE  /\ Linear(After(x, command), B)
             /\ Has(After(x, command)) \subseteq Has(x) \cup WriterOf(command)
    <2>0. PICK new : new = [k \in DOMAIN out |-> out[k].from]
        BY Zenon
    <2>1. /\ new \in Seq(Writers) /\ Len(new) = Len(out)
          /\ \A k \in 1..Len(out) : new[k] = out[k].from
        BY <2>0 DEF Writes
    <2>2. Range(new) = {new[k] : k \in 1..Len(new)}
        BY <2>1, RangeOfSeq, Zenon
    <2>3. OnceIn(new)
        BY <1>3, <2>1, Zenon DEF OnceIn
    <2>4. \A k \in 1..Len(new) : new[k] \in Waiting(lt) \cup WriterOf(command)
        BY <1>3, <2>1, Zenon
    <2>5. Range(files) \cap Range(new) = {} /\ Range(new) \cap Waiting(lt2) = {}
        BY <1>2, <1>3, <2>1, <2>2, <2>4
    <2>6. \A k \in 1..Len(new) : B[new[k]] \subseteq Range(files)
        BY <1>0, <2>4, SMTT(20)
    <2>7. /\ OnceIn(files \o new) /\ InOrder(files \o new, B)
          /\ Range(files \o new) = Range(files) \cup Range(new)
        BY <1>1, <1>2, <2>1, <2>3, <2>5, <2>6, ConcatInOrder, SMTT(20)
    <2>8. After(x, command).table = lt2 /\ After(x, command).files = files \o new
        BY <1>3, <2>0
    <2>9. Range(files) \cap Waiting(lt2) = {}
        BY <1>2, <1>3, Zenon
    <2>10. Linear(After(x, command), B)
        BY <1>3, <2>5, <2>7, <2>8, <2>9, Zenon DEF Linear
    <2>11. Has(After(x, command)) \subseteq Has(x) \cup WriterOf(command)
        <3>1. Range(new) \subseteq Waiting(lt) \cup WriterOf(command)
            BY <2>2, <2>4, Zenon
        <3>2. Has(After(x, command)) = (Range(files) \cup Range(new)) \cup Waiting(lt2)
            BY <2>7, <2>8, Zenon DEF Has
        <3>3. Has(x) = Range(files) \cup Waiting(lt)
            BY <1>0, Zenon DEF Has
        <3> QED
            BY <1>3, <3>1, <3>2, <3>3, Zenon
    <2> QED
        BY <2>10, <2>11, Zenon
<1>4. CASE command.type = "Barrier"
    <2>1. After(x, command) =
            [table |-> lt, files |-> files \o [k \in DOMAIN <<>> |-> <<>>[k].from]]
        BY <1>0, <1>4, Zenon DEF After
    <2>2. PICK out : out = <<>>
        BY Zenon
    <2>3. out \in Seq(Writes) /\ \A k \in 1..Len(out) : FALSE
        BY <2>2
    <2>4. After(x, command) = [table |-> lt, files |-> files \o [k \in DOMAIN out |-> out[k].from]]
        BY <2>1, <2>2, Zenon
    <2> QED
        BY <1>2, <1>3, <2>3, <2>4, Zenon
<1>5. CASE command.type # "Barrier"
    <2>1. command \in Requests /\ command.inode \in Inodes
        BY <1>5, Zenon DEF Requests, Submitted, Commands
    <2>2. PICK lt2, out : lt2 = TableAfter(lt, command) /\ out = ToProcess(lt, command)
        BY Zenon
    <2>3. /\ lt2 \in Tables(Requests)
          /\ out \in Seq({r \in Waitable(Requests) : r.type # "Lock"})
        BY <1>1, <2>1, <2>2, TableServed, Zenon
    <2>4. {r \in Waitable(Requests) : r.type # "Lock"} \subseteq Writes
        BY Zenon DEF Waitable, Requests, Submitted, Commands, Writes
    <2>5. out \in Seq(Writes)
        BY <2>3, <2>4
    <2>6. /\ WaitsOnce(lt2)
          /\ \A k, l \in 1..Len(out) : out[k].from = out[l].from => k = l
          /\ \A k \in 1..Len(out) : out[k].from \in Waiting(lt) \cup WriterOf(command)
          /\ Waiting(lt2) \subseteq Waiting(lt) \cup WriterOf(command)
          /\ \A k \in 1..Len(out) : out[k].from \notin Waiting(lt2)
        BY <1>1, <1>2, <2>1, <2>2, <2>3, <2>5, MovesOnce
    <2>7. After(x, command) =
            [table |-> lt2, files |-> files \o [k \in DOMAIN out |-> out[k].from]]
        BY <1>0, <1>5, <2>2, Zenon DEF After
    <2> QED
        BY <1>3, <2>5, <2>6, <2>7, Zenon
<1> QED
    BY <1>4, <1>5, Zenon

------------------------------------------------------------------------------
\* Command k of slot i is the write of w.
WriteAt(i, k, w) ==
    /\ i < Len(log)
    /\ k \in 1..Len(log[i + 1])
    /\ log[i + 1][k].type = "Write"
    /\ log[i + 1][k].from = w

\* A write is decided at most once, and not while it is proposed.
DecidedOnce ==
    /\ \A i, j, k, l \in Nat, w \in Writers : WriteAt(i, k, w) /\ WriteAt(j, l, w) => i = j /\ k = l
    /\ \A c \in proposed : c.type = "Write" =>
          c = Command("Write", c.from, NoLockId) /\ \A i, k \in Nat : ~WriteAt(i, k, c.from)

\* The log only grows.
LEMMA LogGrows ==
    ASSUME Types, [Next]_vars
    PROVE  /\ Len(log) <= Len(log')
           /\ \A s \in 1..Len(log) : log'[s] = log[s]
           /\ \A i, k, w : i \in Nat /\ WriteAt(i, k, w) => WriteAt(i, k, w)'
<1>0. Len(log) \in Nat /\ log \in Seq(Seq(Submitted))
    BY DEF Types
<1>1. CASE \E n \in Nodes : ApplyCommand(n) \/ FinishSlot(n)
    <2>1. log' = log
        BY <1>1, Zenon DEF ApplyCommand, FinishSlot
    <2>2. Len(log) <= Len(log)
        BY <1>0
    <2> QED
        BY <2>1, <2>2, Zenon DEF WriteAt
<1>2. CASE MembersRest
    <2>1. Len(log) <= Len(log') /\ (\A s \in 1..Len(log) : log'[s] = log[s]) /\ Len(log') \in Nat
        <3>1. log' \in Seq(Seq(Submitted))
            BY <1>2, Zenon DEF MembersRest
        <3>2. Len(log') \in Nat
            BY <3>1
        <3> QED
            BY <1>2, <3>2, Zenon DEF MembersRest
    <2>2. ASSUME NEW i \in Nat, i < Len(log) PROVE i < Len(log') /\ log'[i + 1] = log[i + 1]
        BY <1>0, <2>1, <2>2
    <2> QED
        BY <2>1, <2>2, Zenon DEF WriteAt
<1>3. CASE \/ \E c \in Clients : Submit(c)
           \/ \E c \in Lockers : SubmitUnlock(c)
           \/ Decide
           \/ \E r \in Readers : LatestLocalCommit(r) \/ Sync(r)
           \/ UNCHANGED vars
    BY <1>2, <1>3, OthersRest, Zenon
<1> QED
    BY <1>1, <1>3, Zenon DEF Next

\* raxos takes what it decides out of what is proposed, each command once.
LEMMA DecideTakes ==
    ASSUME Types, Decide
    PROVE  \E batch \in Seq(Submitted) :
             /\ Len(log') = Len(log) + 1
             /\ \A s \in 1..Len(log) : log'[s] = log[s]
             /\ log'[Len(log) + 1] = batch
             /\ \A k \in 1..Len(batch) : batch[k] \in proposed
             /\ \A k, l \in 1..Len(batch) : batch[k] = batch[l] => k = l
             /\ proposed' = proposed \ Range(batch)
<1>0. PICK size \in 1..MaxBatch :
        \E batch \in Injection(1..size, proposed) :
            log' = Append(log, batch) /\ proposed' = proposed \ Range(batch)
    BY Zenon DEF Decide
<1>1. PICK batch \in Injection(1..size, proposed) :
        log' = Append(log, batch) /\ proposed' = proposed \ Range(batch)
    BY <1>0, Zenon
<1>2. /\ batch \in [1..size -> proposed] /\ proposed \subseteq Submitted /\ size \in Nat
      /\ \A k, l \in 1..size : batch[k] = batch[l] => k = l
    BY GroupAssumption DEF Injection, IsInjective, Types
<1>3. batch \in Seq(Submitted) /\ Len(batch) = size /\ \A k \in 1..Len(batch) : batch[k] \in proposed
    BY <1>2
<1>4. log \in Seq(Seq(Submitted))
    BY Zenon DEF Types
<1>5. /\ Len(Append(log, batch)) = Len(log) + 1
      /\ \A s \in 1..Len(log) : Append(log, batch)[s] = log[s]
      /\ Append(log, batch)[Len(log) + 1] = batch
    BY <1>3, <1>4
<1> QED
    BY <1>1, <1>2, <1>3, <1>5, Zenon

\* Every step keeps it so: a client submits its write once.
LEMMA DecidedOnceHolds ==
    ASSUME Types, Waits, [Next]_vars, DecidedOnce
    PROVE  DecidedOnce'
<1>0. /\ Len(log) \in Nat /\ log \in Seq(Seq(Submitted))
      /\ Writers \cap Lockers = {} /\ Writers \cap Readers = {} /\ Lockers \subseteq Clients
    BY GroupAssumption DEF Types, Clients
<1>1. /\ \A i, j, k, l \in Nat, w \in Writers : WriteAt(i, k, w) /\ WriteAt(j, l, w) => i = j /\ k = l
      /\ \A c \in proposed : c.type = "Write" => c = Command("Write", c.from, NoLockId)
      /\ \A c \in proposed : c.type = "Write" => \A i, k \in Nat : ~WriteAt(i, k, c.from)
    BY Zenon DEF DecidedOnce
<1>2. ASSUME log' = log,
             \A c \in proposed' : c \in proposed \/ c.type # "Write" \/
                 (c = Command("Write", c.from, NoLockId) /\ \A i, k \in Nat : ~WriteAt(i, k, c.from))
      PROVE  DecidedOnce'
    <2>1. \A i, k, w : WriteAt(i, k, w)' <=> WriteAt(i, k, w)
        BY <1>2, Zenon DEF WriteAt
    <2>2. ASSUME NEW c \in proposed', c.type = "Write"
          PROVE  c = Command("Write", c.from, NoLockId) /\ \A i, k \in Nat : ~WriteAt(i, k, c.from)'
        BY <1>1, <1>2, <2>1, <2>2, Zenon
    <2> QED
        BY <1>1, <2>1, <2>2, Zenon DEF DecidedOnce, Command
<1>3. ASSUME NEW c \in Clients, Submit(c) PROVE DecidedOnce'
    <2>1. state[c] = "idle" /\ log' = log
        BY <1>3, Zenon DEF Submit
    <2>2. PICK type : proposed' = proposed \cup {Command(type, c, NoLockId)}
        BY <1>3, Zenon DEF Submit, ProposeRaw
    <2>3. Command(type, c, NoLockId).type = type /\ Command(type, c, NoLockId).from = c
        BY Zenon DEF Command
    <2>4. \A i, k \in Nat : ~WriteAt(i, k, c)
        <3> SUFFICES ASSUME NEW i \in Nat, NEW k \in Nat, WriteAt(i, k, c) PROVE FALSE
            BY Zenon
        <3>1. i + 1 \in 1..Len(log) /\ k \in 1..Len(log[i + 1]) /\ log[i + 1][k].from = c
            BY <1>0 DEF WriteAt
        <3> QED
            BY <2>1, <3>1, Zenon DEF Waits, SubmittersWait
    <2> QED
        BY <1>2, <2>1, <2>2, <2>3, <2>4, Zenon
<1>4. ASSUME NEW c \in Lockers, SubmitUnlock(c) PROVE DecidedOnce'
    <2>1. proposed' = proposed \cup {Command("Unlock", c, lock_id[c])} /\ log' = log
        BY <1>4, Zenon DEF SubmitUnlock, ProposeRaw
    <2>2. Command("Unlock", c, lock_id[c]).type # "Write"
        BY Zenon DEF Command
    <2> QED
        BY <1>2, <2>1, <2>2, Zenon
<1>5. CASE Decide
    <2>1. PICK batch \in Seq(Submitted) :
             /\ Len(log') = Len(log) + 1
             /\ \A s \in 1..Len(log) : log'[s] = log[s]
             /\ log'[Len(log) + 1] = batch
             /\ \A k \in 1..Len(batch) : batch[k] \in proposed
             /\ \A k, l \in 1..Len(batch) : batch[k] = batch[l] => k = l
             /\ proposed' = proposed \ Range(batch)
        BY <1>5, DecideTakes, Zenon
    <2>2. ASSUME NEW i \in Nat, NEW k \in Nat, NEW w, WriteAt(i, k, w)'
          PROVE  \/ WriteAt(i, k, w)
                 \/ i = Len(log) /\ k \in 1..Len(batch) /\ batch[k] = Command("Write", w, NoLockId)
        <3>1. i < Len(log') /\ k \in 1..Len(log'[i + 1]) /\ log'[i + 1][k].type = "Write"
              /\ log'[i + 1][k].from = w
            BY <2>2, Zenon DEF WriteAt
        <3>2. CASE i < Len(log)
            <4>1. i + 1 \in 1..Len(log)
                BY <1>0, <3>2
            <4>2. log'[i + 1] = log[i + 1]
                BY <2>1, <4>1, Zenon
            <4> QED
                BY <3>1, <3>2, <4>2, Zenon DEF WriteAt
        <3>3. CASE i = Len(log)
            BY <1>1, <2>1, <3>1, <3>3, Zenon
        <3> QED
            BY <1>0, <2>1, <3>1, <3>2, <3>3
    <2>3. \A k \in 1..Len(batch) : \A w : batch[k] = Command("Write", w, NoLockId) =>
            /\ \A i, l \in Nat : ~WriteAt(i, l, w)
            /\ Command("Write", w, NoLockId) \notin proposed'
        <3> SUFFICES ASSUME NEW k \in 1..Len(batch), NEW w, batch[k] = Command("Write", w, NoLockId)
                     PROVE  /\ \A i, l \in Nat : ~WriteAt(i, l, w)
                            /\ Command("Write", w, NoLockId) \notin proposed'
            BY Zenon
        <3>1. batch[k] \in proposed /\ batch[k].type = "Write" /\ batch[k].from = w
            BY <2>1 DEF Command
        <3>2. batch[k] \in Range(batch)
            BY RangeOfSeq, Zenon
        <3> QED
            BY <1>1, <2>1, <3>1, <3>2, Zenon
    <2>4. ASSUME NEW i \in Nat, NEW j \in Nat, NEW k \in Nat, NEW l \in Nat, NEW w \in Writers,
                 WriteAt(i, k, w)', WriteAt(j, l, w)'
          PROVE  i = j /\ k = l
        <3> DEFINE New(m, o) ==
                     m = Len(log) /\ o \in 1..Len(batch) /\ batch[o] = Command("Write", w, NoLockId)
        <3>1. /\ WriteAt(i, k, w) \/ New(i, k)
              /\ WriteAt(j, l, w) \/ New(j, l)
            BY <2>2, <2>4, Zenon
        <3>2. CASE WriteAt(i, k, w) /\ WriteAt(j, l, w)
            BY <1>1, <3>2, Zenon
        <3>3. CASE New(i, k) /\ New(j, l)
            <4>1. batch[k] = batch[l]
                BY <3>3, Zenon
            <4> QED
                BY <2>1, <3>3, <4>1, Zenon
        <3>4. CASE New(i, k) /\ WriteAt(j, l, w)
            BY <2>3, <3>4, Zenon
        <3>5. CASE WriteAt(i, k, w) /\ New(j, l)
            BY <2>3, <3>5, Zenon
        <3> QED
            BY <3>1, <3>2, <3>3, <3>4, <3>5, Zenon
    <2>5. ASSUME NEW c \in proposed', c.type = "Write"
          PROVE  c = Command("Write", c.from, NoLockId) /\ \A i, k \in Nat : ~WriteAt(i, k, c.from)'
        <3>1. c \in proposed /\ c = Command("Write", c.from, NoLockId)
            BY <1>1, <2>1, <2>5, Zenon
        <3>2. ASSUME NEW i \in Nat, NEW k \in Nat, WriteAt(i, k, c.from)' PROVE FALSE
            <4>1. ~WriteAt(i, k, c.from)
                BY <1>1, <2>5, <3>1, Zenon
            <4>2. k \in 1..Len(batch) /\ batch[k] = Command("Write", c.from, NoLockId)
                BY <2>2, <3>2, <4>1, Zenon
            <4> QED
                BY <2>3, <2>5, <3>1, <4>2, Zenon
        <3> QED
            BY <3>1, <3>2, Zenon
    <2> QED
        BY <2>4, <2>5, Zenon DEF DecidedOnce, Command
<1>6. CASE \/ \E n \in Nodes : ApplyCommand(n) \/ FinishSlot(n)
           \/ \E r \in Readers : LatestLocalCommit(r) \/ Sync(r)
           \/ UNCHANGED vars
    <2>1. log' = log /\ proposed' = proposed
        BY <1>6, Zenon DEF ApplyCommand, FinishSlot, LatestLocalCommit, Sync, raxosVars, vars
    <2> QED
        BY <1>2, <2>1, Zenon
<1> QED
    BY <1>3, <1>4, <1>5, <1>6, Zenon DEF Next

------------------------------------------------------------------------------
\* The write of w is in the log, before the point after s slots and p commands.
Passed(w, s, p) ==
    \E i, k \in Nat : WriteAt(i, k, w) /\ (i < s \/ (i = s /\ k <= p))

\* An entry of the history: each write once and in order, and only writes that
\* were decided before it.
EntryIsLinear(x, s, p) == Linear(x, before) /\ \A w \in Has(x) : Passed(w, s, p)

LinearHistory(H, S, P) ==
    \A s, p \in Nat : Known(S, P, s, p) => EntryIsLinear(H[s][p], s, p)

\* Who has passed has submitted.
LEMMA PassedIsSubmitted ==
    ASSUME Types, Waits, NEW w, NEW s \in Nat, NEW p \in Nat, Passed(w, s, p)
    PROVE  state[w] # "idle"
<1>1. PICK i, k \in Nat : WriteAt(i, k, w)
    BY Zenon DEF Passed
<1>2. i + 1 \in 1..Len(log) /\ k \in 1..Len(log[i + 1]) /\ log[i + 1][k].from = w
    BY <1>1 DEF WriteAt, Types
<1> QED
    BY <1>2, Zenon DEF Waits, SubmittersWait

\* An entry that is there stays linear.
LEMMA EntryStays ==
    ASSUME Types, Waits, [Next]_vars, NEW x \in Snapshots, NEW s \in Nat, NEW p \in Nat,
           EntryIsLinear(x, s, p)
    PROVE  EntryIsLinear(x, s, p)'
<1>0. x.files \in Seq(Writers) /\ Writers \subseteq Clients
    BY Zenon DEF Snapshots, Clients
<1>1. \A w \in Has(x) : Passed(w, s, p)
    BY Zenon DEF EntryIsLinear
<1>2. \A w \in Has(x) : Passed(w, s, p)'
    <2> SUFFICES ASSUME NEW w \in Has(x) PROVE Passed(w, s, p)'
        BY Zenon
    <2>1. PICK i, k \in Nat : WriteAt(i, k, w) /\ (i < s \/ (i = s /\ k <= p))
        BY <1>1, Zenon DEF Passed
    <2>2. WriteAt(i, k, w)'
        BY <2>1, LogGrows, Zenon
    <2> QED
        BY <2>1, <2>2, Zenon DEF Passed
<1>3. \A w \in Range(x.files) : w \in Clients /\ before'[w] = before[w]
    <2> SUFFICES ASSUME NEW w \in Range(x.files) PROVE w \in Clients /\ before'[w] = before[w]
        BY Zenon
    <2>1. w \in Clients
        BY <1>0, RangeOfSeq
    <2>2. Passed(w, s, p)
        BY <1>1, Zenon DEF Has
    <2> QED
        BY <2>1, <2>2, PassedIsSubmitted, BeforeStays, Zenon
<1>4. \A k \in 1..Len(x.files) : x.files[k] \in Range(x.files)
    BY <1>0, RangeOfSeq, Zenon
<1>5. Linear(x, before)
    BY Zenon DEF EntryIsLinear
<1>6. InOrder(x.files, before')
    BY <1>3, <1>4, <1>5, Zenon DEF Linear, InOrder
<1>7. Linear(x, before')
    BY <1>5, <1>6, Zenon DEF Linear
<1> QED
    BY <1>2, <1>7, Zenon DEF EntryIsLinear

\* Whoever has passed in a slot or before finds what comes before it in every
\* entry from that slot on.
LEMMA PassedIsServed ==
    ASSUME Types', NEW H2, NEW S2 \in Nat, NEW P2 \in Nat, HistoryInv(H2, S2, P2)',
           NEW w \in Clients, NEW s \in Nat, NEW p \in Nat, Passed(w, s, p)',
           NEW q \in Nat, Known(S2, P2, s, q)'
    PROVE  before'[w] \subseteq Range(H2[s][q].files)
<1>1. PICK i, k \in Nat : WriteAt(i, k, w)' /\ (i < s \/ i = s)
    BY Zenon DEF Passed
<1>2. Decided(w, s)'
    <2>1. /\ i \in 0..s /\ i < Len(log') /\ k \in 1..Len(log'[i + 1])
          /\ log'[i + 1][k].type # "Unlock" /\ log'[i + 1][k].from = w
        BY <1>1 DEF WriteAt
    <2> QED
        BY <2>1, Zenon DEF Decided
<1>3. MustSee(w, s)'
    BY <1>2, Zenon DEF MustSee
<1>4. Fresh(H2, S2, P2, w, s)'
    BY <1>3, Zenon DEF HistoryInv, ClientsAreServed
<1> QED
    BY <1>4 DEF Fresh

\* The entry that a step adds is linear.
LEMMA LinearStep ==
    ASSUME Types, Waits, [Next]_vars, Types', DecidedOnce',
           NEW H \in Histories, NEW S \in Nat, NEW P \in Nat, History(H, S, P), LinearHistory(H, S, P),
           NEW H2 \in Histories, NEW S2 \in Nat, NEW P2 \in Nat, HistoryInv(H2, S2, P2)',
           Continues(H, S, P, H2, S2, P2)
    PROVE  LinearHistory(H2, S2, P2)'
<1>0. /\ log' \in Seq(Seq(Submitted)) /\ Len(log') \in Nat
      /\ log \in Seq(Seq(Submitted)) /\ Len(log) \in Nat
      /\ Writers \subseteq Clients
    BY DEF Types, Clients
<1>1. ASSUME NEW s \in Nat, NEW p \in Nat, Known(S, P, s, p), H2[s][p] = H[s][p]
      PROVE  EntryIsLinear(H2[s][p], s, p)'
    <2>1. H[s][p] \in Snapshots
        BY SMTT(20) DEF Histories
    <2>2. EntryIsLinear(H[s][p], s, p)
        BY <1>1, Zenon DEF LinearHistory
    <2>3. PICK x : x = H[s][p]
        BY Zenon
    <2>4. EntryIsLinear(x, s, p)'
        BY <2>1, <2>2, <2>3, EntryStays, Zenon
    <2> QED
        BY <1>1, <2>3, <2>4, Zenon
<1>2. \A s, p \in Nat : Known(S2, P2, s, p)' =>
            \/ Known(S, P, s, p) /\ H2[s][p] = H[s][p]
            \/ ~Known(S, P, s, p) /\ s = S2 /\ p = P2
    BY Zenon DEF Continues
<1>3. /\ InLog(S2, P2)'
      /\ \A i, j \in Nat : Known(S2, P2, i, j + 1)' => H2[i][j + 1] = After(H2[i][j], log'[i + 1][j + 1])
      /\ \A i \in Nat : i < S2 => H2[i + 1][0] = H2[i][Len(log'[i + 1])]
    BY Zenon DEF HistoryInv, History
<1>4. ASSUME ~Known(S, P, S2, P2), P2 > 0 PROVE EntryIsLinear(H2[S2][P2], S2, P2)'
    <2>0. PICK q \in Nat : P2 = q + 1
        <3>1. P2 - 1 \in Nat /\ P2 = (P2 - 1) + 1
            BY <1>4
        <3> QED
            BY <3>1, Zenon
    <2>1. S2 < Len(log') /\ P2 \in 1..Len(log'[S2 + 1]) /\ S2 + 1 \in 1..Len(log')
        BY <1>0, <1>3, <1>4 DEF InLog
    <2>2. Known(S2, P2, S2, q)' /\ Known(S2, P2, S2, q + 1)'
        BY <2>0 DEF Known
    <2>3. Known(S, P, S2, q) /\ H2[S2][q] = H[S2][q]
        BY <1>2, <2>0, <2>2
    <2>4. PICK x, command : x = H2[S2][q] /\ command = log'[S2 + 1][P2]
        BY Zenon
    <2>5. x \in Snapshots /\ command \in Submitted
        BY <1>0, <2>1, <2>4, SMTT(20) DEF Histories
    <2>6. EntryIsLinear(x, S2, q)'
        <3>1. EntryIsLinear(H2[S2][q], S2, q)'
            BY <1>1, <2>3, Zenon
        <3> QED
            BY <2>4, <3>1, Zenon
    <2>7. Linear(x, before') /\ \A w \in Has(x) : Passed(w, S2, q)'
        BY <2>6, Zenon DEF EntryIsLinear
    <2>8. \A w \in WriterOf(command) : w \in Writers /\ WriteAt(S2, P2, w)'
        BY <2>1, <2>4, <2>5, Zenon DEF WriterOf, WriteAt, Submitted
    <2>9. WriterOf(command) \cap Has(x) = {}
        <3> SUFFICES ASSUME NEW w \in WriterOf(command), w \in Has(x) PROVE FALSE
            BY Zenon
        <3>1. PICK i, k \in Nat : WriteAt(i, k, w)' /\ (i < S2 \/ (i = S2 /\ k <= q))
            BY <2>7, Zenon DEF Passed
        <3>2. i = S2 /\ k = P2
            BY <2>8, <3>1, Zenon DEF DecidedOnce
        <3> QED
            BY <2>0, <3>1, <3>2
    <2>10. \A w \in Has(x) \cup WriterOf(command) : Passed(w, S2, P2)'
        <3>1. ASSUME NEW w \in Has(x) PROVE Passed(w, S2, P2)'
            <4>1. PICK i, k \in Nat : WriteAt(i, k, w)' /\ (i < S2 \/ (i = S2 /\ k <= q))
                BY <2>7, Zenon DEF Passed
            <4>2. k <= q => k <= P2
                BY <2>0
            <4> QED
                BY <4>1, <4>2, Zenon DEF Passed
        <3>2. ASSUME NEW w \in WriterOf(command) PROVE Passed(w, S2, P2)'
            BY <2>8, <3>2 DEF Passed
        <3> QED
            BY <3>1, <3>2, Zenon
    <2>11. \A w \in Waiting(x.table) \cup WriterOf(command) : before'[w] \subseteq Range(x.files)
        <3> SUFFICES ASSUME NEW w \in Waiting(x.table) \cup WriterOf(command)
                     PROVE  before'[w] \subseteq Range(x.files)
            BY Zenon
        <3>1. w \in Clients
            BY <1>0, <2>8, Zenon DEF Waiting
        <3>2. Passed(w, S2, P2)'
            BY <2>10, Zenon DEF Has
        <3>3. before'[w] \subseteq Range(H2[S2][q].files)
            BY <2>2, <3>1, <3>2, PassedIsServed, SMTT(20)
        <3> QED
            BY <2>4, <3>3, Zenon
    <2>12. /\ Linear(After(x, command), before')
           /\ Has(After(x, command)) \subseteq Has(x) \cup WriterOf(command)
        BY <2>5, <2>7, <2>9, <2>11, AfterIsLinear, Zenon
    <2>13. H2[S2][P2] = After(x, command)
        BY <1>3, <2>0, <2>2, <2>4, SMTT(20)
    <2> QED
        BY <2>10, <2>12, <2>13, Zenon DEF EntryIsLinear
<1>5. ASSUME ~Known(S, P, S2, P2), P2 = 0 PROVE EntryIsLinear(H2[S2][P2], S2, P2)'
    <2>1. S2 > 0
        <3>1. CASE S2 = 0
            <4>1. S > 0 => Len(log[0 + 1]) \in Nat
                <5>1. S <= Len(log)
                    BY <1>0 DEF History, InLog
                <5> QED
                    BY <1>0, <5>1, SMTT(20)
            <4> QED
                BY <1>5, <3>1, <4>1 DEF Known
        <3> QED
            BY <3>1
    <2>2. PICK t \in Nat : S2 = t + 1
        <3>1. S2 - 1 \in Nat /\ S2 = (S2 - 1) + 1
            BY <2>1
        <3> QED
            BY <3>1, Zenon
    <2>3. PICK l : l = Len(log'[t + 1])
        BY Zenon
    <2>4. l \in Nat
        <3>1. t + 1 \in 1..Len(log')
            BY <1>0, <1>3, <2>2 DEF InLog
        <3> QED
            BY <1>0, <2>3, <3>1
    <2>5. Known(S2, P2, t, l)' /\ t # S2
        BY <2>2, <2>3, <2>4 DEF Known
    <2>6. Known(S, P, t, l) /\ H2[t][l] = H[t][l]
        BY <1>2, <2>4, <2>5, Zenon
    <2>7. PICK x : x = H2[t][l]
        BY Zenon
    <2>8. EntryIsLinear(x, t, l)'
        <3>1. EntryIsLinear(H2[t][l], t, l)'
            BY <1>1, <2>4, <2>6, Zenon
        <3> QED
            BY <2>7, <3>1, Zenon
    <2>9. \A w \in Has(x) : Passed(w, S2, P2)'
        <3> SUFFICES ASSUME NEW w \in Has(x) PROVE Passed(w, S2, P2)'
            BY Zenon
        <3>1. PICK i, k \in Nat : WriteAt(i, k, w)' /\ (i < t \/ i = t)
            BY <2>8, Zenon DEF EntryIsLinear, Passed
        <3>2. i < S2
            BY <2>2, <3>1
        <3> QED
            BY <3>1, <3>2, Zenon DEF Passed
    <2>10. H2[S2][P2] = x
        BY <1>3, <1>5, <2>2, <2>3, <2>7, SMTT(20)
    <2> QED
        BY <2>8, <2>9, <2>10, Zenon DEF EntryIsLinear
<1>6. ASSUME NEW s \in Nat, NEW p \in Nat, Known(S2, P2, s, p)'
      PROVE  EntryIsLinear(H2[s][p], s, p)'
    <2>1. CASE Known(S, P, s, p) /\ H2[s][p] = H[s][p]
        BY <1>1, <2>1, Zenon
    <2>2. CASE ~Known(S, P, s, p) /\ s = S2 /\ p = P2
        BY <1>4, <1>5, <2>2
    <2> QED
        BY <1>2, <1>6, <2>1, <2>2, SMTT(20)
<1> QED
    BY <1>6, Zenon DEF LinearHistory

------------------------------------------------------------------------------
\* The sender of a writer is at its node, which has committed the write when
\* the writer has its answer.
AcksAreCommitted ==
    /\ \A n \in Nodes : \A w \in responses[n] \cap Writers : Home[w] = n
    /\ \A w \in Acknowledged : w \in Range(file_storage[Home[w]])

\* An answer comes with the command that commits the write (apply_delivery).
LEMMA AcksStayCommitted ==
    ASSUME Types, [Next]_vars, AcksAreCommitted
    PROVE  AcksAreCommitted'
<1>0. /\ state \in [Clients -> States] /\ responses \in [Nodes -> SUBSET Clients]
      /\ file_storage \in [Nodes -> Seq(Writers)]
      /\ Home \in [Clients -> Nodes]
      /\ Writers \subseteq Clients /\ Readers \subseteq Clients /\ Lockers \subseteq Clients
      /\ Writers \cap Lockers = {} /\ Writers \cap Readers = {}
    BY GroupAssumption, Zenon DEF Types, Clients
<1>1. /\ \A n \in Nodes : \A w \in responses[n] \cap Writers : Home[w] = n
      /\ \A w \in Writers : state[w] = "done" => w \in Range(file_storage[Home[w]])
    BY Zenon DEF AcksAreCommitted, Acknowledged
<1>2. ASSUME file_storage' = file_storage,
             \A w \in Writers : state'[w] = "done" => state[w] = "done",
             \A n \in Nodes : \A w \in responses'[n] \cap Writers : w \in responses[n] \/ Home[w] = n
      PROVE  AcksAreCommitted'
    BY <1>1, <1>2, Zenon DEF AcksAreCommitted, Acknowledged
<1>3. ASSUME NEW c \in Clients, Submit(c) PROVE AcksAreCommitted'
    <2>1. /\ responses' = [responses EXCEPT ![Home[c]] = responses[Home[c]] \cup {c}]
          /\ state' = [state EXCEPT ![c] = "waiting"]
          /\ file_storage' = file_storage
        BY <1>3, Zenon DEF Submit, ProposeRaw
    <2> QED
        BY <1>0, <1>2, <2>1, Zenon
<1>4. ASSUME NEW c \in Lockers, SubmitUnlock(c) PROVE AcksAreCommitted'
    <2>1. /\ responses' = [responses EXCEPT ![Home[c]] = responses[Home[c]] \cup {c}]
          /\ state' = [state EXCEPT ![c] = "unlocking"]
          /\ file_storage' = file_storage
        BY <1>4, Zenon DEF SubmitUnlock, ProposeRaw
    <2> QED
        BY <1>0, <1>2, <2>1, Zenon
<1>5. CASE Decide
    <2>1. file_storage' = file_storage /\ state' = state /\ responses' = responses
        BY <1>5, DecideIs, Zenon DEF memberVars, clientVars
    <2> QED
        BY <1>2, <2>1, Zenon
<1>6. ASSUME NEW n \in Nodes, ApplyCommand(n) PROVE AcksAreCommitted'
    <2>1. /\ slot[n] < Len(log) /\ pos[n] < Len(log[slot[n] + 1])
          /\ file_storage' = [file_storage EXCEPT ![n] = Committed(n, Out(n))]
          /\ responses' = [responses EXCEPT ![n] = responses[n] \ ReplyTo(n)]
          /\ state' = [c \in Clients |-> IF c \in ReplyTo(n) THEN Answered(c) ELSE state[c]]
        BY <1>6, ApplyCommandIs, SMTT(20) DEF Types
    <2>2. /\ ReplyTo(n) \subseteq responses[n]
          /\ \A w \in ReplyTo(n) \cap Writers : w \in Range(Committed(n, Out(n)))
        BY <1>6, RepliesAre, Zenon
    <2>3. Range(file_storage[n]) \subseteq Range(Committed(n, Out(n)))
        BY <2>1, NextCommandIs, PartsOfApply, CommittedGrows, Zenon
    <2>4. \A m \in Nodes : Range(file_storage[m]) \subseteq Range(file_storage'[m])
        BY <1>0, <2>1, <2>3, Zenon
    <2>5. file_storage'[n] = Committed(n, Out(n))
        BY <1>0, <2>1, Zenon
    <2>6. ASSUME NEW w \in Writers, state'[w] = "done" PROVE w \in Range(file_storage'[Home[w]])
        <3>0. w \in Clients /\ Home[w] \in Nodes
            BY <1>0, Zenon
        <3>1. CASE w \in ReplyTo(n)
            <4>1. Home[w] = n
                BY <1>1, <2>2, <3>1, Zenon
            <4> QED
                BY <2>2, <2>5, <3>1, <4>1, Zenon
        <3>2. CASE w \notin ReplyTo(n)
            <4>1. state[w] = "done"
                BY <2>1, <2>6, <3>0, <3>2, Zenon
            <4> QED
                BY <1>1, <2>4, <3>0, <4>1, Zenon
        <3> QED
            BY <3>1, <3>2, Zenon
    <2>7. \A m \in Nodes : responses'[m] \subseteq responses[m]
        BY <1>0, <2>1, Zenon
    <2> QED
        BY <1>1, <2>6, <2>7, Zenon DEF AcksAreCommitted, Acknowledged
<1>7. ASSUME NEW n \in Nodes, FinishSlot(n) PROVE AcksAreCommitted'
    <2>1. PICK j \in 0..Len(sync_requests[n]) : Finish(n, j)
        BY <1>7, FinishSlotIs, Zenon
    <2>2. /\ state' = [c \in Clients |->
                IF \E k \in 1..j : sync_requests[n][k][2] = c THEN "synced" ELSE state[c]]
          /\ file_storage' = file_storage /\ responses' = responses
        BY <2>1, Zenon DEF Finish
    <2> QED
        BY <1>0, <1>2, <2>2, Zenon
<1>8. ASSUME NEW r \in Readers, LatestLocalCommit(r) \/ Sync(r) PROVE AcksAreCommitted'
    <2>1. file_storage' = file_storage /\ responses' = responses
        BY <1>8, Zenon DEF LatestLocalCommit, Sync, memberVars
    <2>2. \A w \in Writers : state'[w] = state[w]
        BY <1>0, <1>8, Zenon DEF LatestLocalCommit, Sync
    <2> QED
        BY <1>2, <2>1, <2>2, Zenon
<1>9. CASE UNCHANGED vars
    <2>1. file_storage' = file_storage /\ state' = state /\ responses' = responses
        BY <1>9, Zenon DEF vars, memberVars, clientVars
    <2> QED
        BY <1>2, <2>1
<1> QED
    BY <1>3, <1>4, <1>5, <1>6, <1>7, <1>8, <1>9, SMTT(20) DEF Next

------------------------------------------------------------------------------
WritesInv ==
    /\ Types
    /\ Waits
    /\ DecidedOnce
    /\ AcksAreCommitted
    /\ \E H \in Histories, S \in Nat, P \in Nat : HistoryInv(H, S, P) /\ LinearHistory(H, S, P)

\* A new group has no writes.
LEMMA WritesInit == Init => WritesInv
<1> SUFFICES ASSUME Init PROVE WritesInv
    BY Zenon
<1>0. /\ log = <<>> /\ proposed = {} /\ Writers \subseteq Clients
      /\ state = [c \in Clients |-> "idle"] /\ responses = [n \in Nodes |-> {}]
    BY Zenon DEF Init, Clients
<1>1. GroupInv
    BY GroupInit, Zenon
<1>2. \A i \in Nat : \A k, w : ~WriteAt(i, k, w)
    BY <1>0 DEF WriteAt
<1>3. DecidedOnce
    BY <1>0, <1>2, Zenon DEF DecidedOnce
<1>4. AcksAreCommitted
    BY <1>0, Zenon DEF AcksAreCommitted, Acknowledged
<1>5. PICK x : x = EmptySnapshot
    BY Zenon
<1>6. Range(x.files) = {} /\ Len(x.files) = 0
    BY <1>5 DEF Range, EmptySnapshot
<1>7. \A i \in Inodes, k \in Nat : \A w : ~Holds(x.table, i, k, w)
    BY <1>5 DEF Holds, EmptyLockTable, EmptySnapshot
<1>8. Linear(x, before) /\ Has(x) = {}
    BY <1>6, <1>7 DEF Linear, OnceIn, InOrder, WaitsOnce, Waiting, Has
<1>9. \A s, p \in Nat : EmptyHistory[s][p] = x
    BY <1>5, Zenon DEF EmptyHistory
<1>10. LinearHistory(EmptyHistory, 0, 0)
    BY <1>8, <1>9, Zenon DEF LinearHistory, EntryIsLinear
<1> QED
    BY <1>1, <1>3, <1>4, <1>10, HistoryInit, Zenon DEF WritesInv, GroupInv

\* WritesInv is inductive.
LEMMA WritesStep == WritesInv /\ [Next]_vars => WritesInv'
<1> SUFFICES ASSUME WritesInv, [Next]_vars PROVE WritesInv'
    BY Zenon
<1>0. Types /\ Waits /\ DecidedOnce /\ AcksAreCommitted
    BY Zenon DEF WritesInv
<1>1. Types' /\ Waits' /\ DecidedOnce' /\ AcksAreCommitted'
    BY <1>0, TypesHold, WaitsHold, DecidedOnceHolds, AcksStayCommitted, Zenon
<1>2. PICK H \in Histories, S \in Nat, P \in Nat : HistoryInv(H, S, P) /\ LinearHistory(H, S, P)
    BY Zenon DEF WritesInv
<1>3. PICK H2 \in Histories, S2 \in Nat, P2 \in Nat :
        HistoryInv(H2, S2, P2)' /\ Continues(H, S, P, H2, S2, P2)
    BY <1>0, <1>2, HistoryStep, Zenon
<1>4. LinearHistory(H2, S2, P2)'
    <2>1. History(H, S, P)
        BY <1>2, Zenon DEF HistoryInv
    <2> QED
        BY <1>0, <1>1, <1>2, <1>3, <2>1, LinearStep, Zenon
<1> QED
    BY <1>1, <1>3, <1>4, Zenon DEF WritesInv

\* Every behaviour of the group satisfies WritesInv: each entry of its history
\* has each write once, and the committed ones in order.
THEOREM WritesInvHolds == Spec => []WritesInv
<1>1. Init => WritesInv
    BY WritesInit, Zenon
<1>2. WritesInv /\ [Next]_vars => WritesInv'
    BY WritesStep, Zenon
<1> QED
    BY <1>1, <1>2, PTL DEF Spec

\* Every member commits each write at most once, in an order that respects real
\* time, and a client is answered after its node has committed its write, also
\* when the write had to wait in the lock table (apply_delivery and
\* _process_lock_table).
THEOREM AlwaysWritesLinearize == Spec => []WritesLinearize
<1>1. WritesInv => WritesLinearize
    <2> SUFFICES ASSUME WritesInv PROVE WritesLinearize
        BY Zenon
    <2>1. PICK H \in Histories, S \in Nat, P \in Nat : HistoryInv(H, S, P) /\ LinearHistory(H, S, P)
        BY Zenon DEF WritesInv
    <2>2. ASSUME NEW n \in Nodes
          PROVE  \A k \in DOMAIN file_storage[n] :
                    /\ file_storage[n][k] \notin {file_storage[n][l] : l \in 1..(k - 1)}
                    /\ before[file_storage[n][k]] \subseteq {file_storage[n][l] : l \in 1..(k - 1)}
        <3> DEFINE files == file_storage[n]
        <3>1. slot[n] \in Nat /\ pos[n] \in Nat /\ files \in Seq(Writers)
            BY Zenon DEF WritesInv, Types
        <3>2. Known(S, P, slot[n], pos[n]) /\ H[slot[n]][pos[n]] = Snapshot(n)
            BY <2>1, Zenon DEF HistoryInv, History
        <3>3. Linear(Snapshot(n), before)
            BY <2>1, <3>1, <3>2, ZenonT(30) DEF LinearHistory, EntryIsLinear
        <3>4. OnceIn(files) /\ InOrder(files, before)
            BY <3>3, Zenon DEF Linear, Snapshot
        <3> HIDE DEF files
        <3>5. DOMAIN files = 1..Len(files) /\ Len(files) \in Nat
            BY <3>1
        <3>6. \A k \in 1..Len(files) : files[k] \notin {files[l] : l \in 1..(k - 1)}
            <4> SUFFICES ASSUME NEW k \in 1..Len(files), NEW l \in 1..(k - 1), files[k] = files[l]
                         PROVE  FALSE
                BY Zenon
            <4>1. l \in 1..Len(files) /\ l # k
                BY <3>5
            <4> QED
                BY <3>4, <4>1, Zenon DEF OnceIn
        <3>7. \A k \in 1..Len(files) : before[files[k]] \subseteq {files[l] : l \in 1..(k - 1)}
            BY <3>4, Zenon DEF InOrder
        <3>8. \A k \in DOMAIN files :
                /\ files[k] \notin {files[l] : l \in 1..(k - 1)}
                /\ before[files[k]] \subseteq {files[l] : l \in 1..(k - 1)}
            BY <3>5, <3>6, <3>7, Zenon
        <3> QED
            BY <3>8, Zenon DEF files
    <2>3. \A w \in Acknowledged : w \in Range(file_storage[Home[w]])
        BY Zenon DEF WritesInv, AcksAreCommitted
    <2> QED
        BY <2>2, <2>3, Zenon DEF WritesLinearize
<1> QED
    BY <1>1, WritesInvHolds, PTL
==============================================================================
