----------------------- MODULE TransactionRequestsProofs -----------------------
(***************************************************************************)
(* The moves of a transaction keep the invariant (TransactionsInvariant):  *)
(* what each request does to the file system, what the lock table and the  *)
(* queues of a group are after a request, and what that leaves of who owns *)
(* which lock, who waits where, and what a rename knows.                   *)
(***************************************************************************)
EXTENDS TransactionsInvariant, TLAPS

------------------------------------------------------------------------------
(***************************************************************************)
(* The loop that commits the requests that the lock table lets through.    *)
(***************************************************************************)
\* What is left after each of the first n requests, starting from start.
CommitSteps(start, requests, n, C) ==
    C = [k \in 0..n |-> IF k = 0 THEN start ELSE Commit(C[k - 1], requests[k])]

\* The loop can be run to any request.
LEMMA CommitStepsExist ==
    ASSUME LockTableFacts, NEW start, NEW requests, NEW n \in Nat
    PROVE  \E C : CommitSteps(start, requests, n, C)
<1> DEFINE Stuck == {m \in Nat : ~\E C : CommitSteps(start, requests, m, C)}
<1> SUFFICES Stuck = {}
    OBVIOUS
<1> SUFFICES ASSUME Stuck # {} PROVE FALSE
    OBVIOUS
<1>1. PICK m \in Stuck : \A l \in Stuck : m <= l
    BY Zenon DEF LockTableFacts
<1>2. m # 0
    <2> DEFINE C == [k \in 0..0 |-> start]
    <2>1. C = [k \in 0..0 |-> IF k = 0 THEN start ELSE Commit(C[k - 1], requests[k])]
        OBVIOUS
    <2> QED
        BY <2>1, Zenon DEF CommitSteps
<1>3. m - 1 \in Nat /\ m - 1 \notin Stuck
    BY <1>1, <1>2
<1>4. PICK B : CommitSteps(start, requests, m - 1, B)
    BY <1>3
<1> DEFINE C == [k \in 0..m |-> IF k = m THEN Commit(B[m - 1], requests[m]) ELSE B[k]]
<1>5. C = [k \in 0..m |-> IF k = 0 THEN start ELSE Commit(C[k - 1], requests[k])]
    <2> SUFFICES ASSUME NEW k \in 0..m
                 PROVE  C[k] = IF k = 0 THEN start ELSE Commit(C[k - 1], requests[k])
        OBVIOUS
    <2>1. CASE k = 0
        BY <1>2, <1>3, <1>4, <2>1 DEF CommitSteps
    <2>2. CASE k # 0 /\ k # m
        <3>1. k \in 0..(m - 1) /\ k - 1 \in 0..(m - 1)
            BY <1>3, <2>2
        <3>2. C[k] = B[k] /\ C[k - 1] = B[k - 1]
            BY <1>3, <2>2, <3>1
        <3>3. B[k] = Commit(B[k - 1], requests[k])
            BY <1>4, <2>2, <3>1, Zenon DEF CommitSteps
        <3> QED
            BY <2>2, <3>2, <3>3
    <2>3. CASE k = m
        <3>1. m - 1 \in 0..m /\ m - 1 # m
            BY <1>3
        <3>2. C[m - 1] = B[m - 1]
            BY <3>1
        <3> QED
            BY <1>2, <2>3, <3>2
    <2> QED
        BY <2>1, <2>2, <2>3, Zenon
<1> QED
    BY <1>1, <1>5, Zenon DEF CommitSteps

\* CommitAll is where the loop ends.
LEMMA CommitAllIs ==
    ASSUME LockTableFacts, NEW start, NEW requests, Len(requests) \in Nat
    PROVE  \E C : /\ C[0] = start
                  /\ \A k \in 1..Len(requests) : C[k] = Commit(C[k - 1], requests[k])
                  /\ CommitAll(start, requests) = C[Len(requests)]
<1> DEFINE after == CHOOSE C : CommitSteps(start, requests, Len(requests), C)
<1>1. CommitSteps(start, requests, Len(requests), after)
    BY CommitStepsExist, Zenon
<1>2. CommitAll(start, requests) = after[Len(requests)]
    BY DEF CommitAll, CommitSteps
<1> HIDE DEF after
<1>3. after[0] = start /\ \A k \in 1..Len(requests) : after[k] = Commit(after[k - 1], requests[k])
    BY <1>1 DEF CommitSteps
<1> QED
    BY <1>2, <1>3

------------------------------------------------------------------------------
(***************************************************************************)
(* The requests, and what committing one does to the metadata.             *)
(***************************************************************************)
\* Another entry in a directory leaves the tables consistent.
LEMMA WithEntryIs ==
    ASSUME NEW s, Consistent(s), NEW d \in Inodes, NEW n \in Names, NEW i \in Inodes \cup {NoInode}
    PROVE  /\ Consistent(WithEntry(s, d, n, i))
           /\ OnlyChanged(d, s, WithEntry(s, d, n, i))
           /\ WithEntry(s, d, n, i).attrs = s.attrs
           /\ OtherEntry(s, WithEntry(s, d, n, i), d, n, i)
<1> DEFINE t == WithEntry(s, d, n, i)
<1>1. /\ s \in FileSystems
      /\ s.entries \in [Inodes \X Names -> Inodes \cup {NoInode}]
    BY DEF Consistent, FileSystems
<1>2. /\ t.attrs = s.attrs /\ t.parents = s.parents /\ t.next_inode = s.next_inode
      /\ t.entries = [s.entries EXCEPT ![<<d, n>>] = i]
    BY <1>1 DEF WithEntry, FileSystems
<1>3. [s.entries EXCEPT ![<<d, n>>] = i] \in [Inodes \X Names -> Inodes \cup {NoInode}]
    BY <1>1
<1>4. t \in FileSystems
    BY <1>1, <1>3, Zenon DEF FileSystems, WithEntry
<1>5. Consistent(t)
    BY <1>2, <1>4 DEF Consistent, Exists
<1> HIDE DEF t
<1>6. OtherEntry(s, t, d, n, i)
    BY <1>1, <1>2 DEF OtherEntry
<1>7. OnlyChanged(d, s, t)
    BY <1>2, <1>6 DEF OnlyChanged, OtherEntry
<1> QED
    BY <1>2, <1>5, <1>6, <1>7 DEF t

\* Other attributes of an inode, of the same kind, leave the tables consistent.
LEMMA WithAttrsIs ==
    ASSUME NEW s, Consistent(s), NEW i \in Inodes, Exists(s, i),
           NEW a \in Attributes, a.kind = s.attrs[i].kind
    PROVE  /\ Consistent(WithAttrs(s, i, a))
           /\ OnlyChanged(i, s, WithAttrs(s, i, a))
           /\ WithAttrs(s, i, a).entries = s.entries
<1> DEFINE t == WithAttrs(s, i, a)
<1>1. /\ s \in FileSystems
      /\ s.attrs \in [Inodes -> Attributes \cup {NoAttrs}]
    BY DEF Consistent, FileSystems
<1>2. /\ t.attrs = [s.attrs EXCEPT ![i] = a] /\ t.parents = s.parents
      /\ t.next_inode = s.next_inode /\ t.entries = s.entries
    BY <1>1 DEF WithAttrs, FileSystems
<1>3. [s.attrs EXCEPT ![i] = a] \in [Inodes -> Attributes \cup {NoAttrs}]
    BY <1>1, Zenon
<1>4. t \in FileSystems
    BY <1>1, <1>3, Zenon DEF FileSystems, WithAttrs
<1> HIDE DEF t
<1>5. /\ \A j \in Inodes : j # i => t.attrs[j] = s.attrs[j]
      /\ t.attrs[i] = a
      /\ a # NoAttrs
    BY <1>1, <1>2, TransactionsAssumption
<1>6. Consistent(t)
    BY <1>2, <1>4, <1>5 DEF Consistent, Exists
<1>7. OnlyChanged(i, s, t)
    BY <1>2, <1>5 DEF OnlyChanged
<1> QED
    BY <1>2, <1>6, <1>7 DEF t

\* Another link count is another attribute.
LEMMA WithLinksIs ==
    ASSUME NEW s, Consistent(s), NEW i \in Inodes, Exists(s, i), NEW n \in Nat
    PROVE  /\ Consistent(WithLinks(s, i, n))
           /\ OnlyChanged(i, s, WithLinks(s, i, n))
           /\ WithLinks(s, i, n).entries = s.entries
<1> DEFINE a == [s.attrs[i] EXCEPT !.hardlinks = n]
<1>1. s.attrs[i] \in Attributes
    BY DEF Consistent, FileSystems, Exists
<1>2. a \in Attributes /\ a.kind = s.attrs[i].kind
    BY <1>1 DEF Attributes
<1> HIDE DEF a
<1>3. WithLinks(s, i, n) = WithAttrs(s, i, a)
    BY Zenon DEF WithLinks, a
<1> QED
    BY <1>2, <1>3, WithAttrsIs

\* An inode that goes leaves the tables consistent.
LEMMA WithoutInodeIs ==
    ASSUME NEW s, Consistent(s), NEW i \in Inodes
    PROVE  /\ Consistent(WithoutInode(s, i))
           /\ OnlyChanged(i, s, WithoutInode(s, i))
           /\ WithoutInode(s, i).entries = s.entries
<1> DEFINE t == WithoutInode(s, i)
<1>1. /\ s \in FileSystems
      /\ s.attrs \in [Inodes -> Attributes \cup {NoAttrs}]
      /\ s.parents \in [Inodes -> Inodes \cup {NoInode}]
    BY DEF Consistent, FileSystems
<1>2. /\ t.attrs = [s.attrs EXCEPT ![i] = NoAttrs]
      /\ t.parents = [s.parents EXCEPT ![i] = NoInode]
      /\ t.next_inode = s.next_inode /\ t.entries = s.entries
    BY <1>1 DEF WithoutInode, WithAttrs, FileSystems
<1>3. /\ [s.attrs EXCEPT ![i] = NoAttrs] \in [Inodes -> Attributes \cup {NoAttrs}]
      /\ [s.parents EXCEPT ![i] = NoInode] \in [Inodes -> Inodes \cup {NoInode}]
    BY <1>1
<1>4. t \in FileSystems
    BY <1>1, <1>3, Zenon DEF FileSystems, WithoutInode, WithAttrs
<1> HIDE DEF t
<1>5. /\ \A j \in Inodes : j # i => t.attrs[j] = s.attrs[j] /\ t.parents[j] = s.parents[j]
      /\ t.attrs[i] = NoAttrs /\ t.parents[i] = NoInode
    BY <1>1, <1>2
<1>6. Consistent(t)
    BY <1>2, <1>4, <1>5 DEF Consistent, Exists
<1>7. OnlyChanged(i, s, t)
    BY <1>2, <1>5 DEF OnlyChanged
<1> QED
    BY <1>2, <1>6, <1>7, Zenon DEF t

\* The remainder of a number is what is left of it after a multiple.
LEMMA Remainder ==
    ASSUME NEW n \in Nat \ {0}, NEW i \in Nat, NEW q \in Nat, NEW r \in 0..(n - 1),
           i = q * n + r
    PROVE  i % n = r
    BY SMTT(20)

\* Every inode has a group, and the next number of a group stays in the group.
LEMMA GroupOfIs ==
    ASSUME NEW i \in Nat
    PROVE  GroupOf(i) \in Groups /\ GroupOf(i + NumGroups) = GroupOf(i)
<1>1. NumGroups \in Nat \ {0}
    BY TransactionsAssumption
<1>2. i % NumGroups \in 0..(NumGroups - 1)
    BY <1>1
<1>3. (i + NumGroups) % NumGroups = i % NumGroups
    <2>1. i \div NumGroups \in Nat
        BY <1>1
    <2>2. i % NumGroups = i - NumGroups * (i \div NumGroups)
        BY <1>1, SMTT(20)
    <2>3. PICK q \in Nat, r \in 0..(NumGroups - 1) :
                r = i % NumGroups /\ r = i - NumGroups * q
        BY <1>2, <2>1, <2>2, Zenon
    <2>4. i = q * NumGroups + r
        BY <1>1, <2>3
    <2>5. i + NumGroups = (q + 1) * NumGroups + r
        BY <1>1, <2>4
    <2>6. q + 1 \in Nat /\ i + NumGroups \in Nat
        BY <1>1
    <2>7. (i + NumGroups) % NumGroups = r
        BY <1>1, <2>5, <2>6, Remainder, Zenon
    <2> QED
        BY <2>3, <2>7
<1> QED
    BY <1>2, <1>3 DEF GroupOf, Groups

\* A new inode has not existed before, so that nothing that existed changes.
LEMMA CreateInodeIs ==
    ASSUME NEW s, Consistent(s), NEW r \in Creations, s.next_inode[r.group] \in Inodes
    PROVE  /\ Consistent(CreateInode(s, r).fs)
           /\ OnlyChanged(NoInode, s, CreateInode(s, r).fs)
           /\ CreateInode(s, r).fs.entries = s.entries
           /\ CreateInode(s, r).reply = Reply("Ok", s.next_inode[r.group], TRUE)
<1> DEFINE t == CreateInode(s, r).fs
           i == s.next_inode[r.group]
           a == Attrs(r.kind, r.uid, r.mode)
           b == IF r.kind = "Directory" THEN [s.parents EXCEPT ![i] = r.parent] ELSE s.parents
           c == [s.next_inode EXCEPT ![r.group] = i + NumGroups]
<1>0. /\ s \in FileSystems
      /\ s.attrs \in [Inodes -> Attributes \cup {NoAttrs}]
      /\ s.parents \in [Inodes -> Inodes \cup {NoInode}]
      /\ s.next_inode \in [Groups -> Nat]
      /\ NumGroups \in Nat
    BY TransactionsAssumption DEF Consistent, FileSystems
<1>1. r.group \in Groups /\ r.parent \in Inodes /\ r.kind \in Kinds /\ r.uid \in Nat /\ r.mode \in Modes
    BY DEF Creations
<1>2. /\ t.attrs = [s.attrs EXCEPT ![i] = a] /\ t.parents = b /\ t.next_inode = c
      /\ t.entries = s.entries
    BY <1>0, Zenon DEF CreateInode, WithAttrs, FileSystems
<1>3. a \in Attributes /\ a.kind = r.kind
    BY <1>1, Zenon DEF Attrs, Attributes, Modes, Kinds
<1>4. i \in Inodes /\ i \in Nat /\ GroupOf(i) = r.group
    BY <1>0, <1>1, Zenon DEF Consistent
<1>5. c \in [Groups -> Nat] /\ b \in [Inodes -> Inodes \cup {NoInode}]
    BY <1>0, <1>1, <1>4
<1>6. [s.attrs EXCEPT ![i] = a] \in [Inodes -> Attributes \cup {NoAttrs}]
    BY <1>0, <1>3, <1>4
<1>7. t \in FileSystems
    BY <1>0, <1>5, <1>6, Zenon DEF FileSystems, CreateInode, WithAttrs
<1>8. CreateInode(s, r).reply = Reply("Ok", s.next_inode[r.group], TRUE)
    BY DEF CreateInode
<1> HIDE DEF t, a
<1>9. ~Exists(s, i) /\ s.parents[i] = NoInode
    BY <1>0, <1>4 DEF Consistent
<1>10. /\ \A j \in Inodes : j # i => t.attrs[j] = s.attrs[j] /\ t.parents[j] = s.parents[j]
       /\ t.attrs[i] = a /\ a # NoAttrs
       /\ t.parents[i] # NoInode <=> r.kind = "Directory"
    BY <1>0, <1>1, <1>2, <1>3, <1>4, <1>9, TransactionsAssumption, LockTableAssumption
<1> HIDE DEF b, i
<1>11. \A g \in Groups : t.next_inode[g] \in Nat /\ t.next_inode[g] >= s.next_inode[g]
    BY <1>0, <1>2, <1>4 DEF i
<1>12. \A g \in Groups : GroupOf(t.next_inode[g]) = g
    BY <1>0, <1>1, <1>2, <1>4, GroupOfIs DEF i, Consistent
<1>13. t.next_inode[GroupOf(i)] = i + NumGroups /\ NumGroups > 0
    BY <1>0, <1>1, <1>2, <1>4, TransactionsAssumption
<1> HIDE DEF c
<1>14. \A j \in Inodes : Exists(t, j) => j < t.next_inode[GroupOf(j)]
    <2> SUFFICES ASSUME NEW j \in Inodes, Exists(t, j) PROVE j < t.next_inode[GroupOf(j)]
        OBVIOUS
    <2>1. j \in Nat /\ GroupOf(j) \in Groups
        BY TransactionsAssumption, GroupOfIs
    <2>2. CASE j = i
        BY <1>0, <1>4, <1>13, <2>2
    <2>3. CASE j # i
        <3>1. j < s.next_inode[GroupOf(j)] /\ s.next_inode[GroupOf(j)] \in Nat
            BY <1>0, <1>10, <2>1, <2>3, Zenon DEF Consistent, Exists
        <3> QED
            BY <1>11, <2>1, <3>1
    <2> QED
        BY <2>2, <2>3
<1>15. Consistent(t)
    BY <1>3, <1>4, <1>7, <1>10, <1>12, <1>14 DEF Consistent, Exists
<1>16. OnlyChanged(NoInode, s, t)
    BY <1>2, <1>4, <1>9, <1>10, Zenon DEF OnlyChanged, Exists
<1> QED
    BY <1>2, <1>8, <1>15, <1>16, Zenon DEF t

------------------------------------------------------------------------------
(***************************************************************************)
(* What committing a request does                                          *)
(***************************************************************************)
\* The fields that requests have
LEMMA RequestFields ==
    ASSUME NEW r \in Requests
    PROVE  /\ r.inode \in Inodes /\ r.from \in Procs /\ r.lock_id \in Ids
           /\ r.group = GroupOf(r.inode) /\ r.group \in Groups
           /\ r.type \in {"Lock", "Unlock", "HardlinkIncrement", "HardlinkRollback",
                          "UpdateMetadataChangedTime", "CreateLink", "ReplaceLink", "RemoveLink",
                          "DecrementInode", "UpdateParent"}
           /\ r.type \in {"CreateLink", "ReplaceLink"} => r.name \in Names /\ r.link \in Inodes
           /\ r.type = "RemoveLink" => r.name \in Names
           /\ r.type = "DecrementInode" => r.count \in Nat
           /\ r.type = "UpdateParent" => r.link \in Inodes
    BY DEF Requests

\* A reply of a commit: it is not Waiting, and RemoveLink names an inode.
Answers(r, a) ==
    /\ a \in Responses
    /\ a.status # "Waiting"
    /\ r.type \in {"CreateInode", "RemoveLink"} /\ a.status = "Ok" => a.id \in Inodes
    /\ r.type = "Lock" /\ a.status = "Ok" => a.id \in Nat
    /\ r.type \notin {"ReplaceLink", "UpdateParent"} => a.status \notin Guarded

\* A request that fails changes nothing.
LEMMA FailedIs ==
    ASSUME NEW s, NEW r, NEW x \in Statuses, x # "Ok", x # "Waiting",
           x \in Guarded => r.type \in {"ReplaceLink", "UpdateParent"}
    PROVE  /\ Failed(s, x).fs = s
           /\ Failed(s, x).reply.status = x
           /\ Answers(r, Failed(s, x).reply)
    BY DEF Failed, Reply, Answers, Responses

\* A request that succeeds says Ok.
LEMMA SucceededIs ==
    ASSUME NEW s, NEW r, r.type \notin {"CreateInode", "RemoveLink", "Lock"}
    PROVE  /\ Succeeded(s).fs = s
           /\ Succeeded(s).reply.status = "Ok"
           /\ Answers(r, Succeeded(s).reply)
<1>1. Succeeded(s).fs = s /\ Succeeded(s).reply = Reply("Ok", NoInode, TRUE)
    BY DEF Succeeded
<1>2. Reply("Ok", NoInode, TRUE) \in Responses /\ Reply("Ok", NoInode, TRUE).status = "Ok"
    BY DEF Reply, Responses, Statuses
<1> QED
    BY <1>1, <1>2, Zenon DEF Answers, Guarded

\* The result of a commit: nothing but the inode of the request is different.
Result(s, r, c) ==
    /\ Consistent(c.fs)
    /\ OnlyChanged(r.inode, s, c.fs)
    /\ Answers(r, c.reply)
    /\ c.reply.status # "Ok" => c.fs = s

\* A storage operation that fails changes nothing.
LEMMA NothingChanged ==
    ASSUME NEW s, NEW i
    PROVE  OnlyChanged(i, s, s)
    BY Zenon DEF OnlyChanged

\* create_link makes the link that it is asked for, or none.
LEMMA CreateLinkIs ==
    ASSUME NEW s, Consistent(s), NEW r \in Requests, r.type = "CreateLink"
    PROVE  /\ Result(s, r, CreateLink(s, r))
           /\ CreateLink(s, r).fs.attrs = s.attrs
           /\ CreateLink(s, r).reply.status = "Ok" =>
                OtherEntry(s, CreateLink(s, r).fs, r.inode, r.name, r.link)
<1> DEFINE t == WithEntry(s, r.inode, r.name, r.link)
           c == CreateLink(s, r)
<1>1. r.inode \in Inodes /\ r.name \in Names /\ r.link \in Inodes \cup {NoInode}
    BY RequestFields, Zenon
<1>2. /\ Consistent(t) /\ OnlyChanged(r.inode, s, t) /\ t.attrs = s.attrs
      /\ OtherEntry(s, t, r.inode, r.name, r.link)
    BY <1>1, WithEntryIs
<1>3. OnlyChanged(r.inode, s, s)
    BY NothingChanged, Zenon
<1> HIDE DEF t
<1>4. c = Succeeded(t) \/ \E x \in {"InodeDoesNotExist", "AlreadyExists", "AccessDenied"} : c = Failed(s, x)
    BY Zenon DEF CreateLink, t
<1> HIDE DEF c
<1>5. CASE c = Succeeded(t)
    <2>1. c.fs = t /\ c.reply.status = "Ok" /\ Answers(r, c.reply)
        BY <1>5, SucceededIs, Zenon
    <2> QED
        BY <1>2, <2>1, Zenon DEF Result, c
<1>6. ASSUME NEW x \in {"InodeDoesNotExist", "AlreadyExists", "AccessDenied"}, c = Failed(s, x)
      PROVE  c.fs = s /\ c.reply.status = x /\ Answers(r, c.reply)
    <2>1. x \in Statuses /\ x # "Ok" /\ x # "Waiting" /\ x \notin Guarded
        BY DEF Guarded, Statuses
    <2> QED
        BY <1>6, <2>1, FailedIs, Zenon
<1> QED
    BY <1>3, <1>4, <1>5, <1>6, Zenon DEF Result, c

\* replace_link replaces the link and says which inode it was to; without a
\* link to replace it panics.
LEMMA ReplaceLinkIs ==
    ASSUME NEW s, Consistent(s), NEW r \in Requests, r.type = "ReplaceLink"
    PROVE  LET c   == ReplaceLink(s, r)
               old == s.entries[<<r.inode, r.name>>]
           IN  /\ Result(s, r, c)
               /\ c.fs.attrs = s.attrs
               /\ c.reply.status = "Ok" =>
                    OtherEntry(s, c.fs, r.inode, r.name, r.link) /\ c.reply.id = old
               /\ old # NoInode => c.reply.status \notin Guarded
<1> DEFINE t == WithEntry(s, r.inode, r.name, r.link)
           c == ReplaceLink(s, r)
           old == s.entries[<<r.inode, r.name>>]
<1>1. r.inode \in Inodes /\ r.name \in Names /\ r.link \in Inodes \cup {NoInode}
    BY RequestFields, Zenon
<1>2. /\ Consistent(t) /\ OnlyChanged(r.inode, s, t) /\ t.attrs = s.attrs
      /\ OtherEntry(s, t, r.inode, r.name, r.link)
    BY <1>1, WithEntryIs
<1>3. OnlyChanged(r.inode, s, s)
    BY NothingChanged, Zenon
<1>4. old \in Inodes \cup {NoInode}
    BY <1>1 DEF Consistent, FileSystems
<1> HIDE DEF t
<1>5. \/ old # NoInode /\ c = [fs |-> t, reply |-> Reply("Ok", old, TRUE)]
      \/ \E x \in {"InodeDoesNotExist", "AccessDenied"} : c = Failed(s, x)
      \/ old = NoInode /\ c = Failed(s, "NothingToReplace")
    BY Zenon DEF ReplaceLink, t
<1> HIDE DEF c, old
<1>6. CASE old # NoInode /\ c = [fs |-> t, reply |-> Reply("Ok", old, TRUE)]
    <2>1. c.fs = t /\ c.reply = Reply("Ok", old, TRUE)
        BY <1>6
    <2>2. Reply("Ok", old, TRUE) \in Responses /\ Reply("Ok", old, TRUE).status = "Ok"
            /\ Reply("Ok", old, TRUE).id = old
        BY <1>4, TransactionsAssumption DEF Reply, Responses, Statuses
    <2>3. Answers(r, c.reply) /\ c.reply.status \notin Guarded
        BY <2>1, <2>2, Zenon DEF Answers, Guarded
    <2> QED
        BY <1>2, <2>1, <2>2, <2>3, Zenon DEF Result, c, old
<1>7. ASSUME NEW x \in {"InodeDoesNotExist", "AccessDenied", "NothingToReplace"}, c = Failed(s, x)
      PROVE  c.fs = s /\ c.reply.status = x /\ Answers(r, c.reply)
    <2>1. x \in Statuses /\ x # "Ok" /\ x # "Waiting"
        BY Zenon DEF Statuses, Panics
    <2> QED
        BY <1>7, <2>1, FailedIs
<1>8. CASE \E x \in {"InodeDoesNotExist", "AccessDenied"} : c = Failed(s, x)
    BY <1>3, <1>7, <1>8, Zenon DEF Result, c, old, Guarded
<1>9. CASE old = NoInode /\ c = Failed(s, "NothingToReplace")
    BY <1>3, <1>7, <1>9 DEF Result, c, old
<1> QED
    BY <1>5, <1>6, <1>8, <1>9, Zenon

\* remove_link removes the link or changes nothing. It succeeds too when the
\* caller has to come again; not so for the link that the caller looked up.
LEMMA RemoveLinkIs ==
    ASSUME NEW s, Consistent(s), NEW r \in Requests, r.type = "RemoveLink"
    PROVE  LET c   == RemoveLink(s, r)
               old == s.entries[<<r.inode, r.name>>]
           IN  /\ Result(s, r, c)
               /\ c.fs.attrs = s.attrs
               /\ OtherEntry(s, c.fs, r.inode, r.name, NoInode) \/ c.fs = s
               /\ c.reply.status = "Ok" /\ r.link = old =>
                    OtherEntry(s, c.fs, r.inode, r.name, NoInode)
<1> DEFINE t == WithEntry(s, r.inode, r.name, NoInode)
           c == RemoveLink(s, r)
           old == s.entries[<<r.inode, r.name>>]
<1>1. r.inode \in Inodes /\ r.name \in Names /\ NoInode \in Inodes \cup {NoInode}
    BY RequestFields, Zenon
<1>2. /\ Consistent(t) /\ OnlyChanged(r.inode, s, t) /\ t.attrs = s.attrs
      /\ OtherEntry(s, t, r.inode, r.name, NoInode)
    BY <1>1, WithEntryIs
<1>3. OnlyChanged(r.inode, s, s)
    BY NothingChanged
<1>4. old \in Inodes \cup {NoInode}
    BY <1>1 DEF Consistent, FileSystems
<1> HIDE DEF t
<1>5. \/ old # NoInode /\ c = [fs |-> t, reply |-> Reply("Ok", old, TRUE)]
      \/ old # NoInode /\ r.link # old /\ c = [fs |-> s, reply |-> Reply("Ok", old, FALSE)]
      \/ \E x \in {"InodeDoesNotExist", "DoesNotExist", "AccessDenied"} : c = Failed(s, x)
    BY Zenon DEF RemoveLink, t
<1> HIDE DEF c, old
<1>6. ASSUME NEW b \in BOOLEAN, NEW u, old # NoInode, c = [fs |-> u, reply |-> Reply("Ok", old, b)]
      PROVE  c.fs = u /\ c.reply.status = "Ok" /\ Answers(r, c.reply)
    <2>1. c.fs = u /\ c.reply = Reply("Ok", old, b)
        BY <1>6
    <2>2. old \in Inodes /\ old \in Nat
        BY <1>4, <1>6, TransactionsAssumption, Zenon
    <2>3. Reply("Ok", old, b) \in Responses /\ Reply("Ok", old, b).status = "Ok"
            /\ Reply("Ok", old, b).id = old
        BY <2>2, Zenon DEF Reply, Responses, Statuses
    <2> QED
        BY <2>1, <2>2, <2>3 DEF Answers, Guarded
<1>7. ASSUME NEW x \in {"InodeDoesNotExist", "DoesNotExist", "AccessDenied"}, c = Failed(s, x)
      PROVE  c.fs = s /\ c.reply.status = x /\ Answers(r, c.reply)
    <2>1. x \in Statuses /\ x # "Ok" /\ x # "Waiting" /\ x \notin Guarded
        BY Zenon DEF Statuses, Panics, Guarded
    <2> QED
        BY <1>7, <2>1, FailedIs
<1>8. CASE old # NoInode /\ c = [fs |-> t, reply |-> Reply("Ok", old, TRUE)]
    <2>1. c.fs = t /\ c.reply.status = "Ok" /\ Answers(r, c.reply)
        BY <1>6, <1>8, Zenon
    <2> QED
        BY <1>2, <2>1 DEF Result, c, old
<1>9. CASE old # NoInode /\ r.link # old /\ c = [fs |-> s, reply |-> Reply("Ok", old, FALSE)]
    <2>1. c.fs = s /\ c.reply.status = "Ok" /\ Answers(r, c.reply)
        BY <1>6, <1>9, Zenon
    <2> QED
        BY <1>3, <1>9, <2>1, Zenon DEF Result, c, old
<1>10. CASE \E x \in {"InodeDoesNotExist", "DoesNotExist", "AccessDenied"} : c = Failed(s, x)
    BY <1>3, <1>7, <1>10 DEF Result, c, old
<1> QED
    BY <1>5, <1>8, <1>9, <1>10, Zenon

\* The requests about link counts, parents and times change one inode.
LEMMA HardlinkIncrementIs ==
    ASSUME NEW s, Consistent(s), NEW r \in Requests, r.type = "HardlinkIncrement"
    PROVE  Result(s, r, HardlinkIncrement(s, r))
<1> DEFINE t == WithLinks(s, r.inode, s.attrs[r.inode].hardlinks + 1)
           c == HardlinkIncrement(s, r)
<1>1. r.inode \in Inodes
    BY RequestFields, Zenon
<1>2. Exists(s, r.inode) => Consistent(t) /\ OnlyChanged(r.inode, s, t)
    <2> SUFFICES ASSUME Exists(s, r.inode) PROVE Consistent(t) /\ OnlyChanged(r.inode, s, t)
        BY Zenon
    <2>1. s.attrs[r.inode] \in Attributes
        BY <1>1, Zenon DEF Consistent, FileSystems, Exists
    <2>2. s.attrs[r.inode].hardlinks + 1 \in Nat
        BY <2>1 DEF Attributes
    <2> QED
        BY <1>1, <2>2, WithLinksIs, Zenon
<1> HIDE DEF t
<1>3. (Exists(s, r.inode) /\ c = Succeeded(t)) \/ c = Failed(s, "InodeDoesNotExist")
    BY Zenon DEF HardlinkIncrement, t
<1> HIDE DEF c
<1>4. CASE Exists(s, r.inode) /\ c = Succeeded(t)
    <2>1. c.fs = t /\ c.reply.status = "Ok" /\ Answers(r, c.reply)
        BY <1>4, SucceededIs, Zenon
    <2> QED
        BY <1>2, <1>4, <2>1, Zenon DEF Result, c
<1>5. CASE c = Failed(s, "InodeDoesNotExist")
    <2>1. c.fs = s /\ c.reply.status = "InodeDoesNotExist" /\ Answers(r, c.reply)
        BY <1>5, FailedIs, Zenon DEF Statuses, Guarded
    <2> QED
        BY <2>1, NothingChanged DEF Result, c
<1> QED
    BY <1>3, <1>4, <1>5, Zenon

\* A link count that is not zero can be decremented.
LEMMA OneLess ==
    ASSUME NEW n \in Nat, n # 0
    PROVE  n - 1 \in Nat
    OBVIOUS

\* hardlink_rollback takes the link count back by one and makes or removes no
\* link.
LEMMA HardlinkRollbackIs ==
    ASSUME NEW s, Consistent(s), NEW r \in Requests, r.type = "HardlinkRollback"
    PROVE  Result(s, r, HardlinkRollback(s, r))
<1> DEFINE n == s.attrs[r.inode].hardlinks
           t == WithLinks(s, r.inode, n - 1)
           c == HardlinkRollback(s, r)
<1>1. r.inode \in Inodes
    BY RequestFields, Zenon
<1>2. Exists(s, r.inode) /\ n # 0 => Consistent(t) /\ OnlyChanged(r.inode, s, t)
    <2> SUFFICES ASSUME Exists(s, r.inode), n # 0
                 PROVE  Consistent(t) /\ OnlyChanged(r.inode, s, t)
        BY Zenon
    <2>1. s.attrs[r.inode] \in Attributes
        BY <1>1, Zenon DEF Consistent, FileSystems, Exists
    <2>2. n - 1 \in Nat
        <3>1. n \in Nat
            BY <2>1, Zenon DEF Attributes
        <3> QED
            BY <3>1, OneLess, Zenon
    <2> QED
        BY <1>1, <2>2, WithLinksIs, Zenon
<1> HIDE DEF t
<1>3. \/ Exists(s, r.inode) /\ n # 0 /\ c = Succeeded(t)
      \/ \E x \in {"InodeDoesNotExist", "LinkCountOverflow"} : c = Failed(s, x)
    BY Zenon DEF HardlinkRollback, t
<1> HIDE DEF c, n
<1>4. CASE Exists(s, r.inode) /\ n # 0 /\ c = Succeeded(t)
    <2>1. c.fs = t /\ c.reply.status = "Ok" /\ Answers(r, c.reply)
        BY <1>4, SucceededIs
    <2> QED
        BY <1>2, <1>4, <2>1 DEF Result, c
<1>5. ASSUME NEW x \in {"InodeDoesNotExist", "LinkCountOverflow"}, c = Failed(s, x)
      PROVE  Result(s, r, c)
    <2>1. x \in Statuses /\ x # "Ok" /\ x # "Waiting" /\ x \notin Guarded
        BY DEF Statuses, Panics, Guarded
    <2>2. c.fs = s /\ Answers(r, c.reply)
        BY <1>5, <2>1, FailedIs, Zenon
    <2> QED
        BY <2>2, NothingChanged DEF Result
<1> QED
    BY <1>3, <1>4, <1>5, Zenon DEF c

\* decrement_inode_link_count changes or deletes the inode, and no link.
LEMMA DecrementInodeIs ==
    ASSUME NEW s, Consistent(s), NEW r \in Requests, r.type = "DecrementInode"
    PROVE  /\ Result(s, r, DecrementInode(s, r))
           /\ DecrementInode(s, r).fs.entries = s.entries
<1> DEFINE n == s.attrs[r.inode].hardlinks
           t == WithLinks(s, r.inode, n - r.count)
           u == WithoutInode(s, r.inode)
           c == DecrementInode(s, r)
           Good(v) == Consistent(v) /\ OnlyChanged(r.inode, s, v) /\ v.entries = s.entries
<1>1. r.inode \in Inodes /\ r.count \in Nat
    BY RequestFields, Zenon
<1>2. Exists(s, r.inode) /\ n > r.count => Good(t)
    <2> SUFFICES ASSUME Exists(s, r.inode), n > r.count PROVE Good(t)
        OBVIOUS
    <2>1. s.attrs[r.inode] \in Attributes
        BY <1>1, Zenon DEF Consistent, FileSystems, Exists
    <2>2. n - r.count \in Nat
        BY <1>1, <2>1 DEF Attributes
    <2> QED
        BY <1>1, <2>2, WithLinksIs, Zenon
<1>3. Good(u)
    BY <1>1, WithoutInodeIs, Zenon
<1> HIDE DEF t, u
<1>4. \/ Exists(s, r.inode) /\ n > r.count /\ c = Succeeded(t)
      \/ c = Succeeded(u)
      \/ \E x \in {"InodeDoesNotExist", "LinkCountOverflow", "DeletedNonEmptyDirectory"} :
            c = Failed(s, x)
    BY Zenon DEF DecrementInode, t, u
<1> HIDE DEF c, n
<1>5. ASSUME NEW v, Good(v), c = Succeeded(v)
      PROVE  Result(s, r, c) /\ c.fs.entries = s.entries
    <2>1. c.fs = v /\ c.reply.status = "Ok" /\ Answers(r, c.reply)
        BY <1>5, SucceededIs
    <2> QED
        BY <1>5, <2>1, Zenon DEF Result
<1>6. ASSUME NEW x \in {"InodeDoesNotExist", "LinkCountOverflow", "DeletedNonEmptyDirectory"},
             c = Failed(s, x)
      PROVE  Result(s, r, c) /\ c.fs.entries = s.entries
    <2>1. x \in Statuses /\ x # "Ok" /\ x # "Waiting" /\ x \notin Guarded
        BY DEF Statuses, Panics, Guarded
    <2>2. c.fs = s /\ Answers(r, c.reply)
        BY <1>6, <2>1, FailedIs, Zenon
    <2> QED
        BY <2>2, NothingChanged DEF Result
<1> QED
    BY <1>2, <1>3, <1>4, <1>5, <1>6, Zenon DEF c

\* update_parent gives a directory its parent; the storage panics on a file.
LEMMA UpdateParentIs ==
    ASSUME NEW s, Consistent(s), NEW r \in Requests, r.type = "UpdateParent"
    PROVE  LET c == UpdateParent(s, r)
           IN  /\ Result(s, r, c)
               /\ c.fs.entries = s.entries
               /\ Exists(s, r.inode) /\ s.attrs[r.inode].kind = "Directory"
                    => c.reply.status \notin Guarded
<1> DEFINE t == [s EXCEPT !.parents = [@ EXCEPT ![r.inode] = r.link]]
           c == UpdateParent(s, r)
           dir == Exists(s, r.inode) /\ s.attrs[r.inode].kind = "Directory"
<1>1. r.inode \in Inodes /\ r.link \in Inodes
    BY RequestFields
<1>2. dir => Consistent(t) /\ OnlyChanged(r.inode, s, t) /\ t.entries = s.entries
    <2> SUFFICES ASSUME dir
                 PROVE  Consistent(t) /\ OnlyChanged(r.inode, s, t) /\ t.entries = s.entries
        BY Zenon
    <2>1. /\ s \in FileSystems
          /\ s.parents \in [Inodes -> Inodes \cup {NoInode}]
        BY DEF Consistent, FileSystems
    <2>2. /\ t.attrs = s.attrs /\ t.next_inode = s.next_inode /\ t.entries = s.entries
          /\ t.parents = [s.parents EXCEPT ![r.inode] = r.link]
        BY <2>1, Zenon DEF FileSystems
    <2>3. [s.parents EXCEPT ![r.inode] = r.link] \in [Inodes -> Inodes \cup {NoInode}]
        BY <1>1, <2>1
    <2>4. t \in FileSystems
        BY <2>1, <2>3, Zenon DEF FileSystems
    <2> HIDE DEF t
    <2>5. \A j \in Inodes : t.parents[j] = IF j = r.inode THEN r.link ELSE s.parents[j]
        BY <1>1, <2>1, <2>2
    <2>6. Consistent(t)
        BY <1>1, <2>2, <2>4, <2>5, LockTableAssumption DEF Consistent, Exists
    <2> QED
        BY <2>2, <2>6 DEF OnlyChanged
<1> HIDE DEF t
<1>3. (dir /\ c = Succeeded(t)) \/ (~dir /\ c = Failed(s, "ParentOfNoDirectory"))
    BY DEF UpdateParent, t
<1> HIDE DEF c, dir
<1>4. CASE dir /\ c = Succeeded(t)
    <2>1. c.fs = t /\ c.reply.status = "Ok" /\ Answers(r, c.reply)
        BY <1>4, SucceededIs, Zenon
    <2> QED
        BY <1>2, <1>4, <2>1, Zenon DEF Result, c, Guarded
<1>5. CASE ~dir /\ c = Failed(s, "ParentOfNoDirectory")
    <2>1. "ParentOfNoDirectory" \in Statuses
        BY DEF Statuses, Panics
    <2>2. c.fs = s /\ Answers(r, c.reply)
        BY <1>5, <2>1, FailedIs
    <2> QED
        BY <1>5, <2>2, NothingChanged, Zenon DEF Result, c, dir
<1> QED
    BY <1>3, <1>4, <1>5

\* update_metadata_changed_time changes no link and no link count.
LEMMA UpdateMetadataChangedTimeIs ==
    ASSUME NEW s, Consistent(s), NEW r \in Requests, r.type = "UpdateMetadataChangedTime"
    PROVE  /\ Result(s, r, UpdateMetadataChangedTime(s, r))
           /\ UpdateMetadataChangedTime(s, r).fs = s
<1> DEFINE c == UpdateMetadataChangedTime(s, r)
<1>1. c = Succeeded(s) \/ c = Failed(s, "InodeDoesNotExist")
    BY Zenon DEF UpdateMetadataChangedTime
<1> HIDE DEF c
<1>2. CASE c = Succeeded(s)
    BY <1>2, SucceededIs, NothingChanged DEF Result, c
<1>3. CASE c = Failed(s, "InodeDoesNotExist")
    <2>1. c.fs = s /\ Answers(r, c.reply)
        BY <1>3, FailedIs, Zenon DEF Statuses, Guarded
    <2> QED
        BY <2>1, NothingChanged DEF Result, c
<1> QED
    BY <1>1, <1>2, <1>3

\* Whatever request to an inode is committed, it is answered, the tables stay
\* consistent, nothing but the inode is different, and it has the effect that
\* the renames rely on.
LEMMA CommitWriteIs ==
    ASSUME NEW s, Consistent(s), NEW r \in Requests, r.type \notin {"Lock", "Unlock"}
    PROVE  Result(s, r, CommitWrite(s, r)) /\ Effect(s, r, CommitWrite(s, r))
<1>1. r.type \in {"HardlinkIncrement", "HardlinkRollback", "UpdateMetadataChangedTime",
                  "CreateLink", "ReplaceLink", "RemoveLink", "DecrementInode", "UpdateParent"}
    BY RequestFields, Zenon
<1>2. CASE r.type = "CreateLink"
    <2>1. CommitWrite(s, r) = CreateLink(s, r)
        BY <1>2 DEF CommitWrite
    <2> QED
        BY <1>2, <2>1, CreateLinkIs DEF Effect, Result
<1>3. CASE r.type = "ReplaceLink"
    <2>1. CommitWrite(s, r) = ReplaceLink(s, r)
        BY <1>3 DEF CommitWrite
    <2> QED
        BY <1>3, <2>1, ReplaceLinkIs DEF Effect, Result
<1>4. CASE r.type = "RemoveLink"
    <2>1. CommitWrite(s, r) = RemoveLink(s, r)
        BY <1>4, Zenon DEF CommitWrite
    <2> QED
        BY <1>4, <2>1, RemoveLinkIs DEF Effect, Result
<1>5. CASE r.type = "HardlinkIncrement"
    <2>1. CommitWrite(s, r) = HardlinkIncrement(s, r)
        BY <1>5, Zenon DEF CommitWrite
    <2> QED
        BY <1>5, <2>1, HardlinkIncrementIs DEF Effect, Result
<1>6. CASE r.type = "HardlinkRollback"
    <2>1. CommitWrite(s, r) = HardlinkRollback(s, r)
        BY <1>6, Zenon DEF CommitWrite
    <2> QED
        BY <1>6, <2>1, HardlinkRollbackIs DEF Effect, Result
<1>7. CASE r.type = "DecrementInode"
    <2>1. CommitWrite(s, r) = DecrementInode(s, r)
        BY <1>7, Zenon DEF CommitWrite
    <2> QED
        BY <1>7, <2>1, DecrementInodeIs DEF Effect, Result
<1>8. CASE r.type = "UpdateParent"
    <2>1. CommitWrite(s, r) = UpdateParent(s, r)
        BY <1>8 DEF CommitWrite
    <2> QED
        BY <1>8, <2>1, UpdateParentIs DEF Effect, Result
<1>9. CASE r.type = "UpdateMetadataChangedTime"
    <2>1. CommitWrite(s, r) = UpdateMetadataChangedTime(s, r)
        BY <1>9 DEF CommitWrite
    <2> QED
        BY <1>9, <2>1, UpdateMetadataChangedTimeIs DEF Effect, Result
<1> QED
    BY <1>1, <1>2, <1>3, <1>4, <1>5, <1>6, <1>7, <1>8, <1>9, Zenon

\* Requests to one inode, one after the other, change no other inode.
LEMMA ChangesAddUp ==
    ASSUME NEW i, NEW s, NEW t, NEW u, OnlyChanged(i, s, t), OnlyChanged(i, t, u)
    PROVE  OnlyChanged(i, s, u)
    BY DEF OnlyChanged, Exists

\* Requests to an inode that an Unlock sets free, of different transactions
IsBatch(batch, i) ==
    /\ Len(batch) \in Nat
    /\ \A k \in 1..Len(batch) :
            batch[k] \in Requests /\ batch[k].inode = i /\ batch[k].type \notin {"Lock", "Unlock"}
    /\ \A k, l \in 1..Len(batch) : batch[k].from = batch[l].from => k = l

\* Committing the first n of them
BatchDone(i, batch, n, start, end) ==
    /\ Consistent(end.fs)
    /\ OnlyChanged(i, start.fs, end.fs)
    /\ end.reply \in [Procs -> Responses]
    /\ \A k \in 1..n : Answers(batch[k], end.reply[batch[k].from])
    /\ \A p \in Procs : (\A k \in 1..n : batch[k].from # p) => end.reply[p] = start.reply[p]

\* Committing the next one
LEMMA BatchGoesOn ==
    ASSUME NEW i \in Inodes, NEW batch, IsBatch(batch, i), NEW m \in 1..Len(batch),
           NEW start, NEW before, BatchDone(i, batch, m - 1, start, before),
           NEW after, after = Commit(before, batch[m])
    PROVE  BatchDone(i, batch, m, start, after)
<1> DEFINE r == batch[m]
           c == CommitWrite(before.fs, r)
<1>1. after.fs = c.fs /\ after.reply = [before.reply EXCEPT ![r.from] = c.reply]
    BY DEF Commit
<1>2. /\ Consistent(before.fs) /\ OnlyChanged(i, start.fs, before.fs)
      /\ before.reply \in [Procs -> Responses]
      /\ \A k \in 1..(m - 1) : Answers(batch[k], before.reply[batch[k].from])
      /\ \A p \in Procs : (\A k \in 1..(m - 1) : batch[k].from # p)
                                => before.reply[p] = start.reply[p]
    BY Zenon DEF BatchDone
<1> HIDE DEF c
<1>3. r \in Requests /\ r.inode = i /\ r.type \notin {"Lock", "Unlock"}
    BY Zenon DEF IsBatch
<1>4. r.from \in Procs
    BY <1>3, RequestFields, Zenon
<1>5. Result(before.fs, r, c)
    BY <1>2, <1>3, CommitWriteIs, Zenon DEF c
<1>6. c.reply \in Responses /\ Answers(r, c.reply)
    BY <1>5, Zenon DEF Result, Answers
<1>7. /\ after.reply \in [Procs -> Responses]
      /\ after.reply[r.from] = c.reply
      /\ \A p \in Procs : p # r.from => after.reply[p] = before.reply[p]
    BY <1>1, <1>2, <1>4, <1>6, Zenon
<1>8. Consistent(after.fs) /\ OnlyChanged(i, start.fs, after.fs)
    <2>1. Consistent(c.fs) /\ OnlyChanged(i, before.fs, c.fs)
        BY <1>3, <1>5, Zenon DEF Result
    <2> QED
        BY <1>1, <1>2, <2>1, ChangesAddUp, Zenon
<1>9. ASSUME NEW k \in 1..m PROVE Answers(batch[k], after.reply[batch[k].from])
    <2>1. CASE k = m
        BY <1>6, <1>7, <2>1, Zenon
    <2>2. CASE k # m
        <3>1. k \in 1..(m - 1) /\ k \in 1..Len(batch)
            BY <2>2 DEF IsBatch
        <3>2. batch[k].from # r.from /\ batch[k] \in Requests
            BY <2>2, <3>1, Zenon DEF IsBatch
        <3>3. batch[k].from \in Procs
            BY <3>2, RequestFields, Zenon
        <3> QED
            BY <1>2, <1>7, <3>1, <3>2, <3>3, Zenon
    <2> QED
        BY <2>1, <2>2, Zenon
<1>10. ASSUME NEW p \in Procs, \A k \in 1..m : batch[k].from # p
       PROVE  after.reply[p] = start.reply[p]
    <2>1. p # r.from /\ \A k \in 1..(m - 1) : batch[k].from # p
        BY <1>10 DEF IsBatch
    <2> QED
        BY <1>2, <1>7, <2>1, Zenon
<1> QED
    BY <1>7, <1>8, <1>9, <1>10, Zenon DEF BatchDone

\* They are all answered, and nothing but the inode is different.
LEMMA BatchIs ==
    ASSUME LockTableFacts, NEW start, Consistent(start.fs), start.reply \in [Procs -> Responses],
           NEW i \in Inodes, NEW batch, IsBatch(batch, i)
    PROVE  BatchDone(i, batch, Len(batch), start, CommitAll(start, batch))
<1>1. Len(batch) \in Nat
    BY Zenon DEF IsBatch
<1>2. PICK C : /\ C[0] = start
               /\ \A k \in 1..Len(batch) : C[k] = Commit(C[k - 1], batch[k])
               /\ CommitAll(start, batch) = C[Len(batch)]
    BY <1>1, CommitAllIs
<1> DEFINE Bad == {k \in 0..Len(batch) : ~BatchDone(i, batch, k, start, C[k])}
<1>3. Bad = {}
    <2> SUFFICES ASSUME Bad # {} PROVE FALSE
        BY Zenon
    <2>1. Bad \in SUBSET Nat
        BY <1>1
    <2>2. PICK m \in Bad : \A l \in Bad : m <= l
        BY <2>1, Zenon DEF LockTableFacts
    <2>3. m # 0
        <3>1. BatchDone(i, batch, 0, start, start)
            BY NothingChanged DEF BatchDone
        <3> QED
            BY <1>2, <2>2, <3>1, Zenon
    <2>4. m \in 1..Len(batch) /\ m - 1 \in 0..Len(batch) /\ m - 1 \notin Bad
        BY <1>1, <2>2, <2>3
    <2>5. BatchDone(i, batch, m - 1, start, C[m - 1])
        BY <2>4, Zenon
    <2>6. BatchDone(i, batch, m, start, C[m])
        BY <1>2, <2>4, <2>5, BatchGoesOn, Zenon
    <2> QED
        BY <2>2, <2>6, Zenon
<1>4. BatchDone(i, batch, Len(batch), start, C[Len(batch)])
    BY <1>1, <1>3
<1> QED
    BY <1>2, <1>4, Zenon

------------------------------------------------------------------------------
(***************************************************************************)
(* What proposing a request does: it waits, gets the lock, is committed,   *)
(* or sets others free.                                                    *)
(***************************************************************************)
\* The lock table is the same for the other inodes.
OthersKept(i) ==
    \A j \in Inodes : j # i => LockIdOf(j)' = LockIdOf(j) /\ Queue(j)' = Queue(j)

Waits(p, req) ==
    /\ req.type # "Unlock" /\ req.lock_id = NoLockId
    /\ fs' = fs
    /\ reply' = [reply EXCEPT ![p] = Waiting]
    /\ LockIdOf(req.inode)' = LockIdOf(req.inode)
    /\ Queue(req.inode)' = Append(Queue(req.inode), req)

Grants(p, req) ==
    /\ req.type = "Lock"
    /\ fs' = fs
    /\ LockIdOf(req.inode) = NoLockId
    /\ LockIdOf(req.inode)' \in Nat
    /\ reply' = [reply EXCEPT ![p] = Reply("Ok", LockIdOf(req.inode)', TRUE)]
    /\ Queue(req.inode)' = Queue(req.inode)

Commits(p, req) ==
    /\ req.type \notin {"Lock", "Unlock"}
    /\ fs' = CommitWrite(fs, req).fs
    /\ reply' = [reply EXCEPT ![p] = CommitWrite(fs, req).reply]
    /\ req.lock_id = NoLockId => LockIdOf(req.inode) = NoLockId
    /\ LockIdOf(req.inode)' = LockIdOf(req.inode)
    /\ Queue(req.inode)' = Queue(req.inode)

\* The first n requests of the queue are set free. The last of them is the
\* Lock request that gets the lock, or none of them is one.
SetsFree(p, req, n) ==
    LET queue == Queue(req.inode)
        id    == LockIdOf(req.inode)'
    IN  /\ Queue(req.inode)' = SubSeq(queue, n + 1, Len(queue))
        /\ reply' \in [Procs -> Responses]
        /\ reply'[p] = Idle
        /\ \A k \in 1..n : Answers(queue[k], reply'[queue[k].from])
        /\ \A q \in Procs \ {p} : (\A k \in 1..n : queue[k].from # q) => reply'[q] = reply[q]
        /\ \/ id = NoLockId /\ \A k \in 1..n : queue[k].type # "Lock"
           \/ /\ n > 0 /\ queue[n].type = "Lock"
              /\ reply'[queue[n].from].status = "Ok" /\ id = reply'[queue[n].from].id
              /\ \A k \in 1..(n - 1) : queue[k].type # "Lock"

Unlocks(p, req) ==
    /\ req.type = "Unlock"
    /\ Consistent(fs') /\ OnlyChanged(req.inode, fs, fs')
    /\ \E n \in 0..Len(Queue(req.inode)) : SetsFree(p, req, n)

\* A change of the table of the request's group, at the request's inode, is a
\* change for that inode.
LEMMA TableChanges ==
    ASSUME Types, NEW req \in Requests, NEW T \in Tables(Requests),
           lock_table' = [lock_table EXCEPT ![req.group] = T],
           \A j \in Inodes : j # req.inode =>
                /\ T.lock_ids[j] = lock_table[req.group].lock_ids[j]
                /\ T.pending[j] = lock_table[req.group].pending[j]
    PROVE  /\ lock_table' \in [Groups -> Tables(Requests)]
           /\ OthersKept(req.inode)
           /\ LockIdOf(req.inode)' = T.lock_ids[req.inode]
           /\ Queue(req.inode)' = T.pending[req.inode]
<1>1. /\ req.group \in Groups /\ req.group = GroupOf(req.inode) /\ req.inode \in Inodes
      /\ lock_table \in [Groups -> Tables(Requests)]
    BY RequestFields, Zenon DEF Types
<1>2. /\ lock_table' \in [Groups -> Tables(Requests)]
      /\ lock_table'[req.group] = T
      /\ \A g \in Groups : g # req.group => lock_table'[g] = lock_table[g]
    BY <1>1, Zenon
<1>3. \A j \in Inodes : GroupOf(j) \in Groups
    BY GroupOfIs, TransactionsAssumption, Zenon
<1>4. ASSUME NEW j \in Inodes, j # req.inode
      PROVE  LockIdOf(j)' = LockIdOf(j) /\ Queue(j)' = Queue(j)
    BY <1>2, <1>3, <1>4 DEF LockIdOf, Queue
<1> QED
    BY <1>1, <1>2, <1>4, Zenon DEF LockIdOf, Queue, OthersKept

\* Where the commits of Propose begin: the reply of the transaction is open,
\* but an Unlock is answered.
Before(p, a) == [fs |-> fs, reply |-> [reply EXCEPT ![p] = a]]

\* What Propose does with the requests to commit and the lock that is granted
Serves(out, granted, id, before) ==
    /\ fs' = CommitAll(before, out).fs
    /\ reply' = [q \in Procs |-> IF \E r \in granted : r.from = q
                                 THEN Reply("Ok", id, TRUE) ELSE CommitAll(before, out).reply[q]]

\* The parts of Propose, for a request to an inode
LEMMA ProposeParts ==
    ASSUME LockTableFacts, Types, NEW p \in Procs, NEW req \in Requests, Propose(p, req)
    PROVE  LET lt == lock_table[req.group]
           IN  /\ lt \in Tables(Requests)
               /\ LockIdOf(req.inode) = lt.lock_ids[req.inode]
               /\ Queue(req.inode) = lt.pending[req.inode]
               /\ lock_table' = [lock_table EXCEPT ![req.group] = TableAfter(lt, req)]
               /\ TableAfter(lt, req) \in Tables(Requests)
               /\ req.type = "Unlock" =>
                    Serves(ToProcess(lt, req), GrantedTo(lt, req), lt.next_id, Before(p, Idle))
               /\ req.type # "Unlock" =>
                    Serves(ToProcess(lt, req), GrantedTo(lt, req), lt.next_id, Before(p, Waiting))
<1>1. req.group \in Groups /\ req.group = GroupOf(req.inode) /\ req.inode \in Inodes
    BY RequestFields
<1>2. lock_table[req.group] \in Tables(Requests)
    BY <1>1 DEF Types
<1>3. TableAfter(lock_table[req.group], req) \in Tables(Requests)
    BY <1>1, <1>2, Zenon DEF LockTableFacts
<1>4. ASSUME NEW a, a = IF req.type = "Unlock" THEN Idle ELSE Waiting
      PROVE  Serves(ToProcess(lock_table[req.group], req), GrantedTo(lock_table[req.group], req),
                    lock_table[req.group].next_id, Before(p, a))
    BY <1>4, Zenon DEF Propose, Serves, Before
<1> QED
    BY <1>1, <1>2, <1>3, <1>4, Zenon DEF Propose, LockIdOf, Queue

\* Nothing is committed when nothing is to be processed.
LEMMA NothingToCommit ==
    ASSUME LockTableFacts, NEW start
    PROVE  CommitAll(start, <<>>) = start
<1>1. Len(<<>>) = 0
    OBVIOUS
<1> QED
    BY <1>1, CommitAllIs

\* A request that is not held up is committed.
LEMMA OneToCommit ==
    ASSUME LockTableFacts, NEW start, NEW req
    PROVE  CommitAll(start, <<req>>) = Commit(start, req)
<1>1. Len(<<req>>) = 1 /\ <<req>>[1] = req
    BY Zenon
<1> QED
    BY <1>1, CommitAllIs

\* A request that the lock table holds back is put at the end of the queue of
\* its inode.
LEMMA ProposeWaits ==
    ASSUME LockTableFacts, Types, NEW p \in Procs, NEW req \in Requests, Propose(p, req),
           IsLocked(lock_table[req.group], req)
    PROVE  /\ lock_table' \in [Groups -> Tables(Requests)]
           /\ OthersKept(req.inode)
           /\ Waits(p, req)
<1> DEFINE lt == lock_table[req.group]
           T == TableAfter(lt, req)
           start == Before(p, Waiting)
<1>1. req.type # "Unlock" /\ req.lock_id = NoLockId
    BY DEF IsLocked, AccessType
<1>2. ToProcess(lt, req) = <<>> /\ GrantedTo(lt, req) = {}
    BY <1>1 DEF ToProcess, GrantedTo
<1>3. T = WaitForLock(lt, req)
    BY Zenon DEF TableAfter
<1>4. /\ lt \in Tables(Requests) /\ req.inode \in Inodes
      /\ LockIdOf(req.inode) = lt.lock_ids[req.inode] /\ Queue(req.inode) = lt.pending[req.inode]
      /\ lock_table' = [lock_table EXCEPT ![req.group] = T] /\ T \in Tables(Requests)
    BY ProposeParts, RequestFields
<1>5. Serves(<<>>, {}, lt.next_id, start)
    BY <1>1, <1>2, ProposeParts, Zenon
<1>6. fs' = fs /\ reply' = [reply EXCEPT ![p] = Waiting]
    <2>1. start.fs = fs /\ start.reply = [reply EXCEPT ![p] = Waiting]
        BY DEF Before
    <2>2. [reply EXCEPT ![p] = Waiting] \in [Procs -> Responses \cup {Waiting}]
        BY Zenon DEF Types
    <2> QED
        BY <1>5, <2>1, <2>2, NothingToCommit, Zenon DEF Serves
<1> HIDE DEF lt, T
<1>7. /\ T.lock_ids = lt.lock_ids
      /\ T.pending = [lt.pending EXCEPT ![req.inode] = Append(lt.pending[req.inode], req)]
    BY <1>3, <1>4 DEF WaitForLock, Tables
<1>8. lt.pending \in [Inodes -> Seq(Waitable(Requests))]
    BY <1>4 DEF Tables
<1>9. /\ lock_table' \in [Groups -> Tables(Requests)] /\ OthersKept(req.inode)
      /\ LockIdOf(req.inode)' = T.lock_ids[req.inode]
      /\ Queue(req.inode)' = T.pending[req.inode]
    BY <1>4, <1>7, <1>8, TableChanges, Zenon DEF lt
<1> QED
    BY <1>1, <1>4, <1>6, <1>7, <1>8, <1>9 DEF Waits

\* A Lock that finds the inode free gets the next lock id.
LEMMA ProposeGrants ==
    ASSUME LockTableFacts, Types, NEW p \in Procs, NEW req \in Requests, req.from = p,
           Propose(p, req),
           ~IsLocked(lock_table[req.group], req), req.type = "Lock", req.lock_id = NoLockId
    PROVE  /\ lock_table' \in [Groups -> Tables(Requests)]
           /\ OthersKept(req.inode)
           /\ Grants(p, req)
<1> DEFINE lt == lock_table[req.group]
           T == TableAfter(lt, req)
           start == Before(p, Waiting)
<1>1. /\ ToProcess(lt, req) = <<>> /\ GrantedTo(lt, req) = {req}
      /\ T = Lock(lt, req.inode)
    BY DEF ToProcess, GrantedTo, TableAfter
<1>2. /\ lt \in Tables(Requests) /\ req.inode \in Inodes /\ req.type # "Unlock"
      /\ LockIdOf(req.inode) = lt.lock_ids[req.inode] /\ Queue(req.inode) = lt.pending[req.inode]
      /\ lock_table' = [lock_table EXCEPT ![req.group] = T] /\ T \in Tables(Requests)
    BY ProposeParts, RequestFields, Zenon
<1>3. Serves(<<>>, {req}, lt.next_id, start)
    BY <1>1, <1>2, ProposeParts, ZenonT(30)
<1>4. fs' = fs /\ reply' = [reply EXCEPT ![p] = Reply("Ok", lt.next_id, TRUE)]
    <2>1. start.fs = fs /\ start.reply = [reply EXCEPT ![p] = Waiting]
        BY DEF Before
    <2>2. reply \in [Procs -> Responses]
        BY DEF Types
    <2>3. fs' = fs /\ reply' = [q \in Procs |-> IF q = p THEN Reply("Ok", lt.next_id, TRUE)
                                                ELSE start.reply[q]]
        BY <1>3, <2>1, NothingToCommit, Zenon DEF Serves
    <2> QED
        BY <2>1, <2>2, <2>3, Zenon
<1>5. LockIdOf(req.inode) = NoLockId
    <2>1. req.inode # NoInode /\ AccessType(req.type) # "NoAccess"
        BY <1>2, LockTableAssumption DEF AccessType
    <2> QED
        BY <1>2, <2>1 DEF IsLocked
<1> HIDE DEF lt, T
<1>6. /\ T.lock_ids = [lt.lock_ids EXCEPT ![req.inode] = lt.next_id]
      /\ T.pending = lt.pending
    BY <1>1, <1>2 DEF Lock, Tables
<1>7. lt.lock_ids \in [Inodes -> Nat \cup {NoLockId}] /\ lt.next_id \in Nat
    BY <1>2 DEF Tables
<1>8. /\ lock_table' \in [Groups -> Tables(Requests)] /\ OthersKept(req.inode)
      /\ LockIdOf(req.inode)' = T.lock_ids[req.inode]
      /\ Queue(req.inode)' = T.pending[req.inode]
    BY <1>2, <1>6, <1>7, TableChanges, Zenon DEF lt
<1>9. LockIdOf(req.inode)' = lt.next_id
    BY <1>2, <1>6, <1>7, <1>8, Zenon
<1> QED
    BY <1>2, <1>4, <1>5, <1>6, <1>7, <1>8, <1>9, Zenon DEF Grants

\* Any other request that the lock table lets through is committed and
\* answered.
LEMMA ProposeCommits ==
    ASSUME LockTableFacts, Types, NEW p \in Procs, NEW req \in Requests, req.from = p,
           Propose(p, req),
           ~IsLocked(lock_table[req.group], req), req.type \notin {"Lock", "Unlock"}
    PROVE  /\ lock_table' \in [Groups -> Tables(Requests)]
           /\ OthersKept(req.inode)
           /\ Commits(p, req)
<1> DEFINE lt == lock_table[req.group]
           T == TableAfter(lt, req)
           start == Before(p, Waiting)
           c == CommitWrite(fs, req)
<1>1. ToProcess(lt, req) = <<req>> /\ GrantedTo(lt, req) = {} /\ T = lt
    BY DEF ToProcess, GrantedTo, TableAfter
<1>2. /\ lt \in Tables(Requests) /\ req.inode \in Inodes /\ req.type # "Unlock"
      /\ LockIdOf(req.inode) = lt.lock_ids[req.inode] /\ Queue(req.inode) = lt.pending[req.inode]
      /\ lock_table' = [lock_table EXCEPT ![req.group] = T] /\ T \in Tables(Requests)
    BY ProposeParts, RequestFields, Zenon
<1>3. Serves(<<req>>, {}, lt.next_id, start)
    BY <1>1, <1>2, ProposeParts, Zenon
<1>4. fs' = c.fs /\ reply' = [reply EXCEPT ![p] = c.reply]
    <2>1. start.fs = fs /\ start.reply = [reply EXCEPT ![p] = Waiting]
        BY DEF Before
    <2>2. reply \in [Procs -> Responses]
        BY DEF Types
    <2>3. fs' = Commit(start, req).fs /\ reply' = [q \in Procs |-> Commit(start, req).reply[q]]
        BY <1>3, OneToCommit DEF Serves
    <2>4. /\ Commit(start, req).fs = c.fs
          /\ Commit(start, req).reply = [start.reply EXCEPT ![p] = c.reply]
        BY <2>1 DEF Commit
    <2> QED
        BY <2>1, <2>2, <2>3, <2>4, ZenonT(30)
<1>5. req.lock_id = NoLockId => LockIdOf(req.inode) = NoLockId
    <2>1. req.inode # NoInode /\ AccessType(req.type) # "NoAccess"
        BY <1>2, LockTableAssumption, RequestFields DEF AccessType
    <2> QED
        BY <1>2, <2>1 DEF IsLocked
<1> HIDE DEF T
<1>6. /\ lock_table' \in [Groups -> Tables(Requests)] /\ OthersKept(req.inode)
      /\ LockIdOf(req.inode)' = T.lock_ids[req.inode]
      /\ Queue(req.inode)' = T.pending[req.inode]
    BY <1>1, <1>2, TableChanges, Zenon
<1> QED
    BY <1>1, <1>2, <1>4, <1>5, <1>6, Zenon DEF Commits

\* The requests of a queue: they are to the inode, of different transactions,
\* that all wait.
LEMMA QueueIs ==
    ASSUME Types, Waiters, NEW i \in Inodes
    PROVE  /\ Queue(i) \in Seq(Waitable(Requests)) /\ Len(Queue(i)) \in Nat
           /\ \A k \in 1..Len(Queue(i)) :
                /\ Queue(i)[k] \in Requests /\ Queue(i)[k].inode = i
                /\ Queue(i)[k].type # "Unlock"
                /\ Queue(i)[k].from \in Procs /\ reply[Queue(i)[k].from] = Waiting
           /\ \A k, l \in 1..Len(Queue(i)) : Queue(i)[k].from = Queue(i)[l].from => k = l
<1>1. GroupOf(i) \in Groups
    BY GroupOfIs, TransactionsAssumption, Zenon
<1>2. Queue(i) \in Seq(Waitable(Requests))
    BY <1>1 DEF Types, Tables, Queue
<1>3. /\ Len(Queue(i)) \in Nat
      /\ \A k \in 1..Len(Queue(i)) : Queue(i)[k] \in Requests
    <2>1. Waitable(Requests) \in SUBSET Requests
        BY Zenon DEF Waitable
    <2> HIDE DEF Waitable
    <2> QED
        BY <1>2, <2>1
<1>4. ASSUME NEW k \in 1..Len(Queue(i))
      PROVE  /\ Queue(i)[k].inode = i /\ Queue(i)[k].type # "Unlock"
             /\ reply[Queue(i)[k].from] = Waiting
    BY DEF Waiters, Queued
<1>5. \A k \in 1..Len(Queue(i)) : Queue(i)[k].from \in Procs
    BY <1>3, RequestFields, Zenon
<1>6. \A k, l \in 1..Len(Queue(i)) : Queue(i)[k].from = Queue(i)[l].from => k = l
    BY Zenon DEF Waiters
<1> QED
    BY <1>2, <1>3, <1>4, <1>5, <1>6, Zenon

\* The first n places of a queue, and those before the n-th
LEMMA FirstPlaces ==
    ASSUME NEW N \in Nat, NEW n \in 0..N
    PROVE  n \in Nat /\ \A k \in 1..n : k \in 1..N
    OBVIOUS

\* The last of the first n places
LEMMA LastPlace ==
    ASSUME NEW N \in Nat, NEW n \in 0..N, n > 0
    PROVE  n \in 1..n /\ \A k \in 1..n : k # n => k \in 1..(n - 1)
    OBVIOUS

\* Every node of the line waits, in one place.
InLine(queue) ==
    /\ Len(queue) \in Nat
    /\ \A k \in 1..Len(queue) : queue[k].from \in Procs /\ reply[queue[k].from] = Waiting
    /\ \A k, l \in 1..Len(queue) : queue[k].from = queue[l].from => k = l

\* The node at the n-th place is not at one before it, and p is at none.
Ahead(queue, n, p) ==
    /\ n \in 0..Len(queue) /\ n > 0 /\ queue[n].from \in Procs
    /\ \A k \in 1..n : k # n => k \in 1..(n - 1)
    /\ \A k \in 1..(n - 1) : queue[k].from # queue[n].from /\ queue[k].from \in Procs
    /\ \A k \in 1..n : queue[k].from # p
    /\ \A q : (\A k \in 1..n : queue[k].from # q)
                => q # queue[n].from /\ \A k \in 1..(n - 1) : queue[k].from # q

\* A node that does not wait is nowhere in the line.
LEMMA PlacesBefore ==
    ASSUME NEW queue, InLine(queue), NEW n \in 1..Len(queue), NEW p, reply[p] # Waiting
    PROVE  Ahead(queue, n, p)
    BY DEF InLine, Ahead

\* The requests that are committed are those at the first places.
LEMMA BatchOfQueue ==
    ASSUME NEW i, NEW start, NEW end, NEW out, NEW queue, NEW n, \A k \in 1..n : out[k] = queue[k],
           BatchDone(i, out, n, start, end)
    PROVE  BatchDone(i, queue, n, start, end)
    BY DEF BatchDone

\* An Unlock frees the lock, commits what waited and grants the lock to the
\* first Lock that waits.
LEMMA ProposeUnlocks ==
    ASSUME LockTableFacts, Types, Waiters, NEW p \in Procs, NEW req \in Requests, req.from = p,
           Propose(p, req),
           reply[p] # Waiting, req.type = "Unlock"
    PROVE  /\ lock_table' \in [Groups -> Tables(Requests)]
           /\ OthersKept(req.inode)
           /\ Unlocks(p, req)
<1> DEFINE lt == lock_table[req.group]
           T == TableAfter(lt, req)
           i == req.inode
           queue == Queue(i)
           start == Before(p, Idle)
           out == SetFree(queue)
           end == CommitAll(start, out)
<1>1. ~IsLocked(lt, req)
    BY DEF IsLocked, AccessType
<1>2. /\ lt \in Tables(Requests) /\ i \in Inodes
      /\ LockIdOf(i) = lt.lock_ids[i] /\ queue = lt.pending[i]
      /\ lock_table' = [lock_table EXCEPT ![req.group] = T] /\ T \in Tables(Requests)
    BY ProposeParts, RequestFields, Zenon
<1>3. /\ ToProcess(lt, req) = out /\ GrantedTo(lt, req) = NextLocker(queue)
      /\ T = Unlock(lt, i)
    BY <1>1, <1>2, Zenon DEF ToProcess, GrantedTo, TableAfter
<1>4. Serves(out, NextLocker(queue), lt.next_id, start)
    BY <1>3, ProposeParts
<1>5. /\ queue \in Seq(Waitable(Requests)) /\ Len(queue) \in Nat
      /\ \A k \in 1..Len(queue) :
            /\ queue[k] \in Requests /\ queue[k].inode = i
            /\ queue[k].type # "Unlock"
            /\ queue[k].from \in Procs /\ reply[queue[k].from] = Waiting
      /\ \A k, l \in 1..Len(queue) : queue[k].from = queue[l].from => k = l
    BY <1>2, QueueIs, Zenon
<1>6. /\ start.fs = fs /\ start.reply = [reply EXCEPT ![p] = Idle]
      /\ Consistent(start.fs)
      /\ start.reply \in [Procs -> Responses]
      /\ start.reply[p] = Idle
      /\ \A q \in Procs : q # p => start.reply[q] = reply[q]
    <2>1. start.fs = fs /\ start.reply = [reply EXCEPT ![p] = Idle]
        BY DEF Before
    <2>2. Idle \in Responses
        BY Zenon DEF Idle, Reply, Responses, Statuses
    <2> QED
        BY <2>1, <2>2 DEF Types
<1> HIDE DEF lt, T, start, queue
<1>7. /\ T.lock_ids = [lt.lock_ids EXCEPT ![i] = IF LockWaiters(queue) # {} THEN lt.next_id
                                                ELSE NoLockId]
      /\ T.pending = [lt.pending EXCEPT ![i] = SubSeq(queue, RequestsToProcess(queue) + 1,
                                                      Len(queue))]
    BY <1>2, <1>3, Zenon DEF Unlock
<1>8. /\ lt.lock_ids \in [Inodes -> Nat \cup {NoLockId}] /\ lt.next_id \in Nat
      /\ lt.pending \in [Inodes -> Seq(Waitable(Requests))]
    BY <1>2 DEF Tables
<1>9. /\ lock_table' \in [Groups -> Tables(Requests)] /\ OthersKept(i)
      /\ LockIdOf(i)' = T.lock_ids[i] /\ Queue(i)' = T.pending[i]
    BY <1>2, <1>7, <1>8, TableChanges, ZenonT(30) DEF lt
<1>10. /\ LockIdOf(i)' = IF LockWaiters(queue) # {} THEN lt.next_id ELSE NoLockId
       /\ Queue(i)' = SubSeq(queue, RequestsToProcess(queue) + 1, Len(queue))
    BY <1>2, <1>7, <1>8, <1>9, Zenon
\* What committing the first n requests does, when there is no Lock among them
<1>11. ASSUME NEW n \in 0..Len(queue), Len(out) = n, \A k \in 1..n : out[k] = queue[k],
              \A k \in 1..n : queue[k].type # "Lock"
       PROVE  /\ Consistent(end.fs) /\ OnlyChanged(i, fs, end.fs)
              /\ end.reply \in [Procs -> Responses]
              /\ \A k \in 1..n : Answers(queue[k], end.reply[queue[k].from])
              /\ \A q \in Procs : (\A k \in 1..n : queue[k].from # q)
                                        => end.reply[q] = start.reply[q]
    <2> HIDE DEF out
    <2>1. IsBatch(out, i)
        <3>1. n \in Nat /\ \A k \in 1..n : k \in 1..Len(queue)
            BY <1>5, FirstPlaces, Zenon
        <3>2. \A k \in 1..n : /\ out[k] \in Requests /\ out[k].inode = i
                               /\ out[k].type \notin {"Lock", "Unlock"}
            BY <1>5, <1>11, <3>1, Zenon
        <3>3. \A k, l \in 1..n : out[k].from = out[l].from => k = l
            BY <1>5, <1>11, <3>1, Zenon
        <3> QED
            BY <1>11, <3>1, <3>2, <3>3, Zenon DEF IsBatch
    <2>2. BatchDone(i, out, n, start, end)
        BY <1>2, <1>6, <1>11, <2>1, BatchIs, Zenon
    <2> HIDE DEF end
    <2>3. BatchDone(i, queue, n, start, end)
        BY <1>11, <2>2, BatchOfQueue, Zenon
    <2> QED
        BY <1>6, <2>3, Zenon DEF BatchDone
<1>12. CASE LockWaiters(queue) = {}
    <2> DEFINE n == Len(queue)
    <2>1. out = queue /\ NextLocker(queue) = {} /\ RequestsToProcess(queue) = n
        BY <1>12 DEF SetFree, NextLocker, RequestsToProcess
    <2>2. \A k \in 1..n : queue[k].type # "Lock"
        BY <1>12 DEF LockWaiters
    <2>3. /\ Consistent(end.fs) /\ OnlyChanged(i, fs, end.fs)
          /\ end.reply \in [Procs -> Responses]
          /\ \A k \in 1..n : Answers(queue[k], end.reply[queue[k].from])
          /\ \A q \in Procs : (\A k \in 1..n : queue[k].from # q)
                                    => end.reply[q] = start.reply[q]
        <3>1. n \in 0..Len(queue) /\ Len(out) = n /\ \A k \in 1..n : out[k] = queue[k]
            BY <1>5, <2>1
        <3> HIDE DEF end, out
        <3> QED
            BY <1>11, <2>2, <3>1, Zenon
    <2>4. fs' = end.fs /\ reply' = [q \in Procs |-> end.reply[q]]
        BY <1>4, <2>1 DEF Serves
    <2> HIDE DEF end
    <2>5. reply' = end.reply
        BY <2>3, <2>4
    <2>6. \A k \in 1..n : queue[k].from # p
        BY <1>5
    <2>7. LockIdOf(i)' = NoLockId /\ Queue(i)' = SubSeq(queue, n + 1, Len(queue))
        BY <1>10, <1>12, <2>1
    <2>8. n \in 0..Len(queue)
        BY <1>5
    <2>9. SetsFree(p, req, n)
        BY <1>6, <2>2, <2>3, <2>5, <2>6, <2>7, ZenonT(30) DEF SetsFree, queue
    <2> QED
        BY <1>9, <2>3, <2>4, <2>8, <2>9, Zenon DEF Unlocks, queue
<1>13. CASE LockWaiters(queue) # {}
    <2> DEFINE n == RequestsToProcess(queue)
               locker == queue[n].from
    <2>1. n \in LockWaiters(queue) /\ \A l \in LockWaiters(queue) : n <= l
        BY <1>13, Zenon DEF LockTableFacts
    <2>2. n \in 1..Len(queue) /\ queue[n].type = "Lock" /\ \A k \in 1..(n - 1) : queue[k].type # "Lock"
        BY <1>5, <2>1 DEF LockWaiters
    <2>3. out = SubSeq(queue, 1, n - 1) /\ NextLocker(queue) = {queue[n]}
        BY <1>13, Zenon DEF SetFree, NextLocker
    <2> HIDE DEF n
    <2>4. n - 1 \in 0..Len(queue) /\ Len(out) = n - 1 /\ \A k \in 1..(n - 1) : out[k] = queue[k]
        BY <1>5, <2>2, <2>3
    <2>5. /\ Consistent(end.fs) /\ OnlyChanged(i, fs, end.fs)
          /\ end.reply \in [Procs -> Responses]
          /\ \A k \in 1..(n - 1) : Answers(queue[k], end.reply[queue[k].from])
          /\ \A q \in Procs : (\A k \in 1..(n - 1) : queue[k].from # q)
                                    => end.reply[q] = start.reply[q]
        BY <1>11, <2>2, <2>4, Zenon
    <2>6. /\ fs' = end.fs
          /\ reply' = [q \in Procs |-> IF locker = q THEN Reply("Ok", lt.next_id, TRUE)
                                       ELSE end.reply[q]]
        BY <1>4, <2>3, Zenon DEF Serves
    <2> HIDE DEF end
    <2>7. /\ Reply("Ok", lt.next_id, TRUE) \in Responses
          /\ Reply("Ok", lt.next_id, TRUE).status = "Ok"
          /\ Reply("Ok", lt.next_id, TRUE).id = lt.next_id
        BY <1>8, Zenon DEF Reply, Responses, Statuses
    <2>8. InLine(queue)
        BY <1>5, Zenon DEF InLine
    <2>9. /\ n \in 0..Len(queue) /\ n > 0 /\ locker \in Procs
          /\ \A k \in 1..n : k # n => k \in 1..(n - 1)
          /\ \A k \in 1..(n - 1) : queue[k].from # locker /\ queue[k].from \in Procs
          /\ \A k \in 1..n : queue[k].from # p
          /\ \A q : (\A k \in 1..n : queue[k].from # q)
                        => q # locker /\ \A k \in 1..(n - 1) : queue[k].from # q
        <3>1. Ahead(queue, n, p)
            BY <2>2, <2>8, PlacesBefore, Zenon
        <3> QED
            BY <3>1, Zenon DEF Ahead
    <2>10. /\ reply' \in [Procs -> Responses]
          /\ reply'[locker] = Reply("Ok", lt.next_id, TRUE)
          /\ \A q \in Procs : q # locker => reply'[q] = end.reply[q]
        BY <2>5, <2>6, <2>7, <2>9, Zenon
    <2>11. \A k \in 1..n : Answers(queue[k], reply'[queue[k].from])
        <3> SUFFICES ASSUME NEW k \in 1..n PROVE Answers(queue[k], reply'[queue[k].from])
            BY Zenon
        <3>1. CASE k = n
            BY <1>8, <2>2, <2>7, <2>10, <3>1, Zenon DEF Answers, Guarded
        <3>2. CASE k # n
            <4>1. k \in 1..(n - 1)
                BY <2>9, <3>2, Zenon
            <4> QED
                BY <2>5, <2>9, <2>10, <4>1, Zenon
        <3> QED
            BY <3>1, <3>2, Zenon
    <2>12. reply'[p] = Idle
        <3>1. p # locker /\ \A k \in 1..(n - 1) : queue[k].from # p
            BY <2>9, Zenon
        <3> QED
            BY <1>6, <2>5, <2>10, <3>1, Zenon
    <2>13. \A q \in Procs \ {p} : (\A k \in 1..n : queue[k].from # q) => reply'[q] = reply[q]
        <3> SUFFICES ASSUME NEW q \in Procs \ {p}, \A k \in 1..n : queue[k].from # q
                     PROVE  reply'[q] = reply[q]
            BY Zenon
        <3>1. q # locker /\ \A k \in 1..(n - 1) : queue[k].from # q
            BY <2>9, Zenon
        <3> QED
            BY <1>6, <2>5, <2>10, <3>1, Zenon
    <2>14. LockIdOf(i)' = lt.next_id /\ Queue(i)' = SubSeq(queue, n + 1, Len(queue))
        BY <1>10, <1>13 DEF n
    <2>15. SetsFree(p, req, n)
        <3>1. n > 0 /\ queue[n].type = "Lock"
            BY <2>2, <2>9, Zenon
        <3>2. reply'[queue[n].from].status = "Ok" /\ LockIdOf(i)' = reply'[queue[n].from].id
            BY <2>7, <2>10, <2>14, Zenon
        <3> QED
            BY <2>2, <2>10, <2>11, <2>12, <2>13, <2>14, <3>1, <3>2, Zenon DEF SetsFree, queue
    <2> QED
        BY <1>9, <2>5, <2>6, <2>9, <2>15, Zenon DEF Unlocks, queue
<1> QED
    BY <1>12, <1>13, Zenon

\* Proposing a request to an inode does one of the four.
LEMMA ProposeIs ==
    ASSUME LockTableFacts, Types, Waiters, NEW p \in Procs, NEW req \in Requests, req.from = p,
           Propose(p, req),
           reply[p] # Waiting, req.type = "Lock" => req.lock_id = NoLockId
    PROVE  /\ lock_table' \in [Groups -> Tables(Requests)]
           /\ OthersKept(req.inode)
           /\ Waits(p, req) \/ Grants(p, req) \/ Commits(p, req) \/ Unlocks(p, req)
<1>1. CASE IsLocked(lock_table[req.group], req)
    BY <1>1, ProposeWaits, Zenon
<1>2. CASE ~IsLocked(lock_table[req.group], req) /\ req.type = "Lock"
    BY <1>2, ProposeGrants, Zenon
<1>3. CASE req.type = "Unlock"
    BY <1>3, ProposeUnlocks, Zenon
<1>4. CASE ~IsLocked(lock_table[req.group], req) /\ req.type \notin {"Lock", "Unlock"}
    BY <1>4, ProposeCommits, Zenon
<1> QED
    BY <1>1, <1>2, <1>3, <1>4, Zenon

------------------------------------------------------------------------------
(***************************************************************************)
(* The locks and the queues through a step                                 *)
(***************************************************************************)
\* The fields of a transaction
LEMMA TransactionFields ==
    ASSUME NEW t \in Transaction
    PROVE  /\ t.op \in Operations \cup {[type |-> "none"]} /\ t.pc \in Pcs
           /\ t.inode \in Inodes \cup {NoInode} /\ t.dest \in Inodes \cup {NoInode}
           /\ t.attrs \in Attributes \cup {NoAttrs} /\ t.dest_attrs \in Attributes \cup {NoAttrs}
           /\ t.locks \in SUBSET (Inodes \X Nat) /\ t.result \in Statuses /\ t.crashed \in BOOLEAN
    BY DEF Transaction

\* The fields of an operation
LEMMA OperationFields ==
    ASSUME NEW op \in Operations
    PROVE  /\ op.type \in {"create", "hardlink", "unlink", "rmdir", "rename"}
           /\ op.parent \in Inodes /\ op.name \in Names /\ op.uid \in Nat
           /\ op.type = "create" => op.kind \in Kinds /\ op.mode \in Modes
           /\ op.type = "hardlink" => op.inode \in Inodes
           /\ op.type = "rename" => op.new_parent \in Inodes /\ op.new_name \in Names
    BY DEF Operations

\* A transaction that asks for a lock asks for the lock on an inode.
LEMMA AskedIs ==
    ASSUME NEW t \in Transaction, Shape(t), t.pc \in AskPcs
    PROVE  Asked(t) \in Inodes
<1>1. t.op \in Operations /\ (t.pc # "locked" => t.op.type = "rename")
    BY DEF Shape, AskPcs, RenamePcs
<1>2. t.op.parent \in Inodes /\ (t.pc # "locked" => t.op.new_parent \in Inodes)
    BY <1>1, OperationFields, Zenon
<1> QED
    BY <1>2, Zenon DEF Asked, Shape, AskPcs

\* What a transaction owns are locks on inodes.
LEMMA OwnIs ==
    ASSUME Types, NEW p \in Procs
    PROVE  OwnOf(tx[p], reply[p]) \subseteq Inodes \X Nat
<1>1. tx[p] \in Transaction /\ Shape(tx[p]) /\ Answered(tx[p], reply[p])
    BY Zenon DEF Types
<1>2. tx[p].pc \in AskPcs /\ reply[p].status = "Ok"
        => Asked(tx[p]) \in Inodes /\ reply[p].id \in Nat
    BY <1>1, AskedIs, Zenon DEF Answered
<1>3. tx[p].locks \subseteq Inodes \X Nat
    BY <1>1, TransactionFields
<1> QED
    BY <1>2, <1>3 DEF OwnOf

\* A transaction p moves on, and the replies of the others stay.
MovesOn(p, next) ==
    /\ tx' = [tx EXCEPT ![p] = next]
    /\ \A q \in Procs : q # p => reply'[q] = reply[q]

\* Only the transaction that takes the step has a new state.
LEMMA MovedOn ==
    ASSUME Types, NEW p \in Procs, NEW next, tx' = [tx EXCEPT ![p] = next]
    PROVE  tx'[p] = next /\ \A q \in Procs : q # p => tx'[q] = tx[q]
    BY DEF Types

\* A transaction that moves on leaves the others and their replies alone.
LEMMA OnlyMoved ==
    ASSUME Types, NEW p \in Procs, NEW next, MovesOn(p, next)
    PROVE  tx'[p] = next /\ \A q \in Procs : q # p => tx'[q] = tx[q] /\ reply'[q] = reply[q]
    BY MovedOn, Zenon DEF MovesOn

\* The locks keep their owners when no lock changes hands.
LEMMA OwnersStay ==
    ASSUME Types, Owners, NEW p \in Procs, NEW next, MovesOn(p, next),
           \A j \in Inodes : LockIdOf(j)' = LockIdOf(j),
           OwnOf(next, reply'[p]) \subseteq OwnOf(tx[p], reply[p]),
           next.pc \in AskPcs /\ reply'[p].status = "Ok" => \A l \in next.locks : l[1] # Asked(next)
    PROVE  Owners'
<1>1. tx'[p] = next /\ \A q \in Procs : q # p => tx'[q] = tx[q] /\ reply'[q] = reply[q]
    BY OnlyMoved, Zenon
<1>2. \A q \in Procs : OwnOf(tx'[q], reply'[q]) \subseteq OwnOf(tx[q], reply[q])
    BY <1>1, Zenon
<1>3. \A q \in Procs : \A l \in OwnOf(tx'[q], reply'[q]) : LockIdOf(l[1])' = l[2]
    <2> SUFFICES ASSUME NEW q \in Procs, NEW l \in OwnOf(tx'[q], reply'[q])
                 PROVE  LockIdOf(l[1])' = l[2]
        BY Zenon
    <2>1. l \in OwnOf(tx[q], reply[q]) /\ l[1] \in Inodes
        BY <1>2, OwnIs, Zenon
    <2> QED
        BY <2>1, Zenon DEF Owners
<1>4. \A q, r \in Procs : q # r => OwnOf(tx'[q], reply'[q]) \cap OwnOf(tx'[r], reply'[r]) = {}
    BY <1>2, Zenon DEF Owners
<1>5. \A q \in Procs : tx'[q].pc \in AskPcs /\ reply'[q].status = "Ok"
                            => \A l \in tx'[q].locks : l[1] # Asked(tx'[q])
    BY <1>1 DEF Owners
<1> QED
    BY <1>3, <1>4, <1>5, Zenon DEF Owners

\* A lock is an inode and an id.
LEMMA PairIs ==
    ASSUME NEW S, NEW T, NEW x \in S \X T
    PROVE  x[1] \in S /\ x[2] \in T /\ x = <<x[1], x[2]>>
    OBVIOUS

\* Every lock that a transaction owns is in the lock table.
LEMMA OwnLock ==
    ASSUME Types, Owners, NEW q \in Procs, NEW l \in OwnOf(tx[q], reply[q])
    PROVE  /\ l[1] \in Inodes /\ l[2] \in Nat /\ l = <<l[1], l[2]>>
           /\ LockIdOf(l[1]) = l[2]
<1>1. l \in Inodes \X Nat
    BY OwnIs, Zenon
<1>2. LockIdOf(l[1]) = l[2]
    BY Zenon DEF Owners
<1> QED
    BY <1>1, <1>2, PairIs, Zenon

\* A lock that is free gets one owner.
LEMMA OwnersGrant ==
    ASSUME Types, Owners, NEW p \in Procs, NEW next, MovesOn(p, next), NEW i \in Inodes,
           OthersKept(i), LockIdOf(i) = NoLockId,
           next.locks \subseteq OwnOf(tx[p], reply[p]),
           OwnOf(next, reply'[p]) \subseteq next.locks \cup {<<i, LockIdOf(i)'>>},
           Asked(next) = i
    PROVE  Owners'
<1>1. tx'[p] = next /\ \A q \in Procs : q # p => tx'[q] = tx[q] /\ reply'[q] = reply[q]
    BY OnlyMoved, Zenon
<1>2. ASSUME NEW q \in Procs, NEW l \in OwnOf(tx[q], reply[q])
      PROVE  l[1] \in Inodes /\ l[1] # i /\ LockIdOf(l[1])' = l[2]
    <2>1. l[1] \in Inodes /\ l[2] \in Nat /\ LockIdOf(l[1]) = l[2]
        BY OwnLock, Zenon
    <2>2. l[1] # i
        BY <2>1, LockTableAssumption, Zenon
    <2> QED
        BY <2>1, <2>2, Zenon DEF OthersKept
<1>3. \A q \in Procs : OwnOf(tx'[q], reply'[q]) \subseteq
                            OwnOf(tx[q], reply[q]) \cup IF q = p THEN {<<i, LockIdOf(i)'>>} ELSE {}
    BY <1>1, Zenon
<1>4. \A q \in Procs : \A l \in OwnOf(tx'[q], reply'[q]) : LockIdOf(l[1])' = l[2]
    <2> SUFFICES ASSUME NEW q \in Procs, NEW l \in OwnOf(tx'[q], reply'[q])
                 PROVE  LockIdOf(l[1])' = l[2]
        BY Zenon
    <2>1. CASE l \in OwnOf(tx[q], reply[q])
        BY <1>2, <2>1, Zenon
    <2>2. CASE l = <<i, LockIdOf(i)'>>
        BY <2>2, Zenon
    <2> QED
        BY <1>3, <2>1, <2>2, Zenon
<1>5. \A q, r \in Procs : q # r => OwnOf(tx'[q], reply'[q]) \cap OwnOf(tx'[r], reply'[r]) = {}
    <2> SUFFICES ASSUME NEW q \in Procs, NEW r \in Procs, q # r,
                        NEW l \in OwnOf(tx'[q], reply'[q]), l \in OwnOf(tx'[r], reply'[r])
                 PROVE  FALSE
        BY Zenon
    <2>1. ~(l \in OwnOf(tx[q], reply[q]) /\ l \in OwnOf(tx[r], reply[r]))
        BY Zenon DEF Owners
    <2>2. l = <<i, LockIdOf(i)'>> => l \notin OwnOf(tx[q], reply[q]) /\ l \notin OwnOf(tx[r], reply[r])
        BY <1>2, Zenon
    <2> QED
        BY <1>3, <2>1, <2>2, Zenon
<1>6. \A q \in Procs : tx'[q].pc \in AskPcs /\ reply'[q].status = "Ok"
                            => \A l \in tx'[q].locks : l[1] # Asked(tx'[q])
    <2> SUFFICES ASSUME NEW q \in Procs, tx'[q].pc \in AskPcs, reply'[q].status = "Ok",
                        NEW l \in tx'[q].locks
                 PROVE  l[1] # Asked(tx'[q])
        BY Zenon
    <2>1. CASE q = p
        BY <1>1, <1>2, <2>1, Zenon
    <2>2. CASE q # p
        BY <1>1, <2>2, Zenon DEF Owners
    <2> QED
        BY <2>1, <2>2, Zenon
<1> QED
    BY <1>4, <1>5, <1>6, Zenon DEF Owners

\* A lock goes from p to one that has waited for it, or to nobody.
LEMMA OwnersPass ==
    ASSUME Types, Owners, NEW p \in Procs, NEW next, tx' = [tx EXCEPT ![p] = next],
           NEW i \in Inodes, NEW id, OthersKept(i),
           <<i, id>> \in OwnOf(tx[p], reply[p]), <<i, id>> \notin next.locks,
           next.locks \subseteq OwnOf(tx[p], reply[p]), next.pc \notin AskPcs,
           NEW w \in SUBSET Procs, p \notin w, \A q, r \in w : q = r,
           \A q \in Procs \ {p} : q \notin w => OwnOf(tx[q], reply'[q]) = OwnOf(tx[q], reply[q]),
           \A q \in Procs \ {p} : q \notin w => reply'[q] = reply[q] \/ tx[q].pc \notin AskPcs,
           \A q \in w : /\ OwnOf(tx[q], reply'[q]) = tx[q].locks \cup {<<i, LockIdOf(i)'>>}
                        /\ Asked(tx[q]) = i
    PROVE  Owners'
<1>1. tx'[p] = next /\ \A q \in Procs : q # p => tx'[q] = tx[q]
    BY MovedOn, Zenon
<1>2. ASSUME NEW q \in Procs, NEW l \in OwnOf(tx[q], reply[q]), q = p => l # <<i, id>>
      PROVE  l[1] \in Inodes /\ l[1] # i /\ LockIdOf(l[1])' = l[2]
    <2>1. /\ l[1] \in Inodes /\ l[2] \in Nat /\ l = <<l[1], l[2]>>
          /\ LockIdOf(l[1]) = l[2] /\ LockIdOf(i) = id
        <3>1. LockIdOf(i) = id
            <4>1. LockIdOf(<<i, id>>[1]) = <<i, id>>[2]
                BY Zenon DEF Owners
            <4> QED
                BY <4>1, Zenon
        <3> QED
            BY <3>1, OwnLock, Zenon
    <2>2. l # <<i, id>>
        BY <1>2, Zenon DEF Owners
    <2>3. l[1] # i
        BY <2>1, <2>2, Zenon
    <2> QED
        BY <2>1, <2>3, Zenon DEF OthersKept
<1>3. OwnOf(tx'[p], reply'[p]) = next.locks
    BY <1>1, Zenon DEF OwnOf
<1>4. \A q \in Procs : tx[q].locks \subseteq OwnOf(tx[q], reply[q])
    BY Zenon DEF OwnOf
<1>5. \A q \in Procs : OwnOf(tx'[q], reply'[q]) \subseteq
                            (OwnOf(tx[q], reply[q]) \ (IF q = p THEN {<<i, id>>} ELSE {}))
                                \cup IF q \in w THEN {<<i, LockIdOf(i)'>>} ELSE {}
    <2> SUFFICES ASSUME NEW q \in Procs, NEW l \in OwnOf(tx'[q], reply'[q])
                 PROVE  \/ l \in OwnOf(tx[q], reply[q]) /\ (q = p => l # <<i, id>>)
                        \/ q \in w /\ l = <<i, LockIdOf(i)'>>
        BY Zenon
    <2>1. CASE q = p
        BY <1>3, <2>1, Zenon
    <2>2. CASE q # p /\ q \in w
        BY <1>1, <1>4, <2>2, Zenon
    <2>3. CASE q # p /\ q \notin w
        BY <1>1, <2>3, Zenon
    <2> QED
        BY <2>1, <2>2, <2>3, Zenon
<1>6. \A q \in Procs : \A l \in OwnOf(tx'[q], reply'[q]) : LockIdOf(l[1])' = l[2]
    <2> SUFFICES ASSUME NEW q \in Procs, NEW l \in OwnOf(tx'[q], reply'[q])
                 PROVE  LockIdOf(l[1])' = l[2]
        BY Zenon
    <2>1. CASE l \in OwnOf(tx[q], reply[q]) /\ (q = p => l # <<i, id>>)
        BY <1>2, <2>1, Zenon
    <2>2. CASE l = <<i, LockIdOf(i)'>>
        BY <2>2, Zenon
    <2> QED
        BY <1>5, <2>1, <2>2, Zenon
<1>7. \A q, r \in Procs : q # r => OwnOf(tx'[q], reply'[q]) \cap OwnOf(tx'[r], reply'[r]) = {}
    <2> SUFFICES ASSUME NEW q \in Procs, NEW r \in Procs, q # r,
                        NEW l \in OwnOf(tx'[q], reply'[q]), l \in OwnOf(tx'[r], reply'[r])
                 PROVE  FALSE
        BY Zenon
    <2>1. ~(l \in OwnOf(tx[q], reply[q]) /\ l \in OwnOf(tx[r], reply[r]))
        BY Zenon DEF Owners
    <2>2. \A x \in Procs : l \in OwnOf(tx[x], reply[x]) /\ (x = p => l # <<i, id>>)
                                => l # <<i, LockIdOf(i)'>>
        <3> SUFFICES ASSUME NEW x \in Procs, l \in OwnOf(tx[x], reply[x]), x = p => l # <<i, id>>,
                            l = <<i, LockIdOf(i)'>>
                     PROVE  FALSE
            BY Zenon
        <3>1. l[1] # i
            BY <1>2, Zenon
        <3>2. l[1] = i
            BY Zenon
        <3> QED
            BY <3>1, <3>2, Zenon
    <2> QED
        BY <1>5, <2>1, <2>2, Zenon
<1>8. \A q \in Procs : tx'[q].pc \in AskPcs /\ reply'[q].status = "Ok"
                            => \A l \in tx'[q].locks : l[1] # Asked(tx'[q])
    <2> SUFFICES ASSUME NEW q \in Procs, tx'[q].pc \in AskPcs, reply'[q].status = "Ok",
                        NEW l \in tx'[q].locks
                 PROVE  l[1] # Asked(tx'[q])
        BY Zenon
    <2>1. q # p
        BY <1>1, Zenon
    <2>2. CASE q \in w
        BY <1>1, <1>2, <1>4, <2>1, <2>2, Zenon
    <2>3. CASE q \notin w
        BY <1>1, <2>1, <2>3, ZenonT(30) DEF Owners
    <2> QED
        BY <2>2, <2>3, Zenon
<1> QED
    BY <1>6, <1>7, <1>8, Zenon DEF Owners

\* Queues that stay the same are served by nobody.
LEMMA WaitersStay ==
    ASSUME Types, Waiters, NEW p \in Procs, NEW next, MovesOn(p, next), reply[p] # Waiting,
           \A j \in Inodes : Queue(j)' = Queue(j)
    PROVE  Waiters'
<1>1. tx'[p] = next /\ \A q \in Procs : q # p => tx'[q] = tx[q] /\ reply'[q] = reply[q]
    BY OnlyMoved
<1>2. \A i \in Inodes : \A k \in 1..Len(Queue(i)') :
            LET r == Queue(i)'[k] IN Queued(i, r, tx'[r.from], reply'[r.from])
    <2> SUFFICES ASSUME NEW i \in Inodes, NEW k \in 1..Len(Queue(i))
                 PROVE  Queued(i, Queue(i)[k], tx'[Queue(i)[k].from], reply'[Queue(i)[k].from])
        OBVIOUS
    <2>1. Queue(i)[k].from \in Procs /\ reply[Queue(i)[k].from] = Waiting
        BY QueueIs
    <2>2. /\ tx'[Queue(i)[k].from] = tx[Queue(i)[k].from]
          /\ reply'[Queue(i)[k].from] = reply[Queue(i)[k].from]
        BY <1>1, <2>1, Zenon
    <2> QED
        BY <2>2 DEF Waiters
<1>3. \A i, j \in Inodes : \A k \in 1..Len(Queue(i)'), l \in 1..Len(Queue(j)') :
            Queue(i)'[k].from = Queue(j)'[l].from => i = j /\ k = l
    BY DEF Waiters
<1> QED
    BY <1>2, <1>3, Zenon DEF Waiters

\* A queue with one request more
LEMMA LongerQueue ==
    ASSUME NEW S, NEW s \in Seq(S), NEW x
    PROVE  /\ Len(s) + 1 \notin 1..Len(s)
           /\ \A k \in 1..Len(Append(s, x)) : k # Len(s) + 1 => k \in 1..Len(s)
           /\ Append(s, x)[Len(s) + 1] = x
           /\ \A k \in 1..Len(s) : Append(s, x)[k] = s[k]
    OBVIOUS

\* A queue without its first requests
LEMMA ShorterQueue ==
    ASSUME NEW S, NEW s \in Seq(S), NEW n \in 0..Len(s)
    PROVE  /\ n \in Nat
           /\ \A k \in 1..n : k \in 1..Len(s)
           /\ \A k \in 1..Len(SubSeq(s, n + 1, Len(s))) :
                /\ k \in Nat /\ k + n \in 1..Len(s) /\ k + n \notin 1..n
                /\ SubSeq(s, n + 1, Len(s))[k] = s[k + n]
    OBVIOUS

\* A queue that stays
LEMMA SameQueue ==
    ASSUME NEW S, NEW s \in Seq(S)
    PROVE  \A k \in 1..Len(s) : k \in Nat /\ k + 0 = k
    OBVIOUS

\* Two places that move by as much
LEMMA SameShift ==
    ASSUME NEW k \in Nat, NEW l \in Nat, NEW n \in Nat, k + n = l + n
    PROVE  k = l
    OBVIOUS

\* A node waits in one place.
LEMMA OnePlace ==
    ASSUME Waiters, NEW i \in Inodes, NEW j \in Inodes, NEW k \in 1..Len(Queue(i)),
           NEW l \in 1..Len(Queue(j)), Queue(i)[k].from = Queue(j)[l].from
    PROVE  i = j /\ k = l
    BY DEF Waiters

\* A request joins the queue of its inode.
LEMMA WaitersJoin ==
    ASSUME Types, Waiters, NEW p \in Procs, NEW next, MovesOn(p, next), reply[p] # Waiting,
           NEW i \in Inodes, NEW req, req.from = p, OthersKept(i),
           Queue(i)' = Append(Queue(i), req), Queued(i, req, next, reply'[p])
    PROVE  Waiters'
<1> DEFINE queue == Queue(i)
           n == Len(queue)
<1>1. tx'[p] = next /\ \A q \in Procs : q # p => tx'[q] = tx[q] /\ reply'[q] = reply[q]
    BY OnlyMoved, Zenon
<1>2. /\ n + 1 \notin 1..n /\ Queue(i)'[n + 1] = req
      /\ \A k \in 1..Len(Queue(i)') : k # n + 1 => k \in 1..n
      /\ \A k \in 1..n : Queue(i)'[k] = queue[k]
    <2>1. queue \in Seq(Waitable(Requests))
        BY QueueIs, Zenon
    <2>2. /\ n + 1 \notin 1..n /\ Append(queue, req)[n + 1] = req
          /\ \A k \in 1..Len(Append(queue, req)) : k # n + 1 => k \in 1..n
          /\ \A k \in 1..n : Append(queue, req)[k] = queue[k]
        BY <2>1, LongerQueue, ZenonT(30)
    <2> QED
        BY <2>2, Zenon
<1>3. \A j \in Inodes : \A k \in 1..Len(Queue(j)') :
        \/ j = i /\ k = n + 1 /\ Queue(j)'[k] = req
        \/ k \in 1..Len(Queue(j)) /\ Queue(j)'[k] = Queue(j)[k]
    BY <1>2, Zenon DEF OthersKept
<1>4. \A j \in Inodes : \A k \in 1..Len(Queue(j)) :
        /\ Queue(j)[k].from \in Procs \ {p}
        /\ tx'[Queue(j)[k].from] = tx[Queue(j)[k].from]
        /\ reply'[Queue(j)[k].from] = reply[Queue(j)[k].from]
    <2> SUFFICES ASSUME NEW j \in Inodes, NEW k \in 1..Len(Queue(j))
                 PROVE  /\ Queue(j)[k].from \in Procs \ {p}
                        /\ tx'[Queue(j)[k].from] = tx[Queue(j)[k].from]
                        /\ reply'[Queue(j)[k].from] = reply[Queue(j)[k].from]
        BY Zenon
    <2>1. Queue(j)[k].from \in Procs /\ reply[Queue(j)[k].from] = Waiting
        BY QueueIs, Zenon
    <2> QED
        BY <1>1, <2>1
<1>5. \A j \in Inodes : \A k \in 1..Len(Queue(j)') :
            LET r == Queue(j)'[k] IN Queued(j, r, tx'[r.from], reply'[r.from])
    <2> SUFFICES ASSUME NEW j \in Inodes, NEW k \in 1..Len(Queue(j)')
                 PROVE  Queued(j, Queue(j)'[k], tx'[Queue(j)'[k].from], reply'[Queue(j)'[k].from])
        BY Zenon
    <2>1. CASE j = i /\ k = n + 1 /\ Queue(j)'[k] = req
        BY <1>1, <2>1
    <2>2. CASE k \in 1..Len(Queue(j)) /\ Queue(j)'[k] = Queue(j)[k]
        <3>1. Queued(j, Queue(j)[k], tx[Queue(j)[k].from], reply[Queue(j)[k].from])
            BY <2>2, Zenon DEF Waiters
        <3> QED
            BY <1>4, <2>2, <3>1, ZenonT(30)
    <2> QED
        BY <1>3, <2>1, <2>2, Zenon
<1>6. ASSUME NEW j \in Inodes, NEW m \in Inodes, NEW k \in 1..Len(Queue(j)'),
             NEW l \in 1..Len(Queue(m)'), Queue(j)'[k].from = Queue(m)'[l].from
      PROVE  j = m /\ k = l
    <2>1. CASE k \in 1..Len(Queue(j)) /\ Queue(j)'[k] = Queue(j)[k]
        <3>1. CASE l \in 1..Len(Queue(m)) /\ Queue(m)'[l] = Queue(m)[l]
            <4>1. Queue(j)[k].from = Queue(m)[l].from
                BY <1>6, <2>1, <3>1, Zenon
            <4> QED
                BY <2>1, <3>1, <4>1, OnePlace
        <3>2. CASE m = i /\ l = n + 1 /\ Queue(m)'[l] = req
            <4>1. Queue(j)[k].from = p
                BY <1>6, <2>1, <3>2, Zenon
            <4> QED
                BY <1>4, <2>1, <4>1, Zenon
        <3> QED
            BY <1>3, <3>1, <3>2, Zenon
    <2>2. CASE j = i /\ k = n + 1 /\ Queue(j)'[k] = req
        <3>1. CASE l \in 1..Len(Queue(m)) /\ Queue(m)'[l] = Queue(m)[l]
            <4>1. Queue(m)[l].from = p
                BY <1>6, <2>2, <3>1, Zenon
            <4> QED
                BY <1>4, <3>1, <4>1, Zenon
        <3>2. CASE m = i /\ l = n + 1 /\ Queue(m)'[l] = req
            BY <2>2, <3>2, Zenon
        <3> QED
            BY <1>3, <3>1, <3>2, Zenon
    <2> QED
        BY <1>3, <2>1, <2>2, Zenon
<1> QED
    BY <1>5, <1>6, Zenon DEF Waiters

\* The first requests of a queue leave it.
LEMMA WaitersLeave ==
    ASSUME Types, Waiters, NEW p \in Procs, NEW next, tx' = [tx EXCEPT ![p] = next],
           reply[p] # Waiting, NEW i \in Inodes, OthersKept(i), NEW n \in 0..Len(Queue(i)),
           Queue(i)' = SubSeq(Queue(i), n + 1, Len(Queue(i))),
           \A q \in Procs \ {p} : (\A k \in 1..n : Queue(i)[k].from # q) => reply'[q] = reply[q]
    PROVE  Waiters'
<1> DEFINE Shift(j) == IF j = i THEN n ELSE 0
<1>1. tx'[p] = next /\ \A q \in Procs : q # p => tx'[q] = tx[q]
    BY MovedOn, Zenon
<1>2. \A k \in 1..Len(Queue(i)') : /\ k \in Nat /\ k + n \in 1..Len(Queue(i)) /\ k + n \notin 1..n
                                    /\ Queue(i)'[k] = Queue(i)[k + n]
    <2>1. Queue(i) \in Seq(Waitable(Requests))
        BY QueueIs, Zenon
    <2>2. \A k \in 1..Len(SubSeq(Queue(i), n + 1, Len(Queue(i)))) :
                /\ k \in Nat /\ k + n \in 1..Len(Queue(i)) /\ k + n \notin 1..n
                /\ SubSeq(Queue(i), n + 1, Len(Queue(i)))[k] = Queue(i)[k + n]
        BY <2>1, ShorterQueue, Zenon
    <2> QED
        BY <2>2, Zenon
<1>3. \A j \in Inodes : \A k \in 1..Len(Queue(j)) : k \in Nat /\ k + 0 = k
    <2>1. \A j \in Inodes : Queue(j) \in Seq(Waitable(Requests))
        BY QueueIs, Zenon
    <2> QED
        BY <2>1, SameQueue, Zenon
<1>4. \A j \in Inodes : \A k \in 1..Len(Queue(j)') :
        /\ k \in Nat /\ k + Shift(j) \in 1..Len(Queue(j))
        /\ j = i => k + Shift(j) \notin 1..n
        /\ Queue(j)'[k] = Queue(j)[k + Shift(j)]
    <2> SUFFICES ASSUME NEW j \in Inodes, NEW k \in 1..Len(Queue(j)')
                 PROVE  /\ k \in Nat /\ k + Shift(j) \in 1..Len(Queue(j))
                        /\ j = i => k + Shift(j) \notin 1..n
                        /\ Queue(j)'[k] = Queue(j)[k + Shift(j)]
        BY Zenon
    <2>1. CASE j = i
        BY <1>2, <2>1, Zenon
    <2>2. CASE j # i
        BY <1>3, <2>2, Zenon DEF OthersKept
    <2> QED
        BY <2>1, <2>2, Zenon
<1>5. \A j \in Inodes : Shift(j) \in Nat
    OBVIOUS
<1> HIDE DEF Shift
<1>6. ASSUME NEW j \in Inodes, NEW k \in 1..Len(Queue(j)')
      PROVE  LET r == Queue(j)'[k] IN Queued(j, r, tx'[r.from], reply'[r.from])
    <2> DEFINE m == k + Shift(j)
               r == Queue(j)[m]
    <2>1. m \in 1..Len(Queue(j)) /\ Queue(j)'[k] = r
        BY <1>4, Zenon
    <2>2. r.from \in Procs /\ reply[r.from] = Waiting /\ r.from # p
        BY <2>1, QueueIs
    <2>3. \A l \in 1..n : Queue(i)[l].from # r.from
        <3> SUFFICES ASSUME NEW l \in 1..n, Queue(i)[l].from = r.from PROVE FALSE
            BY Zenon
        <3>1. Queue(i) \in Seq(Waitable(Requests))
            BY QueueIs, Zenon
        <3>2. l \in 1..Len(Queue(i))
            BY <3>1, ShorterQueue, Zenon
        <3>3. i = j /\ l = m
            BY <2>1, <3>2, OnePlace
        <3> QED
            BY <1>4, <3>3, Zenon
    <2>4. tx'[r.from] = tx[r.from] /\ reply'[r.from] = reply[r.from]
        BY <1>1, <2>2, <2>3, Zenon
    <2>5. Queued(j, r, tx[r.from], reply[r.from])
        BY <2>1, Zenon DEF Waiters
    <2> QED
        BY <2>1, <2>4, <2>5, Zenon
<1>7. ASSUME NEW j \in Inodes, NEW m \in Inodes, NEW k \in 1..Len(Queue(j)'),
             NEW l \in 1..Len(Queue(m)'), Queue(j)'[k].from = Queue(m)'[l].from
      PROVE  j = m /\ k = l
    <2>1. /\ k + Shift(j) \in 1..Len(Queue(j)) /\ Queue(j)'[k] = Queue(j)[k + Shift(j)]
          /\ l + Shift(m) \in 1..Len(Queue(m)) /\ Queue(m)'[l] = Queue(m)[l + Shift(m)]
        BY <1>4, Zenon
    <2>2. j = m /\ k + Shift(j) = l + Shift(m)
        <3>1. Queue(j)[k + Shift(j)].from = Queue(m)[l + Shift(m)].from
            BY <1>7, <2>1, Zenon
        <3> QED
            BY <2>1, <3>1, OnePlace, Zenon
    <2>3. k \in Nat /\ l \in Nat /\ Shift(m) \in Nat
        BY <1>4, <1>5, Zenon
    <2> QED
        BY <2>2, <2>3, SameShift, Zenon
<1> QED
    BY <1>6, <1>7, Zenon DEF Waiters

------------------------------------------------------------------------------
(***************************************************************************)
(* What sending a request does to the invariant                            *)
(***************************************************************************)
\* The others go on waiting or get their reply, and what they have locked
\* stays as it was.
Frame(p, next) ==
    /\ tx'[p] = next
    /\ \A q \in Procs : q # p =>
            /\ tx'[q] = tx[q]
            /\ \/ reply'[q] = reply[q]
               \/ /\ reply[q] = Waiting /\ reply'[q].status \notin Guarded
                  /\ tx[q].op.type = "rename" => tx[q].pc \in AskPcs
            /\ \A l \in tx[q].locks : Kept(l[1])

\* The types after a step of p, from what the step does to each variable.
LEMMA TypesStep ==
    ASSUME Types, NEW p \in Procs, NEW next \in Transaction, Shape(next),
           tx' = [tx EXCEPT ![p] = next], Consistent(fs'),
           lock_table' \in [Groups -> Tables(Requests)],
           reply' \in [Procs -> Responses], Answered(next, reply'[p]),
           \A q \in Procs : q # p => Answered(tx[q], reply'[q])
    PROVE  Types'
<1>1. tx'[p] = next /\ \A q \in Procs : q # p => tx'[q] = tx[q]
    BY MovedOn, Zenon
<1>2. tx' \in [Procs -> Transaction]
    BY DEF Types
<1>3. \A q \in Procs : Shape(tx'[q]) /\ Answered(tx'[q], reply'[q])
    BY <1>1 DEF Types
<1>4. Consistent(fs)'
    BY Zenon DEF Consistent, Exists
<1> QED
    BY <1>2, <1>3, <1>4 DEF Types

\* The replies stay but for one.
LEMMA OneReply ==
    ASSUME Types, NEW p \in Procs, NEW a \in Responses, reply' = [reply EXCEPT ![p] = a]
    PROVE  /\ reply' \in [Procs -> Responses] /\ reply'[p] = a
           /\ \A q \in Procs : q # p => reply'[q] = reply[q] /\ Answered(tx[q], reply'[q])
    BY DEF Types

\* A step that leaves the metadata alone keeps every inode.
LEMMA NothingKept ==
    ASSUME fs' = fs
    PROVE  \A i : Kept(i)
    BY DEF Kept

\* The replies that the groups give.
LEMMA SomeReplies ==
    /\ Waiting \in Responses /\ Waiting.status = "Waiting"
    /\ Idle \in Responses /\ Idle.status = "Ok"
    /\ \A id \in Nat : /\ Reply("Ok", id, TRUE) \in Responses
                       /\ Reply("Ok", id, TRUE).status = "Ok" /\ Reply("Ok", id, TRUE).id = id
    /\ /\ Reply("Uncategorized", NoInode, FALSE) \in Responses
       /\ Reply("Uncategorized", NoInode, FALSE).status = "Uncategorized"
    BY DEF Waiting, Idle, Reply, Responses, Statuses

\* A request that gets lost
LEMMA SendLost ==
    ASSUME Types, Owners, Waiters, NEW p \in Procs, NEW req, NEW next, reply[p] # Waiting,
           next \in Transaction, Shape(next), next.locks \subseteq OwnOf(tx[p], reply[p]),
           tx' = [tx EXCEPT ![p] = next], Lose(p, req)
    PROVE  /\ Types' /\ Owners' /\ Waiters' /\ Frame(p, next)
           /\ fs' = fs /\ reply'[p].status = "Uncategorized"
           /\ Unpanicked => Unpanicked'
<1> DEFINE a == Reply("Uncategorized", NoInode, FALSE)
<1>1. a \in Responses /\ a.status = "Uncategorized"
    BY SomeReplies, Zenon
<1>2. /\ fs' = fs /\ lock_table' = lock_table /\ panics' = panics
      /\ reply' = [reply EXCEPT ![p] = a]
    BY DEF Lose
<1> HIDE DEF a
<1>3. /\ reply' \in [Procs -> Responses] /\ reply'[p] = a
      /\ \A q \in Procs : q # p => reply'[q] = reply[q] /\ Answered(tx[q], reply'[q])
    BY <1>1, <1>2, OneReply, Zenon
<1>4. Types'
    <2>1. Answered(next, reply'[p])
        BY <1>1, <1>3, SomeReplies, Zenon DEF Answered
    <2>2. Consistent(fs') /\ lock_table' \in [Groups -> Tables(Requests)]
        BY <1>2, Zenon DEF Types
    <2> QED
        BY <1>3, <2>1, <2>2, TypesStep, Zenon
<1>5. MovesOn(p, next)
    BY <1>3, Zenon DEF MovesOn
<1>6. \A j \in Inodes : LockIdOf(j)' = LockIdOf(j) /\ Queue(j)' = Queue(j)
    BY <1>2 DEF LockIdOf, Queue
<1>7. Owners'
    <2>1. OwnOf(next, reply'[p]) = next.locks
        BY <1>1, <1>3, Zenon DEF OwnOf
    <2> QED
        BY <1>1, <1>3, <1>5, <1>6, <2>1, OwnersStay, Zenon
<1>8. Waiters'
    BY <1>5, <1>6, WaitersStay, Zenon
<1>9. Frame(p, next)
    BY <1>2, <1>3, MovedOn, NothingKept, Zenon DEF Frame
<1>10. Unpanicked => Unpanicked'
    BY <1>1, <1>2, <1>3, Zenon DEF Unpanicked, Guarded
<1> QED
    BY <1>1, <1>2, <1>3, <1>4, <1>7, <1>8, <1>9, <1>10, Zenon

\* A request that waits
LEMMA SendWaits ==
    ASSUME Types, Owners, Waiters, NEW p \in Procs, NEW req, NEW next, reply[p] # Waiting,
           Proper(p, req, next), tx' = [tx EXCEPT ![p] = next],
           lock_table' \in [Groups -> Tables(Requests)], OthersKept(req.inode), Waits(p, req)
    PROVE  /\ Types' /\ Owners' /\ Waiters' /\ Frame(p, next)
           /\ fs' = fs /\ reply'[p] = Waiting /\ req.lock_id = NoLockId
           /\ (\A q \in Procs : reply[q].status \notin Guarded)
                => \A q \in Procs : reply'[q].status \notin Guarded
<1>1. /\ fs' = fs /\ reply' = [reply EXCEPT ![p] = Waiting] /\ req.lock_id = NoLockId
      /\ LockIdOf(req.inode)' = LockIdOf(req.inode)
      /\ Queue(req.inode)' = Append(Queue(req.inode), req) /\ req.type # "Unlock"
    BY DEF Waits
<1>2. req \in Requests /\ req.inode \in Inodes /\ req.from = p /\ next \in Transaction /\ Shape(next)
    BY RequestFields, Zenon DEF Proper
<1>3. /\ reply' \in [Procs -> Responses] /\ reply'[p] = Waiting
      /\ \A q \in Procs : q # p => reply'[q] = reply[q] /\ Answered(tx[q], reply'[q])
    BY <1>1, SomeReplies, OneReply, Zenon
<1>4. Types'
    <2>1. Answered(next, reply'[p])
        BY <1>3, SomeReplies, Zenon DEF Answered, Proper
    <2>2. Consistent(fs')
        BY <1>1, Zenon DEF Types
    <2> QED
        BY <1>2, <1>3, <2>1, <2>2, TypesStep, Zenon
<1>5. MovesOn(p, next)
    BY <1>3, Zenon DEF MovesOn
<1>6. \A j \in Inodes : LockIdOf(j)' = LockIdOf(j)
    BY <1>1 DEF OthersKept
<1>7. Owners'
    <2>1. OwnOf(next, reply'[p]) = next.locks
        BY <1>3, SomeReplies, Zenon DEF OwnOf
    <2>2. next.locks \subseteq OwnOf(tx[p], reply[p]) /\ reply'[p].status # "Ok"
        BY <1>3, SomeReplies, Zenon DEF Proper
    <2> QED
        BY <1>5, <1>6, <2>1, <2>2, OwnersStay, Zenon
<1>8. Waiters'
    <2>1. Queued(req.inode, req, next, reply'[p])
        BY <1>1, <1>3, Zenon DEF Queued, Proper
    <2> QED
        BY <1>1, <1>2, <1>5, <2>1, WaitersJoin, Zenon
<1>9. Frame(p, next)
    BY <1>1, <1>3, MovedOn, NothingKept, ZenonT(30) DEF Frame
<1> QED
    BY <1>1, <1>3, <1>4, <1>7, <1>8, <1>9, SomeReplies, Zenon DEF Guarded

\* A Lock request that gets the lock
LEMMA SendGrants ==
    ASSUME Types, Owners, Waiters, NEW p \in Procs, NEW req, NEW next, reply[p] # Waiting,
           Proper(p, req, next), tx' = [tx EXCEPT ![p] = next],
           lock_table' \in [Groups -> Tables(Requests)], OthersKept(req.inode), Grants(p, req)
    PROVE  /\ Types' /\ Owners' /\ Waiters' /\ Frame(p, next)
           /\ fs' = fs /\ req.type = "Lock"
           /\ (\A q \in Procs : reply[q].status \notin Guarded)
                => \A q \in Procs : reply'[q].status \notin Guarded
<1> DEFINE id == LockIdOf(req.inode)'
           a == Reply("Ok", id, TRUE)
<1>1. /\ fs' = fs /\ reply' = [reply EXCEPT ![p] = a] /\ req.type = "Lock"
      /\ LockIdOf(req.inode) = NoLockId /\ id \in Nat
      /\ Queue(req.inode)' = Queue(req.inode)
    BY DEF Grants
<1>2. req \in Requests /\ req.inode \in Inodes /\ req.from = p /\ next \in Transaction /\ Shape(next)
    BY RequestFields, Zenon DEF Proper
<1>3. a \in Responses /\ a.status = "Ok" /\ a.id = id
    BY <1>1, SomeReplies, Zenon
<1> HIDE DEF a
<1>4. /\ reply' \in [Procs -> Responses] /\ reply'[p] = a
      /\ \A q \in Procs : q # p => reply'[q] = reply[q] /\ Answered(tx[q], reply'[q])
    BY <1>1, <1>3, OneReply, Zenon
<1>5. next.pc \in AskPcs /\ Asked(next) = req.inode /\ next.locks \subseteq OwnOf(tx[p], reply[p])
    BY <1>1, Zenon DEF Proper
<1>6. Types'
    <2>1. Answered(next, reply'[p])
        BY <1>1, <1>3, <1>4, <1>5, Zenon DEF Answered, AskPcs
    <2>2. Consistent(fs')
        BY <1>1, Zenon DEF Types
    <2> QED
        BY <1>2, <1>4, <2>1, <2>2, TypesStep, Zenon
<1>7. MovesOn(p, next)
    BY <1>4 DEF MovesOn
<1>8. Owners'
    <2>1. OwnOf(next, reply'[p]) = next.locks \cup {<<req.inode, id>>}
        BY <1>3, <1>4, <1>5, Zenon DEF OwnOf
    <2> QED
        BY <1>1, <1>2, <1>5, <1>7, <2>1, OwnersGrant, Zenon
<1>9. Waiters'
    <2>1. \A j \in Inodes : Queue(j)' = Queue(j)
        BY <1>1 DEF OthersKept
    <2> QED
        BY <1>7, <2>1, WaitersStay, Zenon
<1>10. Frame(p, next)
    BY <1>1, <1>4, MovedOn, NothingKept, Zenon DEF Frame
<1> QED
    BY <1>1, <1>3, <1>4, <1>6, <1>8, <1>9, <1>10 DEF Guarded

\* A request that is committed: nobody else has the lock of its inode.
LEMMA SendCommits ==
    ASSUME Types, Owners, Waiters, NEW p \in Procs, NEW req, NEW next, reply[p] # Waiting,
           Proper(p, req, next), tx' = [tx EXCEPT ![p] = next],
           lock_table' \in [Groups -> Tables(Requests)], OthersKept(req.inode), Commits(p, req)
    PROVE  /\ Types' /\ Owners' /\ Waiters' /\ Frame(p, next)
           /\ req.type \notin {"Lock", "Unlock"}
           /\ fs' = CommitWrite(fs, req).fs /\ reply'[p] = CommitWrite(fs, req).reply
           /\ (\A q \in Procs : reply[q].status \notin Guarded)
                => \A q \in Procs : q # p => reply'[q].status \notin Guarded
<1> DEFINE c == CommitWrite(fs, req)
           i == req.inode
<1>1. /\ fs' = c.fs /\ reply' = [reply EXCEPT ![p] = c.reply] /\ req.type \notin {"Lock", "Unlock"}
      /\ LockIdOf(i)' = LockIdOf(i) /\ Queue(i)' = Queue(i)
      /\ req.lock_id = NoLockId => LockIdOf(i) = NoLockId
    BY DEF Commits
<1>2. req \in Requests /\ i \in Inodes /\ req.from = p /\ next \in Transaction /\ Shape(next)
    BY RequestFields, Zenon DEF Proper
<1>3. Result(fs, req, c)
    BY <1>1, <1>2, CommitWriteIs DEF Types
<1> HIDE DEF c
<1>4. Consistent(c.fs) /\ OnlyChanged(i, fs, c.fs) /\ Answers(req, c.reply) /\ c.reply \in Responses
    BY <1>3, Zenon DEF Result, Answers
<1>5. /\ reply' \in [Procs -> Responses] /\ reply'[p] = c.reply
      /\ \A q \in Procs : q # p => reply'[q] = reply[q] /\ Answered(tx[q], reply'[q])
    BY <1>1, <1>4, OneReply, Zenon
<1>6. /\ next.pc \notin AskPcs /\ next.locks \subseteq OwnOf(tx[p], reply[p])
      /\ next.pc \notin {"idle", "inode_created"} /\ (next.pc \in {"tried", "removed"} => req.type = "RemoveLink")
      /\ req.lock_id # NoLockId => <<i, req.lock_id>> \in OwnOf(tx[p], reply[p])
    BY <1>1, Zenon DEF Proper
<1>7. Types'
    <2>1. Answered(next, reply'[p])
        BY <1>4, <1>5, <1>6, Zenon DEF Answered, Answers
    <2>2. Consistent(fs')
        BY <1>1, <1>4, Zenon
    <2> QED
        BY <1>2, <1>5, <2>1, <2>2, TypesStep, Zenon
<1>8. MovesOn(p, next)
    BY <1>5, Zenon DEF MovesOn
<1>9. \A j \in Inodes : LockIdOf(j)' = LockIdOf(j) /\ Queue(j)' = Queue(j)
    BY <1>1 DEF OthersKept
<1>10. Owners'
    <2>1. OwnOf(next, reply'[p]) = next.locks
        BY <1>6, Zenon DEF OwnOf
    <2> QED
        BY <1>6, <1>8, <1>9, <2>1, OwnersStay, Zenon
<1>11. Waiters'
    BY <1>8, <1>9, WaitersStay, Zenon
<1>12. ASSUME NEW q \in Procs, q # p, NEW l \in tx[q].locks
       PROVE  Kept(l[1])
    <2>1. l \in OwnOf(tx[q], reply[q])
        BY Zenon DEF OwnOf
    <2>2. l[1] \in Inodes /\ l[2] \in Nat /\ l = <<l[1], l[2]>> /\ LockIdOf(l[1]) = l[2]
        BY <2>1, OwnIs DEF Owners
    <2>3. l[1] # i
        <3> SUFFICES ASSUME l[1] = i PROVE FALSE
            BY Zenon
        <3>1. req.lock_id # NoLockId
            BY <1>1, <2>2, LockTableAssumption, Zenon
        <3>2. LockIdOf(i) = req.lock_id
            BY <1>6, <3>1, Zenon DEF Owners
        <3>3. l \in OwnOf(tx[p], reply[p])
            BY <1>6, <2>2, <3>1, <3>2, Zenon
        <3> QED
            BY <1>12, <2>1, <3>3, Zenon DEF Owners
    <2> QED
        BY <1>1, <1>4, <2>2, <2>3, Zenon DEF Kept, OnlyChanged
<1>13. Frame(p, next)
    BY <1>5, <1>12, MovedOn, ZenonT(30) DEF Frame
<1> QED
    BY <1>1, <1>5, <1>7, <1>10, <1>11, <1>13, Zenon DEF c

\* An Unlock: the ones that are set free had no lock on the inode, and the one
\* that gets the lock has waited for it.
LEMMA SendUnlocks ==
    ASSUME Types, Owners, Waiters, NEW p \in Procs, NEW req, NEW next, reply[p] # Waiting,
           Proper(p, req, next), tx' = [tx EXCEPT ![p] = next],
           lock_table' \in [Groups -> Tables(Requests)], OthersKept(req.inode), Unlocks(p, req)
    PROVE  /\ Types' /\ Owners' /\ Waiters' /\ Frame(p, next)
           /\ req.type = "Unlock"
           /\ \A l \in next.locks : Kept(l[1])
           /\ (\A q \in Procs : reply[q].status \notin Guarded)
                => \A q \in Procs : reply'[q].status \notin Guarded
<1> DEFINE i == req.inode
           queue == Queue(i)
           own(q) == OwnOf(tx[q], reply[q])
<1>1. /\ req \in Requests /\ i \in Inodes /\ req.from = p /\ next \in Transaction /\ Shape(next)
      /\ req.type = "Unlock"
    BY RequestFields, Zenon DEF Proper, Unlocks
<1>2. /\ <<i, req.lock_id>> \in own(p) /\ <<i, req.lock_id>> \notin next.locks
      /\ next.locks \subseteq own(p)
      /\ next.pc \notin AskPcs \cup {"tried", "removed", "inode_created"}
    BY <1>1, Zenon DEF Proper
<1>3. Consistent(fs') /\ OnlyChanged(i, fs, fs')
    BY Zenon DEF Unlocks
<1>4. PICK n \in 0..Len(queue) : SetsFree(p, req, n)
    BY DEF Unlocks
<1>5. /\ Queue(i)' = SubSeq(queue, n + 1, Len(queue))
      /\ reply' \in [Procs -> Responses] /\ reply'[p] = Idle
      /\ \A k \in 1..n : Answers(queue[k], reply'[queue[k].from])
      /\ \A q \in Procs \ {p} : (\A k \in 1..n : queue[k].from # q) => reply'[q] = reply[q]
    BY <1>4, Zenon DEF SetsFree
<1>6. \/ LockIdOf(i)' = NoLockId /\ \A k \in 1..n : queue[k].type # "Lock"
      \/ /\ n > 0 /\ queue[n].type = "Lock"
         /\ reply'[queue[n].from].status = "Ok" /\ LockIdOf(i)' = reply'[queue[n].from].id
         /\ \A k \in 1..(n - 1) : queue[k].type # "Lock"
    BY <1>4, Zenon DEF SetsFree
<1>7. /\ Len(queue) \in Nat
      /\ \A k \in 1..n :
            /\ queue[k].from \in Procs \ {p} /\ reply[queue[k].from] = Waiting
            /\ Queued(i, queue[k], tx[queue[k].from], reply[queue[k].from])
    <2>1. Len(queue) \in Nat
        BY <1>1, QueueIs, Zenon
    <2> SUFFICES ASSUME NEW k \in 1..n
                 PROVE  /\ queue[k].from \in Procs \ {p} /\ reply[queue[k].from] = Waiting
                        /\ Queued(i, queue[k], tx[queue[k].from], reply[queue[k].from])
        BY <2>1, Zenon
    <2>2. k \in 1..Len(queue)
        BY <2>1, FirstPlaces, Zenon
    <2>3. queue[k].from \in Procs /\ reply[queue[k].from] = Waiting
        BY <1>1, <2>2, QueueIs, Zenon
    <2>4. Queued(i, queue[k], tx[queue[k].from], reply[queue[k].from])
        BY <1>1, <2>2, Zenon DEF Waiters
    <2> QED
        BY <2>3, <2>4, Zenon
<1> HIDE DEF queue
<1>8. ASSUME NEW q \in Procs, q # p
      PROVE  \/ reply'[q] = reply[q]
             \/ \E k \in 1..n : queue[k].from = q
    BY <1>5, <1>8, Zenon
<1>9. ASSUME NEW k \in 1..n, NEW q, q = queue[k].from
      PROVE  /\ reply[q] = Waiting /\ reply'[q].status \notin Guarded
             /\ Answered(tx[q], reply'[q])
             /\ tx[q].op.type = "rename" => tx[q].pc \in AskPcs
             /\ queue[k].type # "Lock" => tx[q].pc \notin AskPcs
             /\ queue[k].type = "Lock" => tx[q].pc \in AskPcs /\ Asked(tx[q]) = i
    <2>1. Queued(i, queue[k], tx[q], reply[q]) /\ Answers(queue[k], reply'[q]) /\ reply[q] = Waiting
        BY <1>5, <1>7, <1>9, Zenon
    <2> QED
        BY <2>1, Zenon DEF Queued, Answers, Answered
<1>10. Types'
    <2>1. Answered(next, reply'[p])
        BY <1>2, <1>5, Zenon DEF Answered, Proper
    <2>2. ASSUME NEW q \in Procs, q # p
          PROVE  Answered(tx[q], reply'[q])
        <3>1. CASE reply'[q] = reply[q]
            BY <3>1, Zenon DEF Types
        <3>2. CASE \E k \in 1..n : queue[k].from = q
            BY <1>9, <3>2, Zenon
        <3> QED
            BY <1>8, <2>2, <3>1, <3>2, Zenon
    <2> QED
        BY <1>1, <1>3, <1>5, <2>1, <2>2, TypesStep, Zenon
<1>11. Owners'
    <2> DEFINE w == IF LockIdOf(i)' = NoLockId THEN {} ELSE {queue[n].from}
    <2>1. LockIdOf(i)' # NoLockId =>
            /\ queue[n].type = "Lock" /\ queue[n].from \in Procs \ {p}
            /\ n \in 1..n /\ \A k \in 1..n : k # n => k \in 1..(n - 1)
            /\ reply'[queue[n].from].status = "Ok" /\ LockIdOf(i)' = reply'[queue[n].from].id
            /\ \A k \in 1..(n - 1) : queue[k].type # "Lock"
        <3> SUFFICES ASSUME LockIdOf(i)' # NoLockId
                     PROVE  /\ queue[n].type = "Lock" /\ queue[n].from \in Procs \ {p}
                            /\ n \in 1..n /\ \A k \in 1..n : k # n => k \in 1..(n - 1)
                            /\ reply'[queue[n].from].status = "Ok"
                            /\ LockIdOf(i)' = reply'[queue[n].from].id
                            /\ \A k \in 1..(n - 1) : queue[k].type # "Lock"
            BY Zenon
        <3>1. n > 0
            BY <1>6, Zenon
        <3>2. n \in 1..n /\ \A k \in 1..n : k # n => k \in 1..(n - 1)
            BY <1>7, <3>1, LastPlace, Zenon
        <3> QED
            BY <1>6, <1>7, <3>2, Zenon
    <2>2. w \in SUBSET Procs /\ p \notin w /\ \A q, r \in w : q = r
        BY <2>1, Zenon
    <2>3. ASSUME NEW q \in Procs \ {p}, q \notin w
          PROVE  /\ reply'[q] = reply[q] \/ tx[q].pc \notin AskPcs
                 /\ OwnOf(tx[q], reply'[q]) = OwnOf(tx[q], reply[q])
        <3>1. CASE reply'[q] = reply[q]
            BY <3>1, Zenon
        <3>2. CASE \E k \in 1..n : queue[k].from = q
            <4>1. PICK k \in 1..n : queue[k].from = q
                BY <3>2, Zenon
            <4>2. queue[k].type # "Lock"
                <5>1. CASE LockIdOf(i)' = NoLockId
                    <6>1. \A m \in 1..n : reply'[queue[m].from].status = "Ok" /\ queue[m].type = "Lock"
                                => reply'[queue[m].from].id \in Nat
                        BY <1>5, Zenon DEF Answers
                    <6>2. \A m \in 1..n : queue[m].type # "Lock"
                        <7> SUFFICES ASSUME n > 0, queue[n].type = "Lock",
                                            reply'[queue[n].from].status = "Ok",
                                            LockIdOf(i)' = reply'[queue[n].from].id
                                     PROVE  FALSE
                            BY <1>6, Zenon
                        <7>1. n \in 1..n
                            BY <1>7, LastPlace, Zenon
                        <7> QED
                            BY <5>1, <6>1, <7>1, LockTableAssumption, Zenon
                    <6> QED
                        BY <6>2, Zenon
                <5>2. CASE LockIdOf(i)' # NoLockId
                    <6>1. k # n
                        BY <2>3, <4>1, <5>2, Zenon
                    <6>2. k \in 1..(n - 1)
                        BY <2>1, <5>2, <6>1, Zenon
                    <6> QED
                        BY <2>1, <5>2, <6>2, Zenon
                <5> QED
                    BY <5>1, <5>2, Zenon
            <4>3. tx[q].pc \notin AskPcs
                BY <1>9, <4>1, <4>2, Zenon
            <4> QED
                BY <4>3, Zenon DEF OwnOf
        <3> QED
            BY <1>8, <3>1, <3>2, Zenon
    <2>4. ASSUME NEW q \in w
          PROVE  /\ OwnOf(tx[q], reply'[q]) = tx[q].locks \cup {<<i, LockIdOf(i)'>>}
                 /\ Asked(tx[q]) = i
        <3>1. /\ q = queue[n].from /\ n \in 1..n /\ queue[n].type = "Lock"
              /\ reply'[q].status = "Ok" /\ LockIdOf(i)' = reply'[q].id
            BY <2>1, <2>4, Zenon
        <3>2. tx[q].pc \in AskPcs /\ Asked(tx[q]) = i
            BY <1>9, <3>1, ZenonT(30)
        <3> QED
            BY <3>1, <3>2, Zenon DEF OwnOf
    <2> HIDE DEF w
    <2>5. next.pc \notin AskPcs
        BY <1>2
    <2> QED
        <3>1. /\ \A q \in Procs \ {p} : q \notin w => OwnOf(tx[q], reply'[q]) = OwnOf(tx[q], reply[q])
              /\ \A q \in Procs \ {p} : q \notin w => reply'[q] = reply[q] \/ tx[q].pc \notin AskPcs
            BY <2>3, Zenon
        <3>2. \A q \in w : /\ OwnOf(tx[q], reply'[q]) = tx[q].locks \cup {<<i, LockIdOf(i)'>>}
                          /\ Asked(tx[q]) = i
            BY <2>4, Zenon
        <3>3. /\ OthersKept(i) /\ i \in Inodes /\ <<i, req.lock_id>> \in OwnOf(tx[p], reply[p])
              /\ <<i, req.lock_id>> \notin next.locks /\ next.locks \subseteq OwnOf(tx[p], reply[p])
            BY <1>1, <1>2, Zenon
        <3> HIDE DEF i
        <3> QED
            BY <2>2, <2>5, <3>1, <3>2, <3>3, OwnersPass, Zenon
<1>12. Waiters'
    BY <1>1, <1>4, <1>5, WaitersLeave, Zenon DEF queue
<1>13. ASSUME NEW q \in Procs, NEW l \in own(q), q = p => l # <<i, req.lock_id>>
       PROVE  Kept(l[1])
    <2>1. l[1] \in Inodes /\ l[2] \in Nat /\ l = <<l[1], l[2]>> /\ LockIdOf(l[1]) = l[2]
        BY <1>13, OwnLock, Zenon
    <2>2. LockIdOf(i) = req.lock_id
        BY <1>2, Zenon DEF Owners
    <2>3. l # <<i, req.lock_id>>
        BY <1>2, <1>13, Zenon DEF Owners
    <2>4. l[1] # i
        BY <2>1, <2>2, <2>3, Zenon
    <2> QED
        BY <1>3, <2>1, <2>4, Zenon DEF Kept, OnlyChanged
<1>14. \A l \in next.locks : Kept(l[1])
    BY <1>2, <1>13, Zenon
<1>15. Frame(p, next)
    <2>1. tx'[p] = next /\ \A q \in Procs : q # p => tx'[q] = tx[q]
        BY MovedOn, Zenon
    <2>2. \A q \in Procs : q # p => \A l \in tx[q].locks : Kept(l[1])
        <3>1. \A q \in Procs : tx[q].locks \subseteq own(q)
            BY Zenon DEF OwnOf
        <3> QED
            BY <1>13, <3>1, Zenon
    <2>3. \A q \in Procs : q # p =>
            \/ reply'[q] = reply[q]
            \/ /\ reply[q] = Waiting /\ reply'[q].status \notin Guarded
               /\ tx[q].op.type = "rename" => tx[q].pc \in AskPcs
        BY <1>8, <1>9, ZenonT(30)
    <2> QED
        BY <2>1, <2>2, <2>3, Zenon DEF Frame
<1>16. reply'[p].status \notin Guarded
    BY <1>5, SomeReplies, Zenon DEF Guarded
<1> QED
    BY <1>1, <1>8, <1>9, <1>10, <1>11, <1>12, <1>14, <1>15, <1>16, Zenon

\* What proposing or losing a request keeps: the locks have one owner, a
\* transaction waits in one place, what the others have locked stays as it is,
\* and no request names a lock that is not held.
LEMMA SendKeeps ==
    ASSUME LockTableFacts, Types, Owners, Waiters, NEW p \in Procs, NEW req, NEW next,
           reply[p] # Waiting,
           Proper(p, req, next), Send(p, req, next)
    PROVE  /\ Types' /\ Owners' /\ Waiters' /\ Frame(p, next) /\ Outcome(p, req, next)
           /\ /\ Unpanicked
              /\ req.type \in {"ReplaceLink", "UpdateParent"}
                    => CommitWrite(fs, req).reply.status \notin Guarded
              => Unpanicked'
<1> DEFINE Fine == req.type \in {"ReplaceLink", "UpdateParent"}
                        => CommitWrite(fs, req).reply.status \notin Guarded
<1>1. /\ req \in Requests /\ req.from = p /\ next \in Transaction /\ Shape(next)
      /\ next.locks \subseteq OwnOf(tx[p], reply[p])
      /\ req.type = "Lock" => req.lock_id = NoLockId
    BY Zenon DEF Proper
<1>2. tx' = [tx EXCEPT ![p] = next] /\ (Propose(p, req) \/ Lose(p, req))
    BY DEF Send
<1>3. CASE Lose(p, req)
    <2>1. /\ Types' /\ Owners' /\ Waiters' /\ Frame(p, next)
          /\ fs' = fs /\ reply'[p].status = "Uncategorized"
          /\ Unpanicked => Unpanicked'
        BY <1>1, <1>2, <1>3, SendLost, Zenon
    <2>2. Outcome(p, req, next)
        BY <2>1, NothingKept, Zenon DEF Outcome, Guarded
    <2> QED
        BY <2>1, <2>2
<1>4. CASE Propose(p, req)
    <2>1. /\ lock_table' \in [Groups -> Tables(Requests)]
          /\ OthersKept(req.inode)
          /\ Waits(p, req) \/ Grants(p, req) \/ Commits(p, req) \/ Unlocks(p, req)
        BY <1>1, <1>4, ProposeIs, Zenon
    <2> DEFINE Unguarded == (\A q \in Procs : reply[q].status \notin Guarded) /\ Fine
                                => \A q \in Procs : reply'[q].status \notin Guarded
    <2>2. /\ Types' /\ Owners' /\ Waiters' /\ Frame(p, next) /\ Outcome(p, req, next)
          /\ Unguarded
        <3>1. CASE Waits(p, req)
            <4>1. /\ Types' /\ Owners' /\ Waiters' /\ Frame(p, next) /\ Unguarded
                  /\ fs' = fs /\ reply'[p] = Waiting
                BY <1>2, <2>1, <3>1, SendWaits, Zenon
            <4>2. Outcome(p, req, next)
                BY <4>1, NothingKept, SomeReplies, Zenon DEF Outcome, Guarded
            <4> QED
                BY <4>1, <4>2, Zenon
        <3>2. CASE Grants(p, req)
            <4>1. /\ Types' /\ Owners' /\ Waiters' /\ Frame(p, next) /\ Unguarded
                  /\ fs' = fs /\ req.type = "Lock"
                BY <1>2, <2>1, <3>2, SendGrants, Zenon
            <4>2. Outcome(p, req, next)
                BY <4>1, Zenon DEF Outcome
            <4> QED
                BY <4>1, <4>2, Zenon
        <3>3. CASE Commits(p, req)
            <4>1. /\ Types' /\ Owners' /\ Waiters' /\ Frame(p, next)
                  /\ req.type \notin {"Lock", "Unlock"}
                  /\ fs' = CommitWrite(fs, req).fs /\ reply'[p] = CommitWrite(fs, req).reply
                  /\ (\A q \in Procs : reply[q].status \notin Guarded)
                        => \A q \in Procs : q # p => reply'[q].status \notin Guarded
                BY <1>2, <2>1, <3>3, SendCommits, Zenon
            <4>2. Result(fs, req, CommitWrite(fs, req)) /\ Effect(fs, req, CommitWrite(fs, req))
                BY <1>1, <4>1, CommitWriteIs, Zenon DEF Types
            <4>3. Outcome(p, req, next) /\ Answers(req, CommitWrite(fs, req).reply)
                BY <4>1, <4>2, Zenon DEF Outcome, Result
            <4>4. Unguarded
                BY <4>1, <4>3, Zenon DEF Answers
            <4> QED
                BY <4>1, <4>3, <4>4, Zenon
        <3>4. CASE Unlocks(p, req)
            <4>1. /\ Types' /\ Owners' /\ Waiters' /\ Frame(p, next) /\ Unguarded
                  /\ req.type = "Unlock"
                  /\ \A l \in next.locks : Kept(l[1])
                BY <1>2, <2>1, <3>4, SendUnlocks, Zenon
            <4>2. Outcome(p, req, next)
                BY <4>1, Zenon DEF Outcome
            <4> QED
                BY <4>1, <4>2, Zenon
        <3> QED
            BY <2>1, <3>1, <3>2, <3>3, <3>4, Zenon
    <2>3. LockIdIsCurrent(lock_table[req.group], req)
        <3>1. req.lock_id # NoLockId => LockIdOf(req.inode) = req.lock_id
            BY Zenon DEF Proper, Owners
        <3> QED
            BY <1>1, <3>1, RequestFields, Zenon DEF LockIdIsCurrent, LockIdOf
    <2>4. panics' = panics \cup {s \in Panics : \E q \in Procs : reply'[q].status = s}
        BY <1>4, <2>3, Zenon DEF Propose
    <2>5. Unpanicked /\ Fine => Unpanicked'
        BY <2>2, <2>4, Zenon DEF Unpanicked
    <2> QED
        BY <2>2, <2>5, Zenon
<1> QED
    BY <1>2, <1>3, <1>4

\* A request for a new inode, which no lock holds up
LEMMA SendCreate ==
    ASSUME LockTableFacts, Types, Owners, Waiters, NEW p \in Procs, NEW req \in Creations,
           NEW next \in Transaction,
           reply[p] # Waiting, req.from = p, fs.next_inode[req.group] \in Inodes,
           Shape(next), next.pc = "inode_created", next.locks \subseteq OwnOf(tx[p], reply[p]),
           Send(p, req, next)
    PROVE  /\ Types' /\ Owners' /\ Waiters' /\ Frame(p, next)
           /\ Unpanicked => Unpanicked'
<1>1. tx' = [tx EXCEPT ![p] = next] /\ (Propose(p, req) \/ Lose(p, req))
    BY DEF Send
<1>2. CASE Lose(p, req)
    BY <1>1, <1>2, SendLost, Zenon
<1>3. CASE Propose(p, req)
    <2> DEFINE lt == lock_table[req.group]
               start == Before(p, Waiting)
               c == CreateInode(fs, req)
               id == fs.next_inode[req.group]
    <2>1. /\ req.group \in Groups /\ req.type = "CreateInode" /\ req.inode = NoInode
          /\ req.lock_id = NoLockId
        BY Zenon DEF Creations
    <2>2. /\ Consistent(c.fs) /\ OnlyChanged(NoInode, fs, c.fs) /\ c.reply = Reply("Ok", id, TRUE)
        BY CreateInodeIs, Zenon DEF Types
    <2>3. ToProcess(lt, req) = <<req>> /\ GrantedTo(lt, req) = {} /\ TableAfter(lt, req) = lt
        BY <2>1 DEF ToProcess, GrantedTo, TableAfter, IsLocked
    <2>4. CommitWrite(fs, req) = c
        BY <2>1 DEF CommitWrite
    <2> HIDE DEF c
    <2>5. fs' = c.fs /\ reply' = [reply EXCEPT ![p] = c.reply]
        <3>1. start.fs = fs /\ start.reply = [reply EXCEPT ![p] = Waiting]
            BY Zenon DEF Before
        <3>2. reply \in [Procs -> Responses]
            BY Zenon DEF Types
        <3>3. Serves(<<req>>, {}, lt.next_id, start)
            BY <1>3, <2>1, <2>3, Zenon DEF Propose, Serves, Before
        <3>4. fs' = Commit(start, req).fs /\ reply' = [q \in Procs |-> Commit(start, req).reply[q]]
            BY <3>3, OneToCommit, Zenon DEF Serves
        <3>5. /\ Commit(start, req).fs = c.fs
              /\ Commit(start, req).reply = [start.reply EXCEPT ![p] = c.reply]
            BY <2>4, <3>1, Zenon DEF Commit
        <3> QED
            BY <3>1, <3>2, <3>4, <3>5, Zenon
    <2>6. lock_table' = lock_table
        BY <1>3, <2>1, <2>3, Zenon DEF Propose, Types
    <2>7. id \in Nat /\ c.reply \in Responses /\ c.reply.status = "Ok" /\ c.reply.id = id
        BY <2>2, SomeReplies, TransactionsAssumption, Zenon
    <2>8. /\ reply' \in [Procs -> Responses] /\ reply'[p] = c.reply
          /\ \A q \in Procs : q # p => reply'[q] = reply[q] /\ Answered(tx[q], reply'[q])
        BY <2>5, <2>7, OneReply, Zenon
    <2>9. Types'
        <3>1. Answered(next, reply'[p])
            BY <2>7, <2>8, Zenon DEF Answered, AskPcs
        <3>2. lock_table' \in [Groups -> Tables(Requests)] /\ Consistent(fs')
            BY <2>2, <2>5, <2>6, Zenon DEF Types
        <3> QED
            BY <1>1, <2>8, <3>1, <3>2, TypesStep, Zenon
    <2>10. MovesOn(p, next)
        BY <1>1, <2>8, ZenonT(30) DEF MovesOn
    <2>11. \A j \in Inodes : LockIdOf(j)' = LockIdOf(j) /\ Queue(j)' = Queue(j)
        BY <2>6 DEF LockIdOf, Queue
    <2>12. Owners'
        <3>1. OwnOf(next, reply'[p]) = next.locks /\ next.pc \notin AskPcs
            BY Zenon DEF OwnOf, AskPcs
        <3> QED
            BY <2>10, <2>11, <3>1, OwnersStay, Zenon
    <2>13. Waiters'
        BY <2>10, <2>11, WaitersStay, Zenon
    <2>14. Frame(p, next)
        <3>1. \A i \in Inodes : Kept(i)
            BY <2>2, <2>5, LockTableAssumption, Zenon DEF Kept, OnlyChanged
        <3>2. \A q \in Procs : \A l \in tx[q].locks : l[1] \in Inodes
            <4> SUFFICES ASSUME NEW q \in Procs, NEW l \in tx[q].locks PROVE l[1] \in Inodes
                BY Zenon
            <4>1. tx[q] \in Transaction
                BY Zenon DEF Types
            <4>2. l \in Inodes \X Nat
                BY <4>1, TransactionFields, Zenon
            <4> QED
                BY <4>2, PairIs, Zenon
        <3> QED
            <4>1. \A q \in Procs : \A l \in tx[q].locks : Kept(l[1])
                BY <3>1, <3>2, Zenon
            <4>2. tx'[p] = next /\ \A q \in Procs : q # p => tx'[q] = tx[q]
                BY <1>1, MovedOn, Zenon
            <4> QED
                BY <2>8, <4>1, <4>2, Zenon DEF Frame
    <2>15. Unpanicked => Unpanicked'
        <3>1. LockIdIsCurrent(lt, req)
            BY <2>1, Zenon DEF LockIdIsCurrent
        <3>2. panics' = panics \cup {s \in Panics : \E q \in Procs : reply'[q].status = s}
            BY <1>3, <3>1, Zenon DEF Propose
        <3>3. Unpanicked => \A q \in Procs : reply'[q].status \notin Guarded
            BY <2>7, <2>8, Zenon DEF Unpanicked, Guarded
        <3> QED
            BY <3>2, <3>3, Zenon DEF Unpanicked
    <2> QED
        BY <2>9, <2>12, <2>13, <2>14, <2>15, Zenon
<1> QED
    BY <1>1, <1>2, <1>3, Zenon

\* A step of the transaction alone
LEMMA LocalKeeps ==
    ASSUME Types, Owners, Waiters, NEW p \in Procs, NEW next \in Transaction, reply[p] # Waiting,
           Shape(next), next.pc \notin AskPcs \cup {"tried", "removed", "inode_created", "idle"},
           next.locks \subseteq OwnOf(tx[p], reply[p]), Local(p, next)
    PROVE  /\ Types' /\ Owners' /\ Waiters' /\ Frame(p, next)
           /\ fs' = fs
           /\ Unpanicked => Unpanicked'
<1>1. /\ tx' = [tx EXCEPT ![p] = next]
      /\ fs' = fs /\ lock_table' = lock_table /\ reply' = reply /\ panics' = panics
    BY DEF Local
<1>2. Types'
    <2>1. /\ Consistent(fs') /\ lock_table' \in [Groups -> Tables(Requests)]
          /\ reply' \in [Procs -> Responses] /\ \A q \in Procs : q # p => Answered(tx[q], reply'[q])
        BY <1>1, Zenon DEF Types
    <2>2. Answered(next, reply'[p])
        BY Zenon DEF Answered
    <2> QED
        BY <1>1, <2>1, <2>2, TypesStep, Zenon
<1>3. MovesOn(p, next)
    BY <1>1, Zenon DEF MovesOn
<1>4. \A j \in Inodes : LockIdOf(j)' = LockIdOf(j) /\ Queue(j)' = Queue(j)
    BY <1>1 DEF LockIdOf, Queue
<1>5. Owners'
    <2>1. OwnOf(next, reply'[p]) = next.locks /\ next.pc \notin AskPcs
        BY Zenon DEF OwnOf
    <2> QED
        BY <1>3, <1>4, <2>1, OwnersStay, Zenon
<1>6. Waiters'
    BY <1>3, <1>4, WaitersStay
<1>7. Frame(p, next)
    BY <1>1, MovedOn, NothingKept, Zenon DEF Frame
<1> QED
    BY <1>1, <1>2, <1>5, <1>6, <1>7, ZenonT(30) DEF Unpanicked

\* A coordinator that stops: its locks and its requests stay in the tables.
LEMMA StopKeeps ==
    ASSUME TxInv, NEW p \in Procs, Stop(p)
    PROVE  TxInv'
<1> DEFINE next == [tx[p] EXCEPT !.crashed = TRUE]
<1>1. tx' = [tx EXCEPT ![p] = next]
    BY DEF Stop, Local
<1>2. fs' = fs /\ lock_table' = lock_table /\ reply' = reply /\ panics' = panics
    BY Zenon DEF Stop, Local
<1>3. tx[p] \in Transaction /\ Shape(tx[p]) /\ Answered(tx[p], reply[p])
    BY DEF TxInv, Types
<1>4. /\ next \in Transaction
      /\ next.op = tx[p].op /\ next.pc = tx[p].pc /\ next.inode = tx[p].inode
      /\ next.dest = tx[p].dest /\ next.attrs = tx[p].attrs /\ next.locks = tx[p].locks
      /\ next.result = tx[p].result
    BY <1>3, Zenon DEF Transaction
<1> HIDE DEF next
<1>5. tx'[p] = next /\ \A q \in Procs : q # p => tx'[q] = tx[q]
    BY <1>1, MovedOn, Zenon DEF TxInv
<1>6. Asked(next) = Asked(tx[p]) /\ OwnOf(next, reply[p]) = OwnOf(tx[p], reply[p])
    <2>1. Asked(next) = Asked(tx[p])
        BY <1>4 DEF Asked
    <2> QED
        BY <1>4, <2>1 DEF OwnOf
<1>7. Shape(next) /\ Answered(next, reply[p])
    BY <1>3, <1>4, Zenon DEF Shape, Answered
<1>8. Types'
    <2>1. /\ Types /\ Consistent(fs') /\ lock_table' \in [Groups -> Tables(Requests)]
          /\ reply' \in [Procs -> Responses]
          /\ \A q \in Procs : q # p => Answered(tx[q], reply'[q])
        BY <1>2 DEF TxInv, Types
    <2> QED
        BY <1>1, <1>2, <1>4, <1>7, <2>1, TypesStep, ZenonT(30)
<1>9. \A q \in Procs : /\ tx'[q].pc = tx[q].pc /\ Asked(tx'[q]) = Asked(tx[q])
                       /\ tx'[q].locks = tx[q].locks /\ tx'[q].op = tx[q].op
                       /\ OwnOf(tx'[q], reply'[q]) = OwnOf(tx[q], reply[q])
    BY <1>2, <1>4, <1>5, <1>6, Zenon
<1>10. \A j \in Inodes : LockIdOf(j)' = LockIdOf(j) /\ Queue(j)' = Queue(j)
    BY <1>2, Zenon DEF LockIdOf, Queue
<1>11. Owners'
    <2>1. \A q \in Procs : \A l \in OwnOf(tx[q], reply[q]) : l[1] \in Inodes
        BY OwnIs, Zenon DEF TxInv
    <2> QED
        BY <1>2, <1>9, <1>10, <2>1, ZenonT(30) DEF TxInv, Owners
<1>12. Waiters'
    <2>1. ASSUME NEW i \in Inodes, NEW k \in 1..Len(Queue(i))
          PROVE  Queued(i, Queue(i)[k], tx'[Queue(i)[k].from], reply'[Queue(i)[k].from])
        <3>1. Queue(i)[k].from \in Procs
            BY <2>1, QueueIs, Zenon DEF TxInv
        <3>2. Queued(i, Queue(i)[k], tx[Queue(i)[k].from], reply[Queue(i)[k].from])
            BY <2>1, Zenon DEF TxInv, Waiters
        <3> QED
            BY <1>2, <1>9, <3>1, <3>2, Zenon DEF Queued
    <2>2. \A i, j \in Inodes : \A k \in 1..Len(Queue(i)), l \in 1..Len(Queue(j)) :
                Queue(i)[k].from = Queue(j)[l].from => i = j /\ k = l
        BY Zenon DEF TxInv, Waiters
    <2>3. \A i : Queue(i)' = Queue(i)
        BY <1>2 DEF Queue
    <2> QED
        BY <2>1, <2>2, <2>3, ZenonT(30) DEF Waiters
<1>13. Renames'
    <2>1. tx[p].op.type = "rename" => Renaming(tx[p], reply[p], fs)
        BY DEF TxInv, Renames
    <2>2. tx[p].op.type = "rename" => Renaming(next, reply[p], fs)
        BY <1>4, <2>1, ZenonT(30) DEF Renaming, Has, OldName, NewName, Seen
    <2> QED
        BY <1>2, <1>4, <1>5, <2>2 DEF TxInv, Renames
<1>14. Unpanicked'
    BY <1>2 DEF TxInv, Unpanicked
<1> QED
    BY <1>8, <1>11, <1>12, <1>13, <1>14, Zenon DEF TxInv

------------------------------------------------------------------------------
(***************************************************************************)
(* What the renames know through a step of another transaction             *)
(***************************************************************************)
\* What a rename knows stays true while what it has locked stays as it is.
LEMMA RenamingKept ==
    ASSUME NEW t \in Transaction, Shape(t), t.op.type = "rename", NEW a, NEW b,
           Renaming(t, a, fs), \A l \in t.locks : Kept(l[1]), b = a \/ t.pc \in AskPcs
    PROVE  Renaming(t, b, fs')
<1>1. \A i : Has(t, i) => Kept(i)
    BY DEF Has
<1>2. t.pc # "idle"
    BY Zenon DEF Shape
<1>3. t.op \in Operations
    BY <1>2 DEF Shape
<1>4. t.op.name \in Names /\ t.op.new_name \in Names
    BY <1>3, OperationFields, Zenon
<1>5. Has(t, t.op.parent) => OldName(t, fs') = OldName(t, fs)
    BY <1>1, <1>4, Zenon DEF Kept, OldName
<1>6. Has(t, t.op.new_parent) => NewName(t, fs') = NewName(t, fs)
    BY <1>1, <1>4, Zenon DEF Kept, NewName
<1>7. Has(t, t.inode) /\ Seen(t, fs) => Seen(t, fs')
    BY <1>1, Zenon DEF Kept, Seen, Exists
<1>8. t.pc \in {"linked", "replaced", "old_removed"} => b = a
    BY Zenon DEF AskPcs
<1> QED
    BY <1>5, <1>6, <1>7, <1>8, ZenonT(30) DEF Renaming, RenamePcs, AskPcs

\* What the others know is about what they have locked.
LEMMA RenamesKept ==
    ASSUME TxInv, NEW p \in Procs, NEW next, Frame(p, next),
           next.op.type = "rename" => Renaming(next, reply'[p], fs')
    PROVE  Renames'
<1>1. ASSUME NEW q \in Procs, q # p, tx[q].op.type = "rename"
      PROVE  Renaming(tx[q], reply'[q], fs')
    <2>1. tx[q] \in Transaction /\ Shape(tx[q]) /\ Renaming(tx[q], reply[q], fs)
        BY <1>1, Zenon DEF TxInv, Types, Renames
    <2>2. (\A l \in tx[q].locks : Kept(l[1])) /\ (reply'[q] = reply[q] \/ tx[q].pc \in AskPcs)
        BY <1>1, Zenon DEF Frame
    <2> QED
        BY <1>1, <2>1, <2>2, RenamingKept, Zenon
<1>2. tx'[p] = next /\ \A q \in Procs : q # p => tx'[q] = tx[q]
    BY DEF Frame
<1> QED
    BY <1>1, <1>2 DEF Renames

\* A request of a transaction keeps the invariant.
LEMMA SendInv ==
    ASSUME LockTableFacts, TxInv, NEW p \in Procs, NEW req, NEW next, SendMove(p, req, next)
    PROVE  TxInv'
<1>1. Types /\ Owners /\ Waiters /\ Unpanicked
    BY DEF TxInv
<1>2. /\ reply[p] # Waiting /\ Proper(p, req, next) /\ Send(p, req, next)
      /\ next.op.type = "rename" /\ Outcome(p, req, next) => Renaming(next, reply'[p], fs')
      /\ req.type \in {"ReplaceLink", "UpdateParent"} /\ Effect(fs, req, CommitWrite(fs, req))
            => CommitWrite(fs, req).reply.status \notin Guarded
    BY Zenon DEF SendMove
<1>3. req.type \in {"ReplaceLink", "UpdateParent"} => Effect(fs, req, CommitWrite(fs, req))
    BY <1>1, <1>2, CommitWriteIs, Zenon DEF Types, Proper
<1>4. Types' /\ Owners' /\ Waiters' /\ Frame(p, next) /\ Outcome(p, req, next) /\ Unpanicked'
    BY <1>1, <1>2, <1>3, SendKeeps, Zenon
<1>5. Renames'
    BY <1>2, <1>4, RenamesKept, Zenon
<1> QED
    BY <1>4, <1>5 DEF TxInv

\* The same for the request for a new inode, and for a step of the transaction
\* alone
LEMMA CreateInv ==
    ASSUME LockTableFacts, TxInv, NEW p \in Procs, NEW req, NEW next, CreateMove(p, req, next)
    PROVE  TxInv'
<1>1. Types /\ Owners /\ Waiters /\ Unpanicked
    BY DEF TxInv
<1>2. Types' /\ Owners' /\ Waiters' /\ Frame(p, next) /\ Unpanicked'
    BY <1>1, SendCreate DEF CreateMove
<1>3. Renames'
    BY <1>2, RenamesKept, Zenon DEF CreateMove
<1> QED
    BY <1>2, <1>3, Zenon DEF TxInv

\* A local step keeps the invariant when its next state keeps to the locks
\* that it owns.
LEMMA LocalInv ==
    ASSUME TxInv, NEW p \in Procs, NEW next, LocalMove(p, next)
    PROVE  TxInv'
<1>1. Types /\ Owners /\ Waiters /\ Unpanicked
    BY Zenon DEF TxInv
<1>2. Types' /\ Owners' /\ Waiters' /\ Frame(p, next) /\ Unpanicked' /\ fs' = fs
    BY <1>1, LocalKeeps, Zenon DEF LocalMove
<1>3. reply' = reply
    BY Zenon DEF LocalMove, Local
<1>4. Renames'
    BY <1>2, <1>3, RenamesKept, Zenon DEF LocalMove
<1> QED
    BY <1>2, <1>4, Zenon DEF TxInv

\* So does a read that fails.
LEMMA FailInv ==
    ASSUME TxInv, NEW p \in Procs, NEW read, NEW next, FailMove(p, read, next)
    PROVE  TxInv'
<1>1. Types /\ Owners /\ Waiters /\ Unpanicked
    BY Zenon DEF TxInv
<1>2. /\ reply[p] # Waiting /\ next \in Transaction /\ Shape(next)
      /\ next.locks \subseteq OwnOf(tx[p], reply[p])
      /\ next.op.type = "rename" => Renaming(next, Failure, fs)
      /\ tx' = [tx EXCEPT ![p] = next] /\ Lose(p, [type |-> read])
    BY Zenon DEF FailMove, LoseRead
<1>3. Types' /\ Owners' /\ Waiters' /\ Frame(p, next) /\ Unpanicked' /\ fs' = fs
    BY <1>1, <1>2, SendLost, Zenon
<1>4. reply'[p] = Failure
    <2>1. reply \in [Procs -> Responses] /\ reply' = [reply EXCEPT ![p] = Failure]
        BY <1>1, <1>2, Zenon DEF Types, Lose, Failure
    <2> QED
        BY <2>1, Zenon
<1>5. Renames'
    BY <1>2, <1>3, <1>4, RenamesKept, Zenon
<1> QED
    BY <1>3, <1>5, Zenon DEF TxInv

\* An assertion that the locks do not guard
LEMMA PanicInv ==
    ASSUME TxInv, NEW p, NEW assertion, PanicMove(p, assertion)
    PROVE  TxInv'
<1>1. /\ panics' = panics \cup {assertion}
      /\ fs' = fs /\ lock_table' = lock_table /\ tx' = tx /\ reply' = reply
      /\ assertion \notin Guarded
    BY DEF PanicMove, Panic
<1>2. Types' /\ Renames'
    BY <1>1, Zenon DEF TxInv, Types, Renames
<1>3. Owners' /\ Waiters'
    <2>1. Owners'
        BY <1>1, Zenon DEF TxInv, Owners, LockIdOf
    <2>2. \A i : Queue(i)' = Queue(i)
        BY <1>1 DEF Queue
    <2>3. Waiters'
        BY <1>1, <2>2, ZenonT(30) DEF TxInv, Waiters
    <2> QED
        BY <2>1, <2>3
<1>4. Unpanicked'
    BY <1>1 DEF TxInv, Unpanicked
<1> QED
    BY <1>2, <1>3, <1>4, Zenon DEF TxInv

\* Every move keeps the invariant, and none changes what the transactions are
\* asked for.
LEMMA MovesKeepInv ==
    ASSUME LockTableFacts, TxInv, NEW p \in Procs, Move(p)
    PROVE  TxInv' /\ workload' = workload
<1>1. TxInv'
    BY SendInv, CreateInv, LocalInv, FailInv, PanicInv, StopKeeps DEF Move
<1>2. workload' = workload
    BY ZenonT(30) DEF Move, SendMove, CreateMove, LocalMove, FailMove, PanicMove, Send, LoseRead, Local, Panic, Stop
<1> QED
    BY <1>1, <1>2

==============================================================================
