----------------------------- MODULE FileReplicas -----------------------------
(***************************************************************************)
(* One file on the replicas of a group that apply the decided commands at  *)
(* their own pace, while a node reads it (Request::Read in                 *)
(* src/storage/message_handlers/router.rs, read of                         *)
(* src/storage/local/data_storage.rs) or checks the file system (fsck in   *)
(* src/storage/message_handlers/fsck_handler.rs).                          *)
(*                                                                         *)
(* A read waits for its own replica to catch up, reads the local blocks,   *)
(* and asks the others for theirs, each of which first catches up with the *)
(* reader; nobody holds them at the same command. The striping is that of  *)
(* DataStorage. The log of the group, which ConsensusNode models, is the   *)
(* sequence of the contents after each command here: a barrier that was    *)
(* submitted after n commands were decided is passed by a replica that has *)
(* applied n of them.                                                      *)
(***************************************************************************)
EXTENDS Integers, FiniteSets, SequencesExt

CONSTANTS
    BLOCK_SIZE,
    TotalNodes,     \* the number of replicas
    MaxSize,        \* bound on the size of the file
    Sizes,          \* the sizes that a file starts with and is truncated to
    Ranges,         \* the <<offset, length>> that are written and read
    MaxCommands,    \* bound on the commands decided
    MaxLosses,      \* bound on the replicas that lose their data file
    NoFile,         \* there is no file
    Nothing         \* a replica has not answered yet

ASSUME FileAssumption ==
    /\ MaxSize < 10
    /\ Sizes \subseteq 0..MaxSize
    /\ \A range \in Ranges : range[1] + range[2] <= MaxSize

Ranks == 0..(TotalNodes - 1)

VARIABLES
    log,        \* the commands on the file
    versions,   \* versions[n + 1] is what the file holds after n of them
    applied,    \* how many of them each replica has applied
    exists,     \* whether ATTR_TABLE of the replica has a row for the file
    local,      \* the local file of each replica
    lost,       \* the replicas that have lost their data file, each of them once
    observer    \* the read or the fsck under way

vars == <<log, versions, applied, exists, local, lost, observer>>

Stripes == INSTANCE DataStorage WITH
    total_nodes <- TotalNodes, size <- 0, contents <- <<>>, ReplicaCounts <- {TotalNodes},
    Bytes <- Nat

\* Every byte ever written is another number, which tells its offset.
Byte(n, offset) == 10 * (n + 1) + offset

Fill(n, offset, len) == [i \in 1..len |-> Byte(n, offset + i - 1)]

Idle == [pc |-> "idle"]

------------------------------------------------------------------------------
\* A file of any size that all replicas have, or none yet
Init ==
    /\ log = <<>>
    /\ versions \in {<<Fill(0, 0, len)>> : len \in Sizes} \cup {<<NoFile>>}
    /\ applied = [r \in Ranks |-> 0]
    /\ exists = [r \in Ranks |-> versions[1] # NoFile]
    /\ local = [r \in Ranks |-> IF versions[1] = NoFile THEN NoFile
                                ELSE Stripes!WriteLocalBlocks(<<>>, 0, versions[1], r)]
    /\ lost = {}
    /\ observer = Idle

\* An inode is created once, and its number is not used again.
Commands ==
    IF Last(versions) = NoFile
    THEN IF log = <<>> THEN {[type |-> "Create"]} ELSE {}
    ELSE {[type |-> "Write", offset |-> range[1],
           data |-> Fill(Len(log) + 1, range[1], range[2])] : range \in Ranges}
         \cup [type : {"Truncate"}, length : Sizes]
         \cup {[type |-> "Delete"]}

\* What a command makes of the whole file, the stripes left aside
NewContents(cmd, contents) ==
    CASE cmd.type = "Create"   -> <<>>
      [] cmd.type = "Write"    -> Stripes!Overwrite(contents, cmd.offset, cmd.data)
      [] cmd.type = "Truncate" -> Stripes!Resize(contents, cmd.length)
      [] cmd.type = "Delete"   -> NoFile

Decide(cmd) ==
    /\ Len(log) < MaxCommands
    /\ log' = Append(log, cmd)
    /\ versions' = Append(versions, NewContents(cmd, Last(versions)))
    /\ UNCHANGED <<applied, exists, local, lost, observer>>

\* write and truncate open the local file with create(true), so a file that
\* was lost comes back empty.
NewLocal(cmd, file, rank) ==
    LET opened == IF file = NoFile THEN <<>> ELSE file
    IN  CASE cmd.type = "Create"   -> Stripes!Resize(opened, 0)
          [] cmd.type = "Write"    -> Stripes!WriteLocalBlocks(opened, cmd.offset, cmd.data, rank)
          [] cmd.type = "Truncate" ->
                Stripes!Resize(opened, Stripes!ToLocalIndexCeiling(cmd.length, rank))
          [] cmd.type = "Delete"   -> NoFile

NextCommand(r) == log[applied[r] + 1]

\* Whether the row is there once the command is applied
RowAfter(r) == NextCommand(r).type # "Delete"

\* create_inode and decrement_inode_link_count of FileStorage change the
\* metadata first.
CommitMetadata(r) ==
    /\ applied[r] < Len(log)
    /\ exists[r] # RowAfter(r)
    /\ exists' = [exists EXCEPT ![r] = RowAfter(r)]
    /\ UNCHANGED <<log, versions, applied, local, lost, observer>>

\* A bug to compare with: the commit counter goes ahead of the slots.
CommitDataAhead(r) ==
    /\ applied[r] < Len(log)
    /\ exists[r] = RowAfter(r)
    /\ NextCommand(r).type = "Delete" => local[r] # NoFile
    /\ local' = [local EXCEPT ![r] = NewLocal(NextCommand(r), @, r)]
    /\ applied' = [applied EXCEPT ![r] = @ + 2]
    /\ UNCHANGED <<log, versions, exists, lost, observer>>

\* The data follows. A replica that misses the data file to delete panics, and
\* applies nothing more.
CommitData(r) ==
    /\ applied[r] < Len(log)
    /\ exists[r] = RowAfter(r)
    /\ NextCommand(r).type = "Delete" => local[r] # NoFile
    /\ local' = [local EXCEPT ![r] = NewLocal(NextCommand(r), @, r)]
    /\ applied' = [applied EXCEPT ![r] = @ + 1]
    /\ UNCHANGED <<log, versions, exists, lost, observer>>

\* A data file of a replica is lost, as when test.sh removes it.
Lose(r) ==
    /\ Cardinality(lost) < MaxLosses
    /\ r \notin lost
    /\ local[r] # NoFile
    /\ local' = [local EXCEPT ![r] = NoFile]
    /\ lost' = lost \cup {r}
    /\ UNCHANGED <<log, versions, applied, exists, observer>>

------------------------------------------------------------------------------
\* A data file that the metadata asks for and that is not there
Missing(r) == exists[r] /\ local[r] = NoFile

\* Request::Read or Request::FilesystemCheck reaches a node, which submits a
\* barrier.
Start(kind, home, offset, len) ==
    /\ observer = Idle
    /\ observer' = [pc |-> "barrier", kind |-> kind, home |-> home, offset |-> offset,
                    len |-> len, from |-> Len(log), required |-> 0,
                    seen |-> [r \in Ranks |-> Nothing],
                    missing |-> {r \in lost : Missing(r)}]
    /\ UNCHANGED <<log, versions, applied, exists, local, lost>>

Finish(status, data) ==
    /\ observer' = [pc |-> "done", kind |-> observer.kind, offset |-> observer.offset,
                    len |-> observer.len, from |-> observer.from, to |-> Len(log),
                    missing |-> observer.missing, status |-> status, data |-> data]
    /\ UNCHANGED <<log, versions, applied, exists, local, lost>>

Note(r, what, required) ==
    /\ observer' = [observer EXCEPT !.pc = "peers", !.seen[r] = what, !.required = required]
    /\ UNCHANGED <<log, versions, applied, exists, local, lost>>

\* read_barrier returns while its slot is still being applied; a read takes
\* down the last commit of its replica. The slots before the barrier's are
\* counted in applied_index by then. What came after them, in the barrier's
\* slot or in one that is under way now, may be applied and not yet counted.
PassBarrier ==
    /\ observer.pc = "barrier"
    /\ applied[observer.home] >= observer.from
    /\ \E required \in observer.from..applied[observer.home] :
        observer' = [observer EXCEPT !.pc = "local", !.required = required]
    /\ UNCHANGED <<log, versions, applied, exists, local, lost>>

\* read of DataStorage starts with the local blocks.
ReadLocal ==
    /\ observer.pc = "local"
    /\ observer.kind = "read"
    /\ LET home == observer.home
       IN  IF local[home] = NoFile
           THEN Finish("error", <<>>)
           ELSE Note(home, Stripes!ReadRaw(observer.offset, observer.len, home),
                     observer.required)

\* A bug to compare with: a replica returns its blocks without sync.
ReadPeerUnsynced(r) ==
    /\ observer.pc = "peers"
    /\ observer.kind = "read"
    /\ observer.seen[r] = Nothing
    /\ IF local[r] = NoFile
       THEN Finish("panicked", <<>>)
       ELSE Note(r, Stripes!ReadRaw(observer.offset, observer.len, r), observer.required)

\* Request::ReadRaw: sync, then read_raw. An error that it returns fails the
\* unwrap in read_raw of TcpPeerClient.
ReadPeer(r) ==
    /\ observer.pc = "peers"
    /\ observer.kind = "read"
    /\ observer.seen[r] = Nothing
    /\ applied[r] >= observer.required
    /\ IF local[r] = NoFile
       THEN Finish("panicked", <<>>)
       ELSE Note(r, Stripes!ReadRaw(observer.offset, observer.len, r), observer.required)

\* A bug to compare with: nothing but the names of the data files is compared.
ChecksumErrorNever(r) == FALSE

\* local_data_checksum: every file of the metadata must have a data file.
ChecksumError(r) == exists[r] /\ local[r] = NoFile

\* DataStorage::local_data_checksum: the names of the data files, not what is
\* in them
Checksum(r) == local[r] # NoFile

\* The barriers of the peers come after everything decided so far.
CheckLocal ==
    /\ observer.pc = "local"
    /\ observer.kind = "fsck"
    /\ IF ChecksumError(observer.home)
       THEN Finish("Corrupted", <<>>)
       ELSE Note(observer.home, Checksum(observer.home), Len(log))

\* A bug to compare with: checksum_request without read_barrier
CheckPeerWithoutBarrier(r) ==
    /\ observer.pc = "peers"
    /\ observer.kind = "fsck"
    /\ observer.seen[r] = Nothing
    /\ IF ChecksumError(r)
       THEN Finish("panicked", <<>>)
       ELSE Note(r, Checksum(r), observer.required)

\* checksum_request of a peer. Its error fails the unwrap in
\* filesystem_checksum of TcpPeerClient.
CheckPeer(r) ==
    /\ observer.pc = "peers"
    /\ observer.kind = "fsck"
    /\ observer.seen[r] = Nothing
    /\ applied[r] >= observer.required
    /\ IF ChecksumError(r)
       THEN Finish("panicked", <<>>)
       ELSE Note(r, Checksum(r), observer.required)

AllAnswered == observer.pc = "peers" /\ \A r \in Ranks : observer.seen[r] # Nothing

ReturnData ==
    /\ AllAnswered
    /\ observer.kind = "read"
    /\ Finish("ok", Stripes!JoinBlocks(observer.offset, observer.seen))

ReturnVerdict ==
    /\ AllAnswered
    /\ observer.kind = "fsck"
    /\ Finish(IF \A r \in Ranks : observer.seen[r] = observer.seen[0]
              THEN "ok" ELSE "Corrupted", <<>>)

\* Nothing that happens after the read or the check has returned matters to it.
Next ==
    \/ /\ observer.pc # "done"
       /\ \/ \E cmd \in Commands : Decide(cmd)
          \/ \E r \in Ranks : CommitMetadata(r) \/ CommitData(r) \/ Lose(r)
    \/ \E home \in Ranks :
        \/ \E range \in Ranges : Start("read", home, range[1], range[2])
        \/ Start("fsck", home, 0, 0)
    \/ PassBarrier \/ ReadLocal \/ CheckLocal \/ ReturnData \/ ReturnVerdict
    \/ \E r \in Ranks : ReadPeer(r) \/ CheckPeer(r)

Spec == Init /\ [][Next]_vars

------------------------------------------------------------------------------
\* The state has its types, and no replica is ahead of the log.
TypeOK ==
    /\ log \in Seq([type : {"Create", "Delete"}] \cup [type : {"Truncate"}, length : 0..MaxSize]
                   \cup [type : {"Write"}, offset : 0..MaxSize, data : Seq(Nat)])
    /\ Len(versions) = Len(log) + 1
    /\ applied \in [Ranks -> 0..Len(log)]
    /\ exists \in [Ranks -> BOOLEAN]
    /\ DOMAIN local = Ranks
    /\ lost \subseteq Ranks /\ Cardinality(lost) <= MaxLosses
    /\ observer.pc \in {"idle", "barrier", "local", "peers", "done"}

Done(kind) == observer.pc = "done" /\ observer.kind = kind

\* What the file held at some time from the start of the read or check to its end
Window == {versions[n + 1] : n \in observer.from..observer.to}

\* A read beside writes that do not change the size of the file returns as
\* many bytes as the file has there, and each of them is the one that the
\* file held at that offset at some time during the read: never an older one,
\* though every replica answers from wherever it is in the log. Without a
\* write during the read, it returns what was last written.
ReadsAreRegular ==
    Done("read") /\ lost = {} =>
        \A len \in 0..MaxSize :
            (\A contents \in Window : contents # NoFile /\ Len(contents) = len) =>
                LET end == Stripes!Least(observer.offset + observer.len, len)
                IN  /\ observer.status = "ok"
                    /\ Len(observer.data) = IF end > observer.offset
                                              THEN end - observer.offset ELSE 0
                    /\ \A i \in 1..Len(observer.data) :
                        \E contents \in Window :
                            observer.data[i] = contents[observer.offset + i]

\* fsck does not find the file system ok while a replica misses the data file
\* of an inode from the start of the check to its end, wherever the replica is
\* and whichever node is asked; test.sh deletes the data files to see that.
FsckFindsLostData ==
    Done("fsck") /\ (\E r \in observer.missing : Missing(r)) => observer.status # "ok"

\* fsck finds a file system ok in which no data was lost, on replicas that lag
\* behind each other as far as they like: a file that was created or deleted
\* before the check began does not look corrupted, because every replica
\* passes a barrier before it looks at its files. Files that are created or
\* deleted during the check are another matter.
FsckRaisesNoFalseAlarm ==
    Done("fsck") /\ lost = {} /\ (\A v, w \in Window : (v = NoFile) = (w = NoFile)) =>
        observer.status = "ok"
==============================================================================
