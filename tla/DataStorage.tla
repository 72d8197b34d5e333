----------------------------- MODULE DataStorage -----------------------------
(***************************************************************************)
(* The contents of a file (src/storage/local/data_storage.rs): blocks of   *)
(* BLOCK_SIZE bytes, striped over the replicas of a group (RAID0). A write *)
(* or a truncate is committed by every replica, each of which keeps the    *)
(* bytes of its own blocks in a local file; a read joins the local files   *)
(* again. Here all replicas commit in one step: the module is about the    *)
(* index arithmetic, and the contents that a file should have are kept     *)
(* beside the local files for comparison.                                  *)
(***************************************************************************)
EXTENDS Integers, SequencesExt

CONSTANTS
    BLOCK_SIZE,
    ReplicaCounts,  \* the numbers of replicas to look at
    Bytes,          \* the bytes that are written; 0 is the byte of a hole
    MaxSize         \* bound on the size of the file

ASSUME DataAssumption ==
    /\ BLOCK_SIZE \in Nat \ {0}
    /\ ReplicaCounts \subseteq Nat \ {0}
    /\ 0 \in Bytes

VARIABLES
    total_nodes,    \* node_ids.len()
    local,          \* the local file of each rank, as a sequence of bytes
    size,           \* the size of the file in its attributes
    contents        \* what the file holds, without stripes

vars == <<total_nodes, local, size, contents>>

Ranks == 0..(total_nodes - 1)

Least(x, y) == IF x <= y THEN x ELSE y

------------------------------------------------------------------------------
\* A bug to compare with: "<=" for "<", so the block the index is in counts
\* as a whole one.
ToLocalIndexRoundedUp(global_index, rank) ==
    LET global_block == global_index \div BLOCK_SIZE
        remainder_blocks == global_block % total_nodes
        blocks == (global_block \div total_nodes) * BLOCK_SIZE
    IN  IF rank <= remainder_blocks THEN blocks + BLOCK_SIZE ELSE blocks

\* to_local_index_ceiling: the index in the local file of the first byte at or
\* after global_index that the rank stores.
ToLocalIndexCeiling(global_index, rank) ==
    LET global_block == global_index \div BLOCK_SIZE
        remainder_blocks == global_block % total_nodes
        blocks == (global_block \div total_nodes) * BLOCK_SIZE
    IN  CASE rank < remainder_blocks -> blocks + BLOCK_SIZE
          [] rank = remainder_blocks -> blocks + (global_index % BLOCK_SIZE)
          [] rank > remainder_blocks -> blocks

StoresIndex(global_index, rank) == rank = (global_index \div BLOCK_SIZE) % total_nodes

ToGlobalIndex(local_index, rank) ==
    (local_index \div BLOCK_SIZE) * BLOCK_SIZE * total_nodes
        + rank * BLOCK_SIZE + (local_index % BLOCK_SIZE)

\* set_len, and the hole that a write past the end leaves
Resize(file, len) == [i \in 1..len |-> IF i <= Len(file) THEN file[i] ELSE 0]

\* seek and write_all at this offset
Overwrite(file, offset, data) ==
    [i \in 1..(IF Len(file) > offset + Len(data) THEN Len(file) ELSE offset + Len(data)) |->
        CASE i > offset /\ i <= offset + Len(data) -> data[i - offset]
          [] i <= Len(file) /\ (i <= offset \/ i > offset + Len(data)) -> file[i]
          [] OTHER -> 0]

\* data[start..end] of the code
Slice(data, start, end) == SubSeq(data, start + 1, end)

\* The blocks of the data from start on, a stripe apart: the loop of
\* write_local_blocks.
BlocksFrom(data, start) ==
    LET stripe == total_nodes * BLOCK_SIZE
        count  == IF start >= Len(data) THEN 0 ELSE (Len(data) - start - 1) \div stripe + 1
    IN  FlattenSeq([k \in 1..count |->
            Slice(data, start + (k - 1) * stripe,
                  Least(start + (k - 1) * stripe + BLOCK_SIZE, Len(data)))])

\* The part of the data that the rank stores.
LocalData(offset, data, rank) ==
    LET partial_first_block == BLOCK_SIZE - (offset % BLOCK_SIZE)
        local_index == ToLocalIndexCeiling(offset, rank)
    IN  IF StoresIndex(offset, rank)
        THEN Slice(data, 0, Least(partial_first_block, Len(data)))
                \o BlocksFrom(data, partial_first_block + (total_nodes - 1) * BLOCK_SIZE)
        ELSE BlocksFrom(data, ToGlobalIndex(local_index, rank) - offset)

\* A bug to compare with: a replica that gets no byte of a write leaves its
\* file as it is.
WriteLocalBlocksNoHole(file, offset, data, rank) ==
    LET local_data == LocalData(offset, data, rank)
    IN  IF local_data = <<>> THEN file
        ELSE Overwrite(file, ToLocalIndexCeiling(offset, rank), local_data)

\* write_local_blocks. A replica that gets no byte extends its file, so that
\* a hole before the data is there for reads.
WriteLocalBlocks(file, offset, data, rank) ==
    LET local_index == ToLocalIndexCeiling(offset, rank)
        local_data  == LocalData(offset, data, rank)
    IN  CASE local_data = <<>> /\ Len(file) < local_index -> Resize(file, local_index)
          [] local_data = <<>> /\ Len(file) >= local_index -> file
          [] OTHER -> Overwrite(file, local_index, local_data)

\* read_raw: the local bytes of the range, up to the end of the local file
ReadRaw(offset, len, rank) ==
    LET local_start == ToLocalIndexCeiling(offset, rank)
        local_end   == ToLocalIndexCeiling(offset + len, rank)
    IN  Slice(local[rank], local_start, Least(local_end, Len(local[rank])))

\* The loop of read: a block of each rank in turn, until a rank has no more.
RECURSIVE Join(_, _, _, _)
Join(blocks, indices, rank, result) ==
    LET index == indices[rank]
        end   == Least(index + BLOCK_SIZE, Len(blocks[rank]))
    IN  IF index >= Len(blocks[rank])
        THEN result
        ELSE Join(blocks, [indices EXCEPT ![rank] = end], (rank + 1) % total_nodes,
                  result \o Slice(blocks[rank], index, end))

\* The blocks that the ranks returned for this offset, joined: the first one
\* may start in the middle of a block.
JoinBlocks(offset, blocks) ==
    LET first == (offset \div BLOCK_SIZE) % total_nodes
        first_block_read == Least(BLOCK_SIZE - (offset % BLOCK_SIZE), Len(blocks[first]))
    IN  Join(blocks, [rank \in Ranks |-> IF rank = first THEN first_block_read ELSE 0],
             (first + 1) % total_nodes, Slice(blocks[first], 0, first_block_read))

\* A bug to compare with: the first block is taken for a whole one.
ReadWholeBlocks(offset, len) ==
    LET blocks == [rank \in Ranks |-> ReadRaw(offset, len, rank)]
    IN  Join(blocks, [rank \in Ranks |-> 0], (offset \div BLOCK_SIZE) % total_nodes, <<>>)

Read(offset, len) == JoinBlocks(offset, [rank \in Ranks |-> ReadRaw(offset, len, rank)])

------------------------------------------------------------------------------
\* A new file: create_inode truncates it to 0.
Init ==
    /\ total_nodes \in ReplicaCounts
    /\ local = [rank \in Ranks |-> <<>>]
    /\ size = 0
    /\ contents = <<>>

\* A bug to compare with: every write counts as an append.
WriteAppends(offset, data) ==
    /\ local' = [rank \in Ranks |-> WriteLocalBlocks(local[rank], offset, data, rank)]
    /\ size' = size + Len(data)
    /\ contents' = Overwrite(contents, offset, data)
    /\ UNCHANGED total_nodes

\* FileStorage::write on every replica
Write(offset, data) ==
    /\ local' = [rank \in Ranks |-> WriteLocalBlocks(local[rank], offset, data, rank)]
    /\ size' = IF size > offset + Len(data) THEN size ELSE offset + Len(data)
    /\ contents' = Overwrite(contents, offset, data)
    /\ UNCHANGED total_nodes

\* FileStorage::truncate on every replica
Truncate(length) ==
    /\ local' = [rank \in Ranks |-> Resize(local[rank], ToLocalIndexCeiling(length, rank))]
    /\ size' = length
    /\ contents' = Resize(contents, length)
    /\ UNCHANGED total_nodes

Next ==
    \/ \E offset \in 0..MaxSize :
        \E len \in 0..(MaxSize - offset) : \E data \in [1..len -> Bytes] : Write(offset, data)
    \/ \E length \in 0..MaxSize : Truncate(length)

Spec == Init /\ [][Next]_vars

------------------------------------------------------------------------------
\* The state has its types, and the local files hold bytes.
TypeOK ==
    /\ total_nodes \in ReplicaCounts
    /\ size \in 0..MaxSize
    /\ DOMAIN local = Ranks
    /\ \A rank \in Ranks : \A i \in 1..Len(local[rank]) : local[rank][i] \in Bytes

\* Whatever was written and truncated before, in whatever order, a read at
\* any offset returns the bytes the file holds there, up to its end.
ReadsWhatWasWritten ==
    \A offset \in 0..(MaxSize + 1), len \in 0..(MaxSize + 1) :
        Read(offset, len) = Slice(contents, offset, Least(offset + len, Len(contents)))

\* The size in the attributes and the sizes of the local files stay in step,
\* though each is computed on its own: a replica that gets no byte of a write
\* extends its file all the same.
LocalSizesMatch ==
    /\ Len(contents) = size
    /\ \A rank \in Ranks : Len(local[rank]) = ToLocalIndexCeiling(size, rank)

\* The ranges of the replicas share out the bytes of the file: every index is
\* stored by one rank, at the local index that leads back to it.
IndicesRoundTrip ==
    \A i \in 0..(2 * MaxSize) :
        /\ \E rank \in Ranks : StoresIndex(i, rank)
        /\ \A rank \in Ranks :
            LET global == ToGlobalIndex(ToLocalIndexCeiling(i, rank), rank)
            IN  /\ StoresIndex(i, rank) => global = i
                /\ global >= i
                /\ StoresIndex(global, rank)
                /\ \A j \in i..(global - 1) : ~StoresIndex(j, rank)
==============================================================================
