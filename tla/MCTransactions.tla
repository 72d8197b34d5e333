---------------------------- MODULE MCTransactions ----------------------------
(***************************************************************************)
(* Instances of Transactions for TLC. The initial file systems are built   *)
(* with the operations of MetadataStorage.                                 *)
(***************************************************************************)
EXTENDS Transactions, TLC

CONSTANTS a, b, p1, p2, p3

Open == [others_write |-> TRUE, sticky |-> FALSE]

Sticky == [others_write |-> TRUE, sticky |-> TRUE]

\* The file system with a new inode of group g, linked to under this name.
With(s, g, kind, dir, name, uid, mode) ==
    LET made == CreateInode(s, [group |-> g, kind |-> kind, uid |-> uid, mode |-> mode,
                                parent |-> dir])
    IN  CreateLink(made.fs, [inode |-> dir, name |-> name, uid |-> 0,
                             link |-> made.reply.id]).fs

Create(dir, name, kind) ==
    [type |-> "create", parent |-> dir, name |-> name, kind |-> kind, uid |-> 1, mode |-> Open]

Hardlink(inode, dir, name) ==
    [type |-> "hardlink", inode |-> inode, parent |-> dir, name |-> name, uid |-> 1]

Removal(type, dir, name, uid) == [type |-> type, parent |-> dir, name |-> name, uid |-> uid]

Rename(dir, name, new_dir, new_name) ==
    [type |-> "rename", parent |-> dir, name |-> name, new_parent |-> new_dir,
     new_name |-> new_name, uid |-> 1]

\* A sticky directory 2 of the root user, as /tmp is, with file 4 of user 1.
Files ==
    [fs  |-> With(With(EmptyFileSystem, 0, "Directory", ROOT_INODE, a, 0, Sticky),
                  0, "File", 2, a, 1, Open),
     ops |-> {Create(2, b, "File"), Create(2, a, "File"), Hardlink(4, 2, b),
              Removal("unlink", 2, a, 1), Removal("unlink", 2, b, 1),
              Removal("unlink", 2, a, 2), Removal("unlink", 2, a, 0)},
     faults |-> 1]

\* Two directories a and b, inodes 2 and 3, and a file 4 in the first.
TwoDirectories ==
    With(With(With(EmptyFileSystem, 0, "Directory", ROOT_INODE, a, 1, Open),
              1, "Directory", ROOT_INODE, b, 1, Open),
         0, "File", 2, a, 1, Open)

\* The file moves between the directories, over what others put there.
FilesMove ==
    [fs  |-> TwoDirectories,
     ops |-> {Rename(2, a, 3, a), Rename(3, a, 2, a),
              Create(3, a, "File"), Removal("unlink", 3, a, 1)},
     faults |-> 1]

\* Directories replace each other, empty or not.
DirectoriesMove ==
    [fs  |-> TwoDirectories,
     ops |-> {Rename(ROOT_INODE, a, ROOT_INODE, b), Rename(ROOT_INODE, b, ROOT_INODE, a),
              Rename(ROOT_INODE, b, 2, b), Create(3, a, "File")},
     faults |-> 1]

\* Directories come and go under the same name.
DirectoriesGo ==
    [fs  |-> TwoDirectories,
     ops |-> {Create(ROOT_INODE, b, "Directory"), Removal("rmdir", ROOT_INODE, b, 1),
              Removal("rmdir", ROOT_INODE, a, 1), Removal("unlink", 2, a, 1)},
     faults |-> 1]

AllWorkloads == {Files, FilesMove, DirectoriesMove, DirectoriesGo}

\* A file is created in a directory that is being removed.
RemovedWhileUsed ==
    {[fs |-> TwoDirectories, ops |-> {Removal("rmdir", ROOT_INODE, b, 1), Create(3, a, "File")},
      faults |-> 0]}

\* A directory is removed twice, and a file gets its name.
RemovedTwice ==
    {[fs |-> TwoDirectories,
      ops |-> {Removal("rmdir", ROOT_INODE, b, 1), Create(ROOT_INODE, b, "File")},
      faults |-> 0]}

ProcSymmetry == Permutations(Procs)
==============================================================================
