--------------------------- MODULE MetadataStorage ---------------------------
(***************************************************************************)
(* The metadata of the file system (src/storage/local/metadata_storage.rs) *)
(* and the committing of a request to it (commit_write in                  *)
(* src/storage/message_handlers/write_handler.rs).                         *)
(*                                                                         *)
(* A file system is a record                                               *)
(*   attrs      : ATTR_TABLE, NoAttrs where the inode does not exist       *)
(*   entries    : DIRECTORY_TABLE, the inode of <<directory, name>>        *)
(*   parents    : PARENTS_TABLE, the ".." of a directory                   *)
(*   next_inode : the counter of each group                                *)
(* The tables of all groups are one here: every inode belongs to one       *)
(* group, and an operation touches the rows of one group only.             *)
(*                                                                         *)
(* Every operation maps a file system to a reply and a new file system.    *)
(* Where the code panics the reply is one of Panics. Times, sizes, names   *)
(* that are too long and extended attributes are left out, and of a mode   *)
(* only what RemoveLink and rename tell apart is kept: whether others may  *)
(* write, and the sticky bit. Everybody may search every directory.        *)
(***************************************************************************)
EXTENDS Naturals, FiniteSets

CONSTANTS
    Inodes,         \* the inodes that can exist, a set of numbers from 1
    NoInode,
    Names,          \* file names
    NumGroups,      \* num_raft_groups
    NoAttrs         \* the inode has no row in ATTR_TABLE

ROOT_INODE == 1

Groups == 0..(NumGroups - 1)

\* An inode is stored by the group with this number.
GroupOf(inode) == inode % NumGroups

Kinds == {"File", "Directory"}

Modes == [others_write : BOOLEAN, sticky : BOOLEAN]

Attributes == [kind : Kinds, hardlinks : Nat, uid : Nat,
               others_write : BOOLEAN, sticky : BOOLEAN]

Attrs(kind, uid, mode) ==
    [kind |-> kind, hardlinks |-> IF kind = "Directory" THEN 2 ELSE 1, uid |-> uid,
     others_write |-> mode.others_write, sticky |-> mode.sticky]

RootMode == [others_write |-> TRUE, sticky |-> FALSE]

\* MetadataStorage::new: the first inode after the root that belongs to the group.
StartInode(g) ==
    CHOOSE i \in (ROOT_INODE + 1)..(ROOT_INODE + NumGroups) : GroupOf(i) = g

\* MetadataStorage::new: everybody may write to the root directory.
EmptyFileSystem ==
    [attrs      |-> [i \in Inodes |-> IF i = ROOT_INODE
                                      THEN Attrs("Directory", 0, RootMode) ELSE NoAttrs],
     entries    |-> [e \in Inodes \X Names |-> NoInode],
     parents    |-> [i \in Inodes |-> IF i = ROOT_INODE THEN ROOT_INODE ELSE NoInode],
     next_inode |-> [g \in Groups |-> StartInode(g)]]

FileSystems ==
    [attrs      : [Inodes -> Attributes \cup {NoAttrs}],
     entries    : [Inodes \X Names -> Inodes \cup {NoInode}],
     parents    : [Inodes -> Inodes \cup {NoInode}],
     next_inode : [Groups -> Nat]]

Exists(fs, i) == fs.attrs[i] # NoAttrs

\* directory_entries of get_attributes
DirectoryEntries(fs, dir) == Cardinality({n \in Names : fs.entries[<<dir, n>>] # NoInode})

\* check_access for W_OK: root may write everything, the owner what is theirs.
CheckAccess(attrs, uid) == uid = 0 \/ uid = attrs.uid \/ attrs.others_write

\* The ways in which committing a request can panic.
Panics == {"NothingToReplace", "LinkCountOverflow", "DeletedNonEmptyDirectory",
           "ParentOfNoDirectory"}

\* id is the inode, or the lock id, that the response carries.
Reply(status, id, complete) == [status |-> status, id |-> id, complete |-> complete]

Failed(fs, status) == [fs |-> fs, reply |-> Reply(status, NoInode, FALSE)]

Succeeded(fs) == [fs |-> fs, reply |-> Reply("Ok", NoInode, TRUE)]

\* The file system with other attributes, without an inode, with another link
\* count, and with another directory entry
WithAttrs(fs, inode, attrs) == [fs EXCEPT !.attrs = [@ EXCEPT ![inode] = attrs]]

\* A bug to compare with: the row in PARENTS_TABLE stays.
WithoutInodeButParent(fs, inode) == WithAttrs(fs, inode, NoAttrs)

WithoutInode(fs, inode) ==
    [WithAttrs(fs, inode, NoAttrs) EXCEPT !.parents = [@ EXCEPT ![inode] = NoInode]]

WithLinks(fs, inode, hardlinks) ==
    WithAttrs(fs, inode, [fs.attrs[inode] EXCEPT !.hardlinks = hardlinks])

WithEntry(fs, dir, name, inode) == [fs EXCEPT !.entries = [@ EXCEPT ![<<dir, name>>] = inode]]

------------------------------------------------------------------------------
\* allocate_inode adds num_raft_groups, so the inode stays in its group.
CreateInode(fs, r) ==
    LET inode == fs.next_inode[r.group]
    IN  [fs |-> [WithAttrs(fs, inode, Attrs(r.kind, r.uid, r.mode)) EXCEPT
                    !.next_inode = [@ EXCEPT ![r.group] = inode + NumGroups],
                    !.parents = IF r.kind = "Directory" THEN [@ EXCEPT ![inode] = r.parent]
                                ELSE @],
         reply |-> Reply("Ok", inode, TRUE)]

CreateLink(fs, r) ==
    IF ~Exists(fs, r.inode)
    THEN Failed(fs, "InodeDoesNotExist")
    ELSE IF fs.entries[<<r.inode, r.name>>] # NoInode
    THEN Failed(fs, "AlreadyExists")
    ELSE IF ~CheckAccess(fs.attrs[r.inode], r.uid)
    THEN Failed(fs, "AccessDenied")
    ELSE Succeeded(WithEntry(fs, r.inode, r.name, r.link))

\* table.insert(..).unwrap() panics when there was no link to replace.
ReplaceLink(fs, r) ==
    IF ~Exists(fs, r.inode)
    THEN Failed(fs, "InodeDoesNotExist")
    ELSE IF ~CheckAccess(fs.attrs[r.inode], r.uid)
    THEN Failed(fs, "AccessDenied")
    ELSE IF fs.entries[<<r.inode, r.name>>] = NoInode
    THEN Failed(fs, "NothingToReplace")
    ELSE [fs    |-> WithEntry(fs, r.inode, r.name, r.link),
          reply |-> Reply("Ok", fs.entries[<<r.inode, r.name>>], TRUE)]

\* r.link and r.link_uid are link_inode_and_uid, NoInode when it is None. The
\* reply is complete = FALSE when the caller has to look up the inode's owner
\* first, or looked up an inode that is not the one of the link any more.
RemoveLink(fs, r) ==
    LET dir   == fs.attrs[r.inode]
        inode == fs.entries[<<r.inode, r.name>>]
        retry == [fs |-> fs, reply |-> Reply("Ok", inode, FALSE)]
        guarded == dir.sticky /\ r.uid # dir.uid /\ r.uid # 0
    IN  IF ~Exists(fs, r.inode)                           THEN Failed(fs, "InodeDoesNotExist")
        ELSE IF inode = NoInode                           THEN Failed(fs, "DoesNotExist")
        ELSE IF r.link # NoInode /\ r.link # inode        THEN retry
        ELSE IF ~CheckAccess(dir, r.uid)                  THEN Failed(fs, "AccessDenied")
        ELSE IF guarded /\ r.link = NoInode               THEN retry
        ELSE IF guarded /\ r.uid # r.link_uid             THEN Failed(fs, "AccessDenied")
        ELSE [fs    |-> WithEntry(fs, r.inode, r.name, NoInode),
              reply |-> Reply("Ok", inode, TRUE)]

HardlinkIncrement(fs, r) ==
    IF ~Exists(fs, r.inode)
    THEN Failed(fs, "InodeDoesNotExist")
    ELSE Succeeded(WithLinks(fs, r.inode, fs.attrs[r.inode].hardlinks + 1))

\* The inode stays when its count reaches zero.
HardlinkRollback(fs, r) ==
    IF ~Exists(fs, r.inode)
    THEN Failed(fs, "InodeDoesNotExist")
    ELSE IF fs.attrs[r.inode].hardlinks = 0
    THEN Failed(fs, "LinkCountOverflow")
    ELSE Succeeded(WithLinks(fs, r.inode, fs.attrs[r.inode].hardlinks - 1))

\* A bug to compare with: "<= 1" for "== 0".
DecrementInodeEarly(fs, r) ==
    IF ~Exists(fs, r.inode)
    THEN Failed(fs, "InodeDoesNotExist")
    ELSE IF fs.attrs[r.inode].hardlinks <= r.count + 1
    THEN Succeeded(WithoutInode(fs, r.inode))
    ELSE Succeeded(WithLinks(fs, r.inode, fs.attrs[r.inode].hardlinks - r.count))

\* decrement_inode_link_count. It asserts that a directory it deletes has no
\* entries; a count below zero is an overflow.
DecrementInode(fs, r) ==
    IF ~Exists(fs, r.inode)
    THEN Failed(fs, "InodeDoesNotExist")
    ELSE IF fs.attrs[r.inode].hardlinks < r.count
    THEN Failed(fs, "LinkCountOverflow")
    ELSE IF fs.attrs[r.inode].hardlinks > r.count
    THEN Succeeded(WithLinks(fs, r.inode, fs.attrs[r.inode].hardlinks - r.count))
    ELSE IF fs.attrs[r.inode].kind = "Directory" /\ DirectoryEntries(fs, r.inode) > 0
    THEN Failed(fs, "DeletedNonEmptyDirectory")
    ELSE Succeeded(WithoutInode(fs, r.inode))

\* Asserts that the inode is a directory.
UpdateParent(fs, r) ==
    IF ~Exists(fs, r.inode) \/ fs.attrs[r.inode].kind # "Directory"
    THEN Failed(fs, "ParentOfNoDirectory")
    ELSE Succeeded([fs EXCEPT !.parents = [@ EXCEPT ![r.inode] = r.link]])

UpdateMetadataChangedTime(fs, r) ==
    IF ~Exists(fs, r.inode) THEN Failed(fs, "InodeDoesNotExist") ELSE Succeeded(fs)

\* commit_write
CommitWrite(fs, r) ==
    CASE r.type = "CreateInode"               -> CreateInode(fs, r)
      [] r.type = "CreateLink"                -> CreateLink(fs, r)
      [] r.type = "ReplaceLink"               -> ReplaceLink(fs, r)
      [] r.type = "RemoveLink"                -> RemoveLink(fs, r)
      [] r.type = "HardlinkIncrement"         -> HardlinkIncrement(fs, r)
      [] r.type = "HardlinkRollback"          -> HardlinkRollback(fs, r)
      [] r.type = "DecrementInode"            -> DecrementInode(fs, r)
      [] r.type = "UpdateParent"              -> UpdateParent(fs, r)
      [] r.type = "UpdateMetadataChangedTime" -> UpdateMetadataChangedTime(fs, r)
==============================================================================
