---------------------------- MODULE MCFuseClient ----------------------------
(***************************************************************************)
(* An instance of FuseClient for TLC: the owner of a file, somebody of its *)
(* group, a stranger and root use it through two mounts.                   *)
(***************************************************************************)
EXTENDS FuseClient

Owner == [uid |-> 1, gid |-> 1, groups |-> {1, 2}]

Member == [uid |-> 2, gid |-> 1, groups |-> {1}]

Stranger == [uid |-> 3, gid |-> 3, groups |-> {3}]

\* The group may read the file, and others may write to it.
FirstFile == [kind |-> "File", uid |-> 1, gid |-> 1, mode |-> Octal(6, 4, 2), size |-> 1,
              atime |-> "before", mtime |-> "before", xattrs |-> <<>>]

NoChange(user) ==
    [kind |-> "setattr", user |-> user, mode |-> None, uid |-> None, gid |-> None, size |-> None,
     atime |-> None, mtime |-> None, handle |-> FALSE]

OpenAs(user, read, write) ==
    [kind |-> "open", user |-> user, read |-> read, write |-> write, exec |-> FALSE, truncate |-> FALSE]

UserKey == [namespace |-> "user", name |-> 1]

SecurityKey == [namespace |-> "security", name |-> 1]

Attempts(user) ==
    {[NoChange(user) EXCEPT !.mode = Octal(0, 0, 7) + S_ISUID],
     [NoChange(user) EXCEPT !.gid = 2, !.size = 0],
     [NoChange(user) EXCEPT !.size = 2, !.handle = TRUE],
     [NoChange(user) EXCEPT !.atime = "now", !.mtime = "now"],
     OpenAs(user, TRUE, FALSE), OpenAs(user, FALSE, TRUE),
     [kind |-> "write", user |-> user, end |-> 4],
     [kind |-> "setxattr", user |-> user, key |-> UserKey, value |-> 2]}

Others ==
    {[NoChange(Root) EXCEPT !.mode = 0],
     [NoChange(Root) EXCEPT !.uid = 3],
     [NoChange(Owner) EXCEPT !.size = 4],
     [NoChange(Member) EXCEPT !.mtime = "given"],
     OpenAs(Member, TRUE, TRUE),
     [OpenAs(Root, TRUE, FALSE) EXCEPT !.exec = TRUE],
     [OpenAs(Owner, TRUE, FALSE) EXCEPT !.truncate = TRUE],
     [kind |-> "access", user |-> Member, mask |-> X_OK],
     [kind |-> "read", user |-> Stranger],
     [kind |-> "readlink", user |-> Member],
     [kind |-> "release", user |-> Stranger],
     [kind |-> "lookup", user |-> Stranger, name |-> 1],
     [kind |-> "list", user |-> Stranger],
     [kind |-> "unlink", user |-> Stranger, name |-> 1],
     [kind |-> "rename", user |-> Member, name |-> 1, new_name |-> 2],
     [kind |-> "hardlink", user |-> Member, name |-> 2],
     [kind |-> "create", user |-> Stranger, name |-> 2, mode |-> 0, read |-> FALSE, write |-> TRUE],
     [kind |-> "mknod", user |-> Stranger, name |-> 1, mode |-> Octal(6, 6, 0), file_kind |-> "File"],
     [kind |-> "symlink", user |-> Stranger, name |-> 2, length |-> 2],
     [kind |-> "setxattr", user |-> Owner, key |-> SecurityKey, value |-> 1],
     [kind |-> "removexattr", user |-> Stranger, key |-> UserKey],
     [kind |-> "getxattr", user |-> Owner, key |-> UserKey, size |-> 1],
     [kind |-> "listxattr", user |-> Member, size |-> 0]}

KernelRequests == UNION {Attempts(user) : user \in {Owner, Member, Stranger}} \cup Others

MountSymmetry == Permutations(Mounts)
=============================================================================
