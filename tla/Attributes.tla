------------------------------ MODULE Attributes ------------------------------
(***************************************************************************)
(* What users may do to a file: check_access (src/base/utils.rs) and the   *)
(* operations of src/storage/local/metadata_storage.rs on the attributes   *)
(* and the extended attributes of an inode.                                *)
(*                                                                         *)
(* A file is its row of ATTR_TABLE and XATTR_TABLE. A time is "before",    *)
(* "now" or "given", which is all that the rules about times tell apart.   *)
(* The change time and the type bits of the mode, which no rule looks at,  *)
(* are left out. The key of an extended attribute is its namespace and its *)
(* name. Every operation maps a file and a request to the error code, or   *)
(* "Ok", and the new file.                                                 *)
(***************************************************************************)
EXTENDS Integers, Bitwise

CONSTANTS
    None,           \* an argument or a value that is not there
    MAX_FILE_SIZE

F_OK == 0
X_OK == 1
W_OK == 2
R_OK == 4

S_ISUID == 2048
S_ISGID == 1024

\* A mode from its octal digits
Octal(owner, group, others) == owner * 64 + group * 8 + others

Root == [uid |-> 0, gid |-> 0, groups |-> {0}]

\* The bits of the mask that are not granted
Missing(mask, granted) == mask - (mask & granted)

CheckAccess(file, user, access_mask) ==
    IF access_mask = F_OK
    THEN TRUE
    ELSE IF user.uid = 0
    THEN Missing(Missing(Missing(access_mask & X_OK, shiftR(file.mode, 6)),
                         shiftR(file.mode, 3)), file.mode) = 0
    ELSE IF user.uid = file.uid
    THEN Missing(access_mask, shiftR(file.mode, 6)) = 0
    ELSE IF user.gid = file.gid
    THEN Missing(access_mask, shiftR(file.mode, 3)) = 0
    ELSE Missing(access_mask, file.mode) = 0

------------------------------------------------------------------------------
Refused(file, status) == [status |-> status, file |-> file]

Granted(file) == [status |-> "Ok", file |-> file]

WithoutSetId(mode) == mode - (mode & (S_ISUID + S_ISGID))

\* The attributes that create_inode gives to a file or a symlink, and
\* MetadataStorage::new to the root directory
NewFile(kind, user, mode) ==
    [kind |-> kind, uid |-> user.uid, gid |-> user.gid, mode |-> WithoutSetId(mode), size |-> 0,
     atime |-> "now", mtime |-> "now", xattrs |-> <<>>]

Chmod(file, r) ==
    IF r.user.uid # 0 /\ r.user.uid # file.uid
    THEN Refused(file, "OperationNotPermitted")
    ELSE Granted([file EXCEPT !.mode = WithoutSetId(r.mode)])

\* Only root changes the owner, but the owner may "change" it to themselves;
\* only the owner changes the group.
Chown(file, r) ==
    IF \/ r.uid # None /\ r.user.uid # 0 /\ ~(r.uid = file.uid /\ r.user.uid = file.uid)
       \/ r.gid # None /\ r.user.uid # 0 /\ r.user.uid # file.uid
    THEN Refused(file, "OperationNotPermitted")
    ELSE Granted([file EXCEPT !.uid = IF r.uid = None THEN @ ELSE r.uid,
                              !.gid = IF r.gid = None THEN @ ELSE r.gid])

Truncate(file, r) ==
    IF ~CheckAccess(file, r.user, W_OK)
    THEN Refused(file, "AccessDenied")
    ELSE Granted([file EXCEPT !.size = r.length, !.mtime = "now"])

\* No access check: the client has made it.
Write(file, r) ==
    Granted([file EXCEPT !.size = IF r.end > @ THEN r.end ELSE @, !.mtime = "now"])

\* "Non-owners are only allowed to change atime & mtime to current", both.
Utimens(file, r) ==
    IF r.user.uid # file.uid /\ r.user.uid # 0 /\ ~(r.atime = "now" /\ r.mtime = "now")
    THEN Refused(file, "OperationNotPermitted")
    ELSE IF r.user.uid # file.uid /\ ~CheckAccess(file, r.user, W_OK)
    THEN Refused(file, "AccessDenied")
    ELSE Granted([file EXCEPT !.atime = IF r.atime = None THEN @ ELSE r.atime,
                              !.mtime = IF r.mtime = None THEN @ ELSE r.mtime])

------------------------------------------------------------------------------
\* parse_xattr_namespace and xattr_access_check; "acl" is the key
\* system.posix_acl_access, which is checked like those of users.
XattrAccessCheck(file, key, user, access_mask) ==
    CASE key.namespace = "security" ->
            IF access_mask # R_OK /\ user.uid # 0 THEN "OperationNotPermitted" ELSE "Ok"
      [] key.namespace \in {"trusted", "system"} ->
            IF user.uid # 0 THEN "OperationNotPermitted" ELSE "Ok"
      [] key.namespace \in {"user", "acl"} ->
            IF CheckAccess(file, user, access_mask) THEN "Ok" ELSE "OperationNotPermitted"
      [] OTHER -> "InvalidXattrNamespace"

GetXattr(file, r) ==
    LET check == XattrAccessCheck(file, r.key, r.user, R_OK)
    IN  IF check = "Ok" /\ r.key \notin DOMAIN file.xattrs
        THEN Refused(file, "MissingXattrKey")
        ELSE Refused(file, check)

SetXattr(file, r) ==
    LET check == XattrAccessCheck(file, r.key, r.user, W_OK)
    IN  IF check # "Ok"
        THEN Refused(file, check)
        ELSE Granted([file EXCEPT !.xattrs =
                        [key \in DOMAIN @ \cup {r.key} |-> IF key = r.key THEN r.value ELSE @[key]]])

RemoveXattr(file, r) ==
    LET check == XattrAccessCheck(file, r.key, r.user, W_OK)
    IN  IF check # "Ok"
        THEN Refused(file, check)
        ELSE IF r.key \notin DOMAIN file.xattrs
        THEN Refused(file, "MissingXattrKey")
        ELSE Granted([file EXCEPT !.xattrs = [key \in DOMAIN @ \ {r.key} |-> @[key]]])

------------------------------------------------------------------------------
\* What FileStorage does with a request for a file, None if the inode does not
\* exist. Extended attributes are listed without a look at the inode; reads
\* and fsyncs look for the data file only.
FileOperation(file, r) ==
    IF r.op = "truncate" /\ r.length > MAX_FILE_SIZE
    THEN Refused(file, "FileTooLarge")
    ELSE IF file = None
    THEN Refused(file, CASE r.op = "listxattrs" -> "Ok"
                         [] r.op \in {"read", "fsync"} -> "DoesNotExist"
                         [] OTHER -> "InodeDoesNotExist")
    ELSE CASE r.op = "chmod"       -> Chmod(file, r)
           [] r.op = "chown"       -> Chown(file, r)
           [] r.op = "truncate"    -> Truncate(file, r)
           [] r.op = "write"       -> Write(file, r)
           [] r.op = "utimens"     -> Utimens(file, r)
           [] r.op = "getxattr"    -> GetXattr(file, r)
           [] r.op = "setxattr"    -> SetXattr(file, r)
           [] r.op = "removexattr" -> RemoveXattr(file, r)
           [] OTHER                -> Granted(file)

------------------------------------------------------------------------------
\* The rules of POSIX, for comparison: the digit of the mode that applies to
\* the user, and what it grants. Root may do everything, but execute only
\* what somebody may execute.
Class(file, user) ==
    CASE user.uid = file.uid -> 2
      [] user.uid # file.uid /\ user.gid = file.gid -> 1
      [] OTHER -> 0

Grants(mode, class, right) == (mode \div (8 ^ class * right)) % 2 = 1

Permits(file, user, rights) ==
    \A right \in rights :
        IF user.uid = 0
        THEN right = X_OK => \E class \in 0..2 : Grants(file.mode, class, X_OK)
        ELSE Grants(file.mode, Class(file, user), right)
==============================================================================
