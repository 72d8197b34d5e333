------------------------------ MODULE FuseClient ------------------------------
(***************************************************************************)
(* The client: FleetFUSE (src/fuse_adapter.rs) and NodeClient              *)
(* (src/client/node_client.rs), mounted several times.                     *)
(*                                                                         *)
(* A handler turns a request of the kernel into requests to the servers,   *)
(* one after the other, with checks of its own between them, and returns   *)
(* at the first error. It is modelled by the sequence of its steps. Other  *)
(* mounts run between the steps. A mount handles one kernel request at a   *)
(* time. A request to the servers is executed at once, or it fails as in   *)
(* Rpc: the client gets EIO, and the request is executed later or never.   *)
(*                                                                         *)
(* The files are all in the root directory, which everybody may use. The   *)
(* servers create, remove and rename in one step here: Transactions is     *)
(* about how they do that. mkdir and rmdir are left out: they pass one     *)
(* request on. So are the requests on the root directory other than        *)
(* listing it. The kernel does no checks for the client.                   *)
(***************************************************************************)
EXTENDS Attributes, Sequences, SequencesExt, Functions, FiniteSets, TLC

CONSTANTS
    Mounts,
    Requests,       \* what the kernel asks for, but for the inode and the handle
    InitialFile,    \* the file to start with, under the first name
    Names,          \* file names, numbers from 1: entries are listed in order
    MaxInodes,      \* bound on the inodes
    MaxCalls,       \* bound on the kernel requests
    MaxFailures     \* bound on the requests to servers that fail

ASSUME FuseAssumption ==
    /\ Names \subseteq Nat \ {0} /\ Names # {}
    /\ MaxCalls \in Nat /\ MaxFailures \in Nat
    /\ MaxInodes \in Nat /\ MaxInodes >= MaxCalls + 2

VARIABLES
    files,              \* the file of each inode, None where there is none
    entries,            \* the inode of each name, or None
    next_inode,
    file_handles,       \* of each mount: the open handles, with their inode
    next_file_handle,   \* of each mount
    call,               \* of each mount: the kernel request it handles, or None
    outcome,            \* "Ok", or the error with which a handler has just returned
    late,               \* requests that failed, but will be executed
    changes,            \* how often the directory was changed
    calls,
    failures

server == <<files, entries, next_inode>>

handles == <<file_handles, next_file_handle>>

vars == <<server, handles, call, outcome, late, changes, calls, failures>>

ROOT_INODE == 1

\* into_fuse_error
IntoFuseError(error) ==
    CASE error = "DoesNotExist"          -> "ENOENT"
      [] error = "InodeDoesNotExist"     -> "EBADF"
      [] error = "FileTooLarge"          -> "EFBIG"
      [] error = "AccessDenied"          -> "EACCES"
      [] error = "OperationNotPermitted" -> "EPERM"
      [] error = "MissingXattrKey"       -> "NO_XATTR"
      [] error = "AlreadyExists"         -> "EEXIST"
      [] error = "InvalidXattrNamespace" -> "ENOTSUP"
      [] OTHER                           -> "EIO"

------------------------------------------------------------------------------
(* The steps of the handlers *)

If(condition, steps) == IF condition THEN steps ELSE <<>>

Op(name) == <<[op |-> name]>>

\* The access that an open asks for, and gives to the handle
AccessMask(k) == (IF k.exec THEN X_OK ELSE IF k.read THEN R_OK ELSE 0) + (IF k.write THEN W_OK ELSE 0)

AllocateStep(k) == <<[op |-> "Allocate", read |-> k.read, write |-> k.write]>>

CheckAccessStep(mask, user) == <<[op |-> "CheckAccess", mask |-> mask, user |-> user]>>

CreateStep(k, kind, mode) ==
    <<[op |-> "create", name |-> k.name, kind |-> kind, mode |-> mode, user |-> k.user]>>

TruncateStep(length, user) == <<[op |-> "truncate", length |-> length, user |-> user]>>

\* A bug to compare with: a file is truncated in the name of the user, though
\* the handle shows that they may.
SetattrAsUser(k) ==
    If(k.mode # None, <<[op |-> "chmod", mode |-> k.mode, user |-> k.user]>>)
    \o If(k.uid # None \/ k.gid # None,
          If(k.gid # None, <<[op |-> "CheckGroups", gid |-> k.gid, user |-> k.user]>>)
          \o <<[op |-> "chown", uid |-> k.uid, gid |-> k.gid, user |-> k.user]>>)
    \o If(k.size # None, If(k.handle, Op("CheckWrite")) \o TruncateStep(k.size, k.user))
    \o If(k.atime # None \/ k.mtime # None,
          <<[op |-> "utimens", atime |-> k.atime, mtime |-> k.mtime, user |-> k.user]>>)
    \o Op("getattr")

\* With a handle the client checks that it was opened for writing, and then
\* truncates as root.
Setattr(k) ==
    If(k.mode # None, <<[op |-> "chmod", mode |-> k.mode, user |-> k.user]>>)
    \o If(k.uid # None \/ k.gid # None,
          If(k.gid # None, <<[op |-> "CheckGroups", gid |-> k.gid, user |-> k.user]>>)
          \o <<[op |-> "chown", uid |-> k.uid, gid |-> k.gid, user |-> k.user]>>)
    \o If(k.size # None,
          IF k.handle THEN Op("CheckWrite") \o TruncateStep(k.size, Root)
                      ELSE TruncateStep(k.size, k.user))
    \o If(k.atime # None \/ k.mtime # None,
          <<[op |-> "utimens", atime |-> k.atime, mtime |-> k.mtime, user |-> k.user]>>)
    \o Op("getattr")

Lookup(k) == <<[op |-> "lookup", name |-> k.name, user |-> k.user]>> \o Op("getattr")

\* O_TRUNC without O_WRONLY or O_RDWR is refused.
Open(k) ==
    IF k.truncate /\ ~k.write
    THEN Op("Refuse")
    ELSE Op("getattr") \o CheckAccessStep(AccessMask(k), k.user) \o AllocateStep(k)

\* The creator gets the handle that they ask for, whatever the mode.
Create(k) == CreateStep(k, "File", k.mode) \o AllocateStep(k)

Mknod(k) == CreateStep(k, k.file_kind, k.mode)

Symlink(k) ==
    CreateStep(k, "Symlink", Octal(7, 5, 5)) \o TruncateStep(0, k.user)
        \o <<[op |-> "write", end |-> k.length]>>

ReadHandler(k) == Op("CheckRead") \o Op("read")

\* A bug to compare with: the wrong right of the handle is looked at.
WriteChecksRead(k) == Op("CheckRead") \o <<[op |-> "write", end |-> k.end]>>

WriteHandler(k) == Op("CheckWrite") \o <<[op |-> "write", end |-> k.end]>>

Access(k) == Op("getattr") \o CheckAccessStep(k.mask, k.user)

\* The answer has to fit into the kernel's buffer.
GetxattrHandler(k) ==
    <<[op |-> "getxattr", key |-> k.key, user |-> k.user],
      [op |-> "CheckSize", keys |-> {k.key}, size |-> k.size]>>

ListxattrHandler(k) == Op("listxattrs") \o <<[op |-> "CheckSize", keys |-> {}, size |-> k.size]>>

\* opendir, a readdir for every page, the last of which is empty, and
\* releasedir: what a program does that lists the directory
ListDirectory(k) ==
    Op("getattr") \o CheckAccessStep(R_OK, k.user) \o <<[op |-> "Allocate", read |-> TRUE, write |-> FALSE]>>
        \o Op("listdir") \o Op("Deallocate")

\* The handlers that pass the kernel's request on as it is
PassOn(k) == <<[op |-> k.kind] @@ k>>

Steps(k) ==
    CASE k.kind = "setattr"   -> Setattr(k)
      [] k.kind = "lookup"    -> Lookup(k)
      [] k.kind = "open"      -> Open(k)
      [] k.kind = "create"    -> Create(k)
      [] k.kind = "mknod"     -> Mknod(k)
      [] k.kind = "symlink"   -> Symlink(k)
      [] k.kind = "read"      -> ReadHandler(k)
      [] k.kind = "readlink"  -> Op("read")
      [] k.kind = "write"     -> WriteHandler(k)
      [] k.kind = "release"   -> Op("Deallocate")
      [] k.kind = "access"    -> Access(k)
      [] k.kind = "getxattr"  -> GetxattrHandler(k)
      [] k.kind = "listxattr" -> ListxattrHandler(k)
      [] k.kind = "list"      -> ListDirectory(k)
      [] OTHER                -> PassOn(k)

------------------------------------------------------------------------------
(* What the servers do *)

\* "." and ".." and then the names in order: MetadataStorage::readdir
Listing == <<-2, -1>> \o SetToSortSeq({n \in Names : entries[n] # None}, <)

Answer(status, new_files, new_entries, inode) ==
    [status |-> status, files |-> new_files, entries |-> new_entries, inode |-> inode]

\* The files without the one that had this name only
Without(name, new_entries) ==
    IF entries[name] # None /\ \A n \in Names : new_entries[n] # entries[name]
    THEN [files EXCEPT ![entries[name]] = None]
    ELSE files

DirectoryOperation(r) ==
    LET Failure(error) == Answer(error, files, entries, r.inode)
    IN  CASE r.op = "lookup" ->
                IF entries[r.name] = None THEN Failure("DoesNotExist")
                ELSE Answer("Ok", files, entries, entries[r.name])
          [] r.op = "create" ->
                IF entries[r.name] # None THEN Failure("AlreadyExists")
                ELSE Answer("Ok", [files EXCEPT ![next_inode] = NewFile(r.kind, r.user, r.mode)],
                            [entries EXCEPT ![r.name] = next_inode], next_inode)
          [] r.op = "hardlink" ->
                IF files[r.inode] = None THEN Failure("InodeDoesNotExist")
                ELSE IF entries[r.name] # None THEN Failure("AlreadyExists")
                ELSE Answer("Ok", files, [entries EXCEPT ![r.name] = r.inode], r.inode)
          [] r.op = "unlink" ->
                IF entries[r.name] = None THEN Failure("DoesNotExist")
                ELSE LET removed == [entries EXCEPT ![r.name] = None]
                     IN  Answer("Ok", Without(r.name, removed), removed, r.inode)
          [] r.op = "rename" ->
                IF entries[r.name] = None THEN Failure("DoesNotExist")
                ELSE LET moved == [entries EXCEPT ![r.new_name] = entries[r.name], ![r.name] = None]
                     IN  Answer("Ok", Without(r.new_name, moved), moved, r.inode)

Execute(r) ==
    IF r.op \in {"lookup", "create", "hardlink", "unlink", "rename"}
    THEN DirectoryOperation(r)
    ELSE LET done == FileOperation(files[r.inode], r)
         IN  Answer(done.status, [files EXCEPT ![r.inode] = done.file], entries, r.inode)

\* The state of the servers after a request, and the answer
Commit(answer) ==
    /\ files' = answer.files
    /\ entries' = answer.entries
    /\ next_inode' = IF answer.inode = next_inode THEN next_inode + 1 ELSE next_inode
    /\ changes' = IF answer.entries # entries THEN changes + 1 ELSE changes

------------------------------------------------------------------------------
(* Handling a kernel request *)

Init ==
    /\ files = [i \in 1..MaxInodes |-> CASE i = ROOT_INODE -> NewFile("Directory", Root, Octal(7, 7, 7))
                                         [] i = ROOT_INODE + 1 -> InitialFile
                                         [] OTHER -> None]
    /\ entries = [n \in Names |-> IF n = 1 THEN ROOT_INODE + 1 ELSE None]
    /\ next_inode = ROOT_INODE + 2
    /\ file_handles = [m \in Mounts |-> <<>>]
    /\ next_file_handle = [m \in Mounts |-> 1]
    /\ call = [m \in Mounts |-> None]
    /\ outcome = "Ok"
    /\ late = {}
    /\ changes = 0
    /\ calls = 0
    /\ failures = 0

\* The inode and the handle that the kernel asks about. It knows the inodes
\* that there were, and uses a handle until it releases it.
Targets(m, k) ==
    CASE k.kind \in {"read", "write", "release"} \/ (k.kind = "setattr" /\ k.handle) ->
            {[inode |-> file_handles[m][fh].inode, fh |-> fh] : fh \in DOMAIN file_handles[m]}
      [] k.kind \in {"lookup", "create", "mknod", "symlink", "unlink", "rename", "list"} ->
            {[inode |-> ROOT_INODE, fh |-> None]}
      [] OTHER -> {[inode |-> i, fh |-> None] : i \in (ROOT_INODE + 1)..(next_inode - 1)}

\* entitled is for the properties: the handle was opened for writing, or the
\* request is about a file that it creates.
Begin(m, k) ==
    /\ call[m] = None
    /\ calls < MaxCalls
    /\ \E target \in Targets(m, k) :
        call' = [call EXCEPT ![m] =
                    [request |-> k, steps |-> Steps(k), inode |-> target.inode, fh |-> target.fh,
                     entitled |-> \/ k.kind \in {"create", "symlink"}
                                  \/ target.fh # None /\ file_handles[m][target.fh].write,
                     attrs |-> None, page |-> <<>>, since |-> changes]]
    /\ outcome' = "Ok"
    /\ calls' = calls + 1
    /\ UNCHANGED <<server, handles, late, changes, failures>>

\* The next step of the handler, for the inode at hand
Step(m) == [inode |-> call[m].inode] @@ Head(call[m].steps)

At(m, ops) == call[m] # None /\ Step(m).op \in ops

Continue(m, c) ==
    /\ call' = [call EXCEPT ![m] = IF Tail(c.steps) = <<>> THEN None
                                   ELSE [c EXCEPT !.steps = Tail(@)]]
    /\ outcome' = "Ok"

Return(m, errno) ==
    /\ call' = [call EXCEPT ![m] = None]
    /\ outcome' = errno

Proceed(m, condition, errno) == IF condition THEN Continue(m, call[m]) ELSE Return(m, errno)

\* The handle that a handler makes for the inode at hand
NewHandle(m) == [read |-> Step(m).read, write |-> Step(m).write, inode |-> call[m].inode]

\* The size of a value, or of the list of all keys, if none is given: a key
\* counts for one.
AnswerSize(attrs, keys) ==
    CASE keys # {} -> attrs.xattrs[CHOOSE key \in keys : TRUE]
      [] keys = {} /\ attrs # None -> Cardinality(DOMAIN attrs.xattrs)
      [] OTHER -> 0

LocalOps == {"CheckGroups", "CheckRead", "CheckWrite", "CheckAccess", "CheckSize", "Refuse",
             "Allocate", "Deallocate"}

\* The client calls a server, which executes the request and answers.
Serve(m) ==
    /\ call[m] # None
    /\ Step(m).op \notin LocalOps \cup {"listdir"}
    /\ LET answer == Execute(Step(m))
       IN  /\ Commit(answer)
           /\ IF answer.status = "Ok"
              THEN Continue(m, [call[m] EXCEPT !.inode = answer.inode,
                                               !.attrs = answer.files[answer.inode]])
              ELSE Return(m, IntoFuseError(answer.status))
    /\ UNCHANGED <<handles, late, calls, failures>>

\* A bug to compare with: the offset of an entry is its own, not that of the
\* next one.
ReaddirOffsetOfEntry(m) ==
    /\ At(m, {"listdir"})
    /\ LET offset == Len(call[m].page)
           rest   == SubSeq(Listing, (IF offset > 0 THEN offset - 1 ELSE 0) + 1, Len(Listing))
       IN  IF Len(rest) <= 1
           THEN Continue(m, call[m])
           ELSE /\ \E n \in 2..Len(rest) : call' = [call EXCEPT ![m].page = @ \o SubSeq(rest, 1, n)]
                /\ outcome' = "Ok"
    /\ UNCHANGED <<server, handles, late, changes, calls, failures>>

\* readdir: the servers send the whole listing every time, and the client
\* fills the kernel's buffer with what follows the offset: the kernel asks on
\* until nothing follows.
Readdir(m) ==
    /\ At(m, {"listdir"})
    /\ LET offset == Len(call[m].page)
           rest   == SubSeq(Listing, offset + 1, Len(Listing))
       IN  IF rest = <<>>
           THEN Continue(m, call[m])
           ELSE /\ \E n \in 1..Len(rest) : call' = [call EXCEPT ![m].page = @ \o SubSeq(rest, 1, n)]
                /\ outcome' = "Ok"
    /\ UNCHANGED <<server, handles, late, changes, calls, failures>>

\* The call fails before the server gets the request.
LoseRequest(m) ==
    /\ call[m] # None
    /\ Step(m).op \notin LocalOps
    /\ failures < MaxFailures
    /\ failures' = failures + 1
    /\ Return(m, IntoFuseError("Uncategorized"))
    /\ UNCHANGED <<server, handles, late, changes, calls>>

\* The connection breaks with the request on its way: the client gives up,
\* and the server executes the request all the same.
LoseResponse(m) ==
    /\ call[m] # None
    /\ Step(m).op \notin LocalOps \cup {"listdir"}
    /\ failures < MaxFailures
    /\ failures' = failures + 1
    /\ late' = late \cup {[request |-> Step(m), entitled |-> call[m].entitled,
                            user |-> call[m].request.user]}
    /\ Return(m, IntoFuseError("Uncategorized"))
    /\ UNCHANGED <<server, handles, changes, calls>>

ServeLate(l) ==
    /\ Commit(Execute(l.request))
    /\ late' = late \ {l}
    /\ outcome' = "Ok"
    /\ UNCHANGED <<handles, call, calls, failures>>

\* The checks that the client makes by itself
Check(m) ==
    /\ At(m, LocalOps \ {"Allocate", "Deallocate"})
    /\ LET step == Step(m)
           c    == call[m]
       IN  CASE step.op = "CheckGroups" ->
                    Proceed(m, step.user.uid = 0 \/ step.gid \in step.user.groups, "EPERM")
             [] step.op = "CheckRead"   -> Proceed(m, file_handles[m][c.fh].read, "EACCES")
             [] step.op = "CheckWrite"  -> Proceed(m, file_handles[m][c.fh].write, "EACCES")
             [] step.op = "CheckAccess" ->
                    Proceed(m, CheckAccess(c.attrs, step.user, step.mask), "EACCES")
             [] step.op = "CheckSize"   ->
                    Proceed(m, step.size = 0 \/ AnswerSize(c.attrs, step.keys) <= step.size, "ERANGE")
             [] step.op = "Refuse"      -> Return(m, "EACCES")
    /\ UNCHANGED <<server, handles, late, changes, calls, failures>>

\* A bug to compare with: the counter stays where it is.
AllocateFileHandleTwice(m) ==
    /\ At(m, {"Allocate"})
    /\ LET fh == next_file_handle[m]
       IN  /\ file_handles' = [file_handles EXCEPT ![m] = (fh :> NewHandle(m)) @@ @]
           /\ UNCHANGED next_file_handle
           /\ Continue(m, [call[m] EXCEPT !.fh = fh])
    /\ UNCHANGED <<server, late, changes, calls, failures>>

AllocateFileHandle(m) ==
    /\ At(m, {"Allocate"})
    /\ LET fh == next_file_handle[m]
       IN  /\ file_handles' = [file_handles EXCEPT ![m] = (fh :> NewHandle(m)) @@ @]
           /\ next_file_handle' = [next_file_handle EXCEPT ![m] = @ + 1]
           /\ Continue(m, [call[m] EXCEPT !.fh = fh])
    /\ UNCHANGED <<server, late, changes, calls, failures>>

DeallocateFileHandle(m) ==
    /\ At(m, {"Deallocate"})
    /\ file_handles' = [file_handles EXCEPT ![m] = Restrict(@, DOMAIN @ \ {call[m].fh})]
    /\ Continue(m, call[m])
    /\ UNCHANGED <<server, next_file_handle, late, changes, calls, failures>>

Next ==
    \/ \E m \in Mounts :
        \/ \E k \in Requests : Begin(m, k)
        \/ Serve(m) \/ Readdir(m) \/ LoseRequest(m) \/ LoseResponse(m)
        \/ Check(m) \/ AllocateFileHandle(m) \/ DeallocateFileHandle(m)
    \/ \E l \in late : ServeLate(l)

Spec == Init /\ [][Next]_vars

------------------------------------------------------------------------------
\* The state has its types; in particular every handle was given out before
\* the next one, so a handle is never given out twice, and a handler finds
\* the handle that it is called with.
TypeOK ==
    /\ \A i \in DOMAIN files : files[i] # None => files[i].mode \in 0..1023 /\ files[i].size \in Nat
    /\ \A n \in Names : entries[n] # None => entries[n] < next_inode /\ files[entries[n]] # None
    /\ \A m \in Mounts :
        /\ \A fh \in DOMAIN file_handles[m] : fh < next_file_handle[m]
        /\ call[m] # None /\ call[m].fh # None => call[m].fh \in DOMAIN file_handles[m]

\* The request is about what a handle gives the right to: reading, writing, or
\* setting the size only.
ByHandle(m) ==
    LET k == call[m].request
        h == file_handles[m][call[m].fh]
    IN  \/ k.kind = "read" /\ h.read
        \/ k.kind = "write" /\ h.write
        \/ /\ k.kind = "setattr" /\ k.handle /\ h.write
           /\ k.mode = None /\ k.uid = None /\ k.gid = None /\ k.atime = None /\ k.mtime = None

\* setattr says why it checks handles by itself: a handle opened with W_OK
\* never fails to truncate, even if the file was chmod'ed. The same for reads
\* and writes: who has opened a file goes on using it, whatever others do to
\* its mode, owner and group between any two steps.
HandleKeepsItsRights ==
    [][\A m \in Mounts :
        call[m] # None /\ call'[m] = None /\ call[m].fh # None /\ ByHandle(m)
            => outcome' \notin {"EACCES", "EPERM"}]_vars

\* A step of a mount, or a late one, with who asked for it
Asking ==
    late \cup {[request |-> Step(m), entitled |-> call[m].entitled, user |-> call[m].request.user] :
                m \in {n \in Mounts : call[n] # None}}

\* The user may change the file in this way, by the rules of POSIX.
MayChange(user, entitled, old, new) ==
    LET owns     == user.uid \in {0, old.uid}
        may_write == entitled \/ Permits(old, user, {W_OK})
    IN  /\ new.mode # old.mode => owns
        /\ new.uid # old.uid => user.uid = 0
        /\ new.gid # old.gid => owns /\ (user.uid = 0 \/ new.gid \in user.groups)
        /\ new.size # old.size => may_write
        /\ "given" \in {new.atime, new.mtime} \ {old.atime, old.mtime} => owns
        /\ <<new.atime, new.mtime>> # <<old.atime, old.mtime>> => owns \/ may_write
        /\ \A key \in DOMAIN new.xattrs \cup DOMAIN old.xattrs :
            \/ key \in DOMAIN new.xattrs \cap DOMAIN old.xattrs /\ new.xattrs[key] = old.xattrs[key]
            \/ user.uid = 0
            \/ key.namespace \in {"user", "acl"} /\ Permits(old, user, {W_OK})

\* The checks are split between the client and the servers, and a file can
\* change between the two. Whatever the order, and though failed requests are
\* executed late: a file is changed only for a user who may change it so, and
\* a handle gives only rights that the mode gave when it was looked at. Who
\* creates a file may open it in any way.
ChangesAreByRight ==
    [][/\ \A i \in DOMAIN files :
            files[i] # files'[i] /\ files[i] # None /\ files'[i] # None =>
                \E asker \in Asking :
                    /\ asker.request.inode = i
                    /\ MayChange(asker.user, asker.entitled, files[i], files'[i])
       /\ \A m \in Mounts :
            \A fh \in DOMAIN file_handles'[m] \ DOMAIN file_handles[m] :
                LET h == file_handles'[m][fh]
                    k == call[m].request
                IN  k.kind # "create" =>
                    Permits(call[m].attrs, k.user,
                            (IF h.write THEN {W_OK} ELSE {})
                                \cup (IF ~h.read THEN {} ELSE IF k.kind = "open" /\ k.exec
                                     THEN {X_OK} ELSE {R_OK}))]_vars

\* readdir asks for the whole listing again for every page, and finds its
\* place by counting. A program that lists the directory sees every entry
\* once, unless the directory was changed meanwhile.
ListingIsComplete ==
    \A m \in Mounts :
        At(m, {"Deallocate"}) /\ call[m].request.kind = "list" /\ call[m].since = changes
            => call[m].page = Listing
==============================================================================
