------------------------------ MODULE MirrorFs ------------------------------
(***************************************************************************)
(* prog_assign/assignment-5/pa5/fusexmp.c: a file system that mirrors the  *)
(* host's.  Each handler is given a path and makes the host's call of its  *)
(* name; nothing is kept between two requests, so that a read or a write   *)
(* of an open file opens its path once more.  The handlers xmp_X are       *)
(* used by clients, which open, write, read and release one file, by       *)
(* others, who change the tree through the mount, and by the tools; others *)
(* still work on the host behind the mount.                                *)
(*                                                                         *)
(* The kernel and libfuse, which are external, look a name up before they  *)
(* create it, keep the path of an open file up to date across a rename     *)
(* through the mount and do not let it be removed there.  A request that   *)
(* fails is reported to its caller and changes nothing.                    *)
(***************************************************************************)
EXTENDS HostFiles

CONSTANTS
    Client,       \* processes with a file open on the mount
    Cell,         \* the data they write
    UserName,     \* the attribute that others set
    Modes,        \* permissions of files
    WriteBound,   \* bound: writes per open file
    OtherBound    \* bound: requests of the others

ASSUME MirrorAssumption ==
    /\ Client \subseteq Holder /\ None \notin Client
    /\ WriteBound \in Nat /\ OtherBound \in Nat

VARIABLES
    at,          \* where a client, or the request it waits for, is
    path,        \* the path of its file, kept by libfuse
    opened,      \* history: the inode it opened
    acked,       \* history: the cells whose writes succeeded
    disturbed,   \* history: clients whose file was changed by someone else
    requests     \* requests of the others so far

mirror == <<at, path, opened, acked, disturbed, requests>>

Open(c) == at[c] \in {"open", "writing", "reading"}
Busy(p) == \E c \in Client : path[c] = p /\ at[c] # "idle"

MirrorInit ==
    /\ at = [c \in Client |-> "idle"]
    /\ path = [c \in Client |-> None]
    /\ opened = [c \in Client |-> None]
    /\ acked = [c \in Client |-> <<>>]
    /\ disturbed = {} /\ requests = 0

(***************************************************************************)
(* Handlers that are one call                                              *)
(***************************************************************************)
xmp_getattr(p)  == Kind(p)
xmp_readlink(p) == Follow(p)
xmp_mknod(p, mode) ==
    \E kind \in {"file", "fifo"} : MakeNode(p, NewInode(kind, <<>>, mode))
xmp_mkdir(p, mode)    == MakeNode(p, NewInode("dir", <<>>, mode))
xmp_unlink(p)         == unlink(p)
xmp_rmdir(p)          == rmdir(p)
xmp_symlink(from, to) == MakeNode(to, NewInode("symlink", <<from>>, {}))
\* Mistake: the arguments are swapped.
RenameSwapped(from, to) == rename(to, from)
xmp_rename(from, to)  == rename(from, to)
xmp_link(from, to)    == link(from, to)
xmp_chmod(p, mode)    == chmod(p, mode)
xmp_truncate(p)       == truncate(p)
xmp_setxattr(p, name, value)  == lsetxattr(p, name, value)
xmp_getxattr(p, name, size)   == lgetxattr(p, name, size)
xmp_listxattr(p, size)        == llistxattr(p, size)
xmp_removexattr(p, name)      == lremovexattr(p, name)

(***************************************************************************)
(* The file of a client                                                    *)
(***************************************************************************)

\* Clients other than c whose file a step changes.
Hit(c) == {o \in Client \ {c} :
              /\ opened[o] # None
              /\ inode'[opened[o]].data # inode[opened[o]].data}

\* Between the lookup of a name that is free and its creation the kernel lets
\* nobody else change the directory through the mount.
Locked == \E c \in Client : at[c] = "creating"

\* The kernel looks the name up, following a symbolic link.
Lookup(c, p) ==
    /\ at[c] = "idle" /\ ~Locked
    /\ LET q == xmp_readlink(p)
       IN /\ xmp_getattr(q) \in {"none", "file"}
          /\ path' = [path EXCEPT ![c] = q]
          /\ at' = [at EXCEPT ![c] = IF xmp_getattr(q) = "none"
                                     THEN "creating" ELSE "opening"]
    /\ UNCHANGED <<host, opened, acked, disturbed, requests>>

\* Since the lookup the name was made a link behind the mount.
Relinked(c) == IF Kind(path[c]) = "symlink" THEN {c} ELSE {}

\* The descriptor is closed before the handler returns.
Opens(c, i) ==
    /\ at' = [at EXCEPT ![c] = "open"]
    /\ opened' = [opened EXCEPT ![c] = i]
    /\ UNCHANGED <<fd, path, acked, requests>>

\* creat(): what another made of the name since the lookup is emptied.
xmp_create(c) ==
    /\ at[c] = "creating" /\ CanCreat(path[c])
    /\ LET q == Follow(path[c])
       IN \/ /\ Kind(q) = "none"
             /\ \E i \in Unused, mode \in Modes :
                   /\ entry' = [entry EXCEPT ![q] = i]
                   /\ inode' = [inode EXCEPT
                                   ![i] = NewInode("file", <<>>, mode)]
                   /\ Opens(c, i)
          \/ /\ Kind(q) # "none"
             /\ inode' = [inode EXCEPT ![entry[q]].data = <<>>]
             /\ Opens(c, entry[q])
             /\ UNCHANGED entry
    /\ disturbed' = (disturbed \ {c}) \cup Hit(c) \cup Relinked(c)

xmp_open(c) ==
    /\ at[c] = "opening" /\ CanOpen(path[c], "w")
    /\ Opens(c, entry[Follow(path[c])])
    /\ disturbed' = (disturbed \ {c}) \cup Relinked(c)
    /\ UNCHANGED <<entry, inode>>

OpenFails(c) ==
    /\ \/ at[c] = "opening" /\ ~CanOpen(path[c], "w")
       \/ at[c] = "creating" /\ ~CanCreat(path[c])
    /\ at' = [at EXCEPT ![c] = "idle"]
    /\ path' = [path EXCEPT ![c] = None]
    /\ UNCHANGED <<host, opened, acked, disturbed, requests>>

\* The first half of xmp_write and xmp_read: the path is opened again.
Reopen(c) ==
    /\ at[c] = "open"
    /\ \/ /\ Len(acked[c]) < WriteBound
          /\ open(c, path[c], "w") /\ at' = [at EXCEPT ![c] = "writing"]
       \/ open(c, path[c], "r") /\ at' = [at EXCEPT ![c] = "reading"]
    /\ UNCHANGED <<path, opened, acked, disturbed, requests>>

\* Mistake: an error returns at once.
WriteWithoutClose(c) ==
    /\ at[c] = "writing"
    /\ at' = [at EXCEPT ![c] = "open"]
    /\ \/ /\ UNCHANGED <<inode, acked, disturbed, fd>>
       \/ \E x \in Cell :
             /\ pwrite(c, Len(acked[c]), <<x>>)
             /\ acked' = [acked EXCEPT ![c] = Append(@, x)]
             /\ disturbed' = disturbed \cup Hit(c)
             /\ fd' = [fd EXCEPT ![c] = None]
    /\ UNCHANGED <<entry, path, opened, requests>>

\* The second half of xmp_write: pwrite, which may fail, and close.
xmp_write(c) ==
    /\ at[c] = "writing"
    /\ at' = [at EXCEPT ![c] = "open"]
    /\ \/ UNCHANGED <<inode, acked, disturbed>>
       \/ \E x \in Cell : /\ pwrite(c, Len(acked[c]), <<x>>)
                          /\ acked' = [acked EXCEPT ![c] = Append(@, x)]
                          /\ disturbed' = disturbed \cup Hit(c)
    /\ fd' = [fd EXCEPT ![c] = None]
    /\ UNCHANGED <<entry, path, opened, requests>>

xmp_read(c) ==
    /\ at[c] = "reading"
    /\ at' = [at EXCEPT ![c] = "open"]
    /\ close(c)
    /\ UNCHANGED <<path, opened, acked, disturbed, requests>>

\* A stub.
xmp_release(c) ==
    /\ at[c] = "open"
    /\ at' = [at EXCEPT ![c] = "idle"]
    /\ path' = [path EXCEPT ![c] = None]
    /\ opened' = [opened EXCEPT ![c] = None]
    /\ acked' = [acked EXCEPT ![c] = <<>>]
    /\ disturbed' = disturbed \ {c}
    /\ UNCHANGED <<host, requests>>

ClientStep(c) == \/ (\E p \in Path : Lookup(c, p))
                 \/ xmp_create(c) \/ xmp_open(c) \/ OpenFails(c)
                 \/ Reopen(c) \/ xmp_write(c) \/ xmp_read(c) \/ xmp_release(c)

(***************************************************************************)
(* The others                                                              *)
(***************************************************************************)
Counted == requests < OtherBound /\ requests' = requests + 1

\* A rename through the mount, with which libfuse moves open files along.
MovedThroughMount ==
    \E from, to \in Path :
       /\ Counted /\ ~Locked
       /\ \A c \in Client :
             /\ path[c] = to => at[c] = "idle"
             /\ path[c] = from => at[c] \in {"idle", "open"}
       /\ xmp_rename(from, to)
       /\ path' = [c \in Client |-> IF path[c] = from THEN to ELSE path[c]]
       /\ UNCHANGED <<at, opened, acked, disturbed>>

ChangedThroughMount ==
    /\ Counted
    /\ \E p, q \in Path, mode \in Modes :
          \/ /\ ~Locked
             /\ \/ xmp_mknod(p, mode) \/ xmp_mkdir(p, mode) \/ xmp_rmdir(p)
                \/ xmp_symlink(q, p) \/ xmp_link(q, p)
                \/ ~Busy(p) /\ xmp_unlink(p)
          \/ xmp_chmod(p, mode) \/ xmp_truncate(p)
          \/ \E x \in Cell : xmp_setxattr(p, UserName, <<x>>)
                             \/ xmp_setxattr(p, UserName, <<x, x>>)
          \/ xmp_removexattr(p, UserName)
    /\ disturbed' = disturbed \cup Hit(None)
    /\ UNCHANGED <<at, path, opened, acked>>

\* Behind the mount; the clients whose path is no longer their file's.
ChangedOnHost ==
    /\ Counted
    /\ \E p, q \in Path : rename(p, q) \/ unlink(p) \/ truncate(p)
    /\ disturbed' = disturbed \cup Hit(None) \cup
          {c \in Client : opened[c] # None /\ entry'[path[c]] # opened[c]}
    /\ UNCHANGED <<at, path, opened, acked>>

Others == MovedThroughMount \/ ChangedThroughMount \/ ChangedOnHost

(***************************************************************************)
(* Correctness                                                             *)
(***************************************************************************)

\* Although each request finds the file anew, the requests of an open file
\* all reach the inode that was opened, and what was written stays in it, in
\* order, as long as nobody changes the file or moves it behind the mount.
SameFile ==
    \A c \in Client : Open(c) /\ c \notin disturbed =>
        /\ entry[path[c]] = opened[c]
        /\ fd[c] \in {opened[c], None}
        /\ acked[c] = SubSeq(inode[opened[c]].data, 1, Len(acked[c]))

\* No handler, whether it fails or not, leaves a descriptor open.
NoDescriptorLeaks ==
    \A c \in Client : fd[c] # None => at[c] \in {"writing", "reading"}
=============================================================================
