------------------------------ MODULE HostFiles ------------------------------
(***************************************************************************)
(* The host's file system, as far as the programs of assignment 5 see it:  *)
(* one directory of names, inodes with data, permissions and extended      *)
(* attributes, and open descriptors.  Not in the repository: each operator *)
(* is the system call of its name.  A call that would fail is not enabled, *)
(* and changes nothing.                                                    *)
(***************************************************************************)
EXTENDS Integers, Sequences, FiniteSets

CONSTANTS
    Path, Ino,
    AttrName,   \* names of extended attributes
    Holder,     \* who may hold a descriptor, one each
    Hole,       \* the data of a part of a file that was never written
    None

ASSUME HostAssumption == None \notin Path /\ None \notin Ino

VARIABLES
    entry,      \* entry[p]: the inode named p, or None
    inode,      \* inode[i]: a record, see NewInode
    fd          \* fd[h]: the inode holder h has open, or None

host == <<entry, inode, fd>>

NewInode(kind, data, mode) ==
    [kind |-> kind, data |-> data, mode |-> mode,
     attr |-> [n \in {} |-> <<>>]]

Unused == {i \in Ino : /\ \A p \in Path : entry[p] # i
                       /\ \A h \in Holder : fd[h] # i}

Exists(p) == entry[p] # None
Kind(p)   == IF Exists(p) THEN inode[entry[p]].kind ELSE "none"

\* A symbolic link to a name; a link to a link is not followed.
Follow(p) == IF Kind(p) = "symlink" THEN inode[entry[p]].data[1] ELSE p

CanOpen(p, access) == /\ Kind(Follow(p)) = "file"
                      /\ access \in inode[entry[Follow(p)]].mode

\* fd[h] = open(p, access)
open(h, p, access) ==
    /\ CanOpen(p, access)
    /\ fd' = [fd EXCEPT ![h] = entry[Follow(p)]]
    /\ UNCHANGED <<entry, inode>>

close(h) == fd' = [fd EXCEPT ![h] = None] /\ UNCHANGED <<entry, inode>>

\* A new inode under a name that is free.
MakeNode(p, node) ==
    /\ ~Exists(p)
    /\ \E i \in Unused : /\ entry' = [entry EXCEPT ![p] = i]
                         /\ inode' = [inode EXCEPT ![i] = node]
    /\ UNCHANGED fd

CanCreat(p) == Kind(Follow(p)) = "none" \/ CanOpen(p, "w")

\* open(p, O_CREAT | O_TRUNC): an existing file is emptied.
creat(h, p, mode) ==
    LET q == Follow(p)
    IN \/ /\ Kind(q) = "none"
          /\ \E i \in Unused :
                /\ entry' = [entry EXCEPT ![q] = i]
                /\ inode' = [inode EXCEPT ![i] = NewInode("file", <<>>, mode)]
                /\ fd' = [fd EXCEPT ![h] = i]
       \/ /\ CanOpen(p, "w")
          /\ inode' = [inode EXCEPT ![entry[q]].data = <<>>]
          /\ fd' = [fd EXCEPT ![h] = entry[q]]
          /\ UNCHANGED entry

unlink(p) == /\ Exists(p) /\ Kind(p) # "dir"
             /\ entry' = [entry EXCEPT ![p] = None]
             /\ UNCHANGED <<inode, fd>>

rmdir(p) == /\ Kind(p) = "dir"
            /\ entry' = [entry EXCEPT ![p] = None]
            /\ UNCHANGED <<inode, fd>>

link(from, to) == /\ Exists(from) /\ Kind(from) # "dir" /\ ~Exists(to)
                  /\ entry' = [entry EXCEPT ![to] = entry[from]]
                  /\ UNCHANGED <<inode, fd>>

rename(from, to) ==
    /\ Exists(from) /\ from # to
    /\ Exists(to) => (Kind(from) = "dir") = (Kind(to) = "dir")
    /\ entry' = IF entry[from] = entry[to] THEN entry   \* nothing to do
                ELSE [entry EXCEPT ![to] = entry[from], ![from] = None]
    /\ UNCHANGED <<inode, fd>>

chmod(p, mode) == /\ Exists(Follow(p))
                  /\ inode' = [inode EXCEPT ![entry[Follow(p)]].mode = mode]
                  /\ UNCHANGED <<entry, fd>>

truncate(p) == /\ CanOpen(p, "w")
               /\ inode' = [inode EXCEPT ![entry[Follow(p)]].data = <<>>]
               /\ UNCHANGED <<entry, fd>>

\* The data after a write of cells at offset off (the first cell is at 0).
WriteAt(data, off, cells) ==
    LET end == IF off + Len(cells) > Len(data) THEN off + Len(cells)
                                               ELSE Len(data)
    IN [k \in 1 .. end |->
           IF k > off /\ k <= off + Len(cells) THEN cells[k - off]
           ELSE IF k <= Len(data) THEN data[k] ELSE Hole]

\* pwrite on the descriptor of h.
pwrite(h, off, cells) ==
    inode' = [inode EXCEPT ![fd[h]].data = WriteAt(@, off, cells)]

(***************************************************************************)
(* Extended attributes.  A result is a value or list, "ENOENT", "ENODATA"  *)
(* or "ERANGE"; with a size of 0 the calls only tell the size.             *)
(***************************************************************************)
Attrs(p) == inode[entry[p]].attr

Got(v)      == [res |-> "ok", data |-> v]
Failed(err) == [res |-> err, data |-> <<>>]

lgetxattr(p, name, size) ==
    CASE ~Exists(p)                             -> Failed("ENOENT")
      [] Exists(p) /\ name \notin DOMAIN Attrs(p) -> Failed("ENODATA")
      [] OTHER -> IF size > 0 /\ Len(Attrs(p)[name]) > size
                  THEN Failed("ERANGE") ELSE Got(Attrs(p)[name])

\* The list holds the names in any order; here it is the set of them.
llistxattr(p, size) ==
    IF ~Exists(p) THEN [res |-> "ENOENT", names |-> {}]
    ELSE IF size > 0 /\ Cardinality(DOMAIN Attrs(p)) > size
         THEN [res |-> "ERANGE", names |-> {}]
         ELSE [res |-> "ok", names |-> DOMAIN Attrs(p)]

lsetxattr(p, name, value) ==
    /\ Exists(p) /\ Kind(p) # "symlink"
    /\ inode' = [inode EXCEPT ![entry[p]].attr =
                    [n \in DOMAIN @ \cup {name} |->
                        IF n = name THEN value ELSE @[n]]]
    /\ UNCHANGED <<entry, fd>>

lremovexattr(p, name) ==
    /\ Exists(p) /\ name \in DOMAIN Attrs(p)
    /\ inode' = [inode EXCEPT ![entry[p]].attr =
                    [n \in DOMAIN @ \ {name} |-> @[n]]]
    /\ UNCHANGED <<entry, fd>>
=============================================================================
