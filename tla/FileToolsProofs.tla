--------------------------- MODULE FileToolsProofs ---------------------------
(***************************************************************************)
(* Proofs about the programs of assignment 5 in FileTools, for any names,  *)
(* inodes, clients and data.                                               *)
(***************************************************************************)
EXTENDS FileTools, FiniteSetTheorems, SequenceTheorems, TLAPS

(***************************************************************************)
(* The host                                                                *)
(***************************************************************************)

\* What a cell of a file can be: given at first, written, encrypted with a key
\* or decrypted with one.
Raw   == Cell \cup {Hole} \cup Path
         \cup UNION {{s[k] : k \in DOMAIN s} :
                         s \in InitialData \cup InitialAttr}
Datum == Raw \cup [v : {d.v : d \in Raw} \cup {Padding, Junk},
                   key : Key \cup {NoKey}]
Cells == Seq(Datum)

Node == [kind : {"file", "dir", "symlink", "fifo"},
         data : Cells,
         mode : Modes \cup {{}, FileMode},
         attr : [{} -> Cells] \cup [{UserName} -> Cells]]

HostTypes ==
    /\ entry \in [Path -> Ino \cup {None}]
    /\ inode \in [Ino -> Node]
    /\ fd \in [Holder -> Ino \cup {None}]

\* Links lead to names, and only files are open.
HostInv ==
    /\ HostTypes
    /\ \A i \in Ino : inode[i].kind = "symlink" =>
          Len(inode[i].data) > 0 /\ inode[i].data[1] \in Path
    /\ \A h \in Holder : fd[h] # None => inode[fd[h]].kind = "file"

(***************************************************************************)
(* The mirror file system                                                  *)
(***************************************************************************)
Before == {"idle", "creating", "opening"}
During == {"writing", "reading"}

MirrorTypes ==
    /\ program \in {"mount", "crypt", "xattr"}
    /\ at \in [Client -> Before \cup {"open"} \cup During]
    /\ path \in [Client -> Path \cup {None}]
    /\ opened \in [Client -> Ino \cup {None}]
    /\ acked \in [Client -> Seq(Cell)]
    /\ program # "mount" => \A c \in Client : at[c] = "idle"

\* What is kept for a client at each point, and that a request has a
\* descriptor exactly while it works on the file.
Kept(c) ==
    /\ at[c] = "idle" <=> path[c] = None
    /\ at[c] \in Before <=> opened[c] = None
    /\ at[c] \in Before => acked[c] = <<>>
    /\ fd[c] # None <=> at[c] \in During

\* The file of a client that nobody else has touched.
Untouched(c) ==
    opened[c] # None /\ c \notin disturbed =>
        /\ entry[path[c]] = opened[c]
        /\ fd[c] \in {opened[c], None}
        /\ inode[opened[c]].kind = "file"
        /\ Len(acked[c]) <= Len(inode[opened[c]].data)
        /\ \A k \in 1 .. Len(acked[c]) :
              acked[c][k] = inode[opened[c]].data[k]

MirrorInv == /\ MirrorTypes
             /\ \A c \in Client : Kept(c)
             /\ \A c \in Client : Untouched(c)

(***************************************************************************)
(* The encryption tool                                                     *)
(***************************************************************************)
HasInput  == {"openOut", "read", "write", "final", "lastWrite", "closeOut",
              "flushed"}
HasOutput == HasInput \ {"openOut"}
Loop      == {"read", "write", "final"}
AfterLoop == {"lastWrite", "closeOut", "flushed"}

CryptTypes ==
    /\ step \in HasInput \cup {"args", "exit"}
    /\ action \in {"encrypt", "decrypt", "copy"}
    /\ key \in Key \cup {NoKey}
    /\ inPath \in Path /\ outPath \in Path
    /\ inPos \in Nat /\ outPos \in Nat
    /\ outbuf \in Cells /\ hold \in Cells /\ pending \in Cells
    /\ source \in Cells /\ handed \in Cells
    /\ reported \in BOOLEAN /\ readError \in BOOLEAN
    /\ lastLost \in BOOLEAN /\ tampered \in BOOLEAN

\* The tool starts on what files hold at first, or on nothing.
Fresh == InitialData \cup {<<>>}
SourceGiven ==
    /\ step = "args" => \A i \in Ino : inode[i].kind = "file" =>
                                          inode[i].data \in Fresh
    /\ step \in HasInput => source \in Fresh

FilesHeld ==
    /\ step \in HasInput => fd["in"] # None
    /\ step \in HasOutput => fd["out"] # None

FilesKnown ==
    /\ step \in HasInput /\ ~tampered => Data("in") = source
    /\ step \in HasOutput /\ ~tampered => fd["in"] # fd["out"]

\* Nothing is done before both files are open; what goes wrong is reported
\* only at the end.
Phase ==
    /\ step \in {"args", "openOut"} =>
          /\ inPos = 0 /\ outPos = 0 /\ outbuf = <<>> /\ hold = <<>>
          /\ pending = <<>> /\ handed = <<>> /\ ~lastLost
    /\ step \in {"args", "openOut"} \cup Loop => ~reported
    /\ step \notin {"write", "lastWrite"} /\ ~reported => outbuf = <<>>
    /\ step = "flushed" => pending = <<>>

\* What was given to stdio is in the file or pending, if no write failed.
OutputInv ==
    step \in HasOutput /\ ~tampered /\ ~reported /\ ~lastLost =>
        /\ Len(Data("out")) = outPos
        /\ Data("out") \o pending = handed

\* The result for a cell of the input, and for the first n; the last of
\* those that a decryption has read is kept back.
Result(c) == CASE action = "copy"    -> c
               [] action = "encrypt" -> Enc(c)
               [] action = "decrypt" -> Dec(c)
Done(n)   == IF action = "decrypt" /\ n > 0 THEN n - 1 ELSE n
Results(n) == [k \in 1 .. Done(n) |-> Result(source[k])]

LoopInv ==
    step \in Loop /\ ~tampered =>
        /\ inPos <= Len(source)
        /\ handed \o outbuf = Results(inPos)
        /\ hold = IF action = "decrypt" /\ inPos > 0 THEN <<source[inPos]>>
                                                     ELSE <<>>
        /\ step = "final" => inPos = Len(source) \/ readError

\* After the loop: what was read is handed over, with what the cipher adds.
Given == handed \o outbuf
EndInv ==
    step \in AfterLoop /\ ~tampered /\ ~reported =>
        /\ inPos <= Len(source)
        /\ inPos = Len(source) \/ readError
        /\ action = "copy" => Given = Results(inPos)
        /\ action = "encrypt" => Given = Results(inPos) \o <<Pad>>
        /\ action = "decrypt" =>
              /\ inPos > 0 /\ hold = <<source[inPos]>>
              /\ \/ Given = Results(inPos)
                 \/ ByChance /\ Given = Results(inPos) \o <<Piece>>

CryptInv ==
    program = "crypt" => /\ SourceGiven /\ FilesKnown /\ Phase
                         /\ OutputInv /\ LoopInv /\ EndInv

(***************************************************************************)
(* The attributes tool                                                     *)
(***************************************************************************)
XattrInv ==
    program = "xattr" =>
        /\ stage # "exit" => printed = Nothing /\ ~overrun
        /\ command = "-g" /\ stage = "sized" => room \in Nat

\* The programs hold what they work on, and the clients their files.
BaseInv == /\ HostInv /\ MirrorInv
           /\ program = "crypt" => CryptTypes /\ FilesHeld
           /\ program = "xattr" => target \in Path

(***************************************************************************)
(* What calls do to the host                                               *)
(***************************************************************************)
GoodLink(node) ==
    node.kind = "symlink" => Len(node.data) > 0 /\ node.data[1] \in Path

\* One change of an inode: a new one, the data of a file, or what is neither
\* its data nor its kind.
NodeMade(i, node)    == /\ i \in Unused /\ node \in Node /\ GoodLink(node)
                        /\ inode' = [inode EXCEPT ![i] = node]
DataSet(i, d)        == /\ i \in Ino /\ inode[i].kind = "file" /\ d \in Cells
                        /\ inode' = [inode EXCEPT ![i].data = d]
NodeMarked(i, node)  == /\ i \in Ino /\ node \in Node
                        /\ node.kind = inode[i].kind
                        /\ node.data = inode[i].data
                        /\ inode' = [inode EXCEPT ![i] = node]

NodeMove == \/ UNCHANGED inode
            \/ \E i \in Ino, node \in Node : NodeMade(i, node)
            \/ \E i \in Ino, d \in Cells : DataSet(i, d)
            \/ \E i \in Ino, node \in Node : NodeMarked(i, node)

EntryMove == entry' \in [Path -> Ino \cup {None}]

\* A descriptor is closed, or opened for a file.
FdMove == /\ fd' \in [Holder -> Ino \cup {None}]
          /\ \A h \in Holder : \/ fd'[h] \in {fd[h], None}
                               \/ inode'[fd'[h]].kind = "file"

\* What is in use keeps its kind.
KindsKept == \A i \in Ino \ Unused : inode'[i].kind = inode[i].kind

\* Each change of an inode, cell by cell.
LEMMA NodeMoves ==
    ASSUME HostInv, NodeMove
    PROVE  /\ inode' \in [Ino -> Node]
           /\ \A i \in Ino : GoodLink(inode[i])'
           /\ KindsKept
<1> USE DEF HostInv, HostTypes, KindsKept, GoodLink
<1>1. CASE UNCHANGED inode BY <1>1
<1>2. ASSUME NEW i \in Ino, NEW node \in Node, NodeMade(i, node)
      PROVE  /\ inode' \in [Ino -> Node]
             /\ \A j \in Ino : GoodLink(inode[j])'
             /\ KindsKept
    <2>1. /\ inode'[i] = node /\ i \in Unused /\ inode' \in [Ino -> Node]
          /\ \A j \in Ino : j # i => inode'[j] = inode[j]
        BY <1>2 DEF NodeMade
    <2> QED BY <2>1, <1>2 DEF NodeMade
<1>3. ASSUME NEW i \in Ino, NEW d \in Cells, DataSet(i, d)
      PROVE  /\ inode' \in [Ino -> Node]
             /\ \A j \in Ino : GoodLink(inode[j])'
             /\ KindsKept
    <2>1. inode[i] \in Node OBVIOUS
    <2>2. [inode[i] EXCEPT !.data = d] \in Node
          /\ [inode[i] EXCEPT !.data = d].kind = inode[i].kind
        BY <2>1 DEF Node
    <2> DEFINE node == [inode[i] EXCEPT !.data = d]
    <2>3. inode' = [inode EXCEPT ![i] = node] BY <1>3 DEF DataSet
    <2>4. node \in Node /\ node.kind = "file" BY <2>2, <1>3 DEF DataSet
    <2> HIDE DEF node
    <2>5. /\ inode'[i] = node /\ inode' \in [Ino -> Node]
          /\ \A j \in Ino : j # i => inode'[j] = inode[j]
        BY <2>3, <2>4
    <2> QED BY <2>4, <2>5, <1>3 DEF DataSet
<1>4. ASSUME NEW i \in Ino, NEW node \in Node, NodeMarked(i, node)
      PROVE  /\ inode' \in [Ino -> Node]
             /\ \A j \in Ino : GoodLink(inode[j])'
             /\ KindsKept
    <2>1. /\ inode'[i] = node /\ inode' \in [Ino -> Node]
          /\ \A j \in Ino : j # i => inode'[j] = inode[j]
        BY <1>4 DEF NodeMarked
    <2> QED BY <2>1, <1>4 DEF NodeMarked
<1> QED BY <1>1, <1>2, <1>3, <1>4 DEF NodeMove

\* Moves of the nodes, the entries and the descriptors keep the host.
LEMMA HostMoves ==
    ASSUME HostInv, NodeMove, EntryMove, FdMove PROVE HostInv' /\ KindsKept
<1>1. /\ inode' \in [Ino -> Node] /\ KindsKept
      /\ \A i \in Ino : GoodLink(inode[i])'
    BY NodeMoves
<1>2. \A h \in Holder : fd[h] # None => fd[h] \in Ino \ Unused
    BY DEF HostInv, HostTypes, Unused
<1>3. \A h \in Holder : fd'[h] # None => inode'[fd'[h]].kind = "file"
    <2>1. SUFFICES ASSUME NEW h \in Holder, fd'[h] # None
                   PROVE  inode'[fd'[h]].kind = "file"
        OBVIOUS
    <2>2. CASE fd'[h] = fd[h]
        BY <2>1, <2>2, <1>1, <1>2 DEF HostInv, KindsKept
    <2> QED BY <2>1, <2>2 DEF FdMove
<1> QED BY <1>1, <1>3 DEF HostInv, HostTypes, EntryMove, FdMove, GoodLink

\* The name a link leads to, and what a call that opens it finds there.
LEMMA Following ==
    ASSUME HostInv, NEW p \in Path
    PROVE  /\ Follow(p) \in Path
           /\ Kind(p) # "symlink" => Follow(p) = p
           /\ Kind(p) # "none" =>
                 entry[p] \in Ino /\ Kind(p) = inode[entry[p]].kind
           /\ Kind(p) = "none" <=> entry[p] = None
           /\ Kind(p) \in {"none", "file", "dir", "symlink", "fifo"}
<1>1. entry[p] \in Ino \cup {None} BY DEF HostInv, HostTypes
<1>2. \A i \in Ino : inode[i].kind \in {"file", "dir", "symlink", "fifo"}
    BY DEF HostInv, HostTypes, Node
<1>3. Kind(p) = "symlink" => inode[entry[p]].data[1] \in Path
    BY <1>1, <1>2, HostAssumption DEF Kind, Exists, HostInv
<1> QED BY <1>1, <1>2, <1>3, HostAssumption DEF Kind, Exists, Follow

\* What can be opened is a file behind the links.
LEMMA Opening ==
    ASSUME HostInv, NEW p \in Path, NEW access, CanOpen(p, access)
    PROVE  /\ Follow(p) \in Path /\ entry[Follow(p)] \in Ino
           /\ inode[entry[Follow(p)]].kind = "file"
<1>1. Follow(p) \in Path BY Following
<1>2. Kind(Follow(p)) = "file" BY DEF CanOpen
<1> QED BY <1>1, <1>2, Following

\* A new node has its kind and its data.
LEMMA NodesNew ==
    ASSUME NEW kind \in {"file", "dir", "symlink", "fifo"}, NEW data \in Cells,
           NEW mode \in Modes \cup {{}, FileMode}
    PROVE  /\ NewInode(kind, data, mode) \in Node
           /\ NewInode(kind, data, mode).kind = kind
           /\ NewInode(kind, data, mode).data = data
<1>1. [n \in {} |-> <<>>] \in [{} -> Cells] OBVIOUS
<1> QED BY <1>1 DEF NewInode, Node

\* The empty file.
LEMMA NoCells == <<>> \in Cells
BY EmptySeq DEF Cells

(***************************************************************************)
(* What the others do                                                      *)
(***************************************************************************)

\* They make nodes without data and take data away, but write none.
OthersNode == \/ UNCHANGED inode
              \/ \E i \in Ino, node \in Node :
                    /\ NodeMade(i, node)
                    /\ node.kind = "file" => node.data = <<>>
              \/ \E i \in Ino : DataSet(i, <<>>)
              \/ \E i \in Ino, node \in Node : NodeMarked(i, node)

OthersMove == OthersNode /\ EntryMove /\ UNCHANGED fd

\* Each file is as it was, or empty.
NodesFresh ==
    \A i \in Ino : inode'[i].kind = "file" =>
        \/ inode'[i].data = <<>>
        \/ inode[i].kind = "file" /\ inode'[i].data = inode[i].data

\* What the others do to the nodes writes nothing.
LEMMA OthersFresh ==
    ASSUME HostInv, OthersNode PROVE NodeMove /\ NodesFresh
<1> USE DEF HostInv, HostTypes, NodesFresh
<1>1. CASE UNCHANGED inode BY <1>1 DEF NodeMove
<1>2. ASSUME NEW i \in Ino, NEW node \in Node, NodeMade(i, node),
             node.kind = "file" => node.data = <<>>
      PROVE  NodeMove /\ NodesFresh
    <2>1. /\ inode'[i] = node
          /\ \A j \in Ino : j # i => inode'[j] = inode[j]
        BY <1>2 DEF NodeMade
    <2> QED BY <2>1, <1>2 DEF NodeMove
<1>3. ASSUME NEW i \in Ino, DataSet(i, <<>>) PROVE NodeMove /\ NodesFresh
    <2>1. /\ inode'[i].data = <<>>
          /\ \A j \in Ino : j # i => inode'[j] = inode[j]
        BY <1>3 DEF DataSet, Node
    <2>2. NodeMove BY <1>3, NoCells DEF NodeMove
    <2> QED BY <2>1, <2>2
<1>4. ASSUME NEW i \in Ino, NEW node \in Node, NodeMarked(i, node)
      PROVE  NodeMove /\ NodesFresh
    <2>1. /\ inode'[i] = node
          /\ \A j \in Ino : j # i => inode'[j] = inode[j]
        BY <1>4 DEF NodeMarked
    <2>2. NodesFresh BY <2>1, <1>4 DEF NodeMarked
    <2> QED BY <2>2, <1>4 DEF NodeMove
<1> QED BY <1>1, <1>2, <1>3, <1>4 DEF OthersNode

\* mknod, mkdir and symlink make an entry where there is none.
LEMMA MakeNodeMoves ==
    ASSUME HostInv, NEW p \in Path, NEW node \in Node, GoodLink(node),
           node.kind = "file" => node.data = <<>>, MakeNode(p, node)
    PROVE  OthersMove /\ entry[p] = None
           /\ \A r \in Path : r # p => entry'[r] = entry[r]
<1>1. PICK i \in Unused : /\ entry' = [entry EXCEPT ![p] = i]
                          /\ inode' = [inode EXCEPT ![i] = node]
    BY DEF MakeNode
<1>2. i \in Ino BY DEF Unused
<1>3. OthersNode BY <1>1, <1>2 DEF OthersNode, NodeMade
<1>4. EntryMove /\ \A r \in Path : r # p => entry'[r] = entry[r]
    BY <1>1, <1>2 DEF EntryMove, HostInv, HostTypes
<1> QED BY <1>3, <1>4 DEF OthersMove, MakeNode, Exists

\* unlink and rmdir take one entry away.
LEMMA UnlinkMoves ==
    ASSUME HostInv, NEW p \in Path, unlink(p) \/ rmdir(p)
    PROVE  OthersMove /\ \A r \in Path : r # p => entry'[r] = entry[r]
BY DEF unlink, rmdir, OthersMove, OthersNode, EntryMove, HostInv, HostTypes

\* link makes an entry for a node that is there.
LEMMA LinkMoves ==
    ASSUME HostInv, NEW p \in Path, NEW q \in Path, link(q, p)
    PROVE  OthersMove /\ entry[p] = None
           /\ \A r \in Path : r # p => entry'[r] = entry[r]
BY DEF link, OthersMove, OthersNode, EntryMove, HostInv, HostTypes, Exists

\* rename moves one entry.
LEMMA RenameMoves ==
    ASSUME HostInv, NEW p \in Path, NEW q \in Path, rename(p, q)
    PROVE  /\ OthersMove /\ UNCHANGED inode
           /\ entry'[q] = entry[p]
           /\ \A r \in Path \ {p, q} : entry'[r] = entry[r]
BY DEF rename, OthersMove, OthersNode, EntryMove, HostInv, HostTypes

\* truncate takes data away.
LEMMA TruncateMoves ==
    ASSUME HostInv, NEW p \in Path, truncate(p)
    PROVE  OthersMove /\ UNCHANGED entry
<1>1. /\ CanOpen(p, "w") /\ UNCHANGED <<entry, fd>>
      /\ inode' = [inode EXCEPT ![entry[Follow(p)]].data = <<>>]
    BY DEF truncate
<1>2. entry[Follow(p)] \in Ino /\ inode[entry[Follow(p)]].kind = "file"
    BY <1>1, Opening
<1>3. DataSet(entry[Follow(p)], <<>>) BY <1>1, <1>2, NoCells DEF DataSet
<1> QED BY <1>1, <1>2, <1>3
        DEF OthersMove, OthersNode, EntryMove, HostInv, HostTypes

\* chmod changes no data.
LEMMA ChmodMoves ==
    ASSUME HostInv, NEW p \in Path, NEW mode \in Modes, chmod(p, mode)
    PROVE  OthersMove /\ UNCHANGED entry
<1> DEFINE i == entry[Follow(p)]
           node == [inode[i] EXCEPT !.mode = mode]
<1>1. /\ i # None /\ UNCHANGED <<entry, fd>>
      /\ inode' = [inode EXCEPT ![i] = node]
    BY DEF chmod, Exists
<1>2. i \in Ino
    <2>1. Follow(p) \in Path BY Following
    <2> QED BY <2>1, <1>1 DEF HostInv, HostTypes
<1>3. inode[i] \in Node BY <1>2 DEF HostInv, HostTypes
<1>4. node \in Node /\ node.kind = inode[i].kind /\ node.data = inode[i].data
    BY <1>3 DEF Node
<1> HIDE DEF node, i
<1>5. NodeMarked(i, node) BY <1>1, <1>2, <1>4 DEF NodeMarked
<1> QED BY <1>1, <1>2, <1>4, <1>5
        DEF OthersMove, OthersNode, EntryMove, HostInv, HostTypes

\* lsetxattr changes one attribute of a node.
LEMMA SetXattrMoves ==
    ASSUME HostInv, NEW p \in Path, NEW value \in Cells,
           lsetxattr(p, UserName, value)
    PROVE  OthersMove /\ UNCHANGED entry
<1> DEFINE i == entry[p]
           old == inode[i].attr
           new == [n \in DOMAIN old \cup {UserName} |->
                      IF n = UserName THEN value ELSE old[n]]
           node == [inode[i] EXCEPT !.attr = new]
<1>1. /\ i # None /\ UNCHANGED <<entry, fd>>
      /\ inode' = [inode EXCEPT ![i] = node]
    BY DEF lsetxattr, Exists
<1>2. i \in Ino BY <1>1 DEF HostInv, HostTypes
<1>3. inode[i] \in Node BY <1>2 DEF HostInv, HostTypes
<1>4. DOMAIN old \in {{}, {UserName}} BY <1>3 DEF Node
<1>5. new \in [{UserName} -> Cells]
    <2>1. DOMAIN old \cup {UserName} = {UserName} BY <1>4
    <2> QED BY <2>1
<1> HIDE DEF new
<1>6. node \in Node /\ node.kind = inode[i].kind /\ node.data = inode[i].data
    BY <1>3, <1>5 DEF Node
<1> HIDE DEF node, i
<1>7. NodeMarked(i, node) BY <1>1, <1>2, <1>6 DEF NodeMarked
<1> QED BY <1>1, <1>2, <1>6, <1>7
        DEF OthersMove, OthersNode, EntryMove, HostInv, HostTypes

\* lremovexattr changes one attribute of a node.
LEMMA RemoveXattrMoves ==
    ASSUME HostInv, NEW p \in Path, lremovexattr(p, UserName)
    PROVE  OthersMove /\ UNCHANGED entry
<1> DEFINE i == entry[p]
           old == inode[i].attr
           new == [n \in DOMAIN old \ {UserName} |-> old[n]]
           node == [inode[i] EXCEPT !.attr = new]
<1>1. /\ i # None /\ UNCHANGED <<entry, fd>>
      /\ inode' = [inode EXCEPT ![i] = node]
    BY DEF lremovexattr, Exists
<1>2. i \in Ino BY <1>1 DEF HostInv, HostTypes
<1>3. inode[i] \in Node BY <1>2 DEF HostInv, HostTypes
<1>4. DOMAIN old \in {{}, {UserName}} BY <1>3 DEF Node
<1>5. new \in [{} -> Cells]
    <2>1. DOMAIN old \ {UserName} = {} BY <1>4
    <2> QED BY <2>1
<1> HIDE DEF new
<1>6. node \in Node /\ node.kind = inode[i].kind /\ node.data = inode[i].data
    BY <1>3, <1>5 DEF Node
<1> HIDE DEF node, i
<1>7. NodeMarked(i, node) BY <1>1, <1>2, <1>6 DEF NodeMarked
<1> QED BY <1>1, <1>2, <1>6, <1>7
        DEF OthersMove, OthersNode, EntryMove, HostInv, HostTypes

\* Any of the calls, by anybody.
LEMMA OthersMoves == ASSUME HostInv, Others PROVE OthersMove
<1>1. CASE MovedThroughMount
    BY <1>1, RenameMoves DEF MovedThroughMount, xmp_rename
<1>2. CASE ChangedThroughMount
    <2>1. PICK p \in Path, q \in Path, mode \in Modes :
          \/ xmp_mknod(p, mode) \/ xmp_mkdir(p, mode) \/ xmp_rmdir(p)
          \/ xmp_symlink(q, p) \/ xmp_link(q, p) \/ xmp_unlink(p)
          \/ xmp_chmod(p, mode) \/ xmp_truncate(p)
          \/ \E x \in Cell : xmp_setxattr(p, UserName, <<x>>)
                             \/ xmp_setxattr(p, UserName, <<x, x>>)
          \/ xmp_removexattr(p, UserName)
        BY <1>2 DEF ChangedThroughMount
    <2>2. CASE xmp_mknod(p, mode)
        <3>1. PICK kind \in {"file", "fifo"} :
                 MakeNode(p, NewInode(kind, <<>>, mode))
            BY <2>2 DEF xmp_mknod
        <3>2. /\ NewInode(kind, <<>>, mode) \in Node
              /\ NewInode(kind, <<>>, mode).kind = kind
              /\ NewInode(kind, <<>>, mode).data = <<>>
            BY NoCells, NodesNew
        <3> QED BY <3>1, <3>2, MakeNodeMoves DEF GoodLink
    <2>3. CASE xmp_mkdir(p, mode)
        <3>1. MakeNode(p, NewInode("dir", <<>>, mode))
            BY <2>3 DEF xmp_mkdir
        <3>2. /\ NewInode("dir", <<>>, mode) \in Node
              /\ NewInode("dir", <<>>, mode).kind = "dir"
            BY NoCells, NodesNew
        <3> QED BY <3>1, <3>2, MakeNodeMoves DEF GoodLink
    <2>4. CASE xmp_symlink(q, p)
        <3>1. MakeNode(p, NewInode("symlink", <<q>>, {}))
            BY <2>4 DEF xmp_symlink
        <3>2. <<q>> \in Cells /\ Len(<<q>>) = 1 /\ <<q>>[1] = q
            BY DEF Cells, Datum, Raw
        <3> DEFINE to   == <<q>>
                   node == NewInode("symlink", to, {})
        <3>3. /\ node \in Node /\ node.kind = "symlink"
              /\ node.data = to
            BY <3>2, NodesNew
        <3>4. Len(to) > 0 /\ to[1] \in Path BY <3>2
        <3>5. MakeNode(p, node) BY <3>1
        <3> HIDE DEF to, node
        <3>6. GoodLink(node) BY <3>3, <3>4 DEF GoodLink
        <3> QED BY <3>3, <3>5, <3>6, MakeNodeMoves
    <2>5. CASE xmp_rmdir(p) \/ xmp_unlink(p)
        BY <2>5, UnlinkMoves DEF xmp_rmdir, xmp_unlink
    <2>6. CASE xmp_link(q, p) BY <2>6, LinkMoves DEF xmp_link
    <2>7. CASE xmp_chmod(p, mode) BY <2>7, ChmodMoves DEF xmp_chmod
    <2>8. CASE xmp_truncate(p) BY <2>8, TruncateMoves DEF xmp_truncate
    <2>9. ASSUME NEW x \in Cell, xmp_setxattr(p, UserName, <<x>>)
                                 \/ xmp_setxattr(p, UserName, <<x, x>>)
          PROVE  OthersMove
        <3>1. <<x>> \in Cells /\ <<x, x>> \in Cells BY DEF Cells, Datum, Raw
        <3> QED BY <3>1, <2>9, SetXattrMoves DEF xmp_setxattr
    <2>10. CASE xmp_removexattr(p, UserName)
        BY <2>10, RemoveXattrMoves DEF xmp_removexattr
    <2> QED BY <2>1, <2>2, <2>3, <2>4, <2>5, <2>6, <2>7, <2>8, <2>9, <2>10
<1>3. CASE ChangedOnHost
    <2>1. PICK p \in Path, q \in Path : rename(p, q) \/ unlink(p) \/ truncate(p)
        BY <1>3 DEF ChangedOnHost
    <2> QED BY <2>1, RenameMoves, UnlinkMoves, TruncateMoves
<1> QED BY <1>1, <1>2, <1>3 DEF Others

\* A file that was opened and not touched stays so if its name still leads to
\* it and its data are the same.
LEMMA StaysUntouched ==
    ASSUME HostInv, HostInv', KindsKept, MirrorInv, NEW c \in Client,
           opened[c] # None => opened[c] \in Ino,
           opened'[c] = opened[c], acked'[c] = acked[c], fd'[c] = fd[c],
           opened[c] # None /\ c \notin disturbed' =>
               /\ c \notin disturbed
               /\ entry'[path'[c]] = opened[c]
               /\ inode'[opened[c]].data = inode[opened[c]].data
    PROVE  Untouched(c)'
<1> SUFFICES ASSUME opened[c] # None, c \notin disturbed'
    PROVE  /\ entry'[path'[c]] = opened[c]
           /\ fd'[c] \in {opened[c], None}
           /\ inode'[opened[c]].kind = "file"
           /\ Len(acked[c]) <= Len(inode'[opened[c]].data)
           /\ \A k \in 1 .. Len(acked[c]) :
                 acked[c][k] = inode'[opened[c]].data[k]
    BY DEF Untouched
<1>1. Untouched(c) BY DEF MirrorInv
<1>2. /\ c \notin disturbed
      /\ entry'[path'[c]] = opened[c]
      /\ inode'[opened[c]].data = inode[opened[c]].data
    OBVIOUS
<1>3. opened[c] \notin Unused
    <2>1. entry[path[c]] = opened[c] BY <1>1, <1>2 DEF Untouched
    <2>2. path[c] \in Path
        BY DEF MirrorInv, MirrorTypes, Kept, Before, During
    <2> QED BY <2>1, <2>2 DEF Unused
<1>4. inode'[opened[c]].kind = inode[opened[c]].kind
    BY <1>3 DEF KindsKept
<1> QED BY <1>1, <1>2, <1>4 DEF Untouched

\* The others spare the files that they are not said to disturb.
LEMMA OthersSpare ==
    ASSUME HostInv, MirrorInv, Others, NEW c \in Client,
           opened[c] # None, c \notin disturbed'
    PROVE  /\ c \notin disturbed
           /\ entry'[path'[c]] = opened[c]
           /\ inode'[opened[c]].data = inode[opened[c]].data
<1>1. /\ path[c] \in Path /\ opened[c] \in Ino /\ at[c] # "idle"
      /\ at[c] \notin Before /\ c # None
      /\ \A d \in Client : path[d] = path[c] => at[d] # "idle"
    BY HostAssumption, MirrorAssumption
       DEF MirrorInv, MirrorTypes, Kept, Before, During
<1>2. c \notin disturbed =>
          entry[path[c]] = opened[c] /\ inode[opened[c]].kind = "file"
    BY DEF MirrorInv, Untouched
<1>3. CASE MovedThroughMount
    <2>1. PICK from \in Path, to \in Path :
             /\ \A d \in Client :
                   /\ path[d] = to => at[d] = "idle"
                   /\ path[d] = from => at[d] \in {"idle", "open"}
             /\ rename(from, to)
             /\ path' = [d \in Client |->
                            IF path[d] = from THEN to ELSE path[d]]
             /\ UNCHANGED disturbed
        BY <1>3 DEF MovedThroughMount, xmp_rename
    <2>2. /\ UNCHANGED inode /\ entry'[to] = entry[from]
          /\ \A r \in Path \ {from, to} : entry'[r] = entry[r]
        BY <2>1, RenameMoves
    <2>3. path[c] # to BY <2>1, <1>1
    <2> QED BY <2>1, <2>2, <2>3, <1>1, <1>2
<1>4. CASE ChangedThroughMount
    <2>1. /\ UNCHANGED path /\ disturbed' = disturbed \cup Hit(None)
          /\ \E p \in Path, q \in Path, mode \in Modes :
                \/ xmp_mknod(p, mode) \/ xmp_mkdir(p, mode) \/ xmp_rmdir(p)
                \/ xmp_symlink(q, p) \/ xmp_link(q, p)
                \/ ~Busy(p) /\ xmp_unlink(p)
                \/ xmp_chmod(p, mode) \/ xmp_truncate(p)
                \/ \E x \in Cell : xmp_setxattr(p, UserName, <<x>>)
                                   \/ xmp_setxattr(p, UserName, <<x, x>>)
                \/ xmp_removexattr(p, UserName)
        BY <1>4 DEF ChangedThroughMount
    <2>2. c \notin disturbed /\ inode'[opened[c]].data = inode[opened[c]].data
        BY <2>1, <1>1 DEF Hit
    <2>3. PICK p \in Path, q \in Path, mode \in Modes :
          \/ xmp_mknod(p, mode) \/ xmp_mkdir(p, mode) \/ xmp_symlink(q, p)
          \/ xmp_link(q, p)
          \/ xmp_rmdir(p)
          \/ ~Busy(p) /\ xmp_unlink(p)
          \/ xmp_chmod(p, mode) \/ xmp_truncate(p)
          \/ \E x \in Cell : xmp_setxattr(p, UserName, <<x>>)
                             \/ xmp_setxattr(p, UserName, <<x, x>>)
          \/ xmp_removexattr(p, UserName)
        BY <2>1
    <2>4. entry[path[c]] = opened[c] /\ inode[opened[c]].kind = "file"
        BY <2>2, <1>2
    <2>5. CASE \/ xmp_mknod(p, mode) \/ xmp_mkdir(p, mode)
               \/ xmp_symlink(q, p) \/ xmp_link(q, p)
        <3>1. entry[p] = None
            BY <2>5 DEF xmp_mknod, xmp_mkdir, xmp_symlink, xmp_link, MakeNode,
                        link, Exists
        <3>2. path[c] # p BY <3>1, <2>4, <1>1, HostAssumption
        <3>3. \A r \in Path : r # p => entry'[r] = entry[r]
            <4>1. \A j : entry' = [entry EXCEPT ![p] = j] =>
                     \A r \in Path : r # p => entry'[r] = entry[r]
                BY DEF HostInv, HostTypes
            <4> QED BY <4>1, <2>5
                    DEF xmp_mknod, xmp_mkdir, xmp_symlink, xmp_link, MakeNode,
                        link
        <3> QED BY <3>2, <3>3, <2>1, <2>2, <2>4, <1>1
    <2>6. CASE xmp_rmdir(p)
        <3>1. path[c] # p
            BY <2>6, <2>4 DEF xmp_rmdir, rmdir, Kind, Exists
        <3>2. \A r \in Path : r # p => entry'[r] = entry[r]
            BY <2>6, UnlinkMoves DEF xmp_rmdir
        <3> QED BY <3>1, <3>2, <2>1, <2>2, <2>4, <1>1
    <2>7. CASE ~Busy(p) /\ xmp_unlink(p)
        <3>1. path[c] # p BY <2>7, <1>1 DEF Busy
        <3>2. \A r \in Path : r # p => entry'[r] = entry[r]
            BY <2>7, UnlinkMoves DEF xmp_unlink
        <3> QED BY <3>1, <3>2, <2>1, <2>2, <2>4, <1>1
    <2>8. CASE \/ xmp_chmod(p, mode) \/ xmp_truncate(p)
               \/ \E x \in Cell : xmp_setxattr(p, UserName, <<x>>)
                                  \/ xmp_setxattr(p, UserName, <<x, x>>)
               \/ xmp_removexattr(p, UserName)
        <3>1. UNCHANGED entry
            BY <2>8 DEF xmp_chmod, xmp_truncate, xmp_setxattr, xmp_removexattr,
                        chmod, truncate, lsetxattr, lremovexattr
        <3> QED BY <3>1, <2>1, <2>2, <2>4
    <2> QED BY <2>3, <2>5, <2>6, <2>7, <2>8
<1>5. CASE ChangedOnHost
    <2>1. /\ UNCHANGED path
          /\ disturbed' = disturbed \cup Hit(None) \cup
                {d \in Client : opened[d] # None /\ entry'[path[d]] # opened[d]}
        BY <1>5 DEF ChangedOnHost
    <2> QED BY <2>1, <1>1 DEF Hit
<1> QED BY <1>3, <1>4, <1>5 DEF Others

\* The clients under a step of the others, which may move their paths.
LEMMA OthersMirror ==
    ASSUME HostInv, MirrorInv, Others, UNCHANGED program
    PROVE  HostInv' /\ MirrorInv'
<1>1. OthersMove BY OthersMoves
<1>2. NodeMove /\ FdMove /\ EntryMove /\ UNCHANGED fd
    BY <1>1, OthersFresh DEF OthersMove, FdMove, HostInv, HostTypes
<1>3. HostInv' /\ KindsKept BY <1>2, HostMoves
<1>4. UNCHANGED <<at, opened, acked>>
    BY DEF Others, MovedThroughMount, ChangedThroughMount, ChangedOnHost
<1>5. /\ path' \in [Client -> Path \cup {None}]
      /\ \A c \in Client : path'[c] = None <=> path[c] = None
    <2>1. CASE MovedThroughMount
        <3>1. PICK from \in Path, to \in Path :
                 path' = [c \in Client |-> IF path[c] = from THEN to
                                                             ELSE path[c]]
            BY <2>1 DEF MovedThroughMount
        <3> QED BY <3>1, HostAssumption DEF MirrorInv, MirrorTypes
    <2>2. CASE ChangedThroughMount \/ ChangedOnHost
        BY <2>2 DEF ChangedThroughMount, ChangedOnHost, MirrorInv, MirrorTypes
    <2> QED BY <2>1, <2>2 DEF Others
<1>6. MirrorTypes' BY <1>4, <1>5 DEF MirrorInv, MirrorTypes
<1>7. ASSUME NEW c \in Client PROVE Kept(c)'
    BY <1>2, <1>4, <1>5, <1>7 DEF MirrorInv, Kept
<1>8. ASSUME NEW c \in Client PROVE Untouched(c)'
    <2>1. opened[c] # None /\ c \notin disturbed' =>
             /\ c \notin disturbed
             /\ entry'[path'[c]] = opened[c]
             /\ inode'[opened[c]].data = inode[opened[c]].data
        BY OthersSpare
    <2>2. opened[c] # None => opened[c] \in Ino
        BY DEF MirrorInv, MirrorTypes
    <2> QED BY <2>1, <2>2, <1>2, <1>3, <1>4, StaysUntouched
<1> QED BY <1>3, <1>6, <1>7, <1>8 DEF MirrorInv

(***************************************************************************)
(* The clients of the mirror file system                                   *)
(***************************************************************************)

\* Cells written at an offset; what is before it stays, or is a hole.
LEMMA WriteAtCells ==
    ASSUME NEW data \in Cells, NEW off \in Nat, NEW cells \in Cells
    PROVE  /\ WriteAt(data, off, cells) \in Cells
           /\ Len(WriteAt(data, off, cells)) =
                 IF off + Len(cells) > Len(data) THEN off + Len(cells)
                                                 ELSE Len(data)
           /\ \A k \in 1 .. Len(data) :
                 k <= off => WriteAt(data, off, cells)[k] = data[k]
           /\ \A k \in 1 .. Len(cells) :
                 WriteAt(data, off, cells)[off + k] = cells[k]
<1> DEFINE end == IF off + Len(cells) > Len(data) THEN off + Len(cells)
                                                  ELSE Len(data)
           f(k) == IF k > off /\ k <= off + Len(cells) THEN cells[k - off]
                   ELSE IF k <= Len(data) THEN data[k] ELSE Hole
           w == [k \in 1 .. end |-> f(k)]
<1>1. Len(data) \in Nat /\ Len(cells) \in Nat
    BY LenProperties DEF Cells
<1>2. end \in Nat /\ Len(data) <= end /\ off + Len(cells) <= end
    BY <1>1
<1>3. WriteAt(data, off, cells) = w BY DEF WriteAt
<1>4. \A k \in 1 .. end : f(k) \in Datum
    <2>1. TAKE k \in 1 .. end
    <2>2. Hole \in Datum BY DEF Datum, Raw
    <2>3. CASE k > off /\ k <= off + Len(cells)
        <3>1. k - off \in 1 .. Len(cells) BY <2>3, <1>1
        <3>2. cells[k - off] \in Datum BY <3>1, ElementOfSeq DEF Cells
        <3> QED BY <3>2, <2>3
    <2>4. CASE ~(k > off /\ k <= off + Len(cells)) /\ k <= Len(data)
        <3>1. k \in 1 .. Len(data) BY <2>4, <1>1
        <3>2. data[k] \in Datum BY <3>1, ElementOfSeq DEF Cells
        <3> QED BY <3>2, <2>4
    <2>5. CASE ~(k > off /\ k <= off + Len(cells)) /\ ~(k <= Len(data))
        BY <2>5, <2>2
    <2> QED BY <2>3, <2>4, <2>5
<1> HIDE DEF end
<1>5. \A k \in 1 .. Len(data) : k <= off => f(k) = data[k]
    BY <1>1
<1>6. \A k \in 1 .. Len(cells) : f(off + k) = cells[k]
    <2>1. TAKE k \in 1 .. Len(cells)
    <2>2. off + k > off /\ off + k <= off + Len(cells) /\ off + k - off = k
        BY <1>1
    <2> QED BY <2>2
<1>7. \A k \in 1 .. Len(data) : k \in 1 .. end BY <1>1, <1>2
<1>8. \A k \in 1 .. Len(cells) : off + k \in 1 .. end BY <1>1, <1>2
<1> HIDE DEF f
<1>9. w \in [1 .. end -> Datum] BY <1>4
<1>10. w \in Seq(Datum) BY <1>2, <1>9
<1>11. Len(w) = end BY <1>2, <1>9, <1>10
<1>12. \A k \in 1 .. Len(data) : k <= off => w[k] = data[k]
    BY <1>5, <1>7
<1>13. \A k \in 1 .. Len(cells) : w[off + k] = cells[k]
    BY <1>6, <1>8
<1> HIDE DEF w
<1> QED BY <1>3, <1>10, <1>11, <1>12, <1>13 DEF Cells, end

\* A step of client c touches no other client, nor the name of its file or
\* its data, unless it is said to.
Apart(c) ==
    \A d \in Client \ {c} :
       /\ at'[d] = at[d] /\ path'[d] = path[d] /\ opened'[d] = opened[d]
       /\ acked'[d] = acked[d] /\ fd'[d] = fd[d]
       /\ opened[d] # None /\ d \notin disturbed' =>
             /\ d \notin disturbed
             /\ entry[path[d]] # None => entry'[path[d]] = entry[path[d]]
             /\ inode'[opened[d]].data = inode[opened[d]].data

\* A step of one client leaves the others where they are.
LEMMA ClientApart ==
    ASSUME HostInv, HostInv', KindsKept, MirrorInv, NEW c \in Client,
           MirrorTypes', Apart(c), Kept(c)', Untouched(c)'
    PROVE  MirrorInv'
<1>1. ASSUME NEW d \in Client \ {c} PROVE Kept(d)' /\ Untouched(d)'
    <2>1. /\ at'[d] = at[d] /\ path'[d] = path[d] /\ opened'[d] = opened[d]
          /\ acked'[d] = acked[d] /\ fd'[d] = fd[d]
        BY DEF Apart
    <2>2. Kept(d)' BY <2>1 DEF MirrorInv, Kept
    <2>3. opened[d] # None /\ d \notin disturbed' =>
             /\ d \notin disturbed
             /\ entry'[path'[d]] = opened[d]
             /\ inode'[opened[d]].data = inode[opened[d]].data
        BY <2>1 DEF Apart, MirrorInv, Untouched
    <2>4. opened[d] # None => opened[d] \in Ino
        BY DEF MirrorInv, MirrorTypes
    <2>5. Untouched(d)' BY <2>1, <2>3, <2>4, StaysUntouched
    <2> QED BY <2>2, <2>5
<1> QED BY <1>1 DEF MirrorInv

\* Steps that leave the host alone.
LEMMA LookupMirror ==
    ASSUME HostInv, MirrorInv, program = "mount", UNCHANGED program,
           NEW c \in Client, NEW p \in Path, Lookup(c, p)
    PROVE  HostInv' /\ MirrorInv'
<1>1. PICK q \in Path, s \in {"creating", "opening"} :
         /\ path' = [path EXCEPT ![c] = q]
         /\ at' = [at EXCEPT ![c] = s]
         /\ at[c] = "idle"
         /\ UNCHANGED <<entry, inode, fd, opened, acked, disturbed>>
    BY Following DEF Lookup, host, xmp_readlink
<1>2. HostInv' /\ KindsKept BY <1>1 DEF HostInv, HostTypes, KindsKept
<1>3. MirrorTypes' BY <1>1 DEF MirrorInv, MirrorTypes, Before
<1>4. Apart(c) BY <1>1 DEF Apart, MirrorInv, MirrorTypes
<1>5. Kept(c)'
    BY <1>1, HostAssumption
       DEF MirrorInv, MirrorTypes, Kept, Before, During
<1>6. Untouched(c)' BY <1>1 DEF Untouched, MirrorInv, Kept, Before
<1> QED BY <1>2, <1>3, <1>4, <1>5, <1>6, ClientApart

\* A client whose open failed, or that releases its file.
LEMMA BackToIdleMirror ==
    ASSUME HostInv, MirrorInv, program = "mount", UNCHANGED program,
           NEW c \in Client, OpenFails(c) \/ xmp_release(c)
    PROVE  HostInv' /\ MirrorInv'
<1>1. /\ path' = [path EXCEPT ![c] = None]
      /\ at' = [at EXCEPT ![c] = "idle"]
      /\ at[c] \in {"creating", "opening", "open"}
      /\ UNCHANGED <<entry, inode, fd>>
      /\ \/ at[c] # "open" /\ UNCHANGED <<opened, acked, disturbed>>
         \/ /\ opened' = [opened EXCEPT ![c] = None]
            /\ acked' = [acked EXCEPT ![c] = <<>>]
            /\ disturbed' = disturbed \ {c}
    BY DEF OpenFails, xmp_release, host
<1>2. HostInv' /\ KindsKept BY <1>1 DEF HostInv, HostTypes, KindsKept
<1>3. MirrorTypes'
    <2>1. <<>> \in Seq(Cell) BY EmptySeq
    <2> QED BY <2>1, <1>1 DEF MirrorInv, MirrorTypes, Before
<1>4. Apart(c) BY <1>1 DEF Apart, MirrorInv, MirrorTypes
<1>5. opened'[c] = None /\ acked'[c] = <<>>
    BY <1>1 DEF MirrorInv, MirrorTypes, Kept, Before
<1>6. Kept(c)'
    BY <1>1, <1>5 DEF MirrorInv, MirrorTypes, Kept, Before, During
<1>7. Untouched(c)' BY <1>5 DEF Untouched
<1> QED BY <1>2, <1>3, <1>4, <1>6, <1>7, ClientApart

\* A client gets its file: the inode that its name leads to, unless the name
\* was made a link since it was looked up.
LEMMA OpensMirror ==
    ASSUME HostInv, HostInv', KindsKept, MirrorInv, program = "mount",
           UNCHANGED program, NEW c \in Client, NEW i \in Ino, Opens(c, i),
           at[c] \in {"creating", "opening"},
           c \notin disturbed' =>
               entry'[path[c]] = i /\ inode'[i].kind = "file",
           \A d \in Client \ {c} : opened[d] # None /\ d \notin disturbed' =>
               /\ d \notin disturbed
               /\ entry[path[d]] # None => entry'[path[d]] = entry[path[d]]
               /\ inode'[opened[d]].data = inode[opened[d]].data
    PROVE  MirrorInv'
<1>1. /\ at' = [at EXCEPT ![c] = "open"]
      /\ opened' = [opened EXCEPT ![c] = i]
      /\ UNCHANGED <<fd, path, acked>>
    BY DEF Opens
<1>2. MirrorTypes' BY <1>1 DEF MirrorInv, MirrorTypes, Before
<1>3. Apart(c) BY <1>1 DEF Apart, MirrorInv, MirrorTypes
<1>4. at'[c] = "open" /\ opened'[c] = i
    BY <1>1 DEF MirrorInv, MirrorTypes
<1>5. fd[c] = None /\ acked[c] = <<>> /\ path[c] # None
    BY DEF MirrorInv, Kept, Before, During
<1>6. Kept(c)' BY <1>1, <1>4, <1>5, HostAssumption DEF Kept, Before, During
<1>7. Untouched(c)'
    <2>1. inode'[i].data \in Cells BY DEF HostInv, HostTypes, Node
    <2>2. Len(inode'[i].data) \in Nat BY <2>1, LenProperties DEF Cells
    <2>3. Len(<<>>) = 0 BY EmptySeq
    <2>4. Len(acked'[c]) <= Len(inode'[i].data)
          /\ \A k \in 1 .. Len(acked'[c]) :
                acked'[c][k] = inode'[i].data[k]
        BY <2>2, <2>3, <1>1, <1>5
    <2> QED BY <2>4, <1>1, <1>4, <1>5 DEF Untouched
<1> QED BY <1>2, <1>3, <1>6, <1>7, ClientApart

\* A client opens a file through the mount.
LEMMA OpenMirror ==
    ASSUME HostInv, MirrorInv, program = "mount", UNCHANGED program,
           NEW c \in Client, xmp_open(c)
    PROVE  HostInv' /\ MirrorInv'
<1> DEFINE i == entry[Follow(path[c])]
<1>1. /\ at[c] = "opening" /\ CanOpen(path[c], "w") /\ Opens(c, i)
      /\ disturbed' = (disturbed \ {c}) \cup Relinked(c)
      /\ UNCHANGED <<entry, inode, fd>>
    BY DEF xmp_open, Opens
<1>2. path[c] \in Path
    BY <1>1 DEF MirrorInv, MirrorTypes, Kept, Before, During
<1>3. i \in Ino /\ inode[i].kind = "file" BY <1>1, <1>2, Opening
<1>4. c \notin disturbed' => entry[path[c]] = i
    BY <1>1, <1>2, Following DEF Relinked
<1> HIDE DEF i
<1>5. HostInv' /\ KindsKept BY <1>1 DEF HostInv, HostTypes, KindsKept
<1>6. \A d \in Client \ {c} : opened[d] # None /\ d \notin disturbed' =>
         /\ d \notin disturbed
         /\ entry[path[d]] # None => entry'[path[d]] = entry[path[d]]
         /\ inode'[opened[d]].data = inode[opened[d]].data
    BY <1>1
<1>7. c \notin disturbed' => entry'[path[c]] = i /\ inode'[i].kind = "file"
    BY <1>1, <1>3, <1>4
<1>8. at[c] \in {"creating", "opening"} BY <1>1
<1> QED BY <1>1, <1>3, <1>5, <1>6, <1>7, <1>8, OpensMirror

\* A client creates a file through the mount.
LEMMA CreateMirror ==
    ASSUME HostInv, MirrorInv, program = "mount", UNCHANGED program,
           NEW c \in Client, xmp_create(c)
    PROVE  HostInv' /\ MirrorInv'
<1> DEFINE q == Follow(path[c])
<1>1. /\ at[c] = "creating" /\ CanCreat(path[c])
      /\ disturbed' = (disturbed \ {c}) \cup Hit(c) \cup Relinked(c)
    BY DEF xmp_create
<1>2. path[c] \in Path
    BY <1>1 DEF MirrorInv, MirrorTypes, Kept, Before, During
<1>3. /\ q \in Path
      /\ Kind(q) = "none" => entry[q] = None
      /\ c \notin disturbed' => q = path[c]
    BY <1>1, <1>2, Following DEF Relinked
<1>4. Kind(q) # "none" => CanOpen(path[c], "w") BY <1>1 DEF CanCreat
<1>5. \A d \in Client \ {c} : opened[d] # None /\ d \notin disturbed' =>
         d \notin disturbed /\ inode'[opened[d]].data = inode[opened[d]].data
    BY <1>1 DEF Hit
<1>6. \A d \in Client : opened[d] # None => path[d] \in Path
    BY DEF MirrorInv, MirrorTypes, Kept, Before, During
<1>7. at[c] \in {"creating", "opening"} BY <1>1
<1> HIDE DEF q
<1>8. ASSUME NEW i \in Unused, NEW mode \in Modes, Kind(q) = "none",
             entry' = [entry EXCEPT ![q] = i],
             inode' = [inode EXCEPT ![i] = NewInode("file", <<>>, mode)],
             Opens(c, i)
      PROVE  HostInv' /\ MirrorInv'
    <2> DEFINE node == NewInode("file", <<>>, mode)
    <2>1. node \in Node /\ node.kind = "file" BY NoCells, NodesNew
    <2>2. inode' = [inode EXCEPT ![i] = node] BY <1>8
    <2> HIDE DEF node
    <2>3. i \in Ino BY DEF Unused
    <2>4. NodeMove BY <2>1, <2>2, <2>3 DEF NodeMove, NodeMade, GoodLink
    <2>5. EntryMove /\ FdMove /\ UNCHANGED fd
        BY <1>8, <1>3, <2>3
           DEF EntryMove, FdMove, Opens, HostInv, HostTypes
    <2>6. HostInv' /\ KindsKept BY <2>4, <2>5, HostMoves
    <2>7. inode'[i].kind = "file" BY <2>1, <2>2, <2>3 DEF HostInv, HostTypes
    <2>8. /\ entry'[q] = i
          /\ \A r \in Path : r # q => entry'[r] = entry[r]
        BY <1>8, <1>3 DEF HostInv, HostTypes
    <2>9. c \notin disturbed' => entry'[path[c]] = i /\ inode'[i].kind = "file"
        BY <2>7, <2>8, <1>3
    <2>10. \A d \in Client \ {c} : opened[d] # None /\ d \notin disturbed' =>
             /\ d \notin disturbed
             /\ entry[path[d]] # None => entry'[path[d]] = entry[path[d]]
             /\ inode'[opened[d]].data = inode[opened[d]].data
        BY <2>8, <1>3, <1>5, <1>6, <1>8
    <2> QED BY <1>7, <1>8, <2>3, <2>6, <2>9, <2>10, OpensMirror
<1>9. ASSUME Kind(q) # "none",
             inode' = [inode EXCEPT ![entry[q]].data = <<>>],
             Opens(c, entry[q]), UNCHANGED entry
      PROVE  HostInv' /\ MirrorInv'
    <2> DEFINE i == entry[q]
    <2>1. i \in Ino /\ inode[i].kind = "file"
        BY <1>2, <1>4, <1>9, Opening DEF q
    <2> HIDE DEF i
    <2>2. DataSet(i, <<>>) BY <1>9, <2>1, NoCells DEF DataSet, i
    <2>3. NodeMove BY <2>1, <2>2, NoCells DEF NodeMove
    <2>4. EntryMove /\ FdMove /\ UNCHANGED fd
        BY <1>9 DEF EntryMove, FdMove, Opens, HostInv, HostTypes
    <2>5. HostInv' /\ KindsKept BY <2>3, <2>4, HostMoves
    <2>6. i \notin Unused BY <1>3 DEF Unused, i
    <2>7. inode'[i].kind = "file" BY <2>1, <2>5, <2>6 DEF KindsKept
    <2>8. c \notin disturbed' => entry'[path[c]] = i /\ inode'[i].kind = "file"
        BY <2>7, <1>9, <1>3 DEF i
    <2>9. \A d \in Client \ {c} : opened[d] # None /\ d \notin disturbed' =>
             /\ d \notin disturbed
             /\ entry[path[d]] # None => entry'[path[d]] = entry[path[d]]
             /\ inode'[opened[d]].data = inode[opened[d]].data
        BY <1>5, <1>9
    <2>10. Opens(c, i) BY <1>9 DEF i
    <2> QED BY <1>7, <2>1, <2>5, <2>8, <2>9, <2>10, OpensMirror
<1> QED BY <1>8, <1>9 DEF xmp_create, q

\* A request that opens the path of an untouched file gets that file.
LEMMA ReopenMirror ==
    ASSUME HostInv, MirrorInv, program = "mount", UNCHANGED program,
           NEW c \in Client, Reopen(c)
    PROVE  HostInv' /\ MirrorInv'
<1> DEFINE i == entry[Follow(path[c])]
<1>1. PICK access \in {"w", "r"}, s \in During :
         /\ at[c] = "open" /\ CanOpen(path[c], access)
         /\ fd' = [fd EXCEPT ![c] = i] /\ at' = [at EXCEPT ![c] = s]
         /\ UNCHANGED <<entry, inode, path, opened, acked, disturbed>>
    BY DEF Reopen, open, During
<1>2. path[c] \in Path /\ opened[c] # None
    BY <1>1 DEF MirrorInv, MirrorTypes, Kept, Before, During
<1>3. i \in Ino /\ inode[i].kind = "file" BY <1>1, <1>2, Opening
<1>4. c \notin disturbed => i = opened[c]
    <2>1. SUFFICES ASSUME c \notin disturbed PROVE i = opened[c] OBVIOUS
    <2>2. entry[path[c]] = opened[c] /\ inode[opened[c]].kind = "file"
        BY <2>1, <1>2 DEF MirrorInv, Untouched
    <2>3. Kind(path[c]) = "file" BY <2>2, <1>2 DEF Kind, Exists
    <2> QED BY <2>2, <2>3, <1>2, Following
<1> HIDE DEF i
<1>5. c \in Holder /\ fd' \in [Holder -> Ino \cup {None}] /\ fd'[c] = i
      /\ \A h \in Holder : h # c => fd'[h] = fd[h]
    BY <1>1, <1>3, MirrorAssumption DEF HostInv, HostTypes
<1>6. NodeMove /\ EntryMove /\ FdMove
    BY <1>1, <1>3, <1>5 DEF NodeMove, EntryMove, FdMove, HostInv, HostTypes
<1>7. HostInv' /\ KindsKept BY <1>6, HostMoves
<1>8. MirrorTypes' BY <1>1 DEF MirrorInv, MirrorTypes
<1>9. Apart(c)
    BY <1>1, <1>5, MirrorAssumption DEF Apart, MirrorInv, MirrorTypes
<1>10. i # None BY <1>3, HostAssumption
<1>11. Kept(c)'
    BY <1>1, <1>2, <1>5, <1>10 DEF MirrorInv, MirrorTypes, Kept, Before, During
<1>12. Untouched(c)' BY <1>1, <1>4, <1>5 DEF MirrorInv, Untouched
<1> QED BY <1>7, <1>8, <1>9, <1>11, <1>12, ClientApart

\* The second half of a request closes its descriptor.
LEMMA ReadMirror ==
    ASSUME HostInv, MirrorInv, program = "mount", UNCHANGED program,
           NEW c \in Client,
           at[c] \in During, at' = [at EXCEPT ![c] = "open"],
           fd' = [fd EXCEPT ![c] = None],
           UNCHANGED <<entry, inode, path, opened, acked, disturbed>>
    PROVE  HostInv' /\ MirrorInv'
<1>1. c \in Holder /\ fd' \in [Holder -> Ino \cup {None}] /\ fd'[c] = None
      /\ \A h \in Holder : h # c => fd'[h] = fd[h]
    BY MirrorAssumption DEF HostInv, HostTypes
<1>2. NodeMove /\ EntryMove /\ FdMove
    BY <1>1 DEF NodeMove, EntryMove, FdMove, HostInv, HostTypes
<1>3. HostInv' /\ KindsKept BY <1>2, HostMoves
<1>4. MirrorTypes' BY DEF MirrorInv, MirrorTypes
<1>5. Apart(c) BY <1>1, MirrorAssumption DEF Apart, MirrorInv, MirrorTypes
<1>6. Kept(c)'
    BY <1>1 DEF MirrorInv, MirrorTypes, Kept, Before, During
<1>7. Untouched(c)' BY <1>1 DEF MirrorInv, Untouched
<1> QED BY <1>3, <1>4, <1>5, <1>6, <1>7, ClientApart

\* A write puts its cell behind those that were written before, in the file
\* that was opened if that is untouched.
LEMMA WriteMirror ==
    ASSUME HostInv, MirrorInv, program = "mount", UNCHANGED program,
           NEW c \in Client, NEW x \in Cell,
           at[c] = "writing", at' = [at EXCEPT ![c] = "open"],
           fd' = [fd EXCEPT ![c] = None],
           pwrite(c, Len(acked[c]), <<x>>),
           acked' = [acked EXCEPT ![c] = Append(@, x)],
           disturbed' = disturbed \cup Hit(c),
           UNCHANGED <<entry, path, opened>>
    PROVE  HostInv' /\ MirrorInv'
<1> DEFINE i     == fd[c]
           n     == Len(acked[c])
           old   == inode[i].data
           cells == <<x>>
           new   == WriteAt(old, n, cells)
<1>1. c \in Holder /\ acked[c] \in Seq(Cell) /\ n \in Nat
    BY MirrorAssumption, LenProperties DEF MirrorInv, MirrorTypes
<1>2. i # None /\ opened[c] # None
    BY DEF MirrorInv, MirrorTypes, Kept, Before, During
<1>3. i \in Ino /\ inode[i].kind = "file" /\ old \in Cells
    BY <1>1, <1>2 DEF HostInv, HostTypes, Node
<1>4. cells \in Cells /\ Len(cells) = 1 /\ cells[1] = x
    BY DEF Cells, Datum, Raw
<1>5. inode' = [inode EXCEPT ![i].data = new] BY DEF pwrite
<1> HIDE DEF cells
<1>6. Len(old) \in Nat BY <1>3, LenProperties DEF Cells
<1>7. /\ new \in Cells
      /\ Len(new) = IF n + Len(cells) > Len(old) THEN n + Len(cells)
                                                 ELSE Len(old)
      /\ \A k \in 1 .. Len(old) : k <= n => new[k] = old[k]
      /\ \A k \in 1 .. Len(cells) : new[n + k] = cells[k]
    BY <1>1, <1>3, <1>4, WriteAtCells
<1>8. Len(new) >= n + 1 /\ new[n + 1] = x BY <1>1, <1>4, <1>6, <1>7
<1> HIDE DEF i, new, n
<1>9. DataSet(i, new) BY <1>3, <1>5, <1>7 DEF DataSet
<1>10. /\ inode'[i].data = new /\ inode'[i].kind = "file"
       /\ \A j \in Ino : j # i => inode'[j] = inode[j]
    <2>1. inode[i] \in Node BY <1>3 DEF HostInv, HostTypes
    <2> QED BY <2>1, <1>3, <1>5 DEF Node, HostInv, HostTypes
<1>11. fd' \in [Holder -> Ino \cup {None}] /\ fd'[c] = None
       /\ \A h \in Holder : h # c => fd'[h] = fd[h]
    BY <1>1 DEF HostInv, HostTypes
<1>12. NodeMove /\ EntryMove /\ FdMove
    <2>1. NodeMove BY <1>3, <1>7, <1>9 DEF NodeMove
    <2> QED BY <2>1, <1>11 DEF EntryMove, FdMove, HostInv, HostTypes
<1>13. HostInv' /\ KindsKept BY <1>12, HostMoves
<1>14. /\ Append(acked[c], x) \in Seq(Cell)
       /\ Len(Append(acked[c], x)) = n + 1
       /\ Append(acked[c], x)[n + 1] = x
       /\ \A k \in 1 .. n : Append(acked[c], x)[k] = acked[c][k]
    BY <1>1, AppendProperties DEF n
<1>15. acked'[c] = Append(acked[c], x)
       /\ \A d \in Client \ {c} : acked'[d] = acked[d] /\ at'[d] = at[d]
       /\ acked' \in [Client -> Seq(Cell)]
    BY <1>14 DEF MirrorInv, MirrorTypes
<1>16. MirrorTypes'
    <2>1. at' \in [Client -> Before \cup {"open"} \cup During]
        BY DEF MirrorInv, MirrorTypes
    <2> QED BY <2>1, <1>15 DEF MirrorInv, MirrorTypes
<1>17. Apart(c)
    <2>1. \A d \in Client \ {c} : d \in Holder /\ fd'[d] = fd[d]
        BY <1>11, MirrorAssumption
    <2>2. \A d \in Client \ {c} : opened[d] # None /\ d \notin disturbed' =>
             /\ d \notin disturbed
             /\ inode'[opened[d]].data = inode[opened[d]].data
        BY DEF Hit
    <2> QED BY <2>1, <2>2, <1>15 DEF Apart
<1>18. Kept(c)'
    <2>1. at'[c] = "open" BY DEF MirrorInv, MirrorTypes
    <2>2. path[c] # None /\ opened[c] # None
        BY DEF MirrorInv, Kept, Before, During
    <2> QED BY <2>1, <2>2, <1>11 DEF Kept, Before, During
<1>19. Untouched(c)'
    <2>1. SUFFICES ASSUME c \notin disturbed'
          PROVE  /\ entry'[path'[c]] = opened'[c]
                 /\ fd'[c] \in {opened'[c], None}
                 /\ inode'[opened'[c]].kind = "file"
                 /\ Len(acked'[c]) <= Len(inode'[opened'[c]].data)
                 /\ \A k \in 1 .. Len(acked'[c]) :
                       acked'[c][k] = inode'[opened'[c]].data[k]
        BY DEF Untouched
    <2>2. /\ entry[path[c]] = opened[c] /\ i = opened[c]
          /\ n <= Len(inode[i].data)
          /\ \A k \in 1 .. n : acked[c][k] = inode[i].data[k]
        BY <2>1, <1>2 DEF MirrorInv, Untouched, i, n
    <2>3. Len(acked'[c]) = n + 1 /\ n + 1 <= Len(new) BY <1>8, <1>14, <1>15,
        <1>1, <1>6, <1>7, <1>4 DEF n
    <2>4. ASSUME NEW k \in 1 .. n + 1 PROVE acked'[c][k] = new[k]
        <3>1. n \in Nat BY <1>1 DEF n
        <3>2. CASE k = n + 1 BY <3>2, <1>8, <1>14, <1>15
        <3>3. CASE k # n + 1
            <4>1. k \in 1 .. n /\ k <= n /\ k \in 1 .. Len(old)
                BY <3>1, <3>3, <2>2, <1>6
            <4> QED BY <4>1, <2>2, <1>7, <1>14, <1>15
        <3> QED BY <3>2, <3>3
    <2> QED BY <2>2, <2>3, <2>4, <1>10, <1>11
<1> QED BY <1>13, <1>16, <1>17, <1>18, <1>19, ClientApart

\* Every step of a client.
LEMMA ClientMirror ==
    ASSUME HostInv, MirrorInv, program = "mount", UNCHANGED program,
           NEW c \in Client, ClientStep(c)
    PROVE  HostInv' /\ MirrorInv'
<1>1. CASE \E p \in Path : Lookup(c, p) BY <1>1, LookupMirror
<1>2. CASE xmp_create(c) BY <1>2, CreateMirror
<1>3. CASE xmp_open(c) BY <1>3, OpenMirror
<1>4. CASE OpenFails(c) \/ xmp_release(c) BY <1>4, BackToIdleMirror
<1>5. CASE Reopen(c) BY <1>5, ReopenMirror
<1>6. CASE xmp_write(c)
    <2>1. /\ at[c] = "writing" /\ at' = [at EXCEPT ![c] = "open"]
          /\ fd' = [fd EXCEPT ![c] = None]
          /\ UNCHANGED <<entry, path, opened>>
        BY <1>6 DEF xmp_write
    <2>2. CASE UNCHANGED <<inode, acked, disturbed>>
        BY <2>1, <2>2, ReadMirror DEF During
    <2>3. ASSUME NEW x \in Cell, pwrite(c, Len(acked[c]), <<x>>),
                 acked' = [acked EXCEPT ![c] = Append(@, x)],
                 disturbed' = disturbed \cup Hit(c)
          PROVE  HostInv' /\ MirrorInv'
        BY <2>1, <2>3, WriteMirror
    <2> QED BY <2>2, <2>3, <1>6 DEF xmp_write
<1>7. CASE xmp_read(c)
    BY <1>7, ReadMirror DEF xmp_read, close, During
<1> QED BY <1>1, <1>2, <1>3, <1>4, <1>5, <1>6, <1>7 DEF ClientStep

(***************************************************************************)
(* The encryption tool on the host                                         *)
(***************************************************************************)

\* The tools change files, but have no client of the mount.
LEMMA ToolMirror ==
    ASSUME HostInv, MirrorInv, program # "mount", UNCHANGED program,
           NodeMove, EntryMove, FdMove, \A c \in Client : fd'[c] = fd[c],
           UNCHANGED <<at, path, opened, acked>>
    PROVE  HostInv' /\ MirrorInv' /\ KindsKept
<1>1. HostInv' /\ KindsKept BY HostMoves
<1>2. MirrorTypes' BY DEF MirrorInv, MirrorTypes
<1>3. \A c \in Client : Kept(c)' BY DEF MirrorInv, Kept
<1>4. \A c \in Client : opened'[c] = None
    BY DEF MirrorInv, MirrorTypes, Kept, Before
<1>5. \A c \in Client : Untouched(c)' BY <1>4 DEF Untouched
<1> QED BY <1>1, <1>2, <1>3, <1>5 DEF MirrorInv

\* A host that is left alone has moved in no forbidden way.
LEMMA HostKept ==
    ASSUME HostInv, UNCHANGED host PROVE NodeMove /\ EntryMove /\ FdMove
BY DEF HostInv, HostTypes, NodeMove, EntryMove, FdMove, host

\* The tool writes cells to its output.
LEMMA FlushMoves ==
    ASSUME BaseInv, program = "crypt", UNCHANGED program, step \in HasOutput,
           NEW cells \in Cells, NEW n \in 0 .. Len(cells), Flush(cells, n)
    PROVE  /\ HostInv' /\ MirrorInv'
           /\ outPos' \in Nat /\ UNCHANGED <<entry, fd>>
           /\ fd["out"] \in Ino /\ Data("out") \in Cells
           /\ SubSeq(cells, 1, n) \in Cells
           /\ Data("out")' = WriteAt(Data("out"), outPos, SubSeq(cells, 1, n))
           /\ \A i \in Ino : i # fd["out"] => inode'[i] = inode[i]
<1> DEFINE i == fd["out"]
           part == SubSeq(cells, 1, n)
           new == WriteAt(inode[i].data, outPos, part)
<1>1. /\ "out" \in Holder /\ outPos \in Nat /\ i # None
      /\ HostInv /\ MirrorInv
    BY CryptAssumption DEF BaseInv, CryptTypes, FilesHeld
<1>2. i \in Ino /\ inode[i].kind = "file" /\ inode[i] \in Node
    BY <1>1 DEF HostInv, HostTypes
<1>3. inode[i].data \in Cells BY <1>2 DEF Node
<1>4. part \in Cells
    <2>1. Len(cells) \in Nat BY LenProperties DEF Cells
    <2>2. n \in Nat /\ \A k \in 1 .. n : cells[k] \in Datum
        BY <2>1, ElementOfSeq DEF Cells
    <2> QED BY <2>2, SubSeqProperties DEF Cells
<1>5. /\ inode' = [inode EXCEPT ![i].data = new]
      /\ UNCHANGED <<entry, fd, at, path, opened, acked>>
      /\ outPos' = outPos + n
    BY DEF Flush, pwrite
<1>6. new \in Cells BY <1>1, <1>3, <1>4, WriteAtCells
<1> HIDE DEF i, part, new
<1>7. /\ inode'[i].data = new
      /\ \A j \in Ino : j # i => inode'[j] = inode[j]
    BY <1>1, <1>2, <1>5 DEF Node, HostInv, HostTypes
<1>8. DataSet(i, new) BY <1>2, <1>5, <1>6 DEF DataSet
<1>9. NodeMove BY <1>2, <1>6, <1>8 DEF NodeMove
<1>10. EntryMove /\ FdMove
    BY <1>1, <1>5 DEF EntryMove, FdMove, HostInv, HostTypes
<1>11. HostInv' /\ MirrorInv' BY <1>1, <1>5, <1>9, <1>10, ToolMirror
<1>12. outPos' \in Nat
    <2>1. Len(cells) \in Nat BY LenProperties DEF Cells
    <2> QED BY <2>1, <1>1, <1>5
<1>13. Data("out") = inode[i].data /\ Data("out")' = inode'[i].data
    BY <1>5 DEF Data, i
<1> QED BY <1>2, <1>3, <1>4, <1>5, <1>7, <1>11, <1>12, <1>13
        DEF i, part, new

\* The inode a name is opened or made for.
LEMMA CreatMoves ==
    ASSUME HostInv, NEW p \in Path, NEW mode \in Modes, creat("out", p, mode)
    PROVE  /\ NodeMove /\ EntryMove /\ FdMove
           /\ fd'["out"] \in Ino
           /\ inode'[fd'["out"]].data = <<>>
           /\ \A i \in Ino : i # fd'["out"] => inode'[i] = inode[i]
           /\ \A h \in Holder : h # "out" => fd'[h] = fd[h]
<1> DEFINE q == Follow(p)
<1>1. q \in Path BY Following
<1>2. "out" \in Holder BY CryptAssumption
<1> HIDE DEF q
<1>3. ASSUME NEW i \in Ino, fd' = [fd EXCEPT !["out"] = i],
             inode'[i].kind = "file"
      PROVE  /\ FdMove /\ fd'["out"] = i
             /\ \A h \in Holder : h # "out" => fd'[h] = fd[h]
    BY <1>2, <1>3 DEF FdMove, HostInv, HostTypes
<1>4. ASSUME NEW i \in Unused, entry' = [entry EXCEPT ![q] = i],
             inode' = [inode EXCEPT ![i] = NewInode("file", <<>>, mode)],
             fd' = [fd EXCEPT !["out"] = i]
      PROVE  /\ NodeMove /\ EntryMove /\ FdMove /\ fd'["out"] = i /\ i \in Ino
             /\ inode'[i].data = <<>>
             /\ \A j \in Ino : j # i => inode'[j] = inode[j]
             /\ \A h \in Holder : h # "out" => fd'[h] = fd[h]
    <2> DEFINE node == NewInode("file", <<>>, mode)
    <2>1. node \in Node /\ node.kind = "file" /\ node.data = <<>>
        BY NoCells, NodesNew
    <2>2. inode' = [inode EXCEPT ![i] = node] BY <1>4
    <2> HIDE DEF node
    <2>3. i \in Ino BY DEF Unused
    <2>4. /\ inode'[i] = node
          /\ \A j \in Ino : j # i => inode'[j] = inode[j]
        BY <2>2, <2>3 DEF HostInv, HostTypes
    <2>5. NodeMove BY <2>1, <2>2, <2>3 DEF NodeMove, NodeMade, GoodLink
    <2>6. EntryMove BY <1>1, <1>4, <2>3 DEF EntryMove, HostInv, HostTypes
    <2>7. inode'[i].kind = "file" /\ inode'[i].data = <<>> BY <2>1, <2>4
    <2> QED BY <1>3, <1>4, <2>3, <2>4, <2>5, <2>6, <2>7
<1>5. ASSUME CanOpen(p, "w"), inode' = [inode EXCEPT ![entry[q]].data = <<>>],
             fd' = [fd EXCEPT !["out"] = entry[q]], UNCHANGED entry
      PROVE  /\ NodeMove /\ EntryMove /\ FdMove
             /\ fd'["out"] = entry[q] /\ entry[q] \in Ino
             /\ inode'[entry[q]].data = <<>>
             /\ \A j \in Ino : j # entry[q] => inode'[j] = inode[j]
             /\ \A h \in Holder : h # "out" => fd'[h] = fd[h]
    <2> DEFINE i == entry[q]
    <2>1. i \in Ino /\ inode[i].kind = "file" BY <1>5, Opening DEF q
    <2>2. inode' = [inode EXCEPT ![i].data = <<>>]
          /\ fd' = [fd EXCEPT !["out"] = i]
        BY <1>5
    <2> HIDE DEF i
    <2>3. inode[i] \in Node BY <2>1 DEF HostInv, HostTypes
    <2>4. /\ inode'[i].data = <<>> /\ inode'[i].kind = "file"
          /\ \A j \in Ino : j # i => inode'[j] = inode[j]
        BY <2>1, <2>2, <2>3 DEF Node, HostInv, HostTypes
    <2>5. DataSet(i, <<>>) BY <2>1, <2>2, NoCells DEF DataSet
    <2>6. NodeMove BY <2>1, <2>5, NoCells DEF NodeMove
    <2>7. EntryMove BY <1>5 DEF EntryMove, HostInv, HostTypes
    <2>8. /\ FdMove /\ fd'["out"] = i
          /\ \A h \in Holder : h # "out" => fd'[h] = fd[h]
        BY <1>3, <2>1, <2>2, <2>4
    <2> QED BY <2>1, <2>4, <2>6, <2>7, <2>8 DEF i
<1>6. \/ \E i \in Unused : /\ entry' = [entry EXCEPT ![q] = i]
                           /\ inode' = [inode EXCEPT
                                           ![i] = NewInode("file", <<>>, mode)]
                           /\ fd' = [fd EXCEPT !["out"] = i]
      \/ /\ CanOpen(p, "w")
         /\ inode' = [inode EXCEPT ![entry[q]].data = <<>>]
         /\ fd' = [fd EXCEPT !["out"] = entry[q]] /\ UNCHANGED entry
    BY DEF creat, q
<1>7. CASE \E i \in Unused : /\ entry' = [entry EXCEPT ![q] = i]
                             /\ inode' = [inode EXCEPT
                                           ![i] = NewInode("file", <<>>, mode)]
                             /\ fd' = [fd EXCEPT !["out"] = i]
    BY <1>4, <1>7
<1>8. CASE /\ CanOpen(p, "w")
           /\ inode' = [inode EXCEPT ![entry[q]].data = <<>>]
           /\ fd' = [fd EXCEPT !["out"] = entry[q]] /\ UNCHANGED entry
    BY <1>5, <1>8
<1> QED BY <1>6, <1>7, <1>8

(***************************************************************************)
(* Cells                                                                   *)
(***************************************************************************)

\* A function on an interval is a sequence.
LEMMA CellsOf ==
    ASSUME NEW n \in Nat, NEW w \in [1 .. n -> Datum]
    PROVE  w \in Cells /\ Len(w) = n
<1>1. w \in Seq(Datum) OBVIOUS
<1>2. Len(w) = n BY <1>1
<1> QED BY <1>1, <1>2 DEF Cells

\* Cells that follow each other.
LEMMA CellsJoined ==
    ASSUME NEW s \in Cells, NEW t \in Cells, NEW u \in Cells,
           Len(u) = Len(s) + Len(t),
           \A k \in 1 .. Len(s) : u[k] = s[k],
           \A k \in 1 .. Len(t) : u[Len(s) + k] = t[k]
    PROVE  s \o t = u
<1>1. /\ s \o t \in Cells /\ Len(s \o t) = Len(s) + Len(t)
      /\ \A k \in 1 .. Len(s) + Len(t) :
            (s \o t)[k] = IF k <= Len(s) THEN s[k] ELSE t[k - Len(s)]
    BY ConcatProperties DEF Cells
<1>2. Len(s) \in Nat /\ Len(t) \in Nat BY LenProperties DEF Cells
<1>3. ASSUME NEW k \in 1 .. Len(s) + Len(t) PROVE u[k] = (s \o t)[k]
    <2>1. CASE k <= Len(s)
        <3>1. k \in 1 .. Len(s) BY <2>1, <1>2
        <3> QED BY <2>1, <3>1, <1>1
    <2>2. CASE ~(k <= Len(s))
        <3>1. PICK j \in 1 .. Len(t) : j = k - Len(s) /\ k = Len(s) + j
            <4>1. k - Len(s) \in 1 .. Len(t) /\ k = Len(s) + (k - Len(s))
                BY <2>2, <1>2
            <4> QED BY <4>1
        <3>2. u[k] = t[j] BY <3>1
        <3> QED BY <2>2, <3>1, <3>2, <1>1
    <2> QED BY <2>1, <2>2
<1> QED BY <1>1, <1>3, SeqEqual DEF Cells

\* What is written at the end is appended.
LEMMA WriteAtEnd ==
    ASSUME NEW data \in Cells, NEW cells \in Cells
    PROVE  WriteAt(data, Len(data), cells) = data \o cells
<1> DEFINE n == Len(data)
           new == WriteAt(data, n, cells)
<1>1. n \in Nat /\ Len(cells) \in Nat BY LenProperties DEF Cells
<1>2. /\ new \in Cells
      /\ Len(new) = IF n + Len(cells) > n THEN n + Len(cells) ELSE n
      /\ \A k \in 1 .. n : k <= n => new[k] = data[k]
      /\ \A k \in 1 .. Len(cells) : new[n + k] = cells[k]
    BY <1>1, WriteAtCells
<1> HIDE DEF new
<1>3. Len(new) = n + Len(cells) BY <1>1, <1>2
<1>4. \A k \in 1 .. n : new[k] = data[k] BY <1>1, <1>2
<1>5. data \o cells = new BY <1>2, <1>3, <1>4, CellsJoined
<1> QED BY <1>5 DEF new

\* A part of some cells.
LEMMA CellsPart ==
    ASSUME NEW s \in Cells, NEW m \in Nat, NEW n \in Nat, m + n <= Len(s)
    PROVE  /\ SubSeq(s, m + 1, m + n) \in Cells
           /\ Len(SubSeq(s, m + 1, m + n)) = n
           /\ \A k \in 1 .. n : SubSeq(s, m + 1, m + n)[k] = s[m + k]
<1>1. Len(s) \in Nat BY LenProperties DEF Cells
<1>2. m + 1 \in Int /\ m + n \in Int /\ (m + n) - (m + 1) + 1 = n
    OBVIOUS
<1>3. \A k \in m + 1 .. m + n : s[k] \in Datum
    <2>1. \A k \in m + 1 .. m + n : k \in 1 .. Len(s) BY <1>1
    <2> QED BY <2>1, ElementOfSeq DEF Cells
<1>4. /\ SubSeq(s, m + 1, m + n) \in Cells
      /\ Len(SubSeq(s, m + 1, m + n)) =
            IF m + 1 <= m + n THEN (m + n) - (m + 1) + 1 ELSE 0
      /\ \A k \in 1 .. (m + n) - (m + 1) + 1 :
            SubSeq(s, m + 1, m + n)[k] = s[(m + 1) + k - 1]
    BY <1>2, <1>3, SubSeqProperties DEF Cells
<1>5. Len(SubSeq(s, m + 1, m + n)) = n BY <1>4
<1>6. \A k \in 1 .. n : (m + 1) + k - 1 = m + k OBVIOUS
<1> QED BY <1>2, <1>4, <1>5, <1>6

\* A beginning of some cells.
LEMMA FirstCells ==
    ASSUME NEW s \in Cells, NEW n \in Nat, n <= Len(s)
    PROVE  /\ SubSeq(s, 1, n) \in Cells
           /\ Len(SubSeq(s, 1, n)) = n
           /\ \A k \in 1 .. n : SubSeq(s, 1, n)[k] = s[k]
<1>1. 0 + 1 = 1 /\ 0 + n = n /\ \A k \in 1 .. n : 0 + k = k OBVIOUS
<1>2. 0 \in Nat /\ 0 + n <= Len(s) BY <1>1
<1>3. /\ SubSeq(s, 0 + 1, 0 + n) \in Cells
      /\ Len(SubSeq(s, 0 + 1, 0 + n)) = n
      /\ \A k \in 1 .. n : SubSeq(s, 0 + 1, 0 + n)[k] = s[0 + k]
    BY <1>2, CellsPart
<1> QED BY <1>1, <1>3

\* What the cipher makes of a cell is a cell.
LEMMA ResultIsCell ==
    ASSUME CryptTypes, NEW c \in Datum
    PROVE  /\ Result(c) \in Datum /\ Pad \in Datum
           /\ action = "encrypt" => Result(c) = Enc(c)
           /\ action = "decrypt" => Result(c) = Dec(c)
           /\ action = "copy" => Result(c) = c
<1> DEFINE values == {d.v : d \in Raw} \cup {Padding, Junk}
<1>1. c.v \in values \/ c \in Raw
    BY DEF Datum
<1>2. c.v \in values BY <1>1
<1>3. key \in Key \cup {NoKey} BY DEF CryptTypes
<1>4. \A v \in values : [v |-> v, key |-> key] \in Datum
                        /\ [v |-> v, key |-> NoKey] \in Datum
    BY <1>3 DEF Datum
<1>5. Padding \in values /\ Junk \in values OBVIOUS
<1> HIDE DEF values
<1>6. Enc(c) \in Datum BY <1>2, <1>4 DEF Enc
<1>7. Dec(c) \in Datum BY <1>2, <1>4, <1>5 DEF Dec, Clear
<1>8. Pad \in Datum BY <1>4, <1>5 DEF Pad
<1>9. action \in {"encrypt", "decrypt", "copy"} BY DEF CryptTypes
<1> QED BY <1>6, <1>7, <1>8, <1>9 DEF Result

\* What has been transformed of the first n cells of the source.
LEMMA ResultsAre ==
    ASSUME CryptTypes, NEW n \in Nat, n <= Len(source)
    PROVE  /\ Done(n) \in Nat /\ Done(n) <= n
           /\ Results(n) \in Cells /\ Len(Results(n)) = Done(n)
           /\ \A k \in 1 .. Done(n) : Results(n)[k] = Result(source[k])
<1>1. source \in Cells /\ Len(source) \in Nat
    BY LenProperties DEF CryptTypes, Cells
<1>2. Done(n) \in Nat /\ Done(n) <= n BY DEF Done
<1>3. \A k \in 1 .. Done(n) : k \in 1 .. Len(source) BY <1>1, <1>2
<1>4. \A k \in 1 .. Done(n) : Result(source[k]) \in Datum
    BY <1>1, <1>3, ElementOfSeq, ResultIsCell DEF Cells
<1>5. Results(n) \in [1 .. Done(n) -> Datum] BY <1>4 DEF Results
<1>6. Results(n) \in Cells /\ Len(Results(n)) = Done(n)
    BY <1>2, <1>5, CellsOf
<1> QED BY <1>2, <1>6 DEF Results

\* The next cells of the result, which follow what was made before.
NextResults(n, m) ==
    [k \in 1 .. Done(n + m) - Done(n) |-> Result(source[Done(n) + k])]

\* The next m cells of the source add their results.
LEMMA ResultsGrow ==
    ASSUME CryptTypes, NEW n \in Nat, NEW m \in Nat \ {0},
           n + m <= Len(source)
    PROVE  NextResults(n, m) \in Cells
           /\ Results(n) \o NextResults(n, m) = Results(n + m)
<1>1. source \in Cells /\ Len(source) \in Nat
    BY LenProperties DEF CryptTypes, Cells
<1>2. n + m \in Nat /\ n <= Len(source) BY <1>1
<1>3. /\ Done(n) \in Nat /\ Results(n) \in Cells
      /\ Len(Results(n)) = Done(n)
      /\ \A k \in 1 .. Done(n) : Results(n)[k] = Result(source[k])
    BY <1>2, ResultsAre
<1>4. /\ Done(n + m) \in Nat /\ Results(n + m) \in Cells
      /\ Len(Results(n + m)) = Done(n + m) /\ Done(n + m) <= n + m
      /\ \A k \in 1 .. Done(n + m) : Results(n + m)[k] = Result(source[k])
    BY <1>2, ResultsAre
<1>5. PICK d \in Nat : d = Done(n + m) - Done(n)
                       /\ Done(n) + d = Done(n + m)
    <2>1. Done(n + m) >= Done(n) BY DEF Done
    <2>2. Done(n + m) - Done(n) \in Nat
          /\ Done(n) + (Done(n + m) - Done(n)) = Done(n + m)
        BY <1>3, <1>4, <2>1
    <2> QED BY <2>2
<1>6. ASSUME NEW k \in 1 .. d
      PROVE  /\ Done(n) + k \in 1 .. Done(n + m)
             /\ Done(n) + k \in 1 .. Len(source)
    BY <1>1, <1>3, <1>4, <1>5
<1>7. \A k \in 1 .. d : Result(source[Done(n) + k]) \in Datum
    BY <1>1, <1>6, ElementOfSeq, ResultIsCell DEF Cells
<1> DEFINE t == NextResults(n, m)
<1>8. t = [k \in 1 .. d |-> Result(source[Done(n) + k])]
    BY <1>5 DEF NextResults
<1>9. t \in [1 .. d -> Datum] BY <1>7, <1>8
<1>10. t \in Cells /\ Len(t) = d BY <1>9, CellsOf
<1>11. \A k \in 1 .. d : Results(n + m)[Done(n) + k] = t[k]
    BY <1>4, <1>6, <1>8
<1>12. \A k \in 1 .. Done(n) : Results(n + m)[k] = Results(n)[k]
    <2>1. \A k \in 1 .. Done(n) : k \in 1 .. Done(n + m)
        BY <1>3, <1>4, <1>5
    <2> QED BY <2>1, <1>3, <1>4
<1> HIDE DEF t
<1>13. Results(n) \o t = Results(n + m)
    <2>1. Len(Results(n + m)) = Len(Results(n)) + Len(t)
        BY <1>3, <1>4, <1>5, <1>10
    <2>2. \A k \in 1 .. Len(Results(n)) : Results(n + m)[k] = Results(n)[k]
        BY <1>3, <1>12
    <2>3. \A k \in 1 .. Len(t) : Results(n + m)[Len(Results(n)) + k] = t[k]
        BY <1>3, <1>10, <1>11
    <2>4. Results(n) \in Cells /\ t \in Cells /\ Results(n + m) \in Cells
        BY <1>3, <1>4, <1>10
    <2> QED BY <2>1, <2>2, <2>3, <2>4, CellsJoined
<1> QED BY <1>10, <1>13 DEF t

\* What the cipher does with some cells, whatever it has kept back.
LEMMA TransformedCells ==
    ASSUME CryptTypes, NEW cells \in Cells, Len(cells) > 0
    PROVE  Transformed(cells) \in Cells /\ HeldBack(cells) \in Cells
<1>1. /\ Len(cells) \in Nat /\ DOMAIN cells = 1 .. Len(cells)
      /\ hold \in Cells /\ action \in {"copy", "encrypt", "decrypt"}
    BY LenProperties DEF Cells, CryptTypes
<1>2. \A k \in 1 .. Len(cells) : cells[k] \in Datum
    BY ElementOfSeq DEF Cells
<1>3. HeldBack(cells) \in Cells
    <2>1. cells[Len(cells)] \in Datum BY <1>1, <1>2
    <2>2. <<cells[Len(cells)]>> \in Cells BY <2>1 DEF Cells
    <2> QED BY <2>2, NoCells DEF HeldBack
<1>4. CASE action = "copy" BY <1>3, <1>4 DEF Transformed
<1>5. CASE action = "encrypt"
    <2>1. \A k \in 1 .. Len(cells) : Enc(cells[k]) \in Datum
        BY <1>2, <1>5, ResultIsCell
    <2> DEFINE t == [k \in 1 .. Len(cells) |-> Enc(cells[k])]
    <2>2. t \in [1 .. Len(cells) -> Datum] BY <2>1
    <2>3. t \in Cells BY <1>1, <2>2, CellsOf
    <2>4. Transformed(cells) = t BY <1>1, <1>5 DEF Transformed
    <2> QED BY <1>3, <2>3, <2>4
<1>6. CASE action = "decrypt"
    <2> DEFINE all == hold \o cells
               n   == Len(all) - 1
               t   == [k \in 1 .. n |-> Dec(all[k])]
    <2>1. all \in Cells /\ Len(all) = Len(hold) + Len(cells)
        BY <1>1, ConcatProperties DEF Cells
    <2>2. Len(hold) \in Nat BY <1>1, LenProperties DEF Cells
    <2>3. n \in Nat /\ \A k \in 1 .. n : k \in 1 .. Len(all)
        BY <1>1, <2>1, <2>2
    <2> HIDE DEF all
    <2>4. \A k \in 1 .. n : all[k] \in Datum
        BY <2>1, <2>3, ElementOfSeq DEF Cells
    <2>5. \A k \in 1 .. n : Dec(all[k]) \in Datum
        BY <2>4, <1>6, ResultIsCell
    <2>6. t \in [1 .. n -> Datum] BY <2>5
    <2>7. t \in Cells BY <2>3, <2>6, CellsOf
    <2>8. Transformed(cells) = t BY <1>6 DEF Transformed, all
    <2> QED BY <1>3, <2>7, <2>8
<1> QED BY <1>1, <1>4, <1>5, <1>6

\* The loop makes the next results of m cells that it has read.
LEMMA TransformedIs ==
    ASSUME CryptTypes, NEW n \in Nat, NEW m \in Nat \ {0},
           n + m <= Len(source), NEW cells \in Cells, Len(cells) = m,
           \A k \in 1 .. m : cells[k] = source[n + k],
           hold = IF action = "decrypt" /\ n > 0 THEN <<source[n]>> ELSE <<>>
    PROVE  /\ Transformed(cells) = NextResults(n, m)
           /\ HeldBack(cells) = IF action = "decrypt" THEN <<source[n + m]>>
                                                      ELSE <<>>
<1>1. /\ DOMAIN cells = 1 .. m
      /\ action \in {"copy", "encrypt", "decrypt"}
    BY LenProperties DEF Cells, CryptTypes
<1>2. HeldBack(cells) = IF action = "decrypt" THEN <<source[n + m]>> ELSE <<>>
    <2>1. m \in 1 .. m OBVIOUS
    <2> QED BY <2>1 DEF HeldBack
<1>3. source \in Cells /\ Len(source) \in Nat
    BY LenProperties DEF CryptTypes, Cells
<1>4. \A k \in 1 .. m : source[n + k] \in Datum
    BY ElementOfSeq DEF Cells
<1>5. CASE action = "copy"
    <2>1. Done(n + m) - Done(n) = m /\ Done(n) = n BY <1>5 DEF Done
    <2>2. NextResults(n, m) = [k \in 1 .. m |-> Result(source[n + k])]
        BY <2>1 DEF NextResults
    <2>3. NextResults(n, m) = [k \in 1 .. m |-> cells[k]]
        BY <2>2, <1>4, <1>5, ResultIsCell
    <2>4. cells = [k \in 1 .. m |-> cells[k]]
        BY <1>1, LenProperties DEF Cells
    <2> QED BY <2>3, <2>4, <1>2, <1>5 DEF Transformed
<1>6. CASE action = "encrypt"
    <2>1. Done(n + m) - Done(n) = m /\ Done(n) = n BY <1>6 DEF Done
    <2>2. NextResults(n, m) = [k \in 1 .. m |-> Result(source[n + k])]
        BY <2>1 DEF NextResults
    <2>3. \A k \in 1 .. m : Result(source[n + k]) = Enc(cells[k])
        BY <1>4, <1>6, ResultIsCell
    <2>4. NextResults(n, m) = [k \in 1 .. m |-> Enc(cells[k])]
        BY <2>2, <2>3
    <2>5. Transformed(cells) = [k \in 1 .. m |-> Enc(cells[k])]
        BY <1>1, <1>6 DEF Transformed
    <2> QED BY <2>4, <2>5, <1>2
<1>7. CASE action = "decrypt"
    <2> DEFINE all == hold \o cells
    <2>1. Transformed(cells) = [k \in 1 .. Len(all) - 1 |-> Dec(all[k])]
        BY <1>7 DEF Transformed
    <2>2. hold \in Cells BY DEF CryptTypes
    <2>3. /\ Len(all) = Len(hold) + m
          /\ \A k \in 1 .. Len(hold) + m :
                all[k] = IF k <= Len(hold) THEN hold[k]
                         ELSE cells[k - Len(hold)]
        BY <2>2, ConcatProperties DEF Cells
    <2>4. CASE n = 0
        <3>1. Len(hold) = 0 BY <2>4, EmptySeq
        <3> HIDE DEF all
        <3>2. Len(all) - 1 = m - 1 /\ \A k \in 1 .. m : all[k] = cells[k]
            <4>1. Len(hold) + m = m
                  /\ \A k \in 1 .. m : ~(k <= Len(hold)) /\ k - Len(hold) = k
                BY <3>1
            <4>2. Len(all) = m BY <2>3, <4>1
            <4>3. \A k \in 1 .. m : all[k] = cells[k] BY <2>3, <4>1
            <4> QED BY <4>2, <4>3
        <3>3. Done(n + m) - Done(n) = m - 1 /\ Done(n) = 0
            BY <2>4, <1>7 DEF Done
        <3>4. \A k \in 1 .. m - 1 : /\ k \in 1 .. m /\ 0 + k = k /\ n + k = k
            BY <2>4
        <3>5. \A k \in 1 .. m - 1 : Result(source[0 + k]) = Dec(all[k])
            BY <3>2, <3>4, <1>4, <1>7, ResultIsCell
        <3>6. NextResults(n, m) = [k \in 1 .. m - 1 |-> Result(source[0 + k])]
            BY <3>3 DEF NextResults
        <3>7. NextResults(n, m) = [k \in 1 .. m - 1 |-> Dec(all[k])]
            BY <3>5, <3>6
        <3>8. Transformed(cells) = [k \in 1 .. m - 1 |-> Dec(all[k])]
            BY <2>1, <3>2
        <3> QED BY <3>7, <3>8, <1>2
    <2>5. CASE n > 0
        <3>1. Len(hold) = 1 /\ hold[1] = source[n] BY <2>5, <1>7
        <3> HIDE DEF all
        <3>2. Len(all) - 1 = m BY <2>3, <3>1
        <3>3. Done(n + m) - Done(n) = m /\ Done(n) = n - 1
            BY <2>5, <1>7 DEF Done
        <3>4. ASSUME NEW k \in 1 .. m
              PROVE  all[k] = source[n - 1 + k] /\ source[n - 1 + k] \in Datum
            <4>1. CASE k = 1
                <5>1. n - 1 + k = n /\ n \in 1 .. Len(source)
                    BY <4>1, <2>5, <1>3
                <5>2. all[k] = hold[1] BY <4>1, <2>3, <3>1
                <5> QED BY <5>1, <5>2, <3>1, <1>3, ElementOfSeq DEF Cells
            <4>2. CASE k # 1
                <5>1. PICK j \in 1 .. m : j = k - 1
                                          /\ n - 1 + k = n + j
                    <6>1. k - 1 \in 1 .. m /\ n - 1 + k = n + (k - 1)
                        BY <4>2
                    <6> QED BY <6>1
                <5>2. all[k] = cells[k - 1] BY <4>2, <2>3, <3>1
                <5> QED BY <5>1, <5>2, <1>4
            <4> QED BY <4>1, <4>2
        <3>5. \A k \in 1 .. m : Result(source[n - 1 + k]) = Dec(all[k])
            BY <3>4, <1>7, ResultIsCell
        <3>6. NextResults(n, m) = [k \in 1 .. m |-> Result(source[n - 1 + k])]
            BY <3>3 DEF NextResults
        <3>7. NextResults(n, m) = [k \in 1 .. m |-> Dec(all[k])]
            BY <3>5, <3>6
        <3>8. Transformed(cells) = [k \in 1 .. m |-> Dec(all[k])]
            BY <2>1, <3>2
        <3> QED BY <3>7, <3>8, <1>2
    <2> QED BY <2>4, <2>5
<1> QED BY <1>1, <1>5, <1>6, <1>7

(***************************************************************************)
(* The steps of the encryption tool                                        *)
(***************************************************************************)

\* Steps that leave the host alone.
LEMMA HostStays ==
    ASSUME BaseInv, program # "mount",
           UNCHANGED <<program, host, at, path, opened, acked>>
    PROVE  /\ HostInv' /\ MirrorInv'
           /\ UNCHANGED <<entry, inode, fd, Data("in"), Data("out")>>
<1>1. HostInv /\ MirrorInv BY DEF BaseInv
<1>2. NodeMove /\ EntryMove /\ FdMove BY <1>1, HostKept
<1>3. UNCHANGED <<entry, inode, fd>> BY DEF host
<1>4. HostInv' /\ MirrorInv' BY <1>1, <1>2, <1>3, ToolMirror
<1> QED BY <1>3, <1>4 DEF Data

\* The descriptors of the tool and what is behind them.
LEMMA CryptHolds ==
    ASSUME BaseInv, program = "crypt"
    PROVE  /\ "in" \in Holder \ Client /\ "out" \in Holder \ Client
           /\ step \in HasInput => fd["in"] \in Ino /\ Data("in") \in Cells
                                   /\ Len(Data("in")) \in Nat
           /\ step \in HasOutput => fd["out"] \in Ino /\ Data("out") \in Cells
                                    /\ Len(Data("out")) \in Nat
<1>1. "in" \in Holder \ Client /\ "out" \in Holder \ Client
    BY CryptAssumption
<1>2. \A h \in Holder : fd[h] # None =>
         fd[h] \in Ino /\ Data(h) \in Cells /\ Len(Data(h)) \in Nat
    <2>1. SUFFICES ASSUME NEW h \in Holder, fd[h] # None
                   PROVE  fd[h] \in Ino /\ Data(h) \in Cells
        BY LenProperties DEF Cells
    <2>2. fd[h] \in Ino BY <2>1 DEF BaseInv, HostInv, HostTypes
    <2> QED BY <2>2 DEF BaseInv, HostInv, HostTypes, Node, Data
<1> QED BY <1>1, <1>2 DEF BaseInv, FilesHeld

\* A step to the end of the program.
LEMMA ExitKeeps ==
    ASSUME BaseInv, CryptInv, program = "crypt", UNCHANGED program,
           HostInv' /\ MirrorInv',
           step' = "exit", reported' \/ outbuf' = <<>>,
           reported' \in BOOLEAN, tampered' \in BOOLEAN,
           UNCHANGED <<cryptArgs, inPos, outPos, outbuf, hold, pending,
                       source, handed, readError, lastLost>>
    PROVE  BaseInv' /\ CryptInv'
<1> USE DEF HasInput, HasOutput, Loop, AfterLoop
<1>1. CryptTypes' BY DEF BaseInv, CryptTypes, cryptArgs
<1>2. FilesHeld' BY DEF FilesHeld
<1>3. SourceGiven' /\ FilesKnown' BY DEF SourceGiven, FilesKnown
<1>4. Phase' BY DEF Phase
<1>5. OutputInv' /\ LoopInv' /\ EndInv'
    BY DEF OutputInv, LoopInv, EndInv
<1> QED BY <1>1, <1>2, <1>3, <1>4, <1>5 DEF BaseInv, CryptInv

\* The tool ends on its arguments.
LEMMA BadArgumentsStep ==
    ASSUME BaseInv, CryptInv, program = "crypt", UNCHANGED program,
           BadArguments
    PROVE  BaseInv' /\ CryptInv'
<1>1. /\ step' = "exit" /\ reported' = TRUE
      /\ UNCHANGED <<host, mirror, cryptArgs, inPos, outPos, outbuf, hold,
                     pending, source, handed, readError, lastLost, tampered>>
    BY DEF BadArguments, Exit
<1>2. HostInv' /\ MirrorInv' BY <1>1, HostStays DEF mirror
<1>3. tampered' \in BOOLEAN BY <1>1 DEF BaseInv, CryptTypes
<1> QED BY <1>1, <1>2, <1>3, ExitKeeps

\* The input is what the tool is to encrypt, decrypt or copy.
LEMMA OpenInputStep ==
    ASSUME BaseInv, CryptInv, program = "crypt", UNCHANGED program, OpenInput
    PROVE  BaseInv' /\ CryptInv'
<1>1. /\ step = "args"
      /\ UNCHANGED <<mirror, cryptArgs, inPos, outPos, outbuf, hold, pending,
                     handed, readError, lastLost, tampered>>
    BY DEF OpenInput
<1>2. tampered' \in BOOLEAN BY <1>1 DEF BaseInv, CryptTypes
<1>3. CASE /\ step' = "exit" /\ reported' = TRUE
           /\ UNCHANGED <<host, source>>
    <2>1. HostInv' /\ MirrorInv' BY <1>1, <1>3, HostStays DEF mirror
    <2> QED BY <1>1, <1>2, <1>3, <2>1, ExitKeeps
<1>4. CASE /\ open("in", inPath, "r") /\ step' = "openOut"
           /\ source' = inode[entry[Follow(inPath)]].data
           /\ UNCHANGED reported
    <2> DEFINE i == entry[Follow(inPath)]
    <2>1. CanOpen(inPath, "r") /\ UNCHANGED <<entry, inode>>
          /\ fd' = [fd EXCEPT !["in"] = i]
        BY <1>4 DEF open
    <2>2. HostInv /\ MirrorInv /\ inPath \in Path /\ CryptTypes
        BY DEF BaseInv, CryptTypes
    <2>3. i \in Ino /\ inode[i].kind = "file" BY <2>1, <2>2, Opening
    <2> HIDE DEF i
    <2>4. "in" \in Holder \ Client BY CryptAssumption
    <2>5. fd'["in"] = i /\ \A h \in Holder : h # "in" => fd'[h] = fd[h]
          /\ fd' \in [Holder -> Ino \cup {None}]
        BY <2>1, <2>2, <2>3, <2>4 DEF HostInv, HostTypes
    <2>6. NodeMove /\ EntryMove /\ FdMove
        BY <2>1, <2>2, <2>3, <2>5
           DEF NodeMove, EntryMove, FdMove, HostInv, HostTypes
    <2>7. \A c \in Client : fd'[c] = fd[c]
        BY <2>4, <2>5, MirrorAssumption
    <2>8. HostInv' /\ MirrorInv'
        BY <1>1, <2>2, <2>6, <2>7, ToolMirror DEF mirror
    <2>9. source' = inode[i].data /\ Data("in")' = source'
        BY <1>4, <2>1, <2>5 DEF Data, i
    <2>10. source' \in Cells
        BY <2>2, <2>3, <2>9 DEF HostInv, HostTypes, Node
    <2>11. source' \in Fresh
        BY <1>1, <2>3, <2>9 DEF CryptInv, SourceGiven
    <2> USE DEF HasInput, HasOutput, Loop, AfterLoop
    <2>12. CryptTypes'
        BY <1>1, <1>4, <2>2, <2>10 DEF CryptTypes, cryptArgs
    <2>13. FilesHeld' BY <1>4, <2>3, <2>5, HostAssumption DEF FilesHeld
    <2>14. SourceGiven' /\ FilesKnown'
        BY <1>4, <2>9, <2>11 DEF SourceGiven, FilesKnown
    <2>15. Phase' BY <1>1, <1>4 DEF CryptInv, Phase
    <2>16. OutputInv' /\ LoopInv' /\ EndInv'
        BY <1>4 DEF OutputInv, LoopInv, EndInv
    <2> QED BY <2>8, <2>12, <2>13, <2>14, <2>15, <2>16 DEF BaseInv, CryptInv
<1> QED BY <1>1, <1>3, <1>4 DEF OpenInput, Exit

\* Nothing is written yet; an output that is the input is empty now.
LEMMA OpenOutputStep ==
    ASSUME BaseInv, CryptInv, program = "crypt", UNCHANGED program, OpenOutput
    PROVE  BaseInv' /\ CryptInv'
<1>1. /\ step = "openOut"
      /\ tampered' = (tampered \/ fd'["in"] = fd'["out"])
      /\ UNCHANGED <<at, path, opened, acked, cryptArgs, inPos,
                     outPos, outbuf, hold, pending, source, handed, readError,
                     lastLost>>
    BY DEF OpenOutput
<1>2. HostInv /\ MirrorInv /\ outPath \in Path /\ CryptTypes
    BY DEF BaseInv, CryptTypes
<1>3. tampered' \in BOOLEAN BY <1>1, <1>2 DEF CryptTypes
<1>4. CASE step' = "exit" /\ reported' = TRUE /\ UNCHANGED host
    <2>1. HostInv' /\ MirrorInv' BY <1>1, <1>4, HostStays
    <2> QED BY <1>1, <1>3, <1>4, <2>1, ExitKeeps
<1>5. ASSUME NEW mode \in Modes, creat("out", outPath, mode), step' = "read",
             UNCHANGED reported
      PROVE  BaseInv' /\ CryptInv'
    <2>1. /\ NodeMove /\ EntryMove /\ FdMove
          /\ fd'["out"] \in Ino
          /\ inode'[fd'["out"]].data = <<>>
          /\ \A i \in Ino : i # fd'["out"] => inode'[i] = inode[i]
          /\ \A h \in Holder : h # "out" => fd'[h] = fd[h]
        BY <1>2, <1>5, CreatMoves
    <2>2. "in" \in Holder /\ "in" # "out" /\ "out" \notin Client
          /\ fd["in"] \in Ino
        BY <1>1, CryptHolds DEF HasInput
    <2>3. HostInv' /\ MirrorInv'
        BY <1>1, <1>2, <2>1, <2>2, ToolMirror, MirrorAssumption
    <2> USE DEF HasInput, HasOutput, Loop, AfterLoop
    <2>4. /\ fd'["in"] = fd["in"] /\ Data("out")' = <<>>
          /\ ~tampered' => ~tampered /\ fd'["in"] # fd'["out"]
                           /\ Data("in")' = Data("in")
        BY <1>1, <2>1, <2>2 DEF Data
    <2>5. CryptTypes'
        BY <1>1, <1>2, <1>3, <1>5 DEF CryptTypes, cryptArgs
    <2>6. FilesHeld'
        BY <1>1, <1>5, <2>1, <2>2, HostAssumption DEF FilesHeld
    <2>7. SourceGiven' BY <1>1, <1>5 DEF CryptInv, SourceGiven
    <2>8. FilesKnown' BY <1>1, <1>5, <2>4 DEF CryptInv, FilesKnown
    <2>9. /\ inPos' = 0 /\ outPos' = 0 /\ outbuf' = <<>> /\ hold' = <<>>
          /\ pending' = <<>> /\ handed' = <<>> /\ ~reported'
        BY <1>1, <1>5 DEF CryptInv, Phase
    <2>10. Phase' BY <1>5, <2>9 DEF Phase
    <2>11. <<>> \o <<>> = <<>> /\ Len(<<>>) = 0
        BY EmptySeq, ConcatEmptySeq
    <2>12. OutputInv' BY <2>4, <2>9, <2>11 DEF OutputInv
    <2>13. LoopInv'
        <3>1. source' \in Cells BY <2>5 DEF CryptTypes
        <3>2. Len(source') \in Nat BY <3>1, LenProperties DEF Cells
        <3>3. Results(0)' = <<>>
            <4>1. Done(0)' = 0 BY DEF Done
            <4>2. Results(0)' = [k \in 1 .. 0 |-> Result(source[k])']
                BY <4>1 DEF Results
            <4>3. 1 .. 0 = {} OBVIOUS
            <4>4. <<>> = [k \in 1 .. 0 |-> Result(source[k])'] BY <4>3
            <4> QED BY <4>2, <4>4
        <3>4. inPos' <= Len(source') BY <2>9, <3>2
        <3>5. Results(inPos)' = <<>> BY <2>9, <3>3 DEF Results, Done, Result,
                                                      Enc, Dec
        <3>6. handed' \o outbuf' = Results(inPos)' BY <2>9, <2>11, <3>5
        <3>7. hold' = <<>> /\ ~(action' = "decrypt" /\ inPos' > 0)
            BY <2>9
        <3>8. step' # "final" BY <1>5
        <3> QED BY <3>4, <3>6, <3>7, <3>8 DEF LoopInv
    <2>14. EndInv' BY <1>5 DEF EndInv
    <2> QED BY <2>3, <2>5, <2>6, <2>7, <2>8, <2>10, <2>12, <2>13, <2>14
            DEF BaseInv, CryptInv
<1> QED BY <1>1, <1>4, <1>5 DEF OpenOutput, Exit

\* The output has what was given to stdio, or stdio still has it.
OutputIs == /\ Len(Data("out")) = outPos
            /\ Data("out") \o pending = handed

\* A write of everything at the end of the output.
LEMMA FlushesAll ==
    ASSUME BaseInv, program = "crypt", UNCHANGED program, step \in HasOutput,
           NEW cells \in Cells, NEW n \in 0 .. Len(cells), Flush(cells, n),
           n = Len(cells), Len(Data("out")) = outPos
    PROVE  /\ Data("out")' = Data("out") \o cells
           /\ Len(Data("out"))' = outPos'
<1>1. SubSeq(cells, 1, n) = cells BY SubSeqFull DEF Cells
<1>2. Data("out") \in Cells BY CryptHolds
<1>3. Data("out")' = WriteAt(Data("out"), outPos, cells)
    BY <1>1, FlushMoves
<1>4. Data("out")' = Data("out") \o cells BY <1>2, <1>3, WriteAtEnd
<1>5. Len(Data("out") \o cells) = Len(Data("out")) + Len(cells)
    BY <1>2, ConcatProperties DEF Cells
<1>6. outPos' = outPos + n BY DEF Flush
<1> QED BY <1>4, <1>5, <1>6

\* What an fwrite of outbuf does.
LEMMA Writes ==
    ASSUME BaseInv, program = "crypt", UNCHANGED program, step \in HasOutput,
           FilesKnown, Keep \/ WriteAll \/ WriteFails
    PROVE  /\ HostInv' /\ MirrorInv'
           /\ outPos' \in Nat /\ pending' \in Cells /\ UNCHANGED fd
           /\ ~tampered => Data("in")' = Data("in")
           /\ (Keep \/ WriteAll) /\ OutputIs =>
                 /\ Len(Data("out"))' = outPos'
                 /\ Data("out")' \o pending' = handed \o outbuf
<1>1. /\ pending \in Cells /\ outbuf \in Cells /\ handed \in Cells
      /\ outPos \in Nat
    BY DEF BaseInv, CryptTypes
<1>2. step \in HasInput BY DEF HasOutput
<1>3. /\ fd["in"] \in Ino /\ fd["out"] \in Ino /\ Data("out") \in Cells
    BY <1>2, CryptHolds
<1>4. /\ pending \o outbuf \in Cells
      /\ (Data("out") \o pending) \o outbuf
             = Data("out") \o (pending \o outbuf)
    BY <1>1, <1>3, ConcatProperties, ConcatAssociative DEF Cells
<1>5. CASE Keep
    <2>1. pending' = pending \o outbuf /\ UNCHANGED <<host, mirror, outPos>>
        BY <1>5 DEF Keep
    <2>2. /\ HostInv' /\ MirrorInv'
          /\ UNCHANGED <<fd, Data("in"), Data("out")>>
        BY <2>1, HostStays DEF mirror
    <2>3. OutputIs => Data("out") \o (pending \o outbuf) = handed \o outbuf
        BY <1>4 DEF OutputIs
    <2>4. OutputIs => Data("out")' \o pending' = handed \o outbuf
        BY <2>1, <2>2, <2>3
    <2>5. OutputIs => Len(Data("out"))' = outPos'
        BY <2>1, <2>2 DEF OutputIs
    <2>6. outPos' \in Nat /\ pending' \in Cells BY <1>1, <1>4, <2>1
    <2> QED BY <2>2, <2>4, <2>5, <2>6
<1>6. ASSUME NEW cells \in Cells, NEW n \in 0 .. Len(cells), Flush(cells, n)
      PROVE  /\ HostInv' /\ MirrorInv' /\ outPos' \in Nat /\ UNCHANGED fd
             /\ ~tampered => Data("in")' = Data("in")
    <2>1. /\ HostInv' /\ MirrorInv' /\ outPos' \in Nat /\ UNCHANGED fd
          /\ \A i \in Ino : i # fd["out"] => inode'[i] = inode[i]
        BY <1>6, FlushMoves
    <2>2. ~tampered => fd["in"] # fd["out"] BY DEF FilesKnown
    <2> QED BY <2>1, <2>2, <1>3 DEF Data
<1>7. CASE WriteAll
    <2> DEFINE cells == pending \o outbuf
    <2>1. Flush(cells, Len(cells)) /\ pending' = <<>>
        BY <1>7 DEF WriteAll
    <2>2. Len(cells) \in 0 .. Len(cells)
        <3>1. Len(cells) \in Nat BY <1>4, LenProperties DEF Cells
        <3> QED BY <3>1
    <2>3. cells \in Cells BY <1>4
    <2>4. /\ HostInv' /\ MirrorInv' /\ outPos' \in Nat /\ UNCHANGED fd
          /\ ~tampered => Data("in")' = Data("in")
        BY <2>1, <2>2, <2>3, <1>6
    <2>5. ASSUME OutputIs
          PROVE  /\ Len(Data("out"))' = outPos'
                 /\ Data("out")' \o pending' = handed \o outbuf
        <3>1. Data("out") \o cells = handed \o outbuf
            BY <2>5, <1>4 DEF OutputIs
        <3>2. Len(Data("out")) = outPos BY <2>5 DEF OutputIs
        <3> HIDE DEF cells
        <3>3. /\ Data("out")' = Data("out") \o cells
              /\ Len(Data("out"))' = outPos'
            BY <3>2, <2>1, <2>2, <2>3, FlushesAll
        <3>4. Data("out") \o cells \in Cells
            BY <1>3, <2>3, ConcatProperties DEF Cells
        <3>5. (Data("out") \o cells) \o <<>> = Data("out") \o cells
            BY <3>4, ConcatEmptySeq DEF Cells
        <3> QED BY <3>1, <3>3, <3>5, <2>1
    <2> QED BY <2>1, <2>4, <2>5, NoCells
<1>8. CASE WriteFails /\ ~Keep /\ ~WriteAll
    <2>1. pending' = <<>> /\ \E n \in 0 .. Len(pending) : Flush(pending, n)
        BY <1>8 DEF WriteFails
    <2>2. /\ HostInv' /\ MirrorInv' /\ outPos' \in Nat /\ UNCHANGED fd
          /\ ~tampered => Data("in")' = Data("in")
        BY <2>1, <1>1, <1>6
    <2> QED BY <2>1, <2>2, <1>8, NoCells
<1> QED BY <1>5, <1>7, <1>8

\* The next block: what the loop is to make of it follows what it has made.
LEMMA ReadBlockStep ==
    ASSUME BaseInv, CryptInv, program = "crypt", UNCHANGED program, ReadBlock
    PROVE  BaseInv' /\ CryptInv'
<1> DEFINE left == Len(Data("in")) - inPos
           full == CASE left < 0         -> 0
                     [] left > BLOCKSIZE -> BLOCKSIZE
                     [] OTHER            -> left
<1> USE DEF HasInput, HasOutput, Loop, AfterLoop
<1>1. step = "read" /\ UNCHANGED <<host, mirror, cryptArgs, outPos, pending,
                          status, reported, source, handed, lastLost, tampered>>
    BY DEF ReadBlock
<1>2. PICK m \in 0 .. full :
         LET inbuf == SubSeq(Data("in"), inPos + 1, inPos + m)
         IN /\ readError' = (readError \/ m < full)
            /\ inPos' = inPos + m
            /\ step' = CASE EndsLoop(m) -> "final"
                         [] m > 0       -> "write"
                         [] OTHER       -> "read"
            /\ IF m > 0
               THEN outbuf' = Transformed(inbuf) /\ hold' = HeldBack(inbuf)
               ELSE UNCHANGED <<outbuf, hold>>
    BY DEF ReadBlock
<1> DEFINE inbuf == SubSeq(Data("in"), inPos + 1, inPos + m)
<1>3. /\ CryptTypes /\ Len(Data("in")) \in Nat /\ Data("in") \in Cells
      /\ inPos \in Nat /\ source \in Cells /\ BLOCKSIZE \in Nat \ {0}
    BY <1>1, CryptHolds, CryptAssumption DEF BaseInv, CryptTypes
<1>4. /\ full \in Nat
      /\ full > 0 => full <= left
      /\ left > 0 => full > 0
    <2>1. left \in Int BY <1>3
    <2> HIDE DEF left
    <2>2. CASE left < 0 BY <2>1, <2>2, <1>3
    <2>3. CASE left > BLOCKSIZE BY <2>1, <2>3, <1>3
    <2>4. CASE ~(left < 0) /\ ~(left > BLOCKSIZE) BY <2>1, <2>4, <1>3
    <2> QED BY <2>2, <2>3, <2>4
<1> HIDE DEF full
<1>5. m > 0 => inPos + m <= Len(Data("in"))
    <2>1. m \in Nat /\ m <= full BY <1>4
    <2>2. left \in Int /\ inPos + left = Len(Data("in")) BY <1>3
    <2> HIDE DEF left
    <2>3. m > 0 => m <= left BY <2>1, <2>2, <1>4
    <2> QED BY <2>1, <2>2, <2>3, <1>3
<1>6. HostInv' /\ MirrorInv' /\ UNCHANGED <<fd, Data("in"), Data("out")>>
    BY <1>1, HostStays DEF mirror
<1>7. /\ step' = IF m = 0 THEN "final" ELSE "write"
      /\ inPos' = inPos + m /\ readError' = (readError \/ m < full)
      /\ m > 0 => outbuf' = Transformed(inbuf) /\ hold' = HeldBack(inbuf)
      /\ m = 0 => UNCHANGED <<outbuf, hold>>
    BY <1>2, <1>4 DEF EndsLoop
<1>8. m \in Nat BY <1>4
<1>9. m > 0 => /\ inbuf \in Cells /\ Len(inbuf) = m
               /\ \A k \in 1 .. m : inbuf[k] = Data("in")[inPos + k]
    BY <1>3, <1>5, <1>8, CellsPart
<1> HIDE DEF inbuf, left
<1>10. outbuf' \in Cells /\ hold' \in Cells
    BY <1>3, <1>7, <1>8, <1>9, TransformedCells DEF CryptTypes
<1>11. readError' \in BOOLEAN BY <1>3, <1>7 DEF CryptTypes
<1>12. inPos' \in Nat BY <1>3, <1>7, <1>8
<1>13. CryptTypes'
    BY <1>1, <1>3, <1>7, <1>10, <1>11, <1>12 DEF CryptTypes, cryptArgs
<1>14. FilesHeld' BY <1>1, <1>6, <1>7 DEF BaseInv, FilesHeld
<1>15. SourceGiven' BY <1>1, <1>7 DEF CryptInv, SourceGiven
<1>16. FilesKnown' BY <1>1, <1>6, <1>7 DEF CryptInv, FilesKnown
<1>17. ~reported /\ outbuf = <<>> BY <1>1 DEF CryptInv, Phase
<1>18. Phase' BY <1>1, <1>7, <1>17 DEF Phase
<1>19. OutputInv' BY <1>1, <1>6, <1>7 DEF CryptInv, OutputInv
<1>20. LoopInv'
    <2>1. SUFFICES ASSUME ~tampered
          PROVE  /\ inPos' <= Len(source)
                 /\ handed \o outbuf' = Results(inPos)'
                 /\ hold' = IF action = "decrypt" /\ inPos' > 0
                            THEN <<source[inPos']>> ELSE <<>>
                 /\ step' = "final" => inPos' = Len(source) \/ readError'
        BY <1>1 DEF LoopInv, cryptArgs
    <2>2. Data("in") = source BY <1>1, <2>1 DEF CryptInv, FilesKnown
    <2>3. /\ inPos <= Len(source) /\ handed \o outbuf = Results(inPos)
          /\ hold = IF action = "decrypt" /\ inPos > 0
                    THEN <<source[inPos]>> ELSE <<>>
        BY <1>1, <2>1 DEF CryptInv, LoopInv
    <2>4. Results(inPos)' = Results(inPos')
        BY <1>1 DEF Results, Done, Result, Enc, Dec, cryptArgs
    <2>5. CASE m = 0
        <3>1. inPos' = inPos /\ outbuf' = outbuf /\ hold' = hold
            BY <2>5, <1>3, <1>7
        <3>2. inPos = Len(source) \/ m < full
            <4>1. Len(source) \in Nat BY <1>3, LenProperties DEF Cells
            <4>2. ASSUME inPos # Len(source) PROVE left > 0
                BY <4>1, <4>2, <2>2, <2>3, <1>3 DEF left
            <4> QED BY <4>2, <2>5, <1>4
        <3> QED BY <3>1, <3>2, <2>3, <2>4, <1>7
    <2>6. CASE m > 0
        <3>1. /\ m \in Nat \ {0} /\ inPos + m <= Len(source)
              /\ \A k \in 1 .. m : inbuf[k] = source[inPos + k]
            BY <2>2, <2>6, <1>5, <1>8, <1>9
        <3>2. inPos \in Nat /\ inbuf \in Cells /\ Len(inbuf) = m
            BY <2>6, <1>3, <1>9
        <3>3. /\ Transformed(inbuf) = NextResults(inPos, m)
              /\ HeldBack(inbuf) = IF action = "decrypt"
                                   THEN <<source[inPos + m]>> ELSE <<>>
            BY <3>1, <3>2, <2>3, <1>3, TransformedIs
        <3>4. Results(inPos) \o NextResults(inPos, m) = Results(inPos + m)
            BY <3>1, <3>2, <1>3, ResultsGrow
        <3>5. handed = Results(inPos)
            <4>1. handed \in Cells BY <1>3 DEF CryptTypes
            <4>2. handed \o <<>> = handed BY <4>1, ConcatEmptySeq DEF Cells
            <4> QED BY <4>2, <2>3, <1>17
        <3>6. handed \o outbuf' = Results(inPos)'
            BY <3>3, <3>4, <3>5, <2>4, <2>6, <1>7
        <3>7. inPos + m > 0 BY <2>6, <1>3, <1>8
        <3>8. step' # "final" BY <2>6, <1>7
        <3> QED BY <3>1, <3>3, <3>6, <3>7, <3>8, <2>6, <1>7
    <2> QED BY <2>5, <2>6, <1>8
<1>21. EndInv' BY <1>7 DEF EndInv
<1> QED BY <1>6, <1>13, <1>14, <1>15, <1>16, <1>18, <1>19, <1>20, <1>21
        DEF BaseInv, CryptInv

\* An fwrite of the loop or the last one: what was to be handed over is.
LEMMA WriteStep ==
    ASSUME BaseInv, CryptInv, program = "crypt", UNCHANGED program,
           WriteBlock \/ LastWrite
    PROVE  BaseInv' /\ CryptInv'
<1> USE DEF HasInput, HasOutput, Loop, AfterLoop
<1>1. /\ step \in {"write", "lastWrite"} /\ outbuf' = <<>>
      /\ handed' = handed \o outbuf
      /\ Keep \/ WriteAll \/ WriteFails
      /\ UNCHANGED <<cryptArgs, inPos, hold, status, source, readError,
                     tampered>>
      /\ step = "write" => step' \in {"read", "closeOut"}
      /\ step = "write" /\ step' = "closeOut" => reported' = TRUE
      /\ step' = "read" => step = "write" /\ UNCHANGED reported
      /\ step = "write" => UNCHANGED lastLost /\ reported' \in {reported, TRUE}
      /\ step = "lastWrite" => step' = "closeOut" /\ UNCHANGED reported
                               /\ lastLost' \in {lastLost, TRUE}
    BY DEF WriteBlock, LastWrite
<1>2. Keep \/ WriteAll \/ reported' \/ lastLost'
    BY DEF WriteBlock, LastWrite
<1>3. CryptTypes /\ FilesHeld /\ FilesKnown /\ step \in HasOutput
    BY <1>1 DEF BaseInv, CryptInv
<1>4. /\ HostInv' /\ MirrorInv'
      /\ outPos' \in Nat /\ pending' \in Cells /\ UNCHANGED fd
      /\ ~tampered => Data("in")' = Data("in")
      /\ (Keep \/ WriteAll) /\ OutputIs =>
            /\ Len(Data("out"))' = outPos'
            /\ Data("out")' \o pending' = handed \o outbuf
    BY <1>1, <1>3, Writes
<1>5. handed' \in Cells /\ handed' \o outbuf' = handed \o outbuf
    <2>1. handed \o outbuf \in Cells
        BY <1>3, ConcatProperties DEF CryptTypes, Cells
    <2>2. (handed \o outbuf) \o <<>> = handed \o outbuf
        BY <2>1, ConcatEmptySeq DEF Cells
    <2> QED BY <2>1, <2>2, <1>1
<1>6. reported' \in BOOLEAN /\ lastLost' \in BOOLEAN
    BY <1>1, <1>3 DEF CryptTypes
<1>7. step' \in {"read", "closeOut"} BY <1>1
<1>8. CryptTypes'
    BY <1>1, <1>3, <1>4, <1>5, <1>6, <1>7, NoCells DEF CryptTypes, cryptArgs
<1>9. FilesHeld' BY <1>3, <1>4, <1>7 DEF FilesHeld
<1>10. SourceGiven' BY <1>1, <1>7 DEF CryptInv, SourceGiven
<1>11. FilesKnown' BY <1>1, <1>3, <1>4, <1>7 DEF FilesKnown
<1>12. Phase' BY <1>1, <1>7 DEF CryptInv, Phase
<1>13. OutputInv'
    <2>1. SUFFICES ASSUME ~tampered', ~reported', ~lastLost'
                   PROVE  /\ Len(Data("out"))' = outPos'
                          /\ Data("out")' \o pending' = handed'
        BY DEF OutputInv
    <2>2. ~tampered /\ ~reported /\ ~lastLost
        BY <2>1, <1>1, <1>3 DEF CryptTypes
    <2>3. OutputIs BY <2>2, <1>3 DEF CryptInv, OutputInv, OutputIs
    <2> QED BY <2>1, <2>3, <1>1, <1>2, <1>4
<1>14. LoopInv'
    <2>1. Results(inPos)' = Results(inPos)
        BY <1>1 DEF Results, Done, Result, Enc, Dec, cryptArgs
    <2> QED BY <2>1, <1>1, <1>5, <1>7 DEF CryptInv, LoopInv, cryptArgs
<1>15. EndInv'
    <2>1. UNCHANGED <<Results(inPos), ByChance, Pad, Given>>
        BY <1>1, <1>5 DEF Results, Done, Result, Enc, Dec, Pad, ByChance,
                          Given, cryptArgs
    <2>2. UNCHANGED <<action, source, tampered, readError, inPos, hold>>
        BY <1>1 DEF cryptArgs
    <2>3. CASE step = "write" BY <2>3, <1>1 DEF EndInv
    <2>4. CASE step = "lastWrite"
        <3>1. EndInv /\ UNCHANGED reported BY <2>4, <1>1 DEF CryptInv
        <3> QED BY <2>1, <2>2, <2>4, <3>1 DEF EndInv
    <2> QED BY <2>3, <2>4, <1>1
<1> QED BY <1>4, <1>8, <1>9, <1>10, <1>11, <1>12, <1>13, <1>14, <1>15
        DEF BaseInv, CryptInv

\* The results of the whole input, and what the cipher adds at its end.
LEMMA ResultsOfAll ==
    ASSUME CryptTypes
    PROVE  /\ action = "copy" => Results(Len(source)) = Wanted
           /\ action = "encrypt" =>
                 Results(Len(source)) \o <<Pad>> = Wanted
           /\ action = "decrypt" /\ source # <<>> =>
                 Results(Len(source)) = Wanted
<1> DEFINE n == Len(source)
<1>1. /\ source \in Cells /\ n \in Nat
      /\ source \in [1 .. n -> Datum] /\ DOMAIN source = 1 .. n
    BY LenProperties DEF CryptTypes, Cells
<1>2. \A k \in 1 .. n : source[k] \in Datum BY <1>1
<1>3. CASE action = "copy"
    <2>1. Results(n) = [k \in 1 .. n |-> Result(source[k])]
        BY <1>3 DEF Results, Done
    <2>2. Results(n) = [k \in 1 .. n |-> source[k]]
        BY <2>1, <1>2, <1>3, ResultIsCell
    <2>3. [k \in 1 .. n |-> source[k]] = source BY <1>1
    <2> QED BY <2>2, <2>3, <1>3 DEF Wanted
<1>4. CASE action = "encrypt"
    <2> DEFINE enc == [k \in 1 .. n |-> Enc(source[k])]
    <2>1. Results(n) = [k \in 1 .. n |-> Result(source[k])]
        BY <1>4 DEF Results, Done
    <2>2. \A k \in 1 .. n : Result(source[k]) = Enc(source[k])
                            /\ Enc(source[k]) \in Datum
        BY <1>2, <1>4, ResultIsCell
    <2>3. Results(n) = enc BY <2>1, <2>2
    <2>4. enc \in [1 .. n -> Datum] BY <2>2
    <2>5. enc \in Seq(Datum) BY <1>1, <2>4
    <2>6. Wanted = Append(enc, Pad)
        BY <1>1, <1>4 DEF Wanted, Encrypted
    <2>7. Pad \in Datum
        <3>1. Hole \in Datum BY DEF Datum, Raw
        <3> QED BY <3>1, ResultIsCell
    <2> HIDE DEF enc
    <2>8. Append(enc, Pad) = enc \o <<Pad>>
        BY <2>5, <2>7
    <2> QED BY <2>3, <2>6, <2>8, <1>4
<1>5. CASE action = "decrypt" /\ source # <<>>
    <2>1. n > 0 BY <1>1, <1>5, EmptySeq DEF Cells
    <2>2. Results(n) = [k \in 1 .. n - 1 |-> Result(source[k])]
        BY <2>1, <1>5 DEF Results, Done
    <2>3. \A k \in 1 .. n - 1 : source[k] \in Datum BY <1>1, <1>2
    <2>4. Results(n) = [k \in 1 .. n - 1 |-> Dec(source[k])]
        BY <2>2, <2>3, <1>5, ResultIsCell
    <2> QED BY <2>4, <1>5 DEF Wanted, Decrypted
<1> QED BY <1>3, <1>4, <1>5 DEF CryptTypes

\* A padding in what the tool works on is at its end.
LEMMA PaddingIsLast ==
    ASSUME CryptTypes, source \in Fresh, NEW n \in 1 .. Len(source),
           source[n] = Pad
    PROVE  n = Len(source)
<1>1. source # <<>>
    <2>1. Len(<<>>) = 0 BY EmptySeq
    <2> QED BY <2>1
<1>2. source \in InitialData BY <1>1 DEF Fresh
<1>3. n \in DOMAIN source BY LenProperties DEF CryptTypes, Cells
<1>4. source[n].v = Padding BY DEF Pad
<1> QED BY <1>2, <1>3, <1>4, ToolsAssumption

\* A piece of a block is a cell.
LEMMA PieceIsCell == Piece \in Datum
BY DEF Piece, Clear, Datum

\* What is computed of a beginning of the input is a sequence of cells.
LEMMA ResultsAreCells ==
    ASSUME CryptTypes, inPos <= Len(source)
    PROVE  Results(inPos) \in Cells
<1>1. /\ inPos \in Nat /\ Len(source) \in Nat
      /\ source \in [1 .. Len(source) -> Datum]
    BY LenProperties DEF CryptTypes, Cells
<1>2. Done(inPos) \in Nat /\ Done(inPos) <= inPos BY <1>1 DEF Done
<1>3. \A k \in 1 .. Done(inPos) : source[k] \in Datum BY <1>1, <1>2
<1>4. \A k \in 1 .. Done(inPos) : Result(source[k]) \in Datum
    BY <1>3, ResultIsCell
<1>5. Results(inPos) \in [1 .. Done(inPos) -> Datum] BY <1>4 DEF Results
<1> HIDE DEF Results, Done
<1> QED BY <1>2, <1>5 DEF Cells

\* A decryption has decrypted what it read, but for the last block.
LEMMA ReadSoFar ==
    ASSUME CryptTypes, action = "decrypt", inPos > 0, inPos <= Len(source)
    PROVE  Decrypted(SubSeq(source, 1, inPos)) = Results(inPos)
<1> DEFINE s == SubSeq(source, 1, inPos)
<1>1. /\ inPos \in Nat /\ source \in Cells /\ Len(source) \in Nat
      /\ source \in [1 .. Len(source) -> Datum]
    BY LenProperties DEF CryptTypes, Cells
<1>2. Len(s) = inPos /\ \A k \in 1 .. inPos : s[k] = source[k]
    BY <1>1, FirstCells
<1>3. Results(inPos) = [k \in 1 .. inPos - 1 |-> Result(source[k])]
    BY DEF Results, Done
<1>4. \A k \in 1 .. inPos - 1 : Result(source[k]) = Dec(s[k])
    <2>1. \A k \in 1 .. inPos - 1 : k \in 1 .. inPos
                                    /\ source[k] \in Datum
        BY <1>1
    <2> HIDE DEF s
    <2> QED BY <2>1, <1>2, ResultIsCell
<1>5. Results(inPos) = [k \in 1 .. inPos - 1 |-> Dec(s[k])]
    <2> HIDE DEF s
    <2> QED BY <1>3, <1>4
<1> QED BY <1>2, <1>5 DEF Decrypted

\* The end of the loop: the result is complete, or reading had failed, or the
\* padding is missing.
LEMMA FinalStep ==
    ASSUME BaseInv, CryptInv, program = "crypt", UNCHANGED program, Final
    PROVE  BaseInv' /\ CryptInv'
<1> USE DEF HasInput, HasOutput, Loop, AfterLoop
<1>1. /\ step = "final" /\ step' \in {"lastWrite", "closeOut"}
      /\ UNCHANGED <<host, mirror, cryptArgs, inPos, outPos, hold, pending,
                     source, handed, readError, lastLost, tampered>>
      /\ \/ /\ action = "copy" /\ step' = "closeOut"
            /\ UNCHANGED <<outbuf, reported>>
         \/ /\ action = "encrypt" /\ step' = "lastWrite"
            /\ outbuf' = <<Pad>> /\ UNCHANGED reported
         \/ /\ action = "decrypt" /\ hold = <<Pad>> /\ step' = "lastWrite"
            /\ outbuf' = <<>> /\ UNCHANGED reported
         \/ /\ action = "decrypt" /\ hold \notin {<<>>, <<Pad>>}
            /\ step' = "lastWrite" /\ outbuf' \in {<<>>, <<Piece>>}
            /\ UNCHANGED reported
         \/ /\ action = "decrypt" /\ step' = "closeOut"
            /\ reported' = TRUE /\ UNCHANGED outbuf
    BY DEF Final
<1>2. HostInv' /\ MirrorInv' /\ UNCHANGED <<fd, Data("in"), Data("out")>>
    BY <1>1, HostStays DEF mirror
<1>3. /\ CryptTypes /\ ~reported /\ outbuf = <<>>
      /\ source \in Cells /\ handed \in Cells /\ inPos \in Nat
    BY <1>1 DEF BaseInv, CryptTypes, CryptInv, Phase
<1>4. <<Pad>> \in Cells /\ <<Piece>> \in Cells
    <2>1. Hole \in Datum BY DEF Datum, Raw
    <2>2. Pad \in Datum BY <1>3, <2>1, ResultIsCell
    <2>3. Piece \in Datum BY PieceIsCell
    <2> QED BY <2>2, <2>3 DEF Cells
<1>5. outbuf' \in Cells /\ reported' \in BOOLEAN
    BY <1>1, <1>3, <1>4, NoCells DEF CryptTypes
<1>6. CryptTypes' BY <1>1, <1>3, <1>5 DEF CryptTypes, cryptArgs
<1>7. FilesHeld' BY <1>1, <1>2 DEF BaseInv, FilesHeld
<1>8. SourceGiven' /\ FilesKnown'
    BY <1>1, <1>2 DEF CryptInv, SourceGiven, FilesKnown
<1>9. Phase' BY <1>1, <1>3 DEF Phase, cryptArgs
<1>10. OutputInv' BY <1>1, <1>2, <1>3 DEF CryptInv, OutputInv
<1>11. LoopInv' BY <1>1 DEF LoopInv
<1>12. EndInv'
    <2>1. SUFFICES ASSUME ~tampered, ~reported' PROVE EndInv'
        BY <1>1 DEF EndInv
    <2>2. /\ inPos <= Len(source) /\ handed \o outbuf = Results(inPos)
          /\ hold = IF action = "decrypt" /\ inPos > 0
                    THEN <<source[inPos]>> ELSE <<>>
          /\ inPos = Len(source) \/ readError
        BY <1>1, <2>1 DEF CryptInv, LoopInv
    <2>3. handed = Results(inPos) /\ handed \o <<>> = handed
        <3>1. handed \o <<>> = handed BY <1>3, ConcatEmptySeq DEF Cells
        <3> QED BY <3>1, <2>2, <1>3
    <2>4. /\ UNCHANGED <<Results(inPos), ByChance, Pad, action, source, inPos,
                         hold, readError>>
          /\ Given' = handed \o outbuf'
        BY <1>1 DEF Results, Done, Result, Enc, Dec, Pad, ByChance, Given,
                    cryptArgs
    <2>5. CASE action = "copy" /\ UNCHANGED outbuf
        BY <2>2, <2>4, <2>5 DEF EndInv
    <2>6. CASE action = "encrypt" /\ outbuf' = <<Pad>>
        BY <2>2, <2>3, <2>4, <2>6 DEF EndInv
    <2>7. CASE /\ action = "decrypt" /\ hold # <<>>
               /\ \/ outbuf' = <<>>
                  \/ hold # <<Pad>> /\ outbuf' = <<Piece>>
        <3>1. inPos > 0 /\ hold = <<source[inPos]>> BY <2>2, <2>7
        <3>2. \/ Given' = Results(inPos)
              \/ ByChance /\ Given' = Results(inPos) \o <<Piece>>
            BY <2>3, <2>4, <2>7 DEF ByChance
        <3> QED BY <3>1, <3>2, <2>2, <2>4, <2>7 DEF EndInv
    <2>8. <<Pad>> # <<>> OBVIOUS
    <2> QED BY <2>1, <2>5, <2>6, <2>7, <2>8, <1>1
<1> QED BY <1>2, <1>6, <1>7, <1>8, <1>9, <1>10, <1>11, <1>12
        DEF BaseInv, CryptInv

\* fclose writes what is pending, and says so if it does not.
LEMMA FlushOutputStep ==
    ASSUME BaseInv, CryptInv, program = "crypt", UNCHANGED program,
           FlushOutput
    PROVE  BaseInv' /\ CryptInv'
<1> USE DEF HasInput, HasOutput, Loop, AfterLoop
<1>1. /\ step = "closeOut" /\ step' = "flushed" /\ pending' = <<>>
      /\ UNCHANGED <<cryptArgs, inPos, outbuf, hold, status, source, handed,
                     readError, lastLost, tampered>>
    BY DEF FlushOutput
<1>2. PICK n \in 0 .. Len(pending) :
         Flush(pending, n) /\ reported' = (reported \/ n < Len(pending))
    BY DEF FlushOutput
<1>3. CryptTypes /\ pending \in Cells /\ fd["in"] \in Ino
      /\ fd["out"] \in Ino /\ Data("out") \in Cells /\ Len(pending) \in Nat
    BY <1>1, CryptHolds, LenProperties DEF BaseInv, CryptTypes, Cells
<1>4. /\ HostInv' /\ MirrorInv' /\ outPos' \in Nat /\ UNCHANGED fd
      /\ \A i \in Ino : i # fd["out"] => inode'[i] = inode[i]
    BY <1>1, <1>2, <1>3, FlushMoves
<1>5. ~tampered => Data("in")' = Data("in") /\ fd["in"] # fd["out"]
    BY <1>1, <1>3, <1>4 DEF CryptInv, FilesKnown, Data
<1>6. reported' \in BOOLEAN BY <1>2, <1>3 DEF CryptTypes
<1>7. CryptTypes'
    BY <1>1, <1>3, <1>4, <1>6, NoCells DEF CryptTypes, cryptArgs
<1>8. FilesHeld' BY <1>1, <1>4 DEF BaseInv, FilesHeld
<1>9. SourceGiven' /\ FilesKnown'
    BY <1>1, <1>4, <1>5 DEF CryptInv, SourceGiven, FilesKnown
<1>10. ~reported' => ~reported /\ n = Len(pending)
    <2>1. ~reported' => ~reported /\ ~(n < Len(pending)) BY <1>2
    <2>2. ~(n < Len(pending)) => n = Len(pending) BY <1>3
    <2> QED BY <2>1, <2>2
<1>11. Phase' BY <1>1, <1>10 DEF CryptInv, Phase
<1>12. OutputInv'
    <2>1. SUFFICES ASSUME ~tampered, ~reported', ~lastLost
                   PROVE  /\ Len(Data("out"))' = outPos'
                          /\ Data("out")' \o <<>> = handed
        BY <1>1 DEF OutputInv
    <2>2. OutputIs BY <2>1, <1>1, <1>10 DEF CryptInv, OutputInv, OutputIs
    <2>3. Len(Data("out")) = outPos /\ step \in HasOutput
        BY <2>2, <1>1 DEF OutputIs
    <2>4. /\ Data("out")' = Data("out") \o pending
          /\ Len(Data("out"))' = outPos'
        BY <2>1, <2>3, <1>2, <1>3, <1>10, FlushesAll
    <2>5. handed \in Cells BY <1>3 DEF CryptTypes
    <2>6. handed \o <<>> = handed BY <2>5, ConcatEmptySeq DEF Cells
    <2> QED BY <2>2, <2>4, <2>6 DEF OutputIs
<1>13. LoopInv' BY <1>1 DEF LoopInv
<1>14. EndInv'
    <2>1. UNCHANGED <<Results(inPos), ByChance, Pad, Given>>
        BY <1>1 DEF Results, Done, Result, Enc, Dec, Pad, ByChance, Given,
                    cryptArgs
    <2>2. UNCHANGED <<action, source, tampered, readError, inPos, hold>>
        BY <1>1 DEF cryptArgs
    <2> QED BY <2>1, <2>2, <1>1, <1>10 DEF CryptInv, EndInv
<1> QED BY <1>4, <1>7, <1>8, <1>9, <1>11, <1>12, <1>13, <1>14
        DEF BaseInv, CryptInv

\* The tool closes its files.
LEMMA CloseFilesStep ==
    ASSUME BaseInv, CryptInv, program = "crypt", UNCHANGED program,
           CloseFiles
    PROVE  BaseInv' /\ CryptInv'
<1>1. /\ step = "flushed" /\ step' = "exit"
      /\ fd' = [fd EXCEPT !["in"] = None, !["out"] = None]
      /\ UNCHANGED <<entry, inode, mirror, cryptArgs, inPos, outPos, outbuf,
                     hold, pending, reported, source, handed, readError,
                     lastLost, tampered>>
    BY DEF CloseFiles, Exit
<1>2. HostInv /\ MirrorInv /\ CryptTypes BY DEF BaseInv
<1>3. "in" \in Holder \ Client /\ "out" \in Holder \ Client
    BY CryptAssumption
<1>4. /\ fd' \in [Holder -> Ino \cup {None}]
      /\ \A h \in Holder : fd'[h] \in {fd[h], None}
      /\ \A h \in Holder : h \notin {"in", "out"} => fd'[h] = fd[h]
    BY <1>1, <1>2, <1>3 DEF HostInv, HostTypes
<1>5. NodeMove /\ EntryMove /\ FdMove
    BY <1>1, <1>2, <1>4 DEF NodeMove, EntryMove, FdMove, HostInv, HostTypes
<1>6. \A c \in Client : fd'[c] = fd[c]
    BY <1>3, <1>4, MirrorAssumption
<1>7. HostInv' /\ MirrorInv'
    BY <1>1, <1>2, <1>5, <1>6, ToolMirror DEF mirror
<1>8. reported' \/ outbuf' = <<>> BY <1>1 DEF CryptInv, Phase
<1>9. reported' \in BOOLEAN /\ tampered' \in BOOLEAN
    BY <1>1, <1>2 DEF CryptTypes
<1> QED BY <1>1, <1>7, <1>8, <1>9, ExitKeeps

\* The others may change any file; if one of the tool's it is recorded.
LEMMA OthersCryptStep ==
    ASSUME BaseInv, CryptInv, program = "crypt", UNCHANGED program,
           Others, Tampers,
           UNCHANGED <<step, cryptArgs, inPos, outPos, outbuf, hold, pending,
                       status, reported, source, handed, readError, lastLost>>
    PROVE  BaseInv' /\ CryptInv'
<1>1. HostInv /\ MirrorInv /\ CryptTypes /\ FilesHeld BY DEF BaseInv
<1>2. HostInv' /\ MirrorInv' BY <1>1, OthersMirror
<1>3. OthersMove BY <1>1, OthersMoves
<1>4. UNCHANGED fd /\ NodesFresh BY <1>1, <1>3, OthersFresh DEF OthersMove
<1>5. tampered' \in BOOLEAN /\ (~tampered' => ~tampered)
    BY <1>1 DEF Tampers, CryptTypes
<1>6. /\ ~tampered' /\ fd["in"] # None => Data("in")' = Data("in")
      /\ ~tampered' /\ fd["out"] # None => Data("out")' = Data("out")
    BY <1>4 DEF Tampers, Data
<1>7. CryptTypes' BY <1>1, <1>5 DEF CryptTypes, cryptArgs
<1>8. FilesHeld' BY <1>1, <1>4 DEF FilesHeld
<1>9. SourceGiven'
    <2>1. step = "args" => \A i \in Ino : inode'[i].kind = "file" =>
                                              inode'[i].data \in Fresh
        BY <1>4 DEF NodesFresh, CryptInv, SourceGiven, Fresh
    <2> QED BY <2>1 DEF CryptInv, SourceGiven
<1>10. FilesKnown'
    BY <1>1, <1>4, <1>5, <1>6 DEF CryptInv, FilesKnown, FilesHeld
<1>11. Phase' BY DEF CryptInv, Phase, cryptArgs
<1>12. OutputInv'
    BY <1>1, <1>5, <1>6 DEF CryptInv, OutputInv, FilesHeld
<1>13. UNCHANGED <<action, key, Results(inPos), ByChance, Pad, Given>>
    BY DEF Results, Done, Result, Enc, Dec, Pad, ByChance, Given, cryptArgs
<1>14. LoopInv' BY <1>5, <1>13 DEF CryptInv, LoopInv
<1>15. EndInv' BY <1>5, <1>13 DEF CryptInv, EndInv
<1> QED BY <1>2, <1>7, <1>8, <1>9, <1>10, <1>11, <1>12, <1>14, <1>15
        DEF BaseInv, CryptInv

(***************************************************************************)
(* The attributes tool                                                     *)
(***************************************************************************)

\* A value of an attribute is a sequence, so that its size is a number.
LEMMA AttrSizes ==
    ASSUME HostInv, NEW p \in Path, Exists(p)
    PROVE  /\ DOMAIN Attrs(p) \subseteq {UserName}
           /\ UserName \in DOMAIN Attrs(p) => Len(Attrs(p)[UserName]) \in Nat
<1>1. entry[p] \in Ino BY DEF Exists, HostInv, HostTypes
<1>2. inode[entry[p]] \in Node BY <1>1 DEF HostInv, HostTypes
<1>3. Attrs(p) \in [{} -> Cells] \cup [{UserName} -> Cells]
    BY <1>2 DEF Attrs, Node
<1>4. UserName \in DOMAIN Attrs(p) => Attrs(p)[UserName] \in Cells BY <1>3
<1>5. UserName \in DOMAIN Attrs(p) => Len(Attrs(p)[UserName]) \in Nat
    BY <1>4, LenProperties DEF Cells
<1> QED BY <1>3, <1>5

\* What a call for the value finds.
LEMMA Getting ==
    ASSUME NEW size
    PROVE  LET r == getxattr(size)
           IN /\ r.res \in {"ok", "ENOENT", "ENODATA", "ERANGE"}
              /\ r.res = "ok" => /\ Reached
                                 /\ UserName \in DOMAIN Attrs(File)
                                 /\ r.data = Attrs(File)[UserName]
                                 /\ size > 0 => ~(Len(r.data) > size)
              /\ r.res = "ENODATA" => /\ Reached
                                      /\ UserName \notin DOMAIN Attrs(File)
<1> HIDE DEF File
<1>1. CASE Reached
    BY <1>1 DEF getxattr, xmp_getxattr, lgetxattr, Got, Failed, Reached
<1>2. CASE ~Reached BY <1>2 DEF getxattr, Failed
<1> QED BY <1>1, <1>2

\* A listing names the attributes that are there.
LEMMA Listing ==
    ASSUME NEW size
    PROVE  LET r == listxattr(size)
           IN r.res = "ok" => /\ Reached
                              /\ r.names = DOMAIN Attrs(File)
BY DEF listxattr, xmp_listxattr, llistxattr

\* A link of the target leads to a name.
LEMMA FileIsPath ==
    ASSUME HostInv, target \in Path
    PROVE  File \in Path
<1>1. CASE Kind(target) = "symlink"
    <2>1. Exists(target) /\ entry[target] \in Ino
        BY <1>1 DEF Kind, Exists, HostInv, HostTypes
    <2>2. inode[entry[target]].kind = "symlink" BY <1>1, <2>1 DEF Kind
    <2> QED BY <1>1, <2>1, <2>2 DEF File, Follow, HostInv
<1> QED BY <1>1 DEF File, Follow

\* The tool changes an attribute, or nothing.
LEMMA XattrHost ==
    ASSUME BaseInv, program = "xattr", UNCHANGED program, XattrStep
    PROVE  HostInv' /\ MirrorInv' /\ target' = target
<1>1. HostInv /\ MirrorInv /\ File \in Path BY FileIsPath DEF BaseInv
<1>2. UNCHANGED <<mirror, target>>
    BY DEF XattrStep, Refuse, Size, List, ValueSize, Get, Set, Remove
<1>3. CASE Refuse \/ Size \/ List \/ ValueSize \/ Get
    <2>1. UNCHANGED host BY <1>3 DEF Refuse, Size, List, ValueSize, Get
    <2> QED BY <2>1, <1>2, HostStays DEF mirror
<1>4. CASE Set \/ Remove
    <2>1. \/ UNCHANGED host
          \/ \E v \in {<<x>> : x \in Cell} \cup {<<>>} :
                lsetxattr(File, UserName, v)
          \/ lremovexattr(File, UserName)
        BY <1>4 DEF Set, Remove, xmp_setxattr, xmp_removexattr
    <2>2. CASE UNCHANGED host BY <2>2, <1>2, HostStays DEF mirror
    <2>3. CASE OthersMove
        <3>1. NodeMove /\ EntryMove /\ FdMove /\ UNCHANGED fd
            BY <2>3, <1>1, OthersFresh
               DEF OthersMove, FdMove, HostInv, HostTypes
        <3> QED BY <3>1, <1>1, <1>2, ToolMirror DEF mirror
    <2>4. \A v \in {<<x>> : x \in Cell} \cup {<<>>} : v \in Cells
        <3>1. \A x \in Cell : <<x>> \in Cells BY DEF Cells, Datum, Raw
        <3> QED BY <3>1, NoCells
    <2> QED BY <2>1, <2>2, <2>3, <2>4, <1>1, SetXattrMoves, RemoveXattrMoves
<1> QED BY <1>2, <1>3, <1>4 DEF XattrStep

\* Every step of the attributes tool.
LEMMA XattrToolStep ==
    ASSUME BaseInv, XattrInv, program = "xattr", UNCHANGED program,
           stage # "exit", XattrStep
    PROVE  BaseInv' /\ XattrInv'
<1>1. HostInv' /\ MirrorInv' /\ target' = target BY XattrHost
<1>2. BaseInv' BY <1>1 DEF BaseInv
<1>3. printed = Nothing /\ ~overrun /\ target \in Path /\ HostInv
    BY DEF XattrInv, BaseInv
<1>4. CASE Size
    BY <1>2, <1>3, <1>4 DEF Size, XattrInv, Failure, Finish
<1>5. CASE ValueSize
    <2>1. UNCHANGED <<command, overrun>> BY <1>5 DEF ValueSize
    <2>2. \/ stage' = "sized" /\ UNCHANGED printed /\ room' \in Nat
          \/ stage' = "exit"
        <3> DEFINE r == getxattr(0)
        <3>1. \/ r.res = "ok" /\ stage' = "sized" /\ room' = Len(r.data)
                 /\ UNCHANGED printed
              \/ stage' = "exit"
            BY <1>5 DEF ValueSize, Success, Failure, Finish
        <3>2. r.res = "ok" => Len(r.data) \in Nat
            <4>1. File \in Path BY <1>3, FileIsPath
            <4> QED BY <4>1, <1>3, Getting, AttrSizes DEF Reached
        <3> QED BY <3>1, <3>2
    <2> QED BY <2>1, <2>2, <1>2, <1>3 DEF XattrInv
<1>6. CASE Refuse \/ List \/ Get \/ Set \/ Remove
    BY <1>2, <1>6
    DEF Refuse, List, Get, Set, Remove, XattrInv, Success, Failure,
                Finish
<1> QED BY <1>2, <1>4, <1>5, <1>6 DEF XattrStep

(***************************************************************************)
(* All of it                                                               *)
(***************************************************************************)
ToolsInv == BaseInv /\ CryptInv /\ XattrInv

\* At first each inode is a file, or a link to the first name.
LEMMA Trees ==
    ASSUME NEW data \in Cells,
           NEW attr \in [{} -> Cells] \cup [{UserName} -> Cells],
           Tree(data, attr), fd = [h \in Holder |-> None]
    PROVE  /\ HostInv
           /\ \A k \in Ino : inode[k].kind = "file" =>
                                inode[k].data \in {data, <<>>}
<1> DEFINE i == CHOOSE k \in Ino : TRUE
           j == CHOOSE k \in Ino : k # i
           p == CHOOSE r \in Path : TRUE
           q == CHOOSE r \in Path : r # p
<1>1. i \in Ino /\ j \in Ino /\ i # j /\ p \in Path
    <2>1. PICK a \in Ino, b \in Ino : a # b BY ToolsAssumption
    <2>2. i \in Ino BY <2>1
    <2> HIDE DEF i
    <2>3. \E k \in Ino : k # i BY <2>1
    <2>4. j \in Ino /\ j # i BY <2>3
    <2>5. p \in Path BY ToolsAssumption
    <2> QED BY <2>2, <2>4, <2>5
<1> DEFINE first == [NewInode("file", data, FileMode) EXCEPT !.attr = attr]
           to    == <<p>>
           link2 == NewInode("symlink", to, {})
           free  == NewInode("file", <<>>, {})
<1>2. PICK second \in {None, i, j} :
         entry = [r \in Path |-> IF r = p THEN i
                                 ELSE IF r = q THEN second ELSE None]
    BY DEF Tree
<1>3. inode = [k \in Ino |-> IF k = i THEN first
                             ELSE IF k = j THEN link2 ELSE free]
    BY DEF Tree
<1> HIDE DEF i, j, p, q
<1>4. to \in Cells /\ Len(to) > 0 /\ to[1] \in Path
    BY <1>1 DEF Cells, Datum, Raw
<1> HIDE DEF to
<1>5. /\ link2 \in Node /\ link2.kind = "symlink" /\ link2.data = to
    BY <1>4, NodesNew
<1>6. /\ free \in Node /\ free.kind = "file" /\ free.data = <<>>
    BY NoCells, NodesNew
<1>7. first \in Node /\ first.kind = "file" /\ first.data = data
    BY DEF NewInode, Node
<1> HIDE DEF first, link2, free
<1>8. /\ inode \in [Ino -> Node] /\ entry \in [Path -> Ino \cup {None}]
      /\ fd \in [Holder -> Ino \cup {None}]
    BY <1>1, <1>2, <1>3, <1>5, <1>6, <1>7
<1>9. \A k \in Ino : inode[k] \in {first, link2, free} BY <1>3
<1>10. \A k \in Ino : GoodLink(inode[k])
    BY <1>4, <1>5, <1>6, <1>7, <1>9 DEF GoodLink
<1>11. \A k \in Ino : inode[k].kind = "file" => inode[k].data \in {data, <<>>}
    BY <1>5, <1>6, <1>7, <1>9
<1> QED BY <1>8, <1>10, <1>11 DEF HostInv, HostTypes, GoodLink

\* What files and attributes hold at first are cells.
LEMMA GivenCells ==
    ASSUME NEW s \in InitialData \cup InitialAttr
    PROVE  s \in Cells
<1>1. s \in Seq({s[k] : k \in DOMAIN s}) BY ToolsAssumption
<1>2. {s[k] : k \in DOMAIN s} \subseteq Datum BY DEF Datum, Raw
<1> QED BY <1>1, <1>2, SeqMonotonic DEF Cells

\* Each program begins in order.
LEMMA ToolsBegin == Init => ToolsInv
<1> SUFFICES ASSUME Init PROVE ToolsInv OBVIOUS
<1>1. /\ InitMount \/ InitCrypt \/ InitXattr
      /\ fd = [h \in Holder |-> None]
      /\ MirrorInit /\ CryptInit /\ XattrInit
    BY DEF Init
<1>2. NoAttr \in [{} -> Cells] BY DEF NoAttr
<1>3. \E data \in Fresh, attr \in [{} -> Cells] \cup [{UserName} -> Cells] :
         Tree(data, attr)
    <2>1. CASE InitMount BY <2>1, <1>2 DEF InitMount, Fresh
    <2>2. CASE InitCrypt BY <2>2, <1>2 DEF InitCrypt, Fresh
    <2>3. CASE InitXattr
        <3>1. CASE Tree(<<>>, NoAttr) BY <3>1, <1>2 DEF Fresh
        <3>2. ASSUME NEW a \in InitialAttr,
                     Tree(<<>>, [n \in {UserName} |-> a])
              PROVE  \E attr \in [{UserName} -> Cells] : Tree(<<>>, attr)
            <4>1. a \in Cells BY GivenCells
            <4>2. [n \in {UserName} |-> a] \in [{UserName} -> Cells] BY <4>1
            <4> QED BY <4>2, <3>2
        <3> QED BY <3>1, <3>2, <2>3 DEF InitXattr, Fresh
    <2> QED BY <1>1, <2>1, <2>2, <2>3
<1>4. PICK data \in Fresh, attr \in [{} -> Cells] \cup [{UserName} -> Cells] :
         Tree(data, attr)
    BY <1>3
<1>5. data \in Cells BY GivenCells, NoCells DEF Fresh
<1>6. /\ HostInv
      /\ \A k \in Ino : inode[k].kind = "file" => inode[k].data \in {data, <<>>}
    BY <1>1, <1>4, <1>5, Trees
<1>7. \A k \in Ino : inode[k].kind = "file" => inode[k].data \in Fresh
    BY <1>6 DEF Fresh
<1>8. program \in {"mount", "crypt", "xattr"}
    BY <1>1 DEF InitMount, InitCrypt, InitXattr
<1>9. MirrorInv
    <2>1. /\ at = [c \in Client |-> "idle"] /\ path = [c \in Client |-> None]
          /\ opened = [c \in Client |-> None]
          /\ acked = [c \in Client |-> <<>>]
        BY <1>1 DEF MirrorInit
    <2>2. <<>> \in Seq(Cell) BY EmptySeq
    <2>3. MirrorTypes BY <2>1, <2>2, <1>8 DEF MirrorTypes, Before
    <2>4. \A c \in Client : fd[c] = None BY <1>1, MirrorAssumption
    <2>5. \A c \in Client : Kept(c) BY <2>1, <2>4 DEF Kept, Before, During
    <2>6. \A c \in Client : Untouched(c) BY <2>1 DEF Untouched
    <2> QED BY <2>3, <2>5, <2>6 DEF MirrorInv
<1> USE DEF HasInput, HasOutput, Loop, AfterLoop
<1>10. program = "crypt" => CryptTypes /\ FilesHeld
    <2>1. program = "crypt" => /\ action \in {"encrypt", "decrypt", "copy"}
                               /\ key \in Key
                               /\ inPath \in Path /\ outPath \in Path
        BY <1>1 DEF InitMount, InitCrypt, InitXattr
    <2>2. CryptInit BY <1>1
    <2> QED BY <2>1, <2>2, NoCells DEF CryptInit, CryptTypes, FilesHeld
<1>11. program = "xattr" => target \in Path
    BY <1>1 DEF InitMount, InitCrypt, InitXattr
<1>12. CryptInv
    <2>1. CryptInit BY <1>1
    <2> QED BY <2>1, <1>7 DEF CryptInit, CryptInv, SourceGiven, FilesKnown,
                              Phase, OutputInv, LoopInv, EndInv
<1>13. XattrInv BY <1>1 DEF XattrInit, XattrInv
<1> QED BY <1>6, <1>9, <1>10, <1>11, <1>12, <1>13 DEF ToolsInv, BaseInv

\* Steps of the file system, with its clients or without.
LEMMA MountStep ==
    ASSUME ToolsInv, Mount, UNCHANGED program PROVE ToolsInv'
<1>1. program = "mount" /\ ((\E c \in Client : ClientStep(c)) \/ Others)
    BY DEF Mount
<1>2. HostInv /\ MirrorInv BY DEF ToolsInv, BaseInv
<1>3. HostInv' /\ MirrorInv' BY <1>1, <1>2, ClientMirror, OthersMirror
<1> QED BY <1>1, <1>3 DEF ToolsInv, BaseInv, CryptInv, XattrInv

\* Every step while the encryption tool runs.
LEMMA CryptProgramStep ==
    ASSUME ToolsInv, Crypt, UNCHANGED program PROVE ToolsInv'
<1>1. program = "crypt" /\ BaseInv /\ CryptInv BY DEF Crypt, ToolsInv
<1>2. CASE CryptStep
    BY <1>1, <1>2, BadArgumentsStep, OpenInputStep, OpenOutputStep,
       ReadBlockStep, WriteStep, FinalStep, FlushOutputStep, CloseFilesStep
       DEF CryptStep, do_crypt, ToolsInv, XattrInv
<1>3. CASE /\ Others /\ Tampers
           /\ UNCHANGED <<step, cryptArgs, inPos, outPos, outbuf, hold,
                          pending, status, reported, source, handed,
                          readError, lastLost>>
    BY <1>1, <1>3, OthersCryptStep DEF ToolsInv, XattrInv
<1> QED BY <1>2, <1>3 DEF Crypt

\* Every step while the attributes tool runs.
LEMMA XattrProgramStep ==
    ASSUME ToolsInv, Xattr, UNCHANGED program PROVE ToolsInv'
<1>1. program = "xattr" /\ stage # "exit" /\ BaseInv /\ XattrInv
    BY DEF Xattr, ToolsInv
<1>2. CASE XattrStep
    BY <1>1, <1>2, XattrToolStep DEF ToolsInv, CryptInv
<1>3. CASE Others /\ UNCHANGED xattr
    <2>1. HostInv' /\ MirrorInv' BY <1>1, <1>3, OthersMirror DEF BaseInv
    <2>2. XattrInv' BY <1>1, <1>3 DEF XattrInv, xattr
    <2> QED BY <2>1, <2>2, <1>1, <1>3
            DEF ToolsInv, BaseInv, CryptInv, xattr
<1> QED BY <1>2, <1>3 DEF Xattr

\* Nothing happens.
LEMMA Stutters ==
    ASSUME ToolsInv, UNCHANGED vars PROVE ToolsInv'
<1> USE DEF vars, host, mirror, crypt, cryptArgs, xattr
<1>1. HostInv' BY DEF ToolsInv, BaseInv, HostInv, HostTypes
<1>2. MirrorInv'
    BY DEF ToolsInv, BaseInv, MirrorInv, MirrorTypes, Kept, Untouched
<1>3. BaseInv'
    BY <1>1, <1>2 DEF ToolsInv, BaseInv, CryptTypes, FilesHeld
<1>4. UNCHANGED <<Data("in"), Data("out"), Results(inPos), ByChance, Pad,
                  Given>>
    BY DEF Data, Results, Done, Result, Enc, Dec, Pad, ByChance, Given
<1>5. CryptInv'
    <2>1. SUFFICES ASSUME program = "crypt" PROVE CryptInv'
        BY DEF CryptInv
    <2>2. SourceGiven' /\ FilesKnown' /\ Phase'
        BY <2>1, <1>4 DEF ToolsInv, CryptInv, SourceGiven, FilesKnown, Phase
    <2>3. OutputInv' /\ LoopInv' /\ EndInv'
        BY <2>1, <1>4 DEF ToolsInv, CryptInv, OutputInv, LoopInv, EndInv
    <2> QED BY <2>2, <2>3 DEF CryptInv
<1>6. XattrInv' BY DEF ToolsInv, XattrInv
<1> QED BY <1>3, <1>5, <1>6 DEF ToolsInv

\* The inductive invariant of the file system and of both tools.
LEMMA ToolsInvariant == Spec => []ToolsInv
<1>1. ToolsInv /\ [Next]_vars => ToolsInv'
    BY MountStep, CryptProgramStep, XattrProgramStep, Stutters
       DEF Next, Ended
<1> QED BY <1>1, ToolsBegin, PTL DEF Spec

\* The requests of an open file all reach the file that was opened, and what
\* was written stays in it, unless somebody changes the file or moves it
\* behind the mount (fusexmp.c, which opens the path anew each time).
THEOREM SameFileKept == Spec => []SameFile
<1>1. ASSUME MirrorInv, HostInv PROVE SameFile
    <2>1. SUFFICES ASSUME NEW c \in Client, Open(c), c \notin disturbed
          PROVE  /\ entry[path[c]] = opened[c]
                 /\ fd[c] \in {opened[c], None}
                 /\ acked[c] = SubSeq(inode[opened[c]].data, 1, Len(acked[c]))
        BY DEF SameFile
    <2>2. opened[c] \in Ino
        BY <1>1, <2>1
           DEF MirrorInv, MirrorTypes, Kept, Open, Before, During
    <2>3. /\ entry[path[c]] = opened[c]
          /\ fd[c] \in {opened[c], None}
          /\ Len(acked[c]) <= Len(inode[opened[c]].data)
          /\ \A k \in 1 .. Len(acked[c]) :
                acked[c][k] = inode[opened[c]].data[k]
        BY <1>1, <2>1, <2>2, HostAssumption DEF MirrorInv, Untouched
    <2> DEFINE d == inode[opened[c]].data
               n == Len(acked[c])
               s == SubSeq(d, 1, n)
    <2>4. d \in Cells BY <1>1, <2>2 DEF HostInv, HostTypes, Node
    <2>5. acked[c] \in Seq(Cell) BY <1>1 DEF MirrorInv, MirrorTypes
    <2>6. acked[c] \in Cells
        <3>1. Cell \subseteq Datum BY DEF Datum, Raw
        <3> QED BY <3>1, <2>5, SeqMonotonic DEF Cells
    <2>7. n \in Nat /\ n <= Len(d) BY <2>3, <2>6, LenProperties DEF Cells
    <2>8. s \in Cells /\ Len(s) = n /\ \A k \in 1 .. n : s[k] = d[k]
        <3> HIDE DEF d, n
        <3> QED BY <2>4, <2>7, FirstCells
    <2> HIDE DEF s
    <2>9. acked[c] = s BY <2>3, <2>6, <2>8, SeqEqual DEF Cells
    <2> QED BY <2>3, <2>9 DEF s
<1>2. ToolsInv => SameFile BY <1>1 DEF ToolsInv, BaseInv
<1> QED BY <1>2, ToolsInvariant, PTL

\* No request, whether it fails or not, leaves a descriptor open.
THEOREM DescriptorsClosed == Spec => []NoDescriptorLeaks
<1>1. ToolsInv => NoDescriptorLeaks
    BY DEF ToolsInv, BaseInv, MirrorInv, Kept, During, NoDescriptorLeaks
<1> QED BY <1>1, ToolsInvariant, PTL

\* After the loop everything was read, unless reading failed and no padding
\* told so.
LEMMA AllWasRead ==
    ASSUME BaseInv, CryptInv, program = "crypt", step \in AfterLoop,
           ~tampered, ~reported, ~readError \/ (action = "decrypt" /\ ~ByChance)
    PROVE  /\ inPos = Len(source)
           /\ Given = Wanted \/ (ByChance /\ Given = Append(Wanted, Piece))
           /\ action = "decrypt" /\ ~ByChance => source[Len(source)] = Pad
<1>1. /\ CryptTypes /\ EndInv /\ source \in Fresh /\ source \in Cells
      /\ inPos \in Nat /\ Len(source) \in Nat
    BY LenProperties DEF BaseInv, CryptInv, SourceGiven, CryptTypes, Cells,
                         AfterLoop, HasInput
<1>2. action = "decrypt" /\ ~ByChance => source[inPos] = Pad
    <2>1. SUFFICES ASSUME action = "decrypt", ~ByChance
                   PROVE  source[inPos] = Pad
        OBVIOUS
    <2>2. <<source[inPos]>> = <<Pad>> BY <1>1, <2>1 DEF EndInv, ByChance
    <2>3. <<source[inPos]>>[1] = <<Pad>>[1] BY <2>2
    <2> QED BY <2>3
<1>3. inPos = Len(source)
    <2>1. CASE ~readError BY <1>1, <2>1 DEF EndInv
    <2>2. CASE action = "decrypt" /\ ~ByChance
        <3>1. inPos \in 1 .. Len(source) BY <1>1, <2>2 DEF EndInv
        <3> QED BY <3>1, <1>1, <1>2, <2>2, PaddingIsLast
    <2> QED BY <2>1, <2>2
<1>4. Given = Wanted \/ (ByChance /\ Given = Append(Wanted, Piece))
    <2>1. CASE action \in {"copy", "encrypt"}
        BY <1>1, <1>3, <2>1, ResultsOfAll DEF EndInv
    <2>2. CASE action = "decrypt"
        <3>1. source # <<>>
            <4>1. Len(<<>>) = 0 BY EmptySeq
            <4> QED BY <4>1, <1>1, <1>3, <2>2 DEF EndInv
        <3>2. Results(inPos) = Wanted
            BY <3>1, <1>1, <1>3, <2>2, ResultsOfAll
        <3>3. Wanted \o <<Piece>> = Append(Wanted, Piece)
            <4>1. Wanted \in Seq(Datum)
                BY <3>2, <1>1, <2>2, ResultsAreCells DEF EndInv, Cells
            <4> HIDE DEF Wanted, Piece
            <4> QED BY <4>1, PieceIsCell
        <3> QED BY <3>2, <3>3, <1>1, <2>2 DEF EndInv
    <2> QED BY <2>1, <2>2, <1>1 DEF CryptTypes
<1> QED BY <1>2, <1>3, <1>4

\* What is left when the files are closed: everything was handed over, and is
\* in the output.
LEMMA FlushedMeans ==
    ASSUME BaseInv, CryptInv, program = "crypt", step = "flushed",
           ~tampered, ~reported
    PROVE  /\ lastLost \/ Data("out") = Given
           /\ \/ readError /\ (action = "decrypt" => ByChance)
              \/ Given = Wanted
              \/ ByChance /\ Given = Append(Wanted, Piece)
<1> USE DEF HasInput, HasOutput, Loop, AfterLoop
<1>1. outbuf = <<>> /\ pending = <<>> BY DEF CryptInv, Phase
<1>2. handed \in Cells /\ Data("out") \in Cells
    BY CryptHolds DEF BaseInv, CryptTypes
<1>3. handed \o <<>> = handed /\ Data("out") \o <<>> = Data("out")
    BY <1>2, ConcatEmptySeq DEF Cells
<1>4. lastLost \/ Data("out") = Given
    BY <1>1, <1>3 DEF CryptInv, OutputInv, Given
<1>5. readError \in BOOLEAN BY DEF BaseInv, CryptTypes
<1> QED BY <1>4, <1>5, AllWasRead

\* The tool runs only as the program "crypt".
CryptAlone == program # "crypt" => step = "args"

\* While another program runs the encryption tool has not begun.
LEMMA OnlyCrypt == Spec => []CryptAlone
<1>1. Init => CryptAlone BY DEF Init, CryptInit, CryptAlone
<1>2. CryptAlone /\ [Next]_vars => CryptAlone'
    BY DEF CryptAlone, Next, Mount, Crypt, Xattr, Ended, vars, crypt
<1> QED BY <1>1, <1>2, PTL DEF Spec

\* If do_crypt and fclose say nothing, the output has the whole result, but
\* for a failed read and for the last fwrite, which is not checked
\* (aes-crypt-util.c, aes-crypt.c).
THEOREM SilenceMeans == Spec => []SilentMeansComplete
<1>1. ToolsInv /\ CryptAlone => SilentMeansComplete
    BY FlushedMeans DEF ToolsInv, CryptAlone, SilentMeansComplete
<1> QED BY <1>1, ToolsInvariant, OnlyCrypt, PTL

\* A decryption that says nothing has given out the decryption of what it
\* read, and only what was encrypted with its key, to the last block, if it
\* ended on the padding of the key; if not, a block that reads like a padding
\* is all it takes, and a piece of it is given out as well (aes-crypt.c:101).
THEOREM PaddingIsTold == Spec => []PaddingTells
<1>1. ASSUME ToolsInv, CryptAlone PROVE PaddingTells
    <2> DEFINE first == Decrypted(SubSeq(source, 1, inPos))
    <2>1. SUFFICES ASSUME action = "decrypt", step \in AfterLoop,
                          ~reported, ~tampered
                   PROVE  /\ inPos > 0
                          /\ \/ Given = first
                             \/ ByChance /\ Given = Append(first, Piece)
                          /\ ~ByChance => /\ source[Len(source)] = Pad
                                          /\ Given = Wanted
        BY DEF PaddingTells, AfterLoop, Given
    <2>2. program = "crypt" /\ BaseInv /\ CryptInv
        BY <1>1, <2>1 DEF ToolsInv, CryptAlone, AfterLoop
    <2>3. /\ CryptTypes /\ inPos > 0 /\ inPos <= Len(source)
          /\ \/ Given = Results(inPos)
             \/ ByChance /\ Given = Results(inPos) \o <<Piece>>
        BY <2>1, <2>2 DEF BaseInv, CryptInv, EndInv
    <2>4. first = Results(inPos) BY <2>1, <2>3, ReadSoFar
    <2>5. Results(inPos) \o <<Piece>> = Append(Results(inPos), Piece)
        <3>1. Results(inPos) \in Seq(Datum)
            BY <2>3, ResultsAreCells DEF Cells
        <3> HIDE DEF Results, Piece
        <3> QED BY <3>1, PieceIsCell
    <2> HIDE DEF first
    <2>6. ~ByChance => source[Len(source)] = Pad /\ Given = Wanted
        BY <2>1, <2>2, AllWasRead
    <2> QED BY <2>3, <2>4, <2>5, <2>6
<1>2. ToolsInv /\ CryptAlone => PaddingTells BY <1>1
<1> QED BY <1>2, ToolsInvariant, OnlyCrypt, PTL

\* The attributes tool gets what the file has at that moment, or fails.
Prints(out) ==
    /\ Reached
    /\ CASE out.kind = "value" -> /\ UserName \in DOMAIN Attrs(File)
                                  /\ out.value = Attrs(File)[UserName]
         [] out.kind = "names" -> out.names = DOMAIN Attrs(File)
         [] OTHER              -> UserName \notin DOMAIN Attrs(File)

\* What the attributes tool prints is there when it prints it.
LEMMA PrintsNow ==
    ASSUME BaseInv, XattrInv, program = "xattr", stage # "exit", XattrStep
    PROVE  /\ printed' # printed => Prints(printed')
           /\ overrun' => room = 0 \/ exitStatus' = "EXIT_FAILURE"
<1>1. printed = Nothing /\ ~overrun /\ target \in Path /\ HostInv
    BY DEF BaseInv, XattrInv
<1> USE DEF Success, Failure, Finish
<1>2. CASE Refuse BY <1>1, <1>2 DEF Refuse
<1>3. CASE Size BY <1>1, <1>3 DEF Size
<1>4. \A n : n = DOMAIN Attrs(File) /\ Reached => Prints(Names(n))
    <2>1. \A n : Names(n).kind = "names" /\ Names(n).names = n
        BY DEF Names
    <2> QED BY <2>1 DEF Prints
<1>5. \A v : /\ v = Attrs(File)[UserName] /\ Reached
             /\ UserName \in DOMAIN Attrs(File)
             => Prints(Value(v))
    <2>1. \A v : Value(v).kind = "value" /\ Value(v).value = v
        BY DEF Value
    <2> QED BY <2>1 DEF Prints
<1>6. Reached /\ UserName \notin DOMAIN Attrs(File) => Prints(NoSuch)
    <2>1. ~(NoSuch.kind = "value") /\ ~(NoSuch.kind = "names") BY DEF NoSuch
    <2> HIDE DEF NoSuch
    <2> QED BY <2>1, Zenon DEF Prints
<1>7. CASE List BY <1>1, <1>4, <1>7, Listing DEF List
<1>8. CASE ValueSize BY <1>1, <1>6, <1>8, Getting DEF ValueSize
<1>9. CASE Get
    <2>1. room \in Nat BY <1>9 DEF Get, XattrInv
    <2> DEFINE r == getxattr(room)
    <2>2. \/ printed' = Nothing
          \/ printed' = NoSuch /\ r.res = "ENODATA"
          \/ printed' = Value(r.data) /\ r.res = "ok"
        BY <1>9 DEF Get
    <2>3. /\ r.res = "ENODATA" => Prints(NoSuch)
          /\ r.res = "ok" => Prints(Value(r.data))
        BY <1>5, <1>6, Getting
    <2>4. overrun' => room = 0 \/ exitStatus' = "EXIT_FAILURE"
        <3>1. SUFFICES ASSUME overrun', exitStatus' # "EXIT_FAILURE"
                       PROVE  room = 0
            OBVIOUS
        <3>2. r.res = "ok" /\ Len(r.data) > room
            BY <3>1, <1>9, <1>1 DEF Get
        <3>3. room > 0 => ~(Len(r.data) > room)
            BY <3>2, Getting
        <3> HIDE DEF r
        <3> QED BY <3>2, <3>3, <2>1
    <2> HIDE DEF r
    <2> QED BY <2>2, <2>3, <2>4, <1>1
<1>10. CASE Set BY <1>1, <1>10 DEF Set
<1>11. CASE Remove BY <1>1, <1>6, <1>11 DEF Remove
<1> QED BY <1>2, <1>3, <1>7, <1>8, <1>9, <1>10, <1>11 DEF XattrStep

\* What is printed is what the file has at that moment, whatever became of it
\* since its size was asked for; memory is overrun only for a value or a list
\* that was empty then, or when a get fails (xattr-util.c).
THEOREM PrintsTruth == Spec => PrintsWhatIsThere
<1> DEFINE A == /\ printed' # printed => Prints(printed')
                /\ overrun' => room = 0 \/ exitStatus' = "EXIT_FAILURE"
<1>1. ToolsInv /\ [Next]_vars => [A]_<<printed, overrun>>
    <2>1. SUFFICES ASSUME ToolsInv, [Next]_vars,
                          ~UNCHANGED <<printed, overrun>>
                   PROVE  A
        OBVIOUS
    <2>2. Xattr /\ ~UNCHANGED xattr
        BY <2>1 DEF Next, Mount, Crypt, Xattr, Ended, vars, xattr
    <2>3. program = "xattr" /\ stage # "exit" /\ XattrStep
        BY <2>2 DEF Xattr
    <2> QED BY <2>1, <2>3, PrintsNow DEF ToolsInv
<1>2. Spec => [][A]_<<printed, overrun>>
    BY <1>1, ToolsInvariant, PTL DEF Spec
<1> QED BY <1>2 DEF PrintsWhatIsThere, Prints

=============================================================================
