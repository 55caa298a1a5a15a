------------------------------ MODULE FileTools ------------------------------
(***************************************************************************)
(* The programs of assignment 5 on one host: clients of the mirror file    *)
(* system, or the encryption tool, or the attributes tool, while others    *)
(* change the files they work on.                                          *)
(***************************************************************************)
EXTENDS CryptTool, XattrTool

CONSTANTS InitialData, InitialAttr  \* what the first file may hold

\* A cell that is a padding can only be the last one of a file.
ASSUME ToolsAssumption ==
    /\ Path # {} /\ \E i, j \in Ino : i # j
    /\ \A s \in InitialData \cup InitialAttr :
          s \in Seq({s[k] : k \in DOMAIN s})
    /\ \A s \in InitialData : \A k \in DOMAIN s :
          s[k].v = Padding => k = Len(s)

VARIABLE program   \* which of the three runs

vars == <<program, host, mirror, crypt, xattr>>

FileMode == {"r", "w"}

\* One file with one name, or two, or a symbolic link to it; which of the
\* names and inodes it are makes no difference.
Tree(data, attr) ==
    LET i == CHOOSE k \in Ino : TRUE
        j == CHOOSE k \in Ino : k # i
        p == CHOOSE r \in Path : TRUE
        q == CHOOSE r \in Path : r # p
    IN /\ \E second \in {None, i, j} :
             entry = [r \in Path |-> IF r = p THEN i
                                     ELSE IF r = q THEN second ELSE None]
       /\ inode = [k \in Ino |->
                      IF k = i THEN [NewInode("file", data, FileMode)
                                        EXCEPT !.attr = attr]
                      ELSE IF k = j THEN NewInode("symlink", <<p>>, {})
                      ELSE NewInode("file", <<>>, {})]

NoAttr == [n \in {} |-> <<>>]

InitMount == /\ program = "mount"
             /\ Tree(<<>>, NoAttr)
InitCrypt == /\ program = "crypt"
             /\ \E data \in InitialData : Tree(data, NoAttr)
             /\ action \in {"encrypt", "decrypt", "copy"} /\ key \in Key
             /\ inPath \in Path /\ outPath \in Path
InitXattr == /\ program = "xattr"
             /\ \/ Tree(<<>>, NoAttr)
                \/ \E a \in InitialAttr : Tree(<<>>, [n \in {UserName} |-> a])
             /\ command \in {"-l", "-s", "-g", "-r"} /\ target \in Path
NotCrypt  == action = "copy" /\ key = NoKey /\ inPath = None /\ outPath = None
NotXattr  == command = "-l" /\ target = None

Init ==
    /\ \/ InitMount /\ NotCrypt /\ NotXattr
       \/ InitCrypt /\ NotXattr
       \/ InitXattr /\ NotCrypt
    /\ fd = [h \in Holder |-> None]
    /\ MirrorInit /\ CryptInit /\ XattrInit

Mount  == /\ program = "mount"
          /\ (\E c \in Client : ClientStep(c)) \/ Others
          /\ UNCHANGED <<crypt, xattr>>
\* What others do to the files that the tool has open is recorded.
Crypt  == /\ program = "crypt" /\ step # "exit"
          /\ \/ CryptStep
             \/ /\ Others /\ Tampers
                /\ UNCHANGED <<step, cryptArgs, inPos, outPos, outbuf, hold,
                               pending, status, reported, source, handed,
                               readError, lastLost>>
          /\ UNCHANGED xattr
Xattr  == /\ program = "xattr" /\ stage # "exit"
          /\ XattrStep \/ (Others /\ UNCHANGED xattr)
          /\ UNCHANGED crypt

\* Clients need not open a file.
Ended == /\ \/ step = "exit" \/ stage = "exit"
            \/ program = "mount" /\ \A c \in Client : at[c] = "idle"
         /\ UNCHANGED vars

Next == \/ (Mount \/ Crypt \/ Xattr) /\ UNCHANGED program
        \/ Ended

Spec == Init /\ [][Next]_vars

\* The tools are sequential programs that run whenever they can.
Fairness == /\ WF_vars(program = "crypt" /\ CryptStep
                       /\ UNCHANGED <<xattr, program>>)
            /\ WF_vars(program = "xattr" /\ XattrStep
                       /\ UNCHANGED <<crypt, program>>)

FairSpec == Spec /\ Fairness

\* The tools end, on whatever files and whatever fails.
ToolsEnd == <>(program = "mount" \/ step = "exit" \/ stage = "exit")
=============================================================================
