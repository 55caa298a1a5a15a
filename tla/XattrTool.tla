------------------------------ MODULE XattrTool ------------------------------
(***************************************************************************)
(* prog_assign/assignment-5/pa5/xattr-util.c: list, set, get or remove the *)
(* extended attributes of a file.  To list or get, the size is asked for   *)
(* first and the data fetched by a second call, with others in between.    *)
(* The calls follow a symbolic link; on the mount the kernel does so       *)
(* before it asks a handler, which passes the call on.                     *)
(***************************************************************************)
EXTENDS MirrorFs

VARIABLES
    stage,            \* "args", "sized", or "exit"
    command, target,  \* the arguments; the attribute is UserName, which is
                      \* the name given with the prefix "user."
    room,             \* lstsize or valsize of the first call
    printed,          \* what was printed on stdout
    exitStatus,
    overrun           \* memory outside a buffer was used

xattr == <<stage, command, target, room, printed, exitStatus, overrun>>

Nothing  == [kind |-> "nothing", names |-> {}, value |-> <<>>]
NoSuch   == [kind |-> "no attribute", names |-> {}, value |-> <<>>]
Names(s) == [kind |-> "names", names |-> s, value |-> <<>>]
Value(v) == [kind |-> "value", names |-> {}, value |-> v]

XattrInit == /\ stage = "args" /\ room = 0 /\ printed = Nothing
             /\ exitStatus = "none" /\ overrun = FALSE

Finish(out, s) == stage' = "exit" /\ printed' = out /\ exitStatus' = s

Success(out) == Finish(out, "EXIT_SUCCESS")
Failure      == Finish(Nothing, "EXIT_FAILURE")

\* The file that the calls without an l work on: what the target links to.
\* A link to a link is taken for a cycle (ELOOP), as in HostFiles.
File    == Follow(target)
Reached == Exists(File) /\ Kind(File) # "symlink"

getxattr(size)  == IF Reached THEN xmp_getxattr(File, UserName, size)
                              ELSE Failed("ENOENT")
listxattr(size) == IF Reached THEN xmp_listxattr(File, size)
                              ELSE [res |-> "ENOENT", names |-> {}]

\* A wrong number of arguments, an unknown command, or no memory.
Refuse == /\ stage \in {"args", "sized"}
          /\ Failure
          /\ UNCHANGED <<host, mirror, command, target, room, overrun>>

Size == /\ stage = "args" /\ command = "-l"
        /\ LET r == listxattr(0)
           IN \/ /\ r.res = "ok" /\ stage' = "sized"
                 /\ room' = Cardinality(r.names)
                 /\ UNCHANGED <<printed, exitStatus>>
              \/ r.res # "ok" /\ Failure /\ UNCHANGED room
        /\ UNCHANGED <<host, mirror, command, target, overrun>>

\* With a room of 0 the second call, too, only tells the size, and the loop
\* walks over a list that was never stored.
List == /\ stage = "sized" /\ command = "-l"
        /\ LET r == listxattr(room)
           IN \/ /\ r.res = "ok" /\ (room > 0 \/ r.names = {})
                 /\ Success(Names(r.names)) /\ UNCHANGED overrun
              \/ /\ r.res = "ok" /\ room = 0 /\ r.names # {}
                 /\ Success(Nothing) /\ overrun' = TRUE
              \/ r.res # "ok" /\ Failure /\ UNCHANGED overrun
        /\ UNCHANGED <<host, mirror, command, target, room>>

ValueSize ==
    /\ stage = "args" /\ command = "-g"
    /\ LET r == getxattr(0)
       IN \/ /\ r.res = "ok" /\ stage' = "sized" /\ room' = Len(r.data)
             /\ UNCHANGED <<printed, exitStatus>>
          \/ r.res = "ENODATA" /\ Success(NoSuch) /\ UNCHANGED room
          \/ r.res = "ENOENT" /\ Failure /\ UNCHANGED room
    /\ UNCHANGED <<host, mirror, command, target, overrun>>

\* Mistake: the size of the first call is used for the end of the value.
GetWithOldSize ==
    /\ stage = "sized" /\ command = "-g"
    /\ LET r == getxattr(room)
       IN \/ /\ r.res = "ok"
             /\ Success(Value([i \in 1 .. room |->
                   IF i <= Len(r.data) THEN r.data[i] ELSE Hole]))
          \/ r.res = "ENODATA" /\ Success(NoSuch)
          \/ r.res \in {"ENOENT", "ERANGE"} /\ Failure
    /\ UNCHANGED <<host, mirror, command, target, room, overrun>>

\* A value that has become longer is an error (ERANGE), unless the room is
\* 0: then the size alone comes back, and the NUL is put far outside.  An
\* error message prints the buffer as well, which nobody has written to.
Get ==
    /\ stage = "sized" /\ command = "-g"
    /\ LET r == getxattr(room)
       IN \/ /\ r.res = "ok" /\ Len(r.data) <= room
             /\ Success(Value(r.data)) /\ UNCHANGED overrun
          \/ /\ r.res = "ok" /\ Len(r.data) > room
             /\ Success(Nothing) /\ overrun' = TRUE
          \/ r.res = "ENODATA" /\ Success(NoSuch) /\ UNCHANGED overrun
          \/ r.res \in {"ENOENT", "ERANGE"} /\ Failure /\ overrun' \in BOOLEAN
    /\ UNCHANGED <<host, mirror, command, target, room>>

Set == /\ stage = "args" /\ command = "-s"
       /\ \/ \E v \in {<<x>> : x \in Cell} \cup {<<>>} :
                /\ Reached /\ xmp_setxattr(File, UserName, v)
                /\ Success(Nothing)
          \/ Failure /\ UNCHANGED host
       /\ UNCHANGED <<mirror, command, target, room, overrun>>

Remove ==
    /\ stage = "args" /\ command = "-r"
    /\ \/ /\ Reached /\ xmp_removexattr(File, UserName)
          /\ Success(Nothing)
       \/ /\ Reached /\ UserName \notin DOMAIN Attrs(File)
          /\ Success(NoSuch) /\ UNCHANGED host
       \/ ~Reached /\ Failure /\ UNCHANGED host
    /\ UNCHANGED <<mirror, command, target, room, overrun>>

\* What is printed is what the file, or the one a link leads to, has at that
\* moment, a value or a list in one piece, whatever became of it since its
\* size was asked for.  Memory is only overrun for a value or a list that was
\* empty then, or by the message of a get that fails.
PrintsWhatIsThere ==
    [][/\ printed' # printed =>
             /\ Reached
             /\ CASE printed'.kind = "value" -> /\ UserName \in DOMAIN Attrs(File)
                                                /\ printed'.value = Attrs(File)[UserName]
                  [] printed'.kind = "names" -> printed'.names = DOMAIN Attrs(File)
                  [] OTHER                   -> UserName \notin DOMAIN Attrs(File)
       /\ overrun' => room = 0 \/ exitStatus' = "EXIT_FAILURE"
      ]_<<printed, overrun>>

XattrStep == Refuse \/ Size \/ List \/ ValueSize \/ Get \/ Set \/ Remove
=============================================================================
