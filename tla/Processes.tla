----------------------------- MODULE Processes -----------------------------
(***************************************************************************)
(* Processes and threads whose code is a straight line of calls, and what  *)
(* the kernel does for them: pipes, FIFOs, sockets and message queues      *)
(* (streams of messages), shared memory (cells), semaphores, signals, and  *)
(* the creation and the end of processes.  Not in the repository: each     *)
(* operation is the call named beside it.                                  *)
(***************************************************************************)
EXTENDS Integers, SequencesExt

CONSTANT NUL

VARIABLES
    at,       \* at[p]: the next call of p; 0 before p is created
    over,     \* over[p]: "no", or how p ended
    object,   \* object[o]: [made, data, r, w]; r and w hold the open ends
    value,    \* value[s]: the value of semaphore s
    seen,     \* seen[p]: what p has read, or the signals it has handled
    pending, handled   \* the signals of p

processVars == <<at, over, object, value, seen, pending, handled>>

Absent      == [made |-> FALSE, data |-> <<>>, r |-> {}, w |-> {}]
Memory(m)   == [Absent EXCEPT !.made = TRUE, !.data = m]

Advance(p)  == at' = [at EXCEPT ![p] = @ + 1]
See(p, x)   == seen' = [seen EXCEPT ![p] = Append(@, x)]
Ends(p, how, objects) ==
    /\ over' = [over EXCEPT ![p] = how]
    /\ object' = [o \in DOMAIN objects |->
                     [objects[o] EXCEPT !.r = @ \ {p}, !.w = @ \ {p}]]
Update(o, new) == object' = [object EXCEPT ![o] = new]

Running(p) == at[p] > 0 /\ over[p] = "no"

(***************************************************************************)
(* The calls, each a step of process p with its arguments                  *)
(***************************************************************************)

\* mkfifo, msgget or shmget with IPC_CREAT, shm_open, listen: it may exist.
Make(p, o, data) ==
    /\ Update(o, IF object[o].made THEN object[o]
                 ELSE [object[o] EXCEPT !.made = TRUE, !.data = data])
    /\ Advance(p) /\ UNCHANGED <<over, value, seen, pending, handled>>

\* ftruncate: zeros are added.
Grow(p, o, data) ==
    /\ Update(o, IF object[o].data = <<>> THEN [object[o] EXCEPT !.data = data]
                 ELSE object[o])
    /\ Advance(p) /\ UNCHANGED <<over, value, seen, pending, handled>>

\* msgget, shmget, shm_open without O_CREAT: the process exits if it fails.
Need(p, o) ==
    /\ IF object[o].made THEN Advance(p) /\ UNCHANGED <<over, object>>
       ELSE Ends(p, "failure", object) /\ UNCHANGED at
    /\ UNCHANGED <<value, seen, pending, handled>>

Unlink(p, o) ==
    /\ Update(o, [object[o] EXCEPT !.made = FALSE])
    /\ Advance(p) /\ UNCHANGED <<over, value, seen, pending, handled>>

\* pipe: both ends are the caller's.
Pipe(p, o) ==
    /\ Update(o, [object[o] EXCEPT !.made = TRUE, !.r = {p}, !.w = {p}])
    /\ Advance(p) /\ UNCHANGED <<over, value, seen, pending, handled>>

\* open of a FIFO, in two steps: the end is there, and so is the other one.
Open(p, o, end) ==
    /\ \/ /\ ~object[o].made /\ Advance(p) /\ UNCHANGED object
       \/ /\ object[o].made /\ p \notin object[o][end]
          /\ Update(o, [object[o] EXCEPT ![end] = @ \cup {p}])
          /\ UNCHANGED at
       \/ /\ p \in object[o][end]
          /\ IF end = "r" THEN object[o].w \cup Range(object[o].data) # {}
                          ELSE object[o].r # {}
          /\ Advance(p) /\ UNCHANGED object
    /\ UNCHANGED <<over, value, seen, pending, handled>>

\* connect: the streams to and from the server; the process exits if nobody
\* listens.
Connect(p, o, server) ==
    /\ IF object[o].made
       THEN /\ object' = [object EXCEPT
                   !.toClient = [Absent EXCEPT !.made = TRUE, !.r = {p},
                                               !.w = {server}],
                   !.toServer = [Absent EXCEPT !.made = TRUE, !.r = {server},
                                               !.w = {p}]]
            /\ Advance(p) /\ UNCHANGED over
       ELSE Ends(p, "failure", object) /\ UNCHANGED at
    /\ UNCHANGED <<value, seen, pending, handled>>

Accept(p) ==
    /\ object.toServer.made
    /\ Advance(p)
    /\ UNCHANGED <<over, object, value, seen, pending, handled>>

Close(p, o, end) ==
    /\ Update(o, [object[o] EXCEPT ![end] = @ \ {p}])
    /\ Advance(p) /\ UNCHANGED <<over, value, seen, pending, handled>>

\* write and send.  Without a reader SIGPIPE ends the process.
Write(p, o, x) ==
    /\ \/ p \notin object[o].w /\ Advance(p) /\ UNCHANGED <<over, object>>
       \/ /\ p \in object[o].w /\ object[o].r # {}
          /\ Update(o, [object[o] EXCEPT !.data = Append(@, x)])
          /\ Advance(p) /\ UNCHANGED over
       \/ /\ p \in object[o].w /\ object[o].r = {}
          /\ Ends(p, "SIGPIPE", object) /\ UNCHANGED at
    /\ UNCHANGED <<value, seen, pending, handled>>

\* read: a message, or nothing more will come, or there is no descriptor.
Read(p, o) ==
    /\ \/ p \notin object[o].r /\ See(p, "no descriptor") /\ UNCHANGED object
       \/ /\ p \in object[o].r /\ object[o].data # <<>>
          /\ See(p, Head(object[o].data))
          /\ Update(o, [object[o] EXCEPT !.data = Tail(@)])
       \/ /\ p \in object[o].r /\ object[o].data = <<>> /\ object[o].w = {}
          /\ See(p, "end of file") /\ UNCHANGED object
    /\ Advance(p) /\ UNCHANGED <<over, value, pending, handled>>

\* msgsnd with IPC_NOWAIT, which fails on a full queue, and msgrcv.
Send(p, o, x) ==
    /\ \/ /\ Update(o, [object[o] EXCEPT !.data = Append(@, x)])
          /\ Advance(p) /\ UNCHANGED over
       \/ Ends(p, "failure", object) /\ UNCHANGED at
    /\ UNCHANGED <<value, seen, pending, handled>>

Receive(p, o) ==
    /\ object[o].data # <<>>
    /\ See(p, Head(object[o].data))
    /\ Update(o, [object[o] EXCEPT !.data = Tail(@)])
    /\ Advance(p) /\ UNCHANGED <<over, value, pending, handled>>

\* Shared memory: a store, a loop that reads cells up to a NUL (beyond the
\* size of the object SIGBUS ends the process), and one that waits for x.
Put(p, o, k, x) ==
    /\ Update(o, [object[o] EXCEPT !.data[k] = x])
    /\ Advance(p) /\ UNCHANGED <<over, value, seen, pending, handled>>

Scan(p, o) ==
    LET k == Len(seen[p]) + 1
    IN /\ \/ /\ object[o].data = <<>>
             /\ Ends(p, "SIGBUS", object) /\ UNCHANGED <<at, seen>>
          \/ /\ k \in DOMAIN object[o].data /\ object[o].data[k] = NUL
             /\ Advance(p) /\ UNCHANGED <<over, object, seen>>
          \/ /\ k \in DOMAIN object[o].data /\ object[o].data[k] # NUL
             /\ See(p, object[o].data[k]) /\ UNCHANGED <<at, over, object>>
       /\ UNCHANGED <<value, pending, handled>>

Await(p, o, k, x) ==
    /\ object[o].data[k] = x
    /\ Advance(p)
    /\ UNCHANGED <<over, object, value, seen, pending, handled>>

\* sem_wait and sem_post.
SemWait(p, s) ==
    /\ value[s] > 0 /\ value' = [value EXCEPT ![s] = @ - 1]
    /\ Advance(p) /\ UNCHANGED <<over, object, seen, pending, handled>>

SemPost(p, s) ==
    /\ value' = [value EXCEPT ![s] = @ + 1]
    /\ Advance(p) /\ UNCHANGED <<over, object, seen, pending, handled>>

\* fork, CreateProcess, pthread_create: the child gets the caller's ends.
\* If it fails the process exits, with all its threads; no program here
\* has other processes by then.
Create(p, c) ==
    /\ \/ /\ at' = [at EXCEPT ![p] = @ + 1, ![c] = 1]
          /\ object' = [o \in DOMAIN object |->
                [object[o] EXCEPT !.r = IF p \in @ THEN @ \cup {c} ELSE @,
                                  !.w = IF p \in @ THEN @ \cup {c} ELSE @]]
          /\ UNCHANGED over
       \/ /\ over' = [q \in DOMAIN over |-> IF over[q] = "no" THEN "failure"
                                                          ELSE over[q]]
          /\ UNCHANGED <<at, object>>
    /\ UNCHANGED <<value, seen, pending, handled>>

\* wait, WaitForSingleObject, pthread_join.
Join(p, c) ==
    /\ over[c] # "no"
    /\ Advance(p)
    /\ UNCHANGED <<over, object, value, seen, pending, handled>>

\* signal and kill; the child of a kill exists, dead or alive.
Handle(p, s) ==
    /\ handled' = [handled EXCEPT ![p] = @ \cup {s}]
    /\ Advance(p) /\ UNCHANGED <<over, object, value, seen, pending>>

Kill(p, c, s) ==
    /\ pending' = [pending EXCEPT ![c] = @ \cup {s}]
    /\ Advance(p) /\ UNCHANGED <<over, object, value, seen, handled>>

\* A handler runs, or the default action ends the process.
Deliver(p, final) ==
    /\ Running(p)
    /\ \E s \in pending[p] :
          /\ pending' = [pending EXCEPT ![p] = @ \ {s}]
          /\ IF s \in handled[p]
             THEN /\ See(p, s)
                  /\ IF s = final THEN Ends(p, "exited", object)
                                  ELSE UNCHANGED <<over, object>>
             ELSE Ends(p, s, object) /\ UNCHANGED seen
    /\ UNCHANGED <<at, value, handled>>

Display(p) ==
    Advance(p) /\ UNCHANGED <<over, object, value, seen, pending, handled>>

(***************************************************************************)
(* A step of process p with this code                                      *)
(***************************************************************************)
Call(p, c) ==
    \/ c[1] = "make"    /\ Make(p, c[2], c[3])
    \/ c[1] = "grow"    /\ Grow(p, c[2], c[3])
    \/ c[1] = "need"    /\ Need(p, c[2])
    \/ c[1] = "unlink"  /\ Unlink(p, c[2])
    \/ c[1] = "pipe"    /\ Pipe(p, c[2])
    \/ c[1] = "open"    /\ Open(p, c[2], c[3])
    \/ c[1] = "connect" /\ Connect(p, c[2], c[3])
    \/ c[1] = "accept"  /\ Accept(p)
    \/ c[1] = "close"   /\ Close(p, c[2], c[3])
    \/ c[1] = "write"   /\ Write(p, c[2], c[3])
    \/ c[1] = "read"    /\ Read(p, c[2])
    \/ c[1] = "send"    /\ Send(p, c[2], c[3])
    \/ c[1] = "receive" /\ Receive(p, c[2])
    \/ c[1] = "put"     /\ Put(p, c[2], c[3], c[4])
    \/ c[1] = "scan"    /\ Scan(p, c[2])
    \/ c[1] = "await"   /\ Await(p, c[2], c[3], c[4])
    \/ c[1] = "wait"    /\ SemWait(p, c[2])
    \/ c[1] = "signal"  /\ SemPost(p, c[2])
    \/ c[1] = "create"  /\ Create(p, c[2])
    \/ c[1] = "join"    /\ Join(p, c[2])
    \/ c[1] = "handle"  /\ Handle(p, c[2])
    \/ c[1] = "kill"    /\ Kill(p, c[2], c[3])
    \/ c[1] = "print"   /\ Display(p)

Step(p, code) ==
    /\ Running(p)
    /\ \/ at[p] \in DOMAIN code /\ Call(p, code[at[p]])
       \/ /\ at[p] > Len(code)
          /\ Ends(p, "exited", object)
          /\ UNCHANGED <<at, value, seen, pending, handled>>
=============================================================================
