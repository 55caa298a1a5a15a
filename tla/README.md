# Verification of the CSCI-3753 programs

This directory holds TLA+ models of the concurrent and stateful programs of
the repository (an operating-systems course: programming assignments, problem
sets and demos, in C), the TLC configurations that check them, and proofs that
TLAPS checks.

## The system: inventory

The repository is a set of separate programs. They share no state; what they
have in common is the kind of mistake they can make. For each: its state, its
operations, what is hard about it, and what makes it correct.

| component | where | state | operations | hard behaviour | correct when |
|---|---|---|---|---|---|
| hostname queue | `prog_assign/assignment-3/submit/queue.c` | ring of slots, `front`, `rear`, `maxSize` | init, is_empty, is_full, push, pop, cleanup | `front = rear` means empty and full; wrap-around | it is a bounded first-in first-out buffer |
| threaded resolver | `prog_assign/assignment-3/submit/multi-lookup.c` | the queue, `finished_requests`, three mutexes, the output file | `main`, one request thread per file, resolver threads | interleaving, lock order, polling, shutdown, threads that fail to start | every name gets one line, the program ends |
| DNS lookup | `.../util.c` | none | `dnslookup` | several error exits | the first address, or a failure |
| bathroom | `prob_set/prob_set_03/bathroom.c` (and `.old`) | semaphore, four flags, four mutexes, a condition | `male`, `female` | check-then-act across mutexes, condition waited for with several mutexes, one of them not held | never both sexes, at most N, no deadlock |
| bathroom monitor, whales, readers/writers, `swap` | `prob_set/03-problem_set_three_solutions.md` | monitor variables, semaphores | man/woman; male/female/matchmaker; reader/writer | signalling discipline, fairness | the statements of the problem set |
| whale program | `prob_set/prob_set_03/whale_harmony.c` | three semaphores | `male`, `female`, `matchmaker` | rendezvous of three threads | all three present before any returns |
| pid manager | `demo/ch3/3.20/pid.c`, `test.c` | `pid_map`, `last`, `in_use` | allocate_map, allocate_pid, release_pid | unsynchronized callers | no pid twice, failure only when all are taken |
| char driver | `prog_assign/assignment-2/submit/char_module.c` | buffer, shared offset | open, read, write, release | shared offset, truncated writes, concurrent callers | what was written is read; counts are right |
| scheduler tests | `prog_assign/assignment-4/submit/{sched_test,rw,rwpi,calc_pi}.c` | processes, pids, file offsets | fork/exec/wait, block copy | failing exec and vfork, short reads and writes | every child is waited for once; the copy ends |
| earlier scheduler programs | `prog_assign/assignment-4/{rw-sched,pi-sched}.c` | one file offset shared by the children | fork, wait, block copy | readers that share an offset, a failing fork | each block is read by one child; no child is left behind |
| shell | `demo/ch3/Project1/simple-shell.c` | history ring, children | parse, run, `!!`, `!n`, history | background children, ring wrap | the right command runs, the foreground child is waited for |
| pipes, shared memory, messages, sockets, signals | `demo/ch3/3.22`, `3.26`, `3.27`, `demo/IPC` | kernel channels | producer, consumer | ordering, early and late partners | what is sent is received |
| encrypted file system | `prog_assign/assignment-5/pa5/*.c` | none of its own (pass-through), files | FUSE operations, `do_crypt`, xattr tool | partial failure, check-then-use of sizes | operations report what the file system did |
| system call, kernel modules, tree walk | `assignment-1`, `assignment-2/module`, `demo/ch3/project2` | none | one function each | none | trivial |

Threads of one program interact through shared memory and mutexes, semaphores
or conditions; processes through pipes, FIFOs, shared memory, queues, sockets,
signals and `wait`.

## The plan

Most important first; a module is written so that it can be proved about too
(constants with named assumptions, one action per operation, no `RECURSIVE`).

1. `BoundedFifo` (abstract), `Queue` (the ring as operators), `QueueClient`
   (the ring under any legal calls), refinement, proofs for every size. *Done.*
2. `MultiLookup`: all threads of the resolver; safety, liveness, refinement of
   `BoundedFifo`; proofs of all its safety properties. *Done.*
3. `Bathroom` with `MCBathroom` and `BathroomProofs`: the mutexes, the
   semaphore and the condition of `bathroom.c`. *Done.*
4. `PidManager` (the functions of `pid.c`, one shared access per step) under
   one caller, `PidClient`, against the abstract `PidPool`, and under racing
   threads, `PidTest`; proofs of both. *Done.*
5. `CharDriver` against the abstract `AppendLog`: the driver without a lock
   under several test programs; proofs. *Done.*
6. `FileTools`: `HostFiles` (external) under the handlers of `MirrorFs` and the
   two tools, `CryptTool` and `XattrTool`, with failing calls and others who
   change the tree; proofs of all its safety properties. *Done* but for the
   handlers named at the end.
7. `Shell`: the input buffer, the ring of the history, `!!` and `!n`, children
   in the foreground and in the background; proofs of its types and of all its
   safety properties. *Done.*
8. `Demos`: the programs of several processes, on `Processes` (external):
   `Programs`, `PipeCopy`, `ForkSched` and `SchedTest`, with the published
   whales against the abstract `Rendezvous`; proofs of all but the outcomes of
   the small programs. *Done.*
9. *Left to model*: other arguments of `rw` and `rwpi`, and the monitor and the
   readers and writers of the problem set's solutions.

## The modules and the code

A definition that begins with "Mistake:" in its comment is no part of the
model: it is a plausible error of the code, written down beside the correct
definition so that one can see that a property notices it.

### The hostname queue

`Queue` has the functions of `queue.c` as operators on a record with the fields
of the C structure. A function that changes the structure and returns a value
is two operators: `queue_pop` is the ring it leaves and `Popped` the payload,
`queue_push` the ring and `PushStatus` the status. `Contents` is the abstract
value of a ring, `RingShape` what only pushes and pops can make of it.
`QueueClient` is a caller that makes any legal sequence of calls (`Push`,
`Pop`, `Cleanup`, `Reinit`), with two history variables. `BoundedFifo` is what
both the client and the resolver's threads may rely on.

### The threaded resolver

`MultiLookup` is `multi-lookup.c`. `main`, `request[i]` and `resolver[j]` are
program counters, `q` the queue, one variable per mutex holds its owner. A step
goes from one point where another thread matters to the next:

| code | actions |
|---|---|
| `main()`: arguments, output file, queue | `CheckArguments`, `OpenOutput`, `InitQueue` |
| `main()`: `pthread_create` (may fail), `pthread_join` | `CreateRequest`, `CreateResolver`, `JoinRequest`, `JoinResolver` |
| `main()`: the flag, the end | `LockFinished`, `SetFinished`, `CloseOutput` |
| `service_name_file()` | `OpenNames`, `ReadName`, `LockQueue`, `TestFull`, `PushName` |
| `process_host_names()`: outer loop | `LockFinishedFirst`, `TestFinished`, `LockQueueSecond` |
| `process_host_names()`: inner loop | `TestEmpty`, `UnlockQueue`, `RelockFinished` |
| `process_host_names()`: the rest | `PopName`, `Lookup`, `LockOutput`, `PrintLine` |
| a queue whose `queue_init` failed | `RequestCrash`, `ResolverCrash` |

A name is a pair of its file and its position, an address the name it belongs
to, the output file a bag of lines (the order of lines is the order of the
`output_file_lock`, which no property is about). `dnslookup` is an action that
may succeed or fail for each name. Joining a thread that was never created uses
an uninitialized `pthread_t`: it returns an error or crashes.

### The bathroom

`Bathroom` is `bathroom.c`. `male()` and `female()` mirror each other but for
the first loop, so that an action stands for the same lines of both; only
`MaleArrives` and `FemaleArrives`, `FemaleNaps`, `FemaleWakes` differ, because
`female()` tests `m_waiting` without its mutex and waits on the condition with
a mutex it does not hold. POSIX leaves this, and one condition with several
mutexes, undefined; the model takes what glibc's default mutexes do (an unlock
frees the mutex, whoever holds it). Spurious wake-ups may come at any time.

### The pid manager

`PidManager` is `pid.c`: a step is one access to a variable that callers share
(`last` is read up to three times in one call). `PidClient` is one caller that
releases what it holds in any order; `PidPool` is the promise. `PidTest` is
`test.c`: `MarkInUse`, `ReleasePid`, `ClearInUse` are the body of its threads'
loop around `allocate_pid`. When `last` changes between its two readings the
map may be indexed one beyond its end; `Overrun` ends the model there, as
nothing is defined after it. What `PidTest` and `Shell` declare is named for
them (`TestInit`, `ShellNext`), so that one module can hold the proofs of all
three.

### The character driver

`CharDriver` is `char_module.c` with `test_char_driver.c` as its user, of which
any number may run. The driver keeps one buffer and one offset for everybody
and has no lock, so that an action is one access to them:

| code | actions |
|---|---|
| loading and removing the module | `char_driver_init`, `char_driver_exit` |
| `char_driver_read` | `ReadCopy` (the copy to the user), `ReadCount` (the offset that is returned) |
| `char_driver_write` | `WriteTest`, `WriteCut`, `WriteCopy`, `WriteLoad`, `WriteStore` (`m_offset +=` is the last two) |
| the menu of the test program | `read_buff`, `write_buff`, `Close`, `Quit` |

`AppendLog` is what a device that collects text promises. `accepted`, `known`
and `overlapped` are history variables: what the writes said they took, what a
reader may already count on, and whether two writes have been under way at
once. The promise is made until then, because the code does nothing to keep it
afterwards.

### The shell

`Shell` is `simple-shell.c`. `inputBuffer` is modelled cell by cell: a short
line leaves the rest of a longer one behind it, and the history copies it. One
line, from `read` to the return of `setup()`, is one action, as the shell does
nothing meanwhile that a child can see. A line that is longer than the buffer
arrives in pieces that fill it. What the buffer holds at first is arbitrary; if
a read leaves no NUL in it, if a `!n` names a slot that is not there (`atoi`
reads its digits), or if the parser writes outside the line or its arguments
(`WritesOutside`), nothing is defined afterwards and the model ends. `Parse` is
the loop over the cells; it changes cells and never the length of the buffer.
`RepeatLast` and
`RepeatNth` are the cases of `!`, `Execute` what they and any other command
have in common. `Fork`, `ForkFails`, `ChildEnds` and `Wait` are the rest
of `main()`; the `wait` loop takes whatever child has ended. `log`, `behind`
and `restored` are history variables.

### The encrypted file system and its tools

| code | module |
|---|---|
| the host's system calls (external) | `HostFiles`: names, inodes, links, attributes, descriptors |
| `fusexmp.c`: the handlers | `MirrorFs`: one operator or action `xmp_X` per handler |
| `aes-crypt-util.c` and `do_crypt` of `aes-crypt.c` | `CryptTool` |
| `xattr-util.c` | `XattrTool` |
| one of these with others at work | `FileTools` |

The handlers keep nothing between two requests: a read or a write of an open
file opens its path again (`Reopen`, then `xmp_write` or `xmp_read`). Between
the two, and between the kernel's `Lookup` and `xmp_create`, others rename,
link, truncate or remove, through the mount (`MovedThroughMount`,
`ChangedThroughMount`) or behind it (`ChangedOnHost`).

In `CryptTool` a cell is a block of the cipher, and what `fwrite` was given
waits in `pending` until stdio writes it (`Flush`) or fails to (`WriteFails`);
`ReadBlock`, `Final`, `LastWrite`, `FlushOutput`, `CloseFiles` are the loop and
its end. `Tampers` records what others did to the two files meanwhile. A block
decrypted with another key is `Junk`, and `Final` may take any block that is not
the key's own padding for one (it looks at the end of a block only), then
giving out a piece of it or nothing. In `XattrTool` the size of a list or a
value is asked for in one step and the data fetched in another; like
`getxattr` and its kin, and unlike the handlers, the tool works on the file
that a symbolic link leads to (`File`).

### Processes: the demos, the whales, the benchmarks

`Processes` (external) is what the kernel does for straight-line programs:
streams, shared cells, semaphores, signals, creation and end of processes.
`Programs` has the code of each small program as a sequence of such calls: the
pairs of `demo/IPC`, the exercises 3.22 and 3.26, `whale_harmony.c` with its
`main()`, and the published solution for any number of whales. `PipeCopy` is
`demo/ch3/3.27` for both systems, `ForkSched` `rw-sched.c` and `pi-sched.c`,
`SchedTest` `sched_test.c` with `rw`, `calc_pi` and `rwpi` as its children.
`Demos` runs one of them. `Rendezvous` is what question 4 of the problem set
asks of its solution.

In `SchedTest`, `Vfork`, `Exec`, `LoopEnd`, `Wait3`, `WaitEnd` are the parts of
`runIOBound()` and its two copies; each system call may fail, and a read may be
short, up to `MaxFailures` times. vfork keeps the parent still until its child
has called exec. A child whose exec fails returns from the function that called
vfork, which is undefined: `process` becomes `"undefined"` and the model ends.

## What the runs check

| run | configuration | shows |
|---|---|---|
| `queue_client` | 3 slots, 2 payloads, 6 pushes | the ring is first-in first-out and refuses exactly when it must; six pushes take it around twice, with every fill level at every position |
| `lookup` | files of 2 and 1 names, 2 resolvers, 2 slots, 1 failed create | every safety property, the refinement of `BoundedFifo` and the end of the program |
| `lookup_lost_names` | the same, no failed create | *violation*: names in the queue when the flag is set get no line |
| `bathroom_safety` | 3 men, 3 women, 2 places | at most `b_limit` inside, the flags cover whoever is inside, a raised waiting flag has a waiter |
| `bathroom_both_sexes` | 1 man, 1 woman | *violation*: both are inside together |
| `bathroom_deadlock` | 1 man, 2 women | *violation*: a woman sleeps for ever |
| `pid_client` | 4 pids | with one caller `pid.c` is a pool of pids; calls end |
| `pid_races` | 3 threads, 2 pids, 2 turns | whatever goes wrong in `pid.c`, uses of one pid that overlap, from mark to clearing, raise the alarm, and no mark is left behind |
| `char_driver` | 2 test programs, messages of 1 and 2 bytes, a buffer of 4 | until writes overlap the device is an `AppendLog`, and a read at any moment of somebody's write gives a beginning of the log |
| `shell` | a history of 2, 4 lines, 2 pids | the history is the log of what was meant; children get the command it shows; the shell waits for the right child; the end of the input ends it |
| `fs_tools` | 2 clients, 2 names, 3 inodes, 1 request of others; files of at most 3 cells, freads of 2 | requests reach the file that was opened; the tools end, and are silent only if they did what was asked; what the attributes tool prints is there at that moment |
| `demos` | one program at a time; see below | exchanges and copies come out right, forked readers share one offset, totals belong to the right test, the whales keep their promise, everything ends |

The bounds, and why they are enough:

- `MultiLookup`: two request threads compete for two slots with three names, so
  that the queue is full, is empty and wraps; two resolvers suffice for every
  pair of sections; one failed `pthread_create` is any one of the four.
- `Bathroom`: two places and three of each sex: someone of each sex has to
  wait for the semaphore. Men are interchangeable, and women, hence the
  symmetry (in a safety run only).
- `PidTest`: three threads and two pids make refusals, double uses and the
  overrun happen; a second turn starts from what the races of the first left.
- `CharDriver`: two programs are what an overlap takes; with messages of one
  and two bytes a buffer of four is filled exactly, is cut in the middle of a
  message, and is found full. The proofs remove these bounds.
- `Shell` (`LineBound` = 4, `MAX_LINE` = 6 cells): with a ring of two, four
  lines wrap it and reach every case of `!` before and after the wrap; the
  lines include an empty one, one with `&` glued on, one that fills the buffer,
  numbers inside and beyond the ring, `history` and `exit`; the buffer begins
  as zeros, with a newline and an `&` in it, or without a NUL. Two pids allow a
  child in the background beside the one in the foreground.
- `FileTools` (`OtherBound` = 1, `WriteBound` = 2): one request of others falls
  between any two steps; three inodes let a name be made anew; a file of three
  cells takes a full and a short `fread`, and the initial files include whole,
  cut and empty ciphers; with two keys, each is decrypted with the right one
  and with another.
- `Demos`: three, two and two whales, so that somebody of one kind is left over;
  a pipe of two cells and buffers of three and two, so that writes are partial
  and wait; inputs of 0, 3 and 5 cells and an old output of 0 or 4; blocks of
  two and a transfer of four on inputs of two, three and five, so that the
  shared offset is reset in the middle; two children. In `SchedTest` a transfer
  of 3 and numbers of 2 make the last number of `rwpi` overshoot, and two
  failures let one vfork of a test fail and another call after it.
- `QueueClient` and `PidClient` run on sizes at which their cases differ; the
  proofs remove the bound.

### Fairness

- `MultiLookup`: every thread runs (weak fairness), and a thread that waits for
  a mutex gets it if it is free again and again (strong fairness on the
  acquisitions). pthread mutexes promise no order, but each loop of the program
  that takes a mutex repeatedly sleeps, or looks a name up, between two
  acquisitions. `Termination` needs one resolver: with none the request threads
  wait for ever for room in the queue. So the run allows fewer failures than
  there are resolvers.
- `Bathroom`: the same, and nothing for spurious wake-ups. The counterexample
  of `bathroom_deadlock` is a state in which nobody can go on.
- `PidClient`: weak fairness of the caller.
- `Shell`: weak fairness of the shell after the end of the input, of its fork
  and its wait, and of each child: commands end. The user is not made to type.
- `FileTools`: weak fairness of the tool that runs; none of the clients of the
  mount and of others, who need not do anything.
- `Demos`: weak fairness of each process. It is enough although whales compete
  for semaphores, because each makes finitely many steps. In `SchedTest` only
  finitely many calls fail: the end of `rw` rests on that, as a read that is
  short for ever is repeated for ever. `DemosEnd` names, in `ProgramOver`, those
  a process of the IPC demos may wait for in vain when it comes too early; that
  is why this run does not check for deadlock.

### Disagreements between the code and what is said of it

1. `AllNamesServiced`: a resolver stops as soon as it sees `finished_requests`,
   with names left in the queue. `OnlyQueuedNamesLost` is what holds instead.
2. `OneSexAtATime`: between the test of the other sex's flag and the raising of
   one's own, `bathroom.c` holds no mutex. `FlagCoversOccupants` holds.
3. `Termination` of the bathroom: after 2 the last of one sex leaves its flag
   up, since the semaphore also counts the other sex, and nobody clears it.

Others have no run of their own; the property that is named states what the
code does in place of what is said:

4. `03-problem_set_three.md:34` lets no whale leave before all three have met.
   The semaphores of `whale_harmony.c` start at 1, so that a male may return
   before the matchmaker exists. `OutcomeIsRight` holds: the program ends with
   one birth and no signal left over. Of the published solution `KeepsPromise`
   states all that the problem asks.
5. The comment at `char_module.c:61` says of `char_driver_write` that its
   return value is negative when the buffer overflows. The code cuts the
   message, down to nothing, and returns how much it took. `ImplementsLog` has
   the cut.
6. `pa5/README:102` promises an error if a file was not encrypted or the
   passphrase is wrong. `EVP_CipherFinal_ex` (`aes-crypt.c:101`) looks at the
   padding only, and about one foreign block in 256 ends like one; a read error
   passes for the end of the file besides. `PaddingTells` has what an
   acceptance does tell.
7. `demo/ch3/3.20/test.c:25` says of its mutex that it ensures that no pid is in
   use twice. A thread that was given a pid and waits for the mutex has not
   marked it: if another one that was given the same pid marks, releases and
   clears it before, no alarm is raised. `OverlapIsReported` speaks of the time
   from mark to clearing.
8. `simple-shell.c:104` says that `!!` restores the previous command. After
   `xy &` and `ab` the slot of the second holds `ab`, a newline and the `&`
   that the first left behind it, and `!!` runs nothing, in the background.
   `RunsWhatItShows` excepts what is `Spoiled` in this way.

## What is proved

For every value of the constants, under the assumptions that the modules name
beside their constants and TLC evaluates in the runs:

- sizes, limits and buffers are positive, and not 0 for the processes of
  `sched_test` (`QueueClientAssumption`, `MultiLookupAssumption`,
  `BathroomAssumption`, `PidAssumption`, `CharDriverAssumption`,
  `CryptAssumption`, `PipeCopyAssumption`, `SchedAssumption`); NULL is no name
  (`NullAssumption`), a message is a sequence of bytes
  (`CharDriverAssumption`), in the files of assignment 5 at most the last cell
  is padding (`ToolsAssumption`), and None is no name and no inode
  (`HostAssumption`, `MirrorAssumption`);
- people, and whales, are finitely many and of one kind each
  (`BathroomAssumption`, `WhaleAssumption`); the one caller of `pid.c` is one
  of the callers (`ClientAssumption`);
- `rw-sched.c` is given a transfer of whole blocks, as it refuses any other,
  and an input of at least one block, as with less it never ends
  (`ForkSchedAssumption`);
- what a read of the shell gives is a line with its newline, or as much of a
  longer one as fills the buffer, and contains no NUL, as nobody types one
  (`ShellAssumption`). Newline, NUL, blank and `&` are different characters;
  and a terminal gives `read` one line at a time, so that a newline is the last
  character (`TerminalAssumption`).

The modules:

- `QueueProofs`: lemmas on the operators of `Queue`. A push or a pop keeps the
  type and `RingShape`; `PushContents` and `PopContents` say that they append
  to and take the head of `Contents`, or change nothing. The theorem modules of
  the client and of the resolver rest on them.
- `QueueClientProofs`: `FirstInFirstOut`, `RefusalsAreExact` and the refinement
  of `BoundedFifo`. The invariant is `TypeOK`, `RingShape` and that what was
  accepted is what was returned followed by `Contents`; without `RingShape` the
  payload under `front` would not tell an empty ring from a full one.
- `MultiLookupProofs`: type correctness, `LockOwners`, `PushNeverRefused`,
  `NullOnlyWhenFinished`, `LineMatchesName`, `FinishedMeansNoMorePushes`,
  `NoWriteAfterClose` and the refinement of `BoundedFifo`. The invariant adds
  `MainPhase` (which threads exist, or have ended, at each point of `main()`),
  `TestsValid` (what a thread found out about the queue still holds when it
  acts on it, because it owns `q_lock`) and `AddressInHand`. `LockOwners` alone
  is inductive with the types; the others use it for every step of another
  thread. `NameInHand` strengthens the types: a name that is to be pushed was
  read.

  For `ExactlyOnePlace` and `OnlyQueuedNamesLost`: a cardinality is not
  inductive, so the invariant says separately that only what was read is
  anywhere (`OnlyReadNames`), that no name is in two places of one kind
  (`NoCopy`) or of two kinds (`NoOverlap`), and that what was read is somewhere
  (`Somewhere`). Most steps are `Quiet`; the four that move a name are reduced
  to `ReadMove`, `PushMove` (the slot under `rear` is free, by `RingShape` and
  `TestsValid`), `PopMove` (into an empty hand, by `HandsEmpty`) and
  `PrintMove`. At the exit `AllGoneAtExit` leaves the queue and the lines.
- `BathroomProofs`: type correctness, `LockOwners`, `PlacesAddUp` (and from it
  `AtMostLimit`), `FlagCoversOccupants`, `WaitingHasAWaiter`. The bound of the
  semaphore in `TypeOK` follows from `PlacesAddUp`, so the induction uses
  weaker types. `ClearMeansEmpty` is why the stale value of the semaphore is
  harmless: nobody of one's own sex can have come in since, for lack of the
  mutex.
- `Chapter3Proofs`, `pid.c` with one caller: `MapIsHeld`, `ResultIsFair`, the
  refinement of `PidPool`. `Progress` says that the pids already looked at
  (`Seen`, an arc of the ring of pids) are all marked; when the arc is the
  whole ring, a refusal is right. With racing threads: `InUseHasAMarker` and
  `OverlapIsReported`, without any assumption on what `allocate_pid` returns
  beyond its range. `OneMarker` is the second one without cardinalities.
- `Chapter3Proofs`, the shell: `ForegroundIsOver`, `HistoryIsLog`,
  `RunsWhatItShows` and the types.
  `ChildrenInv` is the first one with the child that is waited for kept out of
  the free pids. `HistoryIsLog` speaks of the last `MAX_COMMANDS` commands, and
  is not inductive: `!n` may name a slot that was never written, or one written
  a whole turn ago. `RingInv` says of every slot that it holds what `!n` is to
  mean, `Meant` (the last command of the log with that remainder, or none), up
  to its newline, with no NUL inside. The lemmas on C strings (`Before`,
  `CString`, `strcpy`) carry this through a buffer whose end is what an earlier
  line left there.

  `RunsWhatItShows` compares what the loop of `setup()` does to the cells of
  the buffer with what the command means by itself. `At` is the invariant of
  that loop: the blanks passed so far are NULs (`Blanked`), the words that are
  complete have been listed from left to right (`Complete`, `Lists`), the word
  that has begun begins at `start` and has no blank in it (`Begins`), and the
  flag is set exactly behind an `&`. `UpTo` makes an induction of it: of the
  turns at which the invariant would fail there would be a first one.
  `ParsedIs` is the state at the newline, or one cell later for a command from
  the history, whose length counts the NUL; `WordIs` shows that the C string
  at the beginning of a word is the word. What remains is that a command from
  the history is the whole of its slot: `LinesInv` says that every slot that
  was used holds a newline, without which `!n` could run a line cut short;
  what lies behind the newline does no harm to a command that is `Unspoiled`.

  `ShellTypes` contains more than types: every string in the history is shorter
  than the buffer, so that `strcpy` never writes past the end when it brings one
  back (`PutFits`). It is so because a command is only stored when there is a
  NUL in the buffer (`CopyFits`); the `strcpy` of a buffer without one, which
  does run past the end, is where the model ends.
- `CharDriverProofs`: `HoldsAccepted`, `ReadsAccepted` and the refinement of
  `AppendLog`, for any number of test programs, any messages and any size of
  the buffer. As long as no two writes overlap there is at most one writer; the
  invariant `WriterInv` follows it through its accesses to `m_offset` and says
  what it has established so far (the length fits, the bytes are in place, the
  value loaded is still the offset), `ReaderInv` does so for the readers, whose
  view can only fall behind.
- `FileToolsProofs`, for any names, inodes, clients and data. `ToolsInv` is
  about all three programs at once, since each runs on the host that the others
  of its configuration change.
  - `SameFile` and `NoDescriptorLeaks`. The handlers remember nothing, so the
    invariant says what libfuse and the host keep for them: `Kept` (a
    descriptor is there exactly in the middle of a read or a write) and
    `Untouched` (as long as nobody disturbed a client, its path leads to a
    plain file, which is the one it opened and still holds what was
    acknowledged). `HostInv` is needed because a path that has become a link
    would be followed.
  - `SilentMeansComplete` and `PaddingTells`. `CryptInv` says what `source`
    and the output have in common at each step: what was or will next be handed
    to `fwrite` is the transformation of what was read, but for the block that
    a decryption holds back. Reading in blocks and transforming each agrees
    with transforming the whole, and only the last block may be padding
    (`ToolsAssumption`): when `Final` meets the padding of the key nothing is
    missing. Otherwise chance decides, and `EndInv` says what was given out.
  - `PrintsWhatIsThere`, an action property. It needs `XattrInv`: nothing has
    been printed before the step that ends the program; `FileIsPath` says that
    a link leads to a name.
- `DemosProofs`, one part for each program of `Demos`; every invariant includes
  that the others stand still.
  - `TotalsAreOfTheTest` and `WorkIsDone`, for any number of processes, from
    `BenchInv`. That a test leaves no process over is no consequence of its
    totals: `EnoughWaits` says that as many calls of `wait3` are still to come
    as there are children, which needs a look at what the last `vfork` returned
    (`PidTells`), and `CountsOwn` that after clean tests only own children can
    be counted.
  - `CopyIsFaithful`, for files, pipes and buffers of any length, from
    `CopyInv`: until a call fails, the input is what is in the output, in the
    child's buffer, in the pipe and in the parent's buffer, in that order
    (`InOrder`), and whoever has ended has passed on all he had (`Reached`,
    with `CopyPhase` for who still holds an end of the pipe).
  - `BlocksAreShared` and `NoOrphans`, for any number of children and any
    sizes, from `ForkInv`. A block before the shared offset was read at most
    once more than the offset was reset, one after it no more often
    (`OffsetShared`); `WaitsSuffice` counts the calls of `wait` against the
    children. It says nothing of a parent whose last fork failed, nor of a
    `pi-sched` that was asked for a negative number of processes: it forks none,
    and tests a pid that was never set.
  - The refinement of `Rendezvous` by the published whales, for any number of
    males, females and matchmakers. `SignalsCount` is the argument: each
    semaphore is the number of whales that have signalled it less those that
    have passed it, so that a matchmaker at its birth stands for one male and
    one female that were at no other. The mapping counts whales beyond a line
    of their code; lemmas on the cardinalities of such sets do the arithmetic.

Only checked by TLC:

- All liveness (`Termination`, `CallEnds`, `EndsWithInput`, `ToolsEnd`,
  `DemosEnd`): the prover does not do it under fairness.
- `OutcomeIsRight`: each small program is closed and finite, with no constant
  that could be larger than in the run, so that TLC already visits all of its
  behaviours. A proof would add nothing.

Some definitions were put differently for the proofs, with the same meaning: an
operator whose cases exclude each other only in their order is an IF (`WriteAt`
of `HostFiles`, `Tree` of `FileTools`), as CASE would leave open which one is
taken; the buffer of the shell after `Execute` is given cell by cell, which
keeps its length; `Parse` is a recursive function over the positions of the
line, not a fold; and `AreWordsOf` states the words of a command by an
enumeration of where they begin, not by a selection from the letters.

## What is not modelled

- Of the resolver: a `malloc` that returns NULL (multi-lookup.c:98, 110, 174),
  names longer than the buffer of `fscanf`, a file that fails while it is read,
  and the text of messages. The C library, DNS and pthreads are external; what
  the threads see of them is part of the actions that call them.
- Of the bathroom and the whales: the text they print, the time they sleep.
- Of the mirror file system: `access`, `readdir`, `chown`, `utimens`, `statfs`
  and `fsync`, which pass a call on and have no part in the properties. Of the
  encryption tool: the cipher itself. A block is its plain text with its key;
  that another key's block may read like the end of a padding is kept.
- Of the shell: an interrupted `read`, an end of the input in the middle of a
  line, the text of messages; after `!!` without a history the arguments are
  uninitialized, and what `execvp` makes of them is undefined.
- Of the benchmarks: other arguments than those `sched_test` gives, an input of
  `rw` shorter than a block (its loop never ends), the table, the contents of
  files, and `pi.c`, a calculation without any process.
- Of the IPC demos: other texts than one of each kind, other arguments.
- For good: programs without state or with one exchange only (the system call
  and the first kernel module, the exercises 3.12, 3.17, 3.19 and 3.21, the
  walk over the kernel's task list, the read-only FUSE example, the first
  pthread program), the sequential resolver and the bathroom's older versions,
  which a submission replaced, the kernel's own `syscalls.h`, and generated
  files. Of the problem set, the answers on the bathroom monitor, the readers
  and writers and `swap` are pseudo-code that nothing in the repository runs.
