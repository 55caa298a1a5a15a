----------------------------- MODULE MultiLookup -----------------------------
(***************************************************************************)
(* prog_assign/assignment-3/submit/multi-lookup.c: the threaded DNS        *)
(* resolver.  main() starts one request thread per name file and           *)
(* MAX_RESOLVER_THREADS resolver threads.  The request threads read names  *)
(* and push them on a bounded queue; the resolver threads pop them, look   *)
(* them up and write one line each to the output file.  When every request *)
(* thread has ended, main() sets finished_requests, which tells the        *)
(* resolver threads to stop.                                               *)
(*                                                                         *)
(* A step of a thread runs from one point where another thread can make a  *)
(* difference (a mutex it has to take, shared state it reads) to the next. *)
(* An unlock that ends a critical section belongs to the last step of that *)
(* section, as another thread can only observe the two together.           *)
(***************************************************************************)
EXTENDS Queue, FiniteSets

CONSTANTS
    NUM_NAME_FILES,        \* argc - 2: name files, and request threads
    MAX_RESOLVER_THREADS,  \* resolver threads, and the size of the queue
    FileLength,            \* FileLength[i]: how many names file i holds
    MaxFailures            \* bound on the pthread_create calls that fail

ASSUME MultiLookupAssumption ==
    /\ NUM_NAME_FILES \in Nat \ {0}
    /\ MAX_RESOLVER_THREADS \in Nat \ {0}
    /\ FileLength \in [1 .. NUM_NAME_FILES -> Nat]
    /\ MaxFailures \in Nat

RequestThreads  == 1 .. NUM_NAME_FILES
ResolverThreads == 1 .. MAX_RESOLVER_THREADS

\* The k-th name of file i; each is a buffer of its own from malloc.
Name == UNION {{<<i, k>> : k \in 1 .. FileLength[i]} : i \in RequestThreads}
ASSUME NullAssumption == NULL \notin Name

NoIp  == <<0, 0>>            \* the empty string in ipstr
Line  == (Name \cup {NULL}) \X (Name \cup {NoIp})   \* "%s,%s\n"

\* Owners of a mutex.
Free        == <<"free", 0>>
Main        == <<"main", 0>>
Request(i)  == <<"request", i>>
Resolver(j) == <<"resolver", j>>
Owner == {Free, Main} \cup {Request(i) : i \in RequestThreads}
                      \cup {Resolver(j) : j \in ResolverThreads}

VARIABLES
    process,   \* "running", or how the process ended
    main,      \* where main() is
    idx,       \* its loop index
    failures,  \* pthread_create calls that failed so far
    request,   \* where each request thread is
    nread,     \* nread[i]: names that fscanf has read from file i
    resolver,  \* where each resolver thread is
    hostname,  \* hostname[j]: what resolver j popped
    ipstr,     \* ipstr[j]: the name whose address the buffer of j holds
    q,         \* hostname_q
    q_ready,   \* queue_init succeeded: q has its slots
    output,    \* output[l]: how often line l was written
    finished_requests,
    q_lock, output_file_lock, finished_requests_lock

vars == <<process, main, idx, failures, request, nread, resolver, hostname,
          ipstr, q, q_ready, output, finished_requests,
          q_lock, output_file_lock, finished_requests_lock>>

mainVars     == <<process, main, idx, failures>>
requestVars  == <<request, nread>>
resolverVars == <<resolver, hostname, ipstr>>
queueVars    == <<q, q_ready>>
locks        == <<q_lock, output_file_lock, finished_requests_lock>>

TypeOK ==
    /\ process \in {"running", "failure", "crashed", "exited"}
    /\ main \in {"args", "open", "init", "createRequest", "createResolver",
                 "joinRequest", "lockFinished", "setFinished",
                 "joinResolver", "close", "done"}
    /\ idx \in Nat \ {0}
    /\ failures \in 0 .. MaxFailures
    /\ request \in [RequestThreads -> {"unborn", "failed", "open", "read",
                                       "lock", "full", "push", "done"}]
    /\ nread \in [RequestThreads -> Nat]
    /\ \A i \in RequestThreads : nread[i] \in 0 .. FileLength[i]
    /\ resolver \in [ResolverThreads ->
                        {"unborn", "failed", "lockFinished", "while", "lockQ",
                         "empty", "unlockQ", "relockFinished", "relockQ",
                         "pop", "lookup", "lockOutput", "print", "done"}]
    /\ hostname \in [ResolverThreads -> Name \cup {NULL}]
    /\ ipstr \in [ResolverThreads -> Name \cup {NoIp}]
    /\ q \in QueueType(Name, MAX_RESOLVER_THREADS)
    /\ q_ready \in BOOLEAN
    /\ output \in [Line -> Nat]
    /\ finished_requests \in BOOLEAN
    /\ q_lock \in Owner
    /\ output_file_lock \in Owner
    /\ finished_requests_lock \in Owner

Init ==
    /\ process = "running"
    /\ main = "args"
    /\ idx = 1
    /\ failures = 0
    /\ request = [i \in RequestThreads |-> "unborn"]
    /\ nread = [i \in RequestThreads |-> 0]
    /\ resolver = [j \in ResolverThreads |-> "unborn"]
    /\ hostname = [j \in ResolverThreads |-> NULL]
    /\ ipstr = [j \in ResolverThreads |-> NoIp]
    /\ q = queue_init(MAX_RESOLVER_THREADS)
    /\ q_ready = FALSE
    /\ output = [l \in Line |-> 0]
    /\ finished_requests = FALSE
    /\ q_lock = Free
    /\ output_file_lock = Free
    /\ finished_requests_lock = Free

\* Where a thread of the running process is.  The end of the process, however
\* it came about, stops all its threads.
MainAt(place)        == process = "running" /\ main = place
RequestAt(i, place)  == process = "running" /\ request[i] = place
ResolverAt(j, place) == process = "running" /\ resolver[j] = place

(***************************************************************************)
(* main()                                                                  *)
(***************************************************************************)

\* `argc < MINARGS`: usage message and EXIT_FAILURE.
CheckArguments ==
    /\ MainAt("args")
    /\ \/ main' = "open" /\ UNCHANGED process
       \/ main' = "done" /\ process' = "failure"
    /\ UNCHANGED <<idx, failures, requestVars, resolverVars, queueVars,
                   output, finished_requests, locks>>

\* fopen of the output file; without it EXIT_FAILURE.
OpenOutput ==
    /\ MainAt("open")
    /\ \/ main' = "init" /\ UNCHANGED process
       \/ main' = "done" /\ process' = "failure"
    /\ UNCHANGED <<idx, failures, requestVars, resolverVars, queueVars,
                   output, finished_requests, locks>>

\* queue_init: its failure is reported, and main() goes on.
InitQueue ==
    /\ MainAt("init")
    /\ main' = "createRequest"
    /\ idx' = 1
    /\ q_ready' \in BOOLEAN
    /\ UNCHANGED <<process, failures, requestVars, resolverVars, q,
                   output, finished_requests, locks>>

\* One turn of a loop over n threads: the next one, or the next loop.
NextTurn(n, here, next) ==
    IF idx < n THEN main' = here /\ idx' = idx + 1
               ELSE main' = next /\ idx' = 1

\* pthread_create of request thread idx; its failure is only reported.
CreateRequest ==
    /\ MainAt("createRequest")
    /\ \/ /\ request' = [request EXCEPT ![idx] = "open"]
          /\ UNCHANGED failures
       \/ /\ failures < MaxFailures
          /\ request' = [request EXCEPT ![idx] = "failed"]
          /\ failures' = failures + 1
    /\ NextTurn(NUM_NAME_FILES, "createRequest", "createResolver")
    /\ UNCHANGED <<process, nread, resolverVars, queueVars, output,
                   finished_requests, locks>>

CreateResolver ==
    /\ MainAt("createResolver")
    /\ \/ /\ resolver' = [resolver EXCEPT ![idx] = "lockFinished"]
          /\ UNCHANGED failures
       \/ /\ failures < MaxFailures
          /\ resolver' = [resolver EXCEPT ![idx] = "failed"]
          /\ failures' = failures + 1
    /\ NextTurn(MAX_RESOLVER_THREADS, "createResolver", "joinRequest")
    /\ UNCHANGED <<process, requestVars, hostname, ipstr, queueVars, output,
                   finished_requests, locks>>

\* pthread_join of a thread that ended; of one that was never created the
\* pthread_t is uninitialized, and the call reports an error or crashes.
Join(thread, n, here, next) ==
    \/ /\ thread \in {"done", "failed"}
       /\ NextTurn(n, here, next)
       /\ UNCHANGED process
    \/ /\ thread = "failed"
       /\ process' = "crashed"
       /\ UNCHANGED <<main, idx>>

JoinRequest ==
    /\ MainAt("joinRequest")
    /\ Join(request[idx], NUM_NAME_FILES, "joinRequest", "lockFinished")
    /\ UNCHANGED <<failures, requestVars, resolverVars, queueVars, output,
                   finished_requests, locks>>

LockFinished ==
    /\ MainAt("lockFinished")
    /\ finished_requests_lock = Free
    /\ finished_requests_lock' = Main
    /\ main' = "setFinished"
    /\ UNCHANGED <<process, idx, failures, requestVars, resolverVars,
                   queueVars, output, finished_requests, q_lock,
                   output_file_lock>>

SetFinished ==
    /\ MainAt("setFinished")
    /\ finished_requests' = TRUE
    /\ finished_requests_lock' = Free
    /\ main' = "joinResolver"
    /\ UNCHANGED <<process, idx, failures, requestVars, resolverVars,
                   queueVars, output, q_lock, output_file_lock>>

\* Mistake: the last resolver is not joined.
JoinResolverOneLess ==
    /\ MainAt("joinResolver")
    /\ \/ idx < MAX_RESOLVER_THREADS /\ Join(resolver[idx],
              MAX_RESOLVER_THREADS, "joinResolver", "close")
       \/ /\ idx = MAX_RESOLVER_THREADS
          /\ main' = "close"
          /\ UNCHANGED <<idx, process>>
    /\ UNCHANGED <<failures, requestVars, resolverVars, queueVars, output,
                   finished_requests, locks>>

JoinResolver ==
    /\ MainAt("joinResolver")
    /\ Join(resolver[idx], MAX_RESOLVER_THREADS, "joinResolver", "close")
    /\ UNCHANGED <<failures, requestVars, resolverVars, queueVars, output,
                   finished_requests, locks>>

\* fclose of the output file, and the end of main() and of the process.
CloseOutput ==
    /\ MainAt("close")
    /\ main' = "done"
    /\ process' = "exited"
    /\ UNCHANGED <<idx, failures, requestVars, resolverVars, queueVars,
                   output, finished_requests, locks>>

MainStep ==
    \/ CheckArguments \/ OpenOutput \/ InitQueue \/ CreateRequest
    \/ CreateResolver \/ JoinRequest \/ LockFinished \/ SetFinished
    \/ JoinResolver \/ CloseOutput

(***************************************************************************)
(* service_name_file(): request thread i                                   *)
(***************************************************************************)

\* fopen of the name file; without it the thread ends.
OpenNames(i) ==
    /\ RequestAt(i, "open")
    /\ \E next \in {"read", "done"} : request' = [request EXCEPT ![i] = next]
    /\ UNCHANGED <<mainVars, nread, resolverVars, queueVars, output,
                   finished_requests, locks>>

\* fscanf: the next name, or the end of the file and of the thread.
ReadName(i) ==
    /\ RequestAt(i, "read")
    /\ \/ /\ nread[i] < FileLength[i]
          /\ nread' = [nread EXCEPT ![i] = @ + 1]
          /\ request' = [request EXCEPT ![i] = "lock"]
       \/ /\ nread[i] = FileLength[i]
          /\ request' = [request EXCEPT ![i] = "done"]
          /\ UNCHANGED nread
    /\ UNCHANGED <<mainVars, resolverVars, queueVars, output,
                   finished_requests, locks>>

\* The lock before the loop, and the one after each usleep.
LockQueue(i) ==
    /\ RequestAt(i, "lock")
    /\ q_lock = Free
    /\ q_lock' = Request(i)
    /\ request' = [request EXCEPT ![i] = "full"]
    /\ UNCHANGED <<mainVars, nread, resolverVars, queueVars, output,
                   finished_requests, output_file_lock,
                   finished_requests_lock>>

\* Mistake: the mutex is released between the test and the push.
TestFullThenUnlock(i) ==
    /\ RequestAt(i, "full")
    /\ q_ready
    /\ q_lock' = Free
    /\ request' = [request EXCEPT ![i] =
                      IF queue_is_full(q) THEN "lock" ELSE "push"]
    /\ UNCHANGED <<mainVars, nread, resolverVars, queueVars, output,
                   finished_requests, output_file_lock,
                   finished_requests_lock>>

\* `while (queue_is_full(q))`: unlock, sleep and lock again.
TestFull(i) ==
    /\ RequestAt(i, "full")
    /\ q_ready
    /\ \/ /\ queue_is_full(q)
          /\ q_lock' = Free
          /\ request' = [request EXCEPT ![i] = "lock"]
       \/ /\ ~queue_is_full(q)
          /\ request' = [request EXCEPT ![i] = "push"]
          /\ UNCHANGED q_lock
    /\ UNCHANGED <<mainVars, nread, resolverVars, queueVars, output,
                   finished_requests, output_file_lock,
                   finished_requests_lock>>

\* queue_push, whose status is not looked at; nobody waits for the signal.
PushName(i) ==
    /\ RequestAt(i, "push")
    /\ q' = queue_push(q, <<i, nread[i]>>)
    /\ q_lock' = Free
    /\ request' = [request EXCEPT ![i] = "read"]
    /\ UNCHANGED <<mainVars, nread, resolverVars, q_ready, output,
                   finished_requests, output_file_lock,
                   finished_requests_lock>>

\* A queue without slots is dereferenced.
RequestCrash(i) ==
    /\ RequestAt(i, "full")
    /\ ~q_ready
    /\ process' = "crashed"
    /\ UNCHANGED <<main, idx, failures, requestVars, resolverVars, queueVars,
                   output, finished_requests, locks>>

RequestStep(i) ==
    \/ OpenNames(i) \/ ReadName(i) \/ LockQueue(i) \/ TestFull(i)
    \/ PushName(i) \/ RequestCrash(i)

(***************************************************************************)
(* process_host_names(): resolver thread j                                 *)
(***************************************************************************)

\* The lock before the outer loop, and the one at the end of its body.
LockFinishedFirst(j) ==
    /\ ResolverAt(j, "lockFinished")
    /\ finished_requests_lock = Free
    /\ finished_requests_lock' = Resolver(j)
    /\ resolver' = [resolver EXCEPT ![j] = "while"]
    /\ UNCHANGED <<mainVars, requestVars, hostname, ipstr, queueVars, output,
                   finished_requests, q_lock, output_file_lock>>

\* `while (!finished_requests)`, and the end of the thread after it.
TestFinished(j) ==
    /\ ResolverAt(j, "while")
    /\ \/ /\ finished_requests
          /\ finished_requests_lock' = Free
          /\ resolver' = [resolver EXCEPT ![j] = "done"]
       \/ /\ ~finished_requests
          /\ resolver' = [resolver EXCEPT ![j] = "lockQ"]
          /\ UNCHANGED finished_requests_lock
    /\ UNCHANGED <<mainVars, requestVars, hostname, ipstr, queueVars, output,
                   finished_requests, q_lock, output_file_lock>>

\* Mistake: the queue is looked at without its mutex.
LockQueueSecondUnguarded(j) ==
    /\ ResolverAt(j, "lockQ") \/ ResolverAt(j, "relockQ")
    /\ q_lock' = Resolver(j)
    /\ resolver' = [resolver EXCEPT ![j] = "empty"]
    /\ UNCHANGED <<mainVars, requestVars, hostname, ipstr, queueVars, output,
                   finished_requests, output_file_lock,
                   finished_requests_lock>>

\* q_lock is taken while finished_requests_lock is held: on entry, and after
\* the usleep of the inner loop.
LockQueueSecond(j) ==
    /\ ResolverAt(j, "lockQ") \/ ResolverAt(j, "relockQ")
    /\ q_lock = Free
    /\ q_lock' = Resolver(j)
    /\ resolver' = [resolver EXCEPT ![j] = "empty"]
    /\ UNCHANGED <<mainVars, requestVars, hostname, ipstr, queueVars, output,
                   finished_requests, output_file_lock,
                   finished_requests_lock>>

\* Mistake: the inner loop waits for a name only.
TestEmptyOnly(j) ==
    /\ ResolverAt(j, "empty")
    /\ q_ready
    /\ finished_requests_lock' = Free
    /\ resolver' = [resolver EXCEPT ![j] =
                        IF queue_is_empty(q) THEN "unlockQ" ELSE "pop"]
    /\ UNCHANGED <<mainVars, requestVars, hostname, ipstr, queueVars, output,
                   finished_requests, q_lock, output_file_lock>>

\* `while (queue_is_empty(q) && !finished_requests)`: both outcomes go on to
\* release finished_requests_lock.
TestEmpty(j) ==
    /\ ResolverAt(j, "empty")
    /\ q_ready
    /\ finished_requests_lock' = Free
    /\ resolver' = [resolver EXCEPT ![j] =
                        IF queue_is_empty(q) /\ ~finished_requests
                        THEN "unlockQ" ELSE "pop"]
    /\ UNCHANGED <<mainVars, requestVars, hostname, ipstr, queueVars, output,
                   finished_requests, q_lock, output_file_lock>>

\* The second unlock of the inner loop, and its usleep.
UnlockQueue(j) ==
    /\ ResolverAt(j, "unlockQ")
    /\ q_lock' = Free
    /\ resolver' = [resolver EXCEPT ![j] = "relockFinished"]
    /\ UNCHANGED <<mainVars, requestVars, hostname, ipstr, queueVars, output,
                   finished_requests, output_file_lock,
                   finished_requests_lock>>

RelockFinished(j) ==
    /\ ResolverAt(j, "relockFinished")
    /\ finished_requests_lock = Free
    /\ finished_requests_lock' = Resolver(j)
    /\ resolver' = [resolver EXCEPT ![j] = "relockQ"]
    /\ UNCHANGED <<mainVars, requestVars, hostname, ipstr, queueVars, output,
                   finished_requests, q_lock, output_file_lock>>

\* queue_pop and the end of the critical section.
PopName(j) ==
    /\ ResolverAt(j, "pop")
    /\ hostname' = [hostname EXCEPT ![j] = Popped(q)]
    /\ q' = queue_pop(q)
    /\ q_lock' = Free
    /\ resolver' = [resolver EXCEPT ![j] = "lookup"]
    /\ UNCHANGED <<mainVars, requestVars, ipstr, q_ready, output,
                   finished_requests, output_file_lock,
                   finished_requests_lock>>

\* What dnslookup(name) leaves in ipstr: an address of that name, or, as the
\* caller empties it on UTIL_FAILURE, nothing.  The NULL name always fails.
LookupResult(j) == IF hostname[j] = NULL THEN {NoIp} ELSE {NoIp, hostname[j]}

\* Mistake: a failed lookup leaves the buffer as it was.
LookupKeepsOldAddress(j) ==
    /\ ResolverAt(j, "lookup")
    /\ \E ip \in LookupResult(j) :
          ipstr' = IF ip = NoIp THEN ipstr ELSE [ipstr EXCEPT ![j] = ip]
    /\ resolver' = [resolver EXCEPT ![j] = "lockOutput"]
    /\ UNCHANGED <<mainVars, requestVars, hostname, queueVars, output,
                   finished_requests, locks>>

\* Mistake: a failed lookup goes on with the next name.
LookupSkipsFailures(j) ==
    /\ ResolverAt(j, "lookup")
    /\ \E ip \in LookupResult(j) :
          /\ ipstr' = [ipstr EXCEPT ![j] = ip]
          /\ IF ip = NoIp
             THEN /\ resolver' = [resolver EXCEPT ![j] = "lockFinished"]
                  /\ hostname' = [hostname EXCEPT ![j] = NULL]
             ELSE /\ resolver' = [resolver EXCEPT ![j] = "lockOutput"]
                  /\ UNCHANGED hostname
    /\ UNCHANGED <<mainVars, requestVars, queueVars, output,
                   finished_requests, locks>>

\* dnslookup: it runs without a lock.
Lookup(j) ==
    /\ ResolverAt(j, "lookup")
    /\ \E ip \in LookupResult(j) : ipstr' = [ipstr EXCEPT ![j] = ip]
    /\ resolver' = [resolver EXCEPT ![j] = "lockOutput"]
    /\ UNCHANGED <<mainVars, requestVars, hostname, queueVars, output,
                   finished_requests, locks>>

LockOutput(j) ==
    /\ ResolverAt(j, "lockOutput")
    /\ output_file_lock = Free
    /\ output_file_lock' = Resolver(j)
    /\ resolver' = [resolver EXCEPT ![j] = "print"]
    /\ UNCHANGED <<mainVars, requestVars, hostname, ipstr, queueVars, output,
                   finished_requests, q_lock, finished_requests_lock>>

\* fprintf; `hostname` goes out of scope with the body of the loop.
PrintLine(j) ==
    /\ ResolverAt(j, "print")
    /\ output' = [output EXCEPT ![<<hostname[j], ipstr[j]>>] = @ + 1]
    /\ hostname' = [hostname EXCEPT ![j] = NULL]
    /\ output_file_lock' = Free
    /\ resolver' = [resolver EXCEPT ![j] = "lockFinished"]
    /\ UNCHANGED <<mainVars, requestVars, ipstr, queueVars,
                   finished_requests, q_lock, finished_requests_lock>>

\* A queue without slots is dereferenced.
ResolverCrash(j) ==
    /\ ResolverAt(j, "empty")
    /\ ~q_ready
    /\ process' = "crashed"
    /\ UNCHANGED <<main, idx, failures, requestVars, resolverVars, queueVars,
                   output, finished_requests, locks>>

ResolverLock(j) == LockFinishedFirst(j) \/ LockQueueSecond(j)
                   \/ RelockFinished(j) \/ LockOutput(j)

ResolverStep(j) ==
    \/ ResolverLock(j) \/ TestFinished(j) \/ TestEmpty(j) \/ UnlockQueue(j)
    \/ PopName(j) \/ Lookup(j) \/ PrintLine(j) \/ ResolverCrash(j)

(***************************************************************************)
(* The process                                                             *)
(***************************************************************************)

Ended == process # "running" /\ UNCHANGED vars

Next == \/ MainStep
        \/ \E i \in RequestThreads : RequestStep(i)
        \/ \E j \in ResolverThreads : ResolverStep(j)
        \/ Ended

Spec == Init /\ [][Next]_vars

\* The scheduler runs every thread, and a thread that waits for a mutex gets
\* it if the mutex is released again and again: all the loops that take a
\* mutex repeatedly sleep, or look a name up, between two acquisitions.
Fairness ==
    /\ WF_vars(MainStep)
    /\ SF_vars(LockFinished)
    /\ \A i \in RequestThreads :
          WF_vars(RequestStep(i)) /\ SF_vars(LockQueue(i))
    /\ \A j \in ResolverThreads :
          WF_vars(ResolverStep(j)) /\ SF_vars(ResolverLock(j))

FairSpec == Spec /\ Fairness

(***************************************************************************)
(* Safety                                                                  *)
(***************************************************************************)

\* The places of the program that hold name n: the request thread that read
\* it, a slot of the queue, a resolver that popped it, a line of the output.
Holders(n) ==
    {Request(i) : i \in {r \in RequestThreads :
                            /\ request[r] \in {"lock", "full", "push"}
                            /\ n = <<r, nread[r]>>}}
    \cup {<<"slot", s>> : s \in {t \in DOMAIN q.array : q.array[t] = n}}
    \cup {Resolver(j) : j \in {r \in ResolverThreads : hostname[r] = n}}
    \cup UNION {{<<"line", ip, c>> : c \in 1 .. output[<<n, ip>>]}
                  : ip \in Name \cup {NoIp}}

\* A name that was read from its file is in exactly one place at any time,
\* and one that was not read is nowhere: no interleaving of the threads
\* loses a name, copies it or writes it twice (service_name_file,
\* process_host_names and the queue between them).
ExactlyOnePlace ==
    \A n \in Name :
        Cardinality(Holders(n)) = IF n[2] <= nread[n[1]] THEN 1 ELSE 0

\* The test of queue_is_full is still valid when queue_push runs, so that
\* the status service_name_file ignores is never QUEUE_FAILURE and no name
\* is dropped there.
PushNeverRefused ==
    \A i \in RequestThreads :
        request[i] = "push" => PushStatus(q) = QUEUE_SUCCESS

\* process_host_names: a resolver that got NULL from queue_pop got it because
\* main() had told it to stop, never because another resolver was quicker.
NullOnlyWhenFinished ==
    /\ \A j \in ResolverThreads :
          resolver[j] \in {"lookup", "lockOutput", "print"} =>
              hostname[j] # NULL \/ finished_requests
    /\ output[<<NULL, NoIp>>] > 0 => finished_requests

\* The address on a line is that of the host name on it, or it is empty:
\* nothing of an earlier lookup survives a failed one (the reset of ipstr).
LineMatchesName ==
    \A l \in Line : output[l] > 0 => l[2] \in {l[1], NoIp}

\* finished_requests is set when no request thread can push any more.
FinishedMeansNoMorePushes ==
    finished_requests =>
        \A i \in RequestThreads : request[i] \in {"done", "failed"}

\* main() closes the output file, and ends the process, when no thread can
\* still write to it.
NoWriteAfterClose ==
    main = "done" =>
        \A j \in ResolverThreads :
            resolver[j] \in {"unborn", "failed", "done"}

\* When the process has exited, each file was read to its end or not opened,
\* and the only names without a line are those left in the queue: at most
\* MAX_RESOLVER_THREADS of them.
OnlyQueuedNamesLost ==
    process = "exited" =>
        /\ \A i \in RequestThreads : nread[i] \in {0, FileLength[i]}
        /\ \A n \in Name :
              n[2] <= nread[n[1]] =>
                  \/ \E ip \in Name \cup {NoIp} : output[<<n, ip>>] > 0
                  \/ \E k \in DOMAIN Contents(q) : Contents(q)[k] = n

\* Who is in which critical section owns its mutex, alone.
RequestInQ  == {"full", "push"}
ResolverInQ == {"empty", "unlockQ", "pop"}
ResolverInFinished == {"while", "lockQ", "relockQ", "empty"}

LockOwners ==
    /\ \A i \in RequestThreads :
          request[i] \in RequestInQ <=> q_lock = Request(i)
    /\ \A j \in ResolverThreads :
          /\ resolver[j] \in ResolverInQ <=> q_lock = Resolver(j)
          /\ resolver[j] \in ResolverInFinished
                <=> finished_requests_lock = Resolver(j)
          /\ resolver[j] = "print" <=> output_file_lock = Resolver(j)
    /\ main = "setFinished" <=> finished_requests_lock = Main
    /\ q_lock # Main /\ output_file_lock # Main
    /\ \A i \in RequestThreads :
          Request(i) \notin {output_file_lock, finished_requests_lock}

(***************************************************************************)
(* Liveness and refinement                                                 *)
(***************************************************************************)

\* The process ends: nobody waits for ever on a full queue, an empty queue, a
\* mutex or a join.  It needs one resolver thread, so MaxFailures has to be
\* less than MAX_RESOLVER_THREADS: without any resolver the request threads
\* find the queue full for ever.
Termination == <>(process # "running")

\* The hostname queue, as the threads use it, is the bounded first-in
\* first-out buffer.
Fifo == INSTANCE BoundedFifo WITH Values <- Name,
                                  Capacity <- MAX_RESOLVER_THREADS,
                                  buffer <- Contents(q)

ImplementsFifo == Fifo!Spec

(***************************************************************************)
(* What the documents say of the program, and the code does not do         *)
(***************************************************************************)

\* Every name of every file that was read has a line when the program ends.
AllNamesServiced ==
    process = "exited" =>
        \A n \in Name : n[2] <= nread[n[1]] =>
            \E ip \in Name \cup {NoIp} : output[<<n, ip>>] > 0
=============================================================================
