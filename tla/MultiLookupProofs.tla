-------------------------- MODULE MultiLookupProofs --------------------------
(***************************************************************************)
(* Proofs, for any number of name files, names and resolver threads and    *)
(* any number of failed pthread_create calls, of the safety properties of  *)
(* MultiLookup: first of those that rest on its locking protocol, then of  *)
(* where the names are.                                                    *)
(***************************************************************************)
EXTENDS MultiLookup, QueueProofs, FiniteSetTheorems

\* A request thread on its way to a push has read the name it will push.
NameInHand ==
    \A i \in RequestThreads :
        request[i] \in {"lock", "full", "push"} => nread[i] >= 1

TypeInv == TypeOK /\ NameInHand

\* What main() knows of its threads at each point: those it has not created
\* yet have not started, those it has joined have ended.
MainPhase ==
    /\ main \in {"args", "open", "init"} =>
          \A i \in RequestThreads : request[i] = "unborn"
    /\ main \in {"args", "open", "init", "createRequest"} =>
          \A j \in ResolverThreads : resolver[j] = "unborn"
    /\ main = "createRequest" =>
          /\ idx \in RequestThreads
          /\ \A i \in RequestThreads : i >= idx => request[i] = "unborn"
    /\ main = "createResolver" =>
          /\ idx \in ResolverThreads
          /\ \A j \in ResolverThreads : j >= idx => resolver[j] = "unborn"
    /\ main = "joinRequest" =>
          /\ idx \in RequestThreads
          /\ \A i \in RequestThreads :
                i < idx => request[i] \in {"done", "failed"}
    /\ main \in {"lockFinished", "setFinished", "joinResolver", "close"} =>
          \A i \in RequestThreads : request[i] \in {"done", "failed"}
    /\ main \in {"lockFinished", "setFinished"} => idx = 1
    /\ main = "joinResolver" =>
          /\ idx \in ResolverThreads
          /\ \A j \in ResolverThreads :
                j < idx => resolver[j] \in {"done", "failed"}
    /\ main = "close" =>
          \A j \in ResolverThreads : resolver[j] \in {"done", "failed"}
    /\ finished_requests => main \in {"joinResolver", "close", "done"}
    /\ FinishedMeansNoMorePushes
    /\ NoWriteAfterClose

\* What a thread found out about the queue holds until it acts on it.
TestsValid ==
    /\ PushNeverRefused
    /\ \A j \in ResolverThreads :
          resolver[j] = "pop" => ~queue_is_empty(q) \/ finished_requests

\* The address a resolver is about to write is that of the name it popped.
AddressInHand ==
    \A j \in ResolverThreads :
        resolver[j] \in {"lockOutput", "print"} =>
            ipstr[j] \in {hostname[j], NoIp}

\* The inductive invariant.
IInv == /\ TypeInv /\ MainPhase /\ LockOwners
        /\ RingShape(q) /\ TestsValid /\ NullOnlyWhenFinished
        /\ AddressInHand /\ LineMatchesName

(***************************************************************************)
(* Facts about the constants.                                              *)
(***************************************************************************)

\* Different threads are different owners of a mutex.
LEMMA OwnersDistinct ==
    /\ Free # Main
    /\ \A i : Request(i) # Free /\ Request(i) # Main
    /\ \A j : Resolver(j) # Free /\ Resolver(j) # Main
    /\ \A i, j : Request(i) # Resolver(j)
    /\ \A i, k : Request(i) = Request(k) => i = k
    /\ \A i, k : Resolver(i) = Resolver(k) => i = k
  BY DEF Free, Main, Request, Resolver

\* Every thread can own a mutex.
LEMMA ThreadsAreOwners ==
    /\ Free \in Owner /\ Main \in Owner
    /\ \A i \in RequestThreads : Request(i) \in Owner
    /\ \A j \in ResolverThreads : Resolver(j) \in Owner
  BY DEF Owner

\* The k-th name of file i is a name.
LEMMA HeldName ==
    ASSUME NEW i \in RequestThreads, NEW k \in 1 .. FileLength[i]
    PROVE  <<i, k>> \in Name
  BY DEF Name

\* A popped name and an address make a line.
LEMMA LineOf ==
    ASSUME NEW h \in Name \cup {NULL}, NEW ip \in Name \cup {NoIp}
    PROVE  <<h, ip>> \in Line
  BY DEF Line

\* The lengths of the files, and the sizes of loops.
LEMMA Constants ==
    /\ FileLength \in [RequestThreads -> Nat]
    /\ MAX_RESOLVER_THREADS \in Nat \ {0}
    /\ NUM_NAME_FILES \in Nat \ {0}
    /\ MaxFailures \in Nat
  BY MultiLookupAssumption DEF RequestThreads

(***************************************************************************)
(* Type correctness.                                                       *)
(***************************************************************************)

\* The initial values have their types.
LEMMA TypeInit == Init => TypeInv
<1> SUFFICES ASSUME Init PROVE TypeInv
  OBVIOUS
<1>1. q \in QueueType(Name, MAX_RESOLVER_THREADS)
  BY InitType, MultiLookupAssumption DEF Init
<1>2. Free \in Owner
  BY ThreadsAreOwners
<1>3. output \in [Line -> Nat]
  BY DEF Init
<1>4. nread \in [RequestThreads -> Nat]
      /\ \A i \in RequestThreads : nread[i] \in 0 .. FileLength[i]
  BY Constants DEF Init
<1>5. NameInHand
  BY DEF Init, NameInHand
<1>6. /\ hostname \in [ResolverThreads -> Name \cup {NULL}]
      /\ ipstr \in [ResolverThreads -> Name \cup {NoIp}]
  BY DEF Init
<1>7. failures \in 0 .. MaxFailures /\ idx \in Nat \ {0}
  BY Constants DEF Init
<1> QED
  BY <1>1, <1>2, <1>3, <1>4, <1>5, <1>6, <1>7 DEF Init, TypeInv, TypeOK

\* Every step of every thread keeps the types.
LEMMA TypeStep == TypeInv /\ [Next]_vars => TypeInv'
<1> SUFFICES ASSUME TypeInv, [Next]_vars PROVE TypeInv'
  OBVIOUS
<1> USE DEF TypeInv, TypeOK, NameInHand, MainAt, RequestAt, ResolverAt,
   mainVars, requestVars, resolverVars, queueVars, locks
<1>1. CASE CheckArguments
  BY <1>1, ThreadsAreOwners DEF CheckArguments
<1>2. CASE OpenOutput
  BY <1>2, ThreadsAreOwners DEF OpenOutput
<1>3. CASE InitQueue
  BY <1>3, ThreadsAreOwners DEF InitQueue
<1>4. CASE CreateRequest
  <2>1. request' \in [RequestThreads ->
                 {"unborn", "failed", "open", "read", "lock", "full", "push",
                  "done"}]
    BY <1>4 DEF CreateRequest
  <2>2. NameInHand'
    BY <1>4 DEF CreateRequest
  <2>3. idx' \in Nat \ {0} /\ failures' \in 0 .. MaxFailures
    BY <1>4, Constants DEF CreateRequest, NextTurn
  <2> QED
    BY <1>4, <2>1, <2>2, <2>3 DEF CreateRequest, NextTurn
<1>5. CASE CreateResolver
  <2>1. idx' \in Nat \ {0} /\ failures' \in 0 .. MaxFailures
    BY <1>5, Constants DEF CreateResolver, NextTurn
  <2> QED
    BY <1>5, <2>1 DEF CreateResolver, NextTurn
<1>6. CASE JoinRequest
  BY <1>6 DEF JoinRequest, Join, NextTurn
<1>7. CASE LockFinished
  BY <1>7, ThreadsAreOwners DEF LockFinished
<1>8. CASE SetFinished
  BY <1>8, ThreadsAreOwners DEF SetFinished
<1>9. CASE JoinResolver
  BY <1>9 DEF JoinResolver, Join, NextTurn
<1>10. CASE CloseOutput
  BY <1>10, ThreadsAreOwners DEF CloseOutput
<1>11. ASSUME NEW i \in RequestThreads, OpenNames(i) PROVE TypeInv'
  BY <1>11, ThreadsAreOwners DEF OpenNames
<1>12. ASSUME NEW i \in RequestThreads, ReadName(i) PROVE TypeInv'
  <2>1. nread' \in [RequestThreads -> Nat]
    BY <1>12 DEF ReadName
  <2>2. \A k \in RequestThreads : nread'[k] \in 0 .. FileLength[k]
    BY <1>12, Constants DEF ReadName
  <2>3. NameInHand'
    BY <1>12 DEF ReadName
  <2> QED
    BY <1>12, <2>1, <2>2, <2>3 DEF ReadName
<1>13. ASSUME NEW i \in RequestThreads, LockQueue(i) PROVE TypeInv'
  BY <1>13, ThreadsAreOwners DEF LockQueue
<1>14. ASSUME NEW i \in RequestThreads, TestFull(i) PROVE TypeInv'
  BY <1>14, ThreadsAreOwners DEF TestFull
<1>15. ASSUME NEW i \in RequestThreads, PushName(i) PROVE TypeInv'
  <2>1. <<i, nread[i]>> \in Name
    BY <1>15, HeldName, Constants DEF PushName
  <2>2. q' \in QueueType(Name, MAX_RESOLVER_THREADS)
    BY <1>15, <2>1, PushType, Constants DEF PushName
  <2> QED
    BY <1>15, <2>2, ThreadsAreOwners DEF PushName
<1>16. ASSUME NEW i \in RequestThreads, RequestCrash(i) PROVE TypeInv'
  BY <1>16, ThreadsAreOwners DEF RequestCrash
<1>17. ASSUME NEW j \in ResolverThreads, LockFinishedFirst(j) PROVE TypeInv'
  BY <1>17, ThreadsAreOwners DEF LockFinishedFirst
<1>18. ASSUME NEW j \in ResolverThreads, LockQueueSecond(j) PROVE TypeInv'
  BY <1>18, ThreadsAreOwners DEF LockQueueSecond
<1>19. ASSUME NEW j \in ResolverThreads, RelockFinished(j) PROVE TypeInv'
  BY <1>19, ThreadsAreOwners DEF RelockFinished
<1>20. ASSUME NEW j \in ResolverThreads, LockOutput(j) PROVE TypeInv'
  BY <1>20, ThreadsAreOwners DEF LockOutput
<1>21. ASSUME NEW j \in ResolverThreads, TestFinished(j) PROVE TypeInv'
  BY <1>21, ThreadsAreOwners DEF TestFinished
<1>22. ASSUME NEW j \in ResolverThreads, TestEmpty(j) PROVE TypeInv'
  BY <1>22, ThreadsAreOwners DEF TestEmpty
<1>23. ASSUME NEW j \in ResolverThreads, UnlockQueue(j) PROVE TypeInv'
  BY <1>23, ThreadsAreOwners DEF UnlockQueue
<1>24. ASSUME NEW j \in ResolverThreads, PopName(j) PROVE TypeInv'
  <2>1. /\ q' \in QueueType(Name, MAX_RESOLVER_THREADS)
        /\ Popped(q) \in Name \cup {NULL}
    BY <1>24, PopType, Constants DEF PopName
  <2> QED
    BY <1>24, <2>1, ThreadsAreOwners DEF PopName
<1>25. ASSUME NEW j \in ResolverThreads, Lookup(j) PROVE TypeInv'
  BY <1>25 DEF Lookup, LookupResult
<1>26. ASSUME NEW j \in ResolverThreads, PrintLine(j) PROVE TypeInv'
  <2>1. <<hostname[j], ipstr[j]>> \in Line
    BY <1>26, LineOf DEF PrintLine
  <2>2. output' \in [Line -> Nat]
    BY <1>26, <2>1 DEF PrintLine
  <2>3. hostname' \in [ResolverThreads -> Name \cup {NULL}]
    BY <1>26 DEF PrintLine
  <2> QED
    BY <1>26, <2>2, <2>3, ThreadsAreOwners DEF PrintLine
<1>27. ASSUME NEW j \in ResolverThreads, ResolverCrash(j) PROVE TypeInv'
  BY <1>27, ThreadsAreOwners DEF ResolverCrash
<1>28. CASE UNCHANGED vars
  BY <1>28 DEF vars
<1> QED
  BY <1>1, <1>2, <1>3, <1>4, <1>5, <1>6, <1>7, <1>8, <1>9, <1>10, <1>11,
     <1>12, <1>13, <1>14, <1>15, <1>16, <1>17, <1>18, <1>19, <1>20, <1>21,
     <1>22, <1>23, <1>24, <1>25, <1>26, <1>27, <1>28 DEF Next, MainStep,
     RequestStep, ResolverStep, ResolverLock, Ended

(***************************************************************************)
(* What main() knows.                                                      *)
(***************************************************************************)

\* No thread has started.
LEMMA PhaseInit == Init => MainPhase
  BY DEF Init, MainPhase, FinishedMeansNoMorePushes, NoWriteAfterClose

\* Threads only move on, and main() only waits for them in order.
LEMMA PhaseStep == TypeInv /\ MainPhase /\ [Next]_vars => MainPhase'
<1> SUFFICES ASSUME TypeInv /\ MainPhase, [Next]_vars PROVE MainPhase'
  OBVIOUS
<1>a. /\ request \in [RequestThreads -> {"unborn", "failed", "open", "read",
                                       "lock", "full", "push", "done"}]
      /\ resolver \in [ResolverThreads ->
                        {"unborn", "failed", "lockFinished", "while", "lockQ",
                         "empty", "unlockQ", "relockFinished", "relockQ",
                         "pop", "lookup", "lockOutput", "print", "done"}]
  BY DEF TypeInv, TypeOK
<1>b. /\ idx \in Nat
      /\ NUM_NAME_FILES \in Nat \ {0}
      /\ MAX_RESOLVER_THREADS \in Nat \ {0}
  BY Constants DEF TypeInv, TypeOK
<1> USE DEF MainPhase, FinishedMeansNoMorePushes, NoWriteAfterClose, MainAt,
   RequestAt, ResolverAt, mainVars, requestVars, resolverVars, queueVars,
   locks
<1>1. CASE CheckArguments
  BY <1>1, <1>a DEF CheckArguments
<1>2. CASE OpenOutput
  BY <1>2, <1>a DEF OpenOutput
<1>3. CASE InitQueue
  BY <1>3, <1>a, <1>b DEF InitQueue, NextTurn, RequestThreads, ResolverThreads
<1>4. CASE CreateRequest
  BY <1>4, <1>a, <1>b DEF CreateRequest, NextTurn, RequestThreads,
     ResolverThreads
<1>5. CASE CreateResolver
  BY <1>5, <1>a, <1>b DEF CreateResolver, NextTurn, RequestThreads,
     ResolverThreads
<1>6. CASE JoinRequest
  BY <1>6, <1>a, <1>b DEF JoinRequest, Join, NextTurn, RequestThreads,
     ResolverThreads
<1>7. CASE LockFinished
  BY <1>7, <1>a, <1>b DEF LockFinished, NextTurn, RequestThreads,
     ResolverThreads
<1>8. CASE SetFinished
  BY <1>8, <1>a, <1>b DEF SetFinished, NextTurn, RequestThreads,
     ResolverThreads
<1>9. CASE JoinResolver
  BY <1>9, <1>a, <1>b DEF JoinResolver, Join, NextTurn, RequestThreads,
     ResolverThreads
<1>10. CASE CloseOutput
  BY <1>10, <1>a DEF CloseOutput
<1>11. ASSUME NEW i \in RequestThreads, OpenNames(i) PROVE MainPhase'
  BY <1>11, <1>a DEF OpenNames
<1>12. ASSUME NEW i \in RequestThreads, ReadName(i) PROVE MainPhase'
  BY <1>12, <1>a DEF ReadName
<1>13. ASSUME NEW i \in RequestThreads, LockQueue(i) PROVE MainPhase'
  BY <1>13, <1>a DEF LockQueue
<1>14. ASSUME NEW i \in RequestThreads, TestFull(i) PROVE MainPhase'
  BY <1>14, <1>a DEF TestFull
<1>15. ASSUME NEW i \in RequestThreads, PushName(i) PROVE MainPhase'
  BY <1>15, <1>a DEF PushName
<1>16. ASSUME NEW i \in RequestThreads, RequestCrash(i) PROVE MainPhase'
  BY <1>16, <1>a DEF RequestCrash
<1>17. ASSUME NEW j \in ResolverThreads, LockFinishedFirst(j) PROVE MainPhase'
  BY <1>17, <1>a DEF LockFinishedFirst
<1>18. ASSUME NEW j \in ResolverThreads, LockQueueSecond(j) PROVE MainPhase'
  BY <1>18, <1>a DEF LockQueueSecond
<1>19. ASSUME NEW j \in ResolverThreads, RelockFinished(j) PROVE MainPhase'
  BY <1>19, <1>a DEF RelockFinished
<1>20. ASSUME NEW j \in ResolverThreads, LockOutput(j) PROVE MainPhase'
  BY <1>20, <1>a DEF LockOutput
<1>21. ASSUME NEW j \in ResolverThreads, TestFinished(j) PROVE MainPhase'
  BY <1>21, <1>a DEF TestFinished
<1>22. ASSUME NEW j \in ResolverThreads, TestEmpty(j) PROVE MainPhase'
  BY <1>22, <1>a DEF TestEmpty
<1>23. ASSUME NEW j \in ResolverThreads, UnlockQueue(j) PROVE MainPhase'
  BY <1>23, <1>a DEF UnlockQueue
<1>24. ASSUME NEW j \in ResolverThreads, PopName(j) PROVE MainPhase'
  BY <1>24, <1>a DEF PopName
<1>25. ASSUME NEW j \in ResolverThreads, Lookup(j) PROVE MainPhase'
  BY <1>25, <1>a DEF Lookup
<1>26. ASSUME NEW j \in ResolverThreads, PrintLine(j) PROVE MainPhase'
  BY <1>26, <1>a DEF PrintLine
<1>27. ASSUME NEW j \in ResolverThreads, ResolverCrash(j) PROVE MainPhase'
  BY <1>27, <1>a DEF ResolverCrash
<1>28. CASE UNCHANGED vars
  BY <1>28 DEF vars
<1> QED
  BY <1>1, <1>2, <1>3, <1>4, <1>5, <1>6, <1>7, <1>8, <1>9, <1>10, <1>11,
     <1>12, <1>13, <1>14, <1>15, <1>16, <1>17, <1>18, <1>19, <1>20, <1>21,
     <1>22, <1>23, <1>24, <1>25, <1>26, <1>27, <1>28 DEF Next, MainStep,
     RequestStep, ResolverStep, ResolverLock, Ended

(***************************************************************************)
(* Mutual exclusion.                                                       *)
(***************************************************************************)

\* No mutex is owned and no thread is in a critical section.
LEMMA OwnersInit == Init => LockOwners
  BY OwnersDistinct DEF Init, LockOwners, RequestInQ, ResolverInQ,
                        ResolverInFinished

\* No step enters a critical section without its mutex, or leaves with it.
LEMMA OwnersStep ==
    TypeInv /\ MainPhase /\ LockOwners /\ [Next]_vars
        => LockOwners'
<1> SUFFICES ASSUME TypeInv /\ MainPhase /\ LockOwners, [Next]_vars
             PROVE  LockOwners'
  OBVIOUS
<1>a. /\ request \in [RequestThreads -> {"unborn", "failed", "open", "read",
                                       "lock", "full", "push", "done"}]
      /\ resolver \in [ResolverThreads ->
                        {"unborn", "failed", "lockFinished", "while", "lockQ",
                         "empty", "unlockQ", "relockFinished", "relockQ",
                         "pop", "lookup", "lockOutput", "print", "done"}]
  BY DEF TypeInv, TypeOK
<1> USE DEF LockOwners, RequestInQ, ResolverInQ, ResolverInFinished, MainAt,
   RequestAt, ResolverAt, mainVars, requestVars, resolverVars, queueVars,
   locks
<1>1. CASE CheckArguments
  BY <1>1, <1>a, OwnersDistinct DEF CheckArguments
<1>2. CASE OpenOutput
  BY <1>2, <1>a, OwnersDistinct DEF OpenOutput
<1>3. CASE InitQueue
  BY <1>3, <1>a, OwnersDistinct DEF InitQueue
<1>4. CASE CreateRequest
  <2>1. idx \in RequestThreads /\ request[idx] = "unborn"
    BY <1>4, Constants DEF CreateRequest, MainPhase, TypeInv, TypeOK,
       RequestThreads
  <2> QED
    BY <1>4, <2>1, <1>a, OwnersDistinct DEF CreateRequest, NextTurn
<1>5. CASE CreateResolver
  <2>1. idx \in ResolverThreads /\ resolver[idx] = "unborn"
    BY <1>5, Constants DEF CreateResolver, MainPhase, TypeInv, TypeOK,
       ResolverThreads
  <2> QED
    BY <1>5, <2>1, <1>a, OwnersDistinct DEF CreateResolver, NextTurn
<1>6. CASE JoinRequest
  BY <1>6 DEF JoinRequest, Join, NextTurn
<1>7. CASE LockFinished
  BY <1>7, <1>a, OwnersDistinct DEF LockFinished
<1>8. CASE SetFinished
  BY <1>8, <1>a, OwnersDistinct DEF SetFinished
<1>9. CASE JoinResolver
  BY <1>9 DEF JoinResolver, Join, NextTurn
<1>10. CASE CloseOutput
  BY <1>10, <1>a, OwnersDistinct DEF CloseOutput
<1>11. ASSUME NEW i \in RequestThreads, OpenNames(i) PROVE LockOwners'
  BY <1>11, <1>a, OwnersDistinct DEF OpenNames
<1>12. ASSUME NEW i \in RequestThreads, ReadName(i) PROVE LockOwners'
  BY <1>12, <1>a, OwnersDistinct DEF ReadName
<1>13. ASSUME NEW i \in RequestThreads, LockQueue(i) PROVE LockOwners'
  BY <1>13, <1>a, OwnersDistinct DEF LockQueue
<1>14. ASSUME NEW i \in RequestThreads, TestFull(i) PROVE LockOwners'
  BY <1>14, <1>a, OwnersDistinct DEF TestFull
<1>15. ASSUME NEW i \in RequestThreads, PushName(i) PROVE LockOwners'
  BY <1>15, <1>a, OwnersDistinct DEF PushName
<1>16. ASSUME NEW i \in RequestThreads, RequestCrash(i) PROVE LockOwners'
  BY <1>16, <1>a, OwnersDistinct DEF RequestCrash
<1>17. ASSUME NEW j \in ResolverThreads, LockFinishedFirst(j)
       PROVE  LockOwners'
  BY <1>17, <1>a, OwnersDistinct DEF LockFinishedFirst
<1>18. ASSUME NEW j \in ResolverThreads, LockQueueSecond(j) PROVE LockOwners'
  BY <1>18, <1>a, OwnersDistinct DEF LockQueueSecond
<1>19. ASSUME NEW j \in ResolverThreads, RelockFinished(j) PROVE LockOwners'
  BY <1>19, <1>a, OwnersDistinct DEF RelockFinished
<1>20. ASSUME NEW j \in ResolverThreads, LockOutput(j) PROVE LockOwners'
  BY <1>20, <1>a, OwnersDistinct DEF LockOutput
<1>21. ASSUME NEW j \in ResolverThreads, TestFinished(j) PROVE LockOwners'
  BY <1>21, <1>a, OwnersDistinct DEF TestFinished
<1>22. ASSUME NEW j \in ResolverThreads, TestEmpty(j) PROVE LockOwners'
  BY <1>22, <1>a, OwnersDistinct DEF TestEmpty
<1>23. ASSUME NEW j \in ResolverThreads, UnlockQueue(j) PROVE LockOwners'
  BY <1>23, <1>a, OwnersDistinct DEF UnlockQueue
<1>24. ASSUME NEW j \in ResolverThreads, PopName(j) PROVE LockOwners'
  BY <1>24, <1>a, OwnersDistinct DEF PopName
<1>25. ASSUME NEW j \in ResolverThreads, Lookup(j) PROVE LockOwners'
  BY <1>25, <1>a, OwnersDistinct DEF Lookup
<1>26. ASSUME NEW j \in ResolverThreads, PrintLine(j) PROVE LockOwners'
  BY <1>26, <1>a, OwnersDistinct DEF PrintLine
<1>27. ASSUME NEW j \in ResolverThreads, ResolverCrash(j) PROVE LockOwners'
  BY <1>27, <1>a, OwnersDistinct DEF ResolverCrash
<1>28. CASE UNCHANGED vars
  BY <1>28 DEF vars
<1> QED
  BY <1>1, <1>2, <1>3, <1>4, <1>5, <1>6, <1>7, <1>8, <1>9, <1>10, <1>11,
     <1>12, <1>13, <1>14, <1>15, <1>16, <1>17, <1>18, <1>19, <1>20, <1>21,
     <1>22, <1>23, <1>24, <1>25, <1>26, <1>27, <1>28 DEF Next, MainStep,
     RequestStep, ResolverStep, ResolverLock, Ended

(***************************************************************************)
(* What the threads know of the queue.                                     *)
(***************************************************************************)

\* Only a push and a pop change the queue.
LEMMA QueueSteps ==
    [Next]_vars => \/ \E i \in RequestThreads : PushName(i)
                   \/ \E j \in ResolverThreads : PopName(j)
                   \/ UNCHANGED q
  BY DEF Next, MainStep, RequestStep, ResolverStep,
     ResolverLock, Ended, vars, CheckArguments, OpenOutput, InitQueue,
     CreateRequest, CreateResolver, JoinRequest, LockFinished, SetFinished,
     JoinResolver, CloseOutput, OpenNames, ReadName, LockQueue, TestFull,
     RequestCrash, LockFinishedFirst, LockQueueSecond, RelockFinished,
     LockOutput, TestFinished, TestEmpty, UnlockQueue, Lookup, PrintLine,
     ResolverCrash, mainVars, requestVars, resolverVars, queueVars, locks

\* The ring is empty at first.
LEMMA RingInit == Init => RingShape(q)
  BY InitShape, Constants DEF Init

\* A push and a pop keep the shape of the ring.
LEMMA RingStep == TypeInv /\ RingShape(q) /\ [Next]_vars => RingShape(q)'
<1> SUFFICES ASSUME TypeInv, RingShape(q), [Next]_vars PROVE RingShape(q')
  OBVIOUS
<1>1. q \in QueueType(Name, MAX_RESOLVER_THREADS)
  BY DEF TypeInv, TypeOK
<1>2. ASSUME NEW i \in RequestThreads, PushName(i) PROVE RingShape(q')
  <2>1. <<i, nread[i]>> \in Name
    BY <1>2, HeldName, Constants DEF PushName, RequestAt, TypeInv, TypeOK,
       NameInHand
  <2> QED
    BY <1>1, <1>2, <2>1, PushShape, Constants, NullAssumption DEF PushName
<1>3. ASSUME NEW j \in ResolverThreads, PopName(j) PROVE RingShape(q')
  BY <1>1, <1>3, PopShape, Constants, NullAssumption DEF PopName
<1>4. CASE UNCHANGED q
  BY <1>4
<1> QED
  BY <1>2, <1>3, <1>4, QueueSteps

\* No thread has tested the queue.
LEMMA TestsInit == Init => TestsValid
  BY DEF Init, TestsValid, PushNeverRefused

\* Who tests the queue holds its mutex until it acts on the outcome.
LEMMA TestsStep ==
    TypeInv /\ LockOwners /\ TestsValid /\ [Next]_vars
        => TestsValid'
<1> SUFFICES ASSUME TypeInv /\ LockOwners /\ TestsValid, [Next]_vars
             PROVE  TestsValid'
  OBVIOUS
<1>a. /\ request \in [RequestThreads -> {"unborn", "failed", "open", "read",
                                       "lock", "full", "push", "done"}]
      /\ resolver \in [ResolverThreads ->
                        {"unborn", "failed", "lockFinished", "while", "lockQ",
                         "empty", "unlockQ", "relockFinished", "relockQ",
                         "pop", "lookup", "lockOutput", "print", "done"}]
  BY DEF TypeInv, TypeOK
<1> USE DEF TestsValid, PushNeverRefused, PushStatus, QUEUE_SUCCESS,
   QUEUE_FAILURE, MainAt, RequestAt, ResolverAt, mainVars, requestVars,
   resolverVars, queueVars, locks
<1>1. CASE CheckArguments
  BY <1>1, <1>a DEF CheckArguments
<1>2. CASE OpenOutput
  BY <1>2, <1>a DEF OpenOutput
<1>3. CASE InitQueue
  BY <1>3, <1>a DEF InitQueue
<1>4. CASE CreateRequest
  BY <1>4, <1>a DEF CreateRequest
<1>5. CASE CreateResolver
  BY <1>5, <1>a DEF CreateResolver
<1>6. CASE JoinRequest
  BY <1>6 DEF JoinRequest, Join, NextTurn
<1>7. CASE LockFinished
  BY <1>7, <1>a DEF LockFinished
<1>8. CASE SetFinished
  BY <1>8, <1>a DEF SetFinished
<1>9. CASE JoinResolver
  BY <1>9 DEF JoinResolver, Join, NextTurn
<1>10. CASE CloseOutput
  BY <1>10, <1>a DEF CloseOutput
<1>11. ASSUME NEW i \in RequestThreads, OpenNames(i) PROVE TestsValid'
  BY <1>11, <1>a DEF OpenNames
<1>12. ASSUME NEW i \in RequestThreads, ReadName(i) PROVE TestsValid'
  BY <1>12, <1>a DEF ReadName
<1>13. ASSUME NEW i \in RequestThreads, LockQueue(i) PROVE TestsValid'
  BY <1>13, <1>a DEF LockQueue
<1>14. ASSUME NEW i \in RequestThreads, TestFull(i) PROVE TestsValid'
  BY <1>14, <1>a DEF TestFull
<1>15. ASSUME NEW i \in RequestThreads, PushName(i) PROVE TestsValid'
  BY <1>15, <1>a, OwnersDistinct DEF PushName, LockOwners, RequestInQ,
     ResolverInQ
<1>16. ASSUME NEW i \in RequestThreads, RequestCrash(i) PROVE TestsValid'
  BY <1>16, <1>a DEF RequestCrash
<1>17. ASSUME NEW j \in ResolverThreads, LockFinishedFirst(j)
       PROVE  TestsValid'
  BY <1>17, <1>a DEF LockFinishedFirst
<1>18. ASSUME NEW j \in ResolverThreads, LockQueueSecond(j) PROVE TestsValid'
  BY <1>18, <1>a DEF LockQueueSecond
<1>19. ASSUME NEW j \in ResolverThreads, RelockFinished(j) PROVE TestsValid'
  BY <1>19, <1>a DEF RelockFinished
<1>20. ASSUME NEW j \in ResolverThreads, LockOutput(j) PROVE TestsValid'
  BY <1>20, <1>a DEF LockOutput
<1>21. ASSUME NEW j \in ResolverThreads, TestFinished(j) PROVE TestsValid'
  BY <1>21, <1>a DEF TestFinished
<1>22. ASSUME NEW j \in ResolverThreads, TestEmpty(j) PROVE TestsValid'
  BY <1>22, <1>a DEF TestEmpty
<1>23. ASSUME NEW j \in ResolverThreads, UnlockQueue(j) PROVE TestsValid'
  BY <1>23, <1>a DEF UnlockQueue
<1>24. ASSUME NEW j \in ResolverThreads, PopName(j) PROVE TestsValid'
  BY <1>24, <1>a, OwnersDistinct DEF PopName, LockOwners, RequestInQ,
     ResolverInQ
<1>25. ASSUME NEW j \in ResolverThreads, Lookup(j) PROVE TestsValid'
  BY <1>25, <1>a DEF Lookup
<1>26. ASSUME NEW j \in ResolverThreads, PrintLine(j) PROVE TestsValid'
  BY <1>26, <1>a DEF PrintLine
<1>27. ASSUME NEW j \in ResolverThreads, ResolverCrash(j) PROVE TestsValid'
  BY <1>27, <1>a DEF ResolverCrash
<1>28. CASE UNCHANGED vars
  BY <1>28 DEF vars
<1> QED
  BY <1>1, <1>2, <1>3, <1>4, <1>5, <1>6, <1>7, <1>8, <1>9, <1>10, <1>11,
     <1>12, <1>13, <1>14, <1>15, <1>16, <1>17, <1>18, <1>19, <1>20, <1>21,
     <1>22, <1>23, <1>24, <1>25, <1>26, <1>27, <1>28 DEF Next, MainStep,
     RequestStep, ResolverStep, ResolverLock, Ended

(***************************************************************************)
(* What is written.                                                        *)
(***************************************************************************)

\* No resolver has popped anything.
LEMMA NullInit == Init => NullOnlyWhenFinished
  BY LineOf DEF Init, NullOnlyWhenFinished

\* A pop gives NULL only if the ring is empty, and a resolver that pops from
\* an empty ring has seen finished_requests.
LEMMA NullStep ==
    TypeInv /\ RingShape(q) /\ TestsValid /\ NullOnlyWhenFinished
        /\ [Next]_vars
        => NullOnlyWhenFinished'
<1> SUFFICES ASSUME TypeInv /\ RingShape(q) /\ TestsValid /\
                    NullOnlyWhenFinished, [Next]_vars
             PROVE  NullOnlyWhenFinished'
  OBVIOUS
<1>a. /\ request \in [RequestThreads -> {"unborn", "failed", "open", "read",
                                       "lock", "full", "push", "done"}]
      /\ resolver \in [ResolverThreads ->
                        {"unborn", "failed", "lockFinished", "while", "lockQ",
                         "empty", "unlockQ", "relockFinished", "relockQ",
                         "pop", "lookup", "lockOutput", "print", "done"}]
  BY DEF TypeInv, TypeOK
<1>b. /\ output \in [Line -> Nat]
      /\ hostname \in [ResolverThreads -> Name \cup {NULL}]
      /\ ipstr \in [ResolverThreads -> Name \cup {NoIp}]
  BY DEF TypeInv, TypeOK
<1> USE DEF NullOnlyWhenFinished, MainAt, RequestAt, ResolverAt, mainVars,
   requestVars, resolverVars, queueVars, locks
<1>1. CASE CheckArguments
  BY <1>1, <1>a DEF CheckArguments
<1>2. CASE OpenOutput
  BY <1>2, <1>a DEF OpenOutput
<1>3. CASE InitQueue
  BY <1>3, <1>a DEF InitQueue
<1>4. CASE CreateRequest
  BY <1>4, <1>a DEF CreateRequest
<1>5. CASE CreateResolver
  BY <1>5, <1>a DEF CreateResolver
<1>6. CASE JoinRequest
  BY <1>6 DEF JoinRequest, Join, NextTurn
<1>7. CASE LockFinished
  BY <1>7, <1>a DEF LockFinished
<1>8. CASE SetFinished
  BY <1>8, <1>a DEF SetFinished
<1>9. CASE JoinResolver
  BY <1>9 DEF JoinResolver, Join, NextTurn
<1>10. CASE CloseOutput
  BY <1>10, <1>a DEF CloseOutput
<1>11. ASSUME NEW i \in RequestThreads, OpenNames(i)
       PROVE  NullOnlyWhenFinished'
  BY <1>11, <1>a DEF OpenNames
<1>12. ASSUME NEW i \in RequestThreads, ReadName(i)
       PROVE  NullOnlyWhenFinished'
  BY <1>12, <1>a DEF ReadName
<1>13. ASSUME NEW i \in RequestThreads, LockQueue(i)
       PROVE  NullOnlyWhenFinished'
  BY <1>13, <1>a DEF LockQueue
<1>14. ASSUME NEW i \in RequestThreads, TestFull(i)
       PROVE  NullOnlyWhenFinished'
  BY <1>14, <1>a DEF TestFull
<1>15. ASSUME NEW i \in RequestThreads, PushName(i)
       PROVE  NullOnlyWhenFinished'
  BY <1>15, <1>a DEF PushName
<1>16. ASSUME NEW i \in RequestThreads, RequestCrash(i)
       PROVE  NullOnlyWhenFinished'
  BY <1>16, <1>a DEF RequestCrash
<1>17. ASSUME NEW j \in ResolverThreads, LockFinishedFirst(j)
       PROVE  NullOnlyWhenFinished'
  BY <1>17, <1>a DEF LockFinishedFirst
<1>18. ASSUME NEW j \in ResolverThreads, LockQueueSecond(j)
       PROVE  NullOnlyWhenFinished'
  BY <1>18, <1>a DEF LockQueueSecond
<1>19. ASSUME NEW j \in ResolverThreads, RelockFinished(j)
       PROVE  NullOnlyWhenFinished'
  BY <1>19, <1>a DEF RelockFinished
<1>20. ASSUME NEW j \in ResolverThreads, LockOutput(j)
       PROVE  NullOnlyWhenFinished'
  BY <1>20, <1>a DEF LockOutput
<1>21. ASSUME NEW j \in ResolverThreads, TestFinished(j)
       PROVE  NullOnlyWhenFinished'
  BY <1>21, <1>a DEF TestFinished
<1>22. ASSUME NEW j \in ResolverThreads, TestEmpty(j)
       PROVE  NullOnlyWhenFinished'
  BY <1>22, <1>a DEF TestEmpty
<1>23. ASSUME NEW j \in ResolverThreads, UnlockQueue(j)
       PROVE  NullOnlyWhenFinished'
  BY <1>23, <1>a DEF UnlockQueue
<1>24. ASSUME NEW j \in ResolverThreads, PopName(j)
       PROVE  NullOnlyWhenFinished'
  <2>1. ~queue_is_empty(q) => Popped(q) # NULL
    BY PopShape, Constants, NullAssumption DEF TypeInv, TypeOK
  <2> QED
    BY <1>24, <1>a, <1>b, <2>1 DEF PopName, TestsValid
<1>25. ASSUME NEW j \in ResolverThreads, Lookup(j) PROVE NullOnlyWhenFinished'
  BY <1>25, <1>a DEF Lookup
<1>26. ASSUME NEW j \in ResolverThreads, PrintLine(j)
       PROVE  NullOnlyWhenFinished'
  <2>1. <<hostname[j], ipstr[j]>> = <<NULL, NoIp>> => finished_requests
    BY <1>26 DEF PrintLine
  <2>2. <<NULL, NoIp>> \in Line
    BY LineOf
  <2> QED
    BY <1>26, <1>a, <1>b, <2>1, <2>2 DEF PrintLine
<1>27. ASSUME NEW j \in ResolverThreads, ResolverCrash(j)
       PROVE  NullOnlyWhenFinished'
  BY <1>27, <1>a DEF ResolverCrash
<1>28. CASE UNCHANGED vars
  BY <1>28 DEF vars
<1> QED
  BY <1>1, <1>2, <1>3, <1>4, <1>5, <1>6, <1>7, <1>8, <1>9, <1>10, <1>11,
     <1>12, <1>13, <1>14, <1>15, <1>16, <1>17, <1>18, <1>19, <1>20, <1>21,
     <1>22, <1>23, <1>24, <1>25, <1>26, <1>27, <1>28 DEF Next, MainStep,
     RequestStep, ResolverStep, ResolverLock, Ended

\* Nothing is written.
LEMMA LineInit == Init => AddressInHand /\ LineMatchesName
  BY DEF Init, AddressInHand, LineMatchesName

\* Each lookup sets the address of its name, or the empty one.
LEMMA LineStep ==
    TypeInv /\ AddressInHand /\ LineMatchesName /\ [Next]_vars
        => (AddressInHand /\ LineMatchesName)'
<1> SUFFICES ASSUME TypeInv /\ AddressInHand /\ LineMatchesName, [Next]_vars
             PROVE  (AddressInHand /\ LineMatchesName)'
  OBVIOUS
<1>a. /\ request \in [RequestThreads -> {"unborn", "failed", "open", "read",
                                       "lock", "full", "push", "done"}]
      /\ resolver \in [ResolverThreads ->
                        {"unborn", "failed", "lockFinished", "while", "lockQ",
                         "empty", "unlockQ", "relockFinished", "relockQ",
                         "pop", "lookup", "lockOutput", "print", "done"}]
  BY DEF TypeInv, TypeOK
<1>b. /\ output \in [Line -> Nat]
      /\ hostname \in [ResolverThreads -> Name \cup {NULL}]
      /\ ipstr \in [ResolverThreads -> Name \cup {NoIp}]
  BY DEF TypeInv, TypeOK
<1> USE DEF AddressInHand, LineMatchesName, MainAt, RequestAt, ResolverAt,
   mainVars, requestVars, resolverVars, queueVars, locks
<1>1. CASE CheckArguments
  BY <1>1, <1>a, <1>b DEF CheckArguments
<1>2. CASE OpenOutput
  BY <1>2, <1>a, <1>b DEF OpenOutput
<1>3. CASE InitQueue
  BY <1>3, <1>a, <1>b DEF InitQueue
<1>4. CASE CreateRequest
  BY <1>4, <1>a, <1>b DEF CreateRequest
<1>5. CASE CreateResolver
  BY <1>5, <1>a, <1>b DEF CreateResolver
<1>6. CASE JoinRequest
  BY <1>6 DEF JoinRequest, Join, NextTurn
<1>7. CASE LockFinished
  BY <1>7, <1>a, <1>b DEF LockFinished
<1>8. CASE SetFinished
  BY <1>8, <1>a, <1>b DEF SetFinished
<1>9. CASE JoinResolver
  BY <1>9 DEF JoinResolver, Join, NextTurn
<1>10. CASE CloseOutput
  BY <1>10, <1>a, <1>b DEF CloseOutput
<1>11. ASSUME NEW i \in RequestThreads, OpenNames(i)
       PROVE  (AddressInHand /\ LineMatchesName)'
  BY <1>11, <1>a, <1>b DEF OpenNames
<1>12. ASSUME NEW i \in RequestThreads, ReadName(i)
       PROVE  (AddressInHand /\ LineMatchesName)'
  BY <1>12, <1>a, <1>b DEF ReadName
<1>13. ASSUME NEW i \in RequestThreads, LockQueue(i)
       PROVE  (AddressInHand /\ LineMatchesName)'
  BY <1>13, <1>a, <1>b DEF LockQueue
<1>14. ASSUME NEW i \in RequestThreads, TestFull(i)
       PROVE  (AddressInHand /\ LineMatchesName)'
  BY <1>14, <1>a, <1>b DEF TestFull
<1>15. ASSUME NEW i \in RequestThreads, PushName(i)
       PROVE  (AddressInHand /\ LineMatchesName)'
  BY <1>15, <1>a, <1>b DEF PushName
<1>16. ASSUME NEW i \in RequestThreads, RequestCrash(i)
       PROVE  (AddressInHand /\ LineMatchesName)'
  BY <1>16, <1>a, <1>b DEF RequestCrash
<1>17. ASSUME NEW j \in ResolverThreads, LockFinishedFirst(j)
       PROVE  (AddressInHand /\ LineMatchesName)'
  BY <1>17, <1>a, <1>b DEF LockFinishedFirst
<1>18. ASSUME NEW j \in ResolverThreads, LockQueueSecond(j)
       PROVE  (AddressInHand /\ LineMatchesName)'
  BY <1>18, <1>a, <1>b DEF LockQueueSecond
<1>19. ASSUME NEW j \in ResolverThreads, RelockFinished(j)
       PROVE  (AddressInHand /\ LineMatchesName)'
  BY <1>19, <1>a, <1>b DEF RelockFinished
<1>20. ASSUME NEW j \in ResolverThreads, LockOutput(j)
       PROVE  (AddressInHand /\ LineMatchesName)'
  BY <1>20, <1>a, <1>b DEF LockOutput
<1>21. ASSUME NEW j \in ResolverThreads, TestFinished(j)
       PROVE  (AddressInHand /\ LineMatchesName)'
  BY <1>21, <1>a, <1>b DEF TestFinished
<1>22. ASSUME NEW j \in ResolverThreads, TestEmpty(j)
       PROVE  (AddressInHand /\ LineMatchesName)'
  BY <1>22, <1>a, <1>b DEF TestEmpty
<1>23. ASSUME NEW j \in ResolverThreads, UnlockQueue(j)
       PROVE  (AddressInHand /\ LineMatchesName)'
  BY <1>23, <1>a, <1>b DEF UnlockQueue
<1>24. ASSUME NEW j \in ResolverThreads, PopName(j)
       PROVE  (AddressInHand /\ LineMatchesName)'
  BY <1>24, <1>a, <1>b DEF PopName
<1>25. ASSUME NEW j \in ResolverThreads, Lookup(j)
       PROVE  (AddressInHand /\ LineMatchesName)'
  BY <1>25, <1>a, <1>b DEF Lookup, LookupResult
<1>26. ASSUME NEW j \in ResolverThreads, PrintLine(j)
       PROVE  (AddressInHand /\ LineMatchesName)'
  BY <1>26, <1>a, <1>b DEF PrintLine
<1>27. ASSUME NEW j \in ResolverThreads, ResolverCrash(j)
       PROVE  (AddressInHand /\ LineMatchesName)'
  BY <1>27, <1>a, <1>b DEF ResolverCrash
<1>28. CASE UNCHANGED vars
  BY <1>28 DEF vars
<1> QED
  BY <1>1, <1>2, <1>3, <1>4, <1>5, <1>6, <1>7, <1>8, <1>9, <1>10, <1>11,
     <1>12, <1>13, <1>14, <1>15, <1>16, <1>17, <1>18, <1>19, <1>20, <1>21,
     <1>22, <1>23, <1>24, <1>25, <1>26, <1>27, <1>28 DEF Next, MainStep,
     RequestStep, ResolverStep, ResolverLock, Ended

(***************************************************************************)
(* The theorems.                                                           *)
(***************************************************************************)

\* The invariant holds throughout, whatever the number of threads and names.
THEOREM Invariant == Spec => []IInv
<1>1. Init => IInv
  BY TypeInit, PhaseInit, OwnersInit, RingInit, TestsInit, NullInit, LineInit
     DEF IInv
<1>2. IInv /\ [Next]_vars => IInv'
  BY TypeStep, PhaseStep, OwnersStep, RingStep, TestsStep, NullStep, LineStep
     DEF IInv
<1> QED
  BY <1>1, <1>2, PTL DEF Spec

\* Every variable keeps its type.
THEOREM TypeCorrect == Spec => []TypeOK
  BY Invariant, PTL DEF IInv, TypeInv

\* The three mutexes exclude: a thread is in a critical section exactly when
\* it owns its mutex.
THEOREM MutualExclusion == Spec => []LockOwners
  BY Invariant, PTL DEF IInv

\* No name is dropped by a queue_push whose status is ignored.
THEOREM NoPushRefused == Spec => []PushNeverRefused
  BY Invariant, PTL DEF IInv, TestsValid

\* No resolver gets NULL from the queue before finished_requests is set.
THEOREM NoEarlyNull == Spec => []NullOnlyWhenFinished
  BY Invariant, PTL DEF IInv

\* Every line carries the address of its own name, or none.
THEOREM LinesMatch == Spec => []LineMatchesName
  BY Invariant, PTL DEF IInv

\* finished_requests is set when all request threads have ended.
THEOREM FlagIsLast == Spec => []FinishedMeansNoMorePushes
  BY Invariant, PTL DEF IInv, MainPhase

\* The output file is closed when no resolver thread is left.
THEOREM CloseIsLast == Spec => []NoWriteAfterClose
  BY Invariant, PTL DEF IInv, MainPhase

\* One step of the program is one step, or none, of the abstract buffer.
LEMMA FifoStep ==
    TypeInv /\ RingShape(q) /\ TestsValid /\ [Next]_vars
        => [Fifo!Next]_(Contents(q))
<1> SUFFICES ASSUME TypeInv, RingShape(q), TestsValid, [Next]_vars
             PROVE  [Fifo!Next]_(Contents(q))
  OBVIOUS
<1>1. q \in QueueType(Name, MAX_RESOLVER_THREADS)
  BY DEF TypeInv, TypeOK
<1>2. ASSUME NEW i \in RequestThreads, PushName(i)
      PROVE  Fifo!Next
  <2>1. <<i, nread[i]>> \in Name
    BY <1>2, HeldName, Constants DEF PushName, RequestAt, TypeInv, TypeOK,
       NameInHand
  <2>2. ~queue_is_full(q)
    BY <1>2 DEF PushName, RequestAt, TestsValid, PushNeverRefused, PushStatus,
                QUEUE_SUCCESS, QUEUE_FAILURE
  <2>3. /\ Contents(queue_push(q, <<i, nread[i]>>))
              = Append(Contents(q), <<i, nread[i]>>)
        /\ Len(Contents(q)) < MAX_RESOLVER_THREADS
    BY <1>1, <2>1, <2>2, PushContents, Constants, NullAssumption
  <2> QED
    BY <1>2, <2>1, <2>3 DEF PushName, Fifo!Next, Fifo!Put
<1>3. ASSUME NEW j \in ResolverThreads, PopName(j)
      PROVE  [Fifo!Next]_(Contents(q))
  <2>1. CASE queue_is_empty(q)
    BY <1>3, <2>1 DEF PopName, queue_pop
  <2>2. CASE ~queue_is_empty(q)
    <3>1. /\ Contents(q) # << >>
          /\ Contents(queue_pop(q)) = Tail(Contents(q))
      BY <1>1, <2>2, PopContents, Constants, NullAssumption
    <3> QED
      BY <1>3, <3>1 DEF PopName, Fifo!Next, Fifo!Get
  <2> QED
    BY <2>1, <2>2
<1>4. CASE UNCHANGED q
  BY <1>4
<1> QED
  BY <1>2, <1>3, <1>4, QueueSteps

\* The hostname queue implements the bounded first-in first-out buffer.
THEOREM Refinement == Spec => ImplementsFifo
<1>1. Init => Fifo!Init
  <2>1. ASSUME Init PROVE Len(Contents(q)) = 0 /\ Contents(q) \in Seq(Name)
    <3>1. /\ q \in QueueType(Name, MAX_RESOLVER_THREADS)
          /\ RingShape(q) /\ queue_is_empty(q)
      BY <2>1, InitType, InitShape, Constants DEF Init
    <3> QED
      BY <3>1, ContentsOf, ContentsType, Constants, NullAssumption
  <2> QED
    BY <2>1 DEF Fifo!Init
<1>2. IInv /\ [Next]_vars => [Fifo!Next]_(Contents(q))
  BY FifoStep DEF IInv
<1> QED
  BY <1>1, <1>2, Invariant, PTL DEF Spec, ImplementsFifo, Fifo!Spec

(***************************************************************************)
(* Where the names are: no interleaving of the threads loses a name before *)
(* finished_requests is set, copies it or writes it twice.                 *)
(***************************************************************************)

Slots     == 0 .. MAX_RESOLVER_THREADS - 1
Addresses == Name \cup {NoIp}

Carrying   == {"lock", "full", "push"}
Carries(i) == request[i] \in Carrying
Carried(i) == <<i, nread[i]>>

WasRead(n) == n[2] <= nread[n[1]]

\* What a request thread has read of its file at each point.
ReadsCounted ==
    \A i \in RequestThreads :
        /\ request[i] \in {"unborn", "failed", "open"} => nread[i] = 0
        /\ request[i] = "done" => nread[i] \in {0, FileLength[i]}

\* A resolver holds a name between its pop and its line only.
HandsEmpty ==
    \A j \in ResolverThreads :
        resolver[j] \notin {"lookup", "lockOutput", "print"} =>
            hostname[j] = NULL

\* main() returns when the threads have ended.
AllGoneAtExit ==
    process = "exited" =>
        /\ \A i \in RequestThreads : request[i] \in {"done", "failed"}
        /\ \A j \in ResolverThreads : resolver[j] \in {"done", "failed"}

\* Nothing but what was read is anywhere.
OnlyReadNames ==
    /\ \A s \in Slots : q.array[s] # NULL => WasRead(q.array[s])
    /\ \A j \in ResolverThreads : hostname[j] # NULL => WasRead(hostname[j])
    /\ \A n \in Name, ip \in Addresses : output[<<n, ip>>] > 0 => WasRead(n)

\* No name is in two places of one kind ...
NoCopy ==
    /\ \A s, t \in Slots : q.array[s] # NULL /\ q.array[s] = q.array[t] => s = t
    /\ \A j, k \in ResolverThreads :
          hostname[j] # NULL /\ hostname[j] = hostname[k] => j = k
    /\ \A n \in Name, ip, jp \in Addresses :
          /\ output[<<n, ip>>] <= 1
          /\ output[<<n, ip>>] > 0 /\ output[<<n, jp>>] > 0 => ip = jp

\* ... nor in places of two kinds.
NoOverlap ==
    /\ \A i \in RequestThreads : Carries(i) =>
          /\ \A s \in Slots : q.array[s] # Carried(i)
          /\ \A j \in ResolverThreads : hostname[j] # Carried(i)
          /\ \A ip \in Addresses : output[<<Carried(i), ip>>] = 0
    /\ \A s \in Slots : q.array[s] # NULL =>
          /\ \A j \in ResolverThreads : hostname[j] # q.array[s]
          /\ \A ip \in Addresses : output[<<q.array[s], ip>>] = 0
    /\ \A j \in ResolverThreads : hostname[j] # NULL =>
          \A ip \in Addresses : output[<<hostname[j], ip>>] = 0

\* What was read is somewhere.
Somewhere ==
    \A n \in Name : WasRead(n) =>
        \/ Carries(n[1]) /\ Carried(n[1]) = n
        \/ \E s \in Slots : q.array[s] = n
        \/ \E j \in ResolverThreads : hostname[j] = n
        \/ \E ip \in Addresses : output[<<n, ip>>] > 0

NamesInv == /\ ReadsCounted /\ HandsEmpty /\ AllGoneAtExit
            /\ OnlyReadNames /\ NoCopy /\ NoOverlap /\ Somewhere

(***************************************************************************)
(* Facts about names.                                                      *)
(***************************************************************************)

\* A name is a file and a position in it.
LEMMA NameParts ==
    ASSUME NEW n \in Name
    PROVE  /\ n[1] \in RequestThreads /\ n[2] \in 1 .. FileLength[n[1]]
           /\ n = <<n[1], n[2]>> /\ n[2] \in Nat /\ n # NULL
<1>1. PICK i \in RequestThreads : n \in {<<i, k>> : k \in 1 .. FileLength[i]}
  BY DEF Name
<1>2. PICK k \in 1 .. FileLength[i] : n = <<i, k>>
  BY <1>1
<1> QED
  BY <1>1, <1>2, Constants, NullAssumption

\* The types of what holds names.
LEMMA HoldersTypes ==
    TypeInv =>
        /\ q.array \in [Slots -> Name \cup {NULL}]
        /\ q.front \in Slots /\ q.rear \in Slots
        /\ q.maxSize = MAX_RESOLVER_THREADS
        /\ hostname \in [ResolverThreads -> Name \cup {NULL}]
        /\ ipstr \in [ResolverThreads -> Addresses]
        /\ \A n \in Name \cup {NULL}, ip \in Addresses :
               <<n, ip>> \in Line /\ output[<<n, ip>>] \in Nat
        /\ output \in [Line -> Nat]
        /\ nread \in [RequestThreads -> Nat]
        /\ \A i \in RequestThreads : nread[i] \in 0 .. FileLength[i]
        /\ request \in [RequestThreads -> {"unborn", "failed", "open", "read",
                                           "lock", "full", "push", "done"}]
        /\ \A i \in RequestThreads : Carries(i) => Carried(i) \in Name
<1> SUFFICES ASSUME TypeInv
    PROVE /\ q.array \in [Slots -> Name \cup {NULL}]
          /\ q.front \in Slots /\ q.rear \in Slots
          /\ q.maxSize = MAX_RESOLVER_THREADS
          /\ \A n \in Name \cup {NULL}, ip \in Addresses :
                 <<n, ip>> \in Line /\ output[<<n, ip>>] \in Nat
          /\ \A i \in RequestThreads : Carries(i) => Carried(i) \in Name
  BY DEF TypeInv, TypeOK, Addresses
<1>1. /\ q.array \in [Slots -> Name \cup {NULL}]
      /\ q.front \in Slots /\ q.rear \in Slots
      /\ q.maxSize = MAX_RESOLVER_THREADS
  BY DEF TypeInv, TypeOK, QueueType, Slots
<1>2. \A n \in Name \cup {NULL}, ip \in Addresses : <<n, ip>> \in Line
  BY DEF Line, Addresses
<1>3. output \in [Line -> Nat]
  BY DEF TypeInv, TypeOK
<1>4. ASSUME NEW i \in RequestThreads, Carries(i) PROVE Carried(i) \in Name
  <2>1. nread[i] \in 1 .. FileLength[i]
    BY <1>4, Constants
       DEF TypeInv, TypeOK, NameInHand, Carries, Carrying
  <2> QED
    BY <2>1, HeldName DEF Carried
<1> QED
  BY <1>1, <1>2, <1>3, <1>4

(***************************************************************************)
(* Most steps leave the names where they are.                              *)
(***************************************************************************)

\* A step that moves no name.
Quiet == /\ UNCHANGED <<nread, hostname, q, output>>
         /\ \A i \in RequestThreads : Carries(i)' <=> Carries(i)

\* Only a read, a push, a pop and a write of a line move a name.
LEMMA QuietSteps ==
    ASSUME TypeInv, MainPhase, [Next]_vars
    PROVE  \/ Quiet
           \/ \E i \in RequestThreads : ReadName(i) \/ PushName(i)
           \/ \E j \in ResolverThreads : PopName(j) \/ PrintLine(j)
<1>a. request \in [RequestThreads -> {"unborn", "failed", "open", "read",
                                      "lock", "full", "push", "done"}]
  BY DEF TypeInv, TypeOK
<1> USE DEF Quiet, Carries, Carrying, MainAt, RequestAt, ResolverAt, mainVars,
   requestVars, resolverVars, queueVars, locks
<1>1. ASSUME CheckArguments PROVE Quiet
  BY <1>1, <1>a DEF CheckArguments
<1>2. ASSUME OpenOutput PROVE Quiet
  BY <1>2, <1>a DEF OpenOutput
<1>3. ASSUME InitQueue PROVE Quiet
  BY <1>3, <1>a DEF InitQueue
<1>4. ASSUME CreateRequest PROVE Quiet
  <2>1. /\ request[idx] = "unborn" /\ idx \in RequestThreads
        /\ \/ request' = [request EXCEPT ![idx] = "open"]
           \/ request' = [request EXCEPT ![idx] = "failed"]
        /\ UNCHANGED <<nread, hostname, q, output>>
    BY <1>4, Constants DEF CreateRequest, MainPhase, RequestThreads
  <2> QED
    BY <2>1, <1>a
<1>5. ASSUME CreateResolver PROVE Quiet
  BY <1>5, <1>a DEF CreateResolver
<1>6. ASSUME JoinRequest PROVE Quiet
  BY <1>6, <1>a DEF JoinRequest, Join, NextTurn
<1>7. ASSUME LockFinished PROVE Quiet
  BY <1>7, <1>a DEF LockFinished
<1>8. ASSUME SetFinished PROVE Quiet
  BY <1>8, <1>a DEF SetFinished
<1>9. ASSUME JoinResolver PROVE Quiet
  BY <1>9, <1>a DEF JoinResolver, Join, NextTurn
<1>10. ASSUME CloseOutput PROVE Quiet
  BY <1>10, <1>a DEF CloseOutput
<1>11. ASSUME NEW i \in RequestThreads, OpenNames(i) PROVE Quiet
  BY <1>11, <1>a DEF OpenNames
<1>12. ASSUME NEW i \in RequestThreads, LockQueue(i) PROVE Quiet
  BY <1>12, <1>a DEF LockQueue
<1>13. ASSUME NEW i \in RequestThreads, TestFull(i) PROVE Quiet
  BY <1>13, <1>a DEF TestFull
<1>14. ASSUME NEW i \in RequestThreads, RequestCrash(i) PROVE Quiet
  BY <1>14, <1>a DEF RequestCrash
<1>15. ASSUME NEW j \in ResolverThreads, LockFinishedFirst(j) PROVE Quiet
  BY <1>15, <1>a DEF LockFinishedFirst
<1>16. ASSUME NEW j \in ResolverThreads, LockQueueSecond(j) PROVE Quiet
  BY <1>16, <1>a DEF LockQueueSecond
<1>17. ASSUME NEW j \in ResolverThreads, RelockFinished(j) PROVE Quiet
  BY <1>17, <1>a DEF RelockFinished
<1>18. ASSUME NEW j \in ResolverThreads, LockOutput(j) PROVE Quiet
  BY <1>18, <1>a DEF LockOutput
<1>19. ASSUME NEW j \in ResolverThreads, TestFinished(j) PROVE Quiet
  BY <1>19, <1>a DEF TestFinished
<1>20. ASSUME NEW j \in ResolverThreads, TestEmpty(j) PROVE Quiet
  BY <1>20, <1>a DEF TestEmpty
<1>21. ASSUME NEW j \in ResolverThreads, UnlockQueue(j) PROVE Quiet
  BY <1>21, <1>a DEF UnlockQueue
<1>22. ASSUME NEW j \in ResolverThreads, Lookup(j) PROVE Quiet
  BY <1>22, <1>a DEF Lookup
<1>23. ASSUME NEW j \in ResolverThreads, ResolverCrash(j) PROVE Quiet
  BY <1>23, <1>a DEF ResolverCrash
<1>24. ASSUME UNCHANGED vars PROVE Quiet
  BY <1>24 DEF vars
<1> HIDE DEF Quiet
<1> QED
  BY <1>1, <1>2, <1>3, <1>4, <1>5, <1>6, <1>7, <1>8, <1>9, <1>10, <1>11,
     <1>12, <1>13, <1>14, <1>15, <1>16, <1>17, <1>18, <1>19, <1>20, <1>21,
     <1>22, <1>23, <1>24
     DEF Next, MainStep, RequestStep, ResolverStep, ResolverLock, Ended

(***************************************************************************)
(* The steps that move a name.                                             *)
(***************************************************************************)

\* What every lemma below starts from.
Before == /\ TypeInv /\ MainPhase /\ RingShape(q) /\ TestsValid
          /\ NamesInv

\* A request thread takes up the next name of its file.
ReadMove(i) ==
    /\ UNCHANGED <<hostname, q, output>>
    /\ ~Carries(i) /\ Carries(i)'
    /\ nread[i] < FileLength[i] /\ nread'[i] = nread[i] + 1
    /\ \A r \in RequestThreads \ {i} :
           (Carries(r)' <=> Carries(r)) /\ nread'[r] = nread[r]

\* It puts the name in a free slot.
PushMove(i, f) ==
    /\ UNCHANGED <<hostname, nread, output>>
    /\ Carries(i)
    /\ \A r \in RequestThreads : Carries(r)' <=> Carries(r) /\ r # i
    /\ q.array[f] = NULL
    /\ \A s \in Slots :
           q'.array[s] = IF s = f THEN Carried(i) ELSE q.array[s]

\* A resolver takes it from its slot into an empty hand.
PopMove(j, f) ==
    /\ UNCHANGED <<nread, output>>
    /\ \A r \in RequestThreads : Carries(r)' <=> Carries(r)
    /\ hostname[j] = NULL /\ q.array[f] # NULL
    /\ \A s \in Slots : q'.array[s] = IF s = f THEN NULL ELSE q.array[s]
    /\ \A k \in ResolverThreads :
           hostname'[k] = IF k = j THEN q.array[f] ELSE hostname[k]

\* It leaves the hand for a line.
PrintMove(j, a) ==
    /\ UNCHANGED <<nread, q>>
    /\ \A r \in RequestThreads : Carries(r)' <=> Carries(r)
    /\ \A k \in ResolverThreads :
           hostname'[k] = IF k = j THEN NULL ELSE hostname[k]
    /\ \A n \in Name, ip \in Addresses :
           output'[<<n, ip>>] = IF n = hostname[j] /\ ip = a
                                THEN output[<<n, ip>>] + 1
                                ELSE output[<<n, ip>>]

\* A read finds a name, or the end of the file.
LEMMA ReadMoves ==
    ASSUME Before, NEW i \in RequestThreads, ReadName(i)
    PROVE  Quiet \/ ReadMove(i)
<1>1. /\ request \in [RequestThreads -> {"unborn", "failed", "open", "read",
                                         "lock", "full", "push", "done"}]
      /\ nread \in [RequestThreads -> Nat]
  BY HoldersTypes DEF Before
<1> QED
  BY <1>1 DEF ReadName, RequestAt, Carries, Carrying, resolverVars, queueVars,
     Quiet, ReadMove

\* The slot under rear is free when a name is pushed.
LEMMA PushMoves ==
    ASSUME Before, NEW i \in RequestThreads, PushName(i)
    PROVE  \E f \in Slots : PushMove(i, f)
<1>1. /\ request \in [RequestThreads -> {"unborn", "failed", "open", "read",
                                         "lock", "full", "push", "done"}]
      /\ q.array \in [Slots -> Name \cup {NULL}]
      /\ q.front \in Slots /\ q.rear \in Slots
  BY HoldersTypes DEF Before
<1>2. q \in QueueType(Name, MAX_RESOLVER_THREADS)
  BY DEF Before, TypeInv, TypeOK
<1>3. ~queue_is_full(q) /\ request[i] = "push"
  BY DEF Before, PushName, RequestAt, TestsValid, PushNeverRefused, PushStatus,
         QUEUE_SUCCESS, QUEUE_FAILURE
<1>4. q'.array = [q.array EXCEPT ![q.rear] = Carried(i)]
  BY <1>2, <1>3, PushFields, Constants DEF PushName, Carried
<1>5. q.array[q.rear] = NULL
  <2>1. CASE q.front = q.rear
    BY <1>3, <2>1 DEF queue_is_full
  <2>2. CASE q.front # q.rear
    <3>1. q.array[q.rear] # NULL <=> InUse(q, q.rear)
      BY <1>1, <2>2 DEF Before, RingShape
    <3>2. q.front \in Int /\ q.rear \in Int
      BY <1>1, Constants DEF Slots
    <3>3. ~InUse(q, q.rear)
      BY <2>2, <3>2 DEF InUse
    <3> QED
      BY <3>1, <3>3
  <2> QED
    BY <2>1, <2>2
<1>6. \A r \in RequestThreads : Carries(r)' <=> Carries(r) /\ r # i
  BY <1>1, <1>3 DEF PushName, Carries, Carrying
<1>7. Carries(i) /\ UNCHANGED <<hostname, nread, output>>
  BY <1>3 DEF PushName, Carries, Carrying, resolverVars
<1>8. PushMove(i, q.rear)
  BY <1>1, <1>4, <1>5, <1>6, <1>7 DEF PushMove
<1> QED
  BY <1>1, <1>8

\* A pop finds a name, or nothing.
LEMMA PopMoves ==
    ASSUME Before, NEW j \in ResolverThreads, PopName(j)
    PROVE  Quiet \/ \E f \in Slots : PopMove(j, f)
<1>1. /\ hostname \in [ResolverThreads -> Name \cup {NULL}]
      /\ q \in QueueType(Name, MAX_RESOLVER_THREADS)
  BY DEF Before, TypeInv, TypeOK
<1>2. hostname[j] = NULL /\ UNCHANGED <<nread, request, output>>
  BY DEF Before, NamesInv, HandsEmpty, PopName, ResolverAt, requestVars
<1>3. \A r \in RequestThreads : Carries(r)' <=> Carries(r)
  BY <1>2 DEF Carries
<1>4. CASE queue_is_empty(q)
  BY <1>1, <1>2, <1>3, <1>4 DEF PopName, Popped, queue_pop, Quiet
<1>5. CASE ~queue_is_empty(q)
  <2>1. /\ queue_pop(q).array = [q.array EXCEPT ![q.front] = NULL]
        /\ Popped(q) = q.array[q.front]
    <3>1. queue_pop(q) =
              [q EXCEPT !.array = [q.array EXCEPT ![q.front] = NULL],
                        !.front = (q.front + 1) % q.maxSize]
      BY <1>5 DEF queue_pop
    <3> QED
      BY <1>1, <1>5, <3>1 DEF QueueType, Popped
  <2>2. Popped(q) # NULL
    BY <1>1, <1>5, PopShape, Constants, NullAssumption DEF Before
  <2>3. q.array \in [Slots -> Name \cup {NULL}] /\ q.front \in Slots
    BY HoldersTypes DEF Before
  <2>4. PopMove(j, q.front)
    BY <1>1, <1>2, <1>3, <2>1, <2>2, <2>3 DEF PopName, PopMove
  <2> QED
    BY <2>3, <2>4
<1> QED
  BY <1>4, <1>5

\* A line is counted for the name and the address its resolver has.
LEMMA PrintMoves ==
    ASSUME Before, NEW j \in ResolverThreads, PrintLine(j)
    PROVE  \E a \in Addresses : PrintMove(j, a)
<1>1. /\ hostname \in [ResolverThreads -> Name \cup {NULL}]
      /\ ipstr \in [ResolverThreads -> Addresses]
      /\ output \in [Line -> Nat]
      /\ \A n \in Name \cup {NULL}, ip \in Addresses : <<n, ip>> \in Line
  BY HoldersTypes DEF Before
<1>2. /\ UNCHANGED <<nread, request, q>>
      /\ hostname' = [hostname EXCEPT ![j] = NULL]
      /\ output' = [output EXCEPT ![<<hostname[j], ipstr[j]>>] = @ + 1]
  BY DEF PrintLine, requestVars, queueVars
<1>3. <<hostname[j], ipstr[j]>> \in Line
  BY <1>1
<1>4. ASSUME NEW n \in Name, NEW ip \in Addresses
      PROVE  output'[<<n, ip>>] = IF n = hostname[j] /\ ip = ipstr[j]
                                  THEN output[<<n, ip>>] + 1
                                  ELSE output[<<n, ip>>]
  <2>1. <<n, ip>> \in Line
    BY <1>1
  <2>2. <<n, ip>> = <<hostname[j], ipstr[j]>>
          <=> n = hostname[j] /\ ip = ipstr[j]
    OBVIOUS
  <2> QED
    BY <1>1, <1>2, <1>3, <2>1, <2>2
<1>5. \A r \in RequestThreads : Carries(r)' <=> Carries(r)
  BY <1>2 DEF Carries
<1>6. PrintMove(j, ipstr[j])
  BY <1>1, <1>2, <1>4, <1>5 DEF PrintMove
<1> QED
  BY <1>1, <1>6

\* How names move.
LEMMA Moves ==
    ASSUME Before, [Next]_vars
    PROVE  \/ Quiet
           \/ \E i \in RequestThreads : ReadMove(i)
           \/ \E i \in RequestThreads, f \in Slots : PushMove(i, f)
           \/ \E j \in ResolverThreads, f \in Slots : PopMove(j, f)
           \/ \E j \in ResolverThreads, a \in Addresses : PrintMove(j, a)
<1>1. TypeInv /\ MainPhase
  BY DEF Before
<1> QED
  BY <1>1, QuietSteps, ReadMoves, PushMoves, PopMoves, PrintMoves

(***************************************************************************)
(* The program counters keep their meaning.                                *)
(***************************************************************************)

\* The counts of the request threads are right.
LEMMA CountedStep ==
    ASSUME Before, [Next]_vars
    PROVE  ReadsCounted'
<1>a. ReadsCounted /\ MainPhase
  BY DEF Before, NamesInv
<1>b. /\ request \in [RequestThreads -> {"unborn", "failed", "open", "read",
                                         "lock", "full", "push", "done"}]
      /\ nread \in [RequestThreads -> Nat]
  BY HoldersTypes DEF Before
<1> USE DEF ReadsCounted, RequestAt, requestVars
<1>1. CASE UNCHANGED <<request, nread>>
  BY <1>1, <1>a
<1>2. ASSUME CreateRequest PROVE ReadsCounted'
  <2>1. /\ request[idx] = "unborn" /\ idx \in RequestThreads
        /\ \/ request' = [request EXCEPT ![idx] = "open"]
           \/ request' = [request EXCEPT ![idx] = "failed"]
        /\ nread' = nread
    BY <1>2, <1>a, Constants
       DEF CreateRequest, MainPhase, MainAt, RequestThreads
  <2> QED
    BY <2>1, <1>a, <1>b
<1>3. ASSUME NEW i \in RequestThreads, RequestStep(i) PROVE ReadsCounted'
  <2>1. CASE OpenNames(i)
    BY <2>1, <1>a, <1>b DEF OpenNames
  <2>2. CASE ReadName(i)
    BY <2>2, <1>a, <1>b DEF ReadName
  <2>3. CASE LockQueue(i)
    BY <2>3, <1>a, <1>b DEF LockQueue
  <2>4. CASE TestFull(i)
    BY <2>4, <1>a, <1>b DEF TestFull
  <2>5. CASE PushName(i)
    BY <2>5, <1>a, <1>b DEF PushName
  <2>6. CASE RequestCrash(i)
    BY <2>6, <1>a, <1>b DEF RequestCrash
  <2> QED
    BY <1>3, <2>1, <2>2, <2>3, <2>4, <2>5, <2>6 DEF RequestStep
<1>4. CheckArguments \/ OpenOutput \/ InitQueue \/ CreateResolver \/ JoinRequest
      \/ LockFinished \/ SetFinished \/ JoinResolver \/ CloseOutput
      => UNCHANGED <<request, nread>>
  BY DEF CheckArguments, OpenOutput, InitQueue, CreateResolver, JoinRequest,
     LockFinished, SetFinished, JoinResolver, CloseOutput
<1>5. ASSUME NEW j \in ResolverThreads, ResolverStep(j)
      PROVE  UNCHANGED <<request, nread>>
  BY <1>5 DEF ResolverStep, ResolverLock, LockFinishedFirst, LockQueueSecond,
     RelockFinished, LockOutput, TestFinished, TestEmpty, UnlockQueue, PopName,
     Lookup, PrintLine, ResolverCrash
<1>6. UNCHANGED vars => UNCHANGED <<request, nread>>
  BY DEF vars
<1> QED
  BY <1>1, <1>2, <1>3, <1>4, <1>5, <1>6 DEF Next, MainStep, Ended

\* Hands are empty outside of a lookup and its line.
LEMMA HandsStep ==
    ASSUME Before, [Next]_vars
    PROVE  HandsEmpty'
<1>a. HandsEmpty /\ MainPhase
  BY DEF Before, NamesInv
<1>b. /\ resolver \in [ResolverThreads ->
                        {"unborn", "failed", "lockFinished", "while", "lockQ",
                         "empty", "unlockQ", "relockFinished", "relockQ",
                         "pop", "lookup", "lockOutput", "print", "done"}]
      /\ hostname \in [ResolverThreads -> Name \cup {NULL}]
  BY DEF Before, TypeInv, TypeOK
<1> USE DEF HandsEmpty, ResolverAt, resolverVars
<1>1. CASE UNCHANGED <<resolver, hostname>>
  BY <1>1, <1>a
<1>2. ASSUME CreateResolver PROVE HandsEmpty'
  <2>1. /\ resolver[idx] = "unborn" /\ idx \in ResolverThreads
        /\ \/ resolver' = [resolver EXCEPT ![idx] = "lockFinished"]
           \/ resolver' = [resolver EXCEPT ![idx] = "failed"]
        /\ hostname' = hostname
    BY <1>2, <1>a, Constants
       DEF CreateResolver, MainPhase, MainAt, ResolverThreads
  <2> QED
    BY <2>1, <1>a, <1>b
<1>3. ASSUME NEW j \in ResolverThreads, ResolverStep(j) PROVE HandsEmpty'
  <2>1. CASE LockFinishedFirst(j)
    BY <2>1, <1>a, <1>b DEF LockFinishedFirst
  <2>2. CASE LockQueueSecond(j)
    BY <2>2, <1>a, <1>b DEF LockQueueSecond
  <2>3. CASE RelockFinished(j)
    BY <2>3, <1>a, <1>b DEF RelockFinished
  <2>4. CASE LockOutput(j)
    BY <2>4, <1>a, <1>b DEF LockOutput
  <2>5. CASE TestFinished(j)
    BY <2>5, <1>a, <1>b DEF TestFinished
  <2>6. CASE TestEmpty(j)
    BY <2>6, <1>a, <1>b DEF TestEmpty
  <2>7. CASE UnlockQueue(j)
    BY <2>7, <1>a, <1>b DEF UnlockQueue
  <2>8. CASE PopName(j)
    BY <2>8, <1>a, <1>b DEF PopName
  <2>9. CASE Lookup(j)
    BY <2>9, <1>a, <1>b DEF Lookup
  <2>10. CASE PrintLine(j)
    BY <2>10, <1>a, <1>b DEF PrintLine
  <2>11. CASE ResolverCrash(j)
    BY <2>11, <1>a, <1>b DEF ResolverCrash
  <2> QED
    BY <1>3, <2>1, <2>2, <2>3, <2>4, <2>5, <2>6, <2>7, <2>8, <2>9, <2>10,
       <2>11 DEF ResolverStep, ResolverLock
<1>4. CheckArguments \/ OpenOutput \/ InitQueue \/ CreateRequest \/ JoinRequest
      \/ LockFinished \/ SetFinished \/ JoinResolver \/ CloseOutput
      => UNCHANGED <<resolver, hostname>>
  BY DEF CheckArguments, OpenOutput, InitQueue, CreateRequest, JoinRequest,
     LockFinished, SetFinished, JoinResolver, CloseOutput
<1>5. ASSUME NEW i \in RequestThreads, RequestStep(i)
      PROVE  UNCHANGED <<resolver, hostname>>
  BY <1>5 DEF RequestStep, OpenNames, ReadName, LockQueue, TestFull, PushName,
     RequestCrash
<1>6. UNCHANGED vars => UNCHANGED <<resolver, hostname>>
  BY DEF vars
<1> QED
  BY <1>1, <1>2, <1>3, <1>4, <1>5, <1>6 DEF Next, MainStep, Ended

\* The process exits when its threads have ended, and then nothing moves.
LEMMA GoneStep ==
    ASSUME Before, [Next]_vars
    PROVE  AllGoneAtExit'
<1>a. AllGoneAtExit /\ MainPhase
  BY DEF Before, NamesInv
<1> USE DEF AllGoneAtExit, MainAt, RequestAt, ResolverAt, requestVars,
   resolverVars
<1>1. CASE process = "exited"
  <2>1. UNCHANGED <<process, request, resolver>>
    BY <1>1 DEF Next, MainStep, CheckArguments, OpenOutput, InitQueue,
       CreateRequest, CreateResolver, JoinRequest, LockFinished, SetFinished,
       JoinResolver, CloseOutput, RequestStep, OpenNames, ReadName, LockQueue,
       TestFull, PushName, RequestCrash, ResolverStep, ResolverLock,
       LockFinishedFirst, LockQueueSecond, RelockFinished, LockOutput,
       TestFinished, TestEmpty, UnlockQueue, PopName, Lookup, PrintLine,
       ResolverCrash, Ended, vars
  <2> QED
    BY <2>1, <1>a
<1>2. CASE CloseOutput
  BY <1>2, <1>a DEF CloseOutput, MainPhase
<1>3. CASE process # "exited" /\ ~CloseOutput
  <2>1. process' # "exited"
    BY <1>3 DEF Next, MainStep, CheckArguments, OpenOutput, InitQueue,
       CreateRequest, CreateResolver, JoinRequest, LockFinished, SetFinished,
       JoinResolver, Join, RequestStep, OpenNames, ReadName, LockQueue,
       TestFull, PushName, RequestCrash, ResolverStep, ResolverLock,
       LockFinishedFirst, LockQueueSecond, RelockFinished, LockOutput,
       TestFinished, TestEmpty, UnlockQueue, PopName, Lookup, PrintLine,
       ResolverCrash, Ended, vars, mainVars
  <2> QED
    BY <2>1
<1> QED
  BY <1>1, <1>2, <1>3

(***************************************************************************)
(* The names.                                                              *)
(***************************************************************************)

\* Nothing that was not read comes to be anywhere.
LEMMA OnlyReadStep ==
    ASSUME Before, [Next]_vars
    PROVE  OnlyReadNames'
<1>a. /\ hostname \in [ResolverThreads -> Name \cup {NULL}]
      /\ q.array \in [Slots -> Name \cup {NULL}]
      /\ \A i \in RequestThreads : Carries(i) => Carried(i) \in Name
  BY HoldersTypes DEF Before
<1>b. \A n \in Name : n[1] \in RequestThreads /\ n[2] \in Nat /\ n # NULL
  BY NameParts
<1>c. \A n \in Name \cup {NULL}, ip \in Addresses : output[<<n, ip>>] \in Nat
  BY HoldersTypes DEF Before
<1>d. nread \in [RequestThreads -> Nat]
  BY HoldersTypes DEF Before
<1>e. OnlyReadNames /\ NoCopy /\ NoOverlap /\ Somewhere
  BY DEF Before, NamesInv
<1>1. CASE Quiet
  BY <1>1, <1>e DEF Quiet, WasRead, OnlyReadNames
<1>2. ASSUME NEW i \in RequestThreads, ReadMove(i) PROVE OnlyReadNames'
  <2>1. \A r \in RequestThreads : nread'[r] \in Nat /\ nread[r] <= nread'[r]
    BY <1>2, <1>d DEF ReadMove
  <2>2. \A n \in Name : WasRead(n) => WasRead(n)'
    BY <2>1, <1>b, <1>d DEF WasRead
  <2> QED
    BY <1>2, <2>2, <1>a, <1>e DEF ReadMove, OnlyReadNames
<1>3. ASSUME NEW i \in RequestThreads, NEW f \in Slots, PushMove(i, f)
      PROVE  OnlyReadNames'
  <2>1. \A n \in Name : WasRead(n)' <=> WasRead(n)
    BY <1>3 DEF PushMove, WasRead
  <2>2. Carried(i) \in Name /\ WasRead(Carried(i))
    BY <1>3, <1>a, <1>d DEF PushMove, WasRead, Carried
  <2> QED
    BY <1>3, <2>1, <2>2, <1>a, <1>e DEF PushMove, OnlyReadNames
<1>4. ASSUME NEW j \in ResolverThreads, NEW f \in Slots, PopMove(j, f)
      PROVE  OnlyReadNames'
  <2>1. \A n \in Name : WasRead(n)' <=> WasRead(n)
    BY <1>4 DEF PopMove, WasRead
  <2> QED
    BY <1>4, <2>1, <1>a, <1>e DEF PopMove, OnlyReadNames
<1>5. ASSUME NEW j \in ResolverThreads, NEW a \in Addresses, PrintMove(j, a)
      PROVE  OnlyReadNames'
  <2>1. \A n \in Name : WasRead(n)' <=> WasRead(n)
    BY <1>5 DEF PrintMove, WasRead
  <2> QED
    BY <1>5, <2>1, <1>a, <1>b, <1>c, <1>e DEF PrintMove, OnlyReadNames
<1> QED
  BY <1>1, <1>2, <1>3, <1>4, <1>5, Moves

\* No name comes to be twice in places of one kind.
LEMMA NoCopyStep ==
    ASSUME Before, [Next]_vars
    PROVE  NoCopy'
<1>a. /\ hostname \in [ResolverThreads -> Name \cup {NULL}]
      /\ q.array \in [Slots -> Name \cup {NULL}]
      /\ \A i \in RequestThreads : Carries(i) => Carried(i) \in Name
  BY HoldersTypes DEF Before
<1>b. \A n \in Name : n[1] \in RequestThreads /\ n[2] \in Nat /\ n # NULL
  BY NameParts
<1>c. \A n \in Name \cup {NULL}, ip \in Addresses : output[<<n, ip>>] \in Nat
  BY HoldersTypes DEF Before
<1>d. nread \in [RequestThreads -> Nat]
  BY HoldersTypes DEF Before
<1>e. OnlyReadNames /\ NoCopy /\ NoOverlap /\ Somewhere
  BY DEF Before, NamesInv
<1>1. CASE Quiet
  BY <1>1, <1>e DEF Quiet, NoCopy
<1>2. ASSUME NEW i \in RequestThreads, ReadMove(i) PROVE NoCopy'
  BY <1>2, <1>e DEF ReadMove, NoCopy
<1>3. ASSUME NEW i \in RequestThreads, NEW f \in Slots, PushMove(i, f)
      PROVE  NoCopy'
  BY <1>3, <1>a, <1>e DEF PushMove, NoOverlap, NoCopy
<1>4. ASSUME NEW j \in ResolverThreads, NEW f \in Slots, PopMove(j, f)
      PROVE  NoCopy'
  BY <1>4, <1>a, <1>e DEF PopMove, NoOverlap, NoCopy
<1>5. ASSUME NEW j \in ResolverThreads, NEW a \in Addresses, PrintMove(j, a)
      PROVE  NoCopy'
  <2>1. hostname[j] # NULL =>
            \A ip \in Addresses : output[<<hostname[j], ip>>] = 0
    BY <1>e DEF NoOverlap
  <2>2. ASSUME NEW n \in Name, NEW ip \in Addresses, NEW jp \in Addresses
        PROVE  /\ output'[<<n, ip>>] <= 1
               /\ output'[<<n, ip>>] > 0 /\ output'[<<n, jp>>] > 0 => ip = jp
    BY <1>5, <2>1, <1>b, <1>c, <1>e DEF PrintMove, NoCopy
  <2> QED
    BY <1>5, <2>2, <1>a, <1>e DEF PrintMove, NoCopy
<1> QED
  BY <1>1, <1>2, <1>3, <1>4, <1>5, Moves

\* No name comes to be in places of two kinds.
LEMMA NoOverlapStep ==
    ASSUME Before, [Next]_vars
    PROVE  NoOverlap'
<1>a. /\ hostname \in [ResolverThreads -> Name \cup {NULL}]
      /\ q.array \in [Slots -> Name \cup {NULL}]
      /\ \A i \in RequestThreads : Carries(i) => Carried(i) \in Name
  BY HoldersTypes DEF Before
<1>b. \A n \in Name : n[1] \in RequestThreads /\ n[2] \in Nat /\ n # NULL
  BY NameParts
<1>c. \A n \in Name \cup {NULL}, ip \in Addresses : output[<<n, ip>>] \in Nat
  BY HoldersTypes DEF Before
<1>d. nread \in [RequestThreads -> Nat]
  BY HoldersTypes DEF Before
<1>e. OnlyReadNames /\ NoCopy /\ NoOverlap /\ Somewhere
  BY DEF Before, NamesInv
<1>1. CASE Quiet
  BY <1>1, <1>e DEF Quiet, Carried, NoOverlap
<1>2. ASSUME NEW i \in RequestThreads, ReadMove(i) PROVE NoOverlap'
  <2>1. \A r \in RequestThreads \ {i} : Carried(r)' = Carried(r)
    BY <1>2 DEF ReadMove, Carried
  <2>2. Carried(i)' \in Name
    <3>1. nread[i] + 1 \in 1 .. FileLength[i]
      BY <1>2, <1>d, Constants DEF ReadMove
    <3> QED
      BY <1>2, <3>1, HeldName DEF ReadMove, Carried
  <2>2a. ~WasRead(Carried(i)')
    BY <1>2, <1>d DEF ReadMove, WasRead, Carried
  <2>3. ASSUME NEW r \in RequestThreads, Carries(r)'
        PROVE  /\ \A s \in Slots : q'.array[s] # Carried(r)'
               /\ \A k \in ResolverThreads : hostname'[k] # Carried(r)'
               /\ \A ip \in Addresses : output'[<<Carried(r)', ip>>] = 0
    BY <2>1, <2>2, <2>2a, <2>3, <1>2, <1>a, <1>b, <1>c, <1>e
       DEF ReadMove, NoOverlap, NoCopy, OnlyReadNames
  <2>4. ASSUME NEW s \in Slots, q'.array[s] # NULL
        PROVE  /\ \A k \in ResolverThreads : hostname'[k] # q'.array[s]
               /\ \A ip \in Addresses : output'[<<q'.array[s], ip>>] = 0
    BY <2>1, <2>2, <2>4, <1>2, <1>a, <1>b, <1>c, <1>e
       DEF ReadMove, NoOverlap, NoCopy, OnlyReadNames
  <2>5. ASSUME NEW k \in ResolverThreads, hostname'[k] # NULL,
               NEW ip \in Addresses
        PROVE  output'[<<hostname'[k], ip>>] = 0
    BY <2>1, <2>2, <2>5, <1>2, <1>a, <1>b, <1>c, <1>e
       DEF ReadMove, NoOverlap, NoCopy, OnlyReadNames
  <2> QED
    BY <2>3, <2>4, <2>5 DEF NoOverlap
<1>3. ASSUME NEW i \in RequestThreads, NEW f \in Slots, PushMove(i, f)
      PROVE  NoOverlap'
  <2>1. \A r \in RequestThreads : Carried(r)' = Carried(r)
    BY <1>3 DEF PushMove, Carried
  <2>2. \A r \in RequestThreads : Carried(r) = Carried(i) => r = i
    BY DEF Carried
  <2>3. ASSUME NEW r \in RequestThreads, Carries(r)'
        PROVE  /\ \A s \in Slots : q'.array[s] # Carried(r)'
               /\ \A k \in ResolverThreads : hostname'[k] # Carried(r)'
               /\ \A ip \in Addresses : output'[<<Carried(r)', ip>>] = 0
    BY <2>1, <2>2, <2>3, <1>3, <1>a, <1>b, <1>c, <1>e
       DEF PushMove, NoOverlap, NoCopy, OnlyReadNames
  <2>4. ASSUME NEW s \in Slots, q'.array[s] # NULL
        PROVE  /\ \A k \in ResolverThreads : hostname'[k] # q'.array[s]
               /\ \A ip \in Addresses : output'[<<q'.array[s], ip>>] = 0
    BY <2>1, <2>2, <2>4, <1>3, <1>a, <1>b, <1>c, <1>e
       DEF PushMove, NoOverlap, NoCopy, OnlyReadNames
  <2>5. ASSUME NEW k \in ResolverThreads, hostname'[k] # NULL,
               NEW ip \in Addresses
        PROVE  output'[<<hostname'[k], ip>>] = 0
    BY <2>1, <2>2, <2>5, <1>3, <1>a, <1>b, <1>c, <1>e
       DEF PushMove, NoOverlap, NoCopy, OnlyReadNames
  <2> QED
    BY <2>3, <2>4, <2>5 DEF NoOverlap
<1>4. ASSUME NEW j \in ResolverThreads, NEW f \in Slots, PopMove(j, f)
      PROVE  NoOverlap'
  <2>1. \A r \in RequestThreads : Carried(r)' = Carried(r)
    BY <1>4 DEF PopMove, Carried
  <2>2. q.array[f] \in Name
    BY <1>4, <1>a DEF PopMove
  <2>3. ASSUME NEW r \in RequestThreads, Carries(r)'
        PROVE  /\ \A s \in Slots : q'.array[s] # Carried(r)'
               /\ \A k \in ResolverThreads : hostname'[k] # Carried(r)'
               /\ \A ip \in Addresses : output'[<<Carried(r)', ip>>] = 0
    BY <2>1, <2>2, <2>3, <1>4, <1>a, <1>b, <1>c, <1>e
       DEF PopMove, NoOverlap, NoCopy, OnlyReadNames
  <2>4. ASSUME NEW s \in Slots, q'.array[s] # NULL
        PROVE  /\ \A k \in ResolverThreads : hostname'[k] # q'.array[s]
               /\ \A ip \in Addresses : output'[<<q'.array[s], ip>>] = 0
    BY <2>1, <2>2, <2>4, <1>4, <1>a, <1>b, <1>c, <1>e
       DEF PopMove, NoOverlap, NoCopy, OnlyReadNames
  <2>5. ASSUME NEW k \in ResolverThreads, hostname'[k] # NULL,
               NEW ip \in Addresses
        PROVE  output'[<<hostname'[k], ip>>] = 0
    BY <2>1, <2>2, <2>5, <1>4, <1>a, <1>b, <1>c, <1>e
       DEF PopMove, NoOverlap, NoCopy, OnlyReadNames
  <2> QED
    BY <2>3, <2>4, <2>5 DEF NoOverlap
<1>5. ASSUME NEW j \in ResolverThreads, NEW a \in Addresses, PrintMove(j, a)
      PROVE  NoOverlap'
  <2>1. \A r \in RequestThreads : Carried(r)' = Carried(r)
    BY <1>5 DEF PrintMove, Carried
  <2>2. \A k \in ResolverThreads :
            hostname[k] # NULL /\ hostname[k] = hostname[j] => k = j
    BY <1>e DEF NoCopy
  <2>3. ASSUME NEW r \in RequestThreads, Carries(r)'
        PROVE  /\ \A s \in Slots : q'.array[s] # Carried(r)'
               /\ \A k \in ResolverThreads : hostname'[k] # Carried(r)'
               /\ \A ip \in Addresses : output'[<<Carried(r)', ip>>] = 0
    BY <2>1, <2>2, <2>3, <1>5, <1>a, <1>b, <1>c, <1>e
       DEF PrintMove, NoOverlap, NoCopy, OnlyReadNames
  <2>4. ASSUME NEW s \in Slots, q'.array[s] # NULL
        PROVE  /\ \A k \in ResolverThreads : hostname'[k] # q'.array[s]
               /\ \A ip \in Addresses : output'[<<q'.array[s], ip>>] = 0
    BY <2>1, <2>2, <2>4, <1>5, <1>a, <1>b, <1>c, <1>e
       DEF PrintMove, NoOverlap, NoCopy, OnlyReadNames
  <2>5. ASSUME NEW k \in ResolverThreads, hostname'[k] # NULL,
               NEW ip \in Addresses
        PROVE  output'[<<hostname'[k], ip>>] = 0
    BY <2>1, <2>2, <2>5, <1>5, <1>a, <1>b, <1>c, <1>e
       DEF PrintMove, NoOverlap, NoCopy, OnlyReadNames
  <2> QED
    BY <2>3, <2>4, <2>5 DEF NoOverlap
<1> QED
  BY <1>1, <1>2, <1>3, <1>4, <1>5, Moves

\* No name that was read is lost.
LEMMA SomewhereStep ==
    ASSUME Before, [Next]_vars
    PROVE  Somewhere'
<1>a. /\ hostname \in [ResolverThreads -> Name \cup {NULL}]
      /\ q.array \in [Slots -> Name \cup {NULL}]
      /\ \A i \in RequestThreads : Carries(i) => Carried(i) \in Name
  BY HoldersTypes DEF Before
<1>b. \A n \in Name : n[1] \in RequestThreads /\ n[2] \in Nat /\ n # NULL
  BY NameParts
<1>c. \A n \in Name \cup {NULL}, ip \in Addresses : output[<<n, ip>>] \in Nat
  BY HoldersTypes DEF Before
<1>d. nread \in [RequestThreads -> Nat]
  BY HoldersTypes DEF Before
<1>e. OnlyReadNames /\ NoCopy /\ NoOverlap /\ Somewhere
  BY DEF Before, NamesInv
<1>1. CASE Quiet
  <2>1. \A n \in Name : WasRead(n)' <=> WasRead(n)
    BY <1>1 DEF Quiet, WasRead
  <2>2. \A r \in RequestThreads : Carried(r)' = Carried(r)
    BY <1>1 DEF Quiet, Carried
  <2>3. ASSUME NEW n \in Name, WasRead(n)'
        PROVE  \/ Carries(n[1])' /\ Carried(n[1])' = n
               \/ \E s \in Slots : q'.array[s] = n
               \/ \E k \in ResolverThreads : hostname'[k] = n
               \/ \E ip \in Addresses : output'[<<n, ip>>] > 0
    BY <2>1, <2>2, <2>3, <1>1, <1>a, <1>b, <1>c, <1>e DEF Quiet, Somewhere
  <2> QED
    BY <2>3 DEF Somewhere
<1>2. ASSUME NEW i \in RequestThreads, ReadMove(i) PROVE Somewhere'
  <2>1. \A n \in Name : n[1] # i => /\ WasRead(n)' <=> WasRead(n)
                                   /\ Carried(n[1])' = Carried(n[1])
    BY <1>2, <1>b DEF ReadMove, WasRead, Carried
  <2>2. \A n \in Name :
            n[1] = i /\ WasRead(n)' => WasRead(n) \/ n = Carried(i)'
    BY <1>2, <1>b, <1>d, NameParts DEF ReadMove, WasRead, Carried
  <2>3. ASSUME NEW n \in Name, WasRead(n)'
        PROVE  \/ Carries(n[1])' /\ Carried(n[1])' = n
               \/ \E s \in Slots : q'.array[s] = n
               \/ \E k \in ResolverThreads : hostname'[k] = n
               \/ \E ip \in Addresses : output'[<<n, ip>>] > 0
    BY <2>1, <2>2, <2>3, <1>2, <1>a, <1>b, <1>c, <1>e DEF ReadMove, Somewhere
  <2> QED
    BY <2>3 DEF Somewhere
<1>3. ASSUME NEW i \in RequestThreads, NEW f \in Slots, PushMove(i, f)
      PROVE  Somewhere'
  <2>1. \A n \in Name : WasRead(n)' <=> WasRead(n)
    BY <1>3 DEF PushMove, WasRead
  <2>2. \A r \in RequestThreads : Carried(r)' = Carried(r)
    BY <1>3 DEF PushMove, Carried
  <2>3. ASSUME NEW n \in Name, WasRead(n)'
        PROVE  \/ Carries(n[1])' /\ Carried(n[1])' = n
               \/ \E s \in Slots : q'.array[s] = n
               \/ \E k \in ResolverThreads : hostname'[k] = n
               \/ \E ip \in Addresses : output'[<<n, ip>>] > 0
    BY <2>1, <2>2, <2>3, <1>3, <1>a, <1>b, <1>c, <1>e DEF PushMove, Somewhere
  <2> QED
    BY <2>3 DEF Somewhere
<1>4. ASSUME NEW j \in ResolverThreads, NEW f \in Slots, PopMove(j, f)
      PROVE  Somewhere'
  <2>1. \A n \in Name : WasRead(n)' <=> WasRead(n)
    BY <1>4 DEF PopMove, WasRead
  <2>2. \A r \in RequestThreads : Carried(r)' = Carried(r)
    BY <1>4 DEF PopMove, Carried
  <2>3. ASSUME NEW n \in Name, WasRead(n)'
        PROVE  \/ Carries(n[1])' /\ Carried(n[1])' = n
               \/ \E s \in Slots : q'.array[s] = n
               \/ \E k \in ResolverThreads : hostname'[k] = n
               \/ \E ip \in Addresses : output'[<<n, ip>>] > 0
    BY <2>1, <2>2, <2>3, <1>4, <1>a, <1>b, <1>c, <1>e DEF PopMove, Somewhere
  <2> QED
    BY <2>3 DEF Somewhere
<1>5. ASSUME NEW j \in ResolverThreads, NEW a \in Addresses, PrintMove(j, a)
      PROVE  Somewhere'
  <2>1. \A n \in Name : WasRead(n)' <=> WasRead(n)
    BY <1>5 DEF PrintMove, WasRead
  <2>2. \A r \in RequestThreads : Carried(r)' = Carried(r)
    BY <1>5 DEF PrintMove, Carried
  <2>3. ASSUME NEW n \in Name, WasRead(n)'
        PROVE  \/ Carries(n[1])' /\ Carried(n[1])' = n
               \/ \E s \in Slots : q'.array[s] = n
               \/ \E k \in ResolverThreads : hostname'[k] = n
               \/ \E ip \in Addresses : output'[<<n, ip>>] > 0
    BY <2>1, <2>2, <2>3, <1>5, <1>a, <1>b, <1>c, <1>e DEF PrintMove, Somewhere
  <2> QED
    BY <2>3 DEF Somewhere
<1> QED
  BY <1>1, <1>2, <1>3, <1>4, <1>5, Moves

(***************************************************************************)
(* The theorems.                                                           *)
(***************************************************************************)

\* Nothing is read, and nothing is anywhere.
LEMMA NamesInit == Init => NamesInv
<1> SUFFICES ASSUME Init PROVE NamesInv
  OBVIOUS
<1>1. /\ \A i \in RequestThreads : nread[i] = 0 /\ request[i] = "unborn"
      /\ \A j \in ResolverThreads : hostname[j] = NULL
      /\ process = "running"
  BY DEF Init
<1>2. \A s \in Slots : q.array[s] = NULL
  BY Constants DEF Init, queue_init, SizeFor, Slots
<1>3. \A n \in Name, ip \in Addresses : output[<<n, ip>>] = 0
  BY DEF Init, Line, Addresses
<1>4. \A n \in Name : ~WasRead(n)
  <2>1. ASSUME NEW n \in Name PROVE ~WasRead(n)
    BY <1>1, NameParts, Constants DEF WasRead
  <2> QED
    BY <2>1
<1>5. ReadsCounted /\ HandsEmpty /\ AllGoneAtExit /\ Somewhere
  BY <1>1, <1>4 DEF ReadsCounted, HandsEmpty, AllGoneAtExit, Somewhere
<1>6. OnlyReadNames /\ NoCopy /\ NoOverlap
  BY <1>1, <1>2, <1>3
     DEF OnlyReadNames, NoCopy, NoOverlap, Carries, Carrying
<1> QED
  BY <1>5, <1>6 DEF NamesInv

\* The invariant of MultiLookupProofs goes along with this one.
THEOREM NamesInvariant == Spec => [](IInv /\ NamesInv)
<1>1. IInv /\ NamesInv => Before
  BY DEF IInv, Before
<1>2. IInv /\ NamesInv /\ [Next]_vars => NamesInv'
  BY <1>1, CountedStep, HandsStep, GoneStep, OnlyReadStep, NoCopyStep,
     NoOverlapStep, SomewhereStep DEF NamesInv
<1> QED
  BY <1>2, NamesInit, Invariant, PTL DEF Spec

\* The holders of a name are counted.
LEMMA OnePlaceFollows == TypeInv /\ NamesInv => ExactlyOnePlace
<1> SUFFICES ASSUME TypeInv, NamesInv, NEW n \in Name
             PROVE  Cardinality(Holders(n))
                        = IF n[2] <= nread[n[1]] THEN 1 ELSE 0
  BY DEF ExactlyOnePlace
<1> DEFINE i == n[1]
           Held == Carries(i) /\ Carried(i) = n
           R == {Request(k) : k \in {r \in RequestThreads :
                            /\ request[r] \in Carrying
                            /\ n = <<r, nread[r]>>}}
           S == {<<"slot", s>> : s \in {t \in Slots : q.array[t] = n}}
           J == {Resolver(j) : j \in {r \in ResolverThreads : hostname[r] = n}}
           L(ip) == {<<"line", ip, c>> : c \in 1 .. output[<<n, ip>>]}
           U == UNION {L(ip) : ip \in Addresses}
<1>a. n[1] \in RequestThreads /\ n # NULL
  BY NameParts
<1>b. DOMAIN q.array = Slots
  BY HoldersTypes
<1>c. \A ip \in Addresses : output[<<n, ip>>] \in Nat
  BY HoldersTypes
<1>d. OnlyReadNames /\ NoCopy /\ NoOverlap /\ Somewhere
  BY DEF NamesInv
<1>1. Holders(n) = R \cup S \cup J \cup U
  BY <1>b DEF Holders, Carrying, Addresses
<1>2. ~Held => R = {}
  BY DEF Carries, Carried
<1>3. Held => R = {Request(i)}
  BY <1>a DEF Carries, Carried
<1>4. (\A s \in Slots : q.array[s] # n) => S = {}
  OBVIOUS
<1>5. (\A j \in ResolverThreads : hostname[j] # n) => J = {}
  OBVIOUS
<1>6. (\A ip \in Addresses : output[<<n, ip>>] = 0) => U = {}
  <2>1. 1 .. 0 = {}
    OBVIOUS
  <2>2. ASSUME \A ip \in Addresses : output[<<n, ip>>] = 0
        PROVE  \A ip \in Addresses : ~\E c \in 1 .. output[<<n, ip>>] : TRUE
    BY <2>1, <2>2
  <2> QED
    BY <2>2
<1>7. CASE ~WasRead(n)
  <2>1. ~Held
    <3>1. ASSUME Held PROVE FALSE
      <4>1. nread[i] \in Nat /\ n = <<i, nread[i]>>
        BY <1>a, <3>1, HoldersTypes DEF Carried
      <4>2. n[2] = nread[i]
        BY <4>1
      <4> QED
        BY <4>1, <4>2, <1>7 DEF WasRead
    <3> QED
      BY <3>1
  <2>2. /\ \A s \in Slots : q.array[s] # n
        /\ \A j \in ResolverThreads : hostname[j] # n
        /\ \A ip \in Addresses : output[<<n, ip>>] = 0
    BY <1>7, <1>a, <1>c, <1>d DEF OnlyReadNames
  <2>3. Holders(n) = {}
    BY <1>1, <1>2, <1>4, <1>5, <1>6, <2>1, <2>2
  <2> QED
    BY <2>3, <1>7, FS_EmptySet DEF WasRead
<1>8. CASE WasRead(n)
  <2>1. \E h : Holders(n) = {h}
    <3>1. CASE Held
      <4>1. /\ \A s \in Slots : q.array[s] # n
            /\ \A j \in ResolverThreads : hostname[j] # n
            /\ \A ip \in Addresses : output[<<n, ip>>] = 0
        BY <3>1, <1>a, <1>d DEF NoOverlap
      <4> QED
        BY <4>1, <3>1, <1>1, <1>3, <1>4, <1>5, <1>6
    <3>2. ASSUME NEW s \in Slots, q.array[s] = n
          PROVE  \E h : Holders(n) = {h}
      <4>1. /\ ~Held
            /\ \A j \in ResolverThreads : hostname[j] # n
            /\ \A ip \in Addresses : output[<<n, ip>>] = 0
        BY <3>2, <1>a, <1>d DEF NoOverlap
      <4>2. \A t \in Slots : q.array[t] = n => t = s
        BY <3>2, <1>a, <1>d DEF NoCopy
      <4>3. S = {<<"slot", s>>}
        BY <3>2, <4>2
      <4> QED
        BY <4>1, <4>3, <1>1, <1>2, <1>5, <1>6
    <3>3. ASSUME NEW j \in ResolverThreads, hostname[j] = n
          PROVE  \E h : Holders(n) = {h}
      <4>1. /\ ~Held
            /\ \A s \in Slots : q.array[s] # n
            /\ \A ip \in Addresses : output[<<n, ip>>] = 0
        BY <3>3, <1>a, <1>d DEF NoOverlap
      <4>2. \A k \in ResolverThreads : hostname[k] = n => k = j
        BY <3>3, <1>a, <1>d DEF NoCopy
      <4>3. J = {Resolver(j)}
        BY <3>3, <4>2
      <4> QED
        BY <4>1, <4>3, <1>1, <1>2, <1>4, <1>6
    <3>4. ASSUME NEW ip \in Addresses, output[<<n, ip>>] > 0
          PROVE  \E h : Holders(n) = {h}
      <4>1. /\ ~Held
            /\ \A s \in Slots : q.array[s] # n
            /\ \A j \in ResolverThreads : hostname[j] # n
        BY <3>4, <1>a, <1>d DEF NoOverlap
      <4>2. \A jp \in Addresses :
                output[<<n, jp>>] = IF jp = ip THEN 1 ELSE 0
        BY <3>4, <1>c, <1>d DEF NoCopy
      <4>3. U = {<<"line", ip, 1>>}
        <5>1. 1 .. 1 = {1} /\ 1 .. 0 = {}
          OBVIOUS
        <5>2. \A jp \in Addresses : 1 .. output[<<n, jp>>]
                                      = IF jp = ip THEN {1} ELSE {}
          BY <4>2, <5>1
        <5>3. \A x : x \in U <=> \E jp \in Addresses :
                                  \E c \in 1 .. output[<<n, jp>>] :
                                      x = <<"line", jp, c>>
          <6>1. \A x : x \in U <=> \E jp \in Addresses : x \in L(jp)
            OBVIOUS
          <6>2. \A x, jp : x \in L(jp) <=> \E c \in 1 .. output[<<n, jp>>] :
                                              x = <<"line", jp, c>>
            OBVIOUS
          <6> HIDE DEF L, U
          <6> QED
            BY <6>1, <6>2
        <5>4. \A x : x \in U <=> x = <<"line", ip, 1>>
          BY <5>2, <5>3
        <5> HIDE DEF U
        <5> QED
          BY <5>4
      <4> QED
        BY <4>1, <4>3, <1>1, <1>2, <1>4, <1>5
    <3> QED
      BY <3>1, <3>2, <3>3, <3>4, <1>8, <1>d DEF Somewhere
  <2> QED
    BY <2>1, <1>8, FS_Singleton DEF WasRead
<1> QED
  BY <1>7, <1>8

\* No name is lost, copied or written twice, by whatever interleaving.
THEOREM NamesInOnePlace == Spec => []ExactlyOnePlace
  BY NamesInvariant, OnePlaceFollows, PTL DEF IInv

\* A payload in the ring is among its contents.
LEMMA SlotInContents ==
    ASSUME TypeInv, RingShape(q), NEW s \in Slots, q.array[s] # NULL
    PROVE  \E k \in DOMAIN Contents(q) : Contents(q)[k] = q.array[s]
<1> DEFINE n == MAX_RESOLVER_THREADS
           d == IF q.front <= s THEN s - q.front ELSE s - q.front + n
<1>1. /\ q \in QueueType(Name, n) /\ n \in Nat \ {0}
      /\ q.front \in 0 .. n - 1 /\ q.rear \in 0 .. n - 1 /\ s \in 0 .. n - 1
      /\ q.array \in [0 .. n - 1 -> Name \cup {NULL}]
  BY HoldersTypes, Constants DEF TypeInv, TypeOK, Slots
<1>2. /\ d \in 0 .. n - 1
      /\ s = IF q.front + d < n THEN q.front + d ELSE q.front + d - n
  BY <1>1
<1>3. d + 1 \in 1 .. Size(q)
  <2>1. CASE queue_is_full(q)
    <3>1. Size(q) = n
      BY <1>1, <2>1, ContentsOf
    <3> HIDE DEF d
    <3> QED
      BY <1>1, <1>2, <3>1
  <2>2. CASE ~queue_is_full(q)
    <3>1. Size(q) = IF q.front <= q.rear THEN q.rear - q.front
                                         ELSE q.rear - q.front + n
      BY <1>1, <2>2, ContentsOf
    <3>2. q.front # q.rear
      BY <1>1, <2>2 DEF queue_is_full, RingShape
    <3>3. InUse(q, s)
      BY <1>1, <3>2 DEF RingShape
    <3>4. CASE q.front < q.rear
      <4>1. q.front <= s /\ s < q.rear
        BY <3>3, <3>4 DEF InUse
      <4>2. d + 1 = s - q.front + 1 /\ Size(q) = q.rear - q.front
        BY <1>1, <3>1, <3>4, <4>1
      <4> HIDE DEF d
      <4> QED
        BY <1>1, <4>1, <4>2
    <3>5. CASE q.rear < q.front
      <4>1. q.front <= s \/ s < q.rear
        BY <1>1, <3>3, <3>5 DEF InUse
      <4>2. Size(q) = q.rear - q.front + n
        BY <1>1, <3>1, <3>5
      <4>3. d \in 0 .. n - 1 /\ d < q.rear - q.front + n
        BY <1>1, <3>5, <4>1
      <4> HIDE DEF d
      <4> QED
        BY <1>1, <4>2, <4>3
    <3> QED
      BY <1>1, <3>2, <3>4, <3>5
  <2> QED
    BY <2>1, <2>2
<1>4. DOMAIN Contents(q) = 1 .. Size(q)
  BY <1>1, ContentsOf
<1>5. Contents(q)[d + 1] = q.array[s]
  <2>1. Contents(q)[d + 1] = q.array[IF q.front + (d + 1) - 1 < n
                                     THEN q.front + (d + 1) - 1
                                     ELSE q.front + (d + 1) - 1 - n]
    <3> HIDE DEF d
    <3>1. \A k \in 1 .. Size(q) :
              Contents(q)[k] = q.array[IF q.front + k - 1 < n
                                       THEN q.front + k - 1
                                       ELSE q.front + k - 1 - n]
      BY <1>1, ContentsOf
    <3> QED
      BY <1>3, <3>1
  <2> HIDE DEF d
  <2>2. q.front + (d + 1) - 1 = q.front + d
    BY <1>1, <1>2
  <2> QED
    BY <1>2, <2>1, <2>2
<1> QED
  BY <1>3, <1>4, <1>5

\* At the exit no thread holds a name any more.
LEMMA QueuedFollows ==
    TypeInv /\ RingShape(q) /\ NamesInv => OnlyQueuedNamesLost
<1> SUFFICES ASSUME TypeInv, RingShape(q), NamesInv, process = "exited"
             PROVE  /\ \A i \in RequestThreads : nread[i] \in {0, FileLength[i]}
                    /\ \A n \in Name : WasRead(n) =>
                         \/ \E ip \in Addresses : output[<<n, ip>>] > 0
                         \/ \E k \in DOMAIN Contents(q) : Contents(q)[k] = n
  BY DEF OnlyQueuedNamesLost, WasRead, Addresses
<1>1. /\ \A i \in RequestThreads : request[i] \in {"done", "failed"}
      /\ \A j \in ResolverThreads : resolver[j] \in {"done", "failed"}
  BY DEF NamesInv, AllGoneAtExit
<1>2. \A i \in RequestThreads : nread[i] \in {0, FileLength[i]}
  BY <1>1 DEF NamesInv, ReadsCounted
<1>3. ASSUME NEW n \in Name, WasRead(n)
      PROVE  \/ \E ip \in Addresses : output[<<n, ip>>] > 0
             \/ \E k \in DOMAIN Contents(q) : Contents(q)[k] = n
  <2>1. n[1] \in RequestThreads /\ n # NULL
    BY NameParts
  <2>2. ~Carries(n[1])
    BY <1>1, <2>1 DEF Carries, Carrying
  <2>3. \A j \in ResolverThreads : hostname[j] # n
    BY <1>1, <2>1 DEF NamesInv, HandsEmpty
  <2>4. \/ \E s \in Slots : q.array[s] = n
        \/ \E ip \in Addresses : output[<<n, ip>>] > 0
    BY <1>3, <2>2, <2>3 DEF NamesInv, Somewhere
  <2> QED
    BY <2>1, <2>4, SlotInContents
<1> QED
  BY <1>2, <1>3

\* Only what is left in the queue has no line when the program ends.
THEOREM QueuedNamesLost == Spec => []OnlyQueuedNamesLost
  BY NamesInvariant, QueuedFollows, PTL DEF IInv
=============================================================================
