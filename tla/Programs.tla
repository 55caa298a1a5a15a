------------------------------ MODULE Programs ------------------------------
(***************************************************************************)
(* The small programs of processes that talk to each other: demo/IPC, the  *)
(* solutions of the exercises 3.22 and 3.26 of demo/ch3, and the whales of *)
(* problem set 3, in C and as published.  One of them runs.  A sleep is    *)
(* left out: its process may take any time for its next call.  The letters *)
(* that go through shared memory are two.                                  *)
(***************************************************************************)
EXTENDS Processes, FiniteSetsExt

CONSTANTS Males, Females, Matchmakers

ASSUME WhaleAssumption ==
    /\ IsFiniteSet(Males \cup Females \cup Matchmakers)
    /\ Males \cap Females = {} /\ Females \cap Matchmakers = {}
    /\ Males \cap Matchmakers = {}

VARIABLE demo   \* which program runs

programVars == <<demo, processVars>>

(***************************************************************************)
(* demo/IPC                                                                *)
(***************************************************************************)

\* Mistake: the FIFO is closed before it is written.
FifoWriterCloses ==
    << <<"make", "myfifo", <<>> >>, <<"open", "myfifo", "w">>,
       <<"close", "myfifo", "w">>, <<"write", "myfifo", "Hi">>,
       <<"unlink", "myfifo">> >>

FifoWriter ==
    << <<"make", "myfifo", <<>> >>, <<"open", "myfifo", "w">>,
       <<"write", "myfifo", "Hi">>, <<"close", "myfifo", "w">>,
       <<"unlink", "myfifo">> >>

FifoReader ==
    << <<"open", "myfifo", "r">>, <<"read", "myfifo">>, <<"print">>,
       <<"close", "myfifo", "r">> >>

MessageSend ==
    << <<"make", "1234", <<>> >>, <<"send", "1234", "Did you get this?">> >>

MessageReceive == << <<"need", "1234">>, <<"receive", "1234">>, <<"print">> >>

\* The letters and the NUL, and then the wait for the answer.
ShmServer ==
    << <<"make", "5678", <<NUL, NUL, NUL>> >>,
       <<"put", "5678", 1, "a">>, <<"put", "5678", 2, "z">>,
       <<"put", "5678", 3, NUL>>, <<"await", "5678", 1, "*">> >>

ShmClient ==
    << <<"need", "5678">>, <<"scan", "5678">>, <<"put", "5678", 1, "*">> >>

SignalParent ==
    << <<"create", "child">>, <<"kill", "child", "SIGHUP">>,
       <<"kill", "child", "SIGINT">>, <<"kill", "child", "SIGQUIT">> >>

\* Then it loops; NUL stands for what never comes.
SignalChild ==
    << <<"handle", "SIGHUP">>, <<"handle", "SIGINT">>,
       <<"handle", "SIGQUIT">>, <<"await", "nothing", 1, "ever">> >>

Lines3(op, o, x) == [k \in 1 .. 3 |-> IF op = "write" THEN <<op, o, <<x, k>> >>
                                                      ELSE <<op, o>>]

SocketServer ==
    << <<"unlink", "mysocket">>, <<"make", "mysocket", <<>> >>, <<"accept">> >>
    \o Lines3("write", "toClient", "server") \o Lines3("read", "toServer", "")
    \o << <<"unlink", "mysocket">> >>

SocketClient ==
    << <<"connect", "mysocket", "server">> >>
    \o Lines3("read", "toClient", "") \o Lines3("write", "toServer", "client")
    \o << <<"close", "toClient", "r">>, <<"close", "toServer", "w">> >>

(***************************************************************************)
(* demo/ch3                                                                *)
(***************************************************************************)

\* 3.22: the sequence 2, 1 of the starting value 2.
ShmProducer ==
    << <<"make", "COLLATZ", <<>> >>, <<"grow", "COLLATZ", <<NUL, NUL, NUL>> >>,
       <<"put", "COLLATZ", 1, "2">>, <<"put", "COLLATZ", 2, "1">> >>

ShmConsumer ==
    << <<"need", "COLLATZ">>, <<"scan", "COLLATZ">>, <<"unlink", "COLLATZ">> >>

\* 3.26, on Unix.
PipeParent ==
    << <<"pipe", "first">>, <<"pipe", "second">>, <<"create", "child">>,
       <<"close", "first", "r">>, <<"close", "second", "w">>,
       <<"write", "first", "Greetings">>, <<"close", "first", "w">>,
       <<"read", "second">>, <<"print">>, <<"close", "second", "r">> >>

PipeChild ==
    << <<"close", "first", "w">>, <<"close", "second", "r">>,
       <<"read", "first">>, <<"print">>, <<"write", "second", "gREETINGS">>,
       <<"close", "first", "r">>, <<"close", "second", "w">> >>

\* 3.26, on Windows: both pipes go to the child as a whole.
WindowsParent ==
    << <<"pipe", "first">>, <<"pipe", "second">>, <<"create", "child">>,
       <<"close", "second", "w">>, <<"close", "first", "r">>,
       <<"write", "first", "Greetings">>, <<"close", "first", "w">>,
       <<"read", "second">>, <<"print">>, <<"close", "second", "r">>,
       <<"join", "child">> >>

WindowsChild ==
    << <<"read", "first">>, <<"print">>, <<"write", "second", "gREETINGS">> >>

(***************************************************************************)
(* The whales                                                              *)
(***************************************************************************)
Wait(s)    == <<"wait", s>>
Signal(s)  == <<"signal", s>>
PrintCalf  == <<"print", "A calf is born">>

\* whale_harmony.c: the semaphores go by the name of their whale.
WhaleMain ==
    << <<"create", "male">>, <<"create", "female">>, <<"create", "matchmaker">>,
       <<"join", "male">>, <<"join", "female">>, <<"join", "matchmaker">> >>

male       == <<Signal("male"), Wait("female"), Wait("matchmaker")>>
female     == <<Signal("female"), Wait("male"), Wait("matchmaker")>>

matchmaker == <<Wait("male"), Wait("female"), PrintCalf, Signal("matchmaker")>>

\* The published solution.
Male == <<Signal("male"), Wait("male_start"), Wait("male_end"),
          Signal("matchmaker")>>

Female == <<Signal("female"), Wait("female_start"), Wait("female_end"),
            Signal("matchmaker")>>

\* Mistake: the couple is let go before the birth.
MatchmakerLate ==
    <<Wait("male"), Wait("female"), Wait("mutex"),
      Signal("male_start"), Signal("female_start"),
      Signal("male_end"), Signal("female_end"), PrintCalf,
      Wait("matchmaker"), Wait("matchmaker"), Signal("mutex")>>

Matchmaker ==
    <<Wait("male"), Wait("female"), Wait("mutex"),
      Signal("male_start"), Signal("female_start"), PrintCalf,
      Signal("male_end"), Signal("female_end"),
      Wait("matchmaker"), Wait("matchmaker"), Signal("mutex")>>

Whales == Males \cup Females \cup Matchmakers

(***************************************************************************)
(* A program is the code of its processes                                  *)
(***************************************************************************)
Code == [
    fifo     |-> [writer |-> FifoWriter, reader |-> FifoReader],
    message  |-> [sender |-> MessageSend, receiver |-> MessageReceive],
    shm      |-> [server |-> ShmServer, client |-> ShmClient],
    signals  |-> [parent |-> SignalParent, child |-> SignalChild],
    socket   |-> [server |-> SocketServer, client |-> SocketClient],
    shm_open |-> [producer |-> ShmProducer, consumer |-> ShmConsumer],
    pipe     |-> [parent |-> PipeParent, child |-> PipeChild],
    windows  |-> [parent |-> WindowsParent, child |-> WindowsChild],
    harmony  |-> [main |-> WhaleMain, male |-> male, female |-> female,
                  matchmaker |-> matchmaker],
    solution |-> [w \in Whales |-> CASE w \in Males   -> Male
                                     [] w \in Females -> Female
                                     [] OTHER         -> Matchmaker]]

\* Those that another process creates.
Created == [d \in DOMAIN Code |->
    CASE d \in {"signals", "pipe", "windows"} -> {"child"}
      [] d = "harmony"                        -> {"male", "female", "matchmaker"}
      [] OTHER                                -> {}]

Semaphore == {"male", "female", "matchmaker", "male_start", "male_end",
              "female_start", "female_end", "mutex"}
Object == {"myfifo", "1234", "5678", "mysocket", "toClient", "toServer",
           "COLLATZ", "first", "second", "nothing"}

\* A shared segment, a FIFO or a socket may be left from an earlier run.
Leftovers(d) ==
    CASE d = "shm"    -> {Absent, Memory(<<"*", "z", NUL>>)}
      [] d = "fifo"   -> {Absent, Memory(<<>>)}
      [] OTHER        -> {Absent}

ProgramInit ==
    /\ demo \in DOMAIN Code
    /\ at = [p \in DOMAIN Code[demo] |-> IF p \in Created[demo] THEN 0 ELSE 1]
    /\ over = [p \in DOMAIN Code[demo] |-> "no"]
    /\ \E old \in Leftovers(demo) :
          object = [o \in Object |->
                       CASE o = "nothing"             -> Memory(<<NUL>>)
                         [] o \in {"5678", "myfifo"} -> old
                         [] OTHER                     -> Absent]
    /\ value = [s \in Semaphore |->
                   IF demo = "harmony" \/ s = "mutex" THEN 1 ELSE 0]
    /\ seen = [p \in DOMAIN Code[demo] |-> <<>>]
    /\ pending = [p \in DOMAIN Code[demo] |-> {}]
    /\ handled = [p \in DOMAIN Code[demo] |-> {}]

ProgramStep(p) == /\ Step(p, Code[demo][p]) \/ Deliver(p, "SIGQUIT")
                  /\ UNCHANGED demo

(***************************************************************************)
(* Correctness                                                             *)
(***************************************************************************)
Births(ms, code) ==
    Cardinality({w \in ms : \E k \in 1 .. at[w] - 1 : code[k] = PrintCalf})

\* What each program comes to, whoever is first.  A reader of the FIFO whose
\* open succeeded gets the message.  With a fresh segment the client gets a
\* beginning of the letters; the server ends when the client has answered.
\* Consumers of COLLATZ get a beginning of the sequence.  Each side of the
\* socket and of the pipes gets what the other wrote, all of it if it comes
\* to its end.  The program of the whales leaves no signal unused.
OutcomeIsRight ==
    CASE demo = "fifo" ->
            seen["reader"] \in {<<>>, <<"Hi">>, <<"no descriptor">>}
      [] demo = "message" -> seen["receiver"] \in {<<>>, <<"Did you get this?">>}
      [] demo = "shm" ->
            /\ seen["client"] # <<>> /\ seen["client"][1] # "*" =>
                  seen["client"] \in {<<"a">>, <<"a", "z">>}
            /\ over["server"] = "exited" => at["client"] > Len(ShmClient)
                                            \/ seen["client"] = <<>>
      [] demo = "signals" -> over["child"] = "exited" => "SIGQUIT" = Last(seen["child"])
      [] demo = "shm_open" -> seen["consumer"] \in {<<>>, <<"2">>, <<"2", "1">>}
      [] demo = "socket" ->
            \A pair \in {<<"client", "server">>, <<"server", "client">>} :
               /\ IsPrefix(seen[pair[1]], [k \in 1 .. 3 |-> <<pair[2], k>>])
               /\ over[pair[1]] = "exited" => Len(seen[pair[1]]) = 3
      [] demo \in {"pipe", "windows"} ->
            /\ seen["child"] \in {<<>>, <<"Greetings">>}
            /\ seen["parent"] \in {<<>>, <<"gREETINGS">>}
            /\ \A p \in {"parent", "child"} : over[p] = "exited" => seen[p] # <<>>
      [] demo = "harmony" ->
            over["main"] = "exited" =>
               /\ Births({"matchmaker"}, matchmaker) = 1
               /\ \A s \in {"male", "female", "matchmaker"} : value[s] = 0
      [] OTHER -> TRUE

Kinds == [male |-> Males, female |-> Females, matchmaker |-> Matchmakers]

CountOf(k, Test(_)) ==
    IF demo = "solution" THEN Cardinality({w \in Kinds[k] : Test(w)}) ELSE 0

\* The published solution is a rendezvous as the problem set asks for.
Promise == INSTANCE Rendezvous WITH
    Kind <- DOMAIN Kinds,
    arrived <- [k \in DOMAIN Kinds |-> CountOf(k, LAMBDA w : at[w] > 1)],
    births <- IF demo = "solution" THEN Births(Matchmakers, Matchmaker) ELSE 0,
    returned <- [k \in DOMAIN Kinds |-> CountOf(k, LAMBDA w : over[w] = "exited")]

KeepsPromise == Promise!Spec

\* Whom a process can wait for in vain: the writer and the reader of a FIFO
\* if the reader came too early; the receiver if the queue was full; the
\* servers if the client came too early, or found nothing yet in the shared
\* memory and answered, and the answer was overwritten.  Of the whales as
\* many of each kind return as there are trios.
ProgramOver ==
    LET Gone(p) == over[p] # "no"
        trios == Min({Cardinality(Kinds[k]) : k \in DOMAIN Kinds})
    IN CASE demo = "fifo" ->
               Gone("reader") /\ (Gone("writer") \/ seen["reader"] # <<"Hi">>)
         [] demo = "message" ->
               Gone("sender") /\ (Gone("receiver") \/ over["sender"] = "failure")
         [] demo \in {"shm", "socket"} ->
               /\ Gone("client")
               /\ \/ Gone("server") \/ over["client"] = "failure"
                  \/ demo = "shm" /\ seen["client"] \in {<<>>, <<"*">>, <<"*", "z">>}
         [] demo = "shm_open" -> Gone("producer") /\ Gone("consumer")
         [] demo \in {"signals", "pipe", "windows"} ->
               Gone("parent") /\ Gone("child")
         [] demo = "harmony" -> Gone("main")
         [] demo = "solution" ->
               /\ Births(Matchmakers, Matchmaker) = trios
               /\ \A k \in DOMAIN Kinds :
                     Cardinality({w \in Kinds[k] : Gone(w)}) = trios
=============================================================================
