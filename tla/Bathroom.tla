------------------------------ MODULE Bathroom ------------------------------
(***************************************************************************)
(* prob_set/prob_set_03/bathroom.c: men and women share a bathroom for at  *)
(* most b_limit people.  Each person is a thread that runs male() or       *)
(* female() once.  The two functions mirror each other except in how they  *)
(* begin, so that one action stands for the same lines of both, with the   *)
(* flag and the lock of the person's sex or of the other one.              *)
(*                                                                         *)
(* A section of a mutex that touches only what that mutex protects is one  *)
(* step.  The mutexes are those of glibc (the default kind): an unlock     *)
(* frees the mutex whoever holds it, which matters for m_waiting_lock, as  *)
(* female() hands it to pthread_cond_wait without holding it.  That call,  *)
(* and one condition used with four mutexes, are undefined in POSIX.       *)
(***************************************************************************)
EXTENDS Integers, FiniteSets

CONSTANTS
    Men, Women,  \* the threads
    b_limit,     \* argv[1]
    Nobody       \* the owner of a free mutex

Person == Men \cup Women

ASSUME BathroomAssumption ==
    /\ IsFiniteSet(Person)
    /\ Men \cap Women = {}
    /\ b_limit \in Nat \ {0}
    /\ Nobody \notin Person

Sex       == {"m", "f"}
Own(p)    == IF p \in Men THEN "m" ELSE "f"
Theirs(p) == IF p \in Men THEN "f" ELSE "m"

VARIABLES
    at,                \* at[p]: where thread p is
    bathroom_sem,
    in_bathroom,       \* m_in_bathroom and f_in_bathroom
    in_bathroom_lock,  \* owners of m_in_bathroom_lock, f_in_bathroom_lock
    waiting,           \* m_waiting and f_waiting
    waiting_lock       \* owners of m_waiting_lock and f_waiting_lock

vars == <<at, bathroom_sem, in_bathroom, in_bathroom_lock, waiting,
          waiting_lock>>

Place == {"arrive", "condWaiting", "nap", "woken",      \* first loop
          "lockIn", "raise", "raised", "condIn", "asleep", "relockIn",
          "lower", "lowered",                           \* second loop
          "semWait", "enter", "inside", "getvalue", "clear", "done"}

TypeOK ==
    /\ at \in [Person -> Place]
    /\ bathroom_sem \in 0 .. b_limit
    /\ in_bathroom \in [Sex -> BOOLEAN]
    /\ in_bathroom_lock \in [Sex -> Person \cup {Nobody}]
    /\ waiting \in [Sex -> BOOLEAN]
    /\ waiting_lock \in [Sex -> Person \cup {Nobody}]

Init ==
    /\ at = [p \in Person |-> "arrive"]
    /\ bathroom_sem = b_limit
    /\ in_bathroom = [s \in Sex |-> FALSE]
    /\ in_bathroom_lock = [s \in Sex |-> Nobody]
    /\ waiting = [s \in Sex |-> FALSE]
    /\ waiting_lock = [s \in Sex |-> Nobody]

Go(p, from, to) == at[p] = from /\ at' = [at EXCEPT ![p] = to]
Take(lock, s, p) == lock[s] = Nobody /\ lock' = [lock EXCEPT ![s] = p]
Release(lock, s) == lock' = [lock EXCEPT ![s] = Nobody]

\* Where the threads asleep on bathroom_empty are after it was broadcast.
Awake(place) == CASE place = "nap"    -> "woken"
                  [] place = "asleep" -> "relockIn"
                  [] OTHER            -> place

(***************************************************************************)
(* The first loop: let the other sex go first if someone of it waits       *)
(***************************************************************************)

\* male(): the test, the wait and the test after a wake-up are all made
\* with f_waiting_lock.
MaleArrives(p) ==
    /\ p \in Men
    /\ waiting_lock["f"] = Nobody
    /\ \E from \in {"arrive", "woken"} :
          Go(p, from, IF waiting["f"] THEN "nap" ELSE "lockIn")
    /\ UNCHANGED <<bathroom_sem, in_bathroom, in_bathroom_lock, waiting,
                   waiting_lock>>

\* female(): m_waiting is read without its mutex ...
FemaleArrives(p) ==
    /\ p \in Women
    /\ Go(p, "arrive", IF waiting["m"] THEN "condWaiting" ELSE "lockIn")
    /\ UNCHANGED <<bathroom_sem, in_bathroom, in_bathroom_lock, waiting,
                   waiting_lock>>

\* ... pthread_cond_wait releases that mutex, whoever holds it ...
FemaleNaps(p) ==
    /\ p \in Women
    /\ Go(p, "condWaiting", "nap")
    /\ Release(waiting_lock, "m")
    /\ UNCHANGED <<bathroom_sem, in_bathroom, in_bathroom_lock, waiting>>

\* ... and takes it before it returns; female() never unlocks it.
FemaleWakes(p) ==
    /\ p \in Women
    /\ Go(p, "woken", "arrive")
    /\ Take(waiting_lock, "m", p)
    /\ UNCHANGED <<bathroom_sem, in_bathroom, in_bathroom_lock, waiting>>

(***************************************************************************)
(* The second loop: wait until nobody of the other sex is in the bathroom  *)
(***************************************************************************)

\* Lock and first test; the lock is kept if there is a reason to wait.
LockIn(p) ==
    /\ \/ /\ in_bathroom[Theirs(p)]
          /\ Go(p, "lockIn", "raise")
          /\ Take(in_bathroom_lock, Theirs(p), p)
       \/ /\ ~in_bathroom[Theirs(p)]
          /\ Go(p, "lockIn", "semWait")
          /\ in_bathroom_lock[Theirs(p)] = Nobody
          /\ UNCHANGED in_bathroom_lock
    /\ UNCHANGED <<bathroom_sem, in_bathroom, waiting, waiting_lock>>

LockWaiting(p) ==
    /\ Go(p, "raise", "raised") \/ Go(p, "lower", "lowered")
    /\ Take(waiting_lock, Own(p), p)
    /\ UNCHANGED <<bathroom_sem, in_bathroom, in_bathroom_lock, waiting>>

RaiseWaiting(p) ==
    /\ Go(p, "raised", "condIn")
    /\ waiting' = [waiting EXCEPT ![Own(p)] = TRUE]
    /\ Release(waiting_lock, Own(p))
    /\ UNCHANGED <<bathroom_sem, in_bathroom, in_bathroom_lock>>

\* pthread_cond_wait, up to the sleep.
Sleep(p) ==
    /\ Go(p, "condIn", "asleep")
    /\ Release(in_bathroom_lock, Theirs(p))
    /\ UNCHANGED <<bathroom_sem, in_bathroom, waiting, waiting_lock>>

\* pthread_cond_wait, from the wake-up on.
RelockIn(p) ==
    /\ Go(p, "relockIn", "lower")
    /\ Take(in_bathroom_lock, Theirs(p), p)
    /\ UNCHANGED <<bathroom_sem, in_bathroom, waiting, waiting_lock>>

\* Mistake: the flag stays up when the wait was successful.
LowerWaitingInLoopOnly(p) ==
    /\ \/ /\ in_bathroom[Theirs(p)]
          /\ Go(p, "lowered", "raise")
          /\ waiting' = [waiting EXCEPT ![Own(p)] = FALSE]
          /\ UNCHANGED in_bathroom_lock
       \/ /\ ~in_bathroom[Theirs(p)]
          /\ Go(p, "lowered", "semWait")
          /\ Release(in_bathroom_lock, Theirs(p))
          /\ UNCHANGED waiting
    /\ Release(waiting_lock, Own(p))
    /\ UNCHANGED <<bathroom_sem, in_bathroom>>

\* The flag is lowered, and the condition of the loop tested again.
LowerWaiting(p) ==
    /\ \/ /\ in_bathroom[Theirs(p)]
          /\ Go(p, "lowered", "raise")
          /\ UNCHANGED in_bathroom_lock
       \/ /\ ~in_bathroom[Theirs(p)]
          /\ Go(p, "lowered", "semWait")
          /\ Release(in_bathroom_lock, Theirs(p))
    /\ waiting' = [waiting EXCEPT ![Own(p)] = FALSE]
    /\ Release(waiting_lock, Own(p))
    /\ UNCHANGED <<bathroom_sem, in_bathroom>>

(***************************************************************************)
(* In the bathroom                                                         *)
(***************************************************************************)

SemWait(p) ==
    /\ bathroom_sem > 0
    /\ Go(p, "semWait", "enter")
    /\ bathroom_sem' = bathroom_sem - 1
    /\ UNCHANGED <<in_bathroom, in_bathroom_lock, waiting, waiting_lock>>

\* Mistake: only the first one in sets the flag, seeing the semaphore.
EnterFirstOnly(p) ==
    /\ Go(p, "enter", "inside")
    /\ in_bathroom_lock[Own(p)] = Nobody
    /\ in_bathroom' = [in_bathroom EXCEPT
                          ![Own(p)] = @ \/ bathroom_sem = b_limit - 1]
    /\ UNCHANGED <<bathroom_sem, in_bathroom_lock, waiting, waiting_lock>>

Enter(p) ==
    /\ Go(p, "enter", "inside")
    /\ in_bathroom_lock[Own(p)] = Nobody
    /\ in_bathroom' = [in_bathroom EXCEPT ![Own(p)] = TRUE]
    /\ UNCHANGED <<bathroom_sem, in_bathroom_lock, waiting, waiting_lock>>

\* Mistake: the place is not given back.
LeaveWithoutPost(p) ==
    /\ Go(p, "inside", "getvalue")
    /\ Take(in_bathroom_lock, Own(p), p)
    /\ UNCHANGED <<bathroom_sem, in_bathroom, waiting, waiting_lock>>

\* The lock is taken, and sem_post.
Leave(p) ==
    /\ Go(p, "inside", "getvalue")
    /\ Take(in_bathroom_lock, Own(p), p)
    /\ bathroom_sem' = bathroom_sem + 1
    /\ UNCHANGED <<in_bathroom, waiting, waiting_lock>>

\* sem_getvalue; unless everyone is out, the end of the thread.
GetValue(p) ==
    /\ \/ /\ bathroom_sem = b_limit
          /\ Go(p, "getvalue", "clear")
          /\ UNCHANGED in_bathroom_lock
       \/ /\ bathroom_sem # b_limit
          /\ Go(p, "getvalue", "done")
          /\ Release(in_bathroom_lock, Own(p))
    /\ UNCHANGED <<bathroom_sem, in_bathroom, waiting, waiting_lock>>

\* pthread_cond_broadcast, unlock and the end of the thread.
ClearFlag(p) ==
    /\ at[p] = "clear"
    /\ in_bathroom' = [in_bathroom EXCEPT ![Own(p)] = FALSE]
    /\ at' = [r \in Person |-> IF r = p THEN "done" ELSE Awake(at[r])]
    /\ Release(in_bathroom_lock, Own(p))
    /\ UNCHANGED <<bathroom_sem, waiting, waiting_lock>>

\* pthread_cond_wait may return without a broadcast.
SpuriousWakeup(p) ==
    /\ Go(p, "nap", "woken") \/ Go(p, "asleep", "relockIn")
    /\ UNCHANGED <<bathroom_sem, in_bathroom, in_bathroom_lock, waiting,
                   waiting_lock>>

(***************************************************************************)
(* The program                                                             *)
(***************************************************************************)

FirstLoop(p)  == MaleArrives(p) \/ FemaleArrives(p) \/ FemaleNaps(p)
                 \/ FemaleWakes(p)
SecondLoop(p) == LockIn(p) \/ LockWaiting(p) \/ RaiseWaiting(p) \/ Sleep(p)
                 \/ RelockIn(p) \/ LowerWaiting(p)
UseIt(p)      == SemWait(p) \/ Enter(p) \/ Leave(p) \/ GetValue(p)
                 \/ ClearFlag(p)
Step(p)       == FirstLoop(p) \/ SecondLoop(p) \/ UseIt(p)

Returned == \A p \in Person : at[p] = "done"
Exit     == Returned /\ UNCHANGED vars

Next == (\E p \in Person : Step(p) \/ SpuriousWakeup(p)) \/ Exit

Spec == Init /\ [][Next]_vars

\* Every thread runs, and gets a mutex or the semaphore if these are free
\* again and again; nothing is assumed of spurious wake-ups.
Fairness == \A p \in Person :
    /\ WF_vars(Step(p))
    /\ SF_vars(SecondLoop(p)) /\ SF_vars(UseIt(p)) /\ SF_vars(FirstLoop(p))

FairSpec == Spec /\ Fairness

(***************************************************************************)
(* Safety                                                                  *)
(***************************************************************************)

Inside(s) == {p \in Person : at[p] = "inside" /\ Own(p) = s}

\* Those who passed sem_wait and did not call sem_post.
Holders == {p \in Person : at[p] \in {"enter", "inside"}}

\* Whoever is in a critical section of m_in_bathroom or f_in_bathroom owns
\* its mutex, alone: the mutexes of the second loop are used correctly.
InSection(p, s) ==
    \/ Theirs(p) = s /\ at[p] \in {"raise", "raised", "condIn", "lower",
                                   "lowered"}
    \/ Own(p) = s /\ at[p] \in {"getvalue", "clear"}
LockOwners == \A p \in Person, s \in Sex :
                  InSection(p, s) <=> in_bathroom_lock[s] = p

\* The semaphore counts the people who passed sem_wait and did not leave:
\* never more than b_limit are in the bathroom, whatever happens around it.
PlacesAddUp ==
    bathroom_sem + Cardinality(Holders) = b_limit

\* While someone is in the bathroom the flag of his or her sex is set: the
\* test of the semaphore's value, which is stale when the flag is cleared,
\* never clears it over the head of someone inside.
FlagCoversOccupants == \A s \in Sex : Inside(s) # {} => in_bathroom[s]

\* A flag "waiting" is only up while a thread that raised it has yet to
\* lower it, so that nobody naps for the sake of someone who is gone.
WaitingHasAWaiter ==
    \A s \in Sex : waiting[s] =>
        \E p \in Person : /\ Own(p) = s
                          /\ at[p] \in {"condIn", "asleep", "relockIn",
                                        "lower", "lowered"}

(***************************************************************************)
(* Liveness                                                                *)
(***************************************************************************)

\* Everyone gets to use the bathroom, and main() can join all threads.
Termination == <>Returned

(***************************************************************************)
(* What the problem set asks for, and the program does not do              *)
(***************************************************************************)

\* "when a woman is in the bathroom, other women may enter, but no men, and
\* vice versa": between the test of the other sex's flag and the setting of
\* one's own no mutex is held.
OneSexAtATime == Inside("m") = {} \/ Inside("f") = {}
=============================================================================
