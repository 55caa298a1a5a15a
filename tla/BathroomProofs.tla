--------------------------- MODULE BathroomProofs ---------------------------
(***************************************************************************)
(* What bathroom.c does guarantee, for any number of men and women and any *)
(* limit: mutual exclusion in the sections of m_in_bathroom and            *)
(* f_in_bathroom, at most b_limit people inside, and flags that are never  *)
(* cleared while someone is inside.                                        *)
(***************************************************************************)
EXTENDS Bathroom, FiniteSetTheorems, TLAPS

\* The types that do not rest on the count of the semaphore.
TypeInv ==
    /\ at \in [Person -> Place]
    /\ bathroom_sem \in Nat
    /\ in_bathroom \in [Sex -> BOOLEAN]
    /\ in_bathroom_lock \in [Sex -> Person \cup {Nobody}]
    /\ waiting \in [Sex -> BOOLEAN]
    /\ waiting_lock \in [Sex -> Person \cup {Nobody}]

\* Who is about to clear a flag found the semaphore at b_limit, so nobody of
\* that sex was inside, and holds the mutex that entering takes.
ClearMeansEmpty ==
    \A p \in Person : at[p] = "clear" => Inside(Own(p)) = {}

IInv == /\ TypeInv /\ LockOwners /\ PlacesAddUp
        /\ ClearMeansEmpty /\ FlagCoversOccupants

\* A person is of one sex, and no person is Nobody.
LEMMA PersonSex ==
    /\ Nobody \notin Person
    /\ b_limit \in Nat
    /\ IsFiniteSet(Person)
    /\ \A p \in Person : /\ Own(p) \in Sex /\ Theirs(p) \in Sex
                         /\ Own(p) # Theirs(p)
                         /\ p \in Women => p \notin Men
                         /\ p \in Men => Own(p) = "m" /\ Theirs(p) = "f"
                         /\ p \in Women => Own(p) = "f" /\ Theirs(p) = "m"
  BY BathroomAssumption DEF Own, Theirs, Sex, Person

\* Every step keeps the types.
LEMMA TypeStep == TypeInv /\ [Next]_vars => TypeInv'
<1> SUFFICES ASSUME TypeInv, [Next]_vars
             PROVE  TypeInv'
  OBVIOUS
<1> USE PersonSex DEF TypeInv, Go, Take, Release, Sex, Place
<1>1. ASSUME NEW p \in Person, MaleArrives(p) PROVE TypeInv'
  BY <1>1 DEF MaleArrives
<1>2. ASSUME NEW p \in Person, FemaleArrives(p) PROVE TypeInv'
  BY <1>2 DEF FemaleArrives
<1>3. ASSUME NEW p \in Person, FemaleNaps(p) PROVE TypeInv'
  BY <1>3 DEF FemaleNaps
<1>4. ASSUME NEW p \in Person, FemaleWakes(p) PROVE TypeInv'
  BY <1>4 DEF FemaleWakes
<1>5. ASSUME NEW p \in Person, LockIn(p) PROVE TypeInv'
  BY <1>5 DEF LockIn
<1>6. ASSUME NEW p \in Person, LockWaiting(p) PROVE TypeInv'
  BY <1>6 DEF LockWaiting
<1>7. ASSUME NEW p \in Person, RaiseWaiting(p) PROVE TypeInv'
  BY <1>7 DEF RaiseWaiting
<1>8. ASSUME NEW p \in Person, Sleep(p) PROVE TypeInv'
  BY <1>8 DEF Sleep
<1>9. ASSUME NEW p \in Person, RelockIn(p) PROVE TypeInv'
  BY <1>9 DEF RelockIn
<1>10. ASSUME NEW p \in Person, LowerWaiting(p) PROVE TypeInv'
  BY <1>10 DEF LowerWaiting
<1>11. ASSUME NEW p \in Person, SemWait(p) PROVE TypeInv'
  BY <1>11 DEF SemWait
<1>12. ASSUME NEW p \in Person, Enter(p) PROVE TypeInv'
  BY <1>12 DEF Enter
<1>13. ASSUME NEW p \in Person, Leave(p) PROVE TypeInv'
  BY <1>13 DEF Leave
<1>14. ASSUME NEW p \in Person, GetValue(p) PROVE TypeInv'
  BY <1>14 DEF GetValue
<1>15. ASSUME NEW p \in Person, ClearFlag(p) PROVE TypeInv'
  BY <1>15 DEF ClearFlag, Awake
<1>16. ASSUME NEW p \in Person, SpuriousWakeup(p) PROVE TypeInv'
  BY <1>16 DEF SpuriousWakeup
<1>17. CASE UNCHANGED vars
  BY <1>17 DEF vars
<1> QED
  BY <1>1, <1>2, <1>3, <1>4, <1>5, <1>6, <1>7, <1>8, <1>9, <1>10, <1>11,
     <1>12, <1>13, <1>14, <1>15, <1>16, <1>17 DEF Next, Step, FirstLoop,
     SecondLoop, UseIt, Exit

\* Who enters a section takes its mutex, who leaves it frees it.
LEMMA LockStep == TypeInv /\ LockOwners /\ [Next]_vars => LockOwners'
<1> SUFFICES ASSUME TypeInv, LockOwners, [Next]_vars
             PROVE  LockOwners'
  OBVIOUS
<1> USE PersonSex DEF TypeInv, LockOwners, InSection, Go, Take, Release, Place
<1>1. ASSUME NEW p \in Person, MaleArrives(p) PROVE LockOwners'
  BY <1>1 DEF MaleArrives
<1>2. ASSUME NEW p \in Person, FemaleArrives(p) PROVE LockOwners'
  BY <1>2 DEF FemaleArrives
<1>3. ASSUME NEW p \in Person, FemaleNaps(p) PROVE LockOwners'
  BY <1>3 DEF FemaleNaps
<1>4. ASSUME NEW p \in Person, FemaleWakes(p) PROVE LockOwners'
  BY <1>4 DEF FemaleWakes
<1>5. ASSUME NEW p \in Person, LockIn(p) PROVE LockOwners'
  BY <1>5 DEF LockIn
<1>6. ASSUME NEW p \in Person, LockWaiting(p) PROVE LockOwners'
  BY <1>6 DEF LockWaiting
<1>7. ASSUME NEW p \in Person, RaiseWaiting(p) PROVE LockOwners'
  BY <1>7 DEF RaiseWaiting
<1>8. ASSUME NEW p \in Person, Sleep(p) PROVE LockOwners'
  BY <1>8 DEF Sleep
<1>9. ASSUME NEW p \in Person, RelockIn(p) PROVE LockOwners'
  BY <1>9 DEF RelockIn
<1>10. ASSUME NEW p \in Person, LowerWaiting(p) PROVE LockOwners'
  BY <1>10 DEF LowerWaiting
<1>11. ASSUME NEW p \in Person, SemWait(p) PROVE LockOwners'
  BY <1>11 DEF SemWait
<1>12. ASSUME NEW p \in Person, Enter(p) PROVE LockOwners'
  BY <1>12 DEF Enter
<1>13. ASSUME NEW p \in Person, Leave(p) PROVE LockOwners'
  BY <1>13 DEF Leave
<1>14. ASSUME NEW p \in Person, GetValue(p) PROVE LockOwners'
  BY <1>14 DEF GetValue
<1>15. ASSUME NEW p \in Person, ClearFlag(p) PROVE LockOwners'
  BY <1>15 DEF ClearFlag, Awake
<1>16. ASSUME NEW p \in Person, SpuriousWakeup(p) PROVE LockOwners'
  BY <1>16 DEF SpuriousWakeup
<1>17. CASE UNCHANGED vars
  BY <1>17 DEF vars
<1> QED
  BY <1>1, <1>2, <1>3, <1>4, <1>5, <1>6, <1>7, <1>8, <1>9, <1>10, <1>11,
     <1>12, <1>13, <1>14, <1>15, <1>16, <1>17 DEF Next, Step, FirstLoop,
     SecondLoop, UseIt, Exit

\* Counting those with a place: one more, one less, or the same.
LEMMA HoldersCount ==
    /\ IsFiniteSet(Holders) /\ Cardinality(Holders) \in Nat
    /\ Cardinality(Holders) = 0 => Holders = {}
<1>1. Holders \subseteq Person
  BY DEF Holders
<1>2. IsFiniteSet(Holders)
  BY <1>1, PersonSex, FS_Subset
<1> QED
  BY <1>2, FS_CardinalityType, FS_EmptySet

\* sem_wait takes a place and sem_post gives it back; no other step counts.
LEMMA PlacesStep == TypeInv /\ PlacesAddUp /\ [Next]_vars => PlacesAddUp'
<1> SUFFICES ASSUME TypeInv, PlacesAddUp, [Next]_vars
             PROVE  PlacesAddUp'
  OBVIOUS
<1> USE PersonSex DEF TypeInv, PlacesAddUp, Go, Take, Release, Place
<1>1. ASSUME NEW p \in Person, MaleArrives(p) PROVE PlacesAddUp'
  <2>1. Holders' = Holders
    BY <1>1 DEF Holders, MaleArrives
  <2> QED
    BY <1>1, <2>1 DEF MaleArrives
<1>2. ASSUME NEW p \in Person, FemaleArrives(p) PROVE PlacesAddUp'
  <2>1. Holders' = Holders
    BY <1>2 DEF Holders, FemaleArrives
  <2> QED
    BY <1>2, <2>1 DEF FemaleArrives
<1>3. ASSUME NEW p \in Person, FemaleNaps(p) PROVE PlacesAddUp'
  <2>1. Holders' = Holders
    BY <1>3 DEF Holders, FemaleNaps
  <2> QED
    BY <1>3, <2>1 DEF FemaleNaps
<1>4. ASSUME NEW p \in Person, FemaleWakes(p) PROVE PlacesAddUp'
  <2>1. Holders' = Holders
    BY <1>4 DEF Holders, FemaleWakes
  <2> QED
    BY <1>4, <2>1 DEF FemaleWakes
<1>5. ASSUME NEW p \in Person, LockIn(p) PROVE PlacesAddUp'
  <2>1. Holders' = Holders
    BY <1>5 DEF Holders, LockIn
  <2> QED
    BY <1>5, <2>1 DEF LockIn
<1>6. ASSUME NEW p \in Person, LockWaiting(p) PROVE PlacesAddUp'
  <2>1. Holders' = Holders
    BY <1>6 DEF Holders, LockWaiting
  <2> QED
    BY <1>6, <2>1 DEF LockWaiting
<1>7. ASSUME NEW p \in Person, RaiseWaiting(p) PROVE PlacesAddUp'
  <2>1. Holders' = Holders
    BY <1>7 DEF Holders, RaiseWaiting
  <2> QED
    BY <1>7, <2>1 DEF RaiseWaiting
<1>8. ASSUME NEW p \in Person, Sleep(p) PROVE PlacesAddUp'
  <2>1. Holders' = Holders
    BY <1>8 DEF Holders, Sleep
  <2> QED
    BY <1>8, <2>1 DEF Sleep
<1>9. ASSUME NEW p \in Person, RelockIn(p) PROVE PlacesAddUp'
  <2>1. Holders' = Holders
    BY <1>9 DEF Holders, RelockIn
  <2> QED
    BY <1>9, <2>1 DEF RelockIn
<1>10. ASSUME NEW p \in Person, LowerWaiting(p) PROVE PlacesAddUp'
  <2>1. Holders' = Holders
    BY <1>10 DEF Holders, LowerWaiting
  <2> QED
    BY <1>10, <2>1 DEF LowerWaiting
<1>11. ASSUME NEW p \in Person, SemWait(p) PROVE PlacesAddUp'
  <2>1. Holders' = Holders \cup {p} /\ p \notin Holders
    BY <1>11 DEF Holders, SemWait
  <2>2. Cardinality(Holders') = Cardinality(Holders) + 1
    BY <2>1, HoldersCount, FS_AddElement
  <2> QED
    BY <1>11, <2>2, HoldersCount DEF SemWait
<1>12. ASSUME NEW p \in Person, Enter(p) PROVE PlacesAddUp'
  <2>1. Holders' = Holders
    BY <1>12 DEF Holders, Enter
  <2> QED
    BY <1>12, <2>1 DEF Enter
<1>13. ASSUME NEW p \in Person, Leave(p) PROVE PlacesAddUp'
  <2>1. Holders' = Holders \ {p} /\ p \in Holders
    BY <1>13 DEF Holders, Leave
  <2>2. Cardinality(Holders') = Cardinality(Holders) - 1
    BY <2>1, HoldersCount, FS_RemoveElement
  <2> QED
    BY <1>13, <2>2, HoldersCount DEF Leave
<1>14. ASSUME NEW p \in Person, GetValue(p) PROVE PlacesAddUp'
  <2>1. Holders' = Holders
    BY <1>14 DEF Holders, GetValue
  <2> QED
    BY <1>14, <2>1 DEF GetValue
<1>15. ASSUME NEW p \in Person, ClearFlag(p) PROVE PlacesAddUp'
  <2>1. Holders' = Holders
    BY <1>15 DEF Holders, ClearFlag, Awake
  <2> QED
    BY <1>15, <2>1 DEF ClearFlag
<1>16. ASSUME NEW p \in Person, SpuriousWakeup(p) PROVE PlacesAddUp'
  <2>1. Holders' = Holders
    BY <1>16 DEF Holders, SpuriousWakeup
  <2> QED
    BY <1>16, <2>1 DEF SpuriousWakeup
<1>17. CASE UNCHANGED vars
  BY <1>17 DEF vars, Holders
<1> QED
  BY <1>1, <1>2, <1>3, <1>4, <1>5, <1>6, <1>7, <1>8, <1>9, <1>10, <1>11,
     <1>12, <1>13, <1>14, <1>15, <1>16, <1>17 DEF Next, Step, FirstLoop,
     SecondLoop, UseIt, Exit

\* Between the test of the semaphore and the clearing of the flag nobody of
\* the same sex can enter.
LEMMA ClearStep == IInv /\ [Next]_vars => ClearMeansEmpty'
<1> SUFFICES ASSUME IInv, [Next]_vars
             PROVE  ClearMeansEmpty'
  OBVIOUS
<1> USE PersonSex DEF IInv, TypeInv, ClearMeansEmpty, Inside, Go, Take,
   Release, Place
<1>1. ASSUME NEW p \in Person, MaleArrives(p) PROVE ClearMeansEmpty'
  BY <1>1 DEF MaleArrives
<1>2. ASSUME NEW p \in Person, FemaleArrives(p) PROVE ClearMeansEmpty'
  BY <1>2 DEF FemaleArrives
<1>3. ASSUME NEW p \in Person, FemaleNaps(p) PROVE ClearMeansEmpty'
  BY <1>3 DEF FemaleNaps
<1>4. ASSUME NEW p \in Person, FemaleWakes(p) PROVE ClearMeansEmpty'
  BY <1>4 DEF FemaleWakes
<1>5. ASSUME NEW p \in Person, LockIn(p) PROVE ClearMeansEmpty'
  BY <1>5 DEF LockIn
<1>6. ASSUME NEW p \in Person, LockWaiting(p) PROVE ClearMeansEmpty'
  BY <1>6 DEF LockWaiting
<1>7. ASSUME NEW p \in Person, RaiseWaiting(p) PROVE ClearMeansEmpty'
  BY <1>7 DEF RaiseWaiting
<1>8. ASSUME NEW p \in Person, Sleep(p) PROVE ClearMeansEmpty'
  BY <1>8 DEF Sleep
<1>9. ASSUME NEW p \in Person, RelockIn(p) PROVE ClearMeansEmpty'
  BY <1>9 DEF RelockIn
<1>10. ASSUME NEW p \in Person, LowerWaiting(p) PROVE ClearMeansEmpty'
  BY <1>10 DEF LowerWaiting
<1>11. ASSUME NEW p \in Person, SemWait(p) PROVE ClearMeansEmpty'
  BY <1>11 DEF SemWait
<1>12. ASSUME NEW p \in Person, Enter(p) PROVE ClearMeansEmpty'
  <2>1. \A r \in Person : at[r] = "clear" => Own(r) # Own(p)
    BY <1>12 DEF Enter, LockOwners, InSection
  <2> QED
    BY <1>12, <2>1 DEF Enter
<1>13. ASSUME NEW p \in Person, Leave(p) PROVE ClearMeansEmpty'
  BY <1>13 DEF Leave
<1>14. ASSUME NEW p \in Person, GetValue(p) PROVE ClearMeansEmpty'
  <2>1. bathroom_sem = b_limit => Holders = {}
    BY HoldersCount DEF PlacesAddUp
  <2>2. bathroom_sem = b_limit => \A r \in Person : at[r] # "inside"
    BY <2>1 DEF Holders
  <2>3. CASE at'[p] = "clear"
    BY <1>14, <2>2, <2>3 DEF GetValue
  <2>4. CASE at'[p] = "done"
    BY <1>14, <2>4 DEF GetValue
  <2> QED
    BY <1>14, <2>3, <2>4 DEF GetValue
<1>15. ASSUME NEW p \in Person, ClearFlag(p) PROVE ClearMeansEmpty'
  BY <1>15 DEF ClearFlag, Awake
<1>16. ASSUME NEW p \in Person, SpuriousWakeup(p) PROVE ClearMeansEmpty'
  BY <1>16 DEF SpuriousWakeup
<1>17. CASE UNCHANGED vars
  BY <1>17 DEF vars
<1> QED
  BY <1>1, <1>2, <1>3, <1>4, <1>5, <1>6, <1>7, <1>8, <1>9, <1>10, <1>11,
     <1>12, <1>13, <1>14, <1>15, <1>16, <1>17 DEF Next, Step, FirstLoop,
     SecondLoop, UseIt, Exit

\* Entering sets the flag, and it is only cleared when nobody is inside.
LEMMA FlagStep == IInv /\ [Next]_vars => FlagCoversOccupants'
<1> SUFFICES ASSUME IInv, [Next]_vars
             PROVE  FlagCoversOccupants'
  OBVIOUS
<1> USE PersonSex DEF IInv, TypeInv, FlagCoversOccupants, Inside, Go, Take,
   Release, Place
<1>1. ASSUME NEW p \in Person, MaleArrives(p) PROVE FlagCoversOccupants'
  BY <1>1 DEF MaleArrives
<1>2. ASSUME NEW p \in Person, FemaleArrives(p) PROVE FlagCoversOccupants'
  BY <1>2 DEF FemaleArrives
<1>3. ASSUME NEW p \in Person, FemaleNaps(p) PROVE FlagCoversOccupants'
  BY <1>3 DEF FemaleNaps
<1>4. ASSUME NEW p \in Person, FemaleWakes(p) PROVE FlagCoversOccupants'
  BY <1>4 DEF FemaleWakes
<1>5. ASSUME NEW p \in Person, LockIn(p) PROVE FlagCoversOccupants'
  BY <1>5 DEF LockIn
<1>6. ASSUME NEW p \in Person, LockWaiting(p) PROVE FlagCoversOccupants'
  BY <1>6 DEF LockWaiting
<1>7. ASSUME NEW p \in Person, RaiseWaiting(p) PROVE FlagCoversOccupants'
  BY <1>7 DEF RaiseWaiting
<1>8. ASSUME NEW p \in Person, Sleep(p) PROVE FlagCoversOccupants'
  BY <1>8 DEF Sleep
<1>9. ASSUME NEW p \in Person, RelockIn(p) PROVE FlagCoversOccupants'
  BY <1>9 DEF RelockIn
<1>10. ASSUME NEW p \in Person, LowerWaiting(p) PROVE FlagCoversOccupants'
  BY <1>10 DEF LowerWaiting
<1>11. ASSUME NEW p \in Person, SemWait(p) PROVE FlagCoversOccupants'
  BY <1>11 DEF SemWait
<1>12. ASSUME NEW p \in Person, Enter(p) PROVE FlagCoversOccupants'
  BY <1>12 DEF Enter
<1>13. ASSUME NEW p \in Person, Leave(p) PROVE FlagCoversOccupants'
  BY <1>13 DEF Leave
<1>14. ASSUME NEW p \in Person, GetValue(p) PROVE FlagCoversOccupants'
  BY <1>14 DEF GetValue
<1>15. ASSUME NEW p \in Person, ClearFlag(p) PROVE FlagCoversOccupants'
  <2>1. \A r \in Person : at'[r] = "inside" => at[r] = "inside"
    BY <1>15 DEF ClearFlag, Awake
  <2>2. at[p] = "clear" /\ Own(p) \in Sex
    BY <1>15 DEF ClearFlag
  <2>3. \A r \in Person : at[r] = "inside" => Own(r) # Own(p)
    BY <2>2 DEF ClearMeansEmpty
  <2>4. \A s \in Sex : s # Own(p) => in_bathroom'[s] = in_bathroom[s]
    BY <1>15 DEF ClearFlag
  <2> SUFFICES ASSUME NEW s \in Sex, NEW r \in Person,
                      at'[r] = "inside", Own(r) = s
               PROVE  in_bathroom'[s]
    OBVIOUS
  <2>5. at[r] = "inside"
    BY <2>1
  <2>6. s # Own(p)
    BY <2>3, <2>5
  <2>7. in_bathroom[s]
    BY <2>5
  <2> QED
    BY <2>4, <2>6, <2>7
<1>16. ASSUME NEW p \in Person, SpuriousWakeup(p) PROVE FlagCoversOccupants'
  BY <1>16 DEF SpuriousWakeup
<1>17. CASE UNCHANGED vars
  BY <1>17 DEF vars
<1> QED
  BY <1>1, <1>2, <1>3, <1>4, <1>5, <1>6, <1>7, <1>8, <1>9, <1>10, <1>11,
     <1>12, <1>13, <1>14, <1>15, <1>16, <1>17 DEF Next, Step, FirstLoop,
     SecondLoop, UseIt, Exit

\* The invariant holds at the start.
LEMMA InitInv == Init => IInv
<1> SUFFICES ASSUME Init PROVE IInv
  OBVIOUS
<1> USE PersonSex DEF Init
<1>1. TypeInv
  BY DEF TypeInv, Place, Sex
<1>2. LockOwners
  BY DEF LockOwners, InSection
<1>3. Holders = {}
  BY DEF Holders
<1>4. PlacesAddUp
  BY <1>3, FS_EmptySet DEF PlacesAddUp
<1>5. ClearMeansEmpty /\ FlagCoversOccupants
  BY DEF ClearMeansEmpty, FlagCoversOccupants, Inside
<1> QED
  BY <1>1, <1>2, <1>4, <1>5 DEF IInv

\* It is inductive.
THEOREM Invariant == Spec => []IInv
<1>1. IInv /\ [Next]_vars => IInv'
  BY TypeStep, LockStep, PlacesStep, ClearStep, FlagStep DEF IInv
<1> QED
  BY InitInv, <1>1, PTL DEF Spec

\* Type correctness: in particular the semaphore never exceeds b_limit.
THEOREM TypeCorrect == Spec => []TypeOK
<1>1. IInv => TypeOK
  BY HoldersCount, PersonSex DEF IInv, TypeInv, TypeOK, PlacesAddUp
<1> QED
  BY Invariant, <1>1, PTL

\* The sections of m_in_bathroom and f_in_bathroom exclude each other.
THEOREM MutualExclusion == Spec => []LockOwners
<1>1. IInv => LockOwners
  BY DEF IInv
<1> QED
  BY Invariant, <1>1, PTL

\* Places taken and places free always add up to b_limit.
THEOREM PlacesCounted == Spec => []PlacesAddUp
<1>1. IInv => PlacesAddUp
  BY DEF IInv
<1> QED
  BY Invariant, <1>1, PTL

\* At most b_limit people, of whatever sex, are in the bathroom.
THEOREM AtMostLimit == Spec => [](Cardinality(Holders) <= b_limit)
<1>1. IInv => Cardinality(Holders) <= b_limit
  BY HoldersCount, PersonSex DEF IInv, TypeInv, PlacesAddUp
<1> QED
  BY Invariant, <1>1, PTL

\* No flag is cleared over the head of someone inside.
THEOREM FlagsCover == Spec => []FlagCoversOccupants
<1>1. IInv => FlagCoversOccupants
  BY DEF IInv
<1> QED
  BY Invariant, <1>1, PTL

\* A raised flag keeps a thread that will lower it.
LEMMA WaitingStep == TypeInv /\ WaitingHasAWaiter /\ [Next]_vars =>
   WaitingHasAWaiter'
<1> SUFFICES ASSUME TypeInv, WaitingHasAWaiter, [Next]_vars
             PROVE  WaitingHasAWaiter'
  OBVIOUS
<1> USE PersonSex DEF TypeInv, WaitingHasAWaiter, Go, Take, Release, Place
<1>1. ASSUME NEW p \in Person, MaleArrives(p) PROVE WaitingHasAWaiter'
  BY <1>1 DEF MaleArrives
<1>2. ASSUME NEW p \in Person, FemaleArrives(p) PROVE WaitingHasAWaiter'
  BY <1>2 DEF FemaleArrives
<1>3. ASSUME NEW p \in Person, FemaleNaps(p) PROVE WaitingHasAWaiter'
  BY <1>3 DEF FemaleNaps
<1>4. ASSUME NEW p \in Person, FemaleWakes(p) PROVE WaitingHasAWaiter'
  BY <1>4 DEF FemaleWakes
<1>5. ASSUME NEW p \in Person, LockIn(p) PROVE WaitingHasAWaiter'
  BY <1>5 DEF LockIn
<1>6. ASSUME NEW p \in Person, LockWaiting(p) PROVE WaitingHasAWaiter'
  BY <1>6 DEF LockWaiting
<1>7. ASSUME NEW p \in Person, RaiseWaiting(p) PROVE WaitingHasAWaiter'
  BY <1>7 DEF RaiseWaiting
<1>8. ASSUME NEW p \in Person, Sleep(p) PROVE WaitingHasAWaiter'
  BY <1>8 DEF Sleep
<1>9. ASSUME NEW p \in Person, RelockIn(p) PROVE WaitingHasAWaiter'
  BY <1>9 DEF RelockIn
<1>10. ASSUME NEW p \in Person, LowerWaiting(p) PROVE WaitingHasAWaiter'
  BY <1>10 DEF LowerWaiting
<1>11. ASSUME NEW p \in Person, SemWait(p) PROVE WaitingHasAWaiter'
  BY <1>11 DEF SemWait
<1>12. ASSUME NEW p \in Person, Enter(p) PROVE WaitingHasAWaiter'
  BY <1>12 DEF Enter
<1>13. ASSUME NEW p \in Person, Leave(p) PROVE WaitingHasAWaiter'
  BY <1>13 DEF Leave
<1>14. ASSUME NEW p \in Person, GetValue(p) PROVE WaitingHasAWaiter'
  BY <1>14 DEF GetValue
<1>15. ASSUME NEW p \in Person, ClearFlag(p) PROVE WaitingHasAWaiter'
  BY <1>15 DEF ClearFlag, Awake
<1>16. ASSUME NEW p \in Person, SpuriousWakeup(p) PROVE WaitingHasAWaiter'
  BY <1>16 DEF SpuriousWakeup
<1>17. CASE UNCHANGED vars
  BY <1>17 DEF vars
<1> QED
  BY <1>1, <1>2, <1>3, <1>4, <1>5, <1>6, <1>7, <1>8, <1>9, <1>10, <1>11,
     <1>12, <1>13, <1>14, <1>15, <1>16, <1>17 DEF Next, Step, FirstLoop,
     SecondLoop, UseIt, Exit

\* Nobody naps for the sake of someone who is gone.
THEOREM WaitersExist == Spec => []WaitingHasAWaiter
<1>1. Init => TypeInv /\ WaitingHasAWaiter
  BY InitInv DEF IInv, Init, WaitingHasAWaiter
<1>2. TypeInv /\ WaitingHasAWaiter /\ [Next]_vars
        => (TypeInv /\ WaitingHasAWaiter)'
  BY TypeStep, WaitingStep
<1> QED
  BY <1>1, <1>2, PTL DEF Spec
=============================================================================
