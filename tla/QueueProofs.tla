----------------------------- MODULE QueueProofs -----------------------------
(***************************************************************************)
(* Facts about the ring buffer of queue.c, for a ring of any size.         *)
(***************************************************************************)
EXTENDS Queue, TLAPS

\* The next index of a ring of n slots, without the remainder.
LEMMA NextIndex ==
    ASSUME NEW n \in Nat \ {0}, NEW k \in 0 .. n - 1
    PROVE  /\ (k + 1) % n = IF k + 1 = n THEN 0 ELSE k + 1
           /\ (k + 1) % n \in 0 .. n - 1
  OBVIOUS

\* What queue_init gives is an empty queue.
LEMMA InitType ==
    ASSUME NEW n \in Nat \ {0}, NEW Payload
    PROVE  /\ queue_init(n) \in QueueType(Payload, n)
           /\ queue_is_empty(queue_init(n))
  BY DEF queue_init, SizeFor, QueueType, queue_is_empty

\* A queue stays one when a payload is pushed.
LEMMA PushType ==
    ASSUME NEW n \in Nat \ {0}, NEW Payload,
           NEW r \in QueueType(Payload, n), NEW p \in Payload
    PROVE  queue_push(r, p) \in QueueType(Payload, n)
<1>1. CASE queue_is_full(r)
  BY <1>1 DEF queue_push
<1>2. CASE ~queue_is_full(r)
  <2>1. /\ r.rear \in 0 .. n - 1 /\ r.maxSize = n
        /\ r.array \in [0 .. n - 1 -> Payload \cup {NULL}]
    BY DEF QueueType
  <2>2. (r.rear + 1) % r.maxSize \in 0 .. n - 1
    BY <2>1, NextIndex
  <2>3. [r.array EXCEPT ![r.rear] = p] \in [0 .. n - 1 -> Payload \cup {NULL}]
    BY <2>1
  <2>4. queue_push(r, p) = [r EXCEPT !.array = [r.array EXCEPT ![r.rear] = p],
                                     !.rear = (r.rear + 1) % r.maxSize]
    BY <1>2 DEF queue_push, QueueType
  <2> QED
    BY <2>2, <2>3, <2>4 DEF QueueType
<1> QED
  BY <1>1, <1>2

\* A queue stays one when it is popped, and a payload or NULL comes out.
LEMMA PopType ==
    ASSUME NEW n \in Nat \ {0}, NEW Payload,
           NEW r \in QueueType(Payload, n)
    PROVE  /\ queue_pop(r) \in QueueType(Payload, n)
           /\ Popped(r) \in Payload \cup {NULL}
<1>1. /\ r.front \in 0 .. n - 1 /\ r.maxSize = n
      /\ r.array \in [0 .. n - 1 -> Payload \cup {NULL}]
  BY DEF QueueType
<1>2. Popped(r) \in Payload \cup {NULL}
  BY <1>1 DEF Popped
<1>3. CASE queue_is_empty(r)
  BY <1>2, <1>3 DEF queue_pop
<1>4. CASE ~queue_is_empty(r)
  <2>1. (r.front + 1) % r.maxSize \in 0 .. n - 1
    BY <1>1, NextIndex
  <2>2. [r.array EXCEPT ![r.front] = NULL]
            \in [0 .. n - 1 -> Payload \cup {NULL}]
    BY <1>1
  <2>3. queue_pop(r) = [r EXCEPT !.array = [r.array EXCEPT ![r.front] = NULL],
                                 !.front = (r.front + 1) % r.maxSize]
    BY <1>4 DEF queue_pop, QueueType
  <2> QED
    BY <1>2, <2>1, <2>2, <2>3 DEF QueueType
<1> QED
  BY <1>3, <1>4

(***************************************************************************)
(* The shape of the ring.                                                  *)
(***************************************************************************)

\* What PushType and PopType say of the fields of the new ring.
LEMMA PushFields ==
    ASSUME NEW n \in Nat \ {0}, NEW Payload,
           NEW r \in QueueType(Payload, n), NEW p, ~queue_is_full(r)
    PROVE  /\ queue_push(r, p).front = r.front
           /\ queue_push(r, p).rear = IF r.rear + 1 = n THEN 0 ELSE r.rear + 1
           /\ queue_push(r, p).array = [r.array EXCEPT ![r.rear] = p]
           /\ queue_push(r, p).maxSize = n
<1>1. r.rear \in 0 .. n - 1 /\ r.maxSize = n
  BY DEF QueueType
<1>2. queue_push(r, p) = [r EXCEPT !.array = [r.array EXCEPT ![r.rear] = p],
                                   !.rear = (r.rear + 1) % r.maxSize]
  BY DEF queue_push, QueueType
<1>3. (r.rear + 1) % r.maxSize = IF r.rear + 1 = n THEN 0 ELSE r.rear + 1
  BY <1>1, NextIndex
<1> QED
  BY <1>1, <1>2, <1>3 DEF QueueType

LEMMA PopFields ==
    ASSUME NEW n \in Nat \ {0}, NEW Payload,
           NEW r \in QueueType(Payload, n), ~queue_is_empty(r)
    PROVE  /\ queue_pop(r).front = IF r.front + 1 = n THEN 0 ELSE r.front + 1
           /\ queue_pop(r).rear = r.rear
           /\ queue_pop(r).array = [r.array EXCEPT ![r.front] = NULL]
           /\ queue_pop(r).maxSize = n
           /\ Popped(r) = r.array[r.front]
<1>1. r.front \in 0 .. n - 1 /\ r.maxSize = n
  BY DEF QueueType
<1>2. queue_pop(r) = [r EXCEPT !.array = [r.array EXCEPT ![r.front] = NULL],
                               !.front = (r.front + 1) % r.maxSize]
  BY DEF queue_pop, QueueType
<1>3. (r.front + 1) % r.maxSize = IF r.front + 1 = n THEN 0 ELSE r.front + 1
  BY <1>1, NextIndex
<1> QED
  BY <1>1, <1>2, <1>3 DEF QueueType, Popped

LEMMA InitShape ==
    ASSUME NEW n \in Nat \ {0}
    PROVE  RingShape(queue_init(n))
  BY DEF queue_init, SizeFor, RingShape

\* A push keeps the shape of the ring: the slot under rear is free.
LEMMA PushShape ==
    ASSUME NEW n \in Nat \ {0}, NEW Payload, NULL \notin Payload,
           NEW r \in QueueType(Payload, n), NEW p \in Payload, RingShape(r)
    PROVE  RingShape(queue_push(r, p))
<1>1. CASE queue_is_full(r)
  BY <1>1 DEF queue_push
<1>2. CASE ~queue_is_full(r)
  <2>1. /\ r.front \in 0 .. n - 1 /\ r.rear \in 0 .. n - 1
        /\ r.array \in [0 .. n - 1 -> Payload \cup {NULL}]
    BY DEF QueueType
  <2>2. \A s \in 0 .. n - 1 : r.array[s] # NULL <=>
            r.front # r.rear /\ InUse(r, s)
    BY <1>2, <2>1 DEF RingShape, queue_is_full
  <2> DEFINE w == queue_push(r, p)
  <2>3. /\ w.front = r.front
        /\ w.rear = IF r.rear + 1 = n THEN 0 ELSE r.rear + 1
        /\ DOMAIN w.array = 0 .. n - 1
        /\ \A s \in 0 .. n - 1 :
              w.array[s] = IF s = r.rear THEN p ELSE r.array[s]
    <3>1. /\ w.front = r.front
          /\ w.rear = IF r.rear + 1 = n THEN 0 ELSE r.rear + 1
          /\ w.array = [r.array EXCEPT ![r.rear] = p]
      BY <1>2, PushFields
    <3> HIDE DEF w
    <3> QED
      BY <2>1, <3>1
  <2>4. p # NULL
    OBVIOUS
  <2> HIDE DEF w
  <2>5. RingShape(w)
    <3>1. CASE w.front = w.rear
      <4>1. \A s \in DOMAIN w.array : w.array[s] # NULL
        BY <2>1, <2>2, <2>3, <2>4, <3>1 DEF InUse
      <4> QED
        BY <3>1, <4>1 DEF RingShape
    <3>2. CASE w.front # w.rear
      <4>1. ASSUME NEW s \in DOMAIN w.array
            PROVE  w.array[s] # NULL <=> InUse(w, s)
        <5>1. s \in 0 .. n - 1
          BY <2>3
        <5>2. InUse(w, s) <=> s = r.rear \/ (r.front # r.rear /\ InUse(r, s))
          BY <2>1, <2>3, <3>2, <5>1 DEF InUse
        <5> QED
          BY <2>2, <2>3, <2>4, <5>1, <5>2
      <4> QED
        BY <3>2, <4>1 DEF RingShape
    <3> QED
      BY <3>1, <3>2
  <2> QED
    BY <2>5 DEF w
<1> QED
  BY <1>1, <1>2

\* A pop keeps the shape of the ring: the slot under front is in use.
LEMMA PopShape ==
    ASSUME NEW n \in Nat \ {0}, NEW Payload, NULL \notin Payload,
           NEW r \in QueueType(Payload, n), RingShape(r)
    PROVE  /\ RingShape(queue_pop(r))
           /\ ~queue_is_empty(r) => Popped(r) # NULL
<1>1. CASE queue_is_empty(r)
  BY <1>1 DEF queue_pop
<1>2. CASE ~queue_is_empty(r)
  <2>1. /\ r.front \in 0 .. n - 1 /\ r.rear \in 0 .. n - 1
        /\ r.array \in [0 .. n - 1 -> Payload \cup {NULL}]
    BY DEF QueueType
  <2>2. \A s \in 0 .. n - 1 : r.array[s] # NULL <=>
            r.front = r.rear \/ InUse(r, s)
    BY <1>2, <2>1 DEF RingShape, queue_is_empty
  <2> DEFINE w == queue_pop(r)
  <2>3. /\ w.rear = r.rear
        /\ w.front = IF r.front + 1 = n THEN 0 ELSE r.front + 1
        /\ DOMAIN w.array = 0 .. n - 1
        /\ \A s \in 0 .. n - 1 :
              w.array[s] = IF s = r.front THEN NULL ELSE r.array[s]
        /\ Popped(r) = r.array[r.front]
    <3>1. /\ w.rear = r.rear
          /\ w.front = IF r.front + 1 = n THEN 0 ELSE r.front + 1
          /\ w.array = [r.array EXCEPT ![r.front] = NULL]
          /\ Popped(r) = r.array[r.front]
      <4>1. r \in QueueType(Payload, n) /\ ~queue_is_empty(r)
        BY <1>2
      <4>2. /\ queue_pop(r).front = IF r.front + 1 = n THEN 0
                                                         ELSE r.front + 1
            /\ queue_pop(r).rear = r.rear
            /\ queue_pop(r).array = [r.array EXCEPT ![r.front] = NULL]
            /\ queue_pop(r).maxSize = n
            /\ Popped(r) = r.array[r.front]
        BY <4>1, PopFields
      <4> QED
        BY <4>2
    <3> HIDE DEF w
    <3> QED
      BY <2>1, <3>1
  <2> HIDE DEF w
  <2>4. RingShape(w)
    <3>1. CASE w.front = w.rear
      <4>1. \A s \in DOMAIN w.array : w.array[s] = NULL
        BY <2>1, <2>2, <2>3, <3>1 DEF InUse
      <4> QED
        BY <3>1, <4>1 DEF RingShape
    <3>2. CASE w.front # w.rear
      <4>1. ASSUME NEW s \in DOMAIN w.array
            PROVE  w.array[s] # NULL <=> InUse(w, s)
        <5>1. s \in 0 .. n - 1
          BY <2>3
        <5>2. InUse(w, s) <=>
                 s # r.front /\ (r.front = r.rear \/ InUse(r, s))
          BY <2>1, <2>3, <3>2, <5>1 DEF InUse
        <5> QED
          BY <2>2, <2>3, <5>1, <5>2
      <4> QED
        BY <3>2, <4>1 DEF RingShape
    <3> QED
      BY <3>1, <3>2
  <2>5. Popped(r) # NULL
    BY <2>1, <2>2, <2>3 DEF InUse
  <2> QED
    BY <2>4, <2>5 DEF w
<1> QED
  BY <1>1, <1>2

(***************************************************************************)
(* The contents of the ring.                                               *)
(***************************************************************************)

\* Indices that run past the last slot by less than a full turn.
LEMMA WrapIndex ==
    ASSUME NEW n \in Nat \ {0}, NEW x \in 0 .. 2 * n - 1
    PROVE  x % n = IF x < n THEN x ELSE x - n
<1>1. CASE x < n
  BY <1>1
<1>2. CASE x >= n
  <2>1. x = n * 1 + (x - n) /\ x - n \in 0 .. n - 1
    BY <1>2
  <2> QED
    BY <1>2, <2>1
<1> QED
  BY <1>1, <1>2

\* The distance from front to rear, without the remainder.
LEMMA DistanceOf ==
    ASSUME NEW n \in Nat \ {0}, NEW f \in 0 .. n - 1, NEW r \in 0 .. n - 1
    PROVE  (r - f) % n = IF f <= r THEN r - f ELSE r - f + n
<1>1. CASE f <= r
  BY <1>1
<1>2. CASE f > r
  BY <1>2
<1> QED
  BY <1>1, <1>2

\* The size of a ring and the slot of its k-th payload.
LEMMA ContentsOf ==
    ASSUME NEW n \in Nat \ {0}, NEW Payload,
           NEW r \in QueueType(Payload, n), RingShape(r)
    PROVE  /\ Size(r) \in 0 .. n
           /\ queue_is_full(r) => Size(r) = n
           /\ queue_is_empty(r) => Size(r) = 0
           /\ ~queue_is_full(r) =>
                 Size(r) = IF r.front <= r.rear THEN r.rear - r.front
                                                ELSE r.rear - r.front + n
           /\ DOMAIN Contents(r) = 1 .. Size(r)
           /\ \A k \in 1 .. Size(r) :
                 Contents(r)[k] = r.array[IF r.front + k - 1 < n
                                          THEN r.front + k - 1
                                          ELSE r.front + k - 1 - n]
<1>1. /\ r.front \in 0 .. n - 1 /\ r.rear \in 0 .. n - 1 /\ r.maxSize = n
      /\ r.array \in [0 .. n - 1 -> Payload \cup {NULL}]
  BY DEF QueueType
<1>2. Distance(r) = IF r.front <= r.rear THEN r.rear - r.front
                                         ELSE r.rear - r.front + n
  BY <1>1, DistanceOf DEF Distance
<1>3. /\ Size(r) \in 0 .. n
      /\ queue_is_full(r) => Size(r) = n
      /\ queue_is_empty(r) => Size(r) = 0
      /\ ~queue_is_full(r) => Size(r) = Distance(r)
  BY <1>1, <1>2 DEF Size, queue_is_full, queue_is_empty
<1>4. \A k \in 1 .. Size(r) :
         (r.front + k - 1) % r.maxSize = IF r.front + k - 1 < n
                                         THEN r.front + k - 1
                                         ELSE r.front + k - 1 - n
  <2> SUFFICES ASSUME NEW k \in 1 .. Size(r)
               PROVE  (r.front + k - 1) % n = IF r.front + k - 1 < n
                                              THEN r.front + k - 1
                                              ELSE r.front + k - 1 - n
    BY <1>1
  <2>1. PICK x \in 0 .. 2 * n - 1 : x = r.front + k - 1
    BY <1>1, <1>3
  <2>2. x % n = IF x < n THEN x ELSE x - n
    BY WrapIndex
  <2> QED
    BY <1>1, <1>3, <2>1, <2>2
<1> QED
  BY <1>1, <1>2, <1>3, <1>4 DEF Contents

\* The contents of a ring are a sequence of payloads.
LEMMA ContentsType ==
    ASSUME NEW n \in Nat \ {0}, NEW Payload, NULL \notin Payload,
           NEW r \in QueueType(Payload, n), RingShape(r)
    PROVE  Contents(r) \in Seq(Payload) /\ Len(Contents(r)) = Size(r)
<1>1. /\ r.front \in 0 .. n - 1 /\ r.rear \in 0 .. n - 1
      /\ r.array \in [0 .. n - 1 -> Payload \cup {NULL}]
  BY DEF QueueType
<1>2. Size(r) \in Nat /\ DOMAIN Contents(r) = 1 .. Size(r)
  BY ContentsOf
<1>3. ASSUME NEW k \in 1 .. Size(r)
      PROVE  Contents(r)[k] \in Payload
  <2> DEFINE s == IF r.front + k - 1 < n THEN r.front + k - 1
                                         ELSE r.front + k - 1 - n
  <2>1. Contents(r)[k] = r.array[s]
    BY ContentsOf
  <2>2. /\ Size(r) \in 0 .. n
        /\ queue_is_empty(r) => Size(r) = 0
        /\ ~queue_is_full(r) =>
              Size(r) = IF r.front <= r.rear THEN r.rear - r.front
                                             ELSE r.rear - r.front + n
    BY ContentsOf
  <2>3. s \in 0 .. n - 1
    BY <1>1, <2>2
  <2>4. r.array[s] # NULL
    <3>1. CASE queue_is_full(r)
      BY <1>1, <2>3, <3>1 DEF queue_is_full, RingShape
    <3>2. CASE ~queue_is_full(r)
      <4>1. r.front # r.rear
        BY <1>1, <2>2, <3>2
      <4>2. InUse(r, s)
        BY <1>1, <2>2, <3>2, <4>1 DEF InUse
      <4> QED
        BY <1>1, <2>3, <4>1, <4>2 DEF RingShape
    <3> QED
      BY <3>1, <3>2
  <2> QED
    BY <1>1, <2>1, <2>3, <2>4
<1>4. Contents(r) = [k \in 1 .. Size(r) |-> Contents(r)[k]]
  BY DEF Contents
<1> QED
  BY <1>2, <1>3, <1>4

\* A push that is not refused appends its payload to the contents.
LEMMA PushContents ==
    ASSUME NEW n \in Nat \ {0}, NEW Payload, NULL \notin Payload,
           NEW r \in QueueType(Payload, n), RingShape(r), ~queue_is_full(r),
           NEW p \in Payload
    PROVE  /\ Contents(queue_push(r, p)) = Append(Contents(r), p)
           /\ Len(Contents(r)) < n
<1> DEFINE w == queue_push(r, p)
<1>1. /\ r.front \in 0 .. n - 1 /\ r.rear \in 0 .. n - 1
      /\ r.array \in [0 .. n - 1 -> Payload \cup {NULL}]
  BY DEF QueueType
<1>2. /\ w.front = r.front
      /\ w.rear = IF r.rear + 1 = n THEN 0 ELSE r.rear + 1
      /\ w.array = [r.array EXCEPT ![r.rear] = p]
  BY PushFields
<1>3. w \in QueueType(Payload, n) /\ RingShape(w)
  BY PushType, PushShape
<1> HIDE DEF w
<1>4. /\ Size(r) = IF r.front <= r.rear THEN r.rear - r.front
                                        ELSE r.rear - r.front + n
      /\ DOMAIN Contents(r) = 1 .. Size(r)
      /\ \A k \in 1 .. Size(r) :
            Contents(r)[k] = r.array[IF r.front + k - 1 < n
                                     THEN r.front + k - 1
                                     ELSE r.front + k - 1 - n]
  BY ContentsOf
<1>5. /\ queue_is_full(w) => Size(w) = n
      /\ ~queue_is_full(w) =>
            Size(w) = IF w.front <= w.rear THEN w.rear - w.front
                                           ELSE w.rear - w.front + n
      /\ DOMAIN Contents(w) = 1 .. Size(w)
      /\ \A k \in 1 .. Size(w) :
            Contents(w)[k] = w.array[IF w.front + k - 1 < n
                                     THEN w.front + k - 1
                                     ELSE w.front + k - 1 - n]
  BY <1>3, ContentsOf
<1>6. Size(w) = Size(r) + 1 /\ Size(r) < n
  <2>1. queue_is_full(w) <=> w.front = w.rear
    <3>1. w.front = w.rear => w.front \in DOMAIN w.array
                              /\ r.rear \in DOMAIN w.array
                              /\ w.array[r.rear] # NULL
      BY <1>1, <1>2
    <3> QED
      BY <1>3, <3>1 DEF queue_is_full, RingShape
  <2>2. r.front = r.rear => Size(r) = 0
    BY <1>1, <1>4
  <2> QED
    BY <1>1, <1>2, <1>4, <1>5, <2>1, <2>2
<1>7. ASSUME NEW k \in 1 .. Size(r)
      PROVE  Contents(w)[k] = Contents(r)[k]
  <2> DEFINE s == IF r.front + k - 1 < n THEN r.front + k - 1
                                         ELSE r.front + k - 1 - n
  <2>1. s \in 0 .. n - 1 /\ s # r.rear
    BY <1>1, <1>4
  <2>2. Contents(w)[k] = w.array[s] /\ Contents(r)[k] = r.array[s]
    BY <1>1, <1>2, <1>4, <1>5, <1>6
  <2> QED
    BY <1>1, <1>2, <2>1, <2>2
<1>8. Contents(w)[Size(r) + 1] = p
  <2>1. Size(r) + 1 \in 1 .. Size(w)
    BY <1>1, <1>4, <1>6
  <2>2. (IF w.front + (Size(r) + 1) - 1 < n
         THEN w.front + (Size(r) + 1) - 1
         ELSE w.front + (Size(r) + 1) - 1 - n) = r.rear
    BY <1>1, <1>2, <1>4
  <2>3. Contents(w)[Size(r) + 1] = w.array[r.rear]
    BY <1>5, <2>1, <2>2
  <2> QED
    BY <1>1, <1>2, <2>3
<1>9. /\ Contents(r) \in Seq(Payload) /\ Len(Contents(r)) = Size(r)
      /\ Contents(w) \in Seq(Payload) /\ Len(Contents(w)) = Size(w)
  BY <1>3, ContentsType
<1>10. Contents(w) = Append(Contents(r), p)
  BY <1>6, <1>7, <1>8, <1>9
<1> QED
  BY <1>6, <1>9, <1>10 DEF w

\* A pop of a ring that is not empty takes the head of the contents.
LEMMA PopContents ==
    ASSUME NEW n \in Nat \ {0}, NEW Payload, NULL \notin Payload,
           NEW r \in QueueType(Payload, n), RingShape(r), ~queue_is_empty(r)
    PROVE  /\ Contents(r) # << >>
           /\ Popped(r) = Head(Contents(r))
           /\ Contents(queue_pop(r)) = Tail(Contents(r))
<1> DEFINE w == queue_pop(r)
<1>1. /\ r.front \in 0 .. n - 1 /\ r.rear \in 0 .. n - 1
      /\ r.array \in [0 .. n - 1 -> Payload \cup {NULL}]
  BY DEF QueueType
<1>0. /\ queue_pop(r).front = IF r.front + 1 = n THEN 0 ELSE r.front + 1
      /\ queue_pop(r).rear = r.rear
      /\ queue_pop(r).array = [r.array EXCEPT ![r.front] = NULL]
      /\ queue_pop(r).maxSize = n
      /\ Popped(r) = r.array[r.front]
  BY PopFields
<1>2. /\ w.rear = r.rear
      /\ w.front = IF r.front + 1 = n THEN 0 ELSE r.front + 1
  BY <1>0
<1>3. w.array = [r.array EXCEPT ![r.front] = NULL]
  BY <1>0
<1>4. Popped(r) = r.array[r.front]
  BY <1>0
<1>5. w \in QueueType(Payload, n) /\ RingShape(w)
  BY PopType, PopShape
<1> HIDE DEF w
<1>6. /\ Size(r) \in 0 .. n
      /\ queue_is_full(r) => Size(r) = n
      /\ ~queue_is_full(r) =>
            Size(r) = IF r.front <= r.rear THEN r.rear - r.front
                                           ELSE r.rear - r.front + n
      /\ DOMAIN Contents(r) = 1 .. Size(r)
      /\ \A k \in 1 .. Size(r) :
            Contents(r)[k] = r.array[IF r.front + k - 1 < n
                                     THEN r.front + k - 1
                                     ELSE r.front + k - 1 - n]
  BY ContentsOf
<1>7. /\ Size(w) \in 0 .. n
      /\ ~queue_is_full(w) =>
            Size(w) = IF w.front <= w.rear THEN w.rear - w.front
                                           ELSE w.rear - w.front + n
      /\ DOMAIN Contents(w) = 1 .. Size(w)
      /\ \A k \in 1 .. Size(w) :
            Contents(w)[k] = w.array[IF w.front + k - 1 < n
                                     THEN w.front + k - 1
                                     ELSE w.front + k - 1 - n]
  BY <1>5, ContentsOf
<1>8. ~queue_is_full(w)
  <2>1. CASE n = 1
    BY <1>1, <1>2, <1>3, <2>1 DEF queue_is_full
  <2>2. CASE n # 1
    <3>1. r.front # w.front /\ w.front \in 0 .. n - 1
      BY <1>1, <1>2, <2>2
    <3>2. w.array[r.front] = NULL /\ r.front \in DOMAIN w.array
      BY <1>1, <1>3
    <3> QED
      BY <1>1, <1>5, <3>1, <3>2 DEF queue_is_full, RingShape, QueueType
  <2> QED
    BY <2>1, <2>2
<1>9. Size(r) = Size(w) + 1
  <2>1. CASE queue_is_full(r)
    <3>1. r.front = r.rear /\ Size(r) = n
      BY <1>6, <2>1 DEF queue_is_full
    <3>2. Size(w) = n - 1
      BY <1>1, <1>2, <1>7, <1>8, <3>1
    <3> QED
      BY <3>1, <3>2
  <2>2. CASE ~queue_is_full(r)
    <3>1. r.front # r.rear
      BY <2>2 DEF queue_is_full, queue_is_empty
    <3>2. CASE r.front < r.rear
      BY <1>1, <1>2, <1>6, <1>7, <1>8, <2>2, <3>2
    <3>3. CASE r.front > r.rear
      <4>1. Size(r) = r.rear - r.front + n
        BY <1>1, <1>6, <2>2, <3>3
      <4>2. Size(w) = IF w.front <= w.rear THEN w.rear - w.front
                                           ELSE w.rear - w.front + n
        BY <1>7, <1>8
      <4>3. CASE r.front + 1 = n
        BY <1>1, <1>2, <4>1, <4>2, <4>3
      <4>4. CASE r.front + 1 # n
        BY <1>1, <1>2, <3>3, <4>1, <4>2, <4>4
      <4> QED
        BY <4>3, <4>4
    <3> QED
      BY <1>1, <3>1, <3>2, <3>3
  <2> QED
    BY <2>1, <2>2
<1>10. ASSUME NEW k \in 1 .. Size(w)
       PROVE  Contents(w)[k] = Contents(r)[k + 1]
  <2> DEFINE s == IF w.front + k - 1 < n THEN w.front + k - 1
                                         ELSE w.front + k - 1 - n
  <2>0. Size(w) \in 0 .. n /\ Size(r) \in 0 .. n
    BY <1>6, <1>7
  <2>1. k + 1 \in 1 .. Size(r)
    BY <1>9, <2>0
  <2>2. s = IF r.front + (k + 1) - 1 < n THEN r.front + (k + 1) - 1
                                         ELSE r.front + (k + 1) - 1 - n
    BY <1>1, <1>2, <2>0, <2>1, SMTT(60)
  <2>3. Contents(w)[k] = w.array[s] /\ Contents(r)[k + 1] = r.array[s]
    BY <1>6, <1>7, <2>1, <2>2
  <2>4. s \in 0 .. n - 1 /\ s # r.front
    BY <1>1, <1>9, <2>0, <2>1, <2>2, SMTT(60)
  <2> QED
    BY <1>1, <1>3, <2>3, <2>4
<1>11. Contents(r)[1] = Popped(r)
  <2>1. 1 \in 1 .. Size(r)
    BY <1>6, <1>7, <1>9
  <2> QED
    BY <1>1, <1>4, <1>6, <2>1
<1>12. /\ Contents(r) \in Seq(Payload) /\ Len(Contents(r)) = Size(r)
       /\ Contents(w) \in Seq(Payload) /\ Len(Contents(w)) = Size(w)
  BY <1>5, ContentsType
<1>13. Contents(r) # << >>
  BY <1>6, <1>9, <1>12
<1>14. Contents(w) = Tail(Contents(r))
  BY <1>9, <1>10, <1>12, <1>13
<1> QED
  BY <1>11, <1>13, <1>14 DEF w
=============================================================================
