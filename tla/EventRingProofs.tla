-------------------------- MODULE EventRingProofs --------------------------
(***************************************************************************)
(* Theorems about EventRing for every set of threads, every capacity and   *)
(* every counter width, through wrapping counters and drains inside the    *)
(* callbacks of drains: type correctness, that no message is overwritten   *)
(* before a drain has read it, and that the ring implements EventQueue.    *)
(*                                                                         *)
(* The counters are compared as uint32_t, so the argument needs to know    *)
(* that two counters with equal 32-bit views are equal.  That holds        *)
(* because they are less than 2^32 apart: Snapshots below carries that     *)
(* fact for the values a thread has loaded, Counters for head and Batches  *)
(* for the drains.                                                         *)
(***************************************************************************)
EXTENDS EventRing, SequenceTheorems, TLAPS

\* Two numbers less than m apart with the same remainder modulo m are equal:
\* the comparisons of 32-bit counters in push and dispatch_all are exact.
LEMMA EqualResidues ==
  ASSUME NEW m \in Nat \ {0}, NEW a \in Nat, NEW b \in Nat,
         a <= b, b - a < m, a % m = b % m
  PROVE  a = b
<1>1. /\ a = m * (a \div m) + (a % m)
      /\ b = m * (b \div m) + (b % m)
      /\ a \div m \in Int
      /\ b \div m \in Int
  BY SMT
<1>2. (b \div m - a \div m) * m = b - a
  BY <1>1, SMT
<1>3. b \div m - a \div m < 1
  <2>1. SUFFICES ASSUME b \div m - a \div m >= 1 PROVE FALSE
    BY <1>1, SMT
  <2>2. (b \div m - a \div m) * m >= m
    BY <1>1, <2>1, SMT
  <2>3. QED
    BY <1>2, <2>2, SMT
<1>4. b \div m - a \div m >= 0
  BY <1>1, SMT
<1>5. QED
  BY <1>1, <1>3, <1>4, SMT

\* Below the modulus the 32-bit view is the number itself.
LEMMA SmallResidue ==
  ASSUME NEW m \in Nat \ {0}, NEW a \in Nat, a < m
  PROVE  a % m = a
BY SMT

\* A remainder is the only one.
LEMMA ResidueUnique ==
  ASSUME NEW m \in Nat \ {0}, NEW a \in Int, NEW q \in Int,
         NEW r \in 0 .. m - 1, a = q * m + r
  PROVE  a % m = r
<1>1. /\ a \div m \in Int
      /\ a % m \in 0 .. m - 1
      /\ a = (a \div m) * m + (a % m)
  BY SMT
<1>2. (q - a \div m) * m = (a % m) - r
  BY <1>1, SMT
<1>3. q - a \div m < 1
  <2>1. SUFFICES ASSUME q - a \div m >= 1 PROVE FALSE
    BY <1>1, SMT
  <2>2. (q - a \div m) * m >= m
    BY <1>1, <2>1, SMT
  <2>3. QED
    BY <1>1, <1>2, <2>2, SMT
<1>4. a \div m - q < 1
  <2>1. SUFFICES ASSUME a \div m - q >= 1 PROVE FALSE
    BY <1>1, SMT
  <2>2. (a \div m - q) * m >= m
    BY <1>1, <2>1, SMT
  <2>3. (a \div m - q) * m = r - (a % m)
    BY <1>1, SMT
  <2>4. QED
    BY <1>1, <2>2, <2>3, SMT
<1>5. QED
  BY <1>1, <1>3, <1>4, SMT

\* The wrap of the counters does not disturb the slot order: 2^32 is a
\* multiple of the capacity.
LEMMA SlotIsResidue ==
  ASSUME NEW n \in Nat
  PROVE  Slot(n) = n % Capacity
<1>1. PICK k \in 1 .. Modulus : Modulus = k * Capacity
  BY CapacityAssumption
<1>2. /\ Capacity \in Nat \ {0}
      /\ Modulus \in Nat \ {0}
  BY CapacityAssumption, SMT
<1> DEFINE q1 == n \div Modulus
           r1 == n % Modulus
           q2 == r1 \div Capacity
           r2 == r1 % Capacity
<1>3. /\ q1 \in Int /\ r1 \in 0 .. Modulus - 1 /\ n = q1 * Modulus + r1
  BY <1>2, SMT
<1>4. /\ q2 \in Int /\ r2 \in 0 .. Capacity - 1 /\ r1 = q2 * Capacity + r2
  BY <1>2, <1>3, SMT
<1>5. n = (q1 * k + q2) * Capacity + r2
  <2> HIDE DEF q1, q2, r1, r2
  <2> QED BY <1>1, <1>2, <1>3, <1>4, SMT
<1>6. q1 * k + q2 \in Int
  <2> HIDE DEF q1, q2
  <2> QED BY <1>1, <1>3, <1>4, SMT
<1>7. n % Capacity = r2
  <2> HIDE DEF q1, q2, r1, r2
  <2>1. n \in Int /\ r2 \in 0 .. Capacity - 1
    BY <1>4, SMT
  <2> QED
    BY <1>2, <1>5, <1>6, <2>1, ResidueUnique, Zenon
<1>8. QED
  BY <1>7 DEF Slot, U32

\* Positions less than a ring apart are in different slots.
LEMMA SlotInjective ==
  ASSUME NEW a \in Nat, NEW b \in Nat, a < b, b - a < Capacity
  PROVE  Slot(a) # Slot(b)
<1>1. Capacity \in Nat \ {0}
  BY CapacityAssumption
<1>2. SUFFICES ASSUME a % Capacity = b % Capacity PROVE FALSE
  BY SlotIsResidue
<1>3. a = b
  <2>1. a <= b
    BY SMT
  <2>2. QED
    BY <1>1, <1>2, <2>1, EqualResidues, Zenon
<1>4. QED
  BY <1>3, SMT

LEMMA SlotInRange ==
  ASSUME NEW n \in Nat
  PROVE  Slot(n) \in SlotIndex
<1>1. Capacity \in Nat \ {0}
  BY CapacityAssumption
<1>2. n % Capacity \in 0 .. Capacity - 1
  BY <1>1, SMT
<1>3. QED
  BY <1>2, SlotIsResidue DEF SlotIndex

----------------------------------------------------------------------------
(* The inductive invariant.                                                *)

\* The counters in order, and head within 2^32 of the reservations.
Counters ==
  /\ NoOverrun
  /\ reserve_tail - head < Modulus

\* Every open drain is between its bounds, has nothing before it that nobody
\* took, and does not fall 2^32 reservations behind.
Batches ==
  \A d \in 1 .. depth :
    /\ cur[d] <= stop[d]
    /\ stop[d] <= tail
    /\ cur[d] <= taken
    /\ reserve_tail - cur[d] < Modulus

\* Until a callback pumps, head and the one drain are where the history says.
Repeats ==
  ~repeating =>
    /\ depth <= 1
    /\ depth = 0 => head = taken
    /\ depth = 1 => cur[1] = taken

\* What a thread that is about to reserve has loaded is not newer than the
\* counter and less than 2^32 behind reserve_tail.
Snapshots ==
  \A p \in Producers :
    /\ pc[p] = "load" =>
         /\ seenTail[p] # Unread => /\ seenTail[p] <= reserve_tail
                                    /\ reserve_tail - seenTail[p] < Modulus
         /\ seenHead[p] # Unread => /\ seenHead[p] <= taken
                                    /\ reserve_tail - seenHead[p] < Modulus
    /\ pc[p] = "idle" => seenTail[p] = Unread
    /\ pc[p] # "load" => seenHead[p] = Unread

\* A thread with a reservation owns one position between tail and
\* reserve_tail, and no two threads own the same.
Reservations ==
  /\ \A p \in Producers : pc[p] \in {"write", "commit"} =>
       /\ tail <= seenTail[p]
       /\ seenTail[p] < reserve_tail
  /\ \A p, q \in Producers :
       /\ p # q
       /\ pc[p] \in {"write", "commit"}
       /\ pc[q] \in {"write", "commit"}
       => seenTail[p] # seenTail[q]

\* A thread inside push posts a real message.
Posting ==
  \A p \in Producers : pc[p] # "idle" => msg[p] \in Messages

\* A thread that has filled its slot finds its message there until it
\* commits, and every committed slot has been filled.
Written ==
  /\ CommittedIsWritten
  /\ \A p \in Producers :
       pc[p] = "commit" => slots[Slot(seenTail[p])] = msg[p]

IInv == TypeOK /\ Counters /\ Batches /\ Repeats /\ Snapshots /\ Reservations
          /\ Posting /\ Written

----------------------------------------------------------------------------
(* The invariant holds initially.                                          *)

LEMMA CapacityFacts ==
  /\ Capacity \in Nat \ {0}
  /\ Modulus \in Nat \ {0}
  /\ Capacity < Modulus
BY CapacityAssumption, SMT

LEMMA InitIInv == Init => IInv
<1> SUFFICES ASSUME Init PROVE IInv
  OBVIOUS
<1>1. TypeOK
  <2>1. delivered \in {<<>>} \union {<<m>> : m \in Messages}
    BY Zenon DEF Init
  <2>2. /\ pc \in [Producers -> {"idle", "load", "write", "commit"}]
        /\ slots \in [SlotIndex -> Messages \union {NoMessage}]
        /\ msg \in [Producers -> Messages \union {NoMessage}]
    BY Zenon DEF Init
  <2>3. /\ seenTail \in [Producers -> Nat \union {Unread}]
        /\ seenHead \in [Producers -> Nat \union {Unread}]
        /\ posts \in [Producers -> 0 .. MaxPosts]
    BY ThreadAssumption, SMT DEF Init
  <2>4. /\ reserve_tail \in Nat /\ tail \in Nat /\ head \in Nat
        /\ depth \in 0 .. MaxDrains /\ taken \in Nat
        /\ cur \in [Depths -> Nat] /\ stop \in [Depths -> Nat]
    BY ThreadAssumption, SMT DEF Init
  <2>5. /\ event_mask \in SUBSET Types
        /\ appRuns \in BOOLEAN /\ repeating \in BOOLEAN
    BY Zenon DEF Init
  <2>6. QED
    BY <2>1, <2>2, <2>3, <2>4, <2>5, Zenon DEF TypeOK
<1>2. Counters /\ Batches /\ Repeats
  BY CapacityFacts, SMT DEF Init, Counters, NoOverrun, Batches, Repeats
<1>3. Snapshots /\ Reservations /\ Posting
  BY DEF Init, Snapshots, Reservations, Posting
<1>4. Written
  <2>1. 0 .. tail - 1 = {}
    BY SMT DEF Init
  <2>2. QED
    BY <2>1 DEF Init, Written, CommittedIsWritten
<1>5. QED
  BY <1>1, <1>2, <1>3, <1>4 DEF IInv

----------------------------------------------------------------------------
(* Every step keeps the invariant: the steps of a post.                    *)

\* The depths in use have typed counters.
LEMMA OpenDepths ==
  ASSUME IInv, NEW d \in 1 .. depth
  PROVE  /\ d \in Depths
         /\ cur[d] \in Nat
         /\ stop[d] \in Nat
<1>1. depth \in 0 .. MaxDrains
  BY Zenon DEF IInv, TypeOK
<1>2. d \in Depths
  BY <1>1, ThreadAssumption, SMT DEF Depths
<1>3. QED
  BY <1>2, Zenon DEF IInv, TypeOK

LEMMA PostStep ==
  ASSUME IInv, NEW p \in Producers, NEW t \in Types, Post(p, t)
  PROVE  IInv'
<1> USE DEF IInv, Post, producerVars, consumerVars
<1>1. TypeOK'
  <2>1. posts[p] + 1 \in 0 .. MaxPosts
    BY ThreadAssumption, SMT DEF TypeOK
  <2>2. [from |-> p, nr |-> posts[p] + 1, type |-> t] \in Messages
    BY ThreadAssumption, SMT DEF Messages, TypeOK
  <2>3. QED
    BY <2>1, <2>2, Zenon DEF TypeOK
<1>2. Counters' /\ Batches' /\ Repeats'
  BY Zenon DEF Counters, NoOverrun, Batches, Repeats
<1>a. /\ \A q \in Producers : q # p => pc'[q] = pc[q]
      /\ pc[p] = "idle"
      /\ pc'[p] \in {"idle", "load"}
      /\ ~(t \in event_mask) => pc'[p] = "idle"
  BY Zenon DEF TypeOK, MayCall
<1>b. seenTail[p] = Unread /\ seenHead[p] = Unread
  BY <1>a, Zenon DEF Snapshots
<1>3. Snapshots'
  BY <1>a, <1>b, Zenon DEF Snapshots
<1>4. Reservations'
  <2>1. ASSUME NEW q \in Producers, pc'[q] \in {"write", "commit"}
        PROVE  q # p /\ pc[q] \in {"write", "commit"}
    BY <1>a, <2>1, Zenon
  <2>2. QED
    BY <2>1, Zenon DEF Reservations
<1>5. Posting'
  <2>1. posts[p] + 1 \in 1 .. MaxPosts
    BY ThreadAssumption, SMT DEF TypeOK
  <2>2. [from |-> p, nr |-> posts[p] + 1, type |-> t] \in Messages
    BY <2>1 DEF Messages
  <2>3. SUFFICES ASSUME NEW q \in Producers, pc'[q] # "idle"
                 PROVE  msg'[q] \in Messages
    BY DEF Posting
  <2>4. CASE q = p
    <3>1. t \in event_mask
      BY <1>a, <2>3, <2>4, Zenon
    <3>2. msg'[p] = [from |-> p, nr |-> posts[p] + 1, type |-> t]
      BY <3>1, Zenon DEF TypeOK
    <3>3. QED
      BY <2>2, <2>4, <3>2
  <2>5. CASE q # p
    BY <2>3, <2>5 DEF Posting, TypeOK
  <2>6. QED
    BY <2>4, <2>5
<1>6. Written'
  <2>1. \A q \in Producers : pc'[q] = "commit" =>
          pc[q] = "commit" /\ msg'[q] = msg[q]
    BY <1>a, Zenon DEF TypeOK
  <2>2. QED
    BY <2>1, Zenon DEF Written, CommittedIsWritten, Slot, U32
<1>7. QED
  BY <1>1, <1>2, <1>3, <1>4, <1>5, <1>6

LEMMA LoadReserveTailStep ==
  ASSUME IInv, NEW p \in Producers, LoadReserveTail(p)
  PROVE  IInv'
<1> USE DEF IInv, LoadReserveTail, producerVars, consumerVars
<1>1. TypeOK'
  BY SMT DEF TypeOK
<1>2. Counters' /\ Batches' /\ Repeats'
  BY Zenon DEF Counters, NoOverrun, Batches, Repeats
<1>3. Snapshots'
  BY CapacityFacts, SMT DEF Snapshots, Counters, NoOverrun, TypeOK, Unread
<1>4. Reservations'
  BY SMT DEF Reservations, TypeOK
<1>5. Posting'
  BY SMT DEF Posting, TypeOK
<1>6. Written'
  BY SMT DEF Written, CommittedIsWritten, TypeOK, Slot, U32
<1>7. QED
  BY <1>1, <1>2, <1>3, <1>4, <1>5, <1>6

LEMMA LoadHeadStep ==
  ASSUME IInv, NEW p \in Producers, LoadHead(p)
  PROVE  IInv'
<1> USE DEF IInv, LoadHead, producerVars, consumerVars
<1>1. TypeOK'
  BY SMT DEF TypeOK
<1>2. Counters' /\ Batches' /\ Repeats'
  BY Zenon DEF Counters, NoOverrun, Batches, Repeats
<1>3. Snapshots'
  BY CapacityFacts, SMT DEF Snapshots, Counters, NoOverrun, TypeOK, Unread
<1>4. Reservations'
  BY SMT DEF Reservations, TypeOK
<1>5. Posting'
  BY SMT DEF Posting, TypeOK
<1>6. Written'
  BY SMT DEF Written, CommittedIsWritten, TypeOK, Slot, U32
<1>7. QED
  BY <1>1, <1>2, <1>3, <1>4, <1>5, <1>6

LEMMA RejectStep ==
  ASSUME IInv, NEW p \in Producers, Reject(p)
  PROVE  IInv'
<1> USE DEF IInv, Reject, Loaded, producerVars, consumerVars
<1>1. TypeOK'
  BY SMT DEF TypeOK
<1>2. Counters' /\ Batches' /\ Repeats'
  BY Zenon DEF Counters, NoOverrun, Batches, Repeats
<1>3. Snapshots'
  BY SMT DEF Snapshots, TypeOK
<1>4. Reservations'
  BY SMT DEF Reservations, TypeOK
<1>5. Posting'
  BY SMT DEF Posting, TypeOK
<1>6. Written'
  BY SMT DEF Written, CommittedIsWritten, TypeOK, Slot, U32
<1>7. QED
  BY <1>1, <1>2, <1>3, <1>4, <1>5, <1>6

LEMMA RetryStep ==
  ASSUME IInv, NEW p \in Producers, Retry(p)
  PROVE  IInv'
<1> USE DEF IInv, Retry, Loaded, producerVars, consumerVars
<1>1. TypeOK'
  BY SMT DEF TypeOK
<1>2. Counters' /\ Batches' /\ Repeats'
  BY Zenon DEF Counters, NoOverrun, Batches, Repeats
<1>3. Snapshots'
  BY SMT DEF Snapshots, TypeOK
<1>4. Reservations'
  BY SMT DEF Reservations, TypeOK
<1>5. Posting'
  BY SMT DEF Posting, TypeOK
<1>6. Written'
  BY SMT DEF Written, CommittedIsWritten, TypeOK, Slot, U32
<1>7. QED
  BY <1>1, <1>2, <1>3, <1>4, <1>5, <1>6

\* A CAS that succeeds finds the counter it loaded, and the head it loaded
\* leaves room: the two facts on which push rests.
LEMMA ReservationFits ==
  ASSUME IInv, NEW p \in Producers, Reserve(p)
  PROVE  /\ seenTail[p] = reserve_tail
         /\ reserve_tail < taken + Capacity
<1> USE DEF IInv, Reserve, Loaded, producerVars, consumerVars
<1>a. seenTail[p] = reserve_tail
  <2>1. /\ seenTail[p] \in Nat
        /\ reserve_tail \in Nat
        /\ seenTail[p] <= reserve_tail
        /\ reserve_tail - seenTail[p] < Modulus
    BY SMT DEF TypeOK, Snapshots, Unread
  <2>2. seenTail[p] % Modulus = reserve_tail % Modulus
    BY DEF U32
  <2>3. QED
    BY <2>1, <2>2, CapacityFacts, EqualResidues, Zenon
<1>b. reserve_tail < taken + Capacity
  <2>1. /\ seenHead[p] \in Nat
        /\ seenHead[p] <= taken
        /\ taken \in Nat
        /\ taken <= tail /\ tail <= reserve_tail /\ tail \in Nat
        /\ reserve_tail \in Nat
        /\ reserve_tail - seenHead[p] < Modulus
    BY SMT DEF TypeOK, Snapshots, Unread, Counters, NoOverrun
  <2>2. reserve_tail - seenHead[p] \in Nat
    BY <2>1, SMT
  <2>3. (reserve_tail - seenHead[p]) % Modulus = reserve_tail - seenHead[p]
    BY <2>1, <2>2, CapacityFacts, SmallResidue, Zenon
  <2>4. ~((reserve_tail - seenHead[p]) % Modulus >= Capacity)
    BY <1>a, Zenon DEF LooksFull, U32
  <2>5. QED
    BY <2>1, <2>3, <2>4, CapacityFacts, SMT
<1>c. QED
  BY <1>a, <1>b

LEMMA ReserveStep ==
  ASSUME IInv, NEW p \in Producers, Reserve(p)
  PROVE  IInv'
<1> USE DEF IInv, Reserve, Loaded, producerVars, consumerVars
<1>a. seenTail[p] = reserve_tail
  BY ReservationFits
<1>b. reserve_tail < taken + Capacity
  BY ReservationFits
<1>c. PICK next : next = reserve_tail + 1 /\ NoStallAcrossWrap(next)
  BY Zenon
<1>d. /\ next - head < Modulus
      /\ \A d \in 1 .. depth : next - cur[d] < Modulus
      /\ \A q \in Producers : seenTail[q] # Unread => next - seenTail[q] < Modulus
      /\ \A q \in Producers : seenHead[q] # Unread => next - seenHead[q] < Modulus
  BY <1>c, Zenon DEF NoStallAcrossWrap
<1>1. TypeOK'
  BY SMT DEF TypeOK
<1>2. Counters' /\ Batches' /\ Repeats'
  <2>1. /\ NoOverrun
        /\ (reserve_tail + 1) - head < Modulus
        /\ reserve_tail \in Nat /\ taken \in Nat /\ tail \in Nat
    <3>2. (reserve_tail + 1) - head < Modulus
      BY <1>c, <1>d
    <3>3. QED
      BY <3>2, Zenon DEF Counters, TypeOK
  <2>2. NoOverrun'
    BY <1>b, <2>1, CapacityFacts, SMT DEF NoOverrun
  <2>3. Counters'
    <3>1. reserve_tail' = reserve_tail + 1 /\ head' = head
      BY Zenon
    <3>2. reserve_tail' - head' < Modulus
      BY <2>1, <3>1, Zenon
    <3>3. QED
      BY <2>2, <3>2, Zenon DEF Counters
  <2>4. Batches'
    BY <1>c, <1>d DEF Batches
  <2>5. Repeats'
    BY Zenon DEF Repeats
  <2>6. QED
    BY <2>3, <2>4, <2>5
<1>3. Snapshots'
  <2>2. ASSUME NEW q \in Producers, pc'[q] = "load"
        PROVE  /\ seenTail[q] # Unread => /\ seenTail[q] <= reserve_tail + 1
                                          /\ (reserve_tail + 1) - seenTail[q] < Modulus
               /\ seenHead[q] # Unread => /\ seenHead[q] <= taken
                                          /\ (reserve_tail + 1) - seenHead[q] < Modulus
               /\ q # p
    <3>1. q # p /\ pc[q] = "load"
      BY <2>2, Zenon DEF TypeOK
    <3>2. ASSUME seenTail[q] # Unread PROVE seenTail[q] <= reserve_tail + 1
      <4>1. seenTail[q] \in Nat /\ reserve_tail \in Nat
            /\ seenTail[q] <= reserve_tail
        BY <3>1, <3>2, Zenon DEF TypeOK, Snapshots, Unread
      <4>2. QED
        BY <4>1, SMT
    <3>3. ASSUME seenTail[q] # Unread
          PROVE  (reserve_tail + 1) - seenTail[q] < Modulus
      BY <1>c, <1>d, <3>3
    <3>4. ASSUME seenHead[q] # Unread
          PROVE  (reserve_tail + 1) - seenHead[q] < Modulus
      BY <1>c, <1>d, <3>4
    <3>5. seenHead[q] # Unread => seenHead[q] <= taken
      BY <3>1, Zenon DEF Snapshots
    <3>6. QED
      BY <3>1, <3>2, <3>3, <3>4, <3>5
  <2>3. \A q \in Producers :
          /\ pc'[q] = "idle" => pc[q] = "idle"
          /\ pc'[q] # "load" => q = p \/ pc[q] # "load"
          /\ q # p => seenHead'[q] = seenHead[q]
    BY Zenon DEF TypeOK
  <2>4. seenHead'[p] = Unread
    BY Zenon DEF TypeOK
  <2>5. /\ reserve_tail' = reserve_tail + 1 /\ taken' = taken
        /\ seenTail' = seenTail
    BY Zenon
  <2>6. ASSUME NEW q \in Producers, pc'[q] = "load"
        PROVE  seenHead'[q] = seenHead[q]
    BY <2>2, <2>3, <2>6
  <2> HIDE DEF Reserve, Loaded, producerVars, consumerVars
  <2>7. ASSUME NEW q \in Producers
        PROVE  /\ pc'[q] = "idle" => seenTail'[q] = Unread
               /\ pc'[q] # "load" => seenHead'[q] = Unread
    BY <2>3, <2>4, <2>5, Zenon DEF Snapshots
  <2>8. ASSUME NEW q \in Producers, pc'[q] = "load"
        PROVE  /\ seenTail'[q] # Unread =>
                    /\ seenTail'[q] <= reserve_tail'
                    /\ reserve_tail' - seenTail'[q] < Modulus
               /\ seenHead'[q] # Unread =>
                    /\ seenHead'[q] <= taken'
                    /\ reserve_tail' - seenHead'[q] < Modulus
    BY <2>2, <2>5, <2>6, <2>8, Zenon
  <2>9. QED
    BY <2>7, <2>8, Zenon DEF Snapshots
<1>4. Reservations'
  <2>1. ASSUME NEW q \in Producers, pc'[q] \in {"write", "commit"}
        PROVE  tail <= seenTail[q] /\ seenTail[q] < reserve_tail + 1
    <3>1. CASE q = p
      BY <1>a, <3>1, SMT DEF TypeOK, Counters, NoOverrun
    <3>2. CASE q # p
      <4>1. pc[q] \in {"write", "commit"}
        BY <2>1, <3>2, Zenon DEF TypeOK
      <4>2. tail <= seenTail[q] /\ seenTail[q] < reserve_tail
        BY <4>1, Zenon DEF Reservations
      <4>3. seenTail[q] \in Int /\ reserve_tail \in Nat
        BY SMT DEF TypeOK, Unread
      <4>4. QED
        BY <4>2, <4>3, SMT
    <3>3. QED
      BY <3>1, <3>2
  <2>2. ASSUME NEW q \in Producers, pc[q] \in {"write", "commit"}
        PROVE  seenTail[q] # seenTail[p]
    BY <1>a, <2>2, SMT DEF Reservations, TypeOK, Unread
  <2>3. ASSUME NEW q \in Producers, pc'[q] \in {"write", "commit"}, q # p
        PROVE  pc[q] \in {"write", "commit"}
    BY <2>3, Zenon DEF TypeOK
  <2>4. QED
    BY <2>1, <2>2, <2>3, Zenon DEF Reservations
<1>5. Posting'
  BY SMT DEF Posting, TypeOK
<1>6. Written'
  BY SMT DEF Written, CommittedIsWritten, TypeOK, Slot, U32
<1>7. QED
  BY <1>1, <1>2, <1>3, <1>4, <1>5, <1>6

LEMMA WriteStep ==
  ASSUME IInv, NEW p \in Producers, Write(p)
  PROVE  IInv'
<1> USE DEF IInv, Write, producerVars, consumerVars
<1>a. /\ seenTail[p] \in Nat
      /\ Slot(seenTail[p]) \in SlotIndex
  <2>1. seenTail[p] \in Nat
    BY SMT DEF TypeOK, Reservations, Unread
  <2>2. QED
    BY <2>1, SlotInRange
<1>1. TypeOK'
  BY <1>a, SMT DEF TypeOK, Posting
<1>2. Counters' /\ Batches' /\ Repeats'
  BY Zenon DEF Counters, NoOverrun, Batches, Repeats
<1>3. Snapshots'
  BY SMT DEF Snapshots, TypeOK
<1>4. Reservations'
  BY SMT DEF Reservations, TypeOK
<1>5. Posting'
  BY SMT DEF Posting, TypeOK
<1>6. Written'
  <2>1. SUFFICES /\ \A n \in 0 .. tail - 1 : slots'[Slot(n)] \in Messages
                 /\ \A q \in Producers :
                      pc'[q] = "commit" => slots'[Slot(seenTail[q])] = msg[q]
    BY DEF Written, CommittedIsWritten, Slot, U32
  <2>2. ASSUME NEW n \in 0 .. tail - 1
        PROVE  slots'[Slot(n)] \in Messages
    <3>1. n \in Nat
      BY SMT DEF TypeOK
    <3>2. Slot(n) \in SlotIndex /\ slots[Slot(n)] \in Messages
      BY <3>1, SlotInRange, Zenon DEF Written, CommittedIsWritten
    <3>3. \/ slots'[Slot(n)] = slots[Slot(n)]
          \/ slots'[Slot(n)] = msg[p]
      BY <3>2, Zenon DEF TypeOK
    <3>4. msg[p] \in Messages
      BY Zenon DEF Posting
    <3>5. QED
      BY <3>2, <3>3, <3>4
  <2>3. ASSUME NEW q \in Producers, pc'[q] = "commit"
        PROVE  slots'[Slot(seenTail[q])] = msg[q]
    <3>1. CASE q = p
      BY <1>a, <3>1, Zenon DEF TypeOK
    <3>2. CASE q # p
      <4>1. /\ pc[q] = "commit"
            /\ pc[p] = "write"
        BY <2>3, <3>2, Zenon DEF TypeOK
      <4>2. /\ seenTail[q] \in Nat
            /\ seenTail[p] \in Nat
            /\ seenTail[q] # seenTail[p]
            /\ seenTail[q] - seenTail[p] < Capacity
            /\ seenTail[p] - seenTail[q] < Capacity
        <5>1. /\ tail <= seenTail[p] /\ seenTail[p] < reserve_tail
              /\ tail <= seenTail[q] /\ seenTail[q] < reserve_tail
              /\ seenTail[q] # seenTail[p]
          BY <3>2, <4>1, Zenon DEF Reservations
        <5>2. /\ taken <= tail /\ reserve_tail - taken <= Capacity
              /\ taken \in Nat /\ tail \in Nat /\ reserve_tail \in Nat
              /\ seenTail[q] \in Int
          BY SMT DEF Counters, NoOverrun, TypeOK, Unread
        <5>3. QED
          BY <1>a, <5>1, <5>2, CapacityFacts, SMT
      <4>3. Slot(seenTail[q]) # Slot(seenTail[p])
        <5>1. CASE seenTail[q] < seenTail[p]
          BY <4>2, <5>1, SlotInjective
        <5>2. CASE seenTail[p] < seenTail[q]
          BY <4>2, <5>2, SlotInjective
        <5>3. QED
          BY <4>2, <5>1, <5>2, SMT
      <4>4. slots'[Slot(seenTail[q])] = slots[Slot(seenTail[q])]
        BY <4>2, <4>3, SlotInRange, Zenon DEF TypeOK
      <4>5. QED
        BY <4>1, <4>4 DEF Written
    <3>3. QED
      BY <3>1, <3>2
  <2>4. QED
    BY <2>1, <2>2, <2>3
<1>7. QED
  BY <1>1, <1>2, <1>3, <1>4, <1>5, <1>6

LEMMA CommitStep ==
  ASSUME IInv, NEW p \in Producers, Commit(p)
  PROVE  IInv'
<1> USE DEF IInv, Commit, producerVars, consumerVars
<1>a. seenTail[p] = tail
  <2>1. /\ seenTail[p] \in Nat
        /\ tail \in Nat
        /\ tail <= seenTail[p]
        /\ seenTail[p] - tail < Modulus
    BY CapacityFacts, SMT DEF TypeOK, Reservations, Counters, NoOverrun, Unread
  <2>2. tail % Modulus = seenTail[p] % Modulus
    BY DEF U32
  <2>3. tail = seenTail[p]
    BY <2>1, <2>2, CapacityFacts, EqualResidues, Zenon
  <2>4. QED
    BY <2>3
<1>1. TypeOK'
  BY SMT DEF TypeOK
<1>2. Counters' /\ Batches' /\ Repeats'
  <2>1. /\ NoOverrun
        /\ reserve_tail - head < Modulus
        /\ tail < reserve_tail
        /\ reserve_tail \in Nat /\ taken \in Nat /\ tail \in Nat
    BY <1>a, Zenon DEF Counters, TypeOK, Reservations
  <2>2. Counters'
    BY <2>1, SMT DEF Counters, NoOverrun
  <2>3. Batches'
    <3>1. ASSUME NEW d \in 1 .. depth PROVE stop[d] <= tail + 1
      <4>1. /\ stop[d] \in Nat
            /\ stop[d] <= tail
            /\ tail \in Nat
        BY OpenDepths, Zenon DEF Batches, TypeOK
      <4>2. QED
        BY <4>1, SMT
    <3>2. QED
      BY <3>1, Zenon DEF Batches
  <2>4. Repeats'
    BY Zenon DEF Repeats
  <2>5. QED
    BY <2>2, <2>3, <2>4
<1>3. Snapshots'
  BY SMT DEF Snapshots, TypeOK
<1>4. Reservations'
  <2>1. ASSUME NEW q \in Producers, pc'[q] \in {"write", "commit"}
        PROVE  /\ q # p
               /\ pc[q] \in {"write", "commit"}
               /\ seenTail'[q] = seenTail[q]
    BY <2>1, Zenon DEF TypeOK
  <2>2. ASSUME NEW q \in Producers, pc'[q] \in {"write", "commit"}
        PROVE  tail + 1 <= seenTail[q] /\ seenTail[q] < reserve_tail
    <3>1. /\ tail <= seenTail[q]
          /\ seenTail[q] < reserve_tail
          /\ seenTail[q] # tail
      BY <1>a, <2>1, <2>2, Zenon DEF Reservations
    <3>2. tail \in Nat /\ seenTail[q] \in Int
      BY SMT DEF TypeOK, Unread
    <3>3. QED
      BY <3>1, <3>2, SMT
  <2>3. QED
    BY <2>1, <2>2, Zenon DEF Reservations
<1>5. Posting'
  BY SMT DEF Posting, TypeOK
<1>6. Written'
  <2>1. SUFFICES /\ \A n \in 0 .. tail : slots[Slot(n)] \in Messages
                 /\ \A q \in Producers :
                      pc'[q] = "commit" => slots[Slot(seenTail'[q])] = msg[q]
    BY SMT DEF Written, CommittedIsWritten, Slot, U32, TypeOK
  <2>2. slots[Slot(tail)] \in Messages
    BY <1>a DEF Written, Posting
  <2>3. ASSUME NEW n \in 0 .. tail
        PROVE  slots[Slot(n)] \in Messages
    <3>1. CASE n = tail
      BY <2>2, <3>1
    <3>2. CASE n # tail
      <4>1. n \in 0 .. tail - 1
        BY <3>2, SMT DEF TypeOK
      <4>2. QED
        BY <4>1 DEF Written, CommittedIsWritten
    <3>3. QED
      BY <3>1, <3>2
  <2>4. ASSUME NEW q \in Producers, pc'[q] = "commit"
        PROVE  slots[Slot(seenTail'[q])] = msg[q]
    <3>1. q # p /\ pc[q] = "commit" /\ seenTail'[q] = seenTail[q]
      BY <2>4, Zenon DEF TypeOK
    <3>2. QED
      BY <3>1 DEF Written
  <2>5. QED
    BY <2>1, <2>3, <2>4
<1>7. QED
  BY <1>1, <1>2, <1>3, <1>4, <1>5, <1>6

----------------------------------------------------------------------------
(* Every step keeps the invariant: the steps of the primary thread.        *)

\* What an open drain has of types and bounds.
LEMMA OpenDrain ==
  ASSUME IInv, depth > 0
  PROVE  /\ depth \in Depths
         /\ depth \in 1 .. depth
         /\ cur[depth] \in Nat
         /\ stop[depth] \in Nat
         /\ cur[depth] <= stop[depth]
         /\ stop[depth] <= tail
         /\ cur[depth] <= taken
         /\ reserve_tail - cur[depth] < Modulus
<1>1. depth \in Depths /\ depth \in 1 .. depth
  BY SMT DEF IInv, TypeOK, Depths
<1>2. QED
  BY <1>1, Zenon DEF IInv, TypeOK, Batches

LEMMA BeginDispatchStep ==
  ASSUME IInv, BeginDispatch
  PROVE  IInv'
<1> USE DEF IInv, BeginDispatch, producerVars
<1>a. /\ depth + 1 \in Depths
      /\ depth + 1 \in 0 .. MaxDrains
      /\ depth \in Nat
  BY ThreadAssumption, SMT DEF TypeOK, Depths
<1>b. /\ cur'[depth + 1] = head
      /\ stop'[depth + 1] = tail
      /\ \A d \in Depths : d # depth + 1 =>
           cur'[d] = cur[d] /\ stop'[d] = stop[d]
  BY <1>a, Zenon DEF TypeOK
<1>1. TypeOK'
  BY <1>a, Zenon DEF TypeOK
<1>2. Counters'
  BY Zenon DEF Counters, NoOverrun
<1>3. Batches'
  <2>1. ASSUME NEW d \in 1 .. depth + 1
        PROVE  /\ cur'[d] <= stop'[d]
               /\ stop'[d] <= tail
               /\ cur'[d] <= taken
               /\ reserve_tail - cur'[d] < Modulus
    <3>1. CASE d = depth + 1
      <4>1. /\ head <= taken /\ taken <= tail
            /\ head \in Nat /\ taken \in Nat /\ tail \in Nat
            /\ reserve_tail - head < Modulus
        BY Zenon DEF Counters, NoOverrun, TypeOK
      <4>2. head <= tail /\ tail <= tail
        BY <4>1, SMT
      <4>3. QED
        BY <1>b, <3>1, <4>1, <4>2
    <3>2. CASE d # depth + 1
      <4>1. d \in 1 .. depth
        BY <1>a, <3>2, SMT
      <4>a. d \in Depths
        BY <4>1, OpenDepths
      <4>2. QED
        BY <1>b, <3>2, <4>1, <4>a, Zenon DEF Batches
    <3>3. QED
      BY <3>1, <3>2
  <2>2. depth' = depth + 1 /\ tail' = tail /\ taken' = taken
        /\ reserve_tail' = reserve_tail
    BY Zenon
  <2>3. QED
    BY <2>1, <2>2, Zenon DEF Batches
<1>4. Repeats'
  <2>1. SUFFICES ASSUME ~repeating'
                 PROVE  /\ depth' <= 1
                        /\ depth' = 0 => head' = taken'
                        /\ depth' = 1 => cur'[1] = taken'
    BY Zenon DEF Repeats
  <2>2. ~repeating /\ ~(depth > 0)
    BY <2>1, Zenon
  <2>3. depth = 0 /\ depth + 1 = 1
    BY <1>a, <2>2, SMT
  <2>4. head = taken
    BY <2>2, <2>3, Zenon DEF Repeats
  <2>5. QED
    BY <1>b, <2>3, <2>4, SMT
<1>5. Snapshots' /\ Reservations' /\ Posting'
  BY Zenon DEF Snapshots, Reservations, Posting
<1>6. Written'
  BY Zenon DEF Written, CommittedIsWritten, Slot, U32
<1>7. QED
  BY <1>1, <1>2, <1>3, <1>4, <1>5, <1>6

\* The loop of dispatch_all goes on only within its batch, although it compares
\* the 32-bit counters with !=.
LEMMA WithinBatch ==
  ASSUME IInv, Dispatch
  PROVE  cur[depth] < stop[depth]
<1>1. cur[depth] # stop[depth]
  BY Zenon DEF Dispatch, U32
<1>2. QED
  BY <1>1, OpenDrain, SMT DEF Dispatch

\* What a drain reads is a message, even while a producer fills the slot.
LEMMA ReadableIsTyped ==
  ASSUME IInv, NEW n \in 0 .. tail - 1, NEW m \in Readable(n)
  PROVE  m \in Messages
<1>1. slots[Slot(n)] \in Messages
  BY Zenon DEF IInv, Written, CommittedIsWritten
<1>2. ASSUME NEW a \in Messages, NEW b \in Messages, NEW c \in Mixed(a, b)
      PROVE  c \in Messages
  BY <1>2, SMT DEF Mixed, Messages
<1>3. ASSUME NEW p \in Producers, pc[p] = "write",
             m \in Mixed(slots[Slot(n)], msg[p])
      PROVE  m \in Messages
  <2>1. msg[p] \in Messages
    BY <1>3, Zenon DEF IInv, Posting
  <2>2. QED
    BY <1>1, <1>2, <1>3, <2>1
<1>4. \/ m = slots[Slot(n)]
      \/ \E p \in Producers :
           pc[p] = "write" /\ m \in Mixed(slots[Slot(n)], msg[p])
  BY Zenon DEF Readable
<1>5. QED
  BY <1>1, <1>3, <1>4

LEMMA StillFits ==
  ASSUME NEW r \in Nat, NEW t \in Nat, NEW u \in Nat, NEW c \in Nat,
         r - t <= c, t <= u
  PROVE  r - u <= c
BY SMT

LEMMA DispatchStep ==
  ASSUME IInv, Dispatch
  PROVE  IInv'
<1> USE DEF IInv
<1>a. /\ depth > 0
      /\ cur' = [cur EXCEPT ![depth] = cur[depth] + 1]
      /\ taken' = IF cur[depth] = taken THEN taken + 1 ELSE taken
      /\ UNCHANGED <<reserve_tail, tail, head, slots, event_mask, producerVars,
                     depth, stop, repeating>>
  BY Zenon DEF Dispatch
<1>b. /\ depth \in Depths
      /\ cur[depth] \in Nat /\ stop[depth] \in Nat
      /\ cur[depth] < stop[depth] /\ stop[depth] <= tail
      /\ cur[depth] <= taken
      /\ reserve_tail - cur[depth] < Modulus
      /\ tail \in Nat /\ taken \in Nat /\ reserve_tail \in Nat
  BY <1>a, OpenDrain, WithinBatch, Zenon DEF TypeOK
<1>c. /\ cur'[depth] = cur[depth] + 1
      /\ \A d \in Depths : d # depth => cur'[d] = cur[d]
  BY <1>a, <1>b, Zenon DEF TypeOK
<1>d. /\ taken <= taken' /\ taken' <= tail /\ taken' \in Nat
      /\ cur[depth] + 1 <= taken'
      /\ cur[depth] = taken => taken' = cur[depth] + 1
  <2>1. taken <= tail
    BY Zenon DEF Counters, NoOverrun
  <2>2. QED
    BY <1>a, <1>b, <2>1, SMT
<1>1. TypeOK'
  <2>1. PICK m \in Readable(cur[depth]) :
          /\ appRuns' = (m.type \in event_mask)
          /\ delivered' = IF m.type \in event_mask THEN <<m>> ELSE delivered
    BY Zenon DEF Dispatch
  <2>2. cur[depth] \in 0 .. tail - 1
    BY <1>b, SMT
  <2>3. m \in Messages
    BY <2>2, ReadableIsTyped
  <2>4. delivered' \in {<<>>} \union {<<x>> : x \in Messages}
    BY <2>1, <2>3, Zenon DEF TypeOK
  <2>5. appRuns' \in BOOLEAN
    <3>1. appRuns' = (m.type \in event_mask)
      BY <2>1, Zenon
    <3>2. (m.type \in event_mask) = TRUE \/ (m.type \in event_mask) = FALSE
      OBVIOUS
    <3>3. QED
      BY <3>1, <3>2
  <2>6. cur[depth] + 1 \in Nat
    BY <1>b, SMT
  <2>7. cur' \in [Depths -> Nat]
    BY <1>a, <2>6, Zenon DEF TypeOK
  <2>8. QED
    BY <1>a, <1>d, <2>4, <2>5, <2>7, Zenon DEF TypeOK, producerVars
<1>2. Counters'
  <2>1. /\ head <= taken /\ tail <= reserve_tail
        /\ reserve_tail - taken <= Capacity
        /\ reserve_tail - head < Modulus
        /\ head \in Nat
    BY Zenon DEF Counters, NoOverrun, TypeOK
  <2>2. head <= taken' /\ reserve_tail - taken' <= Capacity
    <3>1. /\ taken <= taken' /\ taken' \in Nat /\ taken \in Nat
          /\ reserve_tail \in Nat /\ Capacity \in Nat
      BY <1>b, <1>d, CapacityFacts, Zenon
    <3>2. head <= taken'
      BY <2>1, <3>1, SMT
    <3>3. reserve_tail - taken' <= Capacity
      <4>1. reserve_tail - taken <= Capacity
        BY <2>1, Zenon
      <4>2. QED
        BY <3>1, <4>1, StillFits, Zenon
    <3>4. QED
      BY <3>2, <3>3
  <2>3. QED
    BY <1>a, <1>d, <2>1, <2>2, Zenon DEF Counters, NoOverrun
<1>3. Batches'
  <2>1. ASSUME NEW d \in 1 .. depth
        PROVE  /\ cur'[d] <= stop[d]
               /\ stop[d] <= tail
               /\ cur'[d] <= taken'
               /\ reserve_tail - cur'[d] < Modulus
    <3>1. CASE d = depth
      BY <1>b, <1>c, <1>d, <3>1, CapacityFacts, SMT
    <3>2. CASE d # depth
      <4>1. d \in Depths
        BY OpenDepths
      <4>2. cur'[d] = cur[d] /\ cur[d] \in Nat
        BY <1>c, <3>2, <4>1, Zenon DEF TypeOK
      <4>3. /\ cur[d] <= stop[d] /\ stop[d] <= tail /\ cur[d] <= taken
            /\ reserve_tail - cur[d] < Modulus
        BY Zenon DEF Batches
      <4>4. cur[d] <= taken'
        BY <1>b, <1>d, <4>2, <4>3, SMT
      <4>5. QED
        BY <4>2, <4>3, <4>4, Zenon
    <3>3. QED
      BY <3>1, <3>2
  <2>2. QED
    BY <1>a, <2>1, Zenon DEF Batches
<1>4. Repeats'
  <2>1. SUFFICES ASSUME ~repeating
                 PROVE  /\ depth <= 1
                        /\ depth = 0 => head = taken'
                        /\ depth = 1 => cur'[1] = taken'
    BY <1>a, Zenon DEF Repeats
  <2>2. /\ depth <= 1
        /\ depth = 1 => cur[1] = taken
    BY <2>1, Zenon DEF Repeats
  <2>3. depth # 0
    BY <1>b, SMT DEF Depths
  <2>4. ASSUME depth = 1 PROVE cur'[1] = taken'
    BY <1>c, <1>d, <2>2, <2>4
  <2>5. QED
    BY <2>2, <2>3, <2>4
<1>5. Snapshots'
  <2>1. ASSUME NEW p \in Producers, pc[p] = "load", seenHead[p] # Unread
        PROVE  seenHead[p] <= taken'
    <3>1. seenHead[p] <= taken /\ seenHead[p] \in Nat
      BY <2>1, SMT DEF Snapshots, TypeOK, Unread
    <3>2. QED
      BY <1>b, <1>d, <3>1, SMT
  <2>2. QED
    BY <1>a, <2>1, Zenon DEF Snapshots, producerVars
<1>6. Reservations' /\ Posting'
  BY <1>a, Zenon DEF Reservations, Posting, producerVars
<1>7. Written'
  BY <1>a, Zenon DEF Written, CommittedIsWritten, Slot, U32, producerVars
<1>8. QED
  BY <1>1, <1>2, <1>3, <1>4, <1>5, <1>6, <1>7

LEMMA EndDispatchStep ==
  ASSUME IInv, EndDispatch
  PROVE  IInv'
<1> USE DEF IInv, EndDispatch, producerVars
<1>a. /\ depth \in Depths
      /\ cur[depth] \in Nat
      /\ cur[depth] <= taken
      /\ reserve_tail - cur[depth] < Modulus
  BY OpenDrain
<1>b. /\ depth - 1 \in 0 .. MaxDrains
      /\ 0 \in Nat
      /\ \A d \in 1 .. depth - 1 : d \in Depths /\ d # depth /\ d \in 1 .. depth
  BY ThreadAssumption, SMT DEF TypeOK, Depths
<1>c. \A d \in Depths : d # depth => cur'[d] = cur[d] /\ stop'[d] = stop[d]
  BY Zenon DEF TypeOK
<1>1. TypeOK'
  BY <1>a, <1>b, Zenon DEF TypeOK
<1>2. Counters'
  BY <1>a, Zenon DEF Counters, NoOverrun
<1>3. Batches'
  <2>1. ASSUME NEW d \in 1 .. depth - 1
        PROVE  /\ cur'[d] <= stop'[d]
               /\ stop'[d] <= tail
               /\ cur'[d] <= taken
               /\ reserve_tail - cur'[d] < Modulus
    BY <1>b, <1>c, Zenon DEF Batches
  <2>2. depth' = depth - 1 /\ tail' = tail /\ taken' = taken
        /\ reserve_tail' = reserve_tail
    BY Zenon
  <2>3. QED
    BY <2>1, <2>2, Zenon DEF Batches
<1>4. Repeats'
  <2>1. SUFFICES ASSUME ~repeating
                 PROVE  /\ depth - 1 <= 1
                        /\ depth - 1 = 0 => cur[depth] = taken
                        /\ depth - 1 = 1 => cur'[1] = taken
    BY Zenon DEF Repeats
  <2>2. /\ depth <= 1
        /\ depth = 1 => cur[1] = taken
    BY <2>1, Zenon DEF Repeats
  <2>3. depth = 1
    BY <1>a, <2>2, SMT DEF Depths
  <2>4. QED
    BY <2>2, <2>3, SMT
<1>5. Snapshots' /\ Reservations' /\ Posting'
  BY Zenon DEF Snapshots, Reservations, Posting
<1>6. Written'
  BY Zenon DEF Written, CommittedIsWritten, Slot, U32
<1>7. QED
  BY <1>1, <1>2, <1>3, <1>4, <1>5, <1>6

LEMMA SetMaskStep ==
  ASSUME IInv, NEW m \in SUBSET Types, SetMask(m)
  PROVE  IInv'
<1> USE DEF IInv, SetMask, producerVars, consumerVars
<1>1. TypeOK'
  BY DEF TypeOK
<1>2. Counters' /\ Batches' /\ Repeats'
  BY Zenon DEF Counters, NoOverrun, Batches, Repeats
<1>3. Snapshots' /\ Reservations' /\ Posting'
  BY Zenon DEF Snapshots, Reservations, Posting
<1>4. Written'
  BY DEF Written, CommittedIsWritten, Slot, U32
<1>5. QED
  BY <1>1, <1>2, <1>3, <1>4

LEMMA StutterStep ==
  ASSUME IInv, UNCHANGED vars
  PROVE  IInv'
BY Zenon
   DEF vars, producerVars, consumerVars, IInv, TypeOK, Counters, NoOverrun,
       Batches, Repeats, Snapshots, Reservations, Posting, Written, CommittedIsWritten, Slot, U32

LEMMA NextIInv == IInv /\ [Next]_vars => IInv'
<1> SUFFICES ASSUME IInv, [Next]_vars PROVE IInv'
  OBVIOUS
<1>1. ASSUME NEW p \in Producers, NEW t \in Types, Post(p, t) PROVE IInv'
  BY <1>1, PostStep
<1>2. ASSUME NEW p \in Producers, PushStep(p) PROVE IInv'
  <2>1. CASE LoadReserveTail(p)
    BY <2>1, LoadReserveTailStep
  <2>2. CASE LoadHead(p)
    BY <2>2, LoadHeadStep
  <2>3. CASE Reject(p)
    BY <2>3, RejectStep
  <2>4. CASE Reserve(p)
    BY <2>4, ReserveStep
  <2>5. CASE Retry(p)
    BY <2>5, RetryStep
  <2>6. CASE Write(p)
    BY <2>6, WriteStep
  <2>7. CASE Commit(p)
    BY <2>7, CommitStep
  <2>8. QED
    BY <1>2, <2>1, <2>2, <2>3, <2>4, <2>5, <2>6, <2>7 DEF PushStep
<1>3. ASSUME Pump PROVE IInv'
  BY <1>3, BeginDispatchStep, DispatchStep, EndDispatchStep DEF Pump
<1>4. ASSUME NEW m \in SUBSET Types, SetMask(m) PROVE IInv'
  BY <1>4, SetMaskStep
<1>5. CASE UNCHANGED vars
  BY <1>5, StutterStep
<1>6. QED
  BY <1>1, <1>2, <1>3, <1>4, <1>5 DEF Next

----------------------------------------------------------------------------
(* The theorems.                                                           *)

\* The strengthened invariant holds in every reachable state.
THEOREM InductiveInvariant == Spec => []IInv
  BY InitIInv, NextIInv, PTL DEF Spec

\* Type correctness of the ring and of the threads that use it.
THEOREM TypeCorrect == Spec => []TypeOK
<1>1. IInv => TypeOK
  BY DEF IInv
<1>2. QED
  BY <1>1, InductiveInvariant, PTL

\* At most Capacity messages are reserved that no drain has read, for every
\* number of threads, capacity, counter width and depth of drains, although an
\* outer drain puts head back when it ends.
THEOREM RingNeverOverruns == Spec => []NoOverrun
<1>1. IInv => NoOverrun
  BY DEF IInv, Counters
<1>2. QED
  BY <1>1, InductiveInvariant, PTL

\* Every position that tail covers holds a message: no drain is handed the
\* allocator's garbage.
THEOREM PumpReadsWrittenSlots == Spec => []CommittedIsWritten
<1>1. IInv => CommittedIsWritten
  BY DEF IInv, Written
<1>2. QED
  BY <1>1, InductiveInvariant, PTL

\* No two producers fill the same slot and no producer fills the slot of a
\* message that no drain has read.
THEOREM SlotsAreExclusive == Spec => []SlotExclusive
<1>1. IInv => SlotExclusive
  <2> SUFFICES ASSUME IInv, NEW p \in Producers, pc[p] = "write"
               PROVE  /\ \A q \in Producers \ {p} :
                           pc[q] \in {"write", "commit"}
                             => Slot(seenTail[q]) # Slot(seenTail[p])
                      /\ \A n \in taken .. tail - 1 :
                           Slot(n) # Slot(seenTail[p])
    BY DEF SlotExclusive
  <2> USE DEF IInv
  <2>1. /\ seenTail[p] \in Nat
        /\ tail <= seenTail[p]
        /\ seenTail[p] < reserve_tail
    <3>1. tail <= seenTail[p] /\ seenTail[p] < reserve_tail
      BY Zenon DEF Reservations
    <3>2. QED
      BY <3>1, SMT DEF TypeOK, Unread
  <2>2. /\ taken \in Nat /\ tail \in Nat /\ reserve_tail \in Nat
        /\ taken <= tail
        /\ reserve_tail - taken <= Capacity
    BY DEF TypeOK, Counters, NoOverrun
  <2>3. ASSUME NEW q \in Producers \ {p}, pc[q] \in {"write", "commit"}
        PROVE  Slot(seenTail[q]) # Slot(seenTail[p])
    <3>1. /\ tail <= seenTail[q]
          /\ seenTail[q] < reserve_tail
          /\ seenTail[q] # seenTail[p]
      BY <2>3, Zenon DEF Reservations
    <3>2. seenTail[q] \in Nat
      BY <3>1, SMT DEF TypeOK, Unread
    <3>3. CASE seenTail[q] < seenTail[p]
      <4>1. seenTail[p] - seenTail[q] < Capacity
        BY <2>1, <2>2, <3>1, <3>2, CapacityFacts, SMT
      <4>2. QED
        BY <2>1, <3>2, <3>3, <4>1, SlotInjective
    <3>4. CASE seenTail[p] < seenTail[q]
      <4>1. seenTail[q] - seenTail[p] < Capacity
        BY <2>1, <2>2, <3>1, <3>2, CapacityFacts, SMT
      <4>2. QED
        BY <2>1, <3>2, <3>4, <4>1, SlotInjective
    <3>5. QED
      BY <2>1, <3>1, <3>2, <3>3, <3>4, SMT
  <2>4. ASSUME NEW n \in taken .. tail - 1
        PROVE  Slot(n) # Slot(seenTail[p])
    <3>1. n \in Nat /\ taken <= n /\ n < tail
      BY <2>2, SMT
    <3>2. n < seenTail[p] /\ seenTail[p] - n < Capacity
      BY <2>1, <2>2, <3>1, CapacityFacts, SMT
    <3>3. QED
      BY <2>1, <3>1, <3>2, SlotInjective
  <2>5. QED
    BY <2>3, <2>4
<1>2. QED
  BY <1>1, InductiveInvariant, PTL

----------------------------------------------------------------------------
(* The ring implements the queue of EventQueue.  Pending, the queue the    *)
(* ring stands for, holds the positions from taken up to reserve_tail: a   *)
(* message enters it when its slot is reserved, not when the slot is       *)
(* filled, and leaves it when the first drain reads it, not when head      *)
(* moves.  A drain that reads it again adds nothing and takes nothing.     *)

\* The threads about to fill position n.
Writers(n) == {q \in Producers : pc[q] = "write" /\ seenTail[q] = n}

LEMMA MessageOfWriter ==
  ASSUME IInv, NEW p \in Producers, pc[p] = "write"
  PROVE  MessageAt(seenTail[p]) = msg[p]
<1>1. ASSUME NEW q \in Writers(seenTail[p]) PROVE q = p
  BY Zenon DEF Writers, IInv, Reservations
<1>2. p \in Writers(seenTail[p])
  BY DEF Writers
<1>3. (CHOOSE q \in Writers(seenTail[p]) : TRUE) = p
  BY <1>1, <1>2, Zenon
<1>4. QED
  BY <1>2, <1>3, Zenon DEF MessageAt, Writers

LEMMA MessageInSlot ==
  ASSUME NEW n, \A q \in Producers : pc[q] = "write" => seenTail[q] # n
  PROVE  MessageAt(n) = slots[Slot(n)]
BY Zenon DEF MessageAt

\* A step that leaves position n, its slot and its writers alone.
LEMMA MessageKept ==
  ASSUME NEW n,
         \A q \in Producers : (pc'[q] = "write" /\ seenTail'[q] = n)
                                <=> (pc[q] = "write" /\ seenTail[q] = n),
         \A q \in Producers : pc[q] = "write" => msg'[q] = msg[q],
         slots'[Slot(n)] = slots[Slot(n)]
  PROVE  MessageAt(n)' = MessageAt(n)
<1>1. Writers(n)' = Writers(n)
  BY Zenon DEF Writers
<1>2. CASE Writers(n) = {}
  BY <1>1, <1>2, Zenon DEF MessageAt, Writers, Slot, U32
<1>3. CASE Writers(n) # {}
  <2>1. (CHOOSE q \in Writers(n) : TRUE) \in Writers(n)
    BY <1>3, Zenon
  <2>2. msg'[CHOOSE q \in Writers(n) : TRUE]
          = msg[CHOOSE q \in Writers(n) : TRUE]
    BY <2>1, Zenon DEF Writers
  <2>3. MessageAt(n) = msg[CHOOSE q \in Writers(n) : TRUE]
    BY <1>3, Zenon DEF MessageAt, Writers
  <2>4. MessageAt(n)' = msg'[CHOOSE q \in Writers(n)' : TRUE]
    BY <1>1, <1>3, Zenon DEF MessageAt, Writers
  <2>5. QED
    BY <1>1, <2>2, <2>3, <2>4
<1>4. QED
  BY <1>2, <1>3

\* The messages nobody has read end at reserve_tail.
LEMMA TakenBounds ==
  ASSUME IInv
  PROVE  /\ taken \in Nat
         /\ taken <= tail
         /\ reserve_tail - taken \in Nat
         /\ reserve_tail - taken <= Capacity
         /\ reserve_tail \in Nat /\ tail \in Nat
<1>1. /\ taken \in Nat /\ tail \in Nat /\ reserve_tail \in Nat
      /\ taken <= tail /\ tail <= reserve_tail
      /\ reserve_tail - taken <= Capacity
  BY Zenon DEF IInv, TypeOK, Counters, NoOverrun
<1>2. QED
  BY <1>1, SMT

\* What is in a slot or with a producer is a message, or the buffer's initial
\* contents.
LEMMA MessageIsTyped ==
  ASSUME IInv, NEW n \in Nat
  PROVE  MessageAt(n) \in Messages \union {NoMessage}
<1>1. ASSUME NEW q \in Producers, pc[q] = "write", seenTail[q] = n
      PROVE  MessageAt(n) \in Messages
  <2>1. MessageAt(n) = msg[q]
    BY <1>1, MessageOfWriter
  <2>2. QED
    BY <1>1, <2>1, Zenon DEF IInv, Posting
<1>2. CASE \A q \in Producers : pc[q] = "write" => seenTail[q] # n
  <2>1. MessageAt(n) = slots[Slot(n)]
    BY <1>2, MessageInSlot
  <2>2. Slot(n) \in SlotIndex
    BY SlotInRange
  <2>3. QED
    BY <2>1, <2>2, Zenon DEF IInv, TypeOK
<1>3. QED
  BY <1>1, <1>2, Zenon

LEMMA IntervalLength ==
  ASSUME NEW a \in Nat, NEW b \in Nat, 1 .. a = 1 .. b
  PROVE  a = b
<1>1. ASSUME a < b PROVE FALSE
  <2>1. b \in 1 .. b /\ b \notin 1 .. a
    BY <1>1, SMT
  <2>2. QED
    BY <2>1
<1>2. ASSUME b < a PROVE FALSE
  <2>1. a \in 1 .. a /\ a \notin 1 .. b
    BY <1>2, SMT
  <2>2. QED
    BY <2>1
<1>3. QED
  BY <1>1, <1>2, SMT

\* The queue the ring stands for is a sequence, one element per position.
LEMMA PendingIsSequence ==
  ASSUME IInv
  PROVE  /\ Pending \in Seq(Messages \union {NoMessage})
         /\ Len(Pending) = reserve_tail - taken
         /\ \A i \in 1 .. reserve_tail - taken :
              Pending[i] = MessageAt(taken + i - 1)
<1> DEFINE S == Messages \union {NoMessage}
           N == reserve_tail - taken
<1>1. N \in Nat /\ taken \in Nat
  BY TakenBounds
<1>2. ASSUME NEW i \in 1 .. N PROVE MessageAt(taken + i - 1) \in S
  <2>1. taken + i - 1 \in Nat
    BY <1>1, SMT
  <2>2. QED
    BY <2>1, MessageIsTyped
<1>3. Pending \in [1 .. N -> S]
  BY <1>2, Zenon DEF Pending
<1>4. Pending \in Seq(S)
  BY <1>1, <1>3, SeqDef, Zenon
<1>5. Len(Pending) = N
  <2>1. /\ Len(Pending) \in Nat
        /\ DOMAIN Pending = 1 .. Len(Pending)
    BY <1>4, LenProperties
  <2>2. 1 .. Len(Pending) = 1 .. N
    BY <1>3, <2>1, Zenon
  <2> HIDE DEF N
  <2>3. QED
    BY <1>1, <2>1, <2>2, IntervalLength
<1>6. QED
  BY <1>4, <1>5, Zenon DEF Pending

\* A step that keeps the ends of the queue and every message between them
\* keeps the queue.
LEMMA QueueKept ==
  ASSUME IInv,
         reserve_tail' = reserve_tail,
         taken' = taken,
         \A n \in taken .. reserve_tail - 1 :
           MessageAt(n)' = MessageAt(n)
  PROVE  Pending' = Pending
<1>1. ASSUME NEW i \in 1 .. reserve_tail - taken
      PROVE  MessageAt(taken + i - 1)'
               = MessageAt(taken + i - 1)
  <2> DEFINE n == taken + i - 1
  <2>1. n \in taken .. reserve_tail - 1
    BY TakenBounds, SMT DEF IInv, TypeOK
  <2>2. n' = n
    BY SMT
  <2>3. QED
    BY <2>1, <2>2
<1>2. QED
  BY <1>1, Zenon DEF Pending

\* A step that moves no message: the same slots, the same threads about to
\* fill the same positions.
LEMMA QuietStep ==
  ASSUME IInv,
         reserve_tail' = reserve_tail, slots' = slots,
         taken' = taken,
         \A q \in Producers : pc'[q] = "write" <=> pc[q] = "write",
         \A q \in Producers : pc[q] = "write" =>
           seenTail'[q] = seenTail[q] /\ msg'[q] = msg[q]
  PROVE  Pending' = Pending
<1>1. ASSUME NEW n \in taken .. reserve_tail - 1
      PROVE  MessageAt(n)' = MessageAt(n)
  <2>1. \A q \in Producers : (pc'[q] = "write" /\ seenTail'[q] = n)
                               <=> (pc[q] = "write" /\ seenTail[q] = n)
    BY Zenon
  <2>2. \A q \in Producers : pc[q] = "write" => msg'[q] = msg[q]
    BY Zenon
  <2>3. QED
    BY <2>1, <2>2, MessageKept
<1>2. QED
  BY <1>1, QueueKept

LEMMA PostIsQuiet ==
  ASSUME IInv, NEW p \in Producers, NEW t \in Types, Post(p, t)
  PROVE  UNCHANGED Queue!qvars
<1> USE DEF IInv, Post, producerVars, consumerVars
<1>a. /\ pc[p] = "idle"
      /\ pc' = pc \/ pc' = [pc EXCEPT ![p] = "load"]
  BY Zenon DEF MayCall
<1>1. \A q \in Producers : pc'[q] = "write" <=> pc[q] = "write"
  BY <1>a, Zenon DEF TypeOK
<1>b. \A q \in Producers : q # p => msg'[q] = msg[q]
  BY Zenon DEF TypeOK
<1>2. \A q \in Producers : pc[q] = "write" =>
        seenTail'[q] = seenTail[q] /\ msg'[q] = msg[q]
  <2>1. seenTail' = seenTail
    BY Zenon
  <2>2. QED
    BY <1>a, <1>b, <2>1, Zenon
<1>4. QED
  BY <1>1, <1>2, QuietStep DEF Queue!qvars

\* The steps of push that reserve and fill no slot.  A commit moves tail, of
\* which the queue knows nothing.
LEMMA PushIsQuiet ==
  ASSUME IInv, NEW p \in Producers,
         \/ LoadReserveTail(p)
         \/ LoadHead(p)
         \/ Reject(p)
         \/ Retry(p)
         \/ Commit(p)
  PROVE  UNCHANGED Queue!qvars
<1> USE DEF IInv, LoadReserveTail, LoadHead, Reject, Retry, Commit, Loaded,
            producerVars, consumerVars
<1>1. pc[p] # "write"
  BY Zenon
<1>2. \A q \in Producers : pc'[q] = "write" <=> pc[q] = "write"
  <2>1. pc' = pc \/ pc' = [pc EXCEPT ![p] = "idle"]
    BY Zenon
  <2>2. QED
    BY <1>1, <2>1, Zenon DEF TypeOK
<1>3. \A q \in Producers : q # p => seenTail'[q] = seenTail[q]
  <2>1. \/ seenTail' = seenTail
        \/ seenTail' = [seenTail EXCEPT ![p] = reserve_tail]
        \/ seenTail' = [seenTail EXCEPT ![p] = Unread]
    BY Zenon
  <2>2. QED
    BY <2>1, Zenon DEF TypeOK
<1>4. msg' = msg /\ reserve_tail' = reserve_tail /\ slots' = slots
  BY Zenon
<1>5. taken' = taken /\ repeating' = repeating
  BY Zenon
<1>6. event_mask' = event_mask /\ delivered' = delivered
  BY Zenon
<1>7. \A q \in Producers : pc[q] = "write" =>
        seenTail'[q] = seenTail[q] /\ msg'[q] = msg[q]
  BY <1>1, <1>3, <1>4, Zenon
<1>8. Pending' = Pending
  BY <1>2, <1>4, <1>5, <1>7, QuietStep
<1>9. QED
  BY <1>5, <1>6, <1>8 DEF Queue!qvars

\* The message moves from its producer to its slot: its own position, and no
\* other, sees another slot.
LEMMA WriteIsQuiet ==
  ASSUME IInv, NEW p \in Producers, Write(p)
  PROVE  UNCHANGED Queue!qvars
<1> USE DEF Write, producerVars, consumerVars
<1>1. /\ seenTail[p] \in Nat
      /\ tail <= seenTail[p]
      /\ seenTail[p] < reserve_tail
      /\ pc[p] = "write"
  <2>1. tail <= seenTail[p] /\ seenTail[p] < reserve_tail
    BY Zenon DEF IInv, Reservations
  <2>2. QED
    BY <2>1, SMT DEF IInv, TypeOK, Unread
<1>2. ASSUME NEW n \in taken .. reserve_tail - 1
      PROVE  MessageAt(n)' = MessageAt(n)
  <2>1. n \in Nat /\ taken <= n /\ n < reserve_tail
    BY TakenBounds, SMT DEF IInv, TypeOK
  <2>2. CASE n = seenTail[p]
    <3>1. MessageAt(n) = msg[p]
      BY <1>1, <2>2, MessageOfWriter
    <3>2. \A q \in Producers : pc'[q] = "write" => seenTail'[q] # n
      BY <1>1, <2>2, Zenon DEF IInv, Reservations, TypeOK
    <3>3. Writers(n)' = {}
      BY <3>2, Zenon DEF Writers
    <3>4. MessageAt(n)' = slots'[Slot(n)]
      BY <3>3, Zenon DEF MessageAt, Writers, Slot, U32
    <3>5. slots'[Slot(n)] = msg[p]
      BY <2>1, <2>2, SlotInRange, Zenon DEF IInv, TypeOK
    <3>6. QED
      BY <3>1, <3>4, <3>5
  <2>3. CASE n # seenTail[p]
    <3>1. Slot(n) # Slot(seenTail[p])
      <4>1. /\ reserve_tail - taken <= Capacity
            /\ taken <= tail
            /\ taken \in Nat /\ tail \in Nat /\ reserve_tail \in Nat
        BY TakenBounds
      <4>2. CASE n < seenTail[p]
        <5>1. seenTail[p] - n < Capacity
          BY <1>1, <2>1, <4>1, CapacityFacts, SMT
        <5>2. QED
          BY <1>1, <2>1, <4>2, <5>1, SlotInjective
      <4>3. CASE seenTail[p] < n
        <5>1. n - seenTail[p] < Capacity
          BY <1>1, <2>1, <4>1, CapacityFacts, SMT
        <5>2. QED
          BY <1>1, <2>1, <4>3, <5>1, SlotInjective
      <4>4. QED
        BY <1>1, <2>1, <2>3, <4>2, <4>3, SMT
    <3>2. slots'[Slot(n)] = slots[Slot(n)]
      BY <2>1, <3>1, SlotInRange, Zenon DEF IInv, TypeOK
    <3>3. \A q \in Producers : (pc'[q] = "write" /\ seenTail'[q] = n)
                                 <=> (pc[q] = "write" /\ seenTail[q] = n)
      BY <2>3, Zenon DEF IInv, TypeOK
    <3>4. QED
      BY <3>2, <3>3, MessageKept
  <2>4. QED
    BY <2>2, <2>3
<1>4. QED
  BY <1>2, QueueKept DEF Queue!qvars

LEMMA AppendIs ==
  ASSUME NEW S, NEW s \in Seq(S), NEW e \in S, NEW f,
         f = [i \in 1 .. Len(s) + 1 |-> f[i]],
         \A i \in 1 .. Len(s) : f[i] = s[i],
         f[Len(s) + 1] = e
  PROVE  f = Append(s, e)
<1>1. /\ Append(s, e) \in Seq(S)
      /\ Len(Append(s, e)) = Len(s) + 1
      /\ \A i \in 1 .. Len(s) : Append(s, e)[i] = s[i]
      /\ Append(s, e)[Len(s) + 1] = e
  BY AppendProperties
<1>2. Append(s, e) = [i \in 1 .. Len(s) + 1 |-> Append(s, e)[i]]
  <2>1. Append(s, e) \in [1 .. Len(s) + 1 -> S]
    BY <1>1, LenProperties
  <2>2. QED
    BY <2>1, Zenon
<1>3. ASSUME NEW i \in 1 .. Len(s) + 1 PROVE f[i] = Append(s, e)[i]
  <2>1. Len(s) \in Nat
    BY LenProperties
  <2>2. i \in 1 .. Len(s) \/ i = Len(s) + 1
    BY <2>1, SMT
  <2>3. QED
    BY <1>1, <2>2
<1>4. QED
  BY <1>2, <1>3, Zenon

LEMMA TailIs ==
  ASSUME NEW S, NEW s \in Seq(S), s # <<>>, NEW f,
         f = [i \in 1 .. Len(s) - 1 |-> f[i]],
         \A i \in 1 .. Len(s) - 1 : f[i] = s[i + 1]
  PROVE  f = Tail(s)
<1>1. /\ Tail(s) \in Seq(S)
      /\ Len(Tail(s)) = Len(s) - 1
      /\ \A i \in 1 .. Len(Tail(s)) : Tail(s)[i] = s[i + 1]
  BY HeadTailProperties
<1>2. Tail(s) = [i \in 1 .. Len(s) - 1 |-> Tail(s)[i]]
  <2>1. Tail(s) \in [1 .. Len(s) - 1 -> S]
    BY <1>1, LenProperties
  <2>2. QED
    BY <2>1, Zenon
<1>3. ASSUME NEW i \in 1 .. Len(s) - 1 PROVE f[i] = Tail(s)[i]
  BY <1>1
<1>4. QED
  BY <1>2, <1>3, Zenon

\* A reservation is what accepts a post: the queue has room, and the message
\* joins it at the end.
LEMMA ReserveAccepts ==
  ASSUME IInv, NEW p \in Producers, Reserve(p)
  PROVE  Queue!Accept(msg[p])
<1> USE DEF Reserve, Loaded, producerVars, consumerVars
<1> DEFINE S == Messages \union {NoMessage}
           N == reserve_tail - taken
<1>1. /\ seenTail[p] = reserve_tail
      /\ reserve_tail < taken + Capacity
      /\ reserve_tail' = reserve_tail + 1
      /\ reserve_tail \in Nat
  BY ReservationFits DEF IInv, TypeOK
<1>2. N \in Nat /\ taken \in Nat
  BY TakenBounds
<1>3. Len(Pending) < Capacity
  <2>1. Len(Pending) = reserve_tail - taken
    BY PendingIsSequence
  <2>2. QED
    BY <1>1, <1>2, <2>1, CapacityFacts, SMT
<1>4. taken' = taken
  BY Zenon
<1>5. ASSUME NEW n \in taken .. reserve_tail - 1
      PROVE  MessageAt(n)' = MessageAt(n)
  <2>1. n # reserve_tail
    BY <1>1, <1>2, SMT
  <2>2. \A q \in Producers : (pc'[q] = "write" /\ seenTail'[q] = n)
                               <=> (pc[q] = "write" /\ seenTail[q] = n)
    BY <1>1, <2>1, Zenon DEF IInv, TypeOK
  <2>3. QED
    BY <2>2, MessageKept
<1>6. ASSUME NEW n, n = reserve_tail PROVE MessageAt(n)' = msg[p]
  <2>1. ASSUME NEW q \in Producers, q # p, pc'[q] = "write"
        PROVE  seenTail'[q] # n
    <3>1. pc[q] = "write" /\ seenTail'[q] = seenTail[q]
      BY <2>1, Zenon DEF IInv, TypeOK
    <3>2. tail <= seenTail[q] /\ seenTail[q] < reserve_tail
      BY <3>1, Zenon DEF IInv, Reservations
    <3>3. seenTail[q] \in Int
      BY SMT DEF IInv, TypeOK, Unread
    <3>4. QED
      BY <1>1, <1>6, <3>1, <3>2, <3>3, SMT
  <2>2. pc'[p] = "write" /\ seenTail'[p] = n /\ msg' = msg
    BY <1>1, <1>6, Zenon DEF IInv, TypeOK
  <2>3. Writers(n)' = {p}
    BY <2>1, <2>2, Zenon DEF Writers
  <2>4. (CHOOSE q \in {p} : TRUE) = p
    BY Zenon
  <2>5. Writers(n)' # {}
    BY <2>3, Zenon
  <2>6. MessageAt(n)' = msg'[CHOOSE q \in Writers(n)' : TRUE]
    BY <2>5, Zenon DEF MessageAt, Writers
  <2>7. QED
    BY <2>2, <2>3, <2>4, <2>6
<1>7. ASSUME NEW i \in 1 .. N + 1
      PROVE  Pending'[i] = IF i <= N THEN Pending[i] ELSE msg[p]
  <2> DEFINE n == taken + i - 1
  <2>1. /\ n' = n
        /\ i <= N => n \in taken .. reserve_tail - 1
        /\ ~(i <= N) => n = reserve_tail
    BY <1>1, <1>2, <1>4, SMT
  <2>2. i \in 1 .. reserve_tail' - taken'
    BY <1>1, <1>2, <1>4, SMT
  <2>3. Pending'[i] = MessageAt(n)'
    BY <2>2, Zenon DEF Pending
  <2>4. CASE i <= N
    <3>1. i \in 1 .. N
      BY <1>2, <2>4, SMT
    <3>2. Pending[i] = MessageAt(n)
      BY <3>1, PendingIsSequence
    <3>3. QED
      BY <1>5, <2>1, <2>3, <2>4, <3>2
  <2>5. CASE ~(i <= N)
    BY <1>6, <2>1, <2>3, <2>5
  <2>6. QED
    BY <2>4, <2>5
<1>8. Pending' = [i \in 1 .. N + 1 |-> Pending'[i]]
  <2>1. N' = N + 1
    BY <1>1, <1>2, <1>4, SMT
  <2>2. QED
    BY <2>1, Zenon DEF Pending
<1>9. /\ Pending \in Seq(S) /\ Len(Pending) = N /\ msg[p] \in Messages
  BY PendingIsSequence, Zenon DEF IInv, Posting
<1>10. /\ \A i \in 1 .. N : Pending'[i] = Pending[i]
       /\ Pending'[N + 1] = msg[p]
  BY <1>2, <1>7, SMT
<1>11. Pending' = Append(Pending, msg[p])
  <2> HIDE DEF S, N
  <2>1. msg[p] \in S
    BY <1>9 DEF S
  <2>2. QED
    BY <1>8, <1>9, <1>10, <2>1, AppendIs
<1>12. QED
  BY <1>3, <1>11 DEF Queue!Accept

\* Opening a drain takes nothing from the queue; the first one inside a callback
\* is what the queue calls PumpAgain.
LEMMA BeginIsQuiet ==
  ASSUME IInv, BeginDispatch
  PROVE  Queue!PumpAgain \/ UNCHANGED Queue!qvars
<1> USE DEF BeginDispatch, producerVars
<1>1. /\ pc' = pc /\ msg' = msg /\ seenTail' = seenTail
      /\ reserve_tail' = reserve_tail /\ slots' = slots /\ taken' = taken
      /\ event_mask' = event_mask /\ delivered' = delivered
  BY Zenon
<1>2. Pending' = Pending
  BY <1>1, QuietStep
<1>3. repeating' = repeating \/ repeating' = TRUE
  <2>1. repeating' = (repeating \/ depth > 0)
    BY Zenon
  <2>2. repeating \in BOOLEAN
    BY Zenon DEF IInv, TypeOK
  <2>3. CASE depth > 0
    BY <2>1, <2>3
  <2>4. CASE ~(depth > 0)
    BY <2>1, <2>2, <2>4
  <2>5. QED
    BY <2>3, <2>4
<1>4. QED
  BY <1>1, <1>2, <1>3 DEF Queue!qvars, Queue!PumpAgain

\* Closing one takes nothing either: head is not the head of the queue.
LEMMA EndIsQuiet ==
  ASSUME IInv, EndDispatch
  PROVE  UNCHANGED Queue!qvars
<1> USE DEF EndDispatch, producerVars
<1>1. /\ pc' = pc /\ msg' = msg /\ seenTail' = seenTail
      /\ reserve_tail' = reserve_tail /\ slots' = slots /\ taken' = taken
      /\ event_mask' = event_mask /\ delivered' = delivered
      /\ repeating' = repeating
  BY Zenon
<1>2. Pending' = Pending
  BY <1>1, QuietStep
<1>3. QED
  BY <1>1, <1>2 DEF Queue!qvars

\* No producer fills the slot of a committed message that nobody has read.
LEMMA UnreadIsStable ==
  ASSUME IInv, NEW n \in Nat, taken <= n, n < tail
  PROVE  Readable(n) = {slots[Slot(n)]}
<1>1. ASSUME NEW p \in Producers, pc[p] = "write"
      PROVE  Slot(seenTail[p]) # Slot(n)
  <2>1. tail <= seenTail[p] /\ seenTail[p] < reserve_tail
    BY <1>1, Zenon DEF IInv, Reservations
  <2>2. seenTail[p] \in Int
    BY SMT DEF IInv, TypeOK, Unread
  <2>3. /\ taken \in Nat /\ tail \in Nat /\ reserve_tail \in Nat
        /\ reserve_tail - taken <= Capacity
    BY TakenBounds
  <2>4. /\ seenTail[p] \in Nat
        /\ n < seenTail[p]
        /\ seenTail[p] - n < Capacity
    BY <2>1, <2>2, <2>3, CapacityFacts, SMT
  <2>5. QED
    BY <2>4, SlotInjective
<1>2. {p \in Producers : pc[p] = "write" /\ Slot(seenTail[p]) = Slot(n)} = {}
  BY <1>1, Zenon
<1>3. QED
  BY <1>2, Zenon DEF Readable

\* The first drain to read a message takes it from the queue: the callback gets
\* the oldest message, or the mask drops it.
LEMMA DispatchTakes ==
  ASSUME IInv, Dispatch, cur[depth] = taken
  PROVE  Queue!Deliver \/ Queue!Discard
<1> DEFINE S == Messages \union {NoMessage}
           N == reserve_tail - taken
<1>a. /\ UNCHANGED <<reserve_tail, slots, event_mask, pc, msg, seenTail,
                     repeating>>
      /\ depth > 0
      /\ taken' = IF cur[depth] = taken THEN taken + 1 ELSE taken
  BY Zenon DEF Dispatch, producerVars
<1>1. taken' = taken + 1
  BY <1>a, Zenon
<1>2. /\ taken \in Nat /\ taken < tail /\ tail <= reserve_tail
      /\ reserve_tail \in Nat /\ tail \in Nat
  <2>1. /\ cur[depth] < stop[depth] /\ stop[depth] <= tail
        /\ stop[depth] \in Nat
    BY <1>a, WithinBatch, OpenDrain
  <2>2. taken \in Nat /\ tail \in Nat /\ reserve_tail \in Nat
        /\ tail <= reserve_tail
    BY Zenon DEF IInv, Counters, NoOverrun, TypeOK
  <2>3. QED
    BY <2>1, <2>2, SMT
<1>3. N \in Nat /\ N >= 1
  BY <1>2, SMT
<1>4. /\ Pending \in Seq(S)
      /\ Len(Pending) = N
      /\ \A i \in 1 .. N : Pending[i] = MessageAt(taken + i - 1)
  BY PendingIsSequence
<1>5. Pending # <<>>
  BY <1>3, <1>4, EmptySeq, SMT
<1>6. Head(Pending) = slots[Slot(taken)]
  <2>1. \A q \in Producers : pc[q] = "write" => seenTail[q] # taken
    <3>1. SUFFICES ASSUME NEW q \in Producers, pc[q] = "write"
                   PROVE  seenTail[q] # taken
      OBVIOUS
    <3>2. tail <= seenTail[q]
      BY <3>1, Zenon DEF IInv, Reservations
    <3>3. seenTail[q] \in Int
      BY SMT DEF IInv, TypeOK, Unread
    <3>4. QED
      BY <1>2, <3>2, <3>3, SMT
  <2>2. MessageAt(taken) = slots[Slot(taken)]
    BY <2>1, MessageInSlot
  <2>3. 1 \in 1 .. N /\ taken + 1 - 1 = taken
    BY <1>2, <1>3, SMT
  <2>4. Pending[1] = MessageAt(taken)
    BY <1>4, <2>3
  <2>5. Head(Pending) = Pending[1]
    BY <1>4, <1>5, SMT
  <2>6. QED
    BY <2>2, <2>4, <2>5
<1>7. ASSUME NEW i \in 1 .. N - 1 PROVE Pending'[i] = Pending[i + 1]
  <2> DEFINE n == taken + i
  <2>1. /\ i \in 1 .. reserve_tail' - taken'
        /\ i + 1 \in 1 .. N
        /\ taken + (i + 1) - 1 = n
        /\ (taken + i - 1)' = n
    BY <1>a, <1>1, <1>2, <1>3, SMT
  <2>2. ASSUME NEW k, k = n PROVE MessageAt(k)' = MessageAt(k)
    <3>1. /\ \A q \in Producers : (pc'[q] = "write" /\ seenTail'[q] = k)
                                    <=> (pc[q] = "write" /\ seenTail[q] = k)
          /\ \A q \in Producers : pc[q] = "write" => msg'[q] = msg[q]
          /\ slots'[Slot(k)] = slots[Slot(k)]
      BY <1>a, Zenon
    <3>2. QED
      BY <3>1, MessageKept
  <2>3. Pending'[i] = MessageAt(taken + i - 1)'
    BY <2>1, Zenon DEF Pending
  <2>4. Pending[i + 1] = MessageAt(n)
    BY <1>4, <2>1
  <2>5. QED
    BY <2>1, <2>2, <2>3, <2>4
<1>8. Pending' = [i \in 1 .. N - 1 |-> Pending'[i]]
  <2>1. N' = N - 1
    BY <1>a, <1>1, <1>2, SMT
  <2>2. QED
    BY <2>1, Zenon DEF Pending
<1>9. Pending' = Tail(Pending)
  <2> HIDE DEF S, N
  <2>1. QED
    BY <1>4, <1>5, <1>7, <1>8, TailIs
<1>10. delivered' = IF Head(Pending).type \in event_mask
                      THEN <<Head(Pending)>> ELSE delivered
  <2>1. Readable(taken) = {slots[Slot(taken)]}
    BY <1>2, UnreadIsStable, SMT
  <2>2. PICK m \in Readable(cur[depth]) :
          delivered' = IF m.type \in event_mask THEN <<m>> ELSE delivered
    BY Zenon DEF Dispatch
  <2>3. m = Head(Pending)
    BY <1>6, <2>1, <2>2, Zenon
  <2>4. QED
    BY <2>2, <2>3
<1>11. QED
  BY <1>a, <1>5, <1>9, <1>10, Zenon DEF Queue!Deliver, Queue!Discard

\* A drain that reads a message again takes nothing, and there has been a drain
\* inside a callback.
LEMMA DispatchRepeats ==
  ASSUME IInv, Dispatch, cur[depth] # taken
  PROVE  Queue!Repeat \/ UNCHANGED Queue!qvars
<1>a. /\ UNCHANGED <<reserve_tail, slots, event_mask, pc, msg, seenTail,
                     repeating>>
      /\ depth > 0
      /\ taken' = IF cur[depth] = taken THEN taken + 1 ELSE taken
  BY Zenon DEF Dispatch, producerVars
<1>1. taken' = taken
  BY <1>a, Zenon
<1>2. Pending' = Pending
  BY <1>a, <1>1, QuietStep
<1>3. repeating
  <2>1. SUFFICES ASSUME ~repeating PROVE FALSE
    OBVIOUS
  <2>2. depth <= 1 /\ (depth = 1 => cur[1] = taken)
    BY <2>1, Zenon DEF IInv, Repeats
  <2>3. depth = 1
    BY <1>a, <2>2, OpenDrain, SMT DEF Depths
  <2>4. QED
    BY <2>2, <2>3
<1>4. PICK m \in Readable(cur[depth]) :
        delivered' = IF m.type \in event_mask THEN <<m>> ELSE delivered
  BY Zenon DEF Dispatch
<1>5. m \in Messages
  <2>1. /\ cur[depth] < stop[depth] /\ stop[depth] <= tail
        /\ cur[depth] \in Nat /\ stop[depth] \in Nat /\ tail \in Nat
    BY <1>a, WithinBatch, OpenDrain, TakenBounds
  <2>2. cur[depth] \in 0 .. tail - 1
    BY <2>1, SMT
  <2>3. QED
    BY <2>2, ReadableIsTyped
<1>6. CASE m.type \in event_mask
  BY <1>a, <1>2, <1>3, <1>4, <1>5, <1>6, Zenon DEF Queue!Repeat
<1>7. CASE ~(m.type \in event_mask)
  BY <1>a, <1>2, <1>4, <1>7, Zenon DEF Queue!qvars
<1>8. QED
  BY <1>6, <1>7

\* The types the program may post are those of the messages.
LEMMA MaskedTypes == Types = {m.type : m \in Messages}
<1>1. ASSUME NEW t \in Types PROVE t \in {m.type : m \in Messages}
  <2>1. [from |-> Primary, nr |-> 1, type |-> t] \in Messages
    BY ThreadAssumption, SMT DEF Messages
  <2>2. [from |-> Primary, nr |-> 1, type |-> t].type = t
    OBVIOUS
  <2>3. QED
    BY <2>1, <2>2
<1>2. ASSUME NEW m \in Messages PROVE m.type \in Types
  BY DEF Messages
<1>3. QED
  BY <1>1, <1>2

LEMMA SetMaskSelects ==
  ASSUME IInv, NEW m \in SUBSET Types, SetMask(m)
  PROVE  Queue!Select
<1> USE DEF SetMask, producerVars, consumerVars
<1>2. Pending' = Pending
  BY QuietStep
<1>3. QED
  BY <1>2, MaskedTypes DEF Queue!Select

LEMMA InitRefines == Init => Queue!Init
<1> SUFFICES ASSUME Init PROVE Queue!Init
  OBVIOUS
<1>1. Pending = <<>>
  <2>1. IInv
    BY InitIInv
  <2>2. Len(Pending) = 0 /\ Pending \in Seq(Messages \union {NoMessage})
    BY <2>1, PendingIsSequence, SMT DEF Init
  <2>3. QED
    BY <2>2, EmptySeq, SMT
<1>2. QED
  BY <1>1, MaskedTypes DEF Init, Queue!Init

LEMMA NextRefines == IInv /\ [Next]_vars => [Queue!Next]_(Queue!qvars)
<1> SUFFICES ASSUME IInv, [Next]_vars PROVE [Queue!Next]_(Queue!qvars)
  OBVIOUS
<1>1. ASSUME NEW p \in Producers, NEW t \in Types, Post(p, t)
      PROVE  UNCHANGED Queue!qvars
  BY <1>1, PostIsQuiet
<1>2. ASSUME NEW p \in Producers, PushStep(p)
      PROVE  Queue!Next \/ UNCHANGED Queue!qvars
  <2>1. CASE Reserve(p)
    <3>1. Queue!Accept(msg[p]) /\ msg[p] \in Messages
      BY <2>1, ReserveAccepts DEF IInv, Posting, Reserve, Loaded
    <3>2. QED
      BY <3>1 DEF Queue!Next
  <2>2. CASE Write(p)
    BY <2>2, WriteIsQuiet
  <2>3. CASE \/ LoadReserveTail(p) \/ LoadHead(p) \/ Reject(p) \/ Retry(p)
             \/ Commit(p)
    BY <2>3, PushIsQuiet
  <2>4. QED
    BY <1>2, <2>1, <2>2, <2>3 DEF PushStep
<1>3. ASSUME Pump PROVE Queue!Next \/ UNCHANGED Queue!qvars
  <2>1. CASE BeginDispatch
    BY <2>1, BeginIsQuiet DEF Queue!Next
  <2>2. CASE Dispatch /\ cur[depth] = taken
    BY <2>2, DispatchTakes DEF Queue!Next
  <2>3. CASE Dispatch /\ cur[depth] # taken
    BY <2>3, DispatchRepeats DEF Queue!Next
  <2>4. CASE EndDispatch
    BY <2>4, EndIsQuiet
  <2>5. QED
    BY <1>3, <2>1, <2>2, <2>3, <2>4 DEF Pump
<1>4. ASSUME NEW m \in SUBSET Types, SetMask(m) PROVE Queue!Next
  BY <1>4, SetMaskSelects DEF Queue!Next
<1>5. CASE UNCHANGED vars
  <2>1. taken' = taken
    BY <1>5 DEF vars, consumerVars
  <2>2. Pending' = Pending
    BY <1>5, <2>1, QuietStep DEF vars, producerVars
  <2>3. QED
    BY <1>5, <2>2 DEF vars, consumerVars, Queue!qvars
<1>6. QED
  BY <1>1, <1>2, <1>3, <1>4, <1>5 DEF Next

\* The ring is a bounded first-in first-out queue of what no drain has read,
\* the positions from taken to reserve_tail, for every number of threads, every
\* capacity and every counter width: whatever the posts, the drains inside the
\* callbacks of drains and the mask updates do between each other's steps, no
\* accepted post is lost, overtaken or first handed out with another's
\* contents.  A message is handed out again only once a callback has pumped.
THEOREM RingImplementsQueue == Spec => RingIsQueue
  BY InitRefines, NextRefines, InductiveInvariant, PTL
     DEF Spec, RingIsQueue, Queue!Spec
============================================================================
