------------------------ MODULE AsyncTransfersProofs ------------------------
(***************************************************************************)
(* Theorems about AsyncTransfers for any number of transfers, descriptors  *)
(* and blocks: the walk and its callbacks leave a sound list, and every    *)
(* transfer is reported at most once.                                      *)
(*                                                                         *)
(* The argument follows the list as a sequence s of m transfers: every     *)
(* step that changes a link prepends one transfer, removes the one just    *)
(* reported, or, when the walk still holds the head, cuts off everything   *)
(* up to the one just reported, which is then only what its callback has   *)
(* pulled.  Reached, the recursive definition, is related to s once.       *)
(***************************************************************************)
EXTENDS AsyncTransfers, Integers, FiniteSetTheorems, SequenceTheorems,
        WellFoundedInduction, TLAPS

----------------------------------------------------------------------------
(* The inductive invariant.                                                *)

Linked(s, m) ==
  /\ link["head"] = IF m = 0 THEN Null ELSE s[1]
  /\ \A k \in 1 .. m : link[s[k]] = IF k = m THEN Null ELSE s[k + 1]
  /\ \A j, k \in 1 .. m : s[j] = s[k] => j = k

\* The list holds pending transfers only, and all that were pulled outside
\* callbacks.
Holds(s, m) ==
  /\ \A k \in 1 .. m : stage[s[k]] = "pending"
  /\ \A t \in Transfers \ Nested :
       stage[t] = "pending" => \E k \in 1 .. m : s[k] = t

\* The walk holds the head or the next field of a transfer of the list.
Walks(s, m) ==
  pc # "idle" => curr = "head" \/ \E k \in 1 .. m : s[k] = curr

\* In a callback the transfer just reported is in the list; the link the walk
\* holds points to it, or the callback's own pulls are in between.
Reporting(s, m) ==
  pc = "callback" =>
    \E j \in 1 .. m :
      /\ reports[s[j]] # <<>>
      /\ IF curr = "head" THEN \A k \in 1 .. j - 1 : s[k] \in Nested
                          ELSE link[curr] = s[j]

SoundList(s, m) == Linked(s, m) /\ Holds(s, m) /\ Walks(s, m) /\ Reporting(s, m)

HasSoundList == \E m \in Nat : \E s \in [1 .. m -> Transfers] : SoundList(s, m)

\* A transfer that is still in the list and reported is the one whose callback
\* is running.
Reports ==
  \A t \in Transfers :
    /\ Len(reports[t]) <= 1
    /\ stage[t] \in {"unused", "dropped"} => reports[t] = <<>>
    /\ stage[t] = "freed" => reports[t] # <<>>
    /\ stage[t] = "pending" /\ reports[t] # <<>> =>
         /\ pc = "callback"
         /\ \A u \in Transfers :
              stage[u] = "pending" /\ reports[u] # <<>> => u = t

Blocks == \A t \in Transfers : taken[t] + pipe[t] <= MaxBlocks

IInv == TypeOK /\ HasSoundList /\ Reports /\ Blocks

----------------------------------------------------------------------------
(* Induction, in the form the provers can use: with sets for predicates.   *)

Below == OpToRel(<, Nat)

LEMMA SmallestOf ==
  ASSUME NEW T \in SUBSET Nat, T # {}
  PROVE  \E x \in T : \A y \in T : x <= y
<1>1. PICK x \in T : \A y \in T : <<y, x>> \notin Below
  BY WFMin, NatLessThanWellFounded, Zenon DEF Below
<1>2. \A y \in Nat : <<y, x>> \in Below <=> y < x
  BY SMT DEF OpToRel, Below
<1>3. ASSUME NEW y \in T PROVE x <= y
  <2>1. x \in Nat /\ y \in Nat
    OBVIOUS
  <2>2. ~(y < x)
    BY <1>1, <1>2, <2>1, Zenon
  <2>3. QED
    BY <2>1, <2>2, SMT
<1>4. QED
  BY <1>3

\* A set that holds 0 and, with n, also n + 1 up to N holds all of 0 .. N.
LEMMA UpTo ==
  ASSUME NEW N \in Nat, NEW T, 0 \in T,
         \A n \in 0 .. N - 1 : n \in T => n + 1 \in T
  PROVE  \A n \in 0 .. N : n \in T
<1>1. SUFFICES ASSUME (0 .. N) \ T # {} PROVE FALSE
  OBVIOUS
<1>2. PICK x \in (0 .. N) \ T : \A y \in (0 .. N) \ T : x <= y
  <2>1. (0 .. N) \ T \in SUBSET Nat
    BY SMT
  <2>2. QED
    BY <1>1, <2>1, SmallestOf, Zenon
<1>3. x \in 1 .. N
  BY SMT
<1>4. x - 1 \in 0 .. N - 1 /\ x - 1 \in 0 .. N /\ (x - 1) + 1 = x
      /\ ~(x <= x - 1)
  BY <1>3, SMT
<1>5. x - 1 \in T
  BY <1>2, <1>4
<1>6. QED
  BY <1>2, <1>4, <1>5

----------------------------------------------------------------------------
(* What Reached computes.                                                  *)

LEMMA ListFits ==
  ASSUME NEW m \in Nat, NEW s \in [1 .. m -> Transfers], Linked(s, m)
  PROVE  /\ Cardinality(Transfers) \in Nat
         /\ m <= Cardinality(Transfers)
<1>1. IsFiniteSet(Transfers) /\ Cardinality(Transfers) \in Nat
  BY TransferAssumption, FS_CardinalityType
<1>2. IsFiniteSet(1 .. m) /\ Cardinality(1 .. m) = m
  BY FS_Interval, SMT
<1>3. ASSUME Cardinality(Transfers) < Cardinality(1 .. m) PROVE FALSE
  <2>1. \E x, y \in 1 .. m : x # y /\ s[x] = s[y]
    BY <1>1, <1>2, <1>3, FS_PigeonHole, Zenon
  <2>2. QED
    BY <2>1, Zenon DEF Linked
<1>4. QED
  BY <1>1, <1>2, <1>3, SMT

LEMMA ReachedIs ==
  ASSUME NEW m \in Nat, NEW s \in [1 .. m -> Transfers], Linked(s, m)
  PROVE  /\ DOMAIN Reached = 0 .. Cardinality(Transfers)
         /\ \A n \in 0 .. Cardinality(Transfers) :
              Reached[n] = IF n < m THEN s[n + 1] ELSE Null
<1> DEFINE N == Cardinality(Transfers)
           Step(f, n) == IF n = 0 THEN link["head"]
                         ELSE IF f[n - 1] = Null THEN Null
                         ELSE link[f[n - 1]]
           g == [n \in 0 .. N |-> IF n < m THEN s[n + 1] ELSE Null]
<1>1. N \in Nat /\ m <= N
  BY ListFits
<1> HIDE DEF N
<1>2. ASSUME NEW n \in 0 .. N
      PROVE  (IF n < m THEN s[n + 1] ELSE Null) = Step(g, n)
  <2>1. CASE n = 0
    BY <1>1, <2>1, SMT DEF Linked
  <2>2. CASE n # 0
    <3>1. n - 1 \in 0 .. N /\ (n - 1) + 1 = n /\ n \in 1 .. N
      BY <1>1, <2>2, SMT
    <3>2. g[n - 1] = IF n - 1 < m THEN s[n] ELSE Null
      BY <3>1
    <3> HIDE DEF g
    <3>3. CASE n - 1 < m
      <4>1. n \in 1 .. m
        BY <3>1, <3>3, SMT
      <4>2. s[n] \in Transfers /\ s[n] # Null
        BY <4>1, TransferAssumption
      <4>3. link[s[n]] = IF n = m THEN Null ELSE s[n + 1]
        BY <4>1 DEF Linked
      <4>4. n < m <=> n # m
        BY <4>1, SMT
      <4>5. Step(g, n) = link[s[n]]
        BY <2>2, <3>2, <3>3, <4>2
      <4>6. QED
        BY <4>3, <4>4, <4>5
    <3>4. CASE ~(n - 1 < m)
      <4>1. ~(n < m)
        BY <3>1, <3>4, SMT
      <4>2. Step(g, n) = Null
        BY <2>2, <3>2, <3>4
      <4>3. QED
        BY <4>1, <4>2
    <3>5. QED
      BY <3>3, <3>4
  <2>3. QED
    BY <2>1, <2>2
<1> HIDE DEF Step
<1>3. g = [n \in 0 .. N |-> Step(g, n)]
  <2> DEFINE h == [n \in 0 .. N |-> Step(g, n)]
  <2>1. \A n \in 0 .. N : g[n] = h[n]
    BY <1>2, Zenon
  <2>2. g = [n \in 0 .. N |-> g[n]]
    BY Zenon
  <2>3. h = [n \in 0 .. N |-> h[n]]
    BY Zenon
  <2> HIDE DEF g, h
  <2>4. g = h
    BY <2>1, <2>2, <2>3, Zenon
  <2>5. QED
    BY <2>4 DEF h
<1>4. Reached = [n \in 0 .. N |-> Step(Reached, n)]
  <2>1. Reached = CHOOSE f : f = [n \in 0 .. N |-> Step(f, n)]
    BY DEF Reached, Step, N
  <2> HIDE DEF g
  <2>2. QED
    BY <1>3, <2>1, Zenon
<1>5. DOMAIN Reached = 0 .. N
  BY <1>4, Zenon
<1> DEFINE T == {n \in 0 .. N : Reached[n] = g[n]}
<1>6. ASSUME NEW n \in 0 .. N
      PROVE  Reached[n] = Step(Reached, n) /\ g[n] = Step(g, n)
  <2> HIDE DEF g
  <2> QED
    BY <1>3, <1>4, Zenon
<1>7. 0 \in T
  <2>1. 0 \in 0 .. N /\ Step(Reached, 0) = Step(g, 0)
    BY <1>1, SMT DEF Step
  <2> HIDE DEF g
  <2>2. QED
    BY <1>6, <2>1
<1>8. ASSUME NEW n \in 0 .. N - 1, n \in T PROVE n + 1 \in T
  <2>1. n + 1 \in 0 .. N /\ n + 1 # 0 /\ (n + 1) - 1 = n
    BY <1>1, SMT
  <2> HIDE DEF g
  <2>2. Step(Reached, n + 1) = Step(g, n + 1)
    BY <1>8, <2>1 DEF Step
  <2>3. QED
    BY <1>6, <2>1, <2>2
<1>9. \A n \in 0 .. N : n \in T
  <2> HIDE DEF T
  <2> QED
    BY <1>1, <1>7, <1>8, UpTo
<1>10. QED
  BY <1>5, <1>9 DEF N

----------------------------------------------------------------------------
(* The list under the steps of the application and the sources.            *)

LEMMA SameList ==
  ASSUME HasSoundList, UNCHANGED <<pc, link, stage, curr, reports>>
  PROVE  HasSoundList'
<1>1. ASSUME NEW m \in Nat, NEW s \in [1 .. m -> Transfers], SoundList(s, m)
      PROVE  SoundList(s, m)'
  BY <1>1 DEF SoundList, Linked, Holds, Walks, Reporting
<1>2. QED
  BY <1>1, Zenon DEF HasSoundList

\* A pull prepends: the sequence gets one longer at the front, and positions
\* move up by one.
LEMMA PullList ==
  ASSUME IInv, NEW t \in Transfers, Pull(t)
  PROVE  HasSoundList'
<1> USE DEF Pull, MayPull, walkVars
<1>0. PICK m \in Nat : \E s \in [1 .. m -> Transfers] : SoundList(s, m)
  BY Zenon DEF IInv, HasSoundList
<1>1. PICK s \in [1 .. m -> Transfers] : SoundList(s, m)
  BY <1>0
<1>2. /\ link \in [Links -> Transfers \union {Null}]
      /\ stage \in [Transfers -> {"unused", "pending", "dropped", "freed"}]
      /\ "head" \in Links /\ t \in Links /\ t # "head"
  BY TransferAssumption, Zenon DEF IInv, TypeOK, Links
<1>3. \A k \in 1 .. m : s[k] \in Transfers /\ s[k] # t /\ s[k] # "head"
                        /\ s[k] \in Links
  <2>1. \A k \in 1 .. m : s[k] \in Transfers /\ stage[s[k]] = "pending"
    BY <1>1, Zenon DEF SoundList, Holds
  <2>2. stage[t] # "pending"
    BY Zenon
  <2>3. QED
    BY <2>1, <2>2, TransferAssumption, Zenon DEF Links
<1>4. /\ link'["head"] = t
      /\ link'[t] = link["head"]
      /\ \A x \in Links : x # "head" /\ x # t => link'[x] = link[x]
      /\ stage'[t] = "pending"
      /\ \A u \in Transfers : u # t => stage'[u] = stage[u]
  BY <1>2, Zenon
<1> DEFINE r == [k \in 1 .. m + 1 |-> IF k = 1 THEN t ELSE s[k - 1]]
<1>5. /\ m + 1 \in Nat /\ m + 1 # 0
      /\ 1 \in 1 .. m + 1
      /\ \A k \in 1 .. m + 1 : k # 1 => /\ k - 1 \in 1 .. m
                                        /\ k = m + 1 <=> k - 1 = m
                                        /\ k # m + 1 => (k - 1) + 1 = k
      /\ \A k \in 1 .. m : /\ k + 1 \in 1 .. m + 1
                           /\ k + 1 # 1
                           /\ (k + 1) - 1 = k
  BY SMT
<1>6. /\ r[1] = t
      /\ \A k \in 1 .. m : r[k + 1] = s[k]
      /\ \A k \in 1 .. m + 1 : k # 1 => r[k] = s[k - 1]
  BY <1>5
<1>7. r \in [1 .. m + 1 -> Transfers]
  BY <1>5, Zenon
<1> HIDE DEF r
<1>8. Linked(r, m + 1)'
  <2>1. link'["head"] = r[1]
    BY <1>4, <1>6
  <2>2. ASSUME NEW k \in 1 .. m + 1
        PROVE  link'[r[k]] = IF k = m + 1 THEN Null ELSE r[k + 1]
    <3>1. CASE k = 1
      <4>1. link'[r[k]] = link["head"]
        BY <1>4, <1>6, <3>1
      <4>2. CASE m = 0
        BY <1>1, <3>1, <4>1, <4>2, SMT DEF SoundList, Linked
      <4>3. CASE m # 0
        <5>1. 1 \in 1 .. m /\ k # m + 1
          BY <3>1, <4>3, SMT
        <5>2. r[k + 1] = s[1] /\ link["head"] = s[1]
          BY <1>1, <1>6, <3>1, <4>3, <5>1 DEF SoundList, Linked
        <5>3. QED
          BY <4>1, <5>1, <5>2
      <4>4. QED
        BY <4>2, <4>3
    <3>2. CASE k # 1
      <4>1. /\ k - 1 \in 1 .. m
            /\ k = m + 1 <=> k - 1 = m
            /\ (k - 1) + 1 = k
        BY <1>5, <3>2, SMT
      <4>2. r[k] = s[k - 1]
        BY <1>6, <3>2
      <4>3. link'[r[k]] = link[s[k - 1]]
        BY <1>3, <1>4, <4>1, <4>2
      <4>4. link[s[k - 1]] = IF k - 1 = m THEN Null ELSE s[k]
        BY <1>1, <4>1, Zenon DEF SoundList, Linked
      <4>5. k # m + 1 => r[k + 1] = s[k]
        <5>1. k # m + 1 => k \in 1 .. m
          BY SMT
        <5>2. QED
          BY <1>6, <5>1
      <4>6. QED
        BY <4>1, <4>3, <4>4, <4>5
    <3>3. QED
      BY <3>1, <3>2
  <2>3. ASSUME NEW j \in 1 .. m + 1, NEW k \in 1 .. m + 1, r[j] = r[k]
        PROVE  j = k
    <3>a. ASSUME NEW x \in 1 .. m + 1, x # 1 PROVE r[x] # t
      <4>1. r[x] = s[x - 1] /\ x - 1 \in 1 .. m
        BY <1>5, <1>6, <3>a
      <4>2. QED
        BY <1>3, <4>1
    <3>1. CASE j = 1 \/ k = 1
      BY <1>6, <2>3, <3>a, <3>1, Zenon
    <3>2. CASE j # 1 /\ k # 1
      <4>1. s[j - 1] = s[k - 1] /\ j - 1 \in 1 .. m /\ k - 1 \in 1 .. m
        BY <1>5, <1>6, <2>3, <3>2
      <4>2. j - 1 = k - 1
        BY <1>1, <4>1, Zenon DEF SoundList, Linked
      <4>3. QED
        BY <4>2, SMT
    <3>3. QED
      BY <3>1, <3>2
  <2>4. QED
    BY <1>5, <2>1, <2>2, <2>3, Zenon DEF Linked
<1>9. Holds(r, m + 1)'
  <2>1. ASSUME NEW k \in 1 .. m + 1 PROVE stage'[r[k]] = "pending"
    <3>1. CASE k = 1
      BY <1>4, <1>6, <3>1
    <3>2. CASE k # 1
      <4>1. k - 1 \in 1 .. m /\ r[k] = s[k - 1]
        BY <1>5, <1>6, <3>2
      <4>2. QED
        BY <1>1, <1>3, <1>4, <4>1, Zenon DEF SoundList, Holds
    <3>3. QED
      BY <3>1, <3>2
  <2>2. ASSUME NEW u \in Transfers \ Nested, stage'[u] = "pending"
        PROVE  \E k \in 1 .. m + 1 : r[k] = u
    <3>1. CASE u = t
      BY <1>5, <1>6, <3>1, Zenon
    <3>2. CASE u # t
      <4>1. stage[u] = "pending"
        BY <1>4, <2>2, <3>2, Zenon
      <4>2. PICK k \in 1 .. m : s[k] = u
        BY <1>1, <4>1, Zenon DEF SoundList, Holds
      <4>3. r[k + 1] = u /\ k + 1 \in 1 .. m + 1
        BY <1>5, <1>6, <4>2
      <4>4. QED
        BY <4>3, Zenon
    <3>3. QED
      BY <3>1, <3>2
  <2>3. QED
    BY <2>1, <2>2, Zenon DEF Holds
<1>10. Walks(r, m + 1)'
  <2>1. SUFFICES ASSUME pc # "idle", curr # "head"
                 PROVE  \E k \in 1 .. m + 1 : r[k] = curr
    BY Zenon DEF Walks
  <2>2. PICK k \in 1 .. m : s[k] = curr
    BY <1>1, <2>1, Zenon DEF SoundList, Walks
  <2>3. r[k + 1] = curr /\ k + 1 \in 1 .. m + 1
    BY <1>5, <1>6, <2>2
  <2>4. QED
    BY <2>3, Zenon
<1>11. Reporting(r, m + 1)'
  <2>1. SUFFICES ASSUME pc = "callback"
                 PROVE  \E j \in 1 .. m + 1 :
                          /\ reports[r[j]] # <<>>
                          /\ IF curr = "head"
                               THEN \A k \in 1 .. j - 1 : r[k] \in Nested
                               ELSE link'[curr] = r[j]
    BY Zenon DEF Reporting
  <2>2. t \in Nested
    BY <2>1, Zenon
  <2>3. PICK j \in 1 .. m :
          /\ reports[s[j]] # <<>>
          /\ IF curr = "head" THEN \A k \in 1 .. j - 1 : s[k] \in Nested
                              ELSE link[curr] = s[j]
    BY <1>1, <2>1, Zenon DEF SoundList, Reporting
  <2>4. r[j + 1] = s[j] /\ j + 1 \in 1 .. m + 1
    BY <1>5, <1>6
  <2>5. CASE curr = "head"
    <3>1. ASSUME NEW k \in 1 .. (j + 1) - 1 PROVE r[k] \in Nested
      <4>1. CASE k = 1
        BY <1>6, <2>2, <4>1
      <4>2. CASE k # 1
        <5>1. k - 1 \in 1 .. j - 1 /\ k \in 1 .. m + 1
          BY <4>2, SMT
        <5>2. r[k] = s[k - 1]
          BY <1>6, <4>2, <5>1
        <5>3. QED
          BY <2>3, <2>5, <5>1, <5>2
      <4>3. QED
        BY <4>1, <4>2
    <3>2. QED
      BY <2>3, <2>4, <2>5, <3>1, Zenon
  <2>6. CASE curr # "head"
    <3>1. PICK k \in 1 .. m : s[k] = curr
      BY <1>1, <2>1, <2>6, Zenon DEF SoundList, Walks
    <3>2. link'[curr] = link[curr]
      BY <1>3, <1>4, <3>1, Zenon
    <3>3. QED
      BY <2>3, <2>4, <2>6, <3>2, Zenon
  <2>7. QED
    BY <2>5, <2>6
<1>12. QED
  BY <1>5, <1>7, <1>8, <1>9, <1>10, <1>11, Zenon DEF HasSoundList, SoundList

\* The transfer whose callback returns is the one the list knows as reported.
LEMMA ReturningIsListed ==
  ASSUME IInv, NEW t \in Transfers, CallbackReturns(t),
         NEW m \in Nat, NEW s \in [1 .. m -> Transfers], SoundList(s, m)
  PROVE  \E j \in 1 .. m :
           /\ s[j] = t
           /\ curr = "head" => \A k \in 1 .. j - 1 : s[k] \in Nested
           /\ curr # "head" =>
                \E c \in 1 .. m : s[c] = curr /\ c # m /\ j = c + 1
<1>1. PICK j \in 1 .. m :
        /\ reports[s[j]] # <<>>
        /\ IF curr = "head" THEN \A k \in 1 .. j - 1 : s[k] \in Nested
                            ELSE link[curr] = s[j]
  BY Zenon DEF CallbackReturns, SoundList, Reporting
<1>2. s[j] \in Transfers /\ stage[s[j]] = "pending"
  BY Zenon DEF SoundList, Holds
<1>3. s[j] = t
  BY <1>1, <1>2, Zenon DEF IInv, Reports, CallbackReturns
<1>4. ASSUME curr # "head"
      PROVE  \E c \in 1 .. m : s[c] = curr /\ c # m /\ j = c + 1
  <2>1. PICK c \in 1 .. m : s[c] = curr
    BY <1>4, Zenon DEF SoundList, Walks, CallbackReturns
  <2>2. s[j] = IF c = m THEN Null ELSE s[c + 1]
    BY <1>1, <1>4, <2>1, Zenon DEF SoundList, Linked
  <2>3. c # m
    BY <1>2, <2>2, TransferAssumption, Zenon
  <2>4. c + 1 \in 1 .. m
    BY <2>3, SMT
  <2>5. j = c + 1
    BY <2>2, <2>3, <2>4, Zenon DEF SoundList, Linked
  <2>6. QED
    BY <2>1, <2>3, <2>5, Zenon
<1>5. QED
  BY <1>1, <1>3, <1>4, Zenon

\* The walk holds the head: everything up to the reported transfer is cut off.
LEMMA CutList ==
  ASSUME IInv, NEW t \in Transfers, CallbackReturns(t), curr = "head"
  PROVE  HasSoundList'
<1> USE DEF CallbackReturns, walkVars
<1>0. PICK m \in Nat : \E s \in [1 .. m -> Transfers] : SoundList(s, m)
  BY Zenon DEF IInv, HasSoundList
<1>1. PICK s \in [1 .. m -> Transfers] : SoundList(s, m)
  BY <1>0
<1>2. PICK j \in 1 .. m :
        s[j] = t /\ \A k \in 1 .. j - 1 : s[k] \in Nested
  BY <1>1, ReturningIsListed, Zenon
<1>3. /\ link'["head"] = link[t]
      /\ \A u \in Transfers : link'[u] = link[u]
      /\ stage'[t] = "freed"
      /\ \A u \in Transfers : u # t => stage'[u] = stage[u]
  BY TransferAssumption, Zenon DEF IInv, TypeOK, Links
<1>4. /\ \A k \in 1 .. m : link[s[k]] = IF k = m THEN Null ELSE s[k + 1]
      /\ \A k \in 1 .. m : stage[s[k]] = "pending"
      /\ \A x, y \in 1 .. m : s[x] = s[y] => x = y
  BY <1>1, Zenon DEF SoundList, Linked, Holds
<1> DEFINE n == m - j
           r == [k \in 1 .. n |-> s[k + j]]
<1>5. /\ n \in Nat
      /\ n = 0 <=> j = m
      /\ n # 0 => 1 \in 1 .. n
      /\ \A k \in 1 .. n : /\ k + j \in 1 .. m
                           /\ k + j # j
                           /\ k = n <=> k + j = m
                           /\ k # n => k + 1 \in 1 .. n
                           /\ (k + 1) + j = (k + j) + 1
      /\ \A k \in 1 .. m : k \notin 1 .. j - 1 /\ k # j =>
                             k - j \in 1 .. n /\ (k - j) + j = k
      /\ 1 + j = j + 1
  BY SMT
<1>6. /\ r \in [1 .. n -> Transfers]
      /\ \A k \in 1 .. n : r[k] = s[k + j]
  BY <1>5
<1> HIDE DEF r, n
<1>7. Linked(r, n)'
  <2>1. link'["head"] = IF n = 0 THEN Null ELSE r[1]
    <3>1. link[t] = IF j = m THEN Null ELSE s[j + 1]
      BY <1>2, <1>4
    <3>2. n # 0 => r[1] = s[j + 1]
      BY <1>5, <1>6
    <3>3. QED
      BY <1>3, <1>5, <3>1, <3>2
  <2>2. ASSUME NEW k \in 1 .. n
        PROVE  link'[r[k]] = IF k = n THEN Null ELSE r[k + 1]
    <3>1. k + j \in 1 .. m /\ r[k] = s[k + j]
      BY <1>5, <1>6
    <3>2. link'[r[k]] = IF k + j = m THEN Null ELSE s[(k + j) + 1]
      BY <1>3, <1>4, <3>1
    <3>3. k # n => r[k + 1] = s[(k + j) + 1]
      BY <1>5, <1>6
    <3>4. k = n <=> k + j = m
      BY <1>5
    <3>5. QED
      BY <3>2, <3>3, <3>4
  <2>3. ASSUME NEW x \in 1 .. n, NEW y \in 1 .. n, r[x] = r[y]
        PROVE  x = y
    <3>1. x + j \in 1 .. m /\ y + j \in 1 .. m /\ s[x + j] = s[y + j]
      BY <1>5, <1>6, <2>3
    <3>2. x + j = y + j
      BY <1>4, <3>1
    <3>3. QED
      BY <3>2, SMT
  <2>4. QED
    BY <2>1, <2>2, <2>3, Zenon DEF Linked
<1>8. Holds(r, n)'
  <2>1. ASSUME NEW k \in 1 .. n PROVE stage'[r[k]] = "pending"
    <3>1. k + j \in 1 .. m /\ r[k] = s[k + j] /\ k + j # j
      BY <1>5, <1>6
    <3>2. s[k + j] # t /\ s[k + j] \in Transfers
      BY <1>2, <1>4, <3>1
    <3>3. QED
      BY <1>3, <1>4, <3>1, <3>2
  <2>2. ASSUME NEW u \in Transfers \ Nested, stage'[u] = "pending"
        PROVE  \E k \in 1 .. n : r[k] = u
    <3>1. u # t /\ stage[u] = "pending"
      BY <1>3, <2>2, Zenon
    <3>2. PICK k \in 1 .. m : s[k] = u
      BY <1>1, <3>1, Zenon DEF SoundList, Holds
    <3>3. k \notin 1 .. j - 1 /\ k # j
      BY <1>2, <3>1, <3>2
    <3>4. k - j \in 1 .. n /\ r[k - j] = u
      BY <1>5, <1>6, <3>2, <3>3
    <3>5. QED
      BY <3>4, Zenon
  <2>3. QED
    BY <2>1, <2>2, Zenon DEF Holds
<1>9. Walks(r, n)' /\ Reporting(r, n)'
  BY DEF Walks, Reporting
<1>10. QED
  BY <1>5, <1>6, <1>7, <1>8, <1>9, Zenon DEF HasSoundList, SoundList

\* The walk holds the field that points to the reported transfer: that one is
\* taken out.
LEMMA UnlinkList ==
  ASSUME IInv, NEW t \in Transfers, CallbackReturns(t), curr # "head"
  PROVE  HasSoundList'
<1> USE DEF CallbackReturns, walkVars
<1>0. PICK m \in Nat : \E s \in [1 .. m -> Transfers] : SoundList(s, m)
  BY Zenon DEF IInv, HasSoundList
<1>1. PICK s \in [1 .. m -> Transfers] : SoundList(s, m)
  BY <1>0
<1>a. PICK j \in 1 .. m :
        s[j] = t /\ \E c \in 1 .. m : s[c] = curr /\ c # m /\ j = c + 1
  <2>1. \E j \in 1 .. m :
          /\ s[j] = t
          /\ curr = "head" => \A k \in 1 .. j - 1 : s[k] \in Nested
          /\ curr # "head" =>
               \E c \in 1 .. m : s[c] = curr /\ c # m /\ j = c + 1
    BY <1>1, ReturningIsListed
  <2>2. QED
    BY <2>1, Zenon
<1>2. PICK c \in 1 .. m : s[c] = curr /\ c # m /\ s[c + 1] = t
  BY <1>a, Zenon
<1> DEFINE n == m - 1
           r == [k \in 1 .. n |-> IF k <= c THEN s[k] ELSE s[k + 1]]
<1>3. /\ link'["head"] = link["head"]
      /\ link'[curr] = link[t]
      /\ \A u \in Transfers : u # curr => link'[u] = link[u]
      /\ stage'[t] = "freed"
      /\ \A u \in Transfers : u # t => stage'[u] = stage[u]
  <2>1. curr \in Transfers
    BY <1>2
  <2>2. QED
    BY <2>1, TransferAssumption, Zenon DEF IInv, TypeOK, Links
<1>4. /\ link["head"] = s[1]
      /\ \A k \in 1 .. m : link[s[k]] = IF k = m THEN Null ELSE s[k + 1]
      /\ \A k \in 1 .. m : stage[s[k]] = "pending"
      /\ \A x, y \in 1 .. m : s[x] = s[y] => x = y
  <2>1. m # 0
    BY SMT
  <2>2. QED
    BY <1>1, <2>1, Zenon DEF SoundList, Linked, Holds
<1>5. /\ n \in Nat /\ n # 0 /\ 1 \in 1 .. n /\ c \in 1 .. n /\ c <= c
      /\ 1 <= c
      /\ c + 1 \in 1 .. m
      /\ c = n <=> c + 1 = m
      /\ ~(c + 1 <= c)
      /\ \A k \in 1 .. n :
           /\ k # n => k + 1 \in 1 .. n
           /\ k <= c => k \in 1 .. m /\ k # m /\ k # c + 1
           /\ k <= c /\ k # c => k # n /\ k + 1 <= c
           /\ ~(k <= c) => /\ k + 1 \in 1 .. m
                           /\ k + 1 # c + 1
                           /\ k + 1 # c
                           /\ k = n <=> k + 1 = m
                           /\ ~(k + 1 <= c)
      /\ \A k \in 1 .. m : k # c + 1 =>
           \/ k <= c /\ k \in 1 .. n
           \/ k - 1 \in 1 .. n /\ ~(k - 1 <= c) /\ (k - 1) + 1 = k
  BY <1>2, SMT
<1>6. /\ r \in [1 .. n -> Transfers]
      /\ \A k \in 1 .. n : r[k] = IF k <= c THEN s[k] ELSE s[k + 1]
  <2>1. \A k \in 1 .. n : (IF k <= c THEN s[k] ELSE s[k + 1]) \in Transfers
    BY <1>5
  <2>2. QED
    BY <2>1, Zenon
<1> HIDE DEF r, n
<1>7. Linked(r, n)'
  <2>1. link'["head"] = IF n = 0 THEN Null ELSE r[1]
    BY <1>3, <1>4, <1>5, <1>6
  <2>2. ASSUME NEW k \in 1 .. n
        PROVE  link'[r[k]] = IF k = n THEN Null ELSE r[k + 1]
    <3>1. CASE k = c
      <4>1. link'[r[k]] = link[s[c + 1]]
        BY <1>2, <1>3, <1>5, <1>6, <3>1
      <4>2. link[s[c + 1]] = IF c + 1 = m THEN Null ELSE s[(c + 1) + 1]
        BY <1>4, <1>5
      <4>3. k # n => r[k + 1] = s[(c + 1) + 1]
        BY <1>5, <1>6, <3>1
      <4>4. QED
        BY <1>5, <3>1, <4>1, <4>2, <4>3
    <3>2. CASE k <= c /\ k # c
      <4>1. r[k] = s[k] /\ r[k + 1] = s[k + 1] /\ k # n
        BY <1>5, <1>6, <3>2
      <4>2. s[k] # curr /\ s[k] \in Transfers /\ k \in 1 .. m /\ k # m
        BY <1>2, <1>4, <1>5, <3>2
      <4>3. QED
        BY <1>3, <1>4, <4>1, <4>2
    <3>3. CASE ~(k <= c)
      <4>1. r[k] = s[k + 1] /\ k + 1 \in 1 .. m /\ k + 1 # c
        BY <1>5, <1>6, <3>3
      <4>2. s[k + 1] # curr /\ s[k + 1] \in Transfers
        BY <1>2, <1>4, <4>1
      <4>3. link'[r[k]] = IF k + 1 = m THEN Null ELSE s[(k + 1) + 1]
        BY <1>3, <1>4, <4>1, <4>2
      <4>4. k # n => r[k + 1] = s[(k + 1) + 1]
        BY <1>5, <1>6, <3>3
      <4>5. QED
        BY <1>5, <3>3, <4>3, <4>4
    <3>4. QED
      BY <3>1, <3>2, <3>3
  <2>3. ASSUME NEW x \in 1 .. n, NEW y \in 1 .. n, r[x] = r[y]
        PROVE  x = y
    <3>1. CASE x <= c /\ y <= c
      BY <1>4, <1>5, <1>6, <2>3, <3>1
    <3>2. CASE x <= c /\ ~(y <= c)
      <4>1. s[x] = s[y + 1] /\ x \in 1 .. m /\ y + 1 \in 1 .. m
        BY <1>5, <1>6, <2>3, <3>2
      <4>2. x = y + 1
        BY <1>4, <4>1
      <4>3. QED
        BY <3>2, <4>2, SMT
    <3>3. CASE ~(x <= c) /\ y <= c
      <4>1. s[x + 1] = s[y] /\ x + 1 \in 1 .. m /\ y \in 1 .. m
        BY <1>5, <1>6, <2>3, <3>3
      <4>2. x + 1 = y
        BY <1>4, <4>1
      <4>3. QED
        BY <3>3, <4>2, SMT
    <3>4. CASE ~(x <= c) /\ ~(y <= c)
      <4>1. s[x + 1] = s[y + 1] /\ x + 1 \in 1 .. m /\ y + 1 \in 1 .. m
        BY <1>5, <1>6, <2>3, <3>4
      <4>2. x + 1 = y + 1
        BY <1>4, <4>1
      <4>3. QED
        BY <4>2, SMT
    <3>5. QED
      BY <3>1, <3>2, <3>3, <3>4
  <2>4. QED
    BY <2>1, <2>2, <2>3, Zenon DEF Linked
<1>8. Holds(r, n)'
  <2>1. ASSUME NEW k \in 1 .. n PROVE stage'[r[k]] = "pending"
    <3>1. \E x \in 1 .. m : r[k] = s[x] /\ x # c + 1
      BY <1>5, <1>6
    <3>2. PICK x \in 1 .. m : r[k] = s[x] /\ x # c + 1
      BY <3>1
    <3>3. s[x] # t /\ s[x] \in Transfers
      BY <1>2, <1>4, <1>5, <3>2
    <3>4. QED
      BY <1>3, <1>4, <3>2, <3>3
  <2>2. ASSUME NEW u \in Transfers \ Nested, stage'[u] = "pending"
        PROVE  \E k \in 1 .. n : r[k] = u
    <3>1. u # t /\ stage[u] = "pending"
      BY <1>3, <2>2, Zenon
    <3>2. PICK k \in 1 .. m : s[k] = u
      BY <1>1, <3>1, Zenon DEF SoundList, Holds
    <3>3. k # c + 1
      BY <1>2, <3>1, <3>2
    <3>4. CASE k <= c /\ k \in 1 .. n
      BY <1>6, <3>2, <3>4
    <3>5. CASE k - 1 \in 1 .. n /\ ~(k - 1 <= c) /\ (k - 1) + 1 = k
      <4>1. r[k - 1] = u
        BY <1>6, <3>2, <3>5
      <4>2. QED
        BY <3>5, <4>1, Zenon
    <3>6. QED
      BY <1>5, <3>3, <3>4, <3>5
  <2>3. QED
    BY <2>1, <2>2, Zenon DEF Holds
<1>9. Walks(r, n)' /\ Reporting(r, n)'
  <2>1. r[c] = curr
    BY <1>2, <1>5, <1>6
  <2>2. QED
    BY <1>5, <2>1 DEF Walks, Reporting
<1>10. QED
  BY <1>5, <1>6, <1>7, <1>8, <1>9, Zenon DEF HasSoundList, SoundList

\* What a visit looks at: the link of the walk points into the list.
LEMMA VisitedIsListed ==
  ASSUME pc = "walk", link[curr] # Null,
         NEW m \in Nat, NEW s \in [1 .. m -> Transfers], SoundList(s, m)
  PROVE  \E j \in 1 .. m : s[j] = link[curr] /\ (curr = "head" => j = 1)
<1>1. CASE curr = "head"
  <2>1. m # 0 /\ link[curr] = s[1]
    BY <1>1, Zenon DEF SoundList, Linked
  <2>2. 1 \in 1 .. m
    BY <2>1, SMT
  <2>3. QED
    BY <2>1, <2>2, Zenon
<1>2. CASE curr # "head"
  <2>1. PICK c \in 1 .. m : s[c] = curr
    BY <1>2, Zenon DEF SoundList, Walks
  <2>2. link[curr] = s[c + 1] /\ c # m
    BY <2>1, Zenon DEF SoundList, Linked
  <2>3. c + 1 \in 1 .. m
    BY <2>2, SMT
  <2>4. QED
    BY <1>2, <2>2, <2>3, Zenon
<1>3. QED
  BY <1>1, <1>2

LEMMA VisitedIsPending ==
  ASSUME IInv, pc = "walk", link[curr] # Null
  PROVE  link[curr] \in Transfers /\ stage[link[curr]] = "pending"
<1>0. PICK m \in Nat : \E s \in [1 .. m -> Transfers] : SoundList(s, m)
  BY Zenon DEF IInv, HasSoundList
<1>1. PICK s \in [1 .. m -> Transfers] : SoundList(s, m)
  BY <1>0
<1>2. PICK j \in 1 .. m : s[j] = link[curr]
  BY <1>1, VisitedIsListed, Zenon
<1>3. QED
  BY <1>1, <1>2, Zenon DEF SoundList, Holds

LEMMA MovesOnList ==
  ASSUME IInv, VisitMovesOn
  PROVE  HasSoundList'
<1>0. PICK m \in Nat : \E s \in [1 .. m -> Transfers] : SoundList(s, m)
  BY Zenon DEF IInv, HasSoundList
<1>1. PICK s \in [1 .. m -> Transfers] : SoundList(s, m)
  BY <1>0
<1>2. /\ pc = "walk" /\ link[curr] # Null
      /\ UNCHANGED <<pc, link, stage, reports>>
      /\ curr' = link[curr]
  BY Zenon DEF VisitMovesOn, listVars
<1>3. PICK j \in 1 .. m : s[j] = link[curr]
  BY <1>1, <1>2, VisitedIsListed, Zenon
<1>4. Linked(s, m)' /\ Holds(s, m)'
  BY <1>1, <1>2 DEF SoundList, Linked, Holds
<1>5. Walks(s, m)' /\ Reporting(s, m)'
  BY <1>2, <1>3 DEF Walks, Reporting
<1>6. QED
  BY <1>4, <1>5, Zenon DEF HasSoundList, SoundList

LEMMA ReportsList ==
  ASSUME IInv, VisitReports
  PROVE  HasSoundList'
<1>0. PICK m \in Nat : \E s \in [1 .. m -> Transfers] : SoundList(s, m)
  BY Zenon DEF IInv, HasSoundList
<1>1. PICK s \in [1 .. m -> Transfers] : SoundList(s, m)
  BY <1>0
<1>2. /\ pc = "walk" /\ link[curr] # Null
      /\ UNCHANGED <<link, stage, curr>>
      /\ \E outcome \in {"success", "error"} :
           reports' = [reports EXCEPT ![link[curr]] = Append(@, outcome)]
      /\ pc' = "callback"
  BY Zenon DEF VisitReports, listVars, walkVars
<1>3. PICK j \in 1 .. m : s[j] = link[curr] /\ (curr = "head" => j = 1)
  BY <1>1, <1>2, VisitedIsListed, Zenon
<1>4. Linked(s, m)' /\ Holds(s, m)' /\ Walks(s, m)'
  BY <1>1, <1>2 DEF SoundList, Linked, Holds, Walks
<1>5. reports'[s[j]] # <<>>
  <2>1. PICK outcome \in {"success", "error"} :
          reports' = [reports EXCEPT ![s[j]] = Append(@, outcome)]
    BY <1>2, <1>3
  <2>2. /\ s[j] \in Transfers
        /\ reports \in [Transfers -> Seq({"success", "error"})]
    BY Zenon DEF IInv, TypeOK
  <2>3. reports'[s[j]] = Append(reports[s[j]], outcome)
    BY <2>1, <2>2, Zenon
  <2>4. reports[s[j]] \in Seq({"success", "error"})
    BY <2>2
  <2>5. QED
    BY <2>3, <2>4, AppendProperties
<1>6. Reporting(s, m)'
  <2>1. 1 .. 1 - 1 = {}
    BY SMT
  <2>2. curr = "head" => \A k \in 1 .. j - 1 : s[k] \in Nested
    BY <1>3, <2>1
  <2>3. QED
    BY <1>2, <1>3, <1>5, <2>2, Zenon DEF Reporting
<1>7. QED
  BY <1>4, <1>6, Zenon DEF HasSoundList, SoundList

\* The start and the end of a walk.
LEMMA EndsList ==
  ASSUME IInv, Poll \/ EndWalk
  PROVE  HasSoundList'
<1>0. PICK m \in Nat : \E s \in [1 .. m -> Transfers] : SoundList(s, m)
  BY Zenon DEF IInv, HasSoundList
<1>1. PICK s \in [1 .. m -> Transfers] : SoundList(s, m)
  BY <1>0
<1>2. /\ UNCHANGED <<link, stage, reports>>
      /\ (pc' = "walk" /\ curr' = "head") \/ pc' = "idle"
  BY Zenon DEF Poll, EndWalk, listVars, walkVars
<1>3. Linked(s, m)' /\ Holds(s, m)'
  BY <1>1, <1>2 DEF SoundList, Linked, Holds
<1>4. Walks(s, m)' /\ Reporting(s, m)'
  BY <1>2 DEF Walks, Reporting
<1>5. QED
  BY <1>3, <1>4, Zenon DEF HasSoundList, SoundList

\* A pull that fails never enters the list.
LEMMA FailedPullList ==
  ASSUME IInv, NEW t \in Transfers, PullWithoutPipe(t) \/ PullWithoutMemory(t)
  PROVE  HasSoundList'
<1>0. PICK m \in Nat : \E s \in [1 .. m -> Transfers] : SoundList(s, m)
  BY Zenon DEF IInv, HasSoundList
<1>1. PICK s \in [1 .. m -> Transfers] : SoundList(s, m)
  BY <1>0
<1>2. /\ UNCHANGED <<pc, link, curr>>
      /\ stage[t] = "unused"
      /\ \E x \in {"freed", "dropped"} : stage' = [stage EXCEPT ![t] = x]
      /\ \/ reports' = reports
         \/ reports' = [reports EXCEPT ![t] = Append(@, "error")]
  BY Zenon DEF PullWithoutPipe, PullWithoutMemory, MayPull, walkVars
<1>3. /\ stage'[t] # "pending"
      /\ \A u \in Transfers : u # t => /\ stage'[u] = stage[u]
                                       /\ reports'[u] = reports[u]
  BY <1>2, Zenon DEF IInv, TypeOK
<1>4. \A k \in 1 .. m : s[k] # t /\ s[k] \in Transfers
  BY <1>1, <1>2, Zenon DEF SoundList, Holds
<1>5. Linked(s, m)' /\ Walks(s, m)'
  BY <1>1, <1>2 DEF SoundList, Linked, Walks
<1>6. Holds(s, m)'
  BY <1>1, <1>3, <1>4, Zenon DEF SoundList, Holds
<1>7. Reporting(s, m)'
  BY <1>1, <1>2, <1>3, <1>4 DEF SoundList, Reporting
<1>8. QED
  BY <1>5, <1>6, <1>7, Zenon DEF HasSoundList, SoundList

----------------------------------------------------------------------------
(* Types, reports and blocks, action by action.                            *)

LEMMA InitIInv == Init => IInv
<1> SUFFICES ASSUME Init PROVE IInv
  OBVIOUS
<1> USE DEF Init
<1>1. TypeOK
  <2>1. /\ link \in [Links -> Transfers \union {Null}]
        /\ stage \in [Transfers -> {"unused", "pending", "dropped", "freed"}]
        /\ closed \in [Transfers -> BOOLEAN]
        /\ curr \in Links /\ pc \in {"idle", "walk", "callback"}
    BY Zenon DEF Links
  <2>2. /\ pipe \in [Transfers -> 0 .. MaxBlocks]
        /\ taken \in [Transfers -> 0 .. MaxBlocks]
        /\ i \in Nat
    BY TransferAssumption, SMT
  <2>3. /\ pfds \in Seq(Flags)
        /\ reports \in [Transfers -> Seq({"success", "error"})]
    BY EmptySeq, Zenon
  <2>4. QED
    BY <2>1, <2>2, <2>3, Zenon DEF TypeOK
<1>2. HasSoundList
  <2> DEFINE s == [k \in 1 .. 0 |-> "none"]
  <2>1. 1 .. 0 = {} /\ 0 \in Nat
    BY SMT
  <2>2. s \in [1 .. 0 -> Transfers]
    BY <2>1, Zenon
  <2> HIDE DEF s
  <2>3. SoundList(s, 0)
    BY <2>1, Zenon DEF SoundList, Linked, Holds, Walks, Reporting, Links
  <2>4. QED
    BY <2>1, <2>2, <2>3, Zenon DEF HasSoundList
<1>3. Reports
  BY SMT DEF Reports
<1>4. Blocks
  BY TransferAssumption, SMT DEF Blocks
<1>5. QED
  BY <1>1, <1>2, <1>3, <1>4 DEF IInv

LEMMA PullStep ==
  ASSUME IInv, NEW t \in Transfers, Pull(t)
  PROVE  IInv'
<1> USE DEF Pull, MayPull, sourceVars, walkVars
<1>1. TypeOK'
  BY Zenon DEF IInv, TypeOK, Links
<1>2. Reports'
  <2>1. reports[t] = <<>> /\ stage'[t] = "pending"
    BY Zenon DEF IInv, TypeOK, Reports
  <2>2. \A u \in Transfers : u # t => stage'[u] = stage[u]
    BY Zenon DEF IInv, TypeOK
  <2>3. QED
    BY <2>1, <2>2 DEF IInv, Reports
<1>3. Blocks'
  BY DEF IInv, Blocks
<1>4. QED
  BY <1>1, <1>2, <1>3, PullList DEF IInv

LEMMA FailedPullStep ==
  ASSUME IInv, NEW t \in Transfers, PullWithoutPipe(t) \/ PullWithoutMemory(t)
  PROVE  IInv'
<1> USE DEF PullWithoutPipe, PullWithoutMemory, MayPull, sourceVars, walkVars
<1>1. stage[t] = "unused" /\ reports[t] = <<>>
  BY Zenon DEF IInv, TypeOK, Reports
<1>2. \/ /\ reports' = [reports EXCEPT ![t] = <<"error">>]
         /\ stage' = [stage EXCEPT ![t] = "freed"]
      \/ reports' = reports /\ stage' = [stage EXCEPT ![t] = "dropped"]
  <2>1. Append(<<>>, "error") = <<"error">>
    BY SMT
  <2>2. QED
    BY <1>1, <2>1, Zenon
<1>3. <<"error">> \in Seq({"success", "error"}) /\ Len(<<"error">>) = 1
  BY SMT
<1>4. TypeOK'
  <2>1. /\ pc' = pc /\ link' = link /\ pipe' = pipe /\ closed' = closed
        /\ taken' = taken /\ pfds' = pfds /\ curr' = curr /\ i' = i
    BY Zenon
  <2>2. /\ stage' \in [Transfers -> {"unused", "pending", "dropped", "freed"}]
        /\ reports' \in [Transfers -> Seq({"success", "error"})]
    BY <1>2, <1>3, Zenon DEF IInv, TypeOK
  <2>3. QED
    BY <2>1, <2>2, Zenon DEF IInv, TypeOK
<1>5. Reports'
  <2>1. /\ \A u \in Transfers : u # t => /\ stage'[u] = stage[u]
                                         /\ reports'[u] = reports[u]
        /\ \/ stage'[t] = "freed" /\ reports'[t] = <<"error">>
           \/ stage'[t] = "dropped" /\ reports'[t] = <<>>
    BY <1>1, <1>2, Zenon DEF IInv, TypeOK
  <2>2. pc' = pc /\ <<"error">> # <<>> /\ Len(<<>>) = 0
    BY SMT
  <2>3. ASSUME NEW u \in Transfers
        PROVE  /\ Len(reports'[u]) <= 1
               /\ stage'[u] \in {"unused", "dropped"} => reports'[u] = <<>>
               /\ stage'[u] = "freed" => reports'[u] # <<>>
    <3>1. Len(<<"error">>) <= 1 /\ Len(<<>>) <= 1
      BY <1>3, <2>2, SMT
    <3>2. CASE u = t
      <4>1. CASE stage'[t] = "freed" /\ reports'[t] = <<"error">>
        <5>1. reports'[u] = <<"error">> /\ stage'[u] = "freed"
          BY <3>2, <4>1, Zenon
        <5>2. stage'[u] \notin {"unused", "dropped"}
          BY <5>1
        <5>3. QED
          BY <2>2, <3>1, <5>1, <5>2, Zenon
      <4>2. CASE stage'[t] = "dropped" /\ reports'[t] = <<>>
        <5>1. reports'[u] = <<>> /\ stage'[u] = "dropped"
          BY <3>2, <4>2, Zenon
        <5>2. stage'[u] # "freed"
          BY <5>1
        <5>3. QED
          BY <3>1, <5>1, <5>2, Zenon
      <4>3. QED
        BY <2>1, <4>1, <4>2, Zenon
    <3>3. CASE u # t
      BY <2>1, <3>3 DEF IInv, Reports
    <3>4. QED
      BY <3>2, <3>3
  <2>4. \A u \in Transfers : stage'[u] = "pending" =>
          u # t /\ stage[u] = "pending" /\ reports'[u] = reports[u]
    BY <2>1, Zenon
  <2>5. QED
    BY <2>2, <2>3, <2>4, Zenon DEF IInv, Reports
<1>6. Blocks'
  BY DEF IInv, Blocks
<1>7. QED
  BY <1>4, <1>5, <1>6, FailedPullList DEF IInv

LEMMA SourceStep ==
  ASSUME IInv, NEW t \in Transfers, SourceWrite(t) \/ SourceClose(t)
  PROVE  IInv'
<1> USE DEF SourceWrite, SourceClose, listVars, walkVars
<1>1. UNCHANGED <<pc, link, stage, taken, pfds, curr, i, reports>>
  BY Zenon
<1>2. \/ /\ taken[t] + pipe[t] < MaxBlocks
         /\ pipe' = [pipe EXCEPT ![t] = @ + 1]
         /\ closed' = closed
      \/ pipe' = pipe /\ closed' = [closed EXCEPT ![t] = TRUE]
  BY Zenon
<1>3. TypeOK' /\ Blocks'
  <2>1. taken \in [Transfers -> 0 .. MaxBlocks]
        /\ pipe \in [Transfers -> 0 .. MaxBlocks]
        /\ closed \in [Transfers -> BOOLEAN]
    BY Zenon DEF IInv, TypeOK
  <2>2. MaxBlocks \in Nat
    BY TransferAssumption
  <2>3. pipe' \in [Transfers -> 0 .. MaxBlocks] /\ Blocks'
    BY <1>1, <1>2, <2>1, <2>2, SMT DEF IInv, Blocks
  <2>4. closed' \in [Transfers -> BOOLEAN]
    BY <1>2, <2>1, Zenon
  <2>5. QED
    BY <1>1, <2>3, <2>4, Zenon DEF IInv, TypeOK
<1>4. Reports'
  BY <1>1 DEF IInv, Reports
<1>5. HasSoundList'
  BY <1>1, SameList DEF IInv
<1>6. QED
  BY <1>3, <1>4, <1>5 DEF IInv

LEMMA FunctionIsSequence ==
  ASSUME NEW S, NEW n \in Nat, NEW f \in [1 .. n -> S]
  PROVE  f \in Seq(S)
BY SeqDef, Zenon

\* poll fills one descriptor for each transfer of the list, as far as there is
\* room.
LEMMA DescriptorsAreSequence ==
  ASSUME IInv, Poll
  PROVE  pfds' \in Seq(Flags)
<1>0. PICK m \in Nat : \E s \in [1 .. m -> Transfers] : SoundList(s, m)
  BY Zenon DEF IInv, HasSoundList
<1>1. PICK s \in [1 .. m -> Transfers] : SoundList(s, m)
  BY <1>0
<1> DEFINE D == {n \in 1 .. Cardinality(Transfers) :
                   n <= Room /\ Reached[n - 1] # Null}
           top == IF m <= Room THEN m ELSE Room
<1>2. /\ Cardinality(Transfers) \in Nat /\ m <= Cardinality(Transfers)
      /\ \A n \in 0 .. Cardinality(Transfers) :
           Reached[n] = IF n < m THEN s[n + 1] ELSE Null
  BY <1>1, ListFits, ReachedIs DEF SoundList
<1>3. top \in Nat
  BY TransferAssumption, SMT
<1>4. D = 1 .. top
  <2>1. ASSUME NEW n \in 1 .. Cardinality(Transfers)
        PROVE  (n <= Room /\ Reached[n - 1] # Null) <=> n \in 1 .. top
    <3>1. n - 1 \in 0 .. Cardinality(Transfers) /\ (n - 1) + 1 = n
      BY <1>2, SMT
    <3>2. Reached[n - 1] = IF n - 1 < m THEN s[n] ELSE Null
      BY <1>2, <3>1
    <3>3. n \in 1 .. m => s[n] # Null
      BY TransferAssumption
    <3>4. n - 1 < m <=> n \in 1 .. m
      BY SMT
    <3>5. Reached[n - 1] # Null <=> n \in 1 .. m
      BY <3>2, <3>3, <3>4
    <3>6. n <= Room /\ n \in 1 .. m <=> n \in 1 .. top
      BY TransferAssumption, SMT
    <3>7. QED
      BY <3>5, <3>6
  <2>2. 1 .. top \subseteq 1 .. Cardinality(Transfers)
    BY <1>2, TransferAssumption, SMT
  <2>3. QED
    BY <2>1, <2>2
<1>5. pfds' = [k \in D |-> Revents(Reached[k - 1])]
  BY Zenon DEF Poll
<1>6. \A k \in D : Revents(Reached[k - 1]) \in Flags
  BY DEF Revents, Flags
<1> HIDE DEF D, top
<1>7. pfds' \in [1 .. top -> Flags]
  BY <1>4, <1>5, <1>6, Zenon
<1>8. QED
  BY <1>3, <1>7, FunctionIsSequence

LEMMA PollStep ==
  ASSUME IInv, Poll \/ EndWalk
  PROVE  IInv'
<1> USE DEF Poll, EndWalk, listVars, sourceVars, walkVars
<1>1. /\ UNCHANGED <<link, stage, pipe, closed, taken, reports>>
      /\ pc \in {"idle", "walk"}
      /\ pc' \in {"idle", "walk"}
      /\ curr' = curr \/ curr' = "head"
      /\ i' = i \/ i' = 1
  BY Zenon
<1>2. pfds' \in Seq(Flags)
  BY DescriptorsAreSequence DEF IInv, TypeOK
<1>3. TypeOK'
  BY <1>1, <1>2, SMT DEF IInv, TypeOK, Links
<1>4. Reports'
  BY <1>1 DEF IInv, Reports
<1>5. Blocks'
  BY <1>1 DEF IInv, Blocks
<1>6. QED
  BY <1>3, <1>4, <1>5, EndsList DEF IInv

LEMMA MovesOnStep ==
  ASSUME IInv, VisitMovesOn
  PROVE  IInv'
<1> DEFINE t == link[curr]
<1>1. /\ pc = "walk" /\ t # Null
      /\ UNCHANGED <<pc, link, stage, closed, pfds, reports>>
      /\ curr' = t
      /\ i' = i + 1
  BY Zenon DEF VisitMovesOn, listVars
<1>2. \E flags \in Observed :
        \E outcome \in Outcomes(t, flags) \intersect {"stored", "nothing"} :
          /\ pipe' = [pipe EXCEPT ![t] = @ - Block(t, flags)]
          /\ taken' = [taken EXCEPT ![t] =
                         IF outcome = "stored" THEN @ + 1 ELSE @]
  BY Zenon DEF VisitMovesOn
<1>3. PICK flags \in Observed :
        \E outcome \in Outcomes(t, flags) \intersect {"stored", "nothing"} :
          /\ pipe' = [pipe EXCEPT ![t] = @ - Block(t, flags)]
          /\ taken' = [taken EXCEPT ![t] =
                         IF outcome = "stored" THEN @ + 1 ELSE @]
  BY <1>2
<1>4. PICK outcome \in Outcomes(t, flags) \intersect {"stored", "nothing"} :
        /\ pipe' = [pipe EXCEPT ![t] = @ - Block(t, flags)]
        /\ taken' = [taken EXCEPT ![t] =
                       IF outcome = "stored" THEN @ + 1 ELSE @]
  BY <1>3
<1>5. t \in Transfers /\ stage[t] = "pending"
  BY <1>1, VisitedIsPending
<1>6. /\ taken \in [Transfers -> 0 .. MaxBlocks]
      /\ pipe \in [Transfers -> 0 .. MaxBlocks]
      /\ MaxBlocks \in Nat
  BY TransferAssumption, Zenon DEF IInv, TypeOK
<1>7. Block(t, flags) \in 0 .. 1 /\ Block(t, flags) <= pipe[t]
  BY <1>5, <1>6, SMT DEF Block
<1>8. outcome = "stored" => Block(t, flags) = 1
  <2>1. outcome = "stored" => "in" \in flags /\ pipe[t] > 0
    BY DEF Outcomes
  <2>2. QED
    BY <2>1 DEF Block
<1> HIDE DEF t
<1>9. /\ pipe' \in [Transfers -> 0 .. MaxBlocks]
      /\ taken' \in [Transfers -> 0 .. MaxBlocks]
      /\ Blocks'
  <2>1. taken[t] + pipe[t] <= MaxBlocks
    BY <1>5 DEF IInv, Blocks
  <2>2. /\ \A u \in Transfers : u # t => /\ pipe'[u] = pipe[u]
                                         /\ taken'[u] = taken[u]
        /\ pipe'[t] = pipe[t] - Block(t, flags)
        /\ taken'[t] = IF outcome = "stored" THEN taken[t] + 1 ELSE taken[t]
        /\ pipe' = [u \in Transfers |-> pipe'[u]]
        /\ taken' = [u \in Transfers |-> taken'[u]]
    BY <1>4, <1>5, <1>6, Zenon
  <2>3. pipe[t] \in 0 .. MaxBlocks /\ taken[t] \in 0 .. MaxBlocks
    BY <1>5, <1>6
  <2>4. /\ pipe'[t] \in 0 .. MaxBlocks
        /\ taken'[t] \in 0 .. MaxBlocks
        /\ taken'[t] + pipe'[t] <= MaxBlocks
    BY <1>6, <1>7, <1>8, <2>1, <2>2, <2>3, SMT
  <2>5. Blocks'
    BY <2>2, <2>4 DEF IInv, Blocks
  <2>6. \A u \in Transfers : /\ pipe'[u] \in 0 .. MaxBlocks
                             /\ taken'[u] \in 0 .. MaxBlocks
    BY <1>6, <2>2, <2>4, Zenon
  <2>7. QED
    BY <2>2, <2>5, <2>6, Zenon
<1>10. TypeOK'
  <2>1. curr' \in Links
    BY <1>1, <1>5 DEF Links
  <2>2. i' \in Nat
    BY <1>1, SMT DEF IInv, TypeOK
  <2>3. QED
    BY <1>1, <1>9, <2>1, <2>2, Zenon DEF IInv, TypeOK
<1>11. Reports'
  BY <1>1 DEF IInv, Reports
<1>12. QED
  BY <1>9, <1>10, <1>11, MovesOnList DEF IInv

LEMMA ReportsStep ==
  ASSUME IInv, VisitReports
  PROVE  IInv'
<1> DEFINE t == link[curr]
<1>1. /\ pc = "walk" /\ t # Null
      /\ UNCHANGED <<link, stage, closed, taken, pfds, curr, i>>
      /\ pc' = "callback"
  BY Zenon DEF VisitReports, listVars, walkVars
<1>2. \E flags \in Observed : \E outcome \in {"success", "error"} :
          /\ pipe' = [pipe EXCEPT ![t] = @ - Block(t, flags)]
          /\ reports' = [reports EXCEPT ![t] = Append(@, outcome)]
  BY Zenon DEF VisitReports
<1>3. PICK flags \in Observed : \E outcome \in {"success", "error"} :
          /\ pipe' = [pipe EXCEPT ![t] = @ - Block(t, flags)]
          /\ reports' = [reports EXCEPT ![t] = Append(@, outcome)]
  BY <1>2
<1>4. PICK outcome \in {"success", "error"} :
          /\ pipe' = [pipe EXCEPT ![t] = @ - Block(t, flags)]
          /\ reports' = [reports EXCEPT ![t] = Append(@, outcome)]
  BY <1>3
<1>5. t \in Transfers /\ stage[t] = "pending"
  BY <1>1, VisitedIsPending
<1>6. /\ taken \in [Transfers -> 0 .. MaxBlocks]
      /\ pipe \in [Transfers -> 0 .. MaxBlocks]
      /\ reports \in [Transfers -> Seq({"success", "error"})]
      /\ MaxBlocks \in Nat
  BY TransferAssumption, Zenon DEF IInv, TypeOK
<1>7. Block(t, flags) \in 0 .. 1 /\ Block(t, flags) <= pipe[t]
  BY <1>5, <1>6, SMT DEF Block
<1> HIDE DEF t
<1>8. pipe' \in [Transfers -> 0 .. MaxBlocks] /\ Blocks'
  <2>1. /\ \A u \in Transfers : u # t => pipe'[u] = pipe[u]
        /\ pipe'[t] = pipe[t] - Block(t, flags)
        /\ pipe' = [u \in Transfers |-> pipe'[u]]
    BY <1>4, <1>5, <1>6, Zenon
  <2>2. /\ pipe[t] \in 0 .. MaxBlocks /\ taken[t] \in 0 .. MaxBlocks
        /\ taken[t] + pipe[t] <= MaxBlocks
    BY <1>5, <1>6 DEF IInv, Blocks
  <2>3. pipe'[t] \in 0 .. MaxBlocks /\ taken[t] + pipe'[t] <= MaxBlocks
    BY <1>6, <1>7, <2>1, <2>2, SMT
  <2>4. Blocks'
    BY <1>1, <2>1, <2>3 DEF IInv, Blocks
  <2>5. \A u \in Transfers : pipe'[u] \in 0 .. MaxBlocks
    BY <1>6, <2>1, <2>3, Zenon
  <2>6. QED
    BY <2>1, <2>4, <2>5, Zenon
<1>9. /\ reports[t] = <<>>
      /\ \A u \in Transfers : stage[u] = "pending" => reports[u] = <<>>
  BY <1>1, <1>5 DEF IInv, Reports
<1>10. /\ reports'[t] = <<outcome>>
       /\ \A u \in Transfers : u # t => reports'[u] = reports[u]
       /\ reports' \in [Transfers -> Seq({"success", "error"})]
  <2>1. Append(<<>>, outcome) = <<outcome>>
    BY SMT
  <2>2. <<outcome>> \in Seq({"success", "error"})
    BY SMT
  <2>3. reports' = [reports EXCEPT ![t] = <<outcome>>]
    BY <1>4, <1>9, <2>1, Zenon
  <2>4. QED
    BY <1>5, <1>6, <2>2, <2>3, Zenon
<1>11. TypeOK'
  BY <1>1, <1>8, <1>10, Zenon DEF IInv, TypeOK
<1>12. Reports'
  <2>1. <<outcome>> # <<>> /\ Len(<<outcome>>) = 1
    BY SMT
  <2>2. ASSUME NEW u \in Transfers
        PROVE  /\ Len(reports'[u]) <= 1
               /\ stage'[u] \in {"unused", "dropped"} => reports'[u] = <<>>
               /\ stage'[u] = "freed" => reports'[u] # <<>>
    <3>1. CASE u = t
      <4>1. reports'[u] = <<outcome>> /\ stage'[u] = "pending"
        BY <1>1, <1>5, <1>10, <3>1, Zenon
      <4>2. stage'[u] \notin {"unused", "dropped"} /\ stage'[u] # "freed"
        BY <4>1
      <4>3. Len(<<outcome>>) <= 1
        BY <2>1, SMT
      <4>4. QED
        BY <4>1, <4>2, <4>3, Zenon
    <3>2. CASE u # t
      BY <1>1, <1>10, <3>2 DEF IInv, Reports
    <3>3. QED
      BY <3>1, <3>2
  <2>3. \A u \in Transfers :
          stage'[u] = "pending" /\ reports'[u] # <<>> => u = t
    BY <1>1, <1>9, <1>10, Zenon
  <2>4. QED
    BY <1>1, <2>2, <2>3, Zenon DEF Reports
<1>13. QED
  BY <1>8, <1>11, <1>12, ReportsList DEF IInv

LEMMA CallbackReturnsStep ==
  ASSUME IInv, NEW t \in Transfers, CallbackReturns(t)
  PROVE  IInv'
<1> USE DEF CallbackReturns, sourceVars, walkVars
<1>1. HasSoundList'
  BY CutList, UnlinkList
<1>2. TypeOK'
  BY Zenon DEF IInv, TypeOK, Links
<1>3. Reports'
  <2>1. stage'[t] = "freed"
        /\ \A u \in Transfers : u # t => stage'[u] = stage[u]
    BY Zenon DEF IInv, TypeOK
  <2>2. \A u \in Transfers : stage'[u] = "pending" => reports[u] = <<>>
    BY <2>1 DEF IInv, Reports
  <2>3. QED
    BY <2>1, <2>2 DEF IInv, Reports
<1>4. Blocks'
  BY DEF IInv, Blocks
<1>5. QED
  BY <1>1, <1>2, <1>3, <1>4 DEF IInv

LEMMA NextIInv == IInv /\ [Next]_vars => IInv'
<1> SUFFICES ASSUME IInv, [Next]_vars PROVE IInv'
  OBVIOUS
<1>1. CASE Poll \/ EndWalk
  BY <1>1, PollStep
<1>2. CASE VisitMovesOn
  BY <1>2, MovesOnStep
<1>3. CASE VisitReports
  BY <1>3, ReportsStep
<1>4. ASSUME NEW t \in Transfers, CallbackReturns(t) PROVE IInv'
  BY <1>4, CallbackReturnsStep
<1>5. ASSUME NEW t \in Transfers, Pull(t) PROVE IInv'
  BY <1>5, PullStep
<1>6. ASSUME NEW t \in Transfers, PullWithoutPipe(t) \/ PullWithoutMemory(t)
      PROVE  IInv'
  BY <1>6, FailedPullStep
<1>7. ASSUME NEW t \in Transfers, SourceWrite(t) \/ SourceClose(t)
      PROVE  IInv'
  BY <1>7, SourceStep
<1>8. CASE UNCHANGED vars
  <2> USE <1>8 DEF vars, listVars, sourceVars, walkVars
  <2>1. TypeOK'
    BY DEF IInv, TypeOK
  <2>2. HasSoundList'
    BY SameList DEF IInv
  <2>3. Reports' /\ Blocks'
    BY DEF IInv, Reports, Blocks
  <2>4. QED
    BY <2>1, <2>2, <2>3 DEF IInv
<1>9. QED
  BY <1>1, <1>2, <1>3, <1>4, <1>5, <1>6, <1>7, <1>8 DEF Next, PumpStep

----------------------------------------------------------------------------
(* The theorems.                                                           *)

\* The strengthened invariant holds in every reachable state: the links of the
\* pending transfers always form one finite list without repetition.
THEOREM TransfersInvariant == Spec => []IInv
  BY InitIInv, NextIInv, PTL DEF Spec

\* Whatever the callbacks pull while the walk holds a link, the list reaches
\* pending transfers only, the link the walk holds is the head or a field of a
\* transfer that is not freed, and no transfer pulled between two pumps is ever
\* left out of it.
THEOREM ListIsAlwaysSound == Spec => []ListIsSound
<1>1. IInv => ListIsSound
  <2> SUFFICES ASSUME IInv PROVE ListIsSound
    OBVIOUS
  <2>0. PICK m \in Nat : \E s \in [1 .. m -> Transfers] : SoundList(s, m)
    BY Zenon DEF IInv, HasSoundList
  <2>1. PICK s \in [1 .. m -> Transfers] : SoundList(s, m)
    BY <2>0
  <2>2. /\ DOMAIN Reached = 0 .. Cardinality(Transfers)
        /\ \A n \in 0 .. Cardinality(Transfers) :
             Reached[n] = IF n < m THEN s[n + 1] ELSE Null
        /\ Cardinality(Transfers) \in Nat /\ m <= Cardinality(Transfers)
    BY <2>1, ReachedIs, ListFits DEF SoundList
  <2>3. NothingFreedIsReached
    <3>1. ASSUME NEW n \in DOMAIN Reached, Reached[n] # Null
          PROVE  stage[Reached[n]] = "pending"
      <4>1. n \in 0 .. Cardinality(Transfers) /\ n < m /\ Reached[n] = s[n + 1]
        BY <2>2, <3>1
      <4>2. n + 1 \in 1 .. m
        BY <2>2, <4>1, SMT
      <4>3. QED
        BY <2>1, <4>1, <4>2 DEF SoundList, Holds
    <3>2. pc # "idle" => curr = "head" \/ stage[curr] = "pending"
      BY <2>1, Zenon DEF SoundList, Holds, Walks
    <3>3. QED
      BY <3>1, <3>2, Zenon DEF NothingFreedIsReached
  <2>4. PendingIsLinked
    <3>1. SUFFICES ASSUME NEW t \in Transfers \ Nested, stage[t] = "pending"
                   PROVE  \E n \in DOMAIN Reached : Reached[n] = t
      BY Zenon DEF PendingIsLinked
    <3>2. PICK k \in 1 .. m : s[k] = t
      BY <2>1, <3>1, Zenon DEF SoundList, Holds
    <3>3. /\ k - 1 \in 0 .. Cardinality(Transfers)
          /\ k - 1 < m /\ (k - 1) + 1 = k
      BY <2>2, SMT
    <3>4. Reached[k - 1] = t
      BY <2>2, <3>2, <3>3
    <3>5. QED
      BY <2>2, <3>3, <3>4
  <2>5. QED
    BY <2>3, <2>4 DEF ListIsSound, IInv
<1>2. QED
  BY <1>1, TransfersInvariant, PTL

\* One DATA_READY for a transfer and no more, and none is freed without it.
THEOREM TransfersAreReportedOnce == Spec => []ReportedOnce
<1>1. IInv => ReportedOnce
  BY Zenon DEF IInv, Reports, ReportedOnce
<1>2. QED
  BY <1>1, TransfersInvariant, PTL
=============================================================================
