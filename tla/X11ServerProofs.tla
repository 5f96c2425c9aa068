--------------------------- MODULE X11ServerProofs ---------------------------
(***************************************************************************)
(* Proofs about what the backend knows of the X11 server's state: the      *)
(* monitors, for any number of outputs, modes, changes and nested updates, *)
(* and the clipboard, for any owners, contents, ids and nested calls.      *)
(*                                                                         *)
(* ListFollows is not inductive: nothing in it says what an update that    *)
(* runs, or the one that it interrupts, has already put right.  ListInv    *)
(* says it of the innermost update only: with no notification pending, no  *)
(* monitor is present that is off, and every output that is on and that    *)
(* the innermost update does not have before it is present with its mode.  *)
(* When an update ends it has nothing before it, so everything is right,   *)
(* which is more than the update below needs.  TellInv does the same for   *)
(* the sweep.                                                              *)
(*                                                                         *)
(* ReadIsExplained is not inductive either: it speaks of what a call has   *)
(* returned.  ClipboardInv says of every call of the stack which           *)
(* conversions may still end in its answer, by the ids that were handed    *)
(* out before, by and after it, and that all of these are of the format it *)
(* expects unless another call came in between.                            *)
(***************************************************************************)
EXTENDS X11Monitors, X11Clipboard, SequenceTheorems, TLAPS

----------------------------------------------------------------------------
(* Monitors.                                                                *)

Types ==
  /\ live \in [Output -> Mode \union {Off}]
  /\ pending \in Nat
  /\ list \in Seq(Output)
  /\ lost \subseteq Known
  /\ mode \in [Output -> Mode \union {Off}]
  /\ updates \in Seq(Update)
  /\ told \in [Output -> {"never", "connected", "gone"}]
  /\ toldMode \in [Output -> Mode \union {Off}]

\* What the innermost update still has to visit.
Before == IF updates # <<>> /\ Top.at = "visit" THEN Members(Top.todo) ELSE {}

ListInv ==
  pending = 0 =>
    /\ Present \subseteq On
    /\ \A o \in On \ Before : o \in Present /\ mode[o] = live[o]

\* What the innermost update still has to sweep, if it has come to that.
Unswept ==
  IF updates = <<>> THEN {}
  ELSE IF Top.at = "sweep" THEN Members(Top.todo) ELSE lost

TellInv ==
  /\ \A o \in lost \ Unswept : told[o] = "gone"
  /\ \A o \in Known : told[o] # "never" /\ toldMode[o] = mode[o]

MonitorsInv == Types /\ ListInv /\ TellInv

-----------------------------------------------------------------------------
(* Sequences.                                                               *)

\* Replacing the last element of a sequence and taking one away.
LEMMA LastReplaced ==
  ASSUME NEW S, NEW s \in Seq(S), s # <<>>, NEW x \in S
  PROVE  LET t == [s EXCEPT ![Len(s)] = x]
         IN  t \in Seq(S) /\ t # <<>> /\ Len(t) = Len(s) /\ t[Len(t)] = x
  OBVIOUS

LEMMA LastRemoved ==
  ASSUME NEW S, NEW s \in Seq(S), s # <<>>
  PROVE  SubSeq(s, 1, Len(s) - 1) \in Seq(S)
  OBVIOUS

LEMMA LastAppended ==
  ASSUME NEW S, NEW s \in Seq(S), NEW x \in S
  PROVE  LET t == Append(s, x)
         IN  t \in Seq(S) /\ t # <<>> /\ t[Len(t)] = x
  OBVIOUS

\* The members of a sequence are its head and those of its tail.
LEMMA HeadAndTail ==
  ASSUME NEW S, NEW s \in Seq(S), s # <<>>
  PROVE  /\ Head(s) \in S /\ Tail(s) \in Seq(S)
         /\ Members(s) = {Head(s)} \union Members(Tail(s))
  <1>1. Head(s) \in S /\ Tail(s) \in Seq(S) /\ Head(s) = s[1]
    OBVIOUS
  <1>2. Members(Tail(s)) \subseteq Members(s)
    BY DEF Members
  <1>3. \A k \in DOMAIN s : k = 1 \/ (s[k] = Tail(s)[k - 1] /\ k - 1 \in DOMAIN Tail(s))
    OBVIOUS
  <1>4. Head(s) \in Members(s)
    <2>1. 1 \in DOMAIN s
      OBVIOUS
    <2>2. QED BY <1>1, <2>1 DEF Members
  <1>5. Members(s) \subseteq {Head(s)} \union Members(Tail(s))
    BY <1>1, <1>3 DEF Members
  <1>6. QED BY <1>1, <1>2, <1>4, <1>5

\* A record is put before the others.
LEMMA Prepended ==
  ASSUME NEW S, NEW s \in Seq(S), NEW x \in S
  PROVE  <<x>> \o s \in Seq(S) /\ Members(<<x>> \o s) = {x} \union Members(s)
  <1> DEFINE t == <<x>> \o s
  <1>1. t \in Seq(S) /\ Len(t) = Len(s) + 1 /\ t[1] = x
    OBVIOUS
  <1>2. \A k \in 1 .. Len(s) : t[k + 1] = s[k]
    OBVIOUS
  <1>3. Members(s) \subseteq Members(t)
    <2>1. \A k \in DOMAIN s : k + 1 \in DOMAIN t
      BY <1>1
    <2>2. QED BY <1>2, <2>1 DEF Members
  <1>4. Members(t) \subseteq {x} \union Members(s)
    <2>1. \A k \in DOMAIN t : k = 1 \/ (k - 1 \in 1 .. Len(s) /\ t[k] = s[k - 1])
      BY <1>1, <1>2
    <2>2. QED BY <1>1, <2>1 DEF Members
  <1>5. x \in Members(t)
    BY <1>1 DEF Members
  <1>6. QED BY <1>1, <1>3, <1>4, <1>5

-----------------------------------------------------------------------------
(* The innermost update.                                                    *)

\* After a step that replaces the innermost update, it is the new one.
LEMMA TopReplaced ==
  ASSUME Types, updates # <<>>, NEW u \in Update, updates' = SetTop(u)
  PROVE  updates' \in Seq(Update) /\ updates' # <<>> /\ Top' = u
  BY LastReplaced DEF Types, SetTop, Top

LEMMA TopTyped ==
  ASSUME Types, updates # <<>>
  PROVE  Top \in Update
  BY DEF Types, Top

\* Skipping and calling back take the first element from what is left to do.
LEMMA Advanced ==
  ASSUME Types, updates # <<>>, Top.todo # <<>>, Skip \/ CallBack
  PROVE  /\ updates' \in Seq(Update) /\ updates' # <<>>
         /\ Top'.at = Top.at /\ Top'.todo = Tail(Top.todo)
         /\ Head(Top.todo) \in Output
         /\ Members(Top.todo) = {Head(Top.todo)} \union Members(Top'.todo)
  <1>1. Top \in Update
    BY TopTyped
  <1>2. Top.todo \in Seq(Output)
    BY <1>1 DEF Update
  <1>3. /\ Head(Top.todo) \in Output /\ Tail(Top.todo) \in Seq(Output)
        /\ Members(Top.todo) = {Head(Top.todo)} \union Members(Tail(Top.todo))
    BY <1>2, HeadAndTail
  <1>4. CASE Skip
    <2> DEFINE u == [Top EXCEPT !.todo = Tail(@)]
    <2>1. u \in Update /\ u.at = Top.at /\ u.todo = Tail(Top.todo)
      BY <1>1, <1>3 DEF Update
    <2>2. updates' = SetTop(u)
      BY <1>4 DEF Skip
    <2> HIDE DEF u
    <2>3. QED BY <1>3, <2>1, <2>2, TopReplaced
  <1>5. CASE CallBack
    <2> DEFINE u == [Top EXCEPT !.todo = Tail(@), !.calling = TRUE]
    <2>1. u \in Update /\ u.at = Top.at /\ u.todo = Tail(Top.todo)
      BY <1>1, <1>3 DEF Update
    <2>2. updates' = SetTop(u)
      BY <1>5 DEF CallBack
    <2> HIDE DEF u
    <2>3. QED BY <1>3, <2>1, <2>2, TopReplaced
  <1>6. QED BY <1>4, <1>5

-----------------------------------------------------------------------------
(* The steps.                                                               *)

LEMMA InitEstablishes == Init => MonitorsInv
  <1> SUFFICES ASSUME Init PROVE MonitorsInv
    OBVIOUS
  <1>1. Known = {}
    BY DEF Init, Known, Members
  <1>2. On = {}
    BY DEF Init, On
  <1>3. Types
    BY <1>1 DEF Init, Types
  <1>4. ListInv
    BY <1>1, <1>2 DEF Init, ListInv, Present
  <1>5. TellInv
    BY <1>1 DEF Init, TellInv
  <1>6. QED BY <1>3, <1>4, <1>5 DEF MonitorsInv

\* A change of the server leaves a notification, and nothing is claimed.
LEMMA ChangePreserves ==
  ASSUME MonitorsInv, NEW o \in Output, NEW m \in Mode \union {Off}, Change(o, m)
  PROVE  MonitorsInv'
  <1> USE DEF MonitorsInv
  <1>1. Types' /\ pending' # 0
    BY DEF Types, Change, records, events, Known
  <1>2. TellInv'
    BY DEF TellInv, Change, records, events, Known, Unswept, Top
  <1>3. QED BY <1>1, <1>2 DEF ListInv

\* At the start of an update no monitor is present and every output is before it.
LEMMA BeginPreserves ==
  ASSUME MonitorsInv, Begin
  PROVE  MonitorsInv'
  <1> USE DEF MonitorsInv
  <1> DEFINE u == [at |-> "visit", todo |-> Outputs, calling |-> FALSE]
  <1>1. u \in Update
    BY Assumptions DEF Update
  <1>2. updates' = Append(updates, u)
    BY DEF Begin
  <1>3. updates' \in Seq(Update) /\ updates' # <<>> /\ Top' = u
    BY <1>1, <1>2, LastAppended DEF Types, Top
  <1>4. Types'
    BY <1>3 DEF Types, Begin, events, Known
  <1>5. Before' = Output
    BY <1>3 DEF Before, Members, Output
  <1>6. ListInv'
    BY <1>5 DEF ListInv, Begin, Present, On, Known
  <1>7. TellInv'
    <2>1. Unswept' = lost'
      BY <1>3 DEF Unswept
    <2>2. QED BY <2>1 DEF TellInv, Begin, events, Known
  <1>8. QED BY <1>4, <1>6, <1>7

LEMMA VisitOffPreserves ==
  ASSUME MonitorsInv, VisitOff
  PROVE  MonitorsInv'
  <1> USE DEF MonitorsInv
  <1>1. updates # <<>> /\ Top.at = "visit" /\ Top.todo # <<>> /\ Skip
    BY DEF VisitOff, Going, At
  <1>2. /\ updates' \in Seq(Update) /\ updates' # <<>> /\ Top'.at = "visit"
        /\ Members(Top.todo) = {Head(Top.todo)} \union Members(Top'.todo)
    BY <1>1, Advanced
  <1>3. Types'
    BY <1>2 DEF Types, VisitOff, server, records, events, Known
  <1>4. Before = {Head(Top.todo)} \union Before'
    BY <1>1, <1>2 DEF Before
  <1>5. Head(Top.todo) \notin On
    BY DEF VisitOff, On
  <1>6. ListInv'
    BY <1>4, <1>5 DEF ListInv, VisitOff, server, records, Present, On, Known
  <1>7. TellInv'
    <2>1. Unswept' = lost' /\ Unswept = lost
      BY <1>1, <1>2 DEF Unswept
    <2>2. QED BY <2>1 DEF TellInv, VisitOff, records, events, Known
  <1>8. QED BY <1>3, <1>6, <1>7

\* The output at hand becomes present with its mode, and is shown if that is new.
LEMMA VisitOnPreserves ==
  ASSUME MonitorsInv, VisitOn
  PROVE  MonitorsInv'
  <1> USE DEF MonitorsInv
  <1> DEFINE o == Head(Top.todo)
  <1>1. updates # <<>> /\ Top.at = "visit" /\ Top.todo # <<>> /\ CallBack
    BY DEF VisitOn, Going, At
  <1>2. /\ updates' \in Seq(Update) /\ updates' # <<>> /\ Top'.at = "visit"
        /\ Members(Top.todo) = {o} \union Members(Top'.todo)
        /\ o \in Output
    BY <1>1, Advanced
  <1>3. /\ live[o] # Off
        /\ list' = IF o \in Known THEN list ELSE <<o>> \o list
        /\ lost' = lost \ {o}
        /\ mode' = [mode EXCEPT ![o] = live[o]]
        /\ told' = IF o \in Known THEN told ELSE [told EXCEPT ![o] = "connected"]
        /\ toldMode' = IF o \in Known /\ mode[o] = live[o] THEN toldMode
                       ELSE [toldMode EXCEPT ![o] = live[o]]
        /\ live' = live /\ pending' = pending
    BY DEF VisitOn, HasRecord, Seen, ModeChanged, server
  <1> HIDE DEF o
  <1>4. list' \in Seq(Output) /\ Known' = Known \union {o}
    BY <1>2, <1>3, Prepended DEF Types, Known
  <1>5. Types'
    BY <1>2, <1>3, <1>4 DEF Types
  <1>6. Before = {o} \union Before'
    BY <1>1, <1>2 DEF Before
  <1>7. On' = On /\ o \in On /\ Present' = Present \union {o}
    BY <1>2, <1>3, <1>4 DEF On, Present, Types
  <1>8. \A x \in Output : x # o => mode'[x] = mode[x]
    BY <1>3 DEF Types
  <1>9. mode'[o] = live[o] /\ toldMode'[o] = live[o]
    <2>1. mode'[o] = live[o]
      BY <1>2, <1>3 DEF Types
    <2>2. CASE o \in Known /\ mode[o] = live[o]
      BY <2>2, <1>3 DEF TellInv
    <2>3. CASE ~(o \in Known /\ mode[o] = live[o])
      BY <2>3, <1>2, <1>3 DEF Types
    <2>4. QED BY <2>1, <2>2, <2>3
  <1>10. ListInv'
    <2>1. \A x \in On : x \in Output
      BY DEF On
    <2>2. QED BY <1>3, <1>6, <1>7, <1>8, <1>9, <2>1 DEF ListInv
  <1>11. TellInv'
    <2>1. Unswept' = lost' /\ Unswept = lost
      BY <1>1, <1>2 DEF Unswept
    <2>2. Known \subseteq Output
      BY DEF Known, Members, Types
    <2>3. \A x \in Known : x # o => toldMode'[x] = toldMode[x]
      BY <1>3, <2>2 DEF Types
    <2>4. \A x \in Known' : toldMode'[x] = mode'[x]
      BY <1>4, <1>8, <1>9, <2>2, <2>3 DEF TellInv
    <2>5. \A x \in Known' : told'[x] # "never"
      <3>1. told \in [Output -> {"never", "connected", "gone"}]
        BY DEF Types
      <3>2. CASE o \in Known
        BY <1>3, <1>4, <3>2 DEF TellInv
      <3>3. CASE o \notin Known
        BY <1>2, <1>3, <1>4, <2>2, <3>1, <3>3 DEF TellInv
      <3>4. QED BY <3>2, <3>3
    <2>6. QED BY <2>1, <2>4, <2>5 DEF TellInv
  <1>12. QED BY <1>5, <1>10, <1>11

\* Nothing is left to visit; every record is left to sweep.
LEMMA BeginSweepPreserves ==
  ASSUME MonitorsInv, BeginSweep
  PROVE  MonitorsInv'
  <1> USE DEF MonitorsInv
  <1> DEFINE u == [Top EXCEPT !.at = "sweep", !.todo = list]
  <1>1. updates # <<>> /\ Top.at = "visit" /\ Top.todo = <<>>
    BY DEF BeginSweep, At
  <1>2. Top \in Update
    BY <1>1, TopTyped
  <1>3. u \in Update /\ u.at = "sweep" /\ u.todo = list
    BY <1>2 DEF Update, Types
  <1>4. updates' = SetTop(u)
    BY DEF BeginSweep
  <1> HIDE DEF u
  <1>5. updates' \in Seq(Update) /\ updates' # <<>> /\ Top' = u
    BY <1>1, <1>3, <1>4, TopReplaced
  <1>6. Types'
    BY <1>5 DEF Types, BeginSweep, server, records, events, Known
  <1>7. Before = {}
    BY <1>1 DEF Before, Members
  <1>8. ListInv'
    BY <1>3, <1>5, <1>7 DEF ListInv, Before, BeginSweep, server, records, Present, On, Known
  <1>9. TellInv'
    <2>1. Unswept' = Known
      BY <1>3, <1>5 DEF Unswept, Known, BeginSweep, records
    <2>2. QED BY <2>1 DEF TellInv, BeginSweep, records, events, Known, Types
  <1>10. QED BY <1>6, <1>8, <1>9

\* Both steps of the sweep pass one record, and announce it if it is lost.
LEMMA SweepPreserves ==
  ASSUME MonitorsInv, SweepPresent \/ SweepLost
  PROVE  MonitorsInv'
  <1> USE DEF MonitorsInv
  <1> DEFINE o == Head(Top.todo)
  <1>1. updates # <<>> /\ Top.at = "sweep" /\ Top.todo # <<>> /\ (Skip \/ CallBack)
    BY DEF SweepPresent, SweepLost, Going, At
  <1>2. /\ updates' \in Seq(Update) /\ updates' # <<>> /\ Top'.at = "sweep"
        /\ Members(Top.todo) = {o} \union Members(Top'.todo)
        /\ o \in Output
    BY <1>1, Advanced
  <1>3. UNCHANGED <<server, records, toldMode>>
    BY DEF SweepPresent, SweepLost, events
  <1>4. \/ o \notin lost /\ told' = told
        \/ told' = [told EXCEPT ![o] = "gone"]
    BY DEF SweepPresent, SweepLost, events
  <1> HIDE DEF o
  <1>5. Types'
    BY <1>2, <1>3, <1>4 DEF Types, server, records, Known
  <1>6. ListInv'
    BY <1>1, <1>2, <1>3 DEF ListInv, Before, server, records, Present, On, Known
  <1>7. TellInv'
    <2>1. Unswept = {o} \union Unswept'
      BY <1>1, <1>2 DEF Unswept
    <2>2. lost \subseteq Output
      BY DEF Types, Known, Members
    <2>3. told \in [Output -> {"never", "connected", "gone"}]
      BY DEF Types
    <2>4. \A x \in Output : told[x] # "never" => told'[x] # "never"
      BY <1>4, <2>3
    <2>5. \A x \in Known : told'[x] # "never"
      <3>1. Known \subseteq Output
        BY DEF Types, Known, Members
      <3>2. QED BY <2>4, <3>1 DEF TellInv
    <2>6. \A x \in lost \ Unswept' : told'[x] = "gone"
      BY <1>4, <2>1, <2>2, <2>3 DEF TellInv
    <2>7. QED BY <1>3, <2>5, <2>6 DEF TellInv, records, Known
  <1>8. QED BY <1>5, <1>6, <1>7

LEMMA CallbackReturnsPreserves ==
  ASSUME MonitorsInv, CallbackReturns
  PROVE  MonitorsInv'
  <1> USE DEF MonitorsInv
  <1> DEFINE u == [Top EXCEPT !.calling = FALSE]
  <1>1. updates # <<>>
    BY DEF CallbackReturns
  <1>2. u \in Update /\ u.at = Top.at /\ u.todo = Top.todo
    BY <1>1, TopTyped DEF Update
  <1>3. updates' = SetTop(u)
    BY DEF CallbackReturns
  <1> HIDE DEF u
  <1>4. updates' \in Seq(Update) /\ updates' # <<>> /\ Top' = u
    BY <1>1, <1>2, <1>3, TopReplaced
  <1>5. Types'
    BY <1>4 DEF Types, CallbackReturns, server, records, events, Known
  <1>6. Before' = Before /\ Unswept' = Unswept
    BY <1>1, <1>2, <1>4 DEF Before, Unswept, CallbackReturns, records
  <1>7. ListInv'
    BY <1>6 DEF ListInv, CallbackReturns, server, records, Present, On, Known
  <1>8. TellInv'
    BY <1>6 DEF TellInv, CallbackReturns, records, events, Known
  <1>9. QED BY <1>5, <1>7, <1>8

\* An update that ends has nothing left to visit or to sweep.
LEMMA EndPreserves ==
  ASSUME MonitorsInv, End
  PROVE  MonitorsInv'
  <1> USE DEF MonitorsInv
  <1>1. updates # <<>> /\ Top.at = "sweep" /\ Top.todo = <<>>
    BY DEF End, At
  <1>2. Types'
    <2>1. updates' \in Seq(Update)
      BY <1>1, LastRemoved DEF Types, End
    <2>2. QED BY <2>1 DEF Types, End, server, records, events, Known
  <1>3. Before = {} /\ Unswept = {}
    BY <1>1 DEF Before, Unswept, Members
  <1>4. ListInv'
    BY <1>3 DEF ListInv, End, server, records, Present, On, Known
  <1>5. TellInv'
    BY <1>3 DEF TellInv, End, records, events, Known
  <1>6. QED BY <1>2, <1>4, <1>5

-----------------------------------------------------------------------------
(* TypeOK: beyond the types, no more is pending than has changed, no more   *)
(* updates are open than MaxDepth, and no output has two records.           *)

NoDouble(s) == \A j, k \in DOMAIN s : s[j] = s[k] => j = k

Bounds ==
  /\ changes \in 0 .. MaxChanges /\ pending \in 0 .. changes
  /\ Len(updates) <= MaxDepth
  /\ NoDouble(list)

\* A record put before others keeps them single if it is not one of them.
LEMMA PrependedSingle ==
  ASSUME NEW S, NEW s \in Seq(S), NEW x \in S, x \notin Members(s), NoDouble(s)
  PROVE  NoDouble(<<x>> \o s)
  <1> DEFINE t == <<x>> \o s
  <1>1. t \in Seq(S) /\ Len(t) = Len(s) + 1 /\ t[1] = x
    OBVIOUS
  <1>2. \A k \in DOMAIN t :
          k = 1 \/ (k - 1 \in DOMAIN s /\ t[k] = s[k - 1])
    OBVIOUS
  <1>3. \A k \in DOMAIN s : s[k] # x
    BY DEF Members
  <1> SUFFICES ASSUME NEW j \in DOMAIN t, NEW k \in DOMAIN t, t[j] = t[k]
               PROVE  j = k
    BY DEF NoDouble
  <1>4. j \in Nat /\ k \in Nat
    BY <1>1
  <1>5. CASE j = 1 \/ k = 1
    BY <1>1, <1>2, <1>3, <1>5, Zenon
  <1>6. CASE j # 1 /\ k # 1
    <2>1. j - 1 = k - 1
      BY <1>2, <1>6, Zenon DEF NoDouble
    <2>2. QED BY <1>4, <2>1, SMT
  <1>7. QED BY <1>5, <1>6

\* Replacing the innermost update opens none.
LEMMA SameDepth ==
  ASSUME Types, updates # <<>>, NEW u, updates' = SetTop(u)
  PROVE  Len(updates') = Len(updates)
  BY DEF Types, SetTop

LEMMA BoundsPreserved ==
  ASSUME MonitorsInv, Bounds, [Next]_vars
  PROVE  Bounds'
  <1> USE DEF MonitorsInv, Bounds, server, records, events
  <1>1. ASSUME NEW o \in Output, NEW m \in Mode \union {Off}, Change(o, m)
        PROVE  Bounds'
    BY <1>1, Assumptions DEF Change
  <1>2. CASE Begin
    <2> DEFINE u == [at |-> "visit", todo |-> Outputs, calling |-> FALSE]
    <2>1. /\ updates' = Append(updates, u)
          /\ Len(updates) < MaxDepth /\ pending > 0 /\ pending' = pending - 1
          /\ UNCHANGED <<changes, list>>
      BY <1>2 DEF Begin
    <2> HIDE DEF u
    <2>2. updates \in Seq(Update) /\ Len(updates') = Len(updates) + 1
      BY <2>1 DEF Types
    <2>3. Len(updates') <= MaxDepth
      BY <2>1, <2>2, Assumptions
    <2>4. QED BY <2>1, <2>3
  <1>3. CASE VisitOn
    <2> DEFINE o == Head(Top.todo)
    <2>1. /\ updates # <<>> /\ CallBack
          /\ list' = IF o \in Known THEN list ELSE <<o>> \o list
          /\ UNCHANGED <<changes, pending>>
      BY <1>3 DEF VisitOn, Going, At, HasRecord
    <2>2. Len(updates') = Len(updates)
      BY <2>1, SameDepth DEF CallBack
    <2>3. o \in Output
      BY <1>3, Advanced DEF VisitOn, Going, At
    <2> HIDE DEF o
    <2>4. NoDouble(list')
      <3>1. CASE o \in Known
        BY <2>1, <3>1
      <3>2. CASE o \notin Known
        BY <2>1, <2>3, <3>2, PrependedSingle DEF Types, Known
      <3>3. QED BY <3>1, <3>2
    <2>5. QED BY <2>1, <2>2, <2>4
  <1>4. CASE VisitOff \/ SweepPresent \/ SweepLost
    <2>1. updates # <<>> /\ (Skip \/ CallBack) /\ UNCHANGED <<changes, pending, list>>
      BY <1>4 DEF VisitOff, SweepPresent, SweepLost, Going, At
    <2>2. Len(updates') = Len(updates)
      BY <2>1, SameDepth DEF Skip, CallBack
    <2>3. QED BY <2>1, <2>2
  <1>5. CASE BeginSweep \/ CallbackReturns
    <2>1. updates # <<>> /\ UNCHANGED <<changes, pending, list>>
      BY <1>5 DEF BeginSweep, CallbackReturns, At
    <2>2. Len(updates') = Len(updates)
      BY <1>5, <2>1, SameDepth DEF BeginSweep, CallbackReturns
    <2>3. QED BY <2>1, <2>2
  <1>6. CASE End
    <2>1. /\ updates # <<>> /\ UNCHANGED <<changes, pending, list>>
          /\ updates' = SubSeq(updates, 1, Len(updates) - 1)
      BY <1>6 DEF End, At
    <2>2. Len(updates') <= Len(updates)
      BY <2>1 DEF Types
    <2>3. Len(updates) \in Nat /\ Len(updates') \in Nat
      BY <2>1, LastRemoved DEF Types
    <2>4. QED BY <2>1, <2>2, <2>3, Assumptions
  <1>7. CASE UNCHANGED vars
    BY <1>7 DEF vars
  <1>8. QED
    BY <1>1, <1>2, <1>3, <1>4, <1>5, <1>6, <1>7 DEF Next

-----------------------------------------------------------------------------
(* The theorems.                                                            *)

\* MonitorsInv holds in every reachable state.
THEOREM MonitorsInvariant == Spec => []MonitorsInv
  <1>1. Init => MonitorsInv
    BY InitEstablishes
  <1>2. MonitorsInv /\ [Next]_vars => MonitorsInv'
    <2> SUFFICES ASSUME MonitorsInv, [Next]_vars PROVE MonitorsInv'
      OBVIOUS
    <2>1. CASE \E o \in Output, m \in Mode \union {Off} : Change(o, m)
      BY <2>1, ChangePreserves
    <2>2. CASE Begin
      BY <2>2, BeginPreserves
    <2>3. CASE VisitOff
      BY <2>3, VisitOffPreserves
    <2>4. CASE VisitOn
      BY <2>4, VisitOnPreserves
    <2>5. CASE BeginSweep
      BY <2>5, BeginSweepPreserves
    <2>6. CASE SweepPresent \/ SweepLost
      BY <2>6, SweepPreserves
    <2>7. CASE CallbackReturns
      BY <2>7, CallbackReturnsPreserves
    <2>8. CASE End
      BY <2>8, EndPreserves
    <2>9. CASE UNCHANGED vars
      BY <2>9 DEF vars, server, records, events, MonitorsInv, Types, ListInv,
              TellInv, Known, Present, On, Before, Unswept, Top
    <2>10. QED
      BY <2>1, <2>2, <2>3, <2>4, <2>5, <2>6, <2>7, <2>8, <2>9 DEF Next
  <1>3. QED BY <1>1, <1>2, PTL DEF Spec

\* When all notifications are handled, the monitors that can be enumerated are
\* the outputs that are on, with their modes (update_monitors, any nesting).
THEOREM ListAlwaysFollows == Spec => []ListFollows
  <1>1. MonitorsInv => ListFollows
    <2> SUFFICES ASSUME MonitorsInv, Rest PROVE Present = On /\ \A o \in On : mode[o] = live[o]
      BY DEF ListFollows
    <2>1. pending = 0 /\ Before = {}
      BY DEF Rest, Before
    <2>2. QED BY <2>1 DEF MonitorsInv, ListInv
  <1>2. QED BY <1>1, MonitorsInvariant, PTL

\* When no update runs, every record has been announced and last shown with its
\* mode, and every lost one has been announced as gone (update_monitors, for any
\* outputs and any nesting).  A monitor that comes back is not announced again.
THEOREM LossesAndModesAlwaysTold == Spec => []LossesAndModesAreTold
  <1>1. MonitorsInv => LossesAndModesAreTold
    BY DEF MonitorsInv, TellInv, Unswept, LossesAndModesAreTold
  <1>2. QED BY <1>1, MonitorsInvariant, PTL

\* The list and the open updates keep their types and their bounds, and no
\* output has two records (update_monitors looks a record up before it makes
\* one), for any outputs, any changes and any nesting.
THEOREM MonitorsAreTyped == Spec => []TypeOK
  <1>1. Init => Bounds
    BY Assumptions DEF Init, Bounds, NoDouble
  <1>2. MonitorsInv /\ Bounds /\ [Next]_vars => Bounds'
    BY BoundsPreserved
  <1>3. MonitorsInv /\ Bounds => TypeOK
    BY Assumptions DEF MonitorsInv, Types, Bounds, NoDouble, TypeOK
  <1>4. QED BY <1>1, <1>2, <1>3, MonitorsInvariant, PTL DEF Spec

----------------------------------------------------------------------------
(* The clipboard: the inductive invariant.                                  *)

\* The first id behind those of a call.
After(r) == r.first + Len(Plan(r.call, r.mime))

\* What is left to ask belongs to the call.
Asks(r) ==
  /\ r \in Read
  /\ r.call # "data" => r.mime = "text"
  /\ Len(r.todo) <= Len(Plan(r.call, r.mime))
  /\ \A n \in 1 .. Len(r.todo) : Format(r.todo[n]) = Expected(r)

\* What the call may do with the conversion c, should it find its answer.
Finds(r, c) ==
  /\ c.id \in Ids(r) => Format(c.target) = Expected(r)
  /\ \/ c.id \in Ids(r) \union r.before
     \/ ~r.alone /\ c.id > r.first

\* The conversions under way, ans, and the property, prop, as the call r finds
\* them: none is one it has not asked yet, and an answer nobody could have
\* deleted is there and will be found.
Waits(r, ans, prop) ==
  /\ \A c \in ans : /\ c.id \in Ids(r) => c.win = r.win /\ c.id < NextId(r)
                    /\ c.win = r.win => Finds(r, c)
  /\ prop # Nobody => Finds(r, prop)
  /\ r.alone /\ r.before = {} /\ r.answered => ~r.over /\ prop # Nobody

Stays(r, ans, props, wins, n) ==
  /\ Asks(r)
  /\ r.win \in wins
  /\ After(r) <= n + 1
  /\ Waits(r, ans, props[r.win])

\* The call s runs in a callback of the call r.
Under(r, s) == After(r) <= s.first /\ (r.win = s.win => ~r.alone)

ClipboardTypes ==
  /\ windows \subseteq Window
  /\ owner \in windows \union {Other, Nobody}
  /\ ownerWindow \in Window \union {Nobody}
  /\ owned \subseteq Mime
  /\ property \in [Window -> Conversion \union {Nobody}]
  /\ answering \subseteq Conversion
  /\ asked \in 0 .. MaxAsked
  /\ reads \in Seq(Read)
  /\ Len(reads) <= MaxReads
  /\ last.got \in Conversion \union {Other, Nobody}
  /\ last.ok => last.got # Nobody

Answers ==
  /\ \A c \in answering : c.id <= asked
  /\ \A a, b \in answering : a.id = b.id => a = b

WaitingReads ==
  /\ \A k \in 1 .. Len(reads) :
       Stays(reads[k], answering, property, windows, asked)
  /\ \A j, k \in 1 .. Len(reads) : j < k => Under(reads[j], reads[k])

ClipboardInv ==
  /\ ClipboardTypes
  /\ Answers
  /\ WaitingReads
  /\ OwnerIsKnown
  /\ ReadIsExplained

----------------------------------------------------------------------------
(* What a call asks for.                                                    *)

LEMMA TargetsAre ==
  ASSUME NEW mime \in Mime
  PROVE  /\ TargetsOf(mime) \in Seq(Target)
         /\ Len(TargetsOf(mime)) \in {1, 2}
         /\ Len(TargetsOf("text")) = 2
         /\ \A n \in 1 .. Len(TargetsOf(mime)) : Format(TargetsOf(mime)[n]) = 8
<1>1. CASE mime = "text"
  BY <1>1 DEF TargetsOf, Target, Format
<1>2. CASE mime = "image"
  BY <1>2 DEF TargetsOf, Target, Format
<1> QED
  BY <1>1, <1>2 DEF Mime

LEMMA TwiceIs ==
  ASSUME NEW S, NEW s \in Seq(S), Len(s) = 2
  PROVE  /\ s \o s \in Seq(S)
         /\ Len(s \o s) = 4
         /\ \A n \in 1 .. 4 : \E k \in 1 .. 2 : (s \o s)[n] = s[k]
<1> PICK t : t = s \o s
  OBVIOUS
<1>1. /\ t \in Seq(S) /\ Len(t) = 2 + 2
      /\ \A n \in 1 .. 2 + 2 : t[n] = IF n <= 2 THEN s[n] ELSE s[n - 2]
  <2>1. /\ t \in Seq(S) /\ Len(t) = Len(s) + Len(s)
        /\ \A n \in 1 .. Len(s) + Len(s) :
             t[n] = IF n <= Len(s) THEN s[n] ELSE s[n - Len(s)]
    BY ConcatProperties, Zenon
  <2> QED
    BY <2>1, Zenon
<1>2. ASSUME NEW n \in 1 .. 4 PROVE \E k \in 1 .. 2 : t[n] = s[k]
  <2>1. CASE n <= 2
    BY <1>1, <2>1
  <2>2. CASE n > 2
    <3>1. t[n] = s[n - 2] /\ n - 2 \in 1 .. 2
      BY <1>1, <2>2
    <3> QED
      BY <3>1, Zenon
  <2>3. n <= 2 \/ n > 2
    OBVIOUS
  <2> QED
    BY <2>1, <2>2, <2>3, Zenon
<1> QED
  BY <1>1, <1>2

\* The ids a + 0 .. a + n - 1 of a call, when t of them are still to ask.
LEMMA Ranges ==
  ASSUME NEW a \in Nat, NEW n \in 1 .. 4, NEW t \in 0 .. n
  PROVE  /\ a + n \in Nat /\ a + n - t \in Nat /\ a < a + n
         /\ a <= a + n - t
         /\ a + n - t = (a + n) - t
         /\ \A k \in Nat : k \in a .. a + n - 1 <=> a <= k /\ k < a + n
         /\ t # 0 => a + n - (t - 1) = (a + n - t) + 1 /\ a + n - t < a + n
OBVIOUS

LEMMA PlanIs ==
  ASSUME NEW call \in Call, NEW mime \in Mime
  PROVE  /\ Plan(call, mime) \in Seq(Target)
         /\ Len(Plan(call, mime)) \in 1 .. 4
         /\ call = "text" => Len(Plan(call, mime)) = 4
         /\ \A n \in 1 .. Len(Plan(call, mime)) :
              Format(Plan(call, mime)[n]) = IF call = "types" THEN 32 ELSE 8
<1>1. CASE call = "data"
  BY <1>1, TargetsAre DEF Plan
<1>2. CASE call = "text"
  <2> PICK t : t = TargetsOf("text")
    OBVIOUS
  <2>1. /\ t \in Seq(Target) /\ Len(t) = 2
        /\ \A k \in 1 .. 2 : Format(t[k]) = 8
    BY TargetsAre DEF Mime
  <2>2. /\ t \o t \in Seq(Target) /\ Len(t \o t) = 4
        /\ \A n \in 1 .. 4 : \E k \in 1 .. 2 : (t \o t)[n] = t[k]
    BY <2>1, TwiceIs, Zenon
  <2>3. Plan(call, mime) = t \o t
    BY <1>2 DEF Plan
  <2>4. \A n \in 1 .. 4 : Format((t \o t)[n]) = 8
    BY <2>1, <2>2, Zenon
  <2>5. call # "types" /\ 4 \in 1 .. 4
    BY <1>2
  <2> QED
    BY <2>2, <2>3, <2>4, <2>5, Zenon
<1>3. CASE call = "types"
  BY <1>3 DEF Plan, Target, Format
<1> QED
  BY <1>1, <1>2, <1>3 DEF Call

\* The ids of a call: asked before NextId, from NextId on still to ask.
LEMMA IdsAre ==
  ASSUME NEW r, Asks(r)
  PROVE  /\ r.first \in Nat \ {0} /\ After(r) \in Nat /\ NextId(r) \in Nat
         /\ Len(r.todo) \in Nat
         /\ r.first < After(r)
         /\ r.first <= NextId(r)
         /\ NextId(r) = After(r) - Len(r.todo)
         /\ \A n \in Nat : n \in Ids(r) <=> r.first <= n /\ n < After(r)
         /\ r.call = "text" => After(r) = r.first + 4
         /\ r.todo \in Seq(Target)
         /\ r.call \in Call /\ r.mime \in Mime /\ r.win \in Window
<1>1. /\ r.call \in Call /\ r.mime \in Mime /\ r.win \in Window
      /\ r.first \in Nat \ {0} /\ r.todo \in Seq(Target)
  BY DEF Asks, Read, Id
<1> PICK n : n = Len(Plan(r.call, r.mime))
  OBVIOUS
<1> PICK t : t = Len(r.todo)
  OBVIOUS
<1>2. n \in 1 .. 4 /\ (r.call = "text" => n = 4)
  BY <1>1, PlanIs
<1>3. t \in Nat /\ t <= n
  BY <1>1 DEF Asks
<1>4. /\ After(r) = r.first + n /\ NextId(r) = r.first + n - t
      /\ Ids(r) = r.first .. r.first + n - 1
  BY Zenon DEF After, NextId, Ids
<1>5. r.first \in Nat /\ t \in 0 .. n
  BY <1>1, <1>2, <1>3
<1>6. /\ r.first + n \in Nat /\ r.first + n - t \in Nat /\ r.first < r.first + n
      /\ r.first <= r.first + n - t
      /\ \A k \in Nat : k \in r.first .. r.first + n - 1 <=>
                          r.first <= k /\ k < r.first + n
  BY <1>2, <1>5, Ranges, Zenon
<1>7. /\ After(r) \in Nat /\ NextId(r) \in Nat /\ r.first < After(r)
      /\ r.first <= NextId(r) /\ NextId(r) = After(r) - Len(r.todo)
  <2>1. /\ After(r) \in Nat /\ NextId(r) \in Nat /\ r.first < After(r)
        /\ r.first <= NextId(r)
    BY <1>4, <1>6, Zenon
  <2>2. r.first + n - t = (r.first + n) - t
    BY <1>2, <1>5, Ranges, Zenon
  <2>3. NextId(r) = After(r) - t
    BY <1>4, <2>2, Zenon
  <2> QED
    BY <2>1, <2>3, Zenon
<1>8. \A k \in Nat : k \in Ids(r) <=> r.first <= k /\ k < After(r)
  BY <1>4, <1>6, Zenon
<1>9. r.call = "text" => After(r) = r.first + 4
  BY <1>2, <1>4, Zenon
<1> QED
  BY <1>1, <1>3, <1>7, <1>8, <1>9, Zenon

LEMMA AfterRequest ==
  ASSUME NEW r, Asks(r), r.todo # <<>>, NEW q,
         q = [r EXCEPT !.todo = Tail(@), !.over = FALSE]
  PROVE  /\ Asks(q)
         /\ q.first = r.first /\ q.win = r.win /\ q.alone = r.alone
         /\ q.before = r.before /\ q.answered = r.answered
         /\ q.call = r.call /\ q.mime = r.mime
         /\ After(q) = After(r) /\ NextId(q) = NextId(r) + 1 /\ Ids(q) = Ids(r)
         /\ NextId(r) < After(r)
         /\ Head(r.todo) \in Target
         /\ Format(Head(r.todo)) = Expected(r)
<1> PICK t : t = r.todo
  OBVIOUS
<1> PICK s : s = Tail(t)
  OBVIOUS
<1>1. /\ t \in Seq(Target) /\ t # <<>> /\ r \in Read
      /\ Len(t) <= Len(Plan(r.call, r.mime))
      /\ \A n \in 1 .. Len(t) : Format(t[n]) = Expected(r)
  BY DEF Asks, Read
<1>2. /\ s \in Seq(Target) /\ Len(t) \in Nat \ {0} /\ Len(s) = Len(t) - 1
      /\ \A n \in 1 .. Len(s) : s[n] = t[n + 1]
      /\ Head(t) = t[1] /\ t[1] \in Target
  BY <1>1
<1>3. q = [r EXCEPT !.todo = s, !.over = FALSE]
  BY Zenon
<1>4. /\ q \in Read /\ q.todo = s
      /\ q.first = r.first /\ q.win = r.win /\ q.alone = r.alone
      /\ q.before = r.before /\ q.answered = r.answered
      /\ q.call = r.call /\ q.mime = r.mime
  BY <1>1, <1>2, <1>3 DEF Read
<1> PICK n : n = Len(Plan(r.call, r.mime))
  OBVIOUS
<1>5. n \in Nat /\ Len(t) <= n /\ Len(Plan(q.call, q.mime)) = n
  BY <1>1, <1>4, PlanIs DEF Read
<1>6. /\ After(q) = After(r) /\ Ids(q) = Ids(r) /\ Expected(q) = Expected(r)
  BY <1>4, Zenon DEF After, Ids, Expected
<1>7. NextId(q) = NextId(r) + 1 /\ NextId(r) < After(r)
  <2>1. r.first \in Nat
    BY <1>1 DEF Read, Id
  <2>2. /\ NextId(q) = r.first + n - Len(s) /\ NextId(r) = r.first + n - Len(t)
        /\ After(r) = r.first + n
    BY <1>4, <1>5, Zenon DEF NextId, After
  <2>3. n \in 1 .. 4 /\ Len(t) \in 0 .. n /\ Len(t) # 0
    BY <1>1, <1>2, <1>5, PlanIs DEF Read
  <2> QED
    <3> PICK a : a = r.first
      OBVIOUS
    <3>1. /\ a + n - (Len(t) - 1) = (a + n - Len(t)) + 1
          /\ a + n - Len(t) < a + n
      BY <2>1, <2>3, Ranges, Zenon
    <3> QED
      BY <1>2, <2>2, <3>1, Zenon
<1>8. \A m \in 1 .. Len(s) : Format(s[m]) = Expected(q)
  <2> TAKE m \in 1 .. Len(s)
  <2>1. m + 1 \in 1 .. Len(t)
    BY <1>2
  <2> QED
    BY <1>1, <1>2, <1>6, <2>1, Zenon
<1>9. Asks(q)
  <2>1. Len(s) <= n
    BY <1>2, <1>5
  <2>2. q.call # "data" => q.mime = "text"
    BY <1>4, Zenon DEF Asks
  <2> QED
    BY <1>4, <1>5, <1>8, <2>1, <2>2, Zenon DEF Asks
<1>10. Format(Head(t)) = Expected(r)
  <2>1. 1 \in 1 .. Len(t)
    BY <1>2
  <2> QED
    BY <1>1, <1>2, <2>1, Zenon
<1> QED
  BY <1>2, <1>4, <1>6, <1>7, <1>9, <1>10, Zenon

----------------------------------------------------------------------------
(* What the calls below the innermost one go on to wait for.                *)

\* The call r after another has asked something for the window w.
Overtaken(r, w) == [r EXCEPT !.alone = @ /\ r.win # w]

LEMMA OvertakenIs ==
  ASSUME NEW r, Asks(r), NEW w, NEW t, t = Overtaken(r, w)
  PROVE  /\ Asks(t)
         /\ t.first = r.first /\ t.win = r.win
         /\ t.before = r.before /\ t.answered = r.answered
         /\ t.over = r.over
         /\ t.alone <=> r.alone /\ r.win # w
         /\ After(t) = After(r) /\ NextId(t) = NextId(r) /\ Ids(t) = Ids(r)
         /\ Expected(t) = Expected(r)
<1> PICK b \in BOOLEAN : b <=> r.alone /\ r.win # w
  OBVIOUS
<1>1. t = [r EXCEPT !.alone = b]
  <2>1. r.alone \in BOOLEAN
    BY DEF Asks, Read
  <2>2. (r.alone /\ r.win # w) = b
    BY <2>1
  <2> QED
    BY <2>2, Zenon DEF Overtaken
<1>2. /\ t \in Read /\ t.first = r.first /\ t.win = r.win
      /\ t.before = r.before /\ t.answered = r.answered /\ t.alone = b
      /\ t.over = r.over
      /\ t.call = r.call /\ t.mime = r.mime /\ t.todo = r.todo
  BY <1>1 DEF Asks, Read
<1>3. /\ After(t) = After(r) /\ NextId(t) = NextId(r) /\ Ids(t) = Ids(r)
      /\ Expected(t) = Expected(r)
  BY <1>2, Zenon DEF After, NextId, Ids, Expected
<1>4. Asks(t)
  BY <1>2, <1>3, Zenon DEF Asks
<1> QED
  BY <1>2, <1>3, <1>4, Zenon

\* What a later call leaves of what r finds: perhaps one conversion more, its
\* own, and no property if it asks for the same window.
Shares(r, ans, prop, w, c, more, new) ==
  /\ Asks(r)
  /\ Waits(r, ans, prop)
  /\ c \in Conversion
  /\ c.win = w
  /\ After(r) <= c.id
  /\ \A x \in more : x \in ans \/ x = c
  /\ new = prop \/ (r.win = w /\ new = Nobody)

LEMMA OvertakenWaits ==
  ASSUME NEW r, NEW ans, NEW prop, NEW w, NEW c, NEW more, NEW new,
         Shares(r, ans, prop, w, c, more, new)
  PROVE  Waits(Overtaken(r, w), more, new)
<1>0. /\ Asks(r) /\ Waits(r, ans, prop) /\ c \in Conversion /\ c.win = w
      /\ After(r) <= c.id /\ \A x \in more : x \in ans \/ x = c
      /\ new = prop \/ (r.win = w /\ new = Nobody)
  BY Zenon DEF Shares
<1> PICK t : t = Overtaken(r, w)
  OBVIOUS
<1>1. /\ t.first = r.first /\ t.win = r.win
      /\ t.before = r.before /\ t.answered = r.answered /\ t.over = r.over
      /\ t.alone <=> r.alone /\ r.win # w
      /\ NextId(t) = NextId(r) /\ Ids(t) = Ids(r) /\ Expected(t) = Expected(r)
  BY <1>0, OvertakenIs
<1>2. ASSUME NEW x, Finds(r, x) PROVE Finds(t, x)
  BY <1>1, <1>2, Zenon DEF Finds
<1>3. c.id \notin Ids(r) /\ c.id > r.first
  <2>1. c.id \in Nat
    BY <1>0 DEF Conversion, Id
  <2>2. /\ r.first \in Nat /\ After(r) \in Nat /\ r.first < After(r)
        /\ c.id \in Ids(r) => c.id < After(r)
    BY <1>0, <2>1, IdsAre, Zenon
  <2> QED
    BY <1>0, <2>1, <2>2
<1>4. ASSUME NEW x \in more
      PROVE  /\ x.id \in Ids(t) => x.win = t.win /\ x.id < NextId(t)
             /\ x.win = t.win => Finds(t, x)
  <2>1. CASE x \in ans
    BY <1>0, <1>1, <1>2, <2>1, Zenon DEF Waits
  <2>2. CASE x = c
    <3>1. x.win = t.win => ~t.alone
      BY <1>0, <1>1, <2>2, Zenon
    <3> QED
      BY <1>1, <1>3, <2>2, <3>1, Zenon DEF Finds
  <2> QED
    BY <1>0, <2>1, <2>2, Zenon
<1>5. new # Nobody => Finds(t, new)
  BY <1>0, <1>2, Zenon DEF Waits
<1>6. t.alone /\ t.before = {} /\ t.answered => ~t.over /\ new # Nobody
  BY <1>0, <1>1, Zenon DEF Waits
<1> QED
  BY <1>4, <1>5, <1>6, Zenon DEF Waits

LEMMA StaysIs ==
  ASSUME ClipboardInv, NEW k \in 1 .. Len(reads)
  PROVE  /\ Asks(reads[k])
         /\ reads[k].win \in windows
         /\ reads[k].win \in Window
         /\ After(reads[k]) <= asked + 1
         /\ Waits(reads[k], answering, property[reads[k].win])
BY Zenon DEF ClipboardInv, WaitingReads, Stays, ClipboardTypes

----------------------------------------------------------------------------
(* A call asks.                                                             *)

\* The first m calls, as they were.
Prefix(rest, m) ==
  /\ m \in 0 .. Len(reads)
  /\ rest \in Seq(Read)
  /\ Len(rest) = m
  /\ \A k \in 1 .. m : rest[k] = reads[k]

\* The call r may ask for its next target above the calls rest.
MayAsk(r, rest, m) ==
  /\ Prefix(rest, m)
  /\ m < MaxReads
  /\ Asks(r)
  /\ r.todo # <<>>
  /\ r.win \in windows
  /\ \A k \in 1 .. m : After(rest[k]) <= r.first
  /\ \A c \in answering : /\ c.id < NextId(r) \/ c.id >= After(r)
                          /\ c.id \in Ids(r) => c.win = r.win
                          /\ c.win = r.win => Finds(r, c)
  /\ r.alone /\ r.before = {} => ~r.answered

LEMMA PrefixIs ==
  ASSUME ClipboardInv, NEW rest, NEW m, Prefix(rest, m), NEW k \in 1 .. m
  PROVE  /\ Asks(rest[k])
         /\ rest[k].win \in windows
         /\ rest[k].win \in Window
         /\ After(rest[k]) <= asked + 1
         /\ Waits(rest[k], answering, property[rest[k].win])
         /\ \A j \in 1 .. m : k < j => Under(rest[k], rest[j])
<1>1. /\ m \in Nat /\ k \in 1 .. Len(reads) /\ rest[k] = reads[k]
      /\ \A j \in 1 .. m : j \in 1 .. Len(reads) /\ rest[j] = reads[j]
  <2>1. m \in 0 .. Len(reads) /\ Len(reads) \in Nat
    BY DEF Prefix, ClipboardInv, ClipboardTypes
  <2>2. \A j \in 1 .. m : j \in 1 .. Len(reads)
    BY <2>1
  <2> QED
    BY <2>1, <2>2 DEF Prefix
<1>2. \A j \in 1 .. m : k < j => Under(rest[k], rest[j])
  BY <1>1, Zenon DEF ClipboardInv, WaitingReads
<1> QED
  BY <1>1, <1>2, StaysIs, Zenon

LEMMA RequestStays ==
  ASSUME ClipboardInv, NEW r, NEW rest, NEW m, MayAsk(r, rest, m), Request(r, rest),
         asked' \in 0 .. MaxAsked, asked <= asked', After(r) <= asked' + 1
  PROVE  /\ property' \in [Window -> Conversion \union {Nobody}]
         /\ answering' \subseteq Conversion
         /\ reads' \in Seq(Read)
         /\ Len(reads') <= MaxReads
         /\ Answers'
         /\ \A k \in 1 .. Len(reads') :
              Stays(reads'[k], answering', property', windows, asked')
         /\ \A j, k \in 1 .. Len(reads') : j < k => Under(reads'[j], reads'[k])
<1> PICK w : w = r.win
  OBVIOUS
<1> PICK c : c = [id |-> NextId(r), win |-> w, target |-> Head(r.todo)]
  OBVIOUS
<1> PICK q : q = [r EXCEPT !.todo = Tail(@), !.over = FALSE]
  OBVIOUS
<1> PICK below : below = [k \in DOMAIN rest |-> Overtaken(rest[k], w)]
  OBVIOUS
<1>1. /\ property' = Deleted(w)
      /\ answering' = answering \union (IF owner = Other THEN {c} ELSE {})
      /\ reads' = Append(below, q)
  BY Zenon DEF Request, Overtaken
<1>2. /\ Prefix(rest, m) /\ m < MaxReads /\ Asks(r) /\ r.todo # <<>>
      /\ w \in windows /\ w \in Window
      /\ \A k \in 1 .. m : After(rest[k]) <= r.first
      /\ \A x \in answering : /\ x.id < NextId(r) \/ x.id >= After(r)
                              /\ x.id \in Ids(r) => x.win = r.win
                              /\ x.win = r.win => Finds(r, x)
      /\ r.alone /\ r.before = {} => ~r.answered
  BY Zenon DEF MayAsk, ClipboardInv, ClipboardTypes
<1>3. /\ rest \in Seq(Read) /\ Len(rest) = m /\ m \in Nat
  BY <1>2 DEF Prefix
<1>4. /\ r.first \in Nat \ {0} /\ After(r) \in Nat /\ NextId(r) \in Nat
      /\ r.first <= NextId(r)
      /\ \A n \in Nat : n \in Ids(r) <=> r.first <= n /\ n < After(r)
  BY <1>2, IdsAre, Zenon
<1>5. /\ Asks(q)
      /\ q.first = r.first /\ q.win = r.win /\ q.alone = r.alone
      /\ q.before = r.before /\ q.answered = r.answered
      /\ q.call = r.call /\ q.mime = r.mime
      /\ After(q) = After(r) /\ NextId(q) = NextId(r) + 1 /\ Ids(q) = Ids(r)
      /\ NextId(r) < After(r)
      /\ Head(r.todo) \in Target
      /\ Format(Head(r.todo)) = Expected(r)
  BY <1>2, AfterRequest, Zenon
<1>6. /\ c \in Conversion /\ c.id = NextId(r) /\ c.win = w
      /\ c.target = Head(r.todo) /\ c.id <= asked'
  <2>1. NextId(r) \in 1 .. MaxAsked /\ NextId(r) <= asked'
    BY <1>4, <1>5, ClipboardAssumption
  <2> QED
    BY <1>2, <1>5, <2>1 DEF Conversion, Id
<1>7. /\ property \in [Window -> Conversion \union {Nobody}]
      /\ answering \subseteq Conversion /\ asked \in Nat
      /\ \A x \in answering : x.id <= asked /\ x.id \in Nat
      /\ \A a, b \in answering : a.id = b.id => a = b
  BY DEF ClipboardInv, ClipboardTypes, Answers, Conversion, Id
<1>8. /\ property' \in [Window -> Conversion \union {Nobody}]
      /\ property'[w] = Nobody
      /\ \A v \in Window : v # w => property'[v] = property[v]
  BY <1>1, <1>2, <1>7 DEF Deleted
<1>9. answering' \subseteq answering \union {c} /\ answering' \subseteq Conversion
  BY <1>1, <1>6, <1>7, Zenon
<1>10. Answers'
  <2>1. \A x \in answering' : x.id <= asked'
    BY <1>6, <1>7, <1>9
  <2>2. \A x \in answering : x.id # c.id
    BY <1>2, <1>4, <1>5, <1>6, <1>7
  <2>3. \A a, b \in answering' : a.id = b.id => a = b
    BY <1>7, <1>9, <2>2, Zenon
  <2> QED
    BY <2>1, <2>3, Zenon DEF Answers
<1>11. /\ below \in Seq(Read) /\ Len(below) = m
       /\ \A k \in 1 .. m : below[k] = Overtaken(rest[k], w)
  <2>1. \A k \in 1 .. m : Overtaken(rest[k], w) \in Read
    <3> TAKE k \in 1 .. m
    <3>1. Asks(rest[k])
      BY <1>2, PrefixIs, Zenon
    <3>2. Asks(Overtaken(rest[k], w))
      BY <3>1, OvertakenIs, Zenon
    <3> QED
      BY <3>2, Zenon DEF Asks
  <2>2. DOMAIN rest = 1 .. m
    BY <1>3
  <2>3. /\ below \in [1 .. m -> Read]
        /\ \A k \in 1 .. m : below[k] = Overtaken(rest[k], w)
    BY <2>1, <2>2, Zenon
  <2> QED
    BY <1>3, <2>3
<1>12. /\ reads' \in Seq(Read) /\ Len(reads') = m + 1 /\ reads'[m + 1] = q
       /\ \A k \in 1 .. m : reads'[k] = Overtaken(rest[k], w)
  <2>1. q \in Read
    BY <1>5, Zenon DEF Asks
  <2> QED
    BY <1>1, <1>3, <1>11, <2>1
<1>13. Len(reads') <= MaxReads
  BY <1>2, <1>3, <1>12, ClipboardAssumption
<1>14. Stays(q, answering', property', windows, asked')
  <2>1. ASSUME NEW x \in answering'
        PROVE  /\ x.id \in Ids(q) => x.win = q.win /\ x.id < NextId(q)
               /\ x.win = q.win => Finds(q, x)
    <3>1. CASE x \in answering
      <4>1. x.id \in Ids(r) => x.id < NextId(q)
        BY <1>2, <1>4, <1>5, <1>7, <3>1
      <4>2. x.win = r.win => Finds(q, x)
        <5>1. Expected(q) = Expected(r)
          BY <1>5, Zenon DEF Expected
        <5> QED
          BY <1>2, <1>5, <3>1, <5>1, Zenon DEF Finds
      <4> QED
        BY <1>2, <1>5, <3>1, <4>1, <4>2, Zenon
    <3>2. CASE x = c
      <4>1. x.id \in Ids(q) /\ x.id < NextId(q) /\ x.win = q.win
        BY <1>4, <1>5, <1>6, <3>2
      <4>2. Expected(q) = Expected(r)
        BY <1>5, Zenon DEF Expected
      <4>3. Format(x.target) = Expected(q)
        BY <1>5, <1>6, <3>2, <4>2, Zenon
      <4> QED
        BY <4>1, <4>3, Zenon DEF Finds
    <3> QED
      BY <1>9, <3>1, <3>2
  <2>2. Waits(q, answering', Nobody)
    BY <1>2, <1>5, <2>1, Zenon DEF Waits
  <2>3. q.win \in windows /\ property'[q.win] = Nobody /\ After(q) <= asked' + 1
    BY <1>2, <1>5, <1>8, Zenon
  <2> QED
    BY <1>5, <2>2, <2>3, Zenon DEF Stays
<1>15. ASSUME NEW k \in 1 .. m
       PROVE  /\ Stays(reads'[k], answering', property', windows, asked')
              /\ Under(reads'[k], q)
              /\ \A j \in 1 .. m : k < j => Under(reads'[k], reads'[j])
  <2> PICK s : s = rest[k]
    OBVIOUS
  <2> PICK t : t = Overtaken(s, w)
    OBVIOUS
  <2>1. /\ Asks(s) /\ s.win \in windows /\ s.win \in Window
        /\ After(s) <= asked + 1
        /\ Waits(s, answering, property[s.win])
        /\ \A j \in 1 .. m : k < j => Under(s, rest[j])
    BY <1>2, PrefixIs, Zenon
  <2>2. reads'[k] = t
    BY <1>12, Zenon
  <2>3. /\ Asks(t) /\ t.first = s.first /\ t.win = s.win
        /\ t.alone <=> s.alone /\ s.win # w
        /\ After(t) = After(s)
    BY <2>1, OvertakenIs
  <2>4. After(s) \in Nat /\ After(s) <= r.first /\ After(s) <= c.id
        /\ After(s) <= asked' + 1
    BY <1>2, <1>4, <1>6, <1>7, <2>1, IdsAre
  <2>5. Waits(t, answering', property'[t.win])
    <3>1. \/ property'[t.win] = property[s.win]
          \/ s.win = w /\ property'[t.win] = Nobody
      BY <1>8, <2>1, <2>3, Zenon
    <3>2. Shares(s, answering, property[s.win], w, c, answering', property'[t.win])
      BY <1>6, <1>9, <2>1, <2>4, <3>1, Zenon DEF Shares
    <3> QED
      BY <3>2, OvertakenWaits, Zenon
  <2>6. Stays(t, answering', property', windows, asked')
    BY <2>1, <2>3, <2>4, <2>5, Zenon DEF Stays
  <2>7. Under(t, q)
    BY <1>5, <2>3, <2>4, Zenon DEF Under
  <2>8. ASSUME NEW j \in 1 .. m, k < j PROVE Under(t, reads'[j])
    <3>1. Under(s, rest[j]) /\ Asks(rest[j])
      BY <1>2, <2>1, <2>8, PrefixIs, Zenon
    <3>2. reads'[j] = Overtaken(rest[j], w)
      BY <1>12, Zenon
    <3>3. reads'[j].first = rest[j].first /\ reads'[j].win = rest[j].win
      BY <3>1, <3>2, OvertakenIs
    <3> QED
      BY <2>3, <3>1, <3>3, Zenon DEF Under
  <2> QED
    BY <2>2, <2>6, <2>7, <2>8, Zenon
<1>16. \A k \in 1 .. Len(reads') : k \in 1 .. m \/ k = m + 1
  BY <1>3, <1>12
<1>17. \A k \in 1 .. Len(reads') :
         Stays(reads'[k], answering', property', windows, asked')
  BY <1>12, <1>14, <1>15, <1>16, Zenon
<1>18. \A j, k \in 1 .. Len(reads') : j < k => Under(reads'[j], reads'[k])
  <2> SUFFICES ASSUME NEW j \in 1 .. Len(reads'), NEW k \in 1 .. Len(reads'), j < k
               PROVE  Under(reads'[j], reads'[k])
    OBVIOUS
  <2>1. j \in 1 .. m /\ (k \in 1 .. m \/ k = m + 1)
    BY <1>3, <1>12
  <2> QED
    BY <1>12, <1>15, <2>1, Zenon
<1> QED
  BY <1>8, <1>9, <1>10, <1>12, <1>13, <1>17, <1>18, Zenon

----------------------------------------------------------------------------
(* A call returns, or asks again.                                           *)

\* What a call that returns may say.
Explains(r, ok, got) ==
  /\ got \in Conversion =>
       \/ got.id \in Ids(r) \union r.before
       \/ ~r.alone /\ got.id > r.first
  /\ r.alone /\ r.before = {} /\ r.answered => ok
  /\ got \in Conversion \union {Other, Nobody}
  /\ ok => got # Nobody

\* The property of the window w goes only if no call below may miss it.
Leaves(rest, m) ==
  \/ property' = property
  \/ \E w \in Window : /\ property' = Deleted(w)
                       /\ \A k \in 1 .. m : rest[k].win = w => ~rest[k].alone

\* The calls rest wait on after it.
LEMMA BelowStays ==
  ASSUME ClipboardInv, NEW rest, NEW m, Prefix(rest, m), Leaves(rest, m),
         asked' \in 0 .. MaxAsked, asked <= asked',
         UNCHANGED <<windows, answering>>
  PROVE  /\ property' \in [Window -> Conversion \union {Nobody}]
         /\ \A k \in 1 .. m :
              Stays(rest[k], answering', property', windows', asked')
<1>1. windows' = windows /\ answering' = answering
  BY Zenon
<1>2. /\ property \in [Window -> Conversion \union {Nobody}]
      /\ asked \in Nat /\ asked' \in Nat
  BY DEF ClipboardInv, ClipboardTypes
<1>3. /\ property' \in [Window -> Conversion \union {Nobody}]
      /\ \A k \in 1 .. m : \/ property'[rest[k].win] = property[rest[k].win]
                           \/ property'[rest[k].win] = Nobody /\ ~rest[k].alone
  <2>1. CASE property' = property
    BY <1>2, <2>1, Zenon
  <2>2. ASSUME NEW w \in Window, property' = Deleted(w),
               \A k \in 1 .. m : rest[k].win = w => ~rest[k].alone
        PROVE  /\ property' \in [Window -> Conversion \union {Nobody}]
               /\ \A k \in 1 .. m :
                    \/ property'[rest[k].win] = property[rest[k].win]
                    \/ property'[rest[k].win] = Nobody /\ ~rest[k].alone
    <3>1. /\ property' \in [Window -> Conversion \union {Nobody}]
          /\ property'[w] = Nobody
          /\ \A v \in Window : v # w => property'[v] = property[v]
      BY <1>2, <2>2 DEF Deleted
    <3>2. \A k \in 1 .. m : rest[k].win \in Window
      BY PrefixIs, Zenon
    <3> QED
      BY <2>2, <3>1, <3>2, Zenon
  <2> QED
    BY <2>1, <2>2, Zenon DEF Leaves
<1>4. ASSUME NEW k \in 1 .. m
      PROVE  Stays(rest[k], answering', property', windows', asked')
  <2>1. /\ Asks(rest[k]) /\ rest[k].win \in windows
        /\ After(rest[k]) <= asked + 1
        /\ Waits(rest[k], answering, property[rest[k].win])
    BY PrefixIs, Zenon
  <2>2. After(rest[k]) <= asked' + 1
    BY <1>2, <2>1, IdsAre
  <2>3. Waits(rest[k], answering, property'[rest[k].win])
    BY <1>3, <2>1, Zenon DEF Waits
  <2> QED
    BY <1>1, <2>1, <2>2, <2>3, Zenon DEF Stays
<1> QED
  BY <1>3, <1>4

LEMMA FinishKeeps ==
  ASSUME ClipboardInv, NEW r, NEW rest, NEW m, NEW ok, NEW got,
         Prefix(rest, m), Finish(r, rest, ok, got), Explains(r, ok, got),
         Leaves(rest, m), asked' \in 0 .. MaxAsked, asked <= asked',
         UNCHANGED <<windows, owner, ownerWindow, owned, answering>>
  PROVE  ClipboardInv'
<1>1. /\ windows' = windows /\ owner' = owner /\ ownerWindow' = ownerWindow
      /\ owned' = owned /\ answering' = answering /\ reads' = rest
      /\ last' = [ok |-> ok, got |-> got, read |-> r, owner |-> owner]
  BY Zenon DEF Finish
<1>2. /\ rest \in Seq(Read) /\ Len(rest) = m /\ m \in Nat /\ m <= Len(reads)
      /\ Len(reads) \in Nat /\ Len(reads) <= MaxReads
  BY DEF Prefix, ClipboardInv, ClipboardTypes
<1>3. /\ property \in [Window -> Conversion \union {Nobody}]
      /\ asked \in Nat /\ asked' \in Nat
      /\ \A c \in answering : c.id \in Nat /\ c.id <= asked
      /\ \A a, b \in answering : a.id = b.id => a = b
  BY DEF ClipboardInv, ClipboardTypes, Answers, Conversion, Id
<1>4. property' \in [Window -> Conversion \union {Nobody}]
  BY <1>1, BelowStays, Zenon
<1>5. ASSUME NEW k \in 1 .. m
      PROVE  Stays(rest[k], answering', property', windows', asked')
  BY <1>1, BelowStays, Zenon
<1>6. WaitingReads'
  <2>1. \A j, k \in 1 .. m : j < k => Under(rest[j], rest[k])
    BY PrefixIs, Zenon
  <2> QED
    BY <1>1, <1>2, <1>5, <2>1, Zenon DEF WaitingReads
<1>7. Answers'
  <2>1. \A c \in answering : c.id <= asked'
    BY <1>3
  <2> QED
    BY <1>1, <1>3, <2>1, Zenon DEF Answers
<1>8. /\ last'.got = got /\ last'.ok = ok /\ last'.read = r
  BY <1>1
<1>9. ReadIsExplained'
  BY <1>8, Zenon DEF Explains, ReadIsExplained, FromServer
<1>10. ClipboardTypes'
  <2>1. Len(reads') <= MaxReads
    BY <1>1, <1>2, ClipboardAssumption
  <2> QED
    BY <1>1, <1>2, <1>4, <1>8, <2>1, Zenon DEF ClipboardInv, ClipboardTypes, Explains
<1>11. OwnerIsKnown'
  BY <1>1, Zenon DEF ClipboardInv, OwnerIsKnown
<1> QED
  BY <1>6, <1>7, <1>9, <1>10, <1>11, Zenon DEF ClipboardInv

LEMMA RequestKeeps ==
  ASSUME ClipboardInv, NEW r, NEW rest, NEW m, MayAsk(r, rest, m), Request(r, rest),
         asked' \in 0 .. MaxAsked, asked <= asked', After(r) <= asked' + 1,
         UNCHANGED <<windows, owner, ownerWindow, owned>>
  PROVE  ClipboardInv'
<1>1. /\ windows' = windows /\ owner' = owner /\ ownerWindow' = ownerWindow
      /\ owned' = owned /\ last' = NoCall
  BY Zenon DEF Request
<1>2. /\ property' \in [Window -> Conversion \union {Nobody}]
      /\ answering' \subseteq Conversion
      /\ reads' \in Seq(Read)
      /\ Len(reads') <= MaxReads
      /\ Answers'
      /\ \A k \in 1 .. Len(reads') :
           Stays(reads'[k], answering', property', windows, asked')
      /\ \A j, k \in 1 .. Len(reads') : j < k => Under(reads'[j], reads'[k])
  BY RequestStays, Zenon
<1>3. last'.got = Nobody /\ last'.ok = FALSE
  BY <1>1 DEF NoCall
<1>4. ClipboardTypes'
  BY <1>1, <1>2, <1>3, Zenon DEF ClipboardInv, ClipboardTypes
<1>5. WaitingReads'
  BY <1>1, <1>2, Zenon DEF WaitingReads
<1>6. OwnerIsKnown' /\ ReadIsExplained'
  BY <1>1, Zenon DEF ClipboardInv, OwnerIsKnown, ReadIsExplained, Returned
<1> QED
  BY <1>2, <1>4, <1>5, <1>6, Zenon DEF ClipboardInv

\* getClipboardData from its first line, for a call that is not answered yet
\* unless another could have answered it.
LEMMA BodyKeeps ==
  ASSUME ClipboardInv, NEW r, NEW rest, NEW m,
         MayAsk(r, rest, m), Body(r, rest),
         asked' \in 0 .. MaxAsked, asked <= asked', After(r) <= asked' + 1,
         UNCHANGED <<windows, owner, ownerWindow, owned>>
  PROVE  ClipboardInv'
<1>1. /\ Other \notin Conversion /\ Nobody \notin Conversion /\ Other # Nobody
  BY ClipboardAssumption
<1>2. ~(r.alone /\ r.before = {} /\ r.answered) /\ Prefix(rest, m)
  BY Zenon DEF MayAsk
<1>3. CASE Request(r, rest)
  BY <1>3, RequestKeeps, Zenon
<1>4. ASSUME NEW ok, NEW got, Finish(r, rest, ok, got), got \in {Other, Nobody},
             ok => got = Other, UNCHANGED <<property, answering>>
      PROVE  ClipboardInv'
  <2>1. Explains(r, ok, got)
    BY <1>1, <1>2, <1>4, Zenon DEF Explains
  <2>2. Leaves(rest, m)
    BY <1>4, Zenon DEF Leaves
  <2> QED
    BY <1>2, <1>4, <2>1, <2>2, FinishKeeps, Zenon
<1>5. CASE /\ Finish(r, rest, FALSE, Nobody)
           /\ UNCHANGED <<property, answering>>
  BY <1>4, <1>5, Zenon
<1> PICK found : found = (r.call = "types" \/ r.mime \in owned)
  OBVIOUS
<1>6. CASE /\ Finish(r, rest, found, IF found THEN Other ELSE Nobody)
           /\ UNCHANGED <<property, answering>>
  BY <1>4, <1>6, Zenon
<1> QED
  BY <1>3, <1>5, <1>6, Zenon DEF Body

----------------------------------------------------------------------------
(* The handlers.                                                            *)

LEMMA InnerIs ==
  ASSUME ClipboardInv, reads # <<>>
  PROVE  \E m \in Nat :
           /\ Prefix(Below, m)
           /\ m < MaxReads
           /\ Asks(Inner)
           /\ Inner.win \in windows
           /\ Inner.win \in Window
           /\ After(Inner) <= asked + 1
           /\ Waits(Inner, answering, property[Inner.win])
           /\ \A k \in 1 .. m : Under(Below[k], Inner)
<1> PICK n : n = Len(reads)
  OBVIOUS
<1> PICK b : b = Below
  OBVIOUS
<1>1. /\ reads \in Seq(Read) /\ n <= MaxReads /\ MaxReads \in Nat
  BY ClipboardAssumption DEF ClipboardInv, ClipboardTypes
<1>2. n \in Nat \ {0}
  BY <1>1
<1>3. /\ b \in Seq(Read) /\ Len(b) = n - 1
      /\ \A k \in 1 .. n - 1 : b[k] = reads[k]
  BY <1>1, <1>2 DEF Below
<1> PICK m \in Nat : m = n - 1
  BY <1>2
<1>4. m \in 0 .. Len(reads) /\ m < MaxReads /\ n \in 1 .. n
      /\ \A k \in 1 .. m : k \in 1 .. n /\ k < n
  BY <1>1, <1>2
<1>5. Prefix(Below, m)
  BY <1>3, <1>4, Zenon DEF Prefix
<1>6. Inner = reads[n]
  BY Zenon DEF Inner
<1>7. \A k \in 1 .. m : Under(b[k], reads[n])
  BY <1>3, <1>4, Zenon DEF ClipboardInv, WaitingReads
<1> QED
  BY <1>4, <1>5, <1>6, <1>7, StaysIs, Zenon

\* The innermost call may delete its property: a call below it that waits for
\* the same window knows that it is not alone.
LEMMA InnerLeaves ==
  ASSUME ClipboardInv, NEW m, Asks(Inner), \A k \in 1 .. m : Under(Below[k], Inner),
         property' = property \/ property' = Deleted(Inner.win)
  PROVE  Leaves(Below, m)
<1>1. Inner.win \in Window
  BY Zenon, IdsAre
<1>2. \A k \in 1 .. m : Below[k].win = Inner.win => ~Below[k].alone
  BY Zenon DEF Under
<1> QED
  BY <1>1, <1>2, Zenon DEF Leaves

LEMMA Rooms ==
  ASSUME NEW a \in Nat, NEW l \in 1 .. 4, NEW most \in Nat, a + l <= most
  PROVE  a + l \in 0 .. most /\ a <= a + l /\ a + 1 \in 1 .. most
OBVIOUS

LEMMA GetKeeps ==
  ASSUME ClipboardInv, NEW w \in Window, NEW call \in Call, NEW mime \in Mime,
         Get(w, call, mime)
  PROVE  ClipboardInv'
<1> PICK plan : plan = Plan(call, mime)
  OBVIOUS
<1> PICK before : before = {c.id : c \in {d \in answering : d.win = w}}
  OBVIOUS
<1> PICK r : r = [call |-> call, win |-> w, mime |-> mime, first |-> asked + 1,
                  todo |-> plan, over |-> FALSE, answered |-> FALSE,
                  alone |-> TRUE, before |-> before]
  OBVIOUS
<1>1. /\ w \in windows
      /\ call # "data" => mime = "text"
      /\ Len(reads) < MaxReads
      /\ asked + Len(plan) <= MaxAsked
      /\ asked' = asked + Len(plan)
      /\ Body(r, reads)
      /\ UNCHANGED <<windows, owner, ownerWindow, owned>>
  BY Zenon DEF Get
<1>2. /\ plan \in Seq(Target) /\ Len(plan) \in 1 .. 4
      /\ \A n \in 1 .. Len(plan) :
           Format(plan[n]) = IF call = "types" THEN 32 ELSE 8
  BY PlanIs
<1>3. /\ asked \in Nat /\ MaxAsked \in Nat /\ reads \in Seq(Read)
      /\ answering \subseteq Conversion
      /\ \A c \in answering : c.id <= asked /\ c.id \in Id /\ c.id \in Nat
  BY ClipboardAssumption
  DEF ClipboardInv, ClipboardTypes, Answers, Conversion, Id
<1> PICK l : l = Len(plan)
  OBVIOUS
<1> PICK a : a = asked
  OBVIOUS
<1>4. /\ asked' \in 0 .. MaxAsked /\ asked <= asked' /\ asked + 1 \in Id
  <2>1. l \in 1 .. 4 /\ a \in Nat /\ MaxAsked \in Nat /\ a + l <= MaxAsked
    BY <1>1, <1>2, <1>3, Zenon
  <2>2. a + l \in 0 .. MaxAsked /\ a <= a + l /\ a + 1 \in 1 .. MaxAsked
    BY <2>1, Rooms, Zenon
  <2> QED
    BY <1>1, <2>2, Zenon DEF Id
<1>5. before \in SUBSET Id /\ \A c \in answering : c.win = w => c.id \in before
  BY <1>3
<1>6. /\ r \in Read /\ r.todo = plan /\ r.call = call /\ r.mime = mime
      /\ r.win = w /\ r.first = asked + 1 /\ r.alone = TRUE
      /\ r.answered = FALSE /\ r.before = before
  BY <1>2, <1>4, <1>5 DEF Read
<1>7. Asks(r)
  <2>1. Expected(r) = IF call = "types" THEN 32 ELSE 8
    BY <1>6, Zenon DEF Expected
  <2>2. Len(plan) <= Len(plan)
    BY <1>2
  <2> QED
    BY <1>1, <1>2, <1>6, <2>1, <2>2, Zenon DEF Asks
<1>8. /\ After(r) = asked + 1 + Len(plan) /\ NextId(r) = After(r) - Len(plan)
      /\ \A n \in Nat : n \in Ids(r) <=> r.first <= n /\ n < After(r)
  <2>1. After(r) = asked + 1 + Len(plan)
    BY <1>6, Zenon DEF After
  <2>2. /\ NextId(r) = After(r) - Len(r.todo)
        /\ \A n \in Nat : n \in Ids(r) <=> r.first <= n /\ n < After(r)
    BY <1>7, IdsAre, Zenon
  <2>3. NextId(r) = After(r) - Len(plan)
    BY <1>6, <2>2, Zenon
  <2> QED
    BY <2>1, <2>2, <2>3, Zenon
<1>9. NextId(r) = asked + 1 /\ After(r) <= asked' + 1
  <2>1. l \in 1 .. 4 /\ a \in Nat /\ After(r) = a + 1 + l /\ NextId(r) = After(r) - l
        /\ asked' = a + l
    BY <1>1, <1>2, <1>3, <1>8, Zenon
  <2>2. (a + 1 + l) - l = a + 1 /\ a + 1 + l <= (a + l) + 1
    BY <2>1
  <2> QED
    BY <2>1, <2>2, Zenon
<1> PICK m : m = Len(reads)
  OBVIOUS
<1>10. Prefix(reads, m)
  <2>1. m \in 0 .. Len(reads)
    BY <1>3
  <2> QED
    BY <1>3, <2>1, Zenon DEF Prefix
<1>11. ASSUME NEW k \in 1 .. m PROVE After(reads[k]) <= r.first
  BY <1>6, StaysIs
<1>12. ASSUME NEW c \in answering
       PROVE  /\ c.id < NextId(r) \/ c.id >= After(r)
              /\ c.id \in Ids(r) => c.win = r.win
              /\ c.win = r.win => Finds(r, c)
  <2>1. c.id < NextId(r)
    BY <1>3, <1>9
  <2>2. c.id \notin Ids(r)
    BY <1>3, <1>6, <1>8
  <2>3. c.win = r.win => c.id \in r.before
    BY <1>5, <1>6, Zenon
  <2> QED
    BY <2>1, <2>2, <2>3, Zenon DEF Finds
<1>13. r.todo # <<>>
  <2>1. plan # <<>>
    BY <1>2
  <2> QED
    BY <1>6, <2>1, Zenon
<1>14. MayAsk(r, reads, m)
  BY <1>1, <1>6, <1>7, <1>10, <1>11, <1>12, <1>13, Zenon DEF MayAsk
<1> QED
  BY <1>1, <1>4, <1>9, <1>14, BodyKeeps, Zenon

LEMMA TakeKeeps ==
  ASSUME ClipboardInv, Take PROVE ClipboardInv'
<1>1. /\ reads # <<>> /\ property[Inner.win] # Nobody
      /\ Finish(Inner, Below, TRUE, property[Inner.win])
      /\ property' = Deleted(Inner.win) /\ asked' = asked
      /\ UNCHANGED <<windows, owner, ownerWindow, owned, answering>>
  BY Zenon DEF Take, Answered, Waiting
<1> PICK m \in Nat :
      /\ Prefix(Below, m)
      /\ Asks(Inner)
      /\ Inner.win \in Window
      /\ Waits(Inner, answering, property[Inner.win])
      /\ \A k \in 1 .. m : Under(Below[k], Inner)
  BY <1>1, InnerIs, Zenon
<1>2. asked' \in 0 .. MaxAsked /\ asked <= asked'
  BY <1>1 DEF ClipboardInv, ClipboardTypes
<1>3. Leaves(Below, m)
  BY <1>1, InnerLeaves, Zenon
<1>4. Explains(Inner, TRUE, property[Inner.win])
  <2>1. property[Inner.win] \in Conversion \union {Nobody}
    BY Zenon DEF ClipboardInv, ClipboardTypes
  <2>2. Finds(Inner, property[Inner.win])
    BY <1>1, Zenon DEF Waits
  <2> QED
    BY <1>1, <2>1, <2>2, Zenon DEF Finds, Explains
<1> QED
  BY <1>1, <1>2, <1>3, <1>4, FinishKeeps, Zenon


\* The innermost call with todo left to ask, when it has given up a conversion.
GaveUp(todo, answered) ==
  [Inner EXCEPT !.todo = todo, !.over = TRUE, !.answered = answered]

\* It asks for no target twice.
LEMMA GaveUpIs ==
  ASSUME ClipboardInv, reads # <<>>, NEW todo \in Seq(Target),
         Len(todo) <= Len(Inner.todo),
         \A n \in 1 .. Len(todo) : Format(todo[n]) = Expected(Inner),
         NEW answered \in BOOLEAN, NEW r, r = GaveUp(todo, answered)
  PROVE  /\ Asks(r)
         /\ r.first = Inner.first /\ r.win = Inner.win /\ r.alone = Inner.alone
         /\ r.before = Inner.before /\ r.answered = answered
         /\ After(r) = After(Inner) /\ NextId(Inner) <= NextId(r)
         /\ Ids(r) = Ids(Inner) /\ Expected(r) = Expected(Inner)
<1> PICK i : i = Inner
  OBVIOUS
<1>1. Asks(i)
  BY InnerIs, Zenon
<1>2. r = [i EXCEPT !.todo = todo, !.over = TRUE, !.answered = answered]
  BY Zenon DEF GaveUp
<1>3. /\ r \in Read /\ r.todo = todo
      /\ r.first = i.first /\ r.win = i.win /\ r.alone = i.alone
      /\ r.before = i.before /\ r.answered = answered
      /\ r.call = i.call /\ r.mime = i.mime
  BY <1>1, <1>2 DEF Asks, Read
<1>4. After(r) = After(i) /\ Ids(r) = Ids(i) /\ Expected(r) = Expected(i)
  BY <1>3, Zenon DEF After, Ids, Expected
<1> PICK n : n = Len(Plan(i.call, i.mime))
  OBVIOUS
<1>5. n \in Nat
  BY <1>1, PlanIs DEF Asks, Read
<1>6. Len(todo) \in Nat /\ Len(i.todo) \in Nat /\ Len(i.todo) <= n
      /\ Len(todo) <= Len(i.todo)
  <2>1. Len(i.todo) \in Nat /\ Len(i.todo) <= n
    BY <1>1, IdsAre, Zenon DEF Asks
  <2>2. Len(todo) \in Nat
    OBVIOUS
  <2> QED
    BY <2>1, <2>2, Zenon
<1>7. Asks(r)
  <2>1. Len(todo) <= n
    BY <1>5, <1>6
  <2>2. Len(r.todo) <= Len(Plan(r.call, r.mime))
    BY <1>3, <2>1, Zenon
  <2>3. r.call # "data" => r.mime = "text"
    BY <1>1, <1>3, Zenon DEF Asks
  <2> QED
    BY <1>3, <1>4, <2>2, <2>3, Zenon DEF Asks
<1>8. NextId(i) <= NextId(r)
  <2> PICK a : a = After(i)
    OBVIOUS
  <2>1. a \in Nat /\ NextId(i) = a - Len(i.todo) /\ NextId(r) = a - Len(todo)
    BY <1>1, <1>3, <1>4, <1>7, IdsAre, Zenon
  <2> QED
    BY <1>6, <2>1
<1> QED
  BY <1>3, <1>4, <1>7, <1>8, Zenon

\* It gives up a conversion: only a call that could be told of another's answer
\* may have been told of one.
LEMMA GivesUpKeeps ==
  ASSUME ClipboardInv, reads # <<>>, NEW todo \in Seq(Target),
         Len(todo) <= Len(Inner.todo),
         \A n \in 1 .. Len(todo) : Format(todo[n]) = Expected(Inner),
         NEW answered \in BOOLEAN, GivesUp(todo, answered),
         ~(Inner.alone /\ Inner.before = {} /\ answered),
         property' = property \/ property' = Deleted(Inner.win),
         UNCHANGED <<windows, owner, ownerWindow, owned, answering, asked>>
  PROVE  ClipboardInv'
<1> PICK i : i = Inner
  OBVIOUS
<1> PICK b : b = Below
  OBVIOUS
<1> PICK r : r = GaveUp(todo, answered)
  OBVIOUS
<1>1. reads' = Append(b, r) /\ last' = NoCall
  BY Zenon DEF GivesUp, GaveUp
<1> PICK m \in Nat :
      /\ Prefix(b, m)
      /\ m < MaxReads
      /\ Asks(i)
      /\ i.win \in windows
      /\ i.win \in Window
      /\ After(i) <= asked + 1
      /\ Waits(i, answering, property[i.win])
      /\ \A k \in 1 .. m : Under(b[k], i)
  BY InnerIs, Zenon
<1>2. /\ Asks(r)
      /\ r.first = i.first /\ r.win = i.win /\ r.alone = i.alone
      /\ r.before = i.before /\ r.answered = answered
      /\ After(r) = After(i) /\ NextId(i) <= NextId(r)
      /\ Ids(r) = Ids(i) /\ Expected(r) = Expected(i)
  BY GaveUpIs, Zenon
<1>3. asked' \in 0 .. MaxAsked /\ asked <= asked' /\ asked' = asked
  BY DEF ClipboardInv, ClipboardTypes
<1>4. Leaves(b, m)
  BY InnerLeaves, Zenon
<1>5. /\ property' \in [Window -> Conversion \union {Nobody}]
      /\ \A k \in 1 .. m : Stays(b[k], answering', property', windows', asked')
  BY <1>3, <1>4, BelowStays, Zenon
<1>6. property'[i.win] = property[i.win] \/ property'[i.win] = Nobody
  <2>1. property \in [Window -> Conversion \union {Nobody}]
    BY Zenon DEF ClipboardInv, ClipboardTypes
  <2> QED
    BY <2>1, Zenon DEF Deleted
<1>7. Stays(r, answering', property', windows', asked')
  <2>1. ASSUME NEW c \in answering
        PROVE  /\ c.id \in Ids(r) => c.win = r.win /\ c.id < NextId(r)
               /\ c.win = r.win => Finds(r, c)
    <3>1. /\ c.id \in Ids(i) => c.win = i.win /\ c.id < NextId(i)
          /\ c.win = i.win => Finds(i, c)
      BY Zenon DEF Waits
    <3>2. c.win = r.win => Finds(r, c)
      BY <1>2, <3>1, Zenon DEF Finds
    <3>3. c.id \in Ids(r) => c.id < NextId(r)
      <4>1. c.id \in Nat /\ NextId(i) \in Nat /\ NextId(r) \in Nat
        <5>1. c.id \in Nat
          BY DEF ClipboardInv, ClipboardTypes, Conversion, Id
        <5> QED
          BY <1>2, <5>1, IdsAre, Zenon
      <4> QED
        BY <1>2, <3>1, <4>1
    <3> QED
      BY <1>2, <3>1, <3>2, <3>3, Zenon
  <2>2. property'[i.win] # Nobody => Finds(r, property'[i.win])
    BY <1>2, <1>6, Zenon DEF Waits, Finds
  <2>3. Waits(r, answering, property'[r.win])
    BY <1>2, <2>1, <2>2, Zenon DEF Waits
  <2>4. After(r) <= asked' + 1
    BY <1>2, <1>3, Zenon
  <2> QED
    BY <1>2, <2>3, <2>4, Zenon DEF Stays
<1>8. \A k \in 1 .. m : Under(b[k], r)
  BY <1>2, Zenon DEF Under
<1>9. /\ b \in Seq(Read) /\ Len(b) = m
      /\ \A j, k \in 1 .. m : j < k => Under(b[j], b[k])
  <2>1. b \in Seq(Read) /\ Len(b) = m
    BY Zenon DEF Prefix
  <2> QED
    BY <2>1, PrefixIs, Zenon
<1>10. /\ reads' \in Seq(Read) /\ Len(reads') = m + 1 /\ reads'[m + 1] = r
       /\ \A k \in 1 .. m : reads'[k] = b[k]
  <2>1. r \in Read
    BY <1>2, Zenon DEF Asks
  <2> QED
    BY <1>1, <1>9, <2>1
<1>11. Len(reads') <= MaxReads
  BY <1>10, ClipboardAssumption
<1>12. WaitingReads'
  <2>1. \A k \in 1 .. Len(reads') : k \in 1 .. m \/ k = m + 1
    BY <1>10
  <2>2. \A k \in 1 .. Len(reads') :
          Stays(reads'[k], answering', property', windows', asked')
    BY <1>5, <1>7, <1>10, <2>1, Zenon
  <2>3. ASSUME NEW j \in 1 .. Len(reads'), NEW k \in 1 .. Len(reads'), j < k
        PROVE  Under(reads'[j], reads'[k])
    <3>1. j \in 1 .. m /\ (k \in 1 .. m \/ k = m + 1)
      BY <1>10, <2>3
    <3> QED
      BY <1>8, <1>9, <1>10, <2>3, <3>1, Zenon
  <2> QED
    BY <2>2, <2>3, Zenon DEF WaitingReads
<1>13. last'.got = Nobody /\ last'.ok = FALSE
  BY <1>1 DEF NoCall
<1>14. ClipboardTypes'
  BY <1>5, <1>10, <1>11, <1>13, Zenon DEF ClipboardInv, ClipboardTypes
<1>15. Answers'
  BY Zenon DEF ClipboardInv, Answers
<1>16. OwnerIsKnown' /\ ReadIsExplained'
  BY <1>1, Zenon DEF ClipboardInv, OwnerIsKnown, ReadIsExplained, Returned
<1> QED
  BY <1>12, <1>14, <1>15, <1>16, Zenon DEF ClipboardInv

\* An answer in another format is not one to a conversion of the call.
LEMMA TakeUnsupportedKeeps ==
  ASSUME ClipboardInv, TakeUnsupported PROVE ClipboardInv'
<1> PICK p : p = property[Inner.win]
  OBVIOUS
<1>1. /\ reads # <<>> /\ p # Nobody /\ asked' = asked
      /\ Format(p.target) # Expected(Inner)
      /\ property' = Deleted(Inner.win)
      /\ UNCHANGED <<windows, owner, ownerWindow, owned, answering, asked>>
  BY Zenon DEF TakeUnsupported, Answered, Waiting
<1> PICK m \in Nat :
      /\ Prefix(Below, m)
      /\ Asks(Inner)
      /\ Inner.win \in Window
      /\ Waits(Inner, answering, property[Inner.win])
      /\ \A k \in 1 .. m : Under(Below[k], Inner)
  BY <1>1, InnerIs, Zenon
<1>2. asked' \in 0 .. MaxAsked /\ asked <= asked'
  BY <1>1 DEF ClipboardInv, ClipboardTypes
<1>3. p \in Conversion /\ Finds(Inner, p)
  BY <1>1, Zenon DEF ClipboardInv, ClipboardTypes, Waits
<1>4. ~(Inner.alone /\ Inner.before = {})
  BY <1>1, <1>3, Zenon DEF Finds
<1>5. CASE Inner.call = "text" /\ Len(Inner.todo) >= 2
  <2> PICK s : s = TargetsOf("text")
    OBVIOUS
  <2>1. GivesUp(s, Inner.answered)
    BY <1>5, Zenon DEF TakeUnsupported
  <2>2. /\ s \in Seq(Target) /\ Len(s) = 2
        /\ \A n \in 1 .. 2 : Format(s[n]) = 8
    BY TargetsAre DEF Mime
  <2>3. Expected(Inner) = 8
    BY <1>5 DEF Expected
  <2>4. Inner.answered \in BOOLEAN
    BY DEF Asks, Read
  <2> PICK l : l = Len(Inner.todo)
    OBVIOUS
  <2>5. Len(s) <= l
    <3>1. l \in Nat /\ l >= 2
      BY <1>5, IdsAre, Zenon
    <3> QED
      BY <2>2, <3>1
  <2> QED
    BY <1>1, <1>4, <2>1, <2>2, <2>3, <2>4, <2>5, GivesUpKeeps, Zenon
<1>6. CASE ~(Inner.call = "text" /\ Len(Inner.todo) >= 2)
  <2>1. Finish(Inner, Below, FALSE, p)
    BY <1>6, Zenon DEF TakeUnsupported
  <2>2. Explains(Inner, FALSE, p)
    BY <1>3, <1>4, Zenon DEF Finds, Explains
  <2>3. Leaves(Below, m)
    BY <1>1, InnerLeaves, Zenon
  <2> QED
    BY <1>1, <1>2, <2>1, <2>2, <2>3, FinishKeeps, Zenon
<1> QED
  BY <1>5, <1>6, Zenon

\* What it still asks for when it gives up only the conversion it waits for.
LEMMA TodoIs ==
  ASSUME ClipboardInv, reads # <<>>
  PROVE  /\ Inner.todo \in Seq(Target)
         /\ Len(Inner.todo) <= Len(Inner.todo)
         /\ \A n \in 1 .. Len(Inner.todo) : Format(Inner.todo[n]) = Expected(Inner)
         /\ Inner.answered \in BOOLEAN
<1>1. Asks(Inner)
  BY InnerIs, Zenon
<1> PICK t : t = Inner.todo
  OBVIOUS
<1>2. t \in Seq(Target) /\ Inner.answered \in BOOLEAN
  BY <1>1 DEF Asks, Read
<1>3. Len(t) <= Len(t)
  BY <1>2
<1> QED
  BY <1>1, <1>2, <1>3, Zenon DEF Asks

LEMMA LastProbeKeeps ==
  ASSUME ClipboardInv, LastProbe PROVE ClipboardInv'
<1>1. /\ reads # <<>> /\ property[Inner.win] = Nobody /\ property' = property
      /\ GivesUp(Inner.todo, Inner.answered)
      /\ UNCHANGED <<windows, owner, ownerWindow, owned, answering, asked>>
  BY Zenon DEF LastProbe, Waiting
<1>2. Waits(Inner, answering, property[Inner.win])
  BY <1>1, InnerIs, Zenon
<1>3. ~(Inner.alone /\ Inner.before = {} /\ Inner.answered)
  BY <1>1, <1>2, Zenon DEF Waits
<1> QED
  BY <1>1, <1>3, TodoIs, GivesUpKeeps, Zenon

LEMMA FailKeeps ==
  ASSUME ClipboardInv, Fail PROVE ClipboardInv'
<1>1. /\ reads # <<>> /\ property' = property
      /\ GivesUp(Inner.todo, FALSE)
      /\ UNCHANGED <<windows, owner, ownerWindow, owned, answering, asked>>
  BY Zenon DEF Fail, Waiting
<1> PICK no \in BOOLEAN : no = FALSE
  OBVIOUS
<1>2. GivesUp(Inner.todo, no) /\ ~(Inner.alone /\ Inner.before = {} /\ no)
  BY <1>1, Zenon
<1> QED
  BY <1>1, <1>2, TodoIs, GivesUpKeeps, Zenon

LEMMA NextTryKeeps ==
  ASSUME ClipboardInv, NextTry PROVE ClipboardInv'
<1>1. /\ reads # <<>> /\ Inner.over /\ asked' = asked
      /\ UNCHANGED <<windows, owner, ownerWindow, owned>>
  BY Zenon DEF NextTry
<1> PICK m \in Nat :
      /\ Prefix(Below, m)
      /\ m < MaxReads
      /\ Asks(Inner)
      /\ Inner.win \in windows
      /\ Inner.win \in Window
      /\ After(Inner) <= asked + 1
      /\ Waits(Inner, answering, property[Inner.win])
      /\ \A k \in 1 .. m : Under(Below[k], Inner)
  BY <1>1, InnerIs, Zenon
<1>2. asked' \in 0 .. MaxAsked /\ asked <= asked' /\ asked' = asked
      /\ After(Inner) <= asked' + 1
  BY <1>1 DEF ClipboardInv, ClipboardTypes
<1>3. Inner.alone /\ Inner.before = {} => ~Inner.answered
  BY <1>1, Zenon DEF Waits
<1>4. CASE /\ Finish(Inner, Below, FALSE, Nobody)
           /\ UNCHANGED <<property, answering>>
  <2>1. Explains(Inner, FALSE, Nobody)
    <3>1. Nobody \notin Conversion
      BY ClipboardAssumption
    <3> QED
      BY <1>3, <3>1, Zenon DEF Explains
  <2>2. Leaves(Below, m)
    BY <1>4, Zenon DEF Leaves
  <2> QED
    BY <1>1, <1>2, <1>4, <2>1, <2>2, FinishKeeps, Zenon
<1>5. CASE /\ Inner.todo # <<>>
           /\ Body(Inner, Below) \/ Request(Inner, Below)
  <2> PICK i : i = Inner
    OBVIOUS
  <2>1. ASSUME NEW c \in answering
        PROVE  /\ c.id < NextId(i) \/ c.id >= After(i)
               /\ c.id \in Ids(i) => c.win = i.win
               /\ c.win = i.win => Finds(i, c)
    <3>1. /\ c.id \in Ids(i) => c.win = i.win /\ c.id < NextId(i)
          /\ c.win = i.win => Finds(i, c)
      BY Zenon DEF Waits
    <3>2. c.id < NextId(i) \/ c.id >= After(i)
      <4>1. c.id \in Nat
        BY DEF ClipboardInv, ClipboardTypes, Conversion, Id
      <4>2. /\ c.id \in Ids(i) <=> i.first <= c.id /\ c.id < After(i)
            /\ i.first \in Nat /\ After(i) \in Nat /\ NextId(i) \in Nat
            /\ i.first <= NextId(i)
        BY <4>1, IdsAre, Zenon
      <4> QED
        BY <3>1, <4>1, <4>2
    <3> QED
      BY <3>1, <3>2, Zenon
  <2>2. \A k \in 1 .. m : After(Below[k]) <= i.first
    BY Zenon DEF Under
  <2>3. MayAsk(i, Below, m)
    BY <1>3, <1>5, <2>1, <2>2, Zenon DEF MayAsk
  <2> QED
    BY <1>1, <1>2, <1>5, <2>3, BodyKeeps, RequestKeeps, Zenon
<1>6. SecondTry(Inner) => Inner.todo # <<>>
  <2>1. Len(<<>>) # 2
    OBVIOUS
  <2> QED
    BY <2>1, Zenon DEF SecondTry
<1> QED
  BY <1>4, <1>5, <1>6, Zenon DEF NextTry

LEMMA SetDataKeeps ==
  ASSUME ClipboardInv, NEW w \in Window, NEW mimes \in Writes, SetData(w, mimes)
  PROVE  ClipboardInv'
<1>1. /\ w \in windows /\ last' = NoCall
      /\ UNCHANGED <<windows, property, answering, asked, reads>>
      /\ \/ owned' = {} /\ owner' = owner /\ ownerWindow' = ownerWindow
         \/ owned' = mimes /\ ownerWindow' = w /\ owner' \in {w, Other}
  BY Zenon DEF SetData
<1>2. last'.got = Nobody /\ last'.ok = FALSE
  BY <1>1 DEF NoCall
<1>3. ClipboardTypes'
  <2>1. mimes \subseteq Mime
    BY ClipboardAssumption
  <2>2. owned' \subseteq Mime
    BY <1>1, <2>1, Zenon
  <2>3. owner' \in windows \union {Other, Nobody} /\ ownerWindow' \in Window \union {Nobody}
    BY <1>1, Zenon DEF ClipboardInv, ClipboardTypes
  <2> QED
    BY <1>1, <1>2, <2>2, <2>3, Zenon DEF ClipboardInv, ClipboardTypes
<1>4. OwnerIsKnown'
  <2>1. Other \notin Window
    BY ClipboardAssumption
  <2>2. windows \subseteq Window /\ windows' = windows
    BY <1>1, Zenon DEF ClipboardInv, ClipboardTypes
  <2>3. CASE owner' = owner /\ ownerWindow' = ownerWindow
    BY <2>2, <2>3, Zenon DEF ClipboardInv, OwnerIsKnown
  <2>4. CASE ownerWindow' = w /\ owner' \in {w, Other}
    <3>1. owner' \in windows' => ownerWindow' = owner'
      BY <2>1, <2>2, <2>4, Zenon
    <3> QED
      BY <3>1, Zenon DEF OwnerIsKnown
  <2> QED
    BY <1>1, <2>3, <2>4, Zenon
<1>5. Answers' /\ WaitingReads'
  BY <1>1, Zenon DEF ClipboardInv, Answers, WaitingReads
<1>6. ReadIsExplained'
  BY <1>1, Zenon DEF ReadIsExplained, Returned
<1> QED
  BY <1>3, <1>4, <1>5, <1>6, Zenon DEF ClipboardInv

\* Less to answer, and another window's property gone, is nothing to a call.
LEMMA LessStays ==
  ASSUME NEW r, NEW ans, NEW props, NEW wins, NEW n, NEW less, NEW others, NEW some,
         Stays(r, ans, props, wins, n), less \subseteq ans, r.win \in some,
         others[r.win] = props[r.win]
  PROVE  Stays(r, less, others, some, n)
<1>1. Waits(r, less, props[r.win])
  BY Zenon DEF Stays, Waits
<1> QED
  BY <1>1, Zenon DEF Stays

LEMMA DestroyKeeps ==
  ASSUME ClipboardInv, NEW w \in Window, Destroy(w)
  PROVE  ClipboardInv'
<1>1. /\ \A k \in DOMAIN reads : reads[k].win # w
      /\ windows' = windows \ {w}
      /\ owner' = (IF owner = w THEN Nobody ELSE owner)
      /\ property' = Deleted(w)
      /\ answering' = {c \in answering : c.win # w}
      /\ last' = NoCall
      /\ UNCHANGED <<ownerWindow, owned, asked, reads>>
  BY Zenon DEF Destroy
<1>2. last'.got = Nobody /\ last'.ok = FALSE
  BY <1>1 DEF NoCall
<1>3. /\ property \in [Window -> Conversion \union {Nobody}]
      /\ windows \subseteq Window
      /\ owner \in windows \union {Other, Nobody}
      /\ reads \in Seq(Read)
  BY Zenon DEF ClipboardInv, ClipboardTypes
<1>4. /\ property' \in [Window -> Conversion \union {Nobody}]
      /\ \A v \in Window : v # w => property'[v] = property[v]
  BY <1>1, <1>3 DEF Deleted
<1>5. answering' \subseteq answering
  BY <1>1, Zenon
<1>6. owner' \in windows' \union {Other, Nobody} /\ windows' \subseteq Window
  BY <1>1, <1>3, Zenon
<1>7. ClipboardTypes'
  BY <1>1, <1>2, <1>4, <1>5, <1>6, Zenon DEF ClipboardInv, ClipboardTypes
<1>8. Answers'
  BY <1>1, <1>5, Zenon DEF ClipboardInv, Answers
<1>9. WaitingReads'
  <2>1. DOMAIN reads = 1 .. Len(reads)
    BY <1>3
  <2>2. ASSUME NEW k \in 1 .. Len(reads)
        PROVE  Stays(reads[k], answering', property', windows', asked)
    <3>1. Stays(reads[k], answering, property, windows, asked)
      BY Zenon DEF ClipboardInv, WaitingReads
    <3>2. reads[k].win # w
      BY <1>1, <2>1, Zenon
    <3>3. reads[k].win \in windows /\ reads[k].win \in Window
      BY StaysIs, Zenon
    <3>4. reads[k].win \in windows'
      BY <1>1, <3>2, <3>3, Zenon
    <3>5. property'[reads[k].win] = property[reads[k].win]
      BY <1>4, <3>2, <3>3, Zenon
    <3> QED
      BY <1>5, <3>1, <3>4, <3>5, LessStays, Zenon
  <2> QED
    BY <1>1, <2>2, Zenon DEF ClipboardInv, WaitingReads
<1>10. OwnerIsKnown'
  <2>1. Nobody \notin Window
    BY ClipboardAssumption
  <2>2. owner' \in windows' => owner' = owner /\ owner \in windows
    BY <1>1, <1>3, <2>1, Zenon
  <2> QED
    BY <1>1, <2>2, Zenon DEF ClipboardInv, OwnerIsKnown
<1>11. ReadIsExplained'
  BY <1>1, Zenon DEF ReadIsExplained, Returned
<1> QED
  BY <1>7, <1>8, <1>9, <1>10, <1>11, Zenon DEF ClipboardInv

LEMMA OtherOwnsKeeps ==
  ASSUME ClipboardInv, OtherOwns PROVE ClipboardInv'
<1>1. /\ owner' \in {Other, Nobody} /\ last' = NoCall
      /\ UNCHANGED <<windows, ownerWindow, owned, property, answering, asked, reads>>
  BY Zenon DEF OtherOwns
<1>2. last'.got = Nobody /\ last'.ok = FALSE
  BY <1>1 DEF NoCall
<1>3. ClipboardTypes'
  BY <1>1, <1>2, Zenon DEF ClipboardInv, ClipboardTypes
<1>4. OwnerIsKnown'
  <2>1. owner' \notin Window
    BY <1>1, ClipboardAssumption
  <2> QED
    BY <1>1, <2>1, Zenon DEF ClipboardInv, ClipboardTypes, OwnerIsKnown
<1>5. Answers' /\ WaitingReads'
  BY <1>1, Zenon DEF ClipboardInv, Answers, WaitingReads
<1>6. ReadIsExplained'
  BY <1>1, Zenon DEF ReadIsExplained, Returned
<1> QED
  BY <1>3, <1>4, <1>5, <1>6, Zenon DEF ClipboardInv

LEMMA RefuseKeeps ==
  ASSUME ClipboardInv, NEW c \in answering, Refuse(c) PROVE ClipboardInv'
<1>1. /\ answering' = answering \ {c} /\ last' = NoCall
      /\ UNCHANGED <<windows, owner, ownerWindow, owned, property, asked, reads>>
  BY Zenon DEF Refuse
<1>2. last'.got = Nobody /\ last'.ok = FALSE
  BY <1>1 DEF NoCall
<1>3. answering' \subseteq answering
  BY <1>1, Zenon
<1>4. ClipboardTypes'
  BY <1>1, <1>2, <1>3, Zenon DEF ClipboardInv, ClipboardTypes
<1>5. Answers'
  BY <1>1, <1>3, Zenon DEF ClipboardInv, Answers
<1>6. WaitingReads'
  <2>1. ASSUME NEW k \in 1 .. Len(reads)
        PROVE  Stays(reads[k], answering', property, windows, asked)
    <3>1. Stays(reads[k], answering, property, windows, asked)
      BY Zenon DEF ClipboardInv, WaitingReads
    <3> QED
      BY <1>3, <3>1, StaysIs, LessStays, Zenon
  <2> QED
    BY <1>1, <2>1, Zenon DEF ClipboardInv, WaitingReads
<1>7. OwnerIsKnown'
  BY <1>1, Zenon DEF ClipboardInv, OwnerIsKnown
<1>8. ReadIsExplained'
  BY <1>1, Zenon DEF ReadIsExplained, Returned
<1> QED
  BY <1>4, <1>5, <1>6, <1>7, <1>8, Zenon DEF ClipboardInv

\* The call r when the conversion c has been answered.
Told(r, c) == [r EXCEPT !.answered = @ \/ (c.id \in Ids(r) /\ ~r.over)]

\* Nothing else of it changes.
LikeTold(r, c, t) ==
  /\ Asks(t)
  /\ t.first = r.first /\ t.win = r.win
  /\ t.before = r.before /\ t.alone = r.alone
  /\ t.over = r.over
  /\ t.answered => r.answered \/ (c.id \in Ids(r) /\ ~r.over)
  /\ After(t) = After(r) /\ NextId(t) = NextId(r) /\ Ids(t) = Ids(r)
  /\ Expected(t) = Expected(r)

LEMMA ToldIs ==
  ASSUME NEW r, Asks(r), NEW c
  PROVE  LikeTold(r, c, Told(r, c))
<1> PICK t : t = Told(r, c)
  OBVIOUS
<1> PICK b \in BOOLEAN : b <=> r.answered \/ (c.id \in Ids(r) /\ ~r.over)
  OBVIOUS
<1>1. t = [r EXCEPT !.answered = b]
  <2>1. r.answered \in BOOLEAN /\ r.over \in BOOLEAN
    BY DEF Asks, Read
  <2>2. (r.answered \/ (c.id \in Ids(r) /\ ~r.over)) = b
    BY <2>1
  <2> QED
    BY <2>2, Zenon DEF Told
<1>2. /\ t \in Read /\ t.first = r.first /\ t.win = r.win
      /\ t.before = r.before /\ t.answered = b /\ t.alone = r.alone
      /\ t.over = r.over
      /\ t.call = r.call /\ t.mime = r.mime /\ t.todo = r.todo
  BY <1>1 DEF Asks, Read
<1>3. /\ After(t) = After(r) /\ NextId(t) = NextId(r) /\ Ids(t) = Ids(r)
      /\ Expected(t) = Expected(r)
  BY <1>2, Zenon DEF After, NextId, Ids, Expected
<1>4. Asks(t)
  BY <1>2, <1>3, Zenon DEF Asks
<1> QED
  BY <1>2, <1>3, <1>4, Zenon DEF LikeTold

LEMMA AnswerKeeps ==
  ASSUME ClipboardInv, NEW c \in answering, Answer(c) PROVE ClipboardInv'
<1>1. /\ property' = [property EXCEPT ![c.win] = c]
      /\ answering' = answering \ {c}
      /\ reads' = [k \in DOMAIN reads |-> Told(reads[k], c)]
      /\ last' = NoCall
      /\ UNCHANGED <<windows, owner, ownerWindow, owned, asked>>
  BY Zenon DEF Answer, Told
<1>2. last'.got = Nobody /\ last'.ok = FALSE
  BY <1>1 DEF NoCall
<1>3. /\ property \in [Window -> Conversion \union {Nobody}]
      /\ reads \in Seq(Read) /\ Len(reads) \in Nat
      /\ c \in Conversion /\ c.win \in Window /\ c # Nobody
  BY ClipboardAssumption DEF ClipboardInv, ClipboardTypes, Conversion
<1>4. /\ property' \in [Window -> Conversion \union {Nobody}]
      /\ property'[c.win] = c
      /\ \A v \in Window : v # c.win => property'[v] = property[v]
  BY <1>1, <1>3
<1>5. answering' \subseteq answering
  BY <1>1, Zenon
<1>6. /\ reads' \in Seq(Read) /\ Len(reads') = Len(reads)
      /\ \A k \in 1 .. Len(reads) : reads'[k] = Told(reads[k], c)
  <2>1. \A k \in 1 .. Len(reads) : Told(reads[k], c) \in Read
    <3> TAKE k \in 1 .. Len(reads)
    <3>1. Asks(reads[k])
      BY StaysIs, Zenon
    <3>2. LikeTold(reads[k], c, Told(reads[k], c))
      BY <3>1, ToldIs, Zenon
    <3> QED
      BY <3>2, Zenon DEF Asks, LikeTold
  <2>2. DOMAIN reads = 1 .. Len(reads)
    BY <1>3
  <2>3. /\ reads' \in [1 .. Len(reads) -> Read]
        /\ \A k \in 1 .. Len(reads) : reads'[k] = Told(reads[k], c)
    BY <1>1, <2>1, <2>2, Zenon
  <2> QED
    BY <1>3, <2>3
<1>7. ClipboardTypes'
  BY <1>1, <1>2, <1>4, <1>5, <1>6, Zenon DEF ClipboardInv, ClipboardTypes
<1>8. Answers'
  BY <1>1, <1>5, Zenon DEF ClipboardInv, Answers
<1>9. WaitingReads'
  <2>1. ASSUME NEW k \in 1 .. Len(reads)
        PROVE  /\ Stays(reads'[k], answering', property', windows, asked)
               /\ \A j \in 1 .. Len(reads) : k < j => Under(reads'[k], reads'[j])
    <3> PICK r : r = reads[k]
      OBVIOUS
    <3> PICK t : t = Told(r, c)
      OBVIOUS
    <3>1. /\ Asks(r) /\ r.win \in windows /\ r.win \in Window
          /\ After(r) <= asked + 1
          /\ Waits(r, answering, property[r.win])
      BY StaysIs, Zenon
    <3>2. LikeTold(r, c, t)
      BY <3>1, ToldIs, Zenon
    <3>3. reads'[k] = t
      BY <1>6, Zenon
    <3>4. ASSUME NEW x, Finds(r, x) PROVE Finds(t, x)
      BY <3>2, <3>4, Zenon DEF Finds, LikeTold
    <3>5. Waits(t, answering', property'[t.win])
      <4>1. CASE r.win = c.win
        <5>1. property'[t.win] = c /\ Finds(t, c)
          BY <1>4, <3>1, <3>2, <3>4, <4>1, Zenon DEF Waits, LikeTold
        <5> QED
          BY <1>3, <1>5, <3>1, <3>2, <3>4, <5>1, Zenon DEF Waits, LikeTold
      <4>2. CASE r.win # c.win
        <5>1. property'[t.win] = property[r.win] /\ (t.answered => r.answered)
          BY <1>4, <3>1, <3>2, <4>2, Zenon DEF Waits, LikeTold
        <5> QED
          BY <1>5, <3>1, <3>2, <3>4, <5>1, Zenon DEF Waits, LikeTold
      <4> QED
        BY <4>1, <4>2, Zenon
    <3>6. ASSUME NEW j \in 1 .. Len(reads), k < j PROVE Under(reads'[k], reads'[j])
      <4>1. Under(r, reads[j]) /\ Asks(reads[j])
        BY <3>6, StaysIs, Zenon DEF ClipboardInv, WaitingReads
      <4> PICK s : s = reads[j]
        OBVIOUS
      <4> PICK u : u = Told(s, c)
        OBVIOUS
      <4>2. LikeTold(s, c, u) /\ reads'[j] = u
        BY <1>6, <4>1, ToldIs, Zenon
      <4> QED
        BY <3>2, <3>3, <4>1, <4>2, Zenon DEF Under, LikeTold
    <3> QED
      BY <3>1, <3>2, <3>3, <3>5, <3>6, Zenon DEF Stays, LikeTold
  <2> QED
    BY <1>1, <1>6, <2>1, Zenon DEF WaitingReads
<1>10. OwnerIsKnown'
  BY <1>1, Zenon DEF ClipboardInv, OwnerIsKnown
<1>11. ReadIsExplained'
  BY <1>1, Zenon DEF ReadIsExplained, Returned
<1> QED
  BY <1>7, <1>8, <1>9, <1>10, <1>11, Zenon DEF ClipboardInv


----------------------------------------------------------------------------
(* The theorems about the clipboard.                                        *)

LEMMA ClipboardStarts ==
  ASSUME ClipboardInit PROVE ClipboardInv
<1>1. last.got = Nobody /\ last.ok = FALSE /\ last = NoCall
  BY DEF ClipboardInit, NoCall
<1>2. /\ reads \in Seq(Read) /\ Len(reads) = 0 /\ Len(reads) <= MaxReads
      /\ \A k : k \notin 1 .. Len(reads)
  BY ClipboardAssumption DEF ClipboardInit
<1>3. asked \in 0 .. MaxAsked
  BY ClipboardAssumption DEF ClipboardInit
<1>4. /\ windows = Window /\ owner \in {Other, Nobody} /\ ownerWindow = Nobody
      /\ owned = {} /\ answering = {}
      /\ property \in [Window -> Conversion \union {Nobody}]
  BY DEF ClipboardInit
<1>5. ClipboardTypes
  BY <1>1, <1>2, <1>3, <1>4, Zenon DEF ClipboardTypes
<1>6. Answers /\ WaitingReads
  BY <1>2, <1>4, Zenon DEF Answers, WaitingReads
<1>7. OwnerIsKnown
  <2>1. Other \notin Window /\ Nobody \notin Window
    BY ClipboardAssumption
  <2> QED
    BY <1>4, <2>1, Zenon DEF OwnerIsKnown
<1>8. ReadIsExplained
  BY <1>1, Zenon DEF ReadIsExplained, Returned
<1> QED
  BY <1>5, <1>6, <1>7, <1>8, Zenon DEF ClipboardInv

LEMMA ClipboardSteps ==
  ASSUME ClipboardInv, [ClipboardNext]_clipboardVars PROVE ClipboardInv'
<1>1. CASE UNCHANGED clipboardVars
  <2>1. UNCHANGED <<windows, owner, ownerWindow, owned, property, answering,
                    asked, reads, last>>
    BY <1>1, Zenon DEF clipboardVars
  <2> QED
    BY <2>1, Zenon DEF ClipboardInv, ClipboardTypes, Answers, WaitingReads,
                       OwnerIsKnown, ReadIsExplained, Returned, FromServer
<1>2. CASE ClipboardNext
  <2>1. CASE \E w \in Window, call \in Call, mime \in Mime : Get(w, call, mime)
    BY <2>1, GetKeeps, Zenon
  <2>2. CASE Take
    BY <2>2, TakeKeeps, Zenon
  <2>3. CASE TakeUnsupported
    BY <2>3, TakeUnsupportedKeeps, Zenon
  <2>4. CASE LastProbe \/ Fail \/ NextTry
    BY <2>4, LastProbeKeeps, FailKeeps, NextTryKeeps, Zenon
  <2>5. CASE \E w \in Window, mimes \in Writes : SetData(w, mimes)
    BY <2>5, SetDataKeeps, Zenon
  <2>6. CASE \E w \in Window : Destroy(w)
    BY <2>6, DestroyKeeps, Zenon
  <2>7. CASE OtherOwns
    BY <2>7, OtherOwnsKeeps, Zenon
  <2>8. CASE \E c \in answering : Answer(c) \/ Refuse(c)
    BY <2>8, AnswerKeeps, RefuseKeeps, Zenon
  <2> QED
    BY <1>2, <2>1, <2>2, <2>3, <2>4, <2>5, <2>6, <2>7, <2>8, Zenon DEF ClipboardNext
<1> QED
  BY <1>1, <1>2, Zenon

\* The invariant of the reads of the clipboard, however deep they nest: a read
\* is waited for by the ids of its own conversions, none of which another call
\* may ask, and what it may find in its property is an answer to one of them or
\* to one its window could already expect, until a callback asks for the same
\* window (_clipboard_request_target, x11_window.c).
THEOREM ClipboardInvariant == ClipboardSpec => []ClipboardInv
<1> QED
  BY ClipboardStarts, ClipboardSteps, PTL DEF ClipboardSpec

\* The state of the clipboard is well formed: in particular no two conversions
\* under way have one id, only windows that exist wait for an answer, and a call
\* that succeeds returns something.
THEOREM ClipboardIsTyped == ClipboardSpec => []ClipboardTypeOK
<1>1. ASSUME ClipboardInv PROVE ClipboardTypeOK
  <2>1. ClipboardTypes /\ reads \in Seq(Read)
    BY <1>1, Zenon DEF ClipboardInv, ClipboardTypes
  <2>2. DOMAIN reads = 1 .. Len(reads) /\ \A k \in 1 .. Len(reads) : reads[k] \in Read
    BY <2>1
  <2>3. \A k \in 1 .. Len(reads) : reads[k].win \in windows
    BY <1>1, StaysIs, Zenon
  <2> QED
    BY <1>1, <2>1, <2>2, <2>3, Zenon
    DEF ClipboardInv, ClipboardTypes, Answers, ClipboardTypeOK
<1> QED
  BY <1>1, ClipboardInvariant, PTL

\* For every number of windows and depth of nested reads: a read of the
\* clipboard takes the answer to one of its own conversions unless its window
\* could expect another, and a read that nothing disturbs and whose probes do
\* not fail succeeds if it is answered while it waits
\* (lvkw_wnd_getClipboardData_X11 and its callers).
THEOREM ReadsAlwaysExplained == ClipboardSpec => []ReadIsExplained
<1>1. ClipboardInv => ReadIsExplained
  BY Zenon DEF ClipboardInv
<1> QED
  BY <1>1, ClipboardInvariant, PTL

\* A window that the server names as the owner of the selection is the one the
\* context answers for from its own copy (ctx->clipboard_owner_window).
THEOREM OwnerAlwaysKnown == ClipboardSpec => []OwnerIsKnown
<1>1. ClipboardInv => OwnerIsKnown
  BY Zenon DEF ClipboardInv
<1> QED
  BY <1>1, ClipboardInvariant, PTL

=============================================================================
