-------------------------- MODULE WaylandDndProofs --------------------------
(***************************************************************************)
(* Theorems about WaylandDnd for any offers, windows, size of the frame    *)
(* and reactions of the application: offers and pipes are owned, events    *)
(* reach the callback inside their session, finish is legal.               *)
(*                                                                         *)
(* None of the three is inductive.  What a handler has still to do is at   *)
(* most one event and then one of four endings (Rests); the events that    *)
(* wait, in the frame and in the handler, lead from the sessions that the  *)
(* callbacks have seen begin (opened) to the sessions as they will be      *)
(* after them (Leads); and there the session of the drag is open as long   *)
(* as the handler is not about to reset the drag (Current).                *)
(***************************************************************************)
EXTENDS WaylandDnd, SequenceTheorems, TLAPS

----------------------------------------------------------------------------
(* The inductive invariant.                                                *)

\* TypeOK without the agenda, in two parts: what a reset changes, and the rest.
HeldTypes ==
  /\ proxy \in [Offers -> {"unused", "live", "destroyed"}]
  /\ dnd \in [offer : Offers \union {None}, window : Windows \union {None},
              payload : BOOLEAN, drop_pending : BOOLEAN, session : Nat]
  /\ async \in [fd : {"open", "closed"},
                deadline : {"none", "running", "passed"}]
  /\ selection \in Offers \union {None}

WindowTypes == [Windows -> [alive : BOOLEAN, accept : BOOLEAN,
                            action : Actions, userdata : Nat]]
DragTypes == [phase : {"none", "offered", "over", "dropped"},
              offer : Offers \union {None}, motions : 0 .. MaxMotions]

OtherTypes ==
  /\ meta \in [Offers -> [uri : BOOLEAN, offered : SUBSET Actions,
                          selected : Actions]]
  /\ source \in {"open", "files", "nothing"}
  /\ window \in WindowTypes
  /\ frame \in Seq(Events)
  /\ Len(frame) <= FrameCap
  /\ flush \in 0 .. Len(frame)
  /\ drag \in DragTypes
  /\ session \in Nat
  /\ opened \in [Windows -> Nat]
  /\ dropped \subseteq Offers

Types == HeldTypes /\ OtherTypes

\* The offer of the compositor's drag against those the handlers hold.
Drags ==
  /\ drag.phase # "none" => drag.offer \in Offers
  /\ drag.phase = "offered" =>
       /\ proxy[drag.offer] = "live"
       /\ drag.offer # dnd.offer
       /\ drag.offer # selection
  /\ drag.phase = "over" =>
       dnd.offer \in {None, drag.offer} /\ ~dnd.drop_pending
  /\ dnd.drop_pending => dnd.offer \in dropped
  /\ selection # None => selection # dnd.offer

\* ReadBelongsToDrag, but for the drop that waits.
Reads ==
  /\ async.fd = "open" => dnd.offer # None /\ dnd.window # None
  /\ dnd.window # None => window[dnd.window].alive /\ window[dnd.window].accept

Owned == OffersAreLive /\ NoOfferIsLeaked /\ Drags /\ Reads

\* How a handler ends after its event.
ToReset == <<Do("reset")>>
ToDecide == <<Do("maybeFinalize")>>
ToFinish == <<Do("finish"), Do("reset")>>
Rests == {<<>>, ToReset, ToDecide, ToFinish}

\* The sessions that are open after event e, if those of op are before it.
After(op, e) ==
  CASE e.type = "enter"             -> [op EXCEPT ![e.window] = e.session]
    [] e.type \in {"leave", "drop"} -> [op EXCEPT ![e.window] = 0]
    [] e.type = "hover"             -> op

\* The callback has seen the session of event e begin.
Fits(op, e) == e.type # "enter" => op[e.window] = e.session

\* The first event of the frame that is not delivered.
Start == IF flush = 0 THEN 1 ELSE flush

\* h[k] are the sessions open before the k-th event of the frame.
Thread(h) ==
  /\ h[Start] = opened
  /\ \A k \in Start .. Len(frame) :
       Fits(h[k], frame[k]) /\ h[k + 1] = After(h[k], frame[k])

\* The frame leads from the sessions open now to those of op.
Leads(op) ==
  \E h \in [Start .. Len(frame) + 1 -> [Windows -> Nat]] :
    Thread(h) /\ h[Len(frame) + 1] = op

\* The session of the drag is open unless the handler is about to reset it.
Current(op, r) ==
  dnd.window # None /\ r \in {<<>>, ToDecide} => op[dnd.window] = dnd.session

\* The agenda ends with r, after an event that fits or none.
Ahead(op, r) ==
  \/ agenda = r /\ Current(op, r)
  \/ \E e \in Events :
       agenda = <<Push(e)>> \o r /\ Fits(op, e) /\ Current(After(op, e), r)

\* A drop waits for the pipe or for the end of the handler; what is about to
\* be finished has been dropped.
Waits(r) ==
  /\ dnd.drop_pending => async.fd = "open" \/ r # <<>>
  /\ r = ToFinish => dnd.offer \in dropped \union {None}

Sessions ==
  \E op \in [Windows -> Nat], r \in Rests : Leads(op) /\ Ahead(op, r) /\ Waits(r)

IInv == Types /\ Owned /\ Sessions

----------------------------------------------------------------------------
(* Agendas.                                                                *)

LEMMA RestShapes ==
  /\ Head(ToReset).op = "reset" /\ Tail(ToReset) = <<>> /\ ToReset # <<>>
  /\ Head(ToDecide).op = "maybeFinalize" /\ ToDecide # <<>>
  /\ Head(ToFinish).op = "finish" /\ Tail(ToFinish) = ToReset
  /\ ToFinish # <<>>
  /\ \A r \in Rests : <<>> \o r = r
BY DEF ToReset, ToDecide, ToFinish, Rests, Do

LEMMA RestsDiffer ==
  ToReset \notin {<<>>, ToDecide, ToFinish} /\ ToFinish \notin {<<>>, ToDecide}
  /\ ToDecide # <<>>
BY RestShapes, Zenon

LEMMA RestNeedsNoPush ==
  ASSUME NEW r \in Rests, r # <<>> PROVE Head(r).op # "push"
BY RestShapes DEF Rests

LEMMA OneBeforeTwo ==
  ASSUME NEW a, NEW b, NEW c
  PROVE  <<a>> \o <<b, c>> = <<a, b, c>>
<1> DEFINE S == {a, b, c}
<1>1. <<a>> \in Seq(S) /\ <<b, c>> \in Seq(S) /\ <<a, b, c>> \in Seq(S)
  OBVIOUS
<1>2. <<a>> \o <<b, c>> \in Seq(S)
  BY <1>1, ConcatProperties
<1>3. Len(<<a>> \o <<b, c>>) = 3 /\ Len(<<a, b, c>>) = 3
  OBVIOUS
<1>4. \A i \in 1 .. 3 : (<<a>> \o <<b, c>>)[i] = <<a, b, c>>[i]
  OBVIOUS
<1>5. QED
  BY <1>1, <1>2, <1>3, <1>4, SeqEqual

LEMMA PushShape ==
  ASSUME NEW e, NEW r \in Rests
  PROVE  /\ <<Push(e)>> \o r # <<>>
         /\ Head(<<Push(e)>> \o r) = Push(e)
         /\ Tail(<<Push(e)>> \o r) = r
<1>1. CASE r = <<>>
  BY <1>1
<1>2. CASE r \in {ToReset, ToDecide}
  BY <1>2 DEF ToReset, ToDecide
<1>3. CASE r = ToFinish
  <2>1. <<Push(e)>> \o r = <<Push(e), Do("finish"), Do("reset")>>
    BY <1>3, OneBeforeTwo, Zenon DEF ToFinish
  <2>2. \A a, b, c : /\ <<a, b, c>> # <<>> /\ Head(<<a, b, c>>) = a
                     /\ Tail(<<a, b, c>>) = <<b, c>>
    OBVIOUS
  <2>3. QED
    BY <1>3, <2>1, <2>2, Zenon DEF ToFinish
<1>4. QED
  BY <1>1, <1>2, <1>3 DEF Rests

\* The k-th entry of an agenda is of one of the four kinds.
LEMMA AgendaIsTyped ==
  ASSUME Sessions
  PROVE  \A k \in DOMAIN agenda :
           \/ agenda[k].op \in {"finish", "reset", "maybeFinalize"}
           \/ agenda[k].op = "push" /\ agenda[k].event \in Events
<1>1. PICK op \in [Windows -> Nat], r \in Rests : Ahead(op, r)
  BY DEF Sessions
<1>2. \A k \in DOMAIN r : r[k].op \in {"finish", "reset", "maybeFinalize"}
  BY DEF Rests, ToReset, ToDecide, ToFinish, Do
<1>3. ASSUME NEW e \in Events, agenda = <<Push(e)>> \o r, NEW k \in DOMAIN agenda
      PROVE  \/ agenda[k].op \in {"finish", "reset", "maybeFinalize"}
             \/ agenda[k].op = "push" /\ agenda[k].event \in Events
  <2>1. CASE r = <<>>
    BY <1>3, <2>1 DEF Push
  <2>2. CASE r \in {ToReset, ToDecide}
    BY <1>3, <2>2 DEF Push, ToReset, ToDecide, Do
  <2>3. CASE r = ToFinish
    BY <1>3, <2>3 DEF Push, ToFinish, Do
  <2>4. QED
    BY <2>1, <2>2, <2>3 DEF Rests
<1>4. QED
  BY <1>1, <1>2, <1>3, Zenon DEF Ahead

----------------------------------------------------------------------------
(* The invariant implies the properties.                                   *)

LEMMA OwnedHolds == IInv => OffersAreOwned
<1> SUFFICES ASSUME IInv PROVE OffersAreOwned
  OBVIOUS
<1>1. TypeOK
  BY AgendaIsTyped, Zenon DEF IInv, Types, HeldTypes, OtherTypes,
      WindowTypes, DragTypes, TypeOK
<1>2. ASSUME dnd.drop_pending, agenda = <<>> PROVE async.fd = "open"
  <2>1. PICK op \in [Windows -> Nat], r \in Rests : Ahead(op, r) /\ Waits(r)
    BY DEF IInv, Sessions
  <2>2. r = <<>>
    BY <1>2, <2>1, PushShape, Zenon DEF Ahead
  <2>3. QED
    BY <1>2, <2>1, <2>2 DEF Waits
<1>3. ReadBelongsToDrag
  BY <1>2, Zenon DEF IInv, Owned, Reads, ReadBelongsToDrag, Busy
<1>4. QED
  BY <1>1, <1>3 DEF IInv, Owned, OffersAreOwned

LEMMA SeenFits == IInv => NoOrphanEvents
<1> SUFFICES ASSUME IInv, flush > 0, Seen.type # "enter"
             PROVE  opened[Seen.window] = Seen.session
  BY DEF NoOrphanEvents
<1>1. PICK h : Thread(h)
  BY Zenon DEF IInv, Sessions, Leads
<1>2. Start = flush /\ flush \in Start .. Len(frame)
  BY DEF IInv, Types, HeldTypes, OtherTypes, Start
<1>3. QED
  BY <1>1, <1>2, Zenon DEF Thread, Fits, Seen

LEMMA FinishHolds == IInv => FinishIsLegal
<1> SUFFICES ASSUME IInv, agenda # <<>>, Head(agenda).op = "finish"
             PROVE  dnd.offer \in dropped \union {None}
  BY DEF FinishIsLegal
<1>1. PICK op \in [Windows -> Nat], r \in Rests : Ahead(op, r) /\ Waits(r)
  BY DEF IInv, Sessions
<1>2. agenda = r
  <2>1. \A e : Push(e).op = "push"
    BY DEF Push
  <2>2. QED
    BY <1>1, <2>1, PushShape, Zenon DEF Ahead
<1>3. r = ToFinish
  BY <1>2, RestShapes DEF Rests
<1>4. QED
  BY <1>1, <1>3 DEF Waits

----------------------------------------------------------------------------
(* The events that wait.                                                   *)

LEMMA AfterIsTyped ==
  ASSUME NEW op \in [Windows -> Nat], NEW e \in Events
  PROVE  After(op, e) \in [Windows -> Nat]
BY DEF After, Events

\* Nothing happens to the frame, or its delivery begins.
LEMMA LeadsStays ==
  ASSUME UNCHANGED <<frame, opened>>,
         UNCHANGED flush \/ (flush = 0 /\ flush' = 1)
  PROVE  \A op \in [Windows -> Nat] : Leads(op) => Leads(op)'
<1>1. Start' = Start
  BY DEF Start
<1>2. QED
  BY <1>1, Zenon DEF Leads, Thread

\* An event that fits goes from the agenda to the end of the frame.
LEMMA LeadsGrows ==
  ASSUME Types, flush = 0, UNCHANGED <<flush, opened>>,
         NEW op \in [Windows -> Nat], NEW e \in Events, Leads(op), Fits(op, e),
         frame' = Append(frame, e),
         NEW q, q = After(op, e)
  PROVE  Leads(q)'
<1>n. PICK n : n = Len(frame)
  OBVIOUS
<1>1. /\ n \in Nat /\ n + 1 \in Nat /\ frame \in Seq(Events)
      /\ Start = 1 /\ Start' = 1
  BY <1>n DEF Types, HeldTypes, OtherTypes, Start
<1>2. PICK h \in [1 .. n + 1 -> [Windows -> Nat]] : Thread(h) /\ h[n + 1] = op
  BY <1>n, <1>1, Zenon DEF Leads
<1>3. /\ Len(frame') = n + 1
      /\ frame'[n + 1] = e
      /\ \A k \in 1 .. n : frame'[k] = frame[k]
  BY <1>n, <1>1
<1>g. PICK g : g = [k \in 1 .. n + 2 |-> IF k = n + 2 THEN q ELSE h[k]]
  OBVIOUS
<1>4. q \in [Windows -> Nat]
  BY AfterIsTyped
<1>5. g \in [1 .. (n + 1) + 1 -> [Windows -> Nat]]
  <2>1. (n + 1) + 1 = n + 2 /\ \A k \in 1 .. n + 2 : k = n + 2 \/ k \in 1 .. n + 1
    BY <1>1, SMT
  <2>2. QED
    BY <1>g, <1>4, <2>1, Zenon
<1>6. /\ n + 2 \in 1 .. n + 2 /\ n + 1 \in 1 .. n + 2 /\ n + 1 # n + 2
      /\ 1 \in 1 .. n + 2 /\ 1 # n + 2 /\ (n + 1) + 1 = n + 2
  BY <1>1, SMT
<1>7. g[n + 2] = q /\ g[n + 1] = op /\ g[1] = h[1]
  BY <1>g, <1>2, <1>6, Zenon
<1>8. h[1] = opened /\ \A k \in 1 .. n : Fits(h[k], frame[k]) /\ h[k + 1] = After(h[k], frame[k])
  BY <1>n, <1>1, <1>2, Zenon DEF Thread
<1>9. ASSUME NEW k \in 1 .. n + 1
      PROVE  Fits(g[k], frame'[k]) /\ g[k + 1] = After(g[k], frame'[k])
  <2>1. CASE k = n + 1
    BY <1>3, <1>6, <1>7, <2>1, Zenon
  <2>2. CASE k # n + 1
    <3>1. /\ k \in 1 .. n /\ k \in 1 .. n + 2 /\ k + 1 \in 1 .. n + 2
          /\ k # n + 2 /\ k + 1 # n + 2
      BY <1>1, <2>2, SMT
    <3>2. QED
      BY <1>g, <1>3, <1>8, <3>1, Zenon
  <2>3. QED
    BY <2>1, <2>2
<1>10. Thread(g)'
  <2>1. g[1] = opened'
    BY <1>7, <1>8
  <2>2. QED
    BY <1>1, <1>3, <1>9, <2>1, Zenon DEF Thread
<1>11. QED
  <2>1. g[Len(frame') + 1] = q
    BY <1>3, <1>6, <1>7, Zenon
  <2>2. g \in [Start' .. Len(frame') + 1 -> [Windows -> Nat]]
    BY <1>1, <1>3, <1>5, Zenon
  <2>3. QED
    BY <1>10, <2>1, <2>2, Zenon DEF Leads

\* The callback has seen the first event that waits.
LEMMA LeadsShrinks ==
  ASSUME Types, flush > 0,
         opened' = After(opened, frame[flush]),
         IF flush = Len(frame)
           THEN frame' = <<>> /\ flush' = 0
           ELSE frame' = frame /\ flush' = flush + 1
  PROVE  \A op \in [Windows -> Nat] : Leads(op) => Leads(op)'
<1> SUFFICES ASSUME NEW op \in [Windows -> Nat], Leads(op) PROVE Leads(op)'
  OBVIOUS
<1>n. PICK n, f : n = Len(frame) /\ f = flush
  OBVIOUS
<1>1. /\ n \in Nat /\ n + 1 \in Nat /\ f \in 1 .. n /\ Start = f
  BY <1>n DEF Types, HeldTypes, OtherTypes, Start
<1>2. PICK h \in [f .. n + 1 -> [Windows -> Nat]] : Thread(h) /\ h[n + 1] = op
  BY <1>n, <1>1, Zenon DEF Leads
<1>3. h[f] = opened /\ \A k \in f .. n : Fits(h[k], frame[k]) /\ h[k + 1] = After(h[k], frame[k])
  BY <1>n, <1>1, <1>2, Zenon DEF Thread
<1>4. h[f + 1] = opened'
  <2>1. f \in f .. n
    BY <1>1, SMT
  <2>2. QED
    BY <1>n, <1>3, <2>1, Zenon
<1>5. CASE f = n
  <2>1. /\ frame' = <<>> /\ Len(frame') = 0 /\ Start' = 1 /\ opened' = op
    BY <1>n, <1>2, <1>4, <1>5 DEF Start
  <2>g. PICK g : g = [k \in 1 .. 1 |-> op]
    OBVIOUS
  <2>2. g \in [1 .. 0 + 1 -> [Windows -> Nat]] /\ g[0 + 1] = op /\ g[1] = op
    BY <2>g, SMT
  <2>3. \A k \in 1 .. 0 : FALSE
    BY SMT
  <2>4. Thread(g)'
    BY <2>1, <2>2, <2>3, Zenon DEF Thread
  <2>5. QED
    BY <2>1, <2>2, <2>4, Zenon DEF Leads
<1>6. CASE f # n
  <2>1. /\ frame' = frame /\ Len(frame') = n /\ Start' = f + 1
    <3>1. frame' = frame /\ flush' = f + 1
      BY <1>n, <1>6
    <3>2. QED
      BY <1>n, <1>1, <3>1 DEF Start
  <2>g. PICK g : g = [k \in f + 1 .. n + 1 |-> h[k]]
    OBVIOUS
  <2>2. /\ \A k \in f + 1 .. n + 1 : k \in f .. n + 1
        /\ \A k \in f + 1 .. n : /\ k \in f .. n
                                     /\ k \in f + 1 .. n + 1
                                     /\ k + 1 \in f + 1 .. n + 1
        /\ f + 1 \in f + 1 .. n + 1 /\ n + 1 \in f + 1 .. n + 1
    BY <1>1, <1>6, SMT
  <2>3. /\ g \in [f + 1 .. n + 1 -> [Windows -> Nat]]
        /\ g[n + 1] = op /\ g[f + 1] = opened'
    BY <2>g, <1>2, <1>4, <2>2, Zenon
  <2>4. \A k \in f + 1 .. n : Fits(g[k], frame[k]) /\ g[k + 1] = After(g[k], frame[k])
    BY <2>g, <1>3, <2>2, Zenon
  <2>5. Thread(g)'
    BY <2>1, <2>3, <2>4, Zenon DEF Thread
  <2>6. QED
    BY <2>1, <2>3, <2>5, Zenon DEF Leads
<1>7. QED
  BY <1>5, <1>6

----------------------------------------------------------------------------
(* What the application and the callbacks do to a drag.                    *)

\* The drag goes on, and its window accepts it as before.
GoesOn ==
  /\ UNCHANGED <<proxy, dnd, async, selection>>
  /\ dnd.window # None =>
       /\ window'[dnd.window].alive = window[dnd.window].alive
       /\ window'[dnd.window].accept = window[dnd.window].accept

LEMMA EffectOfAccept ==
  ASSUME Types, Reads, NEW w \in Windows, NEW accept \in BOOLEAN,
         SetAccept(w, accept)
  PROVE  window' \in WindowTypes /\ (Reset \/ GoesOn)
<1>1. window \in WindowTypes
  BY DEF Types, HeldTypes, OtherTypes, WindowTypes
<1>2. window' = [window EXCEPT ![w].accept = accept]
  BY DEF SetAccept
<1>3. window' \in WindowTypes
  BY <1>1, <1>2 DEF WindowTypes
<1>4. CASE ~accept /\ dnd.window = w
  BY <1>3, <1>4, Zenon DEF SetAccept
<1>5. CASE ~(~accept /\ dnd.window = w)
  <2>1. UNCHANGED <<proxy, dnd, async, selection>>
    BY <1>5, Zenon DEF SetAccept
  <2>2. ASSUME dnd.window # None
        PROVE  /\ window'[dnd.window].alive = window[dnd.window].alive
               /\ window'[dnd.window].accept = window[dnd.window].accept
    <3>1. dnd.window \in Windows
      BY <2>2 DEF Types, HeldTypes, OtherTypes
    <3>2. CASE dnd.window = w
      <4>1. accept /\ window[w].accept
        BY <1>5, <2>2, <3>2, Zenon DEF Reads
      <4>2. /\ window'[w].alive = window[w].alive
            /\ window'[w].accept = accept
        BY <1>1, <1>2 DEF WindowTypes
      <4>3. window[w].accept \in BOOLEAN
        BY <1>1 DEF WindowTypes
      <4>4. QED
        BY <3>2, <4>1, <4>2, <4>3, Zenon
    <3>3. CASE dnd.window # w
      BY <1>1, <1>2, <3>1, <3>3, Zenon DEF WindowTypes
    <3>4. QED
      BY <3>2, <3>3
  <2>3. QED
    BY <1>3, <2>1, <2>2, Zenon DEF GoesOn
<1>6. QED
  BY <1>4, <1>5

LEMMA EffectOfDestroy ==
  ASSUME Types, NEW w \in Windows, Destroy(w)
  PROVE  window' \in WindowTypes /\ (Reset \/ GoesOn)
<1>1. window \in WindowTypes
  BY DEF Types, HeldTypes, OtherTypes, WindowTypes
<1>2. window' = [window EXCEPT ![w].alive = FALSE]
  BY DEF Destroy
<1>3. window' \in WindowTypes
  BY <1>1, <1>2 DEF WindowTypes
<1>4. CASE dnd.window = w
  BY <1>3, <1>4, Zenon DEF Destroy
<1>5. CASE dnd.window # w
  <2>1. UNCHANGED <<proxy, dnd, async, selection>>
    BY <1>5, Zenon DEF Destroy
  <2>2. dnd.window # None => window'[dnd.window] = window[dnd.window]
    <3>1. dnd.window # None => dnd.window \in Windows
      BY DEF Types, HeldTypes, OtherTypes
    <3>2. QED
      BY <1>1, <1>2, <1>5, <3>1, Zenon DEF WindowTypes
  <2>3. QED
    BY <1>3, <2>1, <2>2, Zenon DEF GoesOn
<1>6. QED
  BY <1>4, <1>5

LEMMA EffectOfReaction ==
  ASSUME Types, Reads, NEW e \in Events, NEW reaction \in Reactions,
         React(e, reaction)
  PROVE  window' \in WindowTypes /\ (Reset \/ GoesOn)
<1> DEFINE w == e.window
           stored == IF e.type = "enter"
                       THEN [window EXCEPT ![w].userdata = e.session]
                       ELSE window
           Same(x) == /\ x \in WindowTypes
                      /\ \A v \in Windows : /\ x[v].alive = window[v].alive
                                            /\ x[v].accept = window[v].accept
<1>1. window \in WindowTypes /\ w \in Windows /\ e.session \in Nat
  BY DEF Types, HeldTypes, OtherTypes, WindowTypes, Events
<1>2. Same(window) /\ Same(stored)
  BY <1>1 DEF WindowTypes
<1>3. \A a \in Actions : Same([stored EXCEPT ![w].action = a])
  <2> HIDE DEF stored
  <2>1. stored \in WindowTypes
    BY <1>2, Zenon
  <2>2. ASSUME NEW a \in Actions PROVE Same([stored EXCEPT ![w].action = a])
    <3>1. [stored EXCEPT ![w].action = a] \in WindowTypes
      BY <2>1, <1>1 DEF WindowTypes
    <3>2. \A v \in Windows :
            /\ [stored EXCEPT ![w].action = a][v].alive = stored[v].alive
            /\ [stored EXCEPT ![w].action = a][v].accept = stored[v].accept
      BY <2>1, <1>1 DEF WindowTypes
    <3>3. QED
      BY <1>2, <3>1, <3>2, Zenon
  <2>3. QED
    BY <2>2, Zenon
<1>4. ASSUME Same(window'), UNCHANGED <<proxy, dnd, async, selection>>
      PROVE  window' \in WindowTypes /\ GoesOn
  <2>1. dnd.window # None => dnd.window \in Windows
    BY DEF Types, HeldTypes, OtherTypes
  <2>2. QED
    BY <1>4, <2>1, Zenon DEF GoesOn
<1>5. reaction \in {"keep", "accept", "reject", "refuse", "destroy"}
  BY DndAssumption
<1>6. CASE reaction = "keep" \/ ~window[w].alive
  <2>1. /\ window' = window \/ window' = stored
        /\ UNCHANGED <<proxy, dnd, async, selection>>
    BY <1>6, Zenon DEF React
  <2> HIDE DEF stored, Same
  <2>2. QED
    BY <1>2, <1>4, <2>1, Zenon
<1>7. CASE reaction \in {"accept", "reject"} /\ window[w].alive
  <2>1. "copy" \in Actions /\ "none" \in Actions
    BY DEF Actions
  <2>2. /\ UNCHANGED <<proxy, dnd, async, selection>>
        /\ \/ window' = stored
           \/ \E a \in Actions : window' = [stored EXCEPT ![w].action = a]
    <3>1. reaction # "keep"
      BY <1>7
    <3>2. /\ window' = IF e.type \in {"enter", "hover"}
                         THEN [stored EXCEPT ![w].action =
                                 IF reaction = "accept" THEN "copy" ELSE "none"]
                         ELSE stored
          /\ UNCHANGED <<proxy, dnd, async, selection>>
      BY <1>7, <3>1, Zenon DEF React
    <3>3. (IF reaction = "accept" THEN "copy" ELSE "none") \in Actions
      BY <2>1
    <3> HIDE DEF stored
    <3>4. QED
      BY <3>2, <3>3, Zenon
  <2> HIDE DEF stored, Same
  <2>3. QED
    BY <1>2, <1>3, <1>4, <2>2, Zenon
<1>8. CASE reaction = "refuse" /\ window[w].alive
  <2>1. SetAccept(w, FALSE)
    BY <1>8 DEF React
  <2>2. QED
    BY <1>1, <2>1, EffectOfAccept, Zenon
<1>9. CASE reaction = "destroy" /\ window[w].alive
  <2>1. Destroy(w)
    BY <1>9 DEF React
  <2>2. QED
    BY <1>1, <2>1, EffectOfDestroy, Zenon
<1>10. QED
  BY <1>5, <1>6, <1>7, <1>8, <1>9, Zenon

----------------------------------------------------------------------------
(* Types.                                                                  *)

LEMMA NegotiateIsTyped ==
  ASSUME NEW offered \in SUBSET Actions, NEW current \in Actions
  PROVE  Negotiate(offered, current) \in Actions
<1> DEFINE order == <<current, "copy", "move", "link">>
           served == {k \in DOMAIN order : order[k] \in offered}
<1>1. DOMAIN order = 1 .. 4 /\ \A k \in 1 .. 4 : order[k] \in Actions
  BY DEF Actions
<1>2. CASE served = {}
  BY <1>2 DEF Negotiate, Actions
<1>3. CASE served # {}
  <2> HIDE DEF order
  <2>1. \E k \in served : \A j \in served : k <= j
    <3>1. CASE 1 \in served
      BY <1>1, <3>1
    <3>2. CASE 1 \notin served /\ 2 \in served
      BY <1>1, <3>2
    <3>3. CASE 1 \notin served /\ 2 \notin served /\ 3 \in served
      BY <1>1, <3>3
    <3>4. CASE 1 \notin served /\ 2 \notin served /\ 3 \notin served
      BY <1>1, <1>3, <3>4
    <3>5. QED
      BY <3>1, <3>2, <3>3, <3>4
  <2>2. PICK k \in served : k = CHOOSE i \in served : \A j \in served : i <= j
    BY <2>1, Zenon
  <2>3. order[k] \in Actions
    BY <1>1
  <2> USE DEF order
  <2>4. Negotiate(offered, current) = order[k]
    BY <1>3, <2>2, Zenon DEF Negotiate
  <2>5. QED
    BY <2>3, <2>4, Zenon
<1>4. QED
  BY <1>2, <1>3

LEMMA NothingIsTyped ==
  /\ NoDnd \in [offer : Offers \union {None}, window : Windows \union {None},
                payload : BOOLEAN, drop_pending : BOOLEAN, session : Nat]
  /\ NoAsync \in [fd : {"open", "closed"},
                  deadline : {"none", "running", "passed"}]
BY DEF NoDnd, NoAsync

LEMMA ResetIsTyped ==
  ASSUME Types, Reset \/ UNCHANGED <<proxy, dnd, async, selection>>
  PROVE  HeldTypes'
<1>1. CASE Reset
  <2>1. proxy' \in [Offers -> {"unused", "live", "destroyed"}]
    BY <1>1 DEF Types, HeldTypes, OtherTypes, Reset
  <2>2. selection' \in Offers \union {None}
    BY <1>1 DEF Types, HeldTypes, OtherTypes, Reset
  <2>3. QED
    BY <1>1, <2>1, <2>2, NothingIsTyped, Zenon DEF Reset, HeldTypes
<1>2. CASE UNCHANGED <<proxy, dnd, async, selection>>
  BY <1>2, Zenon DEF Types, HeldTypes, OtherTypes
<1>3. QED
  BY <1>1, <1>2

\* A handler that is about to push an event, and one that is not.
LEMMA Pushing ==
  ASSUME Sessions, agenda # <<>>, Head(agenda).op = "push"
  PROVE  \E op \in [Windows -> Nat], r \in Rests, e \in Events :
           /\ Leads(op) /\ Fits(op, e) /\ Current(After(op, e), r) /\ Waits(r)
           /\ agenda = <<Push(e)>> \o r
           /\ Head(agenda).event = e /\ Tail(agenda) = r
<1>1. PICK op \in [Windows -> Nat], r \in Rests :
        Leads(op) /\ Ahead(op, r) /\ Waits(r)
  BY DEF Sessions
<1>2. agenda # r
  BY RestNeedsNoPush, Zenon
<1>3. PICK e \in Events :
        agenda = <<Push(e)>> \o r /\ Fits(op, e) /\ Current(After(op, e), r)
  BY <1>1, <1>2, Zenon DEF Ahead
<1>4. Head(agenda).event = e
  BY <1>3, PushShape DEF Push
<1>5. QED
  BY <1>1, <1>3, <1>4, PushShape, Zenon

LEMMA Resting ==
  ASSUME Sessions, agenda = <<>> \/ Head(agenda).op # "push"
  PROVE  \E op \in [Windows -> Nat], r \in Rests :
           Leads(op) /\ Current(op, r) /\ Waits(r) /\ agenda = r
<1>1. PICK op \in [Windows -> Nat], r \in Rests :
        Leads(op) /\ Ahead(op, r) /\ Waits(r)
  BY DEF Sessions
<1>2. \A e : Push(e).op = "push"
  BY DEF Push
<1>3. agenda = r /\ Current(op, r)
  BY <1>1, <1>2, PushShape, Zenon DEF Ahead
<1>4. QED
  BY <1>1, <1>3

LEMMA MotionIsCounted ==
  ASSUME OtherTypes, drag.motions < MaxMotions,
         drag' = [drag EXCEPT !.motions = @ + 1]
  PROVE  drag' \in DragTypes
<1>1. \A d \in DragTypes :
        /\ d.motions \in 0 .. MaxMotions
        /\ \A n \in 0 .. MaxMotions : [d EXCEPT !.motions = n] \in DragTypes
  BY DEF DragTypes
<1>2. drag \in DragTypes /\ drag.motions \in 0 .. MaxMotions
  BY <1>1, Zenon DEF OtherTypes
<1>3. drag.motions + 1 \in 0 .. MaxMotions
  BY <1>2, DndAssumption
<1>4. QED
  BY <1>1, <1>2, <1>3, Zenon

LEMMA MessageTypes ==
  ASSUME Types, Drags,
         \/ \E o \in Offers, uri \in BOOLEAN, offered \in {{"copy"}, {"move"}} :
              DataOffer(o, uri, offered)
         \/ \E a \in Actions : SelectAction(a)
         \/ Leave \/ Drop \/ PointerFrame
         \/ \E o \in Offers \union {None} : Selection(o)
  PROVE  Types'
<1> USE DndAssumption DEF handlerVars, eventVars, historyVars
<1>1. HeldTypes /\ OtherTypes
  BY DEF Types
<1>2. ASSUME NEW o \in Offers, NEW uri \in BOOLEAN,
             NEW offered \in {{"copy"}, {"move"}}, DataOffer(o, uri, offered)
      PROVE  Types'
  <2>1. HeldTypes'
    BY <1>1, <1>2 DEF DataOffer, HeldTypes
  <2>2. offered \in SUBSET Actions /\ "none" \in Actions
    BY DEF Actions
  <2>3. OtherTypes'
    BY <1>1, <1>2, <2>2 DEF DataOffer, OtherTypes, DragTypes
  <2>4. QED
    BY <2>1, <2>3 DEF Types
<1>3. ASSUME NEW a \in Actions, SelectAction(a) PROVE Types'
  <2>1. HeldTypes'
    BY <1>1, <1>3 DEF SelectAction, HeldTypes
  <2>2. drag.offer \in Offers
    BY <1>3 DEF Drags, SelectAction
  <2>3. meta' \in [Offers -> [uri : BOOLEAN, offered : SUBSET Actions,
                              selected : Actions]]
    <3> DEFINE M == [uri : BOOLEAN, offered : SUBSET Actions, selected : Actions]
    <3>1. \A m \in M : [m EXCEPT !.selected = a] \in M
      OBVIOUS
    <3>2. meta' = [meta EXCEPT ![drag.offer].selected = a] /\ meta \in [Offers -> M]
      BY <1>1, <1>3, Zenon DEF SelectAction, OtherTypes
    <3> HIDE DEF M
    <3>3. meta' \in [Offers -> M]
      BY <2>2, <3>1, <3>2
    <3>4. QED
      BY <3>3 DEF M
  <2>4. drag' \in DragTypes
    BY <1>1, <1>3, MotionIsCounted, Zenon DEF SelectAction
  <2>5. QED
    BY <1>1, <1>3, <2>1, <2>3, <2>4 DEF Types, SelectAction, OtherTypes
<1>4. CASE Leave
  BY <1>1, <1>4 DEF Types, Leave, NoDrag, HeldTypes, OtherTypes,
     DragTypes
<1>5. CASE Drop
  <2>1. drag.offer \in Offers /\ dropped' \subseteq Offers
    BY <1>1, <1>5 DEF Drop, Drags, OtherTypes, DragTypes
  <2>2. drag' \in DragTypes
    BY <1>1, <1>5 DEF Drop, OtherTypes, DragTypes
  <2>3. HeldTypes'
    <3>1. dnd' = dnd \/ dnd' = [dnd EXCEPT !.drop_pending = TRUE]
      BY <1>5, Zenon DEF Drop
    <3>2. async' = async \/ async' = [async EXCEPT !.deadline = "running"]
      BY <1>5, Zenon DEF Drop
    <3>3. dnd' \in [offer : Offers \union {None}, window : Windows \union {None},
                    payload : BOOLEAN, drop_pending : BOOLEAN, session : Nat]
      BY <1>1, <3>1 DEF HeldTypes
    <3>4. async' \in [fd : {"open", "closed"},
                      deadline : {"none", "running", "passed"}]
      BY <1>1, <3>2 DEF HeldTypes
    <3>5. UNCHANGED <<proxy, selection>>
      BY <1>5, Zenon DEF Drop
    <3>6. QED
      BY <1>1, <3>3, <3>4, <3>5 DEF HeldTypes
  <2>4. UNCHANGED <<meta, source, window, frame, flush, session, opened>>
    BY <1>5, Zenon DEF Drop
  <2>5. QED
    BY <1>1, <2>1, <2>2, <2>3, <2>4 DEF Types, OtherTypes
<1>6. CASE PointerFrame
  <2>1. flush' = 1 /\ frame' = frame /\ Len(frame) \in Nat \ {0}
    BY <1>1, <1>6, EmptySeq DEF PointerFrame, OtherTypes
  <2>2. flush' \in 0 .. Len(frame')
    BY <2>1
  <2>3. QED
    BY <1>1, <1>6, <2>1, <2>2 DEF Types, PointerFrame, HeldTypes, OtherTypes
<1>7. ASSUME NEW o \in Offers \union {None}, Selection(o) PROVE Types'
  <2>1. HeldTypes'
    <3>1. proxy' \in [Offers -> {"unused", "live", "destroyed"}]
      BY <1>1, <1>7 DEF Selection, HeldTypes
    <3>2. QED
      BY <1>1, <1>7, <3>1 DEF Selection, HeldTypes
  <2>2. OtherTypes'
    BY <1>1, <1>7 DEF Selection, OtherTypes
  <2>3. QED
    BY <2>1, <2>2 DEF Types
<1>8. QED
  BY <1>2, <1>3, <1>4, <1>5, <1>6, <1>7

LEMMA EnterTypes ==
  ASSUME Types, Drags, NEW w \in Windows \union {None}, Enter(w)
  PROVE  Types'
<1>1. HeldTypes /\ OtherTypes
  BY DEF Types
<1> DEFINE o == drag.offer
           fresh == EnterResets(o)
           target == IF Alive(w) /\ window[w].accept THEN w ELSE None
           s == session + 1
<1>2. o \in Offers /\ s \in Nat /\ target \in Windows \union {None}
  BY <1>1 DEF Enter, Drags, OtherTypes, DragTypes
<1>3. /\ proxy' = IF fresh THEN [proxy EXCEPT ![dnd.offer] = "destroyed"]
                  ELSE proxy
      /\ selection' = IF fresh /\ selection = dnd.offer THEN None ELSE selection
      /\ dnd' = [offer |-> o, window |-> target, payload |-> FALSE,
                 drop_pending |-> ~fresh /\ dnd.drop_pending,
                 session |-> IF target = None THEN 0 ELSE s]
      /\ UNCHANGED <<meta, frame, flush, opened, dropped>>
      /\ drag' = [drag EXCEPT !.phase = "over"]
  BY Zenon DEF Enter
<1>4. proxy' \in [Offers -> {"unused", "live", "destroyed"}]
  BY <1>1, <1>3 DEF HeldTypes
<1>5. selection' \in Offers \union {None}
  BY <1>1, <1>3 DEF HeldTypes
<1>6. dnd' \in [offer : Offers \union {None}, window : Windows \union {None},
                payload : BOOLEAN, drop_pending : BOOLEAN, session : Nat]
  <2>1. (~fresh /\ dnd.drop_pending) \in BOOLEAN
    OBVIOUS
  <2>2. (IF target = None THEN 0 ELSE s) \in Nat
    BY <1>2
  <2> HIDE DEF o, fresh, target, s
  <2>3. QED
    BY <1>2, <1>3, <2>1, <2>2
<1>7. async' \in [fd : {"open", "closed"}, deadline : {"none", "running", "passed"}]
  <2>1. \/ async' \in {async, NoAsync}
        \/ \E fd \in {"open", "closed"} : async' = [NoAsync EXCEPT !.fd = fd]
    BY DEF Enter, StartRead
  <2>2. QED
    BY <1>1, <2>1 DEF HeldTypes, NoAsync
<1>8. /\ source' \in {source, "open"}
      /\ session' \in {session, s}
      /\ window' \in WindowTypes
  <2>1. CASE target = None
    BY <1>1, <2>1 DEF Enter, OtherTypes
  <2>2. CASE target # None
    <3>1. /\ session' = s
          /\ window' = [window EXCEPT ![w].action = "copy", ![w].userdata = 0]
          /\ source' \in {source, "open"}
      BY <2>2 DEF Enter
    <3>2. window' \in WindowTypes
      <4>1. "copy" \in Actions
        BY DEF Actions
      <4>2. QED
        BY <1>1, <3>1, <4>1 DEF OtherTypes, WindowTypes
    <3>3. QED
      BY <3>1, <3>2
  <2>3. QED
    BY <2>1, <2>2
<1>9. drag' \in DragTypes
  BY <1>1, <1>3 DEF OtherTypes, DragTypes
<1>10. HeldTypes'
  BY <1>4, <1>5, <1>6, <1>7, Zenon DEF HeldTypes
<1>11. OtherTypes'
  BY <1>1, <1>2, <1>3, <1>8, <1>9 DEF OtherTypes
<1>12. QED
  BY <1>10, <1>11 DEF Types

LEMMA MotionTypes ==
  ASSUME Types, Motion PROVE Types'
<1>1. HeldTypes /\ OtherTypes
  BY DEF Types
<1>2. /\ UNCHANGED <<proxy, meta, dnd, selection, frame, flush, session, opened, dropped>>
      /\ drag' = [drag EXCEPT !.motions = @ + 1]
      /\ drag.motions < MaxMotions
  BY Zenon DEF Motion, historyVars
<1>3. drag' \in DragTypes
  BY <1>1, <1>2, MotionIsCounted, Zenon
<1>4. \/ async' = async
      \/ \E fd \in {"open", "closed"} : async' = [NoAsync EXCEPT !.fd = fd]
  BY DEF Motion, StartRead
<1>5. async' \in [fd : {"open", "closed"}, deadline : {"none", "running", "passed"}]
  BY <1>1, <1>4 DEF HeldTypes, NoAsync
<1>6. source' \in {source, "open"}
  BY DEF Motion
<1>7. window' \in WindowTypes
  <2>1. CASE dnd.window = None \/ dnd.offer = None \/ ~window[dnd.window].accept
    BY <1>1, <2>1 DEF Motion, OtherTypes
  <2>2. CASE ~(dnd.window = None \/ dnd.offer = None \/ ~window[dnd.window].accept)
    <3> DEFINE w == dnd.window
               m == meta[dnd.offer]
               a == IF m.selected = "none" THEN Negotiate(m.offered, window[w].action)
                    ELSE m.selected
    <3>1. window' = [window EXCEPT ![w].action = a]
      BY <2>2 DEF Motion
    <3>2. w \in Windows /\ dnd.offer \in Offers
      BY <1>1, <2>2 DEF HeldTypes
    <3>3. m.offered \in SUBSET Actions /\ m.selected \in Actions
          /\ window[w].action \in Actions
      BY <1>1, <3>2 DEF OtherTypes, WindowTypes
    <3>4. a \in Actions
      BY <3>3, NegotiateIsTyped
    <3> HIDE DEF a
    <3>5. QED
      BY <1>1, <3>1, <3>4 DEF OtherTypes, WindowTypes
  <2>3. QED
    BY <2>1, <2>2
<1>8. HeldTypes'
  BY <1>1, <1>2, <1>5, Zenon DEF HeldTypes
<1>9. OtherTypes'
  BY <1>1, <1>2, <1>3, <1>6, <1>7 DEF OtherTypes
<1>10. QED
  BY <1>8, <1>9 DEF Types

LEMMA ReadTypes ==
  ASSUME Types,
         \/ \E what \in {"files", "nothing"} : SourceCloses(what)
         \/ DeadlinePasses \/ TimeOut \/ ReadEnd \/ ReadFails
  PROVE  Types'
<1>1. CASE \E what \in {"files", "nothing"} : SourceCloses(what)
  <2>1. source' \in {"open", "files", "nothing"}
    BY <1>1 DEF SourceCloses
  <2>2. QED
    BY <1>1, <2>1
    DEF SourceCloses, Types, HeldTypes, OtherTypes, eventVars, historyVars
<1>2. CASE DeadlinePasses
  <2>1. async' \in [fd : {"open", "closed"}, deadline : {"none", "running", "passed"}]
    BY <1>2 DEF DeadlinePasses, Types, HeldTypes
  <2>2. QED
    BY <1>2, <2>1
    DEF DeadlinePasses, Types, HeldTypes, OtherTypes, eventVars, historyVars
<1>3. ASSUME NEW list \in BOOLEAN, Complete(list) PROVE Types'
  <2>1. async' \in [fd : {"open", "closed"}, deadline : {"none", "running", "passed"}]
    BY <1>3 DEF Complete, Types, HeldTypes
  <2>2. dnd' \in [offer : Offers \union {None}, window : Windows \union {None},
                  payload : BOOLEAN, drop_pending : BOOLEAN, session : Nat]
    <3> DEFINE T == [offer : Offers \union {None}, window : Windows \union {None},
                     payload : BOOLEAN, drop_pending : BOOLEAN, session : Nat]
    <3>1. \A d \in T, p \in BOOLEAN : [d EXCEPT !.payload = p] \in T
      OBVIOUS
    <3>2. dnd' = [dnd EXCEPT !.payload = list \/ @] /\ dnd \in T
      BY <1>3, Zenon DEF Complete, Types, HeldTypes
    <3>3. (list \/ dnd.payload) \in BOOLEAN
      OBVIOUS
    <3> HIDE DEF T
    <3>4. QED
      BY <3>1, <3>2, <3>3, Zenon DEF T
  <2>3. UNCHANGED <<proxy, selection, meta, source, window, frame, flush, drag,
                    session, opened, dropped>>
    BY <1>3, Zenon DEF Complete, historyVars
  <2>4. QED
    BY <2>1, <2>2, <2>3 DEF Types, HeldTypes, OtherTypes
<1>4. CASE TimeOut \/ ReadEnd \/ ReadFails
  <2>1. PayloadFrom(source) \in BOOLEAN
    BY DEF PayloadFrom
  <2>2. QED
    BY <1>3, <1>4, <2>1, Zenon DEF TimeOut, ReadEnd, ReadFails
<1>5. QED
  BY <1>1, <1>2, <1>4

LEMMA RestTypes ==
  ASSUME Types, Sessions, PushEvent \/ MaybeFinalize \/ Finish \/ FinalReset
  PROVE  Types'
<1> USE DEF handlerVars, historyVars
<1>1. CASE PushEvent
  <2>1. UNCHANGED <<proxy, meta, dnd, async, source, selection, window, drag,
                    session, opened, dropped>>
    BY <1>1, Zenon DEF PushEvent
  <2>2. HeldTypes'
    BY <2>1 DEF Types, HeldTypes
  <2>3. frame' \in Seq(Events) /\ Len(frame') <= FrameCap /\ flush' \in 0 .. Len(frame')
    <3>1. frame \in Seq(Events) /\ Len(frame) <= FrameCap /\ Len(frame) \in Nat
          /\ flush = 0 /\ FrameCap \in Nat \ {0}
      BY <1>1, DndAssumption DEF Types, OtherTypes, PushEvent
    <3>2. CASE FrameIsFull
      <4>1. flush' = 1 /\ frame' = frame /\ Len(frame) >= FrameCap
        BY <1>1, <3>2, Zenon DEF PushEvent, FrameIsFull
      <4>2. QED
        BY <3>1, <4>1
    <3>3. CASE ~FrameIsFull
      <4>1. frame' = Append(frame, Head(agenda).event) /\ flush' = flush
            /\ ~(Len(frame) >= FrameCap)
        BY <1>1, <3>3, Zenon DEF PushEvent, FrameIsFull
      <4>2. Head(agenda).event \in Events
        BY <1>1, Pushing, Zenon DEF PushEvent
      <4>3. QED
        BY <3>1, <4>1, <4>2
    <3>4. QED
      BY <3>2, <3>3
  <2>4. QED
    BY <2>1, <2>2, <2>3 DEF Types, OtherTypes
<1>2. CASE MaybeFinalize \/ Finish
  BY <1>2 DEF MaybeFinalize, Finish, Types, HeldTypes, OtherTypes
<1>3. CASE FinalReset
  <2>1. HeldTypes'
    BY <1>3, ResetIsTyped, Zenon DEF FinalReset
  <2>2. UNCHANGED <<meta, source, window, frame, flush, drag, session, opened, dropped>>
    BY <1>3, Zenon DEF FinalReset
  <2>3. QED
    BY <2>1, <2>2 DEF Types, OtherTypes
<1>4. QED
  BY <1>1, <1>2, <1>3

LEMMA ApplicationTypes ==
  ASSUME Types, Reads,
         \/ \E reaction \in Reactions : Deliver(reaction)
         \/ \E w \in Windows, accept \in Updates : AppUpdates(w, accept)
         \/ \E w \in Windows : AppDestroys(w)
  PROVE  Types'
<1>1. ASSUME NEW reaction \in Reactions, Deliver(reaction) PROVE Types'
  <2>1. flush \in 1 .. Len(frame) /\ frame \in Seq(Events) /\ Len(frame) \in Nat
    BY <1>1 DEF Deliver, Types, OtherTypes
  <2>2. frame[flush] \in Events
    BY <2>1
  <2>3. window' \in WindowTypes /\ (Reset \/ GoesOn)
    BY <1>1, <2>2, EffectOfReaction, Zenon DEF Deliver
  <2>4. HeldTypes'
    BY <2>3, ResetIsTyped, Zenon DEF GoesOn
  <2>5. opened' = After(opened, frame[flush])
    BY <1>1, Zenon DEF Deliver, After
  <2>6. opened' \in [Windows -> Nat]
    <3>1. opened \in [Windows -> Nat]
      BY DEF Types, OtherTypes
    <3>2. QED
      BY <2>2, <2>5, <3>1, AfterIsTyped, Zenon
  <2>7. \/ frame' = <<>> /\ flush' = 0
        \/ frame' = frame /\ flush' = flush + 1 /\ flush # Len(frame)
    BY <1>1, Zenon DEF Deliver
  <2>8. frame' \in Seq(Events) /\ Len(frame') <= FrameCap /\ flush' \in 0 .. Len(frame')
    <3>1. Len(frame) <= FrameCap /\ FrameCap \in Nat
      BY DndAssumption DEF Types, OtherTypes
    <3>2. CASE frame' = <<>> /\ flush' = 0
      <4>1. <<>> \in Seq(Events) /\ Len(<<>>) = 0 /\ 0 \in 0 .. 0 /\ 0 <= FrameCap
        BY <3>1
      <4>2. QED
        BY <3>2, <4>1, Zenon
    <3>3. CASE frame' = frame /\ flush' = flush + 1 /\ flush # Len(frame)
      <4>1. flush + 1 \in 0 .. Len(frame)
        BY <2>1, <3>3, SMT
      <4>2. QED
        BY <2>1, <3>1, <3>3, <4>1, Zenon
    <3>4. QED
      BY <2>7, <3>2, <3>3
  <2>9. UNCHANGED <<meta, source, drag, session, dropped>>
    BY <1>1, Zenon DEF Deliver
  <2>10. QED
    BY <2>3, <2>4, <2>6, <2>8, <2>9 DEF Types, OtherTypes
<1>2. ASSUME window' \in WindowTypes, Reset \/ GoesOn,
             UNCHANGED <<meta, source, frame, flush, drag, session, opened, dropped>>
      PROVE  Types'
  <2>1. HeldTypes'
    BY <1>2, ResetIsTyped, Zenon DEF GoesOn
  <2>2. QED
    BY <1>2, <2>1 DEF Types, OtherTypes
<1>3. ASSUME NEW w \in Windows, NEW accept \in Updates, AppUpdates(w, accept)
      PROVE  Types'
  <2>1. accept \in BOOLEAN
    BY DndAssumption
  <2>2. SetAccept(w, accept)
        /\ UNCHANGED <<meta, source, frame, flush, drag, session, opened, dropped>>
    BY <1>3, Zenon DEF AppUpdates, eventVars, historyVars
  <2>3. QED
    BY <1>2, <2>1, <2>2, EffectOfAccept, Zenon
<1>4. ASSUME NEW w \in Windows, AppDestroys(w) PROVE Types'
  <2>1. Destroy(w)
        /\ UNCHANGED <<meta, source, frame, flush, drag, session, opened, dropped>>
    BY <1>4, Zenon DEF AppDestroys, eventVars, historyVars
  <2>2. QED
    BY <1>2, <2>1, EffectOfDestroy, Zenon
<1>5. QED
  BY <1>1, <1>3, <1>4

LEMMA NextTypes ==
  ASSUME IInv, [Next]_vars PROVE Types'
<1>1. CASE UNCHANGED vars
  BY <1>1
  DEF IInv, Types, HeldTypes, OtherTypes, vars, handlerVars, eventVars, historyVars
<1>2. CASE Next
  BY <1>2, MessageTypes, EnterTypes, MotionTypes, ReadTypes, RestTypes,
     ApplicationTypes, Zenon
  DEF Next, CompositorStep, PumpStep, IInv, Owned
<1>3. QED
  BY <1>1, <1>2

----------------------------------------------------------------------------
(* Offers and pipes.                                                       *)

\* Nothing that Owned speaks of changes, but whether a pipe is read less.
LEMMA QuietOwned ==
  ASSUME Owned, UNCHANGED <<proxy, selection, window, dropped>>,
         dnd'.offer = dnd.offer, dnd'.window = dnd.window,
         dnd'.drop_pending = dnd.drop_pending,
         async'.fd = async.fd \/ async'.fd = "closed",
         drag'.phase = drag.phase, drag'.offer = drag.offer
  PROVE  Owned'
<1>1. OffersAreLive'
  BY Zenon DEF Owned, OffersAreLive
<1>2. NoOfferIsLeaked'
  BY Zenon DEF Owned, NoOfferIsLeaked
<1>3. Drags'
  BY Zenon DEF Owned, Drags
<1>4. Reads'
  BY Zenon DEF Owned, Reads
<1>5. QED
  BY <1>1, <1>2, <1>3, <1>4, Zenon DEF Owned

LEMMA ResetOwned ==
  ASSUME Types, Owned, Reset, UNCHANGED <<drag, dropped>>
  PROVE  Owned'
<1>1. /\ dnd'.offer = None /\ dnd'.window = None /\ dnd'.drop_pending = FALSE
      /\ async'.fd = "closed"
      /\ selection' = selection \/ selection' = None
  BY DEF Reset, NoDnd, NoAsync
<1>2. dnd.offer \notin {None} => dnd.offer \in Offers
  BY DEF Types, HeldTypes
<1>3. /\ \A o \in Offers : o # dnd.offer => proxy'[o] = proxy[o]
      /\ dnd.offer # None => proxy'[dnd.offer] = "destroyed"
  BY <1>2 DEF Types, HeldTypes, Reset
<1>4. selection' # None =>
        selection' = selection /\ selection \in Offers /\ selection # dnd.offer
  <2>1. selection # None => selection \in Offers
    BY DEF Types, HeldTypes
  <2>2. QED
    BY <1>1, <2>1, Zenon DEF Owned, Drags
<1>5. OffersAreLive'
  BY <1>1, <1>3, <1>4, Zenon DEF Owned, OffersAreLive
<1>6. NoOfferIsLeaked'
  <2>1. selection' # selection => selection = dnd.offer
    BY Zenon DEF Reset
  <2>2. ASSUME NEW o \in Offers, proxy'[o] = "live"
        PROVE  o \in {dnd'.offer, selection'} \/ (drag.phase = "offered" /\ drag.offer = o)
    <3>1. o # dnd.offer
      BY <1>3, <2>2, DndAssumption
    <3>2. proxy[o] = "live"
      BY <1>3, <2>2, <3>1
    <3>3. o \in {dnd.offer, selection} \/ (drag.phase = "offered" /\ drag.offer = o)
      BY <3>2, Zenon DEF Owned, NoOfferIsLeaked
    <3>4. QED
      BY <2>1, <3>1, <3>3, Zenon
  <2>3. QED
    BY <2>2, Zenon DEF NoOfferIsLeaked
<1>7. Drags'
  <2>1. drag.phase = "offered" =>
          /\ proxy'[drag.offer] = "live"
          /\ drag.offer # None
          /\ drag.offer # selection'
    <3>1. drag.phase = "offered" =>
            /\ proxy[drag.offer] = "live"
            /\ drag.offer # dnd.offer
            /\ drag.offer # selection
            /\ drag.offer \in Offers
      BY DEF Owned, Drags
    <3>2. QED
      BY <1>1, <1>3, <3>1, DndAssumption
  <2>2. QED
    BY <1>1, <2>1, Zenon DEF Owned, Drags
<1>8. Reads'
  BY <1>1 DEF Reads
<1>9. QED
  BY <1>5, <1>6, <1>7, <1>8 DEF Owned

LEMMA GoesOnOwned ==
  ASSUME Owned, GoesOn, UNCHANGED <<drag, dropped>>
  PROVE  Owned'
<1>1. UNCHANGED <<proxy, dnd, async, selection, drag, dropped>>
  BY DEF GoesOn
<1>2. OffersAreLive' /\ NoOfferIsLeaked' /\ Drags'
  BY <1>1, Zenon DEF Owned, OffersAreLive, NoOfferIsLeaked, Drags
<1>3. Reads'
  BY <1>1, Zenon DEF Owned, Reads, GoesOn
<1>4. QED
  BY <1>2, <1>3 DEF Owned

LEMMA OfferOwned ==
  ASSUME Types, Owned, NEW o \in Offers, NEW uri \in BOOLEAN,
         NEW offered \in {{"copy"}, {"move"}}, DataOffer(o, uri, offered)
  PROVE  Owned'
<1>1. /\ UNCHANGED <<dnd, async, selection, window, dropped>>
      /\ drag'.phase = "offered" /\ drag'.offer = o
      /\ drag.phase \in {"none", "dropped"}
      /\ proxy[o] = "unused"
  BY DEF DataOffer, historyVars
<1>2. proxy'[o] = "live" /\ \A x \in Offers : x # o => proxy'[x] = proxy[x]
  BY DEF DataOffer, Types, HeldTypes
<1>3. dnd.offer # None => dnd.offer \in Offers /\ dnd.offer # o
  BY <1>1 DEF Types, HeldTypes, Owned, OffersAreLive
<1>4. selection # None => selection \in Offers /\ selection # o
  BY <1>1 DEF Types, HeldTypes, Owned, OffersAreLive
<1>5. OffersAreLive'
  BY <1>1, <1>2, <1>3, <1>4, Zenon DEF Owned, OffersAreLive
<1>6. NoOfferIsLeaked'
  <2>1. drag.phase # "offered"
    BY <1>1
  <2>2. QED
    BY <1>1, <1>2, <2>1, Zenon DEF Owned, NoOfferIsLeaked
<1>7. Drags'
  BY <1>1, <1>2, <1>3, <1>4, DndAssumption DEF Owned, Drags
<1>8. Reads'
  BY <1>1, Zenon DEF Owned, Reads
<1>9. QED
  BY <1>5, <1>6, <1>7, <1>8 DEF Owned

LEMMA SelectionOwned ==
  ASSUME Types, Owned, NEW o \in Offers \union {None}, Selection(o)
  PROVE  Owned'
<1>1. /\ UNCHANGED <<dnd, async, window, drag, dropped>>
      /\ selection' = o
      /\ o \in Offers => proxy[o] = "unused"
  BY Zenon DEF Selection, historyVars
<1>2. \A x \in Offers :
        /\ x = o => proxy'[x] = "live"
        /\ x # o /\ x = selection /\ x # dnd.offer => proxy'[x] = "destroyed"
        /\ x # o /\ ~(x = selection /\ x # dnd.offer) => proxy'[x] = proxy[x]
  <2>1. ASSUME NEW x \in Offers
        PROVE  proxy'[x] = CASE x = o                           -> "live"
                             [] x = selection /\ x # dnd.offer -> "destroyed"
                             [] OTHER                           -> proxy[x]
    BY Zenon DEF Selection
  <2>2. o \in Offers => o # selection
    BY <1>1, DndAssumption DEF Owned, OffersAreLive
  <2>3. SUFFICES ASSUME NEW x \in Offers
        PROVE  /\ x = o => proxy'[x] = "live"
               /\ x # o /\ x = selection /\ x # dnd.offer =>
                    proxy'[x] = "destroyed"
               /\ x # o /\ ~(x = selection /\ x # dnd.offer) =>
                    proxy'[x] = proxy[x]
    BY Zenon
  <2>4. x = o => x # selection
    BY <2>2
  <2>5. QED
    BY <2>1, <2>4
<1>3. dnd.offer # None => dnd.offer \in Offers /\ dnd.offer # o
  BY <1>1 DEF Types, HeldTypes, Owned, OffersAreLive
<1>4. drag.phase = "offered" =>
        drag.offer \in Offers /\ drag.offer # o /\ drag.offer # selection
        /\ proxy[drag.offer] = "live" /\ drag.offer # dnd.offer
  BY <1>1 DEF Owned, Drags
<1>5. o # None => o \in Offers
  OBVIOUS
<1>6. OffersAreLive'
  BY <1>1, <1>2, <1>3, <1>5, Zenon DEF Owned, OffersAreLive
<1>7. NoOfferIsLeaked'
  <2>1. ASSUME NEW x \in Offers, proxy'[x] = "live"
        PROVE  x \in {dnd.offer, o} \/ (drag.phase = "offered" /\ drag.offer = x)
    <3>1. CASE x = o
      BY <3>1
    <3>2. CASE x # o
      <4>1. ~(x = selection /\ x # dnd.offer) /\ proxy[x] = "live"
        BY <1>2, <2>1, <3>2
      <4>2. x \in {dnd.offer, selection} \/ (drag.phase = "offered" /\ drag.offer = x)
        BY <4>1, Zenon DEF Owned, NoOfferIsLeaked
      <4>3. QED
        BY <4>1, <4>2
    <3>3. QED
      BY <3>1, <3>2
  <2>2. QED
    BY <1>1, <2>1, Zenon DEF NoOfferIsLeaked
<1>8. Drags'
  <2>1. drag.phase = "offered" => proxy'[drag.offer] = "live"
    BY <1>2, <1>4, Zenon
  <2>2. o # None => o # dnd.offer
    BY <1>3, <1>5, DndAssumption
  <2>3. QED
    BY <1>1, <1>4, <2>1, <2>2, Zenon DEF Owned, Drags
<1>9. Reads'
  BY <1>1, Zenon DEF Owned, Reads
<1>10. QED
  BY <1>6, <1>7, <1>8, <1>9 DEF Owned

\* Between messages a drop waits for the pipe only.
LEMMA PendingReads ==
  ASSUME Sessions, ~Busy, dnd.drop_pending PROVE async.fd = "open"
<1>1. agenda = <<>>
  BY DEF Busy
<1>2. PICK op \in [Windows -> Nat], r \in Rests : Waits(r) /\ agenda = r
  BY <1>1, Resting, Zenon
<1>3. QED
  BY <1>1, <1>2, Zenon DEF Waits

LEMMA EnterOwned ==
  ASSUME Types, Owned, Sessions, NEW w \in Windows \union {None}, Enter(w)
  PROVE  Owned'
<1> DEFINE o == drag.offer
           fresh == EnterResets(o)
           target == IF Alive(w) /\ window[w].accept THEN w ELSE None
<1>1. /\ proxy' = IF fresh THEN [proxy EXCEPT ![dnd.offer] = "destroyed"]
                  ELSE proxy
      /\ selection' = IF fresh /\ selection = dnd.offer THEN None ELSE selection
      /\ dnd' = [offer |-> o, window |-> target, payload |-> FALSE,
                 drop_pending |-> ~fresh /\ dnd.drop_pending,
                 session |-> IF target = None THEN 0 ELSE session + 1]
      /\ drag' = [drag EXCEPT !.phase = "over"]
      /\ dropped' = dropped
      /\ drag.phase = "offered"
      /\ ~Busy
  BY Zenon DEF Enter
<1>2. /\ o \in Offers /\ proxy[o] = "live" /\ o # dnd.offer /\ o # selection
      /\ o # None
  BY <1>1, DndAssumption DEF Owned, Drags
<1>3. fresh <=> dnd.offer # None
  BY <1>2, Zenon DEF EnterResets
<1>4. /\ dnd.offer # None => dnd.offer \in Offers
      /\ selection # None => selection \in Offers /\ selection # dnd.offer
  BY DEF Types, HeldTypes, Owned, Drags
<1>5. /\ dnd.offer # None => proxy'[dnd.offer] = "destroyed"
      /\ \A x \in Offers : x # dnd.offer => proxy'[x] = proxy[x]
  BY <1>1, <1>3, <1>4 DEF Types, HeldTypes
<1>6. selection' = selection
  BY <1>1, <1>3, <1>4, Zenon
<1>7. /\ dnd'.offer = o /\ dnd'.window = target /\ ~dnd'.drop_pending
      /\ drag'.phase = "over" /\ drag'.offer = o
  <2>1. dnd'.drop_pending = (~fresh /\ dnd.drop_pending)
    BY <1>1
  <2>2. ~(~fresh /\ dnd.drop_pending)
    <3>1. ASSUME ~fresh, dnd.drop_pending PROVE FALSE
      <4>1. dnd.offer = None /\ async.fd = "open"
        BY <1>1, <1>3, <3>1, PendingReads
      <4>2. QED
        BY <4>1 DEF Owned, Reads
    <3>2. QED
      BY <3>1
  <2>3. dnd'.offer = o /\ dnd'.window = target
    BY <1>1
  <2>4. drag'.phase = "over" /\ drag'.offer = o
    BY <1>1 DEF Types, OtherTypes, DragTypes
  <2>5. QED
    BY <2>1, <2>2, <2>3, <2>4, Zenon
<1>8. OffersAreLive'
  <2>1. selection # None => proxy'[selection] = "live"
    BY <1>4, <1>5, Zenon DEF Owned, OffersAreLive
  <2>2. proxy'[o] = "live"
    BY <1>2, <1>5, Zenon
  <2>3. QED
    BY <1>6, <1>7, <2>1, <2>2, Zenon DEF OffersAreLive
<1>9. NoOfferIsLeaked'
  <2>1. ASSUME NEW x \in Offers, proxy'[x] = "live" PROVE x \in {o, selection}
    <3>1. x # dnd.offer
      BY <1>5, <2>1, DndAssumption
    <3>2. proxy[x] = "live"
      BY <1>5, <2>1, <3>1
    <3>3. QED
      BY <3>1, <3>2, Zenon DEF Owned, NoOfferIsLeaked
  <2>2. QED
    BY <1>6, <1>7, <2>1, Zenon DEF NoOfferIsLeaked
<1>10. Drags'
  BY <1>2, <1>6, <1>7, Zenon DEF Drags
<1>11. Reads'
  <2>1. CASE target = None
    <3>1. async' = IF fresh THEN NoAsync ELSE async
      BY <2>1, Zenon DEF Enter
    <3>2. NoAsync.fd = "closed"
      BY DEF NoAsync
    <3>3. async'.fd # "open"
      BY <1>3, <3>1, <3>2 DEF Owned, Reads
    <3>4. QED
      BY <1>7, <2>1, <3>3, Zenon DEF Reads
  <2>2. CASE target # None
    <3>1. target = w /\ w \in Windows /\ window[w].alive /\ window[w].accept
      BY <2>2 DEF Alive
    <3>2. window' = [window EXCEPT ![w].action = "copy", ![w].userdata = 0]
      BY <2>2, Zenon DEF Enter
    <3>3. window'[w].alive = window[w].alive /\ window'[w].accept = window[w].accept
      BY <3>1, <3>2 DEF Types, OtherTypes, WindowTypes
    <3>4. QED
      BY <1>2, <1>7, <2>2, <3>1, <3>3, Zenon DEF Reads
  <2>3. QED
    BY <2>1, <2>2
<1>12. QED
  BY <1>8, <1>9, <1>10, <1>11 DEF Owned

LEMMA MotionOwned ==
  ASSUME Types, Owned, Motion PROVE Owned'
<1>1. /\ UNCHANGED <<proxy, dnd, selection, dropped>>
      /\ drag' = [drag EXCEPT !.motions = @ + 1]
  BY Zenon DEF Motion, historyVars
<1>2. drag'.phase = drag.phase /\ drag'.offer = drag.offer
  BY <1>1 DEF Types, OtherTypes, DragTypes
<1>3. OffersAreLive' /\ NoOfferIsLeaked' /\ Drags'
  BY <1>1, <1>2, Zenon DEF Owned, OffersAreLive, NoOfferIsLeaked, Drags
<1>4. Reads'
  <2>1. CASE dnd.window = None \/ dnd.offer = None \/ ~window[dnd.window].accept
    BY <1>1, <2>1, Zenon DEF Motion, Owned, Reads
  <2>2. CASE ~(dnd.window = None \/ dnd.offer = None \/ ~window[dnd.window].accept)
    <3>1. \E a : window' = [window EXCEPT ![dnd.window].action = a]
      BY <2>2, Zenon DEF Motion
    <3>2. dnd.window \in Windows
      BY <2>2 DEF Types, HeldTypes
    <3>3. /\ window'[dnd.window].alive = window[dnd.window].alive
          /\ window'[dnd.window].accept = window[dnd.window].accept
      BY <3>1, <3>2 DEF Types, OtherTypes, WindowTypes
    <3>4. QED
      BY <1>1, <2>2, <3>3, Zenon DEF Owned, Reads
  <2>3. QED
    BY <2>1, <2>2
<1>5. QED
  BY <1>3, <1>4 DEF Owned

LEMMA LeaveOwned ==
  ASSUME Owned, Leave PROVE Owned'
<1>1. /\ UNCHANGED <<proxy, dnd, async, selection, window, dropped>>
      /\ drag.phase # "offered" /\ drag'.phase = "none"
  BY DEF Leave, NoDrag, handlerVars, historyVars
<1>2. QED
  BY <1>1 DEF Owned, OffersAreLive, NoOfferIsLeaked, Drags, Reads

LEMMA DropOwned ==
  ASSUME Types, Owned, Drop PROVE Owned'
<1>1. /\ UNCHANGED <<proxy, selection, window>>
      /\ drag.phase = "over" /\ drag' = [drag EXCEPT !.phase = "dropped"]
      /\ dropped' = dropped \union {drag.offer}
      /\ \/ async.fd = "open" /\ dnd' = [dnd EXCEPT !.drop_pending = TRUE]
            /\ async' = [async EXCEPT !.deadline = "running"]
         \/ UNCHANGED <<dnd, async>>
  BY Zenon DEF Drop
<1>2. drag'.phase = "dropped" /\ drag'.offer = drag.offer
  BY <1>1 DEF Types, OtherTypes, DragTypes
<1>3. async'.fd = async.fd
  BY <1>1 DEF Types, HeldTypes
<1>4. dnd'.offer = dnd.offer /\ dnd'.window = dnd.window
  BY <1>1 DEF Types, HeldTypes
<1>5. OffersAreLive'
  BY <1>1, <1>4, Zenon DEF Owned, OffersAreLive
<1>6. NoOfferIsLeaked'
  BY <1>1, <1>4 DEF Owned, NoOfferIsLeaked
<1>7. Drags'
  <2>1. dnd'.drop_pending => async.fd = "open" \/ dnd.drop_pending
    BY <1>1, Zenon
  <2>2. dnd'.drop_pending => dnd.offer \in dropped'
    BY <1>1, <2>1 DEF Owned, Drags, Reads
  <2>3. QED
    BY <1>1, <1>2, <1>4, <2>2 DEF Owned, Drags
<1>8. Reads'
  BY <1>1, <1>3, <1>4, Zenon DEF Owned, Reads
<1>9. QED
  BY <1>5, <1>6, <1>7, <1>8 DEF Owned

LEMMA ReadOwned ==
  ASSUME Types, Owned,
         \/ \E what \in {"files", "nothing"} : SourceCloses(what)
         \/ DeadlinePasses \/ TimeOut \/ ReadEnd \/ ReadFails
         \/ PushEvent \/ MaybeFinalize \/ Finish \/ PointerFrame
         \/ \E a \in Actions : SelectAction(a)
         \/ UNCHANGED vars
  PROVE  Owned'
<1> USE DEF vars, handlerVars, historyVars
<1>1. CASE \/ \E what \in {"files", "nothing"} : SourceCloses(what)
           \/ PushEvent \/ MaybeFinalize \/ Finish \/ PointerFrame
           \/ UNCHANGED vars
  <2>1. UNCHANGED <<proxy, dnd, async, selection, window, drag, dropped>>
    BY <1>1, Zenon DEF SourceCloses, PushEvent, MaybeFinalize, Finish, PointerFrame
  <2>2. QED
    BY <2>1, QuietOwned, Zenon
<1>2. CASE DeadlinePasses
  <2>1. UNCHANGED <<proxy, dnd, selection, window, drag, dropped>>
    BY <1>2, Zenon DEF DeadlinePasses
  <2>2. async'.fd = async.fd
    BY <1>2 DEF DeadlinePasses, Types, HeldTypes
  <2>3. QED
    BY <2>1, <2>2, QuietOwned, Zenon
<1>3. ASSUME NEW list, Complete(list) PROVE Owned'
  <2>1. UNCHANGED <<proxy, selection, window, drag, dropped>>
    BY <1>3, Zenon DEF Complete
  <2>2. async'.fd = "closed"
    BY <1>3 DEF Complete, Types, HeldTypes
  <2>3. /\ dnd'.offer = dnd.offer /\ dnd'.window = dnd.window
        /\ dnd'.drop_pending = dnd.drop_pending
    BY <1>3 DEF Complete, Types, HeldTypes
  <2>4. QED
    BY <2>1, <2>2, <2>3, QuietOwned, Zenon
<1>4. CASE TimeOut \/ ReadEnd \/ ReadFails
  BY <1>3, <1>4, Zenon DEF TimeOut, ReadEnd, ReadFails
<1>5. ASSUME NEW a \in Actions, SelectAction(a) PROVE Owned'
  <2>1. UNCHANGED <<proxy, dnd, async, selection, window, dropped>>
    BY <1>5, Zenon DEF SelectAction
  <2>2. drag'.phase = drag.phase /\ drag'.offer = drag.offer
    BY <1>5 DEF SelectAction, Types, OtherTypes, DragTypes
  <2>3. QED
    BY <2>1, <2>2, QuietOwned, Zenon
<1>6. QED
  BY <1>1, <1>2, <1>4, <1>5

LEMMA ApplicationOwned ==
  ASSUME Types, Owned,
         \/ FinalReset
         \/ \E reaction \in Reactions : Deliver(reaction)
         \/ \E w \in Windows, accept \in Updates : AppUpdates(w, accept)
         \/ \E w \in Windows : AppDestroys(w)
  PROVE  Owned'
<1>1. (Reset \/ GoesOn) /\ UNCHANGED <<drag, dropped>>
  <2>1. CASE FinalReset
    BY <2>1, Zenon DEF FinalReset, historyVars
  <2>2. ASSUME NEW reaction \in Reactions, Deliver(reaction)
        PROVE  (Reset \/ GoesOn) /\ UNCHANGED <<drag, dropped>>
    <3>1. flush \in 1 .. Len(frame) /\ frame \in Seq(Events)
      BY <2>2 DEF Deliver, Types, OtherTypes
    <3>2. frame[flush] \in Events
      BY <3>1
    <3>3. QED
      BY <2>2, <3>2, EffectOfReaction, Zenon DEF Deliver, Owned
  <2>3. ASSUME NEW w \in Windows, NEW accept \in Updates, AppUpdates(w, accept)
        PROVE  (Reset \/ GoesOn) /\ UNCHANGED <<drag, dropped>>
    <3>1. accept \in BOOLEAN
      BY DndAssumption
    <3>2. QED
      BY <2>3, <3>1, EffectOfAccept, Zenon DEF AppUpdates, historyVars, Owned
  <2>4. ASSUME NEW w \in Windows, AppDestroys(w)
        PROVE  (Reset \/ GoesOn) /\ UNCHANGED <<drag, dropped>>
    BY <2>4, EffectOfDestroy, Zenon DEF AppDestroys, historyVars
  <2>5. QED
    BY <2>1, <2>2, <2>3, <2>4
<1>2. QED
  BY <1>1, ResetOwned, GoesOnOwned, Zenon

LEMMA NextOwned ==
  ASSUME IInv, [Next]_vars PROVE Owned'
BY OfferOwned, EnterOwned, MotionOwned, LeaveOwned, DropOwned, SelectionOwned,
   ReadOwned, ApplicationOwned, Zenon
DEF Next, CompositorStep, PumpStep, IInv

----------------------------------------------------------------------------
(* Sessions and endings.                                                   *)

LEMMA EventShape ==
  ASSUME Types, dnd.window # None, NEW payload \in BOOLEAN,
         NEW type \in {"enter", "hover", "leave", "drop"}
  PROVE  /\ Event(type, payload) \in Events
         /\ Event(type, payload).type = type
         /\ Event(type, payload).window = dnd.window
         /\ Event(type, payload).session = dnd.session
BY DEF Types, HeldTypes, Event, Events

\* Neither the drag nor what the handler has still to do changes.
LEMMA QuietSessions ==
  ASSUME Sessions, UNCHANGED agenda,
         \A op \in [Windows -> Nat] : Leads(op) => Leads(op)',
         dnd'.offer = dnd.offer, dnd'.window = dnd.window,
         dnd'.session = dnd.session,
         dnd'.drop_pending => dnd.drop_pending \/ async'.fd = "open",
         async'.fd = async.fd, dropped \subseteq dropped'
  PROVE  Sessions'
<1>1. PICK op \in [Windows -> Nat], r \in Rests :
        Leads(op) /\ Ahead(op, r) /\ Waits(r)
  BY DEF Sessions
<1>2. Ahead(op, r)'
  BY <1>1, Zenon DEF Ahead, Current
<1>3. Waits(r)'
  BY <1>1 DEF Waits
<1>4. QED
  BY <1>1, <1>2, <1>3, Zenon DEF Sessions

\* The drag ends or goes on, and the handler with it.
LEMMA ApplicationSessions ==
  ASSUME Sessions, Reset \/ GoesOn, UNCHANGED <<agenda, dropped>>,
         \A op \in [Windows -> Nat] : Leads(op) => Leads(op)'
  PROVE  Sessions'
<1>1. CASE GoesOn
  <2>1. UNCHANGED <<dnd, async>>
    BY <1>1, Zenon DEF GoesOn
  <2>2. QED
    BY <2>1, QuietSessions, Zenon
<1>2. CASE Reset
  <2>1. /\ dnd'.offer = None /\ dnd'.window = None /\ dnd'.drop_pending = FALSE
    BY <1>2 DEF Reset, NoDnd
  <2>2. PICK op \in [Windows -> Nat], r \in Rests :
          Leads(op) /\ Ahead(op, r) /\ Waits(r)
    BY DEF Sessions
  <2>3. Ahead(op, r)'
    BY <2>1, <2>2, Zenon DEF Ahead, Current
  <2>4. Waits(r)'
    BY <2>1 DEF Waits
  <2>5. QED
    BY <2>2, <2>3, <2>4, Zenon DEF Sessions
<1>3. QED
  BY <1>1, <1>2

\* An event is pushed, or not, and the handler ends with r.
LEMMA HandlerSessions ==
  ASSUME UNCHANGED <<frame, flush, opened>>,
         NEW op \in [Windows -> Nat], Leads(op), NEW r \in Rests, Waits(r)',
         \/ agenda' = r /\ Current(op, r)'
         \/ \E e \in Events : /\ agenda' = <<Push(e)>> \o r
                              /\ Fits(op, e)
                              /\ Current(After(op, e), r)'
  PROVE  Sessions'
<1>1. Leads(op)'
  BY LeadsStays, Zenon
<1>2. Ahead(op, r)'
  BY Zenon DEF Ahead
<1>3. QED
  BY <1>1, <1>2, Zenon DEF Sessions

LEMMA FinalizeShape ==
  ASSUME Types, Reads
  PROVE  \/ dnd.window = None /\ Finalize = ToReset
         \/ /\ dnd.window # None
            /\ \E e \in Events, r \in {ToReset, ToFinish} :
                 /\ e.type = "drop" /\ e.window = dnd.window
                 /\ e.session = dnd.session
                 /\ Finalize = <<Push(e)>> \o r
<1> DEFINE w == dnd.window
           accepting == w # None /\ window[w].accept
           finish == /\ dnd.offer # None
                     /\ accepting
                     /\ dnd.payload
                     /\ window[w].action # "none"
           e == Event("drop", dnd.payload)
           r == IF finish THEN ToFinish ELSE ToReset
<1>1. Finalize = (IF accepting THEN <<Push(e)>> ELSE <<>>) \o r
  BY Zenon DEF Finalize, ToFinish, ToReset
<1>2. r \in {ToReset, ToFinish} /\ r \in Rests
  BY DEF Rests
<1>3. CASE w = None
  <2>1. ~accepting /\ r = ToReset
    BY <1>3
  <2> HIDE DEF accepting, r, e
  <2>2. QED
    BY <1>1, <1>2, <1>3, <2>1, RestShapes, Zenon
<1>4. CASE w # None
  <2>1. accepting
    BY <1>4 DEF Reads
  <2>2. dnd.payload \in BOOLEAN
    BY DEF Types, HeldTypes
  <2>3. /\ e \in Events /\ e.type = "drop" /\ e.window = dnd.window
        /\ e.session = dnd.session
    BY <1>4, <2>2, EventShape
  <2> HIDE DEF accepting, r, e
  <2>4. QED
    BY <1>1, <1>2, <1>4, <2>1, <2>3, Zenon
<1>5. QED
  BY <1>3, <1>4

\* The end of a drop.
LEMMA FinalizeSessions ==
  ASSUME Types, Reads, NEW op \in [Windows -> Nat], Leads(op), Current(op, <<>>),
         agenda' = Finalize, UNCHANGED <<dnd, frame, flush, opened>>,
         dnd.offer \in dropped' \union {None}
  PROVE  Sessions'
<1>1. \A r \in {ToReset, ToFinish} :
        r \in Rests /\ r # <<>> /\ \A x : Current(x, r)' 
  BY RestShapes, RestsDiffer, Zenon DEF Rests, Current
<1>2. \A r \in {ToReset, ToFinish} : Waits(r)'
  BY <1>1, Zenon DEF Waits
<1>3. CASE dnd.window = None /\ Finalize = ToReset
  BY <1>1, <1>2, <1>3, HandlerSessions, Zenon
<1>4. ASSUME NEW e \in Events, NEW r \in {ToReset, ToFinish},
             dnd.window # None, e.type = "drop", e.window = dnd.window,
             e.session = dnd.session, Finalize = <<Push(e)>> \o r
      PROVE  Sessions'
  <2>1. Fits(op, e)
    BY <1>4, Zenon DEF Fits, Current
  <2>2. QED
    BY <1>1, <1>2, <1>4, <2>1, HandlerSessions, Zenon
<1>5. QED
  BY <1>3, <1>4, FinalizeShape, Zenon

\* A handler starts from an empty agenda: the drag's session is then open.
LEMMA Idle ==
  ASSUME Sessions, ~Busy
  PROVE  /\ agenda = <<>>
         /\ \E op \in [Windows -> Nat] :
              Leads(op) /\ Current(op, <<>>) /\ Waits(<<>>)
<1>1. agenda = <<>>
  BY DEF Busy
<1>2. QED
  BY <1>1, Resting DEF Busy

LEMMA EnterSessions ==
  ASSUME Types, Owned, Sessions, NEW w \in Windows \union {None}, Enter(w)
  PROVE  Sessions'
<1> DEFINE target == IF Alive(w) /\ window[w].accept THEN w ELSE None
           s == session + 1
           fresh == EnterResets(drag.offer)
<1>1. PICK op \in [Windows -> Nat] : Leads(op)
  BY DEF Sessions
<1>2. agenda = <<>> /\ <<>> \in Rests /\ UNCHANGED <<frame, flush, opened>>
  BY Zenon DEF Enter, Busy, Rests
<1>3. dnd' = [offer |-> drag.offer, window |-> target, payload |-> FALSE,
              drop_pending |-> ~fresh /\ dnd.drop_pending,
              session |-> IF target = None THEN 0 ELSE s]
  BY Zenon DEF Enter
<1>4. dnd'.window = target /\ dnd'.session = IF target = None THEN 0 ELSE s
  BY <1>3
<1>5. ~dnd'.drop_pending
  <2>1. Owned' /\ drag'.phase = "over"
    BY EnterOwned DEF Enter, Types, OtherTypes, DragTypes
  <2>2. QED
    BY <2>1 DEF Owned, Drags
<1>6. Waits(<<>>)'
  BY <1>5, RestsDiffer, Zenon DEF Waits
<1>7. CASE target = None
  <2>1. agenda' = <<>>
    BY <1>2, <1>7, Zenon DEF Enter
  <2>2. Current(op, <<>>)'
    BY <1>4, <1>7, Zenon DEF Current
  <2>3. QED
    BY <1>1, <1>2, <1>6, <2>1, <2>2, HandlerSessions, Zenon
<1>8. CASE target # None
  <2>1. PICK e : e = [type |-> "enter", window |-> w, session |-> s, paths |-> FALSE]
    OBVIOUS
  <2>2. target = w /\ w \in Windows
    BY <1>8 DEF Alive
  <2>3. /\ e \in Events /\ e.type = "enter" /\ e.window = w /\ e.session = s
    BY <2>1, <2>2 DEF Types, OtherTypes, Events
  <2>4. agenda' = <<Push(e)>>
    BY <1>8, <2>1, Zenon DEF Enter
  <2>5. agenda' = <<Push(e)>> \o <<>>
    BY <2>4
  <2>6. After(op, e) = [op EXCEPT ![w] = s]
    BY <2>3, Zenon DEF After
  <2>7. After(op, e)[w] = s
    BY <2>2, <2>6, Zenon
  <2>8. dnd'.window = w /\ dnd'.session = s
    BY <1>4, <1>8, <2>2, Zenon
  <2>9. Current(After(op, e), <<>>)'
    BY <2>7, <2>8, Zenon DEF Current
  <2>10. Fits(op, e)
    BY <2>3, Zenon DEF Fits
  <2>11. QED
    BY <1>1, <1>2, <1>6, <2>3, <2>5, <2>9, <2>10, HandlerSessions, Zenon
<1>9. QED
  BY <1>7, <1>8

\* A HOVER of the drag's session, and then the rest of a handler that will
\* still look at the drag.
LEMMA HoverSessions ==
  ASSUME Types, UNCHANGED <<frame, flush, opened>>,
         NEW op \in [Windows -> Nat], Leads(op), Current(op, <<>>),
         NEW r \in {<<>>, ToDecide}, Waits(r)',
         dnd'.window = dnd.window, dnd'.session = dnd.session,
         NEW payload \in BOOLEAN,
         \/ agenda' = r
         \/ dnd.window # None /\ agenda' = <<Push(Event("hover", payload))>> \o r
  PROVE  Sessions'
<1>1. r \in Rests
  BY Zenon DEF Rests
<1>2. Current(op, r)'
  BY Zenon DEF Current
<1>3. CASE agenda' = r
  BY <1>1, <1>2, <1>3, HandlerSessions, Zenon
<1>4. CASE dnd.window # None /\ agenda' = <<Push(Event("hover", payload))>> \o r
  <2>1. PICK e : e = Event("hover", payload)
    OBVIOUS
  <2>2. e \in Events /\ e.type = "hover" /\ e.window = dnd.window
        /\ e.session = dnd.session
    BY <1>4, <2>1, EventShape
  <2>3. Fits(op, e)
    BY <1>4, <2>2, Zenon DEF Fits, Current
  <2>4. After(op, e) = op
    BY <2>2 DEF After
  <2>5. Current(After(op, e), r)'
    BY <1>2, <2>4, Zenon DEF Current
  <2>6. QED
    BY <1>1, <1>4, <2>1, <2>2, <2>3, <2>5, HandlerSessions, Zenon
<1>5. QED
  BY <1>3, <1>4

LEMMA MotionSessions ==
  ASSUME Types, Sessions, Motion PROVE Sessions'
<1>1. /\ UNCHANGED <<dnd, frame, flush, opened, dropped>>
      /\ \/ agenda' = agenda
         \/ dnd.window # None /\ agenda' = <<Push(Event("hover", dnd.payload))>>
      /\ ~Busy
      /\ async' = async \/ async.fd = "closed"
  BY Zenon DEF Motion, historyVars
<1>2. PICK op \in [Windows -> Nat] : Leads(op) /\ Current(op, <<>>) /\ Waits(<<>>)
  BY <1>1, Idle, Zenon
<1>3. Waits(<<>>)'
  BY <1>1, <1>2, RestsDiffer DEF Waits
<1>4. /\ dnd.payload \in BOOLEAN
      /\ <<Push(Event("hover", dnd.payload))>>
           = <<Push(Event("hover", dnd.payload))>> \o <<>>
      /\ agenda = <<>>
  BY <1>1, Idle DEF Types, HeldTypes
<1>5. QED
  BY <1>1, <1>2, <1>3, <1>4, HoverSessions, Zenon

LEMMA CompleteSessions ==
  ASSUME Types, Sessions, NEW list \in BOOLEAN, ~Busy, Complete(list)
  PROVE  Sessions'
<1>1. /\ UNCHANGED <<frame, flush, opened, dropped>>
      /\ dnd' = [dnd EXCEPT !.payload = list \/ @]
      /\ agenda' = (IF dnd.window # None /\ window[dnd.window].accept
                      THEN <<Push(Event("hover", list \/ dnd.payload))>>
                      ELSE <<>>) \o ToDecide
  BY Zenon DEF Complete, historyVars, ToDecide
<1>2. dnd'.window = dnd.window /\ dnd'.session = dnd.session
  BY <1>1 DEF Types, HeldTypes
<1>3. PICK op \in [Windows -> Nat] : Leads(op) /\ Current(op, <<>>)
  BY Idle, Zenon
<1>4. Waits(ToDecide)'
  BY RestsDiffer, Zenon DEF Waits
<1>5. (list \/ dnd.payload) \in BOOLEAN /\ <<>> \o ToDecide = ToDecide
  BY RestShapes DEF Rests
<1>6. \/ agenda' = ToDecide
      \/ /\ dnd.window # None
         /\ agenda' = <<Push(Event("hover", list \/ dnd.payload))>> \o ToDecide
  BY <1>1, <1>5, Zenon
<1>7. QED
  BY <1>1, <1>2, <1>3, <1>4, <1>5, <1>6, HoverSessions, Zenon

LEMMA LeaveSessions ==
  ASSUME Types, Sessions, Leave PROVE Sessions'
<1>1. /\ UNCHANGED <<dnd, frame, flush, opened, dropped>>
      /\ agenda' = (IF dnd.window = None THEN <<>>
                    ELSE <<Push(Event("leave", FALSE))>>) \o ToReset
      /\ ~Busy
  BY Zenon DEF Leave, handlerVars, historyVars, ToReset
<1>2. PICK op \in [Windows -> Nat] : Leads(op) /\ Current(op, <<>>)
  BY <1>1, Idle, Zenon
<1>3. /\ ToReset \in Rests /\ <<>> \o ToReset = ToReset
      /\ Waits(ToReset)' /\ \A x : Current(x, ToReset)'
  BY RestShapes, RestsDiffer, Zenon DEF Rests, Waits, Current
<1>4. CASE dnd.window = None
  BY <1>1, <1>2, <1>3, <1>4, HandlerSessions, Zenon
<1>5. CASE dnd.window # None
  <2>1. PICK e : e = Event("leave", FALSE)
    OBVIOUS
  <2>2. e \in Events /\ e.window = dnd.window /\ e.session = dnd.session
    BY <1>5, <2>1, EventShape
  <2>3. Fits(op, e)
    BY <1>2, <1>5, <2>2, Zenon DEF Fits, Current
  <2>4. QED
    BY <1>1, <1>2, <1>3, <1>5, <2>1, <2>2, <2>3, HandlerSessions, Zenon
<1>6. QED
  BY <1>4, <1>5

LEMMA DropSessions ==
  ASSUME Types, Owned, Sessions, Drop PROVE Sessions'
<1>1. /\ UNCHANGED <<frame, flush, opened>> /\ ~Busy
      /\ drag.phase = "over" /\ dropped' = dropped \union {drag.offer}
  BY Zenon DEF Drop
<1>2. CASE async.fd = "open"
  <2>1. /\ UNCHANGED agenda
        /\ dnd' = [dnd EXCEPT !.drop_pending = TRUE]
        /\ async' = [async EXCEPT !.deadline = "running"]
    BY <1>2, Zenon DEF Drop
  <2>2. /\ async'.fd = async.fd
        /\ dnd'.offer = dnd.offer /\ dnd'.window = dnd.window
        /\ dnd'.session = dnd.session
    BY <2>1 DEF Types, HeldTypes
  <2>3. QED
    BY <1>1, <1>2, <2>1, <2>2, LeadsStays, QuietSessions, Zenon
<1>3. CASE async.fd # "open"
  <2>1. agenda' = Finalize /\ UNCHANGED dnd
    BY <1>3, Zenon DEF Drop
  <2>2. dnd.offer \in dropped' \union {None}
    BY <1>1 DEF Owned, Drags
  <2>3. PICK op \in [Windows -> Nat] : Leads(op) /\ Current(op, <<>>)
    BY <1>1, Idle, Zenon
  <2>4. QED
    BY <1>1, <2>1, <2>2, <2>3, FinalizeSessions, Zenon DEF Owned
<1>4. QED
  BY <1>2, <1>3

LEMMA PushSessions ==
  ASSUME Types, Sessions, PushEvent PROVE Sessions'
<1>1. /\ UNCHANGED <<dnd, async, opened, dropped>>
      /\ agenda # <<>> /\ flush = 0 /\ Head(agenda).op = "push"
  BY Zenon DEF PushEvent, handlerVars, historyVars
<1>2. CASE FrameIsFull
  <2>1. UNCHANGED <<frame, agenda>> /\ flush' = 1
    BY <1>2, Zenon DEF PushEvent
  <2>2. QED
    BY <1>1, <2>1, LeadsStays, QuietSessions, Zenon
<1>3. CASE ~FrameIsFull
  <2>1. /\ frame' = Append(frame, Head(agenda).event)
        /\ agenda' = Tail(agenda)
        /\ UNCHANGED flush
    BY <1>3, Zenon DEF PushEvent
  <2>2. PICK op \in [Windows -> Nat], r \in Rests, e \in Events :
          /\ Leads(op) /\ Fits(op, e) /\ Current(After(op, e), r) /\ Waits(r)
          /\ Head(agenda).event = e /\ Tail(agenda) = r
    BY <1>1, Pushing, Zenon
  <2>3. PICK q \in [Windows -> Nat] : q = After(op, e)
    BY AfterIsTyped, Zenon
  <2>4. Leads(q)'
    BY <1>1, <2>1, <2>2, <2>3, LeadsGrows, Zenon
  <2>5. Ahead(q, r)'
    BY <1>1, <2>1, <2>2, <2>3, Zenon DEF Ahead, Current
  <2>6. Waits(r)'
    BY <1>1, <2>2, Zenon DEF Waits
  <2>7. QED
    BY <2>4, <2>5, <2>6, Zenon DEF Sessions
<1>4. QED
  BY <1>2, <1>3

LEMMA RestSessions ==
  ASSUME Types, Owned, Sessions, MaybeFinalize \/ Finish \/ FinalReset
  PROVE  Sessions'
<1>1. CASE MaybeFinalize
  <2>1. /\ UNCHANGED <<dnd, async, frame, flush, opened, dropped>>
        /\ agenda # <<>> /\ Head(agenda).op = "maybeFinalize"
        /\ agenda' = IF dnd.drop_pending THEN Finalize ELSE <<>>
    BY <1>1, Zenon DEF MaybeFinalize, handlerVars, historyVars
  <2>2. PICK op \in [Windows -> Nat], r \in Rests :
          Leads(op) /\ Current(op, r) /\ agenda = r
    BY <2>1, Resting
  <2>3. r = ToDecide
    BY <2>1, <2>2, RestShapes DEF Rests
  <2>4. Current(op, <<>>)
    BY <2>2, <2>3, Zenon DEF Current
  <2>5. CASE dnd.drop_pending
    <3>1. dnd.offer \in dropped' \union {None}
      BY <2>1, <2>5 DEF Owned, Drags
    <3>2. QED
      BY <2>1, <2>2, <2>4, <2>5, <3>1, FinalizeSessions, Zenon DEF Owned
  <2>6. CASE ~dnd.drop_pending
    <3>1. Waits(<<>>)'
      BY <2>1, <2>6, RestsDiffer, Zenon DEF Waits
    <3>2. agenda' = <<>> /\ <<>> \in Rests /\ Current(op, <<>>)'
      BY <2>1, <2>4, <2>6, Zenon DEF Rests, Current
    <3>3. QED
      BY <2>1, <2>2, <3>1, <3>2, HandlerSessions, Zenon
  <2>7. QED
    BY <2>5, <2>6
<1>2. CASE Finish
  <2>1. /\ UNCHANGED <<dnd, async, frame, flush, opened, dropped>>
        /\ agenda # <<>> /\ Head(agenda).op = "finish"
        /\ agenda' = Tail(agenda)
    BY <1>2, Zenon DEF Finish, handlerVars, historyVars
  <2>2. PICK op \in [Windows -> Nat], r \in Rests : Leads(op) /\ agenda = r
    BY <2>1, Resting
  <2>3. r = ToFinish
    BY <2>1, <2>2, RestShapes DEF Rests
  <2>4. agenda' = ToReset /\ ToReset \in Rests
    BY <2>1, <2>2, <2>3, RestShapes, Zenon DEF Rests
  <2>5. Waits(ToReset)' /\ Current(op, ToReset)'
    BY RestShapes, RestsDiffer, Zenon DEF Waits, Current
  <2>6. QED
    BY <2>1, <2>2, <2>4, <2>5, HandlerSessions, Zenon
<1>3. CASE FinalReset
  <2>1. /\ UNCHANGED <<frame, flush, opened, dropped>> /\ Reset
        /\ agenda # <<>> /\ Head(agenda).op = "reset"
        /\ agenda' = Tail(agenda)
    BY <1>3, Zenon DEF FinalReset, historyVars
  <2>2. PICK op \in [Windows -> Nat], r \in Rests : Leads(op) /\ agenda = r
    BY <2>1, Resting
  <2>3. r = ToReset
    BY <2>1, <2>2, RestShapes DEF Rests
  <2>4. agenda' = <<>> /\ <<>> \in Rests
    BY <2>1, <2>2, <2>3, RestShapes, Zenon DEF Rests
  <2>5. dnd'.window = None /\ dnd'.drop_pending = FALSE
    BY <2>1 DEF Reset, NoDnd
  <2>6. Waits(<<>>)' /\ Current(op, <<>>)'
    BY <2>5, RestsDiffer, Zenon DEF Waits, Current
  <2>7. QED
    BY <2>1, <2>2, <2>4, <2>6, HandlerSessions, Zenon
<1>4. QED
  BY <1>1, <1>2, <1>3

LEMMA OtherSessions ==
  ASSUME Types, Sessions,
         \/ \E o \in Offers, uri \in BOOLEAN, offered \in {{"copy"}, {"move"}} :
              DataOffer(o, uri, offered)
         \/ \E a \in Actions : SelectAction(a)
         \/ PointerFrame
         \/ \E o \in Offers \union {None} : Selection(o)
         \/ \E what \in {"files", "nothing"} : SourceCloses(what)
         \/ DeadlinePasses
         \/ UNCHANGED vars
  PROVE  Sessions'
<1>1. /\ UNCHANGED <<dnd, agenda, frame, opened, dropped>>
      /\ UNCHANGED flush \/ (flush = 0 /\ flush' = 1)
  <2>1. CASE PointerFrame
    <3>1. ~(flush > 0) /\ flush \in Nat
      BY <2>1 DEF PointerFrame, Busy, Types, OtherTypes
    <3>2. flush = 0
      BY <3>1
    <3>3. QED
      BY <2>1, <3>2, Zenon DEF PointerFrame, handlerVars, historyVars
  <2>2. CASE ~PointerFrame
    BY <2>2, Zenon
    DEF DataOffer, SelectAction, Selection, SourceCloses, DeadlinePasses, vars,
        handlerVars, eventVars, historyVars
  <2>3. QED
    BY <2>1, <2>2
<1>2. async'.fd = async.fd
  <2>1. \/ async' = async
        \/ async' = [async EXCEPT !.deadline = "passed"]
    BY Zenon
    DEF DataOffer, SelectAction, PointerFrame, Selection, SourceCloses,
        DeadlinePasses, vars, handlerVars
  <2>2. QED
    BY <2>1 DEF Types, HeldTypes
<1>3. dropped \subseteq dropped'
  BY <1>1
<1>4. QED
  BY <1>1, <1>2, <1>3, LeadsStays, QuietSessions, Zenon

LEMMA CallbackSessions ==
  ASSUME Types, Owned, Sessions,
         \/ \E reaction \in Reactions : Deliver(reaction)
         \/ \E w \in Windows, accept \in Updates : AppUpdates(w, accept)
         \/ \E w \in Windows : AppDestroys(w)
  PROVE  Sessions'
<1>1. ASSUME NEW reaction \in Reactions, Deliver(reaction) PROVE Sessions'
  <2>1. flush \in 1 .. Len(frame) /\ frame \in Seq(Events) /\ flush > 0
    BY <1>1 DEF Deliver, Types, OtherTypes
  <2>2. frame[flush] \in Events
    BY <2>1
  <2>3. Reset \/ GoesOn
    BY <1>1, <2>2, EffectOfReaction, Zenon DEF Deliver, Owned
  <2>4. opened' = After(opened, frame[flush])
    BY <1>1, Zenon DEF Deliver, After
  <2>5. IF flush = Len(frame)
          THEN frame' = <<>> /\ flush' = 0
          ELSE frame' = frame /\ flush' = flush + 1
    BY <1>1, Zenon DEF Deliver
  <2>6. UNCHANGED <<agenda, dropped>>
    BY <1>1, Zenon DEF Deliver
  <2>7. \A op \in [Windows -> Nat] : Leads(op) => Leads(op)'
    BY <2>1, <2>4, <2>5, LeadsShrinks, Zenon
  <2>8. QED
    BY <2>3, <2>6, <2>7, ApplicationSessions, Zenon
<1>2. ASSUME Reset \/ GoesOn, UNCHANGED <<eventVars, historyVars>> PROVE Sessions'
  BY <1>2, LeadsStays, ApplicationSessions, Zenon DEF eventVars, historyVars
<1>3. ASSUME NEW w \in Windows, NEW accept \in Updates, AppUpdates(w, accept)
      PROVE  Sessions'
  <2>1. accept \in BOOLEAN
    BY DndAssumption
  <2>2. QED
    BY <1>2, <1>3, <2>1, EffectOfAccept, Zenon DEF AppUpdates, Owned
<1>4. ASSUME NEW w \in Windows, AppDestroys(w) PROVE Sessions'
  BY <1>2, <1>4, EffectOfDestroy, Zenon DEF AppDestroys
<1>5. QED
  BY <1>1, <1>3, <1>4

LEMMA NextSessions ==
  ASSUME IInv, [Next]_vars PROVE Sessions'
<1>1. ASSUME TimeOut \/ ReadEnd \/ ReadFails PROVE Sessions'
  <2>1. PayloadFrom(source) \in BOOLEAN
    BY DEF PayloadFrom
  <2>2. QED
    BY <1>1, <2>1, CompleteSessions, Zenon DEF TimeOut, ReadEnd, ReadFails, IInv
<1>2. QED
  BY <1>1, EnterSessions, MotionSessions, LeaveSessions, DropSessions,
     PushSessions, RestSessions, OtherSessions, CallbackSessions, Zenon
  DEF Next, CompositorStep, PumpStep, IInv

----------------------------------------------------------------------------
(* The theorems.                                                           *)

LEMMA InitHolds == Init => IInv
<1> SUFFICES ASSUME Init PROVE IInv
  OBVIOUS
<1>1. Types
  <2>1. HeldTypes
    BY NothingIsTyped, Zenon DEF Init, HeldTypes
  <2>2. meta \in [Offers -> [uri : BOOLEAN, offered : SUBSET Actions,
                             selected : Actions]]
    BY DEF Init, Actions
  <2>3. window \in WindowTypes
    BY DEF Init, Actions, WindowTypes
  <2>4. drag \in DragTypes
    BY DndAssumption DEF Init, NoDrag, DragTypes
  <2>5. frame \in Seq(Events) /\ Len(frame) = 0 /\ Len(frame) <= FrameCap
    BY DndAssumption DEF Init
  <2>6. QED
    BY <2>1, <2>2, <2>3, <2>4, <2>5 DEF Types, OtherTypes, Init
<1>2. Owned
  BY DEF Init, NoDnd, NoAsync, NoDrag, Owned, OffersAreLive, NoOfferIsLeaked,
         Drags, Reads
<1>3. Sessions
  <2>1. opened \in [Windows -> Nat] /\ <<>> \in Rests
    BY <1>1 DEF Types, OtherTypes, Rests
  <2>2. Leads(opened)
    <3>1. Start = 1 /\ Len(frame) = 0 /\ frame = <<>>
      BY DEF Init, Start
    <3>2. PICK g : g = [k \in 1 .. 1 |-> opened]
      OBVIOUS
    <3>3. g \in [1 .. 0 + 1 -> [Windows -> Nat]] /\ g[0 + 1] = opened
          /\ g[1] = opened /\ \A k \in 1 .. 0 : FALSE
      BY <2>1, <3>2, SMT
    <3>4. Thread(g)
      BY <3>1, <3>3, Zenon DEF Thread
    <3>5. QED
      BY <3>1, <3>3, <3>4, Zenon DEF Leads
  <2>3. dnd.window = None /\ dnd.drop_pending = FALSE /\ agenda = <<>>
    BY DEF Init, NoDnd
  <2>4. Ahead(opened, <<>>) /\ Waits(<<>>)
    BY <2>3, RestsDiffer, Zenon DEF Ahead, Current, Waits
  <2>5. QED
    BY <2>1, <2>2, <2>4, Zenon DEF Sessions
<1>4. QED
  BY <1>1, <1>2, <1>3 DEF IInv

LEMMA NextHolds == IInv /\ [Next]_vars => IInv'
BY NextTypes, NextOwned, NextSessions DEF IInv

\* The invariant of the drags, their offers and pipes, and of the events that
\* wait holds always.
THEOREM DndInvariant == Spec => []IInv
<1>1. QED
  BY InitHolds, NextHolds, PTL DEF Spec

\* Every offer and every pipe belongs to a drag or to the selection as long as
\* it lives and is not used longer, whatever the application destroys or refuses
\* while events of the drag wait.
THEOREM OffersAlwaysOwned == Spec => []OffersAreOwned
<1>1. QED
  BY DndInvariant, OwnedHolds, PTL

\* HOVER, LEAVE and DROP reach the callback inside the session they belong to,
\* however long the events have waited in the frame.
THEOREM EventsHaveSessions == Spec => []NoOrphanEvents
<1>1. QED
  BY DndInvariant, SeenFits, PTL

\* finish is sent for an offer the compositor has dropped.
THEOREM FinishIsAlwaysLegal == Spec => []FinishIsLegal
<1>1. QED
  BY DndInvariant, FinishHolds, PTL

=============================================================================
