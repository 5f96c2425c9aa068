------------------------------ MODULE PumpProofs ------------------------------
(***************************************************************************)
(* Theorems about what the pump of Linux does, for any limits, messages    *)
(* and posts, pads, names of nodes and presses of buttons.                 *)
(*                                                                         *)
(* WaylandPump: reads are paired, the thread does not go to sleep over     *)
(* messages already read, a failure is flagged by the call that met it,    *)
(* and the pending frame never holds more than its array does.             *)
(* NoSleepOnQueue is not inductive by itself: another thread may fill the  *)
(* queue, and what keeps it from doing so during poll is that the read is  *)
(* prepared then, which is ReadIsPaired.  The bound of the frame goes      *)
(* through FrameAfter, message by message.                                 *)
(*                                                                         *)
(* LinuxControllers: ReportsMatchList speaks of the pump at rest.          *)
(* ControllersInv says what holds during a walk as well: the list and the  *)
(* events agree at every step, and a controller is marked lost once it is  *)
(* not in the list, but for the one whose device is being removed.  For    *)
(* ButtonsFollow it says that no two devices are on one pad, that a listed *)
(* path is that of the pad while it is plugged in, and that nothing waits  *)
(* to be read at a node that is not open.                                  *)
(***************************************************************************)
EXTENDS WaylandPump, LinuxControllers, SequenceTheorems, WellFoundedInduction,
        TLAPS

----------------------------------------------------------------------------
(* The pump.                                                                *)

\* The inductive invariant of the waiting.
WaitInv ==
  /\ prepared \in BOOLEAN
  /\ ReadIsPaired
  /\ NoSleepOnQueue

LEMMA InitWaitInv == Init => WaitInv
BY DEF Init, WaitInv, ReadIsPaired, NoSleepOnQueue

LEMMA NextWaitInv == WaitInv /\ [Next]_vars => WaitInv'
<1> SUFFICES ASSUME WaitInv, [Next]_vars PROVE WaitInv'
  OBVIOUS
<1> USE DEF WaitInv, ReadIsPaired, NoSleepOnQueue, pumpVars, connVars, postVars
<1>1. ASSUME NEW t \in Timeouts, Call(t) PROVE WaitInv'
  BY <1>1 DEF Call
<1>2. CASE PrepareRead
  BY <1>2 DEF PrepareRead
<1>3. CASE PollReady
  BY <1>3 DEF PollReady
<1>4. CASE PollTimeout \/ PollInterrupted
  BY <1>4 DEF PollTimeout, PollInterrupted
<1>5. CASE Dispatch
  BY <1>5 DEF Dispatch
<1>6. CASE Again \/ Return
  BY <1>6 DEF Again, Return
<1>7. CASE OtherRead
  BY <1>7 DEF OtherRead
<1>8. CASE \/ Tick \/ Break \/ Post
           \/ \E m \in {"direct", "part", "frame"} : Send(m)
           \/ UNCHANGED vars
  BY <1>8 DEF Tick, Break, Post, Send, vars
<1>9. QED
  BY <1>1, <1>2, <1>3, <1>4, <1>5, <1>6, <1>7, <1>8 DEF Next, PumpStep

\* Both hold always.
THEOREM WaitInvariant == Spec => []WaitInv
<1>1. QED
  BY InitWaitInv, NextWaitInv, PTL DEF Spec

\* Every prepare_read of the pump is followed by one read or cancel.
THEOREM ReadsArePaired == Spec => []ReadIsPaired
<1>1. WaitInv => ReadIsPaired
  BY DEF WaitInv
<1>2. QED
  BY <1>1, WaitInvariant, PTL

\* The thread does not sleep in poll over messages that are already read.
THEOREM NeverSleepsOnQueue == Spec => []NoSleepOnQueue
<1>1. WaitInv => NoSleepOnQueue
  BY DEF WaitInv
<1>2. QED
  BY <1>1, WaitInvariant, PTL

----------------------------------------------------------------------------
(* Types, and with them the limit of the pending frame.                    *)

Below == OpToRel(<, Nat)

\* A set that holds 0 and, with n, also n + 1 up to N holds all of 0 .. N: the
\* smallest number it misses is not 0 and follows one that it holds.
LEMMA UpTo ==
  ASSUME NEW N \in Nat, NEW T, 0 \in T,
         \A n \in 0 .. N - 1 : n \in T => n + 1 \in T
  PROVE  \A n \in 0 .. N : n \in T
<1> DEFINE M == (0 .. N) \ T
<1>1. SUFFICES ASSUME M # {} PROVE FALSE
  OBVIOUS
<1>2. PICK x \in M : \A y \in M : <<y, x>> \notin Below
  <2>1. M \in SUBSET Nat
    BY SMT
  <2>2. QED
    BY <1>1, <2>1, WFMin, NatLessThanWellFounded, Zenon DEF Below
<1>3. x \in 1 .. N
  BY SMT
<1>4. x - 1 \in 0 .. N - 1 /\ x - 1 \in 0 .. N /\ (x - 1) + 1 = x
  BY <1>3, SMT
<1>5. <<x - 1, x>> \in Below
  BY <1>3, SMT DEF OpToRel, Below
<1>6. x - 1 \in T
  BY <1>2, <1>4, <1>5, Zenon
<1>7. QED
  BY <1>2, <1>4, <1>6

Messages == {"direct", "part", "frame"}

LEMMA HandlersKeepFrame ==
  ASSUME NEW count \in 0 .. FrameCap, NEW m \in Messages
  PROVE  HandleMessage(count, m) \in 0 .. FrameCap
BY PumpAssumption DEF Messages, HandleMessage, PushPart

\* FrameAfter is the function its equation describes.
LEMMA FrameAfterDef ==
  ASSUME queue \in Seq(Messages), frame \in 0 .. FrameCap
  PROVE  FrameAfter = [n \in 0 .. Len(queue) |->
           IF n = 0 THEN frame ELSE HandleMessage(FrameAfter[n - 1], queue[n])]
<1> DEFINE N == Len(queue)
           Follows(f, n) == /\ f \in [0 .. n -> 0 .. FrameCap]
                            /\ f[0] = frame
                            /\ \A k \in 1 .. n :
                                 f[k] = HandleMessage(f[k - 1], queue[k])
           T == {n \in 0 .. N : \E f : Follows(f, n)}
<1>1. N \in Nat /\ \A k \in 1 .. N : queue[k] \in Messages
  OBVIOUS
<1>2. 0 \in T
  <2>1. Follows([k \in 0 .. 0 |-> frame], 0)
    OBVIOUS
  <2>2. 0 \in 0 .. N
    BY <1>1, SMT
  <2>3. QED
    BY <2>1, <2>2, Zenon
<1>3. ASSUME NEW n \in 0 .. N - 1, n \in T PROVE n + 1 \in T
  <2>1. PICK f : Follows(f, n)
    BY <1>3, Zenon
  <2>2. n \in Nat /\ n + 1 \in 0 .. N /\ n + 1 \in 1 .. N
    BY <1>1, SMT
  <2> DEFINE g == [k \in 0 .. n + 1 |->
                     IF k = n + 1 THEN HandleMessage(f[n], queue[n + 1]) ELSE f[k]]
  <2>3. HandleMessage(f[n], queue[n + 1]) \in 0 .. FrameCap
    <3>1. f[n] \in 0 .. FrameCap
      BY <2>1, <2>2
    <3>2. queue[n + 1] \in Messages
      BY <1>1, <2>2
    <3>3. QED
      BY <3>1, <3>2, HandlersKeepFrame, Zenon
  <2>4. g \in [0 .. n + 1 -> 0 .. FrameCap]
    BY <2>1, <2>2, <2>3
  <2>5. g[0] = frame
    BY <2>1, <2>2
  <2>6. ASSUME NEW k \in 1 .. n + 1 PROVE g[k] = HandleMessage(g[k - 1], queue[k])
    <3>1. CASE k = n + 1
      <4>1. k - 1 = n /\ n \in 0 .. n + 1 /\ n + 1 \in 0 .. n + 1 /\ n # n + 1
        BY <2>2, <3>1, SMT
      <4>2. QED
        BY <3>1, <4>1, Zenon
    <3>2. CASE k # n + 1
      <4>1. /\ k \in 1 .. n /\ k \in 0 .. n + 1
            /\ k - 1 \in 0 .. n + 1 /\ k - 1 # n + 1
        BY <2>2, <3>2, SMT
      <4>2. QED
        BY <2>1, <3>2, <4>1, Zenon
    <3>3. QED
      BY <3>1, <3>2
  <2>7. QED
    BY <2>2, <2>4, <2>5, <2>6, Zenon
<1>4. N \in T
  <2>1. N \in 0 .. N
    BY <1>1, SMT
  <2> HIDE DEF T
  <2>2. QED
    BY <1>1, <1>2, <1>3, <2>1, UpTo, Zenon
<1>5. PICK f : Follows(f, N)
  BY <1>4, Zenon
<1>6. f = [n \in 0 .. N |-> IF n = 0 THEN frame ELSE HandleMessage(f[n - 1], queue[n])]
  BY <1>1, <1>5
<1>7. QED
  BY <1>6, Zenon DEF FrameAfter

\* The frame stays within its array whatever is dispatched.
LEMMA FrameAfterFits ==
  ASSUME queue \in Seq(Messages), frame \in 0 .. FrameCap
  PROVE  FrameAfter[Len(queue)] \in 0 .. FrameCap
<1> DEFINE N == Len(queue)
           T == {n \in 0 .. N : FrameAfter[n] \in 0 .. FrameCap}
<1>1. N \in Nat /\ 0 \in 0 .. N /\ N \in 0 .. N
  BY SMT
<1>2. \A n \in 0 .. N : FrameAfter[n] =
        IF n = 0 THEN frame ELSE HandleMessage(FrameAfter[n - 1], queue[n])
  BY FrameAfterDef, Zenon
<1>3. 0 \in T
  BY <1>1, <1>2, Zenon
<1>4. ASSUME NEW n \in 0 .. N - 1, n \in T PROVE n + 1 \in T
  <2>1. n + 1 \in 0 .. N /\ n + 1 # 0 /\ (n + 1) - 1 = n /\ n + 1 \in 1 .. N
    BY <1>1, SMT
  <2>2. queue[n + 1] \in Messages
    BY <2>1
  <2>3. FrameAfter[n + 1] = HandleMessage(FrameAfter[n], queue[n + 1])
    BY <1>2, <2>1, Zenon
  <2>4. QED
    BY <1>4, <2>1, <2>2, <2>3, HandlersKeepFrame, Zenon
<1>5. \A n \in 0 .. N : n \in T
  <2> HIDE DEF T
  <2>1. QED
    BY <1>1, <1>3, <1>4, UpTo, Zenon
<1>6. QED
  BY <1>1, <1>5, Zenon

Flags ==
  /\ expired \in BOOLEAN
  /\ prepared \in BOOLEAN
  /\ broken \in BOOLEAN
  /\ error \in BOOLEAN
  /\ lost \in BOOLEAN

\* TypeOK with its flags one by one, and with the posts not yet dispatched
\* counted: no more than were made.
TypeInv ==
  /\ pc \in {"idle", "top", "poll", "dispatch", "end"}
  /\ timeout \in Timeouts
  /\ pollTimeout \in {"zero", "positive", "negative"}
  /\ Flags
  /\ socket \in Seq(Messages)
  /\ queue \in Seq(Messages)
  /\ ring \in 0 .. MaxPosts
  /\ ring <= posted
  /\ wake \in Nat
  /\ frame \in 0 .. FrameCap
  /\ input \in 0 .. MaxInput
  /\ posted \in 0 .. MaxPosts

LEMMA InitTypeInv == Init => TypeInv
<1> SUFFICES ASSUME Init PROVE TypeInv
  OBVIOUS
<1>1. Flags
  BY Zenon DEF Init, Flags
<1>2. QED
  BY <1>1, PumpAssumption DEF Init, TypeInv

LEMMA NextFlags == Flags /\ [Next]_vars => Flags'
<1> SUFFICES ASSUME Flags, [Next]_vars PROVE Flags'
  OBVIOUS
<1> USE DEF Flags
<1>1. CASE UNCHANGED vars
  BY <1>1, Zenon DEF vars, pumpVars, connVars
<1>2. CASE Next
  BY <1>2, Zenon
  DEF Next, PumpStep, Call, CheckError, PrepareRead, PollReady, PollTimeout,
      Dispatch, Again, Return, PollInterrupted, Tick, Send, Break, OtherRead,
      Post, pumpVars, connVars
<1>3. QED
  BY <1>1, <1>2

LEMMA NextTypeInv == TypeInv /\ [Next]_vars => TypeInv'
<1> SUFFICES ASSUME TypeInv, [Next]_vars PROVE TypeInv'
  OBVIOUS
<1>f. Flags'
  BY NextFlags DEF TypeInv
<1> USE <1>f, PumpAssumption DEF TypeInv, pumpVars, connVars, postVars
<1>1. ASSUME NEW t \in Timeouts, Call(t) PROVE TypeInv'
  BY <1>1 DEF Call
<1>2. CASE PrepareRead
  <2>1. pollTimeout' \in {"zero", "positive", "negative"}
    <3>1. timeout \in {"zero", "finite", "huge", "never"}
      OBVIOUS
    <3>2. TimeIsUp <=> timeout \in {"finite", "huge"} /\ expired
      BY DEF TimeIsUp
    <3>3. QED
      BY <1>2, <3>1, <3>2 DEF PrepareRead, PollTimeouts
  <2>2. QED
    BY <1>2, <2>1 DEF PrepareRead
<1>3. CASE PollReady
  BY <1>3 DEF PollReady
<1>4. CASE PollTimeout \/ PollInterrupted
  BY <1>4 DEF PollTimeout, PollInterrupted
<1>5. CASE Dispatch
  <2>1. frame' \in 0 .. FrameCap
    BY <1>5, FrameAfterFits DEF Dispatch
  <2>2. queue' \in Seq(Messages)
    <3>1. queue' = queue \/ queue' = <<>>
      BY <1>5, Zenon DEF Dispatch
    <3>2. <<>> \in Seq(Messages) /\ queue \in Seq(Messages)
      OBVIOUS
    <3>3. QED
      BY <3>1, <3>2, Zenon
  <2>3. /\ ring' = 0 /\ pc' = "end"
        /\ UNCHANGED <<timeout, pollTimeout, socket, input, wake, posted>>
    BY <1>5, Zenon DEF Dispatch
  <2>4. QED
    BY <2>1, <2>2, <2>3
<1>6. CASE Again \/ Return
  BY <1>6 DEF Again, Return
<1>7. CASE OtherRead
  BY <1>7 DEF OtherRead
<1>8. ASSUME NEW m \in Messages, Send(m) PROVE TypeInv'
  BY <1>8 DEF Send
<1>9. CASE Tick
  BY <1>9 DEF Tick
<1>10. CASE Break
  BY <1>10 DEF Break
<1>11. CASE Post
  BY <1>11 DEF Post
<1>12. CASE UNCHANGED vars
  BY <1>12 DEF vars
<1>13. QED
  BY <1>1, <1>2, <1>3, <1>4, <1>5, <1>6, <1>7, <1>8, <1>9, <1>10, <1>11, <1>12
  DEF Next, PumpStep, Messages

\* Every value the pump keeps is in its range: what matters of it is that the
\* pending frame never holds more events than its array of FrameCap.
THEOREM PumpIsTyped == Spec => []TypeOK
<1>1. TypeInv => TypeOK
  <2> SUFFICES ASSUME TypeInv PROVE TypeOK
    OBVIOUS
  <2>1. {expired, prepared, broken, error, lost} \subseteq BOOLEAN
    BY Zenon DEF TypeInv, Flags
  <2>2. QED
    BY <2>1 DEF TypeInv, TypeOK, Messages
<1>2. QED
  BY <1>1, InitTypeInv, NextTypeInv, PTL DEF Spec

----------------------------------------------------------------------------
(* Controllers: the inductive invariant.                                    *)

InputEvent == [button : Buttons, down : BOOLEAN]
HasDevice(c) == \E k \in 1 .. Len(devices) : devices[k].id = c

ControllerTypes ==
  /\ ControllersTypeOK
  /\ buffer \in [Pads -> Seq(InputEvent)]
  /\ i # 0

\* The thread runs the scan, one poll, one add or one callback; the walk goes
\* on where it was left.
Stages ==
  /\ stage = "open" => /\ back \in {"scan", "inotify"}
                       /\ opening \in Names
                       /\ ~Listed(opening)
  /\ stage = "callback" => back # "none"
  /\ stage \notin {"open", "callback"} => back = "none"
  /\ back = "walk" => stage = "callback" /\ i <= Len(devices) + 1
  /\ stage = "walk" \/ back = "walk" \/ i = 1
  /\ leaving # 0 => back = "walk"

Hardware ==
  \A p \in Pads : /\ Present(p) => pads[p].name \in Names
                  /\ ~Opened(p) \/ ~Present(p) => buffer[p] = <<>>

\* The device d is open on a node the pad had, which is there under its path if
\* the pad is.
OfPad(d, hardware) ==
  /\ hardware[d.pad].phase # "away"
  /\ hardware[d.pad].phase = "present" => hardware[d.pad].name = d.path

DevicesFollow ==
  /\ \A k \in 1 .. Len(devices) :
       devices[k].id # leaving /\ OfPad(devices[k], pads)
  /\ \A j, k \in 1 .. Len(devices) :
       devices[j].id = devices[k].id \/ devices[j].pad = devices[k].pad => j = k

\* The buttons down, with the events of a pad still to read, are those held, as
\* far as they are known.
Same(there, down, events, unsure, hands) ==
  there => \A b \in Buttons \ unsure : b \in Replay(down, events) <=> b \in hands

SameButtons(d) ==
  Same(Present(d.pad), ctrl[d.id].buttons, buffer[d.pad], unknown[d.pad], held[d.pad])

Reports ==
  \A c \in Ids : /\ ctrl[c].told = "connected" <=> HasDevice(c)
                 /\ ~ctrl[c].lost <=> HasDevice(c) \/ c = leaving

ControllersInv ==
  /\ ControllerTypes
  /\ Stages
  /\ Hardware
  /\ DevicesFollow
  /\ Reports
  /\ \A k \in 1 .. Len(devices) : SameButtons(devices[k])


----------------------------------------------------------------------------
(* The buttons after a sequence of input events.                            *)

LEMMA Applied ==
  ASSUME NEW down \in SUBSET Buttons, NEW event \in InputEvent
  PROVE  /\ Apply(down, event) \in SUBSET Buttons
         /\ \A b : b # event.button => (b \in Apply(down, event) <=> b \in down)
         /\ event.button \in Apply(down, event) <=> event.down
BY DEF Apply, InputEvent

\* Replay computes what its equation says.
LEMMA ReplayDef ==
  ASSUME NEW down \in SUBSET Buttons, NEW events \in Seq(InputEvent)
  PROVE  \E after :
           /\ after[0] = down
           /\ \A n \in 1 .. Len(events) : after[n] = Apply(after[n - 1], events[n])
           /\ Replay(down, events) = after[Len(events)]
<1> DEFINE N == Len(events)
           Follows(f, n) == /\ f \in [0 .. n -> SUBSET Buttons]
                            /\ f[0] = down
                            /\ \A k \in 1 .. n : f[k] = Apply(f[k - 1], events[k])
           T == {n \in 0 .. N : \E f : Follows(f, n)}
<1>1. N \in Nat /\ \A k \in 1 .. N : events[k] \in InputEvent
  OBVIOUS
<1>2. 0 \in T
  <2>1. Follows([k \in 0 .. 0 |-> down], 0)
    OBVIOUS
  <2>2. 0 \in 0 .. N
    BY <1>1, SMT
  <2> QED
    BY <2>1, <2>2, Zenon
<1>3. ASSUME NEW n \in 0 .. N - 1, n \in T PROVE n + 1 \in T
  <2>1. PICK f : Follows(f, n)
    BY <1>3, Zenon
  <2>2. n \in Nat /\ n + 1 \in 0 .. N /\ n + 1 \in 1 .. N
    BY <1>1, SMT
  <2> DEFINE g == [k \in 0 .. n + 1 |->
                     IF k = n + 1 THEN Apply(f[n], events[n + 1]) ELSE f[k]]
  <2>3. Apply(f[n], events[n + 1]) \in SUBSET Buttons
    <3>1. f[n] \in SUBSET Buttons
      BY <2>1, <2>2
    <3>2. events[n + 1] \in InputEvent
      BY <1>1, <2>2
    <3> QED
      BY <3>1, <3>2, Applied, Zenon
  <2>4. g \in [0 .. n + 1 -> SUBSET Buttons]
    BY <2>1, <2>2, <2>3
  <2>5. g[0] = down
    BY <2>1, <2>2
  <2>6. ASSUME NEW k \in 1 .. n + 1 PROVE g[k] = Apply(g[k - 1], events[k])
    <3>1. CASE k = n + 1
      <4>1. k - 1 = n /\ n \in 0 .. n + 1 /\ n + 1 \in 0 .. n + 1 /\ n # n + 1
        BY <2>2, <3>1, SMT
      <4> QED
        BY <3>1, <4>1, Zenon
    <3>2. CASE k # n + 1
      <4>1. /\ k \in 1 .. n /\ k \in 0 .. n + 1
            /\ k - 1 \in 0 .. n + 1 /\ k - 1 # n + 1
        BY <2>2, <3>2, SMT
      <4> QED
        BY <2>1, <3>2, <4>1, Zenon
    <3> QED
      BY <3>1, <3>2
  <2> QED
    BY <2>2, <2>4, <2>5, <2>6, Zenon
<1>4. N \in T
  <2>1. N \in 0 .. N
    BY <1>1, SMT
  <2> HIDE DEF T
  <2> QED
    BY <1>1, <1>2, <1>3, <2>1, UpTo, Zenon
<1> DEFINE g == CHOOSE f : f = [n \in 0 .. N |->
                             IF n = 0 THEN down ELSE Apply(f[n - 1], events[n])]
<1>5. PICK f : Follows(f, N)
  BY <1>4, Zenon
<1>6. f = [n \in 0 .. N |-> IF n = 0 THEN down ELSE Apply(f[n - 1], events[n])]
  BY <1>1, <1>5
<1>7. g = [n \in 0 .. N |-> IF n = 0 THEN down ELSE Apply(g[n - 1], events[n])]
  BY <1>6, Zenon
<1>8. Replay(down, events) = g[N]
  BY Zenon DEF Replay
<1> HIDE DEF g
<1>9. g[0] = down
  BY <1>1, <1>7
<1>10. \A n \in 1 .. N : g[n] = Apply(g[n - 1], events[n])
  <2>1. \A n \in 1 .. N : n \in 0 .. N /\ n # 0
    BY <1>1
  <2> QED
    BY <1>7, <2>1, Zenon
<1> QED
  BY <1>8, <1>9, <1>10, Zenon


\* A sequence of events sets buttons, leaves alone those it does not name, and
\* does nothing when it is empty.
LEMMA Replayed ==
  ASSUME NEW down \in SUBSET Buttons, NEW events \in Seq(InputEvent)
  PROVE  /\ Replay(down, events) \in SUBSET Buttons
         /\ \A b : (\A k \in 1 .. Len(events) : events[k].button # b) =>
                     (b \in Replay(down, events) <=> b \in down)
         /\ events = <<>> => Replay(down, events) = down
<1> DEFINE N == Len(events)
<1> PICK after :
      /\ after[0] = down
      /\ \A n \in 1 .. N : after[n] = Apply(after[n - 1], events[n])
      /\ Replay(down, events) = after[N]
  BY ReplayDef, Zenon
<1>1. N \in Nat /\ 0 \in 0 .. N /\ N \in 0 .. N
      /\ \A k \in 1 .. N : events[k] \in InputEvent
  OBVIOUS
<1>2. \A n \in 0 .. N - 1 : n + 1 \in 0 .. N /\ n + 1 \in 1 .. N /\ (n + 1) - 1 = n
  BY <1>1, SMT
<1>3. ASSUME NEW n \in 0 .. N - 1 PROVE after[n + 1] = Apply(after[n], events[n + 1])
  BY <1>2, Zenon
<1> DEFINE T == {n \in 0 .. N : after[n] \in SUBSET Buttons}
<1>4. \A n \in 0 .. N : n \in T
  <2>1. 0 \in T
    BY <1>1, Zenon
  <2>2. ASSUME NEW n \in 0 .. N - 1, n \in T PROVE n + 1 \in T
    <3>1. events[n + 1] \in InputEvent /\ n + 1 \in 0 .. N
      BY <1>1, <1>2, Zenon
    <3>2. after[n] \in SUBSET Buttons
      BY <2>2, Zenon
    <3>3. Apply(after[n], events[n + 1]) \in SUBSET Buttons
      BY <3>1, <3>2, Applied
    <3> QED
      BY <1>3, <3>1, <3>3, Zenon
  <2> HIDE DEF T
  <2> QED
    BY <1>1, <2>1, <2>2, UpTo, Zenon
<1>5. ASSUME NEW b, \A k \in 1 .. N : events[k].button # b
      PROVE  b \in after[N] <=> b \in down
  <2> DEFINE U == {n \in 0 .. N : b \in after[n] <=> b \in down}
  <2>1. 0 \in U
    BY <1>1, Zenon
  <2>2. ASSUME NEW n \in 0 .. N - 1, n \in U PROVE n + 1 \in U
    <3>1. /\ events[n + 1] \in InputEvent /\ n + 1 \in 0 .. N
          /\ events[n + 1].button # b
      BY <1>1, <1>2, <1>5, Zenon
    <3>2. after[n] \in SUBSET Buttons
      <4>1. n \in 0 .. N
        BY <1>1, SMT
      <4> QED
        BY <1>4, <4>1, Zenon
    <3>3. b \in Apply(after[n], events[n + 1]) <=> b \in after[n]
      BY <3>1, <3>2, Applied, Zenon
    <3> QED
      BY <1>3, <2>2, <3>1, <3>3, Zenon
  <2> HIDE DEF U
  <2>3. N \in U
    BY <1>1, <2>1, <2>2, UpTo, Zenon
  <2> QED
    BY <2>3, Zenon DEF U
<1>6. events = <<>> => N = 0
  OBVIOUS
<1> QED
  BY <1>1, <1>4, <1>5, <1>6, Zenon

\* One event more.
LEMMA ReplayedOnce ==
  ASSUME NEW down \in SUBSET Buttons, NEW events \in Seq(InputEvent),
         NEW event \in InputEvent
  PROVE  Replay(down, Append(events, event)) = Apply(Replay(down, events), event)
<1> DEFINE N == Len(events)
<1> PICK more : more = Append(events, event)
  OBVIOUS
<1>1. /\ N \in Nat /\ more \in Seq(InputEvent) /\ Len(more) = N + 1
      /\ more[N + 1] = event /\ \A n \in 1 .. N : more[n] = events[n]
  OBVIOUS
<1> PICK f :
      /\ f[0] = down
      /\ \A n \in 1 .. N : f[n] = Apply(f[n - 1], events[n])
      /\ Replay(down, events) = f[N]
  BY ReplayDef, Zenon
<1> PICK g :
      /\ g[0] = down
      /\ \A n \in 1 .. Len(more) : g[n] = Apply(g[n - 1], more[n])
      /\ Replay(down, more) = g[Len(more)]
  BY <1>1, ReplayDef, Zenon
<1> HIDE DEF N
<1> DEFINE T == {n \in 0 .. N : f[n] = g[n]}
<1>2. 0 \in 0 .. N /\ N \in 0 .. N /\ N + 1 \in 1 .. N + 1 /\ (N + 1) - 1 = N
      /\ \A n \in 0 .. N - 1 : /\ n + 1 \in 0 .. N /\ n + 1 \in 1 .. N
                               /\ n + 1 \in 1 .. N + 1 /\ (n + 1) - 1 = n
  BY <1>1, SMT
<1>3. 0 \in T
  BY <1>2, Zenon
<1>4. ASSUME NEW n \in 0 .. N - 1, n \in T PROVE n + 1 \in T
  <2>1. f[n + 1] = Apply(f[n], events[n + 1])
    BY <1>2, Zenon
  <2>2. g[n + 1] = Apply(g[n], more[n + 1])
    BY <1>1, <1>2, Zenon
  <2> QED
    BY <1>1, <1>2, <1>4, <2>1, <2>2, Zenon
<1> HIDE DEF T
<1>5. N \in T
  BY <1>1, <1>2, <1>3, <1>4, UpTo, Zenon
<1>6. f[N] = g[N]
  BY <1>5, Zenon DEF T
<1>7. Replay(down, more) = g[N + 1] /\ g[N + 1] = Apply(g[N], event)
  BY <1>1, <1>2, Zenon
<1>8. Replay(down, events) = f[N]
  BY Zenon DEF N
<1> QED
  BY <1>6, <1>7, <1>8, Zenon

----------------------------------------------------------------------------
(* The list of devices.                                                     *)

\* A list without its n-th entry: what was at Skip(n, k) is at k.
Skip(n, k) == IF k < n THEN k ELSE k + 1

\* It maps the entries of the shorter list one to one to the others of the list.
Skips(n, len) ==
  /\ \A k \in 1 .. len - 1 : Skip(n, k) \in 1 .. len /\ Skip(n, k) # n
  /\ \A j, k \in 1 .. len - 1 : Skip(n, j) = Skip(n, k) => j = k
  /\ \A j \in 1 .. len : j # n => \E k \in 1 .. len - 1 : Skip(n, k) = j

LEMMA Skipped ==
  ASSUME NEW n \in Nat, NEW len \in Nat, n \in 1 .. len
  PROVE  Skips(n, len)
<1>1. \A k \in 1 .. len - 1 : Skip(n, k) \in 1 .. len /\ Skip(n, k) # n
  BY DEF Skip
<1>2. \A j, k \in 1 .. len - 1 : Skip(n, j) = Skip(n, k) => j = k
  BY DEF Skip
<1>3. ASSUME NEW j \in 1 .. len, j # n PROVE \E k \in 1 .. len - 1 : Skip(n, k) = j
  <2>1. CASE j < n
    <3>1. j \in 1 .. len - 1 /\ Skip(n, j) = j
      BY <2>1 DEF Skip
    <3> QED
      BY <3>1, Zenon
  <2>2. CASE j > n
    <3>1. j - 1 \in 1 .. len - 1 /\ Skip(n, j - 1) = j
      BY <2>2 DEF Skip
    <3> QED
      BY <3>1, Zenon
  <2> QED
    BY <1>3, <2>1, <2>2
<1> QED
  BY <1>1, <1>2, <1>3, Zenon DEF Skips

LEMMA RemovedAt ==
  ASSUME NEW S, NEW s \in Seq(S), NEW n \in 1 .. Len(s)
  PROVE  /\ RemoveAt(s, n) \in Seq(S)
         /\ Len(RemoveAt(s, n)) = Len(s) - 1
         /\ \A k \in 1 .. Len(s) - 1 : RemoveAt(s, n)[k] = s[Skip(n, k)]
<1> PICK r : r = RemoveAt(s, n)
  OBVIOUS
<1> PICK a : a = SubSeq(s, 1, n - 1)
  OBVIOUS
<1> PICK b : b = SubSeq(s, n + 1, Len(s))
  OBVIOUS
<1>1. /\ a \in Seq(S) /\ Len(a) = n - 1 /\ \A k \in 1 .. n - 1 : a[k] = s[k]
  OBVIOUS
<1>2. /\ b \in Seq(S) /\ Len(b) = Len(s) - n
      /\ \A k \in 1 .. Len(s) - n : b[k] = s[n + k]
  OBVIOUS
<1>3. r = a \o b
  BY Zenon DEF RemoveAt
<1>4. /\ r \in Seq(S) /\ Len(r) = Len(a) + Len(b)
      /\ \A k \in 1 .. Len(a) + Len(b) :
           r[k] = IF k <= Len(a) THEN a[k] ELSE b[k - Len(a)]
  <2>1. a \in Seq(S) /\ b \in Seq(S)
    BY <1>1, <1>2, Zenon
  <2> PICK t : t = a \o b
    OBVIOUS
  <2>2. /\ t \in Seq(S) /\ Len(t) = Len(a) + Len(b)
        /\ \A k \in 1 .. Len(a) + Len(b) :
             t[k] = IF k <= Len(a) THEN a[k] ELSE b[k - Len(a)]
    BY <2>1, ConcatProperties, Zenon
  <2> QED
    BY <1>3, <2>2, Zenon
<1>5. Len(s) \in Nat /\ n \in 1 .. Len(s) /\ Len(a) + Len(b) = Len(s) - 1
  <2> PICK l \in Nat : l = Len(s)
    OBVIOUS
  <2>1. n \in 1 .. l /\ (n - 1) + (l - n) = l - 1
    OBVIOUS
  <2> QED
    BY <1>1, <1>2, <2>1, Zenon
<1>6. ASSUME NEW k \in 1 .. Len(s) - 1 PROVE r[k] = s[Skip(n, k)]
  <2>1. r[k] = IF k <= n - 1 THEN a[k] ELSE b[k - (n - 1)]
    BY <1>1, <1>4, <1>5, Zenon
  <2>2. CASE k < n
    <3>1. k <= n - 1 /\ k \in 1 .. n - 1 /\ Skip(n, k) = k
      BY <1>5, <2>2 DEF Skip
    <3> QED
      BY <1>1, <2>1, <3>1, Zenon
  <2>3. CASE ~(k < n)
    <3>1. /\ ~(k <= n - 1) /\ k - (n - 1) \in 1 .. Len(s) - n
          /\ n + (k - (n - 1)) = k + 1 /\ Skip(n, k) = k + 1
      BY <1>5, <2>3 DEF Skip
    <3> QED
      BY <1>2, <2>1, <3>1, Zenon
  <2> QED
    BY <2>2, <2>3
<1> QED
  BY <1>4, <1>5, <1>6, Zenon

\* A list with one entry more in front.
LEMMA LinkedInFront ==
  ASSUME NEW S, NEW s \in Seq(S), NEW d \in S, NEW a, a = <<d>>
  PROVE  /\ a \o s \in Seq(S)
         /\ Len(a \o s) = Len(s) + 1
         /\ (a \o s)[1] = d
         /\ \A k \in 1 .. Len(s) : (a \o s)[k + 1] = s[k]
<1> PICK r : r = a \o s
  OBVIOUS
<1>1. a \in Seq(S) /\ Len(a) = 1 /\ a[1] = d
  OBVIOUS
<1>2. /\ r \in Seq(S) /\ Len(r) = Len(a) + Len(s)
      /\ \A k \in 1 .. Len(a) + Len(s) :
           r[k] = IF k <= Len(a) THEN a[k] ELSE s[k - Len(a)]
  BY <1>1, ConcatProperties, Zenon
<1>3. Len(s) \in Nat
  OBVIOUS
<1>4. \A k \in 1 .. Len(s) : k + 1 \in 1 .. 1 + Len(s) /\ ~(k + 1 <= 1)
                             /\ (k + 1) - 1 = k
  BY <1>3
<1>5. 1 \in 1 .. 1 + Len(s) /\ 1 <= 1 /\ 1 + Len(s) = Len(s) + 1
  BY <1>3
<1>6. \A k \in 1 .. 1 + Len(s) : r[k] = IF k <= 1 THEN a[k] ELSE s[k - 1]
  BY <1>1, <1>2, Zenon
<1>7. r[1] = d /\ Len(r) = Len(s) + 1
  BY <1>1, <1>2, <1>5, <1>6, Zenon
<1>8. ASSUME NEW k \in 1 .. Len(s) PROVE r[k + 1] = s[k]
  <2>1. r[k + 1] = s[(k + 1) - 1]
    BY <1>4, <1>6, Zenon
  <2> QED
    BY <1>4, <2>1, Zenon
<1> QED
  BY <1>2, <1>7, <1>8, Zenon

\* A controller more.
LEMMA OneMore ==
  ASSUME NEW S, NEW f \in Seq(S), NEW c \in S
  PROVE  /\ Append(f, c) \in Seq(S)
         /\ Len(Append(f, c)) = Len(f) + 1
         /\ Append(f, c)[Len(f) + 1] = c
         /\ \A k \in 1 .. Len(f) : Append(f, c)[k] = f[k]
OBVIOUS


----------------------------------------------------------------------------
(* Steps that leave the devices alone.                                      *)

LEMMA ThreadKeeps ==
  ASSUME ControllersInv,
         UNCHANGED <<pads, held, presses, buffer, devices, ctrl, next_id, leaving,
                     denied, shadowed, unknown>>,
         inotify' \in Seq(Names), scan' \subseteq Names,
         stage' \in {"scan", "idle", "inotify", "open", "walk", "callback"},
         back' \in {"none", "scan", "inotify", "walk"},
         opening' \in Names \union {None},
         i' \in Nat, i' # 0, stage' = "walk" => i' <= Len(devices) + 1,
         Stages'
  PROVE  ControllersInv'
<1>1. /\ pads' = pads /\ held' = held /\ presses' = presses /\ buffer' = buffer
      /\ devices' = devices /\ ctrl' = ctrl /\ next_id' = next_id
      /\ leaving' = leaving /\ denied' = denied /\ shadowed' = shadowed
      /\ unknown' = unknown
  BY Zenon
<1>2. ControllerTypes'
  BY <1>1, Zenon DEF ControllersInv, ControllerTypes, ControllersTypeOK, Ids
<1>3. Hardware' /\ DevicesFollow'
  BY <1>1, Zenon DEF ControllersInv, Hardware, DevicesFollow, Present, Opened
<1>4. Reports'
  BY <1>1, Zenon DEF ControllersInv, Reports, Ids, HasDevice
<1>5. (\A k \in 1 .. Len(devices) : SameButtons(devices[k]))'
  BY <1>1, Zenon DEF ControllersInv, SameButtons, Present
<1> QED
  BY <1>2, <1>3, <1>4, <1>5, Zenon DEF ControllersInv

\* What the invariant says of where the thread is.
LEMMA ThreadIs ==
  ASSUME ControllersInv
  PROVE  /\ inotify \in Seq(Names) /\ scan \subseteq Names
         /\ stage \in {"scan", "idle", "inotify", "open", "walk", "callback"}
         /\ back \in {"none", "scan", "inotify", "walk"}
         /\ opening \in Names \union {None}
         /\ i \in Nat \ {0} /\ Len(devices) \in Nat /\ 1 <= Len(devices) + 1
         /\ devices \in Seq([id : Ids, path : Names, pad : Pads])
         /\ DOMAIN devices = 1 .. Len(devices)
         /\ stage = "walk" => i <= Len(devices) + 1
BY DEF ControllersInv, ControllerTypes, ControllersTypeOK

\* A list is looked for a path and added to, or not.
LEMMA AddStages ==
  ASSUME ControllersInv, NEW path \in Names, NEW from \in {"scan", "inotify"},
         stage = from, AddDevice(path, from), UNCHANGED <<i, devices, leaving>>
  PROVE  /\ stage' \in {"scan", "inotify", "open"}
         /\ back' \in {"none", "scan", "inotify"}
         /\ opening' \in Names \union {None}
         /\ Stages'
<1>1. i' = i /\ devices' = devices /\ leaving' = leaving
  BY Zenon
<1>2. stage # "open" /\ stage # "callback" /\ stage # "walk"
  OBVIOUS
<1>3. Stages /\ back = "none" /\ i = 1 /\ leaving = 0 /\ opening \in Names \union {None}
  BY <1>2 DEF ControllersInv, Stages, ControllerTypes, ControllersTypeOK
<1>4. CASE Listed(path)
  <2>1. stage' = stage /\ back' = back /\ opening' = opening
    BY <1>4, Zenon DEF AddDevice
  <2> QED
    BY <1>1, <1>2, <1>3, <2>1 DEF Stages
<1>5. CASE ~Listed(path)
  <2>1. stage' = "open" /\ back' = from /\ opening' = path
    BY <1>5, Zenon DEF AddDevice
  <2>2. ~Listed(opening)'
    BY <1>1, <1>5, <2>1, Zenon DEF Listed
  <2> QED
    BY <1>1, <1>3, <2>1, <2>2 DEF Stages
<1> QED
  BY <1>4, <1>5

LEMMA ScanEntryKeeps ==
  ASSUME ControllersInv, NEW name \in Names, ScanEntry(name)
  PROVE  ControllersInv'
<1>1. /\ stage = "scan" /\ scan' = scan \ {name} /\ AddDevice(name, "scan")
      /\ inotify' = inotify /\ i' = i
      /\ UNCHANGED <<pads, held, presses, buffer, devices, ctrl, next_id, leaving,
                     denied, shadowed, unknown>>
  BY Zenon DEF ScanEntry, walkVars, historyVars
<1>2. /\ stage' \in {"scan", "inotify", "open"}
      /\ back' \in {"none", "scan", "inotify"}
      /\ opening' \in Names \union {None}
      /\ Stages'
  BY <1>1, AddStages, Zenon
<1>3. scan' \subseteq Names /\ inotify' \in Seq(Names) /\ i' \in Nat /\ i' # 0
  BY <1>1, ThreadIs, Zenon
<1>4. /\ stage' \in {"scan", "idle", "inotify", "open", "walk", "callback"}
      /\ back' \in {"none", "scan", "inotify", "walk"} /\ stage' # "walk"
  BY <1>2
<1> QED
  BY <1>1, <1>2, <1>3, <1>4, ThreadKeeps, Zenon

LEMMA ReadNotificationKeeps ==
  ASSUME ControllersInv, ReadNotification
  PROVE  ControllersInv'
<1>1. /\ stage = "inotify" /\ inotify # <<>> /\ inotify' = Tail(inotify)
      /\ AddDevice(Head(inotify), "inotify")
      /\ scan' = scan /\ i' = i
      /\ UNCHANGED <<pads, held, presses, buffer, devices, ctrl, next_id, leaving,
                     denied, shadowed, unknown>>
  BY Zenon DEF ReadNotification, walkVars, historyVars
<1>2. Head(inotify) \in Names /\ Tail(inotify) \in Seq(Names)
  BY <1>1, ThreadIs
<1>3. /\ stage' \in {"scan", "inotify", "open"}
      /\ back' \in {"none", "scan", "inotify"}
      /\ opening' \in Names \union {None}
      /\ Stages'
  BY <1>1, <1>2, AddStages, Zenon
<1>4. scan' \subseteq Names /\ inotify' \in Seq(Names) /\ i' \in Nat /\ i' # 0
  BY <1>1, <1>2, ThreadIs, Zenon
<1>5. /\ stage' \in {"scan", "idle", "inotify", "open", "walk", "callback"}
      /\ back' \in {"none", "scan", "inotify", "walk"} /\ stage' # "walk"
  BY <1>3
<1> QED
  BY <1>1, <1>3, <1>4, <1>5, ThreadKeeps, Zenon

\* The steps between the parts of a poll.
LEMMA PollingKeeps ==
  ASSUME ControllersInv, EndScan \/ Poll \/ BeginWalk \/ EndWalk
  PROVE  ControllersInv'
<1>1. /\ stage \in {"scan", "idle", "inotify", "walk"}
      /\ stage' \in {"idle", "inotify", "walk"}
      /\ i' = i \/ (stage = "walk" /\ i' = 1)
      /\ stage = "walk" => i' = 1 /\ stage' = "idle"
      /\ UNCHANGED <<pads, held, presses, buffer, devices, ctrl, next_id, leaving,
                     denied, shadowed, unknown, inotify, scan, back, opening>>
  <2>1. \/ stage = "scan" /\ stage' = "idle" /\ i' = i
        \/ stage = "idle" /\ stage' = "inotify" /\ i' = i
        \/ stage = "inotify" /\ stage' = "walk" /\ i' = i
        \/ stage = "walk" /\ stage' = "idle" /\ i' = 1
    <3>1. CASE EndScan
      BY <3>1, Zenon DEF EndScan, walkVars
    <3>2. CASE Poll
      BY <3>2, Zenon DEF Poll, walkVars
    <3>3. CASE BeginWalk
      BY <3>3, Zenon DEF BeginWalk, walkVars
    <3>4. CASE EndWalk
      BY <3>4, Zenon DEF EndWalk
    <3> QED
      BY <3>1, <3>2, <3>3, <3>4, Zenon
  <2>2. UNCHANGED <<pads, held, presses, buffer, devices, ctrl, next_id, leaving,
                    denied, shadowed, unknown, inotify, scan, back, opening>>
    BY Zenon DEF EndScan, Poll, BeginWalk, EndWalk, worldVars, walkVars, historyVars
  <2>3. i' = i \/ (stage = "walk" /\ i' = 1)
    <3>1. CASE i' = i
      BY <3>1, Zenon
    <3>2. CASE stage = "walk" /\ stage' = "idle" /\ i' = 1
      BY <3>2, Zenon
    <3> QED
      BY <2>1, <3>1, <3>2, Zenon
  <2>4. stage \in {"scan", "idle", "inotify", "walk"}
    BY <2>1, Zenon
  <2>5. stage' \in {"idle", "inotify", "walk"}
    BY <2>1, Zenon
  <2>6. stage = "walk" => i' = 1 /\ stage' = "idle"
    BY <2>1
  <2> QED
    BY <2>2, <2>3, <2>4, <2>5, <2>6, Zenon
<1>2. /\ stage \notin {"open", "callback"} /\ stage' \notin {"open", "callback"}
      /\ stage' \in {"scan", "idle", "inotify", "open", "walk", "callback"}
  BY <1>1
<1>3. Stages /\ back = "none" /\ leaving = 0
  BY <1>2 DEF ControllersInv, Stages
<1>4. i' = 1
  BY <1>1, <1>3 DEF Stages
<1>5. Stages'
  BY <1>1, <1>2, <1>3, <1>4 DEF Stages
<1>6. /\ i' \in Nat /\ i' # 0 /\ i' <= Len(devices) + 1
      /\ inotify' \in Seq(Names) /\ scan' \subseteq Names
      /\ back' \in {"none", "scan", "inotify", "walk"}
      /\ opening' \in Names \union {None}
  BY <1>1, <1>4, ThreadIs
<1> QED
  BY <1>1, <1>2, <1>5, <1>6, ThreadKeeps, Zenon

\* Nothing is added.
LEMMA NotOpenedKeeps ==
  ASSUME ControllersInv, OpenFails \/ OpenOther
  PROVE  ControllersInv'
<1>1. /\ stage = "open" /\ stage' = back /\ back' = "none" /\ opening' = None
      /\ i' = i
      /\ UNCHANGED <<pads, held, presses, buffer, devices, ctrl, next_id, leaving,
                     denied, shadowed, unknown, inotify, scan>>
  BY Zenon DEF OpenFails, OpenOther, Returned, worldVars, walkVars, historyVars
<1>2. Stages /\ back \in {"scan", "inotify"} /\ leaving = 0 /\ i = 1
  BY <1>1 DEF ControllersInv, Stages
<1>3. Stages'
  BY <1>1, <1>2 DEF Stages
<1>4. /\ i' \in Nat /\ i' # 0 /\ stage' # "walk"
      /\ stage' \in {"scan", "idle", "inotify", "open", "walk", "callback"}
      /\ back' \in {"none", "scan", "inotify", "walk"}
      /\ inotify' \in Seq(Names) /\ scan' \subseteq Names
      /\ opening' \in Names \union {None}
  BY <1>1, <1>2, ThreadIs
<1> QED
  BY <1>1, <1>3, <1>4, ThreadKeeps, Zenon


----------------------------------------------------------------------------
(* Controllers come and go.                                                 *)

\* What the invariant says of the devices and the controllers.
LEMMA DevicesAre ==
  ASSUME ControllersInv, NEW k \in 1 .. Len(devices)
  PROVE  /\ devices[k] \in [id : Ids, path : Names, pad : Pads]
         /\ devices[k].id \in Ids /\ devices[k].pad \in Pads
         /\ devices[k].path \in Names
         /\ devices[k].id # leaving
         /\ OfPad(devices[k], pads)
         /\ SameButtons(devices[k])
         /\ \A j \in 1 .. Len(devices) :
              devices[j].id = devices[k].id \/ devices[j].pad = devices[k].pad => j = k
<1>1. devices[k] \in [id : Ids, path : Names, pad : Pads]
  <2> PICK S : S = [id : Ids, path : Names, pad : Pads]
    OBVIOUS
  <2>1. devices \in Seq(S)
    BY ThreadIs, Zenon
  <2>2. devices[k] \in S
    BY <2>1, ElementOfSeq, Zenon
  <2> QED
    BY <2>2, Zenon
<1>2. /\ devices[k].id \in Ids /\ devices[k].pad \in Pads /\ devices[k].path \in Names
  BY <1>1
<1> QED
  BY <1>1, <1>2, Zenon DEF ControllersInv, DevicesFollow

Controller == [lost : BOOLEAN, buttons : SUBSET Buttons,
               told : {"nothing", "connected", "disconnected"}]

LEMMA ControllersAre ==
  ASSUME ControllersInv
  PROVE  /\ next_id \in Nat
         /\ ctrl \in [1 .. next_id -> Controller]
         /\ \A c \in Ids : /\ ctrl[c] \in Controller
                           /\ ctrl[c].lost \in BOOLEAN
                           /\ ctrl[c].buttons \in SUBSET Buttons
                           /\ c \in Nat /\ c # 0
<1>1. /\ next_id \in Nat /\ Ids = 1 .. next_id
      /\ ctrl \in [1 .. next_id -> Controller]
  BY Zenon DEF ControllersInv, ControllerTypes, ControllersTypeOK, Ids, Controller
<1>2. \A c \in Ids : ctrl[c] \in Controller /\ c \in Nat /\ c # 0
  BY <1>1
<1>3. \A c \in Ids : ctrl[c].lost \in BOOLEAN /\ ctrl[c].buttons \in SUBSET Buttons
  BY <1>2 DEF Controller
<1> QED
  BY <1>1, <1>2, <1>3, Zenon

\* The record of a device, with the numbers known so far.
Device(n) == [id : 1 .. n, path : Names, pad : Pads]

LEMMA WiderList ==
  ASSUME NEW n \in Nat, NEW s \in Seq(Device(n))
  PROVE  s \in Seq(Device(n + 1))
<1>1. Device(n) \subseteq Device(n + 1)
  BY DEF Device
<1> PICK S, T : S = Device(n) /\ T = Device(n + 1)
  OBVIOUS
<1>2. S \subseteq T /\ s \in Seq(S)
  BY <1>1, Zenon
<1>3. s \in Seq(T)
  BY <1>2
<1> QED
  BY <1>3, Zenon

\* A new number is one that no device and no controller has.
LEMMA NumbersAre ==
  ASSUME ControllersInv
  PROVE  /\ next_id + 1 \notin Ids /\ next_id + 1 \in 1 .. next_id + 1
         /\ next_id + 1 # 0 /\ next_id + 1 \in Nat
         /\ \A c : c \in 1 .. next_id + 1 <=> c \in Ids \/ c = next_id + 1
BY ControllersAre DEF Ids

\* What follows for one device, if no other has to do with it: its buttons and
\* its pad are as they were.
LEMMA SameButtonsStays ==
  ASSUME NEW d, SameButtons(d), Present(d.pad)' => Present(d.pad),
         ctrl'[d.id].buttons = ctrl[d.id].buttons, buffer'[d.pad] = buffer[d.pad],
         unknown'[d.pad] = unknown[d.pad], held'[d.pad] = held[d.pad]
  PROVE  SameButtons(d)'
BY Zenon DEF SameButtons, Same

\* The controllers with one more.
Added(more, new) ==
  /\ more \in [1 .. next_id + 1 -> Controller]
  /\ more[next_id + 1] = new
  /\ \A c \in Ids : more[c] = ctrl[c]

LEMMA ControllerAdded ==
  ASSUME ControllersInv, NEW new \in Controller
  PROVE  Added(Append(ctrl, new), new)
<1> PICK g : g = Append(ctrl, new)
  OBVIOUS
<1>1. ctrl \in Seq(Controller) /\ Len(ctrl) = next_id
  BY ControllersAre
<1>2. /\ g \in Seq(Controller) /\ Len(g) = Len(ctrl) + 1 /\ g[Len(ctrl) + 1] = new
      /\ \A c \in 1 .. Len(ctrl) : g[c] = ctrl[c]
  BY <1>1, OneMore, Zenon
<1>3. g \in [1 .. Len(g) -> Controller]
  BY <1>2, LenProperties
<1>4. g \in [1 .. next_id + 1 -> Controller] /\ g[next_id + 1] = new
  BY <1>1, <1>2, <1>3
<1>5. \A c \in 1 .. next_id : g[c] = ctrl[c]
  BY <1>1, <1>2, Zenon
<1> QED
  BY <1>4, <1>5, Zenon DEF Added, Ids

LEMMA OpenGamepadKeeps ==
  ASSUME ControllersInv, OpenGamepad
  PROVE  ControllersInv'
<1> PICK p \in PadAt(opening) :
      /\ devices' = <<[id |-> next_id + 1, path |-> opening, pad |-> p]>> \o devices
      /\ unknown' = [unknown EXCEPT ![p] = held[p]]
  BY Zenon DEF OpenGamepad
<1> PICK d : d = [id |-> next_id + 1, path |-> opening, pad |-> p]
  OBVIOUS
<1> PICK new : new = [lost |-> FALSE, buttons |-> {}, told |-> "connected"]
  OBVIOUS
<1> PICK L : L = Len(devices)
  OBVIOUS
<1> PICK n : n = next_id + 1
  OBVIOUS
<1>1. /\ stage = "open" /\ next_id' = n /\ ctrl' = Append(ctrl, new)
      /\ stage' = "callback" /\ opening' = None
      /\ devices' = <<d>> \o devices
      /\ UNCHANGED <<pads, held, presses, inotify, scan, buffer, back, i, leaving,
                     denied, shadowed>>
  BY Zenon DEF OpenGamepad, worldVars, walkVars
<1>2. /\ back \in {"scan", "inotify"} /\ opening \in Names /\ ~Listed(opening)
      /\ leaving = 0 /\ i = 1 /\ back # "walk"
  BY <1>1 DEF ControllersInv, Stages
<1>3. /\ p \in Pads /\ Present(p) /\ pads[p].name = opening /\ pads[p].phase = "present"
  BY Zenon DEF PadAt, Present
<1>4. /\ d.id = n /\ d.path = opening /\ d.pad = p
  OBVIOUS
<1>5. /\ new \in Controller /\ new.lost = FALSE /\ new.buttons = {}
      /\ new.told = "connected"
  BY DEF Controller
<1>6. /\ next_id \in Nat /\ n \in Nat /\ ctrl \in [1 .. next_id -> Controller]
      /\ \A c \in Ids : /\ ctrl[c] \in Controller
                        /\ ctrl[c].lost \in BOOLEAN /\ c \in Nat /\ c # 0
  <2>1. next_id + 1 \in Nat
    BY NumbersAre, Zenon
  <2> QED
    BY <2>1, ControllersAre, Zenon
<1>7. /\ ctrl' \in [1 .. n -> Controller] /\ ctrl'[n] = new
      /\ \A c \in Ids : ctrl'[c] = ctrl[c]
  <2>1. Added(Append(ctrl, new), new)
    BY <1>5, ControllerAdded, Zenon
  <2> QED
    BY <1>1, <2>1, Zenon DEF Added
<1>8. /\ n \notin Ids /\ n \in 1 .. n /\ n # 0
      /\ \A c : c \in 1 .. n <=> c \in Ids \/ c = n
  BY NumbersAre, Zenon
<1>9. L \in Nat /\ DOMAIN devices = 1 .. L
  BY ThreadIs
<1>10. /\ devices' \in Seq(Device(n)) /\ Len(devices') = L + 1 /\ devices'[1] = d
       /\ \A k \in 1 .. L : devices'[k + 1] = devices[k]
  <2>1. devices \in Seq(Device(next_id))
    BY ThreadIs, Zenon DEF Device, Ids
  <2>2. devices \in Seq(Device(n))
    BY <1>6, <2>1, WiderList, Zenon
  <2>3. d \in Device(n)
    BY <1>2, <1>3, <1>8 DEF Device
  <2> PICK a : a = <<d>>
    OBVIOUS
  <2> PICK r : r = a \o devices
    OBVIOUS
  <2>4. /\ r \in Seq(Device(n)) /\ Len(r) = Len(devices) + 1 /\ r[1] = d
        /\ \A k \in 1 .. Len(devices) : r[k + 1] = devices[k]
    <3>1. /\ a \o devices \in Seq(Device(n)) /\ (a \o devices)[1] = d
          /\ Len(a \o devices) = Len(devices) + 1
          /\ \A k \in 1 .. Len(devices) : (a \o devices)[k + 1] = devices[k]
      BY <2>2, <2>3, LinkedInFront
    <3> QED
      BY <3>1, Zenon
  <2> QED
    BY <1>1, <2>4, Zenon
<1>11. \A k \in 1 .. L + 1 : k = 1 \/ \E j \in 1 .. L : k = j + 1
  <2> TAKE k \in 1 .. L + 1
  <2>1. k = 1 \/ (k - 1 \in 1 .. L /\ k = (k - 1) + 1)
    BY <1>9
  <2> QED
    BY <2>1, Zenon
<1>12. DOMAIN devices' = 1 .. L + 1 /\ 1 \in 1 .. L + 1
       /\ \A j \in 1 .. L : j + 1 \in 1 .. L + 1
  BY <1>9, <1>10
<1>13. ASSUME NEW k \in 1 .. L
       PROVE  devices[k].id \in Ids /\ devices[k].id # n /\ devices[k].pad # p
  <2>1. devices[k].id \in Ids /\ OfPad(devices[k], pads)
    BY DevicesAre, Zenon
  <2>2. devices[k].path # opening
    BY <1>2, <1>9, Zenon DEF Listed
  <2> QED
    BY <1>3, <1>8, <2>1, <2>2, Zenon DEF OfPad
<1>14. ~Opened(p)
  BY <1>9, <1>13, Zenon DEF Opened
<1>15. ControllerTypes'
  <2>1. Ids' = 1 .. n
    BY <1>1, Zenon DEF Ids
  <2>2. devices' \in Seq([id : Ids', path : Names, pad : Pads])
    BY <1>10, <2>1, Zenon DEF Device
  <2>3. unknown' \in [Pads -> SUBSET Buttons]
    <3>1. unknown \in [Pads -> SUBSET Buttons] /\ held \in [Pads -> SUBSET Buttons]
      BY Zenon DEF ControllersInv, ControllerTypes, ControllersTypeOK
    <3> QED
      BY <1>3, <3>1
  <2>4. leaving' \in Ids' \union {0}
    BY <1>1, <1>2, Zenon
  <2>5. ctrl' \in [Ids' -> [lost : BOOLEAN, buttons : SUBSET Buttons,
                             told : {"nothing", "connected", "disconnected"}]]
    BY <1>7, <2>1, Zenon DEF Controller
  <2>6. stage' \in {"scan", "idle", "inotify", "open", "walk", "callback"}
        /\ stage' # "walk"
    BY <1>1
  <2>7. next_id' \in Nat
    BY <1>1, <1>6, Zenon
  <2> QED
    BY <1>1, <2>2, <2>3, <2>4, <2>5, <2>6, <2>7, Zenon
    DEF ControllersInv, ControllerTypes, ControllersTypeOK
<1>16. Stages'
  BY <1>1, <1>2 DEF Stages
<1>17. Hardware'
  <2>1. ASSUME NEW q \in Pads, Opened(q) PROVE Opened(q)'
    <3>1. PICK k \in 1 .. L : devices[k].pad = q
      BY <1>9, <2>1, Zenon DEF Opened
    <3>2. devices'[k + 1].pad = q /\ k + 1 \in DOMAIN devices'
      BY <1>10, <1>12, <3>1, Zenon
    <3> QED
      BY <3>2, Zenon DEF Opened
  <2>2. pads' = pads /\ buffer' = buffer
    BY <1>1, Zenon
  <2> QED
    BY <2>1, <2>2, Zenon DEF ControllersInv, Hardware, Present
<1>18. DevicesFollow'
  <2>1. ASSUME NEW k \in 1 .. L + 1
        PROVE  devices'[k].id # leaving' /\ OfPad(devices'[k], pads')
    <3>1. CASE k = 1
      <4>1. "present" # "away"
        OBVIOUS
      <4>2. OfPad(d, pads)
        BY <1>3, <1>4, <4>1, Zenon DEF OfPad
      <4> QED
        BY <1>1, <1>2, <1>4, <1>8, <1>10, <3>1, <4>2, Zenon
    <3>2. ASSUME NEW j \in 1 .. L, k = j + 1
          PROVE  devices'[k].id # leaving' /\ OfPad(devices'[k], pads')
      <4>1. devices'[k] = devices[j]
        BY <1>10, <3>2, Zenon
      <4> QED
        BY <1>1, <4>1, DevicesAre, Zenon
    <3> QED
      BY <1>11, <3>1, <3>2, Zenon
  <2>2. ASSUME NEW j \in 1 .. L + 1, NEW k \in 1 .. L + 1,
               devices'[j].id = devices'[k].id \/ devices'[j].pad = devices'[k].pad
        PROVE  j = k
    <3>1. CASE j = 1
      <4> PICK o \in 1 .. L + 1 : o = k
        OBVIOUS
      <4>1. devices'[j] = d
        BY <1>10, <3>1, Zenon
      <4>2. ASSUME NEW a \in 1 .. L, o = a + 1 PROVE FALSE
        <5>1. devices'[o] = devices[a]
          BY <1>10, <4>2, Zenon
        <5>2. devices[a].id # d.id /\ devices[a].pad # d.pad
          BY <1>4, <1>13, Zenon
        <5> QED
          BY <2>2, <4>1, <5>1, <5>2, Zenon
      <4> QED
        BY <1>11, <3>1, <4>2, Zenon
    <3>2. CASE k = 1
      <4> PICK o \in 1 .. L + 1 : o = j
        OBVIOUS
      <4>1. devices'[k] = d
        BY <1>10, <3>2, Zenon
      <4>2. ASSUME NEW a \in 1 .. L, o = a + 1 PROVE FALSE
        <5>1. devices'[o] = devices[a]
          BY <1>10, <4>2, Zenon
        <5>2. devices[a].id # d.id /\ devices[a].pad # d.pad
          BY <1>4, <1>13, Zenon
        <5> QED
          BY <2>2, <4>1, <5>1, <5>2, Zenon
      <4> QED
        BY <1>11, <3>2, <4>2, Zenon
    <3>3. ASSUME NEW a \in 1 .. L, NEW b \in 1 .. L, j = a + 1, k = b + 1
          PROVE  a = b
      <4>1. devices'[j] = devices[a] /\ devices'[k] = devices[b]
        BY <1>10, <3>3, Zenon
      <4>2. devices[a].id = devices[b].id \/ devices[a].pad = devices[b].pad
        BY <2>2, <4>1, Zenon
      <4> QED
        BY <4>2, DevicesAre, Zenon
    <3> QED
      BY <1>11, <3>1, <3>2, <3>3, Zenon
  <2>3. Len(devices') = L + 1
    BY <1>10, Zenon
  <2> QED
    BY <2>1, <2>2, <2>3, Zenon DEF DevicesFollow
<1>19. Reports'
  <2>1. ASSUME NEW c \in Ids PROVE HasDevice(c)' <=> HasDevice(c)
    <3>1. HasDevice(c) => HasDevice(c)'
      BY <1>10, <1>12, Zenon DEF HasDevice
    <3>2. HasDevice(c)' => HasDevice(c)
      <4>1. ASSUME NEW k \in 1 .. L + 1, devices'[k].id = c
            PROVE  \E j \in 1 .. L : devices[j].id = c
        <5>1. k # 1
          <6>1. k = 1 => devices'[k] = d
            BY <1>10, Zenon
          <6>2. d.id # c
            BY <1>4, <1>8, Zenon
          <6> QED
            BY <4>1, <6>1, <6>2, Zenon
        <5> QED
          BY <1>10, <1>11, <4>1, <5>1, Zenon
      <4> QED
        BY <1>10, <4>1, Zenon DEF HasDevice
    <3> QED
      BY <3>1, <3>2
  <2>2. HasDevice(n)'
    BY <1>4, <1>10, <1>12, Zenon DEF HasDevice
  <2>3. ASSUME NEW c \in 1 .. n
        PROVE  /\ ctrl'[c].told = "connected" <=> HasDevice(c)'
               /\ ~ctrl'[c].lost <=> HasDevice(c)' \/ c = leaving'
    <3>1. CASE c \in Ids
      BY <1>1, <1>7, <2>1, <3>1, Zenon DEF ControllersInv, Reports
    <3>2. CASE c = n
      BY <1>5, <1>7, <2>2, <3>2, Zenon
    <3> QED
      BY <1>8, <3>1, <3>2, Zenon
  <2>4. Ids' = 1 .. n
    BY <1>1, Zenon DEF Ids
  <2> QED
    BY <2>3, <2>4, Zenon DEF Reports
<1>20. ASSUME NEW k \in 1 .. L + 1 PROVE SameButtons(devices[k])'
  <2>1. /\ pads' = pads /\ held' = held /\ buffer' = buffer
        /\ buffer[p] = <<>>
        /\ unknown'[p] = held[p]
        /\ \A q \in Pads : q # p => unknown'[q] = unknown[q]
    <3>1. unknown \in [Pads -> SUBSET Buttons]
      BY Zenon DEF ControllersInv, ControllerTypes, ControllersTypeOK
    <3>2. buffer[p] = <<>>
      BY <1>3, <1>14, Zenon DEF ControllersInv, Hardware
    <3> QED
      BY <1>1, <1>3, <3>1, <3>2, Zenon
  <2>2. CASE k = 1
    <3>1. devices'[k] = d
      BY <1>10, <2>2, Zenon
    <3>2. Replay({}, <<>>) = {}
      <4>1. {} \in SUBSET Buttons /\ <<>> \in Seq(InputEvent)
        OBVIOUS
      <4> QED
        BY <4>1, Replayed, Zenon
    <3>3. ctrl'[n].buttons = {}
      BY <1>5, <1>7, Zenon
    <3>4. Same(TRUE, {}, <<>>, held[p], held[p])
      BY <3>2, Zenon DEF Same
    <3>5. SameButtons(d)'
      BY <1>4, <2>1, <3>3, <3>4, Zenon DEF SameButtons, Same
    <3> QED
      BY <3>1, <3>5, Zenon
  <2>3. ASSUME NEW j \in 1 .. L, k = j + 1 PROVE SameButtons(devices[k])'
    <3> PICK e : e = devices[j]
      OBVIOUS
    <3>1. devices'[k] = e
      BY <1>10, <2>3, Zenon
    <3>2. e.id \in Ids /\ e.pad \in Pads /\ e.pad # p /\ SameButtons(e)
      BY <1>13, DevicesAre, Zenon
    <3>3. Present(e.pad)' => Present(e.pad)
      BY <1>1, Zenon DEF Present
    <3>4. SameButtons(e)'
      BY <1>7, <2>1, <3>2, <3>3, SameButtonsStays, Zenon
    <3> QED
      BY <3>1, <3>4, Zenon
  <2> QED
    BY <1>11, <2>2, <2>3, Zenon
<1>21. (\A k \in 1 .. Len(devices) : SameButtons(devices[k]))'
  BY <1>10, <1>20, Zenon
<1> QED
  BY <1>15, <1>16, <1>17, <1>18, <1>19, <1>21, Zenon DEF ControllersInv


LEMMA OpenWithoutMemoryKeeps ==
  ASSUME ControllersInv, OpenWithoutMemory
  PROVE  ControllersInv'
<1> PICK new : new = [lost |-> TRUE, buttons |-> {}, told |-> "nothing"]
  OBVIOUS
<1> PICK n : n = next_id + 1
  OBVIOUS
<1>1. /\ stage = "open" /\ next_id' = n /\ ctrl' = Append(ctrl, new)
      /\ stage' = "callback" /\ opening' = None
      /\ \E p \in Pads : denied' = denied \union {p}
      /\ UNCHANGED <<pads, held, presses, inotify, scan, buffer, back, devices, i,
                     leaving, shadowed, unknown>>
  BY Zenon DEF OpenWithoutMemory, worldVars, walkVars, PadAt
<1>2. /\ back \in {"scan", "inotify"} /\ leaving = 0 /\ i = 1 /\ back # "walk"
  BY <1>1 DEF ControllersInv, Stages
<1>3. /\ new \in Controller /\ new.lost = TRUE /\ new.buttons = {}
      /\ new.told # "connected"
  BY DEF Controller
<1>4. /\ ctrl' \in [1 .. n -> Controller] /\ ctrl'[n] = new
      /\ \A c \in Ids : ctrl'[c] = ctrl[c]
  <2>1. Added(Append(ctrl, new), new)
    BY <1>3, ControllerAdded, Zenon
  <2> QED
    BY <1>1, <2>1, Zenon DEF Added
<1>5. /\ n \notin Ids /\ n # 0 /\ n \in Nat /\ next_id \in Nat
      /\ \A c : c \in 1 .. n <=> c \in Ids \/ c = n
  BY NumbersAre, ControllersAre, Zenon
<1>6. Ids' = 1 .. n
  BY <1>1, Zenon DEF Ids
<1>7. ControllerTypes'
  <2>1. devices' \in Seq([id : Ids', path : Names, pad : Pads])
    <3>1. devices \in Seq(Device(next_id))
      BY ThreadIs, Zenon DEF Device, Ids
    <3>2. devices \in Seq(Device(n))
      BY <1>5, <3>1, WiderList, Zenon
    <3> QED
      BY <1>1, <1>6, <3>2, Zenon DEF Device
  <2>2. leaving' \in Ids' \union {0}
    BY <1>1, <1>2, Zenon
  <2>3. ctrl' \in [Ids' -> [lost : BOOLEAN, buttons : SUBSET Buttons,
                             told : {"nothing", "connected", "disconnected"}]]
    BY <1>4, <1>6, Zenon DEF Controller
  <2>4. stage' \in {"scan", "idle", "inotify", "open", "walk", "callback"}
        /\ stage' # "walk"
    BY <1>1
  <2>5. denied' \subseteq Pads
    BY <1>1, Zenon DEF ControllersInv, ControllerTypes, ControllersTypeOK
  <2>6. next_id' \in Nat
    BY <1>1, <1>5, Zenon
  <2> QED
    BY <1>1, <2>1, <2>2, <2>3, <2>4, <2>5, <2>6, Zenon
    DEF ControllersInv, ControllerTypes, ControllersTypeOK
<1>8. Stages'
  BY <1>1, <1>2 DEF Stages
<1>9. Hardware' /\ DevicesFollow'
  BY <1>1, Zenon DEF ControllersInv, Hardware, DevicesFollow, Present, Opened
<1>10. Reports'
  <2>1. \A c : HasDevice(c)' <=> HasDevice(c)
    BY <1>1, Zenon DEF HasDevice
  <2>2. ~HasDevice(n)
    BY <1>5, DevicesAre, Zenon DEF HasDevice
  <2>3. ASSUME NEW c \in 1 .. n
        PROVE  /\ ctrl'[c].told = "connected" <=> HasDevice(c)'
               /\ ~ctrl'[c].lost <=> HasDevice(c)' \/ c = leaving'
    <3>1. CASE c \in Ids
      BY <1>1, <1>4, <2>1, <3>1, Zenon DEF ControllersInv, Reports
    <3>2. CASE c = n
      BY <1>1, <1>2, <1>3, <1>4, <1>5, <2>1, <2>2, <3>2, Zenon
    <3> QED
      BY <1>5, <2>3, <3>1, <3>2, Zenon
  <2> QED
    BY <1>6, <2>3, Zenon DEF Reports
<1>11. (\A k \in 1 .. Len(devices) : SameButtons(devices[k]))'
  <2>1. ASSUME NEW k \in 1 .. Len(devices) PROVE SameButtons(devices[k])'
    <3> PICK e : e = devices[k]
      OBVIOUS
    <3>1. e.id \in Ids /\ e.pad \in Pads /\ SameButtons(e) /\ devices'[k] = e
      BY <1>1, DevicesAre, Zenon
    <3>2. Present(e.pad)' => Present(e.pad)
      BY <1>1, Zenon DEF Present
    <3>3. SameButtons(e)'
      BY <1>1, <1>4, <3>1, <3>2, SameButtonsStays, Zenon
    <3> QED
      BY <3>1, <3>3, Zenon
  <2> QED
    BY <1>1, <2>1, Zenon
<1> QED
  BY <1>7, <1>8, <1>9, <1>10, <1>11, Zenon DEF ControllersInv

\* The walk reads on.
LEMMA ReadDeviceKeeps ==
  ASSUME ControllersInv, ReadDevice
  PROVE  ControllersInv'
<1> PICK d : d = Current
  OBVIOUS
<1> PICK down : down = Replay(ctrl[d.id].buttons, buffer[d.pad])
  OBVIOUS
<1>1. /\ stage = "walk" /\ i <= Len(devices) /\ Present(d.pad) /\ d = devices[i]
      /\ ctrl' = [ctrl EXCEPT ![d.id].buttons = down]
      /\ buffer' = [buffer EXCEPT ![d.pad] = <<>>]
      /\ i' = i + 1
      /\ UNCHANGED <<pads, held, presses, inotify, scan, stage, back, opening,
                     devices, leaving, next_id, denied, shadowed, unknown>>
  BY Zenon DEF ReadDevice, Current, worldVars, historyVars
<1>2. /\ i \in 1 .. Len(devices) /\ i' \in Nat /\ i' # 0 /\ i' <= Len(devices) + 1
  <2>1. i \in Nat \ {0} /\ Len(devices) \in Nat
    BY ThreadIs, Zenon
  <2> QED
    BY <1>1, <2>1
<1>3. /\ d.id \in Ids /\ d.pad \in Pads /\ SameButtons(d)
      /\ \A j \in 1 .. Len(devices) :
           devices[j].id = d.id \/ devices[j].pad = d.pad => j = i
  BY <1>1, <1>2, DevicesAre, Zenon
<1>4. /\ ctrl \in [Ids -> Controller] /\ ctrl[d.id] \in Controller
      /\ ctrl[d.id].buttons \in SUBSET Buttons
  BY <1>3, ControllersAre, Zenon DEF Ids
<1>5. buffer \in [Pads -> Seq(InputEvent)]
  BY Zenon DEF ControllersInv, ControllerTypes
<1>6. down \in SUBSET Buttons /\ Replay(down, <<>>) = down
  <2>1. <<>> \in Seq(InputEvent)
    OBVIOUS
  <2>2. down \in SUBSET Buttons
    BY <1>3, <1>4, <1>5, Replayed
  <2> QED
    BY <2>1, <2>2, Replayed, Zenon
<1>7. /\ ctrl' \in [Ids -> Controller]
      /\ ctrl'[d.id].buttons = down
      /\ \A c \in Ids : c # d.id => ctrl'[c] = ctrl[c]
      /\ \A c \in Ids : ctrl'[c].lost = ctrl[c].lost /\ ctrl'[c].told = ctrl[c].told
  <2> PICK r : r = [ctrl[d.id] EXCEPT !.buttons = down]
    OBVIOUS
  <2>1. r \in Controller /\ r.buttons = down /\ r.lost = ctrl[d.id].lost
        /\ r.told = ctrl[d.id].told
    BY <1>4, <1>6 DEF Controller
  <2>2. ctrl' = [ctrl EXCEPT ![d.id] = r]
    BY <1>1, Zenon
  <2>3. /\ ctrl' \in [Ids -> Controller] /\ ctrl'[d.id] = r
        /\ \A c \in Ids : c # d.id => ctrl'[c] = ctrl[c]
    BY <1>3, <1>4, <2>1, <2>2, Zenon
  <2> QED
    BY <2>1, <2>3, Zenon
<1>8. /\ buffer' \in [Pads -> Seq(InputEvent)] /\ buffer'[d.pad] = <<>>
      /\ \A p \in Pads : p # d.pad => buffer'[p] = buffer[p]
  BY <1>1, <1>3, <1>5
<1>9. ControllerTypes'
  <2>1. \A p \in Pads : Len(buffer'[p]) <= BufferCap
    <3>1. \A p \in Pads : Len(buffer[p]) <= BufferCap
      BY Zenon DEF ControllersInv, ControllerTypes, ControllersTypeOK
    <3>2. Len(<<>>) <= BufferCap
      BY ControllerAssumption
    <3> QED
      BY <1>8, <3>1, <3>2, Zenon
  <2>2. \A p \in Pads : buffer'[p] \in Seq([button : Buttons, down : BOOLEAN])
    BY <1>8, Zenon DEF InputEvent
  <2>3. Ids' = Ids
    BY <1>1, Zenon DEF Ids
  <2>4. ctrl' \in [Ids -> [lost : BOOLEAN, buttons : SUBSET Buttons,
                           told : {"nothing", "connected", "disconnected"}]]
    BY <1>7, Zenon DEF Controller
  <2> QED
    BY <1>1, <1>2, <1>8, <2>1, <2>2, <2>3, <2>4, Zenon
    DEF ControllersInv, ControllerTypes, ControllersTypeOK
<1>10. Stages'
  <2>1. back = "none" /\ leaving = 0 /\ stage # "open" /\ stage # "callback"
    BY <1>1 DEF ControllersInv, Stages
  <2> QED
    BY <1>1, <2>1 DEF Stages
<1>11. Hardware' /\ DevicesFollow'
  <2>1. Hardware'
    BY <1>1, <1>3, <1>8, Zenon DEF ControllersInv, Hardware, Present, Opened
  <2>2. DevicesFollow'
    BY <1>1, Zenon DEF ControllersInv, DevicesFollow
  <2> QED
    BY <2>1, <2>2
<1>12. Reports'
  <2>1. \A c : HasDevice(c)' <=> HasDevice(c)
    BY <1>1, Zenon DEF HasDevice
  <2>2. Ids' = Ids /\ leaving' = leaving
    BY <1>1, Zenon DEF Ids
  <2> QED
    BY <1>7, <2>1, <2>2, Zenon DEF ControllersInv, Reports
<1>13. (\A k \in 1 .. Len(devices) : SameButtons(devices[k]))'
  <2>1. ASSUME NEW k \in 1 .. Len(devices) PROVE SameButtons(devices[k])'
    <3> PICK e : e = devices[k]
      OBVIOUS
    <3>1. e.id \in Ids /\ e.pad \in Pads /\ SameButtons(e) /\ devices'[k] = e
      BY <1>1, DevicesAre, Zenon
    <3>2. Present(e.pad)' <=> Present(e.pad)
      BY <1>1, Zenon DEF Present
    <3>3. CASE k = i
      <4>1. e = d /\ unknown' = unknown /\ held' = held
        BY <1>1, <3>3, Zenon
      <4> QED
        <5>1. Same(Present(d.pad), down, <<>>, unknown[d.pad], held[d.pad])
          BY <1>3, <1>6, Zenon DEF SameButtons, Same
        <5>2. SameButtons(d)'
          BY <1>7, <1>8, <3>2, <4>1, <5>1, Zenon DEF SameButtons, Same
        <5> QED
          BY <3>1, <4>1, <5>2, Zenon
    <3>4. CASE k # i
      <4>1. e.id # d.id /\ e.pad # d.pad
        BY <1>3, <3>4, Zenon
      <4> QED
        BY <1>1, <1>7, <1>8, <3>1, <3>2, <4>1, SameButtonsStays, Zenon
    <3> QED
      BY <3>3, <3>4, Zenon
  <2> QED
    BY <1>1, <2>1, Zenon
<1> QED
  BY <1>9, <1>10, <1>11, <1>12, <1>13, Zenon DEF ControllersInv


\* A device less: the walk stays where it is.
LEMMA RemoveDeviceKeeps ==
  ASSUME ControllersInv, RemoveDevice
  PROVE  ControllersInv'
<1> PICK d : d = Current
  OBVIOUS
<1> PICK n : n = i
  OBVIOUS
<1> PICK L : L = Len(devices)
  OBVIOUS
<1>1. /\ stage = "walk" /\ n <= L /\ ~Present(d.pad) /\ d = devices[n]
      /\ devices' = RemoveAt(devices, n)
      /\ ctrl' = [ctrl EXCEPT ![d.id].told = "disconnected"]
      /\ leaving' = d.id /\ stage' = "callback" /\ back' = "walk" /\ i' = n
      /\ UNCHANGED <<pads, held, presses, inotify, scan, buffer, opening, next_id,
                     denied, shadowed, unknown>>
  BY Zenon DEF RemoveDevice, Current, worldVars, historyVars
<1>2. n \in Nat /\ L \in Nat /\ n \in 1 .. L /\ n # 0 /\ n <= (L - 1) + 1
      /\ L - 1 \in Nat
  <2>1. n \in Nat \ {0} /\ L \in Nat
    BY ThreadIs, Zenon
  <2> QED
    BY <1>1, <2>1
<1>3. back = "none" /\ leaving = 0
  BY <1>1 DEF ControllersInv, Stages
<1>4. /\ d.id \in Ids /\ d.pad \in Pads
      /\ \A j \in 1 .. L : devices[j].id = d.id \/ devices[j].pad = d.pad => j = n
  BY <1>1, <1>2, DevicesAre, Zenon
<1>5. /\ devices' \in Seq(Device(next_id)) /\ Len(devices') = L - 1
      /\ \A k \in 1 .. L - 1 : devices'[k] = devices[Skip(n, k)]
  <2>1. devices \in Seq(Device(next_id))
    BY ThreadIs, Zenon DEF Device, Ids
  <2> QED
    BY <1>1, <1>2, <2>1, RemovedAt, Zenon
<1>6. /\ \A k \in 1 .. L - 1 : Skip(n, k) \in 1 .. L /\ Skip(n, k) # n
      /\ \A j, k \in 1 .. L - 1 : Skip(n, j) = Skip(n, k) => j = k
      /\ \A j \in 1 .. L : j # n => \E k \in 1 .. L - 1 : Skip(n, k) = j
  <2>1. Skips(n, L)
    BY <1>2, Skipped, Zenon
  <2> QED
    BY <2>1, Zenon DEF Skips
<1>7. DOMAIN devices' = 1 .. L - 1 /\ DOMAIN devices = 1 .. L
  <2>1. DOMAIN devices' = 1 .. Len(devices')
    BY <1>5
  <2> QED
    BY <1>5, <2>1, ThreadIs, Zenon
<1>8. /\ ctrl' \in [Ids -> Controller]
      /\ ctrl'[d.id].told = "disconnected"
      /\ \A c \in Ids : c # d.id => ctrl'[c] = ctrl[c]
      /\ \A c \in Ids : ctrl'[c].lost = ctrl[c].lost
                        /\ ctrl'[c].buttons = ctrl[c].buttons
  <2> PICK r : r = [ctrl[d.id] EXCEPT !.told = "disconnected"]
    OBVIOUS
  <2>1. ctrl \in [Ids -> Controller] /\ ctrl[d.id] \in Controller
    BY <1>4, ControllersAre, Zenon DEF Ids
  <2>2. r \in Controller /\ r.told = "disconnected" /\ r.lost = ctrl[d.id].lost
        /\ r.buttons = ctrl[d.id].buttons
    BY <2>1 DEF Controller
  <2>3. ctrl' = [ctrl EXCEPT ![d.id] = r]
    BY <1>1, Zenon
  <2>4. /\ ctrl' \in [Ids -> Controller] /\ ctrl'[d.id] = r
        /\ \A c \in Ids : c # d.id => ctrl'[c] = ctrl[c]
    BY <1>4, <2>1, <2>2, <2>3, Zenon
  <2> QED
    BY <2>2, <2>4, Zenon
<1>9. Ids' = Ids
  BY <1>1, Zenon DEF Ids
<1>10. ControllerTypes'
  <2>1. devices' \in Seq([id : Ids', path : Names, pad : Pads])
    BY <1>5, <1>9, Zenon DEF Device, Ids
  <2>2. ctrl' \in [Ids' -> [lost : BOOLEAN, buttons : SUBSET Buttons,
                            told : {"nothing", "connected", "disconnected"}]]
    BY <1>8, <1>9, Zenon DEF Controller
  <2>3. /\ stage' \in {"scan", "idle", "inotify", "open", "walk", "callback"}
        /\ back' \in {"none", "scan", "inotify", "walk"} /\ stage' # "walk"
    BY <1>1
  <2>4. leaving' \in Ids' \union {0} /\ i' \in Nat /\ i' # 0
    BY <1>1, <1>2, <1>4, <1>9, Zenon
  <2> QED
    BY <1>1, <2>1, <2>2, <2>3, <2>4, Zenon
    DEF ControllersInv, ControllerTypes, ControllersTypeOK
<1>11. Stages'
  <2>1. i' <= Len(devices') + 1
    BY <1>1, <1>2, <1>5, Zenon
  <2>2. stage' = "callback" /\ back' = "walk" /\ stage' # "open" /\ back' # "none"
    BY <1>1
  <2> QED
    BY <2>1, <2>2, Zenon DEF Stages
<1>12. Hardware'
  <2>1. ASSUME NEW p \in Pads, Opened(p), p # d.pad PROVE Opened(p)'
    <3>1. PICK j \in 1 .. L : devices[j].pad = p
      BY <1>7, <2>1, Zenon DEF Opened
    <3>2. j # n
      BY <1>1, <2>1, <3>1, Zenon
    <3>3. PICK k \in 1 .. L - 1 : Skip(n, k) = j
      BY <1>6, <3>2, Zenon
    <3>4. devices'[k] = devices[j]
      BY <1>5, <3>3, Zenon
    <3> QED
      BY <1>7, <3>1, <3>4, Zenon DEF Opened
  <2>2. buffer' = buffer /\ pads' = pads
    BY <1>1, Zenon
  <2>3. buffer[d.pad] = <<>>
    BY <1>1, <1>4, Zenon DEF ControllersInv, Hardware
  <2> QED
    BY <2>1, <2>2, <2>3, Zenon DEF ControllersInv, Hardware, Present
<1>13. ASSUME NEW k \in 1 .. L - 1
       PROVE  \E j \in 1 .. L : j # n /\ j = Skip(n, k) /\ devices'[k] = devices[j]
  BY <1>5, <1>6, Zenon
<1>14. DevicesFollow'
  <2>1. ASSUME NEW k \in 1 .. L - 1
        PROVE  devices'[k].id # leaving' /\ OfPad(devices'[k], pads')
    <3>1. PICK j \in 1 .. L : j # n /\ devices'[k] = devices[j]
      BY <1>13, Zenon
    <3>2. devices[j].id # d.id /\ OfPad(devices[j], pads)
      BY <1>4, <3>1, DevicesAre, Zenon
    <3>3. pads' = pads /\ leaving' = d.id
      BY <1>1, Zenon
    <3> QED
      BY <3>1, <3>2, <3>3, Zenon
  <2>2. ASSUME NEW j \in 1 .. L - 1, NEW k \in 1 .. L - 1,
               devices'[j].id = devices'[k].id \/ devices'[j].pad = devices'[k].pad
        PROVE  j = k
    <3>1. PICK a \in 1 .. L : a = Skip(n, j) /\ devices'[j] = devices[a]
      BY <1>13, Zenon
    <3>2. PICK b \in 1 .. L : b = Skip(n, k) /\ devices'[k] = devices[b]
      BY <1>13, Zenon
    <3>3. a = b
      <4>1. devices[a].id = devices[b].id \/ devices[a].pad = devices[b].pad
        BY <2>2, <3>1, <3>2, Zenon
      <4> QED
        BY <4>1, DevicesAre, Zenon
    <3>4. Skip(n, j) = Skip(n, k)
      BY <3>1, <3>2, <3>3, Zenon
    <3> QED
      BY <1>6, <3>4, Zenon
  <2> QED
    BY <1>5, <2>1, <2>2, Zenon DEF DevicesFollow
<1>15. Reports'
  <2>1. ASSUME NEW c \in Ids, c # d.id PROVE HasDevice(c)' <=> HasDevice(c)
    <3>1. HasDevice(c)' => HasDevice(c)
      BY <1>5, <1>13, Zenon DEF HasDevice
    <3>2. HasDevice(c) => HasDevice(c)'
      <4>1. ASSUME NEW j \in 1 .. L, devices[j].id = c
            PROVE  \E k \in 1 .. L - 1 : devices'[k].id = c
        <5>1. j # n
          BY <1>1, <2>1, <4>1, Zenon
        <5>2. PICK k \in 1 .. L - 1 : Skip(n, k) = j
          BY <1>6, <5>1, Zenon
        <5>3. devices'[k] = devices[j]
          BY <1>5, <5>2, Zenon
        <5> QED
          BY <4>1, <5>3, Zenon
      <4> QED
        BY <1>5, <4>1, Zenon DEF HasDevice
    <3> QED
      BY <3>1, <3>2
  <2>2. ~HasDevice(d.id)'
    <3>1. \A k \in 1 .. L - 1 : devices'[k].id # d.id
      BY <1>4, <1>13, Zenon
    <3> QED
      BY <1>5, <3>1, Zenon DEF HasDevice
  <2>3. HasDevice(d.id)
    BY <1>1, <1>2, Zenon DEF HasDevice
  <2>4. ASSUME NEW c \in Ids
        PROVE  /\ ctrl'[c].told = "connected" <=> HasDevice(c)'
               /\ ~ctrl'[c].lost <=> HasDevice(c)' \/ c = leaving'
    <3>1. c # 0
      BY ControllersAre, Zenon
    <3>2. CASE c = d.id
      <4>1. "disconnected" # "connected"
        OBVIOUS
      <4>2. ~ctrl[c].lost
        BY <2>3, <3>2, Zenon DEF ControllersInv, Reports
      <4> QED
        BY <1>1, <1>8, <2>2, <3>2, <4>1, <4>2, Zenon
    <3>3. CASE c # d.id
      BY <1>1, <1>3, <1>8, <2>1, <3>1, <3>3, Zenon DEF ControllersInv, Reports
    <3> QED
      BY <3>2, <3>3, Zenon
  <2> QED
    BY <1>9, <2>4, Zenon DEF Reports
<1>16. ASSUME NEW k \in 1 .. L - 1 PROVE SameButtons(devices[k])'
  <2>1. PICK j \in 1 .. L : devices'[k] = devices[j]
    BY <1>13, Zenon
  <2> PICK e : e = devices[j]
    OBVIOUS
  <2>2. e.id \in Ids /\ e.pad \in Pads /\ SameButtons(e) /\ devices'[k] = e
    BY <2>1, DevicesAre, Zenon
  <2>3. Present(e.pad)' => Present(e.pad)
    BY <1>1, Zenon DEF Present
  <2>4. SameButtons(e)'
    BY <1>1, <1>8, <2>2, <2>3, SameButtonsStays, Zenon
  <2> QED
    BY <2>2, <2>4, Zenon
<1>17. (\A k \in 1 .. Len(devices) : SameButtons(devices[k]))'
  BY <1>5, <1>16, Zenon
<1> QED
  BY <1>10, <1>11, <1>12, <1>14, <1>15, <1>17, Zenon DEF ControllersInv

LEMMA CallbackReturnsKeeps ==
  ASSUME ControllersInv, CallbackReturns
  PROVE  ControllersInv'
<1>1. /\ stage = "callback" /\ stage' = back /\ back' = "none" /\ opening' = None
      /\ leaving' = 0
      /\ ctrl' = IF leaving = 0 THEN ctrl ELSE [ctrl EXCEPT ![leaving].lost = TRUE]
      /\ UNCHANGED <<pads, held, presses, inotify, scan, buffer, devices, i, next_id,
                     denied, shadowed, unknown>>
  BY Zenon DEF CallbackReturns, Returned, worldVars, historyVars
<1>2. /\ back \in {"scan", "inotify", "walk"}
      /\ back = "walk" => i <= Len(devices) + 1
      /\ back = "walk" \/ i = 1
  <2>1. back \in {"none", "scan", "inotify", "walk"} /\ Stages
    BY ThreadIs, Zenon DEF ControllersInv
  <2> QED
    BY <1>1, <2>1 DEF Stages
<1>3. /\ ctrl' \in [Ids -> Controller]
      /\ \A c \in Ids : /\ ctrl'[c].told = ctrl[c].told
                        /\ ctrl'[c].buttons = ctrl[c].buttons
                        /\ c # leaving => ctrl'[c] = ctrl[c]
                        /\ c = leaving => ctrl'[c].lost = TRUE
  <2>1. ctrl \in [Ids -> Controller] /\ \A c \in Ids : c # 0
    BY ControllersAre, Zenon DEF Ids
  <2>2. CASE leaving = 0
    BY <1>1, <2>1, <2>2, Zenon
  <2>3. CASE leaving # 0
    <3> PICK l : l = leaving
      OBVIOUS
    <3> PICK r : r = [ctrl[l] EXCEPT !.lost = TRUE]
      OBVIOUS
    <3>1. l \in Ids
      BY <2>3, Zenon DEF ControllersInv, ControllerTypes, ControllersTypeOK
    <3>2. ctrl[l] \in Controller
      BY <2>1, <3>1, Zenon
    <3>3. r \in Controller /\ r.told = ctrl[l].told /\ r.lost = TRUE
          /\ r.buttons = ctrl[l].buttons
      BY <3>2 DEF Controller
    <3>4. ctrl' = [ctrl EXCEPT ![l] = r]
      BY <1>1, <2>3, Zenon
    <3>5. /\ ctrl' \in [Ids -> Controller] /\ ctrl'[l] = r
          /\ \A c \in Ids : c # l => ctrl'[c] = ctrl[c]
      BY <2>1, <3>1, <3>3, <3>4, Zenon
    <3> QED
      BY <3>3, <3>5, Zenon
  <2> QED
    BY <2>2, <2>3, Zenon
<1>4. Ids' = Ids
  BY <1>1, Zenon DEF Ids
<1>5. ControllerTypes'
  <2>1. ctrl' \in [Ids' -> [lost : BOOLEAN, buttons : SUBSET Buttons,
                            told : {"nothing", "connected", "disconnected"}]]
    BY <1>3, <1>4, Zenon DEF Controller
  <2>2. /\ stage' \in {"scan", "idle", "inotify", "open", "walk", "callback"}
        /\ back' \in {"none", "scan", "inotify", "walk"}
        /\ stage' = "walk" => i' <= Len(devices') + 1
    <3>1. stage' = "walk" => i' <= Len(devices') + 1
      BY <1>1, <1>2, Zenon
    <3>2. stage' \in {"scan", "idle", "inotify", "open", "walk", "callback"}
      BY <1>1, <1>2
    <3>3. back' \in {"none", "scan", "inotify", "walk"}
      BY <1>1, Zenon
    <3> QED
      BY <3>1, <3>2, <3>3, Zenon
  <2>3. leaving' \in Ids' \union {0}
    BY <1>1, Zenon
  <2> QED
    BY <1>1, <1>4, <2>1, <2>2, <2>3, Zenon
    DEF ControllersInv, ControllerTypes, ControllersTypeOK
<1>6. Stages'
  BY <1>1, <1>2 DEF Stages
<1>7. Hardware'
  BY <1>1, Zenon DEF ControllersInv, Hardware, Present, Opened
<1>8. DevicesFollow'
  <2>1. ASSUME NEW k \in 1 .. Len(devices) PROVE devices[k].id # 0
    <3>1. devices[k].id \in Ids
      BY DevicesAre, Zenon
    <3> QED
      BY <3>1, ControllersAre, Zenon
  <2> QED
    BY <1>1, <2>1, Zenon DEF ControllersInv, DevicesFollow
<1>9. Reports'
  <2>1. \A c : HasDevice(c)' <=> HasDevice(c)
    BY <1>1, Zenon DEF HasDevice
  <2>2. ~HasDevice(leaving)
    BY DevicesAre, Zenon DEF HasDevice
  <2>3. ASSUME NEW c \in Ids
        PROVE  /\ ctrl'[c].told = "connected" <=> HasDevice(c)'
               /\ ~ctrl'[c].lost <=> HasDevice(c)' \/ c = leaving'
    <3>1. c # 0
      BY ControllersAre, Zenon
    <3>2. CASE c = leaving
      BY <1>1, <1>3, <2>1, <2>2, <3>1, <3>2, Zenon DEF ControllersInv, Reports
    <3>3. CASE c # leaving
      BY <1>1, <1>3, <2>1, <3>1, <3>3, Zenon DEF ControllersInv, Reports
    <3> QED
      BY <3>2, <3>3, Zenon
  <2> QED
    BY <1>4, <2>3, Zenon DEF Reports
<1>10. (\A k \in 1 .. Len(devices) : SameButtons(devices[k]))'
  <2>1. ASSUME NEW k \in 1 .. Len(devices) PROVE SameButtons(devices[k])'
    <3> PICK e : e = devices[k]
      OBVIOUS
    <3>1. e.id \in Ids /\ e.pad \in Pads /\ SameButtons(e) /\ devices'[k] = e
      BY <1>1, DevicesAre, Zenon
    <3>2. Present(e.pad)' => Present(e.pad)
      BY <1>1, Zenon DEF Present
    <3>3. SameButtons(e)'
      BY <1>1, <1>3, <3>1, <3>2, SameButtonsStays, Zenon
    <3> QED
      BY <3>1, <3>3, Zenon
  <2> QED
    BY <1>1, <2>1, Zenon
<1> QED
  BY <1>5, <1>6, <1>7, <1>8, <1>9, <1>10, Zenon DEF ControllersInv


----------------------------------------------------------------------------
(* The hardware.                                                            *)

\* A step of the hardware leaves the thread and the devices alone.
LEMMA WorldKeeps ==
  ASSUME ControllersInv,
         UNCHANGED <<stage, back, opening, devices, i, leaving, ctrl, next_id, denied>>,
         pads' \in [Pads -> [phase : {"away", "present", "gone"},
                             name : Names \union {None}, readable : BOOLEAN,
                             gamepad : BOOLEAN]],
         held' \in [Pads -> SUBSET Buttons], presses' \in 0 .. MaxPresses,
         buffer' \in [Pads -> Seq(InputEvent)],
         \A p \in Pads : Len(buffer'[p]) <= BufferCap,
         inotify' \in Seq(Names), scan' \subseteq Names, shadowed' \subseteq Pads,
         unknown' \in [Pads -> SUBSET Buttons],
         Hardware',
         \A k \in 1 .. Len(devices) :
           OfPad(devices[k], pads') /\ SameButtons(devices[k])'
  PROVE  ControllersInv'
<1>1. /\ stage' = stage /\ back' = back /\ opening' = opening /\ devices' = devices
      /\ i' = i /\ leaving' = leaving /\ ctrl' = ctrl /\ next_id' = next_id
      /\ denied' = denied /\ Ids' = Ids
  BY Zenon DEF Ids
<1>2. ControllerTypes'
  <2>1. \A p \in Pads : buffer'[p] \in Seq([button : Buttons, down : BOOLEAN])
    BY Zenon DEF InputEvent
  <2> QED
    BY <1>1, <2>1, Zenon DEF ControllersInv, ControllerTypes, ControllersTypeOK
<1>3. Stages'
  <2>1. Listed(opening)' <=> Listed(opening)
    BY <1>1, Zenon DEF Listed
  <2> QED
    BY <1>1, <2>1, Zenon DEF ControllersInv, Stages
<1>4. DevicesFollow'
  BY <1>1, Zenon DEF ControllersInv, DevicesFollow
<1>5. Reports'
  <2>1. \A c : HasDevice(c)' <=> HasDevice(c)
    BY <1>1, Zenon DEF HasDevice
  <2> QED
    BY <1>1, <2>1, Zenon DEF ControllersInv, Reports
<1>6. (\A k \in 1 .. Len(devices) : SameButtons(devices[k]))'
  BY <1>1, Zenon
<1> QED
  BY <1>2, <1>3, <1>4, <1>5, <1>6, Zenon DEF ControllersInv

HardwareTypes ==
  /\ pads \in [Pads -> [phase : {"away", "present", "gone"},
                        name : Names \union {None}, readable : BOOLEAN,
                        gamepad : BOOLEAN]]
  /\ held \in [Pads -> SUBSET Buttons]
  /\ presses \in 0 .. MaxPresses
  /\ buffer \in [Pads -> Seq(InputEvent)]
  /\ \A p \in Pads : Len(buffer[p]) <= BufferCap
  /\ inotify \in Seq(Names) /\ scan \subseteq Names /\ shadowed \subseteq Pads
  /\ unknown \in [Pads -> SUBSET Buttons]

LEMMA HardwareIs ==
  ASSUME ControllersInv PROVE HardwareTypes
BY Zenon DEF ControllersInv, ControllerTypes, ControllersTypeOK, HardwareTypes

\* What a name appended to the notifications is.
LEMMA Notified ==
  ASSUME inotify \in Seq(Names), NEW name \in Names, Notify(name)
  PROVE  inotify' \in Seq(Names)
BY DEF Notify

LEMMA PlugKeeps ==
  ASSUME ControllersInv, NEW p \in Pads, NEW name \in Names, NEW gamepad \in BOOLEAN,
         Plug(p, name, gamepad)
  PROVE  ControllersInv'
<1> PICK new : new = [phase |-> "present", name |-> name, readable |-> FALSE,
                      gamepad |-> gamepad]
  OBVIOUS
<1>1. /\ pads[p].phase = "away" /\ pads' = [pads EXCEPT ![p] = new]
      /\ scan' = scan \/ scan' = scan \union {name}
      /\ Notify(name)
      /\ shadowed' = shadowed \/ shadowed' = shadowed \union {p}
      /\ UNCHANGED <<held, presses, buffer, unknown>>
      /\ UNCHANGED <<stage, back, opening, devices, i, leaving, ctrl, next_id, denied>>
  <2>1. scan' \in IF Scanning THEN {scan, scan \union {name}} ELSE {scan}
    BY Zenon DEF Plug
  <2>2. scan' = scan \/ scan' = scan \union {name}
    BY <2>1, Zenon
  <2>3. shadowed' = shadowed \/ shadowed' = shadowed \union {p}
    BY Zenon DEF Plug
  <2> QED
    BY <2>2, <2>3, Zenon DEF Plug, walkVars
<1>2. HardwareTypes
  BY HardwareIs, Zenon
<1>3. /\ new \in [phase : {"away", "present", "gone"}, name : Names \union {None},
                  readable : BOOLEAN, gamepad : BOOLEAN]
      /\ new.phase = "present" /\ new.name = name
  OBVIOUS
<1>4. /\ pads' \in [Pads -> [phase : {"away", "present", "gone"},
                             name : Names \union {None}, readable : BOOLEAN,
                             gamepad : BOOLEAN]]
      /\ pads'[p] = new
      /\ \A q \in Pads : q # p => pads'[q] = pads[q]
  BY <1>1, <1>2, <1>3, Zenon DEF HardwareTypes
<1>5. ~Present(p)
  BY <1>1 DEF Present
<1>6. Hardware'
  <2>1. \A q \in Pads : Opened(q)' <=> Opened(q)
    BY <1>1, Zenon DEF Opened
  <2>2. \A q \in Pads : q # p => (Present(q)' <=> Present(q))
    BY <1>4, Zenon DEF Present
  <2> QED
    BY <1>1, <1>3, <1>4, <1>5, <2>1, <2>2, Zenon DEF ControllersInv, Hardware
<1>7. ASSUME NEW k \in 1 .. Len(devices)
      PROVE  OfPad(devices[k], pads') /\ SameButtons(devices[k])'
  <2> PICK e : e = devices[k]
    OBVIOUS
  <2>1. /\ e.id \in Ids /\ e.pad \in Pads /\ SameButtons(e) /\ OfPad(e, pads)
    BY DevicesAre, Zenon
  <2>2. e.pad # p
    BY <1>1, <2>1, Zenon DEF OfPad
  <2>3. Present(e.pad)' => Present(e.pad)
    BY <1>4, <2>1, <2>2, Zenon DEF Present
  <2>4. SameButtons(e)'
    BY <1>1, <2>1, <2>3, SameButtonsStays, Zenon
  <2>5. OfPad(e, pads')
    BY <1>4, <2>1, <2>2, Zenon DEF OfPad
  <2>6. devices' = devices
    BY <1>1, Zenon
  <2> QED
    BY <2>4, <2>5, <2>6, Zenon
<1>8. /\ inotify' \in Seq(Names) /\ scan' \subseteq Names /\ shadowed' \subseteq Pads
  <2>1. inotify' \in Seq(Names)
    BY <1>1, <1>2, Notified, Zenon DEF HardwareTypes
  <2> QED
    BY <1>1, <1>2, <2>1, Zenon DEF HardwareTypes
<1>9. /\ held' \in [Pads -> SUBSET Buttons] /\ presses' \in 0 .. MaxPresses
      /\ buffer' \in [Pads -> Seq(InputEvent)]
      /\ \A q \in Pads : Len(buffer'[q]) <= BufferCap
      /\ unknown' \in [Pads -> SUBSET Buttons]
  BY <1>1, <1>2, Zenon DEF HardwareTypes
<1> QED
  BY <1>1, <1>4, <1>6, <1>7, <1>8, <1>9, WorldKeeps, Zenon

LEMMA PermitKeeps ==
  ASSUME ControllersInv, NEW p \in Pads, Permit(p)
  PROVE  ControllersInv'
<1> PICK new : new = [pads[p] EXCEPT !.readable = TRUE]
  OBVIOUS
<1>1. /\ Present(p) /\ pads' = [pads EXCEPT ![p] = new]
      /\ Notify(pads[p].name)
      /\ UNCHANGED <<held, presses, buffer, unknown, scan, shadowed>>
      /\ UNCHANGED <<stage, back, opening, devices, i, leaving, ctrl, next_id, denied>>
  BY Zenon DEF Permit, walkVars, historyVars
<1>2. HardwareTypes
  BY HardwareIs, Zenon
<1>3. /\ new \in [phase : {"away", "present", "gone"}, name : Names \union {None},
                  readable : BOOLEAN, gamepad : BOOLEAN]
      /\ new.phase = pads[p].phase /\ new.name = pads[p].name
  <2> PICK old : old = pads[p]
    OBVIOUS
  <2>1. old \in [phase : {"away", "present", "gone"}, name : Names \union {None},
                 readable : BOOLEAN, gamepad : BOOLEAN]
    BY <1>2, Zenon DEF HardwareTypes
  <2>2. new = [old EXCEPT !.readable = TRUE]
    BY Zenon
  <2> QED
    BY <2>1, <2>2
<1>4. /\ pads' \in [Pads -> [phase : {"away", "present", "gone"},
                             name : Names \union {None}, readable : BOOLEAN,
                             gamepad : BOOLEAN]]
      /\ pads'[p] = new
      /\ \A q \in Pads : q # p => pads'[q] = pads[q]
  BY <1>1, <1>2, <1>3, Zenon DEF HardwareTypes
<1>5. \A q \in Pads : pads'[q].phase = pads[q].phase /\ pads'[q].name = pads[q].name
  BY <1>3, <1>4, Zenon
<1>6. Hardware'
  <2>1. \A q \in Pads : Opened(q)' <=> Opened(q)
    BY <1>1, Zenon DEF Opened
  <2>2. \A q \in Pads : Present(q)' <=> Present(q)
    BY <1>5, Zenon DEF Present
  <2> QED
    BY <1>1, <1>5, <2>1, <2>2, Zenon DEF ControllersInv, Hardware
<1>7. ASSUME NEW k \in 1 .. Len(devices)
      PROVE  OfPad(devices[k], pads') /\ SameButtons(devices[k])'
  <2> PICK e : e = devices[k]
    OBVIOUS
  <2>1. /\ e.id \in Ids /\ e.pad \in Pads /\ SameButtons(e) /\ OfPad(e, pads)
    BY DevicesAre, Zenon
  <2>2. Present(e.pad)' => Present(e.pad)
    BY <1>5, <2>1, Zenon DEF Present
  <2>3. SameButtons(e)'
    BY <1>1, <2>1, <2>2, SameButtonsStays, Zenon
  <2>4. OfPad(e, pads')
    BY <1>5, <2>1, Zenon DEF OfPad
  <2>5. devices' = devices
    BY <1>1, Zenon
  <2> QED
    BY <2>3, <2>4, <2>5, Zenon
<1>8. inotify' \in Seq(Names)
  <2>1. pads[p].name \in Names
    BY <1>1, Zenon DEF ControllersInv, Hardware
  <2> QED
    BY <1>1, <1>2, <2>1, Notified, Zenon DEF HardwareTypes
<1>9. /\ held' \in [Pads -> SUBSET Buttons] /\ presses' \in 0 .. MaxPresses
      /\ buffer' \in [Pads -> Seq(InputEvent)]
      /\ \A q \in Pads : Len(buffer'[q]) <= BufferCap
      /\ unknown' \in [Pads -> SUBSET Buttons]
      /\ scan' \subseteq Names /\ shadowed' \subseteq Pads
  BY <1>1, <1>2, Zenon DEF HardwareTypes
<1> QED
  BY <1>1, <1>4, <1>6, <1>7, <1>8, <1>9, WorldKeeps, Zenon

LEMMA UnplugKeeps ==
  ASSUME ControllersInv, NEW p \in Pads, Unplug(p)
  PROVE  ControllersInv'
<1> PICK new : new = [Away EXCEPT !.phase = "gone"]
  OBVIOUS
<1>1. /\ Present(p) /\ pads' = [pads EXCEPT ![p] = new]
      /\ held' = [held EXCEPT ![p] = {}] /\ buffer' = [buffer EXCEPT ![p] = <<>>]
      /\ UNCHANGED <<presses, unknown, inotify, scan, shadowed>>
      /\ UNCHANGED <<stage, back, opening, devices, i, leaving, ctrl, next_id, denied>>
  BY Zenon DEF Unplug, walkVars, historyVars
<1>2. HardwareTypes
  BY HardwareIs, Zenon
<1>3. /\ new \in [phase : {"away", "present", "gone"}, name : Names \union {None},
                  readable : BOOLEAN, gamepad : BOOLEAN]
      /\ new.phase = "gone" /\ new.phase # "present" /\ new.phase # "away"
  BY DEF Away
<1>4. /\ pads' \in [Pads -> [phase : {"away", "present", "gone"},
                             name : Names \union {None}, readable : BOOLEAN,
                             gamepad : BOOLEAN]]
      /\ pads'[p] = new
      /\ \A q \in Pads : q # p => pads'[q] = pads[q]
  BY <1>1, <1>2, <1>3, Zenon DEF HardwareTypes
<1>5. /\ held' \in [Pads -> SUBSET Buttons]
      /\ \A q \in Pads : q # p => held'[q] = held[q]
  <2>1. held \in [Pads -> SUBSET Buttons]
    BY <1>2, Zenon DEF HardwareTypes
  <2> QED
    BY <1>1, <2>1
<1>6. /\ buffer' \in [Pads -> Seq(InputEvent)] /\ buffer'[p] = <<>>
      /\ \A q \in Pads : q # p => buffer'[q] = buffer[q]
  <2>1. buffer \in [Pads -> Seq(InputEvent)]
    BY <1>2, Zenon DEF HardwareTypes
  <2> QED
    BY <1>1, <2>1
<1>7. \A q \in Pads : Len(buffer'[q]) <= BufferCap
  <2>1. Len(<<>>) <= BufferCap
    BY ControllerAssumption
  <2> QED
    BY <1>2, <1>6, <2>1, Zenon DEF HardwareTypes
<1>8. ~Present(p)' /\ \A q \in Pads : q # p => (Present(q)' <=> Present(q))
  BY <1>3, <1>4, Zenon DEF Present
<1>9. Hardware'
  <2>1. \A q \in Pads : Opened(q)' <=> Opened(q)
    BY <1>1, Zenon DEF Opened
  <2> QED
    BY <1>4, <1>6, <1>8, <2>1, Zenon DEF ControllersInv, Hardware
<1>10. ASSUME NEW k \in 1 .. Len(devices)
       PROVE  OfPad(devices[k], pads') /\ SameButtons(devices[k])'
  <2> PICK e : e = devices[k]
    OBVIOUS
  <2>1. /\ e.id \in Ids /\ e.pad \in Pads /\ SameButtons(e) /\ OfPad(e, pads)
    BY DevicesAre, Zenon
  <2>2. OfPad(e, pads')
    BY <1>3, <1>4, <2>1, Zenon DEF OfPad
  <2>3. SameButtons(e)'
    <3>1. CASE e.pad = p
      BY <1>8, <3>1, Zenon DEF SameButtons, Same
    <3>2. CASE e.pad # p
      BY <1>1, <1>5, <1>6, <1>8, <2>1, <3>2, SameButtonsStays, Zenon
    <3> QED
      BY <3>1, <3>2, Zenon
  <2>4. devices' = devices
    BY <1>1, Zenon
  <2> QED
    BY <2>2, <2>3, <2>4, Zenon
<1>11. /\ inotify' \in Seq(Names) /\ scan' \subseteq Names /\ shadowed' \subseteq Pads
       /\ presses' \in 0 .. MaxPresses /\ unknown' \in [Pads -> SUBSET Buttons]
  BY <1>1, <1>2, Zenon DEF HardwareTypes
<1> QED
  BY <1>1, <1>4, <1>5, <1>6, <1>7, <1>9, <1>10, <1>11, WorldKeeps, Zenon


\* The buttons held after b has gone down or up, and the event of that.
Toggled(hands, b) == IF b \in hands THEN hands \ {b} ELSE hands \union {b}

EventOf(event, hands, b) == event = [button |-> b, down |-> b \notin hands]

LEMMA ToggledIs ==
  ASSUME NEW hands \in SUBSET Buttons, NEW b \in Buttons, NEW event,
         EventOf(event, hands, b)
  PROVE  /\ Toggled(hands, b) \in SUBSET Buttons
         /\ event \in InputEvent /\ event.button = b
         /\ event.down <=> b \in Toggled(hands, b)
         /\ \A x : x # b => (x \in Toggled(hands, b) <=> x \in hands)
<1>1. event \in InputEvent /\ event.button = b /\ event.down = (b \notin hands)
  BY DEF InputEvent, EventOf
<1>2. /\ Toggled(hands, b) \in SUBSET Buttons
      /\ b \in Toggled(hands, b) <=> b \notin hands
      /\ \A x : x # b => (x \in Toggled(hands, b) <=> x \in hands)
  BY DEF Toggled
<1> QED
  BY <1>1, <1>2

\* One more event to read keeps what is read in step with what is held.
LEMMA PressedMore ==
  ASSUME NEW down \in SUBSET Buttons, NEW events \in Seq(InputEvent),
         NEW unsure \in SUBSET Buttons, NEW hands \in SUBSET Buttons,
         NEW b \in Buttons, NEW event, EventOf(event, hands, b),
         Same(TRUE, down, events, unsure, hands)
  PROVE  Same(TRUE, down, Append(events, event), unsure \ {b}, Toggled(hands, b))
<1> PICK seen : seen = Replay(down, events)
  OBVIOUS
<1> PICK more : more = Replay(down, Append(events, event))
  OBVIOUS
<1> PICK after : after = Toggled(hands, b)
  OBVIOUS
<1>1. /\ event \in InputEvent /\ event.button = b /\ (event.down <=> b \in after)
      /\ \A x : x # b => (x \in after <=> x \in hands)
  BY ToggledIs
<1>2. seen \in SUBSET Buttons /\ more = Apply(seen, event)
  BY <1>1, Replayed, ReplayedOnce
<1>3. /\ \A x : x # b => (x \in more <=> x \in seen)
      /\ b \in more <=> b \in after
  BY <1>1, <1>2, Applied
<1>4. \A x \in Buttons \ (unsure \ {b}) : x \in more <=> x \in after
  <2> TAKE x \in Buttons \ (unsure \ {b})
  <2>1. CASE x = b
    BY <1>3, <2>1, Zenon
  <2>2. CASE x # b
    <3>1. x \in Buttons \ unsure
      BY <2>2, Zenon
    <3>2. x \in seen <=> x \in hands
      BY <3>1, Zenon DEF Same
    <3> QED
      BY <1>1, <1>3, <2>2, <3>2, Zenon
  <2> QED
    BY <2>1, <2>2, Zenon
<1> QED
  BY <1>4, Zenon DEF Same

\* The buttons that events are about.
ButtonsOf(events) == {events[k].button : k \in DOMAIN events}

LEMMA ButtonsOfThem ==
  ASSUME NEW events \in Seq(InputEvent)
  PROVE  /\ ButtonsOf(events) \in SUBSET Buttons
         /\ \A x : x \notin ButtonsOf(events) =>
              \A k \in 1 .. Len(events) : events[k].button # x
<1>1. /\ DOMAIN events = 1 .. Len(events)
      /\ \A k \in 1 .. Len(events) : events[k] \in InputEvent
  OBVIOUS
<1>2. \A event \in InputEvent : event.button \in Buttons
  BY DEF InputEvent
<1> QED
  BY <1>1, <1>2, Zenon DEF ButtonsOf

\* Nor do events that are thrown away, if the buttons they were about count as
\* unknown.
LEMMA PressedFull ==
  ASSUME NEW down \in SUBSET Buttons, NEW events \in Seq(InputEvent),
         NEW unsure \in SUBSET Buttons, NEW hands \in SUBSET Buttons,
         NEW b \in Buttons, NEW event, EventOf(event, hands, b),
         Same(TRUE, down, events, unsure, hands)
  PROVE  Same(TRUE, down, <<event>>,
              (unsure \union ButtonsOf(events)) \ {b},
              Toggled(hands, b))
<1> PICK wide : wide = unsure \union ButtonsOf(events)
  OBVIOUS
<1>1. wide \in SUBSET Buttons
  BY ButtonsOfThem, Zenon
<1>2. Same(TRUE, down, <<>>, wide, hands)
  <2>1. Replay(down, <<>>) = down
    <3>1. <<>> \in Seq(InputEvent)
      OBVIOUS
    <3> QED
      BY <3>1, Replayed, Zenon
  <2>2. ASSUME NEW x \in Buttons \ wide PROVE x \in down <=> x \in hands
    <3>1. \A k \in 1 .. Len(events) : events[k].button # x
      BY ButtonsOfThem, Zenon
    <3>2. x \in Replay(down, events) <=> x \in down
      BY <3>1, Replayed
    <3>3. x \in Buttons \ unsure
      BY Zenon
    <3>4. x \in Replay(down, events) <=> x \in hands
      BY <3>3, Zenon DEF Same
    <3> QED
      BY <3>2, <3>4, Zenon
  <2> QED
    BY <2>1, <2>2, Zenon DEF Same
<1>3. Append(<<>>, event) = <<event>> /\ <<>> \in Seq(InputEvent)
  OBVIOUS
<1>4. Same(TRUE, down, Append(<<>>, event), wide \ {b}, Toggled(hands, b))
  BY <1>1, <1>2, <1>3, PressedMore
<1> QED
  BY <1>3, <1>4, Zenon

LEMMA PressKeeps ==
  ASSUME ControllersInv, NEW p \in Pads, NEW b \in Buttons, Press(p, b)
  PROVE  ControllersInv'
<1> PICK event : EventOf(event, held[p], b)
  BY Zenon DEF EventOf
<1> PICK full : full = (Len(buffer[p]) = BufferCap)
  OBVIOUS
<1> PICK dropped : dropped = IF full THEN ButtonsOf(buffer[p]) ELSE {}
  OBVIOUS
<1> PICK queued :
      queued = IF full THEN <<event>> ELSE Append(buffer[p], event)
  OBVIOUS
<1> PICK unsure : unsure = (unknown[p] \union dropped) \ {b}
  OBVIOUS
<1>1. /\ Present(p) /\ presses < MaxPresses /\ presses' = presses + 1
      /\ held' = [held EXCEPT ![p] = Toggled(held[p], b)]
      /\ IF Opened(p)
           THEN /\ buffer' = [buffer EXCEPT ![p] = queued]
                /\ unknown' = [unknown EXCEPT ![p] = unsure]
           ELSE buffer' = buffer /\ unknown' = unknown
      /\ UNCHANGED <<pads, inotify, scan, shadowed>>
      /\ UNCHANGED <<stage, back, opening, devices, i, leaving, ctrl, next_id, denied>>
  BY Zenon DEF Press, walkVars, Toggled, EventOf, ButtonsOf
<1>2. HardwareTypes
  BY HardwareIs, Zenon
<1>3. /\ held[p] \in SUBSET Buttons /\ unknown[p] \in SUBSET Buttons
      /\ buffer[p] \in Seq(InputEvent) /\ Len(buffer[p]) <= BufferCap
  BY <1>2, Zenon DEF HardwareTypes
<1>4. /\ Toggled(held[p], b) \in SUBSET Buttons /\ event \in InputEvent
  BY <1>3, ToggledIs, Zenon
<1>5. /\ held' \in [Pads -> SUBSET Buttons] /\ held'[p] = Toggled(held[p], b)
      /\ \A q \in Pads : q # p => held'[q] = held[q]
  BY <1>1, <1>2, <1>4, Zenon DEF HardwareTypes
<1>6. queued \in Seq(InputEvent) /\ Len(queued) <= BufferCap
  <2> PICK s : s = buffer[p]
    OBVIOUS
  <2>1. s \in Seq(InputEvent) /\ Len(s) <= BufferCap /\ BufferCap \in Nat \ {0}
    BY <1>3, ControllerAssumption
  <2>2. CASE full
    <3>1. queued = <<event>>
      BY <2>2, Zenon
    <3> QED
      <4>1. <<event>> \in Seq(InputEvent) /\ Len(<<event>>) = 1
        BY <1>4
      <4>2. 1 <= BufferCap
        BY <2>1
      <4> QED
        BY <3>1, <4>1, <4>2, Zenon
  <2>3. CASE ~full
    <3>1. queued = Append(s, event) /\ Len(s) # BufferCap
      BY <2>3, Zenon
    <3> QED
      BY <1>4, <2>1, <3>1
  <2> QED
    BY <2>2, <2>3, Zenon
<1>7. unsure \in SUBSET Buttons
  <2>1. dropped \subseteq Buttons
    BY <1>3, ButtonsOfThem, Zenon
  <2> QED
    BY <1>3, <2>1, Zenon
<1>8. /\ buffer' \in [Pads -> Seq(InputEvent)]
      /\ \A q \in Pads : Len(buffer'[q]) <= BufferCap
      /\ \A q \in Pads : q # p => buffer'[q] = buffer[q]
      /\ unknown' \in [Pads -> SUBSET Buttons]
      /\ \A q \in Pads : q # p => unknown'[q] = unknown[q]
      /\ Opened(p) => buffer'[p] = queued /\ unknown'[p] = unsure
      /\ ~Opened(p) => buffer'[p] = buffer[p]
  <2>1. /\ buffer \in [Pads -> Seq(InputEvent)] /\ unknown \in [Pads -> SUBSET Buttons]
        /\ \A q \in Pads : Len(buffer[q]) <= BufferCap
    BY <1>2, Zenon DEF HardwareTypes
  <2>2. CASE Opened(p)
    <3>1. /\ buffer' = [buffer EXCEPT ![p] = queued]
          /\ unknown' = [unknown EXCEPT ![p] = unsure]
      BY <1>1, <2>2, Zenon
    <3>2. /\ buffer' \in [Pads -> Seq(InputEvent)] /\ buffer'[p] = queued
          /\ \A q \in Pads : q # p => buffer'[q] = buffer[q]
      BY <1>6, <2>1, <3>1, Zenon
    <3>3. /\ unknown' \in [Pads -> SUBSET Buttons] /\ unknown'[p] = unsure
          /\ \A q \in Pads : q # p => unknown'[q] = unknown[q]
      BY <1>7, <2>1, <3>1, Zenon
    <3> QED
      BY <1>6, <2>1, <2>2, <3>2, <3>3, Zenon
  <2>3. CASE ~Opened(p)
    BY <1>1, <2>1, <2>3, Zenon
  <2> QED
    BY <2>2, <2>3, Zenon
<1>9. Hardware'
  <2>1. \A q \in Pads : (Opened(q)' <=> Opened(q)) /\ (Present(q)' <=> Present(q))
    BY <1>1, Zenon DEF Opened, Present
  <2>2. pads' = pads
    BY <1>1, Zenon
  <2> QED
    BY <1>1, <1>8, <2>1, <2>2, Zenon DEF ControllersInv, Hardware
<1>10. ASSUME NEW k \in 1 .. Len(devices)
       PROVE  OfPad(devices[k], pads') /\ SameButtons(devices[k])'
  <2> PICK e : e = devices[k]
    OBVIOUS
  <2>1. /\ e.id \in Ids /\ e.pad \in Pads /\ SameButtons(e) /\ OfPad(e, pads)
        /\ DOMAIN devices = 1 .. Len(devices)
    BY DevicesAre, ThreadIs, Zenon
  <2>2. Present(e.pad)' <=> Present(e.pad)
    BY <1>1, Zenon DEF Present
  <2>3. SameButtons(e)'
    <3>1. CASE e.pad = p
      <4> PICK down : down = ctrl[e.id].buttons
        OBVIOUS
      <4>1. Opened(p)
        BY <2>1, <3>1, Zenon DEF Opened
      <4>2. down \in SUBSET Buttons
        BY <2>1, ControllersAre, Zenon
      <4>3. Same(TRUE, down, buffer[p], unknown[p], held[p])
        BY <1>1, <2>1, <3>1, Zenon DEF SameButtons, Same
      <4>4. Same(TRUE, down, queued, unsure, Toggled(held[p], b))
        <5>1. CASE full
          <6>1. /\ queued = <<event>>
                /\ unsure = (unknown[p] \union ButtonsOf(buffer[p])) \ {b}
            BY <5>1, Zenon
          <6>2. Same(TRUE, down, <<event>>,
                     (unknown[p] \union ButtonsOf(buffer[p])) \ {b},
                     Toggled(held[p], b))
            BY <1>3, <4>2, <4>3, PressedFull
          <6> QED
            BY <6>1, <6>2, Zenon
        <5>2. CASE ~full
          <6>1. queued = Append(buffer[p], event) /\ unsure = unknown[p] \ {b}
            <7>1. dropped = {} /\ unknown[p] \union {} = unknown[p]
              BY <5>2, Zenon
            <7> QED
              BY <5>2, <7>1, Zenon
          <6>2. Same(TRUE, down, Append(buffer[p], event), unknown[p] \ {b},
                     Toggled(held[p], b))
            BY <1>3, <4>2, <4>3, PressedMore
          <6> QED
            BY <6>1, <6>2, Zenon
        <5> QED
          BY <5>1, <5>2, Zenon
      <4>5. ctrl' = ctrl
        BY <1>1, Zenon
      <4>6. Same(TRUE, ctrl'[e.id].buttons, buffer'[p], unknown'[p], held'[p])
        BY <1>5, <1>8, <4>1, <4>4, <4>5, Zenon
      <4> QED
        BY <3>1, <4>6, Zenon DEF SameButtons, Same
    <3>2. CASE e.pad # p
      BY <1>1, <1>5, <1>8, <2>1, <2>2, <3>2, SameButtonsStays, Zenon
    <3> QED
      BY <3>1, <3>2, Zenon
  <2>4. devices' = devices /\ pads' = pads
    BY <1>1, Zenon
  <2> QED
    BY <2>1, <2>3, <2>4, Zenon
<1>11. /\ inotify' \in Seq(Names) /\ scan' \subseteq Names /\ shadowed' \subseteq Pads
       /\ pads' \in [Pads -> [phase : {"away", "present", "gone"},
                              name : Names \union {None}, readable : BOOLEAN,
                              gamepad : BOOLEAN]]
  BY <1>1, <1>2, Zenon DEF HardwareTypes
<1>12. presses' \in 0 .. MaxPresses
  <2>1. presses \in 0 .. MaxPresses
    BY <1>2, Zenon DEF HardwareTypes
  <2> QED
    BY <1>1, <2>1, ControllerAssumption
<1> QED
  BY <1>1, <1>5, <1>8, <1>9, <1>10, <1>11, <1>12, WorldKeeps, Zenon

----------------------------------------------------------------------------
(* The theorems about controllers.                                          *)

LEMMA ControllersStart ==
  ASSUME ControllersInit PROVE ControllersInv
<1> PICK there \in SUBSET Pads :
      \E name \in [there -> Names] :
        /\ pads = [p \in Pads |->
                     IF p \in there
                       THEN [phase |-> "present", name |-> name[p],
                             readable |-> TRUE, gamepad |-> TRUE]
                       ELSE Away]
        /\ scan = {name[p] : p \in there}
  BY Zenon DEF ControllersInit
<1> PICK name \in [there -> Names] :
      /\ pads = [p \in Pads |->
                   IF p \in there
                     THEN [phase |-> "present", name |-> name[p],
                           readable |-> TRUE, gamepad |-> TRUE]
                     ELSE Away]
      /\ scan = {name[p] : p \in there}
  BY Zenon
<1>1. /\ held = [p \in Pads |-> {}] /\ presses = 0 /\ buffer = [p \in Pads |-> <<>>]
      /\ inotify = <<>> /\ stage = "scan" /\ back = "none" /\ opening = None
      /\ devices = <<>> /\ i = 1 /\ leaving = 0 /\ ctrl = <<>> /\ next_id = 0
      /\ denied = {} /\ shadowed = {} /\ unknown = [p \in Pads |-> {}]
  BY Zenon DEF ControllersInit
<1>2. /\ Len(devices) = 0 /\ \A k : k \notin 1 .. Len(devices)
      /\ Ids = {} /\ DOMAIN devices = {}
  BY <1>1 DEF Ids
<1>3. /\ pads \in [Pads -> [phase : {"away", "present", "gone"},
                            name : Names \union {None}, readable : BOOLEAN,
                            gamepad : BOOLEAN]]
      /\ scan \subseteq Names
  BY DEF Away
<1>4. \A p \in Pads : Present(p) => pads[p].name \in Names
  BY DEF Present, Away
<1>5. ControllerTypes
  <2>1. /\ held \in [Pads -> SUBSET Buttons] /\ unknown \in [Pads -> SUBSET Buttons]
    BY <1>1
  <2>2. /\ presses \in 0 .. MaxPresses /\ inotify \in Seq(Names)
        /\ i \in Nat /\ i # 0 /\ next_id \in Nat
        /\ devices \in Seq([id : Ids, path : Names, pad : Pads])
    BY <1>1, ControllerAssumption
  <2>3. buffer \in [Pads -> Seq(InputEvent)]
    BY <1>1
  <2>4. \A p \in Pads : /\ buffer[p] \in Seq([button : Buttons, down : BOOLEAN])
                        /\ Len(buffer[p]) <= BufferCap
    BY <1>1, ControllerAssumption
  <2>5. ctrl \in [Ids -> [lost : BOOLEAN, buttons : SUBSET Buttons,
                          told : {"nothing", "connected", "disconnected"}]]
    BY <1>1, <1>2
  <2>6. /\ stage \in {"scan", "idle", "inotify", "open", "walk", "callback"}
        /\ back \in {"none", "scan", "inotify", "walk"} /\ stage # "walk"
        /\ opening \in Names \union {None} /\ leaving \in Ids \union {0}
        /\ denied \subseteq Pads /\ shadowed \subseteq Pads
    BY <1>1
  <2> QED
    BY <1>3, <2>1, <2>2, <2>3, <2>4, <2>5, <2>6, Zenon
    DEF ControllerTypes, ControllersTypeOK
<1>6. Stages
  BY <1>1 DEF Stages
<1>7. Hardware
  <2>1. \A p \in Pads : buffer[p] = <<>>
    BY <1>1, Zenon
  <2> QED
    BY <1>4, <2>1, Zenon DEF Hardware
<1>8. DevicesFollow /\ Reports /\ \A k \in 1 .. Len(devices) : SameButtons(devices[k])
  BY <1>2, Zenon DEF DevicesFollow, Reports
<1> QED
  BY <1>5, <1>6, <1>7, <1>8, Zenon DEF ControllersInv

LEMMA ControllersSteps ==
  ASSUME ControllersInv, [ControllersNext]_controllerVars PROVE ControllersInv'
<1>1. CASE UNCHANGED controllerVars
  <2>1. /\ UNCHANGED <<pads, held, presses, buffer, devices, ctrl, next_id, leaving,
                       denied, shadowed, unknown>>
        /\ UNCHANGED <<inotify, scan, stage, back, opening, i>>
    BY <1>1, Zenon DEF controllerVars, worldVars, walkVars, historyVars
  <2>2. Stages'
    BY <2>1, Zenon DEF ControllersInv, Stages, Listed
  <2>3. /\ i' \in Nat
        /\ i' # 0
        /\ stage' = "walk" => i' <= Len(devices) + 1
    BY <2>1, ThreadIs
  <2>4. /\ inotify' \in Seq(Names) /\ scan' \subseteq Names
        /\ stage' \in {"scan", "idle", "inotify", "open", "walk", "callback"}
        /\ back' \in {"none", "scan", "inotify", "walk"}
        /\ opening' \in Names \union {None}
    BY <2>1, ThreadIs
  <2> QED
    BY <2>1, <2>2, <2>3, <2>4, ThreadKeeps, Zenon
<1>2. CASE ControllersStep
  <2>1. CASE \E name \in Names : ScanEntry(name)
    BY <2>1, ScanEntryKeeps, Zenon
  <2>2. CASE EndScan \/ Poll \/ BeginWalk \/ EndWalk
    BY <2>2, PollingKeeps, Zenon
  <2>3. CASE ReadNotification
    BY <2>3, ReadNotificationKeeps, Zenon
  <2>4. CASE OpenFails \/ OpenOther
    BY <2>4, NotOpenedKeeps, Zenon
  <2>5. CASE OpenGamepad
    BY <2>5, OpenGamepadKeeps, Zenon
  <2>6. CASE OpenWithoutMemory
    BY <2>6, OpenWithoutMemoryKeeps, Zenon
  <2>7. CASE ReadDevice
    BY <2>7, ReadDeviceKeeps, Zenon
  <2>8. CASE RemoveDevice
    BY <2>8, RemoveDeviceKeeps, Zenon
  <2>9. CASE CallbackReturns
    BY <2>9, CallbackReturnsKeeps, Zenon
  <2> QED
    BY <1>2, <2>1, <2>2, <2>3, <2>4, <2>5, <2>6, <2>7, <2>8, <2>9, Zenon
    DEF ControllersStep
<1>3. CASE WorldStep
  BY <1>3, PlugKeeps, PermitKeeps, UnplugKeeps, PressKeeps, Zenon DEF WorldStep
<1> QED
  BY <1>1, <1>2, <1>3, Zenon DEF ControllersNext

\* The invariant of the controllers: the list, what was told and what is marked
\* lost differ only for the device that is being removed, an open descriptor is
\* on the node of a pad under its path or on one that has gone, and no two are
\* on one pad (_add_device and _remove_device, controller_linux.c).
THEOREM ControllersInvariant == ControllersSpec => []ControllersInv
<1> QED
  BY ControllersStart, ControllersSteps, PTL DEF ControllersSpec

\* For any number of pads, names and presses, and wherever an allocation fails
\* or a callback runs: whenever no poll is under way, the list of controllers,
\* the events that told of them and what is marked lost agree.
THEOREM ReportsAlwaysMatch == ControllersSpec => []ReportsMatchList
<1>1. ASSUME ControllersInv PROVE ReportsMatchList
  <2>1. ControllersTypeOK
    BY <1>1, Zenon DEF ControllersInv, ControllerTypes
  <2>2. ASSUME stage = "idle", NEW c \in Ids
        PROVE  /\ ~ctrl[c].lost <=> \E k \in DOMAIN devices : devices[k].id = c
               /\ ~ctrl[c].lost <=> ctrl[c].told = "connected"
    <3>1. leaving = 0 /\ c # 0
      <4>1. back # "walk"
        BY <1>1, <2>2 DEF ControllersInv, Stages
      <4>2. c # 0
        BY <1>1, ControllersAre, Zenon
      <4> QED
        BY <1>1, <4>1, <4>2, Zenon DEF ControllersInv, Stages
    <3>2. DOMAIN devices = 1 .. Len(devices)
      BY <1>1, ThreadIs, Zenon
    <3> QED
      BY <1>1, <3>1, <3>2, Zenon DEF ControllersInv, Reports, HasDevice
  <2> QED
    BY <2>1, <2>2, Zenon DEF ReportsMatchList
<1> QED
  BY <1>1, ControllersInvariant, PTL

\* The buttons of a controller are those held on its pad, once the events that
\* wait are read, for all but the buttons whose events the kernel has dropped
\* or that were held when the node was opened (_process_device_events).
THEOREM ButtonsAlwaysFollow == ControllersSpec => []ButtonsFollow
<1>1. ASSUME ControllersInv PROVE ButtonsFollow
  <2>1. DOMAIN devices = 1 .. Len(devices)
    BY <1>1, ThreadIs, Zenon
  <2> QED
    BY <1>1, <2>1, Zenon DEF ControllersInv, SameButtons, Same, ButtonsFollow
<1> QED
  BY <1>1, ControllersInvariant, PTL

===============================================================================
