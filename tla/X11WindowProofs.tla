--------------------------- MODULE X11WindowProofs ---------------------------
(***************************************************************************)
(* Proofs about X11Window for any windows, cursors, sizes, scale, number   *)
(* of calls and changes, and any depth of callbacks.                       *)
(*                                                                         *)
(* GrabIsOwned is inductive together with the types (LockInv): what keeps  *)
(* the pointer from being held captive is that the grab never outlives     *)
(* locked_window, although it may belong to another window.                *)
(*                                                                         *)
(* WindowsSettle rests on SettleInv: the last event of a kind in the queue *)
(* says what the server has, and without one the library has it already,   *)
(* or has still to read it after a callback.                               *)
(***************************************************************************)
EXTENDS X11Window, TLAPS

QueuedEvent ==
  [kind : {"map", "configure", "property", "focus in", "focus out", "key"},
   window : Window, width : Nat]

Types ==
  /\ stage \in [Window -> {"new", "live", "dead"}]
  /\ win \in [Window -> Fields]
  /\ locked \in Window \cup {Nobody}
  /\ grab \in Window \cup {Nobody}
  /\ focus \in Window \cup {Nobody}
  /\ asked \in [Window -> [width : Nat, maximized : Wishes, fullscreen : Wishes]]
  /\ server \in [Window -> [mapped : BOOLEAN, width : Nat, maximized : BOOLEAN,
                            fullscreen : BOOLEAN, cursor : Cursor]]
  /\ queue \in Seq(QueuedEvent)
  /\ agenda \in Seq([part : {"text", "fullscreen"}, window : Window])

LockInv == Types /\ GrabIsOwned

-----------------------------------------------------------------------------
(* Sizes.                                                                   *)

\* A quotient of natural numbers is one.
LEMMA QuotientNat ==
  ASSUME NEW a \in Nat, NEW b \in Nat \ {0}
  PROVE  a \div b \in Nat
  OBVIOUS

LEMMA ProductNat ==
  ASSUME NEW a \in Nat, NEW b \in Nat
  PROVE  a * b \in Nat
  OBVIOUS

\* Both conversions of x11_window.c and x11_events.c give natural numbers.
LEMMA ConversionsNat ==
  ASSUME NEW n \in Nat
  PROVE  Pixels(n) \in Nat /\ Logical(n) \in Nat
<1>1. n * Num \in Nat /\ n * Den \in Nat
  BY ProductNat, WindowAssumption
<1> QED
  BY <1>1, QuotientNat, WindowAssumption DEF Pixels, Logical

-----------------------------------------------------------------------------
(* Sequences of elements of a set.                                          *)

LEMMA SequencesOf ==
  ASSUME NEW S, NEW s \in Seq(S), NEW e \in S
  PROVE  /\ <<e>> \in Seq(S)
         /\ <<>> \in Seq(S)
         /\ Append(s, e) \in Seq(S)
         /\ <<e>> \o s \in Seq(S)
  OBVIOUS

-----------------------------------------------------------------------------
(* Steps that lock, unlock, make and destroy nothing.                       *)

\* What such a step keeps of the windows.
SameModes ==
  /\ UNCHANGED <<stage, locked, grab>>
  /\ \A w \in Window : win'[w].cursor_mode = win[w].cursor_mode

LEMMA SameModesStep ==
  ASSUME LockInv, SameModes
  PROVE  GrabIsOwned'
  BY DEF LockInv, Types, GrabIsOwned, SameModes, Live

-----------------------------------------------------------------------------
(* Fields of a window.                                                      *)

\* One window changes, to f.
LEMMA WindowChanged ==
  ASSUME win \in [Window -> Fields], NEW w \in Window, NEW f \in Fields,
         win' = [win EXCEPT ![w] = f]
  PROVE  /\ win' \in [Window -> Fields]
         /\ win'[w] = f
         /\ \A v \in Window \ {w} : win'[v] = win[v]
  OBVIOUS

\* A new value of one field keeps the others.
LEMMA FieldChanged ==
  ASSUME NEW r \in Fields, NEW n \in Nat, NEW b \in BOOLEAN, NEW c \in Cursor
  PROVE  /\ [r EXCEPT !.size = n] \in Fields
         /\ [r EXCEPT !.size = n].cursor_mode = r.cursor_mode
         /\ [r EXCEPT !.ready = b] \in Fields
         /\ [r EXCEPT !.ready = b].cursor_mode = r.cursor_mode
         /\ [r EXCEPT !.maximized = b] \in Fields
         /\ [r EXCEPT !.maximized = b].cursor_mode = r.cursor_mode
         /\ [r EXCEPT !.fullscreen = b] \in Fields
         /\ [r EXCEPT !.fullscreen = b].cursor_mode = r.cursor_mode
         /\ [r EXCEPT !.focused = b] \in Fields
         /\ [r EXCEPT !.focused = b].cursor_mode = r.cursor_mode
         /\ [r EXCEPT !.cursor = c] \in Fields
         /\ [r EXCEPT !.cursor = c].cursor_mode = r.cursor_mode
  BY DEF Fields

-----------------------------------------------------------------------------
(* Calls of the application.                                                *)

LEMMA CreateStep ==
  ASSUME LockInv, NEW w \in Window, NEW c \in Creations, NEW cursor \in Cursor,
         CreateWindow(w, c, cursor)
  PROVE  LockInv'
<1>1. /\ c.size \in Nat /\ c.mode \in CursorMode
      /\ c.fullscreen \in BOOLEAN /\ c.maximized \in BOOLEAN
  BY WindowAssumption
<1>2. NewWindow(c.size, c.mode, cursor) \in Fields
  BY <1>1 DEF NewWindow, Fields
<1>3. /\ win' \in [Window -> Fields]
      /\ win'[w] = NewWindow(c.size, c.mode, cursor)
      /\ \A v \in Window \ {w} : win'[v] = win[v]
  <2>1. win' = [win EXCEPT ![w] = NewWindow(c.size, c.mode, cursor)]
    BY DEF CreateWindow
  <2> QED
    BY <1>2, <2>1, WindowChanged DEF LockInv, Types
<1>4. server' \in [Window -> [mapped : BOOLEAN, width : Nat, maximized : BOOLEAN,
                              fullscreen : BOOLEAN, cursor : Cursor]]
  <2>1. NewServerWindow(c.size, cursor) \in
          [mapped : BOOLEAN, width : Nat, maximized : BOOLEAN,
           fullscreen : BOOLEAN, cursor : Cursor]
    BY <1>1, ConversionsNat DEF NewServerWindow
  <2> QED
    BY <2>1 DEF CreateWindow, LockInv, Types
<1>5. asked' \in [Window -> [width : Nat, maximized : Wishes, fullscreen : Wishes]]
  BY DEF CreateWindow, LockInv, Types, Wishes
<1>6. Types'
  BY <1>3, <1>4, <1>5 DEF CreateWindow, LockInv, Types
<1>7. GrabIsOwned'
  <2>1. grab # w
    BY WindowAssumption DEF CreateWindow, LockInv, GrabIsOwned, Live
  <2>2. locked # w
    BY WindowAssumption DEF CreateWindow, LockInv, GrabIsOwned, Live
  <2>3. stage'[w] = "live" /\ \A v \in Window \ {w} : stage'[v] = stage[v]
    BY DEF CreateWindow, LockInv, Types
  <2>4. win'[w].cursor_mode = c.mode
    BY <1>3 DEF NewWindow
  <2> QED
    BY <1>3, <2>1, <2>2, <2>3, <2>4, WindowAssumption
    DEF CreateWindow, LockInv, Types, GrabIsOwned, Live
<1> QED
  BY <1>6, <1>7 DEF LockInv

LEMMA DestroyStep ==
  ASSUME LockInv, NEW w \in Window, DestroyWindow(w)
  PROVE  LockInv'
<1> USE DEF DestroyWindow, Call, Gone
<1>1. win[w].cursor \in Cursor
  BY DEF LockInv, Types, Fields
<1>2. NewWindow(0, "normal", win[w].cursor) \in Fields
  BY <1>1 DEF NewWindow, Fields, CursorMode
<1>3. /\ win' \in [Window -> Fields]
      /\ \A v \in Window \ {w} : win'[v] = win[v]
  BY <1>2, WindowChanged DEF LockInv, Types
<1>4. NewServerWindow(0, win[w].cursor) \in
        [mapped : BOOLEAN, width : Nat, maximized : BOOLEAN,
         fullscreen : BOOLEAN, cursor : Cursor]
  BY <1>1, ConversionsNat DEF NewServerWindow
<1>5. NothingAsked \in [width : Nat, maximized : Wishes, fullscreen : Wishes]
  BY DEF NothingAsked, Wishes
<1>6. Types'
  BY <1>3, <1>4, <1>5 DEF LockInv, Types
<1>7. GrabIsOwned'
  <2>1. \A v \in Window \ {w} : stage'[v] = stage[v]
    BY DEF LockInv, Types
  <2> QED
    BY <1>3, <2>1 DEF LockInv, Types, GrabIsOwned, Live
<1> QED
  BY <1>6, <1>7 DEF LockInv

LEMMA SizeStep ==
  ASSUME LockInv, NEW w \in Window, NEW size \in Sizes, SetSize(w, size)
  PROVE  LockInv'
<1>1. size \in Nat /\ Pixels(size) \in Nat
  BY ConversionsNat, WindowAssumption
<1>2. /\ win' \in [Window -> Fields]
      /\ \A v \in Window : win'[v].cursor_mode = win[v].cursor_mode
  <2>1. /\ [win[w] EXCEPT !.size = size] \in Fields
        /\ [win[w] EXCEPT !.size = size].cursor_mode = win[w].cursor_mode
    BY <1>1, FieldChanged DEF LockInv, Types
  <2>2. win' = [win EXCEPT ![w] = [win[w] EXCEPT !.size = size]]
    BY DEF SetSize
  <2> QED
    BY <2>1, <2>2 DEF LockInv, Types
<1>3. asked' \in [Window -> [width : Nat, maximized : Wishes, fullscreen : Wishes]]
  BY <1>1 DEF SetSize, LockInv, Types
<1>4. Types'
  BY <1>2, <1>3 DEF SetSize, Updates, Call, LockInv, Types
<1>5. SameModes
  BY <1>2 DEF SetSize, Updates, Call, SameModes
<1> QED
  BY <1>4, <1>5, SameModesStep DEF LockInv

LEMMA StatesStep ==
  ASSUME LockInv, NEW w \in Window, NEW on \in BOOLEAN,
         SetMaximized(w, on) \/ SetFullscreen(w, on)
  PROVE  LockInv'
<1>1. asked' \in [Window -> [width : Nat, maximized : Wishes, fullscreen : Wishes]]
  <2>1. Wish(on) \in Wishes
    BY DEF Wish, Wishes
  <2>2. CASE SetMaximized(w, on)
    BY <2>1, <2>2 DEF SetMaximized, LockInv, Types
  <2>3. CASE SetFullscreen(w, on)
    BY <2>1, <2>3 DEF SetFullscreen, LockInv, Types
  <2> QED
    BY <2>2, <2>3
<1>2. Types'
  BY <1>1 DEF SetMaximized, SetFullscreen, Updates, Call, LockInv, Types
<1>3. SameModes
  BY DEF SetMaximized, SetFullscreen, Updates, Call, SameModes
<1> QED
  BY <1>2, <1>3, SameModesStep DEF LockInv

LEMMA CursorStep ==
  ASSUME LockInv, NEW w \in Window, NEW cursor \in Cursor, SetCursor(w, cursor)
  PROVE  LockInv'
<1>1. /\ win' \in [Window -> Fields]
      /\ \A v \in Window : win'[v].cursor_mode = win[v].cursor_mode
  <2>1. /\ [win[w] EXCEPT !.cursor = cursor] \in Fields
        /\ [win[w] EXCEPT !.cursor = cursor].cursor_mode = win[w].cursor_mode
    BY FieldChanged DEF LockInv, Types
  <2>2. win' = [win EXCEPT ![w] = [win[w] EXCEPT !.cursor = cursor]]
    BY DEF SetCursor
  <2> QED
    BY <2>1, <2>2 DEF LockInv, Types
<1>2. server' \in [Window -> [mapped : BOOLEAN, width : Nat, maximized : BOOLEAN,
                              fullscreen : BOOLEAN, cursor : Cursor]]
  BY DEF SetCursor, LockInv, Types
<1>3. Types'
  BY <1>1, <1>2 DEF SetCursor, Updates, Call, LockInv, Types
<1>4. SameModes
  BY <1>1 DEF SetCursor, Updates, Call, SameModes
<1> QED
  BY <1>3, <1>4, SameModesStep DEF LockInv

\* What locking and unlocking have in common.
LEMMA ModeSet ==
  ASSUME LockInv, NEW w \in Window, NEW m \in CursorMode,
         win' = [win EXCEPT ![w].cursor_mode = m]
  PROVE  /\ win' \in [Window -> Fields]
         /\ win'[w].cursor_mode = m
         /\ \A v \in Window \ {w} : win'[v] = win[v]
<1>1. /\ [win[w] EXCEPT !.cursor_mode = m] \in Fields
      /\ [win[w] EXCEPT !.cursor_mode = m].cursor_mode = m
  BY DEF LockInv, Types, Fields
<1>2. win' = [win EXCEPT ![w] = [win[w] EXCEPT !.cursor_mode = m]]
  OBVIOUS
<1> QED
  BY <1>1, <1>2, WindowChanged DEF LockInv, Types

LEMMA LockStep ==
  ASSUME LockInv, NEW w \in Window, Lock(w)
  PROVE  LockInv'
<1>1. /\ win' \in [Window -> Fields]
      /\ win'[w].cursor_mode = "locked"
      /\ \A v \in Window \ {w} : win'[v] = win[v]
  BY ModeSet DEF Lock, CursorMode
<1>2. /\ Live(w) /\ stage' = stage /\ locked' = w
      /\ grab' \in {grab, w}
  BY DEF Lock, Updates, Call, Grabs
<1>3. Types'
  BY <1>1, <1>2 DEF Lock, Updates, Call, LockInv, Types
<1>4. GrabIsOwned'
  BY <1>1, <1>2, WindowAssumption DEF LockInv, Types, GrabIsOwned, Live
<1> QED
  BY <1>3, <1>4 DEF LockInv

LEMMA UnlockStep ==
  ASSUME LockInv, NEW w \in Window, NEW mode \in CursorMode \ {"locked"},
         Unlock(w, mode)
  PROVE  LockInv'
<1>1. /\ win' \in [Window -> Fields]
      /\ \A v \in Window \ {w} : win'[v] = win[v]
  BY ModeSet DEF Unlock
<1>2. /\ stage' = stage /\ grab' = Nobody
      /\ locked' = IF locked = w THEN Nobody ELSE locked
  BY DEF Unlock, Updates, Call
<1>3. server' \in [Window -> [mapped : BOOLEAN, width : Nat, maximized : BOOLEAN,
                              fullscreen : BOOLEAN, cursor : Cursor]]
  BY DEF Unlock, CursorApplied, LockInv, Types, Fields
<1>4. Types'
  BY <1>1, <1>2, <1>3 DEF Unlock, Updates, Call, LockInv, Types
<1>5. GrabIsOwned'
  BY <1>1, <1>2 DEF LockInv, Types, GrabIsOwned, Live
<1> QED
  BY <1>4, <1>5 DEF LockInv

LEMMA ApplicationStep ==
  ASSUME LockInv, Application
  PROVE  LockInv'
<1> SUFFICES ASSUME NEW w \in Window,
                    \/ \E c \in Creations, cursor \in Cursor :
                         CreateWindow(w, c, cursor)
                    \/ \E size \in Sizes : SetSize(w, size)
                    \/ \E on \in BOOLEAN :
                         SetMaximized(w, on) \/ SetFullscreen(w, on)
                    \/ \E cursor \in Cursor : SetCursor(w, cursor)
                    \/ \E mode \in CursorMode \ {"locked"} : Unlock(w, mode)
                    \/ Lock(w) \/ DestroyWindow(w)
             PROVE  LockInv'
  BY DEF Application
<1> QED
  BY CreateStep, SizeStep, StatesStep, CursorStep, LockStep, UnlockStep, DestroyStep

-----------------------------------------------------------------------------
(* The server, the window manager and the user.                             *)

ServerWindow == [mapped : BOOLEAN, width : Nat, maximized : BOOLEAN,
                 fullscreen : BOOLEAN, cursor : Cursor]

\* An event that is put at the end of the queue is one of its events.
LEMMA Queued ==
  ASSUME LockInv, NEW w \in Window, NEW n \in Nat,
         NEW kind \in {"map", "configure", "property", "focus in",
                       "focus out", "key"}
  PROVE  /\ Append(queue, Event(kind, w)) \in Seq(QueuedEvent)
         /\ Append(queue, Configure(w, n)) \in Seq(QueuedEvent)
         /\ Event(kind, w) \in QueuedEvent
<1>1. Event(kind, w) \in QueuedEvent /\ Configure(w, n) \in QueuedEvent
  BY DEF Event, Configure, QueuedEvent
<1>2. queue \in Seq(QueuedEvent)
  BY DEF LockInv, Types
<1> QED
  BY <1>1, <1>2, SequencesOf

LEMMA MapStep ==
  ASSUME LockInv, NEW w \in Window, Map(w)
  PROVE  LockInv'
<1> USE DEF Map, appVars
<1>1. server' \in [Window -> ServerWindow]
  BY DEF LockInv, Types, ServerWindow
<1>2. queue' \in Seq(QueuedEvent)
  BY Queued
<1>3. Types'
  BY <1>1, <1>2 DEF LockInv, Types, ServerWindow
<1> QED
  BY <1>3, SameModesStep DEF LockInv, SameModes

LEMMA UnmapStep ==
  ASSUME LockInv, NEW w \in Window, Unmap(w)
  PROVE  LockInv'
<1> USE DEF Unmap, Change, appVars
<1>1. server' \in [Window -> ServerWindow]
  BY DEF LockInv, Types, ServerWindow
<1>2. queue' \in Seq(QueuedEvent)
  BY Queued DEF LockInv, Types
<1>3. Types'
  BY <1>1, <1>2 DEF LockInv, Types, ServerWindow
<1>4. GrabIsOwned'
  BY DEF LockInv, GrabIsOwned, Live
<1> QED
  BY <1>3, <1>4 DEF LockInv

LEMMA ResizeStep ==
  ASSUME LockInv, NEW w \in Window, NEW width \in Nat, Resize(w, width)
  PROVE  LockInv'
<1> USE DEF Resize, Change, appVars
<1>1. server' \in [Window -> ServerWindow]
  BY DEF LockInv, Types, ServerWindow
<1>2. asked' \in [Window -> [width : Nat, maximized : Wishes, fullscreen : Wishes]]
  BY DEF LockInv, Types
<1>3. queue' \in Seq(QueuedEvent)
  <2>1. Append(queue, Configure(w, width)) \in Seq(QueuedEvent)
    BY Queued
  <2>2. queue' \in {queue, Append(queue, Configure(w, width))}
    OBVIOUS
  <2> QED
    BY <2>1, <2>2 DEF LockInv, Types
<1>4. Types'
  BY <1>1, <1>2, <1>3 DEF LockInv, Types, ServerWindow
<1> QED
  BY <1>4, SameModesStep DEF LockInv, SameModes

LEMMA ChangeStatesStep ==
  ASSUME LockInv, NEW w \in Window, NEW max \in BOOLEAN, NEW full \in BOOLEAN,
         ChangeStates(w, max, full)
  PROVE  LockInv'
<1> USE DEF ChangeStates, Change, appVars
<1>1. server' \in [Window -> ServerWindow]
  BY DEF LockInv, Types, ServerWindow
<1>2. asked' \in [Window -> [width : Nat, maximized : Wishes, fullscreen : Wishes]]
  BY DEF LockInv, Types, Wishes
<1>3. queue' \in Seq(QueuedEvent)
  BY Queued DEF LockInv, Types
<1>4. Types'
  BY <1>1, <1>2, <1>3 DEF LockInv, Types, ServerWindow
<1> QED
  BY <1>4, SameModesStep DEF LockInv, SameModes

LEMMA MoveFocusStep ==
  ASSUME LockInv, NEW w \in Window, MoveFocus(w)
  PROVE  LockInv'
<1> DEFINE out == IF focus = Nobody THEN <<>> ELSE <<Event("focus out", focus)>>
           in == IF focus = w THEN <<>> ELSE <<Event("focus in", w)>>
<1>1. out \in Seq(QueuedEvent)
  <2>1. CASE focus = Nobody
    BY <2>1
  <2>2. CASE focus # Nobody
    <3>1. Event("focus out", focus) \in QueuedEvent
      BY <2>2 DEF Event, QueuedEvent, LockInv, Types
    <3>2. out = <<Event("focus out", focus)>>
      BY <2>2
    <3> QED
      BY <3>1, <3>2, SequencesOf DEF LockInv, Types
  <2> QED
    BY <2>1, <2>2
<1>2. in \in Seq(QueuedEvent)
  <2>1. Event("focus in", w) \in QueuedEvent
    BY DEF Event, QueuedEvent
  <2>2. <<>> \in Seq(QueuedEvent) /\ <<Event("focus in", w)>> \in Seq(QueuedEvent)
    BY <2>1, SequencesOf DEF LockInv, Types
  <2> QED
    BY <2>2
<1>3. queue' = queue \o out \o in
  BY DEF MoveFocus
<1>4. queue' \in Seq(QueuedEvent)
  <2> HIDE DEF out, in
  <2> QED
    BY <1>1, <1>2, <1>3 DEF LockInv, Types
<1>5. Types'
  BY <1>4 DEF MoveFocus, Change, appVars, LockInv, Types
<1> QED
  BY <1>5, SameModesStep DEF MoveFocus, Change, appVars, LockInv, SameModes

LEMMA TypeStep ==
  ASSUME LockInv, NEW w \in Window, Type(w)
  PROVE  LockInv'
<1>1. queue' \in Seq(QueuedEvent)
  BY Queued DEF Type
<1>2. Types'
  BY <1>1 DEF Type, Change, appVars, LockInv, Types
<1> QED
  BY <1>2, SameModesStep DEF Type, Change, appVars, LockInv, SameModes

LEMMA SurroundingsStep ==
  ASSUME LockInv, Surroundings
  PROVE  LockInv'
<1> SUFFICES ASSUME NEW w \in Window,
                    \/ Map(w) \/ Unmap(w) \/ MoveFocus(w) \/ Type(w)
                    \/ \E width \in (Widths \cup {asked[w].width}) \ {0} :
                         Resize(w, width)
                    \/ \E max, full \in BOOLEAN : ChangeStates(w, max, full)
             PROVE  LockInv'
  BY DEF Surroundings
<1>1. (Widths \cup {asked[w].width}) \ {0} \subseteq Nat
  BY WindowAssumption DEF LockInv, Types
<1> QED
  BY <1>1, MapStep, UnmapStep, MoveFocusStep, TypeStep, ResizeStep, ChangeStatesStep

-----------------------------------------------------------------------------
(* The handlers.  None of them locks, unlocks, makes or destroys a window.  *)

\* The event that is read, and what its handler leaves alone.
LEMMA ReadsKeeps ==
  ASSUME LockInv, NEW kind, Reads(kind)
  PROVE  /\ Subject \in Window
         /\ Head(queue).width \in Nat
         /\ queue' \in Seq(QueuedEvent)
         /\ UNCHANGED <<stage, locked, server, grab, focus, asked>>
<1>1. queue \in Seq(QueuedEvent) /\ queue # <<>>
  BY DEF LockInv, Types, Reads
<1>2. Head(queue) \in QueuedEvent /\ Tail(queue) \in Seq(QueuedEvent)
  BY <1>1
<1> QED
  BY <1>2 DEF Reads, Subject, QueuedEvent, serverVars

\* A handler that changes a window but neither its mode nor what is left to do
\* beyond one more part.
LEMMA HandlerKeeps ==
  ASSUME LockInv, queue' \in Seq(QueuedEvent),
         UNCHANGED <<stage, locked, server, grab, focus, asked>>,
         win' \in [Window -> Fields],
         \A w \in Window : win'[w].cursor_mode = win[w].cursor_mode,
         agenda' \in Seq([part : {"text", "fullscreen"}, window : Window])
  PROVE  LockInv'
<1>1. Types'
  BY DEF LockInv, Types
<1> QED
  BY <1>1, SameModesStep DEF LockInv, SameModes

\* One more part to do.
LEMMA LaterTyped ==
  ASSUME LockInv, Subject \in Window, NEW part \in {"text", "fullscreen"}
  PROVE  Later(part) \in Seq([part : {"text", "fullscreen"}, window : Window])
<1>1. [part |-> part, window |-> Subject] \in
        [part : {"text", "fullscreen"}, window : Window]
  OBVIOUS
<1> QED
  BY <1>1 DEF Later, LockInv, Types

\* A change of one field of a window, other than its mode.
LEMMA FieldSet ==
  ASSUME LockInv, NEW w \in Window, NEW n \in Nat, NEW b \in BOOLEAN,
         \/ win' = [win EXCEPT ![w].size = n]
         \/ win' = [win EXCEPT ![w].ready = b]
         \/ win' = [win EXCEPT ![w].maximized = b]
         \/ win' = [win EXCEPT ![w].fullscreen = b]
         \/ win' = [win EXCEPT ![w].focused = b]
  PROVE  /\ win' \in [Window -> Fields]
         /\ \A v \in Window : win'[v].cursor_mode = win[v].cursor_mode
<1> DEFINE Set(f) == /\ f \in Fields
                     /\ f.cursor_mode = win[w].cursor_mode
                     /\ win' = [win EXCEPT ![w] = f]
<1>1. win[w] \in Fields /\ win[w].cursor \in Cursor
  BY DEF LockInv, Types, Fields
<1>2. ASSUME NEW f, Set(f)
      PROVE  /\ win' \in [Window -> Fields]
             /\ \A v \in Window : win'[v].cursor_mode = win[v].cursor_mode
  BY <1>2, WindowChanged DEF LockInv, Types
<1> HIDE DEF Set
<1>3. CASE win' = [win EXCEPT ![w].size = n]
  <2>1. Set([win[w] EXCEPT !.size = n])
    BY <1>1, <1>3, FieldChanged DEF Set
  <2> QED
    BY <1>2, <2>1
<1>4. CASE win' = [win EXCEPT ![w].ready = b]
  <2>1. Set([win[w] EXCEPT !.ready = b])
    BY <1>1, <1>4, FieldChanged DEF Set
  <2> QED
    BY <1>2, <2>1
<1>5. CASE win' = [win EXCEPT ![w].maximized = b]
  <2>1. Set([win[w] EXCEPT !.maximized = b])
    BY <1>1, <1>5, FieldChanged DEF Set
  <2> QED
    BY <1>2, <2>1
<1>6. CASE win' = [win EXCEPT ![w].fullscreen = b]
  <2>1. Set([win[w] EXCEPT !.fullscreen = b])
    BY <1>1, <1>6, FieldChanged DEF Set
  <2> QED
    BY <1>2, <2>1
<1>7. CASE win' = [win EXCEPT ![w].focused = b]
  <2>1. Set([win[w] EXCEPT !.focused = b])
    BY <1>1, <1>7, FieldChanged DEF Set
  <2> QED
    BY <1>2, <2>1
<1> QED
  BY <1>3, <1>4, <1>5, <1>6, <1>7

LEMMA HandlersStep ==
  ASSUME LockInv, Handlers
  PROVE  LockInv'
<1> DEFINE Parts == [part : {"text", "fullscreen"}, window : Window]
<1>1. agenda \in Seq(Parts) /\ win \in [Window -> Fields]
  BY DEF LockInv, Types
<1>2. \A w \in Window : server[w].maximized \in BOOLEAN
                          /\ server[w].fullscreen \in BOOLEAN
  BY DEF LockInv, Types
<1>3. CASE Drop
  <2>1. queue' \in Seq(QueuedEvent)
    BY <1>3 DEF Drop, LockInv, Types
  <2> QED
    BY <1>3, <2>1, HandlerKeeps DEF Drop, appVars, serverVars, LockInv, Types
<1>4. CASE KeyPress
  <2>1. agenda' \in Seq(Parts)
    BY <1>4, ReadsKeeps, LaterTyped DEF KeyPress
  <2> QED
    BY <1>1, <1>4, <2>1, ReadsKeeps, HandlerKeeps DEF KeyPress
<1>5. CASE ConfigureNotify
  <2>1. Subject \in Window /\ Logical(Head(queue).width) \in Nat
    BY <1>5, ReadsKeeps, ConversionsNat DEF ConfigureNotify
  <2>2. win' = [win EXCEPT ![Subject].size = Logical(Head(queue).width)]
    BY <1>5 DEF ConfigureNotify
  <2>3. /\ win' \in [Window -> Fields]
        /\ \A v \in Window : win'[v].cursor_mode = win[v].cursor_mode
    BY <2>1, <2>2, FieldSet
  <2> QED
    BY <1>1, <1>5, <2>3, ReadsKeeps, HandlerKeeps DEF ConfigureNotify
<1>6. CASE PropertyNotify
  <2>1. Subject \in Window /\ Reads("property")
    BY <1>6, ReadsKeeps DEF PropertyNotify
  <2>2. \/ win' = [win EXCEPT ![Subject].maximized = server[Subject].maximized]
        \/ win' = [win EXCEPT ![Subject].fullscreen = server[Subject].fullscreen]
    BY <1>6 DEF PropertyNotify
  <2>3. /\ win' \in [Window -> Fields]
        /\ \A v \in Window : win'[v].cursor_mode = win[v].cursor_mode
    <3>1. CASE win' = [win EXCEPT ![Subject].maximized = server[Subject].maximized]
      BY <1>2, <2>1, <3>1, FieldSet, 0 \in Nat
    <3>2. CASE win' = [win EXCEPT ![Subject].fullscreen = server[Subject].fullscreen]
      BY <1>2, <2>1, <3>2, FieldSet, 0 \in Nat
    <3> QED
      BY <2>2, <3>1, <3>2
  <2>4. agenda' \in Seq(Parts)
    BY <1>1, <1>6, <2>1, LaterTyped DEF PropertyNotify
  <2> QED
    BY <2>1, <2>3, <2>4, ReadsKeeps, HandlerKeeps
<1>7. CASE MapNotify
  <2>1. Subject \in Window /\ Reads("map")
    BY <1>7, ReadsKeeps DEF MapNotify
  <2>2. win' = [win EXCEPT ![Subject].ready = TRUE]
    BY <1>7 DEF MapNotify
  <2>3. /\ win' \in [Window -> Fields]
        /\ \A v \in Window : win'[v].cursor_mode = win[v].cursor_mode
    BY <2>1, <2>2, FieldSet, 0 \in Nat
  <2> QED
    BY <1>1, <1>7, <2>1, <2>3, ReadsKeeps, HandlerKeeps DEF MapNotify
<1>8. ASSUME NEW kind, NEW focused \in BOOLEAN, Focus(kind, focused)
      PROVE  LockInv'
  <2>1. Subject \in Window /\ Reads(kind)
    BY <1>8, ReadsKeeps DEF Focus
  <2>2. win' = [win EXCEPT ![Subject].focused = focused]
    BY <1>8 DEF Focus
  <2>3. /\ win' \in [Window -> Fields]
        /\ \A v \in Window : win'[v].cursor_mode = win[v].cursor_mode
    BY <2>1, <2>2, FieldSet, 0 \in Nat
  <2> QED
    BY <1>1, <1>8, <2>1, <2>3, ReadsKeeps, HandlerKeeps DEF Focus
<1>9. ASSUME Returns
      PROVE  /\ Head(agenda).window \in Window
             /\ agenda' \in Seq(Parts) /\ queue' \in Seq(QueuedEvent)
             /\ UNCHANGED <<stage, locked, server, grab, focus, asked>>
  <2>1. Head(agenda) \in Parts /\ Tail(agenda) \in Seq(Parts)
    <3> HIDE DEF Parts
    <3> QED
      BY <1>1, <1>9 DEF Returns
  <2> QED
    BY <1>9, <2>1 DEF Returns, serverVars, LockInv, Types
<1>10. CASE ReadFullscreen
  <2>1. Head(agenda).window \in Window
    BY <1>9, <1>10 DEF ReadFullscreen
  <2>2. win' = [win EXCEPT ![Head(agenda).window].fullscreen =
                             server[Head(agenda).window].fullscreen]
    BY <1>10 DEF ReadFullscreen
  <2>3. /\ win' \in [Window -> Fields]
        /\ \A v \in Window : win'[v].cursor_mode = win[v].cursor_mode
    BY <1>2, <2>1, <2>2, FieldSet, 0 \in Nat
  <2> QED
    BY <1>9, <1>10, <2>3, HandlerKeeps DEF ReadFullscreen
<1>11. CASE TextInput \/ Astray
  BY <1>1, <1>9, <1>11, HandlerKeeps DEF TextInput, Astray
<1> QED
  BY <1>3, <1>4, <1>5, <1>6, <1>7, <1>8, <1>10, <1>11 DEF Handlers

-----------------------------------------------------------------------------
(* The specification.                                                       *)

LEMMA LockInvStart ==
  ASSUME Init
  PROVE  LockInv
<1>1. PICK c \in Cursor :
        /\ win = [w \in Window |-> NewWindow(0, "normal", c)]
        /\ server = [w \in Window |-> NewServerWindow(0, c)]
  BY DEF Init
<1>2. NewWindow(0, "normal", c) \in Fields
  BY DEF NewWindow, Fields, CursorMode
<1>3. NewServerWindow(0, c) \in ServerWindow
  BY ConversionsNat, 0 \in Nat DEF NewServerWindow, ServerWindow
<1>4. NothingAsked \in [width : Nat, maximized : Wishes, fullscreen : Wishes]
  BY DEF NothingAsked, Wishes
<1> QED
  BY <1>1, <1>2, <1>3, <1>4
  DEF Init, LockInv, Types, GrabIsOwned, ServerWindow

\* LockInv is an invariant: types, and GrabIsOwned as it stands.
THEOREM LockInvariant == Spec => []LockInv
<1>1. Init => LockInv
  BY LockInvStart
<1>2. LockInv /\ [Next]_vars => LockInv'
  <2> SUFFICES ASSUME LockInv, [Next]_vars
               PROVE  LockInv'
    OBVIOUS
  <2>1. CASE Application
    BY <2>1, ApplicationStep
  <2>2. CASE Surroundings
    BY <2>2, SurroundingsStep
  <2>3. CASE Handlers
    BY <2>3, HandlersStep
  <2>4. CASE UNCHANGED vars
    BY <2>4 DEF vars, appVars, serverVars, LockInv, Types, GrabIsOwned, Live
  <2> QED
    BY <2>1, <2>2, <2>3, <2>4 DEF Next
<1> QED
  BY <1>1, <1>2, PTL DEF Spec

\* Whichever windows lock, unlock, come and go, in callbacks or not, the pointer
\* is grabbed only by a live window that wants it locked while locked_window
\* names one, and locked_window never names a window that was destroyed or
\* unlocked (lvkw_wnd_destroy_X11, _lvkw_wnd_setCursorMode_X11).
THEOREM GrabIsAlwaysOwned == Spec => []GrabIsOwned
<1>1. LockInv => GrabIsOwned
  BY DEF LockInv
<1> QED
  BY <1>1, LockInvariant, PTL

-----------------------------------------------------------------------------
(* Requests, answers and the user's own changes cross.  What makes the      *)
(* windows settle is that the last event of a kind in the queue says what   *)
(* the server has, and that without one the library has it already, or has  *)
(* still to read it after a callback.                                       *)

\* Events of window w of some kinds: one at k in q, the latest in q.
Is(q, kinds, w, k) ==
  k \in DOMAIN q /\ q[k].kind \in kinds /\ q[k].window = w
Latest(q, kinds, w, k) ==
  Is(q, kinds, w, k) /\ \A j \in DOMAIN q : Is(q, kinds, w, j) => j <= k

NoneOf(q, kinds, w) == \A k \in DOMAIN q : ~Is(q, kinds, w, k)

\* The last word of q on w: the latest such event, if there is one.
Last(q, kinds, w) == {q[k] : k \in {i \in DOMAIN q : Latest(q, kinds, w, i)}}

FocusEvents == {"focus in", "focus out"}
Topics == {{"configure"}, {"property"}, {"map"}, FocusEvents}

\* The fullscreen state of w is read after a callback in agenda a.
Waits(a, w) == \E k \in DOMAIN a : a[k] = [part |-> "fullscreen", window |-> w]

\* Only windows that were made are spoken of, and a live one has the focus.
Made ==
  /\ \A k \in DOMAIN queue : stage[queue[k].window] # "new"
  /\ \A k \in DOMAIN agenda : stage[agenda[k].window] # "new"
  /\ focus # Nobody => Live(focus)

\* The application has been told what the library takes for the state.
IsTold(w) ==
  told[w] = [size |-> win[w].size, ready |-> win[w].ready,
             maximized |-> win[w].maximized, focused |-> win[w].focused]

\* The last size in the queue is that of the server.  With none in the queue
\* the size is that of the server or the one that was asked for.
SizeComes(w) ==
  /\ \A e \in Last(queue, {"configure"}, w) : e.width = server[w].width
  /\ NoneOf(queue, {"configure"}, w) =>
       \/ win[w].size = Logical(server[w].width)
       \/ Pixels(win[w].size) =
            (IF asked[w].width = 0 THEN server[w].width ELSE asked[w].width)

\* The states are those of the server or will be read.
StatesCome(w) ==
  NoneOf(queue, {"property"}, w) =>
    /\ win[w].maximized = server[w].maximized
    /\ win[w].fullscreen = server[w].fullscreen \/ Waits(agenda, w)

\* The last word on the focus is right.
FocusComes(w) ==
  /\ \A e \in Last(queue, FocusEvents, w) : e.kind = "focus in" <=> focus = w
  /\ NoneOf(queue, FocusEvents, w) => win[w].focused = (focus = w)

ReadyComes(w) ==
  server[w].mapped => win[w].ready \/ ~NoneOf(queue, {"map"}, w)

Coming(w) ==
  IsTold(w) /\ SizeComes(w) /\ StatesCome(w) /\ FocusComes(w) /\ ReadyComes(w)

Telling == [size : Nat, ready : BOOLEAN, maximized : BOOLEAN, focused : BOOLEAN]

SettleInv ==
  /\ Made
  /\ told \in [Window -> Telling]
  /\ \A w \in Window : Live(w) => Coming(w)

\* X refuses a window without pixels (BadValue): the scale leaves a size one.
HasPixels == \A size \in Sizes : Pixels(size) > 0

-----------------------------------------------------------------------------
(* The last word.                                                           *)

LEMMA Appended ==
  ASSUME NEW q \in Seq(QueuedEvent), NEW e \in QueuedEvent
  PROVE  /\ Append(q, e) \in Seq(QueuedEvent)
         /\ DOMAIN q = 1..Len(q) /\ Len(q) \in Nat
         /\ DOMAIN Append(q, e) = 1..(Len(q) + 1)
         /\ \A i \in 1..Len(q) : Append(q, e)[i] = q[i]
         /\ Append(q, e)[Len(q) + 1] = e
  BY SMT

LEMMA AppendedOne ==
  ASSUME NEW q \in Seq(QueuedEvent), NEW e \in QueuedEvent
  PROVE  \A k \in DOMAIN Append(q, e) :
           \/ Append(q, e)[k] = e
           \/ k \in DOMAIN q /\ Append(q, e)[k] = q[k]
  BY Appended

\* A new event is the last word on its window, and changes no other.
LEMMA OwnAppended ==
  ASSUME NEW q \in Seq(QueuedEvent), NEW e \in QueuedEvent, NEW K, NEW w,
         e.kind \in K, e.window = w
  PROVE  /\ Last(Append(q, e), K, w) \subseteq {e}
         /\ ~NoneOf(Append(q, e), K, w)
<1> DEFINE n == Len(q) + 1
<1>1. n \in DOMAIN Append(q, e) /\ Append(q, e)[n] = e
  BY Appended
<1>2. Is(Append(q, e), K, w, n)
  BY <1>1 DEF Is
<1>3. ASSUME NEW i \in DOMAIN Append(q, e), Latest(Append(q, e), K, w, i)
      PROVE  i = n
  <2>1. n <= i
    BY <1>1, <1>2, <1>3 DEF Latest
  <2>2. i \in 1..n /\ n \in Nat
    BY Appended
  <2> QED
    BY <2>1, <2>2
<1>4. ~NoneOf(Append(q, e), K, w)
  BY <1>1, <1>2 DEF NoneOf
<1> QED
  BY <1>1, <1>3, <1>4 DEF Last

LEMMA OtherAppended ==
  ASSUME NEW q \in Seq(QueuedEvent), NEW e \in QueuedEvent, NEW K, NEW w,
         e.kind \notin K \/ e.window # w
  PROVE  /\ Last(Append(q, e), K, w) = Last(q, K, w)
         /\ NoneOf(Append(q, e), K, w) <=> NoneOf(q, K, w)
<1> DEFINE a == Append(q, e)
<1>1. /\ DOMAIN q \subseteq DOMAIN a
      /\ \A i \in DOMAIN q : a[i] = q[i]
      /\ \A i \in DOMAIN a : i \in DOMAIN q \/ a[i] = e
  BY Appended
<1> HIDE DEF a
<1>2. \A i : Is(a, K, w, i) <=> Is(q, K, w, i)
  BY <1>1 DEF Is
<1>3. \A i : Latest(a, K, w, i) <=> Latest(q, K, w, i)
  BY <1>2 DEF Latest, Is
<1>4. \A i : Latest(q, K, w, i) => i \in DOMAIN q
  BY DEF Latest, Is
<1>5. Last(a, K, w) = Last(q, K, w)
  BY <1>1, <1>3, <1>4 DEF Last
<1>6. NoneOf(a, K, w) <=> NoneOf(q, K, w)
  BY <1>2 DEF NoneOf, Is
<1> QED
  BY <1>5, <1>6 DEF a

LEMMA Tailed ==
  ASSUME NEW q \in Seq(QueuedEvent), q # <<>>
  PROVE  /\ Tail(q) \in Seq(QueuedEvent)
         /\ DOMAIN q = 1..Len(q) /\ Len(q) \in Nat \ {0}
         /\ DOMAIN Tail(q) = 1..(Len(q) - 1)
         /\ \A i \in 1..(Len(q) - 1) : Tail(q)[i] = q[i + 1]
         /\ q[1] = Head(q) /\ Head(q) \in QueuedEvent
  BY SMT

\* An event that is read was the last word if no other is left of its kind,
\* and changes no other.
LEMMA TailKeeps ==
  ASSUME NEW q \in Seq(QueuedEvent), q # <<>>, NEW K, NEW w
  PROVE  /\ Last(Tail(q), K, w) \subseteq Last(q, K, w)
         /\ NoneOf(Tail(q), K, w) =>
              IF Head(q).kind \in K /\ Head(q).window = w
              THEN Head(q) \in Last(q, K, w) ELSE NoneOf(q, K, w)
         /\ NoneOf(q, K, w) => NoneOf(Tail(q), K, w)
<1>1. /\ \A i \in DOMAIN Tail(q) : i + 1 \in DOMAIN q /\ Tail(q)[i] = q[i + 1]
      /\ \A j \in DOMAIN q : j = 1 \/ (j - 1 \in DOMAIN Tail(q)
                                        /\ Tail(q)[j - 1] = q[j])
      /\ 1 \in DOMAIN q /\ q[1] = Head(q)
      /\ DOMAIN q \subseteq Nat \ {0}
  BY Tailed
<1>2. \A i \in DOMAIN Tail(q) : Is(Tail(q), K, w, i) <=> Is(q, K, w, i + 1)
  BY <1>1, Zenon DEF Is
<1>3. \A j \in DOMAIN q : j = 1 \/ (Is(q, K, w, j) <=> Is(Tail(q), K, w, j - 1))
  BY <1>1, Zenon DEF Is
<1>4. Last(Tail(q), K, w) \subseteq Last(q, K, w)
  <2> SUFFICES ASSUME NEW e \in Last(Tail(q), K, w)
               PROVE  e \in Last(q, K, w)
    BY Zenon
  <2> PICK i \in DOMAIN Tail(q) : Latest(Tail(q), K, w, i) /\ Tail(q)[i] = e
    BY Zenon DEF Last
  <2>1. i + 1 \in DOMAIN q /\ Is(q, K, w, i + 1)
    BY <1>1, <1>2, Zenon DEF Latest
  <2>2. i \in Nat
    BY Tailed
  <2>3. ASSUME NEW j \in DOMAIN q, Is(q, K, w, j)
        PROVE  j <= i + 1
    <3>1. CASE j = 1
      BY <2>2, <3>1
    <3>2. CASE j # 1
      <4>1. j - 1 \in DOMAIN Tail(q) /\ Is(Tail(q), K, w, j - 1)
        BY <1>1, <1>3, <2>3, <3>2, Zenon
      <4>2. j - 1 <= i
        BY <4>1, Zenon DEF Latest
      <4> QED
        BY <1>1, <2>2, <4>2
    <3> QED
      BY <3>1, <3>2
  <2>4. Latest(q, K, w, i + 1)
    BY <2>1, <2>3, Zenon DEF Latest
  <2>5. q[i + 1] = e
    BY <1>1, Zenon
  <2> QED
    BY <2>1, <2>4, <2>5, Zenon DEF Last
<1>5. ASSUME NoneOf(Tail(q), K, w)
      PROVE  \A j \in DOMAIN q : Is(q, K, w, j) => j = 1
  BY <1>1, <1>3, <1>5, Zenon DEF NoneOf
<1>6. ASSUME NoneOf(Tail(q), K, w), Head(q).kind \in K, Head(q).window = w
      PROVE  Head(q) \in Last(q, K, w)
  <2>1. Is(q, K, w, 1)
    BY <1>1, <1>6, Zenon DEF Is
  <2>2. \A j \in DOMAIN q : Is(q, K, w, j) => j <= 1
    BY <1>5, <1>6
  <2>3. Latest(q, K, w, 1)
    BY <2>1, <2>2, Zenon DEF Latest
  <2> QED
    BY <1>1, <2>3, Zenon DEF Last
<1>7. ASSUME NoneOf(Tail(q), K, w), Head(q).kind \notin K \/ Head(q).window # w
      PROVE  NoneOf(q, K, w)
  BY <1>1, <1>5, <1>7, Zenon DEF NoneOf, Is
<1>8. ASSUME NoneOf(q, K, w)
      PROVE  NoneOf(Tail(q), K, w)
  BY <1>1, <1>2, <1>8, Zenon DEF NoneOf
<1> QED
  BY <1>4, <1>6, <1>7, <1>8, Zenon

-----------------------------------------------------------------------------
(* What a step leaves as it was.                                            *)

\* The events of v are those there were, or some of them were handled.
SameWords(v) ==
  \A K \in Topics : /\ Last(queue', K, v) \subseteq Last(queue, K, v)
                    /\ NoneOf(queue', K, v) <=> NoneOf(queue, K, v)

\* A step that is not about window v.
Untouched(v) ==
  /\ win'[v] = win[v] /\ told'[v] = told[v]
  /\ server'[v] = server[v] /\ asked'[v] = asked[v]
  /\ (focus' = v) = (focus = v)
  /\ SameWords(v)
  /\ Waits(agenda, v) => Waits(agenda', v)

LEMMA TopicsAre ==
  /\ {"configure"} \in Topics /\ {"property"} \in Topics
  /\ {"map"} \in Topics /\ FocusEvents \in Topics
  BY DEF Topics

LEMMA UntouchedStep ==
  ASSUME NEW v \in Window, Coming(v), Untouched(v)
  PROVE  Coming(v)'
<1> USE DEF Untouched
<1>1. IsTold(v)'
  BY DEF Coming, IsTold
<1>2. SizeComes(v)'
  <2>1. SizeComes(v)
    BY DEF Coming
  <2>2. /\ Last(queue', {"configure"}, v) \subseteq Last(queue, {"configure"}, v)
        /\ NoneOf(queue', {"configure"}, v) <=> NoneOf(queue, {"configure"}, v)
    BY TopicsAre DEF SameWords
  <2> QED
    BY <2>1, <2>2, Zenon DEF SizeComes
<1>3. StatesCome(v)'
  BY TopicsAre, Zenon DEF SameWords, StatesCome, Coming
<1>4. FocusComes(v)'
  <2>1. FocusComes(v)
    BY DEF Coming
  <2>2. /\ Last(queue', FocusEvents, v) \subseteq Last(queue, FocusEvents, v)
        /\ NoneOf(queue', FocusEvents, v) <=> NoneOf(queue, FocusEvents, v)
    BY TopicsAre DEF SameWords
  <2> QED
    BY <2>1, <2>2, Zenon DEF FocusComes
<1>5. ReadyComes(v)'
  BY TopicsAre, Zenon DEF SameWords, ReadyComes, Coming
<1> QED
  BY <1>1, <1>2, <1>3, <1>4, <1>5 DEF Coming

\* With the queue as it was, and with an event of another window.
LEMMA SameQueue ==
  ASSUME NEW v, queue' = queue
  PROVE  SameWords(v)
  BY DEF SameWords

LEMMA QueueIsTyped ==
  ASSUME LockInv
  PROVE  queue \in Seq(QueuedEvent)
  BY DEF LockInv, Types

LEMMA OtherQueued ==
  ASSUME LockInv, NEW e \in QueuedEvent, NEW v, e.window # v,
         queue' = Append(queue, e)
  PROVE  SameWords(v)
<1>1. queue \in Seq(QueuedEvent)
  BY QueueIsTyped
<1>2. ASSUME NEW K
      PROVE  /\ Last(queue', K, v) = Last(queue, K, v)
             /\ NoneOf(queue', K, v) <=> NoneOf(queue, K, v)
  BY <1>1, OtherAppended
<1> QED
  BY <1>2 DEF SameWords

\* Only windows that were made are spoken of after a step that makes and
\* destroys none, and queues or reads an event of a window that was made.
LEMMA StillMade ==
  ASSUME LockInv, Made,
         \A v \in Window : stage[v] # "new" => stage'[v] # "new",
         focus' # Nobody => Live(focus)',
         \A k \in DOMAIN queue' :
           \/ stage[queue'[k].window] # "new" /\ queue'[k].window \in Window
           \/ k \in DOMAIN queue /\ queue'[k] = queue[k],
         \A k \in DOMAIN agenda' :
           \/ stage[agenda'[k].window] # "new" /\ agenda'[k].window \in Window
           \/ k \in DOMAIN agenda /\ agenda'[k] = agenda[k]
  PROVE  Made'
<1>1. \A k \in DOMAIN queue : queue[k].window \in Window
  <2>1. \A k \in DOMAIN queue : queue[k] \in QueuedEvent
    BY QueueIsTyped
  <2> QED
    BY <2>1 DEF QueuedEvent
<1>2. \A k \in DOMAIN agenda : agenda[k].window \in Window
  <2> DEFINE Parts == [part : {"text", "fullscreen"}, window : Window]
  <2>1. agenda \in Seq(Parts)
    BY DEF LockInv, Types
  <2>2. \A k \in DOMAIN agenda : agenda[k] \in Parts
    <3> HIDE DEF Parts
    <3> QED
      BY <2>1
  <2> QED
    BY <2>2
<1>3. \A k \in DOMAIN queue' : stage'[queue'[k].window] # "new"
  BY <1>1, Zenon DEF Made
<1>4. \A k \in DOMAIN agenda' : stage'[agenda'[k].window] # "new"
  BY <1>2, Zenon DEF Made
<1> QED
  BY <1>3, <1>4, Zenon DEF Made

\* The queue with one more event of a window that was made.
LEMMA MadeQueued ==
  ASSUME LockInv, Made, NEW e \in QueuedEvent, Live(e.window),
         queue' \in {queue, Append(queue, e)},
         UNCHANGED <<stage, agenda>>,
         focus' \in {focus, Nobody, e.window}
  PROVE  Made'
<1>1. queue \in Seq(QueuedEvent) /\ e.window \in Window
  BY QueueIsTyped DEF QueuedEvent
<1>2. \A k \in DOMAIN queue' : \/ queue'[k] = e
                               \/ k \in DOMAIN queue /\ queue'[k] = queue[k]
  BY <1>1, Appended
<1>3. focus' # Nobody => Live(focus)'
  BY DEF Made, Live
<1> QED
  BY <1>1, <1>2, <1>3, StillMade DEF Live

\* A step about window w.
LEMMA StepAbout ==
  ASSUME SettleInv, Made', NEW w \in Window, told' \in [Window -> Telling],
         \A v \in Window \ {w} : (Live(v)' => Live(v)) /\ Untouched(v),
         Live(w)' => Coming(w)'
  PROVE  SettleInv'
<1>1. ASSUME NEW v \in Window, Live(v)'
      PROVE  Coming(v)'
  <2>1. CASE v = w
    BY <1>1, <2>1
  <2>2. CASE v # w
    BY <1>1, <2>2, UntouchedStep DEF SettleInv
  <2> QED
    BY <2>1, <2>2
<1> QED
  BY <1>1, Zenon DEF SettleInv

\* Nothing is said of a window before it is made.
LEMMA NothingOfNew ==
  ASSUME LockInv, Made, NEW w \in Window, stage[w] = "new", NEW K
  PROVE  Last(queue, K, w) = {} /\ NoneOf(queue, K, w) /\ focus # w
<1>1. \A k : ~Is(queue, K, w, k)
  BY DEF Made, Is
<1>2. focus # w
  BY WindowAssumption DEF Made, Live
<1>3. Last(queue, K, w) = {}
  BY <1>1, Zenon DEF Last, Latest
<1> QED
  BY <1>1, <1>2, <1>3, Zenon DEF NoneOf

-----------------------------------------------------------------------------
(* The application's calls, once more.                                      *)

\* What is told after an update of one field.
LEMMA ToldField ==
  ASSUME NEW t \in Telling
  PROVE  /\ \A n \in Nat :
              /\ [t EXCEPT !.size = n] \in Telling
              /\ [t EXCEPT !.size = n] =
                   [size |-> n, ready |-> t.ready, maximized |-> t.maximized,
                    focused |-> t.focused]
         /\ \A b \in BOOLEAN :
              /\ [t EXCEPT !.ready = b] \in Telling
              /\ [t EXCEPT !.ready = b] =
                   [size |-> t.size, ready |-> b, maximized |-> t.maximized,
                    focused |-> t.focused]
              /\ [t EXCEPT !.maximized = b] \in Telling
              /\ [t EXCEPT !.maximized = b] =
                   [size |-> t.size, ready |-> t.ready, maximized |-> b,
                    focused |-> t.focused]
              /\ [t EXCEPT !.focused = b] \in Telling
              /\ [t EXCEPT !.focused = b] =
                   [size |-> t.size, ready |-> t.ready, maximized |-> t.maximized,
                    focused |-> b]
  BY DEF Telling

LEMMA NothingToldYet ==
  /\ NothingTold \in Telling
  /\ NothingTold.ready = FALSE /\ NothingTold.maximized = FALSE
  /\ NothingTold.focused = FALSE
  BY DEF NothingTold, Telling

LEMMA NothingToldBut ==
  ASSUME NEW n \in Nat
  PROVE  [NothingTold EXCEPT !.size = n] =
           [size |-> n, ready |-> FALSE, maximized |-> FALSE, focused |-> FALSE]
<1>1. [NothingTold EXCEPT !.size = n] =
        [size |-> n, ready |-> NothingTold.ready,
         maximized |-> NothingTold.maximized, focused |-> NothingTold.focused]
  BY ToldField, NothingToldYet
<1> QED
  BY <1>1, NothingToldYet, ZenonT(30)

LEMMA CreateSettles ==
  ASSUME LockInv, SettleInv, NEW w \in Window, NEW c \in Creations,
         NEW cursor \in Cursor, CreateWindow(w, c, cursor)
  PROVE  SettleInv'
<1> USE DEF CreateWindow
<1> DEFINE Wanted == [width |-> 0, maximized |-> IF c.maximized THEN "on" ELSE "no",
                      fullscreen |-> IF c.fullscreen THEN "on" ELSE "no"]
<1>1. Made /\ stage[w] = "new"
  BY DEF SettleInv
<1>2. c.size \in Nat
  BY WindowAssumption
<1>3. /\ win'[w] = NewWindow(c.size, c.mode, cursor)
      /\ server'[w] = NewServerWindow(c.size, cursor)
      /\ asked'[w] = Wanted
      /\ stage'[w] = "live"
      /\ \A v \in Window \ {w} : /\ win'[v] = win[v] /\ server'[v] = server[v]
                                 /\ asked'[v] = asked[v] /\ stage'[v] = stage[v]
  BY DEF LockInv, Types
<1>4. \A K : NoneOf(queue, K, w) /\ Last(queue, K, w) = {} /\ focus # w
  BY <1>1, NothingOfNew
<1>5. /\ told'[w] = [NothingTold EXCEPT !.size = c.size]
      /\ told'[w] \in Telling
      /\ told' \in [Window -> Telling]
      /\ \A v \in Window \ {w} : told'[v] = told[v]
  <2>1. [NothingTold EXCEPT !.size = c.size] \in Telling
    BY <1>2 DEF NothingTold, Telling
  <2> QED
    BY <2>1 DEF SettleInv
<1>6. \A v \in Window \ {w} : (Live(v)' => Live(v)) /\ Untouched(v)
  BY <1>3, <1>5, SameQueue, Zenon DEF Untouched, Live
<1>7. Coming(w)'
  <2>1. /\ win'[w].size = c.size /\ win'[w].ready = FALSE
        /\ win'[w].maximized = FALSE /\ win'[w].fullscreen = FALSE
        /\ win'[w].focused = FALSE
    BY <1>3 DEF NewWindow
  <2>2. /\ server'[w].width = Pixels(c.size) /\ server'[w].maximized = FALSE
        /\ server'[w].fullscreen = FALSE /\ server'[w].mapped = FALSE
        /\ asked'[w].width = 0
    BY <1>3 DEF NewServerWindow
  <2>3. IsTold(w)'
    <3>1. [NothingTold EXCEPT !.size = c.size] =
            [size |-> c.size, ready |-> FALSE, maximized |-> FALSE, focused |-> FALSE]
      BY <1>2, NothingToldBut, Zenon
    <3> QED
      BY <1>5, <2>1, <3>1, Zenon DEF IsTold
  <2>4. SizeComes(w)' /\ FocusComes(w)'
    BY <1>4, <2>1, <2>2, Zenon DEF SizeComes, FocusComes
  <2>5. StatesCome(w)' /\ ReadyComes(w)'
    BY <2>1, <2>2, Zenon DEF StatesCome, ReadyComes
  <2> QED
    BY <2>3, <2>4, <2>5, Zenon DEF Coming
<1>8. Made'
  <2>1. \A v \in Window : stage[v] # "new" => stage'[v] # "new"
    BY <1>3
  <2>2. focus' # Nobody => Live(focus)'
    BY <1>1, <1>3 DEF Made, Live, LockInv, Types
  <2> QED
    BY <1>1, <2>1, <2>2, StillMade, Zenon
<1> QED
  BY <1>5, <1>6, <1>7, <1>8, StepAbout

LEMMA DestroySettles ==
  ASSUME LockInv, SettleInv, NEW w \in Window, DestroyWindow(w)
  PROVE  SettleInv'
<1> USE DEF DestroyWindow, Call, Gone
<1>1. /\ stage'[w] = "dead"
      /\ \A v \in Window \ {w} : /\ win'[v] = win[v] /\ server'[v] = server[v]
                                 /\ asked'[v] = asked[v] /\ stage'[v] = stage[v]
  BY DEF LockInv, Types
<1>2. /\ told' \in [Window -> Telling]
      /\ \A v \in Window \ {w} : told'[v] = told[v]
  <2>1. NothingTold \in Telling
    BY DEF NothingTold, Telling
  <2> QED
    BY <2>1 DEF SettleInv
<1>3. \A v \in Window \ {w} : (Live(v)' => Live(v)) /\ Untouched(v)
  <2>1. \A v \in Window \ {w} : (focus' = v) = (focus = v)
    BY WindowAssumption
  <2> QED
    BY <1>1, <1>2, <2>1, SameQueue, Zenon DEF Untouched, Live
<1>4. Made'
  <2>1. \A v \in Window : stage[v] # "new" => stage'[v] # "new"
    BY <1>1
  <2>2. focus' # Nobody => Live(focus)'
    BY <1>1 DEF SettleInv, Made, Live, LockInv, Types
  <2> QED
    BY <2>1, <2>2, StillMade, Zenon DEF SettleInv
<1>5. ~Live(w)'
  BY <1>1 DEF Live
<1> QED
  BY <1>2, <1>3, <1>4, <1>5, StepAbout

-----------------------------------------------------------------------------
(* One field of one window.                                                 *)

\* Two windows of the library that the server and the application see alike,
\* but for one field.
Alike(f, g, names) == \A name \in names : f[name] = g[name]
Seen == {"size", "ready", "maximized", "fullscreen", "focused"}

-----------------------------------------------------------------------------
(* The application's updates, once more.  They queue nothing.               *)

ServerFields == {"mapped", "width", "maximized", "fullscreen"}

LEMMA UpdateSettles ==
  ASSUME LockInv, SettleInv, NEW w \in Window, Live(w),
         UNCHANGED <<stage, focus, queue, agenda>>, told' \in [Window -> Telling],
         \A v \in Window \ {w} : /\ win'[v] = win[v] /\ told'[v] = told[v]
                                 /\ server'[v] = server[v] /\ asked'[v] = asked[v],
         Alike(win'[w], win[w], Seen \ {"size"}),
         Alike(server'[w], server[w], ServerFields),
         IsTold(w)', SizeComes(w)'
  PROVE  SettleInv'
<1>1. Made'
  BY DEF SettleInv, Made, Live
<1>2. \A v \in Window \ {w} : (Live(v)' => Live(v)) /\ Untouched(v)
  BY SameQueue, Zenon DEF Untouched, Live
<1>3. /\ win'[w].ready = win[w].ready /\ win'[w].maximized = win[w].maximized
      /\ win'[w].fullscreen = win[w].fullscreen
      /\ win'[w].focused = win[w].focused
      /\ server'[w].mapped = server[w].mapped
      /\ server'[w].maximized = server[w].maximized
      /\ server'[w].fullscreen = server[w].fullscreen
  BY DEF Alike, Seen, ServerFields
<1>4. Coming(w)
  BY DEF SettleInv
<1>5. StatesCome(w)' /\ FocusComes(w)' /\ ReadyComes(w)'
  BY <1>3, <1>4, Zenon DEF Coming, StatesCome, FocusComes, ReadyComes
<1>6. Coming(w)'
  BY <1>5, Zenon DEF Coming
<1> QED
  BY <1>1, <1>2, <1>6, StepAbout, Zenon

\* An update of something that events do not bring.
LEMMA OtherUpdateSettles ==
  ASSUME LockInv, SettleInv, NEW w \in Window, Live(w),
         UNCHANGED <<stage, focus, queue, agenda, told>>,
         \A v \in Window \ {w} : /\ win'[v] = win[v]
                                 /\ server'[v] = server[v] /\ asked'[v] = asked[v],
         Alike(win'[w], win[w], Seen),
         Alike(server'[w], server[w], ServerFields),
         asked'[w].width = asked[w].width
  PROVE  SettleInv'
<1>1. Coming(w) /\ told' \in [Window -> Telling]
  BY DEF SettleInv
<1>2. /\ win'[w].size = win[w].size /\ win'[w].ready = win[w].ready
      /\ win'[w].maximized = win[w].maximized
      /\ win'[w].focused = win[w].focused /\ server'[w].width = server[w].width
  BY DEF Alike, Seen, ServerFields
<1>3. IsTold(w)' /\ SizeComes(w)'
  BY <1>1, <1>2, Zenon DEF Coming, IsTold, SizeComes
<1>4. Alike(win'[w], win[w], Seen \ {"size"})
  BY DEF Alike
<1> QED
  BY <1>1, <1>3, <1>4, UpdateSettles, Zenon

\* The records of a window are as they were, if nothing changes them.
LEMMA AlikeItself ==
  ASSUME NEW f, NEW names
  PROVE  Alike(f, f, names)
  BY DEF Alike

LEMMA SizeSettles ==
  ASSUME HasPixels, LockInv, SettleInv, NEW w \in Window, NEW size \in Sizes,
         SetSize(w, size)
  PROVE  SettleInv'
<1>1. /\ Live(w) /\ UNCHANGED <<stage, focus, queue, agenda, server>>
      /\ win' = [win EXCEPT ![w].size = size]
      /\ told' = [told EXCEPT ![w].size = size]
      /\ asked' = [asked EXCEPT ![w].width = Pixels(size)]
  BY DEF SetSize, Updates, Call
<1>2. size \in Nat /\ Pixels(size) \in Nat /\ Pixels(size) # 0
  BY ConversionsNat, WindowAssumption DEF HasPixels
<1>3. /\ told[w] \in Telling /\ told \in [Window -> Telling]
      /\ win[w] \in Fields /\ win \in [Window -> Fields]
      /\ asked \in [Window -> [width : Nat, maximized : Wishes, fullscreen : Wishes]]
      /\ Coming(w)
  BY <1>1 DEF LockInv, Types, SettleInv
<1>4. /\ win'[w] = [win[w] EXCEPT !.size = size]
      /\ told'[w] = [told[w] EXCEPT !.size = size]
      /\ asked'[w].width = Pixels(size)
      /\ \A v \in Window \ {w} : /\ win'[v] = win[v] /\ told'[v] = told[v]
                                 /\ asked'[v] = asked[v]
  BY <1>1, <1>3
<1>5. told' \in [Window -> Telling]
  <2>1. [told[w] EXCEPT !.size = size] \in Telling
    BY <1>2, <1>3, ToldField
  <2>2. told' = [told EXCEPT ![w] = [told[w] EXCEPT !.size = size]]
    BY <1>1
  <2> QED
    BY <1>3, <2>1, <2>2
<1>6. /\ win'[w].size = size /\ Alike(win'[w], win[w], Seen \ {"size"})
  BY <1>2, <1>3, <1>4 DEF Fields, Alike, Seen
<1>7. IsTold(w)'
  <2>1. told'[w] = [size |-> size, ready |-> told[w].ready,
                    maximized |-> told[w].maximized, focused |-> told[w].focused]
    BY <1>2, <1>3, <1>4, ToldField
  <2>2. /\ told[w].ready = win'[w].ready /\ told[w].maximized = win'[w].maximized
        /\ told[w].focused = win'[w].focused
    BY <1>3, <1>6 DEF Coming, IsTold, Alike, Seen
  <2> QED
    BY <1>6, <2>1, <2>2, Zenon DEF IsTold
<1>8. SizeComes(w)'
  BY <1>1, <1>2, <1>3, <1>4, <1>6, Zenon DEF SizeComes, Coming
<1> QED
  BY <1>1, <1>4, <1>5, <1>6, <1>7, <1>8, AlikeItself, UpdateSettles, Zenon

LEMMA WishSettles ==
  ASSUME LockInv, SettleInv, NEW w \in Window, NEW on \in BOOLEAN,
         SetMaximized(w, on) \/ SetFullscreen(w, on)
  PROVE  SettleInv'
<1>1. Live(w) /\ UNCHANGED <<stage, focus, queue, agenda, told, win, server>>
  BY DEF SetMaximized, SetFullscreen, Updates, Call
<1>2. \/ asked' = [asked EXCEPT ![w].maximized = Wish(on)]
      \/ asked' = [asked EXCEPT ![w].fullscreen = Wish(on)]
  BY DEF SetMaximized, SetFullscreen
<1>3. /\ asked'[w].width = asked[w].width
      /\ \A v \in Window \ {w} : asked'[v] = asked[v]
  <2>1. asked \in [Window -> [width : Nat, maximized : Wishes, fullscreen : Wishes]]
    BY DEF LockInv, Types
  <2> QED
    BY <1>2, <2>1
<1> QED
  BY <1>1, <1>3, AlikeItself, OtherUpdateSettles, Zenon

LEMMA CursorSettles ==
  ASSUME LockInv, SettleInv, NEW w \in Window, NEW cursor \in Cursor,
         SetCursor(w, cursor)
  PROVE  SettleInv'
<1>1. Live(w) /\ UNCHANGED <<stage, focus, queue, agenda, told, asked>>
  BY DEF SetCursor, Updates, Call
<1>2. /\ win'[w] = [win[w] EXCEPT !.cursor = cursor] /\ win[w] \in Fields
      /\ \A v \in Window \ {w} : win'[v] = win[v]
  BY DEF SetCursor, LockInv, Types
<1>3. Alike(win'[w], win[w], Seen)
  BY <1>2 DEF Fields, Alike, Seen
<1>4. /\ Alike(server'[w], server[w], ServerFields)
      /\ \A v \in Window \ {w} : server'[v] = server[v]
  BY DEF SetCursor, LockInv, Types, Alike, ServerFields
<1> QED
  BY <1>1, <1>2, <1>3, <1>4, OtherUpdateSettles, Zenon

LEMMA ModeSettles ==
  ASSUME LockInv, SettleInv, NEW w \in Window,
         Lock(w) \/ \E mode \in CursorMode \ {"locked"} : Unlock(w, mode)
  PROVE  SettleInv'
<1>1. Live(w) /\ UNCHANGED <<stage, focus, queue, agenda, told, asked>>
  BY DEF Lock, Unlock, Updates, Call
<1>2. PICK m \in CursorMode : win' = [win EXCEPT ![w].cursor_mode = m]
  BY DEF Lock, Unlock, CursorMode
<1>3. /\ win'[w] = [win[w] EXCEPT !.cursor_mode = m] /\ win[w] \in Fields
      /\ \A v \in Window \ {w} : win'[v] = win[v]
  BY <1>2 DEF LockInv, Types
<1>4. Alike(win'[w], win[w], Seen)
  BY <1>3 DEF Fields, Alike, Seen
<1>5. /\ Alike(server'[w], server[w], ServerFields)
      /\ \A v \in Window \ {w} : server'[v] = server[v]
  BY DEF Lock, Unlock, CursorApplied, LockInv, Types, Alike, ServerFields
<1> QED
  BY <1>1, <1>3, <1>4, <1>5, OtherUpdateSettles, Zenon

LEMMA ApplicationSettles ==
  ASSUME HasPixels, LockInv, SettleInv, Application
  PROVE  SettleInv'
<1> SUFFICES ASSUME NEW w \in Window,
                    \/ \E c \in Creations, cursor \in Cursor :
                         CreateWindow(w, c, cursor)
                    \/ \E size \in Sizes : SetSize(w, size)
                    \/ \E on \in BOOLEAN :
                         SetMaximized(w, on) \/ SetFullscreen(w, on)
                    \/ \E cursor \in Cursor : SetCursor(w, cursor)
                    \/ \E mode \in CursorMode \ {"locked"} : Unlock(w, mode)
                    \/ Lock(w) \/ DestroyWindow(w)
             PROVE  SettleInv'
  BY DEF Application
<1> QED
  BY CreateSettles, SizeSettles, WishSettles, CursorSettles, ModeSettles,
     DestroySettles

-----------------------------------------------------------------------------
(* The surroundings, once more.                                             *)

\* The words on a topic are as they were; e is the last one.
SameTopic(K, w) == /\ Last(queue', K, w) = Last(queue, K, w)
                   /\ NoneOf(queue', K, w) <=> NoneOf(queue, K, w)
LastIs(K, w, e) == /\ Last(queue', K, w) \subseteq {e}
                   /\ ~NoneOf(queue', K, w)

\* An event of w is put at the end: what it does to the words on w.
LEMMA OwnQueued ==
  ASSUME LockInv, NEW e \in QueuedEvent, NEW w, e.window = w,
         queue' = Append(queue, e)
  PROVE  \A K : IF e.kind \in K THEN LastIs(K, w, e) ELSE SameTopic(K, w)
<1> SUFFICES ASSUME NEW K
             PROVE  IF e.kind \in K THEN LastIs(K, w, e) ELSE SameTopic(K, w)
  OBVIOUS
<1>1. queue \in Seq(QueuedEvent)
  BY QueueIsTyped
<1>2. CASE e.kind \in K
  BY <1>1, <1>2, OwnAppended, Zenon DEF LastIs
<1>3. CASE e.kind \notin K
  BY <1>1, <1>3, OtherAppended, Zenon DEF SameTopic
<1> QED
  BY <1>2, <1>3

\* Which kind belongs to which topic.
LEMMA TopicOf ==
  /\ "map" \in {"map"} /\ "map" \notin {"configure"}
  /\ "map" \notin {"property"} /\ "map" \notin FocusEvents
  /\ "configure" \in {"configure"} /\ "configure" \notin {"map"}
  /\ "configure" \notin {"property"} /\ "configure" \notin FocusEvents
  /\ "property" \in {"property"} /\ "property" \notin {"map"}
  /\ "property" \notin {"configure"} /\ "property" \notin FocusEvents
  /\ "key" \notin {"map"} /\ "key" \notin {"configure"}
  /\ "key" \notin {"property"} /\ "key" \notin FocusEvents
  /\ \A kind \in FocusEvents :
       kind \notin {"map"} /\ kind \notin {"configure"} /\ kind \notin {"property"}
  BY DEF FocusEvents

\* The events are what they say.
LEMMA EventIs ==
  ASSUME NEW w \in Window, NEW n \in Nat,
         NEW kind \in {"map", "property", "focus in", "focus out", "key"}
  PROVE  /\ Event(kind, w) \in QueuedEvent /\ Configure(w, n) \in QueuedEvent
         /\ Event(kind, w).kind = kind /\ Event(kind, w).window = w
         /\ Configure(w, n).kind = "configure" /\ Configure(w, n).window = w
         /\ Configure(w, n).width = n
  BY DEF Event, Configure, QueuedEvent

\* A change of w by the server, which changes nothing of the library.
LEMMA ChangeSettles ==
  ASSUME LockInv, SettleInv, NEW w \in Window, UNCHANGED <<stage, win, told, agenda>>,
         NEW e \in QueuedEvent, e.window = w, Live(w),
         queue' \in {queue, Append(queue, e)},
         focus' = focus \/ (focus = w /\ focus' = Nobody),
         \A v \in Window \ {w} : server'[v] = server[v] /\ asked'[v] = asked[v],
         SizeComes(w)', StatesCome(w)', FocusComes(w)', ReadyComes(w)'
  PROVE  SettleInv'
<1>1. Made'
  BY MadeQueued DEF SettleInv
<1>2. \A v \in Window \ {w} : SameWords(v)
  BY OtherQueued, SameQueue
<1>3. \A v \in Window \ {w} : (focus' = v) = (focus = v)
  BY WindowAssumption
<1>4. \A v \in Window \ {w} : (Live(v)' => Live(v)) /\ Untouched(v)
  BY <1>2, <1>3, Zenon DEF Untouched, Live
<1>5. IsTold(w)'
  BY DEF SettleInv, Coming, IsTold
<1>6. Coming(w)'
  BY <1>5, Zenon DEF Coming
<1> QED
  BY <1>1, <1>4, <1>6, StepAbout, Zenon DEF SettleInv

\* With w, its words on a topic and its record of the server as they were.
LEMMA SameFocus ==
  ASSUME NEW w, FocusComes(w), win' = win, (focus' = w) = (focus = w),
         SameTopic(FocusEvents, w)
  PROVE  FocusComes(w)'
  BY Zenon DEF FocusComes, SameTopic

LEMMA SameStates ==
  ASSUME NEW w, StatesCome(w), UNCHANGED <<win, agenda>>,
         Alike(server'[w], server[w], {"maximized", "fullscreen"}),
         SameTopic({"property"}, w)
  PROVE  StatesCome(w)'
<1>1. /\ server'[w].maximized = server[w].maximized
      /\ server'[w].fullscreen = server[w].fullscreen
  BY DEF Alike
<1> QED
  BY <1>1, Zenon DEF StatesCome, SameTopic

LEMMA SameReady ==
  ASSUME NEW w, ReadyComes(w), UNCHANGED win,
         server'[w].mapped => server[w].mapped,
         SameTopic({"map"}, w)
  PROVE  ReadyComes(w)'
  BY Zenon DEF ReadyComes, SameTopic

LEMMA SameSize ==
  ASSUME NEW w, SizeComes(w), UNCHANGED win,
         server'[w].width = server[w].width, asked'[w].width = asked[w].width,
         SameTopic({"configure"}, w)
  PROVE  SizeComes(w)'
  BY Zenon DEF SizeComes, SameTopic

LEMMA MapSettles ==
  ASSUME LockInv, SettleInv, NEW w \in Window, Map(w)
  PROVE  SettleInv'
<1> DEFINE e == Event("map", w)
<1>1. /\ Live(w) /\ queue' = Append(queue, e)
      /\ UNCHANGED <<stage, win, told, agenda, focus, asked>>
  BY DEF Map, appVars
<1>2. e \in QueuedEvent /\ e.window = w /\ e.kind = "map"
  BY EventIs, 0 \in Nat
<1>3. /\ \A v \in Window \ {w} : server'[v] = server[v]
      /\ Alike(server'[w], server[w], {"maximized", "fullscreen"})
      /\ server'[w].width = server[w].width
  BY DEF Map, LockInv, Types, Alike
<1> HIDE DEF e
<1>4. Coming(w)
  BY <1>1 DEF SettleInv
<1>5. /\ LastIs({"map"}, w, e) /\ SameTopic({"configure"}, w)
      /\ SameTopic({"property"}, w) /\ SameTopic(FocusEvents, w)
  BY <1>1, <1>2, OwnQueued, TopicOf, Zenon
<1>6. SizeComes(w)' /\ StatesCome(w)' /\ FocusComes(w)'
  BY <1>1, <1>3, <1>4, <1>5, SameSize, SameStates, SameFocus, Zenon DEF Coming
<1>7. ReadyComes(w)'
  BY <1>5, Zenon DEF ReadyComes, LastIs
<1> QED
  BY <1>1, <1>2, <1>3, <1>6, <1>7, ChangeSettles

\* The queue as it was.
LEMMA NothingQueued ==
  ASSUME queue' = queue, NEW K, NEW w
  PROVE  SameTopic(K, w)
  BY DEF SameTopic

LEMMA UnmapSettles ==
  ASSUME LockInv, SettleInv, NEW w \in Window, Unmap(w)
  PROVE  SettleInv'
<1> DEFINE e == Event("focus out", w)
<1>1. /\ Live(w) /\ UNCHANGED <<stage, win, told, agenda, asked>>
      /\ queue' = IF focus = w THEN Append(queue, e) ELSE queue
      /\ focus' = IF focus = w THEN Nobody ELSE focus
  BY DEF Unmap, Change, appVars
<1>2. e \in QueuedEvent /\ e.window = w /\ e.kind = "focus out"
  BY EventIs, 0 \in Nat
<1>3. /\ \A v \in Window \ {w} : server'[v] = server[v]
      /\ Alike(server'[w], server[w], {"maximized", "fullscreen"})
      /\ server'[w].width = server[w].width /\ server'[w].mapped = FALSE
  BY DEF Unmap, LockInv, Types, Alike
<1> HIDE DEF e
<1>4. Coming(w)
  BY <1>1 DEF SettleInv
<1>5. "focus out" \in FocusEvents
  BY DEF FocusEvents
<1>6. /\ SameTopic({"configure"}, w) /\ SameTopic({"property"}, w)
      /\ IF focus = w THEN LastIs(FocusEvents, w, e) ELSE SameTopic(FocusEvents, w)
  <2>1. CASE focus = w
    BY <1>1, <1>2, <1>5, <2>1, OwnQueued, TopicOf, Zenon
  <2>2. CASE focus # w
    BY <1>1, <2>2, NothingQueued, Zenon
  <2> QED
    BY <2>1, <2>2
<1>7. SizeComes(w)' /\ StatesCome(w)' /\ ReadyComes(w)'
  BY <1>1, <1>3, <1>4, <1>6, SameSize, SameStates, Zenon DEF Coming, ReadyComes
<1>8. FocusComes(w)'
  <2>1. CASE focus = w
    <3>1. focus' # w
      BY <1>1, <2>1, WindowAssumption
    <3>2. "focus out" # "focus in"
      OBVIOUS
    <3> QED
      BY <1>2, <1>6, <2>1, <3>1, <3>2, Zenon DEF FocusComes, LastIs
  <2>2. CASE focus # w
    BY <1>1, <1>4, <1>6, <2>2, SameFocus, Zenon DEF Coming
  <2> QED
    BY <2>1, <2>2
<1>9. queue' \in {queue, Append(queue, e)}
  BY <1>1
<1>10. focus' = focus \/ (focus = w /\ focus' = Nobody)
  BY <1>1
<1> QED
  BY <1>1, <1>2, <1>3, <1>7, <1>8, <1>9, <1>10, ChangeSettles, Zenon

LEMMA ResizeSettles ==
  ASSUME LockInv, SettleInv, NEW w \in Window, NEW width \in Nat, Resize(w, width)
  PROVE  SettleInv'
<1> DEFINE e == Configure(w, width)
<1>1. /\ Live(w) /\ UNCHANGED <<stage, win, told, agenda, focus>>
      /\ \/ queue' = Append(queue, e)
         \/ /\ width = server[w].width /\ asked[w].width = width
            /\ asked[w].width # 0 /\ queue' = queue
  BY DEF Resize, Change, appVars
<1>2. e \in QueuedEvent /\ e.window = w /\ e.kind = "configure" /\ e.width = width
  BY DEF Configure, QueuedEvent
<1>3. /\ \A v \in Window \ {w} : server'[v] = server[v] /\ asked'[v] = asked[v]
      /\ Alike(server'[w], server[w], {"maximized", "fullscreen"})
      /\ server'[w].mapped = server[w].mapped
      /\ server'[w].width = width /\ asked'[w].width = 0
  BY DEF Resize, LockInv, Types, Alike
<1> HIDE DEF e
<1>4. Coming(w)
  BY <1>1 DEF SettleInv
<1>5. /\ SameTopic({"map"}, w) /\ SameTopic({"property"}, w)
      /\ SameTopic(FocusEvents, w)
      /\ \/ LastIs({"configure"}, w, e)
         \/ /\ SameTopic({"configure"}, w)
            /\ width = server[w].width /\ asked[w].width = width
            /\ asked[w].width # 0
  <2>1. CASE queue' = Append(queue, e)
    BY <1>1, <1>2, <2>1, OwnQueued, TopicOf, Zenon
  <2>2. CASE queue' # Append(queue, e)
    BY <1>1, <2>2, NothingQueued, Zenon
  <2> QED
    BY <2>1, <2>2
<1>6. StatesCome(w)' /\ FocusComes(w)' /\ ReadyComes(w)'
  BY <1>1, <1>3, <1>4, <1>5, SameStates, SameFocus, SameReady, Zenon DEF Coming
<1>7. SizeComes(w)'
  <2>1. CASE LastIs({"configure"}, w, e)
    BY <1>2, <1>3, <2>1, Zenon DEF SizeComes, LastIs
  <2>2. CASE ~LastIs({"configure"}, w, e)
    BY <1>1, <1>3, <1>4, <1>5, <2>2, Zenon DEF SizeComes, SameTopic, Coming
  <2> QED
    BY <2>1, <2>2
<1>8. queue' \in {queue, Append(queue, e)}
  BY <1>1
<1> QED
  BY <1>1, <1>2, <1>3, <1>6, <1>7, <1>8, ChangeSettles, Zenon

LEMMA ChangeStatesSettles ==
  ASSUME LockInv, SettleInv, NEW w \in Window, NEW max \in BOOLEAN,
         NEW full \in BOOLEAN, ChangeStates(w, max, full)
  PROVE  SettleInv'
<1> DEFINE e == Event("property", w)
           same == server[w].maximized = max /\ server[w].fullscreen = full
<1>1. /\ Live(w) /\ UNCHANGED <<stage, win, told, agenda, focus>>
      /\ queue' = IF same THEN queue ELSE Append(queue, e)
  BY DEF ChangeStates, Change, appVars
<1>2. e \in QueuedEvent /\ e.window = w /\ e.kind = "property"
  BY EventIs, 0 \in Nat
<1>3. /\ \A v \in Window \ {w} : server'[v] = server[v] /\ asked'[v] = asked[v]
      /\ server'[w].maximized = max /\ server'[w].fullscreen = full
      /\ server'[w].mapped = server[w].mapped
      /\ server'[w].width = server[w].width /\ asked'[w].width = asked[w].width
  BY DEF ChangeStates, LockInv, Types
<1>4. Coming(w)
  BY <1>1 DEF SettleInv
<1>5. same => Alike(server'[w], server[w], {"maximized", "fullscreen"})
  BY <1>3 DEF Alike
<1> HIDE DEF e, same
<1>6. /\ SameTopic({"map"}, w) /\ SameTopic({"configure"}, w)
      /\ SameTopic(FocusEvents, w)
      /\ IF same THEN SameTopic({"property"}, w) ELSE LastIs({"property"}, w, e)
  <2>1. CASE same
    BY <1>1, <2>1, NothingQueued, Zenon
  <2>2. CASE ~same
    BY <1>1, <1>2, <2>2, OwnQueued, TopicOf, Zenon
  <2> QED
    BY <2>1, <2>2
<1>7. SizeComes(w)' /\ FocusComes(w)' /\ ReadyComes(w)'
  BY <1>1, <1>3, <1>4, <1>6, SameSize, SameFocus, SameReady, Zenon DEF Coming
<1>8. StatesCome(w)'
  <2>1. CASE same
    BY <1>1, <1>4, <1>5, <1>6, <2>1, SameStates, Zenon DEF Coming
  <2>2. CASE ~same
    BY <1>6, <2>2, Zenon DEF StatesCome, LastIs
  <2> QED
    BY <2>1, <2>2
<1>9. queue' \in {queue, Append(queue, e)}
  BY <1>1
<1> QED
  BY <1>1, <1>2, <1>3, <1>7, <1>8, <1>9, ChangeSettles, Zenon

LEMMA TypeSettles ==
  ASSUME LockInv, SettleInv, NEW w \in Window, Type(w)
  PROVE  SettleInv'
<1> DEFINE e == Event("key", w)
<1>1. /\ Live(w) /\ queue' = Append(queue, e)
      /\ UNCHANGED <<stage, win, told, agenda, focus, asked, server>>
  BY DEF Type, Change, appVars
<1>2. e \in QueuedEvent /\ e.window = w /\ e.kind = "key"
  BY EventIs, 0 \in Nat
<1> HIDE DEF e
<1>3. Coming(w)
  BY <1>1 DEF SettleInv
<1>4. /\ SameTopic({"map"}, w) /\ SameTopic({"configure"}, w)
      /\ SameTopic({"property"}, w) /\ SameTopic(FocusEvents, w)
  BY <1>1, <1>2, OwnQueued, TopicOf, Zenon
<1>5. SizeComes(w)' /\ StatesCome(w)' /\ FocusComes(w)' /\ ReadyComes(w)'
  BY <1>1, <1>3, <1>4, AlikeItself, SameSize, SameStates, SameFocus, SameReady, Zenon
  DEF Coming
<1>6. queue' \in {queue, Append(queue, e)}
  BY <1>1
<1> QED
  BY <1>1, <1>2, <1>5, <1>6, ChangeSettles, Zenon

\* Queue r is queue q with an event of the focus of window u: the other topics
\* are as they were, and so is the focus of other windows.
FocusWord(q, r, kind, u) ==
  \A v : \A K \in Topics :
    IF K = FocusEvents /\ v = u
    THEN Last(r, K, v) \subseteq {Event(kind, u)} /\ ~NoneOf(r, K, v)
    ELSE Last(r, K, v) = Last(q, K, v) /\ (NoneOf(r, K, v) <=> NoneOf(q, K, v))

LEMMA FocusAppended ==
  ASSUME NEW q \in Seq(QueuedEvent), NEW u \in Window, NEW kind \in FocusEvents
  PROVE  /\ Append(q, Event(kind, u)) \in Seq(QueuedEvent)
         /\ FocusWord(q, Append(q, Event(kind, u)), kind, u)
<1> DEFINE e == Event(kind, u)
<1>1. e \in QueuedEvent /\ e.window = u /\ e.kind = kind
  BY DEF Event, QueuedEvent, FocusEvents
<1> HIDE DEF e
<1>2. Append(q, e) \in Seq(QueuedEvent)
  BY <1>1, Appended
<1>3. ASSUME NEW v, NEW K \in Topics, K = FocusEvents, v = u
      PROVE  Last(Append(q, e), K, v) \subseteq {e} /\ ~NoneOf(Append(q, e), K, v)
  BY <1>1, <1>3, OwnAppended, Zenon
<1>4. ASSUME NEW v, NEW K \in Topics, ~(K = FocusEvents /\ v = u)
      PROVE  /\ Last(Append(q, e), K, v) = Last(q, K, v)
             /\ NoneOf(Append(q, e), K, v) <=> NoneOf(q, K, v)
  <2>1. e.kind \notin K \/ e.window # v
    <3>1. CASE K = FocusEvents
      BY <1>1, <1>4, <3>1
    <3>2. CASE K # FocusEvents
      BY <1>1, <3>2, TopicOf, Zenon DEF Topics
    <3> QED
      BY <3>1, <3>2
  <2> QED
    BY <1>1, <2>1, OtherAppended, Zenon
<1> QED
  BY <1>2, <1>3, <1>4, Zenon DEF e, FocusWord

\* MoveFocus queues one event or two.
LEMMA FocusQueues ==
  ASSUME LockInv, NEW w \in Window, MoveFocus(w)
  PROVE  /\ focus = Nobody => queue' = Append(queue, Event("focus in", w))
         /\ focus = w => queue' = Append(queue, Event("focus out", focus))
         /\ focus # Nobody /\ focus # w =>
              queue' = Append(Append(queue, Event("focus out", focus)),
                              Event("focus in", w))
<1>1. queue \in Seq(QueuedEvent) /\ w # Nobody
  BY QueueIsTyped, WindowAssumption
<1>2. \A e \in QueuedEvent :
        /\ queue \o <<>> \o <<e>> = Append(queue, e)
        /\ queue \o <<e>> \o <<>> = Append(queue, e)
        /\ \A f \in QueuedEvent :
             queue \o <<e>> \o <<f>> = Append(Append(queue, e), f)
  OBVIOUS
<1>3. /\ Event("focus in", w) \in QueuedEvent
      /\ focus \in Window => Event("focus out", focus) \in QueuedEvent
  BY EventIs, 0 \in Nat
<1>4. focus \in Window \cup {Nobody}
  BY DEF LockInv, Types
<1>5. CASE focus = Nobody
  BY <1>1, <1>2, <1>3, <1>5, Zenon DEF MoveFocus
<1>6. CASE focus = w
  BY <1>1, <1>2, <1>3, <1>6, Zenon DEF MoveFocus
<1>7. CASE focus # Nobody /\ focus # w
  BY <1>1, <1>2, <1>3, <1>4, <1>7, Zenon DEF MoveFocus
<1> QED
  BY <1>1, <1>5, <1>6, <1>7

LEMMA MoveFocusSettles ==
  ASSUME LockInv, SettleInv, NEW w \in Window, MoveFocus(w)
  PROVE  SettleInv'
<1> DEFINE in == Event("focus in", w)
           out == Event("focus out", focus)
<1>1. /\ Live(w) /\ UNCHANGED <<stage, win, told, agenda, asked, server>>
      /\ focus' = IF focus = w THEN Nobody ELSE w
      /\ focus \in Window \cup {Nobody} /\ w # Nobody
      /\ queue \in Seq(QueuedEvent)
  BY QueueIsTyped, WindowAssumption
  DEF MoveFocus, Change, appVars, LockInv, Types
<1>2. /\ in \in QueuedEvent /\ in.window = w /\ in.kind = "focus in"
      /\ focus # Nobody => /\ out \in QueuedEvent /\ out.window = focus
                           /\ out.kind = "focus out"
  BY <1>1, EventIs, 0 \in Nat
<1>3. "focus in" \in FocusEvents /\ "focus out" \in FocusEvents
  BY DEF FocusEvents
<1>4. /\ focus = Nobody => queue' = Append(queue, in)
      /\ focus = w => queue' = Append(queue, out)
      /\ focus # Nobody /\ focus # w => queue' = Append(Append(queue, out), in)
  BY FocusQueues
<1>5. ASSUME NEW v \in Window
      PROVE  /\ \A K \in Topics : K # FocusEvents => SameTopic(K, v)
             /\ v = focus => LastIs(FocusEvents, v, out)
             /\ v = w /\ focus # w => LastIs(FocusEvents, v, in)
             /\ v # w /\ v # focus => SameTopic(FocusEvents, v)
  <2> USE DEF SameTopic, LastIs
  <2>1. CASE focus = Nobody
    <3>1. queue' = Append(queue, in) /\ v # focus
      BY <1>4, <2>1, WindowAssumption
    <3>2. FocusWord(queue, queue', "focus in", w)
      BY <1>1, <1>3, <3>1, FocusAppended, Zenon
    <3> QED
      BY <3>1, <3>2, TopicsAre, Zenon DEF FocusWord
  <2>2. CASE focus = w
    <3>1. queue' = Append(queue, out)
      BY <1>1, <1>4, <2>2
    <3>2. FocusWord(queue, queue', "focus out", focus)
      BY <1>1, <1>3, <2>2, <3>1, FocusAppended, Zenon
    <3> QED
      BY <2>2, <3>2, TopicsAre, Zenon DEF FocusWord
  <2>3. CASE focus # Nobody /\ focus # w
    <3> DEFINE q == Append(queue, out)
    <3>1. queue' = Append(q, in) /\ focus \in Window
      BY <1>1, <1>4, <2>3
    <3>2. q \in Seq(QueuedEvent) /\ FocusWord(queue, q, "focus out", focus)
      BY <1>1, <1>3, <3>1, FocusAppended, Zenon
    <3> HIDE DEF q
    <3>3. FocusWord(q, queue', "focus in", w)
      BY <1>3, <3>1, <3>2, FocusAppended, Zenon
    <3> QED
      BY <2>3, <3>2, <3>3, TopicsAre, Zenon DEF FocusWord
  <2> QED
    BY <2>1, <2>2, <2>3
<1> HIDE DEF in, out
<1>6. ASSUME NEW v \in Window, Live(v)'
      PROVE  Coming(v)'
  <2>1. Coming(v)
    BY <1>1, <1>6 DEF SettleInv, Live
  <2>2. /\ SameTopic({"configure"}, v) /\ SameTopic({"property"}, v)
        /\ SameTopic({"map"}, v)
    <3>1. /\ {"configure"} # FocusEvents /\ {"property"} # FocusEvents
          /\ {"map"} # FocusEvents
      BY DEF FocusEvents
    <3> QED
      BY <1>5, <3>1, TopicsAre, Zenon
  <2>3. IsTold(v)' /\ SizeComes(v)' /\ StatesCome(v)' /\ ReadyComes(v)'
    BY <1>1, <2>1, <2>2, AlikeItself, SameSize, SameStates, SameReady, Zenon
    DEF Coming, IsTold
  <2>4. FocusComes(v)'
    <3>1. CASE v = focus
      <4>1. focus' # v
        BY <1>1, <3>1
      <4>2. v # Nobody /\ "focus in" # "focus out"
        BY WindowAssumption
      <4> QED
        BY <1>2, <1>5, <3>1, <4>1, <4>2, Zenon DEF FocusComes, LastIs
    <3>2. CASE v = w /\ focus # w
      BY <1>1, <1>2, <1>5, <3>2, Zenon DEF FocusComes, LastIs
    <3>3. CASE v # w /\ v # focus
      <4>1. (focus' = v) = (focus = v)
        BY <1>1, <3>3, WindowAssumption
      <4> QED
        BY <1>1, <1>5, <2>1, <3>3, <4>1, SameFocus, Zenon DEF Coming
    <3> QED
      BY <3>1, <3>2, <3>3
  <2> QED
    BY <2>3, <2>4, Zenon DEF Coming
<1>7. Made'
  <2>1. \A k \in DOMAIN queue' : \/ k \in DOMAIN queue /\ queue'[k] = queue[k]
                                 \/ queue'[k] = in
                                 \/ focus # Nobody /\ queue'[k] = out
    <3>1. CASE focus = Nobody
      BY <1>1, <1>2, <1>4, <3>1, AppendedOne, Zenon
    <3>2. CASE focus = w
      BY <1>1, <1>2, <1>4, <3>2, AppendedOne, Zenon
    <3>3. CASE focus # Nobody /\ focus # w
      <4> DEFINE q == Append(queue, out)
      <4>1. queue' = Append(q, in) /\ out \in QueuedEvent
        BY <1>2, <1>4, <3>3
      <4>2. q \in Seq(QueuedEvent)
        BY <1>1, <4>1, Appended
      <4>3. \A k \in DOMAIN q : q[k] = out \/ (k \in DOMAIN queue /\ q[k] = queue[k])
        BY <1>1, <4>1, AppendedOne, Zenon
      <4> HIDE DEF q
      <4>4. \A k \in DOMAIN queue' : queue'[k] = in \/ (k \in DOMAIN q /\ queue'[k] = q[k])
        BY <1>2, <4>1, <4>2, AppendedOne, Zenon
      <4> QED
        BY <3>3, <4>3, <4>4, Zenon
    <3> QED
      BY <3>1, <3>2, <3>3
  <2>2. focus # Nobody => Live(focus)
    BY DEF SettleInv, Made
  <2>3. \A k \in DOMAIN queue' :
          \/ stage[queue'[k].window] # "new" /\ queue'[k].window \in Window
          \/ k \in DOMAIN queue /\ queue'[k] = queue[k]
    BY <1>1, <1>2, <2>1, <2>2 DEF Live
  <2>4. focus' # Nobody => Live(focus)'
    BY <1>1 DEF Live
  <2>5. \A v \in Window : stage[v] # "new" => stage'[v] # "new"
    BY <1>1
  <2>6. \A k \in DOMAIN agenda' : k \in DOMAIN agenda /\ agenda'[k] = agenda[k]
    BY <1>1
  <2> QED
    BY <2>3, <2>4, <2>5, <2>6, StillMade, Zenon DEF SettleInv
<1> QED
  BY <1>1, <1>6, <1>7, Zenon DEF SettleInv

LEMMA SurroundingsSettle ==
  ASSUME LockInv, SettleInv, Surroundings
  PROVE  SettleInv'
<1> SUFFICES ASSUME NEW w \in Window,
                    \/ Map(w) \/ Unmap(w) \/ MoveFocus(w) \/ Type(w)
                    \/ \E width \in (Widths \cup {asked[w].width}) \ {0} :
                         Resize(w, width)
                    \/ \E max, full \in BOOLEAN : ChangeStates(w, max, full)
             PROVE  SettleInv'
  BY DEF Surroundings
<1>1. (Widths \cup {asked[w].width}) \ {0} \subseteq Nat
  BY WindowAssumption DEF LockInv, Types
<1> QED
  BY <1>1, MapSettles, UnmapSettles, MoveFocusSettles, TypeSettles, ResizeSettles,
     ChangeStatesSettles

-----------------------------------------------------------------------------
(* The handlers, once more.                                                 *)

Parts == [part : {"text", "fullscreen"}, window : Window]

LEMMA AgendaIsTyped ==
  ASSUME LockInv
  PROVE  agenda \in Seq(Parts)
  BY DEF LockInv, Types, Parts

\* One part more: the others move up.
LEMMA Preceded ==
  ASSUME NEW a \in Seq(Parts), NEW e \in Parts
  PROVE  /\ 1 \in DOMAIN (<<e>> \o a) /\ (<<e>> \o a)[1] = e
         /\ \A k \in DOMAIN a : /\ k + 1 \in DOMAIN (<<e>> \o a)
                                /\ (<<e>> \o a)[k + 1] = a[k]
         /\ \A k \in DOMAIN (<<e>> \o a) :
              \/ (<<e>> \o a)[k] = e
              \/ k - 1 \in DOMAIN a /\ (<<e>> \o a)[k] = a[k - 1]
  OBVIOUS

\* What waits goes on waiting while a callback is handled, and the handler that
\* calls back may be the one that waits.
LEMMA WaitsLater ==
  ASSUME LockInv, Subject \in Window, NEW part \in {"text", "fullscreen"}
  PROVE  /\ \A v : Waits(agenda, v) => Waits(Later(part), v)
         /\ part = "fullscreen" => Waits(Later(part), Subject)
         /\ \A k \in DOMAIN Later(part) :
              \/ Later(part)[k].window = Subject
              \/ \E j \in DOMAIN agenda : Later(part)[k] = agenda[j]
<1> DEFINE e == [part |-> part, window |-> Subject]
           a == <<e>> \o agenda
<1>1. e \in Parts /\ e.window = Subject /\ agenda \in Seq(Parts)
  BY AgendaIsTyped DEF Parts
<1>2. Later(part) = a
  BY DEF Later
<1> HIDE DEF e
<1>3. /\ 1 \in DOMAIN a /\ a[1] = e
      /\ \A k \in DOMAIN agenda : k + 1 \in DOMAIN a /\ a[k + 1] = agenda[k]
      /\ \A k \in DOMAIN a : \/ a[k] = e
                             \/ k - 1 \in DOMAIN agenda /\ a[k] = agenda[k - 1]
  BY <1>1, Preceded, Zenon
<1> HIDE DEF a
<1>4. \A v : Waits(agenda, v) => Waits(a, v)
  BY <1>3, Zenon DEF Waits
<1>5. part = "fullscreen" => Waits(a, Subject)
  BY <1>3, Zenon DEF Waits, e
<1>6. \A k \in DOMAIN a : \/ a[k].window = Subject
                          \/ \E j \in DOMAIN agenda : a[k] = agenda[j]
  BY <1>1, <1>3, Zenon
<1> QED
  BY <1>2, <1>4, <1>5, <1>6

\* When a part is done, what waits besides goes on waiting.
LEMMA WaitsTail ==
  ASSUME NEW a \in Seq(Parts), a # <<>>
  PROVE  /\ \A v : Waits(a, v) /\ Head(a) # [part |-> "fullscreen", window |-> v]
                     => Waits(Tail(a), v)
         /\ \A k \in DOMAIN Tail(a) : \E j \in DOMAIN a : Tail(a)[k] = a[j]
         /\ Head(a) \in Parts /\ 1 \in DOMAIN a /\ a[1] = Head(a)
<1>1. /\ \A k \in DOMAIN a : k = 1 \/ (k - 1 \in DOMAIN Tail(a)
                                        /\ Tail(a)[k - 1] = a[k])
      /\ \A k \in DOMAIN Tail(a) : k + 1 \in DOMAIN a /\ Tail(a)[k] = a[k + 1]
      /\ Head(a) \in Parts /\ 1 \in DOMAIN a /\ a[1] = Head(a)
  OBVIOUS
<1>2. ASSUME NEW v, Waits(a, v), Head(a) # [part |-> "fullscreen", window |-> v]
      PROVE  Waits(Tail(a), v)
  <2>1. PICK k \in DOMAIN a : a[k] = [part |-> "fullscreen", window |-> v]
    BY <1>2, Zenon DEF Waits
  <2>2. k # 1
    BY <1>1, <1>2, <2>1, Zenon
  <2> QED
    BY <1>1, <2>1, <2>2, Zenon DEF Waits
<1> QED
  BY <1>1, <1>2, Zenon

\* Nothing new is spoken of.
LEMMA MadeHandled ==
  ASSUME LockInv, Made, UNCHANGED <<stage, focus>>,
         \A k \in DOMAIN queue' : \E j \in DOMAIN queue : queue'[k] = queue[j],
         \A k \in DOMAIN agenda' :
           \/ stage[agenda'[k].window] # "new"
           \/ \E j \in DOMAIN agenda : agenda'[k] = agenda[j]
  PROVE  Made'
<1>1. \A k \in DOMAIN queue' : stage[queue'[k].window] # "new"
  BY Zenon DEF Made
<1>2. \A k \in DOMAIN agenda' : stage[agenda'[k].window] # "new"
  BY Zenon DEF Made
<1> QED
  BY <1>1, <1>2, Zenon DEF Made, Live

LEMMA TailFrom ==
  ASSUME NEW q \in Seq(QueuedEvent), q # <<>>
  PROVE  \A k \in DOMAIN Tail(q) : \E j \in DOMAIN q : Tail(q)[k] = q[j]
<1>1. \A k \in DOMAIN Tail(q) : k + 1 \in DOMAIN q /\ Tail(q)[k] = q[k + 1]
  BY Tailed
<1> QED
  BY <1>1

\* What is left of the words on w when the first event is read.
LEMMA WordsRead ==
  ASSUME LockInv, queue # <<>>, queue' = Tail(queue)
  PROVE  /\ \A v : v # Subject => SameWords(v)
         /\ \A K, v : Last(queue', K, v) \subseteq Last(queue, K, v)
         /\ \A K, v : Head(queue).kind \notin K =>
                        (NoneOf(queue', K, v) <=> NoneOf(queue, K, v))
         /\ \A K : Head(queue).kind \in K /\ NoneOf(queue', K, Subject)
                     => Head(queue) \in Last(queue, K, Subject)
<1>1. queue \in Seq(QueuedEvent)
  BY QueueIsTyped
<1>2. \A K, v : /\ Last(queue', K, v) \subseteq Last(queue, K, v)
                /\ NoneOf(queue', K, v) =>
                     IF Head(queue).kind \in K /\ Head(queue).window = v
                     THEN Head(queue) \in Last(queue, K, v) ELSE NoneOf(queue, K, v)
                /\ NoneOf(queue, K, v) => NoneOf(queue', K, v)
  BY <1>1, TailKeeps, Zenon
<1> QED
  BY <1>2, Zenon DEF SameWords, Subject

\* A handler of an event changes the window of the event and may call back.
LEMMA HandlerSettles ==
  ASSUME LockInv, SettleInv, NEW kind, Reads(kind), NEW w, w = Subject,
         agenda' \in {agenda, Later("text"), Later("fullscreen")},
         told' \in [Window -> Telling],
         \A v \in Window \ {w} : win'[v] = win[v] /\ told'[v] = told[v],
         Coming(w)'
  PROVE  SettleInv'
<1>1. /\ Subject \in Window /\ queue # <<>> /\ queue' = Tail(queue)
      /\ UNCHANGED <<stage, locked, server, grab, focus, asked>>
      /\ Live(Subject)
  BY ReadsKeeps DEF Reads, Subject
<1>2. \A v : Waits(agenda, v) => Waits(agenda', v)
  BY <1>1, WaitsLater, Zenon
<1>3. \A v \in Window \ {w} : SameWords(v)
  BY <1>1, WordsRead, Zenon
<1>4. \A v \in Window \ {w} : (Live(v)' => Live(v)) /\ Untouched(v)
  BY <1>1, <1>2, <1>3, Zenon DEF Untouched, Live
<1>5. Made'
  <2>1. \A k \in DOMAIN queue' : \E j \in DOMAIN queue : queue'[k] = queue[j]
    BY <1>1, QueueIsTyped, TailFrom, Zenon
  <2>2. \A k \in DOMAIN agenda' : \/ agenda'[k].window = Subject
                                  \/ \E j \in DOMAIN agenda : agenda'[k] = agenda[j]
    BY <1>1, WaitsLater, Zenon
  <2>3. stage[Subject] # "new"
    BY <1>1 DEF Live
  <2>4. \A k \in DOMAIN agenda' : \/ stage[agenda'[k].window] # "new"
                                  \/ \E j \in DOMAIN agenda : agenda'[k] = agenda[j]
    BY <2>2, <2>3, Zenon
  <2> QED
    BY <1>1, <2>1, <2>4, MadeHandled, Zenon DEF SettleInv
<1> QED
  BY <1>1, <1>4, <1>5, StepAbout

\* A topic that a handler leaves alone, and what follows from it.
Kept(K, w) == /\ Last(queue', K, w) \subseteq Last(queue, K, w)
              /\ NoneOf(queue', K, w) <=> NoneOf(queue, K, w)

LEMMA KeepsRest ==
  ASSUME NEW w, Coming(w), UNCHANGED <<server, asked, focus>>,
         \A v : Waits(agenda, v) => Waits(agenda', v)
  PROVE  /\ win'[w].size = win[w].size /\ Kept({"configure"}, w) => SizeComes(w)'
         /\ /\ win'[w].maximized = win[w].maximized
            /\ win'[w].fullscreen = win[w].fullscreen /\ Kept({"property"}, w)
            => StatesCome(w)'
         /\ win'[w].focused = win[w].focused /\ Kept(FocusEvents, w) => FocusComes(w)'
         /\ win'[w].ready = win[w].ready /\ Kept({"map"}, w) => ReadyComes(w)'
<1>1. SizeComes(w) /\ StatesCome(w) /\ FocusComes(w) /\ ReadyComes(w)
  BY DEF Coming
<1>2. ASSUME win'[w].size = win[w].size, Kept({"configure"}, w)
      PROVE  SizeComes(w)'
  BY <1>1, <1>2, Zenon DEF SizeComes, Kept
<1>3. ASSUME win'[w].maximized = win[w].maximized,
             win'[w].fullscreen = win[w].fullscreen, Kept({"property"}, w)
      PROVE  StatesCome(w)'
  BY <1>1, <1>3, Zenon DEF StatesCome, Kept
<1>4. ASSUME win'[w].focused = win[w].focused, Kept(FocusEvents, w)
      PROVE  FocusComes(w)'
  BY <1>1, <1>4, Zenon DEF FocusComes, Kept
<1>5. ASSUME win'[w].ready = win[w].ready, Kept({"map"}, w)
      PROVE  ReadyComes(w)'
  BY <1>1, <1>5, Zenon DEF ReadyComes, Kept
<1> QED
  BY <1>2, <1>3, <1>4, <1>5, Zenon

LEMMA ToldIs ==
  ASSUME LockInv, SettleInv, NEW w \in Window, Live(w)
  PROVE  /\ told[w].size = win[w].size /\ told[w].ready = win[w].ready
         /\ told[w].maximized = win[w].maximized
         /\ told[w].focused = win[w].focused
<1>1. IsTold(w)
  BY DEF SettleInv, Coming
<1> QED
  BY <1>1 DEF IsTold

\* The application is told of the field that is set.
LEMMA ToldFollows ==
  ASSUME LockInv, SettleInv, NEW w \in Window, Live(w), NEW n \in Nat,
         NEW b \in BOOLEAN,
         \/ /\ win' = [win EXCEPT ![w].size = n]
            /\ told' = [told EXCEPT ![w].size = n]
         \/ /\ win' = [win EXCEPT ![w].ready = b]
            /\ told' = [told EXCEPT ![w].ready = b]
         \/ /\ win' = [win EXCEPT ![w].maximized = b]
            /\ told' = [told EXCEPT ![w].maximized = b]
         \/ /\ win' = [win EXCEPT ![w].focused = b]
            /\ told' = [told EXCEPT ![w].focused = b]
  PROVE  /\ IsTold(w)' /\ told' \in [Window -> Telling]
         /\ \A v \in Window \ {w} : win'[v] = win[v] /\ told'[v] = told[v]
<1>1. /\ told[w] \in Telling /\ told \in [Window -> Telling]
      /\ win[w] \in Fields /\ win \in [Window -> Fields] /\ IsTold(w)
  BY DEF LockInv, Types, SettleInv, Coming
<1> DEFINE Sets(f, t) == /\ win' = [win EXCEPT ![w] = f]
                         /\ told' = [told EXCEPT ![w] = t] /\ t \in Telling
                         /\ t = [size |-> f.size, ready |-> f.ready,
                                 maximized |-> f.maximized, focused |-> f.focused]
<1>2. ASSUME NEW f, NEW t, Sets(f, t)
      PROVE  /\ IsTold(w)' /\ told' \in [Window -> Telling]
             /\ \A v \in Window \ {w} : win'[v] = win[v] /\ told'[v] = told[v]
  <2>1. win'[w] = f /\ told'[w] = t
    BY <1>1, <1>2
  <2>2. /\ told' \in [Window -> Telling]
        /\ \A v \in Window \ {w} : win'[v] = win[v] /\ told'[v] = told[v]
    BY <1>1, <1>2
  <2> QED
    BY <1>2, <2>1, <2>2, Zenon DEF IsTold
<1>3. /\ told[w].size = win[w].size /\ told[w].ready = win[w].ready
      /\ told[w].maximized = win[w].maximized /\ told[w].focused = win[w].focused
  BY ToldIs
<1>4. CASE /\ win' = [win EXCEPT ![w].size = n]
          /\ told' = [told EXCEPT ![w].size = n]
  <2> DEFINE f == [win[w] EXCEPT !.size = n]
             t == [told[w] EXCEPT !.size = n]
  <2>1. win' = [win EXCEPT ![w] = f] /\ told' = [told EXCEPT ![w] = t]
    BY <1>4
  <2>2. /\ f.size = n /\ f.ready = win[w].ready
        /\ f.maximized = win[w].maximized /\ f.focused = win[w].focused
    BY <1>1 DEF Fields
  <2>3. /\ t \in Telling
        /\ t = [size |-> n, ready |-> told[w].ready,
                maximized |-> told[w].maximized, focused |-> told[w].focused]
    BY <1>1, ToldField, Zenon
  <2> HIDE DEF f, t
  <2> QED
    BY <1>2, <1>3, <2>1, <2>2, <2>3, Zenon
<1>5. CASE /\ win' = [win EXCEPT ![w].ready = b]
          /\ told' = [told EXCEPT ![w].ready = b]
  <2> DEFINE f == [win[w] EXCEPT !.ready = b]
             t == [told[w] EXCEPT !.ready = b]
  <2>1. win' = [win EXCEPT ![w] = f] /\ told' = [told EXCEPT ![w] = t]
    BY <1>5
  <2>2. /\ f.size = win[w].size /\ f.ready = b
        /\ f.maximized = win[w].maximized /\ f.focused = win[w].focused
    BY <1>1 DEF Fields
  <2>3. /\ t \in Telling
        /\ t = [size |-> told[w].size, ready |-> b,
                maximized |-> told[w].maximized, focused |-> told[w].focused]
    BY <1>1, ToldField, Zenon
  <2> HIDE DEF f, t
  <2> QED
    BY <1>2, <1>3, <2>1, <2>2, <2>3, Zenon
<1>6. CASE /\ win' = [win EXCEPT ![w].maximized = b]
          /\ told' = [told EXCEPT ![w].maximized = b]
  <2> DEFINE f == [win[w] EXCEPT !.maximized = b]
             t == [told[w] EXCEPT !.maximized = b]
  <2>1. win' = [win EXCEPT ![w] = f] /\ told' = [told EXCEPT ![w] = t]
    BY <1>6
  <2>2. /\ f.size = win[w].size /\ f.ready = win[w].ready
        /\ f.maximized = b /\ f.focused = win[w].focused
    BY <1>1 DEF Fields
  <2>3. /\ t \in Telling
        /\ t = [size |-> told[w].size, ready |-> told[w].ready,
                maximized |-> b, focused |-> told[w].focused]
    BY <1>1, ToldField, Zenon
  <2> HIDE DEF f, t
  <2> QED
    BY <1>2, <1>3, <2>1, <2>2, <2>3, Zenon
<1>7. CASE /\ win' = [win EXCEPT ![w].focused = b]
          /\ told' = [told EXCEPT ![w].focused = b]
  <2> DEFINE f == [win[w] EXCEPT !.focused = b]
             t == [told[w] EXCEPT !.focused = b]
  <2>1. win' = [win EXCEPT ![w] = f] /\ told' = [told EXCEPT ![w] = t]
    BY <1>7
  <2>2. /\ f.size = win[w].size /\ f.ready = win[w].ready
        /\ f.maximized = win[w].maximized /\ f.focused = b
    BY <1>1 DEF Fields
  <2>3. /\ t \in Telling
        /\ t = [size |-> told[w].size, ready |-> told[w].ready,
                maximized |-> told[w].maximized, focused |-> b]
    BY <1>1, ToldField, Zenon
  <2> HIDE DEF f, t
  <2> QED
    BY <1>2, <1>3, <2>1, <2>2, <2>3, Zenon
<1> QED
  BY <1>4, <1>5, <1>6, <1>7

\* What a handler starts from.
LEMMA HandlerStarts ==
  ASSUME LockInv, SettleInv, NEW kind, Reads(kind), NEW w, w = Subject
  PROVE  /\ w \in Window /\ Live(w) /\ Coming(w)
         /\ Head(queue).kind = kind /\ Head(queue).width \in Nat
         /\ UNCHANGED <<server, asked, focus>>
         /\ win[w] \in Fields /\ win \in [Window -> Fields]
         /\ told[w] \in Telling /\ told \in [Window -> Telling] /\ IsTold(w)
         /\ \A K : kind \notin K => Kept(K, w)
         /\ \A K : kind \in K /\ NoneOf(queue', K, w)
                     => Head(queue) \in Last(queue, K, w)
         /\ \A K : Last(queue', K, w) \subseteq Last(queue, K, w)
<1>1. w \in Window /\ Head(queue).width \in Nat /\ UNCHANGED <<server, asked, focus>>
  BY ReadsKeeps
<1>2. /\ Live(w) /\ Head(queue).kind = kind /\ queue # <<>> /\ queue' = Tail(queue)
  BY DEF Reads, Subject
<1>3. Coming(w) /\ told[w] \in Telling /\ told \in [Window -> Telling]
  BY <1>1, <1>2 DEF SettleInv
<1>4. win[w] \in Fields /\ win \in [Window -> Fields] /\ IsTold(w)
  BY <1>1, <1>3 DEF LockInv, Types, Coming
<1>5. /\ \A K : kind \notin K => Kept(K, w)
      /\ \A K : kind \in K /\ NoneOf(queue', K, w)
                  => Head(queue) \in Last(queue, K, w)
      /\ \A K : Last(queue', K, w) \subseteq Last(queue, K, w)
  BY <1>2, WordsRead, Zenon DEF Kept
<1> QED
  BY <1>1, <1>2, <1>3, <1>4, <1>5

LEMMA KeyPressSettles ==
  ASSUME LockInv, SettleInv, KeyPress
  PROVE  SettleInv'
<1> PICK w : w = Subject
  OBVIOUS
<1>1. Reads("key") /\ agenda' = Later("text") /\ UNCHANGED <<win, told>> /\ w = Subject
  BY DEF KeyPress
<1>2. /\ Coming(w) /\ UNCHANGED <<server, asked, focus>>
      /\ told \in [Window -> Telling] /\ w \in Window
      /\ \A K : "key" \notin K => Kept(K, w)
  BY <1>1, HandlerStarts, Zenon
<1>3. \A v : Waits(agenda, v) => Waits(agenda', v)
  BY <1>1, <1>2, WaitsLater, Zenon
<1>4. /\ Kept({"configure"}, w) /\ Kept({"property"}, w) /\ Kept({"map"}, w)
      /\ Kept(FocusEvents, w)
  BY <1>2, TopicOf, Zenon
<1>5. SizeComes(w)' /\ StatesCome(w)' /\ FocusComes(w)' /\ ReadyComes(w)'
  BY <1>1, <1>2, <1>3, <1>4, KeepsRest, Zenon
<1>6. Coming(w)'
  BY <1>1, <1>2, <1>5, Zenon DEF Coming, IsTold
<1> QED
  BY <1>1, <1>2, <1>6, HandlerSettles

LEMMA ConfigureSettles ==
  ASSUME LockInv, SettleInv, ConfigureNotify
  PROVE  SettleInv'
<1> PICK w : w = Subject
  OBVIOUS
<1> DEFINE size == Logical(Head(queue).width)
<1>1. /\ Reads("configure") /\ UNCHANGED agenda
      /\ win' = [win EXCEPT ![w].size = size]
      /\ told' = [told EXCEPT ![w].size = IF size = win[w].size THEN @ ELSE size]
  BY DEF ConfigureNotify
<1>2. /\ Coming(w) /\ UNCHANGED <<server, asked, focus>> /\ IsTold(w)
      /\ told \in [Window -> Telling] /\ w \in Window /\ Live(w)
      /\ win \in [Window -> Fields] /\ Head(queue).width \in Nat
      /\ \A K : "configure" \notin K => Kept(K, w)
      /\ \A K : "configure" \in K /\ NoneOf(queue', K, w)
                  => Head(queue) \in Last(queue, K, w)
      /\ \A K : Last(queue', K, w) \subseteq Last(queue, K, w)
  BY <1>1, HandlerStarts, Zenon
<1>3. size \in Nat
  BY <1>2, ConversionsNat
<1> HIDE DEF size
<1>4. told' = [told EXCEPT ![w].size = size]
  <2>1. told[w].size = win[w].size
    BY <1>2, ToldIs
  <2>2. (IF size = win[w].size THEN told[w].size ELSE size) = size
    BY <2>1
  <2> QED
    BY <1>1, <2>2
<1>5. /\ IsTold(w)' /\ told' \in [Window -> Telling]
      /\ \A v \in Window \ {w} : win'[v] = win[v] /\ told'[v] = told[v]
  BY <1>1, <1>2, <1>3, <1>4, ToldFollows, TRUE \in BOOLEAN
<1>6. /\ win'[w].size = size /\ win'[w].maximized = win[w].maximized
      /\ win'[w].fullscreen = win[w].fullscreen
      /\ win'[w].focused = win[w].focused /\ win'[w].ready = win[w].ready
  BY <1>1, <1>2 DEF Fields
<1>7. Kept({"property"}, w) /\ Kept({"map"}, w) /\ Kept(FocusEvents, w)
  BY <1>2, TopicOf, Zenon
<1>8. StatesCome(w)' /\ FocusComes(w)' /\ ReadyComes(w)'
  BY <1>1, <1>2, <1>6, <1>7, KeepsRest, Zenon
<1>9. SizeComes(w)'
  <2>1. SizeComes(w) /\ server' = server
    BY <1>2 DEF Coming
  <2>2. \A e \in Last(queue', {"configure"}, w) : e.width = server'[w].width
    BY <1>2, <2>1, Zenon DEF SizeComes
  <2>3. ASSUME NoneOf(queue', {"configure"}, w)
        PROVE  win'[w].size = Logical(server'[w].width)
    <3>1. Head(queue).width = server[w].width
      BY <1>2, <2>1, <2>3, TopicOf, Zenon DEF SizeComes
    <3> QED
      BY <1>6, <2>1, <3>1 DEF size
  <2> QED
    BY <2>2, <2>3, Zenon DEF SizeComes
<1>10. Coming(w)'
  BY <1>5, <1>8, <1>9, Zenon DEF Coming
<1> QED
  BY <1>1, <1>5, <1>10, HandlerSettles

LEMMA PropertySettles ==
  ASSUME LockInv, SettleInv, PropertyNotify
  PROVE  SettleInv'
<1> PICK w : w = Subject
  OBVIOUS
<1> DEFINE max == server[w].maximized
           full == server[w].fullscreen
<1>1. /\ Reads("property")
      /\ \/ /\ win' = [win EXCEPT ![w].maximized = max]
            /\ told' = [told EXCEPT ![w].maximized = max]
            /\ agenda' = Later("fullscreen")
         \/ /\ win' = [win EXCEPT ![w].fullscreen = full]
            /\ win[w].maximized = max /\ UNCHANGED <<told, agenda>>
  BY DEF PropertyNotify
<1>2. /\ Coming(w) /\ UNCHANGED <<server, asked, focus>> /\ IsTold(w)
      /\ told \in [Window -> Telling] /\ w \in Window /\ Live(w)
      /\ win \in [Window -> Fields] /\ win[w] \in Fields
      /\ \A K : "property" \notin K => Kept(K, w)
  BY <1>1, HandlerStarts, Zenon
<1>3. max \in BOOLEAN /\ full \in BOOLEAN
  BY <1>2 DEF LockInv, Types
<1> HIDE DEF max, full
<1>4. \A v : Waits(agenda, v) => Waits(agenda', v)
  BY <1>1, <1>2, WaitsLater, Zenon
<1>5. Kept({"configure"}, w) /\ Kept({"map"}, w) /\ Kept(FocusEvents, w)
  BY <1>2, TopicOf, Zenon
<1>6. /\ IsTold(w)' /\ told' \in [Window -> Telling]
      /\ \A v \in Window \ {w} : win'[v] = win[v] /\ told'[v] = told[v]
      /\ win'[w].maximized = max /\ win'[w].size = win[w].size
      /\ win'[w].focused = win[w].focused /\ win'[w].ready = win[w].ready
      /\ win'[w].fullscreen = full \/ Waits(agenda', w)
  <2>1. CASE /\ win' = [win EXCEPT ![w].maximized = max]
             /\ told' = [told EXCEPT ![w].maximized = max]
             /\ agenda' = Later("fullscreen")
    <3>1. /\ IsTold(w)' /\ told' \in [Window -> Telling]
          /\ \A v \in Window \ {w} : win'[v] = win[v] /\ told'[v] = told[v]
      BY <1>2, <1>3, <2>1, ToldFollows, 0 \in Nat
    <3>2. /\ win'[w].maximized = max /\ win'[w].size = win[w].size
          /\ win'[w].focused = win[w].focused /\ win'[w].ready = win[w].ready
      BY <1>2, <2>1 DEF Fields
    <3>3. Waits(agenda', w)
      BY <1>2, <2>1, WaitsLater, Zenon
    <3> QED
      BY <3>1, <3>2, <3>3
  <2>2. CASE /\ win' = [win EXCEPT ![w].fullscreen = full]
             /\ win[w].maximized = max /\ UNCHANGED <<told, agenda>>
    <3>1. /\ win'[w].maximized = win[w].maximized /\ win'[w].size = win[w].size
          /\ win'[w].focused = win[w].focused /\ win'[w].ready = win[w].ready
          /\ win'[w].fullscreen = full
          /\ \A v \in Window \ {w} : win'[v] = win[v]
      BY <1>2, <2>2 DEF Fields
    <3>2. IsTold(w)'
      BY <1>2, <2>2, <3>1, Zenon DEF IsTold
    <3> QED
      BY <1>2, <2>2, <3>1, <3>2
  <2> QED
    BY <1>1, <2>1, <2>2
<1>7. SizeComes(w)' /\ FocusComes(w)' /\ ReadyComes(w)'
  BY <1>2, <1>4, <1>5, <1>6, KeepsRest, Zenon
<1>8. StatesCome(w)'
  BY <1>2, <1>6, Zenon DEF StatesCome, max, full
<1>9. Coming(w)'
  BY <1>6, <1>7, <1>8, Zenon DEF Coming
<1>10. agenda' \in {agenda, Later("text"), Later("fullscreen")}
  BY <1>1
<1> QED
  BY <1>1, <1>6, <1>9, <1>10, HandlerSettles

LEMMA MapNotifySettles ==
  ASSUME LockInv, SettleInv, MapNotify
  PROVE  SettleInv'
<1> PICK w : w = Subject
  OBVIOUS
<1>1. /\ Reads("map") /\ UNCHANGED agenda
      /\ win' = [win EXCEPT ![w].ready = TRUE]
      /\ told' = [told EXCEPT ![w].ready = TRUE]
  BY DEF MapNotify
<1>2. /\ Coming(w) /\ UNCHANGED <<server, asked, focus>>
      /\ w \in Window /\ Live(w) /\ win \in [Window -> Fields]
      /\ \A K : "map" \notin K => Kept(K, w)
  BY <1>1, HandlerStarts, Zenon
<1>3. /\ IsTold(w)' /\ told' \in [Window -> Telling]
      /\ \A v \in Window \ {w} : win'[v] = win[v] /\ told'[v] = told[v]
  BY <1>1, <1>2, ToldFollows, 0 \in Nat, TRUE \in BOOLEAN
<1>4. /\ win'[w].size = win[w].size /\ win'[w].maximized = win[w].maximized
      /\ win'[w].fullscreen = win[w].fullscreen
      /\ win'[w].focused = win[w].focused /\ win'[w].ready = TRUE
  BY <1>1, <1>2 DEF Fields
<1>5. Kept({"property"}, w) /\ Kept({"configure"}, w) /\ Kept(FocusEvents, w)
  BY <1>2, TopicOf, Zenon
<1>6. SizeComes(w)' /\ StatesCome(w)' /\ FocusComes(w)'
  BY <1>1, <1>2, <1>4, <1>5, KeepsRest, Zenon
<1>7. Coming(w)'
  BY <1>3, <1>4, <1>6, Zenon DEF Coming, ReadyComes
<1> QED
  BY <1>1, <1>3, <1>7, HandlerSettles

LEMMA FocusSettles ==
  ASSUME LockInv, SettleInv, NEW kind \in FocusEvents, NEW focused \in BOOLEAN,
         focused = (kind = "focus in"), Focus(kind, focused)
  PROVE  SettleInv'
<1> PICK w : w = Subject
  OBVIOUS
<1>1. /\ Reads(kind) /\ UNCHANGED agenda
      /\ win' = [win EXCEPT ![w].focused = focused]
      /\ told' = [told EXCEPT ![w].focused =
                    IF win[w].focused = focused THEN @ ELSE focused]
  BY DEF Focus
<1>2. /\ Coming(w) /\ UNCHANGED <<server, asked, focus>> /\ IsTold(w)
      /\ w \in Window /\ Live(w) /\ win \in [Window -> Fields]
      /\ Head(queue).kind = kind
      /\ \A K : kind \notin K => Kept(K, w)
      /\ \A K : kind \in K /\ NoneOf(queue', K, w)
                  => Head(queue) \in Last(queue, K, w)
      /\ \A K : Last(queue', K, w) \subseteq Last(queue, K, w)
  BY <1>1, HandlerStarts, Zenon
<1>3. told' = [told EXCEPT ![w].focused = focused]
  <2>1. told[w].focused = win[w].focused
    BY <1>2, ToldIs
  <2>2. (IF win[w].focused = focused THEN told[w].focused ELSE focused) = focused
    BY <2>1
  <2> QED
    BY <1>1, <2>2
<1>4. /\ IsTold(w)' /\ told' \in [Window -> Telling]
      /\ \A v \in Window \ {w} : win'[v] = win[v] /\ told'[v] = told[v]
  BY <1>1, <1>2, <1>3, ToldFollows, 0 \in Nat
<1>5. /\ win'[w].size = win[w].size /\ win'[w].maximized = win[w].maximized
      /\ win'[w].fullscreen = win[w].fullscreen
      /\ win'[w].focused = focused /\ win'[w].ready = win[w].ready
  BY <1>1, <1>2 DEF Fields
<1>6. Kept({"property"}, w) /\ Kept({"configure"}, w) /\ Kept({"map"}, w)
  BY <1>2, TopicOf, Zenon
<1>7. SizeComes(w)' /\ StatesCome(w)' /\ ReadyComes(w)'
  BY <1>1, <1>2, <1>5, <1>6, KeepsRest, Zenon
<1>8. FocusComes(w)'
  <2>1. FocusComes(w) /\ focus' = focus
    BY <1>2 DEF Coming
  <2>2. \A e \in Last(queue', FocusEvents, w) :
          e.kind = "focus in" <=> focus' = w
    BY <1>2, <2>1, Zenon DEF FocusComes
  <2>3. ASSUME NoneOf(queue', FocusEvents, w)
        PROVE  win'[w].focused = (focus' = w)
    <3>1. kind = "focus in" <=> focus = w
      BY <1>2, <2>1, <2>3, Zenon DEF FocusComes
    <3> QED
      BY <1>5, <2>1, <3>1
  <2> QED
    BY <2>2, <2>3, Zenon DEF FocusComes
<1>9. Coming(w)'
  BY <1>4, <1>7, <1>8, Zenon DEF Coming
<1> QED
  BY <1>1, <1>4, <1>9, HandlerSettles

\* An event of a window that is gone is dropped.
LEMMA DropSettles ==
  ASSUME LockInv, SettleInv, Drop
  PROVE  SettleInv'
<1>1. /\ queue # <<>> /\ queue' = Tail(queue) /\ ~Live(Subject)
      /\ UNCHANGED <<stage, win, told, agenda, server, asked, focus>>
  BY DEF Drop, appVars, serverVars
<1>2. \A v \in Window : Live(v)' => Live(v) /\ Untouched(v)
  <2>1. \A v \in Window : Live(v) => SameWords(v)
    BY <1>1, WordsRead, Zenon
  <2> QED
    BY <1>1, <2>1, Zenon DEF Untouched, Live
<1>3. \A v \in Window : Live(v)' => Coming(v)'
  BY <1>2, UntouchedStep, Zenon DEF SettleInv
<1>4. Made'
  <2>1. \A k \in DOMAIN queue' : \E j \in DOMAIN queue : queue'[k] = queue[j]
    BY <1>1, QueueIsTyped, TailFrom, Zenon
  <2> QED
    BY <1>1, <2>1, MadeHandled, Zenon DEF SettleInv
<1> QED
  BY <1>1, <1>3, <1>4, Zenon DEF SettleInv

\* A callback returns, and the handler does the rest.
LEMMA ReturnSettles ==
  ASSUME LockInv, SettleInv, ReadFullscreen \/ TextInput \/ Astray
  PROVE  SettleInv'
<1> PICK w : w = Head(agenda).window
  OBVIOUS
<1>1. /\ agenda # <<>> /\ agenda' = Tail(agenda)
      /\ UNCHANGED <<stage, told, server, asked, focus, queue>>
      /\ \/ /\ Head(agenda).part = "fullscreen"
            /\ win' = [win EXCEPT ![w].fullscreen = server[w].fullscreen]
         \/ Head(agenda).part = "text" /\ win' = win
         \/ ~Live(w) /\ win' = win
  BY DEF ReadFullscreen, TextInput, Astray, Returns, serverVars
<1>2. agenda \in Seq(Parts) /\ win \in [Window -> Fields]
  BY AgendaIsTyped DEF LockInv, Types
<1>3. /\ \A v : Waits(agenda, v) /\ Head(agenda) # [part |-> "fullscreen", window |-> v]
                  => Waits(agenda', v)
      /\ \A k \in DOMAIN agenda' : \E j \in DOMAIN agenda : agenda'[k] = agenda[j]
      /\ Head(agenda) \in Parts
  BY <1>1, <1>2, WaitsTail, Zenon
<1>4. w \in Window
  BY <1>3 DEF Parts
<1>5. Made'
  <2>1. \A k \in DOMAIN queue' : \E j \in DOMAIN queue : queue'[k] = queue[j]
    BY <1>1
  <2> QED
    BY <1>1, <1>3, <2>1, MadeHandled, Zenon DEF SettleInv
<1>6. \A v : v # w => Head(agenda) # [part |-> "fullscreen", window |-> v]
  OBVIOUS
<1>7. \A v \in Window \ {w} : (Live(v)' => Live(v)) /\ Untouched(v)
  <2>1. \A v \in Window \ {w} : win'[v] = win[v]
    BY <1>1, <1>2
  <2> QED
    BY <1>1, <1>3, <1>6, <2>1, SameQueue, Zenon DEF Untouched, Live
<1>8. ASSUME Live(w)'
      PROVE  Coming(w)'
  <2>1. Live(w) /\ Coming(w)
    BY <1>1, <1>4, <1>8 DEF SettleInv, Live
  <2>2. CASE Head(agenda).part = "text" /\ win' = win
    <3>1. Head(agenda) # [part |-> "fullscreen", window |-> w]
      BY <2>2
    <3>2. Untouched(w)
      BY <1>1, <1>3, <2>2, <3>1, SameQueue, Zenon DEF Untouched
    <3> QED
      BY <1>4, <2>1, <3>2, UntouchedStep
  <2>3. CASE win' = [win EXCEPT ![w].fullscreen = server[w].fullscreen]
    <3>1. /\ win'[w].size = win[w].size /\ win'[w].maximized = win[w].maximized
          /\ win'[w].fullscreen = server[w].fullscreen
          /\ win'[w].focused = win[w].focused /\ win'[w].ready = win[w].ready
      BY <1>2, <1>4, <2>3 DEF Fields
    <3>2. IsTold(w)' /\ SizeComes(w)' /\ FocusComes(w)' /\ ReadyComes(w)'
      BY <1>1, <2>1, <3>1, Zenon
      DEF Coming, IsTold, SizeComes, FocusComes, ReadyComes
    <3>3. StatesCome(w)'
      BY <1>1, <2>1, <3>1, Zenon DEF Coming, StatesCome
    <3> QED
      BY <3>2, <3>3, Zenon DEF Coming
  <2> QED
    BY <1>1, <2>1, <2>2, <2>3
<1>9. told' \in [Window -> Telling]
  BY <1>1 DEF SettleInv
<1> QED
  BY <1>4, <1>5, <1>7, <1>8, <1>9, StepAbout

LEMMA HandlersSettle ==
  ASSUME LockInv, SettleInv, Handlers
  PROVE  SettleInv'
<1>1. CASE Focus("focus in", TRUE)
  BY <1>1, FocusSettles DEF FocusEvents
<1>2. CASE Focus("focus out", FALSE)
  BY <1>2, FocusSettles DEF FocusEvents
<1> QED
  BY <1>1, <1>2, DropSettles, KeyPressSettles, ConfigureSettles, PropertySettles,
     MapNotifySettles, ReturnSettles DEF Handlers

-----------------------------------------------------------------------------
(* The windows settle.                                                      *)

LEMMA SettleStart ==
  ASSUME Init
  PROVE  SettleInv
<1>1. told \in [Window -> Telling]
  BY NothingToldYet DEF Init
<1>2. Made /\ \A w \in Window : ~Live(w)
  BY DEF Init, Made, Live
<1> QED
  BY <1>1, <1>2 DEF SettleInv

LEMMA SettleStep ==
  ASSUME HasPixels, LockInv, SettleInv, [Next]_vars
  PROVE  SettleInv'
<1>1. CASE UNCHANGED vars
  <2>1. UNCHANGED <<stage, win, told, agenda, server, asked, focus, queue>>
    BY <1>1 DEF vars, appVars, serverVars
  <2> QED
    BY <2>1, Zenon DEF SettleInv, Made, Live, Coming, IsTold, SizeComes,
                       StatesCome, FocusComes, ReadyComes
<1> QED
  BY <1>1, ApplicationSettles, SurroundingsSettle, HandlersSettle DEF Next

\* With sizes that have a pixel, the windows settle: see SettleInv.
THEOREM SettleInvariant ==
  ASSUME HasPixels
  PROVE  Spec => [](LockInv /\ SettleInv)
<1>1. Init => SettleInv
  BY SettleStart
<1>2. HasPixels
  OBVIOUS
<1>3. LockInv /\ SettleInv /\ [Next]_vars => SettleInv'
  BY <1>2, SettleStep
<1> QED
  BY <1>1, <1>3, LockInvariant, PTL DEF Spec

\* However requests, answers and the user's own changes cross, in callbacks or
\* not, a window of which nothing is under way any more is what the server has
\* made of it, and the application has been told so (x11_window.c, the handlers
\* of x11_events.c).
THEOREM WindowsAlwaysSettle ==
  ASSUME HasPixels
  PROVE  Spec => []WindowsSettle
<1>1. ASSUME LockInv, SettleInv, NEW w \in Window, Settled(w)
      PROVE  /\ \/ win[w].size = Logical(server[w].width)
                \/ Pixels(win[w].size) = server[w].width
             /\ win[w].maximized = server[w].maximized
             /\ win[w].fullscreen = server[w].fullscreen
             /\ win[w].focused = (focus = w)
             /\ server[w].mapped => win[w].ready
             /\ IsTold(w)
  <2>1. Coming(w) /\ asked[w].width = 0 /\ agenda = <<>>
    BY <1>1 DEF SettleInv, Settled, NothingAsked
  <2>2. \A K : NoneOf(queue, K, w)
    BY <1>1, Zenon DEF Settled, NoneOf, Is
  <2>3. ~Waits(agenda, w)
    BY <2>1 DEF Waits
  <2> QED
    BY <2>1, <2>2, <2>3, Zenon
    DEF Coming, SizeComes, StatesCome, FocusComes, ReadyComes
<1>2. LockInv /\ SettleInv => WindowsSettle
  BY <1>1, Zenon DEF WindowsSettle, IsTold
<1> QED
  BY <1>2, SettleInvariant, PTL

-----------------------------------------------------------------------------
(* Types.  A live window keeps a width as long as what the window manager   *)
(* makes of a request, and what it chooses by itself, is a unit or more:    *)
(* the code cuts off the rest, and with a scale above one a window of one   *)
(* pixel would have the size 0.                                             *)

Shown == Widths \cup {Pixels(size) : size \in Sizes}

HasUnits == \A n \in Shown : Logical(n) > 0

\* Sizes have a unit, on their way too; the bounds of the model hold.
SizeInv ==
  /\ \A w \in Window : Live(w) => win[w].size > 0
  /\ \A w \in Window : asked[w].width \in Shown \cup {0}
  /\ \A k \in DOMAIN queue :
       queue[k].kind = "configure" => Logical(queue[k].width) > 0
  /\ Len(agenda) <= MaxDepth
  /\ calls \in 0..MaxCalls
  /\ changes \in 0..MaxChanges

\* The windows' sizes and what was asked for are as they were, but at w.
LEMMA SizesElsewhere ==
  ASSUME SizeInv, NEW w \in Window,
         \A v \in Window \ {w} : /\ stage'[v] = stage[v] /\ win'[v] = win[v]
                                 /\ asked'[v] = asked[v],
         Live(w)' => win'[w].size > 0, asked'[w].width \in Shown \cup {0}
  PROVE  /\ \A v \in Window : Live(v)' => win'[v].size > 0
         /\ \A v \in Window : asked'[v].width \in Shown \cup {0}
  BY DEF SizeInv, Live

LEMMA ApplicationSizes ==
  ASSUME LockInv, SizeInv, Application
  PROVE  SizeInv'
<1>1. PICK w \in Window :
        \/ \E c \in Creations, cursor \in Cursor : CreateWindow(w, c, cursor)
        \/ \E size \in Sizes : SetSize(w, size)
        \/ \E on \in BOOLEAN : SetMaximized(w, on) \/ SetFullscreen(w, on)
        \/ \E cursor \in Cursor : SetCursor(w, cursor)
        \/ \E mode \in CursorMode \ {"locked"} : Unlock(w, mode)
        \/ Lock(w) \/ DestroyWindow(w)
  BY DEF Application
<1>2. UNCHANGED <<queue, agenda, changes>> /\ calls' \in 0..MaxCalls
  BY <1>1, WindowAssumption
  DEF SizeInv, CreateWindow, SetSize, SetMaximized, SetFullscreen, SetCursor, Lock,
      Unlock, DestroyWindow, Updates, Call
<1>3. /\ stage \in [Window -> {"new", "live", "dead"}] /\ win \in [Window -> Fields]
      /\ asked \in [Window -> [width : Nat, maximized : Wishes, fullscreen : Wishes]]
  BY DEF LockInv, Types
<1>4. /\ \A v \in Window \ {w} : /\ stage'[v] = stage[v] /\ win'[v] = win[v]
                                 /\ asked'[v] = asked[v]
      /\ Live(w)' => win'[w].size > 0
      /\ asked'[w].width \in Shown \cup {0}
  <2>1. CASE \E c \in Creations, cursor \in Cursor : CreateWindow(w, c, cursor)
    <3>1. PICK c \in Creations, cursor \in Cursor : CreateWindow(w, c, cursor)
      BY <2>1
    <3>2. c.size \in Nat \ {0}
      BY WindowAssumption
    <3> QED
      BY <1>3, <3>1, <3>2 DEF CreateWindow, NewWindow
  <2>2. CASE \E size \in Sizes : SetSize(w, size)
    <3>1. PICK size \in Sizes : SetSize(w, size)
      BY <2>2
    <3>2. size \in Nat \ {0} /\ Pixels(size) \in Shown
      BY WindowAssumption DEF Shown
    <3> QED
      BY <1>3, <3>1, <3>2 DEF SetSize, Updates, Call, Fields
  <2>3. CASE \E on \in BOOLEAN : SetMaximized(w, on) \/ SetFullscreen(w, on)
    <3>1. /\ UNCHANGED <<stage, win>> /\ Live(w)
          /\ \E on \in BOOLEAN :
               \/ asked' = [asked EXCEPT ![w].maximized = Wish(on)]
               \/ asked' = [asked EXCEPT ![w].fullscreen = Wish(on)]
      BY <2>3 DEF SetMaximized, SetFullscreen, Updates, Call
    <3>2. /\ asked'[w].width = asked[w].width
          /\ \A v \in Window \ {w} : asked'[v] = asked[v]
      BY <1>3, <3>1
    <3> QED
      BY <3>1, <3>2 DEF SizeInv, Live
  <2>4. CASE \E cursor \in Cursor : SetCursor(w, cursor)
    <3>1. UNCHANGED <<stage, asked>> /\ Live(w)
      BY <2>4 DEF SetCursor, Updates, Call
    <3>2. /\ win'[w].size = win[w].size
          /\ \A v \in Window \ {w} : win'[v] = win[v]
      BY <1>3, <2>4 DEF SetCursor, Fields
    <3> QED
      BY <3>1, <3>2 DEF SizeInv, Live
  <2>5. CASE Lock(w) \/ \E mode \in CursorMode \ {"locked"} : Unlock(w, mode)
    <3>1. UNCHANGED <<stage, asked>> /\ Live(w)
      BY <2>5 DEF Lock, Unlock, Updates, Call
    <3>2. /\ win'[w].size = win[w].size
          /\ \A v \in Window \ {w} : win'[v] = win[v]
      BY <1>3, <2>5 DEF Lock, Unlock, Fields
    <3> QED
      BY <3>1, <3>2 DEF SizeInv, Live
  <2>6. CASE DestroyWindow(w)
    BY <1>3, <2>6 DEF DestroyWindow, Call, Gone, Live, NothingAsked
  <2> QED
    BY <1>1, <2>1, <2>2, <2>3, <2>4, <2>5, <2>6
<1>5. /\ \A v \in Window : Live(v)' => win'[v].size > 0
      /\ \A v \in Window : asked'[v].width \in Shown \cup {0}
  BY <1>4, SizesElsewhere
<1> QED
  BY <1>2, <1>5 DEF SizeInv

LEMMA SurroundingsSizes ==
  ASSUME HasUnits, LockInv, SizeInv, Surroundings
  PROVE  SizeInv'
<1>1. PICK w \in Window :
        \/ Map(w) \/ Unmap(w) \/ MoveFocus(w) \/ Type(w)
        \/ \E width \in (Widths \cup {asked[w].width}) \ {0} : Resize(w, width)
        \/ \E max, full \in BOOLEAN : ChangeStates(w, max, full)
  BY DEF Surroundings
<1>2. UNCHANGED <<appVars, calls>> /\ changes' \in 0..MaxChanges
  <2>1. /\ UNCHANGED <<appVars, calls>>
        /\ changes' = changes \/ (changes < MaxChanges /\ changes' = changes + 1)
    BY <1>1, Zenon DEF Map, Unmap, MoveFocus, Type, Resize, ChangeStates, Change
  <2> QED
    BY <2>1, WindowAssumption DEF SizeInv
<1>3. /\ queue \in Seq(QueuedEvent) /\ focus \in Window \cup {Nobody}
      /\ asked \in [Window -> [width : Nat, maximized : Wishes, fullscreen : Wishes]]
  BY QueueIsTyped DEF LockInv, Types
<1> DEFINE Fits(e) == e.kind = "configure" => Logical(e.width) > 0
           Fit(q) == \A k \in DOMAIN q : Fits(q[k])
<1>4. ASSUME NEW q \in Seq(QueuedEvent), NEW e \in QueuedEvent, Fit(q), Fits(e)
      PROVE  Fit(Append(q, e)) /\ Append(q, e) \in Seq(QueuedEvent)
  <2> HIDE DEF Fits
  <2> QED
    BY <1>4, AppendedOne, Appended, Zenon
<1>5. ASSUME NEW v \in Window,
             NEW kind \in {"map", "property", "focus in", "focus out", "key"}
      PROVE  Fits(Event(kind, v)) /\ Event(kind, v) \in QueuedEvent
  <2>1. Event(kind, v).kind = kind /\ Event(kind, v) \in QueuedEvent
    BY DEF Event, QueuedEvent
  <2> QED
    BY <2>1
<1>6. Fit(queue)
  BY DEF SizeInv
<1> HIDE DEF Fits, Fit
<1>7. Fit(queue') /\ \A v \in Window : asked'[v].width \in Shown \cup {0}
  <2>1. CASE Map(w)
    BY <1>3, <1>4, <1>5, <1>6, <2>1 DEF Map, SizeInv
  <2>2. CASE Unmap(w)
    BY <1>3, <1>4, <1>5, <1>6, <2>2 DEF Unmap, SizeInv
  <2>3. CASE MoveFocus(w)
    <3>1. /\ focus = Nobody => queue' = Append(queue, Event("focus in", w))
          /\ focus = w => queue' = Append(queue, Event("focus out", focus))
          /\ focus # Nobody /\ focus # w =>
               queue' = Append(Append(queue, Event("focus out", focus)),
                               Event("focus in", w))
      BY <2>3, FocusQueues
    <3>2. focus # Nobody => Fits(Event("focus out", focus))
                              /\ Event("focus out", focus) \in QueuedEvent
      BY <1>3, <1>5
    <3>3. Fits(Event("focus in", w)) /\ Event("focus in", w) \in QueuedEvent
      BY <1>5
    <3>4. Fit(queue')
      <4>1. CASE focus = Nobody
        BY <1>3, <1>4, <1>6, <3>1, <3>3, <4>1, Zenon
      <4>2. CASE focus = w
        BY <1>3, <1>4, <1>6, <3>1, <3>2, <4>2, WindowAssumption
      <4>3. CASE focus # Nobody /\ focus # w
        <5> DEFINE q == Append(queue, Event("focus out", focus))
        <5>1. Fit(q) /\ q \in Seq(QueuedEvent)
          BY <1>3, <1>4, <1>6, <3>2, <4>3, Zenon
        <5>2. queue' = Append(q, Event("focus in", w))
          BY <3>1, <4>3
        <5> HIDE DEF q
        <5> QED
          BY <1>4, <3>3, <5>1, <5>2, Zenon
      <4> QED
        BY <4>1, <4>2, <4>3
    <3> QED
      BY <2>3, <3>4 DEF MoveFocus, SizeInv
  <2>4. CASE Type(w)
    BY <1>3, <1>4, <1>5, <1>6, <2>4 DEF Type, SizeInv
  <2>5. CASE \E width \in (Widths \cup {asked[w].width}) \ {0} : Resize(w, width)
    <3>1. PICK width \in (Widths \cup {asked[w].width}) \ {0} : Resize(w, width)
      BY <2>5
    <3>2. width \in Shown /\ width \in Nat
      BY <1>3, WindowAssumption DEF SizeInv, Shown
    <3>3. Configure(w, width) \in QueuedEvent /\ Fits(Configure(w, width))
      BY <3>2 DEF Configure, QueuedEvent, Fits, HasUnits
    <3>4. /\ queue' = Append(queue, Configure(w, width)) \/ queue' = queue
          /\ asked' = [asked EXCEPT ![w].width = 0]
      BY <3>1 DEF Resize
    <3>5. \A v \in Window : asked'[v].width \in Shown \cup {0}
      BY <1>3, <3>4 DEF SizeInv
    <3> QED
      BY <1>3, <1>4, <1>6, <3>3, <3>4, <3>5
  <2>6. CASE \E max, full \in BOOLEAN : ChangeStates(w, max, full)
    <3>1. /\ queue' = Append(queue, Event("property", w)) \/ queue' = queue
          /\ asked' = [asked EXCEPT ![w].maximized = "no", ![w].fullscreen = "no"]
      BY <2>6 DEF ChangeStates
    <3>2. \A v \in Window : asked'[v].width \in Shown \cup {0}
      BY <1>3, <3>1 DEF SizeInv
    <3>3. Fits(Event("property", w)) /\ Event("property", w) \in QueuedEvent
      BY <1>5
    <3>4. Fit(queue')
      BY <1>3, <1>4, <1>6, <3>1, <3>3, Zenon
    <3> QED
      BY <3>2, <3>4
  <2> QED
    BY <1>1, <2>1, <2>2, <2>3, <2>4, <2>5, <2>6
<1> QED
  BY <1>2, <1>7 DEF SizeInv, appVars, Live, Fit, Fits

\* What a handler does to the width, to the queue and to what is left to do.
LEMMA HandlersSizes ==
  ASSUME LockInv, SizeInv, Handlers
  PROVE  SizeInv'
<1>1. UNCHANGED <<stage, asked, calls, changes>>
  BY DEF Handlers, Drop, KeyPress, ConfigureNotify, PropertyNotify, MapNotify, Focus,
         ReadFullscreen, TextInput, Astray, Reads, Returns, serverVars, appVars
<1>2. queue \in Seq(QueuedEvent) /\ win \in [Window -> Fields] /\ agenda \in Seq(Parts)
  BY QueueIsTyped, AgendaIsTyped DEF LockInv, Types
<1>3. \A k \in DOMAIN queue' :
        queue'[k].kind = "configure" => Logical(queue'[k].width) > 0
  <2>1. queue' = queue \/ (queue # <<>> /\ queue' = Tail(queue))
    BY DEF Handlers, Drop, KeyPress, ConfigureNotify, PropertyNotify, MapNotify,
           Focus, ReadFullscreen, TextInput, Astray, Reads, Returns
  <2>2. \A k \in DOMAIN queue' : \E j \in DOMAIN queue : queue'[k] = queue[j]
    BY <1>2, <2>1, TailFrom
  <2> QED
    BY <2>2, Zenon DEF SizeInv
<1>4. Len(agenda') <= MaxDepth
  <2>1. \/ agenda' = agenda
        \/ agenda # <<>> /\ agenda' = Tail(agenda)
        \/ /\ Len(agenda) < MaxDepth
           /\ \E part \in {"text", "fullscreen"} : agenda' = Later(part)
    BY DEF Handlers, Drop, KeyPress, ConfigureNotify, PropertyNotify, MapNotify,
           Focus, ReadFullscreen, TextInput, Astray, Reads, Returns, appVars
  <2>2. Len(agenda) \in Nat /\ Len(agenda) <= MaxDepth /\ MaxDepth \in Nat
    BY <1>2, WindowAssumption DEF SizeInv
  <2>3. CASE agenda # <<>> /\ agenda' = Tail(agenda)
    <3>1. Len(Tail(agenda)) = Len(agenda) - 1
      BY <1>2, <2>3
    <3> QED
      BY <2>2, <2>3, <3>1
  <2>4. CASE /\ Len(agenda) < MaxDepth
             /\ \E part \in {"text", "fullscreen"} : agenda' = Later(part)
    <3>1. PICK part \in {"text", "fullscreen"} : agenda' = Later(part)
      BY <2>4
    <3>2. \A e : Len(<<e>> \o agenda) = Len(agenda) + 1
      BY <1>2
    <3>3. Len(agenda') = Len(agenda) + 1
      BY <3>1, <3>2 DEF Later
    <3> QED
      BY <2>2, <2>4, <3>3
  <2> QED
    BY <2>1, <2>2, <2>3, <2>4
<1>5. ASSUME NEW v \in Window, Live(v)
      PROVE  win'[v].size > 0
  <2>1. CASE ConfigureNotify
    <3>1. Logical(Head(queue).width) > 0
      <4>1. 1 \in DOMAIN queue /\ queue[1] = Head(queue)
        BY <1>2, <2>1, Tailed DEF ConfigureNotify, Reads
      <4> QED
        BY <2>1, <4>1 DEF ConfigureNotify, Reads, SizeInv
    <3>2. win' = [win EXCEPT ![Subject].size = Logical(Head(queue).width)]
      BY <2>1 DEF ConfigureNotify
    <3>3. win'[v].size \in {win[v].size, Logical(Head(queue).width)}
      BY <1>2, <3>2 DEF Fields
    <3> QED
      BY <1>5, <3>1, <3>3 DEF SizeInv
  <2>2. CASE ~ConfigureNotify
    <3>1. \/ win' = win
          \/ \E w : \/ \E b : win' = [win EXCEPT ![w].maximized = b]
                    \/ \E b : win' = [win EXCEPT ![w].fullscreen = b]
                    \/ \E b : win' = [win EXCEPT ![w].focused = b]
                    \/ \E b : win' = [win EXCEPT ![w].ready = b]
      BY <2>2 DEF Handlers, Drop, KeyPress, PropertyNotify, MapNotify, Focus,
                  ReadFullscreen, TextInput, Astray, appVars
    <3>2. win'[v].size = win[v].size
      BY <1>2, <3>1 DEF Fields
    <3> QED
      BY <1>5, <3>2 DEF SizeInv
  <2> QED
    BY <2>1, <2>2
<1> QED
  BY <1>1, <1>3, <1>4, <1>5 DEF SizeInv, Live

\* Types, and a live window keeps a width, whatever it is asked for and given.
THEOREM WindowsAreTyped ==
  ASSUME HasPixels, HasUnits
  PROVE  Spec => []TypeOK
<1>1. Init => SizeInv
  BY WindowAssumption DEF Init, SizeInv, Live, NothingAsked
<1>2. HasUnits
  OBVIOUS
<1>3. LockInv /\ SizeInv /\ [Next]_vars => SizeInv'
  <2> SUFFICES ASSUME LockInv, SizeInv, [Next]_vars
               PROVE  SizeInv'
    OBVIOUS
  <2>1. CASE UNCHANGED vars
    BY <2>1 DEF vars, appVars, serverVars, SizeInv, Live
  <2> QED
    BY <1>2, <2>1, ApplicationSizes, SurroundingsSizes, HandlersSizes DEF Next
<1>4. LockInv /\ SettleInv /\ SizeInv => TypeOK
  BY DEF LockInv, Types, SettleInv, SizeInv, TypeOK, QueuedEvent, Telling
<1> QED
  BY <1>1, <1>3, <1>4, SettleInvariant, PTL DEF Spec

=============================================================================
