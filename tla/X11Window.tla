----------------------------- MODULE X11Window -----------------------------
(***************************************************************************)
(* The windows of the X11 backend: x11_window.c, and their events in       *)
(* x11_events.c.  The application changes a window by requests; the server *)
(* and the window manager grant them or not, change the window by          *)
(* themselves, and say so in events that cross the requests.  A lock of    *)
(* the cursor is one grab of the pointer that all windows share.           *)
(*                                                                         *)
(* An event is read from the queue and handled at once.  Its callback may  *)
(* update or destroy any window and may pump, so that other events are     *)
(* handled inside: between any two steps of the model the application may  *)
(* be in a callback.  agenda holds what the handlers that have called back *)
(* still have to do, the innermost first.                                  *)
(*                                                                         *)
(* A size is its width.  Left out: attributes the library only hands on    *)
(* (title, hints), motion, buttons and scrolling, which pass through, the  *)
(* request of the focus, which is a hint to the window manager, the loss   *)
(* of the connection and a creation that fails.                            *)
(***************************************************************************)
EXTENDS Naturals, Sequences

CONSTANTS
  Window,       \* the windows the application makes
  Nobody,       \* no window
  Num, Den,     \* ctx->scale, a ratio
  Creations,    \* how the application creates a window: size, mode, wishes
  Sizes,        \* logical widths the application asks for
  Widths,       \* widths in pixels the window manager chooses
  Cursor,       \* the application's cursors
  OthersGrab,   \* whether other clients may hold the pointer
  MaxCalls,     \* bound: calls of the application after the creations
  MaxChanges,   \* bound: changes by the server and the window manager
  MaxDepth      \* bound: handlers that wait for their callbacks

CursorMode == {"normal", "hidden", "locked"}

ASSUME WindowAssumption ==
  /\ Nobody \notin Window
  /\ Num \in Nat \ {0} /\ Den \in Nat \ {0}
  /\ Creations \subseteq [size : Nat \ {0}, mode : CursorMode,
                            fullscreen : BOOLEAN, maximized : BOOLEAN]
  /\ Sizes \subseteq Nat \ {0} /\ Widths \subseteq Nat \ {0}
  /\ OthersGrab \in BOOLEAN
  /\ MaxCalls \in Nat /\ MaxChanges \in Nat /\ MaxDepth \in Nat

VARIABLES
  stage,       \* of each window: new, live, dead
  win,         \* its fields, see Fields
  locked,      \* ctx->locked_window
  server,      \* the server and the window manager: what each window is
  grab, focus, \* the window that has grabbed the pointer; that has the focus
  asked,       \* requests of each window that the window manager has to answer
  queue,       \* the events the library has not read
  agenda,      \* what the handlers have still to do
  told,        \* what the application has been told of each window
  calls, changes

appVars == <<stage, win, locked, told, agenda>>
serverVars == <<server, grab, focus, asked>>
vars == <<appVars, serverVars, queue, calls, changes>>

\* Mutant: the scale is applied twice.
LogicalTwice(width) == (((width * Den) \div Num) * Den) \div (Num * Num)

\* Both conversions cut off what is less than one.
Pixels(size) == (size * Num) \div Den
Logical(width) == (width * Den) \div Num

Live(w) == stage[w] = "live"

Fields == [size : Nat, ready : BOOLEAN, maximized : BOOLEAN, fullscreen : BOOLEAN,
           focused : BOOLEAN, cursor_mode : CursorMode, cursor : Cursor]

NewWindow(size, mode, cursor) ==
  [size |-> size, ready |-> FALSE, maximized |-> FALSE, fullscreen |-> FALSE,
   focused |-> FALSE, cursor_mode |-> mode, cursor |-> cursor]

NewServerWindow(size, cursor) ==
  [mapped |-> FALSE, width |-> Pixels(size), maximized |-> FALSE,
   fullscreen |-> FALSE, cursor |-> cursor]

NothingAsked == [width |-> 0, maximized |-> "no", fullscreen |-> "no"]
NothingTold == [size |-> 0, ready |-> FALSE, maximized |-> FALSE, focused |-> FALSE]

Wish(on) == IF on THEN "on" ELSE "off"

Event(kind, w) == [kind |-> kind, window |-> w, width |-> 0]
Configure(w, width) == [kind |-> "configure", window |-> w, width |-> width]

----------------------------------------------------------------------------
(* Calls of the application, from a callback or between two pumps.           *)

\* XGrabPointer: refused while the window is not viewable, or because another
\* client has the pointer.  The code does not look at the answer.
Grabs(w) ==
  \/ /\ server[w].mapped
     /\ grab' = w
  \/ /\ ~server[w].mapped \/ (OthersGrab /\ grab = Nobody)
     /\ UNCHANGED grab

\* lvkw_ctx_createWindow_X11: the cursor's mode is set before the window is
\* mapped, when the pointer cannot be grabbed; a hidden one releases it, which
\* any window may have grabbed.  The states are asked for after.
CreateWindow(w, c, cursor) ==
  /\ stage[w] = "new"
  /\ stage' = [stage EXCEPT ![w] = "live"]
  /\ win' = [win EXCEPT ![w] = NewWindow(c.size, c.mode, cursor)]
  /\ server' = [server EXCEPT ![w] = NewServerWindow(c.size, cursor)]
  /\ asked' = [asked EXCEPT ![w] =
                 [width |-> 0, maximized |-> IF c.maximized THEN "on" ELSE "no",
                  fullscreen |-> IF c.fullscreen THEN "on" ELSE "no"]]
  /\ told' = [told EXCEPT ![w] = [NothingTold EXCEPT !.size = c.size]]
  /\ locked' = IF c.mode = "locked" THEN w ELSE locked
  /\ grab' = IF c.mode = "hidden" THEN Nobody ELSE grab
  /\ UNCHANGED <<focus, queue, agenda, calls, changes>>

Call(w) ==
  /\ Live(w)
  /\ calls < MaxCalls
  /\ calls' = calls + 1
  /\ UNCHANGED <<queue, agenda, changes>>

Gone(w) ==
  /\ stage' = [stage EXCEPT ![w] = "dead"]
  /\ win' = [win EXCEPT ![w] = NewWindow(0, "normal", win[w].cursor)]
  /\ server' = [server EXCEPT ![w] = NewServerWindow(0, win[w].cursor)]
  /\ asked' = [asked EXCEPT ![w] = NothingAsked]
  /\ told' = [told EXCEPT ![w] = NothingTold]
  /\ focus' = IF focus = w THEN Nobody ELSE focus

\* Mutant: the lock is left to the server, which releases it with the window.
DestroyKeepsLock(w) ==
  /\ Call(w)
  /\ Gone(w)
  /\ grab' = IF grab = w THEN Nobody ELSE grab
  /\ UNCHANGED locked

\* lvkw_wnd_destroy_X11.  The server drops the focus and the grab of a window
\* that is destroyed; its events stay in the queue.
DestroyWindow(w) ==
  /\ Call(w)
  /\ Gone(w)
  /\ grab' = IF w \in {locked, grab} THEN Nobody ELSE grab
  /\ locked' = IF locked = w THEN Nobody ELSE locked

\* lvkw_wnd_update_X11, one field at a time, of a window that is ready.
Updates(w) == Call(w) /\ win[w].ready

SetSize(w, size) ==
  /\ Updates(w)
  /\ win' = [win EXCEPT ![w].size = size]
  /\ told' = [told EXCEPT ![w].size = size]
  /\ asked' = [asked EXCEPT ![w].width = Pixels(size)]
  /\ UNCHANGED <<stage, locked, server, grab, focus>>

SetMaximized(w, on) ==
  /\ Updates(w)
  /\ asked' = [asked EXCEPT ![w].maximized = Wish(on)]
  /\ UNCHANGED <<stage, win, locked, told, server, grab, focus>>

SetFullscreen(w, on) ==
  /\ Updates(w)
  /\ asked' = [asked EXCEPT ![w].fullscreen = Wish(on)]
  /\ UNCHANGED <<stage, win, locked, told, server, grab, focus>>

\* A cursor set while the window is locked is only noted.
SetCursor(w, cursor) ==
  /\ Updates(w)
  /\ win' = [win EXCEPT ![w].cursor = cursor]
  /\ server' = IF win[w].cursor_mode = "locked" THEN server
               ELSE [server EXCEPT ![w].cursor = cursor]
  /\ UNCHANGED <<stage, locked, told, asked, grab, focus>>

Lock(w) ==
  /\ Updates(w)
  /\ win[w].cursor_mode # "locked"
  /\ win' = [win EXCEPT ![w].cursor_mode = "locked"]
  /\ locked' = w
  /\ Grabs(w)
  /\ UNCHANGED <<stage, told, server, asked, focus>>

\* The cursor of a window that does not lock it is set.
CursorApplied(w) ==
  server' = IF win[w].cursor_mode = "locked" THEN server
            ELSE [server EXCEPT ![w].cursor = win[w].cursor]

\* Mutant: the lock of a window that another has overtaken is left alone.
UnlockOwn(w, mode) ==
  /\ Updates(w)
  /\ win[w].cursor_mode # mode
  /\ win' = [win EXCEPT ![w].cursor_mode = mode]
  /\ grab' = IF locked = w THEN Nobody ELSE grab
  /\ locked' = IF locked = w THEN Nobody ELSE locked
  /\ CursorApplied(w)
  /\ UNCHANGED <<stage, told, asked, focus>>

\* The cursor is normal or hidden, and was locked or the other of these.  The
\* pointer is released whichever window has grabbed it, and the cursor is set
\* while the mode is still the old one.
Unlock(w, mode) ==
  /\ Updates(w)
  /\ win[w].cursor_mode # mode
  /\ win' = [win EXCEPT ![w].cursor_mode = mode]
  /\ grab' = Nobody
  /\ locked' = IF locked = w THEN Nobody ELSE locked
  /\ CursorApplied(w)
  /\ UNCHANGED <<stage, told, asked, focus>>

Application ==
  \E w \in Window :
    \/ \E c \in Creations, cursor \in Cursor : CreateWindow(w, c, cursor)
    \/ \E size \in Sizes : SetSize(w, size)
    \/ \E on \in BOOLEAN : SetMaximized(w, on) \/ SetFullscreen(w, on)
    \/ \E cursor \in Cursor : SetCursor(w, cursor)
    \/ \E mode \in CursorMode \ {"locked"} : Unlock(w, mode)
    \/ Lock(w) \/ DestroyWindow(w)

----------------------------------------------------------------------------
(* The server, the window manager and the user.                              *)

Change(w) ==
  /\ Live(w)
  /\ changes < MaxChanges
  /\ changes' = changes + 1
  /\ UNCHANGED <<appVars, calls>>

\* The window is shown, at first (XMapWindow) or again.
Map(w) ==
  /\ Live(w)
  /\ UNCHANGED <<appVars, calls, changes>>
  /\ ~server[w].mapped
  /\ server' = [server EXCEPT ![w].mapped = TRUE]
  /\ queue' = Append(queue, Event("map", w))
  /\ UNCHANGED <<grab, focus, asked>>

\* The user iconifies the window: it loses the grab and the focus.
Unmap(w) ==
  /\ Change(w)
  /\ server[w].mapped
  /\ server' = [server EXCEPT ![w].mapped = FALSE]
  /\ grab' = IF grab = w THEN Nobody ELSE grab
  /\ focus' = IF focus = w THEN Nobody ELSE focus
  /\ queue' = IF focus = w THEN Append(queue, Event("focus out", w)) ELSE queue
  /\ UNCHANGED asked

\* The answer to a request of a size, granted or not, or a size of the window
\* manager's own.  A request that is refused is answered by an event (ICCCM
\* 4.1.5), one that asks for the size the window has need not be.
Resize(w, width) ==
  LET same == width = server[w].width
      wanted == asked[w].width
  IN /\ Change(w)
     /\ same => wanted # 0
     /\ server' = [server EXCEPT ![w].width = width]
     /\ asked' = [asked EXCEPT ![w].width = 0]
     /\ \/ queue' = Append(queue, Configure(w, width))
        \/ same /\ wanted = width /\ UNCHANGED queue
     /\ UNCHANGED <<grab, focus>>

Grants(wish, old, new) == wish # "no" => Wish(new) \in {wish, Wish(old)}

\* _NET_WM_STATE changes: an answer, or the window manager's own decision.
ChangeStates(w, max, full) ==
  LET s == server[w]
  IN /\ Change(w)
     /\ Grants(asked[w].maximized, s.maximized, max)
     /\ Grants(asked[w].fullscreen, s.fullscreen, full)
     /\ server' = [server EXCEPT ![w].maximized = max, ![w].fullscreen = full]
     /\ asked' = [asked EXCEPT ![w].maximized = "no", ![w].fullscreen = "no"]
     /\ queue' = IF s.maximized = max /\ s.fullscreen = full THEN queue
                 ELSE Append(queue, Event("property", w))
     /\ UNCHANGED <<grab, focus>>

\* The focus comes from another window or from elsewhere, or goes elsewhere.
MoveFocus(w) ==
  LET out == IF focus = Nobody THEN <<>> ELSE <<Event("focus out", focus)>>
      in == IF focus = w THEN <<>> ELSE <<Event("focus in", w)>>
  IN /\ Change(w)
     /\ server[w].mapped
     /\ focus' = IF focus = w THEN Nobody ELSE w
     /\ queue' = queue \o out \o in
     /\ UNCHANGED <<server, grab, asked>>

Type(w) ==
  /\ Change(w)
  /\ focus = w
  /\ queue' = Append(queue, Event("key", w))
  /\ UNCHANGED <<server, grab, focus, asked>>

Surroundings ==
  \E w \in Window :
    \/ Map(w) \/ Unmap(w) \/ MoveFocus(w) \/ Type(w)
    \/ \E width \in (Widths \cup {asked[w].width}) \ {0} : Resize(w, width)
    \/ \E max, full \in BOOLEAN : ChangeStates(w, max, full)

----------------------------------------------------------------------------
(* _lvkw_x11_process_event.                                                  *)

Reads(kind) ==
  /\ queue # <<>>
  /\ Head(queue).kind = kind
  /\ Live(Head(queue).window)
  /\ Len(agenda) < MaxDepth
  /\ queue' = Tail(queue)
  /\ UNCHANGED <<stage, locked, serverVars, calls, changes>>

Subject == Head(queue).window

Later(part) == <<[part |-> part, window |-> Subject]>> \o agenda

\* An event of a window that is not in window_context any more.
Drop ==
  /\ queue # <<>>
  /\ ~Live(Subject)
  /\ queue' = Tail(queue)
  /\ UNCHANGED <<appVars, serverVars, calls, changes>>

KeyPress ==
  /\ Reads("key")
  /\ agenda' = Later("text")
  /\ UNCHANGED <<win, told>>

ConfigureNotify ==
  LET size == Logical(Head(queue).width)
  IN /\ Reads("configure")
     /\ win' = [win EXCEPT ![Subject].size = size]
     /\ told' = [told EXCEPT ![Subject].size =
                   IF size = win[Subject].size THEN @ ELSE size]
     /\ UNCHANGED agenda

\* Mutant: fullscreen is looked at only if the window was not (un)maximized.
PropertyNotifyOnce ==
  LET max == server[Subject].maximized
  IN /\ Reads("property")
     /\ IF win[Subject].maximized # max
          THEN /\ win' = [win EXCEPT ![Subject].maximized = max]
               /\ told' = [told EXCEPT ![Subject].maximized = max]
          ELSE /\ win' = [win EXCEPT ![Subject].fullscreen = server[Subject].fullscreen]
               /\ UNCHANGED told
     /\ UNCHANGED agenda

\* The states are read from the server when the event is handled, not taken
\* from it: first the maximized ones, after their event the fullscreen one.
PropertyNotify ==
  LET max == server[Subject].maximized
  IN /\ Reads("property")
     /\ IF win[Subject].maximized # max
          THEN /\ win' = [win EXCEPT ![Subject].maximized = max]
               /\ told' = [told EXCEPT ![Subject].maximized = max]
               /\ agenda' = Later("fullscreen")
          ELSE /\ win' = [win EXCEPT ![Subject].fullscreen = server[Subject].fullscreen]
               /\ UNCHANGED <<told, agenda>>

MapNotify ==
  /\ Reads("map")
  /\ win' = [win EXCEPT ![Subject].ready = TRUE]
  /\ told' = [told EXCEPT ![Subject].ready = TRUE]
  /\ UNCHANGED agenda

Focus(kind, focused) ==
  /\ Reads(kind)
  /\ win' = [win EXCEPT ![Subject].focused = focused]
  /\ told' = [told EXCEPT ![Subject].focused =
                IF win[Subject].focused = focused THEN @ ELSE focused]
  /\ UNCHANGED agenda

Returns ==
  /\ agenda # <<>>
  /\ agenda' = Tail(agenda)
  /\ UNCHANGED <<stage, locked, told, serverVars, queue, calls, changes>>

\* The rest of PropertyNotify.
ReadFullscreen ==
  LET w == Head(agenda).window
  IN /\ Returns
     /\ Head(agenda).part = "fullscreen"
     /\ Live(w)
     /\ win' = [win EXCEPT ![w].fullscreen = server[w].fullscreen]

\* The rest of KeyPress: TEXT_INPUT.
TextInput ==
  /\ Returns
  /\ Head(agenda).part = "text"
  /\ Live(Head(agenda).window)
  /\ UNCHANGED win

\* The window was destroyed in the callback: the handler goes on with freed
\* memory, and what happens then is not modelled.
Astray ==
  /\ Returns
  /\ ~Live(Head(agenda).window)
  /\ UNCHANGED win

Handlers ==
  \/ Drop \/ KeyPress \/ ConfigureNotify \/ PropertyNotify \/ MapNotify
  \/ Focus("focus in", TRUE) \/ Focus("focus out", FALSE)
  \/ ReadFullscreen \/ TextInput \/ Astray

----------------------------------------------------------------------------
Init ==
  /\ stage = [w \in Window |-> "new"]
  /\ \E c \in Cursor :
       /\ win = [w \in Window |-> NewWindow(0, "normal", c)]
       /\ server = [w \in Window |-> NewServerWindow(0, c)]
  /\ locked = Nobody
  /\ grab = Nobody
  /\ focus = Nobody
  /\ asked = [w \in Window |-> NothingAsked]
  /\ queue = <<>>
  /\ agenda = <<>>
  /\ told = [w \in Window |-> NothingTold]
  /\ calls = 0
  /\ changes = 0

Next == Application \/ Surroundings \/ Handlers

Spec == Init /\ [][Next]_vars

----------------------------------------------------------------------------
(* Properties.                                                               *)

Wishes == {"no", "on", "off"}

\* Types; a live window keeps a width.
TypeOK ==
  /\ stage \in [Window -> {"new", "live", "dead"}]
  /\ win \in [Window -> Fields]
  /\ \A w \in Window : Live(w) => win[w].size > 0
  /\ locked \in Window \cup {Nobody}
  /\ server \in [Window -> [mapped : BOOLEAN, width : Nat, maximized : BOOLEAN,
                            fullscreen : BOOLEAN, cursor : Cursor]]
  /\ grab \in Window \cup {Nobody}
  /\ focus \in Window \cup {Nobody}
  /\ asked \in [Window -> [width : Nat, maximized : Wishes, fullscreen : Wishes]]
  /\ queue \in Seq([kind : {"map", "configure", "property", "focus in",
                            "focus out", "key"},
                    window : Window, width : Nat])
  /\ agenda \in Seq([part : {"text", "fullscreen"}, window : Window])
  /\ Len(agenda) <= MaxDepth
  /\ told \in [Window -> [size : Nat, ready : BOOLEAN, maximized : BOOLEAN,
                          focused : BOOLEAN]]
  /\ calls \in 0..MaxCalls
  /\ changes \in 0..MaxChanges

\* Nothing between the window and the window manager is under way.
Settled(w) ==
  /\ Live(w)
  /\ agenda = <<>>
  /\ asked[w] = NothingAsked
  /\ \A k \in DOMAIN queue : queue[k].window # w

\* However requests, answers and the user's own changes cross, once the events
\* are handled the window is what the server has made of it and the application
\* has been told so.  The size may be the application's own, which the server
\* holds to the pixel, instead of the one that a scale makes of the pixels.
WindowsSettle ==
  \A w \in Window : Settled(w) =>
    /\ \/ win[w].size = Logical(server[w].width)
       \/ Pixels(win[w].size) = server[w].width
    /\ win[w].maximized = server[w].maximized
    /\ win[w].fullscreen = server[w].fullscreen
    /\ win[w].focused = (focus = w)
    /\ server[w].mapped => win[w].ready
    /\ told[w] = [size |-> win[w].size, ready |-> win[w].ready,
                  maximized |-> win[w].maximized, focused |-> win[w].focused]

\* The pointer is never held captive: the window that has grabbed it is there
\* and wants it locked, locked_window names such a window as long as there is
\* one that has, and never one that was destroyed or unlocked; whichever windows
\* lock, unlock, hide their cursor and go, and whatever grabs were refused.
GrabIsOwned ==
  /\ grab # Nobody => /\ Live(grab)
                      /\ win[grab].cursor_mode = "locked"
                      /\ locked # Nobody
  /\ locked # Nobody => Live(locked) /\ win[locked].cursor_mode = "locked"

\* LVKW_CURSOR_LOCKED: "Invisible and confined to the window center"
\* (docs/user_guide/cursors.md), as long as one window only wants it.
LockHolds ==
  \A w \in Window :
    /\ Settled(w) /\ server[w].mapped /\ win[w].cursor_mode = "locked"
    /\ \A v \in Window \ {w} : win[v].cursor_mode # "locked"
    => grab = w

\* A lock that holds is not taken away by what another window does to its own
\* cursor, short of a lock.
LockIsKept ==
  [][\A w \in Window : grab = w /\ grab' = Nobody =>
       \/ ~Live(w)'
       \/ ~server'[w].mapped
       \/ win'[w].cursor_mode # "locked"]_vars

\* A window that does not lock the cursor shows the one that was set.
CursorIsShown ==
  \A w \in Window : Live(w) /\ win[w].cursor_mode # "locked"
                      => server[w].cursor = win[w].cursor

\* A handler does not go on with a window that its callback has destroyed.
NothingFreedIsReached == \A k \in DOMAIN agenda : Live(agenda[k].window)
=============================================================================
