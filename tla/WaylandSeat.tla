----------------------------- MODULE WaylandSeat -----------------------------
(***************************************************************************)
(* The seat of a Wayland context: keyboard focus, text input and the lock  *)
(* of the pointer (linux/wayland/wayland_input.c), with what creating,     *)
(* updating and destroying a window does to them (wayland_window.c).       *)
(*                                                                         *)
(* Three parties act on one focus: the keyboard and the text input, which  *)
(* name it in messages of their own, and the application, which destroys   *)
(* and changes windows between messages and in callbacks.  A handler that  *)
(* runs callbacks keeps the rest of its work in agenda.                    *)
(*                                                                         *)
(* The compositor sees a request at once.  It sends what belongs to one    *)
(* done of the input method together, so that only the application comes   *)
(* in between.  The text input manager, the relative pointer and the       *)
(* pointer constraints are taken to be there, and the creation of a lock   *)
(* to succeed.  Pointer events are left to the frame they wait in.         *)
(***************************************************************************)
EXTENDS Naturals, Sequences

CONSTANTS
  Windows,
  None,
  Reactions,    \* what the application does to a window: see React
  MaxPointers,  \* bound: how often a pointer appears
  MaxCommits    \* bound: texts committed while the text focus stays

ASSUME SeatAssumption ==
  /\ None \notin Windows
  /\ Reactions \subseteq {"keep", "destroy", "text", "notext", "lock", "unlock"}
  /\ MaxPointers \in Nat
  /\ MaxCommits \in Nat

VARIABLES
  window,          \* each window: stage, text (its text_input_type is not
                   \* NONE), mode, locked (the pointer it is locked to, 0 none)
  keyboard,        \* ctx->input.keyboard is there, and with it text_input
  pointer,         \* ctx->input.pointer: the number of the pointer, 0 none
  pointers,        \* pointers so far
  keyboard_focus,
  pointer_focus,
  pending,         \* text_input_pending: preedit, commit, delete
  agenda,          \* what the running handler has still to do
  comp,            \* the compositor: three focuses, text input enabled
  session          \* history: what the input method shows and has committed
                   \* since the text focus came, what windows were told

focusVars == <<keyboard_focus, pointer_focus>>
deviceVars == <<keyboard, pointer, pointers>>
vars == <<window, deviceVars, focusVars, pending, agenda, comp, session>>

Clean == [preedit |-> "clean", commit |-> "clean", delete |-> FALSE]

Live(w) == w # None /\ window[w].stage = "live"
Dead(w) == w # None /\ window[w].stage = "dead"
Known(w) == Live(w) \/ Dead(w)

\* Messages are handled one after the other.
Quiet == agenda = <<>>

\* No message falls into those of one done.
Between == Quiet /\ pending = Clean

----------------------------------------------------------------------------
(* Helpers of the handlers.                                                *)

\* _surface_to_live_window
LiveWindow(w) == IF Live(w) THEN w ELSE None

\* _is_text_input_v3_active
Active(w) == keyboard /\ w # None /\ window[w].text

\* Enabling and disabling end what the input method composes.
Stopped(s) == [s EXCEPT !.preedit = FALSE, !.sent = FALSE]

\* _lvkw_wayland_sync_text_input_state, with the compositor c and the session s
\* of the moment.  Without text focus the compositor ignores the request.
Sync(c, s, w, text) ==
  LET heard == keyboard /\ c.text # None
  IN /\ comp' = IF heard THEN [c EXCEPT !.on = (w # None /\ text)] ELSE c
     /\ session' = IF heard THEN Stopped(s) ELSE s

\* The same from a handler that has looked the window up.
SyncWindow(c, s, w) == Sync(c, s, w, w # None /\ window[w].text)

----------------------------------------------------------------------------
(* The application: windows.                                               *)

\* The lock of a window that is given a mode.
LockFor(mode) == IF mode = "locked" THEN pointer ELSE 0

\* lvkw_ctx_createWindow_WL
Create(w, mode, text) ==
  /\ Quiet
  /\ window[w].stage = "new"
  /\ window' = [window EXCEPT ![w] = [stage |-> "live", text |-> text,
                                      mode |-> mode, locked |-> LockFor(mode)]]
  /\ UNCHANGED <<deviceVars, focusVars, pending, agenda, comp, session>>

\* Mutant: the focus of the pointer stays.
DestroyKeepsPointerFocus(w, s) ==
  /\ window' = [window EXCEPT ![w].stage = "dead", ![w].locked = 0]
  /\ IF keyboard_focus = w
       THEN Sync(comp, s, None, FALSE) /\ keyboard_focus' = None
       ELSE comp' = comp /\ session' = s /\ UNCHANGED keyboard_focus
  /\ UNCHANGED pointer_focus

\* lvkw_wnd_destroy_WL
DestroyWindow(w, s) ==
  /\ window' = [window EXCEPT ![w].stage = "dead", ![w].locked = 0]
  /\ IF keyboard_focus = w
       THEN Sync(comp, s, None, FALSE) /\ keyboard_focus' = None
       ELSE comp' = comp /\ session' = s /\ UNCHANGED keyboard_focus
  /\ pointer_focus' = IF pointer_focus = w THEN None ELSE pointer_focus

\* Mutant: the type is kept for the next focus only.
SetTextLater(w, text, s) ==
  /\ window' = [window EXCEPT ![w].text = text]
  /\ comp' = comp
  /\ session' = s
  /\ UNCHANGED focusVars

\* LVKW_WINDOW_ATTR_TEXT_INPUT_TYPE
SetText(w, text, s) ==
  /\ window' = [window EXCEPT ![w].text = text]
  /\ IF keyboard_focus = w
       THEN Sync(comp, s, w, text)
       ELSE comp' = comp /\ session' = s
  /\ UNCHANGED focusVars

\* _lvkw_wnd_setCursorMode_WL: nothing happens if the mode is the same.
SetMode(w, mode, s) ==
  /\ window' = IF window[w].mode = mode
                 THEN window
                 ELSE [window EXCEPT ![w].mode = mode,
                                     ![w].locked = LockFor(mode)]
  /\ comp' = comp
  /\ session' = s
  /\ UNCHANGED focusVars

\* What the application does to a window, between messages or in a callback.
React(w, reaction, s) ==
  CASE reaction = "keep"    -> /\ session' = s
                               /\ UNCHANGED <<window, comp, focusVars>>
    [] reaction = "destroy" -> DestroyWindow(w, s)
    [] reaction = "text"    -> SetText(w, TRUE, s)
    [] reaction = "notext"  -> SetText(w, FALSE, s)
    [] reaction = "lock"    -> SetMode(w, "locked", s)
    [] reaction = "unlock"  -> SetMode(w, "normal", s)

Application(w, reaction) ==
  /\ Quiet
  /\ Live(w)
  /\ reaction # "keep"
  /\ React(w, reaction, session)
  /\ UNCHANGED <<deviceVars, pending, agenda>>

----------------------------------------------------------------------------
(* wl_keyboard                                                             *)

\* _keyboard_handle_enter: the window may have died meanwhile.
KeyboardEnter(w) ==
  /\ Between
  /\ keyboard
  /\ ~Live(comp.keyboard)
  /\ Known(w)
  /\ keyboard_focus' = LiveWindow(w)
  /\ LET c == [comp EXCEPT !.keyboard = w]
     IN IF Live(w)
          THEN SyncWindow(c, session, w)
          ELSE comp' = c /\ UNCHANGED session
  /\ UNCHANGED <<window, deviceVars, pointer_focus, pending, agenda>>

\* _keyboard_handle_leave
KeyboardLeave ==
  /\ Between
  /\ comp.keyboard # None
  /\ Sync([comp EXCEPT !.keyboard = None], session, None, FALSE)
  /\ keyboard_focus' = None
  /\ UNCHANGED <<window, deviceVars, pointer_focus, pending, agenda>>

\* _keyboard_handle_key, for a press that has a text
Key ==
  /\ Between
  /\ comp.keyboard # None
  /\ keyboard_focus # None
  /\ agenda' = <<[kind |-> "key"], [kind |-> "keytext"]>>
  /\ UNCHANGED <<window, deviceVars, focusVars, pending, comp, session>>

----------------------------------------------------------------------------
(* zwp_text_input_v3                                                       *)

\* _text_input_handle_enter: it sets the focus of the keyboard as well.  The
\* texts of the new focus are counted afresh.
TextEnter(w) ==
  /\ Between
  /\ keyboard
  /\ ~Live(comp.text)
  /\ Known(w)
  /\ comp.keyboard = w \/ ~Live(comp.keyboard)
  /\ keyboard_focus' = LiveWindow(w)
  /\ LET c == [comp EXCEPT !.text = w, !.on = FALSE]
         s == [Stopped(session) EXCEPT !.commits = 0, !.received = 0]
     IN IF Live(w) THEN SyncWindow(c, s, w) ELSE comp' = c /\ session' = s
  /\ UNCHANGED <<window, deviceVars, pointer_focus, pending, agenda>>

Composition(w, some) == [kind |-> "composition", window |-> w, some |-> some]
Commit(w) == [kind |-> "commit", window |-> w]
ClearPending == [kind |-> "clear"]

\* _text_input_handle_leave: also when the input method dies within a done.
TextLeave ==
  LET w == IF Live(comp.text) THEN comp.text ELSE keyboard_focus
  IN /\ Quiet
     /\ comp.text # None
     /\ comp' = [comp EXCEPT !.text = None, !.on = FALSE]
     /\ session' = Stopped(session)
     /\ IF w # None /\ pending.preedit = "some"
          THEN /\ agenda' = <<Composition(w, FALSE), ClearPending>>
               /\ UNCHANGED pending
          ELSE /\ pending' = Clean
               /\ UNCHANGED agenda
     /\ UNCHANGED <<window, deviceVars, focusVars>>

\* The input method serves the window that has both focuses; what it has begun
\* it brings to its done.
ImeSends ==
  /\ Quiet
  /\ keyboard
  /\ \/ pending # Clean
     \/ comp.on /\ comp.text = comp.keyboard

\* _text_input_handle_preedit_string.  What is kept is the length, "some" or
\* "none", and a pointer into the message, which libwayland frees as soon as
\* the handler returns: see Read.
PreeditString(text) ==
  /\ ImeSends
  /\ pending.preedit = "clean"
  /\ pending' = [pending EXCEPT !.preedit = text]
  /\ session' = [session EXCEPT !.sent = (text = "some")]
  /\ UNCHANGED <<window, deviceVars, focusVars, agenda, comp>>

\* _text_input_handle_commit_string, with the same pointer.
CommitString(text) ==
  /\ ImeSends
  /\ pending.commit = "clean"
  /\ text = "some" => session.commits < MaxCommits
  /\ pending' = [pending EXCEPT !.commit = text]
  /\ UNCHANGED <<window, deviceVars, focusVars, agenda, comp, session>>

\* _text_input_handle_delete_surrounding_text
DeleteSurroundingText ==
  /\ ImeSends
  /\ ~pending.delete
  /\ pending' = [pending EXCEPT !.delete = TRUE]
  /\ UNCHANGED <<window, deviceVars, focusVars, agenda, comp, session>>

\* The composition a done tells of.
DoneComposition(w) ==
  IF pending.preedit # "clean" \/ pending.delete
    THEN <<Composition(w, pending.preedit = "some")>>
    ELSE <<>>

\* Mutant: a text that comes with a composition is not told.
LoneCommit(w) ==
  IF pending.commit = "some" /\ pending.preedit # "some"
    THEN <<Commit(w)>>
    ELSE <<>>

\* The text a done tells of.
DoneCommit(w) == IF pending.commit = "some" THEN <<Commit(w)>> ELSE <<>>

\* _text_input_handle_done: the window is looked up once.  What the done does
\* not name is gone from the input method.
Done ==
  /\ ImeSends
  /\ session' = [session EXCEPT
       !.preedit = session.sent,
       !.sent = FALSE,
       !.commits = IF pending.commit = "some" THEN @ + 1 ELSE @]
  /\ IF keyboard_focus = None
       THEN pending' = Clean /\ UNCHANGED agenda
       ELSE /\ agenda' = DoneComposition(keyboard_focus)
                           \o DoneCommit(keyboard_focus) \o <<ClearPending>>
            /\ UNCHANGED pending
  /\ UNCHANGED <<window, deviceVars, focusVars, comp>>

----------------------------------------------------------------------------
(* The rest of a handler: events and what their callbacks do.              *)

\* What the text of an event reads as: the message that brought it is freed, so
\* its memory may hold the text still or something else.  No text is "".
Read(item) ==
  IF item.kind = "commit" \/ item.some THEN {"sent", "other"} ELSE {"none"}

\* What an event of the input method tells its window.  A text ends the
\* composition (docs/user_guide/events_and_input.md).
Told(item, read) ==
  CASE item.kind = "composition" ->
         [session EXCEPT
            !.read = read,
            !.shown = IF item.some THEN @ \cup {item.window}
                                   ELSE @ \ {item.window}]
    [] item.kind = "commit" ->
         [session EXCEPT
            !.read = read,
            !.shown = @ \ {item.window},
            !.received = IF item.window = comp.text THEN @ + 1 ELSE @]

\* The event of the item is dispatched.  The text of a key goes to the focus
\* the callback of the key has left, which may be none.
Deliver(w, reaction) ==
  LET item == Head(agenda)
  IN /\ agenda # <<>>
     /\ item.kind # "clear"
     /\ item.kind = "keytext" => ~Active(keyboard_focus)
     /\ reaction = "keep" \/ Live(w)
     /\ IF item.kind \in {"key", "keytext"}
          THEN React(w, reaction, session)
          ELSE \E read \in Read(item) : React(w, reaction, Told(item, read))
     /\ agenda' = Tail(agenda)
     /\ UNCHANGED <<deviceVars, pending>>

\* With text input active, the text of a key is left to the input method.
LeaveToIme ==
  /\ agenda # <<>>
  /\ Head(agenda).kind = "keytext"
  /\ Active(keyboard_focus)
  /\ agenda' = Tail(agenda)
  /\ UNCHANGED <<window, deviceVars, focusVars, pending, comp, session>>

\* memset(&text_input_pending, 0)
Clear ==
  /\ agenda # <<>>
  /\ Head(agenda).kind = "clear"
  /\ pending' = Clean
  /\ agenda' = Tail(agenda)
  /\ session' = [session EXCEPT !.read = "none"]
  /\ UNCHANGED <<window, deviceVars, focusVars, comp>>

----------------------------------------------------------------------------
(* wl_pointer and wl_seat                                                  *)

\* _pointer_handle_enter: the surface of a dead window arrives as NULL.
PointerEnter(w) ==
  /\ Between
  /\ pointer # 0
  /\ ~Live(comp.pointer)
  /\ Known(w)
  /\ pointer_focus' = IF Live(w) THEN w ELSE pointer_focus
  /\ comp' = [comp EXCEPT !.pointer = w]
  /\ UNCHANGED <<window, deviceVars, keyboard_focus, pending, agenda, session>>

\* _pointer_handle_leave
PointerLeave ==
  /\ Between
  /\ comp.pointer # None
  /\ pointer_focus' = None
  /\ comp' = [comp EXCEPT !.pointer = None]
  /\ UNCHANGED <<window, deviceVars, keyboard_focus, pending, agenda, session>>

\* Mutant: locks outlive the pointer.
KeepLocks(p) ==
  [w \in Windows |->
     IF Live(w) /\ window[w].mode = "locked" /\ window[w].locked = 0
       THEN [window[w] EXCEPT !.locked = p]
       ELSE window[w]]

\* The windows once p is the pointer: without one all locks are destroyed, with
\* a new one the windows in locked mode that have none get a lock.
Relock(p) ==
  [w \in Windows |->
     CASE ~Live(w) -> window[w]
       [] Live(w) /\ p = 0 -> [window[w] EXCEPT !.locked = 0]
       [] OTHER ->
            IF window[w].mode = "locked" /\ window[w].locked = 0
              THEN [window[w] EXCEPT !.locked = p]
              ELSE window[w]]

\* Mutant: the keyboard goes and its focus stays.
FocusKept(k) == keyboard_focus

\* keyboard_focus once the keyboard is there or not.
FocusWith(k) == IF keyboard /\ ~k THEN None ELSE keyboard_focus

\* _seat_handle_capabilities: k says that there is a keyboard, p that there is
\* a pointer.  pointer_focus stays when the pointer goes.
Capabilities(k, p) ==
  /\ Between
  /\ k # keyboard \/ p # (pointer # 0)
  /\ p => pointers < MaxPointers \/ pointer # 0
  /\ keyboard' = k
  /\ keyboard_focus' = FocusWith(k)
  /\ pointer' = CASE ~p -> 0 [] p /\ pointer = 0 -> pointers + 1
                  [] OTHER -> pointer
  /\ pointers' = IF p /\ pointer = 0 THEN pointers + 1 ELSE pointers
  /\ window' = IF p # (pointer # 0) THEN Relock(pointer') ELSE window
  /\ comp' = [keyboard |-> IF k THEN comp.keyboard ELSE None,
              text     |-> IF k THEN comp.text ELSE None,
              on       |-> k /\ comp.on,
              pointer  |-> IF p THEN comp.pointer ELSE None]
  /\ session' = IF k THEN session ELSE Stopped(session)
  /\ UNCHANGED <<pointer_focus, pending, agenda>>

----------------------------------------------------------------------------
Init ==
  /\ window = [w \in Windows |-> [stage |-> "new", text |-> FALSE,
                                  mode |-> "normal", locked |-> 0]]
  /\ keyboard = FALSE
  /\ pointer = 0
  /\ pointers = 0
  /\ keyboard_focus = None
  /\ pointer_focus = None
  /\ pending = Clean
  /\ agenda = <<>>
  /\ comp = [keyboard |-> None, text |-> None, on |-> FALSE, pointer |-> None]
  /\ session = [preedit |-> FALSE, sent |-> FALSE, commits |-> 0,
                received |-> 0, shown |-> {}, read |-> "none"]

Next ==
  \/ \E w \in Windows :
       \/ \E mode \in {"normal", "locked"}, text \in BOOLEAN :
            Create(w, mode, text)
       \/ \E reaction \in Reactions :
            Application(w, reaction) \/ Deliver(w, reaction)
       \/ KeyboardEnter(w) \/ TextEnter(w) \/ PointerEnter(w)
  \/ KeyboardLeave \/ Key \/ TextLeave
  \/ \E text \in {"none", "some"} : PreeditString(text) \/ CommitString(text)
  \/ DeleteSurroundingText
  \/ Done \/ LeaveToIme \/ Clear
  \/ PointerLeave
  \/ \E k, p \in BOOLEAN : Capabilities(k, p)

Spec == Init /\ [][Next]_vars

----------------------------------------------------------------------------
(* Properties.                                                             *)

MaybeWindow == Windows \cup {None}

Items ==
  [kind : {"key", "keytext", "clear"}]
    \cup [kind : {"composition"}, window : Windows, some : BOOLEAN]
    \cup [kind : {"commit"}, window : Windows]

\* Type invariant.  Without a keyboard nothing has its focus, and pending data
\* stays while the handler that delivers it runs.
TypeOK ==
  /\ window \in [Windows -> [stage : {"new", "live", "dead"}, text : BOOLEAN,
                             mode : {"normal", "locked"},
                             locked : 0..MaxPointers]]
  /\ keyboard \in BOOLEAN
  /\ pointer \in 0..MaxPointers
  /\ pointers \in 0..MaxPointers
  /\ keyboard_focus \in MaybeWindow
  /\ pointer_focus \in MaybeWindow
  /\ pending \in [preedit : {"clean", "none", "some"},
                  commit : {"clean", "none", "some"}, delete : BOOLEAN]
  /\ Len(agenda) <= 3
  /\ \A i \in 1..Len(agenda) : agenda[i] \in Items
  /\ comp \in [keyboard : MaybeWindow, text : MaybeWindow, on : BOOLEAN,
               pointer : MaybeWindow]
  /\ session \in [preedit : BOOLEAN, sent : BOOLEAN, commits : 0..MaxCommits,
                  received : 0..MaxCommits, shown : SUBSET Windows,
                  read : {"none", "sent", "other"}]
  /\ keyboard \/ keyboard_focus = None

\* keyboard_focus and pointer_focus never name a destroyed window, and name the
\* window that the compositor has given the focus as long as it lives, whatever
\* callbacks, text focus and the seat's devices do in between.
FocusFollows ==
  /\ keyboard_focus # None => Live(keyboard_focus)
  /\ pointer_focus # None => Live(pointer_focus)
  /\ Live(comp.keyboard) => keyboard_focus = comp.keyboard
  /\ Live(comp.pointer) => pointer_focus = comp.pointer

\* While a window has the keyboard and text input, text input is enabled at the
\* compositor exactly if the window wants it, in whatever order the two focuses
\* came and wherever the application changed its mind.
TextInputMatches ==
  Live(comp.text) /\ keyboard_focus = comp.text =>
    (comp.on <=> window[comp.text].text)

\* A live window in locked mode has a lock of the present pointer, and no other
\* window has a lock: across pointers that come and go, windows created without
\* a pointer and changes of mode.
LocksFollow ==
  \A w \in Windows :
    window[w].locked =
      IF Live(w) /\ window[w].mode = "locked" THEN pointer ELSE 0

\* The window that has the text focus has been told of every text the input
\* method committed since the focus came, once: the handler of a done asks for
\* the focus of the keyboard, which two protocols set, and the application
\* changes windows between the messages of a done and in its callbacks.
TextReachesWindow ==
  Between /\ Live(comp.text) => session.received = session.commits

\* "As the user types, you receive TextCompositionEvent updates"
\* (docs/user_guide/events_and_input.md): once a done has told all that it
\* tells, the window that text input serves shows a composition exactly if the
\* input method does.
CompositionIsTold ==
  agenda = <<ClearPending>> /\ comp.on /\ Live(comp.text) =>
    (comp.text \in session.shown <=> session.preedit)

\* "Many event payloads contain pointers (marked as LVKW_TRANSIENT in headers)
\* that are only valid for the duration of the callback"
\* (docs/user_guide/events_and_input.md): the text of an event is, in its
\* callback, the one that the input method sent.
TextIsValid == session.read # "other"

=============================================================================
