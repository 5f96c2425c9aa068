---------------------------- MODULE WaylandWindow ----------------------------
(***************************************************************************)
(* A window of the Wayland backend (linux/wayland/wayland_window.c): its   *)
(* size, its states and what the application is told of them.              *)
(*                                                                         *)
(* The compositor proposes a size and states in configures, the            *)
(* application asks for others, and both are under way at the same time.   *)
(* An event is dispatched in the middle of a handler, and its callback may *)
(* update the window, which runs handlers of its own, or destroy it.  What *)
(* the running handlers have still to do is kept in agenda, the innermost  *)
(* first.                                                                  *)
(*                                                                         *)
(* The compositor sees a request at once and answers it, with others, in a *)
(* later configure, which may or may not grant it.  The configure of an    *)
(* xdg_toplevel and that of its xdg_surface are sent together.  The loss   *)
(* of the connection and the objects a window owns are left out.           *)
(***************************************************************************)
EXTENDS SizeConstraints, Sequences

CONSTANTS
  Sizes,          \* sizes an application asks for
  Proposals,      \* configures of a compositor: states and a size
  NoSize,         \* the size of a configure that leaves it to the window
  LimitSets,      \* limits an application sets
  Scales,
  Decorations,    \* a subset of "xdg", "libdecor"
  Reactions,      \* what an application does to its window: see Ops
  MaxConfigures,  \* bound: configures of the compositor
  MaxUpdates      \* bound: updates by the application

ASSUME WindowAssumption ==
  /\ Sizes \subseteq [x : Nat \ {0}, y : Nat \ {0}]
  /\ NoSize = [x |-> 0, y |-> 0]
  /\ Proposals \subseteq [max : BOOLEAN, full : BOOLEAN, active : BOOLEAN,
                            size : Dims]
  /\ LimitSets \subseteq Limits
  /\ Scales \subseteq Nat
  /\ Decorations \subseteq {"xdg", "libdecor"}
  /\ Reactions \subseteq
       {"size", "limits", "maximize", "fullscreen", "monitor", "resizable"}
  /\ MaxConfigures \in Nat
  /\ MaxUpdates \in Nat

VARIABLES
  decor,       \* decor_mode: libdecor, or xdg_toplevel with or without SSD
  enforce,     \* ctx->enforce_client_side_constraints
  stage,       \* the window: new, live, dead
  win,         \* its fields, see NewWindow
  comp,        \* the compositor: its states and what it was asked for
  wire,        \* configures on their way
  agenda,      \* what the handlers have still to do
  told,        \* what the application was last told, see NothingTold
  silent,      \* history: the size has changed and no event told of it
  reached,     \* history: a handler went on with a destroyed window
  configures, updates

choiceVars == <<decor, enforce>>
historyVars == <<silent, reached>>
vars == <<choiceVars, stage, win, comp, wire, agenda, told,
          historyVars, configures, updates>>

NothingTold == [size |-> NoSize, scale |-> 0, maximized |-> FALSE,
                focused |-> FALSE, ready |-> FALSE]

Live == stage = "live"
Quiet == agenda = <<>>

----------------------------------------------------------------------------
(* Requests to the compositor: "none" or the state that was last asked for.  *)

Ask(c, state, on) == [c EXCEPT !.asked[state] = IF on THEN "on" ELSE "off"]

\* _lvkw_wnd_setFullscreen_WL: the state counts from now on.
SetFullscreen(w, c, on) ==
  IF w.fullscreen = on /\ ~on
    THEN [win |-> w, comp |-> c]
    ELSE [win |-> [w EXCEPT !.fullscreen = on, !.flag.full = on],
          comp |-> Ask(c, "full", on)]

\* _lvkw_wnd_setMaximized_WL: the flag is left to the configure.
SetMaximized(w, c, on) ==
  IF w.maximized = on
    THEN [win |-> w, comp |-> c]
    ELSE [win |-> [w EXCEPT !.maximized = on], comp |-> Ask(c, "max", on)]

----------------------------------------------------------------------------
(* _lvkw_wayland_apply_size_constraints, in two parts: an event is           *)
(* dispatched between them.                                                  *)

Floating(w) == ~w.maximized /\ ~w.fullscreen

MinSize(w) == IF w.resizable THEN w.limits.min ELSE w.size
MaxSize(w) == IF w.resizable THEN w.limits.max ELSE w.size

Enforced(w, s) == IF enforce THEN EnforceAspectRatio(s, w.limits) ELSE s

\* The size a libdecor frame is committed with.
FrameSize(w) == Enforced(w, FitSize(w.size, MinSize(w), MaxSize(w)))

\* The size the window ends with, whatever its role.  Bounds of a window that
\* is not resizable are those of the size it had when the constraints began.
FinalSize(w, bounds) ==
  ClampSize(IF Floating(w) THEN Enforced(w, w.size) ELSE w.size,
            bounds.min, bounds.max)

Bounds(w) == [min |-> MinSize(w), max |-> MaxSize(w)]

Item(kind) == [kind |-> kind]
Clamping(w) == [kind |-> "clamp", bounds |-> Bounds(w)]
Constraining == <<Item("constrain")>>

----------------------------------------------------------------------------
(* The application: lvkw_wnd_update_WL, one field at a time.                 *)

Ops ==
  LET Of(op, args) == {[op |-> op, arg |-> a] : a \in args}
  IN UNION {Of("size", Sizes), Of("limits", LimitSets),
            Of("maximize", BOOLEAN), Of("fullscreen", BOOLEAN),
            Of("monitor", {TRUE}), Of("resizable", BOOLEAN)}

ReactionOps == {o \in Ops : o.op \in Reactions}

\* What the field o changes at once, in the window w and the requests c, and the
\* work it begins.
Field(w, c, o) ==
  LET Window(new, work) == [win |-> new, comp |-> c, work |-> work]
      Request(r) == [win |-> r.win, comp |-> r.comp, work |-> <<>>]
  IN CASE o.op = "size" /\ w.size = o.arg -> Window(w, <<>>)
       [] o.op = "size" /\ w.size # o.arg ->
            Window([w EXCEPT !.size = o.arg],
                   <<Item("constrain"), Item("resized"), Item("opaque")>>)
       [] o.op = "limits"     -> Window([w EXCEPT !.limits = o.arg], Constraining)
       [] o.op = "resizable"  ->
            Window([w EXCEPT !.resizable = o.arg], Constraining)
       [] o.op = "maximize"   -> Request(SetMaximized(w, c, o.arg))
       [] o.op = "fullscreen" -> Request(SetFullscreen(w, c, o.arg))
       [] o.op = "monitor" /\ w.fullscreen  -> Request(SetFullscreen(w, c, TRUE))
       [] o.op = "monitor" /\ ~w.fullscreen -> Window(w, <<>>)

NewWindow(s, l, max, full) ==
  [size |-> s, scale |-> 1, limits |-> l, resizable |-> TRUE, ready |-> FALSE,
   maximized |-> max, fullscreen |-> full,
   flag |-> [max |-> FALSE, full |-> FALSE, focus |-> FALSE]]

Freed == NewWindow(NoSize, [min |-> NoSize, max |-> NoSize, num |-> 0, den |-> 0],
                   FALSE, FALSE)

NewComp == [max |-> FALSE, full |-> FALSE, active |-> FALSE, owes |-> FALSE,
            asked |-> [max |-> "none", full |-> "none"]]

\* The application acts on the window w, in the callback of an event or between
\* two handlers; rest is what is left to do.  It keeps the window, updates it or
\* destroys it (lvkw_wnd_destroy_WL): what the compositor has sent is dropped.
Acts(w, rest) ==
  \/ /\ win' = w
     /\ agenda' = rest
     /\ UNCHANGED <<stage, comp, wire, updates>>
  \/ /\ updates < MaxUpdates
     /\ \E o \in ReactionOps :
          LET r == Field(w, comp, o)
          IN win' = r.win /\ comp' = r.comp /\ agenda' = r.work \o rest
     /\ updates' = updates + 1
     /\ UNCHANGED <<stage, wire>>
  \/ /\ stage' = "dead"
     /\ win' = Freed
     /\ comp' = NewComp
     /\ wire' = <<>>
     /\ agenda' = rest
     /\ UNCHANGED updates

Resized(w) == [told EXCEPT !.size = w.size, !.scale = w.scale]

\* lvkw_ctx_createWindow_WL, with _lvkw_wayland_create_xdg_shell_objects: the
\* window asks for one of the two states, and its constraints are applied.
Create(s, l, max, full) ==
  /\ stage = "new"
  /\ stage' = "live"
  /\ win' = NewWindow(s, l, max, full)
  /\ comp' = LET c == [comp EXCEPT !.owes = TRUE]
             IN CASE full         -> Ask(c, "full", TRUE)
                  [] max /\ ~full -> Ask(c, "max", TRUE)
                  [] OTHER        -> c
  /\ agenda' = <<Item("constrain"), Item("opaque")>>
  /\ UNCHANGED <<choiceVars, wire, told, historyVars, configures, updates>>

Application ==
  /\ Live
  /\ Quiet
  /\ Acts(win, <<>>)
  /\ UNCHANGED <<choiceVars, told, silent, reached, configures>>

----------------------------------------------------------------------------
(* The compositor.                                                           *)

\* It answers what it was asked for, or changes a state or the size by itself.
SendConfigure(c) ==
  /\ Live
  /\ configures < MaxConfigures
  /\ \/ comp.asked.max = "none"
     \/ c.max \in {comp.max, comp.asked.max = "on"}
  /\ \/ comp.asked.full = "none"
     \/ c.full \in {comp.full, comp.asked.full = "on"}
  /\ comp' = [max |-> c.max, full |-> c.full, active |-> c.active, owes |-> FALSE,
              asked |-> [max |-> "none", full |-> "none"]]
  /\ wire' = Append(wire, c)
  /\ configures' = configures + 1
  /\ UNCHANGED <<choiceVars, stage, win, agenda, told, historyVars, updates>>

----------------------------------------------------------------------------
(* Handlers: each leaves its parts in agenda.                                *)

Part(kind, c) == [kind |-> kind, configure |-> c]

\* _xdg_toplevel_handle_configure and _xdg_surface_handle_configure, or
\* _libdecor_frame_handle_configure
HandleConfigure ==
  LET c == Head(wire)
  IN /\ Live
     /\ Quiet
     /\ wire # <<>>
     /\ wire' = Tail(wire)
     /\ agenda' =
          IF decor = "xdg"
            THEN <<Part("maximized", c), Part("states", c), Part("size", c),
                   Item("surface")>>
            ELSE <<Part("maximized", c), Part("states", c), Part("frame", c),
                   Item("configured")>>
     /\ UNCHANGED <<choiceVars, stage, win, comp, told, historyVars, configures,
                    updates>>

\* _xdg_toplevel_handle_close, _libdecor_frame_handle_close
HandleClose ==
  /\ Live
  /\ Quiet
  /\ Acts(win, <<>>)
  /\ UNCHANGED <<choiceVars, told, silent, reached, configures>>

\* _fractional_scale_handle_preferred_scale, which tells of every scale;
\* _wl_surface_handle_preferred_buffer_scale, for a window without the other,
\* tells of a new one only.
HandleScale(scale) ==
  /\ Live
  /\ Quiet
  /\ LET w == [win EXCEPT !.scale = scale]
     IN IF win.ready
          THEN /\ told' = Resized(w)
               /\ silent' = FALSE
               /\ Acts(w, <<>>)
          ELSE /\ win' = w
               /\ UNCHANGED <<stage, comp, wire, agenda, told, silent, updates>>
  /\ UNCHANGED <<choiceVars, reached, configures>>

----------------------------------------------------------------------------
(* The parts, for a window that is still there.                              *)

Now(kind) == Live /\ agenda # <<>> /\ Head(agenda).kind = kind
Rest == Tail(agenda)

\* A part that dispatches nothing.
Silently(w, rest) ==
  /\ win' = w
  /\ agenda' = rest
  /\ UNCHANGED <<stage, comp, wire, told, silent, updates>>

\* An event is dispatched.
Tells(w, news, rest) ==
  /\ told' = news
  /\ UNCHANGED silent
  /\ Acts(w, rest)

\* WINDOW_RESIZED is.
TellsSize(w, rest) ==
  /\ told' = Resized(w)
  /\ silent' = FALSE
  /\ Acts(w, rest)

PartDone == UNCHANGED <<choiceVars, reached, configures>>

Maximized ==
  /\ Now("maximized")
  /\ LET max == Head(agenda).configure.max
     IN IF win.maximized = max
          THEN Silently(win, Rest)
          ELSE Tells([win EXCEPT !.maximized = max, !.flag.max = max],
                     [told EXCEPT !.maximized = max], Rest)
  /\ PartDone

\* Mutant: fullscreen stays what was asked for.
StatesOfRequest ==
  /\ Now("states")
  /\ LET c == Head(agenda).configure
         w == [win EXCEPT !.flag.full = c.full, !.flag.focus = c.active]
     IN IF win.flag.focus = c.active
          THEN Silently(w, Rest)
          ELSE Tells(w, [told EXCEPT !.focused = c.active], Rest)
  /\ PartDone

\* Fullscreen has no event of its own; focus has.
States ==
  /\ Now("states")
  /\ LET c == Head(agenda).configure
         w == [win EXCEPT !.fullscreen = c.full, !.flag.full = c.full,
                          !.flag.focus = c.active]
     IN IF win.flag.focus = c.active
          THEN Silently(w, Rest)
          ELSE Tells(w, [told EXCEPT !.focused = c.active], Rest)
  /\ PartDone

\* Mutant: a side that is left open is taken as it is.
ProposedAsIs(c) ==
  IF c.max \/ c.full THEN c.size ELSE Enforced(win, c.size)

\* The size a configure leads to: what it leaves open the window keeps.
Proposed(c) ==
  LET s == [x |-> IF c.size.x > 0 THEN c.size.x ELSE win.size.x,
            y |-> IF c.size.y > 0 THEN c.size.y ELSE win.size.y]
  IN IF c.max \/ c.full THEN s ELSE Enforced(win, s)

\* Mutant: only a new size is told, to a window that is not ready as well.
SizeIfNew ==
  /\ Now("size")
  /\ LET c == Head(agenda).configure
         s == IF c.size = NoSize THEN win.size ELSE Proposed(c)
         w == [win EXCEPT !.size = s]
     IN IF s = win.size
          THEN Silently(w, Rest)
          ELSE TellsSize(w, Rest)
  /\ PartDone

\* A configure that leaves the size open keeps it, outside the limits or not.
Size ==
  /\ Now("size")
  /\ LET c == Head(agenda).configure
         s == IF c.size = NoSize THEN win.size ELSE Proposed(c)
         w == [win EXCEPT !.size = s]
     IN IF s = win.size /\ win.ready
          THEN Silently(w, Rest)
          ELSE TellsSize(w, Rest)
  /\ PartDone

\* Mutant: a window is ready once it has focus.
SurfaceIfFocused ==
  /\ Now("surface")
  /\ IF win.ready \/ ~win.flag.focus
       THEN Silently(win, Rest)
       ELSE Tells([win EXCEPT !.ready = TRUE], [told EXCEPT !.ready = TRUE], Rest)
  /\ PartDone

\* _xdg_surface_handle_configure: the configure is acknowledged.
Surface ==
  /\ Now("surface")
  /\ IF win.ready
       THEN Silently(win, Rest)
       ELSE Tells([win EXCEPT !.ready = TRUE], [told EXCEPT !.ready = TRUE], Rest)
  /\ PartDone

Frame ==
  /\ Now("frame")
  /\ LET w == [win EXCEPT !.size = Proposed(Head(agenda).configure)]
     IN IF win.ready
          THEN Silently(w, Rest)
          ELSE Tells([w EXCEPT !.ready = TRUE], [told EXCEPT !.ready = TRUE], Rest)
  /\ PartDone

Configured ==
  /\ Now("configured")
  /\ TellsSize(win, Rest)
  /\ PartDone

\* The first part of the constraints; only a libdecor frame resizes the window.
Constrain ==
  /\ Now("constrain")
  /\ LET w == [win EXCEPT !.size = FrameSize(win)]
         rest == <<Clamping(win)>> \o Rest
     IN IF decor = "libdecor" /\ Floating(win) /\ w.size # win.size
          THEN TellsSize(w, rest)
          ELSE Silently(win, rest)
  /\ PartDone

\* The second part: no event tells of what it does to the size.
ClampFinally ==
  /\ Now("clamp")
  /\ LET s == FinalSize(win, Head(agenda).bounds)
     IN /\ win' = [win EXCEPT !.size = s]
        /\ silent' = (silent \/ s # win.size)
  /\ agenda' = Rest
  /\ UNCHANGED <<stage, comp, wire, told, updates>>
  /\ PartDone

\* The event of lvkw_wnd_update_WL.
Update ==
  /\ Now("resized")
  /\ TellsSize(win, Rest)
  /\ PartDone

\* _lvkw_wayland_update_opaque_region, and the rest of an update or a creation.
Opaque ==
  /\ Now("opaque")
  /\ Silently(win, Rest)
  /\ PartDone

Step ==
  \/ Maximized \/ States \/ Size \/ Surface \/ Frame \/ Configured
  \/ Constrain \/ ClampFinally \/ Update \/ Opaque

\* The window was destroyed in a callback.  The configure of its xdg_surface is
\* dropped with the object; any other part goes on with freed memory, and what
\* happens then is not modelled.
Abandon ==
  /\ stage = "dead"
  /\ agenda # <<>>
  /\ reached' = (reached \/ Head(agenda).kind # "surface")
  /\ agenda' = IF Head(agenda).kind = "surface" THEN Rest ELSE <<>>
  /\ UNCHANGED <<choiceVars, stage, win, comp, wire, told, silent, configures,
                 updates>>

----------------------------------------------------------------------------
Init ==
  /\ decor \in Decorations
  /\ enforce \in BOOLEAN
  /\ stage = "new"
  /\ win = Freed
  /\ comp = NewComp
  /\ wire = <<>>
  /\ agenda = <<>>
  /\ told = NothingTold
  /\ silent = FALSE
  /\ reached = FALSE
  /\ configures = 0
  /\ updates = 0

Next ==
  \/ \E s \in Sizes, l \in LimitSets, max, full \in BOOLEAN :
       Create(s, l, max, full)
  \/ Application
  \/ \E c \in Proposals : SendConfigure(c)
  \/ HandleConfigure
  \/ HandleClose
  \/ \E scale \in Scales : HandleScale(scale)
  \/ Step
  \/ Abandon

Spec == Init /\ [][Next]_vars

----------------------------------------------------------------------------
(* Properties.                                                               *)

Asked == {"none", "on", "off"}

\* The parts of an agenda: without data, with the bounds and with the configure.
Plain == {"constrain", "resized", "opaque", "surface", "configured"}
Proposing == {"maximized", "states", "size", "frame"}
Items == [kind : Plain] \cup [kind : {"clamp"}, bounds : [min : Dims, max : Dims]]
         \cup [kind : Proposing, configure : Proposals]

TypeOK ==
  /\ decor \in Decorations
  /\ enforce \in BOOLEAN
  /\ stage \in {"new", "live", "dead"}
  /\ win \in [size : Dims, scale : Nat, limits : Limits, resizable : BOOLEAN,
              ready : BOOLEAN, maximized : BOOLEAN, fullscreen : BOOLEAN,
              flag : [max : BOOLEAN, full : BOOLEAN, focus : BOOLEAN]]
  /\ comp \in [max : BOOLEAN, full : BOOLEAN, active : BOOLEAN, owes : BOOLEAN,
               asked : [max : Asked, full : Asked]]
  /\ Live => win.size.x > 0 /\ win.size.y > 0
  /\ wire \in Seq(Proposals)
  /\ agenda \in Seq(Items)
  /\ told \in [size : Dims, scale : Nat, maximized : BOOLEAN, focused : BOOLEAN,
               ready : BOOLEAN]
  /\ silent \in BOOLEAN
  /\ reached \in BOOLEAN
  /\ configures \in 0..MaxConfigures
  /\ updates \in 0..MaxUpdates

\* The compositor has a creation or a request to answer.
Owes == comp.owes \/ comp.asked.max # "none" \/ comp.asked.full # "none"

\* Nothing between the window and the compositor is under way.
Settled == Live /\ Quiet /\ wire = <<>> /\ ~Owes

\* A window that is ready has told the application its size and its scale
\* (WINDOW_RESIZED: "fired when window geometry changes", include/lvkw/c/events.h),
\* however configures, updates and the callbacks of either fall into each other,
\* unless the last change was the one of the constraints that has no event.
GeometryIsTold ==
  Live /\ Quiet /\ win.ready /\ ~silent
    => told.size = win.size /\ told.scale = win.scale

\* The same without the exception.
EveryGeometryIsTold ==
  Live /\ Quiet /\ win.ready => told.size = win.size /\ told.scale = win.scale

\* Once the compositor has answered and the answers are handled, the window has
\* the states the compositor gives it, although setFullscreen and setMaximized
\* set them before it answers and a configure may cross their request; and the
\* application knows of the focus.  What it knows of maximized is another matter.
StatesSettle ==
  Settled => /\ win.maximized = comp.max
             /\ win.fullscreen = comp.full
             /\ win.flag.full = comp.full
             /\ told.focused = comp.active

\* WINDOW_MAXIMIZED is "fired when the window is maximized/restored"
\* (include/lvkw/c/events.h): a settled window has told the last of them, and its
\* LVKW_WINDOW_STATE_MAXIMIZED, which isMaximized() returns, agrees.
MaximizedIsKnown ==
  Settled => win.flag.max = comp.max /\ told.maximized = comp.max

\* A window is ready as soon as a configure has been handled, whatever callbacks
\* did meanwhile, and the application knows it.
ReadyOnceConfigured ==
  Live /\ Quiet /\ configures > Len(wire) => win.ready /\ told.ready

\* No handler goes on with a window its own event's callback has destroyed.
DestroyIsSafe == ~reached
=============================================================================
