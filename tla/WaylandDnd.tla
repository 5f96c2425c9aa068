----------------------------- MODULE WaylandDnd -----------------------------
(***************************************************************************)
(* Drag and drop onto a Wayland window: the wl_data_device handlers, the   *)
(* asynchronous read of the dragged list and the end of a drop             *)
(* (linux/wayland/wayland_input.c), the frame in which the events wait     *)
(* (wayland_events.c), and what lvkw_wnd_update and lvkw_wnd_destroy do to *)
(* a drag in progress (wayland_window.c).                                  *)
(*                                                                         *)
(* A handler runs to its end before the next message, but it is not one    *)
(* step: an event it pushes into a full frame first delivers the frame,    *)
(* and the callbacks run in the middle of the handler.  The rest of a      *)
(* handler is therefore a list of things still to do (agenda).  A session  *)
(* is one stay of a drag over a window that accepts it; its number is a    *)
(* history variable that the events carry along.                           *)
(***************************************************************************)
EXTENDS Naturals, Sequences

CONSTANTS
  Offers,          \* the wl_data_offer objects of a behaviour
  Windows,
  None,
  FrameCap,        \* pending_frame holds 16 events
  Reactions,       \* what callbacks do: see React
  Updates,         \* values the application gives accept_dnd between messages
  Destroys,        \* the application destroys windows between messages
  LeaveAfterDrop,  \* the compositor sends leave after drop
  Timed,           \* the application pumps with a timeout, not LVKW_NEVER
  MaxMotions       \* bound: motions and selected actions in one drag

ASSUME DndAssumption ==
  /\ None \notin Offers \union Windows
  /\ FrameCap \in Nat \ {0}
  /\ Reactions \subseteq {"keep", "accept", "reject", "refuse", "destroy"}
  /\ Updates \subseteq BOOLEAN
  /\ {Destroys, LeaveAfterDrop, Timed} \subseteq BOOLEAN
  /\ MaxMotions \in Nat

VARIABLES
  proxy,      \* each wl_data_offer: "unused", "live", "destroyed"
  meta,       \* its LVKW_WaylandDataOffer: uri list, source and selected action
  dnd,        \* ctx->input.dnd: offer, window, payload, drop_pending
  async,      \* ctx->input.dnd.async: "closed", "open", and the deadline
  source,     \* the other end of the pipe: "open", "files", "nothing"
  selection,  \* ctx->input.selections[0].offer
  window,     \* each window: alive, accept_dnd, current_action, userdata
  frame,      \* ctx->input.pending_frame
  flush,      \* the event of the frame being delivered, 0 outside
  agenda,     \* what the running handler has still to do
  drag,       \* the compositor: phase, offer, motions
  session,    \* history: the number of the latest session
  opened,     \* history: the session each window has seen begin and not end
  dropped     \* history: the offers the compositor has dropped

handlerVars == <<proxy, meta, dnd, async, source, selection, window>>
eventVars == <<frame, flush, agenda>>
historyVars == <<session, opened, dropped>>
vars == <<handlerVars, eventVars, drag, historyVars>>

Actions == {"copy", "move", "link", "none"}
NoDrag == [phase |-> "none", offer |-> None, motions |-> 0]
NoDnd == [offer |-> None, window |-> None, payload |-> FALSE,
          drop_pending |-> FALSE, session |-> 0]
NoAsync == [fd |-> "closed", deadline |-> "none"]

Busy == agenda # <<>> \/ flush > 0

----------------------------------------------------------------------------
(* Helpers of the handlers.                                                *)

Alive(w) == w # None /\ window[w].alive

Event(type, payload) ==
  [type |-> type, window |-> dnd.window, session |-> dnd.session,
   paths |-> payload]

Push(e) == [op |-> "push", event |-> e]
Do(what) == [op |-> what]

\* The action a window keeps when the source offers none it prefers.
Negotiate(offered, current) ==
  LET order == <<current, "copy", "move", "link">>
      served == {k \in DOMAIN order : order[k] \in offered}
  IN  IF served = {} THEN "none"
      ELSE order[CHOOSE k \in served : \A j \in served : k <= j]

\* _dnd_async_start: no pipe, no read.
StartRead == \E fd \in {"open", "closed"} : async' = [NoAsync EXCEPT !.fd = fd]

\* Mutant: the offer of a drag that ends is not destroyed.
ResetKeepsOffer ==
  /\ dnd' = NoDnd
  /\ async' = NoAsync
  /\ UNCHANGED <<proxy, selection>>

\* Mutant: the offer is destroyed and still the drag's.
ResetKeepsPointer ==
  /\ proxy' = IF dnd.offer = None THEN proxy
              ELSE [proxy EXCEPT ![dnd.offer] = "destroyed"]
  /\ dnd' = [NoDnd EXCEPT !.offer = dnd.offer]
  /\ async' = NoAsync
  /\ UNCHANGED selection

\* _lvkw_wayland_dnd_reset(ctx, true)
Reset ==
  /\ proxy' = IF dnd.offer = None THEN proxy
              ELSE [proxy EXCEPT ![dnd.offer] = "destroyed"]
  /\ selection' = IF dnd.offer # None /\ selection = dnd.offer
                    THEN None ELSE selection
  /\ dnd' = NoDnd
  /\ async' = NoAsync

\* Mutant: a drop is not followed by the reset of the drag.
FinalizeKeepsDrag ==
  LET w == dnd.window
      accepting == w # None /\ window[w].accept
  IN  IF accepting THEN <<Push(Event("drop", dnd.payload))>> ELSE <<>>

\* _dnd_finalize_drop: whether to finish is decided before the DROP event is
\* pushed and acted on after it.
Finalize ==
  LET w == dnd.window
      accepting == w # None /\ window[w].accept
      finish == /\ dnd.offer # None
                /\ accepting
                /\ dnd.payload
                /\ window[w].action # "none"
  IN  (IF accepting THEN <<Push(Event("drop", dnd.payload))>> ELSE <<>>)
        \o (IF finish THEN <<Do("finish"), Do("reset")>> ELSE <<Do("reset")>>)

----------------------------------------------------------------------------
(* The messages of the compositor and their handlers.                      *)

\* A drag of this client's or another's clients begins: data_offer, its mime
\* types and its actions.
DataOffer(o, uri, offered) ==
  /\ ~Busy
  /\ drag.phase \in {"none", "dropped"}
  /\ proxy[o] = "unused"
  /\ proxy' = [proxy EXCEPT ![o] = "live"]
  /\ meta' = [meta EXCEPT ![o] = [uri |-> uri, offered |-> offered,
                                  selected |-> "none"]]
  /\ drag' = [phase |-> "offered", offer |-> o, motions |-> 0]
  /\ UNCHANGED <<dnd, async, source, selection, window, eventVars, historyVars>>

\* Mutant: a drag that never ended is not reset.
EnterKeepsStale(o) == FALSE

\* enter begins by resetting a drag that never ended.
EnterResets(o) == dnd.offer # None /\ dnd.offer # o

\* wl_data_device.enter on the surface of window w, or on none of them.
Enter(w) ==
  /\ ~Busy
  /\ drag.phase = "offered"
  /\ drag' = [drag EXCEPT !.phase = "over"]
  /\ LET o == drag.offer
         fresh == EnterResets(o)
         target == IF Alive(w) /\ window[w].accept THEN w ELSE None
         s == session + 1
     IN
     /\ proxy' = IF fresh THEN [proxy EXCEPT ![dnd.offer] = "destroyed"]
                 ELSE proxy
     /\ selection' = IF fresh /\ selection = dnd.offer THEN None ELSE selection
     /\ dnd' = [offer |-> o, window |-> target, payload |-> FALSE,
                drop_pending |-> ~fresh /\ dnd.drop_pending,
                session |-> IF target = None THEN 0 ELSE s]
     /\ IF target = None
          THEN /\ async' = IF fresh THEN NoAsync ELSE async
               /\ UNCHANGED <<source, window, agenda, session>>
          ELSE /\ session' = s
               /\ window' = [window EXCEPT ![w].action = "copy",
                                           ![w].userdata = 0]
               /\ IF meta[o].uri
                    THEN /\ StartRead
                         /\ source' = "open"
                    ELSE /\ async' = IF fresh THEN NoAsync ELSE async
                         /\ UNCHANGED source
               /\ agenda' = <<Push([type |-> "enter", window |-> w,
                                    session |-> s, paths |-> FALSE])>>
  /\ UNCHANGED <<meta, frame, flush, opened, dropped>>

\* wl_data_offer.action: the compositor has chosen.
SelectAction(a) ==
  /\ ~Busy
  /\ drag.phase = "over"
  /\ drag.motions < MaxMotions
  /\ proxy[drag.offer] = "live"
  /\ a \in meta[drag.offer].offered
  /\ drag' = [drag EXCEPT !.motions = @ + 1]
  /\ meta' = [meta EXCEPT ![drag.offer].selected = a]
  /\ UNCHANGED <<proxy, dnd, async, source, selection, window, eventVars,
                 historyVars>>

\* wl_data_device.motion: the action is negotiated again and the list is read
\* again if the first read brought nothing.
Motion ==
  /\ ~Busy
  /\ drag.phase = "over"
  /\ drag.motions < MaxMotions
  /\ drag' = [drag EXCEPT !.motions = @ + 1]
  /\ LET w == dnd.window
         m == meta[dnd.offer]
         again == ~dnd.payload /\ async.fd = "closed" /\ m.uri
     IN  IF w = None \/ dnd.offer = None \/ ~window[w].accept
           THEN UNCHANGED <<async, source, window, agenda>>
           ELSE /\ window' = [window EXCEPT ![w].action =
                                IF m.selected = "none"
                                  THEN Negotiate(m.offered, @)
                                  ELSE m.selected]
                /\ IF again THEN StartRead ELSE UNCHANGED async
                /\ source' = IF again THEN "open" ELSE source
                /\ agenda' = <<Push(Event("hover", dnd.payload))>>
  /\ UNCHANGED <<proxy, meta, dnd, selection, frame, flush, historyVars>>

\* wl_data_device.leave
Leave ==
  /\ ~Busy
  /\ drag.phase = "over" \/ (LeaveAfterDrop /\ drag.phase = "dropped")
  /\ drag' = NoDrag
  /\ agenda' = (IF dnd.window = None THEN <<>>
                ELSE <<Push(Event("leave", FALSE))>>) \o <<Do("reset")>>
  /\ UNCHANGED <<handlerVars, frame, flush, historyVars>>

\* wl_data_device.drop: the drop waits for the list if it is being read.
Drop ==
  /\ ~Busy
  /\ drag.phase = "over"
  /\ drag' = [drag EXCEPT !.phase = "dropped"]
  /\ dropped' = dropped \union {drag.offer}
  /\ IF async.fd = "open"
       THEN /\ dnd' = [dnd EXCEPT !.drop_pending = TRUE]
            /\ async' = [async EXCEPT !.deadline = "running"]
            /\ UNCHANGED agenda
       ELSE /\ agenda' = Finalize
            /\ UNCHANGED <<dnd, async>>
  /\ UNCHANGED <<proxy, meta, source, selection, window, frame, flush,
                 session, opened>>

\* wl_data_device.selection, with the data_offer before it; no offer when the
\* clipboard becomes empty.
Selection(o) ==
  /\ ~Busy
  /\ o \in Offers => proxy[o] = "unused"
  /\ proxy' = [x \in Offers |->
                 CASE x = o                           -> "live"
                   [] x = selection /\ x # dnd.offer -> "destroyed"
                   [] OTHER                           -> proxy[x]]
  /\ selection' = o
  /\ UNCHANGED <<meta, dnd, async, source, window, eventVars, drag,
                 historyVars>>

\* wl_pointer.frame: no pointer events reach the client during a drag.
PointerFrame ==
  /\ ~Busy
  /\ drag.phase \in {"none", "dropped"}
  /\ frame # <<>>
  /\ flush' = 1
  /\ UNCHANGED <<handlerVars, frame, agenda, drag, historyVars>>

----------------------------------------------------------------------------
(* The read of the list and its deadline.                                  *)

\* The source writes its list, which may name no file, and closes the pipe.
SourceCloses(what) ==
  /\ async.fd = "open"
  /\ source = "open"
  /\ source' = what
  /\ UNCHANGED <<proxy, meta, dnd, async, selection, window, eventVars, drag,
                 historyVars>>

\* dnd_post_drop_timeout_ms have passed since the drop.
DeadlinePasses ==
  /\ async.deadline = "running"
  /\ async' = [async EXCEPT !.deadline = "passed"]
  /\ UNCHANGED <<proxy, meta, dnd, source, selection, window, eventVars, drag,
                 historyVars>>

\* _dnd_complete_async_read: a HOVER with the list, then the drop if one waits.
Complete(list) ==
  /\ async' = [async EXCEPT !.fd = "closed"]
  /\ dnd' = [dnd EXCEPT !.payload = list \/ @]
  /\ agenda' = (IF dnd.window # None /\ window[dnd.window].accept
                  THEN <<Push(Event("hover", list \/ dnd.payload))>>
                  ELSE <<>>) \o <<Do("maybeFinalize")>>
  /\ UNCHANGED <<proxy, meta, source, selection, window, frame, flush, drag,
                 historyVars>>

\* Mutant: the deadline is never looked at.
TimeOutNever == FALSE /\ Complete(FALSE)

\* _lvkw_wayland_dnd_process_async: the deadline.  The pump gets there when it
\* polls with a timeout, or when something wakes it.
TimeOut ==
  /\ ~Busy
  /\ Timed
  /\ async.fd = "open"
  /\ dnd.drop_pending
  /\ async.deadline = "passed"
  /\ Complete(FALSE)

\* _build_dnd_payload_from_uri_list: no list without a path in it.
PayloadFrom(what) == what = "files"

\* The pipe is at its end.
ReadEnd ==
  /\ ~Busy
  /\ async.fd = "open"
  /\ ~(dnd.drop_pending /\ async.deadline = "passed")
  /\ source # "open"
  /\ Complete(PayloadFrom(source))

\* read fails, or the buffer cannot grow.
ReadFails ==
  /\ ~Busy
  /\ async.fd = "open"
  /\ Complete(FALSE)

----------------------------------------------------------------------------
(* The rest of a handler.                                                  *)

\* Mutant: the last entry of the frame is not counted.
FrameIsFullLate == Len(frame) > FrameCap

FrameIsFull == Len(frame) >= FrameCap

\* _lvkw_wayland_push_event: a full frame is delivered first.
PushEvent ==
  /\ agenda # <<>>
  /\ flush = 0
  /\ Head(agenda).op = "push"
  /\ IF FrameIsFull
       THEN /\ flush' = 1
            /\ UNCHANGED <<frame, agenda>>
       ELSE /\ frame' = Append(frame, Head(agenda).event)
            /\ agenda' = Tail(agenda)
            /\ UNCHANGED flush
  /\ UNCHANGED <<handlerVars, drag, historyVars>>

\* The end of _dnd_complete_async_read.
MaybeFinalize ==
  /\ agenda # <<>>
  /\ flush = 0
  /\ Head(agenda).op = "maybeFinalize"
  /\ agenda' = (IF dnd.drop_pending THEN Finalize ELSE <<>>)
  /\ UNCHANGED <<handlerVars, frame, flush, drag, historyVars>>

\* wl_data_offer.finish on ctx->input.dnd.offer.
Finish ==
  /\ agenda # <<>>
  /\ flush = 0
  /\ Head(agenda).op = "finish"
  /\ agenda' = Tail(agenda)
  /\ UNCHANGED <<handlerVars, frame, flush, drag, historyVars>>

FinalReset ==
  /\ agenda # <<>>
  /\ flush = 0
  /\ Head(agenda).op = "reset"
  /\ Reset
  /\ agenda' = Tail(agenda)
  /\ UNCHANGED <<meta, source, window, frame, flush, drag, historyVars>>

----------------------------------------------------------------------------
(* The application.                                                        *)

\* Mutant: refusing drags leaves the drag in progress alone.
SetAcceptKeepsDrag(w, accept) ==
  /\ window[w].alive
  /\ window' = [window EXCEPT ![w].accept = accept]
  /\ UNCHANGED <<proxy, dnd, async, selection>>

\* lvkw_wnd_update with LVKW_WINDOW_ATTR_ACCEPT_DND: refusing ends the drag.
SetAccept(w, accept) ==
  /\ window[w].alive
  /\ window' = [window EXCEPT ![w].accept = accept]
  /\ IF ~accept /\ dnd.window = w
       THEN Reset
       ELSE UNCHANGED <<proxy, dnd, async, selection>>

\* lvkw_wnd_destroy
Destroy(w) ==
  /\ window[w].alive
  /\ window' = [window EXCEPT ![w].alive = FALSE]
  /\ IF dnd.window = w
       THEN Reset
       ELSE UNCHANGED <<proxy, dnd, async, selection>>

\* What a callback for event e does: nothing, answer a HOVER through its
\* feedback, refuse drags from now on, or destroy the window.  The first HOVER
\* of a session also stores the session's data.
React(e, reaction) ==
  LET w == e.window
      stored == IF e.type = "enter"
                  THEN [window EXCEPT ![w].userdata = e.session]
                  ELSE window
  IN  CASE reaction = "keep" \/ ~window[w].alive ->
             /\ window' = IF window[w].alive THEN stored ELSE window
             /\ UNCHANGED <<proxy, dnd, async, selection>>
        [] reaction \in {"accept", "reject"} /\ window[w].alive ->
             /\ window' = IF e.type \in {"enter", "hover"}
                            THEN [stored EXCEPT ![w].action =
                                    IF reaction = "accept" THEN "copy" ELSE "none"]
                            ELSE stored
             /\ UNCHANGED <<proxy, dnd, async, selection>>
        [] reaction = "refuse" /\ window[w].alive -> SetAccept(w, FALSE)
        [] reaction = "destroy" /\ window[w].alive -> Destroy(w)

\* One event of the frame reaches the callback (with the last, the frame is
\* empty again and SYNC follows).
Deliver(reaction) ==
  /\ flush > 0
  /\ LET e == frame[flush]
     IN  /\ React(e, reaction)
         /\ opened' = CASE e.type = "enter" ->
                               [opened EXCEPT ![e.window] = e.session]
                        [] e.type \in {"leave", "drop"} ->
                               [opened EXCEPT ![e.window] = 0]
                        [] e.type = "hover" -> opened
  /\ IF flush = Len(frame)
       THEN frame' = <<>> /\ flush' = 0
       ELSE frame' = frame /\ flush' = flush + 1
  /\ UNCHANGED <<meta, source, agenda, drag, session, dropped>>

AppUpdates(w, accept) ==
  /\ ~Busy
  /\ SetAccept(w, accept)
  /\ UNCHANGED <<meta, source, eventVars, drag, historyVars>>

AppDestroys(w) ==
  /\ ~Busy
  /\ Destroys
  /\ Destroy(w)
  /\ UNCHANGED <<meta, source, eventVars, drag, historyVars>>

----------------------------------------------------------------------------
Init ==
  /\ proxy = [o \in Offers |-> "unused"]
  /\ meta = [o \in Offers |->
               [uri |-> FALSE, offered |-> {}, selected |-> "none"]]
  /\ dnd = NoDnd
  /\ async = NoAsync
  /\ source = "open"
  /\ selection = None
  /\ window = [w \in Windows |-> [alive |-> TRUE, accept |-> TRUE,
                                  action |-> "none", userdata |-> 0]]
  /\ frame = <<>>
  /\ flush = 0
  /\ agenda = <<>>
  /\ drag = NoDrag
  /\ session = 0
  /\ opened = [w \in Windows |-> 0]
  /\ dropped = {}

CompositorStep ==
  \/ \E o \in Offers, uri \in BOOLEAN, offered \in {{"copy"}, {"move"}} :
       DataOffer(o, uri, offered)
  \/ \E w \in Windows \union {None} : Enter(w)
  \/ \E a \in Actions : SelectAction(a)
  \/ Motion
  \/ Leave
  \/ Drop
  \/ \E o \in Offers \union {None} : Selection(o)
  \/ PointerFrame

\* What the primary thread does once it is in the pump.
PumpStep ==
  \/ TimeOut
  \/ ReadEnd
  \/ PushEvent
  \/ MaybeFinalize
  \/ Finish
  \/ FinalReset
  \/ \E reaction \in Reactions : Deliver(reaction)

Next ==
  \/ CompositorStep
  \/ PumpStep
  \/ ReadFails
  \/ \E what \in {"files", "nothing"} : SourceCloses(what)
  \/ DeadlinePasses
  \/ \E w \in Windows, accept \in Updates : AppUpdates(w, accept)
  \/ \E w \in Windows : AppDestroys(w)

Spec == Init /\ [][Next]_vars

\* The application pumps and time passes.  Neither the compositor nor the
\* source of the drag owes anything.
FairSpec == Spec /\ WF_vars(PumpStep) /\ WF_vars(DeadlinePasses)

----------------------------------------------------------------------------
Events == [type : {"enter", "hover", "leave", "drop"}, window : Windows,
           session : Nat, paths : BOOLEAN]

TypeOK ==
  /\ proxy \in [Offers -> {"unused", "live", "destroyed"}]
  /\ meta \in [Offers -> [uri : BOOLEAN, offered : SUBSET Actions,
                          selected : Actions]]
  /\ dnd \in [offer : Offers \union {None}, window : Windows \union {None},
              payload : BOOLEAN, drop_pending : BOOLEAN, session : Nat]
  /\ async \in [fd : {"open", "closed"},
                deadline : {"none", "running", "passed"}]
  /\ source \in {"open", "files", "nothing"}
  /\ selection \in Offers \union {None}
  /\ window \in [Windows -> [alive : BOOLEAN, accept : BOOLEAN,
                             action : Actions, userdata : Nat]]
  /\ frame \in Seq(Events)
  /\ Len(frame) <= FrameCap
  /\ flush \in 0 .. Len(frame)
  /\ \A k \in DOMAIN agenda :
       \/ agenda[k].op \in {"finish", "reset", "maybeFinalize"}
       \/ agenda[k].op = "push" /\ agenda[k].event \in Events
  /\ drag \in [phase : {"none", "offered", "over", "dropped"},
               offer : Offers \union {None}, motions : 0 .. MaxMotions]
  /\ session \in Nat
  /\ opened \in [Windows -> Nat]
  /\ dropped \subseteq Offers

\* Memory: every offer the handlers can still reach is live.
OffersAreLive ==
  /\ dnd.offer # None => proxy[dnd.offer] = "live"
  /\ selection # None => proxy[selection] = "live"

\* Memory: every live offer is still reachable, so that something destroys it:
\* it is the drag's or the clipboard's, or the compositor has just named it.
NoOfferIsLeaked ==
  \A o \in Offers :
    proxy[o] = "live" =>
      o \in {dnd.offer, selection} \/ (drag.phase = "offered" /\ drag.offer = o)

\* A pipe that is being read belongs to the drag over an accepting window, and
\* a drop waits only while a pipe is read: whatever ends the drag, nothing is
\* left that would later complete a drop for another drag.
ReadBelongsToDrag ==
  /\ async.fd = "open" => dnd.offer # None /\ dnd.window # None
  /\ dnd.drop_pending /\ ~Busy => async.fd = "open"
  /\ dnd.window # None => window[dnd.window].alive /\ window[dnd.window].accept

\* Offers and pipes belong to a drag or to the selection for as long as they
\* live, and are not used longer.
OffersAreOwned ==
  /\ TypeOK
  /\ OffersAreLive
  /\ NoOfferIsLeaked
  /\ ReadBelongsToDrag

\* The event the callback is about to see.
Seen == frame[flush]

\* A HOVER, LEAVE or DROP is delivered only between the first HOVER of its
\* session and its end; a DROP ends a session, no LEAVE follows it.
NoOrphanEvents ==
  flush > 0 /\ Seen.type # "enter" => opened[Seen.window] = Seen.session

\* finish names an offer the compositor has dropped (or none): on a drag that
\* is still moving it is a protocol error, which ends the connection.  The wait
\* for the list must therefore not outlive the drag it belongs to.
FinishIsLegal ==
  agenda # <<>> /\ Head(agenda).op = "finish" =>
    dnd.offer \in dropped \union {None}

\* And it names one.  The code violates this: the offer is read again after the
\* drop was pushed, and a full frame lets callbacks end the drag meanwhile.
FinishHasOffer ==
  agenda # <<>> /\ Head(agenda).op = "finish" => dnd.offer # None

\* "A DND operation is a sequence of events (HOVER... HOVER... DROP or LEAVE)"
\* (docs/user_guide/events_and_input.md): a session begins only once the
\* previous one of the window has ended.
SessionsEnd ==
  flush > 0 /\ Seen.type = "enter" => opened[Seen.window] = 0

\* Progress: a drop ends whether or not its list arrives, if the application
\* pumps with a timeout ("How long to wait
\* after a dnd drop before giving up on receiving the payload",
\* include/lvkw/c/context.h).
DropGivesUp == dnd.drop_pending ~> ~dnd.drop_pending

=============================================================================
