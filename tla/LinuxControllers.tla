-------------------------- MODULE LinuxControllers --------------------------
(***************************************************************************)
(* Game controllers on Linux (linux/controller/controller_linux.c): the    *)
(* scan of /dev/input when the context is created, the hotplug             *)
(* notifications of inotify, the devices that are read in every round of   *)
(* the pump, and the controllers the application is told about.            *)
(*                                                                         *)
(* A pad is one plugging in of a piece of hardware, with a node of its own *)
(* under a name that a later pad may get again.  udev opens the node to    *)
(* users some time after it appears.  One device record stands for one     *)
(* open node, one controller for what the application sees of it, which    *)
(* outlives the device.  Axes and the hat are read like buttons and left   *)
(* out.  IN_DELETE notifications are ignored by the code and left out.     *)
(* The allocation of dev->path is taken to succeed.                        *)
(***************************************************************************)
EXTENDS Naturals, FiniteSets, Sequences, SequencesExt

CONSTANTS
  Pads,           \* every plugging in of a behaviour
  Names,          \* names of nodes in /dev/input
  None,
  Buttons,
  BufferCap,      \* input events the kernel keeps for a reader
  MaxPresses,     \* bound: changes of buttons in a behaviour
  AllocMayFail    \* the allocation of a controller may fail

ASSUME ControllerAssumption ==
  /\ None \notin Names
  /\ IsFiniteSet(Pads)
  /\ BufferCap \in Nat \ {0}
  /\ MaxPresses \in Nat
  /\ AllocMayFail \in BOOLEAN

VARIABLES
  pads,       \* the hardware: phase, name, readable, gamepad
  held,       \* the buttons held down on each pad
  presses,    \* changes of buttons so far
  buffer,     \* the input events of each pad not yet read
  inotify,    \* the names in the notifications not yet read
  scan,       \* the names readdir has still to return
  stage,      \* "scan", "idle", "inotify", "open", "walk", "callback"
  back,       \* what the callback or the open returns to, "none" outside
  opening,    \* the path of _add_device, None outside
  devices,    \* ctrl_ctx->devices: id, path and (for the descriptor) pad
  i,          \* the position of curr in devices
  leaving,    \* the id of the device in _remove_device, 0 outside
  ctrl,       \* the controllers by id: lost, buttons, and what was told of it
  next_id,    \* ctrl_ctx->next_id
  denied,     \* history: pads given up because an allocation failed
  shadowed,   \* history: pads plugged in under the path of a listed device
  unknown     \* history: buttons of a pad whose last change was never sent

worldVars == <<pads, held, presses, inotify, scan>>
walkVars == <<i, leaving>>
historyVars == <<denied, shadowed, unknown>>
controllerVars == <<worldVars, buffer, stage, back, opening, devices, walkVars,
                    ctrl, next_id, historyVars>>

Away == [phase |-> "away", name |-> None, readable |-> FALSE, gamepad |-> FALSE]
Present(p) == pads[p].phase = "present"
PadAt(name) == {p \in Pads : Present(p) /\ pads[p].name = name}

\* The directory is being read.
Scanning == "scan" \in {stage, back}

Opened(p) == \E k \in DOMAIN devices : devices[k].pad = p
Listed(path) == \E k \in DOMAIN devices : devices[k].path = path

----------------------------------------------------------------------------
(* The hardware, the kernel and udev (external).                           *)

\* Mutant: the watch is added only after the directory has been read.
NotifyOnceScanned(name) ==
  inotify' = IF stage = "scan" THEN inotify ELSE Append(inotify, name)

\* The watch on /dev/input exists before the directory is read.
Notify(name) == inotify' = Append(inotify, name)

\* A node appears, closed to users.  A directory being read may show it.
Plug(p, name, gamepad) ==
  /\ pads[p].phase = "away"
  /\ PadAt(name) = {}
  /\ pads' = [pads EXCEPT ![p] = [phase |-> "present", name |-> name,
                                  readable |-> FALSE, gamepad |-> gamepad]]
  /\ scan' \in IF Scanning THEN {scan, scan \union {name}} ELSE {scan}
  /\ Notify(name)
  /\ shadowed' = IF Listed(name) THEN shadowed \union {p} ELSE shadowed
  /\ UNCHANGED <<held, presses, buffer, stage, back, opening, devices, walkVars,
                 ctrl, next_id, denied, unknown>>

\* udev opens the node to users: IN_ATTRIB.
Permit(p) ==
  /\ Present(p)
  /\ ~pads[p].readable
  /\ pads' = [pads EXCEPT ![p].readable = TRUE]
  /\ Notify(pads[p].name)
  /\ UNCHANGED <<held, presses, scan, buffer, stage, back, opening, devices,
                 walkVars, ctrl, next_id, historyVars>>

Unplug(p) ==
  /\ Present(p)
  /\ pads' = [pads EXCEPT ![p] = [Away EXCEPT !.phase = "gone"]]
  /\ held' = [held EXCEPT ![p] = {}]
  /\ buffer' = [buffer EXCEPT ![p] = <<>>]
  /\ UNCHANGED <<presses, inotify, scan, stage, back, opening, devices,
                 walkVars, ctrl, next_id, historyVars>>

\* A button goes down or up.  A full buffer is emptied but for the newest event
\* (and SYN_DROPPED, which the code does not look at).
Press(p, b) ==
  /\ Present(p)
  /\ pads[p].gamepad
  /\ presses < MaxPresses
  /\ presses' = presses + 1
  /\ held' = [held EXCEPT ![p] = IF b \in @ THEN @ \ {b} ELSE @ \union {b}]
  /\ LET event == [button |-> b, down |-> b \notin held[p]]
         full == Len(buffer[p]) = BufferCap
         lost == IF full THEN {buffer[p][k].button : k \in DOMAIN buffer[p]}
                         ELSE {}
     IN  IF Opened(p)
           THEN /\ buffer' = [buffer EXCEPT ![p] =
                                IF full THEN <<event>> ELSE Append(@, event)]
                /\ unknown' = [unknown EXCEPT ![p] = (@ \union lost) \ {b}]
           ELSE UNCHANGED <<buffer, unknown>>
  /\ UNCHANGED <<pads, inotify, scan, stage, back, opening, devices, walkVars,
                 ctrl, next_id, denied, shadowed>>

----------------------------------------------------------------------------
(* _add_device                                                             *)

\* A path that is listed is left alone.
AddDevice(path, from) ==
  IF Listed(path)
    THEN UNCHANGED <<stage, back, opening>>
    ELSE /\ stage' = "open"
         /\ back' = from
         /\ opening' = path

Returned ==
  /\ stage' = back
  /\ back' = "none"
  /\ opening' = None

Readable(p) == pads[p].readable

\* open() fails five times within 50 ms.
OpenFails ==
  /\ stage = "open"
  /\ \A p \in PadAt(opening) : ~Readable(p)
  /\ Returned
  /\ UNCHANGED <<worldVars, buffer, devices, walkVars, ctrl, next_id,
                 historyVars>>

\* The node is not that of a gamepad: it is closed again.
OpenOther ==
  /\ stage = "open"
  /\ \E p \in PadAt(opening) : Readable(p) /\ ~pads[p].gamepad
  /\ Returned
  /\ UNCHANGED <<worldVars, buffer, devices, walkVars, ctrl, next_id,
                 historyVars>>

\* The device and its controller are linked in front, the connection is
\* reported and the callback runs.
OpenGamepad ==
  /\ stage = "open"
  /\ \E p \in PadAt(opening) :
       /\ Readable(p)
       /\ pads[p].gamepad
       /\ devices' = <<[id |-> next_id + 1, path |-> opening, pad |-> p]>>
                       \o devices
       /\ unknown' = [unknown EXCEPT ![p] = held[p]]
  /\ next_id' = next_id + 1
  /\ ctrl' = Append(ctrl, [lost |-> FALSE, buttons |-> {},
                           told |-> "connected"])
  /\ stage' = "callback"
  /\ opening' = None
  /\ UNCHANGED <<worldVars, buffer, back, walkVars, denied, shadowed>>

\* The controller cannot be allocated: the device is removed again, and a
\* disconnection without a controller is reported.  The id is used up; nothing
\* will be listed under it.
OpenWithoutMemory ==
  /\ AllocMayFail
  /\ stage = "open"
  /\ \E p \in PadAt(opening) :
       /\ Readable(p)
       /\ pads[p].gamepad
       /\ denied' = denied \union {p}
  /\ next_id' = next_id + 1
  /\ ctrl' = Append(ctrl, [lost |-> TRUE, buttons |-> {}, told |-> "nothing"])
  /\ stage' = "callback"
  /\ opening' = None
  /\ UNCHANGED <<worldVars, buffer, back, devices, walkVars, shadowed, unknown>>

----------------------------------------------------------------------------
(* _lvkw_ctrl_init_context_Linux and _lvkw_ctrl_poll_Linux                 *)

ScanEntry(name) ==
  /\ stage = "scan"
  /\ name \in scan
  /\ scan' = scan \ {name}
  /\ AddDevice(name, "scan")
  /\ UNCHANGED <<pads, held, presses, inotify, buffer, devices, walkVars, ctrl,
                 next_id, historyVars>>

EndScan ==
  /\ stage = "scan"
  /\ scan = {}
  /\ stage' = "idle"
  /\ UNCHANGED <<worldVars, buffer, back, opening, devices, walkVars, ctrl,
                 next_id, historyVars>>

Poll ==
  /\ stage = "idle"
  /\ stage' = "inotify"
  /\ UNCHANGED <<worldVars, buffer, back, opening, devices, walkVars, ctrl,
                 next_id, historyVars>>

ReadNotification ==
  /\ stage = "inotify"
  /\ inotify # <<>>
  /\ inotify' = Tail(inotify)
  /\ AddDevice(Head(inotify), "inotify")
  /\ UNCHANGED <<pads, held, presses, scan, buffer, devices, walkVars, ctrl,
                 next_id, historyVars>>

BeginWalk ==
  /\ stage = "inotify"
  /\ inotify = <<>>
  /\ stage' = "walk"
  /\ UNCHANGED <<worldVars, buffer, back, opening, devices, walkVars, ctrl,
                 next_id, historyVars>>

\* Mutant: the release of a button is not recorded.
ApplyPresses(down, event) ==
  IF event.down THEN down \union {event.button} ELSE down

\* buttons_backing after one input event.
Apply(down, event) ==
  IF event.down THEN down \union {event.button} ELSE down \ {event.button}

\* The same after a sequence of them.
Replay(down, events) ==
  LET after[n \in 0 .. Len(events)] ==
        IF n = 0 THEN down ELSE Apply(after[n - 1], events[n])
  IN  after[Len(events)]

Current == devices[i]

\* _process_device_events reads until EAGAIN.
ReadDevice ==
  /\ stage = "walk"
  /\ i <= Len(devices)
  /\ Present(Current.pad)
  /\ ctrl' = [ctrl EXCEPT ![Current.id].buttons =
                Replay(@, buffer[Current.pad])]
  /\ buffer' = [buffer EXCEPT ![Current.pad] = <<>>]
  /\ i' = i + 1
  /\ UNCHANGED <<worldVars, stage, back, opening, devices, leaving, next_id,
                 historyVars>>

\* Mutant: the walk advances although the list has become shorter.
RemoveDeviceAdvances ==
  /\ stage = "walk"
  /\ i <= Len(devices)
  /\ ~Present(Current.pad)
  /\ devices' = RemoveAt(devices, i)
  /\ i' = i + 1
  /\ ctrl' = [ctrl EXCEPT ![Current.id].told = "disconnected"]
  /\ leaving' = Current.id
  /\ stage' = "callback"
  /\ back' = "walk"
  /\ UNCHANGED <<worldVars, buffer, opening, next_id, historyVars>>

\* Mutant: a failed read is taken for an empty one.
RemoveDeviceNever ==
  /\ stage = "walk"
  /\ i <= Len(devices)
  /\ ~Present(Current.pad)
  /\ i' = i + 1
  /\ UNCHANGED <<worldVars, buffer, stage, back, opening, devices, leaving,
                 ctrl, next_id, historyVars>>

\* The read fails with ENODEV: _remove_device unlinks the device, reports the
\* disconnection and the callback runs.
RemoveDevice ==
  /\ stage = "walk"
  /\ i <= Len(devices)
  /\ ~Present(Current.pad)
  /\ devices' = RemoveAt(devices, i)
  /\ ctrl' = [ctrl EXCEPT ![Current.id].told = "disconnected"]
  /\ leaving' = Current.id
  /\ stage' = "callback"
  /\ back' = "walk"
  /\ UNCHANGED <<worldVars, buffer, opening, i, next_id, historyVars>>

\* Mutant: the controller is not marked.
CallbackReturnsUnmarked ==
  /\ stage = "callback"
  /\ leaving' = 0
  /\ Returned
  /\ UNCHANGED <<worldVars, buffer, devices, i, ctrl, next_id, historyVars>>

\* The callback returns; the rest of _remove_device marks the controller lost.
CallbackReturns ==
  /\ stage = "callback"
  /\ ctrl' = IF leaving = 0 THEN ctrl ELSE [ctrl EXCEPT ![leaving].lost = TRUE]
  /\ leaving' = 0
  /\ Returned
  /\ UNCHANGED <<worldVars, buffer, devices, i, next_id, historyVars>>

EndWalk ==
  /\ stage = "walk"
  /\ i > Len(devices)
  /\ stage' = "idle"
  /\ i' = 1
  /\ UNCHANGED <<worldVars, buffer, back, opening, devices, leaving, ctrl,
                 next_id, historyVars>>

----------------------------------------------------------------------------
\* Pads may be there before the context is.
ControllersInit ==
  /\ \E there \in SUBSET Pads :
       \E name \in [there -> Names] :
         /\ \A p, q \in there : name[p] = name[q] => p = q
         /\ pads = [p \in Pads |->
                      IF p \in there
                        THEN [phase |-> "present", name |-> name[p],
                              readable |-> TRUE, gamepad |-> TRUE]
                        ELSE Away]
         /\ scan = {name[p] : p \in there}
  /\ held = [p \in Pads |-> {}]
  /\ presses = 0
  /\ buffer = [p \in Pads |-> <<>>]
  /\ inotify = <<>>
  /\ stage = "scan"
  /\ back = "none"
  /\ opening = None
  /\ devices = <<>>
  /\ i = 1
  /\ leaving = 0
  /\ ctrl = <<>>
  /\ next_id = 0
  /\ denied = {}
  /\ shadowed = {}
  /\ unknown = [p \in Pads |-> {}]

ControllersStep ==
  \/ \E name \in Names : ScanEntry(name)
  \/ EndScan
  \/ Poll
  \/ ReadNotification
  \/ BeginWalk
  \/ OpenFails
  \/ OpenOther
  \/ OpenGamepad
  \/ OpenWithoutMemory
  \/ ReadDevice
  \/ RemoveDevice
  \/ CallbackReturns
  \/ EndWalk

WorldStep ==
  \/ \E p \in Pads, name \in Names, gamepad \in BOOLEAN : Plug(p, name, gamepad)
  \/ \E p \in Pads : Permit(p) \/ Unplug(p)
  \/ \E p \in Pads, b \in Buttons : Press(p, b)

ControllersNext == ControllersStep \/ WorldStep

ControllersSpec == ControllersInit /\ [][ControllersNext]_controllerVars

\* The application creates its context and pumps again and again.
ControllersFairSpec == ControllersSpec /\ WF_controllerVars(ControllersStep)

----------------------------------------------------------------------------
Ids == 1 .. next_id

ControllersTypeOK ==
  /\ pads \in [Pads -> [phase : {"away", "present", "gone"},
                        name : Names \union {None}, readable : BOOLEAN,
                        gamepad : BOOLEAN]]
  /\ held \in [Pads -> SUBSET Buttons]
  /\ presses \in 0 .. MaxPresses
  /\ \A p \in Pads :
       /\ buffer[p] \in Seq([button : Buttons, down : BOOLEAN])
       /\ Len(buffer[p]) <= BufferCap
  /\ inotify \in Seq(Names)
  /\ scan \subseteq Names
  /\ stage \in {"scan", "idle", "inotify", "open", "walk", "callback"}
  /\ back \in {"none", "scan", "inotify", "walk"}
  /\ opening \in Names \union {None}
  /\ devices \in Seq([id : Ids, path : Names, pad : Pads])
  /\ i \in Nat
  /\ stage = "walk" => i <= Len(devices) + 1
  /\ next_id \in Nat
  /\ leaving \in Ids \union {0}
  /\ ctrl \in [Ids -> [lost : BOOLEAN, buttons : SUBSET Buttons,
                       told : {"nothing", "connected", "disconnected"}]]
  /\ denied \subseteq Pads
  /\ shadowed \subseteq Pads
  /\ unknown \in [Pads -> SUBSET Buttons]

\* What lvkw_input_listControllers returns, what the events have told and the
\* descriptors that are open agree whenever the pump returns, however plugging
\* in, allocation failures and callbacks interleave: an application that keeps
\* its own list from the events has neither a dead entry nor a missing one.
ReportsMatchList ==
  /\ ControllersTypeOK
  /\ stage = "idle" => \A c \in Ids :
       /\ ~ctrl[c].lost <=> \E k \in DOMAIN devices : devices[k].id = c
       /\ ~ctrl[c].lost <=> ctrl[c].told = "connected"

\* The buttons of a controller, with the events its device has still to read,
\* are those of the pad behind it, and not those of the pad that had its name
\* before.  Only buttons held when the device was opened, or whose events the
\* kernel dropped, may differ.
ButtonsFollow ==
  \A k \in DOMAIN devices :
    LET d == devices[k]
        seen == Replay(ctrl[d.id].buttons, buffer[d.pad])
    IN  Present(d.pad) =>
          \A b \in Buttons \ unknown[d.pad] : b \in seen <=> b \in held[d.pad]

\* A pad that can be opened.
Waiting(p) == Present(p) /\ Readable(p) /\ pads[p].gamepad

\* Progress: a gamepad is found whether it was there before the context, came
\* while the directory was read or later, and whichever of the notification
\* and the permission came first; see EveryPadIsFound for the exception.
PadIsFound ==
  \A p \in Pads :
    Waiting(p) ~> Opened(p) \/ ~Present(p) \/ p \in denied \union shadowed

\* Progress: the end of a controller is reported.
RemovalIsReported ==
  \A p \in Pads : Opened(p) /\ ~Present(p) ~> ~Opened(p)

\* Both: the controllers come and go with their pads.
PadsAreFollowed == PadIsFound /\ RemovalIsReported

\* "This event fires when a controller is plugged in or removed" (docs/
\* user_guide/controller.md), also when it is unplugged and plugged in again
\* between two pumps.
EveryPadIsFound ==
  \A p \in Pads : Waiting(p) ~> Opened(p) \/ ~Present(p) \/ p \in denied
=============================================================================
