# A verification development for LVKW

LVKW is a C library for windows, input and Vulkan surfaces: one thread creates a
context, opens windows on it and calls `lvkw_events_pump`; the library talks to
the window system and calls the application back. This directory holds TLA+
models of the parts of it where something can go wrong that a unit test would
hardly reach, TLC configurations that check them on small instances, and TLAPS
proofs that hold for every instance. Paths below are relative to the root of the
repository; the library's own code is in `src/lvkw`.

    tlc -workers 2 -config MCWaylandSeat.cfg MCWaylandSeat.tla
    tlapm EventRingProofs.tla

`PROJECT.json` maps each definition to the lines it stands for, and lists the
runs, the mutants that show each property to be able to fail, the hazards and
the theorems.

## 1. The system

    application thread(s)       compositor or X server, kernel, other clients
          | lvkw_events_post                    | messages      | descriptors
          v                                     v               v
    [notification ring] --drain--> [pump: prepare_read, poll, read, dispatch]
                                         |            |              |
                             handlers of seat, text   |    transfers, drop reads,
                             input, data device,      |    controllers
                             windows, outputs         v
                                   \-----> [pending frame] --flush--> callback

A context has one primary thread. Only `lvkw_events_post` may be called from
others. A handler may call the application back in the middle of its work, and
the callback may call the library again: nothing is concurrent on the primary
thread, and yet steps of the application fall between those of a handler.

| Component | Files | State | Operations | What is hard | What makes it correct |
|---|---|---|---|---|---|
| Notification ring | `common/context/context.c` | head, tail, reserve_tail, slots | post (any thread), drain, mask | lock-free, wrapping counters, order of loads, drains inside callbacks | nothing unread is overwritten, no slot has two writers, a FIFO until a callback pumps, posts return |
| Wayland pump | `linux/wayland/wayland_events.c`, `wayland_display.c` | prepared read, time left, pending frame, wake_fd | pump, push_event, dispatch frame, error check | several readers of one socket, signals, limits, loss | reads paired, no sleep over work, calls return, loss told |
| Asynchronous transfers | `linux/wayland/wayland_misc.c` | list of transfers, their pipes, poll results | pullDataAsync, poll, walk | callbacks pull while the list is walked | nothing freed is reached, each pull reported once |
| Drag and drop | `wayland_input.c`, `wayland_events.c`, `wayland_window.c` | offer, window, read, drop_pending, selection | data device handlers, finalize, time-out, refuse, destroy | ends from five sides, callbacks inside the end | offers live and not leaked, sessions well-formed |
| Controllers | `linux/controller/controller_linux.c` | list of devices, controllers, inotify | scan, hotplug, read, remove | names are reused, permissions come late | list, events and open nodes agree, pads are found |
| Seat | `wayland_input.c`, `wayland_window.c` | keyboard, pointer, focuses, locks | enter, leave, key, capabilities, cursor mode | two protocols set one focus, windows die | focus is live and the compositor's, locks follow |
| Text input | `wayland_input.c` | pending preedit, commit, deletion | the six handlers, enable/disable | parts count at done, callbacks in between | each committed text reaches the window that has the text focus |
| Selections | `wayland_misc.c`, `wayland_input.c` | offers, mime caches, sources | query, blocking read, push, serve | blocking read with a limit, lost ownership | no offer leaked, limit kept |
| Wayland windows | `wayland_window.c` | size, limits, scale, states, role | create, configure (xdg, libdecor), update, destroy | configures cross requests, callbacks update and destroy | geometry told, states the compositor's, ready once configured |
| Monitors, registry | `wayland_monitor.c`, `wayland_context.c` | list of outputs, bound globals | announce, mode, remove, start-up | removal before announcement | connection events match the list |
| X11 windows | `linux/x11/x11_window.c`, `x11_events.c` | size, states, cursor mode, locked_window | create, update, lock, destroy, the handlers of their events | requests cross the window manager's changes, one grab for all | a settled window is the server's, a grab has an owner |
| X11 clipboard | `x11_window.c` | owner window, owned types, a property per window | five calls, a wait that pumps | calls nest, answers come late | own answers, owner known |
| X11 monitors | `x11_context.c` | list of monitors, LOST flags | update after RandR, enumerate | an update inside the callback of another | list is the server's, losses and modes told |
| X11 pump | `x11_events.c` | wake pipe, pointer, idle state | pump, motion, buttons, raw motion | as on Wayland | as on Wayland |
| Other | see `PROJECT.json` | | | | |

The macOS and Windows back ends are a first implementation and stubs. The
string cache, the transient pool, the keymap and the cursor tables are
sequential and small. Vendored and generated code is not modelled; libwayland,
the compositor, the kernel, udev, sources of data and the input method appear as
*external* definitions, taken from how the library uses them.

## 2. Modules

| Module | Models | Lines of code |
|---|---|---|
| `EventQueue` | what the ring promises: a bounded FIFO queue | - |
| `EventRing` | `lvkw_events_post`, push, `dispatch_all`, mask update | `context.c` 84-141, 164-183, 233-255 |
| `EventRingProofs` | theorems about `EventRing` | - |
| `WaylandPump` | `lvkw_ctx_pumpEvents_WL`, the pending frame, loss | `wayland_events.c` 18-180, `wayland_display.c` |
| `PumpProofs` | theorems about `WaylandPump` and `LinuxControllers` | - |
| `AsyncTransfers` | pullDataAsync, poll descriptors, the walk | `wayland_misc.c` 440-625 |
| `AsyncTransfersProofs` | theorems about `AsyncTransfers` | - |
| `WaylandDnd` | the data device, reads, drops, the frame | `wayland_input.c` 455-1000 and the window's part |
| `WaylandDndProofs` | theorems about `WaylandDnd` | - |
| `LinuxControllers` | scan, hotplug, reading, removal | `controller_linux.c` |
| `WaylandSeat` | focus, keys, text input, locks, capabilities, windows | `wayland_input.c` 54-391, 1141-1165, 1347-1466 |
| `WaylandSeatProofs` | theorems about `WaylandSeat` | - |
| `SizeConstraints` | limits, ratios and their rounding | `wayland_window.c` 561-648 |
| `WaylandWindow` | creation, configures, updates, scale, destruction | `wayland_window.c` 45-393, 523-922, 953-1275 |
| `WaylandWindowProofs` | theorems about `WaylandWindow` | - |
| `X11Window` | windows, their states, cursor lock and events | `x11_window.c` 76-221, 331-461, 530-662, `x11_events.c` 119-305 |
| `X11WindowProofs` | theorems about `X11Window` | - |
| `X11Clipboard` | writing and reading the selection | `x11_window.c` 765-1049 |
| `X11Monitors` | the update of the monitor list, enumeration | `x11_context.c` 73-212, 486-516 |
| `X11ServerProofs` | theorems about `X11Monitors` and `X11Clipboard` | - |
| `MC...` | the instances TLC checks | - |

Conventions. A variable is named after the field it stands for. One action is
one handler or API call, up to the next place where somebody else can act: an
access to shared memory in the ring, a callback elsewhere. A handler that calls
back in its middle keeps what it has still to do in `agenda` (`WaylandDnd`,
`WaylandSeat`, `WaylandWindow`, `X11Window`), in `pc` (`AsyncTransfers`) or
`stage` (`LinuxControllers`), or in a stack of the calls that are open (`reads`,
`updates`). What a callback does is an input of the step that calls it
(`reaction`, `Acts`) or, in the X11 modules, whose callbacks may pump, any step
of the application and of other handlers until it returns. History
variables are marked as such in their declaration. A definition under a comment
that begins with "Mutant:" is a plausible bug, never part of the specification.

**EventRing.** The three counters are `uint32_t` and only incremented, so they
are modelled by the number of increments, and `U32` takes the 32-bit view
wherever the code computes with the stored value: the difference tested against
the capacity, the index, the compare-and-swap, the spin. The relaxed load of
`reserve_tail` and the load of `head` behind it may execute in either order
(`LoadReserveTail`, `LoadHead`). `NoStallAcrossWrap` is the assumption every
algorithm of this kind makes: no thread sleeps between its loads and its
compare-and-swap while others reserve 2^32 slots, nor a callback of the pump. A
callback is one step with the read of its slot; what it calls are the steps of
`Primary` that follow, and one of these may be another drain, as in the clipboard
of X11: nothing in `dispatch_all` forbids it. `depth`, `cur` and `stop` are the
drains that are open and their locals. The inner drain starts at the head the outer
has not moved yet, and the outer stores its own over that of the inner when it ends.
A drain that reads a slot for the second time may find another thread filling it
(`Readable`). `taken` is history: how far any drain has read.

**WaylandPump.** The ring is reduced to its length. A message is known by what
its handler does to the pending frame. The time a call has lasted is a phase
(`expired`), not a number: a limit of 2^31 ms or more (`"huge"`) may become a
negative poll timeout, as the cast in the code lets it. `OtherRead` is the
Vulkan driver reading the same display.

**AsyncTransfers.** The list is the code's: `link` maps `"head"` and each
transfer to its successor, and the walk holds a link and an index into the array
poll has filled, as the code does. The index is not advanced when a transfer is
removed; entries past the array are whatever was there (`Observed`).

**WaylandDnd.** Offers are named objects that are created, used and destroyed.
An event pushed into a full frame first delivers the frame, so a callback can
refuse the drag or destroy the window inside any handler. `opened` and `session`
number what a window has been told.

**LinuxControllers.** A pad is one plugging in of hardware, with a node under a
name a later pad may get. A device record stands for an open node, a controller
for what the application keeps of it. The walk's position is an index into the
list, moved as the code moves `curr`.

**WaylandSeat.** The compositor's three focuses and whether it has text input
enabled are in `comp`; the library's view is in `keyboard_focus` and
`pointer_focus`. A message may name a window that died while it was under way:
libwayland passes NULL for its surface. `session` is history: whether the input
method shows a preedit, how many texts it has committed since the text focus came
and how many the window was told, and which windows show a composition. `pending`
is what the code keeps between the messages of one done: of each text its length
and a pointer into a message that is freed by the time the done reads it, so that
the callback may read the text or something else (`Read`). What a window shows
changes only by the events it is told; whether it shows a composition the code, and
so the model, reads off the pending preedit, which each done clears.

**SizeConstraints, WaylandWindow.** `win` is the window, `comp` what the
compositor has made of it and what it was asked for, `wire` the configures under
way, `told` what the application knows. A configure of xdg-shell is the toplevel's
parts (`maximized`, `states`, `size`) followed by the surface's; libdecor has a
`frame` and a last event. Limits, ratios and roundings are those of the code, in
whole numbers; the size is fitted before an event and clamped after it, which is
why `Constrain` and `ClampFinally` are two parts. A destroyed window whose handler
goes on is `reached`; what happens to freed memory is not modelled, and no property
of a run says that it is not reached, because it is (`MCWaylandWindowFreed.cfg`).

**X11Window.** `server` is the window as the X server and the window manager
have it, `asked` what they have still to answer; `queue` holds the events between
them and the library. A property event says nothing but that a state changed: the
handler reads it as it is by then. A size is its width, and `Pixels` and `Logical`
round as the two conversions do. `grab` is the server's, `locked` the context's.
The branch of every mode but locked (`Unlock`) releases the grab whoever has it, also
for a change between normal and hidden and in a creation. A size that the application
sets counts as told, without an event. Hidden mode defines the same cursor as normal
mode, so the model does not tell the two apart but by their names.

**X11Clipboard.** Conversions are numbered, and a property holds the conversion
it answers: the code cannot tell them apart, the model can. A read is deleted
property, request, and a wait during which everything else may happen; reads
nest as the callbacks of the waits do. The second of a time-out is not counted:
a wait may end with a probe that finds nothing (`LastProbe`), or because its pump, a
probe or the fetch fails (`Fail`). The next request, with its deletion, is a step of
its own (`NextTry`): an answer that comes in between is deleted. A type no client
has ever named fails at once (`Unnamed`).

**X11Monitors.** `updates` is the stack of open updates, each with the outputs it
has still to visit or the records it has still to sweep; the LOST flags are
common to all of them, as in the code.

## 3. Runs

Deadlock checking is off (`CHECK_DEADLOCK FALSE`) where the instance really may
stop: posts are used up, no transfer is left, the drags are over.

| Run | Instance | Checks |
|---|---|---|
| `ring` | 2 threads, 2 slots, counters of 2 bits, 2 posts each, drains 2 deep | `TypeOK NoOverrun SlotExclusive CommittedIsWritten PostsGetThrough`, `RingIsQueue` (refinement of `EventQueue`) |
| `pump` | all kinds of limits, 3 messages, 1 post, a frame of 2 | `TypeOK ReadIsPaired NoSleepOnQueue CallsEnd WorkIsDispatched` |
| `transfers` | 3 transfers, one begun in a callback, 2 descriptors, all failures | `ListIsSound ReportedOnce PullCompletes` |
| `dnd` | 2 offers, 1 window, a frame of 2, callbacks that refuse and destroy | `OffersAreOwned NoOrphanEvents FinishIsLegal DropGivesUp` |
| `controllers` | 2 pads, 2 names, 2 buttons, a kernel buffer of 1 | `ReportsMatchList ButtonsFollow PadsAreFollowed` |
| `seat` | 2 windows, 2 pointers in turn, 2 commits, all reactions | `TypeOK FocusFollows TextInputMatches LocksFollow TextReachesWindow` |
| `window` | 1 window, both decorations, 2 configures of 6 kinds, 2 updates, 2 scales, a limit and a ratio | `TypeOK GeometryIsTold StatesSettle ReadyOnceConfigured` |
| `x11_windows` | 2 windows, a scale of 5/4, 3 calls, 2 changes by others, 2 handlers deep | `TypeOK WindowsSettle GrabIsOwned` |
| `clipboard` | 2 windows, another client, 4 conversions, 2 reads deep | `ClipboardTypeOK ReadIsExplained OwnerIsKnown` |
| `monitors` | 2 outputs, 2 modes, 5 changes, 3 updates deep | `TypeOK ListFollows LossesAndModesAreTold` |
| `monitors_replug` | 2 outputs, 3 changes, one update at a time | **violated:** `ConnectionIsTold` |
| `x11_lock` | as `x11_windows`, nobody else grabs | **violated:** `LockHolds` |

What the passing properties leave out is said at their definition. The largest of
these: `RingIsQueue` lets anything be handed out again once a callback has pumped;
`GeometryIsTold` passes over the silent clamp; `StatesSettle` says nothing of the
application's knowledge of maximized; `ReadIsExplained` passes over an answer that
comes between the last probe and the next request; `LossesAndModesAreTold` says
nothing of a monitor that comes back; `ButtonsFollow` passes over buttons whose
events the kernel has dropped; `FinishIsLegal` lets finish name no offer. The
violated runs and the configurations below show what the code does there. The walk
of the transfers is not begun again inside a `DATA_READY` callback, as one that
pumps would.

Some properties have parts, each defined on its own before the whole:

- `PostsGetThrough`: `PostReturns`, and accepted posts are drained
  (`AcceptedIsDrained`);
- `CallsEnd`: calls with a limit return (`PumpReturns`), and a lost connection is
  reported (`LossIsReported`); `WorkIsDispatched`: so are posts and input
  (`PostIsDispatched`, `InputIsDispatched`);
- `ListIsSound`: types, no freed transfer is reached (`NothingFreedIsReached`), a
  pending one is in the list (`PendingIsLinked`);
- `OffersAreOwned`: types, `OffersAreLive`, `NoOfferIsLeaked`,
  `ReadBelongsToDrag`;
- `PadsAreFollowed`: pads are found and their removal is reported (`PadIsFound`,
  `RemovalIsReported`); `ReportsMatchList` contains the types.

Bounds and why they are enough:

- `Capacity = 2`, `Modulus = 4`, `MaxPosts = 2`, `MaxDrains = 2`: four posts fill the
  ring twice over and take the counters through a wrap, with both threads inside push
  at once, callbacks of the primary thread that post and one drain inside another,
  which is enough for head to go back. What happens for more of anything is the
  subject of the proofs.
- `FrameCap = 2` instead of 16, `Room = 2` instead of 126, `BufferCap = 1`: a
  limit matters when it is hit; the instance hits it with few events.
- `MaxInput`, `MaxBlocks`, `MaxMotions`, `MaxPresses`, `MaxPointers`,
  `MaxCommits`: bounds of the surroundings. Two or three of each make one come
  before, during and after the operation of interest.
- `Transfers`: three, so that one is removed between two that stay. `Nested`
  are those begun inside a callback.
- `window`: a configure can cross one update and the other be its reaction; the
  six proposals have a size that breaks the limit, one that keeps it and one left
  open.
- `x11_windows`: a lock needs a window that has it, one that overtakes it and an
  unlock (three calls); a request crosses a change and its answer (two changes).
  With a scale of 5/4 both roundings lose something.
- `clipboard`: four conversions are one text read (two types, two tries each) or up
  to four other reads, so that one can nest and a late answer meet its successor.
- `monitors`: three updates deep, the innermost ends before the one it interrupted
  and that before its own; five changes move both outputs in each.
- `seat`, `x11_windows` and `clipboard` are symmetric in their windows, the latter
  instances of `X11Window` in the cursors too, and `monitors` in its modes
  (`SYMMETRY`). They check no liveness, so the reduction is sound.

Two runs end in a violation. Both are findings, with the sentence of the
repository they contradict, in `PROJECT.json`: a monitor that comes back is not
announced (`x11_context.c:99-126`, against `docs/user_guide/monitors.md:59`), and a
window created with a locked cursor is never locked, because the pointer is grabbed
before the window is mapped, is refused, and nothing tries again
(`x11_window.c:164`, `:589`, against `docs/user_guide/cursors.md:56`).

Configurations kept beside the runs state what else the code does not do. Each
one checks one definition, and TLC finds a counterexample:

| Configuration | Definition | What the code does |
|---|---|---|
| `MCEventRingNested.cfg` | `HandedOutOnce` | a callback that pumps is handed the message it is handling once more: head is stored after the whole batch (`context.c:139`; `docs/user_guide/events_and_input.md:24` promises one pump for each) |
| `MCEventRingFull.cfg` | `RefusedOnlyIfFilled` | a post is refused by a ring with room when other threads overtake the loads of `reserve_tail` and `head` (`context.c:106`) |
| `WaylandPumpWake.cfg` | `PostWakesPump` | `lvkw_events_post` does not wake a pump that waits without a limit (`context.c:39`), whatever `docs/user_guide/threading.md:57` says of wakeups |
| `MCAsyncTransfersEof.cfg` | `PullSucceeds` | a source writes its data, the pump stores it, the source closes: the next poll reports POLLHUP alone and the pull ends as an error, without the data (`wayland_misc.c:568`); a drop's read takes the same POLLHUP for the end (`wayland_events.c:135`) |
| `MCAsyncTransfersLost.cfg` | `EveryPullCompletes` | a pull made in the `DATA_READY` callback of the first transfer is lost (`wayland_misc.c:616`) |
| `MCWaylandDndSession.cfg` | `SessionsEnd` | a drag that enters while a drop waits ends the first session without DROP or LEAVE (`wayland_input.c:823`; `docs/user_guide/events_and_input.md:76`) |
| `MCWaylandDndFinish.cfg` | `FinishHasOffer` | finish is called on NULL when a full frame lets a callback end the drag before it (`wayland_input.c:654`) |
| `MCLinuxControllersReplug.cfg` | `EveryPadIsFound` | a pad replaced between two pumps by another with its node name is not found (`controller_linux.c:154`) |
| `MCWaylandSeatComposition.cfg` | `CompositionIsTold` | a done that names no preedit takes the composition away, and the window goes on showing it (`wayland_input.c:290`, `:344`, `:388`; `docs/user_guide/events_and_input.md:45`) |
| `MCWaylandSeatText.cfg` | `TextIsValid` | the strings of a text event are read after libwayland has freed their messages (`wayland_input.c:307`, `:320`, used at `:369-382`), so they are not even valid in the callback (`docs/user_guide/events_and_input.md:13`) |
| `MCWaylandWindowMaximized.cfg` | `MaximizedIsKnown` | a window that is granted the maximized state it asked for sends no WINDOW_MAXIMIZED and leaves the flag (`wayland_window.c:78`, `:391`, `:844`; `include/lvkw/c/events.h:44`) |
| `MCWaylandWindowTold.cfg` | `EveryGeometryIsTold` | a size clamped after the event is not told (`wayland_window.c:697`) |
| `MCWaylandWindowFreed.cfg` | `DestroyIsSafe` | after five events a handler goes on with the window their callback has destroyed (`wayland_window.c:217`, `:665`, `:853`, and others; section 6) |
| `MCX11WindowTaken.cfg` | `LockIsKept` | a window that locks the pointer loses it when another changes between normal and hidden or is created hidden; it keeps the mode, and an update to locked returns early (`x11_window.c:607`, `:581`) |
| `MCX11WindowCursor.cfg` | `CursorIsShown` | a cursor set while the window is locked is not shown after the unlock (`x11_window.c:606-621`) |
| `MCX11WindowFreed.cfg` | `NothingFreedIsReached` | a window destroyed in its KEY or MAXIMIZED callback is used again (`x11_events.c:136`, `:254`) |
| `MCX11ClipboardAvailable.cfg` | `ReadIsAvailable` | data of an earlier owner or of another type is returned (`x11_window.c:779`, `:897`) |

## 4. Fairness

Every assumption is about the application or the scheduler, never about the
compositor or the other end of a pipe unless it says so.

- `EventRing`: a thread inside push keeps running (weak fairness of its steps),
  the application pumps (`WF Pump`), and a compare-and-swap that can succeed
  again and again succeeds once (`SF Reserve`): the loop is lock-free, not
  wait-free, and a thread could lose every race for ever otherwise. A failed
  compare-and-swap is fair only when the counter moved; nothing is assumed of
  spurious failures.
- `WaylandPump`: the thread is scheduled and the application pumps (`WF
  PumpStep`), time passes (`WF Tick`), and not every single poll is interrupted
  by a signal (`SF PollReady`).
- `AsyncTransfers`: the application pumps, and a source closes its pipe in the
  end (`WF SourceClose`): the code has no time-out for asynchronous pulls.
- `WaylandDnd`: the application pumps and time passes (`WF DeadlinePasses`).
- `LinuxControllers`: the application pumps.
- `WaylandSeat`, `WaylandWindow` and the X11 modules have safety properties only:
  what must happen there depends on the compositor, the window manager or the
  other client, of whom the library can assume nothing.

## 5. Proofs

A theorem holds for every value of the constants that the module's assumption
allows; TLC evaluates the assumptions in the runs.

**EventRingProofs** (from `CapacityAssumption` and `ThreadAssumption`: any number
of threads and posts, any capacity, any counter width whose modulus the capacity
divides). `NoOverrun` is not inductive. Push compares 32-bit views of counters
that move on between the load and the compare-and-swap, so the induction has to
know what a thread that holds a loaded value may still conclude from it.
`IInv` is `TypeOK` and

- `Counters`: `NoOverrun` (head <= taken <= tail <= reserve_tail <= taken +
  capacity), and head less than 2^32 behind reserve_tail;
- `Batches`: each open drain lies before tail, has nothing before it that no drain
  has read, and is less than 2^32 behind reserve_tail;
- `Repeats`: until a callback pumps, head and the one drain are where `taken` says;
- `Snapshots`: what a thread has loaded is not newer than reserve_tail or `taken`,
  and less than 2^32 behind reserve_tail (this is what `NoStallAcrossWrap` gives);
- `Reservations`: a thread with a reservation owns one position between tail and
  reserve_tail, no two the same;
- `Posting`: a thread inside push posts a real message;
- `Written`: committed slots, and those of threads about to commit, are filled.

Two counters with equal views are then equal (`EqualResidues`), a successful
compare-and-swap reserves exactly the next slot, and two counters less than the
capacity apart fall on different slots (`SlotInjective`). One lemma per action
shows that it keeps `IInv`; `TypeCorrect`, `RingNeverOverruns`,
`PumpReadsWrittenSlots` and `SlotsAreExclusive` follow.

With drains inside drains head is no bound: it goes back when the outer drain ends.
What holds is that it never passes `taken`, so a producer that finds room by head
finds it among slots that some drain has read, and the invariant is about `taken`.

`RingImplementsQueue` is the refinement. The queue's contents are the messages of
the positions from `taken` to reserve_tail: a message enters when its position is
reserved, still with its producer (`MessageAt`), and leaves when a drain reads its
slot for the first time. The steps that matter are the reservation, which must
find a message less than the limit in the queue, and the first reading, which finds
what its producer has written although others fill slots at the same time
(`Written`, `Reservations`). A second reading is `Repeat`, which the queue
allows once a callback has pumped; `Repeats` shows that there is none before.

**PumpProofs**, the pump. `NoSleepOnQueue` says that no message is queued during
poll; another reader could queue one there. It cannot, because the read is
prepared then, which is `ReadIsPaired`: the two are inductive together
(`WaitInv`).
`PumpIsTyped` holds `TypeOK` with the flags and the bound of the frame. One
dispatch handles every queued message, so the bound is proved for each prefix of
the queue (`FrameAfterFits`).

**PumpProofs**, the controllers (from `ControllerAssumption`: any finite set of
pads, any names, buttons, presses and capacity of the kernel's buffer, with or
without failing allocations). `ReportsMatchList` speaks of the moment between two
rounds. `ControllersInv` says what holds inside one: at every step the listed
devices are those last told to be connected, and a controller is marked lost once
it is not listed, except the one whose removal is waiting for its callback
(`Reports`). What the thread is doing (`Stages`) shows that there is none between
two rounds.

`ButtonsFollow` needs to know which pad a device stands for. No two devices are
open on one pad, because a path is opened only when it is not listed and a pad that
is plugged in has the path of its device (`DevicesFollow`, `OfPad`); nothing waits
to be read at a node that is not open (`Hardware`), so a device starts with an empty
buffer, and what it does not know of the buttons is in `unknown`. The step of a full
buffer throws events away, and the buttons they were about become unknown. What
`Replay` computes of a sequence of events is proved by induction over its prefixes
(`ReplayDef`, `Replayed`).

**AsyncTransfersProofs** (from `TransferAssumption`: any finite set of transfers).
`ListIsSound` speaks of what `link` reaches from `"head"`, a recursive definition.
The induction follows the list as a sequence instead (`SoundList`): its members
are pending and distinct, the walk holds the head or the next field of one of
them, and in a callback the transfer just reported is the next one - unless the
walk still holds the head, when the callback's own pulls stand before it and the
step after the callback cuts them off with it. That is why pulls of callbacks
(`Nested`) are excepted from what the list must hold (`EveryPullCompletes` in
section 3 is the same fact). `Reports` says that only the transfer whose callback
runs is both reported and pending; `TransfersAreReportedOnce` follows.

**WaylandDndProofs** (any offers, windows, capacity of the frame, reactions).
None of the three properties is inductive: an event that waits in the frame, or in
the handler behind a full frame, was made under a session that callbacks still to
come may end. `IInv` therefore has

- `Types` and `Owned`: who holds each offer, with the offer of the compositor's
  drag (`Drags`) and of the read (`Reads`);
- `Sessions`: what a handler has still to do is at most one event and one of four
  endings (`Rests`): nothing, a reset, a decision about the drop, a finish. The
  events in the frame lead from the sessions the callbacks have seen begin to
  those that will be open after them (`Leads`), each fits where it comes, and in
  the end the session of the drag is open (`Current`) if no reset follows. A drop
  waits only for a pipe or for the end of its handler (`Waits`).

The lemmas about `Leads` say what pushing an event, delivering the first one and
clearing the frame do to it; each handler then has a lemma for the types, one for
the offers and one for the sessions.

**WaylandSeatProofs** (from `SeatAssumption`: any windows, pointers, commits and
any set of reactions). `SeatInv` adds to `FocusFollows`, `TextInputMatches` and
`LocksFollow` the types of the variables they speak of and `Focuses`: the
compositor's focuses name only windows it has seen, and without a keyboard there
is no focus. Without `Focuses` a window could be created that has the focus
already, with text input enabled or not at random. Each handler has a lemma; what
a callback does is one lemma (`ReactStep`), used by every handler that calls back.

`TextReachesWindow` speaks of the moments between two dones. In the middle of one
each callback may take the focus away, destroy its window or create another. `ImeInv`
has the shape of what the handler has still to do (`Agenda`), counts of the texts
(`Counted`), and for the window with the text focus that what it was told and what
the agenda still owes it are together what was committed, and that the agenda is for
that window, whichever of the two protocols has set the keyboard's focus (`Served`).

**WaylandWindowProofs** (from `WindowAssumption`: any sizes, limits, proposals,
scales and reactions). The properties speak of moments at which no handler is open.
In between, the agenda is the work of updates made in callbacks, however deep, over
what is left of one handler; `Ordered` says so by counting a handler's parts from
the end, which neither taking the first part nor putting an update before it
changes. `Coming` has one part for each promise and says that whatever is not as it
should be is put right by a part still on the agenda or a configure still on the
wire: the size and scale told (`GeometryComes`), readiness (`ReadyComes`), the
states (`StatesCome`), and that the last configure on its way, or the one being
handled, says what the compositor has made of the window (`LastConfigure`). What the
application does in a callback is one lemma (`ActsKeeps`), used by every part that
calls back. That a size keeps
two sides (`WindowIsTyped`) goes through clamping and the rounding of ratios:
`PassSized` and `RatioSized` show that no quotient that is used is zero.

**X11ServerProofs**, monitors (any sequence of outputs, modes, changes and depth).
`ListFollows` speaks of the moment when all is handled; nothing in it says what an
update that runs, or the one it interrupts, has already put right. `ListInv` says
it of the innermost update only: with no notification pending, what it has behind
it is as the server shows it. This suffices because an update visits every output
from the first, whatever the ones below it have done: when it ends everything is
right, which is more than they still need. `TellInv` does the same for the sweep.
`MonitorsAreTyped` completes it with the types of the stack.

**X11ServerProofs**, clipboard (from `ClipboardAssumption`: any windows, writes,
conversions and depth). `OwnerIsKnown` is inductive with the types.
`ReadIsExplained` speaks of the call that has just returned and says nothing of
those still open. `ClipboardInv` has, for every call on the stack, which
conversions under way may still end in its answer (`Waits`, `Finds`): its own,
those its window had unanswered when it began (`before`) and, once a callback has
asked for that window (not `alone`), later ones. An answer to a conversion that an
undisturbed call waits for stays where it is until the next probe, which takes it
(`answered`); a failure ends that, and a last probe is one that finds nothing. And
a call that runs in a callback of another has only higher ids and marks the other
if it is for the same window (`Under`). A conversion of its own always has the
format the call expects, which is why `TakeUnsupported` throws away only answers to
somebody else.

**X11WindowProofs** (any windows, cursors, sizes and scale). `GrabIsOwned` is
inductive with the types (`LockInv`). Its point is a case split the code never
makes: a window that overtakes a lock takes `locked_window` but perhaps not the
grab, and an unlock of the overtaken one, or a third that hides its cursor, releases
the pointer of the other; the grab may then be nobody's, but it never outlives the
window or the lock. That it is taken away like this is `LockIsKept`, which the code
violates.

`WindowsSettle` compares the library with the server when nothing is under way.
`SettleInvariant` says for every window what each event on its way, each answer the
window manager owes and each handler that is open will still put right: of the
events of one kind only the last counts, since a property event is read as the
state is when it is handled. The theorem has the hypothesis `HasPixels`: no size an
application asks for rounds to zero pixels, which X refuses (BadValue); the model
does not contain the refusal. `WindowsAreTyped` adds `HasUnits`: no width rounds to
zero in logical units, which is what `TypeOK` says of a live window. With a scale
of two or more a window of one pixel is such a width. Both hold in the run's
instance.

Only model-checked: every liveness property, since tlapm does not reason about
ENABLED and fairness. Every invariant and action property that a passing run
checks is also the statement of a theorem.

The modules with theorems use no RECURSIVE operator. The library's induction
theorems take an operator as a parameter, which the installed provers cannot
instantiate. Where a proof needs induction over data (what `Reached`, `FrameAfter`
and `Replay` compute), the predicate is made a set of numbers, and the theorem that
a non-empty set of naturals has a smallest element gives the step (`SmallestOf`,
`UpTo`).

## 6. Disagreements without a configuration

Met while reading; kept here for who works on the code. Files are in
`src/lvkw/linux/wayland` if not said otherwise.

Text input:
- One done may commit a text and show the next preedit. The code tells the
  composition first (`wayland_input.c:344`) and the text second (`:379`), although
  the text ends the composition (`docs/user_guide/events_and_input.md`): the
  window drops the composition that is on the screen.
- The serial of a done is ignored. The cursor of a preedit is not kept at all.
- The local `window` of `done` is used for a second event after a callback that
  may have destroyed it (`:338`, `:384`). After a KEY callback that destroys the
  focus, TEXT_INPUT is sent with a NULL window (`:227-240`).
- `_is_text_input_v3_active` does not ask for text focus: without an input
  method a window that wants text gets none.

Pump and ring:
- The ring is called lock-free but a commit spins on the one before it
  (`common/context/context.c:121`).
- With LVKW_NEVER a lost connection is never reported and the loop spins
  (`wayland_events.c:59`, `:169`); a drop that waits for its data is not given up.
- A limit of 2^31 ms or more is cast to a negative int (`wayland_events.c:70`).
- A pending frame that overflows is delivered in two (`wayland_events.c:18`).
- Windows that are destroyed stay in the pending frame and in the ring.

Transfers and drags:
- The index into the poll results does not advance when a transfer is removed
  (`wayland_misc.c:567`, `:616-620`): the next one is judged by its neighbour's.
- `clipboard_serial` is never assigned, so pushData always fails
  (`wayland_misc.c:871`).
- The session userdata is cleared by a drag that enters in the same frame
  (`wayland_input.c:739`); the default action is COPY, not NONE (`:740`); drag
  events wait for a pointer frame; finish may be called on NULL (`:643-654`).

Controllers (`src/lvkw/linux/controller/controller_linux.c`):
- LOST is set after the callback (`:242-246`); the disconnection of a device whose
  controller could not be allocated has a NULL reference (`:213`); a path that
  could not be allocated is compared (`:154`, `:187`); SYN_DROPPED and
  IN_Q_OVERFLOW are not looked at; buttons held at open are unknown; a node that
  cannot be opened blocks the pump for 50 ms.

Wayland windows:
- RESIZED is dispatched inside an update whose rest uses the window
  (`wayland_window.c:217`, `:665`). After a callback that destroys its window a
  handler goes on with freed memory after five kinds of events: maximized, focus, frame
  ready, constrain, update (`MCWaylandWindowFreed.cfg`).
- The last configuration of a libdecor frame is committed again after the handler
  it was passed to has returned (`:652`, `:1013`).
- A maximum below the minimum gives way to it, by another rule in each of the two
  places that look (`:573`, `:632`).
- A failure after the commit leaks the window (`:115`); not in the model.
- Windows that are destroyed stay in the pending frame and in the ring. A callback
  of the frame that pumps has the same events delivered again.

X11 (`src/lvkw/linux/x11`):
- Lock and unlock: a second window that locks takes `locked_window`. Hidden mode
  hides nothing: the window's own cursor is defined (`x11_window.c:609`, against
  `docs/user_guide/cursors.md:55`). A locked pointer is confined to the window, not
  to its centre, and raw motion that causes no MotionNotify is not told. A creation
  that fails leaves `locked_window` as it was set.
- Clipboard: no handler for SelectionClear and SelectionRequest, so other clients
  get nothing and lost ownership is not noticed; INCR is not handled; an answer
  that comes between the last probe and the next request is deleted (`:791`,
  `:769`); a window destroyed in a callback of the wait is used after it; a nested
  query of the types leaks a list; reading text copies the read cache into itself
  (`x11_window.c:838`); a read from another window of the owner's context times
  out; a failed allocation leaves the selection owned and empty.
- Monitors: in the callbacks of an update the outputs it has not reached are not
  enumerated (`EnumerationIsComplete`); a monitor that is gone is announced at every
  update; allocations are not checked.
- Key repeats are reported as KEY (`docs/user_guide/events_and_input.md:33` says
  otherwise). With a
  fractional scale the pixel size of `lvkw_wnd_getGeometry_X11` may be a pixel off
  (`x11_window.c:315`). A poll interrupted by a signal ends the pump. The ring has no wake-up
  either, and the controllers' descriptors are not polled.

The rest:
- A second button or motion in one pointer frame overwrites the first
  (`wayland_input.c:1199-1231`); pointer_focus survives the pointer; key repeat is
  promised and `repeat.rate` unused. Names of data types are interned for the life
  of the context in 32 entries (`common/core/string_cache.c:43`).

## 7. Plan

Done: ring, pump, transfers, drags, controllers, seat and text input, Wayland
windows, X11 windows, clipboard and monitors, and proofs of every safety property
of theirs. Next, most important first:

1. `WaylandPointer`: the frame of motion, buttons and axes, with the pending frame
   of `WaylandPump`, and focus changes inside a frame.
2. `WaylandSelections`: queries and the mime cache, the blocking read and its
   limit, ownership gained and lost, requests served.
3. `WaylandMonitors`: announcement, modes and removal of outputs; start-up.
4. `X11Pump`: the wake pipe, poll, pointer, raw motion and idle state.

Not modelled and not planned: the macOS and Windows back ends, argument checks,
string cache and pools (sequential, small), key and cursor tables, the loaders of
shared libraries, examples and tools, vendored and generated code (more than half
of the lines under `src/`).
