---------------------------- MODULE WaylandPump ----------------------------
(***************************************************************************)
(* lvkw_events_pump on Wayland (linux/wayland/wayland_events.c), with the  *)
(* threads, the compositor and the clock around it: how a call waits, what *)
(* ends the wait, what it has dispatched when it returns, and when a dead  *)
(* connection is noticed (_lvkw_wayland_check_error, wayland_display.c).   *)
(*                                                                         *)
(* The notification ring is the queue of EventQueue.tla, reduced to its    *)
(* length.  A message of the compositor is one of                          *)
(*   "direct"  its handler calls the callback at once                      *)
(*   "part"    its handler calls _lvkw_wayland_push_event                  *)
(*   "frame"   wl_pointer.frame: its handler flushes the pending frame     *)
(* The descriptors of transfers, drag and drop and controllers are left    *)
(* to the modules of those components.                                     *)
(***************************************************************************)
EXTENDS Naturals, Sequences

CONSTANTS
  Timeouts,   \* what the application passes: "zero", "finite" (below 2^31 ms),
              \* "huge" (2^31 ms or more), "never" (LVKW_NEVER)
  FrameCap,   \* pending_frame holds 16 events
  MaxInput,   \* bound: messages the compositor sends
  MaxPosts    \* bound: calls of lvkw_events_post

ASSUME PumpAssumption ==
  /\ Timeouts \subseteq {"zero", "finite", "huge", "never"}
  /\ FrameCap \in Nat \ {0}
  /\ MaxInput \in Nat
  /\ MaxPosts \in Nat

VARIABLES
  pc,           \* where the primary thread is
  timeout,      \* timeout_ms of the call
  expired,      \* the call has lasted timeout_ms or more
  pollTimeout,  \* poll_timeout in this round: "zero", "positive", "negative"
  prepared,     \* wl_display_prepare_read without its read or cancel
  socket,       \* messages in the kernel's buffer
  queue,        \* messages libwayland has read
  broken,       \* the compositor has closed the connection
  error,        \* wl_display_get_error is not 0
  lost,         \* LVKW_CONTEXT_STATE_LOST
  ring,         \* posted notifications not yet dispatched
  wake,         \* the counter of wake_fd
  frame,        \* ctx->input.pending_frame.count
  input,        \* messages sent so far
  posted        \* posts so far

pumpVars == <<pc, timeout, pollTimeout, prepared>>
connVars == <<socket, queue, broken, error, lost, input>>
postVars == <<ring, wake, posted>>
vars == <<pumpVars, expired, connVars, postVars, frame>>

----------------------------------------------------------------------------
(* The pending frame.                                                      *)

\* Mutant: the test for a full buffer is off by one.
PushPartOffByOne(count) == IF count > FrameCap THEN 1 ELSE count + 1

\* _lvkw_wayland_push_event: a full buffer is flushed first.
PushPart(count) == IF count >= FrameCap THEN 1 ELSE count + 1

\* What one handler does to pending_frame.count.
HandleMessage(count, m) ==
  CASE m = "part"   -> PushPart(count)
    [] m = "frame"  -> 0
    [] m = "direct" -> count

\* pending_frame.count when the first n messages of the queue are handled.
FrameAfter[n \in 0 .. Len(queue)] ==
  IF n = 0 THEN frame ELSE HandleMessage(FrameAfter[n - 1], queue[n])

----------------------------------------------------------------------------
(* lvkw_ctx_pumpEvents_WL.                                                 *)

\* The connection error is turned into the LOST flag here and nowhere else
\* in the pump.
CheckError == lost' = (lost \/ error)

\* The call: the error check, the first drain of the ring.
Call(t) ==
  /\ pc = "idle"
  /\ CheckError
  /\ IF lost'
       THEN UNCHANGED <<pumpVars, expired, ring>>   \* LVKW_ERROR_CONTEXT_LOST
       ELSE /\ pc' = "top"
            /\ timeout' = t
            /\ expired' = FALSE
            /\ ring' = 0
            /\ UNCHANGED <<pollTimeout, prepared>>
  /\ UNCHANGED <<socket, queue, broken, error, input, wake, posted, frame>>

\* The elapsed time has reached the timeout.
TimeIsUp == timeout \in {"finite", "huge"} /\ expired

\* Mutant: the remaining time is never put in poll_timeout.
PollTimeoutsNegative == IF timeout = "zero" THEN {"zero"} ELSE {"negative"}

\* poll_timeout: 0, -1, or the remaining time cast to int, which is negative
\* when 2^31 ms or more are left.
PollTimeouts ==
  CASE timeout = "zero" \/ TimeIsUp         -> {"zero"}
    [] timeout = "never"                    -> {"negative"}
    [] timeout = "finite" /\ ~expired       -> {"positive"}
    [] timeout = "huge" /\ ~expired         -> {"positive", "negative"}

\* Mutant: the result of prepare_read is ignored.
PrepareReadUnchecked ==
  /\ pc = "top"
  /\ pollTimeout' \in PollTimeouts
  /\ pc' = "poll"
  /\ prepared' = TRUE
  /\ UNCHANGED <<timeout, expired, connVars, postVars, frame>>

\* The top of the loop: the poll timeout; prepare_read, which fails while
\* messages are waiting to be dispatched.  (flush records no error of a closed
\* connection: that is left to the read.)
PrepareRead ==
  /\ pc = "top"
  /\ pollTimeout' \in PollTimeouts
  /\ IF queue = <<>>
       THEN /\ pc' = "poll"
            /\ prepared' = TRUE
       ELSE /\ pc' = "dispatch"
            /\ UNCHANGED prepared
  /\ UNCHANGED <<timeout, expired, connVars, postVars, frame>>

Ready == socket # <<>> \/ broken \/ wake > 0

\* Mutant: the read is cancelled where it should be done.
PollReadyCancels ==
  /\ pc = "poll"
  /\ Ready
  /\ prepared' = FALSE
  /\ wake' = 0
  /\ pc' = "dispatch"
  /\ UNCHANGED <<timeout, pollTimeout, expired, connVars, ring, posted, frame>>

\* poll reports a descriptor: the socket is read (or the read cancelled) and
\* the eventfd is reset.  Reading a closed and empty socket is the error.
PollReady ==
  /\ pc = "poll"
  /\ Ready
  /\ prepared' = FALSE
  /\ queue' = queue \o socket
  /\ socket' = <<>>
  /\ error' = (error \/ (broken /\ socket = <<>>))
  /\ wake' = 0
  /\ pc' = "dispatch"
  /\ UNCHANGED <<timeout, pollTimeout, expired, broken, lost, input, ring,
                 posted, frame>>

\* Mutant: the read is not cancelled when poll times out.
PollTimeoutKeepsRead ==
  /\ pc = "poll"
  /\ ~Ready
  /\ \/ pollTimeout = "zero"
     \/ pollTimeout = "positive" /\ expired
  /\ pc' = "dispatch"
  /\ UNCHANGED <<timeout, pollTimeout, prepared, expired, connVars, postVars,
                 frame>>

\* poll returns 0: nothing is ready and its time is up.
PollTimeout ==
  /\ pc = "poll"
  /\ ~Ready
  /\ \/ pollTimeout = "zero"
     \/ pollTimeout = "positive" /\ expired
  /\ prepared' = FALSE
  /\ pc' = "dispatch"
  /\ UNCHANGED <<timeout, pollTimeout, expired, connVars, postVars, frame>>

\* poll returns -1: a signal arrived.
PollInterrupted ==
  /\ pc = "poll"
  /\ prepared' = FALSE
  /\ pc' = "dispatch"
  /\ UNCHANGED <<timeout, pollTimeout, expired, connVars, postVars, frame>>

\* dispatch_pending (which does nothing on a display with an error), then the
\* second drain of the ring.
Dispatch ==
  /\ pc = "dispatch"
  /\ IF error
       THEN UNCHANGED <<queue, frame>>
       ELSE /\ queue' = <<>>
            /\ frame' = FrameAfter[Len(queue)]
  /\ ring' = 0
  /\ pc' = "end"
  /\ UNCHANGED <<timeout, pollTimeout, prepared, expired, socket, broken,
                 error, lost, input, wake, posted>>

\* The end of a round: another one unless the time is up.
Again ==
  /\ pc = "end"
  /\ pollTimeout # "zero"
  /\ ~TimeIsUp
  /\ pc' = "top"
  /\ UNCHANGED <<timeout, pollTimeout, prepared, expired, connVars, postVars,
                 frame>>

\* The end of the call: the error is checked again.
Return ==
  /\ pc = "end"
  /\ pollTimeout = "zero" \/ TimeIsUp
  /\ CheckError
  /\ pc' = "idle"
  /\ UNCHANGED <<timeout, pollTimeout, prepared, expired, socket, queue,
                 broken, error, input, postVars, frame>>

----------------------------------------------------------------------------
(* The surroundings.                                                       *)

\* The timeout of the call in progress passes.
Tick ==
  /\ pc # "idle"
  /\ ~expired
  /\ expired' = TRUE
  /\ UNCHANGED <<pumpVars, connVars, postVars, frame>>

Send(m) ==
  /\ ~broken
  /\ input < MaxInput
  /\ input' = input + 1
  /\ socket' = Append(socket, m)
  /\ UNCHANGED <<pumpVars, expired, queue, broken, error, lost, postVars,
                 frame>>

\* The compositor exits or refuses a request.
Break ==
  /\ ~broken
  /\ broken' = TRUE
  /\ UNCHANGED <<pumpVars, expired, socket, queue, error, lost, input, postVars,
                 frame>>

\* Another thread of the process reads the same display: the Vulkan driver
\* does while it presents or acquires an image (external).  Messages for the
\* library are left in its queue.  It waits for a prepared reader.
OtherRead ==
  /\ ~prepared
  /\ socket # <<>> \/ broken
  /\ queue' = queue \o socket
  /\ socket' = <<>>
  /\ error' = (error \/ (broken /\ socket = <<>>))
  /\ UNCHANGED <<pumpVars, expired, broken, lost, input, postVars, frame>>

\* lvkw_events_post from any thread: the push, and nothing else (wake_fd is
\* written by lvkw_ctx_postEvent_WL, which no public function calls).
Post ==
  /\ posted < MaxPosts
  /\ posted' = posted + 1
  /\ ring' = ring + 1
  /\ UNCHANGED <<pumpVars, expired, connVars, wake, frame>>

----------------------------------------------------------------------------
Init ==
  /\ pc = "idle"
  /\ timeout \in Timeouts
  /\ expired = FALSE
  /\ pollTimeout = "zero"
  /\ prepared = FALSE
  /\ socket = <<>>
  /\ queue = <<>>
  /\ broken = FALSE
  /\ error = FALSE
  /\ lost = FALSE
  /\ ring = 0
  /\ wake = 0
  /\ frame = 0
  /\ input = 0
  /\ posted = 0

PumpStep ==
  \/ \E t \in Timeouts : Call(t)
  \/ PrepareRead
  \/ PollReady
  \/ PollTimeout
  \/ Dispatch
  \/ Again
  \/ Return

Next ==
  \/ PumpStep
  \/ PollInterrupted
  \/ Tick
  \/ \E m \in {"direct", "part", "frame"} : Send(m)
  \/ Break
  \/ OtherRead
  \/ Post

Spec == Init /\ [][Next]_vars

\* The application pumps again and again, the thread is scheduled, time passes
\* and signals do not interrupt every single poll.  Nothing is assumed of the
\* compositor, the posters or the other reader.
FairSpec == Spec /\ WF_vars(PumpStep) /\ WF_vars(Tick) /\ SF_vars(PollReady)

----------------------------------------------------------------------------
TypeOK ==
  /\ pc \in {"idle", "top", "poll", "dispatch", "end"}
  /\ timeout \in Timeouts
  /\ pollTimeout \in {"zero", "positive", "negative"}
  /\ {expired, prepared, broken, error, lost} \subseteq BOOLEAN
  /\ socket \in Seq({"direct", "part", "frame"})
  /\ queue \in Seq({"direct", "part", "frame"})
  /\ ring \in 0 .. MaxPosts
  /\ wake \in Nat
  /\ frame \in 0 .. FrameCap
  /\ input \in 0 .. MaxInput
  /\ posted \in 0 .. MaxPosts

\* Every prepare_read is followed by a read or a cancel on each of the ways
\* out of poll, so no other reader of the display is left waiting and the
\* next prepare_read is legal.
ReadIsPaired == prepared <=> pc = "poll"

\* The thread never goes to sleep over messages that are already read,
\* whoever read them and when: poll would not report them again.
NoSleepOnQueue == pc = "poll" => queue = <<>>

\* The application has given its call a time limit the code can keep: not
\* LVKW_NEVER, and not 2^31 ms or more, which may become a negative poll timeout.
Limited == timeout \in {"zero", "finite"}

\* A call with a limit returns, whatever the compositor and the threads do
\* (after signals and early wake-ups the loop goes on with the time left).
PumpReturns == Limited /\ pc # "idle" ~> pc = "idle"

\* A notification posted while the application pumps with limits is dispatched
\* even if the compositor is silent.
PostIsDispatched == Limited /\ ring > 0 ~> ring = 0 \/ lost

\* What the compositor sends is read and dispatched whichever timeouts the
\* application uses and whoever reads the socket, or the context is lost.
InputIsDispatched ==
  socket \o queue # <<>> ~> socket \o queue = <<>> \/ broken

\* A closed connection is reported if the application does not go on to wait
\* without a limit.
LossIsReported == broken ~> lost \/ ~Limited

\* Both ends of a call: it returns, and after the end of the connection with
\* the loss reported.
CallsEnd == PumpReturns /\ LossIsReported

\* Both kinds of work that arrive while a call waits are dispatched.
WorkIsDispatched == PostIsDispatched /\ InputIsDispatched

\* "lvkw_events_post is intended for cross-thread wakeups" (docs/user_guide/
\* threading.md): a notification is dispatched however long the call in
\* progress may wait.
PostWakesPump == ring > 0 ~> ring = 0 \/ lost
============================================================================
