--------------------------- MODULE AsyncTransfers ---------------------------
(***************************************************************************)
(* Asynchronous clipboard pulls on Wayland (linux/wayland/wayland_misc.c): *)
(* lvkw_wnd_pullDataAsync_WL links a transfer, the pump polls its pipe and *)
(* _lvkw_wayland_process_transfers reads it, reports it with one           *)
(* LVKW_EVENT_TYPE_DATA_READY and unlinks it.                              *)
(*                                                                         *)
(* The list is the code's: a function from links to transfers, where the   *)
(* link "head" is ctx->pending_transfers and any other link is the next    *)
(* field of a transfer.  The walk holds a link (curr_ptr) and an index     *)
(* into the array poll filled in, and the callback in the middle of it may *)
(* pull again.  The source at the other end of a pipe writes blocks of at  *)
(* most 4096 bytes, what one read takes, and closes the pipe.              *)
(***************************************************************************)
EXTENDS Naturals, FiniteSets, Sequences

CONSTANTS
  Transfers,        \* every transfer a behaviour may begin
  Null,             \* the null pointer
  Room,             \* pollfds left for transfers (126)
  MaxBlocks,        \* bound: blocks one source writes
  Nested,           \* those the application begins in a DATA_READY callback
  AllocMayFail      \* the allocator, or pipe(), may fail

ASSUME TransferAssumption ==
  /\ IsFiniteSet(Transfers)
  /\ Null \notin Transfers
  /\ "head" \notin Transfers
  /\ Room \in Nat \ {0}
  /\ MaxBlocks \in Nat
  /\ Nested \subseteq Transfers
  /\ AllocMayFail \in BOOLEAN

VARIABLES
  pc,        \* the primary thread: "idle", "walk", "callback"
  link,      \* the list
  stage,     \* "unused", "pending", "dropped" or "freed"
  pipe,      \* blocks in each pipe
  closed,    \* the source has closed its end
  taken,     \* transfer->size, in blocks
  pfds,      \* what poll reported, one set of flags per descriptor
  curr,      \* curr_ptr
  i,         \* the index into pfds
  reports    \* history: the status of each DATA_READY of a transfer

listVars == <<link, stage>>
sourceVars == <<pipe, closed>>
walkVars == <<pfds, curr, i>>
vars == <<pc, listVars, sourceVars, taken, walkVars, reports>>

Links == {"head"} \union Transfers
Flags == SUBSET {"in", "hup"}

\* The n-th pointer of the list, counted from 0: a transfer, or Null at the end
\* of the list and after it.
Reached[n \in 0 .. Cardinality(Transfers)] ==
  IF n = 0 THEN link["head"]
  ELSE IF Reached[n - 1] = Null THEN Null ELSE link[Reached[n - 1]]

----------------------------------------------------------------------------
(* lvkw_wnd_pullDataAsync_WL, from the application or from its callback.   *)

MayPull(t) ==
  /\ pc = IF t \in Nested THEN "callback" ELSE "idle"
  /\ stage[t] = "unused"

\* Mutant: the rest of the list is forgotten.
PullForgetsNext(t) ==
  /\ MayPull(t)
  /\ stage' = [stage EXCEPT ![t] = "pending"]
  /\ link' = [link EXCEPT !["head"] = t]
  /\ UNCHANGED <<pc, sourceVars, taken, walkVars, reports>>

\* The transfer is prepended.
Pull(t) ==
  /\ MayPull(t)
  /\ stage' = [stage EXCEPT ![t] = "pending"]
  /\ link' = [link EXCEPT !["head"] = t, ![t] = link["head"]]
  /\ UNCHANGED <<pc, sourceVars, taken, walkVars, reports>>

\* pipe() fails: DATA_READY with an error, within the call.
PullWithoutPipe(t) ==
  /\ AllocMayFail
  /\ MayPull(t)
  /\ stage' = [stage EXCEPT ![t] = "freed"]
  /\ reports' = [reports EXCEPT ![t] = Append(@, "error")]
  /\ UNCHANGED <<pc, link, sourceVars, taken, walkVars>>

\* The allocation fails: the pipe is closed, the call returns LVKW_SUCCESS.
PullWithoutMemory(t) ==
  /\ AllocMayFail
  /\ MayPull(t)
  /\ stage' = [stage EXCEPT ![t] = "dropped"]
  /\ UNCHANGED <<pc, link, sourceVars, taken, walkVars, reports>>

----------------------------------------------------------------------------
(* The source, a client of the compositor (external).                      *)

SourceWrite(t) ==
  /\ stage[t] = "pending"
  /\ ~closed[t]
  /\ taken[t] + pipe[t] < MaxBlocks
  /\ pipe' = [pipe EXCEPT ![t] = @ + 1]
  /\ UNCHANGED <<pc, listVars, closed, taken, walkVars, reports>>

SourceClose(t) ==
  /\ stage[t] = "pending"
  /\ ~closed[t]
  /\ closed' = [closed EXCEPT ![t] = TRUE]
  /\ UNCHANGED <<pc, listVars, pipe, taken, walkVars, reports>>

----------------------------------------------------------------------------
(* The pump.                                                               *)

\* What poll reports of the read end of a pipe: POLLIN while it holds data,
\* POLLHUP once the write end is closed; a drained and closed pipe has
\* POLLHUP alone.
Revents(t) ==
  {f \in {"in", "hup"} : \/ f = "in" /\ pipe[t] > 0
                         \/ f = "hup" /\ closed[t]}

\* get_transfer_poll_fds and poll; process_transfers starts whenever some
\* descriptor of the pump is ready and a transfer was among them.
Poll ==
  /\ pc = "idle"
  /\ link["head"] # Null
  /\ pfds' = [k \in {n \in 1 .. Cardinality(Transfers) :
                       n <= Room /\ Reached[n - 1] # Null} |->
                Revents(Reached[k - 1])]
  /\ curr' = "head"
  /\ i' = 1
  /\ pc' = "walk"
  /\ UNCHANGED <<listVars, sourceVars, taken, reports>>

\* pfds[pfds_offset + i]; past the descriptors that were filled in, whatever
\* the stack or a controller's descriptor left there.
Observed == IF i <= Len(pfds) THEN {pfds[i]} ELSE Flags

\* What a visit to transfer t finds, given the flags: it goes on, it is at
\* the end of the data, or it fails.  A block that is read while the pipe is
\* hung up is thrown away.
Outcomes(t, flags) ==
  (IF "hup" \in flags THEN {"error"} ELSE {})
    \union
  (IF "in" \in flags
     THEN IF pipe[t] > 0
            THEN (IF AllocMayFail THEN {"error"} ELSE {})
                   \union (IF "hup" \notin flags THEN {"stored"} ELSE {})
            ELSE IF "hup" \notin flags
                   THEN {IF closed[t] THEN "success" ELSE "nothing"}
                   ELSE {}
     ELSE IF "hup" \notin flags THEN {"nothing"} ELSE {})

\* Mutant: every descriptor that is ready is taken to hold a block.
BlockAssumed(t, flags) == IF "in" \in flags THEN 1 ELSE 0

\* The block a visit reads.
Block(t, flags) == IF "in" \in flags /\ pipe[t] > 0 THEN 1 ELSE 0

\* The visit leaves the transfer in the list and moves on.
VisitMovesOn ==
  /\ pc = "walk"
  /\ link[curr] # Null
  /\ LET t == link[curr]
     IN  \E flags \in Observed :
           \E outcome \in Outcomes(t, flags) \intersect {"stored", "nothing"} :
             /\ pipe' = [pipe EXCEPT ![t] = @ - Block(t, flags)]
             /\ taken' = [taken EXCEPT ![t] =
                            IF outcome = "stored" THEN @ + 1 ELSE @]
             /\ curr' = t
             /\ i' = i + 1
  /\ UNCHANGED <<pc, listVars, closed, pfds, reports>>

\* The visit ends the transfer: DATA_READY, and the callback runs.
VisitReports ==
  /\ pc = "walk"
  /\ link[curr] # Null
  /\ LET t == link[curr]
     IN  \E flags \in Observed :
           \E outcome \in Outcomes(t, flags) \intersect {"success", "error"} :
             /\ pipe' = [pipe EXCEPT ![t] = @ - Block(t, flags)]
             /\ reports' = [reports EXCEPT ![t] = Append(@, outcome)]
             /\ pc' = "callback"
  /\ UNCHANGED <<listVars, closed, taken, walkVars>>

\* Mutant: the transfer is freed but not unlinked.
CallbackReturnsKeepsLink(t) ==
  /\ pc = "callback"
  /\ stage[t] = "pending"
  /\ reports[t] # <<>>
  /\ stage' = [stage EXCEPT ![t] = "freed"]
  /\ curr' = t
  /\ i' = i + 1
  /\ pc' = "walk"
  /\ UNCHANGED <<link, sourceVars, taken, pfds, reports>>

\* Mutant: the transfer is neither unlinked nor freed.
CallbackReturnsLater(t) ==
  /\ pc = "callback"
  /\ stage[t] = "pending"
  /\ reports[t] # <<>>
  /\ curr' = t
  /\ i' = i + 1
  /\ pc' = "walk"
  /\ UNCHANGED <<listVars, sourceVars, taken, pfds, reports>>

\* The callback returns: *curr_ptr = transfer->next, the transfer is freed.
\* The index stays, although the array did not move.
CallbackReturns(t) ==
  /\ pc = "callback"
  /\ stage[t] = "pending"
  /\ reports[t] # <<>>
  /\ link' = [link EXCEPT ![curr] = link[t]]
  /\ stage' = [stage EXCEPT ![t] = "freed"]
  /\ pc' = "walk"
  /\ UNCHANGED <<sourceVars, taken, walkVars, reports>>

EndWalk ==
  /\ pc = "walk"
  /\ link[curr] = Null
  /\ pc' = "idle"
  /\ UNCHANGED <<listVars, sourceVars, taken, walkVars, reports>>

----------------------------------------------------------------------------
Init ==
  /\ pc = "idle"
  /\ link = [x \in Links |-> Null]
  /\ stage = [t \in Transfers |-> "unused"]
  /\ pipe = [t \in Transfers |-> 0]
  /\ closed = [t \in Transfers |-> FALSE]
  /\ taken = [t \in Transfers |-> 0]
  /\ pfds = <<>>
  /\ curr = "head"
  /\ i = 1
  /\ reports = [t \in Transfers |-> <<>>]

PumpStep ==
  \/ Poll
  \/ VisitMovesOn
  \/ VisitReports
  \/ \E t \in Transfers : CallbackReturns(t)
  \/ EndWalk

Next ==
  \/ PumpStep
  \/ \E t \in Transfers :
       \/ Pull(t)
       \/ PullWithoutPipe(t)
       \/ PullWithoutMemory(t)
       \/ SourceWrite(t)
       \/ SourceClose(t)

Spec == Init /\ [][Next]_vars

\* The application pumps and every source closes its pipe in the end.
FairSpec ==
  /\ Spec
  /\ WF_vars(PumpStep)
  /\ \A t \in Transfers : WF_vars(SourceClose(t))

----------------------------------------------------------------------------
TypeOK ==
  /\ pc \in {"idle", "walk", "callback"}
  /\ link \in [Links -> Transfers \union {Null}]
  /\ stage \in [Transfers -> {"unused", "pending", "dropped", "freed"}]
  /\ pipe \in [Transfers -> 0 .. MaxBlocks]
  /\ closed \in [Transfers -> BOOLEAN]
  /\ taken \in [Transfers -> 0 .. MaxBlocks]
  /\ pfds \in Seq(Flags)
  /\ curr \in Links
  /\ i \in Nat
  /\ reports \in [Transfers -> Seq({"success", "error"})]

\* Memory: the walk and the list reach only transfers that are not freed.  A
\* callback that pulls changes the head of the list under the walk, so the
\* link the walk holds could be a field of a freed transfer.
NothingFreedIsReached ==
  /\ \A n \in DOMAIN Reached :
       Reached[n] # Null => stage[Reached[n]] = "pending"
  /\ pc # "idle" => curr = "head" \/ stage[curr] = "pending"

\* A pending transfer stays linked, whatever callbacks prepend in front of it
\* while the walk holds a link: one that is not would never be polled again.
\* Pulls made in a callback are excepted: see EveryPullCompletes.
PendingIsLinked ==
  \A t \in Transfers \ Nested :
    stage[t] = "pending" => \E n \in DOMAIN Reached : Reached[n] = t

\* The walk and its callbacks leave a list of all that is pending and of nothing
\* else.
ListIsSound == TypeOK /\ NothingFreedIsReached /\ PendingIsLinked

\* A transfer is reported at most once, and is freed only once reported.
ReportedOnce ==
  \A t \in Transfers :
    /\ Len(reports[t]) <= 1
    /\ stage[t] = "freed" => reports[t] # <<>>

\* Progress: a pull the application makes between two pumps completes.
PullCompletes ==
  \A t \in Transfers \ Nested : stage[t] = "pending" ~> reports[t] # <<>>

\* "Fired when an asynchronous data pull completes" (include/lvkw/c/events.h),
\* one made in a callback too: *curr_ptr = transfer->next drops it when the
\* callback was that of the first transfer of the list.
EveryPullCompletes ==
  \A t \in Transfers : stage[t] = "pending" ~> reports[t] # <<>>

\* "Refactored clipboard/selection pull operations to match non-blocking DND
\* behavior via DATA_READY event" (TODO.md): the read of a drop takes POLLHUP
\* for a descriptor that is ready (wayland_events.c) and ends well at the end
\* of the data.  So does a pull that has read every block its source wrote,
\* once the source has closed its end.
PullSucceeds ==
  \A t \in Transfers :
    closed[t] /\ taken[t] = MaxBlocks /\ reports[t] # <<>> =>
      reports[t] = <<"success">>
=============================================================================
