----------------------------- MODULE X11Monitors -----------------------------
(***************************************************************************)
(* The monitors of the X11 backend: _lvkw_x11_update_monitors              *)
(* (x11_context.c) reads the server's outputs after every RandR             *)
(* notification, and tells the application what came, changed and went.     *)
(* The application's callback may pump (it does when it reads the           *)
(* clipboard), so that one update runs inside another, over the same list   *)
(* and the same LOST flags.                                                 *)
(*                                                                          *)
(* An output is off or shows a mode; names, positions, the list of modes    *)
(* and the scale, which no update changes, are left out.  An output does    *)
(* not change between the two requests that read it.  Memory is found for   *)
(* each record: the code does not look.                                     *)
(***************************************************************************)
EXTENDS Naturals, Sequences

CONSTANTS Outputs,      \* the server's outputs, in its order (a sequence)
          Mode,         \* what an output that is on may show
          Off,          \* what an output that is off shows
          MaxDepth,     \* bound: updates open at once
          MaxChanges    \* bound: changes of the server's outputs

Output == {Outputs[k] : k \in DOMAIN Outputs}

ASSUME Assumptions ==
  /\ Outputs \in Seq(Output)
  /\ Off \notin Mode
  /\ MaxDepth \in Nat /\ MaxChanges \in Nat

VARIABLES live,      \* the server: what each output shows
          changes,   \* changes so far
          pending,   \* notifications that the pump has not read
          list,      \* monitor_list: the outputs that have a record
          lost,      \* those whose record is flagged LOST
          mode,      \* current_mode of each record
          updates,   \* the calls of update_monitors, the innermost last
          told,      \* the last MONITOR_CONNECTION of each output
          toldMode   \* the mode that its last event showed

server == <<live, changes, pending>>
records == <<list, lost, mode>>
events == <<told, toldMode>>
vars == <<server, records, updates, events>>

\* A call: the outputs left to visit or the records left to sweep, and
\* whether a callback is running.
Update == [at : {"visit", "sweep"}, todo : Seq(Output), calling : BOOLEAN]

Members(s) == {s[k] : k \in DOMAIN s}
Known == Members(list)
Present == Known \ lost          \* what lvkw_ctx_getMonitors_X11 returns
On == {o \in Output : live[o] # Off}
Top == updates[Len(updates)]
SetTop(u) == [updates EXCEPT ![Len(updates)] = u]
\* The application runs: at rest or in a callback.
Idle == updates # <<>> => Top.calling

\* Types, and no output has two records.
TypeOK ==
  /\ live \in [Output -> Mode \union {Off}]
  /\ changes \in 0 .. MaxChanges /\ pending \in 0 .. MaxChanges
  /\ list \in Seq(Output)
  /\ \A j, k \in DOMAIN list : list[j] = list[k] => j = k
  /\ lost \subseteq Known
  /\ mode \in [Output -> Mode \union {Off}]
  /\ Len(updates) <= MaxDepth
  /\ updates \in Seq(Update)
  /\ told \in [Output -> {"never", "connected", "gone"}]
  /\ toldMode \in [Output -> Mode \union {Off}]

\* The context is made while no output is on.
Init ==
  /\ live = [o \in Output |-> Off]
  /\ changes = 0
  /\ pending = 0
  /\ list = <<>>
  /\ lost = {}
  /\ mode = [o \in Output |-> Off]
  /\ updates = <<>>
  /\ told = [o \in Output |-> "never"]
  /\ toldMode = [o \in Output |-> Off]

-----------------------------------------------------------------------------
\* The server: an output is switched on or off or shows another mode.
Change(o, m) ==
  /\ changes < MaxChanges
  /\ live[o] # m
  /\ live' = [live EXCEPT ![o] = m]
  /\ changes' = changes + 1
  /\ pending' = pending + 1
  /\ UNCHANGED <<records, updates, events>>

\* The pump, of the application at rest or in a callback, reads a
\* notification: every record is taken for lost until its output is seen.
Begin ==
  /\ Idle
  /\ pending > 0
  /\ Len(updates) < MaxDepth
  /\ pending' = pending - 1
  /\ lost' = Known
  /\ updates' = Append(updates,
                       [at |-> "visit", todo |-> Outputs, calling |-> FALSE])
  /\ UNCHANGED <<live, changes, list, mode, events>>

At(where) == updates # <<>> /\ Top.at = where /\ ~Top.calling
Going(where) == At(where) /\ Top.todo # <<>>

Skip == updates' = SetTop([Top EXCEPT !.todo = Tail(@)])
CallBack == updates' = SetTop([Top EXCEPT !.todo = Tail(@), !.calling = TRUE])

VisitOff ==
  /\ Going("visit")
  /\ live[Head(Top.todo)] = Off
  /\ Skip
  /\ UNCHANGED <<server, records, events>>

\* Mutant: a record that was lost is not used again.
HasRecordPresent(o) == o \in Present

HasRecord(o) == o \in Known

\* Mutant: the flag is cleared where the record is made.
SeenWhenMade(o) == IF HasRecord(o) THEN lost ELSE lost \ {o}

Seen(o) == lost \ {o}

\* Mutant: the old mode is read after the new one has been stored.
ModeChangedLate(o) == live[o] # live[o]

ModeChanged(o) == mode[o] # live[o]

\* An output that is on: its record is found or made and filled in.  A new one
\* is announced as connected, another only if its mode is a different one; a
\* SYNC follows either way, so that a callback always runs.
VisitOn ==
  LET o == Head(Top.todo)
  IN  /\ Going("visit")
      /\ live[o] # Off
      /\ list' = IF HasRecord(o) THEN list ELSE <<o>> \o list
      /\ lost' = Seen(o)
      /\ mode' = [mode EXCEPT ![o] = live[o]]
      /\ told' = IF HasRecord(o) THEN told ELSE [told EXCEPT ![o] = "connected"]
      /\ toldMode' = IF HasRecord(o) /\ ~ModeChanged(o) THEN toldMode
                     ELSE [toldMode EXCEPT ![o] = live[o]]
      /\ CallBack
      /\ UNCHANGED server

\* All outputs are visited: the list is swept from its head.
BeginSweep ==
  /\ At("visit") /\ Top.todo = <<>>
  /\ updates' = SetTop([Top EXCEPT !.at = "sweep", !.todo = list])
  /\ UNCHANGED <<server, records, events>>

SweepPresent ==
  /\ Going("sweep")
  /\ Head(Top.todo) \notin lost
  /\ Skip
  /\ UNCHANGED <<server, records, events>>

\* A record whose output was not seen is announced as gone, each time.
SweepLost ==
  /\ Going("sweep")
  /\ Head(Top.todo) \in lost
  /\ told' = [told EXCEPT ![Head(Top.todo)] = "gone"]
  /\ CallBack
  /\ UNCHANGED <<server, records, toldMode>>

CallbackReturns ==
  /\ updates # <<>> /\ Top.calling
  /\ updates' = SetTop([Top EXCEPT !.calling = FALSE])
  /\ UNCHANGED <<server, records, events>>

End ==
  /\ At("sweep") /\ Top.todo = <<>>
  /\ updates' = SubSeq(updates, 1, Len(updates) - 1)
  /\ UNCHANGED <<server, records, events>>

Next ==
  \/ \E o \in Output, m \in Mode \union {Off} : Change(o, m)
  \/ Begin
  \/ VisitOff
  \/ VisitOn
  \/ BeginSweep
  \/ SweepPresent
  \/ SweepLost
  \/ CallbackReturns
  \/ End

Spec == Init /\ [][Next]_vars

-----------------------------------------------------------------------------
(* Properties.                                                              *)

Rest == updates = <<>> /\ pending = 0

\* When every notification has been handled, the monitors that the application
\* can enumerate are the outputs that are on, with the modes they show, however
\* updates were nested and whatever changed while they ran.
ListFollows == Rest => Present = On /\ \A o \in On : mode[o] = live[o]

\* When no update runs, every monitor of the list has been announced, those that
\* are lost have been announced as gone since, and the last mode that an event
\* of a monitor showed is the one of its record, however updates were nested.
\* A monitor that came back may have been announced as gone last, and so is no
\* news to the application: see ConnectionIsTold.
LossesAndModesAreTold ==
  updates = <<>> =>
    /\ \A o \in Known : told[o] # "never" /\ toldMode[o] = mode[o]
    /\ \A o \in lost : told[o] = "gone"

\* MONITOR_CONNECTION is "fired when a monitor is connected or disconnected"
\* (docs/user_guide/monitors.md): once every notification is handled, the last
\* one of a monitor says what it is.
\* The code violates this when a monitor comes back: its record is used again
\* and nothing is announced.
ConnectionIsTold ==
  Rest => \A o \in Output : told[o] = "connected" <=> o \in On

\* "You can retrieve a list of all currently connected monitors from the
\* context" (docs/user_guide/monitors.md).  Not so in the callbacks of an
\* update, where the outputs it has not reached yet are flagged LOST.
EnumerationIsComplete ==
  pending = 0 /\ updates # <<>> /\ Top.calling => On \intersect Known \subseteq Present
=============================================================================
