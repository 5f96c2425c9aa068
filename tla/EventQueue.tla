---------------------------- MODULE EventQueue ----------------------------
(***************************************************************************)
(* What lvkw_events_post and the pump give an application, whatever the    *)
(* ring does inside: the posted notifications form one bounded queue.      *)
(* An accepted post appends one message; the pump hands the oldest message *)
(* to the application callback, or discards it when its type is masked.    *)
(* Nothing is lost, overtaken or overwritten before it is handed out.      *)
(*                                                                         *)
(* Once a callback has pumped, what was handed out may come again.         *)
(*                                                                         *)
(* The ring of src/lvkw/common/context/context.c is shown to implement     *)
(* this module in EventRing.tla.                                           *)
(***************************************************************************)
EXTENDS Naturals, Sequences

CONSTANTS
  Messages,   \* everything that can be posted
  Limit       \* the most messages the queue may hold

VARIABLES
  queue,      \* the accepted messages nobody has taken yet, oldest first
  mask,       \* the event types the application wants
  again,      \* a callback has pumped
  delivered   \* the message of the latest callback, <<>> before the first

qvars == <<queue, mask, again, delivered>>

Init ==
  /\ queue = <<>>
  /\ mask = {m.type : m \in Messages}
  /\ again = FALSE
  /\ delivered = <<>>

\* A post is accepted only while there is room.
Accept(m) ==
  /\ Len(queue) < Limit
  /\ queue' = Append(queue, m)
  /\ UNCHANGED <<mask, again, delivered>>

\* The pump passes the oldest message to the callback.
Deliver ==
  /\ queue # <<>>
  /\ Head(queue).type \in mask
  /\ delivered' = <<Head(queue)>>
  /\ queue' = Tail(queue)
  /\ UNCHANGED <<mask, again>>

\* The pump skips the oldest message: the event mask excludes its type.
Discard ==
  /\ queue # <<>>
  /\ Head(queue).type \notin mask
  /\ queue' = Tail(queue)
  /\ UNCHANGED <<mask, again, delivered>>

\* The application changes the mask.
Select ==
  /\ mask' \in SUBSET {m.type : m \in Messages}
  /\ UNCHANGED <<queue, again, delivered>>

\* A callback pumps.
PumpAgain ==
  /\ again' = TRUE
  /\ UNCHANGED <<queue, mask, delivered>>

\* From then on a slot may be handed out again, with whatever is in it.
Repeat ==
  /\ again
  /\ \E m \in Messages : m.type \in mask /\ delivered' = <<m>>
  /\ UNCHANGED <<queue, mask, again>>

Next ==
  \/ \E m \in Messages : Accept(m)
  \/ Deliver
  \/ Discard
  \/ Select
  \/ PumpAgain
  \/ Repeat

Spec == Init /\ [][Next]_qvars
===========================================================================
