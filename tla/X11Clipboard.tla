---------------------------- MODULE X11Clipboard ----------------------------
(***************************************************************************)
(* The clipboard of the X11 backend (x11_window.c): windows of one context  *)
(* own the selection or read it from another client.  A read sends          *)
(* ConvertSelection, and then pumps events in slices of 10 ms until the     *)
(* answer is a property of the window or a second has passed.  The pump     *)
(* runs the application's callbacks, which read and write the clipboard     *)
(* again, so that reads nest; and the answer to a read that gave up still   *)
(* arrives.                                                                 *)
(*                                                                          *)
(* Text stands for the two text types of the API: either is asked as "utf8" *)
(* and then as "string".  An answer that needs more than one property       *)
(* (INCR), failing allocations of a read and the contents of the data are   *)
(* left out; what is read is known by the conversion it answers.            *)
(***************************************************************************)
EXTENDS Naturals, Sequences

CONSTANTS Window,     \* the windows of the context
          Other,      \* every other client of the server
          Nobody,     \* no window, no owner, no answer
          Writes,     \* the sets of types that an application writes
          MaxReads,   \* bound: reads open at once
          MaxAsked    \* bound: conversions that the calls of one behaviour may ask

Mime == {"text", "image"}
Call == {"data", "text", "types"}    \* getClipboardData, -Text, -MimeTypes
Target == {"utf8", "string", "image", "targets"}

TargetsOf(mime) == IF mime = "text" THEN <<"utf8", "string">> ELSE <<"image">>

\* The targets a call asks for, in order, until one is answered: -Text calls
\* -Data for either text type.
Plan(call, mime) ==
  CASE call = "data"  -> TargetsOf(mime)
    [] call = "text"  -> TargetsOf("text") \o TargetsOf("text")
    [] call = "types" -> <<"targets">>

\* A list of targets is an array of atoms, everything else is bytes.
Format(target) == IF target = "targets" THEN 32 ELSE 8

Id == 1 .. MaxAsked
Conversion == [id : Id, win : Window, target : Target]

\* The names for no window and for other clients stand for nothing else.
ASSUME ClipboardAssumption ==
  /\ Other # Nobody
  /\ {Other, Nobody} \cap (Window \union Conversion) = {}
  /\ Writes \subseteq SUBSET Mime
  /\ MaxReads \in Nat
  /\ MaxAsked \in Nat

VARIABLES windows,     \* the windows that exist
          owner,       \* the server: who owns the selection
          ownerWindow, \* ctx->clipboard_owner_window
          owned,       \* ctx->clipboard_owned_mimes
          property,    \* the clipboard property of each window
          answering,   \* conversions another client has still to answer
          asked,       \* conversions that the calls so far may ask
          reads,       \* the calls that wait for an answer, the innermost last
          last         \* the call that has just returned (for the properties)

clipboardVars == <<windows, owner, ownerWindow, owned, property, answering,
                   asked, reads, last>>

\* A call: its first conversion, the targets left to ask, whether it is over
\* with the one it has asked last, and for the properties the earlier
\* conversions of the window that could still be answered, whether one of its
\* own was while it waited for it and no probe has failed since, and whether
\* no other read used the window meanwhile.
Read == [call : Call, win : Window, mime : Mime, first : Id,
         todo : Seq(Target), over : BOOLEAN, before : SUBSET Id,
         answered : BOOLEAN, alone : BOOLEAN]

Ids(read) == read.first .. read.first + Len(Plan(read.call, read.mime)) - 1
NextId(read) == read.first + Len(Plan(read.call, read.mime)) - Len(read.todo)

NoCall == [ok |-> FALSE, got |-> Nobody]

\* Types, with what they depend on: conversions are told apart by their ids,
\* the calls that wait have windows, and a call that succeeds returns data.
ClipboardTypeOK ==
  /\ windows \subseteq Window
  /\ owner \in windows \union {Other, Nobody}
  /\ ownerWindow \in Window \union {Nobody}
  /\ owned \subseteq Mime
  /\ property \in [Window -> Conversion \union {Nobody}]
  /\ answering \subseteq Conversion
  /\ \A a, b \in answering : a.id = b.id => a = b
  /\ asked \in 0 .. MaxAsked
  /\ Len(reads) <= MaxReads
  /\ \A k \in DOMAIN reads : reads[k] \in Read /\ reads[k].win \in windows
  /\ last.got \in Conversion \union {Other, Nobody}
  /\ last.ok => last.got # Nobody

ClipboardInit ==
  /\ windows = Window
  /\ owner \in {Other, Nobody}
  /\ ownerWindow = Nobody
  /\ owned = {}
  /\ property = [w \in Window |-> Nobody]
  /\ answering = {}
  /\ asked = 0
  /\ reads = <<>>
  /\ last = NoCall

-----------------------------------------------------------------------------
(* Reading.                                                                 *)

Inner == reads[Len(reads)]
Below == SubSeq(reads, 1, Len(reads) - 1)

\* The innermost call pumps events and probes its window.
Waiting == reads # <<>> /\ ~Inner.over

\* The application runs: at rest, or in a callback of a pump that waits.
Running == reads # <<>> => Waiting

Deleted(w) == [property EXCEPT ![w] = Nobody]

\* Mutant: the property of an earlier answer is left in place.
RequestKeepsProperty(read, rest) ==
  LET w == read.win
      c == [id |-> NextId(read), win |-> w, target |-> Head(read.todo)]
  IN  /\ answering' = answering \union IF owner = Other THEN {c} ELSE {}
      /\ reads' = Append([k \in DOMAIN rest |->
                            [rest[k] EXCEPT !.alone = @ /\ rest[k].win # w]],
                         [read EXCEPT !.todo = Tail(@), !.over = FALSE])
      /\ last' = NoCall
      /\ UNCHANGED property

\* Delete the property, ask the owner for the next target and wait.  The
\* server answers for an owner that is not there; a window of this context
\* gets a SelectionRequest, which process_event drops.
Request(read, rest) ==
  LET w == read.win
      c == [id |-> NextId(read), win |-> w, target |-> Head(read.todo)]
  IN  /\ property' = Deleted(w)
      /\ answering' = answering \union IF owner = Other THEN {c} ELSE {}
      /\ reads' = Append([k \in DOMAIN rest |->
                            [rest[k] EXCEPT !.alone = @ /\ rest[k].win # w]],
                         [read EXCEPT !.todo = Tail(@), !.over = FALSE])
      /\ last' = NoCall

\* The call returns: got is the conversion whose answer it takes, Other for
\* what the context itself has written, Nobody for nothing.
Finish(read, rest, ok, got) ==
  /\ reads' = rest
  /\ last' = [ok |-> ok, got |-> got, read |-> read, owner |-> owner]

\* No client of the server has ever named this type: there is no atom to ask
\* for.  Text is then asked as UTF8_STRING.
Unnamed(read) == read.call = "data" /\ read.mime \in Mime \ (owned \union {"text"})

\* getClipboardData and getClipboardMimeTypes from their first line: a window
\* that has written the clipboard answers from what it wrote, another fails at
\* once or asks.
Body(read, rest) ==
  \/ /\ ownerWindow = read.win
     /\ LET found == read.call = "types" \/ read.mime \in owned
        IN  Finish(read, rest, found, IF found THEN Other ELSE Nobody)
     /\ UNCHANGED <<property, answering>>
  \/ /\ ownerWindow # read.win
     /\ Unnamed(read)
     /\ Finish(read, rest, FALSE, Nobody)
     /\ UNCHANGED <<property, answering>>
  \/ ownerWindow # read.win /\ Request(read, rest)

\* The application reads.
Get(w, call, mime) ==
  LET plan == Plan(call, mime)
  IN  /\ Running
      /\ w \in windows
      /\ call # "data" => mime = "text"
      /\ Len(reads) < MaxReads
      /\ asked + Len(plan) <= MaxAsked
      /\ asked' = asked + Len(plan)
      /\ Body([call |-> call, win |-> w, mime |-> mime, first |-> asked + 1,
               todo |-> plan, over |-> FALSE, answered |-> FALSE,
               alone |-> TRUE,
               before |-> {c.id : c \in {d \in answering : d.win = w}}], reads)
      /\ UNCHANGED <<windows, owner, ownerWindow, owned>>

\* The last two targets of -Text are a second call of -Data.
SecondTry(read) == read.call = "text" /\ Len(read.todo) = 2

\* The probe after a pump finds the property: whatever it holds is taken for
\* the answer, and the property is deleted.
Expected(read) == IF read.call = "types" THEN 32 ELSE 8
Answered == Waiting /\ property[Inner.win] # Nobody

\* Mutant: nothing looks whether the property is there.
TakeUnprobed ==
  /\ Waiting
  /\ Finish(Inner, Below, TRUE, property[Inner.win])
  /\ property' = Deleted(Inner.win)
  /\ UNCHANGED <<windows, owner, ownerWindow, owned, answering, asked>>

Take ==
  /\ Answered
  /\ Format(property[Inner.win].target) = Expected(Inner)
  /\ Finish(Inner, Below, TRUE, property[Inner.win])
  /\ property' = Deleted(Inner.win)
  /\ UNCHANGED <<windows, owner, ownerWindow, owned, answering, asked>>

\* The innermost call is over with what it asked last; todo is left to ask.
GivesUp(todo, answered) ==
  /\ reads' = Append(Below, [Inner EXCEPT !.todo = todo, !.over = TRUE,
                                          !.answered = answered])
  /\ last' = NoCall

\* An answer in another format fails -Data without a try of its next target.
TakeUnsupported ==
  /\ Answered
  /\ Format(property[Inner.win].target) # Expected(Inner)
  /\ property' = Deleted(Inner.win)
  /\ IF Inner.call = "text" /\ Len(Inner.todo) >= 2
     THEN GivesUp(TargetsOf("text"), Inner.answered)
     ELSE Finish(Inner, Below, FALSE, property[Inner.win])
  /\ UNCHANGED <<windows, owner, ownerWindow, owned, answering, asked>>

\* The last probe finds nothing, and then a second has passed.
LastProbe ==
  /\ Waiting
  /\ property[Inner.win] = Nobody
  /\ GivesUp(Inner.todo, Inner.answered)
  /\ UNCHANGED <<windows, owner, ownerWindow, owned, property, answering, asked>>

\* A pump, a probe or the fetch of an answer fails, or the second passes before
\* the first probe.
Fail ==
  /\ Waiting
  /\ GivesUp(Inner.todo, FALSE)
  /\ UNCHANGED <<windows, owner, ownerWindow, owned, property, answering, asked>>

\* The call goes on after it gave up a conversion, whose answer may have come
\* in between: with its next target, or without success.
NextTry ==
  /\ reads # <<>>
  /\ Inner.over
  /\ \/ /\ Inner.todo = <<>>
        /\ Finish(Inner, Below, FALSE, Nobody)
        /\ UNCHANGED <<property, answering>>
     \/ SecondTry(Inner) /\ Body(Inner, Below)
     \/ Inner.todo # <<>> /\ ~SecondTry(Inner) /\ Request(Inner, Below)
  /\ UNCHANGED <<windows, owner, ownerWindow, owned, asked>>

-----------------------------------------------------------------------------
(* Writing, and what windows and the other clients do.                      *)

\* Mutant: the selection is taken before memory is found for the data.
SetDataOwnsFirst(w, mimes) ==
  /\ Running
  /\ w \in windows
  /\ owner' \in {w, Other}
  /\ \/ owned' = {} /\ UNCHANGED ownerWindow
     \/ owned' = mimes /\ ownerWindow' = w
  /\ UNCHANGED <<windows, property, answering, asked, reads>>
  /\ last' = NoCall

\* The old data is gone before memory for the new is found.  After the request
\* for ownership the server names another owner if one came in between.
SetData(w, mimes) ==
  /\ Running
  /\ w \in windows
  /\ \/ /\ owned' = {}
        /\ UNCHANGED <<owner, ownerWindow>>
     \/ /\ owned' = mimes
        /\ ownerWindow' = w
        /\ owner' \in {w, Other}
  /\ UNCHANGED <<windows, property, answering, asked, reads>>
  /\ last' = NoCall

\* The application destroys a window that no call waits for.  The server takes
\* the selection from it; the context keeps the name of the window.
Destroy(w) ==
  /\ Running
  /\ w \in windows
  /\ \A k \in DOMAIN reads : reads[k].win # w
  /\ windows' = windows \ {w}
  /\ owner' = IF owner = w THEN Nobody ELSE owner
  /\ property' = Deleted(w)
  /\ answering' = {c \in answering : c.win # w}
  /\ UNCHANGED <<ownerWindow, owned, asked, reads>>
  /\ last' = NoCall

\* Another client takes the selection or gives it up.  A SelectionClear goes
\* to the window that loses it, and process_event drops it.
OtherOwns ==
  /\ owner' \in {Other} \union (IF owner = Other THEN {Nobody} ELSE {})
  /\ owner' # owner
  /\ UNCHANGED <<windows, ownerWindow, owned, property, answering, asked,
                 reads>>
  /\ last' = NoCall

\* Another client answers a conversion, however late, or refuses it.
Answer(c) ==
  /\ property' = [property EXCEPT ![c.win] = c]
  /\ answering' = answering \ {c}
  /\ reads' = [k \in DOMAIN reads |->
                 [reads[k] EXCEPT !.answered =
                    @ \/ (c.id \in Ids(reads[k]) /\ ~reads[k].over)]]
  /\ UNCHANGED <<windows, owner, ownerWindow, owned, asked>>
  /\ last' = NoCall

Refuse(c) ==
  /\ answering' = answering \ {c}
  /\ UNCHANGED <<windows, owner, ownerWindow, owned, property, asked, reads>>
  /\ last' = NoCall

ClipboardNext ==
  \/ \E w \in Window, call \in Call, mime \in Mime : Get(w, call, mime)
  \/ Take
  \/ TakeUnsupported
  \/ LastProbe
  \/ Fail
  \/ NextTry
  \/ \E w \in Window, mimes \in Writes : SetData(w, mimes)
  \/ \E w \in Window : Destroy(w)
  \/ OtherOwns
  \/ \E c \in answering : Answer(c) \/ Refuse(c)

ClipboardSpec == ClipboardInit /\ [][ClipboardNext]_clipboardVars

-----------------------------------------------------------------------------
(* Properties.                                                              *)

Returned == last # NoCall
FromServer == last.got \in Conversion

\* A call takes the answer to its own conversion, unless the window had asked
\* for another that was unanswered when the call began, or was asked for
\* another by a callback while the call waited (_clipboard_request_target
\* deletes the property before it asks).  And a call that nothing of this kind
\* disturbs succeeds if one of its conversions is answered while it waits for
\* it and its pumps and probes do not fail after that.  An answer that comes
\* between the last probe for a target and the XDeleteProperty for the next is
\* lost: the call does not wait then.
ReadIsExplained ==
  Returned =>
    LET read      == last.read
        disturbed == ~read.alone \/ read.before # {}
    IN  /\ FromServer => \/ last.got.id \in Ids(read) \union read.before
                         \/ ~read.alone /\ last.got.id > read.first
        /\ ~disturbed /\ read.answered => last.ok

\* When the server knows one of the context's windows as the owner, the context
\* knows the same: reads of that window are answered from what was written and
\* never asked of the window itself, which would not answer.
OwnerIsKnown == owner \in windows => ownerWindow = owner

\* A call that succeeds returns data of the type it was asked for, from the
\* client that owns the selection.  This is what the user guide says
\* (clipboard.md, "Retrieving Specific Data"): a type that is not currently
\* available makes the call fail.  The code returns its own data after another
\* client has taken the selection, and late answers of other types.
ReadIsAvailable ==
  Returned /\ last.ok =>
    IF FromServer
    THEN last.got.target \in
           {Plan(last.read.call, last.read.mime)[k] :
              k \in DOMAIN Plan(last.read.call, last.read.mime)}
    ELSE last.owner = last.read.win

=============================================================================
