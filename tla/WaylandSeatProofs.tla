------------------------- MODULE WaylandSeatProofs -------------------------
(***************************************************************************)
(* Theorems about WaylandSeat for any number of windows, pointers and      *)
(* committed texts: the focuses follow the compositor, text input is       *)
(* enabled exactly where it is wanted, pointer locks follow the pointer,   *)
(* and the window that has the text focus is told every committed text.    *)
(*                                                                         *)
(* FocusFollows and TextInputMatches are not inductive: a message may name *)
(* any window the compositor has seen, so the argument needs that this is  *)
(* never one still to be created (Focuses), and that without a keyboard    *)
(* nothing has its focus.  TextReachesWindow is not inductive either:      *)
(* ImeInv, in the second half, says what it means within a handler and     *)
(* between the messages of one done.                                       *)
(***************************************************************************)
EXTENDS WaylandSeat, SequenceTheorems, TLAPS

\* The types the argument needs.
Typed ==
  /\ window \in [Windows -> [stage : {"new", "live", "dead"}, text : BOOLEAN,
                             mode : {"normal", "locked"}, locked : Nat]]
  /\ keyboard \in BOOLEAN
  /\ pointer \in Nat
  /\ pointers \in Nat
  /\ keyboard_focus \in MaybeWindow
  /\ pointer_focus \in MaybeWindow
  /\ comp \in [keyboard : MaybeWindow, text : MaybeWindow, on : BOOLEAN,
               pointer : MaybeWindow]

\* The compositor gives focus to windows it has seen, and takes that of the
\* keyboard with the keyboard.
Focuses ==
  /\ \A f \in {comp.keyboard, comp.text, comp.pointer} : f # None => Known(f)
  /\ ~keyboard => /\ keyboard_focus = None
                  /\ comp.keyboard = None
                  /\ comp.text = None

\* The inductive invariant.
SeatInv ==
  /\ Typed
  /\ Focuses
  /\ FocusFollows
  /\ TextInputMatches
  /\ LocksFollow

----------------------------------------------------------------------------
LEMMA InitSeatInv == Init => SeatInv
<1> SUFFICES ASSUME Init PROVE SeatInv
  OBVIOUS
<1>1. \A w \in Windows : ~Live(w) /\ window[w].locked = 0
  BY DEF Init, Live
<1>2. Typed
  BY DEF Init, Typed, MaybeWindow
<1>3. Focuses /\ FocusFollows /\ TextInputMatches
  BY DEF Init, Focuses, FocusFollows, TextInputMatches, Live
<1>4. LocksFollow
  BY <1>1 DEF LocksFollow
<1>5. QED
  BY <1>2, <1>3, <1>4 DEF SeatInv

\* What the compositor knows after a request to enable or disable text input.
LEMMA SyncComp ==
  ASSUME NEW c, NEW s, NEW w, NEW text, Sync(c, s, w, text)
  PROVE  comp' = IF keyboard /\ c.text # None
                   THEN [c EXCEPT !.on = (w # None /\ text)]
                   ELSE c
BY DEF Sync

\* Messages that change neither a window, a focus nor a device.
LEMMA SeatUnchanged ==
  ASSUME SeatInv, UNCHANGED <<window, deviceVars, focusVars, comp>>
  PROVE  SeatInv'
BY DEF SeatInv, Typed, Focuses, FocusFollows, TextInputMatches, LocksFollow,
       Live, Dead, Known, deviceVars, focusVars, MaybeWindow

----------------------------------------------------------------------------
(* wl_keyboard and zwp_text_input_v3.                                      *)

LEMMA KeyboardEnterStep ==
  ASSUME SeatInv, NEW w \in Windows, KeyboardEnter(w)
  PROVE  SeatInv'
<1> DEFINE c == [comp EXCEPT !.keyboard = w]
<1>1. /\ UNCHANGED <<window, keyboard, pointer, pointers, pointer_focus>>
      /\ keyboard
      /\ Known(w)
      /\ keyboard_focus' = LiveWindow(w)
  BY DEF KeyboardEnter, deviceVars
<1>2. /\ w # None
      /\ c \in [keyboard : MaybeWindow, text : MaybeWindow, on : BOOLEAN,
                pointer : MaybeWindow]
      /\ c.keyboard = w /\ c.text = comp.text /\ c.pointer = comp.pointer
  BY SeatAssumption DEF SeatInv, Typed, MaybeWindow
<1>3. CASE Live(w)
  <2>1. window[w].text \in BOOLEAN
    BY DEF SeatInv, Typed
  <2>2. comp' = IF c.text # None
                  THEN [c EXCEPT !.on = window[w].text]
                  ELSE c
    <3>1. Sync(c, session, w, w # None /\ window[w].text)
      BY <1>3 DEF KeyboardEnter, SyncWindow
    <3>2. (w # None /\ (w # None /\ window[w].text)) = window[w].text
      BY <1>2, <2>1
    <3> HIDE DEF c
    <3>3. QED
      BY <1>1, <3>1, <3>2, SyncComp
  <2>3. Typed'
    BY <1>1, <1>2, <2>1, <2>2, <1>3 DEF SeatInv, Typed, LiveWindow, MaybeWindow
  <2>4. Focuses'
    BY <1>1, <1>2, <2>2, <1>3 DEF SeatInv, Focuses, Known, Live, Dead
  <2>5. FocusFollows'
    BY <1>1, <1>2, <2>2, <1>3 DEF SeatInv, FocusFollows, LiveWindow, Live
  <2>6. TextInputMatches'
    BY <1>1, <1>2, <2>2, <1>3
    DEF SeatInv, Typed, TextInputMatches, LiveWindow, Live
  <2>7. LocksFollow'
    BY <1>1 DEF SeatInv, LocksFollow, Live
  <2>8. QED
    BY <2>3, <2>4, <2>5, <2>6, <2>7 DEF SeatInv
<1>4. CASE ~Live(w)
  <2>1. comp' = c
    BY <1>4 DEF KeyboardEnter
  <2>2. Typed'
    BY <1>1, <1>2, <2>1, <1>4 DEF SeatInv, Typed, LiveWindow, MaybeWindow
  <2>3. Focuses'
    BY <1>1, <1>2, <2>1 DEF SeatInv, Focuses, Known, Live, Dead
  <2>4. FocusFollows'
    BY <1>1, <1>2, <2>1, <1>4 DEF SeatInv, FocusFollows, LiveWindow, Live
  <2>5. TextInputMatches'
    BY <1>1, <1>2, <2>1, <1>4 DEF SeatInv, TextInputMatches, LiveWindow, Live
  <2>6. LocksFollow'
    BY <1>1 DEF SeatInv, LocksFollow, Live
  <2>7. QED
    BY <2>2, <2>3, <2>4, <2>5, <2>6 DEF SeatInv
<1>5. QED
  BY <1>3, <1>4

LEMMA KeyboardLeaveStep ==
  ASSUME SeatInv, KeyboardLeave
  PROVE  SeatInv'
<1> DEFINE c == [comp EXCEPT !.keyboard = None]
<1>1. /\ UNCHANGED <<window, keyboard, pointer, pointers, pointer_focus>>
      /\ keyboard_focus' = None
  BY DEF KeyboardLeave, deviceVars
<1>2. /\ c \in [keyboard : MaybeWindow, text : MaybeWindow, on : BOOLEAN,
                pointer : MaybeWindow]
      /\ c.keyboard = None /\ c.text = comp.text /\ c.pointer = comp.pointer
  BY DEF SeatInv, Typed, MaybeWindow
<1>3. comp' = IF keyboard /\ c.text # None THEN [c EXCEPT !.on = FALSE] ELSE c
  BY SyncComp DEF KeyboardLeave
<1>4. Typed'
  BY <1>1, <1>2, <1>3 DEF SeatInv, Typed, MaybeWindow
<1>5. Focuses'
  BY <1>1, <1>2, <1>3 DEF SeatInv, Focuses, Known, Live, Dead
<1>6. FocusFollows'
  BY <1>1, <1>2, <1>3 DEF SeatInv, FocusFollows, Live
<1>7. TextInputMatches'
  BY <1>1, <1>2, <1>3 DEF SeatInv, TextInputMatches, Live
<1>8. LocksFollow'
  BY <1>1 DEF SeatInv, LocksFollow, Live
<1>9. QED
  BY <1>4, <1>5, <1>6, <1>7, <1>8 DEF SeatInv

LEMMA TextEnterStep ==
  ASSUME SeatInv, NEW w \in Windows, TextEnter(w)
  PROVE  SeatInv'
<1> DEFINE c == [comp EXCEPT !.text = w, !.on = FALSE]
<1>1. /\ UNCHANGED <<window, keyboard, pointer, pointers, pointer_focus>>
      /\ keyboard
      /\ Known(w)
      /\ comp.keyboard = w \/ ~Live(comp.keyboard)
      /\ keyboard_focus' = LiveWindow(w)
  BY DEF TextEnter, deviceVars
<1>2. /\ w # None
      /\ c \in [keyboard : MaybeWindow, text : MaybeWindow, on : BOOLEAN,
                pointer : MaybeWindow]
      /\ c.text = w /\ c.keyboard = comp.keyboard /\ c.pointer = comp.pointer
  BY SeatAssumption DEF SeatInv, Typed, MaybeWindow
<1>3. CASE Live(w)
  <2>1. window[w].text \in BOOLEAN
    BY DEF SeatInv, Typed
  <2>2. comp' = [c EXCEPT !.on = window[w].text]
    <3>1. \E s : Sync(c, s, w, w # None /\ window[w].text)
      BY <1>3 DEF TextEnter, SyncWindow
    <3>2. (w # None /\ (w # None /\ window[w].text)) = window[w].text
      BY <1>2, <2>1
    <3>3. c.text # None
      BY <1>2
    <3> HIDE DEF c
    <3>4. QED
      BY <1>1, <3>1, <3>2, <3>3, SyncComp
  <2>3. Typed'
    BY <1>1, <1>2, <2>1, <2>2, <1>3 DEF SeatInv, Typed, LiveWindow, MaybeWindow
  <2>4. Focuses'
    BY <1>1, <1>2, <2>2, <1>3 DEF SeatInv, Focuses, Known, Live, Dead
  <2>5. FocusFollows'
    BY <1>1, <1>2, <2>2, <1>3 DEF SeatInv, FocusFollows, LiveWindow, Live
  <2>6. TextInputMatches'
    BY <1>1, <1>2, <2>2, <1>3
    DEF SeatInv, Typed, TextInputMatches, LiveWindow, Live
  <2>7. LocksFollow'
    BY <1>1 DEF SeatInv, LocksFollow, Live
  <2>8. QED
    BY <2>3, <2>4, <2>5, <2>6, <2>7 DEF SeatInv
<1>4. CASE ~Live(w)
  <2>1. comp' = c
    BY <1>4 DEF TextEnter
  <2>2. Typed'
    BY <1>1, <1>2, <2>1, <1>4 DEF SeatInv, Typed, LiveWindow, MaybeWindow
  <2>3. Focuses'
    BY <1>1, <1>2, <2>1 DEF SeatInv, Focuses, Known, Live, Dead
  <2>4. FocusFollows'
    BY <1>1, <1>2, <2>1, <1>4 DEF SeatInv, FocusFollows, LiveWindow, Live
  <2>5. TextInputMatches'
    BY <1>1, <1>2, <2>1, <1>4 DEF SeatInv, TextInputMatches, LiveWindow, Live
  <2>6. LocksFollow'
    BY <1>1 DEF SeatInv, LocksFollow, Live
  <2>7. QED
    BY <2>2, <2>3, <2>4, <2>5, <2>6 DEF SeatInv
<1>5. QED
  BY <1>3, <1>4

LEMMA TextLeaveStep ==
  ASSUME SeatInv, TextLeave
  PROVE  SeatInv'
<1>1. /\ UNCHANGED <<window, keyboard, pointer, pointers, keyboard_focus,
                     pointer_focus>>
      /\ comp' = [comp EXCEPT !.text = None, !.on = FALSE]
  BY DEF TextLeave, deviceVars, focusVars
<1>2. Typed'
  BY <1>1 DEF SeatInv, Typed, MaybeWindow
<1>3. Focuses'
  BY <1>1, <1>2 DEF SeatInv, Typed, Focuses, Known, Live, Dead
<1>4. FocusFollows'
  BY <1>1 DEF SeatInv, Typed, FocusFollows, Live
<1>5. TextInputMatches'
  BY <1>1 DEF SeatInv, Typed, TextInputMatches, Live
<1>6. LocksFollow'
  BY <1>1 DEF SeatInv, LocksFollow, Live
<1>7. QED
  BY <1>2, <1>3, <1>4, <1>5, <1>6 DEF SeatInv

----------------------------------------------------------------------------
(* Windows, and what the application does to them.                         *)

LEMMA CreateStep ==
  ASSUME SeatInv, NEW w \in Windows, NEW mode \in {"normal", "locked"},
         NEW text \in BOOLEAN, Create(w, mode, text)
  PROVE  SeatInv'
<1> DEFINE new == [stage |-> "live", text |-> text, mode |-> mode,
                   locked |-> LockFor(mode)]
<1>1. /\ UNCHANGED <<keyboard, pointer, pointers, keyboard_focus, pointer_focus,
                     comp>>
      /\ window' = [window EXCEPT ![w] = new]
      /\ window[w].stage = "new"
  BY DEF Create, deviceVars, focusVars
<1>2. new \in [stage : {"new", "live", "dead"}, text : BOOLEAN,
               mode : {"normal", "locked"}, locked : Nat]
  BY DEF SeatInv, Typed, LockFor
<1>3. \A v \in Windows : window'[v] = IF v = w THEN new ELSE window[v]
  BY <1>1 DEF SeatInv, Typed
<1>4. \A v \in MaybeWindow : Known(v) => v # w /\ Known(v)'
  BY <1>1, <1>3 DEF Known, Live, Dead, MaybeWindow
<1>5. \A v \in MaybeWindow : v # w => (Live(v)' <=> Live(v))
  BY <1>1, <1>3 DEF Live, MaybeWindow
<1>6. /\ {comp.keyboard, comp.text, comp.pointer, keyboard_focus,
          pointer_focus} \subseteq MaybeWindow
      /\ w \notin {comp.keyboard, comp.text, comp.pointer, keyboard_focus,
                   pointer_focus}
  BY <1>1, <1>4, SeatAssumption
     DEF SeatInv, Typed, Focuses, FocusFollows, MaybeWindow, Live
<1>7. Typed'
  BY <1>1, <1>2 DEF SeatInv, Typed
<1>8. Focuses'
  BY <1>1, <1>4, <1>6 DEF SeatInv, Focuses
<1>9. FocusFollows'
  BY <1>1, <1>5, <1>6 DEF SeatInv, FocusFollows
<1>10. TextInputMatches'
  BY <1>1, <1>3, <1>5, <1>6 DEF SeatInv, TextInputMatches, MaybeWindow, Live
<1>11. LocksFollow'
  <2>1. ASSUME NEW v \in Windows, v # w
        PROVE  window'[v].locked = IF Live(v)' /\ window'[v].mode = "locked"
                                     THEN pointer' ELSE 0
    BY <1>1, <1>3, <1>5, <2>1 DEF SeatInv, LocksFollow, MaybeWindow
  <2>2. window'[w].locked = IF Live(w)' /\ window'[w].mode = "locked"
                              THEN pointer' ELSE 0
    BY <1>1, <1>3, SeatAssumption DEF Live, LockFor
  <2>3. QED
    BY <2>1, <2>2 DEF LocksFollow
<1>12. QED
  BY <1>7, <1>8, <1>9, <1>10, <1>11 DEF SeatInv

LEMMA DestroyStep ==
  ASSUME SeatInv, NEW w \in Windows, Live(w), NEW s, DestroyWindow(w, s),
         UNCHANGED deviceVars
  PROVE  SeatInv'
<1>1. /\ UNCHANGED <<keyboard, pointer, pointers>>
      /\ window' = [window EXCEPT ![w].stage = "dead", ![w].locked = 0]
      /\ keyboard_focus' = IF keyboard_focus = w THEN None ELSE keyboard_focus
      /\ pointer_focus' = IF pointer_focus = w THEN None ELSE pointer_focus
  BY DEF DestroyWindow, deviceVars
<1>2. \/ comp' = comp
      \/ keyboard_focus = w /\ comp' = [comp EXCEPT !.on = FALSE]
  <2>1. CASE keyboard_focus = w
    <3>1. Sync(comp, s, None, FALSE)
      BY <2>1 DEF DestroyWindow
    <3>2. QED
      BY <2>1, <3>1, SyncComp
  <2>2. CASE keyboard_focus # w
    BY <2>2 DEF DestroyWindow
  <2>3. QED
    BY <2>1, <2>2
<1>3. /\ comp' \in [keyboard : MaybeWindow, text : MaybeWindow, on : BOOLEAN,
                    pointer : MaybeWindow]
      /\ comp'.keyboard = comp.keyboard
      /\ comp'.text = comp.text
      /\ comp'.pointer = comp.pointer
      /\ keyboard_focus # w => comp'.on = comp.on
  BY <1>2 DEF SeatInv, Typed
<1>4. /\ window' \in [Windows -> [stage : {"new", "live", "dead"},
                                  text : BOOLEAN, mode : {"normal", "locked"},
                                  locked : Nat]]
      /\ window'[w].stage = "dead" /\ window'[w].locked = 0
      /\ \A v \in Windows : v # w => window'[v] = window[v]
  BY <1>1 DEF SeatInv, Typed
<1>5. \A v \in MaybeWindow : /\ Known(v) => Known(v)'
                             /\ Live(v)' <=> Live(v) /\ v # w
  BY <1>4, SeatAssumption DEF Known, Live, Dead, MaybeWindow
<1>6. {comp.keyboard, comp.text, comp.pointer, keyboard_focus, pointer_focus}
        \subseteq MaybeWindow
  BY DEF SeatInv, Typed
<1>7. Typed'
  BY <1>1, <1>3, <1>4 DEF SeatInv, Typed, MaybeWindow
<1>8. Focuses'
  BY <1>1, <1>3, <1>5, <1>6 DEF SeatInv, Focuses
<1>9. FocusFollows'
  BY <1>1, <1>3, <1>5, <1>6 DEF SeatInv, FocusFollows
<1>10. TextInputMatches'
  BY <1>1, <1>3, <1>4, <1>5, <1>6 DEF SeatInv, TextInputMatches, MaybeWindow, Live
<1>11. LocksFollow'
  <2>1. ASSUME NEW v \in Windows
        PROVE  window'[v].locked = IF Live(v)' /\ window'[v].mode = "locked"
                                     THEN pointer' ELSE 0
    <3>1. CASE v = w
      BY <3>1, <1>4, <1>5 DEF MaybeWindow
    <3>2. CASE v # w
      BY <3>2, <1>1, <1>4, <1>5 DEF SeatInv, LocksFollow, MaybeWindow
    <3>3. QED
      BY <3>1, <3>2
  <2>2. QED
    BY <2>1 DEF LocksFollow
<1>12. QED
  BY <1>7, <1>8, <1>9, <1>10, <1>11 DEF SeatInv

LEMMA SetTextStep ==
  ASSUME SeatInv, NEW w \in Windows, Live(w), NEW s, NEW text \in BOOLEAN,
         SetText(w, text, s), UNCHANGED deviceVars
  PROVE  SeatInv'
<1>1. /\ UNCHANGED <<keyboard, pointer, pointers, keyboard_focus,
                     pointer_focus>>
      /\ window' = [window EXCEPT ![w].text = text]
  BY DEF SetText, deviceVars, focusVars
<1>2. w # None
  BY SeatAssumption
<1>3. \/ keyboard_focus # w /\ comp' = comp
      \/ keyboard_focus = w /\ comp' = IF comp.text # None
                                         THEN [comp EXCEPT !.on = text]
                                         ELSE comp
  <2>1. CASE keyboard_focus = w
    <3>1. Sync(comp, s, w, text)
      BY <2>1 DEF SetText
    <3>2. keyboard
      BY <1>2, <2>1 DEF SeatInv, Typed, Focuses
    <3>3. (w # None /\ text) = text
      BY <1>2
    <3>4. QED
      BY <2>1, <3>1, <3>2, <3>3, SyncComp
  <2>2. CASE keyboard_focus # w
    BY <2>2 DEF SetText
  <2>3. QED
    BY <2>1, <2>2
<1>4. /\ comp' \in [keyboard : MaybeWindow, text : MaybeWindow, on : BOOLEAN,
                    pointer : MaybeWindow]
      /\ comp'.keyboard = comp.keyboard
      /\ comp'.text = comp.text
      /\ comp'.pointer = comp.pointer
      /\ keyboard_focus # w => comp'.on = comp.on
      /\ keyboard_focus = w /\ comp.text # None => comp'.on = text
  BY <1>3 DEF SeatInv, Typed
<1>5. /\ window' \in [Windows -> [stage : {"new", "live", "dead"},
                                  text : BOOLEAN, mode : {"normal", "locked"},
                                  locked : Nat]]
      /\ window'[w].text = text
      /\ \A v \in Windows : v # w => window'[v] = window[v]
      /\ \A v \in Windows : /\ window'[v].stage = window[v].stage
                            /\ window'[v].mode = window[v].mode
                            /\ window'[v].locked = window[v].locked
  BY <1>1 DEF SeatInv, Typed
<1>6. \A v \in MaybeWindow : /\ Known(v)' <=> Known(v)
                             /\ Live(v)' <=> Live(v)
  BY <1>5 DEF Known, Live, Dead, MaybeWindow
<1>7. {comp.keyboard, comp.text, comp.pointer, keyboard_focus, pointer_focus}
        \subseteq MaybeWindow
  BY DEF SeatInv, Typed
<1>8. Typed'
  BY <1>1, <1>4, <1>5 DEF SeatInv, Typed
<1>9. Focuses'
  BY <1>1, <1>4, <1>6, <1>7 DEF SeatInv, Focuses
<1>10. FocusFollows'
  BY <1>1, <1>4, <1>6, <1>7 DEF SeatInv, FocusFollows
<1>11. TextInputMatches'
  BY <1>1, <1>2, <1>4, <1>5, <1>6, <1>7
     DEF SeatInv, TextInputMatches, MaybeWindow, Live
<1>12. LocksFollow'
  BY <1>1, <1>5, <1>6 DEF SeatInv, LocksFollow, MaybeWindow
<1>13. QED
  BY <1>8, <1>9, <1>10, <1>11, <1>12 DEF SeatInv

LEMMA SetModeStep ==
  ASSUME SeatInv, NEW w \in Windows, Live(w), NEW s,
         NEW mode \in {"normal", "locked"}, SetMode(w, mode, s),
         UNCHANGED deviceVars
  PROVE  SeatInv'
<1>1. /\ UNCHANGED <<keyboard, pointer, pointers, keyboard_focus, pointer_focus,
                     comp>>
      /\ LockFor(mode) \in Nat
  BY DEF SetMode, deviceVars, focusVars, SeatInv, Typed, LockFor
<1>2. CASE window[w].mode = mode
  <2>1. UNCHANGED <<window, deviceVars, focusVars, comp>>
    BY <1>1, <1>2 DEF SetMode, focusVars, deviceVars
  <2>2. QED
    BY <2>1, SeatUnchanged
<1>3. CASE window[w].mode # mode
  <2>1. window' = [window EXCEPT ![w].mode = mode, ![w].locked = LockFor(mode)]
    BY <1>3 DEF SetMode
  <2>2. /\ window' \in [Windows -> [stage : {"new", "live", "dead"},
                                    text : BOOLEAN, mode : {"normal", "locked"},
                                    locked : Nat]]
        /\ window'[w].mode = mode
        /\ window'[w].locked = LockFor(mode)
        /\ \A v \in Windows : v # w => window'[v] = window[v]
        /\ \A v \in Windows : /\ window'[v].stage = window[v].stage
                              /\ window'[v].text = window[v].text
    BY <1>1, <2>1 DEF SeatInv, Typed
  <2>3. \A v \in MaybeWindow : /\ Known(v)' <=> Known(v)
                               /\ Live(v)' <=> Live(v)
    BY <2>2 DEF Known, Live, Dead, MaybeWindow
  <2>4. {comp.keyboard, comp.text, comp.pointer, keyboard_focus, pointer_focus}
          \subseteq MaybeWindow
    BY DEF SeatInv, Typed
  <2>5. Typed'
    BY <1>1, <2>2 DEF SeatInv, Typed
  <2>6. Focuses'
    BY <1>1, <2>3, <2>4 DEF SeatInv, Focuses
  <2>7. FocusFollows'
    BY <1>1, <2>3, <2>4 DEF SeatInv, FocusFollows
  <2>8. TextInputMatches'
    BY <1>1, <2>2, <2>3, <2>4 DEF SeatInv, TextInputMatches, MaybeWindow, Live
  <2>9. LocksFollow'
    <3>1. ASSUME NEW v \in Windows
          PROVE  window'[v].locked = IF Live(v)' /\ window'[v].mode = "locked"
                                       THEN pointer' ELSE 0
      <4>1. CASE v = w
        BY <4>1, <1>1, <2>2, <2>3 DEF MaybeWindow, LockFor
      <4>2. CASE v # w
        BY <4>2, <1>1, <2>2, <2>3 DEF SeatInv, LocksFollow, MaybeWindow
      <4>3. QED
        BY <4>1, <4>2
    <3>2. QED
      BY <3>1 DEF LocksFollow
  <2>10. QED
    BY <2>5, <2>6, <2>7, <2>8, <2>9 DEF SeatInv
<1>4. QED
  BY <1>2, <1>3

\* Whatever the application does to a live window keeps the invariant.
LEMMA ReactStep ==
  ASSUME SeatInv, NEW w \in Windows, NEW reaction \in Reactions, NEW s,
         reaction = "keep" \/ Live(w), React(w, reaction, s),
         UNCHANGED deviceVars
  PROVE  SeatInv'
<1>1. CASE reaction = "keep"
  <2>1. UNCHANGED <<window, deviceVars, focusVars, comp>>
    BY <1>1 DEF React
  <2>2. QED
    BY <2>1, SeatUnchanged
<1>2. CASE reaction = "destroy"
  BY <1>2, DestroyStep DEF React
<1>3. CASE reaction = "text"
  BY <1>3, SetTextStep DEF React
<1>4. CASE reaction = "notext"
  BY <1>4, SetTextStep DEF React
<1>5. CASE reaction = "lock"
  BY <1>5, SetModeStep DEF React
<1>6. CASE reaction = "unlock"
  BY <1>6, SetModeStep DEF React
<1>7. QED
  BY <1>1, <1>2, <1>3, <1>4, <1>5, <1>6, SeatAssumption

----------------------------------------------------------------------------
(* wl_pointer and wl_seat.                                                 *)

LEMMA PointerEnterStep ==
  ASSUME SeatInv, NEW w \in Windows, PointerEnter(w)
  PROVE  SeatInv'
<1>1. /\ UNCHANGED <<window, keyboard, pointer, pointers, keyboard_focus>>
      /\ Known(w)
      /\ pointer_focus' = IF Live(w) THEN w ELSE pointer_focus
      /\ comp' = [comp EXCEPT !.pointer = w]
  BY DEF PointerEnter, deviceVars
<1>2. Typed'
  BY <1>1 DEF SeatInv, Typed, MaybeWindow
<1>3. Focuses'
  BY <1>1 DEF SeatInv, Typed, Focuses, Known, Live, Dead
<1>4. FocusFollows'
  BY <1>1 DEF SeatInv, Typed, FocusFollows, Live
<1>5. TextInputMatches'
  BY <1>1 DEF SeatInv, Typed, TextInputMatches, Live
<1>6. LocksFollow'
  BY <1>1 DEF SeatInv, LocksFollow, Live
<1>7. QED
  BY <1>2, <1>3, <1>4, <1>5, <1>6 DEF SeatInv

LEMMA PointerLeaveStep ==
  ASSUME SeatInv, PointerLeave
  PROVE  SeatInv'
<1>1. /\ UNCHANGED <<window, keyboard, pointer, pointers, keyboard_focus>>
      /\ pointer_focus' = None
      /\ comp' = [comp EXCEPT !.pointer = None]
  BY DEF PointerLeave, deviceVars
<1>2. Typed'
  BY <1>1 DEF SeatInv, Typed, MaybeWindow
<1>3. Focuses'
  BY <1>1 DEF SeatInv, Typed, Focuses, Known, Live, Dead
<1>4. FocusFollows'
  BY <1>1 DEF SeatInv, Typed, FocusFollows, Live
<1>5. TextInputMatches'
  BY <1>1 DEF SeatInv, Typed, TextInputMatches, Live
<1>6. LocksFollow'
  BY <1>1 DEF SeatInv, LocksFollow, Live
<1>7. QED
  BY <1>2, <1>3, <1>4, <1>5, <1>6 DEF SeatInv

\* What a pointer that comes or goes does to the windows: only their locks
\* change, and they are those of the new pointer.
LEMMA RelockWindows ==
  ASSUME SeatInv, NEW p \in Nat, p = 0 \/ pointer = 0
  PROVE  /\ Relock(p) \in [Windows -> [stage : {"new", "live", "dead"},
                                       text : BOOLEAN,
                                       mode : {"normal", "locked"},
                                       locked : Nat]]
         /\ \A w \in Windows :
              /\ Relock(p)[w].stage = window[w].stage
              /\ Relock(p)[w].text = window[w].text
              /\ Relock(p)[w].locked =
                   IF Live(w) /\ Relock(p)[w].mode = "locked" THEN p ELSE 0
<1>1. ASSUME NEW w \in Windows
      PROVE  /\ Relock(p)[w] \in [stage : {"new", "live", "dead"},
                                  text : BOOLEAN, mode : {"normal", "locked"},
                                  locked : Nat]
             /\ Relock(p)[w].stage = window[w].stage
             /\ Relock(p)[w].text = window[w].text
             /\ Relock(p)[w].locked =
                  IF Live(w) /\ Relock(p)[w].mode = "locked" THEN p ELSE 0
  <2>1. /\ window[w] \in [stage : {"new", "live", "dead"}, text : BOOLEAN,
                          mode : {"normal", "locked"}, locked : Nat]
        /\ window[w].locked =
             IF Live(w) /\ window[w].mode = "locked" THEN pointer ELSE 0
    BY DEF SeatInv, Typed, LocksFollow
  <2>2. CASE ~Live(w)
    BY <2>1, <2>2 DEF Relock
  <2>3. CASE Live(w) /\ p = 0
    <3>1. Relock(p)[w] = [window[w] EXCEPT !.locked = 0]
      BY <2>3 DEF Relock
    <3>2. QED
      BY <2>1, <2>3, <3>1
  <2>4. CASE Live(w) /\ p # 0
    <3>1. Relock(p)[w] = IF window[w].mode = "locked" /\ window[w].locked = 0
                           THEN [window[w] EXCEPT !.locked = p]
                           ELSE window[w]
      BY <2>4 DEF Relock
    <3>2. QED
      BY <2>1, <2>4, <3>1
  <2>5. QED
    BY <2>2, <2>3, <2>4
<1>2. Relock(p) = [w \in Windows |-> Relock(p)[w]]
  BY DEF Relock
<1>3. QED
  BY <1>1, <1>2

LEMMA CapabilitiesStep ==
  ASSUME SeatInv, NEW k \in BOOLEAN, NEW p \in BOOLEAN, Capabilities(k, p)
  PROVE  SeatInv'
<1>1. /\ UNCHANGED pointer_focus
      /\ keyboard' = k
      /\ keyboard_focus' = IF keyboard /\ ~k THEN None ELSE keyboard_focus
      /\ comp' = [keyboard |-> IF k THEN comp.keyboard ELSE None,
                  text     |-> IF k THEN comp.text ELSE None,
                  on       |-> k /\ comp.on,
                  pointer  |-> IF p THEN comp.pointer ELSE None]
  BY DEF Capabilities, FocusWith
<1>2. /\ pointer' \in Nat
      /\ pointers' \in Nat
      /\ p = (pointer # 0) => pointer' = pointer
      /\ p # (pointer # 0) => pointer' = 0 \/ pointer = 0
  BY DEF Capabilities, SeatInv, Typed
<1>3. window' = IF p # (pointer # 0) THEN Relock(pointer') ELSE window
  BY DEF Capabilities
<1>4. /\ window' \in [Windows -> [stage : {"new", "live", "dead"},
                                  text : BOOLEAN, mode : {"normal", "locked"},
                                  locked : Nat]]
      /\ \A w \in Windows :
           /\ window'[w].stage = window[w].stage
           /\ window'[w].text = window[w].text
           /\ window'[w].locked = IF Live(w) /\ window'[w].mode = "locked"
                                    THEN pointer' ELSE 0
  <2>1. CASE p # (pointer # 0)
    BY <1>2, <1>3, <2>1, RelockWindows
  <2>2. CASE p = (pointer # 0)
    BY <1>2, <1>3, <2>2 DEF SeatInv, Typed, LocksFollow
  <2>3. QED
    BY <2>1, <2>2
<1>5. \A w \in MaybeWindow : /\ Known(w)' <=> Known(w)
                             /\ Live(w)' <=> Live(w)
  BY <1>4 DEF Known, Live, Dead, MaybeWindow
<1>6. /\ {comp.keyboard, comp.text, comp.pointer, keyboard_focus,
          pointer_focus} \subseteq MaybeWindow
      /\ comp.on \in BOOLEAN
  BY DEF SeatInv, Typed
<1>7. Typed'
  BY <1>1, <1>2, <1>4, <1>6 DEF SeatInv, Typed, MaybeWindow
<1>8. Focuses'
  BY <1>1, <1>5, <1>6 DEF SeatInv, Typed, Focuses
<1>9. FocusFollows'
  BY <1>1, <1>5, <1>6, SeatAssumption
     DEF SeatInv, Typed, Focuses, FocusFollows, Live
<1>10. TextInputMatches'
  BY <1>1, <1>4, <1>5, <1>6
  DEF SeatInv, Typed, TextInputMatches, MaybeWindow, Live
<1>11. LocksFollow'
  BY <1>4, <1>5 DEF LocksFollow, MaybeWindow
<1>12. QED
  BY <1>7, <1>8, <1>9, <1>10, <1>11 DEF SeatInv

----------------------------------------------------------------------------
LEMMA NextSeatInv == SeatInv /\ [Next]_vars => SeatInv'
<1> SUFFICES ASSUME SeatInv, [Next]_vars PROVE SeatInv'
  OBVIOUS
<1>1. ASSUME NEW w \in Windows, NEW mode \in {"normal", "locked"},
             NEW text \in BOOLEAN, Create(w, mode, text)
      PROVE  SeatInv'
  BY <1>1, CreateStep
<1>2. ASSUME NEW w \in Windows, NEW reaction \in Reactions,
             Application(w, reaction)
      PROVE  SeatInv'
  BY <1>2, ReactStep DEF Application
<1>3. ASSUME NEW w \in Windows, NEW reaction \in Reactions, Deliver(w, reaction)
      PROVE  SeatInv'
  <2>1. /\ reaction = "keep" \/ Live(w)
        /\ \E s : React(w, reaction, s)
        /\ UNCHANGED deviceVars
    BY <1>3 DEF Deliver
  <2>2. QED
    BY <2>1, ReactStep
<1>4. ASSUME NEW w \in Windows,
             KeyboardEnter(w) \/ TextEnter(w) \/ PointerEnter(w)
      PROVE  SeatInv'
  BY <1>4, KeyboardEnterStep, TextEnterStep, PointerEnterStep
<1>5. CASE KeyboardLeave \/ TextLeave \/ PointerLeave
  BY <1>5, KeyboardLeaveStep, TextLeaveStep, PointerLeaveStep
<1>6. ASSUME NEW k \in BOOLEAN, NEW p \in BOOLEAN, Capabilities(k, p)
      PROVE  SeatInv'
  BY <1>6, CapabilitiesStep
<1>7. CASE \/ Key \/ DeleteSurroundingText \/ Done \/ LeaveToIme \/ Clear
           \/ \E text \in {"none", "some"} :
                PreeditString(text) \/ CommitString(text)
           \/ UNCHANGED vars
  <2>1. UNCHANGED <<window, deviceVars, focusVars, comp>>
    BY <1>7 DEF Key, DeleteSurroundingText, Done, LeaveToIme, Clear,
                PreeditString, CommitString, vars
  <2>2. QED
    BY <2>1, SeatUnchanged
<1>8. QED
  BY <1>1, <1>2, <1>3, <1>4, <1>5, <1>6, <1>7 DEF Next

\* The invariant holds always, for any windows and any bounds.
THEOREM SeatInvariant == Spec => []SeatInv
<1>1. QED
  BY InitSeatInv, NextSeatInv, PTL DEF Spec

\* keyboard_focus and pointer_focus never name a destroyed window, and name the
\* one that has the compositor's focus.
THEOREM FocusAlwaysFollows == Spec => []FocusFollows
<1>1. SeatInv => FocusFollows
  BY DEF SeatInv
<1>2. QED
  BY <1>1, SeatInvariant, PTL

\* Text input is enabled exactly if the focused window wants it.
THEOREM TextInputAlwaysMatches == Spec => []TextInputMatches
<1>1. SeatInv => TextInputMatches
  BY DEF SeatInv
<1>2. QED
  BY <1>1, SeatInvariant, PTL

\* Locked windows are locked to the present pointer, others to none.
THEOREM LocksAlwaysFollow == Spec => []LocksFollow
<1>1. SeatInv => LocksFollow
  BY DEF SeatInv
<1>2. QED
  BY <1>1, SeatInvariant, PTL

----------------------------------------------------------------------------
(* The input method.  TextReachesWindow speaks of a moment at which nothing *)
(* is under way.  ImeInv says it of every moment: the texts the window has  *)
(* been told, together with what the handler in progress has still to       *)
(* deliver (Owed), are those the input method committed, and while a done   *)
(* is under way the keyboard's focus is that of the text.                   *)

KeyItem == [kind |-> "key"]
KeyText == [kind |-> "keytext"]

\* What a handler can have still to do.
Agenda ==
  \/ agenda = <<>>
  \/ agenda = <<KeyItem, KeyText>> /\ pending = Clean
  \/ agenda = <<KeyText>> /\ pending = Clean
  \/ agenda = <<ClearPending>>
  \/ \E w \in Windows, some \in BOOLEAN :
       agenda = <<Composition(w, some), ClearPending>> /\ pending # Clean
  \/ \E w \in Windows :
       agenda = <<Commit(w), ClearPending>> /\ pending.commit = "some"
  \/ \E w \in Windows, some \in BOOLEAN :
       /\ agenda = <<Composition(w, some), Commit(w), ClearPending>>
       /\ pending.commit = "some"

\* Of an agenda: it has a text to deliver; the texts that it has; its events
\* are for window w.
Owes(a) == \E k \in 1 .. Len(a) : a[k].kind = "commit"
Owed(a) == IF Owes(a) THEN 1 ELSE 0
IsFor(a, w) ==
  \A k \in 1 .. Len(a) :
    a[k].kind \in {"composition", "commit"} => a[k].window = w

Bounded == pointer \in 0 .. MaxPointers /\ pointers \in 0 .. MaxPointers

PendingType == [preedit : {"clean", "none", "some"},
                commit : {"clean", "none", "some"}, delete : BOOLEAN]

SessionType == [preedit : BOOLEAN, sent : BOOLEAN, commits : 0 .. MaxCommits,
                received : 0 .. MaxCommits, shown : SUBSET Windows,
                read : {"none", "sent", "other"}]

\* The session counts, and the bounds hold.
Counted ==
  /\ Bounded
  /\ pending \in PendingType
  /\ session \in SessionType
  /\ pending.commit = "some" /\ Quiet => session.commits < MaxCommits
  /\ session.received + Owed(agenda) <= session.commits

\* A window that has the text focus has the keyboard while a done is under way,
\* and is told what is told.
Served ==
  Live(comp.text) =>
    /\ pending # Clean => keyboard_focus = comp.text
    /\ IsFor(agenda, comp.text)
    /\ session.received + Owed(agenda) = session.commits

ImeInv == Agenda /\ Counted /\ Served

\* Tuples of up to three elements.
LEMMA Tuples ==
  ASSUME NEW a, NEW b, NEW c
  PROVE  /\ <<a>> # <<>> /\ <<a, b>> # <<>>
         /\ Len(<<a>>) = 1 /\ <<a>>[1] = a
         /\ Head(<<a>>) = a /\ Tail(<<a>>) = <<>>
         /\ Len(<<a, b>>) = 2 /\ <<a, b>>[1] = a /\ <<a, b>>[2] = b
         /\ Head(<<a, b>>) = a /\ Tail(<<a, b>>) = <<b>>
         /\ Len(<<a, b, c>>) = 3
         /\ <<a, b, c>>[1] = a /\ <<a, b, c>>[2] = b /\ <<a, b, c>>[3] = c
         /\ Head(<<a, b, c>>) = a /\ Tail(<<a, b, c>>) = <<b, c>>
  OBVIOUS

\* The items of an agenda.
LEMMA ItemFields ==
  ASSUME NEW w, NEW some
  PROVE  /\ Composition(w, some).kind = "composition"
         /\ Composition(w, some).window = w
         /\ Composition(w, some).some = some
         /\ Commit(w).kind = "commit" /\ Commit(w).window = w
         /\ ClearPending.kind = "clear"
         /\ KeyItem.kind = "key" /\ KeyText.kind = "keytext"
  BY DEF Composition, Commit, ClearPending, KeyItem, KeyText

\* What the agendas with an event of the input method have to do.
LEMMA AgendaOfCommit ==
  ASSUME NEW w
  PROVE  LET a == <<Commit(w), ClearPending>>
         IN  /\ Owes(a) /\ Owed(a) = 1
             /\ \A v : IsFor(a, v) <=> v = w
<1> DEFINE a == <<Commit(w), ClearPending>>
<1>1. Len(a) = 2 /\ a[1] = Commit(w) /\ a[2] = ClearPending
  BY Tuples
<1>2. 1 .. 2 = {1, 2}
  BY SMT
<1> HIDE DEF a
<1>3. Owes(a)
  <2>1. \E k \in 1 .. Len(a) : a[k] = Commit(w)
    <3>1. 1 \in 1 .. Len(a)
      BY <1>1, <1>2
    <3>2. QED
      BY <1>1, <3>1
  <2>2. Commit(w).kind = "commit"
    BY DEF Commit
  <2>3. QED
    BY <2>1, <2>2, Zenon DEF Owes
<1>4. Owed(a) = 1
  BY <1>3 DEF Owed
<1>5. \A v : IsFor(a, v) <=> v = w
  <2>1. /\ a[1].kind \in {"composition", "commit"} /\ a[1].window = w
        /\ a[2].kind \notin {"composition", "commit"}
    BY <1>1, ItemFields
  <2>2. \A k \in 1 .. Len(a) : k = 1 \/ k = 2
    BY <1>1, <1>2
  <2>3. 1 \in 1 .. Len(a)
    BY <1>1, <1>2
  <2>4. QED
    BY <2>1, <2>2, <2>3, Zenon DEF IsFor
<1>6. QED
  BY <1>3, <1>4, <1>5 DEF a

LEMMA AgendaOfComposition ==
  ASSUME NEW w, NEW some \in BOOLEAN
  PROVE  LET a == <<Composition(w, some), ClearPending>>
         IN  /\ ~Owes(a) /\ Owed(a) = 0
             /\ \A v : IsFor(a, v) <=> v = w
<1> DEFINE a == <<Composition(w, some), ClearPending>>
<1>1. Len(a) = 2 /\ a[1] = Composition(w, some) /\ a[2] = ClearPending
  BY Tuples
<1>2. 1 .. 2 = {1, 2} /\ 2 > 1
  BY SMT
<1> HIDE DEF a
<1>3. ~Owes(a)
  BY <1>1, <1>2, ItemFields DEF Owes
<1>4. Owed(a) = 0
  BY <1>3 DEF Owed
<1>5. \A v : IsFor(a, v) <=> v = w
  <2>1. /\ a[1].kind \in {"composition", "commit"} /\ a[1].window = w
        /\ a[2].kind \notin {"composition", "commit"}
    BY <1>1, ItemFields
  <2>2. \A k \in 1 .. Len(a) : k = 1 \/ k = 2
    BY <1>1, <1>2
  <2>3. 1 \in 1 .. Len(a)
    BY <1>1, <1>2
  <2>4. QED
    BY <2>1, <2>2, <2>3, Zenon DEF IsFor
<1>6. QED
  BY <1>3, <1>4, <1>5 DEF a

LEMMA AgendaOfBoth ==
  ASSUME NEW w, NEW some \in BOOLEAN
  PROVE  LET a == <<Composition(w, some), Commit(w), ClearPending>>
         IN  /\ Owes(a) /\ Owed(a) = 1
             /\ \A v : IsFor(a, v) <=> v = w
<1> DEFINE a == <<Composition(w, some), Commit(w), ClearPending>>
<1>1. Len(a) = 3 /\ a[1] = Composition(w, some) /\ a[2] = Commit(w)
      /\ a[3] = ClearPending
  BY Tuples
<1>2. 1 .. 3 = {1, 2, 3}
  BY SMT
<1> HIDE DEF a
<1>3. Owes(a)
  <2>1. \E k \in 1 .. Len(a) : a[k] = Commit(w)
    <3>1. 2 \in 1 .. Len(a)
      BY <1>1, <1>2
    <3>2. QED
      BY <1>1, <3>1
  <2>2. Commit(w).kind = "commit"
    BY DEF Commit
  <2>3. QED
    BY <2>1, <2>2, Zenon DEF Owes
<1>4. Owed(a) = 1
  BY <1>3 DEF Owed
<1>5. \A v : IsFor(a, v) <=> v = w
  <2>1. /\ a[1].kind \in {"composition", "commit"} /\ a[1].window = w
        /\ a[2].kind \in {"composition", "commit"} /\ a[2].window = w
        /\ a[3].kind \notin {"composition", "commit"}
    BY <1>1, ItemFields
  <2>2. \A k \in 1 .. Len(a) : k = 1 \/ k = 2 \/ k = 3
    BY <1>1, <1>2
  <2>3. 1 \in 1 .. Len(a)
    BY <1>1, <1>2
  <2>4. QED
    BY <2>1, <2>2, <2>3, Zenon DEF IsFor
<1>6. QED
  BY <1>3, <1>4, <1>5 DEF a

\* The other agendas have no event of the input method.
LEMMA AgendaOfNone ==
  ASSUME NEW a \in {<<>>, <<KeyItem, KeyText>>, <<KeyText>>, <<ClearPending>>}
  PROVE  ~Owes(a) /\ Owed(a) = 0 /\ \A v : IsFor(a, v)
<1>1. /\ Len(a) \in Nat
      /\ \A k \in 1 .. Len(a) : a[k].kind \notin {"composition", "commit"}
  <2>1. CASE a = <<>>
    <3>1. Len(<<>>) = 0 /\ 1 .. 0 = {} /\ 0 \in Nat
      BY SMT
    <3>2. QED
      BY <2>1, <3>1, Zenon
  <2>2. CASE a = <<KeyItem, KeyText>>
    <3>1. 1 .. 2 = {1, 2} /\ 2 \in Nat
      BY SMT
    <3>2. QED
      BY <2>2, <3>1, Tuples, ItemFields
  <2>3. CASE a = <<KeyText>> \/ a = <<ClearPending>>
    <3>1. 1 .. 1 = {1} /\ 1 \in Nat
      BY SMT
    <3>2. QED
      BY <2>3, <3>1, Tuples, ItemFields
  <2>4. QED
    BY <2>1, <2>2, <2>3
<1>2. ~Owes(a) /\ Owed(a) = 0 /\ \A v : IsFor(a, v)
  BY <1>1 DEF Owes, Owed, IsFor
<1>3. QED
  BY <1>2

\* With nothing pending the handler has no event of the input method to deliver.
LEMMA NothingOwed ==
  ASSUME Agenda, pending = Clean
  PROVE  /\ \A v : IsFor(agenda, v)
         /\ ~Owes(agenda) /\ Owed(agenda) = 0
<1>1. pending.commit = "clean"
  BY DEF Clean
<1>2. agenda \in {<<>>, <<KeyItem, KeyText>>, <<KeyText>>, <<ClearPending>>}
  BY <1>1 DEF Agenda
<1>3. QED
  BY <1>2, AgendaOfNone

----------------------------------------------------------------------------
(* What the messages and calls that are not of the input method do to it.  *)

\* The session after a step, given the one of before: the counters stay.
Like(t, s) ==
  /\ t \in SessionType
  /\ t.commits = s.commits
  /\ t.received = s.received

LEMMA StoppedIsLike ==
  ASSUME NEW s \in SessionType
  PROVE  Like(Stopped(s), s) /\ Like(s, s)
BY DEF Stopped, SessionType, Like

LEMMA SyncSession ==
  ASSUME NEW c, NEW s \in SessionType, NEW w, NEW text, Sync(c, s, w, text)
  PROVE  Like(session', s)
<1>1. session' \in {s, Stopped(s)}
  BY DEF Sync
<1>2. QED
  BY <1>1, StoppedIsLike

\* A step of which s is the session, told of the first event: no window gets
\* the text focus, and the one that has it loses the keyboard only by dying.
Kept(s) ==
  /\ Like(session', s)
  /\ Live(comp.text)' =>
       /\ Live(comp.text) /\ comp'.text = comp.text
       /\ keyboard_focus = comp.text => keyboard_focus' = comp.text

\* What the application does in a callback or between messages.
LEMMA ReactKeeps ==
  ASSUME SeatInv, NEW w \in Windows, NEW reaction \in Reactions,
         NEW s \in SessionType,
         reaction = "keep" \/ Live(w), React(w, reaction, s)
  PROVE  Kept(s)
<1>1. /\ comp \in [keyboard : MaybeWindow, text : MaybeWindow, on : BOOLEAN,
                   pointer : MaybeWindow]
      /\ window \in [Windows -> [stage : {"new", "live", "dead"},
                                 text : BOOLEAN, mode : {"normal", "locked"},
                                 locked : Nat]]
      /\ comp.text \in MaybeWindow
  BY DEF SeatInv, Typed, Focuses
<1>2. Like(s, s)
  BY StoppedIsLike
<1>3. ASSUME session' = s, comp' = comp, keyboard_focus' = keyboard_focus,
             \A v \in Windows : window'[v].stage = "live" => window[v].stage = "live"
      PROVE  Kept(s)
  BY <1>1, <1>2, <1>3 DEF Kept, Live, MaybeWindow
<1>4. ASSUME NEW text \in BOOLEAN, NEW v, Sync(comp, s, v, text)
      PROVE  comp'.text = comp.text /\ Like(session', s)
  <2>1. comp'.text = comp.text
    BY <1>1, <1>4, SyncComp
  <2>2. QED
    BY <1>4, <2>1, SyncSession
<1>5. CASE reaction = "keep"
  <2>1. session' = s /\ UNCHANGED <<window, comp, keyboard_focus>>
    BY <1>5 DEF React, focusVars
  <2>2. QED
    BY <1>3, <2>1
<1>6. CASE reaction = "destroy"
  <2>1. /\ DestroyWindow(w, s)
        /\ window' = [window EXCEPT ![w].stage = "dead", ![w].locked = 0]
    BY <1>6 DEF React, DestroyWindow
  <2>2. /\ \A v \in Windows : window'[v].stage = "live" => window[v].stage = "live"
        /\ window'[w].stage # "live"
    BY <1>1, <2>1
  <2>3. CASE keyboard_focus = w
    <3>1. comp'.text = comp.text /\ Like(session', s)
      BY <1>4, <2>1, <2>3 DEF DestroyWindow
    <3>2. Live(comp.text)' => Live(comp.text) /\ comp.text # w
      BY <1>1, <2>2, <3>1 DEF Live, MaybeWindow
    <3>3. QED
      BY <2>3, <3>1, <3>2 DEF Kept
  <2>4. CASE keyboard_focus # w
    BY <1>3, <2>1, <2>2, <2>4 DEF DestroyWindow
  <2>5. QED
    BY <2>3, <2>4
<1>7. ASSUME NEW text \in BOOLEAN, SetText(w, text, s)
      PROVE  Kept(s)
  <2>1. /\ window' = [window EXCEPT ![w].text = text]
        /\ keyboard_focus' = keyboard_focus
    BY <1>7 DEF SetText, focusVars
  <2>2. \A v \in Windows : window'[v].stage = "live" => window[v].stage = "live"
    BY <1>1, <2>1
  <2>3. comp'.text = comp.text /\ Like(session', s)
    <3>1. CASE keyboard_focus = w
      BY <1>4, <1>7, <3>1 DEF SetText
    <3>2. CASE keyboard_focus # w
      BY <1>2, <1>7, <3>2 DEF SetText
    <3>3. QED
      BY <3>1, <3>2
  <2>4. Live(comp.text)' => Live(comp.text)
    BY <1>1, <2>2, <2>3 DEF Live, MaybeWindow
  <2>5. QED
    BY <2>1, <2>3, <2>4 DEF Kept
<1>8. ASSUME NEW mode \in {"normal", "locked"}, SetMode(w, mode, s)
      PROVE  Kept(s)
  <2>1. /\ session' = s /\ comp' = comp /\ keyboard_focus' = keyboard_focus
        /\ \/ window' = window
           \/ window' = [window EXCEPT ![w].mode = mode,
                                       ![w].locked = LockFor(mode)]
    BY <1>8 DEF SetMode, focusVars
  <2>2. \A v \in Windows : window'[v].stage = "live" => window[v].stage = "live"
    BY <1>1, <2>1
  <2>3. QED
    BY <1>3, <2>1, <2>2
<1>9. CASE reaction \in {"text", "notext", "lock", "unlock"}
  BY <1>7, <1>8, <1>9 DEF React
<1>10. QED
  BY <1>5, <1>6, <1>9, SeatAssumption

----------------------------------------------------------------------------
(* The steps keep ImeInv.                                                  *)

\* A step that keeps the session and what the handler in progress has to do.
LEMMA KeptIme ==
  ASSUME ImeInv, Kept(session), UNCHANGED <<pending, agenda>>, Bounded'
  PROVE  ImeInv'
<1>1. Agenda'
  BY DEF ImeInv, Agenda
<1>2. Quiet' = Quiet /\ Owed(agenda)' = Owed(agenda)
  BY DEF Quiet, Owes, Owed
<1>3. Like(session', session)
  BY DEF Kept
<1>4. Counted'
  BY <1>2, <1>3, Zenon DEF ImeInv, Counted, Like
<1>5. Served'
  <2>1. SUFFICES ASSUME Live(comp.text)'
                 PROVE  /\ (pending # Clean => keyboard_focus = comp.text)'
                        /\ IsFor(agenda, comp.text)'
                        /\ (session.received + Owed(agenda) = session.commits)'
    BY DEF Served
  <2>2. /\ Live(comp.text) /\ comp'.text = comp.text
        /\ keyboard_focus = comp.text => keyboard_focus' = comp.text
    BY <2>1, Zenon DEF Kept
  <2>3. /\ pending # Clean => keyboard_focus = comp.text
        /\ IsFor(agenda, comp.text)
        /\ session.received + Owed(agenda) = session.commits
    BY <2>2, Zenon DEF ImeInv, Served
  <2>4. IsFor(agenda, comp.text)' = IsFor(agenda, comp.text)
    BY <2>2 DEF IsFor
  <2>5. (pending # Clean)' = (pending # Clean)
    BY DEF Clean
  <2>6. QED
    BY <1>2, <1>3, <2>2, <2>3, <2>4, <2>5, Zenon DEF Like
<1>6. QED
  BY <1>1, <1>4, <1>5, Zenon DEF ImeInv

\* A step between the messages of the input method, after which the counters
\* are those of before: nothing is under way that a window could miss.
LEMMA BetweenIme ==
  ASSUME ImeInv, Between, UNCHANGED <<pending, agenda>>, Bounded',
         Like(session', session),
         Live(comp.text)' => Live(comp.text)
  PROVE  ImeInv'
<1>1. Agenda'
  BY DEF ImeInv, Agenda
<1>2. /\ agenda = <<>> /\ agenda' = <<>> /\ pending' = Clean /\ pending = Clean
      /\ Quiet' = Quiet
  BY DEF Between, Quiet
<1>3. /\ Owed(agenda) = 0 /\ Owed(agenda') = 0
      /\ \A v : IsFor(agenda', v)
  BY <1>2, AgendaOfNone
<1>4. Counted'
  <2>1. pending'.commit # "some"
    BY <1>2 DEF Clean
  <2>2. QED
    BY <1>3, <2>1, Zenon DEF ImeInv, Counted, Like
<1>5. Served'
  <2>1. Live(comp.text)' => session'.received + Owed(agenda)' = session'.commits
    BY <1>3, Zenon DEF ImeInv, Served, Like
  <2>2. (pending # Clean)' = FALSE /\ \A v : IsFor(agenda, v)'
    BY <1>2, <1>3 DEF Clean
  <2>3. IsFor(agenda, comp.text)'
    BY <1>3
  <2>4. QED
    BY <2>1, <2>2, <2>3, Zenon DEF Served
<1>6. QED
  BY <1>1, <1>4, <1>5, Zenon DEF ImeInv

\* The application's calls, the keyboard's focus, the pointer and the devices.
LEMMA CallsKeepIme ==
  ASSUME SeatInv, ImeInv, Bounded', NEW w \in Windows,
         \/ \E mode \in {"normal", "locked"}, text \in BOOLEAN :
              Create(w, mode, text)
         \/ \E reaction \in Reactions : Application(w, reaction)
         \/ KeyboardEnter(w) \/ PointerEnter(w)
  PROVE  ImeInv'
<1>1. /\ comp \in [keyboard : MaybeWindow, text : MaybeWindow, on : BOOLEAN,
                   pointer : MaybeWindow]
      /\ window \in [Windows -> [stage : {"new", "live", "dead"},
                                 text : BOOLEAN, mode : {"normal", "locked"},
                                 locked : Nat]]
      /\ comp.text \in MaybeWindow /\ comp.text # None => Known(comp.text)
      /\ w \in MaybeWindow /\ w # None
      /\ session \in SessionType
  BY SeatAssumption DEF SeatInv, Typed, Focuses, MaybeWindow, ImeInv, Counted
<1>2. Like(session, session)
  BY <1>1, StoppedIsLike
<1>3. ASSUME NEW mode \in {"normal", "locked"}, NEW text \in BOOLEAN,
             Create(w, mode, text)
      PROVE  ImeInv'
  <2>1. /\ UNCHANGED <<keyboard_focus, comp, session, pending, agenda>>
        /\ window[w].stage = "new"
        /\ window' = [window EXCEPT ![w] = [stage |-> "live", text |-> text,
                                   mode |-> mode, locked |-> LockFor(mode)]]
    BY <1>3 DEF Create, focusVars
  <2>2. comp.text # w
    BY <1>1, <2>1 DEF Known, Live, Dead
  <2>3. Live(comp.text)' => Live(comp.text)
    BY <1>1, <2>1, <2>2 DEF Live, MaybeWindow
  <2>4. Kept(session)
    BY <1>2, <2>1, <2>3 DEF Kept
  <2>5. QED
    BY <2>1, <2>4, KeptIme
<1>4. ASSUME NEW reaction \in Reactions, Application(w, reaction)
      PROVE  ImeInv'
  <2>1. /\ React(w, reaction, session) /\ Live(w)
        /\ UNCHANGED <<pending, agenda>>
    BY <1>4 DEF Application
  <2>2. QED
    BY <1>1, <2>1, ReactKeeps, KeptIme
<1>5. CASE KeyboardEnter(w)
  <2> DEFINE c == [comp EXCEPT !.keyboard = w]
  <2>1. /\ c \in [keyboard : MaybeWindow, text : MaybeWindow, on : BOOLEAN,
                  pointer : MaybeWindow]
        /\ c.text = comp.text
    BY <1>1
  <2>2. /\ UNCHANGED <<window, pending, agenda>> /\ Between
        /\ IF Live(w) THEN Sync(c, session, w, w # None /\ window[w].text)
                      ELSE comp' = c /\ UNCHANGED session
    BY <1>5 DEF KeyboardEnter, SyncWindow
  <2> HIDE DEF c
  <2>3. CASE Live(w)
    <3>1. Sync(c, session, w, w # None /\ window[w].text)
      BY <2>2, <2>3
    <3>2. Like(session', session)
      BY <1>1, <3>1, SyncSession
    <3>3. comp'.text = comp.text
      BY <2>1, <3>1, SyncComp
    <3>4. Live(comp.text)' => Live(comp.text)
      BY <2>2, <3>3 DEF Live
    <3>5. QED
      BY <2>2, <3>2, <3>4, BetweenIme
  <2>4. CASE ~Live(w)
    <3>1. Live(comp.text)' => Live(comp.text)
      BY <2>1, <2>2, <2>4 DEF Live
    <3>2. Like(session', session)
      BY <1>2, <2>2, <2>4
    <3>3. QED
      BY <2>2, <3>1, <3>2, BetweenIme
  <2>5. QED
    BY <2>3, <2>4
<1>6. CASE PointerEnter(w)
  <2>1. /\ UNCHANGED <<window, session, pending, agenda>> /\ Between
        /\ comp' = [comp EXCEPT !.pointer = w]
    BY <1>6 DEF PointerEnter
  <2>2. Live(comp.text)' => Live(comp.text)
    BY <1>1, <2>1 DEF Live
  <2>3. QED
    BY <1>2, <2>1, <2>2, BetweenIme
<1>7. QED
  BY <1>3, <1>4, <1>5, <1>6

LEMMA LeavesKeepIme ==
  ASSUME SeatInv, ImeInv, Bounded',
         \/ KeyboardLeave \/ PointerLeave
         \/ \E k, p \in BOOLEAN : Capabilities(k, p)
  PROVE  ImeInv'
<1>1. /\ comp \in [keyboard : MaybeWindow, text : MaybeWindow, on : BOOLEAN,
                   pointer : MaybeWindow]
      /\ window \in [Windows -> [stage : {"new", "live", "dead"},
                                 text : BOOLEAN, mode : {"normal", "locked"},
                                 locked : Nat]]
      /\ comp.text \in MaybeWindow
      /\ session \in SessionType
  BY DEF SeatInv, Typed, Focuses, MaybeWindow, ImeInv, Counted
<1>2. Like(session, session) /\ Like(Stopped(session), session)
  BY <1>1, StoppedIsLike
<1>3. CASE KeyboardLeave
  <2> DEFINE c == [comp EXCEPT !.keyboard = None]
  <2>1. /\ c \in [keyboard : MaybeWindow, text : MaybeWindow, on : BOOLEAN,
                  pointer : MaybeWindow]
        /\ c.text = comp.text
    BY <1>1 DEF MaybeWindow
  <2>2. /\ Sync(c, session, None, FALSE) /\ Between
        /\ UNCHANGED <<window, pending, agenda>>
    BY <1>3 DEF KeyboardLeave
  <2> HIDE DEF c
  <2>3. Like(session', session) /\ comp'.text = comp.text
    BY <1>1, <2>1, <2>2, SyncSession, SyncComp
  <2>4. Live(comp.text)' => Live(comp.text)
    BY <2>2, <2>3 DEF Live
  <2>5. QED
    BY <2>2, <2>3, <2>4, BetweenIme
<1>4. CASE PointerLeave
  <2>1. /\ UNCHANGED <<window, session, pending, agenda>> /\ Between
        /\ comp' = [comp EXCEPT !.pointer = None]
    BY <1>4 DEF PointerLeave
  <2>2. Live(comp.text)' => Live(comp.text)
    BY <1>1, <2>1 DEF Live
  <2>3. QED
    BY <1>2, <2>1, <2>2, BetweenIme
<1>5. ASSUME NEW k \in BOOLEAN, NEW p \in BOOLEAN, Capabilities(k, p)
      PROVE  ImeInv'
  <2>1. /\ UNCHANGED <<pending, agenda>> /\ Between
        /\ comp' = [keyboard |-> IF k THEN comp.keyboard ELSE None,
                    text     |-> IF k THEN comp.text ELSE None,
                    on       |-> k /\ comp.on,
                    pointer  |-> IF p THEN comp.pointer ELSE None]
        /\ session' = IF k THEN session ELSE Stopped(session)
    BY <1>5 DEF Capabilities
  <2>2. Like(session', session)
    BY <1>2, <2>1
  <2>3. comp'.text \in {None, comp.text}
    BY <2>1
  <2>4. \A v \in Windows : window'[v].stage = window[v].stage
    <3>1. \/ window' = window
          \/ window' = Relock(pointer')
      BY <1>5 DEF Capabilities
    <3>2. ASSUME NEW q, NEW v \in Windows
          PROVE  Relock(q)[v].stage = window[v].stage
      <4>1. Relock(q)[v] \in {window[v], [window[v] EXCEPT !.locked = 0],
                              [window[v] EXCEPT !.locked = q]}
        BY DEF Relock
      <4>2. window[v] \in [stage : {"new", "live", "dead"}, text : BOOLEAN,
                           mode : {"normal", "locked"}, locked : Nat]
        BY <1>1
      <4>3. QED
        BY <4>1, <4>2
    <3>3. QED
      BY <3>1, <3>2
  <2>5. Live(comp.text)' => Live(comp.text)
    BY <1>1, <2>3, <2>4 DEF Live, MaybeWindow
  <2>6. QED
    BY <2>1, <2>2, <2>5, BetweenIme
<1>6. QED
  BY <1>3, <1>4, <1>5

\* The text focus comes: the texts are counted afresh.
LEMMA TextEnterKeepsIme ==
  ASSUME SeatInv, ImeInv, Bounded', NEW w \in Windows, TextEnter(w)
  PROVE  ImeInv'
<1> DEFINE c == [comp EXCEPT !.text = w, !.on = FALSE]
           s == [Stopped(session) EXCEPT !.commits = 0, !.received = 0]
<1>1. /\ UNCHANGED <<pending, agenda>> /\ Between
      /\ IF Live(w) THEN Sync(c, s, w, w # None /\ window[w].text)
                    ELSE comp' = c /\ session' = s
  BY DEF TextEnter, SyncWindow
<1>2. /\ s \in SessionType /\ s.commits = 0 /\ s.received = 0
  <2>1. session \in SessionType /\ 0 \in 0 .. MaxCommits
    BY SeatAssumption DEF ImeInv, Counted
  <2>2. QED
    BY <2>1 DEF Stopped, SessionType
<1> HIDE DEF c, s
<1>3. Like(session', s)
  BY <1>1, <1>2, SyncSession, StoppedIsLike
<1>4. /\ agenda = <<>> /\ agenda' = <<>> /\ pending' = Clean /\ pending = Clean
  BY <1>1 DEF Between, Quiet
<1>5. /\ Owed(agenda') = 0 /\ \A v : IsFor(agenda', v)
  BY <1>4, AgendaOfNone
<1>6. Agenda'
  BY <1>4 DEF Agenda
<1>7. /\ session' \in SessionType
      /\ session'.received + Owed(agenda') = session'.commits
      /\ session'.received + Owed(agenda') <= session'.commits
  BY <1>2, <1>3, <1>5 DEF Like
<1>8. Counted'
  <2>1. pending' \in PendingType /\ pending'.commit # "some"
    BY <1>4 DEF Clean, PendingType
  <2>2. QED
    BY <1>7, <2>1, Zenon DEF Counted
<1>9. Served'
  <2>1. (pending # Clean)' = FALSE /\ IsFor(agenda, comp.text)'
    BY <1>4, <1>5 DEF Clean
  <2>2. QED
    BY <1>7, <2>1, Zenon DEF Served
<1>10. QED
  BY <1>6, <1>8, <1>9, Zenon DEF ImeInv

\* An agenda with an event is one of these.
LEMMA EventFirst ==
  ASSUME Agenda, agenda # <<>>, Head(agenda).kind # "clear"
  PROVE  \/ agenda = <<KeyItem, KeyText>> /\ pending = Clean
         \/ agenda = <<KeyText>> /\ pending = Clean
         \/ \E v \in Windows, some \in BOOLEAN :
              agenda = <<Composition(v, some), ClearPending>> /\ pending # Clean
         \/ \E v \in Windows :
              agenda = <<Commit(v), ClearPending>> /\ pending.commit = "some"
         \/ \E v \in Windows, some \in BOOLEAN :
              /\ agenda = <<Composition(v, some), Commit(v), ClearPending>>
              /\ pending.commit = "some"
<1>1. agenda # <<ClearPending>>
  <2>1. Head(<<ClearPending>>).kind = "clear"
    BY Tuples DEF ClearPending
  <2>2. QED
    BY <2>1
<1>2. QED
  BY <1>1 DEF Agenda

\* The session s once the first event is told: of that no more is owed.
PassedOn(s) ==
  /\ s \in SessionType
  /\ s.commits = session.commits
  /\ s.received + Owed(agenda') <= session.received + Owed(agenda)
  /\ IsFor(agenda, comp.text) =>
       /\ IsFor(agenda', comp.text)
       /\ s.received + Owed(agenda') = session.received + Owed(agenda)

\* What telling of an event does to a session: of a composition, of a text.
LEMMA TellingComposition ==
  ASSUME session \in SessionType, NEW v \in Windows, NEW some \in BOOLEAN,
         NEW read \in {"none", "sent", "other"}
  PROVE  Like(Told(Composition(v, some), read), session)
<1> DEFINE n == IF some THEN session.shown \cup {v} ELSE session.shown \ {v}
           t == [session EXCEPT !.read = read, !.shown = n]
<1>1. Told(Composition(v, some), read) = t
  <2>1. /\ Composition(v, some).kind = "composition"
        /\ Composition(v, some).window = v /\ Composition(v, some).some = some
    BY ItemFields
  <2>2. QED
    BY <2>1 DEF Told
<1>2. n \in SUBSET Windows
  BY DEF SessionType
<1> HIDE DEF n
<1>3. Like(t, session)
  BY <1>2 DEF SessionType, Like
<1>4. QED
  BY <1>1, <1>3

LEMMA TellingCommit ==
  ASSUME session \in SessionType, session.received + 1 <= session.commits,
         NEW v \in Windows, NEW read \in {"none", "sent", "other"}
  PROVE  LET s == Told(Commit(v), read)
         IN  /\ s \in SessionType /\ s.commits = session.commits
             /\ s.received \in {session.received, session.received + 1}
             /\ v = comp.text => s.received = session.received + 1
<1> DEFINE n == session.shown \ {v}
           k == IF v = comp.text THEN session.received + 1 ELSE session.received
           t == [session EXCEPT !.read = read, !.shown = n, !.received = k]
<1>1. Told(Commit(v), read) = t
  <2>1. Commit(v).kind = "commit" /\ Commit(v).window = v
    BY DEF Commit
  <2>2. QED
    BY <2>1 DEF Told
<1>2. n \in SUBSET Windows /\ k \in 0 .. MaxCommits
  <2>1. /\ session.received \in 0 .. MaxCommits /\ session.commits \in 0 .. MaxCommits
        /\ session.shown \in SUBSET Windows
    BY DEF SessionType
  <2>2. QED
    BY <2>1, SeatAssumption
<1>3. /\ k \in {session.received, session.received + 1}
      /\ v = comp.text => k = session.received + 1
  OBVIOUS
<1> HIDE DEF n, k
<1>4. t \in SessionType /\ t.commits = session.commits /\ t.received = k
  BY <1>2 DEF SessionType
<1>5. QED
  BY <1>1, <1>3, <1>4

LEMMA EventPassedOn ==
  ASSUME ImeInv, agenda # <<>>, Head(agenda).kind # "clear",
         agenda' = Tail(agenda), pending' = pending, NEW s,
         IF Head(agenda).kind \in {"key", "keytext"}
           THEN s = session
           ELSE \E read \in {"none", "sent", "other"} : s = Told(Head(agenda), read)
  PROVE  PassedOn(s) /\ Agenda' /\ (Quiet' => pending = Clean)
<1>1. /\ session \in SessionType
      /\ session.received + Owed(agenda) <= session.commits
      /\ session.received \in Nat /\ session.commits \in Nat
  BY DEF ImeInv, Counted, SessionType
<1>2. pending = Clean => pending.commit # "some"
  BY DEF Clean
<1>3. CASE agenda = <<KeyItem, KeyText>> /\ pending = Clean
  <2>1. Head(agenda) = KeyItem /\ agenda' = <<KeyText>> /\ KeyItem.kind = "key"
    BY <1>3, Tuples DEF KeyItem
  <2>2. s = session
    BY <2>1
  <2>3. Owed(agenda) = 0 /\ Owed(agenda') = 0 /\ IsFor(agenda', comp.text)
    BY <1>3, <2>1, AgendaOfNone
  <2>4. PassedOn(s)
    BY <1>1, <2>2, <2>3 DEF PassedOn
  <2>5. Agenda' /\ pending = Clean
    BY <1>3, <2>1 DEF Agenda, Clean
  <2>6. QED
    BY <2>4, <2>5
<1>4. CASE agenda = <<KeyText>> /\ pending = Clean
  <2>1. Head(agenda) = KeyText /\ agenda' = <<>> /\ KeyText.kind = "keytext"
    BY <1>4, Tuples DEF KeyText
  <2>2. s = session
    BY <2>1
  <2>3. Owed(agenda) = 0 /\ Owed(agenda') = 0 /\ IsFor(agenda', comp.text)
    BY <1>4, <2>1, AgendaOfNone
  <2>4. PassedOn(s)
    BY <1>1, <2>2, <2>3 DEF PassedOn
  <2>5. Agenda' /\ pending = Clean
    BY <1>4, <2>1 DEF Agenda, Clean
  <2>6. QED
    BY <2>4, <2>5
<1>5. ASSUME NEW v \in Windows, NEW some \in BOOLEAN,
             agenda = <<Composition(v, some), ClearPending>>
      PROVE  PassedOn(s) /\ Agenda' /\ (Quiet' => pending = Clean)
  <2>1. Head(agenda) = Composition(v, some) /\ agenda' = <<ClearPending>>
    BY <1>5, Tuples
  <2>2. Like(s, session)
    <3>1. Head(agenda).kind \notin {"key", "keytext"}
      BY <2>1, ItemFields
    <3>2. PICK read \in {"none", "sent", "other"} : s = Told(Head(agenda), read)
      BY <3>1
    <3>3. QED
      BY <1>1, <2>1, <3>2, TellingComposition
  <2>3. Owed(agenda) = 0
    BY <1>5, AgendaOfComposition
  <2>4. Owed(agenda') = 0 /\ IsFor(agenda', comp.text)
    BY <2>1, AgendaOfNone
  <2>5. PassedOn(s)
    BY <1>1, <2>2, <2>3, <2>4 DEF PassedOn, Like
  <2>6. Agenda' /\ ~Quiet'
    <3>1. agenda' # <<>>
      BY <2>1, Tuples
    <3>2. QED
      BY <2>1, <3>1 DEF Agenda, Quiet, ClearPending
  <2>7. QED
    BY <2>5, <2>6
<1>6. ASSUME NEW v \in Windows, agenda = <<Commit(v), ClearPending>>
      PROVE  PassedOn(s) /\ Agenda' /\ (Quiet' => pending = Clean)
  <2>1. Head(agenda) = Commit(v) /\ agenda' = <<ClearPending>>
    BY <1>6, Tuples
  <2>2. Owed(agenda) = 1 /\ (IsFor(agenda, comp.text) => comp.text = v)
    BY <1>6, AgendaOfCommit
  <2>3. Owed(agenda') = 0 /\ IsFor(agenda', comp.text)
    BY <2>1, AgendaOfNone
  <2>4. /\ s \in SessionType /\ s.commits = session.commits
        /\ s.received \in {session.received, session.received + 1}
        /\ v = comp.text => s.received = session.received + 1
    <3>1. Head(agenda).kind \notin {"key", "keytext"}
      BY <2>1 DEF Commit
    <3>2. PICK read \in {"none", "sent", "other"} : s = Told(Head(agenda), read)
      BY <3>1
    <3>3. session.received + 1 <= session.commits
      BY <1>1, <2>2
    <3>4. QED
      BY <1>1, <2>1, <3>2, <3>3, TellingCommit
  <2>5. PassedOn(s)
    <3>1. s.received + Owed(agenda') <= session.received + Owed(agenda)
      BY <1>1, <2>2, <2>3, <2>4
    <3>2. v = comp.text =>
            s.received + Owed(agenda') = session.received + Owed(agenda)
      BY <1>1, <2>2, <2>3, <2>4
    <3>3. QED
      BY <2>2, <2>3, <2>4, <3>1, <3>2, Zenon DEF PassedOn
  <2>6. Agenda' /\ ~Quiet'
    <3>1. agenda' # <<>>
      BY <2>1, Tuples
    <3>2. QED
      BY <2>1, <3>1 DEF Agenda, Quiet, ClearPending
  <2>7. QED
    BY <2>5, <2>6
<1>7. ASSUME NEW v \in Windows, NEW some \in BOOLEAN,
             agenda = <<Composition(v, some), Commit(v), ClearPending>>,
             pending.commit = "some"
      PROVE  PassedOn(s) /\ Agenda' /\ (Quiet' => pending = Clean)
  <2>1. Head(agenda) = Composition(v, some) /\ agenda' = <<Commit(v), ClearPending>>
    BY <1>7, Tuples
  <2>2. Like(s, session)
    <3>1. Head(agenda).kind \notin {"key", "keytext"}
      BY <2>1, ItemFields
    <3>2. PICK read \in {"none", "sent", "other"} : s = Told(Head(agenda), read)
      BY <3>1
    <3>3. QED
      BY <1>1, <2>1, <3>2, TellingComposition
  <2>3. Owed(agenda) = 1 /\ (IsFor(agenda, comp.text) => comp.text = v)
    BY <1>7, AgendaOfBoth
  <2>4. Owed(agenda') = 1 /\ (comp.text = v => IsFor(agenda', comp.text))
    <3>1. \A u : u = v => IsFor(agenda', u)
      BY <2>1, AgendaOfCommit, Zenon
    <3>2. Owed(agenda') = 1
      BY <2>1, AgendaOfCommit, Zenon
    <3>3. QED
      BY <3>1, <3>2, Zenon
  <2>5. PassedOn(s)
    <3>1. /\ s.received + Owed(agenda') <= session.received + Owed(agenda)
          /\ s.received + Owed(agenda') = session.received + Owed(agenda)
      BY <1>1, <2>2, <2>3, <2>4 DEF Like
    <3>2. QED
      BY <2>2, <2>3, <2>4, <3>1, Zenon DEF PassedOn, Like
  <2>6. Agenda' /\ ~Quiet'
    <3>1. agenda' # <<>>
      BY <2>1, Tuples
    <3>2. pending'.commit = "some"
      BY <1>7
    <3>3. QED
      BY <2>1, <3>1, <3>2 DEF Agenda, Quiet
  <2>7. QED
    BY <2>5, <2>6
<1>8. QED
  BY <1>3, <1>4, <1>5, <1>6, <1>7, EventFirst DEF ImeInv

\* Delivering an event: the session has been told of it, and then the callback
\* does what it does.
LEMMA DeliverKeepsIme ==
  ASSUME SeatInv, ImeInv, NEW w \in Windows, NEW reaction \in Reactions,
         Deliver(w, reaction)
  PROVE  ImeInv'
<1>1. /\ agenda # <<>> /\ Head(agenda).kind # "clear"
      /\ agenda' = Tail(agenda)
      /\ UNCHANGED <<pending, pointer, pointers>>
      /\ reaction = "keep" \/ Live(w)
  BY DEF Deliver, deviceVars
<1>2. \E s : /\ React(w, reaction, s)
             /\ IF Head(agenda).kind \in {"key", "keytext"}
                  THEN s = session
                  ELSE \E read \in {"none", "sent", "other"} :
                         s = Told(Head(agenda), read)
  <2>1. CASE Head(agenda).kind \in {"key", "keytext"}
    BY <2>1 DEF Deliver
  <2>2. CASE Head(agenda).kind \notin {"key", "keytext"}
    <3>1. PICK read \in Read(Head(agenda)) : React(w, reaction, Told(Head(agenda), read))
      BY <2>2 DEF Deliver
    <3>2. read \in {"none", "sent", "other"}
      BY DEF Read
    <3>3. QED
      BY <2>2, <3>1, <3>2
  <2>3. QED
    BY <2>1, <2>2
<1>3. PICK s : /\ React(w, reaction, s)
               /\ IF Head(agenda).kind \in {"key", "keytext"}
                    THEN s = session
                    ELSE \E read \in {"none", "sent", "other"} :
                           s = Told(Head(agenda), read)
  BY <1>2
<1>4. PassedOn(s) /\ Agenda' /\ (Quiet' => pending = Clean)
  BY <1>1, <1>3, EventPassedOn
<1>5. Kept(s)
  <2>1. s \in SessionType
    BY <1>4 DEF PassedOn
  <2>2. QED
    BY <1>1, <1>3, <2>1, ReactKeeps
<1>6. Counted'
  <2>1. Bounded' /\ pending' \in PendingType
    BY <1>1 DEF ImeInv, Counted, Bounded
  <2>2. ~(pending'.commit = "some" /\ Quiet')
    BY <1>1, <1>4 DEF Clean
  <2>3. session' \in SessionType /\ session'.received + Owed(agenda') <= session'.commits
    <3>1. /\ session' \in SessionType /\ session'.commits = session.commits
          /\ session'.received = s.received
          /\ s.received + Owed(agenda') <= session.received + Owed(agenda)
          /\ session.received + Owed(agenda) <= session.commits
          /\ session \in SessionType /\ s \in SessionType
      BY <1>4, <1>5 DEF Kept, Like, PassedOn, ImeInv, Counted
    <3>2. /\ s.received \in Nat /\ session.received \in Nat /\ session.commits \in Nat
          /\ Owed(agenda) \in Nat /\ Owed(agenda') \in Nat
      BY <3>1 DEF SessionType, Owed
    <3>3. QED
      BY <3>1, <3>2
  <2>4. QED
    BY <2>1, <2>2, <2>3, Zenon DEF Counted
<1>7. Served'
  <2>1. SUFFICES ASSUME Live(comp.text)'
                 PROVE  /\ (pending # Clean => keyboard_focus = comp.text)'
                        /\ IsFor(agenda, comp.text)'
                        /\ (session.received + Owed(agenda) = session.commits)'
    BY DEF Served
  <2>2. /\ Live(comp.text) /\ comp'.text = comp.text
        /\ keyboard_focus = comp.text => keyboard_focus' = comp.text
    BY <1>5, <2>1, Zenon DEF Kept
  <2>3. /\ pending # Clean => keyboard_focus = comp.text
        /\ IsFor(agenda, comp.text)
        /\ session.received + Owed(agenda) = session.commits
    BY <2>2, Zenon DEF ImeInv, Served
  <2>4. /\ IsFor(agenda', comp.text)
        /\ s.received + Owed(agenda') = session.received + Owed(agenda)
        /\ s.commits = session.commits
        /\ session'.received = s.received /\ session'.commits = s.commits
    BY <1>4, <1>5, <2>3, Zenon DEF PassedOn, Kept, Like
  <2>5. IsFor(agenda, comp.text)' = IsFor(agenda', comp.text)
    BY <2>2 DEF IsFor
  <2>6. (pending # Clean)' = (pending # Clean)
    BY <1>1 DEF Clean
  <2>7. QED
    BY <2>2, <2>3, <2>4, <2>5, <2>6, Zenon
<1>8. QED
  BY <1>4, <1>6, <1>7, Zenon DEF ImeInv

\* With the input method at work the window that has the text focus has the
\* keyboard.
LEMMA ImeHasFocus ==
  ASSUME SeatInv, ImeInv, ImeSends, Live(comp.text)
  PROVE  keyboard_focus = comp.text
<1>1. CASE pending # Clean
  BY <1>1 DEF ImeInv, Served
<1>2. CASE comp.text = comp.keyboard
  BY <1>2 DEF SeatInv, FocusFollows
<1>3. QED
  BY <1>1, <1>2 DEF ImeSends

\* The messages of the input method before its done: the handlers note them.
LEMMA NotedKeepsIme ==
  ASSUME SeatInv, ImeInv, NEW text \in {"none", "some"},
         PreeditString(text) \/ CommitString(text) \/ DeleteSurroundingText
  PROVE  ImeInv'
<1>1. /\ agenda = <<>> /\ agenda' = agenda /\ ImeSends
      /\ UNCHANGED <<window, deviceVars, focusVars, comp>>
      /\ session \in SessionType /\ pending \in PendingType
  BY DEF PreeditString, CommitString, DeleteSurroundingText, ImeSends, Quiet,
         ImeInv, Counted
<1>2. /\ Agenda' /\ Bounded' /\ Quiet' /\ Quiet
  BY <1>1 DEF Agenda, Quiet, ImeInv, Counted, Bounded, deviceVars
<1>3. /\ Like(session', session) /\ pending' \in PendingType
      /\ pending'.commit = "some" =>
           pending.commit = "some" \/ session.commits < MaxCommits
  <2>1. CASE PreeditString(text)
    <3>1. /\ pending' = [pending EXCEPT !.preedit = text]
          /\ session' = [session EXCEPT !.sent = (text = "some")]
          /\ (text = "some") \in BOOLEAN
      BY <2>1 DEF PreeditString
    <3>2. QED
      BY <1>1, <3>1 DEF PendingType, SessionType, Like
  <2>2. CASE CommitString(text)
    <3>1. /\ pending' = [pending EXCEPT !.commit = text]
          /\ session' = session
          /\ text = "some" => session.commits < MaxCommits
      BY <2>2 DEF CommitString
    <3>2. QED
      BY <1>1, <3>1 DEF PendingType, Like
  <2>3. CASE DeleteSurroundingText
    <3>1. pending' = [pending EXCEPT !.delete = TRUE] /\ session' = session
      BY <2>3 DEF DeleteSurroundingText
    <3>2. QED
      BY <1>1, <3>1 DEF PendingType, Like
  <2>4. QED
    BY <2>1, <2>2, <2>3
<1>4. Owed(agenda') = Owed(agenda)
  BY <1>1
<1>5. Counted'
  BY <1>2, <1>3, <1>4, Zenon DEF ImeInv, Counted, Like
<1>6. Served'
  <2>1. SUFFICES ASSUME Live(comp.text)
                 PROVE  /\ keyboard_focus = comp.text
                        /\ IsFor(agenda, comp.text)
                        /\ session'.received + Owed(agenda') = session'.commits
    BY <1>1 DEF Served, Live, focusVars
  <2>2. QED
    BY <1>1, <1>3, <1>4, <2>1, ImeHasFocus, Zenon DEF ImeInv, Served, Like
<1>7. QED
  BY <1>2, <1>5, <1>6, Zenon DEF ImeInv

\* A key waits for its callbacks; nothing is pending then.
LEMMA KeyKeepsIme ==
  ASSUME ImeInv, Key \/ LeaveToIme
  PROVE  ImeInv'
<1>1. UNCHANGED <<window, deviceVars, focusVars, comp, pending, session>>
  BY DEF Key, LeaveToIme
<1>2. /\ pending = Clean
      /\ agenda \in {<<>>, <<KeyItem, KeyText>>, <<KeyText>>, <<ClearPending>>}
      /\ agenda' \in {<<>>, <<KeyItem, KeyText>>, <<KeyText>>, <<ClearPending>>}
  <2>1. CASE Key
    BY <2>1 DEF Key, Between, Quiet, KeyItem, KeyText
  <2>2. CASE LeaveToIme
    <3>1. agenda # <<>> /\ Head(agenda).kind = "keytext" /\ agenda' = Tail(agenda)
      BY <2>2 DEF LeaveToIme
    <3>2. agenda = <<KeyText>> /\ pending = Clean
      <4>1. \A v, some : /\ Head(<<Composition(v, some), ClearPending>>).kind # "keytext"
                         /\ Head(<<Commit(v), ClearPending>>).kind # "keytext"
                         /\ Head(<<Composition(v, some), Commit(v), ClearPending>>).kind
                              # "keytext"
        BY Tuples DEF Composition, Commit
      <4>2. Head(<<KeyItem, KeyText>>).kind # "keytext"
        BY Tuples DEF KeyItem
      <4>3. Head(agenda).kind # "clear"
        BY <3>1
      <4>4. QED
        BY <3>1, <4>1, <4>2, <4>3, EventFirst, Zenon DEF ImeInv
    <3>3. agenda' = <<>>
      BY <3>1, <3>2, Tuples
    <3>4. QED
      BY <3>2, <3>3
  <2>3. QED
    BY <2>1, <2>2
<1>3. pending.commit # "some"
  BY <1>2 DEF Clean
<1>4. Agenda'
  <2>1. CASE Key
    BY <1>1, <1>2, <2>1 DEF Key, Agenda, KeyItem, KeyText
  <2>2. CASE LeaveToIme
    BY <1>1, <1>2 DEF Agenda, ClearPending, KeyItem, KeyText, Clean
  <2>3. QED
    BY <2>1, <2>2
<1>5. /\ Owed(agenda) = 0 /\ Owed(agenda') = 0
      /\ \A v : IsFor(agenda', v)
  BY <1>2, AgendaOfNone
<1>6. Counted'
  BY <1>1, <1>3, <1>5 DEF ImeInv, Counted, Bounded, deviceVars
<1>7. Served'
  BY <1>1, <1>5 DEF ImeInv, Served, Live, focusVars, Clean
<1>8. QED
  BY <1>4, <1>6, <1>7, Zenon DEF ImeInv

\* The handler of a done or a leave forgets what was pending.
LEMMA ClearKeepsIme ==
  ASSUME ImeInv, Clear
  PROVE  ImeInv'
<1>1. /\ UNCHANGED <<window, deviceVars, focusVars, comp>>
      /\ agenda # <<>> /\ Head(agenda).kind = "clear"
      /\ pending' = Clean /\ agenda' = Tail(agenda)
      /\ session' = [session EXCEPT !.read = "none"]
  BY DEF Clear
<1>2. agenda = <<ClearPending>> /\ agenda' = <<>>
  <2>1. \A v, some : /\ Head(<<Composition(v, some), ClearPending>>).kind # "clear"
                     /\ Head(<<Commit(v), ClearPending>>).kind # "clear"
                     /\ Head(<<Composition(v, some), Commit(v), ClearPending>>).kind
                          # "clear"
    BY Tuples DEF Composition, Commit
  <2>2. Head(<<KeyItem, KeyText>>).kind # "clear" /\ Head(<<KeyText>>).kind # "clear"
    BY Tuples DEF KeyItem, KeyText
  <2>3. agenda = <<ClearPending>>
    BY <1>1, <2>1, <2>2, Zenon DEF ImeInv, Agenda
  <2>4. QED
    BY <1>1, <2>3, Tuples
<1>3. Clean \in PendingType /\ Clean.commit # "some"
  BY DEF Clean, PendingType
<1>4. Agenda'
  BY <1>2 DEF Agenda
<1>5. /\ Owed(agenda) = 0 /\ Owed(agenda') = 0
      /\ \A v : IsFor(agenda', v)
  BY <1>2, AgendaOfNone
<1>6. Like(session', session)
  BY <1>1 DEF ImeInv, Counted, SessionType, Like
<1>7. Counted'
  <2>1. Bounded'
    BY <1>1 DEF ImeInv, Counted, Bounded, deviceVars
  <2>2. QED
    BY <1>1, <1>3, <1>5, <1>6, <2>1, Zenon DEF ImeInv, Counted, Like
<1>8. Served'
  <2>1. (pending # Clean)' = FALSE /\ IsFor(agenda, comp.text)'
    BY <1>1, <1>5 DEF Clean
  <2>2. Live(comp.text)' => Live(comp.text)
    BY <1>1 DEF Live
  <2>3. QED
    BY <1>5, <1>6, <2>1, <2>2, Zenon DEF ImeInv, Served, Like
<1>9. QED
  BY <1>4, <1>7, <1>8, Zenon DEF ImeInv

\* The text focus leaves: what was shown is taken away, and nothing is served.
LEMMA TextLeaveKeepsIme ==
  ASSUME SeatInv, ImeInv, TextLeave
  PROVE  ImeInv'
<1> DEFINE w == IF Live(comp.text) THEN comp.text ELSE keyboard_focus
<1>1. /\ agenda = <<>> /\ UNCHANGED <<window, deviceVars, focusVars>>
      /\ comp' = [comp EXCEPT !.text = None, !.on = FALSE]
      /\ session' = Stopped(session)
      /\ IF w # None /\ pending.preedit = "some"
           THEN agenda' = <<Composition(w, FALSE), ClearPending>> /\ pending' = pending
           ELSE pending' = Clean /\ agenda' = agenda
  BY DEF TextLeave, Quiet
<1>2. w \in MaybeWindow
  BY DEF SeatInv, Typed
<1>3. comp'.text = None
  BY <1>1 DEF SeatInv, Typed
<1> HIDE DEF w
<1>4. Like(session', session)
  BY <1>1, StoppedIsLike DEF ImeInv, Counted
<1>5. Owed(agenda) = 0 /\ pending \in PendingType
  BY <1>1, AgendaOfNone DEF ImeInv, Counted
<1>6. /\ Agenda' /\ Owed(agenda') = 0 /\ pending' \in PendingType
      /\ ~(Quiet' /\ pending'.commit = "some")
  <2>1. CASE w # None /\ pending.preedit = "some"
    <3>1. /\ agenda' = <<Composition(w, FALSE), ClearPending>> /\ pending' = pending
          /\ w \in Windows /\ pending # Clean
      <4>1. w \in Windows /\ pending # Clean
        BY <1>2, <2>1 DEF MaybeWindow, Clean
      <4>2. QED
        BY <1>1, <2>1, <4>1, Zenon
    <3>2. ~Quiet' /\ Owed(agenda') = 0
      BY <3>1, Tuples, AgendaOfComposition DEF Quiet
    <3>3. Agenda'
      <4>1. pending' # Clean'
        BY <3>1 DEF Clean
      <4>2. \E v \in Windows, some \in BOOLEAN :
              agenda' = <<Composition(v, some), ClearPending>> /\ pending' # Clean'
        BY <3>1, <4>1
      <4>3. QED
        BY <4>2 DEF Agenda, Composition, ClearPending, Clean
    <3>4. QED
      BY <1>5, <3>1, <3>2, <3>3
  <2>2. CASE ~(w # None /\ pending.preedit = "some")
    <3>1. pending' = Clean /\ agenda' = <<>>
      BY <1>1, <2>2
    <3>2. Clean \in PendingType /\ Clean.commit # "some"
      BY DEF Clean, PendingType
    <3>3. QED
      BY <1>1, <1>5, <3>1, <3>2 DEF Agenda
  <2>3. QED
    BY <2>1, <2>2
<1>7. Counted'
  <2>1. Bounded'
    BY <1>1 DEF ImeInv, Counted, Bounded, deviceVars
  <2>2. QED
    BY <1>4, <1>5, <1>6, <2>1, Zenon DEF ImeInv, Counted, Like
<1>8. Served'
  BY <1>3 DEF Served, Live
<1>9. QED
  BY <1>6, <1>7, <1>8, Zenon DEF ImeInv

\* Putting one element behind others.
LEMMA Pairs ==
  ASSUME NEW a, NEW b
  PROVE  <<a>> \o <<b>> = <<a, b>>
<1> DEFINE p == <<a>> \o <<b>>
<1>1. p \in Seq({a, b}) /\ Len(p) = 2 /\ p[1] = a /\ p[2] = b
  OBVIOUS
<1>2. <<a, b>> \in Seq({a, b}) /\ Len(<<a, b>>) = 2
  OBVIOUS
<1> HIDE DEF p
<1>3. \A k \in 1 .. 2 : p[k] = <<a, b>>[k]
  BY <1>1
<1>4. p = <<a, b>>
  BY <1>1, <1>2, <1>3, SeqEqual
<1>5. QED
  BY <1>4 DEF p

LEMMA Triples ==
  ASSUME NEW a, NEW b, NEW c
  PROVE  <<a, b>> \o <<c>> = <<a, b, c>>
<1> DEFINE p == <<a, b>> \o <<c>>
<1>1. p \in Seq({a, b, c}) /\ Len(p) = 3 /\ p[1] = a /\ p[2] = b /\ p[3] = c
  OBVIOUS
<1>2. <<a, b, c>> \in Seq({a, b, c}) /\ Len(<<a, b, c>>) = 3
  OBVIOUS
<1> HIDE DEF p
<1>3. \A k \in 1 .. 3 : p[k] = <<a, b, c>>[k]
  BY <1>1
<1>4. p = <<a, b, c>>
  BY <1>1, <1>2, <1>3, SeqEqual
<1>5. QED
  BY <1>4 DEF p

\* What a done has to tell the window with the focus.
LEMMA DoneAgenda ==
  ASSUME NEW w
  PROVE  LET a == DoneComposition(w) \o DoneCommit(w) \o <<ClearPending>>
             some == pending.preedit = "some"
         IN  \/ /\ a = <<ClearPending>>
                /\ pending.preedit = "clean" /\ ~pending.delete
                /\ pending.commit # "some"
             \/ /\ a = <<Composition(w, some), ClearPending>>
                /\ pending.preedit # "clean" \/ pending.delete
                /\ pending.commit # "some"
             \/ /\ a = <<Commit(w), ClearPending>>
                /\ pending.preedit = "clean" /\ pending.commit = "some"
             \/ /\ a = <<Composition(w, some), Commit(w), ClearPending>>
                /\ pending.commit = "some"
<1> DEFINE c == Composition(w, pending.preedit = "some")
           t == Commit(w)
           z == ClearPending
<1>1. /\ DoneComposition(w) = IF pending.preedit # "clean" \/ pending.delete
                                THEN <<c>> ELSE <<>>
      /\ DoneCommit(w) = IF pending.commit = "some" THEN <<t>> ELSE <<>>
  BY DEF DoneComposition, DoneCommit
<1> HIDE DEF c, t, z
<1>2. /\ <<>> \o <<>> \o <<z>> = <<z>>
      /\ <<c>> \o <<>> \o <<z>> = <<c, z>>
      /\ <<>> \o <<t>> \o <<z>> = <<t, z>>
      /\ <<c>> \o <<t>> \o <<z>> = <<c, t, z>>
  <2>1. <<>> \o <<>> = <<>> /\ <<c>> \o <<>> = <<c>>
    OBVIOUS
  <2>2. <<>> \o <<z>> = <<z>> /\ <<>> \o <<t>> = <<t>>
    OBVIOUS
  <2>3. QED
    BY <2>1, <2>2, Pairs, Triples, Zenon
<1>3. QED
  BY <1>1, <1>2, Zenon DEF c, t, z

LEMMA DoneKeepsIme ==
  ASSUME SeatInv, ImeInv, Done
  PROVE  ImeInv'
<1> DEFINE w == keyboard_focus
           some == pending.preedit = "some"
           one == IF pending.commit = "some" THEN 1 ELSE 0
<1>1. /\ agenda = <<>> /\ Quiet /\ ImeSends
      /\ UNCHANGED <<window, deviceVars, focusVars, comp>>
      /\ session' = [session EXCEPT
           !.preedit = session.sent, !.sent = FALSE,
           !.commits = IF pending.commit = "some" THEN @ + 1 ELSE @]
      /\ IF w = None
           THEN pending' = Clean /\ agenda' = agenda
           ELSE /\ agenda' = DoneComposition(w) \o DoneCommit(w) \o <<ClearPending>>
                /\ pending' = pending
  BY DEF Done, ImeSends, Quiet
<1>2. Owed(agenda) = 0
  BY <1>1, AgendaOfNone
<1>3. /\ w \in MaybeWindow /\ session \in SessionType /\ pending \in PendingType
      /\ session.received <= session.commits
      /\ session.received \in Nat /\ session.commits \in Nat
      /\ pending.commit = "some" => session.commits + 1 \in 0 .. MaxCommits
  <2>1. /\ session \in SessionType /\ pending \in PendingType /\ w \in MaybeWindow
        /\ session.received + 0 <= session.commits
        /\ pending.commit = "some" => session.commits < MaxCommits
    BY <1>1, <1>2 DEF ImeInv, Counted, SeatInv, Typed
  <2>2. session.received \in Nat /\ session.commits \in Nat
    BY <2>1 DEF SessionType
  <2>3. QED
    BY <2>1, <2>2, SeatAssumption
<1>4. /\ session' \in SessionType /\ session'.received = session.received
      /\ session'.commits = session.commits + one
  <2> DEFINE n == IF pending.commit = "some" THEN session.commits + 1
                  ELSE session.commits
             t == [session EXCEPT !.preedit = session.sent, !.sent = FALSE,
                                  !.commits = n]
  <2>1. n \in 0 .. MaxCommits
    BY <1>3 DEF SessionType
  <2>2. session' = t
    BY <1>1, Zenon
  <2> HIDE DEF n
  <2>3. t \in SessionType /\ t.received = session.received /\ t.commits = n
    BY <1>3, <2>1 DEF SessionType
  <2>4. n = session.commits + one
    BY <1>3 DEF n
  <2>5. QED
    BY <2>2, <2>3, <2>4
<1>5. Bounded'
  BY <1>1 DEF ImeInv, Counted, Bounded, deviceVars
<1>6. Live(comp.text)' => /\ Live(comp.text) /\ comp'.text = w
                          /\ session.received = session.commits
                          /\ keyboard_focus' = w
  <2>1. Live(comp.text)' => Live(comp.text)
    BY <1>1 DEF Live
  <2>2. Live(comp.text) => w = comp.text
    BY <1>1, ImeHasFocus
  <2>3. Live(comp.text) => session.received + 0 = session.commits
    BY <1>2 DEF ImeInv, Served
  <2>4. QED
    BY <1>1, <1>3, <2>1, <2>2, <2>3 DEF focusVars
<1>7. one \in Nat
  OBVIOUS
<1>8. CASE w = None
  <2>1. pending' = Clean /\ agenda' = <<>>
    BY <1>1, <1>8
  <2>2. Clean \in PendingType /\ Clean.commit # "some"
    BY DEF Clean, PendingType
  <2>3. Owed(agenda') = 0
    BY <2>1, AgendaOfNone
  <2>4. session'.received + Owed(agenda') <= session'.commits
    <3> HIDE DEF one
    <3>1. QED
      BY <1>3, <1>4, <1>7, <2>3
  <2>5. Counted'
    BY <1>4, <1>5, <2>1, <2>2, <2>4, Zenon DEF Counted
  <2>6. Served'
    BY <1>6, <1>8 DEF Served, Live
  <2>7. Agenda'
    BY <2>1 DEF Agenda
  <2>8. QED
    BY <2>5, <2>6, <2>7, Zenon DEF ImeInv
<1>9. CASE w # None
  <2>1. w \in Windows /\ pending' = pending /\ some \in BOOLEAN
    BY <1>1, <1>3, <1>9 DEF MaybeWindow
  <2>2. \/ /\ agenda' = <<ClearPending>>
           /\ pending.preedit = "clean" /\ ~pending.delete
           /\ pending.commit # "some"
        \/ /\ agenda' = <<Composition(w, some), ClearPending>>
           /\ pending.preedit # "clean" \/ pending.delete
           /\ pending.commit # "some"
        \/ /\ agenda' = <<Commit(w), ClearPending>>
           /\ pending.preedit = "clean" /\ pending.commit = "some"
        \/ /\ agenda' = <<Composition(w, some), Commit(w), ClearPending>>
           /\ pending.commit = "some"
    BY <1>1, <1>9, DoneAgenda
  <2> HIDE DEF w, some
  <2>3. Agenda' /\ ~Quiet'
    <3>1. agenda' # <<>>
      BY <2>2, Tuples
    <3>2. (pending.preedit # "clean" \/ pending.delete) => pending' # Clean'
      BY <2>1 DEF Clean
    <3>3. QED
      BY <2>1, <2>2, <3>1, <3>2 DEF Agenda, Quiet, Composition, Commit, ClearPending
  <2>4. Owed(agenda') = one /\ IsFor(agenda', w)
    <3>1. CASE agenda' = <<ClearPending>> /\ pending.commit # "some"
      BY <3>1, AgendaOfNone
    <3>2. CASE /\ agenda' = <<Composition(w, some), ClearPending>>
               /\ pending.commit # "some"
      BY <2>1, <3>2, AgendaOfComposition
    <3>3. CASE agenda' = <<Commit(w), ClearPending>> /\ pending.commit = "some"
      BY <3>3, AgendaOfCommit
    <3>4. CASE /\ agenda' = <<Composition(w, some), Commit(w), ClearPending>>
               /\ pending.commit = "some"
      BY <2>1, <3>4, AgendaOfBoth
    <3>5. QED
      BY <2>2, <3>1, <3>2, <3>3, <3>4, Zenon
  <2> HIDE DEF one
  <2>5. session'.received + Owed(agenda') <= session'.commits
    BY <1>3, <1>4, <1>7, <2>4
  <2>6. Counted'
    BY <1>3, <1>4, <1>5, <2>1, <2>3, <2>5, Zenon DEF Counted
  <2>7. Served'
    <3>1. SUFFICES ASSUME Live(comp.text)'
                   PROVE  /\ keyboard_focus' = comp'.text
                          /\ IsFor(agenda', comp'.text)
                          /\ session'.received + Owed(agenda') = session'.commits
      BY DEF Served
    <3>2. comp'.text = w /\ session.received = session.commits /\ keyboard_focus' = w
      BY <1>6, <3>1
    <3>3. session'.received + Owed(agenda') = session'.commits
      BY <1>3, <1>4, <2>4, <3>2
    <3>4. QED
      BY <2>4, <3>2, <3>3
  <2>8. QED
    BY <2>3, <2>6, <2>7, Zenon DEF ImeInv
<1>10. QED
  BY <1>8, <1>9

LEMMA InitImeInv == Init => ImeInv
<1> SUFFICES ASSUME Init PROVE ImeInv
  OBVIOUS
<1>1. 0 \in 0 .. MaxPointers /\ 0 \in 0 .. MaxCommits /\ 0 + 0 <= 0
  BY SeatAssumption
<1>2. Clean \in PendingType /\ Clean.commit # "some"
  BY DEF Clean, PendingType
<1>3. Agenda /\ Owed(agenda) = 0
  BY AgendaOfNone DEF Init, Agenda
<1>4. Counted
  BY <1>1, <1>2, <1>3 DEF Init, Counted, Bounded, SessionType
<1>5. Served
  BY DEF Init, Served, Live
<1>6. QED
  BY <1>3, <1>4, <1>5 DEF ImeInv

\* The pointers stay within their bound.
LEMMA StaysBounded ==
  ASSUME SeatInv, Bounded, [Next]_vars
  PROVE  Bounded'
<1>1. CASE UNCHANGED deviceVars
  BY <1>1 DEF Bounded, deviceVars
<1>2. ASSUME NEW k \in BOOLEAN, NEW p \in BOOLEAN, Capabilities(k, p)
      PROVE  Bounded'
  <2>1. CASE p /\ pointer = 0
    <3>1. pointers < MaxPointers /\ pointers' = pointers + 1 /\ pointer' = pointers + 1
      BY <1>2, <2>1 DEF Capabilities
    <3>2. QED
      BY <3>1, SeatAssumption DEF Bounded
  <2>2. CASE ~(p /\ pointer = 0)
    <3>1. pointers' = pointers /\ pointer' \in {0, pointer}
      BY <1>2, <2>2 DEF Capabilities
    <3>2. QED
      BY <3>1, SeatAssumption DEF Bounded
  <2>3. QED
    BY <2>1, <2>2
<1>3. QED
  BY <1>1, <1>2 DEF Next, vars, Create, Application, Deliver, KeyboardEnter, TextEnter,
     PointerEnter, KeyboardLeave, Key, TextLeave, PreeditString, CommitString,
     DeleteSurroundingText, Done, LeaveToIme, Clear, PointerLeave

LEMMA NextImeInv == SeatInv /\ ImeInv /\ [Next]_vars => ImeInv'
<1> SUFFICES ASSUME SeatInv, ImeInv, [Next]_vars PROVE ImeInv'
  OBVIOUS
<1>1. Bounded'
  BY StaysBounded DEF ImeInv, Counted
<1>2. ASSUME NEW w \in Windows, NEW reaction \in Reactions, Deliver(w, reaction)
      PROVE  ImeInv'
  BY <1>2, DeliverKeepsIme
<1>3. ASSUME NEW w \in Windows,
             \/ \E mode \in {"normal", "locked"}, text \in BOOLEAN :
                  Create(w, mode, text)
             \/ \E reaction \in Reactions : Application(w, reaction)
             \/ KeyboardEnter(w) \/ PointerEnter(w)
      PROVE  ImeInv'
  BY <1>1, <1>3, CallsKeepIme
<1>4. ASSUME NEW w \in Windows, TextEnter(w)
      PROVE  ImeInv'
  BY <1>1, <1>4, TextEnterKeepsIme
<1>5. CASE \/ KeyboardLeave \/ PointerLeave
           \/ \E k, p \in BOOLEAN : Capabilities(k, p)
  BY <1>1, <1>5, LeavesKeepIme
<1>6. CASE Key \/ LeaveToIme \/ Clear \/ Done \/ TextLeave
  BY <1>6, KeyKeepsIme, ClearKeepsIme, DoneKeepsIme, TextLeaveKeepsIme
<1>7. ASSUME NEW text \in {"none", "some"},
             PreeditString(text) \/ CommitString(text) \/ DeleteSurroundingText
      PROVE  ImeInv'
  BY <1>7, NotedKeepsIme
<1>8. CASE UNCHANGED vars
  <2>1. UNCHANGED <<window, keyboard_focus, comp, session, pending, agenda>>
    BY <1>8 DEF vars, focusVars
  <2>2. session \in SessionType
    BY DEF ImeInv, Counted
  <2>3. Kept(session)
    <3>1. Like(session', session)
      BY <2>1, <2>2, StoppedIsLike
    <3>2. QED
      BY <2>1, <3>1 DEF Kept, Live
  <2>4. QED
    BY <1>1, <2>1, <2>3, KeptIme
<1>9. QED
  BY <1>2, <1>3, <1>4, <1>5, <1>6, <1>7, <1>8, Zenon DEF Next

----------------------------------------------------------------------------
\* ImeInv holds always, for any windows, pointers and number of texts.
THEOREM ImeInvariant == Spec => [](SeatInv /\ ImeInv)
<1>1. Init => ImeInv
  BY InitImeInv
<1>2. SeatInv /\ ImeInv /\ [Next]_vars => ImeInv'
  BY NextImeInv
<1>3. QED
  BY <1>1, <1>2, SeatInvariant, PTL DEF Spec

\* The window that has the text focus has been told of every text that the
\* input method committed since the focus came, once, whatever the application
\* did between the messages and in the callbacks (_text_input_handle_done).
THEOREM TextAlwaysReaches == Spec => []TextReachesWindow
<1>1. SeatInv /\ ImeInv => TextReachesWindow
  <2> SUFFICES ASSUME ImeInv, Between, Live(comp.text)
               PROVE  session.received = session.commits
    BY DEF TextReachesWindow
  <2>1. Owed(agenda) = 0
    BY NothingOwed DEF ImeInv, Between
  <2>2. session.received \in Nat
    BY DEF ImeInv, Counted, SessionType
  <2>3. session.received + Owed(agenda) = session.commits
    BY DEF ImeInv, Served
  <2>4. QED
    BY <2>1, <2>2, <2>3
<1>2. QED
  BY <1>1, ImeInvariant, PTL

\* The seat's state keeps its types and its bounds: the agenda of a handler
\* never holds more than a composition, a text and the reset of what was
\* pending, and the sessions never count more texts than were committed.
THEOREM SeatIsTyped == Spec => []TypeOK
<1>1. SeatInv /\ ImeInv => TypeOK
  <2> SUFFICES ASSUME SeatInv, ImeInv PROVE TypeOK
    OBVIOUS
  <2>1. window \in [Windows -> [stage : {"new", "live", "dead"}, text : BOOLEAN,
                                mode : {"normal", "locked"},
                                locked : 0 .. MaxPointers]]
    <3>1. ASSUME NEW w \in Windows
          PROVE  window[w] \in [stage : {"new", "live", "dead"}, text : BOOLEAN,
                                mode : {"normal", "locked"},
                                locked : 0 .. MaxPointers]
      <4>1. window[w] \in [stage : {"new", "live", "dead"}, text : BOOLEAN,
                           mode : {"normal", "locked"}, locked : Nat]
        BY DEF SeatInv, Typed
      <4>2. window[w].locked \in {0, pointer} /\ pointer \in 0 .. MaxPointers
        BY DEF SeatInv, LocksFollow, ImeInv, Counted, Bounded
      <4>3. window[w].locked \in 0 .. MaxPointers
        BY <4>2, SeatAssumption
      <4>4. QED
        BY <4>1, <4>3
    <3>2. QED
      BY <3>1 DEF SeatInv, Typed
  <2>2. Len(agenda) <= 3 /\ \A i \in 1 .. Len(agenda) : agenda[i] \in Items
    <3>1. /\ KeyItem \in Items /\ KeyText \in Items /\ ClearPending \in Items
          /\ \A w \in Windows, some \in BOOLEAN :
               Composition(w, some) \in Items /\ Commit(w) \in Items
      BY DEF KeyItem, KeyText, ClearPending, Composition, Commit, Items
    <3>2. ASSUME NEW a \in Items, NEW b \in Items, NEW c \in Items,
                 agenda \in {<<>>, <<a>>, <<a, b>>, <<a, b, c>>}
          PROVE  Len(agenda) <= 3 /\ \A i \in 1 .. Len(agenda) : agenda[i] \in Items
      <4>1. CASE agenda = <<>>
        BY <4>1
      <4>2. CASE agenda = <<a>>
        BY <4>2, Tuples
      <4>3. CASE agenda = <<a, b>>
        BY <4>3, Tuples
      <4>4. CASE agenda = <<a, b, c>>
        <5>1. agenda \in Seq(Items) /\ Len(agenda) = 3
          BY <4>4
        <5>2. QED
          BY <5>1
      <4>5. QED
        BY <3>2, <4>1, <4>2, <4>3, <4>4
    <3>3. CASE agenda = <<>> \/ agenda = <<ClearPending>>
      BY <3>1, <3>2, <3>3
    <3>4. CASE agenda = <<KeyText>> \/ agenda = <<KeyItem, KeyText>>
      BY <3>1, <3>2, <3>4
    <3>5. ASSUME NEW w \in Windows, NEW some \in BOOLEAN,
                 \/ agenda = <<Composition(w, some), ClearPending>>
                 \/ agenda = <<Composition(w, some), Commit(w), ClearPending>>
          PROVE  Len(agenda) <= 3 /\ \A i \in 1 .. Len(agenda) : agenda[i] \in Items
      <4>1. Composition(w, some) \in Items /\ Commit(w) \in Items
        BY <3>1, Zenon
      <4>2. CASE agenda = <<Composition(w, some), ClearPending>>
        BY <3>1, <3>2, <4>1, <4>2
      <4>3. CASE agenda = <<Composition(w, some), Commit(w), ClearPending>>
        BY <3>1, <3>2, <4>1, <4>3
      <4>4. QED
        BY <3>5, <4>2, <4>3
    <3>6. ASSUME NEW w \in Windows, agenda = <<Commit(w), ClearPending>>
          PROVE  Len(agenda) <= 3 /\ \A i \in 1 .. Len(agenda) : agenda[i] \in Items
      <4>1. Commit(w) \in Items
        BY DEF Commit, Items
      <4>2. QED
        BY <3>1, <3>2, <3>6, <4>1
    <3>7. QED
      BY <3>3, <3>4, <3>5, <3>6, Zenon DEF ImeInv, Agenda
  <2>3. keyboard \/ keyboard_focus = None
    BY DEF SeatInv, Focuses
  <2>4. QED
    BY <2>1, <2>2, <2>3
    DEF TypeOK, SeatInv, Typed, ImeInv, Counted, Bounded, PendingType, SessionType
<1>2. QED
  BY <1>1, ImeInvariant, PTL

=============================================================================
