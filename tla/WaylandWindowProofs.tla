------------------------- MODULE WaylandWindowProofs -------------------------
(***************************************************************************)
(* Theorems about WaylandWindow for any sizes, limits, proposals, scales   *)
(* and reactions of the application, and any depth of callbacks: what the  *)
(* application is told of its window, and that a size stays one.           *)
(*                                                                         *)
(* The properties speak of moments at which no handler is open.  In        *)
(* between, the agenda is the work of updates made in callbacks, however   *)
(* deep, over what is left of one handler (Ordered); whatever is not as it *)
(* should be will be put right by a part that is still there (Coming).     *)
(***************************************************************************)
EXTENDS WaylandWindow, TLAPS

----------------------------------------------------------------------------
(* The inductive invariant.                                                *)

WindowType ==
  [size : Dims, scale : Nat, limits : Limits, resizable : BOOLEAN,
   ready : BOOLEAN, maximized : BOOLEAN, fullscreen : BOOLEAN,
   flag : [max : BOOLEAN, full : BOOLEAN, focus : BOOLEAN]]

CompType == [max : BOOLEAN, full : BOOLEAN, active : BOOLEAN, owes : BOOLEAN,
             asked : [max : Asked, full : Asked]]

ToldType == [size : Dims, scale : Nat, maximized : BOOLEAN, focused : BOOLEAN,
             ready : BOOLEAN]

\* What an update adds, and the constraints between their two parts.
Work == {"constrain", "clamp", "resized", "opaque"}

Has(ag, kind) == \E k \in 1 .. Len(ag) : ag[k].kind = kind

\* The part k of the agenda belongs to an update, or it is where it is in a
\* handler, counted from the end.
InPlace(ag, k) ==
  \/ ag[k].kind \in Work
  \/ ag[k].kind \in {"surface", "configured"} /\ k = Len(ag)
  \/ ag[k].kind = "size" /\ k + 1 = Len(ag) /\ ag[Len(ag)].kind = "surface"
  \/ ag[k].kind = "frame" /\ k + 1 = Len(ag) /\ ag[Len(ag)].kind = "configured"
  \/ ag[k].kind \in {"maximized", "states"}

Ordered(ag) == ag \in Seq(Items) /\ \A k \in 1 .. Len(ag) : InPlace(ag, k)

\* The window w has told its size, or will; one that is not ready will before
\* it is.
GeometryComes(w, ag, tl, si) ==
  \/ si
  \/ tl.size = w.size /\ tl.scale = w.scale
  \/ Has(ag, "resized")
  \/ Has(ag, "configured")
  \/ ~w.ready /\ (Has(ag, "surface") => Has(ag, "size"))

\* The window is ready, or will be: all but wi of the n configures have come.
ReadyComes(w, ag, wi, tl, n) ==
  /\ tl.ready = w.ready
  /\ n > Len(wi) => w.ready \/ Has(ag, "surface") \/ Has(ag, "frame")

\* The last configure under way says what the compositor has made of the window.
LastConfigure(c, ag, wi) ==
  /\ wi # <<>> => /\ wi[Len(wi)].max = c.max
                  /\ wi[Len(wi)].full = c.full
                  /\ wi[Len(wi)].active = c.active
  /\ wi = <<>> =>
       \A k \in 1 .. Len(ag) :
         /\ ag[k].kind = "maximized" => ag[k].configure.max = c.max
         /\ ag[k].kind = "states" => /\ ag[k].configure.full = c.full
                                     /\ ag[k].configure.active = c.active

\* Without one the window agrees with the compositor, unless it has asked for
\* another state since.
StatesCome(w, c, ag, wi, tl) ==
  /\ tl.focused = w.flag.focus
  /\ wi = <<>> /\ ~c.owes =>
       /\ Has(ag, "maximized") \/ c.asked.max # "none" \/ w.maximized = c.max
       /\ \/ Has(ag, "states")
          \/ c.asked.full # "none"
          \/ w.fullscreen = c.full /\ w.flag.full = c.full
       /\ Has(ag, "states") \/ w.flag.focus = c.active

Typed(w, c, wi, tl) ==
  /\ w \in WindowType
  /\ w.size.x > 0
  /\ w.size.y > 0
  /\ c \in CompType
  /\ wi \in Seq(Proposals)
  /\ tl \in ToldType

\* A live window.
Coming(w, c, ag, wi, tl, si, n) ==
  /\ Typed(w, c, wi, tl)
  /\ Ordered(ag)
  /\ GeometryComes(w, ag, tl, si)
  /\ ReadyComes(w, ag, wi, tl, n)
  /\ LastConfigure(c, ag, wi)
  /\ StatesCome(w, c, ag, wi, tl)

\* A window that is not made yet, and one that is destroyed.
Fresh == /\ win = Freed
         /\ comp = NewComp
         /\ wire = <<>>
         /\ agenda = <<>>
         /\ told = NothingTold
         /\ silent = FALSE
         /\ reached = FALSE
         /\ configures = 0

Gone == /\ win = Freed
        /\ comp = NewComp
        /\ wire = <<>>
        /\ agenda \in Seq(Items)
        /\ told \in ToldType

Counts ==
  /\ decor \in Decorations
  /\ enforce \in BOOLEAN
  /\ silent \in BOOLEAN
  /\ reached \in BOOLEAN
  /\ configures \in 0 .. MaxConfigures
  /\ updates \in 0 .. MaxUpdates

IInv ==
  /\ Counts
  /\ \/ stage = "new" /\ Fresh
     \/ /\ stage = "live"
        /\ Coming(win, comp, agenda, wire, told, silent, configures)
        /\ reached = FALSE
     \/ stage = "dead" /\ Gone
----------------------------------------------------------------------------
(* Sizes: what the constraints make of a size with two sides has two.       *)

Positive == Nat \ {0}
Sized == [x : Positive, y : Positive]

LEMMA SizedIs ==
  ASSUME NEW s
  PROVE  s \in Sized <=> s \in Dims /\ s.x > 0 /\ s.y > 0
BY DEF Sized, Dims, Positive

LEMMA ProductNat ==
  ASSUME NEW a \in Nat, NEW b \in Nat
  PROVE  a * b \in Nat
OBVIOUS

LEMMA ClampPositive ==
  ASSUME NEW v \in Positive, NEW lo \in Nat, NEW hi \in Nat
  PROVE  Clamp(v, lo, hi) \in Positive /\ Fit(v, lo, hi) \in Positive
BY SMT DEF Clamp, Fit, Positive

LEMMA ClampSized ==
  ASSUME NEW s \in Sized, NEW lo \in Dims, NEW hi \in Dims
  PROVE  ClampSize(s, lo, hi) \in Sized /\ FitSize(s, lo, hi) \in Sized
<1>1. /\ s.x \in Positive /\ s.y \in Positive
      /\ lo.x \in Nat /\ lo.y \in Nat /\ hi.x \in Nat /\ hi.y \in Nat
  BY DEF Sized, Dims
<1>2. /\ Clamp(s.x, lo.x, hi.x) \in Positive /\ Clamp(s.y, lo.y, hi.y) \in Positive
      /\ Fit(s.x, lo.x, hi.x) \in Positive /\ Fit(s.y, lo.y, hi.y) \in Positive
  BY <1>1, ClampPositive, Zenon
<1> QED
  BY <1>2 DEF ClampSize, FitSize, Sized

LEMMA QuotientPositive ==
  ASSUME NEW a \in Nat, NEW b \in Positive
  PROVE  Quotient(a, b) \in Positive
<1>1. b \div 2 \in Nat
  BY SMT DEF Positive
<1>2. a + b \div 2 \in Nat
  BY <1>1, SMT
<1>3. PICK n \in Nat : n = a + b \div 2
  BY <1>2
<1>4. n \div b \in Nat
  BY SMT DEF Positive
<1> QED
  BY <1>3, <1>4, SMT DEF Quotient, Positive

LEMMA PassSized ==
  ASSUME NEW s \in Sized, NEW l \in Limits, l.num # 0, l.den # 0
  PROVE  AspectPass(s, l) \in Sized
<1> DEFINE lhs == s.x * l.den
           rhs == s.y * l.num
           fitted == CASE lhs > rhs -> [s EXCEPT !.x = Quotient(rhs, l.den)]
                       [] lhs < rhs -> [s EXCEPT !.y = Quotient(lhs, l.num)]
                       [] OTHER     -> s
           upper == [x |-> Upper(l.min.x, l.max.x), y |-> Upper(l.min.y, l.max.y)]
<1>1. /\ s.x \in Nat /\ s.y \in Nat /\ l.num \in Nat /\ l.den \in Nat
      /\ l.num \in Positive /\ l.den \in Positive
      /\ l.min \in Dims
      /\ l.min.x \in Nat /\ l.min.y \in Nat /\ l.max.x \in Nat /\ l.max.y \in Nat
  BY DEF Sized, Limits, Dims, Positive
<1>2. lhs \in Nat /\ rhs \in Nat
  BY <1>1, ProductNat, Zenon
<1>3. Quotient(rhs, l.den) \in Positive /\ Quotient(lhs, l.num) \in Positive
  BY <1>1, <1>2, QuotientPositive, Zenon
<1>4. [s EXCEPT !.x = Quotient(rhs, l.den)] \in Sized
      /\ [s EXCEPT !.y = Quotient(lhs, l.num)] \in Sized
  <2> HIDE DEF lhs, rhs
  <2> QED
    BY <1>3 DEF Sized
<1>5. fitted \in Sized
  <2> HIDE DEF lhs, rhs
  <2> QED
    BY <1>2, <1>4, SMT
<1>6. upper \in Dims
  BY <1>1 DEF Upper, Dims
<1>7. ClampSize(fitted, l.min, upper) \in Sized
  <2> HIDE DEF fitted, upper
  <2> QED
    BY <1>1, <1>5, <1>6, ClampSized, Zenon
<1> QED
  BY <1>7, Zenon DEF AspectPass

LEMMA RatioSized ==
  ASSUME NEW s \in Sized, NEW l \in Limits
  PROVE  EnforceAspectRatio(s, l) \in Sized
<1>1. CASE l.num # 0 /\ l.den # 0
  <2>1. AspectPass(s, l) \in Sized
    BY <1>1, PassSized, Zenon
  <2>2. AspectPass(AspectPass(s, l), l) \in Sized
    BY <1>1, <2>1, PassSized, Zenon
  <2> QED
    BY <1>1, <2>2, Zenon DEF EnforceAspectRatio
<1>2. CASE l.num = 0 \/ l.den = 0
  BY <1>2, Zenon DEF EnforceAspectRatio
<1> QED
  BY <1>1, <1>2

LEMMA WindowParts ==
  ASSUME NEW w \in WindowType, w.size.x > 0, w.size.y > 0
  PROVE  /\ w.size \in Sized /\ w.size \in Dims
         /\ w.limits \in Limits /\ w.limits.min \in Dims /\ w.limits.max \in Dims
BY SMT DEF WindowType, Sized, Dims, Limits, Positive

LEMMA EnforcedSized ==
  ASSUME NEW w \in WindowType, w.size.x > 0, w.size.y > 0, NEW s \in Sized
  PROVE  Enforced(w, s) \in Sized
BY WindowParts, RatioSized, Zenon DEF Enforced

LEMMA BoundsTyped ==
  ASSUME NEW w \in WindowType, w.size.x > 0, w.size.y > 0
  PROVE  MinSize(w) \in Dims /\ MaxSize(w) \in Dims
BY WindowParts, Zenon DEF MinSize, MaxSize

LEMMA FramesSized ==
  ASSUME NEW w \in WindowType, w.size.x > 0, w.size.y > 0
  PROVE  FrameSize(w) \in Sized
BY WindowParts, BoundsTyped, ClampSized, EnforcedSized, Zenon DEF FrameSize

LEMMA FinalSized ==
  ASSUME NEW w \in WindowType, w.size.x > 0, w.size.y > 0,
         NEW b \in [min : Dims, max : Dims]
  PROVE  FinalSize(w, b) \in Sized
<1>1. b.min \in Dims /\ b.max \in Dims
  OBVIOUS
<1>2. (IF Floating(w) THEN Enforced(w, w.size) ELSE w.size) \in Sized
  BY WindowParts, EnforcedSized, Zenon
<1> QED
  BY <1>1, <1>2, ClampSized, Zenon DEF FinalSize

LEMMA ProposedSized ==
  ASSUME win \in WindowType, win.size.x > 0, win.size.y > 0, NEW c \in Proposals
  PROVE  Proposed(c) \in Sized
<1> DEFINE s == [x |-> IF c.size.x > 0 THEN c.size.x ELSE win.size.x,
                 y |-> IF c.size.y > 0 THEN c.size.y ELSE win.size.y]
<1>1. c.size.x \in Nat /\ c.size.y \in Nat
  BY WindowAssumption DEF Dims
<1>2. s \in Sized
  BY <1>1, WindowParts DEF Sized, Dims, Positive
<1>3. Enforced(win, s) \in Sized
  <2> HIDE DEF s
  <2> QED
    BY <1>2, EnforcedSized, Zenon
<1> QED
  BY <1>2, <1>3, Zenon DEF Proposed
----------------------------------------------------------------------------
(* Agendas.                                                                 *)

LEMMA TailIs ==
  ASSUME NEW S, NEW s \in Seq(S), s # <<>>
  PROVE  /\ Head(s) = s[1]
         /\ Head(s) \in S
         /\ Tail(s) \in Seq(S)
         /\ Len(s) \in Nat \ {0}
         /\ Len(Tail(s)) = Len(s) - 1
         /\ \A k \in 1 .. Len(Tail(s)) : Tail(s)[k] = s[k + 1]
BY SMT

LEMMA ConcatIs ==
  ASSUME NEW S, NEW s \in Seq(S), NEW t \in Seq(S)
  PROVE  /\ s \o t \in Seq(S)
         /\ Len(s) \in Nat /\ Len(t) \in Nat
         /\ Len(s \o t) = Len(s) + Len(t)
         /\ \A k \in 1 .. Len(s) : (s \o t)[k] = s[k]
         /\ \A k \in 1 .. Len(t) : (s \o t)[Len(s) + k] = t[k]
BY SMT

LEMMA TailHas ==
  ASSUME NEW ag \in Seq(Items), ag # <<>>, NEW kind
  PROVE  /\ Has(Tail(ag), kind) => Has(ag, kind)
         /\ Has(ag, kind) => Head(ag).kind = kind \/ Has(Tail(ag), kind)
<1>1. /\ Head(ag) = ag[1] /\ Len(ag) \in Nat \ {0} /\ Len(Tail(ag)) = Len(ag) - 1
      /\ \A k \in 1 .. Len(Tail(ag)) : Tail(ag)[k] = ag[k + 1]
  BY TailIs
<1>2. ASSUME NEW k \in 1 .. Len(Tail(ag)), Tail(ag)[k].kind = kind
      PROVE  Has(ag, kind)
  <2>1. k + 1 \in 1 .. Len(ag) /\ ag[k + 1].kind = kind
    BY <1>1, <1>2
  <2> QED
    BY <2>1, Zenon DEF Has
<1>3. ASSUME NEW k \in 1 .. Len(ag), ag[k].kind = kind, Head(ag).kind # kind
      PROVE  Has(Tail(ag), kind)
  <2>1. k # 1
    BY <1>1, <1>3, Zenon
  <2>2. k - 1 \in 1 .. Len(Tail(ag)) /\ (k - 1) + 1 = k
    BY <1>1, <2>1
  <2>3. Tail(ag)[k - 1].kind = kind
    BY <1>1, <1>3, <2>2
  <2> QED
    BY <2>2, <2>3, Zenon DEF Has
<1> QED
  BY <1>2, <1>3, Zenon DEF Has

LEMMA ConcatHas ==
  ASSUME NEW wk \in Seq(Items), NEW ag \in Seq(Items), NEW kind
  PROVE  /\ Has(ag, kind) => Has(wk \o ag, kind)
         /\ Has(wk, kind) => Has(wk \o ag, kind)
         /\ Has(wk \o ag, kind) => Has(wk, kind) \/ Has(ag, kind)
<1>1. /\ Len(wk) \in Nat /\ Len(ag) \in Nat /\ Len(wk \o ag) = Len(wk) + Len(ag)
      /\ \A k \in 1 .. Len(wk) : (wk \o ag)[k] = wk[k]
      /\ \A k \in 1 .. Len(ag) : (wk \o ag)[Len(wk) + k] = ag[k]
  BY ConcatIs
<1>2. ASSUME NEW k \in 1 .. Len(ag), ag[k].kind = kind
      PROVE  Has(wk \o ag, kind)
  <2>1. Len(wk) + k \in 1 .. Len(wk \o ag) /\ (wk \o ag)[Len(wk) + k].kind = kind
    BY <1>1, <1>2
  <2> QED
    BY <2>1, Zenon DEF Has
<1>3. ASSUME NEW k \in 1 .. Len(wk), wk[k].kind = kind
      PROVE  Has(wk \o ag, kind)
  <2>1. k \in 1 .. Len(wk \o ag) /\ (wk \o ag)[k].kind = kind
    BY <1>1, <1>3
  <2> QED
    BY <2>1, Zenon DEF Has
<1>4. ASSUME NEW k \in 1 .. Len(wk \o ag), (wk \o ag)[k].kind = kind
      PROVE  Has(wk, kind) \/ Has(ag, kind)
  <2>1. CASE k \in 1 .. Len(wk)
    BY <1>1, <1>4, <2>1, Zenon DEF Has
  <2>2. CASE k \notin 1 .. Len(wk)
    <3>1. k - Len(wk) \in 1 .. Len(ag) /\ Len(wk) + (k - Len(wk)) = k
      BY <1>1, <2>2
    <3>2. ag[k - Len(wk)].kind = kind
      BY <1>1, <1>4, <3>1
    <3> QED
      BY <3>1, <3>2, Zenon DEF Has
  <2> QED
    BY <2>1, <2>2
<1> QED
  BY <1>2, <1>3, <1>4, Zenon DEF Has

LEMMA Counting ==
  ASSUME NEW n \in Nat \ {0}, NEW m, m = n - 1, NEW k \in 1 .. m
  PROVE  (k + 1 = n => k = m) /\ ((k + 1) + 1 = n => k + 1 = m)
OBVIOUS

LEMMA OrderedTail ==
  ASSUME NEW ag, Ordered(ag), ag # <<>>
  PROVE  Ordered(Tail(ag))
<1>1. /\ Tail(ag) \in Seq(Items) /\ Len(ag) \in Nat \ {0}
      /\ Len(Tail(ag)) = Len(ag) - 1
      /\ \A k \in 1 .. Len(Tail(ag)) : Tail(ag)[k] = ag[k + 1]
  BY TailIs DEF Ordered
<1>2. ASSUME NEW k \in 1 .. Len(Tail(ag)) PROVE InPlace(Tail(ag), k)
  <2>1. k + 1 \in 1 .. Len(ag) /\ InPlace(ag, k + 1)
    BY <1>1 DEF Ordered
  <2>2. Tail(ag)[k] = ag[k + 1] /\ Tail(ag)[Len(Tail(ag))] = ag[Len(ag)]
    BY <1>1
  <2>3. /\ k + 1 = Len(ag) => k = Len(Tail(ag))
        /\ (k + 1) + 1 = Len(ag) => k + 1 = Len(Tail(ag))
    <3> PICK n : n = Len(ag)
      OBVIOUS
    <3> PICK m : m = Len(Tail(ag))
      OBVIOUS
    <3>1. n \in Nat \ {0} /\ m = n - 1 /\ k \in 1 .. m
      BY <1>1, Zenon
    <3>2. (k + 1 = n => k = m) /\ ((k + 1) + 1 = n => k + 1 = m)
      BY <3>1, Counting
    <3> QED
      BY <3>2, Zenon
  <2> QED
    BY <2>1, <2>2, <2>3, Zenon DEF InPlace
<1> QED
  BY <1>1, <1>2 DEF Ordered

\* Work that updates add.
Works == {wk \in Seq(Items) : \A k \in 1 .. Len(wk) : wk[k].kind \in Work}

LEMMA OrderedConcat ==
  ASSUME NEW wk \in Works, NEW ag, Ordered(ag)
  PROVE  Ordered(wk \o ag)
<1>1. /\ wk \o ag \in Seq(Items)
      /\ Len(wk) \in Nat /\ Len(ag) \in Nat /\ Len(wk \o ag) = Len(wk) + Len(ag)
      /\ \A k \in 1 .. Len(wk) : (wk \o ag)[k] = wk[k]
      /\ \A k \in 1 .. Len(ag) : (wk \o ag)[Len(wk) + k] = ag[k]
  BY ConcatIs DEF Ordered, Works
<1>2. ASSUME NEW k \in 1 .. Len(wk \o ag) PROVE InPlace(wk \o ag, k)
  <2>1. CASE k \in 1 .. Len(wk)
    <3>1. (wk \o ag)[k] = wk[k] /\ wk[k].kind \in Work
      BY <1>1, <2>1 DEF Works
    <3> QED
      BY <3>1, Zenon DEF InPlace
  <2>2. CASE k \notin 1 .. Len(wk)
    <3>1. PICK j \in 1 .. Len(ag) : k = Len(wk) + j
      <4>1. k - Len(wk) \in 1 .. Len(ag) /\ k = Len(wk) + (k - Len(wk))
        BY <1>1, <2>2
      <4> QED
        BY <4>1, Zenon
    <3>2. InPlace(ag, j) /\ (wk \o ag)[k] = ag[j]
      BY <1>1, <3>1, Zenon DEF Ordered
    <3>3. /\ Len(ag) \in 1 .. Len(ag)
          /\ j = Len(ag) => k = Len(wk \o ag)
          /\ j + 1 = Len(ag) => k + 1 = Len(wk \o ag)
      BY <1>1, <3>1
    <3>4. (wk \o ag)[Len(wk \o ag)] = ag[Len(ag)]
      BY <1>1, <3>3, Zenon
    <3> QED
      BY <3>2, <3>3, <3>4, Zenon DEF InPlace
  <2> QED
    BY <2>1, <2>2
<1> QED
  BY <1>1, <1>2 DEF Ordered

LEMMA LastOfTail ==
  ASSUME NEW ag, Ordered(ag), ag # <<>>, NEW c, NEW wi, LastConfigure(c, ag, wi)
  PROVE  LastConfigure(c, Tail(ag), wi)
<1>1. /\ Len(ag) \in Nat \ {0} /\ Len(Tail(ag)) = Len(ag) - 1
      /\ \A k \in 1 .. Len(Tail(ag)) : Tail(ag)[k] = ag[k + 1]
  BY TailIs DEF Ordered
<1>2. \A k \in 1 .. Len(Tail(ag)) : k + 1 \in 1 .. Len(ag)
  BY <1>1
<1> QED
  BY <1>1, <1>2, Zenon DEF LastConfigure

LEMMA LastOfConcat ==
  ASSUME NEW wk \in Works, NEW ag, Ordered(ag), NEW c, NEW d, NEW wi,
         LastConfigure(c, ag, wi), d.max = c.max, d.full = c.full, d.active = c.active
  PROVE  LastConfigure(d, wk \o ag, wi)
<1>1. /\ Len(wk) \in Nat /\ Len(ag) \in Nat /\ Len(wk \o ag) = Len(wk) + Len(ag)
      /\ \A k \in 1 .. Len(wk) : (wk \o ag)[k] = wk[k]
      /\ \A k \in 1 .. Len(ag) : (wk \o ag)[Len(wk) + k] = ag[k]
  BY ConcatIs DEF Ordered, Works
<1>2. ASSUME NEW k \in 1 .. Len(wk \o ag), wi = <<>>
      PROVE  /\ (wk \o ag)[k].kind = "maximized" => (wk \o ag)[k].configure.max = d.max
             /\ (wk \o ag)[k].kind = "states" =>
                  /\ (wk \o ag)[k].configure.full = d.full
                  /\ (wk \o ag)[k].configure.active = d.active
  <2>1. CASE k \in 1 .. Len(wk)
    <3>1. (wk \o ag)[k] = wk[k] /\ wk[k].kind \in Work
      BY <1>1, <2>1 DEF Works
    <3>2. (wk \o ag)[k].kind \notin {"maximized", "states"}
      BY <3>1 DEF Work
    <3> QED
      BY <3>2, Zenon
  <2>2. CASE k \notin 1 .. Len(wk)
    <3>1. k - Len(wk) \in 1 .. Len(ag) /\ Len(wk) + (k - Len(wk)) = k
      BY <1>1, <2>2
    <3>2. (wk \o ag)[k] = ag[k - Len(wk)]
      BY <1>1, <3>1, Zenon
    <3> QED
      BY <1>2, <3>1, <3>2, Zenon DEF LastConfigure
  <2> QED
    BY <2>1, <2>2
<1> QED
  BY <1>2, Zenon DEF LastConfigure
----------------------------------------------------------------------------
(* What an update does, in a callback or not.                               *)

UpdateWork == <<Item("constrain"), Item("resized"), Item("opaque")>>

LEMMA WorksAre ==
  /\ <<>> \in Works
  /\ Constraining \in Works
  /\ UpdateWork \in Works
  /\ Has(UpdateWork, "resized")
<1>1. /\ Item("constrain") \in Items /\ Item("resized") \in Items
      /\ Item("opaque") \in Items
  BY DEF Item, Items, Plain
<1>2. /\ Item("constrain").kind = "constrain" /\ Item("resized").kind = "resized"
      /\ Item("opaque").kind = "opaque"
  BY DEF Item
<1>3. <<>> \in Works
  BY DEF Works
<1>4. Constraining \in Works
  BY <1>1, <1>2 DEF Works, Constraining, Work
<1>5. UpdateWork \in Works
  BY <1>1, <1>2 DEF Works, UpdateWork, Work
<1>6. 2 \in 1 .. Len(UpdateWork) /\ UpdateWork[2].kind = "resized"
  BY <1>2 DEF UpdateWork
<1> QED
  BY <1>3, <1>4, <1>5, <1>6, Zenon DEF Has

\* A request to the compositor: the state agrees as before or has been asked for.
Requested(w, c, r) ==
  /\ r.win \in WindowType
  /\ r.comp \in CompType
  /\ r.win.size = w.size
  /\ r.win.scale = w.scale
  /\ r.win.ready = w.ready
  /\ r.win.flag.focus = w.flag.focus
  /\ r.comp.max = c.max
  /\ r.comp.full = c.full
  /\ r.comp.active = c.active
  /\ r.comp.owes = c.owes
  /\ \/ r.comp.asked.max # "none"
     \/ r.comp.asked.max = c.asked.max /\ r.win.maximized = w.maximized
  /\ \/ r.comp.asked.full # "none"
     \/ /\ r.comp.asked.full = c.asked.full
        /\ r.win.fullscreen = w.fullscreen
        /\ r.win.flag.full = w.flag.full

LEMMA NothingRequested ==
  ASSUME NEW w \in WindowType, NEW c \in CompType
  PROVE  Requested(w, c, [win |-> w, comp |-> c])
BY DEF Requested

LEMMA AskTyped ==
  ASSUME NEW c \in CompType, NEW on \in BOOLEAN, NEW state \in {"max", "full"}
  PROVE  /\ Ask(c, state, on) \in CompType
         /\ Ask(c, state, on).max = c.max
         /\ Ask(c, state, on).full = c.full
         /\ Ask(c, state, on).active = c.active
         /\ Ask(c, state, on).owes = c.owes
         /\ Ask(c, state, on).asked[state] # "none"
         /\ \A other \in {"max", "full"} \ {state} :
              Ask(c, state, on).asked[other] = c.asked[other]
<1>1. PICK answer \in {"on", "off"} : answer = IF on THEN "on" ELSE "off"
  OBVIOUS
<1>2. Ask(c, state, on) = [c EXCEPT !.asked[state] = answer]
  BY <1>1 DEF Ask
<1> QED
  BY <1>2 DEF CompType, Asked

LEMMA FullscreenRequests ==
  ASSUME NEW w \in WindowType, NEW c \in CompType, NEW on \in BOOLEAN
  PROVE  Requested(w, c, SetFullscreen(w, c, on))
<1>1. CASE w.fullscreen = on /\ ~on
  BY <1>1, NothingRequested DEF SetFullscreen
<1>2. CASE ~(w.fullscreen = on /\ ~on)
  <2>1. PICK d : d = Ask(c, "full", on)
    OBVIOUS
  <2>2. /\ d \in CompType /\ d.max = c.max /\ d.full = c.full
        /\ d.active = c.active /\ d.owes = c.owes
        /\ d.asked.full # "none" /\ d.asked.max = c.asked.max
    BY <2>1, AskTyped
  <2>3. SetFullscreen(w, c, on) =
          [win |-> [w EXCEPT !.fullscreen = on, !.flag.full = on], comp |-> d]
    BY <1>2, <2>1, Zenon DEF SetFullscreen
  <2>4. PICK v : v = [w EXCEPT !.fullscreen = on, !.flag.full = on]
    OBVIOUS
  <2>5. PICK f : f = w.flag
    OBVIOUS
  <2>6. f \in [max : BOOLEAN, full : BOOLEAN, focus : BOOLEAN]
    BY <2>5 DEF WindowType
  <2>7. v = [w EXCEPT !.fullscreen = on, !.flag = [f EXCEPT !.full = on]]
    BY <2>4, <2>5 DEF WindowType
  <2>8. /\ [f EXCEPT !.full = on] \in [max : BOOLEAN, full : BOOLEAN, focus : BOOLEAN]
        /\ [f EXCEPT !.full = on].focus = f.focus
    BY <2>6
  <2>9. PICK g : g = [f EXCEPT !.full = on]
    OBVIOUS
  <2>10. /\ v \in WindowType /\ v.size = w.size /\ v.scale = w.scale
         /\ v.ready = w.ready /\ v.flag = g /\ v.maximized = w.maximized
    BY <2>7, <2>8, <2>9 DEF WindowType
  <2>11. g.focus = w.flag.focus
    BY <2>5, <2>8, <2>9, Zenon
  <2>12. PICK r : r = SetFullscreen(w, c, on)
    OBVIOUS
  <2>13. r.win = v /\ r.comp = d
    BY <2>3, <2>4, <2>12
  <2>14. Requested(w, c, r)
    BY <2>2, <2>10, <2>11, <2>13, Zenon DEF Requested
  <2> QED
    BY <2>12, <2>14, Zenon
<1> QED
  BY <1>1, <1>2

LEMMA MaximizedRequests ==
  ASSUME NEW w \in WindowType, NEW c \in CompType, NEW on \in BOOLEAN
  PROVE  Requested(w, c, SetMaximized(w, c, on))
<1>1. CASE w.maximized = on
  BY <1>1, NothingRequested DEF SetMaximized
<1>2. CASE w.maximized # on
  <2>1. PICK d : d = Ask(c, "max", on)
    OBVIOUS
  <2>2. /\ d \in CompType /\ d.max = c.max /\ d.full = c.full
        /\ d.active = c.active /\ d.owes = c.owes
        /\ d.asked.max # "none" /\ d.asked.full = c.asked.full
    BY <2>1, AskTyped
  <2>3. SetMaximized(w, c, on) = [win |-> [w EXCEPT !.maximized = on], comp |-> d]
    BY <1>2, <2>1, Zenon DEF SetMaximized
  <2> QED
    BY <2>2, <2>3 DEF Requested, WindowType
<1> QED
  BY <1>1, <1>2

\* What is left of a field: the window as it was but for its states, or a new
\* size that will be told.
Updated(w, c, r) ==
  /\ r.work \in Works
  /\ r.win.size.x > 0
  /\ r.win.size.y > 0
  /\ \/ Requested(w, c, r)
     \/ /\ Requested([w EXCEPT !.size = r.win.size], c, r)
        /\ Has(r.work, "resized")

LEMMA OpsAre ==
  ASSUME NEW o \in ReactionOps
  PROVE  \/ o.op = "size" /\ o.arg \in Sizes
         \/ o.op = "limits" /\ o.arg \in LimitSets
         \/ o.op = "maximize" /\ o.arg \in BOOLEAN
         \/ o.op = "fullscreen" /\ o.arg \in BOOLEAN
         \/ o.op = "monitor"
         \/ o.op = "resizable" /\ o.arg \in BOOLEAN
BY DEF ReactionOps, Ops

LEMMA FieldUpdates ==
  ASSUME NEW w \in WindowType, w.size.x > 0, w.size.y > 0, NEW c \in CompType,
         NEW o \in ReactionOps
  PROVE  Updated(w, c, Field(w, c, o))
<1>1. CASE o.op = "size" /\ o.arg \in Sizes
  <2>1. CASE w.size = o.arg
    <3>1. Field(w, c, o) = [win |-> w, comp |-> c, work |-> <<>>]
      BY <1>1, <2>1 DEF Field
    <3> QED
      BY <3>1, NothingRequested, WorksAre DEF Updated, Requested
  <2>2. CASE w.size # o.arg
    <3>1. Field(w, c, o) = [win |-> [w EXCEPT !.size = o.arg], comp |-> c,
                            work |-> UpdateWork]
      BY <1>1, <2>2 DEF Field, UpdateWork
    <3>2. o.arg \in Dims /\ o.arg.x > 0 /\ o.arg.y > 0
      BY <1>1, WindowAssumption DEF Dims
    <3>3. PICK v : v = [w EXCEPT !.size = o.arg]
      OBVIOUS
    <3>4. v \in WindowType /\ v.size = o.arg
      BY <3>2, <3>3 DEF WindowType
    <3>5. PICK r : r = Field(w, c, o)
      OBVIOUS
    <3>6. r = [win |-> v, comp |-> c, work |-> UpdateWork]
      BY <3>1, <3>3, <3>5, Zenon
    <3>7. r.win = v /\ r.comp = c /\ r.work = UpdateWork
      BY <3>6
    <3>8. Requested(v, c, r)
      BY <3>4, <3>7, Zenon DEF Requested
    <3>9. v = [w EXCEPT !.size = r.win.size]
      BY <3>3, <3>4, <3>7, Zenon
    <3>10. Updated(w, c, r)
      BY <3>2, <3>4, <3>7, <3>8, <3>9, WorksAre, Zenon DEF Updated
    <3> QED
      BY <3>5, <3>10, Zenon
  <2> QED
    BY <2>1, <2>2
<1>2. CASE o.op = "limits" /\ o.arg \in LimitSets
  <2>1. Field(w, c, o) = [win |-> [w EXCEPT !.limits = o.arg], comp |-> c,
                          work |-> Constraining]
    BY <1>2 DEF Field
  <2>2. o.arg \in Limits
    BY <1>2, WindowAssumption
  <2> QED
    BY <2>1, <2>2, WorksAre DEF Updated, Requested, WindowType
<1>3. CASE o.op = "resizable" /\ o.arg \in BOOLEAN
  <2>1. Field(w, c, o) = [win |-> [w EXCEPT !.resizable = o.arg], comp |-> c,
                          work |-> Constraining]
    BY <1>3 DEF Field
  <2> QED
    BY <1>3, <2>1, WorksAre DEF Updated, Requested, WindowType
<1>4. ASSUME NEW r, Requested(w, c, r),
             Field(w, c, o) = [win |-> r.win, comp |-> r.comp, work |-> <<>>]
      PROVE  Updated(w, c, Field(w, c, o))
  BY <1>4, WorksAre DEF Updated, Requested
<1>5. CASE o.op = "maximize" /\ o.arg \in BOOLEAN
  <2>1. PICK r : r = SetMaximized(w, c, o.arg)
    OBVIOUS
  <2>2. Field(w, c, o) = [win |-> r.win, comp |-> r.comp, work |-> <<>>]
    BY <1>5, <2>1 DEF Field
  <2> QED
    BY <1>4, <1>5, <2>1, <2>2, MaximizedRequests, Zenon
<1>6. CASE o.op = "fullscreen" /\ o.arg \in BOOLEAN
  <2>1. PICK r : r = SetFullscreen(w, c, o.arg)
    OBVIOUS
  <2>2. Field(w, c, o) = [win |-> r.win, comp |-> r.comp, work |-> <<>>]
    BY <1>6, <2>1 DEF Field
  <2> QED
    BY <1>4, <1>6, <2>1, <2>2, FullscreenRequests, Zenon
<1>7. CASE o.op = "monitor"
  <2>1. CASE w.fullscreen
    <3>1. PICK r : r = SetFullscreen(w, c, TRUE)
      OBVIOUS
    <3>2. Field(w, c, o) = [win |-> r.win, comp |-> r.comp, work |-> <<>>]
      BY <1>7, <2>1, <3>1 DEF Field
    <3> QED
      BY <1>4, <3>1, <3>2, FullscreenRequests, Zenon
  <2>2. CASE ~w.fullscreen
    <3>1. Field(w, c, o) = [win |-> w, comp |-> c, work |-> <<>>]
      BY <1>7, <2>2 DEF Field
    <3> QED
      BY <3>1, NothingRequested, WorksAre DEF Updated, Requested
  <2> QED
    BY <2>1, <2>2
<1> QED
  BY <1>1, <1>2, <1>3, <1>5, <1>6, <1>7, OpsAre, Zenon
----------------------------------------------------------------------------
(* The application acts.                                                    *)

LEMMA UpdateComes ==
  ASSUME NEW w, NEW c, NEW ag, NEW wi, NEW tl, NEW si, NEW n,
         Coming(w, c, ag, wi, tl, si, n), NEW o \in ReactionOps,
         NEW r, r = Field(w, c, o)
  PROVE  Coming(r.win, r.comp, r.work \o ag, wi, tl, si, n)
<1>1. /\ w \in WindowType /\ w.size.x > 0 /\ w.size.y > 0 /\ c \in CompType
      /\ wi \in Seq(Proposals) /\ tl \in ToldType /\ Ordered(ag)
  BY Zenon DEF Coming, Typed
<1>2. Updated(w, c, r)
  BY <1>1, FieldUpdates, Zenon
<1>3. PICK v, d, wk : v = r.win /\ d = r.comp /\ wk = r.work
  OBVIOUS
<1>4. /\ wk \in Works /\ wk \in Seq(Items) /\ ag \in Seq(Items)
  BY <1>1, <1>2, <1>3, Zenon DEF Updated, Works, Ordered
<1>5. PICK u : /\ Requested(u, c, r)
               /\ u = w \/ u = [w EXCEPT !.size = v.size]
               /\ u = w \/ Has(wk, "resized")
  BY <1>2, <1>3, Zenon DEF Updated
<1>6. /\ u.scale = w.scale /\ u.ready = w.ready /\ u.flag = w.flag
      /\ u.maximized = w.maximized /\ u.fullscreen = w.fullscreen
  BY <1>1, <1>5 DEF WindowType
<1>7. /\ v \in WindowType /\ d \in CompType
      /\ v.scale = w.scale /\ v.ready = w.ready /\ v.flag.focus = w.flag.focus
      /\ d.max = c.max /\ d.full = c.full /\ d.active = c.active /\ d.owes = c.owes
      /\ \/ d.asked.max # "none"
         \/ d.asked.max = c.asked.max /\ v.maximized = w.maximized
      /\ \/ d.asked.full # "none"
         \/ /\ d.asked.full = c.asked.full
            /\ v.fullscreen = w.fullscreen
            /\ v.flag.full = w.flag.full
      /\ v.size = w.size \/ Has(wk, "resized")
  BY <1>3, <1>5, <1>6, Zenon DEF Requested
<1>8. \A kind : /\ Has(ag, kind) => Has(wk \o ag, kind)
                /\ Has(wk, kind) => Has(wk \o ag, kind)
                /\ Has(wk \o ag, kind) => Has(wk, kind) \/ Has(ag, kind)
  BY <1>4, ConcatHas, Zenon
<1>9. ~Has(wk, "surface")
  <2>1. "surface" \notin Work
    BY DEF Work
  <2> QED
    BY <1>4, <2>1, Zenon DEF Works, Has
<1>10. Typed(v, d, wi, tl)
  BY <1>1, <1>2, <1>3, <1>7, Zenon DEF Typed, Updated
<1>11. Ordered(wk \o ag) /\ LastConfigure(d, wk \o ag, wi)
  BY <1>1, <1>4, <1>7, OrderedConcat, LastOfConcat, Zenon DEF Coming
<1>12. GeometryComes(v, wk \o ag, tl, si)
  BY <1>7, <1>8, <1>9, Zenon DEF Coming, GeometryComes
<1>13. ReadyComes(v, wk \o ag, wi, tl, n)
  BY <1>7, <1>8, Zenon DEF Coming, ReadyComes
<1>14. StatesCome(v, d, wk \o ag, wi, tl)
  BY <1>7, <1>8, Zenon DEF Coming, StatesCome
<1> QED
  BY <1>3, <1>10, <1>11, <1>12, <1>13, <1>14, Zenon DEF Coming

LEMMA FreedTyped == Freed \in WindowType /\ NewComp \in CompType
<1>1. NoSize \in Dims
  BY WindowAssumption DEF Dims
<1> QED
  BY <1>1 DEF Freed, NewWindow, NewComp, WindowType, CompType, Limits, Asked

LEMMA ActsKeeps ==
  ASSUME IInv, stage = "live", NEW w, NEW rest, Acts(w, rest),
         Coming(w, comp, rest, wire, told', silent', configures),
         silent' \in BOOLEAN, UNCHANGED <<choiceVars, reached, configures>>
  PROVE  IInv'
<1>1. /\ decor' = decor /\ enforce' = enforce /\ reached' = reached
      /\ configures' = configures
  BY Zenon DEF choiceVars
<1>2. reached = FALSE
  BY Zenon DEF IInv
<1>3. CASE /\ win' = w
           /\ agenda' = rest
           /\ UNCHANGED <<stage, comp, wire, updates>>
  <2>1. /\ comp' = comp /\ wire' = wire /\ stage' = "live" /\ updates' = updates
    BY <1>3, Zenon
  <2>2. Coming(win, comp, agenda, wire, told, silent, configures)'
    BY <1>1, <1>3, <2>1, Zenon
  <2>3. Counts'
    BY <1>1, <2>1, Zenon DEF IInv, Counts
  <2> QED
    BY <1>1, <1>2, <2>1, <2>2, <2>3, Zenon DEF IInv
<1>4. CASE /\ updates < MaxUpdates
           /\ \E o \in ReactionOps :
                LET r == Field(w, comp, o)
                IN win' = r.win /\ comp' = r.comp /\ agenda' = r.work \o rest
           /\ updates' = updates + 1
           /\ UNCHANGED <<stage, wire>>
  <2>1. PICK o \in ReactionOps :
          LET r == Field(w, comp, o)
          IN win' = r.win /\ comp' = r.comp /\ agenda' = r.work \o rest
    BY <1>4, Zenon
  <2>2. PICK r : r = Field(w, comp, o)
    OBVIOUS
  <2>3. win' = r.win /\ comp' = r.comp /\ agenda' = r.work \o rest
    BY <2>1, <2>2, Zenon
  <2>4. Coming(r.win, r.comp, r.work \o rest, wire, told', silent', configures)
    BY <2>2, UpdateComes, Zenon
  <2>5. wire' = wire /\ stage' = "live"
    BY <1>4, Zenon
  <2>6. Coming(win, comp, agenda, wire, told, silent, configures)'
    BY <1>1, <2>3, <2>4, <2>5, Zenon
  <2>7. updates' \in 0 .. MaxUpdates
    BY <1>4, WindowAssumption DEF IInv, Counts
  <2>8. Counts'
    BY <1>1, <2>7, Zenon DEF IInv, Counts
  <2> QED
    BY <1>1, <1>2, <2>5, <2>6, <2>8, Zenon DEF IInv
<1>5. CASE /\ stage' = "dead"
           /\ win' = Freed
           /\ comp' = NewComp
           /\ wire' = <<>>
           /\ agenda' = rest
           /\ UNCHANGED updates
  <2>1. rest \in Seq(Items) /\ told' \in ToldType
    BY Zenon DEF Coming, Typed, Ordered
  <2>2. Gone'
    BY <1>5, <2>1, Zenon DEF Gone
  <2>3. Counts'
    BY <1>1, <1>5, Zenon DEF IInv, Counts
  <2> QED
    BY <1>5, <2>2, <2>3, Zenon DEF IInv
<1> QED
  BY <1>3, <1>4, <1>5, Zenon DEF Acts

LEMMA SilentKeeps ==
  ASSUME IInv, stage = "live", NEW w, NEW rest, Silently(w, rest), PartDone,
         Coming(w, comp, rest, wire, told, silent, configures)
  PROVE  IInv'
<1>1. /\ decor' = decor /\ enforce' = enforce /\ reached' = reached
      /\ configures' = configures /\ silent' = silent /\ told' = told
      /\ comp' = comp /\ wire' = wire /\ stage' = "live" /\ updates' = updates
      /\ win' = w /\ agenda' = rest
  BY Zenon DEF choiceVars, PartDone, Silently
<1>2. Coming(win, comp, agenda, wire, told, silent, configures)'
  BY <1>1, Zenon
<1>3. Counts' /\ reached' = FALSE
  BY <1>1, Zenon DEF IInv, Counts
<1> QED
  BY <1>1, <1>2, <1>3, Zenon DEF IInv

LEMMA TellingKeeps ==
  ASSUME IInv, stage = "live", NEW w, NEW news, NEW rest,
         Tells(w, news, rest), PartDone,
         Coming(w, comp, rest, wire, news, silent, configures)
  PROVE  IInv'
<1>1. told' = news /\ silent' = silent /\ Acts(w, rest)
  BY Zenon DEF Tells
<1>2. silent' \in BOOLEAN
  BY <1>1, Zenon DEF IInv, Counts
<1>3. Coming(w, comp, rest, wire, told', silent', configures)
  BY <1>1, Zenon
<1> QED
  BY <1>1, <1>2, <1>3, ActsKeeps, Zenon DEF PartDone

LEMMA TellingSizeKeeps ==
  ASSUME IInv, stage = "live", NEW w, NEW rest, TellsSize(w, rest), PartDone,
         Coming(w, comp, rest, wire, Resized(w), FALSE, configures)
  PROVE  IInv'
<1>1. told' = Resized(w) /\ silent' = FALSE /\ Acts(w, rest)
  BY Zenon DEF TellsSize
<1>2. silent' \in BOOLEAN
  BY <1>1
<1>3. Coming(w, comp, rest, wire, told', silent', configures)
  BY <1>1, Zenon
<1> QED
  BY <1>1, <1>2, <1>3, ActsKeeps, Zenon DEF PartDone
----------------------------------------------------------------------------
(* The parts of a handler.                                                  *)

LEMMA PartIs ==
  ASSUME IInv, NEW kind, Now(kind)
  PROVE  /\ stage = "live"
         /\ Coming(win, comp, agenda, wire, told, silent, configures)
         /\ agenda \in Seq(Items)
         /\ agenda # <<>>
         /\ Head(agenda) = agenda[1]
         /\ Head(agenda) \in Items
         /\ Head(agenda).kind = kind
         /\ Ordered(Rest)
         /\ Rest \in Seq(Items)
         /\ LastConfigure(comp, Rest, wire)
         /\ \A other : Has(agenda, other) => other = kind \/ Has(Rest, other)
         /\ \A other : Has(Rest, other) => Has(agenda, other)
<1>1. /\ stage = "live" /\ agenda # <<>> /\ Head(agenda).kind = kind
      /\ Coming(win, comp, agenda, wire, told, silent, configures)
  BY Zenon DEF Now, Live, IInv
<1>2. Ordered(agenda) /\ LastConfigure(comp, agenda, wire)
      /\ agenda \in Seq(Items)
  BY <1>1, Zenon DEF Coming, Ordered
<1>3. Head(agenda) = agenda[1] /\ Head(agenda) \in Items
  BY <1>1, <1>2, TailIs
<1>4. Ordered(Rest) /\ LastConfigure(comp, Rest, wire)
  BY <1>1, <1>2, OrderedTail, LastOfTail, Zenon DEF Rest
<1>5. \A other : /\ Has(agenda, other) => other = kind \/ Has(Rest, other)
                 /\ Has(Rest, other) => Has(agenda, other)
  BY <1>1, <1>2, TailHas, Zenon DEF Rest
<1> QED
  BY <1>1, <1>2, <1>3, <1>4, <1>5, Zenon DEF Ordered

LEMMA ConfigureIs ==
  ASSUME NEW h \in Items, h.kind \in Proposing
  PROVE  /\ h.configure \in Proposals
         /\ h.configure.max \in BOOLEAN
         /\ h.configure.full \in BOOLEAN
         /\ h.configure.active \in BOOLEAN
         /\ h.configure.size \in Dims
<1>1. h \in [kind : Proposing, configure : Proposals]
  <2>1. h \notin [kind : Plain]
    BY DEF Plain, Proposing
  <2>2. h \notin [kind : {"clamp"}, bounds : [min : Dims, max : Dims]]
    BY DEF Proposing
  <2> QED
    BY <2>1, <2>2, Zenon DEF Items
<1>2. h.configure \in Proposals
  BY <1>1
<1>3. h.configure \in [max : BOOLEAN, full : BOOLEAN, active : BOOLEAN, size : Dims]
  BY <1>2, WindowAssumption, Zenon
<1> QED
  BY <1>2, <1>3

\* A part leaves what it does not speak of as it was.
LEMMA GeometryStays ==
  ASSUME IInv, NEW kind, Now(kind), kind \notin {"resized", "configured", "size"},
         NEW w, w.size = win.size, w.scale = win.scale, w.ready = win.ready,
         NEW tl, tl.size = told.size, tl.scale = told.scale
  PROVE  GeometryComes(w, Rest, tl, silent)
<1>1. kind # "resized" /\ kind # "configured" /\ kind # "size"
  OBVIOUS
<1> QED
  BY <1>1, PartIs, Zenon DEF Coming, GeometryComes

LEMMA ReadyStays ==
  ASSUME IInv, NEW kind, Now(kind), kind \notin {"surface", "frame"},
         NEW w, w.ready = win.ready, NEW tl, tl.ready = told.ready
  PROVE  ReadyComes(w, Rest, wire, tl, configures)
<1>1. kind # "surface" /\ kind # "frame"
  OBVIOUS
<1> QED
  BY <1>1, PartIs, Zenon DEF Coming, ReadyComes

LEMMA StatesStay ==
  ASSUME IInv, NEW kind, Now(kind), kind \notin {"maximized", "states"},
         NEW w, w.maximized = win.maximized, w.fullscreen = win.fullscreen,
         w.flag.full = win.flag.full, w.flag.focus = win.flag.focus,
         NEW tl, tl.focused = told.focused
  PROVE  StatesCome(w, comp, Rest, wire, tl)
<1>1. kind # "maximized" /\ kind # "states"
  OBVIOUS
<1> QED
  BY <1>1, PartIs, Zenon DEF Coming, StatesCome

LEMMA NewSize ==
  ASSUME NEW w \in WindowType, NEW s \in Sized
  PROVE  /\ [w EXCEPT !.size = s] \in WindowType
         /\ [w EXCEPT !.size = s].size = s
         /\ s.x > 0 /\ s.y > 0 /\ s \in Dims
         /\ [w EXCEPT !.size = s].scale = w.scale
         /\ [w EXCEPT !.size = s].ready = w.ready
         /\ [w EXCEPT !.size = s].flag = w.flag
         /\ [w EXCEPT !.size = s].maximized = w.maximized
         /\ [w EXCEPT !.size = s].fullscreen = w.fullscreen
<1>1. s \in Dims /\ s.x > 0 /\ s.y > 0
  BY DEF Sized, Dims, Positive
<1> QED
  BY <1>1 DEF WindowType

LEMMA NewsOfSize ==
  ASSUME NEW w \in WindowType, told \in ToldType
  PROVE  /\ Resized(w) \in ToldType
         /\ Resized(w).size = w.size /\ Resized(w).scale = w.scale
         /\ Resized(w).ready = told.ready
         /\ Resized(w).focused = told.focused
<1>1. w.size \in Dims /\ w.scale \in Nat
  BY DEF WindowType
<1> QED
  BY <1>1 DEF Resized, ToldType

LEMMA OpaqueKeeps ==
  ASSUME IInv, Opaque PROVE IInv'
<1>1. Now("opaque") /\ Silently(win, Rest) /\ PartDone
  BY Zenon DEF Opaque
<1>2. /\ stage = "live" /\ Ordered(Rest) /\ LastConfigure(comp, Rest, wire)
      /\ Typed(win, comp, wire, told)
  BY <1>1, PartIs, Zenon DEF Coming
<1>3. /\ GeometryComes(win, Rest, told, silent)
      /\ ReadyComes(win, Rest, wire, told, configures)
      /\ StatesCome(win, comp, Rest, wire, told)
  BY <1>1, GeometryStays, ReadyStays, StatesStay, SMT
<1> QED
  BY <1>1, <1>2, <1>3, SilentKeeps, Zenon DEF Coming

LEMMA UpdateKeeps ==
  ASSUME IInv, Update PROVE IInv'
<1>1. /\ Now("resized") /\ PartDone
      /\ TellsSize(win, Rest)
  BY Zenon DEF Update
<1>2. /\ stage = "live" /\ Ordered(Rest) /\ LastConfigure(comp, Rest, wire)
      /\ Typed(win, comp, wire, told)
  BY <1>1, PartIs, Zenon DEF Coming
<1>3. /\ Resized(win) \in ToldType
      /\ Resized(win).size = win.size /\ Resized(win).scale = win.scale
      /\ Resized(win).ready = told.ready /\ Resized(win).focused = told.focused
  BY <1>2, NewsOfSize, Zenon DEF Typed
<1>4. Typed(win, comp, wire, Resized(win))
  BY <1>2, <1>3, Zenon DEF Typed
<1>5. GeometryComes(win, Rest, Resized(win), FALSE)
  BY <1>3, Zenon DEF GeometryComes
<1>6. /\ ReadyComes(win, Rest, wire, Resized(win), configures)
      /\ StatesCome(win, comp, Rest, wire, Resized(win))
  BY <1>1, <1>3, ReadyStays, StatesStay, SMT
<1>7. Coming(win, comp, Rest, wire, Resized(win), FALSE, configures)
  BY <1>2, <1>4, <1>5, <1>6, Zenon DEF Coming
<1> QED
  BY <1>1, <1>2, <1>7, TellingSizeKeeps, Zenon
LEMMA LastIs ==
  ASSUME IInv, NEW kind, Now(kind), wire = <<>>
  PROVE  /\ kind = "maximized" => Head(agenda).configure.max = comp.max
         /\ kind = "states" => /\ Head(agenda).configure.full = comp.full
                               /\ Head(agenda).configure.active = comp.active
<1>1. /\ LastConfigure(comp, agenda, wire) /\ Head(agenda) = agenda[1]
      /\ Head(agenda).kind = kind /\ agenda \in Seq(Items) /\ agenda # <<>>
  BY PartIs, Zenon DEF Coming
<1>2. 1 \in 1 .. Len(agenda)
  BY <1>1
<1> QED
  BY <1>1, <1>2, Zenon DEF LastConfigure

FlagType == [max : BOOLEAN, full : BOOLEAN, focus : BOOLEAN]

\* The window after the two handlers.
WithMaximized(w, max) == [w EXCEPT !.maximized = max, !.flag.max = max]

WithStates(w, full, focus) ==
  [w EXCEPT !.fullscreen = full, !.flag.full = full, !.flag.focus = focus]

SameSize(v, w) ==
  v \in WindowType /\ v.size = w.size /\ v.scale = w.scale /\ v.ready = w.ready

IsMaximized(v, w, max) ==
  /\ SameSize(v, w)
  /\ v.maximized = max /\ v.fullscreen = w.fullscreen
  /\ v.flag.full = w.flag.full /\ v.flag.focus = w.flag.focus

HasStates(v, w, full, focus) ==
  /\ SameSize(v, w)
  /\ v.maximized = w.maximized /\ v.fullscreen = full
  /\ v.flag.full = full /\ v.flag.focus = focus

LEMMA MaximizedWindow ==
  ASSUME NEW w \in WindowType, NEW max \in BOOLEAN
  PROVE  IsMaximized(WithMaximized(w, max), w, max)
<1> PICK v : v = WithMaximized(w, max)
  OBVIOUS
<1> PICK f : f = w.flag
  OBVIOUS
<1> PICK g : g = [f EXCEPT !.max = max]
  OBVIOUS
<1>1. f \in FlagType
  BY DEF WindowType, FlagType
<1>2. g \in FlagType /\ g.full = f.full /\ g.focus = f.focus
  BY <1>1 DEF FlagType
<1>3. v = [w EXCEPT !.maximized = max, !.flag = g]
  BY DEF WindowType, WithMaximized
<1>4. /\ v \in WindowType
      /\ v.size = w.size /\ v.scale = w.scale /\ v.ready = w.ready
      /\ v.maximized = max /\ v.fullscreen = w.fullscreen /\ v.flag = g
  BY <1>2, <1>3 DEF WindowType, FlagType
<1> QED
  BY <1>2, <1>4, Zenon DEF IsMaximized, SameSize

LEMMA StatesWindow ==
  ASSUME NEW w \in WindowType, NEW full \in BOOLEAN, NEW focus \in BOOLEAN
  PROVE  HasStates(WithStates(w, full, focus), w, full, focus)
<1> PICK v : v = WithStates(w, full, focus)
  OBVIOUS
<1> PICK f : f = w.flag
  OBVIOUS
<1> PICK g : g = [[f EXCEPT !.full = full] EXCEPT !.focus = focus]
  OBVIOUS
<1>1. f \in FlagType
  BY DEF WindowType, FlagType
<1>2. g \in FlagType /\ g.full = full /\ g.focus = focus
  BY <1>1 DEF FlagType
<1>3. v = [w EXCEPT !.fullscreen = full, !.flag = g]
  BY DEF WindowType, WithStates
<1>4. /\ v \in WindowType
      /\ v.size = w.size /\ v.scale = w.scale /\ v.ready = w.ready
      /\ v.maximized = w.maximized /\ v.fullscreen = full /\ v.flag = g
  BY <1>2, <1>3 DEF WindowType, FlagType
<1> QED
  BY <1>2, <1>4, Zenon DEF HasStates, SameSize

LEMMA MaximizedKeeps ==
  ASSUME IInv, Maximized PROVE IInv'
<1> PICK max : max = Head(agenda).configure.max
  OBVIOUS
<1>1. Now("maximized") /\ PartDone
  BY Zenon DEF Maximized
<1>2. /\ stage = "live" /\ Ordered(Rest) /\ LastConfigure(comp, Rest, wire)
      /\ Typed(win, comp, wire, told) /\ Head(agenda) \in Items
      /\ Head(agenda).kind = "maximized"
      /\ StatesCome(win, comp, agenda, wire, told)
      /\ \A other : Has(agenda, other) => other = "maximized" \/ Has(Rest, other)
  BY <1>1, PartIs, Zenon DEF Coming
<1>3. max \in BOOLEAN
  BY <1>2, ConfigureIs, Zenon DEF Proposing
<1>4. wire = <<>> => max = comp.max
  BY <1>1, LastIs, Zenon
<1>5. /\ told.focused = win.flag.focus
      /\ wire = <<>> /\ ~comp.owes =>
           /\ \/ Has(Rest, "states")
              \/ comp.asked.full # "none"
              \/ win.fullscreen = comp.full /\ win.flag.full = comp.full
           /\ Has(Rest, "states") \/ win.flag.focus = comp.active
  BY <1>2, Zenon DEF StatesCome
<1>6. CASE win.maximized = max
  <2>1. Silently(win, Rest)
    BY <1>6, Zenon DEF Maximized
  <2>2. /\ GeometryComes(win, Rest, told, silent)
        /\ ReadyComes(win, Rest, wire, told, configures)
    BY <1>1, GeometryStays, ReadyStays, SMT
  <2>3. StatesCome(win, comp, Rest, wire, told)
    BY <1>4, <1>5, <1>6, Zenon DEF StatesCome
  <2> QED
    BY <1>1, <1>2, <2>1, <2>2, <2>3, SilentKeeps, Zenon DEF Coming
<1>7. CASE win.maximized # max
  <2>1. PICK w : w = WithMaximized(win, max)
    OBVIOUS
  <2>2. PICK tl : tl = [told EXCEPT !.maximized = max]
    OBVIOUS
  <2>3. Tells(w, tl, Rest)
    BY <1>7, <2>1, <2>2, Zenon DEF Maximized, WithMaximized
  <2>4. win \in WindowType
    BY <1>2, Zenon DEF Typed
  <2>5. /\ w \in WindowType
        /\ w.size = win.size /\ w.scale = win.scale /\ w.ready = win.ready
        /\ w.maximized = max /\ w.fullscreen = win.fullscreen
        /\ w.flag.full = win.flag.full /\ w.flag.focus = win.flag.focus
    <3>1. IsMaximized(w, win, max)
      BY <1>3, <2>1, <2>4, MaximizedWindow, Zenon
    <3> QED
      BY <3>1, Zenon DEF IsMaximized, SameSize
  <2>6. /\ tl \in ToldType /\ tl.size = told.size /\ tl.scale = told.scale
        /\ tl.ready = told.ready /\ tl.focused = told.focused
    BY <1>2, <1>3, <2>2 DEF Typed, ToldType
  <2>7. Typed(w, comp, wire, tl)
    BY <1>2, <2>5, <2>6, Zenon DEF Typed
  <2>8. /\ GeometryComes(w, Rest, tl, silent)
        /\ ReadyComes(w, Rest, wire, tl, configures)
    <3>1. "maximized" \notin {"resized", "configured", "size"}
          /\ "maximized" \notin {"surface", "frame"}
      OBVIOUS
    <3> QED
      BY <1>1, <2>5, <2>6, <3>1, GeometryStays, ReadyStays, Zenon
  <2>9. StatesCome(w, comp, Rest, wire, tl)
    BY <1>4, <1>5, <2>5, <2>6, Zenon DEF StatesCome
  <2>10. Coming(w, comp, Rest, wire, tl, silent, configures)
    BY <1>2, <2>7, <2>8, <2>9, Zenon DEF Coming
  <2> QED
    BY <1>1, <1>2, <2>3, <2>10, TellingKeeps, Zenon
<1> QED
  BY <1>6, <1>7

LEMMA StatesKeep ==
  ASSUME IInv, States PROVE IInv'
<1> PICK c : c = Head(agenda).configure
  OBVIOUS
<1> PICK w : w = WithStates(win, c.full, c.active)
  OBVIOUS
<1>1. Now("states") /\ PartDone
  BY Zenon DEF States
<1>2. /\ stage = "live" /\ Ordered(Rest) /\ LastConfigure(comp, Rest, wire)
      /\ Typed(win, comp, wire, told) /\ Head(agenda) \in Items
      /\ Head(agenda).kind = "states"
      /\ StatesCome(win, comp, agenda, wire, told)
      /\ \A other : Has(agenda, other) => other = "states" \/ Has(Rest, other)
  BY <1>1, PartIs, Zenon DEF Coming
<1>3. c.full \in BOOLEAN /\ c.active \in BOOLEAN
  BY <1>2, ConfigureIs, Zenon DEF Proposing
<1>4. wire = <<>> => c.full = comp.full /\ c.active = comp.active
  BY <1>1, LastIs, Zenon
<1>5. /\ told.focused = win.flag.focus
      /\ wire = <<>> /\ ~comp.owes =>
           Has(Rest, "maximized") \/ comp.asked.max # "none" \/ win.maximized = comp.max
  BY <1>2, Zenon DEF StatesCome
<1>6. win \in WindowType
  BY <1>2, Zenon DEF Typed
<1>7. /\ w \in WindowType
      /\ w.size = win.size /\ w.scale = win.scale /\ w.ready = win.ready
      /\ w.maximized = win.maximized /\ w.fullscreen = c.full
      /\ w.flag.full = c.full /\ w.flag.focus = c.active
  <2>1. HasStates(w, win, c.full, c.active)
    BY <1>3, <1>6, StatesWindow, Zenon
  <2> QED
    BY <2>1, Zenon DEF HasStates, SameSize
<1>8. ASSUME NEW tl \in ToldType, tl.size = told.size, tl.scale = told.scale,
             tl.ready = told.ready, tl.focused = c.active
      PROVE  Coming(w, comp, Rest, wire, tl, silent, configures)
  <2>1. Typed(w, comp, wire, tl)
    BY <1>2, <1>7, <1>8, Zenon DEF Typed
  <2>2. /\ GeometryComes(w, Rest, tl, silent)
        /\ ReadyComes(w, Rest, wire, tl, configures)
    <3>1. "states" \notin {"resized", "configured", "size"}
          /\ "states" \notin {"surface", "frame"}
      OBVIOUS
    <3> QED
      BY <1>1, <1>7, <1>8, <3>1, GeometryStays, ReadyStays, Zenon
  <2>3. StatesCome(w, comp, Rest, wire, tl)
    BY <1>4, <1>5, <1>7, <1>8, Zenon DEF StatesCome
  <2> QED
    BY <1>2, <2>1, <2>2, <2>3, Zenon DEF Coming
<1>9. told \in ToldType
  BY <1>2, Zenon DEF Typed
<1>10. CASE win.flag.focus = c.active
  <2>1. Silently(w, Rest)
    BY <1>10, Zenon DEF States, WithStates
  <2>2. Coming(w, comp, Rest, wire, told, silent, configures)
    BY <1>5, <1>8, <1>9, <1>10, Zenon
  <2> QED
    BY <1>1, <1>2, <2>1, <2>2, SilentKeeps, Zenon
<1>11. CASE win.flag.focus # c.active
  <2>1. PICK tl : tl = [told EXCEPT !.focused = c.active]
    OBVIOUS
  <2>2. Tells(w, tl, Rest)
    BY <1>11, <2>1, Zenon DEF States, WithStates
  <2>3. /\ tl \in ToldType /\ tl.size = told.size /\ tl.scale = told.scale
        /\ tl.ready = told.ready /\ tl.focused = c.active
    BY <1>3, <1>9, <2>1 DEF ToldType
  <2>4. Coming(w, comp, Rest, wire, tl, silent, configures)
    BY <1>8, <2>3, Zenon
  <2> QED
    BY <1>1, <1>2, <2>2, <2>4, TellingKeeps, Zenon
<1> QED
  BY <1>10, <1>11
\* Where the parts of a handler are, the last one of it ends it.
LEMMA LastParts ==
  ASSUME IInv
  PROVE  /\ Now("size") => Len(Rest) = 1 /\ Rest[1].kind = "surface"
         /\ Now("frame") => Has(Rest, "configured")
         /\ Now("surface") => Rest = <<>>
         /\ Now("configured") => Rest = <<>>
<1>1. ASSUME NEW kind, Now(kind), kind \in {"size", "frame", "surface", "configured"}
      PROVE  /\ kind = "size" => Len(Rest) = 1 /\ Rest[1].kind = "surface"
             /\ kind = "frame" => Has(Rest, "configured")
             /\ kind \in {"surface", "configured"} => Rest = <<>>
  <2>1. /\ Ordered(agenda) /\ agenda \in Seq(Items) /\ agenda # <<>>
        /\ Head(agenda) = agenda[1] /\ Head(agenda).kind = kind
    BY <1>1, PartIs, Zenon DEF Coming
  <2>2. /\ Rest \in Seq(Items) /\ Len(agenda) \in Nat \ {0}
        /\ Len(Rest) = Len(agenda) - 1
        /\ \A k \in 1 .. Len(Rest) : Rest[k] = agenda[k + 1]
    BY <2>1, TailIs DEF Rest
  <2> PICK r : r = Rest
    OBVIOUS
  <2> PICK n : n = Len(agenda)
    OBVIOUS
  <2>8. /\ r \in Seq(Items) /\ n \in Nat \ {0} /\ Len(r) = n - 1
        /\ \A k \in 1 .. Len(r) : r[k] = agenda[k + 1]
    BY <2>2, Zenon
  <2>3. InPlace(agenda, 1)
    <3>1. 1 \in 1 .. Len(agenda)
      BY <2>2
    <3> QED
      BY <2>1, <3>1, Zenon DEF Ordered
  <2>4. kind \notin Work /\ kind \notin {"maximized", "states"}
    BY <1>1 DEF Work
  <2>5. CASE kind \in {"surface", "configured"}
    <3>1. 1 = Len(agenda)
      <4>1. kind # "size" /\ kind # "frame"
        BY <2>5
      <4> QED
        BY <2>1, <2>3, <2>4, <4>1, Zenon DEF InPlace
    <3>2. n = 1
      BY <3>1, Zenon
    <3>3. r = <<>>
      BY <2>8, <3>2
    <3> QED
      BY <2>5, <3>3
  <2>6. CASE kind = "size"
    <3>1. 1 + 1 = Len(agenda) /\ agenda[Len(agenda)].kind = "surface"
      BY <2>1, <2>3, <2>4, <2>6, Zenon DEF InPlace
    <3>2. n = 1 + 1
      BY <3>1, Zenon
    <3>3. Len(r) = 1 /\ r[1] = agenda[1 + 1]
      BY <2>8, <3>2
    <3> QED
      BY <2>6, <3>1, <3>3, Zenon
  <2>7. CASE kind = "frame"
    <3>1. 1 + 1 = Len(agenda) /\ agenda[Len(agenda)].kind = "configured"
      BY <2>1, <2>3, <2>4, <2>7, Zenon DEF InPlace
    <3>2. n = 1 + 1
      BY <3>1, Zenon
    <3>3. 1 \in 1 .. Len(r) /\ r[1] = agenda[1 + 1]
      BY <2>8, <3>2
    <3>4. r[1].kind = "configured"
      BY <3>1, <3>3, Zenon
    <3> QED
      BY <2>7, <3>3, <3>4, Zenon DEF Has
  <2> QED
    BY <1>1, <2>5, <2>6, <2>7, Zenon
<1> QED
  BY <1>1, Zenon

LEMMA NothingLeft == ASSUME NEW kind PROVE ~Has(<<>>, kind)
BY DEF Has

LEMMA SizeKeeps ==
  ASSUME IInv, Size PROVE IInv'
<1> PICK c : c = Head(agenda).configure
  OBVIOUS
<1> PICK s : s = IF c.size = NoSize THEN win.size ELSE Proposed(c)
  OBVIOUS
<1> PICK w : w = [win EXCEPT !.size = s]
  OBVIOUS
<1>1. /\ Now("size") /\ PartDone
      /\ IF s = win.size /\ win.ready
           THEN Silently(w, Rest)
           ELSE TellsSize(w, Rest)
  BY Zenon DEF Size
<1>2. /\ stage = "live" /\ Ordered(Rest) /\ LastConfigure(comp, Rest, wire)
      /\ Typed(win, comp, wire, told) /\ Head(agenda) \in Items
      /\ Head(agenda).kind = "size"
      /\ GeometryComes(win, agenda, told, silent)
      /\ \A other : Has(agenda, other) => other = "size" \/ Has(Rest, other)
  BY <1>1, PartIs, Zenon DEF Coming
<1>3. /\ win \in WindowType /\ win.size.x > 0 /\ win.size.y > 0 /\ told \in ToldType
  BY <1>2, Zenon DEF Typed
<1>4. s \in Sized
  <2>1. c \in Proposals
    BY <1>2, ConfigureIs, Zenon DEF Proposing
  <2> QED
    BY <1>3, <2>1, ProposedSized, WindowParts, Zenon
<1>5. /\ w \in WindowType /\ w.size = s /\ s.x > 0 /\ s.y > 0
      /\ w.scale = win.scale /\ w.ready = win.ready /\ w.flag = win.flag
      /\ w.maximized = win.maximized /\ w.fullscreen = win.fullscreen
  BY <1>3, <1>4, NewSize
<1>6. ASSUME NEW tl \in ToldType, tl.ready = told.ready, tl.focused = told.focused,
             NEW si, GeometryComes(w, Rest, tl, si)
      PROVE  Coming(w, comp, Rest, wire, tl, si, configures)
  <2>1. Typed(w, comp, wire, tl)
    BY <1>2, <1>5, <1>6, Zenon DEF Typed
  <2>2. ReadyComes(w, Rest, wire, tl, configures)
    <3>1. "size" \notin {"surface", "frame"}
      OBVIOUS
    <3> QED
      BY <1>1, <1>5, <1>6, <3>1, ReadyStays, Zenon
  <2>3. StatesCome(w, comp, Rest, wire, tl)
    <3>1. "size" \notin {"maximized", "states"}
      OBVIOUS
    <3> QED
      BY <1>1, <1>5, <1>6, <3>1, StatesStay, Zenon
  <2> QED
    BY <1>2, <1>6, <2>1, <2>2, <2>3, Zenon DEF Coming
<1>7. CASE s = win.size /\ win.ready
  <2>1. GeometryComes(w, Rest, told, silent)
    <3>1. "resized" # "size" /\ "configured" # "size"
      OBVIOUS
    <3> QED
      BY <1>2, <1>5, <1>7, <3>1, Zenon DEF GeometryComes
  <2>2. Coming(w, comp, Rest, wire, told, silent, configures)
    BY <1>3, <1>6, <2>1, Zenon
  <2> QED
    BY <1>1, <1>2, <1>7, <2>2, SilentKeeps, Zenon
<1>8. CASE ~(s = win.size /\ win.ready)
  <2>1. /\ Resized(w) \in ToldType
        /\ Resized(w).size = w.size /\ Resized(w).scale = w.scale
        /\ Resized(w).ready = told.ready /\ Resized(w).focused = told.focused
    BY <1>3, <1>5, NewsOfSize, Zenon
  <2>2. GeometryComes(w, Rest, Resized(w), FALSE)
    BY <2>1, Zenon DEF GeometryComes
  <2>3. Coming(w, comp, Rest, wire, Resized(w), FALSE, configures)
    BY <1>6, <2>1, <2>2, Zenon
  <2> QED
    BY <1>1, <1>2, <1>8, <2>3, TellingSizeKeeps, Zenon
<1> QED
  BY <1>7, <1>8

LEMMA BecomesReady ==
  ASSUME NEW w \in WindowType
  PROVE  /\ [w EXCEPT !.ready = TRUE] \in WindowType
         /\ [w EXCEPT !.ready = TRUE].ready = TRUE
         /\ [w EXCEPT !.ready = TRUE].size = w.size
         /\ [w EXCEPT !.ready = TRUE].scale = w.scale
         /\ [w EXCEPT !.ready = TRUE].flag = w.flag
         /\ [w EXCEPT !.ready = TRUE].maximized = w.maximized
         /\ [w EXCEPT !.ready = TRUE].fullscreen = w.fullscreen
BY DEF WindowType

LEMMA NewsOfReady ==
  ASSUME told \in ToldType
  PROVE  /\ [told EXCEPT !.ready = TRUE] \in ToldType
         /\ [told EXCEPT !.ready = TRUE].ready = TRUE
         /\ [told EXCEPT !.ready = TRUE].size = told.size
         /\ [told EXCEPT !.ready = TRUE].scale = told.scale
         /\ [told EXCEPT !.ready = TRUE].focused = told.focused
BY DEF ToldType

LEMMA SurfaceKeeps ==
  ASSUME IInv, Surface PROVE IInv'
<1>1. Now("surface") /\ PartDone
  BY Zenon DEF Surface
<1>2. /\ stage = "live" /\ Ordered(Rest) /\ LastConfigure(comp, Rest, wire)
      /\ Typed(win, comp, wire, told)
      /\ GeometryComes(win, agenda, told, silent)
      /\ ReadyComes(win, agenda, wire, told, configures)
      /\ Head(agenda).kind = "surface" /\ Head(agenda) = agenda[1]
      /\ agenda \in Seq(Items) /\ agenda # <<>>
      /\ \A other : Has(agenda, other) => other = "surface" \/ Has(Rest, other)
  BY <1>1, PartIs, Zenon DEF Coming
<1>3. Rest = <<>>
  BY <1>1, LastParts, Zenon
<1>4. CASE win.ready
  <2>1. Silently(win, Rest)
    BY <1>4, Zenon DEF Surface
  <2>2. /\ GeometryComes(win, Rest, told, silent)
        /\ StatesCome(win, comp, Rest, wire, told)
    BY <1>1, GeometryStays, StatesStay, SMT
  <2>3. ReadyComes(win, Rest, wire, told, configures)
    BY <1>2, <1>4, Zenon DEF ReadyComes
  <2> QED
    BY <1>1, <1>2, <2>1, <2>2, <2>3, SilentKeeps, Zenon DEF Coming
<1>5. CASE ~win.ready
  <2>1. PICK w : w = [win EXCEPT !.ready = TRUE]
    OBVIOUS
  <2>2. PICK tl : tl = [told EXCEPT !.ready = TRUE]
    OBVIOUS
  <2>3. Tells(w, tl, Rest)
    BY <1>5, <2>1, <2>2, Zenon DEF Surface
  <2>4. /\ w \in WindowType /\ w.ready = TRUE
        /\ w.size = win.size /\ w.scale = win.scale /\ w.flag = win.flag
        /\ w.maximized = win.maximized /\ w.fullscreen = win.fullscreen
    BY <1>2, <2>1, BecomesReady DEF Typed
  <2>5. /\ tl \in ToldType /\ tl.ready = TRUE
        /\ tl.size = told.size /\ tl.scale = told.scale /\ tl.focused = told.focused
    BY <1>2, <2>2, NewsOfReady DEF Typed
  <2>6. Typed(w, comp, wire, tl)
    BY <1>2, <2>4, <2>5, Zenon DEF Typed
  <2>7. GeometryComes(w, Rest, tl, silent)
    <3>1. Has(agenda, "surface")
      <4>1. 1 \in 1 .. Len(agenda)
        BY <1>2
      <4> QED
        BY <1>2, <4>1, Zenon DEF Has
    <3>2. ~Has(agenda, "size")
      BY <1>2, <1>3, NothingLeft, Zenon
    <3>3. "resized" # "surface" /\ "configured" # "surface"
      OBVIOUS
    <3> QED
      BY <1>2, <2>4, <2>5, <3>1, <3>2, <3>3, Zenon DEF GeometryComes
  <2>8. ReadyComes(w, Rest, wire, tl, configures)
    BY <2>4, <2>5, Zenon DEF ReadyComes
  <2>9. StatesCome(w, comp, Rest, wire, tl)
    <3>1. "surface" \notin {"maximized", "states"}
      OBVIOUS
    <3> QED
      BY <1>1, <2>4, <2>5, <3>1, StatesStay, Zenon
  <2>10. Coming(w, comp, Rest, wire, tl, silent, configures)
    BY <1>2, <2>6, <2>7, <2>8, <2>9, Zenon DEF Coming
  <2> QED
    BY <1>1, <1>2, <2>3, <2>10, TellingKeeps, Zenon
<1> QED
  BY <1>4, <1>5
LEMMA FrameKeeps ==
  ASSUME IInv, Frame PROVE IInv'
<1> PICK c : c = Head(agenda).configure
  OBVIOUS
<1> PICK s : s = Proposed(c)
  OBVIOUS
<1> PICK w : w = [win EXCEPT !.size = s]
  OBVIOUS
<1>1. Now("frame") /\ PartDone
  BY Zenon DEF Frame
<1>2. /\ stage = "live" /\ Ordered(Rest) /\ LastConfigure(comp, Rest, wire)
      /\ Typed(win, comp, wire, told) /\ Head(agenda) \in Items
      /\ Head(agenda).kind = "frame"
      /\ ReadyComes(win, agenda, wire, told, configures)
  BY <1>1, PartIs, Zenon DEF Coming
<1>3. /\ win \in WindowType /\ win.size.x > 0 /\ win.size.y > 0 /\ told \in ToldType
  BY <1>2, Zenon DEF Typed
<1>4. s \in Sized
  <2>1. c \in Proposals
    BY <1>2, ConfigureIs, Zenon DEF Proposing
  <2> QED
    BY <1>3, <2>1, ProposedSized, Zenon
<1>5. /\ w \in WindowType /\ w.size = s /\ s.x > 0 /\ s.y > 0
      /\ w.scale = win.scale /\ w.ready = win.ready /\ w.flag = win.flag
      /\ w.maximized = win.maximized /\ w.fullscreen = win.fullscreen
  BY <1>3, <1>4, NewSize
<1>6. ASSUME NEW v \in WindowType, v.size = s, v.flag = win.flag, v.ready = TRUE,
             v.maximized = win.maximized, v.fullscreen = win.fullscreen,
             NEW tl \in ToldType, tl.ready = TRUE, tl.focused = told.focused
      PROVE  Coming(v, comp, Rest, wire, tl, silent, configures)
  <2>1. Typed(v, comp, wire, tl)
    BY <1>2, <1>5, <1>6, Zenon DEF Typed
  <2>2. GeometryComes(v, Rest, tl, silent)
    BY <1>1, LastParts, Zenon DEF GeometryComes
  <2>3. ReadyComes(v, Rest, wire, tl, configures)
    BY <1>6, Zenon DEF ReadyComes
  <2>4. StatesCome(v, comp, Rest, wire, tl)
    <3>1. "frame" \notin {"maximized", "states"}
      OBVIOUS
    <3> QED
      BY <1>1, <1>6, <3>1, StatesStay, Zenon
  <2> QED
    BY <1>2, <2>1, <2>2, <2>3, <2>4, Zenon DEF Coming
<1>7. CASE win.ready
  <2>1. Silently(w, Rest)
    BY <1>7, Zenon DEF Frame
  <2>2. win.ready = TRUE /\ told.ready = TRUE
    BY <1>2, <1>3, <1>7 DEF ReadyComes, WindowType, ToldType
  <2>3. Coming(w, comp, Rest, wire, told, silent, configures)
    BY <1>3, <1>5, <1>6, <2>2, Zenon
  <2> QED
    BY <1>1, <1>2, <2>1, <2>3, SilentKeeps, Zenon
<1>8. CASE ~win.ready
  <2>1. PICK v : v = [w EXCEPT !.ready = TRUE]
    OBVIOUS
  <2>2. PICK tl : tl = [told EXCEPT !.ready = TRUE]
    OBVIOUS
  <2>3. Tells(v, tl, Rest)
    BY <1>8, <2>1, <2>2, Zenon DEF Frame
  <2>4. /\ v \in WindowType /\ v.ready = TRUE
        /\ v.size = w.size /\ v.scale = w.scale /\ v.flag = w.flag
        /\ v.maximized = w.maximized /\ v.fullscreen = w.fullscreen
    BY <1>5, <2>1, BecomesReady
  <2>5. /\ tl \in ToldType /\ tl.ready = TRUE
        /\ tl.size = told.size /\ tl.scale = told.scale /\ tl.focused = told.focused
    BY <1>3, <2>2, NewsOfReady
  <2>6. Coming(v, comp, Rest, wire, tl, silent, configures)
    BY <1>5, <1>6, <2>4, <2>5, Zenon
  <2> QED
    BY <1>1, <1>2, <2>3, <2>6, TellingKeeps, Zenon
<1> QED
  BY <1>7, <1>8

LEMMA ConfiguredKeeps ==
  ASSUME IInv, Configured PROVE IInv'
<1>1. /\ Now("configured") /\ PartDone
      /\ TellsSize(win, Rest)
  BY Zenon DEF Configured
<1>2. /\ stage = "live" /\ Ordered(Rest) /\ LastConfigure(comp, Rest, wire)
      /\ Typed(win, comp, wire, told)
  BY <1>1, PartIs, Zenon DEF Coming
<1>3. /\ Resized(win) \in ToldType
      /\ Resized(win).size = win.size /\ Resized(win).scale = win.scale
      /\ Resized(win).ready = told.ready /\ Resized(win).focused = told.focused
  BY <1>2, NewsOfSize, Zenon DEF Typed
<1>4. Typed(win, comp, wire, Resized(win))
  BY <1>2, <1>3, Zenon DEF Typed
<1>5. GeometryComes(win, Rest, Resized(win), FALSE)
  BY <1>3, Zenon DEF GeometryComes
<1>6. /\ ReadyComes(win, Rest, wire, Resized(win), configures)
      /\ StatesCome(win, comp, Rest, wire, Resized(win))
  BY <1>1, <1>3, ReadyStays, StatesStay, SMT
<1>7. Coming(win, comp, Rest, wire, Resized(win), FALSE, configures)
  BY <1>2, <1>4, <1>5, <1>6, Zenon DEF Coming
<1> QED
  BY <1>1, <1>2, <1>7, TellingSizeKeeps, Zenon

\* Work in front of the agenda undoes nothing that is to come.
LEMMA WorkComes ==
  ASSUME NEW w, NEW c, NEW ag, NEW wi, NEW tl, NEW si, NEW n,
         Coming(w, c, ag, wi, tl, si, n), NEW wk \in Works
  PROVE  Coming(w, c, wk \o ag, wi, tl, si, n)
<1>1. wk \in Seq(Items) /\ ag \in Seq(Items) /\ Ordered(ag)
  BY Zenon DEF Coming, Works, Ordered
<1>2. \A kind : /\ Has(ag, kind) => Has(wk \o ag, kind)
                /\ Has(wk \o ag, kind) => Has(wk, kind) \/ Has(ag, kind)
  BY <1>1, ConcatHas, Zenon
<1>3. ~Has(wk, "surface")
  <2>1. "surface" \notin Work
    BY DEF Work
  <2> QED
    BY <2>1, Zenon DEF Works, Has
<1>4. Ordered(wk \o ag) /\ LastConfigure(c, wk \o ag, wi)
  BY <1>1, OrderedConcat, LastOfConcat, Zenon DEF Coming
<1>5. /\ GeometryComes(w, wk \o ag, tl, si)
      /\ ReadyComes(w, wk \o ag, wi, tl, n)
      /\ StatesCome(w, c, wk \o ag, wi, tl)
  BY <1>2, <1>3, Zenon DEF Coming, GeometryComes, ReadyComes, StatesCome
<1> QED
  BY <1>4, <1>5, Zenon DEF Coming

LEMMA ConstrainKeeps ==
  ASSUME IInv, Constrain PROVE IInv'
<1> PICK s : s = FrameSize(win)
  OBVIOUS
<1> PICK w : w = [win EXCEPT !.size = s]
  OBVIOUS
<1> PICK rest : rest = <<Clamping(win)>> \o Rest
  OBVIOUS
<1>1. /\ Now("constrain") /\ PartDone
      /\ IF decor = "libdecor" /\ Floating(win) /\ w.size # win.size
           THEN TellsSize(w, rest)
           ELSE Silently(win, rest)
  BY Zenon DEF Constrain
<1>2. /\ stage = "live" /\ Ordered(Rest) /\ LastConfigure(comp, Rest, wire)
      /\ Typed(win, comp, wire, told)
  BY <1>1, PartIs, Zenon DEF Coming
<1>3. /\ win \in WindowType /\ win.size.x > 0 /\ win.size.y > 0 /\ told \in ToldType
  BY <1>2, Zenon DEF Typed
<1>4. s \in Sized
  BY <1>3, FramesSized, Zenon
<1>5. /\ w \in WindowType /\ w.size = s /\ s.x > 0 /\ s.y > 0
      /\ w.scale = win.scale /\ w.ready = win.ready /\ w.flag = win.flag
      /\ w.maximized = win.maximized /\ w.fullscreen = win.fullscreen
  BY <1>3, <1>4, NewSize
<1>6. <<Clamping(win)>> \in Works
  <2>1. MinSize(win) \in Dims /\ MaxSize(win) \in Dims
    BY <1>3, BoundsTyped, Zenon
  <2>2. Clamping(win) \in Items /\ Clamping(win).kind = "clamp"
    BY <2>1 DEF Clamping, Bounds, Items
  <2> QED
    BY <2>2 DEF Works, Work
<1>7. "constrain" \notin {"resized", "configured", "size"}
      /\ "constrain" \notin {"surface", "frame"}
      /\ "constrain" \notin {"maximized", "states"}
  OBVIOUS
<1>8. Coming(win, comp, rest, wire, told, silent, configures)
  <2>1. /\ GeometryComes(win, Rest, told, silent)
        /\ ReadyComes(win, Rest, wire, told, configures)
        /\ StatesCome(win, comp, Rest, wire, told)
    BY <1>1, <1>7, GeometryStays, ReadyStays, StatesStay, Zenon
  <2> QED
    BY <1>2, <1>6, <2>1, WorkComes, Zenon DEF Coming
<1>9. Coming(w, comp, rest, wire, Resized(w), FALSE, configures)
  <2>1. /\ Resized(w) \in ToldType
        /\ Resized(w).size = w.size /\ Resized(w).scale = w.scale
        /\ Resized(w).ready = told.ready /\ Resized(w).focused = told.focused
    BY <1>3, <1>5, NewsOfSize, Zenon
  <2>2. Typed(w, comp, wire, Resized(w))
    BY <1>2, <1>5, <2>1, Zenon DEF Typed
  <2>3. /\ GeometryComes(w, Rest, Resized(w), FALSE)
        /\ ReadyComes(w, Rest, wire, Resized(w), configures)
        /\ StatesCome(w, comp, Rest, wire, Resized(w))
    <3>1. GeometryComes(w, Rest, Resized(w), FALSE)
      BY <2>1, Zenon DEF GeometryComes
    <3> QED
      BY <1>1, <1>5, <1>7, <2>1, <3>1, ReadyStays, StatesStay, Zenon
  <2>4. Coming(w, comp, Rest, wire, Resized(w), FALSE, configures)
    BY <1>2, <2>2, <2>3, Zenon DEF Coming
  <2> QED
    BY <1>6, <2>4, WorkComes, Zenon
<1>10. CASE decor = "libdecor" /\ Floating(win) /\ w.size # win.size
  BY <1>1, <1>2, <1>9, <1>10, TellingSizeKeeps, Zenon
<1>11. CASE ~(decor = "libdecor" /\ Floating(win) /\ w.size # win.size)
  BY <1>1, <1>2, <1>8, <1>11, SilentKeeps, Zenon
<1> QED
  BY <1>10, <1>11

LEMMA ClampKeeps ==
  ASSUME IInv, ClampFinally PROVE IInv'
<1> PICK b : b = Head(agenda).bounds
  OBVIOUS
<1> PICK s : s = FinalSize(win, b)
  OBVIOUS
<1> PICK w : w = [win EXCEPT !.size = s]
  OBVIOUS
<1>1. /\ Now("clamp") /\ win' = w /\ silent' = (silent \/ s # win.size)
      /\ agenda' = Rest
      /\ decor' = decor /\ enforce' = enforce /\ reached' = reached
      /\ configures' = configures /\ updates' = updates
      /\ stage' = stage /\ comp' = comp /\ wire' = wire /\ told' = told
  BY Zenon DEF ClampFinally, PartDone, choiceVars
<1>2. /\ stage = "live" /\ Ordered(Rest) /\ LastConfigure(comp, Rest, wire)
      /\ Typed(win, comp, wire, told) /\ Head(agenda) \in Items
      /\ Head(agenda).kind = "clamp"
  BY <1>1, PartIs, Zenon DEF Coming
<1>3. /\ win \in WindowType /\ win.size.x > 0 /\ win.size.y > 0
  BY <1>2, Zenon DEF Typed
<1>4. b \in [min : Dims, max : Dims]
  BY <1>2 DEF Items, Plain, Proposing
<1>5. s \in Sized
  BY <1>3, <1>4, FinalSized, Zenon
<1>6. /\ w \in WindowType /\ w.size = s /\ s.x > 0 /\ s.y > 0
      /\ w.scale = win.scale /\ w.ready = win.ready /\ w.flag = win.flag
      /\ w.maximized = win.maximized /\ w.fullscreen = win.fullscreen
  BY <1>3, <1>5, NewSize
<1>7. "clamp" \notin {"resized", "configured", "size"}
      /\ "clamp" \notin {"surface", "frame"}
      /\ "clamp" \notin {"maximized", "states"}
  OBVIOUS
<1>8. Typed(w, comp, wire, told)
  BY <1>2, <1>6, Zenon DEF Typed
<1>9. /\ ReadyComes(w, Rest, wire, told, configures)
      /\ StatesCome(w, comp, Rest, wire, told)
  BY <1>1, <1>6, <1>7, ReadyStays, StatesStay, Zenon
<1>10. GeometryComes(w, Rest, told, silent')
  <2>1. CASE s = win.size
    <3>1. GeometryComes(w, Rest, told, silent)
      BY <1>1, <1>6, <1>7, <2>1, GeometryStays, Zenon
    <3> QED
      BY <1>1, <3>1, Zenon DEF GeometryComes
  <2>2. CASE s # win.size
    BY <1>1, <2>2, Zenon DEF GeometryComes
  <2> QED
    BY <2>1, <2>2
<1>11. Coming(w, comp, Rest, wire, told, silent', configures)
  BY <1>2, <1>8, <1>9, <1>10, Zenon DEF Coming
<1>12. Coming(win, comp, agenda, wire, told, silent, configures)'
  BY <1>1, <1>11, Zenon
<1>13. Counts' /\ reached' = FALSE /\ stage' = "live"
  <2>1. silent' \in BOOLEAN
    BY <1>1
  <2> QED
    BY <1>1, <1>2, <2>1, Zenon DEF IInv, Counts
<1> QED
  BY <1>12, <1>13, Zenon DEF IInv
LEMMA StepKeeps ==
  ASSUME IInv, Step PROVE IInv'
BY MaximizedKeeps, StatesKeep, SizeKeeps, SurfaceKeeps, FrameKeeps,
   ConfiguredKeeps, ConstrainKeeps, ClampKeeps, UpdateKeeps, OpaqueKeeps, Zenon
   DEF Step

----------------------------------------------------------------------------
(* The application and the compositor.                                      *)

\* Between two handlers nothing is left of either.
LEMMA QuietIs ==
  ASSUME IInv, Live, Quiet
  PROVE  /\ stage = "live" /\ agenda = <<>>
         /\ Coming(win, comp, <<>>, wire, told, silent, configures)
         /\ Typed(win, comp, wire, told)
         /\ win \in WindowType /\ win.size.x > 0 /\ win.size.y > 0
         /\ told \in ToldType
<1>1. stage = "live" /\ agenda = <<>>
  BY Zenon DEF Live, Quiet
<1>2. Coming(win, comp, <<>>, wire, told, silent, configures)
  BY <1>1, Zenon DEF IInv
<1> QED
  BY <1>1, <1>2, Zenon DEF Coming, Typed

LEMMA QuietActs ==
  ASSUME IInv, Live, Quiet, Acts(win, <<>>),
         UNCHANGED <<choiceVars, told, silent, reached, configures>>
  PROVE  IInv'
<1>1. /\ UNCHANGED <<choiceVars, reached, configures>>
      /\ told' = told /\ silent' = silent
  OBVIOUS
<1>2. stage = "live" /\ Coming(win, comp, <<>>, wire, told, silent, configures)
  BY QuietIs, Zenon
<1>3. Coming(win, comp, <<>>, wire, told', silent', configures)
  BY <1>1, <1>2, Zenon
<1>4. silent' \in BOOLEAN 
  BY <1>1, Zenon DEF IInv, Counts
<1> QED
  BY <1>1, <1>2, <1>3, <1>4, ActsKeeps, Zenon

LEMMA HandleScaleKeeps ==
  ASSUME IInv, NEW scale \in Scales, HandleScale(scale) PROVE IInv'
<1> PICK w : w = [win EXCEPT !.scale = scale]
  OBVIOUS
<1>1. /\ Live /\ Quiet /\ UNCHANGED <<choiceVars, reached, configures>>
      /\ IF win.ready
           THEN /\ told' = Resized(w)
                /\ silent' = FALSE
                /\ Acts(w, <<>>)
           ELSE /\ win' = w
                /\ UNCHANGED <<stage, comp, wire, agenda, told, silent, updates>>
  BY Zenon DEF HandleScale
<1>2. /\ stage = "live" /\ agenda = <<>>
      /\ Coming(win, comp, <<>>, wire, told, silent, configures)
      /\ Typed(win, comp, wire, told)
      /\ win \in WindowType /\ win.size.x > 0 /\ win.size.y > 0
      /\ told \in ToldType
  BY <1>1, QuietIs, Zenon
<1>3. scale \in Nat
  BY WindowAssumption
<1>4. /\ w \in WindowType /\ w.scale = scale /\ w.size = win.size
      /\ w.ready = win.ready /\ w.flag = win.flag
      /\ w.maximized = win.maximized /\ w.fullscreen = win.fullscreen
  BY <1>2, <1>3 DEF WindowType
<1>5. ASSUME NEW tl \in ToldType, tl.ready = told.ready, tl.focused = told.focused,
             NEW si, GeometryComes(w, <<>>, tl, si)
      PROVE  Coming(w, comp, <<>>, wire, tl, si, configures)
  <2>1. Typed(w, comp, wire, tl)
    BY <1>2, <1>4, <1>5, Zenon DEF Typed
  <2>2. ReadyComes(w, <<>>, wire, tl, configures)
    BY <1>2, <1>4, <1>5, Zenon DEF Coming, ReadyComes
  <2>3. StatesCome(w, comp, <<>>, wire, tl)
    BY <1>2, <1>4, <1>5, Zenon DEF Coming, StatesCome
  <2> QED
    BY <1>2, <1>5, <2>1, <2>2, <2>3, Zenon DEF Coming
<1>6. CASE win.ready
  <2>1. told' = Resized(w) /\ silent' = FALSE /\ Acts(w, <<>>)
    BY <1>1, <1>6, Zenon
  <2>2. /\ Resized(w) \in ToldType
        /\ Resized(w).size = w.size /\ Resized(w).scale = w.scale
        /\ Resized(w).ready = told.ready /\ Resized(w).focused = told.focused
    BY <1>2, <1>4, NewsOfSize, Zenon
  <2>3. GeometryComes(w, <<>>, Resized(w), FALSE)
    BY <2>2, Zenon DEF GeometryComes
  <2>4. Coming(w, comp, <<>>, wire, Resized(w), FALSE, configures)
    BY <1>5, <2>2, <2>3, Zenon
  <2>5. Coming(w, comp, <<>>, wire, told', silent', configures)
    BY <2>1, <2>4, Zenon
  <2>6. silent' \in BOOLEAN 
    BY <2>1
  <2> QED
    BY <1>1, <1>2, <2>1, <2>5, <2>6, ActsKeeps, Zenon
<1>7. CASE ~win.ready
  <2>1. /\ win' = w /\ stage' = "live" /\ comp' = comp /\ wire' = wire
        /\ agenda' = <<>> /\ told' = told /\ silent' = silent /\ updates' = updates
        /\ decor' = decor /\ enforce' = enforce /\ reached' = reached
        /\ configures' = configures
    BY <1>1, <1>2, <1>7, Zenon DEF choiceVars
  <2>2. GeometryComes(w, <<>>, told, silent)
    BY <1>4, <1>7, NothingLeft, Zenon DEF GeometryComes
  <2>3. Coming(w, comp, <<>>, wire, told, silent, configures)
    BY <1>2, <1>5, <2>2, Zenon
  <2>4. Coming(win, comp, agenda, wire, told, silent, configures)'
    BY <2>1, <2>3, Zenon
  <2>5. Counts' /\ reached' = FALSE
    BY <1>2, <2>1, Zenon DEF IInv, Counts
  <2> QED
    BY <2>1, <2>4, <2>5, Zenon DEF IInv
<1> QED
  BY <1>6, <1>7

LEMMA SendConfigureKeeps ==
  ASSUME IInv, NEW c \in Proposals, SendConfigure(c) PROVE IInv'
<1> PICK d : d = [max |-> c.max, full |-> c.full, active |-> c.active, owes |-> FALSE,
                  asked |-> [max |-> "none", full |-> "none"]]
  OBVIOUS
<1> PICK wi : wi = Append(wire, c)
  OBVIOUS
<1>1. /\ stage = "live" /\ configures < MaxConfigures
      /\ comp' = d /\ wire' = wi /\ configures' = configures + 1
      /\ decor' = decor /\ enforce' = enforce /\ stage' = stage /\ win' = win
      /\ agenda' = agenda /\ told' = told /\ silent' = silent
      /\ reached' = reached /\ updates' = updates
  BY Zenon DEF SendConfigure, Live, choiceVars, historyVars
<1>2. /\ Coming(win, comp, agenda, wire, told, silent, configures)
      /\ Typed(win, comp, wire, told) /\ Ordered(agenda)
      /\ ReadyComes(win, agenda, wire, told, configures)
      /\ GeometryComes(win, agenda, told, silent)
      /\ told.focused = win.flag.focus
      /\ wire \in Seq(Proposals) /\ configures \in 0 .. MaxConfigures
      /\ reached = FALSE
  BY <1>1, Zenon DEF IInv, Counts, Coming, Typed, StatesCome
<1>3. c \in [max : BOOLEAN, full : BOOLEAN, active : BOOLEAN, size : Dims]
  BY WindowAssumption, Zenon
<1>4. /\ d \in CompType /\ d.max = c.max /\ d.full = c.full /\ d.active = c.active
  BY <1>3 DEF CompType, Asked
<1>5. /\ wi \in Seq(Proposals) /\ wi # <<>> /\ Len(wi) = Len(wire) + 1
      /\ wi[Len(wi)] = c /\ Len(wire) \in Nat
  BY <1>2
<1>6. Typed(win, d, wi, told)
  BY <1>2, <1>4, <1>5, Zenon DEF Typed
<1>7. ReadyComes(win, agenda, wi, told, configures + 1)
  <2>1. configures + 1 > Len(wi) => configures > Len(wire)
    BY <1>2, <1>5
  <2> QED
    BY <1>2, <2>1, Zenon DEF ReadyComes
<1>8. LastConfigure(d, agenda, wi)
  BY <1>4, <1>5, Zenon DEF LastConfigure
<1>9. StatesCome(win, d, agenda, wi, told)
  BY <1>2, <1>5, Zenon DEF StatesCome
<1>10. Coming(win, d, agenda, wi, told, silent, configures + 1)
  BY <1>2, <1>6, <1>7, <1>8, <1>9, Zenon DEF Coming
<1>11. Coming(win, comp, agenda, wire, told, silent, configures)'
  BY <1>1, <1>10, Zenon
<1>12. configures' \in 0 .. MaxConfigures
  BY <1>1, <1>2, WindowAssumption
<1>13. Counts'
  BY <1>1, <1>12, Zenon DEF IInv, Counts
<1> QED
  BY <1>1, <1>2, <1>11, <1>13, Zenon DEF IInv

LEMMA EmptyIs ==
  ASSUME NEW S, NEW s \in Seq(S)
  PROVE  Len(s) = 0 <=> s = <<>>
OBVIOUS

LEMMA HandleConfigureKeeps ==
  ASSUME IInv, HandleConfigure PROVE IInv'
<1> PICK c : c = Head(wire)
  OBVIOUS
<1> PICK wi : wi = Tail(wire)
  OBVIOUS
<1> DEFINE xdg == <<Part("maximized", c), Part("states", c), Part("size", c),
                    Item("surface")>>
           framed == <<Part("maximized", c), Part("states", c), Part("frame", c),
                       Item("configured")>>
<1> PICK ag : ag = IF decor = "xdg" THEN xdg ELSE framed
  OBVIOUS
<1>1. /\ Live /\ Quiet /\ wire # <<>> /\ wire' = wi /\ agenda' = ag
      /\ decor' = decor /\ enforce' = enforce /\ stage' = stage /\ win' = win
      /\ comp' = comp /\ told' = told /\ silent' = silent /\ reached' = reached
      /\ configures' = configures /\ updates' = updates
  BY Zenon DEF HandleConfigure, choiceVars, historyVars
<1>2. /\ stage = "live" /\ agenda = <<>>
      /\ Coming(win, comp, <<>>, wire, told, silent, configures)
      /\ Typed(win, comp, wire, told)
  BY <1>1, QuietIs, Zenon
<1>3. /\ GeometryComes(win, <<>>, told, silent)
      /\ ReadyComes(win, <<>>, wire, told, configures)
      /\ LastConfigure(comp, <<>>, wire)
      /\ StatesCome(win, comp, <<>>, wire, told)
      /\ wire \in Seq(Proposals)
  BY <1>2, Zenon DEF Coming, Typed
<1>4. /\ c \in Proposals /\ c = wire[1]
      /\ wi \in Seq(Proposals) /\ Len(wire) \in Nat \ {0}
      /\ Len(wi) = Len(wire) - 1
      /\ \A k \in 1 .. Len(wi) : wi[k] = wire[k + 1]
  BY <1>1, <1>3, TailIs
<1>5. /\ wi # <<>> => wi[Len(wi)] = wire[Len(wire)]
      /\ wi = <<>> => c = wire[Len(wire)]
  <2> PICK n : n = Len(wire)
    OBVIOUS
  <2> PICK m : m = Len(wi)
    OBVIOUS
  <2>1. /\ n \in Nat \ {0} /\ m = n - 1 /\ wi \in Seq(Proposals) /\ m = Len(wi)
        /\ \A k \in 1 .. m : wi[k] = wire[k + 1]
    BY <1>4, Zenon
  <2>2. m = 0 <=> wi = <<>>
    BY <2>1, EmptyIs, Zenon
  <2>3. m # 0 => m \in 1 .. m /\ m + 1 = n
    BY <2>1
  <2>4. m = 0 => n = 1
    BY <2>1
  <2> QED
    BY <1>4, <2>1, <2>2, <2>3, <2>4, Zenon
<1>6. /\ Len(ag) = 4
      /\ ag[1] = Part("maximized", c) /\ ag[2] = Part("states", c)
      /\ \/ ag[3] = Part("size", c) /\ ag[4] = Item("surface")
         \/ ag[3] = Part("frame", c) /\ ag[4] = Item("configured")
  <2>1. CASE decor = "xdg"
    BY <2>1
  <2>2. CASE decor # "xdg"
    BY <2>2
  <2> QED
    BY <2>1, <2>2
<1>7. /\ \A kind \in Proposing : Part(kind, c) \in Items
                                 /\ Part(kind, c).kind = kind
                                 /\ Part(kind, c).configure = c
      /\ \A kind \in Plain : Item(kind) \in Items /\ Item(kind).kind = kind
  BY <1>4 DEF Part, Item, Items
<1>8. /\ ag[1] \in Items /\ ag[2] \in Items /\ ag[3] \in Items /\ ag[4] \in Items
      /\ ag[1].kind = "maximized" /\ ag[2].kind = "states"
      /\ ag[1].configure = c /\ ag[2].configure = c
      /\ \/ ag[3].kind = "size" /\ ag[4].kind = "surface"
         \/ ag[3].kind = "frame" /\ ag[4].kind = "configured"
  BY <1>6, <1>7, Zenon DEF Proposing, Plain
<1>9. Ordered(ag)
  <2>1. ag \in Seq(Items)
    <3>1. ag = <<ag[1], ag[2], ag[3], ag[4]>>
      <4>1. CASE decor = "xdg"
        BY <4>1
      <4>2. CASE decor # "xdg"
        BY <4>2
      <4> QED
        BY <4>1, <4>2
    <3>2. <<ag[1], ag[2], ag[3], ag[4]>> \in Seq(Items)
      BY <1>8
    <3> QED
      BY <3>1, <3>2, Zenon
  <2>2. ASSUME NEW k \in 1 .. Len(ag) PROVE InPlace(ag, k)
    <3>1. k = 1 \/ k = 2 \/ k = 3 \/ k = 4
      BY <1>6
    <3>2. 3 + 1 = 4
      OBVIOUS
    <3> QED
      BY <1>6, <1>8, <3>1, <3>2, Zenon DEF InPlace
  <2> QED
    BY <2>1, <2>2, Zenon DEF Ordered
<1>10. /\ Has(ag, "maximized") /\ Has(ag, "states")
       /\ Has(ag, "surface") => Has(ag, "size")
       /\ Has(ag, "surface") \/ Has(ag, "frame")
  <2>1. 1 \in 1 .. Len(ag) /\ 2 \in 1 .. Len(ag) /\ 3 \in 1 .. Len(ag)
        /\ 4 \in 1 .. Len(ag)
        /\ \A k \in 1 .. Len(ag) : k = 1 \/ k = 2 \/ k = 3 \/ k = 4
    BY <1>6
  <2>2. Has(ag, "maximized") /\ Has(ag, "states")
    BY <1>8, <2>1, Zenon DEF Has
  <2>3. Has(ag, "surface") \/ Has(ag, "frame")
    BY <1>8, <2>1, Zenon DEF Has
  <2>4. ASSUME NEW k \in 1 .. Len(ag), ag[k].kind = "surface"
        PROVE  Has(ag, "size")
    <3>1. "maximized" # "surface" /\ "states" # "surface" /\ "size" # "surface"
          /\ "frame" # "surface" /\ "configured" # "surface"
      OBVIOUS
    <3>2. ag[4].kind = "surface"
      BY <1>8, <2>1, <2>4, <3>1, Zenon
    <3>3. ag[3].kind = "size"
      BY <1>8, <3>1, <3>2, Zenon
    <3> QED
      BY <2>1, <3>3, Zenon DEF Has
  <2> QED
    BY <2>2, <2>3, <2>4, Zenon DEF Has
<1>11. Typed(win, comp, wi, told)
  BY <1>2, <1>4, Zenon DEF Typed
<1>12. GeometryComes(win, ag, told, silent)
  BY <1>3, <1>10, NothingLeft, Zenon DEF GeometryComes
<1>13. ReadyComes(win, ag, wi, told, configures)
  BY <1>3, <1>10, Zenon DEF ReadyComes
<1>14. LastConfigure(comp, ag, wi)
  <2>1. /\ wire[Len(wire)].max = comp.max /\ wire[Len(wire)].full = comp.full
        /\ wire[Len(wire)].active = comp.active
    BY <1>1, <1>3, Zenon DEF LastConfigure
  <2>2. ASSUME NEW k \in 1 .. Len(ag), wi = <<>>
        PROVE  /\ ag[k].kind = "maximized" => ag[k].configure.max = comp.max
               /\ ag[k].kind = "states" => /\ ag[k].configure.full = comp.full
                                           /\ ag[k].configure.active = comp.active
    <3>1. k = 1 \/ k = 2 \/ k = 3 \/ k = 4
      BY <1>6
    <3>2. {"size", "frame", "surface", "configured"}
            \cap {"maximized", "states"} = {}
      OBVIOUS
    <3>3. k \in {3, 4} => ag[k].kind \notin {"maximized", "states"}
      BY <1>8, <3>2
    <3>4. c.max = comp.max /\ c.full = comp.full /\ c.active = comp.active
      BY <1>5, <2>1, <2>2, Zenon
    <3> QED
      BY <1>8, <3>1, <3>3, <3>4, Zenon
  <2> QED
    BY <1>5, <2>1, <2>2, Zenon DEF LastConfigure
<1>15. StatesCome(win, comp, ag, wi, told)
  BY <1>3, <1>10, Zenon DEF StatesCome
<1>16. Coming(win, comp, ag, wi, told, silent, configures)
  BY <1>9, <1>11, <1>12, <1>13, <1>14, <1>15, Zenon DEF Coming
<1>17. Coming(win, comp, agenda, wire, told, silent, configures)'
  BY <1>1, <1>16, Zenon
<1>18. Counts' /\ reached' = FALSE /\ stage' = "live"
  BY <1>1, <1>2, Zenon DEF IInv, Counts
<1> QED
  BY <1>17, <1>18, Zenon DEF IInv
LEMMA CreateKeeps ==
  ASSUME IInv, NEW s \in Sizes, NEW l \in LimitSets, NEW max \in BOOLEAN,
         NEW full \in BOOLEAN, Create(s, l, max, full)
  PROVE  IInv'
<1> PICK w : w = NewWindow(s, l, max, full)
  OBVIOUS
<1> PICK ag : ag = <<Item("constrain"), Item("opaque")>>
  OBVIOUS
<1>1. /\ stage = "new" /\ stage' = "live" /\ win' = w /\ agenda' = ag
      /\ decor' = decor /\ enforce' = enforce /\ wire' = wire /\ told' = told
      /\ silent' = silent /\ reached' = reached /\ configures' = configures
      /\ updates' = updates
  BY Zenon DEF Create, choiceVars, historyVars
<1>2. /\ comp = NewComp /\ wire = <<>> /\ told = NothingTold /\ reached = FALSE
      /\ configures = 0
  BY <1>1, Zenon DEF IInv, Fresh
<1>3. comp' \in CompType /\ comp'.owes = TRUE /\ comp'.max = FALSE
      /\ comp'.full = FALSE /\ comp'.active = FALSE
  <2>1. PICK c : c = [comp EXCEPT !.owes = TRUE]
    OBVIOUS
  <2>2. c \in CompType /\ c.owes = TRUE /\ c.max = FALSE
        /\ c.full = FALSE /\ c.active = FALSE
    BY <1>2, <2>1 DEF NewComp, CompType, Asked
  <2>3. comp' \in {Ask(c, "full", TRUE), Ask(c, "max", TRUE), c}
    <3>1. comp' = CASE full         -> Ask(c, "full", TRUE)
                    [] max /\ ~full -> Ask(c, "max", TRUE)
                    [] OTHER        -> c
      BY <2>1, Zenon DEF Create
    <3> QED
      BY <3>1
  <2>4. PICK f : f = Ask(c, "full", TRUE)
    OBVIOUS
  <2>5. PICK m : m = Ask(c, "max", TRUE)
    OBVIOUS
  <2>6. /\ f \in CompType /\ f.owes = TRUE /\ f.max = FALSE
        /\ f.full = FALSE /\ f.active = FALSE
    BY <2>2, <2>4, AskTyped
  <2>7. /\ m \in CompType /\ m.owes = TRUE /\ m.max = FALSE
        /\ m.full = FALSE /\ m.active = FALSE
    BY <2>2, <2>5, AskTyped
  <2>8. comp' = f \/ comp' = m \/ comp' = c
    BY <2>3, <2>4, <2>5, Zenon
  <2> QED
    BY <2>2, <2>6, <2>7, <2>8, Zenon
<1>4. /\ s \in Dims /\ s.x > 0 /\ s.y > 0 /\ l \in Limits
  BY WindowAssumption DEF Dims
<1>5. /\ w \in WindowType /\ w.size = s /\ w.ready = FALSE /\ w.flag.focus = FALSE
  BY <1>4 DEF NewWindow, WindowType
<1>6. told \in ToldType /\ told.ready = FALSE /\ told.focused = FALSE
  <2>1. NoSize \in Dims
    BY WindowAssumption DEF Dims
  <2> QED
    BY <1>2, <2>1 DEF NothingTold, ToldType
<1>7. /\ Len(ag) = 2 /\ ag[1] = Item("constrain") /\ ag[2] = Item("opaque")
  OBVIOUS
<1>8. /\ Item("constrain") \in Items /\ Item("opaque") \in Items
      /\ Item("constrain").kind = "constrain" /\ Item("opaque").kind = "opaque"
  BY DEF Item, Items, Plain
<1>9. ag \in Works
  BY <1>7, <1>8 DEF Works, Work
<1>10. Ordered(ag)
  BY <1>9, Zenon DEF Ordered, Works, InPlace
<1>11. ~Has(ag, "surface") /\ ~Has(ag, "maximized") /\ ~Has(ag, "states")
  <2>1. "surface" \notin Work
    BY DEF Work
  <2>2. "maximized" \notin Work /\ "states" \notin Work
    BY DEF Work
  <2> QED
    BY <1>9, <2>1, <2>2, Zenon DEF Works, Has
<1>12. wire \in Seq(Proposals) /\ Len(wire) = 0
  BY <1>2
<1>13. Typed(w, comp', wire, told)
  BY <1>3, <1>4, <1>5, <1>6, <1>12, Zenon DEF Typed
<1>14. GeometryComes(w, ag, told, silent)
  BY <1>5, <1>11, Zenon DEF GeometryComes
<1>15. ReadyComes(w, ag, wire, told, configures)
  <2>1. ~(configures > Len(wire))
    BY <1>2, <1>12
  <2> QED
    BY <1>5, <1>6, <2>1, Zenon DEF ReadyComes
<1>16. LastConfigure(comp', ag, wire)
  BY <1>2, <1>11, Zenon DEF LastConfigure, Has
<1>17. StatesCome(w, comp', ag, wire, told)
  BY <1>3, <1>5, <1>6, Zenon DEF StatesCome
<1>18. Coming(w, comp', ag, wire, told, silent, configures)
  BY <1>10, <1>13, <1>14, <1>15, <1>16, <1>17, Zenon DEF Coming
<1>19. Coming(win, comp, agenda, wire, told, silent, configures)'
  BY <1>1, <1>18, Zenon
<1>20. Counts' /\ reached' = FALSE
  BY <1>1, <1>2, Zenon DEF IInv, Counts
<1> QED
  BY <1>1, <1>19, <1>20, Zenon DEF IInv

LEMMA AbandonKeeps ==
  ASSUME IInv, Abandon PROVE IInv'
<1>1. /\ stage = "dead" /\ agenda # <<>>
      /\ reached' = (reached \/ Head(agenda).kind # "surface")
      /\ agenda' = (IF Head(agenda).kind = "surface" THEN Rest ELSE <<>>)
      /\ decor' = decor /\ enforce' = enforce /\ stage' = stage /\ win' = win
      /\ comp' = comp /\ wire' = wire /\ told' = told /\ silent' = silent
      /\ configures' = configures /\ updates' = updates
  BY Zenon DEF Abandon, choiceVars
<1>2. Gone
  BY <1>1, Zenon DEF IInv
<1>3. agenda' \in Seq(Items)
  <2>1. agenda \in Seq(Items)
    BY <1>2, Zenon DEF Gone
  <2> PICK r : r = Tail(agenda)
    OBVIOUS
  <2>2. r \in Seq(Items)
    BY <1>1, <2>1, TailIs
  <2>3. <<>> \in Seq(Items)
    OBVIOUS
  <2> QED
    BY <1>1, <2>2, <2>3, Zenon DEF Rest
<1>4. Gone'
  BY <1>1, <1>2, <1>3, Zenon DEF Gone
<1>5. reached' \in BOOLEAN
  BY <1>1
<1> QED
  BY <1>1, <1>4, <1>5, Zenon DEF IInv, Counts

LEMMA StutterKeeps ==
  ASSUME IInv, UNCHANGED vars PROVE IInv'
<1>1. /\ decor' = decor /\ enforce' = enforce /\ stage' = stage /\ win' = win
      /\ comp' = comp /\ wire' = wire /\ agenda' = agenda /\ told' = told
      /\ silent' = silent /\ reached' = reached
      /\ configures' = configures /\ updates' = updates
  BY Zenon DEF vars, choiceVars, historyVars
<1>2. CASE stage = "new" /\ Fresh
  BY <1>1, <1>2, Zenon DEF IInv, Fresh, Counts
<1>3. CASE /\ stage = "live"
           /\ Coming(win, comp, agenda, wire, told, silent, configures)
           /\ reached = FALSE
  <2>1. Coming(win, comp, agenda, wire, told, silent, configures)'
    BY <1>1, <1>3, Zenon
  <2> QED
    BY <1>1, <1>3, <2>1, Zenon DEF IInv, Counts
<1>4. CASE stage = "dead" /\ Gone
  BY <1>1, <1>4, Zenon DEF IInv, Gone, Counts
<1> QED
  BY <1>2, <1>3, <1>4, Zenon DEF IInv

----------------------------------------------------------------------------
(* The theorems.                                                            *)

\* IInv holds in every reachable state: what the handlers and updates under way
\* have still to do makes good whatever is not as it should be.
THEOREM WindowInvariant == Spec => []IInv
<1>1. Init => IInv
  <2> SUFFICES ASSUME Init PROVE IInv
    OBVIOUS
  <2>1. 0 \in 0 .. MaxConfigures /\ 0 \in 0 .. MaxUpdates /\ FALSE \in BOOLEAN
    BY WindowAssumption
  <2>2. Counts
    BY <2>1, Zenon DEF Init, Counts
  <2> QED
    BY <2>2, Zenon DEF Init, IInv, Fresh
<1>2. IInv /\ [Next]_vars => IInv'
  <2> SUFFICES ASSUME IInv, [Next]_vars PROVE IInv'
    OBVIOUS
  <2>1. ASSUME NEW s \in Sizes, NEW l \in LimitSets, NEW max \in BOOLEAN,
               NEW full \in BOOLEAN, Create(s, l, max, full)
        PROVE  IInv'
    BY <2>1, CreateKeeps, Zenon
  <2>2. CASE Application
    BY <2>2, QuietActs, Zenon DEF Application
  <2>3. ASSUME NEW c \in Proposals, SendConfigure(c) PROVE IInv'
    BY <2>3, SendConfigureKeeps, Zenon
  <2>4. CASE HandleConfigure
    BY <2>4, HandleConfigureKeeps, Zenon
  <2>5. CASE HandleClose
    BY <2>5, QuietActs, Zenon DEF HandleClose
  <2>6. ASSUME NEW scale \in Scales, HandleScale(scale) PROVE IInv'
    BY <2>6, HandleScaleKeeps, Zenon
  <2>7. CASE Step
    BY <2>7, StepKeeps, Zenon
  <2>8. CASE Abandon
    BY <2>8, AbandonKeeps, Zenon
  <2>9. CASE UNCHANGED vars
    BY <2>9, StutterKeeps, Zenon
  <2> QED
    BY <2>1, <2>2, <2>3, <2>4, <2>5, <2>6, <2>7, <2>8, <2>9, Zenon DEF Next
<1> QED
  BY <1>1, <1>2, PTL DEF Spec

\* Every variable keeps its type, and a live window has a size of two sides,
\* whatever limits, ratios and proposals do to it (wayland_window.c:561-648).
THEOREM WindowIsTyped == Spec => []TypeOK
<1>1. IInv => TypeOK
  <2> SUFFICES ASSUME IInv PROVE TypeOK
    OBVIOUS
  <2>1. /\ win \in WindowType /\ comp \in CompType /\ wire \in Seq(Proposals)
        /\ agenda \in Seq(Items) /\ told \in ToldType
        /\ Live => win.size.x > 0 /\ win.size.y > 0
    <3>1. CASE stage = "new" /\ Fresh
      <4>1. NoSize \in Dims
        BY WindowAssumption DEF Dims
      <4>2. told \in ToldType
        BY <3>1, <4>1 DEF Fresh, NothingTold, ToldType
      <4>3. wire \in Seq(Proposals) /\ agenda \in Seq(Items)
        BY <3>1 DEF Fresh
      <4>4. ~Live
        BY <3>1 DEF Live
      <4> QED
        BY <3>1, <4>2, <4>3, <4>4, FreedTyped, Zenon DEF Fresh
    <3>2. CASE stage = "live" /\ Coming(win, comp, agenda, wire, told, silent,
                                        configures)
      BY <3>2, Zenon DEF Coming, Typed, Ordered
    <3>3. CASE stage = "dead" /\ Gone
      <4>1. wire \in Seq(Proposals)
        BY <3>3 DEF Gone
      <4>2. ~Live
        BY <3>3 DEF Live
      <4> QED
        BY <3>3, <4>1, <4>2, FreedTyped, Zenon DEF Gone
    <3> QED
      BY <3>1, <3>2, <3>3, Zenon DEF IInv
  <2>2. stage \in {"new", "live", "dead"} /\ Counts
    BY Zenon DEF IInv
  <2> QED
    BY <2>1, <2>2, Zenon DEF TypeOK, Counts, WindowType, CompType, ToldType
<1> QED
  BY <1>1, WindowInvariant, PTL

\* A window that is ready has told its size and scale whenever no handler is
\* open, unless the last change was the one of the constraints that has no event.
THEOREM GeometryIsAlwaysTold == Spec => []GeometryIsTold
<1>1. IInv => GeometryIsTold
  <2> SUFFICES ASSUME IInv, Live, Quiet, win.ready, ~silent
               PROVE  told.size = win.size /\ told.scale = win.scale
    BY DEF GeometryIsTold
  <2>1. GeometryComes(win, <<>>, told, silent)
    BY QuietIs, Zenon DEF Coming
  <2> QED
    BY <2>1, NothingLeft, Zenon DEF GeometryComes
<1> QED
  BY <1>1, WindowInvariant, PTL

\* Once all configures are handled the window has the states the compositor
\* gives it, and the application knows of its focus.
THEOREM StatesAlwaysSettle == Spec => []StatesSettle
<1>1. IInv => StatesSettle
  <2> SUFFICES ASSUME IInv, Settled
               PROVE  /\ win.maximized = comp.max
                      /\ win.fullscreen = comp.full
                      /\ win.flag.full = comp.full
                      /\ told.focused = comp.active
    BY DEF StatesSettle
  <2>1. /\ Live /\ Quiet /\ wire = <<>> /\ ~comp.owes
        /\ ~(comp.asked.max # "none") /\ ~(comp.asked.full # "none")
    BY Zenon DEF Settled, Owes
  <2>2. StatesCome(win, comp, <<>>, wire, told)
    BY <2>1, QuietIs, Zenon DEF Coming
  <2> QED
    BY <2>1, <2>2, NothingLeft, Zenon DEF StatesCome
<1> QED
  BY <1>1, WindowInvariant, PTL

\* A window that has handled a configure is ready and told so, whatever the
\* callbacks inside the handler did.
THEOREM ConfiguredIsReady == Spec => []ReadyOnceConfigured
<1>1. IInv => ReadyOnceConfigured
  <2> SUFFICES ASSUME IInv, Live, Quiet, configures > Len(wire)
               PROVE  win.ready /\ told.ready
    BY DEF ReadyOnceConfigured
  <2>1. ReadyComes(win, <<>>, wire, told, configures)
    BY QuietIs, Zenon DEF Coming
  <2> QED
    BY <2>1, NothingLeft, Zenon DEF ReadyComes
<1> QED
  BY <1>1, WindowInvariant, PTL

=============================================================================
