--------------------------- MODULE SizeConstraints ---------------------------
(***************************************************************************)
(* The arithmetic of sizes in linux/wayland/wayland_window.c: a size is a  *)
(* record of x and y, limits are a record of min, max, num and den, and    *)
(* zero stands for no limit and no ratio.  Sizes are whole, as the code    *)
(* makes them before it compares.                                          *)
(***************************************************************************)
EXTENDS Naturals

Dims == [x : Nat, y : Nat]
Limits == [min : Dims, max : Dims, num : Nat, den : Nat]

\* _lvkw_wayland_clamp_size: the lower bound is looked at first.
Clamp(v, lo, hi) ==
  CASE v < lo           -> lo
    [] hi > 0 /\ v > hi -> hi
    [] OTHER            -> v

ClampSize(s, lo, hi) ==
  [x |-> Clamp(s.x, lo.x, hi.x), y |-> Clamp(s.y, lo.y, hi.y)]

\* Fitting a frame: both bounds are looked at, and the upper one wins.
Fit(v, lo, hi) ==
  LET raised == IF v < lo THEN lo ELSE v
  IN IF hi > 0 /\ raised > hi THEN hi ELSE raised

FitSize(s, lo, hi) == [x |-> Fit(s.x, lo.x, hi.x), y |-> Fit(s.y, lo.y, hi.y)]

\* A maximum below the minimum gives way to it.
Upper(lo, hi) == IF hi > 0 /\ hi < lo THEN lo ELSE hi

\* The quotient to the nearest, and at least 1.
Quotient(a, b) ==
  LET q == (a + b \div 2) \div b
  IN IF q > 0 THEN q ELSE 1

\* One pass: the side that is too long is shortened, then both are clamped.
AspectPass(s, l) ==
  LET lhs == s.x * l.den
      rhs == s.y * l.num
      fitted == CASE lhs > rhs -> [s EXCEPT !.x = Quotient(rhs, l.den)]
                  [] lhs < rhs -> [s EXCEPT !.y = Quotient(lhs, l.num)]
                  [] OTHER     -> s
  IN ClampSize(fitted, l.min, [x |-> Upper(l.min.x, l.max.x),
                               y |-> Upper(l.min.y, l.max.y)])

\* _lvkw_wayland_enforce_aspect_ratio
EnforceAspectRatio(s, l) ==
  IF s.x = 0 \/ s.y = 0 \/ l.num = 0 \/ l.den = 0
    THEN s
    ELSE AspectPass(AspectPass(s, l), l)
=============================================================================
