------------------------------- MODULE Layout -------------------------------
(***************************************************************************)
(* Rectangles: the arithmetic of the tiling layout (src/wm/layout.rs) and  *)
(* of the placing and sizing of floating windows (src/state.rs,            *)
(* src/wm/mod.rs).  Sides are u32 and cut at zero where the code says      *)
(* saturating_sub or max(0).  The master fraction, an f64, is a number of  *)
(* Parts, and its product with a width is rounded down.  Screens are far   *)
(* below 2^31.                                                             *)
(***************************************************************************)
EXTENDS Integers

CONSTANT Parts          \* what the master fraction counts: any unit it is a multiple of

ASSUME PartsAssumption == Parts \in Nat \ {0}

\* From 0.1 to 0.9, as set_master_fraction and the start clamp it.
Fractions == {f \in 0 .. Parts : Parts <= f * 10 /\ f * 10 <= Parts * 9}

RectType == [x : Int, y : Int, width : Nat, height : Nat]
Rect(x, y, width, height) == [x |-> x, y |-> y, width |-> width, height |-> height]

\* a.saturating_sub(b), and (a - b).max(0).
Less(a, b) == IF a > b THEN a - b ELSE 0

Larger(a, b) == IF a > b THEN a ELSE b
Smaller(a, b) == IF a < b THEN a ELSE b
Clamped(v, lo, hi) == Larger(lo, Smaller(v, hi))

Empty(r) == r.width = 0 \/ r.height = 0

\* Where windows may go on an output: its usable area, or all of it before
\* river reports one.
output_area(screen) ==
  IF screen.usable.width > 0 \/ screen.usable.height > 0 THEN screen.usable ELSE screen.box

\* The area left inside the outer gap, as compute_output cuts it.
Inset(area, gap) == Rect(area.x + gap, area.y + gap, Less(area.width, gap * 2), Less(area.height, gap * 2))

-----------------------------------------------------------------------------
(***************************************************************************)
(* Master and stack.                                                       *)
(***************************************************************************)
\* Faulty variant: the gaps between stack tiles are not taken out of the
\* height that is shared.
StackHeight_noGaps(height, stack_n, gap) == height \div stack_n

\* The height of every stack tile but the last.
StackHeight(height, stack_n, gap) == Less(height, (stack_n - 1) * gap) \div stack_n

\* Faulty variant: the last tile is as high as the others.
LastHeight_even(y, stack_h, area_bottom, gap) == stack_h

\* The last tile takes what is left, down to a gap above area_bottom.
LastHeight(y, stack_h, area_bottom, gap) == Less(area_bottom - gap, y)

\* Tile 1 is the master, the others are the stack, top to bottom.
compute_tiling(n, area, area_bottom, gap, fraction) ==
  LET master_w == (area.width * fraction) \div Parts
      stack_x == area.x + master_w + gap
      stack_w == Less(area.width - master_w, gap)
      stack_h == StackHeight(area.height, n - 1, gap)
      StackY(i) == area.y + (i - 2) * (stack_h + gap)
  IN  IF n = 1 THEN <<area>>
      ELSE [i \in 1 .. n |->
              IF i = 1 THEN [area EXCEPT !.width = master_w]
              ELSE Rect(stack_x, StackY(i), stack_w,
                        IF i < n THEN stack_h ELSE LastHeight(StackY(i), stack_h, area_bottom, gap))]

\* The tiles of n windows on an area that still has its outer gap.
TilesOn(area, n, gap, fraction) ==
  LET inner == Inset(area, gap)
  IN  compute_tiling(n, inner, inner.y + inner.height, gap, fraction)

-----------------------------------------------------------------------------
(***************************************************************************)
(* Floating windows.                                                       *)
(***************************************************************************)
\* Moves a rectangle into an area; one too large goes to its top left corner.
clamp_rect_to_area(box, area) ==
  IF Empty(area) THEN [box EXCEPT !.x = area.x, !.y = area.y]
  ELSE [box EXCEPT !.x = Clamped(@, area.x, area.x + Less(area.width, box.width)),
                   !.y = Clamped(@, area.y, area.y + Less(area.height, box.height))]

\* A size hint of 0 is none.  A maximum wins over a minimum.
Capped(v, max) == IF max > 0 THEN Smaller(v, max) ELSE v

\* One side of fit_beside_parent: three fifths of what it overlays, raised to
\* the minimum, cut to the maximum.
FitSide(requested, over, min, max) ==
  Capped(Larger(min, IF over > 0 THEN Smaller(requested, (over * 3) \div 5) ELSE requested), max)

fit_beside_parent(over, box, hints) ==
  [box EXCEPT !.width = FitSide(@, over.width, hints.min_width, hints.max_width),
              !.height = FitSide(@, over.height, hints.min_height, hints.max_height)]

\* Centred over a rectangle, and kept inside the area.
place_over_parent(box, over, area) ==
  clamp_rect_to_area(
    [box EXCEPT !.x = over.x + over.width \div 2 - box.width \div 2,
                !.y = over.y + over.height \div 2 - box.height \div 2], area)

\* The size proposed to a floating window.
clamp_to_hints(box, hints) ==
  [box EXCEPT !.width = Capped(Larger(@, hints.min_width), hints.max_width),
              !.height = Capped(Larger(@, hints.min_height), hints.max_height)]

-----------------------------------------------------------------------------
(***************************************************************************)
(* What the properties ask of rectangles.                                  *)
(***************************************************************************)
Within(r, area) == /\ r.x >= area.x /\ r.x + r.width <= area.x + area.width
                   /\ r.y >= area.y /\ r.y + r.height <= area.y + area.height

\* At least a gap apart, side by side or one above the other.
Apart(r, q, gap) == \/ r.x + r.width + gap <= q.x
                    \/ q.x + q.width + gap <= r.x
                    \/ r.y + r.height + gap <= q.y
                    \/ q.y + q.height + gap <= r.y

Columns(r) == r.x .. (r.x + r.width - 1)
Rows(r) == r.y .. (r.y + r.height - 1)

\* A point in a rectangle, or in the gap right of it or below it.
Takes(r, gap, x, y) == /\ r.x <= x /\ x < r.x + r.width + gap
                       /\ r.y <= y /\ y < r.y + r.height + gap
=============================================================================
