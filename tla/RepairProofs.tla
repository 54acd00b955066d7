---------------------------- MODULE RepairProofs ----------------------------
(***************************************************************************)
(* What follows when a monitor changes, for every number of tags, outputs  *)
(* and windows and rectangles of every size: the loop of normalize_outputs *)
(* computes its closed form, tiles fit, floats are on screen and on top.   *)
(***************************************************************************)
EXTENDS Repair, WmStateProofs, SequenceTheorems

-----------------------------------------------------------------------------
(***************************************************************************)
(* The members of a finite set of naturals in order.                       *)
(***************************************************************************)
\* A member's rank is below the size of the set.
LEMMA RankBelow ==
  ASSUME NEW S \in SUBSET Nat, IsFiniteSet(S), NEW x \in S
  PROVE  Rank(S, x) \in 0 .. Cardinality(S) - 1
<1> DEFINE T == {y \in S : y < x}
<1>1. T \in SUBSET S /\ T # S
  <2>1. x \notin T
    OBVIOUS
  <2> QED  BY <2>1
<1> HIDE DEF T
<1>2. /\ Cardinality(S) \in Nat
      /\ IsFiniteSet(T) /\ Cardinality(T) <= Cardinality(S) /\ Cardinality(T) # Cardinality(S)
  BY <1>1, FS_CardinalityType, FS_Subset
<1>3. Cardinality(T) \in Nat
  BY <1>2, FS_CardinalityType
<1> QED  BY <1>2, <1>3 DEF Rank, T

\* Ranks are in the order of the members.
LEMMA RankMonotone ==
  ASSUME NEW S \in SUBSET Nat, IsFiniteSet(S), NEW x \in S, NEW y \in S, x < y
  PROVE  Rank(S, x) < Rank(S, y)
<1> DEFINE T == {z \in S : z < x}
           U == {z \in S : z < y}
<1>1. T \in SUBSET U /\ U \in SUBSET S /\ x \in U /\ x \notin T
  <2>1. x \in Nat /\ y \in Nat /\ \A z \in S : z \in Nat /\ (z < x => z < y)
    OBVIOUS
  <2>2. ~(x < x)
    BY <2>1
  <2> QED  BY <2>1, <2>2
<1> HIDE DEF T, U
<1>2. IsFiniteSet(U) /\ IsFiniteSet(T) /\ Cardinality(T) <= Cardinality(U)
      /\ Cardinality(T) # Cardinality(U)
  BY <1>1, FS_Subset
<1>3. Cardinality(T) \in Nat /\ Cardinality(U) \in Nat
  BY <1>2, FS_CardinalityType
<1> QED  BY <1>2, <1>3 DEF Rank, T, U

\* No two members have the same rank.
LEMMA RankOneToOne ==
  ASSUME NEW S \in SUBSET Nat, IsFiniteSet(S), NEW x \in S, NEW y \in S,
         Rank(S, x) <= Rank(S, y)
  PROVE  x <= y
<1>1. Rank(S, x) \in Int /\ Rank(S, y) \in Int
  BY RankBelow
<1> QED  BY <1>1, RankMonotone

\* Every rank below the size is some member's.
LEMMA RankOnto ==
  ASSUME NEW S \in SUBSET Nat, IsFiniteSet(S), NEW k \in 0 .. Cardinality(S) - 1
  PROVE  \E x \in S : Rank(S, x) = k
<1> DEFINE Gap(U, j) == \A x \in U : Rank(U, x) # j
           Sizes == {n \in Nat : \E U \in SUBSET Nat :
                       /\ IsFiniteSet(U) /\ Cardinality(U) = n
                       /\ \E j \in 0 .. n - 1 : Gap(U, j)}
<1>1. SUFFICES Sizes = {}
  <2>1. Cardinality(S) \in Nat
    BY FS_CardinalityType
  <2> QED  BY <1>1, <2>1
<1>2. SUFFICES ASSUME Sizes # {} PROVE FALSE
  OBVIOUS
<1>3. PICK n \in Sizes : \A m \in Sizes : n <= m
  BY <1>2, LeastElement
<1>4. PICK U \in SUBSET Nat : /\ IsFiniteSet(U) /\ Cardinality(U) = n
                              /\ \E j \in 0 .. n - 1 : Gap(U, j)
  BY <1>3
<1>5. PICK j \in 0 .. n - 1 : Gap(U, j)
  BY <1>4
<1>6. n \in Nat /\ U # {}
  BY <1>3, <1>4, <1>5, FS_EmptySet
<1>7. PICK least \in U : \A y \in U : least <= y
  BY <1>6, LeastElement
<1> DEFINE V == U \ {least}
<1>8. V \in SUBSET Nat /\ IsFiniteSet(V) /\ Cardinality(V) = n - 1
  BY <1>4, FS_RemoveElement
<1>9. CASE j = 0
  <2>1. {y \in U : y < least} = {}
    <3>1. \A y \in U : y \in Nat /\ least \in Nat /\ ~(y < least)
      BY <1>7
    <3> QED  BY <3>1
  <2>2. Rank(U, least) = 0
    BY <2>1, FS_EmptySet DEF Rank
  <2> QED  BY <1>5, <1>9, <2>2
<1>10. CASE j > 0
  <2>1. n - 1 \in Nat /\ n - 1 \notin Sizes /\ j - 1 \in 0 .. (n - 1) - 1
    BY <1>3, <1>6, <1>10
  <2>2. PICK x \in V : Rank(V, x) = j - 1
    BY <1>8, <2>1
  <2>3. x \in Nat /\ least \in Nat /\ least < x
    BY <1>7
  <2> DEFINE T == {y \in V : y < x}
  <2>4. {y \in U : y < x} = T \cup {least} /\ least \notin T /\ T \in SUBSET V
    BY <2>3
  <2> HIDE DEF T, V
  <2>5. IsFiniteSet(T) /\ Cardinality(T) = j - 1
    BY <1>8, <2>2, <2>4, FS_Subset DEF Rank, T
  <2>6. Cardinality(T \cup {least}) = j
    <3>1. Cardinality(T \cup {least}) = Cardinality(T) + 1
      BY <2>4, <2>5, FS_AddElement
    <3> QED  BY <2>5, <3>1
  <2>7. Rank(U, x) = j
    <3>1. Rank(U, x) = Cardinality({y \in U : y < x})
      BY Zenon DEF Rank
    <3> QED  BY <2>4, <2>6, <3>1, Zenon
  <2> QED  BY <1>5, <2>7 DEF V
<1> QED  BY <1>5, <1>9, <1>10

\* InVecOrder lists a set in order, each member once.
LEMMA Enumeration ==
  ASSUME NEW S \in SUBSET Nat, IsFiniteSet(S)
  PROVE  LET n == Cardinality(S)
             ids == InVecOrder(S)
         IN  /\ n \in Nat /\ ids \in [1 .. n -> S]
             /\ ids \in Seq(S) /\ Len(ids) = n /\ DOMAIN ids = 1 .. n
             /\ \A i, j \in 1 .. n : i # j => ids[i] # ids[j]
             /\ \A w \in S : \E i \in 1 .. n : ids[i] = w
<1> DEFINE n == Cardinality(S)
           ids == InVecOrder(S)
<1>1. n \in Nat
  BY FS_CardinalityType
<1>2. \A i \in 1 .. n : ids[i] \in S /\ Rank(S, ids[i]) = i - 1
  <2> SUFFICES ASSUME NEW i \in 1 .. n
               PROVE  ids[i] \in S /\ Rank(S, ids[i]) = i - 1
    OBVIOUS
  <2>1. \E w \in S : Rank(S, w) = i - 1
    <3>1. i - 1 \in 0 .. n - 1
      BY <1>1
    <3> QED  BY <3>1, RankOnto
  <2>2. ids[i] = CHOOSE w \in S : Rank(S, w) = i - 1
    BY DEF InVecOrder
  <2> QED  BY <2>1, <2>2
<1>3. DOMAIN ids = 1 .. n /\ ids = [i \in 1 .. n |-> ids[i]]
  BY DEF InVecOrder
<1> HIDE DEF ids
<1>4. ids \in [1 .. n -> S]
  BY <1>2, <1>3
<1>5. ids \in Seq(S) /\ Len(ids) = n
  BY <1>1, <1>4
<1>6. \A i, j \in 1 .. n : i # j => ids[i] # ids[j]
  BY <1>1, <1>2
<1>7. \A w \in S : \E i \in 1 .. n : ids[i] = w
  <2> SUFFICES ASSUME NEW w \in S
               PROVE  \E i \in 1 .. n : ids[i] = w
    OBVIOUS
  <2>1. Rank(S, w) \in 0 .. n - 1
    BY RankBelow
  <2> DEFINE i == Rank(S, w) + 1
  <2>2. i \in 1 .. n /\ i - 1 = Rank(S, w)
    BY <1>1, <2>1
  <2> HIDE DEF i
  <2>3. ids[i] \in S /\ Rank(S, ids[i]) = Rank(S, w)
    BY <1>2, <2>2
  <2>4. Rank(S, ids[i]) <= Rank(S, w) /\ Rank(S, w) <= Rank(S, ids[i])
    BY <1>1, <2>1, <2>3
  <2>5. ids[i] <= w /\ w <= ids[i]
    BY <2>3, <2>4, RankOneToOne
  <2>6. ids[i] \in Nat /\ w \in Nat
    BY <2>3
  <2>7. ids[i] = w
    BY <2>5, <2>6
  <2> QED  BY <2>2, <2>7
<1> QED  BY <1>1, <1>3, <1>4, <1>5, <1>6, <1>7 DEF ids

-----------------------------------------------------------------------------
(***************************************************************************)
(* Rectangles.                                                             *)
(***************************************************************************)
\* The place a rectangle is clamped to is in the room there is, and no other
\* place in it is nearer to where the rectangle was.
LEMMA ClampedNearest ==
  ASSUME NEW old \in Int, NEW start \in Int, NEW room \in Nat
  PROVE  /\ Clamped(old, start, start + room) \in start .. (start + room)
         /\ Nearest(old, Clamped(old, start, start + room), start, room)
BY DEF Clamped, Larger, Smaller, Distance, Nearest

\* A rectangle that fits into the area it is clamped to ends within it, also
\* when there is no area at all.
LEMMA ClampedWithin ==
  ASSUME NEW box \in RectType, NEW area \in RectType
  PROVE  LET new == clamp_rect_to_area(box, area)
         IN  /\ new \in RectType
             /\ new.width = box.width /\ new.height = box.height
             /\ (box.width <= area.width /\ box.height <= area.height) => Within(new, area)
<1> DEFINE new == clamp_rect_to_area(box, area)
<1>1. /\ box.x \in Int /\ box.y \in Int /\ box.width \in Nat /\ box.height \in Nat
      /\ area.x \in Int /\ area.y \in Int /\ area.width \in Nat /\ area.height \in Nat
  BY DEF RectType
<1>2. CASE Empty(area)
  <2>1. new = [box EXCEPT !.x = area.x, !.y = area.y]
    BY <1>2 DEF clamp_rect_to_area
  <2>2. /\ new \in RectType /\ new.x = area.x /\ new.y = area.y
        /\ new.width = box.width /\ new.height = box.height
    BY <1>1, <2>1 DEF RectType
  <2> HIDE DEF new
  <2> QED  BY <1>1, <2>2 DEF Within, new
<1>3. CASE ~Empty(area)
  <2> DEFINE at == Clamped(box.x, area.x, area.x + Less(area.width, box.width))
             top == Clamped(box.y, area.y, area.y + Less(area.height, box.height))
  <2>1. new = [box EXCEPT !.x = at, !.y = top]
    BY <1>3 DEF clamp_rect_to_area
  <2>2. Less(area.width, box.width) \in Nat /\ Less(area.height, box.height) \in Nat
    BY <1>1 DEF Less
  <2>3. /\ at \in area.x .. (area.x + Less(area.width, box.width))
        /\ top \in area.y .. (area.y + Less(area.height, box.height))
    BY <1>1, <2>2, ClampedNearest
  <2>a. at \in Int /\ top \in Int
    BY <1>1, <2>2, <2>3
  <2> HIDE DEF at, top
  <2>4. /\ new \in RectType /\ new.x = at /\ new.y = top
        /\ new.width = box.width /\ new.height = box.height
    BY <1>1, <2>1, <2>a DEF RectType
  <2> HIDE DEF new
  <2>5. (box.width <= area.width /\ box.height <= area.height) => Within(new, area)
    BY <1>1, <2>2, <2>3, <2>4 DEF Within, Less
  <2> QED  BY <2>4, <2>5 DEF new
<1> QED  BY <1>2, <1>3

\* A side is as long as its hints allow, exceeds no maximum, and covers three
\* fifths at most unless its minimum asks for more.
Fitted(side, over, min, max) ==
  /\ side \in Nat
  /\ max > 0 => side <= max
  /\ over > 0 => side <= Larger((over * 3) \div 5, min)
  /\ Capped(Larger(side, min), max) = side

\* FitSide makes it so.
LEMMA FittedSide ==
  ASSUME NEW requested \in Nat, NEW over \in Nat, NEW min \in Nat, NEW max \in Nat
  PROVE  Fitted(FitSide(requested, over, min, max), over, min, max)
<1> DEFINE part == (over * 3) \div 5
<1>1. part \in Nat
  OBVIOUS
<1> HIDE DEF part
<1> QED  BY <1>1 DEF Fitted, FitSide, Capped, Larger, Smaller, part

\* What fit_beside_parent and place_over_parent make of a window together.
LEMMA OverlaidReadable ==
  ASSUME NEW b \in BoxType, NEW over \in RectType, NEW area \in RectType
  PROVE  LET r == [b EXCEPT !.box = Overlaid(b, over, area)]
         IN  Overlaid(b, over, area) \in RectType /\ Readable(r, over, area)
<1> DEFINE fit == fit_beside_parent(over, b.box, b.hints)
           w == FitSide(b.box.width, over.width, b.hints.min_width, b.hints.max_width)
           h == FitSide(b.box.height, over.height, b.hints.min_height, b.hints.max_height)
           mid == [fit EXCEPT !.x = over.x + over.width \div 2 - fit.width \div 2,
                              !.y = over.y + over.height \div 2 - fit.height \div 2]
           new == clamp_rect_to_area(mid, area)
           r == [b EXCEPT !.box = new]
<1>1. /\ b.box \in RectType /\ b.hints \in HintsType
      /\ over.x \in Int /\ over.y \in Int /\ over.width \in Nat /\ over.height \in Nat
  BY DEF BoxType, RectType
<1>2. /\ b.box.width \in Nat /\ b.box.height \in Nat
      /\ b.hints.min_width \in Nat /\ b.hints.min_height \in Nat
      /\ b.hints.max_width \in Nat /\ b.hints.max_height \in Nat
  BY <1>1 DEF RectType, HintsType
<1>3. Fitted(w, over.width, b.hints.min_width, b.hints.max_width)
  BY <1>1, <1>2, FittedSide
<1>4. Fitted(h, over.height, b.hints.min_height, b.hints.max_height)
  BY <1>1, <1>2, FittedSide
<1>5. fit = [b.box EXCEPT !.width = w, !.height = h]
  BY DEF fit_beside_parent
<1> HIDE DEF w, h
<1>a. w \in Nat /\ h \in Nat
  BY <1>3, <1>4 DEF Fitted
<1>6. fit \in RectType /\ fit.width = w /\ fit.height = h
  BY <1>1, <1>5, <1>a DEF RectType
<1> HIDE DEF fit
<1>7. /\ over.width \div 2 \in Int /\ over.height \div 2 \in Int
      /\ fit.width \div 2 \in Int /\ fit.height \div 2 \in Int
  BY <1>1, <1>6, <1>a
<1>8. mid \in RectType /\ mid.width = w /\ mid.height = h
  <2> DEFINE left == over.x + over.width \div 2 - fit.width \div 2
             top == over.y + over.height \div 2 - fit.height \div 2
  <2>1. left \in Int /\ top \in Int
    BY <1>1, <1>7
  <2>2. mid = [fit EXCEPT !.x = left, !.y = top]
    OBVIOUS
  <2> HIDE DEF left, top, mid
  <2> QED  BY <1>6, <2>1, <2>2 DEF RectType
<1> HIDE DEF mid
<1>9. /\ new \in RectType /\ new.width = w /\ new.height = h
      /\ (w <= area.width /\ h <= area.height) => Within(new, area)
  BY <1>8, ClampedWithin
<1>10. Overlaid(b, over, area) = new
  BY DEF Overlaid, place_over_parent, fit, mid
<1> HIDE DEF new
<1>11. r.box = new /\ r.hints = b.hints
  BY <1>1 DEF BoxType
<1>12. clamp_to_hints(r.box, r.hints) = r.box
  <2>1. clamp_to_hints(new, b.hints) = [new EXCEPT !.width = w, !.height = h]
    BY <1>3, <1>4, <1>9 DEF clamp_to_hints, Fitted
  <2>2. [new EXCEPT !.width = w, !.height = h] = new
    BY <1>9 DEF RectType
  <2> QED  BY <1>11, <2>1, <2>2
<1> HIDE DEF r
<1>13. Readable(r, over, area)
  BY <1>3, <1>4, <1>9, <1>11, <1>12 DEF Readable, Fitted
<1> QED  BY <1>9, <1>10, <1>13 DEF r

-----------------------------------------------------------------------------
(***************************************************************************)
(* Master and stack.                                                       *)
(***************************************************************************)
\* The stack tiles with the gaps between them take no more than the height.
LEMMA StackSum ==
  ASSUME NEW height \in Nat, NEW stack_n \in Nat \ {0}, NEW gap \in Nat
  PROVE  LET stack_h == StackHeight(height, stack_n, gap)
         IN  /\ stack_h \in Nat
             /\ stack_h > 0 => stack_n * stack_h + (stack_n - 1) * gap <= height
<1> DEFINE gaps == (stack_n - 1) * gap
           room == Less(height, gaps)
           stack_h == StackHeight(height, stack_n, gap)
<1>1. gaps \in Nat
  OBVIOUS
<1>2. stack_h = room \div stack_n
  BY DEF StackHeight
<1> HIDE DEF gaps, stack_h
<1>3. room \in Nat /\ (room > 0 => room + gaps = height)
  BY <1>1 DEF Less
<1> HIDE DEF room
<1>4. stack_h \in Nat /\ stack_n * stack_h <= room
  BY <1>2, <1>3
<1>5. stack_h > 0 => stack_n * stack_h > 0
  BY <1>4
<1>6. stack_n * stack_h \in Nat
  BY <1>4
<1> QED  BY <1>1, <1>3, <1>4, <1>5, <1>6 DEF gaps, stack_h

\* Of two stack tiles, the lower one starts a tile and a gap below the other.
LEMMA StackSteps ==
  ASSUME NEW i \in Nat, NEW j \in Nat, i < j, NEW step \in Nat
  PROVE  /\ i * step \in Nat /\ j * step \in Nat
         /\ i * step + step <= j * step
<1>1. j = (i + 1) + (j - (i + 1)) /\ j - (i + 1) \in Nat
  OBVIOUS
<1>2. j * step = i * step + step + (j - (i + 1)) * step
  BY <1>1
<1> QED  BY <1>1, <1>2

\* A part of a length is no longer than the length.
LEMMA PartOf ==
  ASSUME NEW length \in Nat, NEW fraction \in 0 .. Parts
  PROVE  /\ (length * fraction) \div Parts \in Nat
         /\ (length * fraction) \div Parts <= length
<1> DEFINE product == length * fraction
           part == product \div Parts
<1>1. length * fraction \in Nat /\ length * fraction <= length * Parts
  <2>1. /\ fraction * length \in Nat /\ Parts * length \in Nat
        /\ fraction < Parts => fraction * length + length <= Parts * length
    BY PartsAssumption, StackSteps
  <2>2. length * fraction = fraction * length /\ length * Parts = Parts * length
    BY PartsAssumption
  <2>3. fraction = Parts \/ fraction < Parts
    BY PartsAssumption
  <2> QED  BY <2>1, <2>2, <2>3
<1>2. product \in Nat /\ product <= length * Parts
  BY <1>1
<1> HIDE DEF product
<1>3. part \in Nat /\ part * Parts <= product
  BY <1>2, PartsAssumption
<1> HIDE DEF part
<1>4. length < part => length * Parts + Parts <= part * Parts
  BY <1>3, PartsAssumption, StackSteps
<1>5. part * Parts \in Nat /\ length * Parts \in Nat
  BY <1>3, PartsAssumption
<1> QED  BY <1>2, <1>3, <1>4, <1>5, PartsAssumption DEF part, product

\* Of the multiples of a step, one is the last that is not above a distance.
LEMMA LastStepBelow ==
  ASSUME NEW m \in Nat, NEW step \in Nat, NEW d \in Nat, d < m * step
  PROVE  \E k \in Nat : k < m /\ k * step <= d /\ d < k * step + step
<1> DEFINE k == d \div step
<1>1. step > 0
  <2>1. step = 0 => m * step = 0
    OBVIOUS
  <2> QED  BY <2>1
<1>2. k \in Nat /\ k * step \in Nat /\ k * step <= d /\ d < k * step + step
  BY <1>1
<1> HIDE DEF k
<1>3. m * step \in Nat /\ (m < k => m * step + step <= k * step)
  BY <1>2, StackSteps
<1>4. k < m
  <2>1. m = k => m * step = k * step
    OBVIOUS
  <2> QED  BY <1>1, <1>2, <1>3, <2>1
<1> QED  BY <1>2, <1>4

\* The tiles of an area inside its gap: each that has a size lies in the area
\* and a gap apart from the others, and every point of the area is in a tile or
\* in the gap right of one or below one.
TilingFits(tiles, n, area, gap) ==
  /\ \A i \in 1 .. n : ~Empty(tiles[i]) => Within(tiles[i], area)
  /\ \A i, j \in 1 .. n : i < j /\ ~Empty(tiles[i]) /\ ~Empty(tiles[j])
                            => Apart(tiles[i], tiles[j], gap)
  /\ \A x \in Columns(area), y \in Rows(area) : \E i \in 1 .. n : Takes(tiles[i], gap, x, y)

\* compute_tiling does so for every number of windows and every area.
LEMMA TilingOfArea ==
  ASSUME NEW n \in Nat \ {0}, NEW area \in RectType, NEW gap \in Nat, NEW fraction \in Fractions
  PROVE  TilingFits(compute_tiling(n, area, area.y + area.height, gap, fraction), n, area, gap)
<1> DEFINE bottom == area.y + area.height
           master_w == (area.width * fraction) \div Parts
           stack_x == area.x + master_w + gap
           stack_w == Less(area.width - master_w, gap)
           stack_h == StackHeight(area.height, n - 1, gap)
           step == stack_h + gap
           StackY(i) == area.y + (i - 2) * step
           Height(i) == IF i < n THEN stack_h ELSE LastHeight(StackY(i), stack_h, bottom, gap)
           tiles == compute_tiling(n, area, bottom, gap, fraction)
<1>1. area.x \in Int /\ area.y \in Int /\ area.width \in Nat /\ area.height \in Nat
  BY DEF RectType
<1>2. CASE n = 1
  <2>1. tiles = <<area>>
    BY <1>2 DEF compute_tiling
  <2>2. tiles[1] = area
    BY <2>1
  <2> HIDE DEF tiles
  <2>3. Within(area, area)
    BY <1>1 DEF Within
  <2>4. ASSUME NEW x \in Columns(area), NEW y \in Rows(area)
        PROVE  Takes(area, gap, x, y)
    BY <1>1, <2>4 DEF Takes, Columns, Rows
  <2> QED  BY <1>2, <2>2, <2>3, <2>4 DEF TilingFits, tiles
<1>3. CASE n > 1
  <2>1. /\ tiles[1] = [area EXCEPT !.width = master_w]
        /\ \A i \in 2 .. n : tiles[i] = Rect(stack_x, StackY(i), stack_w, Height(i))
    BY <1>3 DEF compute_tiling
  <2>2. master_w \in Nat /\ master_w <= area.width
    BY <1>1, PartOf DEF Fractions
  <2>3. /\ stack_h \in Nat
        /\ stack_h > 0 => (n - 1) * stack_h + (n - 2) * gap <= area.height
    <3>1. n - 1 \in Nat \ {0} /\ (n - 1) - 1 = n - 2
      BY <1>3
    <3> QED  BY <1>1, <3>1, StackSum
  <2> HIDE DEF master_w, stack_h, tiles
  <2>4. step \in Nat /\ step >= gap /\ step >= stack_h
    BY <2>3
  <2>5. stack_x \in Int /\ stack_w \in Nat /\ stack_x = area.x + master_w + gap
        /\ (stack_w > 0 => stack_x + stack_w = area.x + area.width)
        /\ stack_x + stack_w >= area.x + area.width
    BY <1>1, <2>2 DEF Less
  <2> HIDE DEF stack_x, stack_w
  <2>6. ASSUME NEW i \in 2 .. n
        PROVE  /\ StackY(i) \in Int /\ StackY(i) >= area.y
               /\ Height(i) \in Nat
               /\ i < n => Height(i) = stack_h
               /\ i = n /\ Height(i) > 0 => StackY(i) + Height(i) = bottom - gap
               /\ i = n => StackY(i) + Height(i) + gap >= bottom
    <3>1. i - 2 \in Nat /\ (i - 2) * step \in Nat
      BY <2>4
    <3>2. StackY(i) \in Int /\ StackY(i) >= area.y
      BY <1>1, <3>1
    <3> HIDE DEF StackY
    <3> QED  BY <1>1, <2>3, <3>2 DEF LastHeight, Less
  <2>7. ASSUME NEW i \in 2 .. n, NEW j \in 2 .. n, i < j
        PROVE  StackY(i) + Height(i) + gap <= StackY(j)
    <3>1. i - 2 \in Nat /\ j - 2 \in Nat /\ i - 2 < j - 2 /\ i < n
      BY <2>7
    <3>2. (i - 2) * step \in Nat /\ (j - 2) * step \in Nat
          /\ (i - 2) * step + step <= (j - 2) * step
      BY <2>4, <3>1, StackSteps
    <3>3. Height(i) = stack_h
      BY <3>1
    <3> QED  BY <1>1, <2>3, <3>2, <3>3
  <2>8. ASSUME NEW i \in 2 .. n, Height(i) > 0
        PROVE  StackY(i) + Height(i) <= bottom
    <3>1. CASE i = n
      BY <1>1, <2>6, <2>8, <3>1
    <3>2. CASE i < n
      <4>1. Height(i) = stack_h /\ stack_h > 0
        BY <2>8, <3>2
      <4>2. (n - 1) * stack_h + (n - 2) * gap <= area.height
        BY <2>3, <4>1
      <4>3. /\ (i - 1) * stack_h \in Nat /\ (i - 2) * gap \in Nat
            /\ (i - 1) * stack_h <= (n - 1) * stack_h
            /\ (i - 2) * gap <= (n - 2) * gap
        <5>1. i - 1 \in Nat /\ n - 1 \in Nat /\ i - 1 < n - 1
              /\ i - 2 \in Nat /\ n - 2 \in Nat /\ i - 2 < n - 2
          BY <3>2
        <5>2. /\ (i - 1) * stack_h \in Nat /\ (n - 1) * stack_h \in Nat
              /\ (i - 1) * stack_h + stack_h <= (n - 1) * stack_h
          BY <2>3, <5>1, StackSteps
        <5>3. /\ (i - 2) * gap \in Nat /\ (n - 2) * gap \in Nat
              /\ (i - 2) * gap + gap <= (n - 2) * gap
          BY <5>1, StackSteps
        <5> QED  BY <2>3, <5>2, <5>3
      <4>4. (n - 1) * stack_h \in Nat /\ (n - 2) * gap \in Nat
        BY <1>3, <2>3
      <4>5. (i - 2) * step + stack_h = (i - 1) * stack_h + (i - 2) * gap
        BY <2>3
      <4>6. (i - 2) * step \in Nat
        BY <2>4
      <4> HIDE DEF step
      <4> QED  BY <1>1, <2>3, <4>1, <4>2, <4>3, <4>4, <4>5, <4>6
    <3> QED  BY <3>1, <3>2
  <2>9. ASSUME NEW y \in Int, area.y <= y, y < bottom
         PROVE  \E i \in 2 .. n : StackY(i) <= y /\ y < StackY(i) + Height(i) + gap
    <3>1. n \in 2 .. n /\ StackY(n) \in Int
      BY <1>3, <2>6
    <3>2. CASE StackY(n) <= y
      <4>1. StackY(n) + Height(n) + gap >= bottom /\ Height(n) \in Nat
        BY <2>6, <3>1
      <4> HIDE DEF StackY, Height
      <4>2. y < StackY(n) + Height(n) + gap
        BY <1>1, <2>9, <3>1, <4>1
      <4> QED  BY <3>1, <3>2, <4>2
    <3>3. CASE y < StackY(n)
      <4>1. n - 2 \in Nat /\ y - area.y \in Nat /\ y - area.y < (n - 2) * step
        BY <1>1, <1>3, <2>4, <2>9, <3>3
      <4>2. PICK k \in Nat : k < n - 2 /\ k * step <= y - area.y /\ y - area.y < k * step + step
        BY <2>4, <4>1, LastStepBelow
      <4>3. k + 2 \in 2 .. n /\ k + 2 < n /\ (k + 2) - 2 = k
        BY <1>3, <4>2
      <4>4. StackY(k + 2) = area.y + k * step /\ Height(k + 2) = stack_h
        BY <4>3
      <4>5. k * step \in Int
        BY <2>4
      <4> HIDE DEF StackY, Height
      <4>6. StackY(k + 2) <= y /\ y < StackY(k + 2) + Height(k + 2) + gap
        BY <1>1, <2>3, <2>9, <4>2, <4>4, <4>5
      <4> QED  BY <4>3, <4>6
    <3> QED  BY <2>9, <3>1, <3>2, <3>3
  <2> HIDE DEF StackY, Height, step
  <2>10. /\ tiles[1].x = area.x /\ tiles[1].y = area.y
        /\ tiles[1].width = master_w /\ tiles[1].height = area.height
    BY <2>1 DEF RectType
  <2>11. \A i \in 2 .. n : /\ tiles[i].x = stack_x /\ tiles[i].y = StackY(i)
                           /\ tiles[i].width = stack_w /\ tiles[i].height = Height(i)
    <3> TAKE i \in 2 .. n
    <3>1. tiles[i] = Rect(stack_x, StackY(i), stack_w, Height(i))
      BY <2>1
    <3> QED  BY <3>1 DEF Rect
  <2>12. ASSUME NEW i \in 1 .. n, ~Empty(tiles[i])
         PROVE  Within(tiles[i], area)
    <3>1. CASE i = 1
      BY <1>1, <2>2, <2>10, <3>1 DEF Within
    <3>2. CASE i \in 2 .. n
      <4>1. stack_w # 0 /\ Height(i) # 0
        BY <2>11, <2>12, <3>2 DEF Empty
      <4>2. stack_w > 0 /\ Height(i) > 0
        BY <2>5, <2>6, <3>2, <4>1
      <4> QED  BY <1>1, <2>2, <2>5, <2>6, <2>8, <2>11, <3>2, <4>2 DEF Within
    <3> QED  BY <3>1, <3>2
  <2>13. ASSUME NEW i \in 1 .. n, NEW j \in 1 .. n, i < j
         PROVE  Apart(tiles[i], tiles[j], gap)
    <3>1. j \in 2 .. n
      BY <2>13
    <3>2. CASE i = 1
      BY <1>1, <2>2, <2>5, <2>10, <2>11, <3>1, <3>2 DEF Apart
    <3>3. CASE i \in 2 .. n
      BY <2>7, <2>11, <2>13, <3>1, <3>3 DEF Apart
    <3> QED  BY <3>2, <3>3
  <2>14. ASSUME NEW x \in Columns(area), NEW y \in Rows(area)
         PROVE  \E i \in 1 .. n : Takes(tiles[i], gap, x, y)
    <3>1. /\ x \in Int /\ area.x <= x /\ x < area.x + area.width
          /\ y \in Int /\ area.y <= y /\ y < bottom
      BY <1>1 DEF Columns, Rows
    <3>2. CASE x < stack_x
      <4>1. Takes(tiles[1], gap, x, y)
        BY <1>1, <2>2, <2>5, <2>10, <3>1, <3>2 DEF Takes
      <4> QED  BY <4>1
    <3>3. CASE x >= stack_x
      <4>1. PICK i \in 2 .. n : StackY(i) <= y /\ y < StackY(i) + Height(i) + gap
        BY <2>9, <3>1
      <4>2. Takes(tiles[i], gap, x, y)
        <5>1. StackY(i) \in Int /\ Height(i) \in Nat
          BY <2>6
        <5>2. /\ tiles[i].x = stack_x /\ tiles[i].width = stack_w
              /\ tiles[i].y = StackY(i) /\ tiles[i].height = Height(i)
          BY <2>11
        <5> QED  BY <1>1, <2>5, <3>1, <3>3, <4>1, <5>1, <5>2 DEF Takes
      <4> QED  BY <4>2
    <3> QED  BY <2>5, <3>1, <3>2, <3>3
  <2>15. TilingFits(tiles, n, area, gap)
    <3>1. \A i \in 1 .. n : ~Empty(tiles[i]) => Within(tiles[i], area)
      BY <2>12
    <3>2. \A i, j \in 1 .. n : i < j /\ ~Empty(tiles[i]) /\ ~Empty(tiles[j])
                                 => Apart(tiles[i], tiles[j], gap)
      BY <2>13
    <3> QED  BY <2>14, <3>1, <3>2 DEF TilingFits
  <2> QED  BY <2>15 DEF tiles
<1> QED  BY <1>2, <1>3

-----------------------------------------------------------------------------
(***************************************************************************)
(* The closed form of normalize_outputs, in named parts.                   *)
(***************************************************************************)
Tagless(s) == {p \in OutputIdx(s) : OwnedTags(s, p) = {}}

\* The tag an output shows, the owner a tag has, and the output in focus, once
\* all outputs had their turn.
FinalTag(s, o) ==
  IF best_tag_for_output(s, o) # None THEN best_tag_for_output(s, o)
  ELSE IF GrantedTag(s, o) # {} THEN CHOOSE t \in GrantedTag(s, o) : TRUE
  ELSE s.outputs[o].active_tag

FinalOwner(s, t) ==
  IF \E o \in OutputIdx(s) : t \in GrantedTag(s, o)
  THEN CHOOSE o \in OutputIdx(s) : t \in GrantedTag(s, o)
  ELSE s.tags[t]

FinalFocus(s) == IF OutputIdx(s) = {} THEN None
                 ELSE IF s.focused_output \in OutputIdx(s) THEN s.focused_output ELSE 0

\* The state before every output's focus is seen to.
Regranted(s) ==
  [s EXCEPT !.focused_output = FinalFocus(s),
            !.tags = [t \in Tags |-> FinalOwner(s, t)],
            !.outputs = [o \in OutputIdx(s) |->
                           [s.outputs[o] EXCEPT !.active_tag = FinalTag(s, o)]]]

\* Two states that agree in every field are the same.
LEMMA SameState ==
  ASSUME NEW s, NEW r, IsState(s), IsState(r),
         r.outputs = s.outputs, r.windows = s.windows, r.tags = s.tags,
         r.focused_output = s.focused_output, r.resize_mode = s.resize_mode,
         r.pending_apply = s.pending_apply
  PROVE  r = s
BY DEF IsState

\* The outputs and the tags are finite sets of naturals.
LEMMA OutputsAndTags ==
  ASSUME NEW s, IsState(s)
  PROVE  /\ OutputIdx(s) \in SUBSET Nat /\ IsFiniteSet(OutputIdx(s))
         /\ Tags \in SUBSET Nat /\ IsFiniteSet(Tags)
         /\ Tagless(s) \in SUBSET Nat /\ IsFiniteSet(Tagless(s))
         /\ FreeTags(s) \in SUBSET Nat /\ IsFiniteSet(FreeTags(s))
<1>1. OutputIdx(s) = 0 .. (NumOutputs(s) - 1) /\ NumOutputs(s) \in Nat
  BY DEF IsState
<1>2. OutputIdx(s) \in SUBSET Nat /\ IsFiniteSet(OutputIdx(s))
  BY <1>1, FS_Interval
<1>3. Tags \in SUBSET Nat /\ IsFiniteSet(Tags)
  BY NumTagsAssumption, FS_Interval DEF Tags
<1>4. Tagless(s) \in SUBSET OutputIdx(s) /\ FreeTags(s) \in SUBSET Tags
  BY DEF Tagless, FreeTags
<1> QED  BY <1>2, <1>3, <1>4, FS_Subset

\* GrantedTag in terms of ranks.
LEMMA GrantedRank ==
  ASSUME NEW s, NEW o, NEW t
  PROVE  t \in GrantedTag(s, o) <=> /\ t \in FreeTags(s) /\ o \in Tagless(s)
                                    /\ Rank(FreeTags(s), t) = Rank(Tagless(s), o)
BY DEF GrantedTag, Tagless

\* No tag is granted twice, and no output is granted two.
LEMMA GrantedOnce ==
  ASSUME NEW s, IsState(s)
  PROVE  /\ \A o, p, t : t \in GrantedTag(s, o) /\ t \in GrantedTag(s, p) => o = p
         /\ \A o, t, u : t \in GrantedTag(s, o) /\ u \in GrantedTag(s, o) => t = u
         /\ \A o, t : t \in GrantedTag(s, o) =>
              t \in Tags /\ s.tags[t] = None /\ o \in OutputIdx(s) /\ OwnedTags(s, o) = {}
<1>1. ASSUME NEW S \in SUBSET Nat, IsFiniteSet(S), NEW x \in S, NEW y \in S,
             Rank(S, x) = Rank(S, y)
      PROVE  x = y
  <2>1. Rank(S, x) \in Int /\ Rank(S, y) \in Int
    BY <1>1, RankBelow
  <2>2. x <= y /\ y <= x
    BY <1>1, <2>1, RankOneToOne
  <2> QED  BY <2>2
<1>2. ASSUME NEW o, NEW p, NEW t, t \in GrantedTag(s, o), t \in GrantedTag(s, p)
      PROVE  o = p
  <2>1. /\ o \in Tagless(s) /\ p \in Tagless(s)
        /\ Rank(Tagless(s), o) = Rank(Tagless(s), p)
    BY <1>2, GrantedRank
  <2> QED  BY <1>1, <2>1, OutputsAndTags
<1>3. ASSUME NEW o, NEW t, NEW u, t \in GrantedTag(s, o), u \in GrantedTag(s, o)
      PROVE  t = u
  <2>1. /\ t \in FreeTags(s) /\ u \in FreeTags(s)
        /\ Rank(FreeTags(s), t) = Rank(FreeTags(s), u)
    BY <1>3, GrantedRank
  <2> QED  BY <1>1, <2>1, OutputsAndTags
<1>4. ASSUME NEW o, NEW t, t \in GrantedTag(s, o)
      PROVE  t \in Tags /\ s.tags[t] = None /\ o \in OutputIdx(s) /\ OwnedTags(s, o) = {}
  BY <1>4, GrantedRank DEF FreeTags, Tagless
<1> QED  BY <1>2, <1>3, <1>4

\* Owners after all turns: the output a tag was granted to, else as before.
LEMMA FinalOwners ==
  ASSUME NEW s, IsState(s), NEW t \in Tags
  PROVE  /\ \A o \in OutputIdx(s) : t \in GrantedTag(s, o) => FinalOwner(s, t) = o
         /\ (\A o \in OutputIdx(s) : t \notin GrantedTag(s, o)) => FinalOwner(s, t) = s.tags[t]
         /\ FinalOwner(s, t) \in Nat \cup {None}
<1>1. ASSUME NEW o \in OutputIdx(s), t \in GrantedTag(s, o)
      PROVE  FinalOwner(s, t) = o
  <2> DEFINE p == CHOOSE q \in OutputIdx(s) : t \in GrantedTag(s, q)
  <2>1. p \in OutputIdx(s) /\ t \in GrantedTag(s, p)
    BY <1>1
  <2>2. FinalOwner(s, t) = p
    BY <1>1 DEF FinalOwner
  <2> HIDE DEF p
  <2> QED  BY <1>1, <2>1, <2>2, GrantedOnce
<1>2. ASSUME \A o \in OutputIdx(s) : t \notin GrantedTag(s, o)
      PROVE  FinalOwner(s, t) = s.tags[t]
  BY <1>2 DEF FinalOwner
<1>3. s.tags[t] \in Nat \cup {None}
  BY DEF IsState
<1>4. OutputIdx(s) \in SUBSET Nat
  BY OutputsAndTags
<1> QED  BY <1>1, <1>2, <1>3, <1>4

\* The tag an output shows in the end is a tag: its best one, a granted one, or
\* the one it had.
LEMMA FinalTags ==
  ASSUME NEW s, IsState(s), NEW o \in OutputIdx(s)
  PROVE  /\ FinalTag(s, o) \in Tags
         /\ OwnedTags(s, o) # {} => FinalTag(s, o) = best_tag_for_output(s, o)
         /\ \A t \in GrantedTag(s, o) : FinalTag(s, o) = t
         /\ OwnedTags(s, o) = {} /\ GrantedTag(s, o) = {}
              => FinalTag(s, o) = s.outputs[o].active_tag
<1>1. s.outputs[o].active_tag \in Tags
  BY DEF IsState, OutputType
<1>2. OwnedTags(s, o) \subseteq Tags /\ None \notin OwnedTags(s, o)
  BY NoneAssumption, NumTagsAssumption DEF OwnedTags, Tags
<1>3. IF OwnedTags(s, o) = {} THEN best_tag_for_output(s, o) = None
      ELSE best_tag_for_output(s, o) \in OwnedTags(s, o)
  BY BestTagOwned
<1>4. CASE OwnedTags(s, o) # {}
  <2>1. best_tag_for_output(s, o) \in Tags /\ best_tag_for_output(s, o) # None
    BY <1>2, <1>3, <1>4
  <2>2. FinalTag(s, o) = best_tag_for_output(s, o)
    BY <2>1 DEF FinalTag
  <2>3. GrantedTag(s, o) = {}
    BY <1>4, GrantedOnce
  <2> QED  BY <1>4, <2>1, <2>2, <2>3
<1>5. CASE OwnedTags(s, o) = {}
  <2>1. FinalTag(s, o) = IF GrantedTag(s, o) # {} THEN CHOOSE t \in GrantedTag(s, o) : TRUE
                         ELSE s.outputs[o].active_tag
    BY <1>3, <1>5 DEF FinalTag
  <2>2. \A t \in GrantedTag(s, o) : FinalTag(s, o) = t /\ t \in Tags
    <3> SUFFICES ASSUME NEW t \in GrantedTag(s, o)
                 PROVE  FinalTag(s, o) = t /\ t \in Tags
      OBVIOUS
    <3>1. FinalTag(s, o) \in GrantedTag(s, o)
      BY <2>1
    <3> QED  BY <3>1, GrantedOnce
  <2>3. GrantedTag(s, o) = {} => FinalTag(s, o) = s.outputs[o].active_tag
    BY <2>1
  <2> QED  BY <1>1, <1>5, <2>2, <2>3
<1> QED  BY <1>4, <1>5

\* Regranting changes owners, shown tags and the output in focus.
LEMMA RegrantedState ==
  ASSUME NEW s, IsState(s)
  PROVE  LET r == Regranted(s)
         IN  /\ IsState(r)
             /\ OutputIdx(r) = OutputIdx(s) /\ r.windows = s.windows
             /\ r.tags = [t \in Tags |-> FinalOwner(s, t)]
             /\ r.focused_output = FinalFocus(s)
             /\ r.resize_mode = s.resize_mode /\ r.pending_apply = s.pending_apply
             /\ \A o \in OutputIdx(s) :
                  /\ r.outputs[o] = [s.outputs[o] EXCEPT !.active_tag = FinalTag(s, o)]
                  /\ r.outputs[o].active_tag = FinalTag(s, o)
                  /\ r.outputs[o].focused_window = s.outputs[o].focused_window
<1> DEFINE outs == [o \in OutputIdx(s) |-> [s.outputs[o] EXCEPT !.active_tag = FinalTag(s, o)]]
           owners == [t \in Tags |-> FinalOwner(s, t)]
           focus == FinalFocus(s)
           r == [s EXCEPT !.focused_output = focus, !.tags = owners, !.outputs = outs]
<1>1. ASSUME NEW o \in OutputIdx(s)
      PROVE  /\ outs[o] \in OutputType
             /\ outs[o].active_tag = FinalTag(s, o)
             /\ outs[o].focused_window = s.outputs[o].focused_window
  <2>1. s.outputs[o] \in OutputType /\ FinalTag(s, o) \in Tags
    BY FinalTags DEF IsState
  <2> QED  BY <2>1 DEF OutputType
<1>2. outs \in [OutputIdx(s) -> OutputType]
  BY <1>1
<1>3. owners \in [Tags -> Nat \cup {None}]
  BY FinalOwners
<1>4. focus \in Nat \cup {None}
  BY OutputsAndTags DEF FinalFocus
<1>5. \A o \in OutputIdx(s) : outs[o] = [s.outputs[o] EXCEPT !.active_tag = FinalTag(s, o)]
  OBVIOUS
<1>6. Regranted(s) = r
  BY DEF Regranted
<1> HIDE DEF outs, owners, focus
<1>7. /\ r.outputs = outs /\ r.tags = owners /\ r.focused_output = focus
      /\ r.windows = s.windows /\ r.resize_mode = s.resize_mode
      /\ r.pending_apply = s.pending_apply
      /\ r \in [outputs : {outs}, windows : {s.windows},
                tags : [Tags -> Nat \cup {None}], focused_output : Nat \cup {None},
                resize_mode : BOOLEAN, pending_apply : BOOLEAN]
  BY <1>3, <1>4 DEF IsState
<1> HIDE DEF r
<1>8. IsState(r) /\ OutputIdx(r) = OutputIdx(s)
  BY <1>2, <1>7 DEF IsState, OutputIdx, WindowIds, NumOutputs
<1> QED  BY <1>1, <1>5, <1>6, <1>7, <1>8 DEF owners, focus

\* An output once all had their turn.
FinalOutput(s, o) ==
  [s.outputs[o] EXCEPT !.active_tag = FinalTag(s, o),
                       !.focused_window = RefocusedWindow(Regranted(s), o)]

\* The closed form, field by field.
LEMMA NormalForm ==
  ASSUME NEW s, IsState(s)
  PROVE  LET r == normalize_outputs(s)
         IN  /\ IsState(r)
             /\ r.windows = s.windows
             /\ OutputIdx(s) # {} => r.tags = [t \in Tags |-> FinalOwner(s, t)]
             /\ OutputIdx(s) = {} => r.tags = s.tags
             /\ r.focused_output = FinalFocus(s)
             /\ r.resize_mode = s.resize_mode /\ r.pending_apply = s.pending_apply
             /\ OutputIdx(r) = OutputIdx(s)
             /\ \A o \in OutputIdx(s) : r.outputs[o] = FinalOutput(s, o)
             /\ OutputIdx(s) = {} => r.outputs = s.outputs
<1>1. CASE OutputIdx(s) = {}
  <2> DEFINE r == [s EXCEPT !.focused_output = None]
  <2>1. normalize_outputs(s) = r
    BY <1>1 DEF normalize_outputs
  <2>2. /\ IsState(r) /\ OutputIdx(r) = OutputIdx(s)
        /\ r.focused_output = None /\ r.tags = s.tags
        /\ r.windows = s.windows /\ r.outputs = s.outputs
        /\ r.resize_mode = s.resize_mode /\ r.pending_apply = s.pending_apply
    BY DEF IsState, OutputIdx, WindowIds, NumOutputs
  <2> HIDE DEF r
  <2> QED  BY <1>1, <2>1, <2>2 DEF FinalFocus
<1>2. CASE OutputIdx(s) # {}
  <2> DEFINE mid == Regranted(s)
             shows == [o \in OutputIdx(s) |->
                         IF best_tag_for_output(s, o) # None THEN best_tag_for_output(s, o)
                         ELSE IF GrantedTag(s, o) # {} THEN CHOOSE t \in GrantedTag(s, o) : TRUE
                         ELSE s.outputs[o].active_tag]
             owner == [t \in Tags |->
                         IF \E o \in OutputIdx(s) : t \in GrantedTag(s, o)
                         THEN CHOOSE o \in OutputIdx(s) : t \in GrantedTag(s, o)
                         ELSE s.tags[t]]
             outs == [o \in OutputIdx(s) |-> [s.outputs[o] EXCEPT !.active_tag = shows[o]]]
             focus == IF s.focused_output \in OutputIdx(s) THEN s.focused_output ELSE 0
  <2>1. normalize_outputs(s)
          = RefocusAll([s EXCEPT !.focused_output = focus, !.tags = owner, !.outputs = outs])
    BY <1>2 DEF normalize_outputs
  <2>2. \A o \in OutputIdx(s) : shows[o] = FinalTag(s, o)
    BY DEF FinalTag
  <2>3. owner = [t \in Tags |-> FinalOwner(s, t)]
    BY DEF FinalOwner
  <2>4. focus = FinalFocus(s)
    BY <1>2 DEF FinalFocus
  <2> HIDE DEF shows
  <2>5. outs = [o \in OutputIdx(s) |-> [s.outputs[o] EXCEPT !.active_tag = FinalTag(s, o)]]
    BY <2>2
  <2> HIDE DEF owner, focus, outs
  <2>6. normalize_outputs(s) = RefocusAll(mid)
    BY <2>1, <2>3, <2>4, <2>5 DEF Regranted
  <2> DEFINE r == RefocusAll(mid)
  <2>7. /\ IsState(mid) /\ OutputIdx(mid) = OutputIdx(s) /\ mid.windows = s.windows
        /\ mid.tags = [t \in Tags |-> FinalOwner(s, t)] /\ mid.focused_output = FinalFocus(s)
        /\ mid.resize_mode = s.resize_mode /\ mid.pending_apply = s.pending_apply
        /\ \A o \in OutputIdx(s) :
              mid.outputs[o] = [s.outputs[o] EXCEPT !.active_tag = FinalTag(s, o)]
    BY RegrantedState
  <2> HIDE DEF mid
  <2>8. /\ IsState(r) /\ OutputIdx(r) = OutputIdx(mid) /\ r.windows = mid.windows
        /\ r.tags = mid.tags /\ r.focused_output = mid.focused_output
        /\ r.resize_mode = mid.resize_mode
    BY <2>7, RefocusEvery DEF SameTags
  <2>9. /\ r.pending_apply = mid.pending_apply
        /\ \A o \in OutputIdx(mid) :
              r.outputs[o] = [mid.outputs[o] EXCEPT !.focused_window = RefocusedWindow(mid, o)]
    BY <2>7 DEF RefocusAll, IsState
  <2> HIDE DEF r
  <2>10. ASSUME NEW o \in OutputIdx(s)
         PROVE  r.outputs[o] = FinalOutput(s, o)
    <3>1. s.outputs[o] \in OutputType
      BY DEF IsState
    <3>2. r.outputs[o] = [[s.outputs[o] EXCEPT !.active_tag = FinalTag(s, o)]
                            EXCEPT !.focused_window = RefocusedWindow(mid, o)]
      BY <2>7, <2>9
    <3> QED  BY <3>1, <3>2 DEF FinalOutput, OutputType, mid
  <2> QED  BY <1>2, <2>6, <2>7, <2>8, <2>9, <2>10 DEF r
<1> QED  BY <1>1, <1>2

\* An output owns in the end what it owned and what it was granted, and a tag
\* is free if it was and nobody was granted it.
LEMMA OwnersRepaired ==
  ASSUME NEW s, IsState(s), OutputIdx(s) # {}, NEW t \in Tags
  PROVE  LET owner == normalize_outputs(s).tags[t]
         IN  /\ \A o \in OutputIdx(s) : owner = o <=> s.tags[t] = o \/ t \in GrantedTag(s, o)
             /\ owner = None <=> s.tags[t] = None /\ \A o \in OutputIdx(s) : t \notin GrantedTag(s, o)
             /\ owner = s.tags[t] \/ owner \in OutputIdx(s)
<1> DEFINE owner == normalize_outputs(s).tags[t]
<1>1. owner = FinalOwner(s, t)
  BY NormalForm
<1>2. None \notin OutputIdx(s)
  BY OutputsAndTags, NoneAssumption
<1> HIDE DEF owner
<1>3. CASE \E p \in OutputIdx(s) : t \in GrantedTag(s, p)
  <2>1. PICK p \in OutputIdx(s) : t \in GrantedTag(s, p)
    BY <1>3
  <2>2. owner = p /\ s.tags[t] = None /\ \A o : t \in GrantedTag(s, o) => o = p
    BY <1>1, <2>1, FinalOwners, GrantedOnce
  <2> QED  BY <1>2, <2>1, <2>2 DEF owner
<1>4. CASE \A p \in OutputIdx(s) : t \notin GrantedTag(s, p)
  <2>1. owner = s.tags[t]
    BY <1>1, <1>4, FinalOwners
  <2> QED  BY <1>4, <2>1 DEF owner
<1> QED  BY <1>3, <1>4

\* No tag stays free that a tagless output could have been granted.
LEMMA NoTagLeft ==
  ASSUME NEW s, IsState(s), NEW o \in Tagless(s), NEW t \in FreeTags(s),
         GrantedTag(s, o) = {}
  PROVE  \E p \in OutputIdx(s) : t \in GrantedTag(s, p)
<1> DEFINE free == FreeTags(s)
           tagless == Tagless(s)
           k == Rank(free, t)
           m == Rank(tagless, o)
<1>1. /\ free \in SUBSET Nat /\ IsFiniteSet(free)
      /\ tagless \in SUBSET Nat /\ IsFiniteSet(tagless)
  BY OutputsAndTags
<1>2. Cardinality(free) \in Nat /\ Cardinality(tagless) \in Nat
  BY <1>1, FS_CardinalityType
<1> HIDE DEF free, tagless
<1>3. k \in 0 .. Cardinality(free) - 1 /\ m \in 0 .. Cardinality(tagless) - 1
  <2>1. t \in free /\ o \in tagless
    BY DEF free, tagless
  <2> QED  BY <1>1, <2>1, RankBelow
<1> HIDE DEF k, m
<1>4. CASE k <= m
  <2>1. k \in 0 .. Cardinality(tagless) - 1
    BY <1>2, <1>3, <1>4
  <2>2. PICK p \in tagless : Rank(tagless, p) = k
    BY <1>1, <2>1, RankOnto
  <2>3. t \in GrantedTag(s, p)
    BY <2>2, GrantedRank DEF free, tagless, k
  <2> QED  BY <2>2, <2>3 DEF tagless, Tagless
<1>5. CASE m < k
  <2>1. m \in 0 .. Cardinality(free) - 1
    BY <1>2, <1>3, <1>5
  <2>2. PICK u \in free : Rank(free, u) = m
    BY <1>1, <2>1, RankOnto
  <2>3. u \in GrantedTag(s, o)
    BY <2>2, GrantedRank DEF free, tagless, m
  <2> QED  BY <2>3
<1> QED  BY <1>2, <1>3, <1>4, <1>5

\* The closed form repairs every table without dangling owners.
LEMMA NormalizeRepairs ==
  ASSUME NEW s, IsState(s), OwnersAreOutputs(s)
  PROVE  TagTable(normalize_outputs(s))
<1> DEFINE r == normalize_outputs(s)
<1>1. /\ IsState(r) /\ OutputIdx(r) = OutputIdx(s)
      /\ r.focused_output = FinalFocus(s)
      /\ \A o \in OutputIdx(s) : r.outputs[o] = FinalOutput(s, o)
      /\ OutputIdx(s) = {} => r.tags = s.tags
  BY NormalForm
<1>2. OutputIdx(s) # {} =>
        \A t \in Tags :
          /\ \A o \in OutputIdx(s) : r.tags[t] = o <=> s.tags[t] = o \/ t \in GrantedTag(s, o)
          /\ r.tags[t] = None <=> s.tags[t] = None /\ \A o \in OutputIdx(s) : t \notin GrantedTag(s, o)
          /\ r.tags[t] = s.tags[t] \/ r.tags[t] \in OutputIdx(s)
  BY OwnersRepaired
<1>3. \A o \in OutputIdx(s) : r.outputs[o].active_tag = FinalTag(s, o)
  <2> SUFFICES ASSUME NEW o \in OutputIdx(s)
               PROVE  r.outputs[o].active_tag = FinalTag(s, o)
    OBVIOUS
  <2>1. s.outputs[o] \in OutputType
    BY DEF IsState
  <2>2. FinalOutput(s, o).active_tag = FinalTag(s, o)
    BY <2>1 DEF FinalOutput, OutputType
  <2> QED  BY <1>1, <2>2
<1> HIDE DEF r
<1>4. OwnersAreOutputs(r)
  BY <1>1, <1>2 DEF OwnersAreOutputs
<1>5. FocusIsAnOutput(r)
  <2>1. OutputIdx(s) # {} => 0 \in OutputIdx(s)
    BY DEF IsState
  <2> QED  BY <1>1, <2>1 DEF FocusIsAnOutput, FinalFocus
<1>6. ASSUME NEW o \in OutputIdx(s), OwnedTags(r, o) # {}
      PROVE  r.outputs[o].active_tag \in OwnedTags(r, o)
  <2>1. \A t \in Tags : t \in OwnedTags(r, o) <=> t \in OwnedTags(s, o) \/ t \in GrantedTag(s, o)
    BY <1>2 DEF OwnedTags
  <2>2. CASE OwnedTags(s, o) # {}
    <3>1. best_tag_for_output(s, o) \in OwnedTags(s, o)
      BY <2>2, BestTagOwned
    <3>2. FinalTag(s, o) \in OwnedTags(s, o) /\ FinalTag(s, o) \in Tags
      BY <2>2, <3>1, FinalTags
    <3> QED  BY <1>3, <2>1, <3>2
  <2>3. CASE OwnedTags(s, o) = {}
    <3>1. PICK t \in Tags : t \in OwnedTags(r, o)
      BY <1>6 DEF OwnedTags
    <3>2. t \in GrantedTag(s, o)
      BY <2>1, <2>3, <3>1
    <3>3. FinalTag(s, o) = t
      BY <3>2, FinalTags
    <3> QED  BY <1>3, <3>1, <3>3
  <2> QED  BY <2>2, <2>3
<1>7. ASSUME NEW o \in OutputIdx(s), OwnedTags(r, o) = {}, NEW t \in FreeTags(r)
      PROVE  FALSE
  <2>1. o \in Tagless(s) /\ GrantedTag(s, o) = {}
    <3>1. \A u \in Tags : s.tags[u] # o /\ u \notin GrantedTag(s, o)
      BY <1>2, <1>7 DEF OwnedTags
    <3> QED  BY <3>1, GrantedOnce DEF Tagless, OwnedTags
  <2>2. t \in FreeTags(s) /\ \A p \in OutputIdx(s) : t \notin GrantedTag(s, p)
    BY <1>2 DEF FreeTags
  <2> QED  BY <2>1, <2>2, NoTagLeft
<1>8. TagTable(r)
  BY <1>1, <1>4, <1>5, <1>6, <1>7 DEF TagTable, ShownTagIsOwned, TaglessOnlyWhenExhausted
<1> QED  BY <1>8 DEF r

-----------------------------------------------------------------------------
(***************************************************************************)
(* The loop.                                                               *)
(***************************************************************************)
\* The tag t has been granted to an output below n.
GrantedBelow(s, n, t) == \E o \in OutputIdx(s) : o < n /\ t \in GrantedTag(s, o)

\* The state when the outputs below n had their turn.
DealtBelow(s, n) ==
  [s EXCEPT !.focused_output = FinalFocus(s),
            !.tags = [t \in Tags |-> IF GrantedBelow(s, n, t) THEN FinalOwner(s, t) ELSE s.tags[t]],
            !.outputs = [o \in OutputIdx(s) |-> IF o < n THEN FinalOutput(s, o) ELSE s.outputs[o]]]

\* Half dealt, the state is well typed and has its windows.
LEMMA DealtState ==
  ASSUME NEW s, IsState(s), NEW n \in Nat
  PROVE  LET r == DealtBelow(s, n)
         IN  /\ IsState(r)
             /\ OutputIdx(r) = OutputIdx(s) /\ r.windows = s.windows
             /\ r.focused_output = FinalFocus(s)
             /\ r.resize_mode = s.resize_mode /\ r.pending_apply = s.pending_apply
             /\ \A t \in Tags : r.tags[t] = IF GrantedBelow(s, n, t) THEN FinalOwner(s, t)
                                            ELSE s.tags[t]
             /\ \A o \in OutputIdx(s) : r.outputs[o] = IF o < n THEN FinalOutput(s, o)
                                                       ELSE s.outputs[o]
<1> DEFINE owners == [t \in Tags |-> IF GrantedBelow(s, n, t) THEN FinalOwner(s, t) ELSE s.tags[t]]
           outs == [o \in OutputIdx(s) |-> IF o < n THEN FinalOutput(s, o) ELSE s.outputs[o]]
           focus == FinalFocus(s)
           r == [s EXCEPT !.focused_output = focus, !.tags = owners, !.outputs = outs]
<1>1. ASSUME NEW o \in OutputIdx(s)
      PROVE  outs[o] \in OutputType
  <2> DEFINE f == normalize_outputs(s)
  <2>1. IsState(f) /\ OutputIdx(f) = OutputIdx(s) /\ f.outputs[o] = FinalOutput(s, o)
    BY NormalForm
  <2> HIDE DEF f
  <2>2. f.outputs[o] \in OutputType /\ s.outputs[o] \in OutputType
    BY <2>1 DEF IsState
  <2> QED  BY <2>1, <2>2
<1>2. outs \in [OutputIdx(s) -> OutputType]
  BY <1>1
<1>3. owners \in [Tags -> Nat \cup {None}]
  BY FinalOwners DEF IsState
<1>4. focus \in Nat \cup {None}
  BY OutputsAndTags DEF FinalFocus
<1>5. /\ \A o \in OutputIdx(s) : outs[o] = IF o < n THEN FinalOutput(s, o) ELSE s.outputs[o]
      /\ \A t \in Tags : owners[t] = IF GrantedBelow(s, n, t) THEN FinalOwner(s, t) ELSE s.tags[t]
  OBVIOUS
<1>6. DealtBelow(s, n) = r
  BY DEF DealtBelow
<1> HIDE DEF outs, owners, focus
<1>7. /\ r.outputs = outs /\ r.tags = owners /\ r.focused_output = focus
      /\ r.windows = s.windows /\ r.resize_mode = s.resize_mode
      /\ r.pending_apply = s.pending_apply
      /\ r \in [outputs : {outs}, windows : {s.windows},
                tags : [Tags -> Nat \cup {None}], focused_output : Nat \cup {None},
                resize_mode : BOOLEAN, pending_apply : BOOLEAN]
  BY <1>3, <1>4 DEF IsState
<1> HIDE DEF r
<1>8. IsState(r) /\ OutputIdx(r) = OutputIdx(s)
  BY <1>2, <1>7 DEF IsState, OutputIdx, WindowIds, NumOutputs
<1> QED  BY <1>5, <1>6, <1>7, <1>8 DEF focus

\* Before the first turn nothing is dealt.
LEMMA NothingDealt ==
  ASSUME NEW s, IsState(s)
  PROVE  [s EXCEPT !.focused_output = FinalFocus(s)] = DealtBelow(s, 0)
<1> DEFINE r == [s EXCEPT !.focused_output = FinalFocus(s)]
           d == DealtBelow(s, 0)
<1>1. FinalFocus(s) \in Nat \cup {None}
  BY OutputsAndTags DEF FinalFocus
<1>2. /\ IsState(r) /\ r.outputs = s.outputs /\ r.windows = s.windows /\ r.tags = s.tags
      /\ r.focused_output = FinalFocus(s) /\ r.resize_mode = s.resize_mode
      /\ r.pending_apply = s.pending_apply
  BY <1>1 DEF IsState, OutputIdx, WindowIds, NumOutputs
<1>3. \A o \in OutputIdx(s) : ~(o < 0)
  BY OutputsAndTags
<1>4. \A t : ~GrantedBelow(s, 0, t)
  BY <1>3 DEF GrantedBelow
<1>5. /\ IsState(d) /\ OutputIdx(d) = OutputIdx(s) /\ d.windows = s.windows
      /\ d.focused_output = FinalFocus(s)
      /\ d.resize_mode = s.resize_mode /\ d.pending_apply = s.pending_apply
      /\ \A t \in Tags : d.tags[t] = s.tags[t]
      /\ \A o \in OutputIdx(s) : d.outputs[o] = s.outputs[o]
  BY <1>3, <1>4, DealtState
<1> HIDE DEF r, d
<1>6. d.tags = s.tags /\ d.outputs = s.outputs
  BY <1>5 DEF IsState, OutputIdx
<1>7. r = d
  BY <1>2, <1>5, <1>6, SameState
<1> QED  BY <1>7 DEF r, d

\* After the last turn the state is the closed form's.
LEMMA AllDealt ==
  ASSUME NEW s, IsState(s), NEW n \in Nat, \A o \in OutputIdx(s) : o < n
  PROVE  DealtBelow(s, n) = normalize_outputs(s)
<1> DEFINE r == normalize_outputs(s)
           d == DealtBelow(s, n)
<1>1. /\ IsState(r) /\ r.windows = s.windows
      /\ OutputIdx(s) # {} => r.tags = [t \in Tags |-> FinalOwner(s, t)]
      /\ OutputIdx(s) = {} => r.tags = s.tags
      /\ r.focused_output = FinalFocus(s)
      /\ r.resize_mode = s.resize_mode /\ r.pending_apply = s.pending_apply
      /\ OutputIdx(r) = OutputIdx(s)
      /\ \A o \in OutputIdx(s) : r.outputs[o] = FinalOutput(s, o)
  BY NormalForm
<1>2. /\ IsState(d) /\ OutputIdx(d) = OutputIdx(s) /\ d.windows = s.windows
      /\ d.focused_output = FinalFocus(s)
      /\ d.resize_mode = s.resize_mode /\ d.pending_apply = s.pending_apply
      /\ \A t \in Tags : d.tags[t] = IF GrantedBelow(s, n, t) THEN FinalOwner(s, t) ELSE s.tags[t]
      /\ \A o \in OutputIdx(s) : d.outputs[o] = FinalOutput(s, o)
  BY DealtState
<1>3. ASSUME NEW t \in Tags
      PROVE  d.tags[t] = r.tags[t]
  <2>1. CASE GrantedBelow(s, n, t)
    BY <1>1, <1>2, <2>1 DEF GrantedBelow
  <2>2. CASE ~GrantedBelow(s, n, t)
    <3>1. FinalOwner(s, t) = s.tags[t]
      BY <2>2, FinalOwners DEF GrantedBelow
    <3> QED  BY <1>1, <1>2, <2>2, <3>1
  <2> QED  BY <2>1, <2>2
<1> HIDE DEF r, d
<1>4. d.tags = r.tags /\ d.outputs = r.outputs
  <2>1. d.tags \in [Tags -> Nat \cup {None}] /\ r.tags \in [Tags -> Nat \cup {None}]
    BY <1>1, <1>2 DEF IsState
  <2>2. d.tags = r.tags
    BY <1>3, <2>1
  <2>3. d.outputs \in [OutputIdx(s) -> OutputType] /\ r.outputs \in [OutputIdx(s) -> OutputType]
    BY <1>1, <1>2 DEF IsState
  <2>4. d.outputs = r.outputs
    BY <1>1, <1>2, <2>3
  <2> QED  BY <2>2, <2>4
<1>5. d = r
  BY <1>1, <1>2, <1>4, SameState
<1> QED  BY <1>5 DEF r, d

\* Where an output's focus goes depends on its own tags and the windows only.
LEMMA RefocusSame ==
  ASSUME NEW s, NEW r, IsState(s), IsState(r), NEW o, r.windows = s.windows,
         r.outputs[o].active_tag = s.outputs[o].active_tag,
         r.outputs[o].focused_window = s.outputs[o].focused_window,
         \A t \in Tags : r.tags[t] = o <=> s.tags[t] = o
  PROVE  RefocusedWindow(r, o) = RefocusedWindow(s, o)
<1>1. \A w \in WindowIds(s) : s.windows[w].tag \in Tags
  BY DEF IsState, WindowType
<1>2. WindowIds(r) = WindowIds(s)
  BY DEF WindowIds
<1>3. \A w \in WindowIds(s) :
        tag_owner(r, r.windows[w].tag) = o <=> tag_owner(s, s.windows[w].tag) = o
  BY <1>1 DEF tag_owner
<1>4. ShownWindows(r, o) = ShownWindows(s, o)
  BY <1>2, <1>3 DEF ShownWindows
<1> QED  BY <1>4 DEF RefocusedWindow

\* When a tagless output has its turn, the tags still free are those whose
\* rank is not below the output's own rank among the tagless ones.
LEMMA StillFree ==
  ASSUME NEW s, IsState(s), NEW o \in OutputIdx(s), OwnedTags(s, o) = {}, NEW t
  PROVE  t \in FreeTags(DealtBelow(s, o))
           <=> t \in FreeTags(s) /\ Rank(FreeTags(s), t) >= Rank(Tagless(s), o)
<1> DEFINE d == DealtBelow(s, o)
           free == FreeTags(s)
           tagless == Tagless(s)
<1>1. /\ o \in Nat /\ OutputIdx(s) \in SUBSET Nat
      /\ tagless \in SUBSET Nat /\ IsFiniteSet(tagless) /\ o \in tagless
      /\ free \in SUBSET Nat /\ IsFiniteSet(free) /\ free \in SUBSET Tags
  BY OutputsAndTags DEF Tagless, FreeTags
<1>2. \A u \in Tags : d.tags[u] = IF GrantedBelow(s, o, u) THEN FinalOwner(s, u) ELSE s.tags[u]
  BY <1>1, DealtState
<1> HIDE DEF d
<1>3. t \in FreeTags(d) <=> t \in free /\ ~GrantedBelow(s, o, t)
  <2>1. CASE t \in Tags /\ GrantedBelow(s, o, t)
    <3>1. FinalOwner(s, t) \in OutputIdx(s)
      BY <2>1, FinalOwners DEF GrantedBelow
    <3> QED  BY <1>1, <1>2, <2>1, <3>1, NoneAssumption DEF FreeTags
  <2>2. CASE t \in Tags /\ ~GrantedBelow(s, o, t)
    BY <1>2, <2>2 DEF FreeTags
  <2>3. CASE t \notin Tags
    BY <2>3 DEF FreeTags
  <2> QED  BY <2>1, <2>2, <2>3
<1>4. ASSUME t \in free, GrantedBelow(s, o, t)
      PROVE  Rank(free, t) < Rank(tagless, o)
  <2>1. PICK p \in OutputIdx(s) : p < o /\ t \in GrantedTag(s, p)
    BY <1>4 DEF GrantedBelow
  <2>2. p \in tagless /\ Rank(free, t) = Rank(tagless, p)
    BY <2>1, GrantedRank
  <2> HIDE DEF free, tagless
  <2>3. Rank(tagless, p) < Rank(tagless, o)
    BY <1>1, <2>1, <2>2, RankMonotone
  <2> QED  BY <2>2, <2>3
<1>5. ASSUME t \in free, Rank(free, t) < Rank(tagless, o)
      PROVE  GrantedBelow(s, o, t)
  <2>1. Rank(free, t) \in Nat /\ Rank(tagless, o) \in 0 .. Cardinality(tagless) - 1
    BY <1>1, <1>5, RankBelow
  <2>2. Rank(free, t) \in 0 .. Cardinality(tagless) - 1
    <3>1. Cardinality(tagless) \in Nat
      BY <1>1, FS_CardinalityType
    <3> HIDE DEF free, tagless
    <3> QED  BY <1>5, <2>1, <3>1
  <2>3. PICK p \in tagless : Rank(tagless, p) = Rank(free, t)
    BY <1>1, <2>2, RankOnto
  <2>4. t \in GrantedTag(s, p)
    BY <1>5, <2>3, GrantedRank
  <2>5. p < o
    <3> HIDE DEF free, tagless
    <3>1. ~(Rank(tagless, o) <= Rank(tagless, p))
      BY <1>5, <2>1, <2>3
    <3>2. p \in Nat /\ (p < o \/ p = o \/ o < p)
      BY <1>1
    <3>3. o < p => Rank(tagless, o) < Rank(tagless, p)
      BY <1>1, RankMonotone
    <3> QED  BY <2>1, <2>3, <3>1, <3>2, <3>3
  <2> QED  BY <2>4, <2>5 DEF GrantedBelow, Tagless
<1>6. t \in free => Rank(free, t) \in Int
  BY <1>1, RankBelow
<1>7. Rank(tagless, o) \in Int
  BY <1>1, RankBelow
<1> HIDE DEF free, tagless
<1>8. t \in FreeTags(d) <=> t \in free /\ Rank(free, t) >= Rank(tagless, o)
  BY <1>3, <1>4, <1>5, <1>6, <1>7
<1> QED  BY <1>8 DEF d, free, tagless

\* The first tag still free is the one the closed form grants.
LEMMA FirstFree ==
  ASSUME NEW s, IsState(s), NEW o \in OutputIdx(s), OwnedTags(s, o) = {}
  PROVE  LET left == FreeTags(DealtBelow(s, o))
         IN  IF left = {} THEN GrantedTag(s, o) = {} ELSE Min(left) \in GrantedTag(s, o)
<1> DEFINE left == FreeTags(DealtBelow(s, o))
           free == FreeTags(s)
           k == Rank(Tagless(s), o)
<1>1. /\ o \in Tagless(s) /\ Tagless(s) \in SUBSET Nat /\ IsFiniteSet(Tagless(s))
      /\ free \in SUBSET Nat /\ IsFiniteSet(free)
  BY OutputsAndTags DEF Tagless
<1>2. k \in Nat
  BY <1>1, RankBelow
<1>3. \A t : t \in left <=> t \in free /\ Rank(free, t) >= k
  BY StillFree
<1>4. \A t : t \in GrantedTag(s, o) <=> t \in free /\ Rank(free, t) = k
  BY <1>1, GrantedRank
<1> HIDE DEF left, free, k
<1>5. CASE left = {}
  BY <1>2, <1>3, <1>4, <1>5 DEF left
<1>6. CASE left # {}
  <2> DEFINE m == Min(left)
  <2>1. left \in SUBSET Nat
    BY <1>1, <1>3
  <2>2. m \in left /\ \A t \in left : m <= t
    BY <1>6, <2>1, MinInSet
  <2> HIDE DEF m
  <2>3. m \in free /\ Rank(free, m) >= k
    BY <1>3, <2>2
  <2>4. Rank(free, m) \in 0 .. Cardinality(free) - 1 /\ Cardinality(free) \in Nat
    BY <1>1, <2>3, RankBelow, FS_CardinalityType
  <2>5. k \in 0 .. Cardinality(free) - 1
    BY <1>2, <2>3, <2>4
  <2>6. PICK t \in free : Rank(free, t) = k
    BY <1>1, <2>5, RankOnto
  <2>7. t \in left
    BY <1>2, <1>3, <2>6
  <2>8. m = t
    <3>1. m \in Nat /\ t \in Nat /\ m <= t
      BY <1>1, <2>2, <2>3, <2>7
    <3>2. t <= m
      BY <1>1, <2>3, <2>6, RankOneToOne
    <3> QED  BY <3>1, <3>2
  <2>9. m \in GrantedTag(s, o)
    BY <1>4, <2>6, <2>8
  <2> QED  BY <1>6, <2>9 DEF m, left
<1> QED  BY <1>5, <1>6

\* r is s but for the tag t, now owned and shown by output o.
Showing(s, r, o, t) ==
  /\ IsState(r)
  /\ OutputIdx(r) = OutputIdx(s) /\ r.windows = s.windows
  /\ r.focused_output = s.focused_output
  /\ r.resize_mode = s.resize_mode /\ r.pending_apply = s.pending_apply
  /\ \A p \in OutputIdx(s) : r.outputs[p] = IF p = o THEN [s.outputs[o] EXCEPT !.active_tag = t]
                                            ELSE s.outputs[p]

\* Setting an active tag does that.
LEMMA SetShown ==
  ASSUME NEW s, IsState(s), NEW o \in OutputIdx(s), NEW t \in Tags
  PROVE  LET r == [s EXCEPT !.outputs[o].active_tag = t]
         IN  Showing(s, r, o, t) /\ r.tags = s.tags
<1> DEFINE r == [s EXCEPT !.outputs[o].active_tag = t]
<1>1. IsState(r) /\ r.windows = s.windows /\ OutputIdx(r) = OutputIdx(s)
      /\ r.tags = s.tags /\ r.focused_output = s.focused_output
  BY SetActiveTag
<1>2. r.resize_mode = s.resize_mode /\ r.pending_apply = s.pending_apply
  BY DEF IsState
<1>3. \A p \in OutputIdx(s) : r.outputs[p] = IF p = o THEN [s.outputs[o] EXCEPT !.active_tag = t]
                                             ELSE s.outputs[p]
  BY DEF IsState, OutputIdx
<1> HIDE DEF r
<1> QED  BY <1>1, <1>2, <1>3 DEF Showing, r

\* So does showing the tag that is shown already.
LEMMA ShownAlready ==
  ASSUME NEW s, IsState(s), NEW o \in OutputIdx(s)
  PROVE  Showing(s, s, o, s.outputs[o].active_tag)
<1>1. s.outputs[o] \in OutputType
  BY DEF IsState
<1>2. s.outputs[o] = [s.outputs[o] EXCEPT !.active_tag = s.outputs[o].active_tag]
  BY <1>1 DEF OutputType
<1> QED  BY <1>2 DEF Showing

\* The first half of a turn: the output shows its final tag, which it owns if
\* it was granted.
LEMMA RevalidatedTurn ==
  ASSUME NEW s, IsState(s), NEW o \in OutputIdx(s)
  PROVE  LET d == DealtBelow(s, o)
             r == Revalidated(d, o)
         IN  /\ Showing(d, r, o, FinalTag(s, o))
             /\ \A t \in Tags : r.tags[t] = IF t \in GrantedTag(s, o) THEN o ELSE d.tags[t]
<1> DEFINE d == DealtBelow(s, o)
           r == Revalidated(d, o)
           shown == s.outputs[o].active_tag
           best == best_tag_for_output(s, o)
<1>1. o \in Nat /\ OutputIdx(s) \in SUBSET Nat /\ ~(o < o)
  BY OutputsAndTags
<1>2. /\ IsState(d) /\ OutputIdx(d) = OutputIdx(s) /\ d.windows = s.windows
      /\ \A t \in Tags : d.tags[t] = IF GrantedBelow(s, o, t) THEN FinalOwner(s, t) ELSE s.tags[t]
      /\ d.outputs[o] = s.outputs[o]
  BY <1>1, DealtState
<1>3. shown \in Tags
  BY DEF IsState, OutputType
<1> HIDE DEF d
<1>4. \A t \in Tags : d.tags[t] = o <=> s.tags[t] = o
  <2> SUFFICES ASSUME NEW t \in Tags, GrantedBelow(s, o, t)
               PROVE  d.tags[t] # o /\ s.tags[t] # o
    BY <1>2
  <2>1. PICK p \in OutputIdx(s) : p < o /\ t \in GrantedTag(s, p)
    BY DEF GrantedBelow
  <2>2. d.tags[t] = p /\ p # o
    BY <1>1, <1>2, <2>1, FinalOwners
  <2>3. s.tags[t] = None
    BY <2>1, GrantedOnce
  <2> QED  BY <1>1, <2>2, <2>3, NoneAssumption
<1>5. OwnedTags(d, o) = OwnedTags(s, o)
  BY <1>4 DEF OwnedTags
<1>6. best_tag_for_output(d, o) = best
  BY <1>2, <1>5 DEF best_tag_for_output, WindowIds
<1>7. tag_owner(d, shown) = o <=> shown \in OwnedTags(s, o)
  BY <1>3, <1>4 DEF tag_owner, OwnedTags
<1>8. OwnedTags(s, o) \subseteq Tags /\ None \notin OwnedTags(s, o)
  BY NoneAssumption, NumTagsAssumption DEF OwnedTags, Tags
<1>9. IF OwnedTags(s, o) = {} THEN best = None ELSE best \in OwnedTags(s, o)
  BY BestTagOwned
<1> HIDE DEF shown, best
<1>10. r = IF shown \in OwnedTags(s, o) THEN d
           ELSE IF best # None THEN [d EXCEPT !.outputs[o].active_tag = best]
           ELSE Take(d, o)
  BY <1>2, <1>6, <1>7, Zenon DEF Revalidated, shown
<1> HIDE DEF r
<1>11. CASE OwnedTags(s, o) # {}
  <2>1. GrantedTag(s, o) = {}
    BY <1>11, GrantedOnce
  <2>2. FinalTag(s, o) = best /\ best \in Tags /\ best # None
    BY <1>8, <1>9, <1>11, FinalTags DEF best
  <2>3. CASE shown \in OwnedTags(s, o)
    <3>1. best = shown
      BY <2>3, BestTagKept DEF best, shown
    <3>2. Showing(d, d, o, shown)
      BY <1>2, ShownAlready DEF shown
    <3> QED  BY <1>10, <2>1, <2>2, <2>3, <3>1, <3>2 DEF r, d
  <2>4. CASE shown \notin OwnedTags(s, o)
    <3>1. r = [d EXCEPT !.outputs[o].active_tag = best]
      BY <1>10, <2>2, <2>4
    <3>2. Showing(d, r, o, best) /\ r.tags = d.tags
      BY <1>2, <2>2, <3>1, SetShown
    <3> QED  BY <2>1, <2>2, <3>2 DEF r, d
  <2> QED  BY <2>3, <2>4
<1>12. CASE OwnedTags(s, o) = {}
  <2>1. r = Take(d, o)
    BY <1>9, <1>10, <1>12
  <2>2. IF FreeTags(d) = {} THEN GrantedTag(s, o) = {} ELSE Min(FreeTags(d)) \in GrantedTag(s, o)
    BY <1>12, FirstFree DEF d
  <2>3. CASE FreeTags(d) = {}
    <3>1. r = d /\ FinalTag(s, o) = shown
      BY <1>12, <2>1, <2>2, <2>3, FinalTags DEF Take, shown
    <3>2. Showing(d, d, o, shown)
      BY <1>2, ShownAlready DEF shown
    <3> QED  BY <2>2, <2>3, <3>1, <3>2 DEF r, d
  <2>4. CASE FreeTags(d) # {}
    <3> DEFINE m == Min(FreeTags(d))
               e == [d EXCEPT !.tags[m] = o]
    <3>1. m \in GrantedTag(s, o) /\ FinalTag(s, o) = m /\ m \in Tags
      BY <2>2, <2>4, FinalTags, GrantedOnce
    <3> HIDE DEF m
    <3>2. SetOwner(d, e, m, o)
      BY <1>2, <3>1, OwnerSet
    <3>3. e.resize_mode = d.resize_mode /\ e.pending_apply = d.pending_apply
      BY <1>2 DEF IsState
    <3>4. r = [e EXCEPT !.outputs[o].active_tag = m]
      <4>1. r = [d EXCEPT !.tags[m] = o, !.outputs[o].active_tag = m]
        BY <2>1, <2>4 DEF Take, m
      <4> QED  BY <1>2, <4>1 DEF IsState
    <3> HIDE DEF e
    <3>5. Showing(e, r, o, m) /\ r.tags = e.tags
      BY <1>2, <3>1, <3>2, <3>4, SetShown DEF SetOwner
    <3>6. Showing(d, r, o, m)
      BY <3>2, <3>3, <3>5 DEF Showing, SetOwner
    <3>7. \A t \in Tags : r.tags[t] = IF t \in GrantedTag(s, o) THEN o ELSE d.tags[t]
      <4>1. \A t : t \in GrantedTag(s, o) <=> t = m
        BY <3>1, GrantedOnce
      <4>2. d.tags \in [Tags -> Nat \cup {None}] /\ r.tags = [d.tags EXCEPT ![m] = o]
        BY <1>2, <3>2, <3>5 DEF IsState, SetOwner
      <4> QED  BY <3>1, <4>1, <4>2
    <3> QED  BY <3>1, <3>6, <3>7 DEF r, d
  <2> QED  BY <2>3, <2>4
<1> QED  BY <1>11, <1>12

\* A turn takes the outputs dealt with from those below o to o as well.
LEMMA TurnDeals ==
  ASSUME NEW s, IsState(s), NEW o \in OutputIdx(s)
  PROVE  refocus_output(Revalidated(DealtBelow(s, o), o), o) = DealtBelow(s, o + 1)
<1> DEFINE d == DealtBelow(s, o)
           q == Revalidated(d, o)
           r == refocus_output(q, o)
           e == DealtBelow(s, o + 1)
           g == Regranted(s)
           tag == FinalTag(s, o)
<1>1. o \in Nat /\ OutputIdx(s) \in SUBSET Nat /\ ~(o < o) /\ o + 1 \in Nat
      /\ \A p \in OutputIdx(s) : p < o + 1 <=> p < o \/ p = o
  BY OutputsAndTags
<1>2. /\ IsState(d) /\ OutputIdx(d) = OutputIdx(s) /\ d.windows = s.windows
      /\ d.focused_output = FinalFocus(s)
      /\ d.resize_mode = s.resize_mode /\ d.pending_apply = s.pending_apply
      /\ \A t \in Tags : d.tags[t] = IF GrantedBelow(s, o, t) THEN FinalOwner(s, t) ELSE s.tags[t]
      /\ \A p \in OutputIdx(s) : d.outputs[p] = IF p < o THEN FinalOutput(s, p) ELSE s.outputs[p]
  BY <1>1, DealtState
<1>3. /\ IsState(e) /\ OutputIdx(e) = OutputIdx(s) /\ e.windows = s.windows
      /\ e.focused_output = FinalFocus(s)
      /\ e.resize_mode = s.resize_mode /\ e.pending_apply = s.pending_apply
      /\ \A t \in Tags : e.tags[t] = IF GrantedBelow(s, o + 1, t) THEN FinalOwner(s, t) ELSE s.tags[t]
      /\ \A p \in OutputIdx(s) : e.outputs[p] = IF p < o + 1 THEN FinalOutput(s, p) ELSE s.outputs[p]
  BY <1>1, DealtState
<1>4. /\ Showing(d, q, o, tag)
      /\ \A t \in Tags : q.tags[t] = IF t \in GrantedTag(s, o) THEN o ELSE d.tags[t]
  BY RevalidatedTurn
<1>5. /\ IsState(g) /\ g.windows = s.windows
      /\ g.tags = [t \in Tags |-> FinalOwner(s, t)]
      /\ g.outputs[o].active_tag = tag
      /\ g.outputs[o].focused_window = s.outputs[o].focused_window
  BY RegrantedState
<1> HIDE DEF d, q, e, g, tag
<1>6. /\ IsState(q) /\ OutputIdx(q) = OutputIdx(s) /\ q.windows = s.windows
      /\ q.focused_output = FinalFocus(s)
      /\ q.resize_mode = s.resize_mode /\ q.pending_apply = s.pending_apply
      /\ q.outputs[o] = [s.outputs[o] EXCEPT !.active_tag = tag]
      /\ \A p \in OutputIdx(s) : p # o => q.outputs[p] = d.outputs[p]
  BY <1>1, <1>2, <1>4 DEF Showing
<1>7. /\ s.outputs[o] \in OutputType
      /\ q.outputs[o].active_tag = tag
      /\ q.outputs[o].focused_window = s.outputs[o].focused_window
  BY <1>6 DEF IsState, OutputType
<1>8. ASSUME NEW t \in Tags
      PROVE  /\ q.tags[t] = e.tags[t]
             /\ q.tags[t] = o <=> g.tags[t] = o
  <2>1. GrantedBelow(s, o + 1, t) <=> GrantedBelow(s, o, t) \/ t \in GrantedTag(s, o)
    BY <1>1 DEF GrantedBelow
  <2>2. CASE t \in GrantedTag(s, o)
    <3>1. FinalOwner(s, t) = o
      BY <2>2, FinalOwners
    <3> QED  BY <1>3, <1>4, <1>5, <2>1, <2>2, <3>1
  <2>3. CASE t \notin GrantedTag(s, o)
    <3>1. q.tags[t] = d.tags[t] /\ e.tags[t] = d.tags[t]
      BY <1>2, <1>3, <1>4, <2>1, <2>3
    <3>2. d.tags[t] = o <=> FinalOwner(s, t) = o
      <4>1. CASE GrantedBelow(s, o, t)
        BY <1>2, <4>1
      <4>2. CASE ~GrantedBelow(s, o, t) /\ \E p \in OutputIdx(s) : t \in GrantedTag(s, p)
        <5>1. PICK p \in OutputIdx(s) : t \in GrantedTag(s, p)
          BY <4>2
        <5>2. FinalOwner(s, t) = p /\ p # o /\ s.tags[t] = None
          BY <2>3, <5>1, FinalOwners, GrantedOnce
        <5> QED  BY <1>1, <1>2, <4>2, <5>2, NoneAssumption
      <4>3. CASE ~GrantedBelow(s, o, t) /\ \A p \in OutputIdx(s) : t \notin GrantedTag(s, p)
        BY <1>2, <4>3, FinalOwners
      <4> QED  BY <4>1, <4>2, <4>3
    <3> QED  BY <1>5, <3>1, <3>2
  <2> QED  BY <2>2, <2>3
<1>9. RefocusedWindow(q, o) = RefocusedWindow(g, o)
  <2>1. /\ IsState(g) /\ IsState(q) /\ q.windows = g.windows
        /\ q.outputs[o].active_tag = g.outputs[o].active_tag
        /\ q.outputs[o].focused_window = g.outputs[o].focused_window
    BY <1>5, <1>6, <1>7
  <2>2. \A t \in Tags : q.tags[t] = o <=> g.tags[t] = o
    BY <1>8
  <2> QED  BY <2>1, <2>2, RefocusSame
<1>10. /\ IsState(r) /\ OutputIdx(r) = OutputIdx(s) /\ r.tags = q.tags
       /\ r.focused_output = q.focused_output
  BY <1>6, RefocusOutput DEF SameTags
<1>11. /\ r.windows = q.windows
       /\ r.resize_mode = q.resize_mode /\ r.pending_apply = q.pending_apply
       /\ \A p \in OutputIdx(s) :
            r.outputs[p] = IF p = o THEN [q.outputs[o] EXCEPT !.focused_window = RefocusedWindow(q, o)]
                           ELSE q.outputs[p]
  BY <1>6 DEF refocus_output, IsState, OutputIdx
<1> HIDE DEF r
<1>12. r.outputs[o] = FinalOutput(s, o)
  <2>1. r.outputs[o] = [[s.outputs[o] EXCEPT !.active_tag = tag]
                          EXCEPT !.focused_window = RefocusedWindow(g, o)]
    BY <1>6, <1>9, <1>11
  <2> QED  BY <1>7, <2>1 DEF FinalOutput, OutputType, g, tag
<1>13. \A p \in OutputIdx(s) : r.outputs[p] = e.outputs[p]
  <2> SUFFICES ASSUME NEW p \in OutputIdx(s)
               PROVE  r.outputs[p] = e.outputs[p]
    OBVIOUS
  <2>1. CASE p = o
    BY <1>1, <1>3, <1>12, <2>1
  <2>2. CASE p # o
    BY <1>1, <1>2, <1>3, <1>6, <1>11, <2>2
  <2> QED  BY <2>1, <2>2
<1>14. r.outputs = e.outputs
  <2>1. /\ r.outputs \in [OutputIdx(s) -> OutputType]
        /\ e.outputs \in [OutputIdx(s) -> OutputType]
    BY <1>3, <1>10 DEF IsState
  <2> QED  BY <1>13, <2>1
<1>15. r.tags = e.tags
  <2>1. r.tags \in [Tags -> Nat \cup {None}] /\ e.tags \in [Tags -> Nat \cup {None}]
    BY <1>3, <1>10 DEF IsState
  <2>2. \A t \in Tags : r.tags[t] = e.tags[t]
    BY <1>8, <1>10
  <2> QED  BY <2>1, <2>2
<1>16. r = e
  BY <1>3, <1>6, <1>10, <1>11, <1>14, <1>15, SameState
<1> QED  BY <1>16 DEF r, q, d, e

-----------------------------------------------------------------------------
(***************************************************************************)
(* The inductive invariant: the loop has dealt with the outputs whose turn *)
(* it was, and geometry keeps its types.                                   *)
(***************************************************************************)
LoopInv ==
  /\ IsState(arg) /\ IsFiniteSet(WindowIds(arg))
  /\ turn \in 0 .. NumOutputs(arg)
  /\ work = DealtBelow(arg, turn)

GeometryInv ==
  /\ scene \in [screens : [OutputIdx(arg) -> [box : RectType, usable : RectType]],
                gap : Nat, fraction : Fractions]
  /\ boxes \in [WindowIds(arg) -> BoxType]

RepairInv == LoopInv /\ GeometryInv

\* While the loop runs the state stays well typed and keeps its outputs and
\* windows.
LEMMA WorkKept ==
  ASSUME LoopInv
  PROVE  /\ IsState(work) /\ turn \in Nat
         /\ OutputIdx(work) = OutputIdx(arg) /\ OutputIdx(arg) = 0 .. (NumOutputs(arg) - 1)
         /\ WindowIds(work) = WindowIds(arg) /\ IsFiniteSet(WindowIds(work))
         /\ NumOutputs(arg) \in Nat
<1> DEFINE d == DealtBelow(arg, turn)
<1>1. IsState(arg) /\ turn \in Nat /\ NumOutputs(arg) \in Nat
      /\ OutputIdx(arg) = 0 .. (NumOutputs(arg) - 1)
  BY DEF LoopInv, IsState
<1>2. IsState(d) /\ OutputIdx(d) = OutputIdx(arg) /\ d.windows = arg.windows
  BY <1>1, DealtState
<1> HIDE DEF d
<1>3. work = d
  BY DEF LoopInv, d
<1> QED  BY <1>1, <1>2, <1>3 DEF LoopInv, WindowIds

\* Areas are rectangles.
LEMMA AreaTyped ==
  ASSUME RepairInv
  PROVE  /\ \A o \in OutputIdx(work) : output_area(scene.screens[o]) \in RectType
         /\ \A w : AreaOf(w) # None => AreaOf(w) \in RectType
<1>1. ASSUME NEW o \in OutputIdx(work)
      PROVE  output_area(scene.screens[o]) \in RectType
  <2>1. scene.screens[o] \in [box : RectType, usable : RectType]
    BY WorkKept DEF RepairInv, GeometryInv
  <2> QED  BY <2>1 DEF output_area
<1> QED  BY <1>1 DEF AreaOf

LEMMA RepairInvInit ==
  RepairInit => RepairInv
<1> SUFFICES ASSUME RepairInit PROVE RepairInv
  OBVIOUS
<1>1. PICK sc : /\ IsScene(sc) /\ LoopStarts(sc.state)
                /\ scene = [screens |-> sc.screens, gap |-> sc.gap, fraction |-> sc.fraction]
                /\ boxes = sc.boxes
  BY ScenesAssumption DEF RepairInit
<1>2. IsScene(sc)
  BY <1>1
<1>3. /\ arg = sc.state /\ IsState(arg) /\ IsFiniteSet(WindowIds(arg))
      /\ turn = 0 /\ NumOutputs(arg) \in Nat
      /\ work = [arg EXCEPT !.focused_output = FinalFocus(arg)]
  <2>1. arg = sc.state /\ turn = 0 /\ IsState(arg) /\ IsFiniteSet(WindowIds(arg))
    BY <1>1, <1>2 DEF LoopStarts, IsScene
  <2>2. work = [arg EXCEPT !.focused_output = FinalFocus(arg)]
    BY <1>1, <2>1 DEF LoopStarts, FinalFocus, IsState
  <2> QED  BY <2>1, <2>2 DEF IsState
<1>4. LoopInv
  <2>1. work = DealtBelow(arg, 0)
    BY <1>3, NothingDealt
  <2> QED  BY <1>3, <2>1 DEF LoopInv
<1>5. GeometryInv
  <2>1. /\ sc.screens \in [OutputIdx(arg) -> [box : RectType, usable : RectType]]
        /\ sc.boxes \in [WindowIds(arg) -> BoxType]
        /\ sc.gap \in Nat /\ sc.fraction \in Fractions
    BY <1>2, <1>3 DEF IsScene
  <2> QED  BY <1>1, <2>1 DEF GeometryInv
<1> QED  BY <1>4, <1>5 DEF RepairInv

\* One more output has had its turn.
LEMMA RepairInvTurn ==
  ASSUME RepairInv, NormalizeTurn
  PROVE  RepairInv'
<1>1. /\ turn \in OutputIdx(arg) /\ turn' = turn + 1
      /\ work' = refocus_output(Revalidated(work, turn), turn)
      /\ arg' = arg /\ scene' = scene /\ boxes' = boxes
  BY WorkKept DEF NormalizeTurn, Turn, RepairInv
<1>2. work' = DealtBelow(arg, turn + 1)
  <2>1. IsState(arg) /\ work = DealtBelow(arg, turn)
    BY DEF RepairInv, LoopInv
  <2> QED  BY <1>1, <2>1, TurnDeals
<1>3. turn + 1 \in 0 .. NumOutputs(arg)
  BY <1>1, WorkKept DEF RepairInv
<1>4. work' = DealtBelow(arg', turn') /\ turn' \in 0 .. NumOutputs(arg')
  BY <1>1, <1>2, <1>3
<1>5. LoopInv'
  BY <1>1, <1>4 DEF RepairInv, LoopInv
<1> QED  BY <1>1, <1>5 DEF RepairInv, GeometryInv

\* A step that leaves the loop alone keeps the invariant if boxes stay boxes.
LEMMA BoxesReplaced ==
  ASSUME RepairInv, UNCHANGED loopvars, UNCHANGED scene,
         boxes' \in [WindowIds(arg) -> BoxType]
  PROVE  RepairInv'
<1>1. arg' = arg /\ work' = work /\ turn' = turn /\ scene' = scene
  BY DEF loopvars
<1>2. LoopInv'
  BY <1>1 DEF RepairInv, LoopInv
<1> QED  BY <1>1, <1>2 DEF RepairInv, GeometryInv

\* A window's box after clamping: the same size, on the output that shows the
\* window.
LEMMA BoxClamped ==
  ASSUME RepairInv, OutputIdx(work) # {}, NEW w \in DOMAIN boxes
  PROVE  /\ ClampedBox(work, scene.screens, w, boxes[w].box) \in RectType
         /\ AreaOf(w) # None /\ ~Empty(AreaOf(w)) =>
              ClampedBox(work, scene.screens, w, boxes[w].box)
                = clamp_rect_to_area(boxes[w].box, AreaOf(w))
<1> DEFINE o == window_output(work, w)
           b == boxes[w].box
           new == ClampedBox(work, scene.screens, w, b)
<1>1. b \in RectType
  BY DEF RepairInv, GeometryInv, BoxType
<1>2. ClampOutput(work, w) = o
  BY DEF ClampOutput, window_output, active_output
<1> HIDE DEF o, b
<1>3. new = IF o \notin OutputIdx(work) THEN b
            ELSE IF Empty(output_area(scene.screens[o])) THEN b
            ELSE clamp_rect_to_area(b, output_area(scene.screens[o]))
  BY <1>2 DEF ClampedBox
<1> HIDE DEF new
<1>4. CASE o \notin OutputIdx(work)
  <2>1. AreaOf(w) = None
    BY <1>4 DEF AreaOf, o
  <2> QED  BY <1>1, <1>3, <1>4, <2>1 DEF new, b
<1>5. CASE o \in OutputIdx(work)
  <2> DEFINE area == output_area(scene.screens[o])
  <2>1. AreaOf(w) = area /\ area \in RectType
    BY <1>5, AreaTyped DEF AreaOf, o
  <2> HIDE DEF area
  <2>2. new = IF Empty(area) THEN b ELSE clamp_rect_to_area(b, area)
    BY <1>3, <1>5 DEF area
  <2>3. clamp_rect_to_area(b, area) \in RectType
    BY <1>1, <2>1, ClampedWithin
  <2> QED  BY <1>1, <2>1, <2>2, <2>3 DEF new, b
<1> QED  BY <1>4, <1>5

\* What ClampFloats leaves of a window.
LEMMA FloatClamped ==
  ASSUME RepairInv, ClampFloats, NEW w \in DOMAIN boxes
  PROVE  /\ DOMAIN boxes' = DOMAIN boxes /\ boxes'[w] \in BoxType
         /\ boxes[w].floating /\ OutputIdx(work) # {} =>
              boxes'[w].box = ClampedBox(work, scene.screens, w, boxes[w].box)
<1>1. boxes[w] \in BoxType /\ boxes' = clamp_floating_windows(work, scene.screens, boxes)
  BY DEF RepairInv, GeometryInv, ClampFloats
<1>2. CASE OutputIdx(work) = {}
  BY <1>1, <1>2 DEF clamp_floating_windows
<1>3. CASE OutputIdx(work) # {}
  <2> DEFINE new == ClampedBox(work, scene.screens, w, boxes[w].box)
  <2>1. new \in RectType
    BY <1>3, BoxClamped
  <2>2. /\ DOMAIN boxes' = DOMAIN boxes
        /\ boxes'[w] = IF boxes[w].floating THEN [boxes[w] EXCEPT !.box = new] ELSE boxes[w]
    BY <1>1, <1>3 DEF clamp_floating_windows
  <2> HIDE DEF new
  <2>3. [boxes[w] EXCEPT !.box = new] \in BoxType /\ [boxes[w] EXCEPT !.box = new].box = new
    BY <1>1, <2>1 DEF BoxType
  <2> QED  BY <1>1, <2>2, <2>3 DEF new
<1> QED  BY <1>2, <1>3

LEMMA RepairInvClamp ==
  ASSUME RepairInv, ClampFloats
  PROVE  RepairInv'
<1>1. DOMAIN boxes = WindowIds(arg)
  BY DEF RepairInv, GeometryInv
<1>2. \E f : f = boxes' /\ \A w \in WindowIds(arg) : f[w] \in BoxType
  BY <1>1, FloatClamped
<1>3. boxes' = [w \in WindowIds(arg) |-> boxes'[w]]
  BY <1>1 DEF ClampFloats, clamp_floating_windows, RepairInv, GeometryInv
<1>4. boxes' \in [WindowIds(arg) -> BoxType]
  BY <1>2, <1>3
<1>5. UNCHANGED loopvars /\ UNCHANGED scene
  BY DEF ClampFloats
<1> QED  BY <1>4, <1>5, BoxesReplaced

\* A window on the floating list is overlaid on its output's area.
LEMMA RuleFloats ==
  ASSUME RepairInv, NEW w \in DOMAIN boxes, AppIdFloats(w)
  PROVE  /\ RepairInv'
         /\ AreaOf(w) # None => Readable(boxes'[w], AreaOf(w), AreaOf(w))
<1> DEFINE area == AreaOf(w)
           box == IF area = None THEN boxes[w].box ELSE Overlaid(boxes[w], area, area)
           r == [boxes[w] EXCEPT !.floating = TRUE, !.box = box]
<1>1. boxes[w] \in BoxType /\ boxes \in [WindowIds(arg) -> BoxType]
  BY DEF RepairInv, GeometryInv
<1>2. area # None => /\ Overlaid(boxes[w], area, area) \in RectType
                     /\ Readable([boxes[w] EXCEPT !.box = Overlaid(boxes[w], area, area)], area, area)
  BY <1>1, AreaTyped, OverlaidReadable
<1>3. boxes' = [boxes EXCEPT ![w] = r]
  BY <1>1 DEF AppIdFloats, BoxType
<1> HIDE DEF area
<1>4. box \in RectType
  BY <1>1, <1>2 DEF BoxType
<1> HIDE DEF box
<1>5. r \in BoxType /\ r.box = box /\ r.hints = boxes[w].hints
      /\ [boxes[w] EXCEPT !.box = box].box = box
      /\ [boxes[w] EXCEPT !.box = box].hints = boxes[w].hints
  BY <1>1, <1>4 DEF BoxType
<1> HIDE DEF r
<1>6. boxes' \in [WindowIds(arg) -> BoxType] /\ boxes'[w] = r
  BY <1>1, <1>3, <1>5
<1>7. area # None => Readable(r, area, area)
  <2> SUFFICES ASSUME area # None PROVE Readable(r, area, area)
    OBVIOUS
  <2>1. box = Overlaid(boxes[w], area, area)
    BY DEF box
  <2>2. Readable([boxes[w] EXCEPT !.box = box], area, area)
    BY <1>2, <2>1
  <2> QED  BY <1>5, <2>2 DEF Readable
<1>8. UNCHANGED loopvars /\ UNCHANGED scene
  BY DEF AppIdFloats
<1>9. RepairInv'
  BY <1>6, <1>8, BoxesReplaced
<1> QED  BY <1>6, <1>7, <1>9 DEF area

\* A child that joins a floating parent is overlaid on it.
LEMMA ChildFloats ==
  ASSUME RepairInv, NEW w \in DOMAIN boxes, NEW p \in DOMAIN boxes, ParentSet(w, p)
  PROVE  /\ RepairInv'
         /\ AreaOf(p) # None /\ boxes'[w].floating /\ ~boxes[w].floating
              => Readable(boxes'[w], boxes[p].box, AreaOf(p))
<1> DEFINE over == boxes[p].box
           area == IF AreaOf(p) = None THEN over ELSE AreaOf(p)
           joins == boxes[p].floating /\ ~boxes[w].floating
           box == IF joins THEN Overlaid(boxes[w], over, area) ELSE boxes[w].box
           floats == boxes[w].floating \/ joins
           r == [boxes[w] EXCEPT !.parent = p, !.floating = floats, !.box = box]
<1>1. /\ boxes[w] \in BoxType /\ boxes[p] \in BoxType /\ boxes \in [WindowIds(arg) -> BoxType]
      /\ p \in Nat
  BY DEF RepairInv, GeometryInv, LoopInv, IsState
<1>2. over \in RectType /\ area \in RectType
  BY <1>1, AreaTyped DEF BoxType
<1>3. boxes' = [boxes EXCEPT ![w] = r]
  BY <1>1 DEF ParentSet, BoxType
<1>a. AreaOf(p) # None => area = AreaOf(p)
  OBVIOUS
<1> HIDE DEF over, area
<1>4. /\ Overlaid(boxes[w], over, area) \in RectType
      /\ Readable([boxes[w] EXCEPT !.box = Overlaid(boxes[w], over, area)], over, area)
  BY <1>1, <1>2, OverlaidReadable
<1>5. box \in RectType /\ floats \in BOOLEAN
  BY <1>1, <1>4 DEF BoxType
<1>6. floats /\ ~boxes[w].floating => joins /\ box = Overlaid(boxes[w], over, area)
  OBVIOUS
<1> HIDE DEF box, floats, joins
<1>7. r \in BoxType /\ r.box = box /\ r.hints = boxes[w].hints /\ r.floating = floats
      /\ [boxes[w] EXCEPT !.box = box].box = box
      /\ [boxes[w] EXCEPT !.box = box].hints = boxes[w].hints
  BY <1>1, <1>5 DEF BoxType
<1> HIDE DEF r
<1>8. boxes' \in [WindowIds(arg) -> BoxType] /\ boxes'[w] = r
  BY <1>1, <1>3, <1>7
<1>9. floats /\ ~boxes[w].floating => Readable(r, over, area)
  BY <1>4, <1>6, <1>7 DEF Readable
<1>10. UNCHANGED loopvars /\ UNCHANGED scene
  BY DEF ParentSet
<1>11. RepairInv'
  BY <1>8, <1>10, BoxesReplaced
<1> QED  BY <1>7, <1>8, <1>9, <1>11, <1>a DEF over

LEMMA RepairInvNext ==
  RepairInv /\ [RepairNext]_rvars => RepairInv'
<1> SUFFICES ASSUME RepairInv, [RepairNext]_rvars PROVE RepairInv'
  OBVIOUS
<1>1. CASE NormalizeTurn
  BY <1>1, RepairInvTurn
<1>2. CASE ClampFloats
  BY <1>2, RepairInvClamp
<1>3. CASE \E w \in DOMAIN boxes : AppIdFloats(w)
  BY <1>3, RuleFloats
<1>4. CASE \E w, p \in DOMAIN boxes : ParentSet(w, p)
  BY <1>4, ChildFloats
<1>5. CASE UNCHANGED rvars
  BY <1>5 DEF rvars, RepairInv, LoopInv, GeometryInv
<1> QED  BY <1>1, <1>2, <1>3, <1>4, <1>5 DEF RepairNext

LEMMA RepairInvHolds ==
  RepairSpec => []RepairInv
BY RepairInvInit, RepairInvNext, PTL DEF RepairSpec

-----------------------------------------------------------------------------
(***************************************************************************)
(* The layout of a state.                                                  *)
(***************************************************************************)
\* Every tiled window of an output has a tile of its own, the tiles in the
\* order of the windows, and the tiles fit.
LEMMA TilesOfOutput ==
  ASSUME RepairInv, NEW o \in OutputIdx(work)
  PROVE  LET ids == visible_windows(work, boxes, o)
             tiles == TilesOn(output_area(scene.screens[o]), Len(ids), scene.gap, scene.fraction)
         IN  /\ Inner(o) \in RectType /\ scene.gap \in Nat
             /\ Len(ids) \in Nat /\ DOMAIN ids = 1 .. Len(ids)
             /\ DOMAIN Tiles(o) = ToSet(ids)
             /\ \A i \in 1 .. Len(ids) : ids[i] \in DOMAIN Tiles(o) /\ Tiles(o)[ids[i]] = tiles[i]
             /\ Len(ids) > 0 => TilingFits(tiles, Len(ids), Inner(o), scene.gap)
<1> DEFINE S == {w \in ShownWindows(work, o) : ~boxes[w].floating}
           ids == visible_windows(work, boxes, o)
           n == Len(ids)
           area == output_area(scene.screens[o])
           inner == Inset(area, scene.gap)
           tiles == TilesOn(area, n, scene.gap, scene.fraction)
<1>1. S \in SUBSET Nat /\ IsFiniteSet(S)
  <2>1. WindowIds(work) \in SUBSET Nat /\ IsFiniteSet(WindowIds(work))
    BY WorkKept DEF RepairInv, IsState
  <2>2. S \in SUBSET WindowIds(work)
    BY DEF ShownWindows
  <2> QED  BY <2>1, <2>2, FS_Subset
<1>2. ids = InVecOrder(S)
  BY DEF visible_windows
<1> HIDE DEF S
<1>3. /\ n \in Nat /\ DOMAIN ids = 1 .. n
      /\ \A i, j \in 1 .. n : i # j => ids[i] # ids[j]
  BY <1>1, <1>2, Enumeration
<1>4. scene.gap \in Nat /\ scene.fraction \in Fractions /\ area \in RectType
  BY AreaTyped DEF RepairInv, GeometryInv
<1>5. inner \in RectType
  <2> HIDE DEF area
  <2>1. /\ area.x \in Int /\ area.y \in Int /\ area.width \in Nat /\ area.height \in Nat
        /\ scene.gap * 2 \in Nat
    BY <1>4 DEF RectType
  <2>2. /\ area.x + scene.gap \in Int /\ area.y + scene.gap \in Int
        /\ Less(area.width, scene.gap * 2) \in Nat /\ Less(area.height, scene.gap * 2) \in Nat
    BY <1>4, <2>1 DEF Less
  <2> QED  BY <2>2 DEF Inset, Rect, RectType
<1>6. tiles = compute_tiling(n, inner, inner.y + inner.height, scene.gap, scene.fraction)
  BY DEF TilesOn
<1>7. Inner(o) = inner
  BY DEF Inner
<1> HIDE DEF ids, tiles, inner
<1>8. n > 0 => TilingFits(tiles, n, inner, scene.gap)
  <2>1. n > 0 => n \in Nat \ {0}
    BY <1>3
  <2> QED  BY <1>4, <1>5, <1>6, <2>1, TilingOfArea
<1>9. Tiles(o) = [w \in ToSet(ids) |-> tiles[CHOOSE i \in DOMAIN ids : ids[i] = w]]
  BY DEF Tiles, compute_output, ids, tiles
<1>10. \A i \in 1 .. n : ids[i] \in DOMAIN Tiles(o) /\ Tiles(o)[ids[i]] = tiles[i]
  <2> SUFFICES ASSUME NEW i \in 1 .. n
               PROVE  ids[i] \in DOMAIN Tiles(o) /\ Tiles(o)[ids[i]] = tiles[i]
    OBVIOUS
  <2> DEFINE k == CHOOSE j \in DOMAIN ids : ids[j] = ids[i]
  <2>1. k \in 1 .. n /\ ids[k] = ids[i]
    BY <1>3
  <2>2. ids[i] \in ToSet(ids)
    BY <1>3 DEF ToSet
  <2>3. Tiles(o)[ids[i]] = tiles[k]
    BY <1>9, <2>2
  <2> HIDE DEF k
  <2>4. k = i
    BY <1>3, <2>1
  <2> QED  BY <1>9, <2>2, <2>3, <2>4
<1> QED  BY <1>3, <1>4, <1>5, <1>7, <1>8, <1>9, <1>10 DEF ids, tiles

\* Tiles that are apart are so either way round.
LEMMA ApartBothWays ==
  ASSUME NEW r, NEW q, NEW gap, Apart(r, q, gap)
  PROVE  Apart(q, r, gap)
BY DEF Apart

\* Three layers listed one after the other: every member once, and nothing but
\* the last layer after a member of it.
LEMMA LayersListed ==
  ASSUME NEW H \in SUBSET Nat, NEW T \in SUBSET Nat, NEW F \in SUBSET Nat,
         IsFiniteSet(H), IsFiniteSet(T), IsFiniteSet(F),
         H \cap T = {}, H \cap F = {}, T \cap F = {}
  PROVE  LET order == InVecOrder(H) \o InVecOrder(T) \o InVecOrder(F)
         IN  /\ ToSet(order) = H \cup T \cup F
             /\ Len(order) = Cardinality(H \cup T \cup F)
             /\ \A i, j \in DOMAIN order : i < j /\ order[i] \in F => order[j] \in F
<1> DEFINE a == InVecOrder(H)
           b == InVecOrder(T)
           c == InVecOrder(F)
           h == Cardinality(H)
           t == Cardinality(T)
           f == Cardinality(F)
           ab == a \o b
           order == a \o b \o c
<1>1. h \in Nat /\ a \in Seq(H) /\ Len(a) = h
      /\ (\A i \in 1 .. h : a[i] \in H) /\ \A w \in H : \E i \in 1 .. h : a[i] = w
  BY Enumeration
<1>2. t \in Nat /\ b \in Seq(T) /\ Len(b) = t
      /\ (\A i \in 1 .. t : b[i] \in T) /\ \A w \in T : \E i \in 1 .. t : b[i] = w
  BY Enumeration
<1>3. f \in Nat /\ c \in Seq(F) /\ Len(c) = f
      /\ (\A i \in 1 .. f : c[i] \in F) /\ \A w \in F : \E i \in 1 .. f : c[i] = w
  BY Enumeration
<1>4. Cardinality(H \cup T \cup F) = h + t + f
  <2> DEFINE U == H \cup T
  <2>1. Cardinality({}) = 0
    BY FS_EmptySet
  <2>2. IsFiniteSet(U) /\ Cardinality(U) = h + t - Cardinality(H \cap T)
    BY FS_Union
  <2>3. U \cap F = {} /\ H \cup T \cup F = U \cup F
    OBVIOUS
  <2> HIDE DEF U
  <2>4. Cardinality(U \cup F) = Cardinality(U) + f - Cardinality(U \cap F)
    BY <2>2, FS_Union
  <2>5. Cardinality(H \cap T) = 0 /\ Cardinality(U \cap F) = 0
    BY <2>1, <2>3, Zenon
  <2>6. Cardinality(U) = h + t /\ Cardinality(U \cup F) = Cardinality(U) + f
    BY <1>1, <1>2, <1>3, <2>2, <2>4, <2>5
  <2> QED  BY <2>3, <2>6
<1> HIDE DEF a, b, c, h, t, f
<1>5. a \in Seq(Nat) /\ b \in Seq(Nat) /\ c \in Seq(Nat)
  BY <1>1, <1>2, <1>3, SeqMonotonic
<1>6. /\ ab \in Seq(Nat) /\ Len(ab) = h + t
      /\ \A i \in 1 .. h + t : ab[i] = IF i <= h THEN a[i] ELSE b[i - h]
  <2>1. /\ ab \in Seq(Nat) /\ Len(ab) = Len(a) + Len(b)
        /\ \A i \in 1 .. Len(a) + Len(b) : ab[i] = IF i <= Len(a) THEN a[i] ELSE b[i - Len(a)]
    BY <1>5, ConcatProperties, Zenon
  <2> HIDE DEF ab
  <2> QED  BY <1>1, <1>2, <2>1, Zenon
<1>7. order = ab \o c
  OBVIOUS
<1> HIDE DEF order, ab
<1>8. /\ order \in Seq(Nat) /\ Len(order) = h + t + f
      /\ \A i \in 1 .. h + t + f :
           order[i] = IF i <= h + t THEN ab[i] ELSE c[i - (h + t)]
  <2>1. /\ ab \o c \in Seq(Nat) /\ Len(ab \o c) = Len(ab) + Len(c)
        /\ \A i \in 1 .. Len(ab) + Len(c) :
             (ab \o c)[i] = IF i <= Len(ab) THEN ab[i] ELSE c[i - Len(ab)]
    BY <1>5, <1>6, ConcatProperties, Zenon
  <2>2. Len(ab) = h + t /\ Len(c) = f
    BY <1>3, <1>6
  <2> DEFINE abc == ab \o c
  <2>3. /\ abc \in Seq(Nat) /\ Len(abc) = h + t + f
        /\ \A i \in 1 .. h + t + f : abc[i] = IF i <= h + t THEN ab[i] ELSE c[i - (h + t)]
    BY <2>1, <2>2, Zenon
  <2>4. order = abc
    BY <1>7
  <2> HIDE DEF abc
  <2> QED  BY <2>3, <2>4
<1>9. DOMAIN order = 1 .. h + t + f
  BY <1>8
<1>10. /\ \A i \in 1 .. h : order[i] = a[i]
       /\ \A i \in 1 .. t : order[h + i] = b[i]
       /\ \A i \in 1 .. f : order[h + t + i] = c[i]
  <2>1. ASSUME NEW i \in 1 .. h PROVE order[i] = a[i]
    BY <1>1, <1>2, <1>3, <1>6, <1>8
  <2>2. ASSUME NEW i \in 1 .. t PROVE order[h + i] = b[i]
    <3>1. h + i \in 1 .. h + t /\ ~(h + i <= h) /\ (h + i) - h = i
          /\ h + i \in 1 .. h + t + f /\ h + i <= h + t
      BY <1>1, <1>2, <1>3
    <3> QED  BY <1>6, <1>8, <3>1
  <2>3. ASSUME NEW i \in 1 .. f PROVE order[h + t + i] = c[i]
    <3>1. h + t + i \in 1 .. h + t + f /\ ~(h + t + i <= h + t) /\ (h + t + i) - (h + t) = i
      BY <1>1, <1>2, <1>3
    <3> QED  BY <1>8, <3>1
  <2> QED  BY <2>1, <2>2, <2>3
<1>11. ASSUME NEW i \in DOMAIN order
       PROVE  \/ i \in 1 .. h /\ order[i] \in H
              \/ i - h \in 1 .. t /\ order[i] \in T
              \/ i - (h + t) \in 1 .. f /\ order[i] \in F
  <2>1. \/ i \in 1 .. h
        \/ i - h \in 1 .. t /\ h + (i - h) = i
        \/ i - (h + t) \in 1 .. f /\ h + t + (i - (h + t)) = i
    BY <1>1, <1>2, <1>3, <1>9
  <2>2. CASE i \in 1 .. h
    BY <1>1, <1>10, <2>2
  <2>3. CASE i - h \in 1 .. t /\ h + (i - h) = i
    BY <1>2, <1>10, <2>3
  <2>4. CASE i - (h + t) \in 1 .. f /\ h + t + (i - (h + t)) = i
    BY <1>3, <1>10, <2>4
  <2> QED  BY <2>1, <2>2, <2>3, <2>4
<1>12. ToSet(order) = H \cup T \cup F
  <2>1. \A i \in DOMAIN order : order[i] \in H \cup T \cup F
    BY <1>11
  <2>2. ASSUME NEW w \in H \cup T \cup F PROVE \E i \in DOMAIN order : order[i] = w
    <3>1. CASE w \in H
      <4>1. PICK i \in 1 .. h : a[i] = w
        BY <1>1, <3>1
      <4>2. i \in DOMAIN order
        BY <1>1, <1>2, <1>3, <1>9
      <4> QED  BY <1>10, <4>1, <4>2
    <3>2. CASE w \in T
      <4>1. PICK i \in 1 .. t : b[i] = w
        BY <1>2, <3>2
      <4>2. h + i \in DOMAIN order
        BY <1>1, <1>2, <1>3, <1>9
      <4> QED  BY <1>10, <4>1, <4>2
    <3>3. CASE w \in F
      <4>1. PICK i \in 1 .. f : c[i] = w
        BY <1>3, <3>3
      <4>2. h + t + i \in DOMAIN order
        BY <1>1, <1>2, <1>3, <1>9
      <4> QED  BY <1>10, <4>1, <4>2
    <3> QED  BY <3>1, <3>2, <3>3
  <2>3. \A w : w \in ToSet(order) <=> w \in H \cup T \cup F
    <3>1. ASSUME NEW w \in ToSet(order) PROVE w \in H \cup T \cup F
      BY <2>1, <3>1, Zenon DEF ToSet
    <3>2. ASSUME NEW w \in H \cup T \cup F PROVE w \in ToSet(order)
      BY <2>2, Zenon DEF ToSet
    <3> QED  BY <3>1, <3>2, Zenon
  <2> QED  BY <2>3, Zenon
<1>13. ASSUME NEW i \in DOMAIN order, NEW j \in DOMAIN order, i < j, order[i] \in F
       PROVE  order[j] \in F
  <2>1. i - (h + t) \in 1 .. f
    BY <1>11, <1>13
  <2>2. j \notin 1 .. h /\ j - h \notin 1 .. t
    BY <1>1, <1>2, <1>3, <1>9, <1>13, <2>1
  <2> QED  BY <1>11, <2>2
<1> QED  BY <1>4, <1>8, <1>12, <1>13 DEF order, a, b, c, h, t, f

-----------------------------------------------------------------------------
(***************************************************************************)
(* The theorems.                                                           *)
(***************************************************************************)
\* However many outputs and tags there are, the loop of normalize_outputs ends
\* in the state of the closed form that every other theorem about tags uses.
THEOREM LoopIsClosedFormHolds == RepairSpec => []LoopIsClosedForm
<1>1. RepairInv => LoopIsClosedForm
  <2> SUFFICES ASSUME RepairInv, LoopDone PROVE work = normalize_outputs(arg)
    BY DEF LoopIsClosedForm
  <2>1. IsState(arg) /\ work = DealtBelow(arg, turn)
    BY DEF RepairInv, LoopInv
  <2>2. turn \in Nat /\ \A o \in OutputIdx(arg) : o < turn
    <3>1. turn \notin OutputIdx(arg) /\ turn \in 0 .. NumOutputs(arg)
      BY WorkKept DEF LoopDone, RepairInv, LoopInv
    <3> QED  BY <3>1, WorkKept DEF RepairInv
  <2> QED  BY <2>1, <2>2, AllDealt
<1> QED  BY <1>1, RepairInvHolds, PTL

\* From any state without dangling owners, reachable or not, normalize_outputs
\* leaves a table every handler can rely on: owners and focus exist, an output
\* with tags shows one of them, none is tagless while a tag is free.
THEOREM TableRepairedHolds == RepairSpec => []TableRepaired
<1>1. RepairInv /\ LoopIsClosedForm => TableRepaired
  BY NormalizeRepairs DEF RepairInv, LoopInv, LoopIsClosedForm, TableRepaired
<1> QED  BY <1>1, RepairInvHolds, LoopIsClosedFormHolds, PTL

\* repair_outputs puts every floating window inside the usable area of the
\* output that shows it, no further from where it was than that takes, on
\* screens, panels and windows of any size.
THEOREM FloatsOnScreenHolds == RepairSpec => FloatsOnScreen
<1> DEFINE Placed == \A w \in DOMAIN boxes :
                       boxes[w].floating /\ AreaOf(w) # None /\ ~Empty(AreaOf(w))
                         => OnScreen(boxes[w].box, boxes'[w].box, AreaOf(w))
<1>1. ASSUME RepairInv, ClampFloats, NEW w \in DOMAIN boxes,
             boxes[w].floating, AreaOf(w) # None, ~Empty(AreaOf(w))
      PROVE  OnScreen(boxes[w].box, boxes'[w].box, AreaOf(w))
  <2> DEFINE area == AreaOf(w)
             old == boxes[w].box
             new == boxes'[w].box
  <2>1. area \in RectType /\ old \in RectType
    BY <1>1, AreaTyped DEF RepairInv, GeometryInv, BoxType
  <2>2. OutputIdx(work) # {}
    BY <1>1 DEF AreaOf
  <2>3. new = clamp_rect_to_area(old, area) /\ ~Empty(area)
    BY <1>1, <2>2, FloatClamped, BoxClamped
  <2> HIDE DEF area, old, new
  <2>4. /\ area.x \in Int /\ area.y \in Int /\ area.width \in Nat /\ area.height \in Nat
        /\ old.x \in Int /\ old.y \in Int /\ old.width \in Nat /\ old.height \in Nat
    BY <2>1 DEF RectType
  <2>5. /\ Less(area.width, old.width) \in Nat
        /\ Less(area.height, old.height) \in Nat
    BY <2>4 DEF Less
  <2>6. /\ new.x = Clamped(old.x, area.x, area.x + Less(area.width, old.width))
        /\ new.y = Clamped(old.y, area.y, area.y + Less(area.height, old.height))
        /\ new.width = old.width /\ new.height = old.height
    BY <2>1, <2>3 DEF clamp_rect_to_area, RectType
  <2>7. /\ Nearest(old.x, new.x, area.x, Less(area.width, old.width))
        /\ Nearest(old.y, new.y, area.y, Less(area.height, old.height))
    BY <2>4, <2>5, <2>6, ClampedNearest
  <2> QED  BY <2>6, <2>7 DEF OnScreen, area, old, new
<1>2. RepairInv /\ [RepairNext]_rvars => [ClampFloats => Placed]_rvars
  BY <1>1
<1> QED  BY <1>2, RepairInvHolds, PTL DEF RepairSpec, FloatsOnScreen

\* A window floated by a rule leaves what it overlays readable, keeps to its
\* hints and is on the screen if it fits there, for every size of either.
THEOREM DialogsReadableHolds == RepairSpec => DialogsReadable
<1> DEFINE Act == /\ \A w \in DOMAIN boxes :
                       AppIdFloats(w) /\ AreaOf(w) # None
                         => Readable(boxes'[w], AreaOf(w), AreaOf(w))
                  /\ \A w, p \in DOMAIN boxes :
                       ParentSet(w, p) /\ AreaOf(p) # None /\ boxes'[w].floating /\ ~boxes[w].floating
                         => Readable(boxes'[w], boxes[p].box, AreaOf(p))
<1>1. RepairInv => Act
  BY RuleFloats, ChildFloats
<1>2. DialogsReadable <=> [][Act]_rvars
  BY DEF DialogsReadable
<1> HIDE DEF Act
<1> QED  BY <1>1, <1>2, RepairInvHolds, PTL

\* However many windows share an area of whatever size, gap and master
\* fraction, their tiles lie inside it and a gap apart from one another.
THEOREM TilesFitHolds == RepairSpec => []TilesFit
<1>1. RepairInv => TilesFit
  <2> SUFFICES ASSUME RepairInv, NEW o \in OutputIdx(work),
                      NEW w \in DOMAIN Tiles(o), NEW v \in DOMAIN Tiles(o)
               PROVE  /\ ~Empty(Tiles(o)[w]) => Within(Tiles(o)[w], Inner(o))
                      /\ w # v /\ ~Empty(Tiles(o)[w]) /\ ~Empty(Tiles(o)[v])
                           => Apart(Tiles(o)[w], Tiles(o)[v], scene.gap)
    BY DEF TilesFit
  <2> DEFINE ids == visible_windows(work, boxes, o)
             n == Len(ids)
             tiles == TilesOn(output_area(scene.screens[o]), n, scene.gap, scene.fraction)
             gap == scene.gap
             inner == Inner(o)
             tile == Tiles(o)
  <2>1. /\ n \in Nat /\ DOMAIN ids = 1 .. n /\ DOMAIN tile = ToSet(ids)
        /\ \A i \in 1 .. n : tile[ids[i]] = tiles[i]
        /\ n > 0 => TilingFits(tiles, n, inner, gap)
    BY TilesOfOutput
  <2> HIDE DEF ids, tiles, inner, tile, gap
  <2>2. PICK i \in 1 .. n : ids[i] = w
    BY <2>1 DEF ToSet, tile
  <2>3. PICK j \in 1 .. n : ids[j] = v
    BY <2>1 DEF ToSet, tile
  <2>4. tile[w] = tiles[i] /\ tile[v] = tiles[j] /\ TilingFits(tiles, n, inner, gap)
    BY <2>1, <2>2, <2>3
  <2>5. ~Empty(tile[w]) => Within(tile[w], inner)
    BY <2>4 DEF TilingFits
  <2>6. ASSUME w # v, ~Empty(tile[w]), ~Empty(tile[v])
        PROVE  Apart(tile[w], tile[v], gap)
    <3>1. i < j \/ j < i
      BY <2>1, <2>2, <2>3, <2>6
    <3>2. CASE i < j
      BY <2>4, <2>6, <3>2 DEF TilingFits
    <3>3. CASE j < i
      BY <2>4, <2>6, <3>3, ApartBothWays DEF TilingFits
    <3> QED  BY <3>1, <3>2, <3>3
  <2> QED  BY <2>5, <2>6 DEF tile, inner, gap
<1> QED  BY <1>1, RepairInvHolds, PTL

\* Whatever the number of windows, the area, the gap and the master fraction,
\* tiles that all have a size take up the whole area but for the gaps between
\* them and the one below the stack.
THEOREM NoSpaceLostHolds == RepairSpec => []NoSpaceLost
<1>1. RepairInv => NoSpaceLost
  <2> SUFFICES ASSUME RepairInv, NEW o \in OutputIdx(work), DOMAIN Tiles(o) # {},
                      NEW x \in Columns(Inner(o)), NEW y \in Rows(Inner(o))
               PROVE  \E w \in DOMAIN Tiles(o) : Takes(Tiles(o)[w], scene.gap, x, y)
    BY DEF NoSpaceLost
  <2> DEFINE ids == visible_windows(work, boxes, o)
             n == Len(ids)
             tiles == TilesOn(output_area(scene.screens[o]), n, scene.gap, scene.fraction)
             gap == scene.gap
             inner == Inner(o)
             tile == Tiles(o)
  <2>1. /\ n \in Nat /\ DOMAIN ids = 1 .. n /\ DOMAIN tile = ToSet(ids)
        /\ \A i \in 1 .. n : tile[ids[i]] = tiles[i]
        /\ n > 0 => TilingFits(tiles, n, inner, gap)
    BY TilesOfOutput
  <2> HIDE DEF ids, tiles, inner, tile, gap
  <2>2. n > 0
    <3>1. PICK w : w \in ToSet(ids)
      BY <2>1 DEF tile
    <3> QED  BY <2>1, <3>1 DEF ToSet
  <2>3. PICK i \in 1 .. n : Takes(tiles[i], gap, x, y)
    BY <2>1, <2>2 DEF TilingFits, inner
  <2>4. ids[i] \in DOMAIN tile /\ tile[ids[i]] = tiles[i]
    BY <2>1 DEF ToSet
  <2> QED  BY <2>3, <2>4 DEF tile, gap
<1> QED  BY <1>1, RepairInvHolds, PTL

\* A render sequence places every window once and puts floats last, fullscreen
\* ones included, for any number of windows of any kind.
THEOREM FloatsOnTopHolds == RepairSpec => []FloatsOnTop
<1>1. RepairInv => FloatsOnTop
  <2> SUFFICES ASSUME RepairInv PROVE FloatsOnTop
    OBVIOUS
  <2> DEFINE Lay(w) == Layer(work, scene, boxes, w)
             H == {w \in WindowIds(work) : Lay(w) = "hidden"}
             T == {w \in WindowIds(work) : Lay(w) = "tiled"}
             F == {w \in WindowIds(work) : Lay(w) = "floats"}
             order == placements(work, scene, boxes)
  <2>1. WindowIds(work) \in SUBSET Nat /\ IsFiniteSet(WindowIds(work))
    BY WorkKept DEF RepairInv, IsState
  <2>2. order = InVecOrder(H) \o InVecOrder(T) \o InVecOrder(F)
    BY DEF placements
  <2>3. \A w : /\ Lay(w) \in {"hidden", "tiled", "floats"}
               /\ Lay(w) = "floats" <=> boxes[w].floating /\ ~Hidden(work, scene, boxes, w)
    BY DEF Layer
  <2> HIDE DEF Lay, order
  <2>4. /\ H \cup T \cup F = WindowIds(work)
        /\ H \cap T = {} /\ H \cap F = {} /\ T \cap F = {}
    BY <2>3
  <2>5. \A w \in WindowIds(work) :
          w \in F <=> boxes[w].floating /\ ~Hidden(work, scene, boxes, w)
    BY <2>3
  <2>6. /\ H \in SUBSET Nat /\ T \in SUBSET Nat /\ F \in SUBSET Nat
        /\ IsFiniteSet(H) /\ IsFiniteSet(T) /\ IsFiniteSet(F)
    <3>1. H \in SUBSET WindowIds(work) /\ T \in SUBSET WindowIds(work) /\ F \in SUBSET WindowIds(work)
      OBVIOUS
    <3> HIDE DEF H, T, F
    <3> QED  BY <2>1, <3>1, FS_Subset
  <2> HIDE DEF H, T, F
  <2> DEFINE listed == InVecOrder(H) \o InVecOrder(T) \o InVecOrder(F)
  <2>7. /\ ToSet(listed) = H \cup T \cup F
        /\ Len(listed) = Cardinality(H \cup T \cup F)
        /\ \A i, j \in DOMAIN listed : i < j /\ listed[i] \in F => listed[j] \in F
    <3>1. H \cap T = {} /\ H \cap F = {} /\ T \cap F = {}
      BY <2>4
    <3> QED  BY <2>6, <3>1, LayersListed
  <2>8. order = listed
    BY <2>2
  <2> HIDE DEF listed
  <2>9. \A i \in DOMAIN order : order[i] \in WindowIds(work)
    BY <2>4, <2>7, <2>8 DEF ToSet
  <2>10. \A i, j \in DOMAIN order :
          i < j /\ boxes[order[i]].floating /\ ~Hidden(work, scene, boxes, order[i])
            => boxes[order[j]].floating /\ ~Hidden(work, scene, boxes, order[j])
    BY <2>5, <2>7, <2>8, <2>9
  <2> QED  BY <2>4, <2>7, <2>8, <2>10 DEF FloatsOnTop, order
<1> QED  BY <1>1, RepairInvHolds, PTL
=============================================================================
