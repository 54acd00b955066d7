------------------------------- MODULE Repair -------------------------------
(***************************************************************************)
(* What follows when a monitor changes (State::repair_outputs): the loop   *)
(* of normalize_outputs, the clamping of floating windows onto the outputs *)
(* they are shown on, and the layout the next manage and render sequences  *)
(* make of the result; then the two events that float a window by a rule.  *)
(*                                                                         *)
(* It starts from arbitrary small states, not only those streamwm reaches: *)
(* there no free tag is ever granted (TaglessOnlyWhenExhausted in          *)
(* WmState), and the dealing out of free tags would go unexamined.         *)
(***************************************************************************)
EXTENDS NormalizeLoop, Layout, SequencesExt

CONSTANTS Scenes,   \* what repair_outputs is called on: families of states with their geometry
          MaxRules  \* bound: rules that float a window after it

HintsType == [min_width : Nat, min_height : Nat, max_width : Nat, max_height : Nat]
BoxType == [floating : BOOLEAN, parent : Nat \cup {None}, box : RectType, hints : HintsType]

\* A well-typed state, a screen for every output, and a box for every window.
IsScene(sc) ==
  /\ IsState(sc.state) /\ IsFiniteSet(WindowIds(sc.state))
  /\ sc.screens \in [OutputIdx(sc.state) -> [box : RectType, usable : RectType]]
  /\ sc.boxes \in [WindowIds(sc.state) -> BoxType]
  /\ sc.gap \in Nat /\ sc.fraction \in Fractions

ASSUME ScenesAssumption ==
  \A family \in DOMAIN Scenes : \A sc \in Scenes[family] : IsScene(sc)

VARIABLES scene,   \* the screens by output index, the gap, the master fraction
          boxes,   \* window id -> floating, parent, box (float_x .. float_h), hints
          clamped, \* clamp_floating_windows has run
          rules    \* rules applied since

rvars == <<arg, work, turn, scene, boxes, clamped, rules>>

-----------------------------------------------------------------------------
(***************************************************************************)
(* Clamping.                                                               *)
(***************************************************************************)
\* Faulty variant: a window is clamped to the focused output.
ClampOutput_focused(s, w) == IF s.focused_output # None THEN s.focused_output ELSE 0

\* The output a window is clamped to.
ClampOutput(s, w) ==
  IF tag_owner(s, s.windows[w].tag) # None THEN tag_owner(s, s.windows[w].tag)
  ELSE IF s.focused_output # None THEN s.focused_output ELSE 0

ClampedBox(s, screens, w, box) ==
  LET o == ClampOutput(s, w)
  IN  IF o \notin OutputIdx(s) THEN box
      ELSE IF Empty(output_area(screens[o])) THEN box
      ELSE clamp_rect_to_area(box, output_area(screens[o]))

clamp_floating_windows(s, screens, bs) ==
  IF OutputIdx(s) = {} THEN bs
  ELSE [w \in DOMAIN bs |->
          IF bs[w].floating THEN [bs[w] EXCEPT !.box = ClampedBox(s, screens, w, @)] ELSE bs[w]]

-----------------------------------------------------------------------------
(***************************************************************************)
(* Layout of a state: the tiles of every output, and the render order.     *)
(***************************************************************************)
\* A set of windows in Vec order.
InVecOrder(S) == [i \in 1 .. Cardinality(S) |-> CHOOSE w \in S : Rank(S, w) = i - 1]

\* Windows in the master and stack of an output.  A minimised window is among
\* them.
visible_windows(s, bs, o) == InVecOrder({w \in ShownWindows(s, o) : ~bs[w].floating})

compute_output(s, sc, bs, o) ==
  LET ids == visible_windows(s, bs, o)
      tiles == TilesOn(output_area(sc.screens[o]), Len(ids), sc.gap, sc.fraction)
  IN  [w \in ToSet(ids) |-> tiles[CHOOSE i \in DOMAIN ids : ids[i] = w]]

\* A window is hidden, fullscreen, or put at a rectangle.
Placement(s, sc, bs, w) ==
  IF s.windows[w].minimized \/ ~window_is_visible(s, w) THEN [kind |-> "Hidden"]
  ELSE IF s.windows[w].fullscreen THEN [kind |-> "Fullscreen"]
  ELSE [kind |-> "At", box |-> IF bs[w].floating THEN bs[w].box
                               ELSE compute_output(s, sc, bs, tag_owner(s, s.windows[w].tag))[w]]

Hidden(s, sc, bs, w) == Placement(s, sc, bs, w).kind = "Hidden"

\* Faulty variant: a fullscreen float is drawn among the tiles.
Layer_byBox(s, sc, bs, w) ==
  IF Hidden(s, sc, bs, w) THEN "hidden"
  ELSE IF bs[w].floating /\ Placement(s, sc, bs, w).kind = "At" THEN "floats" ELSE "tiled"

Layer(s, sc, bs, w) ==
  IF Hidden(s, sc, bs, w) THEN "hidden" ELSE IF bs[w].floating THEN "floats" ELSE "tiled"

\* Every window once: hidden ones, then tiles, then floats, so that floats
\* end on top.
placements(s, sc, bs) ==
  LET Of(layer) == InVecOrder({w \in WindowIds(s) : Layer(s, sc, bs, w) = layer})
  IN  Of("hidden") \o Of("tiled") \o Of("floats")

-----------------------------------------------------------------------------

NewBox == [floating |-> FALSE, parent |-> None, box |-> Rect(0, 0, 4, 3),
           hints |-> [min_width |-> 0, min_height |-> 0, max_width |-> 0, max_height |-> 0]]

RepairInit == \E family \in DOMAIN Scenes : \E sc \in Scenes[family] :
  /\ LoopStarts(sc.state)
  /\ scene = [screens |-> sc.screens, gap |-> sc.gap, fraction |-> sc.fraction]
  /\ boxes = sc.boxes
  /\ clamped = FALSE
  /\ rules = 0

NormalizeTurn == Turn /\ UNCHANGED <<scene, boxes, clamped, rules>>

ClampFloats ==
  /\ LoopDone /\ ~clamped
  /\ boxes' = clamp_floating_windows(work, scene.screens, boxes)
  /\ clamped' = TRUE
  /\ UNCHANGED <<loopvars, scene, rules>>

\* The rule's area for a window: that of the output it is managed against.
AreaOf(w) ==
  IF window_output(work, w) \in OutputIdx(work)
  THEN output_area(scene.screens[window_output(work, w)]) ELSE None

\* Faulty variant: the box is placed before it is given its new size.
Overlaid_early(b, over, area) ==
  fit_beside_parent(over, place_over_parent(b.box, over, area), b.hints)

\* Sized to leave what it covers readable, then centred over it.
Overlaid(b, over, area) == place_over_parent(fit_beside_parent(over, b.box, b.hints), over, area)

\* WindowEvent::AppId of an application on the floating list.
AppIdFloats(w) ==
  /\ clamped /\ rules < MaxRules /\ ~boxes[w].floating
  /\ rules' = rules + 1
  /\ boxes' = [boxes EXCEPT ![w].floating = TRUE,
                            ![w].box = IF AreaOf(w) = None THEN @
                                       ELSE Overlaid(boxes[w], AreaOf(w), AreaOf(w))]
  /\ UNCHANGED <<loopvars, scene, clamped>>

\* WindowEvent::Parent: a child joins a floating parent, and leaves the tiling.
ParentSet(w, p) ==
  LET area == IF AreaOf(p) = None THEN boxes[p].box ELSE AreaOf(p)
      joins == boxes[p].floating /\ ~boxes[w].floating
  IN  /\ clamped /\ rules < MaxRules /\ w # p
      /\ rules' = rules + 1
      /\ boxes' = [boxes EXCEPT ![w].parent = p,
                                ![w].floating = @ \/ joins,
                                ![w].box = IF joins THEN Overlaid(boxes[w], boxes[p].box, area) ELSE @]
      /\ UNCHANGED <<loopvars, scene, clamped>>

RepairNext == \/ NormalizeTurn
              \/ ClampFloats
              \/ \E w \in DOMAIN boxes : AppIdFloats(w)
              \/ \E w, p \in DOMAIN boxes : ParentSet(w, p)

RepairSpec == RepairInit /\ [][RepairNext]_rvars

-----------------------------------------------------------------------------
(***************************************************************************)
(* Properties.                                                             *)
(***************************************************************************)
Distance(a, b) == IF a > b THEN a - b ELSE b - a

\* Of the places in a range, none is nearer to the old one than the new one.
Nearest(old, new, start, room) ==
  new \in start .. (start + room) /\ \A at \in start .. (start + room) :
                                       Distance(new, old) <= Distance(at, old)

\* The same size, at the nearest place inside the area, or in its corner.
OnScreen(old, new, area) ==
  /\ Nearest(old.x, new.x, area.x, Less(area.width, old.width))
  /\ Nearest(old.y, new.y, area.y, Less(area.height, old.height))
  /\ new.width = old.width /\ new.height = old.height

\* After repair_outputs every floating window lies inside the usable area of
\* the output that shows it and was moved no further than that takes; one
\* that is too large has its top left corner in the area's.
FloatsOnScreen ==
  [][ClampFloats =>
      \A w \in DOMAIN boxes :
        boxes[w].floating /\ AreaOf(w) # None /\ ~Empty(AreaOf(w))
          => OnScreen(boxes[w].box, boxes'[w].box, AreaOf(w))]_rvars

Tiles(o) == compute_output(work, scene, boxes, o)
Inner(o) == Inset(output_area(scene.screens[o]), scene.gap)

\* However many windows share however small an area, the tiles that have a
\* size lie inside the area's gap and a gap apart from one another.
TilesFit ==
  LoopDone => \A o \in OutputIdx(work) : \A w, v \in DOMAIN Tiles(o) :
    /\ ~Empty(Tiles(o)[w]) => Within(Tiles(o)[w], Inner(o))
    /\ w # v /\ ~Empty(Tiles(o)[w]) /\ ~Empty(Tiles(o)[v])
         => Apart(Tiles(o)[w], Tiles(o)[v], scene.gap)

\* Where every tile has a size, together they take up the whole area: what no
\* tile has is the gap right of one or below one, whatever the widths, heights
\* and rounding remainders add up to.
NoSpaceLost ==
  LoopDone => \A o \in OutputIdx(work) :
    LET tiles == Tiles(o)
    IN  DOMAIN tiles # {} /\ (\A w \in DOMAIN tiles : ~Empty(tiles[w]))
          => \A x \in Columns(Inner(o)), y \in Rows(Inner(o)) :
               \E w \in DOMAIN tiles : Takes(tiles[w], scene.gap, x, y)

\* A window floated by a rule leaves three fifths or less of what it overlays
\* covered unless its minimum asks for more, never exceeds its maximum, is on
\* the screen of what it overlays if it fits there, and was placed at the size
\* the next manage sequence proposes to it.
Readable(b, over, area) ==
  /\ b.hints.max_width > 0 => b.box.width <= b.hints.max_width
  /\ b.hints.max_height > 0 => b.box.height <= b.hints.max_height
  /\ over.width > 0 => b.box.width <= Larger((over.width * 3) \div 5, b.hints.min_width)
  /\ over.height > 0 => b.box.height <= Larger((over.height * 3) \div 5, b.hints.min_height)
  /\ (b.box.width <= area.width /\ b.box.height <= area.height) => Within(b.box, area)
  /\ clamp_to_hints(b.box, b.hints) = b.box

DialogsReadable ==
  [][/\ \A w \in DOMAIN boxes :
          AppIdFloats(w) /\ AreaOf(w) # None => Readable(boxes'[w], AreaOf(w), AreaOf(w))
     /\ \A w, p \in DOMAIN boxes :
          ParentSet(w, p) /\ AreaOf(p) # None /\ boxes'[w].floating /\ ~boxes[w].floating
            => Readable(boxes'[w], boxes[p].box, AreaOf(p))]_rvars

\* A render sequence places every window once, and whatever is drawn after a
\* float is a float: tiles never cover one, fullscreen floats included.
FloatsOnTop ==
  LoopDone =>
    LET order == placements(work, scene, boxes)
    IN  /\ ToSet(order) = WindowIds(work) /\ Len(order) = Cardinality(WindowIds(work))
        /\ \A i, j \in DOMAIN order :
             i < j /\ boxes[order[i]].floating /\ ~Hidden(work, scene, boxes, order[i])
             => boxes[order[j]].floating /\ ~Hidden(work, scene, boxes, order[j])
=============================================================================
