------------------------------ MODULE MCRepair ------------------------------
(***************************************************************************)
(* Small scenes for Repair, in five families that vary one thing each.     *)
(***************************************************************************)
EXTENDS Repair

CONSTANT MaxOutputs     \* bound: outputs in a scene

Monitor == CHOOSE id \in OutputIds : TRUE
NoHints == NewBox.hints
Screen(box) == [box |-> box, usable |-> Rect(0, 0, 0, 0)]
Panelled(box, panel) == [box |-> box, usable |-> [box EXCEPT !.y = @ + panel, !.height = Less(@, panel)]]

\* The default master fraction, 0.55.
Default == (Parts * 11) \div 20

\* n outputs that show and own the given tags, and windows on given tags.
StateOf(shown, owners, tags, focus) ==
  [NewState EXCEPT !.outputs = [o \in DOMAIN shown |-> [NewOutput(Monitor) EXCEPT !.active_tag = shown[o]]],
                   !.windows = [w \in DOMAIN tags |-> NewWindow(tags[w])],
                   !.tags = owners, !.focused_output = focus]

Scene(s, screens, bs, gap, fraction) ==
  [state |-> s, screens |-> screens, boxes |-> bs, gap |-> gap, fraction |-> fraction]

\* Every small tag table, with one window.
TableScenes ==
  {Scene(StateOf(shown, owners, <<tag>>, focus),
         [o \in 0 .. (MaxOutputs - 1) |-> Screen(Rect(4 * o, 0, 4, 4))], <<NewBox>>, 0, Default) :
     shown \in [0 .. (MaxOutputs - 1) -> Tags], tag \in Tags,
     owners \in [Tags -> (0 .. (MaxOutputs - 1)) \cup {None}], focus \in {None, 1, MaxOutputs}}

OneOutput == [t \in Tags |-> IF t = 0 THEN 0 ELSE None]

\* One to four tiles on areas from nothing up, with and without a panel.
TileScenes ==
  {Scene(StateOf([o \in {0} |-> 0], OneOutput, [w \in 1 .. n |-> 0], 0),
         [o \in {0} |-> screen], [w \in 1 .. n |-> NewBox], gap, fraction) :
     n \in 1 .. 4, gap \in 0 .. 2, fraction \in {2, 11, 18},
     screen \in {Screen(Rect(2, 1, width, height)) : width \in {0, 1, 4, 9}, height \in 0 .. 11}
                \cup {Panelled(Rect(0, 0, 8, 9), 2)}}

Kinds == {"tiled", "floating", "minimized", "fullscreen", "fullscreen float", "elsewhere"}

\* Three windows, each tiled, floating, minimised, fullscreen or on a hidden tag.
LayerScenes ==
  {LET s == StateOf([o \in {0} |-> 0], OneOutput, [w \in 1 .. 3 |-> IF kind[w] = "elsewhere" THEN 1 ELSE 0], 0)
   IN  Scene([s EXCEPT !.windows = [w \in 1 .. 3 |->
                 [s.windows[w] EXCEPT !.minimized = kind[w] = "minimized",
                                      !.fullscreen = kind[w] \in {"fullscreen", "fullscreen float"}]]],
             [o \in {0} |-> Screen(Rect(0, 0, 9, 9))],
             [w \in 1 .. 3 |-> [NewBox EXCEPT !.floating = kind[w] \in {"floating", "fullscreen float"}]], 1, Default) :
     kind \in [1 .. 3 -> Kinds]}

\* Two outputs side by side, a floating window 1 anywhere, and a window 2 with
\* wishes of its own; tag 2 has no owner.
FloatScenes ==
  {Scene(StateOf([o \in {0, 1} |-> o], [t \in Tags |-> IF t \in {0, 1} THEN t ELSE None], tags, focus),
         [o \in {0, 1} |-> screens[o]],
         <<[NewBox EXCEPT !.floating = TRUE, !.box = box],
           [NewBox EXCEPT !.box = Rect(0, 0, size, size), !.hints = hints]>>, 0, Default) :
     tags \in {<<0, 0>>, <<1, 1>>, <<2, 2>>, <<1, 0>>}, focus \in {0, 1},
     screens \in {[o \in {0, 1} |-> Screen(Rect(6 * o, 0, 6, 6))],
                  [o \in {0, 1} |-> Panelled(Rect(6 * o, 0, 6, 6), 3)],
                  [o \in {0, 1} |-> Screen(Rect(6 * o, 0, 6 * o, 6))]},
     box \in {Rect(x, y, width, height) : x \in {-3, 3, 13}, y \in {-2, 4}, width \in {2, 7}, height \in {1, 6}},
     size \in {3, 9},
     hints \in {NoHints, [NoHints EXCEPT !.min_width = 4], [NoHints EXCEPT !.max_height = 1],
                [NoHints EXCEPT !.min_width = 6, !.max_width = 2]}}

\* Two windows left when the last output is gone, one of them floating.
UnpluggedScenes ==
  {Scene(StateOf([o \in {} |-> 0], [t \in Tags |-> None], tags, focus), [o \in {} |-> Screen(Rect(0, 0, 0, 0))],
         <<[NewBox EXCEPT !.floating = TRUE], NewBox>>, 1, Default) :
     tags \in {<<0, 0>>, <<1, 0>>}, focus \in {None, 0}}

SmallScenes == [tables |-> TableScenes, tiles |-> TileScenes, layers |-> LayerScenes,
                floats |-> FloatScenes, unplugged |-> UnpluggedScenes]
=============================================================================
