--------------------------- MODULE StreamWmProofs ---------------------------
(***************************************************************************)
(* Type correctness and tag ownership of the window manager, for every     *)
(* number of tags, monitors and windows.  Neither is inductive alone: that *)
(* an owner index is in range needs the outputs to be 0 .. n-1, and that   *)
(* the remembered focus is a window id needs ids below next_window_id.     *)
(* Their conjunction is.                                                   *)
(*                                                                         *)
(* Then, that what river shows agrees with what streamwm remembers of it:  *)
(* what the operators of WmState leave alone of all that is mirrored in    *)
(* river (which windows and monitors there are, each window's node and     *)
(* applied fullscreen flag, and that a tag which has an owner keeps one),  *)
(* and one invariant per mirror, over the first.                           *)
(***************************************************************************)
EXTENDS StreamWm, WmStateProofs

Inv == TypeOK /\ TagOwnership

\* What a step must establish, piece by piece.
LEMMA Assemble ==
  ASSUME IsState(state'), TagTable(state'), app' \in AppType,
         WindowIds(state') \subseteq 1 .. (app'.next_window_id - 1),
         IsRiver(state', river'), history' \in HistoryType
  PROVE  Inv'
BY DEF Inv, TypeOK, TagOwnership

\* An event or command that keeps the set of windows.
LEMMA Dirtied ==
  ASSUME Inv, Keeps(state, state'), river' = [river EXCEPT !.dirty = TRUE]
  PROVE  /\ IsState(state') /\ TagTable(state')
         /\ WindowIds(state') = WindowIds(state)
         /\ IsRiver(state', river')
BY DEF Inv, TypeOK, Keeps, IsRiver

\* Such a step keeps the invariant if it issues no window id.
LEMMA SimpleStep ==
  ASSUME Inv, Keeps(state, state'), river' = [river EXCEPT !.dirty = TRUE],
         app' \in AppType, app'.next_window_id = app.next_window_id, history' \in HistoryType
  PROVE  Inv'
BY Dirtied, Assemble DEF Inv, TypeOK

\* In particular when it touches the state alone.
LEMMA PlainStep ==
  ASSUME Inv, Keeps(state, state'), river' = [river EXCEPT !.dirty = TRUE],
         UNCHANGED <<app, history>>
  PROVE  Inv'
BY SimpleStep DEF Inv, TypeOK

-----------------------------------------------------------------------------
\* The first state has the invariant.
LEMMA InitInv == Init => Inv
<1> SUFFICES ASSUME Init PROVE Inv
  OBVIOUS
<1>1. OutputIdx(state) = {} /\ WindowIds(state) = {} /\ state.tags = [t \in Tags |-> None]
      /\ state.focused_output = None
  BY DEF Init, NewState, OutputIdx, WindowIds
<1>2. NumOutputs(state) = 0
  BY <1>1, FS_EmptySet DEF NumOutputs
<1>3. IsState(state)
  <2> DEFINE outs == [o \in {} |-> NewOutput(o)]
             wins == [w \in {} |-> NewWindow(0)]
  <2>1. outs \in [{} -> OutputType] /\ wins \in [{} -> WindowType]
    OBVIOUS
  <2>2. state = [outputs |-> outs, windows |-> wins, tags |-> [t \in Tags |-> None],
                 focused_output |-> None, resize_mode |-> FALSE, pending_apply |-> FALSE]
    BY DEF Init, NewState
  <2> HIDE DEF outs, wins
  <2>3. state.outputs = outs /\ state.windows = wins
    BY <2>2
  <2>4. state \in [outputs : {outs}, windows : {wins}, tags : [Tags -> Nat \cup {None}],
                   focused_output : Nat \cup {None}, resize_mode : BOOLEAN,
                   pending_apply : BOOLEAN]
    BY <2>2
  <2>5. 0 .. (0 - 1) = {}
    OBVIOUS
  <2>6. QED
    BY <1>1, <1>2, <2>1, <2>3, <2>4, <2>5 DEF IsState
<1>4. TagTable(state)
  BY <1>1 DEF TagTable, OwnersAreOutputs, FocusIsAnOutput, ShownTagIsOwned,
              TaglessOnlyWhenExhausted
<1>5. app \in AppType /\ history \in HistoryType
  BY DEF Init, AppType, HistoryType
<1>6. IsRiver(state, river)
  BY <1>1 DEF Init, IsRiver
<1>7. QED
  BY <1>1, <1>3, <1>4, <1>5, <1>6 DEF Inv, TypeOK, TagOwnership

-----------------------------------------------------------------------------
(***************************************************************************)
(* Windows.                                                                *)
(***************************************************************************)
\* An action that changes windows but not which there are.
LEMMA WindowChanged ==
  ASSUME IsState(state), TagTable(state), NEW w \in WindowIds(state),
         NEW win \in WindowType, state' = [state EXCEPT !.windows[w] = win]
  PROVE  Keeps(state, state')
<1> DEFINE wins == [state.windows EXCEPT ![w] = win]
<1>1. wins \in [WindowIds(state) -> WindowType] /\ WindowIds(state) \in SUBSET Nat
  BY DEF IsState
<1>2. state' = [state EXCEPT !.windows = wins]
  BY DEF IsState
<1> HIDE DEF wins
<1>3. IsState(state') /\ WindowIds(state') = WindowIds(state) /\ SameTags(state, state')
  BY <1>1, <1>2, WindowsReplaced
<1>4. TagTable(state')
  BY <1>3, SameTagTable
<1>5. QED
  BY <1>3, <1>4 DEF Keeps, SameTags

\* The new window takes an unused id, and the focus of the output it opens on;
\* tags and monitors stay.
LEMMA PushKeeps ==
  ASSUME NEW s, IsState(s), TagTable(s), NEW wid \in Nat
  PROVE  LET r == PushWindow(s, wid)
         IN  /\ IsState(r) /\ TagTable(r) /\ WindowIds(r) = WindowIds(s) \cup {wid}
             /\ SameTags(s, r)
             /\ \A p \in OutputIdx(s) : r.outputs[p].id = s.outputs[p].id
<1> DEFINE o == IF active_output(s) = None THEN 0 ELSE active_output(s)
           tag == IF o \in OutputIdx(s) THEN s.outputs[o].active_tag ELSE 0
           ids == WindowIds(s) \cup {wid}
           wins == [w \in ids |-> IF w = wid THEN NewWindow(tag) ELSE s.windows[w]]
           outs == [p \in OutputIdx(s) |->
                      IF p = o THEN [s.outputs[p] EXCEPT !.focused_window = wid]
                      ELSE s.outputs[p]]
           a == [s EXCEPT !.windows = wins]
           b == [a EXCEPT !.outputs = outs]
<1>1. tag \in Tags
  BY NumTagsAssumption DEF IsState, OutputType, Tags
<1>2. PushWindow(s, wid) = b
  BY DEF PushWindow, IsState
<1> HIDE DEF o, tag
<1>3. NewWindow(tag) \in WindowType
  BY <1>1 DEF NewWindow, WindowType
<1>4. ids \in SUBSET Nat /\ wins \in [ids -> WindowType]
  BY <1>3 DEF IsState
<1>5. ASSUME NEW p \in OutputIdx(s)
      PROVE  /\ outs[p] \in OutputType
             /\ outs[p].active_tag = s.outputs[p].active_tag /\ outs[p].id = s.outputs[p].id
  BY DEF IsState, OutputType
<1> HIDE DEF wins
<1>6. IsState(a) /\ WindowIds(a) = ids /\ SameTags(s, a)
  BY <1>4, WindowsReplaced
<1>7. outs \in [OutputIdx(a) -> OutputType]
  BY <1>5, <1>6 DEF SameTags
<1> HIDE DEF a, outs
<1>8. b.windows = a.windows /\ b.tags = a.tags /\ b.focused_output = a.focused_output
      /\ b.resize_mode = a.resize_mode /\ b.pending_apply = a.pending_apply
      /\ b.outputs = outs
  BY <1>6 DEF IsState
<1>9. IsState(b) /\ WindowIds(b) = ids
  BY <1>6, <1>7, <1>8 DEF IsState, OutputIdx, WindowIds, NumOutputs
<1>10. SameTags(s, b)
  BY <1>5, <1>6, <1>7, <1>8 DEF SameTags, OutputIdx
<1>11. QED
  BY <1>2, <1>5, <1>8, <1>9, <1>10, SameTagTable

\* A new window.
LEMMA WindowCreatedInv == Inv /\ WindowCreated => Inv'
<1> SUFFICES ASSUME Inv, WindowCreated PROVE Inv'
  OBVIOUS
<1> DEFINE wid == app.next_window_id
<1>1. wid \in Nat \ {0} /\ WindowIds(state) \subseteq 1 .. (wid - 1)
  BY DEF Inv, TypeOK, AppType
<1>2. IsState(state') /\ TagTable(state') /\ WindowIds(state') = WindowIds(state) \cup {wid}
  BY <1>1, PushKeeps DEF Inv, TypeOK, TagOwnership, WindowCreated
<1>3. app' \in AppType /\ app'.next_window_id = wid + 1
  BY <1>1 DEF Inv, TypeOK, AppType, WindowCreated
<1>4. WindowIds(state') \subseteq 1 .. (app'.next_window_id - 1)
  BY <1>1, <1>2, <1>3
<1>5. IsRiver(state', river')
  <2> DEFINE fs == [w \in WindowIds(state) \cup {wid} |->
                      IF w = wid THEN None ELSE river.fullscreen[w]]
  <2>1. river' = [river EXCEPT !.dirty = TRUE, !.fullscreen = fs]
    BY DEF WindowCreated
  <2>2. fs \in [WindowIds(state') -> OutputIds \cup {None}]
    BY <1>2 DEF Inv, TypeOK, IsRiver
  <2> HIDE DEF fs
  <2>3. QED
    BY <2>1, <2>2 DEF Inv, TypeOK, IsRiver
<1>6. history' \in HistoryType
  BY DEF Inv, TypeOK, WindowCreated
<1>7. QED
  BY <1>2, <1>3, <1>4, <1>5, <1>6, Assemble

\* A closed window.
LEMMA WindowClosedInv == ASSUME NEW wid \in WindowIds(state) PROVE Inv /\ WindowClosed(wid) => Inv'
<1> SUFFICES ASSUME Inv, WindowClosed(wid) PROVE Inv'
  OBVIOUS
<1> DEFINE ids == WindowIds(state) \ {wid}
           wins == [w \in ids |-> state.windows[w]]
<1>1. ids \in SUBSET Nat /\ wins \in [ids -> WindowType]
  BY DEF Inv, TypeOK, IsState
<1>2. state' = [state EXCEPT !.windows = wins]
  BY DEF WindowClosed, ForgetWindow
<1> HIDE DEF wins
<1>3. IsState(state') /\ WindowIds(state') = ids /\ TagTable(state')
  BY <1>1, <1>2, WindowsReplaced, SameTagTable DEF Inv, TypeOK, TagOwnership
<1>4. IsRiver(state', river')
  <2> DEFINE fs == [w \in ids |-> river.fullscreen[w]]
  <2>1. river' = [river EXCEPT !.dirty = TRUE,
                    !.nodes = @ \ {wid}, !.shown = @ \ {wid}, !.closing = @ \ {wid},
                    !.keyboard = IF @ = wid THEN None ELSE @, !.fullscreen = fs]
    BY DEF WindowClosed
  <2>2. fs \in [WindowIds(state') -> OutputIds \cup {None}]
    BY <1>3 DEF Inv, TypeOK, IsRiver
  <2> HIDE DEF fs
  <2>3. QED
    BY <2>1, <2>2 DEF Inv, TypeOK, IsRiver
<1>5. QED
  BY <1>3, <1>4, Assemble DEF Inv, TypeOK, WindowClosed

\* Requests of the windows themselves.
LEMMA WindowRequestInv ==
  ASSUME NEW w \in WindowIds(state), NEW on \in BOOLEAN
  PROVE  Inv /\ (FullscreenRequested(w, on) \/ MinimizeRequested(w)) => Inv'
<1> SUFFICES ASSUME Inv, FullscreenRequested(w, on) \/ MinimizeRequested(w) PROVE Inv'
  OBVIOUS
<1> DEFINE win == IF FullscreenRequested(w, on)
                  THEN [state.windows[w] EXCEPT !.fullscreen = on]
                  ELSE [state.windows[w] EXCEPT !.minimized = TRUE]
<1>1. win \in WindowType
  BY DEF Inv, TypeOK, IsState, WindowType
<1>2. state' = [state EXCEPT !.windows[w] = win]
  BY DEF Inv, TypeOK, IsState, FullscreenRequested, MinimizeRequested
<1> HIDE DEF win
<1>3. Keeps(state, state')
  BY <1>1, <1>2, WindowChanged DEF Inv, TypeOK, TagOwnership
<1>4. QED
  BY <1>3, PlainStep DEF FullscreenRequested, MinimizeRequested, RiverEvent

\* The pointer enters a window.
LEMMA PointerEnterInv ==
  ASSUME NEW w \in WindowIds(state)
  PROVE  Inv /\ PointerEnter(w) => Inv'
<1> SUFFICES ASSUME Inv, PointerEnter(w) PROVE Inv'
  OBVIOUS
<1>1. state' = IF FocusFollowsMouse THEN focus_window_on_output(state, w) ELSE state
  BY DEF PointerEnter
<1>2. Keeps(state, state')
  <2>1. Keeps(state, focus_window_on_output(state, w))
    BY FocusWindowKeeps DEF Inv, TypeOK, TagOwnership
  <2>2. Keeps(state, state)
    BY DEF Inv, TypeOK, TagOwnership, Keeps
  <2>3. QED
    BY <1>1, <2>1, <2>2
<1>3. QED
  BY <1>2, PlainStep DEF PointerEnter, RiverEvent

\* A window is clicked or picked in a taskbar.
LEMMA WindowInteractionInv ==
  ASSUME NEW w \in WindowIds(state)
  PROVE  Inv /\ WindowInteraction(w) => Inv'
<1> SUFFICES ASSUME Inv, WindowInteraction(w) PROVE Inv'
  OBVIOUS
<1> DEFINE wins == [state.windows EXCEPT ![w].minimized = FALSE]
           mid == [state EXCEPT !.windows = wins]
<1>1. wins \in [WindowIds(state) -> WindowType] /\ WindowIds(state) \in SUBSET Nat
  BY DEF Inv, TypeOK, IsState, WindowIds, WindowType
<1>2. state' = focus_window_on_output(mid, w)
  BY DEF WindowInteraction, Inv, TypeOK, IsState
<1> HIDE DEF wins
<1>3. IsState(mid) /\ WindowIds(mid) = WindowIds(state) /\ SameTags(state, mid)
  BY <1>1, WindowsReplaced DEF Inv, TypeOK
<1> HIDE DEF mid
<1>4. Keeps(mid, state')
  BY <1>2, <1>3, FocusWindowKeeps, SameTagTable DEF Inv, TagOwnership
<1>5. Keeps(state, state')
  BY <1>3, <1>4 DEF Keeps, SameTags
<1>6. QED
  BY <1>5, PlainStep DEF WindowInteraction, RiverEvent

\* The socket focuses a window.
LEMMA CmdFocusWindowInv ==
  ASSUME NEW w \in WindowIds(state)
  PROVE  Inv /\ CmdFocusWindow(w) => Inv'
<1> SUFFICES ASSUME Inv, CmdFocusWindow(w) PROVE Inv'
  OBVIOUS
<1> DEFINE tag == state.windows[w].tag
           o == tag_owner(state, tag)
           a == [state EXCEPT !.focused_output = o]
           b == switch_active_tag(a, o, tag)
           c == [b EXCEPT !.outputs[o].focused_window = w]
<1>0. IsState(state) /\ TagTable(state)
  BY DEF Inv, TypeOK, TagOwnership
<1>1. state' = IF o \in OutputIdx(state) THEN c ELSE state
  BY DEF CmdFocusWindow, FocusWindowOf
<1>2. CASE o \notin OutputIdx(state)
  <2>1. Keeps(state, state')
    BY <1>0, <1>1, <1>2 DEF Keeps
  <2>2. QED
    BY <2>1, PlainStep DEF CmdFocusWindow, Command, RequestManage
<1>3. CASE o \in OutputIdx(state)
  <2>1. tag \in Tags /\ w \in Nat
    BY <1>0 DEF IsState, WindowType
  <2>2. state.tags[tag] = o
    BY <2>1 DEF tag_owner
  <2>3. state' = c
    BY <1>1, <1>3
  <2> HIDE DEF o, tag
  <2>4. Keeps(state, a) /\ a.tags = state.tags
    BY <1>0, <1>3, FocusSet
  <2> HIDE DEF a
  <2>5. Shows(a, b, o, tag)
    BY <1>3, <2>1, <2>4, SwitchShows DEF Keeps
  <2> HIDE DEF b
  <2>6. TagTable(b)
    BY <1>3, <2>1, <2>2, <2>4, <2>5, ShowOwnTag DEF Keeps
  <2>7. IsState(c) /\ WindowIds(c) = WindowIds(b) /\ SameTags(b, c)
    BY <1>3, <2>1, <2>4, <2>5, SetFocusedWindow DEF Keeps, Shows
  <2> HIDE DEF c
  <2>8. TagTable(c)
    BY <2>6, <2>7, SameTagTable
  <2>9. Keeps(state, c)
    BY <2>4, <2>5, <2>7, <2>8 DEF Keeps, Shows, SameTags
  <2>10. QED
    BY <2>3, <2>9, PlainStep DEF CmdFocusWindow, Command, RequestManage
<1>4. QED
  BY <1>2, <1>3

-----------------------------------------------------------------------------
(***************************************************************************)
(* Outputs.                                                                *)
(***************************************************************************)
\* r is s with monitor id plugged in last: it takes the lowest free tag, and the
\* focus if there was no output.
PluggedLast(s, r, id) ==
  LET n == NumOutputs(s)
      free == FreeTags(s)
  IN  /\ OutputIdx(r) = 0 .. n
      /\ r.tags = IF free = {} THEN s.tags ELSE [s.tags EXCEPT ![Min(free)] = n]
      /\ \A o \in OutputIdx(s) : /\ r.outputs[o].id = s.outputs[o].id
                                 /\ r.outputs[o].active_tag = s.outputs[o].active_tag
      /\ r.outputs[n].id = id
      /\ r.outputs[n].active_tag = IF free = {} THEN 0 ELSE Min(free)
      /\ r.focused_output = IF s.focused_output = None THEN n ELSE s.focused_output

\* A new output leaves windows, owners and the other monitors as they are; the
\* first one takes tag 0.
LEMMA PushOutputKeeps ==
  ASSUME NEW s, IsState(s), TagTable(s), NEW id \in OutputIds
  PROVE  LET r == PushOutput(s, id)
         IN  /\ IsState(r) /\ TagTable(r)
             /\ WindowIds(r) = WindowIds(s) /\ r.windows = s.windows
             /\ OutputIdx(r) # {} /\ LiveOutputIds(s) \subseteq LiveOutputIds(r)
             /\ \A t \in Tags : s.tags[t] # None => r.tags[t] # None
             /\ OutputIdx(s) = {} => r.tags[0] # None
             /\ PluggedLast(s, r, id)
<1> DEFINE n == NumOutputs(s)
           outs == [o \in 0 .. n |-> IF o = n THEN NewOutput(id) ELSE s.outputs[o]]
           a == [s EXCEPT !.outputs = outs]
           b == assign_initial_tag(a, n)
           c == [b EXCEPT !.focused_output = IF @ = None THEN n ELSE @]
<1>1. PushOutput(s, id) = c
  BY DEF PushOutput
<1>2. n \in Nat /\ OutputIdx(s) = 0 .. (n - 1)
  BY DEF IsState
<1>3. NewOutput(id) \in OutputType
  BY NumTagsAssumption DEF NewOutput, OutputType, Tags
<1>4. \A o \in 0 .. n : o = n \/ o \in OutputIdx(s)
  BY <1>2
<1>5. outs \in [0 .. n -> OutputType]
  BY <1>3, <1>4 DEF IsState
<1> HIDE DEF n
<1>6. Cardinality(0 .. n) = n + 1
  <2>1. Cardinality(0 .. ((n + 1) - 1)) = n + 1
    BY <1>2, IntervalSize
  <2>2. QED
    BY <1>2, <2>1
<1> HIDE DEF outs
<1>7. /\ a.tags = s.tags /\ a.windows = s.windows /\ a.outputs = outs
      /\ a.focused_output = s.focused_output
      /\ a \in [outputs : {outs}, windows : {s.windows},
                tags : [Tags -> Nat \cup {None}], focused_output : Nat \cup {None},
                resize_mode : BOOLEAN, pending_apply : BOOLEAN]
  BY DEF IsState
<1> HIDE DEF a
<1>8. OutputIdx(a) = 0 .. n /\ NumOutputs(a) = n + 1 /\ 0 .. n = 0 .. ((n + 1) - 1)
  BY <1>2, <1>5, <1>6, <1>7 DEF OutputIdx, NumOutputs
<1>9. IsState(a) /\ WindowIds(a) = WindowIds(s)
  BY <1>2, <1>5, <1>7, <1>8 DEF IsState, WindowIds
<1>10. n \in OutputIdx(a) /\ OutputIdx(a) \ {n} = OutputIdx(s)
  BY <1>2, <1>8
<1>11. OwnersAreOutputs(a)
  BY <1>7, <1>10 DEF TagTable, OwnersAreOutputs
<1>12. \A p \in OutputIdx(a) \ {n} : OwnedTags(a, p) = {} => FreeTags(a) = {}
  BY <1>7, <1>10 DEF TagTable, TaglessOnlyWhenExhausted, OwnedTags, FreeTags
<1>13. OwnedTags(a, n) = {}
  BY <1>2, <1>7, NoneAssumption DEF TagTable, OwnersAreOutputs, OwnedTags
<1>13a. ShownTagIsOwned(a)
  <2>1. \A o \in OutputIdx(s) : a.outputs[o].active_tag = s.outputs[o].active_tag
    BY <1>2, <1>4, <1>7 DEF outs
  <2>2. \A o \in OutputIdx(a) : OwnedTags(a, o) = OwnedTags(s, o)
    BY <1>7 DEF OwnedTags
  <2>3. QED
    BY <1>10, <1>13, <2>1, <2>2 DEF TagTable, ShownTagIsOwned
<1>14. /\ Keeps(a, b) /\ SameScreen(a, b)
       /\ b.tags = IF FreeTags(a) = {} THEN a.tags ELSE [a.tags EXCEPT ![Min(FreeTags(a))] = n]
       /\ \A p \in OutputIdx(a) :
             b.outputs[p].active_tag = IF p = n /\ FreeTags(a) # {} THEN Min(FreeTags(a))
                                       ELSE a.outputs[p].active_tag
       /\ b.focused_output = IF a.focused_output \in OutputIdx(a) THEN a.focused_output ELSE 0
  BY <1>9, <1>10, <1>11, <1>12, <1>13, <1>13a, AssignInitialKeeps
<1> HIDE DEF b
<1>15. c = b
  <2>1. b.focused_output # None
    BY <1>2, <1>10, <1>14, NoneAssumption, <1>8 DEF Keeps, TagTable, FocusIsAnOutput
  <2>2. QED
    BY <1>14, <2>1 DEF Keeps, IsState
<1>16. LiveOutputIds(s) \subseteq LiveOutputIds(b)
  <2>1. \A o \in OutputIdx(s) : o # n /\ o \in OutputIdx(a) /\ o \in 0 .. n
    BY <1>2, <1>8, <1>10
  <2>2. \A o \in OutputIdx(s) : a.outputs[o].id = s.outputs[o].id
    BY <1>7, <2>1 DEF outs
  <2>3. QED
    BY <1>14, <2>1, <2>2 DEF LiveOutputIds, Keeps, SameScreen
<1>17. n # None /\ a.tags \in [Tags -> Nat \cup {None}]
  BY <1>2, <1>9, NoneAssumption DEF IsState
<1>18. \A t \in Tags : a.tags[t] # None => b.tags[t] # None
  BY <1>14, <1>17
<1>19. ASSUME OutputIdx(s) = {} PROVE b.tags[0] # None
  <2>1. FreeTags(a) = Tags /\ 0 \in Tags
    BY <1>7, <1>19, NumTagsAssumption DEF TagTable, OwnersAreOutputs, FreeTags, Tags
  <2>2. Tags \in SUBSET Nat /\ Tags # {}
    BY NumTagsAssumption DEF Tags
  <2>3. Min(Tags) \in Nat /\ Min(Tags) =< 0
    BY <2>1, <2>2, MinInSet
  <2>4. QED
    BY <1>14, <1>17, <2>1, <2>3
<1>20. PluggedLast(s, b, id)
  <2>1. FreeTags(a) = FreeTags(s)
    BY <1>7 DEF FreeTags
  <2>2. ASSUME NEW o \in OutputIdx(s)
        PROVE  /\ b.outputs[o].id = s.outputs[o].id
               /\ b.outputs[o].active_tag = s.outputs[o].active_tag
    <3>1. o # n /\ o \in OutputIdx(a) /\ o \in 0 .. n
      BY <1>2, <1>8, <1>10
    <3>2. a.outputs[o] = s.outputs[o]
      BY <1>7, <3>1 DEF outs
    <3>3. QED
      BY <1>14, <3>1, <3>2 DEF SameScreen
  <2>3. a.outputs[n] = NewOutput(id)
    BY <1>2, <1>7 DEF outs
  <2>4. b.outputs[n].id = id /\ b.outputs[n].active_tag = IF FreeTags(s) = {} THEN 0 ELSE Min(FreeTags(s))
    BY <1>10, <1>14, <2>1, <2>3 DEF SameScreen, NewOutput
  <2>5. b.focused_output = IF s.focused_output = None THEN n ELSE s.focused_output
    <3>1. CASE OutputIdx(s) = {}
      <4>1. s.focused_output = None /\ n = 0
        BY <1>2, <3>1 DEF TagTable, FocusIsAnOutput
      <4>2. a.focused_output \notin OutputIdx(a)
        BY <1>7, <1>8, <4>1, NoneAssumption
      <4>3. QED
        BY <1>14, <4>1, <4>2
    <3>2. CASE OutputIdx(s) # {}
      <4>1. s.focused_output \in OutputIdx(s) /\ s.focused_output # None
        BY <1>2, <3>2, NoneAssumption DEF TagTable, FocusIsAnOutput
      <4>2. QED
        BY <1>7, <1>10, <1>14, <4>1
    <3>3. QED
      BY <3>1, <3>2
  <2>6. OutputIdx(b) = 0 .. n
    BY <1>8, <1>14 DEF Keeps
  <2>7. b.tags = IF FreeTags(s) = {} THEN s.tags ELSE [s.tags EXCEPT ![Min(FreeTags(s))] = n]
    BY <1>7, <1>14, <2>1
  <2>8. QED
    BY <2>2, <2>4, <2>5, <2>6, <2>7 DEF PluggedLast, n
<1>21. QED
  BY <1>1, <1>7, <1>9, <1>10, <1>14, <1>15, <1>16, <1>18, <1>19, <1>20 DEF Keeps, SameScreen

\* A new output.
LEMMA OutputCreatedInv ==
  ASSUME NEW id \in OutputIds
  PROVE  Inv /\ OutputCreated(id) => Inv'
<1> SUFFICES ASSUME Inv, OutputCreated(id) PROVE Inv'
  OBVIOUS
<1>1. IsState(state') /\ TagTable(state') /\ WindowIds(state') = WindowIds(state)
  BY PushOutputKeeps DEF Inv, TypeOK, TagOwnership, OutputCreated
<1>2. IsRiver(state', river')
  BY <1>1 DEF Inv, TypeOK, IsRiver, OutputCreated, RiverEvent
<1>3. QED
  BY <1>1, <1>2, Assemble DEF Inv, TypeOK, OutputCreated

\* An output is unplugged.
LEMMA OutputRemovedInv ==
  ASSUME NEW idx \in OutputIdx(state)
  PROVE  Inv /\ OutputRemoved(idx) => Inv'
<1> SUFFICES ASSUME Inv, OutputRemoved(idx) PROVE Inv'
  OBVIOUS
<1> DEFINE id == state.outputs[idx].id
           fs == [w \in WindowIds(state) |->
                    IF river.fullscreen[w] = id THEN None ELSE river.fullscreen[w]]
<1>1. IsState(state') /\ TagTable(state') /\ WindowIds(state') = WindowIds(state)
  BY RemoveOutputKeeps DEF Inv, TypeOK, TagOwnership, OutputRemoved
<1>2. fs \in [WindowIds(state') -> OutputIds \cup {None}]
  BY <1>1 DEF Inv, TypeOK, IsRiver
<1>3. river' = [river EXCEPT !.dirty = TRUE, !.fullscreen = fs,
                  !.layer_default = IF @ = id THEN None ELSE @,
                  !.pointer = IF @ = id THEN None ELSE @]
  BY DEF OutputRemoved
<1> HIDE DEF fs
<1>4. IsRiver(state', river')
  BY <1>2, <1>3 DEF Inv, TypeOK, IsRiver
<1>5. app' \in AppType /\ app'.next_window_id = app.next_window_id
      /\ history' \in HistoryType
  BY DEF Inv, TypeOK, AppType, HistoryType, OutputRemoved, ResetLayerDefault
<1>6. QED
  BY <1>1, <1>4, <1>5, Assemble DEF Inv, TypeOK

\* An output moves or is resized.
LEMMA OutputChangedInv == Inv /\ OutputChanged => Inv'
<1> SUFFICES ASSUME Inv, OutputChanged PROVE Inv'
  OBVIOUS
<1>1. Keeps(state, state')
  BY NormalizeKeeps DEF Inv, TypeOK, TagOwnership, TagTable, OutputChanged, repair_outputs
<1>2. QED
  BY <1>1, PlainStep DEF OutputChanged, RiverEvent

\* An event that changes nothing.
LEMMA OtherEventInv == Inv /\ OtherEvent => Inv'
<1> SUFFICES ASSUME Inv, OtherEvent PROVE Inv'
  OBVIOUS
<1>1. Keeps(state, state')
  BY DEF Inv, TypeOK, TagOwnership, Keeps, OtherEvent
<1>2. QED
  BY <1>1, PlainStep DEF OtherEvent, RiverEvent

\* The pointer or the socket moves the focus to an output.
LEMMA FocusedOutputInv ==
  ASSUME NEW o \in OutputIdx(state)
  PROVE  Inv /\ (PointerPosition(o) \/ CmdFocusOutput(o)) => Inv'
<1> SUFFICES ASSUME Inv, PointerPosition(o) \/ CmdFocusOutput(o) PROVE Inv'
  OBVIOUS
<1>1. Keeps(state, state')
  BY FocusSet DEF Inv, TypeOK, TagOwnership, PointerPosition, CmdFocusOutput
<1>2. IsRiver(state', river')
  <2>1. state.outputs[o].id \in OutputIds
    BY DEF Inv, TypeOK, IsState, OutputType
  <2>2. QED
    BY <1>1, <2>1 DEF Inv, TypeOK, IsRiver, Keeps, PointerPosition, CmdFocusOutput, Command,
                      RequestManage
<1>3. QED
  BY <1>1, <1>2, Assemble DEF Inv, TypeOK, Keeps, PointerPosition, CmdFocusOutput

-----------------------------------------------------------------------------
(***************************************************************************)
(* Keys and commands.                                                      *)
(***************************************************************************)
\* The close key.
LEMMA KeyCloseInv == Inv /\ KeyClose => Inv'
<1> SUFFICES ASSUME Inv, KeyClose PROVE Inv'
  OBVIOUS
<1>1. Keeps(state, state')
  BY DEF Inv, TypeOK, TagOwnership, Keeps, KeyClose
<1>2. FocusedWindow(state) \in Nat
  <2>1. active_output(state) # None => active_output(state) \in OutputIdx(state)
    BY DEF Inv, TypeOK, TagOwnership, TagTable, FocusIsAnOutput, IsState, active_output
  <2>2. QED
    BY <2>1 DEF Inv, TypeOK, IsState, OutputType, KeyClose, FocusedWindow
<1>3. app' \in AppType /\ app'.next_window_id = app.next_window_id
  BY <1>2 DEF Inv, TypeOK, AppType, KeyClose
<1>4. QED
  BY <1>1, <1>3, SimpleStep DEF Inv, TypeOK, KeyClose, RiverEvent

\* The active output is an output, or there is none.
LEMMA ActiveIsOutput ==
  ASSUME Inv
  PROVE  active_output(state) \in OutputIdx(state) \cup {None}
BY DEF Inv, TypeOK, TagOwnership, TagTable, FocusIsAnOutput, IsState, active_output

\* A cycle ends on a window of the shown tag.
LEMMA CycleInSet ==
  ASSUME NEW k \in Nat, NEW ids \in SUBSET (1 .. k), ids # {}, NEW focused,
         NEW forward \in BOOLEAN
  PROVE  CycleFrom(ids, focused, forward) \in ids
<1> DEFINE cur == IF focused \in ids THEN focused ELSE Min(ids)
           after == {w \in ids : w > cur}
           before == {w \in ids : w < cur}
<1>0. after \subseteq ids /\ before \subseteq ids
  BY Zenon
<1>1. ids \in SUBSET Nat /\ after \in SUBSET Nat /\ before \in SUBSET (1 .. k)
  <2> HIDE DEF after, before
  <2>1. QED
    BY <1>0
<1>2. Min(ids) \in ids /\ Max(ids) \in ids
  BY <1>1, MinInSet, MaxInSet
<1>3. after # {} => Min(after) \in after
  BY <1>1, MinInSet
<1>4. before # {} => Max(before) \in before
  BY <1>1, MaxInSet
<1>5. CycleFrom(ids, focused, forward) =
        IF forward THEN (IF after = {} THEN Min(ids) ELSE Min(after))
        ELSE (IF before = {} THEN Max(ids) ELSE Max(before))
  BY DEF CycleFrom
<1> HIDE DEF after, before
<1>6. QED
  BY <1>0, <1>2, <1>3, <1>4, <1>5

\* The focus_next and focus_prev keys.
LEMMA KeyCycleInv ==
  ASSUME NEW forward \in BOOLEAN
  PROVE  Inv /\ KeyCycle(forward) => Inv'
<1> SUFFICES ASSUME Inv, KeyCycle(forward) PROVE Inv'
  OBVIOUS
<1> DEFINE o == active_output(state)
           ids == ShownWindows(state, o)
           k == app.next_window_id - 1
           f == CycleFrom(ids, state.outputs[o].focused_window, forward)
<1>0. IsState(state) /\ TagTable(state) /\ k \in Nat
  BY DEF Inv, TypeOK, TagOwnership, AppType
<1>1. o \in OutputIdx(state)
  BY ActiveIsOutput DEF KeyCycle
<1>2. ids \in SUBSET (1 .. k) /\ ids # {}
  BY DEF Inv, TypeOK, ShownWindows, KeyCycle
<1>3. state' = [state EXCEPT !.outputs[o].focused_window = f]
  BY DEF KeyCycle
<1> HIDE DEF o, ids, k
<1>4. f \in ids
  BY <1>0, <1>2, CycleInSet
<1> HIDE DEF f
<1>4a. f \in Nat
  BY <1>0, <1>2, <1>4
<1>5. IsState(state') /\ WindowIds(state') = WindowIds(state) /\ SameTags(state, state')
  BY <1>0, <1>1, <1>3, <1>4a, SetFocusedWindow
<1>6. TagTable(state')
  BY <1>0, <1>5, SameTagTable
<1>7. Keeps(state, state')
  BY <1>5, <1>6 DEF Keeps, SameTags
<1>8. QED
  BY <1>7, PlainStep DEF KeyCycle, RiverEvent

\* The focus_tag key.
LEMMA KeyFocusTagInv ==
  ASSUME NEW tag
  PROVE  Inv /\ KeyFocusTag(tag) => Inv'
<1> SUFFICES ASSUME Inv, KeyFocusTag(tag) PROVE Inv'
  OBVIOUS
<1> DEFINE o == active_output(state)
           owner == tag_owner(state, tag)
           target == IF o = None \/ owner = o THEN None ELSE owner
<1>0. IsState(state) /\ TagTable(state)
  BY DEF Inv, TypeOK, TagOwnership
<1>1. Keeps(state, state')
  <2>1. Keeps(state, state) /\ Keeps(state, focus_tag(state, o, tag))
    BY <1>0, FocusTagKeeps DEF Keeps
  <2>2. QED
    BY <2>1 DEF KeyFocusTag
<1>2. target \in OutputIdx(state) \cup {None}
  BY <1>0 DEF TagTable, OwnersAreOutputs, tag_owner
<1>3. /\ target \in Nat \cup {None}
      /\ target # None => state.outputs[target].id \in OutputIds
  BY <1>0, <1>2 DEF IsState, OutputType
<1> HIDE DEF target
<1>4. app' = [app EXCEPT !.pending_pointer_warp = target]
      /\ history' = [history EXCEPT !.warp_goal =
                       IF target = None THEN None ELSE state.outputs[target].id]
  BY DEF KeyFocusTag, target
<1>5. app' \in AppType /\ app'.next_window_id = app.next_window_id
      /\ history' \in HistoryType
  BY <1>3, <1>4 DEF Inv, TypeOK, AppType, HistoryType
<1>6. QED
  BY <1>1, <1>5, SimpleStep DEF KeyFocusTag, RiverEvent

\* The tag commands of keys and socket.
LEMMA TagCommandInv ==
  ASSUME NEW tag, NEW o
  PROVE  Inv /\ (KeySendToTag(tag) \/ CmdSendToTag(tag) \/ CmdFocusTag(tag, o)) => Inv'
<1> SUFFICES ASSUME Inv, KeySendToTag(tag) \/ CmdSendToTag(tag) \/ CmdFocusTag(tag, o)
             PROVE  Inv'
  OBVIOUS
<1>1. Keeps(state, state)
  BY DEF Inv, TypeOK, TagOwnership, Keeps
<1>2. Keeps(state, send_focused_to_tag(state, active_output(state), tag))
  BY SendFocusedKeeps DEF Inv, TypeOK, TagOwnership
<1>3. Keeps(state, focus_tag(state, o, tag))
  BY FocusTagKeeps DEF Inv, TypeOK, TagOwnership
<1>4. Keeps(state, state')
  BY <1>1, <1>2, <1>3 DEF KeySendToTag, CmdSendToTag, CmdFocusTag
<1>5. QED
  BY <1>4, PlainStep DEF KeySendToTag, CmdSendToTag, CmdFocusTag, RiverEvent, Command,
                         RequestManage

\* The fullscreen key.
LEMMA KeyFullscreenInv == Inv /\ KeyFullscreen => Inv'
<1> SUFFICES ASSUME Inv, KeyFullscreen PROVE Inv'
  OBVIOUS
<1> DEFINE w == FocusedWindow(state)
           win == [state.windows[w] EXCEPT !.fullscreen = ~@]
<1>1. w \in WindowIds(state)
  BY DEF KeyFullscreen
<1>2. win \in WindowType
  BY <1>1 DEF Inv, TypeOK, IsState, WindowType
<1>3. state' = [state EXCEPT !.windows[w] = win]
  BY DEF KeyFullscreen, Inv, TypeOK, IsState
<1> HIDE DEF w, win
<1>4. Keeps(state, state')
  BY <1>1, <1>2, <1>3, WindowChanged DEF Inv, TypeOK, TagOwnership
<1>5. QED
  BY <1>4, PlainStep DEF KeyFullscreen, RiverEvent

\* The focus_next_output and focus_prev_output keys.
LEMMA KeyFocusOutputInv ==
  ASSUME NEW forward \in BOOLEAN
  PROVE  Inv /\ KeyFocusOutput(forward) => Inv'
<1> SUFFICES ASSUME Inv, KeyFocusOutput(forward) PROVE Inv'
  OBVIOUS
<1> DEFINE n == NumOutputs(state)
           cur == IF state.focused_output = None THEN 0 ELSE state.focused_output
           next == IF forward THEN (IF cur + 1 = n THEN 0 ELSE cur + 1)
                   ELSE (IF cur = 0 THEN n - 1 ELSE cur - 1)
<1>0. IsState(state) /\ TagTable(state)
  BY DEF Inv, TypeOK, TagOwnership
<1>1. n \in Nat /\ OutputIdx(state) = 0 .. (n - 1) /\ n > 1
  BY <1>0 DEF IsState, KeyFocusOutput
<1>2. cur \in OutputIdx(state)
  BY <1>0, <1>1 DEF TagTable, FocusIsAnOutput
<1>3. state' = [state EXCEPT !.focused_output = next]
      /\ app' = [app EXCEPT !.pending_pointer_warp = next]
      /\ history' = [history EXCEPT !.warp_goal = state.outputs[next].id]
      /\ river' = [river EXCEPT !.dirty = TRUE]
  BY DEF KeyFocusOutput, RiverEvent
<1> HIDE DEF n, cur
<1>4. next \in OutputIdx(state) /\ next \in Nat
  BY <1>1, <1>2
<1> HIDE DEF next
<1>5. state.outputs[next].id \in OutputIds
  BY <1>0, <1>4 DEF IsState, OutputType
<1>6. Keeps(state, state')
  BY <1>0, <1>3, <1>4, FocusSet
<1>7. app' \in AppType /\ app'.next_window_id = app.next_window_id
      /\ history' \in HistoryType
  BY <1>3, <1>4, <1>5 DEF Inv, TypeOK, AppType, HistoryType
<1>8. QED
  BY <1>3, <1>6, <1>7, SimpleStep

\* The keys that enter and leave resize mode.
LEMMA ResizeModeInv == Inv /\ (KeyToggleResize \/ KeyExitResize) => Inv'
<1> SUFFICES ASSUME Inv, KeyToggleResize \/ KeyExitResize PROVE Inv'
  OBVIOUS
<1>1. Keeps(state, state')
  <2>1. PICK mode \in BOOLEAN : state' = [state EXCEPT !.resize_mode = mode]
    BY DEF KeyToggleResize, KeyExitResize, Inv, TypeOK, IsState
  <2>2. IsState(state') /\ WindowIds(state') = WindowIds(state)
    BY <2>1 DEF Inv, TypeOK, IsState, OutputIdx, WindowIds, NumOutputs
  <2>3. SameTags(state, state')
    BY <2>1 DEF Inv, TypeOK, IsState, SameTags, OutputIdx
  <2>4. TagTable(state')
    BY <2>3, SameTagTable DEF Inv, TagOwnership
  <2>5. QED
    BY <2>2, <2>3, <2>4 DEF Keeps, SameTags
<1>2. QED
  BY <1>1, PlainStep DEF KeyToggleResize, KeyExitResize, RiverEvent

\* The resize keys.
LEMMA KeyResizeStepInv == Inv /\ KeyResizeStep => Inv'
<1> SUFFICES ASSUME Inv, KeyResizeStep PROVE Inv'
  OBVIOUS
<1> DEFINE r == clear_fullscreen_on_tag(state, state.outputs[active_output(state)].active_tag)
<1>1. IsState(r) /\ WindowIds(r) = WindowIds(state) /\ SameTags(state, r)
  BY ClearFullscreen DEF Inv, TypeOK
<1>2. state' = r \/ state' = state
  BY DEF KeyResizeStep
<1> HIDE DEF r
<1>3. TagTable(r)
  BY <1>1, SameTagTable DEF Inv, TagOwnership
<1>4. Keeps(state, r) /\ Keeps(state, state)
  BY <1>1, <1>3 DEF Keeps, SameTags, Inv, TypeOK, TagOwnership
<1>5. Keeps(state, state')
  BY <1>2, <1>4
<1>6. QED
  BY <1>5, PlainStep DEF KeyResizeStep, RiverEvent

-----------------------------------------------------------------------------
(***************************************************************************)
(* The event loop, the manage and the render sequence.                     *)
(***************************************************************************)
\* flush_pending.
LEMMA FlushInv == Inv /\ flush_pending => Inv'
<1> SUFFICES ASSUME Inv, flush_pending PROVE Inv'
  OBVIOUS
<1>1. state' = [state EXCEPT !.pending_apply = FALSE]
  BY DEF flush_pending
<1>2. IsState(state') /\ WindowIds(state') = WindowIds(state) /\ SameTags(state, state')
  BY <1>1 DEF Inv, TypeOK, IsState, OutputIdx, WindowIds, NumOutputs, SameTags
<1>3. TagTable(state')
  BY <1>2, SameTagTable DEF Inv, TagOwnership
<1>4. Keeps(state, state')
  BY <1>2, <1>3 DEF Keeps, SameTags
<1>5. QED
  BY <1>4, PlainStep DEF flush_pending, RequestManage

\* The fullscreen pass of a manage sequence changes flags only.
LEMMA ApplyFullscreenKeeps ==
  ASSUME NEW s, IsState(s), TagTable(s), NEW r
  PROVE  Keeps(s, ApplyFullscreen(s, r))
<1> DEFINE pass(w) == FullscreenPass(s, r.fullscreen[w], w)
           wins == [w \in WindowIds(s) |->
                      [s.windows[w] EXCEPT !.fullscreen = pass(w).wanted,
                                           !.fullscreen_applied = pass(w).applied]]
           a == ApplyFullscreen(s, r)
<1>1. ASSUME NEW w \in WindowIds(s)
      PROVE  pass(w).wanted \in BOOLEAN /\ pass(w).applied \in BOOLEAN
  <2>1. s.windows[w].fullscreen \in BOOLEAN /\ s.windows[w].fullscreen_applied \in BOOLEAN
    BY DEF IsState, WindowType
  <2>2. QED
    BY <2>1, Zenon DEF FullscreenPass
<1> HIDE DEF pass
<1>2. ASSUME NEW w \in WindowIds(s) PROVE wins[w] \in WindowType
  BY <1>1 DEF IsState, WindowType
<1>3. wins \in [WindowIds(s) -> WindowType] /\ WindowIds(s) \in SUBSET Nat
  BY <1>2 DEF IsState
<1>4. a = [s EXCEPT !.windows = wins]
  BY DEF ApplyFullscreen, pass
<1> HIDE DEF wins, a
<1>5. IsState(a) /\ WindowIds(a) = WindowIds(s) /\ SameTags(s, a)
  BY <1>3, <1>4, WindowsReplaced
<1>6. TagTable(a)
  BY <1>5, SameTagTable
<1>7. QED
  BY <1>5, <1>6 DEF Keeps, SameTags, a

\* A manage sequence.
LEMMA ManageInv == Inv /\ ManageStart => Inv'
<1> SUFFICES ASSUME Inv, ManageStart PROVE Inv'
  OBVIOUS
<1> DEFINE s == RefocusAll(state)
           warp == app.pending_pointer_warp
           setDefault == ~app.layer_default_set /\ OutputIdx(s) # {}
           fs == [w \in WindowIds(s) |-> FullscreenPass(s, river.fullscreen[w], w).on]
           closing == river.closing \cup (app.pending_close \cap WindowIds(s))
           default == IF setDefault THEN s.outputs[0].id ELSE river.layer_default
           keyboard == IF FocusedWindow(s) \in WindowIds(s) THEN FocusedWindow(s) ELSE None
           pointer == IF warp \in OutputIdx(s) THEN s.outputs[warp].id ELSE river.pointer
<1>1. IsState(s) /\ WindowIds(s) = WindowIds(state) /\ SameTags(state, s)
  BY RefocusEvery DEF Inv, TypeOK
<1>2. TagTable(s)
  BY <1>1, SameTagTable DEF Inv, TagOwnership
<1>3. state' = ApplyFullscreen(s, river)
  BY DEF ManageStart, on_manage_start
<1>4. app' = [app EXCEPT !.pending_close = {}, !.pending_pointer_warp = None,
                         !.layer_default_set = @ \/ setDefault]
  BY DEF ManageStart, on_manage_start
<1>5. river' = [river EXCEPT !.dirty = FALSE, !.render_owed = TRUE, !.closing = closing,
                  !.fullscreen = fs, !.layer_default = default, !.keyboard = keyboard,
                  !.resize_keys = s.resize_mode, !.pointer = pointer]
  BY DEF ManageStart, on_manage_start
<1>6. history' = [history EXCEPT !.warp_goal = None]
  BY DEF ManageStart, on_manage_start
<1> HIDE DEF s
<1>7. \A o \in OutputIdx(s) : s.outputs[o].id \in OutputIds
  BY <1>1 DEF IsState, OutputType
<1>8. Keeps(s, state')
  BY <1>1, <1>2, <1>3, ApplyFullscreenKeeps
<1>9. default \in OutputIds \cup {None} /\ pointer \in OutputIds \cup {None}
  <2>1. OutputIdx(s) # {} => 0 \in OutputIdx(s)
    BY <1>1 DEF IsState
  <2>2. river.layer_default \in OutputIds \cup {None} /\ river.pointer \in OutputIds \cup {None}
    BY DEF Inv, TypeOK, IsRiver
  <2>3. QED
    BY <1>7, <2>1, <2>2
<1>10. keyboard \in Nat \cup {None} /\ closing \in SUBSET Nat /\ s.resize_mode \in BOOLEAN
  BY <1>1 DEF IsState, Inv, TypeOK, IsRiver
<1>11. fs \in [WindowIds(s) -> OutputIds \cup {None}]
  <2>1. ASSUME NEW w \in WindowIds(s)
        PROVE  FullscreenPass(s, river.fullscreen[w], w).on \in OutputIds \cup {None}
    <3>1. river.fullscreen[w] \in OutputIds \cup {None}
      BY <1>1 DEF Inv, TypeOK, IsRiver
    <3>2. window_output(s, w) \in OutputIdx(s) =>
            s.outputs[window_output(s, w)].id \in OutputIds
      BY <1>7
    <3>3. QED
      BY <3>1, <3>2 DEF FullscreenPass
  <2>2. QED
    BY <2>1
<1>12. (app.layer_default_set \/ setDefault) \in BOOLEAN
  BY DEF Inv, TypeOK, AppType
<1> HIDE DEF setDefault, fs, closing, default, keyboard, pointer
<1>13. IsRiver(state', river')
  BY <1>1, <1>5, <1>8, <1>9, <1>10, <1>11 DEF Inv, TypeOK, IsRiver, Keeps
<1>14. app' \in AppType /\ app'.next_window_id = app.next_window_id
       /\ history' \in HistoryType
  BY <1>4, <1>6, <1>12 DEF Inv, TypeOK, AppType, HistoryType
<1>15. QED
  BY <1>1, <1>8, <1>13, <1>14, Assemble DEF Inv, TypeOK, Keeps

\* A render sequence.
LEMMA RenderInv == Inv /\ RenderStart => Inv'
<1> SUFFICES ASSUME Inv, RenderStart PROVE Inv'
  OBVIOUS
<1> DEFINE s == release_hidden_nodes(state)
           kept == river.nodes \ {w \in WindowIds(state) : HoldsHiddenNode(state, w)}
           wants == {w \in WindowIds(s) : ~s.windows[w].node /\ window_is_visible(s, w)}
           wins == [w \in WindowIds(s) |-> [s.windows[w] EXCEPT !.node = @ \/ w \in wants]]
           failed == river.node_error \/ wants \cap kept # {}
<1>1. IsState(s) /\ WindowIds(s) = WindowIds(state) /\ SameTags(state, s)
  BY ReleaseKeeps DEF Inv, TypeOK
<1>2. state' = [s EXCEPT !.windows = wins]
  BY DEF RenderStart, on_render_start
<1>3. river' = [river EXCEPT !.render_owed = FALSE, !.nodes = kept \cup wants,
                             !.node_error = failed, !.shown = Placed(s)]
  BY DEF RenderStart, on_render_start
<1> HIDE DEF s
<1>4. ASSUME NEW w \in WindowIds(s) PROVE wins[w] \in WindowType
  <2>1. s.windows[w] \in WindowType
    BY <1>1 DEF IsState
  <2>2. (s.windows[w].node \/ w \in wants) \in BOOLEAN
    OBVIOUS
  <2> HIDE DEF wants
  <2>3. QED
    BY <2>1, <2>2 DEF WindowType
<1>5. wins \in [WindowIds(s) -> WindowType] /\ WindowIds(s) \in SUBSET Nat
  BY <1>1, <1>4 DEF IsState
<1>6. wants \in SUBSET Nat /\ Placed(s) \in SUBSET Nat /\ kept \in SUBSET Nat
      /\ failed \in BOOLEAN
  BY <1>5 DEF Placed, Inv, TypeOK, IsRiver
<1> HIDE DEF wins, wants, kept, failed
<1>7. IsState(state') /\ WindowIds(state') = WindowIds(s) /\ SameTags(s, state')
  BY <1>1, <1>2, <1>5, WindowsReplaced
<1>8. TagTable(state')
  BY <1>1, <1>7, SameTagTable DEF Inv, TagOwnership
<1>9. IsRiver(state', river')
  BY <1>1, <1>3, <1>6, <1>7 DEF Inv, TypeOK, IsRiver
<1>10. QED
  BY <1>1, <1>7, <1>8, <1>9, Assemble DEF Inv, TypeOK, RenderStart, on_render_start

-----------------------------------------------------------------------------

\* A step of nothing.
LEMMA StutterInv == Inv /\ UNCHANGED vars => Inv'
BY DEF Inv, TypeOK, TagOwnership, vars, IsState, OutputIdx, WindowIds, NumOutputs, IsRiver,
       AppType, HistoryType, TagTable, OwnersAreOutputs, FocusIsAnOutput, ShownTagIsOwned,
       TaglessOnlyWhenExhausted, OwnedTags, FreeTags

\* Every step keeps it.
LEMMA NextInv == Inv /\ [Next]_vars => Inv'
<1> SUFFICES ASSUME Inv, [Next]_vars PROVE Inv'
  OBVIOUS
<1>1. CASE WindowStep
  <2>1. CASE WindowCreated
    BY <2>1, WindowCreatedInv
  <2>2. ASSUME NEW w \in WindowIds(state),
               \/ WindowClosed(w)
               \/ \E on \in BOOLEAN : FullscreenRequested(w, on)
               \/ MinimizeRequested(w)
               \/ PointerEnter(w)
               \/ WindowInteraction(w)
               \/ CmdFocusWindow(w)
        PROVE  Inv'
    <3>1. CASE WindowClosed(w)
      BY <3>1, WindowClosedInv
    <3>2. CASE (\E on \in BOOLEAN : FullscreenRequested(w, on)) \/ MinimizeRequested(w)
      BY <3>2, WindowRequestInv
    <3>3. CASE PointerEnter(w)
      BY <3>3, PointerEnterInv
    <3>4. CASE WindowInteraction(w)
      BY <3>4, WindowInteractionInv
    <3>5. CASE CmdFocusWindow(w)
      BY <3>5, CmdFocusWindowInv
    <3>6. QED
      BY <2>2, <3>1, <3>2, <3>3, <3>4, <3>5
  <2>3. QED
    BY <1>1, <2>1, <2>2 DEF WindowStep
<1>2. CASE OutputStep
  <2>1. ASSUME NEW id \in OutputIds, OutputCreated(id) PROVE Inv'
    BY <2>1, OutputCreatedInv
  <2>2. ASSUME NEW o \in OutputIdx(state),
               OutputRemoved(o) \/ PointerPosition(o) \/ CmdFocusOutput(o)
        PROVE  Inv'
    BY <2>2, OutputRemovedInv, FocusedOutputInv
  <2>3. CASE OutputChanged \/ OtherEvent
    BY <2>3, OutputChangedInv, OtherEventInv
  <2>4. QED
    BY <1>2, <2>1, <2>2, <2>3 DEF OutputStep
<1>3. CASE KeyStep
  <2>1. CASE KeyClose \/ KeyFullscreen \/ KeyToggleResize \/ KeyExitResize \/ KeyResizeStep
    BY <2>1, KeyCloseInv, KeyFullscreenInv, ResizeModeInv, KeyResizeStepInv
  <2>2. ASSUME NEW forward \in BOOLEAN, KeyCycle(forward) \/ KeyFocusOutput(forward)
        PROVE  Inv'
    BY <2>2, KeyCycleInv, KeyFocusOutputInv
  <2>3. ASSUME NEW tag \in TagArgs, KeyFocusTag(tag) \/ KeySendToTag(tag) \/ CmdSendToTag(tag)
        PROVE  Inv'
    BY <2>3, KeyFocusTagInv, TagCommandInv
  <2>4. ASSUME NEW tag \in TagArgs, NEW o \in OutputIdx(state) \cup {None},
               CmdFocusTag(tag, o)
        PROVE  Inv'
    BY <2>4, TagCommandInv
  <2>5. QED
    BY <1>3, <2>1, <2>2, <2>3, <2>4 DEF KeyStep
<1>4. CASE Settle
  BY <1>4, FlushInv, ManageInv, RenderInv DEF Settle
<1>5. CASE UNCHANGED vars
  BY <1>5, StutterInv
<1>6. QED
  BY <1>1, <1>2, <1>3, <1>4, <1>5 DEF Next

\* Every reachable state is well typed: in particular outputs are numbered
\* without gaps, and no window id is used twice.
THEOREM TypeCorrect == Spec => []TypeOK
<1>1. Inv => TypeOK
  BY DEF Inv
<1>2. QED
  BY <1>1, InitInv, NextInv, PTL DEF Spec

\* Tag ownership survives every order of plugging, unplugging, key presses and
\* socket commands, whatever the numbers of tags, monitors and windows: no
\* index dangles, no output shows a tag of another while it has one of its
\* own, none stays without a tag while one is free.
THEOREM TagOwnershipHolds == Spec => []TagOwnership
<1>1. Inv => TagOwnership
  BY DEF Inv
<1>2. QED
  BY <1>1, InitInv, NextInv, PTL DEF Spec
-----------------------------------------------------------------------------
(***************************************************************************)
(* What streamwm and river remember of each other.                         *)
(***************************************************************************)
\* r has the windows and monitors of s, with what river mirrors of them; tags
\* owned stay owned, and a window changes to an owned tag only.
Mirrors(s, r) ==
  /\ IsState(r)
  /\ WindowIds(r) = WindowIds(s)
  /\ OutputIdx(r) = OutputIdx(s)
  /\ \A o \in OutputIdx(s) : r.outputs[o].id = s.outputs[o].id
  /\ \A t \in Tags : s.tags[t] # None => r.tags[t] # None
  /\ \A w \in WindowIds(s) :
        /\ r.windows[w].node = s.windows[w].node
        /\ r.windows[w].fullscreen_applied = s.windows[w].fullscreen_applied
        /\ r.windows[w].tag = s.windows[w].tag \/ r.tags[r.windows[w].tag] # None

\* Doing nothing leaves the mirror alone.
LEMMA MirrorsSelf ==
  ASSUME NEW s, IsState(s)
  PROVE  Mirrors(s, s)
BY DEF Mirrors

\* Two such operations in a row are one.
LEMMA MirrorsTwice ==
  ASSUME NEW s, NEW r, NEW q, Mirrors(s, r), Mirrors(r, q)
  PROVE  Mirrors(s, q)
<1>1. \A w \in WindowIds(r) : r.windows[w].tag \in Tags
  BY DEF Mirrors, IsState, WindowType
<1>2. \A w \in WindowIds(s) :
        q.windows[w].tag = s.windows[w].tag \/ q.tags[q.windows[w].tag] # None
  <2>1. TAKE w \in WindowIds(s)
  <2>2. CASE q.windows[w].tag = r.windows[w].tag /\ r.windows[w].tag # s.windows[w].tag
    BY <1>1, <2>2 DEF Mirrors
  <2>3. CASE q.windows[w].tag # r.windows[w].tag
    BY <2>3 DEF Mirrors
  <2>4. QED
    BY <2>2, <2>3
<1>3. QED
  BY <1>2 DEF Mirrors

-----------------------------------------------------------------------------
(***************************************************************************)
(* The operators.                                                          *)
(***************************************************************************)
\* Outputs may change focus and shown tag.
LEMMA OutputsMirror ==
  ASSUME NEW s, IsState(s), NEW outs \in [OutputIdx(s) -> OutputType],
         \A o \in OutputIdx(s) : outs[o].id = s.outputs[o].id
  PROVE  LET r == [s EXCEPT !.outputs = outs]
         IN  Mirrors(s, r) /\ r.tags = s.tags /\ r.windows = s.windows
<1> DEFINE r == [s EXCEPT !.outputs = outs]
<1>1. r.windows = s.windows /\ r.tags = s.tags /\ r.focused_output = s.focused_output
      /\ r.resize_mode = s.resize_mode /\ r.pending_apply = s.pending_apply
      /\ r.outputs = outs
  BY DEF IsState
<1>2. r \in [outputs : {outs}, windows : {s.windows}, tags : [Tags -> Nat \cup {None}],
             focused_output : Nat \cup {None}, resize_mode : BOOLEAN, pending_apply : BOOLEAN]
  BY DEF IsState
<1> HIDE DEF r
<1>3. IsState(r) /\ WindowIds(r) = WindowIds(s) /\ OutputIdx(r) = OutputIdx(s)
  BY <1>1, <1>2 DEF IsState, OutputIdx, WindowIds, NumOutputs
<1>4. QED
  BY <1>1, <1>3 DEF Mirrors, r

\* Windows may change their wishes.
LEMMA WindowsMirror ==
  ASSUME NEW s, IsState(s), NEW wins \in [WindowIds(s) -> WindowType],
         \A w \in WindowIds(s) :
            /\ wins[w].tag = s.windows[w].tag
            /\ wins[w].node = s.windows[w].node
            /\ wins[w].fullscreen_applied = s.windows[w].fullscreen_applied
  PROVE  LET r == [s EXCEPT !.windows = wins]
         IN  Mirrors(s, r) /\ r.tags = s.tags /\ r.outputs = s.outputs
<1> DEFINE r == [s EXCEPT !.windows = wins]
<1>1. r.windows = wins /\ r.tags = s.tags /\ r.outputs = s.outputs
  BY DEF IsState
<1>2. WindowIds(s) \in SUBSET Nat
  BY DEF IsState
<1>3. IsState(r) /\ WindowIds(r) = WindowIds(s) /\ SameTags(s, r)
  BY <1>2, WindowsReplaced
<1> HIDE DEF r
<1>4. QED
  BY <1>1, <1>3 DEF Mirrors, SameTags, r

\* refocus_output moves a focus only.
LEMMA RefocusMirrors ==
  ASSUME NEW s, IsState(s), NEW o \in OutputIdx(s), NEW f \in Nat \cup {None}
  PROVE  Mirrors(s, [s EXCEPT !.outputs[o].focused_window = f])
<1> DEFINE outs == [s.outputs EXCEPT ![o].focused_window = f]
<1>1. outs \in [OutputIdx(s) -> OutputType]
      /\ \A p \in OutputIdx(s) : outs[p].id = s.outputs[p].id
  BY DEF IsState, OutputIdx, OutputType
<1>2. [s EXCEPT !.outputs[o].focused_window = f] = [s EXCEPT !.outputs = outs]
  BY DEF IsState
<1> HIDE DEF outs
<1>3. QED
  BY <1>1, <1>2, OutputsMirror

\* clear_fullscreen_on_tag drops wishes: what was applied stays on record
\* until the next manage sequence.
LEMMA ClearMirrors ==
  ASSUME NEW s, IsState(s), NEW tag
  PROVE  Mirrors(s, clear_fullscreen_on_tag(s, tag))
<1> DEFINE wins == [w \in WindowIds(s) |->
                      IF s.windows[w].tag = tag THEN [s.windows[w] EXCEPT !.fullscreen = FALSE]
                      ELSE s.windows[w]]
<1>1. ASSUME NEW w \in WindowIds(s)
      PROVE  /\ wins[w] \in WindowType
             /\ wins[w].tag = s.windows[w].tag
             /\ wins[w].node = s.windows[w].node
             /\ wins[w].fullscreen_applied = s.windows[w].fullscreen_applied
  BY DEF IsState, WindowType
<1>2. clear_fullscreen_on_tag(s, tag) = [s EXCEPT !.windows = wins]
      /\ wins = [w \in WindowIds(s) |-> wins[w]]
  BY DEF clear_fullscreen_on_tag
<1> HIDE DEF wins
<1>3. wins \in [WindowIds(s) -> WindowType]
  BY <1>1, <1>2
<1>4. QED
  BY <1>1, <1>2, <1>3, WindowsMirror

\* An output shows another tag.
LEMMA ShowMirrors ==
  ASSUME NEW s, IsState(s), NEW o \in OutputIdx(s), NEW tag \in Tags
  PROVE  Mirrors(s, [s EXCEPT !.outputs[o].active_tag = tag])
<1> DEFINE outs == [s.outputs EXCEPT ![o].active_tag = tag]
<1>1. outs \in [OutputIdx(s) -> OutputType]
      /\ \A p \in OutputIdx(s) : outs[p].id = s.outputs[p].id
  BY DEF IsState, OutputIdx, OutputType
<1>2. [s EXCEPT !.outputs[o].active_tag = tag] = [s EXCEPT !.outputs = outs]
  BY DEF IsState
<1> HIDE DEF outs
<1>3. QED
  BY <1>1, <1>2, OutputsMirror

\* An output is given a tag.
LEMMA OwnerMirrors ==
  ASSUME NEW s, IsState(s), NEW o \in OutputIdx(s), NEW tag \in Tags
  PROVE  Mirrors(s, [s EXCEPT !.tags[tag] = o])
<1> DEFINE r == [s EXCEPT !.tags[tag] = o]
<1>1. SetOwner(s, r, tag, o)
  BY OwnerSet
<1>2. o # None
  BY NoneAssumption DEF IsState
<1> HIDE DEF r
<1>3. \A t \in Tags : r.tags[t] = IF t = tag THEN o ELSE s.tags[t]
  BY <1>1 DEF SetOwner, IsState
<1>4. QED
  BY <1>1, <1>2, <1>3 DEF SetOwner, Mirrors, r

\* mark_dirty and a change of the focused output leave it alone.
LEMMA DirtyMirrors ==
  ASSUME NEW s, IsState(s)
  PROVE  Mirrors(s, mark_dirty(s))
BY DEF mark_dirty, IsState, WindowIds, OutputIdx, NumOutputs, Mirrors

LEMMA FocusMirrors ==
  ASSUME NEW s, IsState(s), NEW o \in OutputIdx(s)
  PROVE  Mirrors(s, [s EXCEPT !.focused_output = o])
<1>1. o \in Nat
  BY DEF IsState
<1>2. QED
  BY <1>1 DEF IsState, WindowIds, OutputIdx, NumOutputs, Mirrors

\* activate_tag.
LEMMA ActivateMirrors ==
  ASSUME NEW s, IsState(s), NEW o \in OutputIdx(s), NEW tag \in Tags
  PROVE  Mirrors(s, activate_tag(s, o, tag))
<1> DEFINE a == [s EXCEPT !.outputs[o].active_tag = tag]
           b == clear_fullscreen_on_tag(a, s.outputs[o].active_tag)
           c == refocus_output(b, o)
<1>1. Mirrors(s, a)
  BY ShowMirrors
<1>2. activate_tag(s, o, tag) = c
  BY DEF activate_tag
<1> HIDE DEF a
<1>3. Mirrors(a, b)
  BY <1>1, ClearMirrors DEF Mirrors
<1> HIDE DEF b
<1>4. o \in OutputIdx(b) /\ IsState(b)
  BY <1>1, <1>3 DEF Mirrors
<1>5. Mirrors(b, c)
  BY <1>4, RefocusedIsWindow, RefocusMirrors DEF refocus_output
<1> HIDE DEF c
<1>6. QED
  BY <1>1, <1>2, <1>3, <1>5, MirrorsTwice

\* switch_active_tag.
LEMMA SwitchMirrors ==
  ASSUME NEW s, IsState(s), NEW o \in OutputIdx(s), NEW tag \in Tags
  PROVE  Mirrors(s, switch_active_tag(s, o, tag))
<1> DEFINE a == [s EXCEPT !.outputs[o].active_tag = tag]
           old == s.outputs[o].active_tag
           b == IF old # tag THEN clear_fullscreen_on_tag(a, old) ELSE a
           c == refocus_output(b, o)
<1>1. Mirrors(s, a)
  BY ShowMirrors
<1>2. switch_active_tag(s, o, tag) = c
  BY DEF switch_active_tag
<1> HIDE DEF a
<1>3. Mirrors(a, b)
  BY <1>1, ClearMirrors, MirrorsSelf DEF Mirrors
<1> HIDE DEF b
<1>4. o \in OutputIdx(b) /\ IsState(b)
  BY <1>1, <1>3 DEF Mirrors
<1>5. Mirrors(b, c)
  BY <1>4, RefocusedIsWindow, RefocusMirrors DEF refocus_output
<1> HIDE DEF c
<1>6. QED
  BY <1>1, <1>2, <1>3, <1>5, MirrorsTwice

\* focus_tag.
LEMMA FocusTagMirrors ==
  ASSUME NEW s, IsState(s), OwnersAreOutputs(s), NEW o, NEW tag
  PROVE  Mirrors(s, focus_tag(s, o, tag))
<1> SUFFICES ASSUME tag \in Tags, o \in OutputIdx(s)
             PROVE  Mirrors(s, focus_tag(s, o, tag))
  BY MirrorsSelf DEF focus_tag
<1> DEFINE owner == s.tags[tag]
           claimed == [s EXCEPT !.tags[tag] = o]
           moved == [s EXCEPT !.focused_output = owner]
           a == IF owner = None THEN activate_tag(claimed, o, tag)
                ELSE IF owner = o THEN activate_tag(s, o, tag)
                ELSE activate_tag(moved, owner, tag)
<1>1. focus_tag(s, o, tag) = mark_dirty(a)
  BY DEF focus_tag
<1>2. Mirrors(s, claimed)
  BY OwnerMirrors
<1>3. owner # None => owner \in OutputIdx(s) /\ Mirrors(s, moved)
  BY FocusMirrors DEF OwnersAreOutputs
<1> HIDE DEF claimed, moved, owner
<1>4. Mirrors(claimed, activate_tag(claimed, o, tag))
  BY <1>2, ActivateMirrors DEF Mirrors
<1>5. owner # None => Mirrors(moved, activate_tag(moved, owner, tag))
  BY <1>3, ActivateMirrors DEF Mirrors
<1>6. Mirrors(s, a)
  BY <1>2, <1>3, <1>4, <1>5, ActivateMirrors, MirrorsTwice
<1> HIDE DEF a
<1>7. QED
  BY <1>1, <1>6, DirtyMirrors, MirrorsTwice DEF Mirrors

\* send_focused_to_tag: the window's new tag has an owner.
LEMMA SendFocusedMirrors ==
  ASSUME NEW s, IsState(s), NEW o, NEW tag
  PROVE  Mirrors(s, send_focused_to_tag(s, o, tag))
<1> DEFINE fid == s.outputs[o].focused_window
           table == [s.tags EXCEPT ![tag] = IF @ = None THEN o ELSE @]
           wins == [s.windows EXCEPT ![fid].tag = tag]
           moved == [s EXCEPT !.tags = table, !.windows = wins]
           r == refocus_output(moved, o)
<1> SUFFICES ASSUME tag \in Tags, o \in OutputIdx(s), fid \in WindowIds(s),
                    send_focused_to_tag(s, o, tag) = mark_dirty(r)
             PROVE  Mirrors(s, mark_dirty(r))
  BY MirrorsSelf DEF send_focused_to_tag
<1>1. o \in Nat /\ o # None
  BY NoneAssumption DEF IsState
<1>2. table \in [Tags -> Nat \cup {None}]
  BY <1>1 DEF IsState
<1>3. wins \in [WindowIds(s) -> WindowType]
  BY DEF IsState, WindowIds, WindowType
<1>4. table[tag] # None /\ \A t \in Tags : s.tags[t] # None => table[t] # None
  BY <1>1 DEF IsState
<1>5. \A w \in WindowIds(s) :
         /\ wins[w].node = s.windows[w].node
         /\ wins[w].fullscreen_applied = s.windows[w].fullscreen_applied
         /\ wins[w].tag = s.windows[w].tag \/ wins[w].tag = tag
  BY DEF IsState, WindowIds, WindowType
<1> HIDE DEF table, wins
<1>6. /\ moved.tags = table /\ moved.windows = wins /\ moved.outputs = s.outputs
      /\ moved \in [outputs : {s.outputs}, windows : {wins},
                    tags : [Tags -> Nat \cup {None}], focused_output : Nat \cup {None},
                    resize_mode : BOOLEAN, pending_apply : BOOLEAN]
  BY <1>2 DEF IsState
<1> HIDE DEF moved
<1>7. IsState(moved) /\ WindowIds(moved) = WindowIds(s) /\ OutputIdx(moved) = OutputIdx(s)
  BY <1>3, <1>6 DEF IsState, OutputIdx, WindowIds, NumOutputs
<1>8. Mirrors(s, moved)
  BY <1>4, <1>5, <1>6, <1>7 DEF Mirrors
<1>9. Mirrors(moved, r)
  BY <1>7, RefocusedIsWindow, RefocusMirrors DEF refocus_output
<1> HIDE DEF r
<1>10. Mirrors(s, r) /\ Mirrors(r, mark_dirty(r))
  BY <1>8, <1>9, MirrorsTwice, DirtyMirrors DEF Mirrors
<1>11. QED
  BY <1>10, MirrorsTwice

\* Focusing a window where it lives: pointer, taskbar, socket.
LEMMA FocusWindowMirrors ==
  ASSUME NEW s, IsState(s), NEW w \in WindowIds(s)
  PROVE  Mirrors(s, focus_window_on_output(s, w)) /\ Mirrors(s, FocusWindowOf(s, w))
<1> DEFINE tag == s.windows[w].tag
           o == tag_owner(s, tag)
           a == [s EXCEPT !.focused_output = o]
           b == [a EXCEPT !.outputs[o].focused_window = w]
           c == switch_active_tag(b, o, tag)
           d == switch_active_tag(a, o, tag)
           e == [d EXCEPT !.outputs[o].focused_window = w]
<1>1. tag \in Tags /\ w \in Nat
  BY DEF IsState, WindowType
<1>2. focus_window_needed(s, w) => o \in OutputIdx(s)
  BY DEF focus_window_needed
<1>3. focus_window_on_output(s, w) = IF focus_window_needed(s, w) THEN c ELSE s
  BY DEF focus_window_on_output, IsState
<1>4. FocusWindowOf(s, w) = IF o \in OutputIdx(s) THEN e ELSE s
  BY DEF FocusWindowOf
<1> HIDE DEF o, tag
<1>5. SUFFICES ASSUME o \in OutputIdx(s) PROVE Mirrors(s, c) /\ Mirrors(s, e)
  BY <1>2, <1>3, <1>4, MirrorsSelf
<1>6. Mirrors(s, a)
  BY <1>5, FocusMirrors
<1> HIDE DEF a
<1>7. Mirrors(a, b) /\ Mirrors(a, d)
  BY <1>1, <1>5, <1>6, RefocusMirrors, SwitchMirrors DEF Mirrors
<1> HIDE DEF b, d
<1>8. Mirrors(b, c) /\ Mirrors(d, e)
  BY <1>1, <1>5, <1>6, <1>7, RefocusMirrors, SwitchMirrors DEF Mirrors
<1> HIDE DEF c, e
<1>9. QED
  BY <1>6, <1>7, <1>8, MirrorsTwice

-----------------------------------------------------------------------------
(***************************************************************************)
(* The invariants.  NodesAgree and NothingUnapplied are inductive over     *)
(* Inv; the other two need to be told more.                                *)
(***************************************************************************)
\* As long as nothing was unplugged, no window is on a tag without an owner:
\* windows that came before the first output wait on tag 0, which it takes.
\* (Else a manage sequence would drop the flag of one shown fullscreen.)
WindowsHaveOwners ==
  ~history.unplugged =>
    IF OutputIdx(state) = {}
    THEN \A w \in WindowIds(state) : /\ state.windows[w].tag = 0
                                     /\ ~state.windows[w].fullscreen_applied
    ELSE \A w \in WindowIds(state) : state.tags[state.windows[w].tag] # None

\* layer_default_set is right at all times, and set once a manage sequence has
\* seen an output.
DefaultRemembered ==
  /\ app.layer_default_set => river.layer_default \in LiveOutputIds(state)
  /\ (~river.dirty /\ OutputIdx(state) # {}) => app.layer_default_set

Screen == /\ NodesAgree
          /\ FullscreenAgrees
          /\ WindowsHaveOwners
          /\ DefaultRemembered
          /\ NothingUnapplied

\* The first state shows nothing.
LEMMA InitScreen == Init => Screen
<1> SUFFICES ASSUME Init PROVE Screen
  OBVIOUS
<1>1. OutputIdx(state) = {} /\ WindowIds(state) = {}
  BY DEF Init, NewState, OutputIdx, WindowIds
<1>2. NodesAgree /\ FullscreenAgrees /\ WindowsHaveOwners /\ DefaultRemembered
  BY <1>1 DEF Init, NodesAgree, FullscreenAgrees, WindowsHaveOwners, DefaultRemembered
<1>3. InRiver(state)
  <2>1. KeyboardTarget(state) = None
    BY <1>1 DEF Init, NewState, KeyboardTarget, active_output
  <2>2. state.resize_mode = FALSE
    BY DEF Init, NewState
  <2>3. Placed(state) = {}
    BY <1>1 DEF Placed
  <2>4. QED
    BY <1>1, <2>1, <2>2, <2>3 DEF Init, InRiver
<1>4. QED
  BY <1>2, <1>3 DEF Screen, NothingUnapplied

-----------------------------------------------------------------------------
(***************************************************************************)
(* Handlers that leave the mirror alone: all but six.                      *)
(***************************************************************************)
\* A handler that asks for a manage sequence and touches nothing mirrored.
Quiet ==
  /\ Mirrors(state, state')
  /\ river'.dirty
  /\ river'.nodes = river.nodes /\ river'.node_error = river.node_error
  /\ river'.fullscreen = river.fullscreen
  /\ river'.layer_default = river.layer_default
  /\ app'.layer_default_set = app.layer_default_set
  /\ history'.unplugged = history.unplugged

LEMMA QuietStep ==
  ASSUME Inv, Inv', Screen, Quiet
  PROVE  Screen'
<1>1. \A w \in WindowIds(state) :
        state.windows[w].tag \in Tags /\ state'.windows[w].tag \in Tags
  BY DEF Inv, TypeOK, Quiet, Mirrors, IsState, WindowType
<1>2. NodesAgree'
  BY DEF Screen, Quiet, Mirrors, NodesAgree
<1>3. FullscreenAgrees'
  BY DEF Screen, Quiet, Mirrors, FullscreenAgrees
<1>4. WindowsHaveOwners'
  <2>1. CASE OutputIdx(state) = {}
    <3>1. \A t \in Tags : state'.tags[t] = None
      BY <2>1 DEF Quiet, Mirrors, Inv, TagOwnership, TagTable, OwnersAreOutputs
    <3>2. QED
      BY <1>1, <2>1, <3>1 DEF Screen, Quiet, Mirrors, WindowsHaveOwners
  <2>2. CASE OutputIdx(state) # {}
    BY <1>1, <2>2 DEF Screen, Quiet, Mirrors, WindowsHaveOwners
  <2>3. QED
    BY <2>1, <2>2
<1>5. DefaultRemembered'
  BY DEF Screen, Quiet, Mirrors, DefaultRemembered, LiveOutputIds
<1>6. NothingUnapplied'
  BY DEF Quiet, NothingUnapplied
<1>7. QED
  BY <1>2, <1>3, <1>4, <1>5, <1>6 DEF Screen

\* Nearly all of them are like this.
LEMMA QuietRequest ==
  ASSUME Inv, Mirrors(state, state'), river' = [river EXCEPT !.dirty = TRUE],
         app'.layer_default_set = app.layer_default_set,
         history'.unplugged = history.unplugged
  PROVE  Quiet
BY DEF Inv, TypeOK, IsRiver, Quiet

\* One window's wishes change.
LEMMA WishMirrors ==
  ASSUME NEW s, IsState(s), NEW w \in WindowIds(s), NEW win \in WindowType,
         win.tag = s.windows[w].tag, win.node = s.windows[w].node,
         win.fullscreen_applied = s.windows[w].fullscreen_applied
  PROVE  Mirrors(s, [s EXCEPT !.windows[w] = win])
<1> DEFINE wins == [s.windows EXCEPT ![w] = win]
<1>1. wins \in [WindowIds(s) -> WindowType]
  BY DEF IsState
<1>2. \A v \in WindowIds(s) :
         /\ wins[v].tag = s.windows[v].tag
         /\ wins[v].node = s.windows[v].node
         /\ wins[v].fullscreen_applied = s.windows[v].fullscreen_applied
  BY DEF IsState
<1>3. [s EXCEPT !.windows[w] = win] = [s EXCEPT !.windows = wins]
  BY DEF IsState
<1> HIDE DEF wins
<1>4. QED
  BY <1>1, <1>2, <1>3, WindowsMirror

\* What the windows ask for, and what points at them.
LEMMA WindowQuiet ==
  ASSUME Inv, NEW w \in WindowIds(state), NEW on \in BOOLEAN,
         \/ FullscreenRequested(w, on) \/ MinimizeRequested(w) \/ PointerEnter(w)
         \/ WindowInteraction(w) \/ CmdFocusWindow(w)
  PROVE  Quiet
<1> DEFINE win == state.windows[w]
<1>0. IsState(state) /\ win \in WindowType
  BY DEF Inv, TypeOK, IsState
<1>1. CASE FullscreenRequested(w, on) \/ MinimizeRequested(w)
  <2> DEFINE new == IF FullscreenRequested(w, on) THEN [win EXCEPT !.fullscreen = on]
                    ELSE [win EXCEPT !.minimized = TRUE]
  <2>1. new \in WindowType /\ new.tag = win.tag /\ new.node = win.node
        /\ new.fullscreen_applied = win.fullscreen_applied
    BY <1>0 DEF WindowType
  <2>2. state' = [state EXCEPT !.windows[w] = new]
    BY <1>0, <1>1 DEF IsState, FullscreenRequested, MinimizeRequested
  <2> HIDE DEF new
  <2>3. Mirrors(state, state')
    BY <1>0, <2>1, <2>2, WishMirrors
  <2>4. QED
    BY <1>1, <2>3, QuietRequest DEF FullscreenRequested, MinimizeRequested, RiverEvent
<1>2. CASE PointerEnter(w)
  <2>1. Mirrors(state, state')
    BY <1>0, <1>2, FocusWindowMirrors, MirrorsSelf DEF PointerEnter
  <2>2. QED
    BY <1>2, <2>1, QuietRequest DEF PointerEnter, RiverEvent
<1>3. CASE WindowInteraction(w)
  <2> DEFINE new == [win EXCEPT !.minimized = FALSE]
             mid == [state EXCEPT !.windows[w] = new]
  <2>1. new \in WindowType /\ new.tag = win.tag /\ new.node = win.node
        /\ new.fullscreen_applied = win.fullscreen_applied
    BY <1>0 DEF WindowType
  <2>2. state' = focus_window_on_output(mid, w)
    BY <1>0, <1>3 DEF IsState, WindowInteraction
  <2> HIDE DEF new
  <2>3. Mirrors(state, mid)
    BY <1>0, <2>1, WishMirrors
  <2> HIDE DEF mid
  <2>a. IsState(mid) /\ w \in WindowIds(mid)
    BY <2>3 DEF Mirrors
  <2>4. Mirrors(mid, state')
    BY <2>2, <2>a, FocusWindowMirrors
  <2>5. QED
    BY <1>3, <2>3, <2>4, MirrorsTwice, QuietRequest DEF WindowInteraction, RiverEvent
<1>4. CASE CmdFocusWindow(w)
  <2>1. Mirrors(state, state')
    BY <1>0, <1>4, FocusWindowMirrors DEF CmdFocusWindow
  <2>2. QED
    BY <1>4, <2>1, QuietRequest DEF CmdFocusWindow, Command, RequestManage
<1>5. QED
  BY <1>1, <1>2, <1>3, <1>4

\* Outputs that move, and the focus that moves to an output.
LEMMA OutputQuiet ==
  ASSUME Inv,
         \/ OutputChanged \/ OtherEvent
         \/ \E o \in OutputIdx(state) : PointerPosition(o) \/ CmdFocusOutput(o)
  PROVE  Quiet
<1>0. IsState(state) /\ OwnersAreOutputs(state) /\ TaglessOnlyWhenExhausted(state)
  BY DEF Inv, TypeOK, TagOwnership, TagTable
<1>1. CASE OutputChanged
  <2>1. Mirrors(state, state')
    BY <1>0, <1>1, NormalizeKeeps DEF OutputChanged, repair_outputs, Keeps, SameScreen, Mirrors
  <2>2. QED
    BY <1>1, <2>1, QuietRequest DEF OutputChanged, RiverEvent
<1>2. CASE OtherEvent
  BY <1>0, <1>2, MirrorsSelf, QuietRequest DEF OtherEvent, RiverEvent
<1>3. ASSUME NEW o \in OutputIdx(state), PointerPosition(o) PROVE Quiet
  <2>1. Mirrors(state, state')
    BY <1>0, <1>3, FocusMirrors DEF PointerPosition
  <2>2. QED
    BY <1>3, <2>1 DEF PointerPosition, Inv, TypeOK, IsRiver, Quiet
<1>4. ASSUME NEW o \in OutputIdx(state), CmdFocusOutput(o) PROVE Quiet
  <2>1. Mirrors(state, state')
    BY <1>0, <1>4, FocusMirrors DEF CmdFocusOutput
  <2>2. QED
    BY <1>4, <2>1, QuietRequest DEF CmdFocusOutput, Command, RequestManage
<1>5. QED
  BY <1>1, <1>2, <1>3, <1>4

\* Keys, socket commands on tags, and flush_pending.
LEMMA KeyQuiet ==
  ASSUME Inv, KeyStep \/ flush_pending
  PROVE  Quiet
<1>0. IsState(state) /\ OwnersAreOutputs(state)
  BY DEF Inv, TypeOK, TagOwnership, TagTable
<1>1. CASE KeyClose
  BY <1>0, <1>1, MirrorsSelf, QuietRequest DEF KeyClose, RiverEvent, Inv, TypeOK, AppType
<1>2. ASSUME NEW forward \in BOOLEAN, KeyCycle(forward) PROVE Quiet
  <2> DEFINE o == active_output(state)
             ids == ShownWindows(state, o)
             k == app.next_window_id - 1
             f == CycleFrom(ids, state.outputs[o].focused_window, forward)
  <2>1. o \in OutputIdx(state) /\ k \in Nat
    BY <1>2, ActiveIsOutput DEF KeyCycle, Inv, TypeOK, AppType
  <2>2. ids \in SUBSET (1 .. k) /\ ids # {}
    BY <1>2 DEF Inv, TypeOK, ShownWindows, KeyCycle
  <2>3. state' = [state EXCEPT !.outputs[o].focused_window = f]
    BY <1>2 DEF KeyCycle
  <2> HIDE DEF o, ids, k
  <2>4. f \in ids
    BY <2>1, <2>2, CycleInSet
  <2> HIDE DEF f
  <2>5. f \in Nat
    BY <2>1, <2>2, <2>4
  <2>6. Mirrors(state, state')
    BY <1>0, <2>1, <2>3, <2>5, RefocusMirrors
  <2>7. QED
    BY <1>2, <2>6, QuietRequest DEF KeyCycle, RiverEvent
<1>3. ASSUME NEW forward \in BOOLEAN, KeyFocusOutput(forward) PROVE Quiet
  <2> DEFINE n == NumOutputs(state)
             cur == IF state.focused_output = None THEN 0 ELSE state.focused_output
             next == IF forward THEN (IF cur + 1 = n THEN 0 ELSE cur + 1)
                     ELSE (IF cur = 0 THEN n - 1 ELSE cur - 1)
  <2>1. n \in Nat /\ OutputIdx(state) = 0 .. (n - 1) /\ n > 1
    BY <1>0, <1>3 DEF IsState, KeyFocusOutput
  <2>2. cur \in OutputIdx(state)
    BY <1>0, <2>1 DEF Inv, TagOwnership, TagTable, FocusIsAnOutput
  <2>3. state' = [state EXCEPT !.focused_output = next]
        /\ app' = [app EXCEPT !.pending_pointer_warp = next]
        /\ history' = [history EXCEPT !.warp_goal = state.outputs[next].id]
        /\ river' = [river EXCEPT !.dirty = TRUE]
    BY <1>3 DEF KeyFocusOutput, RiverEvent
  <2> HIDE DEF n, cur
  <2>4. next \in OutputIdx(state)
    BY <2>1, <2>2
  <2> HIDE DEF next
  <2>5. Mirrors(state, state')
    BY <1>0, <2>3, <2>4, FocusMirrors
  <2>6. QED
    BY <2>3, <2>5, QuietRequest DEF Inv, TypeOK, AppType, HistoryType
<1>4. ASSUME NEW tag, KeyFocusTag(tag) PROVE Quiet
  <2>1. Mirrors(state, state')
    BY <1>0, <1>4, FocusTagMirrors, MirrorsSelf DEF KeyFocusTag
  <2>2. app'.layer_default_set = app.layer_default_set /\ history'.unplugged = history.unplugged
    BY <1>4 DEF KeyFocusTag, Inv, TypeOK, AppType, HistoryType
  <2>3. QED
    BY <1>4, <2>1, <2>2, QuietRequest DEF KeyFocusTag, RiverEvent
<1>5. ASSUME NEW tag, NEW o, KeySendToTag(tag) \/ CmdSendToTag(tag) \/ CmdFocusTag(tag, o)
      PROVE  Quiet
  <2>1. Mirrors(state, state')
    BY <1>0, <1>5, FocusTagMirrors, SendFocusedMirrors, MirrorsSelf
       DEF KeySendToTag, CmdSendToTag, CmdFocusTag
  <2>2. QED
    BY <1>5, <2>1, QuietRequest DEF KeySendToTag, CmdSendToTag, CmdFocusTag, RiverEvent,
                                    Command, RequestManage
<1>6. CASE KeyFullscreen
  <2> DEFINE w == FocusedWindow(state)
             win == state.windows[w]
             new == [win EXCEPT !.fullscreen = ~@]
  <2>1. w \in WindowIds(state) /\ win \in WindowType
    BY <1>0, <1>6 DEF KeyFullscreen, IsState
  <2>2. new \in WindowType /\ new.tag = win.tag /\ new.node = win.node
        /\ new.fullscreen_applied = win.fullscreen_applied
    BY <2>1 DEF WindowType
  <2>3. state' = [state EXCEPT !.windows[w] = new]
    BY <1>0, <1>6 DEF KeyFullscreen, IsState
  <2> HIDE DEF w, new
  <2>4. Mirrors(state, state')
    BY <1>0, <2>1, <2>2, <2>3, WishMirrors
  <2>5. QED
    BY <1>6, <2>4, QuietRequest DEF KeyFullscreen, RiverEvent
<1>7. CASE KeyToggleResize \/ KeyExitResize \/ flush_pending
  <2>1. Mirrors(state, state')
    BY <1>0, <1>7 DEF KeyToggleResize, KeyExitResize, flush_pending, IsState, WindowIds,
                      OutputIdx, NumOutputs, Mirrors
  <2>2. QED
    BY <1>7, <2>1, QuietRequest DEF KeyToggleResize, KeyExitResize, flush_pending, RiverEvent,
                                    RequestManage
<1>8. CASE KeyResizeStep
  <2>1. Mirrors(state, state')
    BY <1>0, <1>8, ClearMirrors, MirrorsSelf DEF KeyResizeStep
  <2>2. QED
    BY <1>8, <2>1, QuietRequest DEF KeyResizeStep, RiverEvent
<1>9. QED
  BY <1>1, <1>2, <1>3, <1>4, <1>5, <1>6, <1>7, <1>8 DEF KeyStep

-----------------------------------------------------------------------------
(***************************************************************************)
(* Windows and outputs that come and go.                                   *)
(***************************************************************************)
\* A new window is on a tag with an owner if there is an output: what an
\* output shows is its own tag, or else no tag is free.
LEMMA WindowCreatedScreen ==
  ASSUME Inv, Inv', Screen, WindowCreated
  PROVE  Screen'
<1> DEFINE wid == app.next_window_id
           o == IF active_output(state) = None THEN 0 ELSE active_output(state)
           tag == IF o \in OutputIdx(state) THEN state.outputs[o].active_tag ELSE 0
<1>0. IsState(state) /\ TagTable(state) /\ wid \notin WindowIds(state)
      /\ IsRiver(state, river) /\ app \in AppType
  BY DEF Inv, TypeOK, TagOwnership, AppType
<1>1. state' = PushWindow(state, wid)
  BY DEF WindowCreated
<1>2. /\ WindowIds(state') = WindowIds(state) \cup {wid}
      /\ state'.windows[wid] = NewWindow(tag)
      /\ \A w \in WindowIds(state) : state'.windows[w] = state.windows[w]
      /\ OutputIdx(state') = OutputIdx(state)
      /\ state'.tags = state.tags
      /\ LiveOutputIds(state') = LiveOutputIds(state)
  <2> DEFINE wins == [w \in WindowIds(state) \cup {wid} |->
                        IF w = wid THEN NewWindow(tag) ELSE state.windows[w]]
             outs == [p \in OutputIdx(state) |->
                        IF p = o THEN [state.outputs[p] EXCEPT !.focused_window = wid]
                        ELSE state.outputs[p]]
  <2>1. state' = [state EXCEPT !.windows = wins, !.outputs = outs]
    BY <1>1 DEF PushWindow
  <2> HIDE DEF tag, o
  <2>2. \A p \in OutputIdx(state) : outs[p].id = state.outputs[p].id
    BY <1>0 DEF IsState, OutputType
  <2>3. DOMAIN outs = OutputIdx(state) /\ DOMAIN wins = WindowIds(state) \cup {wid}
        /\ wins[wid] = NewWindow(tag)
        /\ \A w \in WindowIds(state) : wins[w] = state.windows[w]
    BY <1>0
  <2> HIDE DEF wins, outs
  <2>4. state'.windows = wins /\ state'.outputs = outs /\ state'.tags = state.tags
    BY <1>0, <2>1 DEF IsState
  <2>5. OutputIdx(state') = OutputIdx(state)
    BY <2>3, <2>4 DEF OutputIdx
  <2>6. QED
    BY <2>2, <2>3, <2>4, <2>5 DEF WindowIds, LiveOutputIds
<1>3. /\ river'.dirty
      /\ river'.nodes = river.nodes /\ river'.node_error = river.node_error
      /\ river'.layer_default = river.layer_default
      /\ river'.fullscreen = [w \in WindowIds(state) \cup {wid} |->
                                IF w = wid THEN None ELSE river.fullscreen[w]]
      /\ app'.layer_default_set = app.layer_default_set
      /\ history' = history
  BY <1>0 DEF WindowCreated, IsRiver, AppType
<1> HIDE DEF tag, o, wid
<1>4. NodesAgree'
  BY <1>0, <1>2, <1>3 DEF Screen, NodesAgree, NewWindow
<1>5. FullscreenAgrees'
  BY <1>0, <1>2, <1>3 DEF Screen, FullscreenAgrees, NewWindow
<1>6. WindowsHaveOwners'
  <2>1. CASE OutputIdx(state) = {}
    BY <1>2, <1>3, <2>1 DEF Screen, WindowsHaveOwners, NewWindow, tag
  <2>2. CASE OutputIdx(state) # {}
    <3>1. o \in OutputIdx(state) /\ o # None
      BY <1>0, <2>2, ActiveIsOutput, NoneAssumption DEF IsState, active_output, o
    <3>2. tag = state.outputs[o].active_tag /\ tag \in Tags
      BY <1>0, <3>1 DEF tag, IsState, OutputType
    <3>3. state.tags[tag] # None
      <4>1. CASE OwnedTags(state, o) # {}
        BY <1>0, <3>1, <3>2, <4>1 DEF TagTable, ShownTagIsOwned, OwnedTags
      <4>2. CASE OwnedTags(state, o) = {}
        BY <1>0, <3>1, <3>2, <4>2 DEF TagTable, TaglessOnlyWhenExhausted, FreeTags
      <4>3. QED
        BY <4>1, <4>2
    <3>4. QED
      BY <1>0, <1>2, <1>3, <2>2, <3>3 DEF Screen, WindowsHaveOwners, NewWindow
  <2>3. QED
    BY <2>1, <2>2
<1>7. DefaultRemembered' /\ NothingUnapplied'
  BY <1>2, <1>3 DEF Screen, DefaultRemembered, NothingUnapplied
<1>8. QED
  BY <1>4, <1>5, <1>6, <1>7 DEF Screen

\* A closed window takes its node along.
LEMMA WindowClosedScreen ==
  ASSUME Inv, Inv', Screen, NEW wid \in WindowIds(state), WindowClosed(wid)
  PROVE  Screen'
<1> DEFINE wins == [w \in WindowIds(state) \ {wid} |-> state.windows[w]]
<1>0. IsState(state) /\ IsRiver(state, river)
  BY DEF Inv, TypeOK
<1>1. state' = [state EXCEPT !.windows = wins]
  BY DEF WindowClosed, ForgetWindow
<1>2. state'.windows = wins /\ state'.tags = state.tags /\ state'.outputs = state.outputs
  BY <1>0, <1>1 DEF IsState
<1>3. /\ WindowIds(state') = WindowIds(state) \ {wid}
      /\ \A w \in WindowIds(state') : state'.windows[w] = state.windows[w]
      /\ OutputIdx(state') = OutputIdx(state)
      /\ LiveOutputIds(state') = LiveOutputIds(state)
  BY <1>2 DEF WindowIds, OutputIdx, LiveOutputIds
<1>4. /\ river'.dirty
      /\ river'.nodes = river.nodes \ {wid} /\ river'.node_error = river.node_error
      /\ river'.layer_default = river.layer_default
      /\ river'.fullscreen = [w \in WindowIds(state) \ {wid} |-> river.fullscreen[w]]
      /\ app' = app /\ history' = history
  BY <1>0 DEF WindowClosed, IsRiver
<1>5. NodesAgree' /\ FullscreenAgrees'
  BY <1>3, <1>4 DEF Screen, NodesAgree, FullscreenAgrees
<1>6. WindowsHaveOwners' /\ DefaultRemembered' /\ NothingUnapplied'
  BY <1>2, <1>3, <1>4 DEF Screen, WindowsHaveOwners, DefaultRemembered, NothingUnapplied
<1>7. QED
  BY <1>5, <1>6 DEF Screen

\* A new output: the first one takes tag 0, where the windows wait.
LEMMA OutputCreatedScreen ==
  ASSUME Inv, Inv', Screen, NEW id \in OutputIds, OutputCreated(id)
  PROVE  Screen'
<1>0. IsState(state) /\ TagTable(state) /\ IsRiver(state, river)
  BY DEF Inv, TypeOK, TagOwnership
<1>1. /\ WindowIds(state') = WindowIds(state) /\ state'.windows = state.windows
      /\ OutputIdx(state') # {} /\ LiveOutputIds(state) \subseteq LiveOutputIds(state')
      /\ \A t \in Tags : state.tags[t] # None => state'.tags[t] # None
      /\ OutputIdx(state) = {} => state'.tags[0] # None
  BY <1>0, PushOutputKeeps DEF OutputCreated
<1>2. river' = [river EXCEPT !.dirty = TRUE] /\ app' = app /\ history' = history
  BY DEF OutputCreated, RiverEvent
<1>3. NodesAgree' /\ FullscreenAgrees' /\ DefaultRemembered' /\ NothingUnapplied'
  BY <1>0, <1>1, <1>2 DEF Screen, NodesAgree, FullscreenAgrees, DefaultRemembered,
                          NothingUnapplied, IsRiver
<1>4. \A w \in WindowIds(state) : state.windows[w].tag \in Tags
  BY <1>0 DEF IsState, WindowType
<1>5. WindowsHaveOwners'
  BY <1>1, <1>2, <1>4 DEF Screen, WindowsHaveOwners
<1>6. QED
  BY <1>3, <1>5 DEF Screen

\* An output goes: nothing is claimed of fullscreen any more, and the default
\* of the layer shell is to be set again.
LEMMA OutputRemovedScreen ==
  ASSUME Inv, Inv', Screen, NEW idx \in OutputIdx(state), OutputRemoved(idx)
  PROVE  Screen'
<1>0. IsState(state) /\ TagTable(state) /\ IsRiver(state, river) /\ app \in AppType
      /\ history \in HistoryType
  BY DEF Inv, TypeOK, TagOwnership
<1>1. WindowIds(state') = WindowIds(state) /\ state'.windows = state.windows
  BY <1>0, RemoveOutputKeeps DEF OutputRemoved
<1>2. /\ river'.dirty
      /\ river'.nodes = river.nodes /\ river'.node_error = river.node_error
  BY <1>0 DEF OutputRemoved, IsRiver
<1>3. ~app'.layer_default_set /\ history'.unplugged
  BY <1>0 DEF OutputRemoved, ResetLayerDefault, AppType, HistoryType
<1>4. QED
  BY <1>1, <1>2, <1>3 DEF Screen, NodesAgree, FullscreenAgrees, WindowsHaveOwners,
                          DefaultRemembered, NothingUnapplied

-----------------------------------------------------------------------------
(***************************************************************************)
(* The manage and the render sequence.                                     *)
(***************************************************************************)
\* With an output to be on, a window goes where its wish says; a flag that
\* told what river shows still does, unless the window's tag lost its owner.
LEMMA FullscreenPassAgrees ==
  ASSUME NEW s, IsState(s), TagTable(s), NEW w \in WindowIds(s),
         NEW on \in OutputIds \cup {None}
  PROVE  LET pass == FullscreenPass(s, on, w)
             win == s.windows[w]
         IN  /\ OutputIdx(s) # {} => pass.wanted = pass.applied
             /\ (win.fullscreen_applied <=> on # None) /\ (OutputIdx(s) # {} => s.tags[win.tag] # None)
                  => (pass.applied <=> pass.on # None)
             /\ OutputIdx(s) = {} /\ ~win.fullscreen_applied => ~pass.applied
<1> DEFINE win == s.windows[w]
           owner == tag_owner(s, win.tag)
           dropped == win.fullscreen_applied /\ owner = None /\ OutputIdx(s) # {}
           wanted == win.fullscreen /\ ~dropped
           applied == win.fullscreen_applied /\ ~dropped
           target == window_output(s, w)
           enter == wanted /\ ~applied /\ target \in OutputIdx(s)
           leave == ~wanted /\ applied
           pass == FullscreenPass(s, on, w)
<1>1. win.fullscreen \in BOOLEAN /\ win.fullscreen_applied \in BOOLEAN /\ win.tag \in Tags
  BY DEF IsState, WindowType
<1>2. owner = s.tags[win.tag]
  BY <1>1 DEF tag_owner
<1>3. IF OutputIdx(s) = {} THEN target \notin OutputIdx(s) ELSE target \in OutputIdx(s)
  <2>1. OutputIdx(s) # {} => active_output(s) \in OutputIdx(s)
    BY DEF TagTable, FocusIsAnOutput, IsState, active_output
  <2>2. owner # None => owner \in OutputIdx(s)
    BY <1>1, <1>2 DEF TagTable, OwnersAreOutputs
  <2>3. QED
    BY <2>1, <2>2 DEF window_output
<1>4. target \in OutputIdx(s) => s.outputs[target].id # None
  BY NoneAssumption DEF IsState, OutputType
<1>5. /\ pass.wanted = wanted
      /\ pass.applied = ((applied \/ enter) /\ ~leave)
      /\ pass.on = IF enter THEN s.outputs[target].id ELSE IF leave THEN None ELSE on
  BY DEF FullscreenPass
<1> HIDE DEF pass, target, owner, win
<1>6. OutputIdx(s) # {} => pass.wanted = pass.applied
  BY <1>1, <1>3, <1>5
<1>7. ASSUME win.fullscreen_applied <=> on # None, OutputIdx(s) # {} => owner # None
      PROVE  pass.applied <=> pass.on # None
  BY <1>1, <1>3, <1>4, <1>5, <1>7
<1>8. ASSUME OutputIdx(s) = {}, ~win.fullscreen_applied PROVE ~pass.applied
  BY <1>1, <1>3, <1>5, <1>8
<1>9. QED
  BY <1>2, <1>6, <1>7, <1>8 DEF pass, win

\* Refocusing again changes nothing.
LEMMA RefocusedStays ==
  ASSUME NEW s, IsState(s), NEW r, NEW o \in OutputIdx(s),
         ShownWindows(r, o) = ShownWindows(s, o),
         r.outputs[o].focused_window = RefocusedWindow(s, o)
  PROVE  /\ RefocusedWindow(r, o) = RefocusedWindow(s, o)
         /\ RefocusedWindow(s, o) \in ShownWindows(s, o) \cup {None}
         /\ RefocusedWindow(s, o) = None <=> ShownWindows(s, o) = {}
<1>1. ShownWindows(s, o) \in SUBSET Nat
  BY DEF IsState, ShownWindows
<1>2. ShownWindows(s, o) # {} => Min(ShownWindows(s, o)) \in ShownWindows(s, o)
  BY <1>1, MinInSet
<1>3. None \notin ShownWindows(s, o)
  BY <1>1, NoneAssumption
<1>4. QED
  BY <1>2, <1>3 DEF RefocusedWindow

\* What a manage sequence leaves as it was, and what it makes of fullscreen.
ManageEffect(s) ==
  /\ IsState(s) /\ TagTable(s) /\ IsState(state')
  /\ WindowIds(s) = WindowIds(state) /\ s.windows = state.windows
  /\ OutputIdx(s) = OutputIdx(state) /\ s.tags = state.tags
  /\ WindowIds(state') = WindowIds(state)
  /\ state'.outputs = s.outputs
  /\ state'.tags = state.tags
  /\ state'.focused_output = state.focused_output
  /\ state'.resize_mode = state.resize_mode
  /\ \A w \in WindowIds(state) :
       LET pass == FullscreenPass(s, river.fullscreen[w], w)
       IN  /\ state'.windows[w].tag = state.windows[w].tag
           /\ state'.windows[w].node = state.windows[w].node
           /\ state'.windows[w].fullscreen = pass.wanted
           /\ state'.windows[w].fullscreen_applied = pass.applied
           /\ river'.fullscreen[w] = pass.on
  /\ \A o \in OutputIdx(state) :
        /\ s.outputs[o].id = state.outputs[o].id
        /\ s.outputs[o].active_tag = state.outputs[o].active_tag
        /\ s.outputs[o].focused_window = RefocusedWindow(state, o)

LEMMA ManageChanges ==
  ASSUME Inv, ManageStart
  PROVE  ManageEffect(RefocusAll(state))
<1> DEFINE s == RefocusAll(state)
           pass(w) == FullscreenPass(s, river.fullscreen[w], w)
           wins == [w \in WindowIds(s) |->
                      [s.windows[w] EXCEPT !.fullscreen = pass(w).wanted,
                                           !.fullscreen_applied = pass(w).applied]]
<1>1. /\ IsState(s) /\ WindowIds(s) = WindowIds(state) /\ SameTags(state, s)
      /\ s.windows = state.windows /\ s.resize_mode = state.resize_mode
      /\ \A o \in OutputIdx(state) : /\ s.outputs[o].id = state.outputs[o].id
                                     /\ s.outputs[o].focused_window = RefocusedWindow(state, o)
  BY RefocusEvery DEF Inv, TypeOK
<1>2. TagTable(s)
  BY <1>1, SameTagTable DEF Inv, TagOwnership
<1>3. state' = ApplyFullscreen(s, river)
      /\ river'.fullscreen = [w \in WindowIds(s) |-> pass(w).on]
  BY DEF ManageStart, on_manage_start, Inv, TypeOK, IsRiver
<1>4. state' = [s EXCEPT !.windows = wins]
  BY <1>3 DEF ApplyFullscreen
<1> HIDE DEF s, pass
<1>5. Keeps(s, state')
  BY <1>1, <1>2, <1>3, ApplyFullscreenKeeps
<1>6. \A w \in WindowIds(s) :
        /\ wins[w].tag = s.windows[w].tag
        /\ wins[w].node = s.windows[w].node
        /\ wins[w].fullscreen = pass(w).wanted
        /\ wins[w].fullscreen_applied = pass(w).applied
  BY <1>1 DEF IsState, WindowType
<1> HIDE DEF wins
<1>7. state'.windows = wins /\ state'.outputs = s.outputs /\ state'.tags = s.tags
      /\ state'.focused_output = s.focused_output /\ state'.resize_mode = s.resize_mode
  BY <1>1, <1>4 DEF IsState
<1>8. QED
  BY <1>1, <1>2, <1>3, <1>5, <1>6, <1>7 DEF ManageEffect, Keeps, SameTags, s, pass

\* It routes the keyboard to the window the focused output shows, and what is
\* shown where does not change.
LEMMA ManageRoutes ==
  ASSUME Inv, ManageStart
  PROVE  /\ active_output(state') = active_output(state)
         /\ river'.keyboard = KeyboardTarget(state')
         /\ active_output(state) # None =>
              LET here == ShownWindows(state', active_output(state))
              IN  IF here = {} THEN river'.keyboard = None ELSE river'.keyboard \in here
<1> DEFINE s == RefocusAll(state)
           o == active_output(state)
<1>0. IsState(state) /\ IsRiver(state, river)
  BY DEF Inv, TypeOK
<1>1. ManageEffect(s)
  BY ManageChanges
<1>2. river'.keyboard = IF FocusedWindow(s) \in WindowIds(s) THEN FocusedWindow(s) ELSE None
  BY <1>0 DEF ManageStart, on_manage_start, IsRiver
<1>3. s.focused_output = state.focused_output
  BY <1>0, RefocusEvery DEF SameTags
<1> HIDE DEF s
<1>4. active_output(s) = o /\ active_output(state') = o
  BY <1>1, <1>3 DEF ManageEffect, active_output, OutputIdx
<1>5. CASE o = None
  <2>1. None \notin WindowIds(state)
    BY <1>0, NoneAssumption DEF IsState
  <2>2. QED
    BY <1>2, <1>4, <1>5, <2>1 DEF FocusedWindow, KeyboardTarget
<1>6. CASE o # None
  <2>1. o \in OutputIdx(state)
    BY <1>6, ActiveIsOutput
  <2>2. ShownWindows(state', o) = ShownWindows(state, o)
    BY <1>1, <2>1 DEF ManageEffect, ShownWindows, tag_owner
  <2>3. /\ state'.outputs[o].focused_window = RefocusedWindow(state, o)
        /\ FocusedWindow(s) = RefocusedWindow(state, o)
    BY <1>1, <1>4, <1>6, <2>1 DEF ManageEffect, FocusedWindow
  <2> DEFINE f == RefocusedWindow(state, o)
             shown == ShownWindows(state, o)
  <2>4. /\ RefocusedWindow(state', o) = f
        /\ f \in shown \cup {None}
        /\ f = None <=> shown = {}
    BY <1>0, <2>1, <2>2, <2>3, RefocusedStays
  <2>5. shown \subseteq WindowIds(s)
    BY <1>1 DEF ShownWindows, ManageEffect
  <2> HIDE DEF f, shown, o
  <2>6. river'.keyboard = f
    BY <1>2, <2>3, <2>4, <2>5 DEF f
  <2>7. KeyboardTarget(state') = f
    BY <1>4, <1>6, <2>4 DEF KeyboardTarget
  <2>8. QED
    BY <1>4, <2>2, <2>4, <2>6, <2>7 DEF shown, o
<1>7. QED
  BY <1>5, <1>6

\* A manage sequence applies everything, and chooses a layer-shell default if
\* there is none.
LEMMA ManageScreen ==
  ASSUME Inv, Inv', Screen, ManageStart
  PROVE  Screen'
<1> DEFINE s == RefocusAll(state)
           setDefault == ~app.layer_default_set /\ OutputIdx(s) # {}
           pass(w) == FullscreenPass(s, river.fullscreen[w], w)
<1>0. IsState(state) /\ TagTable(state) /\ IsRiver(state, river) /\ app \in AppType
      /\ history \in HistoryType
  BY DEF Inv, TypeOK, TagOwnership
<1>1. ManageEffect(s)
  BY ManageChanges
<1>2. /\ river'.render_owed
      /\ river'.nodes = river.nodes /\ river'.node_error = river.node_error
      /\ river'.layer_default = IF setDefault THEN s.outputs[0].id ELSE river.layer_default
      /\ river'.resize_keys = s.resize_mode
      /\ app'.layer_default_set = (app.layer_default_set \/ setDefault)
      /\ history'.unplugged = history.unplugged
  BY <1>0 DEF ManageStart, on_manage_start, IsRiver, AppType, HistoryType
<1>3. s.resize_mode = state.resize_mode
  BY <1>0, RefocusEvery
<1> HIDE DEF s
<1>4. OutputIdx(state') = OutputIdx(state) /\ LiveOutputIds(state') = LiveOutputIds(state)
  BY <1>1 DEF ManageEffect, OutputIdx, LiveOutputIds
<1>5. NodesAgree'
  BY <1>1, <1>2 DEF ManageEffect, Screen, NodesAgree
<1>6. DefaultRemembered'
  <2>1. OutputIdx(state) # {} => 0 \in OutputIdx(state)
    BY <1>0 DEF IsState
  <2>2. setDefault => s.outputs[0].id \in LiveOutputIds(state)
    BY <1>1, <2>1 DEF ManageEffect, LiveOutputIds
  <2>3. QED
    BY <1>1, <1>2, <1>4, <2>2 DEF ManageEffect, Screen, DefaultRemembered
<1>7. ASSUME NEW w \in WindowIds(state)
      PROVE  /\ OutputIdx(s) # {} => pass(w).wanted = pass(w).applied
             /\ (s.windows[w].fullscreen_applied <=> river.fullscreen[w] # None)
                  /\ (OutputIdx(s) # {} => s.tags[s.windows[w].tag] # None)
                  => (pass(w).applied <=> pass(w).on # None)
             /\ OutputIdx(s) = {} /\ ~s.windows[w].fullscreen_applied => ~pass(w).applied
  <2>1. w \in WindowIds(s) /\ IsState(s) /\ TagTable(s)
    BY <1>1 DEF ManageEffect
  <2>2. river.fullscreen[w] \in OutputIds \cup {None}
    BY <1>0 DEF IsRiver
  <2>3. QED
    BY <2>1, <2>2, FullscreenPassAgrees
<1> HIDE DEF pass
<1>8. \A w \in WindowIds(state) :
        /\ state'.windows[w].tag = state.windows[w].tag
        /\ state'.windows[w].fullscreen = pass(w).wanted
        /\ state'.windows[w].fullscreen_applied = pass(w).applied
        /\ river'.fullscreen[w] = pass(w).on
  BY <1>1 DEF ManageEffect, pass
<1>9. FullscreenAgrees' /\ WindowsHaveOwners'
  <2>1. CASE history.unplugged
    BY <1>2, <2>1 DEF FullscreenAgrees, WindowsHaveOwners
  <2>2. CASE ~history.unplugged
    <3>1. WindowIds(state') = WindowIds(state) /\ state'.tags = state.tags
          /\ OutputIdx(s) = OutputIdx(state) /\ s.windows = state.windows
          /\ s.tags = state.tags
      BY <1>1 DEF ManageEffect
    <3>2. WindowsHaveOwners'
      BY <1>2, <1>4, <1>7, <1>8, <2>2, <3>1 DEF Screen, WindowsHaveOwners
    <3>3. \A w \in WindowIds(state) :
            /\ s.windows[w].fullscreen_applied <=> river.fullscreen[w] # None
            /\ OutputIdx(s) # {} => s.tags[s.windows[w].tag] # None
      BY <2>2, <3>1 DEF Screen, FullscreenAgrees, WindowsHaveOwners
    <3>4. FullscreenAgrees'
      BY <1>7, <1>8, <3>1, <3>3 DEF FullscreenAgrees
    <3>5. QED
      BY <3>2, <3>4
  <2>3. QED
    BY <2>1, <2>2
<1>10. InRiver(state)'
  <2>1. river'.keyboard = KeyboardTarget(state')
    BY ManageRoutes
  <2>2. river'.resize_keys = state'.resize_mode
    BY <1>1, <1>2, <1>3 DEF ManageEffect
  <2>3. WindowIds(state') = WindowIds(state) /\ OutputIdx(s) = OutputIdx(state)
    BY <1>1 DEF ManageEffect
  <2>4. QED
    BY <1>2, <1>4, <1>7, <1>8, <2>1, <2>2, <2>3 DEF InRiver
<1>11. QED
  BY <1>5, <1>6, <1>9, <1>10 DEF Screen, NothingUnapplied

\* A render sequence gives every visible window a node, those whose node it
\* has just destroyed among them, and river shows what is placed.
LEMMA RenderScreen ==
  ASSUME Inv, Inv', Screen, RenderStart
  PROVE  Screen'
<1> DEFINE s == release_hidden_nodes(state)
           hidden == {w \in WindowIds(state) : HoldsHiddenNode(state, w)}
           kept == river.nodes \ hidden
           wants == {w \in WindowIds(s) : ~s.windows[w].node /\ window_is_visible(s, w)}
           released == [w \in WindowIds(state) |->
                          [state.windows[w] EXCEPT !.node = @ /\ ~HoldsHiddenNode(state, w)]]
           wins == [w \in WindowIds(s) |-> [s.windows[w] EXCEPT !.node = @ \/ w \in wants]]
<1>0. IsState(state) /\ IsRiver(state, river)
  BY DEF Inv, TypeOK
<1>1. s = [state EXCEPT !.windows = released] /\ state' = [s EXCEPT !.windows = wins]
  BY DEF RenderStart, on_render_start, release_hidden_nodes
<1>2. /\ river'.nodes = kept \cup wants
      /\ river'.node_error = (river.node_error \/ wants \cap kept # {})
      /\ river'.shown = Placed(s)
      /\ river'.dirty = river.dirty /\ river'.keyboard = river.keyboard
      /\ river'.resize_keys = river.resize_keys /\ river'.fullscreen = river.fullscreen
      /\ river'.layer_default = river.layer_default
      /\ app' = app /\ history' = history
  BY <1>0 DEF RenderStart, on_render_start, IsRiver
<1>3. /\ s.windows = released /\ s.outputs = state.outputs /\ s.tags = state.tags
      /\ s.focused_output = state.focused_output /\ s.resize_mode = state.resize_mode
      /\ s.pending_apply = state.pending_apply
  BY <1>0, <1>1 DEF IsState
<1>4. /\ state'.windows = wins /\ state'.outputs = state.outputs /\ state'.tags = state.tags
      /\ state'.focused_output = state.focused_output
      /\ state'.resize_mode = state.resize_mode /\ state'.pending_apply = state.pending_apply
  <2>1. s \in [outputs : {s.outputs}, windows : {s.windows}, tags : {s.tags},
               focused_output : {s.focused_output}, resize_mode : {s.resize_mode},
               pending_apply : {s.pending_apply}]
    BY <1>0, <1>1 DEF IsState
  <2> HIDE DEF s, wins
  <2>2. QED
    BY <1>1, <1>3, <2>1
<1>5. WindowIds(s) = WindowIds(state) /\ WindowIds(state') = WindowIds(state)
      /\ OutputIdx(state') = OutputIdx(state) /\ OutputIdx(s) = OutputIdx(state)
  <2>1. DOMAIN released = WindowIds(state) /\ DOMAIN wins = WindowIds(s)
    OBVIOUS
  <2> HIDE DEF s, released, wins
  <2>2. QED
    BY <1>3, <1>4, <2>1 DEF WindowIds, OutputIdx
<1>6. \A w \in WindowIds(state) :
        /\ s.windows[w] \in WindowType
        /\ s.windows[w].tag = state.windows[w].tag
        /\ s.windows[w].fullscreen = state.windows[w].fullscreen
        /\ s.windows[w].fullscreen_applied = state.windows[w].fullscreen_applied
        /\ s.windows[w].minimized = state.windows[w].minimized
        /\ s.windows[w].node = (state.windows[w].node /\ w \notin hidden)
  <2>1. TAKE w \in WindowIds(state)
  <2>2. state.windows[w] \in WindowType
    BY <1>0 DEF IsState
  <2>3. released[w] = [state.windows[w] EXCEPT
                         !.node = state.windows[w].node /\ ~HoldsHiddenNode(state, w)]
        /\ (HoldsHiddenNode(state, w) <=> w \in hidden)
    OBVIOUS
  <2>4. (state.windows[w].node /\ ~HoldsHiddenNode(state, w)) \in BOOLEAN
    OBVIOUS
  <2> HIDE DEF s, released, hidden
  <2>5. QED
    BY <1>3, <2>2, <2>3, <2>4 DEF WindowType
<1>7. \A w \in WindowIds(state) :
        /\ state'.windows[w].tag = s.windows[w].tag
        /\ state'.windows[w].fullscreen = s.windows[w].fullscreen
        /\ state'.windows[w].fullscreen_applied = s.windows[w].fullscreen_applied
        /\ state'.windows[w].minimized = s.windows[w].minimized
        /\ state'.windows[w].node = (s.windows[w].node \/ w \in wants)
  <2> HIDE DEF s, wants
  <2>1. TAKE w \in WindowIds(state)
  <2>2. wins[w] = [s.windows[w] EXCEPT !.node = s.windows[w].node \/ w \in wants]
    BY <1>5
  <2>3. s.windows[w] \in WindowType
    BY <1>6
  <2> HIDE DEF wins
  <2>4. QED
    BY <1>4, <2>2, <2>3 DEF WindowType
<1>8. wants = {w \in WindowIds(state) : ~s.windows[w].node /\ window_is_visible(s, w)}
  BY <1>5
<1> HIDE DEF s, wants, released, wins, hidden
<1>9. NodesAgree'
  <2>1. kept = {w \in WindowIds(state) : s.windows[w].node}
    BY <1>6 DEF Screen, NodesAgree
  <2>2. wants \cap kept = {}
    BY <1>8, <2>1
  <2>3. river'.nodes = {w \in WindowIds(state) : state'.windows[w].node}
    BY <1>2, <1>7, <1>8, <2>1
  <2>4. QED
    BY <1>2, <1>5, <2>2, <2>3 DEF Screen, NodesAgree
<1>10. FullscreenAgrees' /\ WindowsHaveOwners' /\ DefaultRemembered'
  BY <1>2, <1>4, <1>5, <1>6, <1>7
     DEF Screen, FullscreenAgrees, WindowsHaveOwners, DefaultRemembered, LiveOutputIds
<1>11. InRiver(state) => InRiver(state)'
  <2>1. KeyboardTarget(state') = KeyboardTarget(state)
    <3>1. active_output(state') = active_output(state)
      BY <1>4, <1>5 DEF active_output
    <3>2. ASSUME NEW o PROVE RefocusedWindow(state', o) = RefocusedWindow(state, o)
      <4>1. ShownWindows(state', o) = ShownWindows(state, o)
        BY <1>4, <1>5, <1>6, <1>7 DEF ShownWindows, tag_owner
      <4>2. QED
        BY <1>4, <4>1 DEF RefocusedWindow
    <3>3. QED
      BY <3>1, <3>2 DEF KeyboardTarget
  <2>2. Placed(state') = Placed(s)
    BY <1>3, <1>4, <1>5, <1>6, <1>7 DEF Placed, window_is_visible, tag_owner
  <2>3. QED
    BY <1>2, <1>4, <1>5, <1>6, <1>7, <2>1, <2>2 DEF InRiver
<1>12. NothingUnapplied'
  BY <1>2, <1>4, <1>11 DEF Screen, NothingUnapplied
<1>13. QED
  BY <1>9, <1>10, <1>12 DEF Screen

-----------------------------------------------------------------------------
(***************************************************************************)
(* The theorems.                                                           *)
(***************************************************************************)
\* A step of nothing.
LEMMA StutterScreen == Screen /\ UNCHANGED vars => Screen'
<1> SUFFICES ASSUME Screen, UNCHANGED vars PROVE Screen'
  OBVIOUS
<1>1. state' = state /\ app' = app /\ river' = river /\ history' = history
  BY DEF vars
<1>2. NodesAgree' /\ FullscreenAgrees' /\ WindowsHaveOwners'
  BY <1>1 DEF Screen, NodesAgree, FullscreenAgrees, WindowsHaveOwners, OutputIdx, WindowIds
<1>3. DefaultRemembered'
  BY <1>1 DEF Screen, DefaultRemembered, LiveOutputIds, OutputIdx
<1>4. NothingUnapplied'
  <2>1. KeyboardTarget(state)' = KeyboardTarget(state) /\ Placed(state)' = Placed(state)
    BY <1>1
  <2>2. QED
    BY <1>1, <2>1 DEF Screen, NothingUnapplied, InRiver, OutputIdx, WindowIds
<1>5. QED
  BY <1>2, <1>3, <1>4 DEF Screen

\* Every step keeps what river shows in agreement.
LEMMA NextScreen == Inv /\ Screen /\ [Next]_vars => Screen'
<1> SUFFICES ASSUME Inv, Screen, [Next]_vars PROVE Screen'
  OBVIOUS
<1>0. Inv'
  BY NextInv
<1>1. CASE WindowStep
  <2>1. CASE WindowCreated
    BY <1>0, <2>1, WindowCreatedScreen
  <2>2. ASSUME NEW w \in WindowIds(state),
               \/ WindowClosed(w)
               \/ \E on \in BOOLEAN : FullscreenRequested(w, on)
               \/ MinimizeRequested(w)
               \/ PointerEnter(w)
               \/ WindowInteraction(w)
               \/ CmdFocusWindow(w)
        PROVE  Screen'
    <3>1. CASE WindowClosed(w)
      BY <1>0, <3>1, WindowClosedScreen
    <3>2. CASE ~WindowClosed(w)
      BY <1>0, <2>2, <3>2, WindowQuiet, QuietStep
    <3>3. QED
      BY <3>1, <3>2
  <2>3. QED
    BY <1>1, <2>1, <2>2 DEF WindowStep
<1>2. CASE OutputStep
  <2>1. ASSUME NEW id \in OutputIds, OutputCreated(id) PROVE Screen'
    BY <1>0, <2>1, OutputCreatedScreen
  <2>2. ASSUME NEW o \in OutputIdx(state), OutputRemoved(o) PROVE Screen'
    BY <1>0, <2>2, OutputRemovedScreen
  <2>3. ASSUME OutputChanged \/ OtherEvent
               \/ \E o \in OutputIdx(state) : PointerPosition(o) \/ CmdFocusOutput(o)
        PROVE  Screen'
    BY <1>0, <2>3, OutputQuiet, QuietStep
  <2>4. QED
    BY <1>2, <2>1, <2>2, <2>3 DEF OutputStep
<1>3. CASE KeyStep \/ flush_pending
  BY <1>0, <1>3, KeyQuiet, QuietStep
<1>4. CASE ManageStart
  BY <1>0, <1>4, ManageScreen
<1>5. CASE RenderStart
  BY <1>0, <1>5, RenderScreen
<1>6. CASE UNCHANGED vars
  BY <1>6, StutterScreen
<1>7. QED
  BY <1>1, <1>2, <1>3, <1>4, <1>5, <1>6 DEF Next, Settle

\* The conjunction is an invariant: every theorem below is one of its parts.
LEMMA ScreenHolds == Spec => [](Inv /\ Screen)
BY InitInv, InitScreen, NextInv, NextScreen, PTL DEF Spec

\* The node streamwm remembers for a window is the one river holds, and
\* get_node is never called for a window that has one, in every order of tag
\* switches, unplugging, closing and render sequences.
THEOREM NodesAgreeHolds == Spec => []NodesAgree
<1>1. Screen => NodesAgree
  BY DEF Screen
<1>2. QED
  BY <1>1, ScreenHolds, PTL

\* Whatever handler or command changes the state, river is told or will be: no
\* order of stimuli leaves keyboard focus, resize keys, fullscreen or the
\* windows shown different from the state with nothing on its way.
THEOREM NothingUnappliedHolds == Spec => []NothingUnapplied
<1>1. Screen => NothingUnapplied
  BY DEF Screen
<1>2. QED
  BY <1>1, ScreenHolds, PTL

\* Until an output is unplugged, fullscreen_applied is true exactly of the
\* windows river has fullscreen: no toggle is swallowed.
THEOREM FullscreenAgreesHolds == Spec => []FullscreenAgrees
<1>1. Screen => FullscreenAgrees
  BY DEF Screen
<1>2. QED
  BY <1>1, ScreenHolds, PTL

\* Between manage sequences the layer shell has a default output that is
\* plugged in, whenever one is.
THEOREM LayerDefaultLivesHolds == Spec => []LayerDefaultLives
<1>1. Screen => LayerDefaultLives
  BY DEF Screen, DefaultRemembered, LayerDefaultLives
<1>2. QED
  BY <1>1, ScreenHolds, PTL

\* Every manage sequence gives the keyboard to a window on the tag the focused
\* output shows, and to none only if there is none.
THEOREM KeyboardRoutedHolds == Spec => KeyboardRouted
<1> DEFINE o == active_output(state')
           here == {w \in WindowIds(state') : /\ window_is_visible(state', w)
                                              /\ state'.tags[state'.windows[w].tag] = o}
           Routed == IF here = {} THEN river'.keyboard = None ELSE river'.keyboard \in here
<1>1. ASSUME Inv, Inv', ManageStart PROVE Routed
  <2>1. /\ o = active_output(state)
        /\ river'.keyboard = KeyboardTarget(state')
        /\ o # None => IF ShownWindows(state', o) = {} THEN river'.keyboard = None
                       ELSE river'.keyboard \in ShownWindows(state', o)
    BY <1>1, ManageRoutes
  <2>2. \A w \in WindowIds(state') :
          /\ state'.windows[w].tag \in Tags
          /\ tag_owner(state', state'.windows[w].tag) = state'.tags[state'.windows[w].tag]
    BY <1>1 DEF Inv, TypeOK, IsState, WindowType, tag_owner
  <2>3. CASE o = None
    <3>1. OutputIdx(state') = {}
      BY <1>1, <2>3, NoneAssumption DEF Inv, TypeOK, IsState, active_output
    <3>2. here = {}
      BY <3>1 DEF window_is_visible
    <3>3. QED
      BY <2>1, <2>3, <3>2 DEF KeyboardTarget
  <2>4. CASE o # None
    <3>1. o \in OutputIdx(state')
      BY <1>1, <2>4
         DEF Inv, TypeOK, TagOwnership, TagTable, FocusIsAnOutput, IsState, active_output
    <3>2. here = ShownWindows(state', o)
      BY <2>2, <3>1 DEF ShownWindows, window_is_visible
    <3>3. QED
      BY <2>1, <2>4, <3>2
  <2>5. QED
    BY <2>3, <2>4
<1>2. Inv /\ [Next]_vars => [ManageStart => Routed]_vars
  BY <1>1, NextInv
<1>3. QED
  BY <1>2, InitInv, NextInv, PTL DEF Spec, KeyboardRouted
=============================================================================
