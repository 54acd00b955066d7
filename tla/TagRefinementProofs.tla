------------------------ MODULE TagRefinementProofs ------------------------
(***************************************************************************)
(* The window manager implements the tag engine of GlobalTags, for every   *)
(* number of tags, monitors and windows.  First, what each operator of     *)
(* WmState does to tags and focus, in terms of indices: nothing, or one    *)
(* step of the tag engine (Moves).  Then how indices read as monitors, and *)
(* that each step of the one reads as a step of the other.  Reading an     *)
(* index as a monitor takes an invariant: no monitor is plugged in twice.  *)
(***************************************************************************)
EXTENDS TagRefinement, StreamWmProofs, SequenceLemmas

-----------------------------------------------------------------------------
(***************************************************************************)
(* Steps of the tag engine in terms of indices.                            *)
(***************************************************************************)
\* r shows what s does, but for tag on output o.
ShowsOn(s, r, o, tag) ==
  \A p \in OutputIdx(s) :
     r.outputs[p].active_tag = IF p = o THEN tag ELSE s.outputs[p].active_tag

\* Output o takes the focus.
Focuses(s, r, o) ==
  /\ r.tags = s.tags
  /\ r.focused_output = o
  /\ \A p \in OutputIdx(s) : r.outputs[p].active_tag = s.outputs[p].active_tag

\* Output o shows tag, which it owns, and may take the focus.
Visits(s, r, o, tag) ==
  /\ s.tags[tag] = o
  /\ r.tags = s.tags
  /\ r.focused_output \in {s.focused_output, o}
  /\ ShowsOn(s, r, o, tag)

\* Output o becomes the owner of tag, which nobody owned, and may show it.
Claims(s, r, o, tag) ==
  /\ s.tags[tag] = None
  /\ r.tags = [s.tags EXCEPT ![tag] = o]
  /\ r.focused_output = s.focused_output
  /\ \/ \A p \in OutputIdx(s) : r.outputs[p].active_tag = s.outputs[p].active_tag
     \/ ShowsOn(s, r, o, tag)

Moves(s, r) ==
  /\ OutputIdx(r) = OutputIdx(s)
  /\ \/ SameTags(s, r)
     \/ \E o \in OutputIdx(s) :
           \/ Focuses(s, r, o)
           \/ \E tag \in Tags : Visits(s, r, o, tag) \/ Claims(s, r, o, tag)

\* What touches neither tags nor outputs may follow,
LEMMA MovesThenSame ==
  ASSUME NEW s, NEW r, NEW q, Moves(s, r), SameTags(r, q)
  PROVE  Moves(s, q)
<1>1. OutputIdx(q) = OutputIdx(s) /\ q.tags = r.tags /\ q.focused_output = r.focused_output
      /\ \A p \in OutputIdx(s) : q.outputs[p].active_tag = r.outputs[p].active_tag
  BY DEF Moves, SameTags
<1>2. CASE SameTags(s, r)
  BY <1>1, <1>2 DEF Moves, SameTags
<1>3. ASSUME NEW o \in OutputIdx(s), Focuses(s, r, o) PROVE Moves(s, q)
  <2>1. Focuses(s, q, o)
    BY <1>1, <1>3 DEF Focuses
  <2>2. QED
    BY <1>1, <2>1 DEF Moves
<1>4. ASSUME NEW o \in OutputIdx(s), NEW tag \in Tags, Visits(s, r, o, tag) PROVE Moves(s, q)
  <2>1. Visits(s, q, o, tag)
    BY <1>1, <1>4 DEF Visits, ShowsOn
  <2>2. QED
    BY <1>1, <2>1 DEF Moves
<1>5. ASSUME NEW o \in OutputIdx(s), NEW tag \in Tags, Claims(s, r, o, tag) PROVE Moves(s, q)
  <2>1. Claims(s, q, o, tag)
    BY <1>1, <1>5 DEF Claims, ShowsOn
  <2>2. QED
    BY <1>1, <2>1 DEF Moves
<1>6. QED
  BY <1>2, <1>3, <1>4, <1>5 DEF Moves

\* or come first.
LEMMA SameThenMoves ==
  ASSUME NEW s, NEW r, NEW q, SameTags(s, r), Moves(r, q)
  PROVE  Moves(s, q)
<1>1. OutputIdx(r) = OutputIdx(s) /\ OutputIdx(q) = OutputIdx(s)
      /\ r.tags = s.tags /\ r.focused_output = s.focused_output
      /\ \A p \in OutputIdx(s) : r.outputs[p].active_tag = s.outputs[p].active_tag
  BY DEF Moves, SameTags
<1>2. CASE SameTags(r, q)
  BY <1>1, <1>2 DEF Moves, SameTags
<1>3. ASSUME NEW o \in OutputIdx(s), Focuses(r, q, o) PROVE Moves(s, q)
  <2>1. Focuses(s, q, o)
    BY <1>1, <1>3 DEF Focuses
  <2>2. QED
    BY <1>1, <2>1 DEF Moves
<1>4. ASSUME NEW o \in OutputIdx(s), NEW tag \in Tags, Visits(r, q, o, tag) PROVE Moves(s, q)
  <2>1. Visits(s, q, o, tag)
    BY <1>1, <1>4 DEF Visits, ShowsOn
  <2>2. QED
    BY <1>1, <2>1 DEF Moves
<1>5. ASSUME NEW o \in OutputIdx(s), NEW tag \in Tags, Claims(r, q, o, tag) PROVE Moves(s, q)
  <2>1. Claims(s, q, o, tag)
    BY <1>1, <1>5 DEF Claims, ShowsOn
  <2>2. QED
    BY <1>1, <2>1 DEF Moves
<1>6. QED
  BY <1>1, <1>2, <1>3, <1>4, <1>5 DEF Moves

\* Nothing is a move.
LEMMA SameMoves ==
  ASSUME NEW s, NEW r, SameTags(s, r)
  PROVE  Moves(s, r)
BY DEF Moves, SameTags

-----------------------------------------------------------------------------
(***************************************************************************)
(* The operators.                                                          *)
(***************************************************************************)
\* focus_tag claims a tag nobody owns, and visits it where it lives otherwise.
LEMMA FocusTagMoves ==
  ASSUME NEW s, IsState(s), OwnersAreOutputs(s), NEW o, NEW tag
  PROVE  Moves(s, focus_tag(s, o, tag))
<1> SUFFICES ASSUME tag \in Tags, o \in OutputIdx(s)
             PROVE  Moves(s, focus_tag(s, o, tag))
  BY SameMoves DEF focus_tag, SameTags
<1> DEFINE owner == s.tags[tag]
           claimed == [s EXCEPT !.tags[tag] = o]
           moved == [s EXCEPT !.focused_output = owner]
           a == IF owner = None THEN activate_tag(claimed, o, tag)
                ELSE IF owner = o THEN activate_tag(s, o, tag)
                ELSE activate_tag(moved, owner, tag)
<1>1. focus_tag(s, o, tag) = mark_dirty(a)
  BY DEF focus_tag
<1>2. SUFFICES IsState(a) /\ Moves(s, a)
  <2> HIDE DEF a
  <2>1. QED
    BY <1>1, MarkDirty, MovesThenSame
<1>3. CASE owner = None
  <2>1. SetOwner(s, claimed, tag, o)
    BY OwnerSet
  <2>2. a = activate_tag(claimed, o, tag)
    BY <1>3
  <2> HIDE DEF claimed, a
  <2>3. Shows(claimed, a, o, tag)
    BY <2>1, <2>2, ActivateShows DEF SetOwner
  <2>4. Claims(s, a, o, tag) /\ OutputIdx(a) = OutputIdx(s)
    BY <1>3, <2>1, <2>3 DEF SetOwner, Shows, Claims, ShowsOn
  <2>5. QED
    BY <2>3, <2>4 DEF Moves, Shows
<1>4. CASE owner = o /\ owner # None
  <2>1. Shows(s, a, o, tag)
    BY <1>4, ActivateShows
  <2> HIDE DEF a
  <2>2. Visits(s, a, o, tag) /\ OutputIdx(a) = OutputIdx(s)
    BY <1>4, <2>1 DEF Shows, Visits, ShowsOn
  <2>3. QED
    BY <2>1, <2>2 DEF Moves, Shows
<1>5. CASE owner # None /\ owner # o
  <2>1. owner \in OutputIdx(s)
    BY <1>5 DEF OwnersAreOutputs
  <2>2. IsState(moved) /\ OutputIdx(moved) = OutputIdx(s) /\ moved.outputs = s.outputs
        /\ moved.tags = s.tags /\ moved.focused_output = owner
    BY <2>1 DEF IsState, WindowIds, OutputIdx, NumOutputs
  <2>3. a = activate_tag(moved, owner, tag)
    BY <1>5
  <2> HIDE DEF moved, a
  <2>4. Shows(moved, a, owner, tag)
    BY <2>1, <2>2, <2>3, ActivateShows
  <2>5. Visits(s, a, owner, tag) /\ OutputIdx(a) = OutputIdx(s)
    BY <2>2, <2>4 DEF Shows, Visits, ShowsOn
  <2> HIDE DEF owner
  <2>6. QED
    BY <2>1, <2>4, <2>5 DEF Moves, Shows
<1>6. QED
  BY <1>3, <1>4, <1>5

\* send_focused_to_tag claims a tag nobody owns, without showing it.
LEMMA SendFocusedMoves ==
  ASSUME NEW s, IsState(s), NEW o, NEW tag
  PROVE  Moves(s, send_focused_to_tag(s, o, tag))
<1> DEFINE fid == s.outputs[o].focused_window
           table == [s.tags EXCEPT ![tag] = IF @ = None THEN o ELSE @]
           wins == [s.windows EXCEPT ![fid].tag = tag]
           moved == [s EXCEPT !.tags = table, !.windows = wins]
           r == refocus_output(moved, o)
<1> SUFFICES ASSUME tag \in Tags, o \in OutputIdx(s), fid \in WindowIds(s),
                    send_focused_to_tag(s, o, tag) = mark_dirty(r)
             PROVE  Moves(s, mark_dirty(r))
  BY SameMoves DEF send_focused_to_tag, SameTags
<1>1. o \in Nat
  BY DEF IsState
<1>2. table = IF s.tags[tag] = None THEN [s.tags EXCEPT ![tag] = o] ELSE s.tags
  BY DEF IsState
<1>3. wins \in [WindowIds(s) -> WindowType] /\ table \in [Tags -> Nat \cup {None}]
  BY <1>1 DEF IsState, WindowIds, WindowType
<1> HIDE DEF table, wins
<1>4. /\ moved.tags = table /\ moved.windows = wins /\ moved.outputs = s.outputs
      /\ moved.focused_output = s.focused_output
      /\ moved \in [outputs : {s.outputs}, windows : {wins},
                    tags : [Tags -> Nat \cup {None}], focused_output : Nat \cup {None},
                    resize_mode : BOOLEAN, pending_apply : BOOLEAN]
  BY <1>3 DEF IsState
<1> HIDE DEF moved
<1>5. IsState(moved) /\ OutputIdx(moved) = OutputIdx(s)
  BY <1>3, <1>4 DEF IsState, OutputIdx, WindowIds, NumOutputs
<1>6. Moves(s, moved)
  <2>1. CASE s.tags[tag] = None
    <3>1. Claims(s, moved, o, tag)
      BY <1>2, <1>4, <2>1 DEF Claims
    <3>2. QED
      BY <1>5, <3>1 DEF Moves
  <2>2. CASE s.tags[tag] # None
    BY <1>2, <1>4, <1>5, <2>2, SameMoves DEF SameTags
  <2>3. QED
    BY <2>1, <2>2
<1>7. IsState(r) /\ SameTags(moved, r)
  BY <1>5, RefocusOutput
<1> HIDE DEF r
<1>8. SameTags(r, mark_dirty(r))
  BY <1>7, MarkDirty
<1>9. QED
  BY <1>6, <1>7, <1>8, MovesThenSame

\* Focusing a window where it lives visits its tag.
LEMMA FocusWindowMoves ==
  ASSUME NEW s, IsState(s), NEW w \in WindowIds(s)
  PROVE  Moves(s, focus_window_on_output(s, w)) /\ Moves(s, FocusWindowOf(s, w))
<1> DEFINE tag == s.windows[w].tag
           o == tag_owner(s, tag)
           a == [s EXCEPT !.focused_output = o]
           b == [a EXCEPT !.outputs[o].focused_window = w]
           c == switch_active_tag(b, o, tag)
           d == switch_active_tag(a, o, tag)
           e == [d EXCEPT !.outputs[o].focused_window = w]
<1>1. tag \in Tags /\ w \in Nat
  BY DEF IsState, WindowType
<1>2. focus_window_needed(s, w) => o \in OutputIdx(s)
  BY DEF focus_window_needed
<1>3. focus_window_on_output(s, w) = IF focus_window_needed(s, w) THEN c ELSE s
  BY DEF focus_window_on_output, IsState
<1>4. FocusWindowOf(s, w) = IF o \in OutputIdx(s) THEN e ELSE s
  BY DEF FocusWindowOf
<1>5. s.tags[tag] = o
  BY <1>1 DEF tag_owner
<1> HIDE DEF o, tag
<1>6. SUFFICES ASSUME o \in OutputIdx(s) PROVE Moves(s, c) /\ Moves(s, e)
  BY <1>2, <1>3, <1>4, SameMoves DEF SameTags
<1>7. /\ IsState(a) /\ OutputIdx(a) = OutputIdx(s) /\ WindowIds(a) = WindowIds(s)
      /\ a.outputs = s.outputs /\ a.tags = s.tags /\ a.focused_output = o
  <2>1. o \in Nat
    BY <1>6 DEF IsState
  <2>2. QED
    BY <2>1 DEF IsState, WindowIds, OutputIdx, NumOutputs
<1> HIDE DEF a
<1>8. IsState(b) /\ SameTags(a, b)
  BY <1>1, <1>6, <1>7, SetFocusedWindow
<1> HIDE DEF b
<1>9. Shows(b, c, o, tag) /\ Shows(a, d, o, tag)
  BY <1>1, <1>6, <1>7, <1>8, SwitchShows DEF SameTags
<1> HIDE DEF c, d
<1>10. SameTags(d, e)
  BY <1>1, <1>6, <1>7, <1>9, SetFocusedWindow DEF Shows
<1> HIDE DEF e
<1>11. Visits(s, c, o, tag) /\ OutputIdx(c) = OutputIdx(s)
  BY <1>5, <1>7, <1>8, <1>9 DEF Visits, ShowsOn, Shows, SameTags
<1>12. Visits(s, d, o, tag) /\ OutputIdx(d) = OutputIdx(s)
  BY <1>5, <1>7, <1>9 DEF Visits, ShowsOn, Shows
<1>13. Moves(s, c) /\ Moves(s, d)
  BY <1>1, <1>6, <1>11, <1>12 DEF Moves
<1>14. QED
  BY <1>10, <1>13, MovesThenSame

-----------------------------------------------------------------------------
(***************************************************************************)
(* Reading indices as monitors.                                            *)
(***************************************************************************)
\* No monitor is plugged in twice.
Distinct(s) == \A o, p \in OutputIdx(s) : s.outputs[o].id = s.outputs[p].id => o = p

\* r has the monitors of s, in their places.
SameMonitors(s, r) ==
  /\ OutputIdx(r) = OutputIdx(s)
  /\ \A o \in OutputIdx(s) : r.outputs[o].id = s.outputs[o].id

\* The monitors in order.
LEMMA PluggedInOrder ==
  ASSUME NEW s, IsState(s)
  PROVE  /\ PluggedIn(s) \in Seq(OutputIds)
         /\ Len(PluggedIn(s)) = NumOutputs(s)
         /\ DOMAIN PluggedIn(s) = 1 .. NumOutputs(s)
         /\ \A o \in OutputIdx(s) : o + 1 \in 1 .. NumOutputs(s)
                                     /\ PluggedIn(s)[o + 1] = s.outputs[o].id
         /\ {PluggedIn(s)[i] : i \in DOMAIN PluggedIn(s)} = LiveOutputIds(s)
<1> DEFINE n == NumOutputs(s)
<1>1. n \in Nat /\ OutputIdx(s) = 0 .. (n - 1)
  BY DEF IsState
<1>2. \A i \in 1 .. n : i - 1 \in OutputIdx(s) /\ s.outputs[i - 1].id \in OutputIds
  BY <1>1 DEF IsState, OutputType
<1>3. PluggedIn(s) \in [1 .. n -> OutputIds] /\ \A i \in 1 .. n : PluggedIn(s)[i] = s.outputs[i - 1].id
  BY <1>2 DEF PluggedIn
<1> HIDE DEF n
<1>4. PluggedIn(s) \in Seq(OutputIds)
  BY <1>1, <1>3, SeqDef
<1>5. DOMAIN PluggedIn(s) = 1 .. n /\ Len(PluggedIn(s)) = n
  BY <1>1, <1>3, <1>4, LenProperties
<1>6. \A o \in OutputIdx(s) : o + 1 \in 1 .. n /\ PluggedIn(s)[o + 1] = s.outputs[o].id
  <2>1. TAKE o \in OutputIdx(s)
  <2>2. o + 1 \in 1 .. n /\ (o + 1) - 1 = o
    BY <1>1
  <2>3. QED
    BY <1>3, <2>2
<1>7. {PluggedIn(s)[i] : i \in DOMAIN PluggedIn(s)} = LiveOutputIds(s)
  BY <1>2, <1>3, <1>5, <1>6 DEF LiveOutputIds
<1>8. QED
  BY <1>4, <1>5, <1>6, <1>7 DEF n

\* What a monitor shows is what its output shows.
LEMMA ShownAt ==
  ASSUME NEW s, IsState(s), Distinct(s)
  PROVE  /\ DOMAIN ShownOn(s) = LiveOutputIds(s)
         /\ \A o \in OutputIdx(s) : ShownOn(s)[s.outputs[o].id] = s.outputs[o].active_tag
<1>1. DOMAIN ShownOn(s) = LiveOutputIds(s)
  BY DEF ShownOn
<1>2. ASSUME NEW o \in OutputIdx(s)
      PROVE  ShownOn(s)[s.outputs[o].id] = s.outputs[o].active_tag
  <2> DEFINE x == s.outputs[o].id
             outs == {s.outputs[p] : p \in OutputIdx(s)}
             out == CHOOSE q \in outs : q.id = x
  <2>1. out \in outs /\ out.id = x
    <3>1. \E q \in outs : q.id = x
      OBVIOUS
    <3>2. QED
      BY <3>1
  <2>2. out = s.outputs[o]
    BY <2>1 DEF Distinct
  <2>3. x \in LiveOutputIds(s)
    BY DEF LiveOutputIds
  <2>4. ShownOn(s)[x] = out.active_tag
    BY <2>3 DEF ShownOn
  <2>5. QED
    BY <2>2, <2>4
<1>3. QED
  BY <1>1, <1>2

\* Monitors that stay in their places read the same.
LEMMA MonitorsStay ==
  ASSUME NEW s, IsState(s), NEW r, SameMonitors(s, r)
  PROVE  /\ PluggedIn(r) = PluggedIn(s)
         /\ LiveOutputIds(r) = LiveOutputIds(s)
         /\ Distinct(s) => Distinct(r)
         /\ \A o \in OutputIdx(s) \cup {None} : IdAt(r, o) = IdAt(s, o)
<1>1. NumOutputs(r) = NumOutputs(s)
  BY DEF SameMonitors, NumOutputs
<1>2. PluggedIn(r) = PluggedIn(s)
  <2>1. \A i \in 1 .. NumOutputs(s) : i - 1 \in OutputIdx(s)
    BY DEF IsState
  <2>2. QED
    BY <1>1, <2>1 DEF PluggedIn, SameMonitors
<1>3. LiveOutputIds(r) = LiveOutputIds(s)
  BY DEF SameMonitors, LiveOutputIds
<1>4. Distinct(s) => Distinct(r)
  BY DEF SameMonitors, Distinct
<1>5. \A o \in OutputIdx(s) \cup {None} : IdAt(r, o) = IdAt(s, o)
  BY DEF SameMonitors, IdAt
<1>6. QED
  BY <1>2, <1>3, <1>4, <1>5

\* Owners and focus are monitors, or None.
LEMMA OwnerIds ==
  ASSUME NEW s, IsState(s), OwnersAreOutputs(s)
  PROVE  /\ \A o \in OutputIdx(s) : o # None /\ IdAt(s, o) = s.outputs[o].id
                                     /\ IdAt(s, o) # None /\ IdAt(s, o) \in LiveOutputIds(s)
         /\ \A t \in Tags : /\ OwnerOf(s)[t] = IdAt(s, s.tags[t])
                            /\ OwnerOf(s)[t] = None <=> s.tags[t] = None
<1>1. \A o \in OutputIdx(s) : o # None /\ IdAt(s, o) = s.outputs[o].id
                             /\ IdAt(s, o) # None /\ IdAt(s, o) \in LiveOutputIds(s)
  BY NoneAssumption DEF IsState, OutputType, IdAt, LiveOutputIds
<1>2. IdAt(s, None) = None
  BY DEF IdAt
<1>3. QED
  BY <1>1, <1>2 DEF OwnerOf, OwnersAreOutputs

\* A tag table that stays reads the same, and a new owner as a new owner.
LEMMA OwnersRead ==
  ASSUME NEW s, IsState(s), OwnersAreOutputs(s), NEW r, SameMonitors(s, r)
  PROVE  /\ r.tags = s.tags => OwnerOf(r) = OwnerOf(s)
         /\ \A o \in OutputIdx(s), tag \in Tags :
              r.tags = [s.tags EXCEPT ![tag] = o] =>
                OwnerOf(r) = [OwnerOf(s) EXCEPT ![tag] = s.outputs[o].id]
<1>0. \A t \in Tags : s.tags[t] \in OutputIdx(s) \cup {None}
  BY DEF OwnersAreOutputs
<1>1. \A o \in OutputIdx(s) \cup {None} : IdAt(r, o) = IdAt(s, o)
  BY MonitorsStay
<1>2. ASSUME r.tags = s.tags PROVE OwnerOf(r) = OwnerOf(s)
  BY <1>0, <1>1, <1>2 DEF OwnerOf
<1>3. ASSUME NEW o \in OutputIdx(s), NEW tag \in Tags, r.tags = [s.tags EXCEPT ![tag] = o]
      PROVE  OwnerOf(r) = [OwnerOf(s) EXCEPT ![tag] = s.outputs[o].id]
  <2>1. IdAt(r, o) = s.outputs[o].id
    BY <1>1, OwnerIds
  <2>2. \A t \in Tags : r.tags[t] = IF t = tag THEN o ELSE s.tags[t]
    BY <1>3 DEF IsState
  <2>3. \A t \in Tags : OwnerOf(r)[t] = IF t = tag THEN s.outputs[o].id ELSE OwnerOf(s)[t]
    BY <1>0, <1>1, <2>1, <2>2 DEF OwnerOf
  <2>4. OwnerOf(r) = [t \in Tags |-> OwnerOf(r)[t]] /\ OwnerOf(s) = [t \in Tags |-> OwnerOf(s)[t]]
    BY DEF OwnerOf
  <2> HIDE DEF OwnerOf
  <2>5. QED
    BY <2>3, <2>4
<1>4. QED
  BY <1>2, <1>3

\* So do the tags shown.
LEMMA ShownRead ==
  ASSUME NEW s, IsState(s), Distinct(s), NEW r, IsState(r), SameMonitors(s, r)
  PROVE  /\ (\A p \in OutputIdx(s) : r.outputs[p].active_tag = s.outputs[p].active_tag)
              => ShownOn(r) = ShownOn(s)
         /\ \A o \in OutputIdx(s), tag \in Tags :
              ShowsOn(s, r, o, tag) =>
                ShownOn(r) = [ShownOn(s) EXCEPT ![s.outputs[o].id] = tag]
<1>1. Distinct(r) /\ LiveOutputIds(r) = LiveOutputIds(s) /\ OutputIdx(r) = OutputIdx(s)
  BY MonitorsStay DEF SameMonitors
<1>2. /\ DOMAIN ShownOn(s) = LiveOutputIds(s) /\ DOMAIN ShownOn(r) = LiveOutputIds(s)
      /\ \A p \in OutputIdx(s) : /\ ShownOn(s)[s.outputs[p].id] = s.outputs[p].active_tag
                                 /\ ShownOn(r)[s.outputs[p].id] = r.outputs[p].active_tag
  BY <1>1, ShownAt DEF SameMonitors
<1>3. /\ ShownOn(s) = [x \in LiveOutputIds(s) |-> ShownOn(s)[x]]
      /\ ShownOn(r) = [x \in LiveOutputIds(s) |-> ShownOn(r)[x]]
  BY <1>1 DEF ShownOn
<1>4. \A x \in LiveOutputIds(s) : \E p \in OutputIdx(s) : x = s.outputs[p].id
  BY DEF LiveOutputIds
<1>5. ASSUME \A p \in OutputIdx(s) : r.outputs[p].active_tag = s.outputs[p].active_tag
      PROVE  ShownOn(r) = ShownOn(s)
  <2>1. \A x \in LiveOutputIds(s) : ShownOn(r)[x] = ShownOn(s)[x]
    BY <1>2, <1>4, <1>5
  <2>2. QED
    BY <1>3, <2>1
<1>6. ASSUME NEW o \in OutputIdx(s), NEW tag \in Tags, ShowsOn(s, r, o, tag)
      PROVE  ShownOn(r) = [ShownOn(s) EXCEPT ![s.outputs[o].id] = tag]
  <2>1. ASSUME NEW x \in LiveOutputIds(s)
        PROVE  ShownOn(r)[x] = IF x = s.outputs[o].id THEN tag ELSE ShownOn(s)[x]
    <3>1. PICK p \in OutputIdx(s) : x = s.outputs[p].id
      BY <1>4
    <3>2. x = s.outputs[o].id <=> p = o
      BY <3>1 DEF Distinct
    <3>3. QED
      BY <1>2, <1>6, <3>1, <3>2 DEF ShowsOn
  <2>2. QED
    BY <1>2, <1>3, <2>1
<1>7. QED
  BY <1>5, <1>6

-----------------------------------------------------------------------------
(***************************************************************************)
(* Steps read as steps.                                                    *)
(***************************************************************************)
\* A step that keeps the monitors is a step of the tag engine, or none.
LEMMA MoveRefines ==
  ASSUME Inv, Inv', Distinct(state), SameMonitors(state, state'), Moves(state, state')
  PROVE  [GT!TagsNext]_GT!tvars
<1> DEFINE s == state
           r == state'
<1>1. IsState(s) /\ OwnersAreOutputs(s) /\ IsState(r)
  BY DEF Inv, TypeOK, TagOwnership, TagTable
<1>2. PluggedIn(r) = PluggedIn(s) /\ LiveOutputIds(r) = LiveOutputIds(s)
  BY <1>1, MonitorsStay
<1>3. /\ \A o \in OutputIdx(s) \cup {None} : IdAt(r, o) = IdAt(s, o)
      /\ s.focused_output \in OutputIdx(s) \cup {None}
  BY <1>1, MonitorsStay DEF Inv, TagOwnership, TagTable, FocusIsAnOutput
<1>4. GT!Monitors = LiveOutputIds(s)
  BY <1>1, PluggedInOrder DEF GT!Monitors
<1>5. CASE SameTags(s, r)
  <2>1. OwnerOf(r) = OwnerOf(s) /\ ShownOn(r) = ShownOn(s)
        /\ IdAt(r, r.focused_output) = IdAt(s, s.focused_output)
    BY <1>1, <1>3, <1>5, OwnersRead, ShownRead DEF SameTags
  <2>2. QED
    BY <1>2, <2>1 DEF GT!tvars
<1>6. ASSUME NEW o \in OutputIdx(s), Focuses(s, r, o) PROVE GT!TagsNext
  <2>1. OwnerOf(r) = OwnerOf(s) /\ ShownOn(r) = ShownOn(s)
        /\ IdAt(r, r.focused_output) = s.outputs[o].id
    BY <1>1, <1>3, <1>6, OwnersRead, ShownRead, OwnerIds DEF Focuses
  <2>2. s.outputs[o].id \in OutputIds /\ s.outputs[o].id \in LiveOutputIds(s)
    BY <1>1 DEF IsState, OutputType, LiveOutputIds
  <2>3. GT!FocusMonitor(s.outputs[o].id)
    BY <1>2, <1>4, <2>1, <2>2 DEF GT!FocusMonitor
  <2>4. QED
    BY <2>2, <2>3 DEF GT!TagsNext
<1>7. ASSUME NEW o \in OutputIdx(s), NEW tag \in Tags, Visits(s, r, o, tag) PROVE GT!TagsNext
  <2> DEFINE x == s.outputs[o].id
  <2>1. OwnerOf(r) = OwnerOf(s) /\ ShownOn(r) = [ShownOn(s) EXCEPT ![x] = tag]
    BY <1>1, <1>7, OwnersRead, ShownRead DEF Visits
  <2>2. OwnerOf(s)[tag] = x /\ x \in LiveOutputIds(s)
    BY <1>1, <1>7, OwnerIds DEF Visits
  <2>3. IdAt(r, r.focused_output) \in {IdAt(s, s.focused_output), x}
    BY <1>1, <1>3, <1>7, OwnerIds DEF Visits
  <2>4. GT!Visit(tag)
    BY <1>2, <1>4, <2>1, <2>2, <2>3 DEF GT!Visit
  <2>5. QED
    BY <2>4 DEF GT!TagsNext, GT!TagSet, Tags
<1>8. ASSUME NEW o \in OutputIdx(s), NEW tag \in Tags, Claims(s, r, o, tag) PROVE GT!TagsNext
  <2> DEFINE x == s.outputs[o].id
  <2>1. OwnerOf(s)[tag] = None /\ OwnerOf(r) = [OwnerOf(s) EXCEPT ![tag] = x]
    BY <1>1, <1>8, OwnersRead, OwnerIds DEF Claims
  <2>2. ShownOn(r) \in {ShownOn(s), [ShownOn(s) EXCEPT ![x] = tag]}
    BY <1>1, <1>8, ShownRead DEF Claims
  <2>3. x \in LiveOutputIds(s) /\ x \in OutputIds
    BY <1>1 DEF IsState, OutputType, LiveOutputIds
  <2>4. IdAt(r, r.focused_output) = IdAt(s, s.focused_output)
    BY <1>1, <1>3, <1>8 DEF Claims
  <2>5. GT!Claim(tag, x)
    BY <1>2, <1>4, <2>1, <2>2, <2>3, <2>4 DEF GT!Claim
  <2>6. QED
    BY <2>3, <2>5 DEF GT!TagsNext, GT!TagSet, Tags
<1>9. QED
  BY <1>5, <1>6, <1>7, <1>8 DEF Moves

\* A monitor plugged in.
LEMMA PlugRefines ==
  ASSUME Inv, Inv', Distinct(state), NEW id \in OutputIds, id \notin LiveOutputIds(state),
         PluggedLast(state, state', id)
  PROVE  GT!Plug(id) /\ Distinct(state')
<1> DEFINE s == state
           r == state'
           n == NumOutputs(s)
           free == FreeTags(s)
<1>1. IsState(s) /\ OwnersAreOutputs(s) /\ IsState(r) /\ OwnersAreOutputs(r)
  BY DEF Inv, TypeOK, TagOwnership, TagTable
<1>2. /\ n \in Nat /\ OutputIdx(s) = 0 .. (n - 1) /\ OutputIdx(r) = 0 .. n
      /\ r.outputs[n].id = id
      /\ \A o \in OutputIdx(s) : r.outputs[o].id = s.outputs[o].id
  BY <1>1 DEF IsState, PluggedLast
<1>3. NumOutputs(r) = n + 1
  <2>1. OutputIdx(r) = 0 .. ((n + 1) - 1) /\ n + 1 \in Nat
    BY <1>2
  <2> HIDE DEF n
  <2>2. QED
    BY <2>1, IntervalSize DEF NumOutputs
<1> HIDE DEF n
<1>4. \A o \in OutputIdx(r) : o = n \/ o \in OutputIdx(s)
  BY <1>2
<1>5. OutputIdx(s) \subseteq OutputIdx(r) /\ n \in OutputIdx(r) /\ n \notin OutputIdx(s) /\ n # None
  BY <1>2, NoneAssumption
<1>6. Distinct(r)
  BY <1>2, <1>4, <1>5 DEF Distinct, LiveOutputIds
<1>7. LiveOutputIds(r) = LiveOutputIds(s) \cup {id}
  BY <1>2, <1>4, <1>5 DEF LiveOutputIds
<1>8. GT!Monitors = LiveOutputIds(s)
  BY <1>1, PluggedInOrder DEF GT!Monitors
<1>9. PluggedIn(r) = Append(PluggedIn(s), id)
  <2>1. /\ PluggedIn(s) \in Seq(OutputIds) /\ Len(PluggedIn(s)) = n
        /\ PluggedIn(r) \in Seq(OutputIds) /\ Len(PluggedIn(r)) = n + 1
    BY <1>1, <1>3, PluggedInOrder DEF n
  <2>2. /\ Append(PluggedIn(s), id) \in Seq(OutputIds)
        /\ Len(Append(PluggedIn(s), id)) = n + 1
        /\ \A i \in 1 .. n : Append(PluggedIn(s), id)[i] = PluggedIn(s)[i]
        /\ Append(PluggedIn(s), id)[n + 1] = id
    BY <2>1, AppendProperties
  <2>3. ASSUME NEW i \in 1 .. n + 1 PROVE PluggedIn(r)[i] = Append(PluggedIn(s), id)[i]
    <3>1. i - 1 \in OutputIdx(r) /\ (i - 1) + 1 = i
      BY <1>2
    <3>2. PluggedIn(r)[i] = r.outputs[i - 1].id
      BY <1>1, <3>1, PluggedInOrder
    <3>3. CASE i = n + 1
      <4>1. i - 1 = n
        BY <1>2, <3>3
      <4>2. QED
        BY <1>2, <2>2, <3>2, <3>3, <4>1
    <3>4. CASE i # n + 1
      <4>1. i \in 1 .. n /\ i - 1 \in OutputIdx(s)
        BY <1>2, <3>4
      <4>2. PluggedIn(s)[i] = s.outputs[i - 1].id
        BY <1>1, <3>1, <4>1, PluggedInOrder
      <4>3. QED
        BY <1>2, <2>2, <3>2, <4>1, <4>2
    <3>5. QED
      BY <3>3, <3>4
  <2>4. QED
    BY <2>1, <2>2, <2>3, SeqEqual
<1>10. GT!Free = free
  BY <1>1, OwnerIds DEF GT!Free, GT!TagSet, FreeTags, Tags
<1>11. free # {} => Min(free) \in free /\ Min(free) \in Tags
  <2>1. free \in SUBSET Nat /\ free \subseteq Tags
    BY NumTagsAssumption DEF FreeTags, Tags
  <2>2. QED
    BY <2>1, MinInSet
<1>12. IdAt(r, n) = id /\ IdAt(r, None) = None /\ IdAt(s, None) = None
       /\ \A o \in OutputIdx(s) : o # None /\ IdAt(r, o) = IdAt(s, o)
  BY <1>1, <1>2, <1>5, OwnerIds DEF IdAt
<1>13. OwnerOf(r) = IF free = {} THEN OwnerOf(s) ELSE [OwnerOf(s) EXCEPT ![Min(free)] = id]
  <2>1. \A t \in Tags : s.tags[t] = None \/ s.tags[t] \in OutputIdx(s)
    BY <1>1 DEF OwnersAreOutputs
  <2>2. r.tags = IF free = {} THEN s.tags ELSE [s.tags EXCEPT ![Min(free)] = n]
    BY DEF PluggedLast, n
  <2>3. \A t \in Tags : OwnerOf(s)[t] = IdAt(s, s.tags[t]) /\ OwnerOf(r)[t] = IdAt(r, r.tags[t])
    BY DEF OwnerOf
  <2>4. OwnerOf(r) = [t \in Tags |-> OwnerOf(r)[t]] /\ OwnerOf(s) = [t \in Tags |-> OwnerOf(s)[t]]
    BY DEF OwnerOf
  <2>5. CASE free = {}
    <3>1. \A t \in Tags : OwnerOf(r)[t] = OwnerOf(s)[t]
      BY <1>12, <2>1, <2>2, <2>3, <2>5
    <3> HIDE DEF free
    <3>2. QED
      BY <2>4, <2>5, <3>1
  <2>6. CASE free # {}
    <3> DEFINE m == Min(free)
    <3>1. m \in Tags
      BY <1>11, <2>6
    <3> HIDE DEF m
    <3>2. \A t \in Tags : r.tags[t] = IF t = m THEN n ELSE s.tags[t]
      BY <1>1, <2>2, <2>6 DEF m, IsState
    <3>3. \A t \in Tags : OwnerOf(r)[t] = IF t = m THEN id ELSE OwnerOf(s)[t]
      BY <1>12, <2>1, <2>3, <3>2
    <3> HIDE DEF free
    <3>4. OwnerOf(r) = [OwnerOf(s) EXCEPT ![m] = id]
      BY <2>4, <3>3
    <3>5. QED
      BY <2>6, <3>4 DEF m
  <2>7. QED
    BY <2>5, <2>6
<1>14. ShownOn(r) = [y \in LiveOutputIds(s) \cup {id} |->
                       IF y # id THEN ShownOn(s)[y] ELSE IF free = {} THEN 0 ELSE Min(free)]
  <2>1. ASSUME NEW y \in LiveOutputIds(s) PROVE y # id /\ ShownOn(r)[y] = ShownOn(s)[y]
    <3>1. PICK o \in OutputIdx(s) : y = s.outputs[o].id
      BY DEF LiveOutputIds
    <3>2. ShownOn(s)[y] = s.outputs[o].active_tag
      BY <1>1, <3>1, ShownAt
    <3>3. y = r.outputs[o].id /\ o \in OutputIdx(r)
      BY <1>2, <1>5, <3>1
    <3>4. ShownOn(r)[y] = r.outputs[o].active_tag
      BY <1>1, <1>6, <3>3, ShownAt
    <3>5. QED
      BY <3>2, <3>4 DEF PluggedLast
  <2>2. ShownOn(r)[id] = IF free = {} THEN 0 ELSE Min(free)
    <3>1. ShownOn(r)[id] = r.outputs[n].active_tag
      BY <1>1, <1>2, <1>5, <1>6, ShownAt
    <3>2. QED
      BY <3>1 DEF PluggedLast, n
  <2>3. ShownOn(r) = [y \in LiveOutputIds(s) \cup {id} |-> ShownOn(r)[y]]
    BY <1>7 DEF ShownOn
  <2> HIDE DEF free
  <2>4. QED
    BY <2>1, <2>2, <2>3
<1>15. IdAt(r, r.focused_output) = IF IdAt(s, s.focused_output) = None THEN id
                                   ELSE IdAt(s, s.focused_output)
  <2>1. r.focused_output = IF s.focused_output = None THEN n ELSE s.focused_output
    BY DEF PluggedLast, n
  <2>2. s.focused_output # None => s.focused_output \in OutputIdx(s)
    BY DEF Inv, TagOwnership, TagTable, FocusIsAnOutput
  <2>3. QED
    BY <1>1, <1>12, <2>1, <2>2, OwnerIds
<1>16. GT!Min(free) = Min(free)
  BY DEF GT!Min, Min
<1>17. GT!Plug(id)
  BY <1>8, <1>9, <1>10, <1>13, <1>14, <1>15, <1>16 DEF GT!Plug
<1>18. QED
  BY <1>6, <1>17

\* A monitor unplugged.
LEMMA UnplugRefines ==
  ASSUME Inv, Inv', Distinct(state), NEW idx \in OutputIdx(state),
         WithoutOutput(state, state', idx)
  PROVE  GT!Unplug(state.outputs[idx].id) /\ Distinct(state')
<1> DEFINE s == state
           r == state'
           n == NumOutputs(s)
           remaining == n - 1
           old(o) == IF o < idx THEN o ELSE o + 1
           new(k) == IF k < idx THEN k ELSE k - 1
           x == s.outputs[idx].id
           rest == RemoveAt(PluggedIn(s), idx + 1)
           first == IF remaining = 0 THEN None ELSE r.outputs[0].id
<1>1. IsState(s) /\ OwnersAreOutputs(s) /\ IsState(r) /\ OwnersAreOutputs(r)
  BY DEF Inv, TypeOK, TagOwnership, TagTable
<1>2. /\ n \in Nat /\ OutputIdx(s) = 0 .. (n - 1) /\ idx \in Nat /\ idx < n
      /\ remaining \in Nat /\ OutputIdx(r) = 0 .. (remaining - 1)
  BY <1>1 DEF IsState, WithoutOutput
<1>3. NumOutputs(r) = remaining
  <2> HIDE DEF n
  <2>1. QED
    BY <1>2, IntervalSize DEF NumOutputs
<1>4. /\ \A o \in OutputIdx(r) : r.outputs[o].id = s.outputs[old(o)].id
      /\ r.tags = remap_tag_owners(s.tags, idx, remaining)
      /\ r.focused_output = IF remaining = 0 THEN None
                            ELSE IF s.focused_output = idx THEN 0
                            ELSE IF s.focused_output > idx THEN s.focused_output - 1
                            ELSE s.focused_output
      /\ \A o \in OutputIdx(r) :
            \/ /\ r.outputs[o].active_tag = s.outputs[old(o)].active_tag
               /\ \/ OwnedTags(r, o) = {}
                  \/ s.outputs[old(o)].active_tag \in OwnedTags(s, old(o))
            \/ /\ o = 0
               /\ OwnedTags(s, old(o)) = {}
               /\ r.outputs[o].active_tag \in OwnedTags(r, o)
  BY <1>2 DEF WithoutOutput
<1> HIDE DEF n
<1>5. \A o \in OutputIdx(r) : old(o) \in OutputIdx(s) \ {idx} /\ new(old(o)) = o
  BY <1>2
<1>6. \A k \in OutputIdx(s) \ {idx} : new(k) \in OutputIdx(r) /\ old(new(k)) = k
  BY <1>2
<1> HIDE DEF old, new, x
<1>7. Distinct(r)
  <2> SUFFICES ASSUME NEW o \in OutputIdx(r), NEW p \in OutputIdx(r),
                      r.outputs[o].id = r.outputs[p].id
               PROVE  o = p
    BY DEF Distinct
  <2>1. old(o) = old(p)
    BY <1>4, <1>5 DEF Distinct
  <2>2. QED
    BY <1>5, <2>1
<1>8. \A k \in OutputIdx(s) \ {idx} : s.outputs[k].id # x /\ r.outputs[new(k)].id = s.outputs[k].id
  BY <1>4, <1>6 DEF Distinct, x
<1>9. LiveOutputIds(r) = LiveOutputIds(s) \ {x}
  <2>1. \A o \in OutputIdx(r) : r.outputs[o].id \in LiveOutputIds(s) \ {x}
    BY <1>4, <1>5, <1>8 DEF LiveOutputIds
  <2>2. ASSUME NEW y \in LiveOutputIds(s) \ {x} PROVE y \in LiveOutputIds(r)
    <3>1. PICK k \in OutputIdx(s) : y = s.outputs[k].id
      BY DEF LiveOutputIds
    <3>2. k # idx
      BY <3>1 DEF x
    <3>3. QED
      BY <1>6, <1>8, <3>1, <3>2 DEF LiveOutputIds
  <2>3. QED
    BY <2>1, <2>2 DEF LiveOutputIds
<1>10. GT!Monitors = LiveOutputIds(s) /\ x \in LiveOutputIds(s)
  BY <1>1, PluggedInOrder DEF GT!Monitors, LiveOutputIds, x
<1>11. /\ PluggedIn(s) \in Seq(OutputIds) /\ Len(PluggedIn(s)) = n
       /\ DOMAIN PluggedIn(s) = 1 .. n
       /\ \A o \in OutputIdx(s) : PluggedIn(s)[o + 1] = s.outputs[o].id
       /\ PluggedIn(r) \in Seq(OutputIds) /\ Len(PluggedIn(r)) = remaining
       /\ \A o \in OutputIdx(r) : PluggedIn(r)[o + 1] = r.outputs[o].id
  BY <1>1, <1>3, PluggedInOrder DEF n
<1>12. GT!PlaceOf(x) = idx + 1
  <2>1. \A i \in 1 .. n : PluggedIn(s)[i] = x <=> i = idx + 1
    <3>1. TAKE i \in 1 .. n
    <3>2. i - 1 \in OutputIdx(s) /\ (i - 1) + 1 = i
      BY <1>2
    <3>3. PluggedIn(s)[i] = s.outputs[i - 1].id
      BY <1>11, <3>2
    <3>4. s.outputs[i - 1].id = x <=> i - 1 = idx
      BY <3>2 DEF Distinct, x
    <3>5. QED
      BY <1>2, <3>3, <3>4
  <2>2. idx + 1 \in 1 .. n
    BY <1>2
  <2>3. QED
    BY <1>11, <2>1, <2>2 DEF GT!PlaceOf
<1>13. rest = PluggedIn(r)
  <2>1. idx + 1 \in 1 .. Len(PluggedIn(s))
    BY <1>2, <1>11
  <2>2. /\ rest \in Seq(OutputIds) /\ Len(rest) = remaining
        /\ \A j \in 1 .. remaining :
              rest[j] = IF j < idx + 1 THEN PluggedIn(s)[j] ELSE PluggedIn(s)[j + 1]
    BY <1>11, <2>1, Removal
  <2>3. ASSUME NEW j \in 1 .. remaining PROVE rest[j] = PluggedIn(r)[j]
    <3>1. j - 1 \in OutputIdx(r) /\ (j - 1) + 1 = j
      BY <1>2
    <3>2. PluggedIn(r)[j] = s.outputs[old(j - 1)].id
      BY <1>4, <1>11, <3>1
    <3>3. PluggedIn(s)[old(j - 1) + 1] = s.outputs[old(j - 1)].id
      BY <1>5, <1>11, <3>1
    <3>4. old(j - 1) + 1 = IF j < idx + 1 THEN j ELSE j + 1
      BY <1>2, <3>1 DEF old
    <3>5. QED
      BY <2>2, <3>2, <3>3, <3>4
  <2> HIDE DEF rest
  <2>4. QED
    BY <1>11, <2>2, <2>3, SeqEqual
<1>14. /\ rest = <<>> <=> remaining = 0
       /\ remaining # 0 => Head(rest) = r.outputs[0].id
  <2>1. PluggedIn(r) = <<>> <=> remaining = 0
    BY <1>11, EmptySeq
  <2>2. ASSUME remaining # 0 PROVE Head(PluggedIn(r)) = r.outputs[0].id
    <3>1. 0 \in OutputIdx(r) /\ 0 + 1 = 1
      BY <1>2, <2>2
    <3>2. PluggedIn(r)[1] = r.outputs[0].id
      BY <1>11, <3>1
    <3>3. QED
      BY <1>11, <2>1, <2>2, <3>2
  <2> HIDE DEF rest
  <2>3. QED
    BY <1>13, <2>1, <2>2
<1>15. /\ \A t \in Tags : s.tags[t] = None \/ s.tags[t] \in OutputIdx(s)
       /\ s.focused_output \in OutputIdx(s)
  BY DEF Inv, TagOwnership, TagTable, OwnersAreOutputs, FocusIsAnOutput
<1>16. /\ \A k \in OutputIdx(s) : k # None /\ k \in Int /\ IdAt(s, k) = s.outputs[k].id
       /\ \A o \in OutputIdx(r) : IdAt(r, o) = r.outputs[o].id
       /\ IdAt(s, None) = None /\ IdAt(r, None) = None /\ x # None
       /\ remaining # 0 => IdAt(r, 0) = first
  BY <1>1, <1>2, <1>10, OwnerIds DEF IdAt, x
<1>17. ASSUME NEW t \in Tags
       PROVE  OwnerOf(r)[t] = IF OwnerOf(s)[t] = x \/ remaining = 0 THEN first ELSE OwnerOf(s)[t]
  <2>1. OwnerOf(r)[t] = IdAt(r, r.tags[t]) /\ OwnerOf(s)[t] = IdAt(s, s.tags[t])
    BY DEF OwnerOf
  <2>2. r.tags[t] = IF s.tags[t] = None \/ remaining = 0 THEN None
                    ELSE IF s.tags[t] = idx THEN 0
                    ELSE IF s.tags[t] > idx THEN s.tags[t] - 1 ELSE s.tags[t]
    BY <1>4 DEF remap_tag_owners
  <2>3. CASE s.tags[t] = None \/ remaining = 0
    BY <1>16, <2>1, <2>2, <2>3
  <2>4. CASE s.tags[t] = idx /\ remaining # 0
    <3>1. OwnerOf(s)[t] = x
      BY <1>16, <2>1, <2>4 DEF x
    <3>2. r.tags[t] = 0
      BY <1>16, <2>2, <2>4
    <3>3. QED
      BY <1>16, <2>1, <2>4, <3>1, <3>2
  <2>5. CASE s.tags[t] # idx /\ s.tags[t] # None /\ remaining # 0
    <3> DEFINE k == s.tags[t]
    <3>1. k \in OutputIdx(s) \ {idx} /\ k \in Int
      BY <1>15, <1>16, <2>5
    <3>2. r.tags[t] = new(k)
      BY <1>2, <2>2, <2>5, <3>1 DEF new
    <3>3. OwnerOf(r)[t] = s.outputs[k].id /\ OwnerOf(s)[t] = s.outputs[k].id
      BY <1>6, <1>8, <1>16, <2>1, <3>1, <3>2
    <3>4. QED
      BY <1>8, <2>5, <3>1, <3>3
  <2>6. QED
    BY <1>15, <2>3, <2>4, <2>5
<1>18. IdAt(r, r.focused_output) = IF IdAt(s, s.focused_output) = x THEN first
                                   ELSE IdAt(s, s.focused_output)
  <2> DEFINE k == s.focused_output
  <2>1. k \in OutputIdx(s) /\ k \in Int
    BY <1>15, <1>16
  <2>2. CASE k = idx
    BY <1>4, <1>16, <2>2 DEF x
  <2>3. CASE k # idx
    <3>1. remaining # 0
      BY <1>2, <2>1, <2>3
    <3>2. r.focused_output = new(k)
      BY <1>2, <1>4, <2>1, <2>3, <3>1 DEF new
    <3>3. QED
      BY <1>6, <1>8, <1>16, <2>1, <2>3, <3>2
  <2>4. QED
    BY <2>2, <2>3
<1> HIDE DEF first, rest, remaining
<1>19. ASSUME NEW y \in LiveOutputIds(s) \ {x}
       PROVE  \/ /\ ShownOn(r)[y] = ShownOn(s)[y]
                 /\ OwnerOf(s)[ShownOn(s)[y]] = y \/ y \notin {OwnerOf(r)[t] : t \in Tags}
              \/ y = first /\ OwnerOf(s)[ShownOn(s)[y]] # y /\ OwnerOf(r)[ShownOn(r)[y]] = y
  <2>1. PICK o \in OutputIdx(r) : y = r.outputs[o].id
    BY <1>9 DEF LiveOutputIds
  <2> DEFINE k == old(o)
             tag == s.outputs[k].active_tag
             tag2 == r.outputs[o].active_tag
  <2>2. k \in OutputIdx(s) /\ y = s.outputs[k].id
    BY <1>4, <1>5, <2>1
  <2>3. ShownOn(s)[y] = tag /\ ShownOn(r)[y] = tag2
    BY <1>1, <1>7, <2>1, <2>2, ShownAt
  <2>4. tag \in Tags /\ tag2 \in Tags
    BY <1>1, <2>1, <2>2 DEF IsState, OutputType
  <2>5. /\ \A t \in Tags : OwnerOf(s)[t] = y <=> t \in OwnedTags(s, k)
        /\ \A t \in Tags : OwnerOf(r)[t] = y <=> t \in OwnedTags(r, o)
    <3>1. ASSUME NEW t \in Tags PROVE OwnerOf(s)[t] = y <=> s.tags[t] = k
      <4>1. OwnerOf(s)[t] = IdAt(s, s.tags[t])
        BY DEF OwnerOf
      <4>2. y # None
        BY <1>16, <1>1, <2>2, OwnerIds
      <4>3. QED
        BY <1>15, <1>16, <2>2, <4>1, <4>2 DEF Distinct
    <3>2. ASSUME NEW t \in Tags PROVE OwnerOf(r)[t] = y <=> r.tags[t] = o
      <4>1. OwnerOf(r)[t] = IdAt(r, r.tags[t])
        BY DEF OwnerOf
      <4>2. y # None
        BY <1>1, <1>16, <2>1, OwnerIds
      <4>3. r.tags[t] = None \/ r.tags[t] \in OutputIdx(r)
        BY <1>1 DEF OwnersAreOutputs
      <4>4. QED
        BY <1>7, <1>16, <2>1, <4>1, <4>2, <4>3 DEF Distinct
    <3>3. QED
      BY <3>1, <3>2 DEF OwnedTags
  <2>6. CASE tag2 = tag /\ (OwnedTags(r, o) = {} \/ tag \in OwnedTags(s, k))
    BY <2>3, <2>4, <2>5, <2>6
  <2>7. CASE o = 0 /\ OwnedTags(s, k) = {} /\ tag2 \in OwnedTags(r, o)
    <3>1. y = first
      BY <1>2, <2>1, <2>7 DEF first
    <3>2. QED
      BY <2>3, <2>4, <2>5, <2>7, <3>1
  <2>8. QED
    BY <1>4, <2>1, <2>6, <2>7
<1>20. DOMAIN ShownOn(r) = LiveOutputIds(s) \ {x}
  BY <1>1, <1>7, <1>9, ShownAt
<1>21. OwnerOf(r) = [t \in Tags |-> IF OwnerOf(s)[t] = x \/ rest = <<>> THEN first
                                    ELSE OwnerOf(s)[t]]
  <2>1. OwnerOf(r) = [t \in Tags |-> OwnerOf(r)[t]]
    BY DEF OwnerOf
  <2>2. QED
    BY <1>14, <1>17, <2>1
<1>22. first = IF rest = <<>> THEN None ELSE Head(rest)
  BY <1>14 DEF first
<1>23. GT!RemoveAt(PluggedIn(s), GT!PlaceOf(x)) = rest
  BY <1>12 DEF GT!RemoveAt, RemoveAt, rest
<1>24. GT!TagSet = Tags
  BY DEF GT!TagSet, Tags
<1>25. GT!Unplug(x)
  BY <1>10, <1>13, <1>18, <1>19, <1>20, <1>21, <1>22, <1>23, <1>24 DEF GT!Unplug
<1>26. QED
  BY <1>7, <1>25 DEF x

-----------------------------------------------------------------------------
(***************************************************************************)
(* What each handler does to tags and focus.                               *)
(***************************************************************************)
\* One window's wishes change.
LEMMA WishSame ==
  ASSUME NEW s, IsState(s), NEW w \in WindowIds(s), NEW win \in WindowType
  PROVE  LET r == [s EXCEPT !.windows[w] = win]
         IN  IsState(r) /\ WindowIds(r) = WindowIds(s) /\ SameTags(s, r)
<1> DEFINE wins == [s.windows EXCEPT ![w] = win]
<1>1. wins \in [WindowIds(s) -> WindowType] /\ WindowIds(s) \in SUBSET Nat
  BY DEF IsState
<1>2. [s EXCEPT !.windows[w] = win] = [s EXCEPT !.windows = wins]
  BY DEF IsState
<1> HIDE DEF wins
<1>3. QED
  BY <1>1, <1>2, WindowsReplaced

\* Windows that ask, and windows that are pointed at or asked for.
LEMMA WindowMoves ==
  ASSUME Inv, NEW w \in WindowIds(state), NEW on \in BOOLEAN,
         \/ FullscreenRequested(w, on) \/ MinimizeRequested(w) \/ PointerEnter(w)
         \/ WindowInteraction(w) \/ CmdFocusWindow(w)
  PROVE  Moves(state, state')
<1> DEFINE win == state.windows[w]
<1>0. IsState(state) /\ win \in WindowType
  BY DEF Inv, TypeOK, IsState
<1>1. CASE FullscreenRequested(w, on) \/ MinimizeRequested(w)
  <2> DEFINE new == IF FullscreenRequested(w, on) THEN [win EXCEPT !.fullscreen = on]
                    ELSE [win EXCEPT !.minimized = TRUE]
  <2>1. new \in WindowType
    BY <1>0 DEF WindowType
  <2>2. state' = [state EXCEPT !.windows[w] = new]
    BY <1>0, <1>1 DEF IsState, FullscreenRequested, MinimizeRequested
  <2> HIDE DEF new
  <2>3. SameTags(state, state')
    BY <1>0, <2>1, <2>2, WishSame
  <2>4. QED
    BY <2>3, SameMoves
<1>2. CASE PointerEnter(w)
  BY <1>0, <1>2, FocusWindowMoves, SameMoves DEF PointerEnter, SameTags
<1>3. CASE WindowInteraction(w)
  <2> DEFINE new == [win EXCEPT !.minimized = FALSE]
             mid == [state EXCEPT !.windows[w] = new]
  <2>1. new \in WindowType
    BY <1>0 DEF WindowType
  <2>2. state' = focus_window_on_output(mid, w)
    BY <1>0, <1>3 DEF IsState, WindowInteraction
  <2> HIDE DEF new
  <2>3. IsState(mid) /\ WindowIds(mid) = WindowIds(state) /\ SameTags(state, mid)
    BY <1>0, <2>1, WishSame
  <2> HIDE DEF mid
  <2>4. Moves(mid, state')
    BY <2>2, <2>3, FocusWindowMoves
  <2>5. QED
    BY <2>3, <2>4, SameThenMoves
<1>4. CASE CmdFocusWindow(w)
  BY <1>0, <1>4, FocusWindowMoves DEF CmdFocusWindow
<1>5. QED
  BY <1>1, <1>2, <1>3, <1>4

\* The focus goes to another output.
LEMMA FocusOutputMoves ==
  ASSUME NEW s, IsState(s), NEW o \in OutputIdx(s)
  PROVE  Moves(s, [s EXCEPT !.focused_output = o])
<1> DEFINE r == [s EXCEPT !.focused_output = o]
<1>1. r.tags = s.tags /\ r.outputs = s.outputs /\ r.focused_output = o
  BY DEF IsState
<1> HIDE DEF r
<1>2. Focuses(s, r, o) /\ OutputIdx(r) = OutputIdx(s)
  BY <1>1 DEF Focuses, OutputIdx
<1>3. QED
  BY <1>2 DEF Moves, r

\* Outputs that move: what repair_outputs revalidates needed no repair.
LEMMA OutputMoves ==
  ASSUME Inv,
         \/ OutputChanged \/ OtherEvent
         \/ \E o \in OutputIdx(state) : PointerPosition(o) \/ CmdFocusOutput(o)
  PROVE  Moves(state, state')
<1>0. IsState(state) /\ TagTable(state)
  BY DEF Inv, TypeOK, TagOwnership
<1>1. CASE OutputChanged
  <2>1. /\ OutputIdx(state') = OutputIdx(state) /\ state'.tags = state.tags
        /\ Normal(state, state')
    BY <1>0, <1>1, NormalizeKeeps DEF OutputChanged, repair_outputs, TagTable, Keeps
  <2>2. \A o \in OutputIdx(state) : state'.outputs[o].active_tag = state.outputs[o].active_tag
    BY <1>0, <2>1, BestTagKept DEF Normal, TagTable, ShownTagIsOwned
  <2>3. state'.focused_output = state.focused_output
    BY <1>0, <2>1 DEF Normal, TagTable, FocusIsAnOutput
  <2>4. QED
    BY <2>1, <2>2, <2>3, SameMoves DEF SameTags
<1>2. CASE OtherEvent
  BY <1>2, SameMoves DEF OtherEvent, SameTags
<1>3. ASSUME NEW o \in OutputIdx(state), PointerPosition(o) \/ CmdFocusOutput(o)
      PROVE  Moves(state, state')
  BY <1>0, <1>3, FocusOutputMoves DEF PointerPosition, CmdFocusOutput
<1>4. QED
  BY <1>1, <1>2, <1>3

\* Keys, socket commands on tags, and flush_pending.
LEMMA KeyMoves ==
  ASSUME Inv, KeyStep \/ flush_pending
  PROVE  Moves(state, state')
<1>0. IsState(state) /\ OwnersAreOutputs(state)
  BY DEF Inv, TypeOK, TagOwnership, TagTable
<1>1. CASE KeyClose
  BY <1>1, SameMoves DEF KeyClose, SameTags
<1>2. ASSUME NEW forward \in BOOLEAN, KeyCycle(forward) PROVE Moves(state, state')
  <2> DEFINE o == active_output(state)
             ids == ShownWindows(state, o)
             k == app.next_window_id - 1
             f == CycleFrom(ids, state.outputs[o].focused_window, forward)
  <2>1. o \in OutputIdx(state) /\ k \in Nat
    BY <1>2, ActiveIsOutput DEF KeyCycle, Inv, TypeOK, AppType
  <2>2. ids \in SUBSET (1 .. k) /\ ids # {}
    BY <1>2 DEF Inv, TypeOK, ShownWindows, KeyCycle
  <2>3. state' = [state EXCEPT !.outputs[o].focused_window = f]
    BY <1>2 DEF KeyCycle
  <2> HIDE DEF o, ids, k
  <2>4. f \in ids
    BY <2>1, <2>2, CycleInSet
  <2> HIDE DEF f
  <2>5. f \in Nat
    BY <2>1, <2>2, <2>4
  <2>6. QED
    BY <1>0, <2>1, <2>3, <2>5, SetFocusedWindow, SameMoves
<1>3. ASSUME NEW forward \in BOOLEAN, KeyFocusOutput(forward) PROVE Moves(state, state')
  <2> DEFINE n == NumOutputs(state)
             cur == IF state.focused_output = None THEN 0 ELSE state.focused_output
             next == IF forward THEN (IF cur + 1 = n THEN 0 ELSE cur + 1)
                     ELSE (IF cur = 0 THEN n - 1 ELSE cur - 1)
  <2>1. n \in Nat /\ OutputIdx(state) = 0 .. (n - 1) /\ n > 1
    BY <1>0, <1>3 DEF IsState, KeyFocusOutput
  <2>2. cur \in OutputIdx(state)
    BY <1>0, <2>1 DEF Inv, TagOwnership, TagTable, FocusIsAnOutput
  <2>3. state' = [state EXCEPT !.focused_output = next]
    BY <1>3 DEF KeyFocusOutput
  <2> HIDE DEF n, cur
  <2>4. next \in OutputIdx(state)
    BY <2>1, <2>2
  <2> HIDE DEF next
  <2>5. QED
    BY <1>0, <2>3, <2>4, FocusOutputMoves
<1>4. ASSUME NEW tag, KeyFocusTag(tag) PROVE Moves(state, state')
  BY <1>0, <1>4, FocusTagMoves, SameMoves DEF KeyFocusTag, SameTags
<1>5. ASSUME NEW tag, NEW o, KeySendToTag(tag) \/ CmdSendToTag(tag) \/ CmdFocusTag(tag, o)
      PROVE  Moves(state, state')
  BY <1>0, <1>5, FocusTagMoves, SendFocusedMoves, SameMoves
     DEF KeySendToTag, CmdSendToTag, CmdFocusTag, SameTags
<1>6. CASE KeyFullscreen
  <2> DEFINE w == FocusedWindow(state)
             win == state.windows[w]
             new == [win EXCEPT !.fullscreen = ~@]
  <2>1. w \in WindowIds(state) /\ win \in WindowType
    BY <1>0, <1>6 DEF KeyFullscreen, IsState
  <2>2. new \in WindowType
    BY <2>1 DEF WindowType
  <2>3. state' = [state EXCEPT !.windows[w] = new]
    BY <1>0, <1>6 DEF KeyFullscreen, IsState
  <2> HIDE DEF w, new
  <2>4. SameTags(state, state')
    BY <1>0, <2>1, <2>2, <2>3, WishSame
  <2>5. QED
    BY <2>4, SameMoves
<1>7. CASE KeyToggleResize \/ KeyExitResize \/ flush_pending
  <2>1. state'.outputs = state.outputs /\ state'.tags = state.tags
        /\ state'.focused_output = state.focused_output
    BY <1>0, <1>7 DEF KeyToggleResize, KeyExitResize, flush_pending, IsState
  <2>2. QED
    BY <2>1, SameMoves DEF SameTags, OutputIdx
<1>8. CASE KeyResizeStep
  BY <1>0, <1>8, ClearFullscreen, SameMoves DEF KeyResizeStep, SameTags
<1>9. QED
  BY <1>1, <1>2, <1>3, <1>4, <1>5, <1>6, <1>7, <1>8 DEF KeyStep

\* Windows that open and close, and the manage and render sequences.
LEMMA SequenceMoves ==
  ASSUME Inv,
         \/ WindowCreated \/ (\E w \in WindowIds(state) : WindowClosed(w))
         \/ ManageStart \/ RenderStart
  PROVE  SameTags(state, state') /\ SameMonitors(state, state')
<1>0. IsState(state) /\ TagTable(state) /\ WindowIds(state) \in SUBSET Nat
      /\ app.next_window_id \in Nat
  BY DEF Inv, TypeOK, TagOwnership, IsState, AppType
<1>1. CASE WindowCreated
  <2>1. state' = PushWindow(state, app.next_window_id)
    BY <1>1 DEF WindowCreated
  <2>2. QED
    BY <1>0, <2>1, PushKeeps DEF SameMonitors, SameTags
<1>2. ASSUME NEW wid \in WindowIds(state), WindowClosed(wid)
      PROVE  SameTags(state, state') /\ SameMonitors(state, state')
  <2> DEFINE wins == [w \in WindowIds(state) \ {wid} |-> state.windows[w]]
  <2>1. state' = [state EXCEPT !.windows = wins]
    BY <1>2 DEF WindowClosed, ForgetWindow
  <2>2. state'.outputs = state.outputs /\ state'.tags = state.tags
        /\ state'.focused_output = state.focused_output
    BY <1>0, <2>1 DEF IsState
  <2>3. QED
    BY <2>2 DEF SameTags, SameMonitors, OutputIdx
<1>3. CASE ManageStart
  <2>1. ManageEffect(RefocusAll(state))
    BY <1>3, ManageChanges
  <2>2. QED
    BY <2>1 DEF ManageEffect, SameTags, SameMonitors, OutputIdx
<1>4. CASE RenderStart
  <2> DEFINE released == release_hidden_nodes(state)
             wants == {w \in WindowIds(released) : ~released.windows[w].node
                                                   /\ window_is_visible(released, w)}
             wins == [w \in WindowIds(released) |->
                        [released.windows[w] EXCEPT !.node = @ \/ w \in wants]]
  <2>1. state' = [released EXCEPT !.windows = wins]
    BY <1>4 DEF RenderStart, on_render_start
  <2>2. IsState(released) /\ SameTags(state, released)
    BY <1>0, ReleaseKeeps
  <2>3. released.outputs = state.outputs
    BY <1>0 DEF release_hidden_nodes, IsState
  <2> HIDE DEF released, wins
  <2>4. state'.outputs = released.outputs /\ state'.tags = released.tags
        /\ state'.focused_output = released.focused_output
    BY <2>1, <2>2 DEF IsState
  <2>5. QED
    BY <2>2, <2>3, <2>4 DEF SameTags, SameMonitors, OutputIdx
<1>5. QED
  BY <1>1, <1>2, <1>3, <1>4

-----------------------------------------------------------------------------
(***************************************************************************)
(* The theorem.                                                            *)
(***************************************************************************)
\* It starts as the tag engine starts.
LEMMA InitRefines == Init => GT!TagsInit /\ Distinct(state)
<1> SUFFICES ASSUME Init PROVE GT!TagsInit /\ Distinct(state)
  OBVIOUS
<1>1. /\ OutputIdx(state) = {} /\ state.focused_output = None
      /\ state.tags = [t \in Tags |-> None]
  BY DEF Init, NewState, OutputIdx
<1>2. IsState(state)
  BY InitInv DEF Inv, TypeOK
<1>3. PluggedIn(state) = <<>>
  <2>1. NumOutputs(state) = 0
    BY <1>1, IntervalSize DEF NumOutputs
  <2>2. PluggedIn(state) \in Seq(OutputIds) /\ Len(PluggedIn(state)) = 0
    BY <1>2, <2>1, PluggedInOrder
  <2>3. QED
    BY <2>2, EmptySeq
<1>4. OwnerOf(state) = [t \in GT!TagSet |-> None]
  BY <1>1 DEF OwnerOf, IdAt, GT!TagSet, Tags
<1>5. ShownOn(state) = [x \in {} |-> 0]
  <2>1. LiveOutputIds(state) = {}
    BY <1>1 DEF LiveOutputIds
  <2>2. QED
    BY <2>1 DEF ShownOn
<1>6. IdAt(state, state.focused_output) = None
  BY <1>1 DEF IdAt
<1>7. QED
  BY <1>1, <1>3, <1>4, <1>5, <1>6 DEF GT!TagsInit, Distinct

\* A step that moves nothing between monitors, with what it leaves invariant.
LEMMA MonitorStep ==
  ASSUME Inv, Inv', Distinct(state), SameMonitors(state, state'), Moves(state, state')
  PROVE  [GT!TagsNext]_GT!tvars /\ Distinct(state')
<1>1. IsState(state)
  BY DEF Inv, TypeOK
<1>2. QED
  BY <1>1, MoveRefines, MonitorsStay

\* Every step is a step of the tag engine, or none.
LEMMA StepRefines ==
  Inv /\ Distinct(state) /\ [Next]_vars => [GT!TagsNext]_GT!tvars /\ Distinct(state')
<1> SUFFICES ASSUME Inv, Distinct(state), [Next]_vars
             PROVE  [GT!TagsNext]_GT!tvars /\ Distinct(state')
  OBVIOUS
<1>0. Inv' /\ IsState(state) /\ TagTable(state)
  BY NextInv DEF Inv, TypeOK, TagOwnership
<1>1. Quiet => SameMonitors(state, state')
  BY DEF Quiet, Mirrors, SameMonitors
<1>2. CASE WindowStep
  <2>1. ASSUME NEW w \in WindowIds(state),
               \/ \E on \in BOOLEAN : FullscreenRequested(w, on)
               \/ MinimizeRequested(w)
               \/ PointerEnter(w)
               \/ WindowInteraction(w)
               \/ CmdFocusWindow(w)
        PROVE  [GT!TagsNext]_GT!tvars /\ Distinct(state')
    <3>1. Quiet /\ Moves(state, state')
      BY <2>1, WindowQuiet, WindowMoves
    <3>2. QED
      BY <1>0, <1>1, <3>1, MonitorStep
  <2>2. CASE WindowCreated \/ \E w \in WindowIds(state) : WindowClosed(w)
    BY <1>0, <2>2, SequenceMoves, SameMoves, MonitorStep
  <2>3. QED
    BY <1>2, <2>1, <2>2 DEF WindowStep
<1>3. CASE OutputStep
  <2>1. ASSUME NEW id \in OutputIds, OutputCreated(id)
        PROVE  [GT!TagsNext]_GT!tvars /\ Distinct(state')
    <3>1. PluggedLast(state, state', id) /\ id \notin LiveOutputIds(state)
      BY <1>0, <2>1, PushOutputKeeps DEF OutputCreated
    <3>2. GT!Plug(id) /\ Distinct(state')
      BY <1>0, <3>1, PlugRefines
    <3>3. QED
      BY <3>2 DEF GT!TagsNext
  <2>2. ASSUME NEW idx \in OutputIdx(state), OutputRemoved(idx)
        PROVE  [GT!TagsNext]_GT!tvars /\ Distinct(state')
    <3>1. WithoutOutput(state, state', idx)
      BY <1>0, <2>2, RemoveOutputKeeps DEF OutputRemoved
    <3>2. GT!Unplug(state.outputs[idx].id) /\ Distinct(state')
      BY <1>0, <3>1, UnplugRefines
    <3>3. state.outputs[idx].id \in OutputIds
      BY <1>0 DEF IsState, OutputType
    <3>4. QED
      BY <3>2, <3>3 DEF GT!TagsNext
  <2>3. ASSUME OutputChanged \/ OtherEvent
               \/ \E o \in OutputIdx(state) : PointerPosition(o) \/ CmdFocusOutput(o)
        PROVE  [GT!TagsNext]_GT!tvars /\ Distinct(state')
    <3>1. Quiet /\ Moves(state, state')
      BY <2>3, OutputQuiet, OutputMoves
    <3>2. QED
      BY <1>0, <1>1, <3>1, MonitorStep
  <2>4. QED
    BY <1>3, <2>1, <2>2, <2>3 DEF OutputStep
<1>4. CASE KeyStep \/ flush_pending
  <2>1. Quiet /\ Moves(state, state')
    BY <1>4, KeyQuiet, KeyMoves
  <2>2. QED
    BY <1>0, <1>1, <2>1, MonitorStep
<1>5. CASE ManageStart \/ RenderStart
  BY <1>0, <1>5, SequenceMoves, SameMoves, MonitorStep
<1>6. CASE UNCHANGED vars
  <2>1. SameTags(state, state') /\ SameMonitors(state, state')
    BY <1>6 DEF vars, SameTags, SameMonitors
  <2>2. QED
    BY <1>0, <2>1, SameMoves, MonitorStep
<1>7. QED
  BY <1>2, <1>3, <1>4, <1>5, <1>6 DEF Next, Settle

\* The window manager implements the tag engine of the repository's README:
\* whatever the order of plugging, unplugging, keys and commands, a tag changes its monitor only
\* when that monitor is unplugged, and then goes to the first that is left;
\* unplugging one monitor disturbs neither what another shows nor its focus.
THEOREM ImplementsGlobalTagsHolds == Spec => ImplementsGlobalTags
<1> DEFINE D == Distinct(state)
<1>1. Init => GT!TagsInit /\ D
  BY InitRefines
<1>2. Inv /\ D /\ [Next]_vars => [GT!TagsNext]_GT!tvars /\ D'
  BY StepRefines DEF Distinct, OutputIdx
<1> HIDE DEF D
<1>3. Spec => GT!TagsInit /\ [][GT!TagsNext]_GT!tvars
  BY <1>1, <1>2, InitInv, NextInv, PTL DEF Spec
<1>4. QED
  BY <1>3 DEF ImplementsGlobalTags, GT!TagsSpec
=============================================================================
