--------------------------- MODULE WmStateProofs ---------------------------
(***************************************************************************)
(* What the operators of WmState preserve, for every number of tags,       *)
(* outputs and windows.                                                    *)
(***************************************************************************)
EXTENDS WmState, FiniteSetTheorems, WellFoundedInduction, TLAPS

-----------------------------------------------------------------------------
(***************************************************************************)
(* Least and greatest elements: what Min and Max return.                   *)
(***************************************************************************)
\* Every non-empty set of naturals has a least element.
LEMMA LeastElement ==
  ASSUME NEW S \in SUBSET Nat, S # {}
  PROVE  \E m \in S : \A y \in S : m =< y
<1> DEFINE R == {ss \in Nat \X Nat : ss[1] < ss[2]}
<1>0. R = OpToRel(<, Nat)
  BY DEF OpToRel
<1>1. IsWellFoundedOn(R, Nat)
  BY <1>0, NatLessThanWellFounded
<1>2. \A x, y \in Nat : x < y => <<x, y>> \in R
  OBVIOUS
<1> HIDE DEF R
<1>3. PICK m \in S : \A y \in S : ~ (<<y, m>> \in R)
  BY <1>1, WFMin
<1>4. ASSUME NEW y \in S PROVE m =< y
  <2>1. m \in Nat /\ y \in Nat
    OBVIOUS
  <2>2. ~ (y < m)
    BY <1>2, <1>3, <2>1, Zenon
  <2>3. QED
    BY <2>1, <2>2
<1>5. QED
  BY <1>4

\* Every non-empty set of numbers up to k has a greatest element.
LEMMA GreatestElement ==
  ASSUME NEW k \in Nat, NEW S \in SUBSET (1 .. k), S # {}
  PROVE  \E m \in S : \A y \in S : m >= y
<1> DEFINE T == {n \in Nat : \E x \in S : n = k - x}
<1>1. \A x \in S : x \in Nat /\ k - x \in Nat /\ k - x \in T
  OBVIOUS
<1>2. T \in SUBSET Nat /\ T # {}
  BY <1>1
<1>3. PICK n \in T : \A y \in T : n =< y
  BY <1>2, LeastElement
<1>4. PICK m \in S : n = k - m
  BY <1>3
<1>5. \A y \in S : k - m =< k - y
  BY <1>1, <1>3, <1>4
<1>6. \A y \in S : m >= y
  BY <1>1, <1>5
<1>7. QED
  BY <1>6

\* Min picks the least member: the first tag, output or window the code looks for.
LEMMA MinInSet ==
  ASSUME NEW S \in SUBSET Nat, S # {}
  PROVE  Min(S) \in S /\ \A y \in S : Min(S) =< y
BY LeastElement DEF Min

\* Max picks a member: the last window focus_prev wraps to.
LEMMA MaxInSet ==
  ASSUME NEW k \in Nat, NEW S \in SUBSET (1 .. k), S # {}
  PROVE  Max(S) \in S
BY GreatestElement DEF Max

-----------------------------------------------------------------------------
(***************************************************************************)
(* Focus.                                                                  *)
(***************************************************************************)
\* refocus_output leaves a window id or None in focused_window.
LEMMA RefocusedIsWindow ==
  ASSUME NEW s, IsState(s), NEW o \in OutputIdx(s)
  PROVE  RefocusedWindow(s, o) \in Nat \cup {None}
<1>1. ShownWindows(s, o) \in SUBSET Nat
  BY DEF IsState, ShownWindows
<1>2. ShownWindows(s, o) # {} => Min(ShownWindows(s, o)) \in Nat
  BY <1>1, MinInSet
<1>3. QED
  BY <1>1, <1>2 DEF RefocusedWindow

\* r has the outputs, owners, focused output and shown tags of s.
SameTags(s, r) == /\ OutputIdx(r) = OutputIdx(s)
                  /\ r.tags = s.tags
                  /\ r.focused_output = s.focused_output
                  /\ \A o \in OutputIdx(s) : r.outputs[o].active_tag = s.outputs[o].active_tag

\* The tag table stays in order when nothing it reads changes.
LEMMA SameTagTable ==
  ASSUME NEW s, NEW r, TagTable(s), SameTags(s, r)
  PROVE  TagTable(r)
<1>1. OwnersAreOutputs(r) /\ FocusIsAnOutput(r)
  BY DEF TagTable, SameTags, OwnersAreOutputs, FocusIsAnOutput
<1>2. ShownTagIsOwned(r) /\ TaglessOnlyWhenExhausted(r)
  BY DEF TagTable, SameTags, ShownTagIsOwned, TaglessOnlyWhenExhausted, OwnedTags, FreeTags
<1>3. QED
  BY <1>1, <1>2 DEF TagTable

\* Setting one output's focus.
LEMMA SetFocusedWindow ==
  ASSUME NEW s, IsState(s), NEW o \in OutputIdx(s), NEW f \in Nat \cup {None}
  PROVE  LET r == [s EXCEPT !.outputs[o].focused_window = f]
         IN  /\ IsState(r)
             /\ r.windows = s.windows
             /\ WindowIds(r) = WindowIds(s)
             /\ SameTags(s, r)
<1> DEFINE r == [s EXCEPT !.outputs[o].focused_window = f]
           outs == [s.outputs EXCEPT ![o].focused_window = f]
<1>1. outs \in [OutputIdx(s) -> OutputType]
  BY DEF IsState, OutputIdx, OutputType
<1>2. \A p \in OutputIdx(s) : outs[p].active_tag = s.outputs[p].active_tag
  BY DEF IsState, OutputIdx, OutputType
<1>3. r = [s EXCEPT !.outputs = outs]
  BY DEF IsState
<1> HIDE DEF outs, r
<1>4. r.windows = s.windows /\ r.tags = s.tags /\ r.focused_output = s.focused_output
      /\ r.resize_mode = s.resize_mode /\ r.pending_apply = s.pending_apply
      /\ r.outputs = outs
  BY <1>3 DEF IsState
<1>5. IsState(r)
  BY <1>1, <1>3, <1>4 DEF IsState, OutputIdx, WindowIds, NumOutputs
<1>6. QED
  BY <1>1, <1>2, <1>4, <1>5 DEF r, OutputIdx, WindowIds, SameTags

\* refocus_output moves a focus and nothing else.
LEMMA RefocusOutput ==
  ASSUME NEW s, IsState(s), NEW o \in OutputIdx(s)
  PROVE  LET r == refocus_output(s, o)
         IN  /\ IsState(r)
             /\ WindowIds(r) = WindowIds(s)
             /\ SameTags(s, r)
BY RefocusedIsWindow, SetFocusedWindow DEF refocus_output

\* So does refocusing every output, as on_manage_start does.
LEMMA RefocusEvery ==
  ASSUME NEW s, IsState(s)
  PROVE  LET r == RefocusAll(s)
         IN  /\ IsState(r)
             /\ WindowIds(r) = WindowIds(s)
             /\ SameTags(s, r)
             /\ r.windows = s.windows
             /\ r.resize_mode = s.resize_mode
             /\ \A o \in OutputIdx(s) : /\ r.outputs[o].id = s.outputs[o].id
                                        /\ r.outputs[o].focused_window = RefocusedWindow(s, o)
<1> DEFINE r == RefocusAll(s)
           outs == [o \in OutputIdx(s) |->
                      [s.outputs[o] EXCEPT !.focused_window = RefocusedWindow(s, o)]]
<1>1. \A o \in OutputIdx(s) : RefocusedWindow(s, o) \in Nat \cup {None}
  BY RefocusedIsWindow
<1>2. r = [s EXCEPT !.outputs = outs]
  BY DEF RefocusAll
<1>3. ASSUME NEW o \in OutputIdx(s)
      PROVE  /\ outs[o] \in OutputType
             /\ outs[o].active_tag = s.outputs[o].active_tag
             /\ outs[o].id = s.outputs[o].id
             /\ outs[o].focused_window = RefocusedWindow(s, o)
  BY <1>1 DEF IsState, OutputType
<1>4. outs \in [OutputIdx(s) -> OutputType]
  BY <1>3
<1> HIDE DEF outs, r
<1>5. r.windows = s.windows /\ r.tags = s.tags /\ r.focused_output = s.focused_output
      /\ r.resize_mode = s.resize_mode /\ r.pending_apply = s.pending_apply
      /\ r.outputs = outs
  BY <1>2 DEF IsState
<1>6. IsState(r)
  BY <1>2, <1>4, <1>5 DEF IsState, OutputIdx, WindowIds, NumOutputs
<1>7. QED
  BY <1>3, <1>4, <1>5, <1>6 DEF r, OutputIdx, WindowIds, SameTags

-----------------------------------------------------------------------------
(***************************************************************************)
(* Switching tags.                                                         *)
(***************************************************************************)
\* Windows may come, go and change without touching tags or outputs.
LEMMA WindowsReplaced ==
  ASSUME NEW s, IsState(s), NEW ids \in SUBSET Nat, NEW wins \in [ids -> WindowType]
  PROVE  LET r == [s EXCEPT !.windows = wins]
         IN  /\ IsState(r)
             /\ WindowIds(r) = ids
             /\ SameTags(s, r)
<1> DEFINE r == [s EXCEPT !.windows = wins]
<1>1. r = [s EXCEPT !.windows = wins]
  OBVIOUS
<1> HIDE DEF r
<1>2. r.windows = wins /\ r.tags = s.tags /\ r.focused_output = s.focused_output
      /\ r.resize_mode = s.resize_mode /\ r.pending_apply = s.pending_apply
      /\ r.outputs = s.outputs
  BY <1>1 DEF IsState
<1>3. IsState(r) /\ WindowIds(r) = ids
  BY <1>1, <1>2 DEF IsState, OutputIdx, WindowIds, NumOutputs
<1>4. QED
  BY <1>2, <1>3 DEF r, OutputIdx, SameTags

\* clear_fullscreen_on_tag changes flags of windows and nothing else.
LEMMA ClearFullscreen ==
  ASSUME NEW s, IsState(s), NEW tag
  PROVE  LET r == clear_fullscreen_on_tag(s, tag)
         IN  /\ IsState(r)
             /\ WindowIds(r) = WindowIds(s)
             /\ SameTags(s, r)
<1> DEFINE wins == [w \in WindowIds(s) |->
                      IF s.windows[w].tag = tag THEN [s.windows[w] EXCEPT !.fullscreen = FALSE]
                      ELSE s.windows[w]]
<1>1. ASSUME NEW w \in WindowIds(s) PROVE wins[w] \in WindowType
  BY DEF IsState, WindowType
<1>2. wins \in [WindowIds(s) -> WindowType] /\ WindowIds(s) \in SUBSET Nat
  BY <1>1 DEF IsState
<1>3. clear_fullscreen_on_tag(s, tag) = [s EXCEPT !.windows = wins]
  BY DEF clear_fullscreen_on_tag
<1> HIDE DEF wins
<1>4. QED
  BY <1>2, <1>3, WindowsReplaced

\* Setting one output's shown tag.
LEMMA SetActiveTag ==
  ASSUME NEW s, IsState(s), NEW o \in OutputIdx(s), NEW tag \in Tags
  PROVE  LET r == [s EXCEPT !.outputs[o].active_tag = tag]
         IN  /\ IsState(r)
             /\ r.windows = s.windows
             /\ OutputIdx(r) = OutputIdx(s)
             /\ r.tags = s.tags
             /\ r.focused_output = s.focused_output
             /\ \A p \in OutputIdx(s) :
                   r.outputs[p].active_tag = IF p = o THEN tag ELSE s.outputs[p].active_tag
<1> DEFINE r == [s EXCEPT !.outputs[o].active_tag = tag]
           outs == [s.outputs EXCEPT ![o].active_tag = tag]
<1>1. outs \in [OutputIdx(s) -> OutputType]
  BY DEF IsState, OutputIdx, OutputType
<1>2. \A p \in OutputIdx(s) :
         outs[p].active_tag = IF p = o THEN tag ELSE s.outputs[p].active_tag
  BY DEF IsState, OutputIdx, OutputType
<1>3. r = [s EXCEPT !.outputs = outs]
  BY DEF IsState
<1> HIDE DEF outs, r
<1>4. r.windows = s.windows /\ r.tags = s.tags /\ r.focused_output = s.focused_output
      /\ r.resize_mode = s.resize_mode /\ r.pending_apply = s.pending_apply
      /\ r.outputs = outs
  BY <1>3 DEF IsState
<1>5. IsState(r)
  BY <1>1, <1>3, <1>4 DEF IsState, OutputIdx, WindowIds, NumOutputs
<1>6. QED
  BY <1>1, <1>2, <1>4, <1>5 DEF r, OutputIdx

\* r is s, but output o shows tag.
Shows(s, r, o, tag) ==
  /\ IsState(r)
  /\ WindowIds(r) = WindowIds(s)
  /\ OutputIdx(r) = OutputIdx(s)
  /\ r.tags = s.tags
  /\ r.focused_output = s.focused_output
  /\ \A p \in OutputIdx(s) :
        r.outputs[p].active_tag = IF p = o THEN tag ELSE s.outputs[p].active_tag

\* activate_tag changes what one output shows, and no owner.
LEMMA ActivateShows ==
  ASSUME NEW s, IsState(s), NEW o \in OutputIdx(s), NEW tag \in Tags
  PROVE  Shows(s, activate_tag(s, o, tag), o, tag)
<1> DEFINE a == [s EXCEPT !.outputs[o].active_tag = tag]
           b == clear_fullscreen_on_tag(a, s.outputs[o].active_tag)
           c == refocus_output(b, o)
<1>1. activate_tag(s, o, tag) = c
  BY DEF activate_tag
<1>2. Shows(s, a, o, tag)
  BY SetActiveTag DEF Shows, WindowIds
<1> HIDE DEF a
<1>3. IsState(b) /\ WindowIds(b) = WindowIds(a) /\ SameTags(a, b)
  BY <1>2, ClearFullscreen DEF Shows
<1> HIDE DEF b
<1>4. IsState(c) /\ WindowIds(c) = WindowIds(b) /\ SameTags(b, c)
  BY <1>2, <1>3, RefocusOutput DEF Shows, SameTags
<1> HIDE DEF c
<1>5. QED
  BY <1>1, <1>2, <1>3, <1>4 DEF Shows, SameTags

\* switch_active_tag does the same.
LEMMA SwitchShows ==
  ASSUME NEW s, IsState(s), NEW o \in OutputIdx(s), NEW tag \in Tags
  PROVE  Shows(s, switch_active_tag(s, o, tag), o, tag)
<1> DEFINE a == [s EXCEPT !.outputs[o].active_tag = tag]
           old == s.outputs[o].active_tag
           b == IF old # tag THEN clear_fullscreen_on_tag(a, old) ELSE a
           c == refocus_output(b, o)
<1>1. switch_active_tag(s, o, tag) = c
  BY DEF switch_active_tag
<1>2. Shows(s, a, o, tag)
  BY SetActiveTag DEF Shows, WindowIds
<1> HIDE DEF a
<1>3. IsState(b) /\ WindowIds(b) = WindowIds(a) /\ SameTags(a, b)
  BY <1>2, ClearFullscreen DEF Shows, SameTags
<1> HIDE DEF b
<1>4. IsState(c) /\ WindowIds(c) = WindowIds(b) /\ SameTags(b, c)
  BY <1>2, <1>3, RefocusOutput DEF Shows, SameTags
<1> HIDE DEF c
<1>5. QED
  BY <1>1, <1>2, <1>3, <1>4 DEF Shows, SameTags

\* Showing a tag where it is owned keeps the table in order.
LEMMA ShowOwnTag ==
  ASSUME NEW s, NEW r, NEW o \in OutputIdx(s), NEW tag \in Tags,
         TagTable(s), s.tags[tag] = o, Shows(s, r, o, tag)
  PROVE  TagTable(r)
<1>1. OwnersAreOutputs(r) /\ FocusIsAnOutput(r)
  BY DEF TagTable, Shows, OwnersAreOutputs, FocusIsAnOutput
<1>2. ShownTagIsOwned(r)
  BY DEF TagTable, Shows, ShownTagIsOwned, OwnedTags
<1>3. TaglessOnlyWhenExhausted(r)
  BY DEF TagTable, Shows, TaglessOnlyWhenExhausted, OwnedTags, FreeTags
<1>4. QED
  BY <1>1, <1>2, <1>3 DEF TagTable

\* So does giving a free tag to an output: while a tag is free, every output
\* already shows one of its own.
LEMMA ClaimTag ==
  ASSUME NEW s, NEW r, IsState(s), TagTable(s), NEW o \in OutputIdx(s), NEW tag \in Tags,
         s.tags[tag] = None,
         r.tags = [s.tags EXCEPT ![tag] = o], OutputIdx(r) = OutputIdx(s),
         r.focused_output = s.focused_output,
         \A p \in OutputIdx(s) : r.outputs[p].active_tag = s.outputs[p].active_tag
  PROVE  TagTable(r)
<1>0. s.tags \in [Tags -> Nat \cup {None}]
  BY DEF IsState
<1>1. \A t \in Tags : r.tags[t] = IF t = tag THEN o ELSE s.tags[t]
  BY <1>0
<1>2. OutputIdx(s) \subseteq Nat /\ o # None
  BY NoneAssumption DEF IsState
<1>3. OwnersAreOutputs(r) /\ FocusIsAnOutput(r)
  BY <1>1 DEF TagTable, OwnersAreOutputs, FocusIsAnOutput
<1>4. tag \in FreeTags(s)
  BY DEF FreeTags
<1>5. \A p \in OutputIdx(s) : s.outputs[p].active_tag \in OwnedTags(s, p)
  BY <1>4 DEF TagTable, ShownTagIsOwned, TaglessOnlyWhenExhausted
<1>6. ASSUME NEW p \in OutputIdx(s)
      PROVE  r.outputs[p].active_tag \in OwnedTags(r, p)
  <2> DEFINE t == s.outputs[p].active_tag
  <2>1. t \in Tags /\ s.tags[t] = p
    BY <1>5 DEF OwnedTags
  <2>2. p # None
    BY <1>2, NoneAssumption
  <2>3. t # tag
    BY <2>1, <2>2
  <2>4. r.tags[t] = p
    BY <1>1, <2>1, <2>3
  <2>5. QED
    BY <2>1, <2>4 DEF OwnedTags
<1>7. QED
  BY <1>3, <1>6 DEF TagTable, ShownTagIsOwned, TaglessOnlyWhenExhausted

\* r is s, but output o owns tag.
SetOwner(s, r, tag, o) ==
  /\ IsState(r)
  /\ r.windows = s.windows
  /\ WindowIds(r) = WindowIds(s)
  /\ r.outputs = s.outputs
  /\ OutputIdx(r) = OutputIdx(s)
  /\ r.focused_output = s.focused_output
  /\ r.tags = [s.tags EXCEPT ![tag] = o]

\* Giving a tag to an output changes that entry of the table only.
LEMMA OwnerSet ==
  ASSUME NEW s, IsState(s), NEW o \in OutputIdx(s), NEW tag \in Tags
  PROVE  SetOwner(s, [s EXCEPT !.tags[tag] = o], tag, o)
<1> DEFINE r == [s EXCEPT !.tags[tag] = o]
           table == [s.tags EXCEPT ![tag] = o]
<1>1. o \in Nat
  BY DEF IsState
<1>2. table \in [Tags -> Nat \cup {None}]
  BY <1>1 DEF IsState
<1>3. r = [s EXCEPT !.tags = table]
  BY DEF IsState
<1> HIDE DEF table, r
<1>4. r.windows = s.windows /\ r.tags = table /\ r.focused_output = s.focused_output
      /\ r.resize_mode = s.resize_mode /\ r.pending_apply = s.pending_apply
      /\ r.outputs = s.outputs
  BY <1>3 DEF IsState
<1>5. IsState(r)
  BY <1>2, <1>3, <1>4 DEF IsState, OutputIdx, WindowIds, NumOutputs
<1>6. QED
  BY <1>4, <1>5 DEF SetOwner, r, table, OutputIdx, WindowIds

\* mark_dirty changes neither tags nor outputs.
LEMMA MarkDirty ==
  ASSUME NEW s, IsState(s)
  PROVE  LET r == mark_dirty(s)
         IN  IsState(r) /\ WindowIds(r) = WindowIds(s) /\ SameTags(s, r)
BY DEF mark_dirty, IsState, WindowIds, OutputIdx, NumOutputs, SameTags

-----------------------------------------------------------------------------
(***************************************************************************)
(* The operations on tags.                                                 *)
(***************************************************************************)
\* What an operation must keep.
Keeps(s, r) == IsState(r) /\ WindowIds(r) = WindowIds(s) /\ OutputIdx(r) = OutputIdx(s)
               /\ TagTable(r)

\* focus_tag keeps the table in order, whoever owns the tag before.
LEMMA FocusTagKeeps ==
  ASSUME NEW s, IsState(s), TagTable(s), NEW o, NEW tag
  PROVE  Keeps(s, focus_tag(s, o, tag))
<1> SUFFICES ASSUME tag \in Tags, o \in OutputIdx(s)
             PROVE  Keeps(s, focus_tag(s, o, tag))
  BY DEF focus_tag, Keeps
<1> DEFINE owner == s.tags[tag]
           claimed == [s EXCEPT !.tags[tag] = o]
           moved == [s EXCEPT !.focused_output = owner]
           a == IF owner = None THEN activate_tag(claimed, o, tag)
                ELSE IF owner = o THEN activate_tag(s, o, tag)
                ELSE activate_tag(moved, owner, tag)
<1>1. focus_tag(s, o, tag) = mark_dirty(a)
  BY DEF focus_tag
<1>2. SUFFICES IsState(a) /\ WindowIds(a) = WindowIds(s) /\ OutputIdx(a) = OutputIdx(s)
               /\ TagTable(a)
  <2> HIDE DEF a
  <2>1. QED
    BY <1>1, MarkDirty, SameTagTable DEF Keeps, SameTags
<1>3. CASE owner = None
  <2>1. SetOwner(s, claimed, tag, o)
    BY OwnerSet
  <2>2. claimed.tags[tag] = o
    BY <2>1 DEF SetOwner, IsState
  <2>a. a = activate_tag(claimed, o, tag)
    BY <1>3
  <2> HIDE DEF claimed, a, owner
  <2>3. TagTable(claimed)
    BY <1>3, <2>1, ClaimTag DEF SetOwner, owner
  <2>4. Shows(claimed, a, o, tag)
    BY <2>1, <2>a, ActivateShows DEF SetOwner
  <2>5. o \in OutputIdx(claimed)
    BY <2>1 DEF SetOwner
  <2>6. TagTable(a)
    BY <2>2, <2>3, <2>4, <2>5, ShowOwnTag
  <2>7. QED
    BY <2>1, <2>4, <2>6 DEF Shows, SetOwner
<1>4. CASE owner = o /\ owner # None
  <2>1. Shows(s, a, o, tag)
    BY <1>4, ActivateShows
  <2> HIDE DEF a
  <2>2. QED
    BY <1>4, <2>1, ShowOwnTag DEF Shows
<1>5. CASE owner # None /\ owner # o
  <2>1. owner \in OutputIdx(s)
    BY <1>5 DEF TagTable, OwnersAreOutputs
  <2>2. IsState(moved) /\ WindowIds(moved) = WindowIds(s)
        /\ OutputIdx(moved) = OutputIdx(s) /\ moved.outputs = s.outputs
        /\ moved.tags = s.tags /\ moved.focused_output = owner
    BY <2>1 DEF IsState, WindowIds, OutputIdx, NumOutputs
  <2>a. a = activate_tag(moved, owner, tag)
    BY <1>5
  <2> HIDE DEF moved, a
  <2>3. TagTable(moved)
    BY <2>1, <2>2 DEF TagTable, OwnersAreOutputs, FocusIsAnOutput, ShownTagIsOwned,
                      TaglessOnlyWhenExhausted, OwnedTags, FreeTags
  <2>4. Shows(moved, a, owner, tag)
    BY <2>1, <2>2, <2>a, ActivateShows
  <2>5. moved.tags[tag] = owner /\ owner \in OutputIdx(moved)
    BY <2>1, <2>2
  <2> HIDE DEF owner
  <2>6. TagTable(a)
    BY <2>3, <2>4, <2>5, ShowOwnTag
  <2>7. QED
    BY <2>2, <2>4, <2>6 DEF Shows
<1>6. QED
  BY <1>3, <1>4, <1>5

\* So does send_focused_to_tag, also to a tag nobody owns yet.
LEMMA SendFocusedKeeps ==
  ASSUME NEW s, IsState(s), TagTable(s), NEW o, NEW tag
  PROVE  Keeps(s, send_focused_to_tag(s, o, tag))
<1> DEFINE fid == s.outputs[o].focused_window
           table == [s.tags EXCEPT ![tag] = IF @ = None THEN o ELSE @]
           wins == [s.windows EXCEPT ![fid].tag = tag]
           moved == [s EXCEPT !.tags = table, !.windows = wins]
           r == refocus_output(moved, o)
<1> SUFFICES ASSUME tag \in Tags, o \in OutputIdx(s), fid \in WindowIds(s),
                    send_focused_to_tag(s, o, tag) = mark_dirty(r)
             PROVE  Keeps(s, mark_dirty(r))
  BY DEF send_focused_to_tag, Keeps
<1>1. table \in [Tags -> Nat \cup {None}]
  <2>1. o \in Nat
    BY DEF IsState
  <2>2. QED
    BY <2>1 DEF IsState
<1>2. wins \in [WindowIds(s) -> WindowType]
  BY DEF IsState, WindowIds, WindowType
<1>3. table = IF s.tags[tag] = None THEN [s.tags EXCEPT ![tag] = o] ELSE s.tags
  BY DEF IsState
<1> HIDE DEF table, wins
<1>4. /\ moved.tags = table /\ moved.windows = wins /\ moved.outputs = s.outputs
      /\ moved.focused_output = s.focused_output
      /\ moved.resize_mode = s.resize_mode /\ moved.pending_apply = s.pending_apply
      /\ moved \in [outputs : {s.outputs}, windows : {wins},
                    tags : [Tags -> Nat \cup {None}], focused_output : Nat \cup {None},
                    resize_mode : BOOLEAN, pending_apply : BOOLEAN]
  BY <1>1 DEF IsState
<1> HIDE DEF moved
<1>5. IsState(moved) /\ WindowIds(moved) = WindowIds(s) /\ OutputIdx(moved) = OutputIdx(s)
  BY <1>2, <1>4 DEF IsState, OutputIdx, WindowIds, NumOutputs
<1>6. TagTable(moved)
  <2>1. CASE s.tags[tag] = None
    BY <1>3, <1>4, <1>5, <2>1, ClaimTag
  <2>2. CASE s.tags[tag] # None
    <3>1. SameTags(s, moved)
      BY <1>3, <1>4, <1>5, <2>2 DEF SameTags
    <3>2. QED
      BY <3>1, SameTagTable
  <2>3. QED
    BY <2>1, <2>2
<1>7. IsState(r) /\ WindowIds(r) = WindowIds(s) /\ OutputIdx(r) = OutputIdx(s) /\ TagTable(r)
  BY <1>5, <1>6, RefocusOutput, SameTagTable DEF SameTags
<1> HIDE DEF r
<1>8. QED
  BY <1>7, MarkDirty, SameTagTable DEF Keeps, SameTags

-----------------------------------------------------------------------------
(***************************************************************************)
(* Normalizing, and the operations that end with it.                       *)
(***************************************************************************)
\* best_tag_for_output finds an owned tag exactly when there is one.
LEMMA BestTagOwned ==
  ASSUME NEW s, IsState(s), NEW o \in OutputIdx(s)
  PROVE  IF OwnedTags(s, o) = {} THEN best_tag_for_output(s, o) = None
         ELSE best_tag_for_output(s, o) \in OwnedTags(s, o)
<1> DEFINE owned == OwnedTags(s, o)
           occupied == {t \in owned : \E w \in WindowIds(s) : s.windows[w].tag = t}
<1>1. owned \in SUBSET Nat /\ occupied \in SUBSET Nat /\ occupied \subseteq owned
  BY NumTagsAssumption DEF OwnedTags, Tags
<1>2. owned # {} => Min(owned) \in owned
  BY <1>1, MinInSet
<1>3. occupied # {} => Min(occupied) \in owned
  BY <1>1, MinInSet
<1>4. best_tag_for_output(s, o) =
        IF s.outputs[o].active_tag \in owned THEN s.outputs[o].active_tag
        ELSE IF occupied # {} THEN Min(occupied)
        ELSE IF owned # {} THEN Min(owned) ELSE None
  BY DEF best_tag_for_output
<1> HIDE DEF owned, occupied
<1>5. QED
  BY <1>1, <1>2, <1>3, <1>4 DEF owned

\* An output that shows a tag of its own keeps it.
LEMMA BestTagKept ==
  ASSUME NEW s, IsState(s), NEW o \in OutputIdx(s), s.outputs[o].active_tag \in OwnedTags(s, o)
  PROVE  best_tag_for_output(s, o) = s.outputs[o].active_tag
BY DEF best_tag_for_output

\* r has the windows and monitors of s.
SameScreen(s, r) == /\ r.windows = s.windows
                    /\ \A o \in OutputIdx(s) : r.outputs[o].id = s.outputs[o].id

\* r shows what normalizing s leaves shown: an output turns to its best tag if
\* it owns any, and the focus is on an output if there is one.
Normal(s, r) ==
  /\ \A o \in OutputIdx(s) :
        r.outputs[o].active_tag = IF OwnedTags(s, o) = {} THEN s.outputs[o].active_tag
                                  ELSE best_tag_for_output(s, o)
  /\ r.focused_output = IF OutputIdx(s) = {} THEN None
                        ELSE IF s.focused_output \in OutputIdx(s) THEN s.focused_output ELSE 0

\* What holds before normalizing: no output lacks a tag while one is free.
\* Then normalizing grants no tag at all.
LEMMA NormalizeKeeps ==
  ASSUME NEW s, IsState(s), OwnersAreOutputs(s), TaglessOnlyWhenExhausted(s)
  PROVE  LET r == normalize_outputs(s)
         IN  Keeps(s, r) /\ r.tags = s.tags /\ SameScreen(s, r) /\ Normal(s, r)
<1> DEFINE best(o) == best_tag_for_output(s, o)
           shows == [o \in OutputIdx(s) |->
                       IF best(o) # None THEN best(o)
                       ELSE IF GrantedTag(s, o) # {} THEN CHOOSE t \in GrantedTag(s, o) : TRUE
                       ELSE s.outputs[o].active_tag]
           owner == [t \in Tags |->
                       IF \E o \in OutputIdx(s) : t \in GrantedTag(s, o)
                       THEN CHOOSE o \in OutputIdx(s) : t \in GrantedTag(s, o)
                       ELSE s.tags[t]]
           focus == IF s.focused_output \in OutputIdx(s) THEN s.focused_output ELSE 0
           outs == [o \in OutputIdx(s) |-> [s.outputs[o] EXCEPT !.active_tag = shows[o]]]
           mid == [s EXCEPT !.focused_output = focus, !.tags = owner, !.outputs = outs]
<1>1. CASE OutputIdx(s) = {}
  <2> DEFINE r == [s EXCEPT !.focused_output = None]
  <2>1. normalize_outputs(s) = r
    BY <1>1 DEF normalize_outputs
  <2>2. IsState(r) /\ WindowIds(r) = WindowIds(s) /\ OutputIdx(r) = OutputIdx(s)
        /\ r.focused_output = None /\ r.tags = s.tags
        /\ r.windows = s.windows /\ r.outputs = s.outputs
    BY DEF IsState, OutputIdx, WindowIds, NumOutputs
  <2> HIDE DEF r
  <2>3. TagTable(r)
    BY <1>1, <2>2 DEF TagTable, OwnersAreOutputs, FocusIsAnOutput, ShownTagIsOwned,
                      TaglessOnlyWhenExhausted
  <2>4. QED
    BY <1>1, <2>1, <2>2, <2>3 DEF Keeps, SameScreen, Normal
<1>2. CASE OutputIdx(s) # {}
  <2>1. normalize_outputs(s) = RefocusAll(mid)
    BY <1>2 DEF normalize_outputs
  <2>2. \A o \in OutputIdx(s) : GrantedTag(s, o) = {}
    BY DEF TaglessOnlyWhenExhausted, GrantedTag
  <2>3. owner = s.tags
    BY <2>2 DEF IsState
  <2>4. \A o \in OutputIdx(s) :
          /\ shows[o] \in Tags
          /\ OwnedTags(s, o) # {} => shows[o] \in OwnedTags(s, o)
          /\ shows[o] = IF OwnedTags(s, o) = {} THEN s.outputs[o].active_tag
                        ELSE best_tag_for_output(s, o)
    <3>1. TAKE o \in OutputIdx(s)
    <3>2. s.outputs[o].active_tag \in Tags
      BY DEF IsState, OutputType
    <3>3. shows[o] = IF best(o) # None THEN best(o) ELSE s.outputs[o].active_tag
      BY <2>2
    <3>4. OwnedTags(s, o) \subseteq Tags /\ None \notin OwnedTags(s, o)
      BY NoneAssumption, NumTagsAssumption DEF OwnedTags, Tags
    <3> HIDE DEF best, shows
    <3>5. IF OwnedTags(s, o) = {} THEN best(o) = None ELSE best(o) \in OwnedTags(s, o)
      BY BestTagOwned DEF best
    <3>6. QED
      BY <3>2, <3>3, <3>4, <3>5 DEF best
  <2> HIDE DEF owner, shows
  <2>5. ASSUME NEW o \in OutputIdx(s)
        PROVE  /\ outs[o] \in OutputType
               /\ outs[o].active_tag = shows[o] /\ outs[o].id = s.outputs[o].id
    BY <2>4 DEF IsState, OutputType
  <2>6. outs \in [OutputIdx(s) -> OutputType]
    BY <2>5
  <2>7. focus \in OutputIdx(s) /\ focus \in Nat
    BY <1>2 DEF IsState
  <2>a. focus = IF OutputIdx(s) = {} THEN None
                ELSE IF s.focused_output \in OutputIdx(s) THEN s.focused_output ELSE 0
    BY <1>2
  <2> HIDE DEF outs, focus
  <2>8. /\ mid.tags = s.tags /\ mid.windows = s.windows /\ mid.outputs = outs
        /\ mid.focused_output = focus
        /\ mid \in [outputs : {outs}, windows : {s.windows},
                    tags : [Tags -> Nat \cup {None}], focused_output : Nat \cup {None},
                    resize_mode : BOOLEAN, pending_apply : BOOLEAN]
    BY <2>3, <2>7 DEF IsState
  <2> HIDE DEF mid
  <2>9. IsState(mid) /\ WindowIds(mid) = WindowIds(s) /\ OutputIdx(mid) = OutputIdx(s)
    BY <2>6, <2>8 DEF IsState, OutputIdx, WindowIds, NumOutputs
  <2>10. TagTable(mid)
    <3>1. \A o \in OutputIdx(s) : OwnedTags(mid, o) = OwnedTags(s, o)
      BY <2>8 DEF OwnedTags
    <3>2. ShownTagIsOwned(mid)
      BY <2>4, <2>5, <2>8, <2>9, <3>1 DEF ShownTagIsOwned
    <3>3. TaglessOnlyWhenExhausted(mid)
      BY <2>8, <2>9, <3>1 DEF TaglessOnlyWhenExhausted, FreeTags
    <3>4. OwnersAreOutputs(mid) /\ FocusIsAnOutput(mid)
      BY <1>2, <2>7, <2>8, <2>9 DEF OwnersAreOutputs, FocusIsAnOutput
    <3>5. QED
      BY <3>2, <3>3, <3>4 DEF TagTable
  <2>11. Keeps(s, normalize_outputs(s)) /\ SameScreen(s, normalize_outputs(s))
         /\ normalize_outputs(s).tags = s.tags
    BY <2>1, <2>5, <2>8, <2>9, <2>10, RefocusEvery, SameTagTable
       DEF Keeps, SameTags, SameScreen
  <2>12. Normal(s, normalize_outputs(s))
    BY <2>1, <2>4, <2>5, <2>a, <2>8, <2>9, RefocusEvery DEF SameTags, Normal
  <2>13. QED
    BY <2>11, <2>12
<1>3. QED
  BY <1>1, <1>2

\* A new output is given a tag, or none was free.
LEMMA AssignInitialKeeps ==
  ASSUME NEW s, IsState(s), OwnersAreOutputs(s), ShownTagIsOwned(s),
         NEW o \in OutputIdx(s), OwnedTags(s, o) = {},
         \A p \in OutputIdx(s) \ {o} : OwnedTags(s, p) = {} => FreeTags(s) = {}
  PROVE  LET r == assign_initial_tag(s, o)
         IN  /\ Keeps(s, r)
             /\ SameScreen(s, r)
             /\ r.tags = IF FreeTags(s) = {} THEN s.tags
                         ELSE [s.tags EXCEPT ![Min(FreeTags(s))] = o]
             /\ \A p \in OutputIdx(s) :
                   r.outputs[p].active_tag = IF p = o /\ FreeTags(s) # {} THEN Min(FreeTags(s))
                                             ELSE s.outputs[p].active_tag
             /\ r.focused_output = IF s.focused_output \in OutputIdx(s)
                                   THEN s.focused_output ELSE 0
<1> DEFINE tag == Min(FreeTags(s))
           a == [s EXCEPT !.tags[tag] = o]
           b == [s EXCEPT !.tags[tag] = o, !.outputs[o].active_tag = tag]
<1>1. CASE OwnedTags(s, o) = {} /\ FreeTags(s) = {}
  <2>1. TaglessOnlyWhenExhausted(s)
    BY <1>1 DEF TaglessOnlyWhenExhausted
  <2>2. assign_initial_tag(s, o) = normalize_outputs(s)
    BY <1>1 DEF assign_initial_tag
  <2>3. Normal(s, normalize_outputs(s))
    BY <2>1, NormalizeKeeps
  <2>4. \A p \in OutputIdx(s) :
          normalize_outputs(s).outputs[p].active_tag = s.outputs[p].active_tag
    BY <2>3, BestTagKept DEF Normal, ShownTagIsOwned
  <2>5. QED
    BY <1>1, <2>1, <2>2, <2>3, <2>4, NormalizeKeeps DEF Normal
<1>2. CASE OwnedTags(s, o) = {} /\ FreeTags(s) # {}
  <2>1. FreeTags(s) \in SUBSET Nat
    BY NumTagsAssumption DEF FreeTags, Tags
  <2>2. tag \in Tags /\ s.tags[tag] = None
    BY <1>2, <2>1, MinInSet DEF FreeTags
  <2>3. assign_initial_tag(s, o) = normalize_outputs(b)
    BY <1>2 DEF assign_initial_tag
  <2> HIDE DEF tag
  <2>4. SetOwner(s, a, tag, o)
    BY <2>2, OwnerSet
  <2>5. b = [a EXCEPT !.outputs[o].active_tag = tag]
    BY DEF IsState
  <2>b. /\ \A p \in OutputIdx(s) :
             /\ b.outputs[p].id = s.outputs[p].id
             /\ b.outputs[p].active_tag = IF p = o THEN tag ELSE s.outputs[p].active_tag
        /\ b.focused_output = s.focused_output
    BY DEF IsState, OutputIdx, OutputType
  <2> HIDE DEF a, b
  <2>6. /\ IsState(b) /\ b.windows = s.windows /\ OutputIdx(b) = OutputIdx(s)
        /\ b.tags = [s.tags EXCEPT ![tag] = o]
    BY <2>2, <2>4, <2>5, SetActiveTag DEF SetOwner
  <2>7. \A t \in Tags : b.tags[t] = IF t = tag THEN o ELSE s.tags[t]
    BY <2>6 DEF IsState
  <2>8. OwnersAreOutputs(b)
    BY <2>6, <2>7 DEF OwnersAreOutputs
  <2>9. OwnedTags(b, o) # {}
    BY <2>2, <2>7 DEF OwnedTags
  <2>10. ASSUME NEW p \in OutputIdx(s) \ {o} PROVE OwnedTags(b, p) # {}
    <3>1. PICK t \in Tags : s.tags[t] = p
      BY <1>2 DEF OwnedTags
    <3>2. p # None
      BY NoneAssumption DEF IsState
    <3>3. t # tag
      BY <2>2, <3>1, <3>2
    <3>4. b.tags[t] = p
      BY <2>7, <3>1, <3>3
    <3>5. QED
      BY <3>4 DEF OwnedTags
  <2>11. TaglessOnlyWhenExhausted(b)
    BY <2>6, <2>9, <2>10 DEF TaglessOnlyWhenExhausted
  <2>12. /\ Keeps(b, normalize_outputs(b)) /\ SameScreen(b, normalize_outputs(b))
         /\ normalize_outputs(b).tags = b.tags /\ Normal(b, normalize_outputs(b))
    BY <2>6, <2>8, <2>11, NormalizeKeeps
  <2>13. \A p \in OutputIdx(s) : b.outputs[p].active_tag \in OwnedTags(b, p)
    <3>1. TAKE p \in OutputIdx(s)
    <3>2. CASE p = o
      BY <2>2, <2>7, <2>b, <3>2 DEF OwnedTags
    <3>3. CASE p # o
      <4> DEFINE t == s.outputs[p].active_tag
      <4>1. t \in Tags /\ s.tags[t] = p
        BY <1>2, <3>3 DEF ShownTagIsOwned, OwnedTags
      <4>2. p # None
        BY NoneAssumption DEF IsState
      <4>3. b.tags[t] = p
        BY <2>2, <2>7, <4>1, <4>2
      <4>4. QED
        BY <2>b, <3>3, <4>1, <4>3 DEF OwnedTags
    <3>4. QED
      BY <3>2, <3>3
  <2>14. \A p \in OutputIdx(s) :
           normalize_outputs(b).outputs[p].active_tag = IF p = o THEN tag ELSE s.outputs[p].active_tag
    BY <2>6, <2>12, <2>13, <2>b, BestTagKept DEF Normal
  <2>15. normalize_outputs(b).focused_output = IF s.focused_output \in OutputIdx(s)
                                              THEN s.focused_output ELSE 0
    BY <2>6, <2>12, <2>b DEF Normal
  <2>16. QED
    BY <1>2, <2>3, <2>b, <2>6, <2>12, <2>14, <2>15 DEF Keeps, WindowIds, SameScreen, tag
<1>3. QED
  BY <1>1, <1>2

\* The indices 0 .. n - 1 of n outputs are n many.
LEMMA IntervalSize ==
  ASSUME NEW n \in Nat
  PROVE  Cardinality(0 .. (n - 1)) = n
<1>1. 0 \in Int /\ n - 1 \in Int
  OBVIOUS
<1>2. Cardinality(0 .. (n - 1)) = IF 0 > n - 1 THEN 0 ELSE (n - 1) - 0 + 1
  BY <1>1, FS_Interval
<1>3. QED
  BY <1>2

\* r is s without output idx.  What an output shows changes only if it had no tag
\* and inherits one.
WithoutOutput(s, r, idx) ==
  LET remaining == NumOutputs(s) - 1
      old(o) == IF o < idx THEN o ELSE o + 1
      focus == s.focused_output
  IN  /\ OutputIdx(r) = 0 .. (remaining - 1)
      /\ r.tags = remap_tag_owners(s.tags, idx, remaining)
      /\ r.focused_output = IF remaining = 0 THEN None
                            ELSE IF focus = idx THEN 0
                            ELSE IF focus > idx THEN focus - 1 ELSE focus
      /\ \A o \in OutputIdx(r) :
            /\ r.outputs[o].id = s.outputs[old(o)].id
            /\ \/ /\ r.outputs[o].active_tag = s.outputs[old(o)].active_tag
                  /\ \/ OwnedTags(r, o) = {}
                     \/ s.outputs[old(o)].active_tag \in OwnedTags(s, old(o))
               \/ /\ o = 0
                  /\ OwnedTags(s, old(o)) = {}
                  /\ r.outputs[o].active_tag \in OwnedTags(r, o)

\* Unplugging: every owner above the removed output shifts down with it.
LEMMA RemoveOutputKeeps ==
  ASSUME NEW s, IsState(s), TagTable(s), NEW idx \in OutputIdx(s)
  PROVE  LET r == remove_output(s, idx)
         IN  /\ IsState(r) /\ TagTable(r)
             /\ WindowIds(r) = WindowIds(s) /\ r.windows = s.windows
             /\ WithoutOutput(s, r, idx)
<1> DEFINE n == NumOutputs(s)
           remaining == n - 1
           old(o) == IF o < idx THEN o ELSE o + 1
           outs == [o \in 0 .. (remaining - 1) |-> s.outputs[old(o)]]
           owners == remap_tag_owners(s.tags, idx, remaining)
           focus == IF s.focused_output = idx THEN (IF remaining = 0 THEN None ELSE 0)
                    ELSE IF s.focused_output # None /\ s.focused_output > idx
                         THEN s.focused_output - 1 ELSE s.focused_output
           mid == [s EXCEPT !.outputs = outs, !.tags = owners, !.focused_output = focus]
<1>1. remove_output(s, idx) = normalize_outputs(mid)
  BY DEF remove_output
<1>2. OutputIdx(s) = 0 .. (n - 1) /\ n \in Nat /\ idx \in Nat /\ idx < n
  BY DEF IsState
<1>3. remaining \in Nat
  BY <1>2
<1>4. \A o \in 0 .. (remaining - 1) : old(o) \in OutputIdx(s)
  BY <1>2
<1>5. outs \in [0 .. (remaining - 1) -> OutputType]
  BY <1>4 DEF IsState
<1>6. \A t \in Tags : s.tags[t] = None \/ s.tags[t] \in OutputIdx(s)
  BY DEF TagTable, OwnersAreOutputs
<1>7. \A t \in Tags :
        owners[t] = IF s.tags[t] = None \/ remaining = 0 THEN None
                    ELSE IF s.tags[t] = idx THEN 0
                    ELSE IF s.tags[t] > idx THEN s.tags[t] - 1 ELSE s.tags[t]
  BY DEF remap_tag_owners
<1>8. ASSUME NEW t \in Tags
      PROVE  IF s.tags[t] = None \/ remaining = 0 THEN owners[t] = None
             ELSE /\ owners[t] \in 0 .. (remaining - 1)
                  /\ s.tags[t] # idx => old(owners[t]) = s.tags[t]
  <2>1. CASE s.tags[t] = None \/ remaining = 0
    BY <1>7, <2>1
  <2>2. CASE s.tags[t] # None /\ remaining # 0
    <3>1. s.tags[t] \in 0 .. (n - 1) /\ s.tags[t] \in Int
      BY <1>2, <1>6, <2>2
    <3>2. owners[t] = IF s.tags[t] = idx THEN 0
                      ELSE IF s.tags[t] > idx THEN s.tags[t] - 1 ELSE s.tags[t]
      BY <1>7, <2>2
    <3> HIDE DEF owners, n
    <3>3. owners[t] \in 0 .. (remaining - 1)
      BY <1>2, <2>2, <3>1, <3>2
    <3>4. s.tags[t] # idx => old(owners[t]) = s.tags[t]
      BY <1>2, <2>2, <3>1, <3>2
    <3>5. QED
      BY <2>2, <3>3, <3>4
  <2>3. QED
    BY <2>1, <2>2
<1>9. owners \in [Tags -> Nat \cup {None}]
  <2>1. owners = [t \in Tags |-> owners[t]]
    BY DEF remap_tag_owners
  <2>2. \A t \in Tags : owners[t] \in Nat \cup {None}
    BY <1>3, <1>8
  <2> HIDE DEF owners
  <2>3. QED
    BY <2>1, <2>2
<1>10. focus \in Nat \cup {None}
  BY <1>2, NoneAssumption DEF IsState
<1>10a. focus = IF remaining = 0 THEN None
                ELSE IF s.focused_output = idx THEN 0
                ELSE IF s.focused_output > idx THEN s.focused_output - 1 ELSE s.focused_output
  <2>1. s.focused_output \in OutputIdx(s) /\ s.focused_output # None
    BY <1>2, NoneAssumption DEF TagTable, FocusIsAnOutput
  <2>2. remaining = 0 => s.focused_output = idx
    BY <1>2, <2>1
  <2>3. QED
    BY <2>1, <2>2
<1>10b. owners = remap_tag_owners(s.tags, idx, remaining)
  OBVIOUS
<1>10c. \A o \in 0 .. (remaining - 1) : outs[o] = s.outputs[old(o)]
  OBVIOUS
<1> HIDE DEF outs, owners, focus
<1>10d. focus \in 0 .. (remaining - 1) \/ remaining = 0
  <2>1. s.focused_output \in OutputIdx(s)
    BY DEF TagTable, FocusIsAnOutput
  <2>2. QED
    BY <1>2, <1>10a, <2>1
<1>11. /\ mid.tags = owners /\ mid.windows = s.windows /\ mid.outputs = outs
       /\ mid.focused_output = focus
       /\ mid \in [outputs : {outs}, windows : {s.windows},
                   tags : [Tags -> Nat \cup {None}], focused_output : Nat \cup {None},
                   resize_mode : BOOLEAN, pending_apply : BOOLEAN]
  BY <1>9, <1>10 DEF IsState
<1> HIDE DEF mid
<1>12. OutputIdx(mid) = 0 .. (remaining - 1) /\ NumOutputs(mid) = remaining
  <2>1. OutputIdx(mid) = 0 .. (remaining - 1)
    BY <1>5, <1>11 DEF OutputIdx
  <2> HIDE DEF n
  <2>2. QED
    BY <1>3, <2>1, IntervalSize DEF NumOutputs
<1>13. IsState(mid) /\ WindowIds(mid) = WindowIds(s)
  BY <1>3, <1>5, <1>11, <1>12 DEF IsState, WindowIds
<1>14. OwnersAreOutputs(mid)
  BY <1>8, <1>11, <1>12 DEF OwnersAreOutputs
<1>15. TaglessOnlyWhenExhausted(mid)
  <2>1. SUFFICES ASSUME NEW o \in OutputIdx(mid), OwnedTags(mid, o) = {}
                 PROVE  FreeTags(mid) = {}
    BY DEF TaglessOnlyWhenExhausted
  <2>2. o \in 0 .. (remaining - 1) /\ remaining # 0 /\ old(o) \in OutputIdx(s)
    BY <1>3, <1>4, <1>12, <2>1
  <2>3. old(o) # idx
    BY <1>2, <2>2
  <2>4. OwnedTags(s, old(o)) = {}
    <3>1. SUFFICES ASSUME NEW t \in Tags, s.tags[t] = old(o) PROVE FALSE
      BY DEF OwnedTags
    <3>2. s.tags[t] # None
      BY <2>2, <3>1, NoneAssumption, <1>2
    <3>3. owners[t] \in 0 .. (remaining - 1) /\ old(owners[t]) = old(o)
      BY <1>8, <2>2, <2>3, <3>1, <3>2
    <3>4. owners[t] = o
      BY <1>2, <2>2, <3>3
    <3>5. QED
      BY <1>11, <2>1, <3>4 DEF OwnedTags
  <2>5. FreeTags(s) = {}
    BY <2>2, <2>4 DEF TagTable, TaglessOnlyWhenExhausted
  <2>6. \A t \in Tags : owners[t] # None
    <3>1. TAKE t \in Tags
    <3>2. s.tags[t] # None
      BY <2>5 DEF FreeTags
    <3>3. owners[t] \in 0 .. (remaining - 1)
      BY <1>8, <2>2, <3>2
    <3>4. QED
      BY <1>3, <3>3, NoneAssumption
  <2>7. QED
    BY <1>11, <2>6 DEF FreeTags
<1>16. Keeps(mid, normalize_outputs(mid)) /\ SameScreen(mid, normalize_outputs(mid))
       /\ normalize_outputs(mid).tags = owners /\ Normal(mid, normalize_outputs(mid))
  BY <1>11, <1>13, <1>14, <1>15, NormalizeKeeps
<1> DEFINE r == normalize_outputs(mid)
<1> HIDE DEF r
<1>17. OutputIdx(r) = 0 .. (remaining - 1) /\ r.tags = owners
  BY <1>12, <1>16 DEF Keeps, r
<1>18. r.focused_output = IF remaining = 0 THEN None ELSE focus
  BY <1>3, <1>10d, <1>11, <1>12, <1>16 DEF Normal, r
<1>19. ASSUME NEW o \in 0 .. (remaining - 1)
       PROVE  /\ r.outputs[o].id = s.outputs[old(o)].id
              /\ \/ /\ r.outputs[o].active_tag = s.outputs[old(o)].active_tag
                    /\ \/ OwnedTags(r, o) = {}
                       \/ s.outputs[old(o)].active_tag \in OwnedTags(s, old(o))
                 \/ /\ o = 0
                    /\ OwnedTags(s, old(o)) = {}
                    /\ r.outputs[o].active_tag \in OwnedTags(r, o)
  <2> DEFINE k == old(o)
             tag == s.outputs[k].active_tag
  <2>1. k \in OutputIdx(s) /\ k # idx /\ remaining # 0 /\ k # None
    BY <1>2, <1>3, <1>4, NoneAssumption
  <2>2. mid.outputs[o] = s.outputs[k] /\ o \in OutputIdx(mid)
    BY <1>10c, <1>11, <1>12
  <2>3. r.outputs[o].id = s.outputs[k].id
    BY <1>16, <2>2 DEF SameScreen, r
  <2>4. OwnedTags(r, o) = OwnedTags(mid, o)
    BY <1>11, <1>17 DEF OwnedTags
  <2>5. r.outputs[o].active_tag = IF OwnedTags(r, o) = {} THEN tag
                                  ELSE best_tag_for_output(mid, o)
    BY <1>16, <2>2, <2>4 DEF Normal, r
  <2>6. \A t \in OwnedTags(s, k) : t \in OwnedTags(r, o)
    <3>1. TAKE t \in OwnedTags(s, k)
    <3>2. t \in Tags /\ s.tags[t] = k
      BY DEF OwnedTags
    <3>3. owners[t] \in 0 .. (remaining - 1) /\ old(owners[t]) = old(o)
      BY <1>8, <2>1, <3>2
    <3>4. owners[t] = o
      BY <1>2, <2>1, <3>3
    <3>5. QED
      BY <1>17, <3>2, <3>4 DEF OwnedTags
  <2>7. \A t \in OwnedTags(r, o) : t \in OwnedTags(s, k) \/ o = 0
    <3>1. TAKE t \in OwnedTags(r, o)
    <3>2. t \in Tags /\ owners[t] = o /\ o # None
      BY <1>3, <1>17, NoneAssumption DEF OwnedTags
    <3>3. s.tags[t] # None
      BY <1>8, <3>2
    <3>4. s.tags[t] # idx => s.tags[t] = k
      BY <1>8, <2>1, <3>2, <3>3
    <3>5. s.tags[t] = idx => o = 0
      BY <1>7, <2>1, <3>2, <3>3
    <3>6. QED
      BY <3>2, <3>4, <3>5 DEF OwnedTags
  <2> HIDE DEF k
  <2>8. CASE OwnedTags(s, k) # {}
    <3>1. tag \in OwnedTags(s, k)
      BY <2>1, <2>8 DEF TagTable, ShownTagIsOwned
    <3>2. tag \in OwnedTags(mid, o) /\ OwnedTags(r, o) # {}
      BY <2>4, <2>6, <3>1
    <3>3. best_tag_for_output(mid, o) = tag
      BY <1>13, <2>2, <3>2, BestTagKept
    <3>4. r.outputs[o].active_tag = tag
      BY <2>5, <3>2, <3>3
    <3>5. QED
      BY <2>3, <3>1, <3>4 DEF k
  <2>9. CASE OwnedTags(s, k) = {}
    <3>1. CASE OwnedTags(r, o) = {}
      BY <2>3, <2>5, <3>1 DEF k
    <3>2. CASE OwnedTags(r, o) # {}
      <4>1. o = 0
        BY <2>7, <2>9, <3>2
      <4>2. best_tag_for_output(mid, o) \in OwnedTags(r, o)
        BY <1>13, <2>2, <2>4, <3>2, BestTagOwned
      <4>3. QED
        BY <2>3, <2>5, <2>9, <3>2, <4>1, <4>2 DEF k
    <3>3. QED
      BY <3>1, <3>2
  <2>10. QED
    BY <2>8, <2>9
<1>20. WithoutOutput(s, r, idx)
  BY <1>10a, <1>10b, <1>17, <1>18, <1>19 DEF WithoutOutput, n
<1>21. QED
  BY <1>1, <1>11, <1>13, <1>16, <1>20 DEF Keeps, SameScreen, r

-----------------------------------------------------------------------------
(***************************************************************************)
(* Moving the focus to an output, and to a window where it lives.          *)
(***************************************************************************)
\* Moving the seat focus to another output keeps the table in order.
LEMMA FocusSet ==
  ASSUME NEW s, IsState(s), TagTable(s), NEW o \in OutputIdx(s)
  PROVE  LET r == [s EXCEPT !.focused_output = o]
         IN  Keeps(s, r) /\ r.tags = s.tags /\ r.windows = s.windows
<1> DEFINE r == [s EXCEPT !.focused_output = o]
<1>1. o \in Nat
  BY DEF IsState
<1>2. IsState(r) /\ WindowIds(r) = WindowIds(s) /\ OutputIdx(r) = OutputIdx(s)
      /\ r.outputs = s.outputs /\ r.tags = s.tags /\ r.focused_output = o
      /\ r.windows = s.windows
  BY <1>1 DEF IsState, WindowIds, OutputIdx, NumOutputs
<1> HIDE DEF r
<1>3. TagTable(r)
  BY <1>2 DEF TagTable, OwnersAreOutputs, FocusIsAnOutput, ShownTagIsOwned,
              TaglessOnlyWhenExhausted, OwnedTags, FreeTags
<1>4. QED
  BY <1>2, <1>3 DEF Keeps, r

\* focus_window_on_output, the way of the pointer and the taskbar, keeps it.
LEMMA FocusWindowKeeps ==
  ASSUME NEW s, IsState(s), TagTable(s), NEW w \in WindowIds(s)
  PROVE  Keeps(s, focus_window_on_output(s, w))
<1> DEFINE tag == s.windows[w].tag
           o == tag_owner(s, tag)
           a == [s EXCEPT !.focused_output = o]
           b == [a EXCEPT !.outputs[o].focused_window = w]
           c == switch_active_tag(b, o, tag)
<1>1. CASE ~focus_window_needed(s, w)
  BY <1>1 DEF focus_window_on_output, Keeps
<1>2. CASE focus_window_needed(s, w)
  <2>1. tag \in Tags /\ w \in Nat
    BY DEF IsState, WindowType
  <2>2. o \in OutputIdx(s) /\ s.tags[tag] = o
    BY <1>2, <2>1 DEF focus_window_needed, tag_owner
  <2>3. focus_window_on_output(s, w) = c
    BY <1>2 DEF focus_window_on_output, IsState
  <2> HIDE DEF o, tag
  <2>4. Keeps(s, a) /\ a.tags = s.tags
    BY <2>2, FocusSet
  <2> HIDE DEF a
  <2>5. IsState(b) /\ WindowIds(b) = WindowIds(a) /\ SameTags(a, b)
    BY <2>1, <2>2, <2>4, SetFocusedWindow DEF Keeps
  <2> HIDE DEF b
  <2>6. TagTable(b)
    BY <2>4, <2>5, SameTagTable DEF Keeps
  <2>7. b.tags[tag] = o /\ o \in OutputIdx(b)
    BY <2>2, <2>4, <2>5 DEF SameTags, Keeps
  <2>8. Shows(b, c, o, tag)
    BY <2>1, <2>5, <2>7, SwitchShows
  <2> HIDE DEF c
  <2>9. TagTable(c)
    BY <2>1, <2>6, <2>7, <2>8, ShowOwnTag
  <2>10. QED
    BY <2>3, <2>4, <2>5, <2>8, <2>9 DEF Keeps, Shows, SameTags
<1>3. QED
  BY <1>1, <1>2

\* Releasing the nodes of hidden windows touches windows only.
LEMMA ReleaseKeeps ==
  ASSUME NEW s, IsState(s)
  PROVE  LET r == release_hidden_nodes(s)
         IN  IsState(r) /\ WindowIds(r) = WindowIds(s) /\ SameTags(s, r)
<1> DEFINE wins == [w \in WindowIds(s) |->
                      [s.windows[w] EXCEPT !.node = @ /\ ~HoldsHiddenNode(s, w)]]
<1>1. ASSUME NEW w \in WindowIds(s) PROVE wins[w] \in WindowType
  <2>1. s.windows[w] \in WindowType
    BY DEF IsState
  <2>2. (s.windows[w].node /\ ~HoldsHiddenNode(s, w)) \in BOOLEAN
    OBVIOUS
  <2>3. QED
    BY <2>1, <2>2 DEF WindowType
<1>2. wins \in [WindowIds(s) -> WindowType] /\ WindowIds(s) \in SUBSET Nat
  BY <1>1 DEF IsState
<1>3. release_hidden_nodes(s) = [s EXCEPT !.windows = wins]
  BY DEF release_hidden_nodes
<1> HIDE DEF wins
<1>4. QED
  BY <1>2, <1>3, WindowsReplaced
=============================================================================
