------------------------------ MODULE WmState ------------------------------
(***************************************************************************)
(* The window manager's data model, src/state.rs: outputs, windows and the *)
(* global tags they share.  Every method of `State` that changes the state *)
(* is an operator from a state record to the next one, under the name it   *)
(* has in the source.  A state s has the fields                            *)
(*                                                                         *)
(*   outputs         [0..n-1 -> output]: a Vec, so an output is named by   *)
(*                   an index that shifts when an earlier one is removed   *)
(*   windows         [ids -> window]: ids only grow and the Vec is only    *)
(*                   appended to and filtered, so Vec order is id order    *)
(*   tags            [Tags -> index of the owning output, or None]         *)
(*   focused_output  index of the output with seat focus, or None          *)
(*   resize_mode     modal resize is on                                    *)
(*   pending_apply   a change waits for the event loop to request a manage *)
(*                                                                         *)
(* Geometry (float rectangles, usable areas, master fractions) is left     *)
(* out: no operation here reads it to decide ownership, tags or focus.     *)
(***************************************************************************)
EXTENDS Integers, FiniteSets, FiniteSetsExt

CONSTANTS NumTags,      \* NUM_TAGS, 9 in the code
          OutputIds,    \* identities of monitors
          None          \* Rust's Option::None

ASSUME NumTagsAssumption == NumTags \in Nat \ {0}
ASSUME NoneAssumption == None \notin Nat /\ None \notin OutputIds

Tags == 0 .. (NumTags - 1)

WindowType == [tag : Tags, fullscreen : BOOLEAN, fullscreen_applied : BOOLEAN,
               minimized : BOOLEAN, node : BOOLEAN]
OutputType == [id : OutputIds, active_tag : Tags, focused_window : Nat \cup {None}]

\* Window::new and Output::new, as far as the properties tell windows and
\* outputs apart.
NewWindow(tag) == [tag |-> tag, fullscreen |-> FALSE, fullscreen_applied |-> FALSE,
                   minimized |-> FALSE, node |-> FALSE]
NewOutput(id) == [id |-> id, active_tag |-> 0, focused_window |-> None]

\* State::new: no outputs, no windows, every tag unassigned.
NewState == [outputs |-> [o \in {} |-> NewOutput(o)], windows |-> [w \in {} |-> NewWindow(0)],
             tags |-> [t \in Tags |-> None], focused_output |-> None,
             resize_mode |-> FALSE, pending_apply |-> FALSE]

-----------------------------------------------------------------------------
(***************************************************************************)
(* Lookups.                                                                *)
(***************************************************************************)
OutputIdx(s) == DOMAIN s.outputs                 \* 0 .. outputs.len() - 1
NumOutputs(s) == Cardinality(OutputIdx(s))       \* outputs.len()
WindowIds(s) == DOMAIN s.windows

mark_dirty(s) == [s EXCEPT !.pending_apply = TRUE]

\* The focused output, or the first one as fallback.
active_output(s) ==
  IF s.focused_output # None THEN s.focused_output
  ELSE IF OutputIdx(s) = {} THEN None ELSE 0

\* `tags.get(tag)` is None past the end of the tag table.
tag_owner(s, tag) == IF tag \in Tags THEN s.tags[tag] ELSE None

\* A window on an unowned tag is managed against the active output.
window_output(s, w) ==
  IF tag_owner(s, s.windows[w].tag) # None
  THEN tag_owner(s, s.windows[w].tag) ELSE active_output(s)

window_is_visible(s, w) ==
  LET owner == tag_owner(s, s.windows[w].tag)
  IN  owner \in OutputIdx(s) /\ s.outputs[owner].active_tag = s.windows[w].tag

OwnedTags(s, o) == {t \in Tags : s.tags[t] = o}
FreeTags(s) == {t \in Tags : s.tags[t] = None}

\* The windows on the tag output o shows, if o owns that tag.
ShownWindows(s, o) ==
  {w \in WindowIds(s) : /\ tag_owner(s, s.windows[w].tag) = o
                        /\ s.windows[w].tag = s.outputs[o].active_tag}

\* The type of a state record.
IsState(s) ==
  /\ s \in [outputs : {s.outputs}, windows : {s.windows},
            tags : [Tags -> Nat \cup {None}], focused_output : Nat \cup {None},
            resize_mode : BOOLEAN, pending_apply : BOOLEAN]
  /\ NumOutputs(s) \in Nat
  /\ OutputIdx(s) = 0 .. (NumOutputs(s) - 1)
  /\ s.outputs \in [OutputIdx(s) -> OutputType]
  /\ WindowIds(s) \subseteq Nat
  /\ s.windows \in [WindowIds(s) -> WindowType]

\* Four facts about tags and outputs that every handler relies on when it
\* indexes one with the other.
OwnersAreOutputs(s) == \A t \in Tags : s.tags[t] # None => s.tags[t] \in OutputIdx(s)

FocusIsAnOutput(s) == IF OutputIdx(s) = {} THEN s.focused_output = None
                      ELSE s.focused_output \in OutputIdx(s)

ShownTagIsOwned(s) ==
  \A o \in OutputIdx(s) : OwnedTags(s, o) # {} => s.outputs[o].active_tag \in OwnedTags(s, o)

TaglessOnlyWhenExhausted(s) ==
  \A o \in OutputIdx(s) : OwnedTags(s, o) = {} => FreeTags(s) = {}

TagTable(s) == /\ OwnersAreOutputs(s)
               /\ FocusIsAnOutput(s)
               /\ ShownTagIsOwned(s)
               /\ TaglessOnlyWhenExhausted(s)

-----------------------------------------------------------------------------
(***************************************************************************)
(* Focus within an output.                                                 *)
(***************************************************************************)
\* Faulty variant: keeps a focus that is alive but no longer shown there.
RefocusedWindow_alive(s, o) ==
  LET shown == ShownWindows(s, o)
  IN  IF s.outputs[o].focused_window \in WindowIds(s) THEN s.outputs[o].focused_window
      ELSE IF shown = {} THEN None ELSE Min(shown)

\* What refocus_output leaves in focused_window: the old focus while it is
\* still shown there, else the first shown window.
RefocusedWindow(s, o) ==
  LET shown == ShownWindows(s, o)
  IN  IF s.outputs[o].focused_window \in shown THEN s.outputs[o].focused_window
      ELSE IF shown = {} THEN None ELSE Min(shown)

refocus_output(s, o) ==
  [s EXCEPT !.outputs[o].focused_window = RefocusedWindow(s, o)]

\* refocus_output for every output in turn: each reads and writes only its own.
RefocusAll(s) ==
  [s EXCEPT !.outputs = [o \in OutputIdx(s) |->
      [s.outputs[o] EXCEPT !.focused_window = RefocusedWindow(s, o)]]]

-----------------------------------------------------------------------------
\* How many members of S come before x.
Rank(S, x) == Cardinality({y \in S : y < x})

(***************************************************************************)
(* Tag ownership.                                                          *)
(***************************************************************************)
\* The tag an output falls back to: its current one, else its first owned
\* tag with windows, else its first owned tag.
best_tag_for_output(s, o) ==
  LET owned == OwnedTags(s, o)
      occupied == {t \in owned : \E w \in WindowIds(s) : s.windows[w].tag = t}
  IN  IF s.outputs[o].active_tag \in owned THEN s.outputs[o].active_tag
      ELSE IF occupied # {} THEN Min(occupied)
      ELSE IF owned # {} THEN Min(owned) ELSE None

\* Faulty variant: every tagless output is given the first free tag.
GrantedTag_first(s, o) ==
  {t \in FreeTags(s) : OwnedTags(s, o) = {} /\ t = Min(FreeTags(s))}

\* The free tag normalize_outputs gives output o, as a set of at most one
\* tag: the loop visits outputs in index order and takes the first tag still
\* free, so the k-th tagless output gets the k-th free tag.
GrantedTag(s, o) ==
  LET tagless == {p \in OutputIdx(s) : OwnedTags(s, p) = {}}
  IN  {t \in FreeTags(s) : o \in tagless /\ Rank(FreeTags(s), t) = Rank(tagless, o)}

\* Revalidate the focused output, every active tag and every focus.  Written
\* without the loop: one output's turn reads nothing another's writes, except
\* the free tags, which GrantedTag deals out (NormalizeLoop compares with the loop).
normalize_outputs(s) ==
  LET shows == [o \in OutputIdx(s) |->
                  IF best_tag_for_output(s, o) # None THEN best_tag_for_output(s, o)
                  ELSE IF GrantedTag(s, o) # {} THEN CHOOSE t \in GrantedTag(s, o) : TRUE
                  ELSE s.outputs[o].active_tag]
      owner == [t \in Tags |->
                  IF \E o \in OutputIdx(s) : t \in GrantedTag(s, o)
                  THEN CHOOSE o \in OutputIdx(s) : t \in GrantedTag(s, o)
                  ELSE s.tags[t]]
  IN  IF OutputIdx(s) = {} THEN [s EXCEPT !.focused_output = None]
      ELSE RefocusAll(
             [s EXCEPT !.focused_output = IF @ \in OutputIdx(s) THEN @ ELSE 0,
                       !.tags = owner,
                       !.outputs = [o \in OutputIdx(s) |->
                                      [s.outputs[o] EXCEPT !.active_tag = shows[o]]]])

\* Revalidation after an output's geometry changes.  The clamping of float
\* rectangles that follows in the source is in Repair.
repair_outputs(s) == normalize_outputs(s)

\* Give the first free tag to an output that owns none, and show it there.
assign_initial_tag(s, o) ==
  LET tag == Min(FreeTags(s))
      assigned == [s EXCEPT !.tags[tag] = o, !.outputs[o].active_tag = tag]
  IN  IF OwnedTags(s, o) # {} THEN s
      ELSE normalize_outputs(IF FreeTags(s) = {} THEN s ELSE assigned)

\* Faulty variants: every index shifts down, or none does.
remap_shift_all(owners, removed, remaining) ==
  [t \in Tags |-> IF owners[t] = None \/ remaining = 0 THEN None
                  ELSE IF owners[t] = removed THEN 0 ELSE owners[t] - 1]
remap_shift_none(owners, removed, remaining) ==
  [t \in Tags |-> IF owners[t] = None \/ remaining = 0 THEN None
                  ELSE IF owners[t] = removed THEN 0 ELSE owners[t]]

\* Owners after output `removed` is gone: its tags go to output 0, owners
\* above it shift down, and no output left means no owner.
remap_tag_owners(owners, removed, remaining) ==
  [t \in Tags |->
     IF owners[t] = None \/ remaining = 0 THEN None
     ELSE IF owners[t] = removed THEN 0
     ELSE IF owners[t] > removed THEN owners[t] - 1
     ELSE owners[t]]

\* Faulty variant: the focused output's index does not shift with the vector.
remove_output_stale_focus(s, idx) ==
  LET remaining == NumOutputs(s) - 1
  IN  normalize_outputs(
        [s EXCEPT !.outputs = [o \in 0 .. (remaining - 1) |->
                                 s.outputs[IF o < idx THEN o ELSE o + 1]],
                  !.tags = remap_tag_owners(s.tags, idx, remaining)])

remove_output(s, idx) ==
  LET remaining == NumOutputs(s) - 1
      focus == s.focused_output
  IN  IF idx \notin OutputIdx(s) THEN s
      ELSE normalize_outputs(
             [s EXCEPT !.outputs = [o \in 0 .. (remaining - 1) |->
                                      s.outputs[IF o < idx THEN o ELSE o + 1]],
                       !.tags = remap_tag_owners(s.tags, idx, remaining),
                       !.focused_output =
                          IF focus = idx THEN (IF remaining = 0 THEN None ELSE 0)
                          ELSE IF focus # None /\ focus > idx THEN focus - 1
                          ELSE focus])

-----------------------------------------------------------------------------
(***************************************************************************)
(* Switching tags and moving windows between them.                         *)
(***************************************************************************)
clear_fullscreen_on_tag(s, tag) ==
  [s EXCEPT !.windows = [w \in WindowIds(s) |->
      IF s.windows[w].tag = tag THEN [s.windows[w] EXCEPT !.fullscreen = FALSE]
      ELSE s.windows[w]]]

\* Clears fullscreen on the tag left behind, even when it is the tag shown
\* again.
activate_tag(s, o, tag) ==
  refocus_output(
    clear_fullscreen_on_tag([s EXCEPT !.outputs[o].active_tag = tag],
                            s.outputs[o].active_tag), o)

\* The pointer-driven variant keeps fullscreen when the tag does not change.
switch_active_tag(s, o, tag) ==
  LET old == s.outputs[o].active_tag
      switched == [s EXCEPT !.outputs[o].active_tag = tag]
  IN  IF o \notin OutputIdx(s) THEN s
      ELSE refocus_output(IF old # tag THEN clear_fullscreen_on_tag(switched, old)
                          ELSE switched, o)

focus_tag(s, o, tag) ==
  LET owner == s.tags[tag]
  IN  IF tag \notin Tags \/ o \notin OutputIdx(s) THEN s
      ELSE mark_dirty(
             IF owner = None THEN activate_tag([s EXCEPT !.tags[tag] = o], o, tag)
             ELSE IF owner = o THEN activate_tag(s, o, tag)
             ELSE activate_tag([s EXCEPT !.focused_output = owner], owner, tag))

send_focused_to_tag(s, o, tag) ==
  LET fid == s.outputs[o].focused_window
      moved == [s EXCEPT !.tags[tag] = IF @ = None THEN o ELSE @,
                         !.windows[fid].tag = tag]
  IN  IF tag \notin Tags \/ o \notin OutputIdx(s) THEN s
      ELSE IF fid \notin WindowIds(s) THEN s
      ELSE IF s.windows[fid].tag = tag THEN s
      ELSE mark_dirty(refocus_output(moved, o))

\* Focus a window with the output and tag it lives on (events.rs), and
\* whether anything changed.
focus_window_needed(s, w) ==
  LET o == tag_owner(s, s.windows[w].tag)
  IN  /\ w \in WindowIds(s)
      /\ o \in OutputIdx(s)
      /\ ~ /\ s.focused_output = o
           /\ s.outputs[o].active_tag = s.windows[w].tag
           /\ s.outputs[o].focused_window = w

focus_window_on_output(s, w) ==
  LET o == tag_owner(s, s.windows[w].tag)
  IN  IF ~focus_window_needed(s, w) THEN s
      ELSE switch_active_tag([s EXCEPT !.focused_output = o,
                                       !.outputs[o].focused_window = w],
                             o, s.windows[w].tag)

\* Windows on no output's active tag give up their render node.
HoldsHiddenNode(s, w) ==
  s.windows[w].node /\ \A o \in OutputIdx(s) : s.outputs[o].active_tag # s.windows[w].tag

\* Faulty variant: the node is destroyed but the window keeps its handle.
release_without_take(s) == s

release_hidden_nodes(s) ==
  [s EXCEPT !.windows = [w \in WindowIds(s) |->
      [s.windows[w] EXCEPT !.node = @ /\ ~HoldsHiddenNode(s, w)]]]
=============================================================================
