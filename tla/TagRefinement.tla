--------------------------- MODULE TagRefinement ---------------------------
(***************************************************************************)
(* StreamWm names outputs by their position in a vector; GlobalTags names  *)
(* monitors.  Reading every index as the identity of the output there, the *)
(* window manager implements the tag engine it documents.                  *)
(***************************************************************************)
EXTENDS StreamWm, Sequences

IdAt(s, o) == IF o = None THEN None ELSE s.outputs[o].id

PluggedIn(s) == [i \in 1 .. NumOutputs(s) |-> s.outputs[i - 1].id]
OwnerOf(s) == [t \in Tags |-> IdAt(s, s.tags[t])]
ShownOn(s) == [x \in LiveOutputIds(s) |->
                 (CHOOSE out \in {s.outputs[o] : o \in OutputIdx(s)} : out.id = x).active_tag]

GT == INSTANCE GlobalTags WITH
        plugged <- PluggedIn(state), owner <- OwnerOf(state),
        shows <- ShownOn(state), focus <- IdAt(state, state.focused_output)

\* The tag engine of the repository's README, over every interleaving of plugging, unplugging,
\* key presses and socket commands: no step moves a tag between two monitors
\* that stay, unplugging one disturbs neither the focus nor the shown tag of
\* another, and its tags all go to the first that is left.
ImplementsGlobalTags == GT!TagsSpec
=============================================================================
