----------------------------- MODULE MCStreamWm -----------------------------
(***************************************************************************)
(* Instances of StreamWm for TLC.  A cfg picks one of the input sets below *)
(* so that each question meets every stimulus that bears on it.            *)
(***************************************************************************)
EXTENDS TagRefinement, WmClaims, TLC

\* Who owns which tag: every way outputs, tags and windows move.  The socket's
\* commands take any output, so they cover what the keys do to the focused one.
TagInputs == {"window", "closed", "output", "removed", "changed", "cmd_focus_tag",
              "cmd_send_to_tag", "cmd_focus_output", "cmd_focus_window", "resize_mode", "other"}

\* Every route by which focus moves: keys, pointer, taskbar, socket.
FocusInputs == {"window", "closed", "output", "cycle", "focus_output", "pointer_enter",
                "pointer_position", "window_interaction", "minimize_requested",
                "focus_tag", "cmd_focus_tag", "cmd_focus_window"}

\* What river shows: nodes, fullscreen and focus, with everything that takes a
\* window off a shown tag or its tag off an output, and one source of change of
\* each kind: river, windows, keys, socket.
ScreenInputs == {"window", "closed", "output", "removed", "fullscreen", "fullscreen_requested",
                 "minimize_requested", "cmd_focus_tag", "send_to_tag", "close"}

\* An output can go while a key's pointer warp is pending.
WarpInputs == {"output", "removed", "focus_output", "focus_tag"}

\* Monitors are interchangeable.
MonitorSymmetry == Permutations(OutputIds)
=============================================================================
