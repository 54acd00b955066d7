------------------------------ MODULE WmClaims ------------------------------
(***************************************************************************)
(* What comments and documents of the repository say of the window manager *)
(* and the code does not do.  Each is checked by a run of its own that TLC *)
(* must refute; the finding in PROJECT.json quotes the text.               *)
(***************************************************************************)
EXTENDS StreamWm

\* "Warp the pointer to the target output": the pending warp is an index, and
\* after an earlier output is removed it names a different output than the one
\* the key moved the focus to (wm/mod.rs, bindings.rs).
WarpReachesTarget ==
  (app.pending_pointer_warp # None /\ history.warp_goal \in LiveOutputIds(state)) =>
     /\ app.pending_pointer_warp \in OutputIdx(state)
     /\ state.outputs[app.pending_pointer_warp].id = history.warp_goal

\* "drop our flag or the next fullscreen toggle would be swallowed": once the
\* manage sequence after an unplug is over, a window flagged as applied is
\* fullscreen in river.
UnplugDropsFullscreenFlag ==
  ~river.dirty =>
     \A w \in WindowIds(state) :
        state.windows[w].fullscreen_applied => river.fullscreen[w] # None

\* "clearing fullscreen on any windows left on the previously active tag (river
\* keeps a fullscreen window drawn over everything ...)": after a manage
\* sequence nothing is fullscreen that is not on a shown tag.
NoHiddenFullscreen ==
  (~river.dirty /\ ~state.pending_apply) =>
     \A w \in WindowIds(state) : river.fullscreen[w] # None => window_is_visible(state, w)
=============================================================================
