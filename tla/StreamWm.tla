----------------------------- MODULE StreamWm -----------------------------
(***************************************************************************)
(* The window manager as river sees it: the handlers of connection.rs,     *)
(* events.rs, bindings.rs, status.rs and wm/mod.rs over the data model of  *)
(* WmState, together with the compositor that calls them.                  *)
(*                                                                         *)
(* One thread runs every handler, so a handler is one step; what           *)
(* interleaves is the order in which river's events, key presses, socket   *)
(* commands and the manage and render sequences reach that thread.  River  *)
(* sends a batch of events and then manage_start, gets manage_finish, and  *)
(* then owes a render sequence before the next batch; a socket command is  *)
(* taken between any two of these.                                         *)
(*                                                                         *)
(*   state    the record of WmState                                        *)
(*   app      AppData: what handlers leave for the next manage sequence    *)
(*   river    the compositor (external), as far as the requests the window *)
(*            manager makes change it                                      *)
(*   history  what earlier steps did, read by properties only              *)
(***************************************************************************)
EXTENDS WmState

CONSTANTS Inputs,              \* the kinds of stimulus a model explores
          MaxOutputs,          \* bound: outputs plugged in at once
          MaxWindows,          \* bound: windows ever created
          FocusFollowsMouse    \* config.focus_follows_mouse

ASSUME BoundsAssumption == MaxOutputs \in Nat /\ MaxWindows \in Nat
ASSUME ConfigAssumption == FocusFollowsMouse \in BOOLEAN

VARIABLES state, app, river, history

vars == <<state, app, river, history>>

LiveOutputIds(s) == {s.outputs[o].id : o \in OutputIdx(s)}

AppType == [next_window_id : Nat \ {0}, pending_close : SUBSET Nat,
            pending_pointer_warp : Nat \cup {None}, layer_default_set : BOOLEAN]

HistoryType == [unplugged : BOOLEAN, warp_goal : OutputIds \cup {None}]

\* The type of river's side r, which knows the windows of s.
IsRiver(s, r) ==
  /\ r \in [dirty : BOOLEAN, render_owed : BOOLEAN, keyboard : Nat \cup {None},
            fullscreen : {r.fullscreen}, nodes : SUBSET Nat, node_error : BOOLEAN,
            shown : SUBSET Nat, resize_keys : BOOLEAN, closing : SUBSET Nat,
            layer_default : OutputIds \cup {None}, pointer : OutputIds \cup {None}]
  /\ r.fullscreen \in [WindowIds(s) -> OutputIds \cup {None}]

\* The type invariant.
TypeOK ==
  /\ IsState(state)
  /\ app \in AppType
  /\ WindowIds(state) \subseteq 1 .. (app.next_window_id - 1)
  /\ IsRiver(state, river)
  /\ history \in HistoryType

Init ==
  /\ state = NewState
  /\ app = [next_window_id |-> 1, pending_close |-> {}, pending_pointer_warp |-> None,
            layer_default_set |-> FALSE]
  /\ river = [dirty |-> FALSE, render_owed |-> FALSE, keyboard |-> None,
              fullscreen |-> [w \in {} |-> None], nodes |-> {}, node_error |-> FALSE,
              shown |-> {}, resize_keys |-> FALSE, closing |-> {},
              layer_default |-> None, pointer |-> None]
  /\ history = [unplugged |-> FALSE, warp_goal |-> None]

-----------------------------------------------------------------------------
(***************************************************************************)
(* How stimuli arrive.  An event of the protocol is part of a batch that   *)
(* river ends with manage_start, so it leaves river dirty whatever the     *)
(* handler requests; it never comes while a render sequence is owed.       *)
(***************************************************************************)
RiverEvent(kind) ==
  /\ kind \in Inputs
  /\ ~river.render_owed
  /\ river' = [river EXCEPT !.dirty = TRUE]

\* Faulty variant: the request is forgotten.
RequestNothing == UNCHANGED river

\* request_manage, or manage_dirty called directly.
RequestManage == river' = [river EXCEPT !.dirty = TRUE]

Command(kind) == kind \in Inputs /\ RequestManage

-----------------------------------------------------------------------------
(***************************************************************************)
(* Windows and outputs come and go (connection.rs, events.rs).             *)
(***************************************************************************)
PushWindow(s, wid) ==
  LET o == IF active_output(s) = None THEN 0 ELSE active_output(s)
      tag == IF o \in OutputIdx(s) THEN s.outputs[o].active_tag ELSE 0
  IN  [s EXCEPT !.windows = [w \in WindowIds(s) \cup {wid} |->
                                IF w = wid THEN NewWindow(tag) ELSE s.windows[w]],
                !.outputs = [p \in OutputIdx(s) |->
                                IF p = o THEN [s.outputs[p] EXCEPT !.focused_window = wid]
                                ELSE s.outputs[p]]]

WindowCreated ==
  LET wid == app.next_window_id
  IN  /\ "window" \in Inputs
      /\ ~river.render_owed
      /\ wid <= MaxWindows
      /\ state' = PushWindow(state, wid)
      /\ app' = [app EXCEPT !.next_window_id = @ + 1]
      /\ river' = [river EXCEPT !.dirty = TRUE,
                     !.fullscreen = [w \in WindowIds(state) \cup {wid} |->
                                       IF w = wid THEN None ELSE river.fullscreen[w]]]
      /\ UNCHANGED history

\* Closed forgets the window and its node; focused_window may go on naming
\* it until the next manage sequence.
ForgetWindow(s, wid) ==
  [s EXCEPT !.windows = [w \in WindowIds(s) \ {wid} |-> s.windows[w]]]

WindowClosed(wid) ==
  /\ "closed" \in Inputs
  /\ ~river.render_owed
  /\ state' = ForgetWindow(state, wid)
  /\ river' = [river EXCEPT !.dirty = TRUE,
                 !.nodes = @ \ {wid}, !.shown = @ \ {wid}, !.closing = @ \ {wid},
                 !.keyboard = IF @ = wid THEN None ELSE @,
                 !.fullscreen = [w \in WindowIds(state) \ {wid} |-> river.fullscreen[w]]]
  /\ UNCHANGED <<app, history>>

PushOutput(s, id) ==
  LET n == NumOutputs(s)
      pushed == [s EXCEPT !.outputs = [o \in 0 .. n |->
                                         IF o = n THEN NewOutput(id) ELSE s.outputs[o]]]
      assigned == assign_initial_tag(pushed, n)
  IN  [assigned EXCEPT !.focused_output = IF @ = None THEN n ELSE @]

OutputCreated(id) ==
  /\ RiverEvent("output")
  /\ NumOutputs(state) < MaxOutputs
  /\ id \notin LiveOutputIds(state)
  /\ state' = PushOutput(state, id)
  /\ UNCHANGED <<app, history>>

\* The layer-shell default may have been the output that is gone.
ResetLayerDefault_never(a) == a      \* faulty variant
ResetLayerDefault(a) == [a EXCEPT !.layer_default_set = FALSE]

\* River itself takes windows out of fullscreen on an output that goes away.
OutputRemoved(idx) ==
  LET id == state.outputs[idx].id
  IN  /\ "removed" \in Inputs
      /\ ~river.render_owed
      /\ state' = remove_output(state, idx)
      /\ app' = ResetLayerDefault(app)
      /\ river' = [river EXCEPT !.dirty = TRUE,
                     !.fullscreen = [w \in WindowIds(state) |->
                                       IF river.fullscreen[w] = id THEN None
                                       ELSE river.fullscreen[w]],
                     !.layer_default = IF @ = id THEN None ELSE @,
                     !.pointer = IF @ = id THEN None ELSE @]
      /\ history' = [history EXCEPT !.unplugged = TRUE]

\* Position, Dimensions and NonExclusiveArea: geometry, then repair_outputs.
OutputChanged ==
  /\ RiverEvent("changed")
  /\ OutputIdx(state) # {}
  /\ state' = repair_outputs(state)
  /\ UNCHANGED <<app, history>>

\* Events streamwm ignores or keeps for display only (titles, session lock):
\* a batch with nothing in it, so manage sequences come unasked.
OtherEvent ==
  /\ RiverEvent("other")
  /\ UNCHANGED <<state, app, history>>

-----------------------------------------------------------------------------
(***************************************************************************)
(* Requests of the windows themselves (events.rs).                         *)
(***************************************************************************)
FullscreenRequested(w, on) ==
  /\ RiverEvent("fullscreen_requested")
  /\ state' = [state EXCEPT !.windows[w].fullscreen = on]
  /\ UNCHANGED <<app, history>>

MinimizeRequested(w) ==
  /\ RiverEvent("minimize_requested")
  /\ state' = [state EXCEPT !.windows[w].minimized = TRUE]
  /\ UNCHANGED <<app, history>>

-----------------------------------------------------------------------------
(***************************************************************************)
(* The pointer (events.rs).  The part of PointerEnter and PointerLeave     *)
(* that records which window a seat points at serves drags only and is     *)
(* left out here.                                                          *)
(***************************************************************************)
PointerEnter(w) ==
  /\ RiverEvent("pointer_enter")
  /\ w \in river.shown
  /\ state' = IF FocusFollowsMouse THEN focus_window_on_output(state, w) ELSE state
  /\ UNCHANGED <<app, history>>

\* River sends this for hidden windows too (a taskbar): the way back for a
\* minimized one.
WindowInteraction(w) ==
  /\ RiverEvent("window_interaction")
  /\ state' = focus_window_on_output([state EXCEPT !.windows[w].minimized = FALSE], w)
  /\ UNCHANGED <<app, history>>

\* Sent only inside a batch that starts a manage sequence for another reason.
PointerPosition(o) ==
  /\ "pointer_position" \in Inputs
  /\ river.dirty /\ ~river.render_owed
  /\ FocusFollowsMouse
  /\ state' = [state EXCEPT !.focused_output = o]
  /\ river' = [river EXCEPT !.pointer = state.outputs[o].id]
  /\ UNCHANGED <<app, history>>

-----------------------------------------------------------------------------
(***************************************************************************)
(* Key bindings: run_action (bindings.rs).                                 *)
(***************************************************************************)
FocusedWindow(s) ==
  IF active_output(s) = None THEN None ELSE s.outputs[active_output(s)].focused_window

\* The focused window may already be gone; the id is looked up again later.
KeyClose ==
  /\ RiverEvent("close")
  /\ FocusedWindow(state) # None
  /\ app' = [app EXCEPT !.pending_close = @ \cup {FocusedWindow(state)}]
  /\ UNCHANGED <<state, history>>

\* The window `focus_next` and `focus_prev` go to: around the windows of the
\* shown tag in id order, from the first one when the focus is not among them.
CycleFrom(ids, focused, forward) ==
  LET cur == IF focused \in ids THEN focused ELSE Min(ids)
      after == {w \in ids : w > cur}
      before == {w \in ids : w < cur}
  IN  IF forward THEN (IF after = {} THEN Min(ids) ELSE Min(after))
      ELSE (IF before = {} THEN Max(ids) ELSE Max(before))

KeyCycle(forward) ==
  LET o == active_output(state)
      ids == ShownWindows(state, o)
  IN  /\ RiverEvent("cycle")
      /\ o # None
      /\ ids # {}
      /\ state' = [state EXCEPT !.outputs[o].focused_window =
                                   CycleFrom(ids, state.outputs[o].focused_window, forward)]
      /\ UNCHANGED <<app, history>>

\* The pending warp is overwritten even when there is nothing to warp to.
KeyFocusTag(tag) ==
  LET o == active_output(state)
      owner == tag_owner(state, tag)
      target == IF o = None \/ owner = o THEN None ELSE owner
  IN  /\ RiverEvent("focus_tag")
      /\ state' = IF o = None THEN state ELSE focus_tag(state, o, tag)
      /\ app' = [app EXCEPT !.pending_pointer_warp = target]
      /\ history' = [history EXCEPT !.warp_goal =
                       IF target = None THEN None ELSE state.outputs[target].id]

KeySendToTag(tag) ==
  /\ RiverEvent("send_to_tag")
  /\ active_output(state) # None
  /\ state' = send_focused_to_tag(state, active_output(state), tag)
  /\ UNCHANGED <<app, history>>

KeyFullscreen ==
  LET w == FocusedWindow(state)
  IN  /\ RiverEvent("fullscreen")
      /\ w \in WindowIds(state)
      /\ state' = [state EXCEPT !.windows[w].fullscreen = ~@]
      /\ UNCHANGED <<app, history>>

KeyFocusOutput(forward) ==
  LET n == NumOutputs(state)
      cur == IF state.focused_output = None THEN 0 ELSE state.focused_output
      next == IF forward THEN (IF cur + 1 = n THEN 0 ELSE cur + 1)
              ELSE (IF cur = 0 THEN n - 1 ELSE cur - 1)
  IN  /\ RiverEvent("focus_output")
      /\ n > 1
      /\ state' = [state EXCEPT !.focused_output = next]
      /\ app' = [app EXCEPT !.pending_pointer_warp = next]
      /\ history' = [history EXCEPT !.warp_goal = state.outputs[next].id]

KeyToggleResize ==
  /\ RiverEvent("resize_mode")
  /\ state' = [state EXCEPT !.resize_mode = ~@]
  /\ UNCHANGED <<app, history>>

\* The keys of resize mode reach streamwm only while river has them enabled.
KeyExitResize ==
  /\ RiverEvent("resize_mode")
  /\ river.resize_keys
  /\ state' = [state EXCEPT !.resize_mode = FALSE]
  /\ UNCHANGED <<app, history>>

\* The master fraction is geometry; leaving fullscreen is not.
KeyResizeStep ==
  LET o == active_output(state)
  IN  /\ RiverEvent("resize_mode")
      /\ river.resize_keys
      /\ state' = IF state.resize_mode /\ o # None
                  THEN clear_fullscreen_on_tag(state, state.outputs[o].active_tag)
                  ELSE state
      /\ UNCHANGED <<app, history>>

-----------------------------------------------------------------------------
(***************************************************************************)
(* Commands from the control socket: apply_command (status.rs).  A lookup  *)
(* by output name finds some output or none, as does one by app id and     *)
(* title among windows, and every command ends with manage_dirty.          *)
(***************************************************************************)
CmdFocusTag(tag, o) ==
  /\ Command("cmd_focus_tag")
  /\ state' = IF o # None /\ tag \in Tags THEN focus_tag(state, o, tag) ELSE state
  /\ UNCHANGED <<app, history>>

CmdSendToTag(tag) ==
  /\ Command("cmd_send_to_tag")
  /\ state' = IF active_output(state) = None THEN state
              ELSE send_focused_to_tag(state, active_output(state), tag)
  /\ UNCHANGED <<app, history>>

CmdFocusOutput(o) ==
  /\ Command("cmd_focus_output")
  /\ state' = [state EXCEPT !.focused_output = o]
  /\ UNCHANGED <<app, history>>

FocusWindowOf(s, w) ==
  LET o == tag_owner(s, s.windows[w].tag)
      switched == switch_active_tag([s EXCEPT !.focused_output = o], o, s.windows[w].tag)
  IN  IF o \in OutputIdx(s) THEN [switched EXCEPT !.outputs[o].focused_window = w] ELSE s

CmdFocusWindow(w) ==
  /\ Command("cmd_focus_window")
  /\ state' = FocusWindowOf(state, w)
  /\ UNCHANGED <<app, history>>

-----------------------------------------------------------------------------
(***************************************************************************)
(* The event loop and the manage and render sequences.                     *)
(***************************************************************************)
flush_pending ==
  /\ state.pending_apply
  /\ state' = [state EXCEPT !.pending_apply = FALSE]
  /\ RequestManage
  /\ UNCHANGED <<app, history>>

\* Faulty variant: the flag says applied although there was no output to send
\* the request for.
FullscreenPass_unsent(s, onOutput, w) ==
  LET win == s.windows[w]
      target == window_output(s, w)
      enter == win.fullscreen /\ ~win.fullscreen_applied /\ target \in OutputIdx(s)
  IN  [wanted |-> win.fullscreen, applied |-> win.fullscreen,
       on |-> IF enter THEN s.outputs[target].id
              ELSE IF win.fullscreen THEN onOutput ELSE None]

\* The fullscreen flags of window w after on_manage_start, and the output
\* river shows it fullscreen on.  A window whose tag lost its owner has its
\* flags dropped; after that, a flag that differs from the one applied is sent.
FullscreenPass(s, onOutput, w) ==
  LET win == s.windows[w]
      dropped == /\ win.fullscreen_applied
                 /\ tag_owner(s, win.tag) = None
                 /\ OutputIdx(s) # {}
      wanted == win.fullscreen /\ ~dropped
      applied == win.fullscreen_applied /\ ~dropped
      target == window_output(s, w)
      enter == wanted /\ ~applied /\ target \in OutputIdx(s)
      leave == ~wanted /\ applied
  IN  [wanted |-> wanted,
       applied |-> (applied \/ enter) /\ ~leave,
       on |-> IF enter THEN s.outputs[target].id
              ELSE IF leave THEN None ELSE onOutput]

ApplyFullscreen(s, r) ==
  [s EXCEPT !.windows = [w \in WindowIds(s) |->
      [s.windows[w] EXCEPT
         !.fullscreen = FullscreenPass(s, r.fullscreen[w], w).wanted,
         !.fullscreen_applied = FullscreenPass(s, r.fullscreen[w], w).applied]]]

\* on_manage_start: refocus every output, send the deferred close requests,
\* apply fullscreen, set the layer-shell default output once, route keyboard
\* focus, enable or disable the resize keys, warp the pointer.  (The hide
\* requests it makes are superseded by the render sequence that follows.)
on_manage_start ==
  LET s == RefocusAll(state)
      warp == app.pending_pointer_warp
      setDefault == ~app.layer_default_set /\ OutputIdx(s) # {}
  IN  /\ state' = ApplyFullscreen(s, river)
      /\ app' = [app EXCEPT !.pending_close = {}, !.pending_pointer_warp = None,
                            !.layer_default_set = @ \/ setDefault]
      /\ river' = [river EXCEPT
                     !.dirty = FALSE,
                     !.render_owed = TRUE,
                     !.closing = @ \cup (app.pending_close \cap WindowIds(s)),
                     !.fullscreen = [w \in WindowIds(s) |->
                                       FullscreenPass(s, river.fullscreen[w], w).on],
                     !.layer_default = IF setDefault THEN s.outputs[0].id ELSE @,
                     !.keyboard = IF FocusedWindow(s) \in WindowIds(s)
                                  THEN FocusedWindow(s) ELSE None,
                     !.resize_keys = s.resize_mode,
                     !.pointer = IF warp \in OutputIdx(s) THEN s.outputs[warp].id ELSE @]
      /\ history' = [history EXCEPT !.warp_goal = None]

ManageStart ==
  /\ river.dirty /\ ~river.render_owed
  /\ on_manage_start

Placed(s) == {w \in WindowIds(s) : window_is_visible(s, w) /\ ~s.windows[w].minimized}

\* on_render_start: destroy the nodes of windows on no active tag, get a node
\* for every visible window without one, then hide and show.  Getting a node
\* river already has for the window is a protocol error.
on_render_start ==
  LET s == release_hidden_nodes(state)
      kept == river.nodes \ {w \in WindowIds(state) : HoldsHiddenNode(state, w)}
      wants == {w \in WindowIds(s) : ~s.windows[w].node /\ window_is_visible(s, w)}
  IN  /\ state' = [s EXCEPT !.windows = [w \in WindowIds(s) |->
                      [s.windows[w] EXCEPT !.node = @ \/ w \in wants]]]
      /\ river' = [river EXCEPT !.render_owed = FALSE,
                                !.nodes = kept \cup wants,
                                !.node_error = @ \/ wants \cap kept # {},
                                !.shown = Placed(s)]
      /\ UNCHANGED <<app, history>>

\* River may start a render sequence at any time, and owes one after a manage
\* sequence.
RenderStart == on_render_start

-----------------------------------------------------------------------------
TagArgs == 0 .. NumTags      \* one past the last tag: out of range

Settle == flush_pending \/ ManageStart \/ RenderStart

WindowStep ==
  \/ WindowCreated
  \/ \E w \in WindowIds(state) :
        \/ WindowClosed(w)
        \/ \E on \in BOOLEAN : FullscreenRequested(w, on)
        \/ MinimizeRequested(w)
        \/ PointerEnter(w)
        \/ WindowInteraction(w)
        \/ CmdFocusWindow(w)

OutputStep ==
  \/ \E id \in OutputIds : OutputCreated(id)
  \/ \E o \in OutputIdx(state) : OutputRemoved(o) \/ PointerPosition(o) \/ CmdFocusOutput(o)
  \/ OutputChanged
  \/ OtherEvent

KeyStep ==
  \/ KeyClose
  \/ \E forward \in BOOLEAN : KeyCycle(forward) \/ KeyFocusOutput(forward)
  \/ \E tag \in TagArgs : KeyFocusTag(tag) \/ KeySendToTag(tag) \/ CmdSendToTag(tag)
  \/ \E tag \in TagArgs, o \in OutputIdx(state) \cup {None} : CmdFocusTag(tag, o)
  \/ KeyFullscreen
  \/ KeyToggleResize
  \/ KeyExitResize
  \/ KeyResizeStep

Next == WindowStep \/ OutputStep \/ KeyStep \/ Settle

\* River starts the manage sequence it was asked for and the render sequence
\* it owes; the event loop flushes after every dispatch.
Fairness == WF_vars(flush_pending) /\ WF_vars(ManageStart) /\ WF_vars(RenderStart)

Spec == Init /\ [][Next]_vars /\ Fairness

-----------------------------------------------------------------------------
(***************************************************************************)
(* Properties.                                                             *)
(***************************************************************************)
\* Whatever order outputs come and go in and tags are focused, sent to and
\* migrated in: every tag's owner index and the focused output index name an
\* output that exists (the unchecked `outputs[o]` of the handlers cannot
\* panic), an output that owns any tag shows one it owns, and an output is
\* left without a tag only when no tag is free.
TagOwnership == TagTable(state)

\* The node a window remembers is the node river holds for it, and get_node
\* is never made for a window whose node still exists (a protocol error that
\* kills the connection), across tag switches, unplugging and closing.
NodesAgree == /\ river.nodes = {w \in WindowIds(state) : state.windows[w].node}
              /\ ~river.node_error

\* The window keyboard focus must go to.
KeyboardTarget(s) ==
  IF active_output(s) = None THEN None ELSE RefocusedWindow(s, active_output(s))

\* What river shows and where its keyboard focus is, compared with the state.
InRiver(s) ==
  /\ river.keyboard = KeyboardTarget(s)
  /\ river.resize_keys = s.resize_mode
  /\ OutputIdx(s) # {} =>
       \A w \in WindowIds(s) : s.windows[w].fullscreen = s.windows[w].fullscreen_applied
  /\ river.render_owed \/ river.shown = Placed(s)

\* No change is lost: while what river applied differs from the state, a
\* manage sequence is on its way or flush_pending will request one
\* (mark_dirty: "every mutation that the user should see must set this").
NothingUnapplied == river.dirty \/ state.pending_apply \/ InRiver(state)

\* As long as no output was ever unplugged, streamwm's fullscreen_applied flag
\* tells what river has: a toggle is never swallowed.
FullscreenAgrees ==
  history.unplugged \/
    \A w \in WindowIds(state) :
       state.windows[w].fullscreen_applied <=> river.fullscreen[w] # None

\* Between manage sequences a layer surface without an output preference has a
\* live default output whenever there is one: unplugging the default one
\* makes the next manage sequence choose again.
LayerDefaultLives ==
  (~river.dirty /\ OutputIdx(state) # {}) => river.layer_default \in LiveOutputIds(state)

\* A manage sequence routes the keyboard to a window the focused output shows,
\* and leaves it without focus only when that output shows none.
KeyboardRouted ==
  [][ManageStart =>
       LET o == active_output(state')
           here == {w \in WindowIds(state') : /\ window_is_visible(state', w)
                                              /\ state'.tags[state'.windows[w].tag] = o}
       IN  IF here = {} THEN river'.keyboard = None ELSE river'.keyboard \in here]_vars

\* Once input stops, river ends up showing exactly what the state says, for good.
Converges == <>[][Settle]_vars => <>[](~river.dirty /\ InRiver(state) /\ ~river.render_owed)
=============================================================================
