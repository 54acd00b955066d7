# streamwm in TLA+

streamwm is the window manager client of the river compositor: river owns the
screen and the input devices, streamwm decides which window is where, which has
the focus and what is fullscreen. This directory specifies it in TLA+,
model-checks it with TLC and proves its safety with TLAPS. Paths below are
relative to the repository, which sits at `src/`; `PROJECT.json` maps every
definition to the lines it models.

## The system

| component | source | state | operations | what makes it correct | module |
|---|---|---|---|---|---|
| data model | `src/state.rs` | vectors of outputs, windows, seats; the table of nine global tags, each owned by one output or none; the focused output | assign, migrate, focus and send to tags; refocus; visibility; release of render nodes; clamp and place floats | owner and focus indices stay valid when outputs come and go; an output shows a tag it owns; floats stay on screen | `WmState`, `NormalizeLoop`, `Repair` |
| handlers | `src/connection.rs`, `src/events.rs`, `src/bindings.rs`, `src/wm/mod.rs` | `AppData`: changes deferred to the next manage sequence | one handler per event of river, per key action, per socket command; `on_manage_start`, `on_render_start` | what streamwm remembers of river's side is what river has; every change is applied; the keyboard follows the focus | `StreamWm` |
| status socket | `src/status.rs` | registry of subscribers, request and command channels, an eventfd, a count of clients | accept, request and answer, subscribe, publish | no lost wake-up, no stale snapshot, no leaked place | `StatusStream` |
| pointer operations | `src/bindings.rs`, `src/events.rs` | pending and active operation, a request to end it, the seats | stage, start, delta, release, end; seats and windows that go | an operation ends, on a seat that lives; streamwm and river agree on it | `PointerOps` |
| lid listener | `src/lid.rs` | last lid state and displays, two retry timers | poll, switch profiles, recover the internal panel | the profile follows lid and dock; retries end | `LidListener` |
| supervisor | `src/main.rs` | failures in a rolling window | restart with backoff, give up | neither too many restarts nor too few | `Supervisor`, `Session` |
| layout | `src/wm/layout.rs` | none | tiling, order of placement | tiles do not overlap and stay inside; floats are on top | `Layout`, `Repair` |
| configuration, spawning, protocol bindings | `src/config.rs`, `src/wm/spawn.rs`, `src/protocols.rs` | none that others change | | | |

The components interact in three ways. River sends batches of events, each
ended by `manage_start`; streamwm answers with requests and `manage_finish`,
river applies them and owes a `render_start`. Handlers that need requests which
are only legal inside a manage sequence leave a note (`pending_close`,
`pending_pointer_warp`, `pending_op`, `op_end_requested`, `fullscreen` against
`fullscreen_applied`) and ask for a manage sequence. Socket threads reach the
window manager only through two channels and the eventfd that wakes its `poll`;
it reaches subscribers through a locked registry. The lid listener is a thread
of the worker the supervisor runs, and dies with it; it shares no state with
the window manager.

What is hard: indices into `outputs` that shift under whoever kept one; river
changing on its own what streamwm mirrors in a flag; notes that are stale when
the manage sequence comes; focus moved by four parties; seats unplugged in the
middle of a drag; publishes that race the start of a subscription; wake-ups that race
a drain; lid and dock moving while the listener sleeps; timers lost in a restart. The
list, with lines, is `hazards` in `PROJECT.json`.

## Modules

**`WmState`**: the data model. A state is a record; every method of
`State` is an operator from one state to the next, under its name in the source.
Outputs are a function on `0 .. n-1` because the code names outputs by index,
and that index shifting is the point. Windows are a function on ids: ids only
grow and the vector is only appended to and filtered, so its order is id order.
`normalize_outputs` is given in closed form.

**`NormalizeLoop`** is the loop of `normalize_outputs`, one output per turn, to be
compared with the closed form.

**`Layout`** is the arithmetic of rectangles: master and stack, clamping to an area,
fitting and centring over a parent. **`Repair`** uses both: `repair_outputs` as a
behaviour (the loop, then the clamping of floats), the tiles and the render order of
what it leaves, and the two events that float a window, by application and by parent.
It starts from arbitrary small states, because the reachable ones never grant a free tag.
The master fraction counts parts of a unit, `Parts`, so it may be any fraction there is. Windows are listed
by their rank (`InVecOrder`), not with the library's sorting operators, which the prover cannot expand.
**`MCRepair`** lists the scenes it starts from.

**`StreamWm`**: the handlers over `WmState`, one action each, with the compositor.
One thread runs all handlers, so a handler is one atomic step; the order
in which stimuli arrive is free. `river` is external and holds what requests
change: whether a manage sequence is due, whether a render sequence is owed,
keyboard focus, fullscreen, nodes, windows shown, keys enabled, the layer-shell
default, the pointer. Events come only between a render sequence and
the next manage sequence, as the protocol says; socket commands any time.
`history` records what properties need of the past and no action reads it.
Names are not modelled: a lookup by output name or by app id and title finds
any output or window, or none. **`MCStreamWm`** names the input sets of its runs.

**`GlobalTags`** is the abstract specification: monitors, not indices, each
tag owned by one monitor, migrating to the first remaining one. It is the engine of the repository's `README.md:14`.
**`TagRefinement`** maps `StreamWm` to it.

**`PointerOps`**: interactive move and resize. Handlers stage an operation in
`pending_op` and note its end in `op_end_requested`; `process_pointer_ops`, in the manage
sequence, starts and ends it in river. River's half is external: per seat, whether an
operation is in progress or released, its cursor, and where the pointer was when it began,
from which `op_delta` counts. It is kept apart from `StreamWm`: the two share
no variable but the seats' pointers and the windows' floating rectangles, and no
decision of `StreamWm` reads those. One axis stands for both. `superseded` is history.

**`StatusStream`**: the listener, one handler thread per connection and the
window manager's event loop, at the grain of their accesses to shared data:
`publish` stores and wakes one subscriber at a time under the registry's lock,
a subscriber clears its cell and drains its wake channel in two steps. Snapshots
are version numbers.

**`LidListener`**: one turn of `run` is one step, except that the two sleeps after the
lid opens split it in three: the displays it remembers are those it read before the sleeps.
Every command may fail. Instants are countdowns. Lid, displays and logind are external and
move at any time. **`Supervisor`**: instants are ages, cut at the length of the window
because older ones are no longer told apart. **`Session`** composes them: a worker that
ends takes the listener's memory and timers with it, the next starts afresh,
and the displays keep what the last one made of them. **`MCSession`** gives the retry delays.

**`WmClaims`** states three things the repository says of the window manager and the code
does not do; `DragFollowsPointer` (`PointerOps`) and `AlwaysNewest` (`StatusStream`) are two more.
Definitions commented "Faulty variant" are plausible bugs: put in place of the definition
below them, each makes one property fail.

Eight modules hold proofs and nothing else: **`WmStateProofs`**, what each operator of
`WmState` preserves; **`StreamWmProofs`** and **`TagRefinementProofs`**, each
extending the one before, about `StreamWm`; **`RepairProofs`**, **`PointerProofs`**, **`StatusProofs`** and
**`SessionProofs`** about the other behaviours; **`SequenceLemmas`**, what removing an
element of a sequence leaves.

## Runs

| run | instance | what it shows |
|---|---|---|
| `Tags` | 3 tags, 3 monitors, 1 window; 11 kinds of input | `TypeOK`; `TagOwnership`: owners and focus are outputs that exist, an output with tags shows its own, none is tagless while a tag is free; `ImplementsGlobalTags` |
| `Screen` | 2 tags, 2 monitors, 1 window | `NodesAgree`: the node kept is the node river has, `get_node` is never repeated; `FullscreenAgrees`: as long as nothing was unplugged; `LayerDefaultLives`; `NothingUnapplied`; `Converges` (liveness) |
| `Focus` | 2 tags, 2 monitors, 2 windows, focus follows mouse | `KeyboardRouted`, whoever moved the focus |
| `Repair` | every tag table of 3 outputs and 3 tags; 1 to 4 tiles on areas from 0 to 9 by 11; every mix of 3 windows; floats on and off 2 outputs, with hints; no output left | `LoopIsClosedForm`; `TableRepaired`: whatever the outputs showed, the tag table is sound again; `TilesFit`, `NoSpaceLost`, `FloatsOnTop`; of steps, `FloatsOnScreen`, `DialogsReadable` |
| `Pointer` | 2 seats, 1 window | `OpsOnLiveSeats`, `OpsAgree`, `CursorMatchesOp`; `ReleasedOpEnds` (liveness) |
| `Session` | at most 2 restarts in 5 ticks, backoff 1 and 2; polls and sleeps of 1, recovery retry 3, fast retries 1 and 2 | `TimersOnlyUndocked`, `RestartsCapped`, `GivesUpOnlyInBurst`; `ArmedRecoveryEnds`, `ProfileSettles` (liveness) |
| `Status` | 3 connections, limit 2, 2 versions | `HandlersBounded`, `NoLostWakeup`, `NothingStranded`, `NeverRegresses` |

`RestartsCapped` is about restarts though the code counts failures, and a restart comes
later than its failure by a delay that grows: restarts could bunch up where failures do
not. `TilesFit` says that tiles do not overlap, and is met by tiles that leave most of
the area empty; `NoSpaceLost` says that they leave nothing but gaps: every point is in a
tile or in the gap right of one or below one.

Bounds. Three monitors are the fewest where one is removed from the middle, an
index above it shifts, and one below it stays; three tags are the fewest where
monitors exhaust the tags and a monitor can own two. One window is
enough for properties of one window and its tag; cycling and routing focus need two.
No bound is a limit of the code: `MaxOutputs`, `MaxWindows` bound what is ever
plugged in or opened, `NumConnections`, `MaxVersion` what is ever accepted or
published. Two versions are a snapshot and a newer one. Three connections against
a limit of two let one be refused, and one be accepted after another ended.
Two seats are the fewest where one operation takes another's place; `Pointer` keeps the
pointer in one place (`Span` 0), because nothing it checks depends on where, and `MaxCoord` lets a window
be dragged and resized to its minimum; `DragJump` has one seat and three places.
`Repair`'s areas go from nothing to where four tiles have a size; `MaxRules` 1 because a
second rule meets a window as a scene could have it. Its master fractions, in twentieths, are the
smallest, the largest and the default, 0.55. In `Session` the recovery retry is
longer than both fast ones, as in the code, and the window long enough to hold three failures and their
delays, or to forget one. Ticks keep the order of the code's delays, not their ratio.
Monitors are interchangeable, so `Tags` and `Focus` use symmetry; the others have nothing
interchangeable or check liveness. `Repair` and the two runs of `StatusStream` may stop (the
rules are used up, all connections are), so they do not check deadlock; the others do.

Fairness. `StreamWm`: `flush_pending` runs in every turn of the event loop; river
starts the manage sequence it was asked for and the render sequence it owes
(weak fairness of the three). `Converges` says that once only these happen, the
screen agrees with the state for good; nothing is assumed of users and
windows. `StatusStream`: threads run (weak fairness per handler, of the
listener's verdict and of the event loop); strong fairness of `RenderStart`, for the loop
may turn many times before river's event is read but not for ever. A
handler may always end, and a client need never write a line. `PointerOps`: river
starts the manage sequence it owes (weak), and sends a seat's position before it, as its
protocol says; users need never release a button. `Session`: of the
listener, the supervisor and the clock, one is due (weak); a recovery that is tried again and
again succeeds some time (strong): the comment at `lid.rs:150` takes failures for transient. Nothing
is assumed of lid and dock; `ProfileSettles` is about behaviours in which they come to rest.

### Refuted claims

Five runs check one statement of the repository each and find it false:

* `StaleWarp`: `wm/mod.rs:249` warps the pointer "to the target output"; the
  target is kept as an index, and an output removed before the manage
  sequence makes it another output, or none.
* `SwallowedToggle`: `wm/mod.rs:70` drops the fullscreen flag of a window whose
  output was removed; it looks for a tag without an owner, and the tag has been
  given to another output by then. The flag stays and the next toggle is swallowed.
* `HiddenFullscreen`: `state.rs:573` explains why windows that leave the screen must
  leave fullscreen; `send_focused_to_tag` does not do it.
* `DragJump`: `apply_pointer_delta` (`bindings.rs:625`) subtracts the pointer's start
  position from a delta that already counts from the start, so a drag begins with a jump.
* `StatusStall`: `status.rs:10` and `README.md:30` promise that a subscriber
  converges on the newest snapshot. A publish between the two halves of
  `stream_snapshots`'s discard (cell cleared, wake channel not yet drained) leaves
  its snapshot in the cell without a token. `NothingStranded` holds all the same for what is
  published once the thread is in its loop.

Read in the code while modelling, modelled as the code has it, and not behind a run:

* `docs/FEATURES.md:49` has an empty tag unassigned when focus leaves it; `activate_tag`
  (`state.rs:565`) keeps it, as its own comment and the test at `state.rs:925` want. The
  repository's `README.md` does not promise it, and `GlobalTags` has no such step.
* `lid.rs:152` says the next tick retries a failed switch. Only recoveries of an undocked
  laptop are retried; a failed first switch, or one for a lid or a connected display, is not (`stale` in
  `LidListener` marks these, and `ProfileSettles` excepts them).
* `lid.rs:145` reads the displays before sleeping 3.5 s and remembers that reading, but
  applies the profile for a later one: a dock gone and back meanwhile leaves the laptop's profile
  "undocked" at a dock until something else changes. Without the exception of `stale`, TLC shows it.
* `bindings.rs:475` says an operation must run on the seat that pressed, and takes the
  first seat with a window under its pointer. An operation staged while one on another seat is
  in progress leaves that one without an end (`superseded`). When a seat goes
  with an operation only staged, the request to end it stays and ends the next one.
* `bindings.rs:631` says that when a left edge is dragged the opposite one stays fixed; once the
  side is at its minimum it moves.
* The doc of `fit_beside_parent` (`state.rs:685`) lets a window shrink below its minimum hint; the code raises it
  to it. The size so placed is the one proposed later, unless hints change after the app id.
* `send_focused_to_tag` (`state.rs:613`) does not clamp a floating rectangle to the output that shows it next.
* `layout.rs:70` and `layout.rs:128` have the stack end exactly on the area's bottom edge, where the
  master ends. The area has lost its gap by then, and `layout.rs:131` takes off another: the stack ends that
  much above the master. That is the code contradicting its comments; the test at `layout.rs:286` expects what the
  code does. `NoSpaceLost` takes no side: it allows a gap below any tile.
* Minimised windows keep their tile (`layout.rs:44`).
* `status.rs:524` focuses a tag of another output without the warp `docs/FEATURES.md:50` describes.

## Proofs

Every theorem is about every value of the constants that the assumptions of the modules
allow: at least one tag, one place for a client, one restart; delays of at least one tick
and a longest backoff not below the first; `None` different from everything else; scenes (`Repair`) that
are well typed, with a master fraction from 0.1 to 0.9, as the code clamps it. Nothing else is
assumed, and TLC evaluates the assumptions in every run.

| property | theorem in | inductive invariant |
|---|---|---|
| `TypeOK`, `TagOwnership` | `StreamWmProofs` | `Inv` |
| `NodesAgree`, `NothingUnapplied`, `FullscreenAgrees`, `LayerDefaultLives`, `KeyboardRouted` | `StreamWmProofs` | `Inv /\ Screen` |
| `ImplementsGlobalTags` | `TagRefinementProofs` | `Inv /\ Distinct(state)` |
| `LoopIsClosedForm`, `TableRepaired`, `FloatsOnScreen`, `DialogsReadable`, `TilesFit`, `NoSpaceLost`, `FloatsOnTop` | `RepairProofs` | `RepairInv` |
| `PointerTypeOK`, `OpsOnLiveSeats`, `OpsAgree`, `CursorMatchesOp` | `PointerProofs` | `PointerInv` |
| `StatusTypeOK`, `HandlersBounded`, `NoLostWakeup`, `NothingStranded`, `NeverRegresses` | `StatusProofs` | `StatusInv` |
| `SupervisorTypeOK`, `RestartsCapped`, `GivesUpOnlyInBurst` | `SessionProofs` | `SupervisorInv` |
| `LidTypeOK`, `TimersOnlyUndocked` | `SessionProofs` | `LidInv` |

**Tags.** `Inv == TypeOK /\ TagOwnership`. `TypeOK` alone is not inductive: that
`focus_tag` leaves the focused output in range needs the owner of the tag to be an output.
`TagOwnership` is needed whole: `remove_output` hands the tags of the removed output to output 0
and calls `normalize_outputs`, which would assign a free tag to any tagless output; that no
output loses its claim there follows from `TaglessOnlyWhenExhausted`, which makes the
grant empty in every reachable state (the reason `Repair` starts from unreachable ones).
`WmStateProofs` proves once per operator what it preserves (`Keeps`, `SameTags`, `Shows`) and what the larger ones
leave (`Normal`, `WithoutOutput`, `PluggedLast`); `StreamWmProofs` has one lemma per action, and
`NextInv` joins them.

**River's side.** All but six actions only ask for a manage sequence and touch nothing
that river mirrors (`Quiet`); one lemma serves them. `NodesAgree` and `NothingUnapplied`
follow step by step. `FullscreenAgrees` needs to know why a manage sequence never drops the flag of a
window whose tag has no owner as long as nothing was unplugged: windows opened before the first
output wait on tag 0, which that output takes, and other windows are on owned tags
(`WindowsHaveOwners`). `LayerDefaultLives` needs `layer_default_set` to be right at all times, not only
between manage sequences (`DefaultRemembered`). `KeyboardRouted` is about single steps and
follows from `ManageRoutes`.

**Refinement.** In terms of indices, an operator leaves tags and focus alone, lets an output claim
a free tag, shows a tag where it lives, or moves the focus (`Moves`); `repair_outputs` does
nothing, because in every reachable state an output shows a tag it owns. Reading indices as monitors takes
that no monitor is plugged in twice (`Distinct`), which `OutputCreated` keeps. Plugging and unplugging are proved apart: there the
indices shift, and `PluggedIn` without the unplugged monitor is the sequence of the remaining ones.
That an heir may turn to another tag only when it had none of its own is `ShownTagIsOwned` of the state before.

**Repair.** `RepairInv` says which outputs have been dealt with: `work` is `DealtBelow(arg, turn)`, in which
outputs below `turn` and the tags granted to them are as the closed form has them, and all others as they
were. Nothing is dealt before the first turn and everything after the last (`NothingDealt`, `AllDealt`); that
a turn deals with one more output (`TurnDeals`) is the argument that the first tag still free is the one of
the same rank as the output has among the tagless ones (`StillFree`, `FirstFree`), with no induction: a rank
is a cardinality, and that every rank is taken comes from a least counterexample (`RankOnto`). By the same
lemmas a tag stays free only if no output is left without (`NoTagLeft`), which makes `TableRepaired`.
`Enumeration` turns ranks into lists, so a tile belongs to one window and a placement to one layer
(`LayersListed`). `TilingOfArea` holds the sums: the stack's tiles and gaps fit into its height
(`StackSum`), each starts a gap below the one before (`StackSteps`), and a point of the area lies in the tile
found by dividing its distance from the top by a tile and a gap (`LastStepBelow`), or in the last one.
`FloatsOnScreen` and `DialogsReadable` are about single steps, from `ClampedNearest` and `OverlaidReadable`; what
the invariant gives them is types, and that a window is clamped to the output it is managed against.

**Pointer operations.** The checked invariants are inductive together with one fact about
river: a seat that is gone is idle there (`GoneSeatsIdle`), so a seat announced again starts without an operation.

**Status socket.** Each thread's own cell and cursor (`RecordOK`): what was published to a
thread in its loop stays in the cell until it is sent, and nothing in the cell is older than what was
sent before. A subscriber is registered until it takes itself out (`Registered`), so a publish reaches it.
`WorkIsSeen` extends `NoLostWakeup` back to when the window manager emptied the command channel: from
then on no more commands wait than there are threads about to poke it. `NeverRegresses` is a property of
steps, and follows from `RecordOK`.

**Session.** `RestartsCapped` counts restarts, the code counts failures. The two alternate, so restart `i` of the
window follows failure `i + Lead`; the invariant says how far apart the two may be
(`RestartsFollow`), that none of either is forgotten too early (`FailuresRemembered`, `RestartsRemembered`), and
that while the supervisor waits with a full window, the oldest restart leaves it before the delay is over (`RoomInTime`). That
holds because the delay never shrinks as failures add up: when the window is full it is the longest there is.
`TimersOnlyUndocked` is inductive as it stands: `React` arms a timer only where there is an internal panel to recover,
leaves one armed only where there still is, and clears both everywhere else.

Left to TLC:

* Liveness, and with it fairness and enabledness, which the prover cannot express: `Converges`, `ReleasedOpEnds`,
  `ArmedRecoveryEnds`, `ProfileSettles`.
* The five refuted claims, which are false.

## Not modelled

* Master fractions as state (`Layout` takes one) and the rounding of their f64 product, borders and decorations,
  widths beyond 32 bits. `StreamWm` has no rectangles: none of its decisions
  reads them; which output contains the pointer is a free choice.
* What binds keys, buttons and cursor-shape devices to a seat. `StreamWm` has one keyboard
  focus, which every seat is given alike; the seats are in `PointerOps`.
* The hide requests of a manage sequence, which the render sequence supersedes.
* `quit`, spawning, and the end of the connection, but for a worker that ends (`Session`).
  The optional protocols (layer shell, key bindings) are taken to be there.
* Parsing: the configuration, connector names, profile candidates. A tag from the socket
  is a number up to one past the table; its cut from 64 to 32 bits is a hazard without a property.
* `publish` pruning subscribers whose thread is gone: a thread unregisters
  before it drops its receiver, so the branch is not reached while threads do not panic.

## Plan

1. Done: `WmState`, `StreamWm` and its runs, the refinement, `StatusStream`, the two theorems.
2. Done: `PointerOps`; `LidListener`, `Supervisor`, `Session`; `Layout` and `Repair`.
3. Done: the theorems above, `ImplementsGlobalTags` the last of them.
4. Done: `Repair` proved (`RepairProofs`). Every safety property a run checks is now a theorem; what
   could follow are properties for the hazards that have none yet.
