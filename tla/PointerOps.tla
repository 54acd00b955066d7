----------------------------- MODULE PointerOps -----------------------------
(***************************************************************************)
(* Interactive operations: moving and resizing a floating window with the  *)
(* pointer (src/bindings.rs, src/events.rs), and the seats that drive      *)
(* them.  An operation is staged by a handler, started and ended in river  *)
(* by requests of the next manage sequence, and fed by river's op_delta.   *)
(*                                                                         *)
(*   seats     State.seats, in the order river announced them              *)
(*   windows   State.windows, as far as operations read or change them     *)
(*   ops       AppData.pending_op, pointer_op and op_end_requested         *)
(*   river     external: per seat its operation, pointer and cursor;       *)
(*             whether a manage sequence is due                            *)
(*   superseded  history: the seats with an operation in river that        *)
(*             streamwm let go of for one on another seat; no action reads it *)
(*                                                                         *)
(* One axis stands for both.  A position is a small number; a delta may    *)
(* push a window out of its range, up to MaxCoord.                         *)
(***************************************************************************)
EXTENDS Integers, Sequences, FiniteSets, SequencesExt

CONSTANTS SeatIds, None,
          MaxWindows,    \* bound: windows ever opened
          Span,          \* bound: pointer positions are 0 .. Span
          MaxCoord,      \* bound: how far a delta moves an edge
          CellWidth,     \* bound: the width of every tiling cell
          MinSize        \* smallest side a resize leaves, 50 in the code

ASSUME PointerAssumption == /\ None \notin SeatIds \cup Nat
                            /\ MaxWindows \in Nat
                            /\ Span \in Nat
                            /\ MaxCoord \in Nat
                            /\ CellWidth \in Nat
                            /\ MinSize \in Nat \ {0}

VARIABLES seats, windows, ops, river, superseded

pvars == <<seats, windows, ops, river, superseded>>

Positions == 0 .. Span
Coords == -MaxCoord .. MaxCoord
Kinds == {"Move", "Resize"}
Edges == {{}, {"Left"}, {"Right"}}     \* {}: none on this axis
Shapes == {"default", "move", "all", "w", "e"}

SeatType == [id : SeatIds, pointer_window : Nat \cup {None}, pointer_x : Positions]
WindowType == [floating : BOOLEAN, float_x : Int, float_w : Nat]
OpType == {op \in [window : 1 .. MaxWindows, kind : Kinds, edges : Edges, seat : SeatIds,
                   start_x : Positions, start_float_x : Int, start_w : Nat] :
             op.kind = "Move" => op.edges = {}}

RiverSeatType == [op : {"none", "active", "released"}, base : Positions, x : Positions,
                  cursor : Shapes]

LiveSeats == {seats[i].id : i \in DOMAIN seats}
SeatAt(s) == CHOOSE i \in DOMAIN seats : seats[i].id = s
Floating(w) == w \in DOMAIN windows /\ windows[w].floating

\* Window::new, with the sides of a window scaled to the model's.
NewWindow == [floating |-> FALSE, float_x |-> 0, float_w |-> 2 * MinSize]

\* The tiling cell compute_all gives a shown window.
Cell == [float_x |-> 0, float_w |-> CellWidth]

cursor_shape(kind, edges) ==
  CASE kind = "Move"      -> "move"
    [] edges = {"Left"}   -> "w"
    [] edges = {"Right"}  -> "e"
    [] OTHER              -> "all"

-----------------------------------------------------------------------------

NoOps == [pending_op |-> None, pointer_op |-> None, op_end_requested |-> FALSE]

\* river's side of a seat that is not there, or has no operation.
IdleSeat == [op |-> "none", base |-> 0, x |-> 0, cursor |-> "default"]

PointerInit ==
  /\ seats = <<>>
  /\ windows = [w \in {} |-> NewWindow]
  /\ ops = NoOps
  /\ river = [seat |-> [s \in SeatIds |-> IdleSeat], due |-> FALSE, opened |-> 0]
  /\ superseded = {}

\* "This event will be followed by a manage_start event."
ManageFollows == river' = [river EXCEPT !.due = TRUE]

SeatCreated(s) ==
  /\ s \notin LiveSeats
  /\ seats' = Append(seats, [id |-> s, pointer_window |-> None, pointer_x |-> 0])
  /\ ManageFollows
  /\ UNCHANGED <<windows, ops, superseded>>

\* Faulty variant: an operation that is only staged survives its seat.
DropOpsOf_started(s) ==
  LET active == ops.pointer_op # None /\ ops.pointer_op.seat = s
  IN  [ops EXCEPT !.pointer_op = IF active THEN None ELSE @,
                  !.op_end_requested = @ /\ ~active]

\* Faulty variant: the request to end goes with the staged operation, though it
\* was made for one on another seat.
DropOpsOf_end(s) ==
  LET staged == ops.pending_op # None /\ ops.pending_op.seat = s
      active == ops.pointer_op # None /\ ops.pointer_op.seat = s
  IN  [pending_op |-> IF staged THEN None ELSE ops.pending_op,
       pointer_op |-> IF active THEN None ELSE ops.pointer_op,
       op_end_requested |-> ops.op_end_requested /\ ~active /\ ~staged]

\* What SeatEvent::Removed does to the operations of the seat.
DropOpsOf(s) ==
  LET active == ops.pointer_op # None /\ ops.pointer_op.seat = s
      staged == ops.pending_op # None /\ ops.pending_op.seat = s
  IN  [pending_op |-> IF staged THEN None ELSE ops.pending_op,
       pointer_op |-> IF active THEN None ELSE ops.pointer_op,
       op_end_requested |-> ops.op_end_requested /\ ~active]

SeatRemoved(s) ==
  /\ s \in LiveSeats
  /\ ops' = DropOpsOf(s)
  /\ seats' = RemoveAt(seats, SeatAt(s))
  /\ river' = [river EXCEPT !.seat[s] = IdleSeat, !.due = TRUE]
  /\ superseded' = superseded \ {s}
  /\ UNCHANGED windows

\* A window opens; a rule of the application or a parent may float it.
WindowCreated(floats) ==
  /\ river.opened < MaxWindows
  /\ windows' = [w \in DOMAIN windows \cup {river.opened + 1} |->
                   IF w \in DOMAIN windows THEN windows[w]
                   ELSE [NewWindow EXCEPT !.floating = floats]]
  /\ river' = [river EXCEPT !.due = TRUE, !.opened = @ + 1]
  /\ UNCHANGED <<seats, ops, superseded>>

\* Operations and pointer_window keep the id.
WindowClosed(w) ==
  /\ w \in DOMAIN windows
  /\ windows' = [v \in DOMAIN windows \ {w} |-> windows[v]]
  /\ ManageFollows
  /\ UNCHANGED <<seats, ops, superseded>>

\* Seeds the floating rectangle from the tiling cell, if the window has one.
Floated(w, shown) ==
  IF windows[w].floating \/ ~shown THEN [windows[w] EXCEPT !.floating = TRUE]
  ELSE [floating |-> TRUE, float_x |-> Cell.float_x, float_w |-> Cell.float_w]

KeyFloat(w, shown) ==
  /\ w \in DOMAIN windows
  /\ windows' = [windows EXCEPT ![w] =
                   IF @.floating THEN [@ EXCEPT !.floating = FALSE] ELSE Floated(w, shown)]
  /\ ManageFollows
  /\ UNCHANGED <<seats, ops, superseded>>

PointerEnter(s, w) ==
  /\ s \in LiveSeats /\ w \in DOMAIN windows
  /\ seats' = [seats EXCEPT ![SeatAt(s)].pointer_window = w]
  /\ ManageFollows
  /\ UNCHANGED <<windows, ops, superseded>>

PointerLeave(s) ==
  /\ s \in LiveSeats
  /\ seats' = [seats EXCEPT ![SeatAt(s)].pointer_window = None]
  /\ ManageFollows
  /\ UNCHANGED <<windows, ops, superseded>>

\* The pointer moved; that alone starts no manage sequence.
PointerPosition(s, x) ==
  /\ s \in LiveSeats
  /\ seats' = [seats EXCEPT ![SeatAt(s)].pointer_x = x]
  /\ river' = [river EXCEPT !.seat[s].x = x]
  /\ UNCHANGED <<windows, ops, superseded>>

-----------------------------------------------------------------------------
(***************************************************************************)
(* Staging an operation and asking for its end.                            *)
(***************************************************************************)
Staged(rect, w, seat, kind, edges) ==
  [ops EXCEPT !.pending_op =
     [window |-> w, kind |-> kind, edges |-> edges, seat |-> seat.id,
      start_x |-> seat.pointer_x, start_float_x |-> rect.float_x, start_w |-> rect.float_w]]

\* The first seat with a window under its pointer, not the one whose button
\* was pressed; it counts only if that window floats.
PressedSeat ==
  LET over == {i \in DOMAIN seats : seats[i].pointer_window # None}
  IN  {i \in over : Floating(seats[i].pointer_window) /\ \A j \in over : i <= j}

\* Faulty variant: a move drags an edge as well.
BindingEdges_always(kind) == {"Right"}

\* A resize by key and button drags the bottom right corner.
BindingEdges(kind) == IF kind = "Resize" THEN {"Right"} ELSE {}

start_pointer_op(kind) ==
  /\ seats # <<>>
  /\ ops' = IF PressedSeat = {} THEN ops
            ELSE LET seat == seats[CHOOSE i \in PressedSeat : TRUE]
                     w == seat.pointer_window
                 IN  Staged(windows[w], w, seat, kind, BindingEdges(kind))
  /\ ManageFollows
  /\ UNCHANGED <<seats, windows, superseded>>

\* A window asks to be moved or resized, from its title bar say.
start_interactive_op(w, s, kind, edges, shown) ==
  /\ w \in DOMAIN windows /\ s \in LiveSeats
  /\ kind = "Move" => edges = {}
  /\ windows' = [windows EXCEPT ![w] = Floated(w, shown)]
  /\ ops' = Staged(Floated(w, shown), w, seats[SeatAt(s)], kind, edges)
  /\ ManageFollows
  /\ UNCHANGED <<seats, superseded>>

EndRequested ==
  [ops EXCEPT !.op_end_requested = @ \/ ops.pointer_op # None \/ ops.pending_op # None]

\* The bound button of some seat is released.
PointerBindingReleased ==
  /\ seats # <<>>
  /\ ops' = EndRequested
  /\ ManageFollows
  /\ UNCHANGED <<seats, windows, superseded>>

\* The buttons of a seat with an operation in river are all released.
OpRelease(s) ==
  /\ river.seat[s].op = "active"
  /\ ops' = EndRequested
  /\ river' = [river EXCEPT !.seat[s].op = "released", !.due = TRUE]
  /\ UNCHANGED <<seats, windows, superseded>>

Larger(a, b) == IF a > b THEN a ELSE b

Dragged(op, rect, dx) ==
  LET edx == dx - op.start_x
  IN  CASE op.kind = "Move" -> [rect EXCEPT !.float_x = op.start_float_x + edx]
        [] "Left" \in op.edges ->
             [rect EXCEPT !.float_x = op.start_float_x + edx,
                          !.float_w = Larger(op.start_w - edx, MinSize)]
        [] OTHER ->
             [rect EXCEPT !.float_x = op.start_float_x,
                          !.float_w = Larger(op.start_w + edx, MinSize)]

\* apply_pointer_delta: river tells a seat's motion since its operation began;
\* whichever operation streamwm has is fed by it.
OpDelta(s, x) ==
  LET op == ops.pointer_op
      dx == x - river.seat[s].base
  IN  /\ river.seat[s].op # "none"
      /\ windows' = IF op = None \/ op.window \notin DOMAIN windows THEN windows
                    ELSE [windows EXCEPT ![op.window] = Dragged(op, @, dx)]
      /\ \A w \in DOMAIN windows' : {windows'[w].float_x, windows'[w].float_w} \subseteq Coords
      /\ river' = [river EXCEPT !.seat[s].x = x, !.due = TRUE]
      /\ UNCHANGED <<seats, ops, superseded>>

-----------------------------------------------------------------------------
(***************************************************************************)
(* The manage sequence.                                                    *)
(***************************************************************************)
\* river ignores a start on a seat that has an operation already.
RiverStarted(seat, shape) ==
  [seat EXCEPT !.cursor = shape,
               !.op = IF @ = "none" THEN "active" ELSE @,
               !.base = IF seat.op = "none" THEN seat.x ELSE @]

\* Faulty variant: the shape of the operation sticks.
RiverEnded_sticky(seat) == [seat EXCEPT !.op = "none", !.base = 0]

RiverEnded(seat) == [seat EXCEPT !.op = "none", !.base = 0, !.cursor = "default"]

ProcessStart(r) ==
  LET op == ops.pending_op
  IN  IF op = None THEN r
      ELSE [r EXCEPT ![op.seat] = RiverStarted(@, cursor_shape(op.kind, op.edges))]

\* Faulty variant: ends the operation from before the start.
ProcessEnd_previous(r, op) ==
  IF ops.op_end_requested /\ ops.pointer_op # None
    THEN [r EXCEPT ![ops.pointer_op.seat] = RiverEnded(@)] ELSE r

ProcessEnd(r, op) ==
  IF ops.op_end_requested /\ op # None THEN [r EXCEPT ![op.seat] = RiverEnded(@)] ELSE r

\* Starts the staged operation, then ends the one streamwm has by then.
process_pointer_ops ==
  LET op == IF ops.pending_op # None THEN ops.pending_op ELSE ops.pointer_op
      replaced == IF ops.pending_op = None \/ ops.pointer_op = None THEN {}
                  ELSE {ops.pointer_op.seat} \ {ops.pending_op.seat}
  IN  /\ ops' = [NoOps EXCEPT !.pointer_op = IF ops.op_end_requested THEN None ELSE op]
      /\ river' = [river EXCEPT !.due = FALSE, !.seat = ProcessEnd(ProcessStart(@), op)]
      /\ superseded' = {s \in superseded \cup replaced : river'.seat[s].op # "none"}

\* river sends the position of every pointer that moved before manage_start.
ManageStart ==
  /\ river.due
  /\ \A i \in DOMAIN seats : seats[i].pointer_x = river.seat[seats[i].id].x
  /\ process_pointer_ops
  /\ UNCHANGED <<seats, windows>>

PointerNext ==
  \/ \E s \in SeatIds : SeatCreated(s) \/ SeatRemoved(s) \/ PointerLeave(s) \/ OpRelease(s)
  \/ \E floats \in BOOLEAN : WindowCreated(floats)
  \/ \E w \in DOMAIN windows :
       \/ WindowClosed(w)
       \/ \E shown \in BOOLEAN : KeyFloat(w, shown)
       \/ \E s \in SeatIds : PointerEnter(s, w)
       \/ \E s \in SeatIds, kind \in Kinds, edges \in Edges, shown \in BOOLEAN :
            start_interactive_op(w, s, kind, edges, shown)
  \/ \E kind \in Kinds : start_pointer_op(kind)
  \/ PointerBindingReleased
  \/ \E s \in SeatIds, x \in Positions : PointerPosition(s, x) \/ OpDelta(s, x)
  \/ ManageStart

\* river starts the manage sequence it owes, and tells where the pointers are.
PointerFairness ==
  /\ WF_pvars(ManageStart)
  /\ \A s \in SeatIds : WF_pvars(PointerPosition(s, river.seat[s].x))

PointerSpec == PointerInit /\ [][PointerNext]_pvars /\ PointerFairness

-----------------------------------------------------------------------------
(***************************************************************************)
(* Properties.                                                             *)
(***************************************************************************)
\* The type invariant.
PointerTypeOK ==
  /\ seats \in Seq(SeatType)
  /\ \A i, j \in DOMAIN seats : seats[i].id = seats[j].id => i = j
  /\ DOMAIN windows \subseteq 1 .. river.opened
  /\ windows \in [DOMAIN windows -> WindowType]
  /\ ops \in [pending_op : OpType \cup {None}, pointer_op : OpType \cup {None},
              op_end_requested : BOOLEAN]
  /\ river \in [seat : [SeatIds -> RiverSeatType], due : BOOLEAN, opened : 0 .. MaxWindows]
  /\ superseded \subseteq SeatIds

\* "their seat proxy is destroyed below, so a later manage sequence must not
\* drive it": no operation, staged or started, is on a seat that is gone.
OpsOnLiveSeats ==
  \A op \in {ops.pending_op, ops.pointer_op} \ {None} : op.seat \in LiveSeats

\* The operation streamwm feeds is in progress in river, and every operation in
\* progress in river is the one streamwm has, unless one on another seat took
\* its place (process_pointer_ops against op_start_pointer, op_end).
OpsAgree ==
  /\ ops.pointer_op # None => river.seat[ops.pointer_op.seat].op # "none"
  /\ \A s \in LiveSeats \ superseded :
       river.seat[s].op # "none" => ops.pointer_op # None /\ ops.pointer_op.seat = s

\* "Back to the default, or the resize/move shape sticks around": a seat shows
\* the shape of an operation exactly while one is in progress there.
CursorMatchesOp ==
  \A s \in LiveSeats : river.seat[s].cursor = "default" <=> river.seat[s].op = "none"

\* An operation whose buttons are all released ends, unless its seat goes or
\* one on another seat takes its place: the request to end it is not lost among
\* other staged and dropped operations (end_pointer_op, SeatEvent::Removed).
ReleasedOpEnds ==
  \A s \in SeatIds :
    (river.seat[s].op = "released" /\ s \notin superseded)
      ~> (river.seat[s].op # "released" \/ s \in superseded)

\* "Apply a cumulative pointer delta": during a move the window keeps its place
\* under the pointer (refuted: apply_pointer_delta subtracts start_x from a
\* motion that is already counted from the start).
DragFollowsPointer ==
  [][\A s \in SeatIds, x \in Positions :
        LET op == ops.pointer_op
        IN  (/\ OpDelta(s, x)
             /\ op # None /\ op.kind = "Move" /\ op.seat = s /\ op.window \in DOMAIN windows)
            => windows'[op.window].float_x - op.start_float_x = x - river.seat[s].base]_pvars
=============================================================================
