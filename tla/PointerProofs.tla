--------------------------- MODULE PointerProofs ---------------------------
(***************************************************************************)
(* Theorems about PointerOps, for every number of seats and windows and    *)
(* every size of the screen.  The invariants of the run Pointer are        *)
(* inductive together with one fact about river: a seat that is gone is    *)
(* idle there, so that a seat announced later starts without an operation. *)
(***************************************************************************)
EXTENDS PointerOps, SequenceLemmas

-----------------------------------------------------------------------------

\* River keeps nothing of a seat that is gone.
GoneSeatsIdle ==
  \A s \in SeatIds \ LiveSeats : river.seat[s].op = "none" /\ river.seat[s].cursor = "default"

\* The inductive invariant.
PointerInv == PointerTypeOK /\ GoneSeatsIdle /\ OpsOnLiveSeats /\ OpsAgree /\ CursorMatchesOp

\* What the type invariant says of the seats and the operations.
LEMMA SeatFacts ==
  ASSUME PointerTypeOK
  PROVE  /\ Len(seats) \in Nat /\ DOMAIN seats = 1 .. Len(seats)
         /\ \A i \in 1 .. Len(seats) : seats[i] \in SeatType /\ seats[i].id \in LiveSeats
         /\ \A s \in LiveSeats : s \in SeatIds /\ SeatAt(s) \in 1 .. Len(seats)
                                 /\ seats[SeatAt(s)].id = s
<1>1. /\ Len(seats) \in Nat /\ DOMAIN seats = 1 .. Len(seats)
      /\ \A i \in 1 .. Len(seats) : seats[i] \in SeatType
  BY LenProperties, ElementOfSeq DEF PointerTypeOK
<1>2. ASSUME NEW s \in LiveSeats
      PROVE  SeatAt(s) \in 1 .. Len(seats) /\ seats[SeatAt(s)].id = s /\ s \in SeatIds
  <2>1. \E i \in DOMAIN seats : seats[i].id = s
    BY <1>2 DEF LiveSeats
  <2>2. SeatAt(s) \in DOMAIN seats /\ seats[SeatAt(s)].id = s
    BY <2>1 DEF SeatAt
  <2> QED  BY <1>1, <2>2 DEF SeatType
<1> QED  BY <1>1, <1>2 DEF LiveSeats


-----------------------------------------------------------------------------

\* An element of a sequence of seats is replaced, the ids staying as they are.
LEMMA SeatUpdated ==
  ASSUME PointerTypeOK, NEW s \in LiveSeats, NEW seat \in SeatType, seat.id = s,
         seats' = [seats EXCEPT ![SeatAt(s)] = seat]
  PROVE  /\ seats' \in Seq(SeatType)
         /\ \A i, j \in DOMAIN seats' : seats'[i].id = seats'[j].id => i = j
         /\ LiveSeats' = LiveSeats
<1>1. /\ seats' \in Seq(SeatType) /\ Len(seats') = Len(seats)
      /\ \A j \in 1 .. Len(seats) : seats'[j] = IF j = SeatAt(s) THEN seat ELSE seats[j]
  BY SeatFacts, ExceptSeq DEF PointerTypeOK
<1>2. DOMAIN seats' = DOMAIN seats
  BY <1>1, SeatFacts, LenProperties
<1>3. \A j \in DOMAIN seats : seats'[j].id = seats[j].id
  BY <1>1, SeatFacts
<1> QED  BY <1>1, <1>2, <1>3 DEF PointerTypeOK, LiveSeats

\* An action that leaves the seats, their operations and river's cursors alone.
LEMMA Undisturbed ==
  ASSUME GoneSeatsIdle, OpsOnLiveSeats, OpsAgree, CursorMatchesOp, PointerTypeOK,
         LiveSeats' = LiveSeats, superseded' = superseded,
         ops'.pointer_op = ops.pointer_op, ops'.pending_op = ops.pending_op,
         \A s \in SeatIds : /\ river'.seat[s].cursor = river.seat[s].cursor
                            /\ river'.seat[s].op = "none" <=> river.seat[s].op = "none"
  PROVE  GoneSeatsIdle' /\ OpsOnLiveSeats' /\ OpsAgree' /\ CursorMatchesOp'
<1>1. LiveSeats \subseteq SeatIds
  BY SeatFacts
<1>2. ops.pointer_op # None => ops.pointer_op.seat \in SeatIds
  BY DEF PointerTypeOK, OpType
<1>3. GoneSeatsIdle'
  BY DEF GoneSeatsIdle
<1>4. OpsOnLiveSeats'
  BY DEF OpsOnLiveSeats
<1>5. OpsAgree'
  BY <1>1, <1>2 DEF OpsAgree
<1>6. CursorMatchesOp'
  BY <1>1 DEF CursorMatchesOp
<1> QED  BY <1>3, <1>4, <1>5, <1>6

\* river's record of one seat changes.
LEMMA RiverUpdated ==
  ASSUME PointerTypeOK, NEW s \in SeatIds, NEW r \in RiverSeatType, NEW due \in BOOLEAN,
         river' = [river EXCEPT !.seat = [river.seat EXCEPT ![s] = r], !.due = due]
  PROVE  /\ river' \in [seat : [SeatIds -> RiverSeatType], due : BOOLEAN, opened : 0 .. MaxWindows]
         /\ river'.opened = river.opened
         /\ \A q \in SeatIds : river'.seat[q] = IF q = s THEN r ELSE river.seat[q]
<1>1. river \in [seat : [SeatIds -> RiverSeatType], due : BOOLEAN, opened : 0 .. MaxWindows]
  BY DEF PointerTypeOK
<1> DEFINE f == [river.seat EXCEPT ![s] = r]
<1>2. f \in [SeatIds -> RiverSeatType] /\ \A q \in SeatIds : f[q] = IF q = s THEN r ELSE river.seat[q]
  BY <1>1
<1>3. river' = [river EXCEPT !.seat = f, !.due = due]
  OBVIOUS
<1> HIDE DEF f
<1> QED  BY <1>1, <1>2, <1>3

LEMMA SeatCreatedKeeps ==
  ASSUME PointerInv, NEW s \in SeatIds, SeatCreated(s)
  PROVE  PointerInv'
<1> DEFINE seat == [id |-> s, pointer_window |-> None, pointer_x |-> 0]
<1> USE DEF PointerInv
<1>1. seat \in SeatType
  BY PointerAssumption DEF SeatType, Positions
<1>2. /\ seats' \in Seq(SeatType) /\ Len(seats') = Len(seats) + 1
      /\ \A i \in 1 .. Len(seats) : seats'[i] = seats[i]
      /\ seats'[Len(seats) + 1] = seat
  BY <1>1, AppendProperties DEF SeatCreated, PointerTypeOK
<1>3. DOMAIN seats' = 1 .. Len(seats) + 1
  BY <1>2, LenProperties
<1>4. \A i \in 1 .. Len(seats) : seats[i].id # s
  BY SeatFacts DEF SeatCreated
<1>5. LiveSeats' = LiveSeats \cup {s}
  BY <1>2, <1>3, SeatFacts DEF LiveSeats
<1>6. \A i, j \in DOMAIN seats' : seats'[i].id = seats'[j].id => i = j
  BY <1>2, <1>3, <1>4, SeatFacts DEF PointerTypeOK
<1>7. /\ river' = [river EXCEPT !.due = TRUE] /\ windows' = windows /\ ops' = ops
      /\ superseded' = superseded
  BY DEF SeatCreated, ManageFollows
<1>8. river'.seat = river.seat /\ river'.opened = river.opened
      /\ river' \in [seat : [SeatIds -> RiverSeatType], due : BOOLEAN, opened : 0 .. MaxWindows]
  BY <1>7 DEF PointerTypeOK
<1>9. PointerTypeOK'
  BY <1>2, <1>6, <1>7, <1>8 DEF PointerTypeOK
<1>10. GoneSeatsIdle'
  BY <1>5, <1>8 DEF GoneSeatsIdle
<1>11. OpsOnLiveSeats'
  BY <1>5, <1>7 DEF OpsOnLiveSeats
<1>12. OpsAgree'
  BY <1>5, <1>7, <1>8 DEF OpsAgree, GoneSeatsIdle, SeatCreated
<1>13. CursorMatchesOp'
  BY <1>5, <1>8 DEF CursorMatchesOp, GoneSeatsIdle, SeatCreated
<1> QED  BY <1>9, <1>10, <1>11, <1>12, <1>13

LEMMA SeatRemovedKeeps ==
  ASSUME PointerInv, NEW s \in SeatIds, SeatRemoved(s)
  PROVE  PointerInv'
<1> USE DEF PointerInv
<1> DEFINE at == SeatAt(s)
<1>1. at \in 1 .. Len(seats) /\ seats[at].id = s /\ Len(seats) \in Nat
  BY SeatFacts DEF SeatRemoved
<1>2. /\ seats' \in Seq(SeatType) /\ Len(seats') = Len(seats) - 1
      /\ \A j \in 1 .. Len(seats) - 1 : seats'[j] = IF j < at THEN seats[j] ELSE seats[j + 1]
  BY <1>1, Removal DEF SeatRemoved, PointerTypeOK
<1>3. DOMAIN seats' = 1 .. Len(seats) - 1
  BY <1>2, LenProperties
<1>4. \A i, j \in DOMAIN seats' : seats'[i].id = seats'[j].id => i = j
  <2> SUFFICES ASSUME NEW i \in DOMAIN seats', NEW j \in DOMAIN seats', seats'[i].id = seats'[j].id
               PROVE  i = j
    OBVIOUS
  <2> DEFINE k(n) == IF n < at THEN n ELSE n + 1
  <2>1. k(i) \in DOMAIN seats /\ k(j) \in DOMAIN seats
    BY <1>1, <1>3, SeatFacts
  <2>2. seats'[i] = seats[k(i)] /\ seats'[j] = seats[k(j)]
    BY <1>2, <1>3
  <2>3. k(i) = k(j)
    BY <2>1, <2>2 DEF PointerTypeOK
  <2> QED  BY <1>1, <1>3, <2>3
<1>5. LiveSeats' = LiveSeats \ {s}
  <2>1. ASSUME NEW j \in DOMAIN seats' PROVE seats'[j].id \in LiveSeats \ {s}
    <3> DEFINE k == IF j < at THEN j ELSE j + 1
    <3>1. k \in DOMAIN seats /\ k # at /\ seats'[j] = seats[k]
      BY <1>1, <1>2, <1>3, SeatFacts
    <3>2. seats[k].id # seats[at].id
      BY <1>1, <3>1, SeatFacts DEF PointerTypeOK
    <3> QED  BY <1>1, <3>1, <3>2 DEF LiveSeats
  <2>2. ASSUME NEW r \in LiveSeats, r # s PROVE \E j \in DOMAIN seats' : seats'[j].id = r
    <3>1. PICK k \in DOMAIN seats : seats[k].id = r
      BY DEF LiveSeats
    <3>2. k # at /\ k \in 1 .. Len(seats)
      BY <1>1, <2>2, <3>1, SeatFacts
    <3>3. CASE k < at
      BY <1>1, <1>2, <1>3, <3>1, <3>2, <3>3
    <3>4. CASE ~(k < at)
      <4>1. k - 1 \in 1 .. Len(seats) - 1 /\ ~(k - 1 < at) /\ (k - 1) + 1 = k
        BY <1>1, <3>2, <3>4
      <4> QED  BY <1>2, <1>3, <3>1, <4>1
    <3> QED  BY <3>3, <3>4
  <2>3. LiveSeats' \subseteq LiveSeats \ {s}
    BY <2>1 DEF LiveSeats
  <2>4. LiveSeats \ {s} \subseteq LiveSeats'
    BY <2>2 DEF LiveSeats
  <2> QED  BY <2>3, <2>4
<1>6. /\ windows' = windows /\ ops' = DropOpsOf(s) /\ superseded' = superseded \ {s}
      /\ river' = [river EXCEPT !.seat[s] = IdleSeat, !.due = TRUE]
  BY DEF SeatRemoved
<1>7. /\ river'.seat = [river.seat EXCEPT ![s] = IdleSeat] /\ river'.opened = river.opened
      /\ river' \in [seat : [SeatIds -> RiverSeatType], due : BOOLEAN, opened : 0 .. MaxWindows]
  <2>1. IdleSeat \in RiverSeatType
    BY PointerAssumption DEF IdleSeat, RiverSeatType, Positions, Shapes
  <2> QED  BY <1>6, <2>1 DEF PointerTypeOK
<1>8. /\ ops' \in [pending_op : OpType \cup {None}, pointer_op : OpType \cup {None},
                   op_end_requested : BOOLEAN]
      /\ ops'.pending_op # None => ops'.pending_op = ops.pending_op /\ ops.pending_op.seat # s
      /\ ops'.pointer_op # None => ops'.pointer_op = ops.pointer_op /\ ops.pointer_op.seat # s
      /\ ops.pointer_op # None /\ ops.pointer_op.seat # s => ops'.pointer_op = ops.pointer_op
  BY <1>6 DEF PointerTypeOK, DropOpsOf
<1>9. PointerTypeOK'
  BY <1>2, <1>4, <1>6, <1>7, <1>8 DEF PointerTypeOK
<1>10. \A r \in SeatIds : river'.seat[r] = IF r = s THEN IdleSeat ELSE river.seat[r]
  BY <1>7 DEF PointerTypeOK
<1>11. GoneSeatsIdle'
  BY <1>5, <1>10 DEF GoneSeatsIdle, IdleSeat
<1>12. OpsOnLiveSeats'
  BY <1>5, <1>8 DEF OpsOnLiveSeats
<1>13. OpsAgree'
  <2>1. ops'.pointer_op # None => river'.seat[ops'.pointer_op.seat].op # "none"
    <3>1. ops.pointer_op # None => ops.pointer_op.seat \in SeatIds
      BY DEF PointerTypeOK, OpType
    <3> QED  BY <1>8, <1>10, <3>1 DEF OpsAgree
  <2>2. ASSUME NEW r \in (LiveSeats \ superseded)', river'.seat[r].op # "none"
        PROVE  ops'.pointer_op # None /\ ops'.pointer_op.seat = r
    BY <1>5, <1>6, <1>8, <1>10, <2>2, SeatFacts DEF OpsAgree
  <2> QED  BY <2>1, <2>2 DEF OpsAgree
<1>14. CursorMatchesOp'
  BY <1>5, <1>10, SeatFacts DEF CursorMatchesOp
<1> QED  BY <1>9, <1>11, <1>12, <1>13, <1>14

\* A window opens, closes, or changes: a set of known windows, each of its type.
LEMMA WindowsChange ==
  ASSUME PointerInv, UNCHANGED <<seats, ops, superseded>>,
         river' \in [seat : [SeatIds -> RiverSeatType], due : BOOLEAN, opened : 0 .. MaxWindows],
         river'.seat = river.seat,
         DOMAIN windows' \subseteq 1 .. river'.opened,
         windows' \in [DOMAIN windows' -> WindowType]
  PROVE  PointerInv'
<1> USE DEF PointerInv
<1>1. PointerTypeOK'
  BY DEF PointerTypeOK
<1>2. LiveSeats' = LiveSeats
  BY DEF LiveSeats
<1> QED  BY <1>1, <1>2, Undisturbed

LEMMA ManageFollowsType ==
  ASSUME PointerTypeOK, ManageFollows
  PROVE  /\ river' \in [seat : [SeatIds -> RiverSeatType], due : BOOLEAN, opened : 0 .. MaxWindows]
         /\ river'.seat = river.seat /\ river'.opened = river.opened
BY DEF PointerTypeOK, ManageFollows

LEMMA WindowCreatedKeeps ==
  ASSUME PointerInv, NEW floats \in BOOLEAN, WindowCreated(floats)
  PROVE  PointerInv'
<1> DEFINE n == river.opened + 1
           new == [NewWindow EXCEPT !.floating = floats]
<1>1. PointerTypeOK
  BY DEF PointerInv
<1>2. new \in WindowType
  BY PointerAssumption DEF NewWindow, WindowType
<1>3. n \in 1 .. MaxWindows
  BY <1>1, PointerAssumption DEF PointerTypeOK, WindowCreated
<1>4. /\ river' \in [seat : [SeatIds -> RiverSeatType], due : BOOLEAN, opened : 0 .. MaxWindows]
      /\ river'.seat = river.seat /\ river'.opened = n
  <2>1. river \in [seat : [SeatIds -> RiverSeatType], due : BOOLEAN, opened : 0 .. MaxWindows]
    BY <1>1 DEF PointerTypeOK
  <2>2. river' = [river EXCEPT !.due = TRUE, !.opened = n]
    BY DEF WindowCreated
  <2>3. n \in 0 .. MaxWindows
    BY <1>3
  <2> HIDE DEF n
  <2> QED  BY <2>1, <2>2, <2>3
<1> HIDE DEF new
<1>5. windows' = [w \in DOMAIN windows \cup {n} |-> IF w \in DOMAIN windows THEN windows[w] ELSE new]
  BY DEF WindowCreated, new
<1>6. windows' \in [DOMAIN windows' -> WindowType]
  BY <1>1, <1>2, <1>5 DEF PointerTypeOK
<1>7. DOMAIN windows' \subseteq 1 .. river'.opened
  BY <1>1, <1>3, <1>4, <1>5 DEF PointerTypeOK
<1> QED  BY <1>4, <1>6, <1>7, WindowsChange DEF WindowCreated

LEMMA WindowClosedKeeps ==
  ASSUME PointerInv, NEW w \in DOMAIN windows, WindowClosed(w)
  PROVE  PointerInv'
<1>1. PointerTypeOK /\ ManageFollows
  BY DEF PointerInv, WindowClosed
<1>2. windows' \in [DOMAIN windows' -> WindowType] /\ DOMAIN windows' \subseteq DOMAIN windows
  BY <1>1 DEF WindowClosed, PointerTypeOK
<1>3. DOMAIN windows' \subseteq 1 .. river'.opened
  BY <1>1, <1>2, ManageFollowsType DEF PointerTypeOK
<1> QED  BY <1>1, <1>2, <1>3, ManageFollowsType, WindowsChange DEF WindowClosed

LEMMA FloatedType ==
  ASSUME PointerTypeOK, NEW w \in DOMAIN windows, NEW shown \in BOOLEAN
  PROVE  Floated(w, shown) \in WindowType
<1>1. windows[w] \in WindowType
  BY DEF PointerTypeOK
<1>2. [windows[w] EXCEPT !.floating = TRUE] \in WindowType
  BY <1>1 DEF WindowType
<1>3. [floating |-> TRUE, float_x |-> Cell.float_x, float_w |-> Cell.float_w] \in WindowType
  BY PointerAssumption DEF Cell, WindowType
<1> QED  BY <1>2, <1>3 DEF Floated

LEMMA KeyFloatKeeps ==
  ASSUME PointerInv, NEW w \in DOMAIN windows, NEW shown \in BOOLEAN, KeyFloat(w, shown)
  PROVE  PointerInv'
<1>1. PointerTypeOK /\ ManageFollows
  BY DEF PointerInv, KeyFloat
<1> DEFINE toggled == IF windows[w].floating THEN [windows[w] EXCEPT !.floating = FALSE]
                      ELSE Floated(w, shown)
<1>2. toggled \in WindowType
  BY <1>1, FloatedType DEF PointerTypeOK, WindowType
<1>3. windows' = [windows EXCEPT ![w] = toggled]
  BY <1>1 DEF KeyFloat, PointerTypeOK
<1> HIDE DEF toggled
<1>4. windows' \in [DOMAIN windows' -> WindowType] /\ DOMAIN windows' = DOMAIN windows
  BY <1>1, <1>2, <1>3 DEF PointerTypeOK
<1>5. DOMAIN windows' \subseteq 1 .. river'.opened
  BY <1>1, <1>4, ManageFollowsType DEF PointerTypeOK
<1> QED  BY <1>1, <1>4, <1>5, ManageFollowsType, WindowsChange DEF KeyFloat

\* A seat's record changes, and nothing of the operations.
LEMMA PointerMoves ==
  ASSUME PointerInv, NEW s \in LiveSeats, NEW seat \in SeatType, seat.id = s,
         seats' = [seats EXCEPT ![SeatAt(s)] = seat],
         UNCHANGED <<windows, ops, superseded>>,
         river' \in [seat : [SeatIds -> RiverSeatType], due : BOOLEAN, opened : 0 .. MaxWindows],
         river'.opened = river.opened,
         \A r \in SeatIds : /\ river'.seat[r].cursor = river.seat[r].cursor
                            /\ river'.seat[r].op = river.seat[r].op
  PROVE  PointerInv'
<1> USE DEF PointerInv
<1>1. /\ seats' \in Seq(SeatType) /\ LiveSeats' = LiveSeats
      /\ \A i, j \in DOMAIN seats' : seats'[i].id = seats'[j].id => i = j
  BY SeatUpdated
<1>2. PointerTypeOK'
  BY <1>1 DEF PointerTypeOK
<1>3. GoneSeatsIdle' /\ OpsOnLiveSeats' /\ OpsAgree' /\ CursorMatchesOp'
  BY <1>1, Undisturbed
<1> QED  BY <1>2, <1>3

LEMMA PointerEnterKeeps ==
  ASSUME PointerInv, NEW s \in SeatIds, NEW w \in DOMAIN windows, PointerEnter(s, w)
  PROVE  PointerInv'
<1>1. PointerTypeOK /\ ManageFollows /\ s \in LiveSeats
  BY DEF PointerInv, PointerEnter
<1> DEFINE seat == [seats[SeatAt(s)] EXCEPT !.pointer_window = w]
<1>2. SeatAt(s) \in DOMAIN seats /\ seats[SeatAt(s)] \in SeatType /\ seats[SeatAt(s)].id = s
  BY <1>1, SeatFacts
<1>3. w \in Nat
  BY <1>1, PointerAssumption DEF PointerTypeOK
<1>4. seat \in SeatType /\ seat.id = s
  BY <1>2, <1>3 DEF SeatType
<1>5. seats' = [seats EXCEPT ![SeatAt(s)] = seat]
  BY <1>2 DEF PointerEnter
<1> QED  BY <1>1, <1>4, <1>5, ManageFollowsType, PointerMoves DEF PointerEnter

LEMMA PointerLeaveKeeps ==
  ASSUME PointerInv, NEW s \in SeatIds, PointerLeave(s)
  PROVE  PointerInv'
<1>1. PointerTypeOK /\ ManageFollows /\ s \in LiveSeats
  BY DEF PointerInv, PointerLeave
<1> DEFINE seat == [seats[SeatAt(s)] EXCEPT !.pointer_window = None]
<1>2. SeatAt(s) \in DOMAIN seats /\ seats[SeatAt(s)] \in SeatType /\ seats[SeatAt(s)].id = s
  BY <1>1, SeatFacts
<1>3. seat \in SeatType /\ seat.id = s
  BY <1>2 DEF SeatType
<1>4. seats' = [seats EXCEPT ![SeatAt(s)] = seat]
  BY <1>2 DEF PointerLeave
<1> QED  BY <1>1, <1>3, <1>4, ManageFollowsType, PointerMoves DEF PointerLeave

\* Only the position of a pointer changes in river, and perhaps due.
LEMMA PointerMoved ==
  ASSUME PointerTypeOK, NEW s \in SeatIds, NEW x \in Positions,
         \/ river' = [river EXCEPT !.seat[s].x = x]
         \/ river' = [river EXCEPT !.seat[s].x = x, !.due = TRUE]
  PROVE  /\ river' \in [seat : [SeatIds -> RiverSeatType], due : BOOLEAN, opened : 0 .. MaxWindows]
         /\ river'.opened = river.opened
         /\ \A q \in SeatIds : /\ river'.seat[q].cursor = river.seat[q].cursor
                               /\ river'.seat[q].op = river.seat[q].op
<1> DEFINE new == [river.seat[s] EXCEPT !.x = x]
<1>1. river.seat[s] \in RiverSeatType
  BY DEF PointerTypeOK
<1>2. /\ new \in RiverSeatType /\ new.cursor = river.seat[s].cursor
      /\ new.op = river.seat[s].op
  BY <1>1 DEF RiverSeatType
<1>3. PICK due \in BOOLEAN :
        river' = [river EXCEPT !.seat = [river.seat EXCEPT ![s] = new], !.due = due]
  <2>1. river \in [seat : [SeatIds -> RiverSeatType], due : BOOLEAN, opened : 0 .. MaxWindows]
    BY DEF PointerTypeOK
  <2>2. CASE river' = [river EXCEPT !.seat[s].x = x]
    <3>1. river' = [river EXCEPT !.seat = [river.seat EXCEPT ![s] = new], !.due = river.due]
      BY <2>1, <2>2
    <3> QED  BY <2>1, <3>1
  <2>3. CASE river' = [river EXCEPT !.seat[s].x = x, !.due = TRUE]
    BY <2>1, <2>3
  <2> QED  BY <2>2, <2>3
<1> HIDE DEF new
<1>4. /\ river' \in [seat : [SeatIds -> RiverSeatType], due : BOOLEAN, opened : 0 .. MaxWindows]
      /\ river'.opened = river.opened
      /\ \A q \in SeatIds : river'.seat[q] = IF q = s THEN new ELSE river.seat[q]
  BY <1>2, <1>3, RiverUpdated
<1> QED  BY <1>2, <1>4

LEMMA PointerPositionKeeps ==
  ASSUME PointerInv, NEW s \in SeatIds, NEW x \in Positions, PointerPosition(s, x)
  PROVE  PointerInv'
<1>1. PointerTypeOK /\ s \in LiveSeats
  BY DEF PointerInv, PointerPosition
<1> DEFINE seat == [seats[SeatAt(s)] EXCEPT !.pointer_x = x]
<1>2. SeatAt(s) \in DOMAIN seats /\ seats[SeatAt(s)] \in SeatType /\ seats[SeatAt(s)].id = s
  BY <1>1, SeatFacts
<1>3. seat \in SeatType /\ seat.id = s
  BY <1>2 DEF SeatType
<1>4. seats' = [seats EXCEPT ![SeatAt(s)] = seat]
  BY <1>2 DEF PointerPosition
<1>5. /\ river' \in [seat : [SeatIds -> RiverSeatType], due : BOOLEAN, opened : 0 .. MaxWindows]
      /\ river'.opened = river.opened
      /\ \A q \in SeatIds : /\ river'.seat[q].cursor = river.seat[q].cursor
                            /\ river'.seat[q].op = river.seat[q].op
  BY <1>1, PointerMoved DEF PointerPosition
<1> QED  BY <1>1, <1>3, <1>4, <1>5, PointerMoves DEF PointerPosition

-----------------------------------------------------------------------------

\* An operation is staged on a live seat.
LEMMA StagedType ==
  ASSUME PointerTypeOK, NEW seat \in SeatType, NEW w \in DOMAIN windows, NEW rect \in WindowType,
         NEW kind \in Kinds, NEW edges \in Edges, kind = "Move" => edges = {}
  PROVE  /\ Staged(rect, w, seat, kind, edges)
              \in [pending_op : OpType \cup {None}, pointer_op : OpType \cup {None},
                   op_end_requested : BOOLEAN]
         /\ Staged(rect, w, seat, kind, edges).pointer_op = ops.pointer_op
         /\ Staged(rect, w, seat, kind, edges).pending_op.seat = seat.id
<1> DEFINE op == [window |-> w, kind |-> kind, edges |-> edges, seat |-> seat.id,
                  start_x |-> seat.pointer_x, start_float_x |-> rect.float_x,
                  start_w |-> rect.float_w]
<1>1. w \in 1 .. MaxWindows
  BY PointerAssumption DEF PointerTypeOK
<1>2. op \in OpType
  BY <1>1 DEF OpType, SeatType, WindowType
<1>3. Staged(rect, w, seat, kind, edges) = [ops EXCEPT !.pending_op = op]
  BY DEF Staged
<1>4. op.seat = seat.id
  OBVIOUS
<1> HIDE DEF op
<1> QED  BY <1>2, <1>3, <1>4 DEF PointerTypeOK

\* What a handler that only stages or only asks for the end leaves in place.
LEMMA OpsChange ==
  ASSUME PointerInv, UNCHANGED <<seats, superseded>>,
         river' \in [seat : [SeatIds -> RiverSeatType], due : BOOLEAN, opened : 0 .. MaxWindows],
         river'.opened = river.opened,
         \A s \in SeatIds : /\ river'.seat[s].cursor = river.seat[s].cursor
                            /\ river'.seat[s].op = "none" <=> river.seat[s].op = "none",
         DOMAIN windows' = DOMAIN windows, windows' \in [DOMAIN windows' -> WindowType],
         ops' \in [pending_op : OpType \cup {None}, pointer_op : OpType \cup {None},
                   op_end_requested : BOOLEAN],
         ops'.pointer_op = ops.pointer_op,
         ops'.pending_op # None => ops'.pending_op.seat \in LiveSeats
  PROVE  PointerInv'
<1> USE DEF PointerInv
<1>1. PointerTypeOK'
  BY DEF PointerTypeOK
<1>2. LiveSeats' = LiveSeats /\ LiveSeats \subseteq SeatIds
  BY SeatFacts DEF LiveSeats
<1>3. GoneSeatsIdle'
  BY <1>2 DEF GoneSeatsIdle
<1>4. OpsOnLiveSeats'
  BY <1>2 DEF OpsOnLiveSeats
<1>5. OpsAgree'
  <2>1. ops.pointer_op # None => ops.pointer_op.seat \in SeatIds
    BY DEF PointerTypeOK, OpType
  <2> QED  BY <1>2, <2>1 DEF OpsAgree
<1>6. CursorMatchesOp'
  BY <1>2 DEF CursorMatchesOp
<1> QED  BY <1>1, <1>3, <1>4, <1>5, <1>6

LEMMA StartPointerOpKeeps ==
  ASSUME PointerInv, NEW kind \in Kinds, start_pointer_op(kind)
  PROVE  PointerInv'
<1>1. PointerTypeOK /\ ManageFollows
  BY DEF PointerInv, start_pointer_op
<1>2. CASE PressedSeat = {}
  BY <1>1, <1>2, ManageFollowsType, OpsChange
     DEF start_pointer_op, PointerInv, PointerTypeOK, OpsOnLiveSeats
<1>3. CASE PressedSeat # {}
  <2> DEFINE i == CHOOSE i \in PressedSeat : TRUE
             w == seats[i].pointer_window
  <2>1. i \in PressedSeat
    BY <1>3
  <2> HIDE DEF i
  <2>2. i \in 1 .. Len(seats) /\ w \in DOMAIN windows
    BY <1>1, <2>1, SeatFacts DEF PressedSeat, Floating
  <2>3. seats[i] \in SeatType /\ seats[i].id \in LiveSeats
    BY <1>1, <2>2, SeatFacts
  <2>4. ops' = Staged(windows[w], w, seats[i], kind, BindingEdges(kind))
    BY <1>3 DEF start_pointer_op, i
  <2>5. BindingEdges(kind) \in Edges /\ (kind = "Move" => BindingEdges(kind) = {})
    BY DEF BindingEdges, Edges
  <2>6. windows[w] \in WindowType
    BY <1>1, <2>2 DEF PointerTypeOK
  <2>7. /\ ops' \in [pending_op : OpType \cup {None}, pointer_op : OpType \cup {None},
                     op_end_requested : BOOLEAN]
        /\ ops'.pointer_op = ops.pointer_op /\ ops'.pending_op.seat = seats[i].id
    BY <1>1, <2>2, <2>3, <2>4, <2>5, <2>6, StagedType
  <2> QED  BY <1>1, <2>3, <2>7, ManageFollowsType, OpsChange DEF start_pointer_op, PointerTypeOK
<1> QED  BY <1>2, <1>3

LEMMA StartInteractiveOpKeeps ==
  ASSUME PointerInv, NEW w \in DOMAIN windows, NEW s \in SeatIds, NEW kind \in Kinds,
         NEW edges \in Edges, NEW shown \in BOOLEAN,
         start_interactive_op(w, s, kind, edges, shown)
  PROVE  PointerInv'
<1>1. PointerTypeOK /\ ManageFollows /\ s \in LiveSeats
  BY DEF PointerInv, start_interactive_op
<1>2. Floated(w, shown) \in WindowType
  BY <1>1, FloatedType
<1>3. seats[SeatAt(s)] \in SeatType /\ seats[SeatAt(s)].id = s
  BY <1>1, SeatFacts
<1>4. /\ ops' \in [pending_op : OpType \cup {None}, pointer_op : OpType \cup {None},
                   op_end_requested : BOOLEAN]
      /\ ops'.pointer_op = ops.pointer_op /\ ops'.pending_op.seat = s
  BY <1>1, <1>2, <1>3, StagedType DEF start_interactive_op
<1>5. DOMAIN windows' = DOMAIN windows /\ windows' \in [DOMAIN windows' -> WindowType]
  BY <1>1, <1>2 DEF start_interactive_op, PointerTypeOK
<1> QED  BY <1>1, <1>4, <1>5, ManageFollowsType, OpsChange DEF start_interactive_op

LEMMA EndRequestedType ==
  ASSUME PointerInv
  PROVE  /\ EndRequested \in [pending_op : OpType \cup {None}, pointer_op : OpType \cup {None},
                              op_end_requested : BOOLEAN]
         /\ EndRequested.pointer_op = ops.pointer_op
         /\ EndRequested.pending_op # None => EndRequested.pending_op.seat \in LiveSeats
BY DEF PointerInv, PointerTypeOK, EndRequested, OpsOnLiveSeats

LEMMA PointerBindingReleasedKeeps ==
  ASSUME PointerInv, PointerBindingReleased
  PROVE  PointerInv'
<1>1. PointerTypeOK /\ ManageFollows
  BY DEF PointerInv, PointerBindingReleased
<1>2. windows' = windows /\ ops' = EndRequested /\ UNCHANGED <<seats, superseded>>
  BY DEF PointerBindingReleased
<1> QED  BY <1>1, <1>2, EndRequestedType, ManageFollowsType, OpsChange DEF PointerTypeOK

LEMMA OpReleaseKeeps ==
  ASSUME PointerInv, NEW s \in SeatIds, OpRelease(s)
  PROVE  PointerInv'
<1>1. PointerTypeOK
  BY DEF PointerInv
<1>2. windows' = windows /\ ops' = EndRequested /\ UNCHANGED <<seats, superseded>>
  BY DEF OpRelease
<1> DEFINE new == [river.seat[s] EXCEPT !.op = "released"]
<1>3. river.seat[s] \in RiverSeatType
  BY <1>1 DEF PointerTypeOK
<1>4. new \in RiverSeatType /\ new.cursor = river.seat[s].cursor /\ new.op = "released"
  BY <1>3 DEF RiverSeatType
<1>5. river' = [river EXCEPT !.seat = [river.seat EXCEPT ![s] = new], !.due = TRUE]
  BY <1>1 DEF OpRelease, PointerTypeOK
<1> HIDE DEF new
<1>6. /\ river' \in [seat : [SeatIds -> RiverSeatType], due : BOOLEAN, opened : 0 .. MaxWindows]
      /\ river'.opened = river.opened
      /\ \A q \in SeatIds : river'.seat[q] = IF q = s THEN new ELSE river.seat[q]
  BY <1>1, <1>4, <1>5, RiverUpdated
<1>7. \A q \in SeatIds : /\ river'.seat[q].cursor = river.seat[q].cursor
                         /\ river'.seat[q].op = "none" <=> river.seat[q].op = "none"
  BY <1>4, <1>6 DEF OpRelease
<1> QED  BY <1>1, <1>2, <1>6, <1>7, EndRequestedType, OpsChange DEF PointerTypeOK

LEMMA DraggedType ==
  ASSUME NEW op \in OpType, NEW rect \in WindowType, NEW dx \in Int
  PROVE  Dragged(op, rect, dx) \in WindowType
<1>1. op.start_x \in Int /\ op.start_float_x \in Int /\ op.start_w \in Nat
  BY PointerAssumption DEF OpType, Positions
<1> DEFINE edx == dx - op.start_x
<1>2. edx \in Int /\ Larger(op.start_w - edx, MinSize) \in Nat /\ Larger(op.start_w + edx, MinSize) \in Nat
  BY <1>1, PointerAssumption DEF Larger
<1> HIDE DEF edx
<1>3. \A a \in Int, b \in Nat : /\ [rect EXCEPT !.float_x = a] \in WindowType
                                /\ [rect EXCEPT !.float_x = a, !.float_w = b] \in WindowType
  BY DEF WindowType
<1>4. \/ Dragged(op, rect, dx) = [rect EXCEPT !.float_x = op.start_float_x + edx]
      \/ Dragged(op, rect, dx) = [rect EXCEPT !.float_x = op.start_float_x + edx,
                                              !.float_w = Larger(op.start_w - edx, MinSize)]
      \/ Dragged(op, rect, dx) = [rect EXCEPT !.float_x = op.start_float_x,
                                              !.float_w = Larger(op.start_w + edx, MinSize)]
  BY DEF Dragged, edx
<1>5. op.start_float_x + edx \in Int
  BY <1>1, <1>2
<1> QED  BY <1>1, <1>2, <1>3, <1>4, <1>5

LEMMA OpDeltaKeeps ==
  ASSUME PointerInv, NEW s \in SeatIds, NEW x \in Positions, OpDelta(s, x)
  PROVE  PointerInv'
<1>1. PointerTypeOK
  BY DEF PointerInv
<1>2. UNCHANGED <<seats, ops, superseded>> /\ river' = [river EXCEPT !.seat[s].x = x, !.due = TRUE]
  BY DEF OpDelta
<1>3. /\ river' \in [seat : [SeatIds -> RiverSeatType], due : BOOLEAN, opened : 0 .. MaxWindows]
      /\ river'.opened = river.opened
      /\ \A q \in SeatIds : /\ river'.seat[q].cursor = river.seat[q].cursor
                            /\ river'.seat[q].op = river.seat[q].op
  BY <1>1, <1>2, PointerMoved
<1>4. DOMAIN windows' = DOMAIN windows /\ windows' \in [DOMAIN windows' -> WindowType]
  <2> DEFINE op == ops.pointer_op
             dx == x - river.seat[s].base
  <2>1. CASE op = None \/ op.window \notin DOMAIN windows
    BY <1>1, <2>1 DEF OpDelta, PointerTypeOK
  <2>2. CASE ~(op = None \/ op.window \notin DOMAIN windows)
    <3>1. dx \in Int
      <4>1. river.seat[s].base \in Positions
        BY <1>1 DEF PointerTypeOK, RiverSeatType
      <4> QED  BY <4>1, PointerAssumption DEF Positions
    <3>2. op \in OpType /\ windows[op.window] \in WindowType
      BY <1>1, <2>2 DEF PointerTypeOK
    <3>3. Dragged(op, windows[op.window], dx) \in WindowType
      BY <3>1, <3>2, DraggedType
    <3>4. windows' = [windows EXCEPT ![op.window] = Dragged(op, windows[op.window], dx)]
      BY <2>2 DEF OpDelta
    <3> QED  BY <1>1, <2>2, <3>3, <3>4 DEF PointerTypeOK
  <2> QED  BY <2>1, <2>2
<1> QED  BY <1>1, <1>2, <1>3, <1>4, OpsChange DEF PointerInv, PointerTypeOK, OpsOnLiveSeats

-----------------------------------------------------------------------------

\* The requests of a manage sequence, as river carries them out on each seat.
LEMMA OpsProcessed ==
  ASSUME PointerInv, ManageStart, NEW op,
         op = IF ops.pending_op # None THEN ops.pending_op ELSE ops.pointer_op
  PROVE  /\ op # None => op \in OpType /\ op.seat \in LiveSeats
         /\ river' \in [seat : [SeatIds -> RiverSeatType], due : BOOLEAN, opened : 0 .. MaxWindows]
         /\ river'.opened = river.opened
         /\ \A s \in SeatIds :
              IF op # None /\ op.seat = s
                THEN IF ops.op_end_requested
                       THEN river'.seat[s].op = "none" /\ river'.seat[s].cursor = "default"
                       ELSE river'.seat[s].op # "none" /\ river'.seat[s].cursor # "default"
                ELSE river'.seat[s] = river.seat[s]
<1> USE DEF PointerInv
<1> DEFINE started == ProcessStart(river.seat)
           ended == ProcessEnd(started, op)
<1>1. op # None => op \in OpType /\ op.seat \in LiveSeats
  BY DEF PointerTypeOK, OpsOnLiveSeats
<1>2. river \in [seat : [SeatIds -> RiverSeatType], due : BOOLEAN, opened : 0 .. MaxWindows]
  BY DEF PointerTypeOK
<1>3. op # None => op.seat \in SeatIds /\ cursor_shape(op.kind, op.edges) \in Shapes \ {"default"}
  BY <1>1 DEF OpType, Kinds, Edges, cursor_shape, Shapes
<1>4. /\ started \in [SeatIds -> RiverSeatType]
      /\ \A s \in SeatIds : ~(op # None /\ op.seat = s) => started[s] = river.seat[s]
      /\ op # None => started[op.seat].op # "none" /\ started[op.seat].cursor # "default"
  <2>1. CASE ops.pending_op = None
    <3>1. started = river.seat
      BY <2>1 DEF ProcessStart
    <3>2. op # None => river.seat[op.seat].op # "none"
      BY <2>1 DEF OpsAgree
    <3> QED  BY <1>1, <1>2, <3>1, <3>2 DEF CursorMatchesOp
  <2>2. CASE ops.pending_op # None
    <3> DEFINE shape == cursor_shape(op.kind, op.edges)
               new == RiverStarted(river.seat[op.seat], shape)
    <3>1. op = ops.pending_op
      BY <2>2
    <3>2. river.seat[op.seat] \in RiverSeatType
      BY <1>2, <1>3, <2>2, <3>1
    <3>3. new \in RiverSeatType /\ new.op # "none" /\ new.cursor = shape
      BY <1>3, <2>2, <3>1, <3>2 DEF RiverStarted, RiverSeatType
    <3>4. started = [river.seat EXCEPT ![op.seat] = new]
      BY <1>2, <1>3, <2>2, <3>1 DEF ProcessStart
    <3> HIDE DEF new
    <3> QED  BY <1>2, <1>3, <2>2, <3>1, <3>3, <3>4
  <2> QED  BY <2>1, <2>2
<1> HIDE DEF started
<1>5. /\ ended \in [SeatIds -> RiverSeatType]
      /\ \A s \in SeatIds :
           ended[s] = IF op # None /\ op.seat = s /\ ops.op_end_requested
                        THEN RiverEnded(started[s]) ELSE started[s]
  <2>1. \A s \in SeatIds : RiverEnded(started[s]) \in RiverSeatType
    <3>1. \A q \in RiverSeatType : RiverEnded(q) \in RiverSeatType
      <4>1. 0 \in Positions /\ "default" \in Shapes
        BY PointerAssumption DEF Positions, Shapes
      <4> QED  BY <4>1 DEF RiverEnded, RiverSeatType
    <3> QED  BY <1>4, <3>1
  <2> QED  BY <1>1, <1>3, <1>4, <2>1 DEF ProcessEnd
<1>6. \A s \in SeatIds : RiverEnded(started[s]).op = "none" /\ RiverEnded(started[s]).cursor = "default"
  BY <1>4 DEF RiverEnded, RiverSeatType
<1>7. river' = [river EXCEPT !.due = FALSE, !.seat = ended]
  BY DEF ManageStart, process_pointer_ops, ended, started
<1> HIDE DEF ended
<1>8. /\ river' \in [seat : [SeatIds -> RiverSeatType], due : BOOLEAN, opened : 0 .. MaxWindows]
      /\ river'.opened = river.opened /\ river'.seat = ended
  BY <1>2, <1>5, <1>7
<1> QED  BY <1>1, <1>4, <1>5, <1>6, <1>8

LEMMA ManageStartKeeps ==
  ASSUME PointerInv, ManageStart
  PROVE  PointerInv'
<1> DEFINE op == IF ops.pending_op # None THEN ops.pending_op ELSE ops.pointer_op
           replaced == IF ops.pending_op = None \/ ops.pointer_op = None THEN {}
                       ELSE {ops.pointer_op.seat} \ {ops.pending_op.seat}
<1> USE DEF PointerInv
<1>1. /\ op # None => op \in OpType /\ op.seat \in LiveSeats
      /\ river' \in [seat : [SeatIds -> RiverSeatType], due : BOOLEAN, opened : 0 .. MaxWindows]
      /\ river'.opened = river.opened
      /\ \A s \in SeatIds :
           IF op # None /\ op.seat = s
             THEN IF ops.op_end_requested
                    THEN river'.seat[s].op = "none" /\ river'.seat[s].cursor = "default"
                    ELSE river'.seat[s].op # "none" /\ river'.seat[s].cursor # "default"
             ELSE river'.seat[s] = river.seat[s]
  BY OpsProcessed
<1>2. /\ ops' = [NoOps EXCEPT !.pointer_op = IF ops.op_end_requested THEN None ELSE op]
      /\ superseded' = {s \in superseded \cup replaced : river'.seat[s].op # "none"}
      /\ UNCHANGED <<seats, windows>>
  BY DEF ManageStart, process_pointer_ops
<1>3. replaced \subseteq SeatIds
  BY DEF PointerTypeOK, OpType
<1>4. LiveSeats' = LiveSeats /\ LiveSeats \subseteq SeatIds
  BY <1>2, SeatFacts DEF LiveSeats
<1>5. ops'.pending_op = None /\ ops'.op_end_requested = FALSE
      /\ ops'.pointer_op = IF ops.op_end_requested THEN None ELSE op
  BY <1>2 DEF NoOps
<1>6. PointerTypeOK'
  <2>1. ops' \in [pending_op : OpType \cup {None}, pointer_op : OpType \cup {None},
                  op_end_requested : BOOLEAN]
    BY <1>1, <1>2 DEF NoOps
  <2>2. superseded' \subseteq SeatIds
    BY <1>2, <1>3 DEF PointerTypeOK
  <2> QED  BY <1>1, <1>2, <2>1, <2>2 DEF PointerTypeOK
<1>7. GoneSeatsIdle'
  BY <1>1, <1>4 DEF GoneSeatsIdle
<1>8. OpsOnLiveSeats'
  BY <1>1, <1>4, <1>5 DEF OpsOnLiveSeats
<1>9. OpsAgree'
  <2>1. ops'.pointer_op # None => river'.seat[ops'.pointer_op.seat].op # "none"
    BY <1>1, <1>4, <1>5
  <2>2. ASSUME NEW s \in LiveSeats, s \notin superseded', river'.seat[s].op # "none"
        PROVE  ops'.pointer_op # None /\ ops'.pointer_op.seat = s
    <3>1. s \in SeatIds /\ s \notin superseded /\ s \notin replaced
      BY <1>2, <1>4, <2>2
    <3>2. CASE op # None /\ op.seat = s
      BY <1>1, <1>5, <2>2, <3>1, <3>2
    <3>3. CASE ~(op # None /\ op.seat = s)
      <4>1. river.seat[s].op # "none"
        BY <1>1, <2>2, <3>1, <3>3
      <4>2. ops.pointer_op # None /\ ops.pointer_op.seat = s
        BY <3>1, <4>1 DEF OpsAgree
      <4> QED  BY <3>1, <3>3, <4>2
    <3> QED  BY <3>2, <3>3
  <2> QED  BY <1>4, <2>1, <2>2 DEF OpsAgree
<1>10. CursorMatchesOp'
  BY <1>1, <1>4 DEF CursorMatchesOp
<1> QED  BY <1>6, <1>7, <1>8, <1>9, <1>10

-----------------------------------------------------------------------------

LEMMA PointerInvInit ==
  PointerInit => PointerInv
<1> SUFFICES ASSUME PointerInit PROVE PointerInv
  OBVIOUS
<1>1. seats \in Seq(SeatType) /\ DOMAIN seats = {} /\ LiveSeats = {}
  BY EmptySeq DEF PointerInit, LiveSeats
<1>2. /\ river \in [seat : [SeatIds -> RiverSeatType], due : BOOLEAN, opened : 0 .. MaxWindows]
      /\ \A s \in SeatIds : river.seat[s].op = "none" /\ river.seat[s].cursor = "default"
  BY PointerAssumption DEF PointerInit, IdleSeat, RiverSeatType, Positions, Shapes
<1>3. DOMAIN windows = {} /\ windows \in [DOMAIN windows -> WindowType]
  BY DEF PointerInit
<1>4. /\ ops \in [pending_op : OpType \cup {None}, pointer_op : OpType \cup {None},
                  op_end_requested : BOOLEAN]
      /\ ops.pending_op = None /\ ops.pointer_op = None /\ superseded = {}
  BY DEF PointerInit, NoOps
<1> QED  BY <1>1, <1>2, <1>3, <1>4
            DEF PointerInv, PointerTypeOK, GoneSeatsIdle, OpsOnLiveSeats, OpsAgree, CursorMatchesOp

LEMMA PointerInvNext ==
  PointerInv /\ [PointerNext]_pvars => PointerInv'
<1> SUFFICES ASSUME PointerInv, [PointerNext]_pvars PROVE PointerInv'
  OBVIOUS
<1>1. ASSUME NEW s \in SeatIds, SeatCreated(s) \/ SeatRemoved(s) \/ PointerLeave(s) \/ OpRelease(s)
      PROVE  PointerInv'
  BY <1>1, SeatCreatedKeeps, SeatRemovedKeeps, PointerLeaveKeeps, OpReleaseKeeps
<1>2. ASSUME NEW floats \in BOOLEAN, WindowCreated(floats) PROVE PointerInv'
  BY <1>2, WindowCreatedKeeps
<1>3. ASSUME NEW w \in DOMAIN windows, WindowClosed(w) PROVE PointerInv'
  BY <1>3, WindowClosedKeeps
<1>4. ASSUME NEW w \in DOMAIN windows, NEW shown \in BOOLEAN, KeyFloat(w, shown) PROVE PointerInv'
  BY <1>4, KeyFloatKeeps
<1>5. ASSUME NEW w \in DOMAIN windows, NEW s \in SeatIds, PointerEnter(s, w) PROVE PointerInv'
  BY <1>5, PointerEnterKeeps
<1>6. ASSUME NEW w \in DOMAIN windows, NEW s \in SeatIds, NEW kind \in Kinds, NEW edges \in Edges,
             NEW shown \in BOOLEAN, start_interactive_op(w, s, kind, edges, shown)
      PROVE  PointerInv'
  BY <1>6, StartInteractiveOpKeeps
<1>7. ASSUME NEW kind \in Kinds, start_pointer_op(kind) PROVE PointerInv'
  BY <1>7, StartPointerOpKeeps
<1>8. CASE PointerBindingReleased
  BY <1>8, PointerBindingReleasedKeeps
<1>9. ASSUME NEW s \in SeatIds, NEW x \in Positions, PointerPosition(s, x) \/ OpDelta(s, x)
      PROVE  PointerInv'
  BY <1>9, PointerPositionKeeps, OpDeltaKeeps
<1>10. CASE ManageStart
  BY <1>10, ManageStartKeeps
<1>11. CASE UNCHANGED pvars
  BY <1>11 DEF pvars, PointerInv, PointerTypeOK, GoneSeatsIdle, OpsOnLiveSeats, OpsAgree,
               CursorMatchesOp, LiveSeats
<1> QED  BY <1>1, <1>2, <1>3, <1>4, <1>5, <1>6, <1>7, <1>8, <1>9, <1>10, <1>11 DEF PointerNext

LEMMA PointerInvHolds ==
  PointerSpec => []PointerInv
BY PointerInvInit, PointerInvNext, PTL DEF PointerSpec

\* Seats, windows, operations and river's seats keep their types, and no two
\* seats share an id, whatever the number of seats and windows.
THEOREM PointerTypeCorrect ==
  PointerSpec => []PointerTypeOK
<1>1. PointerInv => PointerTypeOK
  BY DEF PointerInv
<1> QED  BY <1>1, PointerInvHolds, PTL

\* No operation, staged or started, is on a seat that is gone: a manage
\* sequence never drives a destroyed seat proxy (SeatEvent::Removed).
THEOREM OpsOnLiveSeatsHolds ==
  PointerSpec => []OpsOnLiveSeats
<1>1. PointerInv => OpsOnLiveSeats
  BY DEF PointerInv
<1> QED  BY <1>1, PointerInvHolds, PTL

\* streamwm and river agree on which operations are in progress
\* (process_pointer_ops, SeatEvent::Removed).
THEOREM OpsAgreeHolds ==
  PointerSpec => []OpsAgree
<1>1. PointerInv => OpsAgree
  BY DEF PointerInv
<1> QED  BY <1>1, PointerInvHolds, PTL

\* A seat shows the shape of an operation exactly while one is in progress.
THEOREM CursorMatchesOpHolds ==
  PointerSpec => []CursorMatchesOp
<1>1. PointerInv => CursorMatchesOp
  BY DEF PointerInv
<1> QED  BY <1>1, PointerInvHolds, PTL
=============================================================================
