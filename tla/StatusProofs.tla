---------------------------- MODULE StatusProofs ----------------------------
(***************************************************************************)
(* Theorems about StatusStream, for every number of connections, of places *)
(* and of versions.  The inductive invariant adds to the properties what   *)
(* each handler thread relies on: RecordOK for its own cells, Registered,  *)
(* and WorkIsSeen for the channels to the window manager.                  *)
(***************************************************************************)
EXTENDS StatusStream, SequenceLemmas, FiniteSetTheorems

\* What holds of a connection while the state has version v.  From the clearing
\* of the cell on, nothing in it is older than what was sent before; what was
\* published to the loop is in the cell until it is sent.
RecordOK(r, v) ==
  /\ r.pc \in {"register", "clear", "drain", "recv", "take", "leave"} => r.kind = "subscribe"
  /\ r.pc \in {"clear", "drain"} => r.answer # None
  /\ r.pc \notin InLoop \cup {"leave", "exit"} => r.seen = 0
  /\ r.answer # None => r.answer <= v
  /\ r.seen <= v /\ (r.slot # None => r.slot <= v)
  /\ r.pc = "drain" /\ r.slot # None => r.slot >= r.answer
  /\ r.pc \in InLoop /\ r.slot # None => r.slot >= r.seen
  /\ r.pc \notin InLoop \cup {"leave", "exit"} => r.due = 0
  /\ r.pc \in InLoop /\ r.due > r.seen => r.slot = r.due

RecordsOK == \A c \in Connections : RecordOK(conn[c], wm.version)

\* A subscriber is in the registry until it takes itself out.
Registers == {"send", "poke", "waiting", "clear", "drain", "recv", "take", "leave"}
Registered ==
  \A c \in Connections :
     (conn[c].kind = "subscribe" /\ conn[c].pc \in Registers) =>
        \E i \in DOMAIN registry : registry[i] = c

\* Who put a command into the channel and has yet to poke the window manager.
Poking == {c \in Connections : conn[c].kind = "command" /\ conn[c].pc = "poke"}

\* NoLostWakeup, and what the window manager relies on from the moment it emptied
\* the channel of commands.
WorkIsSeen ==
  /\ (wm.pc = "poll" /\ ~eventfd) => \A i \in 1 .. Len(requests) : conn[requests[i]].pc = "poke"
  /\ (wm.pc \in {"poll", "requests"} /\ ~eventfd) => commands <= Cardinality(Poking)

ListenerWaits == listener # None => conn[listener].pc = "absent"

PublishUnderWay == wm.pc \in {"store", "wake"} => wm.todo # <<>>

\* The inductive invariant.
StatusInv ==
  /\ StatusTypeOK /\ HandlersBounded /\ NothingStranded
  /\ RecordsOK /\ Registered /\ WorkIsSeen /\ ListenerWaits /\ PublishUnderWay

-----------------------------------------------------------------------------

\* A thread's loop is two of the places a handler can be at.
LEMMA Places ==
  /\ InLoop \subseteq Handling
  /\ "absent" \notin Handling /\ "gone" \notin Handling
  /\ Registers \subseteq Handling
BY DEF InLoop, Handling, Registers

LEMMA SomeConnections ==
  NumConnections \in Nat /\ IsFiniteSet(Connections)
  /\ \A S \in SUBSET Connections : IsFiniteSet(S) /\ Cardinality(S) \in Nat
<1>1. IsFiniteSet(Connections)
  BY StatusAssumption, FS_Interval DEF Connections
<1> QED  BY <1>1, StatusAssumption, FS_Subset, FS_CardinalityType

\* Every thread and the listener stay where they are, as far as the counter goes.
LEMMA PlacesKept ==
  ASSUME HandlersBounded, ListenerWaits, UNCHANGED accepting,
         \A c \in Connections : /\ conn'[c].pc \in Handling <=> conn[c].pc \in Handling
                                /\ conn[c].pc = "absent" => conn'[c].pc = "absent",
         StatusTypeOK
  PROVE  HandlersBounded' /\ ListenerWaits'
<1>1. {c \in Connections : conn'[c].pc \in Handling} = {c \in Connections : conn[c].pc \in Handling}
  OBVIOUS
<1>2. listener' = listener /\ active' = active
  BY DEF accepting
<1>3. HandlersBounded'
  BY <1>1, <1>2 DEF HandlersBounded
<1>4. ListenerWaits'
  BY <1>2 DEF ListenerWaits, StatusTypeOK
<1> QED  BY <1>3, <1>4

\* One connection's record changes, and the threads at "poke" stay the same.
LEMMA RecordChanges ==
  ASSUME StatusInv, NEW c \in Connections, NEW r \in ConnectionType,
         conn' = [conn EXCEPT ![c] = r], UNCHANGED <<wm, shared>>,
         RecordOK(r, wm.version),
         conn[c].pc # "poke", r.pc # "poke",
         r.kind = "subscribe" /\ r.pc \in Registers => \E i \in DOMAIN registry : registry[i] = c,
         (r.pc \in InLoop /\ r.due > r.seen) =>
            r.token \/ r.pc = "take" \/ (wm.pc = "wake" /\ Head(wm.todo) = c),
         listener' \in Connections \cup {None}, active' \in Nat
  PROVE  /\ StatusTypeOK' /\ NothingStranded' /\ RecordsOK' /\ Registered' /\ WorkIsSeen'
         /\ PublishUnderWay'
<1> USE DEF StatusInv
<1>1. \A d \in Connections : conn'[d] = IF d = c THEN r ELSE conn[d]
  BY DEF StatusTypeOK
<1>2. StatusTypeOK'
  BY DEF StatusTypeOK, shared
<1>3. NothingStranded'
  BY <1>1 DEF NothingStranded
<1>4. RecordsOK'
  BY <1>1 DEF RecordsOK
<1>5. Registered'
  BY <1>1 DEF Registered, shared
<1>6. WorkIsSeen'
  <2>1. Poking' = Poking
    BY <1>1 DEF Poking
  <2>2. \A i \in 1 .. Len(requests) : requests[i] \in Connections
    BY ElementOfSeq DEF StatusTypeOK
  <2> QED  BY <1>1, <2>1, <2>2 DEF WorkIsSeen, shared
<1>7. PublishUnderWay'
  BY DEF PublishUnderWay
<1> QED  BY <1>2, <1>3, <1>4, <1>5, <1>6, <1>7

\* The handler of a connection moves on, within its thread.
LEMMA HandlerMoves ==
  ASSUME StatusInv, NEW c \in Connections, NEW r \in ConnectionType,
         conn' = [conn EXCEPT ![c] = r], UNCHANGED <<wm, shared, accepting>>,
         RecordOK(r, wm.version),
         conn[c].pc \in Handling \ {"poke"}, r.pc \in Handling \ {"poke"},
         r.kind = "subscribe" /\ r.pc \in Registers => \E i \in DOMAIN registry : registry[i] = c,
         (r.pc \in InLoop /\ r.due > r.seen) =>
            r.token \/ r.pc = "take" \/ (wm.pc = "wake" /\ Head(wm.todo) = c)
  PROVE  StatusInv'
<1> USE DEF StatusInv
<1>1. listener' \in Connections \cup {None} /\ active' \in Nat
  BY DEF accepting, StatusTypeOK
<1>2. \A d \in Connections : conn'[d] = IF d = c THEN r ELSE conn[d]
  BY DEF StatusTypeOK
<1>3. HandlersBounded' /\ ListenerWaits'
  BY <1>2, PlacesKept, Places
<1> QED  BY <1>1, <1>3, RecordChanges

LEMMA ReadLineKeeps ==
  ASSUME StatusInv, NEW c \in Connections, NEW kind \in Kinds \cup {None}, ReadLine(c, kind)
  PROVE  StatusInv'
<1> USE DEF StatusInv
<1> DEFINE pc == CASE kind = "subscribe" -> "register"
                   [] kind \in {"get_status", "command"} -> "send"
                   [] kind = None -> "exit"
           r == [conn[c] EXCEPT !.kind = kind, !.pc = pc]
<1>1. conn[c] \in ConnectionType /\ conn[c].pc = "open" /\ RecordOK(conn[c], wm.version)
  BY DEF StatusTypeOK, RecordsOK, ReadLine
<1>2. /\ pc \in {"register", "send", "exit"}
      /\ pc = "register" <=> kind = "subscribe"
  BY StatusAssumption DEF Kinds
<1>3. conn' = [conn EXCEPT ![c] = r]
  <2>1. conn' = [conn EXCEPT ![c].kind = kind, ![c].pc = pc]
    BY DEF ReadLine
  <2> HIDE DEF pc
  <2> QED  BY <1>1, <2>1 DEF StatusTypeOK
<1> HIDE DEF pc
<1>4. /\ r \in ConnectionType /\ r.pc = pc /\ r.kind = kind /\ r.slot = conn[c].slot /\ r.answer = conn[c].answer
      /\ r.seen = conn[c].seen /\ r.due = conn[c].due
  BY <1>1, <1>2 DEF ConnectionType, Handling
<1> HIDE DEF r
<1>5. RecordOK(r, wm.version)
  BY <1>1, <1>2, <1>4 DEF RecordOK, InLoop
<1> QED  BY <1>1, <1>2, <1>3, <1>4, <1>5, HandlerMoves DEF ReadLine, Handling, Registers, InLoop

LEMMA ReceiveAnswerKeeps ==
  ASSUME StatusInv, NEW c \in Connections, ReceiveAnswer(c)
  PROVE  StatusInv'
<1> USE DEF StatusInv
<1> DEFINE r == [conn[c] EXCEPT !.pc = AfterAnswer(c)]
<1>1. /\ conn[c] \in ConnectionType /\ conn[c].pc = "waiting" /\ conn[c].answer # None
      /\ RecordOK(conn[c], wm.version)
  BY DEF StatusTypeOK, RecordsOK, ReceiveAnswer, Goto
<1>2. conn' = [conn EXCEPT ![c] = r]
  BY <1>1 DEF ReceiveAnswer, Goto, StatusTypeOK
<1>3. /\ r \in ConnectionType /\ r.pc = AfterAnswer(c) /\ r.kind = conn[c].kind
      /\ r.answer = conn[c].answer /\ r.seen = conn[c].seen /\ r.due = conn[c].due
      /\ r.slot = conn[c].slot
      /\ AfterAnswer(c) \in {"clear", "exit"} /\ (AfterAnswer(c) = "clear" => r.kind = "subscribe")
  BY <1>1 DEF ConnectionType, Handling, AfterAnswer
<1> HIDE DEF r
<1>4. RecordOK(r, wm.version)
  BY <1>1, <1>3 DEF RecordOK, InLoop
<1>5. r.kind = "subscribe" => \E i \in DOMAIN registry : registry[i] = c
  BY <1>1, <1>3 DEF Registered, Registers
<1> QED  BY <1>1, <1>2, <1>3, <1>4, <1>5, HandlerMoves
         DEF ReceiveAnswer, Handling, Registers, InLoop

LEMMA AnswerTimeoutKeeps ==
  ASSUME StatusInv, NEW c \in Connections, AnswerTimeout(c)
  PROVE  StatusInv'
<1> USE DEF StatusInv
<1> DEFINE r == [conn[c] EXCEPT !.pc = AfterTimeout(c)]
<1>1. /\ conn[c] \in ConnectionType /\ conn[c].pc = "waiting" /\ RecordOK(conn[c], wm.version)
  BY DEF StatusTypeOK, RecordsOK, AnswerTimeout, Goto
<1>2. conn' = [conn EXCEPT ![c] = r]
  BY <1>1 DEF AnswerTimeout, Goto, StatusTypeOK
<1>3. /\ r \in ConnectionType /\ r.pc = AfterTimeout(c) /\ r.kind = conn[c].kind
      /\ r.answer = conn[c].answer /\ r.seen = conn[c].seen /\ r.due = conn[c].due
      /\ r.slot = conn[c].slot
      /\ AfterTimeout(c) \in {"leave", "exit"} /\ (AfterTimeout(c) = "leave" => r.kind = "subscribe")
  BY <1>1 DEF ConnectionType, Handling, AfterTimeout
<1> HIDE DEF r
<1>4. RecordOK(r, wm.version)
  BY <1>1, <1>3 DEF RecordOK, InLoop
<1>5. r.kind = "subscribe" => \E i \in DOMAIN registry : registry[i] = c
  BY <1>1, <1>3 DEF Registered, Registers
<1> QED  BY <1>1, <1>2, <1>3, <1>4, <1>5, HandlerMoves
         DEF AnswerTimeout, Handling, Registers, InLoop

LEMMA ClearSlotKeeps ==
  ASSUME StatusInv, NEW c \in Connections, ClearSlot(c)
  PROVE  StatusInv'
<1> USE DEF StatusInv
<1> DEFINE r == [conn[c] EXCEPT !.pc = "drain", !.slot = None]
<1>1. conn[c] \in ConnectionType /\ conn[c].pc = "clear" /\ RecordOK(conn[c], wm.version)
  BY DEF StatusTypeOK, RecordsOK, ClearSlot
<1>2. conn' = [conn EXCEPT ![c] = r]
  BY <1>1 DEF ClearSlot, StatusTypeOK
<1>3. /\ r \in ConnectionType /\ r.pc = "drain" /\ r.kind = conn[c].kind /\ r.slot = None
      /\ r.answer = conn[c].answer /\ r.seen = conn[c].seen /\ r.due = conn[c].due
  BY <1>1 DEF ConnectionType, Handling
<1> HIDE DEF r
<1>4. RecordOK(r, wm.version)
  BY <1>1, <1>3 DEF RecordOK, InLoop
<1>5. r.kind = "subscribe" => \E i \in DOMAIN registry : registry[i] = c
  BY <1>1, <1>3 DEF Registered, Registers
<1> QED  BY <1>1, <1>2, <1>3, <1>4, <1>5, HandlerMoves DEF ClearSlot, Handling, InLoop

\* The thread leaves its loop, or what comes before it, with a failed write.
LEMMA WriteFails ==
  ASSUME StatusInv, NEW c \in Connections, conn[c].pc \in {"drain", "take"},
         NEW r \in ConnectionType, conn' = [conn EXCEPT ![c] = r],
         UNCHANGED <<wm, shared, accepting>>,
         r.pc = "leave", r.kind = conn[c].kind, r.slot \in {None, conn[c].slot}, r.answer = conn[c].answer, r.seen = conn[c].seen
  PROVE  StatusInv'
<1> USE DEF StatusInv
<1>1. RecordOK(conn[c], wm.version)
  BY DEF RecordsOK
<1>2. RecordOK(r, wm.version)
  BY <1>1 DEF RecordOK, InLoop
<1>3. r.kind = "subscribe" => \E i \in DOMAIN registry : registry[i] = c
  BY DEF Registered, Registers
<1> QED  BY <1>2, <1>3, HandlerMoves DEF Handling, InLoop

LEMMA DrainTokensKeeps ==
  ASSUME StatusInv, NEW c \in Connections, DrainTokens(c)
  PROVE  StatusInv'
<1> USE DEF StatusInv
<1>1. conn[c] \in ConnectionType /\ conn[c].pc = "drain" /\ RecordOK(conn[c], wm.version)
  BY DEF StatusTypeOK, RecordsOK, DrainTokens
<1>2. CASE conn' = [conn EXCEPT ![c].pc = "recv", ![c].token = FALSE, ![c].seen = conn[c].answer]
  <2> DEFINE r == [conn[c] EXCEPT !.pc = "recv", !.token = FALSE, !.seen = conn[c].answer]
  <2>1. conn' = [conn EXCEPT ![c] = r]
    BY <1>1, <1>2 DEF StatusTypeOK
  <2>2. conn[c].answer \in Versions
    BY <1>1 DEF RecordOK, ConnectionType
  <2>3. conn[c].answer \in 0 .. MaxVersion
    BY <2>2, StatusAssumption DEF Versions
  <2>4. /\ r \in ConnectionType /\ r.pc = "recv" /\ r.kind = conn[c].kind /\ r.slot = conn[c].slot
        /\ r.answer = conn[c].answer /\ r.seen = conn[c].answer /\ r.due = conn[c].due
    BY <1>1, <2>3 DEF ConnectionType, Handling
  <2> HIDE DEF r
  <2>5. r.due = 0 /\ ~(r.due > r.seen)
    BY <1>1, <2>2, <2>4, StatusAssumption DEF RecordOK, InLoop, Versions
  <2>6. RecordOK(r, wm.version)
    BY <1>1, <2>4, <2>5 DEF RecordOK, InLoop
  <2>7. r.kind = "subscribe" => \E i \in DOMAIN registry : registry[i] = c
    BY <1>1, <2>4 DEF Registered, Registers
  <2> QED  BY <1>1, <2>1, <2>4, <2>5, <2>6, <2>7, HandlerMoves DEF DrainTokens, Handling
<1>3. CASE conn' = [conn EXCEPT ![c].pc = "leave"]
  <2> DEFINE r == [conn[c] EXCEPT !.pc = "leave"]
  <2>1. conn' = [conn EXCEPT ![c] = r]
    BY <1>1, <1>3 DEF StatusTypeOK
  <2>2. /\ r \in ConnectionType /\ r.pc = "leave" /\ r.kind = conn[c].kind
        /\ r.slot \in {None, conn[c].slot} /\ r.answer = conn[c].answer /\ r.seen = conn[c].seen
    BY <1>1 DEF ConnectionType, Handling
  <2> HIDE DEF r
  <2> QED  BY <1>1, <2>1, <2>2, WriteFails DEF DrainTokens
<1> QED  BY <1>2, <1>3 DEF DrainTokens

LEMMA RecvKeeps ==
  ASSUME StatusInv, NEW c \in Connections, Recv(c)
  PROVE  StatusInv'
<1> USE DEF StatusInv
<1> DEFINE r == [conn[c] EXCEPT !.pc = "take", !.token = FALSE]
<1>1. conn[c] \in ConnectionType /\ conn[c].pc = "recv" /\ RecordOK(conn[c], wm.version)
  BY DEF StatusTypeOK, RecordsOK, Recv
<1>2. conn' = [conn EXCEPT ![c] = r]
  BY <1>1 DEF Recv, StatusTypeOK
<1>3. /\ r \in ConnectionType /\ r.pc = "take" /\ r.kind = conn[c].kind /\ r.slot = conn[c].slot
      /\ r.answer = conn[c].answer /\ r.seen = conn[c].seen /\ r.due = conn[c].due
  BY <1>1 DEF ConnectionType, Handling
<1> HIDE DEF r
<1>4. RecordOK(r, wm.version)
  BY <1>1, <1>3 DEF RecordOK, InLoop
<1>5. r.kind = "subscribe" => \E i \in DOMAIN registry : registry[i] = c
  BY <1>1, <1>3 DEF Registered, Registers
<1> QED  BY <1>1, <1>2, <1>3, <1>4, <1>5, HandlerMoves DEF Recv, Handling

\* What was due is in the cell, so that it is sent.
LEMMA TakeKeeps ==
  ASSUME StatusInv, NEW c \in Connections, Take(c)
  PROVE  StatusInv'
<1> USE DEF StatusInv
<1> DEFINE sent == IF conn[c].slot = None THEN conn[c].seen ELSE conn[c].slot
<1>1. conn[c] \in ConnectionType /\ conn[c].pc = "take" /\ RecordOK(conn[c], wm.version)
  BY DEF StatusTypeOK, RecordsOK, Take
<1>2. CASE conn' = [conn EXCEPT ![c].pc = "recv", ![c].slot = None,
                                ![c].seen = IF conn[c].slot = None THEN @ ELSE conn[c].slot]
  <2> DEFINE r == [conn[c] EXCEPT !.pc = "recv", !.slot = None, !.seen = sent]
  <2>1. conn' = [conn EXCEPT ![c] = r]
    BY <1>1, <1>2 DEF StatusTypeOK
  <2>2. sent \in 0 .. MaxVersion
    BY <1>1, StatusAssumption DEF ConnectionType, Versions
  <2>3. sent <= wm.version
    BY <1>1 DEF RecordOK
  <2>4. ~(conn[c].due > sent)
    <3>1. conn[c].due \in Nat /\ conn[c].seen \in Nat /\ 0 \notin Versions
      BY <1>1, StatusAssumption DEF ConnectionType, Versions
    <3>2. CASE conn[c].due > conn[c].seen
      <4>1. conn[c].slot = conn[c].due
        BY <1>1, <3>2 DEF RecordOK, InLoop
      <4>2. conn[c].due \in Nat /\ None \notin Nat
        BY <3>1, StatusAssumption
      <4> QED  BY <4>1, <4>2
    <3>3. CASE ~(conn[c].due > conn[c].seen)
      <4>1. conn[c].slot # None => conn[c].slot \in Nat /\ conn[c].slot >= conn[c].seen
        BY <1>1, StatusAssumption DEF RecordOK, InLoop, ConnectionType, Versions
      <4> QED  BY <3>1, <3>3, <4>1
    <3> QED  BY <3>2, <3>3
  <2> HIDE DEF sent
  <2>5. /\ r \in ConnectionType /\ r.pc = "recv" /\ r.kind = conn[c].kind /\ r.slot = None
        /\ r.answer = conn[c].answer /\ r.seen = sent /\ r.due = conn[c].due
    BY <1>1, <2>2 DEF ConnectionType, Handling
  <2> HIDE DEF r
  <2>6. RecordOK(r, wm.version)
    BY <1>1, <2>3, <2>4, <2>5 DEF RecordOK, InLoop
  <2>7. r.kind = "subscribe" => \E i \in DOMAIN registry : registry[i] = c
    BY <1>1, <2>5 DEF Registered, Registers
  <2> QED  BY <1>1, <2>1, <2>4, <2>5, <2>6, <2>7, HandlerMoves DEF Take, Handling
<1>3. CASE conn' = [conn EXCEPT ![c].pc = "leave", ![c].slot = None]
  <2> DEFINE r == [conn[c] EXCEPT !.pc = "leave", !.slot = None]
  <2>1. conn' = [conn EXCEPT ![c] = r]
    BY <1>1, <1>3 DEF StatusTypeOK
  <2>2. /\ r \in ConnectionType /\ r.pc = "leave" /\ r.kind = conn[c].kind
        /\ r.slot \in {None, conn[c].slot} /\ r.answer = conn[c].answer /\ r.seen = conn[c].seen
    BY <1>1 DEF ConnectionType, Handling
  <2> HIDE DEF r
  <2> QED  BY <1>1, <2>1, <2>2, WriteFails DEF Take
<1> QED  BY <1>2, <1>3 DEF Take

-----------------------------------------------------------------------------
(***************************************************************************)
(* Handler steps that touch what threads share.                            *)
(***************************************************************************)
LEMMA RegisterKeeps ==
  ASSUME StatusInv, NEW c \in Connections, Register(c)
  PROVE  StatusInv'
<1> USE DEF StatusInv
<1> DEFINE r == [conn[c] EXCEPT !.pc = "send"]
<1>1. conn[c] \in ConnectionType /\ conn[c].pc = "register" /\ RecordOK(conn[c], wm.version)
  BY DEF StatusTypeOK, RecordsOK, Register, Goto
<1>2. conn' = [conn EXCEPT ![c] = r]
  BY <1>1 DEF Register, Goto, StatusTypeOK
<1>3. /\ r \in ConnectionType /\ r.pc = "send" /\ r.kind = conn[c].kind /\ r.slot = conn[c].slot
      /\ r.answer = conn[c].answer /\ r.seen = conn[c].seen /\ r.due = conn[c].due
  BY <1>1 DEF ConnectionType, Handling
<1> HIDE DEF r
<1>4. \A d \in Connections : conn'[d] = IF d = c THEN r ELSE conn[d]
  BY <1>2 DEF StatusTypeOK
<1>5. UNCHANGED <<wm, requests, commands, eventfd, accepting>>
  BY DEF Register
<1>6. /\ registry' \in Seq(Connections) /\ Len(registry') = Len(registry) + 1
      /\ \A i \in 1 .. Len(registry) : registry'[i] = registry[i]
      /\ registry'[Len(registry) + 1] = c
  BY AppendProperties DEF Register, StatusTypeOK
<1>7. /\ Len(registry) \in Nat /\ DOMAIN registry = 1 .. Len(registry)
      /\ DOMAIN registry' = 1 .. Len(registry) + 1
  BY <1>6, LenProperties DEF StatusTypeOK
<1>8. StatusTypeOK'
  BY <1>2, <1>3, <1>5, <1>6 DEF StatusTypeOK, accepting
<1>9. HandlersBounded' /\ ListenerWaits'
  BY <1>1, <1>3, <1>4, <1>5, PlacesKept DEF Handling
<1>10. NothingStranded'
  BY <1>3, <1>4, <1>5 DEF NothingStranded, InLoop
<1>11. RecordsOK'
  <2>1. RecordOK(r, wm.version)
    BY <1>1, <1>3 DEF RecordOK, InLoop
  <2> QED  BY <1>4, <1>5, <2>1 DEF RecordsOK
<1>12. Registered'
  <2>1. ASSUME NEW d \in Connections, conn'[d].kind = "subscribe", conn'[d].pc \in Registers
        PROVE  \E i \in DOMAIN registry' : registry'[i] = d
    <3>1. CASE d = c
      BY <1>6, <1>7, <3>1
    <3>2. CASE d # c
      <4>1. PICK i \in DOMAIN registry : registry[i] = d
        BY <1>4, <2>1, <3>2 DEF Registered
      <4> QED  BY <1>6, <1>7, <4>1
    <3> QED  BY <3>1, <3>2
  <2> QED  BY <2>1 DEF Registered
<1>13. WorkIsSeen'
  <2>1. Poking' = Poking
    BY <1>1, <1>3, <1>4 DEF Poking
  <2>2. \A i \in 1 .. Len(requests) : requests[i] \in Connections
    BY ElementOfSeq DEF StatusTypeOK
  <2> QED  BY <1>1, <1>3, <1>4, <1>5, <2>1, <2>2 DEF WorkIsSeen
<1>14. PublishUnderWay'
  BY <1>5 DEF PublishUnderWay
<1> QED  BY <1>8, <1>9, <1>10, <1>11, <1>12, <1>13, <1>14

LEMMA UnregisterKeeps ==
  ASSUME StatusInv, NEW c \in Connections, Unregister(c)
  PROVE  StatusInv'
<1> USE DEF StatusInv
<1> DEFINE r == [conn[c] EXCEPT !.pc = "exit"]
           at == CHOOSE i \in DOMAIN registry : registry[i] = c
<1>1. conn[c] \in ConnectionType /\ conn[c].pc = "leave" /\ RecordOK(conn[c], wm.version)
  BY DEF StatusTypeOK, RecordsOK, Unregister, Goto
<1>2. conn' = [conn EXCEPT ![c] = r]
  BY <1>1 DEF Unregister, Goto, StatusTypeOK
<1>3. /\ r \in ConnectionType /\ r.pc = "exit" /\ r.kind = conn[c].kind /\ r.slot = conn[c].slot
      /\ r.answer = conn[c].answer /\ r.seen = conn[c].seen /\ r.due = conn[c].due
  BY <1>1 DEF ConnectionType, Handling
<1> HIDE DEF r
<1>4. \A d \in Connections : conn'[d] = IF d = c THEN r ELSE conn[d]
  BY <1>2 DEF StatusTypeOK
<1>5. UNCHANGED <<wm, requests, commands, eventfd, accepting>>
  BY DEF Unregister
<1>6. at \in DOMAIN registry /\ registry[at] = c
  <2>1. \E i \in DOMAIN registry : registry[i] = c
    BY <1>1 DEF Registered, Registers, RecordOK
  <2> QED  BY <2>1
<1>7. registry' = RemoveAt(registry, at)
  BY DEF Unregister
<1> HIDE DEF at
<1>8. registry' \in Seq(Connections)
  BY <1>6, <1>7, Removal, LenProperties DEF StatusTypeOK
<1>9. StatusTypeOK'
  BY <1>2, <1>3, <1>5, <1>8 DEF StatusTypeOK, accepting
<1>10. HandlersBounded' /\ ListenerWaits'
  BY <1>1, <1>3, <1>4, <1>5, PlacesKept DEF Handling
<1>11. NothingStranded'
  BY <1>3, <1>4, <1>5 DEF NothingStranded, InLoop
<1>12. RecordsOK'
  <2>1. RecordOK(r, wm.version)
    BY <1>1, <1>3 DEF RecordOK, InLoop
  <2> QED  BY <1>4, <1>5, <2>1 DEF RecordsOK
<1>13. Registered'
  <2>1. ASSUME NEW d \in Connections, conn'[d].kind = "subscribe", conn'[d].pc \in Registers
        PROVE  \E i \in DOMAIN registry' : registry'[i] = d
    <3>1. d # c
      BY <1>3, <1>4, <2>1 DEF Registers
    <3>2. PICK i \in DOMAIN registry : registry[i] = d
      BY <1>4, <2>1, <3>1 DEF Registered
    <3>3. i \in DOMAIN registry \ {at}
      BY <1>6, <3>1, <3>2
    <3>4. \E j \in DOMAIN registry' : registry'[j] = registry[i]
      BY <1>6, <1>7, <3>3, RemovalKeeps DEF StatusTypeOK
    <3> QED  BY <3>2, <3>4
  <2> QED  BY <2>1 DEF Registered
<1>14. WorkIsSeen'
  <2>1. Poking' = Poking
    BY <1>1, <1>3, <1>4 DEF Poking
  <2>2. \A i \in 1 .. Len(requests) : requests[i] \in Connections
    BY ElementOfSeq DEF StatusTypeOK
  <2> QED  BY <1>1, <1>3, <1>4, <1>5, <2>1, <2>2 DEF WorkIsSeen
<1>15. PublishUnderWay'
  BY <1>5 DEF PublishUnderWay
<1> QED  BY <1>9, <1>10, <1>11, <1>12, <1>13, <1>14, <1>15

\* What goes into a channel is counted with whoever has yet to poke.
LEMMA SendKeeps ==
  ASSUME StatusInv, NEW c \in Connections, Send(c)
  PROVE  StatusInv'
<1> USE DEF StatusInv
<1> DEFINE r == [conn[c] EXCEPT !.pc = "poke"]
<1>1. conn[c] \in ConnectionType /\ conn[c].pc = "send" /\ RecordOK(conn[c], wm.version)
  BY DEF StatusTypeOK, RecordsOK, Send, Goto
<1>2. conn' = [conn EXCEPT ![c] = r]
  BY <1>1 DEF Send, Goto, StatusTypeOK
<1>3. /\ r \in ConnectionType /\ r.pc = "poke" /\ r.kind = conn[c].kind /\ r.slot = conn[c].slot
      /\ r.answer = conn[c].answer /\ r.seen = conn[c].seen /\ r.due = conn[c].due
  BY <1>1 DEF ConnectionType, Handling
<1> HIDE DEF r
<1>4. \A d \in Connections : conn'[d] = IF d = c THEN r ELSE conn[d]
  BY <1>2 DEF StatusTypeOK
<1>5. UNCHANGED <<wm, registry, eventfd, accepting>>
  BY DEF Send
<1>6. /\ Append(requests, c) \in Seq(Connections) /\ Len(Append(requests, c)) = Len(requests) + 1
      /\ \A i \in 1 .. Len(requests) : Append(requests, c)[i] = requests[i]
      /\ Append(requests, c)[Len(requests) + 1] = c
  BY AppendProperties DEF StatusTypeOK
<1>7. Len(requests) \in Nat /\ \A i \in 1 .. Len(requests) : requests[i] \in Connections
  BY LenProperties, ElementOfSeq DEF StatusTypeOK
<1>8. StatusTypeOK'
  BY <1>2, <1>3, <1>5, <1>6 DEF StatusTypeOK, accepting, Send
<1>9. HandlersBounded' /\ ListenerWaits'
  BY <1>1, <1>3, <1>4, <1>5, PlacesKept DEF Handling
<1>10. NothingStranded'
  BY <1>3, <1>4, <1>5 DEF NothingStranded, InLoop
<1>11. RecordsOK'
  <2>1. RecordOK(r, wm.version)
    BY <1>1, <1>3 DEF RecordOK, InLoop
  <2> QED  BY <1>4, <1>5, <2>1 DEF RecordsOK
<1>12. Registered'
  BY <1>1, <1>3, <1>4, <1>5 DEF Registered, Registers
<1>13. WorkIsSeen'
  <2>1. ASSUME (wm.pc = "poll" /\ ~eventfd)'
        PROVE  \A i \in 1 .. Len(requests') : conn'[requests'[i]].pc = "poke"
    <3>1. \A i \in 1 .. Len(requests) : conn'[requests[i]].pc = "poke"
      BY <1>3, <1>4, <1>5, <1>7, <2>1 DEF WorkIsSeen
    <3> QED  BY <1>3, <1>4, <1>6, <1>7, <3>1 DEF Send
  <2>2. ASSUME (wm.pc \in {"poll", "requests"} /\ ~eventfd)'
        PROVE  commands' <= Cardinality(Poking')
    <3>1. commands <= Cardinality(Poking)
      BY <1>5, <2>2 DEF WorkIsSeen
    <3>2. IsFiniteSet(Poking) /\ Cardinality(Poking) \in Nat
      BY SomeConnections DEF Poking
    <3>3. CASE conn[c].kind = "command"
      <4>1. Poking' = Poking \cup {c} /\ c \notin Poking
        BY <1>1, <1>3, <1>4, <3>3 DEF Poking
      <4>2. Cardinality(Poking') = Cardinality(Poking) + 1
        BY <3>2, <4>1, FS_AddElement
      <4>3. commands' = commands + 1 /\ commands \in Nat
        BY <3>3 DEF Send, StatusTypeOK
      <4> QED  BY <3>1, <3>2, <4>2, <4>3
    <3>4. CASE conn[c].kind # "command"
      <4>1. Poking' = Poking
        BY <1>1, <1>3, <1>4, <3>4 DEF Poking
      <4> QED  BY <3>1, <3>4, <4>1 DEF Send
    <3> QED  BY <3>3, <3>4
  <2> QED  BY <2>1, <2>2 DEF WorkIsSeen
<1>14. PublishUnderWay'
  BY <1>5 DEF PublishUnderWay
<1> QED  BY <1>8, <1>9, <1>10, <1>11, <1>12, <1>13, <1>14

LEMMA PokeKeeps ==
  ASSUME StatusInv, NEW c \in Connections, Poke(c)
  PROVE  StatusInv'
<1> USE DEF StatusInv
<1> DEFINE pc == IF conn[c].kind = "command" THEN "exit" ELSE "waiting"
           r == [conn[c] EXCEPT !.pc = pc]
<1>1. conn[c] \in ConnectionType /\ conn[c].pc = "poke" /\ RecordOK(conn[c], wm.version)
  BY DEF StatusTypeOK, RecordsOK, Poke, Goto
<1>2. conn' = [conn EXCEPT ![c] = r]
  BY <1>1 DEF Poke, Goto, StatusTypeOK
<1>3. /\ r \in ConnectionType /\ r.pc \in {"exit", "waiting"} /\ r.kind = conn[c].kind
      /\ r.slot = conn[c].slot
      /\ r.answer = conn[c].answer /\ r.seen = conn[c].seen /\ r.due = conn[c].due
  BY <1>1 DEF ConnectionType, Handling
<1> HIDE DEF r
<1>4. \A d \in Connections : conn'[d] = IF d = c THEN r ELSE conn[d]
  BY <1>2 DEF StatusTypeOK
<1>5. UNCHANGED <<wm, registry, requests, commands, accepting>> /\ eventfd' = TRUE
  BY DEF Poke
<1>6. StatusTypeOK'
  BY <1>2, <1>3, <1>5 DEF StatusTypeOK, accepting
<1>7. HandlersBounded' /\ ListenerWaits'
  BY <1>1, <1>3, <1>4, <1>5, PlacesKept DEF Handling
<1>8. NothingStranded'
  BY <1>3, <1>4, <1>5 DEF NothingStranded, InLoop
<1>9. RecordsOK'
  <2>1. RecordOK(r, wm.version)
    BY <1>1, <1>3 DEF RecordOK, InLoop
  <2> QED  BY <1>4, <1>5, <2>1 DEF RecordsOK
<1>10. Registered'
  BY <1>1, <1>3, <1>4, <1>5 DEF Registered, Registers
<1>11. WorkIsSeen'
  BY <1>5 DEF WorkIsSeen
<1>12. PublishUnderWay'
  BY <1>5 DEF PublishUnderWay
<1> QED  BY <1>6, <1>7, <1>8, <1>9, <1>10, <1>11, <1>12

-----------------------------------------------------------------------------
(***************************************************************************)
(* Connections come and go.                                                *)
(***************************************************************************)
LEMMA AcceptKeeps ==
  ASSUME StatusInv, NEW c \in Connections, Accept(c)
  PROVE  StatusInv'
<1> USE DEF StatusInv
<1>1. /\ listener = None /\ conn[c].pc = "absent" /\ listener' = c /\ active' = active + 1
      /\ UNCHANGED <<wm, conn, shared>>
  BY DEF Accept
<1>2. c # None
  BY StatusAssumption DEF Connections
<1>3. StatusTypeOK' /\ ListenerWaits'
  BY <1>1 DEF StatusTypeOK, ListenerWaits, shared
<1>4. HandlersBounded'
  BY <1>1, <1>2, SomeConnections DEF HandlersBounded
<1>5. NothingStranded' /\ RecordsOK' /\ Registered' /\ PublishUnderWay'
  BY <1>1 DEF NothingStranded, RecordsOK, Registered, PublishUnderWay, shared
<1>6. WorkIsSeen'
  BY <1>1 DEF WorkIsSeen, Poking, shared
<1> QED  BY <1>3, <1>4, <1>5, <1>6

\* A refused connection gives back its place, an accepted one had one left.
LEMMA JudgeKeeps ==
  ASSUME StatusInv, Judge
  PROVE  StatusInv'
<1> USE DEF StatusInv
<1> DEFINE c == listener
           pc == IF TooMany THEN "gone" ELSE "open"
           r == [conn[c] EXCEPT !.pc = pc]
           running == {d \in Connections : conn[d].pc \in Handling}
<1>1. /\ c \in Connections /\ conn[c] \in ConnectionType /\ conn[c].pc = "absent"
      /\ c # None /\ RecordOK(conn[c], wm.version)
  BY DEF Judge, StatusTypeOK, ListenerWaits, RecordsOK
<1>2. conn' = [conn EXCEPT ![c] = r]
  BY <1>1 DEF Judge, StatusTypeOK
<1>3. /\ r \in ConnectionType /\ r.pc = pc /\ r.kind = conn[c].kind
      /\ r.slot = conn[c].slot
      /\ r.answer = conn[c].answer /\ r.seen = conn[c].seen /\ r.due = conn[c].due
  BY <1>1 DEF ConnectionType, Handling
<1> HIDE DEF r
<1>4. \A d \in Connections : conn'[d] = IF d = c THEN r ELSE conn[d]
  BY <1>1, <1>2 DEF StatusTypeOK
<1>5. /\ UNCHANGED <<wm, shared>> /\ listener' = None
      /\ active' = IF TooMany THEN active - 1 ELSE active
  BY DEF Judge
<1>6. /\ running \in SUBSET Connections /\ IsFiniteSet(running) /\ Cardinality(running) \in Nat
      /\ active = Cardinality(running) + 1 /\ Cardinality(running) <= MaxClients
      /\ c \notin running
  BY <1>1, SomeConnections, Places DEF HandlersBounded
<1>7. HandlersBounded' /\ active' \in Nat
  <2> DEFINE after == {d \in Connections : conn'[d].pc \in Handling}
  <2>1. CASE TooMany
    <3>1. after = running
      BY <1>1, <1>3, <1>4, <2>1, Places
    <3> QED  BY <1>5, <1>6, <2>1, <3>1 DEF HandlersBounded
  <2>2. CASE ~TooMany
    <3>1. after = running \cup {c}
      BY <1>1, <1>3, <1>4, <2>2 DEF Handling
    <3>2. Cardinality(after) = Cardinality(running) + 1
      BY <1>6, <3>1, FS_AddElement
    <3>3. Cardinality(running) < MaxClients
      BY <1>6, <2>2, StatusAssumption DEF TooMany
    <3>4. Cardinality(after) <= MaxClients /\ active' = Cardinality(after)
      BY <1>5, <1>6, <2>2, <3>2, <3>3, StatusAssumption
    <3> QED  BY <1>5, <1>6, <3>2, <3>4 DEF HandlersBounded
  <2> QED  BY <2>1, <2>2
<1>8. StatusTypeOK' /\ ListenerWaits'
  BY <1>1, <1>2, <1>3, <1>5, <1>7 DEF StatusTypeOK, ListenerWaits, shared
<1>9. RecordOK(r, wm.version)
  BY <1>1, <1>3 DEF RecordOK, InLoop
<1>10. NothingStranded' /\ RecordsOK' /\ Registered' /\ WorkIsSeen' /\ PublishUnderWay'
  BY <1>1, <1>2, <1>3, <1>5, <1>7, <1>9, RecordChanges DEF InLoop, Registers
<1> QED  BY <1>7, <1>8, <1>10

LEMMA ExitKeeps ==
  ASSUME StatusInv, NEW c \in Connections, Exit(c)
  PROVE  StatusInv'
<1> USE DEF StatusInv
<1> DEFINE r == [NewConnection EXCEPT !.pc = "gone"]
           running == {d \in Connections : conn[d].pc \in Handling}
           after == {d \in Connections : conn'[d].pc \in Handling}
<1>1. conn[c].pc = "exit" /\ conn' = [conn EXCEPT ![c] = r]
      /\ active' = active - 1 /\ UNCHANGED <<wm, shared, listener>>
  BY DEF Exit
<1>2. /\ r \in ConnectionType /\ r.pc = "gone" /\ r.kind = None /\ r.slot = None
      /\ r.answer = None /\ r.seen = 0 /\ r.due = 0
  <2>1. 0 \in 0 .. MaxVersion
    BY StatusAssumption
  <2> QED  BY <2>1 DEF NewConnection, ConnectionType
<1> HIDE DEF r
<1>3. \A d \in Connections : conn'[d] = IF d = c THEN r ELSE conn[d]
  BY <1>1 DEF StatusTypeOK
<1>4. /\ running \in SUBSET Connections /\ IsFiniteSet(running) /\ Cardinality(running) \in Nat
      /\ active = Cardinality(running) + (IF listener = None THEN 0 ELSE 1)
      /\ Cardinality(running) <= MaxClients /\ c \in running
  BY <1>1, SomeConnections DEF HandlersBounded, Handling
<1>5. after = running \ {c}
  BY <1>2, <1>3, Places
<1>6. Cardinality(after) = Cardinality(running) - 1 /\ Cardinality(after) \in Nat
  <2>1. Cardinality(running \ {c}) = Cardinality(running) - 1
    BY <1>4, FS_RemoveElement
  <2>2. Cardinality(after) \in Nat
    BY SomeConnections
  <2> HIDE DEF running, after
  <2> QED  BY <1>5, <2>1, <2>2
<1>7. HandlersBounded' /\ active' \in Nat
  BY <1>1, <1>4, <1>6, StatusAssumption DEF HandlersBounded
<1>8. ListenerWaits'
  BY <1>1, <1>3 DEF ListenerWaits, StatusTypeOK
<1>9. RecordOK(r, wm.version)
  BY <1>2, StatusAssumption DEF RecordOK, InLoop, StatusTypeOK, WmType, Versions
<1>10. listener' \in Connections \cup {None}
  BY <1>1 DEF StatusTypeOK
<1>11. StatusTypeOK' /\ NothingStranded' /\ RecordsOK' /\ Registered' /\ WorkIsSeen' /\ PublishUnderWay'
  BY <1>1, <1>2, <1>7, <1>9, <1>10, RecordChanges DEF InLoop, Registers
<1> QED  BY <1>7, <1>8, <1>11

-----------------------------------------------------------------------------
(***************************************************************************)
(* The window manager's thread.                                            *)
(***************************************************************************)
LEMMA RecordsAge ==
  ASSUME NEW r \in ConnectionType, NEW v \in Versions, NEW w \in Versions, v <= w, RecordOK(r, v)
  PROVE  RecordOK(r, w)
BY StatusAssumption DEF RecordOK, ConnectionType, Versions

\* The loop moves on and leaves connections, registry and requests alone.
LEMMA LoopMoves ==
  ASSUME StatusInv, UNCHANGED <<conn, registry, requests, accepting>>,
         wm' \in WmType, wm.version <= wm'.version, wm.pc # "wake",
         commands' \in Nat, eventfd' \in BOOLEAN, PublishUnderWay', WorkIsSeen'
  PROVE  StatusInv'
<1> USE DEF StatusInv
<1>1. StatusTypeOK'
  BY DEF StatusTypeOK, accepting
<1>2. HandlersBounded' /\ ListenerWaits'
  BY PlacesKept
<1>3. NothingStranded'
  BY DEF NothingStranded
<1>4. RecordsOK'
  <2>1. wm.version \in Versions /\ wm'.version \in Versions
    BY DEF StatusTypeOK, WmType
  <2>2. \A c \in Connections : conn[c] \in ConnectionType
    BY DEF StatusTypeOK
  <2> QED  BY <2>1, <2>2, RecordsAge DEF RecordsOK
<1>5. Registered'
  BY DEF Registered
<1> QED  BY <1>1, <1>2, <1>3, <1>4, <1>5

LEMMA ChangeKeeps ==
  ASSUME StatusInv, Change
  PROVE  StatusInv'
<1> USE DEF StatusInv
<1>1. /\ wm \in WmType /\ wm.pc = "dispatch" /\ UNCHANGED <<conn, shared, accepting>>
      /\ wm' = [wm EXCEPT !.version = @ + 1, !.dirty = TRUE]
  BY DEF Change, StatusTypeOK
<1>2. wm.version + 1 \in Versions /\ wm.version <= wm.version + 1
  BY <1>1, StatusAssumption DEF Change, WmType, Versions
<1>3. wm' \in WmType /\ wm'.pc = "dispatch" /\ wm.version <= wm'.version
  BY <1>1, <1>2 DEF WmType
<1>4. PublishUnderWay' /\ WorkIsSeen'
  BY <1>3 DEF PublishUnderWay, WorkIsSeen
<1> QED  BY <1>1, <1>3, <1>4, LoopMoves DEF shared, StatusTypeOK

LEMMA RenderStartKeeps ==
  ASSUME StatusInv, RenderStart
  PROVE  StatusInv'
<1> USE DEF StatusInv
<1>1. wm \in WmType /\ wm.pc = "dispatch" /\ UNCHANGED <<conn, shared, accepting>>
  BY DEF RenderStart, StatusTypeOK
<1> DEFINE pc == IF registry = <<>> THEN "dispatch" ELSE "build"
<1>2. wm' \in WmType /\ wm'.pc \in {"dispatch", "build"} /\ wm.version <= wm'.version
  <2>1. wm' = [wm EXCEPT !.dirty = FALSE, !.pc = pc] /\ pc \in {"dispatch", "build"}
    BY DEF RenderStart
  <2> HIDE DEF pc
  <2>2. wm' \in WmType /\ wm'.pc = pc /\ wm'.version = wm.version
    BY <1>1, <2>1 DEF WmType
  <2> QED  BY <1>1, <2>1, <2>2, StatusAssumption DEF WmType, Versions
<1>3. PublishUnderWay' /\ WorkIsSeen'
  BY <1>2 DEF PublishUnderWay, WorkIsSeen
<1> QED  BY <1>1, <1>2, <1>3, LoopMoves DEF shared, StatusTypeOK

LEMMA LockRegistryKeeps ==
  ASSUME StatusInv, LockRegistry
  PROVE  StatusInv'
<1> USE DEF StatusInv
<1>1. /\ wm \in WmType /\ wm.pc = "build" /\ UNCHANGED <<conn, shared, accepting>>
      /\ registry \in Seq(Connections)
  BY DEF LockRegistry, StatusTypeOK
<1>2. /\ wm' \in WmType /\ wm'.pc \in {"dispatch", "store"} /\ wm.version <= wm'.version
      /\ wm'.pc = "store" => wm'.todo # <<>>
  <2> DEFINE pc == IF registry = <<>> THEN "dispatch" ELSE "store"
  <2>1. /\ wm' = [wm EXCEPT !.pc = pc, !.todo = registry]
        /\ pc \in {"dispatch", "store"} /\ (pc = "store" => registry # <<>>)
    BY DEF LockRegistry
  <2> HIDE DEF pc
  <2>2. wm' \in WmType /\ wm'.pc = pc /\ wm'.version = wm.version /\ wm'.todo = registry
    BY <1>1, <2>1 DEF WmType
  <2> QED  BY <1>1, <2>1, <2>2, StatusAssumption DEF WmType, Versions
<1>3. PublishUnderWay' /\ WorkIsSeen'
  BY <1>2 DEF PublishUnderWay, WorkIsSeen
<1> QED  BY <1>1, <1>2, <1>3, LoopMoves DEF shared, StatusTypeOK

LEMMA ServiceCommandsKeeps ==
  ASSUME StatusInv, service_control_commands
  PROVE  StatusInv'
<1> USE DEF StatusInv
<1>1. /\ wm \in WmType /\ wm.pc \in {"dispatch", "commands"}
      /\ UNCHANGED <<conn, registry, requests, eventfd, accepting>> /\ commands' = 0
  BY DEF service_control_commands, StatusTypeOK
<1> DEFINE v == IF commands > 0 /\ wm.version < MaxVersion THEN wm.version + 1 ELSE wm.version
<1>2. v \in Versions /\ wm.version <= v
  BY <1>1, StatusAssumption DEF WmType, Versions
<1> DEFINE after == IF wm.pc = "dispatch" THEN "poll" ELSE "dispatch"
           dirty == wm.dirty \/ commands > 0
<1>3. after \in {"dispatch", "poll"} /\ dirty \in BOOLEAN
  BY <1>1 DEF WmType
<1>4. wm' = [wm EXCEPT !.pc = "requests", !.after = after, !.version = v, !.dirty = dirty]
  BY <1>1 DEF service_control_commands, WmType
<1> HIDE DEF v, after, dirty
<1>5. wm' \in WmType /\ wm'.pc = "requests" /\ wm'.version = v
  BY <1>1, <1>2, <1>3, <1>4 DEF WmType
<1>6. Cardinality(Poking') \in Nat
  BY SomeConnections DEF Poking
<1>7. PublishUnderWay' /\ WorkIsSeen'
  BY <1>1, <1>5, <1>6 DEF PublishUnderWay, WorkIsSeen
<1> QED  BY <1>1, <1>2, <1>5, <1>7, LoopMoves DEF StatusTypeOK

LEMMA ServicedKeeps ==
  ASSUME StatusInv, Serviced
  PROVE  StatusInv'
<1> USE DEF StatusInv
<1>1. /\ wm \in WmType /\ wm.pc = "requests" /\ UNCHANGED <<conn, shared, accepting>>
      /\ wm' = [wm EXCEPT !.pc = wm.after] /\ requests = <<>>
  BY DEF Serviced, Loop, StatusTypeOK
<1>2. wm' \in WmType /\ wm'.pc \in {"dispatch", "poll"} /\ wm.version <= wm'.version
  BY <1>1, StatusAssumption DEF WmType, Versions
<1>3. PublishUnderWay'
  BY <1>2 DEF PublishUnderWay
<1>4. WorkIsSeen'
  BY <1>1, <1>2 DEF WorkIsSeen, Poking, shared
<1> QED  BY <1>1, <1>2, <1>3, <1>4, LoopMoves DEF shared, StatusTypeOK

LEMMA PollRiverKeeps ==
  ASSUME StatusInv, PollRiver
  PROVE  StatusInv'
<1> USE DEF StatusInv
<1>1. /\ wm \in WmType /\ wm.pc = "poll" /\ UNCHANGED <<conn, shared, accepting>>
      /\ wm' = [wm EXCEPT !.pc = "dispatch"]
  BY DEF PollRiver, Loop, StatusTypeOK
<1>2. wm' \in WmType /\ wm'.pc = "dispatch" /\ wm.version <= wm'.version
  BY <1>1, StatusAssumption DEF WmType, Versions
<1>3. PublishUnderWay' /\ WorkIsSeen'
  BY <1>2 DEF PublishUnderWay, WorkIsSeen
<1> QED  BY <1>1, <1>2, <1>3, LoopMoves DEF shared, StatusTypeOK

LEMMA PollWakeKeeps ==
  ASSUME StatusInv, PollWake
  PROVE  StatusInv'
<1> USE DEF StatusInv
<1>1. /\ wm \in WmType /\ wm.pc = "poll" /\ eventfd' = FALSE
      /\ UNCHANGED <<conn, registry, requests, commands, accepting>>
      /\ wm' = [wm EXCEPT !.pc = "commands"]
  BY DEF PollWake, StatusTypeOK
<1>2. wm' \in WmType /\ wm'.pc = "commands" /\ wm.version <= wm'.version
  BY <1>1, StatusAssumption DEF WmType, Versions
<1>3. PublishUnderWay' /\ WorkIsSeen'
  BY <1>2 DEF PublishUnderWay, WorkIsSeen
<1> QED  BY <1>1, <1>2, <1>3, LoopMoves DEF StatusTypeOK

\* The loop hands something to one thread, which stays where it is.
LEMMA LoopGives ==
  ASSUME StatusInv, NEW c \in Connections, NEW r \in ConnectionType,
         conn' = [conn EXCEPT ![c] = r], UNCHANGED <<registry, commands, eventfd, accepting>>,
         requests' \in Seq(Connections),
         wm' \in WmType, wm'.version = wm.version, wm'.pc \notin {"poll", "requests"} \/ wm' = wm,
         wm.pc # "poll", PublishUnderWay',
         r.pc = conn[c].pc, r.kind = conn[c].kind, RecordOK(r, wm.version), NothingStranded'
  PROVE  StatusInv'
<1> USE DEF StatusInv
<1>1. \A d \in Connections : conn'[d] = IF d = c THEN r ELSE conn[d]
  BY DEF StatusTypeOK
<1>2. StatusTypeOK'
  BY DEF StatusTypeOK, accepting
<1>3. HandlersBounded' /\ ListenerWaits'
  BY <1>1, PlacesKept
<1>4. RecordsOK'
  BY <1>1 DEF RecordsOK
<1>5. Registered'
  BY <1>1 DEF Registered
<1>6. WorkIsSeen'
  <2>1. Poking' = Poking
    BY <1>1 DEF Poking
  <2> QED  BY <2>1 DEF WorkIsSeen
<1> QED  BY <1>2, <1>3, <1>4, <1>5, <1>6

\* The subscriber a publish visits.
LEMMA Visited ==
  ASSUME StatusInv, wm.pc \in {"store", "wake"}
  PROVE  /\ wm \in WmType /\ Head(wm.todo) \in Connections /\ Tail(wm.todo) \in Seq(Connections)
         /\ Len(wm.todo) \in Nat /\ Len(Tail(wm.todo)) = Len(wm.todo) - 1
         /\ conn[Head(wm.todo)] \in ConnectionType
         /\ RecordOK(conn[Head(wm.todo)], wm.version)
<1> USE DEF StatusInv
<1>1. wm \in WmType /\ wm.todo \in Seq(Connections) /\ wm.todo # <<>>
  BY DEF StatusTypeOK, WmType, PublishUnderWay
<1>2. Head(wm.todo) \in Connections /\ Tail(wm.todo) \in Seq(Connections)
      /\ Len(Tail(wm.todo)) = Len(wm.todo) - 1
  BY <1>1, HeadTailProperties
<1> QED  BY <1>1, <1>2, LenProperties DEF StatusTypeOK, RecordsOK

LEMMA StoreKeeps ==
  ASSUME StatusInv, Store
  PROVE  StatusInv'
<1> USE DEF StatusInv
<1> DEFINE c == Head(wm.todo)
           due == IF conn[c].pc \in InLoop THEN wm.version ELSE conn[c].due
           r == [conn[c] EXCEPT !.slot = wm.version, !.due = due]
<1>1. /\ wm.pc = "store" /\ wm' = [wm EXCEPT !.pc = "wake"] /\ UNCHANGED <<shared, accepting>>
  BY DEF Store, Loop
<1>2. /\ wm \in WmType /\ c \in Connections /\ conn[c] \in ConnectionType
      /\ RecordOK(conn[c], wm.version) /\ wm.todo # <<>>
  BY <1>1, Visited DEF PublishUnderWay
<1>3. conn' = [conn EXCEPT ![c] = r]
  BY <1>2 DEF Store, Published, StatusTypeOK
<1>4. wm.version \in Versions /\ wm.version \in 0 .. MaxVersion /\ wm.version # None
  BY <1>2, StatusAssumption DEF WmType, Versions
<1>5. due \in 0 .. MaxVersion
  BY <1>2, <1>4 DEF ConnectionType
<1> HIDE DEF due
<1>6. /\ r \in ConnectionType /\ r.pc = conn[c].pc /\ r.kind = conn[c].kind
      /\ r.slot = wm.version /\ r.due = due /\ r.answer = conn[c].answer /\ r.seen = conn[c].seen
  BY <1>2, <1>4, <1>5 DEF ConnectionType
<1> HIDE DEF r
<1>7. RecordOK(r, wm.version)
  <2>1. wm.version <= wm.version
    BY <1>4, StatusAssumption DEF Versions
  <2> QED  BY <1>2, <1>6, <2>1 DEF RecordOK, due
<1>8. /\ wm' \in WmType /\ wm'.version = wm.version /\ wm'.pc = "wake" /\ wm'.todo = wm.todo
  BY <1>1, <1>2 DEF WmType
<1>9. PublishUnderWay'
  BY <1>2, <1>8 DEF PublishUnderWay
<1>10. \A d \in Connections : conn'[d] = IF d = c THEN r ELSE conn[d]
  BY <1>3 DEF StatusTypeOK
<1>11. NothingStranded'
  BY <1>1, <1>8, <1>10 DEF NothingStranded
<1> HIDE DEF c
<1> QED  BY <1>1, <1>2, <1>3, <1>6, <1>7, <1>8, <1>9, <1>11, LoopGives DEF shared, StatusTypeOK

LEMMA WakeKeeps ==
  ASSUME StatusInv, Wake
  PROVE  StatusInv'
<1> USE DEF StatusInv
<1> DEFINE c == Head(wm.todo)
           r == [conn[c] EXCEPT !.token = TRUE]
           pc == IF Len(wm.todo) = 1 THEN "dispatch" ELSE "store"
<1>1. /\ wm.pc = "wake" /\ wm' = [wm EXCEPT !.todo = Tail(wm.todo), !.pc = pc]
      /\ UNCHANGED <<shared, accepting>>
  <2>1. wm \in WmType
    BY DEF StatusTypeOK
  <2> QED  BY <2>1 DEF Wake, WmType
<1>2. /\ wm \in WmType /\ c \in Connections /\ conn[c] \in ConnectionType
      /\ RecordOK(conn[c], wm.version) /\ Tail(wm.todo) \in Seq(Connections)
      /\ Len(wm.todo) \in Nat /\ Len(Tail(wm.todo)) = Len(wm.todo) - 1
  BY <1>1, Visited
<1>3. conn' = [conn EXCEPT ![c] = r]
  BY <1>2 DEF Wake, Published, StatusTypeOK
<1>4. /\ r \in ConnectionType /\ r.pc = conn[c].pc /\ r.kind = conn[c].kind /\ r.token
      /\ r.slot = conn[c].slot /\ r.due = conn[c].due /\ r.answer = conn[c].answer
      /\ r.seen = conn[c].seen
  BY <1>2 DEF ConnectionType
<1> HIDE DEF r
<1>5. RecordOK(r, wm.version)
  BY <1>2, <1>4 DEF RecordOK
<1>6. /\ wm' \in WmType /\ wm'.version = wm.version /\ wm'.pc = pc /\ wm'.todo = Tail(wm.todo)
      /\ pc \in {"dispatch", "store"}
  BY <1>1, <1>2 DEF WmType
<1>7. PublishUnderWay'
  <2>1. ASSUME pc = "store" PROVE Tail(wm.todo) # <<>>
    <3>1. Len(Tail(wm.todo)) # 0
      BY <1>2, <2>1
    <3> QED  BY <3>1, EmptySeq
  <2> QED  BY <1>6, <2>1 DEF PublishUnderWay
<1> HIDE DEF pc
<1>8. \A d \in Connections : conn'[d] = IF d = c THEN r ELSE conn[d]
  BY <1>3 DEF StatusTypeOK
<1>9. NothingStranded'
  BY <1>1, <1>4, <1>6, <1>8 DEF NothingStranded
<1> HIDE DEF c
<1> QED  BY <1>1, <1>2, <1>3, <1>4, <1>5, <1>6, <1>7, <1>9, LoopGives DEF shared, StatusTypeOK

LEMMA ServiceRequestsKeeps ==
  ASSUME StatusInv, service_status_requests
  PROVE  StatusInv'
<1> USE DEF StatusInv
<1> DEFINE c == Head(requests)
           answer == IF conn[c].pc \in {"poke", "waiting"} THEN wm.version ELSE conn[c].answer
           r == [conn[c] EXCEPT !.answer = answer]
<1>1. /\ wm.pc = "requests" /\ requests # <<>> /\ requests' = Tail(requests)
      /\ UNCHANGED <<wm, registry, commands, eventfd, accepting>>
  BY DEF service_status_requests
<1>2. c \in Connections /\ Tail(requests) \in Seq(Connections)
  BY <1>1, HeadTailProperties DEF StatusTypeOK
<1>3. /\ wm \in WmType /\ conn[c] \in ConnectionType /\ RecordOK(conn[c], wm.version)
  BY <1>2 DEF StatusTypeOK, RecordsOK
<1>4. conn' = [conn EXCEPT ![c] = r]
  BY <1>2 DEF service_status_requests, StatusTypeOK
<1>5. answer \in Versions \cup {None}
  BY <1>3 DEF ConnectionType, WmType
<1> HIDE DEF answer
<1>6. /\ r \in ConnectionType /\ r.pc = conn[c].pc /\ r.kind = conn[c].kind
      /\ r.slot = conn[c].slot /\ r.due = conn[c].due /\ r.answer = answer
      /\ r.seen = conn[c].seen /\ r.token = conn[c].token
  BY <1>3, <1>5 DEF ConnectionType
<1> HIDE DEF r
<1>7. RecordOK(r, wm.version)
  <2>1. wm.version <= wm.version
    BY <1>3, StatusAssumption DEF WmType, Versions
  <2>2. CASE conn[c].pc \in {"poke", "waiting"}
    <3>1. r.answer = wm.version
      BY <1>6, <2>2 DEF answer
    <3> QED  BY <1>3, <1>6, <2>1, <2>2, <3>1 DEF RecordOK, InLoop
  <2>3. CASE conn[c].pc \notin {"poke", "waiting"}
    <3>1. r.answer = conn[c].answer
      BY <1>6, <2>3 DEF answer
    <3> QED  BY <1>3, <1>6, <3>1 DEF RecordOK
  <2> QED  BY <2>2, <2>3
<1>8. \A d \in Connections : conn'[d] = IF d = c THEN r ELSE conn[d]
  BY <1>4 DEF StatusTypeOK
<1>9. NothingStranded'
  BY <1>1, <1>6, <1>8 DEF NothingStranded
<1>10. PublishUnderWay'
  BY <1>1 DEF PublishUnderWay
<1> HIDE DEF c
<1> QED  BY <1>1, <1>2, <1>3, <1>4, <1>6, <1>7, <1>9, <1>10, LoopGives DEF StatusTypeOK

-----------------------------------------------------------------------------

LEMMA StatusInvInit ==
  StatusInit => StatusInv
<1> SUFFICES ASSUME StatusInit PROVE StatusInv
  OBVIOUS
<1>1. /\ \A c \in Connections : conn[c] = NewConnection
      /\ registry = <<>> /\ requests = <<>> /\ commands = 0 /\ eventfd = FALSE
      /\ listener = None /\ active = 0
  BY DEF StatusInit
<1>2. <<>> \in Seq(Connections) /\ Len(<<>>) = 0
  BY EmptySeq
<1>3. 1 \in Versions /\ 0 \in 0 .. MaxVersion
  BY StatusAssumption DEF Versions
<1>4. wm \in WmType /\ wm.pc = "dispatch" /\ wm.version = 1
  BY <1>2, <1>3 DEF StatusInit, WmType
<1>5. NewConnection \in ConnectionType
  BY <1>3 DEF NewConnection, ConnectionType
<1>6. StatusTypeOK
  <2>1. conn \in [Connections -> ConnectionType]
    BY <1>5 DEF StatusInit
  <2> QED  BY <1>1, <1>2, <1>4, <2>1 DEF StatusTypeOK
<1>7. HandlersBounded
  <2>1. {c \in Connections : conn[c].pc \in Handling} = {}
    BY <1>1, Places DEF NewConnection
  <2> QED  BY <1>1, <2>1, FS_EmptySet, StatusAssumption DEF HandlersBounded
<1>8. RecordOK(NewConnection, 1)
  BY DEF RecordOK, NewConnection, InLoop
<1>9. NothingStranded /\ RecordsOK /\ Registered
  BY <1>1, <1>4, <1>8, Places DEF NothingStranded, RecordsOK, Registered, NewConnection, Registers, InLoop
<1>10. WorkIsSeen /\ ListenerWaits /\ PublishUnderWay
  BY <1>1, <1>4 DEF WorkIsSeen, ListenerWaits, PublishUnderWay
<1> QED  BY <1>6, <1>7, <1>9, <1>10 DEF StatusInv

LEMMA StatusInvNext ==
  StatusInv /\ [StatusNext]_svars => StatusInv'
<1> SUFFICES ASSUME StatusInv, [StatusNext]_svars PROVE StatusInv'
  OBVIOUS
<1>1. ASSUME NEW c \in Connections, HandlerStep(c) PROVE StatusInv'
  BY <1>1, ReadLineKeeps, RegisterKeeps, SendKeeps, PokeKeeps, ReceiveAnswerKeeps,
     AnswerTimeoutKeeps, ClearSlotKeeps, DrainTokensKeeps, RecvKeeps, TakeKeeps, UnregisterKeeps,
     ExitKeeps DEF HandlerStep
<1>2. ASSUME NEW c \in Connections, Accept(c) PROVE StatusInv'
  BY <1>2, AcceptKeeps
<1>3. CASE Judge
  BY <1>3, JudgeKeeps
<1>4. CASE Change
  BY <1>4, ChangeKeeps
<1>5. CASE LoopStep
  BY <1>5, RenderStartKeeps, LockRegistryKeeps, StoreKeeps, WakeKeeps, ServiceCommandsKeeps,
     ServiceRequestsKeeps, ServicedKeeps, PollRiverKeeps, PollWakeKeeps DEF LoopStep
<1>6. CASE UNCHANGED svars
  BY <1>6 DEF svars, StatusInv, StatusTypeOK, HandlersBounded, NothingStranded, RecordsOK,
              Registered, WorkIsSeen, Poking, ListenerWaits, PublishUnderWay
<1> QED  BY <1>1, <1>2, <1>3, <1>4, <1>5, <1>6 DEF StatusNext

LEMMA StatusInvHolds ==
  StatusSpec => []StatusInv
BY StatusInvInit, StatusInvNext, PTL DEF StatusSpec

\* Every field keeps its type; the counter of clients never goes below zero.
THEOREM StatusTypeCorrect ==
  StatusSpec => []StatusTypeOK
<1>1. StatusInv => StatusTypeOK
  BY DEF StatusInv
<1> QED  BY <1>1, StatusInvHolds, PTL

\* At most MAX_STATUS_CLIENTS handler threads run, and the counter counts them
\* (start_on, ClientGuard), however many connections come.
THEOREM HandlersBoundedHolds ==
  StatusSpec => []HandlersBounded
<1>1. StatusInv => HandlersBounded
  BY DEF StatusInv
<1> QED  BY <1>1, StatusInvHolds, PTL

\* The event loop never sleeps on work without a poke to come
\* (connection.rs run, request_snapshot).
THEOREM NoLostWakeupHolds ==
  StatusSpec => []NoLostWakeup
<1>1. StatusInv => NoLostWakeup
  BY DEF StatusInv, WorkIsSeen, NoLostWakeup, Poking
<1> QED  BY <1>1, StatusInvHolds, PTL

\* What is published to a subscriber in its loop is never stranded in its cell
\* (Subscribers::publish against stream_snapshots).
THEOREM NothingStrandedHolds ==
  StatusSpec => []NothingStranded
<1>1. StatusInv => NothingStranded
  BY DEF StatusInv
<1> QED  BY <1>1, StatusInvHolds, PTL

-----------------------------------------------------------------------------

\* Only the two writes of a handler move what its client has seen.
LEMMA OthersSendNothing ==
  ASSUME StatusTypeOK, [StatusNext]_svars, NEW c \in Connections, conn'[c].pc \in InLoop,
         ~DrainTokens(c), ~Take(c)
  PROVE  conn'[c].seen = conn[c].seen
<1>1. \A d \in Connections : conn[d] \in ConnectionType
  BY DEF StatusTypeOK
<1>2. ASSUME NEW d \in Connections, HandlerStep(d) PROVE conn'[c].seen = conn[c].seen
  <2>1. ASSUME NEW kind \in Kinds \cup {None}, ReadLine(d, kind) PROVE conn'[c].seen = conn[c].seen
    BY <1>1, <2>1 DEF ReadLine, StatusTypeOK, ConnectionType
  <2>2. ASSUME NEW from, NEW to, Goto(d, from, to) PROVE conn'[c].seen = conn[c].seen
    BY <1>1, <2>2 DEF Goto, StatusTypeOK, ConnectionType
  <2>3. CASE Register(d) \/ Send(d) \/ Poke(d) \/ ReceiveAnswer(d) \/ AnswerTimeout(d) \/ Unregister(d)
    BY <2>2, <2>3 DEF Register, Send, Poke, ReceiveAnswer, AnswerTimeout, Unregister
  <2>4. CASE ClearSlot(d) \/ Recv(d)
    <3>1. CASE ClearSlot(d)
      BY <1>1, <3>1 DEF ClearSlot, StatusTypeOK, ConnectionType
    <3>2. CASE Recv(d)
      BY <1>1, <3>2 DEF Recv, StatusTypeOK, ConnectionType
    <3> QED  BY <2>4, <3>1, <3>2
  <2>5. CASE DrainTokens(d) \/ Take(d)
    <3>1. d # c
      BY <2>5
    <3>2. CASE DrainTokens(d)
      BY <3>1, <3>2 DEF DrainTokens, StatusTypeOK
    <3>3. CASE Take(d)
      BY <3>1, <3>3 DEF Take, StatusTypeOK
    <3> QED  BY <2>5, <3>2, <3>3
  <2>6. CASE Exit(d)
    <3>1. d # c
      BY <2>6 DEF Exit, StatusTypeOK, NewConnection, InLoop
    <3> QED  BY <2>6, <3>1 DEF Exit, StatusTypeOK
  <2> QED  BY <1>2, <2>1, <2>3, <2>4, <2>5, <2>6 DEF HandlerStep
<1>3. CASE \E d \in Connections : Accept(d)
  BY <1>3 DEF Accept
<1>4. CASE Judge
  BY <1>1, <1>4 DEF Judge, StatusTypeOK, ConnectionType
<1>5. CASE Change \/ UNCHANGED svars
  BY <1>5 DEF Change, svars
<1>6. CASE LoopStep
  <2>1. ASSUME NEW d \in Connections, NEW step PROVE Published(conn[d], step).seen = conn[d].seen
    BY <1>1 DEF Published, ConnectionType
  <2>2. CASE Store \/ Wake
    <3>1. PICK step : conn' = [conn EXCEPT ![Head(wm.todo)] = Published(@, step)]
      BY <2>2 DEF Store, Wake
    <3>2. CASE Head(wm.todo) = c
      <4>1. conn'[c] = Published(conn[c], step)
        BY <3>1, <3>2 DEF StatusTypeOK
      <4> QED  BY <2>1, <4>1
    <3>3. CASE Head(wm.todo) # c
      BY <3>1, <3>3 DEF StatusTypeOK
    <3> QED  BY <3>2, <3>3
  <2>3. CASE service_status_requests
    BY <1>1, <2>3 DEF service_status_requests, StatusTypeOK, ConnectionType
  <2>4. CASE ~(Store \/ Wake \/ service_status_requests)
    BY <1>6, <2>4 DEF LoopStep, RenderStart, LockRegistry, service_control_commands, Serviced,
                      PollRiver, PollWake
  <2> QED  BY <2>2, <2>3, <2>4
<1> QED  BY <1>2, <1>3, <1>4, <1>5, <1>6 DEF StatusNext

\* A step after which a thread is in its loop sends its client nothing older.
LEMMA SeenGrows ==
  ASSUME StatusInv, [StatusNext]_svars, NEW c \in Connections, conn'[c].pc \in InLoop
  PROVE  conn'[c].seen >= conn[c].seen
<1>1. /\ StatusTypeOK /\ conn[c] \in ConnectionType /\ RecordOK(conn[c], wm.version)
  BY DEF StatusInv, StatusTypeOK, RecordsOK
<1>2. /\ conn[c].seen \in Nat
      /\ conn[c].slot # None => conn[c].slot \in Nat
      /\ conn[c].answer # None => conn[c].answer \in Nat
  BY <1>1, StatusAssumption DEF ConnectionType, Versions
<1>3. CASE DrainTokens(c)
  <2>1. conn[c].pc = "drain" /\ conn'[c].seen = conn[c].answer
    BY <1>1, <1>3 DEF DrainTokens, StatusTypeOK, ConnectionType, InLoop
  <2> QED  BY <1>1, <1>2, <2>1 DEF RecordOK, InLoop
<1>4. CASE Take(c)
  <2>1. /\ conn[c].pc = "take"
        /\ conn'[c].seen = IF conn[c].slot = None THEN conn[c].seen ELSE conn[c].slot
    BY <1>1, <1>4 DEF Take, StatusTypeOK, ConnectionType, InLoop
  <2> QED  BY <1>1, <1>2, <2>1 DEF RecordOK, InLoop
<1>5. CASE ~DrainTokens(c) /\ ~Take(c)
  <2>1. conn'[c].seen = conn[c].seen
    BY <1>1, <1>5, OthersSendNothing
  <2> QED  BY <1>2, <2>1
<1> QED  BY <1>3, <1>4, <1>5

\* A subscriber is never sent an older state than one it was sent before
\* (stream_snapshots discards what was published before its first snapshot).
THEOREM NeverRegressesHolds ==
  StatusSpec => NeverRegresses
<1>1. StatusInv /\ [StatusNext]_svars =>
        [\A c \in Connections : conn'[c].pc \in InLoop => conn'[c].seen >= conn[c].seen]_svars
  BY SeenGrows
<1> QED  BY <1>1, StatusInvHolds, PTL DEF StatusSpec, NeverRegresses
=============================================================================
