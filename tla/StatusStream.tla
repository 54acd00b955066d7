---------------------------- MODULE StatusStream ----------------------------
(***************************************************************************)
(* The status socket, src/status.rs: one listener thread, one handler      *)
(* thread per connection, and the window manager's thread, which alone     *)
(* reads the state.  They share two channels to the window manager, an     *)
(* eventfd that wakes it, the locked registry of subscribers, and for each *)
(* subscriber a locked one-value cell and a wake channel of depth one.     *)
(*                                                                         *)
(* The state the snapshots are taken of is reduced to a version number.    *)
(* A step is what one thread does up to its next access to shared data.    *)
(*                                                                         *)
(*   wm         the window manager's thread: where its event loop is, the  *)
(*              version of the state, whether river owes it a manage and   *)
(*              render sequence, and the subscribers a publish has yet to visit   *)
(*   conn       the connections and their handler threads                  *)
(*   registry   Subscribers.clients                                        *)
(*   requests   the channel of snapshot requests                           *)
(*   commands   how many commands are in theirs                            *)
(*   eventfd    the wake eventfd is readable                               *)
(*   listener   the listener thread: idle, or judging one connection       *)
(*   active     ACTIVE_CLIENTS                                             *)
(***************************************************************************)
EXTENDS Integers, Sequences, FiniteSets, SequencesExt

CONSTANTS NumConnections,  \* bound: connections ever made
          MaxClients,      \* MAX_STATUS_CLIENTS, 16 in the code
          MaxVersion,      \* bound: versions of the state
          None             \* Rust's Option::None

\* The requests on a connection.
Kinds == {"subscribe", "get_status", "command"}

ASSUME StatusAssumption == /\ NumConnections \in Nat
                           /\ MaxClients \in Nat \ {0}
                           /\ MaxVersion \in Nat \ {0}
                           /\ None \notin Nat \cup Kinds

VARIABLES wm, conn, registry, requests, commands, eventfd, listener, active

shared == <<registry, requests, commands, eventfd>>
accepting == <<listener, active>>
svars == <<wm, conn, registry, requests, commands, eventfd, listener, active>>

Connections == 1 .. NumConnections    \* in the order they are accepted
Versions == 1 .. MaxVersion

\* Where a handler thread is.
Handling == {"open", "register", "send", "poke", "waiting", "clear", "drain",
             "recv", "take", "leave", "exit"}
InLoop == {"recv", "take"}

NewConnection == [pc |-> "absent", kind |-> None, slot |-> None, token |-> FALSE,
                  answer |-> None, seen |-> 0, due |-> 0]

WmType == [pc : {"dispatch", "build", "store", "wake", "commands", "requests", "poll"},
           after : {"dispatch", "poll"}, version : Versions, dirty : BOOLEAN,
           todo : Seq(Connections)]
ConnectionType == [pc : Handling \cup {"absent", "gone"}, kind : Kinds \cup {None},
                   slot : Versions \cup {None}, token : BOOLEAN,
                   answer : Versions \cup {None}, seen : 0 .. MaxVersion, due : 0 .. MaxVersion]

\* The type invariant.
StatusTypeOK ==
  /\ wm \in WmType
  /\ conn \in [Connections -> ConnectionType]
  /\ registry \in Seq(Connections)
  /\ requests \in Seq(Connections)
  /\ commands \in Nat
  /\ eventfd \in BOOLEAN
  /\ listener \in Connections \cup {None}
  /\ active \in Nat

StatusInit ==
  /\ wm = [pc |-> "dispatch", after |-> "poll", version |-> 1, dirty |-> TRUE,
           todo |-> <<>>]
  /\ conn = [c \in Connections |-> NewConnection]
  /\ registry = <<>>
  /\ requests = <<>>
  /\ commands = 0
  /\ eventfd = FALSE
  /\ listener = None
  /\ active = 0

-----------------------------------------------------------------------------
(***************************************************************************)
(* The listener: count the connection, then serve it or turn it away.      *)
(***************************************************************************)
Accept(c) ==
  /\ listener = None
  /\ conn[c].pc = "absent" /\ \A d \in 1 .. (c - 1) : conn[d].pc # "absent"
  /\ listener' = c
  /\ active' = active + 1
  /\ UNCHANGED <<wm, conn, shared>>

\* Faulty variant: one too many is let in.
TooMany_late == active - 1 > MaxClients

\* fetch_add returned the count before this connection.
TooMany == active - 1 >= MaxClients

\* Faulty variant: the guard of a refused connection counts it off once more.
Judge_guarded ==
  /\ listener # None
  /\ conn' = [conn EXCEPT ![listener].pc = IF TooMany THEN "gone" ELSE "open"]
  /\ active' = IF TooMany THEN active - 2 ELSE active
  /\ listener' = None
  /\ UNCHANGED <<wm, shared>>

Judge ==
  /\ listener # None
  /\ conn' = [conn EXCEPT ![listener].pc = IF TooMany THEN "gone" ELSE "open"]
  /\ active' = IF TooMany THEN active - 1 ELSE active
  /\ listener' = None
  /\ UNCHANGED <<wm, shared>>

-----------------------------------------------------------------------------
(***************************************************************************)
(* A handler thread: handle_client, request_snapshot, stream_snapshots.    *)
(***************************************************************************)
Goto(c, from, to) == /\ conn[c].pc = from
                     /\ conn' = [conn EXCEPT ![c].pc = to]

\* The line it reads, or nothing within the read timeout.
ReadLine(c, kind) ==
  /\ conn[c].pc = "open"
  /\ conn' = [conn EXCEPT ![c].kind = kind,
                          ![c].pc = CASE kind = "subscribe" -> "register"
                                      [] kind \in {"get_status", "command"} -> "send"
                                      [] kind = None -> "exit"]
  /\ UNCHANGED <<wm, shared, accepting>>

\* The registry's lock is held for the whole of a publish.
RegistryFree == wm.pc \notin {"store", "wake"}

Register(c) ==
  /\ RegistryFree
  /\ Goto(c, "register", "send")
  /\ registry' = Append(registry, c)
  /\ UNCHANGED <<wm, requests, commands, eventfd, accepting>>

Send(c) ==
  /\ Goto(c, "send", "poke")
  /\ requests' = IF conn[c].kind = "command" THEN requests ELSE Append(requests, c)
  /\ commands' = IF conn[c].kind = "command" THEN commands + 1 ELSE commands
  /\ UNCHANGED <<wm, registry, eventfd, accepting>>

Poke(c) ==
  /\ Goto(c, "poke", IF conn[c].kind = "command" THEN "exit" ELSE "waiting")
  /\ eventfd' = TRUE
  /\ UNCHANGED <<wm, registry, requests, commands, accepting>>

AfterAnswer(c) == IF conn[c].kind = "subscribe" THEN "clear" ELSE "exit"
AfterTimeout(c) == IF conn[c].kind = "subscribe" THEN "leave" ELSE "exit"

ReceiveAnswer(c) ==
  /\ conn[c].answer # None
  /\ Goto(c, "waiting", AfterAnswer(c))
  /\ UNCHANGED <<wm, shared, accepting>>

\* Two seconds pass without an answer.
AnswerTimeout(c) ==
  /\ conn[c].answer = None
  /\ Goto(c, "waiting", AfterTimeout(c))
  /\ UNCHANGED <<wm, shared, accepting>>

\* Faulty variant: neither the cell nor the wake token from before the first
\* snapshot is discarded.
ClearSlot_never(c) ==
  /\ conn[c].pc = "clear"
  /\ conn' = [conn EXCEPT ![c].pc = "recv", ![c].seen = conn[c].answer]
  /\ UNCHANGED <<wm, shared, accepting>>

ClearSlot(c) ==
  /\ conn[c].pc = "clear"
  /\ conn' = [conn EXCEPT ![c].pc = "drain", ![c].slot = None]
  /\ UNCHANGED <<wm, shared, accepting>>

\* Only the drain is seen by other threads; the write that follows is not.
DrainTokens(c) ==
  /\ conn[c].pc = "drain"
  /\ \/ conn' = [conn EXCEPT ![c].pc = "recv", ![c].token = FALSE, ![c].seen = conn[c].answer]
     \/ conn' = [conn EXCEPT ![c].pc = "leave"]
  /\ UNCHANGED <<wm, shared, accepting>>

Recv(c) ==
  /\ conn[c].pc = "recv" /\ conn[c].token
  /\ conn' = [conn EXCEPT ![c].pc = "take", ![c].token = FALSE]
  /\ UNCHANGED <<wm, shared, accepting>>

\* Take the cell and write what was in it.  The write fails when the client
\* hung up, or when five seconds pass without it reading.
Take(c) ==
  /\ conn[c].pc = "take"
  /\ \/ conn' = [conn EXCEPT ![c].pc = "recv", ![c].slot = None,
                             ![c].seen = IF conn[c].slot = None THEN @ ELSE conn[c].slot]
     \/ /\ conn[c].slot # None
        /\ conn' = [conn EXCEPT ![c].pc = "leave", ![c].slot = None]
  /\ UNCHANGED <<wm, shared, accepting>>

Unregister(c) ==
  /\ RegistryFree
  /\ Goto(c, "leave", "exit")
  /\ registry' = RemoveAt(registry, CHOOSE i \in DOMAIN registry : registry[i] = c)
  /\ UNCHANGED <<wm, requests, commands, eventfd, accepting>>

\* ClientGuard is dropped, and the thread's channels with it.
Exit(c) ==
  /\ conn[c].pc = "exit"
  /\ conn' = [conn EXCEPT ![c] = [NewConnection EXCEPT !.pc = "gone"]]
  /\ active' = active - 1
  /\ UNCHANGED <<wm, shared, listener>>

-----------------------------------------------------------------------------
(***************************************************************************)
(* The window manager's thread: the event loop of connection.rs.           *)
(***************************************************************************)
Loop(from, to) == wm.pc = from /\ wm' = [wm EXCEPT !.pc = to]

\* An event of river changes the state; a manage and a render sequence follow.
Change ==
  /\ wm.pc = "dispatch"
  /\ wm.version < MaxVersion
  /\ wm' = [wm EXCEPT !.version = @ + 1, !.dirty = TRUE]
  /\ UNCHANGED <<conn, shared, accepting>>

\* on_render_start ends with refresh_snapshot, which first looks whether
\* anyone subscribed.
RenderStart ==
  /\ wm.pc = "dispatch" /\ wm.dirty
  /\ wm' = [wm EXCEPT !.dirty = FALSE, !.pc = IF registry = <<>> THEN "dispatch" ELSE "build"]
  /\ UNCHANGED <<conn, shared, accepting>>

\* The snapshot is built; publish locks the registry.
LockRegistry ==
  /\ wm.pc = "build"
  /\ wm' = [wm EXCEPT !.pc = IF registry = <<>> THEN "dispatch" ELSE "store", !.todo = registry]
  /\ UNCHANGED <<conn, shared, accepting>>

\* Faulty variant: prods the thread before the snapshot is there.
Published_late(r, step) ==
  IF step = "store" THEN [r EXCEPT !.token = TRUE]
  ELSE [r EXCEPT !.slot = wm.version, !.due = IF r.pc \in InLoop THEN wm.version ELSE @]

\* What publish does to one subscriber: it stores the snapshot, then prods the
\* thread (try_send leaves a full wake channel as it is).
Published(r, step) ==
  IF step = "store"
  THEN [r EXCEPT !.slot = wm.version, !.due = IF r.pc \in InLoop THEN wm.version ELSE @]
  ELSE [r EXCEPT !.token = TRUE]

Store ==
  /\ Loop("store", "wake")
  /\ conn' = [conn EXCEPT ![Head(wm.todo)] = Published(@, "store")]
  /\ UNCHANGED <<shared, accepting>>

Wake ==
  /\ wm.pc = "wake"
  /\ conn' = [conn EXCEPT ![Head(wm.todo)] = Published(@, "wake")]
  /\ wm' = [wm EXCEPT !.todo = Tail(@), !.pc = IF Len(wm.todo) = 1 THEN "dispatch" ELSE "store"]
  /\ UNCHANGED <<shared, accepting>>

\* Commands change the state and ask river for a manage sequence; a render
\* sequence follows it.
service_control_commands ==
  /\ wm.pc \in {"dispatch", "commands"}
  /\ wm' = [wm EXCEPT !.pc = "requests",
                      !.after = IF wm.pc = "dispatch" THEN "poll" ELSE "dispatch",
                      !.version = IF commands > 0 /\ @ < MaxVersion THEN @ + 1 ELSE @,
                      !.dirty = @ \/ commands > 0]
  /\ commands' = 0
  /\ UNCHANGED <<conn, registry, requests, eventfd, accepting>>

\* A requester that gave up has dropped its end of the answer.
service_status_requests ==
  /\ wm.pc = "requests"
  /\ requests # <<>>
  /\ conn' = [conn EXCEPT ![Head(requests)].answer =
                 IF conn[Head(requests)].pc \in {"poke", "waiting"} THEN wm.version ELSE @]
  /\ requests' = Tail(requests)
  /\ UNCHANGED <<wm, registry, commands, eventfd, accepting>>

\* Faulty variant: drains the eventfd after serving the channels.
Serviced_drained ==
  /\ requests = <<>>
  /\ Loop("requests", wm.after)
  /\ eventfd' = FALSE
  /\ UNCHANGED <<conn, registry, requests, commands, accepting>>

Serviced ==
  /\ requests = <<>>
  /\ Loop("requests", wm.after)
  /\ UNCHANGED <<conn, shared, accepting>>

\* poll returns for river alone, or also for the eventfd, which is then drained
\* before the channels are served once more.
PollRiver ==
  /\ wm.dirty \/ wm.version < MaxVersion
  /\ ~eventfd
  /\ Loop("poll", "dispatch")
  /\ UNCHANGED <<conn, shared, accepting>>

PollWake ==
  /\ wm.pc = "poll" /\ eventfd
  /\ eventfd' = FALSE
  /\ wm' = [wm EXCEPT !.pc = "commands"]
  /\ UNCHANGED <<conn, registry, requests, commands, accepting>>

-----------------------------------------------------------------------------
HandlerStep(c) ==
  \/ \E kind \in Kinds \cup {None} : ReadLine(c, kind)
  \/ Register(c) \/ Send(c) \/ Poke(c)
  \/ ReceiveAnswer(c) \/ AnswerTimeout(c)
  \/ ClearSlot(c) \/ DrainTokens(c) \/ Recv(c) \/ Take(c)
  \/ Unregister(c) \/ Exit(c)

LoopStep ==
  \/ RenderStart \/ LockRegistry \/ Store \/ Wake
  \/ service_control_commands \/ service_status_requests \/ Serviced
  \/ PollRiver \/ PollWake

StatusNext == \/ \E c \in Connections : Accept(c) \/ HandlerStep(c)
              \/ Judge
              \/ Change
              \/ LoopStep

\* Threads run; the sequences that were asked for come, so the loop does not
\* spin past them.
StatusFairness == /\ \A c \in Connections : WF_svars(HandlerStep(c))
                  /\ WF_svars(Judge)
                  /\ WF_svars(LoopStep) /\ SF_svars(RenderStart)

StatusSpec == StatusInit /\ [][StatusNext]_svars /\ StatusFairness

-----------------------------------------------------------------------------
(***************************************************************************)
(* Properties.                                                             *)
(***************************************************************************)
\* However connections arrive and end, at most MAX_STATUS_CLIENTS handler
\* threads run, and the counter counts them: none leaks a place.
HandlersBounded ==
  LET running == {c \in Connections : conn[c].pc \in Handling}
  IN  /\ Cardinality(running) <= MaxClients
      /\ active = Cardinality(running) + (IF listener = None THEN 0 ELSE 1)

\* The event loop never sleeps on work: when it blocks in poll with nothing to
\* wake it, whoever put something into a channel has yet to poke it.
NoLostWakeup ==
  (wm.pc = "poll" /\ ~eventfd) =>
     /\ \A i \in 1 .. Len(requests) : conn[requests[i]].pc = "poke"
     /\ commands <= Cardinality({c \in Connections : /\ conn[c].kind = "command"
                                                     /\ conn[c].pc = "poke"})

\* A subscriber is never sent an older state than one it was sent before: a
\* publish that raced the first snapshot must not follow it.
NeverRegresses ==
  [][\A c \in Connections : conn'[c].pc \in InLoop => conn'[c].seen >= conn[c].seen]_svars

\* What is published to a subscriber in its loop is never stranded: until it
\* has been sent, a wake token, the thread itself or the publish under way is
\* about to see to it.
NothingStranded ==
  \A c \in Connections :
     (conn[c].pc \in InLoop /\ conn[c].due > conn[c].seen) =>
        \/ conn[c].token
        \/ conn[c].pc = "take"
        \/ wm.pc = "wake" /\ Head(wm.todo) = c

\* "Always receives the newest": once the state stops changing, a subscriber
\* that stays ends up with the newest snapshot.
AlwaysNewest == <>[](\A c \in Connections : conn[c].pc = "recv" => conn[c].seen = wm.version)
=============================================================================
