---------------------------- MODULE LidListener ----------------------------
(***************************************************************************)
(* The lid and dock listener, src/lid.rs: a loop that polls which displays *)
(* are connected, takes the lid events logind sent, and runs the commands  *)
(* that switch kanshi's profile and turn the internal panel on.            *)
(*                                                                         *)
(*   listener  the locals of `run`, and where it sleeps; a deadline is the *)
(*             time left until it                                          *)
(*   world     external: the lid, the connectors, logind's last unread     *)
(*             event, and what the commands have brought about             *)
(*   stale     history: the last commands failed without a retry armed, or *)
(*             were for connectors other than those the listener goes by   *)
(*                                                                         *)
(* A command may fail.  One turn of the loop is one step, but for the      *)
(* sleeps after the lid opens: `topology` is read before them and used     *)
(* after them.                                                             *)
(***************************************************************************)
EXTENDS Integers, Sequences

CONSTANTS None,
          PollInterval, OpenDebounce, OpenRetryDelay,    \* delays, in ticks
          RecoveryRetryInterval,
          UndockedRetryDelays                            \* a sequence of delays

Topologies == [internal : BOOLEAN, external : BOOLEAN]    \* DisplayTopology

ASSUME LidAssumption == /\ {PollInterval, OpenDebounce, OpenRetryDelay,
                            RecoveryRetryInterval} \subseteq Nat \ {0}
                        /\ UndockedRetryDelays \in Seq(Nat \ {0})
                        /\ UndockedRetryDelays # <<>>
                        /\ None \notin Nat \cup BOOLEAN \cup Topologies

VARIABLES listener, world, stale

lvars == <<listener, world, stale>>

Profiles == {"open", "closed", "undocked", "other"}

ListenerType ==
  [pc : {"off", "top", "debounce", "retry"}, sleep : Nat,
   topology : Topologies \cup {None}, prev_lid_closed : BOOLEAN \cup {None},
   prev_topology : Topologies \cup {None},
   undocked_retry : [nth : DOMAIN UndockedRetryDelays, left : Nat] \cup {None},
   recovery_retry : Nat \cup {None}]
WorldType ==
  [lid : BOOLEAN, topology : Topologies, logind : {"starting", "streaming", "dead"},
   event : BOOLEAN \cup {None}, profile : Profiles]

Undocked(t) == t.internal /\ ~t.external

clamshell_available(t) == t.external

-----------------------------------------------------------------------------
(***************************************************************************)
(* Commands.  Each operator gives the attempts that can result: what the   *)
(* world is after it, and whether it worked.                               *)
(***************************************************************************)
Failed(w) == [world |-> w, ok |-> FALSE]
Switched(w, profile) == [world |-> [w EXCEPT !.profile = profile], ok |-> TRUE]
NoAttempt(w) == [world |-> w, ok |-> None]

\* kanshictl accepts one of the candidates, or none.
apply_profile(w, profile) == {Switched(w, profile), Failed(w)}

\* wlr-randr may fail though kanshictl switches: that is a failure too.
recover_undocked(w) ==
  apply_profile(w, "undocked") \cup {Failed(Switched(w, "undocked").world)}

apply_closed_profile(w, t) ==
  IF clamshell_available(t) THEN apply_profile(w, "closed") ELSE recover_undocked(w)

recover_open_outputs(w, t) ==
  IF Undocked(t) THEN recover_undocked(w) ELSE apply_profile(w, "open")

apply_current_profile(w, closed, t) ==
  IF closed THEN apply_closed_profile(w, t) ELSE recover_open_outputs(w, t)

-----------------------------------------------------------------------------
(***************************************************************************)
(* The two retry timers.                                                   *)
(***************************************************************************)
\* Faulty variant: only the fast retries count.
Due_fastOnly(l) == l.undocked_retry # None /\ l.undocked_retry.left = 0

Due(l) ==
  \/ l.undocked_retry # None /\ l.undocked_retry.left = 0
  \/ l.recovery_retry = 0

Disarmed(l) == [l EXCEPT !.undocked_retry = None, !.recovery_retry = None]

\* The next of the fast retries, counted from a change of the connectors.
NextFastRetry(l, changed) ==
  LET n == IF changed THEN 1 ELSE l.undocked_retry.nth + 1
  IN  IF (~changed /\ l.undocked_retry = None) \/ n > Len(UndockedRetryDelays) THEN None
      ELSE [nth |-> n, left |-> UndockedRetryDelays[n]]

Rearmed(l, changed, ok) ==
  [l EXCEPT !.recovery_retry = IF ok THEN None ELSE RecoveryRetryInterval,
            !.undocked_retry = NextFastRetry(l, changed)]

\* Faulty variant: a change of the connectors alone does not count.
should_recover_undocked_dueOnly(closed, t, changed, due) == ~closed /\ Undocked(t) /\ due

should_recover_undocked(closed, t, changed, due) == ~closed /\ Undocked(t) /\ (changed \/ due)

\* Faulty variant: a lid that stays closed leaves the timers alone.
React_keptClosed(l, w, closed, t) ==
  LET changed == l.prev_topology # t
      Settled(attempts) == {[timers |-> Disarmed(l), attempt |-> a] : a \in attempts}
  IN  IF l.prev_topology = None THEN Settled({NoAttempt(w)})
      ELSE IF closed /\ changed THEN Settled(apply_closed_profile(w, t))
      ELSE IF should_recover_undocked(closed, t, changed, Due(l))
        THEN {[timers |-> Rearmed(l, changed, a.ok), attempt |-> a] : a \in recover_undocked(w)}
      ELSE {[timers |-> l, attempt |-> NoAttempt(w)]}

\* The second half of a turn: answer a change of the connectors, or a timer.
\* Gives the listener with its timers set, and the attempt made, as they may be.
React(l, w, closed, t) ==
  LET changed == l.prev_topology # t
      Settled(attempts) == {[timers |-> Disarmed(l), attempt |-> a] : a \in attempts}
  IN  IF l.prev_topology = None THEN Settled({NoAttempt(w)})
      ELSE IF closed
        THEN Settled(IF changed THEN apply_closed_profile(w, t) ELSE {NoAttempt(w)})
      ELSE IF should_recover_undocked(closed, t, changed, Due(l))
        THEN {[timers |-> Rearmed(l, changed, a.ok), attempt |-> a] : a \in recover_undocked(w)}
      ELSE IF changed /\ t.external THEN Settled(apply_profile(w, "open"))
      ELSE IF ~Undocked(t) THEN Settled({NoAttempt(w)})
      ELSE {[timers |-> l, attempt |-> NoAttempt(w)]}

-----------------------------------------------------------------------------
(***************************************************************************)
(* The loop.                                                               *)
(***************************************************************************)
Fresh == [pc |-> "top", sleep |-> 0, topology |-> None,
          prev_lid_closed |-> None, prev_topology |-> None,
          undocked_retry |-> None, recovery_retry |-> None]

Stopped == [Fresh EXCEPT !.pc = "off"]

LidInit ==
  /\ listener = Fresh
  /\ world \in [lid : BOOLEAN, topology : Topologies, logind : {"starting"}, event : {None},
                profile : {"other"}]
  /\ stale = FALSE

Awake(pc) == listener.pc = pc /\ listener.sleep = 0

\* latest_lid_event, or the state of the last turn; a lid never heard of is open.
LidClosed ==
  IF world.event # None THEN world.event
  ELSE IF listener.prev_lid_closed # None THEN listener.prev_lid_closed ELSE FALSE

\* What a turn that opens nothing does first.
FirstAttempts(closed, t) ==
  IF listener.prev_lid_closed = None THEN apply_current_profile(world, closed, t)
  ELSE IF closed /\ ~listener.prev_lid_closed THEN apply_closed_profile(world, t)
  ELSE {NoAttempt(world)}

\* The end of a turn that goes by connectors t, after an attempt for the
\* connectors as they are now.
FinishTurn(first, closed, t) ==
  \E done \in React(listener, first.world, closed, t) :
    /\ listener' = [done.timers EXCEPT !.pc = "top", !.sleep = PollInterval,
                                       !.topology = None,
                                       !.prev_lid_closed = closed, !.prev_topology = t]
    /\ world' = [done.attempt.world EXCEPT !.event = IF listener.pc = "top" THEN None ELSE @]
    /\ stale' = IF done.attempt.ok # None
                  THEN ~done.attempt.ok /\ done.timers.recovery_retry = None
                ELSE IF first.ok # None THEN ~first.ok \/ world.topology # t
                ELSE stale

Opening == listener.prev_lid_closed = TRUE /\ ~LidClosed

Turn ==
  /\ Awake("top") /\ ~Opening
  /\ \E first \in FirstAttempts(LidClosed, world.topology) :
       FinishTurn(first, LidClosed, world.topology)

\* Faulty variant: the connectors are not read before the wait.
OpenLid_unread ==
  /\ Awake("top") /\ Opening
  /\ listener' = [listener EXCEPT !.pc = "debounce", !.sleep = OpenDebounce]
  /\ world' = [world EXCEPT !.event = None]
  /\ UNCHANGED stale

\* The lid opened: wait for the panel's connector before switching.
OpenLid ==
  /\ Awake("top") /\ Opening
  /\ listener' = [listener EXCEPT !.pc = "debounce", !.sleep = OpenDebounce,
                                  !.topology = world.topology]
  /\ world' = [world EXCEPT !.event = None]
  /\ UNCHANGED stale

SwitchOpened ==
  /\ Awake("debounce")
  /\ \E attempt \in recover_open_outputs(world, world.topology) : world' = attempt.world
  /\ listener' = [listener EXCEPT !.pc = "retry", !.sleep = OpenRetryDelay]
  /\ UNCHANGED stale

SwitchAgain ==
  /\ Awake("retry")
  /\ \E attempt \in recover_open_outputs(world, world.topology) :
       FinishTurn(attempt, FALSE, listener.topology)

ListenerStep == Turn \/ OpenLid \/ SwitchOpened \/ SwitchAgain

\* A retried recovery that works.
RecoverySucceeds == Turn /\ listener.recovery_retry # None /\ listener'.recovery_retry = None

-----------------------------------------------------------------------------
(***************************************************************************)
(* The world: lid, dock, logind, time.                                     *)
(***************************************************************************)
LidMoves ==
  /\ world' = [world EXCEPT !.lid = ~@,
                            !.event = IF world.logind = "streaming" THEN ~world.lid ELSE @]
  /\ UNCHANGED <<listener, stale>>

DisplaysChange(t) ==
  /\ t # world.topology
  /\ world' = [world EXCEPT !.topology = t]
  /\ UNCHANGED <<listener, stale>>

\* logind_listener: the lid's state first, then every change of it.
LogindAnswers ==
  /\ listener.pc # "off" /\ world.logind = "starting"
  /\ world' = [world EXCEPT !.logind = "streaming", !.event = world.lid]
  /\ UNCHANGED <<listener, stale>>

LogindLost ==
  /\ world.logind # "dead"
  /\ world' = [world EXCEPT !.logind = "dead"]
  /\ UNCHANGED <<listener, stale>>

Left(d) == IF d \in Nat \ {0} THEN d - 1 ELSE d

Nearer(retry) == IF retry = None THEN None ELSE [retry EXCEPT !.left = Left(@)]

Elapsed(l) == [l EXCEPT !.sleep = Left(@), !.recovery_retry = Left(@),
                        !.undocked_retry = Nearer(@)]

EnvironmentStep ==
  LidMoves \/ LogindLost \/ \E t \in Topologies : DisplaysChange(t)

-----------------------------------------------------------------------------
(***************************************************************************)
(* Properties.                                                             *)
(***************************************************************************)
\* The type invariant.
LidTypeOK ==
  /\ listener \in ListenerType
  /\ listener.topology # None <=> listener.pc \in {"debounce", "retry"}
  /\ world \in WorldType
  /\ stale \in BOOLEAN

\* "a healthy session does not re-apply its output configuration every tick":
\* a retry is armed only while the listener takes the lid for open and the
\* laptop for undocked, so no timer of an earlier undocking touches the
\* outputs of a docked or closed one (run).
TimersOnlyUndocked ==
  (listener.undocked_retry # None \/ listener.recovery_retry # None) =>
     /\ listener.prev_lid_closed = FALSE
     /\ listener.prev_topology # None /\ Undocked(listener.prev_topology)

\* "A failing recovery ... is retried until it succeeds": an armed retry does
\* not stay armed for ever, though the fast retries and it share the branch.
ArmedRecoveryEnds ==
  (listener.recovery_retry # None) ~> (listener.recovery_retry = None)

Running == listener.pc # "off" /\ world.logind = "streaming"

\* The profile for a lid and connectors; None where there is no display.
Wanted(closed, t) ==
  CASE t.external -> IF closed THEN "closed" ELSE "open"
    [] Undocked(t) -> "undocked"
    [] OTHER       -> None

Matches == Wanted(world.lid, world.topology) \in {None, world.profile}
=============================================================================
