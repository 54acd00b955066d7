----------------------------- MODULE Supervisor -----------------------------
(***************************************************************************)
(* The supervisor, src/main.rs: runs the worker, and when it fails starts  *)
(* it again after a delay that grows with the failures in a rolling        *)
(* window, until there are too many.                                       *)
(*                                                                         *)
(* A time stamp is kept as the time since, up to the window's length,      *)
(* beyond which the code no longer tells them apart.                       *)
(***************************************************************************)
EXTENDS Integers, Sequences

CONSTANTS RestartWindow,          \* RESTART_WINDOW, in ticks
          MaxRestartsInWindow,    \* MAX_RESTARTS_IN_WINDOW
          InitialRestartDelay, MaxRestartDelay

ASSUME SupervisorAssumption == /\ RestartWindow \in Nat \ {0}
                               /\ MaxRestartsInWindow \in Nat \ {0}
                               /\ InitialRestartDelay \in Nat \ {0}
                               /\ MaxRestartDelay \in Nat
                               /\ MaxRestartDelay >= InitialRestartDelay

VARIABLES supervisor,    \* pc, delay left, ages of `failures`
          restarts       \* history: ages of the restarts in the latest window

supvars == <<supervisor, restarts>>

Lesser(a, b) == IF a < b THEN a ELSE b

\* 1 << exponent, from exponent 0 on.
Shifted == <<1, 2, 4, 8, 16>>

\* Faulty variant: doubled once too often, and not capped.
restart_delay_uncapped(recent_failures) == InitialRestartDelay * 2 ^ recent_failures

restart_delay(recent_failures) ==
  Lesser(InitialRestartDelay * Shifted[Lesser(recent_failures, 5)], MaxRestartDelay)

\* Where the oldest within the window is, if any: those before it are too old.
FirstWithin(ages) ==
  CHOOSE i \in 1 .. Len(ages) + 1 :
    /\ \A j \in 1 .. i - 1 : ages[j] >= RestartWindow
    /\ i <= Len(ages) => ages[i] < RestartWindow

Within(ages) == SubSeq(ages, FirstWithin(ages), Len(ages))

\* Faulty variant: failures are never forgotten.
Recorded_all(failures) == Append(failures, 0)

\* The rolling queue with the failure that just happened.
Recorded(failures) == Append(Within(failures), 0)

\* Faulty variant: one restart too many.
TooMany_late(failures) == Len(failures) > MaxRestartsInWindow + 1

\* `failures` includes the one just recorded.
TooMany(failures) == Len(failures) > MaxRestartsInWindow

SupervisorInit ==
  /\ supervisor = [pc |-> "running", delay |-> 0, failures |-> <<>>]
  /\ restarts = <<>>

\* The worker exits with an error, or cannot be started.
WorkerFails ==
  LET failures == Recorded(supervisor.failures)
  IN  /\ supervisor.pc = "running"
      /\ supervisor' =
           IF TooMany(failures)
             THEN [pc |-> "gave_up", delay |-> 0, failures |-> failures]
             ELSE [pc |-> "backoff", delay |-> restart_delay(Len(failures)),
                   failures |-> failures]
      /\ UNCHANGED restarts

WorkerSucceeds ==
  /\ supervisor.pc = "running"
  /\ supervisor' = [supervisor EXCEPT !.pc = "done"]
  /\ UNCHANGED restarts

WorkerRestarts ==
  /\ supervisor.pc = "backoff" /\ supervisor.delay = 0
  /\ supervisor' = [supervisor EXCEPT !.pc = "running"]
  /\ restarts' = Append(restarts, 0)

Older(ages) == [i \in DOMAIN ages |-> Lesser(ages[i] + 1, RestartWindow)]

SupervisorElapsed ==
  /\ supervisor' = [supervisor EXCEPT !.delay = IF @ = 0 THEN 0 ELSE @ - 1,
                                      !.failures = Older(@)]
  /\ restarts' = Within(Older(restarts))

-----------------------------------------------------------------------------
\* The type invariant.
SupervisorTypeOK ==
  /\ supervisor \in [pc : {"running", "backoff", "done", "gave_up"}, delay : 0 .. MaxRestartDelay,
                     failures : Seq(0 .. RestartWindow)]
  /\ Len(supervisor.failures) <= MaxRestartsInWindow + 1
  /\ restarts \in Seq(0 .. RestartWindow)

\* "capped at 5 restarts per minute": the restarts of one window never exceed
\* the maximum, though what the code counts is failures, and a restart comes
\* later than its failure by a delay that varies (supervise, restart_delay).
RestartsCapped == Len(restarts) <= MaxRestartsInWindow

\* The supervisor gives up only when the worker failed more often than it may
\* within one window; isolated failures never add up (supervise).
GivesUpOnlyInBurst == supervisor.pc = "gave_up" => Len(restarts) >= MaxRestartsInWindow
=============================================================================
