------------------------------ MODULE Session ------------------------------
(***************************************************************************)
(* A session: the supervisor, and in the worker it runs the lid listener.  *)
(* A worker that fails takes the listener's timers and memory with it; the *)
(* displays keep what it made of them, and lid and dock do not wait.       *)
(***************************************************************************)
EXTENDS LidListener, Supervisor

sessionvars == <<listener, world, stale, supervisor, restarts>>

SessionInit == LidInit /\ SupervisorInit

Runs == ListenerStep /\ UNCHANGED supvars

\* What ends a worker ends its threads.
WorkerDies ==
  /\ WorkerFails \/ WorkerSucceeds
  /\ listener' = Stopped
  /\ world' = [world EXCEPT !.logind = "dead", !.event = None]
  /\ UNCHANGED stale

\* run_worker spawns the listener anew.
WorkerStarts ==
  /\ WorkerRestarts
  /\ listener' = Fresh
  /\ world' = [world EXCEPT !.logind = "starting", !.event = None]
  /\ UNCHANGED stale

\* No time passes while someone is due to act.
Tick ==
  /\ supervisor.pc = "running" => listener.sleep > 0
  /\ supervisor.pc = "backoff" => supervisor.delay > 0
  /\ supervisor.pc \notin {"done", "gave_up"}
  /\ listener' = Elapsed(listener)
  /\ SupervisorElapsed
  /\ UNCHANGED <<world, stale>>

Surroundings == (EnvironmentStep \/ LogindAnswers) /\ UNCHANGED supvars

\* Of a listener that runs, a supervisor that restarts and a clock, one is due.
Progress == Runs \/ WorkerStarts \/ Tick

SessionNext == Progress \/ WorkerDies \/ Surroundings

\* The threads run and time passes; and a recovery that is tried over and over
\* works in the end ("kanshi has not started yet").
SessionFairness ==
  /\ WF_sessionvars(Progress)
  /\ SF_sessionvars(RecoverySucceeds /\ UNCHANGED supvars)

SessionSpec == SessionInit /\ [][SessionNext]_sessionvars /\ SessionFairness

-----------------------------------------------------------------------------
\* Lid and dock stay as they are, and a worker that runs goes on running.
Undisturbed ==
  [][/\ world'.lid = world.lid /\ world'.topology = world.topology
     /\ supervisor.pc = "running" => supervisor'.pc = "running"]_sessionvars

\* "Automatically switches kanshi display output profiles on lid open/close,
\* dock connection, or laptop undocking": once lid, dock and worker stay as
\* they are, kanshi ends up with the profile for them, whatever timers, sleeps
\* and restarts came before; unless the last switch failed where no retry is
\* armed, or was for displays other than those the listener goes by (stale).
ProfileSettles ==
  <>Undisturbed => <>[](Matches \/ stale \/ ~Running)
=============================================================================
