--------------------------- MODULE SessionProofs ---------------------------
(***************************************************************************)
(* Theorems about a session: the lid listener and the supervisor, for      *)
(* every delay, window and number of retries and restarts.                 *)
(*                                                                         *)
(* That restarts are capped though failures are counted takes an invariant *)
(* which lines the two queues up: failures and restarts alternate, and     *)
(* when the queue of failures is full the delay is the longest there is.   *)
(***************************************************************************)
EXTENDS Session, SequenceLemmas, WellFoundedInduction

-----------------------------------------------------------------------------
(***************************************************************************)
(* The supervisor.                                                         *)
(***************************************************************************)
\* The longest delay the supervisor waits for: after the last failure it forgives.
LongestDelay == restart_delay(MaxRestartsInWindow)

\* Restarts and failures alternate.  The restart at i follows the failure at
\* i + Lead and comes before the one at i + Lead + 1, counted in `failures` as
\* it is now: below 1 are those forgotten.
Lead == Len(supervisor.failures) - Len(restarts) - (IF supervisor.pc \in {"backoff", "gave_up"} THEN 1 ELSE 0)

\* A restart came at most the longest delay after its failure; if that failure is
\* forgotten it is as old as the window, and the restart almost so.
RestartsFollow ==
  \A i \in 1 .. Len(restarts) :
     \/ i + Lead >= 1 /\ supervisor.failures[i + Lead] <= restarts[i] + LongestDelay
     \/ restarts[i] + LongestDelay >= RestartWindow

\* A failure after a restart of this window is in the queue, and no older.
FailuresRemembered ==
  \A i \in 1 .. Len(restarts) :
     i + Lead < Len(supervisor.failures) =>
        i + Lead >= 0 /\ supervisor.failures[i + Lead + 1] <= restarts[i]

\* The restart after a failure of this window is one of this window, and no older.
RestartsRemembered ==
  \A j \in 1 .. Len(supervisor.failures) :
     (j - Lead <= Len(restarts) /\ supervisor.failures[j] < RestartWindow) =>
        j - Lead >= 1 /\ restarts[j - Lead] <= supervisor.failures[j]

\* While the supervisor waits: when there is no room for one more restart, the
\* oldest leaves the window before the delay is over.
RoomInTime ==
  supervisor.pc = "backoff" =>
    LET n == Len(supervisor.failures)
    IN  /\ n >= 1 /\ supervisor.failures[n] + supervisor.delay <= LongestDelay
        /\ Len(restarts) = MaxRestartsInWindow => restarts[1] + supervisor.delay >= RestartWindow

\* The restarts still counted, the oldest first.
RestartsYoung ==
  /\ \A i \in 1 .. Len(restarts) : restarts[i] < RestartWindow
  /\ \A i, k \in 1 .. Len(restarts) : i <= k => restarts[k] <= restarts[i]

FailuresBounded == supervisor.pc # "gave_up" => Len(supervisor.failures) <= MaxRestartsInWindow

\* The inductive invariant of the supervisor.
SupervisorInv ==
  /\ SupervisorTypeOK /\ RestartsCapped /\ GivesUpOnlyInBurst
  /\ RestartsFollow /\ FailuresRemembered /\ RestartsRemembered
  /\ RoomInTime /\ RestartsYoung /\ FailuresBounded

Ages == 0 .. RestartWindow

\* Numbers, if there are any, have a least one.
LEMMA LeastNumber ==
  ASSUME NEW T \in SUBSET Nat, T # {}
  PROVE  \E e \in T : \A i \in T : e <= i
<1> DEFINE Less == {p \in Nat \X Nat : p[1] < p[2]}
<1>1. IsWellFoundedOn(Less, Nat)
  BY NatLessThanWellFounded DEF OpToRel
<1> HIDE DEF Less
<1>2. PICK e \in T : \A i \in T : <<i, e>> \notin Less
  BY <1>1, WFMin
<1>3. \A i \in T : ~(i < e)
  <2> SUFFICES ASSUME NEW i \in T, i < e PROVE FALSE
    OBVIOUS
  <2>1. <<i, e>> \in Less
    BY DEF Less
  <2> QED  BY <1>2, <2>1
<1> QED  BY <1>3

\* Within takes ages from the front, as many as are too old.
LEMMA WithinDrops ==
  ASSUME NEW ages \in Seq(Ages)
  PROVE  \E s \in 0 .. Len(ages) :
           /\ Within(ages) \in Seq(Ages) /\ Len(Within(ages)) = Len(ages) - s
           /\ \A i \in 1 .. Len(ages) - s : Within(ages)[i] = ages[i + s]
           /\ \A j \in 1 .. s : ages[j] >= RestartWindow
           /\ s < Len(ages) => ages[s + 1] < RestartWindow
<1> DEFINE n == Len(ages)
           first == FirstWithin(ages)
           ends == {i \in 1 .. n + 1 : i <= n => ages[i] < RestartWindow}
<1>1. n \in Nat /\ \A i \in 1 .. n : ages[i] \in Ages
  BY LenProperties, ElementOfSeq
<1>2. PICK e \in ends : \A i \in ends : e <= i
  <2>1. ends \in SUBSET Nat /\ n + 1 \in ends
    BY <1>1
  <2> HIDE DEF ends
  <2> QED  BY <2>1, LeastNumber
<1>3. \A j \in 1 .. e - 1 : ages[j] >= RestartWindow
  <2> SUFFICES ASSUME NEW j \in 1 .. e - 1 PROVE ages[j] >= RestartWindow
    OBVIOUS
  <2>1. j \notin ends /\ j \in 1 .. n
    BY <1>1, <1>2
  <2> QED  BY <1>1, <2>1, SupervisorAssumption DEF Ages
<1>4. /\ first \in 1 .. n + 1 /\ \A j \in 1 .. first - 1 : ages[j] >= RestartWindow
      /\ first <= n => ages[first] < RestartWindow
  BY <1>2, <1>3 DEF FirstWithin
<1> HIDE DEF first, ends
<1>5. Within(ages) = SubSeq(ages, first, n)
  BY DEF Within, first
<1>6. /\ SubSeq(ages, first, n) \in Seq(Ages)
      /\ Len(SubSeq(ages, first, n)) = IF first <= n THEN n - first + 1 ELSE 0
      /\ \A i \in 1 .. n - first + 1 : SubSeq(ages, first, n)[i] = ages[first + i - 1]
  <2>1. \A i \in first .. n : ages[i] \in Ages
    BY <1>1, <1>4
  <2> QED  BY <1>1, <1>4, <2>1, SubSeqProperties
<1> HIDE DEF n
<1> DEFINE s == first - 1
<1>7. s \in 0 .. n /\ n - first + 1 = n - s /\ Len(Within(ages)) = n - s
  BY <1>1, <1>4, <1>5, <1>6 DEF n
<1>8. \A i \in 1 .. n - s : Within(ages)[i] = ages[i + s]
  BY <1>1, <1>4, <1>5, <1>6, <1>7
<1>9. (\A j \in 1 .. s : ages[j] >= RestartWindow) /\ (s < n => ages[s + 1] < RestartWindow)
  BY <1>1, <1>4
<1> QED  BY <1>5, <1>6, <1>7, <1>8, <1>9 DEF n

LEMMA OlderAges ==
  ASSUME NEW ages \in Seq(Ages)
  PROVE  /\ Older(ages) \in Seq(Ages) /\ Len(Older(ages)) = Len(ages)
         /\ \A i \in 1 .. Len(ages) : Older(ages)[i] = Lesser(ages[i] + 1, RestartWindow)
<1>1. Len(ages) \in Nat /\ DOMAIN ages = 1 .. Len(ages) /\ \A i \in 1 .. Len(ages) : ages[i] \in Ages
  BY LenProperties, ElementOfSeq
<1>2. \A i \in 1 .. Len(ages) : Lesser(ages[i] + 1, RestartWindow) \in Ages
  BY <1>1, SupervisorAssumption DEF Lesser, Ages
<1>3. Older(ages) = [i \in 1 .. Len(ages) |-> Lesser(ages[i] + 1, RestartWindow)]
  BY <1>1 DEF Older
<1>4. Older(ages) \in [1 .. Len(ages) -> Ages]
  BY <1>2, <1>3
<1>5. Older(ages) \in Seq(Ages)
  BY <1>1, <1>4, SeqDef
<1>6. Len(Older(ages)) = Len(ages)
  BY <1>1, <1>4, <1>5, LenProperties
<1> QED  BY <1>3, <1>5, <1>6

\* The delays grow with the failures.
LEMMA Delays ==
  /\ LongestDelay \in 0 .. MaxRestartDelay
  /\ \A k \in 1 .. MaxRestartsInWindow :
       restart_delay(k) \in 0 .. MaxRestartDelay /\ restart_delay(k) <= LongestDelay
<1> DEFINE D(e) == Lesser(InitialRestartDelay * Shifted[e], MaxRestartDelay)
<1>1. \A a, b \in 1 .. 5 : a <= b => D(a) \in 0 .. MaxRestartDelay /\ D(a) <= D(b)
  <2>1. /\ Shifted[1] = 1 /\ Shifted[2] = 2 /\ Shifted[3] = 4 /\ Shifted[4] = 8
        /\ Shifted[5] = 16
    BY DEF Shifted
  <2>2. /\ D(1) = Lesser(InitialRestartDelay, MaxRestartDelay)
        /\ D(2) = Lesser(InitialRestartDelay * 2, MaxRestartDelay)
        /\ D(3) = Lesser(InitialRestartDelay * 4, MaxRestartDelay)
        /\ D(4) = Lesser(InitialRestartDelay * 8, MaxRestartDelay)
        /\ D(5) = Lesser(InitialRestartDelay * 16, MaxRestartDelay)
    BY <2>1, SupervisorAssumption
  <2>3. /\ D(1) \in 0 .. MaxRestartDelay /\ D(2) \in 0 .. MaxRestartDelay
        /\ D(3) \in 0 .. MaxRestartDelay /\ D(4) \in 0 .. MaxRestartDelay
        /\ D(5) \in 0 .. MaxRestartDelay
        /\ D(1) <= D(2) /\ D(2) <= D(3) /\ D(3) <= D(4) /\ D(4) <= D(5)
    <3> HIDE DEF D
    <3> QED  BY <2>2, SupervisorAssumption DEF Lesser
  <2> HIDE DEF D
  <2> QED  BY <2>3, SupervisorAssumption
<1>2. \A k \in Nat \ {0} : restart_delay(k) = D(Lesser(k, 5)) /\ Lesser(k, 5) \in 1 .. 5
  BY DEF restart_delay, Lesser
<1> HIDE DEF D
<1>3. \A k, j \in Nat \ {0} : k <= j => Lesser(k, 5) <= Lesser(j, 5)
  BY DEF Lesser
<1>4. \A k \in 1 .. MaxRestartsInWindow : restart_delay(k) \in 0 .. MaxRestartDelay /\ restart_delay(k) <= LongestDelay
  BY <1>1, <1>2, <1>3, SupervisorAssumption DEF LongestDelay
<1> QED  BY <1>4, SupervisorAssumption DEF LongestDelay
\* What the names in the invariant stand for.
LEMMA SupervisorFacts ==
  ASSUME SupervisorInv
  PROVE  /\ supervisor.failures \in Seq(Ages) /\ restarts \in Seq(Ages)
         /\ Len(supervisor.failures) \in Nat /\ Len(restarts) \in Nat
         /\ \A i \in 1 .. Len(supervisor.failures) : supervisor.failures[i] \in Ages
         /\ \A i \in 1 .. Len(restarts) : restarts[i] \in Ages
         /\ Lead \in Int
<1>1. /\ supervisor.failures \in Seq(Ages) /\ restarts \in Seq(Ages)
  BY DEF SupervisorInv, SupervisorTypeOK, Ages
<1>2. Len(supervisor.failures) \in Nat /\ Len(restarts) \in Nat
  BY <1>1, LenProperties
<1>3. Lead \in Int
  BY <1>2 DEF Lead
<1> QED  BY <1>1, <1>2, <1>3, ElementOfSeq

LEMMA FailureStep ==
  ASSUME SupervisorInv, WorkerFails
  PROVE  SupervisorInv'
<1> DEFINE f == supervisor.failures
           g == Within(f)
           f2 == Recorded(f)
           r == restarts
           n == Len(f)
           m == Len(r)
<1>1. /\ f \in Seq(Ages) /\ r \in Seq(Ages) /\ n \in Nat /\ m \in Nat /\ Lead = n - m
      /\ \A i \in 1 .. n : f[i] \in Ages
      /\ \A i \in 1 .. m : r[i] \in Ages
      /\ n <= MaxRestartsInWindow /\ m <= MaxRestartsInWindow
  BY SupervisorFacts DEF Lead, WorkerFails, SupervisorInv, FailuresBounded, RestartsCapped
<1>2. PICK s \in 0 .. n : /\ g \in Seq(Ages) /\ Len(g) = n - s
                          /\ \A i \in 1 .. n - s : g[i] = f[i + s]
                          /\ \A j \in 1 .. s : f[j] >= RestartWindow
                          /\ s < n => f[s + 1] < RestartWindow
  BY <1>1, WithinDrops
<1>3. /\ f2 \in Seq(Ages) /\ Len(f2) = n - s + 1 /\ f2[n - s + 1] = 0
      /\ \A i \in 1 .. n - s : f2[i] = f[i + s]
  <2>1. 0 \in Ages
    BY SupervisorAssumption DEF Ages
  <2> HIDE DEF f, g, n
  <2>2. /\ Append(g, 0) \in Seq(Ages) /\ Len(Append(g, 0)) = (n - s) + 1 /\ Append(g, 0)[(n - s) + 1] = 0
        /\ \A i \in 1 .. n - s : Append(g, 0)[i] = g[i]
    BY <1>2, <2>1, AppendProperties
  <2> QED  BY <1>1, <1>2, <2>2 DEF Recorded, g
<1>4. /\ supervisor.pc = "running"
      /\ supervisor' = IF Len(f2) > MaxRestartsInWindow
                         THEN [pc |-> "gave_up", delay |-> 0, failures |-> f2]
                         ELSE [pc |-> "backoff", delay |-> restart_delay(Len(f2)), failures |-> f2]
      /\ restarts' = r
  BY DEF WorkerFails, TooMany
<1> HIDE DEF f, g, f2, r, n, m
<1>5. /\ supervisor'.failures = f2
      /\ supervisor'.pc = IF Len(f2) > MaxRestartsInWindow THEN "gave_up" ELSE "backoff"
      /\ Len(f2) <= MaxRestartsInWindow =>
           supervisor'.delay = restart_delay(n - s + 1) /\ n - s + 1 \in 1 .. MaxRestartsInWindow
  <2>1. CASE Len(f2) > MaxRestartsInWindow
    <3>1. supervisor' = [pc |-> "gave_up", delay |-> 0, failures |-> f2]
      BY <1>4, <2>1
    <3>2. ~(Len(f2) <= MaxRestartsInWindow)
      BY <1>1, <1>3, <2>1, SupervisorAssumption
    <3> QED  BY <2>1, <3>1, <3>2
  <2>2. CASE ~(Len(f2) > MaxRestartsInWindow)
    <3>1. supervisor' = [pc |-> "backoff", delay |-> restart_delay(Len(f2)), failures |-> f2]
      BY <1>4, <2>2
    <3>2. n - s + 1 \in 1 .. MaxRestartsInWindow /\ Len(f2) = n - s + 1
      BY <1>1, <1>3, <2>2, SupervisorAssumption
    <3> QED  BY <2>2, <3>1, <3>2
  <2> QED  BY <2>1, <2>2
<1>6. Lead' = Lead - s
  BY <1>1, <1>3, <1>4, <1>5 DEF Lead, r, m
<1>7. /\ \A i \in 1 .. m : \/ i + Lead >= 1 /\ f[i + Lead] <= r[i] + LongestDelay
                           \/ r[i] + LongestDelay >= RestartWindow
      /\ \A i \in 1 .. m : i + Lead < n => i + Lead >= 0 /\ f[i + Lead + 1] <= r[i]
      /\ \A j \in 1 .. n : (j - Lead <= m /\ f[j] < RestartWindow) =>
                             j - Lead >= 1 /\ r[j - Lead] <= f[j]
      /\ \A i \in 1 .. m : r[i] < RestartWindow
  BY DEF SupervisorInv, RestartsFollow, FailuresRemembered, RestartsRemembered, RestartsYoung,
         f, r, n, m
<1>8. LongestDelay \in Nat /\ RestartWindow \in Nat \ {0} /\ MaxRestartsInWindow \in Nat \ {0}
  BY Delays, SupervisorAssumption
<1>9. RestartsFollow'
  <2> SUFFICES ASSUME NEW i \in 1 .. m
               PROVE  \/ i + (Lead - s) >= 1 /\ f2[i + (Lead - s)] <= r[i] + LongestDelay
                      \/ r[i] + LongestDelay >= RestartWindow
    BY <1>4, <1>5, <1>6 DEF RestartsFollow, m
  <2>1. CASE i + Lead >= 1 /\ f[i + Lead] <= r[i] + LongestDelay /\ i + Lead > s
    <3>1. i + (Lead - s) \in 1 .. n - s /\ (i + (Lead - s)) + s = i + Lead
      BY <1>1, <2>1
    <3> QED  BY <1>3, <2>1, <3>1
  <2>2. CASE i + Lead >= 1 /\ f[i + Lead] <= r[i] + LongestDelay /\ ~(i + Lead > s)
    <3>1. i + Lead \in 1 .. s /\ f[i + Lead] \in Ages /\ r[i] \in Ages
      BY <1>1, <2>2
    <3> QED  BY <1>2, <1>8, <2>2, <3>1 DEF Ages
  <2> QED  BY <1>7, <2>1, <2>2
<1>10. FailuresRemembered'
  <2> SUFFICES ASSUME NEW i \in 1 .. m
               PROVE  i + (Lead - s) >= 0 /\ f2[i + (Lead - s) + 1] <= r[i]
    BY <1>4, <1>5, <1>6 DEF FailuresRemembered, m
  <2>0. r[i] \in Ages
    BY <1>1
  <2>1. CASE i + Lead < n
    <3>1. i + Lead >= 0 /\ f[i + Lead + 1] <= r[i] /\ r[i] < RestartWindow
      BY <1>7, <2>1
    <3>2. i + Lead + 1 \in 1 .. n /\ f[i + Lead + 1] \in Ages
      BY <1>1, <2>1, <3>1
    <3>3. ~(i + Lead + 1 \in 1 .. s)
      BY <1>2, <1>8, <2>0, <3>1, <3>2 DEF Ages
    <3>4. i + (Lead - s) + 1 \in 1 .. n - s /\ (i + (Lead - s) + 1) + s = i + Lead + 1
      BY <1>1, <3>2, <3>3
    <3> QED  BY <1>1, <1>3, <3>1, <3>4
  <2>2. CASE ~(i + Lead < n)
    <3>1. i + (Lead - s) + 1 = n - s + 1 /\ i + (Lead - s) >= 0
      BY <1>1, <2>2
    <3> QED  BY <1>3, <2>0, <3>1 DEF Ages
  <2> QED  BY <2>1, <2>2
<1>11. RestartsRemembered'
  <2> SUFFICES ASSUME NEW j \in 1 .. n - s + 1, j - (Lead - s) <= m, f2[j] < RestartWindow
               PROVE  j - (Lead - s) >= 1 /\ r[j - (Lead - s)] <= f2[j]
    BY <1>3, <1>4, <1>5, <1>6 DEF RestartsRemembered, m
  <2>1. j \in 1 .. n - s /\ j + s \in 1 .. n /\ (j + s) - Lead = j - (Lead - s)
    BY <1>1
  <2>2. f2[j] = f[j + s]
    BY <1>3, <2>1
  <2> QED  BY <1>7, <2>1, <2>2
<1>12. RoomInTime'
  <2> SUFFICES ASSUME supervisor'.pc = "backoff"
               PROVE  /\ Len(f2) >= 1 /\ f2[Len(f2)] + supervisor'.delay <= LongestDelay
                      /\ m = MaxRestartsInWindow => r[1] + supervisor'.delay >= RestartWindow
    BY <1>4, <1>5 DEF RoomInTime, m
  <2>0. Len(f2) <= MaxRestartsInWindow /\ supervisor'.delay = restart_delay(n - s + 1)
    BY <1>1, <1>3, <1>5, <1>8
  <2>1. /\ restart_delay(n - s + 1) \in Nat /\ restart_delay(n - s + 1) <= LongestDelay
        /\ n - s + 1 <= MaxRestartsInWindow
    BY <1>3, <1>5, <2>0, Delays
  <2>2. ASSUME m = MaxRestartsInWindow
        PROVE  r[1] + restart_delay(n - s + 1) >= RestartWindow
    <3>1. 1 \in 1 .. m /\ 1 + (Lead - s) = n - s + 1 - m
      BY <1>1, <1>8, <2>2
    <3>2. /\ \/ 1 + (Lead - s) >= 1
             \/ r[1] + LongestDelay >= RestartWindow
          /\ 1 + (Lead - s) < n - s + 1 => 1 + (Lead - s) >= 0
      BY <1>3, <1>4, <1>5, <1>6, <1>9, <1>10, <3>1 DEF RestartsFollow, FailuresRemembered, m
    <3>3. n - s + 1 = MaxRestartsInWindow /\ r[1] + LongestDelay >= RestartWindow
      BY <1>1, <1>8, <2>1, <2>2, <3>1, <3>2
    <3> QED  BY <3>3 DEF LongestDelay
  <2> QED  BY <1>1, <1>3, <2>0, <2>1, <2>2
<1>13. GivesUpOnlyInBurst'
  <2> SUFFICES ASSUME Len(f2) > MaxRestartsInWindow PROVE m >= MaxRestartsInWindow
    BY <1>4, <1>5 DEF GivesUpOnlyInBurst, m
  <2>1. s = 0 /\ n = MaxRestartsInWindow
    BY <1>1, <1>3, <1>8
  <2>2. 1 \in 1 .. n /\ f[1] < RestartWindow /\ 1 - Lead <= m
    BY <1>1, <1>2, <1>8, <2>1
  <2>3. 1 - Lead >= 1
    BY <1>7, <2>2
  <2> QED  BY <1>1, <2>1, <2>3
<1>14. SupervisorTypeOK'
  <2>1. supervisor' \in [pc : {"running", "backoff", "done", "gave_up"}, delay : 0 .. MaxRestartDelay,
                         failures : Seq(Ages)]
    <3>1. CASE Len(f2) > MaxRestartsInWindow
      <4>1. 0 \in 0 .. MaxRestartDelay
        BY SupervisorAssumption
      <4> QED  BY <1>3, <1>4, <3>1, <4>1
    <3>2. CASE ~(Len(f2) > MaxRestartsInWindow)
      <4>1. restart_delay(Len(f2)) \in 0 .. MaxRestartDelay
        BY <1>1, <1>3, <1>8, <3>2, Delays
      <4> QED  BY <1>3, <1>4, <3>2, <4>1
    <3> QED  BY <3>1, <3>2
  <2>2. Len(f2) <= MaxRestartsInWindow + 1
    BY <1>1, <1>3, <1>8
  <2> QED  BY <1>1, <1>4, <1>5, <2>1, <2>2 DEF SupervisorTypeOK, Ages
<1>15. RestartsCapped' /\ RestartsYoung' /\ FailuresBounded'
  <2>1. RestartsCapped' /\ RestartsYoung'
    BY <1>4 DEF SupervisorInv, RestartsCapped, RestartsYoung, r
  <2> QED  BY <1>3, <1>5, <1>8, <1>1, <2>1 DEF FailuresBounded
<1> QED
  BY <1>9, <1>10, <1>11, <1>12, <1>13, <1>14, <1>15 DEF SupervisorInv

LEMMA SuccessStep ==
  ASSUME SupervisorInv, WorkerSucceeds
  PROVE  SupervisorInv'
<1>1. /\ supervisor.pc = "running" /\ supervisor'.pc = "done"
      /\ supervisor'.delay = supervisor.delay /\ supervisor'.failures = supervisor.failures
      /\ supervisor' \in [pc : {"running", "backoff", "done", "gave_up"}, delay : 0 .. MaxRestartDelay,
                          failures : Seq(0 .. RestartWindow)]
      /\ restarts' = restarts
  BY DEF WorkerSucceeds, SupervisorInv, SupervisorTypeOK
<1>2. Lead' = Lead
  BY <1>1 DEF Lead
<1>3. SupervisorTypeOK' /\ RestartsCapped' /\ GivesUpOnlyInBurst'
  BY <1>1 DEF SupervisorInv, SupervisorTypeOK, RestartsCapped, GivesUpOnlyInBurst
<1>4. RestartsFollow' /\ FailuresRemembered' /\ RestartsRemembered'
  BY <1>1, <1>2 DEF SupervisorInv, RestartsFollow, FailuresRemembered, RestartsRemembered
<1>5. RoomInTime' /\ RestartsYoung' /\ FailuresBounded'
  BY <1>1 DEF SupervisorInv, RoomInTime, RestartsYoung, FailuresBounded
<1> QED  BY <1>3, <1>4, <1>5 DEF SupervisorInv

LEMMA RestartStep ==
  ASSUME SupervisorInv, WorkerRestarts
  PROVE  SupervisorInv'
<1> DEFINE f == supervisor.failures
           r == restarts
           r2 == Append(restarts, 0)
           n == Len(f)
           m == Len(r)
<1>1. /\ f \in Seq(Ages) /\ r \in Seq(Ages) /\ n \in Nat /\ m \in Nat /\ Lead = n - m - 1
      /\ \A i \in 1 .. n : f[i] \in Ages
      /\ \A i \in 1 .. m : r[i] \in Ages
      /\ n <= MaxRestartsInWindow /\ m <= MaxRestartsInWindow
  BY SupervisorFacts DEF Lead, WorkerRestarts, SupervisorInv, FailuresBounded, RestartsCapped
<1>2. /\ r2 \in Seq(Ages) /\ Len(r2) = m + 1 /\ r2[m + 1] = 0
      /\ \A i \in 1 .. m : r2[i] = r[i]
  <2>1. 0 \in Ages
    BY SupervisorAssumption DEF Ages
  <2> HIDE DEF r
  <2> QED  BY <1>1, <2>1, AppendProperties DEF r
<1>3. /\ supervisor.pc = "backoff" /\ supervisor'.pc = "running" /\ supervisor.delay = 0
      /\ supervisor'.failures = f
      /\ supervisor' \in [pc : {"running", "backoff", "done", "gave_up"}, delay : 0 .. MaxRestartDelay,
                          failures : Seq(Ages)]
      /\ restarts' = r2
  BY DEF WorkerRestarts, SupervisorInv, SupervisorTypeOK, Ages
<1>4. Lead' = Lead
  <2>1. Len(supervisor'.failures) = n /\ Len(restarts') = m + 1
    BY <1>2, <1>3
  <2>2. Lead' = n - (m + 1) - 0
    <3> HIDE DEF n, m
    <3> QED  BY <1>3, <2>1 DEF Lead
  <2> HIDE DEF n, m
  <2> QED  BY <1>1, <2>2
<1>5. LongestDelay \in Nat /\ RestartWindow \in Nat \ {0} /\ MaxRestartsInWindow \in Nat \ {0}
  BY Delays, SupervisorAssumption
<1>6. /\ \A i \in 1 .. m : \/ i + Lead >= 1 /\ f[i + Lead] <= r[i] + LongestDelay
                           \/ r[i] + LongestDelay >= RestartWindow
      /\ \A i \in 1 .. m : i + Lead < n => i + Lead >= 0 /\ f[i + Lead + 1] <= r[i]
      /\ \A j \in 1 .. n : (j - Lead <= m /\ f[j] < RestartWindow) =>
                             j - Lead >= 1 /\ r[j - Lead] <= f[j]
      /\ \A i \in 1 .. m : r[i] < RestartWindow
      /\ \A i, k \in 1 .. m : i <= k => r[k] <= r[i]
      /\ n >= 1 /\ f[n] <= LongestDelay
      /\ m = MaxRestartsInWindow => r[1] >= RestartWindow
  <2>1. /\ n >= 1 /\ f[n] + supervisor.delay <= LongestDelay
        /\ m = MaxRestartsInWindow => r[1] + supervisor.delay >= RestartWindow
    BY <1>3 DEF SupervisorInv, RoomInTime
  <2>2. n >= 1 /\ f[n] <= LongestDelay
    <3>1. f[n] \in Nat
      BY <1>1, <2>1 DEF Ages
    <3> QED  BY <1>3, <2>1, <3>1
  <2>3. m = MaxRestartsInWindow => r[1] >= RestartWindow
    <3>1. m = MaxRestartsInWindow => r[1] \in Nat
      BY <1>1, <1>5 DEF Ages
    <3> QED  BY <1>3, <2>1, <3>1
  <2> QED
    BY <2>2, <2>3 DEF SupervisorInv, RestartsFollow, FailuresRemembered, RestartsRemembered, RestartsYoung
<1> HIDE DEF f, r, r2, n, m
<1>7. RestartsCapped'
  <2>1. m # MaxRestartsInWindow
    <3> SUFFICES ASSUME m = MaxRestartsInWindow PROVE FALSE
      OBVIOUS
    <3>1. 1 \in 1 .. m
      BY <1>5
    <3> QED  BY <1>1, <1>5, <1>6, <3>1 DEF Ages
  <2> QED  BY <1>1, <1>2, <1>3, <1>5, <2>1 DEF RestartsCapped
<1>8. RestartsFollow'
  <2> SUFFICES ASSUME NEW i \in 1 .. m + 1
               PROVE  \/ i + Lead >= 1 /\ f[i + Lead] <= r2[i] + LongestDelay
                      \/ r2[i] + LongestDelay >= RestartWindow
    BY <1>2, <1>3, <1>4 DEF RestartsFollow
  <2>1. CASE i = m + 1
    <3>1. i + Lead = n /\ r2[i] = 0
      BY <1>1, <1>2, <2>1
    <3> QED  BY <1>5, <1>6, <3>1
  <2>2. CASE i # m + 1
    BY <1>1, <1>2, <1>6, <2>2
  <2> QED  BY <2>1, <2>2
<1>9. FailuresRemembered'
  <2> SUFFICES ASSUME NEW i \in 1 .. m + 1, i + Lead < n
               PROVE  i + Lead >= 0 /\ f[i + Lead + 1] <= r2[i]
    BY <1>2, <1>3, <1>4 DEF FailuresRemembered, n
  <2>1. i \in 1 .. m
    BY <1>1
  <2> QED  BY <1>2, <1>6, <2>1
<1>10. RestartsRemembered'
  <2> SUFFICES ASSUME NEW j \in 1 .. n, j - Lead <= m + 1, f[j] < RestartWindow
               PROVE  j - Lead >= 1 /\ r2[j - Lead] <= f[j]
    BY <1>2, <1>3, <1>4 DEF RestartsRemembered, n
  <2>1. CASE j - Lead = m + 1
    <3>1. f[j] \in Nat
      BY <1>1 DEF Ages
    <3> QED  BY <1>1, <1>2, <2>1, <3>1
  <2>2. CASE j - Lead # m + 1
    <3>1. j - Lead <= m
      BY <1>1, <2>2
    <3>2. j - Lead >= 1 /\ r[j - Lead] <= f[j]
      BY <1>6, <3>1
    <3>3. j - Lead \in 1 .. m
      BY <1>1, <3>1, <3>2
    <3> QED  BY <1>2, <3>2, <3>3
  <2> QED  BY <2>1, <2>2
<1>11. RestartsYoung'
  <2>1. \A i \in 1 .. m + 1 : r2[i] \in Nat /\ r2[i] < RestartWindow
    <3> SUFFICES ASSUME NEW i \in 1 .. m + 1 PROVE r2[i] \in Nat /\ r2[i] < RestartWindow
      OBVIOUS
    <3>1. CASE i = m + 1
      BY <1>2, <1>5, <3>1
    <3>2. CASE i # m + 1
      <4>1. i \in 1 .. m
        BY <1>1, <3>2
      <4>2. r[i] \in Ages /\ r[i] < RestartWindow /\ r2[i] = r[i]
        BY <1>1, <1>2, <1>6, <4>1
      <4> QED  BY <4>2, <1>5 DEF Ages
    <3> QED  BY <3>1, <3>2
  <2>2. ASSUME NEW i \in 1 .. m + 1, NEW k \in 1 .. m + 1, i <= k PROVE r2[k] <= r2[i]
    <3>1. CASE k = m + 1
      BY <1>2, <2>1, <3>1
    <3>2. CASE k # m + 1
      BY <1>1, <1>2, <1>6, <2>2, <3>2
    <3> QED  BY <3>1, <3>2
  <2> QED  BY <1>2, <1>3, <2>1, <2>2 DEF RestartsYoung
<1>12. SupervisorTypeOK'
  BY <1>1, <1>2, <1>3, <1>5 DEF SupervisorTypeOK, Ages, n
<1>13. RoomInTime' /\ GivesUpOnlyInBurst' /\ FailuresBounded'
  BY <1>1, <1>3 DEF RoomInTime, GivesUpOnlyInBurst, FailuresBounded, n
<1> QED
  BY <1>7, <1>8, <1>9, <1>10, <1>11, <1>12, <1>13 DEF SupervisorInv

\* Time passes: ages grow, and a restart of an earlier window is forgotten.
LEMMA ElapseStep ==
  ASSUME SupervisorInv, SupervisorElapsed,
         supervisor.pc \in {"running", "backoff"},
         supervisor.pc = "backoff" => supervisor.delay > 0
  PROVE  SupervisorInv'
<1> DEFINE f == supervisor.failures
           f2 == Older(f)
           r == restarts
           r1 == Older(r)
           r2 == Within(r1)
           n == Len(f)
           m == Len(r)
           W == RestartWindow
<1>1. /\ f \in Seq(Ages) /\ r \in Seq(Ages) /\ n \in Nat /\ m \in Nat /\ Lead \in Int
      /\ \A i \in 1 .. n : f[i] \in Ages
      /\ \A i \in 1 .. m : r[i] \in Ages
      /\ n <= MaxRestartsInWindow /\ m <= MaxRestartsInWindow
  BY SupervisorFacts DEF Lead, SupervisorInv, FailuresBounded, RestartsCapped
<1>2. /\ f2 \in Seq(Ages) /\ Len(f2) = n /\ \A i \in 1 .. n : f2[i] = Lesser(f[i] + 1, W)
      /\ r1 \in Seq(Ages) /\ Len(r1) = m /\ \A i \in 1 .. m : r1[i] = Lesser(r[i] + 1, W)
  BY <1>1, OlderAges
<1>3. PICK s \in 0 .. m : /\ r2 \in Seq(Ages) /\ Len(r2) = m - s
                          /\ \A i \in 1 .. m - s : r2[i] = r1[i + s]
                          /\ \A j \in 1 .. s : r1[j] >= W
                          /\ s < m => r1[s + 1] < W
  <2> HIDE DEF r1, m
  <2> QED  BY <1>2, WithinDrops
<1>4. /\ supervisor'.pc = supervisor.pc /\ supervisor'.failures = f2 /\ restarts' = r2
      /\ supervisor'.delay = IF supervisor.delay = 0 THEN 0 ELSE supervisor.delay - 1
      /\ supervisor' = [pc |-> supervisor.pc, failures |-> f2,
                        delay |-> IF supervisor.delay = 0 THEN 0 ELSE supervisor.delay - 1]
  <2> HIDE DEF f2, r2
  <2> QED  BY DEF SupervisorElapsed, SupervisorInv, SupervisorTypeOK, f2, r2
<1>5. /\ LongestDelay \in Nat /\ W \in Nat \ {0} /\ MaxRestartsInWindow \in Nat \ {0}
      /\ supervisor.delay \in 0 .. MaxRestartDelay
  BY Delays, SupervisorAssumption DEF SupervisorInv, SupervisorTypeOK
<1> HIDE DEF f, f2, r, r1, r2
<1>6. Lead' = Lead + s /\ n - Lead \in m .. m + 1
  <2> DEFINE b == IF supervisor.pc \in {"backoff", "gave_up"} THEN 1 ELSE 0
  <2>1. Lead' = n - (m - s) - b /\ Lead = n - m - b
    BY <1>2, <1>3, <1>4 DEF Lead, f, r
  <2>2. b \in 0 .. 1
    OBVIOUS
  <2> HIDE DEF b, n, m
  <2> QED  BY <1>1, <2>1, <2>2
<1> HIDE DEF n, m
<1>7. /\ \A i \in 1 .. m : \/ i + Lead >= 1 /\ f[i + Lead] <= r[i] + LongestDelay
                           \/ r[i] + LongestDelay >= W
      /\ \A i \in 1 .. m : i + Lead < n => i + Lead >= 0 /\ f[i + Lead + 1] <= r[i]
      /\ \A j \in 1 .. n : (j - Lead <= m /\ f[j] < W) =>
                             j - Lead >= 1 /\ r[j - Lead] <= f[j]
      /\ \A i \in 1 .. m : r[i] < W
      /\ \A i, k \in 1 .. m : i <= k => r[k] <= r[i]
  BY DEF SupervisorInv, RestartsFollow, FailuresRemembered, RestartsRemembered, RestartsYoung, f, r, n, m
<1>8. /\ \A i \in 1 .. n : f2[i] = Lesser(f[i] + 1, W) /\ f2[i] \in Ages /\ f[i] \in Ages
      /\ \A i \in 1 .. m - s : /\ i + s \in 1 .. m /\ r2[i] = Lesser(r[i + s] + 1, W)
                                /\ r2[i] \in Ages /\ r[i + s] \in Ages
  <2>1. \A i \in 1 .. n : f2[i] \in Ages
    BY <1>2, ElementOfSeq
  <2>2. \A i \in 1 .. m - s : r2[i] \in Ages
    BY <1>3, ElementOfSeq
  <2>3. \A i \in 1 .. m - s : i + s \in 1 .. m
    BY <1>1
  <2> QED  BY <1>1, <1>2, <1>3, <2>1, <2>2, <2>3
<1> HIDE DEF W
<1>9. RestartsFollow'
  <2> SUFFICES ASSUME NEW i \in 1 .. m - s
               PROVE  \/ i + (Lead + s) >= 1 /\ f2[i + (Lead + s)] <= r2[i] + LongestDelay
                      \/ r2[i] + LongestDelay >= W
    BY <1>3, <1>4, <1>6 DEF RestartsFollow, W
  <2> DEFINE k == i + s
  <2>1. k \in 1 .. m /\ i + (Lead + s) = k + Lead
    BY <1>1, <1>8
  <2>2. r2[i] = Lesser(r[k] + 1, W) /\ r[k] \in Ages
    BY <1>8
  <2> HIDE DEF k
  <2>3. CASE k + Lead >= 1 /\ f[k + Lead] <= r[k] + LongestDelay
    <3>1. k + Lead \in 1 .. n
      BY <1>1, <1>6, <2>1, <2>3
    <3>2. f2[k + Lead] = Lesser(f[k + Lead] + 1, W) /\ f[k + Lead] \in Ages
      BY <1>8, <3>1
    <3> QED  BY <1>5, <2>1, <2>2, <2>3, <3>2 DEF Lesser, Ages
  <2>4. CASE r[k] + LongestDelay >= W
    BY <1>5, <2>2, <2>4 DEF Lesser, Ages
  <2> QED  BY <1>7, <2>1, <2>3, <2>4
<1>10. FailuresRemembered'
  <2> SUFFICES ASSUME NEW i \in 1 .. m - s, i + (Lead + s) < n
               PROVE  i + (Lead + s) >= 0 /\ f2[i + (Lead + s) + 1] <= r2[i]
    BY <1>2, <1>3, <1>4, <1>6 DEF FailuresRemembered
  <2> DEFINE k == i + s
  <2>1. k \in 1 .. m /\ i + (Lead + s) = k + Lead
    BY <1>1, <1>8
  <2>2. r2[i] = Lesser(r[k] + 1, W) /\ r[k] \in Ages
    BY <1>8
  <2> HIDE DEF k
  <2>3. k + Lead >= 0 /\ f[k + Lead + 1] <= r[k]
    BY <1>7, <2>1
  <2>4. k + Lead + 1 \in 1 .. n
    BY <1>1, <2>1, <2>3
  <2>5. f2[k + Lead + 1] = Lesser(f[k + Lead + 1] + 1, W) /\ f[k + Lead + 1] \in Ages
    BY <1>8, <2>4
  <2> QED  BY <1>5, <2>1, <2>2, <2>3, <2>5 DEF Lesser, Ages
<1>11. RestartsRemembered'
  <2> SUFFICES ASSUME NEW j \in 1 .. n, j - (Lead + s) <= m - s, f2[j] < W
               PROVE  j - (Lead + s) >= 1 /\ r2[j - (Lead + s)] <= f2[j]
    BY <1>2, <1>3, <1>4, <1>6 DEF RestartsRemembered, W
  <2>1. f[j] \in Ages /\ f2[j] = f[j] + 1 /\ f[j] < W
    BY <1>5, <1>8 DEF Lesser, Ages
  <2>2. j - Lead >= 1 /\ r[j - Lead] <= f[j] /\ j - Lead \in 1 .. m
    BY <1>1, <1>7, <2>1
  <2>3. r[j - Lead] \in Ages /\ r1[j - Lead] = Lesser(r[j - Lead] + 1, W)
    BY <1>1, <1>2, <2>2 DEF W
  <2>4. r1[j - Lead] <= f2[j] /\ r1[j - Lead] < W
    BY <1>5, <2>1, <2>2, <2>3 DEF Lesser, Ages
  <2>5. r1[j - Lead] \in Nat
    BY <1>5, <2>3 DEF Lesser, Ages
  <2>6. ~(j - Lead \in 1 .. s)
    BY <1>3, <1>5, <2>4, <2>5 DEF W
  <2>7. j - (Lead + s) \in 1 .. m - s /\ (j - (Lead + s)) + s = j - Lead
    BY <1>1, <2>2, <2>6
  <2>8. r2[j - (Lead + s)] = r1[j - Lead]
    BY <1>3, <2>7
  <2> QED  BY <2>4, <2>7, <2>8
<1>12. RoomInTime'
  <2> SUFFICES ASSUME supervisor.pc = "backoff"
               PROVE  /\ n >= 1 /\ f2[n] + (supervisor.delay - 1) <= LongestDelay
                      /\ m - s = MaxRestartsInWindow => r2[1] + (supervisor.delay - 1) >= W
    BY <1>2, <1>3, <1>4, <1>5 DEF RoomInTime, W
  <2>1. /\ n >= 1 /\ f[n] + supervisor.delay <= LongestDelay
        /\ m = MaxRestartsInWindow => r[1] + supervisor.delay >= W
    BY DEF SupervisorInv, RoomInTime, n, m, f, r, W
  <2>2. f2[n] = Lesser(f[n] + 1, W) /\ f[n] \in Ages
    BY <1>1, <1>8, <2>1
  <2>3. f2[n] + (supervisor.delay - 1) <= LongestDelay
    BY <1>5, <2>1, <2>2 DEF Lesser, Ages
  <2>4. ASSUME m - s = MaxRestartsInWindow
        PROVE  r2[1] + (supervisor.delay - 1) >= W
    <3>1. s = 0 /\ m = MaxRestartsInWindow
      BY <1>1, <1>5, <2>4
    <3>2. r2[1] = Lesser(r[1] + 1, W) /\ r[1] \in Ages
      <4>1. 1 \in 1 .. m - s /\ 1 + s = 1
        BY <1>5, <2>4, <3>1
      <4> QED  BY <1>8, <4>1
    <3> QED  BY <1>5, <2>1, <3>1, <3>2 DEF Lesser, Ages
  <2> QED  BY <2>1, <2>3, <2>4
<1>13. RestartsYoung'
  <2>1. ASSUME NEW i \in 1 .. m - s, NEW k \in 1 .. m - s, i <= k PROVE r2[k] <= r2[i]
    <3>1. r[k + s] <= r[i + s]
      <4>1. k + s \in 1 .. m /\ i + s \in 1 .. m /\ i + s <= k + s
        BY <1>1, <2>1
      <4> QED  BY <1>7, <4>1
    <3>2. /\ r2[k] = Lesser(r[k + s] + 1, W) /\ r2[i] = Lesser(r[i + s] + 1, W)
          /\ r[k + s] \in Ages /\ r[i + s] \in Ages
      BY <1>8
    <3> QED  BY <1>5, <3>1, <3>2 DEF Lesser, Ages
  <2>2. ASSUME NEW i \in 1 .. m - s PROVE r2[i] < W
    <3>1. 1 \in 1 .. m - s /\ 1 <= i /\ s < m /\ 1 + s = s + 1
      BY <1>1
    <3>2. r2[1] < W
      BY <1>3, <3>1 DEF W
    <3>3. r2[i] <= r2[1]
      BY <2>1, <3>1
    <3>4. r2[i] \in Nat /\ r2[1] \in Nat
      BY <1>8, <3>1 DEF Ages
    <3> QED  BY <1>5, <3>2, <3>3, <3>4
  <2> QED  BY <1>3, <1>4, <2>1, <2>2 DEF RestartsYoung, W
<1>14. SupervisorTypeOK'
  <2>1. (IF supervisor.delay = 0 THEN 0 ELSE supervisor.delay - 1) \in 0 .. MaxRestartDelay
    BY <1>5, SupervisorAssumption
  <2>2. supervisor' \in [pc : {"running", "backoff", "done", "gave_up"}, delay : 0 .. MaxRestartDelay,
                         failures : Seq(Ages)]
    BY <1>2, <1>4, <2>1
  <2>3. Len(f2) <= MaxRestartsInWindow + 1
    BY <1>1, <1>2, <1>5
  <2> QED  BY <1>3, <1>4, <2>2, <2>3 DEF SupervisorTypeOK, Ages
<1>15. RestartsCapped' /\ GivesUpOnlyInBurst' /\ FailuresBounded'
  <2>1. RestartsCapped'
    BY <1>1, <1>3, <1>4, <1>5 DEF RestartsCapped
  <2>2. GivesUpOnlyInBurst' /\ FailuresBounded'
    BY <1>1, <1>2, <1>4 DEF GivesUpOnlyInBurst, FailuresBounded
  <2> QED  BY <2>1, <2>2
<1> QED
  BY <1>9, <1>10, <1>11, <1>12, <1>13, <1>14, <1>15 DEF SupervisorInv

LEMMA SupervisorHolds == SessionSpec => []SupervisorInv
<1>1. SessionInit => SupervisorInv
  <2> SUFFICES ASSUME SessionInit PROVE SupervisorInv
    OBVIOUS
  <2>1. /\ supervisor = [pc |-> "running", delay |-> 0, failures |-> <<>>]
        /\ supervisor.pc = "running" /\ supervisor.failures = <<>> /\ restarts = <<>>
    BY DEF SessionInit, SupervisorInit
  <2>2. <<>> \in Seq(Ages) /\ Len(<<>>) = 0 /\ 0 \in 0 .. MaxRestartDelay
    BY EmptySeq, SupervisorAssumption
  <2>3. SupervisorTypeOK /\ RestartsCapped
    BY <2>1, <2>2, SupervisorAssumption DEF SupervisorTypeOK, RestartsCapped, Ages
  <2>4. GivesUpOnlyInBurst /\ RoomInTime /\ FailuresBounded
    BY <2>1, <2>2, SupervisorAssumption DEF GivesUpOnlyInBurst, RoomInTime, FailuresBounded
  <2>5. RestartsFollow /\ FailuresRemembered /\ RestartsRemembered /\ RestartsYoung
    BY <2>1, <2>2 DEF RestartsFollow, FailuresRemembered, RestartsRemembered, RestartsYoung
  <2> QED  BY <2>3, <2>4, <2>5 DEF SupervisorInv
<1>2. SupervisorInv /\ [SessionNext]_sessionvars => SupervisorInv'
  <2> SUFFICES ASSUME SupervisorInv, [SessionNext]_sessionvars PROVE SupervisorInv'
    OBVIOUS
  <2>1. CASE UNCHANGED supvars
    <3>1. Lead' = Lead
      BY <2>1 DEF supvars, Lead
    <3> QED
      BY <2>1, <3>1 DEF supvars, SupervisorInv, SupervisorTypeOK, RestartsCapped, GivesUpOnlyInBurst,
         RestartsFollow, FailuresRemembered, RestartsRemembered, RoomInTime, RestartsYoung, FailuresBounded
  <2>2. CASE Tick
    <3>1. supervisor.pc \in {"running", "backoff"}
      BY <2>2 DEF Tick, SupervisorInv, SupervisorTypeOK
    <3> QED  BY <2>2, <3>1, ElapseStep DEF Tick
  <2>3. CASE WorkerStarts
    BY <2>3, RestartStep DEF WorkerStarts
  <2>4. CASE WorkerDies
    BY <2>4, FailureStep, SuccessStep DEF WorkerDies
  <2> QED
    BY <2>1, <2>2, <2>3, <2>4 DEF SessionNext, Progress, Runs, Surroundings, supvars, sessionvars
<1> QED  BY <1>1, <1>2, PTL DEF SessionSpec

\* The supervisor's locals have their types (main.rs, supervise).
THEOREM SupervisorTypeCorrect == SessionSpec => []SupervisorTypeOK
<1>1. SupervisorInv => SupervisorTypeOK
  BY DEF SupervisorInv
<1> QED  BY <1>1, SupervisorHolds, PTL

\* "capped at 5 restarts per minute", for every window, delay and cap: the code
\* counts failures, and a restart follows its failure by up to the longest
\* delay, yet no window sees more restarts than failures are forgiven.
THEOREM RestartsCappedHolds == SessionSpec => []RestartsCapped
<1>1. SupervisorInv => RestartsCapped
  BY DEF SupervisorInv
<1> QED  BY <1>1, SupervisorHolds, PTL

\* A supervisor that gave up had restarted the worker as often as it may within
\* the latest window (supervise): failures further apart never add up.
THEOREM GivesUpOnlyInBurstHolds == SessionSpec => []GivesUpOnlyInBurst
<1>1. SupervisorInv => GivesUpOnlyInBurst
  BY DEF SupervisorInv
<1> QED  BY <1>1, SupervisorHolds, PTL

-----------------------------------------------------------------------------
(***************************************************************************)
(* The lid listener.                                                       *)
(***************************************************************************)
Attempts == [world : WorldType, ok : BOOLEAN \cup {None}]

Armed(l) == l.undocked_retry # None \/ l.recovery_retry # None

\* Whatever a command brings about, the world stays one.
LEMMA AttemptsTyped ==
  ASSUME NEW w \in WorldType, NEW t \in Topologies, NEW closed \in BOOLEAN
  PROVE  /\ NoAttempt(w) \in Attempts
         /\ \A p \in Profiles : apply_profile(w, p) \subseteq Attempts
         /\ recover_undocked(w) \subseteq Attempts
         /\ apply_closed_profile(w, t) \subseteq Attempts
         /\ recover_open_outputs(w, t) \subseteq Attempts
         /\ apply_current_profile(w, closed, t) \subseteq Attempts
<1>1. NoAttempt(w) \in Attempts
  BY DEF NoAttempt, Attempts
<1>2. \A v \in WorldType : Failed(v) \in Attempts
  BY DEF Failed, Attempts
<1>3. \A p \in Profiles : Switched(w, p) \in Attempts /\ Switched(w, p).world \in WorldType
  BY DEF Switched, Attempts, WorldType
<1>4. \A p \in Profiles : apply_profile(w, p) \subseteq Attempts
  BY <1>2, <1>3 DEF apply_profile
<1>5. {"open", "closed", "undocked"} \subseteq Profiles
  BY DEF Profiles
<1>6. recover_undocked(w) \subseteq Attempts
  BY <1>2, <1>3, <1>4, <1>5 DEF recover_undocked
<1>7. apply_closed_profile(w, t) \subseteq Attempts /\ recover_open_outputs(w, t) \subseteq Attempts
  BY <1>4, <1>5, <1>6 DEF apply_closed_profile, recover_open_outputs
<1> QED  BY <1>1, <1>4, <1>6, <1>7 DEF apply_current_profile

LEMMA DisarmedTyped ==
  ASSUME NEW l \in ListenerType
  PROVE  Disarmed(l) \in ListenerType /\ ~Armed(Disarmed(l))
BY DEF Disarmed, Armed, ListenerType

LEMMA RearmedTyped ==
  ASSUME NEW l \in ListenerType, NEW changed \in BOOLEAN, NEW ok \in BOOLEAN
  PROVE  Rearmed(l, changed, ok) \in ListenerType
<1>1. NextFastRetry(l, changed) \in [nth : DOMAIN UndockedRetryDelays, left : Nat] \cup {None}
  <2> DEFINE n == IF changed THEN 1 ELSE l.undocked_retry.nth + 1
  <2>1. Len(UndockedRetryDelays) \in Nat /\ DOMAIN UndockedRetryDelays = 1 .. Len(UndockedRetryDelays)
    BY LidAssumption, LenProperties
  <2>2. CASE (~changed /\ l.undocked_retry = None) \/ n > Len(UndockedRetryDelays)
    BY <2>2 DEF NextFastRetry
  <2>3. CASE ~((~changed /\ l.undocked_retry = None) \/ n > Len(UndockedRetryDelays))
    <3>1. ~changed => l.undocked_retry.nth \in 1 .. Len(UndockedRetryDelays)
      BY <2>1, <2>3 DEF ListenerType
    <3>2. n \in Nat \ {0}
      BY <2>1, <3>1
    <3>3. n \in 1 .. Len(UndockedRetryDelays)
      <4> HIDE DEF n
      <4> QED  BY <2>1, <2>3, <3>2
    <3>4. UndockedRetryDelays[n] \in Nat
      BY <3>3, LidAssumption, ElementOfSeq
    <3>5. NextFastRetry(l, changed) = [nth |-> n, left |-> UndockedRetryDelays[n]]
      BY <2>3 DEF NextFastRetry
    <3> HIDE DEF n
    <3> QED  BY <2>1, <3>3, <3>4, <3>5
  <2> QED  BY <2>2, <2>3
<1>2. RecoveryRetryInterval \in Nat
  BY LidAssumption
<1> QED  BY <1>1, <1>2 DEF Rearmed, ListenerType

\* A turn leaves a timer armed only where there is a panel to recover.
LEMMA ReactTyped ==
  ASSUME NEW l \in ListenerType, NEW w \in WorldType, NEW closed \in BOOLEAN, NEW t \in Topologies,
         NEW done \in React(l, w, closed, t)
  PROVE  /\ done.timers \in ListenerType /\ done.attempt \in Attempts
         /\ Armed(done.timers) => ~closed /\ Undocked(t)
<1> DEFINE changed == l.prev_topology # t
           Settled(attempts) == {[timers |-> Disarmed(l), attempt |-> a] : a \in attempts}
<1>1. ASSUME NEW attempts \in SUBSET Attempts, done \in Settled(attempts)
      PROVE  /\ done.timers \in ListenerType /\ done.attempt \in Attempts
             /\ Armed(done.timers) => ~closed /\ Undocked(t)
  BY <1>1, DisarmedTyped
<1>2. /\ {NoAttempt(w)} \subseteq Attempts /\ apply_closed_profile(w, t) \subseteq Attempts
      /\ recover_undocked(w) \subseteq Attempts /\ apply_profile(w, "open") \subseteq Attempts
  BY AttemptsTyped DEF Profiles
<1>3. CASE l.prev_topology = None
  <2>1. done \in Settled({NoAttempt(w)})
    BY <1>3 DEF React
  <2> QED  BY <1>1, <1>2, <2>1
<1>4. CASE l.prev_topology # None /\ closed
  <2>1. done \in Settled(apply_closed_profile(w, t)) \/ done \in Settled({NoAttempt(w)})
    BY <1>4 DEF React
  <2> QED  BY <1>1, <1>2, <2>1
<1>5. CASE l.prev_topology # None /\ ~closed /\ should_recover_undocked(closed, t, changed, Due(l))
  <2>1. \E a \in recover_undocked(w) :
          done = [timers |-> Rearmed(l, changed, a.ok), attempt |-> a] /\ a.ok \in BOOLEAN
    <3>1. \A a \in recover_undocked(w) : a.ok \in BOOLEAN
      <4>1. (\A v : Failed(v).ok = FALSE) /\ (\A p : Switched(w, p).ok = TRUE)
        BY DEF Switched, Failed
      <4> QED  BY <4>1 DEF recover_undocked, apply_profile
    <3> QED  BY <1>5, <3>1 DEF React
  <2>2. PICK a \in recover_undocked(w) :
          done = [timers |-> Rearmed(l, changed, a.ok), attempt |-> a] /\ a.ok \in BOOLEAN
    BY <2>1
  <2>3. ~closed /\ Undocked(t)
    BY <1>5 DEF should_recover_undocked
  <2>4. changed \in BOOLEAN
    OBVIOUS
  <2> HIDE DEF changed
  <2> QED  BY <1>2, <2>2, <2>3, <2>4, RearmedTyped
<1>6. CASE l.prev_topology # None /\ ~closed /\ ~should_recover_undocked(closed, t, changed, Due(l))
           /\ ((changed /\ t.external) \/ ~Undocked(t))
  <2>1. done \in Settled(apply_profile(w, "open")) \/ done \in Settled({NoAttempt(w)})
    BY <1>6 DEF React
  <2> QED  BY <1>1, <1>2, <2>1
<1>7. CASE l.prev_topology # None /\ ~closed /\ ~should_recover_undocked(closed, t, changed, Due(l))
           /\ ~(changed /\ t.external) /\ Undocked(t)
  <2>1. done = [timers |-> l, attempt |-> NoAttempt(w)]
    BY <1>7 DEF React
  <2> QED  BY <1>2, <1>7, <2>1
<1> QED  BY <1>3, <1>4, <1>5, <1>6, <1>7

LidInv == LidTypeOK /\ TimersOnlyUndocked

\* The end of a turn for connectors t, whatever the turn did before.
LEMMA FinishStep ==
  ASSUME LidInv, NEW first \in Attempts, NEW closed \in BOOLEAN, NEW t \in Topologies,
         FinishTurn(first, closed, t)
  PROVE  LidInv'
<1>1. listener \in ListenerType /\ first.world \in WorldType /\ stale \in BOOLEAN
  BY DEF LidInv, LidTypeOK, Attempts
<1>2. PICK done \in React(listener, first.world, closed, t) :
        /\ listener' = [done.timers EXCEPT !.pc = "top", !.sleep = PollInterval, !.topology = None,
                                           !.prev_lid_closed = closed, !.prev_topology = t]
        /\ world' = [done.attempt.world EXCEPT !.event = IF listener.pc = "top" THEN None ELSE @]
        /\ stale' = IF done.attempt.ok # None
                      THEN ~done.attempt.ok /\ done.timers.recovery_retry = None
                    ELSE IF first.ok # None THEN ~first.ok \/ world.topology # t
                    ELSE stale
  BY DEF FinishTurn
<1>3. /\ done.timers \in ListenerType /\ done.attempt.world \in WorldType
      /\ Armed(done.timers) => ~closed /\ Undocked(t)
  BY <1>1, ReactTyped DEF Attempts
<1>4. /\ listener' \in ListenerType /\ listener'.topology = None /\ listener'.pc = "top"
      /\ listener'.prev_lid_closed = closed /\ listener'.prev_topology = t
      /\ listener'.undocked_retry = done.timers.undocked_retry
      /\ listener'.recovery_retry = done.timers.recovery_retry
  BY <1>2, <1>3, LidAssumption DEF ListenerType
<1>5. world' \in WorldType
  BY <1>2, <1>3 DEF WorldType
<1>6. stale' \in BOOLEAN
  BY <1>1, <1>2
<1>7. LidTypeOK'
  BY <1>4, <1>5, <1>6 DEF LidTypeOK
<1>8. TimersOnlyUndocked'
  BY <1>3, <1>4, LidAssumption DEF TimersOnlyUndocked, Armed
<1> QED  BY <1>7, <1>8 DEF LidInv

LEMMA ListenerKeeps ==
  ASSUME LidInv, ListenerStep
  PROVE  LidInv'
<1>1. /\ listener \in ListenerType /\ world \in WorldType /\ stale \in BOOLEAN
      /\ listener.topology # None <=> listener.pc \in {"debounce", "retry"}
      /\ world.topology \in Topologies /\ LidClosed \in BOOLEAN
  BY DEF LidInv, LidTypeOK, LidClosed, ListenerType, WorldType
<1>2. CASE Turn
  <2>1. PICK first \in FirstAttempts(LidClosed, world.topology) :
          FinishTurn(first, LidClosed, world.topology)
    BY <1>2 DEF Turn
  <2>2. first \in Attempts
    BY <1>1, <2>1, AttemptsTyped DEF FirstAttempts
  <2> QED  BY <1>1, <2>1, <2>2, FinishStep
<1>3. CASE OpenLid
  <2>1. /\ listener' \in ListenerType /\ listener'.topology = world.topology /\ listener'.pc = "debounce"
        /\ listener'.prev_lid_closed = listener.prev_lid_closed
        /\ listener'.prev_topology = listener.prev_topology
        /\ listener'.undocked_retry = listener.undocked_retry
        /\ listener'.recovery_retry = listener.recovery_retry
    BY <1>1, <1>3, LidAssumption DEF OpenLid, ListenerType
  <2>2. world' \in WorldType /\ stale' = stale
    BY <1>1, <1>3 DEF OpenLid, WorldType
  <2>3. LidTypeOK'
    BY <1>1, <2>1, <2>2, LidAssumption DEF LidTypeOK
  <2>4. TimersOnlyUndocked'
    BY <2>1 DEF LidInv, TimersOnlyUndocked
  <2> QED  BY <2>3, <2>4 DEF LidInv
<1>4. CASE SwitchOpened
  <2>1. /\ listener' \in ListenerType /\ listener'.topology = listener.topology /\ listener'.pc = "retry"
        /\ listener.pc = "debounce"
        /\ listener'.prev_lid_closed = listener.prev_lid_closed
        /\ listener'.prev_topology = listener.prev_topology
        /\ listener'.undocked_retry = listener.undocked_retry
        /\ listener'.recovery_retry = listener.recovery_retry
    BY <1>1, <1>4, LidAssumption DEF SwitchOpened, Awake, ListenerType
  <2>2. world' \in WorldType /\ stale' = stale
    BY <1>1, <1>4, AttemptsTyped DEF SwitchOpened, Attempts
  <2>3. LidTypeOK'
    BY <1>1, <2>1, <2>2 DEF LidTypeOK
  <2>4. TimersOnlyUndocked'
    BY <2>1 DEF LidInv, TimersOnlyUndocked
  <2> QED  BY <2>3, <2>4 DEF LidInv
<1>5. CASE SwitchAgain
  <2>1. PICK attempt \in recover_open_outputs(world, world.topology) :
          FinishTurn(attempt, FALSE, listener.topology)
    BY <1>5 DEF SwitchAgain
  <2>2. attempt \in Attempts /\ listener.topology \in Topologies
    BY <1>1, <1>5, <2>1, AttemptsTyped DEF SwitchAgain, Awake, ListenerType
  <2> QED  BY <2>1, <2>2, FinishStep
<1> QED  BY <1>2, <1>3, <1>4, <1>5 DEF ListenerStep

LEMMA SurroundingsKeep ==
  ASSUME LidInv, EnvironmentStep \/ LogindAnswers
  PROVE  LidInv'
<1>1. listener' = listener /\ stale' = stale
  BY DEF EnvironmentStep, LidMoves, LogindLost, DisplaysChange, LogindAnswers
<1>2. world \in WorldType /\ world.lid \in BOOLEAN
  BY DEF LidInv, LidTypeOK, WorldType
<1>3. world' \in WorldType
  BY <1>2 DEF EnvironmentStep, LidMoves, LogindLost, DisplaysChange, LogindAnswers, WorldType
<1> QED  BY <1>1, <1>3 DEF LidInv, LidTypeOK, TimersOnlyUndocked

LEMMA ElapsedKeeps ==
  ASSUME LidInv, Tick
  PROVE  LidInv'
<1>1. /\ listener \in ListenerType
      /\ listener' = Elapsed(listener) /\ world' = world /\ stale' = stale
  BY DEF LidInv, LidTypeOK, Tick
<1>2. /\ \A d \in Nat : Left(d) \in Nat
      /\ Left(None) = None
  BY LidAssumption DEF Left
<1> DEFINE u == listener.undocked_retry
           u2 == Nearer(u)
<1>3. u2 \in [nth : DOMAIN UndockedRetryDelays, left : Nat] \cup {None} /\ (u = None => u2 = None)
  <2>1. CASE u = None
    BY <2>1 DEF Nearer
  <2>2. CASE u # None
    <3>1. u \in [nth : DOMAIN UndockedRetryDelays, left : Nat]
      BY <1>1, <2>2 DEF ListenerType
    <3> HIDE DEF u
    <3> QED  BY <1>2, <2>2, <3>1 DEF Nearer
  <2> QED  BY <2>1, <2>2
<1>4. listener' = [listener EXCEPT !.sleep = Left(listener.sleep),
                                   !.recovery_retry = Left(listener.recovery_retry),
                                   !.undocked_retry = u2]
  BY <1>1 DEF Elapsed
<1> HIDE DEF u, u2
<1>5. /\ listener' \in ListenerType /\ listener'.topology = listener.topology
      /\ listener'.pc = listener.pc /\ listener'.prev_lid_closed = listener.prev_lid_closed
      /\ listener'.prev_topology = listener.prev_topology
      /\ listener'.undocked_retry = u2
      /\ listener'.recovery_retry = Left(listener.recovery_retry)
  <2>1. Left(listener.sleep) \in Nat /\ Left(listener.recovery_retry) \in Nat \cup {None}
    BY <1>1, <1>2 DEF ListenerType
  <2> QED  BY <1>1, <1>3, <1>4, <2>1 DEF ListenerType
<1>6. LidTypeOK'
  BY <1>1, <1>5 DEF LidInv, LidTypeOK
<1>7. TimersOnlyUndocked'
  <2>1. /\ listener'.undocked_retry # None => listener.undocked_retry # None
        /\ listener'.recovery_retry # None => listener.recovery_retry # None
    BY <1>2, <1>3, <1>5 DEF u
  <2> QED  BY <1>5, <2>1 DEF LidInv, TimersOnlyUndocked
<1> QED  BY <1>6, <1>7 DEF LidInv

\* A listener that stops or starts anew has no timer.
LEMMA AnewKeeps ==
  ASSUME LidInv, WorkerDies \/ WorkerStarts
  PROVE  LidInv'
<1>1. /\ \/ listener' = Fresh
         \/ listener' = Stopped
      /\ \E l \in {"dead", "starting"} : world' = [world EXCEPT !.logind = l, !.event = None]
      /\ stale' = stale
  BY DEF WorkerDies, WorkerStarts
<1>2. /\ Fresh \in ListenerType /\ Fresh.topology = None /\ Fresh.pc = "top"
      /\ Fresh.undocked_retry = None /\ Fresh.recovery_retry = None
      /\ Stopped \in ListenerType /\ Stopped.topology = None /\ Stopped.pc = "off"
      /\ Stopped.undocked_retry = None /\ Stopped.recovery_retry = None
  BY DEF Fresh, Stopped, ListenerType
<1>3. world' \in WorldType
  BY <1>1 DEF LidInv, LidTypeOK, WorldType
<1>4. LidTypeOK'
  BY <1>1, <1>2, <1>3 DEF LidInv, LidTypeOK
<1>5. TimersOnlyUndocked'
  BY <1>1, <1>2 DEF TimersOnlyUndocked
<1> QED  BY <1>4, <1>5 DEF LidInv

LEMMA LidHolds == SessionSpec => []LidInv
<1>1. SessionInit => LidInv
  <2> SUFFICES ASSUME SessionInit PROVE LidInv
    OBVIOUS
  <2>1. /\ listener \in ListenerType /\ listener.topology = None /\ listener.pc = "top"
        /\ listener.undocked_retry = None /\ listener.recovery_retry = None
    BY DEF SessionInit, LidInit, Fresh, ListenerType
  <2>2. world \in WorldType /\ stale \in BOOLEAN
    BY DEF SessionInit, LidInit, WorldType, Profiles
  <2> QED  BY <2>1, <2>2 DEF LidInv, LidTypeOK, TimersOnlyUndocked
<1>2. LidInv /\ [SessionNext]_sessionvars => LidInv'
  <2> SUFFICES ASSUME LidInv, [SessionNext]_sessionvars PROVE LidInv'
    OBVIOUS
  <2>1. CASE UNCHANGED sessionvars
    BY <2>1 DEF sessionvars, LidInv, LidTypeOK, TimersOnlyUndocked
  <2> QED
    BY <2>1, ListenerKeeps, SurroundingsKeep, ElapsedKeeps, AnewKeeps
       DEF SessionNext, Progress, Runs, Surroundings
<1> QED  BY <1>1, <1>2, PTL DEF SessionSpec

\* The listener's locals, and the world it acts on, have their types (lid.rs, run).
THEOREM LidTypeCorrect == SessionSpec => []LidTypeOK
<1>1. LidInv => LidTypeOK
  BY DEF LidInv
<1> QED  BY <1>1, LidHolds, PTL

\* For every delay and every list of fast retries: a retry is armed only while
\* the listener takes the lid for open and the laptop for undocked, through
\* every failed command, restart and change of lid, displays and logind (run).
THEOREM TimersOnlyUndockedHolds == SessionSpec => []TimersOnlyUndocked
<1>1. LidInv => TimersOnlyUndocked
  BY DEF LidInv
<1> QED  BY <1>1, LidHolds, PTL
=============================================================================
