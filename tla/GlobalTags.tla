----------------------------- MODULE GlobalTags -----------------------------
(***************************************************************************)
(* What the tag engine promises, in terms of monitors rather than of       *)
(* indices into a vector: "each tag belongs to one output, is created on   *)
(* the output where it's first focused, and migrates to the first output   *)
(* when its output is removed" (README.md of the repository).              *)
(*                                                                         *)
(*   plugged  the monitors, in the order they were plugged in              *)
(*   owner    the monitor each tag belongs to, or None                     *)
(*   shows    the tag each plugged monitor shows                           *)
(*   focus    the monitor with seat focus, None when there is no monitor   *)
(***************************************************************************)
EXTENDS Integers, SequencesExt

CONSTANTS NumTags, OutputIds, None

VARIABLES plugged, owner, shows, focus

tvars == <<plugged, owner, shows, focus>>

TagSet == 0 .. (NumTags - 1)
Monitors == {plugged[i] : i \in DOMAIN plugged}
Free == {t \in TagSet : owner[t] = None}

TagsInit ==
  /\ plugged = <<>>
  /\ owner = [t \in TagSet |-> None]
  /\ shows = [x \in {} |-> 0]
  /\ focus = None

\* A new monitor gets the lowest free tag; with none free it owns nothing and
\* shows a tag of another monitor.  It takes the focus only if it is the first.
Plug(x) ==
  /\ x \notin Monitors
  /\ plugged' = Append(plugged, x)
  /\ owner' = IF Free = {} THEN owner ELSE [owner EXCEPT ![Min(Free)] = x]
  /\ shows' = [y \in Monitors \cup {x} |->
                 IF y # x THEN shows[y] ELSE IF Free = {} THEN 0 ELSE Min(Free)]
  /\ focus' = IF focus = None THEN x ELSE focus

\* Where a monitor comes in the order.
PlaceOf(x) == CHOOSE i \in DOMAIN plugged : plugged[i] = x

\* The first remaining monitor inherits the tags.  Nothing else changes for
\* the monitors that stay, except that an heir that had no tag of its own to
\* show turns to one it inherited.
Unplug(x) ==
  LET rest == RemoveAt(plugged, PlaceOf(x))
      first == IF rest = <<>> THEN None ELSE Head(rest)
  IN  /\ x \in Monitors
      /\ plugged' = rest
      /\ owner' = [t \in TagSet |-> IF owner[t] = x \/ rest = <<>> THEN first ELSE owner[t]]
      /\ focus' = IF focus = x THEN first ELSE focus
      /\ DOMAIN shows' = Monitors \ {x}
      /\ \A y \in Monitors \ {x} :
            \/ shows'[y] = shows[y] /\ (owner[shows[y]] = y \/ y \notin {owner'[t] : t \in TagSet})
            \/ y = first /\ owner[shows[y]] # y /\ owner'[shows'[y]] = y

\* A tag nobody owns becomes a monitor's when it is first focused there (and
\* is then shown) or when a window is sent to it (and is then not).
Claim(t, x) ==
  /\ owner[t] = None
  /\ x \in Monitors
  /\ owner' = [owner EXCEPT ![t] = x]
  /\ shows' \in {shows, [shows EXCEPT ![x] = t]}
  /\ UNCHANGED <<plugged, focus>>

\* A tag that has an owner is shown where it lives; it is never taken from
\* there.  Coming from another monitor, the focus follows.
Visit(t) ==
  /\ owner[t] \in Monitors
  /\ shows' = [shows EXCEPT ![owner[t]] = t]
  /\ focus' \in {focus, owner[t]}
  /\ UNCHANGED <<plugged, owner>>

FocusMonitor(x) ==
  /\ x \in Monitors
  /\ focus' = x
  /\ UNCHANGED <<plugged, owner, shows>>

TagsNext ==
  \/ \E x \in OutputIds : Plug(x) \/ Unplug(x) \/ FocusMonitor(x)
  \/ \E t \in TagSet : Visit(t) \/ \E x \in OutputIds : Claim(t, x)

TagsSpec == TagsInit /\ [][TagsNext]_tvars
=============================================================================
