--------------------------- MODULE NormalizeLoop ---------------------------
(***************************************************************************)
(* State::normalize_outputs as the source runs it, one output per turn of  *)
(* its `for` loop, against the closed form of WmState.  Repair runs it.    *)
(***************************************************************************)
EXTENDS WmState

VARIABLES arg,     \* the state normalize_outputs was called on
          work,    \* self, as the loop changes it
          turn     \* output_idx, the output whose turn it is

loopvars == <<arg, work, turn>>

LoopStarts(s) ==
  /\ arg = s
  /\ work = [s EXCEPT !.focused_output = IF OutputIdx(s) = {} THEN None
                                          ELSE IF @ \in OutputIdx(s) THEN @ ELSE 0]
  /\ turn = 0

\* Faulty variant: the output is given the tag but goes on showing its old one.
Take_unshown(s, o) ==
  IF FreeTags(s) = {} THEN s ELSE [s EXCEPT !.tags[Min(FreeTags(s))] = o]

\* Grants the first tag nobody owns, as `position(|t| t.output.is_none())`.
Take(s, o) ==
  IF FreeTags(s) = {} THEN s
  ELSE [s EXCEPT !.tags[Min(FreeTags(s))] = o, !.outputs[o].active_tag = Min(FreeTags(s))]

Revalidated(s, o) ==
  IF tag_owner(s, s.outputs[o].active_tag) = o THEN s
  ELSE IF best_tag_for_output(s, o) # None
       THEN [s EXCEPT !.outputs[o].active_tag = best_tag_for_output(s, o)]
       ELSE Take(s, o)

Turn ==
  /\ turn \in OutputIdx(work)
  /\ work' = refocus_output(Revalidated(work, turn), turn)
  /\ turn' = turn + 1
  /\ UNCHANGED arg

LoopDone == turn \notin OutputIdx(work)

\* When the loop is done, the state is the one the closed form gives.
LoopIsClosedForm == LoopDone => work = normalize_outputs(arg)

\* Whatever the outputs showed, and whichever was in focus: if no tag belonged
\* to an output that does not exist, every handler may rely on the table again.
TableRepaired == LoopDone /\ OwnersAreOutputs(arg) => TagTable(work)
=============================================================================
