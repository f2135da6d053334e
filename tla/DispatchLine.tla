---------------------------- MODULE DispatchLine ----------------------------
(***************************************************************************)
(* What the prompt queue promises, without saying how: prompts wait in     *)
(* lines; a prompt leaves its line for a terminal once, when everything    *)
(* ahead of it is settled; Enter is pressed for it at most once, while it  *)
(* is claimed; and once it has been claimed it never waits again.  Several *)
(* prompts may change in one step.                                         *)
(***************************************************************************)
EXTENDS Naturals

CONSTANTS Prompts, Lines

VARIABLES
  stage,    \* the stage of each prompt
  line,     \* the line each prompt stands in
  place,    \* its place in that line
  presses   \* how often Enter was pressed for it

vars == <<stage, line, place, presses>>

StageNames == {"unknown", "waiting", "claimed", "working", "review", "settled"}

Unsettled(p) == stage[p] \in {"waiting", "claimed", "working", "review"}

Ahead(p) == {q \in Prompts : line[q] = line[p] /\ place[q] < place[p] /\ Unsettled(q)}

Init ==
  /\ stage = [p \in Prompts |-> "unknown"]
  /\ line \in [Prompts -> Lines]
  /\ place \in [Prompts -> Nat]
  /\ presses = [p \in Prompts |-> 0]

\* A prompt forgotten by its line is "unknown" again but is never submitted
\* again once it was pressed.
Submits(p) == stage[p] = "unknown" /\ stage'[p] = "waiting" /\ presses[p] = 0
Claims(p)  == stage[p] = "waiting" /\ stage'[p] = "claimed" /\ Ahead(p) = {}

\* What a later stage may become; "waiting" and "claimed" are never among it.
Follows(p) ==
  \/ stage[p] = "waiting" /\ stage'[p] \in {"review", "settled", "unknown"}
  \/ stage[p] = "claimed" /\ stage'[p] \in {"working", "review", "settled"}
  \/ stage[p] = "working" /\ stage'[p] \in {"review", "settled"}
  \/ stage[p] = "review"  /\ stage'[p] \in {"working", "settled", "unknown"}
  \/ stage[p] = "settled" /\ stage'[p] \in {"review", "unknown"}

Stays(p) == stage'[p] = stage[p]

\* Only a prompt that was already claimed, and stays so, is pressed.
Presses(p) ==
  presses'[p] = presses[p] \/
  /\ stage[p] = "claimed" /\ stage'[p] = "claimed"
  /\ presses[p] = 0 /\ presses'[p] = 1

\* A prompt keeps its line and its place while it is in a line.
Keeps(p) == Unsettled(p) /\ stage'[p] # "unknown" => line'[p] = line[p] /\ place'[p] = place[p]

Next ==
  /\ \A p \in Prompts :
       /\ Submits(p) \/ Claims(p) \/ Follows(p) \/ Stays(p)
       /\ Presses(p)
       /\ Keeps(p)
  /\ \A p, q \in Prompts : Claims(p) /\ Claims(q) => p = q

Spec == Init /\ [][Next]_vars
=============================================================================
