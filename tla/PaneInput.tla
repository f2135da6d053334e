----------------------------- MODULE PaneInput -----------------------------
(***************************************************************************)
(* What is typed into the terminal of one session.  Sends, picker keys,    *)
(* launcher prompts, resumes and usage panels take turns on a chain of     *)
(* promises that is kept per coordinate of tmux, while the pane there may  *)
(* be stopped and replaced at any time.  PromptQueue and MissionQueue have *)
(* the outcomes of a delivery in detail; here are its keys, and the other  *)
(* senders.                                                                *)
(***************************************************************************)
EXTENDS Naturals, Sequences

CONSTANTS
  Inputs,   \* requests for input
  Kinds,    \* what is asked for, of those below
  MaxPane   \* bound: panes that follow each other at the coordinate

NoInput == "no input"

VARIABLES
  paneNow,  \* the pane at the coordinate now, 0 if there is none
  panes,    \* panes so far
  input,    \* each request: kind, pane it is meant for, where it is, keys typed
  tail,     \* paneInputQueues: the last of the chain
  behind,   \* the input that each one on the chain waits for
  reserved, \* the direct send that has reserved the session
  reached   \* ghost: the panes that keys of each input reached
vars == <<paneNow, panes, input, tail, behind, reserved, reached>>

\* The keys of each kind, and which of them are sent after a look at the pane.
Keys ==
  [send    |-> <<"text", "text", "enter">>,  marked |-> <<"text", "text", "enter">>,
   picker  |-> <<"key">>,                    antigravityKey |-> <<"key">>,
   resume  |-> <<"text", "enter">>,          usage |-> <<"text", "enter", "escape">>]
LooksBefore(kind, n) ==
  \/ kind = "marked"
  \/ kind \in {"antigravityKey", "resume"} /\ n = 1

\* Marked text and keys for Antigravity are addressed to the pane by tmux's own id of it.
ByPaneId == {"marked", "antigravityKey"}

Fresh == [kind |-> "none", pane |-> 0, at |-> "new", typed |-> 0]
Move(i, at) == input' = [input EXCEPT ![i].at = at]
InTurn(i) == input[i].at \in {"turn", "looked"}

---------------------------------------------------------------------------
(* Before the turn.                                                        *)

\* A direct send reserves its session, in one step with its last check.
Ask(i, kind) ==
  /\ input[i].at = "new" /\ paneNow # 0
  /\ kind \in {"send", "picker"} => reserved = NoInput
  /\ input' = [input EXCEPT ![i] = [kind |-> kind, pane |-> paneNow, at |-> "asked", typed |-> 0]]
  /\ reserved' = IF kind = "send" THEN i ELSE reserved
  /\ UNCHANGED <<paneNow, panes, tail, behind, reached>>

\* The pane is looked up and compared, and protected from closing when its program exits.
Fits(i) ==
  /\ paneNow = input[i].pane
  /\ input[i].kind = "picker" => reserved = NoInput

\* enqueuePaneInput
Enqueue(i) ==
  /\ input[i].at = "asked" /\ Fits(i)
  /\ Move(i, "waits") /\ behind' = [behind EXCEPT ![i] = tail] /\ tail' = i
  /\ UNCHANGED <<paneNow, panes, reserved, reached>>

Unreserved(i) == reserved' = IF reserved = i THEN NoInput ELSE reserved
Refuse(i) ==
  /\ input[i].at = "asked" /\ ~Fits(i)
  /\ Move(i, "over") /\ Unreserved(i) /\ UNCHANGED <<paneNow, panes, tail, behind, reached>>

---------------------------------------------------------------------------
(* The turn.                                                               *)

\* Mistake: whoever ends takes the chain down, also when others wait on it.
ChainGone(i) == NoInput

\* The chain goes when its last input ends.
TailAfter(i) == IF tail = i THEN NoInput ELSE tail

Ends(i) ==
  /\ Move(i, "over") /\ Unreserved(i) /\ tail' = TailAfter(i)
  /\ behind' = [j \in Inputs |-> IF behind[j] = i THEN NoInput ELSE behind[j]]

Begin(i) ==
  /\ input[i].at = "waits" /\ behind[i] = NoInput
  /\ Move(i, "turn") /\ UNCHANGED <<paneNow, panes, tail, behind, reserved, reached>>

Look(i) ==
  /\ input[i].at = "turn" /\ LooksBefore(input[i].kind, input[i].typed + 1)
  /\ UNCHANGED <<paneNow, panes, reached>>
  /\ \/ paneNow = input[i].pane /\ Move(i, "looked") /\ UNCHANGED <<tail, behind, reserved>>
     \/ paneNow # input[i].pane /\ Ends(i)

\* What send-keys is given as its target.
Target(i) == IF input[i].kind \in ByPaneId THEN input[i].pane ELSE paneNow

\* tmux types the next key, if it has the target.
Key(i) ==
  /\ \/ input[i].at = "looked"
     \/ input[i].at = "turn" /\ ~LooksBefore(input[i].kind, input[i].typed + 1)
  /\ input[i].typed < Len(Keys[input[i].kind])
  /\ paneNow # 0 /\ Target(i) = paneNow
  /\ reached' = [reached EXCEPT ![i] = @ \cup {paneNow}]
  /\ input' = [input EXCEPT ![i].typed = @ + 1, ![i].at = "turn"]
  /\ UNCHANGED <<paneNow, panes, tail, behind, reserved>>

\* All keys are typed, tmux refuses one, or a confirmation fails.
Finish(i) ==
  /\ InTurn(i)
  /\ Ends(i) /\ UNCHANGED <<paneNow, panes, reached>>

---------------------------------------------------------------------------
(* stopSession, and createAgent or whoever else opens the session again.   *)

Stop ==
  /\ paneNow # 0 /\ paneNow' = 0 /\ UNCHANGED <<panes, input, tail, behind, reserved, reached>>
Create ==
  /\ paneNow = 0 /\ panes < MaxPane /\ panes' = panes + 1 /\ paneNow' = panes + 1
  /\ UNCHANGED <<input, tail, behind, reserved, reached>>

Init ==
  /\ paneNow = 1 /\ panes = 1
  /\ input = [i \in Inputs |-> Fresh] /\ behind = [i \in Inputs |-> NoInput]
  /\ tail = NoInput /\ reserved = NoInput /\ reached = [i \in Inputs |-> {}]
Next ==
  \/ \E i \in Inputs : Enqueue(i) \/ Refuse(i) \/ Begin(i) \/ Look(i) \/ Key(i) \/ Finish(i)
                     \/ \E kind \in Kinds : Ask(i, kind)
  \/ Stop \/ Create
Spec == Init /\ [][Next]_vars

---------------------------------------------------------------------------
\* docs/architecture.md: concurrent browser windows cannot merge keystrokes.  From the first
\* to the last key of one input no other types into that coordinate.
TypesAlone == \A i, j \in Inputs : InTurn(i) /\ InTurn(j) => i = j

\* Marked text and Antigravity's keys reach no other pane than the one they are for, whatever
\* happens between the look at the pane and the key.
ReachesOwnPane == \A i \in Inputs : input[i].kind \in ByPaneId => reached[i] \subseteq {input[i].pane}

\* Input is typed as a whole, and where it belongs.
InputIsOwn == TypesAlone /\ ReachesOwnPane
=============================================================================
