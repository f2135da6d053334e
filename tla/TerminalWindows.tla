-------------------------- MODULE TerminalWindows --------------------------
(***************************************************************************)
(* The windows that a browser opens on one session, one after the other:   *)
(* each polls its pane while it can be seen, applies what it gets later    *)
(* while the operator selects text, and stops after three misses.  What is *)
(* typed into a window is a draft in the browser's storage until it is     *)
(* sent.  Requests outlive the window that made them.                      *)
(***************************************************************************)
EXTENDS Naturals, FiniteSets

CONSTANTS
  Windows,   \* items of state.terminalWindows, in the order in which they are opened
  Panes,     \* coordinates of panes of the session
  Texts,     \* what the operator types
  Reselects, \* whether text is selected while a stopped window still awaits an answer
  MaxToken   \* bound: how often a window is turned to a pane

None == "none"

VARIABLES
  window,     \* each window's item
  polls,      \* captures under way: window, its token and pane when it asked
  hidden,     \* document.hidden
  selecting,  \* activePageTextSelection
  deferred,   \* selectionDeferredDomUpdates, of each window's key
  sends,      \* inputs under way: window and text
  draft       \* the stored draft of the session
vars == <<window, polls, hidden, selecting, deferred, sends, draft>>

Unopened == [at |-> "new", token |-> 0, pane |-> None, pollInFlight |-> FALSE, timer |-> FALSE,
             minimized |-> FALSE, paused |-> FALSE, failures |-> 0, unavailable |-> FALSE,
             shown |-> None, text |-> None]

IsOpen(w) == window[w].at = "open"
Opened == {w \in Windows : IsOpen(w)}
Polls(item) == ~(item.minimized \/ item.paused \/ item.unavailable)

\* scheduleTerminalRefresh
Scheduled(item) == IF Polls(item) THEN [item EXCEPT !.timer = ~hidden] ELSE item

\* refreshTerminalWindow begins: the item and the captures after it.
Refreshes(item) == item.at = "open" /\ Polls(item) /\ ~item.pollInFlight /\ ~hidden
Refreshed(item) == IF Refreshes(item) THEN [item EXCEPT !.pollInFlight = TRUE, !.timer = FALSE] ELSE item
Asked(w, item) ==
  IF Refreshes(item) THEN polls \cup {[window |-> w, token |-> item.token, pane |-> item.pane]} ELSE polls

Become(w, item) == window' = [window EXCEPT ![w] = item]

---------------------------------------------------------------------------
(* Windows.                                                                *)

\* Mistake: the capture under way is left to end.
StillInFlight(item, pane) == [item EXCEPT !.pane = pane, !.token = @ + 1, !.failures = 0,
                                          !.unavailable = FALSE, !.shown = None, !.minimized = FALSE]

\* startLiveDetail turns the window to a pane.
Turned(item, pane) == [item EXCEPT !.pane = pane, !.token = @ + 1, !.pollInFlight = FALSE, !.failures = 0,
                                   !.unavailable = FALSE, !.shown = None, !.minimized = FALSE]

Open(pane) ==
  /\ Opened = {}
  /\ \E w \in Windows :
       LET item == [Unopened EXCEPT !.at = "open", !.token = 1, !.pane = pane, !.text = draft]
       IN  /\ window[w].at = "new" /\ Become(w, Refreshed(item)) /\ polls' = Asked(w, item)
  /\ UNCHANGED <<hidden, selecting, deferred, sends, draft>>

\* restoreTerminalWindow schedules, and then the refresh starts at once.
Turn(w, pane) ==
  /\ IsOpen(w) /\ window[w].token < MaxToken
  /\ LET item == Scheduled(Turned(window[w], pane))
     IN  Become(w, Refreshed(item)) /\ polls' = Asked(w, item)
  /\ UNCHANGED <<hidden, selecting, deferred, sends, draft>>

Close(w) ==
  /\ IsOpen(w) /\ Become(w, [window[w] EXCEPT !.at = "closed", !.timer = FALSE, !.token = @ + 1])
  /\ UNCHANGED <<polls, hidden, selecting, deferred, sends, draft>>

Minimize(w) ==
  /\ IsOpen(w) /\ ~window[w].minimized
  /\ Become(w, [window[w] EXCEPT !.minimized = TRUE, !.timer = FALSE])
  /\ UNCHANGED <<polls, hidden, selecting, deferred, sends, draft>>
Restore(w) ==
  /\ IsOpen(w) /\ window[w].minimized
  /\ Become(w, Scheduled([window[w] EXCEPT !.minimized = FALSE]))
  /\ UNCHANGED <<polls, hidden, selecting, deferred, sends, draft>>

Pause(w) ==
  /\ IsOpen(w) /\ ~window[w].paused /\ ~window[w].unavailable
  /\ Become(w, [window[w] EXCEPT !.paused = TRUE, !.timer = FALSE])
  /\ UNCHANGED <<polls, hidden, selecting, deferred, sends, draft>>
\* Also Retry, for a pane that is unavailable.
Resume(w) ==
  /\ IsOpen(w) /\ (window[w].paused \/ window[w].unavailable)
  /\ LET item == [window[w] EXCEPT !.paused = FALSE, !.unavailable = FALSE,
                                   !.failures = IF window[w].unavailable THEN 0 ELSE @]
     IN  Become(w, Refreshed(item)) /\ polls' = Asked(w, item)
  /\ UNCHANGED <<hidden, selecting, deferred, sends, draft>>

\* The page is hidden and seen again.
Hide ==
  /\ ~hidden /\ hidden' = TRUE
  /\ window' = [w \in Windows |-> IF IsOpen(w) THEN [window[w] EXCEPT !.timer = FALSE] ELSE window[w]]
  /\ UNCHANGED <<polls, selecting, deferred, sends, draft>>
Seen ==
  /\ hidden /\ hidden' = FALSE
  /\ window' = [w \in Windows |-> IF IsOpen(w) /\ Polls(window[w]) THEN [window[w] EXCEPT !.timer = TRUE]
                                  ELSE window[w]]
  /\ UNCHANGED <<polls, selecting, deferred, sends, draft>>

---------------------------------------------------------------------------
(* Captures.                                                               *)

TimerFires(w) ==
  /\ window[w].timer
  /\ LET item == [window[w] EXCEPT !.timer = FALSE]
     IN  Become(w, Refreshed(item)) /\ polls' = Asked(w, item)
  /\ UNCHANGED <<hidden, selecting, deferred, sends, draft>>

\* Whether an answer is still wanted.
Wanted(item, token) == item.at = "open" /\ token = item.token /\ ~item.paused

\* The three answers to a capture, terminalCaptureFailureTransition.
Update(item, answer) ==
  IF ~Wanted(item, answer.token) THEN item
  ELSE CASE answer.result = "output" ->
              IF item.minimized THEN item
              ELSE [item EXCEPT !.shown = answer.pane, !.failures = 0, !.unavailable = FALSE]
         [] answer.result = "pane_not_found" ->
              [item EXCEPT !.failures = IF @ < 3 THEN @ + 1 ELSE 3, !.unavailable = item.failures >= 2, !.shown = None]
         [] answer.result = "error" -> [item EXCEPT !.failures = 0, !.unavailable = FALSE, !.shown = None]

\* The update is deferred while text is selected; the request ends all the same.
Answered(p, result) ==
  LET w      == p.window
      answer == [token |-> p.token, pane |-> p.pane, result |-> result]
      defers == selecting /\ (result = "output" \/ Wanted(window[w], p.token))
      item   == IF selecting THEN window[w] ELSE Update(window[w], answer)
  IN  /\ polls' = polls \ {p}
      /\ deferred' = [deferred EXCEPT ![w] = IF defers THEN {answer}
                                             ELSE IF selecting THEN @ ELSE {}]
      /\ Become(w, IF IsOpen(w) /\ p.token = window[w].token
                   THEN Scheduled([item EXCEPT !.pollInFlight = FALSE]) ELSE item)
      /\ UNCHANGED <<hidden, selecting, sends, draft>>

Select ==
  /\ ~selecting /\ (Reselects \/ \A p \in polls : ~window[p.window].unavailable)
  /\ selecting' = TRUE /\ UNCHANGED <<window, polls, hidden, deferred, sends, draft>>
Unselect ==
  /\ selecting /\ selecting' = FALSE
  /\ window' = [w \in Windows |-> IF deferred[w] = {} THEN window[w]
                                  ELSE Update(window[w], CHOOSE answer \in deferred[w] : TRUE)]
  /\ deferred' = [w \in Windows |-> {}]
  /\ UNCHANGED <<polls, hidden, sends, draft>>

---------------------------------------------------------------------------
(* Drafts.                                                                 *)

Sending(w) == \E s \in sends : s.window = w

Type(w, text) ==
  /\ IsOpen(w) /\ ~Sending(w)
  /\ Become(w, [window[w] EXCEPT !.text = text]) /\ draft' = text
  /\ UNCHANGED <<polls, hidden, selecting, deferred, sends>>

Send(w) ==
  /\ IsOpen(w) /\ ~Sending(w) /\ window[w].text # None
  /\ sends' = sends \cup {[window |-> w, text |-> window[w].text]}
  /\ UNCHANGED <<window, polls, hidden, selecting, deferred, draft>>

\* The text is cleared, in its window and in the storage, unless the window has another one.
Sent(s) ==
  /\ sends' = sends \ {s}
  /\ IF window[s.window].text = s.text
     THEN Become(s.window, [window[s.window] EXCEPT !.text = None]) /\ draft' = None
     ELSE UNCHANGED <<window, draft>>
  /\ UNCHANGED <<polls, hidden, selecting, deferred>>
NotSent(s) == sends' = sends \ {s} /\ UNCHANGED <<window, polls, hidden, selecting, deferred, draft>>

---------------------------------------------------------------------------
Init ==
  /\ window = [w \in Windows |-> Unopened] /\ polls = {} /\ hidden = FALSE /\ selecting = FALSE
  /\ deferred = [w \in Windows |-> {}] /\ sends = {} /\ draft = None
Next ==
  \/ Hide \/ Seen \/ Select \/ Unselect
  \/ \E pane \in Panes : Open(pane) \/ \E w \in Windows : Turn(w, pane)
  \/ \E w \in Windows : Close(w) \/ Minimize(w) \/ Restore(w) \/ Pause(w) \/ Resume(w) \/ TimerFires(w) \/ Send(w)
  \/ \E w \in Windows, text \in Texts : Type(w, text)
  \/ \E p \in polls, result \in {"output", "pane_not_found", "error"} : Answered(p, result)
  \/ \E s \in sends : Sent(s) \/ NotSent(s)
Spec == Init /\ [][Next]_vars

---------------------------------------------------------------------------
\* refreshTerminalWindow: a window that can be seen is never left without its next capture.
NeverStalls ==
  \A w \in Opened : Polls(window[w]) /\ ~hidden =>
    window[w].timer \/ \E p \in polls : p.window = w /\ p.token = window[w].token

\* The output in a window is that of the pane it is turned to, although answers are late, deferred
\* and overtaken.
ShowsOwnPane == \A w \in Opened : window[w].shown \in {None, window[w].pane}

\* A window goes on to follow its pane, and no other.
FollowsPane == NeverStalls /\ ShowsOwnPane

---------------------------------------------------------------------------
(* Statements of the documentation that the code does not always keep.       *)

\* docs/features.md:25 "Preserves unsent drafts": the text in the window is the one a reload restores.
DraftsArePreserved == \A w \in Opened : draft = window[w].text
=============================================================================
