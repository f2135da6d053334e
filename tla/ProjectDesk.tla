------------------------------ MODULE ProjectDesk ------------------------------
(****************************************************************************)
(* The desk that the browser shows beside the focused terminal: a context   *)
(* that is asked of the server and cached, notes kept under the workspace   *)
(* of the terminal until the context tells its project, and a scratchpad    *)
(* whose text is sent once it was reviewed.  Answers come late, in any      *)
(* order, or never; snapshots move the desk, unless text is selected.       *)
(*                                                                          *)
(* A target is an exact pane: one that is replaced never comes back.  Notes *)
(* stand for the project of the terminal beside which they were typed.      *)
(****************************************************************************)
EXTENDS Naturals, FiniteSets

CONSTANTS
  Panes,     \* exact panes with a terminal window
  Workspace, \* of each pane, the scope of its path
  Project,   \* of each pane, the scope of its repository, as the server tells it
  Texts,     \* what is typed into the scratchpad
  StartNotes,\* the scopes that may have notes at first
  MaxEdits,  \* bound: edits of the notes and the scratchpad
  MaxTrouble \* bound: failures, exits, selections, contexts that age

None == "none"
Nothing == [of |-> None, text |-> None]
Scopes == {Workspace[p] : p \in Panes} \cup {Project[p] : p \in Panes}

VARIABLES
  alive, listed, \* the panes there are, and those the last snapshot listed
  visible, focus,\* whether a window is open, and the terminal that is focused
  desk,          \* state.projectDesk and the texts on the screen
  cached, fresh, \* contextCache: panes with a context, and with one that is not too old
  requests,      \* requests for a context under way; current: its token is the last one
  selecting,     \* activePageTextSelection
  deferred,      \* selectionDeferredDomUpdates: a snapshot's render, the end of the last request
  send,          \* the prompt under way
  notes, drafts, \* the browser's storage
  spent          \* how much of each bound was used
server == <<alive, listed>>
store == <<notes, drafts>>
vars == <<server, visible, focus, desk, cached, fresh, requests, selecting, deferred, send, store, spent>>

Spend(bound, max) == spent[bound] < max /\ spent' = [spent EXCEPT ![bound] = @ + 1]
Edit == Spend("edits", MaxEdits)
Trouble == Spend("trouble", MaxTrouble)

---------------------------------------------------------------------------
(* The context of the target.                                              *)

Scope(p, known) == IF known THEN Project[p] ELSE Workspace[p]

\* No request that is under way is the last one any more.
Stale == {[r EXCEPT !.current = FALSE] : r \in requests}

\* loadProjectDeskContext, when the cache is too old or the operator refreshes.
Loading(d) == [d EXCEPT !.context = IF d.target \in cached THEN d.target ELSE @,
                        !.loading = TRUE, !.failed = FALSE]
Asked(d) == [of |-> d.target, fallback |-> d.target \in cached, current |-> TRUE]

\* The desk after it moved to another target.
Moved(next) ==
  [desk EXCEPT !.target = next, !.context = IF next \in cached THEN next ELSE None,
               !.failed = FALSE, !.loading = FALSE, !.review = Nothing, !.dirty = FALSE,
               !.scope = IF next = None THEN None ELSE Scope(next, next \in cached),
               !.notes = IF next = None THEN None ELSE notes[Scope(next, next \in cached)],
               !.draft = IF next = None THEN None ELSE drafts[next]]

Live(p, agents) == IF p \in agents THEN p ELSE None

\* syncProjectDesk, for the windows and agents there are now.
Sync(seen, p, agents, refresh, waiting) ==
  LET next == Live(p, agents)
      d    == IF next # desk.target THEN Moved(next) ELSE desk
      load == next # None /\ ~d.loading /\ (refresh \/ (next \notin fresh /\ ~d.failed))
      bump == load \/ next # desk.target
  IN  IF ~seen
      THEN desk' = [desk EXCEPT !.target = None, !.review = Nothing] /\ deferred' = waiting /\ UNCHANGED requests
      ELSE /\ desk' = IF load THEN Loading(d) ELSE d
           /\ requests' = IF load THEN Stale \cup {Asked(d)}
                          ELSE IF bump THEN Stale ELSE requests
           /\ deferred' = IF bump THEN [waiting EXCEPT !.ended = FALSE] ELSE waiting

\* Mistake: an answer is taken whatever was asked since.
AnyAnswer(r) == TRUE

\* Only the answer to the last request counts, while the desk has not moved.
IsLast(r) == r.current

\* adoptProjectNotesScope: notes that were typed, or that the project has none of, go to the project.
Adopted(d, p) ==
  [d EXCEPT !.scope = Project[p],
            !.notes = IF Project[p] # d.scope /\ ~d.dirty /\ notes[Project[p]] # None
                      THEN notes[Project[p]] ELSE @]
Adoption(d, p) ==
  IF Project[p] = d.scope \/ d.notes = None \/ (~d.dirty /\ notes[Project[p]] # None) THEN notes
  ELSE [notes EXCEPT ![Project[p]] = d.notes]

\* The end of a request waits until no text is selected.
Ended(d) == IF selecting THEN d ELSE [d EXCEPT !.loading = FALSE]
Defers == deferred' = [deferred EXCEPT !.ended = selecting]

Answered(r) ==
  /\ r.of \in alive /\ requests' = requests \ {r}
  /\ IF IsLast(r)
     THEN /\ cached' = cached \cup {r.of} /\ fresh' = fresh \cup {r.of} /\ Defers
          /\ desk' = Ended(Adopted([desk EXCEPT !.context = r.of, !.failed = FALSE], r.of))
          /\ notes' = Adoption(desk, r.of)
     ELSE UNCHANGED <<cached, fresh, desk, notes, deferred>>
  /\ UNCHANGED <<server, visible, focus, selecting, send, drafts, spent>>

\* The pane is gone, or the request fails or times out.
Failed(r) ==
  /\ (r.of \notin alive /\ UNCHANGED spent) \/ Trouble
  /\ requests' = requests \ {r}
  /\ IF IsLast(r)
     THEN /\ desk' = Ended([desk EXCEPT !.context = IF r.fallback THEN r.of ELSE None, !.failed = TRUE])
          /\ Defers
     ELSE UNCHANGED <<desk, deferred>>
  /\ UNCHANGED <<server, visible, focus, cached, fresh, selecting, send, store>>

Ages(p) ==
  /\ Trouble /\ p \in fresh /\ fresh' = fresh \ {p}
  /\ UNCHANGED <<server, visible, focus, desk, cached, requests, selecting, deferred, send, store>>

---------------------------------------------------------------------------
(* What moves the desk.                                                    *)

Focus(p) ==
  /\ p # focus \/ ~visible
  /\ focus' = p /\ visible' = TRUE /\ Sync(TRUE, p, listed, FALSE, deferred)
  /\ UNCHANGED <<server, cached, fresh, selecting, send, store, spent>>

CloseAll ==
  /\ Trouble /\ visible /\ visible' = FALSE /\ focus' = None /\ Sync(FALSE, None, listed, FALSE, deferred)
  /\ UNCHANGED <<server, cached, fresh, selecting, send, store>>

\* The button is disabled while a context loads.
Refresh ==
  /\ visible /\ desk.target # None /\ ~desk.loading /\ Sync(TRUE, focus, listed, TRUE, deferred)
  /\ UNCHANGED <<server, visible, focus, cached, fresh, selecting, send, store, spent>>

\* A snapshot is applied, and rendered unless text is selected.
Snapshot ==
  /\ listed' = alive
  /\ IF selecting
     THEN deferred' = [deferred EXCEPT !.render = TRUE] /\ UNCHANGED <<desk, requests>>
     ELSE Sync(visible, focus, alive, FALSE, [deferred EXCEPT !.render = FALSE])
  /\ UNCHANGED <<alive, visible, focus, cached, fresh, selecting, send, store, spent>>

\* What was deferred is done when the selection is over.
RenderLate ==
  /\ ~selecting /\ deferred.render
  /\ Sync(visible, focus, listed, FALSE, [deferred EXCEPT !.render = FALSE])
  /\ UNCHANGED <<server, visible, focus, cached, fresh, selecting, send, store, spent>>
EndLate ==
  /\ ~selecting /\ deferred.ended
  /\ deferred' = [deferred EXCEPT !.ended = FALSE] /\ desk' = [desk EXCEPT !.loading = FALSE]
  /\ UNCHANGED <<server, visible, focus, cached, fresh, requests, selecting, send, store, spent>>

---------------------------------------------------------------------------
(* The operator writes.                                                    *)

Writes(text) ==
  /\ Edit /\ desk.target # None /\ text # desk.notes
  /\ desk' = [desk EXCEPT !.notes = text, !.dirty = TRUE]
  /\ notes' = [notes EXCEPT ![desk.scope] = text]
  /\ UNCHANGED <<server, visible, focus, cached, fresh, requests, selecting, deferred, send, drafts>>

\* Mistake: a review outlives what it reviewed.
KeepsReview(text) == [desk EXCEPT !.draft = text]

\* What is typed, and a snippet that is inserted, is no longer what was reviewed.
Drafted(text) == [desk EXCEPT !.draft = text, !.review = Nothing]

Drafts(text) ==
  /\ Edit /\ desk.target # None /\ text # desk.draft /\ desk' = Drafted(text)
  /\ drafts' = [drafts EXCEPT ![desk.target] = text]
  /\ UNCHANGED <<server, visible, focus, cached, fresh, requests, selecting, deferred, send, notes>>

\* A pane that the last snapshot no longer lists moves the desk instead.
Review ==
  /\ desk.target # None /\ desk.draft # None /\ desk.review = Nothing
  /\ IF desk.target \in listed
     THEN /\ desk' = [desk EXCEPT !.review = [of |-> desk.target, text |-> desk.draft]]
          /\ UNCHANGED <<requests, deferred>>
     ELSE Sync(visible, focus, listed, FALSE, deferred)
  /\ UNCHANGED <<server, visible, focus, cached, fresh, selecting, send, store, spent>>

Confirm ==
  /\ desk.review # Nothing /\ send = Nothing
  /\ IF desk.review.of \in listed
     THEN send' = desk.review /\ UNCHANGED <<desk, requests, deferred>>
     ELSE Sync(visible, focus, listed, FALSE, deferred) /\ UNCHANGED send
  /\ UNCHANGED <<server, visible, focus, cached, fresh, selecting, store, spent>>

\* The scratchpad is emptied when it still has what was sent.
Sent ==
  /\ send # Nothing /\ send' = Nothing
  /\ \/ /\ send.of \in alive
        /\ desk' = [desk EXCEPT !.review = Nothing, !.draft = IF @ = send.text THEN None ELSE @]
        /\ drafts' = IF desk.draft = send.text THEN [drafts EXCEPT ![send.of] = None] ELSE drafts
     \/ UNCHANGED <<desk, drafts>>
  /\ UNCHANGED <<server, visible, focus, cached, fresh, requests, selecting, deferred, notes, spent>>

---------------------------------------------------------------------------
(* Around the desk.                                                        *)

Selects ==
  /\ selecting' = ~selecting /\ IF selecting THEN UNCHANGED spent ELSE Trouble
  /\ UNCHANGED <<server, visible, focus, desk, cached, fresh, requests, deferred, send, store>>

Exits(p) ==
  /\ Trouble /\ p \in alive /\ alive' = alive \ {p}
  /\ UNCHANGED <<listed, visible, focus, desk, cached, fresh, requests, selecting, deferred, send, store>>

\* The browser may have kept notes beside any terminal.
ProjectOf(s) == CHOOSE x \in {Project[p] : p \in Panes} : \E p \in Panes : x = Project[p] /\ s \in {x, Workspace[p]}
NotesOf(kept) == [s \in Scopes |-> IF s \in kept THEN ProjectOf(s) ELSE None]

Init ==
  /\ alive = Panes /\ listed = Panes /\ visible = FALSE /\ focus = None
  /\ desk = [target |-> None, context |-> None, failed |-> FALSE, loading |-> FALSE, review |-> Nothing,
             scope |-> None, dirty |-> FALSE, notes |-> None, draft |-> None]
  /\ cached = {} /\ fresh = {} /\ requests = {} /\ selecting = FALSE
  /\ deferred = [render |-> FALSE, ended |-> FALSE] /\ send = Nothing
  /\ \E kept \in StartNotes : notes = NotesOf(kept)
  /\ drafts = [p \in Panes |-> None] /\ spent = [edits |-> 0, trouble |-> 0]

Next ==
  \/ \E r \in requests : Answered(r) \/ Failed(r)
  \/ \E p \in Panes : Ages(p) \/ Exits(p)
  \/ \E p \in Panes \cup {None} : Focus(p)
  \/ CloseAll \/ Refresh \/ Snapshot \/ RenderLate \/ EndLate \/ Selects
  \/ desk.target # None /\ \E text \in {Project[desk.target], None} : Writes(text)
  \/ \E text \in Texts \cup {None} : Drafts(text)
  \/ Review \/ Confirm \/ Sent

Spec == Init /\ [][Next]_vars

---------------------------------------------------------------------------
\* Notes stay with the project beside which they were typed, and the desk shows no
\* context but that of its target, in whatever order the answers come; and a desk
\* that says it loads awaits an answer, so that its button does not stay disabled.
DeskIsOwn ==
  /\ \A p \in Panes : {notes[Workspace[p]], notes[Project[p]]} \subseteq {Project[p], None}
  /\ desk.target # None => desk.context \in {None, desk.target}
  /\ desk.target # None /\ desk.loading => deferred.ended \/ \E r \in requests : r.current

\* README.md: a draft cannot reach tmux until its text and its exact terminal were
\* reviewed: what is sent is what the scratchpad shows, to the pane it shows it for.
SentAsReviewed ==
  [][ send = Nothing /\ send' # Nothing =>
        desk.draft # None /\ send' = [of |-> desk.target, text |-> desk.draft] ]_vars
=============================================================================
