------------------------------ MODULE MCBrowsers ------------------------------
(* Small instances of what the operators see and type: SnapshotStream with    *)
(* two browsers, TerminalWindows, ProjectDesk and Notifications.  A behaviour *)
(* belongs to one of them, and the others rest at a first state.              *)
EXTENDS SnapshotStream, TLC

CONSTANTS
  Windows, WindowPanes, WindowTexts, Reselects, MaxToken,                    \* TerminalWindows
  DeskPanes, Workspace, Project, DeskTexts, StartNotes, MaxEdits, MaxTrouble,\* ProjectDesk
  Missions, EventLimit, StateLimit, OutboxLimit, MaxEvents, MaxNoticeTime    \* Notifications

VARIABLES
  which,
  window, polls, hidden, windowsSelecting, windowsDeferred, sends, draft,    \* TerminalWindows
  alive, listed, visible, focus, desk, contexts, fresh, requests, selecting,
  deferred, send, notes, drafts, deskSpent,                                  \* ProjectDesk
  statusOf, eventLog, answered, time, entered                                \* Notifications

windowsVars == <<window, polls, hidden, windowsSelecting, windowsDeferred, sends, draft>>
deskVars    == <<alive, listed, visible, focus, desk, contexts, fresh, requests, selecting,
                 deferred, send, notes, drafts, deskSpent>>
noticesVars == <<statusOf, eventLog, answered, time, entered>>

---------------------------------------------------------------------------
Symmetric == Permutations(Browsers) \cup Permutations(Conns) \cup Permutations(Keys)

Terminals == INSTANCE TerminalWindows WITH
  selecting <- windowsSelecting, deferred <- windowsDeferred, Panes <- WindowPanes, Texts <- WindowTexts

\* Two terminals, each in a repository of its own; the notes may be of before it was one.
Repository == [p |-> "project of p", q |-> "project of q"]
Path       == [p |-> "path of p", q |-> "path of q"]
OldNotes   == {{"project of p"}, {"path of q", "project of q"}}
Desk == INSTANCE ProjectDesk WITH
  cached <- contexts, spent <- deskSpent, Panes <- DeskPanes, Texts <- DeskTexts

Notices == INSTANCE Notifications WITH MaxNow <- MaxNoticeTime

\* A path is in one repository, so that terminals with a scope in common share their project.
ASSUME DeskAssumption ==
  /\ Desk!None \notin DeskPanes
  /\ \A p, q \in DeskPanes :
       {Workspace[p], Project[p]} \cap {Workspace[q], Project[q]} # {} => Project[p] = Project[q]
ASSUME WindowsBounds == MaxToken \in Nat
ASSUME NoticesBounds == IsFiniteSet(Missions) /\ EventLimit \in Nat \ {0} /\ OutboxLimit \in Nat

---------------------------------------------------------------------------
BrowsersInit ==
  /\ which \in {"stream", "terminals", "desk", "notices"}
  /\ Init /\ Terminals!Init /\ Desk!Init /\ Notices!Init
  /\ which # "desk" => notes = Desk!NotesOf(CHOOSE kept \in StartNotes : TRUE)

BrowsersNext ==
  /\ UNCHANGED which
  /\ IF which = "stream"    THEN Next           ELSE UNCHANGED vars
  /\ IF which = "terminals" THEN Terminals!Next ELSE UNCHANGED windowsVars
  /\ IF which = "desk"      THEN Desk!Next      ELSE UNCHANGED deskVars
  /\ IF which = "notices"   THEN Notices!Next   ELSE UNCHANGED noticesVars

BrowsersSpec ==
  BrowsersInit /\ [][BrowsersNext]_<<which, vars, windowsVars, deskVars, noticesVars>>

---------------------------------------------------------------------------
(* The properties of the instances; SnapshotStream has its own.            *)

\* TerminalWindows: a window shows its own pane and goes on asking for it.
FollowsPane == Terminals!FollowsPane

\* ProjectDesk: context, notes and text on the desk are those of its terminal.
DeskIsOwn == Desk!DeskIsOwn

\* ProjectDesk: what is sent is the text that was reviewed, to the target it was reviewed for.
SentAsReviewed == Desk!SentAsReviewed

\* Notifications: trouble that nobody answered is noticed, what was answered is not.
NoticesAreDue == Notices!NoticesAreDue
=============================================================================
