------------------------------ MODULE Histories ------------------------------
(*****************************************************************************)
(* Two stores that are written behind the requests that change them: the     *)
(* samples of what every agent did (recordAgentSample, saveAgentSamples),    *)
(* written at most once in a while, and the last interactions with every     *)
(* agent (recordAgentInteraction, saveAgentInteractions), written again when *)
(* they changed during a write.                                              *)
(*                                                                           *)
(* A store is the number of its changes.                                     *)
(*****************************************************************************)
EXTENDS Naturals

CONSTANTS
  Snapshots,    \* snapshots in progress at one time
  MaxChanges,   \* bound: changes of each store
  MaxTrouble    \* bound: failed writes and snapshots, restarts

VARIABLES
  samples,   \* agentSampleStore, and what the file holds
  dirty,     \* agentSampleDirty
  due,       \* whether AGENT_SAMPLE_PERSIST_MS have passed since the last write
  timer,     \* agentSampleWriteTimer
  writing,   \* agentSampleWritePending: "no", about to write, or what it writes
  seen,      \* the snapshots that have recorded what they saw and not yet saved
  left,      \* ghost: a snapshot failed after it recorded
  stopping,  \* whether the end of the process was asked for, and what it waits for
  talks,     \* agentInteractionStore, and what the file holds
  again,     \* agentInteractionDirty
  saving,    \* agentInteractionWritePending, as for the samples
  missed,    \* ghost: the last write of the interactions failed
  trouble

sampleVars == <<samples, dirty, due, timer, writing, seen, left, stopping>>
talkVars   == <<talks, again, saving, missed>>
vars == <<samples, dirty, due, timer, writing, seen, left, stopping, talks, again, saving, missed, trouble>>

Stored(n) == [memory |-> n, disk |-> n]
No        == [at |-> "no", value |-> 0]
About     == [at |-> "about", value |-> 0]
Holds(n)  == [at |-> "writes", value |-> n]

Init ==
  /\ samples = Stored(0) /\ dirty = FALSE /\ due = TRUE /\ timer = FALSE /\ writing = No
  /\ seen = {} /\ left = FALSE /\ stopping = "no"
  /\ talks = Stored(0) /\ again = FALSE /\ saving = No /\ missed = FALSE /\ trouble = 0

Trouble == trouble < MaxTrouble /\ trouble' = trouble + 1
Runs    == stopping # "stopped"

---------------------------------------------------------------------------
\* A snapshot records what its agents do.
Record(q) ==
  /\ Runs /\ q \notin seen /\ samples.memory < MaxChanges
  /\ samples' = [samples EXCEPT !.memory = @ + 1]
  /\ dirty' = TRUE
  /\ seen' = seen \cup {q}
  /\ UNCHANGED <<due, timer, writing, left, stopping, talkVars, trouble>>

\* saveAgentSamples, after the store changed or not, with the timer set or not.
Save(changed, set) ==
  IF ~changed \/ writing # No THEN timer' = set /\ dirty' = changed /\ UNCHANGED writing
  ELSE IF ~due THEN timer' = TRUE /\ dirty' = changed /\ UNCHANGED writing
  ELSE timer' = FALSE /\ writing' = About /\ dirty' = FALSE

\* pruneAgentSampleStore removes the history of sessions that are gone.
Prunes(pruned) ==
  IF pruned THEN samples.memory < MaxChanges /\ samples' = [samples EXCEPT !.memory = @ + 1]
  ELSE UNCHANGED samples

SnapshotSaves(q) ==
  /\ Runs /\ q \in seen
  /\ seen' = seen \ {q} /\ left' = FALSE
  /\ \E pruned \in BOOLEAN : Prunes(pruned) /\ Save(dirty \/ pruned, timer)
  /\ UNCHANGED <<due, stopping, talkVars, trouble>>

SnapshotFails(q) ==
  /\ Runs /\ q \in seen
  /\ Trouble
  /\ seen' = seen \ {q} /\ left' = TRUE
  /\ UNCHANGED <<samples, dirty, due, timer, writing, stopping, talkVars>>

TimerFires ==
  /\ Runs /\ timer /\ due
  /\ Save(dirty, FALSE)
  /\ UNCHANGED <<samples, due, seen, left, stopping, talkVars, trouble>>

TimePasses ==
  /\ ~due /\ due' = TRUE
  /\ UNCHANGED <<samples, dirty, timer, writing, seen, left, stopping, talkVars, trouble>>

\* When the directory is there, the store as it is now is written.
Write ==
  /\ Runs /\ writing = About
  /\ writing' = Holds(samples.memory)
  /\ UNCHANGED <<samples, dirty, due, timer, seen, left, stopping, talkVars, trouble>>

\* Mistake: what changed during the write counts as written.
AllWritten(changed) == FALSE

\* Only what changes after a write began is still to be written.
StillDirty(changed) == changed

Written ==
  /\ Runs /\ writing.at = "writes"
  /\ samples' = [samples EXCEPT !.disk = writing.value]
  /\ writing' = No /\ due' = FALSE
  /\ dirty' = StillDirty(dirty)
  /\ timer' = (timer \/ dirty')
  /\ stopping' = IF stopping = "last" THEN "stopped" ELSE stopping
  /\ UNCHANGED <<seen, left, talkVars, trouble>>

\* The change is written later; the end of the process does not wait for that.
WriteFails ==
  /\ Runs /\ writing # No
  /\ Trouble
  /\ writing' = No /\ dirty' = TRUE /\ due' = FALSE /\ timer' = TRUE
  /\ stopping' = IF stopping = "no" THEN "no" ELSE "stopped"
  /\ UNCHANGED <<samples, seen, left, talkVars>>

\* shutdownServer, saveAgentSamples with force: it does not wait for the time,
\* but for a write in progress, unless nothing has changed since that began.
Shutdown ==
  /\ stopping = "no" \/ (stopping = "waits" /\ writing = No)
  /\ IF ~dirty THEN stopping' = "stopped" /\ UNCHANGED <<dirty, timer, writing>>
     ELSE IF writing # No THEN stopping' = "waits" /\ UNCHANGED <<dirty, timer, writing>>
     ELSE stopping' = "last" /\ timer' = FALSE /\ writing' = About /\ dirty' = FALSE
  /\ UNCHANGED <<samples, due, seen, left, talkVars, trouble>>

---------------------------------------------------------------------------
\* recordAgentInteraction; during a write it returns at once.
Interact ==
  /\ Runs /\ talks.memory < MaxChanges
  /\ talks' = [talks EXCEPT !.memory = @ + 1]
  /\ IF saving # No THEN again' = TRUE /\ UNCHANGED saving ELSE again' = FALSE /\ saving' = About
  /\ UNCHANGED <<sampleVars, missed, trouble>>

SaveTalks ==
  /\ Runs /\ saving = About
  /\ saving' = Holds(talks.memory)
  /\ UNCHANGED <<sampleVars, talks, again, missed, trouble>>

\* saveAgentInteractions: until nothing changed during a write.
TalksSaved ==
  /\ Runs /\ saving.at = "writes"
  /\ talks' = [talks EXCEPT !.disk = saving.value]
  /\ saving' = IF again THEN About ELSE No
  /\ again' = FALSE /\ missed' = FALSE
  /\ UNCHANGED <<sampleVars, trouble>>

\* They are written with the next interaction.
SaveTalksFails ==
  /\ Runs /\ saving # No
  /\ Trouble
  /\ saving' = No /\ missed' = TRUE
  /\ UNCHANGED <<sampleVars, talks, again>>

\* ensureAgentSamples, ensureAgentInteractions.
Restart ==
  /\ Trouble
  /\ samples' = Stored(samples.disk) /\ talks' = Stored(talks.disk)
  /\ dirty' = FALSE /\ due' \in BOOLEAN /\ timer' = FALSE /\ writing' = No
  /\ seen' = {} /\ left' = FALSE /\ stopping' = "no"
  /\ again' = FALSE /\ saving' = No /\ missed' = FALSE

---------------------------------------------------------------------------
Next ==
  \/ \E q \in Snapshots : Record(q) \/ SnapshotSaves(q) \/ SnapshotFails(q)
  \/ TimerFires \/ TimePasses \/ Write \/ Written \/ WriteFails \/ Shutdown
  \/ Interact \/ SaveTalks \/ TalksSaved \/ SaveTalksFails
  \/ Restart

Spec == Init /\ [][Next]_vars

---------------------------------------------------------------------------
\* While PaneFleet runs, what memory has and the file has not is being written,
\* or is still marked as changed; the samples that are marked have a write in
\* progress, a timer, or a snapshot to save them, and an interaction recorded
\* during a write is in the write after it, unless a write or a snapshot failed.
NothingIsForgotten ==
  Runs =>
    /\ samples.memory # samples.disk => dirty \/ writing = About \/ writing = Holds(samples.memory)
    /\ dirty => writing # No \/ timer \/ seen # {} \/ left
    /\ talks.memory # talks.disk =>
         saving = About \/ saving = Holds(talks.memory) \/ (again /\ saving # No) \/ missed

=============================================================================
