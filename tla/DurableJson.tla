----------------------------- MODULE DurableJson -----------------------------
(*****************************************************************************)
(* writeJsonAtomic of durable-json.js, as every store of PaneFleet uses it:  *)
(* a new file is written next to the target, synced, closed and renamed over *)
(* it, and the directory is synced.  Every step may fail, the process may be *)
(* killed and the power may fail between any two steps, and writes to one    *)
(* target may overlap.                                                       *)
(*                                                                           *)
(* A write stands for the value it writes.                                   *)
(*****************************************************************************)
EXTENDS Naturals, Sequences

CONSTANTS
  Writes,      \* calls of writeJsonAtomic for one target, each with its value
  MaxFaults    \* bound: kills, power failures and failed removals

ASSUME FaultBound == MaxFaults \in Nat

VARIABLES
  phase,    \* where a call stands
  temps,    \* the writes whose temporary file exists
  content,  \* what the file of a write holds
  synced,   \* the writes whose file is on the disk as it is
  renamed,  \* the writes renamed over the target, the last one is in it
  flushed,  \* how many of those renames the disk has
  faults

vars == <<phase, temps, content, synced, renamed, flushed, faults>>

InProgress == {"opened", "written", "synced", "closed", "renamed", "failed"}
Phases     == InProgress \cup {"idle", "returned", "thrown", "killed"}
Contents   == {"empty", "part", "whole"}

TypeOK ==
  /\ phase \in [Writes -> Phases]
  /\ temps \in SUBSET Writes
  /\ content \in [Writes -> Contents]
  /\ synced \in SUBSET Writes
  /\ renamed \in Seq(Writes)
  /\ flushed \in 0 .. Len(renamed)
  /\ faults \in 0 .. MaxFaults

Init ==
  /\ phase = [w \in Writes |-> "idle"] /\ content = [w \in Writes |-> "empty"]
  /\ temps = {} /\ synced = {} /\ renamed = <<>> /\ flushed = 0 /\ faults = 0

Step(w, from, to) == phase[w] = from /\ phase' = [phase EXCEPT ![w] = to]

\* The random name is new, so that O_EXCL only fails for other reasons.
Open(w) ==
  /\ Step(w, "idle", "opened")
  /\ temps' = temps \cup {w}
  /\ UNCHANGED <<content, synced, renamed, flushed, faults>>

WriteFile(w) ==
  /\ Step(w, "opened", "written")
  /\ content' = [content EXCEPT ![w] = "whole"]
  /\ UNCHANGED <<temps, synced, renamed, flushed, faults>>

Sync(w) ==
  /\ Step(w, "written", "synced")
  /\ synced' = synced \cup {w}
  /\ UNCHANGED <<temps, content, renamed, flushed, faults>>

Close(w) ==
  /\ Step(w, "synced", "closed")
  /\ UNCHANGED <<temps, content, synced, renamed, flushed, faults>>

Rename(w) ==
  /\ Step(w, "closed", "renamed")
  /\ renamed' = Append(renamed, w)
  /\ temps' = temps \ {w}
  /\ UNCHANGED <<content, synced, flushed, faults>>

SyncDirectory(w) ==
  /\ Step(w, "renamed", "returned")
  /\ flushed' = Len(renamed)
  /\ UNCHANGED <<temps, content, synced, renamed, faults>>

\* Any call of the file system fails; the write may have written a part.
StepFails(w) ==
  /\ phase[w] \in {"idle", "opened", "written", "synced", "closed", "renamed"}
  /\ phase' = [phase EXCEPT ![w] = "failed"]
  /\ \/ UNCHANGED content
     \/ phase[w] = "opened" /\ content' = [content EXCEPT ![w] = "part"]
  /\ UNCHANGED <<temps, synced, renamed, flushed, faults>>

Fault == faults < MaxFaults /\ faults' = faults + 1

\* An error of the removal is ignored.
CleanUpFails(w) ==
  /\ Step(w, "failed", "thrown")
  /\ Fault
  /\ UNCHANGED <<temps, content, synced, renamed, flushed>>

\* Mistake: a failed write removes the target.
CleanUpTarget(w) ==
  /\ Step(w, "failed", "thrown")
  /\ renamed' = SelectSeq(renamed, LAMBDA v : v # w)
  /\ flushed' = 0
  /\ temps' = temps \ {w}
  /\ UNCHANGED <<content, synced, faults>>

\* The failed call closes and removes its temporary file and throws.
CleanUp(w) ==
  /\ Step(w, "failed", "thrown")
  /\ temps' = temps \ {w}
  /\ UNCHANGED <<content, synced, renamed, flushed, faults>>

---------------------------------------------------------------------------
Stopped == [w \in Writes |-> IF phase[w] \in InProgress THEN "killed" ELSE phase[w]]

Crash == Fault /\ phase' = Stopped

\* What was handed to the system stays.
Killed ==
  /\ Crash
  /\ UNCHANGED <<temps, content, synced, renamed, flushed>>

\* Renames since the last sync of the directory may be lost, the latest first,
\* files that were not synced may hold anything, temporary files may stay or not.
PowerFails ==
  /\ Crash
  /\ \E n \in flushed .. Len(renamed) :
       /\ renamed' = SubSeq(renamed, 1, n)
       /\ flushed' = n
       /\ temps' \in SUBSET (temps \cup {renamed[i] : i \in n + 1 .. Len(renamed)})
  /\ content' \in {c \in [Writes -> Contents] : \A w \in synced : c[w] = content[w]}
  /\ UNCHANGED synced

Call(w) ==
  \/ Open(w) \/ WriteFile(w) \/ Sync(w) \/ Close(w) \/ Rename(w) \/ SyncDirectory(w)
  \/ StepFails(w) \/ CleanUp(w) \/ CleanUpFails(w)

Next == (\E w \in Writes : Call(w)) \/ Killed \/ PowerFails

Spec == Init /\ [][Next]_vars

---------------------------------------------------------------------------
(* Properties.                                                             *)

Index(w) == {i \in 1 .. Len(renamed) : renamed[i] = w}

\* Whoever opens the target, whenever, after whatever failure, finds one whole
\* value: the new file was on the disk before its name was.
TargetIsWhole == \A i \in 1 .. Len(renamed) : content[renamed[i]] = "whole"

\* A write that reported success survives a power failure, unless a later write
\* replaced it; one that failed before its rename was never seen.
ReportedIsDurable ==
  \A w \in Writes : phase[w] = "returned" => \E i \in Index(w) : i <= flushed

\* The three outcomes that a caller can see: success, with the value durable;
\* failure before the rename, with the target untouched; failure after it, with
\* the new value in the target although the caller is told of a failure.
File == INSTANCE AtomicFile WITH Versions <- Writes, versions <- renamed, sure <- flushed
ImplementsAtomicFile == File!Spec
=============================================================================
