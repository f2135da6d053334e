-------------------------- MODULE DurableJsonProofs --------------------------
(* For any number of overlapping writes and any number of crashes: the     *)
(* target is always one whole value, a reported write is durable, and the  *)
(* file behaves as AtomicFile promises.                                    *)
EXTENDS DurableJson, SequenceTheorems, TLAPS

\* A call has synced its file exactly when it says so, and what is synced is whole.
SyncedIsWhole ==
  /\ \A w \in synced : content[w] = "whole"
  /\ \A w \in Writes : phase[w] = "written" => content[w] = "whole"
  /\ \A w \in Writes : phase[w] \in {"synced", "closed"} => w \in synced
  /\ \A w \in Writes : phase[w] \in {"idle", "opened"} => w \notin synced

\* Only a synced file is renamed.
RenamedIsSynced == \A i \in 1 .. Len(renamed) : renamed[i] \in synced

\* A call that renamed its file finds it among the renames.
RenamedIsThere == \A w \in Writes : phase[w] = "renamed" => Index(w) # {}

Inv == TypeOK /\ SyncedIsWhole /\ RenamedIsSynced /\ RenamedIsThere /\ ReportedIsDurable

\* The invariant holds before any call.
LEMMA InitInv == Init => Inv
  BY FaultBound DEF Init, Inv, TypeOK, Phases, InProgress, Contents, SyncedIsWhole,
     RenamedIsSynced, RenamedIsThere, ReportedIsDurable

\* Types are kept by every step.
LEMMA TypeStep == TypeOK /\ [Next]_vars => TypeOK'
<1>1. SUFFICES ASSUME TypeOK, [Next]_vars PROVE TypeOK'
  OBVIOUS
<1> USE FaultBound DEF TypeOK, Phases, InProgress, Contents
<1>2. ASSUME NEW w \in Writes, Call(w) PROVE TypeOK'
  <2>1. CASE Rename(w)
    BY <1>1, <2>1 DEF Rename, Step
  <2>2. CASE SyncDirectory(w)
    BY <1>1, <2>2 DEF SyncDirectory, Step
  <2>3. CASE Open(w) \/ WriteFile(w) \/ Sync(w) \/ Close(w)
    BY <1>1, <2>3 DEF Open, WriteFile, Sync, Close, Step
  <2>4. CASE StepFails(w) \/ CleanUp(w)
    BY <1>1, <2>4 DEF StepFails, CleanUp, Step
  <2>5. CASE CleanUpFails(w)
    BY <1>1, <2>5 DEF CleanUpFails, Step, Fault
  <2> QED BY <1>2, <2>1, <2>2, <2>3, <2>4, <2>5 DEF Call
<1>3. CASE Killed
  BY <1>1, <1>3 DEF Killed, Crash, Fault, Stopped
<1>4. CASE PowerFails
  <2>1. PICK n \in flushed .. Len(renamed) :
          /\ renamed' = SubSeq(renamed, 1, n) /\ flushed' = n
          /\ temps' \in SUBSET (temps \cup {renamed[i] : i \in n + 1 .. Len(renamed)})
    BY <1>4 DEF PowerFails
  <2>2. n \in Nat /\ n <= Len(renamed)
    BY <1>1, <2>1
  <2>3. renamed' \in Seq(Writes) /\ Len(renamed') = n
    BY <1>1, <2>1, <2>2, SubSeqProperties
  <2>4. temps' \in SUBSET Writes
    BY <1>1, <2>1, <2>2
  <2> QED BY <1>1, <1>4, <2>1, <2>3, <2>4 DEF PowerFails, Crash, Fault, Stopped
<1>5. CASE UNCHANGED vars
  BY <1>1, <1>5 DEF vars
<1> QED BY <1>1, <1>2, <1>3, <1>4, <1>5 DEF Next

\* A call keeps the invariant.
LEMMA CallInv == ASSUME Inv, TypeOK', NEW w \in Writes, Call(w) PROVE Inv'
<1> USE DEF Inv, TypeOK
<1>1. CASE Rename(w)
  <2>1. /\ renamed' = Append(renamed, w) /\ Len(renamed') = Len(renamed) + 1
        /\ renamed'[Len(renamed) + 1] = w
        /\ \A i \in 1 .. Len(renamed) : renamed'[i] = renamed[i]
    BY <1>1, AppendProperties DEF Rename
  <2>2. SyncedIsWhole' /\ w \in synced /\ UNCHANGED <<synced, flushed>>
    BY <1>1 DEF Rename, Step, SyncedIsWhole
  <2>3. RenamedIsSynced'
    BY <2>1, <2>2 DEF RenamedIsSynced
  <2>4. RenamedIsThere'
    BY <1>1, <2>1 DEF RenamedIsThere, Rename, Step, Index
  <2>5. ReportedIsDurable'
    BY <1>1, <2>1, <2>2 DEF ReportedIsDurable, Rename, Step, Index
  <2> QED BY <2>2, <2>3, <2>4, <2>5
<1>2. CASE SyncDirectory(w)
  <2>1. SyncedIsWhole' /\ RenamedIsSynced' /\ RenamedIsThere'
    BY <1>2 DEF SyncDirectory, Step, SyncedIsWhole, RenamedIsSynced, RenamedIsThere, Index
  <2>2. ReportedIsDurable'
    BY <1>2 DEF SyncDirectory, Step, ReportedIsDurable, RenamedIsThere, Index
  <2> QED BY <2>1, <2>2
<1>3. CASE Open(w) \/ WriteFile(w) \/ Sync(w) \/ Close(w)
  <2>1. UNCHANGED <<renamed, flushed>> /\ synced \subseteq synced'
    BY <1>3 DEF Open, WriteFile, Sync, Close
  <2>2. \A v \in Writes : phase'[v] \in {"renamed", "returned"} => phase'[v] = phase[v]
    BY <1>3 DEF Open, WriteFile, Sync, Close, Step
  <2>3. SyncedIsWhole'
    BY <1>3 DEF Open, WriteFile, Sync, Close, Step, SyncedIsWhole
  <2> QED BY <2>1, <2>2, <2>3 DEF RenamedIsSynced, RenamedIsThere, ReportedIsDurable, Index
<1>4. CASE StepFails(w) \/ CleanUp(w) \/ CleanUpFails(w)
  <2>1. UNCHANGED <<renamed, flushed, synced>>
    BY <1>4 DEF StepFails, CleanUp, CleanUpFails
  <2>2. \A v \in Writes : phase'[v] \in {"renamed", "returned"} => phase'[v] = phase[v]
    BY <1>4 DEF StepFails, CleanUp, CleanUpFails, Step
  <2>3. SyncedIsWhole'
    BY <1>4 DEF StepFails, CleanUp, CleanUpFails, Step, SyncedIsWhole
  <2> QED BY <2>1, <2>2, <2>3 DEF RenamedIsSynced, RenamedIsThere, ReportedIsDurable, Index
<1> QED BY <1>1, <1>2, <1>3, <1>4 DEF Call

\* So does a crash, of the process or of the power.
LEMMA CrashInv == ASSUME Inv, TypeOK', Killed \/ PowerFails PROVE Inv'
<1> USE DEF Inv, TypeOK
<1>1. \A w \in Writes : /\ phase'[w] \notin {"written", "synced", "closed", "opened", "renamed"}
                        /\ phase'[w] \in {"idle", "returned"} => phase'[w] = phase[w]
  BY DEF Killed, PowerFails, Crash, Stopped, InProgress
<1>2. synced' = synced /\ \A w \in synced : content'[w] = content[w]
  BY DEF Killed, PowerFails
<1>3. SyncedIsWhole' /\ RenamedIsThere'
  BY <1>1, <1>2 DEF SyncedIsWhole, RenamedIsThere
<1>4. CASE Killed
  BY <1>1, <1>2, <1>3, <1>4 DEF Killed, RenamedIsSynced, ReportedIsDurable, Index
<1>5. CASE PowerFails
  <2>1. PICK n \in flushed .. Len(renamed) : renamed' = SubSeq(renamed, 1, n) /\ flushed' = n
    BY <1>5 DEF PowerFails
  <2>2. n \in Nat /\ n <= Len(renamed) /\ flushed <= n
    BY <2>1
  <2>3. Len(renamed') = n /\ \A i \in 1 .. n : renamed'[i] = renamed[i]
    BY <2>1, <2>2, SubSeqProperties
  <2>4. RenamedIsSynced'
    BY <1>2, <2>2, <2>3 DEF RenamedIsSynced
  <2>5. ReportedIsDurable'
    BY <1>1, <2>1, <2>2, <2>3 DEF ReportedIsDurable, Index
  <2> QED BY <1>3, <2>4, <2>5
<1> QED BY <1>4, <1>5

\* What every state of the file satisfies.
THEOREM FileInvariant == Spec => []Inv
<1>1. Inv /\ [Next]_vars => Inv'
  <2>1. SUFFICES ASSUME Inv, [Next]_vars PROVE Inv'
    OBVIOUS
  <2>2. TypeOK'
    BY <2>1, TypeStep DEF Inv
  <2>3. CASE \E w \in Writes : Call(w)
    BY <2>1, <2>2, <2>3, CallInv
  <2>4. CASE Killed \/ PowerFails
    BY <2>1, <2>2, <2>4, CrashInv
  <2>5. CASE UNCHANGED vars
    BY <2>1, <2>5 DEF vars, Inv, TypeOK, SyncedIsWhole, RenamedIsSynced, RenamedIsThere,
       ReportedIsDurable, Index
  <2> QED BY <2>1, <2>3, <2>4, <2>5 DEF Next
<1> QED BY <1>1, InitInv, PTL DEF Spec

\* The target is one whole value after any failure.
THEOREM TargetIsWholeHolds == Spec => []TargetIsWhole
<1>1. Inv => TargetIsWhole
  BY DEF Inv, RenamedIsSynced, SyncedIsWhole, TargetIsWhole
<1> QED BY <1>1, FileInvariant, PTL

\* A write that reported success is durable.
THEOREM ReportedIsDurableHolds == Spec => []ReportedIsDurable
<1>1. Inv => ReportedIsDurable
  BY DEF Inv
<1> QED BY <1>1, FileInvariant, PTL

\* writeJsonAtomic implements the file it promises.
THEOREM Refinement == Spec => ImplementsAtomicFile
<1>1. Init => File!Init
  BY DEF Init, File!Init
<1>2. ASSUME [Next]_vars PROVE [File!Next]_<<renamed, flushed>>
  <2>1. ASSUME NEW w \in Writes, Rename(w) PROVE File!Next
    BY <2>1 DEF Rename, File!Next, File!Replace
  <2>2. ASSUME NEW w \in Writes, SyncDirectory(w) PROVE File!Next
    BY <2>2 DEF SyncDirectory, File!Next, File!Confirm
  <2>3. ASSUME NEW w \in Writes, Call(w), ~Rename(w), ~SyncDirectory(w)
        PROVE UNCHANGED <<renamed, flushed>>
    BY <2>3 DEF Call, Open, WriteFile, Sync, Close, StepFails, CleanUp, CleanUpFails
  <2>4. ASSUME Killed PROVE UNCHANGED <<renamed, flushed>>
    BY <2>4 DEF Killed
  <2>5. ASSUME PowerFails PROVE File!Next
    BY <2>5 DEF PowerFails, File!Next, File!PowerFails
  <2>6. ASSUME UNCHANGED vars PROVE UNCHANGED <<renamed, flushed>>
    BY <2>6 DEF vars
  <2> QED BY <1>2, <2>1, <2>2, <2>3, <2>4, <2>5, <2>6 DEF Next
<1> QED BY <1>1, <1>2, PTL DEF Spec, ImplementsAtomicFile, File!Spec
=============================================================================
